----------------------------- MODULE Supervisor -----------------------------
(***************************************************************************)
(* scripts/geniex-supervisor.ps1: keeps the model server alive.  It looks   *)
(* at the port every 15 s; a server that does not listen is killed, started *)
(* and given 45 s to load.                                                  *)
(***************************************************************************)
EXTENDS Integers

CONSTANTS
    Supervisors, \* windows in which the script may be started
    NoOne,       \* nobody holds the mutex
    MaxTrouble   \* bound on crashes, Ctrl-C and intrusions on the port

VARIABLES
    listener,  \* who listens on the port: "none", "geniex" or "other"
    loading,   \* a geniex process was started and does not listen yet
    slow,      \* a model may need more than 45 s to load
    mutex,     \* the holder of the named mutex
    at,        \* where a supervisor is
    trouble

vars == <<listener, loading, slow, mutex, at, trouble>>

Places == {"off", "looking", "killing", "starting", "loadwait", "resting", "exited"}
-----------------------------------------------------------------------------
(* The model server and whoever else wants its port.                        *)

Loads ==
    /\ loading /\ listener = "none"
    /\ loading' = FALSE
    /\ listener' = "geniex"
    /\ UNCHANGED <<slow, mutex, at, trouble>>

\* A second server cannot bind and ends.
CannotBind ==
    /\ loading /\ listener # "none"
    /\ loading' = FALSE
    /\ UNCHANGED <<listener, slow, mutex, at, trouble>>

Crash ==
    /\ trouble < MaxTrouble
    /\ \/ listener = "geniex" /\ listener' = "none" /\ UNCHANGED loading
       \/ loading /\ loading' = FALSE /\ UNCHANGED listener
    /\ trouble' = trouble + 1
    /\ UNCHANGED <<slow, mutex, at>>

Intruder ==
    /\ trouble < MaxTrouble
    /\ \/ listener = "none" /\ listener' = "other"
       \/ listener = "other" /\ listener' = "none"
    /\ trouble' = trouble + 1
    /\ UNCHANGED <<loading, slow, mutex, at>>
-----------------------------------------------------------------------------
Goes(s, place) == at' = [at EXCEPT ![s] = place]

MutexFree == mutex = NoOne

Begin(s) ==
    /\ at[s] \in {"off", "exited"}
    /\ IF MutexFree
       THEN mutex' = s /\ Goes(s, "looking")
       ELSE Goes(s, "exited") /\ UNCHANGED mutex
    /\ at' # at
    /\ UNCHANGED <<listener, loading, slow, trouble>>

Alive == listener = "geniex"

Look(s) ==
    /\ at[s] = "looking"
    /\ Goes(s, IF Alive THEN "resting" ELSE "killing")
    /\ UNCHANGED <<listener, loading, slow, mutex, trouble>>

\* Every geniex process, whatever it is doing.
Kill(s) ==
    /\ at[s] = "killing"
    /\ loading' = FALSE
    /\ listener' = IF listener = "geniex" THEN "none" ELSE listener
    /\ Goes(s, "starting")
    /\ UNCHANGED <<slow, mutex, trouble>>

Start(s) ==
    /\ at[s] = "starting"
    /\ loading' = TRUE
    /\ Goes(s, "loadwait")
    /\ UNCHANGED <<listener, slow, mutex, trouble>>

\* (mutant) the next look follows at once.
GraceOverAlways == TRUE

\* The 45 s are over; a model that is not slow has loaded by then.
GraceOver == slow \/ ~loading

LoadWait(s) ==
    /\ at[s] = "loadwait" /\ GraceOver
    /\ Goes(s, "looking")
    /\ UNCHANGED <<listener, loading, slow, mutex, trouble>>

Rest(s) ==
    /\ at[s] = "resting"
    /\ Goes(s, "looking")
    /\ UNCHANGED <<listener, loading, slow, mutex, trouble>>

\* Ctrl-C: finally releases the mutex; the server goes on.
Stop(s) ==
    /\ at[s] \notin {"off", "exited"} /\ trouble < MaxTrouble
    /\ Goes(s, "off")
    /\ mutex' = NoOne
    /\ trouble' = trouble + 1
    /\ UNCHANGED <<listener, loading, slow>>

Supervise(s) == Look(s) \/ Kill(s) \/ Start(s) \/ LoadWait(s) \/ Rest(s)
-----------------------------------------------------------------------------
SuperInit ==
    /\ listener \in {"none", "geniex", "other"}
    /\ loading \in {x \in BOOLEAN : x => listener = "none"}
    /\ slow \in BOOLEAN
    /\ mutex = NoOne
    /\ at = [s \in Supervisors |-> "off"]
    /\ trouble = 0

SuperNext ==
    \/ Loads \/ CannotBind \/ Crash \/ Intruder
    \/ \E s \in Supervisors : Begin(s) \/ Supervise(s) \/ Stop(s)

\* The loop of a running script goes on; a load ends when it is left alone.
SuperFairness ==
    /\ WF_vars(Loads)
    /\ WF_vars(CannotBind)
    /\ \A s \in Supervisors : WF_vars(Supervise(s))

SuperSpec == SuperInit /\ [][SuperNext]_vars /\ SuperFairness
-----------------------------------------------------------------------------
TypeOK ==
    /\ listener \in {"none", "geniex", "other"}
    /\ loading \in BOOLEAN
    /\ slow \in BOOLEAN
    /\ mutex \in Supervisors \cup {NoOne}
    /\ at \in [Supervisors -> Places]
    /\ trouble \in 0..MaxTrouble

Watched == \E s \in Supervisors : at[s] \notin {"off", "exited"}

\* However often it crashes while it serves or loads, and however many supervisors
\* are started: a server under supervision that loads within the 45 s and has its
\* port to itself is up again and stays up ("Keeps GenieX alive"; "two supervisors
\* is worse than none").
ServerReturns ==
    (~slow /\ <>[]Watched /\ <>[](listener # "other")) => <>[]Alive
=============================================================================
