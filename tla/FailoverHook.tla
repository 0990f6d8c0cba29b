---------------------------- MODULE FailoverHook ----------------------------
(***************************************************************************)
(* The phone failover of the Hermes gateway (hermes-hooks/failover): a      *)
(* question that finds the model server's port closed is put to the phone   *)
(* over adb, one at a time.  The hook is a coroutine that waits, with a     *)
(* limit, for a worker thread; giving up does not stop the thread.  The     *)
(* model server is somebody else's (Supervisor): .listener is only read.    *)
(***************************************************************************)
EXTENDS Integers, FiniteSets

CONSTANTS
    Questions,  \* inbound messages, each with its own turn
    None,       \* no question
    Failure,    \* said instead of an answer
    Timeouts,   \* settings of HERMES_FAILOVER_TIMEOUT, in seconds
    MaxPlugs    \* bound on cables plugged and pulled

ASSUME HookAssumption ==
    /\ None \notin Questions /\ Failure \notin Questions /\ None # Failure
    /\ Timeouts \subseteq Nat
    /\ MaxPlugs \in Nat

VARIABLES
    listener,  \* who listens on the model server's port
    turn,      \* the coroutine of a question
    lock,      \* _LOCK: the question whose turn holds it
    worker,    \* the thread of a question
    prompt,    \* the question in the prompt file on the phone
    genie,     \* inferences on the phone: for whom, and on what
    result,    \* what a worker brought back
    said,      \* what was sent for a question
    devices,   \* what adb can run commands on
    serial,    \* _serial_cache
    timeout,   \* the budget of this process
    plugs

hook == <<turn, lock, worker, prompt, genie, result, said, devices, serial, timeout, plugs>>
vars == <<listener, hook>>

Devices == {"phone", "board"}
Serials == Devices \cup {"unset", "default"}
TurnStates == {"idle", "queued", "running", "telling", "told", "ignored"}
Busy == {"pushing", "clearing", "starting", "waiting"}
WorkerStates == Busy \cup {"none", "answered", "failed"}
-----------------------------------------------------------------------------
(* The limits, in seconds.                                                  *)

DevicesLimit == 10
BundleLimit == 3 * 2
PushLimit == 15
CleanupLimit == 10
Slack == 15

Larger(a, b) == IF a > b THEN a ELSE b

\* The longest a worker can take: the first call also looks for the phone, and the
\* shell has what is left of the budget but never less than five seconds.
LongestRun(t) ==
    LET before == DevicesLimit + BundleLimit + PushLimit
    IN  before + Larger(5, t - before) + CleanupLimit

\* wait_for ends before the thread can be relied on to have ended.
Overruns(t) == LongestRun(t) > t + Slack
-----------------------------------------------------------------------------
\* Only a refused connection means down.
Refused == listener = "none"

\* The serial of the device that answers: one pinned, or adb's own choice, which
\* it makes only when there is no choice.
Answering(s) ==
    IF s = "default"
    THEN IF Cardinality(devices) = 1 THEN devices ELSE {}
    ELSE devices \cap {s}

\* _pick_serial: the only device there is, or the one that carries the bundle.
\* Nothing usable, or a failed listing, leaves the choice to adb.
Pick ==
    IF serial # "unset" THEN {serial}
    ELSE {"default"} \cup (IF Cardinality(devices) = 1 THEN devices ELSE devices \cap {"phone"})

-----------------------------------------------------------------------------
(* The coroutine.                                                           *)

\* agent:start.  A server that listens, or a port that does not answer, is left to
\* the gateway.
Ask(q) ==
    /\ turn[q] = "idle"
    /\ turn' = [turn EXCEPT ![q] = IF Refused THEN "queued" ELSE "ignored"]
    /\ UNCHANGED <<listener, lock, worker, prompt, genie, result, said, devices, serial, timeout, plugs>>

\* (mutant) the lock is not waited for.
LockFreeAlways == TRUE

LockFree == lock = None

Enter(q) ==
    /\ turn[q] = "queued" /\ LockFree
    /\ lock' = q
    /\ turn' = [turn EXCEPT ![q] = "running"]
    /\ worker' = [worker EXCEPT ![q] = "pushing"]
    /\ UNCHANGED <<listener, prompt, genie, result, said, devices, serial, timeout, plugs>>

\* (mutant) a failed run is not reported.
OutcomeSilent(q) == IF worker[q] = "answered" THEN result[q] ELSE None

Outcome(q) == IF worker[q] = "answered" THEN result[q] ELSE Failure

Leave(q, what) ==
    /\ lock' = None
    /\ said' = [said EXCEPT ![q] = what]
    /\ turn' = [turn EXCEPT ![q] = "telling"]
    /\ UNCHANGED <<listener, worker, prompt, genie, result, devices, serial, timeout, plugs>>

Return(q) ==
    /\ turn[q] = "running" /\ worker[q] \in {"answered", "failed"}
    /\ Leave(q, Outcome(q))

\* wait_for: the thread goes on without the lock.
GiveUp(q) ==
    /\ turn[q] = "running" /\ worker[q] \in Busy
    /\ Overruns(timeout)
    /\ Leave(q, Failure)

\* The wall and Telegram, an error of either ignored.
Tell(q) ==
    /\ turn[q] = "telling"
    /\ turn' = [turn EXCEPT ![q] = "told"]
    /\ UNCHANGED <<listener, lock, worker, prompt, genie, result, said, devices, serial, timeout, plugs>>
-----------------------------------------------------------------------------
(* The worker, _phone_answer, and failover.sh on the phone.                 *)

Fails(q) == worker' = [worker EXCEPT ![q] = "failed"]

Push(q) ==
    /\ worker[q] = "pushing"
    /\ serial' \in Pick
    /\ \/ /\ "phone" \in Answering(serial')
          /\ prompt' = q
          /\ worker' = [worker EXCEPT ![q] = "clearing"]
       \/ /\ Fails(q)
          /\ UNCHANGED prompt
    /\ UNCHANGED <<listener, turn, lock, genie, result, said, devices, timeout, plugs>>

\* Two devices and not exactly one with a bundle: nothing is cached.
PickFails(q) ==
    /\ worker[q] = "pushing" /\ serial = "unset" /\ Cardinality(devices) > 1
    /\ Fails(q)
    /\ UNCHANGED <<listener, turn, lock, prompt, genie, result, said, devices, serial, timeout, plugs>>

\* The script kills what it finds before it starts ...
Clear(q) ==
    /\ worker[q] = "clearing" /\ "phone" \in Answering(serial)
    /\ genie' = {}
    /\ worker' = [worker EXCEPT ![q] = "starting"]
    /\ UNCHANGED <<listener, turn, lock, prompt, result, said, devices, serial, timeout, plugs>>

\* ... and genie-t2t-run reads the prompt file when it starts.
Start(q) ==
    /\ worker[q] = "starting"
    /\ genie' = genie \cup {[for |-> q, on |-> prompt]}
    /\ worker' = [worker EXCEPT ![q] = "waiting"]
    /\ UNCHANGED <<listener, turn, lock, prompt, result, said, devices, serial, timeout, plugs>>

Mine(q) == {g \in genie : g.for = q}

Answer(q) ==
    /\ worker[q] = "waiting"
    /\ \E g \in Mine(q) :
        /\ result' = [result EXCEPT ![q] = g.on]
        /\ genie' = genie \ {g}
    /\ worker' = [worker EXCEPT ![q] = "answered"]
    /\ UNCHANGED <<listener, turn, lock, prompt, said, devices, serial, timeout, plugs>>

\* The shell ends without an answer: the inference was killed or failed, or the
\* phone is gone, and then the inference may stay behind.
ShellFails(q) ==
    /\ worker[q] \in {"clearing", "starting", "waiting"}
    /\ Fails(q)
    /\ genie' \in {genie, genie \ Mine(q)}
    /\ UNCHANGED <<listener, turn, lock, prompt, result, said, devices, serial, timeout, plugs>>

\* The shell's time is up: pkill spares none, or does not reach the phone.
TimesOut(q) ==
    /\ worker[q] \in {"clearing", "starting", "waiting"}
    /\ Fails(q)
    /\ genie' \in {{}, genie}
    /\ UNCHANGED <<listener, turn, lock, prompt, result, said, devices, serial, timeout, plugs>>

Work(q) ==
    \/ Push(q) \/ PickFails(q) \/ Clear(q) \/ Start(q) \/ Answer(q)
    \/ ShellFails(q) \/ TimesOut(q)
-----------------------------------------------------------------------------
Plug ==
    /\ plugs < MaxPlugs
    /\ \E d \in Devices :
        devices' = IF d \in devices THEN devices \ {d} ELSE devices \cup {d}
    /\ plugs' = plugs + 1
    /\ UNCHANGED <<listener, turn, lock, worker, prompt, genie, result, said, serial, timeout>>

HookInit ==
    /\ turn = [q \in Questions |-> "idle"]
    /\ lock = None
    /\ worker = [q \in Questions |-> "none"]
    /\ prompt = None
    /\ genie = {}
    /\ result = [q \in Questions |-> None]
    /\ said = [q \in Questions |-> None]
    /\ devices \in SUBSET Devices
    /\ serial = "unset"
    /\ timeout \in Timeouts
    /\ plugs = 0

Turn(q) == Ask(q) \/ Enter(q) \/ Return(q) \/ GiveUp(q) \/ Tell(q)

HookNext == Plug \/ \E q \in Questions : Turn(q) \/ Work(q)

\* Every call has a time limit, the event loop runs what is ready, and the lock is
\* handed on in the order it was asked for.
HookFairness ==
    \A q \in Questions :
        /\ WF_vars(Enter(q))
        /\ WF_vars(Return(q))
        /\ WF_vars(Tell(q))
        /\ WF_vars(Work(q))

Listeners == {"none", "geniex", "other"}

\* The server comes and goes as it likes.
ServerChanges == listener' \in Listeners /\ UNCHANGED hook

Spec == listener \in Listeners /\ HookInit /\ [][HookNext \/ ServerChanges]_vars
-----------------------------------------------------------------------------
TypeOK ==
    /\ listener \in Listeners
    /\ turn \in [Questions -> TurnStates]
    /\ lock \in Questions \cup {None}
    /\ worker \in [Questions -> WorkerStates]
    /\ prompt \in Questions \cup {None}
    /\ genie \in SUBSET [for : Questions, on : Questions \cup {None}]
    /\ result \in [Questions -> Questions \cup {None}]
    /\ said \in [Questions -> Questions \cup {None, Failure}]
    /\ devices \subseteq Devices
    /\ serial \in Serials
    /\ timeout \in Timeouts
    /\ plugs \in Nat

\* Whatever is cut off, killed, unplugged or left running, and however questions
\* overlap: the phone works for one question at a time and nobody is given the answer
\* to somebody else's question ("one genie process on the phone at a time"), as long
\* as the budget leaves the worker time to end before the lock is given back.
PhoneIsOwned ==
    ~Overruns(timeout) =>
        /\ \A q, r \in Questions : worker[q] \in Busy /\ worker[r] \in Busy => q = r
        /\ \A q \in Questions : said[q] \in {None, Failure, q}

\* A question that found the server down is answered or told why not: silence is
\* what the hook exists to replace.
EveryoneIsTold ==
    \A q \in Questions : turn[q] = "queued" ~> turn[q] = "told" /\ said[q] # None
=============================================================================
