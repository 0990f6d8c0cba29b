--------------------------- MODULE AtomicRegister ---------------------------
(***************************************************************************)
(* What common/atomic-write.ts promises of a state file: a write happens   *)
(* at one instant or not at all, and a read shows the file as some write   *)
(* left it.                                                                *)
(***************************************************************************)
CONSTANTS
    Calls,    \* calls of writeFileAtomic, each with contents of its own
    Initial   \* the contents before the first

VARIABLES
    value,    \* the contents of the file
    status    \* what has become of each call

vars == <<value, status>>

Init ==
    /\ value = Initial
    /\ status = [c \in Calls |-> "ready"]

Begin(c) ==
    /\ status[c] = "ready"
    /\ status' = [status EXCEPT ![c] = "pending"]
    /\ UNCHANGED value

\* The only step that changes the file: a call replaces it and has succeeded.
Replace(c) ==
    /\ status[c] = "pending"
    /\ status' = [status EXCEPT ![c] = "done"]
    /\ value' = c

\* Calls that fail, or die with their process, leave no trace in the file.
Fail ==
    /\ \E lost \in SUBSET {c \in Calls : status[c] = "pending"} :
        status' = [c \in Calls |-> IF c \in lost THEN "failed" ELSE status[c]]
    /\ UNCHANGED value

Next == Fail \/ \E c \in Calls : Begin(c) \/ Replace(c)

Spec == Init /\ [][Next]_vars
=============================================================================
