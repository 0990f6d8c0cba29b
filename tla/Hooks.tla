------------------------------- MODULE Hooks --------------------------------
(***************************************************************************)
(* What stands around the model server: the acknowledgement hook and the   *)
(* failover hook of the gateway, and the supervisor that brings the server  *)
(* back.  The failover hook is checked against a server that comes and goes *)
(* as it likes, which is more than any supervisor does; so a behavior is    *)
(* about one of the three.                                                 *)
(***************************************************************************)
EXTENDS FailoverHook, Sequences

CONSTANTS Turns, Earlier, MaxItems, Supervisors, MaxTrouble

\* What stands for a missing copy of a file is no copy.
ASSUME HooksAssumption ==
    /\ Turns \cap Earlier = {} /\ MaxItems \in Nat
    /\ None \notin Seq(Turns \cup Earlier)
    /\ None \notin [started : SUBSET Turns, learned : SUBSET Turns]

VARIABLES
    who, \* "ack", "failover" or "supervisor"
    sessions, queue, sending, ending, flush, noted, held, old, arrived, unsure, dropped,
    harmed, shared, blurred,
    loading, slow, mutex, at, trouble

Ack == INSTANCE AckHook WITH turn <- sending, NoFile <- None
Super == INSTANCE Supervisor WITH NoOne <- None

ack == <<sessions, queue, sending, ending, flush, noted, held, old, arrived, unsure, dropped,
         harmed, shared, blurred>>
super == <<loading, slow, mutex, at, trouble>>
hooks == <<who, vars, ack, super>>

HooksInit ==
    /\ who \in {"ack", "failover", "supervisor"}
    /\ HookInit /\ (who # "failover" => devices = {} /\ timeout = CHOOSE t \in Timeouts : TRUE)
    /\ Ack!AckInit /\ (who # "ack" => queue = <<>>)
    /\ Super!SuperInit /\ (who # "supervisor" => ~loading /\ ~slow)
    /\ who = "ack" => listener = "none"

Acks(act) == who = "ack" /\ act /\ UNCHANGED <<who, vars, super>>
Failovers(act) == who = "failover" /\ act /\ UNCHANGED <<who, ack, super>>
Supers(act) == who = "supervisor" /\ act /\ UNCHANGED <<who, hook, ack>>

HooksNext ==
    \/ Acks(Ack!AckNext)
    \/ Failovers(HookNext \/ ServerChanges)
    \/ Supers(Super!SuperNext)

\* The fairness of FailoverHook and of Supervisor, each for its behaviors.
HooksFairness ==
    /\ \A q \in Questions :
        /\ WF_hooks(Failovers(Enter(q)))
        /\ WF_hooks(Failovers(Return(q)))
        /\ WF_hooks(Failovers(Tell(q)))
        /\ WF_hooks(Failovers(Work(q)))
    /\ WF_hooks(Supers(Super!Loads))
    /\ WF_hooks(Supers(Super!CannotBind))
    /\ \A s \in Supervisors : WF_hooks(Supers(Super!Supervise(s)))

HooksSpec == HooksInit /\ [][HooksNext]_hooks /\ HooksFairness

LateNotLost == Ack!LateNotLost
ReceiptsOnlyLate == Ack!OnlyLate
ServerReturns == who = "supervisor" => Super!ServerReturns
=============================================================================
