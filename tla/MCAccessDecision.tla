-------------------------- MODULE MCAccessDecision --------------------------
(***************************************************************************)
(* Explores the access matrix one observation at a time: the state is what *)
(* the sentry currently knows, and a step is one more thing it learns.     *)
(***************************************************************************)
EXTENDS AccessDecision

CONSTANTS
    MaxFaces,   \* enrolled faces, and strangers, a picture shows at most
    MaxOpens    \* door edges an episode leaves at most

ASSUME MaxAssumption == MaxFaces \in Nat /\ MaxOpens \in Nat

VARIABLE look

Init == look \in Look(MaxFaces, MaxOpens)

StrangerAppears ==
    look.captured /\ look.unknown < MaxFaces /\ look' = [look EXCEPT !.unknown = @ + 1]
ColleagueAppears ==
    look.captured /\ look.known < MaxFaces /\ look' = [look EXCEPT !.known = @ + 1]
IncidentBegins == ~look.incident /\ look' = [look EXCEPT !.incident = TRUE]
GraceLapses == ~look.lapsed /\ look' = [look EXCEPT !.lapsed = TRUE]
DoorOpens ==
    look.opens < MaxOpens /\ look' = [look EXCEPT !.doorObserved = TRUE, !.opens = @ + 1]
Captures == ~look.captured /\ look' = [look EXCEPT !.captured = TRUE]

Next ==
    \/ StrangerAppears
    \/ ColleagueAppears
    \/ IncidentBegins
    \/ GraceLapses
    \/ DoorOpens
    \/ Captures

Spec == Init /\ [][Next]_look
-----------------------------------------------------------------------------
\* Somebody is at the rack and the capture shows a face that is not enrolled.
StrangerSeen(i) == i.present /\ i.captured /\ i.unknown > 0

\* The matrix never holds a page back for a face it does not know, without an
\* incident, for more people than doors, or past a door that did not open
\* (decide.ts: suppressesEscalation is never true when any face is unknown).
SuppressOnlyForRoster ==
    SuppressesEscalation(look) =>
        /\ look.present /\ look.captured /\ look.incident
        /\ look.unknown = 0 /\ look.known > 0
        /\ look.doorObserved => look.opens >= look.known

\* One more stranger in a picture that was already answered never makes the
\* finding milder, never withdraws a question already put to a human and never
\* starts to hold pages back: nobody is cover for anybody. Nor does an incident
\* that begins while a stranger, or somebody who does not answer, is at the rack
\* make the finding milder or withdraw the question.
WorseNeverCalms ==
    [][ /\ \/ StrangerAppears /\ look.present /\ ~AwaitingCapture(look)
           \/ IncidentBegins /\ (StrangerSeen(look) \/ Unanswered(look))
        => /\ Severity(look') >= Severity(look)
           /\ ApprovalRequired(look) => ApprovalRequired(look')
           /\ StrangerAppears => ~SuppressesEscalation(look')]_look

\* A lone stranger gains nothing by refusing the picture: once the grace period
\* has lapsed, silence is at least as severe as the face would have been, and is
\* put to a human too (decide.ts: the non-cooperating intruder).
RefusalNotCheaper ==
    LET silent == [look EXCEPT !.captured = FALSE, !.lapsed = TRUE, !.known = 0, !.unknown = 0]
        shown == [look EXCEPT !.captured = TRUE, !.known = 0, !.unknown = 1]
    IN  look.present =>
            /\ Severity(silent) >= Severity(shown)
            /\ ApprovalRequired(shown) => ApprovalRequired(silent)
=============================================================================
