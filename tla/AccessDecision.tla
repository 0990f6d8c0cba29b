--------------------------- MODULE AccessDecision ---------------------------
(***************************************************************************)
(* The access matrix of access/decide.ts as an operator: what one look at  *)
(* the rack means.  Faces are counted, not named; the time a visitor has   *)
(* been standing there is only compared with the capture grace period.     *)
(***************************************************************************)
EXTENDS Integers

\* What decideAccess is given.  lapsed: presence held for the grace period;
\* known, unknown: the faces of the capture; opens: door edges of this episode.
\* Faces only come from a capture, and an edge only from a door that is watched.
Look(MaxFaces, MaxOpens) ==
    {i \in [present : BOOLEAN, lapsed : BOOLEAN, captured : BOOLEAN,
            known : 0..MaxFaces, unknown : 0..MaxFaces,
            doorObserved : BOOLEAN, opens : 0..MaxOpens, incident : BOOLEAN] :
        /\ i.captured \/ (i.known = 0 /\ i.unknown = 0)
        /\ i.doorObserved \/ i.opens = 0}

Verdicts == {"idle", "pending-capture", "tailgating", "unauthorized-during-incident",
             "anti-passback", "challenge", "expected", "clear"}

Faces(i) == i.known + i.unknown

AwaitingCapture(i) == ~i.captured \/ Faces(i) = 0

\* A lapsed grace period and a picture without a face both count as no answer.
Unanswered(i) == AwaitingCapture(i) /\ (i.lapsed \/ i.captured)

\* doorConsistent === false: the door is watched and did not open.
NoDoorEdge(i) == i.doorObserved /\ i.opens = 0

\* (mutant) off by one: a single companion without a door edge goes unnoticed.
TailgatingByTwo(i) == i.opens >= 1 /\ Faces(i) > i.opens + 1

Tailgating(i) == i.opens >= 1 /\ Faces(i) > i.opens

\* (mutant) one face on the roster vouches for everyone.
VouchedVerdict(i) ==
    IF ~i.present THEN "idle"
    ELSE IF AwaitingCapture(i) THEN "pending-capture"
    ELSE IF i.known > 0 /\ i.incident THEN "expected"
    ELSE IF i.unknown > 0 /\ i.incident THEN "unauthorized-during-incident"
    ELSE IF NoDoorEdge(i) THEN "anti-passback"
    ELSE IF i.unknown > 0 THEN "challenge"
    ELSE "clear"

\* The priority order of the matrix.
Verdict(i) ==
    IF ~i.present THEN "idle"
    ELSE IF AwaitingCapture(i) THEN "pending-capture"
    ELSE IF Tailgating(i) THEN "tailgating"
    ELSE IF i.unknown > 0 /\ i.incident THEN "unauthorized-during-incident"
    ELSE IF NoDoorEdge(i) THEN "anti-passback"
    ELSE IF i.unknown > 0 THEN "challenge"
    ELSE IF i.incident THEN "expected"
    ELSE "clear"

\* 0 ok, 1 warning, 2 critical.
Severity(i) ==
    IF Verdict(i) \in {"tailgating", "unauthorized-during-incident"} THEN 2
    ELSE IF Verdict(i) \in {"anti-passback", "challenge"} THEN 1
    ELSE IF Verdict(i) = "pending-capture" /\ Unanswered(i) THEN IF i.incident THEN 2 ELSE 1
    ELSE 0

\* (mutant) silence is never put to a human.
RequiredOnceCaptured(i) ==
    Verdict(i) \in {"tailgating", "unauthorized-during-incident", "anti-passback", "challenge"}

ApprovalRequired(i) ==
    \/ Verdict(i) = "pending-capture" /\ Unanswered(i)
    \/ Verdict(i) \in {"tailgating", "unauthorized-during-incident", "anti-passback", "challenge"}

SuppressesEscalation(i) == Verdict(i) = "expected"
=============================================================================
