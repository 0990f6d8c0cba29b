--------------------------- MODULE DecisionProofs --------------------------
(***************************************************************************)
(* The pure decisions, proved for every observation they may be given: the  *)
(* access matrix for pictures with any number of faces and episodes with    *)
(* any number of door edges, the incident assessment for every combination  *)
(* of signals, and the validation of a rule for every scale and every log.  *)
(***************************************************************************)
EXTENDS MCDecisions, AscendingProofs

-----------------------------------------------------------------------------
(* The access matrix.                                                       *)

\* What the sentry knows is always an observation the matrix is defined for.
TypeInv == look \in Look(MaxFaces, MaxOpens)

LEMMA TypeInvariant == DecisionSpec => []TypeInv
<1> USE MaxAssumption
<1>1. DecisionInit => TypeInv
  <2>1. CASE about = "access"
    BY <2>1 DEF DecisionInit, Init, TypeInv
  <2>2. NoLook \in Look(MaxFaces, MaxOpens)
    <3>1. 0 \in 0..MaxFaces /\ 0 \in 0..MaxOpens
      OBVIOUS
    <3>2. NoLook.known = 0 /\ NoLook.unknown = 0 /\ NoLook.opens = 0
      BY DEF NoLook
    <3> QED
      BY <3>1, <3>2, Zenon DEF NoLook, Look
  <2> QED
    BY <2>1, <2>2 DEF DecisionInit, TypeInv
<1>2. TypeInv /\ [Next]_look => TypeInv'
  <2> SUFFICES ASSUME TypeInv, [Next]_look PROVE TypeInv'
    OBVIOUS
  <2> USE DEF TypeInv, Look
  <2>1. CASE StrangerAppears
    BY <2>1 DEF StrangerAppears
  <2>2. CASE ColleagueAppears
    BY <2>2 DEF ColleagueAppears
  <2>3. CASE IncidentBegins
    BY <2>3 DEF IncidentBegins
  <2>4. CASE GraceLapses
    BY <2>4 DEF GraceLapses
  <2>5. CASE DoorOpens
    <3>1. look.opens + 1 \in 0..MaxOpens /\ look.opens + 1 # 0
      BY <2>5 DEF DoorOpens
    <3>2. look' = [look EXCEPT !.doorObserved = TRUE, !.opens = look.opens + 1]
      BY <2>5 DEF DoorOpens
    <3> QED
      BY <3>1, <3>2
  <2>6. CASE Captures
    BY <2>6 DEF Captures
  <2>7. CASE UNCHANGED look
    BY <2>7
  <2> QED
    BY <2>1, <2>2, <2>3, <2>4, <2>5, <2>6, <2>7 DEF Next
<1>3. TypeInv /\ [DecisionNext]_decisionVars => TypeInv'
  BY <1>2 DEF DecisionNext, LookChanges, ReadingChanges, LogGrows, ReadingsDiffer, decisionVars
<1> QED
  BY <1>1, <1>3, PTL DEF DecisionSpec

\* A page is only held back for a crew that is enrolled to a face, during an
\* incident, and came in through the door one by one.
THEOREM HoldNeedsRoster == DecisionSpec => []SuppressOnlyForRoster
<1>1. TypeInv => SuppressOnlyForRoster
  <2> SUFFICES ASSUME TypeInv, SuppressesEscalation(look)
      PROVE  /\ look.present /\ look.captured /\ look.incident
             /\ look.unknown = 0 /\ look.known > 0
             /\ look.doorObserved => look.opens >= look.known
    BY DEF SuppressOnlyForRoster
  <2>1. Verdict(look) = "expected"
    BY DEF SuppressesEscalation
  <2>2. look.present /\ ~AwaitingCapture(look)
    BY <2>1 DEF Verdict
  <2>3. ~Tailgating(look) /\ ~NoDoorEdge(look) /\ ~(look.unknown > 0) /\ look.incident
    BY <2>1, <2>2 DEF Verdict
  <2>4. look.known \in Nat /\ look.unknown \in Nat /\ look.opens \in Nat
    BY MaxAssumption DEF TypeInv, Look
  <2> QED
    BY <2>2, <2>3, <2>4 DEF AwaitingCapture, Faces, Tailgating, NoDoorEdge
<1> QED
  BY <1>1, TypeInvariant, PTL

\* A lone stranger gains nothing by keeping away from the camera.
THEOREM SilenceCostsAsMuch == DecisionSpec => []RefusalNotCheaper
<1>1. TypeInv => RefusalNotCheaper
  <2> SUFFICES ASSUME TypeInv PROVE RefusalNotCheaper
    OBVIOUS
  <2> DEFINE silent == [look EXCEPT !.captured = FALSE, !.lapsed = TRUE, !.known = 0, !.unknown = 0]
             shown == [look EXCEPT !.captured = TRUE, !.known = 0, !.unknown = 1]
  <2> SUFFICES ASSUME look.present
      PROVE  /\ Severity(silent) >= Severity(shown)
             /\ ApprovalRequired(shown) => ApprovalRequired(silent)
    BY DEF RefusalNotCheaper
  <2>1. /\ look.opens \in Nat
        /\ look.incident \in BOOLEAN /\ look.doorObserved \in BOOLEAN
    BY MaxAssumption DEF TypeInv, Look
  <2>2. /\ silent.present /\ ~silent.captured /\ silent.lapsed /\ silent.incident = look.incident
        /\ shown.present /\ shown.captured /\ shown.known = 0 /\ shown.unknown = 1
        /\ shown.opens = look.opens /\ shown.incident = look.incident
        /\ shown.doorObserved = look.doorObserved
    BY DEF TypeInv, Look
  <2> HIDE DEF silent, shown
  <2>3. Verdict(silent) = "pending-capture" /\ Unanswered(silent)
    BY <2>2 DEF Verdict, AwaitingCapture, Unanswered
  <2>4. Severity(silent) = IF look.incident THEN 2 ELSE 1
    BY <2>2, <2>3 DEF Severity
  <2>5. Faces(shown) = 1 /\ ~Tailgating(shown) /\ ~AwaitingCapture(shown)
    BY <2>1, <2>2 DEF Faces, Tailgating, AwaitingCapture
  <2>6. Verdict(shown) \in IF look.incident THEN {"unauthorized-during-incident"}
                           ELSE {"anti-passback", "challenge"}
    BY <2>1, <2>2, <2>5 DEF Verdict
  <2>7. Severity(shown) <= IF look.incident THEN 2 ELSE 1
    BY <2>6 DEF Severity
  <2>8. ApprovalRequired(silent)
    BY <2>3 DEF ApprovalRequired
  <2> QED
    BY <2>1, <2>4, <2>6, <2>7, <2>8 DEF Severity
<1> QED
  BY <1>1, TypeInvariant, PTL

\* A second stranger, or an incident that begins, never makes the finding milder.
THEOREM TroubleAtTheRack == DecisionSpec => WorseNeverCalms
<1>1. ASSUME TypeInv, StrangerAppears, look.present, ~AwaitingCapture(look)
      PROVE  /\ Severity(look') >= Severity(look)
             /\ ApprovalRequired(look) => ApprovalRequired(look')
             /\ ~SuppressesEscalation(look')
  <2>1. /\ look.captured /\ look.unknown \in Nat /\ look.known \in Nat /\ look.opens \in Nat
        /\ look.incident \in BOOLEAN /\ look.doorObserved \in BOOLEAN
    BY <1>1, MaxAssumption DEF TypeInv, Look, StrangerAppears
  <2>2. /\ look'.present /\ look'.captured /\ look'.unknown = look.unknown + 1
        /\ look'.known = look.known /\ look'.opens = look.opens
        /\ look'.incident = look.incident /\ look'.doorObserved = look.doorObserved
    BY <1>1 DEF TypeInv, Look, StrangerAppears
  <2>3. PICK after : after = look'
    OBVIOUS
  <2>4. /\ ~AwaitingCapture(after) /\ after.unknown > 0
        /\ Faces(after) = Faces(look) + 1 /\ Faces(look) \in Nat /\ Faces(look) # 0
    BY <1>1, <2>1, <2>2, <2>3 DEF AwaitingCapture, Faces
  <2>5. NoDoorEdge(after) <=> NoDoorEdge(look)
    BY <2>2, <2>3 DEF NoDoorEdge
  <2>6. Tailgating(look) => Tailgating(after)
    BY <2>1, <2>2, <2>3, <2>4 DEF Tailgating
  <2>7. Verdict(after) = IF Tailgating(after) THEN "tailgating"
                         ELSE IF look.incident THEN "unauthorized-during-incident"
                         ELSE IF NoDoorEdge(look) THEN "anti-passback" ELSE "challenge"
    BY <2>2, <2>3, <2>4, <2>5 DEF Verdict
  <2>8. Verdict(look) = IF Tailgating(look) THEN "tailgating"
                        ELSE IF look.unknown > 0 /\ look.incident THEN "unauthorized-during-incident"
                        ELSE IF NoDoorEdge(look) THEN "anti-passback"
                        ELSE IF look.unknown > 0 THEN "challenge"
                        ELSE IF look.incident THEN "expected" ELSE "clear"
    BY <1>1 DEF Verdict
  <2>9. Severity(after) = IF Tailgating(after) \/ look.incident THEN 2 ELSE 1
    BY <2>7 DEF Severity
  <2>10. Severity(look) <= IF Tailgating(look) \/ look.incident THEN 2 ELSE 1
    BY <2>8 DEF Severity
  <2>11. Severity(after) >= Severity(look)
    <3>1. Severity(look) \in {0, 1, 2}
      BY DEF Severity
    <3> QED
      BY <2>6, <2>9, <2>10, <3>1
  <2>12. ApprovalRequired(after) /\ ~SuppressesEscalation(after)
    BY <2>7 DEF ApprovalRequired, SuppressesEscalation
  <2> QED
    BY <2>3, <2>11, <2>12
<1>2. ASSUME TypeInv, IncidentBegins, StrangerSeen(look) \/ Unanswered(look)
      PROVE  /\ Severity(look') >= Severity(look)
             /\ ApprovalRequired(look) => ApprovalRequired(look')
  <2>1. ~look.incident /\ look.unknown \in Nat /\ look.known \in Nat /\ look.opens \in Nat
    <3>1. ~look.incident
      BY <1>2 DEF IncidentBegins
    <3>2. look.unknown \in Nat /\ look.known \in Nat /\ look.opens \in Nat
      BY <1>2, MaxAssumption DEF TypeInv, Look
    <3> QED
      BY <3>1, <3>2
  <2>2. /\ look'.incident /\ look'.present = look.present /\ look'.captured = look.captured
        /\ look'.unknown = look.unknown /\ look'.known = look.known /\ look'.opens = look.opens
        /\ look'.doorObserved = look.doorObserved /\ look'.lapsed = look.lapsed
    BY <1>2 DEF TypeInv, Look, IncidentBegins
  <2>3. PICK after : after = look'
    OBVIOUS
  <2>4. /\ AwaitingCapture(after) <=> AwaitingCapture(look)
        /\ Unanswered(after) <=> Unanswered(look)
        /\ Tailgating(after) <=> Tailgating(look)
        /\ NoDoorEdge(after) <=> NoDoorEdge(look)
    BY <2>2, <2>3 DEF AwaitingCapture, Unanswered, Tailgating, NoDoorEdge, Faces
  <2>5. CASE ~look.present
    BY <2>2, <2>3, <2>5 DEF Verdict, Severity, ApprovalRequired
  <2>6. CASE look.present /\ AwaitingCapture(look)
    <3>1. Verdict(after) = "pending-capture" /\ Verdict(look) = "pending-capture"
      BY <2>2, <2>3, <2>4, <2>6 DEF Verdict
    <3> QED
      BY <2>1, <2>2, <2>3, <2>4, <3>1 DEF Severity, ApprovalRequired
  <2>7. CASE look.present /\ ~AwaitingCapture(look)
    <3>1. look.unknown > 0
      BY <1>2, <2>7 DEF StrangerSeen, Unanswered
    <3>2. Verdict(after) \in {"tailgating", "unauthorized-during-incident"}
      BY <2>2, <2>3, <2>4, <2>7, <3>1 DEF Verdict
    <3>3. Severity(after) = 2 /\ ApprovalRequired(after)
      BY <3>2 DEF Severity, ApprovalRequired
    <3>4. Severity(look) \in {0, 1, 2}
      BY DEF Severity
    <3> QED
      BY <2>3, <3>3, <3>4
  <2> QED
    BY <2>5, <2>6, <2>7
<1>3. ASSUME TypeInv, look' # look
      PROVE  /\ \/ StrangerAppears /\ look.present /\ ~AwaitingCapture(look)
                \/ IncidentBegins /\ (StrangerSeen(look) \/ Unanswered(look))
             => /\ Severity(look') >= Severity(look)
                /\ ApprovalRequired(look) => ApprovalRequired(look')
                /\ StrangerAppears => ~SuppressesEscalation(look')
  <2>1. ~(StrangerAppears /\ IncidentBegins)
    <3> SUFFICES ASSUME TypeInv, StrangerAppears, IncidentBegins PROVE FALSE
      BY <1>3
    <3>1. ~look.incident /\ look'.incident
      BY DEF TypeInv, Look, IncidentBegins
    <3>2. look'.incident = look.incident
      BY DEF TypeInv, Look, StrangerAppears
    <3> QED
      BY <3>1, <3>2
  <2> QED
    BY <1>1, <1>2, <1>3, <2>1
<1>4. TypeInv => [ /\ \/ StrangerAppears /\ look.present /\ ~AwaitingCapture(look)
                      \/ IncidentBegins /\ (StrangerSeen(look) \/ Unanswered(look))
                  => /\ Severity(look') >= Severity(look)
                     /\ ApprovalRequired(look) => ApprovalRequired(look')
                     /\ StrangerAppears => ~SuppressesEscalation(look')]_look
  BY <1>3
<1> QED
  BY <1>4, TypeInvariant, PTL DEF WorseNeverCalms


-----------------------------------------------------------------------------
(* The validation of a rule.                                                *)

\* The values of a log have extremes, and Max and Min are what they say.
LEMMA Extremes ==
  ASSUME NEW S \in SUBSET Values, S # {}
  PROVE  /\ Max(S) \in S /\ \A v \in S : v <= Max(S)
         /\ Min(S) \in S /\ \A v \in S : Min(S) <= v
<1> USE ScaleAssumption DEF Values
<1>1. \E x \in S : \A y \in S : x <= y
  <2> DEFINE T == {v - Least : v \in S}
  <2>1. PICK t \in T : \A u \in T : t <= u
    <3>1. T \in SUBSET Nat
      OBVIOUS
    <3>2. T # {}
      <4>1. PICK v : v \in S
        OBVIOUS
      <4> QED
        BY <4>1, Zenon
    <3> QED
      BY <3>1, <3>2, LeastOf
  <2>2. PICK x \in S : t = x - Least
    OBVIOUS
  <2>3. ASSUME NEW y \in S PROVE x <= y
    <3>1. x - Least <= y - Least
      BY <2>1, <2>2
    <3> QED
      BY <3>1
  <2> QED
    BY <2>3
<1>2. \E x \in S : \A y \in S : x >= y
  <2>1. S \in SUBSET Int /\ \A v \in S : v <= Most
    OBVIOUS
  <2> QED
    BY <2>1, GreatestOf
<1>3. Min(S) \in S /\ \A v \in S : Min(S) <= v
  BY <1>1 DEF Min
<1>4. Max(S) \in S /\ \A v \in S : Max(S) >= v
  BY <1>2 DEF Max
<1>5. \A v \in S : v <= Max(S)
  BY <1>4
<1> QED
  BY <1>3, <1>4, <1>5

\* What an operator asks of a reading.
Fulfils(op, v, threshold) ==
    \/ op = "<" /\ v < threshold
    \/ op = "<=" /\ v <= threshold
    \/ op = ">=" /\ v >= threshold
    \/ op = ">" /\ v > threshold

LEMMA CompareMeans ==
  ASSUME NEW op \in Operators, NEW v \in Int, NEW threshold \in Int
  PROVE  /\ Compare(op, v, threshold) \in BOOLEAN
         /\ Compare(op, v, threshold) <=> Fulfils(op, v, threshold)
<1>1. CASE op = "<"
  <2>1. Compare(op, v, threshold) = (v < threshold)
    BY <1>1 DEF Compare
  <2>2. (v < threshold) \in BOOLEAN
    BY SMT
  <2>3. Fulfils(op, v, threshold) <=> v < threshold
    BY <1>1 DEF Fulfils
  <2> QED
    BY <2>1, <2>2, <2>3, Zenon
<1>2. CASE op = "<="
  <2>1. Compare(op, v, threshold) = (v <= threshold)
    BY <1>2 DEF Compare
  <2>2. (v <= threshold) \in BOOLEAN
    BY SMT
  <2>3. Fulfils(op, v, threshold) <=> v <= threshold
    BY <1>2 DEF Fulfils
  <2> QED
    BY <2>1, <2>2, <2>3, Zenon
<1>3. CASE op = ">="
  <2>1. Compare(op, v, threshold) = (v >= threshold)
    BY <1>3 DEF Compare
  <2>2. (v >= threshold) \in BOOLEAN
    BY SMT
  <2>3. Fulfils(op, v, threshold) <=> v >= threshold
    BY <1>3 DEF Fulfils
  <2> QED
    BY <2>1, <2>2, <2>3, Zenon
<1>4. CASE op = ">"
  <2>1. Compare(op, v, threshold) = (v > threshold)
    BY <1>4 DEF Compare
  <2>2. (v > threshold) \in BOOLEAN
    BY SMT
  <2>3. Fulfils(op, v, threshold) <=> v > threshold
    BY <1>4 DEF Fulfils
  <2> QED
    BY <2>1, <2>2, <2>3, Zenon
<1> QED
  BY <1>1, <1>2, <1>3, <1>4 DEF Operators

\* The current value is one of the scale, or there is none.
LogTypes ==
    /\ rule \in Rules
    /\ log \in [seen : SUBSET Values, enters : Nat]
    /\ current \in Values \cup {NoReading}

LEMMA LogInvariant == DecisionSpec => []LogTypes
<1> USE ScaleAssumption
<1>1. DecisionInit => LogTypes
  <2> SUFFICES ASSUME DecisionInit PROVE LogTypes
    OBVIOUS
  <2>1. rule \in Rules
    <3>1. (CHOOSE r \in StaleRule : TRUE) \in StaleRule
      <4>1. [kind |-> "stale", seconds |-> 0, window |-> 0] \in StaleRule
        BY DEF StaleRule
      <4> QED
        BY <4>1
    <3> QED
      BY <3>1 DEF DecisionInit, Rules
  <2> QED
    BY <2>1 DEF DecisionInit, LogTypes, EmptyLog
<1>2. LogTypes /\ [DecisionNext]_decisionVars => LogTypes'
  <2> SUFFICES ASSUME LogTypes, [DecisionNext]_decisionVars PROVE LogTypes'
    OBVIOUS
  <2>1. CASE UNCHANGED <<rule, log, current>>
    BY <2>1 DEF LogTypes
  <2>2. ASSUME NEW v \in Values, log' = [log EXCEPT !.seen = @ \cup {v}], rule' = rule, current' = v
        PROVE  LogTypes'
    <3>1. v \in Int /\ log.enters \in Nat /\ log.seen \cup {v} \in SUBSET Values
      BY DEF LogTypes, Values
    <3>2. log' = [seen |-> log.seen \cup {v}, enters |-> log.enters] /\ current' \in Values
      BY <2>2 DEF LogTypes
    <3> QED
      BY <2>2, <3>1, <3>2 DEF LogTypes
  <2>3. CASE rule' = rule /\ log' = [log EXCEPT !.enters = @ + 1] /\ current' = current
    BY <2>3 DEF LogTypes
  <2>4. CASE rule' = rule /\ log' = log /\ current' \in Values \cup {NoReading}
    BY <2>4 DEF LogTypes
  <2> QED
    BY <2>1, <2>2, <2>3, <2>4 DEF DecisionNext, LookChanges, ReadingChanges, LogGrows,
       ReadingsDiffer, decisionVars
<1> QED
  BY <1>1, <1>2, PTL DEF DecisionSpec

\* The kind of a numeric rule says that it has an operator and a threshold.
LEMMA NumericHasThreshold ==
  ASSUME NEW r \in Rules, Numeric(r)
  PROVE  r.op \in Operators /\ r.value \in Int /\ r.kind # "stale"
<1>1. r \in NumericRule
  BY DEF Rules, Numeric, EventRule, StaleRule
<1> QED
  BY <1>1, ScaleAssumption DEF NumericRule, Numeric

\* What is said of a threshold is said about the thresholds of the sensor and
\* the extremes of the log: a numeric rule is told nothing else.
LEMMA FindingsOfNumeric ==
  ASSUME NEW r \in Rules, Numeric(r), NEW l, NEW c
  PROVE  Findings(r, l, c) \in
            {{"invalid_duration"}, {"unknown_channel"}, NumericFindings(r, l, c)}
BY NumericHasThreshold DEF Findings

\* What a person is told about a rule on a reading is so, on every scale and
\* however long the log, whatever the second reading of the file finds: refused for
\* its threshold means it could never tell two readings apart, armed unremarked
\* means something in the log reached it.
THEOREM VerdictsAreTrue == DecisionSpec => []VerdictIsRight
<1>1. LogTypes => VerdictIsRight
  <2> SUFFICES ASSUME LogTypes, Numeric(rule) PROVE VerdictIsRight
    BY DEF VerdictIsRight
  <2> DEFINE told == Findings(rule, log, current)
             fires(v) == Compare(rule.op, v, rule.value)
  <2>1. rule \in Rules /\ rule.op \in Operators /\ rule.value \in Int
    BY NumericHasThreshold DEF LogTypes
  <2>2. log.seen \in SUBSET Values
    BY DEF LogTypes
  <2>3. Values \subseteq Int /\ \A v \in Values : Least <= v /\ v <= Most
    BY ScaleAssumption DEF Values
  <2>4. \/ told = {"invalid_duration"} \/ told = {"unknown_channel"}
        \/ told = NumericFindings(rule, log, current)
    BY <2>1, FindingsOfNumeric
  <2>5. \A v \in Int : fires(v) <=> Fulfils(rule.op, v, rule.value)
    BY <2>1, CompareMeans
  <2>6. /\ "below_sensor_range" \in told => rule.value < Least
        /\ "above_sensor_range" \in told => rule.value > Most
        /\ "never_observed" \in told => log.seen # {} /\ ~Reached(rule, log.seen)
        /\ "already_true" \in told => fires(current)
    BY <2>4 DEF NumericFindings
  <2>7. told = NumericFindings(rule, log, current) =>
           /\ "no_history" \notin told => log.seen # {}
           /\ "no_history" \notin told /\ "never_observed" \notin told => Reached(rule, log.seen)
    BY DEF NumericFindings
  <2>8. Accepted(rule, log, current) => told = NumericFindings(rule, log, current)
    BY <2>4 DEF Accepted, Rejections
  <2> HIDE DEF told, fires
  <2>9. ASSUME told \cap {"below_sensor_range", "above_sensor_range"} # {},
               NEW v \in Values, NEW w \in Values
        PROVE  fires(v) = fires(w)
    <3>1. rule.value < Least \/ rule.value > Most
      BY <2>6, <2>9
    <3>2. fires(v) <=> fires(w)
      BY <2>1, <2>3, <2>5, <3>1, ScaleAssumption DEF Operators, Fulfils
    <3>3. fires(v) \in BOOLEAN /\ fires(w) \in BOOLEAN
      BY <2>1, <2>3, CompareMeans DEF fires
    <3>4. \A p, q \in BOOLEAN : (p <=> q) => p = q
      BY Zenon
    <3> QED
      BY <3>2, <3>3, <3>4, Zenon
  <2>10. ASSUME Accepted(rule, log, current), told \cap {"never_observed", "no_history"} = {}
         PROVE  \E v \in log.seen : fires(v) \/ v = rule.value
    <3>1. log.seen # {} /\ Reached(rule, log.seen)
      BY <2>7, <2>8, <2>10
    <3>2. Max(log.seen) \in log.seen /\ Min(log.seen) \in log.seen
      BY <2>2, <3>1, Extremes
    <3> Max(log.seen) \in Int /\ Min(log.seen) \in Int
      BY <2>2, <2>3, <3>2
    <3>3. CASE rule.op \in {">", ">="}
      <4>1. Max(log.seen) >= rule.value
        BY <3>1, <3>3 DEF Reached
      <4>2. fires(Max(log.seen)) \/ Max(log.seen) = rule.value
        BY <2>1, <2>2, <2>3, <2>5, <3>2, <3>3, <4>1 DEF Fulfils
      <4> QED
        BY <3>2, <4>2
    <3>4. CASE rule.op \in {"<", "<="}
      <4>1. Min(log.seen) <= rule.value
        BY <3>1, <3>4 DEF Reached
      <4>2. fires(Min(log.seen)) \/ Min(log.seen) = rule.value
        BY <2>1, <2>2, <2>3, <2>5, <3>2, <3>4, <4>1 DEF Fulfils
      <4> QED
        BY <3>2, <4>2
    <3> QED
      BY <2>1, <3>3, <3>4 DEF Operators
  <2>11. ASSUME "never_observed" \in told, NEW v \in log.seen
         PROVE  ~fires(v)
    <3>1. log.seen # {} /\ ~Reached(rule, log.seen)
      BY <2>6, <2>11
    <3>2. /\ Max(log.seen) \in Int /\ Min(log.seen) \in Int /\ v \in Int
          /\ v <= Max(log.seen) /\ Min(log.seen) <= v
      BY <2>2, <2>3, <3>1, Extremes
    <3>3. CASE rule.op \in {">", ">="}
      <4>1. ~(Max(log.seen) >= rule.value)
        BY <3>1, <3>3 DEF Reached
      <4> QED
        BY <2>1, <2>5, <3>2, <3>3, <4>1 DEF Fulfils
    <3>4. CASE rule.op \in {"<", "<="}
      <4>1. ~(Min(log.seen) <= rule.value)
        BY <3>1, <3>4 DEF Reached
      <4> QED
        BY <2>1, <2>5, <3>2, <3>4, <4>1 DEF Fulfils
    <3> QED
      BY <2>1, <3>3, <3>4 DEF Operators
  <2>12. "already_true" \in told /\ current \in log.seen => "never_observed" \notin told
    BY <2>2, <2>6, <2>11
  <2> QED
    BY <2>9, <2>10, <2>11, <2>12 DEF VerdictIsRight, told, fires
<1> QED
  BY <1>1, LogInvariant, PTL

-----------------------------------------------------------------------------
(* The incident assessment.                                                 *)

ReadingTypes == reading \in Reading

LEMMA ReadingInvariant == DecisionSpec => []ReadingTypes
<1>1. DecisionInit => ReadingTypes
  BY DEF DecisionInit, ReadingTypes, Calm, Reading, Status
<1>2. ReadingTypes /\ [DecisionNext]_decisionVars => ReadingTypes'
  <2> SUFFICES ASSUME ReadingTypes, [DecisionNext]_decisionVars PROVE ReadingTypes'
    OBVIOUS
  <2> USE DEF ReadingTypes, Reading
  <2>1. ASSUME NEW s \in Signals, Worsen(s) PROVE ReadingTypes'
    <3>1. reading.status[s] + 1 \in Status
      BY <2>1 DEF Worsen, Status
    <3>2. [reading.status EXCEPT ![s] = @ + 1] \in [Signals -> Status]
      BY <3>1
    <3> QED
      BY <2>1, <3>2 DEF Worsen
  <2>2. CASE LeakBegins
    BY <2>2 DEF LeakBegins
  <2>3. CASE Ages
    BY <2>3 DEF Ages
  <2>4. CASE SensorLost
    <3>1. [s \in Signals |-> IF s \in Coupled THEN 0 ELSE reading.status[s]] \in [Signals -> Status]
      BY DEF Status
    <3> QED
      BY <2>4, <3>1 DEF SensorLost
  <2>5. CASE UNCHANGED reading
    BY <2>5
  <2> QED
    BY <2>1, <2>2, <2>3, <2>4, <2>5 DEF DecisionNext, LookChanges, ReadingChanges, LogGrows, ReadingsDiffer, decisionVars
<1> QED
  BY <1>1, <1>2, PTL DEF DecisionSpec

\* A family has finitely many signals.
LEMMA FamiliesFinite ==
  /\ IsFiniteSet(Families) /\ Cardinality(Families) = 4
  /\ \A f \in Families : IsFiniteSet(SignalsOf(f)) /\ SignalsOf(f) \subseteq Signals
<1>1. IsFiniteSet({"physical"}) /\ Cardinality({"physical"}) = 1
  BY FS_Singleton
<1>2. IsFiniteSet({"physical"} \cup {"storage"}) /\ Cardinality({"physical"} \cup {"storage"}) = 2
  BY <1>1, FS_AddElement
<1>3. /\ IsFiniteSet(({"physical"} \cup {"storage"}) \cup {"network"})
      /\ Cardinality(({"physical"} \cup {"storage"}) \cup {"network"}) = 3
  BY <1>2, FS_AddElement
<1>4. /\ IsFiniteSet((({"physical"} \cup {"storage"}) \cup {"network"}) \cup {"compute"})
      /\ Cardinality((({"physical"} \cup {"storage"}) \cup {"network"}) \cup {"compute"}) = 4
  BY <1>3, FS_AddElement
<1>5. Families = (({"physical"} \cup {"storage"}) \cup {"network"}) \cup {"compute"}
  BY DEF Families
<1>6. \A a, b : IsFiniteSet({a} \cup {b})
  BY FS_Singleton, FS_AddElement
<1>7. \A a, b, c, d : IsFiniteSet({a, b, c, d})
  <2>1. ASSUME NEW a, NEW b, NEW c, NEW d PROVE IsFiniteSet({a, b, c, d})
    <3>1. IsFiniteSet(({a} \cup {b}) \cup {c})
      BY <1>6, FS_AddElement
    <3>2. IsFiniteSet((({a} \cup {b}) \cup {c}) \cup {d})
      BY <3>1, FS_AddElement
    <3>3. (({a} \cup {b}) \cup {c}) \cup {d} = {a, b, c, d}
      OBVIOUS
    <3> QED
      BY <3>2, <3>3
  <2> QED
    BY <2>1
<1>8. ASSUME NEW f \in Families PROVE IsFiniteSet(SignalsOf(f))
  <2>1. CASE f = "physical"
    <3>1. SignalsOf(f) = {"temperature"} \cup {"humidity"}
      BY <2>1 DEF SignalsOf
    <3> QED
      BY <1>6, <3>1
  <2>2. CASE f = "storage"
    <3>1. SignalsOf(f) = {"readLatency", "throughput", "delay", "capacity"}
      BY <2>2 DEF SignalsOf
    <3>2. IsFiniteSet({"readLatency", "throughput", "delay", "capacity"})
      BY <1>7, Zenon
    <3> QED
      BY <3>1, <3>2
  <2>3. CASE f = "network"
    <3>1. SignalsOf(f) = {"packetLoss"} \cup {"linkLatency"}
      BY <2>3 DEF SignalsOf
    <3> QED
      BY <1>6, <3>1
  <2>4. CASE f = "compute"
    <3>1. SignalsOf(f) = {"cpu"} \cup {"throttle"}
      BY <2>4 DEF SignalsOf
    <3> QED
      BY <1>6, <3>1
  <2> QED
    BY <2>1, <2>2, <2>3, <2>4 DEF Families
<1>9. ASSUME NEW f \in Families PROVE SignalsOf(f) \subseteq Signals
  BY DEF Signals
<1> QED
  BY <1>4, <1>5, <1>8, <1>9

LEMMA CountIsNat ==
  ASSUME NEW r \in Reading, NEW f \in Families, NEW n
  PROVE  Count(r, f, n) \in Nat
<1>1. IsFiniteSet({x \in SignalsOf(f) : r.status[x] = n})
  BY FamiliesFinite, FS_Subset
<1> QED
  BY <1>1, FS_CardinalityType DEF Count

LEMMA OneMore ==
  ASSUME NEW S, NEW x, IsFiniteSet(S), x \notin S
  PROVE  Cardinality(S \cup {x}) = Cardinality(S) + 1
BY FS_AddElement

LEMMA OneLess ==
  ASSUME NEW S, NEW x, IsFiniteSet(S), x \in S
  PROVE  Cardinality(S \ {x}) = Cardinality(S) - 1
BY FS_RemoveElement

\* One signal that worsens moves one status of its family, and none elsewhere.
LEMMA CountWorse ==
  ASSUME NEW r \in Reading, NEW q \in Reading, NEW s \in Signals, r.status[s] < 2,
         q = [r EXCEPT !.status[s] = @ + 1], NEW f \in Families
  PROVE  \/ Count(q, f, 1) = Count(r, f, 1) /\ Count(q, f, 2) = Count(r, f, 2)
         \/ Count(q, f, 1) = Count(r, f, 1) + 1 /\ Count(q, f, 2) = Count(r, f, 2)
         \/ Count(q, f, 1) = Count(r, f, 1) - 1 /\ Count(q, f, 2) = Count(r, f, 2) + 1
<1> DEFINE A(p, n) == {x \in SignalsOf(f) : p.status[x] = n}
<1>1. /\ \A x \in Signals \ {s} : q.status[x] = r.status[x]
      /\ q.status[s] = r.status[s] + 1
      /\ r.status[s] \in {0, 1}
  BY DEF Reading, Status
<1>2. SignalsOf(f) \subseteq Signals
  BY FamiliesFinite
<1>3. \A n : IsFiniteSet(A(r, n)) /\ Cardinality(A(r, n)) = Count(r, f, n)
  BY FamiliesFinite, FS_Subset DEF Count
<1>4. \A n : Cardinality(A(q, n)) = Count(q, f, n)
  BY DEF Count
<1>5. Count(r, f, 1) \in Nat /\ Count(r, f, 2) \in Nat
  BY CountIsNat
<1>6. /\ \A x : x \in A(r, 1) <=> x \in SignalsOf(f) /\ r.status[x] = 1
      /\ \A x : x \in A(r, 2) <=> x \in SignalsOf(f) /\ r.status[x] = 2
      /\ \A x : x \in A(q, 1) <=> x \in SignalsOf(f) /\ q.status[x] = 1
      /\ \A x : x \in A(q, 2) <=> x \in SignalsOf(f) /\ q.status[x] = 2
  OBVIOUS
<1> HIDE DEF A
<1>7. CASE s \notin SignalsOf(f)
  <2>1. A(q, 1) = A(r, 1) /\ A(q, 2) = A(r, 2)
    BY <1>1, <1>2, <1>6, <1>7
  <2> QED
    BY <1>3, <1>4, <2>1
<1>8. CASE s \in SignalsOf(f) /\ r.status[s] = 0
  <2>1. A(q, 1) = A(r, 1) \cup {s} /\ s \notin A(r, 1) /\ A(q, 2) = A(r, 2)
    BY <1>1, <1>2, <1>6, <1>8
  <2>2. Cardinality(A(q, 1)) = Cardinality(A(r, 1)) + 1
    BY <1>3, <2>1, OneMore, Zenon
  <2>3. Cardinality(A(q, 2)) = Cardinality(A(r, 2))
    BY <2>1
  <2> QED
    BY <1>3, <1>4, <2>2, <2>3
<1>9. CASE s \in SignalsOf(f) /\ r.status[s] = 1
  <2>1. /\ A(q, 1) = A(r, 1) \ {s} /\ s \in A(r, 1)
        /\ A(q, 2) = A(r, 2) \cup {s} /\ s \notin A(r, 2)
    BY <1>1, <1>2, <1>6, <1>9
  <2>2. Cardinality(A(q, 1)) = Cardinality(A(r, 1)) - 1
    BY <1>3, <2>1, OneLess, Zenon
  <2>3. Cardinality(A(q, 2)) = Cardinality(A(r, 2)) + 1
    BY <1>3, <2>1, OneMore, Zenon
  <2> QED
    BY <1>3, <1>4, <2>2, <2>3
<1> QED
  BY <1>1, <1>7, <1>8, <1>9

\* The points of every family, as the decay leaves them.
LEMMA Points ==
  /\ Decayed(220) = 77 /\ Decayed(450) = 157 /\ Decayed(120) = 42 /\ Decayed(250) = 88
  /\ Decayed(100) = 35 /\ Decayed(200) = 70 /\ Decayed(80) = 28 /\ Decayed(150) = 53
BY DEF Decayed

\* The points of w warnings and c criticals, which weigh a1 and a2 in full and
\* d1 and d2 behind a worse one: the worst counts in full.
WorstInFull(a1, d1, a2, d2, w, c) ==
    w * d1 + c * d2 + (IF c > 0 THEN a2 - d2 ELSE IF w > 0 THEN a1 - d1 ELSE 0)

LEMMA FamilyPointsAre ==
  ASSUME NEW r \in Reading, NEW f \in Families
  PROVE  LET w == Count(r, f, 1)
             c == Count(r, f, 2)
         IN  /\ f = "physical" => FamilyPoints(r, f) = IF r.leak THEN 500 + w * 77 + c * 157
                                                        ELSE WorstInFull(220, 77, 450, 157, w, c)
             /\ f = "storage" => FamilyPoints(r, f) = WorstInFull(120, 42, 250, 88, w, c)
             /\ f = "network" => FamilyPoints(r, f) = WorstInFull(100, 35, 200, 70, w, c)
             /\ f = "compute" => FamilyPoints(r, f) = WorstInFull(80, 28, 150, 53, w, c)
<1> DEFINE w == Count(r, f, 1)
           c == Count(r, f, 2)
<1>1. w \in Nat /\ c \in Nat
  BY CountIsNat
<1>2. CASE f = "physical"
  <2>1. FullPoints(f)[1] = 220 /\ FullPoints(f)[2] = 450
    BY <1>2 DEF FullPoints
  <2> QED
    BY <1>1, <1>2, <2>1, Points DEF FamilyPoints, WorstInFull, LeakPoints
<1>3. CASE f = "storage"
  <2>1. FullPoints(f)[1] = 120 /\ FullPoints(f)[2] = 250
    BY <1>3 DEF FullPoints
  <2> QED
    BY <1>1, <1>3, <2>1, Points DEF FamilyPoints, WorstInFull
<1>4. CASE f = "network"
  <2>1. FullPoints(f)[1] = 100 /\ FullPoints(f)[2] = 200
    BY <1>4 DEF FullPoints
  <2> QED
    BY <1>1, <1>4, <2>1, Points DEF FamilyPoints, WorstInFull
<1>5. CASE f = "compute"
  <2>1. FullPoints(f)[1] = 80 /\ FullPoints(f)[2] = 150
    BY <1>5 DEF FullPoints
  <2> QED
    BY <1>1, <1>5, <2>1, Points DEF FamilyPoints, WorstInFull
<1> QED
  BY <1>2, <1>3, <1>4, <1>5

\* Neither a signal of the family that worsens nor a leak lowers its points.
LEMMA PointsGrow ==
  ASSUME NEW r \in Reading, NEW q \in Reading, NEW f \in Families,
         \/ /\ q.leak = r.leak
            /\ \/ Count(q, f, 1) = Count(r, f, 1) /\ Count(q, f, 2) = Count(r, f, 2)
               \/ Count(q, f, 1) = Count(r, f, 1) + 1 /\ Count(q, f, 2) = Count(r, f, 2)
               \/ Count(q, f, 1) = Count(r, f, 1) - 1 /\ Count(q, f, 2) = Count(r, f, 2) + 1
         \/ /\ q.leak /\ ~r.leak
            /\ Count(q, f, 1) = Count(r, f, 1) /\ Count(q, f, 2) = Count(r, f, 2)
  PROVE  /\ FamilyPoints(r, f) \in Nat /\ FamilyPoints(q, f) \in Nat
         /\ FamilyPoints(q, f) >= FamilyPoints(r, f)
<1>1. PICK w, c, w2, c2 \in Nat :
          w = Count(r, f, 1) /\ c = Count(r, f, 2) /\ w2 = Count(q, f, 1) /\ c2 = Count(q, f, 2)
  BY CountIsNat
<1>2. PICK a, b \in BOOLEAN : (a <=> r.leak) /\ (b <=> q.leak)
  BY DEF Reading
<1>3. \/ /\ b <=> a
         /\ \/ w2 = w /\ c2 = c
            \/ w2 = w + 1 /\ c2 = c
            \/ w2 = w - 1 /\ c2 = c + 1
      \/ b /\ ~a /\ w2 = w /\ c2 = c
  BY <1>1, <1>2
<1>4. CASE f = "physical"
  <2>1. /\ FamilyPoints(r, f) = IF a THEN 500 + w * 77 + c * 157 ELSE WorstInFull(220, 77, 450, 157, w, c)
        /\ FamilyPoints(q, f) = IF b THEN 500 + w2 * 77 + c2 * 157 ELSE WorstInFull(220, 77, 450, 157, w2, c2)
    BY <1>1, <1>2, <1>4, FamilyPointsAre
  <2> QED
    BY <1>3, <2>1 DEF WorstInFull
<1>5. CASE f = "storage"
  <2>1. /\ FamilyPoints(r, f) = WorstInFull(120, 42, 250, 88, w, c)
        /\ FamilyPoints(q, f) = WorstInFull(120, 42, 250, 88, w2, c2)
    BY <1>1, <1>5, FamilyPointsAre
  <2> QED
    BY <1>3, <2>1 DEF WorstInFull
<1>6. CASE f = "network"
  <2>1. /\ FamilyPoints(r, f) = WorstInFull(100, 35, 200, 70, w, c)
        /\ FamilyPoints(q, f) = WorstInFull(100, 35, 200, 70, w2, c2)
    BY <1>1, <1>6, FamilyPointsAre
  <2> QED
    BY <1>3, <2>1 DEF WorstInFull
<1>7. CASE f = "compute"
  <2>1. /\ FamilyPoints(r, f) = WorstInFull(80, 28, 150, 53, w, c)
        /\ FamilyPoints(q, f) = WorstInFull(80, 28, 150, 53, w2, c2)
    BY <1>1, <1>7, FamilyPointsAre
  <2> QED
    BY <1>3, <2>1 DEF WorstInFull
<1> QED
  BY <1>4, <1>5, <1>6, <1>7 DEF Families

\* More families, more bonus.
LEMMA BonusGrows ==
  ASSUME NEW m \in 0..4, NEW n \in 0..4, m <= n
  PROVE  Bonus(m) \in Nat /\ Bonus(n) \in Nat /\ Bonus(m) <= Bonus(n)
<1>1. Bonus(0) = 0 /\ Bonus(1) = 0 /\ Bonus(2) = 100 /\ Bonus(3) = 180 /\ Bonus(4) = 240
  BY DEF Bonus
<1>2. m \in {0, 1, 2, 3, 4} /\ n \in {0, 1, 2, 3, 4}
  OBVIOUS
<1> QED
  BY <1>1, <1>2

LEMMA InvolvedCounts ==
  ASSUME NEW r, NEW q, Involved(r) \subseteq Involved(q)
  PROVE  /\ Cardinality(Involved(r)) \in 0..4 /\ Cardinality(Involved(q)) \in 0..4
         /\ Cardinality(Involved(r)) <= Cardinality(Involved(q))
<1>1. Involved(r) \subseteq Families /\ Involved(q) \subseteq Families
  BY DEF Involved
<1>2. IsFiniteSet(Involved(r)) /\ IsFiniteSet(Involved(q))
  BY <1>1, FamiliesFinite, FS_Subset
<1>3. Cardinality(Involved(r)) <= 4 /\ Cardinality(Involved(q)) <= 4
  BY <1>1, FamiliesFinite, FS_Subset
<1>4. Cardinality(Involved(r)) <= Cardinality(Involved(q))
  BY <1>2, FS_Subset
<1>5. Cardinality(Involved(r)) \in Nat /\ Cardinality(Involved(q)) \in Nat
  BY <1>2, FS_CardinalityType
<1> QED
  BY <1>3, <1>4, <1>5

\* The score follows the points of the families and how many agree.
LEMMA ScoreGrows ==
  ASSUME NEW r \in Reading, NEW q \in Reading, Involved(r) \subseteq Involved(q),
         \A f \in Families : /\ FamilyPoints(r, f) \in Nat /\ FamilyPoints(q, f) \in Nat
                             /\ FamilyPoints(q, f) >= FamilyPoints(r, f)
  PROVE  Score(r) \in Nat /\ Score(q) \in Nat /\ Score(q) >= Score(r)
<1>1. PICK a, b \in Nat : a = Bonus(Cardinality(Involved(r))) /\ b = Bonus(Cardinality(Involved(q))) /\ a <= b
  BY InvolvedCounts, BonusGrows
<1>2. "physical" \in Families /\ "storage" \in Families /\ "network" \in Families /\ "compute" \in Families
  BY DEF Families
<1>3. PICK t, u \in Nat :
          /\ t = FamilyPoints(r, "physical") + FamilyPoints(r, "storage")
                 + FamilyPoints(r, "network") + FamilyPoints(r, "compute") + a
          /\ u = FamilyPoints(q, "physical") + FamilyPoints(q, "storage")
                 + FamilyPoints(q, "network") + FamilyPoints(q, "compute") + b
          /\ t <= u
  BY <1>1, <1>2
<1>4. /\ Score(r) = IF (t + 5) \div 10 > 100 THEN 100 ELSE (t + 5) \div 10
      /\ Score(q) = IF (u + 5) \div 10 > 100 THEN 100 ELSE (u + 5) \div 10
  BY <1>1, <1>3 DEF Score
<1>5. (t + 5) \div 10 \in Nat /\ (u + 5) \div 10 \in Nat /\ (t + 5) \div 10 <= (u + 5) \div 10
  BY <1>3
<1> QED
  BY <1>4, <1>5

LEMMA LevelGrows ==
  ASSUME NEW m \in Nat, NEW n \in Nat, m <= n
  PROVE  LevelFor(m) \in Levels /\ LevelFor(n) \in Levels /\ LevelFor(m) <= LevelFor(n)
<1>1. \A k \in Nat : LevelFor(k) = IF k <= 30 THEN 0 ELSE IF k <= 60 THEN 1 ELSE IF k <= 80 THEN 2 ELSE 3
  BY DEF LevelFor
<1> QED
  BY <1>1 DEF Levels

\* Neither the score nor the level falls when a signal worsens or a leak begins,
\* whatever the other signals say: the decay within a family and the bonus for
\* agreeing families do not work against each other.
THEOREM TroubleNeverCalms == DecisionSpec => MoreTroubleNeverCalms
<1>1. ASSUME ReadingTypes, ReadingTypes', NEW s \in Signals, Worsen(s)
      PROVE  Score(reading') >= Score(reading) /\ Level(reading') >= Level(reading)
  <2>1. PICK r, q \in Reading : r = reading /\ q = reading'
    BY <1>1 DEF ReadingTypes
  <2>2. r.status[s] < 2 /\ q = [r EXCEPT !.status[s] = @ + 1]
    BY <1>1, <2>1 DEF Worsen
  <2>3. q.leak = r.leak
    BY <2>1, <2>2 DEF Reading
  <2>4. Involved(r) \subseteq Involved(q)
    <3>1. \A x \in Signals : r.status[x] > 0 => q.status[x] > 0
      BY <2>1, <2>2 DEF Reading, Status
    <3> QED
      BY <2>3, <3>1, FamiliesFinite DEF Involved
  <2>5. \A f \in Families : /\ FamilyPoints(r, f) \in Nat /\ FamilyPoints(q, f) \in Nat
                            /\ FamilyPoints(q, f) >= FamilyPoints(r, f)
    BY <2>2, <2>3, CountWorse, PointsGrow
  <2>6. Score(r) \in Nat /\ Score(q) \in Nat /\ Score(q) >= Score(r)
    BY <2>4, <2>5, ScoreGrows
  <2>7. LevelFor(Score(q)) >= LevelFor(Score(r))
    BY <2>6, LevelGrows DEF Levels
  <2>8. Level(q) >= Level(r)
    BY <2>3, <2>7 DEF Level
  <2> QED
    BY <2>1, <2>6, <2>8
<1>2. ASSUME ReadingTypes, ReadingTypes', LeakBegins
      PROVE  Score(reading') >= Score(reading) /\ Level(reading') >= Level(reading)
  <2>1. PICK r, q \in Reading : r = reading /\ q = reading'
    BY <1>2 DEF ReadingTypes
  <2>2. ~r.leak /\ q.leak /\ q.status = r.status
    BY <1>2, <2>1 DEF LeakBegins, Reading
  <2>3. Involved(r) \subseteq Involved(q)
    BY <2>2 DEF Involved
  <2>4. \A f \in Families : Count(q, f, 1) = Count(r, f, 1) /\ Count(q, f, 2) = Count(r, f, 2)
    BY <2>2 DEF Count
  <2>5. \A f \in Families : /\ FamilyPoints(r, f) \in Nat /\ FamilyPoints(q, f) \in Nat
                            /\ FamilyPoints(q, f) >= FamilyPoints(r, f)
    BY <2>2, <2>4, PointsGrow
  <2>6. Score(r) \in Nat /\ Score(q) \in Nat /\ Score(q) >= Score(r)
    BY <2>3, <2>5, ScoreGrows
  <2>7. LevelFor(Score(r)) \in Levels
    BY <2>6, LevelGrows
  <2>8. Level(q) = 3 /\ Level(r) \in Levels
    BY <2>2, <2>7 DEF Level
  <2> QED
    BY <2>1, <2>6, <2>8 DEF Levels
<1>3. ReadingTypes /\ ReadingTypes' =>
        [(\E s \in Signals : Worsen(s)) \/ LeakBegins =>
            Score(reading') >= Score(reading) /\ Level(reading') >= Level(reading)]_reading
  BY <1>1, <1>2
<1> QED
  BY <1>3, ReadingInvariant, PTL DEF MoreTroubleNeverCalms

\* What the confidence depends on: where the numbers come from, how old they are
\* and which families agree.
LEMMA ConfidenceOf ==
  ASSUME NEW r \in Reading
  PROVE  Confidence(r) = IF r.source = "mock" THEN 0
                         ELSE IF Involved(r) = {} THEN 3
                         ELSE IF Involved(r) = {"physical"} THEN IF r.age = "aged" THEN 0 ELSE 1
                         ELSE IF Cardinality(Involved(r)) = 1 THEN IF r.age = "aged" THEN 1 ELSE 2
                         ELSE IF r.age = "aged" THEN 1 ELSE 3
<1>1. r.source \in {"real", "mock"}
  BY DEF Reading
<1>2. IsFiniteSet(Involved(r)) /\ Cardinality(Involved(r)) \in Nat
  BY FamiliesFinite, FS_Subset, FS_CardinalityType DEF Involved
<1>3. Cardinality(Involved(r)) = 0 <=> Involved(r) = {}
  BY <1>2, FS_EmptySet
<1>4. Cardinality({"physical"}) = 1
  BY FS_Singleton
<1> QED
  BY <1>1, <1>2, <1>3, <1>4 DEF Confidence, Downgrade

\* Confidence follows provenance: it moves with a reading only by the families that
\* agree, and neither age nor a lost sensor ever raises it.
THEOREM CredibilityIsProvenance == DecisionSpec => ConfidenceIsProvenance
<1>1. ASSUME ReadingTypes, ReadingTypes', NEW s \in Signals, Worsen(s), Involved(reading') = Involved(reading)
      PROVE  Confidence(reading') = Confidence(reading)
  <2>1. reading'.source = reading.source /\ reading'.age = reading.age
    BY <1>1 DEF ReadingTypes, Reading, Worsen
  <2> QED
    BY <1>1, <2>1, ConfidenceOf DEF ReadingTypes
<1>2. ASSUME ReadingTypes, ReadingTypes', Ages
      PROVE  Confidence(reading') <= Confidence(reading)
  <2>1. /\ reading'.source = reading.source /\ reading.age = "recent" /\ reading'.age = "aged"
        /\ Involved(reading') = Involved(reading)
    BY <1>2 DEF ReadingTypes, Reading, Ages, Involved
  <2> QED
    BY <1>2, <2>1, ConfidenceOf DEF ReadingTypes
<1>3. ASSUME ReadingTypes, ReadingTypes', SensorLost
      PROVE  Confidence(reading') <= Confidence(reading)
  <2>1. reading'.source = "mock"
    BY <1>3 DEF ReadingTypes, Reading, SensorLost
  <2> QED
    BY <1>3, <2>1, ConfidenceOf DEF ReadingTypes
<1>4. ReadingTypes' => (reading'.source = "mock" => Confidence(reading') = 0)
  BY ConfidenceOf DEF ReadingTypes
<1>5. ReadingTypes /\ ReadingTypes' =>
        [/\ (\E s \in Signals : Worsen(s)) /\ Involved(reading') = Involved(reading) =>
                Confidence(reading') = Confidence(reading)
         /\ Ages \/ SensorLost => Confidence(reading') <= Confidence(reading)
         /\ reading'.source = "mock" => Confidence(reading') = 0]_reading
  BY <1>1, <1>2, <1>3, <1>4
<1> QED
  BY <1>5, ReadingInvariant, PTL DEF ConfidenceIsProvenance
=============================================================================
