--------------------------- MODULE RuleValidation ---------------------------
(***************************************************************************)
(* What a rule is told before it is armed (rules/validate.ts), measured     *)
(* against the baselines of the log (rules/baseline.ts).  One numeric and   *)
(* one event channel; a value is a step of the channel's scale.  A log is   *)
(* the set of values and the number of enter events the baselines are made  *)
(* of; the current reading comes from a second reading of the file, and may *)
(* be one that the baselines do not know.                                   *)
(***************************************************************************)
EXTENDS Integers, FiniteSetsExt

CONSTANTS
    Least, Most,  \* what the sensor can report (NUMERIC_CHANNELS)
    Budget        \* messages a rule may send over its lifetime (NOISY_MESSAGE_BUDGET)

ASSUME ScaleAssumption == Least \in Int /\ Most \in Int /\ Budget \in Nat

Values == Least..Most
NoReading == Least - 2  \* the second reading of the log found none
Operators == {"<", "<=", ">=", ">"}

\* What people ask for: values off the scale and durations of nothing included,
\* and a channel there is not.  window: how long the rule is to stay armed, 1 for
\* any time that is not 0 or less, and for no limit.
NumericRule == [kind : {"level", "sustained"}, channel : {"numeric", "event", "other"},
                op : Operators, value : (Least - 1)..(Most + 1), seconds : {0, 1}, window : {0, 1}]
EventRule == [kind : {"event", "state_duration"}, channel : {"numeric", "event", "other"},
              match : {"enter", "exit", "otherEvent"}, seconds : {0, 1}, window : {0, 1}]
StaleRule == [kind : {"stale"}, seconds : {0, 1}, window : {0, 1}]
Rules == NumericRule \cup EventRule \cup StaleRule

Compare(op, left, right) ==
    CASE op = "<" -> left < right
      [] op = "<=" -> left <= right
      [] op = ">=" -> left >= right
      [] op = ">" -> left > right

Timed(rule) == rule.kind \in {"sustained", "state_duration", "stale"}
Numeric(rule) == rule.kind \in {"level", "sustained"}

\* (mutant) the extremes of the log are taken the wrong way round.
ReachedBackwards(rule, seen) ==
    IF rule.op \in {">", ">="} THEN Min(seen) >= rule.value ELSE Max(seen) <= rule.value

\* The baseline keeps the extremes; a strict rule is not told from the other.
Reached(rule, seen) ==
    IF rule.op \in {">", ">="} THEN Max(seen) >= rule.value ELSE Min(seen) <= rule.value

NumericFindings(rule, log, current) ==
    (IF rule.value < Least THEN {"below_sensor_range"} ELSE {})
    \cup (IF rule.value > Most THEN {"above_sensor_range"} ELSE {})
    \cup (IF log.seen = {} THEN {"no_history"}
          ELSE IF Reached(rule, log.seen) THEN {} ELSE {"never_observed"})
    \cup (IF current # NoReading /\ Compare(rule.op, current, rule.value)
          THEN {"already_true"} ELSE {})

\* At the measured rate, over the window the rule is armed for: the log is as long
\* as the window here, so that the expected messages are the events it holds.
EventFindings(rule, log) ==
    LET count == IF rule.match = "enter" THEN log.enters ELSE 0
    IN  IF rule.match \notin {"enter", "exit"} THEN {"unknown_event"}
        ELSE IF count = 0 THEN {"channel_silent"}
        ELSE IF rule.kind = "event" /\ count > Budget THEN {"noisy"} ELSE {}

Findings(rule, log, current) ==
    IF (Timed(rule) /\ rule.seconds = 0) \/ rule.window = 0 THEN {"invalid_duration"}
    ELSE IF rule.kind = "stale" THEN {}
    ELSE IF Numeric(rule) # (rule.channel = "numeric") \/ rule.channel = "other"
    THEN {"unknown_channel"}
    ELSE IF Numeric(rule) THEN NumericFindings(rule, log, current)
    ELSE EventFindings(rule, log)

Rejections == {"invalid_duration", "unknown_channel", "unknown_event",
               "below_sensor_range", "above_sensor_range"}

Accepted(rule, log, current) == Findings(rule, log, current) \cap Rejections = {}
=============================================================================
