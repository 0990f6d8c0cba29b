----------------------------- MODULE MCDecisions -----------------------------
(***************************************************************************)
(* The pure decisions, explored one observation at a time.  They share no  *)
(* state in the code, so a behaviour is about one of them: the access       *)
(* matrix (MCAccessDecision), the incident assessment, or the validation    *)
(* of a rule.                                                               *)
(***************************************************************************)
EXTENDS MCAccessDecision, Assessment, RuleValidation

VARIABLES
    about,    \* the decision this behaviour is about
    reading,  \* what assessIncident is given
    rule,     \* the rule a person asks for
    log,      \* what the baselines are made of: the values seen, the enter events
    current   \* the newest value when the log is read again for it

decisionVars == <<look, about, reading, rule, log, current>>

Calm == [status |-> [s \in Signals |-> 0], leak |-> FALSE, source |-> "real", age |-> "recent"]
NoLook == [present |-> FALSE, lapsed |-> FALSE, captured |-> FALSE, known |-> 0,
           unknown |-> 0, doorObserved |-> FALSE, opens |-> 0, incident |-> FALSE]
EmptyLog == [seen |-> {}, enters |-> 0]

DecisionInit ==
    /\ about \in {"access", "incident", "rule"}
    /\ IF about = "access" THEN Init ELSE look = NoLook
    /\ reading = Calm
    /\ rule \in IF about = "rule" THEN Rules ELSE {CHOOSE r \in StaleRule : TRUE}
    /\ log = EmptyLog
    /\ current = NoReading

LookChanges == about = "access" /\ Next /\ UNCHANGED <<about, reading, rule, log, current>>

Worsen(s) == reading.status[s] < 2 /\ reading' = [reading EXCEPT !.status[s] = @ + 1]
LeakBegins == ~reading.leak /\ reading' = [reading EXCEPT !.leak = TRUE]
Ages == reading.age = "recent" /\ reading' = [reading EXCEPT !.age = "aged"]
\* What was coupled to the measured temperature goes back to its own.
SensorLost ==
    /\ reading.source = "real"
    /\ reading' = [reading EXCEPT !.source = "mock", !.age = "none",
                    !.status = [s \in Signals |-> IF s \in Coupled THEN 0 ELSE @[s]]]

ReadingChanges ==
    /\ about = "incident"
    /\ (\E s \in Signals : Worsen(s)) \/ LeakBegins \/ Ages \/ SensorLost
    /\ Possible(reading')
    /\ UNCHANGED <<look, about, rule, log, current>>

\* One more line, which both of createRule's readings of the file find.
LogGrows ==
    /\ about = "rule"
    /\ \/ \E v \in Values : log' = [log EXCEPT !.seen = @ \cup {v}] /\ current' = v
       \/ log.enters <= Budget /\ log' = [log EXCEPT !.enters = @ + 1] /\ UNCHANGED current
    /\ UNCHANGED <<look, about, reading, rule>>

\* The file is replaced, or becomes unreadable, while createRule awaits its second
\* reading: the current value need not be one of those in the baselines.
ReadingsDiffer ==
    /\ about = "rule"
    /\ current' \in Values \cup {NoReading}
    /\ UNCHANGED <<look, about, reading, rule, log>>

DecisionNext == LookChanges \/ ReadingChanges \/ LogGrows \/ ReadingsDiffer
DecisionSpec == DecisionInit /\ [][DecisionNext]_decisionVars
-----------------------------------------------------------------------------
\* Nothing that gets worse at the rack makes the picture milder: neither the score
\* nor the level falls when a signal worsens or a leak begins, whatever else is
\* wrong in its family or elsewhere (risk.ts: decay within a family and the bonus
\* for agreeing families may not work against each other).
MoreTroubleNeverCalms ==
    [][(\E s \in Signals : Worsen(s)) \/ LeakBegins =>
        Score(reading') >= Score(reading) /\ Level(reading') >= Level(reading)]_reading

\* How far a verdict is to be believed depends on where its numbers come from and
\* on which families agree, never on how bad they are; age and a lost sensor never
\* make it more credible (confidence.ts: the mock reading that paged as CRITICAL).
ConfidenceIsProvenance ==
    [][/\ (\E s \in Signals : Worsen(s)) /\ Involved(reading') = Involved(reading) =>
            Confidence(reading') = Confidence(reading)
       /\ Ages \/ SensorLost => Confidence(reading') <= Confidence(reading)
       /\ reading'.source = "mock" => Confidence(reading') = 0]_reading

\* The all-clear is given only when every evaluated family is within its
\* thresholds (the words of the last branch of explain, assess.ts).
NoFalseAllClear ==
    about = "incident" /\ Cause(reading) = "noIncident" => Involved(reading) = {}

\* What a person is told about a rule on a reading is so. One that is refused for its
\* threshold would fire on every reading or on none; one that is armed without
\* "never_observed" was fulfilled, or exactly reached, by something in the log;
\* one said to be true already, of a value the baselines know, is not also called
\* unheard of (validate.ts).
VerdictIsRight ==
    about = "rule" /\ Numeric(rule) =>
        LET told == Findings(rule, log, current)
            fires(v) == Compare(rule.op, v, rule.value)
        IN  /\ told \cap {"below_sensor_range", "above_sensor_range"} # {} =>
                    \A v, w \in Values : fires(v) = fires(w)
            /\ Accepted(rule, log, current) /\ told \cap {"never_observed", "no_history"} = {} =>
                    \E v \in log.seen : fires(v) \/ v = rule.value
            /\ "never_observed" \in told => ~\E v \in log.seen : fires(v)
            /\ "already_true" \in told /\ current \in log.seen => "never_observed" \notin told

\* rules/validate.ts: "has never happened. I'll arm it, but it may never fire" and
\* "already satisfies this rule -- expect it to fire on the next check" are not
\* said of the same rule.
RemarksAgree ==
    about = "rule" =>
        ~({"already_true", "never_observed"} \subseteq Findings(rule, log, current))
=============================================================================
