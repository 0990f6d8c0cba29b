------------------------------ MODULE RuleEngine ------------------------------
\* The alert rules people author over Telegram (mcp-tools/src/rules): the agent's
\* calls (manage.ts), which alone write rules.json, and the evaluator's tick
\* (runner.ts, evaluate.ts), which alone writes rule-state.json. Neither takes a
\* lock, so a call and a tick meet at every await. The board's log reaches the
\* laptop by a push of the whole file, written over the old copy: a tick finds it
\* late, and can find it cut off anywhere.
\*
\* Instants are Epoch + 1..MaxTime; Epoch is 1970, the time of a board that has not
\* been given one, and 0 a stamp that is absent: the later of two stamps is the
\* larger one. The board logs at most one line an instant, and may log none.
EXTENDS Integers, Sequences, FiniteSetsExt

CONSTANTS
    UserIds,        \* the ids newRuleId tries, in its order
    SystemIds,      \* the built-in rules of defaults.ts
    Catalogues,     \* what they may judge: a set of [SystemIds -> kinds]
    Kinds,          \* the kinds people ask for
    Windows,        \* how long a rule stays armed, 0 for until cancelled
    Lines,          \* what a line may hold: a door opened ("enter") or closed ("exit"),
                    \* both with a calm reading, just a "high" reading, or a calm
                    \* one stamped 1970 ("adrift")
    MaxTime,        \* bound on the clock
    MaxCalls,       \* bound on the agent's calls
    LevelInterval,  \* UNOQ_LEVEL_INTERVAL_S
    ForSeconds,     \* how long a sustained, state_duration or stale condition holds
    ReuseInTick,    \* whether an id may be freed and given out within one tick
    None

Epoch == 1
Times == 1..MaxTime
UserIdSet == {UserIds[i] : i \in DOMAIN UserIds}
Ids == UserIdSet \cup SystemIds
\* Every rule there ever was: ids are used again, these are not.
Incarnations == SystemIds \cup 1..MaxCalls
LevelKinds == {"level", "sustained", "state_duration", "stale"}

ASSUME KindAssumption ==
    /\ Kinds \subseteq LevelKinds \cup {"event"}
    /\ Catalogues \subseteq [SystemIds -> LevelKinds \cup {"event"}]
ASSUME IdAssumption ==
    /\ DOMAIN UserIds \subseteq Nat /\ UserIdSet \cap SystemIds = {}
    /\ SystemIds \cap 1..MaxCalls = {}
ASSUME BoundAssumption ==
    MaxTime \in Nat \ {0, 1} /\ MaxCalls \in Nat /\ LevelInterval \in Nat /\ ForSeconds \in Nat
ASSUME ValueAssumption ==
    Windows \subseteq Nat /\ Lines \subseteq {"enter", "exit", "high", "adrift"} /\ ReuseInTick \in BOOLEAN

VARIABLES
    catalogue,  \* the kinds of the built-in rules, as they are compiled in
    clock,
    log,        \* what the board has logged at each instant, None where nothing
    shown,      \* the instant up to which the laptop's copy of the log goes
    rules,      \* rules.json: id -> rule
    runtime,    \* rule-state.json: id -> watermark, latch, expiry notice
    levelsAt,   \* rule-state.json: levelsEvaluatedAt
    call,       \* the agent's call under way
    tick,       \* the evaluator's tick under way
    asked,      \* calls of the agent so far that have not failed
    reports,    \* history: what each rule was told of each event
    notices,    \* history: how often each rule's expiry was announced
    alerts,     \* history: what each rule about a reading has said of it
    alertedAt   \* history: the newest line when it last said so

files == <<rules, runtime, levelsAt>>
history == <<reports, notices, alerts, alertedAt>>
vars == <<catalogue, clock, log, shown, files, call, tick, asked, history>>
kept == <<catalogue, history>>

Later(a, b) == Max({a, b})
Newest(lines) == IF lines = {} THEN 0 ELSE Max(lines)

\* Lines that carry the time they were logged at, and the stamp of the last line.
Real(t) == log[t] \notin {None, "adrift"}
Dated(lines) == {t \in lines : Real(t)}
Stamp(t) == IF log[t] = "adrift" THEN Epoch ELSE t
Last(lines) == IF lines = {} THEN 0 ELSE Stamp(Newest(lines))
EndsBefore(lines, t) == lines # {} /\ Last(lines) < t

-------------------------------------------------------------------------------
\* The rules in force: a stored rule with a built-in's id replaces it.

SystemRule(id) ==
    [kind |-> catalogue[id], of |-> id, armedAt |-> 0, expiresAt |-> 0, enabled |-> TRUE]

MergeWithDefaults(stored) ==
    [id \in Ids |-> IF id \in SystemIds /\ stored[id] = None THEN SystemRule(id) ELSE stored[id]]

\* readRules as tryReadRules hands it on when the file cannot be read.
NoRules == [id \in Ids |-> None]

-------------------------------------------------------------------------------
\* evaluate.ts

\* `of` and `from` are history: the rule it is the runtime of, and the line a rule
\* without an anchor started from.
Fresh(rule) == [of |-> rule.of, from |-> 0, watermark |-> 0, fired |-> FALSE, expiredNotified |-> FALSE]

\* (mutant) a muted rule forgets what it had said.
PreviousForgotten(id, rule) ==
    IF runtime[id] = None \/ ~rule.enabled THEN Fresh(rule) ELSE runtime[id]

Previous(id, rule) == IF runtime[id] = None THEN Fresh(rule) ELSE runtime[id]

\* Where a rule starts to read, 0 at the first sight of a built-in rule.
WindowFloor(rule, prev) == Later(prev.watermark, rule.armedAt)

\* (mutant) the mark is one past the newest line.
AdvancedPast(lines, prev) == IF lines = {} THEN prev.watermark ELSE Last(lines) + 1

\* The stamp of the last line, older as it may be than the mark it replaces; the old
\* mark when there is no line at all.
Advanced(lines, prev) == IF lines = {} THEN prev.watermark ELSE Last(lines)

Expired(rule, now) == rule.expiresAt # 0 /\ rule.expiresAt <= now

Quiet(prev) == [next |-> prev, events |-> {}, alert |-> FALSE, notice |-> FALSE]

\* What is kept of a look at the lines.
Carried(prev, lines, floor) ==
    [prev EXCEPT !.watermark = Advanced(lines, prev),
                 !.from = IF floor = 0 THEN Last(lines) ELSE @]

\* Every occurrence since the floor; a rule without an anchor adopts the end of
\* the log and reports nothing.
EvaluateEvent(prev, lines, floor) ==
    [Quiet(Carried(prev, lines, floor)) EXCEPT
        !.events = IF floor = 0 THEN {} ELSE {t \in lines : t > floor /\ log[t] = "enter"}]

EvaluateExpiry(rule, prev, lines) ==
    LET upTo == {t \in lines : Stamp(t) <= rule.expiresAt}
        last == IF rule.kind = "event" THEN EvaluateEvent(prev, upTo, WindowFloor(rule, prev))
                ELSE Quiet(prev)
    IN  IF prev.expiredNotified THEN Quiet(prev)
        ELSE [last EXCEPT !.next = [@ EXCEPT !.expiredNotified = TRUE], !.notice = TRUE]

\* The lines a level rule judges: the newest alone when it has no anchor.
LevelWindow(lines, floor) ==
    IF floor = 0 THEN {t \in lines : t = Newest(lines)} ELSE {t \in Dated(lines) : t > floor}
SustainedWindow(lines, now) == {t \in Dated(lines) : t >= now - ForSeconds}
Covered(lines, now) == Min(SustainedWindow(lines, now)) <= now - ForSeconds + ForSeconds \div 4
Alive(lines, now) == lines # {} /\ Real(Newest(lines)) /\ now - Newest(lines) <= ForSeconds
Edges(lines) == {t \in lines : log[t] \in {"enter", "exit"}}

\* (mutant) no lines, no judgement.
JudgeableWithLines(rule, lines, now, floor) == lines # {}

\* Whether the log can answer at all. A missing sensor is no healthy one.
Judgeable(rule, lines, now, floor) ==
    CASE rule.kind = "level" -> LevelWindow(lines, floor) # {}
      [] rule.kind = "sustained" -> SustainedWindow(lines, now) # {}
      [] rule.kind = "state_duration" -> Edges(lines) # {}
      [] rule.kind = "stale" -> TRUE

Condition(rule, lines, now, floor) ==
    CASE rule.kind = "level" -> \E t \in LevelWindow(lines, floor) : log[t] = "high"
      [] rule.kind = "sustained" ->
            /\ Covered(lines, now)
            /\ \A t \in SustainedWindow(lines, now) : log[t] = "high"
      [] rule.kind = "state_duration" ->
            /\ log[Newest(Edges(lines))] = "enter"
            /\ now - Newest(Edges(lines)) >= ForSeconds
      [] rule.kind = "stale" -> ~Alive(lines, now)

\* The latch: alert once, then stay quiet until the condition is judged false.
EvaluateLevelish(rule, prev, lines, now) ==
    LET floor == WindowFloor(rule, prev)
        carried == Carried(prev, lines, floor)
        met == Condition(rule, lines, now, floor)
    IN  IF ~Judgeable(rule, lines, now, floor) THEN Quiet(carried)
        ELSE [Quiet([carried EXCEPT !.fired = met]) EXCEPT !.alert = met /\ ~prev.fired]

LevelsDue(now) == levelsAt = 0 \/ now - levelsAt >= LevelInterval
Judging(rule, now) ==
    rule.kind # "event" /\ rule.enabled /\ ~Expired(rule, now) /\ LevelsDue(now)

EvaluateRule(id, rule, lines, now) ==
    LET prev == Previous(id, rule)
    IN  CASE ~rule.enabled -> Quiet(prev)
          [] rule.enabled /\ Expired(rule, now) -> EvaluateExpiry(rule, prev, lines)
          [] OTHER ->
                IF rule.kind = "event"
                THEN EvaluateEvent(prev, lines, WindowFloor(rule, prev))
                ELSE IF LevelsDue(now) THEN EvaluateLevelish(rule, prev, lines, now)
                ELSE Quiet(prev)

-------------------------------------------------------------------------------
\* The evaluator's tick (runner.ts).

Idle == [now |-> 0, rules |-> NoRules, degraded |-> FALSE]
Ticking == tick # Idle

TickRead ==
    /\ ~Ticking
    /\ tick' = [now |-> clock, rules |-> MergeWithDefaults(rules), degraded |-> FALSE]
    /\ UNCHANGED <<clock, log, shown, files, call, asked, kept>>

\* rules.json is there but held by another process: built-in rules only.
TickReadBusy ==
    /\ ~Ticking
    /\ tick' = [now |-> clock, rules |-> MergeWithDefaults(NoRules), degraded |-> TRUE]
    /\ UNCHANGED <<clock, log, shown, files, call, asked, kept>>

\* (mutant) a list that could not be read prunes like any other.
PersistedPruned(next) == next

Persisted(next) ==
    [id \in Ids |-> IF tick.rules[id] = None /\ tick.degraded THEN runtime[id] ELSE next[id]]

\* History. What is said a second time is said twice, unless there was a reason since
\* it was said last, that tick included, to say it again.
After(past, said, reason) ==
    IF past = "twice" \/ (past = "told" /\ said) THEN "twice"
    ELSE IF past = "told" \/ said THEN (IF reason THEN "open" ELSE "told")
    ELSE past

\* A reason to alert again, after an alert at line a: a line since then says that the
\* condition had passed; the log ends before a; its lines begin too late to say
\* anything of the whole time (evaluate.ts, covered).
Reopens(kind, lines, now, a) ==
    \/ \E t \in lines : t > a /\ log[t] \in {"enter", "exit"}
    \/ EndsBefore(lines, a)
    \/ kind = "sustained" /\ SustainedWindow(lines, now) # {} /\ ~Covered(lines, now)
    \/ kind = "stale" /\ Alive(lines, now)

Evaluate(lines) ==
    LET in == {id \in Ids : tick.rules[id] # None}
        now == tick.now
        result == [id \in in |-> EvaluateRule(id, tick.rules[id], lines, now)]
        next == [id \in Ids |-> IF id \in in THEN result[id].next ELSE None]
        Said(i) == {id \in in : tick.rules[id].of = i}
        alerted == [i \in Incarnations |->
                IF \E id \in Said(i) : result[id].alert THEN Newest(Dated(lines)) ELSE alertedAt[i]]
    IN  /\ Ticking
        /\ runtime' = Persisted(next)
        /\ levelsAt' = IF LevelsDue(now) THEN now ELSE levelsAt
        /\ reports' = [i \in Incarnations |-> [t \in Times |-> After(reports[i][t],
                \E id \in Said(i) : t \in result[id].events,
                \E id \in Said(i) : tick.rules[id].enabled /\ EndsBefore(lines, t))]]
        /\ notices' = [i \in Incarnations |->
                IF \E id \in Said(i) : result[id].notice THEN Min({2, notices[i] + 1}) ELSE notices[i]]
        /\ alertedAt' = alerted
        /\ alerts' = [i \in Incarnations |-> After(alerts[i],
                \E id \in Said(i) : result[id].alert,
                \E id \in Said(i) : /\ Judging(tick.rules[id], now)
                                    /\ Reopens(tick.rules[id].kind, lines, now, alerted[i]))]
        /\ tick' = Idle
        /\ UNCHANGED <<clock, log, shown, rules, call, asked, catalogue>>

Copy(n) == {t \in 1..n : log[t] # None}

TickEvaluate == Evaluate(Copy(shown))
\* A log that cannot be read is a log without lines.
TickEvaluateBlind == Evaluate({})

\* The state file cannot be read or replaced, or the process dies: nothing is said.
TickFails ==
    /\ Ticking
    /\ tick' = Idle
    /\ UNCHANGED <<clock, log, shown, files, call, asked, kept>>

-------------------------------------------------------------------------------
\* The agent's calls (manage.ts). A call that cannot read rules.json changes nothing.

Free == call = None
Stored(id) == rules[id] # None
MayAsk == asked < MaxCalls /\ asked' = asked + 1

\* createRule has read rules.json and goes on to read rule-state.json.
CreateReads ==
    /\ Free /\ MayAsk
    /\ call' = [step |-> "create", file |-> rules]
    /\ UNCHANGED <<clock, log, shown, files, tick, kept>>

\* (mutant) only the stored rules' ids are in use.
UsedStored(stored) == {id \in Ids : stored[id] # None}

Used(stored) == {id \in Ids : stored[id] # None \/ runtime[id] # None}

\* The first id that is neither a stored rule's nor has runtime left.
NewRuleId(stored) == UserIds[Min({i \in DOMAIN UserIds : UserIds[i] \notin Used(stored)})]

\* (mutant) a rule is collected once its time is over.
CollectableInTime(stored, id) ==
    stored[id] # None /\ stored[id].expiresAt # 0 /\ stored[id].expiresAt <= clock

Collectable(stored, id) ==
    /\ stored[id] # None /\ stored[id].expiresAt # 0
    /\ runtime[id] # None /\ runtime[id].expiredNotified

GcExpired(stored) == [id \in Ids |-> IF Collectable(stored, id) THEN None ELSE stored[id]]

\* The tick under way holds a rule that is gone and has left no runtime yet.
ReuseHazard == Ticking /\ \E id \in UserIdSet : tick.rules[id] # None /\ ~Stored(id) /\ runtime[id] = None

CreateArms ==
    LET stored == call.file
        id == NewRuleId(stored)
    IN  /\ ~Free /\ call.step = "create"
        /\ \E u \in UserIdSet : u \notin Used(stored)
        /\ ReuseHazard => ReuseInTick
        /\ \E kind \in Kinds, w \in Windows :
              LET rule == [kind |-> kind, of |-> asked, armedAt |-> clock, enabled |-> TRUE,
                           expiresAt |-> IF w = 0 THEN 0 ELSE clock + w]
              IN  call' = [step |-> "add", file |-> [GcExpired(stored) EXCEPT ![id] = rule]]
        /\ UNCHANGED <<clock, log, shown, files, tick, asked, kept>>

Cancelled(id) == IF id \in SystemIds THEN [SystemRule(id) EXCEPT !.enabled = FALSE] ELSE None

\* A person's rule is removed, a built-in one is muted by an override.
CancelReads(id) ==
    /\ Free /\ MayAsk
    /\ IF id \in SystemIds THEN Stored(id) => rules[id].enabled ELSE Stored(id)
    /\ call' = [step |-> "edit", file |-> [rules EXCEPT ![id] = Cancelled(id)]]
    /\ UNCHANGED <<clock, log, shown, files, tick, kept>>

Resumed(id) ==
    IF id \in SystemIds THEN [SystemRule(id) EXCEPT !.armedAt = clock]
    ELSE [rules[id] EXCEPT !.enabled = TRUE, !.armedAt = clock]

ResumeReads(id) ==
    /\ Free /\ MayAsk /\ Stored(id)
    /\ call' = [step |-> "edit", file |-> [rules EXCEPT ![id] = Resumed(id)]]
    /\ UNCHANGED <<clock, log, shown, files, tick, kept>>

\* The rename lands.
CallWrites ==
    /\ ~Free /\ call.step \in {"add", "edit"}
    /\ rules' = call.file
    /\ call' = None
    /\ UNCHANGED <<clock, log, shown, runtime, levelsAt, tick, asked, kept>>

\* A read of the state file or the write failed.
CallFails ==
    /\ ~Free
    /\ call' = None
    /\ asked' = asked - 1
    /\ UNCHANGED <<clock, log, shown, files, tick, kept>>

-------------------------------------------------------------------------------
\* The board and the push.

Advance ==
    /\ clock < MaxTime
    /\ clock' = clock + 1
    /\ \E l \in Lines \cup {None} : log' = [log EXCEPT ![clock + 1] = l]
    /\ UNCHANGED <<shown, files, call, tick, asked, kept>>

\* The whole file is copied over, some time after its lines were written: what is
\* there is the part that has arrived, then or for good if the push is cut off.
Push ==
    /\ \E n \in 0..clock : n # shown /\ shown' = n
    /\ UNCHANGED <<clock, log, files, call, tick, asked, kept>>

-------------------------------------------------------------------------------
Init ==
    /\ catalogue \in Catalogues
    /\ clock = Epoch + 1 /\ shown = 0 /\ levelsAt = 0 /\ asked = 0
    /\ log \in {[t \in Times |-> IF t = clock THEN l ELSE None] : l \in Lines \cup {None}}
    /\ rules \in {[id \in Ids |-> IF id \in muted THEN Cancelled(id) ELSE None] :
                    muted \in SUBSET SystemIds}
    /\ runtime = [id \in Ids |-> None]
    /\ call = None
    /\ tick = Idle
    /\ reports = [i \in Incarnations |-> [t \in Times |-> "never"]]
    /\ notices = [i \in Incarnations |-> 0]
    /\ alerts = [i \in Incarnations |-> "never"]
    /\ alertedAt = [i \in Incarnations |-> 0]

Tick == TickRead \/ TickReadBusy \/ TickEvaluate \/ TickEvaluateBlind \/ TickFails
Call ==
    \/ CreateReads \/ CreateArms \/ CallWrites \/ CallFails
    \/ \E id \in Ids : CancelReads(id) \/ ResumeReads(id)
Next == Tick \/ Call \/ Advance \/ Push

Spec == Init /\ [][Next]_vars

-------------------------------------------------------------------------------
Stamps == 0..MaxTime
Rules == [kind : LevelKinds \cup {"event"}, of : Incarnations, armedAt : Stamps,
          expiresAt : Nat, enabled : BOOLEAN]
Runtimes == [of : Incarnations, from : Stamps, watermark : Stamps, fired : BOOLEAN, expiredNotified : BOOLEAN]
RuleFiles == [Ids -> Rules \cup {None}]
Tellings == {"never", "told", "open", "twice"}

ASSUME NoneAssumption == None \notin Rules /\ None \notin Runtimes /\ None \notin {"enter", "exit", "high", "adrift"}

TypeOK ==
    /\ catalogue \in Catalogues
    /\ clock \in Times /\ shown \in Stamps /\ levelsAt \in Stamps /\ asked \in 0..MaxCalls
    /\ log \in [Times -> Lines \cup {None}]
    /\ rules \in RuleFiles
    /\ runtime \in [Ids -> Runtimes \cup {None}]
    /\ call \in [step : {"create", "add", "edit"}, file : RuleFiles] \cup {None}
    /\ tick \in [now : Stamps, rules : RuleFiles, degraded : BOOLEAN]
    /\ reports \in [Incarnations -> [Times -> Tellings]]
    /\ notices \in [Incarnations -> 0..2]
    /\ alerts \in [Incarnations -> Tellings]
    /\ alertedAt \in [Incarnations -> Stamps]

\* An event is reported to a rule once, not again by the next tick: not when
\* rules.json could not be read, and not when the agent rewrites it meanwhile. Only
\* after a tick found a log whose last line is stamped before the event, a copy that is
\* cut off or a line of 1970, may it come again: the mark follows the last line.
NoEventTwice == \A i \in Incarnations, t \in Times : reports[i][t] # "twice"

\* Every line up to the watermark that was logged while the rule was armed has been
\* dealt with, however late the push brought it: each event is reported, and no
\* high reading passes a level rule that has never alerted (types.ts: no gap).
Armed(rule, t) == rule.armedAt < t /\ (rule.expiresAt = 0 \/ t <= rule.expiresAt)
Examined(id) == {t \in Times : Armed(rules[id], t) /\ runtime[id].from < t /\ t <= runtime[id].watermark}
NothingSkipped ==
    \A id \in Ids : Stored(id) /\ rules[id].enabled /\ runtime[id] # None =>
        \A t \in Examined(id) :
            /\ rules[id].kind = "event" /\ log[t] = "enter" => reports[rules[id].of][t] # "never"
            /\ rules[id].kind = "level" /\ log[t] = "high" => alerts[rules[id].of] # "never"

\* Both: no event is lost on a rule and, but for copies that end before it, none comes
\* to it twice.
EventsSeenOnce == NoEventTwice /\ NothingSkipped

\* A rule never starts from what a dead rule with its id left behind: no old
\* watermark, no stuck latch, no notice it never gave (manage.ts, newRuleId).
NoInheritance == \A id \in Ids : Stored(id) /\ runtime[id] # None => runtime[id].of = rules[id].of

\* A rule is collected only after its expiry was announced, once.
ExpiryAnnounced ==
    /\ \A i \in Incarnations : notices[i] <= 1
    /\ ~Free /\ call.step = "add" =>
          \A id \in Ids : Stored(id) /\ rules[id].expiresAt # 0 /\ call.file[id] = None
              => notices[rules[id].of] = 1

\* A built-in rule that has not latched silence found, at the last turn of the rules
\* about readings, a log whose last line was fresh: a log that cannot be read, a copy
\* that stays behind and a line of 1970 are not taken for health (runner.ts:83-88).
SilenceNoticed ==
    \A id \in SystemIds : catalogue[id] = "stale" /\ ~Stored(id) /\ levelsAt > 0 /\ ~runtime[id].fired =>
        \E t \in Times : t = runtime[id].watermark /\ Real(t) /\ levelsAt - t <= ForSeconds

\* A rule about a reading that has alerted does so again only after a tick that gave it
\* a reason (Reopens): a line that says the condition had passed, a log that ends before
\* the alert, or, for "stayed high for", lines that begin too late. A restart, a mute, and
\* a log or rules.json that could not be read are none.
AlertsAfterRecovery == \A i \in Incarnations : alerts[i] # "twice"

\* What the code does not keep: an event never comes again, whatever the copies show
\* (evaluate.ts:180, 231: the mark is the stamp of the last line present).
EventNeverRepeated == [][
    \A i \in Incarnations, t \in Times : reports[i][t] = "open" => reports'[i][t] # "told"]_vars

\* What the code does not keep: after an alert nothing more until a line says that the
\* condition passed (evaluate.ts:10-12; a hole in the log opens the latch at 331).
QuietUntilRecovery == [][
    \A i \in Incarnations : alerts[i] # "never" /\ alertedAt[i] # 0 /\ alertedAt'[i] # alertedAt[i] =>
        \/ \E id \in Ids : tick.rules[id] # None /\ tick.rules[id].of = i /\ tick.rules[id].kind = "stale"
        \/ \E t \in Times : t > alertedAt[i] /\ log[t] \in {"enter", "exit"}]_vars

\* What the code does not keep: the feed is called silent only when no fresh line has
\* been pushed. A log that another process holds for a moment counts as no lines.
SilenceIsReal == [][
    \A id \in SystemIds :
        /\ catalogue[id] = "stale" /\ runtime'[id] # None /\ runtime'[id].fired
        /\ runtime[id] # None => ~runtime[id].fired
        => \A t \in 1..shown : Real(t) => levelsAt' - t > ForSeconds]_vars
===============================================================================
