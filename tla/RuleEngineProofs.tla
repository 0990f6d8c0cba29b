--------------------------- MODULE RuleEngineProofs ---------------------------
(***************************************************************************)
(* Proofs about RuleEngine, for any ids, kinds, windows and bounds, as long *)
(* as no id is freed and given out again within one tick (~ReuseInTick).    *)
(* Four invariants, each of which uses those before it:                     *)
(*   IInv     types, and what rules, runtimes, tick and call agree on, so   *)
(*            that a rule never inherits a dead rule's runtime;             *)
(*   HomeInv  every rule there ever was has one id, keeps its kind and      *)
(*            expiry, and has said nothing before it is written;            *)
(*   SaidInv  what a rule has said, its runtime remembers: hence at most    *)
(*            one expiry notice and one report of an event;                 *)
(*   SeenInv  what its runtime has passed over was said or was nothing to   *)
(*            say, and a closed latch stands for a condition that lasts.    *)
(* The theorems are at the end, but for the first two.                      *)
(***************************************************************************)
EXTENDS RuleEngine, WellFoundedInduction, TLAPS

-------------------------------------------------------------------------------
\* What makes NoInheritance inductive. A built-in rule's id is its own everywhere. A
\* tick under way agrees with rules.json on every rule both hold. A call under way
\* will leave each rule in place or remove it, except for a new one, and the new
\* one's id has neither runtime nor a place in the tick.

Counted == call # None => asked >= 1

SystemOwn ==
    \A id \in SystemIds :
        /\ rules[id] # None => rules[id].of = id
        /\ runtime[id] # None => runtime[id].of = id
        /\ tick.rules[id] # None => tick.rules[id].of = id
        /\ call # None => (call.file[id] # None => call.file[id].of = id)

TickAgrees ==
    \A id \in Ids : tick.rules[id] # None /\ rules[id] # None => tick.rules[id].of = rules[id].of

Stays(id) == rules[id] # None /\ call.file[id].of = rules[id].of
Unclaimed(id) == rules[id] = None /\ runtime[id] = None /\ tick.rules[id] = None

CallAgrees ==
    call # None =>
        /\ call.step = "create" => call.file = rules
        /\ \A id \in UserIdSet : call.file[id] # None => Stays(id) \/ Unclaimed(id)

IInv == TypeOK /\ Counted /\ SystemOwn /\ NoInheritance /\ TickAgrees /\ CallAgrees

-------------------------------------------------------------------------------
\* Minima and maxima of sets of numbers.

LEMMA MinExists ==
    ASSUME NEW S, S \subseteq Nat, S # {}
    PROVE  \E x \in S : \A y \in S : x <= y
<1> DEFINE less == OpToRel(<, Nat)
<1>1. IsWellFoundedOn(less, Nat)
  BY NatLessThanWellFounded
<1>2. PICK x \in S : \A y \in S : ~(<<y, x>> \in less)
  <2> HIDE DEF less
  <2> QED
    BY <1>1, WFMin
<1>3. \A y \in S : ~(y < x)
  BY <1>2 DEF OpToRel
<1> QED
  BY <1>3

LEMMA MaxExists ==
    ASSUME NEW n \in Nat, NEW S, S \subseteq 1..n, S # {}
    PROVE  \E x \in S : \A y \in S : x >= y
<1> DEFINE T == {k \in 0..n : n - k \in S}
<1>1. PICK x \in T : \A y \in T : x <= y
  <2>1. T \subseteq Nat
    OBVIOUS
  <2>2. T # {}
    <3>1. PICK s \in S : TRUE
      OBVIOUS
    <3>2. n - s \in 0..n /\ n - (n - s) = s
      OBVIOUS
    <3>3. n - s \in T
      BY <3>2
    <3> QED
      BY <3>3
  <2> HIDE DEF T
  <2> QED
    BY <2>1, <2>2, MinExists
<1>2. ASSUME NEW y \in S PROVE n - x >= y
  <2>1. n - y \in 0..n /\ n - (n - y) = y
    OBVIOUS
  <2>2. n - y \in T
    BY <2>1
  <2>3. x <= n - y
    BY <1>1, <2>2
  <2> QED
    BY <2>3
<1>3. n - x \in S
  OBVIOUS
<1> QED
  BY <1>2, <1>3

LEMMA NewestTyped ==
    ASSUME NEW S, S \subseteq Times
    PROVE  Newest(S) \in Stamps
<1>1. CASE S = {}
  BY <1>1, BoundAssumption DEF Newest, Stamps
<1>2. CASE S # {}
  <2>1. PICK x \in S : \A y \in S : x >= y
    BY <1>2, MaxExists, BoundAssumption DEF Times
  <2>2. Max(S) \in S
    BY <2>1 DEF Max
  <2>3. Newest(S) \in 1..MaxTime
    BY <1>2, <2>2, Zenon DEF Newest, Times
  <2> QED
    BY <2>3, BoundAssumption DEF Stamps
<1> QED
  BY <1>1, <1>2

LEMMA LastTyped ==
    ASSUME NEW S, S \subseteq Times
    PROVE  Last(S) \in Stamps
<1>1. Newest(S) \in Stamps /\ Epoch \in Stamps /\ 0 \in Stamps
  BY NewestTyped, BoundAssumption DEF Epoch, Stamps
<1> QED
  BY <1>1 DEF Last, Stamp

LEMMA DatedTyped ==
    ASSUME NEW S, S \subseteq Times
    PROVE  Dated(S) \subseteq S /\ Newest(Dated(S)) \in Stamps
<1>1. Dated(S) \subseteq S
  BY DEF Dated
<1> QED
  BY <1>1, NewestTyped

\* What is said first, again, or again with a reason.
LEMMA AfterIs ==
    ASSUME NEW past \in Tellings, NEW said \in BOOLEAN, NEW reason \in BOOLEAN
    PROVE  /\ After(past, said, reason) \in Tellings
           /\ After(past, said, reason) = "twice" <=> past = "twice" \/ (past = "told" /\ said)
           /\ After(past, said, reason) = "told" <=>
                ~reason /\ (IF said THEN past \in {"never", "open"} ELSE past = "told")
           /\ After(past, said, reason) = "never" <=> past = "never" /\ ~said
BY DEF After, Tellings

-------------------------------------------------------------------------------
\* What a tick makes of one rule is typed, and stays the runtime of whom it was.

Results == [next : Runtimes, events : SUBSET Times, alert : BOOLEAN, notice : BOOLEAN]

LEMMA QuietTyped ==
    ASSUME NEW prev \in Runtimes
    PROVE  Quiet(prev) \in Results /\ Quiet(prev).next = prev
BY DEF Quiet, Results

LEMMA CarriedTyped ==
    ASSUME NEW prev \in Runtimes, NEW lines, lines \subseteq Times, NEW floor
    PROVE  Carried(prev, lines, floor) \in Runtimes /\ Carried(prev, lines, floor).of = prev.of
<1>1. Last(lines) \in Stamps
  BY LastTyped
<1>2. Advanced(lines, prev) \in Stamps
  BY <1>1 DEF Advanced, Runtimes
<1> QED
  BY <1>1, <1>2 DEF Carried, Runtimes

LEMMA EventTyped ==
    ASSUME NEW prev \in Runtimes, NEW lines, lines \subseteq Times, NEW floor
    PROVE  /\ EvaluateEvent(prev, lines, floor) \in Results
           /\ EvaluateEvent(prev, lines, floor).next.of = prev.of
<1> DEFINE carried == Carried(prev, lines, floor)
           events == IF floor = 0 THEN {} ELSE {t \in lines : t > floor /\ log[t] = "enter"}
<1>1. carried \in Runtimes /\ carried.of = prev.of
  BY CarriedTyped
<1>2. events \in SUBSET Times
  OBVIOUS
<1>3. EvaluateEvent(prev, lines, floor) = [Quiet(carried) EXCEPT !.events = events]
  BY DEF EvaluateEvent
<1> HIDE DEF carried, events
<1> QED
  BY <1>1, <1>2, <1>3 DEF Quiet, Results

LEMMA ConditionBoolean ==
    ASSUME NEW rule, rule.kind \in LevelKinds, NEW lines, NEW now, NEW floor
    PROVE  Condition(rule, lines, now, floor) \in BOOLEAN
<1>1. CASE rule.kind = "level"
  BY <1>1 DEF Condition
<1>2. CASE rule.kind = "sustained"
  BY <1>2 DEF Condition
<1>3. CASE rule.kind = "state_duration"
  BY <1>3 DEF Condition
<1>4. CASE rule.kind = "stale"
  BY <1>4 DEF Condition
<1> QED
  BY <1>1, <1>2, <1>3, <1>4 DEF LevelKinds

LEMMA LevelishTyped ==
    ASSUME NEW rule, rule.kind \in LevelKinds, NEW prev \in Runtimes,
           NEW lines, lines \subseteq Times, NEW now
    PROVE  /\ EvaluateLevelish(rule, prev, lines, now) \in Results
           /\ EvaluateLevelish(rule, prev, lines, now).next.of = prev.of
<1> DEFINE floor == WindowFloor(rule, prev)
           carried == Carried(prev, lines, floor)
           met == Condition(rule, lines, now, floor)
           judged == [carried EXCEPT !.fired = met]
           said == met /\ ~prev.fired
<1>1. carried \in Runtimes /\ carried.of = prev.of
  BY CarriedTyped
<1>2. met \in BOOLEAN
  BY ConditionBoolean
<1>3. said \in BOOLEAN
  OBVIOUS
<1>4. EvaluateLevelish(rule, prev, lines, now) \in
        {Quiet(carried), [Quiet(judged) EXCEPT !.alert = said]}
  BY DEF EvaluateLevelish
<1> HIDE DEF floor, carried, met, said
<1>5. judged \in Runtimes /\ judged.of = prev.of
  BY <1>1, <1>2 DEF Runtimes
<1> HIDE DEF judged
<1>6. [Quiet(judged) EXCEPT !.alert = said] \in Results /\ Quiet(carried) \in Results
  BY <1>1, <1>3, <1>5 DEF Quiet, Results
<1>7. /\ [Quiet(judged) EXCEPT !.alert = said].next.of = prev.of
      /\ Quiet(carried).next.of = prev.of
  BY <1>1, <1>5 DEF Quiet
<1> QED
  BY <1>4, <1>6, <1>7

LEMMA ExpiryTyped ==
    ASSUME NEW rule, NEW prev \in Runtimes, NEW lines, lines \subseteq Times
    PROVE  /\ EvaluateExpiry(rule, prev, lines) \in Results
           /\ EvaluateExpiry(rule, prev, lines).next.of = prev.of
<1> DEFINE upTo == {t \in lines : Stamp(t) <= rule.expiresAt}
           last == IF rule.kind = "event" THEN EvaluateEvent(prev, upTo, WindowFloor(rule, prev))
                   ELSE Quiet(prev)
           noted == [last EXCEPT !.next = [@ EXCEPT !.expiredNotified = TRUE], !.notice = TRUE]
<1>1. last \in Results /\ last.next.of = prev.of
  <2>1. upTo \subseteq Times
    OBVIOUS
  <2> QED
    BY <2>1, EventTyped, QuietTyped
<1>2. EvaluateExpiry(rule, prev, lines) \in {Quiet(prev), noted}
  BY DEF EvaluateExpiry
<1> HIDE DEF last
<1>3. noted \in Results /\ noted.next.of = prev.of
  BY <1>1 DEF Results, Runtimes
<1> QED
  BY <1>2, <1>3, QuietTyped

LEMMA RuleTyped ==
    ASSUME TypeOK, NEW id \in Ids, NEW rule \in Rules,
           NEW lines, lines \subseteq Times, NEW now
    PROVE  /\ EvaluateRule(id, rule, lines, now) \in Results
           /\ EvaluateRule(id, rule, lines, now).next.of = Previous(id, rule).of
<1>1. Previous(id, rule) \in Runtimes
  BY BoundAssumption DEF Previous, Fresh, TypeOK, Runtimes, Rules, Stamps
<1>2. rule.kind = "event" \/ rule.kind \in LevelKinds
  BY DEF Rules
<1> DEFINE prev == Previous(id, rule)
<1>3. EvaluateRule(id, rule, lines, now) = Quiet(prev)
      \/ EvaluateRule(id, rule, lines, now) = EvaluateExpiry(rule, prev, lines)
      \/ EvaluateRule(id, rule, lines, now) = EvaluateEvent(prev, lines, WindowFloor(rule, prev))
      \/ /\ rule.kind \in LevelKinds
         /\ EvaluateRule(id, rule, lines, now) = EvaluateLevelish(rule, prev, lines, now)
  BY <1>2 DEF EvaluateRule, Rules
<1> HIDE DEF prev
<1> QED
  BY <1>1, <1>3, QuietTyped, ExpiryTyped, EventTyped, LevelishTyped DEF prev

-------------------------------------------------------------------------------
\* The rules and the files they are put in.

LEMMA SystemRuleTyped ==
    ASSUME TypeOK, NEW id \in SystemIds
    PROVE  SystemRule(id) \in Rules /\ SystemRule(id).of = id
BY KindAssumption, BoundAssumption DEF SystemRule, TypeOK, Rules, Incarnations, Stamps

LEMMA MergeTyped ==
    ASSUME TypeOK, NEW stored \in RuleFiles
    PROVE  MergeWithDefaults(stored) \in RuleFiles
BY SystemRuleTyped DEF MergeWithDefaults, RuleFiles

LEMMA NoRulesTyped == NoRules \in RuleFiles
BY DEF NoRules, RuleFiles

\* newRuleId returns an id that nothing and nobody has.
LEMMA NewIdUnused ==
    ASSUME NEW stored, \E u \in UserIdSet : u \notin Used(stored)
    PROVE  NewRuleId(stored) \in UserIdSet /\ NewRuleId(stored) \notin Used(stored)
<1> DEFINE free == {i \in DOMAIN UserIds : UserIds[i] \notin Used(stored)}
<1>1. free # {} /\ free \subseteq Nat
  BY IdAssumption DEF UserIdSet
<1>2. Min(free) \in free
  <2> HIDE DEF free
  <2>1. PICK x \in free : \A y \in free : x <= y
    BY <1>1, MinExists
  <2> QED
    BY <2>1, Zenon DEF Min
<1>3. NewRuleId(stored) = UserIds[Min(free)]
  BY DEF NewRuleId
<1> QED
  BY <1>2, <1>3 DEF UserIdSet

-------------------------------------------------------------------------------
\* The steps.

LEMMA InitInvariant == Init => IInv
<1> SUFFICES ASSUME Init PROVE IInv
  OBVIOUS
<1>1. PICK muted \in SUBSET SystemIds : rules = [id \in Ids |-> IF id \in muted THEN Cancelled(id) ELSE None]
  BY DEF Init
<1>2. \A id \in SystemIds : SystemRule(id) \in Rules /\ SystemRule(id).of = id
  BY KindAssumption, BoundAssumption DEF Init, SystemRule, Rules, Incarnations, Stamps
<1>3. \A id \in muted : Cancelled(id) \in Rules /\ Cancelled(id).of = id
  BY <1>2 DEF Cancelled, Rules
<1>4. rules \in RuleFiles
  BY <1>1, <1>3 DEF RuleFiles
<1>5. log \in [Times -> Lines \cup {None}]
  BY DEF Init
<1>6. TypeOK
  <2>1. clock \in Times /\ Epoch + 1 \in Times
    BY BoundAssumption DEF Init, Epoch, Times
  <2>2. "never" \in Tellings
    BY DEF Tellings
  <2> QED
    BY <1>4, <1>5, <2>1, <2>2, BoundAssumption, NoRulesTyped DEF Init, TypeOK, Stamps, Idle
<1>7. SystemOwn
  <2> SUFFICES ASSUME NEW id \in SystemIds, rules[id] # None PROVE rules[id].of = id
    BY DEF Init, SystemOwn, Idle, NoRules, Ids
  <2> QED
    BY <1>1, <1>3 DEF Ids
<1>8. NoInheritance /\ TickAgrees /\ CallAgrees /\ Counted
  BY DEF Init, NoInheritance, TickAgrees, CallAgrees, Counted, Idle, NoRules
<1> QED
  BY <1>6, <1>7, <1>8 DEF IInv

LEMMA ReadInvariant ==
    ASSUME IInv, TickRead \/ TickReadBusy PROVE IInv'
<1> USE DEF IInv
<1>1. PICK stored \in {rules, NoRules} :
        /\ tick'.rules = MergeWithDefaults(stored)
        /\ tick' \in [now : {clock}, rules : {MergeWithDefaults(stored)}, degraded : BOOLEAN]
  <2>1. CASE TickRead
    <3>1. tick' = [now |-> clock, rules |-> MergeWithDefaults(rules), degraded |-> FALSE]
      BY <2>1 DEF TickRead
    <3> QED
      BY <3>1
  <2>2. CASE TickReadBusy
    <3>1. tick' = [now |-> clock, rules |-> MergeWithDefaults(NoRules), degraded |-> TRUE]
      BY <2>2 DEF TickReadBusy
    <3> QED
      BY <3>1
  <2> QED
    BY <2>1, <2>2
<1>2. UNCHANGED <<clock, log, shown, files, call, asked, kept>>
  BY DEF TickRead, TickReadBusy
<1> USE <1>2 DEF files, kept, history
<1>3. stored \in RuleFiles
  BY <1>1, NoRulesTyped DEF TypeOK
<1>4. MergeWithDefaults(stored) \in RuleFiles
  BY <1>3, MergeTyped
<1>5. TypeOK'
  BY <1>1, <1>4 DEF TypeOK, Stamps, Times
<1>6. \A id \in Ids : tick'.rules[id] \in {SystemRule(id), stored[id]} /\ (id \notin SystemIds => tick'.rules[id] = stored[id])
  BY <1>1 DEF MergeWithDefaults
<1>7. \A id \in Ids : tick'.rules[id] # None /\ rules[id] # None => tick'.rules[id].of = rules[id].of
  <2> SUFFICES ASSUME NEW id \in Ids, tick'.rules[id] # None, rules[id] # None
               PROVE tick'.rules[id].of = rules[id].of
    OBVIOUS
  <2>1. CASE tick'.rules[id] = SystemRule(id) /\ id \in SystemIds
    BY <2>1, SystemRuleTyped DEF SystemOwn
  <2>2. CASE tick'.rules[id] = stored[id]
    BY <2>2, <1>1 DEF NoRules
  <2> QED
    BY <2>1, <2>2, <1>6
<1>8. SystemOwn'
  <2> SUFFICES ASSUME NEW id \in SystemIds, tick'.rules[id] # None PROVE tick'.rules[id].of = id
    BY DEF SystemOwn
  <2>1. tick'.rules[id] = SystemRule(id) \/ tick'.rules[id] = rules[id]
    BY <1>1, <1>6 DEF NoRules, Ids
  <2> QED
    BY <2>1, SystemRuleTyped DEF SystemOwn
<1>9. CallAgrees'
  <2> SUFFICES ASSUME NEW id \in UserIdSet, Unclaimed(id) PROVE Unclaimed(id)'
    BY DEF CallAgrees, Stays
  <2>1. tick'.rules[id] = stored[id] /\ id \in Ids
    BY <1>6, IdAssumption DEF Ids
  <2> QED
    BY <2>1, <1>1 DEF Unclaimed, NoRules
<1> QED
  BY <1>5, <1>7, <1>8, <1>9 DEF TickAgrees, NoInheritance, Counted, Stored

LEMMA EvaluateInvariant ==
    ASSUME IInv, NEW lines, lines \subseteq Times, Evaluate(lines) PROVE IInv'
<1> USE DEF IInv
<1> DEFINE in == {id \in Ids : tick.rules[id] # None}
           result == [id \in in |-> EvaluateRule(id, tick.rules[id], lines, tick.now)]
           next == [id \in Ids |-> IF id \in in THEN result[id].next ELSE None]
<1>1. \A id \in in : tick.rules[id] \in Rules
  BY DEF TypeOK, RuleFiles
<1>2. \A id \in in : result[id] \in Results /\ result[id].next.of = Previous(id, tick.rules[id]).of
  BY <1>1, RuleTyped
<1>3. UNCHANGED <<clock, log, shown, rules, call, asked, catalogue>> /\ tick' = Idle
  BY DEF Evaluate
<1>4. runtime' = Persisted(next)
  BY DEF Evaluate
<1>5. \A id \in Ids : runtime'[id] \in {runtime[id], next[id]}
  BY <1>4 DEF Persisted
<1>6. runtime' \in [Ids -> Runtimes \cup {None}]
  <2>1. next \in [Ids -> Runtimes \cup {None}]
    BY <1>2 DEF Results
  <2> HIDE DEF next
  <2> QED
    BY <1>4, <2>1 DEF Persisted, TypeOK
\* The runtime of a rule in the tick is whose it was, or else the rule's.
<1>7. \A id \in Ids : runtime'[id] # None =>
        \/ runtime[id] # None /\ runtime'[id].of = runtime[id].of
        \/ tick.rules[id] # None /\ runtime'[id].of = tick.rules[id].of
  <2> SUFFICES ASSUME NEW id \in Ids, runtime'[id] # None, runtime'[id] # runtime[id]
               PROVE  \/ (runtime[id] # None /\ runtime'[id].of = runtime[id].of)
                      \/ (tick.rules[id] # None /\ runtime'[id].of = tick.rules[id].of)
    OBVIOUS
  <2>1. id \in in /\ runtime'[id] = result[id].next
    BY <1>5
  <2>2. runtime'[id].of = Previous(id, tick.rules[id]).of
    BY <1>2, <2>1
  <2> QED
    BY <2>1, <2>2 DEF Previous, Fresh
<1>8. levelsAt' \in Stamps
  BY DEF Evaluate, TypeOK
<1>9. reports' \in [Incarnations -> [Times -> Tellings]] /\ alerts' \in [Incarnations -> Tellings]
  <2>1. \A past \in Tellings, said, reason \in BOOLEAN : After(past, said, reason) \in Tellings
    BY AfterIs
  <2> HIDE DEF in, result
  <2> QED
    BY <2>1 DEF Evaluate, TypeOK
<1>10. notices' \in [Incarnations -> 0..2]
  <2>1. \A n \in 0..2 : Min({2, n + 1}) \in 0..2
    BY DEF Min
  <2> HIDE DEF in, result
  <2> QED
    BY <2>1 DEF Evaluate, TypeOK
<1>11. alertedAt' \in [Incarnations -> Stamps]
  BY DatedTyped DEF Evaluate, TypeOK
<1> HIDE DEF in, result, next
<1>12. TypeOK'
  BY <1>3, <1>6, <1>8, <1>9, <1>10, <1>11, NoRulesTyped, BoundAssumption DEF TypeOK, Idle, Stamps
<1>13. NoInheritance'
  BY <1>3, <1>7 DEF NoInheritance, TickAgrees, Stored
<1>14. SystemOwn'
  <2> SUFFICES ASSUME NEW id \in SystemIds, runtime'[id] # None PROVE runtime'[id].of = id
    BY <1>3 DEF SystemOwn, Idle, NoRules, Ids
  <2> QED
    BY <1>7 DEF SystemOwn, Ids
<1>15. TickAgrees'
  BY <1>3 DEF TickAgrees, Idle, NoRules
<1>16. CallAgrees'
  <2> SUFFICES ASSUME NEW id \in UserIdSet, Unclaimed(id) PROVE Unclaimed(id)'
    BY <1>3 DEF CallAgrees, Stays
  <2>1. id \in Ids
    BY DEF Ids
  <2> QED
    BY <1>3, <1>5, <2>1 DEF Unclaimed, Idle, NoRules, next, in
<1> QED
  BY <1>3, <1>12, <1>13, <1>14, <1>15, <1>16 DEF Counted

LEMMA FailInvariant ==
    ASSUME IInv, TickFails \/ CallFails \/ Advance \/ Push PROVE IInv'
<1> USE DEF IInv, files, kept, history
<1>1. CASE TickFails
  BY <1>1, NoRulesTyped, BoundAssumption
     DEF TickFails, TypeOK, SystemOwn, NoInheritance, TickAgrees, CallAgrees, Counted, Stays, Unclaimed,
         Stored, Idle, NoRules, Stamps, Ids
<1>2. CASE CallFails
  <2>1. call # None /\ call' = None /\ asked' = asked - 1
    BY <1>2 DEF CallFails, Free
  <2>2. asked' \in 0..MaxCalls
    BY <2>1, BoundAssumption DEF TypeOK, Counted
  <2>3. UNCHANGED <<clock, log, shown, files, tick, kept>>
    BY <1>2 DEF CallFails
  <2>4. TypeOK'
    BY <2>1, <2>2, <2>3 DEF TypeOK
  <2>5. SystemOwn' /\ NoInheritance' /\ TickAgrees' /\ CallAgrees' /\ Counted'
    BY <2>1, <2>3 DEF SystemOwn, NoInheritance, TickAgrees, CallAgrees, Counted, Stored
  <2> QED
    BY <2>4, <2>5
<1>3. CASE Advance
  <2>1. clock' \in Times /\ log' \in [Times -> Lines \cup {None}]
    BY <1>3, BoundAssumption DEF Advance, TypeOK, Times
  <2> QED
    BY <1>3, <2>1
       DEF Advance, TypeOK, SystemOwn, NoInheritance, TickAgrees, CallAgrees, Counted, Stays, Unclaimed, Stored
<1>4. CASE Push
  BY <1>4, BoundAssumption
     DEF Push, TypeOK, SystemOwn, NoInheritance, TickAgrees, CallAgrees, Counted, Stays, Unclaimed, Stored,
         Times, Stamps
<1> QED
  BY <1>1, <1>2, <1>3, <1>4

LEMMA CreateReadsInvariant ==
    ASSUME IInv, CreateReads PROVE IInv'
<1> USE DEF IInv, files, kept, history
<1>1. call' = [step |-> "create", file |-> rules] /\ asked' = asked + 1 /\ asked < MaxCalls
  BY DEF CreateReads, MayAsk
<1>2. UNCHANGED <<clock, log, shown, files, tick, kept>>
  BY DEF CreateReads
<1>3. TypeOK' /\ Counted'
  BY <1>1, <1>2, BoundAssumption DEF TypeOK, Counted
<1>4. SystemOwn' /\ NoInheritance' /\ TickAgrees'
  BY <1>1, <1>2 DEF SystemOwn, NoInheritance, TickAgrees, Stored
<1>5. CallAgrees'
  BY <1>1, <1>2 DEF CallAgrees, Stays
<1> QED
  BY <1>3, <1>4, <1>5

\* The new rule gets an id that is unclaimed: it is neither stored nor has runtime,
\* and the tick under way does not hold it, since no id is used again within a tick.
LEMMA CreateArmsInvariant ==
    ASSUME ~ReuseInTick, IInv, CreateArms PROVE IInv'
<1> USE DEF IInv, files, kept, history
<1> DEFINE id == NewRuleId(call.file)
           swept == GcExpired(call.file)
<1>1. call # None /\ call.step = "create" /\ call.file = rules
  BY DEF CreateArms, Free, CallAgrees
<1>2. id \in UserIdSet /\ id \notin Used(call.file)
  BY NewIdUnused DEF CreateArms
<1>3. PICK rule : /\ rule \in [kind : Kinds, of : {asked}, armedAt : {clock}, enabled : {TRUE}, expiresAt : Nat]
                  /\ call' = [step |-> "add", file |-> [swept EXCEPT ![id] = rule]]
  <2>1. PICK kind \in Kinds, w \in Windows : call' = [step |-> "add", file |-> [swept EXCEPT ![id] =
            [kind |-> kind, of |-> asked, armedAt |-> clock, enabled |-> TRUE,
             expiresAt |-> IF w = 0 THEN 0 ELSE clock + w]]]
    BY DEF CreateArms
  <2>2. (IF w = 0 THEN 0 ELSE clock + w) \in Nat
    BY ValueAssumption, BoundAssumption DEF TypeOK, Times
  <2> QED
    BY <2>1, <2>2
<1>4. UNCHANGED <<clock, log, shown, files, tick, asked, kept>>
  BY DEF CreateArms
<1>5. rule \in Rules
  <2>1. asked \in 1..MaxCalls
    BY <1>1, BoundAssumption DEF TypeOK, Counted
  <2>2. asked \in Incarnations /\ clock \in Stamps
    BY <2>1, BoundAssumption DEF Incarnations, TypeOK, Times, Stamps
  <2> QED
    BY <1>3, <2>2, KindAssumption DEF Rules
<1>6. swept \in RuleFiles /\ \A i \in Ids : swept[i] \in {None, rules[i]}
  BY <1>1 DEF GcExpired, TypeOK, RuleFiles
<1>7. call'.file \in RuleFiles /\ \A i \in Ids : i # id => call'.file[i] \in {None, rules[i]}
  BY <1>3, <1>5, <1>6 DEF RuleFiles
<1>8. TypeOK' /\ Counted'
  BY <1>1, <1>3, <1>4, <1>7 DEF TypeOK, Counted
<1>9. SystemOwn'
  <2>1. \A i \in SystemIds : i # id /\ i \in Ids
    BY <1>2, IdAssumption DEF Ids
  <2> QED
    BY <1>4, <1>7, <2>1 DEF SystemOwn
<1>10. NoInheritance' /\ TickAgrees'
  BY <1>4 DEF NoInheritance, TickAgrees, Stored
<1>11. Unclaimed(id)
  <2>1. rules[id] = None /\ runtime[id] = None
    BY <1>1, <1>2 DEF Used, Ids
  <2>2. tick.rules[id] = None
    BY <1>2, <2>1 DEF CreateArms, ReuseHazard, Ticking, Idle, NoRules, Stored, Ids
  <2> QED
    BY <2>1, <2>2 DEF Unclaimed
<1>12. CallAgrees'
  <2> SUFFICES ASSUME NEW i \in UserIdSet, call'.file[i] # None PROVE Stays(i)' \/ Unclaimed(i)'
    BY <1>3 DEF CallAgrees
  <2>1. CASE i = id
    BY <1>4, <1>11, <2>1 DEF Unclaimed
  <2>2. CASE i # id
    BY <1>4, <1>7, <2>2 DEF Stays, Ids
  <2> QED
    BY <2>1, <2>2
<1> QED
  BY <1>8, <1>9, <1>10, <1>12

\* cancelRule and resumeRule rewrite one rule in place, or take it out.
LEMMA EditInvariant ==
    ASSUME IInv, NEW id \in Ids, CancelReads(id) \/ ResumeReads(id) PROVE IInv'
<1> USE DEF IInv, files, kept, history
<1>1. asked < MaxCalls /\ asked' = asked + 1
  BY DEF CancelReads, ResumeReads, MayAsk
<1>2. UNCHANGED <<clock, log, shown, files, tick, kept>>
  BY DEF CancelReads, ResumeReads
<1>3. PICK rule : /\ rule \in Rules \cup {None}
                  /\ rule # None /\ id \in SystemIds => rule.of = id
                  /\ rule # None /\ id \notin SystemIds => rules[id] # None /\ rule.of = rules[id].of
                  /\ call' = [step |-> "edit", file |-> [rules EXCEPT ![id] = rule]]
  <2>1. CASE CancelReads(id)
    <3>1. Cancelled(id) \in Rules \cup {None}
      BY SystemRuleTyped DEF Cancelled, Rules
    <3>2. Cancelled(id) # None => id \in SystemIds /\ Cancelled(id).of = id
      BY SystemRuleTyped DEF Cancelled, Rules
    <3> QED
      BY <2>1, <3>1, <3>2 DEF CancelReads
  <2>2. CASE ResumeReads(id)
    <3>1. rules[id] # None /\ rules[id] \in Rules /\ clock \in Stamps
      BY <2>2, BoundAssumption DEF ResumeReads, Stored, TypeOK, RuleFiles, Times, Stamps
    <3>2. Resumed(id) \in Rules
      BY <3>1, SystemRuleTyped DEF Resumed, Rules
    <3>3. id \in SystemIds => Resumed(id).of = id
      BY SystemRuleTyped DEF Resumed, Rules
    <3>4. id \notin SystemIds => Resumed(id).of = rules[id].of
      BY <3>1 DEF Resumed, Rules
    <3> QED
      BY <2>2, <3>1, <3>2, <3>3, <3>4 DEF ResumeReads
  <2> QED
    BY <2>1, <2>2
<1>4. call'.file \in RuleFiles
  BY <1>3 DEF TypeOK, RuleFiles
<1>5. \A i \in Ids : call'.file[i] = IF i = id THEN rule ELSE rules[i]
  BY <1>3 DEF TypeOK, RuleFiles
<1>6. TypeOK' /\ Counted'
  <2>1. asked' \in 0..MaxCalls /\ asked' >= 1
    BY <1>1, BoundAssumption DEF TypeOK
  <2> QED
    BY <1>2, <1>3, <1>4, <2>1 DEF TypeOK, Counted
<1>7. SystemOwn'
  <2>1. \A i \in SystemIds : i \in Ids
    BY DEF Ids
  <2> QED
    BY <1>2, <1>3, <1>5, <2>1 DEF SystemOwn
<1>8. NoInheritance' /\ TickAgrees'
  BY <1>2 DEF NoInheritance, TickAgrees, Stored
<1>9. CallAgrees'
  <2> SUFFICES ASSUME NEW i \in UserIdSet, call'.file[i] # None PROVE Stays(i)'
    BY <1>3 DEF CallAgrees
  <2>1. i \in Ids /\ i \notin SystemIds
    BY IdAssumption DEF Ids
  <2> QED
    BY <1>2, <1>3, <1>5, <2>1 DEF Stays
<1> QED
  BY <1>6, <1>7, <1>8, <1>9

\* What the rename puts in place was unclaimed or is the rule that was there.
LEMMA WriteInvariant ==
    ASSUME IInv, CallWrites PROVE IInv'
<1> USE DEF IInv, files, kept, history
<1>1. call # None /\ call' = None /\ rules' = call.file
  BY DEF CallWrites, Free
<1>2. UNCHANGED <<clock, log, shown, runtime, levelsAt, tick, asked, kept>>
  BY DEF CallWrites
<1>3. TypeOK'
  <2>1. rules' \in RuleFiles
    BY <1>1 DEF TypeOK
  <2> QED
    BY <1>1, <1>2, <2>1 DEF TypeOK
<1>4. SystemOwn'
  BY <1>1, <1>2 DEF SystemOwn
<1>5. \A id \in Ids : rules'[id] # None =>
        /\ runtime[id] # None => runtime[id].of = rules'[id].of
        /\ tick.rules[id] # None => tick.rules[id].of = rules'[id].of
  <2> SUFFICES ASSUME NEW id \in Ids, rules'[id] # None
               PROVE  /\ runtime[id] # None => runtime[id].of = rules'[id].of
                      /\ tick.rules[id] # None => tick.rules[id].of = rules'[id].of
    OBVIOUS
  <2>1. CASE id \in SystemIds
    BY <1>1, <2>1 DEF SystemOwn
  <2>2. CASE id \in UserIdSet
    <3>1. Stays(id) \/ Unclaimed(id)
      BY <1>1, <2>2 DEF CallAgrees
    <3> QED
      BY <1>1, <3>1 DEF Stays, Unclaimed, NoInheritance, TickAgrees, Stored
  <2> QED
    BY <2>1, <2>2 DEF Ids
<1>6. NoInheritance' /\ TickAgrees' /\ CallAgrees' /\ Counted'
  BY <1>1, <1>2, <1>5 DEF NoInheritance, TickAgrees, CallAgrees, Counted, Stored
<1> QED
  BY <1>3, <1>4, <1>6

LEMMA StepInvariant ==
    ASSUME ~ReuseInTick, IInv, [Next]_vars PROVE IInv'
<1>1. CASE Tick
  <2>1. CASE TickRead \/ TickReadBusy
    BY <2>1, ReadInvariant
  <2>2. CASE TickEvaluate
    <3>1. Copy(shown) \subseteq Times
      BY BoundAssumption DEF IInv, TypeOK, Stamps, Times, Copy
    <3> QED
      BY <2>2, <3>1, EvaluateInvariant DEF TickEvaluate
  <2>3. CASE TickEvaluateBlind
    BY <2>3, EvaluateInvariant DEF TickEvaluateBlind
  <2>4. CASE TickFails
    BY <2>4, FailInvariant
  <2> QED
    BY <1>1, <2>1, <2>2, <2>3, <2>4 DEF Tick
<1>2. CASE Call
  BY <1>2, CreateReadsInvariant, CreateArmsInvariant, WriteInvariant, FailInvariant, EditInvariant
     DEF Call
<1>3. CASE Advance \/ Push
  BY <1>3, FailInvariant
<1>4. CASE UNCHANGED vars
  BY <1>4 DEF vars, files, history, IInv, TypeOK, Counted, SystemOwn, NoInheritance, TickAgrees,
              CallAgrees, Stays, Unclaimed, Stored
<1> QED
  BY <1>1, <1>2, <1>3, <1>4 DEF Next

-------------------------------------------------------------------------------
\* The state is well formed at every instant, for any catalogue, ids and windows: no
\* stamp runs past the clock's range and no counter past its bound.
THEOREM TypesCorrect ==
    ASSUME ~ReuseInTick PROVE Spec => []TypeOK
<1>1. Init => IInv
  BY InitInvariant
<1>2. IInv /\ [Next]_vars => IInv'
  BY StepInvariant
<1>3. IInv => TypeOK
  BY DEF IInv
<1> QED
  BY <1>1, <1>2, <1>3, PTL DEF Spec

\* A rule never starts from what a dead rule with its id left behind (newRuleId), as
\* long as no id is freed and given out again within one tick.
THEOREM NoRuleInherits ==
    ASSUME ~ReuseInTick PROVE Spec => []NoInheritance
<1>1. Init => IInv
  BY InitInvariant
<1>2. IInv /\ [Next]_vars => IInv'
  BY StepInvariant
<1>3. IInv => NoInheritance
  BY DEF IInv
<1> QED
  BY <1>1, <1>2, <1>3, PTL DEF Spec
-------------------------------------------------------------------------------
\* What the history of a rule says about its runtime.

\* The calls whose rules have been written.
Born(i) == i \in 1..asked /\ (call # None => i < asked)

Silent(i) == notices[i] = 0 /\ alerts[i] = "never" /\ \A t \in Times : reports[i][t] = "never"

Held(id) == {rules[id], tick.rules[id], runtime[id]} \ {None}

\* A number is given to one rule, under one id.
Numbered ==
    /\ \A id \in UserIdSet : \A x \in Held(id) : Born(x.of)
    /\ \A i \in 1..MaxCalls : ~Born(i) => Silent(i)

OneHome ==
    /\ \A id, other \in UserIdSet : \A x \in Held(id), y \in Held(other) : x.of = y.of => id = other
    /\ call # None => \A id, other \in UserIdSet :
          call.file[id] # None /\ call.file[other] # None /\ call.file[id].of = call.file[other].of
              => id = other

Alike(r, s) == r.of = s.of /\ r.kind = s.kind /\ r.expiresAt = s.expiresAt

TickAlike ==
    \A id \in Ids : tick.rules[id] # None =>
        /\ rules[id] # None => Alike(tick.rules[id], rules[id])
        /\ runtime[id] # None => runtime[id].of = tick.rules[id].of

CallAlike ==
    call # None => \A id \in UserIdSet : call.file[id] # None =>
        \/ rules[id] # None /\ Alike(call.file[id], rules[id])
        \/ Unclaimed(id) /\ call.file[id].of = asked

BuiltIn(id, r) == r.kind = catalogue[id] /\ r.expiresAt = 0

BuiltInsStay ==
    \A id \in SystemIds :
        /\ rules[id] # None => BuiltIn(id, rules[id])
        /\ call # None => /\ call.file[id] # None => BuiltIn(id, call.file[id])
                          /\ rules[id] # None => call.file[id] # None
        /\ tick.now > 0 => /\ tick.rules[id] # None /\ BuiltIn(id, tick.rules[id])
                           /\ rules[id] = None => tick.rules[id] = SystemRule(id)
        /\ levelsAt > 0 => runtime[id] # None

Newborn ==
    \A id \in UserIdSet :
        tick.now > 0 /\ ~tick.degraded /\ tick.rules[id] = None /\ rules[id] # None
            => runtime[id] = None /\ Silent(rules[id].of)

Clocks ==
    /\ shown <= clock /\ levelsAt <= clock /\ tick.now <= clock
    /\ tick.now = 0 => tick = Idle
    /\ tick.now > 0 => levelsAt <= tick.now
    /\ log[Epoch] = None
    /\ \A id \in Ids : runtime[id] # None => runtime[id].watermark <= clock

HomeInv == Numbered /\ OneHome /\ TickAlike /\ CallAlike /\ BuiltInsStay /\ Newborn /\ Clocks

\* Nothing was said for r, or its runtime remembers that it was.
Followed(r, run, now) ==
    /\ notices[r.of] > 0 => run # None /\ run.expiredNotified
    /\ alerts[r.of] # "never" => run # None
    /\ \A t \in Times : reports[r.of][t] = "told" => run # None /\ (t <= run.watermark \/ run.expiredNotified)
    /\ run # None /\ run.expiredNotified => Expired(r, now)

SaidInv ==
    /\ \A id \in Ids : rules[id] # None => Followed(rules[id], runtime[id], clock)
    /\ \A id \in Ids : tick.rules[id] # None => Followed(tick.rules[id], runtime[id], tick.now)
    /\ \A id \in SystemIds : Followed(SystemRule(id), runtime[id], clock)
    /\ \A id \in Ids : runtime[id] # None /\ runtime[id].expiredNotified => notices[runtime[id].of] > 0
    /\ ExpiryAnnounced /\ NoEventTwice

\* Armed in this order: what a tick holds, what is stored, what a call will write.
NoLater(r, s) == r # None /\ s # None /\ s.enabled => r.armedAt <= s.armedAt

\* Every line of l up to the mark is in rep, or the rule has alerted: h.
Gapless(r, run, rep, h, l) ==
    r # None /\ run # None /\ r.enabled => \A t \in Times :
        Armed(r, t) /\ run.from < t /\ t <= run.watermark =>
            /\ r.kind = "event" /\ l[t] = "enter" => rep[t] # "never"
            /\ r.kind = "level" /\ l[t] = "high" => h # "never"

GapOK(r, run) == Gapless(r, run, reports[r.of], alerts[r.of], log)

\* The condition that was met at line a of l was so when it was last judged, at `at`.
StillMet(kind, a, at, l) ==
    /\ kind = "level" => a > 0
    /\ kind = "sustained" =>
        \A t \in 1..a : t >= at - ForSeconds /\ l[t] \notin {None, "adrift"} => l[t] = "high"
    /\ kind = "state_duration" =>
        \E e \in 1..a : /\ l[e] = "enter" /\ at - e >= ForSeconds
                        /\ \A t \in 1..a : t > e => l[t] \notin {"enter", "exit"}

\* A rule whose alert, at line a, is not open to be given again has its latch closed and
\* its mark past that line, and the condition of the alert lasts.
Latched(kind, run, h, a, at, l) ==
    run # None /\ kind \in LevelKinds =>
        /\ run.fired => h # "never"
        /\ h = "told" => run.fired /\ a <= run.watermark /\ StillMet(kind, a, at, l)

LatchOK(r, run) == Latched(r.kind, run, alerts[r.of], alertedAt[r.of], levelsAt, log)

SeenInv ==
    /\ AlertsAfterRecovery
    /\ \A id \in SystemIds : LatchOK(SystemRule(id), runtime[id])
    /\ \A id \in Ids :
        /\ GapOK(rules[id], runtime[id])
        /\ NoLater(tick.rules[id], rules[id])
        /\ rules[id] # None => rules[id].armedAt <= clock /\ LatchOK(rules[id], runtime[id])
        /\ tick.rules[id] # None => tick.rules[id].armedAt <= clock /\ LatchOK(tick.rules[id], runtime[id])
        /\ call # None =>
            /\ call.file[id] # None => call.file[id].armedAt <= clock
            /\ GapOK(call.file[id], runtime[id])
            /\ NoLater(tick.rules[id], call.file[id]) /\ NoLater(rules[id], call.file[id])

-------------------------------------------------------------------------------
\* The lines a tick can find: those of a copy, up to where it is cut off, or none.

Whole(S) ==
    /\ Last(S) <= clock
    /\ \A t \in Times : Real(t) /\ t <= Last(S) => t \in S

\* The last of some lines.
LEMMA LastOf ==
    ASSUME NEW S, S \subseteq Times, S # {}
    PROVE  /\ Newest(S) \in S /\ \A t \in S : t <= Newest(S)
           /\ log[Newest(S)] = "adrift" => Last(S) = Epoch
           /\ log[Newest(S)] # "adrift" => Last(S) = Newest(S)
           /\ Last(S) >= Epoch
<1>1. PICK x \in S : \A y \in S : x >= y
  BY MaxExists, BoundAssumption DEF Times
<1>2. Max(S) \in S /\ \A y \in S : Max(S) >= y
  BY <1>1 DEF Max
<1>3. Newest(S) = Max(S)
  BY DEF Newest
<1>4. PICK m \in S : m = Newest(S) /\ \A t \in S : m >= t
  BY <1>2, <1>3
<1>5. /\ log[m] = "adrift" => Last(S) = Epoch
      /\ log[m] # "adrift" => Last(S) = m
  BY <1>4 DEF Last, Stamp
<1>6. m \in Nat /\ m >= Epoch /\ \A t \in S : t \in Nat
  BY BoundAssumption DEF Times, Epoch
<1> QED
  BY <1>4, <1>5, <1>6 DEF Epoch

LEMMA CopyWhole ==
    ASSUME TypeOK, Clocks
    PROVE  /\ Copy(shown) \subseteq Times /\ Whole(Copy(shown))
           /\ {} \subseteq Times /\ Whole({})
<1> DEFINE S == Copy(shown)
<1>1. /\ clock \in Nat /\ shown \in Nat /\ shown <= clock /\ clock >= Epoch
      /\ 1..shown \subseteq Times
  BY BoundAssumption DEF TypeOK, Clocks, Times, Stamps, Epoch
<1>2. S \subseteq 1..shown /\ \A t \in 1..shown : Real(t) => t \in S
  BY DEF Copy, Real
<1>3. Whole({})
  BY <1>1 DEF Whole, Last, Times
<1> HIDE DEF S
<1>4. CASE S = {}
  BY <1>1, <1>2, <1>3, <1>4 DEF S
<1>5. CASE S # {}
  <2>1. PICK m \in S : /\ m = Newest(S)
                       /\ log[m] = "adrift" => Last(S) = Epoch
                       /\ log[m] # "adrift" => Last(S) = m
    BY <1>1, <1>2, <1>5, LastOf
  <2>2. m \in 1..shown /\ Epoch = 1
    BY <1>2 DEF Epoch
  <2>3. Last(S) <= clock /\ Last(S) \in 1..shown
    BY <1>1, <2>1, <2>2
  <2>4. \A t \in Times : Real(t) /\ t <= Last(S) => t \in S
    BY <1>1, <1>2, <2>3 DEF Times
  <2> QED
    BY <1>1, <1>2, <1>3, <2>3, <2>4 DEF Whole, S
<1> QED
  BY <1>4, <1>5

\* What was stamped up to an expiry, of a copy.
LEMMA UpToWhole ==
    ASSUME TypeOK, Clocks, NEW S, S \subseteq Times, Whole(S), NEW end \in Nat, end > 0
    PROVE  LET upTo == {t \in S : Stamp(t) <= end}
           IN  /\ upTo \subseteq Times /\ Whole(upTo)
               /\ upTo # {} => S # {}
<1> DEFINE U == {t \in S : Stamp(t) <= end}
<1>1. U \subseteq S /\ U \subseteq Times /\ \A t \in S : t \in U <=> Stamp(t) <= end
  OBVIOUS
<1>2. \A t \in Times : t \in Nat /\ t >= 1 /\ t <= MaxTime
  BY BoundAssumption DEF Times
<1>3. log[Epoch] = None /\ clock \in Nat /\ clock >= 1 /\ Epoch = 1
  BY <1>2 DEF Clocks, TypeOK, Epoch
<1>4. Last(S) \in Nat
  BY LastTyped, BoundAssumption DEF Stamps
<1> HIDE DEF U
<1>5. CASE U = {}
  BY <1>1, <1>2, <1>3, <1>5 DEF Whole, Last, U
<1>6. CASE U # {}
  <2>1. PICK m \in U : /\ \A t \in U : t <= m
                       /\ log[m] = "adrift" => Last(U) = Epoch
                       /\ log[m] # "adrift" => Last(U) = m
    BY <1>1, <1>6, LastOf
  <2>2. PICK n \in S : /\ \A t \in S : t <= n
                       /\ log[n] = "adrift" => Last(S) = Epoch
                       /\ log[n] # "adrift" => Last(S) = n
    BY <1>1, <1>6, LastOf
  <2>3. m \in Nat /\ n \in Nat /\ m <= n
    BY <1>1, <1>2, <2>2
  <2>4. CASE log[m] = "adrift"
    BY <1>1, <1>2, <1>3, <2>1, <2>4 DEF Whole, Real, U
  <2>5. CASE log[m] # "adrift"
    <3>1. log[n] # "adrift"
      <4> SUFFICES ASSUME log[n] = "adrift" PROVE FALSE
        OBVIOUS
      <4>1. n \in U
        BY <1>1, <1>3 DEF Stamp
      <4> QED
        BY <2>1, <2>3, <2>5, <4>1
    <3>2. Last(U) = m /\ Last(S) = n /\ m <= clock /\ m <= end
      BY <1>1, <1>3, <2>1, <2>2, <2>3, <2>5, <3>1 DEF Whole, Stamp
    <3>3. ASSUME NEW t \in Times, Real(t), t <= m PROVE t \in U
      <4>1. t \in S
        BY <1>2, <2>3, <3>2, <3>3 DEF Whole
      <4>2. Stamp(t) = t
        BY <3>3 DEF Stamp, Real
      <4> QED
        BY <1>1, <1>2, <2>3, <3>2, <3>3, <4>1, <4>2
    <3> QED
      BY <1>1, <1>6, <3>2, <3>3 DEF Whole, U
  <2> QED
    BY <2>4, <2>5
<1> QED
  BY <1>5, <1>6

LEMMA LaterTyped ==
    ASSUME NEW a \in Nat, NEW b \in Nat
    PROVE  Later(a, b) \in {a, b} /\ Later(a, b) >= a /\ Later(a, b) >= b
<1>1. \E x \in {a, b} : \A y \in {a, b} : x >= y
  <2>1. a >= b \/ b >= a
    OBVIOUS
  <2> QED
    BY <2>1
<1>2. Max({a, b}) \in {a, b} /\ \A y \in {a, b} : Max({a, b}) >= y
  BY <1>1 DEF Max
<1> QED
  BY <1>2 DEF Later

-------------------------------------------------------------------------------
\* What a look at the lines says and keeps, for the rule it is a look for.

\* The expiry is announced once, and that is remembered.
NoticeOf(rule, prev, res, now) ==
    /\ res.notice => ~prev.expiredNotified /\ Expired(rule, now)
    /\ res.next.expiredNotified => prev.expiredNotified \/ res.notice
    /\ prev.expiredNotified \/ res.notice => res.next.expiredNotified

\* What is reported lies past the old mark. It, and what lay before the old mark, lies
\* before the new one, unless the lines end before it.
EventsOf(rule, prev, res, lines, now) ==
    /\ \A t \in res.events : prev.watermark < t /\ (Expired(rule, now) => ~prev.expiredNotified)
    /\ \A t \in Times : t \in res.events \/ t <= prev.watermark =>
          t <= res.next.watermark \/ res.notice \/ (rule.enabled /\ EndsBefore(lines, t))
    /\ res.next.watermark <= clock

\* What the mark passes is reported.
GapOf(rule, prev, res) ==
    \A t \in Times : Armed(rule, t) /\ res.next.from < t /\ t <= res.next.watermark =>
        \/ prev.from < t /\ t <= prev.watermark
        \/ /\ rule.kind = "event" /\ log[t] = "enter" => t \in res.events
           /\ rule.kind = "level" /\ log[t] = "high" => res.alert \/ prev.fired

\* The latch is left alone, or follows the condition in lines that can answer.
LatchOf(rule, prev, res, lines, now) ==
    \/ /\ ~res.alert /\ res.next.fired = prev.fired
       /\ \/ rule.kind = "event" \/ res.next.watermark = prev.watermark
          \/ Judging(rule, now) /\ lines # {} /\ res.next.watermark = Last(lines)
    \/ /\ Judging(rule, now)
       /\ Judgeable(rule, lines, now, WindowFloor(rule, prev))
       /\ lines = {} => res.next.watermark = prev.watermark
       /\ lines # {} => res.next.watermark = Last(lines)
       /\ res.next.fired = Condition(rule, lines, now, WindowFloor(rule, prev))
       /\ res.alert <=> res.next.fired /\ ~prev.fired

Outcome(rule, prev, res, lines, now) ==
    /\ NoticeOf(rule, prev, res, now) /\ EventsOf(rule, prev, res, lines, now)
    /\ GapOf(rule, prev, res) /\ LatchOf(rule, prev, res, lines, now)

LEMMA QuietOutcome ==
    ASSUME TypeOK, NEW rule \in Rules, NEW prev \in Runtimes, prev.watermark <= clock, NEW lines, NEW now
    PROVE  Outcome(rule, prev, Quiet(prev), lines, now)
BY DEF Outcome, NoticeOf, EventsOf, GapOf, LatchOf, Quiet, TypeOK, Runtimes, Stamps

LEMMA FloorTyped ==
    ASSUME NEW rule \in Rules, NEW prev \in Runtimes
    PROVE  /\ WindowFloor(rule, prev) \in Nat
           /\ WindowFloor(rule, prev) \in {prev.watermark, rule.armedAt}
           /\ prev.watermark <= WindowFloor(rule, prev) /\ rule.armedAt <= WindowFloor(rule, prev)
<1>1. prev.watermark \in Nat /\ rule.armedAt \in Nat
  BY BoundAssumption DEF Rules, Runtimes, Stamps
<1> QED
  BY <1>1, LaterTyped DEF WindowFloor

\* What is kept of some lines.
LEMMA CarriedFields ==
    ASSUME NEW prev \in Runtimes, NEW lines, lines \subseteq Times, NEW floor
    PROVE  LET c == Carried(prev, lines, floor)
           IN  /\ c \in Runtimes
               /\ c.fired = prev.fired /\ c.expiredNotified = prev.expiredNotified
               /\ lines = {} => c.watermark = prev.watermark /\ Last(lines) = 0
               /\ lines # {} => c.watermark = Last(lines)
               /\ floor = 0 => c.from = Last(lines)
               /\ floor # 0 => c.from = prev.from
<1>1. Carried(prev, lines, floor) \in Runtimes
  BY CarriedTyped
<1>2. /\ lines = {} => Advanced(lines, prev) = prev.watermark /\ Last(lines) = 0
      /\ lines # {} => Advanced(lines, prev) = Last(lines)
  BY DEF Advanced, Last
<1> QED
  BY <1>1, <1>2 DEF Carried, Runtimes

\* A line that a look passes is past its floor.
LEMMA PassedFloor ==
    ASSUME TypeOK, NEW rule \in Rules, NEW prev \in Runtimes, NEW lines, lines \subseteq Times, Whole(lines),
           NEW t \in Times, Armed(rule, t),
           Carried(prev, lines, WindowFloor(rule, prev)).from < t,
           t <= Carried(prev, lines, WindowFloor(rule, prev)).watermark,
           ~(prev.from < t /\ t <= prev.watermark)
    PROVE  /\ WindowFloor(rule, prev) # 0 /\ t > WindowFloor(rule, prev)
           /\ Real(t) => t \in lines
<1> DEFINE floor == WindowFloor(rule, prev)
           c == Carried(prev, lines, floor)
<1>1. /\ c \in Runtimes
      /\ lines = {} => c.watermark = prev.watermark /\ Last(lines) = 0
      /\ lines # {} => c.watermark = Last(lines)
      /\ floor = 0 => c.from = Last(lines)
      /\ floor # 0 => c.from = prev.from
  BY CarriedFields
<1>2. floor \in Nat /\ prev.watermark <= floor /\ rule.armedAt <= floor /\ floor \in {prev.watermark, rule.armedAt}
  BY FloorTyped
<1>3. prev.watermark \in Nat /\ prev.from \in Nat /\ rule.armedAt \in Nat /\ Last(lines) \in Nat
  BY LastTyped, BoundAssumption DEF Rules, Runtimes, Stamps
<1>4. t \in Nat /\ t > rule.armedAt /\ c.from < t /\ t <= c.watermark
  BY <1>3, BoundAssumption DEF Times, Armed
<1> HIDE DEF floor, c
<1>5. floor # 0
  <2> SUFFICES ASSUME floor = 0 PROVE FALSE
    OBVIOUS
  <2>1. c.from = Last(lines) /\ prev.watermark = 0
    BY <1>1, <1>2, <1>3
  <2> QED
    BY <1>1, <1>3, <1>4, <2>1
<1>6. t > prev.watermark /\ t > floor
  BY <1>1, <1>2, <1>3, <1>4, <1>5
<1>7. lines # {} /\ t <= Last(lines)
  BY <1>1, <1>3, <1>4, <1>6
<1> QED
  BY <1>5, <1>6, <1>7 DEF Whole, floor

\* A look for an event rule.
LEMMA EventFields ==
    ASSUME TypeOK, NEW rule \in Rules, NEW prev \in Runtimes, prev.watermark <= clock,
           NEW lines, lines \subseteq Times, Whole(lines)
    PROVE  LET res == EvaluateEvent(prev, lines, WindowFloor(rule, prev))
           IN  /\ res \in Results /\ ~res.alert /\ ~res.notice
               /\ res.next.fired = prev.fired /\ res.next.expiredNotified = prev.expiredNotified
               /\ res.next.watermark <= clock
               /\ lines = {} => res.next.watermark = prev.watermark
               /\ lines # {} => res.next.watermark = Last(lines)
               /\ \A t \in res.events : t \in lines /\ prev.watermark < t
               /\ \A t \in Times : Armed(rule, t) /\ res.next.from < t /\ t <= res.next.watermark =>
                    \/ prev.from < t /\ t <= prev.watermark
                    \/ log[t] = "enter" => t \in res.events
<1> DEFINE floor == WindowFloor(rule, prev)
           c == Carried(prev, lines, floor)
           events == IF floor = 0 THEN {} ELSE {t \in lines : t > floor /\ log[t] = "enter"}
           res == EvaluateEvent(prev, lines, WindowFloor(rule, prev))
<1>1. /\ c \in Runtimes
      /\ c.fired = prev.fired /\ c.expiredNotified = prev.expiredNotified
      /\ lines = {} => c.watermark = prev.watermark
      /\ lines # {} => c.watermark = Last(lines)
  BY CarriedFields
<1>2. floor \in Nat /\ prev.watermark \in Nat /\ prev.watermark <= floor
  BY FloorTyped, BoundAssumption DEF Runtimes, Stamps
<1>3. \A t \in Times : t \in Nat
  BY BoundAssumption DEF Times
<1>4. res = [Quiet(c) EXCEPT !.events = events]
  BY DEF EvaluateEvent
<1>5. events \subseteq Times /\ \A t \in events : t \in lines /\ t > floor
  OBVIOUS
<1>6. \A t \in lines : floor # 0 /\ t > floor /\ log[t] = "enter" => t \in events
  OBVIOUS
<1>7. ASSUME NEW t \in Times, Armed(rule, t), c.from < t, t <= c.watermark, ~(prev.from < t /\ t <= prev.watermark),
             log[t] = "enter"
      PROVE  t \in events
  <2>1. Real(t)
    BY <1>7, NoneAssumption DEF Real
  <2>2. floor # 0 /\ t > floor /\ (Real(t) => t \in lines)
    BY <1>7, PassedFloor
  <2> QED
    BY <1>6, <1>7, <2>1, <2>2
<1> HIDE DEF floor, c, events
<1>8. /\ res.next = c /\ res.events = events /\ res.alert = FALSE /\ res.notice = FALSE
      /\ res \in Results
  BY <1>1, <1>4, <1>5 DEF Quiet, Results
<1>9. \A t \in events : t \in lines /\ prev.watermark < t
  BY <1>2, <1>3, <1>5
<1>10. c.watermark <= clock
  BY <1>1 DEF Whole
<1> HIDE DEF res
<1> QED
  BY <1>1, <1>7, <1>8, <1>9, <1>10 DEF res

\* Whatever lies past the mark that is kept of some lines, the lines end before it.
LEMMA PastMark ==
    ASSUME NEW prev \in Runtimes, NEW lines, lines \subseteq Times, NEW mark,
           lines = {} => mark = prev.watermark, lines # {} => mark = Last(lines),
           NEW t \in Times, t \in lines \/ t <= prev.watermark
    PROVE  t <= mark \/ EndsBefore(lines, t)
<1>1. t \in Nat
  BY BoundAssumption DEF Times
<1>2. Last(lines) \in Nat
  BY LastTyped, BoundAssumption DEF Stamps
<1> QED
  BY <1>1, <1>2 DEF EndsBefore

LEMMA EventOutcome ==
    ASSUME TypeOK, NEW rule \in Rules, rule.kind = "event", rule.enabled,
           NEW prev \in Runtimes, prev.watermark <= clock,
           NEW lines, lines \subseteq Times, Whole(lines), NEW now, ~Expired(rule, now)
    PROVE  Outcome(rule, prev, EvaluateEvent(prev, lines, WindowFloor(rule, prev)), lines, now)
<1> DEFINE res == EvaluateEvent(prev, lines, WindowFloor(rule, prev))
<1>1. /\ res \in Results /\ ~res.alert /\ ~res.notice
      /\ res.next.fired = prev.fired /\ res.next.expiredNotified = prev.expiredNotified
      /\ res.next.watermark <= clock
      /\ lines = {} => res.next.watermark = prev.watermark
      /\ lines # {} => res.next.watermark = Last(lines)
      /\ \A t \in res.events : t \in lines /\ prev.watermark < t
      /\ \A t \in Times : Armed(rule, t) /\ res.next.from < t /\ t <= res.next.watermark =>
           \/ prev.from < t /\ t <= prev.watermark
           \/ log[t] = "enter" => t \in res.events
  BY EventFields
<1> HIDE DEF res
<1>2. NoticeOf(rule, prev, res, now)
  BY <1>1 DEF NoticeOf
<1>3. EventsOf(rule, prev, res, lines, now)
  BY <1>1, PastMark DEF EventsOf
<1>4. GapOf(rule, prev, res)
  BY <1>1 DEF GapOf
<1>5. LatchOf(rule, prev, res, lines, now)
  BY <1>1 DEF LatchOf
<1> QED
  BY <1>2, <1>3, <1>4, <1>5 DEF Outcome, res

\* A rule about a reading is judged, or the log cannot answer.
LEMMA LevelishOutcome ==
    ASSUME TypeOK, NEW rule \in Rules, rule.kind \in LevelKinds, rule.enabled,
           NEW prev \in Runtimes, prev.watermark <= clock,
           NEW lines, lines \subseteq Times, Whole(lines), NEW now, LevelsDue(now), ~Expired(rule, now)
    PROVE  Outcome(rule, prev, EvaluateLevelish(rule, prev, lines, now), lines, now)
<1> DEFINE floor == WindowFloor(rule, prev)
           c == Carried(prev, lines, floor)
           met == Condition(rule, lines, now, floor)
           judged == [c EXCEPT !.fired = met]
           said == met /\ ~prev.fired
           res == EvaluateLevelish(rule, prev, lines, now)
<1>1. /\ c \in Runtimes
      /\ c.fired = prev.fired /\ c.expiredNotified = prev.expiredNotified
      /\ lines = {} => c.watermark = prev.watermark
      /\ lines # {} => c.watermark = Last(lines)
  BY CarriedFields
<1>2. prev.fired \in BOOLEAN
  BY DEF Runtimes
<1>3. met \in BOOLEAN
  BY ConditionBoolean
<1>4. rule.kind # "event" /\ Judging(rule, now)
  BY DEF LevelKinds, Judging
<1>5. \/ ~Judgeable(rule, lines, now, floor) /\ res = Quiet(c)
      \/ Judgeable(rule, lines, now, floor) /\ res = [Quiet(judged) EXCEPT !.alert = said]
  BY DEF EvaluateLevelish
\* The lines a level rule judges are those past its floor.
<1>6. ASSUME rule.kind = "level", NEW t \in Times, log[t] = "high", Armed(rule, t),
             c.from < t, t <= c.watermark, ~(prev.from < t /\ t <= prev.watermark)
      PROVE  Judgeable(rule, lines, now, floor) /\ met
  <2>1. Real(t)
    BY <1>6, NoneAssumption DEF Real
  <2>2. floor # 0 /\ t > floor /\ t \in lines
    BY <1>6, <2>1, PassedFloor
  <2>3. t \in LevelWindow(lines, floor)
    BY <2>1, <2>2 DEF LevelWindow, Dated
  <2> QED
    BY <1>6, <2>3 DEF Judgeable, Condition
<1>7. c.watermark <= clock
  BY <1>1 DEF Whole
<1> HIDE DEF floor, c, met, res
<1>8. CASE ~Judgeable(rule, lines, now, floor) /\ res = Quiet(c)
  <2>1. res.next = c /\ ~res.alert /\ ~res.notice /\ res.events = {}
    BY <1>8 DEF Quiet
  <2>2. NoticeOf(rule, prev, res, now)
    BY <1>1, <2>1 DEF NoticeOf
  <2>3. EventsOf(rule, prev, res, lines, now)
    BY <1>1, <1>7, <2>1, PastMark DEF EventsOf
  <2>4. GapOf(rule, prev, res)
    BY <1>4, <1>6, <1>8, <2>1 DEF GapOf
  <2>5. LatchOf(rule, prev, res, lines, now)
    BY <1>1, <1>4, <2>1 DEF LatchOf
  <2> QED
    BY <2>2, <2>3, <2>4, <2>5 DEF Outcome, res
<1>9. CASE Judgeable(rule, lines, now, floor) /\ res = [Quiet(judged) EXCEPT !.alert = said]
  <2>1. res.next = judged /\ res.alert = said /\ ~res.notice /\ res.events = {}
    BY <1>9 DEF Quiet
  <2>2. /\ judged.fired = met /\ judged.watermark = c.watermark /\ judged.from = c.from
        /\ judged.expiredNotified = c.expiredNotified
    BY <1>1 DEF Runtimes
  <2> HIDE DEF judged
  <2>3. NoticeOf(rule, prev, res, now)
    BY <1>1, <2>1, <2>2 DEF NoticeOf
  <2>4. EventsOf(rule, prev, res, lines, now)
    BY <1>1, <1>7, <2>1, <2>2, PastMark DEF EventsOf
  <2>5. GapOf(rule, prev, res)
    BY <1>4, <1>6, <2>1, <2>2 DEF GapOf
  <2>6. LatchOf(rule, prev, res, lines, now)
    BY <1>1, <1>4, <1>9, <2>1, <2>2 DEF LatchOf, floor, met
  <2> QED
    BY <2>3, <2>4, <2>5, <2>6 DEF Outcome, res
<1> QED
  BY <1>5, <1>8, <1>9

\* The last look, at what came before the expiry, goes with the announcement.
LEMMA ExpiryOutcome ==
    ASSUME TypeOK, Clocks, NEW rule \in Rules, NEW prev \in Runtimes, prev.watermark <= clock,
           NEW lines, lines \subseteq Times, Whole(lines), NEW now, Expired(rule, now)
    PROVE  Outcome(rule, prev, EvaluateExpiry(rule, prev, lines), lines, now)
<1> DEFINE upTo == {t \in lines : Stamp(t) <= rule.expiresAt}
           last == IF rule.kind = "event" THEN EvaluateEvent(prev, upTo, WindowFloor(rule, prev))
                   ELSE Quiet(prev)
           noted == [last EXCEPT !.next = [@ EXCEPT !.expiredNotified = TRUE], !.notice = TRUE]
           res == EvaluateExpiry(rule, prev, lines)
<1>1. rule.expiresAt \in Nat /\ rule.expiresAt > 0
  BY DEF Rules, Expired
<1>2. upTo \subseteq Times /\ Whole(upTo)
  BY <1>1, UpToWhole
<1>3. prev.expiredNotified \in BOOLEAN
  BY DEF Runtimes
<1> HIDE DEF upTo
\* What the last look adds.
<1>4. /\ last \in Results /\ ~last.alert /\ last.next.fired = prev.fired
      /\ last.next.watermark <= clock
      /\ rule.kind # "event" => last.next.watermark = prev.watermark
      /\ \A t \in last.events : prev.watermark < t
      /\ \A t \in Times : Armed(rule, t) /\ last.next.from < t /\ t <= last.next.watermark =>
           \/ prev.from < t /\ t <= prev.watermark
           \/ rule.kind = "event" /\ (log[t] = "enter" => t \in last.events)
  <2>1. CASE rule.kind = "event"
    <3>1. last = EvaluateEvent(prev, upTo, WindowFloor(rule, prev))
      BY <2>1
    <3> HIDE DEF last
    <3> QED
      BY <1>2, <2>1, <3>1, EventFields
  <2>2. CASE rule.kind # "event"
    <3>1. last = Quiet(prev)
      BY <2>2
    <3>2. last.next = prev /\ last.alert = FALSE /\ last.events = {} /\ last \in Results
      BY <3>1, QuietTyped DEF Quiet
    <3> HIDE DEF last
    <3> QED
      BY <2>2, <3>2
  <2> QED
    BY <2>1, <2>2
<1>5. \/ prev.expiredNotified /\ res = Quiet(prev)
      \/ ~prev.expiredNotified /\ res = noted
  BY <1>3 DEF EvaluateExpiry, upTo
<1>6. CASE prev.expiredNotified /\ res = Quiet(prev)
  BY <1>6, QuietOutcome
<1>7. CASE ~prev.expiredNotified /\ res = noted
  <2> HIDE DEF last, res
  <2>1. /\ res.notice /\ res.alert = last.alert /\ res.events = last.events
        /\ res.next.expiredNotified /\ res.next.watermark = last.next.watermark
        /\ res.next.fired = last.next.fired /\ res.next.from = last.next.from
    BY <1>4, <1>7 DEF Results, Runtimes
  <2>2. NoticeOf(rule, prev, res, now)
    BY <1>7, <2>1 DEF NoticeOf
  <2>3. EventsOf(rule, prev, res, lines, now)
    BY <1>4, <1>7, <2>1 DEF EventsOf
  <2>4. GapOf(rule, prev, res)
    BY <1>4, <2>1 DEF GapOf
  <2>5. LatchOf(rule, prev, res, lines, now)
    BY <1>3, <1>4, <2>1 DEF LatchOf
  <2> QED
    BY <2>2, <2>3, <2>4, <2>5 DEF Outcome, res
<1> QED
  BY <1>5, <1>6, <1>7

LEMMA RuleOutcome ==
    ASSUME TypeOK, Clocks, NEW id \in Ids, NEW rule \in Rules,
           NEW lines, lines \subseteq Times, Whole(lines), NEW now, Previous(id, rule).watermark <= clock
    PROVE  Outcome(rule, Previous(id, rule), EvaluateRule(id, rule, lines, now), lines, now)
<1> DEFINE prev == Previous(id, rule)
           res == EvaluateRule(id, rule, lines, now)
<1>1. prev \in Runtimes
  BY BoundAssumption DEF Previous, Fresh, TypeOK, Runtimes, Rules, Stamps
<1>2. rule.enabled \in BOOLEAN /\ (rule.kind = "event" \/ rule.kind \in LevelKinds)
  BY DEF Rules
<1>3. \/ res = Quiet(prev)
      \/ Expired(rule, now) /\ res = EvaluateExpiry(rule, prev, lines)
      \/ /\ rule.enabled /\ ~Expired(rule, now) /\ rule.kind = "event"
         /\ res = EvaluateEvent(prev, lines, WindowFloor(rule, prev))
      \/ /\ rule.enabled /\ ~Expired(rule, now) /\ rule.kind \in LevelKinds /\ LevelsDue(now)
         /\ res = EvaluateLevelish(rule, prev, lines, now)
  BY <1>2 DEF EvaluateRule
<1> HIDE DEF prev, res
<1>4. prev.watermark <= clock
  BY DEF prev
<1> QED
  BY <1>1, <1>3, <1>4, QuietOutcome, ExpiryOutcome, EventOutcome, LevelishOutcome DEF prev, res

-------------------------------------------------------------------------------
\* What a tick does to the history.

LEMMA OneMore ==
    ASSUME NEW n \in 0..2
    PROVE  Min({2, n + 1}) = IF n = 0 THEN 1 ELSE 2
<1>1. CASE n = 0
  BY <1>1 DEF Min
<1>2. CASE n > 0
  <2>1. 2 \in {2, n + 1} /\ \A y \in {2, n + 1} : 2 <= y
    BY <1>2
  <2>2. Min({2, n + 1}) \in {2, n + 1} /\ \A y \in {2, n + 1} : Min({2, n + 1}) <= y
    BY <2>1 DEF Min
  <2>3. Min({2, n + 1}) <= 2
    BY <2>2
  <2> QED
    BY <1>2, <2>2, <2>3
<1> QED
  BY <1>1, <1>2

\* Who is known under two ids is nobody.
LEMMA HomeIsOne ==
    ASSUME IInv, HomeInv, NEW id \in Ids, NEW other \in Ids,
           NEW x \in Held(id), NEW y \in Held(other), x.of = y.of
    PROVE  id = other
<1>1. \A s \in SystemIds : \A z \in Held(s) : z.of = s
  BY DEF IInv, SystemOwn, Held
<1>2. \A u \in UserIdSet : \A z \in Held(u) : z.of \in 1..MaxCalls
  <2> SUFFICES ASSUME NEW u \in UserIdSet, NEW z \in Held(u) PROVE z.of \in 1..MaxCalls
    OBVIOUS
  <2>1. Born(z.of)
    BY DEF HomeInv, Numbered
  <2>2. asked \in 0..MaxCalls
    BY DEF IInv, TypeOK
  <2> QED
    BY <2>1, <2>2, BoundAssumption DEF Born
<1>3. CASE id \in SystemIds /\ other \in SystemIds
  BY <1>1, <1>3
<1>4. CASE id \in UserIdSet /\ other \in UserIdSet
  BY <1>4 DEF HomeInv, OneHome
<1>5. CASE id \in SystemIds /\ other \in UserIdSet
  BY <1>1, <1>2, <1>5, IdAssumption
<1>6. CASE id \in UserIdSet /\ other \in SystemIds
  BY <1>1, <1>2, <1>6, IdAssumption
<1> QED
  BY <1>3, <1>4, <1>5, <1>6 DEF Ids

\* What an evaluation writes into the history.
EvaluatedHistory(lines, Said(_), res) ==
    /\ notices' = [i \in Incarnations |->
            IF \E x \in Said(i) : res[x].notice THEN Min({2, notices[i] + 1}) ELSE notices[i]]
    /\ reports' = [i \in Incarnations |-> [t \in Times |-> After(reports[i][t],
            \E x \in Said(i) : t \in res[x].events,
            \E x \in Said(i) : tick.rules[x].enabled /\ EndsBefore(lines, t))]]
    /\ alertedAt' = [i \in Incarnations |->
            IF \E x \in Said(i) : res[x].alert THEN Newest(Dated(lines)) ELSE alertedAt[i]]
    /\ alerts' = [i \in Incarnations |-> After(alerts[i],
            \E x \in Said(i) : res[x].alert,
            \E x \in Said(i) : /\ Judging(tick.rules[x], tick.now)
                               /\ Reopens(tick.rules[x].kind, lines, tick.now, alertedAt'[i]))]

LEMMA EvaluateEffect ==
    ASSUME IInv, HomeInv, NEW lines, lines \subseteq Times, Evaluate(lines),
           NEW id \in Ids, tick.rules[id] # None
    PROVE  LET r == tick.rules[id]
               res == EvaluateRule(id, r, lines, tick.now)
           IN  /\ r \in Rules /\ res \in Results
               /\ runtime'[id] = res.next
               /\ notices'[r.of] = IF res.notice THEN Min({2, notices[r.of] + 1}) ELSE notices[r.of]
               /\ \A t \in Times : reports'[r.of][t] =
                    After(reports[r.of][t], t \in res.events, r.enabled /\ EndsBefore(lines, t))
               /\ alertedAt'[r.of] = IF res.alert THEN Newest(Dated(lines)) ELSE alertedAt[r.of]
               /\ alerts'[r.of] = After(alerts[r.of], res.alert,
                    Judging(r, tick.now) /\ Reopens(r.kind, lines, tick.now, alertedAt'[r.of]))
<1> DEFINE in == {x \in Ids : tick.rules[x] # None}
           result == [x \in in |-> EvaluateRule(x, tick.rules[x], lines, tick.now)]
           next == [x \in Ids |-> IF x \in in THEN result[x].next ELSE None]
           Said(i) == {x \in in : tick.rules[x].of = i}
           r == tick.rules[id]
           res == EvaluateRule(id, r, lines, tick.now)
<1>1. id \in in /\ result[id] = res
  OBVIOUS
<1>2. r \in Rules /\ res \in Results
  <2>1. r \in Rules
    BY DEF IInv, TypeOK, RuleFiles
  <2> QED
    BY <2>1, RuleTyped DEF IInv
<1>3. r.of \in Incarnations
  BY <1>2 DEF Rules
<1>4. Said(r.of) = {id}
  <2>1. \A x \in Said(r.of) : x = id
    <3> SUFFICES ASSUME NEW x \in Said(r.of) PROVE x = id
      OBVIOUS
    <3>1. tick.rules[x] \in Held(x) /\ r \in Held(id)
      BY DEF Held
    <3> QED
      BY <3>1, HomeIsOne
  <2> QED
    BY <1>1, <2>1
<1>5. runtime'[id] = res.next
  <2>1. runtime' = Persisted(next)
    BY DEF Evaluate
  <2>2. next[id] = res.next
    BY <1>1
  <2> HIDE DEF next
  <2> QED
    BY <2>1, <2>2 DEF Persisted
<1>6. EvaluatedHistory(lines, Said, result)
  BY DEF Evaluate, EvaluatedHistory
<1>7. /\ (\E x \in Said(r.of) : result[x].notice) <=> res.notice
      /\ (\E x \in Said(r.of) : result[x].alert) <=> res.alert
      /\ (\E x \in Said(r.of) : /\ Judging(tick.rules[x], tick.now)
                                /\ Reopens(tick.rules[x].kind, lines, tick.now, alertedAt'[r.of]))
           <=> Judging(r, tick.now) /\ Reopens(r.kind, lines, tick.now, alertedAt'[r.of])
  BY <1>1, <1>4
<1>8. ASSUME NEW t \in Times
      PROVE  /\ (\E x \in Said(r.of) : t \in result[x].events) <=> t \in res.events
             /\ (\E x \in Said(r.of) : tick.rules[x].enabled /\ EndsBefore(lines, t))
                  <=> r.enabled /\ EndsBefore(lines, t)
  BY <1>1, <1>4
<1> HIDE DEF in, result, next, Said, r, res
<1>9. notices'[r.of] = IF res.notice THEN Min({2, notices[r.of] + 1}) ELSE notices[r.of]
  BY <1>3, <1>6, <1>7 DEF EvaluatedHistory
<1>10. ASSUME NEW t \in Times
       PROVE  reports'[r.of][t] = After(reports[r.of][t], t \in res.events, r.enabled /\ EndsBefore(lines, t))
  BY <1>3, <1>6, <1>8 DEF EvaluatedHistory, After
<1>11. alertedAt'[r.of] = IF res.alert THEN Newest(Dated(lines)) ELSE alertedAt[r.of]
  BY <1>3, <1>6, <1>7 DEF EvaluatedHistory
<1>12. alerts'[r.of] = After(alerts[r.of], res.alert,
            Judging(r, tick.now) /\ Reopens(r.kind, lines, tick.now, alertedAt'[r.of]))
  BY <1>3, <1>6, <1>7 DEF EvaluatedHistory, After
<1> QED
  BY <1>2, <1>5, <1>9, <1>10, <1>11, <1>12 DEF r, res

\* Nothing is said for a rule the tick does not hold.
LEMMA EvaluateLeaves ==
    ASSUME TypeOK, NEW lines, Evaluate(lines),
           NEW i \in Incarnations, \A id \in Ids : tick.rules[id] # None => tick.rules[id].of # i
    PROVE  /\ notices'[i] = notices[i] /\ alertedAt'[i] = alertedAt[i] /\ alerts'[i] = alerts[i]
           /\ \A t \in Times : reports'[i][t] = reports[i][t]
<1> DEFINE in == {x \in Ids : tick.rules[x] # None}
           result == [x \in in |-> EvaluateRule(x, tick.rules[x], lines, tick.now)]
           Said(j) == {x \in in : tick.rules[x].of = j}
<1>1. Said(i) = {}
  OBVIOUS
<1>2. EvaluatedHistory(lines, Said, result)
  BY DEF Evaluate, EvaluatedHistory
<1> HIDE DEF in, result, Said
<1>3. notices'[i] = notices[i] /\ alertedAt'[i] = alertedAt[i]
  BY <1>1, <1>2 DEF EvaluatedHistory
<1>4. alerts'[i] = After(alerts[i], FALSE, FALSE)
  BY <1>1, <1>2 DEF EvaluatedHistory, After
<1>5. \A t \in Times : reports'[i][t] = After(reports[i][t], FALSE, FALSE)
  BY <1>1, <1>2 DEF EvaluatedHistory, After
<1>6. \A past \in Tellings : After(past, FALSE, FALSE) = past
  BY DEF After
<1>7. alerts[i] \in Tellings /\ \A t \in Times : reports[i][t] \in Tellings
  BY DEF TypeOK
<1> QED
  BY <1>3, <1>4, <1>5, <1>6, <1>7

\* The runtime of a rule the tick does not hold goes, unless the tick saw no list.
LEMMA EvaluatePrunes ==
    ASSUME TypeOK, NEW lines, Evaluate(lines), NEW id \in Ids, tick.rules[id] = None
    PROVE  runtime'[id] = IF tick.degraded THEN runtime[id] ELSE None
BY DEF Evaluate, Persisted

LEMMA PreviousTyped ==
    ASSUME TypeOK, NEW id \in Ids, NEW rule \in Rules
    PROVE  /\ Previous(id, rule) \in Runtimes
           /\ runtime[id] # None => Previous(id, rule) = runtime[id]
           /\ runtime[id] = None => Previous(id, rule) = Fresh(rule)
BY BoundAssumption DEF Previous, Fresh, TypeOK, Runtimes, Rules, Stamps

\* A tick of what there is of a copy, or of nothing, for one of its rules.
LEMMA TickOutcome ==
    ASSUME IInv, HomeInv, NEW lines, lines \subseteq Times, Whole(lines), Evaluate(lines),
           NEW id \in Ids, tick.rules[id] # None
    PROVE  LET r == tick.rules[id]
               prev == Previous(id, r)
               res == EvaluateRule(id, r, lines, tick.now)
           IN  /\ prev \in Runtimes /\ prev.of = r.of /\ prev.watermark <= clock
               /\ res.next.of = r.of
               /\ Outcome(r, prev, res, lines, tick.now)
<1> DEFINE r == tick.rules[id]
           prev == Previous(id, r)
<1>1. r \in Rules
  BY DEF IInv, TypeOK, RuleFiles
<1>2. prev \in Runtimes /\ (runtime[id] # None => prev = runtime[id]) /\ (runtime[id] = None => prev = Fresh(r))
  BY <1>1, PreviousTyped DEF IInv
<1>3. clock \in Nat
  BY BoundAssumption DEF IInv, TypeOK, Times
<1>4. prev.of = r.of /\ prev.watermark <= clock
  BY <1>2, <1>3 DEF Fresh, HomeInv, TickAlike, Clocks
<1>5. Outcome(r, prev, EvaluateRule(id, r, lines, tick.now), lines, tick.now)
  BY <1>1, <1>4, RuleOutcome DEF IInv, HomeInv
<1>6. EvaluateRule(id, r, lines, tick.now).next.of = prev.of
  <2> HIDE DEF r
  <2> QED
    BY <1>1, RuleTyped DEF IInv
<1> QED
  BY <1>2, <1>4, <1>5, <1>6

\* The lines an evaluation reads.
LEMMA EvaluateLines ==
    ASSUME IInv, HomeInv, TickEvaluate \/ TickEvaluateBlind
    PROVE  \E lines : lines \subseteq Times /\ Whole(lines) /\ Evaluate(lines)
BY CopyWhole DEF TickEvaluate, TickEvaluateBlind, IInv, HomeInv

-------------------------------------------------------------------------------
\* What the other steps do to the lists of rules.

LEMMA ReadEffect ==
    ASSUME IInv, TickRead \/ TickReadBusy
    PROVE  /\ tick'.now = clock
           /\ \A id \in UserIdSet : /\ tick'.rules[id] \in {rules[id], None}
                                    /\ ~tick'.degraded => tick'.rules[id] = rules[id]
           /\ \A id \in SystemIds : /\ tick'.rules[id] \in {rules[id], SystemRule(id)} \ {None}
                                    /\ rules[id] = None => tick'.rules[id] = SystemRule(id)
           /\ UNCHANGED <<clock, log, shown, files, call, asked, kept>>
<1>1. PICK stored \in {rules, NoRules} :
        tick'.now = clock /\ tick'.rules = MergeWithDefaults(stored) /\ (~tick'.degraded => stored = rules)
  <2>1. CASE TickRead
    <3>1. tick' = [now |-> clock, rules |-> MergeWithDefaults(rules), degraded |-> FALSE]
      BY <2>1 DEF TickRead
    <3> QED
      BY <3>1
  <2>2. CASE TickReadBusy
    <3>1. tick' = [now |-> clock, rules |-> MergeWithDefaults(NoRules), degraded |-> TRUE]
      BY <2>2 DEF TickReadBusy
    <3> QED
      BY <3>1
  <2> QED
    BY <2>1, <2>2
<1>2. UNCHANGED <<clock, log, shown, files, call, asked, kept>>
  BY DEF TickRead, TickReadBusy
<1>3. \A id \in SystemIds : SystemRule(id) # None
  BY SystemRuleTyped, NoneAssumption DEF IInv
<1>4. \A id \in Ids : stored[id] \in {rules[id], None}
  BY DEF NoRules
<1>5. \A id \in UserIdSet : id \in Ids /\ id \notin SystemIds /\ tick'.rules[id] = stored[id]
  BY <1>1, IdAssumption DEF MergeWithDefaults, Ids
<1>6. \A id \in SystemIds : id \in Ids /\ tick'.rules[id] = IF stored[id] = None THEN SystemRule(id) ELSE stored[id]
  BY <1>1 DEF MergeWithDefaults, Ids
<1> QED
  BY <1>1, <1>2, <1>3, <1>4, <1>5, <1>6

\* createRule writes a new rule under an unclaimed id, and leaves out what is collected.
LEMMA ArmEffect ==
    ASSUME ~ReuseInTick, IInv, HomeInv, CreateArms
    PROVE  /\ call # None /\ call.file = rules /\ call'.step = "add"
           /\ \E new \in UserIdSet :
                /\ Unclaimed(new)
                /\ call'.file[new] \in Rules /\ call'.file[new].of = asked
                /\ call'.file[new].armedAt = clock
                /\ \A i \in Ids : i # new =>
                     \/ call'.file[i] = rules[i]
                     \/ call'.file[i] = None /\ Collectable(rules, i) /\ i \notin SystemIds
           /\ UNCHANGED <<clock, log, shown, files, tick, asked, kept>>
<1> USE DEF IInv
<1> DEFINE id == NewRuleId(call.file)
           swept == GcExpired(call.file)
<1>1. call # None /\ call.step = "create" /\ call.file = rules
  BY DEF CreateArms, Free, CallAgrees
<1>2. id \in UserIdSet /\ id \notin Used(call.file)
  BY NewIdUnused DEF CreateArms
<1>3. PICK rule : /\ rule \in [kind : Kinds, of : {asked}, armedAt : {clock}, enabled : {TRUE}, expiresAt : Nat]
                  /\ call' = [step |-> "add", file |-> [swept EXCEPT ![id] = rule]]
  <2>1. PICK kind \in Kinds, w \in Windows : call' = [step |-> "add", file |-> [swept EXCEPT ![id] =
            [kind |-> kind, of |-> asked, armedAt |-> clock, enabled |-> TRUE,
             expiresAt |-> IF w = 0 THEN 0 ELSE clock + w]]]
    BY DEF CreateArms
  <2>2. (IF w = 0 THEN 0 ELSE clock + w) \in Nat
    BY ValueAssumption, BoundAssumption DEF TypeOK, Times
  <2> QED
    BY <2>1, <2>2
<1>4. UNCHANGED <<clock, log, shown, files, tick, asked, kept>>
  BY DEF CreateArms
<1>5. rule \in Rules /\ rule.of = asked /\ rule.armedAt = clock
  <2>1. asked \in 1..MaxCalls
    BY <1>1, BoundAssumption DEF TypeOK, Counted
  <2>2. asked \in Incarnations /\ clock \in Stamps
    BY <2>1, BoundAssumption DEF Incarnations, TypeOK, Times, Stamps
  <2> QED
    BY <1>3, <2>2, KindAssumption DEF Rules
<1>6. \A i \in SystemIds : ~Collectable(rules, i)
  BY NoneAssumption DEF Collectable, HomeInv, BuiltInsStay, BuiltIn
<1>7. swept \in [Ids -> Rules \cup {None}]
  BY <1>1 DEF GcExpired, TypeOK, RuleFiles
<1>8. \A i \in Ids : swept[i] = rules[i] \/ (swept[i] = None /\ Collectable(rules, i))
  BY <1>1 DEF GcExpired
<1>9. Unclaimed(id)
  <2>1. rules[id] = None /\ runtime[id] = None
    BY <1>1, <1>2 DEF Used, Ids
  <2>2. tick.rules[id] = None
    BY <1>2, <2>1 DEF CreateArms, ReuseHazard, Ticking, Idle, NoRules, Stored, Ids
  <2> QED
    BY <2>1, <2>2 DEF Unclaimed
<1> HIDE DEF id, swept
<1>10. call'.step = "add" /\ call'.file = [swept EXCEPT ![id] = rule]
  BY <1>3
<1>11. id \in Ids
  BY <1>2 DEF Ids
<1>12. call'.file[id] = rule /\ \A i \in Ids : i # id => call'.file[i] = swept[i]
  BY <1>7, <1>10, <1>11
<1> QED
  BY <1>1, <1>2, <1>4, <1>5, <1>6, <1>8, <1>9, <1>10, <1>12

\* cancelRule and resumeRule rewrite one rule in place, or take it out.
LEMMA EditEffect ==
    ASSUME IInv, NEW id \in Ids, CancelReads(id) \/ ResumeReads(id)
    PROVE  /\ call = None /\ asked' = asked + 1 /\ asked < MaxCalls
           /\ call'.step = "edit"
           /\ \A i \in Ids : i # id => call'.file[i] = rules[i]
           /\ id \in SystemIds => /\ call'.file[id] \in Rules /\ BuiltIn(id, call'.file[id])
                                  /\ call'.file[id].of = id
           /\ id \notin SystemIds /\ call'.file[id] # None =>
                rules[id] # None /\ Alike(call'.file[id], rules[id])
           /\ call'.file[id] # None =>
                /\ call'.file[id].armedAt <= clock
                /\ call'.file[id].enabled => call'.file[id].armedAt = clock
           /\ UNCHANGED <<clock, log, shown, files, tick, kept>>
<1> USE DEF IInv
<1>1. call = None /\ asked < MaxCalls /\ asked' = asked + 1
  BY DEF CancelReads, ResumeReads, MayAsk, Free
<1>2. UNCHANGED <<clock, log, shown, files, tick, kept>>
  BY DEF CancelReads, ResumeReads
<1>3. clock \in Nat /\ clock \in Stamps
  BY BoundAssumption DEF TypeOK, Times, Stamps
<1>4. PICK rule : /\ rule \in {Cancelled(id), Resumed(id)}
                  /\ rule = Resumed(id) => rules[id] # None
                  /\ call' = [step |-> "edit", file |-> [rules EXCEPT ![id] = rule]]
  <2>1. CASE CancelReads(id)
    <3>1. call' = [step |-> "edit", file |-> [rules EXCEPT ![id] = Cancelled(id)]]
      BY <2>1 DEF CancelReads
    <3>2. Cancelled(id) = Resumed(id) => rules[id] # None
      <4>1. CASE id \in SystemIds
        <5>1. Cancelled(id).enabled = FALSE /\ Resumed(id).enabled = TRUE
          BY <4>1 DEF Cancelled, Resumed, SystemRule
        <5> QED
          BY <5>1
      <4>2. CASE id \notin SystemIds
        BY <2>1, <4>2 DEF CancelReads, Stored
      <4> QED
        BY <4>1, <4>2
    <3> QED
      BY <3>1, <3>2
  <2>2. CASE ResumeReads(id)
    BY <2>2 DEF ResumeReads, Stored
  <2> QED
    BY <2>1, <2>2
<1>5. rules \in [Ids -> Rules \cup {None}]
  BY DEF TypeOK, RuleFiles
<1>6. call'.file[id] = rule /\ \A i \in Ids : i # id => call'.file[i] = rules[i]
  BY <1>4, <1>5
<1>7. CASE id \in SystemIds
  <2>1. SystemRule(id) \in Rules
    BY <1>7, SystemRuleTyped
  <2>2. /\ SystemRule(id).of = id /\ SystemRule(id).kind = catalogue[id] /\ SystemRule(id).expiresAt = 0
        /\ SystemRule(id).armedAt = 0
    BY DEF SystemRule
  <2>3. /\ Cancelled(id) = [SystemRule(id) EXCEPT !.enabled = FALSE]
        /\ Resumed(id) = [SystemRule(id) EXCEPT !.armedAt = clock]
    BY <1>7 DEF Cancelled, Resumed
  <2>4. /\ rule \in Rules /\ rule.of = id /\ rule.kind = catalogue[id] /\ rule.expiresAt = 0
        /\ rule.armedAt \in {0, clock} /\ (rule.enabled => rule.armedAt = clock)
    <3>1. CASE rule = [SystemRule(id) EXCEPT !.enabled = FALSE]
      BY <1>3, <2>1, <2>2, <3>1 DEF Rules
    <3>2. CASE rule = [SystemRule(id) EXCEPT !.armedAt = clock]
      BY <1>3, <2>1, <2>2, <3>2 DEF Rules
    <3> QED
      BY <1>4, <2>3, <3>1, <3>2
  <2>5. BuiltIn(id, rule) /\ rule.armedAt <= clock
    BY <1>3, <2>4 DEF BuiltIn
  <2>6. call'.step = "edit"
    BY <1>4
  <2> QED
    BY <1>1, <1>2, <1>6, <1>7, <2>4, <2>5, <2>6
<1>8. CASE id \notin SystemIds
  <2>1. Cancelled(id) = None
    BY <1>8 DEF Cancelled
  <2>2. Resumed(id) = [rules[id] EXCEPT !.enabled = TRUE, !.armedAt = clock]
    BY <1>8 DEF Resumed
  <2>3. rule # None => /\ rules[id] # None /\ Alike(rule, rules[id])
                       /\ rule.armedAt = clock
    BY <1>4, <1>5, <2>1, <2>2 DEF Alike, Rules
  <2> QED
    BY <1>1, <1>2, <1>3, <1>4, <1>6, <1>8, <2>3
<1> QED
  BY <1>7, <1>8

-------------------------------------------------------------------------------
\* HomeInv is an invariant.

\* What is held stays whose it was.
LEMMA StillAtHome ==
    ASSUME TypeOK, Numbered, OneHome, \A i \in 1..MaxCalls : Born(i) => Born(i)',
           \A id \in UserIdSet : \A x \in Held(id)' : \E y \in Held(id) : x.of = y.of
    PROVE  /\ \A id \in UserIdSet : \A x \in Held(id)' : Born(x.of)'
           /\ \A id, other \in UserIdSet : \A x \in Held(id)', y \in Held(other)' : x.of = y.of => id = other
<1>1. ASSUME NEW id \in UserIdSet, NEW x \in Held(id)' PROVE Born(x.of)'
  <2>1. PICK y \in Held(id) : x.of = y.of
    BY <1>1
  <2>2. Born(y.of) /\ y.of \in 1..MaxCalls
    BY BoundAssumption DEF Numbered, Born, TypeOK
  <2> QED
    BY <2>1, <2>2
<1>2. ASSUME NEW id \in UserIdSet, NEW other \in UserIdSet,
             NEW x \in Held(id)', NEW y \in Held(other)', x.of = y.of
      PROVE  id = other
  <2>1. PICK u \in Held(id) : x.of = u.of
    BY <1>2
  <2>2. PICK v \in Held(other) : y.of = v.of
    BY <1>2
  <2> QED
    BY <1>2, <2>1, <2>2 DEF OneHome
<1> QED
  BY <1>1, <1>2

LEMMA HomeInit == Init => HomeInv
<1> SUFFICES ASSUME Init PROVE HomeInv
  OBVIOUS
<1>1. TypeOK /\ SystemOwn
  BY InitInvariant DEF IInv
<1>2. PICK muted \in SUBSET SystemIds : rules = [id \in Ids |-> IF id \in muted THEN Cancelled(id) ELSE None]
  BY DEF Init
<1>3. PICK l \in Lines \cup {None} : log = [t \in Times |-> IF t = clock THEN l ELSE None]
  BY DEF Init
<1>4. \A id \in UserIdSet : Held(id) = {}
  BY <1>2, IdAssumption DEF Init, Held, Idle, NoRules, Ids
<1>5. Numbered
  BY <1>4 DEF Numbered, Init, Silent, Incarnations
<1>6. OneHome
  BY <1>4 DEF OneHome, Init
<1>7. TickAlike /\ CallAlike /\ Newborn
  BY DEF TickAlike, CallAlike, Newborn, Init, Idle, NoRules
<1>8. BuiltInsStay
  <2> SUFFICES ASSUME NEW id \in SystemIds, rules[id] # None PROVE BuiltIn(id, rules[id])
    BY DEF BuiltInsStay, Init, Idle
  <2>1. rules[id] = Cancelled(id)
    BY <1>2 DEF Ids
  <2>2. rules[id] = [SystemRule(id) EXCEPT !.enabled = FALSE]
    BY <2>1 DEF Cancelled
  <2> QED
    BY <2>2 DEF BuiltIn, SystemRule
<1>9. Clocks
  <2>1. log[Epoch] = None
    BY <1>3, BoundAssumption DEF Times, Init, Epoch
  <2> QED
    BY <2>1, BoundAssumption DEF Clocks, Init, Idle, Times, Epoch
<1> QED
  BY <1>5, <1>6, <1>7, <1>8, <1>9 DEF HomeInv

LEMMA HomeRead ==
    ASSUME IInv, HomeInv, TickRead \/ TickReadBusy PROVE HomeInv'
<1> USE DEF HomeInv, files, kept, history
<1>1. /\ tick'.now = clock
      /\ \A id \in UserIdSet : /\ tick'.rules[id] \in {rules[id], None}
                               /\ ~tick'.degraded => tick'.rules[id] = rules[id]
      /\ \A id \in SystemIds : /\ tick'.rules[id] \in {rules[id], SystemRule(id)} \ {None}
                               /\ rules[id] = None => tick'.rules[id] = SystemRule(id)
      /\ UNCHANGED <<clock, log, shown, files, call, asked, kept>>
  BY ReadEffect
<1>2. Numbered' /\ OneHome'
  <2>1. \A id \in UserIdSet : \A x \in Held(id)' : \E y \in Held(id) : x.of = y.of
    BY <1>1 DEF Held
  <2>2. \A i \in 1..MaxCalls : (Born(i) <=> Born(i)') /\ (Silent(i) => Silent(i)')
    BY <1>1 DEF Born, Silent
  <2>3. /\ \A id \in UserIdSet : \A x \in Held(id)' : Born(x.of)'
        /\ \A id, other \in UserIdSet : \A x \in Held(id)', y \in Held(other)' : x.of = y.of => id = other
    BY <2>1, <2>2, StillAtHome DEF IInv
  <2>4. Numbered'
    BY <2>2, <2>3 DEF Numbered
  <2>5. OneHome'
    BY <1>1, <2>3 DEF OneHome
  <2> QED
    BY <2>4, <2>5
<1>3. \A id \in SystemIds : BuiltIn(id, tick'.rules[id]) /\ tick'.rules[id].of = id
  <2> SUFFICES ASSUME NEW id \in SystemIds PROVE BuiltIn(id, tick'.rules[id]) /\ tick'.rules[id].of = id
    OBVIOUS
  <2>1. CASE tick'.rules[id] = SystemRule(id)
    BY <2>1 DEF BuiltIn, SystemRule
  <2>2. CASE tick'.rules[id] = rules[id] /\ rules[id] # None
    BY <2>2 DEF BuiltInsStay, IInv, SystemOwn
  <2> QED
    BY <1>1, <2>1, <2>2
<1>4. TickAlike'
  <2> SUFFICES ASSUME NEW id \in Ids, tick'.rules[id] # None
               PROVE  /\ rules[id] # None => Alike(tick'.rules[id], rules[id])
                      /\ runtime[id] # None => runtime[id].of = tick'.rules[id].of
    BY <1>1 DEF TickAlike, Alike
  <2>1. CASE id \in UserIdSet
    BY <1>1, <2>1 DEF Alike, IInv, NoInheritance, Stored
  <2>2. CASE id \in SystemIds
    BY <1>3, <2>2 DEF Alike, BuiltIn, IInv, SystemOwn, BuiltInsStay
  <2> QED
    BY <2>1, <2>2 DEF Ids
<1>5. CallAlike'
  BY <1>1 DEF CallAlike, Unclaimed, Alike
<1>6. BuiltInsStay'
  <2>1. clock > 0
    BY DEF IInv, TypeOK, Times
  <2> QED
    BY <1>1, <1>3, <2>1 DEF BuiltInsStay, BuiltIn, SystemRule
<1>7. Newborn'
  BY <1>1 DEF Newborn, Silent
<1>8. Clocks'
  <2>1. clock > 0 /\ clock \in Nat
    BY DEF IInv, TypeOK, Times
  <2> QED
    BY <1>1, <2>1 DEF Clocks
<1> QED
  BY <1>2, <1>4, <1>5, <1>6, <1>7, <1>8

LEMMA HomeEvaluate ==
    ASSUME IInv, HomeInv, NEW lines, lines \subseteq Times, Whole(lines), Evaluate(lines) PROVE HomeInv'
<1> USE DEF HomeInv
<1>1. /\ UNCHANGED <<clock, log, shown, rules, call, asked, catalogue>> /\ tick' = Idle
      /\ Ticking /\ levelsAt' \in {levelsAt, tick.now}
  BY DEF Evaluate
<1>2. tick'.now = 0 /\ \A id \in Ids : tick'.rules[id] = None
  BY <1>1 DEF Idle, NoRules
<1>3. tick.now > 0 /\ tick.now \in Nat
  BY <1>1, BoundAssumption DEF Clocks, Ticking, IInv, TypeOK, Stamps
\* Each runtime that is left is of a rule in the tick, or as it was.
<1>4. ASSUME NEW id \in Ids, tick.rules[id] # None
      PROVE  /\ runtime'[id] # None /\ runtime'[id].watermark <= clock
             /\ runtime'[id].of = tick.rules[id].of
  <2> DEFINE r == tick.rules[id]
             prev == Previous(id, r)
             res == EvaluateRule(id, r, lines, tick.now)
  <2>1. r \in Rules /\ res \in Results /\ runtime'[id] = res.next
    BY <1>4, EvaluateEffect
  <2>2. /\ prev \in Runtimes /\ prev.of = r.of /\ prev.watermark <= clock
        /\ res.next.of = r.of /\ Outcome(r, prev, res, lines, tick.now)
    BY <1>4, TickOutcome
  <2>3. res.next # None
    BY <2>1, NoneAssumption DEF Results
  <2> HIDE DEF res, prev
  <2>4. res.next.watermark <= clock
    BY <2>2 DEF Outcome, EventsOf
  <2> QED
    BY <2>1, <2>2, <2>3, <2>4
<1>5. ASSUME NEW id \in Ids, tick.rules[id] = None
      PROVE  runtime'[id] \in {runtime[id], None}
  BY <1>5, EvaluatePrunes DEF IInv
<1>6. Numbered' /\ OneHome'
  <2>1. \A id \in UserIdSet : \A x \in Held(id)' : \E y \in Held(id) : x.of = y.of
    <3> SUFFICES ASSUME NEW id \in UserIdSet, NEW x \in Held(id)' PROVE \E y \in Held(id) : x.of = y.of
      OBVIOUS
    <3>1. id \in Ids
      BY DEF Ids
    <3>2. x # None /\ (x = rules[id] \/ x = runtime'[id])
      BY <1>1, <1>2, <3>1 DEF Held
    <3>3. CASE x = rules[id]
      BY <3>2, <3>3 DEF Held
    <3>4. CASE x = runtime'[id]
      BY <1>4, <1>5, <3>1, <3>2, <3>4 DEF Held
    <3> QED
      BY <3>2, <3>3, <3>4
  <2>2. \A i \in 1..MaxCalls : Born(i) <=> Born(i)'
    BY <1>1 DEF Born
  <2>3. /\ \A id \in UserIdSet : \A x \in Held(id)' : Born(x.of)'
        /\ \A id, other \in UserIdSet : \A x \in Held(id)', y \in Held(other)' : x.of = y.of => id = other
    BY <2>1, <2>2, StillAtHome DEF IInv
  <2>4. ASSUME NEW i \in 1..MaxCalls, ~Born(i)' PROVE Silent(i)'
    <3>1. Silent(i) /\ i \in Incarnations
      BY <2>2, <2>4 DEF Numbered, Incarnations
    <3>2. \A id \in Ids : tick.rules[id] # None => tick.rules[id].of # i
      <4> SUFFICES ASSUME NEW id \in Ids, tick.rules[id] # None, tick.rules[id].of = i PROVE FALSE
        OBVIOUS
      <4>1. CASE id \in UserIdSet
        <5>1. tick.rules[id] \in Held(id)
          BY DEF Held
        <5> QED
          BY <2>2, <2>4, <4>1, <5>1 DEF Numbered
      <4>2. CASE id \in SystemIds
        BY <4>2, IdAssumption DEF IInv, SystemOwn
      <4> QED
        BY <4>1, <4>2 DEF Ids
    <3> QED
      BY <3>1, <3>2, EvaluateLeaves DEF Silent, IInv
  <2>5. Numbered'
    BY <2>3, <2>4 DEF Numbered
  <2>6. OneHome'
    BY <1>1, <2>3 DEF OneHome
  <2> QED
    BY <2>5, <2>6
<1>7. TickAlike' /\ Newborn'
  BY <1>2 DEF TickAlike, Newborn
<1>8. CallAlike'
  <2>1. \A id \in UserIdSet : Unclaimed(id) => Unclaimed(id)'
    BY <1>1, <1>2, <1>5 DEF Unclaimed, Ids
  <2> QED
    BY <1>1, <2>1 DEF CallAlike, Alike
<1>9. BuiltInsStay'
  <2>1. \A id \in SystemIds : runtime'[id] # None
    BY <1>3, <1>4 DEF BuiltInsStay, Ids
  <2> QED
    BY <1>1, <1>2, <2>1 DEF BuiltInsStay, BuiltIn
<1>10. Clocks'
  <2>1. \A id \in Ids : runtime'[id] # None => runtime'[id].watermark <= clock
    BY <1>4, <1>5 DEF Clocks
  <2>2. levelsAt' <= clock
    BY <1>1 DEF Clocks
  <2>3. 0 <= clock
    BY DEF IInv, TypeOK, Times
  <2> QED
    BY <1>1, <1>2, <2>1, <2>2, <2>3 DEF Clocks
<1> QED
  BY <1>6, <1>7, <1>8, <1>9, <1>10

\* A tick or a call that fails, and the board.
LEMMA HomeFail ==
    ASSUME IInv, HomeInv, TickFails \/ CallFails \/ Advance \/ Push \/ UNCHANGED vars PROVE HomeInv'
<1> USE DEF HomeInv, files, kept, history
<1>1. CASE TickFails
  <2>1. tick' = Idle /\ UNCHANGED <<clock, log, shown, files, call, asked, kept>>
    BY <1>1 DEF TickFails
  <2>2. tick'.now = 0 /\ \A id \in Ids : tick'.rules[id] = None
    BY <2>1 DEF Idle, NoRules
  <2>3. \A id \in UserIdSet : id \in Ids /\ Held(id)' \subseteq Held(id)
    BY <2>1, <2>2 DEF Held, Ids
  <2>4. Numbered'
    BY <2>1, <2>3 DEF Numbered, Born, Silent
  <2>5. OneHome'
    BY <2>1, <2>3 DEF OneHome
  <2>6. TickAlike' /\ Newborn' /\ BuiltInsStay'
    BY <2>1, <2>2 DEF TickAlike, Newborn, BuiltInsStay, BuiltIn
  <2>7. CallAlike'
    BY <2>1, <2>2, <2>3 DEF CallAlike, Alike, Unclaimed
  <2>8. 0 <= clock
    BY DEF IInv, TypeOK, Times
  <2>9. Clocks'
    BY <2>1, <2>2, <2>8 DEF Clocks
  <2> QED
    BY <2>4, <2>5, <2>6, <2>7, <2>9
<1>2. CASE CallFails
  <2>1. call # None /\ call' = None /\ asked' = asked - 1 /\ UNCHANGED <<clock, log, shown, files, tick, kept>>
    BY <1>2 DEF CallFails, Free
  <2>2. asked \in Int
    BY DEF IInv, TypeOK
  <2>3. \A i : Born(i) <=> Born(i)'
    BY <2>1, <2>2 DEF Born
  <2>4. \A id \in UserIdSet : Held(id)' = Held(id)
    BY <2>1 DEF Held
  <2>5. Numbered' /\ OneHome'
    BY <2>1, <2>3, <2>4 DEF Numbered, OneHome, Silent
  <2>6. TickAlike' /\ CallAlike' /\ BuiltInsStay' /\ Newborn' /\ Clocks'
    BY <2>1 DEF TickAlike, CallAlike, BuiltInsStay, Newborn, Clocks, Alike, BuiltIn, SystemRule, Silent
  <2> QED
    BY <2>5, <2>6
<1>3. CASE Advance
  <2>1. /\ clock' = clock + 1 /\ clock \in Nat /\ clock + 1 \in Times
        /\ UNCHANGED <<shown, files, call, tick, asked, kept>>
    BY <1>3, BoundAssumption DEF Advance, IInv, TypeOK, Times
  <2>2. log'[Epoch] = None
    <3>1. PICK l \in Lines \cup {None} : log' = [log EXCEPT ![clock + 1] = l]
      BY <1>3 DEF Advance
    <3>2. Epoch \in Times /\ clock + 1 # Epoch
      BY BoundAssumption DEF IInv, TypeOK, Times, Epoch
    <3>3. log'[Epoch] = log[Epoch]
      BY <3>1, <3>2 DEF IInv, TypeOK
    <3> QED
      BY <3>3 DEF Clocks
  <2>3. Numbered' /\ OneHome' /\ TickAlike' /\ CallAlike' /\ BuiltInsStay' /\ Newborn'
    BY <2>1 DEF Numbered, OneHome, TickAlike, CallAlike, BuiltInsStay, Newborn, Alike, BuiltIn, SystemRule,
                Silent, Born, Held, Unclaimed
  <2>4. /\ shown \in Int /\ levelsAt \in Int /\ tick.now \in Int
        /\ \A id \in Ids : runtime[id] # None => runtime[id].watermark \in Int
    BY BoundAssumption DEF IInv, TypeOK, Stamps, Runtimes
  <2>5. Clocks'
    BY <2>1, <2>2, <2>4 DEF Clocks
  <2> QED
    BY <2>3, <2>5
<1>4. CASE Push
  <2>1. shown' \in 0..clock /\ UNCHANGED <<clock, log, files, call, tick, asked, kept>>
    BY <1>4 DEF Push
  <2>2. Numbered' /\ OneHome' /\ TickAlike' /\ CallAlike' /\ BuiltInsStay' /\ Newborn'
    BY <2>1 DEF Numbered, OneHome, TickAlike, CallAlike, BuiltInsStay, Newborn, Alike, BuiltIn, SystemRule,
                Silent, Born, Held, Unclaimed
  <2>3. shown \in Int /\ clock \in Int /\ \A id \in Ids : runtime[id] # None => runtime[id].watermark \in Int
    BY BoundAssumption DEF IInv, TypeOK, Stamps, Times, Runtimes
  <2>4. Clocks'
    BY <2>1, <2>3 DEF Clocks
  <2> QED
    BY <2>2, <2>4
<1>5. CASE UNCHANGED vars
  BY <1>5 DEF vars, Numbered, OneHome, TickAlike, CallAlike, BuiltInsStay, Newborn, Clocks, Alike, BuiltIn,
              SystemRule, Silent, Born, Held, Unclaimed
<1> QED
  BY <1>1, <1>2, <1>3, <1>4, <1>5

LEMMA HomeCreateReads ==
    ASSUME IInv, HomeInv, CreateReads PROVE HomeInv'
<1> USE DEF HomeInv, files, kept, history
<1>1. /\ call = None /\ call' = [step |-> "create", file |-> rules] /\ asked' = asked + 1
      /\ UNCHANGED <<clock, log, shown, files, tick, kept>>
  BY DEF CreateReads, MayAsk, Free
<1>2. asked \in Int
  BY DEF IInv, TypeOK
<1>3. \A i : Born(i) => Born(i)'
  BY <1>1, <1>2 DEF Born
<1>4. \A id \in UserIdSet : Held(id)' = Held(id) /\ id \in Ids
  BY <1>1 DEF Held, Ids
<1>5. Numbered'
  BY <1>1, <1>3, <1>4 DEF Numbered, Silent
<1>6. OneHome'
  <2>1. \A id \in UserIdSet : rules[id] # None => rules[id] \in Held(id)
    BY DEF Held
  <2> QED
    BY <1>1, <1>4, <2>1 DEF OneHome
<1>7. CallAlike'
  BY <1>1 DEF CallAlike, Alike
<1>8. TickAlike' /\ BuiltInsStay' /\ Newborn' /\ Clocks'
  BY <1>1 DEF TickAlike, BuiltInsStay, Newborn, Clocks, Alike, BuiltIn, SystemRule, Silent
<1> QED
  BY <1>5, <1>6, <1>7, <1>8

LEMMA HomeCreateArms ==
    ASSUME ~ReuseInTick, IInv, HomeInv, CreateArms PROVE HomeInv'
<1> USE DEF HomeInv, files, kept, history
<1>1. /\ call # None /\ call.file = rules
      /\ UNCHANGED <<clock, log, shown, files, tick, asked, kept>>
  BY ArmEffect
<1>2. PICK new \in UserIdSet :
        /\ Unclaimed(new)
        /\ call'.file[new] \in Rules /\ call'.file[new].of = asked
        /\ \A i \in Ids : i # new =>
             \/ call'.file[i] = rules[i]
             \/ call'.file[i] = None /\ i \notin SystemIds
  BY ArmEffect
<1>3. \A i : Born(i) => Born(i)' /\ i # asked
  BY <1>1 DEF Born, IInv, TypeOK
<1>4. \A id \in UserIdSet : Held(id)' = Held(id) /\ id \in Ids /\ id \notin SystemIds
  BY <1>1, IdAssumption DEF Held, Ids
<1>5. Numbered'
  BY <1>1, <1>3, <1>4 DEF Numbered, Silent
<1>6. OneHome'
  <2>1. \A id \in UserIdSet : rules[id] # None => rules[id] \in Held(id) /\ rules[id].of # asked
    BY <1>3 DEF Held, Numbered
  <2>2. ASSUME NEW id \in UserIdSet, NEW other \in UserIdSet, call'.file[id] # None, call'.file[other] # None,
               call'.file[id].of = call'.file[other].of
        PROVE  id = other
    <3>1. CASE id = new \/ other = new
      BY <1>2, <1>4, <2>1, <2>2, <3>1
    <3>2. CASE id # new /\ other # new
      BY <1>2, <1>4, <2>1, <2>2, <3>2 DEF OneHome
    <3> QED
      BY <3>1, <3>2
  <2> QED
    BY <1>4, <2>2 DEF OneHome
<1>7. CallAlike'
  <2> SUFFICES ASSUME NEW id \in UserIdSet, call'.file[id] # None
               PROVE  \/ rules[id] # None /\ Alike(call'.file[id], rules[id])
                      \/ Unclaimed(id) /\ call'.file[id].of = asked
    BY <1>1 DEF CallAlike, Alike, Unclaimed
  <2> QED
    BY <1>2, <1>4 DEF Alike
<1>8. BuiltInsStay'
  <2>1. \A id \in SystemIds : call'.file[id] = rules[id]
    BY <1>2, <1>4 DEF Ids
  <2> QED
    BY <1>1, <2>1 DEF BuiltInsStay, BuiltIn, SystemRule
<1>9. TickAlike' /\ Newborn' /\ Clocks'
  BY <1>1 DEF TickAlike, Newborn, Clocks, Alike, Silent
<1> QED
  BY <1>5, <1>6, <1>7, <1>8, <1>9

LEMMA HomeEdit ==
    ASSUME IInv, HomeInv, NEW id \in Ids, CancelReads(id) \/ ResumeReads(id) PROVE HomeInv'
<1> USE DEF HomeInv, files, kept, history
<1>1. /\ call = None /\ asked' = asked + 1
      /\ \A i \in Ids : i # id => call'.file[i] = rules[i]
      /\ id \in SystemIds => /\ call'.file[id] \in Rules /\ BuiltIn(id, call'.file[id])
      /\ id \notin SystemIds /\ call'.file[id] # None =>
           rules[id] # None /\ Alike(call'.file[id], rules[id])
      /\ UNCHANGED <<clock, log, shown, files, tick, kept>>
  BY EditEffect
<1>2. asked \in Int
  BY DEF IInv, TypeOK
<1>3. \A i : Born(i) => Born(i)'
  BY <1>1, <1>2 DEF Born
<1>4. \A i \in UserIdSet : Held(i)' = Held(i) /\ i \in Ids /\ i \notin SystemIds
  BY <1>1, IdAssumption DEF Held, Ids
<1>5. Numbered'
  BY <1>1, <1>3, <1>4 DEF Numbered, Silent
<1>6. \A i \in UserIdSet : call'.file[i] # None => rules[i] # None /\ Alike(call'.file[i], rules[i])
  BY <1>1, <1>4 DEF Alike
<1>7. OneHome'
  <2>1. \A i \in UserIdSet : rules[i] # None => rules[i] \in Held(i)
    BY DEF Held
  <2> QED
    BY <1>4, <1>6, <2>1 DEF OneHome, Alike
<1>8. CallAlike'
  BY <1>1, <1>6 DEF CallAlike, Alike
<1>9. BuiltInsStay'
  <2>1. \A i \in SystemIds : /\ call'.file[i] # None => BuiltIn(i, call'.file[i])
                             /\ rules[i] # None => call'.file[i] # None
    BY <1>1, NoneAssumption DEF BuiltInsStay, BuiltIn, Ids
  <2> QED
    BY <1>1, <2>1 DEF BuiltInsStay, BuiltIn, SystemRule
<1>10. TickAlike' /\ Newborn' /\ Clocks'
  BY <1>1 DEF TickAlike, Newborn, Clocks, Alike, Silent
<1> QED
  BY <1>5, <1>7, <1>8, <1>9, <1>10

LEMMA HomeWrite ==
    ASSUME IInv, HomeInv, CallWrites PROVE HomeInv'
<1> USE DEF HomeInv, files, kept, history
<1>1. /\ call # None /\ call' = None /\ rules' = call.file
      /\ UNCHANGED <<clock, log, shown, runtime, levelsAt, tick, asked, kept>>
  BY DEF CallWrites, Free
<1>2. asked \in Nat /\ asked >= 1 /\ asked \in 1..MaxCalls
  BY <1>1, BoundAssumption DEF IInv, TypeOK, Counted
<1>3. \A i : /\ Born(i) => Born(i)' /\ i # asked
             /\ ~Born(i)' => ~Born(i)
  BY <1>1, <1>2 DEF Born
<1>4. Born(asked)'
  BY <1>1, <1>2 DEF Born
<1>5. Silent(asked) /\ \A i : Silent(i) <=> Silent(i)'
  BY <1>1, <1>2, <1>3 DEF Numbered, Silent
\* What is written is the rule that was there, or the new one.
<1>6. \A id \in UserIdSet : \A x \in Held(id)' :
        \/ \E y \in Held(id) : x.of = y.of
        \/ Unclaimed(id) /\ x = call.file[id] /\ x # None /\ x.of = asked
  <2> SUFFICES ASSUME NEW id \in UserIdSet, NEW x \in Held(id)'
               PROVE  \/ \E y \in Held(id) : x.of = y.of
                      \/ Unclaimed(id) /\ x = call.file[id] /\ x # None /\ x.of = asked
    OBVIOUS
  <2>1. x # None /\ x \in {call.file[id], tick.rules[id], runtime[id]}
    BY <1>1 DEF Held
  <2>2. CASE x = call.file[id]
    <3>1. CASE rules[id] # None /\ Alike(call.file[id], rules[id])
      <4>1. rules[id] \in Held(id) /\ x.of = rules[id].of
        BY <2>2, <3>1 DEF Held, Alike
      <4> QED
        BY <4>1
    <3> QED
      BY <1>1, <2>1, <2>2, <3>1 DEF CallAlike
  <2>3. CASE x \in {tick.rules[id], runtime[id]}
    BY <2>1, <2>3 DEF Held
  <2> QED
    BY <2>1, <2>2, <2>3
<1>7. ASSUME NEW id \in UserIdSet, NEW x \in Held(id)' PROVE Born(x.of)'
  <2>1. CASE \E y \in Held(id) : x.of = y.of
    BY <1>3, <2>1 DEF Numbered
  <2>2. CASE x.of = asked
    BY <1>1, <1>4, <2>2
  <2> QED
    BY <1>6, <1>7, <2>1, <2>2
<1>8. Numbered'
  BY <1>3, <1>5, <1>7 DEF Numbered
<1>9. ASSUME NEW id \in UserIdSet, NEW other \in UserIdSet, NEW x \in Held(id)', NEW y \in Held(other)', x.of = y.of
      PROVE  id = other
  <2>1. \A u \in UserIdSet : \A z \in Held(u) : z.of # asked
    BY <1>3 DEF Numbered
  <2>2. CASE x.of = asked
    <3>1. ~(\E z \in Held(id) : x.of = z.of) /\ ~(\E z \in Held(other) : y.of = z.of)
      BY <1>9, <2>1, <2>2
    <3>2. x = call.file[id] /\ x # None /\ y = call.file[other] /\ y # None
      BY <1>6, <1>9, <3>1
    <3> QED
      BY <1>1, <1>9, <3>2 DEF OneHome
  <2>3. CASE x.of # asked
    <3>1. PICK u \in Held(id) : x.of = u.of
      BY <1>6, <1>9, <2>3
    <3>2. PICK v \in Held(other) : y.of = v.of
      BY <1>6, <1>9, <2>3
    <3> QED
      BY <1>9, <3>1, <3>2 DEF OneHome
  <2> QED
    BY <2>2, <2>3
<1>10. OneHome'
  BY <1>1, <1>9 DEF OneHome
<1>11. TickAlike'
  <2> SUFFICES ASSUME NEW id \in Ids, tick.rules[id] # None, call.file[id] # None
               PROVE  Alike(tick.rules[id], call.file[id])
    BY <1>1 DEF TickAlike, Alike
  <2>1. CASE id \in UserIdSet
    BY <1>1, <2>1 DEF CallAlike, TickAlike, Alike, Unclaimed
  <2>2. CASE id \in SystemIds
    <3>1. tick.now > 0
      <4>1. tick.now # 0
        BY DEF Clocks, Idle, NoRules
      <4>2. tick.now \in Nat
        BY BoundAssumption DEF IInv, TypeOK, Stamps
      <4> QED
        BY <4>1, <4>2
    <3>2. BuiltIn(id, tick.rules[id]) /\ BuiltIn(id, call.file[id])
      BY <1>1, <2>2, <3>1 DEF BuiltInsStay
    <3>3. tick.rules[id].of = id /\ call.file[id].of = id
      BY <1>1, <2>2 DEF IInv, SystemOwn
    <3> QED
      BY <3>2, <3>3 DEF Alike, BuiltIn
  <2> QED
    BY <2>1, <2>2 DEF Ids
<1>12. BuiltInsStay'
  BY <1>1 DEF BuiltInsStay, BuiltIn, SystemRule
<1>13. Newborn'
  BY <1>1, <1>5 DEF Newborn, CallAlike, Alike, Unclaimed, Silent
<1>14. CallAlike' /\ Clocks'
  BY <1>1 DEF CallAlike, Clocks
<1> QED
  BY <1>8, <1>10, <1>11, <1>12, <1>13, <1>14

LEMMA HomeStep ==
    ASSUME ~ReuseInTick, IInv, HomeInv, [Next]_vars PROVE HomeInv'
<1>1. CASE TickEvaluate \/ TickEvaluateBlind
  BY <1>1, EvaluateLines, HomeEvaluate
<1> QED
  BY <1>1, HomeRead, HomeFail, HomeCreateReads, HomeCreateArms, HomeEdit, HomeWrite DEF Next, Tick, Call

-------------------------------------------------------------------------------
\* SaidInv is an invariant: what was said is remembered for as long as it could be
\* said again.

LEMMA FollowedAlike ==
    ASSUME NEW r, NEW s, r.of = s.of, r.expiresAt = s.expiresAt, s.expiresAt \in Nat,
           NEW run, NEW now \in Nat, NEW later \in Nat, now <= later, Followed(r, run, now)
    PROVE  Followed(s, run, later)
BY DEF Followed, Expired

LEMMA SaidInit == Init => SaidInv
<1> SUFFICES ASSUME Init PROVE SaidInv
  OBVIOUS
<1>1. /\ \A i \in Incarnations : notices[i] = 0 /\ alerts[i] = "never" /\ \A t \in Times : reports[i][t] = "never"
      /\ \A id \in Ids : runtime[id] = None /\ tick.rules[id] = None
      /\ call = None
  BY DEF Init, Idle, NoRules
<1>2. \A id \in Ids : rules[id] # None => rules[id].of \in Incarnations
  BY InitInvariant DEF IInv, TypeOK, RuleFiles, Rules
<1>3. \A id \in SystemIds : SystemRule(id).of = id /\ id \in Incarnations /\ id \in Ids
  BY DEF SystemRule, Incarnations, Ids
<1>4. ExpiryAnnounced /\ NoEventTwice
  BY <1>1 DEF ExpiryAnnounced, NoEventTwice, Free
<1> QED
  BY <1>1, <1>2, <1>3, <1>4 DEF SaidInv, Followed

LEMMA SaidRead ==
    ASSUME IInv, HomeInv, SaidInv, TickRead \/ TickReadBusy PROVE SaidInv'
<1> USE DEF files, kept, history
<1>1. /\ tick'.now = clock
      /\ \A id \in UserIdSet : tick'.rules[id] \in {rules[id], None}
      /\ \A id \in SystemIds : tick'.rules[id] \in {rules[id], SystemRule(id)} \ {None}
      /\ UNCHANGED <<clock, log, shown, files, call, asked, kept>>
  BY ReadEffect
<1>2. ASSUME NEW id \in Ids, tick'.rules[id] # None
      PROVE  Followed(tick'.rules[id], runtime[id], clock)
  <2>1. CASE tick'.rules[id] = rules[id]
    BY <1>2, <2>1 DEF SaidInv
  <2>2. CASE tick'.rules[id] = SystemRule(id) /\ id \in SystemIds
    BY <2>2 DEF SaidInv
  <2> QED
    BY <1>1, <1>2, <2>1, <2>2 DEF Ids
<1> QED
  BY <1>1, <1>2 DEF SaidInv, Followed, ExpiryAnnounced, NoEventTwice, Free, Stored, SystemRule

\* What a tick says for the rule under id.
LEMMA SaidOnce ==
    ASSUME IInv, HomeInv, SaidInv, NEW lines, lines \subseteq Times, Whole(lines), Evaluate(lines),
           NEW id \in Ids, tick.rules[id] # None
    PROVE  LET r == tick.rules[id]
           IN  /\ notices'[r.of] <= 1 /\ notices[r.of] <= notices'[r.of]
               /\ \A t \in Times : reports'[r.of][t] # "twice"
               /\ runtime'[id] # None /\ runtime'[id].of = r.of
               /\ notices'[r.of] > 0 <=> runtime'[id].expiredNotified
               /\ \A t \in Times : reports'[r.of][t] = "told" =>
                    t <= runtime'[id].watermark \/ runtime'[id].expiredNotified
               /\ runtime'[id].expiredNotified => Expired(r, tick.now)
<1> DEFINE r == tick.rules[id]
           prev == Previous(id, r)
           res == EvaluateRule(id, r, lines, tick.now)
<1>1. /\ r \in Rules /\ res \in Results
      /\ runtime'[id] = res.next
      /\ notices'[r.of] = IF res.notice THEN Min({2, notices[r.of] + 1}) ELSE notices[r.of]
      /\ \A t \in Times : reports'[r.of][t] =
           After(reports[r.of][t], t \in res.events, r.enabled /\ EndsBefore(lines, t))
  BY EvaluateEffect
<1>2. /\ prev \in Runtimes /\ prev.of = r.of /\ prev.watermark <= clock
      /\ res.next.of = r.of /\ Outcome(r, prev, res, lines, tick.now)
  BY TickOutcome
<1>3. /\ runtime[id] # None => prev = runtime[id]
      /\ runtime[id] = None => prev = Fresh(r)
  BY <1>1, PreviousTyped DEF IInv
<1>4. prev.of = r.of
  BY <1>2
<1>5. Followed(r, runtime[id], tick.now)
  BY DEF SaidInv
<1>6. r.of \in Incarnations /\ notices[r.of] \in 0..2 /\ \A t \in Times : reports[r.of][t] \in Tellings
  BY <1>1 DEF Rules, IInv, TypeOK
<1>7. prev.expiredNotified => runtime[id] # None /\ prev = runtime[id]
  BY <1>3 DEF Fresh
<1>8. runtime[id] # None /\ runtime[id].expiredNotified => notices[r.of] > 0
  BY <1>2, <1>3 DEF SaidInv
<1> HIDE DEF r, prev, res
<1>9. res.next # None /\ res.next \in Runtimes
  BY <1>1, NoneAssumption DEF Results
<1>10. prev.watermark \in Nat /\ res.next.watermark \in Nat /\ \A t \in Times : t \in Nat
  BY <1>2, <1>9, BoundAssumption DEF Runtimes, Stamps, Times
<1>11. /\ res.notice => ~prev.expiredNotified /\ Expired(r, tick.now)
       /\ res.next.expiredNotified <=> prev.expiredNotified \/ res.notice
  BY <1>2 DEF Outcome, NoticeOf
<1>12. /\ \A t \in res.events : prev.watermark < t /\ (Expired(r, tick.now) => ~prev.expiredNotified)
       /\ \A t \in Times : t \in res.events \/ t <= prev.watermark =>
            t <= res.next.watermark \/ res.notice \/ (r.enabled /\ EndsBefore(lines, t))
  BY <1>2 DEF Outcome, EventsOf
<1>13. notices[r.of] > 0 <=> prev.expiredNotified
  BY <1>3, <1>5, <1>7, <1>8 DEF Followed
<1>14. notices[r.of] <= 1 /\ \A t \in Times : reports[r.of][t] # "twice"
  BY <1>6 DEF SaidInv, ExpiryAnnounced, NoEventTwice
<1>15. /\ notices'[r.of] <= 1 /\ notices[r.of] <= notices'[r.of]
       /\ notices'[r.of] > 0 <=> res.next.expiredNotified
  <2>1. CASE res.notice
    <3>1. notices[r.of] = 0
      BY <1>6, <1>11, <1>13, <2>1
    <3>2. notices'[r.of] = 1
      BY <1>1, <1>6, <2>1, <3>1, OneMore
    <3> QED
      BY <1>11, <2>1, <3>1, <3>2
  <2>2. CASE ~res.notice
    BY <1>1, <1>6, <1>11, <1>13, <1>14, <2>2
  <2> QED
    BY <2>1, <2>2
<1>16. ASSUME NEW t \in Times
       PROVE  /\ reports'[r.of][t] # "twice"
              /\ reports'[r.of][t] = "told" => t <= res.next.watermark \/ res.next.expiredNotified
  <2>1. reports[r.of][t] = "told" =>
          prev = runtime[id] /\ (t <= prev.watermark \/ (prev.expiredNotified /\ Expired(r, tick.now)))
    BY <1>3, <1>5 DEF Followed
  <2>2. PICK past \in Tellings : past = reports[r.of][t] /\ past # "twice"
    BY <1>6, <1>14
  <2>3. PICK said \in BOOLEAN : said <=> t \in res.events
    OBVIOUS
  <2>4. PICK reason \in BOOLEAN : reason <=> r.enabled /\ EndsBefore(lines, t)
    OBVIOUS
  <2>5. reports'[r.of][t] = After(past, said, reason)
    <3>1. reports'[r.of][t] = After(reports[r.of][t], t \in res.events, r.enabled /\ EndsBefore(lines, t))
      BY <1>1
    <3> QED
      BY <2>2, <2>3, <2>4, <3>1 DEF After
  <2>6. said /\ past = "told" => FALSE
    BY <1>10, <1>12, <2>1, <2>2, <2>3
  <2>7. ~reason /\ (said \/ past = "told") => t <= res.next.watermark \/ res.next.expiredNotified
    BY <1>11, <1>12, <2>1, <2>2, <2>3, <2>4
  <2> QED
    BY <2>2, <2>5, <2>6, <2>7, AfterIs
<1>17. res.next.expiredNotified => Expired(r, tick.now)
  BY <1>5, <1>7, <1>11 DEF Followed
<1> QED
  BY <1>1, <1>2, <1>4, <1>9, <1>15, <1>16, <1>17 DEF r

LEMMA SaidEvaluate ==
    ASSUME IInv, HomeInv, SaidInv, NEW lines, lines \subseteq Times, Whole(lines), Evaluate(lines)
    PROVE  SaidInv'
<1>1. UNCHANGED <<clock, log, shown, rules, call, asked, catalogue>> /\ tick' = Idle /\ Ticking
  BY DEF Evaluate
<1>2. \A id \in Ids : tick'.rules[id] = None
  BY <1>1 DEF Idle, NoRules
<1>3. tick.now > 0 /\ tick.now \in Nat /\ clock \in Nat /\ tick.now <= clock
  BY <1>1, BoundAssumption DEF HomeInv, Clocks, Ticking, IInv, TypeOK, Stamps, Times
\* Of a rule the tick does not hold nothing is said, and only a runtime that says
\* nothing of it either is dropped.
<1>4. ASSUME NEW id \in Ids, tick.rules[id] = None, NEW x \in Held(id), x.of \in Incarnations
      PROVE  /\ notices'[x.of] = notices[x.of] /\ alerts'[x.of] = alerts[x.of]
             /\ \A t \in Times : reports'[x.of][t] = reports[x.of][t]
  <2>1. \A other \in Ids : tick.rules[other] # None => tick.rules[other].of # x.of
    <3> SUFFICES ASSUME NEW other \in Ids, tick.rules[other] # None, tick.rules[other].of = x.of PROVE FALSE
      OBVIOUS
    <3>1. tick.rules[other] \in Held(other)
      BY DEF Held
    <3>2. other = id
      BY <3>1, HomeIsOne
    <3> QED
      BY <1>4, <3>2
  <2> QED
    BY <1>4, <2>1, EvaluateLeaves DEF IInv
<1>5. ASSUME NEW id \in Ids, tick.rules[id] = None
      PROVE  runtime'[id] = IF tick.degraded THEN runtime[id] ELSE None
  BY <1>5, EvaluatePrunes DEF IInv
<1>6. \A id \in Ids : /\ rules[id] # None => rules[id] \in Rules /\ rules[id].of \in Incarnations
                      /\ runtime[id] # None => runtime[id].of \in Incarnations
                      /\ tick.rules[id] # None => tick.rules[id] \in Rules /\ tick.rules[id].of \in Incarnations
  BY DEF IInv, TypeOK, RuleFiles, Rules, Runtimes
<1>7. ASSUME NEW id \in Ids, tick.rules[id] # None
      PROVE  LET i == tick.rules[id].of
             IN  /\ notices'[i] <= 1 /\ notices[i] <= notices'[i]
                 /\ \A t \in Times : reports'[i][t] # "twice"
                 /\ runtime'[id] # None /\ runtime'[id].of = i
                 /\ notices'[i] > 0 <=> runtime'[id].expiredNotified
                 /\ \A t \in Times : reports'[i][t] = "told" =>
                      t <= runtime'[id].watermark \/ runtime'[id].expiredNotified
                 /\ runtime'[id].expiredNotified => Expired(tick.rules[id], clock)
  <2>1. Expired(tick.rules[id], tick.now) => Expired(tick.rules[id], clock)
    <3>1. tick.rules[id].expiresAt \in Nat
      BY <1>6, <1>7 DEF Rules
    <3> QED
      BY <1>3, <3>1 DEF Expired
  <2> QED
    BY <1>7, <2>1, SaidOnce
<1>8. ASSUME NEW i \in Incarnations
      PROVE  notices'[i] <= 1 /\ notices[i] <= notices'[i] /\ \A t \in Times : reports'[i][t] # "twice"
  <2>1. CASE \E id \in Ids : tick.rules[id] # None /\ tick.rules[id].of = i
    BY <1>7, <2>1
  <2>2. CASE \A id \in Ids : tick.rules[id] # None => tick.rules[id].of # i
    <3>1. notices'[i] = notices[i] /\ \A t \in Times : reports'[i][t] = reports[i][t]
      BY <2>2, EvaluateLeaves DEF IInv
    <3>2. notices[i] \in 0..2
      BY DEF IInv, TypeOK
    <3> QED
      BY <3>1, <3>2 DEF SaidInv, ExpiryAnnounced, NoEventTwice
  <2> QED
    BY <2>1, <2>2
<1>9. ASSUME NEW id \in Ids, NEW r \in Rules, tick.rules[id] # None,
             r.of = tick.rules[id].of, r.expiresAt = tick.rules[id].expiresAt
      PROVE  /\ notices'[r.of] > 0 => runtime'[id] # None /\ runtime'[id].expiredNotified
             /\ alerts'[r.of] # "never" => runtime'[id] # None
             /\ \A t \in Times : reports'[r.of][t] = "told" =>
                  runtime'[id] # None /\ (t <= runtime'[id].watermark \/ runtime'[id].expiredNotified)
             /\ runtime'[id] # None /\ runtime'[id].expiredNotified => Expired(r, clock)
  BY <1>7, <1>9 DEF Expired
<1>10. ASSUME NEW id \in Ids, rules[id] # None
       PROVE  /\ notices'[rules[id].of] > 0 => runtime'[id] # None /\ runtime'[id].expiredNotified
              /\ alerts'[rules[id].of] # "never" => runtime'[id] # None
              /\ \A t \in Times : reports'[rules[id].of][t] = "told" =>
                   runtime'[id] # None /\ (t <= runtime'[id].watermark \/ runtime'[id].expiredNotified)
              /\ runtime'[id] # None /\ runtime'[id].expiredNotified => Expired(rules[id], clock)
  <2>1. CASE tick.rules[id] # None
    <3>1. rules[id].of = tick.rules[id].of /\ rules[id].expiresAt = tick.rules[id].expiresAt
      BY <1>10, <2>1 DEF HomeInv, TickAlike, Alike
    <3> QED
      BY <1>6, <1>9, <1>10, <2>1, <3>1
  <2>2. CASE tick.rules[id] = None
    <3>1. /\ notices'[rules[id].of] = notices[rules[id].of] /\ alerts'[rules[id].of] = alerts[rules[id].of]
          /\ \A t \in Times : reports'[rules[id].of][t] = reports[rules[id].of][t]
      <4>1. rules[id] \in Held(id)
        BY <1>10 DEF Held
      <4> QED
        BY <1>4, <1>6, <1>10, <2>2, <4>1
    <3>2. CASE tick.degraded
      BY <1>5, <1>10, <2>2, <3>1, <3>2 DEF SaidInv, Followed
    <3>3. CASE ~tick.degraded
      <4>1. id \in UserIdSet
        BY <1>3, <2>2 DEF HomeInv, BuiltInsStay, Ids
      <4>2. runtime'[id] = None /\ Silent(rules[id].of)
        BY <1>3, <1>5, <1>10, <2>2, <3>3, <4>1 DEF HomeInv, Newborn
      <4> QED
        BY <3>1, <4>2 DEF Silent
    <3> QED
      BY <3>2, <3>3
  <2> QED
    BY <2>1, <2>2
<1>11. ASSUME NEW id \in SystemIds
       PROVE  LET r == SystemRule(id)
              IN  /\ notices'[r.of] > 0 => runtime'[id] # None /\ runtime'[id].expiredNotified
                  /\ alerts'[r.of] # "never" => runtime'[id] # None
                  /\ \A t \in Times : reports'[r.of][t] = "told" =>
                       runtime'[id] # None /\ (t <= runtime'[id].watermark \/ runtime'[id].expiredNotified)
                  /\ runtime'[id] # None /\ runtime'[id].expiredNotified => Expired(r, clock)
  <2>1. tick.rules[id] # None /\ tick.rules[id].expiresAt = 0 /\ tick.rules[id].of = id /\ id \in Ids
    BY <1>3 DEF HomeInv, BuiltInsStay, BuiltIn, IInv, SystemOwn, Ids
  <2>2. SystemRule(id) \in Rules /\ SystemRule(id).of = id /\ SystemRule(id).expiresAt = 0
    BY SystemRuleTyped DEF IInv, SystemRule
  <2> QED
    BY <1>9, <2>1, <2>2
<1>12. ASSUME NEW id \in Ids, runtime'[id] # None, runtime'[id].expiredNotified
       PROVE  notices'[runtime'[id].of] > 0
  <2>1. CASE tick.rules[id] # None
    BY <1>7, <1>12, <2>1
  <2>2. CASE tick.rules[id] = None
    <3>1. runtime'[id] = runtime[id]
      BY <1>5, <1>12, <2>2
    <3>2. runtime[id] \in Held(id)
      BY <1>12, <3>1 DEF Held
    <3>3. notices'[runtime[id].of] = notices[runtime[id].of]
      BY <1>4, <1>6, <1>12, <2>2, <3>1, <3>2
    <3> QED
      BY <1>12, <3>1, <3>3 DEF SaidInv
  <2> QED
    BY <2>1, <2>2
<1>13. ExpiryAnnounced'
  <2>1. ASSUME call # None, call.step = "add", NEW id \in Ids, rules[id] # None, rules[id].expiresAt # 0,
               call.file[id] = None
        PROVE  notices'[rules[id].of] = 1
    <3>1. notices[rules[id].of] = 1
      BY <2>1 DEF SaidInv, ExpiryAnnounced, Free, Stored
    <3>2. rules[id].of \in Incarnations /\ notices'[rules[id].of] \in 0..2
      BY <1>6, <2>1, EvaluateInvariant DEF IInv, TypeOK
    <3> QED
      BY <1>8, <3>1, <3>2
  <2> QED
    BY <1>1, <1>8, <2>1 DEF ExpiryAnnounced, Free, Stored
<1>14. NoEventTwice'
  BY <1>8 DEF NoEventTwice
<1> QED
  BY <1>1, <1>2, <1>10, <1>11, <1>12, <1>13, <1>14 DEF SaidInv, Followed, SystemRule

\* The steps that say nothing and leave the rules and their runtimes alone.
LEMMA SaidElse ==
    ASSUME ~ReuseInTick, IInv, HomeInv, SaidInv,
           TickFails \/ CallFails \/ Advance \/ Push \/ CreateReads \/ CreateArms
               \/ (\E id \in Ids : CancelReads(id) \/ ResumeReads(id)) \/ UNCHANGED vars
    PROVE  SaidInv'
<1> USE DEF files, kept, history
<1>1. /\ UNCHANGED <<rules, runtime, notices, reports, alerts, alertedAt, catalogue>>
      /\ clock' \in {clock, clock + 1}
      /\ tick' = tick \/ \A id \in Ids : tick'.rules[id] = None
  <2>1. CASE TickFails
    BY <2>1 DEF TickFails, Idle, NoRules
  <2>2. CASE ~TickFails
    BY <2>2 DEF CallFails, Advance, Push, CreateReads, CreateArms, CancelReads, ResumeReads, vars
  <2> QED
    BY <2>1, <2>2
<1>2. clock \in Nat /\ clock <= clock' /\ clock' \in Nat
  BY <1>1 DEF IInv, TypeOK, Times
<1>3. \A id \in Ids : /\ rules[id] # None => rules[id].expiresAt \in Nat
                      /\ tick.rules[id] # None => tick.rules[id].expiresAt \in Nat
  BY DEF IInv, TypeOK, RuleFiles, Rules
<1>4. \A id \in Ids : rules[id] # None => Followed(rules[id], runtime[id], clock')
  BY <1>2, <1>3, FollowedAlike DEF SaidInv
<1>5. \A id \in SystemIds : Followed(SystemRule(id), runtime[id], clock')
  BY <1>2, FollowedAlike DEF SaidInv, SystemRule
<1>6. \A id \in Ids : tick'.rules[id] # None => Followed(tick'.rules[id], runtime[id], tick'.now)
  BY <1>1 DEF SaidInv
<1>7. ExpiryAnnounced'
  <2>1. CASE CreateArms
    <3>1. PICK new \in UserIdSet :
            /\ Unclaimed(new) /\ call'.file[new] \in Rules
            /\ \A i \in Ids : i # new =>
                 \/ call'.file[i] = rules[i]
                 \/ call'.file[i] = None /\ Collectable(rules, i) /\ i \notin SystemIds
      BY <2>1, ArmEffect
    <3>2. ASSUME NEW id \in Ids, rules[id] # None, call'.file[id] = None
          PROVE  notices[rules[id].of] = 1
      <4>1. runtime[id] # None /\ runtime[id].expiredNotified
        BY <3>1, <3>2, NoneAssumption DEF Collectable
      <4>2. runtime[id].of = rules[id].of
        BY <3>2, <4>1 DEF IInv, NoInheritance, Stored
      <4>3. notices[rules[id].of] > 0
        BY <4>1, <4>2 DEF SaidInv
      <4>4. rules[id].of \in Incarnations
        BY <3>2 DEF IInv, TypeOK, RuleFiles, Rules
      <4>5. notices[rules[id].of] <= 1 /\ notices[rules[id].of] \in 0..2
        BY <4>4 DEF SaidInv, ExpiryAnnounced, IInv, TypeOK
      <4> QED
        BY <4>3, <4>5
    <3> QED
      BY <1>1, <3>2 DEF ExpiryAnnounced, Stored, SaidInv
  <2>2. CASE call' = call \/ call' = None
    BY <1>1, <2>2 DEF ExpiryAnnounced, Stored, Free, SaidInv
  <2>3. CASE CreateReads \/ (\E id \in Ids : CancelReads(id) \/ ResumeReads(id))
    <3>1. call'.step # "add"
      BY <2>3 DEF CreateReads, CancelReads, ResumeReads
    <3> QED
      BY <1>1, <3>1 DEF ExpiryAnnounced, SaidInv
  <2> QED
    BY <2>1, <2>2, <2>3 DEF TickFails, CallFails, Advance, Push, vars
<1>8. NoEventTwice'
  BY <1>1 DEF NoEventTwice, SaidInv
<1> QED
  BY <1>1, <1>4, <1>5, <1>6, <1>7, <1>8 DEF SaidInv, Followed, SystemRule

LEMMA SaidWrite ==
    ASSUME IInv, HomeInv, SaidInv, CallWrites PROVE SaidInv'
<1> USE DEF kept, history
<1>1. /\ call # None /\ call' = None /\ rules' = call.file
      /\ UNCHANGED <<clock, log, shown, runtime, levelsAt, tick, asked, kept>>
  BY DEF CallWrites, Free
<1>2. clock \in Nat /\ asked \in 1..MaxCalls
  BY <1>1, BoundAssumption DEF IInv, TypeOK, Times, Counted
<1>3. ASSUME NEW id \in Ids, call.file[id] # None
      PROVE  Followed(call.file[id], runtime[id], clock)
  <2>1. call.file[id].expiresAt \in Nat
    BY <1>1, <1>3 DEF IInv, TypeOK, RuleFiles, Rules
  <2>2. CASE id \in SystemIds
    <3>1. call.file[id].of = SystemRule(id).of /\ call.file[id].expiresAt = SystemRule(id).expiresAt
      BY <1>1, <1>3, <2>2 DEF HomeInv, BuiltInsStay, BuiltIn, IInv, SystemOwn, SystemRule
    <3>2. Followed(SystemRule(id), runtime[id], clock)
      BY <2>2 DEF SaidInv
    <3> QED
      BY <1>2, <2>1, <3>1, <3>2, FollowedAlike
  <2>3. CASE rules[id] # None /\ Alike(call.file[id], rules[id])
    BY <1>2, <2>1, <2>3, FollowedAlike DEF SaidInv, Alike
  <2>4. CASE Unclaimed(id) /\ call.file[id].of = asked
    <3>1. ~Born(asked)
      BY <1>1, <1>2 DEF Born
    <3>2. Silent(asked)
      BY <1>2, <3>1 DEF HomeInv, Numbered
    <3> QED
      BY <2>4, <3>2 DEF Followed, Silent, Unclaimed
  <2> QED
    BY <1>1, <1>3, <2>2, <2>3, <2>4 DEF HomeInv, CallAlike, Ids
<1>4. ExpiryAnnounced' /\ NoEventTwice'
  BY <1>1 DEF ExpiryAnnounced, NoEventTwice, Free, SaidInv
<1> QED
  BY <1>1, <1>3, <1>4 DEF SaidInv, Followed, SystemRule

LEMMA SaidStep ==
    ASSUME ~ReuseInTick, IInv, HomeInv, SaidInv, [Next]_vars PROVE SaidInv'
<1>1. CASE TickEvaluate \/ TickEvaluateBlind
  BY <1>1, EvaluateLines, SaidEvaluate
<1> QED
  BY <1>1, SaidRead, SaidElse, SaidWrite DEF Next, Tick, Call

-------------------------------------------------------------------------------
\* SeenInv is an invariant: what a latch and a mark stand for.

LEMMA DatedNewest ==
    ASSUME NEW S, S \subseteq Times
    PROVE  /\ Newest(Dated(S)) \in Stamps /\ \A t \in Dated(S) : t <= Newest(Dated(S))
           /\ S = {} => Newest(Dated(S)) = 0
<1>1. Dated(S) \subseteq S /\ Dated(S) \subseteq Times
  BY DEF Dated
<1>2. CASE Dated(S) = {}
  BY <1>1, <1>2, BoundAssumption DEF Newest, Stamps
<1>3. CASE Dated(S) # {}
  BY <1>1, <1>3, LastOf, NewestTyped
<1> QED
  BY <1>2, <1>3

\* What a log that does not end before line a holds up to it, a copy holds too.
LEMMA WholeUpTo ==
    ASSUME NEW lines, lines \subseteq Times, Whole(lines), lines # {}, NEW a \in Nat, ~EndsBefore(lines, a)
    PROVE  \A t \in Times : Real(t) /\ t <= a => t \in lines
<1>1. Last(lines) \in Nat
  BY LastTyped, BoundAssumption DEF Stamps
<1>2. a <= Last(lines)
  BY <1>1 DEF EndsBefore
<1>3. \A t \in Times : t \in Nat
  BY BoundAssumption DEF Times
<1> QED
  BY <1>1, <1>2, <1>3 DEF Whole

LEMMA UpToTimes ==
    ASSUME NEW a \in Stamps
    PROVE  /\ a \in Nat /\ \A t \in 1..a : t \in Times /\ t \in Nat /\ t <= a
           /\ \A t \in Times : t \in Nat /\ t >= 1 /\ (t <= a => t \in 1..a)
BY BoundAssumption DEF Stamps, Times

\* The condition is met in lines whose newest is a.
LEMMA MetIsRemembered ==
    ASSUME NEW lines, lines \subseteq Times, Whole(lines), NEW now \in Nat, NEW floor \in Nat,
           NEW rule, rule.kind \in LevelKinds,
           Judgeable(rule, lines, now, floor), Condition(rule, lines, now, floor),
           NEW a, a = Newest(Dated(lines)), ~EndsBefore(lines, a)
    PROVE  StillMet(rule.kind, a, now, log)
<1>1. a \in Stamps /\ a \in Nat /\ \A t \in Dated(lines) : t <= a
  BY DatedNewest, UpToTimes
<1>2. /\ \A t \in 1..a : t \in Times /\ t \in Nat /\ t <= a
      /\ \A t \in Times : t \in Nat /\ t >= 1 /\ (t <= a => t \in 1..a)
  BY <1>1, UpToTimes
<1>3. lines # {} => \A t \in 1..a : Real(t) => t \in Dated(lines)
  BY <1>1, <1>2, WholeUpTo DEF Dated
<1>4. CASE rule.kind = "level"
  <2>1. PICK t \in LevelWindow(lines, floor) : log[t] = "high"
    BY <1>4 DEF Condition
  <2>2. t \in lines /\ Real(t)
    BY <2>1, NoneAssumption DEF LevelWindow, Dated, Real
  <2>3. t <= a /\ t \in Nat /\ t >= 1
    BY <1>1, <1>2, <2>2 DEF Dated
  <2> QED
    BY <1>1, <1>4, <2>3 DEF StillMet
<1>5. CASE rule.kind = "sustained"
  <2>1. /\ SustainedWindow(lines, now) # {}
        /\ \A t \in SustainedWindow(lines, now) : log[t] = "high"
    BY <1>5 DEF Judgeable, Condition
  <2>2. lines # {}
    BY <2>1 DEF SustainedWindow, Dated
  <2>3. \A t \in 1..a : t >= now - ForSeconds /\ Real(t) => log[t] = "high"
    BY <1>3, <2>1, <2>2 DEF SustainedWindow
  <2> QED
    BY <1>5, <2>3 DEF StillMet, Real
<1>6. CASE rule.kind = "state_duration"
  <2> DEFINE E == Edges(lines)
             e == Newest(E)
  <2>1. E # {} /\ log[e] = "enter" /\ now - e >= ForSeconds
    BY <1>6 DEF Judgeable, Condition
  <2>2. E \subseteq lines /\ \A t \in lines : t \in E <=> log[t] \in {"enter", "exit"}
    BY DEF Edges
  <2>3. \A t \in Times : log[t] \in {"enter", "exit"} => Real(t)
    BY NoneAssumption DEF Real
  <2> HIDE DEF E
  <2>4. e \in E /\ \A t \in E : t <= e
    BY <2>1, <2>2, LastOf
  <2> HIDE DEF e
  <2>5. e \in 1..a
    BY <1>1, <1>2, <2>2, <2>3, <2>4 DEF Dated
  <2>6. ASSUME NEW t \in 1..a, t > e PROVE log[t] \notin {"enter", "exit"}
    <3> SUFFICES ASSUME log[t] \in {"enter", "exit"} PROVE FALSE
      OBVIOUS
    <3>1. t \in lines
      BY <1>2, <1>3, <2>2, <2>3, <2>4 DEF Dated
    <3>2. t <= e
      BY <2>2, <2>4, <3>1
    <3> QED
      BY <1>2, <2>5, <2>6, <3>2
  <2> QED
    BY <1>6, <2>1, <2>5, <2>6 DEF StillMet
<1>7. CASE rule.kind = "stale"
  BY <1>7 DEF StillMet
<1> QED
  BY <1>4, <1>5, <1>6, <1>7 DEF LevelKinds

\* A condition that was met at line a and is not now: there is a reason to alert again.
LEMMA PassedIsLogged ==
    ASSUME TypeOK, NEW lines, lines \subseteq Times, Whole(lines), NEW now \in Nat, NEW floor \in Nat,
           NEW rule, rule.kind \in LevelKinds,
           Judgeable(rule, lines, now, floor), ~Condition(rule, lines, now, floor),
           NEW at \in Nat, at <= now, NEW a \in Stamps, a <= floor, StillMet(rule.kind, a, at, log)
    PROVE  Reopens(rule.kind, lines, now, a)
<1> SUFFICES ASSUME ~EndsBefore(lines, a) PROVE Reopens(rule.kind, lines, now, a)
  BY DEF Reopens
<1>1. /\ a \in Nat /\ \A t \in 1..a : t \in Times /\ t \in Nat /\ t <= a
      /\ \A t \in Times : t \in Nat /\ t >= 1 /\ (t <= a => t \in 1..a)
  BY UpToTimes
<1>2. \A t \in Times : Real(t) /\ log[t] # "high" => log[t] \in {"enter", "exit"}
  BY ValueAssumption DEF TypeOK, Real
<1>3. ForSeconds \in Nat
  BY BoundAssumption
<1>4. CASE rule.kind = "level"
  <2>1. floor > 0
    BY <1>1, <1>4 DEF StillMet
  <2>2. PICK t \in LevelWindow(lines, floor) : log[t] # "high"
    BY <1>4 DEF Judgeable, Condition
  <2>3. t \in lines /\ Real(t) /\ t > floor
    BY <2>1, <2>2 DEF LevelWindow, Dated
  <2>4. t > a /\ log[t] \in {"enter", "exit"}
    BY <1>1, <1>2, <2>2, <2>3
  <2> QED
    BY <2>3, <2>4 DEF Reopens
<1>5. CASE rule.kind = "sustained"
  <2>1. SustainedWindow(lines, now) # {}
    BY <1>5 DEF Judgeable
  <2>2. CASE ~Covered(lines, now)
    BY <1>5, <2>1, <2>2 DEF Reopens
  <2>3. CASE Covered(lines, now)
    <3>1. PICK t \in SustainedWindow(lines, now) : log[t] # "high"
      BY <1>5, <2>3 DEF Condition
    <3>2. t \in lines /\ Real(t) /\ t >= now - ForSeconds
      BY DEF SustainedWindow, Dated
    <3>3. t >= at - ForSeconds
      BY <1>1, <1>3, <3>2
    <3>4. t \notin 1..a
      BY <1>5, <3>1, <3>2, <3>3 DEF StillMet, Real
    <3>5. t > a /\ log[t] \in {"enter", "exit"}
      BY <1>1, <1>2, <3>1, <3>2, <3>4
    <3> QED
      BY <3>2, <3>5 DEF Reopens
  <2> QED
    BY <2>2, <2>3
<1>6. CASE rule.kind = "state_duration"
  <2> DEFINE E == Edges(lines)
             m == Newest(E)
  <2>1. E # {} /\ ~(log[m] = "enter" /\ now - m >= ForSeconds)
    BY <1>6 DEF Judgeable, Condition
  <2>2. E \subseteq lines /\ \A t \in lines : t \in E <=> log[t] \in {"enter", "exit"}
    BY DEF Edges
  <2>3. \A t \in Times : log[t] \in {"enter", "exit"} => Real(t)
    BY NoneAssumption DEF Real
  <2> HIDE DEF E
  <2>4. m \in E /\ \A t \in E : t <= m
    BY <2>1, <2>2, LastOf
  <2> HIDE DEF m
  <2>5. PICK e \in 1..a : /\ log[e] = "enter" /\ at - e >= ForSeconds
                          /\ \A t \in 1..a : t > e => log[t] \notin {"enter", "exit"}
    BY <1>6 DEF StillMet
  <2>6. e \in E
    <3>1. lines # {}
      BY <2>1, <2>2
    <3>2. e \in lines
      BY <1>1, <2>3, <2>5, <3>1, WholeUpTo
    <3> QED
      BY <2>2, <2>5, <3>2
  <2>7. e <= m /\ m \in Times /\ log[m] \in {"enter", "exit"}
    BY <2>2, <2>4, <2>6
  <2>8. m > a
    <3> SUFFICES ASSUME m <= a PROVE FALSE
      BY <1>1, <2>7
    <3>1. m = e
      BY <1>1, <2>5, <2>7
    <3>2. now - e >= ForSeconds
      BY <1>1, <1>3, <2>5
    <3> QED
      BY <2>1, <2>5, <3>1, <3>2
  <2> QED
    BY <2>2, <2>4, <2>7, <2>8 DEF Reopens
<1>7. CASE rule.kind = "stale"
  <2>1. Alive(lines, now)
    BY <1>7 DEF Condition
  <2> QED
    BY <1>7, <2>1 DEF Reopens
<1> QED
  BY <1>4, <1>5, <1>6, <1>7 DEF LevelKinds

\* Time only lets a condition that was met go on being met.
LEMMA StillMetLater ==
    ASSUME NEW kind, NEW a \in Nat, NEW at \in Nat, NEW later \in Nat, at <= later, NEW l,
           StillMet(kind, a, at, l)
    PROVE  StillMet(kind, a, later, l)
<1>1. PICK f \in Nat : f = ForSeconds
  BY BoundAssumption
<1>2. ASSUME kind = "sustained", NEW t \in 1..a, t >= later - f, l[t] \notin {None, "adrift"}
      PROVE  l[t] = "high"
  <2>1. t >= at - f
    BY <1>2
  <2> QED
    BY <1>1, <1>2, <2>1 DEF StillMet
<1>3. ASSUME kind = "state_duration"
      PROVE  \E e \in 1..a : /\ l[e] = "enter" /\ later - e >= f
                             /\ \A t \in 1..a : t > e => l[t] \notin {"enter", "exit"}
  <2>1. PICK e \in 1..a : /\ l[e] = "enter" /\ at - e >= f
                          /\ \A t \in 1..a : t > e => l[t] \notin {"enter", "exit"}
    BY <1>1, <1>3 DEF StillMet
  <2>2. later - e >= f
    BY <2>1
  <2> QED
    BY <2>1, <2>2
<1> QED
  BY <1>1, <1>2, <1>3 DEF StillMet

\* What a tick leaves of the latch of one of its rules.
LEMMA LatchKept ==
    ASSUME IInv, HomeInv, SaidInv, SeenInv,
           NEW lines, lines \subseteq Times, Whole(lines), Evaluate(lines),
           NEW id \in Ids, NEW r, r = tick.rules[id], r # None
    PROVE  /\ Latched(r.kind, runtime'[id], alerts'[r.of], alertedAt'[r.of], levelsAt', log)
           /\ alerts'[r.of] # "twice" /\ (alerts[r.of] # "never" => alerts'[r.of] # "never")
<1> DEFINE prev == Previous(id, r)
           res == EvaluateRule(id, r, lines, tick.now)
           floor == WindowFloor(r, prev)
<1>1. /\ r \in Rules /\ res \in Results
      /\ runtime'[id] = res.next
      /\ alertedAt'[r.of] = IF res.alert THEN Newest(Dated(lines)) ELSE alertedAt[r.of]
      /\ alerts'[r.of] = After(alerts[r.of], res.alert,
           Judging(r, tick.now) /\ Reopens(r.kind, lines, tick.now, alertedAt'[r.of]))
  BY EvaluateEffect
<1>2. prev \in Runtimes /\ Outcome(r, prev, res, lines, tick.now)
  BY TickOutcome
<1>3. /\ runtime[id] # None => prev = runtime[id]
      /\ runtime[id] = None => prev = Fresh(r)
  BY <1>1, PreviousTyped DEF IInv
<1>4. floor \in Nat /\ prev.watermark <= floor
  BY <1>1, <1>2, FloorTyped
<1>5. Ticking /\ levelsAt' = IF LevelsDue(tick.now) THEN tick.now ELSE levelsAt
  BY DEF Evaluate
<1>6. tick.now \in Nat /\ levelsAt \in Nat /\ levelsAt <= tick.now
  BY <1>5, BoundAssumption DEF HomeInv, Clocks, Ticking, IInv, TypeOK, Stamps, Times
<1>7. LatchOK(r, runtime[id]) /\ (alerts[r.of] # "never" => runtime[id] # None)
  BY DEF SeenInv, SaidInv, Followed
<1>8. /\ prev.watermark \in Nat /\ res.next.watermark \in Nat /\ prev.fired \in BOOLEAN
      /\ res.alert \in BOOLEAN
  BY <1>1, <1>2, BoundAssumption DEF Results, Runtimes, Stamps
<1>9. LatchOf(r, prev, res, lines, tick.now)
  BY <1>2 DEF Outcome
<1>10. r.of \in Incarnations
  BY <1>1 DEF Rules
<1>11. PICK h \in Tellings : h = alerts[r.of] /\ h # "twice"
  BY <1>10 DEF IInv, TypeOK, SeenInv, AlertsAfterRecovery
<1>12. PICK a \in Stamps : a = alertedAt[r.of]
  BY <1>10 DEF IInv, TypeOK
<1>13. PICK b \in Stamps : b = alertedAt'[r.of] /\ b = IF res.alert THEN Newest(Dated(lines)) ELSE a
  BY <1>1, <1>12, DatedNewest
<1>14. PICK reason \in BOOLEAN : reason <=> Judging(r, tick.now) /\ Reopens(r.kind, lines, tick.now, b)
  OBVIOUS
<1>15. PICK g \in Tellings : g = alerts'[r.of] /\ g = After(h, res.alert, reason)
  <2>1. alerts'[r.of] = After(h, res.alert, reason)
    BY <1>1, <1>11, <1>13, <1>14 DEF After
  <2> QED
    BY <1>8, <2>1, AfterIs
<1>16. /\ g = "twice" <=> h = "twice" \/ (h = "told" /\ res.alert)
       /\ g = "told" <=> ~reason /\ (IF res.alert THEN h \in {"never", "open"} ELSE h = "told")
       /\ g = "never" <=> h = "never" /\ ~res.alert
  BY <1>8, <1>15, AfterIs
<1>17. PICK next : next = runtime'[id] /\ next = res.next
  BY <1>1
<1>18. PICK at \in Nat : at = levelsAt' /\ levelsAt <= at /\ (Judging(r, tick.now) => at = tick.now)
  BY <1>5, <1>6 DEF Judging
<1>19. CASE r.kind \notin LevelKinds
  <2>1. ~res.alert
    BY <1>1, <1>9, <1>19 DEF LatchOf, Judging, LevelKinds, Rules
  <2> QED
    BY <1>11, <1>15, <1>16, <1>19, <2>1 DEF Latched
<1>20. CASE r.kind \in LevelKinds
  <2> HIDE DEF prev, res, floor
  <2>1. prev.fired => h # "never"
    BY <1>3, <1>7, <1>11, <1>20 DEF LatchOK, Latched, Fresh
  <2>2. h = "told" => prev.fired /\ a <= prev.watermark /\ StillMet(r.kind, a, levelsAt, log)
    BY <1>3, <1>7, <1>11, <1>12, <1>20 DEF LatchOK, Latched
  <2>3. a \in Nat /\ b \in Nat
    BY UpToTimes
  <2>4. h = "told" => StillMet(r.kind, a, at, log)
    BY <1>6, <1>18, <2>2, <2>3, StillMetLater
  \* A log that ends before the line of the last alert is a reason.
  <2>5. g = "told" /\ Judging(r, tick.now) /\ lines # {} => b <= Last(lines)
    <3>1. Last(lines) \in Nat
      BY LastTyped, BoundAssumption DEF Stamps
    <3> QED
      BY <1>14, <1>16, <2>3, <3>1 DEF Reopens, EndsBefore
  <2>6. SUFFICES /\ next.fired => g # "never"
                 /\ g = "told" => next.fired /\ b <= next.watermark /\ StillMet(r.kind, b, at, log)
                 /\ ~(h = "told" /\ res.alert)
    BY <1>11, <1>13, <1>15, <1>16, <1>17, <1>18 DEF Latched
  <2>7. CASE /\ ~res.alert /\ res.next.fired = prev.fired
             /\ \/ res.next.watermark = prev.watermark
                \/ Judging(r, tick.now) /\ lines # {} /\ res.next.watermark = Last(lines)
    <3>1. b = a /\ (g = "told" => h = "told") /\ (g = "never" => h = "never")
      BY <1>13, <1>16, <2>7
    <3>2. g = "told" => b <= next.watermark
      BY <1>17, <2>2, <2>5, <2>7, <3>1
    <3> QED
      BY <1>17, <2>1, <2>2, <2>4, <2>7, <3>1, <3>2
  <2>8. CASE /\ Judging(r, tick.now) /\ Judgeable(r, lines, tick.now, floor)
             /\ lines = {} => res.next.watermark = prev.watermark
             /\ lines # {} => res.next.watermark = Last(lines)
             /\ res.next.fired = Condition(r, lines, tick.now, floor)
             /\ res.alert <=> res.next.fired /\ ~prev.fired
    <3>1. at = tick.now
      BY <1>18, <2>8
    <3>2. CASE res.next.fired /\ ~prev.fired
      <4>1. b = Newest(Dated(lines)) /\ res.alert
        BY <1>13, <2>8, <3>2
      <4>2. g = "told" => b <= next.watermark
        <5>1. lines = {} => b = 0
          BY <4>1, DatedNewest
        <5> QED
          BY <1>8, <1>17, <2>5, <2>8, <5>1
      <4>3. ASSUME g = "told" PROVE StillMet(r.kind, b, at, log)
        <5>1. ~EndsBefore(lines, b)
          BY <1>14, <1>16, <2>8, <4>3 DEF Reopens
        <5> QED
          BY <1>4, <1>6, <1>20, <2>8, <3>1, <3>2, <4>1, <5>1, MetIsRemembered
      <4> QED
        BY <1>16, <1>17, <2>2, <3>2, <4>1, <4>2, <4>3
    <3>3. CASE res.next.fired /\ prev.fired
      <4>1. b = a /\ ~res.alert
        BY <1>13, <2>8, <3>3
      <4>2. g = "told" => h = "told" /\ b <= next.watermark
        BY <1>16, <1>17, <2>2, <2>5, <2>8, <4>1
      <4> QED
        BY <1>16, <1>17, <2>1, <2>4, <3>3, <4>1, <4>2
    <3>4. CASE ~res.next.fired
      <4>1. b = a /\ ~res.alert
        BY <1>13, <2>8, <3>4
      <4>2. ASSUME g = "told" PROVE FALSE
        <5>1. h = "told" /\ ~reason
          BY <1>16, <4>1, <4>2
        <5>2. a <= floor
          BY <1>4, <1>8, <2>2, <2>3, <5>1
        <5>3. Reopens(r.kind, lines, tick.now, a)
          BY <1>4, <1>6, <1>20, <2>2, <2>8, <3>4, <5>1, <5>2, PassedIsLogged DEF IInv
        <5> QED
          BY <1>14, <2>8, <4>1, <5>1, <5>3
      <4> QED
        BY <1>17, <3>4, <4>1, <4>2
    <3> QED
      BY <3>2, <3>3, <3>4
  <2> QED
    BY <1>9, <1>20, <2>7, <2>8 DEF LatchOf, LevelKinds, floor
<1> QED
  BY <1>19, <1>20

\* What a tick leaves of the marks of one of its rules, which may have been re-armed.
LEMMA GapKept ==
    ASSUME IInv, HomeInv, SaidInv, SeenInv,
           NEW lines, lines \subseteq Times, Whole(lines), Evaluate(lines),
           NEW id \in Ids, NEW r, r = tick.rules[id], r # None,
           NEW s \in Rules, Alike(s, r), s.enabled => r.armedAt <= s.armedAt, GapOK(s, runtime[id])
    PROVE  Gapless(s, runtime'[id], reports'[s.of], alerts'[s.of], log)
<1> DEFINE prev == Previous(id, r)
           res == EvaluateRule(id, r, lines, tick.now)
<1>1. /\ r \in Rules /\ res \in Results
      /\ runtime'[id] = res.next
      /\ \A t \in Times : reports'[r.of][t] =
           After(reports[r.of][t], t \in res.events, r.enabled /\ EndsBefore(lines, t))
      /\ alerts'[r.of] = After(alerts[r.of], res.alert,
           Judging(r, tick.now) /\ Reopens(r.kind, lines, tick.now, alertedAt'[r.of]))
  BY EvaluateEffect
<1>2. prev \in Runtimes /\ Outcome(r, prev, res, lines, tick.now)
  BY TickOutcome
<1>3. /\ runtime[id] # None => prev = runtime[id]
      /\ runtime[id] = None => prev = Fresh(r)
  BY <1>1, PreviousTyped DEF IInv
<1>4. alerts[r.of] # "never" => alerts'[r.of] # "never"
  BY LatchKept
<1>5. LatchOK(r, runtime[id])
  BY DEF SeenInv
<1>6. r.of \in Incarnations
  BY <1>1 DEF Rules
<1>7. s.of = r.of /\ s.kind = r.kind /\ s.expiresAt = r.expiresAt
  BY DEF Alike
<1> HIDE DEF prev, res
<1>8. r.kind = "level" /\ prev.fired => alerts'[r.of] # "never"
  BY <1>3, <1>4, <1>5 DEF LatchOK, Latched, Fresh, LevelKinds
<1>9. res.alert => alerts'[r.of] # "never"
  BY <1>1 DEF After
<1>10. ASSUME NEW t \in Times, t \in res.events \/ reports[r.of][t] # "never" PROVE reports'[r.of][t] # "never"
  BY <1>1, <1>10 DEF After
<1>11. ASSUME s.enabled, NEW t \in Times, Armed(s, t), res.next.from < t, t <= res.next.watermark
       PROVE  /\ s.kind = "event" /\ log[t] = "enter" => reports'[r.of][t] # "never"
              /\ s.kind = "level" /\ log[t] = "high" => alerts'[r.of] # "never"
  <2>1. t \in Nat /\ r.armedAt \in Nat /\ s.armedAt \in Nat /\ t > 0
    BY <1>1, BoundAssumption DEF Times, Rules, Stamps
  <2>2. Armed(r, t)
    BY <1>7, <1>11, <2>1 DEF Armed
  <2>3. CASE prev.from < t /\ t <= prev.watermark
    <3>1. runtime[id] # None /\ prev = runtime[id]
      BY <1>3, <2>1, <2>3 DEF Fresh
    <3>2. /\ s.kind = "event" /\ log[t] = "enter" => reports[r.of][t] # "never"
          /\ s.kind = "level" /\ log[t] = "high" => alerts[r.of] # "never"
      BY <1>7, <1>11, <2>3, <3>1, NoneAssumption DEF GapOK, Gapless
    <3> QED
      BY <1>4, <1>7, <1>10, <3>2
  <2>4. CASE ~(prev.from < t /\ t <= prev.watermark)
    <3>1. /\ r.kind = "event" /\ log[t] = "enter" => t \in res.events
          /\ r.kind = "level" /\ log[t] = "high" => res.alert \/ prev.fired
      BY <1>2, <1>11, <2>2, <2>4 DEF Outcome, GapOf
    <3> QED
      BY <1>7, <1>8, <1>9, <1>10, <3>1
  <2> QED
    BY <2>3, <2>4
<1> QED
  BY <1>1, <1>7, <1>11 DEF Gapless

LEMMA SeenEvaluate ==
    ASSUME IInv, HomeInv, SaidInv, SeenInv,
           NEW lines, lines \subseteq Times, Whole(lines), Evaluate(lines)
    PROVE  SeenInv'
<1>1. /\ UNCHANGED <<clock, log, shown, rules, call, asked, catalogue>> /\ tick' = Idle /\ Ticking
      /\ levelsAt' = IF LevelsDue(tick.now) THEN tick.now ELSE levelsAt
  BY DEF Evaluate
<1>2. \A id \in Ids : tick'.rules[id] = None
  BY <1>1 DEF Idle, NoRules
<1>3. tick.now > 0 /\ tick.now \in Nat /\ levelsAt \in Nat /\ levelsAt <= tick.now /\ levelsAt' \in Nat /\ levelsAt <= levelsAt'
  BY <1>1, BoundAssumption DEF HomeInv, Clocks, Ticking, IInv, TypeOK, Stamps, Times
<1>4. \A id \in SystemIds : id \in Ids /\ tick.rules[id] # None /\ BuiltIn(id, tick.rules[id]) /\ tick.rules[id].of = id
  BY <1>3 DEF HomeInv, BuiltInsStay, IInv, SystemOwn, Ids
\* A rule the tick does not hold: nothing is said of it, its runtime stays or goes.
<1>5. ASSUME NEW id \in Ids, tick.rules[id] = None, rules[id] # None
      PROVE  /\ runtime'[id] \in {runtime[id], None}
             /\ alertedAt'[rules[id].of] = alertedAt[rules[id].of] /\ alerts'[rules[id].of] = alerts[rules[id].of]
             /\ \A t \in Times : reports'[rules[id].of][t] = reports[rules[id].of][t]
  <2>1. rules[id].of \in Incarnations /\ rules[id] \in Held(id)
    BY <1>5 DEF IInv, TypeOK, RuleFiles, Rules, Held
  <2>2. \A other \in Ids : tick.rules[other] # None => tick.rules[other].of # rules[id].of
    <3> SUFFICES ASSUME NEW other \in Ids, tick.rules[other] # None, tick.rules[other].of = rules[id].of
                 PROVE  FALSE
      OBVIOUS
    <3>1. tick.rules[other] \in Held(other)
      BY DEF Held
    <3>2. other = id
      BY <2>1, <3>1, HomeIsOne
    <3> QED
      BY <1>5, <3>2
  <2> QED
    BY <1>5, <2>1, <2>2, EvaluateLeaves, EvaluatePrunes DEF IInv
<1>6. ASSUME NEW id \in Ids, tick.rules[id] = None, rules[id] # None,
             NEW s \in Rules, Alike(s, rules[id]), GapOK(s, runtime[id])
      PROVE  Gapless(s, runtime'[id], reports'[s.of], alerts'[s.of], log)
  BY <1>5, <1>6 DEF GapOK, Gapless, Alike
<1>7. ASSUME NEW id \in Ids, rules[id] # None
      PROVE  /\ Gapless(rules[id], runtime'[id], reports'[rules[id].of], alerts'[rules[id].of], log)
             /\ Latched(rules[id].kind, runtime'[id], alerts'[rules[id].of], alertedAt'[rules[id].of], levelsAt', log)
  <2>1. rules[id] \in Rules /\ GapOK(rules[id], runtime[id]) /\ Alike(rules[id], rules[id])
    BY <1>7 DEF IInv, TypeOK, RuleFiles, SeenInv, Alike
  <2>2. CASE tick.rules[id] # None
    <3>1. Alike(rules[id], tick.rules[id]) /\ NoLater(tick.rules[id], rules[id])
      BY <1>7, <2>2 DEF HomeInv, TickAlike, Alike, SeenInv
    <3>2. rules[id].enabled => tick.rules[id].armedAt <= rules[id].armedAt
      BY <1>7, <2>2, <3>1 DEF NoLater
    <3>3. Gapless(rules[id], runtime'[id], reports'[rules[id].of], alerts'[rules[id].of], log)
      BY <2>1, <2>2, <3>1, <3>2, GapKept
    <3>4. Latched(tick.rules[id].kind, runtime'[id], alerts'[tick.rules[id].of], alertedAt'[tick.rules[id].of], levelsAt', log)
      BY <2>2, LatchKept
    <3> QED
      BY <3>1, <3>3, <3>4 DEF Alike
  <2>3. CASE tick.rules[id] = None
    <3>1. Gapless(rules[id], runtime'[id], reports'[rules[id].of], alerts'[rules[id].of], log)
      BY <1>6, <1>7, <2>1, <2>3
    <3>2. LatchOK(rules[id], runtime[id])
      BY <1>7 DEF SeenInv
    <3>3. /\ runtime'[id] \in {runtime[id], None} /\ alertedAt'[rules[id].of] = alertedAt[rules[id].of]
          /\ alerts'[rules[id].of] = alerts[rules[id].of] /\ alertedAt[rules[id].of] \in Nat
      BY <1>5, <1>7, <2>1, <2>3, BoundAssumption DEF IInv, TypeOK, Rules, Stamps
    <3>4. \A kind : StillMet(kind, alertedAt[rules[id].of], levelsAt, log)
                      => StillMet(kind, alertedAt[rules[id].of], levelsAt', log)
      BY <1>3, <3>3, StillMetLater
    <3>5. Latched(rules[id].kind, runtime'[id], alerts'[rules[id].of], alertedAt'[rules[id].of], levelsAt', log)
      BY <3>2, <3>3, <3>4 DEF LatchOK, Latched
    <3> QED
      BY <3>1, <3>5
  <2> QED
    BY <2>2, <2>3
<1>8. ASSUME NEW id \in SystemIds
      PROVE  Latched(SystemRule(id).kind, runtime'[id], alerts'[SystemRule(id).of], alertedAt'[SystemRule(id).of], levelsAt', log)
  <2>1. SystemRule(id).kind = tick.rules[id].kind /\ SystemRule(id).of = tick.rules[id].of
    BY <1>4 DEF BuiltIn, SystemRule
  <2>2. Latched(tick.rules[id].kind, runtime'[id], alerts'[tick.rules[id].of], alertedAt'[tick.rules[id].of], levelsAt', log)
    BY <1>4, LatchKept
  <2> QED
    BY <2>1, <2>2
<1>9. ASSUME call # None, NEW id \in Ids, call.file[id] # None
      PROVE  Gapless(call.file[id], runtime'[id], reports'[call.file[id].of], alerts'[call.file[id].of], log)
  <2>1. /\ call.file[id] \in Rules /\ GapOK(call.file[id], runtime[id])
        /\ NoLater(tick.rules[id], call.file[id])
    BY <1>9 DEF IInv, TypeOK, RuleFiles, SeenInv
  <2>2. ASSUME tick.rules[id] # None, Alike(call.file[id], tick.rules[id])
        PROVE  Gapless(call.file[id], runtime'[id], reports'[call.file[id].of], alerts'[call.file[id].of], log)
    <3>1. call.file[id].enabled => tick.rules[id].armedAt <= call.file[id].armedAt
      BY <1>9, <2>1, <2>2 DEF NoLater
    <3> QED
      BY <2>1, <2>2, <3>1, GapKept
  <2>3. CASE id \in SystemIds
    <3>1. Alike(call.file[id], tick.rules[id])
      BY <1>4, <1>9, <2>3 DEF HomeInv, BuiltInsStay, BuiltIn, IInv, SystemOwn, Alike
    <3> QED
      BY <1>4, <2>2, <2>3, <3>1
  <2>4. CASE rules[id] # None /\ Alike(call.file[id], rules[id])
    <3>1. CASE tick.rules[id] # None
      <4>1. Alike(call.file[id], tick.rules[id])
        BY <2>4, <3>1 DEF HomeInv, TickAlike, Alike
      <4> QED
        BY <2>2, <3>1, <4>1
    <3>2. CASE tick.rules[id] = None
      BY <1>6, <2>1, <2>4, <3>2
    <3> QED
      BY <3>1, <3>2
  <2>5. CASE Unclaimed(id)
    <3>1. runtime'[id] = None
      BY <2>5, EvaluatePrunes DEF IInv, Unclaimed
    <3> QED
      BY <3>1 DEF Gapless
  <2> QED
    BY <1>9, <2>3, <2>4, <2>5 DEF HomeInv, CallAlike, Ids
<1>10. ASSUME NEW id \in Ids
       PROVE  /\ GapOK(rules[id], runtime[id])'
              /\ NoLater(tick.rules[id], rules[id])'
              /\ (rules[id] # None => rules[id].armedAt <= clock /\ LatchOK(rules[id], runtime[id]))'
              /\ (call # None => /\ call.file[id] # None => call.file[id].armedAt <= clock
                                 /\ GapOK(call.file[id], runtime[id])
                                 /\ NoLater(tick.rules[id], call.file[id])
                                 /\ NoLater(rules[id], call.file[id]))'
  <2>1. /\ rules[id] # None => rules[id].armedAt <= clock
        /\ call # None => /\ call.file[id] # None => call.file[id].armedAt <= clock
                          /\ NoLater(rules[id], call.file[id])
    BY DEF SeenInv
  <2>2. GapOK(rules[id], runtime[id])'
    BY <1>1, <1>7 DEF GapOK, Gapless
  <2>3. (rules[id] # None => rules[id].armedAt <= clock /\ LatchOK(rules[id], runtime[id]))'
    BY <1>1, <1>7, <2>1 DEF LatchOK
  <2>4. (call # None => GapOK(call.file[id], runtime[id]))'
    BY <1>1, <1>9 DEF GapOK, Gapless
  <2> QED
    BY <1>1, <1>2, <2>1, <2>2, <2>3, <2>4 DEF NoLater
<1>11. \A id \in SystemIds : LatchOK(SystemRule(id), runtime[id])'
  BY <1>1, <1>8 DEF LatchOK, SystemRule
<1>12. AlertsAfterRecovery'
  <2> SUFFICES ASSUME NEW i \in Incarnations PROVE alerts'[i] # "twice"
    BY DEF AlertsAfterRecovery
  <2>1. CASE \E id \in Ids : tick.rules[id] # None /\ tick.rules[id].of = i
    BY <2>1, LatchKept
  <2>2. CASE \A id \in Ids : tick.rules[id] # None => tick.rules[id].of # i
    BY <2>2, EvaluateLeaves DEF IInv, SeenInv, AlertsAfterRecovery
  <2> QED
    BY <2>1, <2>2
<1> QED
  BY <1>2, <1>10, <1>11, <1>12 DEF SeenInv


-------------------------------------------------------------------------------
LEMMA SystemIdsAreIds == \A id \in SystemIds : id \in Ids
BY DEF Ids

LEMMA SeenInit == Init => SeenInv
<1> SUFFICES ASSUME Init PROVE SeenInv
  OBVIOUS
<1>1. /\ call = None /\ \A id \in Ids : runtime[id] = None /\ tick.rules[id] = None
      /\ clock = Epoch + 1 /\ \A i \in Incarnations : alerts[i] = "never"
  BY DEF Init, Idle, NoRules
<1>2. \A id \in Ids : rules[id] # None => rules[id].armedAt = 0
  BY DEF Init, Cancelled, SystemRule
<1>3. \A id \in Ids : \A r : GapOK(r, runtime[id]) /\ LatchOK(r, runtime[id])
  BY <1>1 DEF GapOK, Gapless, LatchOK, Latched
<1> QED
  BY <1>1, <1>2, <1>3, SystemIdsAreIds DEF SeenInv, NoLater, AlertsAfterRecovery, Epoch

LEMMA SeenRead ==
    ASSUME IInv, HomeInv, SeenInv, TickRead \/ TickReadBusy PROVE SeenInv'
<1> USE DEF files, kept, history
<1>1. UNCHANGED <<clock, log, shown, files, call, asked, kept>>
  BY ReadEffect
<1>2. clock \in Nat
  BY DEF IInv, TypeOK, Times
<1>3. \A id \in Ids : /\ rules[id] # None => rules[id].armedAt \in Nat
                      /\ call # None => (call.file[id] # None => call.file[id].armedAt \in Nat)
  BY BoundAssumption DEF IInv, TypeOK, RuleFiles, Rules, Stamps
<1>4. ASSUME NEW id \in Ids
      PROVE  \/ tick'.rules[id] = None
             \/ tick'.rules[id] = rules[id]
             \/ id \in SystemIds /\ tick'.rules[id] = SystemRule(id)
  BY ReadEffect DEF Ids
<1>5. \A id \in SystemIds : SystemRule(id).armedAt = 0
  BY DEF SystemRule
<1>6. ASSUME NEW id \in Ids, tick'.rules[id] # None
      PROVE  tick'.rules[id].armedAt <= clock /\ LatchOK(tick'.rules[id], runtime[id])
  BY <1>2, <1>4, <1>6, <1>5 DEF SeenInv
<1>7. ASSUME NEW id \in Ids PROVE NoLater(tick'.rules[id], rules[id])
  BY <1>3, <1>4, <1>5 DEF NoLater
<1>8. ASSUME call # None, NEW id \in Ids PROVE NoLater(tick'.rules[id], call.file[id])
  <2>1. CASE tick'.rules[id] = rules[id]
    BY <1>8, <2>1 DEF SeenInv
  <2>2. CASE tick'.rules[id] # rules[id]
    BY <1>3, <1>4, <1>8, <1>5, <2>2 DEF NoLater
  <2> QED
    BY <2>1, <2>2
<1> QED
  BY <1>1, <1>6, <1>7, <1>8 DEF SeenInv, GapOK, LatchOK, SystemRule, AlertsAfterRecovery

\* More lines change nothing about what was looked at, up to n.
LEMMA SeenLonger ==
    ASSUME NEW n \in Nat, n <= MaxTime, NEW l, NEW longer, \A t \in 1..n : longer[t] = l[t],
           NEW run, run # None => run.watermark \in Nat /\ run.watermark <= n,
           NEW rep, NEW h, NEW a \in Nat, NEW at
    PROVE  /\ \A r : Gapless(r, run, rep, h, l) => Gapless(r, run, rep, h, longer)
           /\ \A kind : Latched(kind, run, h, a, at, l) => Latched(kind, run, h, a, at, longer)
<1>1. ASSUME NEW r, Gapless(r, run, rep, h, l) PROVE Gapless(r, run, rep, h, longer)
  <2>1. ASSUME run # None, NEW t \in Times, t <= run.watermark PROVE longer[t] = l[t]
    BY <2>1, BoundAssumption DEF Times
  <2> QED
    BY <1>1, <2>1 DEF Gapless
<1>2. ASSUME NEW kind, Latched(kind, run, h, a, at, l)
      PROVE  Latched(kind, run, h, a, at, longer)
  <2>1. ASSUME run # None, a <= run.watermark, StillMet(kind, a, at, l) PROVE StillMet(kind, a, at, longer)
    <3>1. 1..a \subseteq 1..n
      BY <2>1
    <3> QED
      BY <2>1, <3>1 DEF StillMet
  <2> QED
    BY <1>2, <2>1 DEF Latched
<1> QED
  BY <1>1, <1>2

\* The steps between a reading of rules.json and a replacement of it.
LEMMA SeenElse ==
    ASSUME ~ReuseInTick, IInv, HomeInv, SeenInv,
           TickFails \/ CallFails \/ Advance \/ Push \/ CreateReads \/ CreateArms
               \/ (\E id \in Ids : CancelReads(id) \/ ResumeReads(id)) \/ UNCHANGED vars
    PROVE  SeenInv'
<1> USE DEF files, kept, history
<1>1. /\ UNCHANGED <<rules, runtime, levelsAt, reports, alerts, alertedAt, catalogue>>
      /\ clock' \in {clock, clock + 1}
      /\ log' = log \/ \E l : log' = [log EXCEPT ![clock + 1] = l]
      /\ tick' = tick \/ \A id \in Ids : tick'.rules[id] = None
  <2>1. CASE TickFails
    BY <2>1 DEF TickFails, Idle, NoRules
  <2>2. CASE ~TickFails
    BY <2>2 DEF CallFails, Advance, Push, CreateReads, CreateArms, CancelReads, ResumeReads, vars
  <2> QED
    BY <2>1, <2>2
<1>2. clock \in Nat /\ clock' \in Nat /\ clock <= clock' /\ clock <= MaxTime
  BY <1>1, BoundAssumption DEF IInv, TypeOK, Times
<1>3. \A t \in 1..clock : log'[t] = log[t]
  <2>1. \A t \in 1..clock : t \in Times /\ t # clock + 1
    BY <1>2, BoundAssumption DEF Times
  <2>2. log \in [Times -> Lines \cup {None}]
    BY DEF IInv, TypeOK
  <2> QED
    BY <1>1, <2>1, <2>2
<1>4. ASSUME NEW id \in Ids PROVE runtime[id] # None => runtime[id].watermark \in Nat /\ runtime[id].watermark <= clock
  BY <1>2, BoundAssumption DEF HomeInv, Clocks, IInv, TypeOK, Runtimes, Stamps
<1>5. \A i \in Incarnations : alertedAt[i] \in Nat
  BY BoundAssumption DEF IInv, TypeOK, Stamps
<1>6. ASSUME NEW id \in Ids, NEW r \in Rules
      PROVE  /\ GapOK(r, runtime[id]) => Gapless(r, runtime[id], reports[r.of], alerts[r.of], log')
             /\ LatchOK(r, runtime[id]) =>
                  Latched(r.kind, runtime[id], alerts[r.of], alertedAt[r.of], levelsAt, log')
  <2>1. alertedAt[r.of] \in Nat
    BY <1>5 DEF Rules
  <2>2. PICK run : run = runtime[id] /\ (run # None => run.watermark \in Nat /\ run.watermark <= clock)
    BY <1>4
  <2>3. PICK rep, h, a, at : rep = reports[r.of] /\ h = alerts[r.of] /\ a = alertedAt[r.of] /\ at = levelsAt
    OBVIOUS
  <2>4. a \in Nat
    BY <2>1, <2>3
  <2>5. /\ Gapless(r, run, rep, h, log) => Gapless(r, run, rep, h, log')
        /\ Latched(r.kind, run, h, a, at, log) => Latched(r.kind, run, h, a, at, log')
    BY <1>2, <1>3, <2>2, <2>4, SeenLonger
  <2> QED
    BY <2>2, <2>3, <2>5 DEF GapOK, LatchOK
<1>7. \A id \in Ids : /\ rules[id] # None => rules[id] \in Rules
                      /\ tick.rules[id] # None => tick.rules[id] \in Rules
                      /\ call # None => (call.file[id] # None => call.file[id] \in Rules)
  BY DEF IInv, TypeOK, RuleFiles
<1>8. \A r \in Rules : r.armedAt \in Nat
  BY BoundAssumption DEF Rules, Stamps
<1>9. ASSUME NEW id \in SystemIds PROVE LatchOK(SystemRule(id), runtime[id])'
  <2>1. SystemRule(id) \in Rules /\ id \in Ids /\ LatchOK(SystemRule(id), runtime[id])
    BY SystemRuleTyped, SystemIdsAreIds DEF IInv, SeenInv
  <2>2. Latched(SystemRule(id).kind, runtime[id], alerts[SystemRule(id).of], alertedAt[SystemRule(id).of], levelsAt, log')
    BY <1>6, <2>1
  <2>3. SystemRule(id)' = SystemRule(id)
    BY <1>1 DEF SystemRule
  <2> QED
    BY <1>1, <2>2, <2>3 DEF LatchOK
<1>10. ASSUME NEW id \in Ids
       PROVE  /\ GapOK(rules[id], runtime[id])'
              /\ NoLater(tick.rules[id], rules[id])'
              /\ (rules[id] # None => rules[id].armedAt <= clock /\ LatchOK(rules[id], runtime[id]))'
              /\ (tick.rules[id] # None => tick.rules[id].armedAt <= clock /\ LatchOK(tick.rules[id], runtime[id]))'
  <2>1. /\ GapOK(rules[id], runtime[id]) /\ NoLater(tick.rules[id], rules[id])
        /\ rules[id] # None => rules[id].armedAt <= clock /\ LatchOK(rules[id], runtime[id])
        /\ tick.rules[id] # None => tick.rules[id].armedAt <= clock /\ LatchOK(tick.rules[id], runtime[id])
    BY DEF SeenInv
  <2>2. GapOK(rules[id], runtime[id])'
    BY <1>1, <1>6, <1>7, <2>1 DEF GapOK, Gapless
  <2>3. NoLater(tick.rules[id], rules[id])'
    BY <1>1, <2>1 DEF NoLater
  <2>4. ASSUME rules[id] # None
        PROVE  rules[id].armedAt <= clock' /\ LatchOK(rules[id], runtime[id])'
    BY <1>1, <1>2, <1>6, <1>7, <1>8, <2>1, <2>4 DEF LatchOK
  <2>5. ASSUME tick.rules[id] # None, tick' = tick
        PROVE  tick.rules[id].armedAt <= clock' /\ LatchOK(tick.rules[id], runtime[id])'
    BY <1>1, <1>2, <1>6, <1>7, <1>8, <2>1, <2>5 DEF LatchOK
  <2> QED
    BY <1>1, <2>2, <2>3, <2>4, <2>5
\* What a call is to write for one rule, in the step that decides on it.
<1>11. ASSUME call' # None, NEW id \in Ids
       PROVE  /\ call'.file[id] # None => call'.file[id].armedAt <= clock' /\ call'.file[id] \in Rules
              /\ GapOK(call'.file[id], runtime[id])
              /\ NoLater(tick.rules[id], call'.file[id]) /\ NoLater(rules[id], call'.file[id])
  <2>1. ASSUME call'.file[id] = rules[id]
        PROVE  /\ call'.file[id] # None => call'.file[id].armedAt <= clock' /\ call'.file[id] \in Rules
               /\ GapOK(call'.file[id], runtime[id])
               /\ NoLater(tick.rules[id], call'.file[id]) /\ NoLater(rules[id], call'.file[id])
    BY <1>2, <1>7, <1>8, <2>1 DEF SeenInv, NoLater
  <2>2. ASSUME call'.file[id] = None
        PROVE  /\ GapOK(call'.file[id], runtime[id])
               /\ NoLater(tick.rules[id], call'.file[id]) /\ NoLater(rules[id], call'.file[id])
    BY <2>2 DEF GapOK, Gapless, NoLater
  <2>3. CASE call' = call
    BY <1>2, <1>7, <1>8, <1>11, <2>3 DEF SeenInv
  <2>4. CASE CreateReads
    <3>1. call'.file = rules
      BY <2>4 DEF CreateReads
    <3> QED
      BY <2>1, <3>1
  <2>5. CASE CreateArms
    <3>1. PICK new \in UserIdSet :
            /\ Unclaimed(new) /\ call'.file[new] \in Rules /\ call'.file[new].armedAt = clock
            /\ \A i \in Ids : i # new => call'.file[i] = rules[i] \/ call'.file[i] = None
      BY <2>5, ArmEffect
    <3>2. CASE id = new
      BY <1>2, <3>1, <3>2 DEF Unclaimed, GapOK, Gapless, NoLater
    <3> QED
      BY <2>1, <2>2, <3>1, <3>2
  <2>6. CASE \E i \in Ids : CancelReads(i) \/ ResumeReads(i)
    <3>1. PICK i \in Ids : CancelReads(i) \/ ResumeReads(i)
      BY <2>6
    <3>2. /\ id # i => call'.file[id] = rules[id]
          /\ call'.file[i] # None => /\ call'.file[i].armedAt <= clock
                                     /\ call'.file[i].enabled => call'.file[i].armedAt = clock
      BY <3>1, EditEffect
    <3>3. ASSUME id = i, call'.file[id] # None
          PROVE  /\ call'.file[id].armedAt <= clock' /\ call'.file[id] \in Rules
                 /\ GapOK(call'.file[id], runtime[id])
                 /\ NoLater(tick.rules[id], call'.file[id]) /\ NoLater(rules[id], call'.file[id])
      <4>1. call'.file[id] \in Rules
        <5>1. IInv'
          BY <3>1, EditInvariant
        <5> QED
          BY <1>11, <3>3, <5>1 DEF IInv, TypeOK, RuleFiles
      <4>2. call'.file[id].armedAt <= clock'
        BY <1>2, <1>8, <3>2, <3>3, <4>1
      <4>3. NoLater(tick.rules[id], call'.file[id]) /\ NoLater(rules[id], call'.file[id])
        BY <3>2, <3>3 DEF NoLater, SeenInv
      <4>4. GapOK(call'.file[id], runtime[id])
        <5>1. ASSUME runtime[id] # None, call'.file[id].enabled, NEW t \in Times,
                     Armed(call'.file[id], t), t <= runtime[id].watermark
              PROVE  FALSE
          BY <1>2, <1>4, <3>2, <3>3, <5>1, BoundAssumption DEF Armed, Times
        <5> QED
          BY <5>1 DEF GapOK, Gapless
      <4> QED
        BY <4>1, <4>2, <4>3, <4>4
    <3> QED
      BY <2>1, <2>2, <3>2, <3>3
  <2> QED
    BY <1>11, <2>3, <2>4, <2>5, <2>6 DEF TickFails, CallFails, Advance, Push, vars
<1>12. ASSUME call' # None, NEW id \in Ids
       PROVE  /\ GapOK(call.file[id], runtime[id])'
              /\ NoLater(tick.rules[id], call.file[id])' /\ NoLater(rules[id], call.file[id])'
  <2>1. GapOK(call.file[id], runtime[id])'
    BY <1>1, <1>6, <1>11, <1>12 DEF GapOK, Gapless
  <2>2. NoLater(tick.rules[id], call.file[id])' /\ NoLater(rules[id], call.file[id])'
    BY <1>1, <1>11, <1>12 DEF NoLater
  <2> QED
    BY <2>1, <2>2
<1> QED
  BY <1>1, <1>9, <1>10, <1>11, <1>12 DEF SeenInv, AlertsAfterRecovery

LEMMA SeenWrite ==
    ASSUME IInv, HomeInv, SeenInv, CallWrites PROVE SeenInv'
<1> USE DEF kept, history
<1>1. /\ call # None /\ call' = None /\ rules' = call.file
      /\ UNCHANGED <<clock, log, shown, runtime, levelsAt, tick, asked, kept>>
  BY DEF CallWrites, Free
<1>2. ASSUME NEW id \in Ids, call.file[id] # None PROVE LatchOK(call.file[id], runtime[id])
  <2>1. CASE id \in SystemIds
    <3>1. call.file[id].of = SystemRule(id).of /\ call.file[id].kind = SystemRule(id).kind
      BY <1>1, <1>2, <2>1 DEF HomeInv, BuiltInsStay, BuiltIn, IInv, SystemOwn, SystemRule
    <3>2. LatchOK(SystemRule(id), runtime[id])
      BY <2>1 DEF SeenInv
    <3> QED
      BY <3>1, <3>2 DEF LatchOK
  <2>2. CASE rules[id] # None /\ Alike(call.file[id], rules[id])
    BY <2>2 DEF SeenInv, Alike, LatchOK
  <2>3. CASE Unclaimed(id)
    BY <2>3 DEF Unclaimed, LatchOK, Latched
  <2> QED
    BY <1>1, <1>2, <2>1, <2>2, <2>3 DEF HomeInv, CallAlike, Ids
<1> QED
  BY <1>1, <1>2 DEF SeenInv, GapOK, LatchOK, SystemRule, AlertsAfterRecovery

LEMMA SeenStep ==
    ASSUME ~ReuseInTick, IInv, HomeInv, SaidInv, SeenInv, [Next]_vars PROVE SeenInv'
<1>1. CASE TickEvaluate \/ TickEvaluateBlind
  BY <1>1, EvaluateLines, SeenEvaluate
<1> QED
  BY <1>1, SeenRead, SeenElse, SeenWrite DEF Next, Tick, Call

-------------------------------------------------------------------------------
\* A built-in rule that watches the feed, over one tick that judges it.
LEMMA SilenceJudged ==
    ASSUME IInv, HomeInv, SilenceNoticed,
           NEW lines, lines \subseteq Times, Whole(lines), Evaluate(lines),
           NEW id \in SystemIds, catalogue[id] = "stale", rules[id] = None, levelsAt' > 0, ~runtime'[id].fired
    PROVE  \E t \in Times : t = runtime'[id].watermark /\ Real(t) /\ levelsAt' - t <= ForSeconds
<1> DEFINE r == SystemRule(id)
           prev == Previous(id, r)
           floor == WindowFloor(r, prev)
<1>1. Ticking /\ levelsAt' = IF LevelsDue(tick.now) THEN tick.now ELSE levelsAt
  BY DEF Evaluate
<1>2. tick.now > 0 /\ tick.now \in Nat /\ levelsAt \in Nat
  BY <1>1, BoundAssumption DEF HomeInv, Clocks, Ticking, IInv, TypeOK, Stamps, Times
<1>3. id \in Ids /\ tick.rules[id] = r /\ r \in Rules /\ r # None
  BY <1>2, SystemRuleTyped, NoneAssumption, SystemIdsAreIds DEF HomeInv, BuiltInsStay, IInv
<1>4. r.kind = "stale" /\ r.enabled /\ r.expiresAt = 0
  BY DEF SystemRule
<1> HIDE DEF r
<1>5. runtime'[id] = EvaluateRule(id, r, lines, tick.now).next
  BY <1>3, EvaluateEffect
<1>6. CASE LevelsDue(tick.now)
  <2>1. EvaluateRule(id, r, lines, tick.now) = EvaluateLevelish(r, prev, lines, tick.now)
    BY <1>4, <1>6 DEF EvaluateRule, Expired
  <2>2. prev \in Runtimes
    BY <1>3, PreviousTyped DEF IInv
  <2>3. /\ Carried(prev, lines, floor) \in Runtimes
        /\ lines # {} => Carried(prev, lines, floor).watermark = Last(lines)
    BY <2>2, CarriedFields
  <2>4. /\ EvaluateLevelish(r, prev, lines, tick.now).next.fired = Condition(r, lines, tick.now, floor)
        /\ EvaluateLevelish(r, prev, lines, tick.now).next.watermark = Carried(prev, lines, floor).watermark
    <3> HIDE DEF prev, floor
    <3>1. Judgeable(r, lines, tick.now, floor)
      BY <1>4 DEF Judgeable
    <3>2. EvaluateLevelish(r, prev, lines, tick.now).next
            = [Carried(prev, lines, floor) EXCEPT !.fired = Condition(r, lines, tick.now, floor)]
      BY <3>1 DEF EvaluateLevelish, Quiet, floor
    <3> QED
      BY <2>3, <3>2 DEF Runtimes
  <2>5. ~Condition(r, lines, tick.now, floor)
    BY <1>5, <2>1, <2>4
  <2>6. Alive(lines, tick.now)
    BY <1>4, <2>5 DEF Condition
  <2>7. lines # {} /\ Real(Newest(lines)) /\ tick.now - Newest(lines) <= ForSeconds
    BY <2>6 DEF Alive
  <2>8. Newest(lines) \in Times /\ Last(lines) = Newest(lines)
    BY <2>7, LastOf DEF Real
  <2>9. runtime'[id].watermark = Newest(lines)
    BY <1>5, <2>1, <2>3, <2>4, <2>7, <2>8
  <2>10. levelsAt' = tick.now
    BY <1>1, <1>6
  <2> QED
    BY <2>7, <2>8, <2>9, <2>10
<1>7. CASE ~LevelsDue(tick.now)
  <2>1. EvaluateRule(id, r, lines, tick.now).next = prev
    BY <1>4, <1>7 DEF EvaluateRule, Expired, Quiet
  <2>2. levelsAt > 0 /\ levelsAt' = levelsAt
    BY <1>1, <1>2, <1>7 DEF LevelsDue
  <2>3. runtime[id] # None
    BY <2>2 DEF HomeInv, BuiltInsStay
  <2>4. ~runtime[id].fired /\ runtime'[id] = runtime[id]
    BY <1>5, <2>1, <2>3 DEF Previous
  <2> QED
    BY <2>2, <2>4 DEF SilenceNoticed, Stored
<1> QED
  BY <1>6, <1>7

LEMMA SilenceStep ==
    ASSUME ~ReuseInTick, IInv, HomeInv, SilenceNoticed, [Next]_vars PROVE SilenceNoticed'
<1> USE DEF files, kept, history
<1>1. CASE TickEvaluate \/ TickEvaluateBlind
  <2>1. PICK lines : lines \subseteq Times /\ Whole(lines) /\ Evaluate(lines)
    BY <1>1, EvaluateLines
  <2>2. UNCHANGED <<log, rules, catalogue>>
    BY <2>1 DEF Evaluate
  <2>3. \A id \in SystemIds : catalogue[id] = "stale" /\ rules[id] = None /\ levelsAt' > 0 /\ ~runtime'[id].fired
                                 => \E t \in Times : t = runtime'[id].watermark /\ Real(t) /\ levelsAt' - t <= ForSeconds
    BY <2>1, SilenceJudged
  <2> QED
    BY <2>2, <2>3 DEF SilenceNoticed, Stored, Real
<1>2. CASE ~(TickEvaluate \/ TickEvaluateBlind)
  <2>1. /\ UNCHANGED <<runtime, levelsAt, catalogue>>
        /\ rules' = rules \/ (call # None /\ rules' = call.file)
        /\ log' = log \/ \E l : log' = [log EXCEPT ![clock + 1] = l]
    <3>1. CASE CallWrites \/ Advance \/ Push \/ UNCHANGED vars
      BY <3>1 DEF CallWrites, Free, Advance, Push, vars
    <3>2. CASE TickRead \/ TickReadBusy \/ TickFails
      BY <3>2 DEF TickRead, TickReadBusy, TickFails
    <3>3. CASE CreateReads \/ CreateArms \/ CallFails \/ (\E id \in Ids : CancelReads(id) \/ ResumeReads(id))
      BY <3>3 DEF CallFails, CreateReads, CreateArms, CancelReads, ResumeReads
    <3> QED
      BY <1>2, <3>1, <3>2, <3>3 DEF Next, Tick, Call
  <2>2. clock \in Nat
    BY BoundAssumption DEF IInv, TypeOK, Times
  <2>3. \A t \in Times : t <= clock => log'[t] = log[t]
    <3>1. \A t \in Times : t <= clock => t # clock + 1
      BY <2>2, BoundAssumption DEF Times
    <3>2. log \in [Times -> Lines \cup {None}]
      BY DEF IInv, TypeOK
    <3> QED
      BY <2>1, <3>1, <3>2
  <2>4. \A id \in SystemIds : rules'[id] = None => rules[id] = None
    BY <2>1 DEF HomeInv, BuiltInsStay
  <2>5. ASSUME NEW id \in SystemIds, catalogue'[id] = "stale", rules'[id] = None, levelsAt' > 0, ~runtime'[id].fired
        PROVE  \E t \in Times : t = runtime'[id].watermark /\ Real(t)' /\ levelsAt' - t <= ForSeconds
    <3>1. levelsAt > 0 /\ runtime'[id] = runtime[id] /\ runtime[id] # None
      BY <2>1, <2>5, SystemIdsAreIds DEF HomeInv, BuiltInsStay
    <3>2. PICK t \in Times : t = runtime[id].watermark /\ Real(t) /\ levelsAt - t <= ForSeconds
      BY <2>1, <2>4, <2>5 DEF SilenceNoticed, Stored
    <3>3. t <= clock
      BY <3>1, <3>2, SystemIdsAreIds DEF HomeInv, Clocks
    <3>4. Real(t)'
      BY <2>3, <3>2, <3>3 DEF Real
    <3> QED
      BY <2>1, <3>1, <3>2, <3>4
  <2> QED
    BY <2>5 DEF SilenceNoticed, Stored
<1> QED
  BY <1>1, <1>2

-------------------------------------------------------------------------------
LEMMA RulesInvariant ==
    ASSUME ~ReuseInTick PROVE Spec => [](IInv /\ HomeInv /\ SaidInv /\ SeenInv)
<1>1. Init => IInv /\ HomeInv /\ SaidInv /\ SeenInv
  BY InitInvariant, HomeInit, SaidInit, SeenInit
<1>2. IInv /\ HomeInv /\ SaidInv /\ SeenInv /\ [Next]_vars => (IInv /\ HomeInv /\ SaidInv /\ SeenInv)'
  BY StepInvariant, HomeStep, SaidStep, SeenStep
<1> QED
  BY <1>1, <1>2, PTL DEF Spec

\* A rule that ran out is collected only after its expiry was announced, and no
\* expiry is announced twice, whatever fails in between and however the agent's
\* calls and the ticks interleave (manage.ts gcExpired, runner.ts).
THEOREM ExpiryIsAnnounced ==
    ASSUME ~ReuseInTick PROVE Spec => []ExpiryAnnounced
<1>1. IInv /\ HomeInv /\ SaidInv /\ SeenInv => ExpiryAnnounced
  BY DEF SaidInv
<1> QED
  BY <1>1, RulesInvariant, PTL

\* No event is lost on a rule, late as the push may be and cut off as a copy may be: the
\* mark passes over no line that was logged while the rule was armed. None comes to it
\* twice, also when rules.json could not be read or the agent rewrote it, unless a tick
\* has found since a log whose last line is stamped before the event: the mark is the
\* stamp of the last line present (evaluate.ts:180, 231).
THEOREM EventsAreSeenOnce ==
    ASSUME ~ReuseInTick PROVE Spec => []EventsSeenOnce
<1>1. ASSUME IInv, SaidInv, SeenInv PROVE EventsSeenOnce
  <2>1. NothingSkipped
    <3>1. ASSUME NEW id \in Ids, rules[id] # None, rules[id].enabled, runtime[id] # None, NEW t \in Examined(id)
          PROVE  /\ rules[id].kind = "event" /\ log[t] = "enter" => reports[rules[id].of][t] # "never"
                 /\ rules[id].kind = "level" /\ log[t] = "high" => alerts[rules[id].of] # "never"
      BY <1>1, <3>1 DEF SeenInv, GapOK, Gapless, Examined
    <3> QED
      BY <3>1 DEF NothingSkipped, Stored
  <2> QED
    BY <1>1, <2>1 DEF EventsSeenOnce, SaidInv
<1> QED
  BY <1>1, RulesInvariant, PTL

\* A built-in rule that has not latched silence found, at the last turn of the rules about
\* readings, a log whose last line was fresh: a log that is missing, empty, unreadable,
\* behind or stamped 1970 is never taken for a healthy feed (evaluate.ts, staleness).
THEOREM SilenceIsNoticed ==
    ASSUME ~ReuseInTick PROVE Spec => []SilenceNoticed
<1>1. Init => SilenceNoticed
  BY DEF Init, SilenceNoticed
<1>2. IInv /\ HomeInv /\ SilenceNoticed /\ [Next]_vars => SilenceNoticed'
  BY SilenceStep
<1> QED
  BY <1>1, <1>2, RulesInvariant, PTL DEF Spec

\* A rule about a reading alerts again only after a tick that gave it a reason: a line that
\* says the condition had passed, a log that ends before the alert, for "stayed high for"
\* lines that begin too late, or for silence a fresh line. Its latch survives restarts,
\* unreadable logs and rules, and mutes (evaluate.ts, the latch; runner.ts, what is
\* persisted).
THEOREM AlertsFollowRecovery ==
    ASSUME ~ReuseInTick PROVE Spec => []AlertsAfterRecovery
<1>1. IInv /\ HomeInv /\ SaidInv /\ SeenInv => AlertsAfterRecovery
  BY DEF SeenInv
<1> QED
  BY <1>1, RulesInvariant, PTL
===============================================================================
