--------------------------- MODULE WatchdogProofs ---------------------------
(***************************************************************************)
(* What holds of the watchdog for every value of its constants: any        *)
(* cooldown, grace period and access age, any set of rule-engine failures, *)
(* and every fault of Watchdog switched on (unless a theorem says which is *)
(* off).  The invariant that carries the proofs is IInv.                   *)
(***************************************************************************)
EXTENDS Watchdog, SequenceTheorems, TLAPS

USE DEF Ok, Critical, Status, Absent

\* A tick past its second step works on a copy of the persisted state that is
\* still current, or on the default that stands for a file it could not read:
\* the watchdog is the file's only writer.
SnapshotCurrent ==
    pc \in {"loaded", "gathered"} =>
        \/ tick.previous = state
        \/ "state" \in Faults /\ tick.previous = DefaultState

\* The tick's own clock is never ahead of the clock.
TickBehind == tick.at <= now

\* There is a line to deliver whenever the watchdog is delivering.
OutboxFed == pc = "delivering" => outbox # <<>>

IInv ==
    /\ TypeOK
    /\ SnapshotCurrent
    /\ TickBehind
    /\ OutboxFed
    /\ HeldPageStillOwed
    /\ HoldEndsOnEscalation
-----------------------------------------------------------------------------
LEMMA DefaultsTyped ==
    /\ DefaultState \in AlertState
    /\ NoAccess \in AccessFile
    /\ NoTick \in Tick
BY BoundsAssumption
   DEF DefaultState, AlertState, NoAccess, AccessFile, NoTick, Tick, MaybeTime, Time, MaybeError

\* One tick's decision keeps the persisted state well typed.
LEMMA NextStateTyped ==
    ASSUME NEW t \in Tick
    PROVE  NextState(t) \in AlertState
<1>1. /\ t.previous \in AlertState
      /\ t.status \in Status
      /\ t.at \in Time
      /\ t.error \in MaybeError
      /\ t.trusted \in BOOLEAN
      /\ t.activity \in 0..MaxActivity
  BY DEF Tick
<1>2. NextStatus(t) \in Status
  BY <1>1 DEF NextStatus, DecidedStatus, AlertState
<1>3. NextAlertedAt(t) \in MaybeTime
  BY <1>1 DEF NextAlertedAt, DecidedAlertedAt, AlertState, MaybeTime
<1>4. Baseline(t) \in Status
  BY <1>1 DEF Baseline, Held, AlertState
<1>5. HeldStatus(t) \in Status \cup {Absent}
  BY <1>1, <1>4 DEF HeldStatus, AlertState
<1>6. HeldSince(t) \in MaybeTime
  BY <1>1 DEF HeldSince, AlertState, MaybeTime
<1>7. ErrorSince(t) \in MaybeTime
  BY <1>1 DEF ErrorSince, AlertState, MaybeTime
<1>8. Watermark(t) \in 0..MaxActivity
  BY <1>1, BoundsAssumption DEF Watermark, AlertState
<1> QED
  BY <1>1, <1>2, <1>3, <1>5, <1>6, <1>7, <1>8 DEF NextState, AlertState, MaybeTime

\* The lines of one tick are a sequence of messages.
LEMMA PartsTyped ==
    ASSUME NEW t \in Tick
    PROVE  Parts(t) \in Seq(Message)
<1>1. t.status \in Status /\ t.at \in Time /\ t.error \in MaybeError /\ t.activity \in 0..MaxActivity
  BY DEF Tick
<1> DEFINE Typed(m) == m \in Message
<1>2. Typed(Line("crossed", t.status, t)) /\ Typed(Line("recovered", Ok, t))
  BY <1>1 DEF Line, Message
<1>3. Typed(Line("engine-recovered", Ok, t)) /\ Typed(Line("activity", t.activity, t))
  BY <1>1 DEF Line, Message
<1>4. ReportNow(t) => Typed(Line("degraded", t.error, t))
  BY <1>1 DEF Line, Message, ReportNow, MaybeError
<1> HIDE DEF Typed
<1>5. /\ When(Crossed(t) /\ ~Hold(t), Line("crossed", t.status, t)) \in Seq(Message)
      /\ When(Recovered(t) /\ ~Hold(t), Line("recovered", Ok, t)) \in Seq(Message)
      /\ When(ReportNow(t), Line("degraded", t.error, t)) \in Seq(Message)
      /\ When(EngineRecovered(t), Line("engine-recovered", Ok, t)) \in Seq(Message)
      /\ When(ActivityIsNew(t), Line("activity", t.activity, t)) \in Seq(Message)
  BY <1>2, <1>3, <1>4 DEF When, Typed
<1> QED
  BY <1>5 DEF Parts
LEMMA ToldTyped ==
    ASSUME NEW m \in Message, phone \in Phone
    PROVE  Told(m) \in Phone
BY DEF Told, Phone, Message, MaybeTime

LEMMA RememberTyped ==
    ASSUME NEW t \in Tick, past \in Past, phone \in Phone
    PROVE  Remember(t) \in Past
<1>1. KnewLess(t) \in BOOLEAN
  BY DEF KnewLess
<1> QED
  BY <1>1 DEF Remember, Past, Tick, MaybeError, MaybeTime

\* A delivery only takes back what the history says of dips and of the log.
LEMMA DeliveredFields ==
    ASSUME NEW m, past \in Past
    PROVE  /\ Delivered(m) \in Past
           /\ Delivered(m).seen = past.seen
           /\ Delivered(m).error = past.error /\ Delivered(m).errorSince = past.errorSince
           /\ Delivered(m).dipped =
                (past.dipped /\ m.kind \notin {"crossed", "recovered"})
           /\ Delivered(m).behind =
                (past.behind /\ ~(m.kind = "activity" /\ m.what >= phone.activity))
<1>1. CASE m.kind \in {"crossed", "recovered"}
  BY <1>1 DEF Delivered, Past
<1>2. CASE m.kind = "activity" /\ m.what >= phone.activity
  <2>1. Delivered(m) = [past EXCEPT !.behind = FALSE]
    BY <1>2 DEF Delivered
  <2> QED
    BY <1>2, <2>1 DEF Past
<1>3. CASE ~(m.kind \in {"crossed", "recovered"}) /\ ~(m.kind = "activity" /\ m.what >= phone.activity)
  <2>1. Delivered(m) = past
    BY <1>3 DEF Delivered
  <2> QED
    BY <1>3, <2>1 DEF Past
<1> QED
  BY <1>1, <1>2, <1>3
-----------------------------------------------------------------------------
\* Nothing the watchdog or its surroundings do breaks the typing.
LEMMA TypeInductive ==
    ASSUME TypeOK, OutboxFed, [Next]_vars
    PROVE  TypeOK'
<1> USE BoundsAssumption, LevelsAssumption DEF TypeOK
<1>1. CASE Elapse
  BY <1>1 DEF Elapse, Time
<1>2. CASE RackChanges
  BY <1>2 DEF RackChanges
<1>3. CASE FeedChanges
  BY <1>3 DEF FeedChanges
<1>4. CASE SentryWrites
  <2>1. PICK e \in BOOLEAN :
          /\ access' = [stamp |-> now, expected |-> e]
          /\ past' = [past EXCEPT !.arrived = IF e /\ ~access.expected THEN rack ELSE @]
    BY <1>4 DEF SentryWrites
  <2>2. access' \in AccessFile
    BY <2>1 DEF AccessFile, MaybeTime
  <2>3. past' \in Past
    <3>1. past' = [past EXCEPT !.arrived = rack] \/ past' = [past EXCEPT !.arrived = past.arrived]
      BY <2>1
    <3>2. past \in Past /\ rack \in Status
      OBVIOUS
    <3> HIDE DEF TypeOK
    <3> QED
      BY <3>1, <3>2 DEF Past
  <2> QED
    BY <1>4, <2>2, <2>3 DEF SentryWrites
<1>5. CASE ActivityLogged
  BY <1>5 DEF ActivityLogged
<1>6. CASE Sample
  BY <1>6, DefaultsTyped DEF Sample, Tick
<1>7. CASE Load
  BY <1>7, DefaultsTyped DEF Load, Tick
<1>8. CASE Gather
  <2>0. /\ LastActivity \subseteq 0..MaxActivity
        /\ access \in AccessFile /\ NoAccess \in AccessFile
    BY DefaultsTyped DEF LastActivity
  <2> HIDE DEF TypeOK
  <2>1. PICK a \in 0..MaxActivity, f \in AccessFile, e \in MaybeError :
          tick' = [tick EXCEPT !.activity = a, !.access = f, !.error = e]
    BY <1>8, <2>0 DEF Gather
  <2>2. tick' \in Tick
    BY <2>1 DEF TypeOK, Tick
  <2> QED
    BY <1>8, <2>2 DEF Gather, TypeOK
<1>9. CASE Persist
  BY <1>9, DefaultsTyped, NextStateTyped, PartsTyped, RememberTyped DEF Persist
<1>10. CASE Deliver
  <2>1. Head(outbox) \in Message /\ Tail(outbox) \in Seq(Message)
    BY <1>10 DEF Deliver, OutboxFed
  <2>2. phone' \in Phone
    BY <1>10, <2>1, ToldTyped DEF Deliver
  <2>3. past' \in Past
    BY <1>10, DeliveredFields DEF Deliver
  <2> QED
    BY <1>10, <2>1, <2>2, <2>3 DEF Deliver
<1>11. CASE WriteFails
  BY <1>11, DefaultsTyped DEF WriteFails
<1>12. CASE Crash
  BY <1>12, DefaultsTyped DEF Crash
<1>13. CASE UNCHANGED vars
  BY <1>13 DEF vars
<1> QED
  BY <1>1, <1>2, <1>3, <1>4, <1>5, <1>6, <1>7, <1>8, <1>9, <1>10, <1>11, <1>12, <1>13
  DEF Next, Environment, Watcher

\* The watchdog always works on a current copy, a clock in the past, and has
\* something to deliver when it delivers.
LEMMA ProcessInductive ==
    ASSUME TypeOK, SnapshotCurrent, TickBehind, OutboxFed, [Next]_vars
    PROVE  SnapshotCurrent' /\ TickBehind' /\ OutboxFed'
<1> USE BoundsAssumption DEF SnapshotCurrent, TickBehind, OutboxFed
<1>1. now \in Nat /\ tick.at \in Nat /\ NoTick.at = 0
  BY DEF TypeOK, Time, Tick, NoTick
<1>2. CASE Environment
  BY <1>1, <1>2 DEF Environment, Elapse, RackChanges, FeedChanges, SentryWrites, ActivityLogged
<1>3. CASE Sample
  BY <1>1, <1>3 DEF Sample, NoTick
<1>4. CASE Load
  BY <1>1, <1>4 DEF Load, TypeOK, Tick
<1>5. CASE Gather
  BY <1>1, <1>5 DEF Gather, TypeOK, Tick
<1>6. CASE Persist
  BY <1>1, <1>6 DEF Persist
<1>7. CASE Deliver
  <2> HIDE DEF SnapshotCurrent, TickBehind
  <2>1. outbox \in Seq(Message) /\ outbox # <<>>
    BY <1>7 DEF Deliver, TypeOK
  <2>2. Len(Tail(outbox)) = Len(outbox) - 1 /\ Len(outbox) \in Nat
    BY <2>1, HeadTailProperties, EmptySeq, Zenon
  <2>3. Len(<<>>) = 0
    BY EmptySeq, Zenon
  <2>4. Len(outbox) # 1 => Tail(outbox) # <<>>
    <3>1. SUFFICES ASSUME Tail(outbox) = <<>> PROVE Len(outbox) = 1
      OBVIOUS
    <3>2. Len(Tail(outbox)) = 0
      BY <2>3, <3>1, Zenon
    <3> QED
      BY <2>2, <3>2
  <2> QED
    BY <1>1, <1>7, <2>4 DEF Deliver, SnapshotCurrent, TickBehind
<1>8. CASE WriteFails \/ Crash
  BY <1>1, <1>8 DEF WriteFails, Crash
<1>9. CASE UNCHANGED vars
  BY <1>9 DEF vars
<1> QED
  BY <1>2, <1>3, <1>4, <1>5, <1>6, <1>7, <1>8, <1>9 DEF Next, Watcher
-----------------------------------------------------------------------------
\* The cooldown that has elapsed stays elapsed: a decision that fires for a
\* status goes on firing for it as long as the persisted state is the same.
LEMMA DecisionPersists ==
    ASSUME NEW t \in Tick, NEW u \in Tick, t.at <= u.at, t.status = u.status, u.trusted,
           t.previous.lastStatus = u.previous.lastStatus,
           t.previous.lastAlertedAt = u.previous.lastAlertedAt,
           ShouldAlert(t)
    PROVE  ShouldAlert(u)
<1>1. t.at \in Int /\ u.at \in Int /\ t.previous \in AlertState
  BY DEF Tick, Time
<1>2. t.previous.lastAlertedAt = Absent \/ t.previous.lastAlertedAt \in Int
  BY <1>1 DEF AlertState, MaybeTime, Time
<1> QED
  BY <1>1, <1>2, BoundsAssumption DEF ShouldAlert, Crossed, Recovered, CooldownElapsed

\* The tick that HeldPageStillOwed asks about: TickAt(s) is At(now, s, state).
At(n, s, p) == [NoTick EXCEPT !.at = n, !.status = s, !.trusted = TRUE, !.previous = p]

LEMMA AtTyped ==
    ASSUME NEW n \in Time, NEW s \in Status, NEW p \in AlertState
    PROVE  /\ At(n, s, p) \in Tick
           /\ At(n, s, p).at = n /\ At(n, s, p).status = s
           /\ At(n, s, p).trusted /\ At(n, s, p).previous = p
BY DefaultsTyped DEF At, Tick

\* What a tick that holds a page, or keeps a held one, leaves in the file.
LEMMA HeldAfterTick ==
    ASSUME NEW t \in Tick, Held(NextState(t))
    PROVE  /\ NextState(t).lastStatus = t.previous.lastStatus
           /\ NextState(t).lastAlertedAt = t.previous.lastAlertedAt
           /\ \/ Hold(t) /\ NextState(t).heldStatus = Baseline(t)
              \/ /\ ~t.trusted
                 /\ Held(t.previous)
                 /\ NextState(t).heldStatus = t.previous.heldStatus
<1>1. CASE Hold(t)
  BY <1>1 DEF NextState, NextStatus, NextAlertedAt, HeldStatus
<1>2. CASE ~Hold(t)
  <2>1. NextState(t).heldStatus = HeldStatus(t)
    BY DEF NextState
  <2>2. ~t.trusted /\ HeldStatus(t) = t.previous.heldStatus
    BY <1>2, <2>1 DEF Held, HeldStatus
  <2>3. ~Crossed(t) /\ ~Recovered(t)
    BY <2>2 DEF Crossed, Recovered
  <2>4. NextStatus(t) = t.previous.lastStatus /\ NextAlertedAt(t) = t.previous.lastAlertedAt
    BY <1>2, <2>2, <2>3 DEF NextStatus, NextAlertedAt, DecidedStatus, DecidedAlertedAt
  <2> QED
    BY <2>1, <2>2, <2>4 DEF NextState, Held
<1> QED
  BY <1>1, <1>2

\* A step that leaves the file and the last trusted status alone keeps both facts
\* about a hold, however far it moves the clock.
LEMMA HoldKept ==
    ASSUME IInv, TypeOK', state' = state, past'.seen = past.seen, now <= now'
    PROVE  HeldPageStillOwed' /\ HoldEndsOnEscalation'
<1>1. SUFFICES ASSUME Held(state) PROVE ShouldAlert(TickAt(past.seen))' /\ past.seen <= state.heldStatus
  BY DEF HeldPageStillOwed, HoldEndsOnEscalation, Held
<1>2. now \in Time /\ now' \in Time /\ past.seen \in Status /\ state \in AlertState
  BY DEF IInv, TypeOK, Past
<1>3. ShouldAlert(At(now, past.seen, state))
  BY <1>1 DEF IInv, HeldPageStillOwed, TickAt, At
<1>4. ShouldAlert(At(now', past.seen, state))
  BY <1>2, <1>3, AtTyped, DecisionPersists
<1>5. ShouldAlert(TickAt(past.seen))'
  BY <1>4 DEF TickAt, At
<1> QED
  BY <1>1, <1>5 DEF IInv, HoldEndsOnEscalation

LEMMA HoldPersisted ==
    ASSUME IInv, TypeOK', Persist
    PROVE  HeldPageStillOwed' /\ HoldEndsOnEscalation'
<1>1. SUFFICES ASSUME Held(state')
               PROVE  ShouldAlert(TickAt(past.seen))' /\ past'.seen <= state'.heldStatus
  BY DEF HeldPageStillOwed, HoldEndsOnEscalation, Held
<1>2. /\ tick \in Tick /\ tick.at \in Int /\ tick.at <= now /\ tick.previous \in AlertState
      /\ state' = NextState(tick) /\ now' = now /\ past' = Remember(tick)
      /\ now \in Time /\ past \in Past /\ past' \in Past /\ state' \in AlertState
  BY DEF IInv, TypeOK, TickBehind, Persist, Tick, Time
<1>3. /\ state'.lastStatus = tick.previous.lastStatus
      /\ state'.lastAlertedAt = tick.previous.lastAlertedAt
      /\ \/ Hold(tick) /\ state'.heldStatus = Baseline(tick)
         \/ /\ ~tick.trusted
            /\ Held(tick.previous)
            /\ state'.heldStatus = tick.previous.heldStatus
  BY <1>1, <1>2, HeldAfterTick
<1>4. past'.seen \in Status
  BY <1>2 DEF Past
<1>5. ShouldAlert(At(now, past'.seen, state')) => ShouldAlert(TickAt(past.seen))'
  BY <1>2 DEF TickAt, At
<1>6. /\ At(now, past'.seen, state') \in Tick
      /\ At(now, past'.seen, state').at = now
      /\ At(now, past'.seen, state').status = past'.seen
      /\ At(now, past'.seen, state').trusted
      /\ At(now, past'.seen, state').previous = state'
  BY <1>2, <1>4, AtTyped
<1>7. CASE Hold(tick) /\ state'.heldStatus = Baseline(tick)
  <2>1. tick.trusted /\ ShouldAlert(tick)
    BY <1>7 DEF Hold, ShouldAlert, Crossed, Recovered
  <2>2. past'.seen = tick.status
    BY <1>2, <2>1 DEF Remember, Past
  <2>3. ShouldAlert(At(now, past'.seen, state'))
    BY <1>2, <1>3, <1>6, <2>1, <2>2, DecisionPersists
  <2>4. tick.status <= Baseline(tick)
    BY <1>2, <1>7 DEF Hold, IsWorseThan, Baseline, Held, Tick, AlertState
  <2> QED
    BY <1>5, <1>7, <2>2, <2>3, <2>4
<1>8. CASE /\ ~tick.trusted
           /\ Held(tick.previous)
           /\ state'.heldStatus = tick.previous.heldStatus
  <2>1. tick.previous = state
    BY <1>8 DEF IInv, SnapshotCurrent, Persist, Held, DefaultState
  <2>2. past'.seen = past.seen
    BY <1>2, <1>8 DEF Remember, Past
  <2>3. ShouldAlert(At(now, past.seen, state)) /\ past.seen <= state.heldStatus
    BY <1>8, <2>1 DEF IInv, HeldPageStillOwed, HoldEndsOnEscalation, TickAt, At
  <2>4. /\ At(now, past.seen, state) \in Tick
        /\ At(now, past.seen, state).at = now
        /\ At(now, past.seen, state).status = past.seen
        /\ At(now, past.seen, state).previous = state
    BY <1>2, <1>4, <2>1, <2>2, AtTyped
  <2>5. ShouldAlert(At(now, past'.seen, state'))
    BY <1>2, <1>3, <1>6, <2>1, <2>2, <2>3, <2>4, DecisionPersists DEF Time
  <2> QED
    BY <1>5, <1>8, <2>1, <2>2, <2>3, <2>5
<1> QED
  BY <1>3, <1>7, <1>8
-----------------------------------------------------------------------------
LEMMA InitImpliesIInv == Init => IInv
<1>1. SUFFICES ASSUME Init PROVE IInv
  OBVIOUS
<1>2. TypeOK
  BY <1>1, DefaultsTyped, LevelsAssumption, BoundsAssumption, EmptySeq
  DEF Init, TypeOK, Time, Phone, Past, MaybeTime, MaybeError
<1>3. SnapshotCurrent /\ TickBehind /\ OutboxFed
  BY <1>1 DEF Init, SnapshotCurrent, TickBehind, OutboxFed, NoTick
<1>4. ~Held(state)
  BY <1>1 DEF Init, Held, DefaultState
<1> QED
  BY <1>2, <1>3, <1>4 DEF IInv, HeldPageStillOwed, HoldEndsOnEscalation

\* A tick that crosses and does not hold has that page as its first line.
LEMMA CrossedFirst ==
    ASSUME NEW t, Crossed(t), ~Hold(t)
    PROVE  Parts(t) # <<>> /\ Head(Parts(t)) = Line("crossed", t.status, t)
<1> QED
  BY DEF Parts, When

LEMMA IInvInductive == IInv /\ [Next]_vars => IInv'
<1>1. SUFFICES ASSUME IInv, [Next]_vars PROVE IInv'
  OBVIOUS
<1>2. TypeOK'
  BY <1>1, TypeInductive DEF IInv
<1>3. SnapshotCurrent' /\ TickBehind' /\ OutboxFed'
  BY <1>1, ProcessInductive DEF IInv
<1>4. HeldPageStillOwed' /\ HoldEndsOnEscalation'
  <2>1. CASE Persist
    BY <1>1, <1>2, <2>1, HoldPersisted
  <2>2. CASE ~Persist
    <3>1. now \in Int /\ past \in Past
      BY <1>1 DEF IInv, TypeOK, Time
    <3>2. state' = state
      BY <1>1, <2>2 DEF Next, Environment, Watcher, vars, Elapse, RackChanges, FeedChanges,
         SentryWrites, ActivityLogged, Sample, Load, Gather, Deliver, WriteFails, Crash
    <3>3. past'.seen = past.seen
      <4>1. CASE SentryWrites
        BY <3>1, <4>1 DEF SentryWrites, Past
      <4>2. CASE Deliver
        BY <3>1, <4>2, DeliveredFields DEF Deliver
      <4>3. CASE ~SentryWrites /\ ~Deliver
        <5>1. past' = past
          BY <1>1, <2>2, <4>3 DEF Next, Environment, Watcher, vars, Elapse, RackChanges,
             FeedChanges, ActivityLogged, Sample, Load, Gather, WriteFails, Crash
        <5> QED
          BY <5>1
      <4> QED
        BY <4>1, <4>2, <4>3
    <3>4. now <= now'
      <4>1. now' = now + 1 \/ now' = now
        BY <1>1, <2>2 DEF Next, Environment, Watcher, vars, Elapse, RackChanges, FeedChanges,
           SentryWrites, ActivityLogged, Sample, Load, Gather, Deliver, WriteFails, Crash
      <4> QED
        BY <3>1, <4>1
    <3> QED
      BY <1>1, <1>2, <3>2, <3>3, <3>4, HoldKept
  <2> QED
    BY <2>1, <2>2
<1> QED
  BY <1>2, <1>3, <1>4 DEF IInv

LEMMA Invariance == Spec => []IInv
BY InitImpliesIInv, IInvInductive, PTL DEF Spec

\* The state of the watchdog is well typed in every reachable state.
THEOREM TypeCorrect == Spec => []TypeOK
<1>1. IInv => TypeOK
  BY DEF IInv
<1> QED
  BY <1>1, Invariance, PTL

\* A page that is held stays owed: tick.ts does not advance lastStatus while a
\* page is held, so the same reading would page as soon as nothing holds it.
THEOREM HeldPagesAreOwed == Spec => []HeldPageStillOwed
<1>1. IInv => HeldPageStillOwed
  BY DEF IInv
<1> QED
  BY <1>1, Invariance, PTL

\* A page is never still held after a trusted reading worse than the status the
\* hold began with.
THEOREM EscalationEndsHold == Spec => []HoldEndsOnEscalation
<1>1. IInv => HoldEndsOnEscalation
  BY DEF IInv
<1> QED
  BY <1>1, Invariance, PTL

\* If the state file can always be read back, the baseline and the start of a
\* hold do not move from the tick that begins it to the tick that ends it, and a
\* hold ends with a page or with a trusted reading that leaves nothing to page.
THEOREM HoldsAreFaithful ==
    ASSUME "state" \notin Faults
    PROVE  Spec => HoldIsFaithful
<1> DEFINE Fixed == /\ state'.heldStatus = state.heldStatus
                    /\ state'.heldSince = state.heldSince
           Told1 == outbox' # <<>> /\ Head(outbox').kind \in {"crossed", "recovered"}
           Calm == tick.trusted /\ tick.status <= state.lastStatus
<1>1. ASSUME IInv, [Next]_vars, ~Persist
      PROVE  state' = state
  BY <1>1 DEF Next, Environment, Watcher, vars, Elapse, RackChanges, FeedChanges,
     SentryWrites, ActivityLogged, Sample, Load, Gather, Deliver, WriteFails, Crash
<1>2. ASSUME IInv, Persist
      PROVE  tick.previous = state /\ state' = NextState(tick) /\ tick \in Tick
  BY <1>2 DEF IInv, SnapshotCurrent, Persist, TypeOK
<1>3. ASSUME IInv, [Next]_vars, Held(state), Held(state')
      PROVE  Fixed
  <2>1. CASE Persist
    <3>1. tick.previous = state /\ state' = NextState(tick) /\ tick \in Tick
      BY <1>2, <1>3, <2>1
    <3>2. Hold(tick) \/ ~tick.trusted
      BY <1>3, <3>1, HeldAfterTick
    <3>3. state'.heldStatus = HeldStatus(tick) /\ state'.heldSince = HeldSince(tick)
      BY <3>1 DEF NextState
    <3> QED
      BY <1>3, <3>1, <3>2, <3>3 DEF HeldStatus, HeldSince, Baseline
  <2>2. CASE ~Persist
    BY <1>1, <1>3, <2>2
  <2> QED
    BY <2>1, <2>2
<1>4. ASSUME IInv, [Next]_vars, Held(state), ~Held(state')
      PROVE  Told1 \/ Calm
  <2>1. Persist
    BY <1>1, <1>4
  <2>2. tick.previous = state /\ state' = NextState(tick) /\ tick \in Tick
    BY <1>2, <1>4, <2>1
  <2>3. ~Hold(tick) /\ tick.trusted
    BY <1>4, <2>2 DEF NextState, Held, HeldStatus, Baseline, Tick, Status, Absent, Ok, Critical
  <2>4. CASE tick.status <= state.lastStatus
    BY <2>3, <2>4
  <2>5. CASE ~(tick.status <= state.lastStatus)
    <3>1. tick.status \in 0..2 /\ state.lastStatus \in 0..2
      BY <1>4, <2>2 DEF IInv, TypeOK, AlertState, Tick, Status, Ok, Critical
    <3>2. Crossed(tick)
      BY <2>2, <2>3, <2>5, <3>1 DEF Crossed, IsWorseThan, Ok
    <3>3. outbox' = Parts(tick)
      BY <2>1 DEF Persist
    <3>4. outbox' # <<>> /\ Head(outbox') = Line("crossed", tick.status, tick)
      BY <2>3, <3>2, <3>3, CrossedFirst
    <3> QED
      BY <3>4 DEF Line
  <2> QED
    BY <2>4, <2>5
<1>5. IInv /\ [Next]_vars => [Held(state) /\ Held(state') => Fixed]_vars
  BY <1>3
<1>6. IInv /\ [Next]_vars => [Held(state) /\ ~Held(state') => Told1 \/ Calm]_vars
  BY <1>4
<1>7. Spec => HoldBaselineFixed
  BY <1>5, Invariance, PTL DEF Spec, HoldBaselineFixed
<1>8. Spec => HoldNeverLeaks
  BY <1>6, Invariance, PTL DEF Spec, HoldNeverLeaks
<1> QED
  BY <1>7, <1>8 DEF HoldIsFaithful
-----------------------------------------------------------------------------
(* The lines of a tick, and the order they are delivered in.               *)

\* A tick says at most one thing of the rack, then one of the rule engine, then
\* one of the board.
Rank(m) ==
    CASE m.kind \in {"crossed", "recovered"} -> 1
      [] m.kind \in {"degraded", "engine-recovered"} -> 2
      [] m.kind = "activity" -> 3

Ordered(q) == \A i, j \in 1..Len(q) : i < j => Rank(q[i]) < Rank(q[j])

\* q may be what is left to deliver at time n.
Deliverable(q, n) == Ordered(q) /\ \A i \in 1..Len(q) : q[i].at <= n

Says(q, kind) == q # <<>> /\ Head(q).kind = kind
Holds(q, kind) == \E i \in 1..Len(q) : q[i].kind = kind

\* Only a tick that is delivering has lines, and they are of that tick.
OutboxInOrder == Deliverable(outbox, now) /\ (pc # "delivering" => outbox = <<>>)

InFlight == pc \in {"sampled", "loaded", "gathered"}

\* The phone heard of nothing that is later than the tick in flight.
PhoneBehind == phone.at <= now /\ (InFlight => phone.at <= tick.at)

-----------------------------------------------------------------------------
\* What the file says of the last page against what the phone shows, unless the
\* rack was seen below it: the level on the phone is not above the one in the
\* file, and the cooldown runs from no earlier than the phone's page.
Backs(s, p) == /\ p.status <= s.lastStatus
               /\ s.lastAlertedAt # Absent
               /\ p.at <= s.lastAlertedAt

\* A page about to be delivered is the one the file remembers, and repeats the
\* phone's level only after the cooldown.
Due(m, s, p, dipped) ==
    /\ s.lastStatus = m.what /\ s.lastAlertedAt = m.at /\ m.what # Ok
    /\ m.what = p.status /\ ~dipped => m.at - p.at >= Cooldown

PagesBacked ==
    /\ phone.status # Ok /\ ~past.dipped => Backs(state, phone)
    /\ Says(outbox, "crossed") => Due(Head(outbox), state, phone, past.dipped)
    /\ Says(outbox, "recovered") => Head(outbox).what = Ok

\* Whatever bad news the file remembers was delivered, or is about to be; good
\* news waits only while the bad news is on the phone.
NewsDelivered ==
    /\ state.lastStatus # Ok => phone.status # Ok \/ Says(outbox, "crossed")
    /\ Says(outbox, "crossed") => Head(outbox).what # Ok
    /\ Says(outbox, "recovered") => phone.status # Ok /\ state.lastStatus = Ok
    /\ state.ruleEngineReported => phone.engine \/ Holds(outbox, "degraded")
    /\ Holds(outbox, "engine-recovered") => phone.engine /\ ~state.ruleEngineReported

\* Unless a tick knew less than the phone, the watermark has not fallen behind it.
\* A line still to be delivered is the one at the watermark.
WatermarkAhead ==
    /\ ~past.behind => phone.activity <= state.lastActivityAt
    /\ \A i \in 1..Len(outbox) : outbox[i].kind = "activity" =>
        /\ outbox[i].what = state.lastActivityAt
        /\ phone.activity < state.lastActivityAt \/ past.behind

\* The run of failures in the file is the one every tick has seen, and started
\* no earlier.
OutageBacked ==
    /\ state.ruleEngineError = past.error
    /\ past.errorSince <= now
    /\ InFlight => past.errorSince <= tick.at
    /\ past.error # NoError =>
        /\ past.errorSince # Absent
        /\ state.ruleEngineErrorSince # Absent
        /\ past.errorSince <= state.ruleEngineErrorSince
-----------------------------------------------------------------------------
\* What a line of tick t reports is what the tick decided.
Announces(m, t) ==
    /\ m.at = t.at
    /\ \/ m.kind = "crossed" /\ m.what = t.status /\ Crossed(t) /\ ~Hold(t)
       \/ m.kind = "recovered" /\ m.what = Ok /\ Recovered(t) /\ ~Hold(t)
       \/ m.kind = "degraded" /\ m.what = t.error /\ ReportNow(t)
       \/ m.kind = "engine-recovered" /\ EngineRecovered(t)
       \/ m.kind = "activity" /\ m.what = t.activity /\ ActivityIsNew(t)

LEMMA PartsOrdered ==
    ASSUME NEW t \in Tick
    PROVE  /\ Ordered(Parts(t))
           /\ \A i \in 1..Len(Parts(t)) : Announces(Parts(t)[i], t)
           /\ ReportNow(t) => Holds(Parts(t), "degraded")
<1> DEFINE c == Line("crossed", t.status, t)
           r == Line("recovered", Ok, t)
           d == Line("degraded", t.error, t)
           e == Line("engine-recovered", Ok, t)
           a == Line("activity", t.activity, t)
           One == When(Crossed(t) /\ ~Hold(t), c) \o When(Recovered(t) /\ ~Hold(t), r)
           Two == When(ReportNow(t), d) \o When(EngineRecovered(t), e)
           Three == When(ActivityIsNew(t), a)
<1>1. /\ c.kind = "crossed" /\ c.what = t.status /\ c.at = t.at
      /\ r.kind = "recovered" /\ r.what = Ok /\ r.at = t.at
      /\ d.kind = "degraded" /\ d.what = t.error /\ d.at = t.at
      /\ e.kind = "engine-recovered" /\ e.at = t.at
      /\ a.kind = "activity" /\ a.what = t.activity /\ a.at = t.at
  BY DEF Line
<1>2. ~(Crossed(t) /\ Recovered(t)) /\ ~(ReportNow(t) /\ EngineRecovered(t))
  BY DEF Crossed, Recovered, ReportNow, EngineRecovered
<1>3. \/ One = <<>>
      \/ \E m : One = <<m>> /\ Announces(m, t) /\ Rank(m) = 1
  <2>1. CASE Crossed(t) /\ ~Hold(t)
    BY <1>1, <1>2, <2>1 DEF When, Announces, Rank
  <2>2. CASE Recovered(t) /\ ~Hold(t)
    BY <1>1, <1>2, <2>2 DEF When, Announces, Rank
  <2> QED
    BY <2>1, <2>2 DEF When
<1>4. \/ Two = <<>> /\ ~ReportNow(t)
      \/ \E m : /\ Two = <<m>> /\ Announces(m, t) /\ Rank(m) = 2
                /\ ReportNow(t) => m.kind = "degraded"
  <2>1. CASE ReportNow(t)
    BY <1>1, <1>2, <2>1 DEF When, Announces, Rank
  <2>2. CASE EngineRecovered(t)
    BY <1>1, <1>2, <2>2 DEF When, Announces, Rank
  <2> QED
    BY <2>1, <2>2 DEF When
<1>5. Three = <<>> \/ \E m : Three = <<m>> /\ Announces(m, t) /\ Rank(m) = 3
  BY <1>1 DEF When, Announces, Rank
<1>6. Parts(t) = One \o Two \o Three
  BY DEF Parts, When
<1> HIDE DEF One, Two, Three
<1>7. PICK x : One = <<>> \/ (One = <<x>> /\ Announces(x, t) /\ Rank(x) = 1)
  BY <1>3
<1>8. PICK y : \/ Two = <<>> /\ ~ReportNow(t)
               \/ /\ Two = <<y>> /\ Announces(y, t) /\ Rank(y) = 2
                  /\ ReportNow(t) => y.kind = "degraded"
  BY <1>4
<1>9. PICK z : Three = <<>> \/ (Three = <<z>> /\ Announces(z, t) /\ Rank(z) = 3)
  BY <1>5
<1>10. CASE Three = <<>>
  <2>1. CASE One = <<>> /\ Two = <<>>
    BY <1>6, <1>8, <1>10, <2>1 DEF Ordered, Holds
  <2>2. CASE One = <<>> /\ Two = <<y>>
    <3>1. Parts(t) = <<y>>
      BY <1>6, <1>10, <2>2
    <3> QED
      BY <1>8, <2>2, <3>1 DEF Ordered, Holds
  <2>3. CASE One = <<x>> /\ Two = <<>>
    <3>1. Parts(t) = <<x>>
      BY <1>6, <1>10, <2>3
    <3> QED
      BY <1>7, <1>8, <2>3, <3>1 DEF Ordered, Holds
  <2>4. CASE One = <<x>> /\ Two = <<y>>
    <3>1. Len(Parts(t)) = 2 /\ Parts(t)[1] = x /\ Parts(t)[2] = y
      <4>1. <<x>> \in Seq({x, y}) /\ <<y>> \in Seq({x, y})
        OBVIOUS
      <4>2. <<x>> \o <<y>> \in Seq({x, y}) /\ (<<x>> \o <<y>>) \o <<>> = <<x>> \o <<y>>
        BY <4>1, ConcatProperties, ConcatEmptySeq
      <4>3. Parts(t) = <<x>> \o <<y>>
        BY <1>6, <1>10, <2>4, <4>2
      <4> QED
        BY <4>1, <4>3, ConcatProperties
    <3> QED
      BY <1>7, <1>8, <2>4, <3>1 DEF Ordered, Holds
  <2> QED
    BY <1>7, <1>8, <2>1, <2>2, <2>3, <2>4
<1>11. CASE Three = <<z>> /\ Announces(z, t) /\ Rank(z) = 3
  BY <1>6, <1>7, <1>8, <1>11 DEF Ordered, Holds
<1> QED
  BY <1>9, <1>10, <1>11

\* Delivering the first line leaves an ordered rest, all of it of a higher rank.
LEMMA TailOrdered ==
    ASSUME NEW q \in Seq(Message), NEW n, Deliverable(q, n), q # <<>>
    PROVE  /\ Deliverable(Tail(q), n)
           /\ Head(q) \in Message /\ Head(q) = q[1] /\ 1 \in 1..Len(q)
           /\ \A i \in 1..Len(Tail(q)) :
                /\ Rank(Head(q)) < Rank(Tail(q)[i])
                /\ i + 1 \in 1..Len(q) /\ Tail(q)[i] = q[i + 1]
           /\ \A i \in 1..Len(q) : i = 1 \/ (i - 1 \in 1..Len(Tail(q)) /\ Tail(q)[i - 1] = q[i])
<1>1. /\ Len(q) \in Nat /\ Len(q) > 0
      /\ Tail(q) \in Seq(Message) /\ Len(Tail(q)) = Len(q) - 1
      /\ Head(q) = q[1] /\ Head(q) \in Message
      /\ \A i \in 1..Len(Tail(q)) : Tail(q)[i] = q[i + 1]
  OBVIOUS
<1>2. \A i \in 1..Len(Tail(q)) : i + 1 \in 1..Len(q) /\ 1 < i + 1 /\ 1 \in 1..Len(q)
  BY <1>1
<1> QED
  BY <1>1, <1>2 DEF Deliverable, Ordered

\* Between two persisted ticks nothing but a delivery or a crash touches the file,
\* the lines, the phone, or what the persisted ticks have seen.
LEMMA QuietSteps ==
    ASSUME TypeOK, [Next]_vars, ~Persist, ~Deliver
    PROVE  /\ state' = state /\ phone' = phone
           /\ ~Crash => outbox' = outbox
           /\ past'.dipped = past.dipped /\ past'.behind = past.behind
           /\ past'.error = past.error /\ past'.errorSince = past.errorSince
<1>1. past \in Past
  BY DEF TypeOK
<1>2. CASE SentryWrites
  BY <1>1, <1>2 DEF SentryWrites, Past
<1>3. CASE ~SentryWrites
  BY <1>3 DEF Next, Environment, Watcher, vars, Elapse, RackChanges, FeedChanges,
     ActivityLogged, Sample, Load, Gather, WriteFails, Crash
<1> QED
  BY <1>2, <1>3

\* The clock never goes back, and is the clock of a tick that begins.
LEMMA ClockForward ==
    ASSUME TypeOK, [Next]_vars
    PROVE  /\ now \in Nat /\ now' \in Nat /\ now <= now'
           /\ InFlight' => \/ InFlight /\ tick'.at = tick.at
                           \/ pc = "idle" /\ tick'.at = now
<1>1. now \in Nat /\ tick \in Tick /\ NoTick.at \in Nat
  BY DEF TypeOK, Time, NoTick
<1>2. now' = now \/ now' = now + 1
  BY DEF Next, Environment, Watcher, vars, Elapse, RackChanges, FeedChanges, SentryWrites,
     ActivityLogged, Sample, Load, Gather, Persist, Deliver, WriteFails, Crash
<1>3. CASE Sample
  BY <1>1, <1>2, <1>3 DEF Sample, InFlight, NoTick
<1>4. CASE Load \/ Gather
  <2>1. /\ \A s : [tick EXCEPT !.previous = s].at = tick.at
        /\ \A a, f, e : [tick EXCEPT !.activity = a, !.access = f, !.error = e].at = tick.at
    BY <1>1 DEF Tick
  <2>2. tick'.at = tick.at
    <3>1. CASE Load
      <4>1. PICK s : tick' = [tick EXCEPT !.previous = s]
        BY <3>1 DEF Load
      <4> QED
        BY <2>1, <4>1
    <3>2. CASE Gather
      <4>1. PICK a, f, e : tick' = [tick EXCEPT !.activity = a, !.access = f, !.error = e]
        BY <3>2 DEF Gather
      <4> QED
        BY <2>1, <4>1
    <3> QED
      BY <1>4, <3>1, <3>2
  <2>3. InFlight /\ now' = now
    BY <1>4 DEF Load, Gather, InFlight
  <2> QED
    BY <1>1, <2>2, <2>3
<1>5. CASE ~Sample /\ ~Load /\ ~Gather
  <2>1. InFlight' => InFlight /\ tick' = tick
    BY <1>5 DEF Next, Environment, Watcher, vars, Elapse, RackChanges, FeedChanges, SentryWrites,
       ActivityLogged, Persist, Deliver, WriteFails, Crash, InFlight
  <2> QED
    BY <1>1, <1>2, <2>1
<1> QED
  BY <1>3, <1>4, <1>5

\* What writing the state does, for the tick that has gathered everything.
LEMMA Persisting ==
    ASSUME IInv, OutboxInOrder, Persist
    PROVE  /\ tick \in Tick /\ tick.previous \in AlertState /\ tick.at \in Nat
           /\ tick.status \in Status /\ tick.error \in MaybeError
           /\ tick.at <= now /\ now \in Nat /\ now' = now
           /\ outbox = <<>> /\ outbox' = Parts(tick)
           /\ state' = NextState(tick) /\ phone' = phone
           /\ past \in Past /\ past' = Remember(tick)
           /\ InFlight /\ pc = "gathered"
           /\ \/ tick.previous = state
              \/ "state" \in Faults /\ tick.previous = DefaultState
<1> QED
  BY DEF IInv, TypeOK, OutboxInOrder, Persist, TickBehind, SnapshotCurrent, InFlight, Tick, Time

\* What the phone shows after one more line, by the kind of the line.
LEMMA ToldFields ==
    ASSUME NEW m \in Message, phone \in Phone
    PROVE  /\ m.kind \in {"crossed", "recovered"} =>
                /\ Told(m).status = m.what /\ Told(m).at = m.at
                /\ Told(m).engine = phone.engine /\ Told(m).activity = phone.activity
           /\ m.kind \notin {"crossed", "recovered"} =>
                Told(m).status = phone.status /\ Told(m).at = phone.at
           /\ m.kind = "degraded" => Told(m).engine /\ Told(m).activity = phone.activity
           /\ m.kind = "engine-recovered" => ~Told(m).engine /\ Told(m).activity = phone.activity
           /\ m.kind = "activity" =>
                /\ Told(m).activity = IF m.what > phone.activity THEN m.what ELSE phone.activity
                /\ Told(m).engine = phone.engine
           /\ m.kind \in {"crossed", "recovered", "degraded", "engine-recovered", "activity"}
BY DEF Told, Phone, Message

LineInv == IInv /\ OutboxInOrder /\ PhoneBehind

LEMMA LineInductive ==
    ASSUME LineInv, [Next]_vars
    PROVE  LineInv'
<1>1. IInv'
  BY IInvInductive DEF LineInv
<1>2. now \in Nat /\ now' \in Nat /\ now <= now'
  BY ClockForward DEF LineInv, IInv
<1>3. outbox \in Seq(Message) /\ phone \in Phone /\ phone' \in Phone
  BY <1>1 DEF LineInv, IInv, TypeOK
<1>4. \A i \in 1..Len(outbox) : outbox[i].at \in Int
  <2>1. \A i \in 1..Len(outbox) : outbox[i] \in Message
    BY <1>3
  <2>2. \A m \in Message : m.at \in Int
    BY DEF Message, Time
  <2> QED
    BY <2>1, <2>2
<1>5. OutboxInOrder'
  <2>1. CASE Persist
    <3>1. /\ tick \in Tick /\ tick.at \in Nat /\ tick.at <= now /\ now' = now
          /\ outbox' = Parts(tick)
      BY <2>1, Persisting DEF LineInv
    <3>2. Deliverable(outbox', now')
      BY <3>1, PartsOrdered DEF Deliverable, Announces
    <3>3. pc' # "delivering" => outbox' = <<>>
      BY <2>1 DEF Persist
    <3> QED
      BY <3>2, <3>3 DEF OutboxInOrder
  <2>2. CASE Deliver
    <3>1. outbox # <<>> /\ outbox' = Tail(outbox) /\ now' = now
      BY <2>2 DEF Deliver, LineInv, IInv, OutboxFed
    <3>2. Deliverable(outbox', now')
      BY <1>3, <3>1, TailOrdered DEF LineInv, OutboxInOrder
    <3>3. pc' # "delivering" => Len(outbox) = 1
      BY <2>2 DEF Deliver
    <3>4. Len(outbox) = 1 => Tail(outbox) = <<>>
      BY <1>3, EmptySeq, <3>1, HeadTailProperties
    <3> QED
      BY <3>1, <3>2, <3>3, <3>4 DEF OutboxInOrder
  <2>3. CASE Crash
    BY <2>3 DEF Crash, OutboxInOrder, Deliverable, Ordered
  <2>4. CASE ~Persist /\ ~Deliver /\ ~Crash
    <3>1. outbox' = outbox
      BY <2>4, QuietSteps DEF LineInv, IInv
    <3>2. pc' # "delivering" => pc # "delivering"
      BY <2>4 DEF Next, Environment, Watcher, vars, Elapse, RackChanges, FeedChanges, SentryWrites,
         ActivityLogged, Sample, Load, Gather, WriteFails
    <3>3. \A i \in 1..Len(outbox) : outbox[i].at <= now'
      BY <1>2, <1>4 DEF LineInv, OutboxInOrder, Deliverable
    <3> QED
      BY <3>1, <3>2, <3>3 DEF LineInv, OutboxInOrder, Deliverable
  <2> QED
    BY <2>1, <2>2, <2>3, <2>4
<1>6. PhoneBehind'
  <2>1. /\ phone.at \in Int /\ phone.at <= now
        /\ InFlight => phone.at <= tick.at
    BY <1>3 DEF LineInv, PhoneBehind, Phone, MaybeTime, Time
  <2>2. CASE Deliver
    <3>1. outbox # <<>> /\ now' = now /\ ~InFlight'
      BY <2>2 DEF Deliver, LineInv, IInv, OutboxFed, InFlight
    <3>2. Head(outbox).at <= now
      BY <1>3, <3>1, TailOrdered DEF LineInv, OutboxInOrder, Deliverable
    <3>3. phone'.at = phone.at \/ phone'.at = Head(outbox).at
      BY <1>3, <2>2, <3>1, TailOrdered, ToldFields DEF Deliver, LineInv, OutboxInOrder
    <3> QED
      BY <2>1, <3>1, <3>2, <3>3 DEF PhoneBehind
  <2>3. CASE ~Deliver
    <3>1. phone' = phone
      BY <2>3, QuietSteps DEF LineInv, IInv, Persist
    <3> QED
      BY <1>2, <2>1, <3>1, ClockForward DEF LineInv, IInv, PhoneBehind
  <2> QED
    BY <2>2, <2>3
<1> QED
  BY <1>1, <1>5, <1>6 DEF LineInv

LEMMA LineInvariance == Spec => []LineInv
<1>1. Init => LineInv
  <2>1. SUFFICES ASSUME Init PROVE LineInv
    OBVIOUS
  <2> QED
    BY <2>1, InitImpliesIInv
    DEF Init, LineInv, OutboxInOrder, Deliverable, Ordered, PhoneBehind, InFlight
<1>2. LineInv /\ [Next]_vars => LineInv'
  BY LineInductive
<1> QED
  BY <1>1, <1>2, PTL DEF Spec

\* What the history remembers of a persisted tick.
LEMMA RememberFields ==
    ASSUME NEW t, past \in Past
    PROVE  /\ Remember(t).behind = (past.behind \/ KnewLess(t))
           /\ Remember(t).dipped = (past.dipped \/ (t.trusted /\ t.status < phone.status))
           /\ Remember(t).error = t.error
           /\ Remember(t).errorSince = IF t.error = NoError THEN Absent
                                      ELSE IF t.error = past.error THEN past.errorSince
                                      ELSE t.at
BY DEF Remember, Past

-----------------------------------------------------------------------------
(* The same level is not paged again before the cooldown.                  *)

\* News of the rack is only ever the first line of a tick.
LEMMA FirstIsNews ==
    ASSUME NEW q \in Seq(Message), NEW n, Deliverable(q, n), q # <<>>
    PROVE  ~Says(Tail(q), "crossed") /\ ~Says(Tail(q), "recovered")
<1>1. SUFFICES ASSUME Says(Tail(q), "crossed") \/ Says(Tail(q), "recovered") PROVE FALSE
  OBVIOUS
<1>2. /\ Tail(q) \in Seq(Message) /\ Tail(q) # <<>>
      /\ Head(Tail(q)).kind \in {"crossed", "recovered"} /\ Head(q) \in Message
  BY <1>1, TailOrdered, HeadTailProperties DEF Says
<1>3. Rank(Head(Tail(q))) = 1 /\ Rank(Head(q)) \in 1..3
  BY <1>2 DEF Rank, Message
<1>4. Rank(Head(q)) < Rank(Head(Tail(q)))
  <2>1. Head(Tail(q)) = Tail(q)[1] /\ 1 \in 1..Len(Tail(q))
    BY <1>2
  <2> QED
    BY <2>1, TailOrdered
<1>5. \A a \in 1..3 : ~(a < 1)
  OBVIOUS
<1> QED
  BY <1>3, <1>4, <1>5, Zenon

LEMMA BackedPersisted ==
    ASSUME "state" \notin Faults, LineInv, LineInv', PagesBacked, Persist
    PROVE  PagesBacked'
<1>1. /\ tick \in Tick /\ tick.previous = state /\ state \in AlertState
      /\ tick.at \in Nat /\ tick.status \in Status
      /\ state' = NextState(tick) /\ outbox' = Parts(tick) /\ phone' = phone
      /\ past \in Past /\ past' = Remember(tick) /\ InFlight
  BY Persisting DEF LineInv
<1>2. /\ phone.status \in Status /\ phone.at \in Int /\ phone.at <= tick.at
      /\ state.lastStatus \in Status
      /\ state.lastAlertedAt = Absent \/ state.lastAlertedAt \in Nat
  BY <1>1 DEF LineInv, IInv, TypeOK, Phone, PhoneBehind, AlertState, MaybeTime, Time
<1>3. ~past'.dipped => ~past.dipped /\ (tick.trusted => phone.status <= tick.status)
  <2>1. past'.dipped = (past.dipped \/ (tick.trusted /\ tick.status < phone.status))
    BY <1>1, RememberFields, Zenon
  <2>2. tick.status < phone.status \/ phone.status <= tick.status
    BY <1>1, <1>2
  <2> QED
    BY <2>1, <2>2
<1>4. /\ state'.lastStatus = NextStatus(tick)
      /\ state'.lastAlertedAt = NextAlertedAt(tick)
  BY <1>1 DEF NextState
<1>5. ASSUME phone.status # Ok, ~past'.dipped
      PROVE  Backs(state', phone)
  <2>1. Backs(state, phone)
    BY <1>3, <1>5 DEF PagesBacked
  <2>2. CASE Hold(tick)
    BY <1>1, <1>4, <2>1, <2>2 DEF NextStatus, NextAlertedAt, Backs
  <2>3. CASE ~Hold(tick) /\ tick.trusted
    <3>1. phone.status <= tick.status /\ tick.status # Ok
      BY <1>1, <1>2, <1>3, <1>5, <2>3
    <3>2. state'.lastStatus = tick.status
      BY <1>4, <2>3 DEF NextStatus, DecidedStatus
    <3>3. state'.lastAlertedAt = tick.at \/ state'.lastAlertedAt = state.lastAlertedAt
      BY <1>1, <1>4, <2>3, <3>1 DEF NextAlertedAt, DecidedAlertedAt, Recovered
    <3> QED
      BY <1>1, <1>2, <2>1, <3>1, <3>2, <3>3 DEF Backs
  <2>4. CASE ~Hold(tick) /\ ~tick.trusted
    BY <1>1, <1>4, <2>1, <2>4
    DEF NextStatus, NextAlertedAt, DecidedStatus, DecidedAlertedAt, Crossed, Recovered, Backs
  <2> QED
    BY <2>2, <2>3, <2>4
<1>6. ASSUME outbox' # <<>> PROVE Announces(Head(outbox'), tick)
  <2>1. outbox' \in Seq(Message)
    BY DEF LineInv, IInv, TypeOK
  <2> QED
    BY <1>1, <1>6, <2>1, PartsOrdered, TailOrdered DEF LineInv, OutboxInOrder
<1>7. Says(outbox', "recovered") => Head(outbox').what = Ok
  BY <1>6 DEF Says, Announces
<1>8. ASSUME Says(outbox', "crossed")
      PROVE  Due(Head(outbox'), state', phone, past'.dipped)
  <2>2. /\ Head(outbox').what = tick.status /\ Head(outbox').at = tick.at
        /\ Crossed(tick) /\ ~Hold(tick)
    BY <1>6, <1>8 DEF Says, Announces
  <2>3. tick.trusted /\ tick.status # Ok
    BY <2>2 DEF Crossed
  <2>4. state'.lastStatus = tick.status /\ state'.lastAlertedAt = tick.at
    BY <1>4, <2>2, <2>3 DEF NextStatus, DecidedStatus, NextAlertedAt, DecidedAlertedAt
  <2>5. ASSUME tick.status = phone.status, ~past'.dipped
        PROVE  tick.at - phone.at >= Cooldown
    <3>1. Backs(state, phone)
      BY <1>3, <2>3, <2>5 DEF PagesBacked
    <3>2. tick.at - state.lastAlertedAt >= Cooldown
      BY <1>1, <1>2, <2>2, <2>5, <3>1 DEF Crossed, CooldownElapsed, IsWorseThan, Backs
    <3> QED
      BY <1>1, <1>2, <3>1, <3>2, BoundsAssumption DEF Backs
  <2> QED
    BY <2>2, <2>3, <2>4, <2>5 DEF Due
<1> QED
  BY <1>1, <1>5, <1>7, <1>8 DEF PagesBacked

LEMMA BackedDelivered ==
    ASSUME LineInv, LineInv', PagesBacked, Deliver
    PROVE  PagesBacked'
<1> DEFINE m == Head(outbox)
<1>1. /\ outbox \in Seq(Message) /\ outbox # <<>> /\ outbox' = Tail(outbox)
      /\ Deliverable(outbox, now) /\ state' = state
      /\ phone \in Phone /\ past \in Past
  BY DEF LineInv, IInv, OutboxFed, OutboxInOrder, TypeOK, Deliver
<1>2. m \in Message
  BY <1>1, TailOrdered
<1>3. ~Says(outbox', "crossed") /\ ~Says(outbox', "recovered")
  BY <1>1, FirstIsNews
<1>4. phone.status # Ok /\ ~past.dipped => Backs(state, phone)
  BY DEF PagesBacked
<1>5. CASE phone' = Told(m) /\ m.kind \in {"crossed", "recovered"}
  <2>1. phone'.status = m.what /\ phone'.at = m.at
    BY <1>1, <1>2, <1>5, ToldFields
  <2>2. CASE m.kind = "crossed"
    <3>1. state.lastStatus = m.what /\ state.lastAlertedAt = m.at
      BY <1>1, <2>2 DEF PagesBacked, Says, Due
    <3>2. m.what \in Status /\ m.at \in Nat
      BY <1>2, <2>2 DEF Message, Time
    <3> QED
      BY <1>1, <1>3, <2>1, <3>1, <3>2 DEF PagesBacked, Backs
  <2>3. CASE m.kind = "recovered"
    <3>1. m.what = Ok
      BY <1>1, <2>3 DEF PagesBacked, Says
    <3> QED
      BY <1>3, <2>1, <3>1 DEF PagesBacked
  <2> QED
    BY <1>5, <2>2, <2>3
<1>6. CASE phone' = Told(m) /\ m.kind \notin {"crossed", "recovered"}
  <2>1. phone'.status = phone.status /\ phone'.at = phone.at
    BY <1>1, <1>2, <1>6, ToldFields
  <2>2. past'.dipped = past.dipped
    <3>1. past' = past \/ past' = Delivered(m)
      BY DEF Deliver
    <3> QED
      BY <1>1, <1>6, <3>1, DeliveredFields DEF Past
  <2> QED
    BY <1>1, <1>3, <1>4, <2>1, <2>2 DEF PagesBacked, Backs
<1>7. CASE phone' = phone /\ past' = past
  BY <1>1, <1>3, <1>4, <1>7 DEF PagesBacked
<1> QED
  BY <1>5, <1>6, <1>7 DEF Deliver

\* As long as the state file can be read back, the same bad level is paged again
\* only after the cooldown or after a trusted reading below it, with deliveries
\* that fail, ticks whose write fails, crashes and held pages in between
\* (decide-alert.ts: a sustained problem does not page on every tick).
THEOREM RepeatsAreSpaced ==
    ASSUME "state" \notin Faults
    PROVE  Spec => RepeatPagesSpaced
<1> DEFINE Repeat == pc = "delivering" /\ phone' # phone /\ Says(outbox, "crossed")
                       /\ Head(outbox).what = phone.status
           Spaced == Head(outbox).at - phone.at >= Cooldown \/ past.dipped
<1>1. Init => PagesBacked
  BY DEF Init, PagesBacked, Says
<1>2. ASSUME LineInv, LineInv', PagesBacked, [Next]_vars
      PROVE  PagesBacked'
  <2>1. CASE Persist
    BY <1>2, <2>1, BackedPersisted
  <2>2. CASE Deliver
    BY <1>2, <2>2, BackedDelivered
  <2>3. CASE ~Persist /\ ~Deliver
    <3>1. state' = state /\ phone' = phone /\ past'.dipped = past.dipped
      BY <1>2, <2>3, QuietSteps DEF LineInv, IInv
    <3>2. outbox' = outbox \/ outbox' = <<>>
      BY <1>2, <2>3, QuietSteps DEF LineInv, IInv, Crash
    <3> QED
      BY <1>2, <3>1, <3>2 DEF PagesBacked, Backs, Due, Says
  <2> QED
    BY <2>1, <2>2, <2>3
<1>3. Spec => []PagesBacked
  BY <1>1, <1>2, LineInvariance, PTL DEF Spec
<1>4. ASSUME LineInv, PagesBacked, [Next]_vars, Repeat
      PROVE  Spaced
  BY <1>4 DEF PagesBacked, Due
<1>5. LineInv /\ PagesBacked /\ [Next]_vars =>
        [pc = "delivering" /\ phone' # phone /\ Head(outbox).kind = "crossed"
            /\ Head(outbox).what = phone.status => Spaced]_vars
  BY <1>4 DEF LineInv, IInv, OutboxFed, Says
<1> QED
  BY <1>3, <1>5, LineInvariance, PTL DEF Spec, RepeatPagesSpaced
-----------------------------------------------------------------------------
(* Good news only follows bad news.                                        *)

\* A line of one kind that is in the outbox and is not the first is in the rest.
LEMMA RestHolds ==
    ASSUME NEW q \in Seq(Message), NEW n, Deliverable(q, n), q # <<>>, NEW kind
    PROVE  /\ Holds(q, kind) => Head(q).kind = kind \/ Holds(Tail(q), kind)
           /\ Holds(Tail(q), kind) =>
                /\ Holds(q, kind)
                /\ \E m \in Message : m.kind = kind /\ Rank(Head(q)) < Rank(m)
<1>1. /\ Deliverable(Tail(q), n)
      /\ Head(q) \in Message /\ Head(q) = q[1]
      /\ \A i \in 1..Len(Tail(q)) :
           /\ Rank(Head(q)) < Rank(Tail(q)[i])
           /\ i + 1 \in 1..Len(q) /\ Tail(q)[i] = q[i + 1]
      /\ \A i \in 1..Len(q) : i = 1 \/ (i - 1 \in 1..Len(Tail(q)) /\ Tail(q)[i - 1] = q[i])
  BY TailOrdered
<1>2. \A i \in 1..Len(Tail(q)) : Tail(q)[i] \in Message
  <2>1. Tail(q) \in Seq(Message)
    BY HeadTailProperties
  <2> QED
    BY <2>1
<1>3. Holds(q, kind) => Head(q).kind = kind \/ Holds(Tail(q), kind)
  BY <1>1 DEF Holds
<1>4. Holds(Tail(q), kind) => Holds(q, kind)
  BY <1>1 DEF Holds
<1> QED
  BY <1>1, <1>2, <1>3, <1>4 DEF Holds

LEMMA NewsPersisted ==
    ASSUME LineInv, LineInv', NewsDelivered, Persist
    PROVE  NewsDelivered'
<1>1. /\ tick \in Tick /\ tick.previous \in AlertState
      /\ tick.previous = state \/ tick.previous = DefaultState
      /\ outbox = <<>> /\ outbox' = Parts(tick)
      /\ state' = NextState(tick) /\ phone' = phone
  BY Persisting DEF LineInv
<1>2. /\ tick.previous.lastStatus # Ok => phone.status # Ok
      /\ tick.previous.ruleEngineReported => phone.engine
  <2>1. DefaultState.lastStatus = Ok /\ ~DefaultState.ruleEngineReported
    BY DEF DefaultState
  <2>2. ~Says(outbox, "crossed") /\ ~Holds(outbox, "degraded")
    BY <1>1 DEF Says, Holds
  <2> QED
    BY <1>1, <2>1, <2>2 DEF NewsDelivered
<1>3. /\ state'.lastStatus = NextStatus(tick)
      /\ state'.ruleEngineReported <=> (tick.error # NoError /\ (AlreadyReported(tick) \/ ReportNow(tick)))
  BY <1>1 DEF NextState
<1>4. state'.lastStatus # Ok => phone.status # Ok \/ Says(outbox', "crossed")
  <2>1. CASE Hold(tick)
    BY <1>2, <1>3, <2>1 DEF NextStatus
  <2>2. CASE Crossed(tick) /\ ~Hold(tick)
    BY <1>1, <2>2, CrossedFirst DEF Says, Line
  <2>3. CASE ~Crossed(tick) /\ ~Hold(tick)
    <3>1. state'.lastStatus # Ok => tick.previous.lastStatus # Ok
      BY <1>1, <1>3, <2>3 DEF NextStatus, DecidedStatus, Crossed, IsWorseThan, Tick, AlertState
    <3> QED
      BY <1>2, <3>1
  <2> QED
    BY <2>1, <2>2, <2>3
<1>8. ASSUME outbox' # <<>> PROVE Announces(Head(outbox'), tick)
  <2>1. outbox' \in Seq(Message)
    BY DEF LineInv, IInv, TypeOK
  <2> QED
    BY <1>1, <1>8, <2>1, PartsOrdered, TailOrdered DEF LineInv, OutboxInOrder
<1>9. Says(outbox', "crossed") => Head(outbox').what # Ok
  BY <1>8 DEF Says, Announces, Crossed
<1>5. ASSUME Says(outbox', "recovered")
      PROVE  phone.status # Ok /\ state'.lastStatus = Ok
  <2>2. Recovered(tick) /\ ~Hold(tick)
    BY <1>5, <1>8 DEF Announces, Says
  <2> QED
    BY <1>2, <1>3, <2>2 DEF Recovered, NextStatus, DecidedStatus
<1>6. state'.ruleEngineReported => phone.engine \/ Holds(outbox', "degraded")
  BY <1>1, <1>2, <1>3, PartsOrdered DEF AlreadyReported
<1>7. Holds(outbox', "engine-recovered") => phone.engine /\ ~state'.ruleEngineReported
  <2>1. Holds(outbox', "engine-recovered") => EngineRecovered(tick)
    BY <1>1, PartsOrdered DEF Holds, Announces
  <2> QED
    BY <1>2, <1>3, <2>1 DEF EngineRecovered
<1> QED
  BY <1>1, <1>4, <1>5, <1>6, <1>7, <1>9 DEF NewsDelivered

LEMMA NewsSent ==
    ASSUME "send" \notin Faults, LineInv, LineInv', NewsDelivered, Deliver
    PROVE  NewsDelivered'
<1> DEFINE m == Head(outbox)
<1>1. /\ outbox \in Seq(Message) /\ outbox # <<>> /\ outbox' = Tail(outbox)
      /\ Deliverable(outbox, now) /\ state' = state /\ phone \in Phone
      /\ outbox' \in Seq(Message)
  BY DEF LineInv, IInv, OutboxFed, OutboxInOrder, TypeOK, Deliver
<1>2. m \in Message /\ phone' = Told(m)
  BY <1>1, TailOrdered DEF Deliver
<1> HIDE DEF m
<1>3. ~Says(outbox', "crossed") /\ ~Says(outbox', "recovered")
  BY <1>1, FirstIsNews
<1>4. state.lastStatus # Ok => phone'.status # Ok
  <2>1. state.lastStatus # Ok => phone.status # Ok \/ m.kind = "crossed"
    BY <1>1 DEF NewsDelivered, Says, m
  <2>2. m.kind = "crossed" => m.what # Ok
    BY <1>1 DEF NewsDelivered, Says, m
  <2>3. m.kind = "recovered" => state.lastStatus = Ok
    BY <1>1 DEF NewsDelivered, Says, m
  <2> QED
    BY <1>1, <1>2, <2>1, <2>2, <2>3, ToldFields
<1>5. state.ruleEngineReported => phone'.engine \/ Holds(outbox', "degraded")
  <2>1. SUFFICES ASSUME state.ruleEngineReported, ~Holds(outbox', "degraded")
                 PROVE  phone'.engine
    OBVIOUS
  <2>2. phone.engine \/ m.kind = "degraded"
    BY <1>1, <2>1, RestHolds DEF NewsDelivered, m
  <2>3. m.kind # "engine-recovered"
    BY <1>1, <2>1, TailOrdered DEF NewsDelivered, Holds, m
  <2> QED
    BY <1>1, <1>2, <2>2, <2>3, ToldFields
<1>6. ASSUME Holds(outbox', "engine-recovered")
      PROVE  phone'.engine /\ ~state.ruleEngineReported
  <2>1. phone.engine /\ ~state.ruleEngineReported
    BY <1>1, <1>6, RestHolds DEF NewsDelivered
  <2>2. m.kind # "engine-recovered"
    <3>1. PICK x \in Message : x.kind = "engine-recovered" /\ Rank(m) < Rank(x)
      BY <1>1, <1>6, RestHolds DEF m
    <3> QED
      BY <3>1 DEF Rank
  <2> QED
    BY <1>1, <1>2, <2>1, <2>2, ToldFields
<1> QED
  BY <1>1, <1>3, <1>4, <1>5, <1>6 DEF NewsDelivered

\* If the process does not die and every send succeeds, the phone is only told of
\* a recovery, of the rack or of the rule engine, after it was told of the
\* problem, whatever is read wrongly or not at all in between.
THEOREM GoodNewsFollowsBad ==
    ASSUME "send" \notin Faults, "crash" \notin Faults
    PROVE  Spec => []RecoveryWasTold
<1>1. Init => NewsDelivered
  BY DEF Init, NewsDelivered, Says, Holds, DefaultState
<1>2. ASSUME LineInv, LineInv', NewsDelivered, [Next]_vars
      PROVE  NewsDelivered'
  <2>1. CASE Persist
    BY <1>2, <2>1, NewsPersisted
  <2>2. CASE Deliver
    BY <1>2, <2>2, NewsSent
  <2>3. CASE ~Persist /\ ~Deliver
    <3>1. state' = state /\ phone' = phone /\ outbox' = outbox
      BY <1>2, <2>3, QuietSteps DEF LineInv, IInv, Crash
    <3> QED
      BY <1>2, <3>1 DEF NewsDelivered, Says, Holds
  <2> QED
    BY <2>1, <2>2, <2>3
<1>3. LineInv /\ NewsDelivered => RecoveryWasTold
  <2>1. SUFFICES ASSUME LineInv, NewsDelivered PROVE RecoveryWasTold
    OBVIOUS
  <2>2. RecoveryIsEarned
    BY <2>1 DEF NewsDelivered, RecoveryIsEarned, Says
  <2>3. outbox # <<>> /\ Head(outbox).kind = "engine-recovered" => Holds(outbox, "engine-recovered")
    BY <2>1, TailOrdered DEF Holds, LineInv, IInv, TypeOK, OutboxInOrder
  <2> QED
    BY <2>1, <2>2, <2>3 DEF NewsDelivered, RecoveryWasTold, EngineRecoveryIsEarned
<1> QED
  BY <1>1, <1>2, <1>3, LineInvariance, PTL DEF Spec
-----------------------------------------------------------------------------
(* When an activity line is pushed again.                                  *)

LEMMA WatermarkPersisted ==
    ASSUME LineInv, WatermarkAhead, Persist
    PROVE  WatermarkAhead'
<1>1. /\ tick \in Tick /\ tick.previous \in AlertState
      /\ state' = NextState(tick) /\ outbox' = Parts(tick) /\ phone' = phone
      /\ past \in Past /\ past' = Remember(tick)
  BY Persisting DEF LineInv
<1>2. /\ phone.activity \in Nat /\ state.lastActivityAt \in Nat
      /\ tick.activity \in Nat /\ tick.previous.lastActivityAt \in Nat
  BY <1>1 DEF LineInv, IInv, TypeOK, Phone, AlertState, Tick
<1>3. past'.behind = (past.behind \/ KnewLess(tick))
  BY <1>1, RememberFields
<1>4. state'.lastActivityAt = Watermark(tick)
  BY <1>1 DEF NextState
<1>5. ASSUME ~past'.behind
      PROVE  phone.activity <= Watermark(tick) /\ phone.activity <= tick.previous.lastActivityAt
  <2>0. ~past.behind /\ ~KnewLess(tick)
    BY <1>3, <1>5
  <2>1. phone.activity <= state.lastActivityAt
    BY <2>0 DEF WatermarkAhead
  <2>2. state.lastActivityAt <= tick.previous.lastActivityAt
    BY <1>2, <2>0 DEF KnewLess
  <2>3. (tick.activity = 0 /\ Hold(tick)) \/ phone.activity <= tick.activity
    <3>1. ~(tick.activity < phone.activity) \/ (tick.activity = 0 /\ Hold(tick))
      BY <2>0 DEF KnewLess
    <3> QED
      BY <1>2, <3>1
  <2> QED
    BY <1>2, <2>1, <2>2, <2>3 DEF Watermark
<1>6. ASSUME NEW i \in 1..Len(outbox'), outbox'[i].kind = "activity"
      PROVE  /\ outbox'[i].what = Watermark(tick)
             /\ phone.activity < Watermark(tick) \/ past'.behind
  <2>1. outbox'[i].what = tick.activity /\ ActivityIsNew(tick)
    BY <1>1, <1>6, PartsOrdered DEF Announces
  <2>2. Watermark(tick) = tick.activity /\ tick.previous.lastActivityAt < tick.activity
    BY <1>2, <2>1 DEF ActivityIsNew, Watermark
  <2> QED
    BY <1>2, <1>5, <2>1, <2>2
<1> QED
  BY <1>1, <1>4, <1>5, <1>6 DEF WatermarkAhead

LEMMA WatermarkDelivered ==
    ASSUME LineInv, WatermarkAhead, Deliver
    PROVE  WatermarkAhead'
<1> DEFINE m == Head(outbox)
<1>1. /\ outbox \in Seq(Message) /\ outbox # <<>> /\ outbox' = Tail(outbox)
      /\ Deliverable(outbox, now) /\ state' = state
      /\ phone \in Phone /\ past \in Past
      /\ phone.activity \in Nat /\ state.lastActivityAt \in Nat
  BY DEF LineInv, IInv, OutboxFed, OutboxInOrder, TypeOK, Deliver, Phone, AlertState
<1>2. m \in Message /\ m = outbox[1] /\ 1 \in 1..Len(outbox)
  BY <1>1, TailOrdered
<1>3. (phone' = phone /\ past' = past) \/ (phone' = Told(m) /\ past' = Delivered(m))
  BY DEF Deliver
<1>7. ASSUME m.kind # "activity"
      PROVE  phone'.activity = phone.activity /\ past'.behind = past.behind
  <2>1. Told(m).activity = phone.activity
    BY <1>1, <1>2, <1>7, ToldFields
  <2>2. Delivered(m).behind = past.behind
    BY <1>1, <1>7, DeliveredFields DEF Past
  <2> QED
    BY <1>3, <2>1, <2>2
<1>4. m.kind = "activity" =>
        m.what = state.lastActivityAt /\ (phone.activity < m.what \/ past.behind)
  BY <1>2 DEF WatermarkAhead
<1>5. ~past'.behind => phone'.activity <= state.lastActivityAt
  <2>1. CASE phone' = phone /\ past' = past
    BY <2>1 DEF WatermarkAhead
  <2>2. CASE phone' = Told(m) /\ past' = Delivered(m) /\ m.kind # "activity"
    BY <1>7, <2>2 DEF WatermarkAhead
  <2>3. CASE phone' = Told(m) /\ past' = Delivered(m) /\ m.kind = "activity"
    <3>1. phone'.activity = IF m.what > phone.activity THEN m.what ELSE phone.activity
      BY <1>1, <1>2, <2>3, ToldFields
    <3>2. past'.behind = (past.behind /\ ~(m.what >= phone.activity))
      BY <1>1, <2>3, DeliveredFields
    <3>3. phone.activity < m.what \/ past.behind
      BY <1>4, <2>3
    <3>4. m.what = state.lastActivityAt
      BY <1>4, <2>3
    <3>5. CASE m.what >= phone.activity
      BY <1>1, <3>1, <3>4, <3>5
    <3>6. CASE ~(m.what >= phone.activity)
      <4>1. past'.behind
        <5>1. past.behind
          BY <1>1, <3>3, <3>4, <3>6
        <5> QED
          BY <3>2, <3>6, <5>1
      <4> QED
        BY <4>1
    <3> QED
      BY <3>5, <3>6
  <2> QED
    BY <1>3, <2>1, <2>2, <2>3
<1>6. ASSUME NEW i \in 1..Len(outbox'), outbox'[i].kind = "activity"
      PROVE  /\ outbox'[i].what = state.lastActivityAt
             /\ phone'.activity < state.lastActivityAt \/ past'.behind
  <2>1. /\ i + 1 \in 1..Len(outbox) /\ outbox'[i] = outbox[i + 1]
        /\ Rank(m) < Rank(outbox'[i])
    BY <1>1, TailOrdered
  <2>2. m.kind # "activity"
    BY <1>6, <2>1 DEF Rank
  <2>3. phone'.activity = phone.activity /\ past'.behind = past.behind
    BY <1>7, <2>2
  <2> QED
    BY <1>6, <2>1, <2>3 DEF WatermarkAhead
<1> QED
  BY <1>1, <1>5, <1>6 DEF WatermarkAhead

\* With every fault on, an activity the phone was told of is pushed again only if
\* in between a tick read a log that ended before it, or could not read its own
\* state: not after a send that failed, a tick that was lost or a crash, and not
\* when a held page carries the watermark (tick.ts, lastActivityAt).
THEOREM RepeatsWereUnseen == Spec => []RepeatedActivityWasUnseen
<1>1. Init => WatermarkAhead
  BY DEF Init, WatermarkAhead, DefaultState
<1>2. ASSUME LineInv, WatermarkAhead, [Next]_vars
      PROVE  WatermarkAhead'
  <2>1. CASE Persist
    BY <1>2, <2>1, WatermarkPersisted
  <2>2. CASE Deliver
    BY <1>2, <2>2, WatermarkDelivered
  <2>3. CASE ~Persist /\ ~Deliver
    <3>1. /\ state' = state /\ phone' = phone /\ past'.behind = past.behind
          /\ outbox' = outbox \/ outbox' = <<>>
      BY <1>2, <2>3, QuietSteps DEF LineInv, IInv, Crash
    <3> QED
      BY <1>2, <3>1 DEF WatermarkAhead
  <2> QED
    BY <2>1, <2>2, <2>3
<1>3. LineInv /\ WatermarkAhead => RepeatedActivityWasUnseen
  <2>1. SUFFICES ASSUME LineInv, WatermarkAhead, outbox # <<>>, Head(outbox).kind = "activity"
                 PROVE  Head(outbox).what > phone.activity \/ past.behind
    BY DEF RepeatedActivityWasUnseen
  <2>2. Head(outbox) = outbox[1] /\ 1 \in 1..Len(outbox)
    BY <2>1 DEF LineInv, IInv, TypeOK
  <2>3. phone.activity \in Int /\ state.lastActivityAt \in Int
    BY <2>1 DEF LineInv, IInv, TypeOK, Phone, AlertState
  <2> QED
    BY <2>1, <2>2, <2>3 DEF WatermarkAhead
<1> QED
  BY <1>1, <1>2, <1>3, LineInvariance, PTL DEF Spec
-----------------------------------------------------------------------------
(* No flap of the rule engine reaches the phone.                           *)

\* Whatever fails, an outage is announced only at the end of a run of ticks that
\* all persisted the same failure and that is at least the grace period long
\* (state-store.ts: ruleEngineErrorSince).
THEOREM OutagesOutlastGrace == Spec => EngineGrace
<1> DEFINE Lasting(q, p, i) == p.error = q[i].what /\ q[i].at - p.errorSince >= Grace
           Graced == \A i \in 1..Len(outbox') :
                        outbox'[i].kind = "degraded" /\ outbox = <<>> =>
                            Lasting(outbox', past', i)
<1>1. Init => OutageBacked
  BY DEF Init, OutageBacked, DefaultState, InFlight
<1>2. ASSUME LineInv, OutageBacked, Persist
      PROVE  /\ OutageBacked'
             /\ ReportNow(tick) => /\ past'.error = tick.error
                                   /\ tick.at - past'.errorSince >= Grace
  <2>1. /\ tick \in Tick /\ tick.previous \in AlertState /\ tick.at \in Nat
        /\ tick.error \in MaybeError /\ tick.at <= now /\ now' = now /\ now \in Nat
        /\ tick.previous = state \/ tick.previous = DefaultState
        /\ state' = NextState(tick) /\ past \in Past /\ past' = Remember(tick) /\ InFlight
    BY <1>2, Persisting DEF LineInv
  <2>2. /\ past.errorSince = Absent \/ past.errorSince \in Nat
        /\ \/ tick.previous.ruleEngineErrorSince = Absent
           \/ tick.previous.ruleEngineErrorSince \in Nat
    BY <2>1 DEF Past, AlertState, MaybeTime, Time
  <2>3. past.errorSince <= tick.at /\ past.errorSince <= now
    BY <1>2, <2>1 DEF OutageBacked
  <2>4. /\ past'.error = tick.error
        /\ past'.errorSince = IF tick.error = NoError THEN Absent
                              ELSE IF tick.error = past.error THEN past.errorSince
                              ELSE tick.at
    BY <2>1, RememberFields
  <2>5. /\ state'.ruleEngineError = tick.error
        /\ tick.error # NoError => state'.ruleEngineErrorSince = ErrorSince(tick)
    BY <2>1 DEF NextState
  <2>6. ASSUME tick.error # NoError
        PROVE  /\ past'.errorSince # Absent
               /\ ErrorSince(tick) \in Nat /\ past'.errorSince <= ErrorSince(tick)
    <3>1. CASE SameFailure(tick) /\ tick.previous.ruleEngineErrorSince # Absent
      <4>1. ErrorSince(tick) = tick.previous.ruleEngineErrorSince
        BY <3>1 DEF ErrorSince
      <4>2. tick.previous = state /\ tick.error = past.error
        BY <1>2, <2>1, <2>6, <3>1 DEF SameFailure, DefaultState, OutageBacked
      <4> QED
        BY <1>2, <2>2, <2>4, <2>6, <3>1, <4>1, <4>2 DEF OutageBacked
    <3>2. CASE ~(SameFailure(tick) /\ tick.previous.ruleEngineErrorSince # Absent)
      <4>1. ErrorSince(tick) = tick.at
        BY <3>2 DEF ErrorSince
      <4>2. past'.errorSince # Absent
        BY <1>2, <2>1, <2>4, <2>6 DEF OutageBacked
      <4> QED
        BY <2>1, <2>3, <2>4, <2>6, <4>1, <4>2
    <3> QED
      BY <3>1, <3>2
  <2>7. OutageBacked'
    <3>1. past'.errorSince <= now'
      BY <2>1, <2>2, <2>3, <2>4
    <3>2. ~InFlight'
      BY <1>2 DEF Persist, InFlight
    <3> QED
      BY <2>1, <2>4, <2>5, <2>6, <3>1, <3>2 DEF OutageBacked
  <2>8. ASSUME ReportNow(tick)
        PROVE  tick.at - past'.errorSince >= Grace
    <3>1. tick.error # NoError /\ tick.at - ErrorSince(tick) >= Grace
      BY <2>8 DEF ReportNow
    <3>2. past'.errorSince \in Int
      BY <2>1, <2>2, <2>4
    <3> QED
      BY <2>1, <2>6, <3>1, <3>2, BoundsAssumption
  <2> QED
    BY <2>4, <2>7, <2>8
<1>3. ASSUME LineInv, OutageBacked, [Next]_vars
      PROVE  OutageBacked'
  <2>1. CASE Persist
    BY <1>2, <1>3, <2>1
  <2>2. CASE ~Persist
    <3>1. state' = state /\ past'.error = past.error /\ past'.errorSince = past.errorSince
      <4>1. CASE Deliver
        BY <1>3, <4>1, DeliveredFields DEF Deliver, LineInv, IInv, TypeOK
      <4>2. CASE ~Deliver
        BY <1>3, <2>2, <4>2, QuietSteps DEF LineInv, IInv
      <4> QED
        BY <4>1, <4>2
    <3>2. past.errorSince \in Int
      BY <1>3 DEF LineInv, IInv, TypeOK, Past, MaybeTime, Time
    <3>3. now \in Nat /\ now' \in Nat /\ now <= now'
      BY <1>3, ClockForward DEF LineInv, IInv
    <3>4. past.errorSince <= now' /\ (InFlight' => past.errorSince <= tick'.at)
      BY <1>3, <3>2, <3>3, ClockForward DEF LineInv, IInv, OutageBacked
    <3> QED
      BY <1>3, <3>1, <3>4 DEF OutageBacked
  <2> QED
    BY <2>1, <2>2
<1>4. ASSUME LineInv, OutageBacked, [Next]_vars
      PROVE  Graced
  <2>1. CASE Persist
    <3>1. SUFFICES ASSUME NEW i \in 1..Len(outbox'), outbox'[i].kind = "degraded"
                   PROVE  Lasting(outbox', past', i)
      OBVIOUS
    <3>2. /\ ReportNow(tick)
          /\ outbox'[i].what = tick.error /\ outbox'[i].at = tick.at
      BY <1>4, <2>1, <3>1, Persisting, PartsOrdered DEF LineInv, Announces
    <3> QED
      BY <1>2, <1>4, <2>1, <3>2
  <2>2. CASE ~Persist
    <3>1. outbox = <<>> => outbox' = <<>>
      BY <1>4, <2>2, QuietSteps DEF LineInv, IInv, Deliver, Crash, OutboxFed
    <3> QED
      BY <3>1
  <2> QED
    BY <2>1, <2>2
<1>5. Spec => []OutageBacked
  BY <1>1, <1>3, LineInvariance, PTL DEF Spec
<1>6. LineInv /\ OutageBacked /\ [Next]_vars =>
        [\A i \in 1..Len(outbox') :
            outbox'[i].kind = "degraded" /\ outbox = <<>> =>
                /\ past'.error = outbox'[i].what
                /\ outbox'[i].at - past'.errorSince >= Grace]_vars
  BY <1>4
<1> QED
  BY <1>5, <1>6, LineInvariance, PTL DEF Spec, EngineGrace
=============================================================================
