------------------------------ MODULE Watchdog ------------------------------
(***************************************************************************)
(* The environmental watchdog: one tick of alert-skill/tick.ts, driven by  *)
(* the loop of alert-skill/watch-loop.ts, against the sensor feed, the     *)
(* access file the dashboard writes, and the on-call's phone.              *)
(*                                                                         *)
(* A tick samples the feed, reads its own persisted state, gathers the     *)
(* newest activity line, the access file and the outcome of the rule       *)
(* engine, persists what it decided, and only then delivers its messages   *)
(* one by one.  Everything else (clock, rack, feed, dashboard, board) may  *)
(* move between any two of those steps.                                    *)
(***************************************************************************)
EXTENDS Integers, Sequences

CONSTANTS
    Levels,       \* the statuses the rack takes in this instance
    Errors,       \* the failures the rule engine can report
    NoError,      \* the rule engine worked
    MaxActivity,  \* the newest activity line the board ever logs (a bound)
    Cooldown,     \* DEFAULT_COOLDOWN_MS
    Grace,        \* RULE_ENGINE_GRACE_MS
    MaxAge,       \* ACCESS_SUPPRESS_MAX_AGE_S
    MaxTime,      \* the clock stops here (a bound)
    SentryUntil,  \* the dashboard writes no access file after this (a bound)
    Faults        \* the failures that may happen in this instance

Ok == 0
Warning == 1
Critical == 2
Status == Ok..Critical

FaultKinds == {"mock", "state", "log", "copy", "access", "write", "send", "crash"}

ASSUME LevelsAssumption == Levels \subseteq Status
ASSUME ErrorsAssumption == NoError \notin Errors
ASSUME BoundsAssumption ==
    /\ MaxActivity \in Nat /\ MaxTime \in Nat /\ SentryUntil \in Nat
    /\ Cooldown \in Nat /\ Grace \in Nat /\ MaxAge \in Nat
ASSUME FaultsAssumption == Faults \subseteq FaultKinds

VARIABLES
    now,       \* the clock
    rack,      \* the true status of the rack
    feed,      \* TRUE while a real reading can be had, FALSE: the mock answers
    access,    \* access.json, as far as the watchdog reads it
    activity,  \* the newest activity line pushed to the laptop, 0 when none
    state,     \* environmental-watch.json
    pc,        \* where the tick in flight is
    tick,      \* what the tick in flight has read so far
    outbox,    \* the lines it still has to deliver
    phone,     \* history: what the on-call has been told
    past       \* history: what the persisted ticks have seen

env == <<now, rack, feed, access, activity>>
vars == <<now, rack, feed, access, activity, state, pc, tick, outbox, phone, past>>
-----------------------------------------------------------------------------
Absent == -1
Time == 0..MaxTime
MaybeTime == Time \cup {Absent}
MaybeError == Errors \cup {NoError}

AlertState ==
    [lastStatus : Status, lastAlertedAt : MaybeTime,
     heldSince : MaybeTime, heldStatus : Status \cup {Absent},
     ruleEngineError : MaybeError, ruleEngineErrorSince : MaybeTime,
     ruleEngineReported : BOOLEAN, lastActivityAt : 0..MaxActivity]

DefaultState ==
    [lastStatus |-> Ok, lastAlertedAt |-> Absent,
     heldSince |-> Absent, heldStatus |-> Absent,
     ruleEngineError |-> NoError, ruleEngineErrorSince |-> Absent,
     ruleEngineReported |-> FALSE, lastActivityAt |-> 0]

\* No file, an unreadable file and a file without a stamp all page normally.
AccessFile == [stamp : MaybeTime, expected : BOOLEAN]
NoAccess == [stamp |-> Absent, expected |-> FALSE]

Tick == [at : Time, status : Status, trusted : BOOLEAN, previous : AlertState,
         activity : 0..MaxActivity, access : AccessFile, error : MaybeError]

NoTick == [at |-> 0, status |-> Ok, trusted |-> FALSE, previous |-> DefaultState,
           activity |-> 0, access |-> NoAccess, error |-> NoError]

Message ==
    [kind : {"crossed", "recovered"}, what : Status, at : Time]
    \cup [kind : {"degraded"}, what : Errors, at : Time]
    \cup [kind : {"engine-recovered"}, what : {Ok}, at : Time]
    \cup [kind : {"activity"}, what : 0..MaxActivity, at : Time]

IsWorseThan(a, b) == a > b
-----------------------------------------------------------------------------
(* decideAlert: the threshold decision.  t is the tick's record.           *)

\* (mutant) the cooldown is forgotten: a sustained problem pages on every tick.
NoCooldown(t) == TRUE

CooldownElapsed(t) ==
    \/ t.previous.lastAlertedAt = Absent
    \/ t.at - t.previous.lastAlertedAt >= Cooldown

Crossed(t) ==
    /\ t.trusted
    /\ t.status # Ok
    /\ \/ IsWorseThan(t.status, t.previous.lastStatus)
       \/ t.status = t.previous.lastStatus /\ CooldownElapsed(t)

Recovered(t) == t.trusted /\ t.status = Ok /\ t.previous.lastStatus # Ok

ShouldAlert(t) == Crossed(t) \/ Recovered(t)

\* (mutant) the untrusted branch forgets to carry lastStatus.
DecidedStatusDropped(t) == IF t.trusted THEN t.status ELSE Absent

DecidedStatus(t) == IF t.trusted THEN t.status ELSE t.previous.lastStatus

DecidedAlertedAt(t) ==
    IF Crossed(t) THEN t.at
    ELSE IF Recovered(t) THEN Absent ELSE t.previous.lastAlertedAt
-----------------------------------------------------------------------------
(* evaluateSuppression: may the page be held for a responder on site?      *)

Held(s) == s.heldStatus # Absent

\* (mutant) the baseline is always the current status.
BaselineFollows(t) == t.status

Baseline(t) == IF Held(t.previous) THEN t.previous.heldStatus ELSE t.status

\* (mutant) the stamp is not compared with the clock.
StampedEver(t) == t.access.stamp # Absent

Fresh(t) == t.access.stamp # Absent /\ t.at - t.access.stamp <= MaxAge

\* (mutant) an escalation does not break the hold.
HoldRegardless(t) == ShouldAlert(t) /\ Fresh(t) /\ t.access.expected

Hold(t) ==
    /\ ShouldAlert(t)
    /\ Fresh(t)
    /\ t.access.expected
    /\ ~IsWorseThan(t.status, Baseline(t))

\* What becomes of the deferred page: kept or begun by a hold, kept across an
\* untrusted reading, dropped by every other tick.
HeldSince(t) ==
    IF Hold(t) /\ ~Held(t.previous) THEN t.at
    ELSE IF Hold(t) \/ ~t.trusted THEN t.previous.heldSince ELSE Absent

HeldStatus(t) ==
    IF Hold(t) THEN Baseline(t)
    ELSE IF ~t.trusted THEN t.previous.heldStatus ELSE Absent
-----------------------------------------------------------------------------
(* The latch on rule-engine failures.                                      *)

\* (mutant) any failure continues the failure before it.
AnyFailure(t) == t.error # NoError /\ t.previous.ruleEngineError # NoError

SameFailure(t) == t.error # NoError /\ t.error = t.previous.ruleEngineError

ErrorSince(t) ==
    IF SameFailure(t) /\ t.previous.ruleEngineErrorSince # Absent
    THEN t.previous.ruleEngineErrorSince
    ELSE t.at

AlreadyReported(t) == SameFailure(t) /\ t.previous.ruleEngineReported

ReportNow(t) ==
    /\ t.error # NoError
    /\ ~AlreadyReported(t)
    /\ t.at - ErrorSince(t) >= Grace

\* (mutant) recovery speaks after any failure, announced or not.
RecoveredFromAny(t) == t.error = NoError /\ t.previous.ruleEngineError # NoError

EngineRecovered(t) == t.error = NoError /\ t.previous.ruleEngineReported
-----------------------------------------------------------------------------
\* (mutant) the newest line counts as new even when it was the last one pushed.
ActivityNotOlder(t) == t.activity # 0 /\ t.activity >= t.previous.lastActivityAt

ActivityIsNew(t) == t.activity # 0 /\ t.activity > t.previous.lastActivityAt

\* A held tick inherits the previous watermark, every other tick only has the
\* one it has just read.
Watermark(t) ==
    IF t.activity # 0 THEN t.activity
    ELSE IF Hold(t) THEN t.previous.lastActivityAt ELSE 0

\* (mutant) lastStatus advances although the page is held.
NextStatusAdvances(t) == DecidedStatus(t)

NextStatus(t) == IF Hold(t) THEN t.previous.lastStatus ELSE DecidedStatus(t)

NextAlertedAt(t) == IF Hold(t) THEN t.previous.lastAlertedAt ELSE DecidedAlertedAt(t)

NextState(t) ==
    [lastStatus |-> NextStatus(t),
     lastAlertedAt |-> NextAlertedAt(t),
     heldSince |-> HeldSince(t),
     heldStatus |-> HeldStatus(t),
     ruleEngineError |-> t.error,
     ruleEngineErrorSince |-> IF t.error = NoError THEN Absent ELSE ErrorSince(t),
     ruleEngineReported |-> t.error # NoError /\ (AlreadyReported(t) \/ ReportNow(t)),
     lastActivityAt |-> Watermark(t)]

Line(kind, what, t) == [kind |-> kind, what |-> what, at |-> t.at]
When(cond, message) == IF cond THEN <<message>> ELSE <<>>

Parts(t) ==
    When(Crossed(t) /\ ~Hold(t), Line("crossed", t.status, t))
    \o When(Recovered(t) /\ ~Hold(t), Line("recovered", Ok, t))
    \o When(ReportNow(t), Line("degraded", t.error, t))
    \o When(EngineRecovered(t), Line("engine-recovered", Ok, t))
    \o When(ActivityIsNew(t), Line("activity", t.activity, t))
-----------------------------------------------------------------------------
(* History.  phone is updated when a line is delivered, past when a tick   *)
(* is persisted; no action of the program reads either.                    *)

Phone == [status : Status, at : MaybeTime, engine : BOOLEAN, activity : 0..MaxActivity]

\* seen: the last trusted status persisted; dipped: one below the status on the
\* phone was; error, errorSince: the unbroken run of the same engine failure;
\* arrived: the rack when the responder now on site walked in; behind: a tick
\* persisted since the phone's last new activity went by less than was known.
Past == [seen : Status, dipped : BOOLEAN, error : MaybeError,
         errorSince : MaybeTime, arrived : Status, behind : BOOLEAN]

\* The tick read a log that ends before what the phone was told, with no held
\* page to carry the watermark, or it could not read its own state.
KnewLess(t) ==
    \/ t.activity < phone.activity /\ ~(t.activity = 0 /\ Hold(t))
    \/ t.previous.lastActivityAt < state.lastActivityAt

Remember(t) ==
    [past EXCEPT
        !.seen = IF t.trusted THEN t.status ELSE @,
        !.dipped = @ \/ (t.trusted /\ t.status < phone.status),
        !.behind = @ \/ KnewLess(t),
        !.error = t.error,
        !.errorSince = IF t.error = NoError THEN Absent
                       ELSE IF t.error = past.error THEN @ ELSE t.at]

Told(m) ==
    CASE m.kind \in {"crossed", "recovered"} -> [phone EXCEPT !.status = m.what, !.at = m.at]
      [] m.kind = "degraded" -> [phone EXCEPT !.engine = TRUE]
      [] m.kind = "engine-recovered" -> [phone EXCEPT !.engine = FALSE]
      [] m.kind = "activity" -> [phone EXCEPT !.activity = IF m.what > @ THEN m.what ELSE @]

\* A page starts the comparison with later readings anew; an activity no older
\* than any told before does so for the log.
Delivered(m) ==
    CASE m.kind \in {"crossed", "recovered"} -> [past EXCEPT !.dipped = FALSE]
      [] m.kind = "activity" /\ m.what >= phone.activity -> [past EXCEPT !.behind = FALSE]
      [] OTHER -> past
-----------------------------------------------------------------------------
(* The environment.                                                        *)

Elapse ==
    /\ now < MaxTime
    /\ now' = now + 1
    /\ UNCHANGED <<rack, feed, access, activity, state, pc, tick, outbox, phone, past>>

RackChanges ==
    /\ rack' \in Levels \ {rack}
    /\ UNCHANGED <<now, feed, access, activity, state, pc, tick, outbox, phone, past>>

\* The sensor log goes missing or stale and comes back.
FeedChanges ==
    /\ "mock" \in Faults
    /\ feed' = ~feed
    /\ UNCHANGED <<now, rack, access, activity, state, pc, tick, outbox, phone, past>>

\* The dashboard persists the sentry's state; expected is the only verdict that
\* the watchdog tells apart.
SentryWrites ==
    /\ now <= SentryUntil
    /\ \E e \in BOOLEAN :
        /\ access' = [stamp |-> now, expected |-> e]
        /\ past' = [past EXCEPT !.arrived = IF e /\ ~access.expected THEN rack ELSE @]
    /\ UNCHANGED <<now, rack, feed, activity, state, pc, tick, outbox, phone>>

ActivityLogged ==
    /\ activity < MaxActivity
    /\ activity' = activity + 1
    /\ UNCHANGED <<now, rack, feed, access, state, pc, tick, outbox, phone, past>>
-----------------------------------------------------------------------------
(* The watchdog process.  A timer that fires while a tick is in flight is   *)
(* skipped, so there is only ever one.                                     *)

\* The tick begins: it fixes its own notion of now and reads the sensor feed.
\* The mock generator may answer with any status.
Sample ==
    /\ pc = "idle"
    /\ \E s \in Levels :
        /\ feed => s = rack
        /\ tick' = [NoTick EXCEPT !.at = now, !.status = s, !.trusted = feed]
    /\ pc' = "sampled"
    /\ UNCHANGED <<now, rack, feed, access, activity, state, outbox, phone, past>>

\* readState: a file that cannot be read is a fresh "ok" baseline.
Load ==
    /\ pc = "sampled"
    /\ \E s \in {state} \cup (IF "state" \in Faults THEN {DefaultState} ELSE {}) :
        tick' = [tick EXCEPT !.previous = s]
    /\ pc' = "loaded"
    /\ UNCHANGED <<now, rack, feed, access, activity, state, outbox, phone, past>>

\* The activity line the laptop's copy of the log ends with.  scp rewrites the copy
\* in place, so while one is under way or was cut off the copy ends earlier; a
\* board that booted with its clock at 1970 makes the last line an old one too.
LastActivity ==
    {activity}
    \cup (IF "copy" \in Faults THEN 0..activity ELSE {})
    \cup (IF "log" \in Faults THEN {0} ELSE {})

\* readLatestActivity, readAccessState and runRuleTick: three other files, each
\* of which may fail to be read without failing the tick.
Gather ==
    /\ pc = "loaded"
    /\ \E a \in LastActivity,
          f \in {access} \cup (IF "access" \in Faults THEN {NoAccess} ELSE {}),
          e \in MaybeError :
        tick' = [tick EXCEPT !.activity = a, !.access = f, !.error = e]
    /\ pc' = "gathered"
    /\ UNCHANGED <<now, rack, feed, access, activity, state, outbox, phone, past>>

\* writeState comes before the first line is delivered.
Persist ==
    /\ pc = "gathered"
    /\ state' = NextState(tick)
    /\ outbox' = Parts(tick)
    /\ pc' = IF Parts(tick) = <<>> THEN "idle" ELSE "delivering"
    /\ past' = Remember(tick)
    /\ tick' = NoTick
    /\ UNCHANGED <<now, rack, feed, access, activity, phone>>

\* deliver: a send that fails is counted and dropped, the next line follows.
Deliver ==
    /\ pc = "delivering"
    /\ \/ /\ phone' = Told(Head(outbox))
          /\ past' = Delivered(Head(outbox))
       \/ "send" \in Faults /\ UNCHANGED <<phone, past>>
    /\ outbox' = Tail(outbox)
    /\ pc' = IF Len(outbox) = 1 THEN "idle" ELSE "delivering"
    /\ UNCHANGED <<now, rack, feed, access, activity, state, tick>>

\* The state cannot be written: the tick throws before anything is delivered.
WriteFails ==
    /\ "write" \in Faults
    /\ pc = "gathered"
    /\ pc' = "idle"
    /\ tick' = NoTick
    /\ UNCHANGED <<now, rack, feed, access, activity, state, outbox, phone, past>>

\* The process dies (or is stopped by the shutdown backstop) and is restarted.
Crash ==
    /\ "crash" \in Faults
    /\ pc # "idle"
    /\ pc' = "idle"
    /\ tick' = NoTick
    /\ outbox' = <<>>
    /\ UNCHANGED <<now, rack, feed, access, activity, state, phone, past>>
-----------------------------------------------------------------------------
Init ==
    /\ now = 0
    /\ rack \in Levels
    /\ feed = TRUE
    /\ access = NoAccess
    /\ activity = 0
    /\ state = DefaultState
    /\ pc = "idle"
    /\ tick = NoTick
    /\ outbox = <<>>
    /\ phone = [status |-> Ok, at |-> Absent, engine |-> FALSE, activity |-> 0]
    /\ past = [seen |-> Ok, dipped |-> FALSE, error |-> NoError,
               errorSince |-> Absent, arrived |-> Ok, behind |-> FALSE]

Environment == Elapse \/ RackChanges \/ FeedChanges \/ SentryWrites \/ ActivityLogged
Watcher == Sample \/ Load \/ Gather \/ Persist \/ Deliver
Next == Environment \/ Watcher \/ WriteFails \/ Crash

Spec == Init /\ [][Next]_vars

\* The interval timer keeps firing and the event loop keeps running what it has
\* started; the clock moves.  Nothing is assumed of rack, feed or dashboard.
Fairness == WF_vars(Watcher) /\ WF_vars(Elapse)
FairSpec == Spec /\ Fairness
-----------------------------------------------------------------------------
TypeOK ==
    /\ now \in Time
    /\ rack \in Status
    /\ feed \in BOOLEAN
    /\ access \in AccessFile
    /\ activity \in 0..MaxActivity
    /\ state \in AlertState
    /\ pc \in {"idle", "sampled", "loaded", "gathered", "delivering"}
    /\ tick \in Tick
    /\ outbox \in Seq(Message)
    /\ phone \in Phone
    /\ past \in Past

\* The tick that would run now, if it read the rack at status s and trusted it.
TickAt(s) == [NoTick EXCEPT !.at = now, !.status = s, !.trusted = TRUE, !.previous = state]

\* A held page is a page still owed: with the rack as the last trusted tick saw
\* it, the decision would fire again, so the page goes out as soon as nothing
\* holds it (state-store.ts: lastStatus is not advanced while a page is held).
HeldPageStillOwed == Held(state) => ShouldAlert(TickAt(past.seen))

\* While a page is held, no trusted reading was worse than the status the hold
\* began with: an escalation under the responder's nose ends the hold.
HoldEndsOnEscalation == Held(state) => past.seen <= state.heldStatus

\* The baseline of a hold never moves while the hold lasts, whatever is read,
\* mocked or lost in between (tick.ts: preserve the ORIGINAL status).
HoldBaselineFixed ==
    [][Held(state) /\ Held(state') =>
        /\ state'.heldStatus = state.heldStatus
        /\ state'.heldSince = state.heldSince]_vars

\* A hold ends silently only when a trusted reading says that there is nothing
\* left to page about: the rack is no worse than the last status paged, or is
\* back to ok.  A mock reading or a vanished access file never swallows it.
HoldNeverLeaks ==
    [][Held(state) /\ ~Held(state') =>
        \/ outbox' # <<>> /\ Head(outbox').kind \in {"crossed", "recovered"}
        \/ tick.trusted /\ tick.status <= state.lastStatus]_vars

\* A hold lasts unchanged and ends in the open.
HoldIsFaithful == HoldBaselineFixed /\ HoldNeverLeaks

\* The same bad level is paged again only after the cooldown, or after a trusted
\* reading below it: no watchdog tick, hold, blip or restart turns a sustained
\* problem into a page every tick (decide-alert.ts).
RepeatPagesSpaced ==
    [][pc = "delivering" /\ phone' # phone /\ Head(outbox).kind = "crossed"
        /\ Head(outbox).what = phone.status =>
        Head(outbox).at - phone.at >= Cooldown \/ past.dipped]_vars

\* An all-clear is only ever sent for a problem the phone was told about.
RecoveryIsEarned ==
    outbox # <<>> /\ Head(outbox).kind = "recovered" => phone.status # Ok

\* "Engine has recovered" is only said about an outage that was announced.
EngineRecoveryIsEarned ==
    outbox # <<>> /\ Head(outbox).kind = "engine-recovered" => phone.engine

\* Good news, of the rack or of the engine, only ever follows bad news.
RecoveryWasTold == RecoveryIsEarned /\ EngineRecoveryIsEarned

\* An outage is announced only once the same failure has been seen by every
\* tick of a stretch at least the grace period long (no flap reaches the phone).
EngineGrace ==
    [][\A i \in 1..Len(outbox') :
        outbox'[i].kind = "degraded" /\ outbox = <<>> =>
            /\ past'.error = outbox'[i].what
            /\ outbox'[i].at - past'.errorSince >= Grace]_vars

\* An activity the phone was told of is pushed again only if in between a tick
\* went by less than was known: it read a log that ended before that activity,
\* or it could not read its own state.  No lost tick, failed send, crash or held
\* page makes the phone hear of the same person twice (tick.ts, the watermark).
RepeatedActivityWasUnseen ==
    outbox # <<>> /\ Head(outbox).kind = "activity" =>
        Head(outbox).what > phone.activity \/ past.behind

\* Whatever status the rack settles at, with a feed to see it, the phone ends up
\* told of it or of something worse, and told of the recovery: a page is held
\* for at most as long as the dashboard vouches for a responder.
EventuallyTold ==
    \A s \in Levels :
        <>[](rack = s /\ feed) => <>[](IF s = Ok THEN phone.status = Ok ELSE phone.status >= s)
-----------------------------------------------------------------------------
(* What comments of the repository claim of this component.                *)

\* decide.ts: being on site cannot mean that you already know about a thing that
\* had not happened yet when you arrived.  No tick holds a page for a status
\* worse than the rack was when the responder walked in.
EscalationAlwaysWins ==
    pc = "gathered" /\ Hold(tick) => tick.status <= past.arrived

\* state-store.ts: a held page is a deferral, never a cancellation.  When a hold
\* ends, a page goes out.
HeldNeverCancelled ==
    [][Held(state) /\ ~Held(state') =>
        outbox' # <<>> /\ Head(outbox').kind \in {"crossed", "recovered"}]_vars

\* state-store.ts: a failure produces one message on the way in and one on the
\* way out.  Once a healthy tick has delivered its lines, no outage is open.
EngineOutageClosed ==
    pc = "idle" /\ past.error = NoError => ~phone.engine

\* environmental/file-source.ts: an activity is worth reporting exactly once, the
\* persisted watermark sees to it.
ActivityNeverResent ==
    outbox # <<>> /\ Head(outbox).kind = "activity" => Head(outbox).what > phone.activity

\* state-store.ts: lastAlertedAt is the last time an alert was actually emitted.
LastAlertWasEmitted ==
    pc = "idle" /\ state.lastAlertedAt # Absent => phone.at = state.lastAlertedAt
=============================================================================
