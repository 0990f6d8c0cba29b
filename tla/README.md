# SMH-Hermes: TLA+ models, checks and proofs

SMH-Hermes watches a server rack. A board with sensors logs readings and door
and presence edges; a *watchdog* turns readings into pages on the on-call's
phone; a *dashboard* (the wall) shows the rack, challenges whoever stands at it
and mirrors the phone's thread; an agent gateway talks to the on-call. The parts
share no memory. They meet in a handful of JSON files, one SQLite database, a
log file and a few HTTP calls, and each runs on its own timer. Most of what is
hard about the program is there: files replaced under a reader, state read
before an `await` and used after it, a decision persisted before it is acted
on, evidence that arrives late.

All paths below are relative to `src/mcp-tools/src/` unless they begin with
`src/`.

## 1. Inventory

| Component | Code | State | Operations | Hard behaviour |
|---|---|---|---|---|
| Watchdog | `alert-skill/{tick,decide-alert,suppress,state-store,watch-loop}.ts` | `environmental-watch.json`: last status and alert time, the hold for a responder, the rule-engine latch, the activity watermark; health record of the loop | one tick every interval: sample, load, gather, persist, deliver | persisted before sent; three other files that may be unreadable; holds that outlive many ticks |
| Access decision matrix | `access/decide.ts`, `access/types.ts` | none | `decideAccess` | counts of faces against door edges; silence must not pay |
| Access sentry | `access/{sentry,state,notify,identify}.ts` | the open challenge and the audit log (memory and `access.json`), the identity and photo in hand, the set of announced challenges | tick of the wall, capture, approve, enrol, restart | every `await` (write, identity backend) lets the other requests in |
| Roster | `access/roster.ts` | `roster.json` | enrol | |
| Atomic file replacement | `common/atomic-write.ts`, `common/read-retry.ts` | temp file, target | write chunks, rename with retries, read with retries | two calls of one process, readers on the old file, busy renames |
| Gateway bridge | `dashboard/gateway-bridge.ts` | position in the gateway's message table | `drain` | appends between two SELECTs, a busy database, a full batch |
| Phone panel | `dashboard/telegram-feed.ts`, `dashboard/watch-health.ts` | bubbles, the alert state seen before, a cached health answer | `update`: reconcile, probe, confirm | two asynchronous witnesses of one send |
| Wall server and snapshot | `dashboard/{server,snapshot,types}.ts` | event list, SSE clients | tick, requests | non-overlapping tick beside free-running requests |
| Telegram polling | `dashboard/telegram-poll.ts` | update offset, a terminal stop | prime, long poll, conflict guard | asking confirms: an answer lost on its way, an error swallowed while priming, a gateway that takes the bot over between two requests |
| Sensor log reading | `dashboard/sensor-log.ts`, `environmental/*.ts` | none | tail, parse, judge staleness, look for a leak | a bounded tail window, lines cut off, stamps from 1970 |
| Rule engine | `rules/{evaluate,runner,manage,store,defaults}.ts` | `rules.json`, `rule-state.json` | evaluate, run, manage, collect expired | two writers on two files |
| Rule validation | `rules/{validate,baseline}.ts` | none | measure a rule against the log before it is armed | ends of the scale and of the log |
| Incident assessment | `assess/{assess,risk,confidence}.ts` | none | score, level, confidence, cause | decay within a family, bonus across families, branches that have to cover every combination |
| MCP servers | `servers/*.ts` | none | tool adapters | |
| Generators, host metrics | `mock/*.ts`, `real/*.ts`, `common/{rng,thermal}.ts` | seed | sample | |
| Telegram sender, helpers | `common/{telegram,timeout,env,alerts}.ts` | none | send, time limit | |
| Cron variant of the watchdog | `alert-skill/check-environmental.ts`, `src/mcp-tools/cron/environmental-watch.py` | the watchdog's | one tick, printed | second writer of the same state |
| Failover hook | `src/hermes-hooks/failover/handler.py`, `failover.sh` | a lock around the phone, a cached serial, the prompt file and the inferences on the phone | probe, take the phone, drive it, tell | a thread that outlives its time limit, an inference that outlives its shell, cables |
| Acknowledgement hook | `src/hermes-hooks/ack/handler.py` | `sessions.json`, `ack-queue.json` | note a turn, send its receipt, flush the oldest queued one, queue, learn | turns overlap and rewrite both files without a lock; a send may arrive and still fail |
| Model server supervisor | `src/scripts/geniex-supervisor.ps1` | a named mutex | look, kill, start, wait for the load, rest | a server that is still loading looks dead; two supervisors |
| Board logger | `src/uno-q/hermes-sensor-logger/` | edge detectors | sample, infer activity, append | |
| Log shipping | `push_sensor_log.sh`, `prune_sensor_log.py`, `src/uno-q/pull_sensor_log.ps1` | the log, its copy, the last probe of the link | prune, probe, push, pull | append against prune, a copy cut off half way, a clock at 1970 after a boot |
| Face scripts, browser pages, benchmarks | `src/mcp-tools/scripts/`, `src/mcp-tools/public/`, `src/llm-serving-bench/` | | | numerical code, rendering, measurement |

How they meet:

- the **watchdog** writes the alert state file, which the **phone panel** reads;
  it serves a health record over HTTP, which the panel probes (with a cache);
- the **sentry** writes `access.json`, which the **watchdog** reads to hold a
  page while a responder is on site;
- the **board** appends to the sensor log, which is copied to the machine and
  read by the watchdog and by the wall;
- the **gateway** appends to its SQLite database, which the bridge tails; where
  there is no gateway the wall polls Telegram itself, and the two must not poll
  one bot together;
- the gateway calls its two **hooks** around each turn: the acknowledgement hook
  sends a receipt at once, the failover hook puts the question to a phone over
  adb when the port of the **model server** is closed, which the **supervisor**
  looks after;
- the **assessment** gives the sentry its `incident`, which turns an unanswered
  challenge from something to note into something to announce;
- all JSON files are replaced through `writeFileAtomic`.

What makes each of them correct:

- *watchdog*: every change of the rack's status that lasts reaches the phone; a
  hold defers a page and does not swallow it; a sustained problem is not paged
  every tick; an all-clear only follows an alarm that was told;
- *decision matrix*: only people on the roster quieten the watchdog; refusing
  the camera is never cheaper than being seen;
- *sentry*: identity and approval belong to the visit they were given for; the
  audit trail keeps what it has recorded; somebody who does not answer is
  announced to a human;
- *atomic files*: a reader sees what one complete write wrote;
- *bridge*: the thread is shown completely, once and in order;
- *panel*: it claims no delivery and no page without evidence;
- *Telegram polling*: a message sent to the wall is shown once, in order, though
  Telegram forgets what the next request confirms;
- *sensor log*: history stays as long as promised, whatever the clock says; the
  laptop has all of it again once the link is back; what it says of a leak is so;
- *assessment*: more trouble never makes the picture milder, confidence follows
  provenance and not severity, the all-clear is only given when all is clear;
- *rule validation*: what a person is told about a rule is so;
- *failover*: the phone works for one question at a time, nobody is given an answer
  to somebody else's question, and the hook tries to tell something to whoever found the
  server down;
- *acknowledgement*: a receipt may be late and is not lost;
- *supervisor*: a server that can be brought back is;
- *rule engine*: no event is lost on a rule, whichever way the agent's calls, late
  pushes and unreadable files fall, and none is told twice unless the log was found
  to end before it; an alert is not repeated without a reason; a rule is told of its
  end before it is forgotten, and none starts from what a dead one left behind.

## 2. Modules

| Module | Models | Refines / is used by |
|---|---|---|
| `Watchdog` | one tick of the watchdog, its loop, the feed, the access file, the phone | theorems in `WatchdogProofs` |
| `AccessDecision` | `decideAccess` as operators over a look at the rack | `AccessSentry`, `MCAccessDecision`; theorems in `DecisionProofs` |
| `MCAccessDecision` | bounded looks, and steps from one look to another | extended by `MCDecisions` |
| `Assessment` | score, level, confidence and cause of one reading, as operators | `MCDecisions`; theorems in `DecisionProofs` |
| `RuleValidation` | `validateRule` against what the log holds, as operators | `MCDecisions`; theorems in `DecisionProofs` |
| `MCDecisions` | the three pure decisions, one observation at a time | run `Decisions`, `FalseAllClear` |
| `AccessSentry` | the sentry with its three callers and `access.json` | extends `AccessDecision`; theorems in `AccessSentryProofs` |
| `MCSentry` | the settings in which `AccessSentry` is checked: two visits, restarts, more visits than the log holds, overlapping loads and an illegible file, a changing assessment, a long wait | runs `SentryVisits`, `SentryOverTime`, `SentryLateIdentity` |
| `AtomicRegister` | what callers expect of a replaced file: a register whose writes take effect at one instant, at most once | refined by `AtomicFile` |
| `AtomicFile` | the file system calls of `writeFileAtomic` and of a reader | `MCAtomicFile`; theorems in `FileProofs` |
| `SensorLog` | the board's log: appends, boots, prune, push, pull, and the reading of the copy | `MCFiles`; theorems in `FileProofs` |
| `MCFiles` | the two files others read while they are written | run `Files` |
| `GatewayBridge` | `drain` against the gateway's appends | `PhoneThread` |
| `TelegramPoll` | the wall's own poller against Telegram and the gateway | `PhoneThread` |
| `Ascending` | a finite set of numbers in its order: rows, updates and lines are listed that way | `GatewayBridge`, `TelegramPoll`, `SensorLog`; lemmas in `AscendingProofs` |
| `PhonePanel` | the panel against the watchdog's persist-then-send and its health record | extended by `PhoneThread` |
| `PhoneThread` | what the wall shows of the phone, from its three sources | run of the same name; theorems in `PhoneThreadProofs` |
| `RuleEngine` | the evaluator's tick and the agent's calls on `rules.json` and `rule-state.json` | theorems in `RuleEngineProofs` |
| `MCRuleEngine` | ids, built-in rules and bounds for TLC | extends `RuleEngine` |
| `FailoverHook` | the failover coroutine, its worker thread, the phone and its cables | `Hooks`; theorems in `HooksProofs` |
| `AckHook` | the acknowledgement hook on its two files | `Hooks`; theorems in `HooksProofs` |
| `Supervisor` | the supervisor's loop, its mutex and the model server | `Hooks` |
| `Hooks` | what stands around the model server | run of the same name |

`PhoneThread`, `Hooks`, `MCFiles` and `MCDecisions` put together parts that answer
one question but read none of each other's state. A product of their state spaces
would only repeat each part beside every state of the others, so a behavior is about one
of them, chosen at the start.

### Watchdog

`state` is the alert state file field by field. A tick is five actions, because
everything else moves between them: `Sample` (read the sensors, fix the tick's
own *now*), `Load` (`readState`), `Gather` (newest activity line, `access.json`,
rule engine), `Persist` (`decideAlert`, `evaluateSuppression`, the engine latch
and the watermark, then `writeState`), `Deliver` (one line per step, in the
order of `runWatchTick`'s parts). The decision functions are operators of the
tick's record, one per function or field of `nextState`. A timer that fires
while a tick is in flight is skipped, hence the single `pc`.

The environment is free: clock, rack, feed (a mock answers when the real one
cannot), dashboard, board. `Faults` lists what may fail in an instance: `mock`,
`state`, `log`, `access` (a file that cannot be read), `copy` (the laptop's copy of
the log ends earlier than what was pushed, `LastActivity`), `write`, `send`, `crash`.
`phone` and `past` are history: what was delivered and what the ticks have seen.
No action of the program reads them.

### AccessDecision and AccessSentry

`Verdict` and `ApprovalRequired` are the matrix of `decideAccess`, from the same
inputs: presence, grace period, faces by kind, door edges, incident. Reasons
(texts) are left out.

`AccessSentry` splits the wall's tick where it awaits: `TickStart` (what
`SnapshotBuilder.build` has read before it comes to the sentry), `TickOpen` /
`TickClose` / `TickDecide` (memory first, then a write under way), `WriteLands`
(the file is replaced and whoever awaits it goes on), `TickNotify`.
`CaptureRequest`, `CaptureAnswered`, `Approve` and `Enrol` are requests that
come in at any of these points. `writes` holds the writes under way in the order
they were begun. `mem` is the sentry's memory, `disk` the file; `Restart`
replaces the one by what `readAccessState` makes of the other, which is nothing when the file
is not legible (fault `unreadable`). `load` sets `loaded` at its end, so with the fault
`overlap` a second caller has begun one too: `loading` is what it has read, from then
on until `LateLoad` puts it into memory, however far memory has gone on. A tick that finds
the challenge gone, or another open, when its write lands goes on as `update` does.
`TickNotify` is one attempt to send a page, which may fail (`send`) or have no credentials
(`mute`). `opened`, `acked`, `told`, `missed` and `undone` (what a load took out of memory)
are history.

A behavior has a `setting`, fixed at its start: its faults and its bounds. What two visits in a
row, a restart, overlapping loads, a changing assessment and a long wait need to happen differs, and no behavior
needs all of it; `MCSentry` names the settings.

### AtomicFile, AtomicRegister

Names, inodes and chunks: `Open` truncates the temp file whose name carries the
process id, `WriteChunk` writes through the handle, `Close`, `Rename` puts the
inode in place of the target, `RenameBusy` counts an attempt, `Throws` is
any other error and ends the call at once, `Crash` ends every call of a process. A reader opens the target and reads chunk by chunk from the inode it
has. The refinement maps the target's inode to the register's value and each
call to pending, done, failed or lost.

### GatewayBridge

`drain` is two SELECTs. The head is captured by the first and the rows are
selected by the second, and the gateway may append in between, or the database
may be busy for either. `Resume` is where the next drain starts: the last row of
a full batch, or the captured head. A row becomes a bubble or not (tool rows do
not), which the gateway chooses when it appends.

### PhonePanel

The watchdog as the panel sees it: decide and persist, then send or fail, with a
health record that dies with the loop. The panel attaches, reconciles with the
state file, then confirms waiting bubbles by the health answer, which may be a
cached one. `pages` is history: what was decided and when it was really sent.

### TelegramPoll

Updates are numbered in the order they are sent. A request is two steps, because its
answer can be lost after Telegram has acted on it: `Served` forgets what the offset
confirms and fixes the answer, `Arrives` shows it and moves the offset. `Prime` takes
the newest update only; `PrimeFails` is the error `start` swallows. `Conflict` is the
409 that a gateway polling the same bot causes, and it is terminal. `GatewayTakes`
may come between any two steps.

### SensorLog, MCFiles

A line has its number, its kind, the stamp the board gave it (`at`) and the true time
(`when`, history). `Reboot` cuts a line off, kills a prune between its read and its
replace, forgets the probe and puts the clock at 1970 until `Sync`. The prune is
`PruneReads` and `PruneReplaces`; a push goes through whole, or is cut off and leaves a
torn last line; a pull replaces the copy. `Ok` and `LeakDetected` are
what `readSensorLogReading` returns.

### Assessment, RuleValidation, MCDecisions

A signal is its status, not its value; points are counted in tenths, to which
`risk.ts` rounds each. `Possible` keeps to readings the program can meet: the thermal
couplings see a measured temperature only. A rule is compared with the set of values
and the number of events a log holds (the baselines), and with a current value of its own:
`createRule` reads the file twice, with an await between, so the second reading may find
what the first has not (`ReadingsDiffer`). The properties of `MCDecisions` compare a look
with the next one, so that monotonicity is a property of a step.

### FailoverHook

A question has a coroutine (`turn`) and, once it has the lock, a thread (`worker`),
which outlives it when `wait_for` gives up. Whether it can give up is computed from the
program's own limits: `LongestRun` adds up what one run may take and `Overruns`
compares that with the budget and its slack. `prompt` is the one prompt file on the
phone, `genie` the inferences there, each with the question it was started for and the
prompt it read. `Pick` is the serial cache. `listener` is the model server's port, only
read here.

### AckHook

Each file is read in one step and rewritten in another, with the copy a coroutine or
thread holds in between (`noted`, `held`). A file that cannot be read is one with nothing in it,
every error of a rewrite is swallowed (`WriteSessions`, `WriteQueue`), and two writers share one
temporary name. `Sending` is a send that may arrive and still fail. `harmed` and `blurred` are
history: the receipts and turns that a rewrite failed for, or undid because its copy was not the
file. `shared` has the receipts that two flushes had in hand at once.

### Supervisor, Hooks

`loading` is a process that was started and does not listen yet, which is what makes a
look ambiguous; `slow` a model that may need more than the 45 s it is given.

### RuleEngine

`rules` is `rules.json` (id to rule, built-in overrides included), `runtime` and
`levelsAt` are `rule-state.json`. The evaluator's tick is two actions, since it
awaits between reading `rules.json` (`TickRead`, or `TickReadBusy` when another
process holds the file) and replacing `rule-state.json` (`Evaluate`, from the
lines the laptop has by then, or from none when the log cannot be read). A call
of the agent is a read (`CreateReads`, `CancelReads`, `ResumeReads`), for a new
rule a second read (`CreateArms`, which picks the id and collects announced
rules) and the rename (`CallWrites`). What `evaluateRules` makes of one rule is
the operator `EvaluateRule`, with one operator per branch.

The board logs at most one line an instant, and may log none: a door opened or
closed, with a calm reading, a high reading alone, or a calm one stamped 1970
("adrift", what a board writes that has not been given the time). The laptop's copy
is the log up to `shown`, which `Push` moves anywhere, since scp writes in place:
back as well as forth. The mark a rule keeps is the stamp of the last line it was
shown (`Last`, `Advanced`), so it too goes back.

`reports`, `notices`, `alerts` and `alertedAt` are history, and so are `of` (which
rule, over all uses of an id) and `from` (where a rule without an anchor began) in a
runtime; no guard of the code's reads them. What a rule has said is "never" said,
"told", "open" once a tick had a reason to say it again, and "twice" if it was said
again without one. `EventsSeenOnce` and `AlertsAfterRecovery` name the reasons. For an
event there is one, a log whose last line is stamped before it. For a reading
(`Reopens`) there are four: a later line with a calm reading, a log that ends before
the alert, for "stayed high for" lines that begin too late (`covered`), and for silence
a fresh line.

## 3. Runs

| Run | Question | Bounds |
|---|---|---|
| `WatchdogPaging` | Does a held page stay owed, with its baseline, through mock readings, escalations, failing sends, a state file that cannot be written and restarts? Is a sustained problem paged once per cooldown? | three statuses, clock to 3, cooldown 2, access files up to 1, age 1 |
| `WatchdogTold` | Does the phone learn what the rack settles at? Is every all-clear earned, every outage past its grace period, no activity pushed twice unless a tick knew less? | statuses 0 and 1, two different engine failures, one activity line and a copy that may lack it, clock to 2, grace 1 |
| `Decisions` | Does any look quieten the watchdog that should not, is silence ever cheaper, does a worse look ever lead to a milder answer? Can a worse rack score less, or severity pass for credibility? Is a person ever told something untrue about a rule? | 2 faces of each kind, 3 door edges; all ten signals and a leak; a scale of 4 steps, 3 events, a message budget of 2 |
| `SentryVisits` | Do identity and approval stay with their visit while the feed is cut and restored? | 2 visits of a stranger who may be enrolled while there, one capture at a time |
| `SentryOverTime` | Do acknowledged decisions and the audit trail survive restarts, failed writes, a cut feed and an assessment that changes, but for what a load undoes? Is a page sent about a visitor who does not answer, and its failure shown? | `Restarts`: 2 visits, 3 challenges, no camera, faults `crash`, `write`, `stale`; `Crowded`: 3 visits and a log of 2 (50 in the code, the least at which an entry is lost and another stays); `Reloads`: 1 visit, 2 challenges, faults `crash`, `overlap`, `unreadable`; `Assessed`: 1 visit; `Waiting`: 1 visit, with feed, log window, identity backend and Telegram misbehaving |
| `Files` | Is the replaced file an atomic register when a process has one call at a time? Does the sensor log keep its history, does the copy catch up, and is what it says of a leak so? | 2 processes, 3 calls, 2 chunks, 2 rename attempts; 3 lines, time to 3, 1 reboot, retention, age and window 1, at least 2 lines kept (all constants of `Files.cfg`) |
| `PhoneThread` | Is there a page behind each bubble and evidence behind each delivery, is each sent alert confirmed? Is a message of the transcript or of Telegram skipped or, polled, shown twice, and is each shown in the end? | 3 pages, 4 bubbles, clock to 3, restarts, with and without credentials; 4 rows, up to 2 of them history, batch 2, backfill 1; 4 updates, up to 2 of them backlog, a shared bot |
| `RuleEngine` | Is no event skipped or, but for logs that end before it, reported twice, is expiry announced before collection, does nobody inherit a dead rule's runtime, is a dead feed noticed, does an alert repeat only for a reason? | lines with a door, a high reading or of 1970, or none, any prefix of the log as the copy, instants 2 to 5, windows 0 and 1, `ReuseInTick = FALSE`; `Alone`: one built-in rule, of each judging kind in turn, three instants and one more for the sustained kind, at most one instant without a dated line, one call if there is none; `ForPeople`: two ids for people's rules next to a built-in level rule, two instants, up to 3 calls, one instant without a dated line with one of them |
| `Hooks` | Does the phone work for one question at a time and is everybody told? Is a receipt lost? Does a supervised server come back? | 2 questions, budgets of 5 s and 90 s, one cable plugged or pulled; 2 turns, 1 queued receipt, 2 queue places, any read or rewrite of a file failing; 2 supervisors, 3 troubles |
| `AtomicFileOverlap` (violation) | Two calls of one process at a time | as `Files` |
| `SentryLateIdentity` (violation) | A capture that is answered after its visitor left | 2 visits |
| `FalseAllClear` (violation) | Families out of their thresholds under the words of the all-clear | as `Decisions` |

Why these bounds are enough to meet the interesting cases. Two visits are what
it takes to hand something from one to the next. Three statuses are all there
are. The clock only has to pass the cooldown, the grace period and the age of an
access file once, and they are set to one or two units for that: the code
compares differences of instants, never absolute ones. Three calls are what it
takes to create, cancel and create again on one id, and a second id is there
for when the first is taken. Two writers and a third
call give every pair of overlaps and a successor. A batch of two is the smallest
that can be exactly full, and four rows, of which none to two are there before the wall starts,
fill it and overflow it. Two questions, two turns and two supervisors are the
least that can get into each other's way; a budget of 5 s is one the worker can overrun and
90 s, the default, is not. A queue of two places is full with one receipt from before and
one of now. Three lines are an event, what hides it and what comes after, and one more than
the prune may drop. Four steps of a scale have two ends and something inside. The engine latch
needs two failures to tell "the same" from "another".

`CHECK_DEADLOCK FALSE` is given where an instance really stops: at the end of
the clock, of the calls, of the rows. Where it is absent the environment can
always move.

### Fairness

- *Watchdog*: the interval timer fires and the event loop runs what it has
  started (`watch-loop.ts`), so WF on the tick's steps; the clock moves. Nothing
  is assumed of rack, feed or dashboard.
- *AccessSentry*: WF on the wall's tick (`setInterval` in `server.ts`) and on
  the end of a write, in the setting `Waiting`. Nobody has to
  come, leave, be photographed or decide.
- *GatewayBridge*: WF on starting a drain, SF on the two SELECTs: SQLite's lock
  is held briefly again and again, so a busy database refuses some drains and
  not all of them.
- *PhonePanel*: WF on the panel's update and on its time-limited probe, SF on
  the ageing of the cached answer. Nothing is assumed of the watchdog or the
  network.
- *TelegramPoll*: WF on the loop's own steps, which a timer or the end of a
  request brings about; SF on a request that is repeated for ever being served and
  answered in the end. `EveryMessageShown` is stated for a bot no gateway polls,
  since a conflict ends the loop for good.
- *SensorLog*: WF on the probe and on the push of the endless shell loop. Nobody has
  to pull over the cable, and the link only has to stay up once.
- *FailoverHook*: WF on each coroutine's and each worker's steps: every call it
  makes has a time limit. None on `Ask`, the cables or the server.
- *Supervisor*: WF on the loop of each script that runs, and on the end of a load that is
  left alone. None on starting a supervisor, and `ServerReturns` supposes that one is
  running in the end.

### Findings

Three runs show what the code does where a comment, a text or a test says otherwise;
`PROJECT.json` quotes the lines.

1. `AtomicFileOverlap`: the temp name carries only the process id, so two
   overlapping calls of one process write the same temp file and a half-written
   one can replace the target.
2. `SentryLateIdentity`: an identity that is answered after its challenge was
   closed becomes the identity of the next visitor.
3. `FalseAllClear`: `explain` has no branch for storage without a physical signal, alone
   or with compute, and ends in "No incident detected. All evaluated families are within
   thresholds." although storage has been scored.

### Further divergences

The passing runs are made where the promise holds. The modules also state the
stronger promises some comments make; changing the instance as in the last
column lets TLC show a behaviour of the code that breaks them. For a property of a module that is part of a composition, the
instance is that of the composition's run.

| Property | What the code does | Instance that shows it |
|---|---|---|
| `Watchdog!EscalationAlwaysWins` | the baseline of a hold is the status of the first held tick (`suppress.ts:79`), later than the arrival `decide.ts:278-280` speaks of | `WatchdogPaging` with no fault and `MaxTime = 4` |
| `Watchdog!HeldNeverCancelled` | a rack back to ok while the page is held drops it without a message (`tick.ts:218`; `state-store.ts:37-39`) | the same |
| `Watchdog!EngineOutageClosed` | another failure text restarts the latch as unreported, and the outage announced before is never closed (`tick.ts:187`; `state-store.ts:11-13`) | `WatchdogTold` with no fault, `Levels = {0}`, `Grace = 2`, `MaxTime = 4` |
| `Watchdog!ActivityNeverResent` | the watermark becomes the stamp of the last activity line read, and is dropped with a log that cannot be read: after a copy that is cut off, under way or ends with a line of 1970 the activity is pushed again (`tick.ts:261`; `environmental/file-source.ts:112`, "worth reporting exactly once") | `WatchdogTold` |
| `Watchdog!LastAlertWasEmitted` | `lastAlertedAt` is persisted before the send and stays when it fails (`tick.ts:263`; `state-store.ts:7`) | `WatchdogPaging` with the fault `send` |
| `AccessSentry!NoInheritedApproval` | two visits between two ticks share a challenge and its approval (`sentry.ts:186`; `state.ts:145-147`) | `SentryVisits` with `alice` enrolled and the fault `close` |
| `AccessSentry!RetiredMeansGone` | an entry edge that leaves the tail window, or is not in a copy that is cut off, reads as a departure (`sentry.ts:194`; `165-168`) | `SentryOverTime` with the fault `window` in `Restarts` |
| `AccessSentry!DecisionNeverLost` | a load that had begun before the first was over replaces memory, whatever was approved since; a file that is not legible is loaded as an empty one (`sentry.ts:149-154`; `state.ts:43-45`, `51-55`) | `SentryOverTime`, in `Reloads` with either of `overlap` and `unreadable` |
| `AccessSentry!TrailNeverShrinks` | the same, and the next write puts the shorter log into the file (`sentry.ts:449`; `state.ts:51-55`, "the audit log silently becomes `[]`", which the atomic write was to prevent) | the same |
| `AccessSentry!DecisionDurable` | two writes under way that land in reverse leave the file without the decision (`state.ts:57`; `164-170`) | `SentryOverTime` with the fault `reorder` in `Restarts` |
| `GatewayBridge!ShownOnce` | a row appended between the SELECT of the head and that of the rows is shown, and shown again by the next drain (`gateway-bridge.ts:279`; `gateway-bridge.test.ts:132-138`) | `PhoneThread` |
| `GatewayBridge!HistoryBounded` | `attached` is set before the backfill is read; when that is refused the next drain replays the table (`gateway-bridge.ts:187`; `237`) | `PhoneThread` |
| `PhonePanel!DeliveredWasSent` | evidence of one send promotes every bubble stamped before it (`telegram-feed.ts:326`; `28-29`) | `PhoneThread` |
| `PhonePanel!RecoveryConfirmed` | a recovery is stamped when the panel notices it, possibly after the send that would confirm it (`telegram-feed.ts:276`; `42-43`) | `PhoneThread` |
| `PhonePanel!NoInventedPage` | a state file that cannot be read is a healthy one (`state-store.ts:77`), to the panel a recovery and then a new alert (`telegram-feed.ts:134-135`) | `PhoneThread` with the fault `unreadable` |
| `MCDecisions!RemarksAgree` | the baselines and the current reading come from two readings of the file, with an await between (`manage.ts:102-103`): a push in between lets a rule be told both "has never happened ... it may never fire" and "already satisfies this rule" (`validate.ts:180`; `204`) | `Decisions` |
| `AckHook!OnlyLate` | a queue that cannot be read is an empty one and is written back as such, the errors of a rewrite are swallowed, and two rewrites that overlap undo each other: a receipt is lost, or sent again (`ack/handler.py:273-275`; `285-286`; `289`; `253-254`, "only that it is late") | `Hooks` (`ReceiptsOnlyLate`) |
| `SensorLog!LeakSurvivesReboot` | the scan for a leak stops at the first line older than the window, and a line written before the board's clock is set is of 1970: a leak logged before a boot is not seen, though nothing cleared it (`file-source.ts:212`, "lines are appended in order") | `Files` |

Eight more of the rule engine. The first four are stated as properties; the others
are noted from reading: delivery and overlapping calls are left out of `RuleEngine`
(§5), late pushes and muting are in it without a property.

| Property | What the code does | Instance that shows it |
|---|---|---|
| `RuleEngine!NoInheritance` | a tick that read `rules.json` before a rule was cancelled writes the rule's first runtime after its id was given out again (`store.ts:125-128`; `manage.ts:135-138`) | `RuleEngine` with `ReuseInTick = TRUE` |
| `RuleEngine!SilenceIsReal` | a log that cannot be read for one tick is a log without lines, and "Sensor feed is silent" goes out at once although fresh lines are there (`evaluate.ts:274`; `alert-skill/tick.ts:174`: "A failure has to PERSIST before anyone is told") | `RuleEngine` |
| `RuleEngine!EventNeverRepeated` | the mark of a rule is the stamp of the last line present, and goes back with a copy that is cut off or a line of 1970: the next whole copy brings the events after it again (`evaluate.ts:180`; `231`; `178-179`: "no gap, no overlap"; `push_sensor_log.sh:110`) | `RuleEngine` |
| `RuleEngine!QuietUntilRecovery` | lines that begin after the start of the time a sustained rule looks back upon count as the condition not being met, and open the latch: the rule alerts again although no reading has recovered (`evaluate.ts:331`; `202`; `10-12`) | `RuleEngine` |
| delivery | firings and expiry notices are lost when the process dies or the send fails after `writeRuleState` (`runner.ts:114`; `manage.ts:170`: "the notice can never be lost"; `types.ts:73`: "never misses one") | |
| late push | an event of the final window that is pushed after the expiry was announced is not reported (`evaluate.ts:141-146`) | |
| muting | a degraded read of `rules.json` yields the built-in rules as they ship, so that a muted one is live for that tick (`store.ts:75-87`; `defaults.ts:10-12`) | |
| calls | two overlapping calls of the agent rewrite `rules.json` from the same reading: one is lost, or both give out the same id (`manage.ts:150`) | |

Others were met while the modules were written. They have no property of their own, because
the module takes them as its environment or as an assumption that a property names.

| Code | What it does |
|---|---|
| `src/hermes-hooks/failover/handler.py:558` | with a budget below 31 s and two devices attached a worker may outlive the lock, and the next question's prompt and inference meet its own (`Overruns`) |
| `src/hermes-hooks/failover/handler.py:270` | the serial is picked once in the life of the process; when that happened while the phone was unplugged or the board was the only device, later questions fail until the process is restarted |
| `src/hermes-hooks/failover/handler.py:548` | the port is looked at before the lock is waited for: a question may be answered by the phone although the server has come back meanwhile |
| `src/scripts/geniex-supervisor.ps1:149` | a model that takes longer than 45 s to load is killed and started again for ever (`slow`) |
| `src/uno-q/hermes-sensor-logger/prune_sensor_log.py:111` | every line that comes between the prune's read and its replace is lost, where the comment speaks of "a single sensor_tick" |
| `assess/confidence.ts:76` | when no family is involved the confidence is high however old the reading is |
| `assess/assess.ts:259` | "Physical and storage signals are normal" is said with storage involved as well |
| `assess/assess.ts:272` | "Not yet reflected in storage, network or compute telemetry" is said of a physical anomaly beside a network one |
| `rules/validate.ts:139` | a strict comparison with the bound of the sensor is accepted although no reading can fulfil it; a threshold off the scale that every reading fulfils is refused as one that can never be reported |

## 4. Proofs

Checked with TLAPS for every value of the constants that satisfies the named assumptions of the
module. Every invariant and every action property of the passing runs is a theorem; the runs show
each on an instance, and were used to find the invariants below before they were proved. Where a
theorem assumes more than its module, the assumption is in its statement and the run keeps to it.

**`WatchdogProofs`.** Eight theorems. What a tick will persist depends on what it has read,
so `IInv` says that the state a tick has loaded is the state it will replace (`SnapshotCurrent`: no
one else writes the file; with the fault `state` it may be the default instead), that a tick's own
time is not ahead of the clock (`TickBehind`) and that the outbox is only filled while delivering
(`OutboxFed`). `TypeCorrect`, `HeldPagesAreOwed` and `EscalationEndsHold` follow from it, with every
fault switched on.

- `HoldsAreFaithful` is about a step: a hold's baseline does not move while it lasts, and it ends
  with a page, an all-clear or a trusted reading no worse than what was paged. It assumes that the
  state file can be read, `"state" \notin Faults`: an unreadable file forgets a hold.
- `RepeatsAreSpaced` has the same assumption, since an unreadable file forgets the cooldown too. A
  page that was sent is not what the file remembers (it may be of a page whose send failed), so
  `PagesBacked` says that the level on the phone is at most that of the file and the cooldown runs
  from no earlier than the phone's page.
- `GoodNewsFollowsBad` (no all-clear and no engine recovery without the bad news) assumes that sends
  do not fail and that the loop does not die between its write and its sends: the file remembers a
  page before it is sent (section 3, `LastAlertWasEmitted`). `NewsDelivered` says that what the file
  remembers is on the phone or first in the outbox.
- `RepeatsWereUnseen` assumes nothing: the log's copy may end anywhere and the state file may be
  unreadable. `WatermarkAhead` says that the watermark is not behind the phone unless a tick, since
  the last new activity reached the phone, knew less than the phone (`past.behind`).
- `OutagesOutlastGrace` assumes nothing. `OutageBacked`: the run of failures in the file is the one
  every tick since has seen, and began no earlier than the file says.

The last four need the order in which a tick's lines go out (`OutboxInOrder`).

**`DecisionProofs`.** The three pure decisions, for any number of faces and door edges, all ten
signals and a leak, any scale of a sensor and any log (`ScaleAssumption`: the ends of the scale are
integers, the message budget a number).

- The matrix of the sentry: `HoldNeedsRoster`, `SilenceCostsAsMuch` and `TroubleAtTheRack`, by cases
  of what the picture shows and whether there is an incident.
- `VerdictsAreTrue`: what a person is told of a rule is so. A threshold every or no reading of the
  scale fulfils is found by comparing it with the two ends, which is right because each of the four
  operators is monotone; that the log reached it is found from its least and greatest value, which
  exist because the log is a bounded set (`GreatestOf`). Nothing is assumed of the second reading of
  the log, so that two remarks may contradict each other when the current value is none of those
  in the baselines (section 3, `RemarksAgree`).
- `TroubleNeverCalms`: the score is a sum over families of a worst signal in full and the others at
  a discount, so a signal that worsens may become the worst and push another to the discount. The
  count of critical and warning signals changes by one (`CountWorse`), and the points of a family
  grow with either (`PointsGrow`); the bonus for a further family only adds.
- `CredibilityIsProvenance`: confidence depends on the families involved, the age and the sources
  alone.

**`AccessSentryProofs`.** `SentryTypes`, and, if the writes of `access.json` land in the order in
which they were begun (`InOrder`: no setting has the fault `reorder`), `AuditTrailGrows` and
`DecisionsLast`, for any visits, persons, cameras, failed writes, restarts, overlapping loads and
illegible files and for any size of the log. Both except the challenges in `undone`: those a load
found missing or without their decision; without the exception TLC finds either violated (section 3).
A restart goes back to the file and a write that is still under way may be lost, so neither
holds of memory alone. `Chain` says that the file, each write under way in its order and memory
*follow* one another: what is on the record in one, and is among the last `LogLimit` to be opened,
is on the record in the next, with its decision if it had one, unless it was undone
(`LoadFollows`: a load is followed by what it leaves). `AllDistinct` says of each of them
that no challenge is filed twice or while it is open, which is what keeps `retire` from replacing a
decided entry and bounds the younger ones by counting their ids (`NewestHasRecent`); `Backed`, that
what was acknowledged is in the file and what a write will acknowledge is in that write. That the
types are kept needs `Awaited`: the tick has at most one write of its own under way, and only where
it waits for it. With `reorder` TLC finds the decision lost (section 3).

`FiledMeansGone` has no assumption: its property speaks of settings without the fault `window`. What
the wall knows is of the past or of now (`ViewBehind`), and whoever is filed, in memory, in the file
in a write on its way there or in what a load has read, had left (`LeftInv`).

`ApprovalsAreNotInherited` assumes `SeenOut`: each visitor is seen out before the next one comes (no
fault `close`; with it two visits share a challenge, section 3), loads do not overlap, and where the
dashboard may die a write neither fails nor is overtaken and the file is legible. The last part was found by TLC. With `write` and `crash` the
write that closes a challenge may fail, the next visitor comes, the process dies and starts again
from the file, and the challenge that was approved for the first is open for the second. Without
`crash` writes may fail as they like. `VisitInv` ties the open challenge, the tap that decided it
and the tick's copy of the rack to the visit under way; `Settled` says the same of the file and of
the writes a restart could go back to. `IdentitiesAreOfTheVisit` assumes in addition that
identification answers at once (no fault `slow`), and `SentryLateIdentity` shows that it must.

**`FileProofs`.** `FileNeverTorn`, `ReadersSeeOneWrite` and `FileIsRegister`, under the assumption
that a process has at most one call under way (`~Overlap`), for any number of processes, calls,
chunks and attempts. The invariant says who may touch which inode: a running call alone holds its
temp file, the target points to an inode no handle writes to any more, an inode's chunks up to a
call's position are that call's, an inode a reader has open was complete when it was opened. One
lemma per action; the refinement theorem maps each step to a step of the register or to a stutter.
`AtomicFileOverlap` is the proof that the assumption is needed.

`HistoryIsKept` and `LeaksAreTrue` are about the sensor log, for any length, retention, minimum, age
and window, any number of boots and any order of prunes, pushes and pulls. `LogInv` says that each
copy there is, the board's, the one a prune has read and the laptop's, is a *chronicle*: its lines
are in the order in which they were written, none later than now, each stamped with its time or with
1970. Choosing lines (`ChosenChronicle`), appending and cutting off keep that. Hence the newest
stamp is never ahead of the true time, which is why a retention measured from it drops nothing young
(`PrunedProperties`); and hence the last line at which the scan for a leak stops is the last leak
event of the file, unless a line of 1970 lies behind it.

**`PhoneThreadProofs`.** `PanelOfPages`, for any number of pages, bubbles and restarts, and
`IntakeMissesNothing`, for any batch, backfill, history and backlog (`ThreadAssumption`: a batch is
at least one row).

- `PanelOfPages` assumes that the state file can be read (`"unreadable" \notin Faults`). An
  unreadable one reads as the default, from which the panel makes an all-clear nobody decided
  (section 3, `NoInventedPage`). `PanelInv`: what the health record says, and the panel's cached
  copy of it, was sent (`Evidence`); the state file says which page wrote it (`Written`); what the
  panel has not seen of it is newer than all it has posted (`Unseen`), so its bubbles are pages in
  their order.
- `IntakeMissesNothing` has no assumption. For the transcript: `resume` never passes a row that is
  not shown, because a full batch resumes at its last row and only a batch that is not full at the
  head it captured (`Smallest` takes the first rows in order, by `InOrderProperties`). For the
  poller (`Pending`): between its offset and what Telegram has forgotten lies only what the gateway
  took, and an answer under way begins where that ended.

**`RuleEngineProofs`.** Six theorems, all with `~ReuseInTick`, for any ids, built-in rules, kinds,
windows and bounds. Four invariants, each on top of the one before.

- `IInv`, for `TypesCorrect` and `NoRuleInherits`. `NoInheritance` speaks of the two files only, and
  what the tick and the call under way are about to write decides whether it lasts: a built-in
  rule's id is its own everywhere (`SystemOwn`); the tick's copy of `rules.json` agrees with the
  file on every rule both hold (`TickAgrees`); a call leaves each rule in place or removes it, and a
  rule it adds has an id that neither file nor the tick holds (`CallAgrees`). The last is where
  `newRuleId` matters, and where the assumption is needed: with `ReuseInTick` TLC finds the property
  violated. The lemma `NewIdUnused` is its contract.
- `HomeInv`: a rule has one id for life, in the files, the tick and the call alike, keeps its kind
  and its expiry, and has said nothing before it was written.
- `SaidInv`: what a rule has said, and has had no reason to say again, its runtime remembers.
  Hence `ExpiryIsAnnounced`, and that no event is told twice.
- `SeenInv`: up to its mark a rule has told of every event it should (`Gapless`); and the latch of a
  rule whose alert is not open to be given again is closed, its mark is past the line it alerted at,
  and the condition lasts (`Latched`, `StillMet`). Hence `EventsAreSeenOnce` and
  `AlertsFollowRecovery`; `SilenceIsNoticed` follows from `IInv` and `HomeInv`.

What a tick finds is any prefix of the log (`Whole`): every dated line that is not after the last
line's stamp is in it, because lines are appended in order and only stamps of 1970 are not. That is
what makes a mark that went back harmless for `Gapless`, and what the lemmas on the rules' readings
(`PassedIsLogged`, `MetIsRemembered`, `LatchKept`) start from.

**`HooksProofs`.** `HookTypes` and `PhoneHasOneOwner`, for any set of questions, any budgets and any
number of plugs. Mutual exclusion is not inductive, since the thread and the coroutine that holds
the lock are two. `Ownership` ties them: a busy worker's coroutine is the running one and holds the
lock (that is where `~Overruns` is used, for `GiveUp` alone can part them), a worker that has pushed
its prompt still finds it in the file, and every inference on the phone, one left behind by a shell
that died included, runs on the prompt of the question it was started for.

`ReceiptsAreOnlyLate`, for any turns, any receipts in the queue at the start and any length of the
queue (`HooksAssumption`: the receipts from before are not of these turns; the placeholder for "no
copy" is neither a queue nor a session file), whatever reads and rewrites fail and however they
overlap. What the rewrites do to one receipt is kept apart from what they do to the others: the file
and every copy have a receipt once, and only when its turn queued it (`Placed`); two flushes have
the same one in hand only if it counts as shared (`Apart`); and a receipt that no rewrite has harmed
and that has arrived is tried no more and is in the file only while the flush that sent it is about
to remove it (`Once`). `Rewritten` says what a rewrite may leave of a receipt it does not harm.

**`AscendingProofs`.** The lemmas the others share: `InOrder` lists a finite set of numbers, each
once and in order, and a bounded set has a least and a greatest member.

Beyond the prover, and with TLC: liveness (`EventuallyTold`, `SilenceInTheEnd`, `MirrorCatchesUp`,
`EverythingShown`, `AlertConfirmed`, `EveryoneIsTold`, `ServerReturns`). It is all that is said of
`Supervisor`, which is therefore only model-checked.

## 5. What the models leave out

- *Watchdog*: a single watchdog process (the cron variant appears only as a
  second writer in `AtomicFile`); rule firings and `rule-state.json`, which the
  same tick delivers; dry runs; legacy state files; wording; the HTTP health
  server beyond what the panel reads.
- *AccessSentry*: ids are a counter where the code derives them from the clock
  in seconds; the set of
  announced challenges is not cleared (the code clears it above 200); at most one load
  overlaps the first of a start, and `roster.json` is what the sentry last had of it; `settle`;
  the rungs of the identity ladder, of which only the answers are modelled;
  embeddings.
- *RuleEngine*: delivery of what a tick fired, which is the watchdog's; overlapping
  calls of the agent; validation of a call (a refused call changes nothing); the
  learned baselines, fire counts and texts; a channel missing from a line, sparse
  channels and peaks; two lines with the same stamp; the 60 s cap of the coverage
  slop. A 1970 line holds a calm reading and no edge, and one stamp stands for all of
  1970. `SilenceNoticed` speaks of built-in rules only, because a tick that cannot read
  `rules.json` judges no other.
- *GatewayBridge*: text trimming, the status line, a database that is replaced.
- *PhonePanel*: the queued prediction, messages ingested from elsewhere, the
  ring of 40 messages. The reader of a torn or missing file is the default
  answer, without the reasons.
- *TelegramPoll*: message texts; the 35 s limit of a request, which is one of its errors.
- *SensorLog*: the water level, activity lines as read, the HTTP client, the status file of the board's
  display, a replace that fails and is tried again.
- *Assessment*: how a measured value becomes a status; the texts beyond the cause they state.
  Floating point: the code's points are binary fractions rounded to a tenth, here whole tenths
  (`Decayed` has what each of them comes to; their sum is exact here).
- *RuleValidation*: the sparse channel, a log shorter or longer than the rule's window, rounding.
- *FailoverHook*: prompts and answers beyond whose they are; the two sends at the end are one step;
  a call that does not return although its time limit has passed (killing a process can block on Windows); a
  `--try` run started by hand, which takes no lock.
- *AckHook*: the generated receipt and the estimate, which change no state; the pruning of old
  sessions.
- *Supervisor*: orphans that hold memory and serve nothing, the configuration check.
- Components not modelled are in `PROJECT.json` with the reason: tool adapters,
  generators, numerical image processing, rendering, benchmarks. The others are
  on the plan.

## 6. Plan

What is left, in the order of what matters most to the system:

1. `RuleEngine` with delivery: the watchdog's tick that sends what the rules fired,
   so that what is lost between `writeRuleState` and the send can be stated; two
   overlapping calls of the agent.
2. Two watchdogs (loop and cron) on one alert state file, over the register that
   `AtomicFile` implements.
3. The assessment joined to `AccessSentry` in place of the free `incident`.
4. Proofs: what of `ApprovalsAreNotInherited` holds when a write fails and the dashboard dies, but the
   restart comes before the next visitor; which pages a panel can still tell apart when one reading
   of the state file fails; `Supervisor`'s mutex.
