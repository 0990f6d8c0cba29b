----------------------------- MODULE PhonePanel -----------------------------
(***************************************************************************)
(* TelegramFeed (mcp-tools/src/dashboard/telegram-feed.ts) beside the      *)
(* watch loop it observes.  The loop first records its decision in the     *)
(* alert state file and only then sends the page; the wall's panel infers  *)
(* pages from changes of that file and settles whether they were delivered *)
(* from the loop's health endpoint, asked later and through a cache.       *)
(* Messages the panel is handed by the bridge or the sentry are appended   *)
(* as they are and touch none of this state; they are left out, as is the  *)
(* 40-message ring.                                                        *)
(***************************************************************************)
EXTENDS Naturals, Sequences, FiniteSets, SequencesExt

CONSTANTS
    Faults,      \* subset of {"crash", "unreadable"}
    Credentials, \* subset of BOOLEAN: whether the loop may have a bot token
    MaxClock,    \* bound: instants the run distinguishes
    MaxPages,    \* bound: messages the watchdog decides to send
    MaxBubbles   \* bound: pages the panel posts

ASSUME PanelAssumption ==
    /\ Faults \subseteq {"crash", "unreadable"}
    /\ Credentials \subseteq BOOLEAN
    /\ {MaxClock, MaxPages, MaxBubbles} \subseteq Nat

\* An alert and a recovery change the state file; "other" (a rule-engine or
\* activity message) does not.
PageKinds == {"alert", "recovery", "other"}

\* "sending": AWAITING_SUFFIX; "failed": the last delivery error; "nocreds":
\* terminal; "unseen": no watch loop on the health port.
Verdicts == {"sending", "delivered", "failed", "nocreds", "unseen"}
Settled == {"delivered", "nocreds"}

VARIABLES
    clock,      \* wall-clock instant; 0 stands for "never"
    up,         \* the watch loop answers on its health port
    canDeliver, \* the loop has Telegram credentials
    file,       \* the alert state file, plus (history) the page that wrote it
    pages,      \* history: the messages decided, each [kind, at, sentAt]
    outbox,     \* pages of the running watch tick not yet attempted
    health,     \* the loop's lastMessageAt and lastDeliveryError
    pc,         \* panel update: "idle" or "probe" (file read, health not yet)
    attached,   \* the panel has adopted a baseline
    baseline,   \* history: number of pages decided when it did
    observed,   \* status and alertedAt as the panel last read them
    bubbles,    \* watchdog pages posted, oldest first
    cached      \* the last health answer, if younger than the cache's TTL

watchdog == <<up, canDeliver, file, pages, outbox, health>>
panel == <<pc, attached, baseline, observed, bubbles, cached>>
vars == <<clock, watchdog, panel>>

Instants == 0..MaxClock

\* What probe() can return: no loop on the port, or the loop's health record.
Answers == [up : BOOLEAN, messageAt : Instants, error : BOOLEAN]
Down == [up |-> FALSE, messageAt |-> 0, error |-> FALSE]

TypeOK ==
    /\ clock \in 1..MaxClock
    /\ up \in BOOLEAN
    /\ canDeliver \in BOOLEAN
    /\ file \in [status : {"ok", "alarm"}, alertedAt : Instants, page : 0..Len(pages)]
    /\ pages \in Seq([kind : PageKinds, at : Instants, sentAt : Instants])
    /\ outbox \in Seq(1..Len(pages))
    /\ health \in [messageAt : Instants, error : BOOLEAN]
    /\ pc \in {"idle", "probe"}
    /\ attached \in BOOLEAN
    /\ baseline \in 0..Len(pages)
    /\ observed \in [status : {"ok", "alarm"}, alertedAt : Instants]
    /\ bubbles \in Seq([kind : {"alert", "recovery"}, page : 0..Len(pages),
                        at : Instants, verdict : Verdicts])
    /\ cached \in [age : {"none", "young"}, answer : Answers]

NoFile == [status |-> "ok", alertedAt |-> 0, page |-> 0]

Init ==
    /\ clock = 1
    /\ up = TRUE
    /\ canDeliver \in Credentials
    /\ file = NoFile
    /\ pages = <<>>
    /\ outbox = <<>>
    /\ health = [messageAt |-> 0, error |-> FALSE]
    /\ pc = "idle"
    /\ attached = FALSE
    /\ baseline = 0
    /\ observed = [status |-> "ok", alertedAt |-> 0]
    /\ bubbles = <<>>
    /\ cached = [age |-> "none", answer |-> Down]

-----------------------------------------------------------------------------
Elapse ==
    /\ clock < MaxClock
    /\ clock' = clock + 1
    /\ UNCHANGED <<watchdog, panel>>

\* The kinds a watch tick may decide on, given the state it loaded.  A tick is
\* later than what the ticks before it decided and sent.
MayDecide(kind) ==
    /\ \A p \in Range(pages) : p.at < clock /\ p.sentAt < clock
    /\ kind = "recovery" => file.status = "alarm"

\* One watch tick up to its writeState: the decision is on disk, unsent.
WatchDecides(kind) ==
    /\ up
    /\ outbox = <<>>
    /\ Len(pages) < MaxPages
    /\ MayDecide(kind)
    /\ pages' = Append(pages, [kind |-> kind, at |-> clock, sentAt |-> 0])
    /\ outbox' = <<Len(pages) + 1>>
    /\ file' = CASE kind = "alert" ->
                      [status |-> "alarm", alertedAt |-> clock, page |-> Len(pages) + 1]
                 [] kind = "recovery" ->
                      [status |-> "ok", alertedAt |-> 0, page |-> Len(pages) + 1]
                 [] OTHER -> file
    /\ UNCHANGED <<clock, up, canDeliver, health, panel>>

\* deliver(): the send resolves ...
Delivered ==
    /\ outbox # <<>>
    /\ canDeliver
    /\ pages' = [pages EXCEPT ![Head(outbox)].sentAt = clock]
    /\ health' = [messageAt |-> clock, error |-> FALSE]
    /\ outbox' = Tail(outbox)
    /\ UNCHANGED <<clock, up, canDeliver, file, panel>>

\* ... or throws; without credentials it is not attempted.
NotDelivered ==
    /\ outbox # <<>>
    /\ health' = IF canDeliver THEN [health EXCEPT !.error = TRUE] ELSE health
    /\ outbox' = Tail(outbox)
    /\ UNCHANGED <<clock, up, canDeliver, file, pages, panel>>

\* The loop dies, the part it was sending unsent ...
LoopDies ==
    /\ "crash" \in Faults
    /\ up
    /\ up' = FALSE
    /\ outbox' = <<>>
    /\ health' = [messageAt |-> 0, error |-> FALSE]
    /\ UNCHANGED <<clock, canDeliver, file, pages, panel>>

\* ... and the task scheduler starts it again, with a fresh health record.
LoopStarts ==
    /\ ~up
    /\ up' = TRUE
    /\ UNCHANGED <<clock, canDeliver, file, pages, outbox, health, panel>>

-----------------------------------------------------------------------------
\* What the first read adopts as already known.
Adopted(f) == [status |-> f.status, alertedAt |-> f.alertedAt]

\* The bubble a read of f adds, given what was observed before: a new alert
\* stamp, else a return to ok.
NewBubble(f, seen) ==
    IF f.alertedAt # 0 /\ f.alertedAt # seen.alertedAt
    THEN <<[kind |-> "alert", page |-> f.page, at |-> f.alertedAt,
            verdict |-> "sending"]>>
    ELSE IF seen.status # "ok" /\ f.status = "ok"
    THEN <<[kind |-> "recovery", page |-> f.page, at |-> clock,
            verdict |-> "sending"]>>
    ELSE <<>>

\* readState answers the default for a file it cannot read; it does not retry.
FileReads == {file} \cup (IF "unreadable" \in Faults THEN {NoFile} ELSE {})

\* update() up to the probe: attach on the first call, reconcile afterwards.
PanelReads(f) ==
    /\ pc = "idle"
    /\ Len(bubbles) < MaxBubbles
    /\ LET seen == IF attached THEN observed ELSE Adopted(f)
       IN  bubbles' = bubbles \o NewBubble(f, seen)
    /\ observed' = [status |-> f.status, alertedAt |-> f.alertedAt]
    /\ baseline' = IF attached THEN baseline ELSE Len(pages)
    /\ attached' = TRUE
    /\ pc' = "probe"
    /\ UNCHANGED <<clock, watchdog, cached>>

\* The health answer is older than WATCH_HEALTH_CACHE_MS.
CacheExpires ==
    /\ cached.age = "young"
    /\ cached' = [age |-> "none", answer |-> Down]
    /\ UNCHANGED <<clock, watchdog, pc, attached, baseline, observed, bubbles>>

\* (mutant) any completed send since the loop started confirms the bubble.
AnySendCounts(bubble, runner) == runner.messageAt # 0

\* (mutant) the send must be later than the decision, not as late.
ConfirmsIfLater(bubble, runner) == runner.messageAt > bubble.at

\* lastMessageAt at or after the bubble's own timestamp.
Confirms(bubble, runner) == runner.messageAt # 0 /\ runner.messageAt >= bubble.at

\* confirmDeliveries for one bubble still awaiting evidence.
Verdict(bubble, runner) ==
    IF Confirms(bubble, runner) THEN "delivered"
    ELSE IF runner.up /\ ~canDeliver THEN "nocreds"
    ELSE IF runner.error THEN "failed"
    ELSE IF ~runner.up THEN "unseen"
    ELSE "sending"

\* probe(): the loop's health record, if anything answers.
Probe ==
    IF up THEN [up |-> TRUE, messageAt |-> health.messageAt, error |-> health.error]
    ELSE Down

\* probeWatchRunner, then confirmDeliveries.
PanelConfirms ==
    /\ pc = "probe"
    /\ LET runner == IF cached.age = "young" THEN cached.answer ELSE Probe
       IN  /\ cached' = [age |-> "young", answer |-> runner]
           /\ bubbles' = [i \in DOMAIN bubbles |->
                  IF bubbles[i].verdict \in Settled
                  THEN bubbles[i]
                  ELSE [bubbles[i] EXCEPT !.verdict = Verdict(bubbles[i], runner)]]
    /\ pc' = "idle"
    /\ UNCHANGED <<clock, watchdog, attached, baseline, observed>>

Next ==
    \/ Elapse
    \/ \E kind \in PageKinds : WatchDecides(kind)
    \/ Delivered
    \/ NotDelivered
    \/ LoopDies
    \/ LoopStarts
    \/ \E f \in FileReads : PanelReads(f)
    \/ CacheExpires
    \/ PanelConfirms

Spec == Init /\ [][Next]_vars

\* The dashboard's timer repeats update(), whose probe is time-limited, and the
\* cache ages.  No fairness on the watchdog or on the network.
Fairness ==
    /\ WF_vars(\E f \in FileReads : PanelReads(f))
    /\ WF_vars(CacheExpires)
    /\ WF_vars(PanelConfirms)

FairSpec == Spec /\ Fairness

-----------------------------------------------------------------------------
Posted == Range(bubbles)

\* A bubble shown as delivered has evidence: some message left the machine at or
\* after the instant the bubble carries, although the health answer is cached,
\* the loop restarts and sends fail (confirmDeliveries' "this page (or one after
\* it) left the machine").
DeliveredHasEvidence ==
    \A b \in Posted : b.verdict = "delivered" =>
        \E p \in Range(pages) : p.sentAt # 0 /\ p.sentAt >= b.at

\* The panel invents no page: every bubble stands for a different page of its
\* kind, decided after the panel attached, and the thread keeps their order
\* (telegram-feed.ts:134 "Emitting messages for history we did not witness would
\* fabricate a delivery log").
NoInventedPage ==
    /\ \A b \in Posted : b.page > baseline /\ pages[b.page].kind = b.kind
    /\ \A i, j \in DOMAIN bubbles : i < j => bubbles[i].page < bubbles[j].page

\* Both: what the panel says of the watchdog's pages is true.
PanelIsTrue == DeliveredHasEvidence /\ NoInventedPage

\* "the display must never claim a delivery that has not happened"
\* (telegram-feed.ts:28): the page a delivered bubble stands for was sent.
DeliveredWasSent ==
    \A b \in Posted : b.verdict = "delivered" => pages[b.page].sentAt # 0

IsSent(i, kind) ==
    i \in DOMAIN bubbles /\ bubbles[i].kind = kind /\ pages[bubbles[i].page].sentAt # 0

IsConfirmed(i) == i \in DOMAIN bubbles /\ bubbles[i].verdict = "delivered"

\* A posted alert that was sent is in the end shown as delivered, by a panel that
\* may read health before, between or after the file and the send, unless the
\* loop dies and takes the evidence with it.
AlertConfirmed ==
    \A i \in 1..MaxBubbles :
        IsSent(i, "alert") /\ health.messageAt # 0 ~> IsConfirmed(i) \/ ~up

\* The same of recoveries: the suffix "sending -- delivery not yet confirmed" is
\* "normally a second or two; permanent if the send failed" (telegram-feed.ts:43).
RecoveryConfirmed ==
    \A i \in 1..MaxBubbles : IsSent(i, "recovery") ~> IsConfirmed(i)
=============================================================================
