--------------------------- MODULE GatewayBridge ---------------------------
(***************************************************************************)
(* HermesGatewayBridge (mcp-tools/src/dashboard/gateway-bridge.ts): the    *)
(* wall display tails the Hermes transcript, an SQLite database another    *)
(* process appends to, and turns its rows into chat bubbles.  One drain()  *)
(* is two SELECTs; the gateway may append between them, and either may be  *)
(* refused with SQLITE_BUSY.                                               *)
(***************************************************************************)
EXTENDS Ascending, Sequences, FiniteSetsExt, SequencesExt

CONSTANTS
    Batch,       \* rows per drain (DEFAULT_BATCH)
    Backfill,    \* entries shown on attach (DEFAULT_BACKFILL)
    History,     \* bound: rows already in the database when the wall starts
    MaxRows      \* bound: rows ever in the database

\* A row as the bridge tells it apart: "bubble" becomes a chat bubble, "silent"
\* is selected and dropped by toIngest (tool results, markers, empty turns),
\* "other" is not selected (another session source, another role).
Kinds == {"bubble", "silent", "other"}

VARIABLES
    log,        \* the messages table: kind of the row with each id
    mode,       \* status.mode; the database handle is open iff it is "live"
    pc,         \* "idle", or which SELECT the running drain makes next
    head,       \* MAX(id) as this drain read it
    lastId,     \* the resume point
    attached,   \* the bridge's flag
    shown,      \* ids of the rows ingested into the phone panel, in order
    start       \* history: MAX(id) at the drain that set `attached`

vars == <<log, mode, pc, head, lastId, attached, shown, start>>

TypeOK ==
    /\ log \in Seq(Kinds)
    /\ mode \in {"starting", "live", "error"}
    /\ pc \in {"idle", "backfill", "since"}
    /\ {head, lastId, start} \subseteq 0..Len(log)
    /\ attached \in BOOLEAN
    /\ shown \in Seq(1..Len(log))

Init ==
    /\ log \in UNION {[1..n -> Kinds] : n \in 0..History}
    /\ mode = "starting"
    /\ pc = "idle"
    /\ head = 0
    /\ lastId = 0
    /\ attached = FALSE
    /\ shown = <<>>
    /\ start = 0

-----------------------------------------------------------------------------
\* The rows either SELECT's WHERE clause keeps, with an id above lo.
Selected(lo) == {i \in (lo + 1)..Len(log) : log[i] # "other"}

Smallest(n, S) == {i \in S : Rank(i, S) < n}
Largest(n, S) == {i \in S : Cardinality({j \in S : j > i}) < n}

Usable(rows) == {i \in rows : log[i] = "bubble"}

\* Ascending ids, the order in which a drain returns its rows.
OldestFirst(rows) == InOrder(rows)

\* (mutant) always resume from the table's head, also after a full batch.
ResumeAtHead(rows) == IF lastId > head THEN lastId ELSE head

\* Where the next drain starts.  A full batch may have left rows behind, so it
\* resumes at its last row; otherwise everything up to head has been seen.
Resume(rows) ==
    IF Cardinality(rows) >= Batch
    THEN Max(rows)
    ELSE IF lastId > head THEN lastId ELSE head

-----------------------------------------------------------------------------
\* Hermes, or the gateway, writes one more turn.
TranscriptGrows(kind) ==
    /\ Len(log) < MaxRows
    /\ log' = log \o <<kind>>
    /\ UNCHANGED <<mode, pc, head, lastId, attached, shown, start>>

\* A drain whose open() throws: no database, or no driver.
OpenFails ==
    /\ pc = "idle"
    /\ mode # "live"
    /\ mode' = "error"
    /\ UNCHANGED <<log, pc, head, lastId, attached, shown, start>>

\* drain(): the handle is opened if needed and the head is read.
ReadHead ==
    /\ pc = "idle"
    /\ head' = Len(log)
    /\ pc' = IF attached THEN "since" ELSE "backfill"
    /\ start' = IF attached THEN start ELSE Len(log)
    /\ attached' = TRUE
    /\ UNCHANGED <<log, mode, lastId, shown>>

\* The head SELECT is refused: `attached` has not been touched.
HeadBusy ==
    /\ pc = "idle"
    /\ mode' = "error"
    /\ UNCHANGED <<log, pc, head, lastId, attached, shown, start>>

\* The first drain's rows: the newest usable ones among an over-fetched page.
ReadBackfill ==
    /\ pc = "backfill"
    /\ shown' = shown \o OldestFirst(
           Largest(Backfill, Usable(Largest(4 * Backfill, Selected(0)))))
    /\ lastId' = head
    /\ mode' = "live"
    /\ pc' = "idle"
    /\ UNCHANGED <<log, head, attached, start>>

\* Every later drain's rows.
ReadSince ==
    /\ pc = "since"
    /\ LET rows == Smallest(Batch, Selected(lastId))
       IN  /\ shown' = shown \o OldestFirst(Usable(rows))
           /\ lastId' = Resume(rows)
    /\ mode' = "live"
    /\ pc' = "idle"
    /\ UNCHANGED <<log, head, attached, start>>

\* The second SELECT is refused: the handle is dropped and the drain returns
\* nothing; `attached` stays set.
RowsBusy ==
    /\ pc # "idle"
    /\ mode' = "error"
    /\ pc' = "idle"
    /\ UNCHANGED <<log, head, lastId, attached, shown, start>>

Next ==
    \/ \E kind \in Kinds : TranscriptGrows(kind)
    \/ OpenFails
    \/ ReadHead
    \/ HeadBusy
    \/ ReadBackfill
    \/ ReadSince
    \/ RowsBusy

Spec == Init /\ [][Next]_vars

\* The tick timer keeps calling drain() and a running drain returns; the
\* writer's locks are short, so a second SELECT retried for ever is served.
Fairness ==
    /\ WF_vars(ReadHead)
    /\ SF_vars(ReadBackfill \/ ReadSince)
    /\ WF_vars(RowsBusy)

FairSpec == Spec /\ Fairness

-----------------------------------------------------------------------------
\* No row that became a bubble is skipped: whatever the resume point has passed
\* since the wall attached is on the panel, although rows are appended between
\* the two SELECTs, batches fill up and reads are refused (gateway-bridge.ts:228
\* "captured *before* a read so nothing is skipped").
NothingSkipped ==
    \A i \in Usable((start + 1)..lastId) : i \in Range(shown)

\* Every turn of the phone conversation that is in the database after the wall
\* attached reaches the panel, however often the database is locked: again and again
\* the panel has them all.
EventuallyShown == []<>(attached => Usable((start + 1)..Len(log)) \subseteq Range(shown))

\* What the test "emits each message once" and drain()'s comment "New phone
\* traffic since the last call" (gateway-bridge.ts:165) say: no row is ever
\* shown twice.
ShownOnce == Cardinality(Range(shown)) = Len(shown)

\* What readBackfill's comment says ("The last few entries of the thread",
\* gateway-bridge.ts:237): of the history that was there when the wall attached
\* at most Backfill entries are shown.
HistoryBounded == Cardinality({i \in Range(shown) : i <= start}) <= Backfill
=============================================================================
