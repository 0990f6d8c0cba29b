------------------------------ MODULE AckHook -------------------------------
(***************************************************************************)
(* The acknowledgement hook of the Hermes gateway (hermes-hooks/ack).  At   *)
(* the start of a turn it notes the turn in sessions.json, sends a receipt  *)
(* and retries the oldest receipt of ack-queue.json; a receipt that could   *)
(* not be sent is queued.  Turns of different chats overlap, and each file  *)
(* is read, changed and rewritten without a lock: a step that reads and the *)
(* one that writes are two actions, with the copy kept in between.          *)
(***************************************************************************)
EXTENDS Integers, Sequences, SequencesExt, FiniteSets

CONSTANTS
    Turns,    \* turns, each of a session of its own
    Earlier,  \* turns whose receipt an outage may have left in the queue
    MaxItems, \* receipts kept in the queue (20 in the code)
    NoFile    \* no copy of the file is held

VARIABLES
    sessions, \* sessions.json: the turns noted as started, and as learned from
    queue,    \* ack-queue.json
    turn,     \* the start of a turn: where its coroutine is
    ending,   \* the end of a turn: where its thread is
    flush,    \* the flush of a turn: where its thread is
    noted,    \* the copy of the sessions a turn's start or end works on
    held,     \* the copy of the queue a turn's flush or queueing works on
    old,      \* queued receipts older than 300 s
    arrived,  \* how often a receipt has arrived
    unsure,   \* history: receipts that arrived although their sending failed
    dropped,  \* history: receipts given up, for their age or the cap
    harmed,   \* history: receipts that a rewrite failed to put in or to take out, or
              \* that it put back or wiped out because its copy was not the file
    shared,   \* history: receipts that two flushes had in hand at once
    blurred   \* history: turns whose note a rewrite or a reading missed likewise

vars == <<sessions, queue, turn, ending, flush, noted, held, old, arrived, unsure, dropped,
          harmed, shared, blurred>>

NoSessions == [started |-> {}, learned |-> {}]
-----------------------------------------------------------------------------
Goes(t, place) == turn' = [turn EXCEPT ![t] = place]
Flushes(t, place) == flush' = [flush EXCEPT ![t] = place]

\* A file that cannot be read, or parsed, reads as one with nothing in it.
ReadSessions(t) == \E copy \in {sessions, NoSessions} : noted' = [noted EXCEPT ![t] = copy]
ReadQueue(t) == \E copy \in {queue, <<>>} : held' = [held EXCEPT ![t] = copy]

\* In one of the sets and not in the other.
Differ(a, b) == (a \ b) \cup (b \ a)

Oldest(t) == Head(held[t])

\* Somebody else is about to rewrite the file, too.
NotingToo(t) == \E u \in Turns \ {t} : noted[u] # NoFile
QueueingToo(t) ==
    \E u \in Turns \ {t} :
        \/ turn[u] = "queueing" \/ flush[u] = "retried"
        \/ flush[u] = "trying" /\ Oldest(u) \in old

\* Every error of a rewrite is swallowed: the file stays as it was.  Otherwise it
\* becomes what was made of the copy, whatever others have written meanwhile.  Two
\* writers share one temporary file and may leave one that reads as nothing.
WriteSessions(t, after) ==
    /\ \/ /\ sessions' = after
          /\ blurred' = blurred \cup Differ(sessions.started, noted[t].started)
                               \cup Differ(sessions.learned, noted[t].learned)
       \/ sessions' = sessions /\ blurred' = blurred \cup {t}
       \/ /\ NotingToo(t)
          /\ sessions' = NoSessions
          /\ blurred' = blurred \cup {t} \cup sessions.started \cup sessions.learned
    /\ noted' = [noted EXCEPT ![t] = NoFile]

\* r is the receipt that the rewrite is about, gone are those it leaves out.
WriteQueue(t, r, after, gone) ==
    /\ \/ /\ queue' = after
          /\ harmed' = harmed \cup Differ(Range(queue), Range(held[t]))
          /\ dropped' = dropped \cup gone
       \/ queue' = queue /\ harmed' = harmed \cup {r} /\ UNCHANGED dropped
       \/ /\ QueueingToo(t)
          /\ queue' = <<>>
          /\ harmed' = harmed \cup {r} \cup Range(queue)
          /\ UNCHANGED dropped
    /\ held' = [held EXCEPT ![t] = NoFile]

\* What comes of a message to Telegram: it may arrive and still fail, by a timeout.
Sending(r, ok) ==
    \E arrives \in IF ok THEN {TRUE} ELSE BOOLEAN :
        /\ arrived' = [arrived EXCEPT ![r] = IF arrives THEN @ + 1 ELSE @]
        /\ unsure' = IF arrives /\ ~ok THEN unsure \cup {r} ELSE unsure
-----------------------------------------------------------------------------
(* agent:start                                                              *)

Begin(t) ==
    /\ turn[t] = "idle"
    /\ ReadSessions(t)
    /\ Goes(t, "noting")
    /\ UNCHANGED <<sessions, queue, ending, flush, held, old, arrived, unsure, dropped,
                   harmed, shared, blurred>>

\* Then the receipt is composed; without a token the hook ends here.
Note(t) ==
    /\ turn[t] = "noting"
    /\ WriteSessions(t, [noted[t] EXCEPT !.started = @ \cup {t}])
    /\ Goes(t, "sending")
    /\ Flushes(t, "reading")
    /\ UNCHANGED <<queue, ending, held, old, arrived, unsure, dropped, harmed, shared>>

Send(t) ==
    /\ turn[t] = "sending"
    /\ \E ok \in BOOLEAN : Sending(t, ok) /\ Goes(t, IF ok THEN "sent" ELSE "failed")
    /\ UNCHANGED <<sessions, queue, ending, flush, noted, held, old, dropped,
                   harmed, shared, blurred>>

Flushed(t) == flush[t] \in {"none", "over"}

\* _queue_receipt, after both threads have ended.
ReadToQueue(t) ==
    /\ turn[t] = "failed" /\ Flushed(t)
    /\ ReadQueue(t)
    /\ Goes(t, "queueing")
    /\ UNCHANGED <<sessions, queue, ending, flush, noted, old, arrived, unsure, dropped,
                   harmed, shared, blurred>>

\* The newest are kept.
Kept(items) ==
    IF Len(items) > MaxItems
    THEN SubSeq(items, Len(items) - MaxItems + 1, Len(items))
    ELSE items

Queue(t) ==
    LET items == Append(held[t], t)
    IN  /\ turn[t] = "queueing"
        /\ WriteQueue(t, t, Kept(items), Range(items) \ Range(Kept(items)))
        /\ Goes(t, "queued")
        /\ UNCHANGED <<sessions, ending, flush, noted, old, arrived, unsure, shared, blurred>>
-----------------------------------------------------------------------------
(* _flush_queue, in a thread beside the sending                             *)

\* Another flush that has not finished with the oldest receipt may send it, too.
ReadToFlush(t) ==
    /\ flush[t] = "reading"
    /\ \/ Flushes(t, "over") /\ UNCHANGED <<held, shared>>  \* nothing queued, or nothing read
       \/ /\ queue # <<>>
          /\ Flushes(t, "trying")
          /\ held' = [held EXCEPT ![t] = queue]
          /\ shared' = shared \cup {r \in {Head(queue)} : \E u \in Turns :
                                        flush[u] \in {"trying", "retried"} /\ Oldest(u) = r}
    /\ UNCHANGED <<sessions, queue, turn, ending, noted, old, arrived, unsure, dropped,
                   harmed, blurred>>

DropStale(t) ==
    /\ flush[t] = "trying" /\ Oldest(t) \in old
    /\ WriteQueue(t, Oldest(t), Tail(held[t]), {Oldest(t)})
    /\ Flushes(t, "over")
    /\ UNCHANGED <<sessions, turn, ending, noted, old, arrived, unsure, shared, blurred>>

\* (mutant) the entry goes whether or not the retry got through.
AfterFailedRetryGone == "retried"

\* A failed retry leaves the file alone.
AfterFailedRetry == "over"

Retry(t) ==
    /\ flush[t] = "trying" /\ Oldest(t) \notin old
    /\ \E ok \in BOOLEAN :
        /\ Sending(Oldest(t), ok)
        /\ Flushes(t, IF ok THEN "retried" ELSE AfterFailedRetry)
        /\ held' = IF ~ok /\ AfterFailedRetry = "over" THEN [held EXCEPT ![t] = NoFile] ELSE held
    /\ UNCHANGED <<sessions, queue, turn, ending, noted, old, dropped, harmed, shared, blurred>>

RemoveRetried(t) ==
    /\ flush[t] = "retried"
    /\ WriteQueue(t, Oldest(t), Tail(held[t]), {})
    /\ Flushes(t, "over")
    /\ UNCHANGED <<sessions, turn, ending, noted, old, arrived, unsure, shared, blurred>>
-----------------------------------------------------------------------------
(* agent:end, in a thread of its own; the start of the turn may not be over *)

\* A turn that is not found in what was read is not learned from.
End(t) ==
    /\ ending[t] = "none" /\ turn[t] \notin {"idle", "noting"}
    /\ \E copy \in {sessions, NoSessions} :
        /\ blurred' = IF t \in sessions.started \ copy.started THEN blurred \cup {t} ELSE blurred
        /\ IF t \in copy.started
           THEN ending' = [ending EXCEPT ![t] = "noting"] /\ noted' = [noted EXCEPT ![t] = copy]
           ELSE ending' = [ending EXCEPT ![t] = "over"] /\ UNCHANGED noted
    /\ UNCHANGED <<sessions, queue, turn, flush, held, old, arrived, unsure, dropped,
                   harmed, shared>>

\* A turn of less than two seconds or more than an hour teaches nothing; .learned
\* has those of ordinary length.
Learn(t) ==
    /\ ending[t] = "noting"
    /\ WriteSessions(t, [started |-> noted[t].started \ {t}, learned |-> noted[t].learned \cup {t}])
    /\ ending' = [ending EXCEPT ![t] = "over"]
    /\ UNCHANGED <<queue, turn, flush, held, old, arrived, unsure, dropped, harmed, shared>>

Age ==
    /\ \E r \in Range(queue) \ old : old' = old \cup {r}
    /\ UNCHANGED <<sessions, queue, turn, ending, flush, noted, held, arrived, unsure, dropped,
                   harmed, shared, blurred>>
-----------------------------------------------------------------------------
AckInit ==
    /\ sessions = NoSessions
    /\ queue \in {<<>>} \cup {<<r>> : r \in Earlier}
    /\ turn = [t \in Turns |-> "idle"]
    /\ ending = [t \in Turns |-> "none"]
    /\ flush = [t \in Turns |-> "none"]
    /\ noted = [t \in Turns |-> NoFile]
    /\ held = [t \in Turns |-> NoFile]
    /\ old = {}
    /\ arrived = [r \in Turns \cup Earlier |-> 0]
    /\ unsure = {}
    /\ dropped = {} /\ harmed = {} /\ shared = {} /\ blurred = {}

AckNext ==
    \/ Age
    \/ \E t \in Turns :
        \/ Begin(t) \/ Note(t) \/ Send(t) \/ ReadToQueue(t) \/ Queue(t)
        \/ ReadToFlush(t) \/ DropStale(t) \/ Retry(t) \/ RemoveRetried(t)
        \/ End(t) \/ Learn(t)

AckSpec == AckInit /\ [][AckNext]_vars
-----------------------------------------------------------------------------
\* However sends fail, time out after arriving, or are retried while other turns send,
\* queue and retry: a receipt that was not sent waits in the queue or was dropped for its
\* age or the cap ("Telegram unreachable does not mean the receipt is lost, only that it
\* is late"), it arrives twice only if a send that failed had arrived or two flushes had
\* it in hand at once, and every ended turn was learned from.  Each time, except for
\* those that a rewrite of the file failed for, or undid because its copy was not the
\* file: nobody else suffers from it.
LateNotLost ==
    /\ \A t \in Turns \ harmed : turn[t] = "queued" =>
          arrived[t] > 0 \/ t \in Range(queue) \cup dropped
    /\ \A r \in DOMAIN arrived : arrived[r] > 1 => r \in unsure \cup shared \cup harmed
    /\ \A t \in Turns \ blurred : ending[t] = "over" => t \in sessions.learned

\* ack/handler.py: Telegram unreachable does not mean the receipt is lost, only that it
\* is late.
OnlyLate ==
    \A t \in Turns : turn[t] = "queued" => arrived[t] > 0 \/ t \in Range(queue) \cup dropped
=============================================================================
