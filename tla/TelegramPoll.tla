---------------------------- MODULE TelegramPoll ----------------------------
(***************************************************************************)
(* The wall's own poller of Telegram (dashboard/telegram-poll.ts).  Updates *)
(* are numbered in the order they are sent; Telegram forgets those below    *)
(* the offset of a request it has served.  With the shared bot the Hermes   *)
(* gateway may take updates too, and the poller is told so by a 409.        *)
(***************************************************************************)
EXTENDS Ascending, Integers, Sequences, SequencesExt

CONSTANTS
    MaxSent,  \* bound on the updates sent
    Backlog,  \* how many of them at most before the wall starts
    Bot       \* "dedicated" or "shared"

VARIABLES
    sent,      \* updates so far: TRUE for a text by somebody allowed on the wall
    forgotten, \* the updates up to here are confirmed and gone
    taken,     \* history: those that went to the gateway
    gateway,   \* the Hermes gateway is polling the same bot
    poller,    \* where the loop is
    offset,    \* the update asked for next, 0 for undefined
    answer,    \* the updates of the answer under way: the ones after .from up to .to
    shown,     \* the updates handed to the panel, in order
    start,     \* history: the backlog, which ends with this update
    primed     \* history: the backlog was skipped

vars == <<sent, forgotten, taken, gateway, poller, offset, answer, shown, start, primed>>
poll == <<poller, offset, answer, shown, start, primed>>

NoAnswer == [from |-> 0, to |-> 0]
-----------------------------------------------------------------------------
(* Telegram and the gateway, as the poller meets them.                      *)

Send ==
    /\ Len(sent) < MaxSent
    /\ \E wanted \in BOOLEAN : sent' = Append(sent, wanted)
    /\ UNCHANGED <<forgotten, taken, gateway, poll>>

GatewayComes ==
    /\ Bot = "shared" /\ ~gateway
    /\ gateway' = TRUE
    /\ UNCHANGED <<sent, forgotten, taken, poll>>

GatewayTakes ==
    /\ gateway /\ forgotten < Len(sent)
    /\ forgotten' = Len(sent)
    /\ taken' = taken \cup (forgotten + 1)..Len(sent)
    /\ UNCHANGED <<sent, gateway, poll>>

-----------------------------------------------------------------------------
Wanted(i) == sent[i]

\* toInbound: texts of people on the allowlist only.
Inbound(from, to) == InOrder({i \in (from + 1)..to : Wanted(i)})

OffsetAfter(last) == last + 1

Begin ==
    /\ poller = "off"
    /\ poller' = "priming"
    /\ UNCHANGED <<sent, forgotten, taken, gateway, offset, answer, shown, start, primed>>

\* The newest update only, none of them confirmed; the loop goes on from there.
Prime ==
    /\ poller = "priming" /\ ~gateway
    /\ offset' = IF forgotten < Len(sent) THEN OffsetAfter(Len(sent)) ELSE offset
    /\ start' = Len(sent)
    /\ primed' = TRUE
    /\ poller' = "polling"
    /\ UNCHANGED <<sent, forgotten, taken, gateway, answer, shown>>

\* Any other error is left to the loop, which starts without an offset.
PrimeFails ==
    /\ poller = "priming"
    /\ start' = forgotten
    /\ poller' = "polling"
    /\ UNCHANGED <<sent, forgotten, taken, gateway, offset, answer, shown, primed>>

\* 409, when priming or polling: terminal.
Conflict ==
    /\ poller \in {"priming", "polling"} /\ gateway
    /\ poller' = "stopped"
    /\ UNCHANGED <<sent, forgotten, taken, gateway, offset, answer, shown, start, primed>>

Acknowledged == IF offset - 1 > forgotten THEN offset - 1 ELSE forgotten

\* Telegram serves the request: what the offset confirms is gone, and the answer
\* is whatever is left; an empty one ends the long poll.
Served ==
    /\ poller = "polling" /\ ~gateway
    /\ forgotten' = Acknowledged
    /\ answer' = [from |-> Acknowledged, to |-> Len(sent)]
    /\ poller' = IF Acknowledged < Len(sent) THEN "answering" ELSE "polling"
    /\ <<forgotten', poller'>> # <<forgotten, poller>>
    /\ UNCHANGED <<sent, taken, gateway, offset, shown, start, primed>>

Arrives ==
    /\ poller = "answering"
    /\ shown' = shown \o Inbound(answer.from, answer.to)
    /\ offset' = OffsetAfter(answer.to)
    /\ answer' = NoAnswer
    /\ poller' = "polling"
    /\ UNCHANGED <<sent, forgotten, taken, gateway, start, primed>>

\* (mutant) an error ends the loop as a conflict does.
AfterErrorNever == "stopped"

AfterError == "waiting"

\* The request or its answer is lost, or answered with an error.
Fails ==
    /\ poller \in {"polling", "answering"}
    /\ poller' = AfterError
    /\ answer' = NoAnswer
    /\ UNCHANGED <<sent, forgotten, taken, gateway, offset, shown, start, primed>>

Retry ==
    /\ poller = "waiting"
    /\ poller' = "polling"
    /\ UNCHANGED <<sent, forgotten, taken, gateway, offset, answer, shown, start, primed>>
-----------------------------------------------------------------------------
Init ==
    /\ sent \in UNION {[1..n -> BOOLEAN] : n \in 0..Backlog}
    /\ forgotten \in 0..Len(sent)
    /\ taken = {}
    /\ gateway = FALSE
    /\ poller = "off"
    /\ offset = 0
    /\ answer = NoAnswer
    /\ shown = <<>>
    /\ start = 0
    /\ primed = FALSE

Next ==
    \/ Send \/ GatewayComes \/ GatewayTakes
    \/ Begin \/ Prime \/ PrimeFails \/ Conflict
    \/ Served \/ Arrives \/ Fails \/ Retry

Spec == Init /\ [][Next]_vars

\* The loop goes on; a request repeated for ever is served and answered.
Fairness ==
    /\ WF_vars(Begin)
    /\ WF_vars(Prime \/ PrimeFails)
    /\ WF_vars(Retry)
    /\ SF_vars(Served)
    /\ SF_vars(Arrives)

FairSpec == Spec /\ Fairness
-----------------------------------------------------------------------------
TypeOK ==
    /\ sent \in Seq(BOOLEAN)
    /\ forgotten \in 0..Len(sent)
    /\ taken \subseteq 1..Len(sent)
    /\ gateway \in BOOLEAN
    /\ poller \in {"off", "priming", "polling", "answering", "waiting", "stopped"}
    /\ offset \in 0..(Len(sent) + 1)
    /\ answer \in [from : 0..Len(sent), to : 0..Len(sent)]
    /\ shown \in Seq(1..Len(sent))
    /\ start \in 0..Len(sent)
    /\ primed \in BOOLEAN

\* Although answers are lost after Telegram has served them, and errors and retries
\* come in any order, each update is on the wall at most once, in its order, and
\* none that has been confirmed is missing but for those the gateway took; the
\* backlog is replayed only when the priming request failed (telegram-poll.ts:
\* "Skip the backlog once").
EachUpdateOnce ==
    /\ \A i, j \in DOMAIN shown : i < j => shown[i] < shown[j]
    /\ \A i \in (start + 1)..(offset - 1) : Wanted(i) => i \in Range(shown) \cup taken
    /\ \A i \in Range(shown) : i > start

\* As long as no gateway is about, every message sent to a wall that polls comes to
\* the wall, whatever errors there were: again and again it has them all.
EveryMessageShown ==
    [](~gateway) =>
        []<>(poller \notin {"off", "priming"} =>
                \A i \in (start + 1)..Len(sent) : Wanted(i) => i \in Range(shown))
=============================================================================
