---------------------------- MODULE PhoneThread -----------------------------
(***************************************************************************)
(* What the wall shows of the phone: the pages of the watch loop, which it  *)
(* infers (PhonePanel), and the messages, which come from the Hermes        *)
(* transcript (GatewayBridge) or from a poller of its own (TelegramPoll).   *)
(* Each appends to the thread and reads none of the others' state, so a     *)
(* behavior is about one of them.                                          *)
(***************************************************************************)
EXTENDS PhonePanel

CONSTANTS Batch, Backfill, History, MaxRows, MaxSent, Backlog, Bot

ASSUME ThreadAssumption ==
    /\ Batch \in Nat \ {0}
    /\ {Backfill, History, MaxRows, MaxSent, Backlog} \subseteq Nat

VARIABLES
    source, \* "loop", "transcript" or "poller"
    log, mode, drain, head, lastId, tailing,
    sent, forgotten, taken, gateway, poller, offset, answer, primed,
    shown, start

Bridge == INSTANCE GatewayBridge WITH pc <- drain, attached <- tailing
Poll == INSTANCE TelegramPoll

tail == <<log, mode, drain, head, lastId, tailing>>
polling == <<sent, forgotten, taken, gateway, poller, offset, answer, primed>>
intake == <<shown, start>>

ThreadInit ==
    /\ source \in {"loop", "transcript", "poller"}
    /\ Init /\ (source # "loop" => ~canDeliver)
    /\ Bridge!Init /\ (source # "transcript" => log = <<>>)
    /\ Poll!Init /\ (source # "poller" => sent = <<>>)

Pages(act) == source = "loop" /\ act /\ UNCHANGED <<source, tail, polling, intake>>
Tailed(act) == source = "transcript" /\ act /\ UNCHANGED <<source, vars, polling>>
Polled(act) == source = "poller" /\ act /\ UNCHANGED <<source, vars, tail>>

ThreadNext == Pages(Next) \/ Tailed(Bridge!Next) \/ Polled(Poll!Next)

thread == <<source, vars, tail, polling, intake>>

\* The fairness of each of the three; an action of one is never enabled in a behavior
\* of another, so that one formula does for several of them.
ThreadFairness ==
    /\ WF_thread(\/ Pages(\E f \in FileReads : PanelReads(f))
                 \/ Tailed(Bridge!ReadHead)
                 \/ Polled(Poll!Begin))
    /\ WF_thread(\/ Pages(PanelConfirms)
                 \/ Tailed(Bridge!RowsBusy)
                 \/ Polled(Poll!Prime \/ Poll!PrimeFails))
    /\ WF_thread(Pages(CacheExpires) \/ Polled(Poll!Retry))
    /\ SF_thread(\/ Tailed(Bridge!ReadBackfill \/ Bridge!ReadSince)
                 \/ Polled(Poll!Served))
    /\ SF_thread(Polled(Poll!Arrives))

ThreadSpec == ThreadInit /\ [][ThreadNext]_thread /\ ThreadFairness

\* Nothing the wall has passed over is missing from the thread, and nothing comes twice
\* to it by way of the poller (GatewayBridge!NothingSkipped, TelegramPoll!EachUpdateOnce).
IntakeIsWhole ==
    /\ source = "transcript" => Bridge!NothingSkipped
    /\ source = "poller" => Poll!EachUpdateOnce

\* Every message comes to the thread in the end (GatewayBridge!EventuallyShown,
\* TelegramPoll!EveryMessageShown).
EverythingShown ==
    /\ source = "transcript" => Bridge!EventuallyShown
    /\ source = "poller" => Poll!EveryMessageShown
=============================================================================
