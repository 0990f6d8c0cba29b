---------------------------- MODULE HooksProofs ----------------------------
(***************************************************************************)
(* Proofs about the two hooks around the model server.                      *)
(*   - the failover hook, for any number of questions and any setting of    *)
(*     the budget: the phone belongs to one question at a time as long as   *)
(*     the budget leaves a worker time to end;                              *)
(*   - the acknowledgement hook as Hooks runs it, for any turns, any         *)
(*     receipt an outage left in the queue and any cap on the queue: a       *)
(*     receipt that could not be sent is late and not lost, unless a rewrite *)
(*     of the file failed for it or undid it.                               *)
(***************************************************************************)
EXTENDS Hooks, SequenceTheorems, TLAPS

-----------------------------------------------------------------------------
(* The failover hook.                                                       *)

\* What a worker or the phone holds of a question.  The lock is what keeps the workers
\* apart; that no answer goes to the wrong question follows from the prompt file being
\* the lock holder's from the push to the start of the inference.
Ownership ==
    /\ \A q \in Questions : turn[q] = "running" => lock = q
    /\ \A q \in Questions : worker[q] \in Busy => turn[q] = "running"
    /\ \A q \in Questions : worker[q] \in {"clearing", "starting", "waiting"} => prompt = q
    /\ \A g \in genie : g.on = g.for
    /\ \A q \in Questions : result[q] \in {None, q}
    /\ \A q \in Questions : said[q] \in {None, Failure, q}

\* The inductive invariant.
Owned == ~Overruns(timeout) => Ownership

LEMMA InitType == Spec => TypeOK
<1> SUFFICES ASSUME listener \in Listeners, HookInit
             PROVE  TypeOK
  BY DEF Spec
<1> QED
  BY HookAssumption DEF HookInit, TypeOK, TurnStates, WorkerStates, Busy, Serials, Devices

\* A step of a question's coroutine keeps the types.
LEMMA TurnKeepsTypes ==
    ASSUME TypeOK, NEW q \in Questions, Turn(q)
    PROVE  TypeOK'
<1> USE DEF TypeOK
<1>1. CASE Ask(q)
  BY <1>1 DEF Ask, TurnStates
<1>2. CASE Enter(q)
  BY <1>2 DEF Enter, TurnStates, WorkerStates, Busy
<1>3. ASSUME NEW what \in Questions \cup {None, Failure}, Leave(q, what)
      PROVE  TypeOK'
  BY <1>3 DEF Leave, TurnStates
<1>4. CASE Return(q)
  <2>1. Outcome(q) \in Questions \cup {None, Failure}
    BY DEF Outcome
  <2> QED
    BY <1>3, <1>4, <2>1 DEF Return
<1>5. CASE GiveUp(q)
  BY <1>3, <1>5 DEF GiveUp
<1>6. CASE Tell(q)
  BY <1>6 DEF Tell, TurnStates
<1> QED
  BY <1>1, <1>2, <1>4, <1>5, <1>6 DEF Turn

\* What a push may leave in the serial cache.
LEMMA PickType ==
    ASSUME TypeOK
    PROVE  Pick \subseteq Serials
<1> QED
  BY DEF Pick, TypeOK, Serials, Devices

\* A step of a question's worker, or of the phone for it, keeps the types.
LEMMA WorkKeepsTypes ==
    ASSUME TypeOK, NEW q \in Questions, Work(q)
    PROVE  TypeOK'
<1> USE DEF TypeOK
<1>0. {"clearing", "starting", "waiting", "answered", "failed"} \subseteq WorkerStates
  BY DEF WorkerStates, Busy
<1>1. CASE Push(q)
  <2>1. serial' \in Serials
    BY <1>1, PickType DEF Push
  <2>2. worker' \in [Questions -> WorkerStates]
    BY <1>0, <1>1 DEF Push, Fails
  <2>3. prompt' \in Questions \cup {None}
    BY <1>1 DEF Push
  <2> QED
    BY <1>1, <2>1, <2>2, <2>3 DEF Push
<1>2. CASE PickFails(q)
  BY <1>0, <1>2 DEF PickFails, Fails
<1>3. CASE Clear(q)
  BY <1>0, <1>3 DEF Clear
<1>4. CASE Start(q)
  BY <1>0, <1>4 DEF Start
<1>5. CASE Answer(q)
  BY <1>0, <1>5 DEF Answer, Mine
<1>6. CASE ShellFails(q)
  BY <1>0, <1>6 DEF ShellFails, Fails, Mine
<1>7. CASE TimesOut(q)
  BY <1>0, <1>7 DEF TimesOut, Fails
<1> QED
  BY <1>1, <1>2, <1>3, <1>4, <1>5, <1>6, <1>7 DEF Work

LEMMA StepKeepsTypes ==
    ASSUME TypeOK, [HookNext \/ ServerChanges]_vars
    PROVE  TypeOK'
<1>1. CASE Plug
  BY <1>1 DEF Plug, TypeOK
<1>2. CASE ServerChanges
  BY <1>2 DEF ServerChanges, hook, TypeOK
<1>3. CASE UNCHANGED vars
  BY <1>3 DEF vars, hook, TypeOK
<1>4. CASE \E q \in Questions : Turn(q) \/ Work(q)
  BY <1>4, TurnKeepsTypes, WorkKeepsTypes
<1> QED
  BY <1>1, <1>2, <1>3, <1>4 DEF HookNext

\* Types: every variable of the hook and of the phone keeps its type.
THEOREM HookTypes == Spec => []TypeOK
<1>1. Spec => TypeOK
  BY InitType
<1>2. TypeOK /\ [HookNext \/ ServerChanges]_vars => TypeOK'
  BY StepKeepsTypes
<1> QED
  BY <1>1, <1>2, PTL DEF Spec
-----------------------------------------------------------------------------
LEMMA InitOwned == Spec => Owned
<1> SUFFICES ASSUME HookInit
             PROVE  Ownership
  BY DEF Spec, Owned
<1> QED
  BY DEF HookInit, Ownership, Busy

LEMMA TurnKeepsOwnership ==
    ASSUME TypeOK, Ownership, ~Overruns(timeout), NEW q \in Questions, Turn(q)
    PROVE  Ownership'
<1> USE DEF TypeOK, Ownership
<1>1. CASE Ask(q)
  BY <1>1 DEF Ask, Busy
<1>2. CASE Enter(q)
  <2>1. lock = None
    BY <1>2 DEF Enter, LockFree
  <2>2. \A r \in Questions : turn[r] # "running" /\ worker[r] \notin Busy
    BY <2>1, HookAssumption
  <2> QED
    BY <1>2, <2>2 DEF Enter, Busy
<1>3. CASE Return(q)
  <2>1. \A r \in Questions : worker[r] \notin Busy
    BY <1>3 DEF Return, Busy
  <2>2. \A r \in Questions \ {q} : turn[r] # "running"
    BY <1>3 DEF Return
  <2>3. Outcome(q) \in {None, Failure, q}
    BY DEF Outcome
  <2> QED
    BY <1>3, <2>1, <2>2, <2>3 DEF Return, Leave, Busy
<1>4. CASE GiveUp(q)
  BY <1>4 DEF GiveUp
<1>5. CASE Tell(q)
  <2>1. worker[q] \notin Busy
    BY <1>5 DEF Tell
  <2> QED
    BY <1>5, <2>1 DEF Tell
<1> QED
  BY <1>1, <1>2, <1>3, <1>4, <1>5 DEF Turn

LEMMA WorkKeepsOwnership ==
    ASSUME TypeOK, Ownership, NEW q \in Questions, Work(q)
    PROVE  Ownership'
<1> USE DEF TypeOK, Ownership
<1>0. worker[q] \in Busy
  BY DEF Work, Push, PickFails, Clear, Start, Answer, ShellFails, TimesOut, Busy
<1>1. \A r \in Questions \ {q} : worker[r] \notin Busy
  BY <1>0
<1>2. CASE Push(q)
  <2>1. \A r \in Questions \ {q} : worker'[r] = worker[r]
    BY <1>2 DEF Push, Fails
  <2>2. \/ worker'[q] = "clearing" /\ prompt' = q
        \/ worker'[q] = "failed"
    BY <1>2 DEF Push, Fails
  <2> QED
    BY <1>0, <1>1, <1>2, <2>1, <2>2 DEF Push, Busy
<1>3. CASE PickFails(q)
  BY <1>0, <1>1, <1>3 DEF PickFails, Fails, Busy
<1>4. CASE Clear(q)
  BY <1>0, <1>1, <1>4 DEF Clear, Busy
<1>5. CASE Start(q)
  BY <1>0, <1>1, <1>5 DEF Start, Busy
<1>6. CASE Answer(q)
  <2>1. result'[q] = q
    BY <1>6 DEF Answer, Mine
  <2> QED
    BY <1>0, <1>1, <1>6, <2>1 DEF Answer, Mine, Busy
<1>7. CASE ShellFails(q)
  BY <1>0, <1>1, <1>7 DEF ShellFails, Fails, Mine, Busy
<1>8. CASE TimesOut(q)
  BY <1>0, <1>1, <1>8 DEF TimesOut, Fails, Busy
<1> QED
  BY <1>2, <1>3, <1>4, <1>5, <1>6, <1>7, <1>8 DEF Work

LEMMA StepKeepsOwned ==
    ASSUME TypeOK, Owned, [HookNext \/ ServerChanges]_vars
    PROVE  Owned'
<1>1. timeout' = timeout
  BY DEF HookNext, Plug, Turn, Work, Ask, Enter, Return, GiveUp, Leave, Tell, Push, PickFails,
         Clear, Start, Answer, ShellFails, TimesOut, ServerChanges, hook, vars
<1> SUFFICES ASSUME ~Overruns(timeout), Ownership
             PROVE  Ownership'
  BY <1>1 DEF Owned
<1>2. CASE Plug \/ ServerChanges \/ UNCHANGED vars
  BY <1>2 DEF Plug, ServerChanges, hook, vars, Ownership
<1>3. CASE \E q \in Questions : Turn(q) \/ Work(q)
  BY <1>3, TurnKeepsOwnership, WorkKeepsOwnership
<1> QED
  BY <1>2, <1>3 DEF HookNext

\* Whatever adb, the phone and the server do: with a budget that leaves a worker time to
\* end, the phone works for one question at a time and nobody is told the answer to
\* somebody else's question.
THEOREM PhoneHasOneOwner == Spec => []PhoneIsOwned
<1>1. Spec => Owned
  BY InitOwned
<1>2. TypeOK /\ Owned /\ [HookNext \/ ServerChanges]_vars => Owned'
  BY StepKeepsOwned
<1>3. Owned => PhoneIsOwned
  BY DEF Owned, Ownership, PhoneIsOwned
<1> QED
  BY <1>1, <1>2, <1>3, HookTypes, PTL DEF Spec

-----------------------------------------------------------------------------
(* The acknowledgement hook.                                                *)

Receipts == Turns \cup Earlier
Sessions == [started : SUBSET Turns, learned : SUBSET Turns]

Noting(t) == sending[t] = "noting" \/ ending[t] = "noting"
Flushing(t) == flush[t] \in {"trying", "retried"}
Holding(t) == Flushing(t) \/ sending[t] = "queueing"

AckTypes ==
    /\ sessions \in Sessions /\ queue \in Seq(Receipts)
    /\ sending \in [Turns -> {"idle", "noting", "sending", "sent", "failed", "queueing", "queued"}]
    /\ ending \in [Turns -> {"none", "noting", "over"}]
    /\ flush \in [Turns -> {"none", "reading", "trying", "retried", "over"}]
    /\ noted \in [Turns -> Sessions \cup {None}]
    /\ held \in [Turns -> Seq(Receipts) \cup {None}]
    /\ arrived \in [Receipts -> Nat]

\* A turn holds a copy exactly from its read to its write.
Copies ==
    \A t \in Turns :
        /\ noted[t] # None <=> Noting(t)
        /\ held[t] # None <=> Holding(t)
        /\ Flushing(t) => held[t] # <<>>
        /\ sending[t] \in {"idle", "noting"} => ending[t] = "none" /\ flush[t] = "none"
        /\ sending[t] = "queueing" => flush[t] \in {"none", "over"}

In(r, items) == \E i \in 1..Len(items) : items[i] = r
OneEach(items) == \A i, j \in 1..Len(items) : items[i] = items[j] => i = j

\* The file and every copy of it have a receipt once, and only if its turn queued it.
Placed ==
    /\ OneEach(queue) /\ \A t \in Turns : Holding(t) => OneEach(held[t])
    /\ \A t \in Turns : sending[t] # "queued" =>
          ~In(t, queue) /\ \A u \in Turns : Holding(u) => ~In(t, held[u])

\* A receipt that is still to be sent has not arrived, one whose sending failed has not or
\* nobody knows that it has, and one that is about to be removed has.
Heard ==
    \A t \in Turns :
        /\ sending[t] \in {"idle", "noting", "sending"} => arrived[t] = 0
        /\ sending[t] \in {"failed", "queueing"} => arrived[t] = 0 \/ t \in unsure
        /\ flush[t] = "retried" => arrived[held[t][1]] > 0

\* Two flushes have the same receipt in hand only if it counts as shared.
Apart ==
    \A t, u \in Turns :
        Flushing(t) /\ Flushing(u) /\ held[t][1] = held[u][1] => t = u \/ held[t][1] \in shared

\* The receipts for which arriving once is promised.
Plain(r) == r \notin harmed /\ r \notin unsure /\ r \notin shared

\* Such a receipt, once it has arrived, is tried no more, and is in the file only as long
\* as the flush that sent it is about to remove it.
Once ==
    \A r \in Receipts : Plain(r) =>
        /\ arrived[r] <= 1
        /\ arrived[r] = 1 =>
              /\ \A u \in Turns : flush[u] = "trying" => held[u][1] # r
              /\ In(r, queue) => \E u \in Turns : flush[u] = "retried" /\ held[u][1] = r

Late ==
    \A t \in Turns : sending[t] = "queued" /\ t \notin harmed =>
        arrived[t] > 0 \/ In(t, queue) \/ t \in dropped

Learned ==
    \A t \in Turns : t \notin blurred =>
        /\ sending[t] \notin {"idle", "noting"} /\ ending[t] = "none" => t \in sessions.started
        /\ ending[t] = "over" => t \in sessions.learned

Orderly == Placed /\ Heard /\ Apart /\ Once /\ Late
IInv == AckTypes /\ Copies /\ Orderly /\ Learned

-----------------------------------------------------------------------------
LEMMA RangeIsIn ==
    ASSUME NEW items \in Seq(Receipts) PROVE \A r : r \in Ack!Range(items) <=> In(r, items)
BY DEF Ack!Range, In

LEMMA TailProperties ==
    ASSUME NEW q \in Seq(Receipts), q # <<>>
    PROVE  /\ Head(q) \in Receipts /\ Head(q) = q[1] /\ Len(q) \in Nat /\ Len(q) > 0
           /\ Tail(q) \in Seq(Receipts) /\ Len(Tail(q)) = Len(q) - 1
           /\ \A i \in 1..(Len(q) - 1) : Tail(q)[i] = q[i + 1]
BY HeadTailProperties, EmptySeq, LenProperties, ElementOfSeq

\* What is left without the oldest receipt.
LEMMA WithoutOldest ==
    ASSUME NEW q \in Seq(Receipts), q # <<>>, OneEach(q)
    PROVE  /\ q[1] \in Receipts /\ Head(q) = q[1] /\ In(q[1], q)
           /\ Tail(q) \in Seq(Receipts) /\ OneEach(Tail(q))
           /\ \A r : In(r, Tail(q)) <=> In(r, q) /\ r # q[1]
<1>1. /\ Head(q) \in Receipts /\ Head(q) = q[1] /\ Len(q) \in Nat /\ Len(q) > 0
      /\ Tail(q) \in Seq(Receipts) /\ Len(Tail(q)) = Len(q) - 1
      /\ \A i \in 1..(Len(q) - 1) : Tail(q)[i] = q[i + 1]
  BY TailProperties
<1>2. OneEach(Tail(q))
  <2>1. ASSUME NEW i \in 1..Len(Tail(q)), NEW j \in 1..Len(Tail(q)), Tail(q)[i] = Tail(q)[j] PROVE i = j
    <3>1. i + 1 \in 1..Len(q) /\ j + 1 \in 1..Len(q) /\ q[i + 1] = q[j + 1]
      BY <1>1, <2>1
    <3>2. i + 1 = j + 1
      BY <3>1 DEF OneEach
    <3> QED
      BY <1>1, <3>2
  <2> QED
    BY <2>1 DEF OneEach
<1>3. ASSUME NEW i \in 1..Len(Tail(q)) PROVE In(Tail(q)[i], q) /\ Tail(q)[i] # q[1]
  <2>1. i + 1 \in 1..Len(q) /\ 1 \in 1..Len(q) /\ Tail(q)[i] = q[i + 1] /\ i + 1 # 1
    BY <1>1
  <2> QED
    BY <2>1 DEF In, OneEach
<1>4. ASSUME NEW i \in 1..Len(q), i # 1 PROVE In(q[i], Tail(q))
  <2>1. i - 1 \in 1..Len(Tail(q)) /\ Tail(q)[i - 1] = q[i]
    BY <1>1, <1>4
  <2> QED
    BY <2>1 DEF In
<1>5. \A r : In(r, Tail(q)) => In(r, q) /\ r # q[1]
  BY <1>3 DEF In
<1>6. \A r : In(r, q) /\ r # q[1] => In(r, Tail(q))
  BY <1>4 DEF In
<1>7. In(q[1], q)
  BY <1>1 DEF In
<1> QED
  BY <1>1, <1>2, <1>5, <1>6, <1>7

\* Kept keeps the last MaxItems of a queue, in their order.
LEMMA KeptProperties ==
    ASSUME NEW q \in Seq(Receipts)
    PROVE  /\ Ack!Kept(q) \in Seq(Receipts)
           /\ \E n \in 0..Len(q) : /\ Len(Ack!Kept(q)) = Len(q) - n
                                   /\ \A i \in 1..(Len(q) - n) : Ack!Kept(q)[i] = q[i + n]
<1>1. Len(q) \in Nat
  BY LenProperties
<1>2. CASE Len(q) > MaxItems
  <2> DEFINE n == Len(q) - MaxItems
             kept == SubSeq(q, n + 1, Len(q))
  <2>1. n \in 0..Len(q) /\ n \in Nat /\ MaxItems \in Nat
    BY <1>1, <1>2, HooksAssumption
  <2>2. Ack!Kept(q) = kept
    BY <1>2 DEF Ack!Kept
  <2>3. /\ kept \in Seq(Receipts)
        /\ Len(kept) = Len(q) - n
        /\ \A i \in 1..(Len(q) - n) : kept[i] = q[i + n]
    <3>1. \A i \in (n + 1)..Len(q) : q[i] \in Receipts
      BY <1>1, <2>1, ElementOfSeq
    <3>2. kept \in Seq(Receipts) /\ Len(kept) = IF n + 1 <= Len(q) THEN Len(q) - (n + 1) + 1 ELSE 0
      BY <1>1, <2>1, <3>1, SubSeqProperties
    <3>3. Len(kept) = Len(q) - n
      BY <1>1, <2>1, <3>2
    <3>4. \A i \in 1..(Len(q) - n) : kept[i] = q[i + n]
      BY <1>1, <2>1, <3>1, SubSeqProperties
    <3> QED
      BY <3>2, <3>3, <3>4
  <2> HIDE DEF n, kept
  <2> QED
    BY <2>1, <2>2, <2>3
<1>3. CASE ~(Len(q) > MaxItems)
  <2>1. Ack!Kept(q) = q
    BY <1>3 DEF Ack!Kept
  <2> QED
    BY <1>1, <2>1
<1> QED
  BY <1>2, <1>3

\* A receipt joins the queue.
LEMMA WithNewest ==
    ASSUME NEW q \in Seq(Receipts), OneEach(q), NEW t \in Receipts, ~In(t, q)
    PROVE  /\ Append(q, t) \in Seq(Receipts) /\ OneEach(Ack!Kept(Append(q, t)))
           /\ Ack!Kept(Append(q, t)) \in Seq(Receipts)
           /\ \A r : In(r, Append(q, t)) <=> In(r, q) \/ r = t
           /\ \A r : In(r, Ack!Kept(Append(q, t))) => In(r, q) \/ r = t
<1> DEFINE items == Append(q, t)
<1>1. /\ items \in Seq(Receipts) /\ Len(q) \in Nat /\ Len(items) = Len(q) + 1
      /\ \A i \in 1..Len(q) : items[i] = q[i]
      /\ items[Len(q) + 1] = t
  BY AppendProperties, LenProperties
<1> HIDE DEF items
<1>2. \A r : In(r, items) <=> In(r, q) \/ r = t
  <2>1. ASSUME NEW i \in 1..Len(items) PROVE In(items[i], q) \/ items[i] = t
    <3>1. CASE i = Len(q) + 1
      BY <1>1, <3>1
    <3>2. CASE i # Len(q) + 1
      <4>1. i \in 1..Len(q) /\ items[i] = q[i]
        BY <1>1, <3>2
      <4> QED
        BY <4>1 DEF In
    <3> QED
      BY <3>1, <3>2
  <2>2. \A i \in 1..Len(q) : i \in 1..Len(items) /\ items[i] = q[i]
    BY <1>1
  <2>3. Len(q) + 1 \in 1..Len(items)
    BY <1>1
  <2> QED
    BY <1>1, <2>1, <2>2, <2>3 DEF In
<1>3. OneEach(items)
  <2>1. ASSUME NEW i \in 1..Len(items), NEW j \in 1..Len(items), items[i] = items[j] PROVE i = j
    <3>1. \A m \in 1..Len(items) : m # Len(q) + 1 => m \in 1..Len(q) /\ items[m] = q[m] /\ q[m] # t
      BY <1>1 DEF In
    <3>2. CASE i # Len(q) + 1 /\ j # Len(q) + 1
      BY <2>1, <3>1, <3>2 DEF OneEach
    <3> QED
      BY <1>1, <2>1, <3>1, <3>2
  <2> QED
    BY <2>1 DEF OneEach
<1>4. PICK n \in 0..Len(items) :
        /\ Ack!Kept(items) \in Seq(Receipts) /\ Len(Ack!Kept(items)) = Len(items) - n
        /\ \A i \in 1..(Len(items) - n) : Ack!Kept(items)[i] = items[i + n]
  BY <1>1, KeptProperties
<1>5. \A i \in 1..Len(Ack!Kept(items)) : i + n \in 1..Len(items) /\ Ack!Kept(items)[i] = items[i + n]
  BY <1>1, <1>4
<1>6. OneEach(Ack!Kept(items))
  <2>1. ASSUME NEW i \in 1..Len(Ack!Kept(items)), NEW j \in 1..Len(Ack!Kept(items)),
               Ack!Kept(items)[i] = Ack!Kept(items)[j]
        PROVE  i = j
    <3>1. i + n = j + n
      BY <1>3, <1>5, <2>1 DEF OneEach
    <3> QED
      BY <1>1, <1>4, <3>1
  <2> QED
    BY <2>1 DEF OneEach
<1>7. \A r : In(r, Ack!Kept(items)) => In(r, items)
  BY <1>5 DEF In
<1> QED
  BY <1>1, <1>2, <1>4, <1>6, <1>7 DEF items

\* What a rewrite of the queue leaves, whatever it meets.
LEMMA Rewritten ==
    ASSUME AckTypes, NEW t \in Turns, held[t] \in Seq(Receipts), NEW r, NEW gone,
           NEW after \in Seq(Receipts), Ack!WriteQueue(t, r, after, gone)
    PROVE  /\ queue' \in Seq(Receipts) /\ held' = [held EXCEPT ![t] = None]
           /\ harmed \subseteq harmed' /\ dropped \subseteq dropped'
           /\ \/ queue' = after /\ dropped' = dropped \cup gone
                 /\ \A s : s \notin harmed' => (In(s, queue) <=> In(s, held[t]))
              \/ queue' = queue /\ r \in harmed'
              \/ queue' = <<>> /\ r \in harmed' /\ \A s : In(s, queue) => s \in harmed'
<1>1. queue \in Seq(Receipts) /\ <<>> \in Seq(Receipts)
  BY DEF AckTypes
<1>2. /\ \A s : s \in Ack!Range(queue) <=> In(s, queue)
      /\ \A s : s \in Ack!Range(held[t]) <=> In(s, held[t])
  BY <1>1, RangeIsIn
<1>3. held' = [held EXCEPT ![t] = None]
  BY DEF Ack!WriteQueue
<1>4. CASE /\ queue' = after
           /\ harmed' = harmed \cup Ack!Differ(Ack!Range(queue), Ack!Range(held[t]))
           /\ dropped' = dropped \cup gone
  BY <1>2, <1>3, <1>4 DEF Ack!Differ
<1>5. CASE queue' = queue /\ harmed' = harmed \cup {r} /\ UNCHANGED dropped
  BY <1>1, <1>3, <1>5
<1>6. CASE queue' = <<>> /\ harmed' = harmed \cup {r} \cup Ack!Range(queue) /\ UNCHANGED dropped
  BY <1>1, <1>2, <1>3, <1>6
<1> QED
  BY <1>4, <1>5, <1>6 DEF Ack!WriteQueue

\* Likewise of the sessions.
LEMMA Renoted ==
    ASSUME AckTypes, NEW t \in Turns, NEW after \in Sessions, Ack!WriteSessions(t, after)
    PROVE  /\ sessions' \in Sessions /\ noted' = [noted EXCEPT ![t] = None]
           /\ blurred \subseteq blurred'
           /\ \/ sessions' = after
                 /\ \A s : s \notin blurred' => /\ s \in sessions.started <=> s \in noted[t].started
                                                /\ s \in sessions.learned <=> s \in noted[t].learned
              \/ sessions' = sessions /\ t \in blurred'
              \/ t \in blurred' /\ sessions.started \subseteq blurred' /\ sessions.learned \subseteq blurred'
<1>1. sessions \in Sessions /\ Ack!NoSessions \in Sessions
  BY DEF AckTypes, Ack!NoSessions, Sessions
<1> QED
  BY <1>1 DEF Ack!WriteSessions, Ack!Differ

LEMMA SendingTypes ==
    ASSUME AckTypes, NEW r \in Receipts, NEW ok \in BOOLEAN, Ack!Sending(r, ok)
    PROVE  /\ arrived' \in [Receipts -> Nat]
           /\ \A s \in Receipts : arrived'[s] = arrived[s] \/ (s = r /\ arrived'[s] = arrived[s] + 1)
           /\ unsure \subseteq unsure' /\ unsure' \subseteq unsure \cup {r}
           /\ ok => arrived'[r] = arrived[r] + 1
           /\ ~ok => arrived'[r] = arrived[r] \/ r \in unsure'
<1>1. PICK arrives \in BOOLEAN :
        /\ ok => arrives
        /\ arrived' = [arrived EXCEPT ![r] = IF arrives THEN @ + 1 ELSE @]
        /\ unsure' = IF arrives /\ ~ok THEN unsure \cup {r} ELSE unsure
  BY DEF Ack!Sending
<1>2. arrived \in [Receipts -> Nat]
  BY DEF AckTypes
<1>3. CASE arrives
  BY <1>1, <1>2, <1>3
<1>4. CASE ~arrives
  BY <1>1, <1>2, <1>4
<1> QED
  BY <1>3, <1>4

LEMMA AckInitially == HooksInit => IInv
<1> SUFFICES ASSUME HooksInit PROVE IInv
  OBVIOUS
<1> USE DEF HooksInit, Ack!AckInit
<1>1. queue \in Seq(Receipts) /\ (\A i \in 1..Len(queue) : i = 1 /\ queue[i] \in Earlier)
  <2>1. CASE queue = <<>>
    BY <2>1
  <2>2. CASE \E r \in Earlier : queue = <<r>>
    BY <2>2 DEF Receipts
  <2> QED
    BY <2>1, <2>2
<1>2. AckTypes
  BY <1>1 DEF AckTypes, Receipts, Sessions, Ack!NoSessions
<1>3. Copies
  BY DEF Copies, Noting, Holding, Flushing
<1>4. Placed
  BY <1>1, HooksAssumption DEF Placed, OneEach, In, Holding, Flushing
<1>5. Heard /\ Apart /\ Once /\ Late /\ Learned
  BY DEF Holding, Flushing, Heard, Apart, Once, Late, Learned, Receipts
<1> QED
  BY <1>2, <1>3, <1>4, <1>5 DEF IInv, Orderly

-----------------------------------------------------------------------------
\* A turn works on its own copy, whatever the others do.
LEMMA CopiesStep ==
    ASSUME AckTypes, Copies, NEW t \in Turns,
           \/ Ack!Begin(t) \/ Ack!Note(t) \/ Ack!Send(t) \/ Ack!ReadToQueue(t) \/ Ack!Queue(t)
           \/ Ack!ReadToFlush(t) \/ Ack!DropStale(t) \/ Ack!Retry(t) \/ Ack!RemoveRetried(t)
           \/ Ack!End(t) \/ Ack!Learn(t)
    PROVE  AckTypes' /\ Copies'
<1> USE DEF Ack!Goes, Ack!Flushes, Ack!ReadSessions, Ack!ReadQueue, Ack!NotingToo, Ack!QueueingToo
<1>1. /\ noted[t] # None => noted[t] \in Sessions
      /\ held[t] # None => held[t] \in Seq(Receipts)
      /\ sessions # None /\ queue # None
  BY HooksAssumption DEF AckTypes, Sessions, Receipts
<1>0. Ack!NoSessions \in Sessions /\ <<>> \in Seq(Receipts) /\ Ack!NoSessions # None /\ <<>> # None
  <2>1. Ack!NoSessions \in Sessions /\ <<>> \in Seq(Receipts)
    BY DEF Ack!NoSessions, Sessions
  <2> QED
    BY <2>1, HooksAssumption DEF Sessions, Receipts
<1>2. CASE Ack!Begin(t)
  <2>0. PICK copy \in Sessions : copy # None /\ noted' = [noted EXCEPT ![t] = copy]
    BY <1>0, <1>1, <1>2 DEF AckTypes, Ack!Begin
  <2>1. AckTypes'
    BY <1>2, <2>0 DEF AckTypes, Ack!Begin
  <2>2. Copies'
    BY <1>2, <2>0 DEF AckTypes, Copies, Noting, Holding, Flushing, Ack!Begin
  <2> QED
    BY <2>1, <2>2
<1>3. CASE Ack!Note(t)
  <2>1. noted[t] \in Sessions
    BY <1>1, <1>3 DEF Copies, Noting, Ack!Note
  <2>2. [noted[t] EXCEPT !.started = @ \cup {t}] \in Sessions
    BY <2>1 DEF Sessions
  <2>3. sessions' \in Sessions
    BY <1>3, <2>2, Renoted DEF Ack!Note
  <2>4. AckTypes'
    BY <1>3, <2>3 DEF AckTypes, Ack!Note, Ack!WriteSessions
  <2>5. Copies'
    BY <1>3 DEF AckTypes, Copies, Noting, Holding, Flushing, Ack!Note, Ack!WriteSessions
  <2> QED
    BY <2>4, <2>5
<1>4. CASE Ack!Send(t)
  <2>1. PICK ok \in BOOLEAN :
          Ack!Sending(t, ok) /\ sending' = [sending EXCEPT ![t] = IF ok THEN "sent" ELSE "failed"]
    BY <1>4 DEF Ack!Send
  <2>2. arrived' \in [Receipts -> Nat]
    BY <2>1, SendingTypes DEF Receipts
  <2>3. AckTypes'
    BY <1>4, <2>1, <2>2 DEF AckTypes, Ack!Send
  <2>4. Copies'
    BY <1>4, <2>1 DEF AckTypes, Copies, Noting, Holding, Flushing, Ack!Send
  <2> QED
    BY <2>3, <2>4
<1>5. CASE Ack!ReadToQueue(t)
  <2>0. PICK copy \in Seq(Receipts) : copy # None /\ held' = [held EXCEPT ![t] = copy]
    BY <1>0, <1>1, <1>5 DEF AckTypes, Ack!ReadToQueue
  <2>1. AckTypes'
    BY <1>5, <2>0 DEF AckTypes, Ack!ReadToQueue
  <2>2. Copies'
    BY <1>5, <2>0 DEF AckTypes, Copies, Noting, Holding, Flushing, Ack!ReadToQueue, Ack!Flushed
  <2> QED
    BY <2>1, <2>2
<1>6. CASE Ack!Queue(t)
  <2>1. held[t] \in Seq(Receipts)
    BY <1>1, <1>6 DEF Copies, Holding, Ack!Queue
  <2>2. Append(held[t], t) \in Seq(Receipts)
    BY <2>1, AppendProperties DEF Receipts
  <2>3. queue' \in Seq(Receipts)
    BY <1>6, <2>1, <2>2, KeptProperties, Rewritten DEF Ack!Queue
  <2>4. AckTypes'
    BY <1>6, <2>3 DEF AckTypes, Ack!Queue, Ack!WriteQueue
  <2>5. Copies'
    BY <1>6 DEF AckTypes, Copies, Noting, Holding, Flushing, Ack!Queue, Ack!WriteQueue
  <2> QED
    BY <2>4, <2>5
<1>7. CASE Ack!ReadToFlush(t)
  <2>1. AckTypes'
    BY <1>7 DEF AckTypes, Ack!ReadToFlush
  <2>2. Copies'
    BY <1>1, <1>7 DEF AckTypes, Copies, Noting, Holding, Flushing, Ack!ReadToFlush
  <2> QED
    BY <2>1, <2>2
<1>8. CASE Ack!DropStale(t) \/ Ack!RemoveRetried(t)
  <2>1. held[t] \in Seq(Receipts) /\ held[t] # <<>>
    BY <1>1, <1>8 DEF Copies, Holding, Flushing, Ack!DropStale, Ack!RemoveRetried
  <2>2. Tail(held[t]) \in Seq(Receipts)
    BY <2>1, TailProperties
  <2>3. queue' \in Seq(Receipts)
    BY <1>8, <2>1, <2>2, Rewritten DEF Ack!DropStale, Ack!RemoveRetried
  <2>4. AckTypes'
    BY <1>8, <2>3 DEF AckTypes, Ack!DropStale, Ack!RemoveRetried, Ack!WriteQueue
  <2>5. /\ Flushing(t) /\ flush' = [flush EXCEPT ![t] = "over"] /\ held' = [held EXCEPT ![t] = None]
        /\ UNCHANGED <<sending, ending, noted>>
    BY <1>8 DEF Flushing, Ack!DropStale, Ack!RemoveRetried, Ack!WriteQueue
  <2>6. Copies'
    BY <2>5 DEF AckTypes, Copies, Noting, Holding, Flushing
  <2> QED
    BY <2>4, <2>6
<1>9. CASE Ack!Retry(t)
  <2>1. Head(held[t]) \in Receipts
    BY <1>1, <1>9, TailProperties DEF Copies, Holding, Flushing, Ack!Retry
  <2>2. PICK ok \in BOOLEAN :
          /\ Ack!Sending(Head(held[t]), ok)
          /\ flush' = [flush EXCEPT ![t] = IF ok THEN "retried" ELSE "over"]
          /\ held' = IF ok THEN held ELSE [held EXCEPT ![t] = None]
    BY <1>9 DEF Ack!Retry, Ack!Oldest, Ack!AfterFailedRetry
  <2>3. arrived' \in [Receipts -> Nat]
    BY <2>1, <2>2, SendingTypes
  <2>4. AckTypes'
    BY <1>9, <2>2, <2>3 DEF AckTypes, Ack!Retry
  <2>5. Copies'
    BY <1>9, <2>2 DEF AckTypes, Copies, Noting, Holding, Flushing, Ack!Retry
  <2> QED
    BY <2>4, <2>5
<1>10. CASE Ack!End(t)
  <2>0. \/ /\ ending' = [ending EXCEPT ![t] = "noting"]
           /\ \E copy \in Sessions : copy # None /\ noted' = [noted EXCEPT ![t] = copy]
        \/ ending' = [ending EXCEPT ![t] = "over"] /\ noted' = noted
    BY <1>0, <1>1, <1>10 DEF AckTypes, Ack!End
  <2>1. AckTypes'
    BY <1>10, <2>0 DEF AckTypes, Ack!End
  <2>2. Copies'
    BY <1>10, <2>0 DEF AckTypes, Copies, Noting, Holding, Flushing, Ack!End
  <2> QED
    BY <2>1, <2>2
<1>11. CASE Ack!Learn(t)
  <2>1. noted[t] \in Sessions
    BY <1>1, <1>11 DEF Copies, Noting, Ack!Learn
  <2>2. [started |-> noted[t].started \ {t}, learned |-> noted[t].learned \cup {t}] \in Sessions
    BY <2>1 DEF Sessions
  <2>3. sessions' \in Sessions
    BY <1>11, <2>2, Renoted DEF Ack!Learn
  <2>4. AckTypes'
    BY <1>11, <2>3 DEF AckTypes, Ack!Learn, Ack!WriteSessions
  <2>5. Copies'
    BY <1>11 DEF AckTypes, Copies, Noting, Holding, Flushing, Ack!Learn, Ack!WriteSessions
  <2> QED
    BY <2>4, <2>5
<1> QED
  BY <1>2, <1>3, <1>4, <1>5, <1>6, <1>7, <1>8, <1>9, <1>10, <1>11

\* A turn that is not noted, or not learned from, is one that a rewrite missed.
LEMMA LearnedStep ==
    ASSUME AckTypes, Copies, Learned, NEW t \in Turns,
           \/ Ack!Begin(t) \/ Ack!Note(t) \/ Ack!Send(t) \/ Ack!ReadToQueue(t) \/ Ack!Queue(t)
           \/ Ack!ReadToFlush(t) \/ Ack!DropStale(t) \/ Ack!Retry(t) \/ Ack!RemoveRetried(t)
           \/ Ack!End(t) \/ Ack!Learn(t)
    PROVE  Learned'
<1> USE DEF Ack!Goes, Ack!Flushes
<1>1. Noting(t) => noted[t] \in Sessions
  BY DEF AckTypes, Copies
<1>2. CASE Ack!Note(t)
  <2>1. PICK after \in Sessions :
          /\ Ack!WriteSessions(t, after)
          /\ after.started = noted[t].started \cup {t} /\ after.learned = noted[t].learned
    BY <1>1, <1>2 DEF Ack!Note, Noting, Sessions
  <2>2. sending' = [sending EXCEPT ![t] = "sending"] /\ ending' = ending /\ ending[t] = "none"
    BY <1>2 DEF Ack!Note, Copies
  <2> QED
    BY <2>1, <2>2, Renoted DEF AckTypes, Learned
<1>3. CASE Ack!Learn(t)
  <2>1. PICK after \in Sessions :
          /\ Ack!WriteSessions(t, after)
          /\ after.started = noted[t].started \ {t} /\ after.learned = noted[t].learned \cup {t}
    BY <1>1, <1>3 DEF Ack!Learn, Noting, Sessions
  <2>2. sending' = sending /\ ending' = [ending EXCEPT ![t] = "over"]
    BY <1>3 DEF Ack!Learn
  <2> QED
    BY <2>1, <2>2, Renoted DEF AckTypes, Learned
<1>4. CASE Ack!End(t)
  <2>1. /\ UNCHANGED <<sessions, sending>> /\ blurred \subseteq blurred'
        /\ sending[t] \notin {"idle", "noting"} /\ ending[t] = "none"
        /\ \/ ending' = [ending EXCEPT ![t] = "noting"]
           \/ ending' = [ending EXCEPT ![t] = "over"] /\ (t \in sessions.started => t \in blurred')
    BY <1>4 DEF Ack!End
  <2> QED
    BY <2>1 DEF AckTypes, Learned
<1>5. CASE Ack!Begin(t)
  <2>1. UNCHANGED <<sessions, ending, blurred>> /\ sending' = [sending EXCEPT ![t] = "noting"]
    BY <1>5 DEF Ack!Begin
  <2>2. sending[t] = "idle" /\ ending[t] = "none"
    BY <1>5 DEF Ack!Begin, Copies
  <2> QED
    BY <2>1, <2>2 DEF AckTypes, Learned
<1>6. CASE Ack!Send(t) \/ Ack!ReadToQueue(t) \/ Ack!Queue(t)
  <2>1. UNCHANGED <<sessions, ending, blurred>> /\ sending[t] \notin {"idle", "noting"}
    BY <1>6 DEF Ack!Send, Ack!ReadToQueue, Ack!Queue
  <2>2. PICK place : sending' = [sending EXCEPT ![t] = place] /\ place \notin {"idle", "noting"}
    BY <1>6 DEF Ack!Send, Ack!ReadToQueue, Ack!Queue
  <2> QED
    BY <2>1, <2>2 DEF AckTypes, Learned
<1>7. CASE Ack!ReadToFlush(t) \/ Ack!DropStale(t) \/ Ack!Retry(t) \/ Ack!RemoveRetried(t)
  <2>1. UNCHANGED <<sessions, sending, ending, blurred>>
    BY <1>7 DEF Ack!ReadToFlush, Ack!DropStale, Ack!Retry, Ack!RemoveRetried
  <2> QED
    BY <2>1 DEF Learned
<1> QED
  BY <1>2, <1>3, <1>4, <1>5, <1>6, <1>7

-----------------------------------------------------------------------------
\* The steps that leave the queue, its copies and the receipts alone.
LEMMA OrderlyNotes ==
    ASSUME AckTypes, Copies, Orderly, NEW t \in Turns,
           Ack!Begin(t) \/ Ack!Note(t) \/ Ack!End(t) \/ Ack!Learn(t)
    PROVE  Orderly'
<1> USE DEF Ack!Goes, Ack!Flushes
<1>1. UNCHANGED <<queue, held, arrived, unsure, dropped, harmed, shared>>
  BY DEF Ack!Begin, Ack!Note, Ack!End, Ack!Learn
<1>2. \/ sending' = sending /\ flush' = flush
      \/ sending[t] = "idle" /\ sending' = [sending EXCEPT ![t] = "noting"] /\ flush' = flush
      \/ /\ sending[t] = "noting" /\ sending' = [sending EXCEPT ![t] = "sending"]
         /\ flush[t] = "none" /\ flush' = [flush EXCEPT ![t] = "reading"]
  BY DEF Ack!Begin, Ack!Note, Ack!End, Ack!Learn, Copies
<1>3. \A u \in Turns : /\ flush'[u] = "trying" <=> flush[u] = "trying"
                       /\ flush'[u] = "retried" <=> flush[u] = "retried"
                       /\ sending'[u] = "queueing" <=> sending[u] = "queueing"
                       /\ sending'[u] = "queued" <=> sending[u] = "queued"
                       /\ sending'[u] = "failed" <=> sending[u] = "failed"
                       /\ sending'[u] \in {"idle", "noting", "sending"} <=>
                          sending[u] \in {"idle", "noting", "sending"}
  BY <1>2 DEF AckTypes
<1>4. \A u \in Turns : (Flushing(u)' <=> Flushing(u)) /\ (Holding(u)' <=> Holding(u))
  BY <1>3 DEF Flushing, Holding
<1>5. Placed'
  BY <1>1, <1>3, <1>4 DEF Orderly, Placed
<1>6. Heard'
  BY <1>1, <1>3 DEF Orderly, Heard
<1>7. Apart'
  BY <1>1, <1>4 DEF Orderly, Apart
<1>8. Once'
  BY <1>1, <1>3 DEF Orderly, Once, Plain
<1>9. Late'
  BY <1>1, <1>3 DEF Orderly, Late
<1> QED
  BY <1>5, <1>6, <1>7, <1>8, <1>9 DEF Orderly

\* A receipt is sent for the first time: no copy of the queue has it.
LEMMA OrderlySend ==
    ASSUME AckTypes, Copies, Orderly, NEW t \in Turns, Ack!Send(t)
    PROVE  Orderly'
<1> USE DEF Ack!Goes
<1>1. /\ UNCHANGED <<queue, held, flush, dropped, harmed, shared>>
      /\ sending[t] = "sending"
      /\ \E ok \in BOOLEAN :
            Ack!Sending(t, ok) /\ sending' = [sending EXCEPT ![t] = IF ok THEN "sent" ELSE "failed"]
  BY DEF Ack!Send
<1>2. PICK ok \in BOOLEAN :
        Ack!Sending(t, ok) /\ sending' = [sending EXCEPT ![t] = IF ok THEN "sent" ELSE "failed"]
  BY <1>1
<1>3. /\ \A s \in Receipts : arrived[s] \in Nat /\ (s # t => arrived'[s] = arrived[s])
      /\ arrived[t] = 0 /\ arrived'[t] \in {0, 1}
      /\ unsure \subseteq unsure'
      /\ ~ok => arrived'[t] = 0 \/ t \in unsure'
  <2>1. t \in Receipts /\ arrived[t] = 0
    BY <1>1 DEF Receipts, Orderly, Heard
  <2> QED
    BY <1>2, <2>1, SendingTypes DEF AckTypes
<1>4. /\ sending'[t] = "sent" \/ (sending'[t] = "failed" /\ ~ok)
      /\ \A u \in Turns \ {t} : sending'[u] = sending[u]
  BY <1>2 DEF AckTypes
<1>5. \A u \in Turns : (Flushing(u)' <=> Flushing(u)) /\ (Holding(u)' <=> Holding(u))
  BY <1>1, <1>4 DEF Flushing, Holding
<1>6. ~In(t, queue) /\ \A u \in Turns : Holding(u) => ~In(t, held[u])
  BY <1>1 DEF Orderly, Placed
<1>7. \A u \in Turns : Flushing(u) => held[u][1] \in Receipts /\ In(held[u][1], held[u])
  BY WithoutOldest DEF AckTypes, Copies, Orderly, Placed, Holding
<1>8. \A u \in Turns : Flushing(u) => held[u][1] # t
  BY <1>6, <1>7 DEF Holding
<1>9. Placed'
  BY <1>1, <1>4, <1>5, <1>6 DEF Orderly, Placed
<1>10. Heard'
  <2>1. ASSUME NEW u \in Turns, flush'[u] = "retried" PROVE arrived'[held'[u][1]] > 0
    BY <1>1, <1>3, <1>7, <1>8, <2>1 DEF Orderly, Heard, Flushing
  <2>2. ASSUME NEW u \in Turns
        PROVE  /\ sending'[u] \in {"idle", "noting", "sending"} => arrived'[u] = 0
               /\ sending'[u] \in {"failed", "queueing"} => arrived'[u] = 0 \/ u \in unsure'
    BY <1>3, <1>4 DEF Orderly, Heard, Receipts
  <2> QED
    BY <2>1, <2>2 DEF Heard
<1>11. Apart'
  BY <1>1, <1>5 DEF Orderly, Apart
<1>12. Once'
  <2> SUFFICES ASSUME NEW r \in Receipts, Plain(r)'
               PROVE  /\ arrived'[r] <= 1
                      /\ arrived'[r] = 1 =>
                            /\ \A u \in Turns : flush[u] = "trying" => held[u][1] # r
                            /\ In(r, queue) => \E u \in Turns : flush[u] = "retried" /\ held[u][1] = r
    BY <1>1 DEF Once
  <2>1. Plain(r)
    BY <1>1, <1>3 DEF Plain
  <2>2. CASE r = t
    BY <1>3, <1>6, <1>8, <2>2 DEF Flushing
  <2>3. CASE r # t
    BY <1>3, <2>1, <2>3 DEF Orderly, Once
  <2> QED
    BY <2>2, <2>3
<1>13. Late'
  BY <1>1, <1>3, <1>4 DEF Orderly, Late, Receipts
<1> QED
  BY <1>9, <1>10, <1>11, <1>12, <1>13 DEF Orderly

\* A copy is taken of the queue, to queue a receipt or to retry the oldest one.
LEMMA OrderlyReads ==
    ASSUME AckTypes, Copies, Orderly, NEW t \in Turns, Ack!ReadToQueue(t) \/ Ack!ReadToFlush(t)
    PROVE  Orderly'
<1> USE DEF Ack!Goes, Ack!Flushes
<1>1. UNCHANGED <<queue, arrived, unsure, dropped, harmed>> /\ shared \subseteq shared'
  BY DEF Ack!ReadToQueue, Ack!ReadToFlush
<1>2. OneEach(<<>>) /\ \A r : ~In(r, <<>>)
  BY DEF OneEach, In
<1>3. CASE Ack!ReadToQueue(t)
  <2>1. PICK copy : /\ copy \in {queue, <<>>} /\ held' = [held EXCEPT ![t] = copy]
                    /\ sending[t] = "failed" /\ sending' = [sending EXCEPT ![t] = "queueing"]
                    /\ UNCHANGED <<flush, shared>> /\ ~Flushing(t)
    BY <1>3 DEF Ack!ReadToQueue, Ack!ReadQueue, Ack!Flushed, Flushing
  <2>2. /\ \A u \in Turns \ {t} : sending'[u] = sending[u] /\ held'[u] = held[u]
        /\ sending'[t] = "queueing" /\ held'[t] = copy
    BY <2>1 DEF AckTypes
  <2>3. /\ \A u \in Turns : Flushing(u)' <=> Flushing(u)
        /\ \A u \in Turns \ {t} : Holding(u)' <=> Holding(u)
    BY <2>1, <2>2 DEF Flushing, Holding
  <2>4. OneEach(copy) /\ \A r : In(r, copy) => In(r, queue)
    BY <1>2, <2>1 DEF Orderly, Placed
  <2>5. Placed'
    BY <1>1, <2>1, <2>2, <2>3, <2>4 DEF Orderly, Placed
  <2>6. \A u \in Turns : Flushing(u) => held'[u] = held[u]
    BY <2>1, <2>2
  <2>7. Heard'
    BY <1>1, <2>1, <2>2, <2>6 DEF Orderly, Heard, Flushing
  <2>8. Apart'
    BY <2>1, <2>3, <2>6 DEF Orderly, Apart
  <2>9. Once'
    BY <1>1, <2>1, <2>6 DEF Orderly, Once, Plain, Flushing
  <2>10. Late'
    BY <1>1, <2>2 DEF Orderly, Late
  <2> QED
    BY <2>5, <2>7, <2>8, <2>9, <2>10 DEF Orderly
<1>4. CASE Ack!ReadToFlush(t) /\ flush' = [flush EXCEPT ![t] = "over"] /\ UNCHANGED <<held, shared>>
  <2>1. UNCHANGED sending /\ flush[t] = "reading"
    BY <1>4 DEF Ack!ReadToFlush
  <2>2. \A u \in Turns : /\ flush'[u] = "trying" <=> flush[u] = "trying"
                         /\ flush'[u] = "retried" <=> flush[u] = "retried"
    BY <1>4, <2>1 DEF AckTypes
  <2>3. \A u \in Turns : (Flushing(u)' <=> Flushing(u)) /\ (Holding(u)' <=> Holding(u))
    BY <2>1, <2>2 DEF Flushing, Holding
  <2>4. Placed' /\ Heard' /\ Apart' /\ Late'
    BY <1>1, <1>4, <2>1, <2>2, <2>3 DEF Orderly, Placed, Heard, Apart, Late
  <2>5. Once'
    BY <1>1, <1>4, <2>2 DEF Orderly, Once, Plain
  <2> QED
    BY <2>4, <2>5 DEF Orderly
<1>5. CASE Ack!ReadToFlush(t) /\ flush' = [flush EXCEPT ![t] = "trying"] /\ queue # <<>>
  <2> DEFINE r == queue[1]
  <2>1. /\ UNCHANGED sending /\ flush[t] = "reading" /\ held' = [held EXCEPT ![t] = queue]
        /\ shared' = shared \cup {s \in {Head(queue)} : \E u \in Turns :
                                    flush[u] \in {"trying", "retried"} /\ Ack!Oldest(u) = s}
    BY <1>5 DEF Ack!ReadToFlush, AckTypes
  <2>2. r \in Receipts /\ Head(queue) = r /\ In(r, queue)
    BY <1>5, WithoutOldest DEF AckTypes, Orderly, Placed
  <2>3. /\ \A u \in Turns \ {t} : flush'[u] = flush[u] /\ held'[u] = held[u]
        /\ flush'[t] = "trying" /\ held'[t] = queue /\ ~Flushing(t)
    BY <1>5, <2>1 DEF AckTypes, Flushing
  <2>4. /\ \A u \in Turns \ {t} : (Flushing(u)' <=> Flushing(u)) /\ (Holding(u)' <=> Holding(u))
        /\ Flushing(t)' /\ Holding(t)'
    BY <2>1, <2>3 DEF Flushing, Holding
  <2>5. ASSUME NEW u \in Turns, Flushing(u), held[u][1] = r PROVE r \in shared'
    <3>1. Ack!Oldest(u) = r
      BY <2>5, TailProperties DEF Ack!Oldest, AckTypes, Copies, Holding
    <3> QED
      BY <2>1, <2>2, <2>5, <3>1 DEF Flushing
  <2>6. Placed'
    BY <1>1, <2>1, <2>3, <2>4 DEF Orderly, Placed
  <2>7. Heard'
    BY <1>1, <2>1, <2>3 DEF Orderly, Heard
  <2>8. Apart'
    BY <1>1, <2>3, <2>4, <2>5 DEF Orderly, Apart
  <2>9. Once'
    <3> SUFFICES ASSUME NEW s \in Receipts, Plain(s)'
                 PROVE  /\ arrived[s] <= 1
                        /\ arrived[s] = 1 =>
                              /\ \A u \in Turns : flush'[u] = "trying" => held'[u][1] # s
                              /\ In(s, queue) => \E u \in Turns : flush'[u] = "retried" /\ held'[u][1] = s
      BY <1>1 DEF Once
    <3>1. Plain(s)
      BY <1>1 DEF Plain
    <3>2. arrived[s] = 1 /\ In(s, queue) => \E u \in Turns : u # t /\ flush[u] = "retried" /\ held[u][1] = s
      BY <2>3, <3>1 DEF Orderly, Once, Flushing
    <3>3. arrived[s] = 1 => s # r
      BY <2>2, <2>5, <3>2 DEF Plain, Flushing
    <3> QED
      BY <2>3, <3>1, <3>2, <3>3 DEF Orderly, Once
  <2>10. Late'
    BY <1>1, <2>1 DEF Orderly, Late
  <2> QED
    BY <2>6, <2>7, <2>8, <2>9, <2>10 DEF Orderly
<1> QED
  BY <1>3, <1>4, <1>5 DEF Ack!ReadToFlush

\* A receipt that was not sent joins the queue.
LEMMA OrderlyQueues ==
    ASSUME AckTypes, Copies, Orderly, NEW t \in Turns, Ack!Queue(t)
    PROVE  Orderly'
<1> USE DEF Ack!Goes
<1> DEFINE items == Append(held[t], t)
           kept == Ack!Kept(items)
           gone == Ack!Range(items) \ Ack!Range(kept)
<1>1. /\ Ack!WriteQueue(t, t, kept, gone)
      /\ sending[t] = "queueing" /\ sending' = [sending EXCEPT ![t] = "queued"]
      /\ UNCHANGED <<flush, arrived, unsure, shared>>
  BY DEF Ack!Queue
<1>2. /\ Holding(t) /\ held[t] \in Seq(Receipts) /\ OneEach(held[t]) /\ ~In(t, held[t]) /\ t \in Receipts
      /\ ~Flushing(t)
  BY <1>1, HooksAssumption DEF Holding, Flushing, Orderly, Placed, AckTypes, Copies, Receipts
<1>3. /\ kept \in Seq(Receipts) /\ OneEach(kept)
      /\ \A r : In(r, kept) => In(r, held[t]) \/ r = t
      /\ \A r : In(r, held[t]) \/ r = t => In(r, kept) \/ r \in gone
  <2>1. /\ items \in Seq(Receipts) /\ OneEach(kept) /\ kept \in Seq(Receipts)
        /\ \A r : In(r, items) <=> In(r, held[t]) \/ r = t
        /\ \A r : In(r, kept) => In(r, held[t]) \/ r = t
    BY <1>2, WithNewest
  <2> HIDE DEF items, kept
  <2>2. (\A r : r \in Ack!Range(items) <=> In(r, items)) /\ (\A r : r \in Ack!Range(kept) <=> In(r, kept))
    BY <2>1, RangeIsIn
  <2> QED
    BY <2>1, <2>2
<1> HIDE DEF items, kept, gone
<1>4. /\ queue' \in Seq(Receipts) /\ held' = [held EXCEPT ![t] = None]
      /\ harmed \subseteq harmed' /\ dropped \subseteq dropped'
      /\ \/ queue' = kept /\ dropped' = dropped \cup gone
            /\ \A s : s \notin harmed' => (In(s, queue) <=> In(s, held[t]))
         \/ queue' = queue /\ t \in harmed'
         \/ queue' = <<>> /\ t \in harmed' /\ \A s : In(s, queue) => s \in harmed'
  BY <1>1, <1>2, <1>3, Rewritten
<1>5. OneEach(<<>>) /\ \A r : ~In(r, <<>>)
  BY DEF OneEach, In
<1>6. OneEach(queue') /\ \A s : In(s, queue') => In(s, queue) \/ In(s, held[t]) \/ s = t
  BY <1>3, <1>4, <1>5 DEF Orderly, Placed
<1>7. \A s : s \notin harmed' =>
        /\ In(s, queue') => In(s, queue) \/ s = t
        /\ In(s, queue) \/ s = t => In(s, queue') \/ s \in dropped'
  BY <1>3, <1>4, <1>5
<1>8. /\ \A u \in Turns \ {t} : sending'[u] = sending[u] /\ held'[u] = held[u]
      /\ sending'[t] = "queued"
  BY <1>1, <1>4 DEF AckTypes
<1>9. /\ \A u \in Turns : Flushing(u)' <=> Flushing(u)
      /\ \A u \in Turns \ {t} : Holding(u)' <=> Holding(u)
      /\ ~Holding(t)'
  BY <1>1, <1>2, <1>8 DEF Flushing, Holding
<1>10. \A u \in Turns : Flushing(u) => held'[u] = held[u]
  BY <1>2, <1>8
<1>11. Placed'
  BY <1>1, <1>2, <1>6, <1>8, <1>9 DEF Orderly, Placed
<1>12. Heard'
  BY <1>1, <1>8, <1>10 DEF Orderly, Heard, Flushing
<1>13. Apart'
  BY <1>1, <1>9, <1>10 DEF Orderly, Apart
<1>14. Once'
  <2> SUFFICES ASSUME NEW r \in Receipts, Plain(r)'
               PROVE  /\ arrived[r] <= 1
                      /\ arrived[r] = 1 =>
                            /\ \A u \in Turns : flush[u] = "trying" => held'[u][1] # r
                            /\ In(r, queue') => \E u \in Turns : flush[u] = "retried" /\ held'[u][1] = r
    BY <1>1 DEF Once
  <2>1. Plain(r) /\ r \notin harmed'
    BY <1>1, <1>4 DEF Plain
  <2>2. r = t => arrived[r] = 0
    BY <1>1, <2>1 DEF Orderly, Heard, Plain
  <2> QED
    BY <1>7, <1>10, <2>1, <2>2 DEF Orderly, Once, Flushing
<1>15. Late'
  <2> SUFFICES ASSUME NEW u \in Turns, sending'[u] = "queued", u \notin harmed'
               PROVE  arrived[u] > 0 \/ In(u, queue') \/ u \in dropped'
    BY <1>1 DEF Late
  <2>1. CASE u = t
    BY <1>7, <2>1
  <2>2. CASE u # t
    BY <1>4, <1>7, <1>8, <2>2 DEF Orderly, Late
  <2> QED
    BY <2>1, <2>2
<1> QED
  BY <1>11, <1>12, <1>13, <1>14, <1>15 DEF Orderly

\* The oldest receipt leaves the queue: it is stale, or its retry got through.
LEMMA OrderlyRemoves ==
    ASSUME AckTypes, Copies, Orderly, NEW t \in Turns, Ack!DropStale(t) \/ Ack!RemoveRetried(t)
    PROVE  Orderly'
<1> USE DEF Ack!Flushes
<1> DEFINE r == held[t][1]
<1>1. /\ Flushing(t) /\ Holding(t) /\ held[t] \in Seq(Receipts) /\ held[t] # <<>> /\ OneEach(held[t])
  BY HooksAssumption DEF Holding, Flushing, Orderly, Placed, AckTypes, Copies, Receipts, Ack!DropStale, Ack!RemoveRetried
<1>2. /\ r \in Receipts /\ Head(held[t]) = r /\ In(r, held[t])
      /\ Tail(held[t]) \in Seq(Receipts) /\ OneEach(Tail(held[t]))
      /\ \A s : In(s, Tail(held[t])) <=> In(s, held[t]) /\ s # r
  BY <1>1, WithoutOldest
<1> HIDE DEF r
<1>3. PICK gone :
        /\ Ack!WriteQueue(t, r, Tail(held[t]), gone)
        /\ flush[t] = "trying" => r \in gone
  BY <1>2 DEF Ack!DropStale, Ack!RemoveRetried, Ack!Oldest
<1>4. /\ flush' = [flush EXCEPT ![t] = "over"]
      /\ UNCHANGED <<sending, arrived, unsure, shared>>
  BY DEF Ack!DropStale, Ack!RemoveRetried
<1>5. /\ queue' \in Seq(Receipts) /\ held' = [held EXCEPT ![t] = None]
      /\ harmed \subseteq harmed' /\ dropped \subseteq dropped'
      /\ \/ queue' = Tail(held[t]) /\ dropped' = dropped \cup gone
            /\ \A s : s \notin harmed' => (In(s, queue) <=> In(s, held[t]))
         \/ queue' = queue /\ r \in harmed'
         \/ queue' = <<>> /\ r \in harmed' /\ \A s : In(s, queue) => s \in harmed'
  BY <1>1, <1>2, <1>3, Rewritten
<1>6. OneEach(<<>>) /\ \A s : ~In(s, <<>>)
  BY DEF OneEach, In
<1>7. OneEach(queue') /\ \A s : In(s, queue') => In(s, queue) \/ In(s, held[t])
  BY <1>2, <1>5, <1>6 DEF Orderly, Placed
<1>8. \A s : s \notin harmed' => (In(s, queue') <=> In(s, queue) /\ s # r)
  BY <1>2, <1>5, <1>6
<1>9. r \notin harmed' => flush[t] = "retried" \/ r \in dropped'
  BY <1>1, <1>3, <1>5 DEF Flushing
<1>10. /\ \A u \in Turns \ {t} : flush'[u] = flush[u] /\ held'[u] = held[u]
       /\ flush'[t] = "over"
  BY <1>4, <1>5 DEF AckTypes
<1>11. sending[t] # "queueing"
  BY <1>1 DEF Copies, Flushing
<1>12. /\ \A u \in Turns \ {t} : (Flushing(u)' <=> Flushing(u)) /\ (Holding(u)' <=> Holding(u))
       /\ ~Flushing(t)' /\ ~Holding(t)'
  BY <1>4, <1>10, <1>11 DEF Flushing, Holding
<1>13. Placed'
  BY <1>1, <1>4, <1>7, <1>10, <1>12 DEF Orderly, Placed
<1>14. Heard'
  BY <1>4, <1>10 DEF Orderly, Heard
<1>15. Apart'
  BY <1>4, <1>10, <1>12 DEF Orderly, Apart
<1>16. Once'
  <2> SUFFICES ASSUME NEW s \in Receipts, Plain(s)'
               PROVE  /\ arrived[s] <= 1
                      /\ arrived[s] = 1 =>
                            /\ \A u \in Turns : flush'[u] = "trying" => held'[u][1] # s
                            /\ In(s, queue') => \E u \in Turns : flush'[u] = "retried" /\ held'[u][1] = s
    BY <1>4 DEF Once
  <2>1. Plain(s) /\ s \notin harmed'
    BY <1>4, <1>5 DEF Plain
  <2>2. ASSUME NEW u \in Turns, flush[u] = "retried", held[u][1] = s, s # r
        PROVE  flush'[u] = "retried" /\ held'[u][1] = s
    BY <1>10, <2>2 DEF r
  <2> QED
    BY <1>8, <1>10, <2>1, <2>2 DEF Orderly, Once
<1>17. Late'
  <2>1. flush[t] = "retried" => arrived[r] > 0
    BY DEF Orderly, Heard, r
  <2> QED
    BY <1>4, <1>5, <1>8, <1>9, <2>1 DEF Orderly, Late
<1> QED
  BY <1>13, <1>14, <1>15, <1>16, <1>17 DEF Orderly

\* The oldest receipt is sent again.
LEMMA OrderlyRetries ==
    ASSUME AckTypes, Copies, Orderly, NEW t \in Turns, Ack!Retry(t)
    PROVE  Orderly'
<1> USE DEF Ack!Flushes
<1> DEFINE r == held[t][1]
<1>1. /\ flush[t] = "trying" /\ UNCHANGED <<queue, sending, dropped, harmed, shared>>
      /\ Flushing(t) /\ Holding(t) /\ held[t] \in Seq(Receipts) /\ held[t] # <<>> /\ OneEach(held[t])
  BY HooksAssumption DEF Holding, Flushing, Orderly, Placed, AckTypes, Copies, Receipts, Ack!Retry
<1>2. r \in Receipts /\ Head(held[t]) = r /\ In(r, held[t])
  BY <1>1, WithoutOldest
<1>3. PICK ok \in BOOLEAN :
        /\ Ack!Sending(r, ok)
        /\ flush' = [flush EXCEPT ![t] = IF ok THEN "retried" ELSE "over"]
        /\ held' = IF ok THEN held ELSE [held EXCEPT ![t] = None]
  BY <1>2 DEF Ack!Retry, Ack!Oldest, Ack!AfterFailedRetry
<1>4. /\ \A s \in Receipts : arrived[s] \in Nat /\ arrived'[s] \in Nat /\ (s # r => arrived'[s] = arrived[s])
      /\ arrived'[r] >= arrived[r] /\ arrived'[r] <= arrived[r] + 1
      /\ unsure \subseteq unsure'
      /\ ok => arrived'[r] > 0
      /\ ~ok => arrived'[r] = arrived[r] \/ r \in unsure'
  <2>1. \A s \in Receipts : arrived[s] \in Nat
    BY DEF AckTypes
  <2> QED
    BY <1>2, <1>3, <2>1, SendingTypes
<1>5. /\ \A u \in Turns \ {t} : flush'[u] = flush[u] /\ held'[u] = held[u]
      /\ IF ok THEN flush'[t] = "retried" /\ held' = held ELSE flush'[t] = "over"
  BY <1>3 DEF AckTypes
<1>6. sending[t] # "queueing"
  BY <1>1 DEF Copies
<1>7. /\ \A u \in Turns \ {t} : (Flushing(u)' <=> Flushing(u)) /\ (Holding(u)' <=> Holding(u))
      /\ (Flushing(t)' <=> ok) /\ (Holding(t)' <=> ok)
  BY <1>1, <1>5, <1>6 DEF Flushing, Holding
<1>8. \A u \in Turns : Holding(u)' => held'[u] = held[u] /\ Holding(u)
  BY <1>1, <1>5, <1>7
<1>9. \A u \in Turns : Flushing(u)' => held'[u] = held[u] /\ Flushing(u)
  BY <1>1, <1>5, <1>7
<1>10. \A u \in Turns : sending[u] # "queued" => u # r
  BY <1>1, <1>2 DEF Orderly, Placed
<1>11. Placed'
  BY <1>1, <1>8 DEF Orderly, Placed
<1>12. \A u \in Turns : Flushing(u) => held[u][1] \in Receipts
  BY WithoutOldest DEF AckTypes, Copies, Orderly, Placed, Holding
<1>13. Heard'
  <2>1. ASSUME NEW u \in Turns, flush'[u] = "retried" PROVE arrived'[held'[u][1]] > 0
    <3>1. CASE u = t
      BY <1>4, <1>5, <2>1, <3>1
    <3>2. CASE u # t
      <4>1. held'[u][1] = held[u][1] /\ held[u][1] \in Receipts /\ arrived[held[u][1]] > 0
        BY <1>5, <1>12, <2>1, <3>2 DEF Orderly, Heard, Flushing
      <4> QED
        BY <1>2, <1>4, <4>1
    <3> QED
      BY <3>1, <3>2
  <2>2. ASSUME NEW u \in Turns
        PROVE  /\ sending[u] \in {"idle", "noting", "sending"} => arrived'[u] = 0
               /\ sending[u] \in {"failed", "queueing"} => arrived'[u] = 0 \/ u \in unsure'
    BY <1>4, <1>10 DEF Orderly, Heard, Receipts
  <2> QED
    BY <1>1, <2>1, <2>2 DEF Heard
<1>14. Apart'
  BY <1>1, <1>9 DEF Orderly, Apart
<1>15. Once'
  <2> SUFFICES ASSUME NEW s \in Receipts, Plain(s)'
               PROVE  /\ arrived'[s] <= 1
                      /\ arrived'[s] = 1 =>
                            /\ \A u \in Turns : flush'[u] = "trying" => held'[u][1] # s
                            /\ In(s, queue) => \E u \in Turns : flush'[u] = "retried" /\ held'[u][1] = s
    BY <1>1 DEF Once
  <2>1. Plain(s)
    BY <1>1, <1>4 DEF Plain
  <2>2. CASE s # r
    <3>1. ASSUME NEW u \in Turns, flush[u] = "retried" PROVE flush'[u] = "retried" /\ held'[u] = held[u]
      BY <1>1, <1>5, <3>1
    <3>2. ASSUME NEW u \in Turns, flush'[u] = "trying" PROVE flush[u] = "trying" /\ held'[u] = held[u]
      BY <1>5, <3>2
    <3>3. arrived'[s] = arrived[s]
      BY <1>4, <2>2
    <3> QED
      BY <2>1, <3>1, <3>2, <3>3 DEF Orderly, Once
  <2>3. CASE s = r
    <3>1. arrived[r] = 0
      <4>1. arrived[r] <= 1 /\ arrived[r] # 1
        BY <1>1, <2>1, <2>3 DEF Orderly, Once
      <4> QED
        BY <1>2, <1>4, <4>1
    <3>2. CASE ok
      <4>1. \A u \in Turns \ {t} : flush[u] = "trying" => held[u][1] # r
        BY <1>1, <2>1, <2>3 DEF Orderly, Apart, Plain, Flushing
      <4>2. flush'[t] = "retried" /\ held'[t][1] = r
        BY <1>5, <3>2
      <4> QED
        BY <1>2, <1>4, <1>5, <2>3, <3>1, <4>1, <4>2
    <3>3. CASE ~ok
      BY <1>2, <1>4, <2>3, <3>1, <3>3 DEF Plain
    <3> QED
      BY <3>2, <3>3
  <2> QED
    BY <2>2, <2>3
<1>16. Late'
  <2>1. \A u \in Turns : u \in Receipts /\ (arrived[u] > 0 => arrived'[u] > 0)
    BY <1>2, <1>4 DEF Receipts
  <2> QED
    BY <1>1, <2>1 DEF Orderly, Late
<1> QED
  BY <1>11, <1>13, <1>14, <1>15, <1>16 DEF Orderly

-----------------------------------------------------------------------------
LEMMA AckStep ==
    ASSUME IInv, Ack!AckNext PROVE IInv'
<1> USE DEF IInv
<1>1. CASE Ack!Age
  <2>1. UNCHANGED <<sessions, queue, sending, ending, flush, noted, held, arrived, unsure, dropped,
                    harmed, shared, blurred>>
    BY <1>1 DEF Ack!Age
  <2> QED
    BY <2>1 DEF AckTypes, Copies, Noting, Holding, Flushing, Orderly, Placed, Heard, Apart, Once, Plain,
                Late, Learned
<1>2. ASSUME NEW t \in Turns,
             \/ Ack!Begin(t) \/ Ack!Note(t) \/ Ack!Send(t) \/ Ack!ReadToQueue(t) \/ Ack!Queue(t)
             \/ Ack!ReadToFlush(t) \/ Ack!DropStale(t) \/ Ack!Retry(t) \/ Ack!RemoveRetried(t)
             \/ Ack!End(t) \/ Ack!Learn(t)
      PROVE  IInv'
  <2>1. AckTypes' /\ Copies'
    BY <1>2, CopiesStep
  <2>2. Learned'
    BY <1>2, LearnedStep
  <2>3. Orderly'
    BY <1>2, OrderlyNotes, OrderlySend, OrderlyReads, OrderlyQueues, OrderlyRemoves, OrderlyRetries
  <2> QED
    BY <2>1, <2>2, <2>3
<1> QED
  BY <1>1, <1>2 DEF Ack!AckNext

LEMMA AckElsewhere ==
    ASSUME IInv, UNCHANGED ack PROVE IInv'
BY DEF ack, IInv, AckTypes, Copies, Noting, Holding, Flushing, Orderly, Placed, Heard, Apart, Once, Plain,
       Late, Learned

\* "Telegram unreachable does not mean the receipt is lost, only that it is late"
\* (hermes-hooks/ack/handler.py): however sends fail or time out after arriving, however
\* many turns send, retry and queue at once, and whatever reads and rewrites of the files
\* fail, a receipt that was not sent is in the file, was dropped for its age or the cap,
\* or has arrived; none arrives twice unless a send that failed had arrived or two flushes
\* had it in hand at once; and every ended turn was learned from.  Excepted is only what
\* is itself the victim of a rewrite that failed for it, or undid it from a copy that was
\* not the file.
THEOREM ReceiptsAreOnlyLate ==
    HooksSpec => []LateNotLost
<1>1. HooksInit => IInv
  BY AckInitially
<1>2. IInv /\ [HooksNext]_hooks => IInv'
  BY AckStep, AckElsewhere DEF HooksNext, Acks, Failovers, Supers, hooks
<1>3. IInv => LateNotLost
  <2> SUFFICES ASSUME IInv
               PROVE  /\ \A t \in Turns \ harmed : sending[t] = "queued" =>
                            arrived[t] > 0 \/ t \in Ack!Range(queue) \cup dropped
                      /\ \A r \in DOMAIN arrived : arrived[r] > 1 => r \in unsure \cup shared \cup harmed
                      /\ \A t \in Turns \ blurred : ending[t] = "over" => t \in sessions.learned
    BY DEF LateNotLost, Ack!LateNotLost
  <2>1. \A r : r \in Ack!Range(queue) <=> In(r, queue)
    BY RangeIsIn DEF IInv, AckTypes
  <2>2. DOMAIN arrived = Receipts
    BY DEF IInv, AckTypes
  <2>3. \A r \in Receipts : arrived[r] \in Nat
    BY DEF IInv, AckTypes
  <2> QED
    BY <2>1, <2>2, <2>3 DEF IInv, Orderly, Late, Once, Plain, Learned
<1> QED
  BY <1>1, <1>2, <1>3, PTL DEF HooksSpec
=============================================================================
