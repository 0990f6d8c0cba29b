--------------------------- MODULE PhoneThreadProofs -------------------------
(***************************************************************************)
(* What the wall shows of the phone, proved for every number of pages,      *)
(* rows, updates and instants, every batch and backfill:                    *)
(*   - PanelIsTrue, if the panel can read the alert state file whenever it  *)
(*     looks: the bubbles stand for pages the watch loop decided on, in     *)
(*     their order, and "delivered" has evidence;                           *)
(*   - IntakeIsWhole: the transcript's resume point has passed nothing the  *)
(*     thread lacks, and the poller's offset nothing but what the gateway   *)
(*     took; what the poller shows it shows once and in order.              *)
(***************************************************************************)
EXTENDS PhoneThread, AscendingProofs

-----------------------------------------------------------------------------
(* Finite sets of numbers, smallest first.                                  *)

\* The operators of the library mean the same in the modules instantiated.
LEMMA SameOperators ==
    ASSUME NEW S
    PROVE  /\ Bridge!Cardinality(S) = Cardinality(S)
           /\ Bridge!InOrder(S) = InOrder(S) /\ Poll!InOrder(S) = InOrder(S)
           /\ \A i : Bridge!Rank(i, S) = Rank(i, S)
<1>1. \A T : Bridge!Cardinality(T) = Cardinality(T) /\ Poll!Cardinality(T) = Cardinality(T)
  BY DEF Bridge!Cardinality, Poll!Cardinality, Cardinality
<1>2. \A i : Bridge!Rank(i, S) = Rank(i, S) /\ Poll!Rank(i, S) = Rank(i, S)
  BY <1>1 DEF Bridge!Rank, Poll!Rank, Rank
<1> QED
  BY <1>1, <1>2 DEF Bridge!InOrder, Poll!InOrder, InOrder

\* Of the n smallest members either there are n or they are all; and a member below
\* one of them is one of them.
LEMMA SmallestProperties ==
    ASSUME NEW S \in SUBSET Nat, IsFiniteSet(S), NEW n \in Nat
    PROVE  /\ Bridge!Smallest(n, S) \in SUBSET S /\ IsFiniteSet(Bridge!Smallest(n, S))
           /\ Cardinality(Bridge!Smallest(n, S)) \in Nat
           /\ Cardinality(Bridge!Smallest(n, S)) < n => Bridge!Smallest(n, S) = S
           /\ \A i \in S, j \in Bridge!Smallest(n, S) : i <= j => i \in Bridge!Smallest(n, S)
<1> DEFINE T == Bridge!Smallest(n, S)
<1>1. T \in SUBSET S /\ T = {i \in S : Rank(i, S) < n}
  BY SameOperators DEF Bridge!Smallest
<1>2. IsFiniteSet(T) /\ Cardinality(T) \in Nat /\ Cardinality(S) \in Nat
  BY <1>1, FS_Subset, FS_CardinalityType
<1>3. ASSUME Cardinality(T) < n PROVE T = S
  <2>1. CASE Cardinality(S) < n
    <3>1. \A i \in S : Rank(i, S) < n
      BY <1>2, <2>1, InOrderProperties
    <3> QED
      BY <1>1, <3>1
  <2>2. CASE Cardinality(S) >= n
    <3> DEFINE f == [m \in 1..n |-> InOrder(S)[m]]
    <3>1. \A m \in 1..n : m \in 1..Cardinality(S) /\ InOrder(S)[m] \in T
      <4>1. SUFFICES ASSUME NEW m \in 1..n PROVE m \in 1..Cardinality(S) /\ InOrder(S)[m] \in T
        OBVIOUS
      <4>2. m \in 1..Cardinality(S)
        BY <1>2, <2>2
      <4>3. InOrder(S)[m] \in S /\ Rank(InOrder(S)[m], S) = m - 1
        BY <4>2, InOrderProperties, ElementOfSeq
      <4> QED
        BY <1>1, <4>2, <4>3
    <3>2. \A m, k \in 1..n : m # k => InOrder(S)[m] # InOrder(S)[k]
      <4>1. SUFFICES ASSUME NEW m \in 1..n, NEW k \in 1..n, m # k PROVE InOrder(S)[m] # InOrder(S)[k]
        OBVIOUS
      <4>2. Rank(InOrder(S)[m], S) = m - 1 /\ Rank(InOrder(S)[k], S) = k - 1
        BY <3>1, InOrderProperties
      <4> QED
        BY <4>1, <4>2
    <3>3. f \in Injection(1..n, T)
      BY <3>1, <3>2 DEF Injection, IsInjective
    <3>4. Cardinality(1..n) <= Cardinality(T) /\ Cardinality(1..n) = n
      BY <1>2, <3>3, FS_Injection, FS_Interval
    <3> QED
      BY <1>2, <1>3, <3>4
  <2> QED
    BY <1>2, <2>1, <2>2
<1>4. ASSUME NEW i \in S, NEW j \in T, i <= j PROVE i \in T
  <2>1. {k \in S : k < i} \in SUBSET {k \in S : k < j} /\ {k \in S : k < j} \in SUBSET S
    <3>1. \A k \in S : k \in Nat
      OBVIOUS
    <3>2. \A k \in S : k < i => k < j
      <4>1. i \in Nat /\ j \in Nat /\ i <= j
        BY <1>1, <1>4, <3>1
      <4> QED
        BY <3>1, <4>1
    <3> QED
      BY <3>2
  <2>2. IsFiniteSet({k \in S : k < j}) /\ Rank(i, S) <= Rank(j, S)
    BY <2>1, FS_Subset DEF Rank
  <2>3. Rank(i, S) \in Nat /\ Rank(j, S) \in Nat
    BY <2>1, <2>2, FS_Subset, FS_CardinalityType DEF Rank
  <2> QED
    BY <1>1, <1>4, <2>2, <2>3
<1> QED
  BY <1>1, <1>2, <1>3, <1>4

\* Of the sequence s.
In(i, s) == \E k \in 1..Len(s) : s[k] = i

\* A sequence with a set's members added to it in their order.
LEMMA AddedInOrder ==
    ASSUME NEW s \in Seq(Nat), NEW rows \in SUBSET Nat, IsFiniteSet(rows), NEW t, t = s \o InOrder(rows)
    PROVE  /\ t \in Seq(Nat) /\ Len(t) = Len(s) + Cardinality(rows)
           /\ \A i : In(i, t) <=> In(i, s) \/ i \in rows
<1> DEFINE c == Cardinality(rows)
           n == Len(s)
<1>1. PICK new : new = InOrder(rows)
  OBVIOUS
<1>2. /\ new \in Seq(rows) /\ Len(new) = c /\ c \in Nat /\ n \in Nat
      /\ \A i \in rows : \E k \in 1..c : new[k] = i
  BY <1>1, InOrderProperties, LenProperties
<1>3. new \in Seq(Nat) /\ \A k \in 1..c : new[k] \in rows
  BY <1>2, ElementOfSeq, SeqMonotonic
<1>4. /\ t \in Seq(Nat) /\ Len(t) = n + c
      /\ \A k \in 1..(n + c) : t[k] = IF k <= n THEN s[k] ELSE new[k - n]
  BY <1>1, <1>2, <1>3, ConcatProperties
<1>5. \A k \in 1..n : k \in 1..(n + c) /\ t[k] = s[k]
  BY <1>2, <1>4
<1>6. \A k \in 1..c : n + k \in 1..(n + c) /\ t[n + k] = new[k]
  <2>1. \A k \in 1..c : n + k \in 1..(n + c) /\ ~(n + k <= n) /\ (n + k) - n = k
    BY <1>2
  <2> QED
    BY <1>4, <2>1
<1>7. \A k \in 1..(n + c) : k \in 1..n \/ (k - n \in 1..c /\ n + (k - n) = k)
  BY <1>2
<1>8. \A i : In(i, t) => In(i, s) \/ i \in rows
  <2>1. SUFFICES ASSUME NEW k \in 1..(n + c) PROVE In(t[k], s) \/ t[k] \in rows
    BY <1>4 DEF In
  <2> QED
    BY <1>3, <1>5, <1>6, <1>7 DEF In
<1>9. \A i : In(i, s) \/ i \in rows => In(i, t)
  <2>1. \A k \in 1..n : In(s[k], t)
    BY <1>4, <1>5 DEF In
  <2>2. \A k \in 1..c : In(new[k], t)
    BY <1>4, <1>6 DEF In
  <2> QED
    BY <1>2, <2>1, <2>2 DEF In
<1> QED
  BY <1>4, <1>8, <1>9

LEMMA RangeIsIn ==
    ASSUME NEW s \in Seq(Nat)
    PROVE  \A i : (i \in Bridge!Range(s) <=> In(i, s)) /\ (i \in Poll!Range(s) <=> In(i, s))
BY LenProperties DEF In, Bridge!Range, Poll!Range

-----------------------------------------------------------------------------
(* The watch loop and the panel.                                            *)

Page == [kind : PageKinds, at : Nat, sentAt : Nat]
Bubble == [kind : {"alert", "recovery"}, page : Nat, at : Nat, verdict : Verdicts]
Answer == [up : BOOLEAN, messageAt : Nat, error : BOOLEAN]

PanelTypes ==
    /\ clock \in Nat \ {0} /\ baseline \in 0..Len(pages)
    /\ file \in [status : {"ok", "alarm"}, alertedAt : Nat, page : 0..Len(pages)]
    /\ pages \in Seq(Page) /\ outbox \in Seq(1..Len(pages)) /\ bubbles \in Seq(Bubble)
    /\ health \in [messageAt : Nat, error : BOOLEAN]
    /\ cached \in [age : {"none", "young"}, answer : Answer]
    /\ attached \in BOOLEAN

\* A page of ps left the machine at m or later.
Left(m, ps) == \E k \in 1..Len(ps) : ps[k].sentAt # 0 /\ ps[k].sentAt >= m

\* What the health record, and the panel's copy of it, says was sent was sent.
Evidence ==
    /\ \A k \in 1..Len(pages) : pages[k].sentAt <= clock
    /\ health.messageAt # 0 => Left(health.messageAt, pages)
    /\ cached.answer.messageAt # 0 => Left(cached.answer.messageAt, pages)
    /\ \A i \in 1..Len(bubbles) : bubbles[i].verdict = "delivered" => Left(bubbles[i].at, pages)

\* The state file says which page wrote it.
Written ==
    IF file.page = 0 THEN file.status = "ok" /\ file.alertedAt = 0
    ELSE \/ file.status = "alarm" /\ file.alertedAt # 0 /\ pages[file.page].kind = "alert"
         \/ file.status = "ok" /\ file.alertedAt = 0 /\ pages[file.page].kind = "recovery"

\* What the panel has not yet seen of the file is newer than all it has posted.
Unseen ==
    /\ ~attached => bubbles = <<>>
    /\ attached /\ observed # Adopted(file) =>
          file.page > baseline /\ \A i \in 1..Len(bubbles) : bubbles[i].page < file.page

Real ==
    /\ \A i \in 1..Len(bubbles) : /\ bubbles[i].page \in (baseline + 1)..Len(pages)
                                  /\ pages[bubbles[i].page].kind = bubbles[i].kind
    /\ \A i, j \in 1..Len(bubbles) : i < j => bubbles[i].page < bubbles[j].page

PanelInv == PanelTypes /\ Evidence /\ Written /\ Unseen /\ Real
-----------------------------------------------------------------------------
(* The transcript.                                                          *)

TailTypes ==
    /\ log \in Seq(Bridge!Kinds)
    /\ head \in 0..Len(log) /\ lastId \in 0..Len(log) /\ start \in 0..Len(log)
    /\ tailing \in BOOLEAN

\* The first drain resumes where it attached.
TailInv == TailTypes /\ (drain = "backfill" => head = start) /\ Bridge!NothingSkipped
-----------------------------------------------------------------------------
(* The poller.                                                              *)

PollTypes ==
    /\ sent \in Seq(BOOLEAN)
    /\ forgotten \in 0..Len(sent) /\ offset \in 0..(Len(sent) + 1) /\ start \in 0..Len(sent)
    /\ poller \in {"off", "priming", "polling", "answering", "waiting", "stopped"}

Started == poller \in {"polling", "answering", "waiting"}

\* Between what the poller asks for and what Telegram still has lies only what the
\* gateway took, and an answer under way begins where Telegram's memory ended.
Pending ==
    /\ offset = 0 => shown = <<>>
    /\ poller \in {"off", "priming"} => offset = 0 /\ start = 0
    /\ Started => start < offset \/ start <= forgotten
    /\ Started => \A i \in (start + 1)..forgotten : i >= offset => i \in taken
    /\ \A n \in 1..Len(shown) : shown[n] < offset
    /\ poller = "answering" =>
          /\ answer.from \in 0..forgotten /\ answer.to \in answer.from..Len(sent)
          /\ offset <= answer.from + 1 /\ start <= answer.from

PollInv == PollTypes /\ Pending /\ Poll!EachUpdateOnce

\* `shown` and `start` are the transcript's or the poller's, as `source` says.
IntakeInv ==
    /\ shown \in Seq(Nat)
    /\ source = "transcript" => TailInv
    /\ source = "poller" => PollInv

-----------------------------------------------------------------------------
(* The watch loop and the panel, step by step.                              *)

LEMMA PagesParts ==
    ASSUME NEW ps \in Seq(Page)
    PROVE  Len(ps) \in Nat /\ \A k \in 1..Len(ps) : ps[k] \in Page /\ ps[k].sentAt \in Nat
<1>1. Len(ps) \in Nat /\ \A k \in 1..Len(ps) : ps[k] \in Page
  BY ElementOfSeq, LenProperties
<1>2. \A p \in Page : p.sentAt \in Nat
  BY DEF Page
<1> QED
  BY <1>1, <1>2

LEMMA PanelParts ==
    ASSUME PanelTypes
    PROVE  /\ clock \in Nat /\ clock # 0 /\ health.messageAt \in Nat /\ cached.answer.messageAt \in Nat
           /\ Len(pages) \in Nat /\ Len(bubbles) \in Nat /\ baseline \in 0..Len(pages)
           /\ file.page \in 0..Len(pages)
           /\ \A k \in 1..Len(pages) : pages[k] \in Page /\ pages[k].sentAt \in Nat
           /\ \A i \in 1..Len(bubbles) : bubbles[i] \in Bubble /\ bubbles[i].at \in Nat
                                         /\ bubbles[i].page \in Nat
<1>1. /\ \A k \in 1..Len(pages) : pages[k] \in Page
      /\ \A i \in 1..Len(bubbles) : bubbles[i] \in Bubble
      /\ Len(pages) \in Nat /\ Len(bubbles) \in Nat
  BY ElementOfSeq, LenProperties DEF PanelTypes
<1>2. \A p \in Page : p.sentAt \in Nat
  BY DEF Page
<1>3. \A b \in Bubble : b.at \in Nat /\ b.page \in Nat
  BY DEF Bubble
<1> QED
  BY <1>1, <1>2, <1>3 DEF PanelTypes, Answer

\* Pages are added and their sending only gets later: evidence stays.
LEMMA LeftStays ==
    ASSUME NEW ps, NEW qs, Len(ps) \in Nat, Len(qs) \in Nat, Len(ps) <= Len(qs),
           \A k \in 1..Len(ps) : /\ ps[k].sentAt \in Nat /\ qs[k].sentAt \in Nat
                                 /\ ps[k].sentAt <= qs[k].sentAt
    PROVE  \A m \in Nat : Left(m, ps) => Left(m, qs)
<1>1. SUFFICES ASSUME NEW m \in Nat, NEW k \in 1..Len(ps), ps[k].sentAt # 0, ps[k].sentAt >= m
               PROVE  Left(m, qs)
  BY DEF Left
<1>2. k \in 1..Len(qs)
  OBVIOUS
<1>3. qs[k].sentAt # 0 /\ qs[k].sentAt >= m
  BY <1>1
<1> QED
  BY <1>2, <1>3 DEF Left

\* The watch loop's steps disturb neither what the panel has posted nor its evidence.
LEMMA PagesStay ==
    ASSUME PanelTypes, Evidence, Real, PanelTypes', UNCHANGED <<cached, bubbles, baseline>>,
           Len(pages') >= Len(pages), clock' >= clock,
           \A k \in 1..Len(pages) : /\ pages'[k].kind = pages[k].kind
                                    /\ pages'[k].sentAt >= pages[k].sentAt,
           \A k \in 1..Len(pages') : pages'[k].sentAt <= clock',
           \/ health'.messageAt = 0 \/ health'.messageAt = health.messageAt
           \/ Left(health'.messageAt, pages')
    PROVE  Evidence' /\ Real'
<1>1. /\ Len(pages) \in Nat /\ Len(pages') \in Nat
      /\ \A k \in 1..Len(pages) : pages[k].sentAt \in Nat
      /\ \A k \in 1..Len(pages') : pages'[k].sentAt \in Nat
      /\ health.messageAt \in Nat /\ cached.answer.messageAt \in Nat
      /\ \A i \in 1..Len(bubbles) : bubbles[i].at \in Nat
      /\ baseline \in Nat
  <2>1. /\ Len(pages) \in Nat /\ health.messageAt \in Nat /\ cached.answer.messageAt \in Nat
        /\ \A k \in 1..Len(pages) : pages[k].sentAt \in Nat
        /\ \A i \in 1..Len(bubbles) : bubbles[i].at \in Nat
        /\ baseline \in Nat
    BY PanelParts
  <2>2. Len(pages') \in Nat /\ \A k \in 1..Len(pages') : pages'[k].sentAt \in Nat
    BY PagesParts DEF PanelTypes
  <2> QED
    BY <2>1, <2>2
<1>2. \A m \in Nat : Left(m, pages) => Left(m, pages')
  <2>1. \A k \in 1..Len(pages) : k \in 1..Len(pages')
    BY <1>1
  <2> QED
    BY <1>1, <2>1, LeftStays
<1>4. Evidence'
  BY <1>1, <1>2 DEF Evidence
<1>5. Real'
  <2>1. \A i \in 1..Len(bubbles) : /\ bubbles[i].page \in (baseline + 1)..Len(pages)
                                    /\ pages[bubbles[i].page].kind = bubbles[i].kind
    BY DEF Real
  <2>2. \A i \in 1..Len(bubbles) : /\ bubbles[i].page \in 1..Len(pages)
                                    /\ bubbles[i].page \in (baseline + 1)..Len(pages')
    BY <1>1, <2>1
  <2>3. \A i \in 1..Len(bubbles) : pages'[bubbles[i].page].kind = bubbles[i].kind
    BY <2>1, <2>2
  <2> QED
    BY <2>2, <2>3 DEF Real
<1> QED
  BY <1>4, <1>5

LEMMA PanelInitially == Init => PanelInv
<1> SUFFICES ASSUME Init PROVE PanelInv
  OBVIOUS
<1> USE DEF Init, NoFile, Down
<1>1. PanelTypes
  <2>1. pages \in Seq(Page) /\ outbox \in Seq(1..Len(pages)) /\ bubbles \in Seq(Bubble) /\ Len(pages) = 0
    OBVIOUS
  <2>2. baseline \in 0..Len(pages)
    <3>1. baseline = 0 /\ Len(pages) = 0
      BY <2>1
    <3> HIDE DEF Init
    <3> QED
      BY <3>1
  <2>6. clock \in Nat \ {0}
    OBVIOUS
  <2>7. attached \in BOOLEAN
    BY Zenon
  <2>3. file \in [status : {"ok", "alarm"}, alertedAt : Nat, page : 0..Len(pages)]
    BY <2>1
  <2>4. health \in [messageAt : Nat, error : BOOLEAN]
    OBVIOUS
  <2>5. cached \in [age : {"none", "young"}, answer : Answer]
    <3>1. cached.answer \in Answer
      BY DEF Answer
    <3> QED
      BY <3>1
  <2> QED
    BY <2>1, <2>2, <2>3, <2>4, <2>5, <2>6, <2>7 DEF PanelTypes
<1>2. Evidence /\ Written /\ Unseen /\ Real
  BY DEF Evidence, Written, Unseen, Real
<1> QED
  BY <1>1, <1>2 DEF PanelInv

LEMMA WatchDecidesStep ==
    ASSUME PanelInv, NEW kind \in PageKinds, WatchDecides(kind) PROVE PanelInv'
<1> DEFINE n == Len(pages)
           page == [kind |-> kind, at |-> clock, sentAt |-> 0]
<1>0. PanelTypes /\ Evidence /\ Written /\ Unseen /\ Real
  BY DEF PanelInv
<1>1. /\ n \in Nat /\ page \in Page /\ pages \in Seq(Page)
      /\ \A k \in 1..n : pages[k].sentAt \in Nat /\ pages[k].sentAt <= clock
      /\ clock \in Nat /\ clock # 0 /\ file.page \in 0..n /\ baseline \in 0..n
      /\ page.kind = kind /\ page.sentAt = 0
  BY <1>0, PanelParts DEF PanelTypes, Page, Evidence
<1>2. /\ pages' = Append(pages, page) /\ pages' \in Seq(Page) /\ Len(pages') = n + 1
      /\ \A k \in 1..n : pages'[k] = pages[k]
      /\ pages'[n + 1] = page
  BY <1>1, AppendProperties DEF WatchDecides
<1>4. /\ clock' = clock /\ health' = health /\ outbox' = <<n + 1>>
      /\ UNCHANGED <<cached, bubbles, attached, baseline, observed>>
  BY DEF WatchDecides, panel
<1>5. \/ kind = "other" /\ file' = file
      \/ kind = "alert" /\ file' = [status |-> "alarm", alertedAt |-> clock, page |-> n + 1]
      \/ kind = "recovery" /\ file' = [status |-> "ok", alertedAt |-> 0, page |-> n + 1]
  BY DEF WatchDecides, PageKinds
<1>6. PanelTypes'
  <2>1. outbox' \in Seq(1..Len(pages'))
    BY <1>1, <1>2, <1>4
  <2>2. file' \in [status : {"ok", "alarm"}, alertedAt : Nat, page : 0..Len(pages')]
    BY <1>0, <1>1, <1>2, <1>5 DEF PanelTypes
  <2> QED
    BY <1>0, <1>1, <1>2, <1>4, <2>1, <2>2 DEF PanelTypes
<1>7. \A k \in 1..Len(pages') : pages'[k].sentAt <= clock'
  <2>1. \A k \in 1..(n + 1) : k \in 1..n \/ k = n + 1
    BY <1>1
  <2> QED
    BY <1>1, <1>2, <1>4, <2>1
<1>8. Evidence' /\ Real'
  BY <1>0, <1>1, <1>2, <1>4, <1>6, <1>7, PagesStay
<1>9. Written'
  <2>1. CASE file' = file
    BY <1>0, <1>1, <1>2, <2>1 DEF Written
  <2>2. CASE file' # file
    BY <1>1, <1>2, <1>5, <2>2 DEF Written
  <2> QED
    BY <2>1, <2>2
<1>10. Unseen'
  <2>1. \A i \in 1..Len(bubbles) : bubbles[i].page < n + 1
    BY <1>0, <1>1 DEF Real
  <2>3. file' = file \/ (file'.page = n + 1 /\ n + 1 > baseline)
    BY <1>1, <1>5
  <2> QED
    BY <1>0, <1>4, <2>1, <2>3 DEF Unseen, Adopted
<1> QED
  BY <1>6, <1>8, <1>9, <1>10 DEF PanelInv

LEMMA DeliveredStep == ASSUME PanelInv, Delivered PROVE PanelInv'
<1> DEFINE n == Len(pages)
           h == Head(outbox)
<1>0. PanelTypes /\ Evidence /\ Written /\ Unseen /\ Real
  BY DEF PanelInv
<1>1. /\ n \in Nat /\ clock \in Nat /\ clock # 0 /\ pages \in [1..n -> Page]
      /\ \A k \in 1..n : pages[k].sentAt \in Nat /\ pages[k].sentAt <= clock
      /\ file.page \in 0..n
  BY <1>0, PanelParts, LenProperties DEF PanelTypes, Evidence
<1>2. h \in 1..n /\ Tail(outbox) \in Seq(1..n)
  BY <1>0, HeadTailProperties DEF PanelTypes, Delivered
<1>3. pages' = [pages EXCEPT ![h].sentAt = clock]
  BY DEF Delivered
<1>4. PICK sending : sending = [pages[h] EXCEPT !.sentAt = clock]
  OBVIOUS
<1>5. sending \in Page /\ sending.sentAt = clock /\ sending.kind = pages[h].kind
  BY <1>1, <1>2, <1>4 DEF Page
<1>6. pages' = [pages EXCEPT ![h] = sending]
  BY <1>3, <1>4
<1>7. /\ pages' \in Seq(Page) /\ Len(pages') = n
      /\ \A k \in 1..n : pages'[k] = IF k = h THEN sending ELSE pages[k]
  <2>1. pages' \in [1..n -> Page] /\ \A k \in 1..n : pages'[k] = IF k = h THEN sending ELSE pages[k]
    BY <1>1, <1>2, <1>5, <1>6
  <2> QED
    BY <1>1, <2>1
<1>8. /\ clock' = clock /\ file' = file /\ outbox' = Tail(outbox)
      /\ health' = [messageAt |-> clock, error |-> FALSE]
      /\ UNCHANGED <<cached, bubbles, attached, baseline, observed>>
  BY DEF Delivered, panel
<1>9. PanelTypes'
  BY <1>0, <1>1, <1>2, <1>7, <1>8 DEF PanelTypes
<1>10. \A k \in 1..n : /\ pages'[k].kind = pages[k].kind
                       /\ pages'[k].sentAt >= pages[k].sentAt /\ pages'[k].sentAt <= clock
  BY <1>1, <1>5, <1>7
<1>11. Left(health'.messageAt, pages')
  <2>1. health'.messageAt = clock /\ pages'[h].sentAt = clock
    BY <1>2, <1>5, <1>7, <1>8
  <2> QED
    BY <1>1, <1>2, <1>7, <2>1 DEF Left
<1>12. Evidence' /\ Real'
  BY <1>0, <1>1, <1>7, <1>8, <1>9, <1>10, <1>11, PagesStay
<1>13. Written' /\ Unseen'
  BY <1>0, <1>1, <1>8, <1>10 DEF Written, Unseen, Adopted
<1> QED
  BY <1>9, <1>12, <1>13 DEF PanelInv

\* Steps of the watch loop that send nothing, and the cache's expiry.
LEMMA QuietSteps ==
    ASSUME PanelInv, Elapse \/ NotDelivered \/ LoopDies \/ LoopStarts \/ CacheExpires
    PROVE  PanelInv'
<1>0. PanelTypes /\ Evidence /\ Written /\ Unseen /\ Real
  BY DEF PanelInv
<1>1. UNCHANGED <<file, pages, bubbles, attached, baseline, observed>>
  BY DEF Elapse, NotDelivered, LoopDies, LoopStarts, CacheExpires, panel, watchdog
<1>2. clock' = clock \/ clock' = clock + 1
  BY DEF Elapse, NotDelivered, LoopDies, LoopStarts, CacheExpires, panel, watchdog
<1>3. outbox' \in Seq(1..Len(pages))
  <2>1. outbox' = outbox \/ outbox' = <<>> \/ (outbox # <<>> /\ outbox' = Tail(outbox))
    BY DEF Elapse, NotDelivered, LoopDies, LoopStarts, CacheExpires, panel, watchdog
  <2>2. outbox \in Seq(1..Len(pages))
    BY <1>0 DEF PanelTypes
  <2>3. outbox # <<>> => Tail(outbox) \in Seq(1..Len(pages))
    BY <2>2, HeadTailProperties
  <2>4. <<>> \in Seq(1..Len(pages))
    OBVIOUS
  <2> QED
    BY <2>1, <2>2, <2>3, <2>4
<1>4. /\ health' \in [messageAt : Nat, error : BOOLEAN]
      /\ health'.messageAt = 0 \/ health'.messageAt = health.messageAt
  <2>1. \/ health' = health \/ health' = [health EXCEPT !.error = TRUE]
        \/ health' = [messageAt |-> 0, error |-> FALSE]
    BY DEF Elapse, NotDelivered, LoopDies, LoopStarts, CacheExpires, panel, watchdog
  <2>2. health \in [messageAt : Nat, error : BOOLEAN]
    BY <1>0 DEF PanelTypes
  <2>3. CASE health' = health
    BY <2>2, <2>3
  <2>4. CASE health' = [health EXCEPT !.error = TRUE]
    BY <2>2, <2>4
  <2>5. CASE health' = [messageAt |-> 0, error |-> FALSE]
    BY <2>5
  <2> QED
    BY <2>1, <2>3, <2>4, <2>5
<1>5. /\ cached' \in [age : {"none", "young"}, answer : Answer]
      /\ cached'.answer.messageAt = 0 \/ cached' = cached
  <2>1. cached' = cached \/ cached' = [age |-> "none", answer |-> Down]
    BY DEF Elapse, NotDelivered, LoopDies, LoopStarts, CacheExpires, panel, watchdog
  <2>2. cached \in [age : {"none", "young"}, answer : Answer]
    BY <1>0 DEF PanelTypes
  <2>3. CASE cached' = cached
    BY <2>2, <2>3
  <2>4. CASE cached' = [age |-> "none", answer |-> Down]
    <3>1. Down \in Answer /\ Down.messageAt = 0
      BY DEF Down, Answer
    <3> QED
      BY <2>4, <3>1
  <2> QED
    BY <2>1, <2>3, <2>4
<1>6. PanelTypes'
  BY <1>0, <1>1, <1>2, <1>3, <1>4, <1>5 DEF PanelTypes
<1>7. clock \in Nat /\ (\A k \in 1..Len(pages) : pages[k].sentAt \in Nat)
  BY <1>0, PanelParts
<1>8. Evidence'
  <2>1. \A k \in 1..Len(pages) : pages[k].sentAt <= clock'
    BY <1>0, <1>2, <1>7 DEF Evidence
  <2> QED
    BY <1>0, <1>1, <1>4, <1>5, <2>1 DEF Evidence
<1>9. Written' /\ Unseen' /\ Real'
  BY <1>0, <1>1 DEF Written, Unseen, Adopted, Real
<1> QED
  BY <1>6, <1>8, <1>9 DEF PanelInv

\* A bubble is added for a page of its kind, newer than the thread.
LEMMA PanelReadsStep == ASSUME PanelInv, PanelReads(file) PROVE PanelInv'
<1> DEFINE seen == IF attached THEN observed ELSE Adopted(file)
           n == Len(bubbles)
<1>0. PanelTypes /\ Evidence /\ Written /\ Unseen /\ Real
  BY DEF PanelInv
<1>1. /\ UNCHANGED <<clock, file, pages, outbox, health, cached>>
      /\ bubbles' = bubbles \o NewBubble(file, seen)
      /\ observed' = Adopted(file) /\ attached' = TRUE
      /\ baseline' = IF attached THEN baseline ELSE Len(pages)
  BY DEF PanelReads, watchdog, Adopted
<1>2. /\ n \in Nat /\ Len(pages) \in Nat /\ baseline \in 0..Len(pages) /\ bubbles \in Seq(Bubble)
      /\ file.page \in 0..Len(pages) /\ clock \in Nat /\ file.alertedAt \in Nat
      /\ file.status \in {"ok", "alarm"}
      /\ \A i \in 1..n : bubbles[i].page \in Nat
  BY <1>0, PanelParts DEF PanelTypes
<1>3. attached' \in BOOLEAN /\ baseline' \in 0..Len(pages)
  BY <1>1, <1>2
<1>4. Written' /\ Unseen'
  BY <1>0, <1>1 DEF Written, Unseen, Adopted
<1>5. CASE NewBubble(file, seen) = <<>>
  <2>1. bubbles' = bubbles
    BY <1>1, <1>2, <1>5, ConcatEmptySeq
  <2>2. PanelTypes' /\ Evidence'
    BY <1>0, <1>1, <1>3, <2>1 DEF PanelTypes, Evidence
  <2>3. Real'
    <3>1. CASE attached
      BY <1>0, <1>1, <2>1, <3>1 DEF Real
    <3>2. CASE ~attached
      BY <1>0, <1>1, <2>1, <3>2 DEF Real, Unseen
    <3> QED
      BY <3>1, <3>2
  <2> QED
    BY <1>4, <2>2, <2>3 DEF PanelInv
<1>6. CASE NewBubble(file, seen) # <<>>
  <2>1. PICK kind \in {"alert", "recovery"}, at \in Nat :
          /\ NewBubble(file, seen) = <<[kind |-> kind, page |-> file.page, at |-> at, verdict |-> "sending"]>>
          /\ seen # Adopted(file)
          /\ kind = "alert" => file.alertedAt # 0
          /\ kind = "recovery" => file.status = "ok" /\ seen.status # "ok"
    <3>1. CASE file.alertedAt # 0 /\ file.alertedAt # seen.alertedAt
      <4>1. NewBubble(file, seen) = <<[kind |-> "alert", page |-> file.page, at |-> file.alertedAt, verdict |-> "sending"]>>
        BY <3>1 DEF NewBubble
      <4>2. seen # Adopted(file)
        BY <3>1 DEF Adopted
      <4> QED
        BY <1>2, <3>1, <4>1, <4>2
    <3>2. CASE ~(file.alertedAt # 0 /\ file.alertedAt # seen.alertedAt)
      <4>1. seen.status # "ok" /\ file.status = "ok"
        BY <1>6, <3>2 DEF NewBubble
      <4>2. NewBubble(file, seen) = <<[kind |-> "recovery", page |-> file.page, at |-> clock, verdict |-> "sending"]>>
        BY <3>2, <4>1 DEF NewBubble
      <4>3. seen # Adopted(file)
        BY <4>1 DEF Adopted
      <4> QED
        BY <1>2, <4>1, <4>2, <4>3
    <3> QED
      BY <3>1, <3>2
  <2>2. PICK new : new = [kind |-> kind, page |-> file.page, at |-> at, verdict |-> "sending"]
    OBVIOUS
  <2>3. /\ attached /\ observed # Adopted(file)
        /\ file.page > baseline /\ \A i \in 1..n : bubbles[i].page < file.page
    BY <1>0, <2>1 DEF Unseen
  <2>4. pages[file.page].kind = kind
    BY <1>0, <1>2, <2>1, <2>3 DEF Written
  <2>5. new \in Bubble /\ new.page = file.page /\ new.kind = kind /\ new.verdict = "sending"
    BY <1>2, <2>1, <2>2 DEF Bubble, Verdicts
  <2>6. /\ bubbles' \in Seq(Bubble) /\ Len(bubbles') = n + 1
        /\ \A i \in 1..n : bubbles'[i] = bubbles[i]
        /\ bubbles'[n + 1] = new
    <3>1. bubbles' = Append(bubbles, new)
      BY <1>1, <1>2, <2>1, <2>2, <2>5, AppendIsConcat
    <3> QED
      BY <1>2, <2>5, <3>1, AppendProperties
  <2>7. \A i \in 1..(n + 1) : i \in 1..n \/ i = n + 1
    BY <1>2
  <2>8. PanelTypes'
    BY <1>0, <1>1, <1>3, <2>6 DEF PanelTypes
  <2>9. Evidence'
    <3>1. \A i \in 1..(n + 1) : bubbles'[i].verdict = "delivered" => Left(bubbles'[i].at, pages)
      BY <1>0, <2>5, <2>6, <2>7 DEF Evidence
    <3> QED
      BY <1>0, <1>1, <2>6, <3>1 DEF Evidence
  <2>10. baseline' = baseline
    BY <1>1, <2>3
  <2>11. \A i \in 1..(n + 1) : /\ bubbles'[i].page \in (baseline + 1)..Len(pages)
                               /\ pages[bubbles'[i].page].kind = bubbles'[i].kind
    <3>1. file.page \in (baseline + 1)..Len(pages)
      BY <1>2, <2>3
    <3> QED
      BY <1>0, <2>4, <2>5, <2>6, <2>7, <3>1 DEF Real
  <2>12. \A i, j \in 1..(n + 1) : i < j => bubbles'[i].page < bubbles'[j].page
    <3>1. SUFFICES ASSUME NEW i \in 1..(n + 1), NEW j \in 1..(n + 1), i < j
                   PROVE  bubbles'[i].page < bubbles'[j].page
      OBVIOUS
    <3>2. i \in 1..n
      BY <1>2, <3>1
    <3> QED
      BY <1>0, <2>3, <2>5, <2>6, <2>7, <3>1, <3>2 DEF Real
  <2>13. Real'
    BY <1>1, <2>6, <2>10, <2>11, <2>12 DEF Real
  <2> QED
    BY <1>4, <2>8, <2>9, <2>13 DEF PanelInv
<1> QED
  BY <1>5, <1>6

\* A bubble is confirmed by what the health record says was sent.
LEMMA PanelConfirmsStep == ASSUME PanelInv, PanelConfirms PROVE PanelInv'
<1> DEFINE n == Len(bubbles)
<1>0. PanelTypes /\ Evidence /\ Written /\ Unseen /\ Real
  BY DEF PanelInv
<1>1. UNCHANGED <<clock, up, file, pages, outbox, health, attached, baseline, observed>>
  BY DEF PanelConfirms, watchdog
<1>2. PICK runner :
        /\ runner = IF cached.age = "young" THEN cached.answer ELSE Probe
        /\ cached' = [age |-> "young", answer |-> runner]
        /\ bubbles' = [i \in DOMAIN bubbles |->
               IF bubbles[i].verdict \in Settled THEN bubbles[i]
               ELSE [bubbles[i] EXCEPT !.verdict = Verdict(bubbles[i], runner)]]
  BY DEF PanelConfirms
<1>3. /\ n \in Nat /\ DOMAIN bubbles = 1..n
      /\ \A i \in 1..n : bubbles[i] \in Bubble /\ bubbles[i].at \in Nat
  BY <1>0, PanelParts, LenProperties DEF PanelTypes
<1>4. cached' \in [age : {"none", "young"}, answer : Answer]
  <2>1. runner \in Answer \/ runner = [up |-> up, messageAt |-> health.messageAt, error |-> health.error]
    BY <1>0, <1>2 DEF PanelTypes, Probe, Down, Answer
  <2>2. CASE runner \in Answer
    BY <1>2, <2>2
  <2>3. CASE runner \notin Answer
    <3>1. ~(cached.age = "young") /\ up /\ runner = [up |-> TRUE, messageAt |-> health.messageAt, error |-> health.error]
      BY <1>0, <1>2, <2>3 DEF PanelTypes, Probe, Down, Answer
    <3> QED
      BY <1>0, <2>3, <3>1 DEF PanelTypes, Answer
  <2> QED
    BY <2>2, <2>3
<1>5. runner.messageAt \in Nat /\ (runner.messageAt # 0 => Left(runner.messageAt, pages))
  BY <1>0, <1>2 DEF PanelTypes, Evidence, Probe, Down, Answer
<1>6. \A b \in Bubble : Verdict(b, runner) \in Verdicts
  BY DEF Verdict, Verdicts
<1>7. \A b \in Bubble, v \in Verdicts : /\ [b EXCEPT !.verdict = v] \in Bubble
                                        /\ [b EXCEPT !.verdict = v].page = b.page
                                        /\ [b EXCEPT !.verdict = v].at = b.at
                                        /\ [b EXCEPT !.verdict = v].kind = b.kind
                                        /\ [b EXCEPT !.verdict = v].verdict = v
  BY DEF Bubble
<1>8. \A i \in 1..n : /\ bubbles'[i] \in Bubble
                      /\ bubbles'[i].page = bubbles[i].page /\ bubbles'[i].at = bubbles[i].at
                      /\ bubbles'[i].kind = bubbles[i].kind
                      /\ \/ bubbles'[i].verdict = bubbles[i].verdict
                         \/ bubbles'[i].verdict = Verdict(bubbles[i], runner)
  <2>1. SUFFICES ASSUME NEW i \in 1..n
                 PROVE  /\ bubbles'[i] \in Bubble
                        /\ bubbles'[i].page = bubbles[i].page /\ bubbles'[i].at = bubbles[i].at
                        /\ bubbles'[i].kind = bubbles[i].kind
                        /\ \/ bubbles'[i].verdict = bubbles[i].verdict
                           \/ bubbles'[i].verdict = Verdict(bubbles[i], runner)
    OBVIOUS
  <2>2. \/ bubbles'[i] = bubbles[i]
        \/ bubbles'[i] = [bubbles[i] EXCEPT !.verdict = Verdict(bubbles[i], runner)]
    BY <1>2, <1>3
  <2>3. bubbles[i] \in Bubble /\ Verdict(bubbles[i], runner) \in Verdicts
    BY <1>3, <1>6
  <2>4. CASE bubbles'[i] = bubbles[i]
    BY <2>3, <2>4
  <2>5. CASE bubbles'[i] = [bubbles[i] EXCEPT !.verdict = Verdict(bubbles[i], runner)]
    BY <1>7, <2>3, <2>5
  <2> QED
    BY <2>2, <2>4, <2>5
<1>9. bubbles' \in Seq(Bubble) /\ Len(bubbles') = n
  <2>1. bubbles' \in [1..n -> Bubble]
    BY <1>2, <1>3, <1>8
  <2> QED
    BY <1>3, <2>1
<1>10. PanelTypes'
  BY <1>0, <1>1, <1>4, <1>9 DEF PanelTypes
<1>11. Evidence'
  <2>1. \A i \in 1..n : bubbles'[i].verdict = "delivered" => Left(bubbles'[i].at, pages)
    <3>1. SUFFICES ASSUME NEW i \in 1..n, bubbles'[i].verdict = "delivered"
                   PROVE  Left(bubbles[i].at, pages)
      BY <1>8
    <3>2. CASE bubbles'[i].verdict = bubbles[i].verdict
      BY <1>0, <3>1, <3>2 DEF Evidence
    <3>3. CASE bubbles'[i].verdict = Verdict(bubbles[i], runner)
      <4>1. runner.messageAt # 0 /\ runner.messageAt >= bubbles[i].at
        BY <3>1, <3>3 DEF Verdict, Confirms
      <4>2. \A k \in 1..Len(pages) : pages[k].sentAt \in Nat
        BY <1>0, PanelParts
      <4> QED
        BY <1>3, <1>5, <4>1, <4>2 DEF Left
    <3> QED
      BY <1>8, <3>2, <3>3
  <2>2. cached'.answer.messageAt = runner.messageAt
    BY <1>2
  <2> QED
    BY <1>0, <1>1, <1>5, <1>9, <2>1, <2>2 DEF Evidence
<1>12. Written' /\ Unseen' /\ Real'
  <2>1. bubbles = <<>> => bubbles' = <<>>
    BY <1>9, EmptySeq
  <2> QED
    BY <1>0, <1>1, <1>8, <1>9, <2>1 DEF Written, Unseen, Adopted, Real
<1> QED
  BY <1>10, <1>11, <1>12 DEF PanelInv

LEMMA PanelStep == ASSUME "unreadable" \notin Faults, PanelInv, [Next]_vars PROVE PanelInv'
<1>1. CASE UNCHANGED vars
  BY <1>1 DEF PanelInv, PanelTypes, Evidence, Written, Unseen, Adopted, Real, vars, watchdog, panel
<1>2. ASSUME NEW kind \in PageKinds, WatchDecides(kind) PROVE PanelInv'
  BY <1>2, WatchDecidesStep
<1>3. ASSUME NEW f \in FileReads, PanelReads(f) PROVE PanelInv'
  BY <1>3, PanelReadsStep DEF FileReads
<1> QED
  BY <1>1, <1>2, <1>3, DeliveredStep, QuietSteps, PanelConfirmsStep DEF Next

LEMMA PanelIsSound == PanelInv => PanelIsTrue
<1> SUFFICES ASSUME PanelInv PROVE PanelIsTrue
  OBVIOUS
<1>0. Evidence /\ Real /\ Len(pages) \in Nat /\ Len(bubbles) \in Nat /\ baseline \in Nat
      /\ DOMAIN bubbles = 1..Len(bubbles) /\ DOMAIN pages = 1..Len(pages)
  BY PanelParts, LenProperties DEF PanelInv, PanelTypes
<1>1. \A b \in Range(bubbles) : \E i \in 1..Len(bubbles) : b = bubbles[i]
  BY <1>0 DEF Range
<1>2. \A k \in 1..Len(pages) : pages[k] \in Range(pages)
  BY <1>0 DEF Range
<1>3. DeliveredHasEvidence
  BY <1>0, <1>1, <1>2 DEF DeliveredHasEvidence, Posted, Evidence, Left
<1>4. NoInventedPage
  BY <1>0, <1>1 DEF NoInventedPage, Posted, Real
<1> QED
  BY <1>3, <1>4 DEF PanelIsTrue

-----------------------------------------------------------------------------
(* The transcript, step by step.                                            *)

LEMMA SelectedRows ==
    ASSUME TailTypes, NEW lo \in Nat
    PROVE  /\ Bridge!Selected(lo) \in SUBSET Nat /\ IsFiniteSet(Bridge!Selected(lo))
           /\ \A i : i \in Bridge!Selected(lo) <=> i \in (lo + 1)..Len(log) /\ log[i] # "other"
<1>1. Len(log) \in Nat
  BY LenProperties DEF TailTypes
<1>2. /\ (lo + 1)..Len(log) \in SUBSET Nat
      /\ Bridge!Selected(lo) \in SUBSET ((lo + 1)..Len(log))
  BY <1>1 DEF Bridge!Selected
<1>3. IsFiniteSet((lo + 1)..Len(log))
  BY <1>1, FS_Interval
<1> QED
  BY <1>2, <1>3, FS_Subset DEF Bridge!Selected

\* The next drain starts behind the rows of this one if there may be more of them,
\* else where the transcript ended when the drain began.
LEMMA ResumeProperties ==
    ASSUME TailTypes, NEW rows, rows = Bridge!Smallest(Batch, Bridge!Selected(lastId))
    PROVE  /\ Bridge!Resume(rows) \in 0..Len(log)
           /\ \A i \in Bridge!Selected(lastId) : i <= Bridge!Resume(rows) => i \in rows
<1> DEFINE S == Bridge!Selected(lastId)
<1>1. /\ lastId \in Nat /\ Len(log) \in Nat /\ Batch \in Nat /\ Batch > 0
      /\ head \in 0..Len(log) /\ lastId \in 0..Len(log)
  BY ThreadAssumption, LenProperties DEF TailTypes
<1>2. /\ S \in SUBSET Nat /\ IsFiniteSet(S) /\ \A i \in S : i \in Nat /\ i <= Len(log)
      /\ rows \in SUBSET S /\ IsFiniteSet(rows) /\ Cardinality(rows) \in Nat
      /\ Cardinality(rows) < Batch => rows = S
      /\ \A i \in S, j \in rows : i <= j => i \in rows
  <2>1. S \in SUBSET Nat /\ IsFiniteSet(S) /\ \A i \in S : i \in (lastId + 1)..Len(log)
    BY <1>1, SelectedRows
  <2>2. \A i \in S : i \in Nat /\ i <= Len(log)
    BY <1>1, <2>1
  <2> HIDE DEF S
  <2>3. /\ rows = Bridge!Smallest(Batch, S)
    BY DEF S
  <2>4. /\ rows \in SUBSET S /\ IsFiniteSet(rows) /\ Cardinality(rows) \in Nat
        /\ Cardinality(rows) < Batch => rows = S
        /\ \A i \in S, j \in rows : i <= j => i \in rows
    BY <1>1, <2>1, <2>3, SmallestProperties
  <2> QED
    BY <2>1, <2>2, <2>4
<1>3. CASE Cardinality(rows) >= Batch
  <2> DEFINE last == InOrder(rows)[Cardinality(rows)]
  <2>1. last \in rows /\ \A i \in rows : last >= i
    <3>1. Cardinality(rows) \in 1..Cardinality(rows) /\ rows \in SUBSET Nat
      BY <1>1, <1>2, <1>3
    <3>2. last \in rows
      BY <1>2, <3>1, InOrderProperties, ElementOfSeq
    <3>3. ASSUME NEW i \in rows PROVE last >= i
      <4>1. PICK k \in 1..Cardinality(rows) : InOrder(rows)[k] = i
        BY <1>2, <3>1, InOrderProperties
      <4>2. CASE k = Cardinality(rows)
        BY <3>1, <3>3, <4>1, <4>2
      <4>3. CASE k < Cardinality(rows)
        <5>1. InOrder(rows)[k] < InOrder(rows)[Cardinality(rows)]
          BY <1>2, <3>1, <4>3, InOrderProperties
        <5>2. last \in Nat /\ i \in Nat
          BY <3>1, <3>2, <3>3
        <5> QED
          BY <4>1, <5>1, <5>2
      <4> QED
        BY <1>2, <4>2, <4>3
    <3> QED
      BY <3>2, <3>3
  <2>2. Bridge!Max(rows) \in rows /\ \A i \in rows : Bridge!Max(rows) >= i
    <3> HIDE DEF last
    <3> QED
      BY <2>1 DEF Bridge!Max
  <2>3. Bridge!Resume(rows) = Bridge!Max(rows)
    BY <1>3, SameOperators DEF Bridge!Resume
  <2> QED
    BY <1>1, <1>2, <2>2, <2>3
<1>4. CASE ~(Cardinality(rows) >= Batch)
  <2>1. rows = S
    BY <1>1, <1>2, <1>4
  <2>2. Bridge!Resume(rows) = IF lastId > head THEN lastId ELSE head
    BY <1>4, SameOperators DEF Bridge!Resume
  <2> QED
    BY <1>1, <2>1, <2>2
<1> QED
  BY <1>3, <1>4

LEMMA TailInitially == Bridge!Init => TailInv
<1> SUFFICES ASSUME Bridge!Init PROVE TailInv
  OBVIOUS
<1>1. log \in Seq(Bridge!Kinds) /\ Len(log) \in Nat
  <2>1. History \in Nat
    BY ThreadAssumption
  <2>2. PICK n \in 0..History : log \in [1..n -> Bridge!Kinds]
    BY DEF Bridge!Init
  <2> QED
    BY <2>1, <2>2
<1>2. TailTypes
  <2>1. head = 0 /\ lastId = 0 /\ start = 0
    BY DEF Bridge!Init
  <2>2. head \in 0..Len(log) /\ lastId \in 0..Len(log) /\ start \in 0..Len(log)
    BY <1>1, <2>1
  <2>3. tailing \in BOOLEAN
    BY Zenon DEF Bridge!Init
  <2> QED
    BY <1>1, <2>2, <2>3 DEF TailTypes
<1>3. Bridge!NothingSkipped
  BY <1>1 DEF Bridge!Init, Bridge!NothingSkipped, Bridge!Usable
<1> QED
  BY <1>2, <1>3 DEF TailInv, Bridge!Init

LEMMA ReadBackfillStep ==
    ASSUME shown \in Seq(Nat), TailInv, Bridge!ReadBackfill
    PROVE  shown' \in Seq(Nat) /\ TailInv'
<1>1. TailTypes /\ Len(log) \in Nat /\ head = start /\ head \in Nat
  BY LenProperties DEF TailInv, TailTypes, Bridge!ReadBackfill
<1>2. PICK rows : /\ rows \in SUBSET Bridge!Selected(0)
                  /\ shown' = shown \o Bridge!OldestFirst(rows)
  BY DEF Bridge!ReadBackfill, Bridge!Largest, Bridge!Usable
<1>3. rows \in SUBSET Nat /\ IsFiniteSet(rows)
  BY <1>1, <1>2, SelectedRows, FS_Subset
<1>4. shown' = shown \o InOrder(rows)
  BY <1>2, SameOperators DEF Bridge!OldestFirst
<1>5. shown' \in Seq(Nat)
  BY <1>3, <1>4, AddedInOrder
<1>6. /\ UNCHANGED <<log, head, tailing, start>> /\ lastId' = head /\ drain' = "idle"
  BY DEF Bridge!ReadBackfill
<1>7. TailTypes'
  BY <1>1, <1>6 DEF TailTypes
<1>8. (start' + 1)..lastId' = {}
  BY <1>1, <1>6
<1>9. (Bridge!NothingSkipped)'
  BY <1>8 DEF Bridge!NothingSkipped, Bridge!Usable
<1> QED
  BY <1>5, <1>6, <1>7, <1>9 DEF TailInv

LEMMA ReadSinceStep ==
    ASSUME shown \in Seq(Nat), TailInv, Bridge!ReadSince
    PROVE  shown' \in Seq(Nat) /\ TailInv'
<1>1. /\ TailTypes /\ Bridge!NothingSkipped /\ Len(log) \in Nat /\ start \in Nat /\ lastId \in Nat
  BY LenProperties DEF TailInv, TailTypes
<1>2. PICK rows : /\ rows = Bridge!Smallest(Batch, Bridge!Selected(lastId))
                  /\ shown' = shown \o Bridge!OldestFirst(Bridge!Usable(rows))
                  /\ lastId' = Bridge!Resume(rows)
  BY DEF Bridge!ReadSince
<1>3. /\ UNCHANGED <<log, head, tailing, start>> /\ drain' = "idle"
  BY DEF Bridge!ReadSince
<1>4. PICK new : new = Bridge!Usable(rows)
  OBVIOUS
<1>5. new \in SUBSET Nat /\ IsFiniteSet(new) /\ \A i : i \in new <=> i \in rows /\ log[i] = "bubble"
  <2>1. rows \in SUBSET Bridge!Selected(lastId)
    BY <1>2 DEF Bridge!Smallest
  <2>2. new \in SUBSET Bridge!Selected(lastId) /\ \A i : i \in new <=> i \in rows /\ log[i] = "bubble"
    BY <1>4, <2>1 DEF Bridge!Usable
  <2> QED
    BY <1>1, <2>2, SelectedRows, FS_Subset
<1>6. shown' = shown \o InOrder(new)
  BY <1>2, <1>4, SameOperators DEF Bridge!OldestFirst
<1>7. shown' \in Seq(Nat) /\ \A i : In(i, shown') <=> In(i, shown) \/ i \in new
  <2>1. PICK s : s = shown
    OBVIOUS
  <2>2. PICK t : t = s \o InOrder(new)
    OBVIOUS
  <2>3. s \in Seq(Nat) /\ new \in SUBSET Nat /\ IsFiniteSet(new)
    BY <1>5, <2>1
  <2>4. t \in Seq(Nat) /\ \A i : In(i, t) <=> In(i, s) \/ i \in new
    BY <2>2, <2>3, AddedInOrder
  <2> QED
    BY <1>6, <2>1, <2>2, <2>4
<1>8. /\ Bridge!Resume(rows) \in 0..Len(log)
      /\ \A i \in Bridge!Selected(lastId) : i <= Bridge!Resume(rows) => i \in rows
  BY <1>1, <1>2, ResumeProperties
<1>9. TailTypes'
  BY <1>1, <1>2, <1>3, <1>8 DEF TailTypes
<1>10. \A i \in (start + 1)..lastId' : log[i] = "bubble" => In(i, shown')
  <2>1. SUFFICES ASSUME NEW i \in (start + 1)..lastId', log[i] = "bubble" PROVE In(i, shown')
    OBVIOUS
  <2>2. i \in Nat /\ i <= Len(log) /\ i <= Bridge!Resume(rows)
    BY <1>1, <1>2, <1>8
  <2>3. CASE i <= lastId
    <3>1. i \in Bridge!Usable((start + 1)..lastId)
      BY <1>1, <2>1, <2>2, <2>3 DEF Bridge!Usable
    <3>2. In(i, shown)
      BY <1>1, <3>1, RangeIsIn DEF Bridge!NothingSkipped
    <3> QED
      BY <1>7, <3>2
  <2>4. CASE i > lastId
    <3>1. i \in Bridge!Selected(lastId)
      <4>1. i \in (lastId + 1)..Len(log) /\ log[i] # "other"
        BY <1>1, <2>1, <2>2, <2>4
      <4> QED
        BY <1>1, <4>1, SelectedRows
    <3>2. i \in new
      BY <1>5, <1>8, <2>1, <2>2, <3>1
    <3> QED
      BY <1>7, <3>2
  <2> QED
    BY <1>1, <2>2, <2>3, <2>4
<1>11. (Bridge!NothingSkipped)'
  <2>1. \A i : i \in Bridge!Range(shown') <=> In(i, shown')
    BY <1>7, RangeIsIn
  <2> QED
    BY <1>3, <1>10, <2>1 DEF Bridge!NothingSkipped, Bridge!Usable
<1> QED
  BY <1>3, <1>7, <1>9, <1>11 DEF TailInv

LEMMA TailStep ==
    ASSUME shown \in Seq(Nat), TailInv, Bridge!Next
    PROVE  shown' \in Seq(Nat) /\ TailInv'
<1>1. TailTypes /\ Bridge!NothingSkipped /\ Len(log) \in Nat /\ (drain = "backfill" => head = start)
  BY LenProperties DEF TailInv, TailTypes
<1>2. ASSUME NEW kind \in Bridge!Kinds, Bridge!TranscriptGrows(kind) PROVE shown' \in Seq(Nat) /\ TailInv'
  <2>1. /\ log' \in Seq(Bridge!Kinds) /\ Len(log') = Len(log) + 1
        /\ \A i \in 1..Len(log) : log'[i] = log[i]
    <3>1. log \in Seq(Bridge!Kinds)
      BY <1>1 DEF TailTypes
    <3>2. log' = Append(log, kind)
      BY <1>2, <3>1, AppendIsConcat DEF Bridge!TranscriptGrows
    <3> QED
      BY <1>2, <3>1, <3>2, AppendProperties
  <2>2. UNCHANGED <<drain, head, lastId, tailing, shown, start>>
    BY <1>2 DEF Bridge!TranscriptGrows
  <2>3. TailTypes'
    BY <1>1, <2>1, <2>2 DEF TailTypes
  <2>4. \A i \in (start + 1)..lastId : i \in 1..Len(log)
    BY <1>1 DEF TailTypes
  <2>5. (Bridge!NothingSkipped)'
    BY <1>1, <2>1, <2>2, <2>4 DEF Bridge!NothingSkipped, Bridge!Usable
  <2> QED
    BY <1>1, <2>2, <2>3, <2>5 DEF TailInv
<1>3. CASE Bridge!ReadHead
  <2>1. UNCHANGED <<log, lastId, shown>> /\ head' = Len(log)
    BY <1>3 DEF Bridge!ReadHead
  <2>2. CASE tailing
    <3>1. start' = start /\ drain' = "since" /\ tailing' = TRUE
      BY <1>3, <2>2 DEF Bridge!ReadHead
    <3>2. TailTypes'
      BY <1>1, <2>1, <3>1 DEF TailTypes
    <3> QED
      BY <1>1, <2>1, <3>1, <3>2 DEF TailInv, Bridge!NothingSkipped, Bridge!Usable
  <2>3. CASE ~tailing
    <3>1. start' = Len(log) /\ tailing' = TRUE
      BY <1>3, <2>3 DEF Bridge!ReadHead
    <3>2. TailTypes'
      BY <1>1, <2>1, <3>1 DEF TailTypes
    <3>3. (start' + 1)..lastId' = {}
      BY <1>1, <2>1, <3>1 DEF TailTypes
    <3> QED
      BY <1>1, <2>1, <3>1, <3>2, <3>3 DEF TailInv, Bridge!NothingSkipped, Bridge!Usable
  <2> QED
    BY <2>2, <2>3
<1>4. CASE Bridge!OpenFails \/ Bridge!HeadBusy \/ Bridge!RowsBusy
  <2>1. UNCHANGED <<log, head, lastId, tailing, shown, start>> /\ drain' = "idle"
    BY <1>4 DEF Bridge!OpenFails, Bridge!HeadBusy, Bridge!RowsBusy
  <2> QED
    BY <1>1, <2>1 DEF TailInv, TailTypes, Bridge!NothingSkipped, Bridge!Usable
<1> QED
  BY <1>2, <1>3, <1>4, ReadBackfillStep, ReadSinceStep DEF Bridge!Next

-----------------------------------------------------------------------------
(* The poller, step by step.                                                *)

LEMMA PollInitially == Poll!Init => PollInv
<1> SUFFICES ASSUME Poll!Init PROVE PollInv
  OBVIOUS
<1>1. sent \in Seq(BOOLEAN) /\ Len(sent) \in Nat /\ forgotten \in 0..Len(sent)
  <2>1. Backlog \in Nat
    BY ThreadAssumption
  <2>2. PICK n \in 0..Backlog : sent \in [1..n -> BOOLEAN]
    BY DEF Poll!Init
  <2> QED
    BY <2>1, <2>2 DEF Poll!Init
<1>2. offset = 0 /\ start = 0 /\ poller = "off" /\ shown = <<>>
  BY DEF Poll!Init
<1>3. PollTypes
  BY <1>1, <1>2 DEF PollTypes
<1>4. Pending
  BY <1>2 DEF Pending, Started
<1>5. Poll!EachUpdateOnce
  BY <1>2 DEF Poll!EachUpdateOnce, Poll!Range
<1> QED
  BY <1>3, <1>4, <1>5 DEF PollInv

LEMMA PollParts ==
    ASSUME PollTypes
    PROVE  /\ Len(sent) \in Nat /\ forgotten \in Nat /\ offset \in Nat /\ start \in Nat
           /\ forgotten <= Len(sent) /\ offset <= Len(sent) + 1 /\ start <= Len(sent)
BY LenProperties DEF PollTypes

\* Steps of Telegram and of the gateway.
LEMMA OutsideSteps ==
    ASSUME shown \in Seq(Nat), PollInv, Poll!Send \/ Poll!GatewayComes \/ Poll!GatewayTakes
    PROVE  shown' \in Seq(Nat) /\ PollInv'
<1>1. /\ PollTypes /\ Pending /\ Poll!EachUpdateOnce
      /\ Len(sent) \in Nat /\ forgotten \in Nat /\ offset \in Nat /\ start \in Nat
      /\ forgotten <= Len(sent) /\ offset <= Len(sent) + 1 /\ start <= Len(sent)
  BY PollParts DEF PollInv
<1>2. UNCHANGED <<poller, offset, answer, shown, start>>
  BY DEF Poll!Send, Poll!GatewayComes, Poll!GatewayTakes, Poll!poll
<1>3. CASE Poll!Send
  <2>1. UNCHANGED <<forgotten, taken>>
    BY <1>3 DEF Poll!Send
  <2>2. /\ sent' \in Seq(BOOLEAN) /\ Len(sent') = Len(sent) + 1
        /\ \A i \in 1..Len(sent) : sent'[i] = sent[i]
    <3>1. PICK wanted \in BOOLEAN : sent' = Append(sent, wanted)
      BY <1>3 DEF Poll!Send
    <3> QED
      BY <1>1, <3>1, AppendProperties DEF PollTypes
  <2>3. PollTypes'
    BY <1>1, <1>2, <2>1, <2>2 DEF PollTypes
  <2>4. Pending'
    <3>1. ASSUME poller = "answering" PROVE answer.from \in 0..forgotten /\ answer.to \in answer.from..(Len(sent) + 1)
      <4>1. answer.from \in 0..forgotten /\ answer.to \in answer.from..Len(sent)
        BY <1>1, <3>1 DEF Pending
      <4> QED
        BY <1>1, <4>1
    <3> QED
      BY <1>1, <1>2, <2>1, <2>2, <3>1 DEF Pending, Started
  <2>5. \A i \in (start + 1)..(offset - 1) : i \in 1..Len(sent)
    BY <1>1
  <2>6. (Poll!EachUpdateOnce)'
    BY <1>1, <1>2, <2>1, <2>2, <2>5 DEF Poll!EachUpdateOnce, Poll!Wanted
  <2> QED
    BY <1>2, <2>3, <2>4, <2>6 DEF PollInv
<1>4. CASE Poll!GatewayComes
  <2>1. UNCHANGED <<sent, forgotten, taken>>
    BY <1>4 DEF Poll!GatewayComes
  <2> QED
    BY <1>1, <1>2, <2>1 DEF PollInv, PollTypes, Pending, Started, Poll!EachUpdateOnce, Poll!Wanted
<1>5. CASE Poll!GatewayTakes
  <2>1. /\ sent' = sent /\ forgotten' = Len(sent) /\ forgotten < Len(sent)
        /\ taken' = taken \cup (forgotten + 1)..Len(sent)
    BY <1>5 DEF Poll!GatewayTakes
  <2>2. PollTypes'
    BY <1>1, <1>2, <2>1 DEF PollTypes
  <2>3. ASSUME Started, NEW i \in (start + 1)..Len(sent), i >= offset PROVE i \in taken'
    BY <1>1, <2>1, <2>3 DEF Pending
  <2>4. ASSUME poller = "answering" PROVE answer.from \in 0..Len(sent)
    BY <1>1, <2>4 DEF Pending
  <2>5. Pending'
    BY <1>1, <1>2, <2>1, <2>3, <2>4 DEF Pending, Started
  <2>6. (Poll!EachUpdateOnce)'
    BY <1>1, <1>2, <2>1 DEF Poll!EachUpdateOnce, Poll!Wanted
  <2> QED
    BY <1>2, <2>2, <2>5, <2>6 DEF PollInv
<1> QED
  BY <1>3, <1>4, <1>5

\* Steps of the poller that show nothing.
LEMMA PollerSteps ==
    ASSUME shown \in Seq(Nat), PollInv,
           Poll!Begin \/ Poll!Prime \/ Poll!PrimeFails \/ Poll!Conflict \/ Poll!Fails \/ Poll!Retry
    PROVE  shown' \in Seq(Nat) /\ PollInv'
<1>1. /\ PollTypes /\ Pending /\ Poll!EachUpdateOnce
      /\ Len(sent) \in Nat /\ forgotten \in Nat /\ offset \in Nat /\ start \in Nat
      /\ forgotten <= Len(sent) /\ offset <= Len(sent) + 1 /\ start <= Len(sent)
  BY PollParts DEF PollInv
<1>2. UNCHANGED <<sent, forgotten, taken, shown>>
  BY DEF Poll!Begin, Poll!Prime, Poll!PrimeFails, Poll!Conflict, Poll!Fails, Poll!Retry
<1>3. CASE Poll!Begin \/ Poll!Conflict \/ Poll!Fails \/ Poll!Retry
  <2>1. UNCHANGED <<offset, start>>
    BY <1>3 DEF Poll!Begin, Poll!Conflict, Poll!Fails, Poll!Retry
  <2>2. \/ poller = "off" /\ poller' = "priming"
        \/ poller' = "stopped"
        \/ poller \in {"polling", "answering"} /\ poller' = "waiting"
        \/ poller = "waiting" /\ poller' = "polling"
    BY <1>3 DEF Poll!Begin, Poll!Conflict, Poll!Fails, Poll!Retry, Poll!AfterError
  <2>3. PollTypes'
    BY <1>1, <1>2, <2>1, <2>2 DEF PollTypes
  <2>4. Pending'
    BY <1>1, <1>2, <2>1, <2>2 DEF Pending, Started
  <2> QED
    BY <1>1, <1>2, <2>1, <2>3, <2>4 DEF PollInv, Poll!EachUpdateOnce, Poll!Wanted
<1>4. CASE Poll!Prime \/ Poll!PrimeFails
  <2>1. /\ poller = "priming" /\ poller' = "polling" /\ offset = 0 /\ shown = <<>>
        /\ \/ offset' = 0 /\ start' = forgotten
           \/ offset' = Len(sent) + 1 /\ start' = Len(sent)
    <3>1. poller = "priming" /\ poller' = "polling" /\ offset = 0 /\ shown = <<>>
      BY <1>1, <1>4 DEF Poll!Prime, Poll!PrimeFails, Pending
    <3>2. CASE Poll!Prime
      BY <1>1, <3>1, <3>2 DEF Poll!Prime, Poll!OffsetAfter
    <3>3. CASE Poll!PrimeFails
      BY <3>1, <3>3 DEF Poll!PrimeFails
    <3> QED
      BY <1>4, <3>1, <3>2, <3>3
  <2>2. PollTypes'
    BY <1>1, <1>2, <2>1 DEF PollTypes
  <2>3. Pending'
    BY <1>1, <1>2, <2>1 DEF Pending, Started
  <2>4. (start' + 1)..(offset' - 1) = {}
    BY <1>1, <2>1
  <2>5. (Poll!EachUpdateOnce)'
    BY <1>2, <2>1, <2>4 DEF Poll!EachUpdateOnce, Poll!Range
  <2> QED
    BY <1>2, <2>2, <2>3, <2>5 DEF PollInv
<1> QED
  BY <1>3, <1>4

LEMMA ServedStep ==
    ASSUME shown \in Seq(Nat), PollInv, Poll!Served
    PROVE  shown' \in Seq(Nat) /\ PollInv'
<1>1. /\ PollTypes /\ Pending /\ Poll!EachUpdateOnce
      /\ Len(sent) \in Nat /\ forgotten \in Nat /\ offset \in Nat /\ start \in Nat
      /\ forgotten <= Len(sent) /\ offset <= Len(sent) + 1 /\ start <= Len(sent)
  BY PollParts DEF PollInv
<1>2. /\ poller = "polling" /\ UNCHANGED <<sent, taken, offset, shown, start>>
      /\ poller' \in {"answering", "polling"}
      /\ answer' = [from |-> forgotten', to |-> Len(sent)]
  BY DEF Poll!Served
<1>3. forgotten' = IF offset - 1 > forgotten THEN offset - 1 ELSE forgotten
  BY DEF Poll!Served, Poll!Acknowledged
<1>4. /\ forgotten' \in 0..Len(sent) /\ offset <= forgotten' + 1 /\ forgotten' >= forgotten
      /\ forgotten' = forgotten \/ forgotten' < offset
  BY <1>1, <1>3
<1>5. PollTypes'
  BY <1>1, <1>2, <1>4 DEF PollTypes
<1>6. Started /\ (start < offset \/ start <= forgotten) /\ start <= forgotten'
  <2>1. Started /\ (start < offset \/ start <= forgotten)
    BY <1>1, <1>2 DEF Started, Pending
  <2>2. PICK f : f = forgotten'
    OBVIOUS
  <2>3. f \in Nat /\ offset <= f + 1 /\ f >= forgotten
    <3>1. f \in Nat
      BY <1>1, <1>4, <2>2
    <3>2. offset <= f + 1 /\ f >= forgotten
      BY <1>4, <2>2
    <3> QED
      BY <3>1, <3>2
  <2>4. start < offset \/ start <= forgotten => start <= f
    BY <1>1, <2>3
  <2> QED
    BY <2>1, <2>2, <2>4
<1>7. \A i \in (start + 1)..forgotten' : i >= offset => i \in taken
  BY <1>1, <1>4, <1>6 DEF Pending
<1>8. answer'.from = forgotten' /\ answer'.to = Len(sent) /\ answer'.to \in answer'.from..Len(sent)
  BY <1>1, <1>2, <1>4
<1>9. Pending'
  <2>1. Started' /\ poller' \notin {"off", "priming"}
    BY <1>2 DEF Started
  <2>2. (offset = 0 => shown = <<>>) /\ \A n \in 1..Len(shown) : shown[n] < offset
    BY <1>1 DEF Pending
  <2>3. start < offset \/ start <= forgotten'
    BY <1>6
  <2>4. answer'.from \in 0..forgotten' /\ offset <= answer'.from + 1 /\ start <= answer'.from
    <3>1. forgotten' \in 0..forgotten'
      BY <1>1, <1>4
    <3>2. offset <= forgotten' + 1 /\ start <= forgotten'
      BY <1>4, <1>6
    <3> QED
      BY <1>8, <3>1, <3>2
  <2> HIDE DEF Started
  <2> QED
    BY <1>2, <1>7, <1>8, <2>1, <2>2, <2>3, <2>4 DEF Pending
<1> QED
  BY <1>1, <1>2, <1>5, <1>9 DEF PollInv, Poll!EachUpdateOnce, Poll!Wanted

LEMMA ArrivesStep ==
    ASSUME shown \in Seq(Nat), PollInv, Poll!Arrives
    PROVE  shown' \in Seq(Nat) /\ PollInv'
<1>1. /\ PollTypes /\ Pending /\ Poll!EachUpdateOnce
      /\ Len(sent) \in Nat /\ forgotten \in Nat /\ offset \in Nat /\ start \in Nat
      /\ forgotten <= Len(sent) /\ offset <= Len(sent) + 1 /\ start <= Len(sent)
  BY PollParts DEF PollInv
<1>2. PICK from, to : from = answer.from /\ to = answer.to
  OBVIOUS
<1>3. /\ from \in Nat /\ to \in Nat /\ from <= forgotten /\ from <= to /\ to <= Len(sent)
      /\ offset <= from + 1 /\ start <= from
      /\ poller = "answering" /\ Started
  <2>1. poller = "answering"
    BY DEF Poll!Arrives
  <2>2. from \in 0..forgotten /\ to \in from..Len(sent) /\ offset <= from + 1 /\ start <= from
    BY <1>1, <1>2, <2>1 DEF Pending
  <2> QED
    BY <1>1, <2>1, <2>2 DEF Started
<1>4. PICK new : new = {i \in (from + 1)..to : Poll!Wanted(i)}
  OBVIOUS
<1>5. new \in SUBSET Nat /\ IsFiniteSet(new)
  <2>1. new \in SUBSET ((from + 1)..to) /\ (from + 1)..to \in SUBSET Nat
    BY <1>1, <1>3, <1>4
  <2>2. IsFiniteSet((from + 1)..to)
    BY <1>1, <1>3, FS_Interval
  <2> QED
    BY <2>1, <2>2, FS_Subset
<1>6. /\ UNCHANGED <<sent, forgotten, taken, start>> /\ offset' = to + 1 /\ poller' = "polling"
      /\ shown' = shown \o InOrder(new)
  BY <1>2, <1>4, SameOperators DEF Poll!Arrives, Poll!Inbound, Poll!OffsetAfter
<1>21. PICK s : s = shown
  OBVIOUS
<1>7. PICK t : t = s \o InOrder(new)
  OBVIOUS
<1>8. /\ s \in Seq(Nat) /\ t \in Seq(Nat) /\ Len(s) \in Nat /\ Cardinality(new) \in Nat
      /\ Len(t) = Len(s) + Cardinality(new)
      /\ \A k \in 1..Len(s) : t[k] = s[k] /\ s[k] \in Nat
      /\ \A k \in 1..Cardinality(new) : t[Len(s) + k] = InOrder(new)[k]
      /\ \A i : In(i, t) <=> In(i, s) \/ i \in new
      /\ \A k \in 1..Cardinality(new) : InOrder(new)[k] \in new
      /\ \A k, m \in 1..Cardinality(new) : k < m => InOrder(new)[k] < InOrder(new)[m]
  <2>1. s \in Seq(Nat) /\ Len(s) \in Nat /\ \A k \in 1..Len(s) : s[k] \in Nat
    BY <1>21, ElementOfSeq, LenProperties
  <2>2. /\ \A k \in 1..Cardinality(new) : InOrder(new)[k] \in new
        /\ \A k, m \in 1..Cardinality(new) : k < m => InOrder(new)[k] < InOrder(new)[m]
        /\ Cardinality(new) \in Nat
    BY <1>5, InOrderProperties, ElementOfSeq
  <2>3. /\ t \in Seq(Nat) /\ Len(t) = Len(s) + Cardinality(new)
        /\ \A k \in 1..Len(s) : t[k] = s[k]
        /\ \A k \in 1..Cardinality(new) : t[Len(s) + k] = InOrder(new)[k]
        /\ \A i : In(i, t) <=> In(i, s) \/ i \in new
    <3>1. t \in Seq(Nat) /\ Len(t) = Len(s) + Cardinality(new)
      BY <1>5, <1>7, <2>1, AddedInOrder
    <3>2. \A k \in 1..(Len(s) + Cardinality(new)) :
             t[k] = IF k <= Len(s) THEN s[k] ELSE InOrder(new)[k - Len(s)]
      <4>1. PICK q : q = InOrder(new)
        OBVIOUS
      <4>2. q \in Seq(Nat) /\ Len(q) = Cardinality(new)
        BY <1>5, <4>1, InOrderProperties, SeqMonotonic
      <4>3. t = s \o q
        BY <1>7, <4>1
      <4>4. \A k \in 1..(Len(s) + Len(q)) : t[k] = IF k <= Len(s) THEN s[k] ELSE q[k - Len(s)]
        BY <2>1, <4>2, <4>3, ConcatProperties
      <4> QED
        BY <4>1, <4>2, <4>4
    <3>4. \A k \in 1..Len(s) : t[k] = s[k]
      BY <2>1, <2>2, <3>2
    <3>5. \A k \in 1..Cardinality(new) : t[Len(s) + k] = InOrder(new)[k]
      <4>1. \A k \in 1..Cardinality(new) : /\ Len(s) + k \in 1..(Len(s) + Cardinality(new))
                                            /\ ~(Len(s) + k <= Len(s)) /\ (Len(s) + k) - Len(s) = k
        BY <2>1, <2>2
      <4> QED
        BY <3>2, <4>1
    <3>3. \A i : In(i, t) <=> In(i, s) \/ i \in new
      BY <1>5, <1>7, <2>1, AddedInOrder
    <3> QED
      BY <3>1, <3>3, <3>4, <3>5
  <2> QED
    BY <2>1, <2>2, <2>3
<1>9. shown' = t /\ shown = s
  BY <1>6, <1>7, <1>21
<1>10. \A i \in new : i \in Nat /\ i > from /\ i <= to
  BY <1>1, <1>3, <1>4
<1>11. \A k \in 1..Len(s) : s[k] < offset /\ s[k] <= from
  <2>1. SUFFICES ASSUME NEW k \in 1..Len(s) PROVE s[k] < offset /\ s[k] <= from
    OBVIOUS
  <2>2. s[k] < offset
    BY <1>1, <1>9 DEF Pending
  <2>3. s[k] \in Nat
    BY <1>8
  <2> QED
    BY <1>1, <1>3, <2>2, <2>3
<1>12. \A k \in 1..Len(t) : \/ k \in 1..Len(s)
                            \/ k - Len(s) \in 1..Cardinality(new) /\ Len(s) + (k - Len(s)) = k
  BY <1>8
<1>13. \A k \in 1..Len(t) : t[k] \in Nat /\ t[k] < to + 1
  <2>1. ASSUME NEW k \in 1..Len(s) PROVE t[k] \in Nat /\ t[k] < to + 1
    <3>1. t[k] = s[k] /\ s[k] \in Nat /\ s[k] <= from
      BY <1>8, <1>11
    <3> QED
      BY <1>3, <3>1
  <2>2. ASSUME NEW k \in 1..Cardinality(new) PROVE t[Len(s) + k] \in Nat /\ t[Len(s) + k] < to + 1
    <3>1. t[Len(s) + k] = InOrder(new)[k] /\ InOrder(new)[k] \in new
      BY <1>8
    <3>2. InOrder(new)[k] \in Nat /\ InOrder(new)[k] <= to
      BY <1>10, <3>1
    <3> QED
      BY <1>3, <3>1, <3>2
  <2> QED
    BY <1>12, <2>1, <2>2
<1>14. \A k, m \in 1..Len(t) : k < m => t[k] < t[m]
  <2>1. SUFFICES ASSUME NEW k \in 1..Len(t), NEW m \in 1..Len(t), k < m PROVE t[k] < t[m]
    OBVIOUS
  <2>2. CASE m \in 1..Len(s)
    <3>1. k \in 1..Len(s)
      BY <1>8, <2>1, <2>2
    <3>2. s[k] < s[m]
      BY <1>1, <1>8, <1>9, <2>1, <2>2, <3>1, LenProperties DEF Poll!EachUpdateOnce
    <3> QED
      BY <1>8, <2>2, <3>1, <3>2
  <2>3. CASE m \notin 1..Len(s)
    <3>1. PICK n \in 1..Cardinality(new) : m = Len(s) + n
      BY <1>12, <2>3
    <3>2. t[m] = InOrder(new)[n] /\ t[m] \in new
      BY <1>8, <3>1
    <3>3. CASE k \in 1..Len(s)
      <4>1. t[k] = s[k] /\ s[k] \in Nat /\ s[k] <= from
        BY <1>8, <1>11, <3>3
      <4>2. t[m] \in Nat /\ t[m] > from
        BY <1>10, <3>2
      <4> QED
        BY <1>3, <4>1, <4>2
    <3>4. CASE k \notin 1..Len(s)
      <4>1. PICK l \in 1..Cardinality(new) : k = Len(s) + l
        BY <1>12, <3>4
      <4>2. l < n /\ t[k] = InOrder(new)[l]
        BY <1>8, <2>1, <3>1, <4>1
      <4> QED
        BY <1>8, <3>2, <4>2
    <3> QED
      BY <3>3, <3>4
  <2> QED
    BY <2>2, <2>3
<1>15. \A i : i \in Poll!Range(shown') <=> In(i, s) \/ i \in new
  BY <1>8, <1>9, RangeIsIn
<1>16. \A i : i \in Poll!Range(shown) <=> In(i, s)
  BY <1>8, <1>9, RangeIsIn
<1>17. \A i \in (start + 1)..to : Poll!Wanted(i) => In(i, s) \/ i \in new \/ i \in taken
  <2>1. SUFFICES ASSUME NEW i \in (start + 1)..to, Poll!Wanted(i)
                 PROVE  In(i, s) \/ i \in new \/ i \in taken
    OBVIOUS
  <2>2. i \in Nat /\ i > start /\ i <= to
    BY <1>1, <1>3, <2>1
  <2>3. CASE i < offset
    <3>1. i \in (start + 1)..(offset - 1)
      BY <1>1, <2>2, <2>3
    <3> QED
      BY <1>1, <1>16, <2>1, <3>1 DEF Poll!EachUpdateOnce
  <2>4. CASE i >= offset /\ i <= from
    <3>1. i \in (start + 1)..forgotten
      BY <1>1, <1>3, <2>2, <2>4
    <3> QED
      BY <1>1, <1>3, <2>4, <3>1 DEF Pending
  <2>5. CASE i > from
    <3>1. i \in (from + 1)..to
      BY <1>3, <2>2, <2>5
    <3> QED
      BY <1>4, <2>1, <3>1
  <2> QED
    BY <1>1, <1>3, <2>2, <2>3, <2>4, <2>5
<1>18. (Poll!EachUpdateOnce)'
  <2>1. DOMAIN shown' = 1..Len(t)
    BY <1>8, <1>9, LenProperties
  <2>2. \A i \in Poll!Range(shown') : i > start
    BY <1>1, <1>3, <1>10, <1>15, <1>16 DEF Poll!EachUpdateOnce
  <2>3. (start' + 1)..(offset' - 1) = (start + 1)..to
    BY <1>3, <1>6
  <2>4. \A i : Poll!Wanted(i)' <=> Poll!Wanted(i)
    BY <1>6 DEF Poll!Wanted
  <2>5. \A i \in (start + 1)..to : (Poll!Wanted(i))' => i \in Poll!Range(shown') \cup taken'
    BY <1>6, <1>15, <1>17, <2>4
  <2> QED
    BY <1>6, <1>9, <1>14, <2>1, <2>2, <2>3, <2>5 DEF Poll!EachUpdateOnce
<1>19. PollTypes'
  BY <1>1, <1>3, <1>6 DEF PollTypes
<1>20. Pending'
  <2>1. offset' # 0 /\ start < offset'
    BY <1>1, <1>3, <1>6
  <2>2. \A i \in (start + 1)..forgotten : i >= offset' => i \in taken
    BY <1>1, <1>3, <1>6 DEF Pending
  <2> QED
    BY <1>6, <1>9, <1>13, <2>1, <2>2 DEF Pending, Started
<1> QED
  BY <1>8, <1>9, <1>18, <1>19, <1>20 DEF PollInv

LEMMA PollStep ==
    ASSUME shown \in Seq(Nat), PollInv, Poll!Next
    PROVE  shown' \in Seq(Nat) /\ PollInv'
BY OutsideSteps, PollerSteps, ServedStep, ArrivesStep DEF Poll!Next

-----------------------------------------------------------------------------
(* All three.                                                               *)

LEMMA IntakeInitially == ThreadInit => IntakeInv
<1> SUFFICES ASSUME ThreadInit PROVE IntakeInv
  OBVIOUS
<1>1. shown \in Seq(Nat)
  BY DEF ThreadInit, Bridge!Init
<1> QED
  BY <1>1, TailInitially, PollInitially DEF ThreadInit, IntakeInv

LEMMA IntakeStep == IntakeInv /\ [ThreadNext]_thread => IntakeInv'
<1> SUFFICES ASSUME IntakeInv, [ThreadNext]_thread PROVE IntakeInv'
  OBVIOUS
<1>1. CASE Tailed(Bridge!Next)
  BY <1>1, TailStep DEF IntakeInv, Tailed
<1>2. CASE Polled(Poll!Next)
  BY <1>2, PollStep DEF IntakeInv, Polled
<1>3. CASE UNCHANGED <<source, tail, polling, intake>>
  <2>1. TailInv => TailInv'
    BY <1>3 DEF tail, intake, TailInv, TailTypes, Bridge!NothingSkipped, Bridge!Usable
  <2>2. PollInv => PollInv'
    BY <1>3 DEF polling, intake, PollInv, PollTypes, Pending, Started, Poll!EachUpdateOnce, Poll!Wanted
  <2> QED
    BY <1>3, <2>1, <2>2 DEF IntakeInv, intake
<1> QED
  BY <1>1, <1>2, <1>3 DEF ThreadNext, Pages, thread

\* What the panel says of the watch loop's pages is true, if it can read the alert state
\* file whenever it looks: nothing it posts is invented, and a page shown as delivered, or
\* one after it, left the machine, although it asks late, through a cache, and of a loop
\* that may have died and been started again (telegram-feed.ts, confirmDeliveries).
THEOREM PanelOfPages == ASSUME "unreadable" \notin Faults PROVE ThreadSpec => []PanelIsTrue
<1>1. PanelInv /\ [ThreadNext]_thread => PanelInv'
  <2> SUFFICES ASSUME PanelInv, [ThreadNext]_thread PROVE PanelInv'
    OBVIOUS
  <2>1. Next \/ UNCHANGED vars
    BY DEF ThreadNext, Pages, Tailed, Polled, thread
  <2> QED
    BY <2>1, PanelStep
<1>2. ThreadInit => PanelInv
  BY PanelInitially DEF ThreadInit
<1> QED
  BY <1>1, <1>2, PanelIsSound, PTL DEF ThreadSpec

\* Whatever the transcript's resume point has passed since the wall attached is in the
\* thread, although rows are appended between a drain's two reads, batches fill up and
\* reads are refused; and each update of Telegram is in the thread at most once, in its
\* order, and none the poller has passed is missing but for those the gateway took
\* (gateway-bridge.ts, drain; telegram-poll.ts, loop).
THEOREM IntakeMissesNothing == ThreadSpec => []IntakeIsWhole
<1>1. ThreadInit => IntakeInv
  BY IntakeInitially
<1>2. IntakeInv /\ [ThreadNext]_thread => IntakeInv'
  BY IntakeStep
<1>3. IntakeInv => IntakeIsWhole
  BY DEF IntakeInv, TailInv, PollInv, IntakeIsWhole
<1> QED
  BY <1>1, <1>2, <1>3, PTL DEF ThreadSpec

=============================================================================
