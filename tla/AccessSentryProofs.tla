------------------------- MODULE AccessSentryProofs -------------------------
(***************************************************************************)
(* Proofs about AccessSentry, for any persons, visits, cameras and bounds:  *)
(* the types; that the audit trail in access.json only grows and that an    *)
(* acknowledged decision lasts, as long as the writes of one file land in   *)
(* the order in which they were begun and but for what a load undoes; that  *)
(* no one who is still at the rack is filed as gone; and, as long as each   *)
(* visitor is seen out, loads do not overlap and a dashboard that may die   *)
(* can at least write and read, that no visit inherits the approval of the  *)
(* one before it and a name was read during its visit.                      *)
(***************************************************************************)
EXTENDS AccessSentry, SequenceTheorems, FiniteSetTheorems, TLAPS

\* What is left of a sequence when one of its members is taken out.
LEMMA RemoveAtProperties ==
    ASSUME NEW S, NEW s \in Seq(S), NEW i \in 1..Len(s)
    PROVE  /\ RemoveAt(s, i) \in Seq(S)
           /\ Len(RemoveAt(s, i)) = Len(s) - 1
           /\ \A j \in 1..(Len(s) - 1) : RemoveAt(s, i)[j] = IF j < i THEN s[j] ELSE s[j + 1]
<1> DEFINE a == SubSeq(s, 1, i - 1)
           b == SubSeq(s, i + 1, Len(s))
<1>1. /\ a \in Seq(S) /\ Len(a) = i - 1
      /\ \A j \in 1..(i - 1) : a[j] = s[j]
  <2>1. Len(a) = IF 1 <= i - 1 THEN (i - 1) - 1 + 1 ELSE 0
    BY LenProperties, ElementOfSeq, SubSeqProperties
  <2>2. a \in Seq(S)
    BY LenProperties, ElementOfSeq, SubSeqProperties
  <2>3. \A j \in 1..((i - 1) - 1 + 1) : a[j] = s[1 + j - 1]
    BY LenProperties, ElementOfSeq, SubSeqProperties
  <2> QED
    BY <2>1, <2>2, <2>3, LenProperties
<1>2. /\ b \in Seq(S) /\ Len(b) = Len(s) - i
      /\ \A j \in 1..(Len(s) - i) : b[j] = s[j + i]
  <2>1. Len(b) = IF i + 1 <= Len(s) THEN Len(s) - (i + 1) + 1 ELSE 0
    BY LenProperties, ElementOfSeq, SubSeqProperties
  <2>2. b \in Seq(S)
    BY LenProperties, ElementOfSeq, SubSeqProperties
  <2>3. \A j \in 1..(Len(s) - (i + 1) + 1) : b[j] = s[i + 1 + j - 1]
    BY LenProperties, ElementOfSeq, SubSeqProperties
  <2> QED
    BY <2>1, <2>2, <2>3, LenProperties
<1> HIDE DEF a, b
<1>0. Len(s) \in Nat /\ i \in Nat
  BY LenProperties
<1>3. /\ a \o b \in Seq(S)
      /\ Len(a \o b) = Len(s) - 1
      /\ \A j \in 1..(Len(s) - 1) : (a \o b)[j] = IF j <= i - 1 THEN a[j] ELSE b[j - (i - 1)]
  <2>1. /\ a \o b \in Seq(S)
        /\ Len(a \o b) = Len(a) + Len(b)
        /\ \A j \in 1..(Len(a) + Len(b)) : (a \o b)[j] = IF j <= Len(a) THEN a[j] ELSE b[j - Len(a)]
    BY <1>1, <1>2, ConcatProperties
  <2>2. Len(a) = i - 1 /\ Len(a) + Len(b) = Len(s) - 1
    BY <1>0, <1>1, <1>2
  <2> QED
    BY <2>1, <2>2
<1>4. \A j \in 1..(Len(s) - 1) : (a \o b)[j] = IF j < i THEN s[j] ELSE s[j + 1]
  <2> SUFFICES ASSUME NEW j \in 1..(Len(s) - 1)
               PROVE  (a \o b)[j] = IF j < i THEN s[j] ELSE s[j + 1]
    OBVIOUS
  <2>0. j < i \/ j >= i
    BY <1>0
  <2>1. CASE j < i
    BY <2>1, <1>3, <1>1, LenProperties
  <2>2. CASE j >= i
    <3>1. j - (i - 1) \in 1..(Len(s) - i)
      BY <2>2, LenProperties
    <3>2. b[j - (i - 1)] = s[j + 1]
      BY <3>1, <1>2, LenProperties
    <3> QED
      BY <3>2, <2>2, <1>3, LenProperties
  <2> QED
    BY <2>0, <2>1, <2>2
<1> QED
  BY <1>3, <1>4 DEF RemoveAt, a, b
-----------------------------------------------------------------------------
(* Types.                                                                  *)

LEMMA Bounded ==
    ASSUME setting \in Settings
    PROVE  /\ setting \in Setting
           /\ setting.visits \in Nat
           /\ 0 \in Visits
           /\ Visits \subseteq Nat
           /\ setting.incidents \subseteq BOOLEAN
<1>1. setting \in Setting
  BY SettingsAssumption
<1>2. setting.visits \in Nat /\ setting.incidents \subseteq BOOLEAN
  BY <1>1 DEF Setting
<1> QED
  BY <1>1, <1>2 DEF Visits

LEMMA Blank ==
    ASSUME setting \in Settings
    PROVE  /\ NoChallenge \in Challenge
           /\ NotRequired \in Approval
           /\ NoCapture \in Capture
           /\ NoPhoto \in Photo
           /\ IdleTick \in Tick
  BY Bounded, OpensAssumption
  DEF NoChallenge, Challenge, Verdicts, NotRequired, Approval, ApprovalStates, NoCapture, Capture,
      NoPhoto, Photo, IdleTick, Tick

\* The types of everything depend on the setting, which stays.
LEMMA SameTypes ==
    ASSUME setting' = setting
    PROVE  /\ Visits' = Visits
           /\ Capture' = Capture /\ Photo' = Photo /\ Rack' = Rack /\ View' = View
           /\ Tick' = Tick
  BY DEF Visits, Capture, Photo, Rack, View, Tick

LEMMA InitTypes ==
    ASSUME Init
    PROVE  TypeOK
<1>1. setting \in Settings
  BY DEF Init
<1>2. rack \in Rack /\ view \in View
  BY <1>1, Bounded DEF Init, Rack, View
<1>3. mem \in AccessState /\ disk \in AccessState /\ loading \subseteq AccessState
  <2>1. EMPTY \in AccessState
    BY <1>1, Blank DEF EMPTY, AccessState
  <2>2. loading = {} \/ loading = {EMPTY}
    BY DEF Init, SecondLoad
  <2> QED
    BY <2>1, <2>2 DEF Init
<1>4. writes \in Seq(Write) /\ opened \in Seq(Visits)
  BY DEF Init
<1> QED
  BY <1>1, <1>2, <1>3, <1>4, Blank, PersonsAssumption DEF Init, TypeOK

LEMMA WorldKeepsTypes ==
    ASSUME TypeOK, UNCHANGED setting, World
    PROVE  TypeOK'
<1> USE DEF TypeOK, pages, loads
<1>0. setting \in Settings
  OBVIOUS
<1>1. CASE Enter
  <2>1. PICK p \in Persons, n \in Opens :
            rack' = [visit |-> rack.visit + 1, here |-> TRUE, who |-> p, opens |-> n]
    BY <1>1 DEF Enter
  <2>2. rack.visit + 1 \in Visits
    BY <1>0, <1>1, Bounded DEF Enter, Visits, Rack
  <2>3. rack' \in Rack
    BY <2>1, <2>2 DEF Rack
  <2> QED
    BY <1>1, <2>3, SameTypes DEF Enter
<1>2. CASE Leave
  <2>1. rack' \in Rack
    BY <1>2 DEF Leave, Rack
  <2> QED
    BY <1>2, <2>1, SameTypes DEF Leave
<1>3. CASE Push
  <2>1. view' \in View
    BY <1>3 DEF Push, Rack, View
  <2> QED
    BY <1>3, <2>1, SameTypes DEF Push
<1>4. CASE GraceLapses
  <2>1. view' \in View
    BY <1>4 DEF GraceLapses, View
  <2> QED
    BY <1>4, <2>1, SameTypes DEF GraceLapses
<1>5. CASE EdgeScrollsOut
  <2>1. view' \in View
    BY <1>5 DEF EdgeScrollsOut, View
  <2> QED
    BY <1>5, <2>1, SameTypes DEF EdgeScrollsOut
<1>6. CASE FeedChanges
  BY <1>6, SameTypes DEF FeedChanges
<1>7. CASE IncidentChanges
  BY <1>0, <1>7, Bounded, SameTypes DEF IncidentChanges
<1> QED
  BY <1>1, <1>2, <1>3, <1>4, <1>5, <1>6, <1>7 DEF World

LEMMA PersistTypes ==
    ASSUME TypeOK, NEW s \in AccessState
    PROVE  Persist(s) \in Seq(Write)
<1>1. [content |-> s, by |-> "tick", ack |-> NoChallenge] \in Write
  BY Blank DEF Write, TypeOK
<1> QED
  BY <1>1, AppendProperties DEF Persist, TypeOK

LEMMA TickKeepsTypes ==
    ASSUME TypeOK, UNCHANGED setting, WallTick
    PROVE  TypeOK'
<1> USE DEF TypeOK, pages, loads
<1>0. setting \in Settings /\ IdleTick \in Tick
  BY Blank
<1>1. CASE TickStart
  <2>1. tick' \in Tick
    BY <1>1 DEF TickStart, Tick, View
  <2> QED
    BY <1>1, <2>1, SameTypes DEF TickStart
<1>2. CASE TickNothing
  BY <1>0, <1>2, SameTypes DEF TickNothing
<1>3. CASE TickOpen
  <2>1. opened' \in Seq(Visits) /\ Len(opened) + 1 \in Nat
    <3>1. tick.visit \in Visits
      BY DEF Tick
    <3> QED
      BY <3>1, <1>3, AppendProperties, LenProperties DEF TickOpen
  <2>2. mem' \in AccessState
    BY <1>3, <1>0, <2>1, Blank
    DEF TickOpen, OpenChallenge, AccessState, Challenge, Verdicts
  <2>3. writes' \in Seq(Write)
    BY <1>3, <2>2, PersistTypes DEF TickOpen
  <2>4. tick' \in Tick
    BY <1>3 DEF TickOpen, Tick
  <2> QED
    BY <1>3, <2>1, <2>2, <2>3, <2>4, SameTypes DEF TickOpen
<1>4. CASE TickClose
  <2>1. mem' \in AccessState
    BY <1>4, <1>0, Blank DEF TickClose, AbandonChallenge, Newest, AccessState
  <2>2. writes' \in Seq(Write)
    BY <1>4, <2>1, PersistTypes DEF TickClose
  <2>3. tick' \in Tick
    BY <1>4 DEF TickClose, Tick
  <2> QED
    BY <1>4, <1>0, <2>1, <2>2, <2>3, Blank, SameTypes DEF TickClose, CapturedAfterLeaving
<1>5. CASE TickDecide
  <2>1. Verdict(LookOf(tick)) \in Verdicts
    BY DEF Verdict, Verdicts
  <2>2. NextApproval(mem.pending.approval, ApprovalRequired(LookOf(tick))) \in Approval
    BY <1>0, Blank DEF NextApproval, AccessState, Challenge, Approval, ApprovalStates
  <2>3. mem' \in AccessState
    BY <1>5, <2>1, <2>2 DEF TickDecide, ApplyDecision, AccessState, Challenge
  <2>4. writes' \in Seq(Write)
    BY <1>5, <2>3, PersistTypes DEF TickDecide
  <2>5. tick' \in Tick
    BY <1>5 DEF TickDecide, Tick
  <2> QED
    BY <1>5, <2>3, <2>4, <2>5, SameTypes DEF TickDecide
<1>6. CASE TickNotify
  <2>1. notified' \subseteq Nat
    BY <1>6 DEF TickNotify, AccessState, Challenge
  <2> QED
    BY <1>0, <1>6, <2>1, SameTypes DEF TickNotify
<1> QED
  BY <1>1, <1>2, <1>3, <1>4, <1>5, <1>6 DEF WallTick

LEMMA RequestsKeepTypes ==
    ASSUME TypeOK, UNCHANGED setting, Requests
    PROVE  TypeOK'
<1> USE DEF TypeOK, pages, loads
<1>0. setting \in Settings /\ Answers \subseteq Capture
  <2>1. rack.visit \in Visits
    BY DEF Rack
  <2>2. \A k, u \in {0, 1} :
            [taken |-> TRUE, known |-> k, unknown |-> u, visit |-> rack.visit] \in Capture
    BY <2>1 DEF Capture
  <2> QED
    BY <2>2 DEF Answers
<1>1. \A a \in Capture : StoreCapture(a) => captured' \in Capture /\ photo' \in Photo
  BY DEF StoreCapture, Photo, Capture, AccessState, Challenge
<1>2. CASE CaptureRequest
  <2>1. PICK a \in Answers :
            IF May("slow")
            THEN asking' = asking \cup {a} /\ UNCHANGED <<captured, photo>>
            ELSE StoreCapture(a) /\ UNCHANGED asking
    BY <1>2 DEF CaptureRequest
  <2>2. captured' \in Capture /\ photo' \in Photo /\ asking' \subseteq Capture
    BY <1>0, <1>1, <2>1
  <2> QED
    BY <1>2, <2>2, SameTypes DEF CaptureRequest
<1>3. CASE CaptureAnswered
  <2>1. captured' \in Capture /\ photo' \in Photo /\ asking' \subseteq Capture
    BY <1>1, <1>3 DEF CaptureAnswered
  <2> QED
    BY <1>3, <2>1, SameTypes DEF CaptureAnswered
<1>4. CASE Approve
  <2>1. PICK id \in 1..Len(opened), decision \in {"approved", "denied"} :
            /\ mem' = ResolveApproval(mem, id, decision)
            /\ photo' = IF photo.challenge = id THEN NoPhoto ELSE photo
    BY <1>4 DEF Approve
  <2>2. id \in Nat
    OBVIOUS
  <2>3. mem' \in AccessState
    BY <2>1, <2>2 DEF ResolveApproval, AccessState, Challenge, Approval, ApprovalStates
  <2>4. [content |-> mem', by |-> "approve", ack |-> mem'.pending] \in Write
    BY <2>3 DEF Write, AccessState
  <2>5. writes' \in Seq(Write)
    BY <1>4, <2>4, AppendProperties DEF Approve
  <2> QED
    BY <1>4, <1>0, <2>1, <2>3, <2>5, Blank, SameTypes DEF Approve
<1>5. CASE Enrol
  BY <1>5, SameTypes DEF Enrol
<1> QED
  BY <1>2, <1>3, <1>4, <1>5 DEF Requests

\* The tick awaits what it writes: no write of its own is left behind when it goes on.
Awaited ==
    /\ \A i \in 1..Len(writes) : writes[i].by = "tick" => tick.pc \in {"opening", "deciding", "closing"}
    /\ \A i, j \in 1..Len(writes) : writes[i].by = "tick" /\ writes[j].by = "tick" => i = j

\* What is loaded is a content of the file, or nothing.
LEMMA LoadTypes ==
    ASSUME TypeOK, NEW old \in AccessState, NEW contents \in SUBSET AccessState, Load(old, contents)
    PROVE  /\ mem' \in contents \/ mem' = EMPTY
           /\ mem' \in AccessState /\ EMPTY \in AccessState
           /\ undone' = undone \cup Lost(old, mem')
           /\ undone' \subseteq Nat
<1>1. EMPTY \in AccessState
  BY Blank DEF EMPTY, AccessState, TypeOK
<1>2. PICK s \in Readings(contents) : mem' = s /\ undone' = undone \cup Lost(old, s)
  BY DEF Load
<1>3. mem' \in contents \/ mem' = EMPTY
  BY <1>2 DEF Readings
<1>4. \A c \in OnRecord(old) : c.id \in Nat
  BY DEF OnRecord, AccessState, Challenge
<1>5. Lost(old, mem') \subseteq Nat
  BY <1>4 DEF Lost
<1> QED
  BY <1>1, <1>2, <1>3, <1>5 DEF TypeOK

LEMMA FileKeepsTypes ==
    ASSUME TypeOK, Awaited, UNCHANGED setting, WriteLands \/ WriteFails \/ Restart \/ LateLoad
    PROVE  TypeOK'
<1> USE DEF TypeOK, pages, loads
<1>0. setting \in Settings /\ IdleTick \in Tick
  BY Blank
<1>1. \A i \in Landable : i \in 1..Len(writes) /\ writes[i] \in Write /\ RemoveAt(writes, i) \in Seq(Write)
  BY RemoveAtProperties, ElementOfSeq DEF Landable
<1>2. CASE WriteLands
  <2>1. PICK i \in Landable :
            /\ disk' = writes[i].content
            /\ writes' = RemoveAt(writes, i)
            /\ acked' = IF writes[i].by = "approve" THEN acked \cup {writes[i].ack} ELSE acked
            /\ tick' = IF writes[i].by = "approve" THEN tick
                       ELSE CASE tick.pc = "opening" -> [tick EXCEPT !.pc = "opened"]
                              [] tick.pc = "deciding" -> [tick EXCEPT !.pc = "decided"]
                              [] tick.pc = "closing" ->
                                    IF IsOpen(mem) THEN [tick EXCEPT !.pc = "opened"] ELSE IdleTick
            /\ loading' \in {loading, IF loading = {} THEN {} ELSE {disk'}}
    BY <1>2 DEF WriteLands
  <2>2. disk' \in AccessState /\ acked' \subseteq Challenge /\ loading' \subseteq AccessState
    <3>1. disk' \in AccessState /\ acked' \subseteq Challenge
      BY <1>1, <2>1 DEF Write
    <3> QED
      BY <2>1, <3>1
  <2>3. tick' \in Tick
    <3>1. writes[i].by = "approve" \/ tick.pc \in {"opening", "deciding", "closing"}
      BY <1>1 DEF Awaited, Write
    <3> QED
      BY <1>0, <2>1, <3>1 DEF Tick
  <2> QED
    BY <1>1, <1>2, <2>1, <2>2, <2>3, SameTypes DEF WriteLands
<1>3. CASE WriteFails
  BY <1>0, <1>1, <1>3, SameTypes DEF WriteFails
<1>4. CASE Restart
  <2>1. writes' \in Seq(Write)
    BY <1>4 DEF Restart
  <2>2. mem' \in AccessState /\ undone' \subseteq Nat
    BY <1>4, LoadTypes DEF Restart
  <2>3. loading' \subseteq AccessState
    BY <1>4 DEF Restart, SecondLoad
  <2> QED
    BY <1>0, <1>4, <2>1, <2>2, <2>3, Blank, SameTypes DEF Restart
<1>5. CASE LateLoad
  <2>1. mem' \in AccessState /\ undone' \subseteq Nat
    BY <1>5, LoadTypes DEF LateLoad
  <2> QED
    BY <1>5, <2>1, SameTypes DEF LateLoad
<1> QED
  BY <1>2, <1>3, <1>4, <1>5

LEMMA StepKeepsAwaited ==
    ASSUME TypeOK, Awaited, [Next]_<<setting, vars>>
    PROVE  Awaited'
<1> USE DEF Awaited
<1>0. writes \in Seq(Write) /\ Len(writes) \in Nat
  BY LenProperties DEF TypeOK
<1>1. CASE UNCHANGED <<writes, tick>>
  BY <1>1
<1>2. ASSUME tick.pc \notin {"opening", "deciding", "closing"}, UNCHANGED writes
      PROVE  Awaited'
  BY <1>2
<1>3. ASSUME tick.pc \notin {"opening", "deciding", "closing"},
             tick'.pc \in {"opening", "deciding", "closing"},
             NEW s \in AccessState, writes' = Persist(s)
      PROVE  Awaited'
  <2>1. [content |-> s, by |-> "tick", ack |-> NoChallenge] \in Write
    BY Blank DEF Write, TypeOK
  <2>2. /\ Len(writes') = Len(writes) + 1
        /\ \A i \in 1..Len(writes) : writes'[i] = writes[i]
    BY <1>3, <2>1, AppendProperties DEF Persist, TypeOK
  <2>3. \A i \in 1..Len(writes) : writes[i].by # "tick"
    BY <1>3
  <2> QED
    BY <1>0, <1>3, <2>2, <2>3
<1>4. CASE Approve
  <2>1. [content |-> mem', by |-> "approve", ack |-> mem'.pending].by # "tick"
    OBVIOUS
  <2>2. \A i \in 1..Len(writes') : writes'[i].by = "tick" => i \in 1..Len(writes) /\ writes'[i] = writes[i]
    BY <1>0, <1>4, <2>1 DEF Approve
  <2> QED
    BY <1>4, <2>2 DEF Approve
<1>5. ASSUME NEW i \in Landable, writes' = RemoveAt(writes, i),
             tick' = tick \/ writes[i].by = "tick"
      PROVE  Awaited'
  <2>1. /\ Len(writes') = Len(writes) - 1
        /\ \A j \in 1..(Len(writes) - 1) : writes'[j] = IF j < i THEN writes[j] ELSE writes[j + 1]
    BY <1>0, <1>5, RemoveAtProperties DEF Landable
  <2>2. i \in 1..Len(writes)
    BY DEF Landable
  <2>3. CASE tick' = tick
    <3> DEFINE was(j) == IF j < i THEN j ELSE j + 1
    <3>1. \A j \in 1..Len(writes') : was(j) \in 1..Len(writes) /\ writes'[j] = writes[was(j)]
      BY <1>0, <2>1, <2>2
    <3>2. \A j, k \in 1..Len(writes') : was(j) = was(k) => j = k
      BY <1>0, <2>1, <2>2
    <3> HIDE DEF was
    <3> QED
      BY <2>3, <3>1, <3>2
  <2>4. CASE writes[i].by = "tick"
    <3>1. \A j \in 1..Len(writes') : \E k \in 1..Len(writes) \ {i} : writes'[j] = writes[k]
      BY <1>0, <2>1, <2>2
    <3> QED
      BY <2>2, <2>4, <3>1
  <2> QED
    BY <1>5, <2>3, <2>4
<1>6. CASE World \/ CaptureRequest \/ CaptureAnswered \/ Enrol \/ UNCHANGED <<setting, vars>>
  BY <1>1, <1>6
  DEF World, Enter, Leave, Push, GraceLapses, EdgeScrollsOut, FeedChanges, IncidentChanges,
      CaptureRequest, CaptureAnswered, Enrol, vars
<1>7. CASE WallTick
  <2>1. UNCHANGED setting
    BY DEF Next
  <2>2. mem' \in AccessState
    BY <1>7, <2>1, TickKeepsTypes DEF TypeOK
  <2>3. tick \in Tick
    BY DEF TypeOK
  <2>4. CASE TickStart \/ TickNothing \/ TickNotify
    BY <1>2, <2>4 DEF TickStart, TickNothing, TickNotify
  <2>5. CASE TickOpen
    BY <1>3, <2>2, <2>3, <2>5 DEF TickOpen, Tick
  <2>6. CASE TickClose
    BY <1>3, <2>2, <2>3, <2>6 DEF TickClose, Tick
  <2>7. CASE TickDecide
    BY <1>3, <2>2, <2>3, <2>7 DEF TickDecide, Tick
  <2> QED
    BY <1>7, <2>4, <2>5, <2>6, <2>7 DEF WallTick
<1>8. CASE WriteLands \/ WriteFails
  <2>1. \E i \in Landable :
            /\ writes' = RemoveAt(writes, i)
            /\ writes[i].by = "approve" => tick' = tick
    BY <1>8 DEF WriteLands, WriteFails
  <2>2. \A i \in Landable : writes[i].by \in {"tick", "approve"}
    <3>1. \A i \in Landable : writes[i] \in Write
      BY <1>0, ElementOfSeq DEF Landable
    <3> QED
      BY <3>1 DEF Write
  <2> QED
    BY <1>5, <2>1, <2>2
<1>9. CASE Restart
  <2>1. writes' = <<>>
    BY <1>9 DEF Restart
  <2> QED
    BY <2>1
<1>10. CASE LateLoad
  BY <1>1, <1>10 DEF LateLoad
<1> HIDE DEF Awaited
<1>11. CASE Next
  BY <1>4, <1>6, <1>7, <1>8, <1>9, <1>10, <1>11 DEF Next, Requests
<1> QED
  BY <1>6, <1>11

LEMMA SentryAwaits == Spec => [](TypeOK /\ Awaited)
<1>1. Init => TypeOK /\ Awaited
  <2>1. Init => writes = <<>>
    BY DEF Init
  <2>2. writes = <<>> => Awaited
    BY DEF Awaited
  <2> QED
    BY <2>1, <2>2, InitTypes
<1>2. TypeOK /\ Awaited /\ [Next]_<<setting, vars>> => TypeOK' /\ Awaited'
  <2> SUFFICES ASSUME TypeOK, Awaited, [Next]_<<setting, vars>>
               PROVE  TypeOK' /\ Awaited'
    OBVIOUS
  <2>1. CASE Next
    BY <2>1, WorldKeepsTypes, TickKeepsTypes, RequestsKeepTypes, FileKeepsTypes, StepKeepsAwaited DEF Next
  <2>2. CASE UNCHANGED <<setting, vars>>
    BY <2>2, SameTypes, StepKeepsAwaited DEF TypeOK, vars, pages, loads
  <2> QED
    BY <2>1, <2>2
<1> QED
  BY <1>1, <1>2, PTL DEF Spec

\* Every reachable state of the sentry is well typed, whatever its requests, its writes
\* and the rack do, with or without faults.
THEOREM SentryTypes == Spec => []TypeOK
  BY SentryAwaits, PTL
-----------------------------------------------------------------------------
(* The record. *)

\* The writes of access.json land in the order in which they were begun.
InOrder == \A s \in Settings : "reorder" \notin s.faults

\* Of n challenges, nothing recent on the record in s is missing in t, and what was
\* decided stays so, but for what was undone.
Follows(s, t, n, u) ==
    \A c \in OnRecord(s) : c.id > n - LogLimit /\ c.id \notin u => \E r \in OnRecord(t) :
        r.id = c.id /\ (Decided(c.approval) => r.approval = c.approval)

\* The open challenge is not filed yet, none is filed twice or younger than n.
Distinct(s, n) ==
    /\ s.pending.id <= n
    /\ \A e \in s.log : e.id <= n /\ (IsOpen(s) => e.id # s.pending.id)
    /\ \A e, f \in s.log : e.id = f.id => e = f

\* The file, the writes under way and memory follow one another.
Chain ==
    /\ Follows(disk, mem, Len(opened), undone)
    /\ \A i \in 1..Len(writes) :
        /\ Follows(disk, writes[i].content, Len(opened), undone)
        /\ Follows(writes[i].content, mem, Len(opened), undone)
    /\ \A i, j \in 1..Len(writes) :
        i < j => Follows(writes[i].content, writes[j].content, Len(opened), undone)

AllDistinct ==
    /\ Distinct(mem, Len(opened)) /\ Distinct(disk, Len(opened))
    /\ \A i \in 1..Len(writes) : Distinct(writes[i].content, Len(opened))
    /\ \A s \in loading : Distinct(s, Len(opened))

\* c was decided, and s says so if it is recent among n and was not undone.
Says(s, c, n, u) ==
    /\ Decided(c.approval)
    /\ c.id > n - LogLimit /\ c.id \notin u => \E r \in OnRecord(s) : r.id = c.id /\ r.approval = c.approval

\* What has been acknowledged is in the file; what is about to be, in the write.
Backed ==
    /\ \A c \in acked : Says(disk, c, Len(opened), undone)
    /\ \A i \in 1..Len(writes) :
        writes[i].by = "approve" => Says(writes[i].content, writes[i].ack, Len(opened), undone)

RecordInv == Chain /\ AllDistinct /\ Backed

LEMMA DistinctLater ==
    ASSUME NEW s \in AccessState, NEW n \in Nat, NEW m \in Nat, n <= m, Distinct(s, n)
    PROVE  Distinct(s, m)
  BY DEF Distinct, AccessState, Challenge

LEMMA FollowsItself == \A s, n, u : Follows(s, s, n, u)
  BY DEF Follows

LEMMA FollowsOn ==
    ASSUME NEW s, NEW t, NEW v, NEW n, NEW u, Follows(s, t, n, u), Follows(t, v, n, u)
    PROVE  Follows(s, v, n, u)
<1> SUFFICES ASSUME NEW c \in OnRecord(s), c.id > n - LogLimit, c.id \notin u
             PROVE  \E r \in OnRecord(v) :
                        r.id = c.id /\ (Decided(c.approval) => r.approval = c.approval)
  BY DEF Follows
<1>1. PICK q \in OnRecord(t) : q.id = c.id /\ (Decided(c.approval) => q.approval = c.approval)
  BY DEF Follows
<1>2. PICK r \in OnRecord(v) : r.id = q.id /\ (Decided(q.approval) => r.approval = q.approval)
  BY <1>1 DEF Follows
<1> QED
  BY <1>1, <1>2 DEF Decided

\* Fewer challenges are recent when there are more, and fewer are meant when more
\* were undone.
LEMMA FollowsLater ==
    ASSUME NEW s \in AccessState, NEW t, NEW n \in Nat, NEW m \in Nat, n <= m,
           NEW u, NEW w, u \subseteq w, Follows(s, t, n, u)
    PROVE  Follows(s, t, m, w)
<1>1. \A c \in OnRecord(s) : c.id \in Nat
  BY DEF OnRecord, AccessState, Challenge
<1>2. \A c \in OnRecord(s) : c.id > m - LogLimit => c.id > n - LogLimit
  BY <1>1, LogLimitAssumption
<1> QED
  BY <1>2 DEF Follows

LEMMA SaysOn ==
    ASSUME NEW s, NEW t, NEW c, NEW n, NEW u, Says(s, c, n, u), Follows(s, t, n, u)
    PROVE  Says(t, c, n, u)
<1> SUFFICES ASSUME c.id > n - LogLimit, c.id \notin u
             PROVE  \E q \in OnRecord(t) : q.id = c.id /\ q.approval = c.approval
  BY DEF Says
<1>1. PICK r \in OnRecord(s) : r.id = c.id /\ r.approval = c.approval
  BY DEF Says
<1>2. PICK q \in OnRecord(t) : q.id = r.id /\ (Decided(r.approval) => q.approval = r.approval)
  BY <1>1 DEF Follows
<1> QED
  BY <1>1, <1>2 DEF Says, Decided

LEMMA SaysLater ==
    ASSUME NEW s, NEW c \in Challenge, NEW n \in Nat, NEW m \in Nat, n <= m,
           NEW u, NEW w, u \subseteq w, Says(s, c, n, u)
    PROVE  Says(s, c, m, w)
<1>1. c.id \in Nat
  BY DEF Challenge
<1>2. c.id > m - LogLimit => c.id > n - LogLimit
  BY <1>1, LogLimitAssumption
<1> QED
  BY <1>2 DEF Says

\* A load keeps everything but what it undoes.
LEMMA LoadFollows ==
    ASSUME NEW old, NEW new, NEW n, NEW u, Lost(old, new) \subseteq u
    PROVE  Follows(old, new, n, u)
<1> SUFFICES ASSUME NEW c \in OnRecord(old), c.id \notin Lost(old, new)
             PROVE  \E r \in OnRecord(new) :
                        r.id = c.id /\ (Decided(c.approval) => r.approval = c.approval)
  BY DEF Follows
<1>1. ~\A r \in OnRecord(new) : r.id = c.id => Decided(c.approval) /\ r.approval # c.approval
  BY DEF Lost
<1> QED
  BY <1>1

\* Opening, deciding, resolving and filing lose nothing recent that is on the record.
LEMMA OpenFollows ==
    ASSUME NEW s \in AccessState, NEW id \in Nat, NEW n, NEW u, ~IsOpen(s)
    PROVE  Follows(s, OpenChallenge(s, id), n, u)
<1>1. OnRecord(s) \subseteq OnRecord(OpenChallenge(s, id))
  BY DEF OnRecord, OpenChallenge, IsOpen, AccessState, Challenge
<1> QED
  BY <1>1 DEF Follows

LEMMA PendingFollows ==
    ASSUME NEW s \in AccessState, NEW t \in AccessState, NEW n, NEW u, t.log = s.log,
           t.pending.id = s.pending.id,
           Decided(s.pending.approval) => t.pending.approval = s.pending.approval
    PROVE  Follows(s, t, n, u)
<1> SUFFICES ASSUME NEW c \in OnRecord(s)
             PROVE  \E r \in OnRecord(t) :
                        r.id = c.id /\ (Decided(c.approval) => r.approval = c.approval)
  BY DEF Follows
<1>1. CASE c \in s.log
  BY <1>1 DEF OnRecord
<1>2. CASE c = s.pending
  BY <1>2 DEF OnRecord
<1> QED
  BY <1>1, <1>2 DEF OnRecord

\* The log has room for what is recent.
LEMMA NewestHasRecent ==
    ASSUME NEW log \in SUBSET Challenge, NEW n \in Nat,
           \A e \in log : e.id <= n, \A e, f \in log : e.id = f.id => e = f,
           NEW c \in log, c.id > n - LogLimit
    PROVE  c \in Newest(log)
<1> DEFINE younger == {f \in log : f.id > c.id}
           ids == (c.id + 1)..n
           f == [e \in younger |-> e.id]
<1>0. c.id \in Nat /\ c.id <= n /\ \A e \in log : e.id \in Nat
  BY DEF Challenge
<1>1. IsFiniteSet(ids) /\ Cardinality(ids) = IF c.id + 1 > n THEN 0 ELSE n - (c.id + 1) + 1
  <2>1. c.id + 1 \in Int /\ n \in Int
    BY <1>0
  <2> QED
    BY <2>1, FS_Interval
<1>2. Cardinality(ids) < LogLimit
  BY <1>0, <1>1, LogLimitAssumption
<1>3. f \in Injection(younger, ids)
  <2>1. f \in [younger -> ids]
    BY <1>0
  <2>2. \A a, b \in younger : f[a] = f[b] => a = b
    OBVIOUS
  <2> QED
    BY <2>1, <2>2 DEF Injection, IsInjective
<1>4. IsFiniteSet(younger) /\ Cardinality(younger) <= Cardinality(ids)
  BY <1>1, <1>3, FS_Injection
<1>5. Cardinality(younger) < LogLimit
  <2>1. Cardinality(younger) \in Nat /\ Cardinality(ids) \in Nat
    BY <1>1, <1>4, FS_CardinalityType
  <2> QED
    BY <1>2, <1>4, <2>1, LogLimitAssumption
<1> QED
  BY <1>5 DEF Newest

LEMMA AbandonFollows ==
    ASSUME NEW s \in AccessState, NEW n \in Nat, NEW u, IsOpen(s), Distinct(s, n)
    PROVE  Follows(s, AbandonChallenge(s), n, u)
<1> DEFINE all == {s.pending} \cup {e \in s.log : e.id # s.pending.id}
<1>1. all \in SUBSET Challenge /\ OnRecord(s) \subseteq all
  BY DEF AccessState, OnRecord, Distinct
<1>2. (\A e \in all : e.id <= n) /\ \A e, f \in all : e.id = f.id => e = f
  BY DEF Distinct
<1> HIDE DEF all
<1>3. \A c \in OnRecord(s) : c.id > n - LogLimit => c \in Newest(all)
  BY <1>1, <1>2, NewestHasRecent
<1>4. AbandonChallenge(s).log = Newest(all)
  BY DEF AbandonChallenge, all
<1>5. \A c \in OnRecord(s) : c.id > n - LogLimit => c \in OnRecord(AbandonChallenge(s))
  BY <1>3, <1>4 DEF OnRecord
<1> QED
  BY <1>5 DEF Follows
-----------------------------------------------------------------------------
\* How memory may change: not at all, by a change written at once, or by a load.

LEMMA InitRecord ==
    ASSUME Init
    PROVE  RecordInv
<1>1. writes = <<>> /\ acked = {} /\ disk = mem /\ opened = <<>>
  BY DEF Init
<1>2. mem.pending.id = 0 /\ mem.log = {} /\ \A s \in loading : s = disk
  BY DEF Init, EMPTY, NoChallenge, SecondLoad
<1>3. Chain
  BY <1>1, FollowsItself DEF Chain
<1>4. AllDistinct
  BY <1>1, <1>2 DEF AllDistinct, Distinct
<1>5. Backed
  BY <1>1 DEF Backed
<1> QED
  BY <1>3, <1>4, <1>5 DEF RecordInv

\* Memory changes to what follows it, and a write of that is begun.
LEMMA ChangeKeepsRecord ==
    ASSUME TypeOK, RecordInv, UNCHANGED <<disk, acked, loading, undone>>,
           NEW w \in Write, writes' = Append(writes, w), w.content = mem',
           Len(opened') \in Nat, Len(opened') >= Len(opened),
           Follows(mem, mem', Len(opened'), undone), Distinct(mem', Len(opened')),
           w.by = "approve" => Says(mem', w.ack, Len(opened'), undone)
    PROVE  RecordInv'
<1> DEFINE n == Len(writes)
           k == Len(opened)
           m == Len(opened')
<1>0. /\ k \in Nat /\ m \in Nat /\ k <= m
      /\ disk \in AccessState /\ mem \in AccessState /\ acked \subseteq Challenge
      /\ loading \subseteq AccessState
  BY LenProperties DEF TypeOK
<1>1. /\ n \in Nat /\ Len(writes') = n + 1
      /\ \A i \in 1..n : writes'[i] = writes[i]
      /\ writes'[n + 1] = w
  BY AppendProperties, LenProperties DEF TypeOK
<1>t. \A i \in 1..n : writes[i].content \in AccessState /\ writes[i].ack \in Challenge
  <2>1. \A i \in 1..n : writes[i] \in Write
    BY ElementOfSeq DEF TypeOK
  <2> QED
    BY <2>1 DEF Write
<1>3. \A i \in 1..(n + 1) : i \in 1..n \/ i = n + 1
  BY <1>1
<1>f. /\ Follows(disk, mem, k, undone)
      /\ \A i \in 1..n : Follows(disk, writes[i].content, k, undone) /\ Follows(writes[i].content, mem, k, undone)
      /\ \A i, j \in 1..n : i < j => Follows(writes[i].content, writes[j].content, k, undone)
  BY DEF RecordInv, Chain
<1>d. /\ Distinct(disk, k) /\ \A i \in 1..n : Distinct(writes[i].content, k)
      /\ \A s \in loading : Distinct(s, k)
  BY DEF RecordInv, AllDistinct
<1>b. /\ \A c \in acked : Says(disk, c, k, undone)
      /\ \A i \in 1..n : writes[i].by = "approve" => Says(writes[i].content, writes[i].ack, k, undone)
  BY DEF RecordInv, Backed
<1>m. m = Len(opened') /\ Follows(mem, mem', m, undone) /\ Distinct(mem', m)
      /\ (w.by = "approve" => Says(mem', w.ack, m, undone))
  OBVIOUS
<1>w. Len(writes') = Len(writes') /\ Len(writes') = n + 1
  BY <1>1
<1> HIDE DEF n, k, m
<1>2. Follows(disk, mem', m, undone) /\ \A i \in 1..n : Follows(writes[i].content, mem', m, undone)
  BY <1>0, <1>t, <1>f, <1>m, FollowsLater, FollowsOn
<1>4. Chain'
  <2>1. \A i \in 1..Len(writes') :
            Follows(disk, writes'[i].content, m, undone) /\ Follows(writes'[i].content, mem', m, undone)
    <3> SUFFICES ASSUME NEW i \in 1..Len(writes')
                 PROVE  Follows(disk, writes'[i].content, m, undone) /\ Follows(writes'[i].content, mem', m, undone)
      OBVIOUS
    <3>1. CASE i \in 1..n
      BY <1>0, <1>1, <1>2, <1>f, <3>1, FollowsLater
    <3>2. CASE i = n + 1
      BY <1>1, <1>2, <3>2, FollowsItself
    <3> QED
      BY <1>w, <1>3, <3>1, <3>2
  <2>2. ASSUME NEW i \in 1..Len(writes'), NEW j \in 1..Len(writes'), i < j
        PROVE  Follows(writes'[i].content, writes'[j].content, m, undone)
    <3>1. i \in 1..n
      BY <1>1, <2>2
    <3>2. CASE j \in 1..n
      BY <1>0, <1>1, <1>t, <1>f, <2>2, <3>1, <3>2, FollowsLater
    <3>3. CASE j = n + 1
      BY <1>1, <1>2, <3>1, <3>3
    <3> QED
      BY <1>w, <1>3, <3>2, <3>3
  <2> QED
    BY <1>m, <1>2, <2>1, <2>2 DEF Chain
<1>5. AllDistinct'
  <2>1. Distinct(disk, m)
    BY <1>0, <1>d, DistinctLater
  <2>2. ASSUME NEW i \in 1..n
        PROVE  Distinct(writes'[i].content, m)
    BY <1>0, <1>1, <1>t, <1>d, DistinctLater
  <2>3. \A s \in loading : Distinct(s, m)
    BY <1>0, <1>d, DistinctLater
  <2> QED
    BY <1>w, <1>1, <1>3, <1>m, <2>1, <2>2, <2>3 DEF AllDistinct
<1>6. Backed'
  <2>1. \A c \in acked : Says(disk, c, m, undone)
    BY <1>0, <1>b, SaysLater
  <2>2. ASSUME NEW i \in 1..n, writes'[i].by = "approve"
        PROVE  Says(writes'[i].content, writes'[i].ack, m, undone)
    BY <1>0, <1>1, <1>t, <1>b, <2>2, SaysLater
  <2> QED
    BY <1>w, <1>1, <1>3, <1>m, <2>1, <2>2 DEF Backed
<1> QED
  BY <1>4, <1>5, <1>6 DEF RecordInv

\* Taking a write out of the line keeps the rest in order.
LEMMA RestKeepsRecord ==
    ASSUME TypeOK, RecordInv, UNCHANGED <<mem, opened, undone>>,
           \A s \in loading' : s \in loading \/ s = disk',
           Len(writes) >= 1, writes' = RemoveAt(writes, 1),
           disk' \in {disk, writes[1].content},
           \A c \in acked' : c \in acked
               \/ (disk' = writes[1].content /\ writes[1].by = "approve" /\ c = writes[1].ack)
    PROVE  RecordInv' /\ Follows(disk, disk', Len(opened'), undone')
<1> DEFINE n == Len(opened)
<1>s. n = Len(opened) /\ n = Len(opened')
  OBVIOUS
<1> HIDE DEF n
<1>0. Len(writes) \in Nat /\ 1 \in 1..Len(writes)
  BY LenProperties DEF TypeOK
<1>1. /\ Len(writes') = Len(writes) - 1
      /\ \A j \in 1..(Len(writes) - 1) : writes'[j] = writes[j + 1]
  BY <1>0, RemoveAtProperties DEF TypeOK
<1>2. \A j \in 1..Len(writes') : j + 1 \in 1..Len(writes) /\ j + 1 > 1 /\ writes'[j] = writes[j + 1]
  BY <1>0, <1>1
<1>3. Follows(disk, disk', n, undone) /\ Follows(disk', mem, n, undone)
  BY <1>0, FollowsItself DEF RecordInv, Chain, n
<1>4. \A j \in 1..Len(writes') : Follows(disk', writes'[j].content, n, undone)
  BY <1>0, <1>2 DEF RecordInv, Chain, n
<1>5. Chain'
  <2>1. \A j \in 1..Len(writes') : Follows(writes'[j].content, mem, n, undone)
    BY <1>2 DEF RecordInv, Chain, n
  <2>2. ASSUME NEW i \in 1..Len(writes'), NEW j \in 1..Len(writes'), i < j
        PROVE  Follows(writes'[i].content, writes'[j].content, n, undone)
    <3>1. i + 1 < j + 1
      BY <2>2
    <3> QED
      BY <1>2, <3>1 DEF RecordInv, Chain, n
  <2> QED
    BY <1>s, <1>3, <1>4, <2>1, <2>2 DEF Chain
<1>6. AllDistinct'
  <2>1. Distinct(disk', n) /\ \A j \in 1..Len(writes') : Distinct(writes'[j].content, n)
    BY <1>0, <1>2 DEF RecordInv, AllDistinct, n
  <2> QED
    BY <1>s, <2>1 DEF RecordInv, AllDistinct, n
<1>7. Backed'
  <2>1. \A c \in acked' : Says(disk', c, n, undone)
    <3> SUFFICES ASSUME NEW c \in acked' PROVE Says(disk', c, n, undone)
      OBVIOUS
    <3>1. CASE c \in acked
      BY <1>3, <3>1, SaysOn DEF RecordInv, Backed, n
    <3>2. CASE disk' = writes[1].content /\ writes[1].by = "approve" /\ c = writes[1].ack
      BY <1>0, <3>2 DEF RecordInv, Backed, n
    <3> QED
      BY <3>1, <3>2
  <2>2. \A i \in 1..Len(writes') : writes'[i].by = "approve" => Says(writes'[i].content, writes'[i].ack, n, undone)
    BY <1>2 DEF RecordInv, Backed, n
  <2> QED
    BY <1>s, <2>1, <2>2 DEF Backed
<1> QED
  BY <1>s, <1>3, <1>5, <1>6, <1>7 DEF RecordInv

\* What the file does with the record.
LEMMA FileKeepsRecord ==
    ASSUME InOrder, TypeOK, RecordInv, WriteLands \/ WriteFails
    PROVE  RecordInv' /\ Follows(disk, disk', Len(opened'), undone')
<1>0. Len(writes) \in Nat
  BY LenProperties DEF TypeOK
<1>1. \A i \in Landable : i = 1 /\ Len(writes) >= 1
  BY <1>0 DEF Landable, May, InOrder, TypeOK
<1>2. CASE WriteLands
  <2>1. PICK i \in Landable :
            /\ disk' = writes[i].content
            /\ writes' = RemoveAt(writes, i)
            /\ acked' = IF writes[i].by = "approve" THEN acked \cup {writes[i].ack} ELSE acked
            /\ loading' \in {loading, IF loading = {} THEN {} ELSE {disk'}}
    BY <1>2 DEF WriteLands
  <2>2. i = 1 /\ Len(writes) >= 1
    BY <1>1
  <2>3. \A c \in acked' : c \in acked
            \/ (disk' = writes[1].content /\ writes[1].by = "approve" /\ c = writes[1].ack)
    BY <2>1, <2>2
  <2>4. \A s \in loading' : s \in loading \/ s = disk'
    BY <2>1
  <2>5. UNCHANGED <<mem, opened, undone>>
    BY <1>2 DEF WriteLands
  <2> QED
    BY <2>1, <2>2, <2>3, <2>4, <2>5, RestKeepsRecord
<1>3. CASE WriteFails
  <2>1. PICK i \in Landable : writes' = RemoveAt(writes, i)
    BY <1>3 DEF WriteFails
  <2>2. i = 1 /\ Len(writes) >= 1
    BY <1>1
  <2>3. UNCHANGED <<mem, opened, undone, loading, disk, acked>>
    BY <1>3 DEF WriteFails, loads
  <2> QED
    BY <2>1, <2>2, <2>3, RestKeepsRecord
<1> QED
  BY <1>2, <1>3

\* What a load does: what it undoes is noted, the rest of the record stays.
LEMMA LoadKeepsRecord ==
    ASSUME TypeOK, RecordInv, Restart \/ LateLoad
    PROVE  RecordInv' /\ Follows(disk, disk', Len(opened'), undone')
<1> DEFINE n == Len(opened)
<1>0. /\ disk \in AccessState /\ mem \in AccessState /\ loading \subseteq AccessState
      /\ n \in Nat /\ acked \subseteq Challenge
      /\ \A i \in 1..Len(writes) : writes[i].content \in AccessState /\ writes[i].ack \in Challenge
  <2>1. \A i \in 1..Len(writes) : writes[i] \in Write
    BY ElementOfSeq DEF TypeOK
  <2> QED
    BY <2>1, LenProperties DEF TypeOK, Write
<1>1. UNCHANGED <<disk, opened, acked>> /\ n = Len(opened') /\ n = Len(opened)
  BY DEF Restart, LateLoad
<1>e. Distinct(EMPTY, n)
  BY <1>0 DEF Distinct, EMPTY, NoChallenge
<1> HIDE DEF n
<1>2. CASE Restart
  <2>1. /\ mem' = disk \/ mem' = EMPTY
        /\ undone' = undone \cup Lost(disk, mem')
    <3>1. Load(disk, {disk}) /\ {disk} \in SUBSET AccessState
      BY <1>0, <1>2 DEF Restart
    <3> QED
      BY <1>0, <3>1, LoadTypes
  <2>2. Len(writes') = 0 /\ \A s \in loading' : s = disk
    BY <1>2 DEF Restart, SecondLoad
  <2>3. Follows(disk, mem', n, undone')
    BY <2>1, LoadFollows
  <2>4. Chain'
    BY <1>1, <2>2, <2>3 DEF Chain
  <2>5. AllDistinct'
    BY <1>1, <1>e, <2>1, <2>2 DEF RecordInv, AllDistinct
  <2>6. \A c \in acked : Says(disk, c, n, undone')
    BY <1>0, <1>1, <2>1, SaysLater DEF RecordInv, Backed
  <2>7. Backed'
    BY <1>1, <2>2, <2>6 DEF Backed
  <2> QED
    BY <1>1, <2>4, <2>5, <2>7, FollowsItself DEF RecordInv
<1>3. CASE LateLoad
  <2>1. /\ mem' \in loading \/ mem' = EMPTY
        /\ undone' = undone \cup Lost(mem, mem')
    BY <1>0, <1>3, LoadTypes DEF LateLoad
  <2>2. writes' = writes /\ loading' = {}
    BY <1>3 DEF LateLoad
  <2>3. Follows(mem, mem', n, undone')
    BY <2>1, LoadFollows
  <2>u. undone \subseteq undone'
    BY <2>1
  <2>4. /\ Follows(disk, mem, n, undone')
        /\ \A i \in 1..Len(writes) :
              Follows(disk, writes[i].content, n, undone') /\ Follows(writes[i].content, mem, n, undone')
        /\ \A i, j \in 1..Len(writes) :
              i < j => Follows(writes[i].content, writes[j].content, n, undone')
    BY <1>0, <1>1, <2>u, FollowsLater DEF RecordInv, Chain
  <2>5. Follows(disk, mem', n, undone') /\ \A i \in 1..Len(writes) : Follows(writes[i].content, mem', n, undone')
    BY <2>3, <2>4, FollowsOn
  <2>6. Chain'
    BY <1>1, <2>2, <2>4, <2>5 DEF Chain
  <2>7. AllDistinct'
    BY <1>1, <1>e, <2>1, <2>2 DEF RecordInv, AllDistinct
  <2>8. /\ \A c \in acked : Says(disk, c, n, undone')
        /\ \A i \in 1..Len(writes) :
              writes[i].by = "approve" => Says(writes[i].content, writes[i].ack, n, undone')
    BY <1>0, <1>1, <2>u, SaysLater DEF RecordInv, Backed
  <2>9. Backed'
    BY <1>1, <2>2, <2>8 DEF Backed
  <2> QED
    BY <1>1, <2>6, <2>7, <2>9, FollowsItself DEF RecordInv
<1> QED
  BY <1>2, <1>3

\* Whoever changes memory writes it, and takes nothing off the record.
LEMMA CallersKeepRecord ==
    ASSUME TypeOK, TypeOK', RecordInv, TickOpen \/ TickClose \/ TickDecide \/ Approve
    PROVE  RecordInv' /\ disk' = disk
<1> DEFINE n == Len(opened)
           ticked == [content |-> mem', by |-> "tick", ack |-> NoChallenge]
<1>0. n \in Nat /\ mem \in AccessState /\ mem' \in AccessState /\ Distinct(mem, n)
  BY LenProperties DEF TypeOK, RecordInv, AllDistinct
<1>1. ticked \in Write /\ ticked.content = mem' /\ ticked.by # "approve"
  BY <1>0, Blank DEF Write, TypeOK
<1> HIDE DEF n, ticked
<1>2. CASE TickOpen
  <2>1. opened' = Append(opened, tick.visit) /\ tick.visit \in Visits
    BY <1>2 DEF TickOpen, TypeOK, Tick
  <2>2. Len(opened') = n + 1
    BY <2>1, AppendProperties DEF TypeOK, n
  <2>3. mem' = OpenChallenge(mem, n + 1) /\ ~IsOpen(mem)
    BY <1>2 DEF TickOpen, n
  <2>4. Follows(mem, mem', n + 1, undone)
    BY <1>0, <2>3, OpenFollows
  <2>5. Distinct(mem', n + 1)
    BY <1>0, <2>3 DEF Distinct, OpenChallenge, AccessState, Challenge
  <2>6. writes' = Append(writes, ticked)
    BY <1>2 DEF TickOpen, Persist, ticked
  <2> QED
    BY <1>0, <1>1, <1>2, <2>2, <2>4, <2>5, <2>6, ChangeKeepsRecord DEF TickOpen, n, loads
<1>3. CASE TickClose
  <2>1. mem' = AbandonChallenge(mem) /\ IsOpen(mem)
    BY <1>3 DEF TickClose
  <2>2. Follows(mem, mem', n, undone)
    BY <1>0, <2>1, AbandonFollows
  <2>3. Distinct(mem', n)
    BY <1>0, <2>1 DEF Distinct, AbandonChallenge, Newest, NoChallenge, IsOpen
  <2>4. writes' = Append(writes, ticked)
    BY <1>3 DEF TickClose, Persist, ticked
  <2> QED
    BY <1>0, <1>1, <1>3, <2>2, <2>3, <2>4, ChangeKeepsRecord DEF TickClose, n, loads
<1>4. CASE TickDecide
  <2>1. PICK required : mem' = [mem EXCEPT !.pending.verdict = Verdict(LookOf(tick)),
                                           !.pending.approval = NextApproval(mem.pending.approval, required)]
    BY <1>4 DEF TickDecide, ApplyDecision
  <2>2. /\ mem'.log = mem.log /\ mem'.pending.id = mem.pending.id
        /\ mem'.pending.approval = NextApproval(mem.pending.approval, required)
    BY <1>0, <2>1 DEF AccessState, Challenge
  <2>3. Follows(mem, mem', n, undone)
    BY <1>0, <2>2, PendingFollows DEF NextApproval
  <2>4. Distinct(mem', n)
    BY <1>0, <2>2 DEF Distinct, IsOpen
  <2>5. writes' = Append(writes, ticked)
    BY <1>4 DEF TickDecide, Persist, ticked
  <2> QED
    BY <1>0, <1>1, <1>4, <2>3, <2>4, <2>5, ChangeKeepsRecord DEF TickDecide, n, loads
<1>5. CASE Approve
  <2>1. PICK id \in 1..Len(opened), decision \in {"approved", "denied"} :
            MayResolve(mem, id) /\ mem' = ResolveApproval(mem, id, decision)
    BY <1>5 DEF Approve
  <2>2. /\ mem'.log = mem.log /\ mem'.pending.id = mem.pending.id
        /\ mem'.pending.approval = [state |-> decision, tap |-> id]
    BY <1>0, <2>1 DEF ResolveApproval, AccessState, Challenge
  <2>3. Follows(mem, mem', n, undone)
    BY <1>0, <2>1, <2>2, PendingFollows DEF MayResolve
  <2>4. Distinct(mem', n)
    BY <1>0, <2>2 DEF Distinct, IsOpen
  <2> DEFINE w == [content |-> mem', by |-> "approve", ack |-> mem'.pending]
  <2>5. w \in Write /\ w.content = mem' /\ writes' = Append(writes, w)
    BY <1>0, <1>5 DEF Write, Approve, AccessState
  <2>6. Says(mem', w.ack, n, undone)
    <3>1. Decided(mem'.pending.approval)
      BY <2>2 DEF Decided
    <3>2. mem'.pending \in OnRecord(mem')
      BY <2>1, <2>2 DEF OnRecord, MayResolve, IsOpen
    <3> QED
      BY <3>1, <3>2 DEF Says
  <2> HIDE DEF w
  <2> QED
    BY <1>0, <1>5, <2>3, <2>4, <2>5, <2>6, ChangeKeepsRecord DEF Approve, n, loads
<1>6. disk' = disk
  BY DEF TickOpen, TickClose, TickDecide, Approve
<1> QED
  BY <1>2, <1>3, <1>4, <1>5, <1>6

\* The others touch nothing the record depends on.
LEMMA OthersKeepRecord ==
    ASSUME RecordInv, UNCHANGED <<mem, disk, writes, opened, acked, loads>>
    PROVE  RecordInv' /\ Follows(disk, disk', Len(opened'), undone')
  BY FollowsItself DEF RecordInv, Chain, AllDistinct, Backed, loads

LEMMA StepKeepsRecord ==
    ASSUME InOrder, TypeOK, TypeOK', RecordInv, [Next]_<<setting, vars>>
    PROVE  RecordInv' /\ Follows(disk, disk', Len(opened'), undone')
<1>1. CASE World \/ TickStart \/ TickNothing \/ TickNotify \/ CaptureRequest
           \/ CaptureAnswered \/ Enrol \/ UNCHANGED <<setting, vars>>
  <2>1. UNCHANGED <<mem, disk, writes, opened, acked, loads>>
    BY <1>1
    DEF World, Enter, Leave, Push, GraceLapses, EdgeScrollsOut, FeedChanges, IncidentChanges,
        TickStart, TickNothing, TickNotify, CaptureRequest, CaptureAnswered, Enrol, vars
  <2> QED
    BY <2>1, OthersKeepRecord
<1>2. CASE TickOpen \/ TickClose \/ TickDecide \/ Approve
  BY <1>2, CallersKeepRecord, FollowsItself
<1>3. CASE WriteLands \/ WriteFails \/ Restart \/ LateLoad
  BY <1>3, FileKeepsRecord, LoadKeepsRecord
<1> QED
  BY <1>1, <1>2, <1>3 DEF Next, WallTick, Requests

\* The file only ever moves on: a challenge that access.json has shown is still in it
\* afterwards, as long as the log has room for it and no load has come back without it,
\* across failed writes, restarts, overlapping loads and illegible files, whatever the
\* setting, if the writes land in the order in which they were begun.
THEOREM AuditTrailGrows ==
    ASSUME InOrder
    PROVE  Spec => AuditOnlyGrows
<1>1. Init => RecordInv
  BY InitRecord
<1>2. TypeOK /\ TypeOK' /\ RecordInv /\ [Next]_<<setting, vars>> => RecordInv'
  BY StepKeepsRecord
<1>3. TypeOK /\ TypeOK' /\ RecordInv /\ [Next]_<<setting, vars>> =>
          [\A c \in OnRecord(disk) : Recent(c)' /\ c.id \notin undone' =>
              \E r \in OnRecord(disk') : r.id = c.id]_vars
  BY StepKeepsRecord DEF Follows, Recent
<1> QED
  BY <1>1, <1>2, <1>3, SentryTypes, PTL DEF Spec, AuditOnlyGrows

\* A decision that a human was told of stays on its challenge's record, in the file and
\* in memory, for any number of visits, captures, further taps, failed writes and
\* restarts, while the log has room for it, if the writes land in order and but for a
\* load that finds the challenge without it.
THEOREM DecisionsLast ==
    ASSUME InOrder
    PROVE  Spec => []DecisionDurable
<1>1. Init => RecordInv
  BY InitRecord
<1>2. TypeOK /\ TypeOK' /\ RecordInv /\ [Next]_<<setting, vars>> => RecordInv'
  BY StepKeepsRecord
<1>3. RecordInv => DecisionDurable
  <2> SUFFICES ASSUME RecordInv, NEW c \in acked, Recent(c), c.id \notin undone
               PROVE  \E r \in OnRecord(mem) : r.id = c.id /\ r.approval = c.approval
    BY DEF DecisionDurable
  <2>1. Says(disk, c, Len(opened), undone) /\ Follows(disk, mem, Len(opened), undone)
    BY DEF RecordInv, Backed, Chain
  <2>2. Says(mem, c, Len(opened), undone)
    BY <2>1, SaysOn
  <2> QED
    BY <2>2 DEF Says, Recent
<1> QED
  BY <1>1, <1>2, <1>3, SentryTypes, PTL DEF Spec
-----------------------------------------------------------------------------
(* Whose visit it is.                                                      *)

\* Visit v is over, the rack being as in r.
Over(v, r) == v < r.visit \/ (v = r.visit /\ ~r.here)

\* What the wall knows of the rack is a thing of the past or of now: the view, the tick
\* that works on a copy of it, and the challenges that were opened from one.
ViewBehind ==
    /\ view.visit <= rack.visit
    /\ ~view.here => Over(view.visit, rack)
    /\ ~May("window") /\ view.here => view.observed
    /\ \A i \in 1..Len(opened) : opened[i] <= view.visit
    /\ tick.pc # "idle" =>
        /\ tick.visit <= view.visit
        /\ \A i \in 1..Len(opened) : opened[i] <= tick.visit
    /\ tick.pc = "read" /\ tick.fresh /\ ~tick.present /\ ~May("window") => Over(tick.visit, rack)

\* Everybody whose visit is filed in s, of the challenges opened in o, has left: or has
\* only scrolled out of the log window, if that may happen.
FiledAreGone(s, o, r, scrolls) ==
    /\ s.pending.id <= Len(o)
    /\ \A e \in s.log : e.id \in 1..Len(o) /\ (~scrolls => Over(o[e.id], r))

\* In memory, in the file, in the writes on their way to it, and in what a load has read.
LeftInv ==
    /\ ViewBehind
    /\ FiledAreGone(mem, opened, rack, May("window"))
    /\ FiledAreGone(disk, opened, rack, May("window"))
    /\ \A i \in 1..Len(writes) : FiledAreGone(writes[i].content, opened, rack, May("window"))
    /\ \A s \in loading : FiledAreGone(s, opened, rack, May("window"))

\* A visit that is over stays over, and what was opened stays opened.
LEMMA FiledLater ==
    ASSUME NEW s \in AccessState, NEW o, NEW q, NEW r, NEW z, NEW w,
           FiledAreGone(s, o, r, w), Len(o) \in Nat, Len(q) \in Nat, Len(o) <= Len(q),
           \A i \in 1..Len(o) : q[i] = o[i],
           \A i \in 1..Len(o) : Over(o[i], r) => Over(o[i], z)
    PROVE  FiledAreGone(s, q, z, w)
<1>1. s.pending.id \in Nat
  BY DEF AccessState, Challenge
<1> QED
  BY <1>1 DEF FiledAreGone

LEMMA StepTypes ==
    ASSUME TypeOK
    PROVE  /\ setting \in Settings
           /\ rack.visit \in Nat /\ view.visit \in Nat /\ tick.visit \in Nat
           /\ rack.here \in BOOLEAN /\ view.here \in BOOLEAN /\ view.observed \in BOOLEAN
           /\ Len(opened) \in Nat /\ \A i \in 1..Len(opened) : opened[i] \in Nat
           /\ writes \in Seq(Write) /\ Len(writes) \in Nat
           /\ \A i \in 1..Len(writes) : writes[i] \in Write /\ writes[i].content \in AccessState
           /\ mem \in AccessState /\ disk \in AccessState
           /\ mem.pending \in Challenge /\ mem.pending.id \in Nat
<1>1. setting \in Settings /\ Visits \subseteq Nat
  BY Bounded DEF TypeOK
<1>2. /\ rack.visit \in Nat /\ view.visit \in Nat /\ tick.visit \in Nat
      /\ rack.here \in BOOLEAN /\ view.here \in BOOLEAN /\ view.observed \in BOOLEAN
  BY <1>1 DEF TypeOK, Rack, View, Tick
<1>3. Len(opened) \in Nat /\ \A i \in 1..Len(opened) : opened[i] \in Nat
  BY <1>1, LenProperties, ElementOfSeq DEF TypeOK
<1>4. /\ writes \in Seq(Write) /\ Len(writes) \in Nat
      /\ \A i \in 1..Len(writes) : writes[i] \in Write
  BY LenProperties, ElementOfSeq DEF TypeOK
<1>5. \A x \in Write : x.content \in AccessState
  BY DEF Write
<1>6. mem \in AccessState /\ disk \in AccessState /\ mem.pending \in Challenge /\ mem.pending.id \in Nat
  BY DEF TypeOK, AccessState, Challenge
<1> QED
  BY <1>1, <1>2, <1>3, <1>4, <1>5, <1>6

\* Only the visitors move the rack, and a visit that is over does not come back.
LEMMA RackMovesOn ==
    ASSUME TypeOK, [Next]_<<setting, vars>>
    PROVE  /\ setting' = setting
           /\ rack.visit <= rack'.visit
           /\ \A v \in Nat : Over(v, rack) => Over(v, rack')
<1>0. rack.visit \in Nat /\ setting' = setting
  BY StepTypes DEF Next
<1>1. CASE Enter
  <2>1. rack'.visit = rack.visit + 1
    BY <1>1 DEF Enter
  <2> QED
    BY <1>0, <2>1 DEF Over
<1>2. CASE Leave
  <2>1. rack'.visit = rack.visit /\ ~rack'.here
    BY <1>2 DEF Leave, TypeOK, Rack
  <2> QED
    BY <1>0, <2>1 DEF Over
<1>3. CASE ~Enter /\ ~Leave
  <2>1. rack' = rack
    BY <1>3 DEF Next, vars, World, WallTick, Requests, Push, GraceLapses, EdgeScrollsOut, FeedChanges,
       IncidentChanges, TickStart, TickNothing, TickOpen, TickClose, TickDecide, TickNotify,
       CaptureRequest, CaptureAnswered, Approve, Enrol, WriteLands, WriteFails, Restart, LateLoad
  <2> QED
    BY <1>0, <2>1
<1> QED
  BY <1>1, <1>2, <1>3

LEMMA StepKeepsView ==
    ASSUME TypeOK, TypeOK', Awaited, ViewBehind, [Next]_<<setting, vars>>
    PROVE  ViewBehind'
<1>0. /\ setting' = setting /\ rack.visit <= rack'.visit
      /\ \A v \in Nat : Over(v, rack) => Over(v, rack')
      /\ May("window")' <=> May("window")
  BY RackMovesOn DEF May
<1>t. /\ rack.visit \in Nat /\ view.visit \in Nat /\ tick.visit \in Nat
      /\ rack'.visit \in Nat /\ view'.visit \in Nat /\ tick'.visit \in Nat
      /\ Len(opened) \in Nat /\ \A i \in 1..Len(opened) : opened[i] \in Nat
      /\ \A i \in 1..Len(opened') : opened'[i] \in Nat
      /\ view \in View /\ tick \in Tick /\ IdleTick.pc = "idle"
  <2>1. /\ rack.visit \in Nat /\ view.visit \in Nat /\ tick.visit \in Nat
        /\ Len(opened) \in Nat /\ \A i \in 1..Len(opened) : opened[i] \in Nat
        /\ setting \in Settings
    BY StepTypes
  <2>2. rack' \in Rack /\ view' \in View /\ tick' \in Tick /\ opened' \in Seq(Visits)
    BY <1>0, SameTypes DEF TypeOK
  <2>3. Visits \subseteq Nat
    BY <2>1, Bounded
  <2>4. rack'.visit \in Nat /\ view'.visit \in Nat /\ tick'.visit \in Nat
    BY <2>2, <2>3 DEF Rack, View, Tick
  <2>5. \A i \in 1..Len(opened') : opened'[i] \in Nat
    BY <2>2, <2>3, ElementOfSeq
  <2> QED
    BY <2>1, <2>4, <2>5 DEF TypeOK, IdleTick
<1>1. CASE Push
  <2>1. view'.visit = rack.visit /\ view'.here = rack.here /\ view'.observed
    BY <1>1 DEF Push
  <2>2. UNCHANGED <<rack, tick, opened>>
    BY <1>1 DEF Push
  <2> QED
    BY <1>0, <1>t, <2>1, <2>2 DEF ViewBehind, Over
<1>2. CASE UNCHANGED <<view, tick, opened>>
  BY <1>0, <1>t, <1>2 DEF ViewBehind
<1>3. CASE GraceLapses
  <2>1. view'.visit = view.visit /\ view'.here = view.here /\ view'.observed = view.observed
    BY <1>t, <1>3 DEF GraceLapses, View
  <2> QED
    BY <1>0, <1>3, <2>1 DEF GraceLapses, ViewBehind
<1>4. CASE EdgeScrollsOut
  <2>1. view'.visit = view.visit /\ view'.here = view.here /\ May("window")
    BY <1>t, <1>4 DEF EdgeScrollsOut, View
  <2> QED
    BY <1>0, <1>4, <2>1 DEF EdgeScrollsOut, ViewBehind
<1>5. CASE TickStart
  <2>1. PICK readable \in {TRUE, fresh} :
            tick' = [pc |-> "read", fresh |-> fresh,
                     present |-> readable /\ view.here /\ view.observed,
                     visit |-> view.visit, opens |-> view.opens,
                     lapsed |-> view.lapsed, incident |-> incident]
    BY <1>5 DEF TickStart
  <2>2. tick'.visit = view.visit
    BY <2>1
  <2>3. tick'.fresh /\ ~tick'.present => ~(view.here /\ view.observed)
    <3>1. tick'.fresh = fresh /\ tick'.present = (readable /\ view.here /\ view.observed)
      BY <2>1
    <3> QED
      BY <3>1, Zenon
  <2>4. UNCHANGED <<rack, view, opened>>
    BY <1>5 DEF TickStart
  <2>5. tick'.fresh /\ ~tick'.present /\ ~May("window") => Over(tick'.visit, rack)
    BY <2>2, <2>3 DEF ViewBehind
  <2> QED
    BY <1>0, <1>t, <2>2, <2>4, <2>5 DEF ViewBehind
<1>6. CASE TickOpen
  <2>1. tick'.visit = tick.visit /\ tick'.pc = "opening" /\ tick.pc = "read"
    BY <1>t, <1>6 DEF TickOpen, Tick
  <2>2. /\ Len(opened') = Len(opened) + 1
        /\ \A i \in 1..Len(opened) : opened'[i] = opened[i]
        /\ opened'[Len(opened) + 1] = tick.visit
    <3>1. opened \in Seq(Visits) /\ tick.visit \in Visits /\ opened' = Append(opened, tick.visit)
      BY <1>6 DEF TypeOK, TickOpen, Tick
    <3> QED
      BY <3>1, AppendProperties
  <2>3. UNCHANGED <<rack, view>>
    BY <1>6 DEF TickOpen
  <2>4. \A i \in 1..Len(opened') : opened'[i] <= tick.visit
    <3>1. \A i \in 1..Len(opened') : i \in 1..Len(opened) \/ i = Len(opened) + 1
      BY <1>t, <2>2
    <3> QED
      BY <1>t, <2>1, <2>2, <3>1 DEF ViewBehind
  <2> QED
    BY <1>0, <1>t, <2>1, <2>3, <2>4 DEF ViewBehind
<1>7. ASSUME UNCHANGED <<rack, view, opened>>,
             \/ tick'.pc = "idle"
             \/ tick'.pc # "read" /\ tick.pc # "idle" /\ tick'.visit = tick.visit
      PROVE  ViewBehind'
  BY <1>0, <1>7 DEF ViewBehind
<1>8. CASE TickClose \/ TickDecide \/ TickNothing \/ TickNotify \/ Restart
  <2>1. UNCHANGED <<rack, view, opened>>
    BY <1>8 DEF TickClose, TickDecide, TickNothing, TickNotify, Restart
  <2>2. \/ tick'.pc = "idle"
        \/ tick'.pc # "read" /\ tick.pc # "idle" /\ tick'.visit = tick.visit
    BY <1>t, <1>8 DEF TickClose, TickDecide, TickNothing, TickNotify, Restart, Tick
  <2> QED
    BY <1>7, <2>1, <2>2
<1>9. CASE WriteLands \/ WriteFails
  <2>1. UNCHANGED <<rack, view, opened>>
    BY <1>9 DEF WriteLands, WriteFails
  <2>2. CASE tick' = tick
    BY <1>2, <2>1, <2>2
  <2>3. CASE tick' # tick
    <3>1. PICK i \in Landable :
            /\ writes[i].by # "approve"
            /\ \/ tick' = IdleTick
               \/ tick' = CASE tick.pc = "opening" -> [tick EXCEPT !.pc = "opened"]
                              [] tick.pc = "deciding" -> [tick EXCEPT !.pc = "decided"]
                              [] tick.pc = "closing" ->
                                    IF IsOpen(mem) THEN [tick EXCEPT !.pc = "opened"] ELSE IdleTick
      BY <1>9, <2>3 DEF WriteLands, WriteFails
    <3>2. i \in 1..Len(writes) /\ writes[i] \in Write
      BY StepTypes DEF Landable
    <3>3. tick.pc \in {"opening", "deciding", "closing"}
      BY <3>1, <3>2 DEF Awaited, Write
    <3>4. \/ tick'.pc = "idle"
          \/ tick'.pc # "read" /\ tick.pc # "idle" /\ tick'.visit = tick.visit
      BY <1>t, <3>1, <3>3 DEF Tick
    <3> QED
      BY <1>7, <2>1, <3>4
  <2> QED
    BY <2>2, <2>3
<1> QED
  BY <1>1, <1>2, <1>3, <1>4, <1>5, <1>6, <1>8, <1>9
  DEF Next, vars, World, WallTick, Requests, Enter, Leave, FeedChanges, IncidentChanges,
      CaptureRequest, CaptureAnswered, Approve, Enrol, LateLoad

\* A write in progress is, afterwards, one that was in progress or the new one.
LEMMA WritesGrow ==
    ASSUME TypeOK, NEW w \in Write, writes' = Append(writes, w),
           NEW i \in 1..Len(writes')
    PROVE  (i \in 1..Len(writes) /\ writes'[i] = writes[i]) \/ (i = Len(writes') /\ writes'[i] = w)
<1>1. /\ writes \in Seq(Write) /\ Len(writes) \in Nat
      /\ Len(writes') = Len(writes) + 1
      /\ \A j \in 1..Len(writes) : writes'[j] = writes[j]
      /\ writes'[Len(writes) + 1] = w
  BY StepTypes, AppendProperties
<1> QED
  BY <1>1

LEMMA WritesShrink ==
    ASSUME TypeOK, NEW k \in Landable, writes' = RemoveAt(writes, k),
           NEW i \in 1..Len(writes')
    PROVE  \E j \in 1..Len(writes) : writes'[i] = writes[j]
<1>1. /\ writes \in Seq(Write) /\ Len(writes) \in Nat /\ k \in 1..Len(writes)
      /\ Len(writes') = Len(writes) - 1
      /\ \A j \in 1..(Len(writes) - 1) : writes'[j] = IF j < k THEN writes[j] ELSE writes[j + 1]
  BY StepTypes, RemoveAtProperties DEF Landable
<1>2. i \in 1..Len(writes) /\ i + 1 \in 1..Len(writes)
  BY <1>1
<1>3. writes'[i] = writes[i] \/ writes'[i] = writes[i + 1]
  BY <1>1
<1> QED
  BY <1>2, <1>3

LEMMA StepKeepsLeft ==
    ASSUME TypeOK, TypeOK', Awaited, LeftInv, [Next]_<<setting, vars>>
    PROVE  LeftInv'
<1> DEFINE w == May("window")
           Filed(s) == FiledAreGone(s, opened, rack, w)
           FiledNext(s) == FiledAreGone(s, opened', rack', w)
<1>0. /\ setting' = setting /\ w' = w
      /\ \A v \in Nat : Over(v, rack) => Over(v, rack')
  BY RackMovesOn DEF May
<1>t. /\ mem \in AccessState /\ disk \in AccessState /\ mem.pending.id \in Nat
      /\ Len(opened) \in Nat /\ \A i \in 1..Len(opened) : opened[i] \in Nat
      /\ \A i \in 1..Len(writes) : writes[i].content \in AccessState
      /\ mem' \in AccessState /\ loading \subseteq AccessState
  BY StepTypes DEF TypeOK
<1>v. ViewBehind'
  BY StepKeepsView DEF LeftInv
<1>o. /\ Len(opened') \in Nat /\ Len(opened) <= Len(opened')
      /\ \A i \in 1..Len(opened) : opened'[i] = opened[i]
      /\ TickOpen => Len(opened') = Len(opened) + 1
  <2>1. CASE TickOpen
    <3>1. opened \in Seq(Visits) /\ tick.visit \in Visits /\ opened' = Append(opened, tick.visit)
      BY <2>1 DEF TypeOK, TickOpen, Tick
    <3> QED
      BY <1>t, <3>1, AppendProperties
  <2>2. CASE ~TickOpen
    <3>1. opened' = opened
      BY <2>2 DEF Next, vars, World, WallTick, Requests, Enter, Leave, Push, GraceLapses,
         EdgeScrollsOut, FeedChanges, IncidentChanges, TickStart, TickNothing, TickClose, TickDecide,
         TickNotify, CaptureRequest, CaptureAnswered, Approve, Enrol, WriteLands, WriteFails, Restart,
         LateLoad
    <3> QED
      BY <1>t, <2>2, <3>1
  <2> QED
    BY <2>1, <2>2
<1>k. \A s \in AccessState : Filed(s) => FiledNext(s)
  BY <1>0, <1>t, <1>o, FiledLater
<1>b. /\ Filed(mem) /\ Filed(disk) /\ \A i \in 1..Len(writes) : Filed(writes[i].content)
      /\ \A s \in loading : Filed(s)
  BY DEF LeftInv
<1>c. /\ FiledNext(mem) /\ FiledNext(disk) /\ \A i \in 1..Len(writes) : FiledNext(writes[i].content)
      /\ \A s \in loading : FiledNext(s)
  BY <1>b, <1>k, <1>t
<1>e. FiledNext(EMPTY)
  BY <1>o DEF FiledAreGone, EMPTY, NoChallenge
<1> HIDE DEF Filed
<1>q. SUFFICES /\ FiledNext(mem') /\ FiledNext(disk')
               /\ \A i \in 1..Len(writes') : FiledNext(writes'[i].content)
               /\ \A s \in loading' : FiledNext(s)
  BY <1>0, <1>v DEF LeftInv
<1>1. CASE UNCHANGED <<mem, disk, writes, loading>>
  BY <1>c, <1>1
<1> HIDE DEF FiledNext
<1>2. ASSUME NEW x \in Write, x.content = mem', writes' = Append(writes, x), disk' = disk,
             loading' = loading, FiledNext(mem')
      PROVE  /\ FiledNext(mem') /\ FiledNext(disk')
             /\ \A i \in 1..Len(writes') : FiledNext(writes'[i].content)
             /\ \A s \in loading' : FiledNext(s)
  BY <1>2, <1>c, WritesGrow
<1>3. ASSUME TickOpen \/ TickDecide \/ Approve
      PROVE  FiledNext(mem')
  <2>1. mem'.log = mem.log /\ mem'.pending.id <= Len(opened')
    <3>1. CASE TickOpen
      <4>1. mem' = OpenChallenge(mem, Len(opened) + 1)
        BY <3>1 DEF TickOpen
      <4>2. mem'.log = mem.log /\ mem'.pending.id = Len(opened) + 1
        BY <1>t, <4>1 DEF OpenChallenge, AccessState, Challenge
      <4> QED
        BY <1>t, <1>o, <3>1, <4>2
    <3>2. CASE TickDecide
      <4>1. mem'.log = mem.log /\ mem'.pending.id = mem.pending.id
        BY <1>t, <3>2 DEF TickDecide, ApplyDecision, AccessState, Challenge
      <4> QED
        BY <1>c, <4>1 DEF FiledNext, FiledAreGone
    <3>3. CASE Approve
      <4>1. mem'.log = mem.log /\ mem'.pending.id = mem.pending.id
        BY <1>t, <3>3 DEF Approve, ResolveApproval, AccessState, Challenge
      <4> QED
        BY <1>c, <4>1 DEF FiledNext, FiledAreGone
    <3> QED
      BY <1>3, <3>1, <3>2, <3>3
  <2> QED
    BY <1>c, <2>1 DEF FiledNext, FiledAreGone
<1>4. ASSUME TickClose
      PROVE  FiledNext(mem')
  <2>1. /\ mem'.pending.id = 0
        /\ \A e \in mem'.log : e = mem.pending \/ e \in mem.log
    BY <1>4 DEF TickClose, AbandonChallenge, Newest, NoChallenge
  <2>2. mem.pending.id \in 1..Len(opened)
    BY <1>b, <1>t, <1>4 DEF TickClose, IsOpen, Filed, FiledAreGone
  <2>3. ~w => Over(opened[mem.pending.id], rack)
    <3>1. ~w => Over(tick.visit, rack)
      BY <1>4 DEF TickClose, Frozen, LeftInv, ViewBehind
    <3>2. opened[mem.pending.id] <= tick.visit
      BY <1>4, <2>2 DEF TickClose, LeftInv, ViewBehind
    <3>3. opened[mem.pending.id] \in Nat /\ tick.visit \in Nat /\ rack.visit \in Nat
      BY <1>t, <2>2, StepTypes
    <3> QED
      BY <3>1, <3>2, <3>3 DEF Over
  <2>4. UNCHANGED <<opened, rack>>
    BY <1>4 DEF TickClose
  <2> QED
    BY <1>b, <1>t, <2>1, <2>2, <2>3, <2>4 DEF Filed, FiledNext, FiledAreGone
<1>5. CASE TickOpen \/ TickDecide \/ TickClose
  <2>1. /\ writes' = Append(writes, [content |-> mem', by |-> "tick", ack |-> NoChallenge])
        /\ disk' = disk /\ loading' = loading
    BY <1>5 DEF TickOpen, TickDecide, TickClose, Persist, loads
  <2>2. [content |-> mem', by |-> "tick", ack |-> NoChallenge] \in Write
    BY <1>t, Blank DEF Write, TypeOK
  <2> QED
    BY <1>2, <1>3, <1>4, <1>5, <2>1, <2>2
<1>6. CASE Approve
  <2>1. /\ writes' = Append(writes, [content |-> mem', by |-> "approve", ack |-> mem'.pending])
        /\ disk' = disk /\ loading' = loading
    BY <1>6 DEF Approve, loads
  <2>2. [content |-> mem', by |-> "approve", ack |-> mem'.pending] \in Write
    BY <1>t DEF Write, AccessState
  <2> QED
    BY <1>2, <1>3, <1>6, <2>1, <2>2
<1>7. CASE WriteLands \/ WriteFails
  <2>1. PICK k \in Landable : /\ writes' = RemoveAt(writes, k)
                              /\ disk' = disk \/ disk' = writes[k].content
                              /\ \A s \in loading' : s \in loading \/ s = disk'
    BY <1>7 DEF WriteLands, WriteFails, loads
  <2>2. mem' = mem /\ k \in 1..Len(writes)
    BY <1>7 DEF WriteLands, WriteFails, Landable
  <2>3. \A i \in 1..Len(writes') : \E j \in 1..Len(writes) : writes'[i] = writes[j]
    BY <2>1, WritesShrink
  <2> QED
    BY <1>c, <2>1, <2>2, <2>3
<1>8. CASE Restart
  <2>1. mem' = disk \/ mem' = EMPTY
    <3>1. Load(disk, {disk}) /\ {disk} \in SUBSET AccessState
      BY <1>t, <1>8 DEF Restart
    <3> QED
      BY <1>t, <3>1, LoadTypes
  <2>2. disk' = disk /\ Len(writes') = 0 /\ \A s \in loading' : s = disk
    BY <1>8 DEF Restart, SecondLoad
  <2> QED
    BY <1>c, <1>e, <2>1, <2>2
<1>9. CASE LateLoad
  <2>1. mem' \in loading \/ mem' = EMPTY
    BY <1>t, <1>9, LoadTypes DEF LateLoad
  <2>2. UNCHANGED <<disk, writes>> /\ loading' = {}
    BY <1>9 DEF LateLoad
  <2> QED
    BY <1>c, <1>e, <2>1, <2>2
<1> QED
  BY <1>1, <1>5, <1>6, <1>7, <1>8, <1>9
  DEF Next, vars, loads, World, WallTick, Requests, Enter, Leave, Push, GraceLapses, EdgeScrollsOut,
      FeedChanges, IncidentChanges, TickStart, TickNothing, TickNotify, CaptureRequest,
      CaptureAnswered, Enrol

\* While the entry edge cannot leave the log window, nobody is filed as gone who is
\* still at the rack: not after a feed that was stale, a write that failed or landed late,
\* a restart, loads that overlap or read nothing, or a visitor who follows before the wall
\* has ticked.
THEOREM FiledMeansGone == Spec => []PresentIsNotFiled
<1>1. Init => LeftInv
  <2> SUFFICES ASSUME Init PROVE LeftInv
    OBVIOUS
  <2>1. ViewBehind
    <3>1. /\ rack.visit = 0 /\ rack.here = FALSE /\ view.visit = 0 /\ view.here = FALSE
          /\ tick.pc = "idle" /\ Len(opened) = 0
      BY DEF Init, IdleTick
    <3> QED
      BY <3>1 DEF ViewBehind, Over
  <2>2. /\ FiledAreGone(mem, opened, rack, May("window")) /\ disk = mem /\ Len(writes) = 0
        /\ \A s \in loading : s = mem
    BY DEF Init, FiledAreGone, EMPTY, NoChallenge, SecondLoad
  <2> QED
    BY <2>1, <2>2 DEF LeftInv
<1>2. TypeOK /\ TypeOK' /\ Awaited /\ LeftInv /\ [Next]_<<setting, vars>> => LeftInv'
  BY StepKeepsLeft
<1>3. TypeOK /\ LeftInv => PresentIsNotFiled
  <2> SUFFICES ASSUME TypeOK, LeftInv, ~May("window"), NEW e \in mem.log, opened[e.id] = rack.visit
               PROVE  ~rack.here
    BY DEF PresentIsNotFiled, RetiredMeansGone
  <2>1. Over(rack.visit, rack)
    BY DEF LeftInv, FiledAreGone
  <2> QED
    BY <2>1, StepTypes DEF Over
<1> QED
  BY <1>1, <1>2, <1>3, SentryAwaits, PTL DEF Spec
-----------------------------------------------------------------------------
(* One visit at a time.                                                    *)

\* The wall sees a visitor out before the next one comes, a load is over before anybody
\* comes, and when the dashboard may die, what it comes back with is what it last wrote.
SeenOut == \A s \in Settings :
    /\ "close" \notin s.faults /\ "overlap" \notin s.faults
    /\ "crash" \in s.faults =>
        "write" \notin s.faults /\ "reorder" \notin s.faults /\ "unreadable" \notin s.faults

\* The wall has opened, or is about to answer, a challenge for the visitor it saw.
Answering == tick.pc \in {"opening", "opened", "deciding", "decided"}
Attending == Answering \/ (tick.pc = "read" /\ tick.present)

\* The challenge that is open in s, of those in o, is that of visit v, and so is the tap
\* that decided it.
OpenFor(s, o, v) == IsOpen(s) =>
    /\ s.pending.id \in 1..Len(o) /\ o[s.pending.id] = v
    /\ Decided(s.pending.approval) => s.pending.approval.tap = s.pending.id

\* Once the wall has closed a challenge nothing open is left in the file, or on its way
\* there: a restart does not bring the last visit's challenge back.
Settled ==
    /\ OpenFor(disk, opened, rack.visit)
    /\ \A i \in 1..Len(writes) : OpenFor(writes[i].content, opened, rack.visit)
    /\ ~IsOpen(mem) /\ tick.pc # "closing" => Len(writes) = 0 /\ ~IsOpen(disk)
    /\ tick.pc = "closing" =>
        /\ Len(writes) > 0 /\ writes[Len(writes)].by = "tick"
        /\ ~IsOpen(writes[Len(writes)].content)

VisitInv ==
    /\ view.here => view.visit = rack.visit
    /\ Attending => tick.visit = rack.visit
    /\ Answering => IsOpen(mem)
    /\ tick.pc = "closing" => ~IsOpen(mem)
    /\ loading = {}
    /\ OpenFor(mem, opened, rack.visit)
    /\ May("crash") => Settled

\* What is opened later does not change whose challenge it is.
LEMMA OpenForLater ==
    ASSUME NEW s, NEW o, NEW q, NEW v, OpenFor(s, o, v), Len(o) \in Nat, Len(q) \in Nat,
           Len(o) <= Len(q), \A i \in 1..Len(o) : q[i] = o[i]
    PROVE  OpenFor(s, q, v)
  BY DEF OpenFor

\* A new visitor finds nothing open.
LEMMA EnterKeepsVisit ==
    ASSUME SeenOut, TypeOK, VisitInv, setting' = setting, Enter
    PROVE  VisitInv'
<1>1. /\ ~May("close")
      /\ tick.pc = "idle" /\ ~IsOpen(mem) /\ ~view.here
  BY StepTypes DEF SeenOut, Enter, May, SentryQuiet
<1>2. UNCHANGED <<view, mem, disk, writes, tick, opened, loading>>
  BY DEF Enter, loads
<1>3. May("crash") => Len(writes) = 0 /\ ~IsOpen(disk)
  BY <1>1 DEF VisitInv, Settled
<1>4. May("crash")' <=> May("crash")
  BY DEF May
<1>5. May("crash") => Settled'
  BY <1>1, <1>2, <1>3 DEF Settled, OpenFor, IsOpen
<1> QED
  BY <1>1, <1>2, <1>4, <1>5 DEF VisitInv, Attending, Answering, OpenFor, IsOpen

\* A step that changes neither visit nor record.
LEMMA OthersKeepVisit ==
    ASSUME TypeOK, VisitInv, setting' = setting, rack'.visit = rack.visit,
           UNCHANGED <<mem, disk, writes, opened, loading>>,
           view'.here => view'.visit = rack.visit,
           Attending' => tick'.visit = rack.visit,
           Answering' => Answering,
           tick'.pc = "closing" <=> tick.pc = "closing"
    PROVE  VisitInv'
<1>1. May("crash")' <=> May("crash")
  BY DEF May
<1>2. Settled => Settled'
  BY DEF Settled
<1> QED
  BY <1>1, <1>2 DEF VisitInv

LEMMA QuietKeepVisit ==
    ASSUME SeenOut, TypeOK, VisitInv, setting' = setting,
           \/ World \/ TickStart \/ TickNothing \/ TickNotify
           \/ CaptureRequest \/ CaptureAnswered \/ Enrol
    PROVE  VisitInv'
<1>t. /\ rack \in Rack /\ view \in View /\ tick \in Tick /\ IdleTick.pc = "idle"
      /\ rack.visit \in Nat
  BY StepTypes DEF TypeOK, IdleTick
<1>1. CASE Enter
  BY <1>1, EnterKeepsVisit
<1>2. CASE World /\ ~Enter
  <2>1. UNCHANGED <<mem, disk, writes, opened, tick, loading>>
    BY <1>2 DEF loads, World, Leave, Push, GraceLapses, EdgeScrollsOut, FeedChanges, IncidentChanges
  <2>2. rack'.visit = rack.visit /\ (view'.here => view'.visit = rack.visit)
    <3>1. CASE Leave
      BY <1>t, <3>1 DEF Leave, Rack, VisitInv
    <3>2. CASE Push
      BY <1>t, <3>2 DEF Push
    <3>3. CASE GraceLapses \/ EdgeScrollsOut
      BY <1>t, <3>3 DEF GraceLapses, EdgeScrollsOut, View, VisitInv
    <3>4. CASE FeedChanges \/ IncidentChanges
      BY <3>4 DEF FeedChanges, IncidentChanges, VisitInv
    <3> QED
      BY <1>2, <3>1, <3>2, <3>3, <3>4 DEF World
  <2> QED
    BY <2>1, <2>2, OthersKeepVisit DEF VisitInv, Attending, Answering
<1>3. CASE TickStart
  <2>1. PICK readable \in {TRUE, fresh} :
            tick' = [pc |-> "read", fresh |-> fresh,
                     present |-> readable /\ view.here /\ view.observed,
                     visit |-> view.visit, opens |-> view.opens,
                     lapsed |-> view.lapsed, incident |-> incident]
    BY <1>3 DEF TickStart
  <2>2. tick'.pc = "read" /\ tick'.visit = view.visit /\ tick'.present = (readable /\ view.here /\ view.observed)
    BY <2>1
  <2>3. tick'.present => view.here
    BY <2>2, Zenon
  <2>4. UNCHANGED <<rack, view, mem, disk, writes, opened, loading>> /\ tick.pc = "idle"
    BY <1>3 DEF TickStart, loads
  <2> QED
    BY <2>2, <2>3, <2>4, OthersKeepVisit DEF VisitInv, Attending, Answering
<1>4. CASE TickNothing \/ TickNotify \/ CaptureRequest \/ CaptureAnswered \/ Enrol
  <2>1. /\ UNCHANGED <<rack, view, mem, disk, writes, opened, loading>>
        /\ tick' = tick \/ (tick'.pc = "idle" /\ tick.pc # "closing")
    BY <1>t, <1>4 DEF TickNothing, TickNotify, CaptureRequest, CaptureAnswered, Enrol, loads
  <2> QED
    BY <2>1, OthersKeepVisit DEF VisitInv, Attending, Answering
<1> QED
  BY <1>1, <1>2, <1>3, <1>4

\* The wall's own changes, and an approval, are for the visit under way.
LEMMA ChangeKeepsVisit ==
    ASSUME TypeOK, TypeOK', VisitInv, setting' = setting,
           UNCHANGED <<rack, view, disk, loading>>,
           NEW w \in Write, w.content = mem', writes' = Append(writes, w),
           Len(opened) <= Len(opened'), \A i \in 1..Len(opened) : opened'[i] = opened[i],
           OpenFor(mem', opened', rack.visit),
           IsOpen(mem') \/ (tick'.pc = "closing" /\ w.by = "tick"),
           tick'.pc = "closing" => ~IsOpen(mem') /\ w.by = "tick",
           Attending' => tick'.visit = rack.visit,
           Answering' => IsOpen(mem')
    PROVE  VisitInv'
<1>t. /\ Len(opened) \in Nat /\ writes \in Seq(Write) /\ Len(writes) \in Nat
      /\ Len(writes') = Len(writes) + 1 /\ writes'[Len(writes')] = w
      /\ Len(opened') \in Nat
  <2>1. opened' \in Seq(Visits) /\ opened \in Seq(Visits)
    BY SameTypes DEF TypeOK
  <2> QED
    BY <2>1, StepTypes, AppendProperties, LenProperties
<1>1. May("crash")' <=> May("crash")
  BY DEF May
<1>2. ASSUME Settled PROVE Settled'
  <2>1. OpenFor(disk', opened', rack.visit)
    BY <1>t, <1>2, OpenForLater DEF Settled
  <2>2. ASSUME NEW i \in 1..Len(writes') PROVE OpenFor(writes'[i].content, opened', rack.visit)
    <3>1. CASE i \in 1..Len(writes) /\ writes'[i] = writes[i]
      BY <1>t, <1>2, <3>1, OpenForLater DEF Settled
    <3>2. CASE writes'[i] = w
      BY <3>2
    <3> QED
      BY <3>1, <3>2, WritesGrow
  <2> QED
    BY <1>t, <2>1, <2>2 DEF Settled
<1> QED
  BY <1>1, <1>2 DEF VisitInv

LEMMA CallersKeepVisit ==
    ASSUME TypeOK, TypeOK', VisitInv, setting' = setting,
           TickOpen \/ TickClose \/ TickDecide \/ Approve
    PROVE  VisitInv'
<1>t. /\ tick \in Tick /\ mem \in AccessState /\ mem.pending \in Challenge
      /\ Len(opened) \in Nat /\ opened \in Seq(Visits)
      /\ setting \in Settings /\ mem' \in AccessState
  BY StepTypes DEF TypeOK
<1>w. [content |-> mem', by |-> "tick", ack |-> NoChallenge] \in Write
  BY <1>t, Blank DEF Write
<1>1. CASE TickOpen
  <2>1. /\ Len(opened') = Len(opened) + 1
        /\ \A i \in 1..Len(opened) : opened'[i] = opened[i]
        /\ opened'[Len(opened) + 1] = tick.visit
    <3>1. tick.visit \in Visits /\ opened' = Append(opened, tick.visit)
      BY <1>1, <1>t DEF TickOpen, Tick
    <3> QED
      BY <1>t, <3>1, AppendProperties
  <2>2. mem'.pending = [id |-> Len(opened) + 1, verdict |-> "pending-capture", approval |-> NotRequired]
    BY <1>1, <1>t DEF TickOpen, OpenChallenge, AccessState
  <2>3. mem'.pending.id = Len(opened) + 1 /\ ~Decided(mem'.pending.approval)
    BY <2>2 DEF NotRequired, Decided
  <2>4. tick.visit = rack.visit
    BY <1>1 DEF TickOpen, VisitInv, Attending
  <2>5. OpenFor(mem', opened', rack.visit) /\ IsOpen(mem')
    BY <1>t, <2>1, <2>3, <2>4 DEF OpenFor, IsOpen
  <2>6. tick'.pc = "opening" /\ tick'.visit = tick.visit
    BY <1>1, <1>t DEF TickOpen, Tick
  <2>7. /\ UNCHANGED <<rack, view, disk, loading>>
        /\ writes' = Append(writes, [content |-> mem', by |-> "tick", ack |-> NoChallenge])
    BY <1>1 DEF TickOpen, Persist, loads
  <2> QED
    BY <1>t, <1>w, <2>1, <2>4, <2>5, <2>6, <2>7, ChangeKeepsVisit
<1>2. CASE TickClose
  <2>1. ~IsOpen(mem')
    BY <1>2 DEF TickClose, AbandonChallenge, NoChallenge, IsOpen
  <2>2. tick'.pc = "closing"
    BY <1>2, <1>t DEF TickClose, Tick
  <2>3. /\ UNCHANGED <<rack, view, disk, opened, loading>>
        /\ writes' = Append(writes, [content |-> mem', by |-> "tick", ack |-> NoChallenge])
    BY <1>2 DEF TickClose, Persist, loads
  <2> QED
    BY <1>t, <1>w, <2>1, <2>2, <2>3, ChangeKeepsVisit DEF OpenFor, Attending, Answering
<1>3. CASE TickDecide
  <2>1. IsOpen(mem) /\ tick.visit = rack.visit
    BY <1>3 DEF TickDecide, VisitInv, Attending, Answering
  <2>2. /\ mem'.pending.id = mem.pending.id
        /\ mem'.pending.approval =
              NextApproval(mem.pending.approval, ApprovalRequired(LookOf(tick)))
    BY <1>3, <1>t DEF TickDecide, ApplyDecision, AccessState, Challenge
  <2>3. Decided(mem'.pending.approval) => mem'.pending.approval = mem.pending.approval
    BY <2>2 DEF NextApproval, Decided, NotRequired
  <2>4. OpenFor(mem', opened, rack.visit) /\ IsOpen(mem')
    BY <2>1, <2>2, <2>3 DEF VisitInv, OpenFor, IsOpen
  <2>5. tick'.pc = "deciding" /\ tick'.visit = tick.visit
    BY <1>3, <1>t DEF TickDecide, Tick
  <2>6. /\ UNCHANGED <<rack, view, disk, opened, loading>>
        /\ writes' = Append(writes, [content |-> mem', by |-> "tick", ack |-> NoChallenge])
    BY <1>3 DEF TickDecide, Persist, loads
  <2> QED
    BY <1>t, <1>w, <2>1, <2>4, <2>5, <2>6, ChangeKeepsVisit
<1>4. CASE Approve
  <2>1. PICK id \in 1..Len(opened), decision \in {"approved", "denied"} :
            MayResolve(mem, id) /\ mem' = ResolveApproval(mem, id, decision)
    BY <1>4 DEF Approve
  <2>2. /\ IsOpen(mem) /\ mem'.pending.id = id /\ mem.pending.id = id
        /\ mem'.pending.approval = [state |-> decision, tap |-> id]
    BY <1>t, <2>1 DEF MayResolve, ResolveApproval, AccessState, Challenge
  <2>3. OpenFor(mem', opened, rack.visit) /\ IsOpen(mem')
    BY <2>2 DEF VisitInv, OpenFor, IsOpen
  <2>4. /\ UNCHANGED <<rack, view, disk, opened, tick, loading>>
        /\ writes' = Append(writes, [content |-> mem', by |-> "approve", ack |-> mem'.pending])
    BY <1>4 DEF Approve, loads
  <2>5. [content |-> mem', by |-> "approve", ack |-> mem'.pending] \in Write
    BY <1>t DEF Write, AccessState
  <2>6. tick.pc # "closing"
    BY <2>2 DEF VisitInv
  <2> QED
    BY <1>t, <2>3, <2>4, <2>5, <2>6, ChangeKeepsVisit DEF VisitInv, Attending, Answering
<1> QED
  BY <1>1, <1>2, <1>3, <1>4

\* A write that lands lets the tick go on with the visitor it was attending.
LEMMA FileKeepsVisit ==
    ASSUME SeenOut, TypeOK, TypeOK', Awaited, VisitInv, setting' = setting,
           WriteLands \/ WriteFails \/ Restart \/ LateLoad
    PROVE  VisitInv'
<1>t. /\ tick \in Tick /\ IdleTick.pc = "idle" /\ setting \in Settings
      /\ writes \in Seq(Write) /\ Len(writes) \in Nat
      /\ \A i \in 1..Len(writes) : writes[i] \in Write
  BY StepTypes DEF TypeOK, IdleTick
<1>1. May("crash")' <=> May("crash")
  BY DEF May
<1>2. /\ May("crash") => ~May("write") /\ ~May("reorder") /\ ~May("unreadable")
      /\ ~May("overlap") /\ loading = {}
  BY <1>t DEF SeenOut, May, VisitInv
<1>3. CASE WriteLands \/ WriteFails
  <2>1. UNCHANGED <<rack, view, mem, opened, loading>>
    BY <1>2, <1>3 DEF WriteLands, WriteFails, loads
  <2>2. /\ Attending' => tick'.visit = rack.visit
        /\ Answering' => Answering
        /\ tick'.pc = "closing" => tick.pc = "closing"
    <3>1. CASE tick' = tick
      BY <2>1, <3>1 DEF VisitInv, Attending, Answering
    <3>2. CASE tick' # tick
      <4>1. PICK i \in Landable :
              /\ writes[i].by # "approve"
              /\ \/ tick' = IdleTick
                 \/ tick' = CASE tick.pc = "opening" -> [tick EXCEPT !.pc = "opened"]
                                [] tick.pc = "deciding" -> [tick EXCEPT !.pc = "decided"]
                                [] tick.pc = "closing" ->
                                      IF IsOpen(mem) THEN [tick EXCEPT !.pc = "opened"] ELSE IdleTick
        BY <1>3, <3>2 DEF WriteLands, WriteFails
      <4>2. tick.pc \in {"opening", "deciding", "closing"}
        BY <1>t, <4>1 DEF Awaited, Write, Landable
      <4>3. \/ tick'.pc = "idle"
            \/ tick'.pc \in {"opened", "decided"} /\ Answering /\ tick'.visit = tick.visit
        BY <1>t, <4>1, <4>2 DEF Answering, Tick, VisitInv
      <4> QED
        BY <4>3 DEF VisitInv, Attending, Answering
    <3> QED
      BY <3>1, <3>2
  <2>3. ASSUME May("crash") PROVE Settled'
    <3>1. /\ WriteLands /\ 1 \in 1..Len(writes)
          /\ disk' = writes[1].content /\ writes' = RemoveAt(writes, 1)
          /\ tick' = IF writes[1].by = "approve" THEN tick
                     ELSE CASE tick.pc = "opening" -> [tick EXCEPT !.pc = "opened"]
                            [] tick.pc = "deciding" -> [tick EXCEPT !.pc = "decided"]
                            [] tick.pc = "closing" ->
                                  IF IsOpen(mem) THEN [tick EXCEPT !.pc = "opened"] ELSE IdleTick
      BY <1>2, <1>3, <2>3 DEF WriteLands, WriteFails, Landable
    <3>2. /\ Len(writes') = Len(writes) - 1
          /\ \A j \in 1..(Len(writes) - 1) : writes'[j] = writes[j + 1]
      BY <1>t, <3>1, RemoveAtProperties
    <3>3. Settled /\ IsOpen(mem)' = IsOpen(mem)
      BY <2>1, <2>3 DEF VisitInv
    <3>4. /\ OpenFor(disk', opened', rack'.visit)
          /\ \A i \in 1..Len(writes') : OpenFor(writes'[i].content, opened', rack'.visit)
      BY <1>t, <2>1, <3>1, <3>2, <3>3 DEF Settled
    <3>5. CASE writes[1].by = "approve"
      <4>1. tick' = tick
        BY <3>1, <3>5
      <4>2. ~(~IsOpen(mem) /\ tick.pc # "closing")
        BY <1>t, <3>1, <3>3 DEF Settled
      <4>3. ASSUME tick.pc = "closing"
            PROVE  Len(writes') > 0 /\ writes'[Len(writes')] = writes[Len(writes)]
        <5>1. Len(writes) # 1
          BY <3>3, <3>5, <4>3 DEF Settled
        <5> QED
          BY <1>t, <3>1, <3>2, <5>1
      <4> QED
        BY <2>1, <3>3, <3>4, <4>1, <4>2, <4>3 DEF Settled
    <3>6. CASE writes[1].by # "approve"
      <4>1. writes[1].by = "tick" /\ tick.pc \in {"opening", "deciding", "closing"}
        BY <1>t, <3>1, <3>6 DEF Awaited, Write
      <4>2. CASE tick.pc = "closing"
        <5>0. Len(writes) \in 1..Len(writes)
          BY <1>t, <3>1
        <5>1. Len(writes) = 1 /\ ~IsOpen(writes[1].content)
          <6>1. writes[Len(writes)].by = "tick" /\ ~IsOpen(writes[Len(writes)].content)
            BY <3>3, <4>2 DEF Settled
          <6>2. 1 = Len(writes)
            BY <3>1, <4>1, <5>0, <6>1 DEF Awaited
          <6> QED
            BY <6>1, <6>2
        <5>2. tick'.pc = "idle"
          BY <1>t, <3>1, <3>6, <4>2 DEF VisitInv
        <5>3. Len(writes') = 0
          BY <3>2, <5>1
        <5>4. disk'.pending.id = 0
          BY <3>1, <5>1 DEF IsOpen
        <5> QED
          BY <3>4, <5>2, <5>3, <5>4 DEF Settled, IsOpen
      <4>3. CASE tick.pc # "closing"
        <5>1. IsOpen(mem)
          BY <4>1, <4>3 DEF VisitInv, Answering
        <5>2. tick'.pc # "closing"
          BY <1>t, <3>1, <3>6, <4>1, <4>3 DEF Tick
        <5> QED
          BY <2>1, <3>4, <5>1, <5>2 DEF Settled
      <4> QED
        BY <4>2, <4>3
    <3> QED
      BY <3>5, <3>6
  <2> QED
    BY <1>1, <2>1, <2>2, <2>3 DEF VisitInv
<1>4. CASE Restart
  <2>1. /\ mem' = disk /\ UNCHANGED <<rack, view, disk, opened, loading>>
        /\ Len(writes') = 0 /\ tick'.pc = "idle" /\ May("crash")
    BY <1>2, <1>4, <1>t DEF Restart, Load, Readings, SecondLoad
  <2> QED
    BY <1>1, <2>1 DEF VisitInv, Settled, Attending, Answering
<1>5. ~LateLoad
  BY <1>2 DEF LateLoad
<1> QED
  BY <1>3, <1>4, <1>5

LEMMA OneVisitAtATime ==
    ASSUME SeenOut
    PROVE  Spec => []VisitInv
<1>1. Init => VisitInv
  <2> SUFFICES ASSUME Init PROVE VisitInv
    OBVIOUS
  <2>1. /\ view.here = FALSE /\ tick.pc = "idle" /\ disk = mem /\ Len(writes) = 0
        /\ mem.pending.id = 0 /\ loading = {}
    BY DEF Init, IdleTick, EMPTY, NoChallenge, SecondLoad, SeenOut, May
  <2> QED
    BY <2>1 DEF VisitInv, Settled, Attending, Answering, OpenFor, IsOpen
<1>2. TypeOK /\ TypeOK' /\ Awaited /\ VisitInv /\ [Next]_<<setting, vars>> => VisitInv'
  <2> SUFFICES ASSUME TypeOK, TypeOK', Awaited, VisitInv, [Next]_<<setting, vars>>
               PROVE  VisitInv'
    OBVIOUS
  <2>1. CASE Next
    BY <2>1, QuietKeepVisit, CallersKeepVisit, FileKeepsVisit DEF Next, WallTick, Requests
  <2>2. CASE UNCHANGED <<setting, vars>>
    BY <2>2, OthersKeepVisit DEF vars, loads, VisitInv, Attending, Answering
  <2> QED
    BY <2>1, <2>2
<1> QED
  BY <1>1, <1>2, SentryAwaits, PTL DEF Spec

\* If the wall sees each visitor out before the next one comes, no load is under way when
\* memory is in use, and a write neither fails nor is overtaken and the file is legible
\* where the dashboard may die, an approval only relaxes the visit whose
\* challenge was tapped: with a feed that goes stale, an edge that scrolls out of the log,
\* identities that come late, and restarts at any moment.
THEOREM ApprovalsAreNotInherited ==
    ASSUME SeenOut
    PROVE  Spec => []NoInheritedApproval
<1>1. VisitInv => NoInheritedApproval
  BY DEF VisitInv, NoInheritedApproval, Answering, Attending, OpenFor, Decided
<1> QED
  BY <1>1, OneVisitAtATime, PTL

\* A capture is stored at once, and forgotten with the challenge it was taken for.
CaptureInv ==
    /\ asking = {}
    /\ captured.taken => IsOpen(mem) /\ captured.visit = rack.visit

\* If, besides, captures are identified at once, the identity in hand is always that of
\* the visit the open challenge is about.
THEOREM IdentitiesAreOfTheVisit ==
    ASSUME SeenOut, \A s \in Settings : "slow" \notin s.faults
    PROVE  Spec => []IdentityOfTheVisit
<1>1. Init => CaptureInv
  BY DEF Init, CaptureInv, NoCapture
<1>2. TypeOK /\ VisitInv /\ CaptureInv /\ [Next]_<<setting, vars>> => CaptureInv'
  <2> SUFFICES ASSUME TypeOK, VisitInv, CaptureInv, [Next]_<<setting, vars>>
               PROVE  CaptureInv'
    OBVIOUS
  <2>t. rack \in Rack /\ ~May("slow") /\ ~May("close") /\ NoCapture.taken = FALSE
    BY StepTypes DEF TypeOK, May, SeenOut, NoCapture
  <2>1. CASE CaptureRequest
    <3>1. PICK a \in Answers : captured' = a
      BY <2>1, <2>t DEF CaptureRequest, StoreCapture
    <3>2. a.visit = rack.visit
      BY <3>1 DEF Answers
    <3> QED
      BY <2>1, <2>t, <3>1, <3>2 DEF CaptureRequest, CaptureInv
  <2>l. ~LateLoad
    BY DEF VisitInv, LateLoad
  <2>2. CASE TickClose \/ Restart
    BY <2>2, <2>t DEF TickClose, CapturedAfterLeaving, Restart, CaptureInv
  <2>3. CASE Enter
    BY <2>3, <2>t DEF Enter, SentryQuiet, CaptureInv
  <2>4. CASE TickOpen \/ TickDecide \/ Approve
    <3>1. UNCHANGED <<captured, asking, rack>>
      BY <2>4 DEF TickOpen, TickDecide, Approve
    <3>2. IsOpen(mem) => IsOpen(mem')
      <4>1. mem \in AccessState /\ mem.pending \in Challenge
        BY StepTypes
      <4>2. CASE TickOpen
        BY <4>2 DEF TickOpen
      <4>3. CASE TickDecide
        BY <4>1, <4>3 DEF TickDecide, ApplyDecision, IsOpen, AccessState, Challenge
      <4>4. CASE Approve
        BY <4>1, <4>4 DEF Approve, ResolveApproval, IsOpen, AccessState, Challenge
      <4> QED
        BY <2>4, <4>2, <4>3, <4>4
    <3> QED
      BY <3>1, <3>2 DEF CaptureInv
  <2>5. CASE CaptureAnswered
    BY <2>5 DEF CaptureAnswered, CaptureInv
  <2>6. CASE /\ ~CaptureRequest /\ ~TickClose /\ ~Restart /\ ~Enter /\ ~TickOpen /\ ~TickDecide
             /\ ~Approve /\ ~CaptureAnswered
    <3>1. UNCHANGED <<captured, asking, mem>> /\ rack'.visit = rack.visit
      BY <2>6, <2>l, <2>t DEF Next, vars, World, WallTick, Requests, Leave, Push, GraceLapses, EdgeScrollsOut,
         FeedChanges, IncidentChanges, TickStart, TickNothing, TickNotify, Enrol, WriteLands,
         WriteFails, Rack
    <3> QED
      BY <3>1 DEF CaptureInv
  <2> QED
    BY <2>1, <2>2, <2>3, <2>4, <2>5, <2>6
<1>3. VisitInv /\ CaptureInv => IdentityOfTheVisit
  BY DEF VisitInv, CaptureInv, IdentityOfTheVisit, OpenFor
<1> QED
  BY <1>1, <1>2, <1>3, OneVisitAtATime, SentryTypes, PTL DEF Spec
=============================================================================
