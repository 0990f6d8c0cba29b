---------------------------- MODULE AccessSentry ----------------------------
(***************************************************************************)
(* The access sentry of the dashboard (access/sentry.ts, access/state.ts): *)
(* presence in the sensor log opens a challenge, a capture from the phone  *)
(* identifies the visitor, a human decides, and the visit is filed.        *)
(*                                                                         *)
(* Three callers share the sentry's memory: the wall's tick, which never   *)
(* overlaps itself (server.ts), the capture requests and the approvals.    *)
(* They interleave wherever one of them awaits: a write of access.json or  *)
(* an answer of the identity backend.                                      *)
(***************************************************************************)
EXTENDS AccessDecision, SequencesExt

CONSTANTS
    Persons,        \* who may walk up to the rack
    Enrolled,       \* who is on the roster to begin with
    Opens,          \* how many door edges an entry may leave
    LogLimit,       \* how many challenges the audit log holds (50 in the code)
    Settings        \* what a behavior may be about: its bounds and its faults

\* stale: the feed cuts out.  window: the entry edge leaves the log window while
\* the visitor stays.  slow: faces are identified by another process.  close: a
\* visitor may follow another before the wall has ticked in between.  reorder:
\* overlapping writes may land in any order.  write: a write may fail.  crash:
\* the dashboard may be restarted.  overlap: a second caller may come while the
\* first load is not over.  unreadable: access.json may not be legible when it
\* is loaded.  mute: no Telegram credentials.  send: a page may not get through.
FaultKinds == {"stale", "window", "slow", "close", "reorder", "write", "crash",
               "overlap", "unreadable", "mute", "send"}

\* incidents: whether the assessment may call for an incident context.  visits.
\* asking: captures being identified at once, 0 for no camera.  challenges: after
\* that many the dashboard no longer dies, and no load is under way any more.
Setting == [faults : SUBSET FaultKinds, incidents : {{FALSE}, BOOLEAN},
            visits : Nat, asking : Nat, challenges : Nat]

ASSUME PersonsAssumption == Persons # {} /\ Enrolled \subseteq Persons
ASSUME OpensAssumption == Opens # {} /\ Opens \subseteq Nat
ASSUME LogLimitAssumption == LogLimit \in Nat \ {0}
ASSUME SettingsAssumption == Settings \subseteq Setting

VARIABLES
    setting,   \* what this behavior is about
    rack,      \* the world: the visit under way, and who it is
    view,      \* the sensor log the dashboard reads: the newest presence edge
    fresh,     \* feedFresh
    incident,  \* the assessment calls for an incident context
    roster,    \* roster.json
    mem,       \* AccessSentry.state: the open challenge and the audit log
    captured,  \* AccessSentry.captured
    photo,     \* AccessSentry.photo
    asking,    \* captures being identified by the backend
    disk,      \* access.json
    writes,    \* writes of access.json under way, in the order they were begun
    tick,      \* the wall's tick: where it is, and what it read
    loading,   \* what a load of access.json that is not over will come back with
    notified,  \* challenges a page was sent for
    told,      \* history: challenges whose page got through
    missed,    \* history: challenges whose page is shown undelivered on the wall
    undone,    \* history: challenges a load took out of memory, or their decision
    opened,    \* history: the visit each challenge was opened for
    acked      \* history: decisions acknowledged to the human who took them

pages == <<notified, told, missed>>
loads == <<loading, undone>>
vars == <<rack, view, fresh, incident, roster, mem, captured, photo, asking,
          disk, writes, tick, pages, loads, opened, acked>>
-----------------------------------------------------------------------------
May(fault) == fault \in setting.faults

Visits == 0..setting.visits

ApprovalStates == {"not-required", "pending", "approved", "denied"}
\* tap: the challenge id the human answered, 0 while nobody has.
Approval == [state : ApprovalStates, tap : Nat]
NotRequired == [state |-> "not-required", tap |-> 0]

Challenge == [id : Nat, verdict : Verdicts, approval : Approval]
NoChallenge == [id |-> 0, verdict |-> "idle", approval |-> NotRequired]

\* The log is a set: it is newest first, and the newer of two has the greater id.
AccessState == [pending : Challenge, log : SUBSET Challenge]
EMPTY == [pending |-> NoChallenge, log |-> {}]

\* The faces of a capture; visit: whose picture it really is.
Capture == [taken : BOOLEAN, known : Nat, unknown : Nat, visit : Visits]
NoCapture == [taken |-> FALSE, known |-> 0, unknown |-> 0, visit |-> 0]

Photo == [challenge : Nat, visit : Visits]
NoPhoto == [challenge |-> 0, visit |-> 0]

Rack == [visit : Visits, here : BOOLEAN, who : Persons, opens : Opens]
View == [visit : Visits, here : BOOLEAN, opens : Opens, observed : BOOLEAN, lapsed : BOOLEAN]

Tick == [pc : {"idle", "read", "opening", "opened", "closing", "deciding", "decided"},
         fresh : BOOLEAN, present : BOOLEAN, visit : Visits, opens : Opens,
         lapsed : BOOLEAN, incident : BOOLEAN]

\* by: who awaits the write; ack: the decision it acknowledges, if any.
Write == [content : AccessState, by : {"tick", "approve"}, ack : Challenge]

IdleTick == [pc |-> "idle", fresh |-> FALSE, present |-> FALSE, visit |-> 0,
             opens |-> CHOOSE n \in Opens : TRUE, lapsed |-> FALSE, incident |-> FALSE]

IsOpen(s) == s.pending.id # 0
Decided(a) == a.state \in {"approved", "denied"}
-----------------------------------------------------------------------------
(* access/state.ts                                                         *)

OpenChallenge(s, id) ==
    [s EXCEPT !.pending = [id |-> id, verdict |-> "pending-capture", approval |-> NotRequired]]

\* (mutant) the approval is derived anew on every tick.
RederivedApproval(old, required) ==
    IF required THEN [state |-> "pending", tap |-> 0] ELSE NotRequired

\* A decision, once made, is not derived again.
NextApproval(old, required) ==
    IF Decided(old) THEN old
    ELSE IF required THEN [state |-> "pending", tap |-> 0] ELSE NotRequired

ApplyDecision(s, look) ==
    [s EXCEPT !.pending.verdict = Verdict(look),
              !.pending.approval = NextApproval(s.pending.approval, ApprovalRequired(look))]

\* (mutant) the id of the tap is not compared with the open challenge.
MayResolveAny(s, id) == IsOpen(s) /\ ~Decided(s.pending.approval)

\* resolveApproval refuses without an open challenge, for another challenge than
\* the one tapped, and for one that was already decided.
MayResolve(s, id) == IsOpen(s) /\ s.pending.id = id /\ ~Decided(s.pending.approval)

ResolveApproval(s, id, decision) ==
    [s EXCEPT !.pending.approval = [state |-> decision, tap |-> id]]

\* (mutant) the log is rebuilt from the event that has just been closed.
AbandonForgets(s) == [pending |-> NoChallenge, log |-> {s.pending}]

\* What fits into the log.
Newest(log) == {e \in log : Cardinality({f \in log : f.id > e.id}) < LogLimit}

\* abandonChallenge and retire: into the log, in place of an entry with its id.
AbandonChallenge(s) ==
    [pending |-> NoChallenge,
     log |-> Newest({s.pending} \cup {e \in s.log : e.id # s.pending.id})]
-----------------------------------------------------------------------------
(* The world.                                                              *)

\* The wall has seen the last visitor leave, and has finished with that.
SentryQuiet == tick.pc = "idle" /\ ~IsOpen(mem) /\ ~view.here

Enter ==
    /\ ~rack.here
    /\ rack.visit < setting.visits
    /\ May("close") \/ SentryQuiet
    /\ \E p \in Persons, n \in Opens :
        rack' = [visit |-> rack.visit + 1, here |-> TRUE, who |-> p, opens |-> n]
    /\ UNCHANGED <<view, fresh, incident, roster, mem, captured, photo, asking,
                   disk, writes, tick, pages, loads, opened, acked>>

Leave ==
    /\ rack.here
    /\ rack' = [rack EXCEPT !.here = FALSE]
    /\ UNCHANGED <<view, fresh, incident, roster, mem, captured, photo, asking,
                   disk, writes, tick, pages, loads, opened, acked>>

\* A push of the board's log: its newest presence edge is the rack as it is now.
Push ==
    /\ <<rack.visit, rack.here>> # <<view.visit, view.here>>
    /\ view' = [visit |-> rack.visit, here |-> rack.here, opens |-> rack.opens,
                observed |-> TRUE, lapsed |-> view.lapsed /\ view.visit = rack.visit]
    /\ UNCHANGED <<rack, fresh, incident, roster, mem, captured, photo, asking,
                   disk, writes, tick, pages, loads, opened, acked>>

\* Presence has been held for the capture grace period.
GraceLapses ==
    /\ view.here /\ ~view.lapsed
    /\ view' = [view EXCEPT !.lapsed = TRUE]
    /\ UNCHANGED <<rack, fresh, incident, roster, mem, captured, photo, asking,
                   disk, writes, tick, pages, loads, opened, acked>>

EdgeScrollsOut ==
    /\ May("window")
    /\ view.here /\ view.observed
    /\ view' = [view EXCEPT !.observed = FALSE]
    /\ UNCHANGED <<rack, fresh, incident, roster, mem, captured, photo, asking,
                   disk, writes, tick, pages, loads, opened, acked>>

FeedChanges ==
    /\ May("stale")
    /\ fresh' = ~fresh
    /\ UNCHANGED <<rack, view, incident, roster, mem, captured, photo, asking,
                   disk, writes, tick, pages, loads, opened, acked>>

IncidentChanges ==
    /\ incident' \in setting.incidents \ {incident}
    /\ UNCHANGED <<rack, view, fresh, roster, mem, captured, photo, asking,
                   disk, writes, tick, pages, loads, opened, acked>>
-----------------------------------------------------------------------------
(* The wall's tick.                                                        *)

Persist(s) == Append(writes, [content |-> s, by |-> "tick", ack |-> NoChallenge])

\* SnapshotBuilder.build reads the log and the assessment before it comes to the
\* sentry; update works on that copy. A log that cannot be read shows nobody.
TickStart ==
    /\ tick.pc = "idle"
    /\ \E readable \in {TRUE, fresh} :
        tick' = [pc |-> "read", fresh |-> fresh,
                 present |-> readable /\ view.here /\ view.observed,
                 visit |-> view.visit, opens |-> view.opens,
                 lapsed |-> view.lapsed, incident |-> incident]
    /\ UNCHANGED <<rack, view, fresh, incident, roster, mem, captured, photo, asking,
                   disk, writes, pages, loads, opened, acked>>

\* (mutant) the log drives the loop however old it is.
NeverFrozen == FALSE

\* A stale feed freezes the loop instead of driving it.
Frozen == ~tick.fresh

\* An empty rack with nothing open needs nothing either, nor does a challenge
\* that is gone from memory when its write has landed.
TickNothing ==
    /\ \/ tick.pc = "read" /\ (Frozen \/ (~tick.present /\ ~IsOpen(mem)))
       \/ tick.pc = "opened" /\ ~IsOpen(mem)
    /\ tick' = IdleTick
    /\ UNCHANGED <<rack, view, fresh, incident, roster, mem, captured, photo, asking,
                   disk, writes, pages, loads, opened, acked>>

TickOpen ==
    /\ tick.pc = "read" /\ ~Frozen /\ tick.present /\ ~IsOpen(mem)
    /\ opened' = Append(opened, tick.visit)
    /\ mem' = OpenChallenge(mem, Len(opened) + 1)
    /\ writes' = Persist(mem')
    /\ tick' = [tick EXCEPT !.pc = "opening"]
    /\ UNCHANGED <<rack, view, fresh, incident, roster, captured, photo, asking,
                   disk, pages, loads, acked>>

\* (mutant) the identity outlives the challenge it was captured for.
CapturedKept == captured

CapturedAfterLeaving == NoCapture

\* The visitor left: the challenge is filed, decided or not.
TickClose ==
    /\ tick.pc = "read" /\ ~Frozen /\ ~tick.present /\ IsOpen(mem)
    /\ mem' = AbandonChallenge(mem)
    /\ captured' = CapturedAfterLeaving
    /\ photo' = NoPhoto
    /\ writes' = Persist(mem')
    /\ tick' = [tick EXCEPT !.pc = "closing"]
    /\ UNCHANGED <<rack, view, fresh, incident, roster, asking, disk, pages, loads, opened, acked>>

LookOf(t) ==
    [present |-> t.present, lapsed |-> t.lapsed, captured |-> captured.taken,
     known |-> captured.known, unknown |-> captured.unknown,
     doorObserved |-> TRUE, opens |-> t.opens, incident |-> t.incident]

\* The matrix is applied to whatever has been captured by now, and the result is
\* folded into the open challenge.
TickDecide ==
    /\ \/ tick.pc = "opened" /\ IsOpen(mem)
       \/ tick.pc = "read" /\ ~Frozen /\ tick.present /\ IsOpen(mem)
    /\ mem' = ApplyDecision(mem, LookOf(tick))
    /\ writes' = Persist(mem')
    /\ tick' = [tick EXCEPT !.pc = "deciding"]
    /\ UNCHANGED <<rack, view, fresh, incident, roster, captured, photo, asking,
                   disk, pages, loads, opened, acked>>

\* (mutant) only a challenge that shows a face is announced.
AnnounceFaces == mem.pending.approval.state = "pending" /\ captured.taken

Announce == mem.pending.approval.state = "pending"

\* notifyChallenge, after the write: one attempt per challenge, whose failure is
\* caught and left to the wall to show.  Without credentials nothing is sent.
TickNotify ==
    /\ tick.pc = "decided"
    /\ IF Announce /\ ~May("mute") /\ mem.pending.id \notin notified
       THEN /\ notified' = notified \cup {mem.pending.id}
            /\ \/ told' = told \cup {mem.pending.id} /\ UNCHANGED missed
               \/ May("send") /\ missed' = missed \cup {mem.pending.id} /\ UNCHANGED told
       ELSE UNCHANGED pages
    /\ tick' = IdleTick
    /\ UNCHANGED <<rack, view, fresh, incident, roster, mem, captured, photo, asking,
                   disk, writes, loads, opened, acked>>
-----------------------------------------------------------------------------
(* Requests.                                                               *)

\* What the backend may make of a picture of the rack: nobody, a person on the
\* roster as known, anyone as unknown (a lower identity rung answered).
Answers ==
    LET answer(k, u) == [taken |-> TRUE, known |-> k, unknown |-> u, visit |-> rack.visit]
    IN  {answer(0, 0)}
        \cup (IF rack.here THEN {answer(0, 1)} ELSE {})
        \cup (IF rack.here /\ rack.who \in roster THEN {answer(1, 0)} ELSE {})

\* The identity is stored whatever has become of the challenge; the photo is
\* keyed to the challenge open now, and fails the request when there is none.
StoreCapture(a) ==
    /\ captured' = a
    /\ photo' = IF IsOpen(mem) THEN [challenge |-> mem.pending.id, visit |-> a.visit] ELSE photo

CaptureRequest ==
    /\ IsOpen(mem)
    /\ Cardinality(asking) < setting.asking
    /\ \E a \in Answers :
        IF May("slow")
        THEN asking' = asking \cup {a} /\ UNCHANGED <<captured, photo>>
        ELSE StoreCapture(a) /\ UNCHANGED asking
    /\ UNCHANGED <<rack, view, fresh, incident, roster, mem,
                   disk, writes, tick, pages, loads, opened, acked>>

CaptureAnswered ==
    /\ \E a \in asking :
        /\ StoreCapture(a)
        /\ asking' = asking \ {a}
    /\ UNCHANGED <<rack, view, fresh, incident, roster, mem,
                   disk, writes, tick, pages, loads, opened, acked>>

\* Any challenge ever announced may still be on a screen somewhere.
Approve ==
    /\ \E id \in 1..Len(opened), decision \in {"approved", "denied"} :
        /\ MayResolve(mem, id)
        /\ mem' = ResolveApproval(mem, id, decision)
        /\ photo' = IF photo.challenge = id THEN NoPhoto ELSE photo
    /\ writes' = Append(writes, [content |-> mem', by |-> "approve", ack |-> mem'.pending])
    /\ UNCHANGED <<rack, view, fresh, incident, roster, captured, asking,
                   disk, tick, pages, loads, opened, acked>>

Enrol ==
    /\ \E p \in Persons \ roster : roster' = roster \cup {p}
    /\ UNCHANGED <<rack, view, fresh, incident, mem, captured, photo, asking,
                   disk, writes, tick, pages, loads, opened, acked>>
-----------------------------------------------------------------------------
(* access.json.                                                            *)

Landable == {i \in 1..Len(writes) : i = 1 \/ May("reorder")}

\* A write has replaced the file: whoever awaits it goes on, and an approval is
\* acknowledged to the human. A tick that has closed a challenge goes on when
\* another is open by then.
WriteLands ==
    /\ \E i \in Landable :
        /\ disk' = writes[i].content
        /\ writes' = RemoveAt(writes, i)
        /\ acked' = IF writes[i].by = "approve" THEN acked \cup {writes[i].ack} ELSE acked
        /\ tick' = IF writes[i].by = "approve" THEN tick
                   ELSE CASE tick.pc = "opening" -> [tick EXCEPT !.pc = "opened"]
                          [] tick.pc = "deciding" -> [tick EXCEPT !.pc = "decided"]
                          [] tick.pc = "closing" ->
                                IF IsOpen(mem) THEN [tick EXCEPT !.pc = "opened"] ELSE IdleTick
        /\ loading' \in {loading, IF loading = {} THEN {} ELSE {disk'}}
    /\ UNCHANGED <<rack, view, fresh, incident, roster, mem, captured, photo, asking,
                   pages, undone, opened>>

\* It throws: the tick fails as a whole, the approval is answered with an error.
WriteFails ==
    /\ May("write")
    /\ \E i \in Landable :
        /\ writes' = RemoveAt(writes, i)
        /\ tick' = IF writes[i].by = "approve" THEN tick ELSE IdleTick
    /\ UNCHANGED <<rack, view, fresh, incident, roster, mem, captured, photo, asking,
                   disk, pages, loads, opened, acked>>

\* Every challenge the sentry has on record, open or filed.
OnRecord(s) == {c \in {s.pending} \cup s.log : c.id # 0}

\* What readAccessState may make of a file that had one of these contents.
Readings(contents) == contents \cup IF May("unreadable") THEN {EMPTY} ELSE {}

\* The challenges in old that new lacks, or has without their decision.
Lost(old, new) ==
    {c.id : c \in {d \in OnRecord(old) : \A r \in OnRecord(new) :
        r.id = d.id => Decided(d.approval) /\ r.approval # d.approval}}

\* A load replaces memory.
Load(old, contents) ==
    \E s \in Readings(contents) :
        /\ mem' = s
        /\ undone' = undone \cup Lost(old, s)

\* Only the end of a load keeps another caller from beginning one: that one may read
\* the file at any time from then on, and end when memory is long in use.
SecondLoad == IF May("overlap") THEN {disk} ELSE {}

\* The dashboard is restarted: memory is what access.json says.
Restart ==
    /\ May("crash")
    /\ Len(opened) < setting.challenges
    /\ Load(disk, {disk})
    /\ loading' = SecondLoad
    /\ captured' = NoCapture
    /\ photo' = NoPhoto
    /\ asking' = {}
    /\ writes' = <<>>
    /\ tick' = IdleTick
    /\ notified' = {}
    /\ UNCHANGED <<rack, view, fresh, incident, roster, disk, told, missed, opened, acked>>

\* The second load is over. What it has read of roster.json may lack whoever was
\* enrolled since.
LateLoad ==
    /\ loading # {}
    /\ Len(opened) < setting.challenges
    /\ Load(mem, loading)
    /\ roster' \in SUBSET roster
    /\ loading' = {}
    /\ UNCHANGED <<rack, view, fresh, incident, captured, photo, asking,
                   disk, writes, tick, pages, opened, acked>>
-----------------------------------------------------------------------------
Init ==
    /\ setting \in Settings
    /\ rack \in [visit : {0}, here : {FALSE}, who : Persons, opens : Opens]
    /\ view = [visit |-> 0, here |-> FALSE, opens |-> rack.opens, observed |-> FALSE, lapsed |-> FALSE]
    /\ fresh = TRUE
    /\ incident = FALSE
    /\ roster = Enrolled
    /\ mem = EMPTY
    /\ captured = NoCapture
    /\ photo = NoPhoto
    /\ asking = {}
    /\ disk = mem
    /\ writes = <<>>
    /\ tick = IdleTick
    /\ loading = SecondLoad
    /\ notified = {} /\ told = {} /\ missed = {}
    /\ undone = {}
    /\ opened = <<>>
    /\ acked = {}

World == Enter \/ Leave \/ Push \/ GraceLapses \/ EdgeScrollsOut \/ FeedChanges \/ IncidentChanges
WallTick == TickStart \/ TickNothing \/ TickOpen \/ TickClose \/ TickDecide \/ TickNotify
Requests == CaptureRequest \/ CaptureAnswered \/ Approve \/ Enrol
Next ==
    /\ UNCHANGED setting
    /\ World \/ WallTick \/ Requests \/ WriteLands \/ WriteFails \/ Restart \/ LateLoad

Spec == Init /\ [][Next]_<<setting, vars>>

\* The 2 s interval keeps ticking and a write comes to an end; nobody has to
\* come, be photographed or decide.
FairSpec == Spec /\ WF_vars(WallTick) /\ WF_vars(WriteLands)
-----------------------------------------------------------------------------
TypeOK ==
    /\ setting \in Settings
    /\ rack \in Rack
    /\ view \in View
    /\ fresh \in BOOLEAN /\ incident \in BOOLEAN
    /\ roster \subseteq Persons
    /\ mem \in AccessState /\ disk \in AccessState
    /\ captured \in Capture
    /\ photo \in Photo
    /\ asking \subseteq Capture
    /\ writes \in Seq(Write)
    /\ tick \in Tick
    /\ loading \subseteq AccessState
    /\ notified \subseteq Nat /\ told \subseteq Nat /\ missed \subseteq Nat
    /\ undone \subseteq Nat
    /\ opened \in Seq(Visits)
    /\ acked \subseteq Challenge

\* The last LogLimit challenges to be opened are the ones the log has room for.
Recent(c) == c.id > Len(opened) - LogLimit

\* A human decision that was acknowledged stays on the record of its challenge:
\* no later tick, second tap, departure or restart changes or loses it while it is
\* one of the most recent, unless a load found that challenge without it, or not at all.
DecisionDurable ==
    \A c \in acked : Recent(c) /\ c.id \notin undone =>
        \E r \in OnRecord(mem) : r.id = c.id /\ r.approval = c.approval

\* The audit trail only grows: a challenge that access.json has ever shown stays
\* on the record, open or filed, while it is one of the most recent and no load
\* has come back without it.
AuditOnlyGrows ==
    [][\A c \in OnRecord(disk) : Recent(c)' /\ c.id \notin undone' =>
          \E r \in OnRecord(disk') : r.id = c.id]_vars

\* What they promise of any load (state.ts: an empty log instead of the one in the
\* file looks like a clean slate).
DecisionNeverLost ==
    \A c \in acked : Recent(c) => \E r \in OnRecord(mem) : r.id = c.id /\ r.approval = c.approval

TrailNeverShrinks ==
    [][\A c \in OnRecord(disk) : Recent(c)' => \E r \in OnRecord(disk') : r.id = c.id]_vars

\* A visit is filed as over only when it is: the sentry never records that
\* somebody walked away who is still at the rack (sentry.ts: an audit trail that
\* invents entries is worse than no audit trail).
RetiredMeansGone ==
    \A e \in mem.log : opened[e.id] = rack.visit => ~rack.here

\* Unless the entry edge may leave the log window, in which case somebody present
\* reads as gone.
PresentIsNotFiled == ~May("window") => RetiredMeansGone

\* The identity in hand is that of the visit the open challenge was opened for
\* (sentry.ts: "Identity for the open challenge, held until presence ends").
IdentityOfTheVisit ==
    captured.taken /\ IsOpen(mem) => captured.visit = opened[mem.pending.id]

\* An approval that relaxes a visit was tapped for that visit's challenge
\* (state.ts: yesterday's tap is never applied to today's stranger).
NoInheritedApproval ==
    tick.pc \in {"deciding", "decided"} /\ mem.pending.approval.state = "approved" =>
        opened[mem.pending.approval.tap] = tick.visit

\* A stranger who neither leaves nor lets himself be photographed has a page sent
\* about him, which got through or stands on the wall as undelivered, or has been
\* decided on, once the grace period has lapsed, where there are credentials.
SilenceIsAnnounced ==
    ~May("mute")
        /\ <>[](rack.here /\ fresh /\ view.here /\ view.observed /\ view.lapsed /\ ~captured.taken) =>
        <>[](IsOpen(mem) /\ (mem.pending.id \in told \cup missed \/ Decided(mem.pending.approval)))
=============================================================================
