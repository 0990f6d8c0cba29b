------------------------------ MODULE MCFiles -------------------------------
(***************************************************************************)
(* The two files others read while they are written: the state file behind *)
(* writeFileAtomic, and the sensor log on its way from the board.  They     *)
(* share nothing, so a behavior is about one of them.                      *)
(***************************************************************************)
EXTENDS MCAtomicFile, Sequences

CONSTANTS MaxLines, MaxNow, MaxFaults, Retention, MinKeep, MaxAge, Window

ASSUME LogAssumption == {MaxLines, MaxNow, MaxFaults, Retention, MinKeep, MaxAge, Window} \subseteq Nat

VARIABLES
    which, \* "state" or "log"
    now, synced, log, count, pruning, link, sshOk, mirror, faults

sensor == <<now, synced, log, count, pruning, link, sshOk, mirror, faults>>

Log == INSTANCE SensorLog WITH NoCopy <- Nothing

\* Inodes are interchangeable: one of them has the file at the start.
FilesInit ==
    /\ which \in {"state", "log"}
    /\ Init /\ file = CHOOSE i \in Inodes : TRUE
    /\ Log!LogInit /\ (which = "state" => ~link)

FilesNext ==
    /\ UNCHANGED which
    /\ \/ which = "state" /\ Next /\ UNCHANGED sensor
       \/ which = "log" /\ Log!LogNext /\ UNCHANGED vars

FilesSpec ==
    /\ FilesInit /\ [][FilesNext]_<<which, sensor, vars>>
    /\ which = "log" => Log!LogFairness

HistoryKept == Log!HistoryKept
LeakIsTrue == Log!LeakIsTrue
MirrorCatchesUp == which = "log" => Log!MirrorCatchesUp
=============================================================================
