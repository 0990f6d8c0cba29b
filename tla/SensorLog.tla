----------------------------- MODULE SensorLog ------------------------------
(***************************************************************************)
(* The sensor log from the board to the reader on the laptop.  The board    *)
(* appends a line at a time (its clock is at 1970 from a boot until NTP     *)
(* lands), prune_sensor_log.py trims the file hourly, push_sensor_log.sh    *)
(* copies it over the network in place, pull_sensor_log.ps1 over the cable  *)
(* by a replace, and file-source.ts reads what is on the laptop.            *)
(***************************************************************************)
EXTENDS Ascending, Integers, Sequences, SequencesExt, FiniteSetsExt

CONSTANTS
    MaxLines,  \* bound on the lines written
    MaxNow,    \* bound on time
    MaxFaults, \* bound on reboots
    Retention, \* 24 hours in the code
    MinKeep,   \* ten lines in the code
    MaxAge,    \* 180 s
    Window,    \* 300 s
    NoCopy     \* no prune is under way

VARIABLES
    now,     \* true time
    synced,  \* the board's clock is right
    log,     \* sensor_log.jsonl on the board
    count,   \* lines written so far
    pruning, \* what the prune under way has read
    link,    \* ssh and scp get through
    sshOk,   \* the push loop's last probe
    mirror,  \* the file on the laptop
    faults

vars == <<now, synced, log, count, pruning, link, sshOk, mirror, faults>>

Kinds == {"tick", "leak_detected", "leak_cleared"}
Bad == "malformed"
\* 1970, older than any window.
Epoch == 0 - (Retention + MaxAge + Window)
-----------------------------------------------------------------------------
(* The board.                                                               *)

Clock == IF synced THEN now ELSE Epoch

\* A line of its own number; .when is the true time.
Line(kind) == [n |-> count + 1, kind |-> kind, at |-> Clock, when |-> now]

AppendLine ==
    /\ count < MaxLines
    /\ \E kind \in Kinds : log' = Append(log, Line(kind))
    /\ count' = count + 1
    /\ UNCHANGED <<now, synced, pruning, link, sshOk, mirror, faults>>

\* Power comes back: a line under way is cut off, a prune is gone, the clock is at
\* 1970 and the loop begins again.
Reboot ==
    /\ faults < MaxFaults
    /\ faults' = faults + 1
    /\ \/ UNCHANGED <<log, count>>
       \/ /\ count < MaxLines
          /\ log' = Append(log, Line(Bad))
          /\ count' = count + 1
    /\ synced' = FALSE
    /\ pruning' = NoCopy
    /\ sshOk' = FALSE
    /\ UNCHANGED <<now, link, mirror>>

Sync ==
    /\ ~synced
    /\ synced' = TRUE
    /\ UNCHANGED <<now, log, count, pruning, link, sshOk, mirror, faults>>

Pass ==
    /\ now < MaxNow
    /\ now' = now + 1
    /\ UNCHANGED <<synced, log, count, pruning, link, sshOk, mirror, faults>>

LinkChanges ==
    /\ link' = ~link
    /\ UNCHANGED <<now, synced, log, count, pruning, sshOk, mirror, faults>>
-----------------------------------------------------------------------------
(* prune_sensor_log.py                                                      *)

Parseable(line) == line.kind # Bad

\* The lines of these numbers, in the order of the file.
Chosen(lines, numbers) ==
    LET order == InOrder(numbers)
    IN  [k \in 1..Cardinality(numbers) |-> lines[order[k]]]

Readable(lines) == Chosen(lines, {i \in DOMAIN lines : Parseable(lines[i])})

NewestStamp(lines) == Max({lines[i].at : i \in DOMAIN lines})

\* (mutant) a line exactly as old as the retention goes.
RecentShort(line, newest) == line.at > newest - Retention

Recent(line, newest) == line.at >= newest - Retention

Enough(lines) == Len(lines) >= MinKeep

Pruned(lines) ==
    LET parsed == Readable(lines)
        keep == Chosen(parsed, {i \in DOMAIN parsed : Recent(parsed[i], NewestStamp(parsed))})
    IN  IF parsed = <<>> \/ ~Enough(keep) THEN lines ELSE keep

PruneReads ==
    /\ pruning = NoCopy
    /\ pruning' = log
    /\ UNCHANGED <<now, synced, log, count, link, sshOk, mirror, faults>>

\* The replace, if there is anything to drop; lines that came after the reading go
\* with the file they are in.
PruneReplaces ==
    /\ pruning # NoCopy
    /\ log' = IF Pruned(pruning) # pruning THEN Pruned(pruning) ELSE log
    /\ pruning' = NoCopy
    /\ UNCHANGED <<now, synced, count, link, sshOk, mirror, faults>>
-----------------------------------------------------------------------------
(* push_sensor_log.sh and pull_sensor_log.ps1                               *)

\* The last line of a file cut off while it is copied.
Cut(lines, n) ==
    IF n = Len(lines) THEN lines
    ELSE Append(SubSeq(lines, 1, n), [lines[n + 1] EXCEPT !.kind = Bad])

\* (mutant) a link that was down is not probed again.
ProbeAgainNever == sshOk

\* Every ten ticks, every sixty while the link is down; the outcome is cached.
ProbeAgain == TRUE

Probe ==
    /\ ProbeAgain
    /\ sshOk' = link
    /\ UNCHANGED <<now, synced, log, count, pruning, link, mirror, faults>>

\* scp writes the file in place, and may be cut off.
Push ==
    /\ sshOk /\ link
    /\ mirror' = log
    /\ UNCHANGED <<now, synced, log, count, pruning, link, sshOk, faults>>

PushBreaks ==
    /\ sshOk /\ link
    /\ \E n \in 0..(Len(log) - 1) : mirror' = Cut(log, n)
    /\ link' = FALSE
    /\ UNCHANGED <<now, synced, log, count, pruning, sshOk, faults>>

\* adb pull into a file of its own, then File.Replace.
Pull ==
    /\ mirror' = log
    /\ UNCHANGED <<now, synced, log, count, pruning, link, sshOk, faults>>
-----------------------------------------------------------------------------
(* readSensorLogReading                                                     *)

\* The newest line is the last; a stamp in the future is of age 0.
Ok(lines) ==
    LET read == Readable(lines)
    IN  read # <<>> /\ now - Last(read).at <= MaxAge

\* (mutant) an event that clears a leak is taken for one.
DecidesAnyway(line) == line.kind = "leak_detected"

Decides(line) == line.kind \in {"leak_detected", "leak_cleared"}

\* Newest first, until a line decides or one is older than the window.
LeakDetected(lines) ==
    LET read == Readable(lines)
        stops == {i \in DOMAIN read : Decides(read[i]) \/ read[i].at < now - Window}
    IN  stops # {} /\ LET last == read[Max(stops)]
                      IN  last.kind = "leak_detected" /\ last.at >= now - Window
-----------------------------------------------------------------------------
LogInit ==
    /\ now = 1
    /\ synced = TRUE
    /\ log = <<>>
    /\ count = 0
    /\ pruning = NoCopy
    /\ link \in BOOLEAN
    /\ sshOk = FALSE
    /\ mirror = <<>>
    /\ faults = 0

LogNext ==
    \/ AppendLine \/ Reboot \/ Sync \/ Pass \/ LinkChanges
    \/ PruneReads \/ PruneReplaces
    \/ Probe \/ Push \/ PushBreaks \/ Pull

\* The push loop goes on; nobody need sit at the cable.
LogFairness ==
    /\ WF_vars(Probe)
    /\ WF_vars(Push)

LogSpec == LogInit /\ [][LogNext]_vars /\ LogFairness
-----------------------------------------------------------------------------
\* Whatever the clock says after a boot: a line written with the right time stays as
\* long as the retention, but for one that came while a prune was under way
\* ("RETENTION IS MEASURED FROM THE NEWEST LOG LINE, NOT THE WALL CLOCK"), and a log
\* that has had the least number of readable lines is never left with fewer.
HistoryKept ==
    [][ /\ \A l \in Range(log) :
              Parseable(l) /\ l.at # Epoch /\ l.when >= now - Retention
                  => \/ l \in Range(log')
                     \/ pruning # NoCopy /\ l \notin Range(pruning)
        /\ Len(Readable(log)) >= MinKeep => Len(Readable(log')) >= MinKeep ]_vars

\* What the laptop says of a leak, whatever was pruned, cut off or pushed again: when
\* its file is fresh, it reports a leak exactly if the last leak event of the file says
\* so and is within the window, unless a line with a 1970 stamp came in between.
LeakIsTrue ==
    LET read == Readable(mirror)
        events == {i \in DOMAIN read : read[i].kind # "tick" /\ read[i].at # Epoch}
        newest == read[Max(events)]
        between == \E i \in DOMAIN read : read[i].at = Epoch /\ i > Max(events)
    IN  Ok(mirror) =>
            /\ LeakDetected(mirror)
                  => events # {} /\ newest.kind = "leak_detected" /\ newest.when >= now - Window
            /\ events # {} /\ ~between /\ newest.kind = "leak_detected" /\ newest.when >= now - Window
                  => LeakDetected(mirror)

\* Once the link stays up, the laptop has the board's whole log again and again, whatever
\* was pruned, cut off or lost in a reboot before ("The very next successful push after reconnecting
\* carries the whole local file").
MirrorCatchesUp == <>[]link => []<>(mirror = log)

\* A leak within the window that nothing has cleared is reported by a fresh file.
LeakSurvivesReboot ==
    \A i \in DOMAIN mirror :
        /\ Ok(mirror)
        /\ mirror[i].kind = "leak_detected" /\ mirror[i].at # Epoch /\ mirror[i].when >= now - Window
        /\ \A j \in (i + 1)..Len(mirror) : mirror[j].kind # "leak_cleared"
        => LeakDetected(mirror)
=============================================================================
