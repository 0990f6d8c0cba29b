----------------------------- MODULE AtomicFile -----------------------------
(***************************************************************************)
(* common/atomic-write.ts at the level of the file system: the contents go *)
(* into a temp file named after the process, chunk by chunk, and a rename, *)
(* retried while somebody has the target open, puts it in place.  A reader *)
(* opens the file and reads it chunk by chunk.                             *)
(***************************************************************************)
EXTENDS Integers, FiniteSets

CONSTANTS
    Procs,     \* processes
    Calls,     \* calls of writeFileAtomic, each with contents of its own
    Owner,     \* the process that makes a call
    Initial,   \* the contents before the first call
    Nothing,   \* no file, or no contents
    Inodes,    \* what a name in the directory stands for
    Chunks,    \* a write comes to the disk in this many parts
    Attempts,  \* how often a rename is tried (DEFAULT_ATTEMPTS)
    Overlap    \* calls of one process may overlap

Contents == Calls \cup {Initial, Nothing}

ASSUME OwnerAssumption == Owner \in [Calls -> Procs]
ASSUME ValueAssumption == Initial \notin Calls /\ Nothing \notin Calls \cup Inodes \cup {Initial}
ASSUME BoundAssumption == Chunks \in Nat \ {0} /\ Attempts \in Nat \ {0}
ASSUME OverlapAssumption == Overlap \in BOOLEAN

VARIABLES
    file,   \* the inode at the path
    temp,   \* the inode at `${path}.${pid}.tmp`, per process
    data,   \* the contents of an inode, chunk by chunk
    pc,     \* where a call is
    fd,     \* the inode a call has open
    next,   \* the chunk a call writes next
    tries,  \* renames a call has tried
    reader, \* the inode a reader has open
    got     \* what it has read so far

vars == <<file, temp, data, pc, fd, next, tries, reader, got>>
-----------------------------------------------------------------------------
Empty == [k \in 1..Chunks |-> Nothing]
Filled(v) == [k \in 1..Chunks |-> v]

Running(c) == pc[c] \in {"writing", "renaming"}

\* (mutant) every process uses the same temp name.
OneName(c) == CHOOSE p \in Procs : TRUE

\* The temp name carries the pid.
TempName(c) == Owner[c]

\* Inodes that a name or an open file stands for.
InUse ==
    {file, reader} \cup {temp[p] : p \in Procs} \cup {fd[c] : c \in Calls}

\* writeFile opens the temp file: a new one, or what is there already, emptied.
Open(c) ==
    /\ pc[c] = "ready"
    /\ Overlap \/ \A d \in Calls : Owner[d] = Owner[c] => ~Running(d)
    /\ \E i \in Inodes :
        /\ i = temp[TempName(c)] \/ (temp[TempName(c)] = Nothing /\ i \notin InUse)
        /\ temp' = [temp EXCEPT ![TempName(c)] = i]
        /\ data' = [data EXCEPT ![i] = Empty]
        /\ fd' = [fd EXCEPT ![c] = i]
    /\ pc' = [pc EXCEPT ![c] = "writing"]
    /\ next' = [next EXCEPT ![c] = 1]
    /\ UNCHANGED <<file, tries, reader, got>>

MoreToWrite(c) == next[c] <= Chunks

WriteChunk(c) ==
    /\ pc[c] = "writing" /\ MoreToWrite(c)
    /\ data' = [data EXCEPT ![fd[c]] = [@ EXCEPT ![next[c]] = c]]
    /\ next' = [next EXCEPT ![c] = @ + 1]
    /\ UNCHANGED <<file, temp, pc, fd, tries, reader, got>>

\* (mutant) the rename does not wait for the contents.
AnyTime(c) == TRUE

AllWritten(c) == next[c] > Chunks

Close(c) ==
    /\ pc[c] = "writing" /\ AllWritten(c)
    /\ pc' = [pc EXCEPT ![c] = "renaming"]
    /\ fd' = [fd EXCEPT ![c] = Nothing]
    /\ UNCHANGED <<file, temp, data, next, tries, reader, got>>

Rename(c) ==
    /\ pc[c] = "renaming"
    /\ temp[TempName(c)] # Nothing
    /\ file' = temp[TempName(c)]
    /\ temp' = [temp EXCEPT ![TempName(c)] = Nothing]
    /\ pc' = [pc EXCEPT ![c] = "done"]
    /\ UNCHANGED <<data, fd, next, tries, reader, got>>

\* An error that is not transient ends the call at once, temp file left behind: a
\* full disk, or a rename that finds no temp file, because another call took it.
Throws(c) ==
    /\ Running(c)
    /\ pc' = [pc EXCEPT ![c] = "failed"]
    /\ fd' = [fd EXCEPT ![c] = Nothing]
    /\ UNCHANGED <<file, temp, data, next, tries, reader, got>>

NextTry(c) == tries[c] + 1

\* The target is open elsewhere: try again, and throw after the last attempt.
RenameBusy(c) ==
    /\ pc[c] = "renaming"
    /\ reader = file
    /\ tries' = [tries EXCEPT ![c] = NextTry(c)]
    /\ pc' = [pc EXCEPT ![c] = IF NextTry(c) = Attempts THEN "failed" ELSE @]
    /\ UNCHANGED <<file, temp, data, fd, next, reader, got>>

\* A process dies; its temp file stays behind.
Crash(p) ==
    /\ \E c \in Calls : Owner[c] = p /\ Running(c)
    /\ pc' = [c \in Calls |-> IF Owner[c] = p /\ Running(c) THEN "failed" ELSE pc[c]]
    /\ fd' = [c \in Calls |-> IF Owner[c] = p THEN Nothing ELSE fd[c]]
    /\ UNCHANGED <<file, temp, data, next, tries, reader, got>>

ReadOpen ==
    /\ reader = Nothing
    /\ reader' = file
    /\ got' = Empty
    /\ UNCHANGED <<file, temp, data, pc, fd, next, tries>>

ReadChunk ==
    /\ reader # Nothing
    /\ \E k \in 1..Chunks :
        /\ got[k] = Nothing
        /\ \A j \in 1..(k - 1) : got[j] # Nothing
        /\ got' = [got EXCEPT ![k] = data[reader][k]]
        /\ reader' = IF k = Chunks THEN Nothing ELSE reader
    /\ UNCHANGED <<file, temp, data, pc, fd, next, tries>>
-----------------------------------------------------------------------------
Init ==
    /\ file \in Inodes
    /\ temp = [p \in Procs |-> Nothing]
    /\ data = [i \in Inodes |-> IF i = file THEN Filled(Initial) ELSE Empty]
    /\ pc = [c \in Calls |-> "ready"]
    /\ fd = [c \in Calls |-> Nothing]
    /\ next = [c \in Calls |-> 1]
    /\ tries = [c \in Calls |-> 0]
    /\ reader = Nothing
    /\ got = Filled(Initial)

Write(c) == Open(c) \/ WriteChunk(c) \/ Close(c) \/ Rename(c) \/ RenameBusy(c) \/ Throws(c)
Reader == ReadOpen \/ ReadChunk
Next == Reader \/ (\E c \in Calls : Write(c)) \/ (\E p \in Procs : Crash(p))

Spec == Init /\ [][Next]_vars
-----------------------------------------------------------------------------
TypeOK ==
    /\ file \in Inodes
    /\ temp \in [Procs -> Inodes \cup {Nothing}]
    /\ data \in [Inodes -> [1..Chunks -> Contents]]
    /\ pc \in [Calls -> {"ready", "writing", "renaming", "done", "failed"}]
    /\ fd \in [Calls -> Inodes \cup {Nothing}]
    /\ next \in [Calls -> 1..(Chunks + 1)]
    /\ tries \in [Calls -> 0..Attempts]
    /\ reader \in Inodes \cup {Nothing}
    /\ got \in [1..Chunks -> Contents]

\* The file is at every moment exactly what one call wrote, never half of one
\* call or a mixture of two (atomic-write.ts: a reader sees either the old file
\* or the new one).
NeverTorn == \E v \in Calls \cup {Initial} : data[file] = Filled(v)

\* A reader that has come to the end has read what one call wrote, however many
\* renames went by while it was reading.
ReadsOneWrite == reader = Nothing => \E v \in Calls \cup {Initial} : got = Filled(v)

\* The promise: one atomic register, whatever the renames, failures and crashes.
Register == INSTANCE AtomicRegister WITH
    value <- data[file][1],
    status <- [c \in Calls |-> IF Running(c) THEN "pending" ELSE pc[c]]

ImplementsRegister == Register!Spec
=============================================================================
