----------------------------- MODULE FileProofs -----------------------------
(***************************************************************************)
(* A state file is never torn and implements an atomic register, for any   *)
(* number of processes, calls, chunks and retries, as long as the calls of *)
(* one process do not overlap.  The sensor log keeps its history, and the  *)
(* laptop tells the truth of a leak, for every length, retention, minimum, *)
(* age and window.                                                         *)
(***************************************************************************)
EXTENDS MCFiles, AscendingProofs

Values == Calls \cup {Initial}

Whole(i) == \E v \in Values : data[i] = Filled(v)

\* No two names stand for the same inode, and a reader holds none that is
\* still being written.
NamesApart ==
    /\ \A p \in Procs : temp[p] # file
    /\ \A p \in Procs : temp[p] # Nothing => temp[p] # reader
    /\ \A p, q \in Procs : temp[p] # Nothing /\ temp[p] = temp[q] => p = q

\* The calls of a process come one after the other.
OneAtATime ==
    \A c, d \in Calls : Owner[c] = Owner[d] /\ Running(c) /\ Running(d) => c = d

\* A call that goes on has an attempt at the rename left.
AttemptsLeft == \A c \in Calls : pc[c] # "failed" => tries[c] < Attempts

\* A call that is under way has the temp file of its process to itself, and has
\* written as much of it as it has come to.
OwnTemp ==
    \A c \in Calls :
        /\ Running(c) => temp[Owner[c]] # Nothing
        /\ pc[c] = "writing" =>
            /\ fd[c] = temp[Owner[c]]
            /\ \A k \in 1..Chunks : k < next[c] => data[fd[c]][k] = c
        /\ pc[c] = "renaming" => data[temp[Owner[c]]] = Filled(c)

\* What a reader has so far is the beginning of one call's contents.
ReaderWhole ==
    IF reader = Nothing THEN \E v \in Values : got = Filled(v)
    ELSE \E v \in Values :
            /\ data[reader] = Filled(v)
            /\ \A k \in 1..Chunks : got[k] \in {Nothing, v}

IInv == TypeOK /\ Whole(file) /\ NamesApart /\ OneAtATime /\ AttemptsLeft
        /\ OwnTemp /\ ReaderWhole
-----------------------------------------------------------------------------
LEMMA InitInvariant == Init => IInv
<1> SUFFICES ASSUME Init PROVE IInv
  OBVIOUS
<1> USE BoundAssumption, ValueAssumption, OwnerAssumption
<1>1. TypeOK
  BY DEF Init, TypeOK, Contents, Filled, Empty
<1>2. Whole(file)
  BY DEF Init, Whole, Values
<1>3. NamesApart
  BY DEF Init, NamesApart
<1>4. OneAtATime /\ AttemptsLeft /\ OwnTemp
  BY DEF Init, OneAtATime, AttemptsLeft, OwnTemp, Running
<1>5. ReaderWhole
  BY DEF Init, ReaderWhole, Values
<1> QED
  BY <1>1, <1>2, <1>3, <1>4, <1>5 DEF IInv

LEMMA OpenInvariant == ASSUME ~Overlap, IInv, NEW c \in Calls, Open(c) PROVE IInv'
<1> USE BoundAssumption, ValueAssumption, OwnerAssumption DEF IInv
<1> PICK i \in Inodes :
        /\ i = temp[Owner[c]] \/ (temp[Owner[c]] = Nothing /\ i \notin InUse)
        /\ temp' = [temp EXCEPT ![Owner[c]] = i]
        /\ data' = [data EXCEPT ![i] = Empty]
        /\ fd' = [fd EXCEPT ![c] = i]
  BY DEF Open, TempName
<1>1. /\ pc[c] = "ready" /\ pc' = [pc EXCEPT ![c] = "writing"]
      /\ next' = [next EXCEPT ![c] = 1]
      /\ UNCHANGED <<file, tries, reader, got>>
      /\ \A d \in Calls : Owner[d] = Owner[c] => ~Running(d)
  BY DEF Open
<1>2. Owner[c] \in Procs /\ i # Nothing /\ i # file /\ (reader # Nothing => i # reader)
  BY DEF NamesApart, InUse, TypeOK
<1>3. \A p \in Procs : p # Owner[c] => temp[p] # i
  BY DEF NamesApart, InUse, TypeOK
<1>4. TypeOK'
  BY <1>1, <1>2 DEF TypeOK, Empty, Contents
<1>5. Whole(file)'
  BY <1>1, <1>2 DEF Whole, TypeOK
<1>6. NamesApart'
  BY <1>1, <1>2, <1>3 DEF NamesApart, TypeOK
<1>7. OneAtATime' /\ AttemptsLeft'
  BY <1>1 DEF OneAtATime, AttemptsLeft, Running, TypeOK
<1>8. OwnTemp'
  <2> SUFFICES ASSUME NEW d \in Calls
      PROVE  /\ Running(d)' => temp'[Owner[d]] # Nothing
             /\ pc'[d] = "writing" =>
                 /\ fd'[d] = temp'[Owner[d]]
                 /\ \A k \in 1..Chunks : k < next'[d] => data'[fd'[d]][k] = d
             /\ pc'[d] = "renaming" => data'[temp'[Owner[d]]] = Filled(d)
    BY DEF OwnTemp
  <2>1. CASE d = c
    BY <2>1, <1>1, <1>2 DEF TypeOK, Running
  <2>2. CASE d # c /\ Running(d)
    <3>1. Owner[d] # Owner[c] /\ Owner[d] \in Procs
      BY <2>2, <1>1
    <3>2. /\ pc'[d] = pc[d] /\ fd'[d] = fd[d] /\ next'[d] = next[d]
          /\ temp'[Owner[d]] = temp[Owner[d]] /\ temp[Owner[d]] # i
      BY <2>2, <3>1, <1>1, <1>3 DEF TypeOK
    <3>3. data'[temp[Owner[d]]] = data[temp[Owner[d]]]
      BY <3>2 DEF TypeOK
    <3> QED
      BY <2>2, <3>1, <3>2, <3>3 DEF OwnTemp, Running
  <2>3. CASE d # c /\ ~Running(d)
    BY <2>3, <1>1 DEF Running, TypeOK
  <2> QED
    BY <2>1, <2>2, <2>3
<1>9. ReaderWhole'
  <2>1. reader' = reader /\ got' = got
    BY <1>1
  <2>2. reader # Nothing => data'[reader] = data[reader]
    BY <1>2 DEF TypeOK
  <2> QED
    BY <2>1, <2>2 DEF ReaderWhole
<1> QED
  BY <1>4, <1>5, <1>6, <1>7, <1>8, <1>9

LEMMA WriteChunkInvariant == ASSUME IInv, NEW c \in Calls, WriteChunk(c) PROVE IInv'
<1> USE BoundAssumption, ValueAssumption, OwnerAssumption DEF IInv
<1> DEFINE i == fd[c]
<1>1. /\ pc[c] = "writing" /\ next[c] <= Chunks
      /\ data' = [data EXCEPT ![i] = [@ EXCEPT ![next[c]] = c]]
      /\ next' = [next EXCEPT ![c] = @ + 1]
      /\ UNCHANGED <<file, temp, pc, fd, tries, reader, got>>
  BY DEF WriteChunk, MoreToWrite
<1>2. i = temp[Owner[c]] /\ i # Nothing /\ Owner[c] \in Procs /\ i \in Inodes
  BY <1>1 DEF OwnTemp, Running, TypeOK
<1>3. i # file /\ i # reader
  BY <1>2 DEF NamesApart
<1> HIDE DEF i
<1>4. TypeOK'
  <2>1. data' \in [Inodes -> [1..Chunks -> Contents]]
    BY <1>1, <1>2 DEF TypeOK, Contents
  <2> QED
    BY <2>1, <1>1 DEF TypeOK
<1>5. Whole(file)'
  BY <1>1, <1>3 DEF Whole, TypeOK
<1>6. NamesApart' /\ OneAtATime' /\ AttemptsLeft'
  BY <1>1 DEF NamesApart, OneAtATime, AttemptsLeft, Running
<1>7. OwnTemp'
  <2> SUFFICES ASSUME NEW d \in Calls
      PROVE  /\ Running(d)' => temp'[Owner[d]] # Nothing
             /\ pc'[d] = "writing" =>
                 /\ fd'[d] = temp'[Owner[d]]
                 /\ \A k \in 1..Chunks : k < next'[d] => data'[fd'[d]][k] = d
             /\ pc'[d] = "renaming" => data'[temp'[Owner[d]]] = Filled(d)
    BY DEF OwnTemp
  <2>1. CASE d = c
    <3>1. \A k \in 1..Chunks : k < next'[c] => data'[i][k] = c
      <4> SUFFICES ASSUME NEW k \in 1..Chunks, k < next'[c] PROVE data'[i][k] = c
        OBVIOUS
      <4>1. data'[i] = [data[i] EXCEPT ![next[c]] = c] /\ data[i] \in [1..Chunks -> Contents]
        BY <1>1, <1>2 DEF TypeOK
      <4>2. next'[c] = next[c] + 1 /\ next[c] \in 1..Chunks
        BY <1>1 DEF TypeOK
      <4>3. k < next[c] => data[i][k] = c
        BY <1>1 DEF OwnTemp, i
      <4> QED
        BY <4>1, <4>2, <4>3
    <3> QED
      BY <2>1, <3>1, <1>1, <1>2 DEF i, Running
  <2>2. CASE d # c /\ Running(d)
    <3>1. Owner[d] # Owner[c] /\ Owner[d] \in Procs
      BY <2>2, <1>1 DEF OneAtATime, Running
    <3>2. temp[Owner[d]] # Nothing /\ temp[Owner[d]] # i
      BY <2>2, <3>1, <1>2 DEF NamesApart, OwnTemp
    <3>3. data'[temp[Owner[d]]] = data[temp[Owner[d]]] /\ next'[d] = next[d]
      BY <2>2, <3>2, <1>1 DEF TypeOK
    <3> QED
      BY <2>2, <3>2, <3>3, <1>1 DEF OwnTemp, Running
  <2>3. CASE d # c /\ ~Running(d)
    BY <2>3, <1>1 DEF Running
  <2> QED
    BY <2>1, <2>2, <2>3
<1>8. ReaderWhole'
  <2>1. reader' = reader /\ got' = got
    BY <1>1
  <2>2. reader # Nothing => data'[reader] = data[reader]
    BY <1>1, <1>3 DEF TypeOK
  <2> QED
    BY <2>1, <2>2 DEF ReaderWhole
<1> QED
  BY <1>4, <1>5, <1>6, <1>7, <1>8

LEMMA CloseInvariant == ASSUME IInv, NEW c \in Calls, Close(c) PROVE IInv'
<1> USE BoundAssumption, ValueAssumption, OwnerAssumption DEF IInv
<1>1. /\ pc[c] = "writing" /\ next[c] > Chunks
      /\ pc' = [pc EXCEPT ![c] = "renaming"]
      /\ fd' = [fd EXCEPT ![c] = Nothing]
      /\ UNCHANGED <<file, temp, data, next, tries, reader, got>>
  BY DEF Close, AllWritten
<1>2. TypeOK'
  BY <1>1 DEF TypeOK
<1>3. Whole(file)' /\ NamesApart' /\ ReaderWhole'
  BY <1>1 DEF Whole, NamesApart, ReaderWhole
<1>4. OneAtATime' /\ AttemptsLeft'
  BY <1>1 DEF OneAtATime, AttemptsLeft, Running, TypeOK
<1>5. data[temp[Owner[c]]] = Filled(c)
  <2>1. temp[Owner[c]] \in Inodes /\ fd[c] = temp[Owner[c]]
    BY <1>1 DEF OwnTemp, Running, TypeOK
  <2>2. \A k \in 1..Chunks : data[fd[c]][k] = c
    BY <1>1 DEF OwnTemp, TypeOK
  <2> QED
    BY <2>1, <2>2 DEF Filled, TypeOK
<1>6. OwnTemp'
  BY <1>1, <1>5 DEF OwnTemp, Running, TypeOK
<1> QED
  BY <1>2, <1>3, <1>4, <1>6

LEMMA RenameInvariant == ASSUME IInv, NEW c \in Calls, Rename(c) PROVE IInv'
<1> USE BoundAssumption, ValueAssumption, OwnerAssumption DEF IInv
<1>1. /\ pc[c] = "renaming"
      /\ temp[Owner[c]] # Nothing
      /\ file' = temp[Owner[c]]
      /\ temp' = [temp EXCEPT ![Owner[c]] = Nothing]
      /\ pc' = [pc EXCEPT ![c] = "done"]
      /\ UNCHANGED <<data, fd, next, tries, reader, got>>
  BY DEF Rename, TempName
<1>2. Owner[c] \in Procs /\ file' \in Inodes
  BY <1>1 DEF TypeOK
<1>3. TypeOK'
  BY <1>1, <1>2 DEF TypeOK
<1>4. Whole(file)'
  BY <1>1 DEF Whole, OwnTemp, Values
<1>5. NamesApart'
  BY <1>1, <1>2 DEF NamesApart, TypeOK
<1>6. OneAtATime' /\ AttemptsLeft'
  BY <1>1 DEF OneAtATime, AttemptsLeft, Running, TypeOK
<1>7. OwnTemp'
  <2> SUFFICES ASSUME NEW d \in Calls
      PROVE  /\ Running(d)' => temp'[Owner[d]] # Nothing
             /\ pc'[d] = "writing" =>
                 /\ fd'[d] = temp'[Owner[d]]
                 /\ \A k \in 1..Chunks : k < next'[d] => data'[fd'[d]][k] = d
             /\ pc'[d] = "renaming" => data'[temp'[Owner[d]]] = Filled(d)
    BY DEF OwnTemp
  <2>1. CASE ~Running(d) \/ d = c
    BY <2>1, <1>1 DEF Running, TypeOK
  <2>2. CASE Running(d) /\ d # c
    <3>1. Owner[d] # Owner[c] /\ Owner[d] \in Procs
      BY <2>2, <1>1 DEF OneAtATime, Running
    <3>2. temp'[Owner[d]] = temp[Owner[d]] /\ pc'[d] = pc[d]
      BY <2>2, <3>1, <1>1 DEF TypeOK
    <3> QED
      BY <2>2, <3>2, <1>1 DEF OwnTemp, Running
  <2> QED
    BY <2>1, <2>2
<1>8. ReaderWhole'
  BY <1>1 DEF ReaderWhole
<1> QED
  BY <1>3, <1>4, <1>5, <1>6, <1>7, <1>8

LEMMA FailureInvariant ==
    ASSUME IInv, NEW c \in Calls, Throws(c) \/ RenameBusy(c) PROVE IInv'
<1> USE BoundAssumption, ValueAssumption, OwnerAssumption DEF IInv
<1>1. /\ Running(c)
      /\ pc' = [pc EXCEPT ![c] = "failed"] \/ pc' = pc
      /\ (fd' = [fd EXCEPT ![c] = Nothing] /\ pc'[c] = "failed") \/ fd' = fd
      /\ UNCHANGED <<file, temp, data, next, reader, got>>
  BY DEF Throws, RenameBusy, Running, TypeOK
<1>2. TypeOK'
  <2>1. CASE Throws(c)
    BY <2>1, <1>1 DEF TypeOK, Throws
  <2>2. CASE RenameBusy(c)
    <3> tries[c] < Attempts
      BY <2>2 DEF AttemptsLeft, RenameBusy
    <3>1. tries' \in [Calls -> 0..Attempts]
      BY <2>2 DEF TypeOK, RenameBusy, NextTry
    <3> QED
      BY <3>1, <2>2 DEF TypeOK, RenameBusy
  <2> QED
    BY <2>1, <2>2
<1>3. \A d \in Calls : pc'[d] \in {pc[d], "failed"} /\ (pc'[d] # "failed" => fd'[d] = fd[d])
  BY <1>1 DEF TypeOK
<1>4. Whole(file)' /\ NamesApart' /\ ReaderWhole'
  BY <1>1 DEF Whole, NamesApart, ReaderWhole
<1>5. OneAtATime'
  BY <1>3 DEF OneAtATime, Running
<1>6. OwnTemp'
  <2> SUFFICES ASSUME NEW d \in Calls, Running(d)', OwnTemp
      PROVE  /\ temp'[Owner[d]] # Nothing
             /\ pc'[d] = "writing" =>
                 /\ fd'[d] = temp'[Owner[d]]
                 /\ \A k \in 1..Chunks : k < next'[d] => data'[fd'[d]][k] = d
             /\ pc'[d] = "renaming" => data'[temp'[Owner[d]]] = Filled(d)
    BY DEF OwnTemp, Running
  <2> QED
    BY <1>1, <1>3 DEF OwnTemp, Running
<1>7. AttemptsLeft'
  <2>1. CASE Throws(c)
    BY <2>1 DEF AttemptsLeft, Throws, TypeOK
  <2>2. CASE RenameBusy(c)
    BY <2>2 DEF AttemptsLeft, RenameBusy, NextTry, TypeOK
  <2> QED
    BY <2>1, <2>2
<1> QED
  BY <1>2, <1>4, <1>5, <1>6, <1>7

LEMMA CrashInvariant == ASSUME IInv, NEW p \in Procs, Crash(p) PROVE IInv'
<1> USE BoundAssumption, ValueAssumption, OwnerAssumption DEF IInv
<1>1. TypeOK'
  BY DEF TypeOK, Crash, Running
<1>2. Whole(file)' /\ NamesApart' /\ ReaderWhole'
  BY DEF Whole, NamesApart, ReaderWhole, Crash
<1>3. OneAtATime' /\ AttemptsLeft'
  BY DEF OneAtATime, AttemptsLeft, Crash, Running, TypeOK
<1>4. OwnTemp'
  BY DEF OwnTemp, Crash, Running, TypeOK
<1> QED
  BY <1>1, <1>2, <1>3, <1>4

LEMMA ReaderInvariant == ASSUME IInv, Reader PROVE IInv'
<1> USE BoundAssumption, ValueAssumption, OwnerAssumption DEF IInv
<1>1. UNCHANGED <<file, temp, data, pc, fd, next, tries>>
  BY DEF Reader, ReadOpen, ReadChunk
<1>2. Whole(file)' /\ OneAtATime' /\ AttemptsLeft' /\ OwnTemp'
  BY <1>1 DEF Whole, OneAtATime, AttemptsLeft, OwnTemp, Running
<1>3. CASE ReadOpen
  <2>1. reader' = file /\ got' = Empty
    BY <1>3 DEF ReadOpen
  <2>2. TypeOK' /\ NamesApart'
    BY <2>1, <1>1 DEF TypeOK, NamesApart, Empty, Contents
  <2>3. ReaderWhole'
    BY <2>1, <1>1 DEF ReaderWhole, Whole, Empty, TypeOK
  <2> QED
    BY <2>2, <2>3, <1>2
<1>4. CASE ReadChunk
  <2> PICK k \in 1..Chunks :
        /\ \A j \in 1..(k - 1) : got[j] # Nothing
        /\ got' = [got EXCEPT ![k] = data[reader][k]]
        /\ reader' = IF k = Chunks THEN Nothing ELSE reader
    BY <1>4 DEF ReadChunk
  <2>1. reader # Nothing /\ reader \in Inodes
    BY <1>4 DEF ReadChunk, TypeOK
  <2> PICK v \in Values :
        /\ data[reader] = Filled(v)
        /\ \A j \in 1..Chunks : got[j] \in {Nothing, v}
    BY <2>1 DEF ReaderWhole
  <2>2. data[reader][k] = v /\ v \in Contents /\ v # Nothing
    BY DEF Filled, Values, Contents
  <2>3. TypeOK' /\ NamesApart'
    BY <2>1, <2>2, <1>1 DEF TypeOK, NamesApart
  <2>4. \A j \in 1..Chunks : got'[j] = IF j = k THEN v ELSE got[j]
    BY <2>2 DEF TypeOK
  <2>5. ReaderWhole'
    <3>1. CASE k = Chunks
      <4>1. \A j \in 1..Chunks : got'[j] = v
        BY <2>4, <3>1
      <4>2. got' = Filled(v)
        BY <4>1, <2>3 DEF TypeOK, Filled
      <4> QED
        BY <3>1, <4>2 DEF ReaderWhole
    <3>2. CASE k # Chunks
      BY <3>2, <2>1, <2>4, <1>1 DEF ReaderWhole
    <3> QED
      BY <3>1, <3>2
  <2> QED
    BY <2>3, <2>5, <1>2
<1> QED
  BY <1>3, <1>4 DEF Reader

LEMMA StutterInvariant == ASSUME IInv, UNCHANGED vars PROVE IInv'
  BY DEF vars, IInv, TypeOK, Whole, NamesApart, OneAtATime, AttemptsLeft, OwnTemp, ReaderWhole, Running

LEMMA StepInvariant == ASSUME ~Overlap PROVE IInv /\ [Next]_vars => IInv'
<1> SUFFICES ASSUME IInv, [Next]_vars PROVE IInv'
  OBVIOUS
<1>1. CASE Reader
  BY <1>1, ReaderInvariant
<1>2. ASSUME NEW c \in Calls, Write(c) PROVE IInv'
  BY <1>2, OpenInvariant, WriteChunkInvariant, CloseInvariant, RenameInvariant, FailureInvariant DEF Write
<1>3. ASSUME NEW p \in Procs, Crash(p) PROVE IInv'
  BY <1>3, CrashInvariant
<1>4. CASE UNCHANGED vars
  BY <1>4, StutterInvariant
<1> QED
  BY <1>1, <1>2, <1>3, <1>4 DEF Next

LEMMA Invariant == ASSUME ~Overlap PROVE Spec => []IInv
<1>1. Init => IInv
  BY InitInvariant
<1>2. IInv /\ [Next]_vars => IInv'
  BY StepInvariant
<1> QED
  BY <1>1, <1>2, PTL DEF Spec
-----------------------------------------------------------------------------
\* A state file written by calls that do not overlap within a process is never
\* half of one call's contents or a mixture of two, whatever other processes
\* write, crash or read in the meantime.
THEOREM FileNeverTorn == ASSUME ~Overlap PROVE Spec => []NeverTorn
<1>1. IInv => NeverTorn
  BY DEF IInv, Whole, Values, NeverTorn
<1> QED
  BY <1>1, Invariant, PTL

\* A reader that has read to the end has read one call's contents.
THEOREM ReadersSeeOneWrite == ASSUME ~Overlap PROVE Spec => []ReadsOneWrite
<1>1. IInv => ReadsOneWrite
  BY DEF IInv, ReaderWhole, Values, ReadsOneWrite
<1> QED
  BY <1>1, Invariant, PTL
-----------------------------------------------------------------------------
value == data[file][1]
status == [c \in Calls |-> IF Running(c) THEN "pending" ELSE pc[c]]

LEMMA FailStep ==
    ASSUME UNCHANGED value, NEW lost \in SUBSET {c \in Calls : status[c] = "pending"},
           status' = [c \in Calls |-> IF c \in lost THEN "failed" ELSE status[c]]
    PROVE  Register!Next
  BY DEF Register!Next, Register!Fail, value, status

LEMMA WriteStep ==
    ASSUME ~Overlap, IInv, NEW c \in Calls, Write(c)
    PROVE  Register!Next \/ UNCHANGED <<value, status>>
<1> USE BoundAssumption, ValueAssumption, OwnerAssumption DEF IInv
<1>1. CASE Open(c)
  <2> PICK i \in Inodes : /\ i = temp[Owner[c]] \/ i \notin InUse
                          /\ data' = [data EXCEPT ![i] = Empty]
    BY <1>1 DEF Open, TempName
  <2>1. i # file /\ file' = file
    BY <1>1 DEF NamesApart, InUse, TypeOK, Open
  <2>2. UNCHANGED value
    BY <2>1 DEF value, TypeOK
  <2>3. status[c] = "ready" /\ status' = [status EXCEPT ![c] = "pending"]
    BY <1>1 DEF Open, status, Running, TypeOK
  <2> QED
    BY <2>2, <2>3 DEF Register!Next, Register!Begin, value, status
<1>2. CASE WriteChunk(c)
  <2>1. fd[c] # file
    BY <1>2 DEF WriteChunk, OwnTemp, NamesApart, Running
  <2>2. UNCHANGED value
    BY <1>2, <2>1 DEF WriteChunk, value, TypeOK
  <2>3. UNCHANGED status
    BY <1>2 DEF WriteChunk, status, Running
  <2> QED
    BY <2>2, <2>3
<1>3. CASE Close(c)
  <2>1. UNCHANGED value
    BY <1>3 DEF Close, value
  <2>2. UNCHANGED status
    BY <1>3 DEF Close, status, Running, TypeOK
  <2> QED
    BY <2>1, <2>2
<1>4. CASE Rename(c)
  <2>1. value' = c
    <3>1. data[temp[Owner[c]]] = Filled(c)
      BY <1>4 DEF Rename, OwnTemp
    <3>2. Filled(c)[1] = c
      BY DEF Filled
    <3> QED
      BY <1>4, <3>1, <3>2 DEF Rename, TempName, value
  <2>2. status[c] = "pending" /\ status' = [status EXCEPT ![c] = "done"]
    BY <1>4 DEF Rename, status, Running, TypeOK
  <2> QED
    BY <2>1, <2>2 DEF Register!Next, Register!Replace, value, status
<1>5. CASE Throws(c) \/ RenameBusy(c)
  <2>1. UNCHANGED value
    BY <1>5 DEF Throws, RenameBusy, value
  <2>2. CASE pc' = pc
    BY <2>1, <2>2 DEF status, Running
  <2>3. CASE pc' = [pc EXCEPT ![c] = "failed"]
    <3> DEFINE lost == {c}
    <3>1. lost \in SUBSET {d \in Calls : status[d] = "pending"}
      BY <1>5 DEF Throws, RenameBusy, status, Running
    <3>2. status' = [d \in Calls |-> IF d \in lost THEN "failed" ELSE status[d]]
      BY <2>3 DEF status, Running, TypeOK
    <3> QED
      BY <2>1, <3>1, <3>2, FailStep
  <2> QED
    BY <1>5, <2>2, <2>3 DEF Throws, RenameBusy, TypeOK
<1> QED
  BY <1>1, <1>2, <1>3, <1>4, <1>5 DEF Write

LEMMA CrashStep == ASSUME IInv, NEW p \in Procs, Crash(p) PROVE Register!Next
<1> DEFINE lost == {c \in Calls : Owner[c] = p /\ Running(c)}
<1>1. UNCHANGED value
  BY DEF Crash, value
<1>2. lost \in SUBSET {c \in Calls : status[c] = "pending"}
  BY DEF status
<1>3. status' = [c \in Calls |-> IF c \in lost THEN "failed" ELSE status[c]]
  BY DEF Crash, status, Running
<1> QED
  BY <1>1, <1>2, <1>3, FailStep

LEMMA ReaderStep == ASSUME Reader PROVE UNCHANGED <<value, status>>
  BY DEF Reader, ReadOpen, ReadChunk, value, status, Running

\* To its readers and writers a state file is one register: it changes only when
\* a call succeeds, all at once, and a call that fails or dies changes nothing.
THEOREM FileIsRegister == ASSUME ~Overlap PROVE Spec => ImplementsRegister
<1>1. Init => Register!Init
  BY BoundAssumption DEF Init, Register!Init, Running, Filled
<1>2. IInv /\ [Next]_vars => [Register!Next]_(Register!vars)
  <2> SUFFICES ASSUME IInv, [Next]_vars
      PROVE  Register!Next \/ UNCHANGED <<value, status>>
    BY DEF Register!vars, value, status
  <2>1. CASE Reader
    BY <2>1, ReaderStep
  <2>2. ASSUME NEW c \in Calls, Write(c) PROVE Register!Next \/ UNCHANGED <<value, status>>
    BY <2>2, WriteStep
  <2>3. ASSUME NEW p \in Procs, Crash(p) PROVE Register!Next
    BY <2>3, CrashStep
  <2>4. CASE UNCHANGED vars
    BY <2>4 DEF vars, value, status, Running
  <2> QED
    BY <2>1, <2>2, <2>3, <2>4 DEF Next
<1> QED
  BY <1>1, <1>2, Invariant, PTL DEF Spec, ImplementsRegister, Register!Spec
-----------------------------------------------------------------------------
(* The sensor log.                                                          *)

LineT == [n : Nat, kind : Log!Kinds \cup {Log!Bad}, at : Int, when : Nat]

\* The lines of a file are in the order in which they were written, none of them later
\* than m, and each has the stamp of its time or one of 1970.
Chronicle(s, m) ==
    /\ s \in Seq(LineT)
    /\ \A i \in 1..Len(s) :
        /\ s[i].at \in {Log!Epoch, s[i].when}
        /\ s[i].when <= m
    /\ \A i, j \in 1..Len(s) : i < j => s[i].when <= s[j].when

\* Every copy of the log there is.
LogInv ==
    /\ now \in Nat \ {0}
    /\ synced \in BOOLEAN
    /\ count \in Nat
    /\ Chronicle(log, now)
    /\ Chronicle(mirror, now)
    /\ pruning # Nothing => Chronicle(pruning, now)

\* The sensor log counts and lists as everybody does.
LEMMA SameInLog ==
    ASSUME NEW S
    PROVE  Log!Cardinality(S) = Cardinality(S) /\ Log!InOrder(S) = InOrder(S)
<1>1. \A T : Log!Cardinality(T) = Cardinality(T)
  BY DEF Log!Cardinality, Cardinality
<1>2. \A i : Log!Rank(i, S) = Rank(i, S)
  BY <1>1 DEF Log!Rank, Rank
<1> QED
  BY <1>1, <1>2 DEF Log!InOrder, InOrder

\* The lines chosen from a file are a part of it, in its order.
LEMMA ChosenProperties ==
    ASSUME NEW s \in Seq(LineT), NEW S \in SUBSET (1..Len(s))
    PROVE  /\ Log!Chosen(s, S) \in Seq(LineT)
           /\ Len(Log!Chosen(s, S)) = Cardinality(S) /\ Cardinality(S) \in Nat
           /\ InOrder(S) \in [1..Cardinality(S) -> S]
           /\ \A k \in 1..Cardinality(S) : Log!Chosen(s, S)[k] = s[InOrder(S)[k]]
           /\ \A j, k \in 1..Cardinality(S) : j < k => InOrder(S)[j] < InOrder(S)[k]
           /\ \A i \in S : \E k \in 1..Cardinality(S) : InOrder(S)[k] = i
<1> DEFINE c == Cardinality(S)
           f == InOrder(S)
<1>1. Len(s) \in Nat /\ IsFiniteSet(1..Len(s))
  BY LenProperties, FS_Interval
<1>2. IsFiniteSet(S) /\ S \in SUBSET Nat
  <2>1. IsFiniteSet(S)
    BY <1>1, FS_Subset, Zenon
  <2>2. S \in SUBSET Nat
    BY <1>1
  <2> QED
    BY <2>1, <2>2
<1>3. /\ f \in Seq(S) /\ c \in Nat /\ Len(f) = c
      /\ \A i \in S : \E k \in 1..c : f[k] = i
      /\ \A j, k \in 1..c : j < k => f[j] < f[k]
  BY <1>2, InOrderProperties
<1>4. f \in [1..c -> S]
  BY <1>3, LenProperties
<1>5. Log!Chosen(s, S) = [k \in 1..c |-> s[f[k]]]
  BY SameInLog DEF Log!Chosen
<1> HIDE DEF c, f
<1>6. \A k \in 1..c : s[f[k]] \in LineT
  BY <1>4, ElementOfSeq
<1>7. Log!Chosen(s, S) \in [1..c -> LineT]
  BY <1>5, <1>6
<1>8. Log!Chosen(s, S) \in Seq(LineT) /\ Len(Log!Chosen(s, S)) = c
  BY <1>3, <1>7, LenProperties, SeqDef
<1> QED
  BY <1>3, <1>4, <1>5, <1>8 DEF c, f

\* What is chosen from a chronicle is one.
LEMMA ChosenChronicle ==
    ASSUME NEW m \in Nat, NEW s, Chronicle(s, m), NEW S \in SUBSET (1..Len(s))
    PROVE  Chronicle(Log!Chosen(s, S), m)
<1> DEFINE t == Log!Chosen(s, S)
<1>1. PICK f : /\ f = InOrder(S) /\ f \in [1..Cardinality(S) -> S]
               /\ \A k \in 1..Cardinality(S) : t[k] = s[f[k]]
               /\ \A j, k \in 1..Cardinality(S) : j < k => f[j] < f[k]
  BY ChosenProperties DEF Chronicle
<1>2. t \in Seq(LineT) /\ Len(t) = Cardinality(S)
  BY ChosenProperties DEF Chronicle
<1> HIDE DEF t
<1>3. \A k \in 1..Len(t) : f[k] \in 1..Len(s) /\ t[k] = s[f[k]]
  BY <1>1, <1>2
<1>4. \A j, k \in 1..Len(t) : j < k => f[j] < f[k]
  BY <1>1, <1>2
<1> QED
  BY <1>2, <1>3, <1>4 DEF Chronicle, t

LEMMA ReadableProperties ==
    ASSUME NEW m \in Nat, NEW s, Chronicle(s, m)
    PROVE  /\ Chronicle(Log!Readable(s), m)
           /\ \A i \in 1..Len(Log!Readable(s)) : Log!Parseable(Log!Readable(s)[i])
           /\ \A i \in 1..Len(s) : Log!Parseable(s[i]) =>
                \E k \in 1..Len(Log!Readable(s)) : Log!Readable(s)[k] = s[i]
           /\ Len(Log!Readable(s)) = Cardinality({i \in 1..Len(s) : Log!Parseable(s[i])})
<1>0. PICK S : S = {i \in 1..Len(s) : Log!Parseable(s[i])}
  OBVIOUS
<1>1. s \in Seq(LineT) /\ DOMAIN s = 1..Len(s)
  BY LenProperties DEF Chronicle
<1>2. Log!Readable(s) = Log!Chosen(s, S)
  BY <1>0, <1>1 DEF Log!Readable
<1>3. Chronicle(Log!Readable(s), m)
  BY <1>0, <1>2, ChosenChronicle
<1>4. PICK f : /\ f = InOrder(S) /\ f \in [1..Cardinality(S) -> S]
               /\ \A k \in 1..Cardinality(S) : Log!Chosen(s, S)[k] = s[f[k]]
               /\ \A i \in S : \E k \in 1..Cardinality(S) : f[k] = i
  <2>1. S \in SUBSET (1..Len(s))
    BY <1>0
  <2>2. /\ InOrder(S) \in [1..Cardinality(S) -> S]
        /\ \A k \in 1..Cardinality(S) : Log!Chosen(s, S)[k] = s[InOrder(S)[k]]
        /\ \A i \in S : \E k \in 1..Cardinality(S) : InOrder(S)[k] = i
    BY <1>1, <2>1, ChosenProperties
  <2> QED
    BY <2>2
<1>5. Len(Log!Readable(s)) = Cardinality(S)
  <2>1. S \in SUBSET (1..Len(s))
    BY <1>0
  <2> QED
    BY <1>1, <1>2, <2>1, ChosenProperties
<1>6. \A i \in 1..Len(Log!Readable(s)) : Log!Parseable(Log!Readable(s)[i])
  <2>1. \A i \in S : Log!Parseable(s[i])
    BY <1>0
  <2> QED
    BY <1>2, <1>4, <1>5, <2>1
<1>7. \A i \in S : \E k \in 1..Len(Log!Readable(s)) : Log!Readable(s)[k] = s[i]
  BY <1>2, <1>4, <1>5
<1> QED
  BY <1>0, <1>3, <1>5, <1>6, <1>7

\* The more lines, the more of them readable; and where all are, all are read.
LEMMA ReadableGrows ==
    ASSUME NEW m \in Nat, NEW s, Chronicle(s, m), NEW l \in LineT, Chronicle(Append(s, l), m)
    PROVE  Len(Log!Readable(Append(s, l))) >= Len(Log!Readable(s))
<1> DEFINE t == Append(s, l)
           S == {i \in 1..Len(s) : Log!Parseable(s[i])}
           R == {i \in 1..Len(t) : Log!Parseable(t[i])}
<1>1. /\ Len(s) \in Nat /\ Len(t) = Len(s) + 1
      /\ \A i \in 1..Len(s) : t[i] = s[i]
  BY AppendProperties, LenProperties DEF Chronicle
<1>2. S \in SUBSET R
  BY <1>1
<1>3. IsFiniteSet(R)
  <2>1. IsFiniteSet(1..Len(t)) /\ R \in SUBSET (1..Len(t))
    BY <1>1, FS_Interval
  <2> QED
    BY <2>1, FS_Subset
<1>4. IsFiniteSet(S) /\ Cardinality(S) <= Cardinality(R)
  BY <1>2, <1>3, FS_Subset
<1>5. Cardinality(S) \in Nat /\ Cardinality(R) \in Nat
  BY <1>3, <1>4, FS_CardinalityType
<1>6. Len(Log!Readable(t)) = Cardinality(R) /\ Len(Log!Readable(s)) = Cardinality(S)
  BY ReadableProperties
<1> QED
  BY <1>4, <1>5, <1>6

\* A prune leaves a chronicle; every readable line as young as the retention is in it;
\* and if it drops anything, enough readable lines are left.
LEMMA PrunedProperties ==
    ASSUME NEW m \in Nat, NEW s, Chronicle(s, m)
    PROVE  /\ Chronicle(Log!Pruned(s), m)
           /\ \A i \in 1..Len(s) :
                Log!Parseable(s[i]) /\ s[i].at # Log!Epoch /\ s[i].when >= m - Retention
                => \E k \in 1..Len(Log!Pruned(s)) : Log!Pruned(s)[k] = s[i]
           /\ Log!Pruned(s) # s => Len(Log!Readable(Log!Pruned(s))) >= MinKeep
<1> USE LogAssumption
<1>1. PICK read : read = Log!Readable(s)
  OBVIOUS
<1>2. PICK newest : newest = Log!NewestStamp(read)
  OBVIOUS
<1>3. PICK S : S = {i \in 1..Len(read) : Log!Recent(read[i], newest)}
  OBVIOUS
<1>4. PICK keep : keep = Log!Chosen(read, S)
  OBVIOUS
<1>5. /\ Chronicle(read, m)
      /\ \A i \in 1..Len(read) : Log!Parseable(read[i])
      /\ \A i \in 1..Len(s) : Log!Parseable(s[i]) => \E k \in 1..Len(read) : read[k] = s[i]
  BY <1>1, ReadableProperties
<1>6. read \in Seq(LineT) /\ DOMAIN read = 1..Len(read) /\ Len(read) \in Nat
  BY <1>5, LenProperties DEF Chronicle
<1>7. Log!Pruned(s) = IF read = <<>> \/ ~Log!Enough(keep) THEN s ELSE keep
  BY <1>1, <1>2, <1>3, <1>4, <1>6 DEF Log!Pruned
<1>8. Chronicle(keep, m)
  BY <1>3, <1>4, <1>5, ChosenChronicle
<1>9. PICK f : /\ f = InOrder(S) /\ f \in [1..Cardinality(S) -> S]
               /\ \A k \in 1..Cardinality(S) : keep[k] = read[f[k]]
               /\ \A i \in S : \E k \in 1..Cardinality(S) : f[k] = i
  <2>1. S \in SUBSET (1..Len(read))
    BY <1>3
  <2> QED
    BY <1>4, <1>6, <2>1, ChosenProperties
<1>10. Len(keep) = Cardinality(S) /\ Cardinality(S) \in Nat
  BY <1>3, <1>4, <1>6, ChosenProperties
<1>11. ASSUME Log!Pruned(s) # s PROVE Len(Log!Readable(Log!Pruned(s))) >= MinKeep
  <2>1. Log!Pruned(s) = keep /\ Len(keep) >= MinKeep
    BY <1>7, <1>11 DEF Log!Enough
  <2>2. \A k \in 1..Len(keep) : Log!Parseable(keep[k])
    BY <1>3, <1>5, <1>9, <1>10
  <2>3. {k \in 1..Len(keep) : Log!Parseable(keep[k])} = 1..Len(keep)
    BY <2>2
  <2>4. Cardinality(1..Len(keep)) = Len(keep)
    BY <1>10, FS_Interval
  <2>5. Len(Log!Readable(keep)) = Len(keep)
    BY <1>8, <2>3, <2>4, ReadableProperties
  <2> QED
    BY <2>1, <2>5
<1>12. ASSUME NEW i \in 1..Len(s),
              Log!Parseable(s[i]), s[i].at # Log!Epoch, s[i].when >= m - Retention
       PROVE  \E k \in 1..Len(Log!Pruned(s)) : Log!Pruned(s)[k] = s[i]
  <2>1. PICK j \in 1..Len(read) : read[j] = s[i]
    BY <1>5, <1>12
  <2>2. read[j].at \in Int /\ read[j].at >= m - Retention
    <3>1. read[j] \in LineT /\ read[j].at \in {Log!Epoch, read[j].when}
      BY <1>5, <1>6, ElementOfSeq DEF Chronicle
    <3> QED
      BY <1>12, <2>1, <3>1 DEF LineT
  <2>3. newest \in Int /\ newest <= m
    <3> DEFINE T == {read[k].at : k \in 1..Len(read)}
    <3>1. \A k \in 1..Len(read) : read[k].at \in Int /\ read[k].at <= m
      <4>1. SUFFICES ASSUME NEW k \in 1..Len(read) PROVE read[k].at \in Int /\ read[k].at <= m
        OBVIOUS
      <4>2. read[k] \in LineT /\ read[k].at \in {Log!Epoch, read[k].when} /\ read[k].when <= m
        BY <1>5, <1>6, ElementOfSeq DEF Chronicle
      <4>3. Log!Epoch \in Int /\ Log!Epoch <= m
        BY DEF Log!Epoch
      <4> QED
        BY <4>2, <4>3 DEF LineT
    <3>2. T \in SUBSET Int /\ T # {} /\ \A y \in T : y <= m
      BY <2>1, <3>1
    <3>3. \E x \in T : \A y \in T : x >= y
      <4> HIDE DEF T
      <4>1. m \in Int
        OBVIOUS
      <4> QED
        BY <3>2, <4>1, GreatestOf, Zenon
    <3>4. newest = CHOOSE x \in T : \A y \in T : x >= y
      BY <1>2, <1>6 DEF Log!NewestStamp, Log!Max
    <3>5. newest \in T
      BY <3>3, <3>4
    <3> QED
      BY <3>2, <3>5
  <2>4. j \in S
    BY <1>3, <2>2, <2>3 DEF Log!Recent
  <2>5. \E k \in 1..Len(keep) : keep[k] = s[i]
    BY <1>9, <1>10, <2>1, <2>4
  <2> QED
    BY <1>7, <2>5
<1>13. Chronicle(Log!Pruned(s), m)
  BY <1>7, <1>8
<1> QED
  BY <1>11, <1>12, <1>13

LEMMA LaterChronicle ==
    ASSUME NEW m \in Nat, NEW s, Chronicle(s, m)
    PROVE  Chronicle(s, m + 1)
<1>1. \A i \in 1..Len(s) : s[i] \in LineT
  BY ElementOfSeq DEF Chronicle
<1>2. \A i \in 1..Len(s) : s[i].when \in Nat
  BY <1>1 DEF LineT
<1> QED
  BY <1>2 DEF Chronicle

LEMMA AppendChronicle ==
    ASSUME NEW m \in Nat, NEW s, Chronicle(s, m), NEW l \in LineT,
           l.at \in {Log!Epoch, l.when}, l.when <= m, \A i \in 1..Len(s) : s[i].when <= l.when
    PROVE  Chronicle(Append(s, l), m)
<1> DEFINE t == Append(s, l)
<1>1. /\ t \in Seq(LineT) /\ Len(s) \in Nat /\ Len(t) = Len(s) + 1
      /\ \A i \in 1..Len(s) : t[i] = s[i]
      /\ t[Len(s) + 1] = l
  BY AppendProperties, LenProperties DEF Chronicle
<1> HIDE DEF t
<1>2. \A i \in 1..Len(t) : i \in 1..Len(s) \/ i = Len(s) + 1
  BY <1>1
<1>3. \A i \in 1..Len(t) : t[i].at \in {Log!Epoch, t[i].when} /\ t[i].when <= m
  BY <1>1, <1>2 DEF Chronicle
<1>4. ASSUME NEW i \in 1..Len(t), NEW j \in 1..Len(t), i < j PROVE t[i].when <= t[j].when
  <2>1. i \in 1..Len(s)
    BY <1>1, <1>4
  <2> QED
    BY <1>1, <1>2, <1>4, <2>1 DEF Chronicle
<1>5. Chronicle(t, m)
  BY <1>1, <1>3, <1>4 DEF Chronicle
<1> QED
  BY <1>5 DEF t

\* A copy that was cut off is the beginning of a chronicle and a piece of a line.
LEMMA CutChronicle ==
    ASSUME NEW m \in Nat, NEW s, Chronicle(s, m), NEW n \in 0..(Len(s) - 1)
    PROVE  Chronicle(Log!Cut(s, n), m)
<1> DEFINE r == SubSeq(s, 1, n)
           l == [s[n + 1] EXCEPT !.kind = Log!Bad]
<1>1. s \in Seq(LineT) /\ Len(s) \in Nat /\ n + 1 \in 1..Len(s) /\ n # Len(s) /\ n \in Int
  BY LenProperties DEF Chronicle
<1>2. \A i \in 1..n : s[i] \in LineT /\ i \in 1..Len(s)
  BY <1>1, ElementOfSeq
<1>3. /\ r \in Seq(LineT) /\ Len(r) = n
      /\ \A i \in 1..n : r[i] = s[i]
  BY <1>1, <1>2, SubSeqProperties
<1>4. s[n + 1] \in LineT
  BY <1>1, ElementOfSeq
<1>5. l \in LineT /\ l.at = s[n + 1].at /\ l.when = s[n + 1].when
  BY <1>4 DEF LineT
<1> HIDE DEF r, l
<1>6. Chronicle(r, m)
  BY <1>1, <1>2, <1>3 DEF Chronicle
<1>7. Chronicle(Append(r, l), m)
  <2>1. \A i \in 1..Len(r) : r[i].when <= l.when
    BY <1>1, <1>2, <1>3, <1>5 DEF Chronicle
  <2>2. l.at \in {Log!Epoch, l.when} /\ l.when <= m
    BY <1>1, <1>5 DEF Chronicle
  <2> QED
    BY <1>5, <1>6, <2>1, <2>2, AppendChronicle
<1>8. Log!Cut(s, n) = Append(r, l)
  BY <1>1 DEF Log!Cut, r, l
<1> QED
  BY <1>7, <1>8

\* What the board appends, a line of its own or the beginning of one.
LEMMA NewLine ==
    ASSUME LogInv, NEW kind \in Log!Kinds \cup {Log!Bad}
    PROVE  Log!Line(kind) \in LineT /\ Chronicle(Append(log, Log!Line(kind)), now)
<1> USE LogAssumption
<1>1. Log!Epoch \in Int /\ now \in Nat
  BY DEF Log!Epoch, LogInv
<1>2. Log!Clock \in {Log!Epoch, now}
  BY DEF Log!Clock
<1>3. /\ Log!Line(kind) \in LineT /\ Log!Line(kind).when = now
      /\ Log!Line(kind).at \in {Log!Epoch, now}
  BY <1>1, <1>2 DEF Log!Line, LineT, LogInv
<1>4. Chronicle(log, now) /\ \A i \in 1..Len(log) : log[i].when <= now
  BY DEF LogInv, Chronicle
<1>5. PICK l : l = Log!Line(kind)
  OBVIOUS
<1>6. l.at \in {Log!Epoch, l.when} /\ l.when <= now /\ \A i \in 1..Len(log) : log[i].when <= l.when
  BY <1>1, <1>3, <1>4, <1>5
<1>7. Chronicle(Append(log, l), now)
  BY <1>1, <1>3, <1>4, <1>5, <1>6, AppendChronicle
<1> QED
  BY <1>3, <1>5, <1>7

\* The four sorts of steps of the log: one line more; a prune; the copies; the rest.
LEMMA LogStep ==
    ASSUME LogInv, Log!LogNext
    PROVE  /\ LogInv'
           /\ \/ log' = log
              \/ \E kind \in Log!Kinds \cup {Log!Bad} : log' = Append(log, Log!Line(kind)) /\ now' = now
              \/ /\ pruning # Nothing /\ now' = now
                 /\ log' = Log!Pruned(pruning) /\ log' # pruning
<1>1. now \in Nat \ {0} /\ Chronicle(log, now) /\ Chronicle(mirror, now)
  BY DEF LogInv
<1>2. CASE Log!AppendLine \/ Log!Reboot
  <2>1. /\ \/ log' = log /\ count' = count
           \/ \E kind \in Log!Kinds \cup {Log!Bad} :
                log' = Append(log, Log!Line(kind)) /\ count' = count + 1
        /\ now' = now /\ mirror' = mirror /\ synced' \in BOOLEAN
        /\ pruning' \in {pruning, Nothing}
    BY <1>2 DEF Log!AppendLine, Log!Reboot, LogInv
  <2>2. Chronicle(log', now)
    BY <1>1, <2>1, NewLine
  <2>3. count' \in Nat
    BY <2>1 DEF LogInv
  <2> QED
    BY <1>1, <2>1, <2>2, <2>3 DEF LogInv
<1>3. CASE Log!Pass
  <2>1. UNCHANGED <<synced, log, count, pruning, mirror>> /\ now' = now + 1
    BY <1>3 DEF Log!Pass
  <2>2. Chronicle(log, now + 1) /\ Chronicle(mirror, now + 1)
        /\ (pruning # Nothing => Chronicle(pruning, now + 1))
    BY <1>1, LaterChronicle DEF LogInv
  <2> QED
    BY <1>1, <2>1, <2>2 DEF LogInv
<1>4. CASE Log!PruneReplaces
  <2>1. /\ pruning # Nothing /\ pruning' = Nothing
        /\ \/ log' = log
           \/ log' = Log!Pruned(pruning) /\ log' # pruning
        /\ UNCHANGED <<now, synced, count, mirror>>
    BY <1>4 DEF Log!PruneReplaces
  <2>2. Chronicle(Log!Pruned(pruning), now)
    BY <1>1, <2>1, PrunedProperties DEF LogInv
  <2> QED
    BY <1>1, <2>1, <2>2 DEF LogInv
<1>5. CASE Log!Sync \/ Log!LinkChanges \/ Log!PruneReads \/ Log!Probe \/ Log!Push \/ Log!PushBreaks \/ Log!Pull
  <2>1. /\ log' = log /\ now' = now /\ count' = count /\ synced' \in {synced, TRUE}
        /\ mirror' \in {mirror, log} \/ \E n \in 0..(Len(log) - 1) : mirror' = Log!Cut(log, n)
        /\ pruning' \in {pruning, log}
    BY <1>5 DEF Log!Sync, Log!LinkChanges, Log!PruneReads, Log!Probe, Log!Push, Log!PushBreaks, Log!Pull
  <2>2. Chronicle(mirror', now)
    BY <1>1, <2>1, CutChronicle
  <2>3. synced' \in BOOLEAN
    BY <2>1, Zenon DEF LogInv
  <2> QED
    BY <1>1, <2>1, <2>2, <2>3 DEF LogInv
<1> QED
  BY <1>2, <1>3, <1>4, <1>5 DEF Log!LogNext

LEMMA LogInvariant == FilesSpec => []LogInv
<1>1. FilesInit => LogInv
  BY EmptySeq DEF FilesInit, Log!LogInit, LogInv, Chronicle
<1>2. LogInv /\ [FilesNext]_<<which, sensor, vars>> => LogInv'
  <2> SUFFICES ASSUME LogInv, [FilesNext]_<<which, sensor, vars>> PROVE LogInv'
    OBVIOUS
  <2>1. CASE Log!LogNext
    BY <2>1, LogStep
  <2>2. CASE UNCHANGED sensor
    BY <2>2 DEF sensor, LogInv
  <2> QED
    BY <2>1, <2>2 DEF FilesNext
<1> QED
  BY <1>1, <1>2, PTL DEF FilesSpec

-----------------------------------------------------------------------------
\* What a prune may drop: whatever the clock of the board says after a boot, a line that
\* has the right time stays as long as the retention unless it came while the prune was
\* under way, and the least number of readable lines is never given up.  For every
\* retention and every minimum.
THEOREM HistoryIsKept == FilesSpec => HistoryKept
<1> DEFINE Kept ==
        /\ \A l \in Log!Range(log) :
              Log!Parseable(l) /\ l.at # Log!Epoch /\ l.when >= now - Retention
                  => \/ l \in Log!Range(log')
                     \/ pruning # Nothing /\ l \notin Log!Range(pruning)
        /\ Len(Log!Readable(log)) >= MinKeep => Len(Log!Readable(log')) >= MinKeep
<1>1. ASSUME LogInv, Log!LogNext PROVE Kept
  <2>0. now \in Nat /\ Chronicle(log, now) /\ log \in Seq(LineT) /\ MinKeep \in Nat
    BY <1>1, LogAssumption DEF LogInv, Chronicle
  <2>1. CASE log' = log
    BY <2>1
  <2>2. ASSUME NEW kind \in Log!Kinds \cup {Log!Bad}, log' = Append(log, Log!Line(kind)) PROVE Kept
    <3>1. Log!Line(kind) \in LineT /\ Chronicle(log', now)
      BY <1>1, <2>2, NewLine
    <3>2. Len(Log!Readable(log')) >= Len(Log!Readable(log))
      BY <2>0, <2>2, <3>1, ReadableGrows
    <3>3. Log!Range(log) \in SUBSET Log!Range(log')
      <4>1. /\ DOMAIN log = 1..Len(log) /\ DOMAIN log' = 1..Len(log') /\ Len(log) \in Nat
            /\ Len(log') = Len(log) + 1
            /\ \A i \in 1..Len(log) : log'[i] = log[i]
        BY <2>0, <2>2, <3>1, LenProperties, AppendProperties DEF Chronicle
      <4> QED
        BY <4>1 DEF Log!Range
    <3>4. Len(Log!Readable(log')) \in Nat /\ Len(Log!Readable(log)) \in Nat
      BY <2>0, <3>1, ReadableProperties, LenProperties DEF Chronicle
    <3> QED
      BY <2>0, <3>2, <3>3, <3>4
  <2>3. ASSUME pruning # Nothing, log' = Log!Pruned(pruning), log' # pruning PROVE Kept
    <3>1. Chronicle(pruning, now) /\ pruning \in Seq(LineT) /\ DOMAIN pruning = 1..Len(pruning)
      BY <1>1, <2>3, LenProperties DEF LogInv, Chronicle
    <3>2. Chronicle(log', now) /\ DOMAIN log' = 1..Len(log')
      BY <2>0, <2>3, <3>1, PrunedProperties, LenProperties DEF Chronicle
    <3>3. Len(Log!Readable(log')) >= MinKeep
      BY <2>0, <2>3, <3>1, PrunedProperties
    <3>4. ASSUME NEW l \in Log!Range(log), NEW i \in 1..Len(pruning), pruning[i] = l,
                 Log!Parseable(l), l.at # Log!Epoch, l.when >= now - Retention
          PROVE  l \in Log!Range(log')
      <4>1. PICK k \in 1..Len(log') : log'[k] = l
        BY <2>0, <2>3, <3>1, <3>4, PrunedProperties
      <4> QED
        BY <3>2, <4>1 DEF Log!Range
    <3>5. \A l \in Log!Range(pruning) : \E i \in 1..Len(pruning) : pruning[i] = l
      BY <3>1 DEF Log!Range
    <3> QED
      BY <2>3, <3>3, <3>4, <3>5
  <2> QED
    BY <1>1, <2>1, <2>2, <2>3, LogStep
<1>2. LogInv /\ [FilesNext]_<<which, sensor, vars>> => [Kept]_(Log!vars)
  BY <1>1 DEF FilesNext, sensor, Log!vars
<1> QED
  BY <1>2, LogInvariant, PTL DEF FilesSpec, HistoryKept, Log!HistoryKept

\* What the laptop says of a leak, for every length of the log, age and window.
THEOREM LeaksAreTrue == FilesSpec => []LeakIsTrue
<1>1. ASSUME LogInv PROVE LeakIsTrue
  <2> USE LogAssumption
  <2>1. PICK read : read = Log!Readable(mirror)
    OBVIOUS
  <2>2. now \in Nat \ {0} /\ Log!Epoch \in Int /\ Log!Epoch < now - Window /\ Window \in Nat
    BY <1>1 DEF LogInv, Log!Epoch
  <2>3. Chronicle(read, now) /\ \A i \in 1..Len(read) : Log!Parseable(read[i])
    BY <1>1, <2>1, ReadableProperties DEF LogInv
  <2>4. read \in Seq(LineT) /\ Len(read) \in Nat /\ DOMAIN read = 1..Len(read)
    BY <2>3, LenProperties DEF Chronicle
  <2>5. \A i \in 1..Len(read) :
            /\ read[i].kind \in Log!Kinds /\ read[i].at \in Int /\ read[i].when \in Nat
            /\ read[i].at # Log!Epoch => read[i].at = read[i].when
    <3>1. \A i \in 1..Len(read) : read[i] \in LineT
      BY <2>4, ElementOfSeq
    <3>2. \A i \in 1..Len(read) : read[i].at \in {Log!Epoch, read[i].when}
      BY <2>3 DEF Chronicle
    <3> QED
      BY <2>3, <3>1, <3>2 DEF LineT, Log!Parseable
  <2>6. PICK events : events = {i \in 1..Len(read) : read[i].kind # "tick" /\ read[i].at # Log!Epoch}
    OBVIOUS
  <2>7. PICK stops : stops = {i \in 1..Len(read) : Log!Decides(read[i]) \/ read[i].at < now - Window}
    OBVIOUS
  <2>8. events \in SUBSET stops
    BY <2>5, <2>6, <2>7 DEF Log!Kinds, Log!Decides
  <2>9. ASSUME NEW T \in SUBSET (1..Len(read)), T # {}
        PROVE  Log!Max(T) \in T /\ \A i \in T : i <= Log!Max(T)
    <3>1. T \in SUBSET Int /\ Len(read) \in Int /\ \A i \in T : i <= Len(read)
      BY <2>4
    <3>2. \E x \in T : \A y \in T : x >= y
      BY <2>9, <3>1, GreatestOf, Zenon
    <3>3. Log!Max(T) \in T /\ \A i \in T : Log!Max(T) >= i
      BY <3>2, Zenon DEF Log!Max
    <3> QED
      BY <3>1, <3>3
  <2>10. events \in SUBSET (1..Len(read)) /\ stops \in SUBSET (1..Len(read))
    BY <2>6, <2>7
  <2>11. Log!LeakDetected(mirror) <=>
            /\ stops # {}
            /\ read[Log!Max(stops)].kind = "leak_detected"
            /\ read[Log!Max(stops)].at >= now - Window
    BY <2>1, <2>4, <2>7 DEF Log!LeakDetected
  <2>12. ASSUME Log!LeakDetected(mirror)
         PROVE  /\ events # {} /\ read[Log!Max(events)].kind = "leak_detected"
                /\ read[Log!Max(events)].when >= now - Window
    <3>1. PICK e : e = Log!Max(stops)
      OBVIOUS
    <3>2. /\ e \in stops /\ \A i \in stops : i <= e
          /\ read[e].kind = "leak_detected" /\ read[e].at >= now - Window
      BY <2>9, <2>10, <2>11, <2>12, <3>1
    <3>3. e \in events
      BY <2>2, <2>6, <2>10, <3>2
    <3>4. PICK d : d = Log!Max(events)
      OBVIOUS
    <3>5. d \in events /\ \A i \in events : i <= d
      BY <2>9, <2>10, <3>3, <3>4
    <3>6. d = e
      BY <2>8, <2>10, <3>2, <3>3, <3>5
    <3>7. read[e].at = read[e].when
      BY <2>5, <2>6, <3>3
    <3> QED
      BY <3>2, <3>3, <3>4, <3>6, <3>7
  <2>13. ASSUME events # {},
                ~\E i \in 1..Len(read) : read[i].at = Log!Epoch /\ i > Log!Max(events),
                read[Log!Max(events)].kind = "leak_detected",
                read[Log!Max(events)].when >= now - Window
         PROVE  Log!LeakDetected(mirror)
    <3>1. PICK d : d = Log!Max(events)
      OBVIOUS
    <3>2. d \in events /\ (\A i \in events : i <= d) /\ d \in stops
      BY <2>8, <2>9, <2>10, <2>13, <3>1
    <3>3. PICK e : e = Log!Max(stops)
      OBVIOUS
    <3>4. e \in stops /\ d <= e
      BY <2>9, <2>10, <3>2, <3>3
    <3>5. e = d
      <4>1. SUFFICES ASSUME d < e PROVE FALSE
        BY <2>10, <3>2, <3>4
      <4>2. read[e].at # Log!Epoch
        BY <2>10, <2>13, <3>1, <3>4, <4>1
      <4>3. read[e].at = read[e].when /\ read[d].when <= read[e].when
        BY <2>3, <2>5, <2>10, <3>2, <3>4, <4>1, <4>2 DEF Chronicle
      <4>4. ~(read[e].at < now - Window)
        BY <2>2, <2>5, <2>10, <2>13, <3>1, <3>2, <3>4, <4>3
      <4>5. e \in events
        BY <2>6, <2>7, <3>4, <4>2, <4>4 DEF Log!Decides
      <4> QED
        BY <2>10, <3>2, <4>1, <4>5
    <3>6. read[d].at = read[d].when
      BY <2>5, <2>6, <3>2
    <3> QED
      BY <2>11, <2>13, <3>1, <3>2, <3>3, <3>5, <3>6
  <2> QED
    BY <2>1, <2>4, <2>6, <2>12, <2>13 DEF LeakIsTrue, Log!LeakIsTrue
<1> QED
  BY <1>1, LogInvariant, PTL
=============================================================================
