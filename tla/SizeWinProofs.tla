--------------------------- MODULE SizeWinProofs ---------------------------
(***************************************************************************)
(* The safety properties of SizeWin for every window size, size limit,     *)
(* message length and choice of failures.                                  *)
(***************************************************************************)
EXTENDS SizeWin, FiniteSetTheorems, SequenceTheorems, TLAPS

\* What the position in the rollover says about its locals.
PcInv ==
  /\ pc = "unlink" => k = maxNum - 1
  /\ pc = "close" /\ rc = 0 => k <= maxNum - 2
  /\ pc = "rename" => rc = 0 /\ i <= k /\ k <= maxNum - 2
  /\ pc = "write" => msg # NoMsg
  /\ pc \in {"off", "idle"} => msg = NoMsg
  /\ pc \in {"off", "idle", "write"} => k = -1 /\ i = -1

\* The files hold only messages of the past; the one in hand is in none.
IdsPast ==
  /\ msg # NoMsg => sent > 0
  /\ \A j \in Index : \A m \in disk[j].ids :
       m <= sent /\ (msg # NoMsg => m < sent)

\* last_index is -1 only where no file of the disk is open, a rollover that
\* finds last_index -1 closes nothing, and the failed fopens are faults of
\* this process: stderr is in use, or was closed, only after one of them.
StreamInv ==
  /\ lastIndex = -1 => pc \in {"off", "create", "idle", "write"} /\ fp # "zero"
  /\ pc = "create" => lastIndex = -1
  /\ failures <= faults
  /\ fp = "stderr" \/ stderr = "closed" => failures >= 1

IInv == /\ TypeOK
        /\ PcInv
        /\ IdsPast
        /\ WindowOrdered
        /\ StreamMatchesFlag
        /\ StreamInv
        /\ SizeCountsFile

(* A configured window has at least one file, and its indices are the disk's. *)
LEMMA Conf == /\ \A n \in MaxNums : n \in Nat /\ n >= 1 /\ n <= Cap
              /\ \A s \in MaxSizes : s \in Nat
              /\ \A l \in Lens : l \in Nat
  BY CapAssumption, ConfAssumption, LensAssumption

LEMMA Counts ==
  TypeOK => failures \in Nat /\ faults \in Nat /\ lastIndex \in Int /\ lastIndex >= -1
  BY Conf, BoundsAssumption DEF TypeOK

LEMMA InitIInv == Init => IInv
<1> SUFFICES ASSUME Init PROVE IInv
  OBVIOUS
<1>1. TypeOK
  <2>1. Absent \in File
    BY DEF Absent, File
  <2> QED
    BY <2>1, Conf, CapAssumption, BoundsAssumption
    DEF Init, TypeOK, NoMsg, SW_LAST_FOPEN_FAILED, Streams
<1>2. PcInv /\ StreamMatchesFlag /\ StreamInv /\ SizeCountsFile
  BY DEF Init, PcInv, StreamMatchesFlag, StreamInv, SizeCountsFile, NoMsg, SW_LAST_FOPEN_FAILED
<1>3. IdsPast /\ WindowOrdered
  BY DEF Init, IdsPast, WindowOrdered, Absent, NoMsg, SW_LAST_FOPEN_FAILED
<1> QED
  BY <1>1, <1>2, <1>3 DEF IInv

(* Where a rollover can start, and with what in its locals. *)
LEMMA BeginFacts ==
  ASSUME NEW n \in Nat, n >= 1, NEW l \in -1..n-1, BeginRollover(l), maxNum = n
  PROVE  /\ k' \in -1..n-1 /\ i' = -1 /\ rc' = 0
         /\ pc' \in {"create", "unlink", "close"}
         /\ pc' = "unlink" => k' = n - 1
         /\ pc' = "close" => k' <= n - 2
         /\ pc' = "create" <=> l = -1
<1>1. k' \in -1..n-1 /\ i' = -1 /\ rc' = 0 /\ k' = l
  BY DEF BeginRollover
<1>2. CASE l < 0
  BY <1>1, <1>2 DEF BeginRollover
<1>3. CASE l >= 0 /\ l = n - 1
  BY <1>1, <1>3 DEF BeginRollover
<1>4. CASE l >= 0 /\ l # n - 1
  BY <1>1, <1>4 DEF BeginRollover
<1> QED
  BY <1>2, <1>3, <1>4

LEMMA OpenStep == IInv /\ Open => IInv'
<1> SUFFICES ASSUME IInv, Open PROVE IInv'
  OBVIOUS
<1>1. maxNum \in Nat /\ maxNum >= 1 /\ maxNum' = maxNum
  BY Conf DEF IInv, TypeOK, Open, conf
<1>2. lastIndex' \in -1..maxNum-1 /\ BeginRollover(lastIndex')
  BY DEF Open, PolicyInit
<1>3. /\ k' \in -1..maxNum-1 /\ i' = -1 /\ rc' = 0
      /\ pc' \in {"create", "unlink", "close"}
      /\ pc' = "unlink" => k' = maxNum - 1
      /\ pc' = "close" => k' <= maxNum - 2
  BY <1>1, <1>2, BeginFacts
<1>4. TypeOK'
  <2>1. loads' \in 0..MaxLoads
    BY BoundsAssumption DEF IInv, TypeOK, Open
  <2> QED
    BY <1>1, <1>2, <1>3, <2>1
    DEF IInv, Open, TypeOK, NoMsg, SW_LAST_FOPEN_FAILED, Streams, conf, ghosts
<1>5. PcInv'
  BY <1>1, <1>3 DEF PcInv
<1>6. IdsPast' /\ WindowOrdered'
  BY DEF IInv, Open, IdsPast, WindowOrdered, ghosts
<1>7. StreamMatchesFlag' /\ SizeCountsFile'
  BY <1>3 DEF Open, StreamMatchesFlag, SizeCountsFile, SW_LAST_FOPEN_FAILED
<1>8. StreamInv'
  <2>1. pc' = "create" <=> lastIndex' = -1
    BY <1>1, <1>2, BeginFacts
  <2> QED
    BY <2>1 DEF IInv, Open, StreamInv, ghosts
<1> QED
  BY <1>4, <1>5, <1>6, <1>7, <1>8 DEF IInv

LEMMA AppendEventStep ==
  ASSUME IInv, NEW len \in Lens, AppendEvent(len)
  PROVE  IInv'
<1>1. /\ maxNum \in Nat /\ maxNum >= 1 /\ maxNum' = maxNum
      /\ len \in Nat /\ len # NoMsg
      /\ sent' = sent + 1 /\ sent \in Nat /\ sent' \in 0..MaxMsgs
  BY Conf, BoundsAssumption DEF IInv, TypeOK, AppendEvent, conf, NoMsg
<1>2. /\ k' \in -1..maxNum-1 /\ i' \in -1..maxNum-1 /\ rc' \in {0, 1}
      /\ pc' \in {"create", "unlink", "close", "write"}
      /\ pc' = "unlink" => k' = maxNum - 1
      /\ pc' = "close" => k' <= maxNum - 2
  <2>1. CASE Triggers(len)
    <3>1. lastIndex \in -1..maxNum-1 /\ BeginRollover(lastIndex)
      BY <2>1 DEF AppendEvent, IInv, TypeOK
    <3> QED
      BY <1>1, <3>1, BeginFacts
  <2>2. CASE ~Triggers(len)
    BY <1>1, <2>2 DEF AppendEvent, IInv, TypeOK, local
  <2> QED
    BY <2>1, <2>2
<1>3. TypeOK'
  BY <1>1, <1>2 DEF AppendEvent, IInv, TypeOK, conf
<1>4. PcInv'
  <2>1. pc' = "write" => k' = -1 /\ i' = -1
    BY <1>2 DEF AppendEvent, BeginRollover, IInv, PcInv, local
  <2> QED
    BY <1>1, <1>2, <2>1 DEF PcInv, AppendEvent
<1>5. IdsPast' /\ WindowOrdered'
  <2>1. \A j \in Index : \A m \in disk[j].ids : m \in Nat /\ m <= sent
    BY BoundsAssumption DEF IInv, IdsPast, TypeOK, File, Ids
  <2> QED
    BY <1>1, <2>1 DEF IInv, AppendEvent, IdsPast, WindowOrdered
<1>6. SizeCountsFile'
  BY <1>2 DEF IInv, AppendEvent, SizeCountsFile
<1>7. UNCHANGED <<fp, flags, lastIndex, stderr, failures, faults>> /\ pc = "idle"
  BY DEF AppendEvent
<1>8. pc' = "create" => lastIndex = -1
  BY <1>1, BeginFacts DEF AppendEvent, IInv, TypeOK
<1>9. lastIndex = -1 => pc' \in {"create", "write"}
  BY <1>1, BeginFacts DEF AppendEvent, IInv, TypeOK
<1>10. StreamMatchesFlag' /\ StreamInv'
  BY <1>2, <1>7, <1>8, <1>9 DEF IInv, StreamMatchesFlag, StreamInv
<1> QED
  BY <1>3, <1>4, <1>5, <1>6, <1>10 DEF IInv

(* Taking a file away, or letting it stand, disturbs no order. *)
LEMMA RemoveKeepsFiles ==
  ASSUME TypeOK, IdsPast, WindowOrdered, NEW j \in Index,
         disk' = [disk EXCEPT ![j] = Absent], UNCHANGED <<sent, msg>>
  PROVE  disk' \in [Index -> File] /\ IdsPast' /\ WindowOrdered'
<1>1. Absent \in File /\ Absent.ids = {}
  BY DEF Absent, File
<1>2. disk' \in [Index -> File]
  BY <1>1 DEF TypeOK
<1>3. \A a \in Index : disk'[a].ids \subseteq disk[a].ids
  BY <1>1 DEF TypeOK
<1> QED
  BY <1>2, <1>3 DEF IdsPast, WindowOrdered

LEMMA UnlinkOldestStep == IInv /\ UnlinkOldest => IInv'
<1> SUFFICES ASSUME IInv, UnlinkOldest PROVE IInv'
  OBVIOUS
<1>1. /\ maxNum \in Nat /\ maxNum >= 1 /\ maxNum <= Cap /\ maxNum' = maxNum
      /\ k = maxNum - 1 /\ k \in Index /\ k' = maxNum - 2
  BY Conf, CapAssumption, SMTT(30) DEF IInv, TypeOK, PcInv, UnlinkOldest, conf, Index
<1>2. disk' \in [Index -> File] /\ IdsPast' /\ WindowOrdered'
  BY <1>1, RemoveKeepsFiles DEF IInv, UnlinkOldest
<1>3. rotatedOut' \subseteq Ids
  BY <1>1 DEF IInv, TypeOK, UnlinkOldest, File
<1>4. TypeOK'
  BY <1>1, <1>2, <1>3 DEF IInv, UnlinkOldest, TypeOK, conf
<1>5. PcInv' /\ StreamMatchesFlag' /\ StreamInv' /\ SizeCountsFile'
  BY <1>1 DEF IInv, UnlinkOldest, PcInv, StreamMatchesFlag, StreamInv, SizeCountsFile
<1> QED
  BY <1>2, <1>4, <1>5 DEF IInv

(* The misbehaviour counter stays within its bound. *)
LEMMA FaultBound ==
  ASSUME faults \in 0..MaxFaults, NEW f, Fault(f)
  PROVE  faults' \in 0..MaxFaults /\ faults' = faults + 1
  BY BoundsAssumption DEF Fault

LEMMA FailsOnBound ==
  ASSUME faults \in 0..MaxFaults, NEW j, NEW f, FailsOn(j, f)
  PROVE  faults' \in 0..MaxFaults /\ faults' >= faults
<1>1. CASE disk[j] = Absent
  BY <1>1, BoundsAssumption DEF FailsOn
<1>2. CASE disk[j] # Absent
  BY <1>2, FaultBound DEF FailsOn
<1> QED
  BY <1>1, <1>2

LEMMA UnlinkFailsStep == IInv /\ UnlinkFails => IInv'
<1> SUFFICES ASSUME IInv, UnlinkFails PROVE IInv'
  OBVIOUS
<1>1. faults' \in 0..MaxFaults /\ faults' >= faults
  BY FailsOnBound DEF IInv, TypeOK, UnlinkFails
<1>2. TypeOK'
  BY <1>1 DEF IInv, UnlinkFails, TypeOK, conf, ghosts
<1>3. PcInv' /\ IdsPast' /\ WindowOrdered' /\ StreamMatchesFlag' /\ SizeCountsFile'
  BY DEF IInv, UnlinkFails, PcInv, IdsPast, WindowOrdered, StreamMatchesFlag, StreamInv,
         SizeCountsFile, ghosts, conf
<1>4. StreamInv'
  BY <1>1, Counts DEF IInv, UnlinkFails, StreamInv, ghosts
<1> QED
  BY <1>2, <1>3, <1>4 DEF IInv

LEMMA CloseCurrentStep == IInv /\ CloseCurrent => IInv'
<1> SUFFICES ASSUME IInv, CloseCurrent PROVE IInv'
  OBVIOUS
<1>1. /\ maxNum \in Nat /\ k \in -1..maxNum-1 /\ rc \in {0, 1}
      /\ i' \in -1..maxNum-1 /\ pc' \in {"rename", "open"}
      /\ pc' = "rename" => rc = 0 /\ i' = k
      /\ fp' \in Streams
  BY Conf DEF IInv, TypeOK, CloseCurrent, AfterClose, Streams
<1>2. TypeOK'
  BY <1>1 DEF IInv, CloseCurrent, TypeOK, conf, ghosts
<1>3. PcInv'
  BY <1>1 DEF IInv, PcInv, CloseCurrent, conf
<1>4. IdsPast' /\ WindowOrdered'
  BY DEF IInv, CloseCurrent, IdsPast, WindowOrdered, ghosts
<1>5. StreamMatchesFlag' /\ StreamInv' /\ SizeCountsFile'
  BY <1>1 DEF IInv, TypeOK, Streams, CloseCurrent, MayClose, StreamMatchesFlag, StreamInv,
              SizeCountsFile, SW_LAST_FOPEN_FAILED, ghosts
<1> QED
  BY <1>2, <1>3, <1>4, <1>5 DEF IInv

LEMMA CloseFailsStep == IInv /\ CloseFails => IInv'
<1> SUFFICES ASSUME IInv, CloseFails PROVE IInv'
  OBVIOUS
<1>1. faults' \in 0..MaxFaults /\ faults' = faults + 1
  BY FaultBound DEF IInv, TypeOK, CloseFails
<1>2. pc' = "open" /\ i' = i
  BY DEF CloseFails, AfterClose
<1>3. TypeOK'
  BY <1>1, <1>2 DEF IInv, CloseFails, TypeOK, conf, ghosts, Streams
<1>4. PcInv' /\ SizeCountsFile'
  BY <1>2 DEF PcInv, SizeCountsFile
<1>5. IdsPast' /\ WindowOrdered'
  BY DEF IInv, CloseFails, IdsPast, WindowOrdered, ghosts
<1>6. StreamMatchesFlag' /\ StreamInv'
  BY <1>1, <1>2, Counts DEF IInv, CloseFails, StreamMatchesFlag, StreamInv, ghosts
<1> QED
  BY <1>3, <1>4, <1>5, <1>6 DEF IInv

(* A rename moves a file one index up over an older one, so the order stays. *)
LEMMA RenameStep == IInv /\ Rename => IInv'
<1> SUFFICES ASSUME IInv, Rename PROVE IInv'
  OBVIOUS
<1>1. /\ maxNum \in Nat /\ maxNum <= Cap /\ Cap \in Nat
      /\ i \in 0..maxNum-2 /\ i \in Index /\ i + 1 \in Index
  BY Conf, CapAssumption DEF IInv, TypeOK, PcInv, Rename, Index
<1>2. disk \in [Index -> File] /\ Absent \in File /\ Absent.ids = {}
  BY DEF IInv, TypeOK, Absent, File
<1>3. \A j \in Index : disk'[j] = IF j = i THEN Absent
                                 ELSE IF j = i + 1 THEN disk[i] ELSE disk[j]
  BY <1>1, <1>2 DEF Rename
<1>4. disk' \in [Index -> File]
  BY <1>1, <1>2 DEF Rename
<1>5. TypeOK'
  <2>1. i' \in -1..maxNum-1
    BY <1>1 DEF Rename
  <2> QED
    BY <1>4, <2>1 DEF IInv, Rename, TypeOK, conf, ghosts
<1>6. PcInv'
  BY <1>1 DEF IInv, PcInv, Rename, conf, TypeOK
<1>7. IdsPast'
  BY <1>1, <1>2, <1>3 DEF IInv, IdsPast, Rename, ghosts
<1>8. WindowOrdered'
  <2> SUFFICES ASSUME NEW a \in Index, NEW b \in Index, a < b,
                      NEW m \in disk'[a].ids, NEW n \in disk'[b].ids
               PROVE  n < m
    BY DEF WindowOrdered
  <2>1. a # i /\ b # i
    BY <1>2, <1>3
  <2>2. CASE a = i + 1
    BY <1>1, <1>3, <2>1, <2>2 DEF IInv, WindowOrdered, Index
  <2>3. CASE b = i + 1
    BY <1>1, <1>3, <2>1, <2>3 DEF IInv, WindowOrdered, Index
  <2>4. CASE a # i + 1 /\ b # i + 1
    BY <1>3, <2>1, <2>4 DEF IInv, WindowOrdered
  <2> QED
    BY <2>2, <2>3, <2>4
<1>9. StreamMatchesFlag' /\ StreamInv' /\ SizeCountsFile'
  BY DEF IInv, Rename, StreamMatchesFlag, StreamInv, SizeCountsFile, ghosts
<1> QED
  BY <1>5, <1>6, <1>7, <1>8, <1>9 DEF IInv

LEMMA RenameFailsStep == IInv /\ RenameFails => IInv'
<1> SUFFICES ASSUME IInv, RenameFails PROVE IInv'
  OBVIOUS
<1>1. faults' \in 0..MaxFaults /\ faults' >= faults
  BY FailsOnBound DEF IInv, TypeOK, RenameFails
<1>2. TypeOK'
  BY <1>1 DEF IInv, RenameFails, TypeOK, conf, ghosts
<1>3. PcInv' /\ IdsPast' /\ WindowOrdered' /\ StreamMatchesFlag' /\ SizeCountsFile'
  BY DEF IInv, RenameFails, PcInv, IdsPast, WindowOrdered, StreamMatchesFlag, StreamInv,
         SizeCountsFile, ghosts
<1>4. StreamInv'
  BY <1>1, Counts DEF IInv, RenameFails, StreamInv, ghosts
<1> QED
  BY <1>2, <1>3, <1>4 DEF IInv

LEMMA RenamesDoneStep == IInv /\ RenamesDone => IInv'
<1> SUFFICES ASSUME IInv, RenamesDone PROVE IInv'
  OBVIOUS
<1>1. lastIndex' \in -1..maxNum-1
  BY Conf DEF IInv, TypeOK, PcInv, RenamesDone
<1>2. TypeOK'
  BY <1>1 DEF IInv, RenamesDone, TypeOK, conf, local, ghosts
<1>3. PcInv' /\ IdsPast' /\ WindowOrdered' /\ StreamMatchesFlag' /\ SizeCountsFile'
  BY DEF IInv, RenamesDone, PcInv, IdsPast, WindowOrdered, StreamMatchesFlag, StreamInv,
         SizeCountsFile, ghosts
<1>4. lastIndex' # -1
  BY Conf DEF IInv, TypeOK, RenamesDone
<1>5. StreamInv'
  BY <1>4 DEF IInv, RenamesDone, StreamInv, ghosts
<1> QED
  BY <1>2, <1>3, <1>5 DEF IInv

(* The appender goes on in a known place, with its locals reset. *)
LEMMA ReturnFacts ==
  ASSUME TypeOK, RolloverReturns, UNCHANGED <<conf, msg>>
  PROVE  /\ maxNum' = maxNum /\ maxNum' \in MaxNums /\ maxSize' \in MaxSizes
         /\ lastIndex' \in -1..maxNum-1 /\ size' = 0
         /\ pc' \in {"idle", "write"}
         /\ pc' = "idle" <=> msg' = NoMsg
         /\ k' = -1 /\ i' = -1 /\ -1 \in -1..maxNum-1
  BY Conf DEF TypeOK, RolloverReturns, conf

LEMMA OpenZeroStep == IInv /\ OpenZero => IInv'
<1> SUFFICES ASSUME IInv, OpenZero PROVE IInv'
  OBVIOUS
<1>1. /\ maxNum' = maxNum /\ maxNum' \in MaxNums /\ maxSize' \in MaxSizes
      /\ lastIndex' \in -1..maxNum-1 /\ size' = 0
      /\ pc' \in {"idle", "write"}
      /\ pc' = "idle" <=> msg' = NoMsg
      /\ k' = -1 /\ i' = -1 /\ -1 \in -1..maxNum-1
  BY ReturnFacts DEF IInv, OpenZero
<1>2. 0 \in Index /\ Empty \in File /\ Empty.ids = {} /\ Empty.bytes = 0
  BY CapAssumption DEF Index, Empty, File
<1>3. disk' \in [Index -> File] /\ disk'[0] = Empty
  BY <1>2 DEF IInv, TypeOK, OpenZero
<1>4. \A j \in Index : disk'[j].ids \subseteq disk[j].ids
  BY <1>2 DEF IInv, TypeOK, OpenZero
<1>5. TypeOK'
  BY <1>1, <1>3 DEF IInv, OpenZero, TypeOK, ghosts, Streams, SW_LAST_FOPEN_FAILED
<1>6. PcInv'
  BY <1>1 DEF PcInv
<1>7. IdsPast' /\ WindowOrdered'
  BY <1>4 DEF IInv, OpenZero, IdsPast, WindowOrdered, ghosts
<1>8. StreamMatchesFlag' /\ SizeCountsFile'
  BY <1>1, <1>2, <1>3 DEF OpenZero, StreamMatchesFlag, SizeCountsFile,
                          SW_LAST_FOPEN_FAILED
<1>9. StreamInv'
  <2>1. lastIndex' # -1
    BY DEF IInv, StreamInv, OpenZero, RolloverReturns
  <2> QED
    BY <1>1, <2>1 DEF IInv, StreamInv, OpenZero, ghosts
<1> QED
  BY <1>5, <1>6, <1>7, <1>8, <1>9 DEF IInv

LEMMA OpenZeroFailsStep == IInv /\ OpenZeroFails => IInv'
<1> SUFFICES ASSUME IInv, OpenZeroFails PROVE IInv'
  OBVIOUS
<1>1. /\ maxNum' = maxNum /\ maxNum' \in MaxNums /\ maxSize' \in MaxSizes
      /\ lastIndex' \in -1..maxNum-1 /\ size' = 0
      /\ pc' \in {"idle", "write"}
      /\ pc' = "idle" <=> msg' = NoMsg
      /\ k' = -1 /\ i' = -1 /\ -1 \in -1..maxNum-1
  BY ReturnFacts DEF IInv, OpenZeroFails
<1>2. faults' \in 0..MaxFaults /\ faults' = faults + 1 /\ rc' \in {0, 1}
  BY FaultBound DEF IInv, TypeOK, OpenZeroFails
<1>3. /\ failures \in Nat /\ failures' = failures + 1
      /\ failures' <= faults' /\ failures' \in 0..MaxFaults
      /\ fp' = "stderr" /\ stderr' = stderr
  BY <1>2, Counts, BoundsAssumption DEF IInv, StreamInv, OpenZeroFails
<1>4. TypeOK'
  BY <1>1, <1>2, <1>3 DEF IInv, OpenZeroFails, TypeOK, Streams
<1>5. PcInv' /\ SizeCountsFile'
  BY <1>1, <1>3 DEF PcInv, SizeCountsFile
<1>6. lastIndex' # -1
  BY DEF IInv, StreamInv, OpenZeroFails, RolloverReturns
<1>7. StreamMatchesFlag' /\ StreamInv'
  BY <1>1, <1>3, <1>6 DEF IInv, StreamMatchesFlag, StreamInv, OpenZeroFails
<1>8. IdsPast' /\ WindowOrdered'
  BY DEF IInv, OpenZeroFails, IdsPast, WindowOrdered
<1> QED
  BY <1>4, <1>5, <1>7, <1>8 DEF IInv

(* The message in hand is the newest of all, so file 0 may take it. *)
LEMMA WriteStep == IInv /\ Write => IInv'
<1> SUFFICES ASSUME IInv, Write PROVE IInv'
  OBVIOUS
<1>1. /\ msg \in Nat /\ msg # NoMsg /\ size \in Nat
      /\ sent \in Nat /\ sent \in Ids /\ sent' = sent
      /\ \A j \in Index : disk[j].ids \subseteq Ids
      /\ 0 \in Index
  BY Conf, CapAssumption, BoundsAssumption
  DEF IInv, TypeOK, PcInv, IdsPast, Write, Ids, File, Index
<1>2. /\ msg' = NoMsg /\ pc' = "idle" /\ size' = size + msg /\ rc' = 0
  BY DEF Write, WriteDone
<1>3. console' \subseteq Ids
  BY <1>1 DEF IInv, TypeOK, Write, Deliver
<1>4. CASE fp = "zero"
  <2>1. disk[0].bytes \in 0..size
    BY <1>4 DEF IInv, SizeCountsFile, Write
  <2>2. [ids |-> disk[0].ids \cup {sent}, bytes |-> disk[0].bytes + msg] \in File
    BY <1>1, <2>1 DEF File
  <2>3. /\ disk' \in [Index -> File]
        /\ disk'[0].ids = disk[0].ids \cup {sent}
        /\ disk'[0].bytes = disk[0].bytes + msg
        /\ \A j \in Index : j # 0 => disk'[j] = disk[j]
    BY <1>1, <1>4, <2>2 DEF IInv, TypeOK, Write, Deliver
  <2>4. TypeOK'
    BY <1>1, <1>2, <1>3, <2>3 DEF IInv, TypeOK, Write, conf
  <2>5. PcInv' /\ StreamMatchesFlag' /\ StreamInv'
    BY <1>2 DEF IInv, PcInv, StreamMatchesFlag, StreamInv, Write
  <2>6. IdsPast'
    BY <1>1, <1>2, <2>3, BoundsAssumption DEF IInv, IdsPast, Ids
  <2>7. WindowOrdered'
    <3> SUFFICES ASSUME NEW a \in Index, NEW b \in Index, a < b,
                        NEW m \in disk'[a].ids, NEW n \in disk'[b].ids
                 PROVE  n < m
      BY DEF WindowOrdered
    <3>1. b # 0 /\ n \in disk[b].ids
      BY <2>3, CapAssumption DEF Index
    <3>2. n < sent
      BY <1>1, <3>1 DEF IInv, IdsPast
    <3>3. CASE m = sent
      BY <3>2, <3>3
    <3>4. CASE m # sent
      BY <2>3, <3>1, <3>4 DEF IInv, WindowOrdered
    <3> QED
      BY <3>3, <3>4
  <2>8. SizeCountsFile'
    BY <1>1, <1>2, <2>1, <2>3 DEF SizeCountsFile
  <2> QED
    BY <2>4, <2>5, <2>6, <2>7, <2>8 DEF IInv
<1>5. CASE fp # "zero"
  <2>1. disk' = disk
    BY <1>5 DEF Write, Deliver
  <2>2. TypeOK'
    BY <1>1, <1>2, <1>3, <2>1 DEF IInv, TypeOK, Write, conf
  <2>3. PcInv' /\ StreamMatchesFlag' /\ StreamInv' /\ SizeCountsFile'
    BY <1>2, <1>5 DEF IInv, PcInv, StreamMatchesFlag, StreamInv, SizeCountsFile, Write
  <2>4. IdsPast' /\ WindowOrdered'
    BY <1>1, <1>2, <2>1 DEF IInv, IdsPast, WindowOrdered
  <2> QED
    BY <2>2, <2>3, <2>4 DEF IInv
<1> QED
  BY <1>4, <1>5

LEMMA WriteFailsStep == IInv /\ WriteFails => IInv'
<1> SUFFICES ASSUME IInv, WriteFails PROVE IInv'
  OBVIOUS
<1>1. /\ msg \in Nat /\ size \in Nat
      /\ faults' \in 0..MaxFaults /\ faults' = faults + 1
  BY Conf, FaultBound DEF IInv, TypeOK, PcInv, WriteFails
<1>2. /\ msg' = NoMsg /\ pc' = "idle" /\ size' = size + msg /\ rc' = 0
  BY DEF WriteFails, WriteDone
<1>3. TypeOK'
  BY <1>1, <1>2 DEF IInv, TypeOK, WriteFails, conf, ghosts
<1>4. PcInv' /\ StreamMatchesFlag' /\ StreamInv'
  BY <1>1, <1>2, Counts DEF IInv, PcInv, StreamMatchesFlag, StreamInv, WriteFails, ghosts
<1>5. IdsPast' /\ WindowOrdered'
  BY <1>2 DEF IInv, IdsPast, WindowOrdered, WriteFails, ghosts
<1>6. SizeCountsFile'
  BY <1>1, <1>2 DEF IInv, SizeCountsFile, WriteFails
<1> QED
  BY <1>3, <1>4, <1>5, <1>6 DEF IInv

LEMMA CloseStep == IInv /\ Close => IInv'
<1> SUFFICES ASSUME IInv, Close PROVE IInv'
  OBVIOUS
<1>1. TypeOK'
  BY Conf DEF IInv, TypeOK, Close, conf, local, ghosts, Streams
<1>2. PcInv' /\ IdsPast' /\ WindowOrdered' /\ StreamMatchesFlag' /\ StreamInv' /\ SizeCountsFile'
  BY DEF IInv, Close, PcInv, IdsPast, WindowOrdered, StreamMatchesFlag, StreamInv,
         SizeCountsFile, ghosts, local
<1> QED
  BY <1>1, <1>2 DEF IInv

LEMMA ReloadStep ==
  ASSUME IInv, NEW n \in MaxNums, NEW s \in MaxSizes, Reload(n, s)
  PROVE  IInv'
<1>1. /\ lastIndex' \in -1..n-1 /\ maxNum' = n /\ maxSize' = s
      /\ pc = "idle" /\ pc' = pc
  BY DEF Reload, PolicyInit
<1>2. loads' \in 0..MaxLoads
  BY BoundsAssumption DEF IInv, TypeOK, Reload
<1>3. k' \in -1..n-1 /\ i' \in -1..n-1
  BY Conf DEF IInv, TypeOK, PcInv, Reload, local
<1>4. TypeOK'
  BY <1>1, <1>2, <1>3 DEF IInv, TypeOK, Reload, local, ghosts
<1>5. PcInv' /\ IdsPast' /\ WindowOrdered' /\ StreamMatchesFlag' /\ SizeCountsFile'
  BY <1>1 DEF IInv, Reload, PcInv, IdsPast, WindowOrdered, StreamMatchesFlag, StreamInv,
              SizeCountsFile, ghosts, local
<1>6. lastIndex' = -1 => fp # "zero"
  <2>1. SUFFICES ASSUME lastIndex' = -1 PROVE fp # "zero"
    OBVIOUS
  <2>2. disk[0] = Absent
    <3>1. lastIndex' < n - 1 /\ lastIndex' + 1 = 0
      BY <2>1, Conf
    <3> QED
      BY <3>1 DEF Reload, PolicyInit, IsLastIndex
  <2>3. Absent.bytes \notin 0..size
    BY DEF Absent, IInv, TypeOK
  <2> QED
    BY <1>1, <2>2, <2>3 DEF IInv, SizeCountsFile
<1>7. StreamInv'
  BY <1>1, <1>6 DEF IInv, Reload, StreamInv, ghosts
<1> QED
  BY <1>4, <1>5, <1>7 DEF IInv

LEMMA CrashStep == IInv /\ Crash => IInv'
<1> SUFFICES ASSUME IInv, Crash PROVE IInv'
  OBVIOUS
<1>1. faults' \in 0..MaxFaults /\ faults' = faults + 1
  BY FaultBound DEF IInv, TypeOK, Crash
<1>2. TypeOK'
  BY Conf, <1>1, BoundsAssumption DEF IInv, TypeOK, Crash, conf, Streams
<1>3. PcInv' /\ IdsPast' /\ WindowOrdered' /\ StreamMatchesFlag' /\ StreamInv' /\ SizeCountsFile'
  BY <1>1, Counts, BoundsAssumption DEF IInv, Crash, PcInv, IdsPast, WindowOrdered, StreamMatchesFlag, StreamInv,
         SizeCountsFile, ghosts
<1> QED
  BY <1>2, <1>3 DEF IInv

LEMMA RemoveStep ==
  ASSUME IInv, NEW j \in Index, Remove(j)
  PROVE  IInv'
<1>1. faults' \in 0..MaxFaults /\ faults' = faults + 1
  BY FaultBound DEF IInv, TypeOK, Remove
<1>2. disk' \in [Index -> File] /\ IdsPast' /\ WindowOrdered'
  BY RemoveKeepsFiles DEF IInv, Remove, ghosts
<1>3. fp' \in Streams /\ (fp' = "stderr" <=> fp = "stderr")
      /\ (pc \in {"idle", "write"} => fp' \in {"zero", "unlinked", "stderr"})
  BY DEF IInv, TypeOK, StreamMatchesFlag, StreamInv, Remove, Streams
<1>4. TypeOK'
  BY <1>1, <1>2, <1>3 DEF IInv, TypeOK, Remove, conf, local, ghosts
<1>5. PcInv' /\ StreamMatchesFlag' /\ StreamInv'
  BY <1>1, <1>3, Counts DEF IInv, PcInv, StreamMatchesFlag, StreamInv, Remove, conf,
                            local, ghosts
<1>6. SizeCountsFile'
  <2>1. CASE j = 0
    BY <2>1 DEF Remove, SizeCountsFile
  <2>2. CASE j # 0
    BY <2>2, CapAssumption DEF IInv, TypeOK, Index, Remove, SizeCountsFile
  <2> QED
    BY <2>1, <2>2
<1> QED
  BY <1>2, <1>4, <1>5, <1>6 DEF IInv

LEMMA NextIInv == IInv /\ [Next]_vars => IInv'
<1> SUFFICES ASSUME IInv, [Next]_vars PROVE IInv'
  OBVIOUS
<1>1. CASE Open
  BY <1>1, OpenStep
<1>2. CASE Step
  BY <1>2, UnlinkOldestStep, UnlinkFailsStep, CloseCurrentStep, CloseFailsStep,
     RenameStep, RenameFailsStep, RenamesDoneStep, OpenZeroStep,
     OpenZeroFailsStep, WriteStep, WriteFailsStep DEF Step
<1>3. CASE Close
  BY <1>3, CloseStep
<1>4. CASE Crash
  BY <1>4, CrashStep
<1>5. CASE \E len \in Lens : AppendEvent(len)
  BY <1>5, AppendEventStep
<1>6. CASE \E n \in MaxNums, s \in MaxSizes : Reload(n, s)
  BY <1>6, ReloadStep
<1>7. CASE \E j \in Index : Remove(j)
  BY <1>7, RemoveStep
<1>8. CASE UNCHANGED vars
  BY <1>8 DEF vars, conf, local, ghosts, IInv, TypeOK, PcInv, IdsPast,
     WindowOrdered, StreamMatchesFlag, StreamInv, SizeCountsFile
<1> QED
  BY <1>1, <1>2, <1>3, <1>4, <1>5, <1>6, <1>7, <1>8 DEF Next

(* The inductive invariant holds in every reachable state. *)
THEOREM Inductive == Spec => []IInv
  BY InitIInv, NextIInv, PTL DEF Spec

(* Every variable keeps to its range: in particular last_index never leaves  *)
(* the array of names, whatever fails and however often the policy is       *)
(* configured again.                                                        *)
THEOREM TypeCorrect == Spec => []TypeOK
<1>1. IInv => TypeOK
  BY DEF IInv
<1> QED
  BY <1>1, Inductive, PTL

(* For any window size, failures and crashes, a lower index holds newer      *)
(* messages (sizewin_rollover's renaming loop).                             *)
THEOREM OrderKept == Spec => []WindowOrdered
<1>1. IInv => WindowOrdered
  BY DEF IInv
<1> QED
  BY <1>1, Inductive, PTL

(* sw_filenames is never indexed outside its bounds by the unlink or by a    *)
(* rename of sizewin_rollover.                                              *)
THEOREM BoundsKept == Spec => []RotateInBounds
<1>1. IInv => RotateInBounds
  BY Conf DEF IInv, TypeOK, PcInv, RotateInBounds
<1> QED
  BY <1>1, Inductive, PTL

(* The open-failed flag tells stderr from a file at every close; a rollover  *)
(* throws away no open stream but one on a removed file; and a message goes  *)
(* to a stream that is closed only as stderr, after two failed fopens.       *)
THEOREM StreamsKept == Spec => []StreamMatchesFlag
<1>1. IInv => StreamMatchesFlag
  BY DEF IInv
<1> QED
  BY <1>1, Inductive, PTL

(* rfu_current_file_size never falls behind the bytes in file 0.             *)
THEOREM SizeKept == Spec => []SizeCountsFile
<1>1. IInv => SizeCountsFile
  BY DEF IInv
<1> QED
  BY <1>1, Inductive, PTL

-----------------------------------------------------------------------------
\* A message in hand that joins others in file 0 fits the limit.
Room ==
  pc = "write" /\ fp = "zero" /\ disk[0].ids # {} /\ maxSize > 0
    => size + msg <= maxSize

LEMMA RoomStep == IInv /\ Room /\ [Next]_vars => Room'
<1> SUFFICES ASSUME IInv, Room, [Next]_vars, pc' = "write" PROVE Room'
  BY DEF Room
<1>1. CASE \E len \in Lens : AppendEvent(len)
  <2>1. PICK len \in Lens : AppendEvent(len)
    BY <1>1
  <2>2. ~Triggers(len)
    BY <2>1 DEF AppendEvent, BeginRollover
  <2>3. len \in Nat /\ size \in Nat /\ maxSize \in Nat
    BY Conf DEF IInv, TypeOK
  <2> QED
    BY <2>1, <2>2, <2>3 DEF AppendEvent, Triggers, Room, conf
<1>2. CASE OpenZero
  BY <1>2, CapAssumption DEF OpenZero, Room, Empty, IInv, TypeOK, Index
<1>3. CASE OpenZeroFails
  BY <1>3 DEF OpenZeroFails, Room
<1>4. CASE \E j \in Index : Remove(j)
  <2>1. PICK j \in Index : Remove(j)
    BY <1>4
  <2>2. CASE j = 0
    BY <2>1, <2>2 DEF Remove, Room
  <2>3. CASE j # 0
    BY <2>1, <2>3, CapAssumption DEF Remove, Room, conf, local, IInv, TypeOK, Index
  <2> QED
    BY <2>2, <2>3
<1>5. CASE UNCHANGED vars
  BY <1>5 DEF vars, conf, Room
<1>6. ~Open /\ ~Close /\ ~Crash /\ \A n \in MaxNums, s \in MaxSizes : ~Reload(n, s)
  BY DEF Open, BeginRollover, Close, Crash, Reload
<1>7. Step => OpenZero \/ OpenZeroFails
  BY DEF Step, UnlinkOldest, UnlinkFails, CloseCurrent, CloseFails, AfterClose,
         Rename, RenameFails, RenamesDone, Write, WriteFails, WriteDone
<1> QED
  BY <1>1, <1>2, <1>3, <1>4, <1>5, <1>6, <1>7 DEF Next

LEMMA WriteInLimit ==
  ASSUME IInv, Room, [Next]_vars,
         pc = "write", disk[0].ids # {}, disk'[0].ids # disk[0].ids, maxSize > 0
  PROVE  disk'[0].bytes <= maxSize
<1>1. 0 \in Index /\ disk \in [Index -> File] /\ Absent.ids = {}
  BY CapAssumption DEF IInv, TypeOK, Index, Absent
<1>2. CASE Write
  <2>1. fp = "zero" /\ disk'[0].bytes = disk[0].bytes + msg
    BY <1>1, <1>2 DEF Write, Deliver
  <2>2. disk[0].bytes \in Nat /\ disk[0].bytes <= size /\ msg \in Nat
        /\ size \in Nat /\ maxSize \in Nat
    BY <2>1, Conf DEF IInv, TypeOK, PcInv, SizeCountsFile
  <2> QED
    BY <2>1, <2>2 DEF Room
<1>3. CASE \E j \in Index : Remove(j)
  <2>1. PICK j \in Index : Remove(j)
    BY <1>3
  <2>2. j = 0 /\ disk'[0] = Absent
    BY <1>1, <2>1 DEF Remove
  <2>3. maxSize \in Nat
    BY Conf DEF IInv, TypeOK
  <2> QED
    BY <2>2, <2>3 DEF Absent
<1>4. CASE UNCHANGED vars \/ WriteFails \/ Crash
  BY <1>4 DEF vars, WriteFails, Crash, ghosts
<1>5. Step => Write \/ WriteFails
  BY DEF Step, UnlinkOldest, UnlinkFails, CloseCurrent, CloseFails, Rename,
         RenameFails, RenamesDone, OpenZero, OpenZeroFails
<1>6. ~Open /\ ~Close /\ (\A len \in Lens : ~AppendEvent(len))
      /\ \A n \in MaxNums, s \in MaxSizes : ~Reload(n, s)
  BY DEF Open, Close, AppendEvent, Reload
<1> QED
  BY <1>2, <1>3, <1>4, <1>5, <1>6 DEF Next

(* No file that holds a message is ever written past the limit in force.     *)
THEOREM LimitKept == Spec => WriteRespectsLimit
<1>1. Init => Room
  BY DEF Init, Room
<1>2. Spec => []Room
  BY <1>1, RoomStep, Inductive, PTL DEF Spec
<1>3. IInv /\ Room /\ [Next]_vars =>
        [ /\ pc = "write" /\ disk[0].ids # {} /\ disk'[0].ids # disk[0].ids
          /\ maxSize > 0
          => disk'[0].bytes <= maxSize ]_vars
  BY WriteInLimit
<1> QED
  BY <1>2, <1>3, Inductive, PTL DEF Spec, WriteRespectsLimit

-----------------------------------------------------------------------------
(***************************************************************************)
(* Nothing is lost but the oldest file, for every window size, size limit, *)
(* message length, and number of messages and openings, if no system call  *)
(* fails.  The invariant says which indices have a file at each point of a *)
(* rollover: so no rename and no truncation meets a file.                  *)
(***************************************************************************)
Here(j) == disk[j] # Absent

\* The files of the window, and the gap that the renaming loop moves down.
ShapeInv ==
  /\ pc = "off" => \E l \in -1..maxNum-1 : \A j \in Index : Here(j) <=> j <= l
  /\ pc = "create" => \A j \in Index : ~Here(j)
  /\ pc \in {"unlink", "close"} => \A j \in Index : Here(j) <=> j <= k
  /\ pc = "rename" => \A j \in Index : Here(j) <=> j <= i \/ (i + 2 <= j /\ j <= k + 1)
  /\ pc = "open" => lastIndex = k + 1 /\ \A j \in Index : Here(j) <=> 1 <= j /\ j <= lastIndex
  /\ pc \in {"idle", "write"} =>
       lastIndex >= 0 /\ \A j \in Index : Here(j) <=> j <= lastIndex

QuietInv == /\ rc = 0
            /\ pc \in {"idle", "write"} => fp = "zero"

\* Every message is somewhere, and what was rotated out is the oldest.
KeptInv ==
  /\ 1..sent = Stored \cup rotatedOut \cup (IF msg = NoMsg THEN {} ELSE {sent})
  /\ \A a \in rotatedOut, b \in Stored : a < b
  /\ msg # NoMsg => \A a \in rotatedOut : a < sent

LossInv == IInv /\ ShapeInv /\ QuietInv /\ KeptInv

LEMMA Quiet == ASSUME Faults = {} PROVE \A f : ~Fault(f)
BY DEF Fault

LEMMA Numbers ==
  ASSUME IInv
  PROVE  /\ Cap \in Nat /\ Index = 0..Cap-1 /\ 0 \in Index
         /\ maxNum \in Nat /\ maxNum >= 1 /\ maxNum <= Cap
         /\ k \in Int /\ i \in Int /\ lastIndex \in -1..maxNum-1 /\ sent \in Nat
         /\ disk \in [Index -> File] /\ rotatedOut \subseteq Nat
         /\ Absent \in File /\ Empty \in File /\ Absent.ids = {} /\ Empty.ids = {}
         /\ Empty # Absent
BY Conf, CapAssumption, BoundsAssumption
DEF IInv, TypeOK, Index, File, Absent, Empty, Ids

LEMMA StoredIn == \A m : m \in Stored <=> \E j \in Index : m \in disk[j].ids
BY DEF Stored

LEMMA StoredNext == \A m : m \in Stored' <=> \E j \in Index : m \in disk'[j].ids
BY DEF Stored

\* Steps that leave files and messages alone.
LEMMA SameKept ==
  ASSUME KeptInv, UNCHANGED <<disk, rotatedOut, sent, msg>> PROVE KeptInv'
BY DEF KeptInv, Stored

LEMMA InitLoss == Init => LossInv
<1> SUFFICES ASSUME Init PROVE LossInv
  OBVIOUS
<1>1. IInv
  BY InitIInv
<1>2. Stored = {} /\ 1..sent = {}
  BY DEF Init, Stored, Absent
<1>3. -1 \in -1..maxNum-1 /\ \A j \in Index : ~Here(j) /\ ~(j <= -1)
  BY <1>1, Numbers DEF Init, Here
<1>4. ShapeInv
  BY <1>3 DEF Init, ShapeInv
<1> QED
  BY <1>1, <1>2, <1>4 DEF Init, LossInv, QuietInv, KeptInv

\* Where a rollover begins, the window has no gap.
LEMMA BeginShape ==
  ASSUME IInv, NEW l \in -1..maxNum-1, BeginRollover(l), maxNum' = maxNum, disk' = disk,
         \A j \in Index : Here(j) <=> j <= l
  PROVE  ShapeInv' /\ QuietInv'
<1>1. /\ k' = l /\ i' = -1 /\ rc' = 0
      /\ pc' \in {"create", "unlink", "close"} /\ (pc' = "create" => l < 0)
  <2>1. CASE l < 0
    BY <2>1 DEF BeginRollover
  <2>2. CASE l >= 0
    BY <2>2 DEF BeginRollover
  <2> QED
    BY <2>1, <2>2, Numbers
<1>2. \A j \in Index : Here(j)' <=> j <= l
  BY DEF Here
<1> QED
  BY <1>1, <1>2, Numbers DEF ShapeInv, QuietInv

LEMMA OpenLoss == ASSUME LossInv, IInv', Open PROVE LossInv'
<1>1. PICK l \in -1..maxNum-1 : \A j \in Index : Here(j) <=> j <= l
  BY DEF LossInv, ShapeInv, Open
<1>2. PICK n \in -1..maxNum-1 : IsLastIndex(n, maxNum) /\ lastIndex' = n
  BY DEF Open, PolicyInit
<1>3. n = l
  <2>1. n <= l
    <3>1. CASE n < 0
      BY <1>2, <3>1
    <3>2. CASE n >= 0
      <4>1. n \in Index
        BY <3>2, Numbers DEF LossInv
      <4> QED
        BY <1>1, <1>2, <4>1, Numbers DEF LossInv, IsLastIndex, Here
    <3> QED
      BY <3>1, <3>2
  <2>2. ~(n < l)
    <3> SUFFICES ASSUME n < l PROVE FALSE
      OBVIOUS
    <3>1. n + 1 \in Index /\ n + 1 <= l /\ n < maxNum - 1
      BY Numbers DEF LossInv
    <3> QED
      BY <1>1, <1>2, <3>1 DEF IsLastIndex, Here
  <2> QED
    BY <2>1, <2>2
<1>4. /\ BeginRollover(l) /\ maxNum' = maxNum /\ disk' = disk
      /\ msg' = NoMsg /\ msg = NoMsg /\ sent' = sent /\ rotatedOut' = rotatedOut
  BY <1>2, <1>3 DEF Open, conf, ghosts, LossInv, IInv, PcInv
<1>5. ShapeInv' /\ QuietInv'
  BY <1>1, <1>4, BeginShape DEF LossInv
<1>6. KeptInv'
  BY <1>4, SameKept DEF LossInv
<1> QED
  BY <1>5, <1>6 DEF LossInv

LEMMA AppendLoss ==
  ASSUME LossInv, IInv', NEW len \in Lens, AppendEvent(len) PROVE LossInv'
<1>1. /\ pc = "idle" /\ sent' = sent + 1 /\ msg' = len /\ msg' # NoMsg /\ msg = NoMsg
      /\ UNCHANGED <<maxNum, lastIndex, fp, disk, rotatedOut>>
  BY Conf DEF AppendEvent, NoMsg, conf, LossInv, IInv, PcInv
<1>2. /\ lastIndex >= 0 /\ lastIndex \in -1..maxNum-1
      /\ \A j \in Index : Here(j) <=> j <= lastIndex
      /\ rc = 0 /\ fp = "zero"
  BY <1>1, Numbers DEF LossInv, ShapeInv, QuietInv
<1>3. ShapeInv' /\ QuietInv'
  <2>1. CASE Triggers(len)
    BY <1>1, <1>2, <2>1, BeginShape DEF AppendEvent, LossInv
  <2>2. CASE ~Triggers(len)
    BY <1>1, <1>2, <2>2 DEF AppendEvent, local, ShapeInv, QuietInv, Here
  <2> QED
    BY <2>1, <2>2
<1>4. KeptInv'
  <2>1. sent \in Nat /\ 1..sent = Stored \cup rotatedOut /\ Stored' = Stored
    BY <1>1, Numbers DEF LossInv, KeptInv, Stored
  <2>2. 1..sent' = (1..sent) \cup {sent'}
    BY <1>1, <2>1
  <2>3. \A a \in rotatedOut : a < sent'
    BY <1>1, <2>1
  <2> QED
    BY <1>1, <2>1, <2>2, <2>3 DEF LossInv, KeptInv
<1> QED
  BY <1>3, <1>4 DEF LossInv

(* The file at the last index goes, and it is the oldest.                   *)
LEMMA UnlinkLoss == ASSUME LossInv, IInv', UnlinkOldest PROVE LossInv'
<1>1. /\ k = maxNum - 1 /\ k' = maxNum - 2 /\ k \in Index /\ pc' = "close"
      /\ \A j \in Index : Here(j) <=> j <= k
      /\ rotatedOut' = rotatedOut \cup disk[k].ids
      /\ UNCHANGED <<rc, sent, msg, maxNum>>
  BY Numbers DEF UnlinkOldest, conf, LossInv, IInv, PcInv, ShapeInv
<1>2. \A j \in Index : disk'[j] = IF j = k THEN Absent ELSE disk[j]
  BY <1>1, Numbers DEF UnlinkOldest, LossInv
<1>3. ShapeInv' /\ QuietInv'
  BY <1>1, <1>2, Numbers DEF LossInv, ShapeInv, QuietInv, Here
<1>4. \A m : m \in Stored \cup rotatedOut <=> m \in Stored' \cup rotatedOut'
  BY <1>1, <1>2, StoredIn, StoredNext, Numbers DEF LossInv
<1>5. \A m \in Stored' : \E j \in Index : j < k /\ m \in disk[j].ids
  BY <1>1, <1>2, StoredNext, Numbers DEF LossInv, Here
<1>6. \A a \in rotatedOut', b \in Stored' : a < b
  <2> SUFFICES ASSUME NEW a \in rotatedOut', NEW b \in Stored' PROVE a < b
    OBVIOUS
  <2>1. PICK j \in Index : j < k /\ b \in disk[j].ids
    BY <1>5
  <2>2. CASE a \in rotatedOut
    BY <2>1, <2>2, StoredIn DEF LossInv, KeptInv
  <2>3. CASE a \in disk[k].ids
    BY <1>1, <2>1, <2>3 DEF LossInv, IInv, WindowOrdered
  <2> QED
    BY <1>1, <2>2, <2>3
<1>7. msg # NoMsg => \A a \in rotatedOut' : a < sent
  BY <1>1 DEF LossInv, KeptInv, IInv, IdsPast
<1>8. KeptInv'
  BY <1>1, <1>4, <1>6, <1>7 DEF LossInv, KeptInv
<1> QED
  BY <1>3, <1>8 DEF LossInv

LEMMA CloseCurrentLoss == ASSUME LossInv, IInv', CloseCurrent PROVE LossInv'
<1>1. /\ pc = "close" /\ pc' = "rename" /\ i' = k
      /\ UNCHANGED <<k, rc, disk, rotatedOut, sent, msg>>
  BY DEF CloseCurrent, AfterClose, ghosts, LossInv, QuietInv
<1>2. ShapeInv' /\ QuietInv'
  BY <1>1, Numbers DEF LossInv, ShapeInv, QuietInv, Here
<1> QED
  BY <1>1, <1>2, SameKept DEF LossInv

(* A rename never meets a file at the new name.                             *)
LEMMA RenameLoss == ASSUME LossInv, IInv', Rename PROVE LossInv'
<1>1. /\ pc = "rename" /\ pc' = "rename" /\ i \in Index /\ i + 1 \in Index /\ i' = i - 1
      /\ k \in Int /\ i <= k
      /\ \A j \in Index : Here(j) <=> j <= i \/ (i + 2 <= j /\ j <= k + 1)
      /\ UNCHANGED <<k, rc, rotatedOut, sent, msg>>
  BY Numbers DEF Rename, ghosts, LossInv, IInv, PcInv, ShapeInv
<1>2. \A j \in Index : disk'[j] = IF j = i THEN Absent
                                 ELSE IF j = i + 1 THEN disk[i] ELSE disk[j]
  BY <1>1, Numbers DEF Rename, LossInv
<1>3. disk[i + 1] = Absent
  BY <1>1, Numbers, SMTT(30) DEF Here, LossInv
<1>4. ShapeInv' /\ QuietInv'
  <2>1. \A j \in Index : Here(j)' <=> j <= i' \/ (i' + 2 <= j /\ j <= k' + 1)
    <3> SUFFICES ASSUME NEW j \in Index
                 PROVE  Here(j)' <=> j <= i - 1 \/ (i + 1 <= j /\ j <= k + 1)
      BY <1>1, Numbers, SMTT(30) DEF LossInv
    <3>1. j \in Int /\ i \in Int /\ Here(i)
      BY <1>1, Numbers DEF LossInv
    <3>2. CASE j = i
      BY <1>2, <3>1, <3>2 DEF Here
    <3>3. CASE j = i + 1
      BY <1>1, <1>2, <3>1, <3>3 DEF Here
    <3>4. CASE j # i /\ j # i + 1
      <4>1. Here(j)' <=> Here(j)
        BY <1>2, <3>4 DEF Here
      <4> QED
        BY <1>1, <3>1, <3>4, <4>1
    <3> QED
      BY <3>2, <3>3, <3>4
  <2> QED
    BY <1>1, <2>1 DEF LossInv, ShapeInv, QuietInv
<1>5. \A m : m \in Stored <=> m \in Stored'
  <2>1. \A m : m \in Stored => m \in Stored'
    <3> SUFFICES ASSUME NEW j \in Index, NEW m \in disk[j].ids PROVE m \in Stored'
      BY StoredIn
    <3>1. CASE j = i
      <4>1. m \in disk'[i + 1].ids
        BY <1>1, <1>2, <3>1, Numbers DEF LossInv
      <4> QED
        BY <1>1, <4>1, StoredNext
    <3>2. CASE j # i
      <4>1. m \in disk'[j].ids
        BY <1>2, <1>3, <3>2, Numbers DEF LossInv
      <4> QED
        BY <4>1, StoredNext
    <3> QED
      BY <3>1, <3>2
  <2>2. \A m : m \in Stored' => m \in Stored
    BY <1>1, <1>2, StoredIn, StoredNext, Numbers DEF LossInv
  <2> QED
    BY <2>1, <2>2
<1>6. KeptInv'
  BY <1>1, <1>5 DEF LossInv, KeptInv
<1> QED
  BY <1>4, <1>6 DEF LossInv

LEMMA RenamesDoneLoss == ASSUME LossInv, IInv', RenamesDone PROVE LossInv'
<1>1. /\ pc = "rename" /\ pc' = "open" /\ i = -1 /\ k \in Int /\ lastIndex' = k + 1
      /\ \A j \in Index : Here(j) <=> j <= i \/ (i + 2 <= j /\ j <= k + 1)
      /\ UNCHANGED <<k, rc, disk, rotatedOut, sent, msg>>
  <2>1. i >= -1
    BY Conf DEF LossInv, IInv, TypeOK
  <2> QED
    BY <2>1, Numbers DEF RenamesDone, ghosts, local, LossInv, IInv, PcInv, ShapeInv
<1>2. ShapeInv' /\ QuietInv'
  BY <1>1, Numbers DEF LossInv, ShapeInv, QuietInv, Here
<1> QED
  BY <1>1, <1>2, SameKept DEF LossInv

(* File 0 is opened, and truncated, when there is none.                     *)
LEMMA OpenZeroLoss == ASSUME LossInv, IInv', OpenZero PROVE LossInv'
<1>1. /\ disk[0] = Absent
      /\ \A j \in Index : j # 0 => (Here(j) <=> j <= lastIndex')
      /\ lastIndex' >= 0
  <2>1. CASE pc = "create"
    BY <2>1, Numbers DEF OpenZero, RolloverReturns, LossInv, ShapeInv, Here
  <2>2. CASE pc = "open"
    <3>1. lastIndex' = lastIndex /\ lastIndex = k + 1 /\ k >= -1
      BY <2>2, Conf DEF OpenZero, RolloverReturns, LossInv, ShapeInv, IInv, TypeOK
    <3> QED
      BY <2>2, <3>1, Numbers DEF LossInv, ShapeInv, Here
  <2> QED
    BY <2>1, <2>2 DEF OpenZero
<1>2. \A j \in Index : disk'[j] = IF j = 0 THEN Empty ELSE disk[j]
  BY Numbers DEF OpenZero, LossInv
<1>3. /\ pc' \in {"idle", "write"} /\ fp' = "zero" /\ rc' = 0
      /\ UNCHANGED <<rotatedOut, sent, msg>>
  BY DEF OpenZero, RolloverReturns, ghosts
<1>4. ShapeInv' /\ QuietInv'
  BY <1>1, <1>2, <1>3, Numbers DEF LossInv, ShapeInv, QuietInv, Here
<1>5. \A m : m \in Stored <=> m \in Stored'
  BY <1>1, <1>2, StoredIn, StoredNext, Numbers DEF LossInv
<1>6. KeptInv'
  BY <1>3, <1>5 DEF LossInv, KeptInv
<1> QED
  BY <1>4, <1>6 DEF LossInv

LEMMA WriteLoss == ASSUME LossInv, IInv', Write PROVE LossInv'
<1>1. /\ pc = "write" /\ pc' = "idle" /\ fp = "zero" /\ fp' = fp /\ rc' = 0
      /\ msg # NoMsg /\ msg' = NoMsg
      /\ lastIndex >= 0 /\ \A j \in Index : Here(j) <=> j <= lastIndex
      /\ UNCHANGED <<lastIndex, sent, rotatedOut>>
  BY DEF Write, WriteDone, LossInv, IInv, PcInv, ShapeInv, QuietInv
<1>2. /\ \A j \in Index : j # 0 => disk'[j] = disk[j]
      /\ disk'[0].ids = disk[0].ids \cup {sent}
  BY <1>1, Numbers DEF Write, Deliver, LossInv
<1>3. disk'[0] # Absent
  BY <1>2, Numbers DEF LossInv
<1>4. ShapeInv' /\ QuietInv'
  BY <1>1, <1>2, <1>3, Numbers DEF LossInv, ShapeInv, QuietInv, Here
<1>5. \A m : m \in Stored' <=> m \in Stored \cup {sent}
  BY <1>2, StoredIn, StoredNext, Numbers DEF LossInv
<1>6. KeptInv'
  BY <1>1, <1>5 DEF LossInv, KeptInv
<1> QED
  BY <1>4, <1>6 DEF LossInv

LEMMA CloseLoss == ASSUME LossInv, IInv', Close PROVE LossInv'
<1>1. /\ pc = "idle" /\ pc' = "off"
      /\ UNCHANGED <<maxNum, rc, disk, sent, rotatedOut, msg>>
  BY DEF Close, conf, local, ghosts
<1>2. lastIndex \in -1..maxNum-1 /\ \A j \in Index : Here(j) <=> j <= lastIndex
  BY <1>1, Numbers DEF LossInv, ShapeInv
<1>3. ShapeInv' /\ QuietInv'
  BY <1>1, <1>2 DEF LossInv, ShapeInv, QuietInv, Here
<1> QED
  BY <1>1, <1>3, SameKept DEF LossInv

LEMMA NoFailure ==
  ASSUME Faults = {}, LossInv
  PROVE  ~UnlinkFails /\ ~RenameFails /\ ~CloseFails /\ ~OpenZeroFails /\ ~WriteFails
<1>1. ~UnlinkFails
  <2> SUFFICES ASSUME UnlinkFails PROVE FALSE
    OBVIOUS
  <2>1. k = maxNum - 1 /\ k \in Index /\ disk[k] # Absent
    BY Numbers DEF UnlinkFails, LossInv, IInv, PcInv, ShapeInv, Here
  <2> QED
    BY <2>1, Quiet DEF UnlinkFails, FailsOn
<1>2. ~RenameFails
  <2> SUFFICES ASSUME RenameFails PROVE FALSE
    OBVIOUS
  <2>1. i \in Index /\ disk[i] # Absent
    BY Numbers DEF RenameFails, LossInv, IInv, PcInv, ShapeInv, Here
  <2> QED
    BY <2>1, Quiet DEF RenameFails, FailsOn
<1>3. ~CloseFails /\ ~OpenZeroFails /\ ~WriteFails
  BY Quiet DEF CloseFails, OpenZeroFails, WriteFails
<1> QED
  BY <1>1, <1>2, <1>3

LEMMA NextLoss ==
  ASSUME Faults = {}, LossInv, [Next]_vars PROVE LossInv'
<1>1. IInv'
  BY NextIInv DEF LossInv
<1>2. CASE Step
  <2>1. ~UnlinkFails /\ ~RenameFails /\ ~CloseFails /\ ~OpenZeroFails /\ ~WriteFails
    BY NoFailure
  <2> QED
    BY <1>1, <1>2, <2>1, UnlinkLoss, CloseCurrentLoss, RenameLoss, RenamesDoneLoss,
       OpenZeroLoss, WriteLoss DEF Step
<1>3. CASE Open
  BY <1>1, <1>3, OpenLoss
<1>4. CASE Close
  BY <1>1, <1>4, CloseLoss
<1>5. CASE \E len \in Lens : AppendEvent(len)
  BY <1>1, <1>5, AppendLoss
<1>6. CASE UNCHANGED vars
  <2>1. UNCHANGED <<maxNum, lastIndex, fp, pc, k, i, rc, msg, disk, sent, rotatedOut>>
    BY <1>6 DEF vars, conf, local, ghosts
  <2> QED
    BY <1>1, <2>1, SameKept DEF LossInv, ShapeInv, QuietInv, Here
<1>7. /\ ~Crash /\ (\A j \in Index : ~Remove(j))
      /\ \A n \in MaxNums, s \in MaxSizes : ~Reload(n, s)
  BY Quiet DEF Crash, Remove, Reload
<1> QED
  BY <1>2, <1>3, <1>4, <1>5, <1>6, <1>7 DEF Next

(* If no system call fails, every message is in the window, in hand, or in  *)
(* a file that was unlinked as the oldest, in the middle of a rollover too; *)
(* between two calls the window has no gap and last_index is its last file. *)
THEOREM NothingLost == ASSUME Faults = {} PROVE Spec => []NothingElseLost
<1>1. Init => LossInv
  BY InitLoss
<1>2. LossInv /\ [Next]_vars => LossInv'
  BY NextLoss
<1>3. LossInv => NothingElseLost
  BY DEF LossInv, KeptInv, ShapeInv, NothingElseLost, Here
<1> QED
  BY <1>1, <1>2, <1>3, PTL DEF Spec

-----------------------------------------------------------------------------
(* The window of a disk that has the files 0 to t but for one free index g: *)
(* t files, of which those above g are at the index of their place.         *)
PresentIn(d) == {j \in Index : d[j] # Absent}
GapIn(d)     == CHOOSE g \in 0..Cap : g \notin PresentIn(d) /\ \A j \in 0..g-1 : j \in PresentIn(d)
WindowIn(d)  == [n \in 1..Cardinality(PresentIn(d)) |->
                   d[IF n <= GapIn(d) THEN n - 1 ELSE n].ids]

Free(d, t, g) == /\ t \in 0..Cap /\ g \in 0..t /\ (t < Cap \/ g = t)
                 /\ \A j \in Index : d[j] # Absent <=> (j <= t /\ j # g)

LEMMA WindowOfDisk == Window = WindowIn(disk) /\ Window' = WindowIn(disk')
BY DEF Window, Nth, Gap, Present, WindowIn, GapIn, PresentIn

LEMMA FreeWindow ==
  ASSUME Cap \in Nat \ {0}, NEW d, NEW t, NEW g, Free(d, t, g)
  PROVE  WindowIn(d) = [n \in 1..t |-> d[IF n <= g THEN n - 1 ELSE n].ids]
<1>1. t \in Nat /\ g \in Nat /\ t <= Cap /\ g <= t /\ Index = 0..Cap-1
  BY DEF Free, Index
<1>2. PresentIn(d) = (0..t) \ {g}
  BY <1>1 DEF PresentIn, Free
<1>3. Cardinality(PresentIn(d)) = t
  <2>1. IsFiniteSet(0..t) /\ Cardinality(0..t) = t + 1
    BY <1>1, FS_Interval
  <2>2. g \in 0..t
    BY <1>1
  <2>3. Cardinality((0..t) \ {g}) = Cardinality(0..t) - 1
    BY <2>1, <2>2, FS_RemoveElement
  <2> QED
    BY <1>1, <1>2, <2>1, <2>3
<1>4. GapIn(d) = g
  <2> DEFINE IsGap(x) == x \notin PresentIn(d) /\ \A j \in 0..x-1 : j \in PresentIn(d)
  <2>1. g \in 0..Cap /\ IsGap(g)
    BY <1>1, <1>2
  <2>2. \A x \in 0..Cap : IsGap(x) => x = g
    <3> SUFFICES ASSUME NEW x \in 0..Cap, IsGap(x) PROVE x = g
      OBVIOUS
    <3>1. ~(x < g)
      BY <1>1, <1>2
    <3>2. ~(g < x)
      BY <1>1, <1>2, SMTT(30)
    <3> QED
      BY <1>1, <3>1, <3>2
  <2> QED
    BY <2>1, <2>2 DEF GapIn
<1> QED
  BY <1>3, <1>4 DEF WindowIn

(* Unlinking the last file of a full window rotates out the oldest file.    *)
LEMMA RotateStep ==
  ASSUME LossInv, IInv', UnlinkOldest PROVE LW!RotateOut
<1>1. /\ k = maxNum - 1 /\ k \in Index
      /\ \A j \in Index : Here(j) <=> j <= k
      /\ UNCHANGED <<sent, msg, maxNum>>
  BY Numbers DEF UnlinkOldest, conf, LossInv, IInv, PcInv, ShapeInv
<1>2. \A j \in Index : disk'[j] = IF j = k THEN Absent ELSE disk[j]
  BY <1>1, Numbers DEF UnlinkOldest, LossInv
<1>3. Free(disk, k + 1, k + 1) /\ Free(disk', k, k)
  BY <1>1, <1>2, Numbers DEF Free, Here, LossInv
<1>4. /\ Window = [n \in 1..(k + 1) |-> disk[IF n <= k + 1 THEN n - 1 ELSE n].ids]
      /\ Window' = [n \in 1..k |-> disk'[IF n <= k THEN n - 1 ELSE n].ids]
  BY <1>3, FreeWindow, WindowOfDisk, CapAssumption
<1>5. k \in Nat /\ maxNum = k + 1
  BY <1>1, Numbers DEF LossInv
<1>6. Window' = [n \in 1..k |-> Window[n]]
  BY <1>1, <1>2, <1>4, <1>5, Numbers DEF LossInv
<1>7. Len(Window) = maxNum /\ SubSeq(Window, 1, maxNum - 1) = [n \in 1..k |-> Window[n]]
  BY <1>4, <1>5
<1> QED
  BY <1>1, <1>6, <1>7 DEF LW!RotateOut, Last

(* A rename moves the free index down and leaves the files in their order.  *)
LEMMA RenameStutters ==
  ASSUME LossInv, IInv', Rename PROVE UNCHANGED <<Window, maxNum, Last>>
<1>1. /\ i \in Index /\ i + 1 \in Index /\ k \in Int /\ i <= k /\ k + 1 < Cap
      /\ \A j \in Index : Here(j) <=> j <= i \/ (i + 2 <= j /\ j <= k + 1)
      /\ UNCHANGED <<sent, msg, maxNum>>
  BY Numbers DEF Rename, ghosts, conf, LossInv, IInv, PcInv, ShapeInv
<1>2. \A j \in Index : disk'[j] = IF j = i THEN Absent
                                 ELSE IF j = i + 1 THEN disk[i] ELSE disk[j]
  BY <1>1, Numbers DEF Rename, LossInv
<1>3. i \in Nat /\ Cap \in Nat /\ Index = 0..Cap-1 /\ Here(i)
  BY <1>1, Numbers DEF LossInv
<1>4. Free(disk, k + 1, i + 1)
  BY <1>1, <1>3 DEF Free, Here
<1>5. Free(disk', k + 1, i)
  <2> SUFFICES ASSUME NEW j \in Index PROVE disk'[j] # Absent <=> (j <= k + 1 /\ j # i)
    BY <1>1, <1>3 DEF Free
  <2>1. CASE j = i
    BY <1>2, <2>1
  <2>2. CASE j = i + 1
    BY <1>1, <1>2, <1>3, <2>2 DEF Here
  <2>3. CASE j # i /\ j # i + 1
    BY <1>1, <1>2, <1>3, <2>3 DEF Here
  <2> QED
    BY <2>1, <2>2, <2>3
<1>6. /\ Window = [n \in 1..(k + 1) |-> disk[IF n <= i + 1 THEN n - 1 ELSE n].ids]
      /\ Window' = [n \in 1..(k + 1) |-> disk'[IF n <= i THEN n - 1 ELSE n].ids]
  BY <1>4, <1>5, FreeWindow, WindowOfDisk, CapAssumption
<1>7. \A n \in 1..(k + 1) : disk[IF n <= i + 1 THEN n - 1 ELSE n].ids
                              = disk'[IF n <= i THEN n - 1 ELSE n].ids
  <2> SUFFICES ASSUME NEW n \in 1..(k + 1)
               PROVE  disk[IF n <= i + 1 THEN n - 1 ELSE n].ids
                      = disk'[IF n <= i THEN n - 1 ELSE n].ids
    OBVIOUS
  <2>1. n \in Index /\ n - 1 \in Index
    BY <1>1, <1>3
  <2>2. CASE n = i + 1
    BY <1>2, <1>3, <2>1, <2>2
  <2>3. CASE n # i + 1
    BY <1>1, <1>2, <1>3, <2>1, <2>3
  <2> QED
    BY <2>2, <2>3
<1> QED
  BY <1>1, <1>6, <1>7 DEF Last

(* Opening file 0 puts a new, empty file in front.                          *)
LEMMA NewFileStep ==
  ASSUME LossInv, IInv', OpenZero PROVE LW!NewFile
<1>1. PICK t \in Nat : t < maxNum /\ Free(disk, t, 0)
  <2>1. CASE pc = "create"
    <3>1. Free(disk, 0, 0)
      BY <2>1, Numbers DEF LossInv, ShapeInv, Free, Here
    <3> QED
      BY <3>1, Numbers DEF LossInv
  <2>2. CASE pc = "open"
    <3>1. lastIndex \in Nat /\ lastIndex < maxNum
      <4>1. lastIndex = k + 1
        BY <2>2 DEF LossInv, ShapeInv
      <4>2. k >= -1
        BY Numbers DEF LossInv, IInv, TypeOK
      <4> QED
        BY <4>1, <4>2, Numbers DEF LossInv
    <3>2. Free(disk, lastIndex, 0)
      BY <2>2, <3>1, Numbers DEF LossInv, ShapeInv, Free, Here
    <3> QED
      BY <3>1, <3>2
  <2> QED
    BY <2>1, <2>2 DEF OpenZero
<1>2. \A j \in Index : disk'[j] = IF j = 0 THEN Empty ELSE disk[j]
  BY Numbers DEF OpenZero, LossInv
<1>3. maxNum' = maxNum /\ sent' = sent /\ msg' = msg
  BY DEF OpenZero, conf, ghosts
<1>4. Free(disk', t + 1, t + 1)
  BY <1>1, <1>2, Numbers DEF Free, LossInv
<1>5. /\ Window = [n \in 1..t |-> disk[IF n <= 0 THEN n - 1 ELSE n].ids]
      /\ Window' = [n \in 1..(t + 1) |-> disk'[IF n <= t + 1 THEN n - 1 ELSE n].ids]
  BY <1>1, <1>4, FreeWindow, WindowOfDisk, CapAssumption
<1>6. \A n \in 1..(t + 1) : Window'[n] = IF n = 1 THEN {} ELSE Window[n - 1]
  <2> SUFFICES ASSUME NEW n \in 1..(t + 1)
               PROVE  Window'[n] = IF n = 1 THEN {} ELSE Window[n - 1]
    OBVIOUS
  <2>1. n - 1 \in Index /\ n <= t + 1
    BY <1>1, Numbers DEF LossInv
  <2>2. Window'[n] = disk'[n - 1].ids
    BY <1>5, <2>1
  <2>3. CASE n = 1
    BY <1>2, <2>1, <2>2, <2>3, Numbers DEF LossInv
  <2>4. CASE n # 1
    <3>1. n - 1 \in 1..t /\ ~(n - 1 <= 0)
      BY <2>4
    <3>2. Window[n - 1] = disk[n - 1].ids
      BY <1>5, <3>1
    <3> QED
      BY <1>2, <2>1, <2>2, <2>4, <3>1, <3>2
  <2> QED
    BY <2>3, <2>4
<1>7. /\ Window' \in Seq(SUBSET Ids) /\ Window \in Seq(SUBSET Ids)
      /\ Len(Window) = t /\ Len(Window') = t + 1
  <2>1. \A n \in 1..t : Window[n] \in SUBSET Ids
    <3> SUFFICES ASSUME NEW n \in 1..t PROVE Window[n] \in SUBSET Ids
      OBVIOUS
    <3>1. n \in Index /\ ~(n <= 0)
      BY <1>1, Numbers DEF LossInv
    <3>2. disk[n] \in File
      BY <3>1, Numbers DEF LossInv
    <3> QED
      BY <1>5, <3>1, <3>2 DEF File
  <2>2. \A n \in 1..(t + 1) : Window'[n] \in SUBSET Ids
    <3> SUFFICES ASSUME NEW n \in 1..(t + 1) PROVE Window'[n] \in SUBSET Ids
      OBVIOUS
    <3>1. n # 1 => n - 1 \in 1..t
      OBVIOUS
    <3> QED
      BY <1>6, <2>1, <3>1
  <2>3. Window \in [1..t -> SUBSET Ids] /\ Window' \in [1..(t + 1) -> SUBSET Ids]
    BY <1>5, <2>1, <2>2
  <2> QED
    BY <2>3
<1>8. Window' = <<{}>> \o Window
  <2>1. <<{}>> \in Seq(SUBSET Ids) /\ Len(<<{}>>) = 1 /\ <<{}>>[1] = {}
    OBVIOUS
  <2>2. /\ <<{}>> \o Window \in Seq(SUBSET Ids)
        /\ Len(<<{}>> \o Window) = 1 + Len(Window)
        /\ \A n \in 1..1 + Len(Window) :
             (<<{}>> \o Window)[n] = IF n <= 1 THEN <<{}>>[n] ELSE Window[n - 1]
    BY <1>7, <2>1, ConcatProperties
  <2>3. \A n \in 1..(t + 1) : Window'[n] = (<<{}>> \o Window)[n]
    <3> DEFINE Joined == <<{}>> \o Window
    <3>1. \A n \in 1..(t + 1) : Joined[n] = IF n <= 1 THEN <<{}>>[n] ELSE Window[n - 1]
      BY <1>7, <2>2
    <3> HIDE DEF Joined
    <3>2. \A n \in 1..(t + 1) : Joined[n] = IF n = 1 THEN {} ELSE Window[n - 1]
      <4> SUFFICES ASSUME NEW n \in 1..(t + 1)
                   PROVE  Joined[n] = IF n = 1 THEN {} ELSE Window[n - 1]
        OBVIOUS
      <4>1. CASE n = 1
        BY <2>1, <3>1, <4>1
      <4>2. CASE n # 1
        <5>1. ~(n <= 1)
          BY <4>2
        <5> QED
          BY <3>1, <4>2, <5>1
      <4> QED
        BY <4>1, <4>2
    <3>3. \A n \in 1..(t + 1) : Window'[n] = Joined[n]
      BY <1>6, <3>2
    <3> QED
      BY <3>3 DEF Joined
  <2> QED
    BY <1>7, <2>2, <2>3, SeqEqual
<1> QED
  BY <1>1, <1>3, <1>7, <1>8 DEF LW!NewFile, Last

(* The message in hand joins the first file.                                *)
LEMMA WriteJoins ==
  ASSUME LossInv, IInv', Write PROVE LW!Write
<1>1. /\ fp = "zero" /\ msg # NoMsg /\ msg' = NoMsg
      /\ lastIndex >= 0 /\ \A j \in Index : Here(j) <=> j <= lastIndex
      /\ UNCHANGED <<maxNum, sent>>
  BY DEF Write, WriteDone, conf, LossInv, IInv, PcInv, ShapeInv, QuietInv
<1>2. /\ \A j \in Index : j # 0 => disk'[j] = disk[j]
      /\ disk'[0].ids = disk[0].ids \cup {sent} /\ disk'[0] # Absent
  <2>1. disk' = [disk EXCEPT ![0] = [ids   |-> @.ids \cup {sent},
                                     bytes |-> @.bytes + msg]]
    BY <1>1 DEF Write, Deliver
  <2>2. \A j \in Index : j # 0 => disk'[j] = disk[j]
    BY <2>1, Numbers DEF LossInv
  <2>3. disk'[0].ids = disk[0].ids \cup {sent}
    BY <2>1, Numbers DEF LossInv
  <2>4. disk'[0] # Absent
    <3>1. sent \in disk'[0].ids /\ sent \notin Absent.ids
      BY <2>3, Numbers DEF LossInv
    <3> QED
      BY <3>1
  <2> QED
    BY <2>2, <2>3, <2>4
<1> DEFINE t == lastIndex + 1
<1>3. Free(disk, t, t) /\ Free(disk', t, t)
  BY <1>1, <1>2, Numbers, SMTT(30) DEF Free, Here, LossInv
<1>4. /\ Window = [n \in 1..t |-> disk[IF n <= t THEN n - 1 ELSE n].ids]
      /\ Window' = [n \in 1..t |-> disk'[IF n <= t THEN n - 1 ELSE n].ids]
  <2> HIDE DEF t
  <2> QED
    BY <1>3, FreeWindow, WindowOfDisk, CapAssumption
<1>5. t \in Nat /\ t >= 1 /\ t <= Cap
  BY <1>1, Numbers DEF LossInv
<1> HIDE DEF t
<1>6. Window' = [Window EXCEPT ![1] = @ \cup {sent}]
  <2>1. \A n \in 1..t : n <= t /\ n - 1 \in Index /\ (n - 1 = 0 <=> n = 1)
    BY <1>5, Numbers DEF LossInv
  <2>2. /\ Window = [n \in 1..t |-> disk[n - 1].ids]
        /\ Window' = [n \in 1..t |-> disk'[n - 1].ids]
    BY <1>4, <2>1
  <2>3. \A n \in 1..t : disk'[n - 1].ids = IF n = 1 THEN disk[n - 1].ids \cup {sent}
                                                  ELSE disk[n - 1].ids
    BY <1>2, <2>1
  <2> QED
    BY <2>2, <2>3
<1>7. Window # << >>
  <2>1. Len(Window) = t
    BY <1>4, <1>5
  <2> QED
    BY <1>5, <2>1
<1>8. Last' = Last + 1 /\ Last' = sent
  BY <1>1, Numbers DEF Last, LossInv
<1> QED
  BY <1>1, <1>6, <1>7, <1>8 DEF LW!Write

LEMMA LogWindowInit == ASSUME Init PROVE LW!Init
<1>1. Free(disk, 0, 0) /\ IInv
  BY InitIInv, CapAssumption DEF Init, Free, Index
<1>2. Window = [n \in 1..0 |-> disk[IF n <= 0 THEN n - 1 ELSE n].ids]
  BY <1>1, FreeWindow, WindowOfDisk, CapAssumption
<1>3. Window = << >>
  BY <1>2
<1> QED
  BY <1>1, <1>3, Numbers DEF LW!Init, Init, Last

LEMMA LogWindowStep ==
  ASSUME Faults = {}, LossInv, [Next]_vars PROVE [LW!Next]_<<Window, maxNum, Last>>
<1>1. IInv'
  BY NextIInv DEF LossInv
<1>2. CASE UNCHANGED <<disk, maxNum>> /\ UNCHANGED <<sent, msg>>
  BY <1>2 DEF Window, Nth, Gap, Present, Last
<1>3. CASE Step
  <2>1. ~UnlinkFails /\ ~RenameFails /\ ~CloseFails /\ ~OpenZeroFails /\ ~WriteFails
    BY NoFailure
  <2>2. CASE UnlinkOldest
    BY <1>1, <2>2, RotateStep DEF LW!Next
  <2>3. CASE Rename
    BY <1>1, <2>3, RenameStutters
  <2>4. CASE OpenZero
    BY <1>1, <2>4, NewFileStep DEF LW!Next
  <2>5. CASE Write
    BY <1>1, <2>5, WriteJoins DEF LW!Next
  <2>6. CASE CloseCurrent \/ RenamesDone
    BY <1>2, <2>6 DEF CloseCurrent, RenamesDone, conf, ghosts
  <2> QED
    BY <1>3, <2>1, <2>2, <2>3, <2>4, <2>5, <2>6 DEF Step
<1>4. CASE Open \/ Close
  <2>1. UNCHANGED <<disk, maxNum, sent>> /\ msg' = NoMsg /\ msg = NoMsg
    BY <1>4 DEF Open, Close, conf, local, ghosts, LossInv, IInv, PcInv
  <2> QED
    BY <1>2, <2>1
<1>5. CASE \E len \in Lens : AppendEvent(len)
  <2>1. UNCHANGED <<disk, maxNum>> /\ sent' = sent + 1 /\ msg' # NoMsg /\ msg = NoMsg
    BY <1>5, Conf DEF AppendEvent, conf, NoMsg, LossInv, IInv, PcInv
  <2>2. Last' = Last
    BY <2>1, Numbers DEF Last, LossInv
  <2> QED
    BY <2>1, <2>2 DEF Window, Nth, Gap, Present
<1>6. CASE UNCHANGED vars
  BY <1>2, <1>6 DEF vars, conf, ghosts
<1>7. /\ ~Crash /\ (\A j \in Index : ~Remove(j))
      /\ \A n \in MaxNums, s \in MaxSizes : ~Reload(n, s)
  BY Quiet DEF Crash, Remove, Reload
<1> QED
  BY <1>3, <1>4, <1>5, <1>6, <1>7 DEF Next

(* If no system call fails, the policy is the abstract window of files, for *)
(* every size of window: a rollover only ever rotates out the oldest file,  *)
(* and the renaming loop and the files' indices are not seen.               *)
THEOREM Refines == ASSUME Faults = {} PROVE Spec => ImplementsLogWindow
<1>1. Init => LW!Init
  BY LogWindowInit
<1>2. LossInv /\ [Next]_vars => [LW!Next]_<<Window, maxNum, Last>>
  BY LogWindowStep
<1>3. LossInv /\ [Next]_vars => LossInv'
  BY NextLoss
<1> QED
  BY <1>1, <1>2, <1>3, InitLoss, PTL DEF Spec, ImplementsLogWindow, LW!Spec

=============================================================================
