--------------------------- MODULE OutputsProofs ---------------------------
(***************************************************************************)
(* What TLAPS proves of the outputs, Streams and Message.                  *)
(*                                                                         *)
(* Streams: who closes a FILE, and which faults a stream appender can run  *)
(* into, for any number of files that the program and the appender open.   *)
(*                                                                         *)
(* Message: whose line is written and what is missing of it, and what the  *)
(* mapped file holds, for any threads, lengths of lines and buffers, and   *)
(* any length of the mapping.  As long as threads do not meet in           *)
(* mmap_append, the mapping is a ring of what was stored: the argument is  *)
(* about remainders and is made once, in RingStep, for a part of a line    *)
(* that ends before the end of the mapping does.                           *)
(***************************************************************************)
EXTENDS Streams, Message, FiniteSetTheorems, SequenceTheorems, TLAPS

FilesType == [Files -> [by       : {"none", "appender", "program"},
                        open     : {0, 1},
                        closedBy : {"none", "appender", "program"}]]

TypeInv == /\ type \in {"stream", "stream2"}
           /\ isopen \in {0, 1} /\ udata \in {0, 1} /\ state \in {0, STREAM2_MY_FP}
           /\ fp \in Files \cup {Null, Stderr}
           /\ files \in FilesType
           /\ pc \in {"idle", "write", "gone"}
           /\ fault \in {"none", "closed", "null"}
           /\ did \subseteq {"close", "failed", "taken", "withdrawn"}

\* The files are opened in the order of their numbers.
OrderInv == \E n \in 0..MaxFiles : \A f \in Files : files[f].by = "none" <=> f > n

Cause == "withdrawn" \in did \/ (type = "stream" /\ did \cap {"close", "failed"} # {})

\* What the appender has when it needs a FILE.
NeedInv == /\ fp \in Files /\ files[fp].open = 0 => Cause
           /\ pc = "write" => isopen = 1
           /\ type = "stream" /\ isopen = 1 => fp # Null
           /\ type = "stream2" /\ isopen = 1 /\ (fp = Null \/ udata = 0) => "failed" \in did

\* The FILE that the bit says is the appender's own is its own.
BitInv == state = STREAM2_MY_FP =>
            fp \in Files /\ files[fp].by = "appender" /\ udata = 1

\* An open FILE of the appender's is the one it has, and it is open itself.
OwnInv == "taken" \notin did =>
            \A f \in Files : files[f].by = "appender" /\ files[f].open = 1 =>
              /\ f = fp /\ isopen = 1 /\ pc # "gone"
              /\ type = "stream2" => state = STREAM2_MY_FP

StreamsInv == /\ TypeInv /\ OrderInv /\ NeedInv /\ BitInv /\ OwnInv
              /\ FaultsHaveCause /\ ClosedByOwner

LEMMA FilesAreNumbers == MaxFiles \in Nat /\ Files \subseteq Nat /\ Null \notin Files
                         /\ Stderr \notin Files /\ Null # Stderr /\ STREAM2_MY_FP = 1
BY MaxFilesAssumption DEF Files, Null, Stderr, STREAM2_MY_FP

(* The next file to open has never been opened.                             *)
LEMMA NextIsUnused ==
  ASSUME OrderInv, NEW f \in Files, Next1(f)
  PROVE  /\ files[f].by = "none"
         /\ \E n \in 0..MaxFiles : \A g \in Files : (files[g].by = "none" /\ g # f) <=> g > n
<1>1. PICK n \in 0..MaxFiles : \A g \in Files : files[g].by = "none" <=> g > n
  BY DEF OrderInv
<1> DEFINE Used == {g \in Files : files[g].by # "none"}
<1>2. n \in Nat /\ Used = 1..n
  BY <1>1, FilesAreNumbers DEF Files
<1>3. Cardinality(1..n) = n
  BY <1>2, FS_Interval
<1>4. f = n + 1
  <2>1. f = 1 + Cardinality(Used)
    BY DEF Next1
  <2> HIDE DEF Used
  <2> QED
    BY <1>2, <1>3, <2>1
<1>5. n + 1 \in 0..MaxFiles
  BY <1>2, <1>4, FilesAreNumbers DEF Files
<1>6. \A g \in Files : (files[g].by = "none" /\ g # f) <=> g > n + 1
  <2> SUFFICES ASSUME NEW g \in Files
               PROVE  (files[g].by = "none" /\ g # f) <=> g > n + 1
    OBVIOUS
  <2>1. g \in Nat /\ (files[g].by = "none" <=> g > n)
    BY <1>1, FilesAreNumbers
  <2> QED
    BY <1>2, <1>4, <2>1
<1> QED
  BY <1>1, <1>4, <1>5, <1>6, FilesAreNumbers

LEMMA Opened ==
  ASSUME TypeInv, OrderInv, NEW f \in Files, Next1(f), NEW who \in {"appender", "program"},
         files' = Opens(f, who)
  PROVE  /\ files[f].by = "none" /\ files' \in FilesType /\ OrderInv'
         /\ files'[f].by = who /\ files'[f].open = 1 /\ files'[f].closedBy = "none"
         /\ \A g \in Files : g # f => files'[g] = files[g]
<1>1. PICK n \in 0..MaxFiles : \A g \in Files : (files[g].by = "none" /\ g # f) <=> g > n
  BY NextIsUnused
<1>2. /\ files' \in FilesType
      /\ files'[f].by = who /\ files'[f].open = 1 /\ files'[f].closedBy = "none"
      /\ \A g \in Files : g # f => files'[g] = files[g]
  BY DEF TypeInv, FilesType, Opens
<1>3. \A g \in Files : files'[g].by = "none" <=> g > n
  BY <1>1, <1>2
<1> QED
  BY <1>2, <1>3, NextIsUnused DEF OrderInv

LEMMA Closed ==
  ASSUME TypeInv, OrderInv, NEW f \in Files, NEW who \in {"appender", "program"},
         files' = Closes(f, who)
  PROVE  /\ files' \in FilesType /\ OrderInv'
         /\ files'[f].by = files[f].by /\ files'[f].open = 0 /\ files'[f].closedBy = who
         /\ \A g \in Files : g # f => files'[g] = files[g]
<1> DEFINE FileType == [by : {"none", "appender", "program"}, open : {0, 1},
                        closedBy : {"none", "appender", "program"}]
<1>1. files[f] \in FileType /\ f \in DOMAIN files
  BY DEF TypeInv, FilesType
<1> DEFINE closed == [[files[f] EXCEPT !.open = 0] EXCEPT !.closedBy = who]
<1>2. /\ files' \in FilesType
      /\ files'[f].by = files[f].by /\ files'[f].open = 0 /\ files'[f].closedBy = who
      /\ \A g \in Files : g # f => files'[g] = files[g]
  <2>1. files' = [files EXCEPT ![f] = closed]
    BY DEF TypeInv, FilesType, Closes
  <2>2. /\ closed \in FileType
        /\ closed.by = files[f].by /\ closed.open = 0 /\ closed.closedBy = who
    BY <1>1
  <2> HIDE DEF closed
  <2> QED
    BY <2>1, <2>2 DEF TypeInv, FilesType
<1>3. \A g \in Files : files'[g].by = files[g].by
  BY <1>2
<1> QED
  BY <1>2, <1>3 DEF OrderInv

LEMMA SameOrder == ASSUME OrderInv, files' = files PROVE OrderInv'
BY DEF OrderInv

-----------------------------------------------------------------------------
LEMMA InitStreams == Init => StreamsInv
<1> SUFFICES ASSUME Init PROVE StreamsInv
  OBVIOUS
<1>1. \A f \in Files : files[f].by = "none" /\ files[f].open = 0 /\ files[f].closedBy = "none"
  BY DEF Init, Unused
<1>2. TypeInv
  BY DEF Init, TypeInv, FilesType, Unused
<1>3. OrderInv
  <2>1. 0 \in 0..MaxFiles /\ \A f \in Files : f > 0
    BY FilesAreNumbers DEF Files
  <2> QED
    BY <1>1, <2>1 DEF OrderInv
<1> QED
  BY <1>1, <1>2, <1>3, FilesAreNumbers
  DEF Init, StreamsInv, NeedInv, BitInv, OwnInv, FaultsHaveCause, ClosedByOwner

LEMMA OpenStreams ==
  ASSUME StreamsInv, NEW next \in {"idle", "write"}, Open(next) PROVE StreamsInv'
<1> USE FilesAreNumbers
<1>1. CASE fp # Null /\ UNCHANGED <<fp, state, files>>
  BY <1>1, SameOrder DEF Open, Runs, StreamsInv, TypeInv, NeedInv, Cause, BitInv, OwnInv,
    FaultsHaveCause, ClosedByOwner
<1>2. CASE fp = Null /\ \E f \in Files : Next1(f) /\ OpenOwn(f)
  <2>1. PICK f \in Files : Next1(f) /\ OpenOwn(f)
    BY <1>2
  <2>2. /\ files[f].by = "none" /\ files' \in FilesType /\ OrderInv'
        /\ files'[f].by = "appender" /\ files'[f].open = 1 /\ files'[f].closedBy = "none"
        /\ \A g \in Files : g # f => files'[g] = files[g]
    BY <2>1, Opened DEF OpenOwn, StreamsInv
  <2>3. /\ fp' = f /\ isopen' = 1 /\ pc' = next /\ type' = type /\ did' = did
        /\ fault' = fault /\ fault = "none" /\ pc = "idle"
        /\ state' = (IF type = "stream2" THEN STREAM2_MY_FP ELSE state)
        /\ udata' = (IF type = "stream2" THEN 1 ELSE udata)
    BY <2>1 DEF Open, OpenOwn, Runs
  <2>4. TypeInv'
    BY <2>2, <2>3 DEF StreamsInv, TypeInv
  <2>5. NeedInv' /\ FaultsHaveCause'
    BY <2>2, <2>3 DEF StreamsInv, TypeInv, NeedInv, Cause, FaultsHaveCause
  <2>6. BitInv'
    BY <1>2, <2>2, <2>3 DEF StreamsInv, TypeInv, BitInv
  <2>7. OwnInv'
    BY <1>2, <2>2, <2>3 DEF StreamsInv, TypeInv, OwnInv
  <2>8. ClosedByOwner'
    BY <2>2, <2>3 DEF StreamsInv, ClosedByOwner
  <2> QED
    BY <2>2, <2>4, <2>5, <2>6, <2>7, <2>8 DEF StreamsInv
<1>3. CASE fp = Null /\ fp' = Stderr /\ UNCHANGED <<state, files>>
  BY <1>3, SameOrder DEF Open, Runs, StreamsInv, TypeInv, NeedInv, Cause, BitInv, OwnInv,
    FaultsHaveCause, ClosedByOwner
<1> QED
  BY <1>1, <1>2, <1>3 DEF Open

LEMMA WriteStreams ==
  ASSUME StreamsInv, AppendOpen \/ Write PROVE StreamsInv'
<1> USE FilesAreNumbers
<1>1. CASE AppendOpen
  BY <1>1, SameOrder DEF AppendOpen, own, Runs, StreamsInv, TypeInv, NeedInv, Cause, BitInv,
    OwnInv, FaultsHaveCause, ClosedByOwner
<1>2. CASE Write /\ fault' = fault
  BY <1>2, SameOrder DEF Write, Fault, own, Runs, StreamsInv, TypeInv, NeedInv, Cause, BitInv,
    OwnInv, FaultsHaveCause, ClosedByOwner
<1>3. CASE Write /\ fault' # fault
  <2>1. /\ fault = "none" /\ pc = "write" /\ ~Usable(fp) /\ (type = "stream2" => udata # 0)
        /\ fault' = (IF fp = Null THEN "null" ELSE "closed")
        /\ UNCHANGED <<type, own, files, pc, did>>
    BY <1>3 DEF Write, Fault, Runs
  <2>2. fp # Null => fp \in Files /\ files[fp].open = 0
    BY <2>1 DEF Usable, StreamsInv, TypeInv, FilesType
  <2>3. isopen = 1
    BY <2>1 DEF StreamsInv, NeedInv
  <2>4. FaultsHaveCause'
    BY <2>1, <2>2, <2>3 DEF own, StreamsInv, TypeInv, NeedInv, Cause, FaultsHaveCause
  <2> QED
    BY <2>1, <2>4, SameOrder DEF own, StreamsInv, TypeInv, NeedInv, Cause, BitInv, OwnInv,
      ClosedByOwner
<1> QED
  BY <1>1, <1>2, <1>3

\* An appender that closes its FILE.
LEMMA FcloseStreams ==
  ASSUME StreamsInv, fp \in Files, Fclose(fp), isopen = 1, fault' = fault, fault = "none",
         type' = type, NEW next \in {"idle", "gone"}, pc' = next,
         \/ type = "stream" /\ UNCHANGED <<udata, fp, state>>
         \/ type = "stream2" /\ state = STREAM2_MY_FP /\ Forget
  PROVE  StreamsInv'
<1> USE FilesAreNumbers
<1>1. /\ files' \in FilesType /\ OrderInv'
      /\ files'[fp].by = files[fp].by /\ files'[fp].open = 0
      /\ files'[fp].closedBy = "appender"
      /\ \A g \in Files : g # fp => files'[g] = files[g]
  BY Closed DEF Fclose, StreamsInv
<1>2. \/ isopen' = 0 /\ did' = did \cup {"close"}
      \/ isopen' = 1 /\ did' = did \cup {"failed"}
  BY DEF Fclose
<1>3. TypeInv'
  BY <1>1, <1>2 DEF Forget, StreamsInv, TypeInv
<1>4. NeedInv' /\ FaultsHaveCause'
  BY <1>1, <1>2 DEF Forget, StreamsInv, TypeInv, NeedInv, Cause, FaultsHaveCause
<1>5. BitInv'
  BY <1>1 DEF Forget, StreamsInv, TypeInv, BitInv
<1>6. OwnInv'
  <2>1. "taken" \notin did' => \A g \in Files : ~(files'[g].by = "appender" /\ files'[g].open = 1)
    BY <1>1, <1>2 DEF StreamsInv, OwnInv
  <2> QED
    BY <2>1 DEF OwnInv
<1>7. ClosedByOwner'
  <2>1. type = "stream2" => files[fp].by = "appender"
    BY DEF StreamsInv, BitInv
  <2>2. "taken" \notin did' => \A g \in Files : files'[g].by = "appender" => files'[g].open = 0
    BY <1>1, <1>2 DEF StreamsInv, OwnInv, FilesType
  <2>3. type = "stream2" =>
          \A g \in Files : files'[g].by = "program" => files'[g].closedBy # "appender"
    BY <1>1, <2>1 DEF StreamsInv, ClosedByOwner
  <2> QED
    BY <2>2, <2>3 DEF ClosedByOwner
<1> QED
  BY <1>1, <1>3, <1>4, <1>5, <1>6, <1>7 DEF StreamsInv

LEMMA FaultStreams ==
  ASSUME StreamsInv, Fault("closed"), fp \in Files, files[fp].open = 0 PROVE StreamsInv'
<1>1. FaultsHaveCause'
  BY DEF Fault, own, StreamsInv, NeedInv, Cause, FaultsHaveCause
<1> QED
  BY <1>1, SameOrder DEF Fault, own, StreamsInv, TypeInv, NeedInv, Cause, BitInv, OwnInv,
    ClosedByOwner

LEMMA StreamCloseStreams ==
  ASSUME StreamsInv, NEW next \in {"idle", "gone"}, StreamClose(next) PROVE StreamsInv'
<1> USE FilesAreNumbers
<1>1. CASE fp \in {Null, Stderr}
  <2>1. \A f \in Files : "taken" \notin did =>
          ~(files[f].by = "appender" /\ files[f].open = 1)
    BY <1>1 DEF StreamsInv, OwnInv
  <2>2. \A f \in Files : "taken" \notin did => (files[f].by = "appender" => files[f].open = 0)
    BY <2>1 DEF StreamsInv, TypeInv, FilesType
  <2>3. OwnInv' /\ ClosedByOwner'
    BY <1>1, <2>1, <2>2 DEF StreamClose, NoFclose, OwnInv, ClosedByOwner
  <2> QED
    BY <1>1, <2>3, SameOrder DEF StreamClose, NoFclose, Runs, StreamsInv, TypeInv, NeedInv,
      Cause, BitInv, FaultsHaveCause
<1>2. CASE fp \notin {Null, Stderr}
  <2>1. fp \in Files
    BY <1>2 DEF StreamsInv, TypeInv
  <2>2. CASE Usable(fp)
    BY <1>2, <2>1, <2>2, FcloseStreams DEF StreamClose, Runs
  <2>3. CASE ~Usable(fp)
    <3>1. files[fp].open = 0
      BY <2>1, <2>3 DEF Usable, StreamsInv, TypeInv, FilesType
    <3> QED
      BY <1>2, <2>1, <2>3, <3>1, FaultStreams DEF StreamClose
  <2> QED
    BY <2>2, <2>3
<1> QED
  BY <1>1, <1>2

LEMMA Stream2CloseStreams ==
  ASSUME StreamsInv, NEW next \in {"idle", "gone"}, Stream2Close(next) PROVE StreamsInv'
<1> USE FilesAreNumbers
<1>1. CASE udata = 0 \/ ~(fp # Null /\ state = STREAM2_MY_FP)
  <2>1. state # STREAM2_MY_FP /\ type = "stream2"
    BY <1>1 DEF Stream2Close, StreamsInv, BitInv
  <2>2. \A f \in Files : "taken" \notin did =>
          ~(files[f].by = "appender" /\ files[f].open = 1)
    BY <2>1 DEF StreamsInv, OwnInv
  <2>3. \A f \in Files : "taken" \notin did => (files[f].by = "appender" => files[f].open = 0)
    BY <2>2 DEF StreamsInv, TypeInv, FilesType
  <2>4. /\ files' = files /\ type' = type /\ fault' = fault /\ fault = "none"
        /\ pc = "idle" /\ pc' = next /\ isopen = 1 /\ did \subseteq did'
        /\ "taken" \in did' <=> "taken" \in did
    BY <1>1 DEF Stream2Close, NoFclose, Runs
  <2>5. OwnInv' /\ ClosedByOwner'
    BY <2>2, <2>3, <2>4 DEF StreamsInv, OwnInv, ClosedByOwner
  <2>6. CASE udata = 0
    BY <2>5, <2>6, SameOrder DEF Stream2Close, own, Runs, StreamsInv, TypeInv, NeedInv, Cause,
      BitInv, FaultsHaveCause
  <2>7. CASE udata # 0
    BY <1>1, <2>5, <2>7, SameOrder DEF Stream2Close, NoFclose, Forget, own, Runs, StreamsInv,
      TypeInv, NeedInv, Cause, BitInv, FaultsHaveCause
  <2> QED
    BY <2>6, <2>7
<1>2. CASE udata # 0 /\ fp # Null /\ state = STREAM2_MY_FP
  <2>1. fp \in Files
    BY <1>2 DEF StreamsInv, BitInv
  <2>2. CASE Usable(fp)
    BY <1>2, <2>1, <2>2, FcloseStreams DEF Stream2Close, Runs
  <2>3. CASE ~Usable(fp)
    <3>1. files[fp].open = 0
      BY <2>1, <2>3 DEF Usable, StreamsInv, TypeInv, FilesType
    <3> QED
      BY <1>2, <2>1, <2>3, <3>1, FaultStreams DEF Stream2Close
  <2> QED
    BY <2>2, <2>3
<1> QED
  BY <1>1, <1>2

LEMMA GoneStreams ==
  ASSUME StreamsInv, Runs, pc = "idle", isopen = 0, pc' = "gone",
         UNCHANGED <<type, own, files, fault, did>>
  PROVE  StreamsInv'
<1>1. \A f \in Files : "taken" \notin did => (files[f].by = "appender" => files[f].open = 0)
  BY DEF StreamsInv, OwnInv, TypeInv, FilesType
<1>2. ClosedByOwner'
  BY <1>1 DEF StreamsInv, ClosedByOwner
<1>3. OwnInv'
  BY <1>1 DEF OwnInv
<1> QED
  BY <1>2, <1>3, SameOrder DEF own, StreamsInv, TypeInv, NeedInv, Cause, BitInv,
    FaultsHaveCause

LEMMA ProgramStreams ==
  ASSUME StreamsInv, Program PROVE StreamsInv'
<1> USE FilesAreNumbers
<1>1. CASE ProgramOpen
  <2>1. PICK f \in Files : Next1(f) /\ files' = Opens(f, "program")
    BY <1>1 DEF ProgramOpen
  <2>2. /\ files[f].by = "none" /\ files' \in FilesType /\ OrderInv'
        /\ files'[f].by = "program" /\ files'[f].open = 1 /\ files'[f].closedBy = "none"
        /\ \A g \in Files : g # f => files'[g] = files[g]
    BY <2>1, Opened DEF StreamsInv
  <2>3. UNCHANGED <<type, own, pc, fault, did>>
    BY <1>1 DEF ProgramOpen
  <2>4. TypeInv' /\ NeedInv' /\ BitInv' /\ FaultsHaveCause'
    BY <2>2, <2>3 DEF own, StreamsInv, TypeInv, NeedInv, Cause, BitInv, FaultsHaveCause
  <2>5. OwnInv'
    BY <2>2, <2>3 DEF own, StreamsInv, OwnInv
  <2>6. ClosedByOwner'
    BY <2>2, <2>3 DEF own, StreamsInv, ClosedByOwner
  <2> QED
    BY <2>2, <2>4, <2>5, <2>6 DEF StreamsInv
<1>2. ASSUME NEW f \in Files, ProgramClose(f) PROVE StreamsInv'
  <2>1. /\ files' \in FilesType /\ OrderInv'
        /\ files'[f].by = files[f].by /\ files'[f].open = 0 /\ files'[f].closedBy = "program"
        /\ \A g \in Files : g # f => files'[g] = files[g]
    BY <1>2, Closed DEF ProgramClose, StreamsInv
  <2>2. /\ files[f].by = "program" /\ UNCHANGED <<type, own, pc, fault>>
        /\ did' = (IF fp = f THEN did \cup {"withdrawn"} ELSE did)
    BY <1>2 DEF ProgramClose
  <2>3. TypeInv' /\ NeedInv' /\ BitInv' /\ FaultsHaveCause'
    BY <2>1, <2>2 DEF own, StreamsInv, TypeInv, NeedInv, Cause, BitInv, FaultsHaveCause
  <2>4. OwnInv'
    BY <2>1, <2>2 DEF own, StreamsInv, OwnInv
  <2>5. ClosedByOwner'
    BY <2>1, <2>2 DEF own, StreamsInv, ClosedByOwner
  <2> QED
    BY <2>1, <2>3, <2>4, <2>5 DEF StreamsInv
<1>3. ASSUME NEW f \in Files \cup {Stderr}, SetFp(f) PROVE StreamsInv'
  <2>1. /\ fp' = f /\ state' = 0 /\ UNCHANGED <<type, isopen, files, pc, fault>>
        /\ udata' = (IF type = "stream2" THEN 1 ELSE udata) /\ fault = "none" /\ pc = "idle"
        /\ f \in Files => files[f].by = "program" /\ files[f].open = 1
        /\ did' = (IF fp \in Files /\ files[fp].by = "appender" /\ files[fp].open = 1
                   THEN did \cup {"taken"} ELSE did)
    BY <1>3 DEF SetFp, Runs
  <2>2. TypeInv' /\ NeedInv' /\ BitInv' /\ FaultsHaveCause'
    BY <2>1 DEF StreamsInv, TypeInv, NeedInv, Cause, BitInv, FaultsHaveCause
  <2>3. OwnInv'
    BY <2>1 DEF StreamsInv, OwnInv
  <2>4. ClosedByOwner'
    BY <2>1 DEF StreamsInv, ClosedByOwner
  <2> QED
    BY <2>1, <2>2, <2>3, <2>4, SameOrder DEF StreamsInv
<1>4. CASE SetFlags
  BY <1>4, SameOrder DEF SetFlags, Runs, StreamsInv, TypeInv, NeedInv, Cause, BitInv, OwnInv,
    FaultsHaveCause, ClosedByOwner
<1> QED
  BY <1>1, <1>2, <1>3, <1>4 DEF Program

LEMMA NextStreams == StreamsInv /\ [Next]_vars => StreamsInv'
<1> SUFFICES ASSUME StreamsInv, [Next]_vars PROVE StreamsInv'
  OBVIOUS
<1>1. CASE \E next \in {"idle", "write"} : Open(next)
  BY <1>1, OpenStreams
<1>2. CASE AppendOpen \/ Write
  BY <1>2, WriteStreams
<1>3. CASE StreamClose("idle") \/ Stream2Close("idle")
  BY <1>3, StreamCloseStreams, Stream2CloseStreams
<1>4. CASE Delete
  BY <1>4, StreamCloseStreams, Stream2CloseStreams, GoneStreams DEF Delete
<1>5. CASE Program
  BY <1>5, ProgramStreams
<1>6. CASE UNCHANGED vars
  BY <1>6, SameOrder DEF vars, own, StreamsInv, TypeInv, NeedInv, Cause, BitInv, OwnInv,
    FaultsHaveCause, ClosedByOwner
<1> QED
  BY <1>1, <1>2, <1>3, <1>4, <1>5, <1>6 DEF Next, Appender

(* stream and stream2: a FILE that is closed, or none, is only used after   *)
(* what the program or an fclose that failed did, and a stream2 appender    *)
(* that drops its messages had such an fclose.                              *)
THEOREM CausesKnown == Spec => []FaultsHaveCause
<1>1. StreamsInv => FaultsHaveCause
  BY DEF StreamsInv
<1> QED
  BY <1>1, InitStreams, NextStreams, PTL DEF Spec

(* stream2_close never closes a FILE that the program gave it, and neither  *)
(* type leaves one of its own open when the appender is deleted, unless the *)
(* program had put another in its place.                                    *)
THEOREM OwnersClose == Spec => []ClosedByOwner
<1>1. StreamsInv => ClosedByOwner
  BY DEF StreamsInv
<1> QED
  BY <1>1, InitStreams, NextStreams, PTL DEF Spec

-----------------------------------------------------------------------------
\* Remainders.
LEMMA Quotient ==
  ASSUME NEW d \in Nat \ {0}, NEW a \in Nat
  PROVE  a \div d \in Nat /\ a % d \in 0..d-1 /\ a = d * (a \div d) + (a % d)
OBVIOUS

LEMMA Remainder ==
  ASSUME NEW d \in Nat \ {0}, NEW q \in Nat, NEW r \in 0..d-1
  PROVE  (d * q + r) % d = r
OBVIOUS

LEMMA AddMultiple ==
  ASSUME NEW d \in Nat \ {0}, NEW a \in Nat, NEW m \in Nat
  PROVE  (a + d * m) % d = a % d
<1> DEFINE q == a \div d
           r == a % d
<1>1. q \in Nat /\ r \in 0..d-1 /\ a = d * q + r
  BY Quotient
<1> HIDE DEF q, r
<1>2. a + d * m = d * (q + m) + r /\ q + m \in Nat
  BY <1>1
<1> QED
  BY <1>1, <1>2, Remainder DEF r

LEMMA SameRemainder ==
  ASSUME NEW d \in Nat \ {0}, NEW a \in Nat, NEW b \in Nat, a <= b, b < a + d, a % d = b % d
  PROVE  a = b
<1> DEFINE q == a \div d
           r == a % d
           p == b \div d
<1>1. q \in Nat /\ r \in 0..d-1 /\ a = d * q + r
  BY Quotient
<1>2. p \in Nat /\ b = d * p + r
  BY Quotient
<1> HIDE DEF q, r, p
<1>3. d * q <= d * p /\ d * p < d * q + d
  BY <1>1, <1>2
<1>4. CASE p <= q
  <2>1. d * p <= d * q
    BY <1>1, <1>2, <1>4
  <2> QED
    BY <2>1, <1>1, <1>2, <1>3
<1>5. CASE p >= q + 1
  <2>1. d * p >= d * (q + 1)
    BY <1>1, <1>2, <1>5
  <2>2. d * (q + 1) = d * q + d
    BY <1>1
  <2> QED
    BY <2>1, <2>2, <1>1, <1>2, <1>3
<1> QED
  BY <1>1, <1>2, <1>4, <1>5

LEMMA AddSame ==
  ASSUME NEW d \in Nat \ {0}, NEW a \in Nat, NEW b \in Nat, NEW n \in Nat, a % d = b % d
  PROVE  (a + n) % d = (b + n) % d
<1> DEFINE q == a \div d
           r == a % d
           p == b \div d
<1>1. q \in Nat /\ r \in 0..d-1 /\ a = d * q + r
  BY Quotient
<1>2. p \in Nat /\ b = d * p + r
  BY Quotient
<1> HIDE DEF q, r, p
<1>3. a + n = (r + n) + d * q /\ b + n = (r + n) + d * p /\ r + n \in Nat
  BY <1>1, <1>2
<1>4. ((r + n) + d * q) % d = (r + n) % d
  BY <1>1, <1>3, AddMultiple
<1>5. ((r + n) + d * p) % d = (r + n) % d
  BY <1>2, <1>3, AddMultiple
<1> QED
  BY <1>3, <1>4, <1>5

\* The cell of the mapping that the a-th character belongs to.
Cell(a) == a % MAPPED

LEMMA Mapped == MAPPED \in Nat /\ MAPPED > 0 /\ MAPPED \in Nat \ {0}
BY MessageAssumption

LEMMA CellOnce ==
  ASSUME NEW a \in Nat, NEW b \in Nat, a <= b, b < a + MAPPED, Cell(a) = Cell(b)
  PROVE  a = b
BY Mapped, SameRemainder DEF Cell

LEMMA CellAdd ==
  ASSUME NEW a \in Nat, NEW b \in Nat, NEW n \in Nat, Cell(a) = Cell(b)
  PROVE  Cell(a + n) = Cell(b + n)
BY Mapped, AddSame DEF Cell

LEMMA CellAround ==
  ASSUME NEW a \in Nat, NEW m \in Nat
  PROVE  Cell(a + MAPPED * m) = Cell(a)
BY Mapped, AddMultiple DEF Cell

LEMMA CellEnd == Cell(MAPPED) = Cell(0)
<1>1. Cell(0 + MAPPED * 1) = Cell(0)
  BY CellAround
<1>2. 0 + MAPPED * 1 = MAPPED
  BY Mapped
<1> QED
  BY <1>1, <1>2

-----------------------------------------------------------------------------
Char == (Threads \X Nat \X Nat) \cup {".", "?"}

\* cells hold the last of the characters s, each where it belongs.
Ring(cells, s) ==
  /\ cells \in [1..MAPPED -> Char \cup {Nothing}] /\ s \in Seq(Char)
  /\ \A c \in 1..MAPPED :
       /\ Len(s) < c => cells[c] = Nothing
       /\ \A k \in 1..Len(s) :
            Cell(k) = Cell(c) /\ Len(s) < k + MAPPED => cells[c] = s[k]

LEMMA PutCells ==
  ASSUME NEW cells \in [1..MAPPED -> Char \cup {Nothing}], NEW s \in Seq(Char), NEW at \in Nat,
         at + Len(s) <= MAPPED
  PROVE  /\ Put(cells, at, s) \in [1..MAPPED -> Char \cup {Nothing}]
         /\ \A j \in 1..Len(s) : Put(cells, at, s)[at + j] = s[j]
         /\ \A c \in 1..MAPPED : (~ \E j \in 1..Len(s) : c = at + j) => Put(cells, at, s)[c] = cells[c]
<1> USE Mapped
<1>1. \A c \in 1..MAPPED : c \in at + 1..at + Len(s) => c - at \in 1..Len(s) /\ c = at + (c - at)
  OBVIOUS
<1>2. \A j \in 1..Len(s) : at + j \in 1..MAPPED /\ at + j \in at + 1..at + Len(s) /\ (at + j) - at = j
  OBVIOUS
<1>3. \A c \in 1..MAPPED : Put(cells, at, s)[c] = IF c \in at + 1..at + Len(s) THEN s[c - at] ELSE cells[c]
  BY DEF Put
<1>4. Put(cells, at, s) \in [1..MAPPED -> Char \cup {Nothing}]
  BY <1>1 DEF Put
<1> QED
  BY <1>1, <1>2, <1>3, <1>4

\* A part of a line that ends before the end of the mapping does.
LEMMA RingStep ==
  ASSUME NEW cells, NEW f, Ring(cells, f), NEW s \in Seq(Char), NEW at \in Nat,
         at + Len(s) <= MAPPED, Cell(at) = Cell(Len(f))
  PROVE  /\ Ring(Put(cells, at, s), f \o s)
         /\ Cell(at + Len(s)) = Cell(Len(f \o s))
<1> DEFINE n == Len(f)
           g == f \o s
           new == Put(cells, at, s)
<1> USE Mapped
<1>1. /\ n \in Nat /\ Len(s) \in Nat /\ g \in Seq(Char) /\ Len(g) = n + Len(s)
      /\ \A k \in 1..n : g[k] = f[k]
      /\ \A j \in 1..Len(s) : g[n + j] = s[j]
  <2>1. f \in Seq(Char)
    BY DEF Ring
  <2> QED
    BY <2>1, ConcatProperties
<1>2. /\ new \in [1..MAPPED -> Char \cup {Nothing}]
      /\ \A j \in 1..Len(s) : new[at + j] = s[j]
      /\ \A c \in 1..MAPPED : (~ \E j \in 1..Len(s) : c = at + j) => new[c] = cells[c]
  BY PutCells DEF Ring
<1>3. \A j \in Nat : Cell(at + j) = Cell(n + j)
  BY <1>1, CellAdd
<1> HIDE DEF g, new
<1>4. ASSUME NEW c \in 1..MAPPED PROVE Len(g) < c => new[c] = Nothing
  <2> SUFFICES ASSUME Len(g) < c PROVE new[c] = Nothing
    OBVIOUS
  <2>1. ASSUME NEW j \in 1..Len(s), c = at + j PROVE FALSE
    <3>1. n + j \in Nat /\ n + j <= c /\ c < n + j + MAPPED /\ Cell(n + j) = Cell(c)
      BY <1>1, <1>3, <2>1
    <3>2. n + j = c
      BY <3>1, CellOnce
    <3> QED
      BY <3>2, <1>1
  <2>2. Len(f) < c
    BY <1>1
  <2>3. cells[c] = Nothing
    BY <2>2 DEF Ring
  <2> QED
    BY <1>2, <2>1, <2>3
<1>5. ASSUME NEW c \in 1..MAPPED, NEW k \in 1..Len(g), Cell(k) = Cell(c), Len(g) < k + MAPPED
      PROVE  new[c] = g[k]
  <2>1. CASE k <= n
    <3>1. ASSUME NEW j \in 1..Len(s), c = at + j PROVE FALSE
      <4>1. n + j \in Nat /\ k <= n + j /\ n + j < k + MAPPED /\ Cell(n + j) = Cell(k)
        BY <1>1, <1>3, <1>5, <2>1, <3>1
      <4>2. k \in Nat
        BY <1>1
      <4>3. k = n + j
        BY <4>1, <4>2, CellOnce
      <4> QED
        BY <4>3, <1>1, <2>1
    <3>2. k \in 1..n /\ n < k + MAPPED
      BY <1>1, <1>5, <2>1
    <3>3. cells[c] = f[k]
      BY <3>2, <1>5 DEF Ring
    <3> QED
      BY <1>1, <1>2, <3>1, <3>2, <3>3
  <2>2. CASE k > n
    <3>1. PICK j \in 1..Len(s) : k = n + j
      <4>1. k - n \in 1..Len(s) /\ k = n + (k - n)
        BY <1>1, <2>2
      <4> QED
        BY <4>1
    <3>2. at + j \in 1..MAPPED
      BY <1>1
    <3>4. Cell(at + j) = Cell(c)
      <4>1. Cell(at + j) = Cell(n + j)
        BY <1>1, <1>3
      <4> QED
        BY <4>1, <1>5, <3>1
    <3>3. at + j = c
      <4>1. CASE at + j <= c
        <5>1. c < at + j + MAPPED
          BY <3>2
        <5> QED
          BY <3>2, <3>4, <4>1, <5>1, CellOnce
      <4>2. CASE c <= at + j
        <5>1. at + j < c + MAPPED
          BY <3>2
        <5> QED
          BY <3>2, <3>4, <4>2, <5>1, CellOnce
      <4> QED
        BY <3>2, <4>1, <4>2
    <3> QED
      BY <1>1, <1>2, <3>1, <3>3
  <2> QED
    BY <1>1, <2>1, <2>2
<1>6. Ring(new, g)
  BY <1>1, <1>2, <1>4, <1>5 DEF Ring
<1>7. Cell(at + Len(s)) = Cell(Len(g))
  BY <1>1, <1>3
<1> QED
  BY <1>6, <1>7 DEF g, new

\* What the property says of it.
LEMMA RingIsLast ==
  ASSUME NEW cells, NEW f, Ring(cells, f), NEW c \in 1..MAPPED
  PROVE  LET at == {k \in DOMAIN f : k % MAPPED = c % MAPPED}
         IN  cells[c] = IF at = {} THEN Nothing ELSE f[Max(at)]
<1> DEFINE n == Len(f)
           at == {k \in DOMAIN f : k % MAPPED = c % MAPPED}
<1> USE Mapped
<1>0. at = {k \in DOMAIN f : Cell(k) = Cell(c)}
  BY DEF Cell
<1> HIDE DEF at
<1>1. f \in Seq(Char) /\ n \in Nat /\ DOMAIN f = 1..n
  BY DEF Ring
<1> HIDE DEF n
<1>2. CASE n < c
  <2>1. ASSUME NEW k \in at PROVE FALSE
    <3>1. k \in DOMAIN f /\ Cell(k) = Cell(c)
      BY <1>0
    <3>2. k \in 1..n /\ k \in Nat /\ c \in Nat /\ k <= c /\ c < k + MAPPED
      BY <1>1, <1>2, <3>1
    <3>3. k = c
      BY <3>1, <3>2, CellOnce
    <3> QED
      BY <1>1, <1>2, <3>2, <3>3
  <2>2. at = {}
    BY <2>1
  <2>3. cells[c] = Nothing
    BY <1>2 DEF Ring, n
  <2> QED
    BY <2>2, <2>3 DEF at
<1>3. CASE c <= n
  <2> DEFINE q == (n - c) \div MAPPED
             r == (n - c) % MAPPED
             k == n - r
  <2>1. q \in Nat /\ r \in 0..MAPPED-1 /\ n - c = MAPPED * q + r
    <3>1. n - c \in Nat
      BY <1>1, <1>3
    <3> QED
      BY <3>1, Quotient, MAPPED \in Nat \ {0}
  <2> HIDE DEF q, r
  <2>2. k = c + MAPPED * q /\ MAPPED * q \in Nat
    BY <1>1, <2>1
  <2>3. Cell(k) = Cell(c)
    BY <2>1, <2>2, CellAround
  <2>4. k \in 1..n /\ n < k + MAPPED
    BY <1>1, <2>1, <2>2
  <2> HIDE DEF k
  <2>5. k \in at
    BY <1>0, <1>1, <2>3, <2>4
  <2>6. ASSUME NEW m \in at PROVE k >= m
    <3>1. m \in 1..n /\ Cell(m) = Cell(c)
      BY <1>0, <1>1
    <3>2. m \in Nat /\ k \in Nat /\ m < k + MAPPED
      BY <1>1, <2>4, <3>1
    <3>3. k <= m => k = m
      BY <2>3, <3>1, <3>2, CellOnce
    <3> QED
      BY <3>2, <3>3
  <2>7. \A x \in at : (\A y \in at : x >= y) => x = k
    <3>1. \A x \in at : x \in Nat
      BY <1>0, <1>1
    <3> QED
      BY <3>1, <2>5, <2>6
  <2>8. Max(at) = k
    BY <2>5, <2>6, <2>7 DEF Max
  <2>9. cells[c] = f[k]
    BY <2>3, <2>4 DEF Ring, n
  <2> QED
    BY <2>5, <2>8, <2>9 DEF at
<1> QED
  BY <1>1, <1>2, <1>3

-----------------------------------------------------------------------------
\* Lines and parts of them.
Event == [thread : Threads, number : Nat, asked : Nat, priority : Int, len : Nat]

LEMMA MinTwo ==
  ASSUME NEW a \in Int, NEW b \in Int
  PROVE  Min({a, b}) = IF a < b THEN a ELSE b
<1> DEFINE m == IF a < b THEN a ELSE b
<1>1. m \in {a, b} /\ \A y \in {a, b} : m <= y
  OBVIOUS
<1>2. \A x \in {a, b} : (\A y \in {a, b} : x <= y) => x = m
  OBVIOUS
<1> HIDE DEF m
<1>3. Min({a, b}) = m
  BY <1>1, <1>2 DEF Min
<1> QED
  BY <1>3 DEF m

LEMMA FirstOfFacts ==
  ASSUME NEW S, NEW s \in Seq(S), NEW n \in Nat
  PROVE  /\ FirstOf(s, n) \in Seq(S)
         /\ Len(FirstOf(s, n)) = IF n < Len(s) THEN n ELSE Len(s)
         /\ \A j \in 1..Len(FirstOf(s, n)) : FirstOf(s, n)[j] = s[j]
<1> DEFINE m == IF n < Len(s) THEN n ELSE Len(s)
<1>1. Len(s) \in Nat /\ m \in Nat /\ m <= Len(s)
  OBVIOUS
<1>2. Min({n, Len(s)}) = m
  BY <1>1, MinTwo
<1> HIDE DEF m
<1>3. \A j \in 1..m : s[j] \in S
  BY <1>1
<1>4. /\ SubSeq(s, 1, m) \in Seq(S)
      /\ Len(SubSeq(s, 1, m)) = m
      /\ \A j \in 1..m : SubSeq(s, 1, m)[j] = s[j]
  <2>1. /\ SubSeq(s, 1, m) \in Seq(S)
        /\ Len(SubSeq(s, 1, m)) = IF 1 <= m THEN m - 1 + 1 ELSE 0
        /\ \A j \in 1..m - 1 + 1 : SubSeq(s, 1, m)[j] = s[1 + j - 1]
    BY <1>1, <1>3, SubSeqProperties
  <2> QED
    BY <1>1, <2>1
<1> QED
  BY <1>2, <1>4 DEF FirstOf, m

LEMMA LineFacts ==
  ASSUME NEW e \in Event, NEW n \in Nat
  PROVE  /\ LineOf(e, n) \in Seq(Char)
         /\ Len(LineOf(e, n)) = Header + n + 1
         /\ \A j \in 1..Header + n : LineOf(e, n)[j] = <<e.thread, e.number, j>>
<1>1. Header \in Nat /\ Header + n + 1 \in Nat
  BY MessageAssumption
<1>2. e.thread \in Threads /\ e.number \in Nat
  BY DEF Event
<1> DEFINE m == Header + n + 1
           c(j) == <<e.thread, e.number, IF j = m THEN 0 ELSE j>>
<1>3. \A j \in 1..m : c(j) \in Char
  BY <1>1, <1>2 DEF Char
<1>4. LineOf(e, n) = [j \in 1..m |-> c(j)]
  BY DEF LineOf, NewLine
<1> HIDE DEF c
<1>5. [j \in 1..m |-> c(j)] \in Seq(Char)
  BY <1>1, <1>3
<1>6. Len([j \in 1..m |-> c(j)]) = m
  BY <1>1
<1>7. \A j \in 1..Header + n : [k \in 1..m |-> c(k)][j] = c(j) /\ c(j) = <<e.thread, e.number, j>>
  BY <1>1 DEF c
<1> QED
  BY <1>4, <1>5, <1>6, <1>7

LEMMA TextFacts ==
  ASSUME NEW e \in Event, NEW n \in Nat
  PROVE  /\ TextOf(e, n) \in Seq(Char)
         /\ Len(TextOf(e, n)) = n
         /\ \A j \in 1..n : TextOf(e, n)[j] = <<e.thread, e.number, Header + j>>
<1> DEFINE s == LineOf(e, n)
<1>1. Header \in Nat
  BY MessageAssumption
<1>2. s \in Seq(Char) /\ Len(s) = Header + n + 1 /\ \A j \in 1..Header + n : s[j] = <<e.thread, e.number, j>>
  BY LineFacts
<1> HIDE DEF s
<1>3. \A j \in Header + 1..Header + n : s[j] \in Char
  BY <1>1, <1>2
<1>4. /\ SubSeq(s, Header + 1, Header + n) \in Seq(Char)
      /\ Len(SubSeq(s, Header + 1, Header + n))
           = IF Header + 1 <= Header + n THEN Header + n - (Header + 1) + 1 ELSE 0
      /\ \A j \in 1..Header + n - (Header + 1) + 1 :
           SubSeq(s, Header + 1, Header + n)[j] = s[Header + 1 + j - 1]
  BY <1>1, <1>3, SubSeqProperties
<1>5. \A j \in 1..n : j \in 1..Header + n - (Header + 1) + 1 /\ Header + 1 + j - 1 = Header + j
                      /\ Header + j \in 1..Header + n
  BY <1>1
<1>6. \A j \in 1..n : SubSeq(s, Header + 1, Header + n)[j] = <<e.thread, e.number, Header + j>>
  BY <1>2, <1>4, <1>5
<1>7. Len(SubSeq(s, Header + 1, Header + n)) = n
  BY <1>1, <1>4
<1> QED
  BY <1>4, <1>6, <1>7 DEF TextOf, s

-----------------------------------------------------------------------------
\* The inductive invariant.
MessageTypes ==
  /\ layout \in {"none", "static", "reentrant"} /\ sink \in {"file", "syslog", "mmap"}
  /\ bufsize \in Nat
  /\ tpc \in [Threads -> {"idle", "render", "append", "store"}]
  /\ evt \in [Threads -> Event]
  /\ shared \in Seq(Char) /\ evt_buffer \in [Threads -> Seq(Char)]
  /\ length \in [Threads -> Nat] /\ available \in [Threads -> 0..MAPPED]
  /\ mapping \in [1..MAPPED -> Char \cup {Nothing}] /\ ptr \in 0..MAPPED
  /\ flow \in Seq(Char)
  /\ mixed \subseteq Threads /\ raced \in BOOLEAN
  /\ broken \in {"none", "args", "underflow", "outside"}

\* What the first buffer leaves of n characters.
Comes(n) == IF bufsize = 0 \/ n < bufsize THEN n ELSE bufsize - 1

LengthsInv == \A t \in Threads : tpc[t] # "idle" => evt[t].len = Comes(evt[t].asked)

RenderInv == broken = "none" =>
  \A t \in Threads \ mixed : tpc[t] \in {"append", "store"} => Faithful(evt[t], Rendered(t))

WrittenInv ==
  \A r \in written :
    /\ r.whose = "own" => Faithful(r.evt, r.line)
    /\ r.level # -1 /\ r.evt.priority >= 0 /\ r.evt.priority % 100 # 99 =>
         r.level = Min({7, log4c_priority_to_string(r.evt.priority)})

CausesInv ==
  /\ mixed # {} => layout = "static"
  /\ broken = "args" => bufsize = 0
  /\ broken = "underflow" => layout = "reentrant" /\ bufsize \in 1..3

\* One thread at most has measured, and the pointer is where it was then.
RingInv == ~ raced =>
  /\ Ring(mapping, flow) /\ Cell(ptr) = Cell(Len(flow))
  /\ \A t \in Threads : tpc[t] = "store" =>
       /\ available[t] = MAPPED - ptr
       /\ \A u \in Threads : tpc[u] = "store" => u = t
  /\ broken = "outside" => \E t \in Threads : length[t] > available[t] + MAPPED

MessageInv ==
  MessageTypes /\ LengthsInv /\ RenderInv /\ WrittenInv /\ CausesInv /\ RingInv

-----------------------------------------------------------------------------
\* What a layout hands on is faithful to what was asked.
LEMMA ComesFacts ==
  ASSUME bufsize \in Nat, NEW a \in Nat
  PROVE  /\ Comes(a) \in Nat /\ Comes(a) <= a
         /\ Comes(a) # a => bufsize > 0 /\ a >= bufsize /\ Comes(a) = bufsize - 1
BY DEF Comes

LEMMA FormattedLength ==
  ASSUME bufsize \in Nat, NEW n \in Nat
  PROVE  (IF bufsize = 0 THEN n ELSE Min({n, bufsize - 1})) = Comes(n)
<1>1. CASE bufsize = 0
  BY <1>1 DEF Comes
<1>2. CASE bufsize > 0
  <2>1. Min({n, bufsize - 1}) = IF n < bufsize - 1 THEN n ELSE bufsize - 1
    BY MinTwo
  <2> QED
    BY <1>2, <2>1 DEF Comes
<1> QED
  BY <1>1, <1>2

LEMMA KeptLength ==
  ASSUME bufsize \in Nat, NEW e \in Event, e.len = Comes(e.asked)
  PROVE  (IF bufsize > 0 /\ e.asked >= bufsize THEN bufsize - 1 ELSE e.asked) = e.len
<1>1. e.asked \in Nat
  BY DEF Event
<1> QED
  BY <1>1 DEF Comes

LEMMA TextFaithful ==
  ASSUME bufsize \in Nat, layout = "none", NEW e \in Event, e.len = Comes(e.asked)
  PROVE  Faithful(e, TextOf(e, e.len))
BY KeptLength DEF Faithful

LEMMA StaticFaithful ==
  ASSUME bufsize \in Nat, layout = "static", NEW e \in Event, e.len = Comes(e.asked)
  PROVE  Faithful(e, FirstOf(LineOf(e, e.len), STATIC_BUFFER - 1))
<1> DEFINE line == LineOf(e, e.len)
           s == FirstOf(line, STATIC_BUFFER - 1)
<1>1. e.len \in Nat /\ STATIC_BUFFER - 1 \in Nat
  BY MessageAssumption DEF Event
<1>2. line \in Seq(Char) /\ Len(line) \in Nat
  BY <1>1, LineFacts
<1>3. /\ s \in Seq(Char) /\ Len(s) = IF STATIC_BUFFER - 1 < Len(line) THEN STATIC_BUFFER - 1 ELSE Len(line)
      /\ \A j \in 1..Len(s) : s[j] = line[j]
  BY <1>1, <1>2, FirstOfFacts
<1>4. Limit = STATIC_BUFFER - 1
  BY DEF Limit
<1>5. Faithful(e, s) <=> \/ s = line /\ Len(line) <= Limit
                         \/ Len(line) > Limit /\ s = FirstOf(line, Limit - Len(<< >>)) \o << >>
  BY KeptLength DEF Faithful
<1>6. CASE Len(line) <= STATIC_BUFFER - 1
  <2> HIDE DEF s, line
  <2>1. s = line
    BY <1>1, <1>2, <1>3, <1>6, SeqEqual
  <2> QED
    BY <1>4, <1>5, <1>6, <2>1 DEF s, line
<1>7. CASE Len(line) > STATIC_BUFFER - 1
  <2>1. Limit - Len(<< >>) = STATIC_BUFFER - 1
    BY <1>1, <1>4
  <2>2. s \o << >> = s
    <3> HIDE DEF s, line
    <3> QED
      BY <1>3, ConcatEmptySeq
  <2> QED
    BY <1>4, <1>5, <1>7, <2>1, <2>2
<1> QED
  BY <1>1, <1>2, <1>6, <1>7

LEMMA ReentrantFaithful ==
  ASSUME bufsize \in Nat, layout = "reentrant", NEW e \in Event, e.len = Comes(e.asked),
         ~ (Len(LineOf(e, e.len)) >= buf_size /\ buf_size < 4)
  PROVE  Faithful(e, Trimmed(LineOf(e, e.len))) /\ Trimmed(LineOf(e, e.len)) \in Seq(Char)
<1> DEFINE line == LineOf(e, e.len)
           s == Trimmed(line)
<1>1. e.len \in Nat /\ buf_size \in Nat /\ Limit = buf_size - 1
  BY MessageAssumption DEF Event, buf_size, Limit
<1>2. line \in Seq(Char) /\ Len(line) \in Nat
  BY <1>1, LineFacts
<1>3. Faithful(e, s) <=> \/ s = line /\ Len(line) <= Limit
                         \/ Len(line) > Limit /\ s = FirstOf(line, Limit - Len(Dots)) \o Dots
  BY KeptLength DEF Faithful
<1>4. Dots \in Seq(Char) /\ Len(Dots) = 3
  BY DEF Dots, Char
<1>5. CASE Len(line) < buf_size
  <2>1. s = line
    BY <1>5 DEF Trimmed
  <2> QED
    BY <1>1, <1>2, <1>3, <1>5, <2>1
<1>6. CASE Len(line) >= buf_size
  <2>1. s = FirstOf(line, buf_size - 4) \o Dots
    BY <1>1, <1>2, <1>6 DEF Trimmed
  <2>2. Limit - Len(Dots) = buf_size - 4 /\ buf_size - 4 \in Nat
    BY <1>1, <1>4, <1>6
  <2>3. FirstOf(line, buf_size - 4) \in Seq(Char)
    BY <1>2, <2>2, FirstOfFacts
  <2> HIDE DEF s, line
  <2>4. s \in Seq(Char)
    BY <1>4, <2>1, <2>3, ConcatProperties
  <2>5. Faithful(e, s)
    <3>1. Len(line) > Limit
      BY <1>1, <1>2, <1>6
    <3>2. s = FirstOf(line, Limit - Len(Dots)) \o Dots
      BY <2>1, <2>2
    <3> QED
      BY <1>3, <3>1, <3>2, Zenon
  <2> QED
    BY <2>4, <2>5 DEF s, line
<1> QED
  BY <1>1, <1>2, <1>5, <1>6

-----------------------------------------------------------------------------
\* What a thread hands on is a line, and stays as long as what it is made of.
LEMMA RenderedIsLine ==
  ASSUME MessageTypes, NEW t \in Threads
  PROVE  Rendered(t) \in Seq(Char)
<1>1. shared \in Seq(Char) /\ evt_buffer[t] \in Seq(Char) /\ layout \in {"none", "static", "reentrant"}
  BY DEF MessageTypes
<1>2. TextOf(evt[t], evt[t].len) \in Seq(Char)
  <2>1. evt[t] \in Event /\ evt[t].len \in Nat
    BY DEF MessageTypes, Event
  <2> QED
    BY <2>1, TextFacts
<1>3. CASE layout = "none"
  BY <1>2, <1>3 DEF Rendered
<1>4. CASE layout = "static"
  BY <1>1, <1>4 DEF Rendered
<1>5. CASE layout = "reentrant"
  BY <1>1, <1>5 DEF Rendered
<1> QED
  BY <1>1, <1>3, <1>4, <1>5

LEMMA CopiedFacts ==
  ASSUME MessageTypes, NEW t \in Threads, NEW n \in Nat
  PROVE  Copied(t, n) \in Seq(Char) /\ Len(Copied(t, n)) = n
<1> DEFINE c(j) == IF j <= Len(Rendered(t)) THEN Rendered(t)[j] ELSE "?"
<1>1. \A j \in 1..n : c(j) \in Char
  <2>1. Rendered(t) \in Seq(Char) /\ Len(Rendered(t)) \in Nat
    BY RenderedIsLine
  <2>2. "?" \in Char
    BY DEF Char
  <2> QED
    BY <2>1, <2>2
<1>2. Copied(t, n) = [j \in 1..n |-> c(j)]
  BY DEF Copied
<1> HIDE DEF c
<1>3. [j \in 1..n |-> c(j)] \in Seq(Char) /\ Len([j \in 1..n |-> c(j)]) = n
  BY <1>1
<1> QED
  BY <1>2, <1>3

LEMMA SameFaithful ==
  ASSUME UNCHANGED config
  PROVE  \A e, s : Faithful(e, s)' <=> Faithful(e, s)
BY DEF config, Faithful, Limit, buf_size

LEMMA SameRendered ==
  ASSUME UNCHANGED config, NEW t \in Threads, evt'[t] = evt[t], shared' = shared, evt_buffer'[t] = evt_buffer[t]
  PROVE  Rendered(t)' = Rendered(t)
BY DEF config, Rendered

\* The threads that keep what they had keep it faithful.
LEMMA OthersFaithful ==
  ASSUME RenderInv, UNCHANGED config, broken = "none", NEW u \in Threads, u \notin mixed,
         tpc[u] \in {"append", "store"}, evt'[u] = evt[u], shared' = shared, evt_buffer'[u] = evt_buffer[u]
  PROVE  Faithful(evt[u], Rendered(u))'
<1>1. Faithful(evt[u], Rendered(u))
  BY DEF RenderInv
<1>2. Rendered(u)' = Rendered(u)
  BY SameRendered
<1>3. Faithful(evt[u], Rendered(u))' <=> Faithful(evt[u], Rendered(u))
  <2>1. \A e, s : Faithful(e, s)' <=> Faithful(e, s)
    BY SameFaithful
  <2> QED
    BY <2>1, <1>2
<1> QED
  BY <1>1, <1>3

LEMMA SameWritten ==
  ASSUME WrittenInv, UNCHANGED config, written' = written
  PROVE  WrittenInv'
<1>1. \A e, s : Faithful(e, s)' <=> Faithful(e, s)
  BY SameFaithful
<1> QED
  BY <1>1 DEF WrittenInv

LEMMA SameRing ==
  ASSUME RingInv, UNCHANGED <<mapping, ptr, flow, raced, length, available>>,
         \A t \in Threads : tpc'[t] = "store" => tpc[t] = "store",
         broken' = "outside" => broken = "outside"
  PROVE  RingInv'
BY DEF RingInv, Ring, Cell

-----------------------------------------------------------------------------
LEMMA InitMessage == MessageInit => MessageInv
<1> SUFFICES ASSUME MessageInit PROVE MessageInv
  OBVIOUS
<1> USE Mapped
<1>1. MessageTypes
  <2>1. \A t \in Threads : [thread |-> t, number |-> 0, asked |-> 0, priority |-> 0, len |-> 0] \in Event
    BY DEF Event
  <2>2. evt \in [Threads -> Event] /\ tpc \in [Threads -> {"idle", "render", "append", "store"}]
    BY <2>1 DEF MessageInit
  <2>3. shared \in Seq(Char) /\ evt_buffer \in [Threads -> Seq(Char)] /\ flow \in Seq(Char)
    BY DEF MessageInit
  <2>4. length \in [Threads -> Nat] /\ available \in [Threads -> 0..MAPPED]
    BY DEF MessageInit
  <2>5. mapping \in [1..MAPPED -> Char \cup {Nothing}] /\ ptr \in 0..MAPPED
    BY DEF MessageInit
  <2>6. bufsize \in Nat
    BY MessageAssumption DEF MessageInit
  <2> QED
    BY <2>2, <2>3, <2>4, <2>5, <2>6 DEF MessageTypes, MessageInit
<1>2. \A t \in Threads : tpc[t] = "idle"
  BY DEF MessageInit
<1>3. LengthsInv /\ RenderInv
  BY <1>2 DEF LengthsInv, RenderInv
<1>4. WrittenInv /\ CausesInv
  BY DEF WrittenInv, CausesInv, MessageInit
<1>5. RingInv
  <2>1. Ring(mapping, flow)
    <3>1. flow = << >> /\ Len(flow) = 0 /\ \A c \in 1..MAPPED : mapping[c] = Nothing
      BY DEF MessageInit
    <3> QED
      BY <1>1, <3>1 DEF Ring, MessageTypes
  <2>2. Cell(ptr) = Cell(Len(flow))
    BY DEF MessageInit
  <2>3. broken # "outside"
    BY DEF MessageInit
  <2> QED
    BY <1>2, <2>1, <2>2, <2>3 DEF RingInv
<1> QED
  BY <1>1, <1>3, <1>4, <1>5 DEF MessageInv

LEMMA LogMessage ==
  ASSUME MessageInv, NEW t \in Threads, Log(t)
  PROVE  MessageInv'
<1> USE DEF MessageInv
<1>1. PICK n \in Lengths, p \in IF sink = "syslog" THEN Priorities ELSE {0} :
        /\ evt' = [evt EXCEPT ![t] =
                     [thread |-> t, number |-> evt[t].number + 1, asked |-> n, priority |-> p,
                      len |-> IF bufsize = 0 THEN n ELSE Min({n, bufsize - 1})]]
        /\ broken' = IF bufsize = 0 THEN sd_vsprintf(n) ELSE "none"
  BY DEF Log
<1>2. n \in Nat /\ p \in Int /\ bufsize \in Nat
  BY MessageAssumption DEF MessageTypes
<1>3. (IF bufsize = 0 THEN n ELSE Min({n, bufsize - 1})) = Comes(n) /\ Comes(n) \in Nat
  BY <1>2, FormattedLength, ComesFacts
<1>4. /\ tpc[t] = "idle" /\ broken = "none" /\ tpc' = [tpc EXCEPT ![t] = "render"]
      /\ UNCHANGED <<config, shared, evt_buffer, length, available, file, written, mixed>>
  BY DEF Log
<1>5. UNCHANGED <<layout, sink, bufsize, mapping, ptr, flow, raced>>
  BY <1>4 DEF config, file
<1>6. evt \in [Threads -> Event] /\ tpc \in [Threads -> {"idle", "render", "append", "store"}]
  BY DEF MessageTypes
<1>7. /\ evt'[t] \in Event /\ evt'[t].asked = n /\ evt'[t].len = Comes(n)
      /\ evt' \in [Threads -> Event]
      /\ \A u \in Threads \ {t} : evt'[u] = evt[u]
  <2> DEFINE l == IF bufsize = 0 THEN n ELSE Min({n, bufsize - 1})
             e == [thread |-> t, number |-> evt[t].number + 1, asked |-> n, priority |-> p, len |-> l]
  <2>1. evt' = [evt EXCEPT ![t] = e]
    BY <1>1
  <2>2. e \in Event /\ e.asked = n /\ e.len = Comes(n)
    <3>1. evt[t].number + 1 \in Nat
      BY <1>6 DEF Event
    <3>2. l = Comes(n)
      BY <1>3
    <3> HIDE DEF l
    <3> QED
      BY <1>2, <1>3, <3>1, <3>2 DEF Event
  <2> HIDE DEF e
  <2> QED
    BY <1>6, <2>1, <2>2
<1>8. tpc' \in [Threads -> {"idle", "render", "append", "store"}] /\ tpc'[t] = "render"
      /\ \A u \in Threads \ {t} : tpc'[u] = tpc[u]
  BY <1>4, <1>6
<1>9. broken' \in {"none", "args"} /\ (broken' = "args" => bufsize = 0)
  BY <1>1 DEF sd_vsprintf
<1>10. MessageTypes'
  BY <1>4, <1>5, <1>7, <1>8, <1>9 DEF MessageTypes
<1>11. LengthsInv'
  <2>1. ASSUME NEW u \in Threads, tpc'[u] # "idle"
        PROVE  evt'[u].len = IF bufsize = 0 \/ evt'[u].asked < bufsize THEN evt'[u].asked ELSE bufsize - 1
    <3>1. CASE u = t
      BY <1>7, <3>1 DEF Comes
    <3>2. CASE u # t
      BY <1>7, <1>8, <2>1, <3>2 DEF LengthsInv, Comes
    <3> QED
      BY <3>1, <3>2
  <2> QED
    BY <1>5, <2>1 DEF LengthsInv, Comes
<1>12. RenderInv'
  <2> SUFFICES ASSUME NEW u \in Threads \ mixed', tpc'[u] \in {"append", "store"}
               PROVE  Faithful(evt[u], Rendered(u))'
    BY DEF RenderInv
  <2>1. u # t /\ u \notin mixed /\ tpc[u] \in {"append", "store"}
    BY <1>4, <1>8
  <2> QED
    BY <1>4, <1>7, <2>1, OthersFaithful
<1>13. WrittenInv'
  BY <1>4, SameWritten
<1>14. CausesInv'
  BY <1>4, <1>5, <1>9 DEF CausesInv
<1>15. RingInv'
  <2>1. \A u \in Threads : tpc'[u] = "store" => tpc[u] = "store"
    BY <1>8
  <2> QED
    BY <1>4, <1>5, <1>9, <2>1, SameRing
<1> QED
  BY <1>10, <1>11, <1>12, <1>13, <1>14, <1>15

LEMMA RenderMessage ==
  ASSUME MessageInv, NEW t \in Threads, Render(t)
  PROVE  MessageInv'
<1> USE DEF MessageInv
<1> DEFINE e == evt[t]
           line == LineOf(e, e.len)
<1>1. /\ tpc[t] = "render" /\ broken = "none" /\ tpc' = [tpc EXCEPT ![t] = "append"]
      /\ UNCHANGED <<config, evt, length, available, file, written>>
      /\ \/ layout = "none" /\ UNCHANGED <<shared, evt_buffer, mixed, broken>>
         \/ layout = "static" /\ StaticFormat(t, line)
         \/ layout = "reentrant" /\ ReentrantFormat(t, line)
  BY DEF Render
<1>2. UNCHANGED <<layout, sink, bufsize, mapping, ptr, flow, raced>>
  BY <1>1 DEF config, file
<1>3. /\ evt \in [Threads -> Event] /\ tpc \in [Threads -> {"idle", "render", "append", "store"}]
      /\ bufsize \in Nat /\ e \in Event /\ e.len \in Nat /\ e.asked \in Nat
      /\ shared \in Seq(Char) /\ evt_buffer \in [Threads -> Seq(Char)] /\ mixed \subseteq Threads
  BY DEF MessageTypes, Event
<1>4. e.len = Comes(e.asked)
  BY <1>1 DEF LengthsInv
<1>5. line \in Seq(Char)
  BY <1>3, LineFacts
<1>6. /\ tpc' \in [Threads -> {"idle", "render", "append", "store"}] /\ tpc'[t] = "append"
      /\ \A u \in Threads \ {t} : tpc'[u] = tpc[u]
  BY <1>1, <1>3
<1>7. \A d, s : Faithful(d, s)' <=> Faithful(d, s)
  BY <1>1, SameFaithful
<1>8. LengthsInv'
  BY <1>1, <1>2, <1>4, <1>6 DEF LengthsInv, Comes
<1>9. WrittenInv'
  BY <1>1, SameWritten
<1> HIDE DEF e, line
<1>10. /\ shared' \in Seq(Char) /\ evt_buffer' \in [Threads -> Seq(Char)] /\ mixed' \subseteq Threads
       /\ broken' \in {"none", "underflow"}
       /\ mixed' # {} => layout = "static"
       /\ broken' = "underflow" => layout = "reentrant" /\ bufsize \in 1..3
       /\ broken' = "none" /\ t \notin mixed' => Faithful(e, Rendered(t)')
       /\ \A u \in Threads \ {t} : u \notin mixed' /\ tpc[u] \in {"append", "store"} =>
            u \notin mixed /\ shared' = shared /\ evt_buffer'[u] = evt_buffer[u]
  <2>1. CASE layout = "none"
    <3>1. UNCHANGED <<shared, evt_buffer, mixed, broken>>
      BY <1>1, <2>1
    <3>2. Rendered(t)' = TextOf(e, e.len)
      BY <1>1, <1>2, <2>1 DEF Rendered, e
    <3>3. Faithful(e, TextOf(e, e.len))
      BY <1>3, <1>4, <2>1, TextFaithful
    <3> QED
      BY <1>1, <1>3, <3>1, <3>2, <3>3 DEF CausesInv
  <2>2. CASE layout = "static"
    <3>1. StaticFormat(t, line)
      BY <1>1, <2>2
    <3>2. /\ shared' = FirstOf(line, STATIC_BUFFER - 1) /\ UNCHANGED <<evt_buffer, broken>>
          /\ mixed' = (mixed \ {t}) \cup {u \in Threads \ {t} : tpc[u] \in {"append", "store"}}
      BY <3>1 DEF StaticFormat
    <3>3. shared' \in Seq(Char)
      <4>1. STATIC_BUFFER - 1 \in Nat
        BY MessageAssumption
      <4> QED
        BY <1>5, <3>2, <4>1, FirstOfFacts
    <3>4. Rendered(t)' = FirstOf(line, STATIC_BUFFER - 1)
      BY <1>2, <2>2, <3>2 DEF Rendered
    <3>5. Faithful(e, FirstOf(line, STATIC_BUFFER - 1))
      BY <1>3, <1>4, <2>2, StaticFaithful DEF line
    <3>6. \A u \in Threads \ {t} : u \notin mixed' => tpc[u] \notin {"append", "store"}
      BY <3>2
    <3> QED
      BY <1>1, <1>3, <2>2, <3>2, <3>3, <3>4, <3>5, <3>6
  <2>3. CASE layout = "reentrant"
    <3>1. ReentrantFormat(t, line)
      BY <1>1, <2>3
    <3>2. CASE Len(line) >= buf_size /\ buf_size < 4
      <4>1. broken' = "underflow" /\ UNCHANGED <<evt_buffer, shared, mixed>>
        BY <3>1, <3>2 DEF ReentrantFormat
      <4>2. bufsize \in 1..3
        BY <1>3, <3>2, MessageAssumption DEF buf_size
      <4> QED
        BY <1>3, <2>3, <4>1, <4>2 DEF CausesInv
    <3>3. CASE ~ (Len(line) >= buf_size /\ buf_size < 4)
      <4>1. evt_buffer' = [evt_buffer EXCEPT ![t] = Trimmed(line)] /\ UNCHANGED <<shared, mixed, broken>>
        BY <3>1, <3>3 DEF ReentrantFormat
      <4>2. Faithful(e, Trimmed(line)) /\ Trimmed(line) \in Seq(Char)
        BY <1>3, <1>4, <2>3, <3>3, ReentrantFaithful DEF line
      <4>3. evt_buffer' \in [Threads -> Seq(Char)] /\ evt_buffer'[t] = Trimmed(line)
            /\ \A u \in Threads \ {t} : evt_buffer'[u] = evt_buffer[u]
        BY <1>3, <4>1, <4>2
      <4>4. Rendered(t)' = Trimmed(line)
        BY <1>2, <2>3, <4>3 DEF Rendered
      <4> QED
        BY <1>1, <1>3, <4>1, <4>2, <4>3, <4>4 DEF CausesInv
    <3> QED
      BY <3>2, <3>3
  <2> QED
    BY <2>1, <2>2, <2>3 DEF MessageTypes
<1>11. MessageTypes'
  BY <1>1, <1>2, <1>6, <1>10 DEF MessageTypes
<1>12. RenderInv'
  <2> SUFFICES ASSUME broken' = "none", NEW u \in Threads \ mixed', tpc'[u] \in {"append", "store"}
               PROVE  Faithful(evt[u], Rendered(u))'
    BY DEF RenderInv
  <2>1. CASE u = t
    <3>1. Faithful(e, Rendered(t)')
      BY <1>10, <2>1
    <3>2. evt'[t] = e
      BY <1>1 DEF e
    <3>3. Faithful(e, Rendered(t)') <=> Faithful(evt[t], Rendered(t))'
      BY <1>7, <3>2
    <3> QED
      BY <2>1, <3>1, <3>3
  <2>2. CASE u # t
    <3>1. tpc[u] \in {"append", "store"} /\ u \notin mixed'
      BY <1>6, <2>2
    <3>2. u \notin mixed /\ shared' = shared /\ evt_buffer'[u] = evt_buffer[u]
      BY <1>10, <2>2, <3>1
    <3> QED
      BY <1>1, <3>1, <3>2, OthersFaithful
  <2> QED
    BY <2>1, <2>2
<1>13. CausesInv'
  BY <1>2, <1>10 DEF CausesInv
<1>14. RingInv'
  <2>1. \A u \in Threads : tpc'[u] = "store" => tpc[u] = "store"
    BY <1>6
  <2>2. broken' = "outside" => broken = "outside"
    BY <1>10
  <2> QED
    BY <1>1, <1>2, <2>1, <2>2, SameRing
<1> QED
  BY <1>8, <1>9, <1>11, <1>12, <1>13, <1>14

\* The level of syslog, where the priority is none below a hundred.
LEMMA LevelOfName ==
  ASSUME NEW a \in Nat, a % 100 # 99
  PROVE  log4c_to_syslog_priority(a) = Min({7, log4c_priority_to_string(a)})
<1> DEFINE h == a \div 100
<1>1. h \in Nat /\ (a + 1) \div 100 = h
  OBVIOUS
<1>2. Hundreds(a) = h /\ Hundreds(a + 1) = h
  BY <1>1 DEF Hundreds
<1> HIDE DEF h
<1>3. log4c_priority_to_string(a) = IF h \in 0..10 THEN h ELSE 10
  BY <1>2 DEF log4c_priority_to_string
<1>4. log4c_to_syslog_priority(a) = IF h > 7 THEN 7 ELSE h
  BY <1>1, <1>2 DEF log4c_to_syslog_priority
<1>5. Min({7, log4c_priority_to_string(a)}) = IF h > 7 THEN 7 ELSE h
  <2>1. log4c_priority_to_string(a) \in Int
    BY <1>1, <1>3
  <2>2. Min({7, log4c_priority_to_string(a)})
          = IF 7 < log4c_priority_to_string(a) THEN 7 ELSE log4c_priority_to_string(a)
    BY <2>1, MinTwo
  <2> QED
    BY <1>1, <1>3, <2>2
<1> QED
  BY <1>4, <1>5

LEMMA SyslogLevels == ASSUME NEW a \in Int PROVE log4c_to_syslog_priority(a) \in 0..7
<1>1. Hundreds(a + 1) \in Int
  BY DEF Hundreds
<1> QED
  BY <1>1 DEF log4c_to_syslog_priority

LEMMA Append1Message ==
  ASSUME MessageInv, NEW t \in Threads, Append1(t)
  PROVE  MessageInv'
<1> USE DEF MessageInv
<1> DEFINE whose == IF t \in mixed THEN "mixed" ELSE "own"
           level == IF sink = "syslog" THEN log4c_to_syslog_priority(evt[t].priority) ELSE -1
           r == [evt |-> evt[t], line |-> Rendered(t), whose |-> whose, level |-> level]
<1>1. /\ tpc[t] = "append" /\ broken = "none" /\ written' = {r}
      /\ tpc' = [tpc EXCEPT ![t] = "idle"] /\ mixed' = mixed \ {t}
      /\ UNCHANGED <<config, evt, shared, evt_buffer, length, available, file, broken>>
  BY DEF Append1
<1>2. UNCHANGED <<layout, sink, bufsize, mapping, ptr, flow, raced>>
  BY <1>1 DEF config, file
<1>3. /\ tpc' \in [Threads -> {"idle", "render", "append", "store"}] /\ tpc'[t] = "idle"
      /\ \A u \in Threads \ {t} : tpc'[u] = tpc[u]
  BY <1>1 DEF MessageTypes
<1>4. r.evt = evt[t] /\ r.line = Rendered(t) /\ r.whose = whose /\ r.level = level
  OBVIOUS
<1> HIDE DEF r
<1>5. MessageTypes'
  BY <1>1, <1>2, <1>3 DEF MessageTypes
<1>6. LengthsInv'
  BY <1>1, <1>2, <1>3 DEF LengthsInv, Comes
<1>7. RenderInv'
  <2> SUFFICES ASSUME NEW u \in Threads \ mixed', tpc'[u] \in {"append", "store"}
               PROVE  Faithful(evt[u], Rendered(u))'
    BY DEF RenderInv
  <2>1. u # t
    BY <1>3
  <2>2. u \notin mixed /\ tpc[u] \in {"append", "store"}
    BY <1>1, <1>3, <2>1
  <2> QED
    BY <1>1, <2>2, OthersFaithful
<1>8. WrittenInv'
  <2>1. \A e, s : Faithful(e, s)' <=> Faithful(e, s)
    BY <1>1, SameFaithful
  <2>2. whose = "own" => Faithful(evt[t], Rendered(t))
    BY <1>1 DEF RenderInv
  <2>3. level # -1 /\ evt[t].priority >= 0 /\ evt[t].priority % 100 # 99 =>
          level = Min({7, log4c_priority_to_string(evt[t].priority)})
    <3> SUFFICES ASSUME level # -1, evt[t].priority >= 0, evt[t].priority % 100 # 99
                 PROVE  level = Min({7, log4c_priority_to_string(evt[t].priority)})
      OBVIOUS
    <3>1. evt[t].priority \in Nat
      BY DEF MessageTypes, Event
    <3>2. level = log4c_to_syslog_priority(evt[t].priority)
      OBVIOUS
    <3> HIDE DEF level
    <3> QED
      BY <3>1, <3>2, LevelOfName
  <2> HIDE DEF whose, level
  <2>4. \A x \in written' : x = r
    BY <1>1
  <2> QED
    BY <1>4, <2>1, <2>2, <2>3, <2>4 DEF WrittenInv
<1>9. CausesInv'
  BY <1>1, <1>2 DEF CausesInv
<1>10. RingInv'
  <2>1. \A u \in Threads : tpc'[u] = "store" => tpc[u] = "store"
    BY <1>3
  <2> QED
    BY <1>1, <1>2, <2>1, SameRing
<1> QED
  BY <1>5, <1>6, <1>7, <1>8, <1>9, <1>10

LEMMA MmapMeasureMessage ==
  ASSUME MessageInv, NEW t \in Threads, MmapMeasure(t)
  PROVE  MessageInv'
<1> USE DEF MessageInv
<1>1. /\ tpc[t] = "append" /\ broken = "none" /\ tpc' = [tpc EXCEPT ![t] = "store"]
      /\ length' = [length EXCEPT ![t] = Len(Rendered(t))]
      /\ available' = [available EXCEPT ![t] = MAPPED - ptr]
      /\ raced' = (raced \/ \E u \in Threads \ {t} : tpc[u] = "store")
      /\ UNCHANGED <<config, evt, shared, evt_buffer, mapping, ptr, flow, written, mixed, broken>>
  BY DEF MmapMeasure
<1>2. UNCHANGED <<layout, sink, bufsize>>
  BY <1>1 DEF config
<1>3. /\ tpc' \in [Threads -> {"idle", "render", "append", "store"}] /\ tpc'[t] = "store"
      /\ \A u \in Threads \ {t} : tpc'[u] = tpc[u]
  BY <1>1 DEF MessageTypes
<1>4. length' \in [Threads -> Nat] /\ available' \in [Threads -> 0..MAPPED] /\ available'[t] = MAPPED - ptr
  <2>1. Len(Rendered(t)) \in Nat
    BY RenderedIsLine
  <2>2. MAPPED - ptr \in 0..MAPPED
    BY Mapped DEF MessageTypes
  <2> QED
    BY <1>1, <2>1, <2>2 DEF MessageTypes
<1>5. MessageTypes'
  <2>1. raced' \in BOOLEAN
    BY <1>1 DEF MessageTypes
  <2> QED
    BY <1>1, <1>2, <1>3, <1>4, <2>1 DEF MessageTypes
<1>6. LengthsInv'
  BY <1>1, <1>2, <1>3 DEF LengthsInv, Comes
<1>7. RenderInv'
  <2> SUFFICES ASSUME NEW u \in Threads \ mixed', tpc'[u] \in {"append", "store"}
               PROVE  Faithful(evt[u], Rendered(u))'
    BY DEF RenderInv
  <2>1. u \notin mixed /\ tpc[u] \in {"append", "store"}
    BY <1>1, <1>3
  <2> QED
    BY <1>1, <2>1, OthersFaithful
<1>8. WrittenInv'
  BY <1>1, SameWritten
<1>9. CausesInv'
  BY <1>1, <1>2 DEF CausesInv
<1>10. RingInv'
  <2> SUFFICES ASSUME ~ raced' PROVE RingInv'
    BY DEF RingInv
  <2>1. ~ raced /\ \A u \in Threads \ {t} : tpc[u] # "store"
    BY <1>1
  <2>2. Ring(mapping, flow) /\ Cell(ptr) = Cell(Len(flow))
    BY <2>1 DEF RingInv
  <2>3. Ring(mapping, flow)' /\ (Cell(ptr) = Cell(Len(flow)))'
    BY <1>1, <2>2 DEF Ring, Cell
  <2>4. \A u \in Threads : tpc'[u] = "store" => u = t
    BY <1>3, <2>1
  <2>5. (available[t] = MAPPED - ptr)'
    BY <1>1, <1>4
  <2>6. broken' # "outside"
    BY <1>1
  <2> QED
    BY <2>3, <2>4, <2>5, <2>6 DEF RingInv
<1> QED
  BY <1>5, <1>6, <1>7, <1>8, <1>9, <1>10

LEMMA MmapStoreMessage ==
  ASSUME MessageInv, NEW t \in Threads, MmapStore(t)
  PROVE  MessageInv'
<1> USE DEF MessageInv
<1> DEFINE wraps  == length[t] > available[t]
           first  == IF wraps THEN available[t] ELSE 0
           second == length[t] - first
           at     == IF wraps THEN 0 ELSE ptr
           one    == Copied(t, first)
           two    == Copied(t, second)
           out    == ptr + first > MAPPED \/ at + second > MAPPED
<1>1. /\ tpc[t] = "store" /\ broken = "none" /\ tpc' = [tpc EXCEPT ![t] = "idle"]
      /\ mixed' = mixed \ {t}
      /\ UNCHANGED <<config, evt, shared, evt_buffer, length, available, raced, written>>
  BY DEF MmapStore
<1>2. out => broken' = "outside" /\ UNCHANGED <<mapping, ptr, flow>>
  BY DEF MmapStore
<1>3. ~ out => /\ mapping' = Put(Put(mapping, ptr, one), at, two)
               /\ ptr' = at + second /\ flow' = flow \o one \o two /\ broken' = broken
  BY DEF MmapStore
<1>4. UNCHANGED <<layout, sink, bufsize>>
  BY <1>1 DEF config
<1>5. /\ tpc' \in [Threads -> {"idle", "render", "append", "store"}] /\ tpc'[t] = "idle"
      /\ \A u \in Threads \ {t} : tpc'[u] = tpc[u]
  BY <1>1 DEF MessageTypes
<1>6. /\ length[t] \in Nat /\ available[t] \in 0..MAPPED /\ ptr \in 0..MAPPED
      /\ mapping \in [1..MAPPED -> Char \cup {Nothing}] /\ flow \in Seq(Char)
  BY DEF MessageTypes
<1>7. /\ first \in Nat /\ second \in Nat /\ at \in Nat /\ ptr \in Nat /\ MAPPED \in Nat
      /\ wraps => first = available[t] /\ second = length[t] - available[t] /\ at = 0
      /\ ~ wraps => first = 0 /\ second = length[t] /\ at = ptr
  BY <1>6, Mapped
<1> HIDE DEF first, second, at
<1>8. one \in Seq(Char) /\ Len(one) = first /\ two \in Seq(Char) /\ Len(two) = second
  BY <1>7, CopiedFacts
<1> HIDE DEF one, two
<1>9. ~ out => /\ ptr + Len(one) <= MAPPED /\ at + Len(two) <= MAPPED
               /\ Put(mapping, ptr, one) \in [1..MAPPED -> Char \cup {Nothing}]
               /\ mapping' \in [1..MAPPED -> Char \cup {Nothing}]
  <2> SUFFICES ASSUME ~ out PROVE /\ ptr + Len(one) <= MAPPED /\ at + Len(two) <= MAPPED
                                  /\ Put(mapping, ptr, one) \in [1..MAPPED -> Char \cup {Nothing}]
                                  /\ mapping' \in [1..MAPPED -> Char \cup {Nothing}]
    OBVIOUS
  <2>1. ptr + Len(one) <= MAPPED /\ at + Len(two) <= MAPPED
    BY <1>7, <1>8
  <2>2. Put(mapping, ptr, one) \in [1..MAPPED -> Char \cup {Nothing}]
    BY <1>6, <1>7, <1>8, <2>1, PutCells
  <2>3. Put(Put(mapping, ptr, one), at, two) \in [1..MAPPED -> Char \cup {Nothing}]
    BY <1>7, <1>8, <2>1, <2>2, PutCells
  <2> QED
    BY <1>3, <2>1, <2>2, <2>3
<1>10. flow \o one \in Seq(Char) /\ flow \o one \o two \in Seq(Char)
  BY <1>6, <1>8, ConcatProperties
<1>11. mapping' \in [1..MAPPED -> Char \cup {Nothing}] /\ ptr' \in 0..MAPPED /\ flow' \in Seq(Char)
       /\ broken' \in {"none", "outside"}
  <2>1. CASE out
    BY <1>2, <1>6, <2>1
  <2>2. CASE ~ out
    <3>1. at + second \in 0..MAPPED
      BY <1>7, <1>8, <1>9, <2>2
    <3> QED
      BY <1>1, <1>3, <1>9, <1>10, <2>2, <3>1
  <2> QED
    BY <2>1, <2>2
<1>12. MessageTypes'
  BY <1>1, <1>4, <1>5, <1>11 DEF MessageTypes
<1>13. LengthsInv'
  BY <1>1, <1>4, <1>5 DEF LengthsInv, Comes
<1>14. RenderInv'
  <2> SUFFICES ASSUME NEW u \in Threads \ mixed', tpc'[u] \in {"append", "store"}
               PROVE  Faithful(evt[u], Rendered(u))'
    BY DEF RenderInv
  <2>1. u # t
    BY <1>5
  <2>2. u \notin mixed /\ tpc[u] \in {"append", "store"}
    BY <1>1, <1>5, <2>1
  <2> QED
    BY <1>1, <2>2, OthersFaithful
<1>15. WrittenInv'
  BY <1>1, SameWritten
<1>16. CausesInv'
  BY <1>1, <1>4, <1>11 DEF CausesInv
<1>17. RingInv'
  <2> SUFFICES ASSUME ~ raced PROVE RingInv'
    BY <1>1 DEF RingInv
  <2>1. /\ Ring(mapping, flow) /\ Cell(ptr) = Cell(Len(flow))
        /\ available[t] = MAPPED - ptr
        /\ \A u \in Threads : tpc[u] = "store" => u = t
    BY <1>1 DEF RingInv
  <2>2. \A u \in Threads : tpc'[u] # "store"
    BY <1>5, <2>1
  <2>3. CASE out
    <3>1. Ring(mapping, flow)' /\ (Cell(ptr) = Cell(Len(flow)))'
      BY <1>2, <2>1, <2>3 DEF Ring, Cell
    <3>2. length[t] > available[t] + MAPPED
      <4>1. CASE wraps
        BY <1>6, <1>7, <2>1, <2>3, <4>1
      <4>2. CASE ~ wraps
        BY <1>6, <1>7, <2>1, <2>3, <4>2
      <4> QED
        BY <4>1, <4>2
    <3>3. length'[t] > available'[t] + MAPPED
      BY <1>1, <3>2
    <3> QED
      BY <2>2, <3>1, <3>3 DEF RingInv
  <2>4. CASE ~ out
    <3> DEFINE half == Put(mapping, ptr, one)
               part == flow \o one
    <3>1. Ring(half, part) /\ Cell(ptr + Len(one)) = Cell(Len(part))
      BY <1>7, <1>8, <1>9, <2>1, <2>4, RingStep
    <3>2. Cell(at) = Cell(Len(part))
      <4>1. CASE wraps
        <5>1. ptr + Len(one) = MAPPED /\ at = 0
          BY <1>6, <1>7, <1>8, <2>1, <4>1
        <5> QED
          BY <3>1, <5>1, CellEnd
      <4>2. CASE ~ wraps
        <5>1. ptr + Len(one) = at
          BY <1>6, <1>7, <1>8, <4>2
        <5> QED
          BY <3>1, <5>1
      <4> QED
        BY <4>1, <4>2
    <3> HIDE DEF half, part
    <3>3. Ring(Put(half, at, two), part \o two) /\ Cell(at + Len(two)) = Cell(Len(part \o two))
      BY <1>7, <1>8, <1>9, <2>4, <3>1, <3>2, RingStep
    <3>4. mapping' = Put(half, at, two) /\ flow' = part \o two /\ ptr' = at + Len(two)
      BY <1>3, <1>8, <2>4 DEF half, part
    <3>5. Ring(mapping', flow') /\ Cell(ptr') = Cell(Len(flow'))
      BY <3>3, <3>4
    <3>6. Ring(mapping, flow)' /\ (Cell(ptr) = Cell(Len(flow)))'
      BY <3>5 DEF Ring, Cell
    <3>7. broken' # "outside"
      BY <1>1, <1>3, <2>4
    <3> QED
      BY <2>2, <3>6, <3>7 DEF RingInv
  <2> QED
    BY <2>3, <2>4
<1> QED
  BY <1>12, <1>13, <1>14, <1>15, <1>16, <1>17

LEMMA StutterMessage ==
  ASSUME MessageInv, UNCHANGED mvars
  PROVE  MessageInv'
<1> USE DEF MessageInv
<1>1. /\ UNCHANGED <<config, tpc, evt, shared, evt_buffer, length, available, written, mixed, broken>>
      /\ UNCHANGED <<layout, sink, bufsize, mapping, ptr, flow, raced>>
  BY DEF mvars, config, file
<1>2. MessageTypes'
  BY <1>1 DEF MessageTypes
<1>3. LengthsInv'
  BY <1>1 DEF LengthsInv, Comes
<1>4. RenderInv'
  <2> SUFFICES ASSUME broken = "none", NEW u \in Threads \ mixed, tpc[u] \in {"append", "store"}
               PROVE  Faithful(evt[u], Rendered(u))'
    BY <1>1 DEF RenderInv
  <2> QED
    BY <1>1, OthersFaithful
<1>5. WrittenInv'
  BY <1>1, SameWritten
<1>6. CausesInv'
  BY <1>1 DEF CausesInv
<1>7. RingInv'
  BY <1>1, SameRing
<1> QED
  BY <1>2, <1>3, <1>4, <1>5, <1>6, <1>7

LEMMA NextMessage == MessageInv /\ [MessageNext]_mvars => MessageInv'
<1> SUFFICES ASSUME MessageInv, [MessageNext]_mvars PROVE MessageInv'
  OBVIOUS
<1>1. CASE MessageNext
  <2> SUFFICES ASSUME NEW t \in Threads,
                      Log(t) \/ Render(t) \/ Append1(t) \/ MmapMeasure(t) \/ MmapStore(t)
               PROVE  MessageInv'
    BY <1>1 DEF MessageNext
  <2> QED
    BY LogMessage, RenderMessage, Append1Message, MmapMeasureMessage, MmapStoreMessage
<1>2. CASE UNCHANGED mvars
  BY <1>2, StutterMessage
<1> QED
  BY <1>1, <1>2

(* Every line that is written is the thread's own, whole or cut where a     *)
(* buffer ends, unless it was in the static buffer of the layout when       *)
(* another thread formatted there (log4c_layout_format, basic_format and    *)
(* dated_format of the layout types, stream_append, syslog_append).         *)
THEOREM LinesAreOwn == MessageSpec => []LinesHaveCause
<1>1. MessageInv => LinesHaveCause
  BY DEF MessageInv, WrittenInv, CausesInv, LinesHaveCause
<1> QED
  BY <1>1, InitMessage, NextMessage, PTL DEF MessageSpec

(* However long the lines are and wherever they end, mmap_append leaves the *)
(* last characters stored, each in its place of the ring, unless threads    *)
(* met in it.                                                               *)
THEOREM MappingKeepsLast == MessageSpec => []MappingIsRing
<1>1. MessageInv => MappingIsRing
  <2> SUFFICES ASSUME MessageInv, ~ raced
               PROVE  /\ ptr % MAPPED = Len(flow) % MAPPED
                      /\ \A c \in 1..MAPPED :
                           LET at == {k \in DOMAIN flow : k % MAPPED = c % MAPPED}
                           IN  mapping[c] = IF at = {} THEN Nothing ELSE flow[Max(at)]
                      /\ broken = "outside" => \E t \in Threads : length[t] > available[t] + MAPPED
    BY DEF MappingIsRing
  <2>1. /\ Ring(mapping, flow) /\ Cell(ptr) = Cell(Len(flow))
        /\ broken = "outside" => \E t \in Threads : length[t] > available[t] + MAPPED
    BY DEF MessageInv, RingInv
  <2>2. ptr % MAPPED = Len(flow) % MAPPED
    BY <2>1 DEF Cell
  <2>3. \A c \in 1..MAPPED :
           LET at == {k \in DOMAIN flow : k % MAPPED = c % MAPPED}
           IN  mapping[c] = IF at = {} THEN Nothing ELSE flow[Max(at)]
    BY <2>1, RingIsLast
  <2> QED
    BY <2>1, <2>2, <2>3
<1> QED
  BY <1>1, InitMessage, NextMessage, PTL DEF MessageSpec
=============================================================================
