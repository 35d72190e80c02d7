------------------------------ MODULE Streams ------------------------------
(***************************************************************************)
(* Who closes a FILE: one appender of type stream or stream2, the program  *)
(* that gives it files of its own, and the files.  A stream appender keeps *)
(* the FILE itself as its user data, also after closing it; a stream2      *)
(* appender keeps a record with the FILE and a bit that says whether it    *)
(* opened it, and forgets the record when it is closed.                    *)
(*                                                                         *)
(* Using a FILE that is closed, or none, stops the model with the reason   *)
(* in `fault'.  fopen may fail; so may fclose, which closes all the same.  *)
(***************************************************************************)
EXTENDS Integers, FiniteSets

CONSTANT MaxFiles  \* bound: files opened, by the program and the appender

ASSUME MaxFilesAssumption == MaxFiles \in Nat

Files  == 1..MaxFiles
Null   == 0
Stderr == -1

VARIABLES
  type,     \* app_type: "stream" or "stream2"
  isopen,   \* app_isopen
  udata,    \* stream2: app_udata is set
  fp,       \* stream: app_udata; stream2: s2u_fp
  state,    \* stream2: s2u_state, STREAM2_MY_FP or 0
  files,    \* who opened each FILE, whether it is open, who closed it
  pc,       \* "idle", "write", "gone" after log4c_appender_delete
  fault,    \* "none", "closed", "null"
  did       \* history: "close", "failed", "taken", "withdrawn"

own  == <<isopen, udata, fp, state>>
vars == <<type, isopen, udata, fp, state, files, pc, fault, did>>

STREAM2_MY_FP == 1

Unused == [by |-> "none", open |-> 0, closedBy |-> "none"]
Opens(f, who)  == [files EXCEPT ![f] = [by |-> who, open |-> 1, closedBy |-> "none"]]
Closes(f, who) == [files EXCEPT ![f].open = 0, ![f].closedBy = who]
Next1(f)       == f = 1 + Cardinality({g \in Files : files[g].by # "none"})
Usable(f)      == f = Stderr \/ (f \in Files /\ files[f].open = 1)

Runs == pc # "gone" /\ fault = "none"
Fault(why) == fault' = why /\ UNCHANGED <<type, own, files, pc, did>>

-----------------------------------------------------------------------------
(* fopen of the file with the appender's name, which the appender then owns *)
OpenOwn(f) ==
  /\ files' = Opens(f, "appender")
  /\ fp' = f
  /\ state' = IF type = "stream2" THEN STREAM2_MY_FP ELSE state

(* stream_open and stream2_open, in log4c_appender_open: what is there is   *)
(* taken as it is; failing that, stderr.                                    *)
Open(next) ==
  /\ Runs /\ pc = "idle" /\ isopen = 0
  /\ \/ fp # Null /\ UNCHANGED <<fp, state, files>>
     \/ fp = Null /\ \E f \in Files : Next1(f) /\ OpenOwn(f)
     \/ fp = Null /\ fp' = Stderr /\ UNCHANGED <<state, files>>
  /\ udata' = IF type = "stream2" THEN 1 ELSE udata
  /\ isopen' = 1
  /\ pc' = next
  /\ UNCHANGED <<type, fault, did>>

(* log4c_appender_append of an appender that is open *)
AppendOpen ==
  /\ Runs /\ pc = "idle" /\ isopen = 1
  /\ pc' = "write"
  /\ UNCHANGED <<type, own, files, fault, did>>

(* stream2_append gives up without user data; otherwise fprintf.            *)
Write ==
  /\ Runs /\ pc = "write"
  /\ IF (type = "stream2" /\ udata = 0) \/ Usable(fp)
     THEN pc' = "idle" /\ UNCHANGED <<type, own, files, fault, did>>
     ELSE Fault(IF fp = Null THEN "null" ELSE "closed")

\* fclose as log4c_appender_close takes it: only a success counts as closed.
Fclose(f) ==
  /\ files' = Closes(f, "appender")
  /\ \/ isopen' = 0 /\ did' = did \cup {"close"}
     \/ isopen' = 1 /\ did' = did \cup {"failed"}

NoFclose == isopen' = 0 /\ did' = did \cup {"close"} /\ UNCHANGED files

(* stream_close *)
StreamClose(next) ==
  /\ Runs /\ pc = "idle" /\ isopen = 1 /\ type = "stream"
  /\ IF fp \in {Null, Stderr}
     THEN NoFclose /\ pc' = next /\ UNCHANGED <<type, udata, fp, state, fault>>
     ELSE IF ~Usable(fp) THEN Fault("closed")
     ELSE Fclose(fp) /\ pc' = next /\ UNCHANGED <<type, udata, fp, state, fault>>

\* Variant: the record is kept, with what it points to.
ForgetNothing == UNCHANGED <<udata, fp, state>>

(* stream2_free_udata *)
Forget == udata' = 0 /\ fp' = Null /\ state' = 0

(* stream2_close: without user data, which only a failure leaves, it says   *)
(* -1 and the appender stays open.                                          *)
Stream2Close(next) ==
  /\ Runs /\ pc = "idle" /\ isopen = 1 /\ type = "stream2"
  /\ IF udata = 0
     THEN pc' = next /\ UNCHANGED <<type, own, files, fault, did>>
     ELSE IF fp # Null /\ state = STREAM2_MY_FP
     THEN IF ~Usable(fp) THEN Fault("closed")
          ELSE Fclose(fp) /\ Forget /\ pc' = next /\ UNCHANGED <<type, fault>>
     ELSE NoFclose /\ Forget /\ pc' = next /\ UNCHANGED <<type, fault>>

(* log4c_appender_delete closes an open appender, and that is all it does.  *)
Delete ==
  \/ StreamClose("gone") \/ Stream2Close("gone")
  \/ /\ Runs /\ pc = "idle" /\ isopen = 0
     /\ pc' = "gone"
     /\ UNCHANGED <<type, own, files, fault, did>>

-----------------------------------------------------------------------------
(* The program opens and closes files of its own, at any time.              *)
ProgramOpen ==
  /\ fault = "none"
  /\ \E f \in Files : Next1(f) /\ files' = Opens(f, "program")
  /\ UNCHANGED <<type, own, pc, fault, did>>

ProgramClose(f) ==
  /\ fault = "none" /\ files[f].by = "program" /\ files[f].open = 1
  /\ files' = Closes(f, "program")
  /\ did' = IF fp = f THEN did \cup {"withdrawn"} ELSE did
  /\ UNCHANGED <<type, own, pc, fault>>

\* Variant: the bit survives.
SetFpKeepsState(f) ==
  /\ Runs /\ pc = "idle"
  /\ f \in Files => files[f].by = "program" /\ files[f].open = 1
  /\ fp' = f /\ udata' = IF type = "stream2" THEN 1 ELSE udata
  /\ did' = IF fp \in Files /\ files[fp].by = "appender" /\ files[fp].open = 1
            THEN did \cup {"taken"} ELSE did
  /\ UNCHANGED <<type, isopen, state, files, pc, fault>>

(* It gives one to the appender: log4c_stream2_set_fp, which resets all the *)
(* bits, or log4c_appender_set_udata.                                       *)
SetFp(f) ==
  /\ Runs /\ pc = "idle"
  /\ f \in Files => files[f].by = "program" /\ files[f].open = 1
  /\ fp' = f /\ state' = 0
  /\ udata' = IF type = "stream2" THEN 1 ELSE udata
  /\ did' = IF fp \in Files /\ files[fp].by = "appender" /\ files[fp].open = 1
            THEN did \cup {"taken"} ELSE did
  /\ UNCHANGED <<type, isopen, files, pc, fault>>

(* log4c_stream2_set_flags makes a record if there is none. *)
SetFlags ==
  /\ Runs /\ pc = "idle" /\ type = "stream2" /\ udata = 0
  /\ udata' = 1
  /\ UNCHANGED <<type, isopen, fp, state, files, pc, fault, did>>

-----------------------------------------------------------------------------
Init ==
  /\ type \in {"stream", "stream2"}
  /\ isopen = 0 /\ udata = 0 /\ fp = Null /\ state = 0
  /\ files = [f \in Files |-> Unused]
  /\ pc = "idle" /\ fault = "none" /\ did = {}

Appender == \/ \E next \in {"idle", "write"} : Open(next)
            \/ AppendOpen \/ Write
            \/ StreamClose("idle") \/ Stream2Close("idle")
            \/ Delete
Program  == \/ ProgramOpen \/ SetFlags
            \/ \E f \in Files : ProgramClose(f)
            \/ \E f \in Files \cup {Stderr} : SetFp(f)

Next == Appender \/ Program

Spec == Init /\ [][Next]_vars

-----------------------------------------------------------------------------
(* A FILE is used after it was closed only if the program closed it under   *)
(* the appender or, with stream, closed the appender and went on: stream2   *)
(* can be closed and used again.  None is used where one is needed only in  *)
(* a stream2 appender whose fclose failed and that got flags after that;    *)
(* and only after an fclose that failed it drops messages, for which it has *)
(* no record and is still open.                                             *)
FaultsHaveCause ==
  /\ fault = "closed" =>
       "withdrawn" \in did \/ (type = "stream" /\ did \cap {"close", "failed"} # {})
  /\ fault = "null" => type = "stream2" /\ "failed" \in did
  /\ type = "stream2" /\ isopen = 1 /\ udata = 0 => "failed" \in did

(* appender_type_stream2.h: "If you set the file pointer log4c will not     *)
(* close the file on exiting", in whatever order files are set, opened and  *)
(* closed.  And when the appender is gone the files it opened are closed,   *)
(* except one that the program replaced while it was open.                  *)
ClosedByOwner ==
  /\ type = "stream2" =>
       \A f \in Files : files[f].by = "program" => files[f].closedBy # "appender"
  /\ pc = "gone" /\ "taken" \notin did =>
       \A f \in Files : files[f].by = "appender" => files[f].open = 0
=============================================================================
