----------------------------- MODULE AppenderMT -----------------------------
(***************************************************************************)
(* Threads logging through one rolling file appender: log4c_appender_open, *)
(* _append and _close (appender.c) around rollingfile_open, _append and    *)
(* _close, with a layout that renders into a buffer.                       *)
(*                                                                         *)
(* log4c_appender_append opens the appender when it finds it closed, with  *)
(* no lock around the check and the opening, and the opening initialises   *)
(* the mutex that the writes rely on.  The library therefore asks its      *)
(* users (test_rollingfile_appender_mt.c) to open the appender before any  *)
(* thread logs, or to log from one thread; the model covers both ways of   *)
(* obeying, chosen in Init.                                                *)
(*                                                                         *)
(* What the policy does with the older files is SizeWin's subject: here a  *)
(* rollover closes the current file and starts a new one.                  *)
(***************************************************************************)
EXTENDS Integers, Sequences, FiniteSets

CONSTANTS
  Threads,     \* the threads that log
  Main,        \* the thread that opens and closes the appender
  None,        \* no thread
  LenOf,       \* LenOf[t]: length of the lines thread t logs
  MaxSize,     \* swc_file_maxsize
  Reentrant,   \* the layout is basic_r or dated_r: a buffer per event
  MaxMsgs      \* bound: lines each thread logs

ASSUME ThreadAssumption == Main \notin Threads /\ None \notin Threads \cup {Main}
ASSUME LengthAssumption == /\ LenOf \in [Threads -> Nat]
                           /\ MaxSize \in Nat /\ MaxMsgs \in Nat
ASSUME LayoutAssumption == Reentrant \in BOOLEAN

VARIABLES
  isopen,      \* app_isopen
  owner,       \* the thread that holds rfu_mutex, or None
  fp,          \* rfu_current_fp: "null", "open" or "closed"
  size,        \* rfu_current_file_size
  files,       \* the lines of every file started so far, oldest file first
  buf,         \* what each rendering buffer holds
  pc,          \* where each thread is
  count,       \* how many lines each thread has handed to append
  users        \* the threads that log in this run

vars == <<isopen, owner, fp, size, files, buf, pc, count, users>>

Everyone == Threads \cup {Main}
\* Line number n of thread t.
Line(t, n) == [by |-> t, no |-> n]
NoLine == [by |-> None, no |-> 0]

\* Variant: one static buffer.
BufShared(t) == Main

\* The static buffer of a layout that is not reentrant belongs to all threads.
BufOf(t) == IF Reentrant THEN t ELSE Main
Rendered(t) == buf[BufOf(t)]
Length(line) == IF line = NoLine THEN 0 ELSE LenOf[line.by]

Goto(t, place) == pc' = [pc EXCEPT ![t] = place]

-----------------------------------------------------------------------------
(* A thread logs a line: log4c_appender_append finds the appender open, or *)
(* goes to open it.                                                        *)
BeginAppend(t) ==
  /\ pc[t] = "idle" /\ t \in users /\ count[t] < MaxMsgs
  /\ count' = [count EXCEPT ![t] = @ + 1]
  /\ Goto(t, IF isopen = 0 THEN "open" ELSE "format")
  /\ UNCHANGED <<isopen, owner, fp, size, files, buf, users>>

\* Where a thread goes once the appender is open.
AfterOpen(t) == IF t = Main THEN "running" ELSE "format"

(* log4c_appender_open: nothing to do if it is open already. *)
CheckOpen(t) ==
  /\ pc[t] = "open"
  /\ Goto(t, IF isopen # 0 THEN AfterOpen(t) ELSE "typeopen")
  /\ UNCHANGED <<isopen, owner, fp, size, files, buf, count, users>>

(* rollingfile_open up to the rollover: the mutex is made anew. *)
TypeOpen(t) ==
  /\ pc[t] = "typeopen"
  /\ size' = 0
  /\ owner' = None
  /\ Goto(t, "openclose")
  /\ UNCHANGED <<isopen, fp, files, buf, count, users>>

\* A rollover closes the current file ...
CloseFile == fp' = IF fp = "open" THEN "closed" ELSE fp

\* ... and starts the next one.
NewFile == /\ fp' = "open"
           /\ size' = 0
           /\ files' = Append(files, << >>)

OpenClose(t) ==
  /\ pc[t] = "openclose"
  /\ CloseFile
  /\ Goto(t, "openfile")
  /\ UNCHANGED <<isopen, owner, size, files, buf, count, users>>

OpenFile(t) ==
  /\ pc[t] = "openfile"
  /\ NewFile
  /\ Goto(t, "opened")
  /\ UNCHANGED <<isopen, owner, buf, count, users>>

Opened(t) ==
  /\ pc[t] = "opened"
  /\ isopen' = isopen + 1
  /\ Goto(t, AfterOpen(t))
  /\ UNCHANGED <<owner, fp, size, files, buf, count, users>>

(* log4c_layout_format renders the line into the layout's buffer. *)
Format(t) ==
  /\ pc[t] = "format"
  /\ buf' = [buf EXCEPT ![BufOf(t)] = Line(t, count[t])]
  /\ Goto(t, "lock")
  /\ UNCHANGED <<isopen, owner, fp, size, files, count, users>>

Triggers(line) == MaxSize > 0 /\ Length(line) + size > MaxSize

\* Variant: the mutex is not taken.
EnterUnlocked(t) ==
  /\ pc[t] = "lock"
  /\ Goto(t, IF Triggers(Rendered(t)) THEN "rollclose" ELSE "write")
  /\ UNCHANGED <<isopen, owner, fp, size, files, buf, count, users>>

(* rollingfile_append: lock, and ask the policy. *)
Lock(t) ==
  /\ pc[t] = "lock" /\ owner = None
  /\ owner' = t
  /\ Goto(t, IF Triggers(Rendered(t)) THEN "rollclose" ELSE "write")
  /\ UNCHANGED <<isopen, fp, size, files, buf, count, users>>

RollClose(t) ==
  /\ pc[t] = "rollclose"
  /\ CloseFile
  /\ Goto(t, "rollfile")
  /\ UNCHANGED <<isopen, owner, size, files, buf, count, users>>

\* Variant: the mutex is given up before the line is written.
RollFileUnlocks(t) ==
  /\ pc[t] = "rollfile"
  /\ NewFile
  /\ owner' = None
  /\ Goto(t, "write")
  /\ UNCHANGED <<isopen, buf, count, users>>

RollFile(t) ==
  /\ pc[t] = "rollfile"
  /\ NewFile
  /\ Goto(t, "write")
  /\ UNCHANGED <<isopen, owner, buf, count, users>>

\* Variant: the mutex is not given back.
WriteKeepsMutex(t) ==
  /\ pc[t] = "write"
  /\ files' = [files EXCEPT ![Len(files)] = Append(@, Rendered(t))]
  /\ size' = size + Length(Rendered(t))
  /\ Goto(t, "idle")
  /\ UNCHANGED <<isopen, owner, fp, buf, count, users>>

\* Variant: what is written is not counted.
WriteUncounted(t) ==
  /\ pc[t] = "write"
  /\ files' = [files EXCEPT ![Len(files)] = Append(@, Rendered(t))]
  /\ size' = size
  /\ owner' = None
  /\ Goto(t, "idle")
  /\ UNCHANGED <<isopen, fp, buf, count, users>>

(* fprintf whatever the buffer holds, count it, unlock. *)
Write(t) ==
  /\ pc[t] = "write"
  /\ files' = [files EXCEPT ![Len(files)] = Append(@, Rendered(t))]
  /\ size' = size + Length(Rendered(t))
  /\ owner' = None
  /\ Goto(t, "idle")
  /\ UNCHANGED <<isopen, fp, buf, count, users>>

\* The threads have been joined.
ThreadsJoined == \A t \in users : pc[t] = "idle" /\ count[t] = MaxMsgs

(* log4c_appender_close and rollingfile_close, by the main thread. *)
Close ==
  /\ pc[Main] = "running" /\ ThreadsJoined /\ isopen > 0
  /\ owner = None
  /\ fp' = "null"
  /\ size' = 0
  /\ isopen' = isopen - 1
  /\ Goto(Main, "done")
  /\ UNCHANGED <<owner, files, buf, count, users>>

-----------------------------------------------------------------------------
\* Main opens the appender before the threads start, or leaves it to the
\* only thread that logs.
Init ==
  /\ isopen = 0 /\ owner = None /\ fp = "null" /\ size = 0 /\ files = << >>
  /\ buf = [t \in Everyone |-> NoLine]
  /\ count = [t \in Threads |-> 0]
  /\ \/ /\ users = Threads
        /\ pc = [t \in Everyone |-> IF t = Main THEN "open" ELSE "unborn"]
     \/ /\ \E t \in Threads : users = {t}
        /\ pc = [t \in Everyone |-> IF t = Main THEN "running" ELSE "idle"]

\* pthread_create, once the appender is open.
Start ==
  /\ pc[Main] = "running" /\ \E t \in Threads : pc[t] = "unborn"
  /\ pc' = [t \in Everyone |-> IF pc[t] = "unborn" THEN "idle" ELSE pc[t]]
  /\ UNCHANGED <<isopen, owner, fp, size, files, buf, count, users>>

OpenStep(t) == CheckOpen(t) \/ TypeOpen(t) \/ OpenClose(t) \/ OpenFile(t) \/ Opened(t)

LogStep(t) == \/ BeginAppend(t) \/ Format(t) \/ Lock(t)
              \/ RollClose(t) \/ RollFile(t) \/ Write(t)

Next == \/ \E t \in Everyone : OpenStep(t)
        \/ \E t \in Threads : LogStep(t)
        \/ Start
        \/ Close

\* Every thread is scheduled again and again; the mutex is not starved by
\* a bounded number of lines.
Fairness == /\ WF_vars(Start) /\ WF_vars(Close)
            /\ \A t \in Everyone : WF_vars(OpenStep(t))
            /\ \A t \in Threads : WF_vars(LogStep(t))

Spec == Init /\ [][Next]_vars /\ Fairness

-----------------------------------------------------------------------------
Places == {"unborn", "idle", "open", "typeopen", "openclose", "openfile", "opened",
           "format", "lock", "rollclose", "rollfile", "write", "running", "done"}

TypeOK ==
  /\ isopen \in {0, 1} /\ owner \in Everyone \cup {None}
  /\ fp \in {"null", "open", "closed"} /\ size \in Nat
  /\ buf \in [Everyone -> {NoLine} \cup [by : Threads, no : Nat]]
  /\ pc \in [Everyone -> Places]
  /\ count \in [Threads -> 0..MaxMsgs]
  /\ users \subseteq Threads

\* Places from which a thread touches the stream, the size or the files.
Critical == {"typeopen", "openclose", "openfile", "opened", "rollclose", "rollfile", "write"}

(* One thread at a time works on the stream: an opening, which runs without *)
(* the mutex, never overlaps another opening or a write.                    *)
OneInside ==
  \A s, t \in Everyone : pc[s] \in Critical /\ pc[t] \in Critical => s = t

(* A line is never written to a stream that another thread has closed, nor  *)
(* before the appender is open.                                             *)
WriteToOpenFile == \A t \in Threads : pc[t] = "write" => fp = "open" /\ isopen = 1

\* Where lines stand in the files, and what stands there.
Positions == UNION {{<<f, n>> : n \in 1..Len(files[f])} : f \in 1..Len(files)}
LineAt(p) == files[p[1]][p[2]]

\* The n lines that thread t has finished logging.
Finished(t) == IF pc[t] \in {"unborn", "idle"} THEN count[t] ELSE count[t] - 1

(* Every line a thread has finished logging is in the files once, as that   *)
(* thread rendered it; the line it is busy with is not there yet.           *)
WrittenOnce ==
  \A t \in Threads : \A n \in 1..count[t] :
    Cardinality({p \in Positions : LineAt(p) = Line(t, n)})
      = IF n <= Finished(t) THEN 1 ELSE 0

(* The counter that decides rollovers is the length of the current file     *)
(* whenever the mutex is free, so that no file of several lines outgrows    *)
(* the limit.                                                               *)
Bytes(file) ==
  LET upTo[n \in 0..Len(file)] == IF n = 0 THEN 0 ELSE upTo[n-1] + Length(file[n])
  IN  upTo[Len(file)]

SizeCountsLines ==
  /\ owner = None /\ fp = "open" => size = Bytes(files[Len(files)])
  /\ MaxSize > 0 => \A f \in 1..Len(files) :
       Len(files[f]) > 1 => Bytes(files[f]) <= MaxSize

(* Every thread gets its lines out, and the appender is closed after them.  *)
EveryoneFinishes == <>[](ThreadsJoined /\ pc[Main] = "done" /\ isopen = 0 /\ fp = "null")
=============================================================================
