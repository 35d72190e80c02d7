------------------------------ MODULE SizeWin ------------------------------
(***************************************************************************)
(* The size-window rolling policy (rollingpolicy_type_sizewin.c) driving   *)
(* one rolling file appender (appender_type_rollingfile.c).                *)
(*                                                                         *)
(* The policy keeps a window of files prefix.0 .. prefix.(maxNum-1); file 0*)
(* is the one being written.  A message that would not fit triggers a      *)
(* rollover: unlink the last file when the window is full, close the       *)
(* current stream, rename every file one index up starting at the top, and *)
(* open file 0 again, truncating whatever is found there.                  *)
(*                                                                         *)
(* Every system call of a rollover is a step of its own, because each one  *)
(* can fail, the process can die between any two of them, and an operator  *)
(* can remove a file meanwhile.  The appender's mutex is held from         *)
(* AppendEvent to Write, so the thread inside is alone: threads are the    *)
(* subject of AppenderMT.                                                  *)
(*                                                                         *)
(* A file is what the properties tell apart: the numbers of the messages   *)
(* it holds and its length in bytes.                                       *)
(***************************************************************************)
EXTENDS Integers, Sequences, FiniteSets

CONSTANTS
  Cap,          \* file indices the model's disk has room for
  MaxNums,      \* values of swc_file_max_num_files in use
  MaxSizes,     \* values of swc_file_maxsize in use; 0 is "no limit"
  Lens,         \* lengths of rendered messages
  Faults,       \* the ways in which the environment may misbehave
  MaxMsgs,      \* bound: messages logged
  MaxFaults,    \* bound: misbehaviours
  MaxLoads      \* bound: appender openings and configuration reloads

ASSUME CapAssumption == Cap \in Nat \ {0}
ASSUME ConfAssumption == /\ MaxNums \subseteq 1..Cap
                         /\ MaxSizes \subseteq Nat
ASSUME LensAssumption == Lens \subseteq Nat
ASSUME BoundsAssumption == /\ MaxMsgs \in Nat
                           /\ MaxFaults \in Nat
                           /\ MaxLoads \in Nat

VARIABLES
  maxNum, maxSize,        \* sw_conf
  lastIndex,              \* sw_last_index
  flags,                  \* sw_flags: 0 or SW_LAST_FOPEN_FAILED
  fp,                     \* rfu_current_fp, by what it stands for
  size,                   \* rfu_current_file_size
  pc, k, i, rc,           \* where sizewin_rollover is, and its locals
  msg,                    \* length of the message in hand, or NoMsg
  disk,                   \* the files, by index
  stderr,                 \* the process's stderr stream: open or closed
  sent,                   \* number of the last message handed to append
  rotatedOut,             \* numbers of the messages unlinked as the oldest
  console,                \* numbers of the messages that went to stderr
  failures,               \* how many fopens of this process have failed
  faults, loads           \* counters behind the bounds

conf   == <<maxNum, maxSize>>
local  == <<k, i, rc>>
ghosts == <<sent, rotatedOut, console, failures>>
vars   == <<conf, lastIndex, flags, fp, size, pc, local, msg, disk,
            stderr, ghosts, faults, loads>>

Index  == 0..Cap-1
Ids    == 1..MaxMsgs
NoMsg  == -1
SW_LAST_FOPEN_FAILED == 1

File   == [ids : SUBSET Ids, bytes : Nat \cup {-1}]
Absent == [ids |-> {}, bytes |-> -1]
Empty  == [ids |-> {}, bytes |-> 0]

\* What rfu_current_fp can be: NULL, a stream on file 0, a stream on a file
\* that an operator has unlinked, stderr, or a stream already closed.
Streams == {"null", "zero", "unlinked", "stderr", "closed"}

Stored  == UNION {disk[j].ids : j \in Index}

\* Bounded misbehaviour of one kind.
Fault(f) == f \in Faults /\ faults < MaxFaults /\ faults' = faults + 1

\* A call on a name that does not exist fails by itself; any other failure
\* is the environment's doing.
FailsOn(j, f) == IF disk[j] = Absent THEN faults' = faults ELSE Fault(f)

-----------------------------------------------------------------------------
(* sizewin_get_last_index walks the names from 0 and stops at the first one *)
(* that does not exist.                                                     *)
IsLastIndex(l, n) ==
  /\ \A j \in Index : j <= l => disk[j] # Absent
  /\ l < n - 1 => disk[l + 1] = Absent

\* Variant: the message about to be written is not counted.
TriggersLate(len) == maxSize > 0 /\ size > maxSize

(* sizewin_is_triggering_event *)
Triggers(len) == maxSize > 0 /\ len + size > maxSize

\* Variant: the full window is recognised one file too late.
BeginRolloverLate(l) ==
  /\ k' = l
  /\ rc' = 0
  /\ i' = -1
  /\ pc' = IF l < 0 THEN "create"
           ELSE IF l = maxNum THEN "unlink" ELSE "close"

(* The head of sizewin_rollover: from last_index, what comes first. *)
BeginRollover(l) ==
  /\ k' = l
  /\ rc' = 0
  /\ i' = -1
  /\ pc' = IF l < 0 THEN "create"
           ELSE IF l = maxNum - 1 THEN "unlink" ELSE "close"

(* sizewin_init: the names are made anew and the files counted. *)
PolicyInit(n) == \E l \in -1..n-1 : IsLastIndex(l, n) /\ lastIndex' = l

(* rollingfile_open with a policy: sizewin_init, then a rollover at once.   *)
(* No message is in hand.                                                   *)
Open ==
  /\ pc = "off" /\ loads < MaxLoads
  /\ loads' = loads + 1
  /\ PolicyInit(maxNum)
  /\ BeginRollover(lastIndex')
  /\ flags' = 0
  /\ fp' = "null"
  /\ size' = 0
  /\ msg' = NoMsg
  /\ UNCHANGED <<conf, disk, stderr, ghosts, faults>>

(* rollingfile_append up to the trigger check; the mutex is taken here. *)
AppendEvent(len) ==
  /\ pc = "idle" /\ sent < MaxMsgs
  /\ sent' = sent + 1
  /\ msg' = len
  /\ IF Triggers(len) THEN BeginRollover(lastIndex)
                      ELSE pc' = "write" /\ UNCHANGED local
  /\ UNCHANGED <<conf, lastIndex, flags, fp, size, disk, stderr,
                 rotatedOut, console, failures, faults, loads>>

\* Variant: after the unlink, k still names the file just removed.
UnlinkOldestKeepsK ==
  /\ pc = "unlink" /\ disk[k] # Absent
  /\ disk' = [disk EXCEPT ![k] = Absent]
  /\ rotatedOut' = rotatedOut \cup disk[k].ids
  /\ pc' = "close"
  /\ UNCHANGED <<conf, lastIndex, flags, fp, size, local, msg,
                 stderr, sent, console, failures, faults, loads>>

(* The window is full: the file at the last index goes. *)
UnlinkOldest ==
  /\ pc = "unlink" /\ disk[k] # Absent
  /\ disk' = [disk EXCEPT ![k] = Absent]
  /\ rotatedOut' = rotatedOut \cup disk[k].ids
  /\ k' = maxNum - 2
  /\ pc' = "close"
  /\ UNCHANGED <<conf, lastIndex, flags, fp, size, i, rc, msg,
                 stderr, sent, console, failures, faults, loads>>

UnlinkFails ==
  /\ pc = "unlink" /\ FailsOn(k, "unlink")
  /\ rc' = 1
  /\ pc' = "close"
  /\ UNCHANGED <<conf, lastIndex, flags, fp, size, k, i, msg, disk,
                 stderr, ghosts, loads>>

MayClose == flags # SW_LAST_FOPEN_FAILED /\ fp # "null"

\* Rotate only if all seems well so far.
AfterClose(r) ==
  IF r = 0 THEN pc' = "rename" /\ i' = k ELSE pc' = "open" /\ i' = i

CloseCurrent ==
  /\ pc = "close"
  /\ fp' = IF MayClose THEN "closed" ELSE fp
  /\ AfterClose(rc)
  /\ UNCHANGED <<conf, lastIndex, flags, size, k, rc, msg, disk,
                 stderr, ghosts, faults, loads>>

CloseFails ==
  /\ pc = "close" /\ MayClose /\ Fault("fclose")
  /\ fp' = "closed"
  /\ rc' = 1
  /\ AfterClose(1)
  /\ UNCHANGED <<conf, lastIndex, flags, size, k, msg, disk,
                 stderr, ghosts, loads>>

\* Variant: the old name is not taken away (link without unlink).
RenameLinks ==
  /\ pc = "rename" /\ i >= 0 /\ disk[i] # Absent
  /\ disk' = [disk EXCEPT ![i + 1] = disk[i]]
  /\ i' = i - 1
  /\ UNCHANGED <<conf, lastIndex, flags, fp, size, pc, k, rc, msg,
                 stderr, ghosts, faults, loads>>

(* One turn of the renaming loop; rename replaces an existing target. *)
Rename ==
  /\ pc = "rename" /\ i >= 0 /\ disk[i] # Absent
  /\ disk' = [disk EXCEPT ![i + 1] = disk[i], ![i] = Absent]
  /\ i' = i - 1
  /\ UNCHANGED <<conf, lastIndex, flags, fp, size, pc, k, rc, msg,
                 stderr, ghosts, faults, loads>>

RenameFails ==
  /\ pc = "rename" /\ i >= 0 /\ FailsOn(i, "rename")
  /\ rc' = 1
  /\ pc' = "open"
  /\ UNCHANGED <<conf, lastIndex, flags, fp, size, k, i, msg, disk,
                 stderr, ghosts, loads>>

\* Variant: the loop ends one turn too late.
RenamesDoneLate ==
  /\ pc = "rename" /\ i < -1
  /\ lastIndex' = k + 1
  /\ pc' = "open"
  /\ UNCHANGED <<conf, flags, fp, size, local, msg, disk, stderr,
                 ghosts, faults, loads>>

RenamesDone ==
  /\ pc = "rename" /\ i < 0
  /\ lastIndex' = k + 1
  /\ pc' = "open"
  /\ UNCHANGED <<conf, flags, fp, size, local, msg, disk, stderr,
                 ghosts, faults, loads>>

\* Back in the appender: whatever rollover returned, its code is at most
\* ROLLINGPOLICY_ROLLOVER_ERR_CAN_LOG, so the size starts again from 0 and a
\* message in hand is written.
RolloverReturns ==
  /\ size' = 0
  /\ pc' = IF msg = NoMsg THEN "idle" ELSE "write"
  /\ k' = -1 /\ i' = -1
  /\ lastIndex' = IF pc = "create" THEN 0 ELSE lastIndex

\* Variant: the flag of an earlier failure stays set.
OpenZeroKeepsFlag ==
  /\ pc \in {"create", "open"}
  /\ disk' = [disk EXCEPT ![0] = Empty]
  /\ fp' = "zero"
  /\ rc' = 0
  /\ RolloverReturns
  /\ UNCHANGED <<conf, flags, msg, stderr, ghosts, faults, loads>>

(* sizewin_open_zero_file and what the rollover does after it: the earlier  *)
(* error code is forgotten once file 0 is open.                             *)
OpenZero ==
  /\ pc \in {"create", "open"}
  /\ disk' = [disk EXCEPT ![0] = Empty]
  /\ fp' = "zero"
  /\ flags' = 0
  /\ rc' = 0
  /\ RolloverReturns
  /\ UNCHANGED <<conf, msg, stderr, ghosts, faults, loads>>

OpenZeroFails ==
  /\ pc \in {"create", "open"} /\ Fault("fopen")
  /\ fp' = "stderr"
  /\ flags' = SW_LAST_FOPEN_FAILED
  /\ rc' = IF pc = "create" THEN rc ELSE 1
  /\ failures' = failures + 1
  /\ RolloverReturns
  /\ UNCHANGED <<conf, msg, disk, stderr, sent, rotatedOut, console, loads>>

\* Where the bytes of a write end up.  An unlinked file's are gone.
Deliver(len) ==
  /\ disk' = IF fp = "zero"
             THEN [disk EXCEPT ![0] = [ids   |-> @.ids \cup {sent},
                                       bytes |-> @.bytes + len]]
             ELSE disk
  /\ console' = IF fp = "stderr" /\ stderr = "open" THEN console \cup {sent}
                                               ELSE console

\* Variant: the bytes of a message are not counted.
WriteDoneUncounted ==
  /\ size' = size
  /\ msg' = NoMsg
  /\ rc' = 0
  /\ pc' = "idle"

(* The end of rollingfile_append: fprintf, count the bytes, unlock. *)
WriteDone ==
  /\ size' = size + msg
  /\ msg' = NoMsg
  /\ rc' = 0
  /\ pc' = "idle"

Write ==
  /\ pc = "write"
  /\ Deliver(msg)
  /\ WriteDone
  /\ UNCHANGED <<conf, lastIndex, flags, fp, k, i, stderr, sent,
                 rotatedOut, failures, faults, loads>>

\* fprintf writes nothing (disk full): the length is counted all the same.
WriteFails ==
  /\ pc = "write" /\ Fault("fprintf")
  /\ WriteDone
  /\ UNCHANGED <<conf, lastIndex, flags, fp, k, i, disk, stderr,
                 ghosts, loads>>

(* rollingfile_close, then sizewin_fini: the stream is closed whatever it   *)
(* is, and the policy's udata is freed.                                     *)
Close ==
  /\ pc = "idle"
  /\ stderr' = IF fp = "stderr" THEN "closed" ELSE stderr
  /\ fp' = "null"
  /\ size' = 0
  /\ lastIndex' = -1
  /\ flags' = 0
  /\ pc' = "off"
  /\ UNCHANGED <<conf, local, msg, disk, ghosts, faults, loads>>

(* rollingpolicy_load for a policy that already has its udata: new          *)
(* parameters, and sizewin_init counts the files again.                     *)
Reload(n, s) ==
  /\ pc = "idle" /\ "reload" \in Faults /\ loads < MaxLoads
  /\ loads' = loads + 1
  /\ maxNum' = n /\ maxSize' = s
  /\ PolicyInit(n)
  /\ UNCHANGED <<flags, fp, size, pc, local, msg, disk, stderr,
                 ghosts, faults>>

(* The process dies; another one starts with stderr open. *)
Crash ==
  /\ pc # "off" /\ Fault("crash")
  /\ pc' = "off"
  /\ fp' = "null" /\ size' = 0 /\ lastIndex' = -1 /\ flags' = 0
  /\ k' = -1 /\ i' = -1 /\ rc' = 0 /\ msg' = NoMsg
  /\ stderr' = "open" /\ failures' = 0
  /\ UNCHANGED <<conf, disk, sent, rotatedOut, console, loads>>

(* An operator removes a log file. *)
Remove(j) ==
  /\ disk[j] # Absent /\ Fault("remove")
  /\ disk' = [disk EXCEPT ![j] = Absent]
  /\ fp' = IF j = 0 /\ fp = "zero" THEN "unlinked" ELSE fp
  /\ UNCHANGED <<conf, lastIndex, flags, size, pc, local, msg,
                 stderr, ghosts, loads>>

-----------------------------------------------------------------------------
Init ==
  /\ maxNum \in MaxNums /\ maxSize \in MaxSizes
  /\ lastIndex = -1 /\ flags = 0
  /\ fp = "null" /\ size = 0
  /\ pc = "off" /\ k = -1 /\ i = -1 /\ rc = 0 /\ msg = NoMsg
  /\ disk = [j \in Index |-> Absent]
  /\ stderr = "open"
  /\ sent = 0 /\ rotatedOut = {} /\ console = {} /\ failures = 0
  /\ faults = 0 /\ loads = 0

\* The steps of the thread inside the appender.
Step == \/ UnlinkOldest \/ UnlinkFails
        \/ CloseCurrent \/ CloseFails
        \/ Rename \/ RenameFails \/ RenamesDone
        \/ OpenZero \/ OpenZeroFails
        \/ Write \/ WriteFails

Next == \/ Open
        \/ Step
        \/ Close
        \/ Crash
        \/ \E len \in Lens : AppendEvent(len)
        \/ \E n \in MaxNums, s \in MaxSizes : Reload(n, s)
        \/ \E j \in Index : Remove(j)

\* A thread inside the appender is never left unscheduled.
Spec == Init /\ [][Next]_vars /\ WF_vars(Step)
-----------------------------------------------------------------------------
TypeOK ==
  /\ maxNum \in MaxNums /\ maxSize \in MaxSizes
  /\ lastIndex \in -1..maxNum-1
  /\ flags \in {0, SW_LAST_FOPEN_FAILED}
  /\ fp \in Streams
  /\ size \in Nat
  /\ pc \in {"off", "idle", "create", "unlink", "close", "rename", "open", "write"}
  /\ k \in -1..maxNum-1 /\ i \in -1..maxNum-1 /\ rc \in {0, 1}
  /\ msg \in Lens \cup {NoMsg}
  /\ disk \in [Index -> File]
  /\ stderr \in {"open", "closed"}
  /\ sent \in 0..MaxMsgs
  /\ rotatedOut \subseteq Ids /\ console \subseteq Ids
  /\ faults \in 0..MaxFaults /\ loads \in 0..MaxLoads
  /\ failures \in 0..MaxFaults

(* Whatever fails and wherever the process dies, the indices order the log: *)
(* every message in a file is newer than every message in a file of a       *)
(* higher index.  A rename that ran past a failed one, or loops that start  *)
(* at the wrong end, would interleave old and new messages.                 *)
WindowOrdered ==
  \A a, b \in Index : a < b =>
    \A m \in disk[a].ids, n \in disk[b].ids : n < m

(* The rollover indexes sw_filenames, an array of maxNum names, only inside *)
(* its bounds: at the unlink, and for both names of every rename.           *)
RotateInBounds ==
  /\ pc = "unlink" => k \in 0..maxNum-1
  /\ pc = "rename" /\ i >= 0 => i + 1 <= maxNum - 1

(* SW_LAST_FOPEN_FAILED says that the stream is stderr exactly while it is, *)
(* so that a rollover never closes stderr.  Where a file is about to be     *)
(* opened, the stream it takes the place of is no open stream on a file of  *)
(* the disk: after a rotation it is closed or it is stderr; only the        *)
(* rollover that finds no file, which closes nothing, can leave a stream    *)
(* behind, and then one on a file that was removed.  Between a rollover and *)
(* the next the stream is a file or stderr; and stderr can have been closed *)
(* then, by rollingfile_close, only if two fopens of the process failed:    *)
(* one before that close and one after it.                                  *)
StreamMatchesFlag ==
  /\ pc \notin {"off", "open"} => (flags = SW_LAST_FOPEN_FAILED <=> fp = "stderr")
  /\ pc \in {"rename", "open"} => fp \in {"null", "closed", "stderr"}
  /\ pc = "create" => fp \in {"null", "unlinked", "stderr"}
  /\ pc \in {"idle", "write"} => fp \in {"zero", "unlinked", "stderr"}
  /\ fp = "stderr" /\ stderr = "closed" => failures >= 2

(* The appender never asks the file system for the size of its file: the    *)
(* counter it keeps is never below the bytes in file 0, however opening,    *)
(* rotating, writing or reloading went.                                     *)
SizeCountsFile ==
  fp = "zero" /\ pc \in {"idle", "write"} => disk[0].bytes \in 0..size

(* A write to a file that already holds a message never takes it past the   *)
(* size limit in force: only a message on its own may be longer.            *)
WriteRespectsLimit ==
  [][ /\ pc = "write" /\ disk[0].ids # {} /\ disk'[0].ids # disk[0].ids
      /\ maxSize > 0
      => disk'[0].bytes <= maxSize ]_vars

(* A thread that entered the appender leaves it, and gives up the mutex:    *)
(* the rollover ends whatever fails.                                        *)
AppendReturns ==
  pc \notin {"off", "idle"} ~> pc \in {"off", "idle"}

(* Without misbehaviour, a message is in the window, in the hand of the     *)
(* thread inside, or in a file that was unlinked as the oldest; and what    *)
(* was rotated out is older than all that is left, in the middle of a       *)
(* rollover too; and between two calls the window has no gap and last_index *)
(* is the index of its last file.                                           *)
NothingElseLost ==
  /\ 1..sent = Stored \cup rotatedOut \cup (IF msg = NoMsg THEN {} ELSE {sent})
  /\ \A a \in rotatedOut, b \in Stored : a < b
  /\ pc = "idle" => \A j \in Index : (disk[j] # Absent) <=> (j <= lastIndex)

(* Without misbehaviour the policy is a LogWindow: the files of the disk,   *)
(* newest first, but for the one index that the renaming loop leaves free.  *)
Present == {j \in Index : disk[j] # Absent}
Gap     == CHOOSE g \in 0..Cap : g \notin Present /\ \A j \in 0..g-1 : j \in Present
Nth(n)  == IF n <= Gap THEN n - 1 ELSE n

Window  == [n \in 1..Cardinality(Present) |-> disk[Nth(n)].ids]
Last    == IF msg = NoMsg THEN sent ELSE sent - 1

LW == INSTANCE LogWindow WITH window <- Window, limit <- maxNum, last <- Last

ImplementsLogWindow == LW!Spec

(* rollingpolicy_type_sizewin.h: at a rollover "files are shifted up by one *)
(* position", and only "the oldest file is rotated out".  So the messages   *)
(* of the current file stay on disk.                                        *)
RolloverKeepsNewest == [][disk[0].ids \subseteq Stored']_vars
=============================================================================
