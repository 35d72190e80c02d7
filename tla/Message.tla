------------------------------ MODULE Message ------------------------------
(***************************************************************************)
(* What becomes of a message between __log4c_category_vlog and what an     *)
(* appender writes: the buffers, the layout, and three ends of it, a FILE, *)
(* syslog and a mapped file.  Threads log through one category with one    *)
(* appender, whose mutex, where its type has one, is not taken before the  *)
(* type's append.                                                          *)
(*                                                                         *)
(* A character is its event and its place in the whole line of the event.  *)
(* Each call of snprintf, of strlen or of memcpy is a step.  Undefined     *)
(* behaviour stops the model with the reason in `broken'.                  *)
(***************************************************************************)
EXTENDS Integers, Sequences, FiniteSetsExt

CONSTANTS
  Threads,
  Lengths, Priorities,     \* of the messages
  Header,                  \* the length of priority and category in a line
  BufSizes,                \* values of config.bufsize
  LOG4C_BUFFER_SIZE_DEFAULT, STATIC_BUFFER, SPRINTF_BUFFER,   \* 512, 1024, 1024
  MAPPED,                  \* the length of the mapped file
  MaxMessages              \* bound: messages of a thread

ASSUME MessageAssumption ==
  /\ Header \in Nat /\ Lengths \subseteq Nat /\ BufSizes \subseteq Nat /\ Priorities \subseteq Int
  /\ LOG4C_BUFFER_SIZE_DEFAULT \in Nat /\ LOG4C_BUFFER_SIZE_DEFAULT > 3
  /\ STATIC_BUFFER \in Nat /\ STATIC_BUFFER > Header /\ MAPPED \in Nat \ {0}
  /\ SPRINTF_BUFFER \in Nat /\ MaxMessages \in Nat

VARIABLES
  layout, sink, bufsize,   \* of the configuration
  tpc,                     \* of each thread: "idle", "render", "append", "store"
  evt,                     \* evt: what it logs, and the length of evt_msg
  shared,                  \* the static buffer of the layout
  evt_buffer,              \* of each thread
  length, available,       \* locals of mmap_append
  mapping, ptr,            \* struct mmap_info
  written,                 \* the last line in the FILE or in the system's log
  flow,                    \* ghost: the characters stored in the mapping, in their order
  mixed, raced,            \* ghosts: whose static line is lost; two were in mmap_append
  broken                   \* "none", "args", "underflow", "outside"

config == <<layout, sink, bufsize>>
file   == <<mapping, ptr, flow, raced>>
mvars  == <<config, tpc, evt, shared, evt_buffer, length, available, file, written, mixed, broken>>

-----------------------------------------------------------------------------
\* The whole line of an event, and what of it is the message.
NewLine == 1
LineOf(e, n) == [j \in 1..Header + n + NewLine |->
                   <<e.thread, e.number, IF j = Header + n + NewLine THEN 0 ELSE j>>]
TextOf(e, n) == SubSeq(LineOf(e, n), Header + 1, Header + n)

FirstOf(s, n) == SubSeq(s, 1, Min({n, Len(s)}))
Dots == <<".", ".", ".">>

buf_size == IF bufsize = 0 THEN LOG4C_BUFFER_SIZE_DEFAULT ELSE bufsize

\* A message that its first buffer is too short for is formatted again, with
\* the arguments used up.
sd_vsprintf(n) == IF n < SPRINTF_BUFFER THEN "none" ELSE "args"

(* __log4c_category_vlog formats the message: in a buffer of the configured *)
(* size, or with sd_vsprintf, in one that grows.                            *)
Log(t) ==
  /\ tpc[t] = "idle" /\ broken = "none"
  /\ \E n \in Lengths, p \in IF sink = "syslog" THEN Priorities ELSE {0} :
       /\ evt[t].number < MaxMessages
       /\ evt' = [evt EXCEPT ![t] =
                    [thread |-> t, number |-> evt[t].number + 1, asked |-> n, priority |-> p,
                     len |-> IF bufsize = 0 THEN n ELSE Min({n, bufsize - 1})]]
       /\ broken' = IF bufsize = 0 THEN sd_vsprintf(n) ELSE "none"
  /\ tpc' = [tpc EXCEPT ![t] = "render"]
  /\ UNCHANGED <<config, shared, evt_buffer, length, available, file, written, mixed>>

\* Variant: a line that just fits without its newline is not marked.
TrimmedLate(line) ==
  IF Len(line) <= buf_size THEN FirstOf(line, buf_size - 1)
  ELSE FirstOf(line, buf_size - 4) \o Dots

\* basic_r_format, dated_r_format: as much as fits, marked if it is not all.
Trimmed(line) ==
  IF Len(line) < buf_size THEN line ELSE FirstOf(line, buf_size - 4) \o Dots

\* basic_format, dated_format: in the static buffer, whoever still needs it.
StaticFormat(t, line) ==
  /\ shared' = FirstOf(line, STATIC_BUFFER - 1)
  /\ mixed' = (mixed \ {t}) \cup {u \in Threads \ {t} : tpc[u] \in {"append", "store"}}
  /\ UNCHANGED <<evt_buffer, broken>>

\* basic_r_format, dated_r_format: in the event's own buffer.
ReentrantFormat(t, line) ==
  /\ IF Len(line) >= buf_size /\ buf_size < 4
     THEN broken' = "underflow" /\ UNCHANGED evt_buffer
     ELSE evt_buffer' = [evt_buffer EXCEPT ![t] = Trimmed(line)] /\ UNCHANGED broken
  /\ UNCHANGED <<shared, mixed>>

(* log4c_layout_format: by the type of the layout, or, without one, the     *)
(* message itself.                                                          *)
Render(t) ==
  /\ tpc[t] = "render" /\ broken = "none"
  /\ tpc' = [tpc EXCEPT ![t] = "append"]
  /\ LET line == LineOf(evt[t], evt[t].len)
     IN  \/ layout = "none" /\ UNCHANGED <<shared, evt_buffer, mixed, broken>>
         \/ layout = "static" /\ StaticFormat(t, line)
         \/ layout = "reentrant" /\ ReentrantFormat(t, line)
  /\ UNCHANGED <<config, evt, length, available, file, written>>

\* evt_rendered_msg
Rendered(t) ==
  CASE layout = "static"    -> shared
    [] layout = "reentrant" -> evt_buffer[t]
    [] layout = "none"      -> TextOf(evt[t], evt[t].len)

\* Quotients as in C, and log4c_priority_to_string and log4c_to_syslog_priority
\* as numbers.
Hundreds(a) == IF a < 0 THEN -((-a) \div 100) ELSE a \div 100
log4c_priority_to_string(a) == IF Hundreds(a) \in 0..10 THEN Hundreds(a) ELSE 10
log4c_to_syslog_priority(a) ==
  IF Hundreds(a + 1) < 0 THEN 0 ELSE IF Hundreds(a + 1) > 7 THEN 7 ELSE Hundreds(a + 1)

(* stream_append, stream2_append, syslog_append: one call writes the line.  *)
Append1(t) ==
  /\ tpc[t] = "append" /\ broken = "none" /\ sink # "mmap"
  /\ written' =
       {[evt |-> evt[t], line |-> Rendered(t), whose |-> IF t \in mixed THEN "mixed" ELSE "own",
         level |-> IF sink = "syslog" THEN log4c_to_syslog_priority(evt[t].priority) ELSE -1]}
  /\ tpc' = [tpc EXCEPT ![t] = "idle"]
  /\ mixed' = mixed \ {t}
  /\ UNCHANGED <<config, evt, shared, evt_buffer, length, available, file, broken>>

(* mmap_append measures the line and what is left of the mapping.           *)
MmapMeasure(t) ==
  /\ tpc[t] = "append" /\ broken = "none" /\ sink = "mmap"
  /\ length' = [length EXCEPT ![t] = Len(Rendered(t))]
  /\ available' = [available EXCEPT ![t] = MAPPED - ptr]
  /\ tpc' = [tpc EXCEPT ![t] = "store"]
  /\ raced' = (raced \/ \E u \in Threads \ {t} : tpc[u] = "store")
  /\ UNCHANGED <<config, evt, shared, evt_buffer, mapping, ptr, flow, written, mixed, broken>>

\* n characters of what is rendered now, if there are as many.
Copied(t, n) == [j \in 1..n |-> IF j <= Len(Rendered(t)) THEN Rendered(t)[j] ELSE "?"]

Put(cells, at, s) == [c \in DOMAIN cells |->
                        IF c \in at + 1..at + Len(s) THEN s[c - at] ELSE cells[c]]

Nothing == " "

\* Variant: the second part does not begin at the beginning of the mapping.
MmapStoreStays(t) ==
  /\ tpc[t] = "store" /\ broken = "none"
  /\ LET n == Min({length[t], available[t]})
     IN  /\ mapping' = Put(mapping, ptr, Copied(t, n))
         /\ ptr' = ptr + n
         /\ flow' = flow \o Copied(t, length[t])
  /\ tpc' = [tpc EXCEPT ![t] = "idle"] /\ mixed' = mixed \ {t}
  /\ UNCHANGED <<config, evt, shared, evt_buffer, length, available, raced, written, broken>>

(* It copies the line to where the pointer is; or as much of it as is left, *)
(* and then, at the beginning of the mapping, as many characters as remain, *)
(* which are again the first ones of the line.                              *)
MmapStore(t) ==
  /\ tpc[t] = "store" /\ broken = "none"
  /\ LET wraps  == length[t] > available[t]
         first  == IF wraps THEN available[t] ELSE 0
         second == length[t] - first
         at     == IF wraps THEN 0 ELSE ptr
     IN  IF ptr + first > MAPPED \/ at + second > MAPPED
         THEN broken' = "outside" /\ UNCHANGED <<mapping, ptr, flow>>
         ELSE /\ mapping' = Put(Put(mapping, ptr, Copied(t, first)), at, Copied(t, second))
              /\ ptr' = at + second
              /\ flow' = flow \o Copied(t, first) \o Copied(t, second)
              /\ UNCHANGED broken
  /\ tpc' = [tpc EXCEPT ![t] = "idle"]
  /\ mixed' = mixed \ {t}
  /\ UNCHANGED <<config, evt, shared, evt_buffer, length, available, raced, written>>

MessageInit ==
  /\ layout \in {"none", "static", "reentrant"}
  /\ sink \in {"file", "syslog", "mmap"}
  /\ bufsize \in BufSizes
  /\ tpc = [t \in Threads |-> "idle"]
  /\ evt = [t \in Threads |-> [thread |-> t, number |-> 0, asked |-> 0, priority |-> 0, len |-> 0]]
  /\ shared = << >> /\ evt_buffer = [t \in Threads |-> << >>]
  /\ length = [t \in Threads |-> 0] /\ available = [t \in Threads |-> 0]
  /\ mapping = [c \in 1..MAPPED |-> Nothing] /\ ptr = 0
  /\ written = {} /\ flow = << >>
  /\ mixed = {} /\ raced = FALSE
  /\ broken = "none"

MessageNext == \E t \in Threads :
          Log(t) \/ Render(t) \/ Append1(t) \/ MmapMeasure(t) \/ MmapStore(t)

MessageSpec == MessageInit /\ [][MessageNext]_mvars

-----------------------------------------------------------------------------
\* The longest line that fits into the buffer of a layout.
Limit == IF layout = "static" THEN STATIC_BUFFER - 1 ELSE buf_size - 1

(* What a thread may hand on for event e: the line of the message, or of as *)
(* much of it as the configured size allows, whole if it fits, and if not,  *)
(* its beginning, which fills the buffer with the mark.                     *)
Faithful(e, s) ==
  LET kept  == IF bufsize > 0 /\ e.asked >= bufsize THEN bufsize - 1 ELSE e.asked
      whole == IF layout = "none" THEN TextOf(e, kept) ELSE LineOf(e, kept)
      mark  == IF layout = "reentrant" THEN Dots ELSE << >>
  IN  \/ s = whole /\ (layout # "none" => Len(whole) <= Limit)
      \/ /\ layout # "none" /\ Len(whole) > Limit
         /\ s = FirstOf(whole, Limit - Len(mark)) \o mark

(* What is written for a message is its own line, character for character,  *)
(* whole, or, if it is too long for a buffer, the beginning that fills the  *)
(* buffer, with dots if the layout is re-entrant; a message longer than the *)
(* configured size is cut before it is laid out, and keeps its newline.     *)
(* Only a line in the static buffer of a layout may be lost to another      *)
(* thread.  Syslog's level is that of the priority's name, if the   *)
(* priority is not one below a hundred or below zero.                       *)
LinesHaveCause ==
  /\ \A r \in written :
       /\ r.whose = "own" => Faithful(r.evt, r.line)
       /\ r.level # -1 /\ r.evt.priority >= 0 /\ r.evt.priority % 100 # 99 =>
            r.level = Min({7, log4c_priority_to_string(r.evt.priority)})
  /\ mixed # {} => layout = "static"
  /\ broken = "args" => bufsize = 0
  /\ broken = "underflow" => layout = "reentrant" /\ bufsize \in 1..3

(* The mapping holds the last characters that were stored, each where it    *)
(* belongs in a ring, as long as the threads do not meet in mmap_append,    *)
(* although a line that goes on at the beginning goes on with its own       *)
(* beginning; and nothing is stored outside unless threads met, or a line   *)
(* is longer than all that was left and the mapping together.               *)
MappingIsRing ==
  /\ ~ raced =>
       /\ ptr % MAPPED = Len(flow) % MAPPED
       /\ \A c \in 1..MAPPED :
            LET at == {k \in DOMAIN flow : k % MAPPED = c % MAPPED}
            IN  mapping[c] = IF at = {} THEN Nothing
                             ELSE flow[Max(at)]
       /\ broken = "outside" => \E t \in Threads : length[t] > available[t] + MAPPED
=============================================================================
