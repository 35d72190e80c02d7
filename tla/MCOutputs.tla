----------------------------- MODULE MCOutputs -----------------------------
(* What an appender does with its FILE, and what becomes of a message on its *)
(* way there, each by itself.  Messages that fit every buffer, the event's   *)
(* buffer only, and none; a mapping that holds less than two short lines.    *)
EXTENDS Streams, Message, TLC

CONSTANTS t1, t2

VARIABLE subject

MCPriorities == {-250, 99, 300, 850}

Start ==
  /\ subject \in {"stream", "message"}
  /\ Init /\ MessageInit
  /\ subject = "message" => type = "stream"
  /\ subject = "stream" => layout = "none" /\ sink = "file" /\ bufsize = 0

StreamStep  == subject = "stream" /\ Next /\ UNCHANGED <<subject, mvars>>
MessageStep == subject = "message" /\ MessageNext /\ UNCHANGED <<subject, vars>>

OutputsSpec == Start /\ [][StreamStep \/ MessageStep]_<<subject, vars, mvars>>

SameThreads == Permutations(Threads)
=============================================================================
