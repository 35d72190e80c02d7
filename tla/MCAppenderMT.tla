---------------------------- MODULE MCAppenderMT ----------------------------
(* Three threads with lines of different lengths log through one appender.   *)
EXTENDS AppenderMT, TLC

CONSTANTS t1, t2, t3

MCThreads == {t1, t2, t3}
MCLenOf == t1 :> 1 @@ t2 :> 3 @@ t3 :> 2
=============================================================================
