----------------------------- MODULE LogWindow -----------------------------
(***************************************************************************)
(* What the size-window policy promises (rollingpolicy_type_sizewin.h):    *)
(* a window of at most `limit' files, newest first.  Messages join the     *)
(* first file in the order they were logged; a rollover puts a new file in *)
(* front; when the window is full the oldest file is rotated out first.    *)
(* Nothing else ever leaves the window.                                    *)
(***************************************************************************)
EXTENDS Integers, Sequences

VARIABLES window,   \* the files, newest first, each the set of its messages
          limit,    \* how many files the window may hold
          last      \* number of the last message written

Init == /\ window = << >>
        /\ limit \in Nat \ {0}
        /\ last = 0

RotateOut == /\ Len(window) = limit
             /\ window' = SubSeq(window, 1, limit - 1)
             /\ UNCHANGED <<limit, last>>

NewFile == /\ Len(window) < limit
           /\ window' = <<{}>> \o window
           /\ UNCHANGED <<limit, last>>

Write == /\ window # << >>
         /\ last' = last + 1
         /\ window' = [window EXCEPT ![1] = @ \cup {last'}]
         /\ UNCHANGED limit

Next == RotateOut \/ NewFile \/ Write

Spec == Init /\ [][Next]_<<window, limit, last>>
=============================================================================
