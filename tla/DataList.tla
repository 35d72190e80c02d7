------------------------------ MODULE DataList ------------------------------
(***************************************************************************)
(* What list.h promises: a sequence of data, to which a call adds one      *)
(* element, from which it takes one, or which it empties.                  *)
(***************************************************************************)
EXTENDS Sequences, Integers, SequencesExt
CONSTANT Data
VARIABLE seq

Init == seq = << >>

Add    == \E d \in Data, i \in 1..Len(seq) + 1 : seq' = InsertAt(seq, i, d)
Delete == \E i \in 1..Len(seq) : seq' = RemoveAt(seq, i)
Clear  == seq' = << >>

Next == Add \/ Delete \/ Clear

Spec == Init /\ [][Next]_seq
=============================================================================
