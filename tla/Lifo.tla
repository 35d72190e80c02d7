-------------------------------- MODULE Lifo --------------------------------
(***************************************************************************)
(* What stack.h promises: last in, first out, up to a maximum.             *)
(***************************************************************************)
EXTENDS Sequences, Integers
CONSTANT Item
VARIABLES items, limit, got

Init == items = << >> /\ limit \in Nat /\ got = [by |-> "clear", rc |-> 0, data |-> << >>]

Top == IF items = << >> THEN << >> ELSE <<items[Len(items)]>>

Push ==
  /\ got'.by = "push"
  /\ IF Len(items) < limit
     THEN got'.rc = 0 /\ \E d \in Item : items' = Append(items, d)
     ELSE got'.rc = -1 /\ UNCHANGED items

Pop ==
  /\ items' = IF items = << >> THEN items ELSE SubSeq(items, 1, Len(items) - 1)
  /\ got' = [by |-> "pop", rc |-> 0, data |-> Top]

Peek  == got' = [by |-> "peek", rc |-> 0, data |-> Top] /\ UNCHANGED items
Clear == got'.by = "clear" /\ items' \in {items, << >>}
Look  == got'.by = "look" /\ UNCHANGED items

Next == (Push \/ Pop \/ Peek \/ Clear \/ Look) /\ UNCHANGED limit

Spec == Init /\ [][Next]_<<items, limit, got>>
=============================================================================
