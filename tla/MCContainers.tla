---------------------------- MODULE MCContainers ----------------------------
(***************************************************************************)
(* Four keys in a hash table of one bucket: the fourth makes it grow to    *)
(* four, in two of which two keys collide; keys with one hash can be       *)
(* exchanged, and so can the items of the stack.  A list of up to three    *)
(* cells.  A stack whose array starts at two slots and grows to three or   *)
(* eight, or is not to grow: its maximum is two, or one.                   *)
(***************************************************************************)
EXTENDS Containers, TLC

CONSTANTS k1, k2, k3, k4, i1, i2

MCKeyHash == (k1 :> 0) @@ (k2 :> 0) @@ (k3 :> 1) @@ (k4 :> 1)

Exchanges ==
  {a @@ b @@ c : a \in Permutations({k1, k2}), b \in Permutations({k3, k4}),
                 c \in Permutations({i1, i2})}
=============================================================================
