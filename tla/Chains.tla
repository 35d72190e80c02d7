------------------------------- MODULE Chains -------------------------------
(***************************************************************************)
(* What the containers of sd/ have in common.  Iterators are cells of      *)
(* memory that are numbered, so that one that is freed and used while it   *)
(* is free, or handed out again, can be told; a link is the number of a    *)
(* cell, or Null.                                                          *)
(***************************************************************************)
EXTENDS Integers, Sequences, FiniteSets

Null == 0

\* malloc takes the lowest of the cells that are free.
Lowest(free) == CHOOSE m \in free : \A o \in free : m <= o

\* Where f, which leads from Null to Null, leads from n in 0, 1, 2 steps and so on.
Steps(n, f) ==
  LET at[j \in 0..Cardinality(DOMAIN f)] == IF j = 0 THEN n ELSE f[at[j-1]]
  IN  at

\* The cells from n on, along f.
Walk(n, f) ==
  LET at == Steps(n, f)
  IN  [j \in 1..Cardinality({k \in DOMAIN at : at[k] # Null}) |-> at[j-1]]

\* The first of them that is one of hits, or Null.
First(n, f, hits) ==
  Steps(n, [m \in DOMAIN f |-> IF m \in hits THEN m ELSE f[m]])[Cardinality(DOMAIN f)]
=============================================================================
