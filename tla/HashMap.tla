------------------------------ MODULE HashMap ------------------------------
(***************************************************************************)
(* What hash.h promises: a table from keys to data, in which each call     *)
(* changes what it was given the key of, and nothing else.  The last call  *)
(* is part of the state, so that an implementation has to show the effect  *)
(* of the very function that was called, with its key and its datum.       *)
(***************************************************************************)
CONSTANTS Key, Data, NoKey, NoData, Absent
VARIABLES map, call

Call(by, k, d) == [by |-> by, key |-> k, data |-> d]
NoCall == Call("none", NoKey, NoData)

Init == map = [k \in Key |-> Absent] /\ call = NoCall

\* "Adds data associated with the given key", in place of what it had.
Add(k, d) == call' = Call("add", k, d) /\ map' = [map EXCEPT ![k] = d]

\* The iterator of the key, which it "creates if doesn't exist", without datum.
LookAdd(k) ==
  /\ call' = Call("lookadd", k, NoData)
  /\ map' = [map EXCEPT ![k] = IF @ = Absent THEN NoData ELSE @]

Del(k) == call' = Call("del", k, NoData) /\ map' = [map EXCEPT ![k] = Absent]

Clear == call' = Call("clear", NoKey, NoData) /\ map' = [k \in Key |-> Absent]

\* A step of a loop that calls nothing.
Quiet == call' = NoCall /\ UNCHANGED map

Next == \/ \E k \in Key : LookAdd(k) \/ Del(k) \/ \E d \in Data : Add(k, d)
        \/ Clear
        \/ Quiet

Spec == Init /\ [][Next]_<<map, call>>
=============================================================================
