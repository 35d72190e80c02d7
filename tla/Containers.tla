----------------------------- MODULE Containers -----------------------------
(***************************************************************************)
(* The three containers of sd/ together, each by itself: a program calls   *)
(* one of them, which is chosen at the start, and the others stay as they  *)
(* are.                                                                    *)
(***************************************************************************)
EXTENDS Stack, Hash, List

VARIABLE subject

cvars == <<subject, hvars, lvars, svars>>

ContainersInit ==
  /\ subject \in {"hash", "list", "stack"}
  /\ HashInit /\ ListInit /\ StackInit
  /\ subject # "stack" => stack.max = INT_MAX

HashStep  == subject = "hash" /\ HashNext /\ UNCHANGED <<subject, lvars, svars>>
ListStep  == subject = "list" /\ ListNext /\ UNCHANGED <<subject, hvars, svars>>
StackStep == subject = "stack" /\ StackNext /\ UNCHANGED <<subject, hvars, lvars>>

ContainersNext == HashStep \/ ListStep \/ StackStep

ContainersSpec == ContainersInit /\ [][ContainersNext]_cvars

-----------------------------------------------------------------------------
(* Of the hash table and of the list: a loop whose callback changes the     *)
(* container calls it once for each element that stays, and never goes on   *)
(* from one that was freed.                                                 *)
LoopsMeetAll == HashForeachOnce /\ ListLoopMeetsAll
=============================================================================
