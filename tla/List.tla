-------------------------------- MODULE List --------------------------------
(***************************************************************************)
(* The doubly linked list under the configuration tree and the registries  *)
(* of types (sd/list.c): a head, a tail, a count, and two loops, forwards  *)
(* and backwards, whose callback may change the list.                      *)
(*                                                                         *)
(* Each function is one step, except the loops, which come back between    *)
(* the call of the callback and what they do with the element after it.  A *)
(* callback makes one call at most: an element whose callback deletes it   *)
(* twice is freed at once by the second deletion and used by the loop      *)
(* afterwards.                                                             *)
(***************************************************************************)
EXTENDS Chains, SequencesExt

CONSTANTS
  Data,       \* data in use: numbers, which sd_list_sortadd compares
  ListCells   \* memory for iterators

ASSUME ListAssumption ==
  /\ Data \subseteq Nat \ {Null}
  /\ ListCells \subseteq Nat \ {Null} /\ IsFiniteSet(ListCells)

VARIABLES
  list,       \* struct __sd_list: head, tail, nelem, and node, the iterators
  lpc,        \* "idle", or where a loop is: "loop" or "called"
  forward,    \* sd_list_foreach or sd_list_rforeach
  iter,       \* its local i
  lkept,      \* cells that were in the list when the loop began, and still are
  lvisits     \* how often the callback was called with each of them

lvars == <<list, lpc, forward, iter, lkept, lvisits>>

Element(data, next, prev, foreach, used) ==
  [data |-> data, next |-> next, prev |-> prev, foreach |-> foreach, used |-> used]
FreeElement == Element(Null, Null, Null, 0, 0)

Linked(l) == {n \in ListCells : l.node[n].used = 1}
Room(l)   == Linked(l) # ListCells

ListOf(head, tail, nelem, node) == [head |-> head, tail |-> tail, nelem |-> nelem, node |-> node]

sd_list_new == ListOf(Null, Null, 0, [n \in ListCells |-> FreeElement])

\* The cells from the head on, by following __next, and back from the tail.
Forth(l) == [n \in ListCells \cup {Null} |-> IF n = Null THEN Null ELSE l.node[n].next]
Chain(l) == Walk(l.head, Forth(l))
Back(l)  == Walk(l.tail, [n \in ListCells \cup {Null} |-> IF n = Null THEN Null ELSE l.node[n].prev])

\* The cells, with a new cell n between a and b, or with a and b its neighbours no more.
Between(l, n, d, a, b) ==
  [m \in ListCells |->
     IF m = n THEN Element(d, b, a, 0, 1)
     ELSE Element(l.node[m].data, IF m = a THEN n ELSE l.node[m].next,
                  IF m = b THEN n ELSE l.node[m].prev, l.node[m].foreach, l.node[m].used)]

Without(l, n, a, b) ==
  [m \in ListCells |->
     IF m = n THEN FreeElement
     ELSE Element(l.node[m].data, IF m = a THEN b ELSE l.node[m].next,
                  IF m = b THEN a ELSE l.node[m].prev, l.node[m].foreach, l.node[m].used)]

Marked(l, n, foreach) ==
  ListOf(l.head, l.tail, l.nelem,
         [m \in ListCells |->
            IF m = n THEN Element(l.node[n].data, l.node[n].next, l.node[n].prev, foreach, l.node[n].used)
            ELSE l.node[m]])

-----------------------------------------------------------------------------
sd_list_lookup(l, d) == First(l.head, Forth(l), {n \in Linked(l) : l.node[n].data = d})

(* sd_list_add: the new cell becomes the head, and the tail of an empty list. *)
sd_list_add(l, d) ==
  LET n == Lowest(ListCells \ Linked(l))
  IN  ListOf(n, IF l.tail = Null THEN n ELSE l.tail, l.nelem + 1, Between(l, n, d, Null, l.head))

(* sd_list_prepend: the tail is set if no cell follows. *)
sd_list_prepend(l, d) ==
  LET n == Lowest(ListCells \ Linked(l))
  IN  ListOf(n, IF l.head = Null THEN n ELSE l.tail, l.nelem + 1, Between(l, n, d, Null, l.head))

\* Variant: the head of an empty list is not set.
AppendNoHead(l, d) ==
  LET n == Lowest(ListCells \ Linked(l))
  IN  ListOf(l.head, n, l.nelem + 1, Between(l, n, d, l.tail, Null))

sd_list_append(l, d) ==
  LET n == Lowest(ListCells \ Linked(l))
  IN  ListOf(IF l.tail = Null THEN n ELSE l.head, n, l.nelem + 1, Between(l, n, d, l.tail, Null))

(* sd_list_iter_insert: in front of cell m. *)
sd_list_iter_insert(l, m, d) ==
  LET n == Lowest(ListCells \ Linked(l))
  IN  IF l.head = m THEN sd_list_prepend(l, d)
      ELSE ListOf(l.head, l.tail, l.nelem + 1, Between(l, n, d, l.node[m].prev, m))

sd_list_lookadd(l, d) == IF sd_list_lookup(l, d) # Null THEN l ELSE sd_list_add(l, d)

(* sd_list_sortadd, with the order of numbers. *)
sd_list_sortadd(l, d) ==
  LET greater == First(l.head, Forth(l), {n \in Linked(l) : l.node[n].data > d})
  IN  IF greater = Null THEN sd_list_append(l, d) ELSE sd_list_iter_insert(l, greater, d)

\* A cell is unlinked and freed.
UnlinkElement(l, n) ==
  LET a == l.node[n].prev
      b == l.node[n].next
  IN  ListOf(IF a = Null THEN b ELSE l.head, IF b = Null THEN a ELSE l.tail, l.nelem - 1,
             Without(l, n, a, b))

\* Variant: the element of a running callback is freed at once.
IterDelNow(l, n) == UnlinkElement(l, n)

(* sd_list_iter_del: the element of a running callback is only marked. *)
sd_list_iter_del(l, n) ==
  IF l.node[n].foreach = 1 THEN Marked(l, n, 0) ELSE UnlinkElement(l, n)

(* sd_list_del: the first element with the data, or -1. *)
sd_list_del(l, d) ==
  IF sd_list_lookup(l, d) = Null THEN l ELSE sd_list_iter_del(l, sd_list_lookup(l, d))

(* sd_list_clear forgets the cells, and sd_list_delete frees them and the   *)
(* list: to the program both are a list without elements.                   *)
sd_list_clear(l) == ListOf(Null, Null, 0, [n \in ListCells |-> FreeElement])

-----------------------------------------------------------------------------
\* What a caller, or the callback, does to the list.
Additions(l) ==
  (UNION {{sd_list_add(l, d), sd_list_prepend(l, d), sd_list_append(l, d), sd_list_lookadd(l, d),
           sd_list_sortadd(l, d)} : d \in Data})
  \cup {sd_list_iter_insert(l, n, d) : n \in Linked(l), d \in Data}
Deletions(l) == {sd_list_del(l, d) : d \in Data} \cup {sd_list_iter_del(l, n) : n \in Linked(l)}
ListCalls(l) == Deletions(l) \cup IF Room(l) THEN Additions(l) ELSE {}

ListCall ==
  /\ lpc = "idle"
  /\ list' \in ListCalls(list) \cup {sd_list_clear(list)}
  /\ UNCHANGED <<lpc, forward, iter, lkept, lvisits>>

(* sd_list_foreach and sd_list_rforeach begin. *)
ListForeach ==
  /\ lpc = "idle"
  /\ forward' \in BOOLEAN
  /\ iter' = IF forward' THEN list.head ELSE list.tail
  /\ lpc' = "loop"
  /\ lvisits' = [n \in ListCells |-> 0]
  /\ lkept' = Linked(list)
  /\ UNCHANGED list

ListReturn ==
  /\ lpc' = "idle"
  /\ iter' = Null /\ forward' = TRUE
  /\ lkept' = {} /\ lvisits' = [n \in ListCells |-> 0]

(* An element is marked and the callback called. *)
ListVisit ==
  /\ lpc = "loop" /\ iter # Null
  /\ LET marked == Marked(list, iter, 1)
     IN  list' \in ListCalls(marked) \cup {marked}
  /\ lkept' = {n \in lkept : n \in Linked(list') /\ (n = iter => list'.node[n].foreach = 1)}
  /\ lvisits' = [n \in ListCells |-> IF n \notin lkept' THEN 0
                                     ELSE IF n = iter THEN lvisits[n] + 1 ELSE lvisits[n]]
  /\ lpc' = "called"
  /\ UNCHANGED <<forward, iter>>

Follow(l) == IF forward THEN l.node[iter].next ELSE l.node[iter].prev

\* The element that was deleted meanwhile is unlinked.
Settled(l) ==
  IF l.node[iter].foreach = 0 THEN sd_list_iter_del(l, iter) ELSE Marked(l, iter, 0)

(* Back from the callback: the neighbour is read before the element may go. *)
ListAfter ==
  /\ lpc = "called"
  /\ list' = Settled(list)
  /\ \/ ListReturn
     \/ /\ iter' = Follow(list)
        /\ lpc' = "loop"
        /\ UNCHANGED <<forward, lkept, lvisits>>

ListEnd == lpc = "loop" /\ iter = Null /\ ListReturn /\ UNCHANGED list

ListInit ==
  /\ list = sd_list_new
  /\ lpc = "idle" /\ iter = Null /\ forward = TRUE
  /\ lkept = {} /\ lvisits = [n \in ListCells |-> 0]

ListNext == ListCall \/ ListForeach \/ ListVisit \/ ListAfter \/ ListEnd

ListSpec == ListInit /\ [][ListNext]_lvars

-----------------------------------------------------------------------------
Elements == [data : Data \cup {Null}, next : ListCells \cup {Null}, prev : ListCells \cup {Null},
             foreach : {0, 1}, used : {0, 1}]

ListTypes ==
  /\ list = ListOf(list.head, list.tail, list.nelem, list.node)
  /\ list.head \in ListCells \cup {Null} /\ list.tail \in ListCells \cup {Null}
  /\ list.nelem \in Nat /\ list.node \in [ListCells -> Elements]
  /\ lpc \in {"idle", "loop", "called"} /\ forward \in BOOLEAN
  /\ iter \in ListCells \cup {Null}
  /\ lkept \subseteq ListCells /\ lvisits \in [ListCells -> Nat]

(* A loop in either direction holds no freed cell, and calls its callback   *)
(* once for each element that stays in the list, whatever the callback adds *)
(* or deletes besides; and between the calls of the callback too the links  *)
(* lead through the same cells in both directions, all that are in use.     *)
ListLoopMeetsAll ==
  /\ Back(list) = Reverse(Chain(list))
  /\ ToSet(Chain(list)) = Linked(list) /\ Cardinality(Linked(list)) = list.nelem
  /\ lpc # "idle" /\ iter # Null => iter \in Linked(list)
  /\ lpc # "idle" => \A n \in lkept : lvisits[n] <= 1
  /\ lpc = "loop" /\ iter = Null => \A n \in lkept : lvisits[n] = 1

(* The list is a sequence of data to which a call adds one or of which it   *)
(* takes one; the others keep their order, in the middle of a loop too.     *)
ListContents == LET c == Chain(list) IN [j \in 1..Len(c) |-> list.node[c[j]].data]

DL == INSTANCE DataList WITH seq <- ListContents

ImplementsDataList == DL!Spec
=============================================================================
