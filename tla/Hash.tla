-------------------------------- MODULE Hash --------------------------------
(***************************************************************************)
(* The hash table under every factory (sd/hash.c): buckets of doubly       *)
(* linked iterators, an array that grows, and a foreach whose callback may *)
(* change the table.                                                       *)
(*                                                                         *)
(* Each function is one step, except sd_hash_foreach, which comes back     *)
(* between the call of its callback and what it does with the element      *)
(* after it.  A callback makes one call of the table at most: one that     *)
(* deleted its element and then looked something up would compare with the *)
(* NULL key that the deletion leaves behind.                               *)
(***************************************************************************)
EXTENDS Chains

CONSTANTS
  Keys,       \* keys in use
  KeyHash,    \* ops->hash of each
  NoKey,      \* key is 0
  Values,     \* data in use
  NoData,     \* data is 0
  Absent,     \* what the map has for a key that is not in the table
  InitSize,   \* a_size of sd_hash_new
  HashCells   \* memory for iterators

SD_HASH_FULLTAB == 2
SD_HASH_GROWTAB == 4

ASSUME KeysAssumption == NoKey \notin Keys /\ IsFiniteSet(Keys) /\ KeyHash \in [Keys -> Nat]
ASSUME ValuesAssumption == Absent \notin Values \cup {NoData}
ASSUME SizeAssumption == InitSize \in Nat \ {0}
ASSUME HashCellsAssumption ==
  /\ HashCells \subseteq Nat \ {Null} /\ IsFiniteSet(HashCells)
  /\ Cardinality(HashCells) >= Cardinality(Keys) + 1

VARIABLES
  table,       \* struct __sd_hash: tab, node (the iterators), nelem
  hpc,         \* "idle", or where sd_hash_foreach is: "loop" or "called"
  h, p,        \* its locals
  hcall,       \* what the last step called, with which key and datum
  hkept,       \* cells linked since the loop began, while it was not rehashed
  hvisits      \* how often the callback was called with each of them

hvars == <<table, hpc, h, p, hcall, hkept, hvisits>>

Iter(key, data, hkey, next, prev, foreach, used) ==
  [key |-> key, data |-> data, hkey |-> hkey, next |-> next, prev |-> prev,
   foreach |-> foreach, used |-> used]
FreeIter == Iter(NoKey, NoData, 0, Null, Null, 0, 0)

\* A cell with other neighbours, and one with other contents.
Joined(c, next, prev) == Iter(c.key, c.data, c.hkey, next, prev, c.foreach, c.used)
Filled(c, key, data, foreach) == Iter(key, data, c.hkey, c.next, c.prev, foreach, c.used)

TableOf(tab, node, nelem) == [tab |-> tab, node |-> node, nelem |-> nelem]
Empty(size) == [b \in 0..size-1 |-> Null]

\* Iterator n becomes c.
With(t, n, c) == TableOf(t.tab, [m \in HashCells |-> IF m = n THEN c ELSE t.node[m]], t.nelem)

SizeOf(t) == Cardinality(DOMAIN t.tab)
Used(t)   == {n \in HashCells : t.node[n].used = 1}

hindex(t, n) == t.node[n].hkey % SizeOf(t)

NextIter(t) == [n \in HashCells \cup {Null} |-> IF n = Null THEN Null ELSE t.node[n].next]

\* The cells of bucket b, by following __next.
Bucket(t, b) == Walk(t.tab[b], NextIter(t))

\* All cells, bucket by bucket.
AllNodes(t) ==
  LET upto[b \in 0..SizeOf(t)] == IF b = 0 THEN << >> ELSE upto[b-1] \o Bucket(t, b - 1)
  IN  upto[SizeOf(t)]

-----------------------------------------------------------------------------
\* Variant: a cell linked in front of another keeps its old __prev.
LinkKeepsPrev(t, n) ==
  LET b == hindex(t, n)
      q == t.tab[b]
  IN  TableOf([t.tab EXCEPT ![b] = n],
              [m \in HashCells |->
                 IF m = n THEN Joined(t.node[n], q, t.node[n].prev)
                 ELSE IF m = q THEN Joined(t.node[q], t.node[q].next, n) ELSE t.node[m]],
              t.nelem)

\* A cell becomes the head of its bucket.
Link(t, n) ==
  LET b == hindex(t, n)
      q == t.tab[b]
  IN  TableOf([t.tab EXCEPT ![b] = n],
              [m \in HashCells |->
                 IF m = n THEN Joined(t.node[n], q, Null)
                 ELSE IF m = q THEN Joined(t.node[q], t.node[q].next, n) ELSE t.node[m]],
              t.nelem)

(* rehash: a larger array, to which every cell is moved in turn. *)
rehash(t) ==
  LET all == AllNodes(t)
      moved[j \in 0..Len(all)] ==
        IF j = 0 THEN TableOf(Empty(SD_HASH_GROWTAB * SizeOf(t)), t.node, t.nelem)
        ELSE Link(moved[j-1], all[j])
  IN  moved[Len(all)]

(* sd_hash_lookup: the first cell with the key, or Null. *)
sd_hash_lookup(t, k) ==
  First(t.tab[KeyHash[k] % SizeOf(t)], NextIter(t), {n \in Used(t) : t.node[n].key = k})

FullTable(t) == t.nelem > SD_HASH_FULLTAB * SizeOf(t)

\* The rest of sd_hash_lookadd: a new cell for a key that was not found.
Insert(t, k, d) ==
  LET n == Lowest(HashCells \ Used(t))
      s == IF FullTable(t) THEN rehash(t) ELSE t
      new == With(s, n, Iter(k, d, KeyHash[k], Null, Null, 0, 1))
  IN  Link(TableOf(new.tab, new.node, t.nelem + 1), n)

(* sd_hash_add is sd_hash_lookadd, and sets the data. *)
sd_hash_lookadd(t, k) == IF sd_hash_lookup(t, k) = Null THEN Insert(t, k, NoData) ELSE t
sd_hash_add(t, k, d) ==
  LET n == sd_hash_lookup(t, k)
  IN  IF n = Null THEN Insert(t, k, d)
      ELSE With(t, n, Filled(t.node[n], t.node[n].key, d, t.node[n].foreach))

\* Cell n, whose neighbours are a and b, is freed.
Released(t, n, a, b) ==
  [m \in HashCells |->
     IF m = n THEN FreeIter
     ELSE Joined(t.node[m], IF m = a THEN b ELSE t.node[m].next,
                 IF m = b THEN a ELSE t.node[m].prev)]

\* Variant: the predecessor of the first cell is not the array.
UnlinkForgetsHead(t, n) ==
  TableOf(t.tab, Released(t, n, t.node[n].prev, t.node[n].next), t.nelem - 1)

\* A cell is taken out of its bucket and freed.
UnlinkIter(t, n) ==
  LET a == t.node[n].prev
      b == t.node[n].next
  IN  TableOf([t.tab EXCEPT ![hindex(t, n)] = IF a = Null THEN b ELSE @],
              Released(t, n, a, b), t.nelem - 1)

(* sd_hash_iter_del: the element of a running callback is only emptied, and *)
(* unlinked when the callback has returned.                                 *)
sd_hash_iter_del(t, n) ==
  IF t.node[n].foreach = 1 THEN With(t, n, Filled(t.node[n], NoKey, NoData, 0))
  ELSE UnlinkIter(t, n)

(* sd_hash_clear, and sd_hash_new of the size *)
Cleared(size) == TableOf(Empty(size), [n \in HashCells |-> FreeIter], 0)

\* The first cell of the buckets from b on.
FirstFrom(t, b) ==
  LET full == {c \in DOMAIN t.tab : c >= b /\ t.tab[c] # Null}
  IN  IF full = {} THEN Null ELSE t.tab[Lowest(full)]

sd_hash_begin(t) == FirstFrom(t, 0)
sd_hash_iter_next(t, n) ==
  IF t.node[n].next # Null THEN t.node[n].next ELSE FirstFrom(t, hindex(t, n) + 1)

-----------------------------------------------------------------------------
Made(by, key, data) == [by |-> by, key |-> key, data |-> data]
NoCall == Made("none", NoKey, NoData)

\* What a caller, or the callback, does to the table, and the call it was;
\* the last is sd_hash_del.
HashCalls(t) ==
  {<<sd_hash_lookadd(t, k), Made("lookadd", k, NoData)>> : k \in Keys}
  \cup {<<sd_hash_add(t, k, d), Made("add", k, d)>> : k \in Keys, d \in Values}
  \cup {<<sd_hash_iter_del(t, sd_hash_lookup(t, k)), Made("del", k, NoData)>> :
          k \in {x \in Keys : sd_hash_lookup(t, x) # Null}}

Happens(call) == table' = call[1] /\ hcall' = call[2]

HashCall ==
  /\ hpc = "idle"
  /\ \/ \E call \in HashCalls(table) : Happens(call)
     \/ Happens(<<Cleared(SizeOf(table)), Made("clear", NoKey, NoData)>>)
  /\ UNCHANGED <<hpc, h, p, hkept, hvisits>>

(* sd_hash_foreach begins. *)
HashForeach ==
  /\ hpc = "idle"
  /\ hpc' = "loop"
  /\ h' = 0 /\ p' = table.tab[0]
  /\ hvisits' = [n \in HashCells |-> 0]
  /\ hkept' = Used(table)
  /\ hcall' = NoCall
  /\ UNCHANGED table

\* Back from sd_hash_foreach: its locals are gone.
HashReturn ==
  /\ hpc' = "idle"
  /\ h' = 0 /\ p' = Null
  /\ hkept' = {} /\ hvisits' = [n \in HashCells |-> 0]

MarkedIter(t, n, foreach) == With(t, n, Filled(t.node[n], t.node[n].key, t.node[n].data, foreach))

(* An element is marked and the callback called, which does something to    *)
(* the table or not.                                                        *)
HashVisit ==
  /\ hpc = "loop" /\ p # Null
  /\ LET marked == MarkedIter(table, p, 1)
     IN  Happens(<<marked, NoCall>>) \/ \E call \in HashCalls(marked) : Happens(call)
  /\ hkept' = IF SizeOf(table') = SizeOf(table)
              THEN {n \in hkept : n \in Used(table') /\ table'.node[n].key = table.node[n].key}
              ELSE {}
  /\ hvisits' = [n \in HashCells |-> IF n \notin hkept' THEN 0
                                     ELSE IF n = p THEN hvisits[n] + 1 ELSE hvisits[n]]
  /\ hpc' = "called"
  /\ UNCHANGED <<h, p>>

(* The callback has returned: the next cell is read, then an element that   *)
(* was deleted meanwhile is unlinked.  If it returned anything but 0 the    *)
(* loop ends here.                                                          *)
HashAfter ==
  /\ hpc = "called"
  /\ table' = IF table.node[p].foreach = 0 THEN sd_hash_iter_del(table, p)
              ELSE MarkedIter(table, p, 0)
  /\ hcall' = NoCall
  /\ \/ HashReturn
     \/ /\ p' = table.node[p].next
        /\ hpc' = "loop"
        /\ UNCHANGED <<h, hkept, hvisits>>

NextBucket ==
  /\ hpc = "loop" /\ p = Null /\ h + 1 < SizeOf(table)
  /\ h' = h + 1 /\ p' = table.tab[h + 1]
  /\ hcall' = NoCall
  /\ UNCHANGED <<table, hpc, hkept, hvisits>>

HashEnd ==
  /\ hpc = "loop" /\ p = Null /\ h + 1 >= SizeOf(table)
  /\ HashReturn
  /\ hcall' = NoCall
  /\ UNCHANGED table

HashInit ==
  /\ table = Cleared(InitSize)
  /\ hpc = "idle" /\ h = 0 /\ p = Null
  /\ hcall = NoCall
  /\ hvisits = [n \in HashCells |-> 0] /\ hkept = {}

HashNext == HashCall \/ HashForeach \/ HashVisit \/ HashAfter \/ NextBucket \/ HashEnd

HashSpec == HashInit /\ [][HashNext]_hvars

-----------------------------------------------------------------------------
Iters == [key : Keys \cup {NoKey}, data : Values \cup {NoData}, hkey : Nat,
          next : HashCells \cup {Null}, prev : HashCells \cup {Null},
          foreach : {0, 1}, used : {0, 1}]
CallRecords == [by : {"none", "lookadd", "add", "del", "clear"},
                key : Keys \cup {NoKey}, data : Values \cup {NoData}]

HashTypes ==
  /\ SizeOf(table) \in Nat \ {0}
  /\ table = TableOf(table.tab, table.node, table.nelem)
  /\ table.tab \in [0..SizeOf(table)-1 -> HashCells \cup {Null}]
  /\ table.node \in [HashCells -> Iters] /\ table.nelem \in Nat
  /\ hpc \in {"idle", "loop", "called"}
  /\ hcall \in CallRecords
  /\ h \in Nat /\ p \in HashCells \cup {Null}
  /\ hvisits \in [HashCells -> Nat] /\ hkept \subseteq HashCells

(* Every cell in use is in the bucket of its hash, once, and in no other;   *)
(* going back undoes going on; nelem counts them; and from sd_hash_begin,   *)
(* sd_hash_iter_next leads through them all, as the factories that list and *)
(* delete their products rely on.  Also after the array grew, and while a   *)
(* callback's element waits to be unlinked.                                 *)
ChainsSound ==
  LET all == AllNodes(table)
  IN  /\ Len(all) = table.nelem
      /\ Cardinality(Used(table)) = table.nelem
      /\ {all[j] : j \in 1..Len(all)} = Used(table)
      /\ \A b \in DOMAIN table.tab :
           LET c == Bucket(table, b)
           IN  \A j \in 1..Len(c) :
                 /\ hindex(table, c[j]) = b
                 /\ table.node[c[j]].prev = IF j = 1 THEN Null ELSE c[j-1]
      /\ sd_hash_begin(table) = IF all = << >> THEN Null ELSE all[1]
      /\ \A j \in 1..Len(all) :
           sd_hash_iter_next(table, all[j]) = IF j = Len(all) THEN Null ELSE all[j+1]

(* The table is a map, as sd_hash_lookup sees it: each call has, for the    *)
(* key and datum it was given, the effect that hash.h says it has and no    *)
(* other, in the middle of a foreach too; and the steps that call nothing,  *)
(* the unlinking after a callback among them, change nothing.               *)
HashContents ==
  [k \in Keys |-> LET n == sd_hash_lookup(table, k)
                  IN  IF n = Null THEN Absent ELSE table.node[n].data]

HM == INSTANCE HashMap WITH Key <- Keys, Data <- Values, map <- HashContents, call <- hcall

ImplementsHashMap == HM!Spec

(* "Calls a_func for each element of the hash table": an element that stays *)
(* in the table during the loop has its call once, whatever the callback    *)
(* adds or deletes besides, as long as the array does not grow; and the     *)
(* loop never holds a cell that has been freed.                             *)
HashForeachOnce ==
  /\ hpc # "idle" /\ p # Null => p \in Used(table)
  /\ hpc # "idle" => \A n \in hkept : hvisits[n] <= 1
  /\ hpc = "loop" /\ p = Null /\ h = SizeOf(table) - 1 => \A n \in hkept : hvisits[n] = 1
=============================================================================
