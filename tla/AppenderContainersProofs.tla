---------------------- MODULE AppenderContainersProofs ----------------------
(***************************************************************************)
(* The containers of sd/, and the appender that threads share: two models  *)
(* that have the lemmas about numbers in common and nothing else.          *)
(*                                                                         *)
(* Containers.  What holds of the hash table, the list and the stack for   *)
(* any keys, hashes, data, first sizes and maxima, in any order of calls,  *)
(* also of those that the callback of a loop makes.                        *)
(*                                                                         *)
(* The hash table and the list are chains of cells in a memory.  The proof *)
(* gives each chain a name, a sequence of cells, and shows what linking a  *)
(* cell in and taking one out make of it; that a walk along the links      *)
(* finds it; and how much of it a loop has met.  The chains are not in the *)
(* state: the invariants say that there are some (HashInv, ListInv).       *)
(*                                                                         *)
(* AppenderMT.  Mutual exclusion in the rolling file appender, for any set *)
(* of threads, any layout and any size limit: an opening, which takes no   *)
(* lock, never overlaps an opening or a write of another thread, and       *)
(* writes exclude one another.                                             *)
(*                                                                         *)
(* The argument has two halves.  Under the mutex: a thread is between lock *)
(* and unlock exactly if it owns the mutex.  Outside it: whoever opens is  *)
(* alone, because either the main thread opens before any other is born,   *)
(* or there is a single thread that logs.                                  *)
(*                                                                         *)
(* With a re-entrant layout a thread writes what it rendered, so that each *)
(* line that was finished stands at one place in the files.                *)
(*                                                                         *)
(* The sections: numbers and walks; linked chains; loops over them; the    *)
(* hash table; the list; the stack; the three together; the appender.      *)
(***************************************************************************)
EXTENDS Containers, AppenderMT, FiniteSetTheorems, SequenceTheorems, NaturalsInduction,
        WellFoundedInduction, TLAPS

-----------------------------------------------------------------------------
(* Numbers. *)

\* Every set of numbers has a least one, and malloc finds it.
LEMMA Least ==
  ASSUME NEW T \in SUBSET Nat, T # {}
  PROVE  Lowest(T) \in T /\ \A y \in T : Lowest(T) <= y
<1> DEFINE R == OpToRel(<, Nat)
<1>1. IsWellFoundedOn(R, Nat)
  BY NatLessThanWellFounded
<1>2. \A x, y \in Nat : <<x, y>> \in R <=> x < y
  BY DEF OpToRel
<1> HIDE DEF R
<1>3. \E x \in T : \A y \in T : ~ (<<y, x>> \in R)
  BY <1>1, WFMin
<1>4. PICK x \in T : \A y \in T : ~ (<<y, x>> \in R)
  BY <1>3
<1>5. ASSUME NEW y \in T PROVE x <= y
  <2>1. x \in Nat /\ y \in Nat
    OBVIOUS
  <2>2. ~ (y < x)
    BY <1>2, <1>4, <2>1
  <2> QED
    BY <2>1, <2>2
<1>6. \E m \in T : \A o \in T : m <= o
  BY <1>5
<1> QED
  BY <1>6 DEF Lowest

\* A set of numbers with 0 and all successors is all of them.
LEMMA Induction ==
  ASSUME NEW S \in SUBSET Nat, 0 \in S, \A n \in Nat : n \in S => n + 1 \in S
  PROVE  S = Nat
<1> SUFFICES ASSUME S # Nat PROVE FALSE
  OBVIOUS
<1>1. PICK x \in Nat \ S : \A y \in Nat \ S : x <= y
  BY Least
<1>2. x # 0 /\ x - 1 \in S
  BY <1>1
<1> QED
  BY <1>1, <1>2

-----------------------------------------------------------------------------
(* Chains: sequences of cells, none of which comes twice, that the links    *)
(* lead along.                                                              *)
At(c, j) == IF j \in 1..Len(c) THEN c[j] ELSE Null

Cells(c) == {c[j] : j \in 1..Len(c)}

Distinct(c) == \A i, j \in 1..Len(c) : c[i] = c[j] => i = j

\* Function f, over the cells S and Null, leads along c.
Leads(f, c, S) ==
  /\ c \in Seq(S) /\ Distinct(c)
  /\ DOMAIN f = S \cup {Null} /\ f[Null] = Null
  /\ \A j \in 1..Len(c) : f[c[j]] = At(c, j + 1)

Memory(S) == S \subseteq Nat \ {Null} /\ IsFiniteSet(S)

LEMMA LengthBound ==
  ASSUME NEW S, IsFiniteSet(S), NEW c \in Seq(S), Distinct(c)
  PROVE  /\ Len(c) \in Nat /\ Cardinality(S) \in Nat /\ Len(c) <= Cardinality(S)
         /\ Cells(c) \subseteq S /\ IsFiniteSet(Cells(c)) /\ Cardinality(Cells(c)) = Len(c)
<1>1. Len(c) \in Nat /\ c \in [1..Len(c) -> S]
  OBVIOUS
<1>2. Cells(c) \subseteq S
  BY <1>1 DEF Cells
<1>3. IsFiniteSet(1..Len(c)) /\ Cardinality(1..Len(c)) = Len(c)
  BY <1>1, FS_Interval, SMTT(30)
<1>4. c \in Bijection(1..Len(c), Cells(c))
  <2>1. c \in [1..Len(c) -> Cells(c)]
    BY <1>1 DEF Cells
  <2> QED
    BY <1>1, <2>1 DEF Distinct, Cells, Bijection, Injection, Surjection, IsInjective
<1>5. IsFiniteSet(Cells(c)) /\ Cardinality(Cells(c)) = Len(c)
  <2>1. ExistsBijection(1..Len(c), Cells(c))
    BY <1>4 DEF ExistsBijection
  <2> QED
    BY <1>3, <2>1, FS_Bijection
<1>6. Cardinality(S) \in Nat /\ Cardinality(Cells(c)) <= Cardinality(S)
  BY <1>2, FS_Subset, FS_CardinalityType
<1> QED
  BY <1>1, <1>2, <1>5, <1>6

\* w begins with n and goes on along f.
Follows(w, n, f, k) == w[0] = n /\ \A j \in 1..k : w[j] = f[w[j-1]]

LEMMA FollowsUnique ==
  ASSUME NEW k \in Nat, NEW n, NEW f, NEW v, NEW w, Follows(v, n, f, k), Follows(w, n, f, k)
  PROVE  \A j \in 0..k : v[j] = w[j]
<1> USE DEF Follows
<1> DEFINE T == {j \in Nat : j <= k => v[j] = w[j]}
<1>1. 0 \in T
  OBVIOUS
<1>2. ASSUME NEW j \in Nat, j \in T PROVE j + 1 \in T
  <2> SUFFICES ASSUME j + 1 <= k PROVE v[j+1] = w[j+1]
    OBVIOUS
  <2>1. j + 1 \in 1..k /\ (j + 1) - 1 = j /\ v[j] = w[j]
    BY <1>2
  <2> QED
    BY <2>1
<1>3. T \in SUBSET Nat
  OBVIOUS
<1> HIDE DEF T
<1>4. T = Nat
  BY <1>1, <1>2, <1>3, Induction
<1> QED
  BY <1>4 DEF T

\* What Steps returns, shown by a function that does what it says.
LEMMA StepsAre ==
  ASSUME NEW n, NEW f, Cardinality(DOMAIN f) \in Nat,
         NEW w, w = [j \in 0..Cardinality(DOMAIN f) |-> w[j]],
         Follows(w, n, f, Cardinality(DOMAIN f))
  PROVE  Steps(n, f) = w
<1> DEFINE k == Cardinality(DOMAIN f)
           Rule(a) == a = [j \in 0..k |-> IF j = 0 THEN n ELSE f[a[j-1]]]
           at == CHOOSE a : Rule(a)
<1>0. k \in Nat
  OBVIOUS
<1>1. Rule(w)
  <2>1. w = [j \in 0..k |-> w[j]] /\ w[0] = n /\ \A j \in 1..k : w[j] = f[w[j-1]]
    BY DEF Follows
  <2> HIDE DEF k
  <2>2. \A j \in 0..k : w[j] = IF j = 0 THEN n ELSE f[w[j-1]]
    BY <1>0, <2>1
  <2>3. [j \in 0..k |-> w[j]] = [j \in 0..k |-> IF j = 0 THEN n ELSE f[w[j-1]]]
    BY <2>2
  <2> QED
    BY <2>1, <2>3
<1>2. Rule(at)
  BY <1>1
<1>3. Steps(n, f) = at
  BY DEF Steps
<1> HIDE DEF at
<1>4. Follows(at, n, f, k) /\ at = [j \in 0..k |-> at[j]]
  <2> HIDE DEF k
  <2>1. at = [j \in 0..k |-> IF j = 0 THEN n ELSE f[at[j-1]]]
    BY <1>2
  <2>2. \A j \in 0..k : at[j] = IF j = 0 THEN n ELSE f[at[j-1]]
    BY <2>1
  <2>3. [j \in 0..k |-> at[j]] = [j \in 0..k |-> IF j = 0 THEN n ELSE f[at[j-1]]]
    BY <2>2
  <2>4. at[0] = n
    BY <1>0, <2>2
  <2>5. \A j \in 1..k : at[j] = f[at[j-1]]
    BY <1>0, <2>2
  <2>6. at = [j \in 0..k |-> at[j]]
    BY <2>1, <2>3
  <2> HIDE DEF Rule
  <2> QED
    BY <2>4, <2>5, <2>6 DEF Follows
<1>5. \A j \in 0..k : at[j] = w[j]
  <2> HIDE DEF k, Rule
  <2>1. k \in Nat /\ Follows(w, n, f, k)
    BY DEF k
  <2> QED
    BY <1>4, <2>1, FollowsUnique
<1> QED
  BY <1>3, <1>4, <1>5

(* Following the links finds the chain; and a search along them finds the   *)
(* first hit.                                                               *)
LEMMA WalkIs ==
  ASSUME NEW S, Memory(S), NEW f, NEW c, Leads(f, c, S)
  PROVE  Walk(At(c, 1), f) = c
<1> DEFINE k == Cardinality(S \cup {Null})
           w == [j \in 0..k |-> At(c, j + 1)]
<1>0. c \in Seq(S) /\ Distinct(c) /\ IsFiniteSet(S) /\ Null \notin S /\ DOMAIN f = S \cup {Null}
  BY DEF Memory, Leads
<1>1. Len(c) \in Nat /\ k \in Nat /\ Len(c) < k
  BY <1>0, LengthBound, FS_AddElement
<1>2. Steps(At(c, 1), f) = w
  <2> HIDE DEF k
  <2>1. w[0] = At(c, 1)
    BY <1>1
  <2>2. ASSUME NEW j \in 1..k PROVE w[j] = f[w[j-1]]
    <3>1. w[j] = At(c, j + 1) /\ w[j-1] = At(c, j)
      BY <1>1
    <3>2. CASE j \in 1..Len(c)
      BY <3>1, <3>2 DEF At, Leads
    <3>3. CASE j \notin 1..Len(c)
      <4>1. j + 1 \notin 1..Len(c)
        BY <1>1, <3>3
      <4> QED
        BY <3>1, <3>3, <4>1 DEF At, Leads
    <3> QED
      BY <3>2, <3>3
  <2>3. Follows(w, At(c, 1), f, k) /\ w = [j \in 0..k |-> w[j]]
    BY <2>1, <2>2 DEF Follows
  <2>4. Cardinality(DOMAIN f) = k
    BY <1>0 DEF k
  <2> HIDE DEF w
  <2> QED
    BY <1>1, <2>3, <2>4, StepsAre
<1>3. {j \in DOMAIN w : w[j] # Null} = 0..Len(c)-1
  <2> HIDE DEF k
  <2>1. ASSUME NEW j \in 0..k PROVE w[j] # Null <=> j \in 0..Len(c)-1
    <3>1. CASE j \in 0..Len(c)-1
      <4>1. j + 1 \in 1..Len(c) /\ c[j+1] \in S
        BY <1>0, <1>1, <3>1
      <4> QED
        BY <1>0, <3>1, <4>1 DEF At
    <3>2. CASE j \notin 0..Len(c)-1
      <4>1. j + 1 \notin 1..Len(c)
        BY <1>1, <3>2
      <4> QED
        BY <3>2, <4>1 DEF At
    <3> QED
      BY <3>1, <3>2
  <2>2. DOMAIN w = 0..k
    OBVIOUS
  <2> HIDE DEF w
  <2> QED
    BY <1>1, <2>1, <2>2
<1>4. Cardinality(0..Len(c)-1) = Len(c)
  <2>1. 0 \in Int /\ Len(c) - 1 \in Int
    BY <1>1
  <2>2. Cardinality(0..Len(c)-1) = IF 0 > Len(c) - 1 THEN 0 ELSE (Len(c) - 1) - 0 + 1
    BY <2>1, FS_Interval
  <2> QED
    BY <1>1, <2>2
<1>5. Walk(At(c, 1), f) = [j \in 1..Len(c) |-> w[j-1]]
  <2> HIDE DEF w
  <2> QED
    BY <1>2, <1>3, <1>4 DEF Walk
<1>6. \A j \in 1..Len(c) : w[j-1] = c[j]
  <2> HIDE DEF k
  <2> QED
    BY <1>1 DEF At
<1>7. [j \in 1..Len(c) |-> w[j-1]] = [j \in 1..Len(c) |-> c[j]]
  <2> HIDE DEF w
  <2> QED
    BY <1>6
<1>8. c = [j \in 1..Len(c) |-> c[j]]
  BY <1>0
<1> HIDE DEF w
<1> QED
  BY <1>5, <1>7, <1>8

LEMMA FirstIs ==
  ASSUME NEW S, Memory(S), NEW f, NEW c, Leads(f, c, S), NEW hits, Null \notin hits
  PROVE  \/ First(At(c, 1), f, hits) = Null /\ \A j \in 1..Len(c) : c[j] \notin hits
         \/ \E j \in 1..Len(c) : c[j] \in hits /\ First(At(c, 1), f, hits) = c[j]
<1> DEFINE k == Cardinality(S \cup {Null})
           g == [m \in DOMAIN f |-> IF m \in hits THEN m ELSE f[m]]
           stops == {j \in 1..Len(c)+1 : At(c, j) \in hits \cup {Null}}
           i == Lowest(stops)
           w == [j \in 0..k |-> At(c, IF j + 1 < i THEN j + 1 ELSE i)]
<1>0. c \in Seq(S) /\ Distinct(c) /\ IsFiniteSet(S) /\ Null \notin S /\ DOMAIN f = S \cup {Null}
  BY DEF Memory, Leads
<1>1. Len(c) \in Nat /\ k \in Nat /\ Len(c) < k
  BY <1>0, LengthBound, FS_AddElement
<1>2. stops \in SUBSET Nat /\ Len(c) + 1 \in stops
  BY <1>1 DEF At
<1>3. i \in stops /\ \A j \in stops : i <= j
  <2> HIDE DEF stops
  <2> QED
    BY <1>2, Least
<1> HIDE DEF i
<1>4. i \in 1..Len(c)+1 /\ At(c, i) \in hits \cup {Null} /\ \A j \in 1..i-1 : At(c, j) \notin hits \cup {Null}
  BY <1>1, <1>3
<1> HIDE DEF stops
<1>5. \A j \in 1..Len(c) : c[j] \in S /\ c[j] # Null
  BY <1>0, <1>1
<1>6. Steps(At(c, 1), g) = w
  <2> HIDE DEF k
  <2>1. w[0] = At(c, 1)
    BY <1>1, <1>4
  <2>2. ASSUME NEW j \in 1..k PROVE w[j] = g[w[j-1]]
    <3>1. CASE j < i
      <4>1. w[j] = At(c, j + 1) /\ w[j-1] = At(c, j)
        BY <1>1, <1>4, <3>1
      <4>2. j \in 1..Len(c) /\ c[j] \notin hits
        BY <1>1, <1>4, <3>1 DEF At
      <4>3. f[c[j]] = At(c, j + 1) /\ c[j] \in DOMAIN f
        BY <1>0, <1>5, <4>2 DEF Leads
      <4> QED
        BY <4>1, <4>2, <4>3 DEF At
    <3>2. CASE ~ j < i
      <4>1. w[j] = At(c, i) /\ w[j-1] = At(c, i)
        BY <1>1, <1>4, <3>2
      <4>2. At(c, i) \in DOMAIN f
        BY <1>0, <1>5 DEF At
      <4>3. g[At(c, i)] = At(c, i)
        BY <1>4, <4>2 DEF Leads
      <4> QED
        BY <4>1, <4>3
    <3> QED
      BY <3>1, <3>2
  <2>3. Follows(w, At(c, 1), g, k) /\ w = [j \in 0..k |-> w[j]]
    BY <2>1, <2>2 DEF Follows
  <2>4. Cardinality(DOMAIN g) = k
    BY <1>0 DEF k
  <2> HIDE DEF w, g
  <2> QED
    BY <1>1, <2>3, <2>4, StepsAre
<1>7. First(At(c, 1), f, hits) = w[k]
  <2>1. Cardinality(DOMAIN f) = k
    BY <1>0
  <2> HIDE DEF w, k
  <2> QED
    BY <1>6, <2>1 DEF First
<1>8. w[k] = At(c, i)
  <2> HIDE DEF k
  <2> QED
    BY <1>1, <1>4
<1>9. CASE i = Len(c) + 1
  <2>1. At(c, i) = Null
    BY <1>1, <1>9 DEF At
  <2>2. \A j \in 1..Len(c) : c[j] \notin hits
    BY <1>1, <1>4, <1>9 DEF At
  <2> HIDE DEF w, k
  <2> QED
    BY <1>7, <1>8, <2>1, <2>2
<1>10. CASE i # Len(c) + 1
  <2>1. i \in 1..Len(c) /\ At(c, i) = c[i]
    BY <1>1, <1>4, <1>10 DEF At
  <2>2. c[i] \in hits
    BY <1>4, <1>5, <2>1
  <2> HIDE DEF w, k
  <2> QED
    BY <1>7, <1>8, <2>1, <2>2
<1> QED
  BY <1>9, <1>10

-----------------------------------------------------------------------------
(* Doubly linked chains, and what becomes of them when a cell is linked in  *)
(* at place k, or taken out from there.                                     *)
Linear(c, node, S) ==
  /\ c \in Seq(S) /\ Distinct(c)
  /\ \A j \in 1..Len(c) : node[c[j]].next = At(c, j + 1) /\ node[c[j]].prev = At(c, j - 1)

Inserted(c, k, n) ==
  [j \in 1..Len(c)+1 |-> IF j < k THEN c[j] ELSE IF j = k THEN n ELSE c[j-1]]

Removed(c, k) == [j \in 1..Len(c)-1 |-> IF j < k THEN c[j] ELSE c[j+1]]

\* a comes before b.
Before(c, a, b) == \E i, j \in 1..Len(c) : i < j /\ c[i] = a /\ c[j] = b

\* The cells that two chains share are in the same order.
SameOrder(c, d) ==
  \A a, b \in Cells(c) \cap Cells(d) : Before(c, a, b) <=> Before(d, a, b)

LEMMA InsertedIs ==
  ASSUME NEW S, NEW c \in Seq(S), NEW n \in S, NEW k \in 1..Len(c)+1
  PROVE  /\ Inserted(c, k, n) \in Seq(S) /\ Len(Inserted(c, k, n)) = Len(c) + 1
         /\ \A j \in 1..Len(c)+1 : Inserted(c, k, n)[j] =
              IF j < k THEN c[j] ELSE IF j = k THEN n ELSE c[j-1]
         /\ \A j \in Int : At(Inserted(c, k, n), j) =
              IF j < k THEN At(c, j) ELSE IF j = k THEN n ELSE At(c, j - 1)
<1> DEFINE d == Inserted(c, k, n)
<1>0. Len(c) \in Nat /\ \A j \in 1..Len(c) : c[j] \in S
  OBVIOUS
<1>1. ASSUME NEW j \in 1..Len(c)+1
      PROVE  /\ d[j] = IF j < k THEN c[j] ELSE IF j = k THEN n ELSE c[j-1]
             /\ d[j] \in S
  BY <1>0 DEF Inserted
<1>2. d \in [1..Len(c)+1 -> S]
  BY <1>1 DEF Inserted
<1>3. d \in Seq(S) /\ Len(d) = Len(c) + 1
  BY <1>0, <1>2
<1>4. ASSUME NEW j \in Int
      PROVE  At(d, j) = IF j < k THEN At(c, j) ELSE IF j = k THEN n ELSE At(c, j - 1)
  <2> HIDE DEF d
  <2> QED
    BY <1>0, <1>1, <1>3 DEF At
<1> QED
  BY <1>1, <1>3, <1>4

LEMMA RemovedIs ==
  ASSUME NEW S, NEW c \in Seq(S), NEW k \in 1..Len(c)
  PROVE  /\ Removed(c, k) \in Seq(S) /\ Len(Removed(c, k)) = Len(c) - 1
         /\ \A j \in 1..Len(c)-1 : Removed(c, k)[j] = IF j < k THEN c[j] ELSE c[j+1]
         /\ \A j \in Int : At(Removed(c, k), j) = IF j < k THEN At(c, j) ELSE At(c, j + 1)
<1> DEFINE d == Removed(c, k)
<1>0. Len(c) \in Nat /\ \A j \in 1..Len(c) : c[j] \in S
  OBVIOUS
<1>1. ASSUME NEW j \in 1..Len(c)-1
      PROVE  d[j] = (IF j < k THEN c[j] ELSE c[j+1]) /\ d[j] \in S
  BY <1>0 DEF Removed
<1>2. d \in [1..Len(c)-1 -> S]
  BY <1>1 DEF Removed
<1>3. d \in Seq(S) /\ Len(d) = Len(c) - 1
  BY <1>0, <1>2
<1>4. ASSUME NEW j \in Int PROVE At(d, j) = IF j < k THEN At(c, j) ELSE At(c, j + 1)
  <2> HIDE DEF d
  <2> QED
    BY <1>0, <1>1, <1>3 DEF At
<1> QED
  BY <1>1, <1>3, <1>4

LEMMA InsertedCells ==
  ASSUME NEW S, NEW c \in Seq(S), Distinct(c), NEW n \in S, n \notin Cells(c), NEW k \in 1..Len(c)+1
  PROVE  /\ Distinct(Inserted(c, k, n)) /\ Cells(Inserted(c, k, n)) = Cells(c) \cup {n}
         /\ SameOrder(c, Inserted(c, k, n))
<1> DEFINE d == Inserted(c, k, n)
<1>0. Len(c) \in Nat
  OBVIOUS
<1>1. Len(d) = Len(c) + 1
      /\ \A j \in 1..Len(c)+1 : d[j] = IF j < k THEN c[j] ELSE IF j = k THEN n ELSE c[j-1]
  BY InsertedIs
<1> HIDE DEF d
<1>2. \A j \in 1..Len(c) : c[j] # n
  BY DEF Cells
<1>3. Distinct(d)
  <2> DEFINE was(x) == IF x < k THEN x ELSE x - 1
  <2>1. ASSUME NEW x \in 1..Len(d), x # k
        PROVE  was(x) \in 1..Len(c) /\ d[x] = c[was(x)] /\ d[x] # n
    BY <1>0, <1>1, <1>2, <2>1
  <2>2. d[k] = n /\ k \in Int
    BY <1>0, <1>1
  <2>3. ASSUME NEW i \in 1..Len(d), NEW j \in 1..Len(d), d[i] = d[j] PROVE i = j
    <3>1. CASE i = k \/ j = k
      BY <2>1, <2>2, <2>3, <3>1
    <3>2. CASE i # k /\ j # k
      <4>1. was(i) \in 1..Len(c) /\ was(j) \in 1..Len(c) /\ c[was(i)] = c[was(j)]
        BY <2>1, <2>3, <3>2
      <4>2. was(i) = was(j)
        BY <4>1 DEF Distinct
      <4> QED
        BY <2>2, <3>2, <4>2
    <3> QED
      BY <3>1, <3>2
  <2> QED
    BY <2>3 DEF Distinct
<1>4. \A j \in 1..Len(c) : j < k => j \in 1..Len(d) /\ d[j] = c[j]
  BY <1>0, <1>1
<1>5. \A j \in 1..Len(c) : j >= k => j + 1 \in 1..Len(d) /\ d[j+1] = c[j]
  BY <1>0, <1>1
<1>6. k \in 1..Len(d) /\ d[k] = n
  BY <1>0, <1>1
<1>7. Cells(d) = Cells(c) \cup {n}
  <2>1. ASSUME NEW j \in 1..Len(d) PROVE d[j] \in Cells(c) \cup {n}
    BY <1>0, <1>1 DEF Cells
  <2>2. ASSUME NEW j \in 1..Len(c) PROVE c[j] \in Cells(d)
    BY <1>0, <1>4, <1>5 DEF Cells
  <2>3. n \in Cells(d)
    BY <1>6 DEF Cells
  <2> QED
    BY <2>1, <2>2, <2>3 DEF Cells
<1>8. ASSUME NEW a \in Cells(c), NEW b \in Cells(c), Before(c, a, b) PROVE Before(d, a, b)
  <2>1. PICK i \in 1..Len(c), j \in 1..Len(c) : i < j /\ c[i] = a /\ c[j] = b
    BY <1>8 DEF Before
  <2>2. CASE j < k
    BY <1>0, <1>4, <2>1, <2>2 DEF Before
  <2>3. CASE i < k /\ j >= k
    <3>1. i \in 1..Len(d) /\ j + 1 \in 1..Len(d) /\ i < j + 1 /\ d[i] = a /\ d[j+1] = b
      BY <1>0, <1>4, <1>5, <2>1, <2>3
    <3> QED
      BY <3>1 DEF Before
  <2>4. CASE i >= k
    <3>1. i + 1 \in 1..Len(d) /\ j + 1 \in 1..Len(d) /\ i + 1 < j + 1 /\ d[i+1] = a /\ d[j+1] = b
      BY <1>0, <1>5, <2>1, <2>4
    <3> QED
      BY <3>1 DEF Before
  <2> QED
    BY <1>0, <2>1, <2>2, <2>3, <2>4
<1>9. ASSUME NEW a \in Cells(c), NEW b \in Cells(c), Before(d, a, b) PROVE Before(c, a, b)
  <2>1. PICK i \in 1..Len(d), j \in 1..Len(d) : i < j /\ d[i] = a /\ d[j] = b
    BY <1>9 DEF Before
  <2>2. a # n /\ b # n
    OBVIOUS
  <2>3. i # k /\ j # k
    BY <1>6, <2>1, <2>2
  <2>4. CASE j < k
    <3>1. i \in 1..Len(c) /\ j \in 1..Len(c) /\ c[i] = a /\ c[j] = b
      BY <1>0, <1>1, <2>1, <2>4
    <3> QED
      BY <2>1, <3>1 DEF Before
  <2>5. CASE i < k /\ j > k
    <3>1. i \in 1..Len(c) /\ j - 1 \in 1..Len(c) /\ i < j - 1 /\ c[i] = a /\ c[j-1] = b
      BY <1>0, <1>1, <2>1, <2>5
    <3> QED
      BY <3>1 DEF Before
  <2>6. CASE i > k
    <3>1. i - 1 \in 1..Len(c) /\ j - 1 \in 1..Len(c) /\ i - 1 < j - 1 /\ c[i-1] = a /\ c[j-1] = b
      BY <1>0, <1>1, <2>1, <2>6
    <3> QED
      BY <3>1 DEF Before
  <2> QED
    BY <1>0, <1>1, <2>1, <2>3, <2>4, <2>5, <2>6
<1>10. SameOrder(c, d)
  BY <1>8, <1>9 DEF SameOrder
<1> QED
  BY <1>3, <1>7, <1>10 DEF d

LEMMA RemovedCells ==
  ASSUME NEW S, NEW c \in Seq(S), Distinct(c), NEW k \in 1..Len(c)
  PROVE  /\ Distinct(Removed(c, k)) /\ Cells(Removed(c, k)) = Cells(c) \ {c[k]}
         /\ SameOrder(c, Removed(c, k))
<1> DEFINE d == Removed(c, k)
<1>0. Len(c) \in Nat
  OBVIOUS
<1>1. Len(d) = Len(c) - 1 /\ \A j \in 1..Len(c)-1 : d[j] = IF j < k THEN c[j] ELSE c[j+1]
  BY RemovedIs
<1> HIDE DEF d
<1>2. \A j \in 1..Len(c) : c[j] = c[k] => j = k
  BY DEF Distinct
<1>3. Distinct(d)
  BY <1>0, <1>1 DEF Distinct
<1>4. \A j \in 1..Len(c) : j < k => j \in 1..Len(d) /\ d[j] = c[j]
  BY <1>0, <1>1
<1>5. \A j \in 1..Len(c) : j > k => j - 1 \in 1..Len(d) /\ d[j-1] = c[j]
  BY <1>0, <1>1
<1>7. Cells(d) = Cells(c) \ {c[k]}
  <2>1. ASSUME NEW j \in 1..Len(d) PROVE d[j] \in Cells(c) \ {c[k]}
    <3>1. CASE j < k
      <4>1. j \in 1..Len(c) /\ d[j] = c[j] /\ j # k
        BY <1>0, <1>1, <3>1
      <4> QED
        BY <1>2, <4>1 DEF Cells
    <3>2. CASE ~ j < k
      <4>1. j + 1 \in 1..Len(c) /\ d[j] = c[j+1] /\ j + 1 # k
        BY <1>0, <1>1, <3>2
      <4> QED
        BY <1>2, <4>1 DEF Cells
    <3> QED
      BY <3>1, <3>2
  <2>2. ASSUME NEW j \in 1..Len(c), c[j] # c[k] PROVE c[j] \in Cells(d)
    <3>1. j # k
      BY <2>2
    <3> QED
      BY <1>0, <1>4, <1>5, <3>1 DEF Cells
  <2> QED
    BY <2>1, <2>2 DEF Cells
<1>8. ASSUME NEW a \in Cells(d), NEW b \in Cells(d), Before(c, a, b) PROVE Before(d, a, b)
  <2>1. PICK i \in 1..Len(c), j \in 1..Len(c) : i < j /\ c[i] = a /\ c[j] = b
    BY <1>8 DEF Before
  <2>2. i # k /\ j # k
    BY <1>7, <2>1
  <2>3. CASE j < k
    BY <1>0, <1>4, <2>1, <2>3 DEF Before
  <2>4. CASE i < k /\ j > k
    <3>1. i \in 1..Len(d) /\ j - 1 \in 1..Len(d) /\ i < j - 1 /\ d[i] = a /\ d[j-1] = b
      BY <1>0, <1>4, <1>5, <2>1, <2>4
    <3> QED
      BY <3>1 DEF Before
  <2>5. CASE i > k
    <3>1. i - 1 \in 1..Len(d) /\ j - 1 \in 1..Len(d) /\ i - 1 < j - 1 /\ d[i-1] = a /\ d[j-1] = b
      BY <1>0, <1>5, <2>1, <2>5
    <3> QED
      BY <3>1 DEF Before
  <2> QED
    BY <1>0, <2>1, <2>2, <2>3, <2>4, <2>5
<1>9. ASSUME NEW a, NEW b, Before(d, a, b) PROVE Before(c, a, b)
  <2>1. PICK i \in 1..Len(d), j \in 1..Len(d) : i < j /\ d[i] = a /\ d[j] = b
    BY <1>9 DEF Before
  <2> DEFINE f(x) == IF x < k THEN x ELSE x + 1
  <2>2. f(i) \in 1..Len(c) /\ f(j) \in 1..Len(c) /\ f(i) < f(j) /\ c[f(i)] = a /\ c[f(j)] = b
    BY <1>0, <1>1, <2>1
  <2> QED
    BY <2>2 DEF Before
<1>10. SameOrder(c, d)
  BY <1>7, <1>8, <1>9 DEF SameOrder
<1> QED
  BY <1>3, <1>7, <1>10 DEF d

LEMMA LinearInserted ==
  ASSUME NEW S, Null \notin S, NEW node, NEW node2, NEW c, Linear(c, node, S),
         NEW n \in S, n \notin Cells(c), NEW k \in 1..Len(c)+1,
         node2[n].next = At(c, k), node2[n].prev = At(c, k - 1),
         \A m \in Cells(c) :
           /\ node2[m].next = IF m = At(c, k - 1) THEN n ELSE node[m].next
           /\ node2[m].prev = IF m = At(c, k) THEN n ELSE node[m].prev
  PROVE  Linear(Inserted(c, k, n), node2, S)
<1> DEFINE d == Inserted(c, k, n)
<1>0. c \in Seq(S) /\ Distinct(c) /\ Len(c) \in Nat /\ \A j \in 1..Len(c) : c[j] \in S /\ c[j] \in Cells(c)
  BY DEF Linear, Cells
<1>1. /\ d \in Seq(S) /\ Len(d) = Len(c) + 1 /\ Distinct(d)
      /\ \A j \in 1..Len(c)+1 : d[j] = IF j < k THEN c[j] ELSE IF j = k THEN n ELSE c[j-1]
      /\ \A j \in Int : At(d, j) = IF j < k THEN At(c, j) ELSE IF j = k THEN n ELSE At(c, j - 1)
  <2>1. d \in Seq(S) /\ Len(d) = Len(c) + 1
    BY <1>0, InsertedIs
  <2>2. \A j \in 1..Len(c)+1 : d[j] = IF j < k THEN c[j] ELSE IF j = k THEN n ELSE c[j-1]
    BY <1>0, InsertedIs
  <2>3. \A j \in Int : At(d, j) = IF j < k THEN At(c, j) ELSE IF j = k THEN n ELSE At(c, j - 1)
    BY <1>0, InsertedIs
  <2>4. Distinct(d)
    BY <1>0, InsertedCells
  <2> QED
    BY <2>1, <2>2, <2>3, <2>4
<1> HIDE DEF d
<1>2. \A j \in 1..Len(c) : node[c[j]].next = At(c, j + 1) /\ node[c[j]].prev = At(c, j - 1)
  BY DEF Linear
<1>3. \A i, j \in 1..Len(c) : c[i] = c[j] => i = j
  BY <1>0 DEF Distinct
<1>4. \A i \in Int, j \in 1..Len(c) : c[j] = At(c, i) <=> i = j
  BY <1>0, <1>3 DEF At
<1>5. ASSUME NEW j \in 1..Len(d)
      PROVE  node2[d[j]].next = At(d, j + 1) /\ node2[d[j]].prev = At(d, j - 1)
  <2>1. CASE j = k
    <3>1. d[j] = n /\ At(d, j + 1) = At(c, k) /\ At(d, j - 1) = At(c, k - 1)
      BY <1>0, <1>1, <2>1
    <3> QED
      BY <3>1
  <2>2. CASE j < k
    <3>1. j \in 1..Len(c) /\ d[j] = c[j] /\ At(d, j - 1) = At(c, j - 1)
      <4>1. j \in 1..Len(c) /\ j - 1 \in Int /\ j - 1 < k /\ j \in 1..Len(c)+1
        BY <1>0, <1>1, <2>2
      <4>2. d[j] = c[j]
        BY <1>1, <2>2, <4>1
      <4>3. At(d, j - 1) = At(c, j - 1)
        BY <1>1, <4>1
      <4> QED
        BY <4>1, <4>2, <4>3
    <3>2. (c[j] = At(c, k - 1) <=> j = k - 1) /\ c[j] # At(c, k)
      BY <1>0, <1>4, <2>2, <3>1
    <3>3. At(d, j + 1) = IF j = k - 1 THEN n ELSE At(c, j + 1)
      BY <1>0, <1>1, <2>2
    <3>4. /\ node2[c[j]].next = IF c[j] = At(c, k - 1) THEN n ELSE node[c[j]].next
          /\ node2[c[j]].prev = IF c[j] = At(c, k) THEN n ELSE node[c[j]].prev
      BY <1>0, <3>1
    <3>5. node[c[j]].next = At(c, j + 1) /\ node[c[j]].prev = At(c, j - 1)
      BY <1>2, <3>1
    <3> QED
      BY <3>1, <3>2, <3>3, <3>4, <3>5
  <2>3. CASE j > k
    <3> DEFINE i == j - 1
    <3>1. i \in 1..Len(c) /\ d[j] = c[i] /\ At(d, j + 1) = At(c, i + 1) /\ i >= k
      <4>1. i \in 1..Len(c) /\ i >= k /\ j + 1 \in Int /\ ~ j + 1 < k /\ j + 1 # k /\ (j + 1) - 1 = i + 1
        BY <1>0, <1>1, <2>3
      <4>2. d[j] = c[i]
        BY <1>0, <1>1, <2>3
      <4>3. At(d, j + 1) = At(c, (j + 1) - 1)
        BY <1>1, <4>1
      <4> QED
        BY <4>1, <4>2, <4>3
    <3>2. (c[i] = At(c, k) <=> i = k) /\ c[i] # At(c, k - 1)
      BY <1>0, <1>4, <2>3, <3>1
    <3>3. At(d, j - 1) = IF i = k THEN n ELSE At(c, i - 1)
      BY <1>0, <1>1, <2>3
    <3>4. /\ node2[c[i]].next = IF c[i] = At(c, k - 1) THEN n ELSE node[c[i]].next
          /\ node2[c[i]].prev = IF c[i] = At(c, k) THEN n ELSE node[c[i]].prev
      BY <1>0, <3>1
    <3>5. node[c[i]].next = At(c, i + 1) /\ node[c[i]].prev = At(c, i - 1)
      BY <1>2, <3>1
    <3> HIDE DEF i
    <3> QED
      BY <3>1, <3>2, <3>3, <3>4, <3>5
  <2> QED
    BY <1>0, <1>1, <2>1, <2>2, <2>3
<1> QED
  BY <1>1, <1>5 DEF Linear, d

LEMMA LinearRemoved ==
  ASSUME NEW S, Null \notin S, NEW node, NEW node2, NEW c, Linear(c, node, S), NEW k \in 1..Len(c),
         \A m \in Cells(c) \ {c[k]} :
           /\ node2[m].next = IF m = At(c, k - 1) THEN At(c, k + 1) ELSE node[m].next
           /\ node2[m].prev = IF m = At(c, k + 1) THEN At(c, k - 1) ELSE node[m].prev
  PROVE  Linear(Removed(c, k), node2, S)
<1> DEFINE d == Removed(c, k)
<1>0. c \in Seq(S) /\ Distinct(c) /\ Len(c) \in Nat /\ \A j \in 1..Len(c) : c[j] \in S /\ c[j] \in Cells(c)
  BY DEF Linear, Cells
<1>1. /\ d \in Seq(S) /\ Len(d) = Len(c) - 1 /\ Distinct(d)
      /\ \A j \in 1..Len(c)-1 : d[j] = IF j < k THEN c[j] ELSE c[j+1]
      /\ \A j \in Int : At(d, j) = IF j < k THEN At(c, j) ELSE At(c, j + 1)
  BY <1>0, RemovedIs, RemovedCells
<1> HIDE DEF d
<1>9. Len(c) \in Nat /\ Len(d) = Len(c) - 1 /\ k \in Nat /\ 1 <= k /\ k <= Len(c)
  BY <1>0, <1>1
<1>2. \A j \in 1..Len(c) : node[c[j]].next = At(c, j + 1) /\ node[c[j]].prev = At(c, j - 1)
  BY DEF Linear
<1>3. \A i, j \in 1..Len(c) : c[i] = c[j] => i = j
  BY <1>0 DEF Distinct
<1>4. \A i \in Int, j \in 1..Len(c) : c[j] = At(c, i) <=> i = j
  BY <1>0, <1>3 DEF At
<1>5. ASSUME NEW j \in 1..Len(d)
      PROVE  node2[d[j]].next = At(d, j + 1) /\ node2[d[j]].prev = At(d, j - 1)
  <2>2. CASE j < k
    <3>1. j \in 1..Len(c) /\ d[j] = c[j] /\ At(d, j - 1) = At(c, j - 1) /\ j # k
      <4>1. j \in 1..Len(c) /\ j # k /\ j - 1 \in Int /\ j - 1 < k /\ j \in 1..Len(c)-1
        BY <1>9, <2>2
      <4>2. d[j] = c[j]
        BY <1>1, <2>2, <4>1
      <4>3. At(d, j - 1) = At(c, j - 1)
        BY <1>1, <4>1
      <4> QED
        BY <4>1, <4>2, <4>3
    <3>2. (c[j] = At(c, k - 1) <=> j = k - 1) /\ c[j] # At(c, k + 1) /\ c[j] # c[k]
      BY <1>0, <1>3, <1>4, <2>2, <3>1
    <3>3. At(d, j + 1) = IF j = k - 1 THEN At(c, k + 1) ELSE At(c, j + 1)
      BY <1>0, <1>1, <2>2
    <3>4. /\ node2[c[j]].next = IF c[j] = At(c, k - 1) THEN At(c, k + 1) ELSE node[c[j]].next
          /\ node2[c[j]].prev = IF c[j] = At(c, k + 1) THEN At(c, k - 1) ELSE node[c[j]].prev
      BY <1>0, <3>1, <3>2
    <3>5. node[c[j]].next = At(c, j + 1) /\ node[c[j]].prev = At(c, j - 1)
      BY <1>2, <3>1
    <3> QED
      BY <3>1, <3>2, <3>3, <3>4, <3>5
  <2>3. CASE j >= k
    <3> DEFINE i == j + 1
    <3>1. i \in 1..Len(c) /\ d[j] = c[i] /\ At(d, j + 1) = At(c, i + 1) /\ i > k
      <4>1. i \in 1..Len(c) /\ i > k /\ j + 1 \in Int /\ ~ j + 1 < k /\ (j + 1) + 1 = i + 1
        BY <1>9, <2>3
      <4>2. d[j] = c[i]
        <5>1. j \in 1..Len(c)-1 /\ ~ j < k
          BY <1>9, <2>3
        <5> QED
          BY <1>1, <5>1
      <4>3. At(d, j + 1) = At(c, (j + 1) + 1)
        BY <1>1, <4>1
      <4> QED
        BY <4>1, <4>2, <4>3
    <3>2. (c[i] = At(c, k + 1) <=> i = k + 1) /\ c[i] # At(c, k - 1) /\ c[i] # c[k]
      BY <1>0, <1>3, <1>4, <2>3, <3>1
    <3>3. At(d, j - 1) = IF i = k + 1 THEN At(c, k - 1) ELSE At(c, i - 1)
      <4>1. j - 1 \in Int /\ (j - 1 < k <=> i = k + 1) /\ (j - 1) + 1 = i - 1
        BY <1>9, <2>3
      <4>2. At(d, j - 1) = IF j - 1 < k THEN At(c, j - 1) ELSE At(c, (j - 1) + 1)
        BY <1>1, <4>1
      <4>3. i = k + 1 => j - 1 = k - 1
        OBVIOUS
      <4> QED
        BY <4>1, <4>2, <4>3
    <3>4. /\ node2[c[i]].next = IF c[i] = At(c, k - 1) THEN At(c, k + 1) ELSE node[c[i]].next
          /\ node2[c[i]].prev = IF c[i] = At(c, k + 1) THEN At(c, k - 1) ELSE node[c[i]].prev
      BY <1>0, <3>1, <3>2
    <3>5. node[c[i]].next = At(c, i + 1) /\ node[c[i]].prev = At(c, i - 1)
      BY <1>2, <3>1
    <3> HIDE DEF i
    <3> QED
      BY <3>1, <3>2, <3>3, <3>4, <3>5
  <2> QED
    BY <1>0, <1>1, <2>2, <2>3
<1> QED
  BY <1>1, <1>5 DEF Linear, d

\* Cells that keep their links keep their chain.
LEMMA LinearSame ==
  ASSUME NEW S, NEW node, NEW node2, NEW c, Linear(c, node, S),
         \A m \in Cells(c) : node2[m].next = node[m].next /\ node2[m].prev = node[m].prev
  PROVE  Linear(c, node2, S)
BY DEF Linear, Cells

-----------------------------------------------------------------------------
(* What a loop that is at x has met of a chain, going forwards or backwards. *)
Met(c, x, fwd) ==
  IF x = Null THEN Cells(c)
  ELSE {m \in Cells(c) : IF fwd THEN Before(c, m, x) ELSE Before(c, x, m)}

LEMMA MetStart ==
  ASSUME NEW S, Null \notin S, NEW c \in Seq(S), Distinct(c), NEW fwd \in BOOLEAN
  PROVE  Met(c, IF fwd THEN At(c, 1) ELSE At(c, Len(c)), fwd) = {}
<1>0. Len(c) \in Nat /\ \A j \in 1..Len(c) : c[j] \in S
  OBVIOUS
<1>1. CASE Len(c) = 0
  BY <1>0, <1>1 DEF Met, At, Cells
<1>2. CASE Len(c) # 0
  <2>1. 1 \in 1..Len(c) /\ Len(c) \in 1..Len(c) /\ At(c, 1) = c[1] /\ At(c, Len(c)) = c[Len(c)]
    BY <1>0, <1>2 DEF At
  <2>2. c[1] # Null /\ c[Len(c)] # Null
    BY <1>0, <2>1
  <2>3. ASSUME NEW m PROVE ~ Before(c, m, c[1]) /\ ~ Before(c, c[Len(c)], m)
    BY <1>0, <2>1 DEF Before, Distinct
  <2> QED
    BY <2>1, <2>2, <2>3 DEF Met
<1> QED
  BY <1>1, <1>2

LEMMA MetStep ==
  ASSUME NEW S, Null \notin S, NEW c \in Seq(S), Distinct(c), NEW k \in 1..Len(c), NEW fwd \in BOOLEAN
  PROVE  Met(c, IF fwd THEN At(c, k + 1) ELSE At(c, k - 1), fwd) = Met(c, c[k], fwd) \cup {c[k]}
<1>0. Len(c) \in Nat /\ \A j \in 1..Len(c) : c[j] \in S /\ c[j] # Null /\ c[j] \in Cells(c)
  BY DEF Cells
<1>1. \A i, j \in 1..Len(c) : c[i] = c[j] => i = j
  BY DEF Distinct
<1>2. \A i, j \in 1..Len(c) : Before(c, c[i], c[j]) <=> i < j
  BY <1>1 DEF Before
<1>3. \A m \in Cells(c) : \E i \in 1..Len(c) : m = c[i]
  BY DEF Cells
<1> DEFINE x == IF fwd THEN At(c, k + 1) ELSE At(c, k - 1)
<1>4. CASE fwd /\ k + 1 \in 1..Len(c)
  <2>1. x = c[k+1] /\ x # Null /\ c[k] # Null
    BY <1>0, <1>4 DEF At
  <2> HIDE DEF x
  <2>2. ASSUME NEW m \in Cells(c) PROVE m \in Met(c, x, fwd) <=> m \in Met(c, c[k], fwd) \cup {c[k]}
    <3>1. PICK i \in 1..Len(c) : m = c[i]
      BY <1>3
    <3>2. m \in Met(c, x, fwd) <=> i < k + 1
      BY <1>2, <1>4, <2>1, <3>1 DEF Met
    <3>3. m \in Met(c, c[k], fwd) <=> i < k
      BY <1>2, <1>4, <2>1, <3>1 DEF Met
    <3>4. m = c[k] <=> i = k
      BY <1>1, <3>1
    <3> QED
      BY <3>2, <3>3, <3>4
  <2> QED
    BY <1>0, <2>2 DEF Met, x
<1>5. CASE ~ fwd /\ k - 1 \in 1..Len(c)
  <2>1. x = c[k-1] /\ x # Null /\ c[k] # Null
    BY <1>0, <1>5 DEF At
  <2> HIDE DEF x
  <2>2. ASSUME NEW m \in Cells(c) PROVE m \in Met(c, x, fwd) <=> m \in Met(c, c[k], fwd) \cup {c[k]}
    <3>1. PICK i \in 1..Len(c) : m = c[i]
      BY <1>3
    <3>2. m \in Met(c, x, fwd) <=> k - 1 < i
      BY <1>2, <1>5, <2>1, <3>1 DEF Met
    <3>3. m \in Met(c, c[k], fwd) <=> k < i
      BY <1>2, <1>5, <2>1, <3>1 DEF Met
    <3>4. m = c[k] <=> i = k
      BY <1>1, <3>1
    <3> QED
      BY <3>2, <3>3, <3>4
  <2> QED
    BY <1>0, <2>2 DEF Met, x
<1>6. CASE fwd /\ k + 1 \notin 1..Len(c)
  <2>1. x = Null /\ c[k] # Null /\ k = Len(c)
    BY <1>0, <1>6 DEF At
  <2> HIDE DEF x
  <2>2. ASSUME NEW m \in Cells(c) PROVE m \in Met(c, c[k], fwd) \cup {c[k]}
    <3>1. PICK i \in 1..Len(c) : m = c[i]
      BY <1>3
    <3>2. m \in Met(c, c[k], fwd) <=> i < k
      BY <1>2, <1>6, <2>1, <3>1 DEF Met
    <3> QED
      BY <1>0, <2>1, <3>1, <3>2
  <2> QED
    BY <1>0, <2>1, <2>2 DEF Met, x
<1>7. CASE ~ fwd /\ k - 1 \notin 1..Len(c)
  <2>1. x = Null /\ c[k] # Null /\ k = 1
    BY <1>0, <1>7 DEF At
  <2> HIDE DEF x
  <2>2. ASSUME NEW m \in Cells(c) PROVE m \in Met(c, c[k], fwd) \cup {c[k]}
    <3>1. PICK i \in 1..Len(c) : m = c[i]
      BY <1>3
    <3>2. m \in Met(c, c[k], fwd) <=> k < i
      BY <1>2, <1>7, <2>1, <3>1 DEF Met
    <3> QED
      BY <1>0, <2>1, <3>1, <3>2
  <2> QED
    BY <1>0, <2>1, <2>2 DEF Met, x
<1> QED
  BY <1>4, <1>5, <1>6, <1>7

LEMMA MetSame ==
  ASSUME NEW c, NEW d, SameOrder(c, d), NEW x, x = Null \/ x \in Cells(c) \cap Cells(d),
         NEW fwd \in BOOLEAN, NEW m \in Cells(c) \cap Cells(d)
  PROVE  m \in Met(c, x, fwd) <=> m \in Met(d, x, fwd)
BY DEF SameOrder, Met

-----------------------------------------------------------------------------
(* The cells S of table t are in the chains C of its buckets, each in the   *)
(* bucket of its hash.                                                      *)
Chained(t, C, S) ==
  /\ t = TableOf(t.tab, t.node, t.nelem)
  /\ SizeOf(t) \in Nat \ {0} /\ t.tab \in [0..SizeOf(t)-1 -> HashCells \cup {Null}]
  /\ t.node \in [HashCells -> Iters] /\ S \subseteq HashCells
  /\ \A b \in 0..SizeOf(t)-1 :
       /\ Linear(C[b], t.node, HashCells) /\ t.tab[b] = At(C[b], 1)
       /\ Cells(C[b]) = {n \in S : hindex(t, n) = b}

\* Everything but their links.
SameFields(s, t) ==
  \A n \in HashCells :
    /\ s.node[n].key = t.node[n].key /\ s.node[n].data = t.node[n].data
    /\ s.node[n].hkey = t.node[n].hkey /\ s.node[n].foreach = t.node[n].foreach
    /\ s.node[n].used = t.node[n].used

LEMMA HashMemory == Memory(HashCells) /\ Null \notin HashCells
BY HashCellsAssumption DEF Memory

LEMMA TableParts ==
  ASSUME NEW a, NEW f, NEW e
  PROVE  LET t == TableOf(a, f, e)
         IN  t.tab = a /\ t.node = f /\ t.nelem = e /\ t = TableOf(t.tab, t.node, t.nelem)
BY DEF TableOf

LEMMA IterParts ==
  ASSUME NEW k, NEW d, NEW x, NEW a, NEW b, NEW f, NEW u
  PROVE  LET i == Iter(k, d, x, a, b, f, u)
         IN  /\ i.key = k /\ i.data = d /\ i.hkey = x /\ i.next = a /\ i.prev = b
             /\ i.foreach = f /\ i.used = u
             /\ i \in Iters <=>
                  /\ k \in Keys \cup {NoKey} /\ d \in Values \cup {NoData} /\ x \in Nat
                  /\ a \in HashCells \cup {Null} /\ b \in HashCells \cup {Null}
                  /\ f \in {0, 1} /\ u \in {0, 1}
BY DEF Iter, Iters

LEMMA ItersHave ==
  ASSUME NEW i \in Iters
  PROVE  /\ i.key \in Keys \cup {NoKey} /\ i.data \in Values \cup {NoData} /\ i.hkey \in Nat
         /\ i.next \in HashCells \cup {Null} /\ i.prev \in HashCells \cup {Null}
         /\ i.foreach \in {0, 1} /\ i.used \in {0, 1}
BY DEF Iters

LEMMA JoinedParts ==
  ASSUME NEW i \in Iters, NEW a \in HashCells \cup {Null}, NEW b \in HashCells \cup {Null}
  PROVE  LET e == Joined(i, a, b)
         IN  /\ e \in Iters /\ e.next = a /\ e.prev = b
             /\ e.key = i.key /\ e.data = i.data /\ e.hkey = i.hkey
             /\ e.foreach = i.foreach /\ e.used = i.used
BY ItersHave, IterParts DEF Joined

LEMMA ModRange ==
  ASSUME NEW a \in Nat, NEW n \in Nat \ {0}
  PROVE  a % n \in 0..n-1
OBVIOUS

LEMMA SizeIs ==
  ASSUME NEW n \in Nat \ {0}, NEW t, DOMAIN t.tab = 0..n-1
  PROVE  SizeOf(t) = n
<1>1. 0 \in Int /\ n - 1 \in Int /\ ~ 0 > n - 1
  OBVIOUS
<1>2. Cardinality(0..n-1) = (n - 1) - 0 + 1
  BY <1>1, FS_Interval
<1> QED
  BY <1>2 DEF SizeOf

LEMMA ChainedFacts ==
  ASSUME NEW t, NEW C, NEW S, Chained(t, C, S)
  PROVE  /\ SizeOf(t) \in Nat \ {0}
         /\ \A n \in HashCells : hindex(t, n) \in 0..SizeOf(t)-1
         /\ \A n \in S : n \in HashCells /\ n # Null /\ n \in Cells(C[hindex(t, n)])
         /\ \A n \in HashCells : t.node[n] \in Iters
         /\ \A b \in 0..SizeOf(t)-1 :
              /\ C[b] \in Seq(HashCells) /\ Distinct(C[b]) /\ Len(C[b]) \in Nat
              /\ Cells(C[b]) \subseteq S /\ Null \notin Cells(C[b])
              /\ \A j \in Int : At(C[b], j) \in Cells(C[b]) \cup {Null}
<1>1. ASSUME NEW n \in HashCells PROVE hindex(t, n) \in 0..SizeOf(t)-1 /\ t.node[n] \in Iters
  <2>1. t.node[n] \in Iters /\ SizeOf(t) \in Nat \ {0}
    BY DEF Chained
  <2> QED
    BY <2>1, ItersHave, ModRange DEF hindex
<1>2. ASSUME NEW n \in S PROVE n \in HashCells /\ n # Null /\ n \in Cells(C[hindex(t, n)])
  <2>1. n \in HashCells /\ n # Null
    BY HashMemory DEF Chained
  <2> QED
    BY <1>1, <2>1 DEF Chained
<1>3. ASSUME NEW b \in 0..SizeOf(t)-1
      PROVE  /\ C[b] \in Seq(HashCells) /\ Distinct(C[b]) /\ Len(C[b]) \in Nat
             /\ Cells(C[b]) \subseteq S /\ Null \notin Cells(C[b])
             /\ \A j \in Int : At(C[b], j) \in Cells(C[b]) \cup {Null}
  <2>1. Cells(C[b]) \subseteq S
    BY DEF Chained
  <2>2. C[b] \in Seq(HashCells) /\ Distinct(C[b]) /\ Len(C[b]) \in Nat
    BY DEF Chained, Linear
  <2>3. \A j \in Int : At(C[b], j) \in Cells(C[b]) \cup {Null}
    BY DEF At, Cells
  <2> QED
    BY <1>2, <2>1, <2>2, <2>3
<1> QED
  BY <1>1, <1>2, <1>3 DEF Chained

(* Following the links finds the chain of a bucket. *)
LEMMA BucketLeads ==
  ASSUME NEW t, NEW C, NEW S, Chained(t, C, S), NEW b \in 0..SizeOf(t)-1
  PROVE  Leads(NextIter(t), C[b], HashCells)
<1>1. C[b] \in Seq(HashCells) /\ Distinct(C[b]) /\ \A j \in 1..Len(C[b]) : C[b][j] \in HashCells /\ C[b][j] # Null
  BY ChainedFacts, HashMemory
<1>2. \A j \in 1..Len(C[b]) : t.node[C[b][j]].next = At(C[b], j + 1)
  BY DEF Chained, Linear
<1> QED
  BY <1>1, <1>2 DEF Leads, NextIter

LEMMA BucketIs ==
  ASSUME NEW t, NEW C, NEW S, Chained(t, C, S), NEW b \in 0..SizeOf(t)-1
  PROVE  Bucket(t, b) = C[b]
<1>1. Walk(At(C[b], 1), NextIter(t)) = C[b]
  BY BucketLeads, HashMemory, WalkIs
<1> QED
  BY <1>1 DEF Bucket, Chained

LEMMA SameIndex ==
  ASSUME NEW s, NEW t, SizeOf(s) = SizeOf(t), NEW n, s.node[n].hkey = t.node[n].hkey
  PROVE  hindex(s, n) = hindex(t, n)
BY DEF hindex

(* What is changed outside the chains changes no chain. *)
LEMMA ChainedSame ==
  ASSUME NEW t, NEW C, NEW S, Chained(t, C, S),
         NEW s, s = TableOf(s.tab, s.node, s.nelem), s.tab = t.tab, s.node \in [HashCells -> Iters],
         \A n \in S : /\ s.node[n].next = t.node[n].next /\ s.node[n].prev = t.node[n].prev
                      /\ s.node[n].hkey = t.node[n].hkey
  PROVE  Chained(s, C, S) /\ SizeOf(s) = SizeOf(t) /\ \A n \in S : hindex(s, n) = hindex(t, n)
<1>1. SizeOf(s) = SizeOf(t)
  BY DEF SizeOf
<1>2. \A n \in S : hindex(s, n) = hindex(t, n)
  BY <1>1, SameIndex
<1>3. ASSUME NEW b \in 0..SizeOf(t)-1
      PROVE  /\ Linear(C[b], s.node, HashCells) /\ s.tab[b] = At(C[b], 1)
             /\ Cells(C[b]) = {n \in S : hindex(s, n) = b}
  <2>1. Linear(C[b], t.node, HashCells) /\ t.tab[b] = At(C[b], 1)
        /\ Cells(C[b]) = {n \in S : hindex(t, n) = b}
    BY DEF Chained
  <2>2. Cells(C[b]) = {n \in S : hindex(s, n) = b}
    BY <1>2, <2>1
  <2>3. Linear(C[b], s.node, HashCells)
    BY <2>1, LinearSame
  <2> QED
    BY <2>1, <2>2, <2>3
<1> QED
  BY <1>1, <1>2, <1>3 DEF Chained

-----------------------------------------------------------------------------
(* A cell linked in at the head of its bucket. *)
Headed(t, C, n) ==
  [b \in 0..SizeOf(t)-1 |-> IF b = hindex(t, n) THEN Inserted(C[b], 1, n) ELSE C[b]]

LEMMA LinkChains ==
  ASSUME NEW t, NEW C, NEW S, Chained(t, C, S), NEW n \in HashCells \ S
  PROVE  /\ Chained(Link(t, n), Headed(t, C, n), S \cup {n})
         /\ SizeOf(Link(t, n)) = SizeOf(t) /\ Link(t, n).nelem = t.nelem
         /\ SameFields(Link(t, n), t)
<1> DEFINE i == hindex(t, n)
           q == t.tab[i]
           s == Link(t, n)
           D == Headed(t, C, n)
           N == SizeOf(t)
<1>0. N \in Nat \ {0} /\ i \in 0..N-1 /\ t.tab \in [0..N-1 -> HashCells \cup {Null}] /\ n \in HashCells
  <2>1. n \in HashCells
    OBVIOUS
  <2>2. i \in 0..N-1
    BY <2>1, ChainedFacts
  <2> QED
    BY <2>1, <2>2 DEF Chained
<1>1. /\ C[i] \in Seq(HashCells) /\ Distinct(C[i]) /\ Len(C[i]) \in Nat
      /\ Linear(C[i], t.node, HashCells) /\ q = At(C[i], 1)
      /\ Cells(C[i]) = {m \in S : hindex(t, m) = i}
      /\ q \in Cells(C[i]) \cup {Null} /\ Null \notin HashCells
  <2>1. C[i] \in Seq(HashCells) /\ Distinct(C[i]) /\ Len(C[i]) \in Nat
        /\ \A j \in Int : At(C[i], j) \in Cells(C[i]) \cup {Null}
    BY <1>0, ChainedFacts
  <2>2. Linear(C[i], t.node, HashCells) /\ q = At(C[i], 1) /\ Cells(C[i]) = {m \in S : hindex(t, m) = i}
    BY <1>0 DEF Chained
  <2> QED
    BY <2>1, <2>2, HashMemory
<1>2. /\ s.tab = [t.tab EXCEPT ![i] = n] /\ s.nelem = t.nelem
      /\ s = TableOf(s.tab, s.node, s.nelem)
      /\ s.node = [m \in HashCells |->
                     IF m = n THEN Joined(t.node[n], q, Null)
                     ELSE IF m = q THEN Joined(t.node[q], t.node[q].next, n) ELSE t.node[m]]
  BY TableParts DEF Link
<1> HIDE DEF s
<1>3. SizeOf(s) = N /\ s.tab \in [0..N-1 -> HashCells \cup {Null}]
  <2> HIDE DEF i, N
  <2>1. s.tab = [b \in 0..N-1 |-> IF b = i THEN n ELSE t.tab[b]]
    BY <1>0, <1>2
  <2>2. s.tab \in [0..N-1 -> HashCells \cup {Null}]
    BY <1>0, <2>1
  <2> QED
    BY <1>0, <2>2, SizeIs
<1>4. \A m \in HashCells : t.node[m] \in Iters
  BY ChainedFacts
<1> HIDE DEF q
<1>5. q \in HashCells \cup {Null} /\ q # n
  BY <1>1, ChainedFacts
<1>6. ASSUME NEW m \in HashCells
      PROVE  /\ s.node[m] \in Iters
             /\ s.node[m].next = IF m = n THEN q ELSE t.node[m].next
             /\ s.node[m].prev = IF m = n THEN Null ELSE IF m = q THEN n ELSE t.node[m].prev
             /\ s.node[m].key = t.node[m].key /\ s.node[m].data = t.node[m].data
             /\ s.node[m].hkey = t.node[m].hkey /\ s.node[m].foreach = t.node[m].foreach
             /\ s.node[m].used = t.node[m].used
  <2>1. CASE m = n
    <3>1. s.node[m] = Joined(t.node[n], q, Null)
      BY <1>2, <2>1
    <3> QED
      BY <1>4, <1>5, <2>1, <3>1, JoinedParts, SMTT(30)
  <2>2. CASE m # n /\ m = q
    <3> DEFINE e == t.node[q]
               x == e.next
    <3>1. s.node[m] = Joined(e, x, n)
      BY <1>2, <2>2
    <3>2. e \in Iters /\ x \in HashCells \cup {Null} /\ n \in HashCells \cup {Null}
      BY <1>0, <1>4, <2>2, ItersHave
    <3>3. x = t.node[m].next /\ e = t.node[m]
      BY <2>2
    <3> HIDE DEF x, e
    <3>4. LET y == Joined(e, x, n)
          IN  /\ y \in Iters /\ y.next = x /\ y.prev = n
              /\ y.key = e.key /\ y.data = e.data /\ y.hkey = e.hkey
              /\ y.foreach = e.foreach /\ y.used = e.used
      BY <3>2, JoinedParts
    <3> QED
      BY <2>2, <3>1, <3>3, <3>4
  <2>3. CASE m # n /\ m # q
    BY <1>2, <1>4, <2>3
  <2> QED
    BY <2>1, <2>2, <2>3
<1>7. s.node \in [HashCells -> Iters]
  BY <1>2, <1>6
<1>8. SameFields(s, t)
  BY <1>6 DEF SameFields
<1>9. \A m \in HashCells : hindex(s, m) = hindex(t, m)
  BY <1>3, <1>6, SameIndex
<1>10. ASSUME NEW b \in 0..N-1
       PROVE  /\ Linear(D[b], s.node, HashCells) /\ s.tab[b] = At(D[b], 1)
              /\ Cells(D[b]) = {m \in S \cup {n} : hindex(s, m) = b}
  <2>1. CASE b = i
    <3>1. D[b] = Inserted(C[i], 1, n)
      BY <2>1 DEF Headed
    <3> DEFINE c == C[i]
    <3>2. n \notin Cells(c) /\ 1 \in 1..Len(c)+1 /\ At(c, 0) = Null
      BY <1>1 DEF At
    <3> HIDE DEF c
    <3>3. At(c, 1) = q /\ Linear(c, t.node, HashCells) /\ c \in Seq(HashCells) /\ Distinct(c)
          /\ Cells(c) = {m \in S : hindex(t, m) = i} /\ Cells(c) \subseteq HashCells
      BY <1>1 DEF c, Chained
    <3>4. s.node[n].next = At(c, 1) /\ s.node[n].prev = At(c, 1 - 1)
      BY <1>6, <3>2, <3>3
    <3>5. \A m \in Cells(c) :
            /\ s.node[m].next = IF m = At(c, 1 - 1) THEN n ELSE t.node[m].next
            /\ s.node[m].prev = IF m = At(c, 1) THEN n ELSE t.node[m].prev
      BY <1>1, <1>6, <3>2, <3>3
    <3>6. Linear(Inserted(c, 1, n), s.node, HashCells)
      BY <1>1, <3>2, <3>3, <3>4, <3>5, LinearInserted
    <3>7. Cells(Inserted(c, 1, n)) = Cells(c) \cup {n}
      BY <3>2, <3>3, InsertedCells
    <3>8. At(Inserted(c, 1, n), 1) = n
      BY <3>2, <3>3, InsertedIs
    <3>9. s.tab[b] = n
      BY <1>0, <1>2, <2>1
    <3>10. {m \in S \cup {n} : hindex(s, m) = b} = {m \in S : hindex(t, m) = i} \cup {n}
      BY <1>9, <2>1, ChainedFacts
    <3> QED
      BY <3>1, <3>3, <3>6, <3>7, <3>8, <3>9, <3>10 DEF c
  <2>2. CASE b # i
    <3>1. D[b] = C[b] /\ s.tab[b] = t.tab[b]
      BY <1>0, <1>2, <2>2 DEF Headed
    <3>2. Linear(C[b], t.node, HashCells) /\ t.tab[b] = At(C[b], 1)
          /\ Cells(C[b]) = {m \in S : hindex(t, m) = b} /\ S \subseteq HashCells
      BY DEF Chained
    <3>3. \A m \in Cells(C[b]) : m \in HashCells /\ m # n /\ m # q
      BY <1>1, <2>2, <3>2
    <3>4. Linear(C[b], s.node, HashCells)
      BY <1>6, <3>2, <3>3, LinearSame
    <3>5. {m \in S \cup {n} : hindex(s, m) = b} = {m \in S : hindex(t, m) = b}
      BY <1>9, <2>2, <3>2
    <3> QED
      BY <3>1, <3>2, <3>4, <3>5
  <2> QED
    BY <2>1, <2>2
<1>11. S \cup {n} \subseteq HashCells
  BY DEF Chained
<1>12. Chained(s, D, S \cup {n})
  <2> HIDE DEF D, i, N
  <2> QED
    BY <1>0, <1>2, <1>3, <1>7, <1>10, <1>11 DEF Chained
<1> QED
  BY <1>2, <1>3, <1>8, <1>12 DEF s

LEMMA HeadedOrder ==
  ASSUME NEW t, NEW C, NEW S, Chained(t, C, S), NEW n \in HashCells \ S, NEW b \in 0..SizeOf(t)-1
  PROVE  SameOrder(C[b], Headed(t, C, n)[b])
<1>1. /\ C[b] \in Seq(HashCells) /\ Distinct(C[b]) /\ n \notin Cells(C[b]) /\ 1 \in 1..Len(C[b])+1
      /\ n \in HashCells
  BY ChainedFacts
<1>2. SameOrder(C[b], Inserted(C[b], 1, n))
  BY <1>1, InsertedCells
<1> QED
  BY <1>2 DEF Headed, SameOrder

(* A cell taken out of its bucket. *)
Taken(t, C, i, k) == [b \in 0..SizeOf(t)-1 |-> IF b = i THEN Removed(C[b], k) ELSE C[b]]

LEMMA UnlinkChains ==
  ASSUME NEW t, NEW C, NEW S, Chained(t, C, S), NEW n \in S,
         NEW k \in 1..Len(C[hindex(t, n)]), C[hindex(t, n)][k] = n
  PROVE  LET s == UnlinkIter(t, n)
             D == Taken(t, C, hindex(t, n), k)
         IN  /\ Chained(s, D, S \ {n})
             /\ SizeOf(s) = SizeOf(t) /\ s.nelem = t.nelem - 1 /\ s.node[n] = FreeIter
             /\ \A m \in HashCells \ {n} :
                  /\ s.node[m].key = t.node[m].key /\ s.node[m].data = t.node[m].data
                  /\ s.node[m].hkey = t.node[m].hkey /\ s.node[m].foreach = t.node[m].foreach
                  /\ s.node[m].used = t.node[m].used
             /\ \A b \in 0..SizeOf(t)-1 : SameOrder(C[b], D[b])
<1> DEFINE i == hindex(t, n)
           a == At(C[i], k - 1)
           z == At(C[i], k + 1)
           s == UnlinkIter(t, n)
           D == Taken(t, C, i, k)
           N == SizeOf(t)
<1>0. /\ n \in HashCells /\ n # Null /\ N \in Nat \ {0} /\ i \in 0..N-1 /\ Null \notin HashCells
      /\ t.tab \in [0..N-1 -> HashCells \cup {Null}]
  <2>1. n \in HashCells /\ n # Null
    BY ChainedFacts
  <2>2. i \in 0..N-1
    BY <2>1, ChainedFacts
  <2> QED
    BY <2>1, <2>2, HashMemory DEF Chained
<1>1. /\ C[i] \in Seq(HashCells) /\ Distinct(C[i]) /\ Len(C[i]) \in Nat
      /\ Linear(C[i], t.node, HashCells) /\ t.tab[i] = At(C[i], 1)
      /\ Cells(C[i]) = {m \in S : hindex(t, m) = i}
      /\ \A j \in Int : At(C[i], j) \in Cells(C[i]) \cup {Null}
  <2>1. C[i] \in Seq(HashCells) /\ Distinct(C[i]) /\ Len(C[i]) \in Nat
        /\ \A j \in Int : At(C[i], j) \in Cells(C[i]) \cup {Null}
    BY <1>0, ChainedFacts
  <2>2. Linear(C[i], t.node, HashCells) /\ t.tab[i] = At(C[i], 1) /\ Cells(C[i]) = {m \in S : hindex(t, m) = i}
    BY <1>0 DEF Chained
  <2> QED
    BY <2>1, <2>2
<1>2. t.node[n].prev = a /\ t.node[n].next = z
  BY <1>1 DEF Linear
<1>3. a = Null <=> k = 1
  BY <1>0, <1>1, ChainedFacts, SMTT(30) DEF At
<1>4. a \in Cells(C[i]) \cup {Null} /\ z \in Cells(C[i]) \cup {Null}
  <2>1. k - 1 \in Int /\ k + 1 \in Int
    OBVIOUS
  <2> QED
    BY <1>1, <2>1
<1>5. a \in HashCells \cup {Null} /\ z \in HashCells \cup {Null}
  BY <1>4, <1>0, ChainedFacts
<1> HIDE DEF a, z
<1>6. /\ s.tab = [t.tab EXCEPT ![i] = IF a = Null THEN z ELSE @] /\ s.nelem = t.nelem - 1
      /\ s = TableOf(s.tab, s.node, s.nelem) /\ s.node = Released(t, n, a, z)
  BY <1>2, TableParts DEF UnlinkIter
<1> HIDE DEF s
<1>7. s.tab = [b \in 0..N-1 |-> IF b = i /\ a = Null THEN z ELSE t.tab[b]]
  BY <1>0, <1>6
<1>8. SizeOf(s) = N /\ s.tab \in [0..N-1 -> HashCells \cup {Null}]
  <2> HIDE DEF i, N
  <2>1. s.tab \in [0..N-1 -> HashCells \cup {Null}]
    BY <1>0, <1>5, <1>7
  <2> QED
    BY <1>0, <2>1, SizeIs
<1>9. \A m \in HashCells : t.node[m] \in Iters
  BY ChainedFacts
<1>10. s.node[n] = FreeIter
  BY <1>0, <1>6 DEF Released
<1>11. ASSUME NEW m \in HashCells, m # n
       PROVE  /\ s.node[m] \in Iters
              /\ s.node[m].next = IF m = a THEN z ELSE t.node[m].next
              /\ s.node[m].prev = IF m = z THEN a ELSE t.node[m].prev
              /\ s.node[m].key = t.node[m].key /\ s.node[m].data = t.node[m].data
              /\ s.node[m].hkey = t.node[m].hkey /\ s.node[m].foreach = t.node[m].foreach
              /\ s.node[m].used = t.node[m].used
  <2> DEFINE e == t.node[m]
             x == IF m = a THEN z ELSE e.next
             y == IF m = z THEN a ELSE e.prev
  <2>1. s.node[m] = Joined(e, x, y)
    BY <1>6, <1>11 DEF Released
  <2>2. e \in Iters /\ x \in HashCells \cup {Null} /\ y \in HashCells \cup {Null}
    BY <1>5, <1>9, ItersHave
  <2> HIDE DEF x, y, e
  <2>3. LET j == Joined(e, x, y)
        IN  /\ j \in Iters /\ j.next = x /\ j.prev = y
            /\ j.key = e.key /\ j.data = e.data /\ j.hkey = e.hkey
            /\ j.foreach = e.foreach /\ j.used = e.used
    BY <2>2, JoinedParts
  <2>4. /\ s.node[m] \in Iters /\ s.node[m].next = x /\ s.node[m].prev = y
        /\ s.node[m].key = e.key /\ s.node[m].data = e.data /\ s.node[m].hkey = e.hkey
        /\ s.node[m].foreach = e.foreach /\ s.node[m].used = e.used
    BY <2>1, <2>3
  <2> QED
    BY <2>4 DEF x, y, e
<1>12. s.node \in [HashCells -> Iters]
  <2>1. s.node[n] \in Iters
    BY <1>10, IterParts DEF FreeIter
  <2>2. s.node = [m \in HashCells |-> s.node[m]]
    BY <1>6 DEF Released
  <2> QED
    BY <1>11, <2>1, <2>2
<1>13. \A m \in HashCells \ {n} : hindex(s, m) = hindex(t, m)
  BY <1>8, <1>11, SameIndex
<1>14. ASSUME NEW b \in 0..N-1
       PROVE  /\ Linear(D[b], s.node, HashCells) /\ s.tab[b] = At(D[b], 1)
              /\ Cells(D[b]) = {m \in S \ {n} : hindex(s, m) = b}
              /\ SameOrder(C[b], D[b])
  <2>1. CASE b = i
    <3> DEFINE c == C[i]
    <3>1. D[b] = Removed(c, k)
      BY <2>1 DEF Taken
    <3>2. k \in 1..Len(c) /\ c[k] = n /\ a = At(c, k - 1) /\ z = At(c, k + 1)
      BY DEF a, z
    <3>3. At(c, 1) = t.tab[i] /\ Linear(c, t.node, HashCells) /\ c \in Seq(HashCells) /\ Distinct(c)
          /\ Cells(c) = {m \in S : hindex(t, m) = i} /\ Cells(c) \subseteq HashCells
          /\ Len(c) \in Nat
      BY <1>1, ChainedFacts
    <3> HIDE DEF c
    <3>4. \A m \in Cells(c) \ {c[k]} :
            /\ s.node[m].next = IF m = At(c, k - 1) THEN At(c, k + 1) ELSE t.node[m].next
            /\ s.node[m].prev = IF m = At(c, k + 1) THEN At(c, k - 1) ELSE t.node[m].prev
      BY <1>11, <3>2, <3>3
    <3>5. Linear(Removed(c, k), s.node, HashCells)
      BY <1>0, <3>2, <3>3, <3>4, LinearRemoved
    <3>6. Cells(Removed(c, k)) = Cells(c) \ {n} /\ SameOrder(c, Removed(c, k))
      BY <3>2, <3>3, RemovedCells
    <3>7. s.tab[b] = At(Removed(c, k), 1)
      <4>1. s.tab[b] = IF k = 1 THEN z ELSE t.tab[i]
        BY <1>0, <1>3, <1>7, <2>1
      <4>2. \A j \in Int : At(Removed(c, k), j) = IF j < k THEN At(c, j) ELSE At(c, j + 1)
        BY <3>2, <3>3, RemovedIs
      <4>3. 1 \in Int /\ (1 < k <=> k # 1) /\ 1 + 1 = 2 /\ (k = 1 => k + 1 = 2)
        BY <3>2, <3>3
      <4>4. At(Removed(c, k), 1) = IF 1 < k THEN At(c, 1) ELSE At(c, 1 + 1)
        BY <4>2, <4>3
      <4> QED
        BY <3>2, <3>3, <4>1, <4>3, <4>4
    <3>8. {m \in S \ {n} : hindex(s, m) = b} = {m \in S : hindex(t, m) = i} \ {n}
      BY <1>13, <2>1, ChainedFacts
    <3> QED
      BY <2>1, <3>1, <3>3, <3>5, <3>6, <3>7, <3>8 DEF c
  <2>2. CASE b # i
    <3>1. D[b] = C[b] /\ s.tab[b] = t.tab[b]
      BY <1>0, <1>7, <2>2 DEF Taken
    <3>2. Linear(C[b], t.node, HashCells) /\ t.tab[b] = At(C[b], 1)
          /\ Cells(C[b]) = {m \in S : hindex(t, m) = b} /\ S \subseteq HashCells
      BY DEF Chained
    <3>3. \A m \in Cells(C[b]) : m \in HashCells /\ m # n /\ m # a /\ m # z
      BY <1>0, <1>1, <1>4, <2>2, <3>2
    <3>4. Linear(C[b], s.node, HashCells)
      BY <1>11, <3>2, <3>3, LinearSame
    <3>5. {m \in S \ {n} : hindex(s, m) = b} = {m \in S : hindex(t, m) = b}
      BY <1>13, <2>2, <3>2
    <3> QED
      BY <3>1, <3>2, <3>4, <3>5 DEF SameOrder
  <2> QED
    BY <2>1, <2>2
<1>15. S \ {n} \subseteq HashCells
  BY DEF Chained
<1>16. Chained(s, D, S \ {n})
  <2> HIDE DEF D, i, N
  <2> QED
    BY <1>0, <1>6, <1>8, <1>12, <1>14, <1>15 DEF Chained
<1>17. \A b \in 0..N-1 : SameOrder(C[b], D[b])
  BY <1>14
<1> HIDE DEF D, i
<1> QED
  BY <1>6, <1>8, <1>10, <1>11, <1>16, <1>17 DEF s, D, i

LEMMA FirstFromIs ==
  ASSUME NEW t, NEW C, NEW S, Chained(t, C, S), NEW b \in 0..SizeOf(t)
  PROVE  FirstFrom(t, b) =
           IF b = SizeOf(t) THEN Null ELSE IF t.tab[b] # Null THEN t.tab[b] ELSE FirstFrom(t, b + 1)
<1> DEFINE N == SizeOf(t)
           full(x) == {c \in DOMAIN t.tab : c >= x /\ t.tab[c] # Null}
<1>0. N \in Nat \ {0} /\ DOMAIN t.tab = 0..N-1
  BY DEF Chained
<1>1. \A x : FirstFrom(t, x) = IF full(x) = {} THEN Null ELSE t.tab[Lowest(full(x))]
  BY DEF FirstFrom
<1>2. \A x : full(x) \in SUBSET Nat
  BY <1>0
<1>3. CASE b = N
  <2>1. full(b) = {}
    BY <1>0, <1>3
  <2> HIDE DEF full
  <2> QED
    BY <1>1, <1>3, <2>1
<1>4. CASE b # N /\ t.tab[b] # Null
  <2>1. b \in full(b) /\ \A x \in full(b) : b <= x
    BY <1>0, <1>4
  <2> HIDE DEF full
  <2>2. Lowest(full(b)) \in full(b) /\ Lowest(full(b)) <= b
    BY <1>2, <2>1, Least
  <2>3. Lowest(full(b)) = b
    <3>1. Lowest(full(b)) \in Nat /\ b <= Lowest(full(b)) /\ b \in Nat
      BY <1>2, <2>1, <2>2
    <3> QED
      BY <2>2, <3>1
  <2> QED
    BY <1>1, <1>4, <2>1, <2>3
<1>5. CASE b # N /\ t.tab[b] = Null
  <2>1. full(b) = full(b + 1)
    BY <1>0, <1>5
  <2> HIDE DEF full
  <2> QED
    BY <1>1, <1>5, <2>1
<1> QED
  BY <1>3, <1>4, <1>5

(* The cells of the first b buckets, in the order of sd_hash_begin and      *)
(* sd_hash_iter_next.                                                       *)
Arranged(t, S, b, u) ==
  /\ u \in Seq(HashCells) /\ Distinct(u) /\ Cells(u) = {n \in S : hindex(t, n) < b}
  /\ FirstFrom(t, 0) = IF Len(u) = 0 THEN FirstFrom(t, b) ELSE u[1]
  /\ \A j \in 1..Len(u) :
       sd_hash_iter_next(t, u[j]) = IF j = Len(u) THEN FirstFrom(t, b) ELSE u[j+1]

LEMMA ArrangedStep ==
  ASSUME NEW t, NEW C, NEW S, Chained(t, C, S), NEW b \in 0..SizeOf(t)-1, NEW u, Arranged(t, S, b, u)
  PROVE  Arranged(t, S, b + 1, u \o C[b])
<1> DEFINE c == C[b]
           v == u \o c
           m == Len(u)
           N == SizeOf(t)
<1>0. /\ c \in Seq(HashCells) /\ Distinct(c) /\ Len(c) \in Nat /\ m \in Nat /\ u \in Seq(HashCells)
      /\ N \in Nat \ {0} /\ b \in 0..N /\ b \in Int
      /\ \A j \in 1..Len(c) : c[j] \in S /\ hindex(t, c[j]) = b /\ t.node[c[j]].next = At(c, j + 1)
      /\ t.tab[b] = At(c, 1) /\ Cells(c) = {n \in S : hindex(t, n) = b}
      /\ \A j \in Int : At(c, j) = Null <=> j \notin 1..Len(c)
  <2>1. c \in Seq(HashCells) /\ Distinct(c) /\ Len(c) \in Nat /\ N \in Nat \ {0} /\ Null \notin Cells(c)
    BY ChainedFacts
  <2>2. t.tab[b] = At(c, 1) /\ Cells(c) = {n \in S : hindex(t, n) = b}
        /\ \A j \in 1..Len(c) : t.node[c[j]].next = At(c, j + 1)
    BY DEF Chained, Linear
  <2>3. \A j \in 1..Len(c) : c[j] \in Cells(c)
    BY DEF Cells
  <2>4. u \in Seq(HashCells) /\ m \in Nat
    BY DEF Arranged
  <2>5. b \in 0..N /\ b \in Int
    BY <2>1
  <2>6. \A j \in Int : At(c, j) = Null <=> j \notin 1..Len(c)
    BY <2>1, <2>3 DEF At
  <2> HIDE DEF c, m, N
  <2> QED
    BY <2>1, <2>2, <2>3, <2>4, <2>5, <2>6
<1> HIDE DEF c
<1>1. v \in Seq(HashCells) /\ Len(v) = m + Len(c)
      /\ \A j \in 1..m+Len(c) : v[j] = IF j <= m THEN u[j] ELSE c[j-m]
  BY <1>0, ConcatProperties
<1>2. /\ \A j \in 1..m : j \in 1..Len(v) /\ v[j] = u[j]
      /\ \A j \in 1..Len(c) : m + j \in 1..Len(v) /\ v[m+j] = c[j]
      /\ \A j \in 1..Len(v) : j \notin 1..m => j - m \in 1..Len(c) /\ v[j] = c[j-m] /\ m + (j - m) = j
  <2> HIDE DEF v, m
  <2>1. \A j \in 1..Len(c) : m + j \in 1..m+Len(c) /\ ~ m + j <= m /\ (m + j) - m = j
    BY <1>0
  <2>2. \A j \in 1..m : j \in 1..m+Len(c) /\ j <= m
    BY <1>0
  <2>3. \A j \in 1..m+Len(c) : j \notin 1..m => j - m \in 1..Len(c) /\ ~ j <= m /\ m + (j - m) = j
    BY <1>0
  <2> QED
    BY <1>1, <2>1, <2>2, <2>3
<1> HIDE DEF v, m
<1>3. /\ Distinct(u) /\ Cells(u) = {n \in S : hindex(t, n) < b}
      /\ FirstFrom(t, 0) = IF m = 0 THEN FirstFrom(t, b) ELSE u[1]
      /\ \A j \in 1..m : /\ sd_hash_iter_next(t, u[j]) = IF j = m THEN FirstFrom(t, b) ELSE u[j+1]
                         /\ u[j] \in S /\ hindex(t, u[j]) < b
  <2>1. \A j \in 1..m : u[j] \in Cells(u)
    BY DEF Cells, m
  <2> QED
    BY <2>1 DEF Arranged, m
<1>4. FirstFrom(t, b) = IF Len(c) = 0 THEN FirstFrom(t, b + 1) ELSE c[1]
  <2>1. FirstFrom(t, b) = IF t.tab[b] # Null THEN t.tab[b] ELSE FirstFrom(t, b + 1)
    <3>1. b # N
      BY <1>0
    <3> QED
      BY <1>0, <3>1, FirstFromIs
  <2>2. 1 \in 1..Len(c) <=> Len(c) # 0
    BY <1>0
  <2> QED
    BY <1>0, <2>1, <2>2 DEF At
<1>5. Distinct(v)
  <2> SUFFICES ASSUME NEW i \in 1..Len(v), NEW j \in 1..Len(v), v[i] = v[j] PROVE i = j
    BY DEF Distinct
  <2>1. CASE i \in 1..m /\ j \in 1..m
    <3>1. u[i] = u[j]
      BY <1>2, <2>1
    <3> QED
      BY <1>3, <2>1, <3>1 DEF Distinct, m
  <2>5. ASSUME NEW x \in 1..m, NEW y \in 1..Len(v), y \notin 1..m PROVE v[x] # v[y]
    <3>1. v[x] = u[x] /\ hindex(t, u[x]) < b
      BY <1>2, <1>3
    <3>2. y - m \in 1..Len(c) /\ v[y] = c[y-m]
      BY <1>2, <2>5
    <3>3. hindex(t, c[y-m]) = b
      BY <1>0, <3>2
    <3> QED
      BY <1>0, <3>1, <3>2, <3>3
  <2>2. CASE i \in 1..m /\ j \notin 1..m
    BY <2>2, <2>5
  <2>3. CASE i \notin 1..m /\ j \in 1..m
    BY <2>3, <2>5
  <2>4. CASE i \notin 1..m /\ j \notin 1..m
    <3>1. i - m = j - m
      BY <1>0, <1>2, <2>4, ZenonT(40) DEF Distinct
    <3> QED
      BY <1>2, <2>4, <3>1
  <2> QED
    BY <2>1, <2>2, <2>3, <2>4
<1>6. Cells(v) = {n \in S : hindex(t, n) < b + 1}
  <2>1. \A n \in S : hindex(t, n) \in Int
    BY ChainedFacts
  <2>2. \A n \in S : hindex(t, n) < b + 1 <=> hindex(t, n) < b \/ hindex(t, n) = b
    BY <1>0, <2>1
  <2>3. Cells(v) = Cells(u) \cup Cells(c)
    <3>1. \A j \in 1..Len(v) : v[j] \in Cells(u) \cup Cells(c)
      BY <1>2 DEF Cells, m
    <3>2. \A j \in 1..m : u[j] \in Cells(v)
      BY <1>2 DEF Cells
    <3>3. \A j \in 1..Len(c) : c[j] \in Cells(v)
      BY <1>2 DEF Cells
    <3> QED
      BY <3>1, <3>2, <3>3 DEF Cells, m
  <2> QED
    BY <1>0, <1>3, <2>2, <2>3
<1>7. FirstFrom(t, 0) = IF Len(v) = 0 THEN FirstFrom(t, b + 1) ELSE v[1]
  <2>1. CASE m # 0
    <3>1. 1 \in 1..m /\ Len(v) # 0
      BY <1>0, <1>1, <2>1
    <3> QED
      BY <1>2, <1>3, <2>1, <3>1
  <2>2. CASE m = 0 /\ Len(c) # 0
    <3>1. 1 \in 1..Len(c) /\ Len(v) # 0 /\ m + 1 = 1
      BY <1>0, <1>1, <2>2
    <3> QED
      BY <1>2, <1>3, <1>4, <2>2, <3>1
  <2>3. CASE m = 0 /\ Len(c) = 0
    BY <1>1, <1>3, <1>4, <2>3
  <2> QED
    BY <2>1, <2>2, <2>3
<1>8. ASSUME NEW j \in 1..Len(v)
      PROVE  sd_hash_iter_next(t, v[j]) = IF j = Len(v) THEN FirstFrom(t, b + 1) ELSE v[j+1]
  <2>0. Len(v) = m + Len(c) /\ j \in Nat /\ 1 <= j /\ j <= Len(v) /\ m \in Nat /\ Len(c) \in Nat
    BY <1>0, <1>1
  <2>1. CASE j \in 1..m
    <3>1. v[j] = u[j]
      BY <1>2, <2>1
    <3>2. CASE j # m
      <4>1. j + 1 \in 1..m /\ j # Len(v)
        BY <2>0, <2>1, <3>2
      <4> QED
        BY <1>2, <1>3, <2>1, <3>1, <3>2, <4>1
    <3>3. CASE j = m /\ Len(c) # 0
      <4>1. 1 \in 1..Len(c) /\ j # Len(v)
        BY <2>0, <3>3
      <4>2. v[j+1] = c[1]
        BY <1>2, <3>3, <4>1
      <4> QED
        BY <1>3, <1>4, <2>1, <3>1, <3>3, <4>1, <4>2
    <3>4. CASE j = m /\ Len(c) = 0
      <4>1. j = Len(v)
        BY <2>0, <3>4
      <4> QED
        BY <1>3, <1>4, <2>1, <3>1, <3>4, <4>1
    <3> QED
      BY <3>2, <3>3, <3>4
  <2>2. CASE j \notin 1..m
    <3> DEFINE i == j - m
    <3>1. i \in 1..Len(c) /\ v[j] = c[i] /\ m + i = j
      BY <1>2, <2>2
    <3> HIDE DEF i
    <3>2. t.node[v[j]].next = At(c, i + 1) /\ hindex(t, v[j]) = b
      BY <1>0, <3>1
    <3>3. CASE i + 1 \in 1..Len(c)
      <4> DEFINE x == Len(c)
                 y == Len(v)
      <4>0. x \in Nat /\ y = m + x /\ i + 1 <= x /\ i \in Int /\ m + i = j /\ m \in Nat
        BY <2>0, <3>1, <3>3
      <4> HIDE DEF x, y
      <4>a. m + (i + 1) = j + 1 /\ j # y
        BY <4>0
      <4>1. m + (i + 1) = j + 1 /\ j # Len(v)
        BY <4>a DEF y
      <4>2. v[j+1] = c[i+1]
        BY <1>2, <3>3, <4>1
      <4>3. At(c, i + 1) = c[i+1] /\ At(c, i + 1) # Null
        BY <1>0, <3>1, <3>3 DEF At
      <4> QED
        BY <3>2, <4>1, <4>2, <4>3 DEF sd_hash_iter_next
    <3>4. CASE i + 1 \notin 1..Len(c)
      <4>1. j = Len(v)
        BY <2>0, <3>1, <3>4
      <4>2. At(c, i + 1) = Null
        BY <3>4 DEF At
      <4> QED
        BY <3>2, <4>1, <4>2 DEF sd_hash_iter_next
    <3> QED
      BY <3>3, <3>4
  <2> QED
    BY <2>1, <2>2
<1> QED
  BY <1>1, <1>5, <1>6, <1>7, <1>8 DEF Arranged, v, c

(* What AllNodes counts up to exists, and says what it should. *)
Upto(t, f, k) == f = [b \in 0..k |-> IF b = 0 THEN << >> ELSE f[b-1] \o Bucket(t, b - 1)]

LEMMA UptoExists == ASSUME NEW t, NEW k \in Nat PROVE \E f : Upto(t, f, k)
<1> DEFINE T == {m \in Nat : \E f : Upto(t, f, m)}
<1>1. 0 \in T
  <2>1. Upto(t, [b \in 0..0 |-> << >>], 0)
    BY DEF Upto
  <2> QED
    BY <2>1
<1>2. ASSUME NEW m \in Nat, m \in T PROVE m + 1 \in T
  <2>1. PICK f : Upto(t, f, m)
    BY <1>2
  <2> DEFINE g == [b \in 0..m+1 |-> IF b = m + 1 THEN f[m] \o Bucket(t, m) ELSE f[b]]
  <2>2. \A b \in 0..m : g[b] = f[b]
    OBVIOUS
  <2>3. g[m+1] = f[m] \o Bucket(t, m)
    OBVIOUS
  <2>4. g = [b \in 0..m+1 |-> g[b]]
    OBVIOUS
  <2> HIDE DEF g
  <2>5. ASSUME NEW b \in 0..m+1 PROVE g[b] = IF b = 0 THEN << >> ELSE g[b-1] \o Bucket(t, b - 1)
    <3>1. CASE b = m + 1
      <4>1. b # 0 /\ b - 1 = m /\ m \in 0..m
        BY <3>1
      <4> QED
        BY <2>2, <2>3, <3>1, <4>1
    <3>2. CASE b = 0
      <4>1. b \in 0..m
        BY <3>2
      <4> QED
        BY <2>1, <2>2, <3>2, <4>1 DEF Upto
    <3>3. CASE b # m + 1 /\ b # 0
      <4>1. b \in 0..m /\ b - 1 \in 0..m
        BY <3>3
      <4>2. f[b] = f[b-1] \o Bucket(t, b - 1)
        BY <2>1, <3>3, <4>1 DEF Upto
      <4> QED
        BY <2>2, <3>3, <4>1, <4>2
    <3> QED
      BY <3>1, <3>2, <3>3
  <2>6. Upto(t, g, m + 1)
    <3>1. [b \in 0..m+1 |-> g[b]] = [b \in 0..m+1 |-> IF b = 0 THEN << >> ELSE g[b-1] \o Bucket(t, b - 1)]
      BY <2>5
    <3> QED
      BY <2>4, <3>1 DEF Upto
  <2> QED
    BY <2>6
<1>3. T \in SUBSET Nat
  OBVIOUS
<1> HIDE DEF T
<1>4. T = Nat
  BY <1>1, <1>2, <1>3, Induction
<1> QED
  BY <1>4 DEF T

(* All cells in that order. *)
LEMMA AllNodesAre ==
  ASSUME NEW t, NEW C, NEW S, Chained(t, C, S)
  PROVE  LET u == AllNodes(t)
         IN  /\ u \in Seq(HashCells) /\ Distinct(u) /\ Len(u) \in Nat /\ Cells(u) = S
             /\ sd_hash_begin(t) = At(u, 1)
             /\ \A j \in 1..Len(u) : sd_hash_iter_next(t, u[j]) = At(u, j + 1)
<1> DEFINE N == SizeOf(t)
           f == CHOOSE x : Upto(t, x, N)
<1>0. N \in Nat \ {0}
  BY ChainedFacts
<1>6. Upto(t, f, N)
  BY <1>0, UptoExists
<1>7. AllNodes(t) = f[N]
  BY DEF AllNodes, Upto
<1> HIDE DEF f
<1> DEFINE V == {k \in Nat : k <= N => Arranged(t, S, k, f[k])}
<1>8. 0 \in V
  <2>2. \A n \in S : hindex(t, n) \in 0..N-1
    BY ChainedFacts
  <2>3. \A n \in S : ~ hindex(t, n) < 0
    BY <1>0, <2>2
  <2>4. Cells(<< >>) = {} /\ Distinct(<< >>) /\ << >> \in Seq(HashCells) /\ Len(<< >>) = 0
    BY DEF Cells, Distinct
  <2>5. Arranged(t, S, 0, << >>)
    BY <2>3, <2>4 DEF Arranged
  <2>6. f[0] = << >>
    <3>1. 0 \in 0..N
      BY <1>0
    <3> QED
      BY <1>6, <3>1 DEF Upto
  <2> QED
    BY <2>5, <2>6
<1>9. ASSUME NEW k \in Nat, k \in V PROVE k + 1 \in V
  <2> SUFFICES ASSUME k + 1 <= N PROVE Arranged(t, S, k + 1, f[k+1])
    OBVIOUS
  <2>1. k \in 0..N-1 /\ k <= N /\ k + 1 \in 0..N /\ k + 1 # 0 /\ (k + 1) - 1 = k
    BY <1>0
  <2>2. f[k+1] = f[(k+1)-1] \o Bucket(t, (k + 1) - 1)
    BY <1>6, <2>1 DEF Upto
  <2>3. f[k+1] = f[k] \o C[k]
    BY <2>1, <2>2, BucketIs
  <2>4. Arranged(t, S, k, f[k])
    BY <1>9, <2>1
  <2> QED
    BY <2>1, <2>3, <2>4, ArrangedStep
<1>10. V = Nat
  <2>1. V \in SUBSET Nat
    OBVIOUS
  <2> HIDE DEF V
  <2> QED
    BY <1>8, <1>9, <2>1, Induction
<1> DEFINE u == f[N]
<1>11. Arranged(t, S, N, u)
  BY <1>0, <1>10
<1> HIDE DEF u
<1>12. Cells(u) = S
  <2>1. \A n \in S : hindex(t, n) \in 0..N-1
    BY ChainedFacts
  <2>2. \A n \in S : hindex(t, n) < N
    BY <1>0, <2>1
  <2> QED
    BY <1>11, <2>2 DEF Arranged
<1>13. FirstFrom(t, N) = Null
  <2>1. N \in 0..N
    BY <1>0
  <2> QED
    BY <2>1, FirstFromIs
<1>14. u \in Seq(HashCells) /\ Distinct(u) /\ Len(u) \in Nat
  BY <1>11 DEF Arranged
<1>15. sd_hash_begin(t) = At(u, 1)
  <2>1. 1 \in 1..Len(u) <=> Len(u) # 0
    BY <1>14
  <2> QED
    BY <1>11, <1>13, <2>1 DEF Arranged, sd_hash_begin, At
<1>16. ASSUME NEW j \in 1..Len(u) PROVE sd_hash_iter_next(t, u[j]) = At(u, j + 1)
  <2>1. j + 1 \in 1..Len(u) <=> j # Len(u)
    BY <1>14
  <2> QED
    BY <1>11, <1>13, <2>1 DEF Arranged, At
<1> QED
  BY <1>7, <1>12, <1>14, <1>15, <1>16 DEF u

(* rehash moves the cells one by one. *)
Larger(t) == TableOf(Empty(SD_HASH_GROWTAB * SizeOf(t)), t.node, t.nelem)

Moves(t, all, f, k) == f = [j \in 0..k |-> IF j = 0 THEN Larger(t) ELSE Link(f[j-1], all[j])]

LEMMA MovesExist == ASSUME NEW t, NEW all, NEW k \in Nat PROVE \E f : Moves(t, all, f, k)
<1> DEFINE T == {m \in Nat : \E f : Moves(t, all, f, m)}
<1>1. 0 \in T
  <2>1. Moves(t, all, [b \in 0..0 |-> Larger(t)], 0)
    BY DEF Moves
  <2> QED
    BY <2>1
<1>2. ASSUME NEW m \in Nat, m \in T PROVE m + 1 \in T
  <2>1. PICK f : Moves(t, all, f, m)
    BY <1>2
  <2> DEFINE g == [b \in 0..m+1 |-> IF b = m + 1 THEN Link(f[m], all[m+1]) ELSE f[b]]
  <2>2. \A b \in 0..m : g[b] = f[b]
    OBVIOUS
  <2>3. g[m+1] = Link(f[m], all[m+1])
    OBVIOUS
  <2>4. g = [b \in 0..m+1 |-> g[b]]
    OBVIOUS
  <2> HIDE DEF g
  <2>5. ASSUME NEW b \in 0..m+1 PROVE g[b] = IF b = 0 THEN Larger(t) ELSE Link(g[b-1], all[b])
    <3>1. CASE b = m + 1
      <4>1. b # 0 /\ b - 1 = m /\ m \in 0..m
        BY <3>1
      <4> QED
        BY <2>2, <2>3, <3>1, <4>1
    <3>2. CASE b = 0
      <4>1. b \in 0..m
        BY <3>2
      <4> QED
        BY <2>1, <2>2, <3>2, <4>1 DEF Moves
    <3>3. CASE b # m + 1 /\ b # 0
      <4>1. b \in 0..m /\ b - 1 \in 0..m
        BY <3>3
      <4>2. f[b] = Link(f[b-1], all[b])
        BY <2>1, <3>3, <4>1 DEF Moves
      <4> QED
        BY <2>2, <3>3, <4>1, <4>2
    <3> QED
      BY <3>1, <3>2, <3>3
  <2>6. Moves(t, all, g, m + 1)
    <3>1. [b \in 0..m+1 |-> g[b]] = [b \in 0..m+1 |-> IF b = 0 THEN Larger(t) ELSE Link(g[b-1], all[b])]
      BY <2>5
    <3> QED
      BY <2>4, <3>1 DEF Moves
  <2> QED
    BY <2>6
<1>3. T \in SUBSET Nat
  OBVIOUS
<1> HIDE DEF T
<1>4. T = Nat
  BY <1>1, <1>2, <1>3, Induction
<1> QED
  BY <1>4 DEF T

\* What there is of table t after some of its cells, S, were moved to s.
Rehashing(t, s, S) ==
  /\ \E D : Chained(s, D, S)
  /\ SizeOf(s) = SD_HASH_GROWTAB * SizeOf(t) /\ s.nelem = t.nelem /\ SameFields(s, t)

LEMMA LargerIs ==
  ASSUME NEW t, NEW C, NEW S, Chained(t, C, S)
  PROVE  Rehashing(t, Larger(t), {})
<1> DEFINE N == SD_HASH_GROWTAB * SizeOf(t)
           D == [b \in 0..N-1 |-> << >>]
           s == Larger(t)
<1>1. N \in Nat \ {0} /\ t.node \in [HashCells -> Iters]
  BY DEF Chained, SD_HASH_GROWTAB
<1>2. s.tab = [b \in 0..N-1 |-> Null] /\ s.node = t.node /\ s.nelem = t.nelem
      /\ s = TableOf(s.tab, s.node, s.nelem)
  BY TableParts DEF Larger, Empty
<1> HIDE DEF s, N
<1>3. SizeOf(s) = N
  BY <1>1, <1>2, SizeIs
<1>4. Cells(<< >>) = {} /\ Linear(<< >>, s.node, HashCells) /\ At(<< >>, 1) = Null
  <2>1. << >> \in Seq(HashCells) /\ Len(<< >>) = 0
    OBVIOUS
  <2> QED
    BY <2>1 DEF Cells, Linear, Distinct, At
<1>5. ASSUME NEW b \in 0..N-1
      PROVE  /\ Linear(D[b], s.node, HashCells) /\ s.tab[b] = At(D[b], 1)
             /\ Cells(D[b]) = {n \in {} : hindex(s, n) = b}
  <2>1. D[b] = << >> /\ s.tab[b] = Null
    BY <1>2
  <2> HIDE DEF D
  <2> QED
    BY <1>4, <2>1
<1>6. Chained(s, D, {})
  <2>1. s.tab \in [0..N-1 -> HashCells \cup {Null}]
    BY <1>2
  <2> HIDE DEF D
  <2> QED
    BY <1>1, <1>2, <1>3, <1>5, <2>1 DEF Chained
<1>7. SameFields(s, t)
  BY <1>2 DEF SameFields
<1> HIDE DEF D
<1> QED
  BY <1>2, <1>3, <1>6, <1>7 DEF Rehashing, s, N

LEMMA RehashChains ==
  ASSUME NEW t, NEW C, NEW S, Chained(t, C, S)
  PROVE  Rehashing(t, rehash(t), S)
<1> DEFINE all == AllNodes(t)
           L == Len(all)
           f == CHOOSE x : Moves(t, all, x, L)
           Upon(k) == {all[j] : j \in 1..k}
<1>0. L \in Nat /\ Distinct(all) /\ Cells(all) = S /\ \A j \in 1..L : all[j] \in HashCells
  BY AllNodesAre
<1>1. rehash(t) = f[L]
  BY DEF rehash, Moves, Larger
<1>2. Moves(t, all, f, L)
  <2> HIDE DEF L, all
  <2> QED
    BY <1>0, MovesExist
<1> HIDE DEF f, all
<1> DEFINE V == {k \in Nat : k <= L => Rehashing(t, f[k], Upon(k))}
<1>3. 0 \in V
  <2>1. Upon(0) = {}
    OBVIOUS
  <2>2. f[0] = Larger(t)
    <3>1. 0 \in 0..L
      BY <1>0
    <3> QED
      BY <1>2, <3>1 DEF Moves
  <2> HIDE DEF Upon
  <2> QED
    BY <2>1, <2>2, LargerIs
<1>4. ASSUME NEW k \in Nat, k \in V PROVE k + 1 \in V
  <2> SUFFICES ASSUME k + 1 <= L PROVE Rehashing(t, f[k+1], Upon(k + 1))
    OBVIOUS
  <2>1. k \in 0..L /\ k <= L /\ k + 1 \in 0..L /\ k + 1 \in 1..L /\ k + 1 # 0 /\ (k + 1) - 1 = k
    BY <1>0
  <2>2. f[k+1] = Link(f[k], all[k+1])
    BY <1>2, <2>1 DEF Moves
  <2>3. Rehashing(t, f[k], Upon(k))
    BY <1>4, <2>1
  <2>4. PICK D : Chained(f[k], D, Upon(k))
    BY <2>3 DEF Rehashing
  <2>5. all[k+1] \in HashCells \ Upon(k)
    <3>1. ASSUME NEW j \in 1..k PROVE all[k+1] # all[j]
      <4>1. j \in 1..L /\ j # k + 1
        BY <2>1
      <4> QED
        BY <1>0, <2>1, <4>1 DEF Distinct
    <3> QED
      BY <1>0, <2>1, <3>1
  <2>6. Upon(k + 1) = Upon(k) \cup {all[k+1]}
    <3>1. \A j : j \in 1..k+1 <=> j \in 1..k \/ j = k + 1
      OBVIOUS
    <3> QED
      BY <3>1
  <2> HIDE DEF Upon, V, L
  <2> DEFINE s == f[k]
             n == all[k+1]
  <2>7. /\ Chained(Link(s, n), Headed(s, D, n), Upon(k) \cup {n})
        /\ SizeOf(Link(s, n)) = SizeOf(s) /\ Link(s, n).nelem = s.nelem
        /\ SameFields(Link(s, n), s)
    BY <2>4, <2>5, LinkChains
  <2>8. SameFields(Link(s, n), t)
    BY <2>3, <2>7 DEF Rehashing, SameFields
  <2> QED
    BY <2>2, <2>3, <2>6, <2>7, <2>8 DEF Rehashing
<1>5. V = Nat
  <2>1. V \in SUBSET Nat
    OBVIOUS
  <2> HIDE DEF V
  <2> QED
    BY <1>3, <1>4, <2>1, Induction
<1>6. Upon(L) = S
  BY <1>0 DEF Cells
<1> HIDE DEF Upon
<1> QED
  BY <1>0, <1>1, <1>5, <1>6

-----------------------------------------------------------------------------
(* A table: all cells in use are chained, nelem counts them, each is where  *)
(* its key belongs, and no two have the same.                               *)
Sound(t, C) ==
  /\ Chained(t, C, Used(t)) /\ Cardinality(Used(t)) = t.nelem
  /\ \A n \in Used(t) : t.node[n].key \in Keys => t.node[n].hkey = KeyHash[t.node[n].key]
  /\ \A m, n \in Used(t) : t.node[m].key = t.node[n].key => m = n

Mapped(t) ==
  [k \in Keys |-> LET n == sd_hash_lookup(t, k) IN IF n = Null THEN Absent ELSE t.node[n].data]

LEMMA SoundFacts ==
  ASSUME NEW t, NEW C, Sound(t, C)
  PROVE  /\ Used(t) \subseteq HashCells /\ IsFiniteSet(Used(t)) /\ t.nelem \in Nat
         /\ \A n \in HashCells :
              /\ t.node[n] \in Iters /\ t.node[n].key \in Keys \cup {NoKey}
              /\ t.node[n].data \in Values \cup {NoData} /\ t.node[n].foreach \in {0, 1}
              /\ t.node[n].used \in {0, 1} /\ n # Null
<1>1. Used(t) \subseteq HashCells /\ IsFiniteSet(HashCells)
  BY HashMemory DEF Used, Memory
<1>2. IsFiniteSet(Used(t)) /\ t.nelem \in Nat
  BY <1>1, FS_Subset, FS_CardinalityType DEF Sound
<1>3. ASSUME NEW n \in HashCells
      PROVE  /\ t.node[n] \in Iters /\ t.node[n].key \in Keys \cup {NoKey}
             /\ t.node[n].data \in Values \cup {NoData} /\ t.node[n].foreach \in {0, 1}
             /\ t.node[n].used \in {0, 1} /\ n # Null
  BY ChainedFacts, ItersHave, HashMemory DEF Sound
<1> QED
  BY <1>1, <1>2, <1>3

(* sd_hash_lookup finds the cell that has the key. *)
LEMMA LookupIs ==
  ASSUME NEW t, NEW C, Sound(t, C), NEW k \in Keys
  PROVE  LET n == sd_hash_lookup(t, k)
         IN  \/ n = Null /\ \A m \in Used(t) : t.node[m].key # k
             \/ n \in Used(t) /\ n # Null /\ t.node[n].key = k
<1> DEFINE b == KeyHash[k] % SizeOf(t)
           hits == {n \in Used(t) : t.node[n].key = k}
           c == C[b]
           n == sd_hash_lookup(t, k)
<1>0. Chained(t, C, Used(t)) /\ SizeOf(t) \in Nat \ {0} /\ Used(t) \subseteq HashCells
  BY SoundFacts DEF Sound, Chained
<1>1. b \in 0..SizeOf(t)-1
  <2>1. KeyHash[k] \in Nat
    BY KeysAssumption
  <2> QED
    BY <1>0, <2>1, ModRange
<1>2. Null \notin hits
  BY <1>0, HashMemory
<1>3. \A m \in hits : m \in Cells(c)
  <2>1. ASSUME NEW m \in hits PROVE m \in Cells(c)
    <3>1. t.node[m].hkey = KeyHash[k]
      BY DEF Sound
    <3>2. hindex(t, m) = b
      BY <3>1 DEF hindex
    <3> QED
      BY <1>0, <3>2, ChainedFacts
  <2> QED
    BY <2>1
<1>4. t.tab[b] = At(c, 1) /\ Leads(NextIter(t), c, HashCells)
  <2> HIDE DEF b
  <2> QED
    BY <1>0, <1>1, BucketLeads DEF Chained
<1>5. n = First(At(c, 1), NextIter(t), hits)
  BY <1>4 DEF sd_hash_lookup
<1> HIDE DEF n, b, c
<1>6. \/ n = Null /\ \A j \in 1..Len(c) : c[j] \notin hits
      \/ \E j \in 1..Len(c) : c[j] \in hits /\ n = c[j]
  <2> HIDE DEF hits
  <2> QED
    BY <1>2, <1>4, <1>5, HashMemory, FirstIs
<1>7. CASE n = Null /\ \A j \in 1..Len(c) : c[j] \notin hits
  <2>1. hits = {}
    BY <1>3, <1>7 DEF Cells
  <2> QED
    BY <1>7, <2>1 DEF n
<1>8. CASE \E j \in 1..Len(c) : c[j] \in hits /\ n = c[j]
  BY <1>0, <1>2, <1>8 DEF n
<1> QED
  BY <1>6, <1>7, <1>8

LEMMA MappedIs ==
  ASSUME NEW t, NEW C, Sound(t, C), NEW k \in Keys
  PROVE  /\ (\A m \in Used(t) : t.node[m].key # k) => Mapped(t)[k] = Absent
         /\ \A m \in Used(t) : t.node[m].key = k => Mapped(t)[k] = t.node[m].data
         /\ Mapped(t)[k] \in Values \cup {NoData} \/ Mapped(t)[k] = Absent
<1> DEFINE n == sd_hash_lookup(t, k)
<1>1. \/ n = Null /\ \A m \in Used(t) : t.node[m].key # k
      \/ n \in Used(t) /\ n # Null /\ t.node[n].key = k
  BY LookupIs
<1>2. Mapped(t)[k] = IF n = Null THEN Absent ELSE t.node[n].data
  BY DEF Mapped
<1> HIDE DEF n
<1>3. \A m \in Used(t) : t.node[m].key = k => m = n
  BY <1>1 DEF Sound
<1>4. n \in Used(t) => t.node[n].data \in Values \cup {NoData}
  BY SoundFacts
<1> QED
  BY <1>1, <1>2, <1>3, <1>4

\* A key that has the same cell, with the same data, or none, is mapped the same.
LEMMA MappedSame ==
  ASSUME NEW t, NEW C, Sound(t, C), NEW u, NEW D, Sound(u, D), NEW k \in Keys,
         \A m \in Used(t) : t.node[m].key = k =>
           m \in Used(u) /\ u.node[m].key = k /\ u.node[m].data = t.node[m].data,
         \A m \in Used(u) : u.node[m].key = k => m \in Used(t) /\ t.node[m].key = k
  PROVE  Mapped(u)[k] = Mapped(t)[k]
<1>1. CASE \A m \in Used(t) : t.node[m].key # k
  BY <1>1, MappedIs
<1>2. CASE \E m \in Used(t) : t.node[m].key = k
  <2>1. PICK m \in Used(t) : t.node[m].key = k
    BY <1>2
  <2>2. m \in Used(u) /\ u.node[m].key = k /\ u.node[m].data = t.node[m].data
    BY <2>1
  <2>3. Mapped(t)[k] = t.node[m].data
    BY <2>1, MappedIs
  <2>4. Mapped(u)[k] = u.node[m].data
    BY <2>2, MappedIs
  <2> QED
    BY <2>2, <2>3, <2>4
<1> QED
  BY <1>1, <1>2

\* Call c makes map g of map f, and changes the datum of no key but k.
Alters(f, g, c, k) ==
  /\ \A j \in Keys \ {k} : g[j] = f[j]
  /\ \/ \E d \in Values : c = Made("add", k, d) /\ g[k] = d
     \/ c = Made("lookadd", k, NoData) /\ g[k] = IF f[k] = Absent THEN NoData ELSE f[k]
     \/ c = Made("del", k, NoData) /\ g[k] = Absent

Effect(f, g, c) ==
  \/ c = NoCall /\ \A j \in Keys : g[j] = f[j]
  \/ c = Made("clear", NoKey, NoData) /\ \A j \in Keys : g[j] = Absent
  \/ \E k \in Keys : Alters(f, g, c, k)

LEMMA EffectTyped ==
  ASSUME NEW f, NEW g, NEW c, Effect(f, g, c)
  PROVE  c \in CallRecords
BY DEF Effect, Alters, NoCall, Made, CallRecords

-----------------------------------------------------------------------------
(* A cell given other contents. *)
LEMMA FilledSound ==
  ASSUME NEW t, NEW C, Sound(t, C), NEW n \in Used(t),
         NEW key \in Keys \cup {NoKey}, NEW data \in Values \cup {NoData}, NEW foreach \in {0, 1},
         \A m \in Used(t) \ {n} : t.node[m].key # key,
         key \in Keys => t.node[n].hkey = KeyHash[key]
  PROVE  LET s == With(t, n, Filled(t.node[n], key, data, foreach))
         IN  /\ Sound(s, C) /\ Used(s) = Used(t) /\ SizeOf(s) = SizeOf(t)
             /\ s.node[n].key = key /\ s.node[n].data = data /\ s.node[n].foreach = foreach
             /\ s.node[n].hkey = t.node[n].hkey
             /\ \A m \in HashCells \ {n} : s.node[m] = t.node[m]
             /\ \A m \in HashCells : s.node[m].next = t.node[m].next
<1> DEFINE e == t.node[n]
           i == Filled(e, key, data, foreach)
           s == With(t, n, i)
<1>0. n \in HashCells /\ e \in Iters /\ e.used = 1 /\ Used(t) \subseteq HashCells
  BY SoundFacts DEF Used
<1>1. e.hkey \in Nat /\ e.next \in HashCells \cup {Null} /\ e.prev \in HashCells \cup {Null} /\ e.used \in {0, 1}
  BY <1>0, ItersHave
<1> HIDE DEF e
<1>2. i \in Iters /\ i.key = key /\ i.data = data /\ i.foreach = foreach
      /\ i.hkey = e.hkey /\ i.next = e.next /\ i.prev = e.prev /\ i.used = e.used
  BY <1>1, IterParts DEF Filled
<1> HIDE DEF i
<1>3. /\ s.tab = t.tab /\ s.nelem = t.nelem /\ s = TableOf(s.tab, s.node, s.nelem)
      /\ s.node = [m \in HashCells |-> IF m = n THEN i ELSE t.node[m]]
  BY TableParts DEF With
<1> HIDE DEF s
<1>4. s.node[n] = i /\ \A m \in HashCells \ {n} : s.node[m] = t.node[m]
  BY <1>0, <1>3
<1>5. s.node \in [HashCells -> Iters]
  BY <1>2, <1>3, SoundFacts
<1>6. \A m \in HashCells : /\ s.node[m].next = t.node[m].next /\ s.node[m].prev = t.node[m].prev
                           /\ s.node[m].hkey = t.node[m].hkey /\ s.node[m].used = t.node[m].used
  BY <1>2, <1>4 DEF e
<1>7. Used(s) = Used(t)
  BY <1>6 DEF Used
<1>8. Chained(s, C, Used(t)) /\ SizeOf(s) = SizeOf(t)
  BY <1>0, <1>3, <1>5, <1>6, ChainedSame DEF Sound
<1>9. ASSUME NEW m \in Used(t), s.node[m].key \in Keys PROVE s.node[m].hkey = KeyHash[s.node[m].key]
  <2>1. m \in HashCells /\ s.node[m].hkey = t.node[m].hkey
    BY <1>0, <1>6
  <2>2. CASE m = n
    <3>1. s.node[m].key = key
      BY <1>2, <1>4, <2>2
    <3> QED
      BY <1>9, <2>1, <2>2, <3>1
  <2>3. CASE m # n
    BY <1>4, <1>9, <2>1, <2>3 DEF Sound
  <2> QED
    BY <2>2, <2>3
<1>10. ASSUME NEW m \in Used(t), NEW o \in Used(t), s.node[m].key = s.node[o].key PROVE m = o
  <2>1. m \in HashCells /\ o \in HashCells
    BY <1>0
  <2>2. \A x \in Used(t) \ {n} : s.node[x].key = t.node[x].key
    BY <1>0, <1>4
  <2>3. s.node[n].key = key
    BY <1>2, <1>4
  <2>4. \A x \in Used(t) \ {n} : t.node[x].key # key
    OBVIOUS
  <2>5. CASE m # n /\ o # n
    BY <1>10, <2>2, <2>5 DEF Sound
  <2> QED
    BY <1>10, <2>2, <2>3, <2>4, <2>5
<1>11. Sound(s, C)
  BY <1>3, <1>7, <1>8, <1>9, <1>10 DEF Sound
<1> QED
  BY <1>2, <1>4, <1>6, <1>7, <1>8, <1>11 DEF s, i, e

(* A cell taken out. *)
LEMMA UnlinkSound ==
  ASSUME NEW t, NEW C, Sound(t, C), NEW n \in Used(t)
  PROVE  LET s == UnlinkIter(t, n)
         IN  \E D : /\ Sound(s, D) /\ Used(s) = Used(t) \ {n} /\ SizeOf(s) = SizeOf(t)
                    /\ \A b \in 0..SizeOf(t)-1 : SameOrder(C[b], D[b])
                    /\ \A m \in Used(s) :
                         /\ s.node[m].key = t.node[m].key /\ s.node[m].data = t.node[m].data
                         /\ s.node[m].hkey = t.node[m].hkey /\ s.node[m].foreach = t.node[m].foreach
<1> DEFINE s == UnlinkIter(t, n)
<1>0. Chained(t, C, Used(t)) /\ Used(t) \subseteq HashCells /\ IsFiniteSet(Used(t)) /\ t.nelem = Cardinality(Used(t))
  BY SoundFacts DEF Sound
<1>1. PICK k \in 1..Len(C[hindex(t, n)]) : C[hindex(t, n)][k] = n
  BY <1>0, ChainedFacts DEF Cells
<1> DEFINE D == Taken(t, C, hindex(t, n), k)
<1>2. /\ Chained(s, D, Used(t) \ {n})
      /\ SizeOf(s) = SizeOf(t) /\ s.nelem = t.nelem - 1 /\ s.node[n] = FreeIter
      /\ \A m \in HashCells \ {n} :
           /\ s.node[m].key = t.node[m].key /\ s.node[m].data = t.node[m].data
           /\ s.node[m].hkey = t.node[m].hkey /\ s.node[m].foreach = t.node[m].foreach
           /\ s.node[m].used = t.node[m].used
      /\ \A b \in 0..SizeOf(t)-1 : SameOrder(C[b], D[b])
  BY <1>0, <1>1, UnlinkChains
<1> HIDE DEF s, D
<1>3. Used(s) = Used(t) \ {n}
  <2>1. s.node[n].used = 0
    BY <1>2, IterParts DEF FreeIter
  <2> QED
    BY <1>2, <2>1 DEF Used
<1>4. Cardinality(Used(s)) = s.nelem
  BY <1>0, <1>2, <1>3, FS_RemoveElement
<1>5. \A m \in Used(s) : /\ m \in Used(t) /\ s.node[m].key = t.node[m].key /\ s.node[m].data = t.node[m].data
                         /\ s.node[m].hkey = t.node[m].hkey /\ s.node[m].foreach = t.node[m].foreach
  BY <1>0, <1>2, <1>3
<1>6. Sound(s, D)
  BY <1>2, <1>3, <1>4, <1>5 DEF Sound
<1> QED
  BY <1>2, <1>3, <1>5, <1>6 DEF s

(* There is a free cell for a key that the table does not have. *)
LEMMA FreeCell ==
  ASSUME NEW t, NEW C, Sound(t, C), NEW k \in Keys, \A m \in Used(t) : t.node[m].key # k
  PROVE  Lowest(HashCells \ Used(t)) \in HashCells \ Used(t)
<1> DEFINE U == Used(t)
           K == (Keys \ {k}) \cup {NoKey}
           f == [m \in U |-> t.node[m].key]
<1>1. IsFiniteSet(Keys) /\ NoKey \notin Keys /\ IsFiniteSet(HashCells) /\ HashCells \subseteq Nat
      /\ Cardinality(HashCells) >= Cardinality(Keys) + 1
  BY KeysAssumption, HashCellsAssumption
<1>2. IsFiniteSet(K) /\ Cardinality(K) = Cardinality(Keys) /\ Cardinality(Keys) \in Nat
  <2>1. IsFiniteSet(Keys \ {k}) /\ Cardinality(Keys \ {k}) = Cardinality(Keys) - 1
    BY <1>1, FS_RemoveElement
  <2>2. Cardinality(Keys) \in Nat /\ Cardinality(Keys \ {k}) \in Nat
    BY <1>1, <2>1, FS_CardinalityType
  <2> DEFINE R == Keys \ {k}
  <2>3. NoKey \notin R /\ K = R \cup {NoKey}
    BY <1>1
  <2> HIDE DEF R, K
  <2>4. IsFiniteSet(R) /\ Cardinality(R) = Cardinality(Keys) - 1
    BY <2>1 DEF R
  <2>5. IsFiniteSet(K) /\ Cardinality(K) = Cardinality(R) + 1
    BY <2>3, <2>4, FS_AddElement
  <2> QED
    BY <2>2, <2>4, <2>5
<1>3. f \in Injection(U, K)
  <2>1. \A m \in U : t.node[m].key \in K
    BY SoundFacts
  <2>2. \A m, o \in U : t.node[m].key = t.node[o].key => m = o
    BY DEF Sound
  <2> HIDE DEF K, U
  <2> QED
    BY <2>1, <2>2 DEF Injection, IsInjective
<1>4. Cardinality(U) <= Cardinality(K)
  <2> HIDE DEF U, K, f
  <2> QED
    BY <1>2, <1>3, FS_Injection
<1>5. U \subseteq HashCells /\ Cardinality(U) \in Nat /\ Cardinality(HashCells) \in Nat
  BY <1>1, SoundFacts, FS_CardinalityType
<1>6. U # HashCells
  <2> HIDE DEF U, K
  <2> QED
    BY <1>1, <1>2, <1>4, <1>5
<1>7. HashCells \ U # {} /\ HashCells \ U \in SUBSET Nat
  BY <1>1, <1>5, <1>6
<1> HIDE DEF U
<1>8. Lowest(HashCells \ U) \in HashCells \ U
  BY <1>7, Least
<1> QED
  BY <1>8 DEF U

LEMMA InsertSound ==
  ASSUME NEW t, NEW C, Sound(t, C), NEW k \in Keys, \A m \in Used(t) : t.node[m].key # k,
         NEW d \in Values \cup {NoData}
  PROVE  LET s == Insert(t, k, d)
         IN  \E D, n :
               /\ n \in HashCells \ Used(t) /\ Sound(s, D) /\ Used(s) = Used(t) \cup {n}
               /\ s.node[n].key = k /\ s.node[n].data = d /\ s.node[n].foreach = 0
               /\ \A m \in Used(t) :
                    /\ s.node[m].key = t.node[m].key /\ s.node[m].data = t.node[m].data
                    /\ s.node[m].hkey = t.node[m].hkey /\ s.node[m].foreach = t.node[m].foreach
               /\ \/ SizeOf(s) > SizeOf(t)
                  \/ SizeOf(s) = SizeOf(t) /\ \A b \in 0..SizeOf(t)-1 : SameOrder(C[b], D[b])
<1> DEFINE n == Lowest(HashCells \ Used(t))
           i == Iter(k, d, KeyHash[k], Null, Null, 0, 1)
           s == IF FullTable(t) THEN rehash(t) ELSE t
           new == With(s, n, i)
           x == TableOf(new.tab, new.node, t.nelem + 1)
<1>0. /\ Chained(t, C, Used(t)) /\ Used(t) \subseteq HashCells /\ IsFiniteSet(Used(t))
      /\ t.nelem = Cardinality(Used(t)) /\ t.nelem \in Nat
      /\ SizeOf(t) \in Nat \ {0}
  BY SoundFacts DEF Sound, Chained
<1>1. n \in HashCells \ Used(t)
  BY FreeCell
<1>2. Insert(t, k, d) = Link(x, n)
  BY DEF Insert
<1>3. \E B : /\ Chained(s, B, Used(t)) /\ SameFields(s, t)
             /\ \/ SizeOf(s) > SizeOf(t)
                \/ SizeOf(s) = SizeOf(t) /\ \A b \in 0..SizeOf(t)-1 : B[b] = C[b]
  <2>1. CASE FullTable(t)
    <3>1. Rehashing(t, rehash(t), Used(t))
      BY <1>0, RehashChains
    <3> DEFINE N == SizeOf(t)
               M == SizeOf(rehash(t))
    <3>2. M = 4 * N /\ N \in Nat \ {0}
      BY <1>0, <3>1 DEF Rehashing, SD_HASH_GROWTAB
    <3> HIDE DEF N, M
    <3>3. M > N
      BY <3>2
    <3> QED
      BY <2>1, <3>1, <3>3 DEF Rehashing, M, N
  <2>2. CASE ~ FullTable(t)
    BY <1>0, <2>2 DEF SameFields
  <2> QED
    BY <2>1, <2>2
<1> HIDE DEF n, s
<1>4. PICK B : /\ Chained(s, B, Used(t)) /\ SameFields(s, t)
               /\ \/ SizeOf(s) > SizeOf(t)
                  \/ SizeOf(s) = SizeOf(t) /\ \A b \in 0..SizeOf(t)-1 : B[b] = C[b]
  BY <1>3
<1>5. i \in Iters /\ i.key = k /\ i.data = d /\ i.hkey = KeyHash[k] /\ i.foreach = 0 /\ i.used = 1
  <2>1. KeyHash[k] \in Nat
    BY KeysAssumption
  <2> QED
    BY <2>1, IterParts
<1> HIDE DEF i
<1>6. /\ x.tab = s.tab /\ x.nelem = t.nelem + 1 /\ x = TableOf(x.tab, x.node, x.nelem)
      /\ x.node = [m \in HashCells |-> IF m = n THEN i ELSE s.node[m]]
  BY TableParts DEF With
<1> HIDE DEF x
<1>7. x.node[n] = i /\ \A m \in HashCells \ {n} : x.node[m] = s.node[m]
  BY <1>1, <1>6
<1>8. x.node \in [HashCells -> Iters]
  BY <1>4, <1>5, <1>6 DEF Chained
<1>9. \A m \in Used(t) : x.node[m] = s.node[m]
  BY <1>0, <1>1, <1>7
<1>10. Chained(x, B, Used(t)) /\ SizeOf(x) = SizeOf(s)
  <2>1. \A m \in Used(t) : /\ x.node[m].next = s.node[m].next /\ x.node[m].prev = s.node[m].prev
                           /\ x.node[m].hkey = s.node[m].hkey
    BY <1>9
  <2>2. x.tab = s.tab /\ x = TableOf(x.tab, x.node, x.nelem) /\ Chained(s, B, Used(t))
    BY <1>4, <1>6
  <2> QED
    BY <1>8, <2>1, <2>2, ChainedSame
<1> DEFINE u == Link(x, n)
           D == Headed(x, B, n)
<1>11. /\ Chained(u, D, Used(t) \cup {n}) /\ SizeOf(u) = SizeOf(x) /\ u.nelem = x.nelem
       /\ SameFields(u, x)
  BY <1>1, <1>10, LinkChains
<1>12. \A b \in 0..SizeOf(x)-1 : SameOrder(B[b], D[b])
  BY <1>1, <1>10, HeadedOrder
<1> HIDE DEF u, D
<1>13. Used(u) = Used(t) \cup {n}
  <2>1. \A m \in HashCells \ {n} : u.node[m].used = t.node[m].used
    BY <1>4, <1>7, <1>11 DEF SameFields
  <2>2. u.node[n].used = 1
    BY <1>1, <1>5, <1>7, <1>11 DEF SameFields
  <2> QED
    BY <1>1, <2>1, <2>2 DEF Used
<1>14. u.node[n].key = k /\ u.node[n].data = d /\ u.node[n].foreach = 0 /\ u.node[n].hkey = KeyHash[k]
  BY <1>1, <1>5, <1>7, <1>11 DEF SameFields
<1>15. \A m \in Used(t) :
         /\ u.node[m].key = t.node[m].key /\ u.node[m].data = t.node[m].data
         /\ u.node[m].hkey = t.node[m].hkey /\ u.node[m].foreach = t.node[m].foreach
  BY <1>0, <1>4, <1>9, <1>11 DEF SameFields
<1>16. Cardinality(Used(u)) = u.nelem
  BY <1>0, <1>1, <1>6, <1>11, <1>13, FS_AddElement
<1>17. Sound(u, D)
  <2>1. Chained(u, D, Used(u))
    BY <1>11, <1>13
  <2>2. \A m \in Used(u) : u.node[m].key \in Keys => u.node[m].hkey = KeyHash[u.node[m].key]
    BY <1>13, <1>14, <1>15 DEF Sound
  <2>3. \A m, o \in Used(u) : u.node[m].key = u.node[o].key => m = o
    BY <1>13, <1>14, <1>15 DEF Sound
  <2> QED
    BY <1>16, <2>1, <2>2, <2>3 DEF Sound
<1>18. \/ SizeOf(u) > SizeOf(t)
       \/ SizeOf(u) = SizeOf(t) /\ \A b \in 0..SizeOf(t)-1 : SameOrder(C[b], D[b])
  <2>1. SizeOf(u) = SizeOf(s) /\ \A b \in 0..SizeOf(s)-1 : SameOrder(B[b], D[b])
    BY <1>10, <1>11, <1>12
  <2>2. CASE SizeOf(s) > SizeOf(t)
    BY <2>1, <2>2
  <2>3. CASE SizeOf(s) = SizeOf(t) /\ \A b \in 0..SizeOf(t)-1 : B[b] = C[b]
    BY <2>1, <2>3
  <2> QED
    BY <1>4, <2>2, <2>3
<1> QED
  BY <1>1, <1>2, <1>13, <1>14, <1>15, <1>17, <1>18 DEF u

-----------------------------------------------------------------------------
(* What a call makes of a table, all of whose elements have their keys.     *)
Named(t) == \A n \in Used(t) : t.node[n].key \in Keys

Turns(t, C, u, D) ==
  /\ Sound(u, D) /\ SizeOf(u) >= SizeOf(t)
  /\ SizeOf(u) = SizeOf(t) =>
       /\ \A b \in 0..SizeOf(t)-1 : SameOrder(C[b], D[b])
       /\ \A n \in Used(t) \cap Used(u) : u.node[n].hkey = t.node[n].hkey
  /\ \A n \in Used(u) : u.node[n].foreach = 1 => n \in Used(t) /\ t.node[n].foreach = 1
  /\ \A n \in Used(t) : t.node[n].foreach = 1 =>
       n \in Used(u) /\ (u.node[n].foreach = 1 \/ u.node[n].key = NoKey)
  /\ \A n \in Used(u) : u.node[n].key = NoKey =>
       n \in Used(t) /\ t.node[n].foreach = 1 /\ u.node[n].foreach = 0

LEMMA TurnsSame ==
  ASSUME NEW t, NEW C, Sound(t, C), Named(t)
  PROVE  Turns(t, C, t, C)
<1>1. SizeOf(t) >= SizeOf(t)
  BY DEF Sound, Chained
<1> QED
  BY <1>1, KeysAssumption DEF Turns, Named, SameOrder

LEMMA InsertTurns ==
  ASSUME NEW t, NEW C, Sound(t, C), Named(t), NEW k \in Keys, sd_hash_lookup(t, k) = Null,
         NEW d \in Values \cup {NoData}
  PROVE  /\ \E D : Turns(t, C, Insert(t, k, d), D)
         /\ Mapped(t)[k] = Absent /\ Mapped(Insert(t, k, d))[k] = d
         /\ \A j \in Keys \ {k} : Mapped(Insert(t, k, d))[j] = Mapped(t)[j]
<1> DEFINE u == Insert(t, k, d)
<1>1. \A m \in Used(t) : t.node[m].key # k
  BY LookupIs
<1>2. PICK D, n :
        /\ n \in HashCells \ Used(t) /\ Sound(u, D) /\ Used(u) = Used(t) \cup {n}
        /\ u.node[n].key = k /\ u.node[n].data = d /\ u.node[n].foreach = 0
        /\ \A m \in Used(t) :
             /\ u.node[m].key = t.node[m].key /\ u.node[m].data = t.node[m].data
             /\ u.node[m].hkey = t.node[m].hkey /\ u.node[m].foreach = t.node[m].foreach
        /\ \/ SizeOf(u) > SizeOf(t)
           \/ SizeOf(u) = SizeOf(t) /\ \A b \in 0..SizeOf(t)-1 : SameOrder(C[b], D[b])
  BY <1>1, InsertSound
<1> HIDE DEF u
<1>3. ASSUME NEW j \in Keys \ {k} PROVE Mapped(u)[j] = Mapped(t)[j]
  BY <1>2, MappedSame
<1>4. Mapped(t)[k] = Absent /\ Mapped(u)[k] = d
  BY <1>1, <1>2, MappedIs
<1>5. SizeOf(u) >= SizeOf(t) /\ (SizeOf(u) = SizeOf(t) => \A b \in 0..SizeOf(t)-1 : SameOrder(C[b], D[b]))
  <2>1. SizeOf(u) \in Nat /\ SizeOf(t) \in Nat
    BY <1>2 DEF Sound, Chained
  <2> QED
    BY <1>2, <2>1
<1>6. \A m \in Used(u) : u.node[m].key # NoKey
  BY <1>2, KeysAssumption DEF Named
<1>7. Turns(t, C, u, D)
  BY <1>2, <1>5, <1>6 DEF Turns
<1> QED
  BY <1>3, <1>4, <1>7 DEF u

LEMMA SetTurns ==
  ASSUME NEW t, NEW C, Sound(t, C), Named(t), NEW n \in Used(t), NEW d \in Values \cup {NoData}
  PROVE  LET u == With(t, n, Filled(t.node[n], t.node[n].key, d, t.node[n].foreach))
         IN  /\ Turns(t, C, u, C) /\ Mapped(u)[t.node[n].key] = d
             /\ \A j \in Keys \ {t.node[n].key} : Mapped(u)[j] = Mapped(t)[j]
<1> DEFINE k == t.node[n].key
           f == t.node[n].foreach
           u == With(t, n, Filled(t.node[n], k, d, f))
<1>1. n \in HashCells /\ k \in Keys \cup {NoKey} /\ f \in {0, 1} /\ k \in Keys
      /\ Used(t) \subseteq HashCells
  BY SoundFacts DEF Named
<1>2. /\ Sound(u, C) /\ Used(u) = Used(t) /\ SizeOf(u) = SizeOf(t)
      /\ u.node[n].key = k /\ u.node[n].data = d
      /\ u.node[n].foreach = f /\ u.node[n].hkey = t.node[n].hkey
      /\ \A m \in HashCells \ {n} : u.node[m] = t.node[m]
  <2>1. (\A m \in Used(t) \ {n} : t.node[m].key # k) /\ (k \in Keys => t.node[n].hkey = KeyHash[k])
    BY DEF Sound
  <2> HIDE DEF k, f
  <2>2. LET s == With(t, n, Filled(t.node[n], k, d, f))
        IN  /\ Sound(s, C) /\ Used(s) = Used(t) /\ SizeOf(s) = SizeOf(t)
            /\ s.node[n].key = k /\ s.node[n].data = d
            /\ s.node[n].foreach = f /\ s.node[n].hkey = t.node[n].hkey
            /\ \A m \in HashCells \ {n} : s.node[m] = t.node[m]
    BY <1>1, <2>1, FilledSound
  <2> QED
    BY <2>2
<1> HIDE DEF u
<1>3. \A m \in Used(t) : /\ u.node[m].key = t.node[m].key /\ u.node[m].hkey = t.node[m].hkey
                         /\ u.node[m].foreach = t.node[m].foreach
  BY <1>1, <1>2
<1>4. ASSUME NEW j \in Keys \ {k} PROVE Mapped(u)[j] = Mapped(t)[j]
  <2>1. \A m \in Used(t) : t.node[m].key = j => u.node[m].data = t.node[m].data
    BY <1>1, <1>2
  <2> QED
    BY <1>2, <1>3, <2>1, MappedSame
<1>5. Mapped(u)[k] = d
  BY <1>1, <1>2, MappedIs
<1>6. SizeOf(u) >= SizeOf(t)
  BY <1>2 DEF Sound, Chained
<1>7. Turns(t, C, u, C)
  BY <1>2, <1>3, <1>6, KeysAssumption DEF Turns, SameOrder, Named
<1> QED
  BY <1>4, <1>5, <1>7 DEF u

LEMMA DelTurns ==
  ASSUME NEW t, NEW C, Sound(t, C), Named(t), NEW n \in Used(t)
  PROVE  LET u == sd_hash_iter_del(t, n)
         IN  /\ \E D : Turns(t, C, u, D)
             /\ Mapped(u)[t.node[n].key] = Absent
             /\ \A j \in Keys \ {t.node[n].key} : Mapped(u)[j] = Mapped(t)[j]
<1> DEFINE k == t.node[n].key
<1>0. n \in HashCells /\ k \in Keys /\ Used(t) \subseteq HashCells /\ SizeOf(t) \in Nat /\ NoKey \notin Keys
      /\ NoData \in Values \cup {NoData} /\ NoKey \in Keys \cup {NoKey} /\ 0 \in {0, 1}
  BY SoundFacts, KeysAssumption DEF Named, Sound, Chained
<1>1. CASE t.node[n].foreach = 1
  <2> DEFINE u == With(t, n, Filled(t.node[n], NoKey, NoData, 0))
  <2>1. u = sd_hash_iter_del(t, n)
    BY <1>1 DEF sd_hash_iter_del
  <2>2. \A m \in Used(t) \ {n} : t.node[m].key # NoKey
    BY <1>0 DEF Named
  <2>3. /\ Sound(u, C) /\ Used(u) = Used(t) /\ SizeOf(u) = SizeOf(t)
        /\ u.node[n].key = NoKey /\ u.node[n].foreach = 0 /\ u.node[n].hkey = t.node[n].hkey
        /\ \A m \in HashCells \ {n} : u.node[m] = t.node[m]
    BY <1>0, <2>2, FilledSound
  <2> HIDE DEF u
  <2>4. \A m \in Used(t) \ {n} : u.node[m] = t.node[m]
    BY <1>0, <2>3
  <2>5. ASSUME NEW j \in Keys \ {k} PROVE Mapped(u)[j] = Mapped(t)[j]
    <3>1. \A m \in Used(t) : t.node[m].key = j => m # n
      OBVIOUS
    <3>2. \A m \in Used(u) : u.node[m].key = j => m # n
      BY <1>0, <2>3
    <3> QED
      BY <2>3, <2>4, <3>1, <3>2, MappedSame
  <2>6. Mapped(u)[k] = Absent
    <3>1. \A m \in Used(u) : u.node[m].key # k
      BY <1>0, <2>3, <2>4 DEF Sound
    <3> QED
      BY <1>0, <2>3, <3>1, MappedIs
  <2>7. SizeOf(u) >= SizeOf(t)
    BY <1>0, <2>3
  <2>8. \A m \in Used(u) : u.node[m].key = NoKey => m = n
    BY <1>0, <2>3, <2>4 DEF Named
  <2>9. Turns(t, C, u, C)
    <3>1. \A m \in Used(u) : u.node[m].foreach = 1 => m \in Used(t) /\ t.node[m].foreach = 1
      BY <1>1, <2>3, <2>4
    <3>2. \A m \in Used(t) : t.node[m].foreach = 1 =>
            m \in Used(u) /\ (u.node[m].foreach = 1 \/ u.node[m].key = NoKey)
      BY <2>3, <2>4
    <3>3. \A m \in Used(t) \cap Used(u) : u.node[m].hkey = t.node[m].hkey
      BY <2>3, <2>4
    <3> QED
      BY <1>1, <2>3, <2>7, <2>8, <3>1, <3>2, <3>3 DEF Turns, SameOrder
  <2> QED
    BY <2>1, <2>5, <2>6, <2>9
<1>2. CASE t.node[n].foreach # 1
  <2> DEFINE u == UnlinkIter(t, n)
  <2>1. u = sd_hash_iter_del(t, n)
    BY <1>2 DEF sd_hash_iter_del
  <2>2. PICK D : /\ Sound(u, D) /\ Used(u) = Used(t) \ {n} /\ SizeOf(u) = SizeOf(t)
                 /\ \A b \in 0..SizeOf(t)-1 : SameOrder(C[b], D[b])
                 /\ \A m \in Used(u) :
                      /\ u.node[m].key = t.node[m].key /\ u.node[m].data = t.node[m].data
                      /\ u.node[m].hkey = t.node[m].hkey /\ u.node[m].foreach = t.node[m].foreach
    BY UnlinkSound
  <2> HIDE DEF u
  <2>3. ASSUME NEW j \in Keys \ {k} PROVE Mapped(u)[j] = Mapped(t)[j]
    BY <2>2, MappedSame
  <2>4. Mapped(u)[k] = Absent
    <3>1. \A m \in Used(u) : u.node[m].key # k
      BY <2>2 DEF Sound
    <3> QED
      BY <1>0, <2>2, <3>1, MappedIs
  <2>5. SizeOf(u) >= SizeOf(t)
    BY <1>0, <2>2
  <2>6. Turns(t, C, u, D)
    BY <1>0, <1>2, <2>2, <2>5 DEF Turns, Named
  <2> QED
    BY <2>1, <2>3, <2>4, <2>6
<1> QED
  BY <1>1, <1>2

LEMMA HashCallTurns ==
  ASSUME NEW t, NEW C, Sound(t, C), Named(t), NEW call \in HashCalls(t)
  PROVE  /\ \E D : Turns(t, C, call[1], D)
         /\ Effect(Mapped(t), Mapped(call[1]), call[2])
<1>1. NoData \in Values \cup {NoData} /\ Absent \notin Values \cup {NoData}
  BY ValuesAssumption
<1>2. ASSUME NEW k \in Keys, sd_hash_lookup(t, k) # Null
      PROVE  /\ sd_hash_lookup(t, k) \in Used(t) /\ t.node[sd_hash_lookup(t, k)].key = k
             /\ Mapped(t)[k] # Absent
  <2>1. sd_hash_lookup(t, k) \in Used(t) /\ t.node[sd_hash_lookup(t, k)].key = k
    BY <1>2, LookupIs
  <2>2. Mapped(t)[k] = t.node[sd_hash_lookup(t, k)].data
    BY <2>1, MappedIs
  <2>3. t.node[sd_hash_lookup(t, k)].data \in Values \cup {NoData}
    BY <2>1, SoundFacts
  <2> QED
    BY <1>1, <2>1, <2>2, <2>3
<1>3. CASE \E k \in Keys : call = <<sd_hash_lookadd(t, k), Made("lookadd", k, NoData)>>
  <2>1. PICK k \in Keys : call = <<sd_hash_lookadd(t, k), Made("lookadd", k, NoData)>>
    BY <1>3
  <2>2. CASE sd_hash_lookup(t, k) = Null
    <3>1. call[1] = Insert(t, k, NoData) /\ call[2] = Made("lookadd", k, NoData)
      BY <2>1, <2>2 DEF sd_hash_lookadd
    <3>2. /\ \E D : Turns(t, C, call[1], D)
          /\ Mapped(t)[k] = Absent /\ Mapped(call[1])[k] = NoData
          /\ \A j \in Keys \ {k} : Mapped(call[1])[j] = Mapped(t)[j]
      BY <1>1, <2>2, <3>1, InsertTurns
    <3> QED
      BY <3>1, <3>2 DEF Effect, Alters
  <2>3. CASE sd_hash_lookup(t, k) # Null
    <3>1. call[1] = t /\ call[2] = Made("lookadd", k, NoData)
      BY <2>1, <2>3 DEF sd_hash_lookadd
    <3> QED
      BY <1>2, <2>3, <3>1, TurnsSame DEF Effect, Alters
  <2> QED
    BY <2>2, <2>3
<1>4. CASE \E k \in Keys, d \in Values : call = <<sd_hash_add(t, k, d), Made("add", k, d)>>
  <2>1. PICK k \in Keys, d \in Values : call = <<sd_hash_add(t, k, d), Made("add", k, d)>>
    BY <1>4
  <2> DEFINE n == sd_hash_lookup(t, k)
  <2>2. /\ \E D : Turns(t, C, call[1], D)
        /\ Mapped(call[1])[k] = d
        /\ \A j \in Keys \ {k} : Mapped(call[1])[j] = Mapped(t)[j]
    <3>1. CASE n = Null
      <4>1. call[1] = Insert(t, k, d)
        BY <2>1, <3>1 DEF sd_hash_add
      <4> QED
        BY <3>1, <4>1, InsertTurns
    <3>2. CASE n # Null
      <4>1. n \in Used(t) /\ t.node[n].key = k
        BY <1>2, <3>2
      <4>2. call[1] = With(t, n, Filled(t.node[n], t.node[n].key, d, t.node[n].foreach))
        BY <2>1, <3>2 DEF sd_hash_add
      <4> HIDE DEF n
      <4> QED
        BY <4>1, <4>2, SetTurns
    <3> QED
      BY <3>1, <3>2
  <2>3. call[2] = Made("add", k, d)
    BY <2>1
  <2> QED
    BY <2>2, <2>3 DEF Effect, Alters
<1>5. CASE \E k \in Keys : /\ sd_hash_lookup(t, k) # Null
                          /\ call = <<sd_hash_iter_del(t, sd_hash_lookup(t, k)), Made("del", k, NoData)>>
  <2>1. PICK k \in Keys : /\ sd_hash_lookup(t, k) # Null
                          /\ call = <<sd_hash_iter_del(t, sd_hash_lookup(t, k)), Made("del", k, NoData)>>
    BY <1>5
  <2> DEFINE n == sd_hash_lookup(t, k)
  <2>2. n \in Used(t) /\ t.node[n].key = k
    BY <1>2, <2>1
  <2>3. call[1] = sd_hash_iter_del(t, n) /\ call[2] = Made("del", k, NoData)
    BY <2>1
  <2> HIDE DEF n
  <2>4. /\ \E D : Turns(t, C, call[1], D)
        /\ Mapped(call[1])[k] = Absent
        /\ \A j \in Keys \ {k} : Mapped(call[1])[j] = Mapped(t)[j]
    BY <2>2, <2>3, DelTurns
  <2> QED
    BY <2>3, <2>4 DEF Effect, Alters
<1> QED
  BY <1>3, <1>4, <1>5 DEF HashCalls

LEMMA ClearedSound ==
  ASSUME NEW N \in Nat \ {0}
  PROVE  LET s == Cleared(N)
         IN  /\ Sound(s, [b \in 0..N-1 |-> << >>]) /\ Used(s) = {} /\ SizeOf(s) = N
             /\ \A k \in Keys : Mapped(s)[k] = Absent
<1> DEFINE D == [b \in 0..N-1 |-> << >>]
           s == Cleared(N)
<1>1. s.tab = [b \in 0..N-1 |-> Null] /\ s.node = [n \in HashCells |-> FreeIter] /\ s.nelem = 0
      /\ s = TableOf(s.tab, s.node, s.nelem)
  BY TableParts DEF Cleared, Empty
<1> HIDE DEF s
<1>2. FreeIter \in Iters /\ FreeIter.used = 0
  BY IterParts DEF FreeIter
<1>3. SizeOf(s) = N /\ Used(s) = {} /\ s.node \in [HashCells -> Iters]
      /\ s.tab \in [0..N-1 -> HashCells \cup {Null}]
  BY <1>1, <1>2, SizeIs DEF Used
<1>4. Cells(<< >>) = {} /\ Linear(<< >>, s.node, HashCells) /\ At(<< >>, 1) = Null
  <2>1. << >> \in Seq(HashCells) /\ Len(<< >>) = 0
    OBVIOUS
  <2> QED
    BY <2>1 DEF Cells, Linear, Distinct, At
<1>5. ASSUME NEW b \in 0..N-1
      PROVE  /\ Linear(D[b], s.node, HashCells) /\ s.tab[b] = At(D[b], 1)
             /\ Cells(D[b]) = {n \in {} : hindex(s, n) = b}
  <2>1. D[b] = << >> /\ s.tab[b] = Null
    BY <1>1
  <2> HIDE DEF D
  <2> QED
    BY <1>4, <2>1
<1> HIDE DEF D
<1>6. Chained(s, D, {})
  BY <1>1, <1>3, <1>5 DEF Chained
<1>7. Sound(s, D)
  BY <1>1, <1>3, <1>6, FS_EmptySet DEF Sound
<1>8. \A k \in Keys : Mapped(s)[k] = Absent
  BY <1>3, <1>7, MappedIs
<1> QED
  BY <1>3, <1>7, <1>8 DEF s, D

(* The mark of an element set or taken off. *)
LEMMA MarkedSound ==
  ASSUME NEW t, NEW C, Sound(t, C), NEW n \in Used(t), NEW f \in {0, 1}
  PROVE  LET s == MarkedIter(t, n, f)
         IN  /\ Sound(s, C) /\ Used(s) = Used(t) /\ SizeOf(s) = SizeOf(t)
             /\ \A m \in Used(t) :
                  /\ s.node[m].key = t.node[m].key /\ s.node[m].hkey = t.node[m].hkey
                  /\ s.node[m].foreach = IF m = n THEN f ELSE t.node[m].foreach
             /\ \A j \in Keys : Mapped(s)[j] = Mapped(t)[j]
<1> DEFINE k == t.node[n].key
           d == t.node[n].data
           s == With(t, n, Filled(t.node[n], k, d, f))
<1>1. n \in HashCells /\ k \in Keys \cup {NoKey} /\ d \in Values \cup {NoData} /\ Used(t) \subseteq HashCells
      /\ (\A m \in Used(t) \ {n} : t.node[m].key # k) /\ (k \in Keys => t.node[n].hkey = KeyHash[k])
  BY SoundFacts DEF Sound
<1>2. s = MarkedIter(t, n, f)
  BY DEF MarkedIter
<1> HIDE DEF k, d
<1>3. LET x == With(t, n, Filled(t.node[n], k, d, f))
      IN  /\ Sound(x, C) /\ Used(x) = Used(t) /\ SizeOf(x) = SizeOf(t)
          /\ x.node[n].key = k /\ x.node[n].data = d /\ x.node[n].foreach = f
          /\ x.node[n].hkey = t.node[n].hkey
          /\ \A m \in HashCells \ {n} : x.node[m] = t.node[m]
  BY <1>1, FilledSound
<1> HIDE DEF s
<1>4. /\ Sound(s, C) /\ Used(s) = Used(t) /\ SizeOf(s) = SizeOf(t)
      /\ s.node[n].key = k /\ s.node[n].data = d /\ s.node[n].foreach = f
      /\ s.node[n].hkey = t.node[n].hkey
      /\ \A m \in HashCells \ {n} : s.node[m] = t.node[m]
  BY <1>3 DEF s
<1>5. \A m \in Used(t) :
        /\ s.node[m].key = t.node[m].key /\ s.node[m].hkey = t.node[m].hkey
        /\ s.node[m].data = t.node[m].data
        /\ s.node[m].foreach = IF m = n THEN f ELSE t.node[m].foreach
  BY <1>1, <1>4 DEF k, d
<1>6. ASSUME NEW j \in Keys PROVE Mapped(s)[j] = Mapped(t)[j]
  BY <1>4, <1>5, MappedSame
<1> QED
  BY <1>2, <1>4, <1>5, <1>6

-----------------------------------------------------------------------------
(* What sd_hash_foreach knows of the chains C: no element but the one whose *)
(* callback is running is marked or without its key; and unless the array   *)
(* grew, of the elements that were there from the beginning it has visited  *)
(* those of the buckets before h, and those of bucket h that it has met.    *)
AtElement == IF hpc = "called" THEN {p} ELSE {}

Passed(C, n) ==
  \/ hindex(table, n) < h
  \/ hindex(table, n) = h /\ n \in Met(C[h], p, TRUE) \cup AtElement

HashKnows(C) ==
  /\ hpc # "called" => Named(table) /\ \A n \in Used(table) : table.node[n].foreach = 0
  /\ hpc = "idle" => hkept = {}
  /\ hpc # "idle" => h \in 0..SizeOf(table)-1
  /\ hpc = "loop" => p = Null \/ p \in Used(table)
  /\ hpc = "called" =>
       /\ p \in Used(table)
       /\ \A n \in Used(table) : table.node[n].foreach = 1 => n = p
       /\ \A n \in Used(table) : table.node[n].key = NoKey => n = p /\ table.node[n].foreach = 0
       /\ table.node[p].foreach = 0 => table.node[p].key = NoKey
       /\ p \in hkept => table.node[p].foreach = 1
  /\ hkept \subseteq Used(table)
  /\ hkept # {} /\ p # Null => hindex(table, p) = h
  /\ \A n \in hkept : hvisits[n] = IF Passed(C, n) THEN 1 ELSE 0

HashCarried(C) == HashTypes /\ Sound(table, C) /\ HashKnows(C)

HashInv == \E C : HashCarried(C)

\* A step leaves such a table, on which its call had the effect it should have.
HashOutcome(C) ==
  \E D : /\ HashCarried(D)'
         /\ Effect(Mapped(table), Mapped(table'), hcall') \/ UNCHANGED <<table, hcall>>

LEMMA SoundTypes ==
  ASSUME NEW t, NEW C, Sound(t, C)
  PROVE  /\ SizeOf(t) \in Nat \ {0} /\ t = TableOf(t.tab, t.node, t.nelem)
         /\ t.tab \in [0..SizeOf(t)-1 -> HashCells \cup {Null}]
         /\ t.node \in [HashCells -> Iters] /\ t.nelem \in Nat
BY SoundFacts DEF Sound, Chained

LEMMA HashStarts == HashInit => HashInv
<1> SUFFICES ASSUME HashInit PROVE \E C : HashCarried(C)
  BY DEF HashInv
<1> DEFINE C == [b \in 0..InitSize-1 |-> << >>]
<1>1. Sound(table, C) /\ Used(table) = {} /\ SizeOf(table) = InitSize
  BY SizeAssumption, ClearedSound DEF HashInit
<1> HIDE DEF C
<1>2. HashTypes
  BY <1>1, SoundTypes DEF HashInit, HashTypes, CallRecords, NoCall, Made
<1>3. HashKnows(C)
  BY <1>1 DEF HashInit, HashKnows, Named
<1> QED
  BY <1>1, <1>2, <1>3 DEF HashCarried

LEMMA HashCallCarries ==
  ASSUME NEW C, HashCarried(C), HashCall
  PROVE  HashOutcome(C)
<1>1. Sound(table, C) /\ HashKnows(C) /\ HashTypes
  BY DEF HashCarried
<1>2. /\ hpc = "idle" /\ hpc' = "idle" /\ UNCHANGED <<h, p, hkept, hvisits>> /\ hkept = {} /\ Named(table)
      /\ \A n \in Used(table) : table.node[n].foreach = 0
  BY <1>1 DEF HashCall, HashKnows
<1>3. ASSUME NEW D, Sound(table', D), Named(table'), hcall' \in CallRecords,
             \A n \in Used(table') : table'.node[n].foreach = 0
      PROVE  HashCarried(D)'
  <2>1. HashTypes'
    BY <1>1, <1>2, <1>3, SoundTypes DEF HashTypes
  <2>2. HashKnows(D)'
    BY <1>2, <1>3 DEF HashKnows
  <2> QED
    BY <1>3, <2>1, <2>2 DEF HashCarried
<1>4. CASE Happens(<<Cleared(SizeOf(table)), Made("clear", NoKey, NoData)>>)
  <2>1. SizeOf(table) \in Nat \ {0}
    BY <1>1 DEF HashTypes
  <2>5. table' = Cleared(SizeOf(table)) /\ hcall' = Made("clear", NoKey, NoData)
    BY <1>4 DEF Happens
  <2>2. PICK D : Sound(table', D) /\ Used(table') = {} /\ \A k \in Keys : Mapped(table')[k] = Absent
    BY <2>1, <2>5, ClearedSound
  <2>3. Named(table') /\ \A n \in Used(table') : table'.node[n].foreach = 0
    BY <2>2 DEF Named
  <2>6. Effect(Mapped(table), Mapped(table'), hcall')
    BY <2>2, <2>5 DEF Effect
  <2>4. HashCarried(D)'
    BY <1>3, <2>2, <2>3, <2>6, EffectTyped
  <2> QED
    BY <2>4, <2>6 DEF HashOutcome
<1>5. CASE \E call \in HashCalls(table) : Happens(call)
  <2>5. PICK call \in HashCalls(table) : Happens(call)
    BY <1>5
  <2>6. (\E D : Turns(table, C, table', D)) /\ Effect(Mapped(table), Mapped(table'), hcall')
    BY <1>1, <1>2, <2>5, HashCallTurns DEF Happens
  <2>1. PICK D : Turns(table, C, table', D)
    BY <2>6
  <2>2. Sound(table', D)
    BY <2>1 DEF Turns
  <2>3. ASSUME NEW n \in Used(table') PROVE table'.node[n].foreach = 0 /\ table'.node[n].key \in Keys
    <3>1. table'.node[n].foreach \in {0, 1} /\ table'.node[n].key \in Keys \cup {NoKey}
      BY <2>2, SoundFacts
    <3>2. table'.node[n].foreach # 1 /\ table'.node[n].key # NoKey
      BY <1>2, <2>1 DEF Turns
    <3> QED
      BY <3>1, <3>2
  <2>4. HashCarried(D)'
    BY <1>3, <2>2, <2>3, <2>6, EffectTyped DEF Named
  <2> QED
    BY <2>4, <2>6 DEF HashOutcome
<1> QED
  BY <1>4, <1>5 DEF HashCall

LEMMA HashForeachCarries ==
  ASSUME NEW C, HashCarried(C), HashForeach
  PROVE  HashOutcome(C)
<1>1. Sound(table, C) /\ HashKnows(C) /\ HashTypes /\ Chained(table, C, Used(table))
      /\ Used(table) \subseteq HashCells /\ SizeOf(table) \in Nat \ {0}
  BY SoundFacts DEF HashCarried, Sound, Chained
<1>2. /\ hpc = "idle" /\ hpc' = "loop" /\ table' = table /\ h' = 0 /\ p' = table.tab[0]
      /\ hkept' = Used(table) /\ hvisits' = [n \in HashCells |-> 0]
      /\ Named(table) /\ \A n \in Used(table) : table.node[n].foreach = 0
      /\ hcall' = NoCall
  BY <1>1 DEF HashForeach, HashKnows
<1>3. 0 \in 0..SizeOf(table)-1
  BY <1>1
<1>4. p' = At(C[0], 1) /\ Cells(C[0]) = {n \in Used(table) : hindex(table, n) = 0}
  BY <1>1, <1>2, <1>3 DEF Chained
<1>5. /\ C[0] \in Seq(HashCells) /\ Distinct(C[0])
      /\ At(C[0], 1) \in Cells(C[0]) \cup {Null}
  BY <1>1, <1>3, ChainedFacts
<1>6. Met(C[0], p', TRUE) = {}
  BY <1>4, <1>5, HashMemory, MetStart
<1>7. p' = Null \/ (p' \in Used(table) /\ hindex(table, p') = 0)
  BY <1>4, <1>5
<1>8. \A n \in Used(table) : ~ hindex(table, n) < 0
  <2>1. \A n \in Used(table) : hindex(table, n) \in 0..SizeOf(table)-1
    BY <1>1, ChainedFacts
  <2> QED
    BY <1>1, <2>1
<1>9. \A n \in Used(table) : ~ Passed(C, n)'
  BY <1>2, <1>6, <1>8 DEF Passed, AtElement
<1>10. HashKnows(C)'
  BY <1>1, <1>2, <1>3, <1>7, <1>9 DEF HashKnows
<1>13. Effect(Mapped(table), Mapped(table'), hcall')
  BY <1>2 DEF Effect
<1>11. HashTypes'
  BY <1>1, <1>2, <1>7, <1>13, EffectTyped DEF HashTypes
<1>12. HashCarried(C)'
  BY <1>1, <1>2, <1>10, <1>11 DEF HashCarried
<1> QED
  BY <1>12, <1>13 DEF HashOutcome

LEMMA HashVisitCarries ==
  ASSUME NEW C, HashCarried(C), HashVisit
  PROVE  HashOutcome(C)
<1> DEFINE marked == MarkedIter(table, p, 1)
<1>1. Sound(table, C) /\ HashKnows(C) /\ HashTypes /\ Used(table) \subseteq HashCells
  BY SoundFacts DEF HashCarried
<1>2. /\ hpc = "loop" /\ p # Null /\ p \in Used(table) /\ hpc' = "called" /\ h' = h /\ p' = p
      /\ Happens(<<marked, NoCall>>) \/ \E call \in HashCalls(marked) : Happens(call)
      /\ Named(table) /\ \A n \in Used(table) : table.node[n].foreach = 0
      /\ h \in 0..SizeOf(table)-1
  BY <1>1 DEF HashVisit, HashKnows
<1>3. LET s == MarkedIter(table, p, 1)
      IN  /\ Sound(s, C) /\ Used(s) = Used(table) /\ SizeOf(s) = SizeOf(table)
          /\ \A m \in Used(table) :
               /\ s.node[m].key = table.node[m].key /\ s.node[m].hkey = table.node[m].hkey
               /\ s.node[m].foreach = IF m = p THEN 1 ELSE table.node[m].foreach
          /\ \A j \in Keys : Mapped(s)[j] = Mapped(table)[j]
  BY <1>1, <1>2, MarkedSound
<1> HIDE DEF marked
<1>4. /\ Sound(marked, C) /\ Used(marked) = Used(table) /\ SizeOf(marked) = SizeOf(table)
      /\ \A m \in Used(table) :
           /\ marked.node[m].key = table.node[m].key /\ marked.node[m].hkey = table.node[m].hkey
           /\ marked.node[m].foreach = IF m = p THEN 1 ELSE table.node[m].foreach
      /\ \A j \in Keys : Mapped(marked)[j] = Mapped(table)[j]
  BY <1>3 DEF marked
<1>5. Named(marked)
  BY <1>2, <1>4 DEF Named
<1>18. (\E D : Turns(marked, C, table', D)) /\ Effect(Mapped(marked), Mapped(table'), hcall')
  <2>1. CASE Happens(<<marked, NoCall>>)
    BY <1>4, <1>5, <2>1, TurnsSame DEF Happens, Effect
  <2>2. CASE \E call \in HashCalls(marked) : Happens(call)
    BY <1>4, <1>5, <2>2, HashCallTurns DEF Happens
  <2> QED
    BY <1>2, <2>1, <2>2
<1>6. PICK D : Turns(marked, C, table', D)
  BY <1>18
<1>7. /\ Sound(table', D) /\ SizeOf(table') >= SizeOf(table) /\ Used(table') \subseteq HashCells
      /\ SizeOf(table) \in Nat \ {0} /\ SizeOf(table') \in Nat \ {0}
  BY <1>1, <1>4, <1>6, SoundFacts, SoundTypes DEF Turns
<1>8. Effect(Mapped(table), Mapped(table'), hcall')
  BY <1>4, <1>18 DEF Effect, Alters
<1>9. /\ p \in Used(table') /\ (table'.node[p].foreach = 1 \/ table'.node[p].key = NoKey)
      /\ \A n \in Used(table') : table'.node[n].foreach = 1 => n = p
      /\ \A n \in Used(table') : table'.node[n].key = NoKey => n = p /\ table'.node[n].foreach = 0
  <2>1. \A n \in Used(table) : marked.node[n].foreach = 1 <=> n = p
    BY <1>2, <1>4
  <2> QED
    BY <1>2, <1>4, <1>6, <2>1 DEF Turns
<1>10. hkept' = IF SizeOf(table') = SizeOf(table)
                THEN {n \in hkept : n \in Used(table') /\ table'.node[n].key = table.node[n].key}
                ELSE {}
  BY DEF HashVisit
<1>11. hvisits' = [n \in HashCells |-> IF n \notin hkept' THEN 0
                                       ELSE IF n = p THEN hvisits[n] + 1 ELSE hvisits[n]]
  BY DEF HashVisit
<1>12. p \in hkept' => table'.node[p].foreach = 1
  BY <1>2, <1>9, <1>10, KeysAssumption DEF Named
<1>13. ASSUME hkept' # {} PROVE SizeOf(table') = SizeOf(table) /\ hindex(table, p) = h /\ hindex(table', p) = h
  <2>1. SizeOf(table') = SizeOf(table) /\ hkept # {}
    BY <1>10, <1>13
  <2>2. hindex(table, p) = h
    BY <1>1, <1>2, <2>1 DEF HashKnows
  <2>3. table'.node[p].hkey = table.node[p].hkey
    BY <1>2, <1>4, <1>6, <1>9, <2>1 DEF Turns
  <2>4. hindex(table', p) = hindex(table, p)
    BY <2>1, <2>3, SameIndex
  <2> QED
    BY <2>1, <2>2, <2>4
<1>14. ASSUME NEW n \in hkept'
       PROVE  hvisits'[n] = IF Passed(D, n)' THEN 1 ELSE 0
  <2>1. n \in hkept /\ n \in Used(table) /\ n \in Used(table') /\ n \in HashCells
    BY <1>1, <1>10 DEF HashKnows
  <2>2. SizeOf(table') = SizeOf(table) /\ hindex(table, p) = h /\ hindex(table', p) = h
    BY <1>13
  <2>3. hindex(table', n) = hindex(table, n)
    <3>1. table'.node[n].hkey = table.node[n].hkey
      BY <1>4, <1>6, <2>1, <2>2 DEF Turns
    <3> QED
      BY <2>2, <3>1, SameIndex
  <2>4. SameOrder(C[h], D[h])
    BY <1>2, <1>4, <1>6, <2>2 DEF Turns
  <2>5. /\ Cells(C[h]) = {m \in Used(table) : hindex(table, m) = h}
        /\ Cells(D[h]) = {m \in Used(table') : hindex(table', m) = h}
    BY <1>1, <1>2, <1>7, <2>2 DEF Sound, Chained
  <2>6. hvisits[n] = IF Passed(C, n) THEN 1 ELSE 0
    BY <1>1, <2>1 DEF HashKnows
  <2>7. Passed(D, n)' <=> hindex(table', n) < h \/ (hindex(table', n) = h /\ n \in Met(D[h], p, TRUE) \cup {p})
    BY <1>2 DEF Passed, AtElement
  <2>8. Passed(C, n) <=> hindex(table, n) < h \/ (hindex(table, n) = h /\ n \in Met(C[h], p, TRUE))
    BY <1>2 DEF Passed, AtElement
  <2>9. CASE n = p
    <3>1. n \notin Met(C[h], p, TRUE)
      <4>1. Distinct(C[h]) /\ Len(C[h]) \in Nat
        BY <1>1, <1>2, ChainedFacts DEF Sound
      <4> QED
        BY <1>2, <2>9, <4>1 DEF Met, Before, Distinct
    <3>2. ~ hindex(table, n) < h
      BY <1>2, <2>2, <2>9
    <3>3. hvisits'[n] = hvisits[n] + 1
      BY <1>11, <2>1, <2>9
    <3>4. ~ Passed(C, n)
      BY <2>8, <3>1, <3>2
    <3>5. Passed(D, n)'
      BY <2>2, <2>7, <2>9
    <3> QED
      BY <2>6, <3>3, <3>4, <3>5
  <2>10. CASE n # p
    <3>1. hindex(table, n) = h => (n \in Met(C[h], p, TRUE) <=> n \in Met(D[h], p, TRUE))
      <4> SUFFICES ASSUME hindex(table, n) = h PROVE n \in Met(C[h], p, TRUE) <=> n \in Met(D[h], p, TRUE)
        OBVIOUS
      <4>1. p \in Cells(C[h]) \cap Cells(D[h]) /\ n \in Cells(C[h]) \cap Cells(D[h])
        BY <1>2, <1>9, <2>1, <2>2, <2>3, <2>5
      <4> QED
        BY <2>4, <4>1, MetSame
    <3>2. hvisits'[n] = hvisits[n]
      BY <1>11, <2>1, <2>10
    <3> QED
      BY <2>3, <2>6, <2>7, <2>8, <2>10, <3>1, <3>2
  <2> QED
    BY <2>9, <2>10
<1>15. HashKnows(D)'
  <2>1. h \in 0..SizeOf(table')-1
    BY <1>2, <1>7
  <2>2. hkept' \subseteq Used(table')
    BY <1>10
  <2> QED
    BY <1>2, <1>9, <1>12, <1>13, <1>14, <2>1, <2>2 DEF HashKnows
<1>16. HashTypes'
  <2>1. hvisits' \in [HashCells -> Nat]
    BY <1>1, <1>11 DEF HashTypes
  <2>2. hkept' \subseteq HashCells
    BY <1>7, <1>10
  <2> QED
    BY <1>1, <1>2, <1>7, <1>8, <2>1, <2>2, SoundTypes, EffectTyped DEF HashTypes
<1>17. HashCarried(D)'
  BY <1>7, <1>15, <1>16 DEF HashCarried
<1> QED
  BY <1>8, <1>17 DEF HashOutcome

(* The element whose callback has returned is unmarked or taken out: what   *)
(* is left has no mark, and keeps the order of its chains.                  *)
LEMMA SettledSound ==
  ASSUME NEW C, HashCarried(C), HashAfter
  PROVE  \E D : /\ Sound(table', D) /\ SizeOf(table') = SizeOf(table)
                /\ \A b \in 0..SizeOf(table)-1 : SameOrder(C[b], D[b])
                /\ Named(table') /\ \A n \in Used(table') : table'.node[n].foreach = 0
                /\ Used(table') \subseteq Used(table) /\ hkept \subseteq Used(table')
                /\ Used(table) \ {p} \subseteq Used(table')
                /\ \A n \in Used(table') : table'.node[n].hkey = table.node[n].hkey
                /\ \A k \in Keys : Mapped(table')[k] = Mapped(table)[k]
<1>1. Sound(table, C) /\ HashKnows(C) /\ HashTypes /\ Used(table) \subseteq HashCells
  BY SoundFacts DEF HashCarried
<1>2. /\ hpc = "called" /\ p \in Used(table) /\ table.node[p].foreach \in {0, 1}
      /\ \A n \in Used(table) : table.node[n].foreach = 1 => n = p
      /\ \A n \in Used(table) : table.node[n].key = NoKey => n = p /\ table.node[n].foreach = 0
      /\ table.node[p].foreach = 0 => table.node[p].key = NoKey
      /\ p \in hkept => table.node[p].foreach = 1
      /\ hkept \subseteq Used(table)
      /\ table' = IF table.node[p].foreach = 0 THEN sd_hash_iter_del(table, p)
                  ELSE MarkedIter(table, p, 0)
  BY <1>1, SoundFacts DEF HashAfter, HashKnows
<1>3. ASSUME NEW n \in Used(table)
      PROVE  /\ table.node[n].foreach \in {0, 1} /\ table.node[n].key \in Keys \cup {NoKey}
             /\ n # p => table.node[n].foreach = 0 /\ table.node[n].key \in Keys
  BY <1>1, <1>2, SoundFacts
<1>4. CASE table.node[p].foreach = 0
  <2>1. table' = UnlinkIter(table, p)
    BY <1>2, <1>4 DEF sd_hash_iter_del
  <2>2. PICK D : /\ Sound(table', D) /\ Used(table') = Used(table) \ {p} /\ SizeOf(table') = SizeOf(table)
                 /\ \A b \in 0..SizeOf(table)-1 : SameOrder(C[b], D[b])
                 /\ \A m \in Used(table') :
                      /\ table'.node[m].key = table.node[m].key /\ table'.node[m].data = table.node[m].data
                      /\ table'.node[m].hkey = table.node[m].hkey
                      /\ table'.node[m].foreach = table.node[m].foreach
    BY <1>1, <1>2, <2>1, UnlinkSound
  <2>3. \A n \in Used(table') : table'.node[n].foreach = 0 /\ table'.node[n].key \in Keys
    BY <1>3, <2>2
  <2>4. table.node[p].key \notin Keys
    BY <1>2, <1>4, KeysAssumption
  <2>5. ASSUME NEW k \in Keys PROVE Mapped(table')[k] = Mapped(table)[k]
    <3>1. /\ \A m \in Used(table) : table.node[m].key = k =>
               m \in Used(table') /\ table'.node[m].key = k /\ table'.node[m].data = table.node[m].data
          /\ \A m \in Used(table') : table'.node[m].key = k => m \in Used(table) /\ table.node[m].key = k
      BY <2>2, <2>4
    <3> QED
      BY <1>1, <2>2, <3>1, MappedSame
  <2>6. hkept \subseteq Used(table')
    BY <1>2, <1>4, <2>2
  <2> QED
    BY <2>2, <2>3, <2>5, <2>6 DEF Named
<1>5. CASE table.node[p].foreach # 0
  <2>1. table' = MarkedIter(table, p, 0) /\ 0 \in {0, 1}
    BY <1>2, <1>5
  <2>2. LET s == MarkedIter(table, p, 0)
        IN  /\ Sound(s, C) /\ Used(s) = Used(table) /\ SizeOf(s) = SizeOf(table)
            /\ \A m \in Used(table) :
                 /\ s.node[m].key = table.node[m].key /\ s.node[m].hkey = table.node[m].hkey
                 /\ s.node[m].foreach = IF m = p THEN 0 ELSE table.node[m].foreach
            /\ \A j \in Keys : Mapped(s)[j] = Mapped(table)[j]
    BY <1>1, <1>2, <2>1, MarkedSound
  <2>3. /\ Sound(table', C) /\ Used(table') = Used(table) /\ SizeOf(table') = SizeOf(table)
        /\ \A m \in Used(table) :
             /\ table'.node[m].key = table.node[m].key /\ table'.node[m].hkey = table.node[m].hkey
             /\ table'.node[m].foreach = IF m = p THEN 0 ELSE table.node[m].foreach
        /\ \A j \in Keys : Mapped(table')[j] = Mapped(table)[j]
    BY <2>1, <2>2
  <2>4. \A n \in Used(table') : table'.node[n].foreach = 0
    BY <1>3, <2>3
  <2>5. \A n \in Used(table') : table'.node[n].key \in Keys
    BY <1>2, <1>3, <1>5, <2>3
  <2>6. \A b \in 0..SizeOf(table)-1 : SameOrder(C[b], C[b])
    BY DEF SameOrder
  <2> QED
    BY <1>2, <2>3, <2>4, <2>5, <2>6 DEF Named
<1> QED
  BY <1>4, <1>5

LEMMA HashAfterCarries ==
  ASSUME NEW C, HashCarried(C), HashAfter
  PROVE  HashOutcome(C)
<1> DEFINE q == table.node[p].next
           b == hindex(table, p)
<1>1. /\ Sound(table, C) /\ HashKnows(C) /\ HashTypes /\ Used(table) \subseteq HashCells
      /\ Chained(table, C, Used(table)) /\ Null \notin HashCells
  BY SoundFacts, HashMemory DEF HashCarried, Sound
<1>2. hpc = "called" /\ p \in Used(table) /\ h \in 0..SizeOf(table)-1 /\ hkept \subseteq Used(table) /\ p # Null
  BY <1>1 DEF HashAfter, HashKnows
<1>3. PICK D : /\ Sound(table', D) /\ SizeOf(table') = SizeOf(table)
               /\ \A i \in 0..SizeOf(table)-1 : SameOrder(C[i], D[i])
               /\ Named(table') /\ \A n \in Used(table') : table'.node[n].foreach = 0
               /\ Used(table') \subseteq Used(table) /\ hkept \subseteq Used(table')
               /\ Used(table) \ {p} \subseteq Used(table')
               /\ \A n \in Used(table') : table'.node[n].hkey = table.node[n].hkey
               /\ \A k \in Keys : Mapped(table')[k] = Mapped(table)[k]
  BY SettledSound
<1>4. /\ b \in 0..SizeOf(table)-1 /\ p \in Cells(C[b]) /\ C[b] \in Seq(HashCells) /\ Distinct(C[b])
      /\ Len(C[b]) \in Nat /\ Cells(C[b]) = {n \in Used(table) : hindex(table, n) = b}
      /\ \A j \in 1..Len(C[b]) : table.node[C[b][j]].next = At(C[b], j + 1)
  <2>1. b \in 0..SizeOf(table)-1 /\ p \in Cells(C[b])
    BY <1>1, <1>2, ChainedFacts
  <2>2. C[b] \in Seq(HashCells) /\ Distinct(C[b]) /\ Len(C[b]) \in Nat
    BY <1>1, <2>1, ChainedFacts
  <2>3. /\ Cells(C[b]) = {n \in Used(table) : hindex(table, n) = b}
        /\ \A j \in 1..Len(C[b]) : table.node[C[b][j]].next = At(C[b], j + 1)
    BY <1>1, <2>1 DEF Chained, Linear
  <2> QED
    BY <2>1, <2>2, <2>3
<1>5. PICK k \in 1..Len(C[b]) : p = C[b][k]
  BY <1>4 DEF Cells
<1>6. q = At(C[b], k + 1)
  BY <1>4, <1>5
<1>7. q = Null \/ (q \in Used(table') /\ q \in Cells(C[b]))
  <2>1. CASE k + 1 \in 1..Len(C[b])
    <3>1. q = C[b][k+1] /\ q \in Cells(C[b])
      BY <1>6, <2>1 DEF At, Cells
    <3>2. q # p
      <4>1. k + 1 # k
        BY <1>4
      <4> QED
        BY <1>4, <1>5, <2>1, <3>1, <4>1 DEF Distinct
    <3>3. q \in Used(table)
      BY <1>4, <3>1
    <3> QED
      BY <1>3, <3>1, <3>2, <3>3
  <2>2. CASE k + 1 \notin 1..Len(C[b])
    BY <1>6, <2>2 DEF At
  <2> QED
    BY <2>1, <2>2
<1>8. Met(C[b], q, TRUE) = Met(C[b], p, TRUE) \cup {p}
  <2>1. TRUE \in BOOLEAN
    OBVIOUS
  <2>2. Met(C[b], IF TRUE THEN At(C[b], k + 1) ELSE At(C[b], k - 1), TRUE)
           = Met(C[b], C[b][k], TRUE) \cup {C[b][k]}
    BY <1>1, <1>4, <2>1, MetStep
  <2> QED
    BY <1>5, <1>6, <2>2
<1>9. \A n \in Used(table') : hindex(table', n) = hindex(table, n)
  BY <1>3, SameIndex
<1>10. hkept # {} => b = h
  BY <1>1, <1>2 DEF HashKnows
<1>13. Effect(Mapped(table), Mapped(table'), hcall') /\ hcall' \in CallRecords
  <2>1. Effect(Mapped(table), Mapped(table'), hcall')
    BY <1>3 DEF HashAfter, Effect
  <2> QED
    BY <2>1, EffectTyped
<1> HIDE DEF q, b
<1>11. CASE HashReturn
  <2>1. HashKnows(D)'
    BY <1>3, <1>11 DEF HashReturn, HashKnows
  <2>2. HashTypes'
    BY <1>3, <1>11, <1>13, SoundTypes DEF HashReturn, HashTypes
  <2> QED
    BY <1>3, <1>13, <2>1, <2>2 DEF HashOutcome, HashCarried
<1>12. CASE p' = q /\ hpc' = "loop" /\ UNCHANGED <<h, hkept, hvisits>>
  <2>1. ASSUME NEW n \in hkept
        PROVE  hvisits'[n] = IF Passed(D, n)' THEN 1 ELSE 0
    <3>1. n \in Used(table) /\ n \in Used(table') /\ b = h /\ hindex(table', n) = hindex(table, n)
      BY <1>2, <1>3, <1>9, <1>10
    <3>2. hvisits[n] = IF Passed(C, n) THEN 1 ELSE 0
      BY <1>1 DEF HashKnows
    <3>3. Passed(C, n) <=> hindex(table, n) < h \/ (hindex(table, n) = h /\ n \in Met(C[h], p, TRUE) \cup {p})
      BY <1>2 DEF Passed, AtElement
    <3>4. Passed(D, n)' <=> hindex(table', n) < h \/ (hindex(table', n) = h /\ n \in Met(D[h], q, TRUE))
      BY <1>12 DEF Passed, AtElement
    <3>5. hindex(table, n) = h => (n \in Met(C[h], q, TRUE) <=> n \in Met(D[h], q, TRUE))
      <4> SUFFICES ASSUME hindex(table, n) = h PROVE n \in Met(C[h], q, TRUE) <=> n \in Met(D[h], q, TRUE)
        OBVIOUS
      <4>1. Cells(D[h]) = {m \in Used(table') : hindex(table', m) = h}
        BY <1>2, <1>3 DEF Sound, Chained
      <4>2. n \in Cells(C[h]) \cap Cells(D[h])
        BY <1>4, <3>1, <4>1
      <4>3. q = Null \/ q \in Cells(C[h]) \cap Cells(D[h])
        BY <1>4, <1>7, <1>9, <3>1, <4>1
      <4>4. SameOrder(C[h], D[h])
        BY <1>2, <1>3
      <4> QED
        BY <4>2, <4>3, <4>4, MetSame
    <3> QED
      BY <1>8, <1>12, <3>1, <3>2, <3>3, <3>4, <3>5
  <2>2. hkept # {} /\ q # Null => hindex(table', q) = h
    BY <1>4, <1>7, <1>9, <1>10
  <2>3. HashKnows(D)'
    BY <1>2, <1>3, <1>7, <1>12, <2>1, <2>2 DEF HashKnows
  <2>4. q \in HashCells \cup {Null}
    BY <1>1, <1>3, <1>7
  <2>5. HashTypes'
    BY <1>1, <1>3, <1>12, <1>13, <2>4, SoundTypes DEF HashTypes
  <2> QED
    BY <1>3, <1>13, <2>3, <2>5 DEF HashOutcome, HashCarried
<1> QED
  BY <1>11, <1>12 DEF HashAfter, q

LEMMA NextBucketCarries ==
  ASSUME NEW C, HashCarried(C), NextBucket
  PROVE  HashOutcome(C)
<1>1. /\ Sound(table, C) /\ HashKnows(C) /\ HashTypes /\ Used(table) \subseteq HashCells
      /\ Chained(table, C, Used(table)) /\ SizeOf(table) \in Nat \ {0} /\ Null \notin HashCells
  BY SoundFacts, HashMemory DEF HashCarried, Sound, Chained
<1>2. /\ hpc = "loop" /\ p = Null /\ h' = h + 1 /\ p' = table.tab[h+1] /\ table' = table
      /\ hpc' = hpc /\ hkept' = hkept /\ hvisits' = hvisits /\ hkept \subseteq Used(table)
      /\ h \in 0..SizeOf(table)-1 /\ h + 1 \in 0..SizeOf(table)-1
      /\ Named(table) /\ \A n \in Used(table) : table.node[n].foreach = 0
  BY <1>1 DEF NextBucket, HashKnows
<1> DEFINE g == h + 1
<1>3. /\ p' = At(C[g], 1) /\ Cells(C[g]) = {n \in Used(table) : hindex(table, n) = g}
      /\ Cells(C[h]) = {n \in Used(table) : hindex(table, n) = h}
  BY <1>1, <1>2 DEF Chained
<1>4. /\ C[g] \in Seq(HashCells) /\ Distinct(C[g])
      /\ At(C[g], 1) \in Cells(C[g]) \cup {Null}
  BY <1>1, <1>2, ChainedFacts
<1> HIDE DEF g
<1>5. Met(C[g], p', TRUE) = {}
  <2>1. Met(C[g], IF TRUE THEN At(C[g], 1) ELSE At(C[g], Len(C[g])), TRUE) = {}
    BY <1>1, <1>4, MetStart
  <2> QED
    BY <1>3, <2>1
<1>6. p' = Null \/ (p' \in Used(table) /\ hindex(table, p') = g)
  BY <1>3, <1>4
<1>7. ASSUME NEW n \in hkept PROVE Passed(C, n)' <=> Passed(C, n)
  <2>1. n \in Used(table) /\ hindex(table, n) \in Int
    BY <1>1, <1>2, ChainedFacts
  <2>2. Passed(C, n) <=> hindex(table, n) < h \/ hindex(table, n) = h
    BY <1>2, <1>3, <2>1 DEF Passed, Met, AtElement
  <2>3. Passed(C, n)' <=> hindex(table, n) < g
    BY <1>2, <1>5 DEF Passed, AtElement, g
  <2> QED
    BY <1>2, <2>1, <2>2, <2>3 DEF g
<1>8. HashKnows(C)'
  BY <1>1, <1>2, <1>6, <1>7 DEF HashKnows, g
<1>10. Effect(Mapped(table), Mapped(table'), hcall')
  BY DEF NextBucket, Effect
<1>9. HashTypes'
  BY <1>1, <1>2, <1>6, <1>10, EffectTyped DEF HashTypes
<1> QED
  BY <1>1, <1>2, <1>8, <1>9, <1>10 DEF HashOutcome, HashCarried

LEMMA HashEndCarries ==
  ASSUME NEW C, HashCarried(C), HashEnd \/ UNCHANGED hvars
  PROVE  HashOutcome(C)
<1>1. Sound(table, C) /\ HashKnows(C) /\ HashTypes /\ table' = table
  BY DEF HashCarried, HashEnd, hvars
<1>3. Effect(Mapped(table), Mapped(table'), hcall') \/ UNCHANGED <<table, hcall>>
  BY DEF HashEnd, Effect, hvars
<1>4. hcall' \in CallRecords
  BY <1>1, <1>3, EffectTyped DEF HashTypes
<1>2. HashCarried(C)'
  <2>1. CASE HashEnd
    BY <1>1, <1>4, <2>1 DEF HashCarried, HashEnd, HashReturn, HashKnows, HashTypes
  <2>2. CASE UNCHANGED hvars
    BY <1>1, <2>2 DEF HashCarried, hvars, HashKnows, HashTypes, Passed, AtElement
  <2> QED
    BY <2>1, <2>2
<1> QED
  BY <1>2, <1>3 DEF HashOutcome

LEMMA HashStepCarries ==
  ASSUME NEW C, HashCarried(C), [HashNext]_hvars
  PROVE  HashOutcome(C)
BY HashCallCarries, HashForeachCarries, HashVisitCarries, HashAfterCarries, NextBucketCarries,
   HashEndCarries DEF HashNext

LEMMA HashInductive == HashSpec => []HashInv
<1>1. HashInit => HashInv
  BY HashStarts
<1>2. HashInv /\ [HashNext]_hvars => HashInv'
  BY HashStepCarries DEF HashInv, HashOutcome
<1> QED
  BY <1>1, <1>2, PTL DEF HashSpec

(* What the invariant says of the chains, in the words of the code.         *)
LEMMA SoundChains == HashInv => ChainsSound
<1> SUFFICES ASSUME NEW C, HashCarried(C) PROVE ChainsSound
  BY DEF HashInv
<1> DEFINE all == AllNodes(table)
<1>1. /\ Sound(table, C) /\ Chained(table, C, Used(table)) /\ Cardinality(Used(table)) = table.nelem
      /\ DOMAIN table.tab = 0..SizeOf(table)-1
  BY DEF HashCarried, Sound, Chained
<1>2. /\ all \in Seq(HashCells) /\ Distinct(all) /\ Len(all) \in Nat /\ Cells(all) = Used(table)
      /\ sd_hash_begin(table) = At(all, 1)
      /\ \A j \in 1..Len(all) : sd_hash_iter_next(table, all[j]) = At(all, j + 1)
  BY <1>1, AllNodesAre
<1> HIDE DEF all
<1>3. Len(all) = table.nelem /\ {all[j] : j \in 1..Len(all)} = Used(table)
  <2>1. Cardinality(Cells(all)) = Len(all)
    BY <1>2, HashMemory, LengthBound DEF Memory
  <2> QED
    BY <1>1, <1>2, <2>1 DEF Cells
<1>4. ASSUME NEW b \in DOMAIN table.tab, NEW j \in 1..Len(Bucket(table, b))
      PROVE  /\ hindex(table, Bucket(table, b)[j]) = b
             /\ table.node[Bucket(table, b)[j]].prev = IF j = 1 THEN Null ELSE Bucket(table, b)[j-1]
  <2>1. Bucket(table, b) = C[b] /\ Len(C[b]) \in Nat
    BY <1>1, BucketIs, ChainedFacts
  <2>2. Linear(C[b], table.node, HashCells) /\ Cells(C[b]) = {n \in Used(table) : hindex(table, n) = b}
    BY <1>1 DEF Chained
  <2>3. hindex(table, C[b][j]) = b /\ table.node[C[b][j]].prev = At(C[b], j - 1)
    BY <2>1, <2>2 DEF Linear, Cells
  <2>4. At(C[b], j - 1) = IF j = 1 THEN Null ELSE C[b][j-1]
    BY <2>1 DEF At
  <2> QED
    BY <2>1, <2>3, <2>4
<1>5. sd_hash_begin(table) = IF all = << >> THEN Null ELSE all[1]
  <2>1. Len(all) = 0 <=> all = << >>
    BY <1>2
  <2>2. At(all, 1) = IF Len(all) = 0 THEN Null ELSE all[1]
    BY <1>2 DEF At
  <2> QED
    BY <1>2, <2>1, <2>2
<1>6. ASSUME NEW j \in 1..Len(all)
      PROVE  sd_hash_iter_next(table, all[j]) = IF j = Len(all) THEN Null ELSE all[j+1]
  <2>1. At(all, j + 1) = IF j = Len(all) THEN Null ELSE all[j+1]
    BY <1>2 DEF At
  <2> QED
    BY <1>2, <2>1
<1> QED
  BY <1>1, <1>3, <1>4, <1>5, <1>6 DEF ChainsSound, all

LEMMA HashLoops == HashInv => HashForeachOnce
<1> SUFFICES ASSUME NEW C, HashCarried(C) PROVE HashForeachOnce
  BY DEF HashInv
<1>1. Sound(table, C) /\ HashKnows(C) /\ HashTypes /\ Chained(table, C, Used(table))
  BY DEF HashCarried, Sound
<1>2. hpc # "idle" /\ p # Null => p \in Used(table)
  BY <1>1 DEF HashKnows, HashTypes
<1>3. \A n \in hkept : hvisits[n] <= 1
  BY <1>1 DEF HashKnows
<1>4. ASSUME hpc = "loop", p = Null, h = SizeOf(table) - 1, NEW n \in hkept PROVE hvisits[n] = 1
  <2>1. n \in Used(table) /\ hvisits[n] = IF Passed(C, n) THEN 1 ELSE 0
    BY <1>1 DEF HashKnows
  <2>2. n \in HashCells /\ n \in Cells(C[hindex(table, n)]) /\ SizeOf(table) \in Nat \ {0}
    BY <1>1, <2>1, ChainedFacts
  <2>4. hindex(table, n) \in 0..SizeOf(table)-1
    BY <1>1, <2>2, ChainedFacts
  <2>3. Passed(C, n)
    <3>1. CASE hindex(table, n) = h
      BY <1>4, <2>2, <3>1 DEF Passed, Met
    <3>2. CASE hindex(table, n) # h
      <4>1. hindex(table, n) < h
        BY <1>4, <2>2, <2>4, <3>2
      <4> QED
        BY <4>1 DEF Passed
    <3> QED
      BY <3>1, <3>2
  <2> QED
    BY <2>1, <2>3
<1> QED
  BY <1>2, <1>3, <1>4 DEF HashForeachOnce

-----------------------------------------------------------------------------
LEMMA HashContentsAre == HashContents = Mapped(table)
BY DEF HashContents, Mapped

LEMMA HashContentsStep == HashInv /\ [HashNext]_hvars => [HM!Next]_<<HashContents, hcall>>
<1> SUFFICES ASSUME NEW C, HashCarried(C), [HashNext]_hvars PROVE [HM!Next]_<<HashContents, hcall>>
  BY DEF HashInv
<1> DEFINE f == Mapped(table)
           g == Mapped(table')
<1>1. PICK D : HashCarried(D)' /\ (Effect(f, g, hcall') \/ UNCHANGED <<table, hcall>>)
  BY HashStepCarries DEF HashOutcome
<1>2. HashContents = f /\ HashContents' = g
  BY DEF HashContents, Mapped
<1>3. /\ f = [k \in Keys |-> f[k]] /\ g = [k \in Keys |-> g[k]]
  BY DEF Mapped
<1>4. CASE UNCHANGED <<table, hcall>>
  BY <1>2, <1>4
<1> HIDE DEF HashContents, f, g
<1>5. CASE hcall' = NoCall /\ \A j \in Keys : g[j] = f[j]
  <2>1. g = f
    BY <1>3, <1>5
  <2> QED
    BY <1>2, <1>5, <2>1 DEF HM!Next, HM!Quiet, HM!NoCall, HM!Call, NoCall, Made
<1>6. CASE hcall' = Made("clear", NoKey, NoData) /\ \A j \in Keys : g[j] = Absent
  <2>1. g = [j \in Keys |-> Absent]
    BY <1>3, <1>6
  <2> QED
    BY <1>2, <1>6, <2>1 DEF HM!Next, HM!Clear, HM!Call, Made
<1>7. ASSUME NEW k \in Keys, Alters(f, g, hcall', k) PROVE HM!Next
  <2>1. ASSUME NEW v, g[k] = v PROVE g = [f EXCEPT ![k] = v]
    BY <1>3, <1>7, <2>1 DEF Alters
  <2>2. CASE \E d \in Values : hcall' = Made("add", k, d) /\ g[k] = d
    <3>1. PICK d \in Values : hcall' = Made("add", k, d) /\ g[k] = d
      BY <2>2
    <3> QED
      BY <1>2, <2>1, <3>1 DEF HM!Next, HM!Add, HM!Call, Made
  <2>3. CASE hcall' = Made("lookadd", k, NoData) /\ g[k] = IF f[k] = Absent THEN NoData ELSE f[k]
    <3>1. g = [f EXCEPT ![k] = IF f[k] = Absent THEN NoData ELSE f[k]]
      BY <2>1, <2>3
    <3> QED
      BY <1>2, <2>3, <3>1 DEF HM!Next, HM!LookAdd, HM!Call, Made
  <2>4. CASE hcall' = Made("del", k, NoData) /\ g[k] = Absent
    BY <1>2, <2>1, <2>4 DEF HM!Next, HM!Del, HM!Call, Made
  <2> QED
    BY <1>7, <2>2, <2>3, <2>4 DEF Alters
<1> QED
  BY <1>1, <1>4, <1>5, <1>6, <1>7 DEF Effect

LEMMA HashIsMap == HashSpec => ImplementsHashMap
<1>1. HashInit => HM!Init
  <2> SUFFICES ASSUME HashInit PROVE HashContents = [k \in Keys |-> Absent] /\ hcall = NoCall
    BY DEF HM!Init, HM!NoCall, HM!Call, NoCall, Made
  <2>1. table = Cleared(InitSize) /\ InitSize \in Nat \ {0} /\ hcall = NoCall
    BY SizeAssumption DEF HashInit
  <2>2. \A k \in Keys : Mapped(table)[k] = Absent
    BY <2>1, ClearedSound
  <2> QED
    BY <2>1, <2>2, HashContentsAre DEF Mapped
<1>2. HashInv /\ [HashNext]_hvars => [HM!Next]_<<HashContents, hcall>>
  BY HashContentsStep
<1> QED
  BY <1>1, <1>2, HashInductive, PTL DEF HashSpec, ImplementsHashMap, HM!Spec

-----------------------------------------------------------------------------
(* The cells of list l that are linked are those of c, in its order. *)
Holds(l, c) ==
  /\ l = ListOf(l.head, l.tail, l.nelem, l.node)
  /\ l.node \in [ListCells -> Elements]
  /\ Linear(c, l.node, ListCells) /\ Cells(c) = Linked(l)
  /\ l.head = At(c, 1) /\ l.tail = At(c, Len(c)) /\ l.nelem = Len(c)
  /\ \A n \in Linked(l) : l.node[n].data \in Data

Datas(l, c) == [j \in 1..Len(c) |-> l.node[c[j]].data]

\* What a call makes of a list, as a loop that is at work in it sees it, and
\* as its data are.
DataStep(s, t) ==
  \/ t = s
  \/ \E d \in Data, k \in 1..Len(s)+1 : t = InsertAt(s, k, d)
  \/ \E k \in 1..Len(s) : t = RemoveAt(s, k)

Becomes(l, c, m, d) ==
  /\ Holds(m, d) /\ SameOrder(c, d)
  /\ \A n \in Cells(d) : m.node[n].foreach = 1 => n \in Cells(c) /\ l.node[n].foreach = 1
  /\ \A n \in Cells(c) : l.node[n].foreach = 1 => n \in Cells(d)
  /\ DataStep(Datas(l, c), Datas(m, d))

LEMMA ListMemory == Memory(ListCells) /\ Null \notin ListCells
BY ListAssumption DEF Memory

LEMMA ListOfParts ==
  ASSUME NEW a, NEW b, NEW n, NEW f
  PROVE  LET l == ListOf(a, b, n, f)
         IN  /\ l.head = a /\ l.tail = b /\ l.nelem = n /\ l.node = f
             /\ l = ListOf(l.head, l.tail, l.nelem, l.node)
BY DEF ListOf

LEMMA HoldsFacts ==
  ASSUME NEW l, NEW c, Holds(l, c)
  PROVE  /\ c \in Seq(ListCells) /\ Distinct(c) /\ Len(c) \in Nat
         /\ \A j \in 1..Len(c) : c[j] \in ListCells /\ c[j] \in Cells(c) /\ c[j] # Null
         /\ Cells(c) \subseteq ListCells
         /\ \A j \in Int : At(c, j) \in ListCells \cup {Null}
         /\ Cells(c) = Linked(l)
BY ListMemory DEF Holds, Linear, Cells, At

(* There is one such chain, and Chain and Back find it. *)
LEMMA ChainIs ==
  ASSUME NEW l, NEW c, Holds(l, c)
  PROVE  Chain(l) = c
<1>1. Leads(Forth(l), c, ListCells)
  BY HoldsFacts, ListMemory DEF Holds, Linear, Leads, Forth
<1> QED
  BY <1>1, ListMemory, WalkIs DEF Chain, Holds

LEMMA BackIs ==
  ASSUME NEW l, NEW c, Holds(l, c)
  PROVE  Back(l) = Reverse(c)
<1> DEFINE r == Reverse(c)
           f == [n \in ListCells \cup {Null} |-> IF n = Null THEN Null ELSE l.node[n].prev]
<1>1. /\ c \in Seq(ListCells) /\ Distinct(c) /\ Len(c) \in Nat
      /\ \A j \in 1..Len(c) : c[j] \in ListCells /\ c[j] # Null
  BY HoldsFacts
<1>2. ASSUME NEW j \in 1..Len(c) PROVE r[j] = c[Len(c) - j + 1] /\ r[j] \in ListCells
  <2>1. Len(c) - j + 1 \in 1..Len(c)
    BY <1>1
  <2> QED
    BY <1>1, <2>1 DEF Reverse
<1>3. r \in [1..Len(c) -> ListCells]
  BY <1>2 DEF Reverse
<1>4. r \in Seq(ListCells) /\ Len(r) = Len(c)
  BY <1>1, <1>3
<1> HIDE DEF r
<1>5. Distinct(r)
  <2> SUFFICES ASSUME NEW i \in 1..Len(c), NEW j \in 1..Len(c), r[i] = r[j] PROVE i = j
    BY <1>4 DEF Distinct
  <2>1. Len(c) - i + 1 \in 1..Len(c) /\ Len(c) - j + 1 \in 1..Len(c)
    BY <1>1
  <2>2. Len(c) - i + 1 = Len(c) - j + 1
    BY <1>1, <1>2, <2>1 DEF Distinct
  <2> QED
    BY <1>1, <2>2
<1>6. ASSUME NEW j \in 1..Len(c) PROVE f[r[j]] = At(r, j + 1)
  <2> DEFINE i == Len(c) - j + 1
  <2>1. i \in 1..Len(c) /\ r[j] = c[i] /\ c[i] # Null /\ c[i] \in ListCells
    BY <1>1, <1>2
  <2>2. f[r[j]] = At(c, i - 1)
    BY <2>1 DEF Holds, Linear
  <2>3. CASE j + 1 \in 1..Len(c)
    <3>1. r[j+1] = c[Len(c) - (j + 1) + 1]
      BY <1>2, <2>3
    <3>2. i - 1 \in 1..Len(c) /\ Len(c) - (j + 1) + 1 = i - 1
      BY <1>1, <2>3
    <3> QED
      BY <1>4, <2>2, <2>3, <3>1, <3>2 DEF At
  <2>4. CASE j + 1 \notin 1..Len(c)
    <3>1. i - 1 \notin 1..Len(c)
      BY <1>1, <2>4
    <3> QED
      BY <1>4, <2>2, <2>4, <3>1 DEF At
  <2> QED
    BY <2>3, <2>4
<1>7. Leads(f, r, ListCells)
  BY <1>4, <1>5, <1>6 DEF Leads
<1>8. At(r, 1) = At(c, Len(c))
  <2>1. CASE Len(c) = 0
    BY <1>4, <2>1 DEF At
  <2>2. CASE Len(c) # 0
    BY <1>1, <1>2, <1>4, <2>2 DEF At
  <2> QED
    BY <2>1, <2>2
<1>9. Walk(At(r, 1), f) = r
  <2> HIDE DEF f
  <2> QED
    BY <1>7, ListMemory, WalkIs
<1> QED
  BY <1>8, <1>9 DEF Back, Holds, r

-----------------------------------------------------------------------------
(* Linking in and taking out. *)
LEMMA InsertData ==
  ASSUME NEW s \in Seq(Data), NEW d \in Data, NEW k \in 1..Len(s)+1
  PROVE  InsertAt(s, k, d) =
           [j \in 1..Len(s)+1 |-> IF j < k THEN s[j] ELSE IF j = k THEN d ELSE s[j-1]]
<1> DEFINE a == SubSeq(s, 1, k - 1)
           b == SubSeq(s, k, Len(s))
           r == (a \o <<d>>) \o b
<1>0. Len(s) \in Nat /\ k \in Nat /\ 1 <= k /\ k <= Len(s) + 1
  OBVIOUS
<1>1. a \in Seq(Data) /\ Len(a) = k - 1 /\ \A j \in 1..k-1 : a[j] = s[j]
  BY <1>0
<1>2. b \in Seq(Data) /\ Len(b) = Len(s) - k + 1 /\ \A j \in 1..Len(s)-k+1 : b[j] = s[k+j-1]
  BY <1>0
<1> HIDE DEF a, b
<1>3. a \o <<d>> \in Seq(Data) /\ Len(a \o <<d>>) = k
      /\ \A j \in 1..k : (a \o <<d>>)[j] = IF j < k THEN s[j] ELSE d
  BY <1>0, <1>1
<1>4. r \in Seq(Data) /\ Len(r) = Len(s) + 1
      /\ \A j \in 1..Len(s)+1 : r[j] = IF j <= k THEN (a \o <<d>>)[j] ELSE b[j-k]
  <2> DEFINE a1 == a \o <<d>>
  <2>1. a1 \in Seq(Data) /\ b \in Seq(Data) /\ Len(a1) = k /\ Len(b) = Len(s) - k + 1
    BY <1>2, <1>3
  <2> HIDE DEF a1
  <2>2. a1 \o b \in Seq(Data) /\ Len(a1 \o b) = Len(a1) + Len(b)
        /\ \A j \in 1..Len(a1)+Len(b) : (a1 \o b)[j] = IF j <= Len(a1) THEN a1[j] ELSE b[j-Len(a1)]
    BY <2>1, ConcatProperties
  <2>3. Len(a1) + Len(b) = Len(s) + 1
    BY <1>0, <2>1
  <2> QED
    BY <2>1, <2>2, <2>3 DEF a1
<1>5. ASSUME NEW j \in 1..Len(s)+1
      PROVE  r[j] = IF j < k THEN s[j] ELSE IF j = k THEN d ELSE s[j-1]
  <2>1. CASE j <= k
    <3>1. j \in 1..k
      BY <1>0, <2>1
    <3> QED
      BY <1>0, <1>3, <1>4, <2>1, <3>1
  <2>2. CASE ~ j <= k
    <3>1. j - k \in 1..Len(s)-k+1 /\ k + (j - k) - 1 = j - 1 /\ ~ j < k /\ j # k
      BY <1>0, <2>2
    <3>2. r[j] = b[j-k]
      BY <1>4, <2>2
    <3>3. b[j-k] = s[k+(j-k)-1]
      BY <1>2, <3>1
    <3> QED
      BY <3>1, <3>2, <3>3
  <2> QED
    BY <2>1, <2>2
<1>6. r = [j \in 1..Len(s)+1 |-> r[j]]
  BY <1>0, <1>4
<1>7. InsertAt(s, k, d) = r
  BY DEF InsertAt, a, b
<1> HIDE DEF r
<1> QED
  BY <1>5, <1>6, <1>7

LEMMA RemoveData ==
  ASSUME NEW s \in Seq(Data), NEW k \in 1..Len(s)
  PROVE  RemoveAt(s, k) = [j \in 1..Len(s)-1 |-> IF j < k THEN s[j] ELSE s[j+1]]
<1> DEFINE a == SubSeq(s, 1, k - 1)
           b == SubSeq(s, k + 1, Len(s))
           r == a \o b
<1>0. Len(s) \in Nat /\ k \in Nat /\ 1 <= k /\ k <= Len(s)
  OBVIOUS
<1>1. a \in Seq(Data) /\ Len(a) = k - 1 /\ \A j \in 1..k-1 : a[j] = s[j]
  BY <1>0
<1>2. b \in Seq(Data) /\ Len(b) = Len(s) - k /\ \A j \in 1..Len(s)-k : b[j] = s[k+j]
  BY <1>0
<1> HIDE DEF a, b
<1>4. r \in Seq(Data) /\ Len(r) = Len(s) - 1
      /\ \A j \in 1..Len(s)-1 : r[j] = IF j <= k - 1 THEN a[j] ELSE b[j-(k-1)]
  <2>2. a \o b \in Seq(Data) /\ Len(a \o b) = Len(a) + Len(b)
        /\ \A j \in 1..Len(a)+Len(b) : (a \o b)[j] = IF j <= Len(a) THEN a[j] ELSE b[j-Len(a)]
    BY <1>1, <1>2, ConcatProperties
  <2>3. Len(a) + Len(b) = Len(s) - 1
    BY <1>0, <1>1, <1>2
  <2> QED
    BY <1>1, <2>2, <2>3
<1>5. ASSUME NEW j \in 1..Len(s)-1
      PROVE  r[j] = IF j < k THEN s[j] ELSE s[j+1]
  <2>1. CASE j < k
    <3>1. j \in 1..k-1 /\ j <= k - 1
      BY <1>0, <2>1
    <3> QED
      BY <1>1, <1>4, <2>1, <3>1
  <2>2. CASE ~ j < k
    <3>1. j - (k - 1) \in 1..Len(s)-k /\ k + (j - (k - 1)) = j + 1 /\ ~ j <= k - 1
      BY <1>0, <2>2
    <3>2. r[j] = b[j-(k-1)]
      BY <1>4, <3>1
    <3>3. b[j-(k-1)] = s[k+(j-(k-1))]
      BY <1>2, <3>1
    <3> QED
      BY <2>2, <3>1, <3>2, <3>3
  <2> QED
    BY <2>1, <2>2
<1>6. r = [j \in 1..Len(s)-1 |-> r[j]]
  <2> HIDE DEF r
  <2>1. r = [j \in 1..Len(r) |-> r[j]]
    BY <1>4
  <2> QED
    BY <1>4, <2>1
<1>7. RemoveAt(s, k) = r
  BY DEF RemoveAt, a, b
<1> HIDE DEF r
<1> QED
  BY <1>5, <1>6, <1>7

LEMMA DatasAre ==
  ASSUME NEW l, NEW c, Holds(l, c)
  PROVE  Datas(l, c) \in Seq(Data) /\ Len(Datas(l, c)) = Len(c)
<1>1. \A j \in 1..Len(c) : l.node[c[j]].data \in Data
  BY HoldsFacts DEF Holds
<1>2. Datas(l, c) \in [1..Len(c) -> Data] /\ Len(c) \in Nat
  BY <1>1, HoldsFacts DEF Datas
<1> HIDE DEF Datas
<1> QED
  BY <1>2

LEMMA ElementParts ==
  ASSUME NEW d, NEW a, NEW b, NEW f, NEW u
  PROVE  /\ Element(d, a, b, f, u).data = d /\ Element(d, a, b, f, u).next = a
         /\ Element(d, a, b, f, u).prev = b /\ Element(d, a, b, f, u).foreach = f
         /\ Element(d, a, b, f, u).used = u
         /\ Element(d, a, b, f, u) \in Elements <=>
              /\ d \in Data \cup {Null} /\ a \in ListCells \cup {Null} /\ b \in ListCells \cup {Null}
              /\ f \in {0, 1} /\ u \in {0, 1}
BY DEF Element, Elements

LEMMA ElementsHave ==
  ASSUME NEW e \in Elements
  PROVE  /\ e.data \in Data \cup {Null} /\ e.next \in ListCells \cup {Null}
         /\ e.prev \in ListCells \cup {Null} /\ e.foreach \in {0, 1} /\ e.used \in {0, 1}
BY DEF Elements

(* A new cell between its neighbours to be. *)
LinkedIn(l, c, n, d, k) ==
  ListOf(IF k = 1 THEN n ELSE l.head, IF k = Len(c) + 1 THEN n ELSE l.tail, l.nelem + 1,
         Between(l, n, d, At(c, k - 1), At(c, k)))

LEMMA LinkedInHolds ==
  ASSUME NEW l, NEW c, Holds(l, c), NEW n \in ListCells \ Linked(l), NEW d \in Data,
         NEW k \in 1..Len(c)+1
  PROVE  Becomes(l, c, LinkedIn(l, c, n, d, k), Inserted(c, k, n))
<1> DEFINE m == LinkedIn(l, c, n, d, k)
           e == Inserted(c, k, n)
<1>0. /\ c \in Seq(ListCells) /\ Distinct(c) /\ Len(c) \in Nat
      /\ \A j \in 1..Len(c) : c[j] \in ListCells /\ c[j] \in Cells(c) /\ c[j] # Null
      /\ Cells(c) \subseteq ListCells /\ Cells(c) = Linked(l) /\ Null \notin ListCells
      /\ At(c, k) \in ListCells \cup {Null} /\ At(c, k - 1) \in ListCells \cup {Null}
  BY HoldsFacts, ListMemory
<1>1. /\ m.head = (IF k = 1 THEN n ELSE l.head) /\ m.tail = (IF k = Len(c) + 1 THEN n ELSE l.tail)
      /\ m.nelem = l.nelem + 1 /\ m.node = Between(l, n, d, At(c, k - 1), At(c, k))
      /\ m = ListOf(m.head, m.tail, m.nelem, m.node)
  BY ListOfParts DEF LinkedIn
<1> HIDE DEF m
<1>2. m.node[n] = Element(d, At(c, k), At(c, k - 1), 0, 1)
  BY <1>1 DEF Between
<1>3. ASSUME NEW x \in ListCells, x # n
      PROVE  m.node[x] = Element(l.node[x].data, IF x = At(c, k - 1) THEN n ELSE l.node[x].next,
                           IF x = At(c, k) THEN n ELSE l.node[x].prev, l.node[x].foreach, l.node[x].used)
  BY <1>1, <1>3 DEF Between
<1>4. m.node \in [ListCells -> Elements]
  <2>1. ASSUME NEW x \in ListCells PROVE m.node[x] \in Elements
    <3>1. CASE x = n
      BY <1>0, <1>2, <3>1, ElementParts
    <3>2. CASE x # n
      <4>1. l.node[x] \in Elements
        BY DEF Holds
      <4> QED
        BY <1>0, <1>3, <3>2, <4>1, ElementsHave, ElementParts
    <3> QED
      BY <3>1, <3>2
  <2>2. m.node = [x \in ListCells |-> m.node[x]]
    BY <1>1 DEF Between
  <2> QED
    BY <2>1, <2>2
<1>5. n \notin Cells(c)
  BY <1>0
<1>6. Linear(e, m.node, ListCells)
  <2>1. m.node[n].next = At(c, k) /\ m.node[n].prev = At(c, k - 1)
    BY <1>2 DEF Element
  <2>2. \A x \in Cells(c) :
           /\ m.node[x].next = IF x = At(c, k - 1) THEN n ELSE l.node[x].next
           /\ m.node[x].prev = IF x = At(c, k) THEN n ELSE l.node[x].prev
    BY <1>0, <1>3, <1>5, ElementParts
  <2> QED
    BY <1>0, <1>5, <2>1, <2>2, LinearInserted, SMTT(30) DEF Holds
<1>7. Len(e) = Len(c) + 1 /\ Cells(e) = Cells(c) \cup {n} /\ SameOrder(c, e)
  BY <1>0, <1>5, InsertedIs, InsertedCells
<1>8. \A j \in Int : At(e, j) = IF j < k THEN At(c, j) ELSE IF j = k THEN n ELSE At(c, j - 1)
  BY <1>0, InsertedIs
<1>9. \A j \in 1..Len(c)+1 : e[j] = IF j < k THEN c[j] ELSE IF j = k THEN n ELSE c[j-1]
  BY <1>0, InsertedIs
<1> HIDE DEF e
<1>10. /\ m.node[n].data = d /\ m.node[n].foreach = 0 /\ m.node[n].used = 1
       /\ \A x \in ListCells \ {n} :
            /\ m.node[x].data = l.node[x].data /\ m.node[x].foreach = l.node[x].foreach
            /\ m.node[x].used = l.node[x].used
  BY <1>2, <1>3, ElementParts
<1>11. Linked(m) = Linked(l) \cup {n}
  BY <1>10 DEF Linked
<1>12. m.head = At(e, 1) /\ m.tail = At(e, Len(e))
  <2>1. At(e, 1) = IF k = 1 THEN n ELSE At(c, 1)
    BY <1>0, <1>8
  <2>2. At(e, Len(c) + 1) = IF k = Len(c) + 1 THEN n ELSE At(c, Len(c))
    BY <1>0, <1>8
  <2> QED
    BY <1>1, <1>7, <2>1, <2>2 DEF Holds
<1>13. Holds(m, e)
  BY <1>0, <1>1, <1>4, <1>6, <1>7, <1>10, <1>11, <1>12 DEF Holds
<1>14. Datas(m, e) = InsertAt(Datas(l, c), k, d)
  <2> DEFINE s == Datas(l, c)
  <2>1. s \in Seq(Data) /\ Len(s) = Len(c) /\ \A j \in 1..Len(c) : s[j] = l.node[c[j]].data
    BY DatasAre DEF Datas
  <2>2. ASSUME NEW j \in 1..Len(c)+1
        PROVE  m.node[e[j]].data = IF j < k THEN s[j] ELSE IF j = k THEN d ELSE s[j-1]
    <3>1. CASE j < k
      BY <1>0, <1>5, <1>9, <1>10, <2>1, <3>1
    <3>2. CASE j = k
      BY <1>9, <1>10, <3>2
    <3>3. CASE j > k
      <4>1. j - 1 \in 1..Len(c) /\ e[j] = c[j-1]
        BY <1>0, <1>9, <3>3
      <4> QED
        BY <1>0, <1>5, <1>10, <2>1, <3>3, <4>1
    <3> QED
      BY <1>0, <3>1, <3>2, <3>3
  <2> HIDE DEF s
  <2>3. InsertAt(s, k, d) =
           [j \in 1..Len(c)+1 |-> IF j < k THEN s[j] ELSE IF j = k THEN d ELSE s[j-1]]
    BY <2>1, InsertData
  <2> QED
    BY <1>7, <2>2, <2>3 DEF Datas, s
<1>15. DataStep(Datas(l, c), Datas(m, e))
  BY <1>14, DatasAre DEF DataStep
<1> QED
  BY <1>0, <1>5, <1>7, <1>10, <1>13, <1>15 DEF Becomes, m, e

LEMMA BecomesSame ==
  ASSUME NEW l, NEW c, Holds(l, c)
  PROVE  Becomes(l, c, l, c)
BY DEF Becomes, SameOrder, DataStep

(* An element taken out, of which no callback is running. *)
LEMMA UnlinkedHolds ==
  ASSUME NEW l, NEW c, Holds(l, c), NEW k \in 1..Len(c), l.node[c[k]].foreach # 1
  PROVE  Becomes(l, c, UnlinkElement(l, c[k]), Removed(c, k))
<1> DEFINE n == c[k]
           m == UnlinkElement(l, n)
           e == Removed(c, k)
<1>0. /\ c \in Seq(ListCells) /\ Distinct(c) /\ Len(c) \in Nat
      /\ \A j \in 1..Len(c) : c[j] \in ListCells /\ c[j] \in Cells(c) /\ c[j] # Null
      /\ Cells(c) \subseteq ListCells /\ Cells(c) = Linked(l) /\ Null \notin ListCells
      /\ At(c, k + 1) \in ListCells \cup {Null} /\ At(c, k - 1) \in ListCells \cup {Null}
  BY HoldsFacts, ListMemory
<1>1. l.node[n].prev = At(c, k - 1) /\ l.node[n].next = At(c, k + 1) /\ n \in ListCells /\ n \in Cells(c)
  BY <1>0 DEF Holds, Linear
<1>2. \A i \in Int : At(c, i) = Null <=> i \notin 1..Len(c)
  BY <1>0 DEF At
<1>3. /\ m.head = (IF k = 1 THEN At(c, 2) ELSE l.head)
      /\ m.tail = (IF k = Len(c) THEN At(c, Len(c) - 1) ELSE l.tail)
      /\ m.nelem = l.nelem - 1 /\ m.node = Without(l, n, At(c, k - 1), At(c, k + 1))
      /\ m = ListOf(m.head, m.tail, m.nelem, m.node)
  <2>1. At(c, k - 1) = Null <=> k = 1
    BY <1>0, <1>2
  <2>2. At(c, k + 1) = Null <=> k = Len(c)
    BY <1>0, <1>2
  <2> HIDE DEF n
  <2>3. m = ListOf(IF At(c, k - 1) = Null THEN At(c, k + 1) ELSE l.head,
                   IF At(c, k + 1) = Null THEN At(c, k - 1) ELSE l.tail, l.nelem - 1,
                   Without(l, n, At(c, k - 1), At(c, k + 1)))
    BY <1>1 DEF UnlinkElement
  <2> HIDE DEF m
  <2> QED
    BY <2>1, <2>2, <2>3, ListOfParts
<1> HIDE DEF m
<1>4. m.node[n] = FreeElement
  BY <1>1, <1>3 DEF Without
<1>5. ASSUME NEW x \in ListCells, x # n
      PROVE  m.node[x] = Element(l.node[x].data, IF x = At(c, k - 1) THEN At(c, k + 1) ELSE l.node[x].next,
                           IF x = At(c, k + 1) THEN At(c, k - 1) ELSE l.node[x].prev,
                           l.node[x].foreach, l.node[x].used)
  BY <1>3, <1>5 DEF Without
<1> HIDE DEF n
<1>6. m.node \in [ListCells -> Elements]
  <2>1. ASSUME NEW x \in ListCells PROVE m.node[x] \in Elements
    <3>1. CASE x = n
      BY <1>4, <3>1, ElementParts DEF FreeElement
    <3>2. CASE x # n
      <4>1. l.node[x] \in Elements
        BY DEF Holds
      <4> QED
        BY <1>0, <1>5, <3>2, <4>1, ElementsHave, ElementParts
    <3> QED
      BY <3>1, <3>2
  <2>2. m.node = [x \in ListCells |-> m.node[x]]
    BY <1>3 DEF Without
  <2> QED
    BY <2>1, <2>2
<1>7. Linear(e, m.node, ListCells)
  <2>2. \A x \in Cells(c) \ {c[k]} :
           /\ m.node[x].next = IF x = At(c, k - 1) THEN At(c, k + 1) ELSE l.node[x].next
           /\ m.node[x].prev = IF x = At(c, k + 1) THEN At(c, k - 1) ELSE l.node[x].prev
    BY <1>0, <1>5, ElementParts DEF n
  <2> QED
    BY <1>0, <2>2, LinearRemoved DEF Holds
<1>8. Len(e) = Len(c) - 1 /\ Cells(e) = Cells(c) \ {n} /\ SameOrder(c, e)
  BY <1>0, RemovedIs, RemovedCells DEF n
<1>9. \A j \in Int : At(e, j) = IF j < k THEN At(c, j) ELSE At(c, j + 1)
  BY <1>0, RemovedIs
<1>10. \A j \in 1..Len(c)-1 : e[j] = IF j < k THEN c[j] ELSE c[j+1]
  BY <1>0, RemovedIs
<1> HIDE DEF e
<1>11. /\ m.node[n].used = 0
       /\ \A x \in ListCells \ {n} :
            /\ m.node[x].data = l.node[x].data /\ m.node[x].foreach = l.node[x].foreach
            /\ m.node[x].used = l.node[x].used
  BY <1>4, <1>5, ElementParts DEF FreeElement
<1>12. Linked(m) = Linked(l) \ {n}
  BY <1>11 DEF Linked
<1>13. m.head = At(e, 1) /\ m.tail = At(e, Len(e))
  <2>0. Len(c) \in Nat /\ k \in Nat /\ 1 <= k /\ k <= Len(c)
    BY <1>0
  <2>1. At(e, 1) = IF k = 1 THEN At(c, 2) ELSE At(c, 1)
    <3>1. 1 \in Int /\ (1 < k <=> k # 1) /\ 1 + 1 = 2
      BY <2>0
    <3>2. At(e, 1) = IF 1 < k THEN At(c, 1) ELSE At(c, 1 + 1)
      BY <1>9, <3>1
    <3> QED
      BY <3>1, <3>2
  <2>2. At(e, Len(c) - 1) = IF k = Len(c) THEN At(c, Len(c) - 1) ELSE At(c, Len(c))
    <3> DEFINE i == Len(c) - 1
    <3>1. i \in Int /\ (i < k <=> k = Len(c)) /\ i + 1 = Len(c)
      BY <2>0
    <3> HIDE DEF i
    <3>2. At(e, i) = IF i < k THEN At(c, i) ELSE At(c, i + 1)
      BY <1>9, <3>1
    <3>3. At(e, i) = IF k = Len(c) THEN At(c, i) ELSE At(c, Len(c))
      BY <3>1, <3>2
    <3> QED
      BY <3>3 DEF i
  <2> QED
    BY <1>3, <1>8, <2>1, <2>2 DEF Holds
<1>14. Holds(m, e)
  BY <1>0, <1>3, <1>6, <1>7, <1>8, <1>11, <1>12, <1>13 DEF Holds
<1>15. Datas(m, e) = RemoveAt(Datas(l, c), k)
  <2> DEFINE s == Datas(l, c)
  <2>1. s \in Seq(Data) /\ Len(s) = Len(c) /\ \A j \in 1..Len(c) : s[j] = l.node[c[j]].data
    BY DatasAre DEF Datas
  <2>2. ASSUME NEW j \in 1..Len(c)-1
        PROVE  m.node[e[j]].data = IF j < k THEN s[j] ELSE s[j+1]
    <3> DEFINE i == IF j < k THEN j ELSE j + 1
    <3>1. i \in 1..Len(c) /\ i # k /\ e[j] = c[i]
      BY <1>0, <1>10
    <3> HIDE DEF i
    <3>2. c[i] # n
      BY <1>0, <3>1 DEF Distinct, n
    <3>3. m.node[e[j]].data = s[i]
      BY <1>0, <1>11, <2>1, <3>1, <3>2
    <3> QED
      BY <3>3 DEF i
  <2> HIDE DEF s
  <2>3. RemoveAt(s, k) = [j \in 1..Len(c)-1 |-> IF j < k THEN s[j] ELSE s[j+1]]
    BY <2>1, RemoveData
  <2> QED
    BY <1>8, <2>2, <2>3 DEF Datas, s
<1>16. DataStep(Datas(l, c), Datas(m, e))
  BY <1>15, DatasAre DEF DataStep
<1>17. l.node[n].foreach # 1
  BY DEF n
<1> QED
  BY <1>0, <1>8, <1>11, <1>14, <1>16, <1>17 DEF Becomes, m, e, n

(* The mark of an element set or taken off. *)
LEMMA MarkedHolds ==
  ASSUME NEW l, NEW c, Holds(l, c), NEW n \in Cells(c), NEW f \in {0, 1}
  PROVE  /\ Holds(Marked(l, n, f), c) /\ Datas(Marked(l, n, f), c) = Datas(l, c)
         /\ \A x \in ListCells : Marked(l, n, f).node[x].foreach =
              IF x = n THEN f ELSE l.node[x].foreach
<1> DEFINE m == Marked(l, n, f)
<1>0. /\ c \in Seq(ListCells) /\ Distinct(c) /\ Len(c) \in Nat
      /\ \A j \in 1..Len(c) : c[j] \in ListCells /\ c[j] \in Cells(c)
      /\ Cells(c) \subseteq ListCells /\ Cells(c) = Linked(l) /\ n \in ListCells
  BY HoldsFacts
<1>1. /\ m.head = l.head /\ m.tail = l.tail /\ m.nelem = l.nelem
      /\ m = ListOf(m.head, m.tail, m.nelem, m.node)
      /\ m.node = [x \in ListCells |->
           IF x = n THEN Element(l.node[n].data, l.node[n].next, l.node[n].prev, f, l.node[n].used)
           ELSE l.node[x]]
  BY ListOfParts DEF Marked
<1> HIDE DEF m
<1>2. l.node[n] \in Elements
  BY <1>0 DEF Holds
<1>3. m.node \in [ListCells -> Elements]
  <2>1. Element(l.node[n].data, l.node[n].next, l.node[n].prev, f, l.node[n].used) \in Elements
    BY <1>2, ElementsHave, ElementParts
  <2> QED
    BY <1>1, <2>1 DEF Holds
<1>4. \A x \in ListCells :
        /\ m.node[x].data = l.node[x].data /\ m.node[x].next = l.node[x].next
        /\ m.node[x].prev = l.node[x].prev /\ m.node[x].used = l.node[x].used
        /\ m.node[x].foreach = IF x = n THEN f ELSE l.node[x].foreach
  BY <1>1, ElementParts
<1>5. Linear(c, m.node, ListCells)
  BY <1>0, <1>4, LinearSame DEF Holds
<1>6. Linked(m) = Linked(l)
  BY <1>4 DEF Linked
<1>7. Holds(m, c)
  <2>1. Cells(c) = Linked(m)
    BY <1>0, <1>6
  <2>2. m.head = At(c, 1) /\ m.tail = At(c, Len(c)) /\ m.nelem = Len(c)
    BY <1>1 DEF Holds
  <2>3. \A x \in Linked(m) : m.node[x].data \in Data
    <3>1. \A x \in Linked(l) : l.node[x].data \in Data
      BY DEF Holds
    <3> QED
      BY <1>0, <1>4, <1>6, <3>1
  <2>4. m = ListOf(m.head, m.tail, m.nelem, m.node)
    BY <1>1
  <2> QED
    BY <1>3, <1>5, <2>1, <2>2, <2>3, <2>4 DEF Holds
<1>8. Datas(m, c) = Datas(l, c)
  BY <1>0, <1>4 DEF Datas
<1> QED
  BY <1>4, <1>7, <1>8 DEF m

-----------------------------------------------------------------------------
(* Each call makes such a list of a list. *)
Reaches(l, c, m) == \E d : Becomes(l, c, m, d)

LEMMA NewCell ==
  ASSUME NEW l, Room(l)
  PROVE  Lowest(ListCells \ Linked(l)) \in ListCells \ Linked(l)
<1>1. ListCells \ Linked(l) # {} /\ ListCells \ Linked(l) \in SUBSET Nat
  BY ListAssumption DEF Room, Linked
<1> QED
  BY <1>1, Least

LEMMA AddReaches ==
  ASSUME NEW l, NEW c, Holds(l, c), Room(l), NEW d \in Data
  PROVE  /\ Reaches(l, c, sd_list_add(l, d)) /\ Reaches(l, c, sd_list_prepend(l, d))
         /\ Reaches(l, c, sd_list_append(l, d))
         /\ \A k \in 1..Len(c) : Reaches(l, c, sd_list_iter_insert(l, c[k], d))
<1> DEFINE n == Lowest(ListCells \ Linked(l))
<1>0. /\ c \in Seq(ListCells) /\ Distinct(c) /\ Len(c) \in Nat
      /\ \A j \in 1..Len(c) : c[j] \in ListCells /\ c[j] # Null
  BY HoldsFacts
<1>1. n \in ListCells \ Linked(l)
  BY NewCell
<1> HIDE DEF n
<1>2. \A i \in Int : At(c, i) = Null <=> i \notin 1..Len(c)
  BY <1>0 DEF At
<1>3. l.head = At(c, 1) /\ l.tail = At(c, Len(c))
  BY DEF Holds
<1>4. ASSUME NEW k \in 1..Len(c)+1 PROVE Reaches(l, c, LinkedIn(l, c, n, d, k))
  BY <1>1, LinkedInHolds DEF Reaches
<1>5. (l.tail = Null <=> Len(c) = 0) /\ (l.head = Null <=> Len(c) = 0)
  BY <1>0, <1>2, <1>3
<1>6. At(c, 0) = Null /\ At(c, Len(c) + 1) = Null /\ 1 - 1 = 0 /\ Len(c) + 1 - 1 = Len(c)
  BY <1>0, <1>2
<1>7. LinkedIn(l, c, n, d, 1) = sd_list_add(l, d)
  BY <1>0, <1>3, <1>5, <1>6 DEF LinkedIn, sd_list_add, n
<1>8. LinkedIn(l, c, n, d, 1) = sd_list_prepend(l, d)
  BY <1>0, <1>3, <1>5, <1>6 DEF LinkedIn, sd_list_prepend, n
<1>9. LinkedIn(l, c, n, d, Len(c) + 1) = sd_list_append(l, d)
  BY <1>0, <1>3, <1>5, <1>6 DEF LinkedIn, sd_list_append, n
<1>10. 1 \in 1..Len(c)+1 /\ Len(c) + 1 \in 1..Len(c)+1
  BY <1>0
<1>11. ASSUME NEW k \in 1..Len(c) PROVE Reaches(l, c, sd_list_iter_insert(l, c[k], d))
  <2>1. At(c, k) = c[k] /\ l.node[c[k]].prev = At(c, k - 1)
    BY DEF At, Holds, Linear
  <2>2. l.head = c[k] <=> k = 1
    BY <1>0, <1>3 DEF At, Distinct
  <2>3. CASE k = 1
    BY <1>4, <1>8, <1>10, <2>2, <2>3 DEF sd_list_iter_insert
  <2>4. CASE k # 1
    <3>1. LinkedIn(l, c, n, d, k) = sd_list_iter_insert(l, c[k], d)
      BY <1>0, <2>1, <2>2, <2>4 DEF LinkedIn, sd_list_iter_insert, n
    <3> QED
      BY <1>0, <1>4, <3>1
  <2> QED
    BY <2>3, <2>4
<1> QED
  BY <1>4, <1>7, <1>8, <1>9, <1>10, <1>11

LEMMA DelReaches ==
  ASSUME NEW l, NEW c, Holds(l, c), NEW k \in 1..Len(c)
  PROVE  Reaches(l, c, sd_list_iter_del(l, c[k]))
<1>0. c[k] \in Cells(c) /\ c[k] \in ListCells
  BY HoldsFacts
<1>1. CASE l.node[c[k]].foreach = 1
  <2>1. /\ Holds(Marked(l, c[k], 0), c) /\ Datas(Marked(l, c[k], 0), c) = Datas(l, c)
        /\ \A x \in ListCells : Marked(l, c[k], 0).node[x].foreach =
             IF x = c[k] THEN 0 ELSE l.node[x].foreach
    BY <1>0, MarkedHolds
  <2>2. Becomes(l, c, Marked(l, c[k], 0), c)
    BY <2>1, HoldsFacts DEF Becomes, SameOrder, DataStep
  <2> QED
    BY <1>1, <2>2 DEF Reaches, sd_list_iter_del
<1>2. CASE l.node[c[k]].foreach # 1
  BY <1>2, UnlinkedHolds DEF Reaches, sd_list_iter_del
<1> QED
  BY <1>1, <1>2

LEMMA CallReaches ==
  ASSUME NEW l, NEW c, Holds(l, c), NEW m \in ListCalls(l)
  PROVE  Reaches(l, c, m)
<1>0. Linked(l) = Cells(c) /\ Null \notin ListCells /\ Reaches(l, c, l)
  BY HoldsFacts, ListMemory, BecomesSame DEF Reaches
<1>1. ASSUME NEW hits, hits \subseteq Linked(l)
      PROVE  First(l.head, Forth(l), hits) = Null \/ \E k \in 1..Len(c) : First(l.head, Forth(l), hits) = c[k]
  <2>1. Leads(Forth(l), c, ListCells)
    BY HoldsFacts, ListMemory DEF Holds, Linear, Leads, Forth
  <2>2. Null \notin hits
    BY <1>0, <1>1 DEF Linked
  <2> QED
    BY <2>1, <2>2, ListMemory, FirstIs DEF Holds
<1>2. ASSUME NEW d PROVE sd_list_lookup(l, d) = Null \/ \E k \in 1..Len(c) : sd_list_lookup(l, d) = c[k]
  <2>1. {n \in Linked(l) : l.node[n].data = d} \subseteq Linked(l)
    OBVIOUS
  <2> QED
    BY <1>1, <2>1 DEF sd_list_lookup
<1>3. ASSUME NEW n \in Linked(l) PROVE \E k \in 1..Len(c) : n = c[k]
  BY <1>0 DEF Cells
<1>4. CASE m \in Deletions(l)
  <2>1. CASE \E d \in Data : m = sd_list_del(l, d)
    <3>1. PICK d \in Data : m = sd_list_del(l, d)
      BY <2>1
    <3> QED
      BY <1>0, <1>2, <3>1, DelReaches DEF sd_list_del
  <2>2. CASE \E n \in Linked(l) : m = sd_list_iter_del(l, n)
    BY <1>3, <2>2, DelReaches
  <2> QED
    BY <1>4, <2>1, <2>2 DEF Deletions
<1>5. CASE Room(l) /\ m \in Additions(l)
  <2>1. CASE \E n \in Linked(l), d \in Data : m = sd_list_iter_insert(l, n, d)
    BY <1>3, <1>5, <2>1, AddReaches
  <2>2. CASE \E d \in Data : m \in {sd_list_add(l, d), sd_list_prepend(l, d), sd_list_append(l, d),
                                    sd_list_lookadd(l, d), sd_list_sortadd(l, d)}
    <3>1. PICK d \in Data : m \in {sd_list_add(l, d), sd_list_prepend(l, d), sd_list_append(l, d),
                                   sd_list_lookadd(l, d), sd_list_sortadd(l, d)}
      BY <2>2
    <3>2. Reaches(l, c, sd_list_add(l, d)) /\ Reaches(l, c, sd_list_prepend(l, d))
          /\ Reaches(l, c, sd_list_append(l, d))
          /\ \A k \in 1..Len(c) : Reaches(l, c, sd_list_iter_insert(l, c[k], d))
      BY <1>5, AddReaches
    <3>3. Reaches(l, c, sd_list_lookadd(l, d))
      BY <1>0, <3>2 DEF sd_list_lookadd
    <3>4. Reaches(l, c, sd_list_sortadd(l, d))
      <4> DEFINE hits == {n \in Linked(l) : l.node[n].data > d}
      <4>1. hits \subseteq Linked(l)
        OBVIOUS
      <4>2. sd_list_sortadd(l, d) = IF First(l.head, Forth(l), hits) = Null THEN sd_list_append(l, d)
              ELSE sd_list_iter_insert(l, First(l.head, Forth(l), hits), d)
        BY DEF sd_list_sortadd
      <4> HIDE DEF hits
      <4> QED
        BY <1>1, <3>2, <4>1, <4>2
    <3> QED
      BY <3>1, <3>2, <3>3, <3>4
  <2> DEFINE A(d) == {sd_list_add(l, d), sd_list_prepend(l, d), sd_list_append(l, d),
                      sd_list_lookadd(l, d), sd_list_sortadd(l, d)}
             I == {sd_list_iter_insert(l, n, d) : n \in Linked(l), d \in Data}
  <2>3. m \in UNION {A(d) : d \in Data} \/ m \in I
    BY <1>5 DEF Additions
  <2>4. CASE m \in I
    BY <2>1, <2>4
  <2>5. CASE m \in UNION {A(d) : d \in Data}
    <3> HIDE DEF A
    <3>1. \E d \in Data : m \in A(d)
      BY <2>5
    <3> QED
      BY <2>2, <3>1 DEF A
  <2> QED
    BY <2>3, <2>4, <2>5
<1> QED
  BY <1>4, <1>5 DEF ListCalls

-----------------------------------------------------------------------------
(* What a loop knows of the chain c of the list: no element but the one     *)
(* whose callback is running is marked, and of those that were there from   *)
(* the beginning it has visited the ones it has met, once.                  *)
Reached == IF lpc = "called" THEN {iter} ELSE {}

LoopKnows(c) ==
  /\ lpc # "called" => \A n \in Cells(c) : list.node[n].foreach = 0
  /\ lpc = "idle" => lkept = {}
  /\ lpc = "loop" => iter = Null \/ iter \in Cells(c)
  /\ lpc = "called" =>
       /\ iter \in Cells(c)
       /\ \A n \in Cells(c) : list.node[n].foreach = 1 => n = iter
       /\ iter \in lkept => list.node[iter].foreach = 1
  /\ lkept \subseteq Cells(c)
  /\ \A n \in lkept : lvisits[n] = IF n \in Met(c, iter, forward) \cup Reached THEN 1 ELSE 0

Carried(c) == ListTypes /\ Holds(list, c) /\ LoopKnows(c)

ListInv == \E c : Carried(c)

\* A step leaves such a list, whose data are those of one call on the list before.
Outcome(c) ==
  \E d : Carried(d)' /\ (DataStep(Datas(list, c), Datas(list', d)) \/ Datas(list', d) = << >>)

LEMMA HoldsTypes ==
  ASSUME NEW l, NEW c, Holds(l, c)
  PROVE  /\ l = ListOf(l.head, l.tail, l.nelem, l.node)
         /\ l.head \in ListCells \cup {Null} /\ l.tail \in ListCells \cup {Null}
         /\ l.nelem \in Nat /\ l.node \in [ListCells -> Elements]
<1>1. Len(c) \in Nat /\ At(c, 1) \in ListCells \cup {Null} /\ At(c, Len(c)) \in ListCells \cup {Null}
  BY HoldsFacts
<1> QED
  BY <1>1 DEF Holds

LEMMA ForeachIs ==
  ASSUME NEW l, NEW c, Holds(l, c), NEW n \in Cells(c)
  PROVE  l.node[n].foreach \in {0, 1}
BY HoldsFacts, ElementsHave DEF Holds

LEMMA EmptyHolds == Holds(sd_list_new, << >>) /\ sd_list_new.node = [n \in ListCells |-> FreeElement]
<1> DEFINE l == sd_list_new
           c == << >>
<1>1. /\ l.head = Null /\ l.tail = Null /\ l.nelem = 0 /\ l.node = [n \in ListCells |-> FreeElement]
      /\ l = ListOf(l.head, l.tail, l.nelem, l.node)
  BY ListOfParts DEF sd_list_new
<1> HIDE DEF l
<1>2. FreeElement \in Elements /\ FreeElement.used = 0
  BY ElementParts DEF FreeElement
<1>3. l.node \in [ListCells -> Elements] /\ Linked(l) = {}
  BY <1>1, <1>2 DEF Linked
<1>4. c \in Seq(ListCells) /\ Len(c) = 0 /\ At(c, 1) = Null /\ At(c, 0) = Null /\ Cells(c) = {}
  BY DEF At, Cells
<1>5. Linear(c, l.node, ListCells)
  BY <1>4 DEF Linear, Distinct
<1>6. Holds(l, c)
  BY <1>1, <1>3, <1>4, <1>5 DEF Holds
<1> QED
  BY <1>1, <1>6 DEF l

LEMMA EmptyDatas == ASSUME NEW l PROVE Datas(l, << >>) = << >>
BY DEF Datas

LEMMA ListStarts == ListInit => Carried(<< >>)
<1> SUFFICES ASSUME ListInit PROVE Carried(<< >>)
  OBVIOUS
<1>1. Holds(list, << >>) /\ Cells(<< >>) = {}
  BY EmptyHolds DEF ListInit, Cells
<1>2. ListTypes
  BY <1>1, HoldsTypes DEF ListInit, ListTypes
<1>3. LoopKnows(<< >>)
  BY <1>1 DEF ListInit, LoopKnows
<1> QED
  BY <1>1, <1>2, <1>3 DEF Carried

LEMMA CallCarries ==
  ASSUME NEW c, Carried(c), ListCall
  PROVE  Outcome(c)
<1>1. Holds(list, c) /\ LoopKnows(c) /\ ListTypes
  BY DEF Carried
<1>2. lpc = "idle" /\ lpc' = "idle" /\ UNCHANGED <<forward, iter, lkept, lvisits>> /\ lkept = {}
  BY <1>1 DEF ListCall, LoopKnows
<1>3. ASSUME NEW d, Holds(list', d), \A n \in Cells(d) : list'.node[n].foreach = 0 PROVE Carried(d)'
  <2>1. ListTypes'
    BY <1>1, <1>2, <1>3, HoldsTypes DEF ListTypes
  <2>2. LoopKnows(d)'
    BY <1>2, <1>3 DEF LoopKnows
  <2> QED
    BY <1>3, <2>1, <2>2 DEF Carried
<1>4. CASE list' = sd_list_clear(list)
  <2>1. list' = sd_list_new
    BY <1>4 DEF sd_list_clear, sd_list_new
  <2>2. Holds(list', << >>) /\ Cells(<< >>) = {}
    BY <2>1, EmptyHolds DEF Cells
  <2>3. Carried(<< >>)'
    BY <1>3, <2>2
  <2> QED
    BY <2>3, EmptyDatas DEF Outcome
<1>5. CASE list' \in ListCalls(list)
  <2>1. PICK d : Becomes(list, c, list', d)
    BY <1>1, <1>5, CallReaches DEF Reaches
  <2>2. \A n \in Cells(d) : list'.node[n].foreach = 0
    <3>1. ASSUME NEW n \in Cells(d) PROVE list'.node[n].foreach = 0
      <4>1. list'.node[n].foreach # 1
        BY <1>1, <1>2, <2>1 DEF Becomes, LoopKnows
      <4>2. list'.node[n].foreach \in {0, 1}
        BY <2>1, ForeachIs DEF Becomes
      <4> QED
        BY <4>1, <4>2
    <3> QED
      BY <3>1
  <2>3. Carried(d)'
    BY <1>3, <2>1, <2>2 DEF Becomes
  <2> QED
    BY <2>1, <2>3 DEF Outcome, Becomes
<1> QED
  BY <1>4, <1>5 DEF ListCall

LEMMA ForeachCarries ==
  ASSUME NEW c, Carried(c), ListForeach
  PROVE  Outcome(c)
<1>1. Holds(list, c) /\ LoopKnows(c) /\ ListTypes /\ Cells(c) = Linked(list)
  BY HoldsFacts DEF Carried
<1>2. /\ c \in Seq(ListCells) /\ Distinct(c) /\ Cells(c) \subseteq ListCells
      /\ \A j \in Int : At(c, j) \in Cells(c) \cup {Null}
  BY <1>1, HoldsFacts DEF At
<1>3. lpc = "idle" /\ lpc' = "loop" /\ list' = list /\ forward' \in BOOLEAN
      /\ lkept' = Cells(c) /\ lvisits' = [n \in ListCells |-> 0]
  BY <1>1 DEF ListForeach
<1>4. iter' = IF forward' THEN At(c, 1) ELSE At(c, Len(c))
  BY <1>1 DEF ListForeach, Holds
<1>5. Met(c, iter', forward') = {}
  BY <1>2, <1>3, <1>4, ListMemory, MetStart
<1>6. iter' \in Cells(c) \cup {Null}
  BY <1>2, <1>4, HoldsFacts, <1>1
<1>7. LoopKnows(c)'
  BY <1>1, <1>2, <1>3, <1>5, <1>6 DEF LoopKnows, Reached
<1>8. ListTypes'
  BY <1>1, <1>2, <1>3, <1>6 DEF ListTypes
<1>9. Carried(c)'
  BY <1>1, <1>3, <1>7, <1>8 DEF Carried
<1> QED
  BY <1>3, <1>9 DEF Outcome, DataStep

LEMMA VisitCarries ==
  ASSUME NEW c, Carried(c), ListVisit
  PROVE  Outcome(c)
<1> DEFINE marked == Marked(list, iter, 1)
<1>1. Holds(list, c) /\ LoopKnows(c) /\ ListTypes /\ Cells(c) = Linked(list) /\ Cells(c) \subseteq ListCells
  BY HoldsFacts DEF Carried
<1>2. lpc = "loop" /\ iter # Null /\ iter \in Cells(c) /\ lpc' = "called" /\ forward' = forward /\ iter' = iter
      /\ list' \in ListCalls(marked) \cup {marked}
  BY <1>1 DEF ListVisit, LoopKnows
<1>3. /\ Holds(marked, c) /\ Datas(marked, c) = Datas(list, c)
      /\ \A n \in ListCells : marked.node[n].foreach = IF n = iter THEN 1 ELSE list.node[n].foreach
  BY <1>1, <1>2, MarkedHolds
<1> HIDE DEF marked
<1>4. PICK d : Becomes(marked, c, list', d)
  BY <1>2, <1>3, CallReaches, BecomesSame DEF Reaches
<1>5. Holds(list', d) /\ Cells(d) = Linked(list') /\ Cells(d) \subseteq ListCells
  BY <1>4, HoldsFacts DEF Becomes
<1>6. iter \in Cells(d) /\ \A n \in Cells(d) : list'.node[n].foreach = 1 => n = iter
  <2>1. \A n \in Cells(c) : marked.node[n].foreach = 1 <=> n = iter
    BY <1>1, <1>2, <1>3 DEF LoopKnows
  <2> QED
    BY <1>2, <1>4, <2>1 DEF Becomes
<1>7. lkept' = {n \in lkept : n \in Cells(d) /\ (n = iter => list'.node[n].foreach = 1)}
  BY <1>5 DEF ListVisit
<1>8. lvisits' = [n \in ListCells |-> IF n \notin lkept' THEN 0
                                      ELSE IF n = iter THEN lvisits[n] + 1 ELSE lvisits[n]]
  BY DEF ListVisit
<1>9. ASSUME NEW n \in lkept'
      PROVE  lvisits'[n] = IF n \in Met(d, iter, forward) \cup {iter} THEN 1 ELSE 0
  <2>1. n \in lkept /\ n \in Cells(c) /\ n \in Cells(d) /\ n \in ListCells
    BY <1>1, <1>7 DEF LoopKnows
  <2>2. lvisits[n] = IF n \in Met(c, iter, forward) THEN 1 ELSE 0
    BY <1>1, <1>2, <2>1 DEF LoopKnows, Reached
  <2>3. CASE n = iter
    <3>1. n \notin Met(c, iter, forward)
      <4>1. Distinct(c) /\ Len(c) \in Nat
        BY <1>1, HoldsFacts
      <4> QED
        BY <1>2, <2>3, <4>1 DEF Met, Before, Distinct
    <3> QED
      BY <1>8, <2>1, <2>2, <2>3, <3>1
  <2>4. CASE n # iter
    <3>1. n \in Met(c, iter, forward) <=> n \in Met(d, iter, forward)
      BY <1>1, <1>2, <1>4, <1>6, <2>1, MetSame DEF Becomes, ListTypes
    <3> QED
      BY <1>8, <2>1, <2>2, <2>4, <3>1
  <2> QED
    BY <2>3, <2>4
<1>10. LoopKnows(d)'
  BY <1>2, <1>6, <1>7, <1>9 DEF LoopKnows, Reached
<1>11. ListTypes'
  <2>1. lvisits' \in [ListCells -> Nat]
    BY <1>1, <1>8 DEF ListTypes
  <2> QED
    BY <1>1, <1>2, <1>5, <1>7, <2>1, HoldsTypes DEF ListTypes
<1>12. Carried(d)'
  BY <1>5, <1>10, <1>11 DEF Carried
<1> QED
  BY <1>3, <1>4, <1>12 DEF Outcome, Becomes

LEMMA AfterCarries ==
  ASSUME NEW c, Carried(c), ListAfter
  PROVE  Outcome(c)
<1>1. Holds(list, c) /\ LoopKnows(c) /\ ListTypes /\ Cells(c) = Linked(list) /\ Cells(c) \subseteq ListCells
      /\ c \in Seq(ListCells) /\ Distinct(c) /\ Len(c) \in Nat /\ Null \notin ListCells
  BY HoldsFacts, ListMemory DEF Carried
<1>2. lpc = "called" /\ iter \in Cells(c) /\ list' = Settled(list)
  BY <1>1 DEF ListAfter, LoopKnows
<1>3. PICK k \in 1..Len(c) : iter = c[k]
  BY <1>2 DEF Cells
<1>4. Follow(list) = IF forward THEN At(c, k + 1) ELSE At(c, k - 1)
  BY <1>1, <1>3 DEF Follow, Holds, Linear
<1>5. Met(c, Follow(list), forward) = Met(c, iter, forward) \cup {iter}
  BY <1>1, <1>3, <1>4, MetStep DEF ListTypes
(* Taken out or only unmarked, the list is left with a chain d, in the      *)
(* order of c, where nothing is marked any more.                            *)
<1>6. \E d : /\ Becomes(list, c, list', d) /\ Follow(list) \in Cells(d) \cup {Null}
             /\ lkept \subseteq Cells(d) /\ \A n \in Cells(d) : list'.node[n].foreach = 0
  <2>1. k + 1 \in Int /\ k - 1 \in Int
    OBVIOUS
  <2>2. Follow(list) = Null \/ Follow(list) \in Cells(c) \ {iter}
    <3>1. ASSUME NEW j \in Int, j # k PROVE At(c, j) = Null \/ At(c, j) \in Cells(c) \ {iter}
      BY <1>1, <1>3, <3>1 DEF At, Cells, Distinct
    <3>2. k + 1 # k /\ k - 1 # k
      OBVIOUS
    <3> QED
      BY <1>4, <2>1, <3>1, <3>2
  <2>3. CASE list.node[iter].foreach = 0
    <3> DEFINE d == Removed(c, k)
    <3>1. Becomes(list, c, list', d)
      BY <1>1, <1>2, <1>3, <2>3, UnlinkedHolds DEF Settled, sd_list_iter_del
    <3>2. Cells(d) = Cells(c) \ {iter}
      BY <1>1, <1>3, RemovedCells
    <3> HIDE DEF d
    <3>3. iter \notin lkept
      BY <1>1, <1>2, <2>3 DEF LoopKnows
    <3>4. ASSUME NEW n \in Cells(d) PROVE list'.node[n].foreach = 0
      <4>1. list'.node[n].foreach \in {0, 1}
        BY <3>1, ForeachIs DEF Becomes
      <4>2. list'.node[n].foreach # 1
        BY <1>1, <1>2, <3>1, <3>2 DEF Becomes, LoopKnows
      <4> QED
        BY <4>1, <4>2
    <3>5. lkept \subseteq Cells(d)
      BY <1>1, <3>2, <3>3 DEF LoopKnows
    <3> QED
      BY <2>2, <3>1, <3>2, <3>4, <3>5
  <2>4. CASE list.node[iter].foreach # 0
    <3>1. list' = Marked(list, iter, 0)
      BY <1>2, <2>4 DEF Settled
    <3>2. /\ Holds(list', c) /\ Datas(list', c) = Datas(list, c)
          /\ \A n \in ListCells : list'.node[n].foreach = IF n = iter THEN 0 ELSE list.node[n].foreach
      BY <1>1, <1>2, <3>1, MarkedHolds
    <3>3. ASSUME NEW n \in Cells(c) PROVE list'.node[n].foreach = 0
      <4>1. list.node[n].foreach \in {0, 1}
        BY <1>1, ForeachIs
      <4>2. n # iter => list.node[n].foreach # 1
        BY <1>1, <1>2 DEF LoopKnows
      <4> QED
        BY <1>1, <3>2, <4>1, <4>2
    <3>4. Becomes(list, c, list', c)
      BY <1>1, <3>2, <3>3 DEF Becomes, SameOrder, DataStep
    <3> QED
      BY <1>1, <2>2, <3>3, <3>4 DEF LoopKnows
  <2> QED
    BY <2>3, <2>4
<1>7. PICK d : /\ Becomes(list, c, list', d) /\ Follow(list) \in Cells(d) \cup {Null}
               /\ lkept \subseteq Cells(d) /\ \A n \in Cells(d) : list'.node[n].foreach = 0
  BY <1>6
<1>8. Holds(list', d) /\ DataStep(Datas(list, c), Datas(list', d)) /\ SameOrder(c, d)
  BY <1>7 DEF Becomes
<1>9. CASE ListReturn
  <2>1. LoopKnows(d)'
    BY <1>7, <1>9 DEF ListReturn, LoopKnows
  <2>2. ListTypes'
    BY <1>8, <1>9, HoldsTypes DEF ListReturn, ListTypes
  <2> QED
    BY <1>8, <2>1, <2>2 DEF Outcome, Carried
<1>10. CASE iter' = Follow(list) /\ lpc' = "loop" /\ UNCHANGED <<forward, lkept, lvisits>>
  <2>1. ASSUME NEW n \in lkept
        PROVE  lvisits[n] = IF n \in Met(d, iter', forward) THEN 1 ELSE 0
    <3>1. n \in Cells(c) \cap Cells(d)
      BY <1>1, <1>7 DEF LoopKnows
    <3>2. lvisits[n] = IF n \in Met(c, Follow(list), forward) THEN 1 ELSE 0
      BY <1>1, <1>2, <1>5 DEF LoopKnows, Reached
    <3>3. Follow(list) = Null \/ Follow(list) \in Cells(c) \cap Cells(d)
      <4>1. \A j \in Int : At(c, j) = Null \/ At(c, j) \in Cells(c)
        BY DEF At, Cells
      <4>2. k + 1 \in Int /\ k - 1 \in Int
        OBVIOUS
      <4> QED
        BY <1>4, <1>7, <4>1, <4>2
    <3>4. n \in Met(c, Follow(list), forward) <=> n \in Met(d, Follow(list), forward)
      BY <1>1, <1>8, <3>1, <3>3, MetSame DEF ListTypes
    <3> QED
      BY <1>10, <3>2, <3>4
  <2>2. LoopKnows(d)'
    BY <1>7, <1>10, <2>1 DEF LoopKnows, Reached
  <2>3. Follow(list) \in ListCells \cup {Null}
    BY <1>7, <1>8, HoldsFacts
  <2>4. ListTypes'
    BY <1>1, <1>8, <1>10, <2>3, HoldsTypes DEF ListTypes
  <2> QED
    BY <1>8, <2>2, <2>4 DEF Outcome, Carried
<1> QED
  BY <1>9, <1>10 DEF ListAfter

LEMMA EndCarries ==
  ASSUME NEW c, Carried(c), ListEnd \/ UNCHANGED lvars
  PROVE  Outcome(c)
<1>1. Holds(list, c) /\ LoopKnows(c) /\ ListTypes /\ list' = list
  BY DEF Carried, ListEnd, lvars
<1>2. Carried(c)'
  <2>1. CASE ListEnd
    BY <1>1, <2>1 DEF Carried, ListEnd, ListReturn, LoopKnows, ListTypes
  <2>2. CASE UNCHANGED lvars
    BY <1>1, <2>2 DEF Carried, lvars, LoopKnows, ListTypes, Reached
  <2> QED
    BY <2>1, <2>2
<1> QED
  BY <1>1, <1>2 DEF Outcome, DataStep

LEMMA ListStepCarries ==
  ASSUME NEW c, Carried(c), [ListNext]_lvars
  PROVE  Outcome(c)
BY CallCarries, ForeachCarries, VisitCarries, AfterCarries, EndCarries DEF ListNext

LEMMA ListLoops == ListInv => ListLoopMeetsAll
<1> SUFFICES ASSUME NEW c, Carried(c) PROVE ListLoopMeetsAll
  BY DEF ListInv
<1>1. Holds(list, c) /\ LoopKnows(c) /\ ListTypes /\ Cells(c) = Linked(list)
      /\ c \in Seq(ListCells) /\ Distinct(c) /\ Len(c) \in Nat
  BY HoldsFacts DEF Carried
<1>2. Chain(list) = c /\ Back(list) = Reverse(c)
  BY <1>1, ChainIs, BackIs
<1>3. ToSet(c) = Linked(list) /\ Cardinality(Linked(list)) = list.nelem
  <2>1. ToSet(c) = Cells(c)
    BY <1>1 DEF ToSet, Cells
  <2>2. Cardinality(Cells(c)) = Len(c)
    BY <1>1, ListMemory, LengthBound DEF Memory
  <2> QED
    BY <1>1, <2>1, <2>2 DEF Holds
<1>4. lpc # "idle" /\ iter # Null => iter \in Linked(list)
  BY <1>1 DEF LoopKnows, ListTypes
<1>5. \A n \in lkept : lvisits[n] <= 1
  BY <1>1 DEF LoopKnows
<1>6. lpc = "loop" /\ iter = Null => \A n \in lkept : lvisits[n] = 1
  BY <1>1 DEF LoopKnows, Met
<1> QED
  BY <1>2, <1>3, <1>4, <1>5, <1>6 DEF ListLoopMeetsAll

LEMMA ListInductive == ListSpec => []ListInv
<1>1. ListInit => ListInv
  BY ListStarts DEF ListInv
<1>2. ListInv /\ [ListNext]_lvars => ListInv'
  BY ListStepCarries DEF ListInv, Outcome
<1> QED
  BY <1>1, <1>2, PTL DEF ListSpec

LEMMA ContentsAre ==
  ASSUME NEW c, Holds(list, c)
  PROVE  ListContents = Datas(list, c)
BY ChainIs DEF ListContents, Datas

LEMMA ContentsStep ==
  ListInv /\ [ListNext]_lvars => [DL!Next]_ListContents
<1> SUFFICES ASSUME NEW c, Carried(c), [ListNext]_lvars PROVE [DL!Next]_ListContents
  BY DEF ListInv
<1>1. PICK d : Carried(d)' /\ (DataStep(Datas(list, c), Datas(list', d)) \/ Datas(list', d) = << >>)
  BY ListStepCarries DEF Outcome
<1>2. ListContents = Datas(list, c)
  BY ContentsAre DEF Carried
<1>3. ListContents' = Datas(list', d)
  <2>1. Holds(list', d)
    BY <1>1 DEF Carried
  <2>2. Chain(list') = d
    BY <2>1, ChainIs
  <2> QED
    BY <2>2 DEF ListContents, Datas
<1> HIDE DEF ListContents
<1>4. CASE Datas(list', d) = << >>
  BY <1>3, <1>4 DEF DL!Next, DL!Clear
<1>5. CASE DataStep(Datas(list, c), Datas(list', d))
  <2> DEFINE s == Datas(list, c)
             t == Datas(list', d)
  <2>1. CASE t = s
    BY <1>2, <1>3, <2>1
  <2>2. CASE \E x \in Data, k \in 1..Len(s)+1 : t = InsertAt(s, k, x)
    BY <1>2, <1>3, <2>2 DEF DL!Next, DL!Add, DL!InsertAt, InsertAt
  <2>3. CASE \E k \in 1..Len(s) : t = RemoveAt(s, k)
    BY <1>2, <1>3, <2>3 DEF DL!Next, DL!Delete, DL!RemoveAt, RemoveAt
  <2> QED
    BY <1>5, <2>1, <2>2, <2>3 DEF DataStep
<1> QED
  BY <1>1, <1>4, <1>5

LEMMA ListIsSequence == ListSpec => ImplementsDataList
<1>1. ListInit => DL!Init
  <2> SUFFICES ASSUME ListInit PROVE ListContents = << >>
    BY DEF DL!Init
  <2>1. Holds(list, << >>)
    BY EmptyHolds DEF ListInit
  <2> QED
    BY <2>1, ContentsAre, EmptyDatas
<1>2. ListInv /\ [ListNext]_lvars => [DL!Next]_ListContents
  BY ContentsStep
<1> QED
  BY <1>1, <1>2, ListInductive, PTL DEF ListSpec, ImplementsDataList, DL!Spec

-----------------------------------------------------------------------------
Arrays == UNION {[0..n-1 -> Slot] : n \in Nat}
Stacks == [max : Nat, sp : Nat, size : Nat, iter : Nat, array : Arrays]

(* What a call must keep of a stack: the array is no larger than the        *)
(* maximum, or as large as it was at first.                                 *)
StackSound(s) ==
  /\ s \in Stacks
  /\ s.array \in [0..s.size-1 -> Slot]
  /\ s.sp <= s.size /\ SD_STACK_INIT_SIZE <= s.size
  /\ s.size <= s.max \/ s.size = SD_STACK_INIT_SIZE
  /\ \A j \in 0..s.sp-1 : s.array[j] # Nothing

Results == [by : {"push", "pop", "peek", "clear", "look", "abort"}, rc : {0, -1}, data : Slot]

\* Where the assertion of push has failed.
Overfull(s) == s.max < SD_STACK_INIT_SIZE /\ s.sp = SD_STACK_INIT_SIZE

StackInv == StackSound(stack) /\ returned \in Results /\ (~Running => Overfull(stack))

(* The elements of two stacks are the same up to n. *)
SameBelow(s, t, n) == \A j \in 0..n-1 : s.array[j] = t.array[j]

LEMMA NewSound ==
  ASSUME NEW max \in Maxima PROVE StackSound(sd_stack_new(max)) /\ sd_stack_new(max).sp = 0
<1>1. [j \in 0..SD_STACK_INIT_SIZE-1 |-> Nothing] \in [0..SD_STACK_INIT_SIZE-1 -> Slot]
  BY DEF Slot
<1>2. [j \in 0..SD_STACK_INIT_SIZE-1 |-> Nothing] \in Arrays
  BY <1>1, SizesAssumption DEF Arrays
<1> QED
  BY <1>1, <1>2, SizesAssumption DEF sd_stack_new, StackSound, Stacks

(* An array of another size that still holds the elements, from the first   *)
(* size up to the maximum. *)
LEMMA ResizedSound ==
  ASSUME NEW s, StackSound(s), NEW n \in Nat, s.sp <= n, n <= s.max, SD_STACK_INIT_SIZE <= n
  PROVE  /\ StackSound(Resized(s, n)) /\ SameBelow(Resized(s, n), s, s.sp)
         /\ Resized(s, n).size = n
         /\ Resized(s, n).sp = s.sp /\ Resized(s, n).max = s.max
<1> DEFINE a == [j \in 0..n-1 |-> IF j < s.size THEN s.array[j] ELSE Nothing]
<1>1. a \in [0..n-1 -> Slot]
  <2>1. ASSUME NEW j \in 0..n-1 PROVE (IF j < s.size THEN s.array[j] ELSE Nothing) \in Slot
    BY DEF StackSound, Stacks, Slot
  <2> QED
    BY <2>1
<1>2. a \in Arrays
  BY <1>1 DEF Arrays
<1>3. Resized(s, n) = [s EXCEPT !.size = n, !.array = a]
  BY DEF Resized
<1>4. /\ Resized(s, n) \in Stacks /\ Resized(s, n).array = a
      /\ Resized(s, n).size = n /\ Resized(s, n).sp = s.sp /\ Resized(s, n).max = s.max
  BY <1>2, <1>3 DEF StackSound, Stacks
<1>5. \A j \in 0..s.sp-1 : a[j] = s.array[j]
  BY DEF StackSound, Stacks
<1> HIDE DEF a
<1> QED
  BY <1>1, <1>4, <1>5 DEF StackSound, SameBelow

(* What the fields of a stack are, and how large the grown one is. *)
LEMMA StackFields ==
  ASSUME NEW s, StackSound(s)
  PROVE  /\ s.sp \in Nat /\ s.size \in Nat /\ s.max \in Nat /\ s.sp <= s.size
         /\ s.size <= s.max \/ s.size = SD_STACK_INIT_SIZE
         /\ SD_STACK_INIT_SIZE <= s.size /\ SD_STACK_INIT_SIZE \in Nat \ {0}
         /\ Grown(s).size = IF s.sp < s.size THEN s.size
                            ELSE IF s.size * 2 > s.max THEN s.max ELSE s.size * 2
<1>1. ASSUME NEW n \in Nat PROVE Resized(s, n).size = n
  BY DEF Resized, StackSound, Stacks
<1>2. /\ s.sp \in Nat /\ s.size \in Nat /\ s.max \in Nat /\ s.sp <= s.size
      /\ s.size <= s.max \/ s.size = SD_STACK_INIT_SIZE
      /\ SD_STACK_INIT_SIZE <= s.size /\ SD_STACK_INIT_SIZE \in Nat \ {0}
  BY SizesAssumption DEF StackSound, Stacks
<1>3. s.size * 2 \in Nat
  BY <1>2
<1> QED
  BY <1>1, <1>2, <1>3 DEF Grown

(* The assertion of push fails only where the array was larger than the     *)
(* maximum from the beginning, and is full.                                 *)
LEMMA AbortsOverfull ==
  ASSUME NEW s, StackSound(s), ~ Full(s), ~ Asserted(s)
  PROVE  Overfull(s)
BY StackFields DEF Overfull, Asserted, Full

(* Where it holds, there is room up to the maximum or the first size.       *)
LEMMA AssertedBelow ==
  ASSUME NEW s, StackSound(s), ~ Full(s), Asserted(s)
  PROVE  s.sp < IF s.max < SD_STACK_INIT_SIZE THEN SD_STACK_INIT_SIZE ELSE s.max
BY StackFields DEF Asserted, Full

LEMMA GrownSound ==
  ASSUME NEW s, StackSound(s), ~ Full(s), Asserted(s)
  PROVE  /\ StackSound(Grown(s)) /\ SameBelow(Grown(s), s, s.sp)
         /\ Grown(s).sp = s.sp /\ Grown(s).sp < Grown(s).size /\ Grown(s).max = s.max
<1>0. s.sp \in Nat /\ s.size \in Nat /\ s.max \in Nat /\ s.sp <= s.size
      /\ SD_STACK_INIT_SIZE <= s.size /\ SD_STACK_INIT_SIZE \in Nat \ {0}
  BY StackFields
<1>1. CASE s.sp < s.size
  BY <1>1 DEF Grown, SameBelow
<1>2. CASE ~ s.sp < s.size /\ s.size * 2 > s.max
  <2>1. Grown(s) = Resized(s, s.max) /\ s.sp < s.max /\ SD_STACK_INIT_SIZE <= s.max
    <3>1. Grown(s) = Resized(s, s.max)
      BY <1>2 DEF Grown
    <3>2. ~ Overfull(s)
      BY <1>0, <1>2, StackFields DEF Asserted, Overfull
    <3>3. s.sp < s.max /\ SD_STACK_INIT_SIZE <= s.max
      BY <1>0, <1>2, <3>2, StackFields DEF Overfull, Full
    <3> QED
      BY <3>1, <3>3
  <2> QED
    BY <1>0, <2>1, ResizedSound
<1>3. CASE ~ s.sp < s.size /\ ~ s.size * 2 > s.max
  <2>1. Grown(s) = Resized(s, s.size * 2) /\ s.sp < s.size * 2
    BY <1>0, <1>3 DEF Grown
  <2>2. s.size * 2 \in Nat /\ s.size * 2 <= s.max /\ SD_STACK_INIT_SIZE <= s.size * 2
    BY <1>0, <1>3
  <2> QED
    BY <1>0, <2>1, <2>2, ResizedSound
<1> QED
  BY <1>1, <1>2, <1>3

LEMMA ShrunkSound ==
  ASSUME NEW s, StackSound(s)
  PROVE  /\ StackSound(Shrunk(s)) /\ SameBelow(Shrunk(s), s, s.sp)
         /\ Shrunk(s).sp = s.sp /\ Shrunk(s).max = s.max
<1>0. /\ s.sp \in Nat /\ s.size \in Nat /\ s.max \in Nat /\ s.sp <= s.size
      /\ s.size <= s.max \/ s.size = SD_STACK_INIT_SIZE
      /\ SD_STACK_INIT_SIZE \in Nat \ {0}
  BY StackFields
<1>1. CASE s.size >= SD_STACK_INIT_SIZE * 4 /\ s.sp < s.size \div 4
  <2> DEFINE n == s.size \div 2
  <2>1. n \in Nat /\ s.sp <= n /\ n <= s.max /\ SD_STACK_INIT_SIZE <= n
    BY <1>0, <1>1
  <2>2. Shrunk(s) = Resized(s, n)
    BY <1>1 DEF Shrunk
  <2> HIDE DEF n
  <2> QED
    BY <2>1, <2>2, ResizedSound
<1>2. CASE ~ (s.size >= SD_STACK_INIT_SIZE * 4 /\ s.sp < s.size \div 4)
  BY <1>2 DEF Shrunk, SameBelow
<1> QED
  BY <1>1, <1>2

LEMMA PushSound ==
  ASSUME NEW s, StackSound(s), ~ Full(s), Asserted(s), NEW d \in Item
  PROVE  /\ StackSound(Push(s, d)) /\ SameBelow(Push(s, d), s, s.sp)
         /\ Push(s, d).sp = s.sp + 1 /\ Push(s, d).array[s.sp] = <<d>> /\ Push(s, d).max = s.max
<1> DEFINE g == Grown(s)
           a == [g.array EXCEPT ![g.sp] = <<d>>]
<1>1. /\ StackSound(g) /\ SameBelow(g, s, s.sp) /\ g.sp = s.sp /\ g.sp < g.size /\ g.max = s.max
  BY GrownSound
<1>2. /\ g \in Stacks /\ g.sp \in Nat /\ g.size \in Nat /\ g.array \in [0..g.size-1 -> Slot]
  BY <1>1 DEF StackSound, Stacks
<1>3. <<d>> \in Slot /\ <<d>> # Nothing
  BY DEF Slot, Nothing
<1>4. a \in [0..g.size-1 -> Slot] /\ a \in Arrays
  BY <1>2, <1>3 DEF Arrays
<1>5. a[g.sp] = <<d>> /\ \A j \in 0..g.sp-1 : a[j] = g.array[j]
  BY <1>1, <1>2
<1>6. Push(s, d) = [max |-> g.max, sp |-> g.sp + 1, size |-> g.size, iter |-> g.iter, array |-> a]
  <2>1. Push(s, d) = [g EXCEPT !.array = a, !.sp = g.sp + 1]
    BY <1>2 DEF Push, Stacks
  <2> HIDE DEF a, g
  <2>2. g = [max |-> g.max, sp |-> g.sp, size |-> g.size, iter |-> g.iter, array |-> g.array]
    BY <1>2 DEF Stacks
  <2> QED
    BY <2>1, <2>2
<1> HIDE DEF a, g
<1>7. /\ Push(s, d) \in Stacks /\ Push(s, d).array = a /\ Push(s, d).sp = g.sp + 1
      /\ Push(s, d).size = g.size /\ Push(s, d).max = g.max
  BY <1>2, <1>4, <1>6 DEF Stacks
<1>8. \A j \in 0..g.sp : a[j] # Nothing
  <2> SUFFICES ASSUME NEW j \in 0..g.sp PROVE a[j] # Nothing
    OBVIOUS
  <2>1. CASE j = g.sp
    BY <2>1, <1>3, <1>5
  <2>2. CASE j # g.sp
    <3>1. j \in 0..g.sp-1 /\ a[j] = g.array[j]
      BY <2>2, <1>2, <1>5
    <3>2. \A i \in 0..g.sp-1 : g.array[i] # Nothing
      BY <1>1 DEF StackSound
    <3> QED
      BY <3>1, <3>2
  <2> QED
    BY <2>1, <2>2
<1>9. StackSound(Push(s, d))
  <2>1. /\ g.sp + 1 \in Nat /\ g.sp + 1 <= g.size /\ SD_STACK_INIT_SIZE <= g.size
        /\ g.size <= g.max \/ g.size = SD_STACK_INIT_SIZE
    BY <1>1, <1>2, SizesAssumption DEF StackSound
  <2>2. \A j \in 0..(g.sp + 1)-1 : a[j] # Nothing
    BY <1>2, <1>8
  <2> QED
    BY <2>1, <2>2, <1>4, <1>7 DEF StackSound
<1>10. SameBelow(Push(s, d), s, s.sp)
  BY <1>1, <1>5, <1>7 DEF SameBelow
<1> QED
  BY <1>1, <1>5, <1>7, <1>9, <1>10

LEMMA PopSound ==
  ASSUME NEW s, StackSound(s), s.sp # 0
  PROVE  /\ StackSound(Pop(s)) /\ SameBelow(Pop(s), s, s.sp - 1)
         /\ Pop(s).sp = s.sp - 1 /\ Popped(s) = s.array[s.sp - 1] /\ Pop(s).max = s.max
         /\ Popped(s) \in Slot /\ Popped(s) # Nothing
<1> DEFINE t == Shrunk(s)
<1>1. StackSound(t) /\ SameBelow(t, s, s.sp) /\ t.sp = s.sp /\ t.max = s.max
  BY ShrunkSound
<1>2. s.sp \in Nat /\ s.sp - 1 \in Nat /\ s.sp - 1 \in 0..s.sp-1 /\ s.sp - 1 \in 0..s.size-1
  BY DEF StackSound, Stacks
<1>3. Pop(s) = [t EXCEPT !.sp = s.sp - 1]
  BY <1>1 DEF Pop, StackSound, Stacks
<1>4. Popped(s) = s.array[s.sp - 1]
  BY <1>1, <1>2 DEF Popped, SameBelow
<1>5. Popped(s) \in Slot /\ Popped(s) # Nothing
  BY <1>2, <1>4 DEF StackSound
<1> HIDE DEF t
<1>6. /\ Pop(s) \in Stacks /\ Pop(s).sp = s.sp - 1 /\ Pop(s).max = s.max
      /\ Pop(s).size = t.size /\ Pop(s).array = t.array
  BY <1>1, <1>2, <1>3 DEF StackSound, Stacks
<1>7. StackSound(Pop(s))
  <2>1. /\ s.sp - 1 <= t.size /\ SD_STACK_INIT_SIZE <= t.size /\ t.size \in Nat
        /\ t.size <= t.max \/ t.size = SD_STACK_INIT_SIZE
    BY <1>1, <1>2, SizesAssumption DEF StackSound, Stacks
  <2>2. \A j \in 0..(s.sp - 1)-1 : t.array[j] # Nothing
    BY <1>1, <1>2 DEF StackSound
  <2>3. t.array \in [0..t.size-1 -> Slot]
    BY <1>1 DEF StackSound
  <2> QED
    BY <1>1, <1>6, <2>1, <2>2, <2>3 DEF StackSound
<1>8. SameBelow(Pop(s), s, s.sp - 1)
  BY <1>1, <1>2, <1>6 DEF SameBelow
<1> QED
  BY <1>4, <1>5, <1>6, <1>7, <1>8
-----------------------------------------------------------------------------
LEMMA StackStarts == StackInit => StackInv
<1> SUFFICES ASSUME StackInit PROVE StackInv
  OBVIOUS
<1>1. PICK max \in Maxima : stack = sd_stack_new(max)
  BY DEF StackInit
<1>2. returned \in Results /\ Running
  BY DEF StackInit, Result, Results, Slot, Running
<1> QED
  BY <1>1, <1>2, NewSound DEF StackInv

\* What every call but an aborted one leaves.
LEMMA Returns ==
  ASSUME StackSound(stack'), returned' \in Results, returned'.by # "abort"
  PROVE  StackInv'
BY DEF StackInv, Running

LEMMA StackStepSound == StackInv /\ [StackNext]_svars => StackInv'
<1> SUFFICES ASSUME StackInv, [StackNext]_svars PROVE StackInv'
  OBVIOUS
<1>0. StackSound(stack) /\ returned \in Results /\ Nothing \in Slot
  BY DEF StackInv, Slot
<1>1. CASE DoPush
  <2>1. PICK d \in Item :
          \/ Full(stack) /\ returned' = Result("push", -1, Nothing) /\ UNCHANGED stack
          \/ /\ ~Full(stack) /\ Asserted(stack)
             /\ stack' = Push(stack, d) /\ returned' = Result("push", 0, Nothing)
    BY <1>1 DEF DoPush
  <2>2. returned' \in Results /\ returned'.by # "abort"
    BY <1>0, <2>1 DEF Result, Results
  <2>3. StackSound(stack')
    BY <1>0, <2>1, PushSound
  <2> QED
    BY <2>2, <2>3, Returns
<1>2. CASE DoPop
  <2>1. StackSound(stack') /\ returned' \in Results /\ returned'.by # "abort"
    <3>1. CASE stack.sp = 0
      BY <1>0, <1>2, <3>1 DEF DoPop, Pop, Popped, Result, Results
    <3>2. CASE stack.sp # 0
      <4>1. StackSound(Pop(stack)) /\ Popped(stack) \in Slot
        BY <1>0, <3>2, PopSound
      <4> QED
        BY <1>2, <3>2, <4>1 DEF DoPop, Result, Results
    <3> QED
      BY <3>1, <3>2
  <2> QED
    BY <2>1, Returns
<1>3. CASE DoPeek
  <2>1. Peek(stack) \in Slot
    <3>1. /\ stack.sp \in Nat /\ stack.size \in Nat /\ stack.sp <= stack.size
          /\ stack.array \in [0..stack.size-1 -> Slot]
      BY <1>0 DEF StackSound, Stacks
    <3>2. stack.sp # 0 => stack.sp - 1 \in 0..stack.size-1
      BY <3>1
    <3>3. stack.sp # 0 => stack.array[stack.sp - 1] \in Slot
      BY <3>1, <3>2
    <3> QED
      BY <1>0, <3>3 DEF Peek
  <2>2. StackSound(stack') /\ returned' \in Results /\ returned'.by # "abort"
    BY <1>0, <1>3, <2>1 DEF DoPeek, Result, Results
  <2> QED
    BY <2>2, Returns
<1>4. CASE DoClear
  <2>1. PICK b \in BOOLEAN : stack' = [stack EXCEPT !.sp = IF b THEN 0 ELSE @]
    BY <1>4 DEF DoClear
  <2>2. StackSound(stack')
    BY <1>0, <2>1 DEF StackSound, Stacks
  <2>3. returned' \in Results /\ returned'.by # "abort"
    BY <1>0, <1>4 DEF DoClear, Result, Results
  <2> QED
    BY <2>2, <2>3, Returns
<1>5. CASE DoBegin
  <2>1. StackSound(stack')
    BY <1>0, <1>5 DEF DoBegin, StackSound, Stacks
  <2>2. stack.array[0] \in Slot
    BY <1>0, SizesAssumption DEF StackSound, Stacks
  <2>3. returned' \in Results /\ returned'.by # "abort"
    BY <1>5, <2>2 DEF DoBegin, Result, Results
  <2> QED
    BY <2>1, <2>3, Returns
<1>6. CASE DoNext
  <2>1. CASE stack.iter < stack.sp
    <3>1. StackSound(stack')
      BY <1>0, <1>6, <2>1 DEF DoNext, StackSound, Stacks
    <3>2. stack.array[stack.iter] \in Slot
      BY <1>0, <2>1 DEF StackSound, Stacks
    <3>3. returned' \in Results /\ returned'.by # "abort"
      BY <1>6, <2>1, <3>2 DEF DoNext, Result, Results
    <3> QED
      BY <3>1, <3>3, Returns
  <2>2. CASE ~ stack.iter < stack.sp
    <3>1. StackSound(stack') /\ returned' \in Results /\ returned'.by # "abort"
      BY <1>0, <1>6, <2>2 DEF DoNext, Result, Results
    <3> QED
      BY <3>1, Returns
  <2> QED
    BY <2>1, <2>2
<1>7. CASE PushAborts
  <2>1. stack' = stack /\ returned' \in Results /\ Overfull(stack)
    BY <1>0, <1>7, AbortsOverfull DEF PushAborts, Result, Results
  <2> QED
    BY <1>0, <2>1 DEF StackInv
<1>8. CASE UNCHANGED svars
  BY <1>8 DEF svars, StackInv, Running
<1> QED
  BY <1>1, <1>2, <1>3, <1>4, <1>5, <1>6, <1>7, <1>8 DEF StackNext

(* The bounds of the array and what lies in it are an inductive invariant.  *)
LEMMA StackInductive == StackSpec => []StackInv
BY StackStarts, StackStepSound, PTL DEF StackSpec

(* The stack and what a call returns keep their types.                      *)
LEMMA StackTypeCorrect == StackSpec => []StackTypes
<1>1. StackInv => StackTypes
  BY DEF StackInv, StackSound, Stacks, Results, StackTypes
<1> QED
  BY <1>1, StackInductive, PTL

(* The elements lie in the array for every first size and every maximum,    *)
(* and the assertion of push fails only where the first size is the larger. *)
LEMMA StackBounds == StackSpec => []StackInBounds
<1>1. StackInv => StackInBounds
  BY DEF StackInv, StackSound, Stacks, StackInBounds, Overfull
<1> QED
  BY <1>1, StackInductive, PTL
-----------------------------------------------------------------------------
(* Refinement: what is below sp is a sequence.                              *)
Items(s) == [j \in 1..s.sp |-> s.array[j-1][1]]

LEMMA SlotItem ==
  ASSUME NEW x \in Slot, x # Nothing PROVE x[1] \in Item /\ x = <<x[1]>>
BY DEF Slot

LEMMA ItemsSeq ==
  ASSUME NEW s, StackSound(s)
  PROVE  /\ Items(s) \in Seq(Item) /\ Len(Items(s)) = s.sp
         /\ \A j \in 1..s.sp : s.array[j-1] = <<Items(s)[j]>>
<1>1. s.sp \in Nat
  BY DEF StackSound, Stacks
<1>2. ASSUME NEW j \in 1..s.sp
      PROVE  s.array[j-1] \in Slot /\ s.array[j-1] # Nothing
  <2>1. s.size \in Nat /\ s.sp <= s.size
    BY DEF StackSound, Stacks
  <2>2. j - 1 \in 0..s.sp-1 /\ j - 1 \in 0..s.size-1
    BY <1>1, <2>1
  <2>3. s.array \in [0..s.size-1 -> Slot] /\ \A i \in 0..s.sp-1 : s.array[i] # Nothing
    BY DEF StackSound
  <2> QED
    BY <2>2, <2>3
<1>3. \A j \in 1..s.sp : s.array[j-1][1] \in Item /\ s.array[j-1] = <<s.array[j-1][1]>>
  BY <1>2, SlotItem
<1>4. Items(s) \in [1..s.sp -> Item]
  BY <1>3 DEF Items
<1> QED
  BY <1>1, <1>3, <1>4 DEF Items

LEMMA ItemsPush ==
  ASSUME NEW s, StackSound(s), NEW t, StackSound(t), NEW d \in Item,
         SameBelow(t, s, s.sp), t.sp = s.sp + 1, t.array[s.sp] = <<d>>
  PROVE  Items(t) = Append(Items(s), d)
<1>1. /\ s.sp \in Nat /\ Items(s) \in Seq(Item) /\ Len(Items(s)) = s.sp
      /\ Items(t) \in Seq(Item) /\ Len(Items(t)) = s.sp + 1
  BY ItemsSeq DEF StackSound, Stacks
<1>2. ASSUME NEW j \in 1..s.sp+1 PROVE Items(t)[j] = Append(Items(s), d)[j]
  <2>1. CASE j = s.sp + 1
    BY <1>1, <2>1 DEF Items
  <2>2. CASE j # s.sp + 1
    <3>1. j \in 1..s.sp /\ j - 1 \in 0..s.sp-1
      BY <1>1, <2>2
    <3>2. t.array[j-1] = s.array[j-1]
      BY <3>1 DEF SameBelow
    <3>3. Items(t)[j] = t.array[j-1][1] /\ Items(s)[j] = s.array[j-1][1]
      BY <1>1, <3>1 DEF Items
    <3> QED
      BY <1>1, <3>1, <3>2, <3>3
  <2> QED
    BY <2>1, <2>2
<1> HIDE DEF Items
<1>3. Append(Items(s), d) \in Seq(Item) /\ Len(Append(Items(s), d)) = s.sp + 1
  BY <1>1
<1> QED
  BY <1>1, <1>2, <1>3

LEMMA ItemsPop ==
  ASSUME NEW s, StackSound(s), NEW t, StackSound(t), s.sp # 0,
         SameBelow(t, s, s.sp - 1), t.sp = s.sp - 1
  PROVE  Items(t) = SubSeq(Items(s), 1, Len(Items(s)) - 1)
<1>1. /\ s.sp \in Nat /\ s.sp - 1 \in Nat /\ Items(s) \in Seq(Item) /\ Len(Items(s)) = s.sp
      /\ Items(t) \in Seq(Item) /\ Len(Items(t)) = s.sp - 1
  BY ItemsSeq DEF StackSound, Stacks
<1>2. ASSUME NEW j \in 1..s.sp-1 PROVE Items(t)[j] = Items(s)[j]
  BY <1>1 DEF Items, SameBelow
<1> HIDE DEF Items
<1>3. /\ SubSeq(Items(s), 1, s.sp - 1) \in Seq(Item)
      /\ Len(SubSeq(Items(s), 1, s.sp - 1)) = s.sp - 1
      /\ \A j \in 1..s.sp-1 : SubSeq(Items(s), 1, s.sp - 1)[j] = Items(s)[j]
  BY <1>1
<1> DEFINE a == Items(t)
           b == SubSeq(Items(s), 1, s.sp - 1)
           l == s.sp - 1
<1>4. /\ l \in Nat /\ a \in Seq(Item) /\ b \in Seq(Item) /\ Len(a) = l /\ Len(b) = l
      /\ \A j \in 1..l : a[j] = b[j]
  BY <1>1, <1>2, <1>3
<1>5. b = SubSeq(Items(s), 1, Len(Items(s)) - 1)
  BY <1>1
<1> HIDE DEF a, b, l
<1>6. a = b
  BY <1>4
<1> QED
  BY <1>5, <1>6 DEF a

LEMMA LifoInit == StackInit => Lf!Init
<1> SUFFICES ASSUME StackInit PROVE Lf!Init
  OBVIOUS
<1>1. PICK max \in Maxima : stack = sd_stack_new(max)
  BY DEF StackInit
<1>2. StackSound(stack) /\ stack.sp = 0
  BY <1>1, NewSound
<1>3. Items(stack) = << >>
  BY <1>2, ItemsSeq
<1> QED
  BY <1>2, <1>3, SizesAssumption
     DEF Lf!Init, StackInit, Result, Nothing, Items, StackSound, Stacks, StackLimit, StackGot, Running

(* The last item, if there is any, is the slot below sp.                    *)
LEMMA TopIs ==
  ASSUME NEW s, StackSound(s), s.sp # 0
  PROVE  Items(s) # << >> /\ <<Items(s)[Len(Items(s))]>> = s.array[s.sp - 1]
<1>1. s.sp \in Nat /\ s.sp \in 1..s.sp
  BY DEF StackSound, Stacks
<1> QED
  BY <1>1, ItemsSeq

LEMMA ItemsKept ==
  ASSUME NEW s, NEW t, s.sp = t.sp, s.array = t.array PROVE Items(s) = Items(t)
BY DEF Items

(* A step of the stack is the step of the same name of the sequence, up to  *)
(* the maximum or the first size; a push that aborts is one that is refused. *)
LEMMA LifoStep ==
  StackInv /\ [StackNext]_svars => [Lf!Next]_<<Items(stack), StackLimit, StackGot>>
<1> SUFFICES ASSUME StackInv, [StackNext]_svars
             PROVE  [Lf!Next]_<<Items(stack), StackLimit, StackGot>>
  OBVIOUS
<1> USE DEF Result
<1>0. /\ StackSound(stack) /\ Len(Items(stack)) = stack.sp
      /\ (stack.sp = 0 <=> Items(stack) = << >>)
      /\ stack.sp \in Nat /\ stack.max \in Nat /\ SD_STACK_INIT_SIZE \in Nat \ {0}
  <2>1. StackSound(stack)
    BY DEF StackInv
  <2>2. Items(stack) \in Seq(Item) /\ Len(Items(stack)) = stack.sp
    BY <2>1, ItemsSeq
  <2> QED
    BY <2>1, <2>2, StackFields
<1>00. /\ returned'.by # "abort" => StackGot' = returned'
       /\ stack'.max = stack.max => StackLimit' = StackLimit
  BY DEF StackGot, StackLimit, Running
<1> DEFINE LPush  == Lf!Push /\ UNCHANGED StackLimit
           LPop   == Lf!Pop /\ UNCHANGED StackLimit
           LPeek  == Lf!Peek /\ UNCHANGED StackLimit
           LClear == Lf!Clear /\ UNCHANGED StackLimit
           LLook  == Lf!Look /\ UNCHANGED StackLimit
<1>1. CASE DoPush
  <2>1. PICK d \in Item :
          \/ Full(stack) /\ returned' = Result("push", -1, Nothing) /\ UNCHANGED stack
          \/ /\ ~Full(stack) /\ Asserted(stack)
             /\ stack' = Push(stack, d) /\ returned' = Result("push", 0, Nothing)
    BY <1>1 DEF DoPush
  <2>2. CASE Full(stack)
    <3>1. returned'.by = "push" /\ returned'.rc = -1 /\ stack' = stack
      BY <2>1, <2>2
    <3>2. Items(stack') = Items(stack)
      BY <3>1
    <3>3. stack.sp = StackLimit
      BY <1>0, <2>2, StackFields DEF Full, StackLimit
    <3>4. LPush
      BY <1>0, <1>00, <3>1, <3>2, <3>3 DEF Lf!Push, Items
    <3> QED
      BY <3>4 DEF Lf!Next
  <2>3. CASE ~ Full(stack)
    <3>1. stack' = Push(stack, d) /\ returned'.by = "push" /\ returned'.rc = 0 /\ Asserted(stack)
      BY <2>1, <2>3
    <3>2. stack.sp < StackLimit
      BY <1>0, <2>3, <3>1, AssertedBelow DEF StackLimit
    <3>3. Items(stack') = Append(Items(stack), d) /\ stack'.max = stack.max
      BY <1>0, <2>3, <3>1, PushSound, ItemsPush
    <3>4. LPush
      BY <1>0, <1>00, <3>1, <3>2, <3>3 DEF Lf!Push, Items
    <3> QED
      BY <3>4 DEF Lf!Next
  <2> QED
    BY <2>2, <2>3
<1>7. CASE PushAborts
  <2>1. stack' = stack /\ returned'.by = "abort" /\ Overfull(stack)
    BY <1>0, <1>7, AbortsOverfull DEF PushAborts
  <2>2. StackGot'.by = "push" /\ StackGot'.rc = -1
    BY <2>1 DEF StackGot, Running
  <2>3. StackLimit' = StackLimit /\ ~ stack.sp < StackLimit
    BY <1>0, <1>00, <2>1 DEF StackLimit, Overfull
  <2>4. LPush
    BY <1>0, <2>1, <2>2, <2>3 DEF Lf!Push, Items
  <2> QED
    BY <2>4 DEF Lf!Next
<1>2. CASE DoPop
  <2>1. CASE stack.sp = 0
    <3>1. stack' = stack /\ returned' = [by |-> "pop", rc |-> 0, data |-> << >>]
      BY <1>2, <2>1 DEF DoPop, Pop, Nothing
    <3>2. Items(stack) = << >> /\ Items(stack') = << >>
      BY <1>0, <2>1, <3>1
    <3>3. LPop
      BY <1>00, <3>1, <3>2 DEF Lf!Pop, Lf!Top, Items
    <3> QED
      BY <3>3 DEF Lf!Next
  <2>2. CASE stack.sp # 0
    <3>1. stack' = Pop(stack) /\ returned' = [by |-> "pop", rc |-> 0, data |-> Popped(stack)]
      BY <1>2, <2>2 DEF DoPop
    <3>2. /\ Items(stack') = SubSeq(Items(stack), 1, Len(Items(stack)) - 1)
          /\ stack'.max = stack.max
      BY <1>0, <2>2, <3>1, PopSound, ItemsPop
    <3>3. Popped(stack) = <<Items(stack)[Len(Items(stack))]>> /\ Items(stack) # << >>
      BY <1>0, <2>2, PopSound, TopIs
    <3>4. LPop
      BY <1>00, <3>1, <3>2, <3>3 DEF Lf!Pop, Lf!Top, Items
    <3> QED
      BY <3>4 DEF Lf!Next
  <2> QED
    BY <2>1, <2>2
<1>3. CASE DoPeek
  <2>1. stack' = stack /\ returned' = [by |-> "peek", rc |-> 0, data |-> Peek(stack)]
    BY <1>3 DEF DoPeek
  <2>2. Peek(stack) = IF Items(stack) = << >> THEN << >>
                      ELSE <<Items(stack)[Len(Items(stack))]>>
    BY <1>0, TopIs DEF Peek, Nothing
  <2>3. LPeek
    BY <1>00, <2>1, <2>2 DEF Lf!Peek, Lf!Top, Items
  <2> QED
    BY <2>3 DEF Lf!Next
<1>4. CASE DoClear
  <2>1. PICK b \in BOOLEAN : stack' = [stack EXCEPT !.sp = IF b THEN 0 ELSE @]
    BY <1>4 DEF DoClear
  <2>2. stack'.max = stack.max /\ stack'.array = stack.array /\ stack'.sp \in {0, stack.sp}
    BY <1>0, <2>1 DEF StackSound, Stacks
  <2>3. Items(stack') \in {Items(stack), << >>}
    <3>1. CASE stack'.sp = stack.sp
      BY <2>2, <3>1, ItemsKept
    <3>2. CASE stack'.sp = 0
      BY <3>2 DEF Items
    <3> QED
      BY <2>2, <3>1, <3>2
  <2>4. returned'.by = "clear"
    BY <1>4 DEF DoClear
  <2>5. LClear
    BY <1>00, <2>2, <2>3, <2>4 DEF Lf!Clear, Items
  <2> QED
    BY <2>5 DEF Lf!Next
<1>5. ASSUME DoBegin \/ DoNext PROVE [Lf!Next]_<<Items(stack), StackLimit, StackGot>>
  <2>1. /\ returned'.by = "look"
        /\ stack'.max = stack.max /\ stack'.array = stack.array /\ stack'.sp = stack.sp
    BY <1>0, <1>5 DEF DoBegin, DoNext, StackSound, Stacks
  <2>2. Items(stack') = Items(stack)
    BY <2>1, ItemsKept
  <2>3. LLook
    BY <1>00, <2>1, <2>2 DEF Lf!Look, Items
  <2> QED
    BY <2>3 DEF Lf!Next
<1>6. CASE UNCHANGED svars
  BY <1>6 DEF svars, Items, StackLimit, StackGot, Running
<1> QED
  BY <1>1, <1>2, <1>3, <1>4, <1>5, <1>6, <1>7 DEF StackNext

(* For every first size, maximum and type of items the array is a stack:    *)
(* last in, first out, and full at the larger of the two only.              *)
LEMMA StackIsLifo == StackSpec => ImplementsLifo
<1>1. StackInv /\ [StackNext]_svars => [Lf!Next]_<<Items(stack), StackLimit, StackGot>>
  BY LifoStep
<1> QED
  BY LifoInit, <1>1, StackStarts, StackStepSound, PTL DEF StackSpec, ImplementsLifo, Lf!Spec, Items
-----------------------------------------------------------------------------
(* The three together: each behaves as it does by itself, whatever the      *)
(* others do.                                                               *)
LEMMA HashAlone == ContainersSpec => HashSpec
<1>1. ContainersInit => HashInit
  BY DEF ContainersInit
<1>2. [ContainersNext]_cvars => [HashNext]_hvars
  BY DEF ContainersNext, HashStep, ListStep, StackStep, cvars
<1> QED
  BY <1>1, <1>2, PTL DEF ContainersSpec, HashSpec

LEMMA ListAlone == ContainersSpec => ListSpec
<1>1. ContainersInit => ListInit
  BY DEF ContainersInit
<1>2. [ContainersNext]_cvars => [ListNext]_lvars
  BY DEF ContainersNext, HashStep, ListStep, StackStep, cvars
<1> QED
  BY <1>1, <1>2, PTL DEF ContainersSpec, ListSpec

LEMMA StackAlone == ContainersSpec => StackSpec
<1>1. ContainersInit => StackInit
  BY DEF ContainersInit
<1>2. [ContainersNext]_cvars => [StackNext]_svars
  BY DEF ContainersNext, HashStep, ListStep, StackStep, cvars
<1> QED
  BY <1>1, <1>2, PTL DEF ContainersSpec, StackSpec

(* The tables, lists and stacks, the locals of their loops and what the     *)
(* stack returns keep their types: no call leads out of the memory that is  *)
(* there, and the counts of sd_hash_iter_del and sd_list_iter_del never get *)
(* below zero.                                                              *)
THEOREM TypeCorrect == ContainersSpec => [](HashTypes /\ ListTypes /\ StackTypes)
<1>1. HashInv => HashTypes
  BY DEF HashInv, HashCarried
<1>2. ListInv => ListTypes
  BY DEF ListInv, Carried
<1> QED
  BY <1>1, <1>2, HashAlone, ListAlone, StackAlone, HashInductive, ListInductive, StackTypeCorrect, PTL

(* The chains of sd/hash.c, for any keys, with any hashes that collide or   *)
(* not, any first size of the array, and callbacks that delete and add      *)
(* while sd_hash_foreach runs: every cell in use is in its bucket, once;    *)
(* __prev undoes __next; nelem counts them; and the iterators lead through  *)
(* them all.                                                                *)
THEOREM ChainsKept == ContainersSpec => []ChainsSound
BY SoundChains, HashAlone, HashInductive, PTL

(* sd_hash_foreach, sd_list_foreach and sd_list_rforeach call back once for *)
(* each element that stays, for containers of any size, and never go on     *)
(* from a cell that has been freed.                                         *)
THEOREM LoopsComplete == ContainersSpec => []LoopsMeetAll
<1>1. HashInv /\ ListInv => LoopsMeetAll
  BY HashLoops, ListLoops DEF LoopsMeetAll
<1> QED
  BY <1>1, HashAlone, ListAlone, HashInductive, ListInductive, PTL

(* The hash table is a map to its callers: each call changes the data of    *)
(* one key at most or empties it, rehash and the deferred unlinking change  *)
(* none.                                                                    *)
THEOREM RefinesHashMap == ContainersSpec => ImplementsHashMap
BY HashAlone, HashIsMap, PTL

(* The list is a sequence of data to its callers: each call adds one datum, *)
(* takes one out or empties it.                                             *)
THEOREM RefinesDataList == ContainersSpec => ImplementsDataList
BY ListAlone, ListIsSequence, PTL

(* For every first size and every maximum: the elements lie in the array,   *)
(* and the assertion of sd_stack_push fails only where the maximum is below *)
(* the first size and the array is full.                                    *)
THEOREM StackBoundsKept == ContainersSpec => []StackInBounds
BY StackAlone, StackBounds, PTL

(* For every first size, maximum and type of items the array of sd/stack.c  *)
(* is a stack: last in, first out, and full at the maximum only.            *)
THEOREM RefinesLifo == ContainersSpec => ImplementsLifo
BY StackAlone, StackIsLifo, PTL

-----------------------------------------------------------------------------
(* The appender that threads share. *)

Opening == {"open", "typeopen", "openclose", "openfile", "opened"}
Locked  == {"rollclose", "rollfile", "write"}
Logging == {"format", "lock"} \cup Locked
Busy    == Opening \cup Logging

\* A thread is between lock and unlock exactly if it owns the mutex.
MutexInv == /\ owner \in Threads \cup {None}
            /\ \A t \in Everyone : pc[t] \in Locked <=> owner = t

\* A closed appender is being opened by the main thread, or left to the only
\* thread that logs, or finished with.
ClosedInv ==
  isopen = 0 =>
    \/ pc[Main] \in Opening /\ \A t \in Threads : pc[t] = "unborn"
    \/ pc[Main] = "running" /\ \E u \in Threads : users = {u} /\ pc[u] # "unborn"
    \/ pc[Main] = "done" /\ \A t \in Threads : pc[t] = "idle" /\ (t \in users => count[t] = MaxMsgs)

\* What the other places a thread can be in say of the appender.
PlaceInv ==
  /\ \A t \in Threads : pc[t] \notin {"running", "done"}
  /\ pc[Main] \in Opening \cup {"running", "done"}
  /\ isopen = 1 => pc[Main] = "running"
  /\ \A t \in Everyone : pc[t] \in Opening => isopen = 0
  /\ \A t \in Everyone : pc[t] \in Logging => isopen = 1
  /\ \A t \in Threads : t \notin users => pc[t] = "idle"

\* The stream is open where it is written to, and whenever nobody works on it.
StreamInv ==
  /\ isopen = 1 /\ owner = None => fp = "open"
  /\ \A t \in Everyone : pc[t] \in {"opened", "write"} => fp = "open"

IInv == TypeOK /\ MutexInv /\ ClosedInv /\ PlaceInv /\ StreamInv

-----------------------------------------------------------------------------
\* Whoever opens is alone.
LEMMA OpenerAlone ==
  ASSUME IInv, NEW s \in Everyone, NEW t \in Everyone, s # t, pc[s] \in Opening
  PROVE  pc[t] \notin Busy
<1> USE ThreadAssumption DEF IInv, ClosedInv, PlaceInv, Everyone
<1>1. isopen = 0
  OBVIOUS
<1>2. pc[t] \notin Logging
  BY <1>1
<1>3. ASSUME pc[t] \in Opening PROVE FALSE
  BY <1>1, <1>3 DEF Opening
<1> QED
  BY <1>2, <1>3 DEF Busy

LEMMA InitIInv == Init => IInv
<1> SUFFICES ASSUME Init PROVE IInv
  OBVIOUS
<1> USE ThreadAssumption, LengthAssumption DEF Init, Everyone
<1>1. TypeOK
  BY DEF TypeOK, Places
<1>2. MutexInv
  BY DEF MutexInv, Locked
<1>3. ClosedInv
  BY DEF ClosedInv, Opening
<1>4. PlaceInv
  BY DEF PlaceInv, Opening, Logging, Locked
<1>5. StreamInv
  BY DEF StreamInv
<1> QED
  BY <1>1, <1>2, <1>3, <1>4, <1>5 DEF IInv

(* A rendered line has a length. *)
LEMMA LengthNat == ASSUME TypeOK, NEW t \in Everyone PROVE Length(Rendered(t)) \in Nat
  BY LengthAssumption, ThreadAssumption
  DEF TypeOK, Length, Rendered, BufOf, NoLine, Everyone

-----------------------------------------------------------------------------
LEMMA BeginAppendIInv == ASSUME IInv, NEW t \in Threads, BeginAppend(t) PROVE IInv'
<1> USE ThreadAssumption DEF IInv, Everyone, BeginAppend, Goto
<1>1. TypeOK'
  BY LengthAssumption DEF TypeOK, Places
<1>2. MutexInv'
  BY DEF TypeOK, MutexInv, Locked
<1>3. ClosedInv'
  BY DEF TypeOK, ClosedInv, PlaceInv, Opening
<1>4. PlaceInv'
  BY DEF TypeOK, ClosedInv, PlaceInv, Opening, Logging, Locked
<1>5. StreamInv'
  BY DEF TypeOK, StreamInv
<1> QED
  BY <1>1, <1>2, <1>3, <1>4, <1>5 DEF IInv

LEMMA CheckOpenIInv == ASSUME IInv, NEW t \in Everyone, CheckOpen(t) PROVE IInv'
<1> USE ThreadAssumption DEF IInv, Everyone, CheckOpen, Goto, AfterOpen
<1>1. TypeOK'
  BY DEF TypeOK, Places
<1>2. MutexInv'
  BY DEF TypeOK, MutexInv, Locked
<1>3. ClosedInv'
  BY DEF TypeOK, ClosedInv, PlaceInv, Opening
<1>4. PlaceInv'
  BY DEF TypeOK, ClosedInv, PlaceInv, Opening, Logging, Locked
<1>5. StreamInv'
  BY DEF TypeOK, StreamInv
<1> QED
  BY <1>1, <1>2, <1>3, <1>4, <1>5 DEF IInv

LEMMA TypeOpenIInv == ASSUME IInv, NEW t \in Everyone, TypeOpen(t) PROVE IInv'
<1> USE ThreadAssumption DEF IInv, Everyone, TypeOpen, Goto
<1>a. \A s \in Everyone : s # t => pc[s] \notin Busy
  BY OpenerAlone DEF Opening
<1>1. TypeOK'
  BY DEF TypeOK, Places
<1>2. MutexInv'
  BY <1>a DEF TypeOK, MutexInv, Busy, Logging, Locked
<1>3. ClosedInv'
  BY DEF TypeOK, ClosedInv, PlaceInv, Opening
<1>4. PlaceInv'
  BY DEF TypeOK, ClosedInv, PlaceInv, Opening, Logging, Locked
<1>5. StreamInv'
  BY <1>a DEF TypeOK, PlaceInv, Opening, StreamInv
<1> QED
  BY <1>1, <1>2, <1>3, <1>4, <1>5 DEF IInv

LEMMA OpenCloseIInv == ASSUME IInv, NEW t \in Everyone, OpenClose(t) PROVE IInv'
<1> USE ThreadAssumption DEF IInv, Everyone, OpenClose, Goto, CloseFile
<1>a. \A s \in Everyone : s # t => pc[s] \notin Busy
  BY OpenerAlone DEF Opening
<1>1. TypeOK'
  BY DEF TypeOK, Places
<1>2. MutexInv'
  BY DEF TypeOK, MutexInv, Locked
<1>3. ClosedInv'
  BY DEF TypeOK, ClosedInv, PlaceInv, Opening
<1>4. PlaceInv'
  BY DEF TypeOK, ClosedInv, PlaceInv, Opening, Logging, Locked
<1>5. StreamInv'
  BY <1>a DEF TypeOK, PlaceInv, Opening, Busy, Logging, Locked, StreamInv
<1> QED
  BY <1>1, <1>2, <1>3, <1>4, <1>5 DEF IInv

LEMMA OpenFileIInv == ASSUME IInv, NEW t \in Everyone, OpenFile(t) PROVE IInv'
<1> USE ThreadAssumption DEF IInv, Everyone, OpenFile, Goto, NewFile
<1>1. TypeOK'
  BY DEF TypeOK, Places
<1>2. MutexInv'
  BY DEF TypeOK, MutexInv, Locked
<1>3. ClosedInv'
  BY DEF TypeOK, ClosedInv, PlaceInv, Opening
<1>4. PlaceInv'
  BY DEF TypeOK, ClosedInv, PlaceInv, Opening, Logging, Locked
<1>5. StreamInv'
  BY DEF TypeOK, StreamInv
<1> QED
  BY <1>1, <1>2, <1>3, <1>4, <1>5 DEF IInv

LEMMA OpenedIInv == ASSUME IInv, NEW t \in Everyone, Opened(t) PROVE IInv'
<1> USE ThreadAssumption DEF IInv, Everyone, Opened, Goto, AfterOpen
<1>1. TypeOK'
  BY DEF TypeOK, Places, PlaceInv, Opening
<1>2. MutexInv'
  BY DEF TypeOK, MutexInv, Locked
<1>3. ClosedInv'
  BY DEF TypeOK, ClosedInv, PlaceInv, Opening
<1>4. PlaceInv'
  BY DEF TypeOK, ClosedInv, PlaceInv, Opening, Logging, Locked
<1>5. StreamInv'
  BY DEF TypeOK, StreamInv
<1> QED
  BY <1>1, <1>2, <1>3, <1>4, <1>5 DEF IInv

LEMMA FormatIInv == ASSUME IInv, NEW t \in Threads, Format(t) PROVE IInv'
<1> USE ThreadAssumption DEF IInv, Everyone, Format, Goto
<1>1. TypeOK'
  <2>1. BufOf(t) \in Everyone /\ Line(t, count[t]) \in [by : Threads, no : Nat]
    BY DEF BufOf, Line, TypeOK
  <2> QED
    BY <2>1 DEF TypeOK, Places
<1>2. MutexInv'
  BY DEF TypeOK, MutexInv, Locked
<1>3. ClosedInv'
  BY DEF TypeOK, ClosedInv, PlaceInv, Opening
<1>4. PlaceInv'
  BY DEF TypeOK, ClosedInv, PlaceInv, Opening, Logging, Locked
<1>5. StreamInv'
  BY DEF TypeOK, StreamInv
<1> QED
  BY <1>1, <1>2, <1>3, <1>4, <1>5 DEF IInv

LEMMA LockIInv == ASSUME IInv, NEW t \in Threads, Lock(t) PROVE IInv'
<1> USE ThreadAssumption DEF IInv, Everyone, Lock, Goto
<1>1. TypeOK'
  BY DEF TypeOK, Places
<1>2. MutexInv'
  BY DEF TypeOK, MutexInv, Locked
<1>3. ClosedInv'
  BY DEF TypeOK, ClosedInv, PlaceInv, Opening
<1>4. PlaceInv'
  BY DEF TypeOK, ClosedInv, PlaceInv, Opening, Logging, Locked
<1>5. StreamInv'
  BY DEF TypeOK, PlaceInv, Logging, StreamInv
<1> QED
  BY <1>1, <1>2, <1>3, <1>4, <1>5 DEF IInv

LEMMA RollCloseIInv == ASSUME IInv, NEW t \in Threads, RollClose(t) PROVE IInv'
<1> USE ThreadAssumption DEF IInv, Everyone, RollClose, Goto, CloseFile
<1>1. TypeOK'
  BY DEF TypeOK, Places
<1>2. MutexInv'
  BY DEF TypeOK, MutexInv, Locked
<1>3. ClosedInv'
  BY DEF TypeOK, ClosedInv, PlaceInv, Opening
<1>4. PlaceInv'
  BY DEF TypeOK, ClosedInv, PlaceInv, Opening, Logging, Locked
<1>5. StreamInv'
  BY DEF TypeOK, PlaceInv, MutexInv, Opening, Logging, Locked, StreamInv
<1> QED
  BY <1>1, <1>2, <1>3, <1>4, <1>5 DEF IInv

LEMMA RollFileIInv == ASSUME IInv, NEW t \in Threads, RollFile(t) PROVE IInv'
<1> USE ThreadAssumption DEF IInv, Everyone, RollFile, Goto, NewFile
<1>1. TypeOK'
  BY DEF TypeOK, Places
<1>2. MutexInv'
  BY DEF TypeOK, MutexInv, Locked
<1>3. ClosedInv'
  BY DEF TypeOK, ClosedInv, PlaceInv, Opening
<1>4. PlaceInv'
  BY DEF TypeOK, ClosedInv, PlaceInv, Opening, Logging, Locked
<1>5. StreamInv'
  BY DEF TypeOK, StreamInv
<1> QED
  BY <1>1, <1>2, <1>3, <1>4, <1>5 DEF IInv

LEMMA WriteIInv == ASSUME IInv, NEW t \in Threads, Write(t) PROVE IInv'
<1> USE ThreadAssumption DEF IInv, Everyone, Write, Goto
<1>1. TypeOK'
  BY LengthNat DEF TypeOK, Places
<1>2. MutexInv'
  BY DEF TypeOK, MutexInv, Locked
<1>3. ClosedInv'
  BY DEF TypeOK, ClosedInv, PlaceInv, Opening
<1>4. PlaceInv'
  BY DEF TypeOK, ClosedInv, PlaceInv, Opening, Logging, Locked
<1>5. StreamInv'
  BY DEF TypeOK, StreamInv
<1> QED
  BY <1>1, <1>2, <1>3, <1>4, <1>5 DEF IInv

LEMMA StartIInv == ASSUME IInv, Start PROVE IInv'
<1> USE ThreadAssumption DEF IInv, Everyone, Start
<1>1. TypeOK'
  BY DEF TypeOK, Places
<1>2. MutexInv'
  BY DEF TypeOK, MutexInv, Locked
<1>3. ClosedInv'
  BY DEF TypeOK, ClosedInv, PlaceInv, Opening
<1>4. PlaceInv'
  BY DEF TypeOK, ClosedInv, PlaceInv, Opening, Logging, Locked
<1>5. StreamInv'
  BY DEF TypeOK, StreamInv
<1> QED
  BY <1>1, <1>2, <1>3, <1>4, <1>5 DEF IInv

LEMMA CloseIInv == ASSUME IInv, Close PROVE IInv'
<1> USE ThreadAssumption DEF IInv, Everyone, Close, Goto, ThreadsJoined
<1>a. \A t \in Threads : pc[t] = "idle"
  BY DEF PlaceInv
<1>1. TypeOK'
  BY DEF TypeOK, Places
<1>2. MutexInv'
  BY DEF TypeOK, MutexInv, Locked
<1>3. ClosedInv'
  BY DEF TypeOK, ClosedInv, PlaceInv, Opening
<1>4. PlaceInv'
  BY <1>a DEF TypeOK, PlaceInv, Opening, Logging, Locked
<1>5. StreamInv'
  BY <1>a DEF TypeOK, PlaceInv, StreamInv
<1> QED
  BY <1>1, <1>2, <1>3, <1>4, <1>5 DEF IInv

-----------------------------------------------------------------------------
(* Every step keeps the invariant. *)
THEOREM Inductive == IInv /\ [Next]_vars => IInv'
<1> SUFFICES ASSUME IInv, [Next]_vars PROVE IInv'
  OBVIOUS
<1>1. CASE \E t \in Everyone : OpenStep(t)
  BY <1>1, CheckOpenIInv, TypeOpenIInv, OpenCloseIInv, OpenFileIInv, OpenedIInv DEF OpenStep
<1>2. CASE \E t \in Threads : LogStep(t)
  BY <1>2, BeginAppendIInv, FormatIInv, LockIInv, RollCloseIInv, RollFileIInv, WriteIInv
  DEF LogStep
<1>3. CASE Start
  BY <1>3, StartIInv
<1>4. CASE Close
  BY <1>4, CloseIInv
<1>5. CASE UNCHANGED vars
  BY <1>5 DEF vars, IInv, TypeOK, MutexInv, ClosedInv, PlaceInv, StreamInv
<1> QED
  BY <1>1, <1>2, <1>3, <1>4, <1>5 DEF Next

LEMMA Invariant == Spec => []IInv
  BY InitIInv, Inductive, PTL DEF Spec

(* The state keeps its types. *)
THEOREM AppenderTypeCorrect == Spec => []TypeOK
<1>1. IInv => TypeOK
  BY DEF IInv
<1> QED
  BY <1>1, Invariant, PTL

(* No two threads are ever at the stream together, the unlocked opening     *)
(* included.                                                                *)
THEOREM Exclusion == Spec => []OneInside
<1>1. IInv => OneInside
  <2> SUFFICES ASSUME IInv, NEW s \in Everyone, NEW t \in Everyone, s # t,
                      pc[s] \in Critical, pc[t] \in Critical
               PROVE  FALSE
    BY DEF OneInside
  <2>1. CASE pc[s] \in Opening
    BY <2>1, OpenerAlone DEF Critical, Busy, Opening, Logging, Locked
  <2>2. CASE pc[t] \in Opening
    BY <2>2, OpenerAlone DEF Critical, Busy, Opening, Logging, Locked
  <2>3. CASE pc[s] \in Locked /\ pc[t] \in Locked
    BY <2>3 DEF IInv, MutexInv
  <2> QED
    BY <2>1, <2>2, <2>3 DEF Critical, Opening, Locked
<1> QED
  BY <1>1, Invariant, PTL

(* Nobody writes to a stream that is not open, or before the opening is     *)
(* complete.                                                                *)
THEOREM WritesReachFile == Spec => []WriteToOpenFile
<1>1. IInv => WriteToOpenFile
  BY DEF IInv, StreamInv, PlaceInv, WriteToOpenFile, Everyone, Logging, Locked
<1> QED
  BY <1>1, Invariant, PTL

-----------------------------------------------------------------------------
(* Where lines are, of any files.                                           *)
PositionsIn(fs) == UNION {{<<f, n>> : n \in 1..Len(fs[f])} : f \in 1..Len(fs)}
PlacesIn(fs, line) == {z \in PositionsIn(fs) : fs[z[1]][z[2]] = line}

LEMMA PlaceFacts ==
  ASSUME NEW fs, NEW line, NEW z
  PROVE  z \in PlacesIn(fs, line) <=>
           \E f \in 1..Len(fs) : \E n \in 1..Len(fs[f]) : z = <<f, n>> /\ fs[f][n] = line
BY DEF PlacesIn, PositionsIn

\* A file that is started holds no line.
LEMMA NewFilePlaces ==
  ASSUME NEW S, NEW fs \in Seq(Seq(S)), NEW line
  PROVE  /\ Append(fs, << >>) \in Seq(Seq(S)) /\ Append(fs, << >>) # << >>
         /\ PlacesIn(Append(fs, << >>), line) = PlacesIn(fs, line)
<1> DEFINE gs == Append(fs, << >>)
<1>1. /\ gs \in Seq(Seq(S)) /\ Len(gs) = Len(fs) + 1 /\ Len(fs) \in Nat
      /\ \A f \in 1..Len(fs) : gs[f] = fs[f]
      /\ gs[Len(fs) + 1] = << >>
  OBVIOUS
<1>2. Len(gs[Len(fs) + 1]) = 0
  BY <1>1
<1> HIDE DEF gs
<1>3. gs # << >>
  BY <1>1
<1>4. ASSUME NEW z PROVE z \in PlacesIn(gs, line) <=> z \in PlacesIn(fs, line)
  <2>1. \A f \in 1..Len(gs) : f \in 1..Len(fs) \/ f = Len(fs) + 1
    BY <1>1
  <2>2. \A n : n \notin 1..Len(gs[Len(fs) + 1])
    BY <1>2
  <2>3. \A f \in 1..Len(fs) : f \in 1..Len(gs) /\ gs[f] = fs[f]
    BY <1>1
  <2>4. ASSUME z \in PlacesIn(gs, line) PROVE z \in PlacesIn(fs, line)
    <3>1. PICK f \in 1..Len(gs) : \E n \in 1..Len(gs[f]) : z = <<f, n>> /\ gs[f][n] = line
      BY <2>4, PlaceFacts
    <3>2. f \in 1..Len(fs) /\ gs[f] = fs[f]
      BY <2>1, <2>2, <2>3, <3>1
    <3> QED
      BY <3>1, <3>2, PlaceFacts
  <2>5. ASSUME z \in PlacesIn(fs, line) PROVE z \in PlacesIn(gs, line)
    <3>1. PICK f \in 1..Len(fs) : \E n \in 1..Len(fs[f]) : z = <<f, n>> /\ fs[f][n] = line
      BY <2>5 DEF PlacesIn, PositionsIn
    <3>2. f \in 1..Len(gs) /\ gs[f] = fs[f]
      BY <2>3
    <3> QED
      BY <3>1, <3>2, PlaceFacts
  <2> QED
    BY <2>4, <2>5
<1>5. PlacesIn(gs, line) = PlacesIn(fs, line)
  BY <1>4
<1> QED
  BY <1>1, <1>3, <1>5 DEF gs

\* What a write does to the files.
LEMMA WriteFiles ==
  ASSUME NEW S, NEW fs \in Seq(Seq(S)), fs # << >>, NEW l \in S
  PROVE  LET gs == [fs EXCEPT ![Len(fs)] = Append(@, l)]
         IN  /\ gs \in Seq(Seq(S)) /\ Len(gs) = Len(fs)
             /\ \A f \in 1..Len(fs) : f # Len(fs) => gs[f] = fs[f]
             /\ gs[Len(fs)] = Append(fs[Len(fs)], l)
<1>1. Len(fs) \in 1..Len(fs) /\ fs[Len(fs)] \in Seq(S)
  OBVIOUS
<1> QED
  BY <1>1

\* One line more at the end of a file is one place more.
LineAdded(S, fs, gs, last, l) ==
  /\ last \in 1..Len(fs) /\ Len(gs) = Len(fs)
  /\ \A f \in 1..Len(fs) : f # last => gs[f] = fs[f]
  /\ fs[last] \in Seq(S) /\ l \in S /\ gs[last] = Append(fs[last], l)

LEMMA WritePlaces ==
  ASSUME NEW S, NEW fs, NEW gs, NEW last, NEW l, LineAdded(S, fs, gs, last, l)
  PROVE  /\ PlacesIn(gs, l) = PlacesIn(fs, l) \cup {<<last, Len(fs[last]) + 1>>}
         /\ \A line : line # l => PlacesIn(gs, line) = PlacesIn(fs, line)
<1>0. /\ last \in 1..Len(fs) /\ Len(gs) = Len(fs)
      /\ \A f \in 1..Len(fs) : f # last => gs[f] = fs[f]
      /\ fs[last] \in Seq(S) /\ l \in S /\ gs[last] = Append(fs[last], l)
  BY DEF LineAdded
<1> DEFINE end == Len(fs[last]) + 1
<1>1. /\ end \in 1..Len(gs[last]) /\ gs[last][end] = l
      /\ \A n \in 1..Len(fs[last]) : n \in 1..Len(gs[last]) /\ gs[last][n] = fs[last][n]
      /\ \A n \in 1..Len(gs[last]) : n \in 1..Len(fs[last]) \/ n = end
  BY <1>0
<1> HIDE DEF end
<1>2. ASSUME NEW line, NEW z
      PROVE  z \in PlacesIn(gs, line) <=> z \in PlacesIn(fs, line) \/ (line = l /\ z = <<last, end>>)
  <2>1. ASSUME z \in PlacesIn(gs, line)
        PROVE  z \in PlacesIn(fs, line) \/ (line = l /\ z = <<last, end>>)
    <3>0. z \in PlacesIn(gs, line) <=>
            \E f \in 1..Len(gs) : \E n \in 1..Len(gs[f]) : z = <<f, n>> /\ gs[f][n] = line
      BY PlaceFacts
    <3>1. PICK f \in 1..Len(gs) : \E n \in 1..Len(gs[f]) : z = <<f, n>> /\ gs[f][n] = line
      BY <2>1, <3>0, Zenon
    <3>2. PICK n \in 1..Len(gs[f]) : z = <<f, n>> /\ gs[f][n] = line
      BY <3>1
    <3>3. CASE f # last
      <4>1. f \in 1..Len(fs) /\ n \in 1..Len(fs[f]) /\ fs[f][n] = line
        BY <1>0, <3>2, <3>3
      <4> QED
        BY <3>2, <4>1, PlaceFacts, Zenon
    <3>4. CASE f = last /\ n # end
      <4>1. n \in 1..Len(fs[f]) /\ fs[f][n] = line
        BY <1>0, <1>1, <3>2, <3>4
      <4> QED
        BY <1>0, <3>2, <3>4, <4>1, PlaceFacts, Zenon
    <3>5. CASE f = last /\ n = end
      BY <1>1, <3>2, <3>5
    <3> QED
      BY <3>3, <3>4, <3>5
  <2>2. ASSUME z \in PlacesIn(fs, line) PROVE z \in PlacesIn(gs, line)
    <3>0. z \in PlacesIn(fs, line) <=>
            \E f \in 1..Len(fs) : \E n \in 1..Len(fs[f]) : z = <<f, n>> /\ fs[f][n] = line
      BY PlaceFacts
    <3>1. PICK f \in 1..Len(fs) : \E n \in 1..Len(fs[f]) : z = <<f, n>> /\ fs[f][n] = line
      BY <2>2, <3>0, Zenon
    <3>2. PICK n \in 1..Len(fs[f]) : z = <<f, n>> /\ fs[f][n] = line
      BY <3>1
    <3>3. f \in 1..Len(gs) /\ n \in 1..Len(gs[f]) /\ gs[f][n] = line
      BY <1>0, <1>1, <3>2
    <3> QED
      BY <3>2, <3>3, PlaceFacts, Zenon
  <2>3. <<last, end>> \in PlacesIn(gs, l)
    <3>1. last \in 1..Len(gs)
      BY <1>0
    <3> QED
      BY <1>1, <3>1, PlaceFacts, Zenon
  <2> QED
    BY <2>1, <2>2, <2>3
<1>3. PlacesIn(gs, l) = PlacesIn(fs, l) \cup {<<last, end>>}
  BY <1>2
<1>4. ASSUME NEW line, line # l PROVE PlacesIn(gs, line) = PlacesIn(fs, line)
  <2>1. \A z : z \in PlacesIn(gs, line) <=> z \in PlacesIn(fs, line)
    BY <1>2, <1>4
  <2> QED
    BY <2>1
<1> QED
  BY <1>3, <1>4 DEF end

-----------------------------------------------------------------------------
(* With a buffer of its own a thread writes what it rendered.  A line       *)
(* stands at one place once it is finished, and nowhere before.             *)
LineType == {NoLine} \cup [by : Threads, no : Nat]

FilesInv == files \in Seq(Seq(LineType)) /\ (fp = "open" => files # << >>)

OwnInv == \A t \in Threads : pc[t] \in {"lock"} \cup Locked => buf[t] = Line(t, count[t])

PlacedInv ==
  \A t \in Threads, n \in Nat \ {0} :
    IF n <= Finished(t) THEN \E z : PlacesIn(files, Line(t, n)) = {z}
                        ELSE PlacesIn(files, Line(t, n)) = {}

OnceInv == FilesInv /\ OwnInv /\ PlacedInv

\* Steps that leave the files alone, or start one, keep the places if they
\* finish no line.
LEMMA SamePlaces ==
  ASSUME IInv, OnceInv, files' = files \/ files' = Append(files, << >>),
         \A t \in Threads : Finished(t)' = Finished(t)
  PROVE  PlacedInv'
<1>1. \A line : PlacesIn(files', line) = PlacesIn(files, line)
  BY NewFilePlaces DEF OnceInv, FilesInv
<1> QED
  BY <1>1 DEF OnceInv, PlacedInv

LEMMA InitOnce == Init => OnceInv
<1> SUFFICES ASSUME Init PROVE OnceInv
  OBVIOUS
<1> USE ThreadAssumption DEF Init, Everyone
<1>1. FilesInv
  BY DEF FilesInv
<1>2. OwnInv
  BY DEF OwnInv, Locked
<1>3. \A t \in Threads : Finished(t) = 0
  BY DEF Finished
<1>4. \A line : PlacesIn(files, line) = {}
  BY DEF PlacesIn, PositionsIn
<1>5. PlacedInv
  BY <1>3, <1>4 DEF PlacedInv
<1> QED
  BY <1>1, <1>2, <1>5 DEF OnceInv

\* A write puts the line it was rendered for at one place.
LEMMA WriteOnce ==
  ASSUME Reentrant, IInv, OnceInv, NEW t \in Threads, Write(t)
  PROVE  OnceInv'
<1> USE ThreadAssumption DEF Everyone
<1> DEFINE l == Line(t, count[t])
<1>1. Rendered(t) = l /\ l \in LineType /\ fp = "open" /\ fp' = fp
  BY DEF Write, Rendered, BufOf, OnceInv, OwnInv, Locked, IInv, StreamInv, TypeOK, LineType, Line
<1>2. files' = [files EXCEPT ![Len(files)] = Append(@, l)]
  BY <1>1 DEF Write
<1>3. files \in Seq(Seq(LineType)) /\ files # << >>
  BY <1>1 DEF OnceInv, FilesInv
<1>4. /\ files' \in Seq(Seq(LineType)) /\ files' # << >>
      /\ \E q : PlacesIn(files', l) = PlacesIn(files, l) \cup {q}
      /\ \A line : line # l => PlacesIn(files', line) = PlacesIn(files, line)
  <2> HIDE DEF l
  <2>1. /\ files' \in Seq(Seq(LineType)) /\ Len(files') = Len(files)
        /\ \A f \in 1..Len(files) : f # Len(files) => files'[f] = files[f]
        /\ files'[Len(files)] = Append(files[Len(files)], l)
    BY <1>1, <1>2, <1>3, WriteFiles
  <2>2. Len(files) \in 1..Len(files) /\ files[Len(files)] \in Seq(LineType)
    BY <1>3
  <2>3. Len(files') # 0
    BY <2>1, <2>2
  <2>4. files' # << >>
    BY <2>3
  <2> QED
    <3>1. l \in LineType
      BY <1>1
    <3>2. LineAdded(LineType, files, files', Len(files), l)
      BY <2>1, <2>2, <3>1 DEF LineAdded
    <3>3. /\ PlacesIn(files', l)
               = PlacesIn(files, l) \cup {<<Len(files), Len(files[Len(files)]) + 1>>}
          /\ \A line : line # l => PlacesIn(files', line) = PlacesIn(files, line)
      BY <3>2, WritePlaces
    <3> QED
      BY <2>1, <2>4, <3>3
<1>5. OwnInv'
  BY DEF Write, Goto, IInv, TypeOK, OnceInv, OwnInv, Locked
<1>6. /\ count' = count /\ count[t] \in Nat
      /\ Finished(t) = count[t] - 1 /\ Finished(t)' = count[t]
      /\ \A s \in Threads : s # t => Finished(s)' = Finished(s)
  BY DEF Write, Goto, Finished, IInv, TypeOK
<1>7. ASSUME NEW s \in Threads, NEW n \in Nat \ {0}
      PROVE  IF n <= Finished(s)' THEN \E z : PlacesIn(files', Line(s, n)) = {z}
                                  ELSE PlacesIn(files', Line(s, n)) = {}
  <2>1. CASE s = t /\ n = count[t]
    <3>1. PlacesIn(files, l) = {}
      BY <1>6, <2>1 DEF OnceInv, PlacedInv
    <3>2. PICK q : PlacesIn(files', l) = PlacesIn(files, l) \cup {q}
      BY <1>4
    <3>3. PlacesIn(files', l) = {q} /\ Line(s, n) = l /\ n <= Finished(s)'
      BY <1>6, <2>1, <3>1, <3>2
    <3> QED
      BY <3>3
  <2>2. CASE ~ (s = t /\ n = count[t])
    <3>1. Line(s, n) # l
      BY <2>2 DEF Line
    <3>2. PlacesIn(files', Line(s, n)) = PlacesIn(files, Line(s, n))
      BY <1>4, <3>1
    <3>3. n <= Finished(s)' <=> n <= Finished(s)
      BY <1>6, <2>2
    <3> QED
      BY <3>2, <3>3 DEF OnceInv, PlacedInv
  <2> QED
    BY <2>1, <2>2
<1> QED
  BY <1>4, <1>5, <1>7, <1>1 DEF OnceInv, FilesInv, PlacedInv

LEMMA OnceInductive ==
  ASSUME Reentrant PROVE IInv /\ OnceInv /\ [Next]_vars => OnceInv'
<1> SUFFICES ASSUME IInv, OnceInv, [Next]_vars PROVE OnceInv'
  OBVIOUS
<1> USE ThreadAssumption DEF Everyone
<1>a. /\ \A t \in Threads : count[t] \in Nat /\ pc[t] \notin {"running", "done"}
      /\ DOMAIN pc = Everyone /\ DOMAIN count = Threads /\ DOMAIN buf = Everyone
  BY LengthAssumption DEF IInv, TypeOK, PlaceInv
\* It is enough to say what becomes of the files, of the lines in the
\* buffers and of the lines that are finished.
<1>b. ASSUME \/ files' = files /\ (fp' = "open" => fp = "open")
             \/ files' = Append(files, << >>),
             OwnInv', \A t \in Threads : Finished(t)' = Finished(t)
      PROVE  OnceInv'
  <2>1. PlacedInv'
    BY <1>b, SamePlaces
  <2>2. FilesInv'
    BY <1>b, NewFilePlaces DEF OnceInv, FilesInv
  <2> QED
    BY <1>b, <2>1, <2>2 DEF OnceInv
<1>1. ASSUME NEW t \in Everyone, OpenStep(t) PROVE OnceInv'
  <2>1. /\ \A s \in Threads : Finished(s)' = Finished(s)
        /\ OwnInv'
    BY <1>1, <1>a DEF OpenStep, CheckOpen, TypeOpen, OpenClose, OpenFile, Opened, Goto,
                      AfterOpen, Finished, OnceInv, OwnInv, Locked
  <2>2. (files' = files /\ (fp' = "open" => fp = "open")) \/ files' = Append(files, << >>)
    BY <1>1 DEF OpenStep, CheckOpen, TypeOpen, OpenClose, OpenFile, Opened, CloseFile, NewFile
  <2> QED
    BY <1>b, <2>1, <2>2
<1>2. ASSUME NEW t \in Threads, BeginAppend(t) PROVE OnceInv'
  <2>1. /\ \A s \in Threads : Finished(s)' = Finished(s)
        /\ OwnInv'
    BY <1>2, <1>a DEF BeginAppend, Goto, Finished, OnceInv, OwnInv, Locked
  <2> QED
    BY <1>2, <1>b, <2>1 DEF BeginAppend
<1>3. ASSUME NEW t \in Threads, Format(t) PROVE OnceInv'
  <2>1. /\ \A s \in Threads : Finished(s)' = Finished(s)
        /\ OwnInv'
    BY <1>3, <1>a DEF Format, BufOf, Goto, Finished, OnceInv, OwnInv, Locked
  <2> QED
    BY <1>3, <1>b, <2>1 DEF Format
<1>4. ASSUME NEW t \in Threads, Lock(t) \/ RollClose(t) \/ RollFile(t) PROVE OnceInv'
  <2>1. /\ \A s \in Threads : Finished(s)' = Finished(s)
        /\ OwnInv'
    BY <1>4, <1>a DEF Lock, RollClose, RollFile, Goto, Finished, OnceInv, OwnInv, Locked
  <2>2. (files' = files /\ (fp' = "open" => fp = "open")) \/ files' = Append(files, << >>)
    BY <1>4 DEF Lock, RollClose, RollFile, CloseFile, NewFile
  <2> QED
    BY <1>b, <2>1, <2>2
<1>5. ASSUME NEW t \in Threads, Write(t) PROVE OnceInv'
  BY <1>5, WriteOnce
<1>6. CASE Start
  <2>1. /\ \A s \in Threads : Finished(s)' = Finished(s)
        /\ OwnInv'
    BY <1>6, <1>a DEF Start, Finished, OnceInv, OwnInv, Locked
  <2> QED
    BY <1>6, <1>b, <2>1 DEF Start
<1>7. CASE Close
  <2>1. /\ \A s \in Threads : Finished(s)' = Finished(s)
        /\ OwnInv'
    BY <1>7, <1>a DEF Close, Goto, Finished, OnceInv, OwnInv, Locked
  <2> QED
    BY <1>7, <1>b, <2>1 DEF Close
<1>8. CASE UNCHANGED vars
  <2>1. /\ \A s \in Threads : Finished(s)' = Finished(s)
        /\ OwnInv'
    BY <1>8 DEF vars, Finished, OnceInv, OwnInv
  <2> QED
    BY <1>8, <1>b, <2>1 DEF vars
<1> QED
  BY <1>1, <1>2, <1>3, <1>4, <1>5, <1>6, <1>7, <1>8 DEF Next, LogStep

(* If the layout is re-entrant every line that was logged is in the files   *)
(* once, whoever rolls over meanwhile, and the line in hand is not there.   *)
THEOREM EachLineOnce == ASSUME Reentrant PROVE Spec => []WrittenOnce
<1>1. Spec => []IInv
  BY Invariant
<1>2. Init => OnceInv
  BY InitOnce
<1>3. IInv /\ OnceInv /\ [Next]_vars => OnceInv'
  BY OnceInductive
<1>4. IInv /\ OnceInv => WrittenOnce
  <2> SUFFICES ASSUME IInv, OnceInv, NEW t \in Threads, NEW n \in 1..count[t]
               PROVE  Cardinality({z \in Positions : LineAt(z) = Line(t, n)})
                        = IF n <= Finished(t) THEN 1 ELSE 0
    BY DEF WrittenOnce
  <2>1. n \in Nat \ {0}
    BY LengthAssumption DEF IInv, TypeOK
  <2>2. {z \in Positions : LineAt(z) = Line(t, n)} = PlacesIn(files, Line(t, n))
    BY DEF Positions, LineAt, PlacesIn, PositionsIn
  <2>3. IF n <= Finished(t) THEN \E z : PlacesIn(files, Line(t, n)) = {z}
                            ELSE PlacesIn(files, Line(t, n)) = {}
    BY <2>1 DEF OnceInv, PlacedInv
  <2>4. Cardinality({}) = 0 /\ \A z : Cardinality({z}) = 1
    BY FS_EmptySet, FS_Singleton
  <2> QED
    BY <2>2, <2>3, <2>4
<1> QED
  BY <1>1, <1>2, <1>3, <1>4, PTL DEF Spec

-----------------------------------------------------------------------------
LEMMA LineLength == ASSUME NEW l \in LineType PROVE Length(l) \in Nat
BY LengthAssumption, ThreadAssumption DEF LineType, Length, NoLine

\* The length of the first n lines, as Bytes counts them.
Counts(f, s) ==
  f = [n \in 0..Len(s) |-> IF n = 0 THEN 0 ELSE f[n-1] + Length(s[n])]

LEMMA CountExists ==
  ASSUME NEW s \in Seq(LineType)
  PROVE  \E f \in [0..Len(s) -> Nat] : Counts(f, s)
<1> DEFINE CountedTo(n, f) == f[0] = 0 /\ \A m \in 1..n : f[m] = f[m-1] + Length(s[m])
           S == {n \in Nat : n <= Len(s) => \E f \in [0..n -> Nat] : CountedTo(n, f)}
<1>1. Len(s) \in Nat /\ \A m \in 1..Len(s) : Length(s[m]) \in Nat
  BY LineLength
<1>2. 0 \in S
  <2> DEFINE f == [n \in 0..0 |-> 0]
  <2>1. f \in [0..0 -> Nat] /\ CountedTo(0, f)
    OBVIOUS
  <2> QED
    BY <2>1
<1>3. ASSUME NEW n \in Nat, n \in S, n + 1 <= Len(s)
      PROVE  \E f \in [0..n+1 -> Nat] : CountedTo(n + 1, f)
  <2>1. PICK f \in [0..n -> Nat] : CountedTo(n, f)
    <3>1. n <= Len(s)
      BY <1>1, <1>3
    <3> HIDE DEF CountedTo
    <3> QED
      BY <1>3, <3>1
  <2> DEFINE g == [m \in 0..n+1 |-> IF m = n + 1 THEN f[n] + Length(s[n+1]) ELSE f[m]]
  <2>2. Length(s[n+1]) \in Nat /\ f[n] \in Nat
    <3>1. n + 1 \in 1..Len(s)
      BY <1>1, <1>3
    <3> QED
      BY <1>1, <3>1
  <2>3. g \in [0..n+1 -> Nat]
    BY <2>2
  <2>4. g[0] = 0
    BY <2>1
  <2>5. ASSUME NEW m \in 1..n+1 PROVE g[m] = g[m-1] + Length(s[m])
    <3>1. CASE m = n + 1
      BY <3>1
    <3>2. CASE m # n + 1
      <4>1. m \in 1..n /\ m \in 0..n+1 /\ m - 1 \in 0..n+1 /\ m - 1 # n + 1
        BY <3>2
      <4> QED
        BY <2>1, <3>2, <4>1
    <3> QED
      BY <3>1, <3>2
  <2> HIDE DEF g
  <2> QED
    BY <2>3, <2>4, <2>5
<1>4. S = Nat
  <2> HIDE DEF CountedTo
  <2>1. S \in SUBSET Nat
    OBVIOUS
  <2>2. ASSUME NEW n \in Nat, n \in S PROVE n + 1 \in S
    <3>1. n + 1 <= Len(s) => \E f \in [0..n+1 -> Nat] : CountedTo(n + 1, f)
      BY <1>3, <2>2
    <3> QED
      BY <3>1
  <2> HIDE DEF S
  <2> QED
    BY <1>2, <2>1, <2>2, Induction
<1>5. PICK f \in [0..Len(s) -> Nat] : CountedTo(Len(s), f)
  <2> HIDE DEF CountedTo
  <2>1. Len(s) \in S
    <3> HIDE DEF S
    <3> QED
      BY <1>1, <1>4
  <2> QED
    BY <1>1, <2>1
<1>6. \A n \in 0..Len(s) : f[n] = IF n = 0 THEN 0 ELSE f[n-1] + Length(s[n])
  BY <1>1, <1>5
<1>7. f = [n \in 0..Len(s) |-> IF n = 0 THEN 0 ELSE f[n-1] + Length(s[n])]
  BY <1>6
<1> QED
  BY <1>7 DEF Counts

\* f counts the first k lines, one after the other.
CountsTo(f, s, k) == f[0] = 0 /\ \A n \in 1..k : f[n] = f[n-1] + Length(s[n])

LEMMA CountUnique ==
  ASSUME NEW s, NEW k \in Nat, NEW f, NEW g, CountsTo(f, s, k), CountsTo(g, s, k)
  PROVE  f[k] = g[k]
<1> USE DEF CountsTo
<1> DEFINE S == {n \in Nat : n <= k => f[n] = g[n]}
<1>1. 0 \in S
  OBVIOUS
<1>2. ASSUME NEW n \in Nat, n \in S PROVE n + 1 \in S
  <2> SUFFICES ASSUME n + 1 <= k PROVE f[n+1] = g[n+1]
    OBVIOUS
  <2>1. n + 1 \in 1..k /\ (n + 1) - 1 = n /\ f[n] = g[n]
    BY <1>2
  <2>2. f[n+1] = f[n] + Length(s[n+1]) /\ g[n+1] = g[n] + Length(s[n+1])
    BY <2>1
  <2> QED
    BY <2>1, <2>2
<1> HIDE DEF S
<1>3. S = Nat
  <2>1. S \in SUBSET Nat
    BY DEF S
  <2> QED
    BY <1>1, <1>2, <2>1, Induction
<1> QED
  BY <1>3 DEF S

LEMMA BytesCounts ==
  ASSUME NEW s \in Seq(LineType)
  PROVE  \E f \in [0..Len(s) -> Nat] :
           /\ f[0] = 0 /\ \A n \in 1..Len(s) : f[n] = f[n-1] + Length(s[n])
           /\ Bytes(s) = f[Len(s)]
<1> DEFINE c == CHOOSE f : f = [n \in 0..Len(s) |-> IF n = 0 THEN 0 ELSE f[n-1] + Length(s[n])]
<1>1. Bytes(s) = c[Len(s)]
  BY DEF Bytes
<1>2. \E f : f = [n \in 0..Len(s) |-> IF n = 0 THEN 0 ELSE f[n-1] + Length(s[n])]
  BY CountExists DEF Counts
<1>3. c = [n \in 0..Len(s) |-> IF n = 0 THEN 0 ELSE c[n-1] + Length(s[n])]
  BY <1>2
<1> HIDE DEF c
<1>4. PICK f \in [0..Len(s) -> Nat] : Counts(f, s)
  BY CountExists
<1>5. Len(s) \in Nat
  OBVIOUS
<1>6. f[0] = 0 /\ \A n \in 1..Len(s) : f[n] = f[n-1] + Length(s[n])
  <2>1. f = [n \in 0..Len(s) |-> IF n = 0 THEN 0 ELSE f[n-1] + Length(s[n])]
    BY <1>4 DEF Counts
  <2> QED
    BY <1>5, <2>1
<1>7. c[0] = 0 /\ \A n \in 1..Len(s) : c[n] = c[n-1] + Length(s[n])
  BY <1>3, <1>5
<1>8. c[Len(s)] = f[Len(s)]
  <2> DEFINE k == Len(s)
  <2>1. k \in Nat
    BY <1>5
  <2>2. CountsTo(f, s, k)
    BY <1>6 DEF CountsTo
  <2>3. CountsTo(c, s, k)
    BY <1>7 DEF CountsTo
  <2> HIDE DEF k
  <2>4. f[k] = c[k]
    BY <2>1, <2>2, <2>3, CountUnique
  <2> QED
    BY <2>4 DEF k
<1> QED
  BY <1>1, <1>6, <1>8

\* One line more is its length more.
LEMMA BytesAppend ==
  ASSUME NEW s \in Seq(LineType), NEW l \in LineType
  PROVE  Bytes(s) \in Nat /\ Bytes(Append(s, l)) = Bytes(s) + Length(l)
<1> DEFINE t == Append(s, l)
<1>1. /\ t \in Seq(LineType) /\ Len(s) \in Nat /\ Len(t) = Len(s) + 1 /\ t[Len(s) + 1] = l
      /\ \A n \in 1..Len(s) : t[n] = s[n]
  OBVIOUS
<1> HIDE DEF t
<1>2. PICK f \in [0..Len(s) -> Nat] :
           /\ f[0] = 0 /\ \A n \in 1..Len(s) : f[n] = f[n-1] + Length(s[n])
           /\ Bytes(s) = f[Len(s)]
  BY BytesCounts
<1>3. PICK g \in [0..Len(t) -> Nat] :
           /\ g[0] = 0 /\ \A n \in 1..Len(t) : g[n] = g[n-1] + Length(t[n])
           /\ Bytes(t) = g[Len(t)]
  BY <1>1, BytesCounts
<1>4. \A n \in 1..Len(s) : g[n] = g[n-1] + Length(s[n])
  BY <1>1, <1>3
<1>5. f[Len(s)] = g[Len(s)]
  <2> DEFINE k == Len(s)
  <2>1. k \in Nat
    BY <1>1
  <2>2. CountsTo(f, s, k)
    BY <1>2 DEF CountsTo
  <2>3. CountsTo(g, s, k)
    BY <1>3, <1>4 DEF CountsTo
  <2> HIDE DEF k
  <2>4. f[k] = g[k]
    BY <2>1, <2>2, <2>3, CountUnique
  <2> QED
    BY <2>4 DEF k
<1>6. g[Len(s) + 1] = g[Len(s)] + Length(l)
  <2>1. Len(s) + 1 \in 1..Len(t) /\ (Len(s) + 1) - 1 = Len(s)
    BY <1>1
  <2> QED
    BY <1>1, <1>3, <2>1
<1> QED
  BY <1>1, <1>2, <1>3, <1>5, <1>6 DEF t

LEMMA BytesNone == Bytes(<< >>) = 0
<1>1. << >> \in Seq(LineType) /\ Len(<< >>) = 0
  OBVIOUS
<1> QED
  BY <1>1, BytesCounts

-----------------------------------------------------------------------------
\* The size is that of the file while it is open; a file with several lines
\* is within the limit, and so is the line that is about to be written.
SizesInv ==
  /\ fp = "open" => /\ isopen = 1 \/ \E t \in Everyone : pc[t] = "opened"
                    /\ size = Bytes(files[Len(files)])
  /\ MaxSize > 0 =>
       /\ \A f \in 1..Len(files) : Len(files[f]) > 1 => Bytes(files[f]) <= MaxSize
       /\ \A t \in Threads : pc[t] = "write" =>
            files[Len(files)] = << >> \/ Length(Rendered(t)) + size <= MaxSize

LEMMA InitSizes == Init => SizesInv
<1> SUFFICES ASSUME Init PROVE SizesInv
  OBVIOUS
<1>1. fp # "open" /\ files = << >> /\ Len(files) = 0
  BY DEF Init
<1>2. \A t \in Threads : pc[t] # "write"
  BY ThreadAssumption DEF Init, Everyone
<1> QED
  BY <1>1, <1>2 DEF SizesInv

\* Steps that leave the files and the line that is about to be written alone.
LEMMA SameSizes ==
  ASSUME SizesInv, UNCHANGED <<files, size>>,
         fp' = "open" => fp = "open" /\ (isopen' = 1 \/ \E t \in Everyone : pc'[t] = "opened"),
         \A t \in Threads : pc'[t] = "write" => pc[t] = "write" /\ Rendered(t)' = Rendered(t)
  PROVE  SizesInv'
<1>1. Bytes(files[Len(files)])' = Bytes(files[Len(files)])
      /\ \A f : Bytes(files'[f]) = Bytes(files[f])
  OBVIOUS
<1>2. \A l : Length(l)' = Length(l)
  OBVIOUS
<1> QED
  BY <1>1, <1>2 DEF SizesInv

\* A file that is started is empty.
LEMMA NewSizes ==
  ASSUME IInv, OnceInv, SizesInv, NewFile,
         isopen' = 1 \/ \E t \in Everyone : pc'[t] = "opened"
  PROVE  SizesInv'
<1>1. /\ files \in Seq(Seq(LineType)) /\ files' = Append(files, << >>) /\ size' = 0
  BY DEF OnceInv, FilesInv, NewFile
<1>2. /\ Len(files) \in Nat /\ Len(files') = Len(files) + 1 /\ files'[Len(files')] = << >>
      /\ \A f \in 1..Len(files) : files'[f] = files[f]
  BY <1>1
<1>3. Bytes(<< >>) = 0
  BY BytesNone
<1>4. (size = Bytes(files[Len(files)]))'
  BY <1>1, <1>2, <1>3
<1>5. MaxSize > 0 => \A f \in 1..Len(files') : Len(files'[f]) > 1 => Bytes(files'[f]) <= MaxSize
  <2> SUFFICES ASSUME MaxSize > 0, NEW f \in 1..Len(files'), Len(files'[f]) > 1
               PROVE  Bytes(files'[f]) <= MaxSize
    OBVIOUS
  <2>1. CASE f \in 1..Len(files)
    BY <1>2, <2>1 DEF SizesInv
  <2>2. CASE f \notin 1..Len(files)
    <3>1. files'[f] = << >>
      BY <1>2, <2>2
    <3>2. Len(files'[f]) = 0
      BY <3>1
    <3> QED
      BY <3>2
  <2> QED
    BY <2>1, <2>2
<1> QED
  BY <1>2, <1>4, <1>5 DEF SizesInv

LEMMA WriteSizes ==
  ASSUME Reentrant, IInv, OnceInv, SizesInv, NEW t \in Threads, Write(t)
  PROVE  SizesInv'
<1> USE ThreadAssumption DEF Everyone
<1> DEFINE l == Rendered(t)
           last == Len(files)
           file == files[last]
<1>1. pc[t] = "write" /\ fp = "open" /\ fp' = "open" /\ isopen' = isopen /\ isopen = 1
  BY DEF Write, IInv, StreamInv, PlaceInv, Logging, Locked
<1>2. l \in LineType /\ Length(l) \in Nat
  <2>1. l = Line(t, count[t]) /\ count[t] \in Nat
    BY <1>1 DEF Rendered, BufOf, OnceInv, OwnInv, Locked, IInv, TypeOK
  <2>2. l \in LineType
    BY <2>1 DEF Line, LineType
  <2> QED
    BY <2>2, LineLength
<1>3. files \in Seq(Seq(LineType)) /\ files # << >>
  BY <1>1 DEF OnceInv, FilesInv
<1>4. last \in 1..last /\ file \in Seq(LineType)
  BY <1>3
<1>5. files' = [files EXCEPT ![last] = Append(@, l)] /\ size' = size + Length(l)
  BY DEF Write
<1> HIDE DEF l
<1>6. /\ Len(files') = last /\ files'[last] = Append(file, l)
      /\ \A f \in 1..last : f # last => files'[f] = files[f]
  BY <1>2, <1>3, <1>5, WriteFiles
<1>7. size = Bytes(file)
  BY <1>1 DEF SizesInv
<1>8. Bytes(file) \in Nat /\ Bytes(Append(file, l)) = Bytes(file) + Length(l)
  BY <1>2, <1>4, BytesAppend
<1> HIDE DEF file
<1>9. \A s \in Threads : pc'[s] # "write"
  <2>1. \A s \in Threads : s # t => pc[s] # "write"
    BY <1>1 DEF IInv, MutexInv, Locked
  <2>2. pc' = [pc EXCEPT ![t] = "idle"]
    BY DEF Write, Goto
  <2> QED
    BY <2>1, <2>2 DEF IInv, TypeOK
<1>10. (size = Bytes(files[Len(files)]))'
  <2>1. size' = Bytes(files'[Len(files')])
    BY <1>5, <1>6, <1>7, <1>8
  <2> QED
    BY <2>1
<1>11. ASSUME MaxSize > 0, NEW f \in 1..Len(files'), Len(files'[f]) > 1
       PROVE  Bytes(files'[f]) <= MaxSize
  <2>1. CASE f # last
    <3>1. f \in 1..last /\ files'[f] = files[f]
      BY <1>6, <2>1
    <3> QED
      BY <1>11, <3>1 DEF SizesInv
  <2>2. CASE f = last
    <3>1. files'[f] = Append(file, l) /\ Len(Append(file, l)) = Len(file) + 1
      BY <1>2, <1>4, <1>6, <2>2 DEF file
    <3>2. file # << >>
      <4>1. Len(file) > 0
        BY <1>4, <1>11, <3>1 DEF file
      <4> QED
        BY <4>1
    <3>3. Length(l) + size <= MaxSize
      BY <1>1, <1>11, <3>2 DEF SizesInv, file, l
    <3> QED
      BY <1>2, <1>7, <1>8, <3>1, <3>3
  <2> QED
    BY <2>1, <2>2
<1> QED
  BY <1>1, <1>9, <1>10, <1>11 DEF SizesInv

LEMMA LockSizes ==
  ASSUME Reentrant, IInv, OnceInv, SizesInv, NEW t \in Threads, Lock(t)
  PROVE  SizesInv'
<1> USE ThreadAssumption DEF Everyone
<1>1. /\ UNCHANGED <<isopen, fp, size, files, buf, count, users>>
      /\ pc' = [pc EXCEPT ![t] = IF Triggers(Rendered(t)) THEN "rollclose" ELSE "write"]
      /\ pc[t] = "lock" /\ owner = None
  BY DEF Lock, Goto
<1>2. \A s \in Threads : s # t => pc'[s] = pc[s]
  BY <1>1 DEF IInv, TypeOK
<1>3. \A s \in Threads : pc[s] # "write"
  BY <1>1 DEF IInv, MutexInv, Locked
<1>4. \A s \in Threads : Rendered(s)' = Rendered(s)
  BY <1>1 DEF Rendered, BufOf
<1>5. isopen = 1
  BY <1>1 DEF IInv, PlaceInv, Logging
<1>6. pc'[t] = "write" /\ MaxSize > 0 => Length(Rendered(t)) + size <= MaxSize
  <2>1. Length(Rendered(t)) \in Nat /\ size \in Nat /\ MaxSize \in Nat
    BY LengthNat, LengthAssumption DEF IInv, TypeOK
  <2>2. pc'[t] = "write" => ~ Triggers(Rendered(t))
    BY <1>1 DEF IInv, TypeOK
  <2> QED
    BY <2>1, <2>2 DEF Triggers
<1>7. \A s \in Threads : pc'[s] = "write" /\ MaxSize > 0 =>
        Length(Rendered(s)') + size' <= MaxSize
  BY <1>1, <1>2, <1>3, <1>4, <1>6
<1>8. \A f : Bytes(files'[f]) = Bytes(files[f])
  BY <1>1
<1> QED
  BY <1>1, <1>5, <1>7, <1>8 DEF SizesInv

LEMMA SizesInductive ==
  ASSUME Reentrant PROVE IInv /\ OnceInv /\ SizesInv /\ [Next]_vars => SizesInv'
<1> SUFFICES ASSUME IInv, OnceInv, SizesInv, [Next]_vars PROVE SizesInv'
  OBVIOUS
<1> USE ThreadAssumption DEF Everyone
<1>a. /\ \A t \in Threads : pc[t] \notin {"running", "done"}
      /\ DOMAIN pc = Everyone /\ DOMAIN buf = Everyone
  BY DEF IInv, TypeOK, PlaceInv
\* While one opens, the stream is not open before the file is.
<1>b. ASSUME NEW t \in Everyone, pc[t] \in {"open", "typeopen", "openclose"} PROVE fp # "open"
  <2>1. isopen = 0
    BY <1>b DEF IInv, PlaceInv, Opening
  <2>2. \A s \in Everyone : pc[s] # "opened"
    BY <1>b, OpenerAlone DEF Opening, Busy
  <2> QED
    BY <2>1, <2>2 DEF SizesInv
<1>1. ASSUME NEW t \in Everyone, CheckOpen(t) \/ TypeOpen(t) \/ OpenClose(t) PROVE SizesInv'
  <2>1. fp # "open" /\ fp' # "open"
    BY <1>1, <1>b DEF CheckOpen, TypeOpen, OpenClose, CloseFile
  <2>2. files' = files /\ \A s \in Threads : pc[s] # "write"
    <3>1. \A s \in Everyone : s # t => pc[s] \notin Busy
      BY <1>1, OpenerAlone DEF Opening, CheckOpen, TypeOpen, OpenClose
    <3> QED
      BY <1>1, <3>1 DEF CheckOpen, TypeOpen, OpenClose, Busy, Logging, Locked
  <2>3. \A s \in Threads : pc'[s] # "write"
    BY <1>1, <1>a, <2>2 DEF CheckOpen, TypeOpen, OpenClose, Goto, AfterOpen
  <2>4. \A f : Bytes(files'[f]) = Bytes(files[f])
    BY <2>2
  <2> QED
    BY <2>1, <2>2, <2>3, <2>4 DEF SizesInv
<1>2. ASSUME NEW t \in Everyone, OpenFile(t) PROVE SizesInv'
  <2>1. pc'[t] = "opened" /\ NewFile
    BY <1>2, <1>a DEF OpenFile, Goto
  <2> QED
    BY <2>1, NewSizes
<1>3. ASSUME NEW t \in Everyone, Opened(t) PROVE SizesInv'
  <2>1. isopen' = 1
    BY <1>3 DEF Opened, IInv, TypeOK, PlaceInv, Opening
  <2>2. \A s \in Threads : pc'[s] = "write" => pc[s] = "write"
    BY <1>3, <1>a DEF Opened, Goto, AfterOpen
  <2>3. \A s \in Threads : Rendered(s)' = Rendered(s)
    BY <1>3 DEF Opened, Rendered, BufOf
  <2> QED
    BY <1>3, <2>1, <2>2, <2>3, SameSizes DEF Opened
<1>4. ASSUME NEW t \in Threads, BeginAppend(t) PROVE SizesInv'
  <2>1. \A s \in Everyone : pc[s] = "opened" => pc'[s] = "opened"
    BY <1>4, <1>a DEF BeginAppend, Goto
  <2>2. \A s \in Threads : pc'[s] = "write" => pc[s] = "write"
    BY <1>4, <1>a DEF BeginAppend, Goto
  <2>3. \A s \in Threads : Rendered(s)' = Rendered(s)
    BY <1>4 DEF BeginAppend, Rendered, BufOf
  <2>4. fp' = "open" => fp = "open" /\ (isopen' = 1 \/ \E s \in Everyone : pc'[s] = "opened")
    BY <1>4, <2>1 DEF BeginAppend, SizesInv
  <2> QED
    BY <1>4, <2>2, <2>3, <2>4, SameSizes DEF BeginAppend
<1>5. ASSUME NEW t \in Threads, Format(t) PROVE SizesInv'
  <2>1. \A s \in Threads : pc'[s] = "write" => pc[s] = "write" /\ s # t
    BY <1>5, <1>a DEF Format, Goto
  <2>2. \A s \in Threads : s # t => Rendered(s)' = Rendered(s)
    BY <1>5, <1>a DEF Format, Rendered, BufOf
  <2>3. fp' = "open" => fp = "open" /\ isopen' = 1
    BY <1>5 DEF Format, IInv, PlaceInv, Logging
  <2>4. \A s \in Threads : pc'[s] = "write" => pc[s] = "write" /\ Rendered(s)' = Rendered(s)
    BY <2>1, <2>2
  <2> QED
    BY <1>5, <2>3, <2>4, SameSizes DEF Format
<1>6. ASSUME NEW t \in Threads, RollClose(t) PROVE SizesInv'
  <2>1. \A s \in Threads : pc'[s] = "write" => pc[s] = "write"
    BY <1>6, <1>a DEF RollClose, Goto
  <2>2. \A s \in Threads : Rendered(s)' = Rendered(s)
    BY <1>6 DEF RollClose, Rendered, BufOf
  <2>3. fp' # "open"
    BY <1>6 DEF RollClose, CloseFile
  <2> QED
    BY <1>6, <2>1, <2>2, <2>3, SameSizes DEF RollClose
<1>7. ASSUME NEW t \in Threads, RollFile(t) PROVE SizesInv'
  <2>1. isopen' = 1 /\ NewFile
    BY <1>7 DEF RollFile, IInv, PlaceInv, Logging, Locked
  <2> QED
    BY <2>1, NewSizes
<1>8. CASE Start
  <2>1. \A s \in Threads : pc'[s] = "write" => pc[s] = "write"
    BY <1>8 DEF Start
  <2>2. \A s \in Threads : Rendered(s)' = Rendered(s)
    BY <1>8 DEF Start, Rendered, BufOf
  <2>3. \A s \in Everyone : pc[s] = "opened" => pc'[s] = "opened"
    BY <1>8 DEF Start
  <2>4. fp' = "open" => fp = "open" /\ (isopen' = 1 \/ \E s \in Everyone : pc'[s] = "opened")
    BY <1>8, <2>3 DEF Start, SizesInv
  <2> QED
    BY <1>8, <2>1, <2>2, <2>4, SameSizes DEF Start
<1>9. CASE Close
  <2>1. \A s \in Threads : pc[s] # "write" /\ pc'[s] # "write"
    BY <1>9, <1>a DEF Close, ThreadsJoined, Goto, IInv, PlaceInv
  <2>2. files' = files /\ fp' # "open"
    BY <1>9 DEF Close
  <2>3. \A f : Bytes(files'[f]) = Bytes(files[f])
    BY <2>2
  <2> QED
    BY <2>1, <2>2, <2>3 DEF SizesInv
<1>10. CASE UNCHANGED vars
  <2>1. \A s \in Threads : Rendered(s)' = Rendered(s)
    BY <1>10 DEF vars, Rendered, BufOf
  <2>2. fp' = "open" => fp = "open" /\ (isopen' = 1 \/ \E s \in Everyone : pc'[s] = "opened")
    BY <1>10 DEF vars, SizesInv
  <2> QED
    BY <1>10, <2>1, <2>2, SameSizes DEF vars
<1>11. ASSUME NEW t \in Threads, LogStep(t) PROVE SizesInv'
  BY <1>4, <1>5, <1>6, <1>7, <1>11, LockSizes, WriteSizes DEF LogStep
<1>12. ASSUME NEW t \in Everyone, OpenStep(t) PROVE SizesInv'
  BY <1>1, <1>2, <1>3, <1>12 DEF OpenStep
<1> QED
  BY <1>8, <1>9, <1>10, <1>11, <1>12 DEF Next

(* The counter that rollingfile_append asks the policy with is the length   *)
(* of the current file, and no file of several lines outgrows the limit,    *)
(* whichever threads log and however long their lines are, if the layout is *)
(* re-entrant: without a buffer of its own, what a thread writes may be     *)
(* longer than what it had the policy decide about.                         *)
THEOREM SizesCounted == ASSUME Reentrant PROVE Spec => []SizeCountsLines
<1>1. Spec => []IInv
  BY Invariant
<1>2. Init => OnceInv /\ SizesInv
  BY InitOnce, InitSizes
<1>3. IInv /\ OnceInv /\ SizesInv /\ [Next]_vars => OnceInv' /\ SizesInv'
  BY OnceInductive, SizesInductive
<1>4. SizesInv => SizeCountsLines
  BY DEF SizesInv, SizeCountsLines
<1> QED
  BY <1>1, <1>2, <1>3, <1>4, PTL DEF Spec
=============================================================================
