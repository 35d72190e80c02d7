-------------------------- MODULE ConfigTreeProofs --------------------------
(***************************************************************************)
(* The parser that bison made, for documents, names and stacks of any      *)
(* size: its tables accept the grammar, and its actions build the tree of  *)
(* the document.                                                           *)
(*                                                                         *)
(* The tables.  The proof says for every state what may be below it on the *)
(* stack (Path), how high the stack is then for the elements that are      *)
(* open, and in what mode of the grammar the tokens taken so far leave the *)
(* document (Place).  The elements that the actions keep open are those    *)
(* that the definition of a document's tree, which counts the tags between *)
(* two events, finds around the next one (Opened); hence the name that is  *)
(* compared at an end tag is the one that its element began with.          *)
(*                                                                         *)
(* The tree.  Grown says that a forest is the tree of the first n events   *)
(* of a document, by the places of its nodes, texts, attributes and        *)
(* children in the document, each in increasing order (Rising); Drawing,   *)
(* that the stack of elements are those open after these events.  Each     *)
(* event changes both as an action does.  What the parser has built may be *)
(* one event behind the tokens it has taken: Upto says for every state     *)
(* how far it is, and which values on the stack are still to come.         *)
(***************************************************************************)
EXTENDS ConfigTree, FiniteSetTheorems, NaturalsInduction, WellFoundedInduction, TLAPS

-----------------------------------------------------------------------------
(* Numbers. *)

\* Every set of numbers has a least one.
LEMMA Least ==
  ASSUME NEW T \in SUBSET Nat, T # {}
  PROVE  \E x \in T : \A y \in T : x <= y
<1> DEFINE R == OpToRel(<, Nat)
<1>1. IsWellFoundedOn(R, Nat)
  BY NatLessThanWellFounded
<1>2. \A m, n \in Nat : <<m, n>> \in R <=> m < n
  BY DEF OpToRel
<1> HIDE DEF R
<1>3. PICK x \in T : \A y \in T : ~ (<<y, x>> \in R)
  BY <1>1, WFMin
<1>4. ASSUME NEW y \in T PROVE x <= y
  <2>1. x \in Nat /\ y \in Nat
    OBVIOUS
  <2>2. ~ (y < x)
    BY <1>2, <1>3, <2>1
  <2> QED
    BY <2>1, <2>2
<1> QED
  BY <1>4

\* A set of numbers with 0 and all successors is all of them.
LEMMA Induction ==
  ASSUME NEW S \in SUBSET Nat, 0 \in S, \A n \in Nat : n \in S => n + 1 \in S
  PROVE  S = Nat
<1> SUFFICES ASSUME S # Nat PROVE FALSE
  OBVIOUS
<1>1. PICK x \in Nat \ S : \A y \in Nat \ S : x <= y
  BY Least
<1>2. x # 0 /\ x - 1 \in S
  BY <1>1
<1> QED
  BY <1>1, <1>2

-----------------------------------------------------------------------------
(* Modes: what the grammar's automaton says after each token. *)

Started == [mode |-> "before", depth |-> 0]

\* f gives the modes after the first k tokens of s.
ModesTo(f, s, k) == f[0] = Started /\ \A n \in 1..k : f[n] = B!TakeToken(f[n-1], s[n])

\* There is a function of the modes: the recursion of ModesOf is well defined.
LEMMA ModesExist ==
  ASSUME NEW s, NEW k \in Nat
  PROVE  \E f : f = [n \in 0..k |-> IF n = 0 THEN Started ELSE B!TakeToken(f[n-1], s[n])]
<1> DEFINE S == {n \in Nat : \E f : f = [m \in 0..n |-> f[m]] /\ ModesTo(f, s, n)}
<1>1. 0 \in S
  <2> DEFINE f == [m \in 0..0 |-> Started]
  <2>1. f = [m \in 0..0 |-> f[m]] /\ ModesTo(f, s, 0)
    BY DEF ModesTo
  <2> HIDE DEF f
  <2> QED
    BY <2>1
<1>2. ASSUME NEW n \in Nat, n \in S PROVE n + 1 \in S
  <2>1. PICK f : f = [m \in 0..n |-> f[m]] /\ ModesTo(f, s, n)
    BY <1>2
  <2> DEFINE g == [m \in 0..n+1 |-> IF m = n + 1 THEN B!TakeToken(f[n], s[n+1]) ELSE f[m]]
  <2>2. g = [m \in 0..n+1 |-> g[m]]
    OBVIOUS
  <2>3. g[0] = Started
    BY <2>1 DEF ModesTo
  <2>4. ASSUME NEW m \in 1..n+1 PROVE g[m] = B!TakeToken(g[m-1], s[m])
    <3>1. CASE m = n + 1
      <4>1. m - 1 = n /\ n \in 0..n+1 /\ n # n + 1 /\ m \in 0..n+1
        BY <3>1
      <4>2. g[m-1] = f[n] /\ g[m] = B!TakeToken(f[n], s[n+1])
        BY <3>1, <4>1
      <4> QED
        BY <3>1, <4>2
    <3>2. CASE m # n + 1
      <4>1. m \in 1..n /\ m \in 0..n+1 /\ m - 1 \in 0..n+1 /\ m - 1 # n + 1
        BY <3>2
      <4>2. g[m] = f[m] /\ g[m-1] = f[m-1]
        BY <3>2, <4>1
      <4>3. f[m] = B!TakeToken(f[m-1], s[m])
        BY <2>1, <4>1 DEF ModesTo
      <4> QED
        BY <4>2, <4>3
    <3> QED
      BY <3>1, <3>2
  <2> HIDE DEF g
  <2>5. ModesTo(g, s, n + 1)
    BY <2>3, <2>4 DEF ModesTo
  <2> QED
    BY <2>2, <2>5
<1>3. S = Nat
  <2>1. S \in SUBSET Nat
    OBVIOUS
  <2> HIDE DEF S
  <2> QED
    BY <1>1, <1>2, <2>1, Induction
<1>4. k \in S
  <2> HIDE DEF S
  <2> QED
    BY <1>3
<1>5. PICK f : f = [m \in 0..k |-> f[m]] /\ ModesTo(f, s, k)
  BY <1>4
<1>6. ASSUME NEW n \in 0..k PROVE f[n] = IF n = 0 THEN Started ELSE B!TakeToken(f[n-1], s[n])
  <2>1. CASE n = 0
    BY <1>5, <2>1 DEF ModesTo
  <2>2. CASE n # 0
    <3>1. n \in 1..k
      BY <2>2
    <3> QED
      BY <1>5, <2>2, <3>1 DEF ModesTo
  <2> QED
    BY <2>1, <2>2
<1>7. f = [n \in 0..k |-> IF n = 0 THEN Started ELSE B!TakeToken(f[n-1], s[n])]
  <2>1. [m \in 0..k |-> f[m]]
          = [n \in 0..k |-> IF n = 0 THEN Started ELSE B!TakeToken(f[n-1], s[n])]
    BY <1>6
  <2> QED
    BY <1>5, <2>1
<1> QED
  BY <1>7

\* There is one only.
LEMMA ModesUnique ==
  ASSUME NEW s, NEW k \in Nat, NEW f, NEW g, ModesTo(f, s, k), ModesTo(g, s, k)
  PROVE  \A n \in 0..k : f[n] = g[n]
<1> DEFINE S == {n \in Nat : n <= k => f[n] = g[n]}
<1>1. 0 \in S
  BY DEF ModesTo
<1>2. ASSUME NEW n \in Nat, n \in S PROVE n + 1 \in S
  <2> SUFFICES ASSUME n + 1 <= k PROVE f[n+1] = g[n+1]
    OBVIOUS
  <2>1. n + 1 \in 1..k /\ (n + 1) - 1 = n /\ f[n] = g[n]
    BY <1>2
  <2>2. f[n+1] = B!TakeToken(f[n], s[n+1]) /\ g[n+1] = B!TakeToken(g[n], s[n+1])
    BY <2>1 DEF ModesTo
  <2> QED
    BY <2>1, <2>2
<1>3. S \in SUBSET Nat
  OBVIOUS
<1> HIDE DEF S
<1>4. S = Nat
  BY <1>1, <1>2, <1>3, Induction
<1> QED
  BY <1>4 DEF S

\* Hence ModesOf gives the modes.
LEMMA ModesAre ==
  ASSUME NEW s, Len(s) \in Nat
  PROVE  ModesTo(B!ModesOf(s), s, Len(s))
<1> DEFINE k == Len(s)
           c == CHOOSE f : f = [n \in 0..k |-> IF n = 0 THEN Started ELSE B!TakeToken(f[n-1], s[n])]
<1>1. B!ModesOf(s) = c
  BY DEF B!ModesOf, Started
<1>2. \E f : f = [n \in 0..k |-> IF n = 0 THEN Started ELSE B!TakeToken(f[n-1], s[n])]
  <2> HIDE DEF k
  <2>1. k \in Nat
    BY DEF k
  <2> QED
    BY <2>1, ModesExist
<1>3. c = [n \in 0..k |-> IF n = 0 THEN Started ELSE B!TakeToken(c[n-1], s[n])]
  BY <1>2
<1> HIDE DEF c
<1>4. k \in Nat
  OBVIOUS
<1> HIDE DEF k
<1>5. c[0] = Started
  BY <1>3, <1>4
<1>6. ASSUME NEW n \in 1..k PROVE c[n] = B!TakeToken(c[n-1], s[n])
  <2>1. n \in 0..k /\ n # 0
    BY <1>4
  <2> QED
    BY <1>3, <2>1
<1>7. ModesTo(c, s, k)
  BY <1>5, <1>6 DEF ModesTo
<1> QED
  BY <1>1, <1>7 DEF k

\* One token more leaves the modes before it.
LEMMA ModesAppend ==
  ASSUME NEW S, NEW s \in Seq(S), NEW t \in S
  PROVE  /\ \A n \in 0..Len(s) : B!ModesOf(Append(s, t))[n] = B!ModesOf(s)[n]
         /\ B!ModesOf(Append(s, t))[Len(s) + 1] = B!TakeToken(B!ModesOf(s)[Len(s)], t)
<1> DEFINE r == Append(s, t)
           k == Len(s)
<1>1. k \in Nat /\ r \in Seq(S) /\ Len(r) = k + 1 /\ r[k + 1] = t /\ \A n \in 1..k : r[n] = s[n]
  OBVIOUS
<1> HIDE DEF r
<1>2. ModesTo(B!ModesOf(s), s, k)
  BY <1>1, ModesAre
<1> HIDE DEF k
<1>3. ModesTo(B!ModesOf(r), r, k + 1)
  BY <1>1, ModesAre
<1>4. ModesTo(B!ModesOf(r), s, k)
  <2>1. \A n \in 1..k : n \in 1..k+1
    BY <1>1
  <2> QED
    BY <1>1, <1>3, <2>1 DEF ModesTo
<1>5. \A n \in 0..k : B!ModesOf(r)[n] = B!ModesOf(s)[n]
  BY <1>1, <1>2, <1>4, ModesUnique
<1>6. B!ModesOf(r)[k + 1] = B!TakeToken(B!ModesOf(r)[k], t)
  <2>1. k + 1 \in 1..k+1 /\ (k + 1) - 1 = k
    BY <1>1
  <2> QED
    BY <1>1, <1>3, <2>1 DEF ModesTo
<1>7. k \in 0..k
  BY <1>1
<1> QED
  BY <1>5, <1>6, <1>7 DEF r, k

-----------------------------------------------------------------------------
(* Documents: the elements that are open after n events. *)

Around(d, i, n) ==
  /\ d[i].op = "open"
  /\ \A k \in i+1..n : B!Count(d, i, k, "close") < B!Count(d, i, k, "open")

\* op is where the elements that are open after n events were opened.
Nest(d, n, op) ==
  /\ op \in Seq(Nat)
  /\ \A i \in 1..Len(op) : op[i] \in 1..n
  /\ \A i, j \in 1..Len(op) : i < j => op[i] < op[j]
  /\ \A i \in 1..n : Around(d, i, n) <=> \E k \in 1..Len(op) : op[k] = i
  /\ \A k \in 1..Len(op) :
       B!Count(d, op[k], n, "open") = B!Count(d, op[k], n, "close") + Len(op) - k + 1

\* The instance brings its own names for the operators of the libraries.
LEMMA Cardinalities ==
  ASSUME NEW S
  PROVE  B!Cardinality(S) = Cardinality(S)
BY DEF B!Cardinality, Cardinality

\* A sequence without its last element.
LEMMA FrontOf ==
  ASSUME NEW S, NEW s \in Seq(S), Len(s) > 0
  PROVE  /\ Len(s) \in Nat /\ SubSeq(s, 1, Len(s) - 1) \in Seq(S)
         /\ Len(SubSeq(s, 1, Len(s) - 1)) = Len(s) - 1
         /\ \A k \in 1..Len(s)-1 : SubSeq(s, 1, Len(s) - 1)[k] = s[k]
<1> DEFINE n == Len(s) - 1
<1>1. Len(s) \in Nat /\ n \in Nat /\ n <= Len(s)
  OBVIOUS
<1> HIDE DEF n
<1>2. \A k \in 1..n : k \in 1..Len(s)
  BY <1>1
<1>3. SubSeq(s, 1, n) \in Seq(S)
  BY <1>1, <1>2
<1>4. Len(SubSeq(s, 1, n)) = n
  BY <1>1
<1>5. \A k \in 1..n : SubSeq(s, 1, n)[k] = s[k]
  BY <1>1, <1>2
<1> QED
  BY <1>1, <1>3, <1>4, <1>5 DEF n

\* The events of a kind are counted one by one.
LEMMA CountStep ==
  ASSUME NEW d, NEW i \in Nat, NEW n \in Nat, i <= n + 1, NEW o
  PROVE  /\ B!Count(d, i, n, o) \in Nat
         /\ B!Count(d, i, n + 1, o) = B!Count(d, i, n, o) + (IF d[n+1].op = o THEN 1 ELSE 0)
<1> DEFINE A == {k \in i..n : d[k].op = o}
           A1 == {k \in i..n+1 : d[k].op = o}
<1>1. IsFiniteSet(A)
  <2>1. IsFiniteSet(i..n)
    BY FS_Interval
  <2>2. A \subseteq i..n
    OBVIOUS
  <2> QED
    BY <2>1, <2>2, FS_Subset
<1>2. B!Count(d, i, n, o) = Cardinality(A) /\ B!Count(d, i, n + 1, o) = Cardinality(A1)
  BY Cardinalities DEF B!Count
<1>3. Cardinality(A) \in Nat
  BY <1>1, FS_CardinalityType
<1>4. CASE d[n+1].op = o
  <2>1. A1 = A \cup {n + 1} /\ n + 1 \notin A
    BY <1>4
  <2>2. Cardinality(A1) = Cardinality(A) + 1
    BY <1>1, <2>1, FS_AddElement
  <2> QED
    BY <1>2, <1>3, <1>4, <2>2
<1>5. CASE d[n+1].op # o
  <2>1. A1 = A
    BY <1>5
  <2> QED
    BY <1>2, <1>3, <1>5, <2>1
<1> QED
  BY <1>4, <1>5

\* An interval of one event.
LEMMA CountSelf ==
  ASSUME NEW d, NEW i \in Nat, NEW o
  PROVE  B!Count(d, i, i, o) = IF d[i].op = o THEN 1 ELSE 0
<1>1. {k \in i..i : d[k].op = o} = IF d[i].op = o THEN {i} ELSE {}
  OBVIOUS
<1>2. Cardinality({i}) = 1 /\ Cardinality({}) = 0
  BY FS_Singleton, FS_EmptySet
<1> QED
  BY <1>1, <1>2, Cardinalities DEF B!Count

\* An element stays around as long as it is not closed.
LEMMA AroundStep ==
  ASSUME NEW d, NEW n \in Nat, NEW i \in 1..n
  PROVE  Around(d, i, n + 1) <=> /\ Around(d, i, n)
                                 /\ B!Count(d, i, n + 1, "close") < B!Count(d, i, n + 1, "open")
<1>1. i+1..n+1 = (i+1..n) \cup {n + 1}
  OBVIOUS
<1> QED
  BY <1>1 DEF Around

\* An element that has just been opened is around what follows.
LEMMA AroundNew ==
  ASSUME NEW d, NEW n \in Nat
  PROVE  Around(d, n + 1, n + 1) <=> d[n+1].op = "open"
<1>1. (n + 1) + 1..n + 1 = {}
  OBVIOUS
<1> QED
  BY <1>1 DEF Around

\* An event that neither opens nor closes leaves the open elements.
LEMMA NestNone ==
  ASSUME NEW d, NEW n \in Nat, NEW op, Nest(d, n, op), d[n+1].op \notin {"open", "close"}
  PROVE  Nest(d, n + 1, op)
<1>0. Len(op) \in Nat
  BY DEF Nest
<1>1. ASSUME NEW i \in 1..n, NEW o \in {"open", "close"}
      PROVE  B!Count(d, i, n + 1, o) = B!Count(d, i, n, o) /\ B!Count(d, i, n, o) \in Nat
  <2>1. i \in Nat /\ i <= n + 1 /\ d[n+1].op # o
    OBVIOUS
  <2> QED
    BY <2>1, CountStep
<1>2. ASSUME NEW i \in 1..n PROVE Around(d, i, n + 1) <=> Around(d, i, n)
  <2>1. CASE i = n
    <3>1. B!Count(d, i, n, "open") = (IF d[i].op = "open" THEN 1 ELSE 0)
          /\ B!Count(d, i, n, "close") = (IF d[i].op = "close" THEN 1 ELSE 0)
      BY <2>1, CountSelf
    <3>2. d[i].op = "open" => B!Count(d, i, n, "close") < B!Count(d, i, n, "open")
      BY <3>1
    <3>3. B!Count(d, i, n + 1, "close") = B!Count(d, i, n, "close")
          /\ B!Count(d, i, n + 1, "open") = B!Count(d, i, n, "open")
      BY <1>1
    <3> HIDE <3>1
    <3>4. Around(d, i, n) => d[i].op = "open"
      BY DEF Around
    <3> QED
      BY <3>2, <3>3, <3>4, AroundStep
  <2>2. CASE i # n
    <3>1. n \in i+1..n
      BY <2>2
    <3>2. Around(d, i, n) => B!Count(d, i, n, "close") < B!Count(d, i, n, "open")
      BY <3>1 DEF Around
    <3> QED
      BY <1>1, <3>2, AroundStep
  <2> QED
    BY <2>1, <2>2
<1>3. ~ Around(d, n + 1, n + 1)
  BY AroundNew
<1>4. \A i \in 1..n+1 : Around(d, i, n + 1) <=> \E k \in 1..Len(op) : op[k] = i
  <2> SUFFICES ASSUME NEW i \in 1..n+1
               PROVE  Around(d, i, n + 1) <=> \E k \in 1..Len(op) : op[k] = i
    OBVIOUS
  <2>1. CASE i = n + 1
    <3>1. \A k \in 1..Len(op) : op[k] # i
      BY <2>1 DEF Nest
    <3> QED
      BY <1>3, <2>1, <3>1
  <2>2. CASE i # n + 1
    <3>1. i \in 1..n
      BY <2>2
    <3> QED
      BY <1>2, <3>1 DEF Nest
  <2> QED
    BY <2>1, <2>2
<1>5. \A k \in 1..Len(op) :
        B!Count(d, op[k], n + 1, "open") = B!Count(d, op[k], n + 1, "close") + Len(op) - k + 1
  <2> SUFFICES ASSUME NEW k \in 1..Len(op)
               PROVE  B!Count(d, op[k], n + 1, "open")
                        = B!Count(d, op[k], n + 1, "close") + Len(op) - k + 1
    OBVIOUS
  <2>1. op[k] \in 1..n
    BY DEF Nest
  <2>2. B!Count(d, op[k], n, "open") = B!Count(d, op[k], n, "close") + Len(op) - k + 1
    BY DEF Nest
  <2> QED
    BY <1>1, <2>1, <2>2
<1>6. \A i \in 1..Len(op) : op[i] \in 1..n+1
  BY DEF Nest
<1>7. op \in Seq(Nat) /\ \A i, j \in 1..Len(op) : i < j => op[i] < op[j]
  BY DEF Nest
<1> QED
  BY <1>4, <1>5, <1>6, <1>7 DEF Nest

\* One that opens adds an element.
LEMMA NestOpen ==
  ASSUME NEW d, NEW n \in Nat, NEW op, Nest(d, n, op), d[n+1].op = "open"
  PROVE  Nest(d, n + 1, Append(op, n + 1))
<1> DEFINE q == Append(op, n + 1)
           l == Len(op)
<1>1. op \in Seq(Nat) /\ l \in Nat
  BY DEF Nest
<1>2. /\ q \in Seq(Nat) /\ Len(q) = l + 1 /\ q[l + 1] = n + 1
      /\ \A k \in 1..l : q[k] = op[k]
  BY <1>1
<1> HIDE DEF q, l
<1>3. /\ \A k \in 1..l : op[k] \in 1..n
      /\ \A i, j \in 1..l : i < j => op[i] < op[j]
      /\ \A i \in 1..n : Around(d, i, n) <=> \E k \in 1..l : op[k] = i
      /\ \A k \in 1..l : B!Count(d, op[k], n, "open") = B!Count(d, op[k], n, "close") + l - k + 1
  BY DEF Nest, l
<1>4. ASSUME NEW i \in 1..n
      PROVE  /\ B!Count(d, i, n + 1, "open") = B!Count(d, i, n, "open") + 1
             /\ B!Count(d, i, n + 1, "close") = B!Count(d, i, n, "close")
             /\ B!Count(d, i, n, "open") \in Nat /\ B!Count(d, i, n, "close") \in Nat
  <2>1. i \in Nat /\ i <= n + 1
    OBVIOUS
  <2>2. B!Count(d, i, n + 1, "open")
          = B!Count(d, i, n, "open") + (IF d[n+1].op = "open" THEN 1 ELSE 0)
        /\ B!Count(d, i, n, "open") \in Nat
    BY <2>1, CountStep
  <2>3. B!Count(d, i, n + 1, "close")
          = B!Count(d, i, n, "close") + (IF d[n+1].op = "close" THEN 1 ELSE 0)
        /\ B!Count(d, i, n, "close") \in Nat
    BY <2>1, CountStep
  <2> QED
    BY <2>2, <2>3
<1>5. ASSUME NEW i \in 1..n PROVE Around(d, i, n + 1) <=> Around(d, i, n)
  <2>1. ASSUME Around(d, i, n)
        PROVE  B!Count(d, i, n, "close") <= B!Count(d, i, n, "open")
    <3>1. PICK k \in 1..l : op[k] = i
      BY <1>3, <2>1
    <3>2. B!Count(d, i, n, "open") = B!Count(d, i, n, "close") + l - k + 1
      BY <1>3, <3>1
    <3> QED
      BY <1>1, <1>4, <3>1, <3>2
  <2>2. Around(d, i, n) => B!Count(d, i, n + 1, "close") < B!Count(d, i, n + 1, "open")
    BY <1>4, <2>1
  <2> QED
    BY <2>2, AroundStep
<1>6. Around(d, n + 1, n + 1)
  BY AroundNew
<1>7. ASSUME NEW i \in 1..n+1
      PROVE  Around(d, i, n + 1) <=> \E k \in 1..l+1 : q[k] = i
  <2>1. CASE i = n + 1
    <3>1. l + 1 \in 1..l+1 /\ q[l + 1] = i
      BY <1>1, <1>2, <2>1
    <3> QED
      BY <1>6, <2>1, <3>1
  <2>2. CASE i # n + 1
    <3>1. i \in 1..n
      BY <2>2
    <3>2. \A k \in 1..l+1 : q[k] = i => k \in 1..l /\ op[k] = i
      BY <1>1, <1>2, <2>2
    <3>3. \A k \in 1..l : op[k] = i => k \in 1..l+1 /\ q[k] = i
      BY <1>1, <1>2
    <3> QED
      BY <1>3, <1>5, <3>1, <3>2, <3>3
  <2> QED
    BY <2>1, <2>2
<1>8. ASSUME NEW k \in 1..l+1
      PROVE  B!Count(d, q[k], n + 1, "open") = B!Count(d, q[k], n + 1, "close") + (l + 1) - k + 1
  <2>1. CASE k = l + 1
    <3>1. B!Count(d, n + 1, n + 1, "open") = 1 /\ B!Count(d, n + 1, n + 1, "close") = 0
      BY CountSelf
    <3> QED
      BY <1>1, <1>2, <2>1, <3>1
  <2>2. CASE k # l + 1
    <3>1. k \in 1..l /\ q[k] = op[k] /\ op[k] \in 1..n
      BY <1>1, <1>2, <1>3, <2>2
    <3>2. B!Count(d, op[k], n, "open") = B!Count(d, op[k], n, "close") + l - k + 1
      BY <1>3, <3>1
    <3>3. /\ B!Count(d, op[k], n + 1, "open") = B!Count(d, op[k], n, "open") + 1
          /\ B!Count(d, op[k], n + 1, "close") = B!Count(d, op[k], n, "close")
          /\ B!Count(d, op[k], n, "close") \in Nat
      BY <1>4, <3>1
    <3> QED
      BY <1>1, <3>1, <3>2, <3>3
  <2> QED
    BY <2>1, <2>2
<1>9. ASSUME NEW k \in 1..l+1 PROVE q[k] \in 1..n+1
  <2>1. CASE k = l + 1
    BY <1>2, <2>1
  <2>2. CASE k # l + 1
    <3>1. k \in 1..l
      BY <1>1, <2>2
    <3>2. q[k] = op[k] /\ op[k] \in 1..n
      BY <1>2, <1>3, <3>1
    <3> QED
      BY <3>2
  <2> QED
    BY <2>1, <2>2
<1>10. ASSUME NEW i \in 1..l+1, NEW j \in 1..l+1, i < j PROVE q[i] < q[j]
  <2>1. i \in 1..l /\ q[i] = op[i] /\ op[i] \in 1..n
    BY <1>1, <1>2, <1>3, <1>10
  <2>2. CASE j = l + 1
    BY <1>2, <2>1, <2>2
  <2>3. CASE j # l + 1
    <3>1. j \in 1..l /\ q[j] = op[j]
      BY <1>1, <1>2, <2>3
    <3> QED
      BY <1>3, <1>10, <2>1, <3>1
  <2> QED
    BY <2>2, <2>3
<1> QED
  BY <1>2, <1>7, <1>8, <1>9, <1>10 DEF Nest, q

\* One that closes takes the last away.
LEMMA NestClose ==
  ASSUME NEW d, NEW n \in Nat, NEW op, Nest(d, n, op), d[n+1].op = "close", Len(op) > 0
  PROVE  Nest(d, n + 1, SubSeq(op, 1, Len(op) - 1))
<1> DEFINE q == SubSeq(op, 1, Len(op) - 1)
           l == Len(op)
<1>1. op \in Seq(Nat) /\ l \in Nat \ {0}
  BY DEF Nest
<1>2. q \in Seq(Nat) /\ Len(q) = l - 1 /\ \A k \in 1..l-1 : q[k] = op[k]
  BY <1>1, FrontOf
<1> HIDE DEF q, l
<1>3. /\ \A k \in 1..l : op[k] \in 1..n
      /\ \A i, j \in 1..l : i < j => op[i] < op[j]
      /\ \A i \in 1..n : Around(d, i, n) <=> \E k \in 1..l : op[k] = i
      /\ \A k \in 1..l : B!Count(d, op[k], n, "open") = B!Count(d, op[k], n, "close") + l - k + 1
  BY DEF Nest, l
<1>4. ASSUME NEW i \in 1..n
      PROVE  /\ B!Count(d, i, n + 1, "open") = B!Count(d, i, n, "open")
             /\ B!Count(d, i, n + 1, "close") = B!Count(d, i, n, "close") + 1
             /\ B!Count(d, i, n, "open") \in Nat /\ B!Count(d, i, n, "close") \in Nat
  <2>1. i \in Nat /\ i <= n + 1
    OBVIOUS
  <2>2. B!Count(d, i, n + 1, "open")
          = B!Count(d, i, n, "open") + (IF d[n+1].op = "open" THEN 1 ELSE 0)
        /\ B!Count(d, i, n, "open") \in Nat
    BY <2>1, CountStep
  <2>3. B!Count(d, i, n + 1, "close")
          = B!Count(d, i, n, "close") + (IF d[n+1].op = "close" THEN 1 ELSE 0)
        /\ B!Count(d, i, n, "close") \in Nat
    BY <2>1, CountStep
  <2> QED
    BY <2>2, <2>3
<1>5. ASSUME NEW k \in 1..l
      PROVE  B!Count(d, op[k], n + 1, "open") = B!Count(d, op[k], n + 1, "close") + (l - 1) - k + 1
  <2>1. op[k] \in 1..n
    BY <1>3
  <2>2. B!Count(d, op[k], n, "open") = B!Count(d, op[k], n, "close") + l - k + 1
    BY <1>3
  <2>3. /\ B!Count(d, op[k], n + 1, "open") = B!Count(d, op[k], n, "open")
        /\ B!Count(d, op[k], n + 1, "close") = B!Count(d, op[k], n, "close") + 1
        /\ B!Count(d, op[k], n, "close") \in Nat
    BY <1>4, <2>1
  <2> QED
    BY <1>1, <2>2, <2>3
<1>6. ASSUME NEW i \in 1..n+1
      PROVE  Around(d, i, n + 1) <=> \E k \in 1..l-1 : q[k] = i
  <2>1. CASE i = n + 1
    <3>1. ~ Around(d, n + 1, n + 1)
      BY AroundNew
    <3>2. \A k \in 1..l-1 : q[k] # i
      <4>1. \A k \in 1..l-1 : k \in 1..l /\ q[k] = op[k]
        BY <1>1, <1>2
      <4> QED
        BY <1>3, <2>1, <4>1
    <3> QED
      BY <2>1, <3>1, <3>2
  <2>2. CASE i # n + 1
    <3>1. i \in 1..n
      BY <2>2
    <3>2. CASE ~ Around(d, i, n)
      <4>1. \A k \in 1..l-1 : k \in 1..l /\ q[k] = op[k]
        BY <1>1, <1>2
      <4>2. \A k \in 1..l-1 : q[k] # i
        BY <1>3, <3>1, <3>2, <4>1
      <4> QED
        BY <3>1, <3>2, <4>2, AroundStep
    <3>3. CASE Around(d, i, n)
      <4>1. PICK k \in 1..l : op[k] = i
        BY <1>3, <3>1, <3>3
      <4>2. Around(d, i, n + 1)
              <=> B!Count(d, i, n + 1, "close") < B!Count(d, i, n + 1, "open")
        BY <3>1, <3>3, AroundStep
      <4>3. B!Count(d, i, n + 1, "open") = B!Count(d, i, n + 1, "close") + (l - 1) - k + 1
            /\ B!Count(d, i, n + 1, "close") \in Nat
        BY <1>4, <1>5, <3>1, <4>1
      <4>4. Around(d, i, n + 1) <=> k < l
        BY <1>1, <4>1, <4>2, <4>3
      <4>5. k < l => \E m \in 1..l-1 : q[m] = i
        <5> SUFFICES ASSUME k < l PROVE \E m \in 1..l-1 : q[m] = i
          OBVIOUS
        <5>1. k \in 1..l-1
          BY <1>1, <4>1
        <5> QED
          BY <1>2, <4>1, <5>1
      <4>6. ASSUME NEW m \in 1..l-1, q[m] = i PROVE k < l
        <5>1. m \in 1..l /\ op[m] = i /\ l \in 1..l /\ m < l
          BY <1>1, <1>2, <4>6
        <5>2. op[m] < op[l]
          BY <1>3, <5>1
        <5>3. op[m] \in Nat
          BY <1>3, <5>1
        <5>4. k # l
          BY <4>1, <5>1, <5>2, <5>3
        <5> QED
          BY <1>1, <4>1, <5>4
      <4> QED
        BY <4>4, <4>5, <4>6
    <3> QED
      BY <3>2, <3>3
  <2> QED
    BY <2>1, <2>2
<1>7. \A k \in 1..l-1 : k \in 1..l /\ q[k] = op[k]
  BY <1>1, <1>2
<1>8. \A k \in 1..l-1 : q[k] \in 1..n+1
  BY <1>3, <1>7
<1>9. \A i, j \in 1..l-1 : i < j => q[i] < q[j]
  BY <1>3, <1>7
<1>10. \A k \in 1..l-1 :
         B!Count(d, q[k], n + 1, "open") = B!Count(d, q[k], n + 1, "close") + (l - 1) - k + 1
  BY <1>5, <1>7
<1> QED
  BY <1>2, <1>6, <1>8, <1>9, <1>10 DEF Nest, q

\* At the start none is open.
LEMMA NestStart ==
  ASSUME NEW d
  PROVE  Nest(d, 0, << >>)
<1>1. << >> \in Seq(Nat) /\ Len(<< >>) = 0
  OBVIOUS
<1> QED
  BY <1>1 DEF Nest

\* Only what the first n events are counts.
LEMMA CountSame ==
  ASSUME NEW c, NEW d, NEW n \in Nat, \A j \in 1..n : c[j].op = d[j].op,
         NEW i \in 1..n, NEW k \in Nat, k <= n, NEW o
  PROVE  B!Count(c, i, k, o) = B!Count(d, i, k, o)
<1>1. {m \in i..k : c[m].op = o} = {m \in i..k : d[m].op = o}
  OBVIOUS
<1> QED
  BY <1>1 DEF B!Count

\* So is what is around an event.
LEMMA AroundSame ==
  ASSUME NEW c, NEW d, NEW n \in Nat, \A j \in 1..n : c[j].op = d[j].op, NEW i \in 1..n,
         NEW k \in Nat, k <= n
  PROVE  Around(c, i, k) <=> Around(d, i, k)
<1>0. ASSUME NEW m \in Nat, m <= n, NEW o PROVE B!Count(c, i, m, o) = B!Count(d, i, m, o)
  BY <1>0, CountSame
<1>1. \A m \in i+1..k : /\ B!Count(c, i, m, "close") = B!Count(d, i, m, "close")
                        /\ B!Count(c, i, m, "open") = B!Count(d, i, m, "open")
  <2>1. \A m \in i+1..k : m \in Nat /\ m <= n
    OBVIOUS
  <2> QED
    BY <1>0, <2>1
<1>2. c[i].op = d[i].op
  OBVIOUS
<1> QED
  BY <1>1, <1>2 DEF Around

\* And which elements are open.
LEMMA NestSame ==
  ASSUME NEW c, NEW d, NEW n \in Nat, \A j \in 1..n : c[j].op = d[j].op, NEW op, Nest(c, n, op)
  PROVE  Nest(d, n, op)
<1>1. \A i \in 1..n : Around(c, i, n) <=> Around(d, i, n)
  BY AroundSame
<1>2. \A i \in 1..n, o \in {"open", "close"} : B!Count(c, i, n, o) = B!Count(d, i, n, o)
  BY CountSame
<1>3. \A k \in 1..Len(op) : op[k] \in 1..n
  BY DEF Nest
<1>4. \A i \in 1..n : Around(d, i, n) <=> \E k \in 1..Len(op) : op[k] = i
  BY <1>1 DEF Nest
<1>5. \A k \in 1..Len(op) :
        B!Count(d, op[k], n, "open") = B!Count(d, op[k], n, "close") + Len(op) - k + 1
  BY <1>2, <1>3 DEF Nest
<1>6. op \in Seq(Nat) /\ \A i, j \in 1..Len(op) : i < j => op[i] < op[j]
  BY DEF Nest
<1> QED
  BY <1>3, <1>4, <1>5, <1>6 DEF Nest

\* The element in which event j is.
Highest(S) == IF S = {} THEN 0 ELSE CHOOSE i \in S : \A k \in S : k <= i

\* ParentOf is the highest of the elements around.
LEMMA ParentIs ==
  ASSUME NEW d, NEW j
  PROVE  B!ParentOf(d, j) = Highest({i \in 1..j-1 : Around(d, i, j - 1)})
<1> DEFINE A == {i \in 1..j-1 :
                   /\ d[i].op = "open"
                   /\ \A k \in i+1..j-1 : B!Count(d, i, k, "close") < B!Count(d, i, k, "open")}
<1>1. B!ParentOf(d, j) = Highest(A)
  BY DEF B!ParentOf, Highest
<1>2. A = {i \in 1..j-1 : Around(d, i, j - 1)}
  BY DEF Around
<1> QED
  BY <1>1, <1>2

\* The parent of the next event is the element that was opened last.
LEMMA ParentTop ==
  ASSUME NEW d, NEW n \in Nat, NEW op, Nest(d, n, op)
  PROVE  B!ParentOf(d, n + 1) = IF Len(op) = 0 THEN 0 ELSE op[Len(op)]
<1> DEFINE A == {i \in 1..n : Around(d, i, n)}
<1>1. (n + 1) - 1 = n
  OBVIOUS
<1>2. B!ParentOf(d, n + 1) = Highest(A)
  BY <1>1, ParentIs
<1>3. \A i \in 1..n : i \in A <=> \E k \in 1..Len(op) : op[k] = i
  BY DEF Nest
<1>4. op \in Seq(Nat) /\ Len(op) \in Nat /\ \A k \in 1..Len(op) : op[k] \in 1..n
  BY DEF Nest
<1>5. A \subseteq 1..n
  OBVIOUS
<1> HIDE DEF A
<1>6. CASE Len(op) = 0
  <2>1. A = {}
    BY <1>3, <1>5, <1>6
  <2> QED
    BY <1>2, <1>6, <2>1 DEF Highest
<1>7. CASE Len(op) # 0
  <2> DEFINE t == op[Len(op)]
  <2>1. Len(op) \in 1..Len(op) /\ t \in 1..n
    BY <1>4, <1>7
  <2>2. t \in A
    BY <1>3, <2>1
  <2>3. ASSUME NEW i \in A PROVE i <= t
    <3>1. PICK k \in 1..Len(op) : op[k] = i
      BY <1>3, <1>5
    <3>2. k = Len(op) \/ op[k] < t
      BY <1>4, <2>1 DEF Nest
    <3> QED
      BY <1>4, <2>1, <3>1, <3>2
  <2>4. A # {} /\ A \subseteq Nat
    BY <1>5, <2>2
  <2> HIDE DEF t
  <2>5. (CHOOSE i \in A : \A k \in A : k <= i) = t
    <3>1. \E i \in A : \A k \in A : k <= i
      BY <2>2, <2>3
    <3> DEFINE c == CHOOSE i \in A : \A k \in A : k <= i
    <3>2. c \in A /\ \A k \in A : k <= c
      BY <3>1
    <3> HIDE DEF c
    <3>3. c = t
      <4>1. t <= c /\ c <= t /\ c \in Nat /\ t \in Nat
        BY <2>2, <2>3, <2>4, <3>2
      <4> QED
        BY <4>1
    <3> QED
      BY <3>3 DEF c
  <2> QED
    BY <1>2, <1>7, <2>4, <2>5 DEF t, Highest
<1> QED
  BY <1>6, <1>7

\* The parent depends on the earlier events only.
LEMMA ParentSame ==
  ASSUME NEW c, NEW d, NEW n \in Nat, \A j \in 1..n : c[j].op = d[j].op, NEW j \in 1..n+1
  PROVE  B!ParentOf(c, j) = B!ParentOf(d, j)
<1>1. {i \in 1..j-1 : Around(c, i, j - 1)} = {i \in 1..j-1 : Around(d, i, j - 1)}
  <2>1. \A i \in 1..j-1 : Around(c, i, j - 1) <=> Around(d, i, j - 1)
    <3> SUFFICES ASSUME NEW i \in 1..j-1 PROVE Around(c, i, j - 1) <=> Around(d, i, j - 1)
      OBVIOUS
    <3>1. i \in 1..n /\ j - 1 \in Nat /\ j - 1 <= n
      OBVIOUS
    <3> QED
      BY <3>1, AroundSame
  <2> QED
    BY <2>1
<1> QED
  BY <1>1, ParentIs

-----------------------------------------------------------------------------
(* The tables: which states look at the next token, what they do with it    *)
(* (0 is an error), by which rule a state reduces otherwise, and where the  *)
(* rule leads to.                                                           *)

Consulting == {1, 7, 8, 9, 11, 15, 16, 17, 23, 25, 26}

ShiftTo(s, k) ==
  CASE s = 1  -> (CASE k = 11 -> 2 [] k = 12 -> 3 [] OTHER -> 0)
    [] s = 7  -> (IF k = 11 THEN 2 ELSE 0)
    [] s = 8  -> (CASE k = 5 -> 9 [] k = 6 -> 10 [] k = 8 -> 11 [] OTHER -> 0)
    [] s = 9  -> (IF k = 6 THEN 14 ELSE 0)
    [] s = 11 -> (IF k = 4 THEN 16 ELSE 0)
    [] s = 15 -> (CASE k = 7 -> 17 [] k = 10 -> 18 [] k = 11 -> 2 [] k = 12 -> 3 [] OTHER -> 0)
    [] s = 16 -> (IF k = 9 THEN 21 ELSE 0)
    [] s = 17 -> (IF k = 8 THEN 22 ELSE 0)
    [] s = 23 -> (IF k = 6 THEN 24 ELSE 0)
    [] s = 25 -> (IF k = 0 THEN 26 ELSE 0)
    [] s = 26 -> (IF k = 0 THEN 27 ELSE 0)
    [] OTHER  -> 0

Looked(s, k) == B!Entry(B!At(B!yypact, s) + k, k, 0)

\* What a state does with a token.
LEMMA ShiftTable ==
  ASSUME NEW s \in 0..26, NEW k \in 0..12
  PROVE  /\ B!At(B!yypact, s) # B!YYFLAG <=> s \in Consulting
         /\ s \in Consulting => Looked(s, k) = ShiftTo(s, k)
BY DEF Consulting, Looked, ShiftTo, B!Entry, B!At, B!yypact, B!yytable, B!yycheck, B!YYFLAG,
       B!YYLAST

ReduceBy(s) ==
  CASE s \in {0, 5} -> 3  [] s = 2  -> 4  [] s = 3  -> 5  [] s = 4  -> 2  [] s = 6  -> 15
    [] s = 7  -> 1  [] s = 10 -> 12 [] s = 11 -> 16 [] s = 12 -> 6  [] s = 13 -> 14
    [] s = 14 -> 7  [] s = 18 -> 9  [] s = 19 -> 11 [] s = 20 -> 10 [] s = 21 -> 17
    [] s = 22 -> 13 [] s = 24 -> 8  [] OTHER -> 0

\* By which rule it reduces.
LEMMA ReduceTable == ASSUME NEW s \in 0..26 PROVE B!At(B!yydefact, s) = ReduceBy(s)
BY DEF ReduceBy, B!At, B!yydefact

Led(n, s) ==
  B!Entry(B!At(B!yypgoto, B!At(B!yyr1, n) - B!YYNTBASE) + s, s,
          B!At(B!yydefgoto, B!At(B!yyr1, n) - B!YYNTBASE))

\* Where the rule leads to from the state below.
LEMMA GotoTable ==
  /\ Led(1, 0) = 25
  /\ \A n \in {2, 3} : Led(n, 0) = 1 /\ Led(n, 5) = 7
  /\ Led(4, 1) = 4 /\ Led(4, 7) = 4 /\ Led(4, 15) = 19
  /\ Led(5, 3) = 6
  /\ Led(6, 1) = 5 /\ Led(6, 15) = 20
  /\ \A n \in {7, 8} : Led(n, 8) = 12
  /\ \A n \in {9, 10, 11, 12} : Led(n, 10) = 15
  /\ Led(13, 17) = 23
  /\ \A n \in {14, 15} : Led(n, 6) = 8
  /\ \A n \in {16, 17} : Led(n, 8) = 13
<1> USE DEF Led, B!Entry, B!At, B!yypgoto, B!yyr1, B!yydefgoto, B!yytable, B!yycheck, B!YYNTBASE,
            B!YYLAST, B!YYFLAG
<1>1. Led(1, 0) = 25
  OBVIOUS
<1>2. Led(2, 0) = 1
  OBVIOUS
<1>3. Led(3, 0) = 1
  OBVIOUS
<1>4. Led(2, 5) = 7
  OBVIOUS
<1>5. Led(3, 5) = 7
  OBVIOUS
<1>6. Led(4, 1) = 4
  OBVIOUS
<1>7. Led(4, 7) = 4
  OBVIOUS
<1>8. Led(4, 15) = 19
  OBVIOUS
<1>9. Led(5, 3) = 6
  OBVIOUS
<1>10. Led(6, 1) = 5
  OBVIOUS
<1>11. Led(6, 15) = 20
  OBVIOUS
<1>12. Led(7, 8) = 12
  OBVIOUS
<1>13. Led(8, 8) = 12
  OBVIOUS
<1>14. Led(9, 10) = 15
  OBVIOUS
<1>15. Led(10, 10) = 15
  OBVIOUS
<1>16. Led(11, 10) = 15
  OBVIOUS
<1>17. Led(12, 10) = 15
  OBVIOUS
<1>18. Led(13, 17) = 23
  OBVIOUS
<1>19. Led(14, 6) = 8
  OBVIOUS
<1>20. Led(15, 6) = 8
  OBVIOUS
<1>21. Led(16, 8) = 13
  OBVIOUS
<1>22. Led(17, 8) = 13
  OBVIOUS
<1> QED
  BY <1>1, <1>2, <1>3, <1>4, <1>5, <1>6, <1>7, <1>8, <1>9, <1>10, <1>11, <1>12, <1>13, <1>14,
     <1>15, <1>16, <1>17, <1>18, <1>19, <1>20, <1>21, <1>22

\* How many symbols a rule takes off the stack.
Symbols(n) ==
  CASE n \in {3, 5, 12, 15} -> 0 [] n \in {4, 13, 16} -> 1 [] n \in {2, 7, 9, 10, 11, 14} -> 2
    [] n \in {1, 17} -> 3 [] n = 6 -> 4 [] n = 8 -> 5 [] OTHER -> 0

\* How many symbols it takes off.
LEMMA SymbolTable == ASSUME NEW n \in 1..17 PROVE B!At(B!yyr2, n) = Symbols(n)
BY DEF Symbols, B!At, B!yyr2

-----------------------------------------------------------------------------
(* The stack of states. *)

States == 0..26

\* State s may stand on state r.
Under(r, s) ==
  \/ s \in {1, 25} /\ r = 0
  \/ s = 2 /\ r \in {1, 7, 15}
  \/ s = 3 /\ r \in {1, 15}
  \/ s = 4 /\ r \in {1, 7}
  \/ s = 5 /\ r = 1
  \/ s = 6 /\ r = 3
  \/ s = 7 /\ r = 5
  \/ s = 8 /\ r = 6
  \/ s \in 9..13 /\ r = 8
  \/ s = 14 /\ r = 9
  \/ s = 15 /\ r = 10
  \/ s = 16 /\ r = 11
  \/ s \in 17..20 /\ r = 15
  \/ s = 21 /\ r = 16
  \/ s \in {22, 23} /\ r = 17
  \/ s = 24 /\ r = 23
  \/ s = 26 /\ r = 25

Path(ss) ==
  /\ ss \in Seq(States) /\ Len(ss) >= 1 /\ ss[1] = 0
  /\ \A j \in 2..Len(ss) : Under(ss[j-1], ss[j])

Top(ss) == ss[Len(ss)]

\* What a state stands on.
LEMMA UnderFacts ==
  ASSUME NEW r \in States, NEW s \in States, Under(r, s)
  PROVE  /\ r = 0 <=> s \in {1, 25}
         /\ s # 0
         /\ s = 3 => r \in {1, 15}
         /\ s = 4 => r \in {1, 7}
         /\ s = 5 => r = 1
         /\ s = 6 => r = 3
         /\ s = 7 => r = 5
         /\ s = 8 => r = 6
         /\ s \in {9, 10, 11, 12, 13} => r = 8
         /\ s = 14 => r = 9
         /\ s = 15 => r = 10
         /\ s = 16 => r = 11
         /\ s \in {17, 18, 19, 20} => r = 15
         /\ s = 21 => r = 16
         /\ s \in {22, 23} => r = 17
         /\ s = 24 => r = 23
BY DEF Under, States

\* A state above the bottom stands on one that may be below it.
LEMMA PathStep ==
  ASSUME NEW ss, Path(ss), NEW j \in 1..Len(ss), ss[j] # 0
  PROVE  /\ j - 1 \in 1..Len(ss) /\ Under(ss[j-1], ss[j])
         /\ (ss[j] \in {1, 25}) <=> (j = 2)
         /\ ss[j] \in States /\ ss[j-1] \in States
<1>1. Len(ss) \in Nat /\ \A i \in 1..Len(ss) : ss[i] \in States
  BY DEF Path
<1>2. j # 1
  BY DEF Path
<1>3. j \in 2..Len(ss) /\ j - 1 \in 1..Len(ss)
  BY <1>1, <1>2
<1>4. Under(ss[j-1], ss[j])
  BY <1>3 DEF Path
<1>5. ss[j-1] = 0 => j = 2
  <2> SUFFICES ASSUME ss[j-1] = 0, j # 2 PROVE FALSE
    OBVIOUS
  <2>1. j - 1 \in 2..Len(ss)
    BY <1>1, <1>3
  <2>2. Under(ss[j-1-1], ss[j-1]) /\ ss[j-1-1] \in States
    BY <1>1, <2>1 DEF Path
  <2>3. ss[j-1] \in States
    BY <1>1, <1>3
  <2> QED
    BY <2>2, <2>3, UnderFacts
<1>6. j = 2 => ss[j-1] = 0
  BY DEF Path
<1>7. ss[j-1] = 0 <=> ss[j] \in {1, 25}
  BY <1>1, <1>3, <1>4, UnderFacts
<1> QED
  BY <1>1, <1>3, <1>4, <1>5, <1>6, <1>7

\* Place i is the one below place j.
Link(ss, i, j) == Path(ss) /\ i \in Int /\ j \in 1..Len(ss) /\ j = i + 1

\* What is below a state, one place down.
LEMMA Down ==
  ASSUME NEW ss, NEW i, NEW j, Link(ss, i, j)
  PROVE  /\ ss[j] = 1 => j = 2
         /\ ss[j] = 25 => j = 2
         /\ j = 2 => ss[j] = 1 \/ ss[j] = 25
         /\ ss[j] # 0 => i \in 1..Len(ss) /\ i - 1 \in Int /\ Link(ss, i - 1, i)
         /\ ss[j] = 3 => ss[i] \in {1, 15}
         /\ ss[j] = 4 => ss[i] \in {1, 7}
         /\ ss[j] = 5 => ss[i] = 1
         /\ ss[j] = 6 => ss[i] = 3
         /\ ss[j] = 7 => ss[i] = 5
         /\ ss[j] = 8 => ss[i] = 6
         /\ ss[j] \in {9, 10, 11, 12, 13} => ss[i] = 8
         /\ ss[j] = 14 => ss[i] = 9
         /\ ss[j] = 15 => ss[i] = 10
         /\ ss[j] = 16 => ss[i] = 11
         /\ ss[j] \in {17, 18, 19, 20} => ss[i] = 15
         /\ ss[j] = 21 => ss[i] = 16
         /\ ss[j] \in {22, 23} => ss[i] = 17
         /\ ss[j] = 24 => ss[i] = 23
<1>0. Path(ss) /\ i \in Int /\ j \in 1..Len(ss) /\ j = i + 1 /\ Len(ss) \in Nat
  BY DEF Link, Path
<1>1. CASE ss[j] = 0
  <2>1. j # 2
    <3> SUFFICES ASSUME j = 2 PROVE FALSE
      OBVIOUS
    <3>1. Under(ss[1], ss[2]) /\ ss[1] \in States /\ ss[2] \in States
      BY <1>0 DEF Path
    <3> QED
      BY <1>1, <3>1, UnderFacts
  <2> QED
    BY <1>1, <2>1
<1>2. CASE ss[j] # 0
  <2>1. j - 1 = i
    BY <1>0
  <2>2. /\ i \in 1..Len(ss) /\ Under(ss[i], ss[j])
        /\ (ss[j] \in {1, 25}) <=> (j = 2)
        /\ ss[j] \in States /\ ss[i] \in States
    BY <1>0, <1>2, <2>1, PathStep
  <2>3. i - 1 \in Int /\ Link(ss, i - 1, i)
    BY <1>0, <2>2 DEF Link
  <2> DEFINE r == ss[i]
             t == ss[j]
  <2>4. r \in States /\ t \in States /\ Under(r, t)
    BY <2>2
  <2> HIDE DEF r, t
  <2>5. /\ t = 3 => r \in {1, 15}
        /\ t = 4 => r \in {1, 7}
        /\ t = 5 => r = 1
        /\ t = 6 => r = 3
        /\ t = 7 => r = 5
        /\ t = 8 => r = 6
        /\ t \in {9, 10, 11, 12, 13} => r = 8
        /\ t = 14 => r = 9
        /\ t = 15 => r = 10
        /\ t = 16 => r = 11
        /\ t \in {17, 18, 19, 20} => r = 15
        /\ t = 21 => r = 16
        /\ t \in {22, 23} => r = 17
        /\ t = 24 => r = 23
    BY <2>4 DEF Under, States
  <2> QED
    BY <2>2, <2>3, <2>5 DEF r, t
<1> QED
  BY <1>1, <1>2

\* A state of a content has an element below it.
LEMMA PathHigh ==
  ASSUME NEW ss, Path(ss), NEW j \in 1..Len(ss), ss[j] = 15
  PROVE  j >= 7
<1> DEFINE a == j - 1
           b == j - 2
           c == j - 3
           d == j - 4
           e == j - 5
<1>1. /\ Link(ss, a, j)
      /\ a - 1 = b /\ b - 1 = c /\ c - 1 = d /\ d - 1 = e
  BY DEF Link
<1>2. e - 1 >= 1 => j >= 7
  OBVIOUS
<1> HIDE DEF a, b, c, d, e
<1>3. ss[a] = 10 /\ Link(ss, b, a)
  BY <1>1, Down
<1>4. ss[b] = 8 /\ Link(ss, c, b)
  BY <1>1, <1>3, Down
<1>5. ss[c] = 6 /\ Link(ss, d, c)
  BY <1>1, <1>4, Down
<1>6. ss[d] = 3 /\ Link(ss, e, d)
  BY <1>1, <1>5, Down
<1>7. ss[e] # 0 /\ Link(ss, e - 1, e)
  BY <1>1, <1>6, Down
<1>8. e - 1 \in 1..Len(ss)
  BY <1>7, Down
<1> QED
  BY <1>2, <1>8

\* What is below each state.
Depths(ss, n, s) ==
  /\ n \in Nat \ {0} /\ s \in States /\ s = ss[n]
  /\ (n = 1) <=> (s = 0)
  /\ (n = 2) <=> (s \in {1, 25})
  /\ s # 0 => Under(ss[n-1], s) /\ ss[n-1] \in States
  /\ s = 7 => n = 4 /\ ss[n-3] = 0
  /\ s = 4 => (ss[n-1] = 1 /\ ss[n-2] = 0 /\ n = 3) \/ (ss[n-1] = 7 /\ ss[n-2] = 5 /\ n = 5)
  /\ s = 13 => n >= 3 /\ ss[n-2] = 6
  /\ s = 14 => n >= 3 /\ ss[n-2] = 8
  /\ s \in {18, 19, 20} => n >= 3 /\ ss[n-2] = 10
  /\ s = 21 => n >= 4 /\ ss[n-3] = 8
  /\ s = 12 => (n = 6 /\ ss[n-4] = 1) \/ (n >= 11 /\ ss[n-4] = 15)
  /\ s = 24 => n >= 6 /\ ss[n-5] = 8

\* The depths hold on every path.
LEMMA PathBelow ==
  ASSUME NEW ss, Path(ss), NEW n, n = Len(ss), NEW s, s = Top(ss)
  PROVE  Depths(ss, n, s)
<1> DEFINE a == n - 1
           b == n - 2
           c == n - 3
           d == n - 4
           e == n - 5
           g == n - 6
<1>1. /\ n \in Nat \ {0} /\ s = ss[n] /\ s \in States /\ Len(ss) = n /\ ss[1] = 0
      /\ Link(ss, a, n)
  BY DEF Path, Top, Link
<1>2. /\ n = a + 1 /\ a - 1 = b /\ b - 1 = c /\ c - 1 = d /\ d - 1 = e /\ e - 1 = g
      /\ a = 2 => n = 3 /\ b = 1
      /\ b = 2 => n = 4 /\ c = 1
      /\ c = 2 => n = 5
      /\ d = 2 => n = 6
      /\ d >= 7 => n >= 11
      /\ b >= 1 => n >= 3
      /\ c >= 1 => n >= 4
      /\ e >= 1 => n >= 6
  BY <1>1
<1> HIDE DEF a, b, c, d, e, g
<1>3. (n = 1) <=> (s = 0)
  <2>1. n = 1 => s = 0
    BY <1>1
  <2>2. ASSUME s = 0, n # 1 PROVE FALSE
    <3>1. n \in 2..Len(ss) /\ n - 1 \in 1..Len(ss)
      BY <1>1, <2>2
    <3>2. Under(ss[n-1], ss[n]) /\ ss[n-1] \in States
      BY <3>1 DEF Path
    <3>3. ss[n] # 0
      BY <1>1, <3>2, UnderFacts
    <3> QED
      BY <1>1, <2>2, <3>3
  <2> QED
    BY <2>1, <2>2
<1>4. (n = 2) <=> (s \in {1, 25})
  <2>0. Link(ss, a, n)
    BY <1>1
  <2>1. \A j : Link(ss, a, j) /\ (ss[j] = 1 \/ ss[j] = 25) => j = 2
    BY Down
  <2>2. n = 2 => ss[n] = 1 \/ ss[n] = 25
    BY <2>0, Down
  <2> QED
    BY <1>1, <2>0, <2>1, <2>2
<1>5. s # 0 => Under(ss[n-1], s) /\ ss[n-1] \in States
  <2>1. n \in 1..Len(ss)
    BY <1>1
  <2> QED
    BY <1>1, <2>1, PathStep
<1>6. s = 7 => n = 4 /\ ss[c] = 0
  <2> SUFFICES ASSUME s = 7 PROVE n = 4 /\ ss[c] = 0
    OBVIOUS
  <2>1. ss[a] = 5 /\ Link(ss, b, a)
    BY <1>2, <1>1, Down
  <2>2. ss[b] = 1 /\ Link(ss, c, b)
    BY <1>2, <2>1, Down
  <2>4. b = 2
    BY <2>2, Down
  <2> QED
    BY <1>1, <1>2, <2>4
<1>7. s = 4 => (ss[a] = 1 /\ ss[b] = 0 /\ n = 3) \/ (ss[a] = 7 /\ ss[b] = 5 /\ n = 5)
  <2> SUFFICES ASSUME s = 4
               PROVE  (ss[a] = 1 /\ ss[b] = 0 /\ n = 3) \/ (ss[a] = 7 /\ ss[b] = 5 /\ n = 5)
    OBVIOUS
  <2>1. ss[a] \in {1, 7} /\ Link(ss, b, a)
    BY <1>1, <1>2, Down
  <2>2. CASE ss[a] = 1
    <3>2. a = 2
      BY <2>1, <2>2, Down
    <3>3. n = 3 /\ b = 1
      BY <1>2, <3>2
    <3>4. ss[b] = 0
      BY <1>1, <3>3
    <3> QED
      BY <2>2, <3>3, <3>4
  <2>3. CASE ss[a] = 7
    <3>1. ss[b] = 5 /\ Link(ss, c, b)
      BY <1>2, <2>1, <2>3, Down
    <3>2. ss[c] = 1 /\ Link(ss, d, c)
      BY <1>2, <3>1, Down
    <3>4. c = 2
      BY <3>2, Down
    <3> QED
      BY <1>2, <2>3, <3>1, <3>4
  <2> QED
    BY <2>1, <2>2, <2>3
<1>8. s = 13 => n >= 3 /\ ss[b] = 6
  <2> SUFFICES ASSUME s = 13 PROVE n >= 3 /\ ss[b] = 6
    OBVIOUS
  <2>1. ss[a] = 8 /\ Link(ss, b, a)
    BY <1>2, <1>1, Down
  <2>2. ss[b] = 6 /\ Link(ss, c, b)
    BY <1>2, <2>1, Down
  <2>3. b >= 1
    BY <2>2 DEF Link
  <2> QED
    BY <1>2, <2>2, <2>3
<1>9. s = 14 => n >= 3 /\ ss[b] = 8
  <2> SUFFICES ASSUME s = 14 PROVE n >= 3 /\ ss[b] = 8
    OBVIOUS
  <2>1. ss[a] = 9 /\ Link(ss, b, a)
    BY <1>2, <1>1, Down
  <2>2. ss[b] = 8 /\ Link(ss, c, b)
    BY <1>2, <2>1, Down
  <2>3. b >= 1
    BY <2>2 DEF Link
  <2> QED
    BY <1>2, <2>2, <2>3
<1>10. s \in {18, 19, 20} => n >= 3 /\ ss[b] = 10
  <2> SUFFICES ASSUME s \in {18, 19, 20} PROVE n >= 3 /\ ss[b] = 10
    OBVIOUS
  <2>1. ss[a] = 15 /\ Link(ss, b, a)
    BY <1>2, <1>1, Down
  <2>2. ss[b] = 10 /\ Link(ss, c, b)
    BY <1>2, <2>1, Down
  <2>3. b >= 1
    BY <2>2 DEF Link
  <2> QED
    BY <1>2, <2>2, <2>3
<1>11. s = 21 => n >= 4 /\ ss[c] = 8
  <2> SUFFICES ASSUME s = 21 PROVE n >= 4 /\ ss[c] = 8
    OBVIOUS
  <2>1. ss[a] = 16 /\ Link(ss, b, a)
    BY <1>2, <1>1, Down
  <2>2. ss[b] = 11 /\ Link(ss, c, b)
    BY <1>2, <2>1, Down
  <2>3. ss[c] = 8 /\ Link(ss, d, c)
    BY <1>2, <2>2, Down
  <2>4. c >= 1
    BY <2>3 DEF Link
  <2> QED
    BY <1>2, <2>3, <2>4
<1>12. s = 12 => (n = 6 /\ ss[d] = 1) \/ (n >= 11 /\ ss[d] = 15)
  <2> SUFFICES ASSUME s = 12 PROVE (n = 6 /\ ss[d] = 1) \/ (n >= 11 /\ ss[d] = 15)
    OBVIOUS
  <2>1. ss[a] = 8 /\ Link(ss, b, a)
    BY <1>2, <1>1, Down
  <2>2. ss[b] = 6 /\ Link(ss, c, b)
    BY <1>2, <2>1, Down
  <2>3. ss[c] = 3 /\ Link(ss, d, c)
    BY <1>2, <2>2, Down
  <2>4. ss[d] \in {1, 15} /\ Link(ss, e, d)
    BY <1>2, <2>3, Down
  <2>5. CASE ss[d] = 1
    <3>2. d = 2
      BY <2>4, <2>5, Down
    <3> QED
      BY <1>2, <2>5, <3>2
  <2>6. CASE ss[d] = 15
    <3>1. d \in 1..Len(ss)
      BY <2>4 DEF Link
    <3>2. d >= 7
      BY <2>6, <3>1, PathHigh
    <3>3. n >= 11
      BY <1>2, <3>2
    <3> QED
      BY <2>6, <3>3
  <2> QED
    BY <2>4, <2>5, <2>6
<1>13. s = 24 => n >= 6 /\ ss[e] = 8
  <2> SUFFICES ASSUME s = 24 PROVE n >= 6 /\ ss[e] = 8
    OBVIOUS
  <2>1. ss[a] = 23 /\ Link(ss, b, a)
    BY <1>2, <1>1, Down
  <2>2. ss[b] = 17 /\ Link(ss, c, b)
    BY <1>2, <2>1, Down
  <2>3. ss[c] = 15 /\ Link(ss, d, c)
    BY <1>2, <2>2, Down
  <2>4. ss[d] = 10 /\ Link(ss, e, d)
    BY <1>2, <2>3, Down
  <2>5. ss[e] = 8 /\ Link(ss, g, e)
    BY <1>2, <2>4, Down
  <2>6. e >= 1
    BY <2>5 DEF Link
  <2> QED
    BY <1>2, <2>5, <2>6
<1> QED
  BY <1>1, <1>3, <1>4, <1>5, <1>6, <1>7, <1>8, <1>9, <1>10, <1>11, <1>12, <1>13
  DEF a, b, c, d, e, Depths

\* Some states are taken off, and another is pushed.
LEMMA PathPush ==
  ASSUME NEW ss, Path(ss), NEW m \in Nat, m < Len(ss), NEW x \in States,
         Under(ss[Len(ss) - m], x)
  PROVE  LET r == Append(SubSeq(ss, 1, Len(ss) - m), x)
         IN  /\ Path(r) /\ Len(r) = Len(ss) - m + 1
             /\ Top(r) = x /\ r[Len(r) - 1] = ss[Len(ss) - m]
<1> DEFINE l == Len(ss) - m
           q == SubSeq(ss, 1, l)
           r == Append(q, x)
<1>1. ss \in Seq(States) /\ Len(ss) \in Nat /\ l \in Nat /\ l >= 1 /\ l <= Len(ss)
  BY DEF Path
<1>2. q \in Seq(States) /\ Len(q) = l /\ \A j \in 1..l : q[j] = ss[j]
  <2> HIDE DEF l
  <2>1. \A j \in 1..l : j \in 1..Len(ss)
    BY <1>1
  <2>2. q \in Seq(States)
    BY <1>1, <2>1
  <2>3. Len(q) = l
    BY <1>1
  <2>4. \A j \in 1..l : q[j] = ss[j]
    BY <1>1, <2>1
  <2> QED
    BY <2>2, <2>3, <2>4
<1> HIDE DEF q
<1>3. r \in Seq(States) /\ Len(r) = l + 1 /\ r[l + 1] = x /\ \A j \in 1..l : r[j] = q[j]
  <2> HIDE DEF l
  <2> QED
    BY <1>1, <1>2
<1>4. Under(ss[l], x)
  OBVIOUS
<1> HIDE DEF l, r
<1>5. ASSUME NEW j \in 2..Len(r) PROVE Under(r[j-1], r[j])
  <2>1. CASE j = l + 1
    BY <1>1, <1>2, <1>3, <1>4, <2>1
  <2>2. CASE j # l + 1
    <3>1. j \in 1..l /\ j - 1 \in 1..l /\ j \in 2..Len(ss)
      BY <1>1, <1>3, <2>2
    <3> QED
      BY <1>2, <1>3, <3>1 DEF Path
  <2> QED
    BY <2>1, <2>2
<1>6. r[1] = 0
  BY <1>1, <1>2, <1>3 DEF Path
<1>7. Path(r)
  BY <1>1, <1>3, <1>5, <1>6 DEF Path
<1>8. r[Len(r) - 1] = ss[l] /\ Top(r) = x
  BY <1>1, <1>2, <1>3 DEF Top
<1> QED
  BY <1>1, <1>3, <1>7, <1>8 DEF r, q, l

-----------------------------------------------------------------------------
(* The grammar's automaton, as a table, and the events of a document that  *)
(* it has not found wrong.                                                 *)

FollowTo(mode, k) ==
  CASE mode = "before"  -> (CASE k = 11 -> "before" [] k = 12 -> "tag" [] OTHER -> "error")
    [] mode = "tag"     -> (CASE k = 8 -> "attr" [] k = 5 -> "slash" [] k = 6 -> "content"
                              [] OTHER -> "error")
    [] mode = "attr"    -> (CASE k = 4 -> "eq" [] k = 8 -> "attr" [] k = 5 -> "slash"
                              [] k = 6 -> "content" [] OTHER -> "error")
    [] mode = "eq"      -> (IF k = 9 THEN "tag" ELSE "error")
    [] mode = "content" -> (CASE k \in {10, 11} -> "content" [] k = 12 -> "tag" [] k = 7 -> "end"
                              [] OTHER -> "error")
    [] mode = "end"     -> (IF k = 8 THEN "name" ELSE "error")
    [] mode = "name"    -> (IF k = 6 THEN "closed" ELSE "error")
    [] mode = "slash"   -> (IF k = 6 THEN "closed" ELSE "error")
    [] mode = "after"   -> (CASE k = 11 -> "after" [] k = 0 -> "accepted" [] OTHER -> "error")
    [] OTHER            -> "error"

\* The table has the moves of the grammar.
LEMMA FollowTable ==
  ASSUME NEW mode, NEW k, NEW x
  PROVE  <<mode, k, x>> \in B!Follows <=> x = FollowTo(mode, k) /\ x # "error"
<1>1. <<mode, k, x>> \in B!Follows <=>
        \/ mode = "before"  /\ k = 11 /\ x = "before"
        \/ mode = "before"  /\ k = 12 /\ x = "tag"
        \/ mode = "tag"     /\ k = 8  /\ x = "attr"
        \/ mode = "tag"     /\ k = 5  /\ x = "slash"
        \/ mode = "tag"     /\ k = 6  /\ x = "content"
        \/ mode = "attr"    /\ k = 4  /\ x = "eq"
        \/ mode = "eq"      /\ k = 9  /\ x = "tag"
        \/ mode = "attr"    /\ k = 8  /\ x = "attr"
        \/ mode = "attr"    /\ k = 5  /\ x = "slash"
        \/ mode = "attr"    /\ k = 6  /\ x = "content"
        \/ mode = "content" /\ k = 10 /\ x = "content"
        \/ mode = "content" /\ k = 11 /\ x = "content"
        \/ mode = "content" /\ k = 12 /\ x = "tag"
        \/ mode = "content" /\ k = 7  /\ x = "end"
        \/ mode = "end"     /\ k = 8  /\ x = "name"
        \/ mode = "name"    /\ k = 6  /\ x = "closed"
        \/ mode = "slash"   /\ k = 6  /\ x = "closed"
        \/ mode = "after"   /\ k = 11 /\ x = "after"
        \/ mode = "after"   /\ k = 0  /\ x = "accepted"
  BY DEF B!Follows, B!COMMENT, B!START, B!NAME, B!SLASH, B!CLOSE, B!EQ, B!VALUE, B!DATA, B!END, B!EOF
<1>2. x = FollowTo(mode, k) /\ x # "error" <=>
        \/ mode = "before"  /\ k = 11 /\ x = "before"
        \/ mode = "before"  /\ k = 12 /\ x = "tag"
        \/ mode = "tag"     /\ k = 8  /\ x = "attr"
        \/ mode = "tag"     /\ k = 5  /\ x = "slash"
        \/ mode = "tag"     /\ k = 6  /\ x = "content"
        \/ mode = "attr"    /\ k = 4  /\ x = "eq"
        \/ mode = "eq"      /\ k = 9  /\ x = "tag"
        \/ mode = "attr"    /\ k = 8  /\ x = "attr"
        \/ mode = "attr"    /\ k = 5  /\ x = "slash"
        \/ mode = "attr"    /\ k = 6  /\ x = "content"
        \/ mode = "content" /\ k = 10 /\ x = "content"
        \/ mode = "content" /\ k = 11 /\ x = "content"
        \/ mode = "content" /\ k = 12 /\ x = "tag"
        \/ mode = "content" /\ k = 7  /\ x = "end"
        \/ mode = "end"     /\ k = 8  /\ x = "name"
        \/ mode = "name"    /\ k = 6  /\ x = "closed"
        \/ mode = "slash"   /\ k = 6  /\ x = "closed"
        \/ mode = "after"   /\ k = 11 /\ x = "after"
        \/ mode = "after"   /\ k = 0  /\ x = "accepted"
  BY DEF FollowTo
<1> QED
  BY <1>1, <1>2

\* TakeToken moves as the table says, and counts.
LEMMA TakeIs ==
  ASSUME NEW m, NEW t
  PROVE  LET x == FollowTo(m.mode, t.k)
             depth == m.depth + (IF t.k = 12 THEN 1 ELSE IF x = "closed" THEN -1 ELSE 0)
         IN  B!TakeToken(m, t) =
               [mode |-> IF x = "closed" THEN (IF depth = 0 THEN "after" ELSE "content") ELSE x,
                depth |-> depth]
<1> DEFINE x == FollowTo(m.mode, t.k)
           to == {f[3] : f \in {g \in B!Follows : g[1] = m.mode /\ g[2] = t.k}}
           depth == m.depth + (IF t.k = 12 THEN 1 ELSE IF to = {"closed"} THEN -1 ELSE 0)
<1>1. B!TakeToken(m, t) =
        [mode |-> IF to = {} THEN "error"
                  ELSE IF to = {"closed"} THEN (IF depth = 0 THEN "after" ELSE "content")
                  ELSE CHOOSE y \in to : TRUE,
         depth |-> depth]
  BY DEF B!TakeToken, B!START
<1>2. \A g \in B!Follows : g = <<g[1], g[2], g[3]>>
  BY DEF B!Follows
<1>3. \A y : y \in to <=> <<m.mode, t.k, y>> \in B!Follows
  <2>1. \A y : y \in to => <<m.mode, t.k, y>> \in B!Follows
    BY <1>2
  <2>2. ASSUME NEW y, <<m.mode, t.k, y>> \in B!Follows PROVE y \in to
    <3> DEFINE g == <<m.mode, t.k, y>>
    <3>1. g \in B!Follows /\ g[1] = m.mode /\ g[2] = t.k /\ g[3] = y
      BY <2>2
    <3> HIDE DEF g
    <3> QED
      BY <3>1
  <2> QED
    BY <2>1, <2>2
<1> HIDE DEF to
<1>4. \A y : y \in to <=> y = x /\ x # "error"
  BY <1>3, FollowTable
<1>5. CASE x = "error"
  <2>1. to = {}
    BY <1>4, <1>5
  <2> QED
    BY <1>1, <1>5, <2>1
<1>6. CASE x # "error"
  <2>1. to = {x} /\ to # {} /\ (to = {"closed"} <=> x = "closed")
    BY <1>4, <1>6
  <2>2. (CHOOSE y \in to : TRUE) = x
    <3> DEFINE c == CHOOSE y \in to : TRUE
    <3>1. c \in to
      BY <2>1
    <3> HIDE DEF c
    <3>2. c = x
      BY <2>1, <3>1
    <3> QED
      BY <3>2 DEF c
  <2> QED
    BY <1>1, <2>1, <2>2
<1> QED
  BY <1>5, <1>6

Kinds  == 0..12
Strings == Names \cup Texts \cup Nat \cup {NULL, Comment, Empty}
Tokens == [k : Kinds, s : Strings]

ModeAt(r, n) == B!ModesOf(r)[n].mode
DepthAt(r, n) == B!ModesOf(r)[n].depth

\* What token n of r is in the document: the operation of its event.
Prior(r, n, i) == IF n > i THEN r[n-i].k ELSE -2
OpAt(r, n) ==
  CASE r[n].k = 12 -> "open"
    [] r[n].k = 11 -> "comment"
    [] r[n].k = 10 -> "text"
    [] r[n].k = 8  -> IF Prior(r, n, 1) = 7 THEN "none" ELSE "attr"
    [] r[n].k = 6  -> IF Prior(r, n, 1) = 5 \/ Prior(r, n, 2) = 7 THEN "close" ELSE "none"
    [] OTHER       -> "none"
Ops(r) == [n \in 1..Len(r) |-> [op |-> OpAt(r, n)]]

\* The events of Doc are those.
LEMMA DocOps ==
  ASSUME read \in Seq(Tokens)
  PROVE  \A n \in 1..Len(read) : B!Doc[n].op = Ops(read)[n].op
<1>1. DOMAIN read = 1..Len(read)
  OBVIOUS
<1>2. ASSUME NEW n \in 1..Len(read) PROVE B!Doc[n].op = OpAt(read, n)
  <2>0. n \in DOMAIN read
    BY <1>1
  <2> USE DEF B!Doc, B!Event, OpAt, Prior, B!YYEMPTY, B!Token, B!START, B!COMMENT, B!DATA, B!NAME,
              B!CLOSE, B!END, B!SLASH, B!EQ
  <2>1. CASE read[n].k = 12
    BY <2>0, <2>1
  <2>2. CASE read[n].k = 11
    BY <2>0, <2>2
  <2>3. CASE read[n].k = 10
    BY <2>0, <2>3
  <2>4. CASE read[n].k = 8
    BY <2>0, <2>4
  <2>5. CASE read[n].k = 6
    BY <2>0, <2>5
  <2>6. CASE read[n].k \notin {12, 11, 10, 8, 6}
    BY <2>0, <2>6
  <2> QED
    BY <2>1, <2>2, <2>3, <2>4, <2>5, <2>6
<1> QED
  BY <1>2 DEF Ops

\* A further token leaves the events before it.
LEMMA OpsAppend ==
  ASSUME NEW r \in Seq(Tokens), NEW t \in Tokens
  PROVE  \A n \in 1..Len(r) : Ops(Append(r, t))[n].op = Ops(r)[n].op
<1> DEFINE q == Append(r, t)
<1>1. Len(r) \in Nat /\ Len(q) = Len(r) + 1 /\ \A i \in 1..Len(r) : q[i] = r[i]
  OBVIOUS
<1> HIDE DEF q
<1>2. ASSUME NEW n \in 1..Len(r) PROVE OpAt(q, n) = OpAt(r, n)
  <2>1. q[n] = r[n]
    BY <1>1
  <2>2. \A i \in {1, 2} : Prior(q, n, i) = Prior(r, n, i)
    <3>1. \A i \in {1, 2} : n > i => n - i \in 1..Len(r)
      BY <1>1
    <3> QED
      BY <1>1, <3>1 DEF Prior
  <2> QED
    BY <2>1, <2>2 DEF OpAt
<1>3. \A n \in 1..Len(r) : n \in 1..Len(q)
  BY <1>1
<1> QED
  BY <1>2, <1>3 DEF Ops, q

\* The step of the automaton at token n.
LEMMA ModeStep ==
  ASSUME NEW r \in Seq(Tokens), NEW n \in 1..Len(r)
  PROVE  LET x == FollowTo(ModeAt(r, n - 1), r[n].k)
         IN  /\ DepthAt(r, n) = DepthAt(r, n - 1)
                                  + (IF r[n].k = 12 THEN 1 ELSE IF x = "closed" THEN -1 ELSE 0)
             /\ ModeAt(r, n) = IF x = "closed" THEN (IF DepthAt(r, n) = 0 THEN "after" ELSE "content")
                               ELSE x
<1>1. ModesTo(B!ModesOf(r), r, Len(r))
  BY ModesAre
<1>2. B!ModesOf(r)[n] = B!TakeToken(B!ModesOf(r)[n-1], r[n])
  BY <1>1 DEF ModesTo
<1> QED
  BY <1>2, TakeIs DEF ModeAt, DepthAt

\* The mode before the first token.
LEMMA ModeStart ==
  ASSUME NEW r \in Seq(Tokens)
  PROVE  ModeAt(r, 0) = "before" /\ DepthAt(r, 0) = 0
<1>1. ModesTo(B!ModesOf(r), r, Len(r))
  BY ModesAre
<1> QED
  BY <1>1 DEF ModesTo, Started, ModeAt, DepthAt

\* A further token leaves the modes before it.
LEMMA ModeSame ==
  ASSUME NEW r \in Seq(Tokens), NEW t \in Tokens, NEW n \in 0..Len(r)
  PROVE  ModeAt(Append(r, t), n) = ModeAt(r, n) /\ DepthAt(Append(r, t), n) = DepthAt(r, n)
BY ModesAppend DEF ModeAt, DepthAt

\* The token that left the document in a mode.
LEMMA ModeTokens ==
  ASSUME NEW r \in Seq(Tokens), NEW n \in 1..Len(r), ModeAt(r, n) # "error"
  PROVE  /\ ModeAt(r, n - 1) # "error"
         /\ r[n].k = 5 <=> ModeAt(r, n) = "slash"
         /\ r[n].k = 7 <=> ModeAt(r, n) = "end"
         /\ ModeAt(r, n) = "name" <=> ModeAt(r, n - 1) = "end"
<1> DEFINE x == FollowTo(ModeAt(r, n - 1), r[n].k)
<1>1. ModeAt(r, n) = IF x = "closed" THEN (IF DepthAt(r, n) = 0 THEN "after" ELSE "content") ELSE x
  BY ModeStep
<1>2. x # "error"
  BY <1>1
<1>3. ModeAt(r, n - 1) # "error"
  BY <1>2 DEF FollowTo
<1>4. /\ r[n].k = 5 <=> x = "slash"
      /\ r[n].k = 7 <=> x = "end"
      /\ x = "name" <=> ModeAt(r, n - 1) = "end"
  BY <1>2 DEF FollowTo
<1> HIDE DEF x
<1> QED
  BY <1>1, <1>3, <1>4

\* Which tokens of a right document open and close elements.
LEMMA OpsAre ==
  ASSUME NEW r \in Seq(Tokens), NEW n \in 1..Len(r), ModeAt(r, n) # "error"
  PROVE  /\ Ops(r)[n].op = "open"  <=> r[n].k = 12
         /\ Ops(r)[n].op = "close" <=> FollowTo(ModeAt(r, n - 1), r[n].k) = "closed"
<1>1. Ops(r)[n].op = OpAt(r, n)
  BY DEF Ops
<1>2. OpAt(r, n) = "open" <=> r[n].k = 12
  BY DEF OpAt
<1>3. OpAt(r, n) = "close" <=> r[n].k = 6 /\ (Prior(r, n, 1) = 5 \/ Prior(r, n, 2) = 7)
  BY DEF OpAt
<1>4. FollowTo(ModeAt(r, n - 1), r[n].k) = "closed"
        <=> r[n].k = 6 /\ ModeAt(r, n - 1) \in {"slash", "name"}
  BY DEF FollowTo
<1>5. ModeAt(r, n - 1) # "error"
  BY ModeTokens
<1>6. ModeAt(r, 0) = "before"
  BY ModeStart
<1>7. Prior(r, n, 1) = 5 <=> ModeAt(r, n - 1) = "slash"
  <2>1. CASE n = 1
    BY <1>6, <2>1 DEF Prior
  <2>2. CASE n # 1
    <3>1. n - 1 \in 1..Len(r)
      BY <2>2
    <3> QED
      BY <1>5, <3>1, ModeTokens DEF Prior
  <2> QED
    BY <2>1, <2>2
<1>8. Prior(r, n, 2) = 7 <=> ModeAt(r, n - 1) = "name"
  <2>1. CASE n = 1
    BY <1>6, <2>1 DEF Prior
  <2>2. CASE n # 1
    <3>1. n - 1 \in 1..Len(r)
      BY <2>2
    <3>2. /\ ModeAt(r, n - 1 - 1) # "error"
          /\ ModeAt(r, n - 1) = "name" <=> ModeAt(r, n - 1 - 1) = "end"
      BY <1>5, <3>1, ModeTokens
    <3>3. CASE n = 2
      BY <1>6, <3>2, <3>3 DEF Prior
    <3>4. CASE n # 2
      <4>1. n - 2 \in 1..Len(r) /\ n - 1 - 1 = n - 2
        BY <2>2, <3>4
      <4>2. r[n-2].k = 7 <=> ModeAt(r, n - 2) = "end"
        BY <3>2, <4>1, ModeTokens
      <4> QED
        BY <3>2, <4>1, <4>2 DEF Prior
    <3> QED
      BY <3>3, <3>4
  <2> QED
    BY <2>1, <2>2
<1> QED
  BY <1>1, <1>2, <1>3, <1>4, <1>7, <1>8
-----------------------------------------------------------------------------
(* Where the parser is in the document when state s is on the top, on       *)
(* state r: the height n of the stack for e open elements, the mode after   *)
(* the tokens taken so far, and how many elements the document has open by  *)
(* then.                                                                    *)

Place(s, r, n, e, mode, depth) ==
  /\ s = 0  => n = 1 /\ e = 0 /\ mode = "before" /\ depth = 0
  /\ s = 1  => n = 2 /\ e = 0 /\ mode = "before" /\ depth = 0
  /\ s = 2  => /\ depth = e
               /\ \/ r = 1 /\ n = 3 /\ e = 0 /\ mode = "before"
                  \/ r = 7 /\ n = 5 /\ e = 0 /\ mode = "after"
                  \/ r = 15 /\ n = 5 * e + 3 /\ e > 0 /\ mode = "content"
  /\ s = 3  => n = 5 * e + 3 /\ mode = "tag" /\ depth = e + 1
  /\ s = 4  => /\ e = 0 /\ depth = 0
               /\ \/ r = 1 /\ n = 3 /\ mode = "before"
                  \/ r = 7 /\ n = 5 /\ mode = "after"
  /\ s = 5  => n = 3 /\ e = 0 /\ mode = "after" /\ depth = 0
  /\ s = 7  => n = 4 /\ e = 0 /\ mode = "after" /\ depth = 0
  /\ s = 25 => n = 2 /\ e = 0 /\ mode = "after" /\ depth = 0
  /\ s = 26 => n = 3 /\ e = 0 /\ mode = "accepted" /\ depth = 0
  /\ s = 12 => n = 5 * e + 6 /\ mode = (IF e = 0 THEN "after" ELSE "content") /\ depth = e
  /\ s \in {14, 24} => /\ n = 5 * e + (IF s = 14 THEN 2 ELSE 5) /\ e > 0
                       /\ mode = (IF e = 1 THEN "after" ELSE "content") /\ depth = e - 1
  /\ s \in {6, 8, 9, 10, 11, 13, 15, 16, 17, 18, 19, 20, 21, 22, 23} => e > 0 /\ depth = e
  /\ s = 6  => n = 5 * e - 1 /\ mode = "tag"
  /\ s = 8  => n = 5 * e /\ mode \in {"tag", "attr"}
  /\ s = 9  => n = 5 * e + 1 /\ mode = "slash"
  /\ s = 10 => n = 5 * e + 1 /\ mode = "content"
  /\ s = 11 => n = 5 * e + 1 /\ mode = "attr"
  /\ s = 13 => n = 5 * e + 1 /\ mode \in {"tag", "attr"}
  /\ s = 15 => n = 5 * e + 2 /\ mode = "content"
  /\ s = 16 => n = 5 * e + 2 /\ mode = "eq"
  /\ s = 17 => n = 5 * e + 3 /\ mode = "end"
  /\ s \in {18, 19, 20} => n = 5 * e + 3 /\ mode = "content"
  /\ s = 21 => n = 5 * e + 3 /\ mode = "tag"
  /\ s \in {22, 23} => n = 5 * e + 4 /\ mode = "name"

\* A place of these is in no error.
LEMMA PlaceMode ==
  ASSUME NEW s \in States, NEW r, NEW n, NEW e, NEW mode, NEW depth,
         Place(s, r, n, e, mode, depth)
  PROVE  mode # "error"
BY DEF Place, States

\* A token is shifted.
LEMMA PlaceShift ==
  ASSUME NEW s \in States, NEW r, NEW n \in Nat, NEW e \in Nat, NEW mode, NEW depth \in Int,
         Place(s, r, n, e, mode, depth),
         NEW k \in Kinds, s \in Consulting, ShiftTo(s, k) # 0, ShiftTo(s, k) # 27,
         s = 8 /\ mode = "attr" => k # 4
  PROVE  LET x == ShiftTo(s, k)
             f == FollowTo(mode, k)
             d == depth + (IF k = 12 THEN 1 ELSE IF f = "closed" THEN -1 ELSE 0)
         IN  /\ x \in States /\ Under(s, x)
             /\ Place(x, s, n + 1, e,
                      IF f = "closed" THEN (IF d = 0 THEN "after" ELSE "content") ELSE f, d)
             /\ k = 12 <=> x = 3
             /\ f = "closed" <=> x \in {14, 24}
             /\ x = 22 <=> s = 17
             /\ x = 24 <=> s = 23
             /\ x = 26 <=> k = 0
             /\ x \notin {0, 23, 25}
             /\ x \in {8, 13} => f # "attr"
<1>1. CASE s = 1
  <2>1. mode = "before" /\ n = 2 /\ e = 0 /\ depth = 0
    BY <1>1 DEF Place
  <2>2. k \in {11, 12}
    BY <1>1 DEF ShiftTo
  <2>3. CASE k = 11
    <3>1. ShiftTo(s, k) = 2 /\ FollowTo(mode, k) = "before"
      BY <1>1, <2>1, <2>3 DEF ShiftTo, FollowTo
    <3> QED
      BY <1>1, <2>1, <2>3, <3>1, SMTT(30) DEF Place, Under, States
  <2>4. CASE k = 12
    <3>1. ShiftTo(s, k) = 3 /\ FollowTo(mode, k) = "tag"
      BY <1>1, <2>1, <2>4 DEF ShiftTo, FollowTo
    <3> QED
      BY <1>1, <2>1, <2>4, <3>1, SMTT(30) DEF Place, Under, States
  <2> QED
    BY <2>2, <2>3, <2>4
<1>2. CASE s = 7
  <2>1. mode = "after" /\ n = 4 /\ e = 0 /\ depth = 0
    BY <1>2 DEF Place
  <2>2. k = 11 /\ ShiftTo(s, k) = 2
    BY <1>2 DEF ShiftTo
  <2>3. FollowTo(mode, k) = "after"
    BY <2>1, <2>2 DEF FollowTo
  <2> QED
    BY <1>2, <2>1, <2>2, <2>3, SMTT(30) DEF Place, Under, States
<1>3. CASE s = 8
  <2>1. mode \in {"tag", "attr"} /\ n = 5 * e /\ e > 0 /\ depth = e
    BY <1>3 DEF Place
  <2>2. k \in {5, 6, 8}
    BY <1>3 DEF ShiftTo
  <2>3. CASE k = 5
    <3>1. ShiftTo(s, k) = 9 /\ FollowTo(mode, k) = "slash"
      BY <1>3, <2>1, <2>3 DEF ShiftTo, FollowTo
    <3> QED
      BY <1>3, <2>1, <2>3, <3>1, SMTT(30) DEF Place, Under, States
  <2>4. CASE k = 6
    <3>1. ShiftTo(s, k) = 10 /\ FollowTo(mode, k) = "content"
      BY <1>3, <2>1, <2>4 DEF ShiftTo, FollowTo
    <3> QED
      BY <1>3, <2>1, <2>4, <3>1, SMTT(30) DEF Place, Under, States
  <2>5. CASE k = 8
    <3>1. ShiftTo(s, k) = 11 /\ FollowTo(mode, k) = "attr"
      BY <1>3, <2>1, <2>5 DEF ShiftTo, FollowTo
    <3> QED
      BY <1>3, <2>1, <2>5, <3>1, SMTT(30) DEF Place, Under, States
  <2> QED
    BY <2>2, <2>3, <2>4, <2>5
<1>4. CASE s = 9
  <2>1. mode = "slash" /\ n = 5 * e + 1 /\ e > 0 /\ depth = e
    BY <1>4 DEF Place
  <2>2. k = 6 /\ ShiftTo(s, k) = 14
    BY <1>4 DEF ShiftTo
  <2>3. FollowTo(mode, k) = "closed"
    BY <2>1, <2>2 DEF FollowTo
  <2> QED
    BY <1>4, <2>1, <2>2, <2>3, SMTT(30) DEF Place, Under, States
<1>5. CASE s = 11
  <2>1. mode = "attr" /\ n = 5 * e + 1 /\ e > 0 /\ depth = e
    BY <1>5 DEF Place
  <2>2. k = 4 /\ ShiftTo(s, k) = 16
    BY <1>5 DEF ShiftTo
  <2>3. FollowTo(mode, k) = "eq"
    BY <2>1, <2>2 DEF FollowTo
  <2> QED
    BY <1>5, <2>1, <2>2, <2>3, SMTT(30) DEF Place, Under, States
<1>6. CASE s = 15
  <2>1. mode = "content" /\ n = 5 * e + 2 /\ e > 0 /\ depth = e
    BY <1>6 DEF Place
  <2>2. k \in {7, 10, 11, 12}
    BY <1>6 DEF ShiftTo
  <2>3. CASE k = 7
    <3>1. ShiftTo(s, k) = 17 /\ FollowTo(mode, k) = "end"
      BY <1>6, <2>1, <2>3 DEF ShiftTo, FollowTo
    <3> QED
      BY <1>6, <2>1, <2>3, <3>1, SMTT(30) DEF Place, Under, States
  <2>4. CASE k = 10
    <3>1. ShiftTo(s, k) = 18 /\ FollowTo(mode, k) = "content"
      BY <1>6, <2>1, <2>4 DEF ShiftTo, FollowTo
    <3> QED
      BY <1>6, <2>1, <2>4, <3>1, SMTT(30) DEF Place, Under, States
  <2>5. CASE k = 11
    <3>1. ShiftTo(s, k) = 2 /\ FollowTo(mode, k) = "content"
      BY <1>6, <2>1, <2>5 DEF ShiftTo, FollowTo
    <3> QED
      BY <1>6, <2>1, <2>5, <3>1, SMTT(30) DEF Place, Under, States
  <2>6. CASE k = 12
    <3>1. ShiftTo(s, k) = 3 /\ FollowTo(mode, k) = "tag"
      BY <1>6, <2>1, <2>6 DEF ShiftTo, FollowTo
    <3> QED
      BY <1>6, <2>1, <2>6, <3>1, SMTT(30) DEF Place, Under, States
  <2> QED
    BY <2>2, <2>3, <2>4, <2>5, <2>6
<1>7. CASE s = 16
  <2>1. mode = "eq" /\ n = 5 * e + 2 /\ e > 0 /\ depth = e
    BY <1>7 DEF Place
  <2>2. k = 9 /\ ShiftTo(s, k) = 21
    BY <1>7 DEF ShiftTo
  <2>3. FollowTo(mode, k) = "tag"
    BY <2>1, <2>2 DEF FollowTo
  <2> QED
    BY <1>7, <2>1, <2>2, <2>3, SMTT(30) DEF Place, Under, States
<1>8. CASE s = 17
  <2>1. mode = "end" /\ n = 5 * e + 3 /\ e > 0 /\ depth = e
    BY <1>8 DEF Place
  <2>2. k = 8 /\ ShiftTo(s, k) = 22
    BY <1>8 DEF ShiftTo
  <2>3. FollowTo(mode, k) = "name"
    BY <2>1, <2>2 DEF FollowTo
  <2> QED
    BY <1>8, <2>1, <2>2, <2>3, SMTT(30) DEF Place, Under, States
<1>9. CASE s = 23
  <2>1. mode = "name" /\ n = 5 * e + 4 /\ e > 0 /\ depth = e
    BY <1>9 DEF Place
  <2>2. k = 6 /\ ShiftTo(s, k) = 24
    BY <1>9 DEF ShiftTo
  <2>3. FollowTo(mode, k) = "closed"
    BY <2>1, <2>2 DEF FollowTo
  <2> QED
    BY <1>9, <2>1, <2>2, <2>3, SMTT(30) DEF Place, Under, States
<1>10. CASE s = 25
  <2>1. mode = "after" /\ n = 2 /\ e = 0 /\ depth = 0
    BY <1>10 DEF Place
  <2>2. k = 0 /\ ShiftTo(s, k) = 26
    BY <1>10 DEF ShiftTo
  <2>3. FollowTo(mode, k) = "accepted"
    BY <2>1, <2>2 DEF FollowTo
  <2> QED
    BY <1>10, <2>1, <2>2, <2>3, SMTT(30) DEF Place, Under, States
<1>11. CASE s = 26
  BY <1>11 DEF ShiftTo
<1> QED
  BY <1>1, <1>2, <1>3, <1>4, <1>5, <1>6, <1>7, <1>8, <1>9, <1>10, <1>11 DEF Consulting

\* An error, for which the grammar has no token there either.
LEMMA PlaceError ==
  ASSUME NEW s \in States, NEW r, NEW n \in Nat, NEW e \in Nat, NEW mode, NEW depth \in Int,
         Place(s, r, n, e, mode, depth),
         NEW k \in Kinds, s \in Consulting, ShiftTo(s, k) = 0, ReduceBy(s) = 0,
         s = 25 => k # 11, s = 26 => k = 0
  PROVE  FollowTo(mode, k) = "error" \/ (s = 8 /\ mode = "attr" /\ k = 4)
BY DEF ShiftTo, FollowTo, Place, Consulting, ReduceBy

\* With s on the top of n states, on p, k symbols are taken off, down to
\* state r, on which x is pushed.
Moves(s, n, p, k, r, x) ==
  \/ s = 0 /\ k = 0 /\ r = 0 /\ x = 1
  \/ s = 2 /\ k = 1 /\ r = 1 /\ x = 4 /\ p = 1
  \/ s = 2 /\ k = 1 /\ r = 7 /\ x = 4 /\ p = 7
  \/ s = 2 /\ k = 1 /\ r = 15 /\ x = 19 /\ p = 15
  \/ s = 3 /\ k = 0 /\ r = 3 /\ x = 6
  \/ s = 4 /\ k = 2 /\ r = 0 /\ x = 1 /\ p = 1
  \/ s = 4 /\ k = 2 /\ r = 5 /\ x = 7 /\ p = 7
  \/ s = 5 /\ k = 0 /\ r = 5 /\ x = 7
  \/ s = 6 /\ k = 0 /\ r = 6 /\ x = 8
  \/ s = 7 /\ k = 3 /\ r = 0 /\ x = 25
  \/ s = 10 /\ k = 0 /\ r = 10 /\ x = 15
  \/ s = 11 /\ k = 1 /\ r = 8 /\ x = 13
  \/ s = 12 /\ k = 4 /\ r = 1 /\ x = 5 /\ n = 6
  \/ s = 12 /\ k = 4 /\ r = 15 /\ x = 20 /\ n >= 11
  \/ s = 13 /\ k = 2 /\ r = 6 /\ x = 8
  \/ s = 14 /\ k = 2 /\ r = 8 /\ x = 12
  \/ s = 18 /\ k = 2 /\ r = 10 /\ x = 15
  \/ s = 19 /\ k = 2 /\ r = 10 /\ x = 15
  \/ s = 20 /\ k = 2 /\ r = 10 /\ x = 15
  \/ s = 21 /\ k = 3 /\ r = 8 /\ x = 13
  \/ s = 22 /\ k = 1 /\ r = 17 /\ x = 23
  \/ s = 24 /\ k = 5 /\ r = 8 /\ x = 12

\* The tables move so.
LEMMA ReduceMoves ==
  ASSUME NEW ss, Path(ss), NEW n, n = Len(ss), NEW s, s = Top(ss), ReduceBy(s) # 0
  PROVE  LET k == Symbols(ReduceBy(s))
         IN  /\ ReduceBy(s) \in 1..17 /\ k \in Nat /\ k < n
             /\ Moves(s, n, ss[n-1], k, ss[n-k], Led(ReduceBy(s), ss[n-k]))
<1> DEFINE Done(rule, k) == /\ k < n
                            /\ Moves(s, n, ss[n-1], k, ss[n-k], Led(rule, ss[n-k]))
<1>1. Depths(ss, n, s)
  BY PathBelow
<1>2. n \in Nat \ {0} /\ s \in States /\ s = ss[n] /\ n - 0 = n
  BY <1>1 DEF Depths
<1>3. CASE s = 0
  <2>1. ss[n] = 0 /\ 0 < n
    BY <1>2, <1>3
  <2>2. Led(3, 0) = 1
    BY GotoTable
  <2>3. Done(3, 0)
    BY <1>2, <1>3, <2>1, <2>2 DEF Moves
  <2>4. ReduceBy(s) = 3 /\ Symbols(3) = 0
    BY <1>3 DEF ReduceBy, Symbols
  <2> QED
    BY <2>3, <2>4
<1>4. CASE s = 2
  <2>1. 1 < n /\ ss[n-1] \in {1, 7, 15}
    BY <1>1, <1>2, <1>4 DEF Depths, Under
  <2>2. Led(4, 1) = 4 /\ Led(4, 7) = 4 /\ Led(4, 15) = 19
    BY GotoTable
  <2>3. Done(4, 1)
    BY <1>4, <2>1, <2>2 DEF Moves
  <2>4. ReduceBy(s) = 4 /\ Symbols(4) = 1
    BY <1>4 DEF ReduceBy, Symbols
  <2> QED
    BY <2>3, <2>4
<1>5. CASE s = 3
  <2>1. ss[n] = 3 /\ 0 < n
    BY <1>2, <1>5
  <2>2. Led(5, 3) = 6
    BY GotoTable
  <2>3. Done(5, 0)
    BY <1>2, <1>5, <2>1, <2>2 DEF Moves
  <2>4. ReduceBy(s) = 5 /\ Symbols(5) = 0
    BY <1>5 DEF ReduceBy, Symbols
  <2> QED
    BY <2>3, <2>4
<1>6. CASE s = 4
  <2>1. 2 < n /\ ((ss[n-2] = 0 /\ ss[n-1] = 1) \/ (ss[n-2] = 5 /\ ss[n-1] = 7))
    BY <1>1, <1>2, <1>6 DEF Depths, Under
  <2>2. Led(2, 0) = 1 /\ Led(2, 5) = 7
    BY GotoTable
  <2>3. Done(2, 2)
    BY <1>6, <2>1, <2>2 DEF Moves
  <2>4. ReduceBy(s) = 2 /\ Symbols(2) = 2
    BY <1>6 DEF ReduceBy, Symbols
  <2> QED
    BY <2>3, <2>4
<1>7. CASE s = 5
  <2>1. ss[n] = 5 /\ 0 < n
    BY <1>2, <1>7
  <2>2. Led(3, 5) = 7
    BY GotoTable
  <2>3. Done(3, 0)
    BY <1>2, <1>7, <2>1, <2>2 DEF Moves
  <2>4. ReduceBy(s) = 3 /\ Symbols(3) = 0
    BY <1>7 DEF ReduceBy, Symbols
  <2> QED
    BY <2>3, <2>4
<1>8. CASE s = 6
  <2>1. ss[n] = 6 /\ 0 < n
    BY <1>2, <1>8
  <2>2. Led(15, 6) = 8
    BY GotoTable
  <2>3. Done(15, 0)
    BY <1>2, <1>8, <2>1, <2>2 DEF Moves
  <2>4. ReduceBy(s) = 15 /\ Symbols(15) = 0
    BY <1>8 DEF ReduceBy, Symbols
  <2> QED
    BY <2>3, <2>4
<1>9. CASE s = 7
  <2>1. ss[n-3] = 0 /\ 3 < n
    BY <1>1, <1>2, <1>9 DEF Depths, Under
  <2>2. Led(1, 0) = 25
    BY GotoTable
  <2>3. Done(1, 3)
    BY <1>9, <2>1, <2>2 DEF Moves
  <2>4. ReduceBy(s) = 1 /\ Symbols(1) = 3
    BY <1>9 DEF ReduceBy, Symbols
  <2> QED
    BY <2>3, <2>4
<1>10. CASE s = 10
  <2>1. ss[n] = 10 /\ 0 < n
    BY <1>2, <1>10
  <2>2. Led(12, 10) = 15
    BY GotoTable
  <2>3. Done(12, 0)
    BY <1>2, <1>10, <2>1, <2>2 DEF Moves
  <2>4. ReduceBy(s) = 12 /\ Symbols(12) = 0
    BY <1>10 DEF ReduceBy, Symbols
  <2> QED
    BY <2>3, <2>4
<1>11. CASE s = 11
  <2>1. ss[n-1] = 8 /\ 1 < n
    BY <1>1, <1>2, <1>11 DEF Depths, Under
  <2>2. Led(16, 8) = 13
    BY GotoTable
  <2>3. Done(16, 1)
    BY <1>11, <2>1, <2>2 DEF Moves
  <2>4. ReduceBy(s) = 16 /\ Symbols(16) = 1
    BY <1>11 DEF ReduceBy, Symbols
  <2> QED
    BY <2>3, <2>4
<1>12. CASE s = 12
  <2>1. 4 < n /\ ((ss[n-4] = 1 /\ n = 6) \/ (ss[n-4] = 15 /\ n >= 11))
    BY <1>1, <1>2, <1>12 DEF Depths, Under
  <2>2. Led(6, 1) = 5 /\ Led(6, 15) = 20
    BY GotoTable
  <2>3. Done(6, 4)
    BY <1>12, <2>1, <2>2 DEF Moves
  <2>4. ReduceBy(s) = 6 /\ Symbols(6) = 4
    BY <1>12 DEF ReduceBy, Symbols
  <2> QED
    BY <2>3, <2>4
<1>13. CASE s = 13
  <2>1. ss[n-2] = 6 /\ 2 < n
    BY <1>1, <1>2, <1>13 DEF Depths, Under
  <2>2. Led(14, 6) = 8
    BY GotoTable
  <2>3. Done(14, 2)
    BY <1>13, <2>1, <2>2 DEF Moves
  <2>4. ReduceBy(s) = 14 /\ Symbols(14) = 2
    BY <1>13 DEF ReduceBy, Symbols
  <2> QED
    BY <2>3, <2>4
<1>14. CASE s = 14
  <2>1. ss[n-2] = 8 /\ 2 < n
    BY <1>1, <1>2, <1>14 DEF Depths, Under
  <2>2. Led(7, 8) = 12
    BY GotoTable
  <2>3. Done(7, 2)
    BY <1>14, <2>1, <2>2 DEF Moves
  <2>4. ReduceBy(s) = 7 /\ Symbols(7) = 2
    BY <1>14 DEF ReduceBy, Symbols
  <2> QED
    BY <2>3, <2>4
<1>15. CASE s = 18
  <2>1. ss[n-2] = 10 /\ 2 < n
    BY <1>1, <1>2, <1>15 DEF Depths, Under
  <2>2. Led(9, 10) = 15
    BY GotoTable
  <2>3. Done(9, 2)
    BY <1>15, <2>1, <2>2 DEF Moves
  <2>4. ReduceBy(s) = 9 /\ Symbols(9) = 2
    BY <1>15 DEF ReduceBy, Symbols
  <2> QED
    BY <2>3, <2>4
<1>16. CASE s = 19
  <2>1. ss[n-2] = 10 /\ 2 < n
    BY <1>1, <1>2, <1>16 DEF Depths, Under
  <2>2. Led(11, 10) = 15
    BY GotoTable
  <2>3. Done(11, 2)
    BY <1>16, <2>1, <2>2 DEF Moves
  <2>4. ReduceBy(s) = 11 /\ Symbols(11) = 2
    BY <1>16 DEF ReduceBy, Symbols
  <2> QED
    BY <2>3, <2>4
<1>17. CASE s = 20
  <2>1. ss[n-2] = 10 /\ 2 < n
    BY <1>1, <1>2, <1>17 DEF Depths, Under
  <2>2. Led(10, 10) = 15
    BY GotoTable
  <2>3. Done(10, 2)
    BY <1>17, <2>1, <2>2 DEF Moves
  <2>4. ReduceBy(s) = 10 /\ Symbols(10) = 2
    BY <1>17 DEF ReduceBy, Symbols
  <2> QED
    BY <2>3, <2>4
<1>18. CASE s = 21
  <2>1. ss[n-3] = 8 /\ 3 < n
    BY <1>1, <1>2, <1>18 DEF Depths, Under
  <2>2. Led(17, 8) = 13
    BY GotoTable
  <2>3. Done(17, 3)
    BY <1>18, <2>1, <2>2 DEF Moves
  <2>4. ReduceBy(s) = 17 /\ Symbols(17) = 3
    BY <1>18 DEF ReduceBy, Symbols
  <2> QED
    BY <2>3, <2>4
<1>19. CASE s = 22
  <2>1. ss[n-1] = 17 /\ 1 < n
    BY <1>1, <1>2, <1>19 DEF Depths, Under
  <2>2. Led(13, 17) = 23
    BY GotoTable
  <2>3. Done(13, 1)
    BY <1>19, <2>1, <2>2 DEF Moves
  <2>4. ReduceBy(s) = 13 /\ Symbols(13) = 1
    BY <1>19 DEF ReduceBy, Symbols
  <2> QED
    BY <2>3, <2>4
<1>20. CASE s = 24
  <2>1. ss[n-5] = 8 /\ 5 < n
    BY <1>1, <1>2, <1>20 DEF Depths, Under
  <2>2. Led(8, 8) = 12
    BY GotoTable
  <2>3. Done(8, 5)
    BY <1>20, <2>1, <2>2 DEF Moves
  <2>4. ReduceBy(s) = 8 /\ Symbols(8) = 5
    BY <1>20 DEF ReduceBy, Symbols
  <2> QED
    BY <2>3, <2>4
<1>21. s \in {0, 2, 3, 4, 5, 6, 7, 10, 11, 12, 13, 14, 18, 19, 20, 21, 22, 24}
  BY <1>2 DEF ReduceBy, States
<1> HIDE DEF Done
<1> QED
  BY <1>3, <1>4, <1>5, <1>6, <1>7, <1>8, <1>9, <1>10, <1>11, <1>12, <1>13,
     <1>14, <1>15, <1>16, <1>17, <1>18, <1>19, <1>20, <1>21

\* Where the moves lead to.
LEMMA MovesUnder ==
  ASSUME NEW s, NEW n, NEW p, NEW k, NEW r, NEW x, Moves(s, n, p, k, r, x)
  PROVE  /\ x \in {1, 4, 5, 6, 7, 8, 12, 13, 15, 19, 20, 23, 25}
         /\ x \in States /\ Under(r, x)
         /\ x = 25 => s = 7
         /\ x = 8 => s \in {6, 13}
         /\ x = 13 => s \in {11, 21}
         /\ x = 23 <=> s = 22
BY DEF Moves, Under, States

Opens(s, e) == IF s = 3 THEN e + 1 ELSE IF s \in {14, 24} THEN e - 1 ELSE e

\* A rule is reduced.
LEMMA PlaceReduce ==
  ASSUME NEW s \in States, NEW n \in Nat, NEW p, NEW k, NEW r, NEW x, Moves(s, n, p, k, r, x),
         NEW e \in Nat, NEW mode, NEW depth \in Int, Place(s, p, n, e, mode, depth)
  PROVE  /\ Opens(s, e) \in Nat
         /\ Place(x, r, n - k + 1, Opens(s, e), mode, depth)
<1> USE DEF Place, Opens
<1>1. CASE s = 0 /\ k = 0 /\ r = 0 /\ x = 1
  BY <1>1
<1>2. CASE s = 2 /\ Moves(s, n, p, k, r, x)
  <2>1. CASE k = 1 /\ r = 1 /\ x = 4 /\ p = 1
    BY <1>2, <2>1
  <2>2. CASE k = 1 /\ r = 7 /\ x = 4 /\ p = 7
    BY <1>2, <2>2
  <2>3. CASE k = 1 /\ r = 15 /\ x = 19 /\ p = 15
    BY <1>2, <2>3
  <2> HIDE DEF Place, Opens
  <2> QED
    BY <1>2, <2>1, <2>2, <2>3 DEF Moves
<1>3. CASE s = 3 /\ k = 0 /\ r = 3 /\ x = 6
  BY <1>3
<1>4. CASE s = 4 /\ Moves(s, n, p, k, r, x)
  <2>1. CASE k = 2 /\ r = 0 /\ x = 1 /\ p = 1
    BY <1>4, <2>1
  <2>2. CASE k = 2 /\ r = 5 /\ x = 7 /\ p = 7
    BY <1>4, <2>2
  <2> HIDE DEF Place, Opens
  <2> QED
    BY <1>4, <2>1, <2>2 DEF Moves
<1>5. CASE s = 5 /\ k = 0 /\ r = 5 /\ x = 7
  BY <1>5
<1>6. CASE s = 6 /\ k = 0 /\ r = 6 /\ x = 8
  BY <1>6
<1>7. CASE s = 7 /\ k = 3 /\ r = 0 /\ x = 25
  BY <1>7
<1>8. CASE s = 10 /\ k = 0 /\ r = 10 /\ x = 15
  BY <1>8
<1>9. CASE s = 11 /\ k = 1 /\ r = 8 /\ x = 13
  BY <1>9
<1>10. CASE s = 12 /\ Moves(s, n, p, k, r, x)
  <2>1. CASE k = 4 /\ r = 1 /\ x = 5 /\ n = 6
    BY <1>10, <2>1
  <2>2. CASE k = 4 /\ r = 15 /\ x = 20 /\ n >= 11
    BY <1>10, <2>2
  <2> HIDE DEF Place, Opens
  <2> QED
    BY <1>10, <2>1, <2>2 DEF Moves
<1>11. CASE s = 13 /\ k = 2 /\ r = 6 /\ x = 8
  BY <1>11
<1>12. CASE s = 14 /\ k = 2 /\ r = 8 /\ x = 12
  BY <1>12
<1>13. CASE s = 18 /\ k = 2 /\ r = 10 /\ x = 15
  BY <1>13
<1>14. CASE s = 19 /\ k = 2 /\ r = 10 /\ x = 15
  BY <1>14
<1>15. CASE s = 20 /\ k = 2 /\ r = 10 /\ x = 15
  BY <1>15
<1>16. CASE s = 21 /\ k = 3 /\ r = 8 /\ x = 13
  BY <1>16
<1>17. CASE s = 22 /\ k = 1 /\ r = 17 /\ x = 23
  BY <1>17
<1>18. CASE s = 24 /\ k = 5 /\ r = 8 /\ x = 12
  BY <1>18
<1> HIDE DEF Place, Opens
<1> QED
  BY <1>1, <1>2, <1>3, <1>4, <1>5, <1>6, <1>7, <1>8, <1>9, <1>10, <1>11, <1>12, <1>13,
     <1>14, <1>15, <1>16, <1>17, <1>18 DEF Moves
-----------------------------------------------------------------------------
(* The parser and the document that it has taken.                          *)

Nodes == [name : Strings, value : Strings, children : Seq(Nat), attrs : Seq(Strings \X Strings)]

\* The tokens that have been shifted: without the one that was only read.
TakenOf(s, y, r) == IF y = B!YYEMPTY \/ s = 26 THEN Len(r) ELSE Len(r) - 1

\* Of these, the tokens that the stack of open elements stands for; those
\* whose names have been compared; and the one whose name is to be.
Settled(s, t)  == IF s \in {3, 14, 24} THEN t - 1 ELSE t
Compared(s, t) == IF s = 24 THEN t - 2 ELSE IF s \in {22, 23} THEN t - 1 ELSE t
NamedAt(s, t)  == IF s = 24 THEN t - 1 ELSE t

Parent(r, j) == B!ParentOf(Ops(r), j)

NamesUpTo(r, c) ==
  \A j \in 2..c :
    r[j].k = 8 /\ r[j-1].k = 7 => Parent(r, j) \in 1..j-1 /\ r[j].s = r[Parent(r, j)].s

Opened(s, el, f, r, t) ==
  \E op : /\ Nest(Ops(r), Settled(s, t), op) /\ Len(op) = Len(el)
          /\ \A k \in 1..Len(el) : el[k] \in 1..Len(f) /\ f[el[k]].name = r[op[k]].s
          /\ s \in {22, 23, 24} => Parent(r, NamedAt(s, t)) = op[Len(op)]

\* The last tokens that were taken, and their values on the stack.
Trailing(s, vs, r, t) ==
  /\ s = 3 => t >= 1 /\ Ops(r)[t].op = "open" /\ vs[Len(vs)] = r[t].s
  /\ s \in {14, 24} => t >= 1 /\ Ops(r)[t].op = "close"
  /\ s \in {22, 23} => t >= 2 /\ r[t].k = 8 /\ r[t-1].k = 7 /\ vs[Len(vs)] = r[t].s
  /\ s = 24 => /\ t >= 3 /\ r[t].k = 6 /\ r[t-1].k = 8 /\ r[t-2].k = 7
               /\ vs[Len(vs) - 1] = r[t-1].s

\* The token that was read and not taken.
Pending(s, y, mode) ==
  /\ s \in {8, 13} /\ mode = "attr" => y # B!YYEMPTY /\ y.k # 4
  /\ s = 25 => y # B!YYEMPTY /\ y.k # 11
  /\ s = 26 => y # B!YYEMPTY /\ y.k = 0

Within(s, p, n, vs, el, f, y, r, t) ==
  /\ Place(s, p, n, Len(el), ModeAt(r, t), DepthAt(r, t))
  /\ Pending(s, y, ModeAt(r, t))
  /\ Opened(s, el, f, r, t)
  /\ Trailing(s, vs, r, t)
  /\ NamesUpTo(r, Compared(s, t))

Document(ss, vs, el, f, y, r) ==
  /\ Path(ss)
  /\ y # B!YYEMPTY => Len(r) > 0 /\ y = r[Len(r)]
  /\ Within(Top(ss), ss[Len(ss)-1], Len(ss), vs, el, f, y, r, TakenOf(Top(ss), y, r))

Typed(vs, el, f, y, r) ==
  /\ vs \in Seq(Strings) /\ el \in Seq(Nat) /\ f \in Seq(Nodes)
  /\ y \in Tokens \cup {B!YYEMPTY} /\ r \in Seq(Tokens)

\* No token is the empty one.
LEMMA EmptyToken == B!YYEMPTY \notin Tokens /\ B!YYEMPTY.k = -2
<1>1. B!YYEMPTY.k = -2
  BY DEF B!YYEMPTY, B!Token
<1>2. \A t \in Tokens : t.k # -2
  BY DEF Tokens, Kinds
<1> QED
  BY <1>1, <1>2

\* In every place the depth is a number.
LEMMA PlaceDepth ==
  ASSUME NEW s \in States, NEW p, NEW n, NEW e \in Nat, NEW mode, NEW depth,
         Place(s, p, n, e, mode, depth)
  PROVE  depth \in Int
BY DEF Place, States

\* A token is read.
LEMMA ReadKeeps ==
  ASSUME NEW ss, NEW vs, NEW el, NEW f, NEW r, NEW tok \in Tokens,
         Typed(vs, el, f, B!YYEMPTY, r), Document(ss, vs, el, f, B!YYEMPTY, r)
  PROVE  /\ Typed(vs, el, f, tok, Append(r, tok))
         /\ Document(ss, vs, el, f, tok, Append(r, tok))
<1> DEFINE q == Append(r, tok)
           s == Top(ss)
           t == Len(r)
           p == ss[Len(ss)-1]
           n == Len(ss)
<1>1. r \in Seq(Tokens) /\ t \in Nat /\ q \in Seq(Tokens) /\ Len(q) = t + 1 /\ q[t+1] = tok
      /\ \A i \in 1..t : q[i] = r[i]
  BY DEF Typed
<1>2. Path(ss) /\ Within(s, p, n, vs, el, f, B!YYEMPTY, r, t)
  BY DEF Document, TakenOf
<1>3. s # 26 /\ s # 25 /\ (s \in {8, 13} => ModeAt(r, t) # "attr")
  BY <1>2 DEF Within, Pending
<1>4. tok # B!YYEMPTY /\ TakenOf(s, tok, q) = t
  BY <1>1, <1>3, EmptyToken DEF TakenOf
<1> HIDE DEF q, s, p, n
<1>5. ModeAt(q, t) = ModeAt(r, t) /\ DepthAt(q, t) = DepthAt(r, t)
  BY <1>1, ModeSame DEF q
<1>6. \A i \in 1..t : Ops(q)[i].op = Ops(r)[i].op
  BY <1>1, OpsAppend DEF q
<1>7. \A j \in 1..t+1 : Parent(q, j) = Parent(r, j)
  BY <1>1, <1>6, ParentSame DEF Parent
<1> HIDE DEF t
<1>9. Opened(s, el, f, q, t)
  <2>1. PICK op : /\ Nest(Ops(r), Settled(s, t), op) /\ Len(op) = Len(el)
                  /\ \A k \in 1..Len(el) : el[k] \in 1..Len(f) /\ f[el[k]].name = r[op[k]].s
                  /\ s \in {22, 23, 24} => Parent(r, NamedAt(s, t)) = op[Len(op)]
    BY <1>2 DEF Within, Opened
  <2>2. Settled(s, t) \in Int /\ Settled(s, t) <= t /\ (s \in {3, 14, 24} => t >= 1)
    BY <1>1, <1>2 DEF Settled, Within, Trailing
  <2>3. Settled(s, t) \in Nat /\ \A i \in 1..Settled(s, t) : i \in 1..t
    BY <1>1, <2>2 DEF Settled
  <2>4. Nest(Ops(q), Settled(s, t), op)
    BY <1>6, <2>1, <2>3, NestSame
  <2>5. \A k \in 1..Len(op) : op[k] \in 1..t
    BY <2>1, <2>3 DEF Nest
  <2>6. \A k \in 1..Len(el) : q[op[k]] = r[op[k]]
    BY <1>1, <2>1, <2>5
  <2>7. s \in {22, 23, 24} => Parent(q, NamedAt(s, t)) = Parent(r, NamedAt(s, t))
    <3>1. s \in {22, 23, 24} => NamedAt(s, t) \in 1..t+1
      BY <1>1, <1>2 DEF NamedAt, Within, Trailing
    <3> QED
      BY <1>7, <3>1
  <2> QED
    BY <2>1, <2>4, <2>6, <2>7 DEF Opened
<1>10. Trailing(s, vs, q, t)
  <2>1. Trailing(s, vs, r, t)
    BY <1>2 DEF Within
  <2>2. t >= 1 => Ops(q)[t].op = Ops(r)[t].op /\ q[t] = r[t]
    BY <1>1, <1>6
  <2>3. (t >= 2 => q[t-1] = r[t-1]) /\ (t >= 3 => q[t-1] = r[t-1] /\ q[t-2] = r[t-2])
    BY <1>1
  <2> QED
    BY <1>1, <2>1, <2>2, <2>3, SMTT(30) DEF Trailing
<1>11. NamesUpTo(q, Compared(s, t))
  <2>1. NamesUpTo(r, Compared(s, t))
    BY <1>2 DEF Within
  <2>2. \A j \in 2..Compared(s, t) : j \in 1..t /\ j - 1 \in 1..t
    BY <1>1 DEF Compared
  <2>3. ASSUME NEW j \in 2..Compared(s, t), q[j].k = 8, q[j-1].k = 7
        PROVE  Parent(q, j) \in 1..j-1 /\ q[j].s = q[Parent(q, j)].s
    <3>1. q[j] = r[j] /\ q[j-1] = r[j-1] /\ Parent(q, j) = Parent(r, j)
      BY <1>1, <1>7, <2>2
    <3>2. Parent(r, j) \in 1..j-1 /\ r[j].s = r[Parent(r, j)].s
      BY <2>1, <2>3, <3>1 DEF NamesUpTo
    <3>3. Parent(r, j) \in 1..t
      BY <1>1, <2>2, <3>2
    <3> QED
      BY <1>1, <3>1, <3>2, <3>3
  <2> QED
    BY <2>3 DEF NamesUpTo
<1>12. Pending(s, tok, ModeAt(q, t))
  BY <1>3, <1>5 DEF Pending
<1>13. Within(s, p, n, vs, el, f, tok, q, t)
  BY <1>2, <1>5, <1>9, <1>10, <1>11, <1>12 DEF Within
<1>14. Document(ss, vs, el, f, tok, q)
  BY <1>1, <1>2, <1>4, <1>13 DEF Document, s, p, n
<1>15. Typed(vs, el, f, tok, q)
  BY <1>1 DEF Typed
<1> QED
  BY <1>14, <1>15 DEF q

\* The pending token is shifted.
LEMMA ShiftKeeps ==
  ASSUME NEW ss, NEW vs, NEW el, NEW f, NEW y, NEW r,
         Typed(vs, el, f, y, r), Document(ss, vs, el, f, y, r), Len(vs) = Len(ss),
         y # B!YYEMPTY, Top(ss) \in Consulting, NEW x, x = ShiftTo(Top(ss), y.k), x \notin {0, 27}
  PROVE  LET z == IF y.k = 0 THEN y ELSE B!YYEMPTY
         IN  /\ Typed(Append(vs, y.s), el, f, z, r)
             /\ Document(Append(ss, x), Append(vs, y.s), el, f, z, r)
<1> DEFINE s == Top(ss)
           t == Len(r) - 1
           p == ss[Len(ss)-1]
           n == Len(ss)
           k == y.k
           e == Len(el)
           z == IF y.k = 0 THEN y ELSE B!YYEMPTY
           ws == Append(vs, y.s)
           us == Append(ss, x)
<1>1. /\ r \in Seq(Tokens) /\ Len(r) \in Nat /\ Len(r) > 0 /\ y = r[Len(r)] /\ y \in Tokens
      /\ k \in Kinds /\ y.s \in Strings /\ e \in Nat /\ n \in Nat \ {0} /\ s \in States
      /\ ss \in Seq(States) /\ vs \in Seq(Strings)
  BY EmptyToken DEF Typed, Document, Path, Tokens, Top
<1>2. Path(ss) /\ Within(s, p, n, vs, el, f, y, r, TakenOf(s, y, r))
  BY DEF Document
<1>3. s # 26
  <2>1. s = 26 => k = 0
    BY <1>2 DEF Within, Pending
  <2> QED
    BY <2>1 DEF ShiftTo
<1>4. TakenOf(s, y, r) = t /\ t \in Nat /\ t + 1 = Len(r) /\ r[t+1] = y /\ t + 1 \in 1..Len(r)
  BY <1>1, <1>3 DEF TakenOf
<1>5. /\ ws \in Seq(Strings) /\ Len(ws) = n + 1 /\ ws[n+1] = y.s
      /\ \A i \in 1..n : ws[i] = vs[i]
  BY <1>1
<1>6. z \in Tokens \cup {B!YYEMPTY}
  BY <1>1
<1> DEFINE mode  == ModeAt(r, t)
           depth == DepthAt(r, t)
           fo == FollowTo(mode, k)
           d  == depth + (IF k = 12 THEN 1 ELSE IF fo = "closed" THEN -1 ELSE 0)
<1>7. Place(s, p, n, e, mode, depth) /\ Pending(s, y, mode) /\ Opened(s, el, f, r, t)
      /\ Trailing(s, vs, r, t) /\ NamesUpTo(r, Compared(s, t))
  BY <1>2, <1>4 DEF Within
<1>8. DepthAt(r, t + 1) = d
      /\ ModeAt(r, t + 1) = IF fo = "closed" THEN (IF d = 0 THEN "after" ELSE "content") ELSE fo
  <2>1. (t + 1) - 1 = t
    BY <1>4
  <2> HIDE DEF t
  <2> QED
    BY <1>1, <1>4, <2>1, ModeStep
<1>9. x = ShiftTo(s, k) /\ s \in Consulting
  OBVIOUS
<1> HIDE DEF s, t, p, n, k, e, z, ws, mode, depth
<1>10. depth \in Int
  BY <1>1, <1>7, PlaceDepth
<1>11. s = 8 /\ mode = "attr" => k # 4
  BY <1>7 DEF Pending, k
<1>12. /\ x \in States /\ Under(s, x)
       /\ Place(x, s, n + 1, e, ModeAt(r, t + 1), DepthAt(r, t + 1))
       /\ k = 12 <=> x = 3
       /\ fo = "closed" <=> x \in {14, 24}
       /\ x = 22 <=> s = 17
       /\ x = 24 <=> s = 23
       /\ x = 26 <=> k = 0
       /\ x \notin {0, 23, 25}
       /\ x \in {8, 13} => fo # "attr"
  <2> HIDE DEF fo
  <2> QED
    BY <1>1, <1>7, <1>8, <1>9, <1>10, <1>11, PlaceShift, SMTT(30) DEF fo
<1> HIDE DEF fo, d
<1>13. ModeAt(r, t + 1) # "error"
  BY <1>12, PlaceMode
<1>14. /\ Ops(r)[t+1].op = "open"  <=> x = 3
       /\ Ops(r)[t+1].op = "close" <=> x \in {14, 24}
  <2>1. (t + 1) - 1 = t
    BY <1>4
  <2>2. /\ Ops(r)[t+1].op = "open"  <=> r[t+1].k = 12
        /\ Ops(r)[t+1].op = "close" <=> FollowTo(ModeAt(r, t), r[t+1].k) = "closed"
    BY <1>1, <1>4, <1>13, <2>1, OpsAre
  <2> QED
    BY <1>4, <1>12, <2>2 DEF fo, mode, k
<1>15. s \in {17, 23} => s \notin {3, 14, 24}
  OBVIOUS
<1>16. s \notin {3, 14, 24, 22}
  BY <1>9 DEF Consulting
<1>17. Opened(x, el, f, r, t + 1)
  <2>1. PICK op : /\ Nest(Ops(r), t, op) /\ Len(op) = e
                  /\ \A i \in 1..e : el[i] \in 1..Len(f) /\ f[el[i]].name = r[op[i]].s
                  /\ s \in {22, 23, 24} => Parent(r, t) = op[Len(op)]
    BY <1>7, <1>16 DEF Opened, Settled, NamedAt, e
  <2>2. (t + 1) - 1 = t
    BY <1>4
  <2>3. CASE x \in {3, 14, 24}
    <3>1. Settled(x, t + 1) = t
      BY <2>2, <2>3 DEF Settled
    <3>2. x \in {22, 23, 24} => Parent(r, NamedAt(x, t + 1)) = op[Len(op)]
      BY <1>12, <2>1, <2>2, <2>3 DEF NamedAt
    <3> QED
      BY <2>1, <3>1, <3>2 DEF Opened, e
  <2>4. CASE x \notin {3, 14, 24}
    <3>1. Settled(x, t + 1) = t + 1
      BY <2>4 DEF Settled
    <3>2. Nest(Ops(r), t + 1, op)
      BY <1>4, <1>14, <2>1, <2>4, NestNone
    <3>3. x = 22 => Parent(r, t + 1) = op[Len(op)]
      <4>1. x = 22 => e # 0
        BY <1>12 DEF Place
      <4> QED
        BY <1>4, <2>1, <4>1, ParentTop DEF Parent
    <3>4. x \in {22, 23, 24} => Parent(r, NamedAt(x, t + 1)) = op[Len(op)]
      BY <1>12, <2>4, <3>3 DEF NamedAt
    <3> QED
      BY <2>1, <3>1, <3>2, <3>4 DEF Opened, e
  <2> QED
    BY <2>3, <2>4
<1>18. s = 17 => t >= 1 /\ r[t].k = 7
  <2> SUFFICES ASSUME s = 17 PROVE t >= 1 /\ r[t].k = 7
    OBVIOUS
  <2>1. mode = "end"
    BY <1>7 DEF Place
  <2>2. t # 0
    BY <1>1, <2>1, ModeStart DEF mode
  <2>3. t \in 1..Len(r)
    BY <1>4, <2>2
  <2>4. r[t].k = 7
    BY <1>1, <2>1, <2>3, ModeTokens DEF mode
  <2> QED
    BY <2>3, <2>4
<1>19. Trailing(x, ws, r, t + 1)
  <2>1. t + 1 >= 1 /\ (t + 1) - 1 = t /\ (t + 1) - 2 = t - 1 /\ (t >= 1 => t + 1 >= 2)
        /\ (t >= 2 => t + 1 >= 3) /\ Len(ws) = n + 1 /\ (n + 1) - 1 = n /\ n \in 1..n
    BY <1>1, <1>4, <1>5
  <2>2. ws[Len(ws)] = r[t+1].s /\ ws[Len(ws) - 1] = vs[n]
    BY <1>4, <1>5, <2>1
  <2>3. x = 22 => r[t+1].k = 8
    <3>1. s = 17 => k = 8
      BY <1>9, <1>12 DEF ShiftTo
    <3> QED
      BY <1>4, <1>12, <3>1 DEF k
  <2>4. x = 24 => r[t+1].k = 6
    <3>1. s = 23 => k = 6
      BY <1>9, <1>12 DEF ShiftTo
    <3> QED
      BY <1>4, <1>12, <3>1 DEF k
  <2>5. x = 24 => t >= 2 /\ r[t].k = 8 /\ r[t-1].k = 7 /\ vs[n] = r[t].s
    <3>1. Len(vs) = n
      BY DEF n
    <3> QED
      BY <1>7, <1>12, <3>1 DEF Trailing
  <2> QED
    BY <1>12, <1>14, <1>18, <2>1, <2>2, <2>3, <2>4, <2>5 DEF Trailing
<1>20. NamesUpTo(r, Compared(x, t + 1))
  <2>1. CASE x \in {22, 24}
    <3>1. Compared(x, t + 1) = Compared(s, t)
      BY <1>4, <1>12, <2>1 DEF Compared
    <3> QED
      BY <1>7, <3>1
  <2>2. CASE x \notin {22, 24}
    <3>1. Compared(x, t + 1) = t + 1 /\ Compared(s, t) = t
      BY <1>12, <1>16, <2>2 DEF Compared
    <3>2. ASSUME NEW j \in 2..t+1, r[j].k = 8, r[j-1].k = 7
          PROVE  Parent(r, j) \in 1..j-1 /\ r[j].s = r[Parent(r, j)].s
      <4>1. CASE j = t + 1
        <5>1. j - 1 = t /\ t \in 1..Len(r)
          BY <1>4, <4>1
        <5>2. mode = "end"
          <6>1. mode # "error"
            BY <1>1, <1>7, PlaceMode
          <6> QED
            BY <1>1, <3>2, <5>1, <6>1, ModeTokens DEF mode
        <5>3. s = 17
          BY <1>1, <1>7, <5>2 DEF Place, States
        <5> QED
          BY <1>12, <2>2, <5>3
      <4>2. CASE j # t + 1
        <5>1. j \in 2..t
          BY <1>4, <4>2
        <5> QED
          BY <1>7, <3>1, <3>2, <5>1 DEF NamesUpTo
      <4> QED
        BY <4>1, <4>2
    <3> QED
      BY <3>1, <3>2 DEF NamesUpTo
  <2> QED
    BY <2>1, <2>2
<1>21. TakenOf(x, z, r) = t + 1
  BY <1>4, <1>12 DEF TakenOf, z, k
<1>22. Pending(x, z, ModeAt(r, t + 1))
  <2>1. x \in {8, 13} => ModeAt(r, t + 1) # "attr"
    BY <1>8, <1>12
  <2>2. x = 26 => z # B!YYEMPTY /\ z.k = 0
    BY <1>12 DEF z, k
  <2> QED
    BY <1>12, <2>1, <2>2 DEF Pending
<1>23. Path(us) /\ Len(us) = n + 1 /\ Top(us) = x /\ us[Len(us) - 1] = s
  <2>1. SubSeq(ss, 1, Len(ss) - 0) = ss /\ Len(ss) - 0 = n /\ 0 \in Nat /\ 0 < Len(ss)
    BY <1>1 DEF n
  <2>2. Under(ss[Len(ss) - 0], x)
    BY <1>12, <2>1 DEF s, Top, n
  <2>3. LET q == Append(SubSeq(ss, 1, Len(ss) - 0), x)
        IN  /\ Path(q) /\ Len(q) = Len(ss) - 0 + 1
            /\ Top(q) = x /\ q[Len(q) - 1] = ss[Len(ss) - 0]
    BY <1>2, <1>12, <2>1, <2>2, PathPush
  <2>4. ss[Len(ss) - 0] = s
    BY <2>1 DEF s, Top, n
  <2> QED
    BY <2>1, <2>3, <2>4
<1>24. Within(x, s, n + 1, ws, el, f, z, r, t + 1)
  BY <1>12, <1>17, <1>19, <1>20, <1>22 DEF Within, e
<1>25. z # B!YYEMPTY => Len(r) > 0 /\ z = r[Len(r)]
  BY <1>1 DEF z
<1>26. Document(us, ws, el, f, z, r)
  BY <1>21, <1>23, <1>24, <1>25 DEF Document
<1>27. Typed(ws, el, f, z, r)
  BY <1>5, <1>6 DEF Typed
<1> QED
  BY <1>26, <1>27 DEF ws, z

\* The rule of the state is reduced; its action made the forest g, and left
\* the elements eo open and the value v.
Acted(s, vs, el, f, eo, g, v) ==
  /\ v \in Strings /\ g \in Seq(Nodes) /\ Len(f) <= Len(g)
  /\ \A i \in 1..Len(f) : g[i].name = f[i].name
  /\ eo = IF s = 3 THEN Append(el, Len(g))
          ELSE IF s \in {14, 24} THEN SubSeq(el, 1, Len(el) - 1) ELSE el
  /\ s = 3 => Len(g) > 0 /\ g[Len(g)].name = vs[Len(vs)]
  /\ s = 24 => f[el[Len(el)]].name = vs[Len(vs) - 1]
  /\ s = 22 => v = vs[Len(vs)]

\* A reduction keeps what the invariant says of the document.
LEMMA ReduceKeeps ==
  ASSUME NEW ss, NEW vs, NEW el, NEW f, NEW y, NEW r,
         Typed(vs, el, f, y, r), Document(ss, vs, el, f, y, r), Len(vs) = Len(ss),
         ReduceBy(Top(ss)) # 0,
         Top(ss) \in Consulting => y # B!YYEMPTY /\ ShiftTo(Top(ss), y.k) = 0,
         NEW eo, NEW g, NEW v, Acted(Top(ss), vs, el, f, eo, g, v)
  PROVE  LET rule == ReduceBy(Top(ss))
             l    == Len(ss) - Symbols(rule)
             us   == Append(SubSeq(ss, 1, l), Led(rule, ss[l]))
             ws   == Append(SubSeq(vs, 1, l), v)
         IN  /\ rule \in 1..17 /\ l \in 1..Len(ss)
             /\ Led(rule, ss[l]) \in States
             /\ Len(us) = l + 1 /\ Len(ws) = l + 1
             /\ Typed(ws, eo, g, y, r)
             /\ Document(us, ws, eo, g, y, r)
<1> DEFINE s == Top(ss)
           t == TakenOf(s, y, r)
           n == Len(ss)
           p == ss[n-1]
           e == Len(el)
           rule == ReduceBy(s)
           k  == Symbols(rule)
           l  == n - k
           rr == ss[l]
           x  == Led(rule, rr)
           us == Append(SubSeq(ss, 1, l), x)
           ws == Append(SubSeq(vs, 1, l), v)
           mode  == ModeAt(r, t)
           depth == DepthAt(r, t)
<1>1. /\ r \in Seq(Tokens) /\ Len(r) \in Nat /\ e \in Nat /\ n \in Nat \ {0} /\ s \in States
      /\ ss \in Seq(States) /\ vs \in Seq(Strings) /\ Len(vs) = n /\ el \in Seq(Nat)
      /\ f \in Seq(Nodes) /\ Len(f) \in Nat
      /\ y \in Tokens \cup {B!YYEMPTY}
  BY DEF Typed, Document, Path, Top
<1>2. Path(ss) /\ (y # B!YYEMPTY => Len(r) > 0 /\ y = r[Len(r)])
      /\ Within(s, p, n, vs, el, f, y, r, t)
  BY DEF Document
<1>3. Place(s, p, n, e, mode, depth) /\ Pending(s, y, mode) /\ Opened(s, el, f, r, t)
      /\ Trailing(s, vs, r, t) /\ NamesUpTo(r, Compared(s, t))
  BY <1>2 DEF Within
<1>4. rule \in 1..17 /\ k \in Nat /\ k < n /\ Moves(s, n, p, k, rr, x)
  BY <1>2, ReduceMoves
<1>5. s \in Consulting => y # B!YYEMPTY /\ ShiftTo(s, y.k) = 0
  OBVIOUS
<1>6. Acted(s, vs, el, f, eo, g, v)
  OBVIOUS
<1>7. rule = ReduceBy(s) /\ rule # 0
  OBVIOUS
<1>8. t \in Nat /\ t <= Len(r)
  BY <1>1, <1>2 DEF TakenOf
<1>9. ws \in Seq(Strings) /\ Len(ws) = l + 1 /\ ws[l+1] = v
  <2>1. l \in Nat /\ l <= n
    BY <1>1, <1>4
  <2> HIDE DEF l
  <2>2. \A i \in 1..l : i \in 1..n
    BY <1>1, <2>1
  <2>3. SubSeq(vs, 1, l) \in Seq(Strings) /\ Len(SubSeq(vs, 1, l)) = l
    BY <1>1, <2>1, <2>2
  <2>4. v \in Strings
    BY DEF Acted
  <2> QED
    BY <2>1, <2>3, <2>4
<1>10. /\ x \in {1, 4, 5, 6, 7, 8, 12, 13, 15, 19, 20, 23, 25}
       /\ x \in States /\ Under(rr, x)
       /\ x = 25 => s = 7
       /\ x = 8 => s \in {6, 13}
       /\ x = 13 => s \in {11, 21}
       /\ x = 23 <=> s = 22
  <2> HIDE DEF x
  <2> QED
    BY <1>4, MovesUnder
<1>11. l \in 1..n /\ Path(us) /\ Len(us) = l + 1 /\ Top(us) = x /\ us[Len(us) - 1] = rr
  <2>1. Under(ss[Len(ss) - k], x) /\ k < Len(ss) /\ k \in Nat /\ x \in States
    BY <1>4, <1>10
  <2> HIDE DEF k, x, s
  <2>2. LET q == Append(SubSeq(ss, 1, Len(ss) - k), x)
        IN  /\ Path(q) /\ Len(q) = Len(ss) - k + 1
            /\ Top(q) = x /\ q[Len(q) - 1] = ss[Len(ss) - k]
    BY <1>2, <2>1, PathPush
  <2> QED
    BY <1>1, <2>1, <2>2
<1>12. TakenOf(x, y, r) = t
  <2>1. x # 26
    BY <1>10
  <2>2. s # 26
    <3>1. ReduceBy(26) = 0
      BY DEF ReduceBy
    <3> HIDE DEF s
    <3> QED
      BY <1>7, <3>1
  <2> HIDE DEF s, x
  <2> QED
    BY <2>1, <2>2 DEF TakenOf
<1> HIDE DEF s, t, p, n, e, rule, k, l, rr, x, us, ws, mode, depth
<1>13. Opens(s, e) \in Nat /\ Place(x, rr, l + 1, Opens(s, e), mode, depth)
  <2>1. depth \in Int
    BY <1>1, <1>3, PlaceDepth
  <2> QED
    BY <1>1, <1>3, <1>4, <2>1, PlaceReduce DEF l
<1>14. eo \in Seq(Nat) /\ Len(eo) = Opens(s, e) /\ g \in Seq(Nodes) /\ Len(g) \in Nat
       /\ Len(f) <= Len(g)
  <2>1. g \in Seq(Nodes) /\ Len(g) \in Nat /\ Len(f) <= Len(g)
    BY <1>6 DEF Acted
  <2>2. CASE s = 3
    <3>1. eo = Append(el, Len(g))
      BY <1>6, <2>2 DEF Acted
    <3> QED
      BY <1>1, <2>1, <2>2, <3>1 DEF Opens, e
  <2>3. CASE s \in {14, 24}
    <3>1. eo = SubSeq(el, 1, Len(el) - 1)
      BY <1>6, <2>3 DEF Acted
    <3>2. Len(el) > 0
      BY <1>3, <2>3 DEF Place, e
    <3>3. eo \in Seq(Nat) /\ Len(eo) = e - 1
      BY <1>1, <3>1, <3>2, FrontOf DEF e
    <3> QED
      BY <2>1, <2>3, <3>3 DEF Opens
  <2>4. CASE s \notin {3, 14, 24}
    <3>1. eo = el
      BY <1>6, <2>4 DEF Acted
    <3> QED
      BY <1>1, <2>1, <2>4, <3>1 DEF Opens, e
  <2> QED
    BY <2>2, <2>3, <2>4
<1>15. Opened(x, eo, g, r, t)
  <2>1. PICK op : /\ Nest(Ops(r), Settled(s, t), op) /\ Len(op) = e
                  /\ \A i \in 1..e : el[i] \in 1..Len(f) /\ f[el[i]].name = r[op[i]].s
                  /\ s \in {22, 23, 24} => Parent(r, NamedAt(s, t)) = op[Len(op)]
    BY <1>3 DEF Opened, e
  <2>2. Settled(x, t) = t /\ (x \in {22, 23, 24} => s = 22 /\ NamedAt(x, t) = NamedAt(s, t))
    BY <1>10 DEF Settled, NamedAt
  <2>3. ASSUME NEW i \in 1..e PROVE el[i] \in 1..Len(g) /\ g[el[i]].name = r[op[i]].s
    <3>1. el[i] \in 1..Len(f) /\ f[el[i]].name = r[op[i]].s
      BY <2>1
    <3>2. g[el[i]].name = f[el[i]].name
      BY <1>6, <3>1 DEF Acted
    <3> QED
      BY <1>1, <1>14, <3>1, <3>2
  <2>4. op \in Seq(Nat)
    BY <2>1 DEF Nest
  <2>5. CASE s = 3
    <3>1. /\ t >= 1 /\ Ops(r)[t].op = "open" /\ vs[Len(vs)] = r[t].s
          /\ eo = Append(el, Len(g)) /\ Len(g) > 0 /\ g[Len(g)].name = vs[Len(vs)]
          /\ Settled(s, t) = t - 1
      BY <1>3, <1>6, <2>5 DEF Trailing, Acted, Settled
    <3>2. t - 1 \in Nat /\ (t - 1) + 1 = t
      BY <1>8, <3>1
    <3>3. Nest(Ops(r), t, Append(op, t))
      BY <2>1, <3>1, <3>2, NestOpen
    <3>4. /\ Len(eo) = e + 1 /\ eo[e+1] = Len(g) /\ \A i \in 1..e : eo[i] = el[i]
          /\ Len(Append(op, t)) = e + 1 /\ Append(op, t)[e+1] = t
          /\ \A i \in 1..e : Append(op, t)[i] = op[i]
      BY <1>1, <1>8, <2>1, <2>4, <3>1, SMTT(30) DEF e
    <3>5. ASSUME NEW i \in 1..e+1
          PROVE  eo[i] \in 1..Len(g) /\ g[eo[i]].name = r[Append(op, t)[i]].s
      <4>1. CASE i = e + 1
        BY <1>14, <3>1, <3>4, <4>1
      <4>2. CASE i # e + 1
        <5>1. i \in 1..e
          BY <1>1, <4>2
        <5> QED
          BY <2>3, <3>4, <5>1
      <4> QED
        BY <4>1, <4>2
    <3>6. x \notin {22, 23, 24}
      BY <1>10, <2>5
    <3> QED
      BY <2>2, <3>3, <3>4, <3>5, <3>6 DEF Opened
  <2>6. CASE s \in {14, 24}
    <3>1. /\ t >= 1 /\ Ops(r)[t].op = "close" /\ eo = SubSeq(el, 1, Len(el) - 1)
          /\ Settled(s, t) = t - 1
      BY <1>3, <1>6, <2>6 DEF Trailing, Acted, Settled
    <3>2. t - 1 \in Nat /\ (t - 1) + 1 = t
      BY <1>8, <3>1
    <3>3. e > 0
      BY <1>3, <2>6 DEF Place
    <3> DEFINE q == SubSeq(op, 1, Len(op) - 1)
    <3>4. Nest(Ops(r), t, q)
      BY <2>1, <3>1, <3>2, <3>3, NestClose
    <3>5. Len(q) = e - 1 /\ \A i \in 1..e-1 : q[i] = op[i]
      BY <2>1, <2>4, <3>3, FrontOf
    <3>6. Len(eo) = e - 1 /\ \A i \in 1..e-1 : eo[i] = el[i]
      BY <1>1, <3>1, <3>3, FrontOf DEF e
    <3> HIDE DEF q
    <3>7. ASSUME NEW i \in 1..e-1
          PROVE  eo[i] \in 1..Len(g) /\ g[eo[i]].name = r[q[i]].s
      <4>1. i \in 1..e
        BY <1>1
      <4> QED
        BY <2>3, <3>5, <3>6, <4>1
    <3>8. x \notin {22, 23, 24}
      BY <1>10, <2>6
    <3> QED
      BY <2>2, <3>4, <3>5, <3>6, <3>7, <3>8 DEF Opened
  <2>7. CASE s \notin {3, 14, 24}
    <3>1. eo = el /\ Settled(s, t) = t
      BY <1>6, <2>7 DEF Acted, Settled
    <3>2. x \in {22, 23, 24} => Parent(r, NamedAt(x, t)) = op[Len(op)]
      BY <2>1, <2>2
    <3> QED
      BY <2>1, <2>2, <2>3, <3>1, <3>2 DEF Opened, e
  <2> QED
    BY <2>5, <2>6, <2>7
<1>16. Trailing(x, ws, r, t)
  <2>1. x \notin {3, 14, 24, 22}
    BY <1>10
  <2>2. x = 23 => t >= 2 /\ r[t].k = 8 /\ r[t-1].k = 7 /\ v = r[t].s
    <3>1. s = 22 => v = vs[Len(vs)]
      BY <1>6 DEF Acted
    <3> QED
      BY <1>3, <1>10, <3>1 DEF Trailing
  <2>3. ws[Len(ws)] = v
    BY <1>9
  <2> QED
    BY <2>1, <2>2, <2>3 DEF Trailing
<1>17. NamesUpTo(r, Compared(x, t))
  <2>1. CASE s = 22
    <3>1. Compared(x, t) = Compared(s, t)
      BY <1>10, <2>1 DEF Compared
    <3> QED
      BY <1>3, <3>1
  <2>2. CASE s = 24
    <3>1. /\ t >= 3 /\ r[t].k = 6 /\ r[t-1].k = 8 /\ r[t-2].k = 7 /\ vs[Len(vs) - 1] = r[t-1].s
          /\ f[el[Len(el)]].name = vs[Len(vs) - 1]
          /\ Settled(s, t) = t - 1 /\ Compared(s, t) = t - 2 /\ NamedAt(s, t) = t - 1
      BY <1>3, <1>6, <2>2 DEF Trailing, Acted, Settled, Compared, NamedAt
    <3>2. Compared(x, t) = t
      BY <1>10, <2>2 DEF Compared
    <3>3. PICK op : /\ Nest(Ops(r), t - 1, op) /\ Len(op) = e
                    /\ \A i \in 1..e : el[i] \in 1..Len(f) /\ f[el[i]].name = r[op[i]].s
                    /\ Parent(r, t - 1) = op[Len(op)]
      BY <1>3, <2>2, <3>1 DEF Opened, e
    <3>4. e > 0
      BY <1>3, <2>2 DEF Place
    <3>5. e \in 1..e
      BY <1>1, <3>4
    <3>6. r[Parent(r, t - 1)].s = r[t-1].s
      BY <3>1, <3>3, <3>5 DEF e
    <3>7. Parent(r, t - 1) \in 1..t-2
      <4>1. op[e] \in 1..t-1
        BY <3>3, <3>5 DEF Nest
      <4>2. op[e] # t - 1
        <5>1. Ops(r)[op[e]].op = "open"
          BY <3>3, <3>5, <4>1 DEF Nest, Around
        <5>2. t - 1 \in 1..Len(r)
          BY <1>1, <1>8, <3>1
        <5>3. Ops(r)[t-1].op = OpAt(r, t - 1)
          BY <5>2 DEF Ops
        <5>4. OpAt(r, t - 1) # "open"
          BY <3>1 DEF OpAt
        <5> QED
          BY <5>1, <5>3, <5>4
      <4> QED
        BY <1>8, <3>1, <3>3, <4>1, <4>2
    <3>8. ASSUME NEW j \in 2..t, r[j].k = 8, r[j-1].k = 7
          PROVE  Parent(r, j) \in 1..j-1 /\ r[j].s = r[Parent(r, j)].s
      <4>1. j # t
        BY <3>1, <3>8
      <4>2. CASE j = t - 1
        <5>1. j - 1 = t - 2
          BY <1>8, <4>2
        <5> QED
          BY <3>6, <3>7, <4>2, <5>1
      <4>3. CASE j # t - 1
        <5>1. j \in 2..t-2
          BY <1>8, <4>1, <4>3
        <5> QED
          BY <1>3, <3>1, <3>8, <5>1 DEF NamesUpTo
      <4> QED
        BY <4>2, <4>3
    <3> QED
      BY <3>2, <3>8 DEF NamesUpTo
  <2>3. CASE s \notin {22, 24}
    <3>1. s # 23
      BY <1>7 DEF ReduceBy
    <3>2. Compared(x, t) = t /\ Compared(s, t) = t
      BY <1>10, <2>3, <3>1 DEF Compared
    <3> QED
      BY <1>3, <3>2
  <2> QED
    BY <2>1, <2>2, <2>3
<1>18. Pending(x, y, mode)
  <2>1. CASE x \in {8, 13} /\ mode = "attr"
    <3>1. s \in {11, 13}
      <4>1. s \in {6, 13, 11, 21}
        BY <1>10, <2>1
      <4>2. s \notin {6, 21}
        BY <1>3, <2>1 DEF Place
      <4> QED
        BY <4>1, <4>2
    <3>2. CASE s = 13
      BY <1>3, <1>10, <2>1, <3>2 DEF Pending
    <3>3. CASE s = 11
      <4>1. y # B!YYEMPTY /\ ShiftTo(11, y.k) = 0
        BY <1>5, <3>3 DEF Consulting
      <4>2. y.k # 4
        BY <4>1 DEF ShiftTo
      <4> QED
        BY <2>1, <4>1, <4>2 DEF Pending
    <3> QED
      BY <3>1, <3>2, <3>3
  <2>2. CASE x = 25
    <3>1. y # B!YYEMPTY /\ ShiftTo(7, y.k) = 0
      BY <1>5, <1>10, <2>2 DEF Consulting
    <3>2. y.k # 11
      BY <3>1 DEF ShiftTo
    <3> QED
      BY <2>2, <3>1, <3>2 DEF Pending
  <2>3. CASE ~ (x \in {8, 13} /\ mode = "attr") /\ x # 25
    BY <1>10, <2>3 DEF Pending
  <2> QED
    BY <2>1, <2>2, <2>3
<1>19. Within(x, rr, l + 1, ws, eo, g, y, r, t)
  BY <1>13, <1>14, <1>15, <1>16, <1>17, <1>18 DEF Within, mode, depth
<1>20. Document(us, ws, eo, g, y, r)
  BY <1>2, <1>11, <1>12, <1>19 DEF Document
<1>21. Typed(ws, eo, g, y, r)
  BY <1>1, <1>9, <1>14 DEF Typed
<1> QED
  BY <1>4, <1>9, <1>10, <1>11, <1>20, <1>21 DEF rule, l, k, n, us, ws, x, rr, s
-----------------------------------------------------------------------------
(* The invariant of the parser, and its steps.                             *)

StackInv ==
  /\ yyss \in Seq(States) /\ Len(yyss) > 0 /\ Len(yyvs) = Len(yyss)
  /\ yystacksize \in Nat /\ 1 < yystacksize /\ yystacksize <= YYMAXDEPTH
  /\ Len(yyss) <= yystacksize
  /\ B!Parsing => Len(yyss) < yystacksize

DocumentInv ==
  B!Parsing => /\ Typed(yyvs, yyelements, yyforest, yychar, read)
               /\ Document(yyss, yyvs, yyelements, yyforest, yychar, read)

ResultInv ==
  /\ yyresult = 0 => B!Mode = "accepted" /\ B!NamesMatch
  /\ yyresult = 1 => B!Mode = "error" \/ ~ B!NamesMatch
  /\ yyresult = 2 => Len(yyss) = YYMAXDEPTH

ParserInv == StackInv /\ DocumentInv /\ ResultInv

\* What the invariant says of the top of the stack.
LEMMA TopFacts ==
  ASSUME ParserInv, B!Parsing
  PROVE  LET s == Top(yyss)
             t == TakenOf(s, yychar, read)
         IN  /\ s \in States /\ s = B!yystate
             /\ Typed(yyvs, yyelements, yyforest, yychar, read)
             /\ Document(yyss, yyvs, yyelements, yyforest, yychar, read)
             /\ Len(yyvs) = Len(yyss) /\ Len(yyss) \in Nat \ {0} /\ Len(yyelements) \in Nat
             /\ Path(yyss)
             /\ Within(s, yyss[Len(yyss)-1], Len(yyss), yyvs, yyelements, yyforest, yychar, read, t)
             /\ Place(s, yyss[Len(yyss)-1], Len(yyss), Len(yyelements),
                      ModeAt(read, t), DepthAt(read, t))
             /\ yychar # B!YYEMPTY => yychar = read[Len(read)] /\ Len(read) > 0 /\ yychar \in Tokens
             /\ B!Consults <=> s \in Consulting
             /\ B!ToReduce = ReduceBy(s)
             /\ B!Decided /\ s \in Consulting =>
                  yychar # B!YYEMPTY /\ B!ToShift = ShiftTo(s, yychar.k)
             /\ s \notin Consulting => B!ToShift = 0
<1> DEFINE s == Top(yyss)
<1>1. /\ Typed(yyvs, yyelements, yyforest, yychar, read)
      /\ Document(yyss, yyvs, yyelements, yyforest, yychar, read)
      /\ yyss \in Seq(States) /\ Len(yyss) > 0 /\ Len(yyvs) = Len(yyss)
  BY DEF ParserInv, StackInv, DocumentInv
<1>2. s \in States /\ s = B!yystate /\ Len(yyss) \in Nat \ {0} /\ Len(yyelements) \in Nat
  BY <1>1 DEF Top, B!yystate, B!Last, Typed
<1>3. Path(yyss) /\ (yychar # B!YYEMPTY => yychar = read[Len(read)] /\ Len(read) > 0)
      /\ Within(s, yyss[Len(yyss)-1], Len(yyss), yyvs, yyelements, yyforest, yychar, read,
                TakenOf(s, yychar, read))
  BY <1>1 DEF Document
<1>4. yychar # B!YYEMPTY => yychar \in Tokens /\ yychar.k \in Kinds
  BY <1>1 DEF Typed, Tokens
<1> HIDE DEF s
<1>5. B!Consults <=> s \in Consulting
  <2>1. s \in 0..26 /\ 0 \in 0..12
    BY <1>2 DEF States
  <2>2. B!At(B!yypact, s) # B!YYFLAG <=> s \in Consulting
    BY <2>1, ShiftTable
  <2> QED
    BY <1>2, <2>2 DEF B!Consults
<1>6. B!ToReduce = ReduceBy(s)
  BY <1>2, ReduceTable DEF B!ToReduce, States
<1>7. ASSUME B!Decided, s \in Consulting
      PROVE  yychar # B!YYEMPTY /\ B!ToShift = ShiftTo(s, yychar.k)
  <2>1. yychar # B!YYEMPTY
    BY <1>5, <1>7 DEF B!Decided
  <2>2. Looked(s, yychar.k) = ShiftTo(s, yychar.k)
    BY <1>2, <1>4, <1>7, <2>1, ShiftTable DEF States, Kinds
  <2>3. B!ToShift = Looked(s, yychar.k)
    BY <1>2, <1>5, <1>7 DEF B!ToShift, Looked
  <2> QED
    BY <2>1, <2>2, <2>3
<1>8. s \notin Consulting => B!ToShift = 0
  BY <1>5 DEF B!ToShift
<1> QED
  BY <1>1, <1>2, <1>3, <1>4, <1>5, <1>6, <1>7, <1>8 DEF s, Within

\* The parent of an event by the operations alone.
LEMMA ParentInDoc ==
  ASSUME read \in Seq(Tokens), NEW j \in 1..Len(read)+1
  PROVE  B!ParentOf(B!Doc, j) = Parent(read, j)
<1>1. Len(read) \in Nat
  OBVIOUS
<1> QED
  BY <1>1, DocOps, ParentSame DEF Parent

\* A state is pushed: the stacks stay in their arrays.
LEMMA PushKeeps ==
  ASSUME StackInv, B!Parsing, NEW ss, NEW x \in States, ss \in Seq(States),
         Len(ss) <= Len(yyss), B!PushState(ss, x)
  PROVE  /\ yyss' = Append(ss, x) /\ yyss' \in Seq(States) /\ Len(yyss') = Len(ss) + 1
         /\ yystacksize' \in Nat /\ 1 < yystacksize' /\ yystacksize' <= YYMAXDEPTH
         /\ Len(yyss') <= yystacksize'
         /\ \/ B!Parsing' /\ Len(yyss') < yystacksize'
            \/ yyresult' = 2 /\ Len(yyss') = YYMAXDEPTH
<1>1. YYMAXDEPTH \in Nat
  BY BuildersAssumption DEF B!DepthAssumption
<1>2. /\ yystacksize \in Nat /\ 1 < yystacksize /\ yystacksize <= YYMAXDEPTH
      /\ Len(yyss) < yystacksize /\ Len(yyss) \in Nat /\ Len(ss) \in Nat
      /\ Len(ss) + 1 <= yystacksize
  BY DEF StackInv
<1> DEFINE larger == IF 2 * yystacksize > YYMAXDEPTH THEN YYMAXDEPTH ELSE 2 * yystacksize
           full   == Len(ss) + 1 >= yystacksize
<1>3. /\ yyss' = Append(ss, x)
      /\ yystacksize' = IF full /\ yystacksize < YYMAXDEPTH THEN larger ELSE yystacksize
      /\ yyresult' = IF ~ full THEN yyresult
                     ELSE IF yystacksize >= YYMAXDEPTH THEN 2
                     ELSE IF Len(ss) + 1 >= larger THEN 1 ELSE yyresult
  BY DEF B!PushState
<1>4. larger \in Nat /\ (yystacksize < YYMAXDEPTH => larger > yystacksize /\ larger <= YYMAXDEPTH)
  BY <1>1, <1>2
<1>5. yyss' \in Seq(States) /\ Len(yyss') = Len(ss) + 1
  BY <1>3
<1> HIDE DEF larger
<1>6. yyresult = -1
  BY DEF B!Parsing
<1>7. CASE ~ full
  BY <1>1, <1>2, <1>3, <1>5, <1>6, <1>7 DEF B!Parsing
<1>8. CASE full /\ yystacksize >= YYMAXDEPTH
  BY <1>1, <1>2, <1>3, <1>5, <1>8
<1>9. CASE full /\ yystacksize < YYMAXDEPTH
  BY <1>1, <1>2, <1>3, <1>4, <1>5, <1>6, <1>9 DEF B!Parsing
<1> QED
  BY <1>1, <1>2, <1>7, <1>8, <1>9

\* ReadToken keeps the invariant.
LEMMA Reading ==
  ASSUME ParserInv, B!ReadToken
  PROVE  ParserInv'
<1>1. /\ B!Parsing /\ ~ B!Decided
      /\ UNCHANGED <<yyss, yyvs, yystacksize, yyelements, yyforest, yyroot, yyresult>>
  BY DEF B!ReadToken, B!stacks, B!maker
<1>2. yychar = B!YYEMPTY
  BY <1>1 DEF B!Decided
<1>3. Typed(yyvs, yyelements, yyforest, yychar, read)
      /\ Document(yyss, yyvs, yyelements, yyforest, yychar, read)
  BY <1>1, TopFacts
<1>4. PICK t \in B!YYLEX : yychar' = t /\ read' = Append(read, t)
  BY DEF B!ReadToken
<1>5. t \in Tokens
  <2>1. Len(read) \in Nat
    BY <1>3 DEF Typed
  <2> QED
    BY <1>4, <2>1 DEF B!YYLEX, B!Token, Tokens, Kinds, Strings, B!START, B!COMMENT, B!END, B!EOF,
       B!DATA, B!NAME, B!VALUE, B!SLASH, B!EQ, B!CLOSE, B!ENDDEF
<1>6. Typed(yyvs, yyelements, yyforest, t, Append(read, t))
      /\ Document(yyss, yyvs, yyelements, yyforest, t, Append(read, t))
  BY <1>2, <1>3, <1>5, ReadKeeps
<1>7. DocumentInv'
  BY <1>1, <1>4, <1>6 DEF DocumentInv
<1>8. StackInv'
  BY <1>1 DEF ParserInv, StackInv, B!Parsing
<1>9. ResultInv'
  BY <1>1 DEF ResultInv, B!Parsing
<1> QED
  BY <1>7, <1>8, <1>9 DEF ParserInv

\* Shift keeps it.
LEMMA Shifting ==
  ASSUME ParserInv, B!Shift
  PROVE  ParserInv'
<1> DEFINE x == ShiftTo(Top(yyss), yychar.k)
           z == IF yychar.k = 0 THEN yychar ELSE B!YYEMPTY
<1>1. /\ B!Parsing /\ B!Decided /\ B!ToShift # 0 /\ B!ToShift # 27
      /\ yyvs' = Append(yyvs, yychar.s) /\ B!PushState(yyss, B!ToShift)
      /\ yychar' = z
      /\ UNCHANGED <<yyelements, yyforest, read>>
  BY DEF B!Shift, B!maker, B!YYFINAL, B!EOF
<1>2. /\ Typed(yyvs, yyelements, yyforest, yychar, read)
      /\ Document(yyss, yyvs, yyelements, yyforest, yychar, read)
      /\ Len(yyvs) = Len(yyss) /\ Len(yyss) \in Nat \ {0}
      /\ Top(yyss) \in Consulting /\ yychar # B!YYEMPTY /\ B!ToShift = x
  BY <1>1, TopFacts
<1>3. x \in 0..27
  BY DEF ShiftTo
<1>4. x \in States /\ x \notin {0, 27}
  BY <1>1, <1>2, <1>3 DEF States
<1> HIDE DEF x, z
<1>5. Typed(yyvs', yyelements, yyforest, z, read)
      /\ Document(Append(yyss, x), yyvs', yyelements, yyforest, z, read)
  BY <1>1, <1>2, <1>4, ShiftKeeps DEF x, z
<1>6. /\ yyss' = Append(yyss, x) /\ yyss' \in Seq(States) /\ Len(yyss') = Len(yyss) + 1
      /\ yystacksize' \in Nat /\ 1 < yystacksize' /\ yystacksize' <= YYMAXDEPTH
      /\ Len(yyss') <= yystacksize'
      /\ \/ B!Parsing' /\ Len(yyss') < yystacksize'
         \/ yyresult' = 2 /\ Len(yyss') = YYMAXDEPTH
  <2>1. StackInv /\ yyss \in Seq(States) /\ Len(yyss) <= Len(yyss)
    BY <1>2 DEF ParserInv, StackInv
  <2> QED
    BY <1>1, <1>2, <1>4, <2>1, PushKeeps
<1>7. Len(yyvs') = Len(yyss')
  <2>1. yyvs \in Seq(Strings)
    BY <1>2 DEF Typed
  <2> QED
    BY <1>1, <1>2, <1>6, <2>1
<1>8. StackInv'
  BY <1>2, <1>6, <1>7 DEF StackInv, B!Parsing
<1>9. DocumentInv'
  BY <1>1, <1>5, <1>6 DEF DocumentInv
<1>10. ResultInv'
  BY <1>6 DEF ResultInv, B!Parsing
<1> QED
  BY <1>8, <1>9, <1>10 DEF ParserInv

\* The tokens are accepted.
LEMMA Accepting ==
  ASSUME ParserInv, B!Accept
  PROVE  ParserInv'
<1> DEFINE s == Top(yyss)
<1>1. /\ B!Parsing /\ B!Decided /\ B!ToShift = 27 /\ yyresult' = 0
      /\ UNCHANGED <<yyss, yyvs, yystacksize, yychar, yyelements, yyforest, read>>
  BY DEF B!Accept, B!stacks, B!maker, B!YYFINAL
<1>2. /\ s \in States /\ read \in Seq(Tokens)
      /\ Within(s, yyss[Len(yyss)-1], Len(yyss), yyvs, yyelements, yyforest, yychar, read,
                TakenOf(s, yychar, read))
      /\ s \in Consulting /\ B!ToShift = ShiftTo(s, yychar.k)
  BY <1>1, TopFacts DEF Typed
<1> HIDE DEF s
<1>3. s = 26
  BY <1>1, <1>2 DEF ShiftTo
<1>4. TakenOf(s, yychar, read) = Len(read) /\ Compared(s, Len(read)) = Len(read)
  BY <1>3 DEF TakenOf, Compared
<1>5. ModeAt(read, Len(read)) = "accepted" /\ NamesUpTo(read, Len(read))
  BY <1>2, <1>3, <1>4 DEF Within, Place
<1>6. B!Mode = "accepted"
  BY <1>5 DEF B!Mode, ModeAt
<1>7. B!NamesMatch
  <2>1. ASSUME NEW j \in 2..Len(read), read[j].k = 8, read[j-1].k = 7
        PROVE  read[j].s = read[B!ParentOf(B!Doc, j)].s
    <3>1. j \in 1..Len(read)+1
      OBVIOUS
    <3>2. B!ParentOf(B!Doc, j) = Parent(read, j)
      BY <1>2, <3>1, ParentInDoc
    <3> QED
      BY <1>5, <2>1, <3>2 DEF NamesUpTo
  <2> QED
    BY <2>1 DEF B!NamesMatch, B!NAME, B!END
<1>8. B!Mode' = B!Mode /\ (B!NamesMatch)' = B!NamesMatch
  BY <1>1 DEF B!Mode, B!NamesMatch, B!Doc
<1> QED
  BY <1>1, <1>6, <1>7, <1>8 DEF ParserInv, StackInv, DocumentInv, ResultInv, B!Parsing

\* What Abort leaves, if the document is wrong.
LEMMA Aborting ==
  ASSUME ParserInv, B!Parsing, B!Abort, B!Mode = "error" \/ ~ B!NamesMatch
  PROVE  ParserInv'
<1>1. /\ yyresult' = 1 /\ yyss' = <<Head(yyss)>> /\ yyvs' = <<Head(yyvs)>>
      /\ UNCHANGED <<yystacksize, read>>
  BY DEF B!Abort
<1>2. B!Mode' = B!Mode /\ (B!NamesMatch)' = B!NamesMatch
  BY <1>1 DEF B!Mode, B!NamesMatch, B!Doc
<1>3. yyss \in Seq(States) /\ Len(yyss) > 0 /\ yystacksize \in Nat /\ 1 < yystacksize
      /\ yystacksize <= YYMAXDEPTH
  BY DEF ParserInv, StackInv
<1>4. yyss' \in Seq(States) /\ Len(yyss') = 1 /\ Len(yyvs') = 1
  <2>1. Head(yyss) \in States
    BY <1>3
  <2> QED
    BY <1>1, <2>1
<1>5. StackInv'
  BY <1>1, <1>3, <1>4 DEF StackInv, B!Parsing
<1> QED
  BY <1>1, <1>2, <1>5 DEF ParserInv, DocumentInv, ResultInv, B!Parsing

\* A syntax error: the grammar has no token there.
LEMMA Failing ==
  ASSUME ParserInv, B!SyntaxError
  PROVE  ParserInv'
<1> DEFINE s == Top(yyss)
           t == TakenOf(s, yychar, read)
<1>1. B!Parsing /\ B!Decided /\ B!ToShift = 0 /\ B!ToReduce = 0 /\ B!Abort
  BY DEF B!SyntaxError
<1>2. /\ s \in States /\ read \in Seq(Tokens) /\ Len(yyss) \in Nat /\ Len(yyelements) \in Nat
      /\ Within(s, yyss[Len(yyss)-1], Len(yyss), yyvs, yyelements, yyforest, yychar, read, t)
      /\ Place(s, yyss[Len(yyss)-1], Len(yyss), Len(yyelements), ModeAt(read, t), DepthAt(read, t))
      /\ ReduceBy(s) = 0
      /\ yychar # B!YYEMPTY => yychar = read[Len(read)] /\ Len(read) > 0 /\ yychar \in Tokens
      /\ s \in Consulting => yychar # B!YYEMPTY /\ ShiftTo(s, yychar.k) = 0
  BY <1>1, TopFacts DEF Typed
<1> HIDE DEF s
<1>3. s \in Consulting
  BY <1>2 DEF ReduceBy, Consulting, States
<1>4. yychar = read[Len(read)] /\ Len(read) > 0 /\ yychar \in Tokens /\ yychar.k \in Kinds
      /\ ShiftTo(s, yychar.k) = 0
  BY <1>2, <1>3 DEF Tokens
<1>5. Pending(s, yychar, ModeAt(read, t))
  BY <1>2 DEF Within
<1>6. s # 26
  <2>1. ShiftTo(26, 0) = 27
    BY DEF ShiftTo
  <2> QED
    BY <1>4, <1>5, <2>1 DEF Pending
<1>7. t = Len(read) - 1 /\ Len(read) \in 1..Len(read)
  BY <1>2, <1>3, <1>4, <1>6 DEF TakenOf
<1>8. FollowTo(ModeAt(read, t), yychar.k) = "error"
  <2>1. DepthAt(read, t) \in Int
    BY <1>2, PlaceDepth
  <2>2. s = 25 => yychar.k # 11
    BY <1>5 DEF Pending
  <2>3. ~ (s = 8 /\ ModeAt(read, t) = "attr" /\ yychar.k = 4)
    BY <1>5 DEF Pending
  <2> HIDE DEF t
  <2> QED
    BY <1>2, <1>3, <1>4, <1>6, <2>1, <2>2, <2>3, PlaceError
<1>9. ModeAt(read, Len(read)) = "error"
  <2> HIDE DEF t
  <2> QED
    BY <1>2, <1>4, <1>7, <1>8, ModeStep
<1>10. B!Mode = "error"
  BY <1>9 DEF B!Mode, ModeAt
<1> QED
  BY <1>1, <1>10, Aborting

-----------------------------------------------------------------------------
(* The reductions. *)

\* Every reduction whose action is as Acted says keeps it.
LEMMA Reducing ==
  ASSUME ParserInv, NEW n, B!Reducing(n), NEW g, NEW eo, NEW v, B!Reduce(n, g, eo, v),
         Acted(Top(yyss), yyvs, yyelements, yyforest, eo, g, v), n # 0
  PROVE  ParserInv'
<1> DEFINE s == Top(yyss)
           l == Len(yyss) - Symbols(n)
           x == Led(n, yyss[l])
           us == Append(SubSeq(yyss, 1, l), x)
           ws == Append(SubSeq(yyvs, 1, l), v)
<1>1. B!Parsing /\ B!Decided /\ B!ToShift = 0 /\ B!ToReduce = n
  BY DEF B!Reducing
<1>2. /\ Typed(yyvs, yyelements, yyforest, yychar, read)
      /\ Document(yyss, yyvs, yyelements, yyforest, yychar, read)
      /\ Len(yyvs) = Len(yyss) /\ Len(yyss) \in Nat \ {0} /\ n = ReduceBy(s)
      /\ s \in Consulting => yychar # B!YYEMPTY /\ ShiftTo(s, yychar.k) = 0
  BY <1>1, TopFacts
<1>3. /\ n \in 1..17 /\ l \in 1..Len(yyss) /\ x \in States
      /\ Len(us) = l + 1 /\ Len(ws) = l + 1
      /\ Typed(ws, eo, g, yychar, read)
      /\ Document(us, ws, eo, g, yychar, read)
  BY <1>2, ReduceKeeps
<1>4. B!At(B!yyr2, n) = Symbols(n)
  BY <1>3, SymbolTable
<1>5. yyss \in Seq(States) /\ yyvs \in Seq(Strings)
  BY <1>2 DEF Typed, ParserInv, StackInv
<1> DEFINE ss == SubSeq(yyss, 1, l)
<1>6. ss \in Seq(States) /\ Len(ss) = l /\ ss[l] = yyss[l] /\ Len(yyvs) - Symbols(n) = l
  <2>1. Len(yyvs) - Symbols(n) = l /\ l \in Nat /\ l <= Len(yyss) /\ l \in 1..l
        /\ \A i \in 1..l : i \in 1..Len(yyss)
    BY <1>2, <1>3
  <2> HIDE DEF l
  <2> QED
    BY <1>5, <2>1
<1>7. /\ B!PushState(ss, x) /\ yyvs' = ws
      /\ yyforest' = g /\ yyelements' = eo /\ UNCHANGED <<yychar, read>>
  <2>1. /\ B!PushState(ss, B!Entry(B!At(B!yypgoto, B!At(B!yyr1, n) - B!YYNTBASE) + B!Last(ss),
                                   B!Last(ss), B!At(B!yydefgoto, B!At(B!yyr1, n) - B!YYNTBASE)))
        /\ yyvs' = Append(SubSeq(yyvs, 1, Len(yyvs) - Symbols(n)), v)
        /\ yyforest' = g /\ yyelements' = eo /\ UNCHANGED <<yychar, read>>
    <3> HIDE DEF x
    <3> QED
      BY <1>4 DEF B!Reduce
  <2>2. B!Last(ss) = yyss[l]
    <3> HIDE DEF ss, l
    <3> QED
      BY <1>6 DEF B!Last
  <2> HIDE DEF ss, l
  <2> QED
    BY <1>6, <2>1, <2>2 DEF Led
<1> HIDE DEF s, l, x, ss
<1>8. /\ yyss' = us /\ yyss' \in Seq(States) /\ Len(yyss') = l + 1
      /\ yystacksize' \in Nat /\ 1 < yystacksize' /\ yystacksize' <= YYMAXDEPTH
      /\ Len(yyss') <= yystacksize'
      /\ \/ B!Parsing' /\ Len(yyss') < yystacksize'
         \/ yyresult' = 2 /\ Len(yyss') = YYMAXDEPTH
  <2>1. StackInv /\ Len(ss) <= Len(yyss)
    BY <1>2, <1>3, <1>6 DEF ParserInv
  <2> QED
    BY <1>1, <1>3, <1>6, <1>7, <2>1, PushKeeps DEF ss
<1> HIDE DEF us, ws
<1>9. StackInv'
  BY <1>3, <1>7, <1>8 DEF StackInv, B!Parsing
<1>10. DocumentInv'
  BY <1>3, <1>7, <1>8 DEF DocumentInv
<1>11. ResultInv'
  BY <1>8 DEF ResultInv, B!Parsing
<1> QED
  BY <1>9, <1>10, <1>11 DEF ParserInv

\* A node of the forest is changed, but for its name.
Kept(f, g) ==
  /\ g \in Seq(Nodes) /\ Len(g) = Len(f)
  /\ \A i \in 1..Len(f) : g[i].name = f[i].name

\* Any change of a node but for its name.
LEMMA NodeChanged ==
  ASSUME NEW f \in Seq(Nodes), NEW p \in 1..Len(f), NEW node \in Nodes, node.name = f[p].name
  PROVE  Kept(f, [f EXCEPT ![p] = node])
<1> DEFINE g == [f EXCEPT ![p] = node]
<1>1. Len(f) \in Nat /\ f = [i \in 1..Len(f) |-> f[i]] /\ \A i \in 1..Len(f) : f[i] \in Nodes
  OBVIOUS
<1>2. g = [i \in 1..Len(f) |-> IF i = p THEN node ELSE f[i]]
  BY <1>1
<1>3. \A i \in 1..Len(f) : g[i] \in Nodes /\ g[i].name = f[i].name
  BY <1>1, <1>2
<1>4. g \in Seq(Nodes) /\ Len(g) = Len(f)
  <2> HIDE DEF g
  <2>1. g = [i \in 1..Len(f) |-> g[i]]
    BY <1>2
  <2> QED
    BY <1>1, <1>3, <2>1
<1> QED
  BY <1>3, <1>4 DEF Kept

\* A child is appended.
LEMMA ChildAppended ==
  ASSUME NEW f \in Seq(Nodes), NEW p \in 1..Len(f), NEW c \in Nat
  PROVE  Kept(f, B!AppendChild(f, p, c))
<1> DEFINE node == [f[p] EXCEPT !.children = Append(@, c)]
<1>0. f[p] \in Nodes
  OBVIOUS
<1>1. f[p] \in Nodes /\ f[p].children \in Seq(Nat)
  BY <1>0 DEF Nodes
<1>2. node \in Nodes /\ node.name = f[p].name
  <2>1. Append(f[p].children, c) \in Seq(Nat)
    BY <1>1
  <2> QED
    BY <1>1, <2>1 DEF Nodes
<1>3. B!AppendChild(f, p, c) = [f EXCEPT ![p] = node]
  BY DEF B!AppendChild
<1> QED
  BY <1>2, <1>3, NodeChanged

\* The value is set.
LEMMA ValueSet ==
  ASSUME NEW f \in Seq(Nodes), NEW p \in 1..Len(f), NEW v \in Strings
  PROVE  Kept(f, [f EXCEPT ![p].value = v])
<1> DEFINE node == [f[p] EXCEPT !.value = v]
<1>1. f[p] \in Nodes
  OBVIOUS
<1>2. node \in Nodes /\ node.name = f[p].name
  BY <1>1 DEF Nodes
<1>3. [f EXCEPT ![p].value = v] = [f EXCEPT ![p] = node]
  OBVIOUS
<1> QED
  BY <1>2, <1>3, NodeChanged

\* An attribute is added.
LEMMA AttributeAdded ==
  ASSUME NEW f \in Seq(Nodes), NEW p \in 1..Len(f), NEW a \in Strings \X Strings
  PROVE  Kept(f, [f EXCEPT ![p].attrs = Append(@, a)])
<1> DEFINE node == [f[p] EXCEPT !.attrs = Append(@, a)]
<1>0. f[p] \in Nodes
  OBVIOUS
<1>1. f[p] \in Nodes /\ f[p].attrs \in Seq(Strings \X Strings)
  BY <1>0 DEF Nodes
<1>2. node \in Nodes /\ node.name = f[p].name
  <2>1. Append(f[p].attrs, a) \in Seq(Strings \X Strings)
    BY <1>1
  <2> QED
    BY <1>1, <2>1 DEF Nodes
<1>3. [f EXCEPT ![p].attrs = Append(@, a)] = [f EXCEPT ![p] = node]
  OBVIOUS
<1> QED
  BY <1>2, <1>3, NodeChanged

\* A node is made.
LEMMA NodeMade ==
  ASSUME NEW f \in Seq(Nodes), NEW name \in Strings, NEW value \in Strings
  PROVE  LET g == Append(f, B!domnode(name, value))
         IN  /\ g \in Seq(Nodes) /\ Len(g) = Len(f) + 1 /\ g[Len(g)].name = name
             /\ \A i \in 1..Len(f) : g[i].name = f[i].name
<1> DEFINE node == B!domnode(name, value)
<1>1. node \in Nodes /\ node.name = name
  <2>1. << >> \in Seq(Nat) /\ << >> \in Seq(Strings \X Strings)
    OBVIOUS
  <2> QED
    BY <2>1 DEF B!domnode, Nodes
<1> HIDE DEF node
<1> DEFINE g == Append(f, node)
<1>2. Len(f) \in Nat /\ g \in Seq(Nodes) /\ Len(g) = Len(f) + 1 /\ g[Len(f) + 1] = node
      /\ \A i \in 1..Len(f) : g[i] = f[i]
  BY <1>1
<1> HIDE DEF g
<1>3. \A i \in 1..Len(f) : g[i].name = f[i].name
  BY <1>2
<1> QED
  BY <1>1, <1>2, <1>3 DEF g, node

\* What a rule finds: the values of its symbols, and the open element.
LEMMA Found ==
  ASSUME ParserInv, NEW n, B!Reducing(n), n # 0
  PROVE  LET s == Top(yyss)
         IN  /\ n = ReduceBy(s) /\ s \in States
             /\ yyforest \in Seq(Nodes) /\ Len(yyforest) \in Nat /\ yyelements \in Seq(Nat)
             /\ Len(yyvs) \in Nat
             /\ \A j \in 0..17 : j < Symbols(n) => B!Val(j) \in Strings
             /\ B!Val(0) = yyvs[Len(yyvs)] /\ B!Val(1) = yyvs[Len(yyvs) - 1]
             /\ B!AssertNode <=> Len(yyelements) > 0
             /\ B!Node = yyelements[Len(yyelements)]
             /\ Len(yyelements) > 0 => B!Node \in 1..Len(yyforest)
             /\ s \in {11, 14, 18, 21, 24} => Len(yyelements) > 0
             /\ B!Front(yyelements) = SubSeq(yyelements, 1, Len(yyelements) - 1)
             /\ B!At(B!yyr2, n) = Symbols(n)
<1> DEFINE s == Top(yyss)
           p == yyss[Len(yyss)-1]
           t == TakenOf(s, yychar, read)
<1>1. B!Parsing /\ B!ToReduce = n
  BY DEF B!Reducing
<1>2. /\ s \in States /\ n = ReduceBy(s) /\ Path(yyss) /\ Len(yyss) \in Nat
      /\ Typed(yyvs, yyelements, yyforest, yychar, read) /\ Len(yyvs) = Len(yyss)
      /\ Within(s, p, Len(yyss), yyvs, yyelements, yyforest, yychar, read, t)
      /\ Place(s, p, Len(yyss), Len(yyelements), ModeAt(read, t), DepthAt(read, t))
  BY <1>1, TopFacts
<1>3. /\ yyforest \in Seq(Nodes) /\ Len(yyforest) \in Nat /\ yyelements \in Seq(Nat)
      /\ Len(yyelements) \in Nat /\ yyvs \in Seq(Strings) /\ Len(yyvs) \in Nat
  BY <1>2 DEF Typed
<1>4. n \in 1..17 /\ Symbols(n) \in Nat /\ Symbols(n) < Len(yyss)
  BY <1>2, ReduceMoves
<1>5. ASSUME NEW j \in 0..17, j < Symbols(n) PROVE B!Val(j) \in Strings
  <2>1. Len(yyvs) - j \in 1..Len(yyvs)
    BY <1>2, <1>3, <1>4, <1>5
  <2> QED
    BY <1>3, <2>1 DEF B!Val
<1>6. B!Val(0) = yyvs[Len(yyvs)] /\ B!Val(1) = yyvs[Len(yyvs) - 1]
  <2>1. Len(yyvs) - 0 = Len(yyvs)
    BY <1>3
  <2> QED
    BY <2>1 DEF B!Val
<1>7. B!AssertNode <=> Len(yyelements) > 0
  BY <1>3 DEF B!AssertNode
<1>8. B!Node = yyelements[Len(yyelements)]
  BY DEF B!Node, B!Last
<1>9. Len(yyelements) > 0 => B!Node \in 1..Len(yyforest)
  <2>1. \A k \in 1..Len(yyelements) : yyelements[k] \in 1..Len(yyforest)
    BY <1>2 DEF Within, Opened
  <2> QED
    BY <1>3, <1>8, <2>1
<1>10. s \in {11, 14, 18, 21, 24} => Len(yyelements) > 0
  <2> HIDE DEF s
  <2> QED
    BY <1>2 DEF Place
<1>11. B!Front(yyelements) = SubSeq(yyelements, 1, Len(yyelements) - 1)
  BY DEF B!Front
<1>12. B!At(B!yyr2, n) = Symbols(n)
  BY <1>4, SymbolTable
<1> QED
  BY <1>2, <1>3, <1>5, <1>6, <1>7, <1>8, <1>9, <1>10, <1>11, <1>12

\* comment: COMMENT
LEMMA Commenting ==
  ASSUME ParserInv, B!ReduceComment
  PROVE  ParserInv'
<1> DEFINE made == Append(yyforest, B!domnode(Comment, B!Val(0)))
           g == IF B!AssertNode THEN B!AppendChild(made, B!Node, Len(made)) ELSE yyforest
<1>1. B!Reducing(4) /\ B!Reduce(4, g, yyelements, B!Val(0))
  BY DEF B!ReduceComment
<1>2. /\ 4 = ReduceBy(Top(yyss)) /\ yyforest \in Seq(Nodes) /\ Len(yyforest) \in Nat
      /\ B!Val(0) \in Strings
      /\ B!AssertNode => B!Node \in 1..Len(yyforest)
  <2>1. 0 \in 0..17 /\ 0 < Symbols(4)
    BY DEF Symbols
  <2> QED
    BY <1>1, <2>1, Found
<1>3. Top(yyss) = 2
  BY <1>2 DEF ReduceBy
<1>4. /\ made \in Seq(Nodes) /\ Len(made) = Len(yyforest) + 1
      /\ \A i \in 1..Len(yyforest) : made[i].name = yyforest[i].name
  <2>1. Comment \in Strings
    BY DEF Strings
  <2> QED
    BY <1>2, <2>1, NodeMade
<1> HIDE DEF made
<1>5. B!AssertNode => Kept(made, B!AppendChild(made, B!Node, Len(made)))
  <2>1. B!AssertNode => B!Node \in 1..Len(made) /\ Len(made) \in Nat
    BY <1>2, <1>4
  <2> QED
    BY <1>4, <2>1, ChildAppended
<1>6. Acted(Top(yyss), yyvs, yyelements, yyforest, yyelements, g, B!Val(0))
  <2>1. CASE B!AssertNode
    <3>1. g \in Seq(Nodes) /\ Len(g) = Len(made) /\ \A i \in 1..Len(made) : g[i].name = made[i].name
      BY <1>5, <2>1 DEF Kept
    <3> HIDE DEF g
    <3>2. Len(yyforest) <= Len(g) /\ \A i \in 1..Len(yyforest) : g[i].name = yyforest[i].name
      BY <1>2, <1>4, <3>1
    <3> QED
      BY <1>2, <1>3, <3>1, <3>2 DEF Acted
  <2>2. CASE ~ B!AssertNode
    BY <1>2, <1>3, <2>2 DEF Acted
  <2> QED
    BY <2>1, <2>2
<1> QED
  BY <1>1, <1>6, Reducing

\* element: START
LEMMA Starting ==
  ASSUME ParserInv, B!ReduceStart
  PROVE  ParserInv'
<1> DEFINE made == Append(yyforest, B!domnode(B!Val(0), NULL))
           g  == IF B!AssertNode THEN B!AppendChild(made, B!Node, Len(made)) ELSE made
           eo == Append(yyelements, Len(made))
<1>1. B!Reducing(5) /\ B!Reduce(5, g, eo, NULL)
  BY DEF B!ReduceStart
<1>2. /\ 5 = ReduceBy(Top(yyss)) /\ yyforest \in Seq(Nodes) /\ Len(yyforest) \in Nat
      /\ B!Val(0) = yyvs[Len(yyvs)]
      /\ B!AssertNode => B!Node \in 1..Len(yyforest)
  BY <1>1, Found
<1>3. Top(yyss) = 3
  BY <1>2 DEF ReduceBy
<1>4. B!Val(0) \in Strings
  <2>1. /\ Len(yyvs) = Len(yyss) /\ Len(yyss) \in Nat \ {0}
        /\ Typed(yyvs, yyelements, yyforest, yychar, read)
    BY <1>1, TopFacts DEF B!Reducing
  <2>2. yyvs \in Seq(Strings) /\ Len(yyvs) \in 1..Len(yyvs)
    BY <2>1 DEF Typed
  <2> QED
    BY <1>2, <2>2
<1>5. /\ made \in Seq(Nodes) /\ Len(made) = Len(yyforest) + 1 /\ made[Len(made)].name = B!Val(0)
      /\ \A i \in 1..Len(yyforest) : made[i].name = yyforest[i].name
  <2>1. NULL \in Strings
    BY DEF Strings
  <2> QED
    BY <1>2, <1>4, <2>1, NodeMade
<1> HIDE DEF made
<1>6. Kept(made, g)
  <2>1. CASE B!AssertNode
    <3>1. B!Node \in 1..Len(made) /\ Len(made) \in Nat
      BY <1>2, <1>5, <2>1
    <3> QED
      BY <1>5, <2>1, <3>1, ChildAppended
  <2>2. CASE ~ B!AssertNode
    BY <1>5, <2>2 DEF Kept
  <2> QED
    BY <2>1, <2>2
<1> HIDE DEF g
<1>7. Acted(Top(yyss), yyvs, yyelements, yyforest, eo, g, NULL)
  <2>1. g \in Seq(Nodes) /\ Len(g) = Len(made) /\ \A i \in 1..Len(made) : g[i].name = made[i].name
    BY <1>6 DEF Kept
  <2>2. /\ Len(yyforest) <= Len(g) /\ Len(g) > 0 /\ g[Len(g)].name = yyvs[Len(yyvs)]
        /\ \A i \in 1..Len(yyforest) : g[i].name = yyforest[i].name
    BY <1>2, <1>5, <2>1
  <2>3. eo = Append(yyelements, Len(g)) /\ NULL \in Strings
    BY <2>1 DEF Strings
  <2> QED
    BY <1>3, <2>1, <2>2, <2>3 DEF Acted
<1> QED
  BY <1>1, <1>7, Reducing

\* empty_or_content: SLASH CLOSE
LEMMA Emptying ==
  ASSUME ParserInv, B!ReduceEmpty
  PROVE  ParserInv'
<1>1. B!Reducing(7) /\ B!Reduce(7, yyforest, B!Front(yyelements), B!Val(1))
  BY DEF B!ReduceEmpty
<1>2. /\ 7 = ReduceBy(Top(yyss)) /\ yyforest \in Seq(Nodes) /\ Len(yyforest) \in Nat
      /\ B!Val(1) \in Strings
      /\ B!Front(yyelements) = SubSeq(yyelements, 1, Len(yyelements) - 1)
  <2>1. 1 \in 0..17 /\ 1 < Symbols(7)
    BY DEF Symbols
  <2> QED
    BY <1>1, <2>1, Found
<1>3. Top(yyss) = 14
  BY <1>2 DEF ReduceBy
<1>4. Acted(Top(yyss), yyvs, yyelements, yyforest, B!Front(yyelements), yyforest, B!Val(1))
  BY <1>2, <1>3 DEF Acted
<1> QED
  BY <1>1, <1>4, Reducing

\* The names at an end tag are those that the grammar compares.
LEMMA Ending ==
  ASSUME ParserInv, B!ReduceEnd
  PROVE  ParserInv'
<1> DEFINE s == Top(yyss)
           t == TakenOf(s, yychar, read)
<1>1. B!Reducing(8) /\ B!Parsing
  BY DEF B!ReduceEnd, B!Reducing
<1>2. /\ 8 = ReduceBy(s) /\ yyforest \in Seq(Nodes) /\ Len(yyforest) \in Nat
      /\ B!Val(4) \in Strings /\ B!Val(1) = yyvs[Len(yyvs) - 1]
      /\ B!Node = yyelements[Len(yyelements)]
      /\ B!Front(yyelements) = SubSeq(yyelements, 1, Len(yyelements) - 1)
  <2>1. 4 \in 0..17 /\ 4 < Symbols(8)
    BY DEF Symbols
  <2> QED
    BY <1>1, <2>1, Found
<1>3. s = 24
  BY <1>2 DEF ReduceBy
<1>4. CASE yyforest[B!Node].name = B!Val(1)
  <2>1. B!Reduce(8, yyforest, B!Front(yyelements), B!Val(4))
    BY <1>4 DEF B!ReduceEnd
  <2>2. Acted(s, yyvs, yyelements, yyforest, B!Front(yyelements), yyforest, B!Val(4))
    BY <1>2, <1>3, <1>4 DEF Acted
  <2> QED
    BY <1>1, <2>1, <2>2, Reducing
<1>5. CASE yyforest[B!Node].name # B!Val(1)
  <2>1. B!Abort
    BY <1>5 DEF B!ReduceEnd
  <2>2. /\ read \in Seq(Tokens) /\ Len(yyelements) \in Nat
        /\ yychar # B!YYEMPTY => Len(read) > 0
        /\ Within(s, yyss[Len(yyss)-1], Len(yyss), yyvs, yyelements, yyforest, yychar, read, t)
        /\ Place(s, yyss[Len(yyss)-1], Len(yyss), Len(yyelements), ModeAt(read, t), DepthAt(read, t))
    BY <1>1, TopFacts DEF Typed
  <2>3. t \in Nat /\ t <= Len(read) /\ Len(read) \in Nat
    BY <2>2 DEF TakenOf
  <2> HIDE DEF s, t
  <2>4. /\ t >= 3 /\ read[t-1].k = 8 /\ read[t-2].k = 7 /\ yyvs[Len(yyvs) - 1] = read[t-1].s
    BY <1>3, <2>2 DEF Within, Trailing
  <2>5. PICK op : /\ Len(op) = Len(yyelements)
                  /\ \A k \in 1..Len(yyelements) : yyforest[yyelements[k]].name = read[op[k]].s
                  /\ Parent(read, t - 1) = op[Len(op)]
    BY <1>3, <2>2 DEF Within, Opened, NamedAt
  <2>6. Len(yyelements) \in 1..Len(yyelements)
    BY <1>3, <2>2 DEF Place
  <2>7. yyforest[B!Node].name = read[Parent(read, t - 1)].s
    BY <1>2, <2>5, <2>6
  <2>8. t - 1 \in 2..Len(read) /\ t - 1 \in 1..Len(read)+1 /\ (t - 1) - 1 = t - 2
    BY <2>3, <2>4
  <2>9. B!ParentOf(B!Doc, t - 1) = Parent(read, t - 1)
    BY <2>2, <2>8, ParentInDoc
  <2>10. read[t-1].s # read[B!ParentOf(B!Doc, t - 1)].s
    BY <1>2, <1>5, <2>4, <2>7, <2>9
  <2>11. ~ B!NamesMatch
    <3> DEFINE j == t - 1
    <3>1. j \in 2..Len(read) /\ read[j].k = 8 /\ read[j-1].k = 7
          /\ read[j].s # read[B!ParentOf(B!Doc, j)].s
      BY <2>4, <2>8, <2>10
    <3> HIDE DEF j
    <3> QED
      BY <3>1 DEF B!NamesMatch, B!NAME, B!END
  <2> QED
    BY <1>1, <2>1, <2>11, Aborting
<1> QED
  BY <1>4, <1>5

\* content: content DATA
LEMMA Filling ==
  ASSUME ParserInv, B!ReduceData
  PROVE  ParserInv'
<1> DEFINE g == [yyforest EXCEPT ![B!Node].value = B!Val(0)]
<1>1. B!Reducing(9) /\ B!Reduce(9, g, yyelements, B!Val(1)) /\ B!AssertNode
  BY DEF B!ReduceData
<1>2. /\ 9 = ReduceBy(Top(yyss)) /\ yyforest \in Seq(Nodes) /\ Len(yyforest) \in Nat
      /\ B!Val(0) \in Strings /\ B!Val(1) \in Strings
      /\ B!Node \in 1..Len(yyforest)
  <2>1. 0 \in 0..17 /\ 0 < Symbols(9) /\ 1 \in 0..17 /\ 1 < Symbols(9)
    BY DEF Symbols
  <2> QED
    BY <1>1, <2>1, Found
<1>3. Top(yyss) = 18
  BY <1>2 DEF ReduceBy
<1>4. Kept(yyforest, g)
  BY <1>2, ValueSet
<1> HIDE DEF g
<1>5. Acted(Top(yyss), yyvs, yyelements, yyforest, yyelements, g, B!Val(1))
  BY <1>2, <1>3, <1>4 DEF Acted, Kept
<1> QED
  BY <1>1, <1>5, Reducing

\* attribute: NAME, and NAME EQ VALUE
LEMMA Describing ==
  ASSUME ParserInv, B!ReduceAttribute
  PROVE  ParserInv'
<1>0. ASSUME NEW n \in {16, 17}, B!Reducing(n), NEW name \in Strings, NEW value \in Strings,
             B!Reduce(n, B!domnode_attribute(name, value), yyelements, name)
      PROVE  ParserInv'
  <2> DEFINE g == B!domnode_attribute(name, value)
  <2>1. /\ n = ReduceBy(Top(yyss)) /\ yyforest \in Seq(Nodes) /\ Len(yyforest) \in Nat
        /\ Len(yyelements) > 0 => B!Node \in 1..Len(yyforest)
        /\ Top(yyss) \in {11, 21} => Len(yyelements) > 0
    BY <1>0, Found
  <2>2. Top(yyss) \in {11, 21}
    BY <1>0, <2>1 DEF ReduceBy
  <2>3. Kept(yyforest, g)
    <3>1. <<name, value>> \in Strings \X Strings
      OBVIOUS
    <3>2. g = [yyforest EXCEPT ![B!Node].attrs = Append(@, <<name, value>>)]
      BY DEF B!domnode_attribute
    <3> HIDE DEF g
    <3> QED
      BY <2>1, <2>2, <3>1, <3>2, AttributeAdded
  <2> HIDE DEF g
  <2>4. Acted(Top(yyss), yyvs, yyelements, yyforest, yyelements, g, name)
    <3>1. Top(yyss) \notin {3, 14, 24, 22}
      BY <2>2
    <3> QED
      BY <1>0, <2>1, <2>3, <3>1 DEF Acted, Kept
  <2>5. n # 0 /\ B!Reduce(n, g, yyelements, name)
    BY <1>0 DEF g
  <2> QED
    BY <1>0, <2>4, <2>5, Reducing
<1>1. \/ B!Reducing(16) /\ B!Reduce(16, B!domnode_attribute(B!Val(0), Empty), yyelements, B!Val(0))
      \/ B!Reducing(17) /\ B!Reduce(17, B!domnode_attribute(B!Val(2), B!Val(0)), yyelements, B!Val(2))
  BY DEF B!ReduceAttribute
<1>2. CASE B!Reducing(16) /\ B!Reduce(16, B!domnode_attribute(B!Val(0), Empty), yyelements, B!Val(0))
  <2>1. B!Val(0) \in Strings /\ Empty \in Strings
    <3>1. 0 \in 0..17 /\ 0 < Symbols(16)
      BY DEF Symbols
    <3> QED
      BY <1>2, <3>1, Found DEF Strings
  <2> QED
    BY <1>0, <1>2, <2>1
<1>3. CASE B!Reducing(17) /\ B!Reduce(17, B!domnode_attribute(B!Val(2), B!Val(0)), yyelements, B!Val(2))
  <2>1. B!Val(0) \in Strings /\ B!Val(2) \in Strings
    <3>1. 0 \in 0..17 /\ 0 < Symbols(17) /\ 2 \in 0..17 /\ 2 < Symbols(17)
      BY DEF Symbols
    <3> QED
      BY <1>3, <3>1, Found
  <2> QED
    BY <1>0, <1>3, <2>1
<1> QED
  BY <1>1, <1>2, <1>3

\* The states that reduce by a rule without an action.
LEMMA PassingStates ==
  ASSUME NEW s \in States, ReduceBy(s) \in {1, 2, 3, 6, 10, 11, 12, 13, 14, 15}
  PROVE  s \notin {3, 14, 24} /\ (s = 22 => ReduceBy(s) = 13)
BY DEF ReduceBy, States

\* The rules without an action.
LEMMA Passing ==
  ASSUME ParserInv, B!ReduceOther
  PROVE  ParserInv'
<1>1. PICK n \in {1, 2, 3, 6, 10, 11, 12, 13, 14, 15} :
        /\ B!Reducing(n)
        /\ B!Reduce(n, yyforest, yyelements,
                    IF B!At(B!yyr2, n) = 0 THEN NULL ELSE B!Val(B!At(B!yyr2, n) - 1))
  BY DEF B!ReduceOther
<1> DEFINE v == IF Symbols(n) = 0 THEN NULL ELSE B!Val(Symbols(n) - 1)
<1>2. /\ n = ReduceBy(Top(yyss)) /\ Top(yyss) \in States
      /\ yyforest \in Seq(Nodes) /\ Len(yyforest) \in Nat
      /\ \A j \in 0..17 : j < Symbols(n) => B!Val(j) \in Strings
      /\ B!Val(0) = yyvs[Len(yyvs)]
      /\ B!At(B!yyr2, n) = Symbols(n)
  BY <1>1, Found
<1>3. Top(yyss) \notin {3, 14, 24} /\ (Top(yyss) = 22 => n = 13)
  <2>1. n \in {1, 2, 3, 6, 10, 11, 12, 13, 14, 15}
    OBVIOUS
  <2> QED
    BY <1>2, <2>1, PassingStates
<1>4. v \in Strings
  <2>1. Symbols(n) \in 0..5
    BY <1>1 DEF Symbols
  <2>2. Symbols(n) # 0 => Symbols(n) - 1 \in 0..17 /\ Symbols(n) - 1 < Symbols(n)
    BY <2>1
  <2> QED
    BY <1>2, <2>2 DEF Strings
<1>5. n = 13 => v = B!Val(0)
  <2>1. Symbols(13) = 1
    BY DEF Symbols
  <2> QED
    BY <2>1
<1> HIDE DEF v
<1>6. Acted(Top(yyss), yyvs, yyelements, yyforest, yyelements, yyforest, v)
  BY <1>2, <1>3, <1>4, <1>5 DEF Acted
<1>7. B!Reduce(n, yyforest, yyelements, v)
  <2>1. v = IF B!At(B!yyr2, n) = 0 THEN NULL ELSE B!Val(B!At(B!yyr2, n) - 1)
    BY <1>2 DEF v
  <2> QED
    BY <1>1, <2>1
<1>8. n # 0
  BY <1>1
<1> QED
  BY <1>1, <1>6, <1>7, <1>8, Reducing

-----------------------------------------------------------------------------
(* The parser that bison made. *)

\* The invariant holds at first,
LEMMA ParserInit ==
  ASSUME B!Init
  PROVE  ParserInv
<1>1. /\ yyss = <<0>> /\ yyvs = <<NULL>> /\ yystacksize = YYINITDEPTH /\ yychar = B!YYEMPTY
      /\ yyelements = << >> /\ yyforest = << >> /\ yyresult = -1 /\ read = << >>
  BY DEF B!Init
<1>2. StackInv
  <2>1. 0 \in States
    BY DEF States
  <2> QED
    BY <1>1, <2>1, BuildersAssumption DEF StackInv, B!DepthAssumption
<1>3. Typed(yyvs, yyelements, yyforest, yychar, read)
  <2>1. NULL \in Strings
    BY DEF Strings
  <2> QED
    BY <1>1, <2>1 DEF Typed
<1>4. Document(yyss, yyvs, yyelements, yyforest, yychar, read)
  <2>1. Path(yyss) /\ Top(yyss) = 0 /\ Len(yyss) = 1 /\ Len(yyelements) = 0 /\ Len(read) = 0
    <3>1. 0 \in States
      BY DEF States
    <3>2. 2..1 = {}
      OBVIOUS
    <3> QED
      BY <1>1, <3>1, <3>2 DEF Path, Top
  <2>2. TakenOf(0, yychar, read) = 0
    BY <1>1, <2>1 DEF TakenOf
  <2>3. ModeAt(read, 0) = "before" /\ DepthAt(read, 0) = 0
    BY <1>3, ModeStart DEF Typed
  <2>4. Place(0, yyss[Len(yyss)-1], 1, 0, ModeAt(read, 0), DepthAt(read, 0))
    BY <2>3 DEF Place
  <2>5. Opened(0, yyelements, yyforest, read, 0)
    <3>1. Nest(Ops(read), Settled(0, 0), << >>)
      BY NestStart DEF Settled
    <3>2. 1..0 = {} /\ Len(<< >>) = 0
      OBVIOUS
    <3> QED
      BY <2>1, <3>1, <3>2 DEF Opened
  <2>6. NamesUpTo(read, Compared(0, 0))
    <3>1. 2..0 = {}
      OBVIOUS
    <3> QED
      BY <3>1 DEF NamesUpTo, Compared
  <2>7. Trailing(0, yyvs, read, 0) /\ Pending(0, yychar, ModeAt(read, 0))
    BY DEF Trailing, Pending
  <2>8. Within(0, yyss[Len(yyss)-1], 1, yyvs, yyelements, yyforest, yychar, read, 0)
    BY <2>1, <2>4, <2>5, <2>6, <2>7 DEF Within
  <2> QED
    BY <1>1, <2>1, <2>2, <2>8 DEF Document
<1> QED
  BY <1>1, <1>2, <1>3, <1>4 DEF ParserInv, DocumentInv, ResultInv

\* every step of the parser keeps it,
LEMMA ParserNext ==
  ASSUME ParserInv, B!Next
  PROVE  ParserInv'
BY Reading, Shifting, Accepting, Failing, Commenting, Starting, Emptying, Ending, Filling,
   Describing, Passing DEF B!Next

\* and so do the steps of the rest.
LEMMA ParserSame ==
  ASSUME ParserInv, UNCHANGED bison
  PROVE  ParserInv'
<1>1. UNCHANGED <<yyss, yyvs, yystacksize, yychar, yyelements, yyforest, yyresult, read>>
  BY DEF bison
<1>2. B!Mode' = B!Mode /\ (B!NamesMatch)' = B!NamesMatch
  BY <1>1 DEF B!Mode, B!NamesMatch, B!Doc
<1> QED
  BY <1>1, <1>2 DEF ParserInv, StackInv, DocumentInv, ResultInv, B!Parsing

\* The invariant gives the property.
LEMMA ParserAccepts ==
  ASSUME ParserInv
  PROVE  B!AcceptsGrammar
<1>1. ASSUME B!Parsing, yychar = B!YYEMPTY PROVE B!Mode # "error"
  <2> DEFINE s == Top(yyss)
             t == TakenOf(s, yychar, read)
  <2>1. /\ s \in States /\ Len(yyss) \in Nat /\ Len(yyelements) \in Nat
        /\ Place(s, yyss[Len(yyss)-1], Len(yyss), Len(yyelements), ModeAt(read, t), DepthAt(read, t))
    BY <1>1, TopFacts
  <2>2. t = Len(read)
    BY <1>1 DEF TakenOf
  <2> HIDE DEF s, t
  <2>3. ModeAt(read, t) # "error"
    BY <2>1, PlaceMode
  <2> QED
    BY <2>2, <2>3 DEF B!Mode, ModeAt
<1>2. ASSUME B!Parsing, B!Decided, B!ToShift = 0, B!ToReduce \in {7, 8, 9, 16, 17}
      PROVE  B!AssertNode
  <2>1. B!Reducing(B!ToReduce) /\ B!ToReduce # 0
    BY <1>2 DEF B!Reducing
  <2>2. /\ B!ToReduce = ReduceBy(Top(yyss))
        /\ B!AssertNode <=> Len(yyelements) > 0
        /\ Top(yyss) \in {11, 14, 18, 21, 24} => Len(yyelements) > 0
    BY <2>1, Found
  <2>3. Top(yyss) \in {11, 14, 18, 21, 24}
    BY <1>2, <2>2 DEF ReduceBy
  <2> QED
    BY <2>2, <2>3
<1> QED
  BY <1>1, <1>2 DEF ParserInv, StackInv, ResultInv, B!AcceptsGrammar

\* Whatever the document, and however large it is: the tables accept the
\* documents of the grammar in which every element is closed by its own
\* name, and no others, an error is noticed at the first token that no
\* document has there, the actions find an open element where they assert
\* one, and the stacks overflow only at their largest size.
THEOREM ParserAcceptsGrammar == Spec => []AcceptsGrammar
<1>1. Init => ParserInv
  BY ParserInit DEF Init
<1>2. ParserInv /\ [Next]_vars => ParserInv'
  <2> SUFFICES ASSUME ParserInv, [Next]_vars PROVE ParserInv'
    OBVIOUS
  <2>1. CASE Parse
    BY <2>1, ParserNext DEF Parse
  <2>2. CASE Build
    BY <2>2, ParserSame DEF Build
  <2>3. CASE log4c_rc_load
    BY <2>3, ParserSame DEF log4c_rc_load
  <2>4. CASE NoFile
    BY <2>4, ParserSame DEF NoFile
  <2>5. CASE UNCHANGED vars
    BY <2>5, ParserSame DEF vars
  <2> QED
    BY <2>1, <2>2, <2>3, <2>4, <2>5 DEF Next
<1>3. ParserInv => AcceptsGrammar
  BY ParserAccepts DEF AcceptsGrammar
<1> QED
  BY <1>1, <1>2, <1>3, PTL DEF Spec

-----------------------------------------------------------------------------
(* Numbers of a set in their order.                                        *)

\* q has the numbers of T in their order.
Rising(q, T) ==
  /\ q \in Seq(Nat)
  /\ \A i, j \in 1..Len(q) : i < j => q[i] < q[j]
  /\ \A x : x \in T <=> \E i \in 1..Len(q) : q[i] = x

\* There is only one such sequence: each number of p is in q at its place.
LEMMA RisingBelow ==
  ASSUME NEW T, NEW p, NEW q, Rising(p, T), Rising(q, T)
  PROVE  \A k \in 1..Len(p) : k \in 1..Len(q) /\ p[k] = q[k]
<1>1. p \in Seq(Nat) /\ q \in Seq(Nat) /\ Len(p) \in Nat /\ Len(q) \in Nat
  BY DEF Rising
<1> DEFINE S == {m \in Nat : \A k \in 1..Len(p) : k <= m => k \in 1..Len(q) /\ p[k] = q[k]}
<1>2. 0 \in S
  BY <1>1
<1>3. ASSUME NEW m \in Nat, m \in S PROVE m + 1 \in S
  <2> SUFFICES ASSUME m + 1 \in 1..Len(p) PROVE m + 1 \in 1..Len(q) /\ p[m+1] = q[m+1]
    <3>1. \A k \in Nat : k <= m + 1 => k <= m \/ k = m + 1
      OBVIOUS
    <3> QED
      BY <1>1, <1>3, <3>1
  <2>1. \A k \in 1..m : k \in 1..Len(p) /\ k \in 1..Len(q) /\ p[k] = q[k]
    BY <1>1, <1>3
  <2>2. PICK j \in 1..Len(q) : q[j] = p[m+1]
    BY DEF Rising
  <2>3. j > m
    <3> SUFFICES ASSUME j <= m PROVE FALSE
      BY <1>1
    <3>1. j \in 1..Len(p) /\ p[j] = q[j] /\ j < m + 1
      BY <1>1, <2>1
    <3>2. p[j] < p[m+1] /\ p[j] \in Nat
      BY <1>1, <3>1 DEF Rising
    <3> QED
      BY <2>2, <3>1, <3>2
  <2>4. m + 1 \in 1..Len(q)
    BY <1>1, <2>3
  <2>5. q[m+1] <= p[m+1]
    <3>1. q[m+1] \in Nat /\ (m + 1 < j => q[m+1] < q[j])
      BY <1>1, <2>4 DEF Rising
    <3> QED
      BY <1>1, <2>2, <2>3, <3>1
  <2>6. PICK i \in 1..Len(p) : p[i] = q[m+1]
    BY <2>4 DEF Rising
  <2>7. i > m
    <3> SUFFICES ASSUME i <= m PROVE FALSE
      BY <1>1
    <3>1. i \in 1..Len(q) /\ p[i] = q[i] /\ i < m + 1
      BY <1>1, <2>1
    <3>2. q[i] < q[m+1] /\ q[i] \in Nat
      BY <1>1, <2>4, <3>1, SMTT(30) DEF Rising
    <3> QED
      BY <2>6, <3>1, <3>2
  <2>8. p[m+1] <= q[m+1]
    <3>1. p[m+1] \in Nat /\ (m + 1 < i => p[m+1] < p[i])
      BY <1>1 DEF Rising
    <3> QED
      BY <1>1, <2>6, <2>7, <3>1
  <2>9. p[m+1] \in Nat /\ q[m+1] \in Nat
    BY <1>1, <2>4, SMTT(30)
  <2> QED
    BY <2>4, <2>5, <2>8, <2>9
<1>4. S = Nat
  <2>1. S \in SUBSET Nat
    OBVIOUS
  <2> HIDE DEF S
  <2> QED
    BY <1>2, <1>3, <2>1, Induction
<1>5. Len(p) \in S
  BY <1>1, <1>4
<1> QED
  BY <1>1, <1>5

\* Hence the sequences are the same.
LEMMA RisingUnique ==
  ASSUME NEW T, NEW p, NEW q, Rising(p, T), Rising(q, T)
  PROVE  p = q
<1>1. p \in Seq(Nat) /\ q \in Seq(Nat) /\ Len(p) \in Nat /\ Len(q) \in Nat
  BY DEF Rising
<1>2. \A k \in 1..Len(p) : k \in 1..Len(q) /\ p[k] = q[k]
  BY RisingBelow
<1>3. \A k \in 1..Len(q) : k \in 1..Len(p) /\ q[k] = p[k]
  BY RisingBelow
<1>4. Len(p) = Len(q)
  <2>1. Len(p) > 0 => Len(p) \in 1..Len(p)
    BY <1>1
  <2>2. Len(q) > 0 => Len(q) \in 1..Len(q)
    BY <1>1
  <2>3. Len(p) <= Len(q)
    BY <1>1, <1>2, <2>1
  <2>4. Len(q) <= Len(p)
    BY <1>1, <1>3, <2>2
  <2> QED
    BY <1>1, <2>3, <2>4
<1>5. p = [k \in 1..Len(p) |-> p[k]] /\ q = [k \in 1..Len(q) |-> q[k]]
  BY <1>1
<1> QED
  BY <1>2, <1>4, <1>5

\* The sequence of no numbers.
LEMMA RisingEmpty == Rising(<< >>, {})
<1>1. Len(<< >>) = 0 /\ 1..0 = {} /\ << >> \in Seq(Nat)
  OBVIOUS
<1> QED
  BY <1>1 DEF Rising

\* A larger number comes last.
LEMMA RisingAppend ==
  ASSUME NEW T, NEW q, Rising(q, T), NEW x \in Nat, \A y \in T : y < x
  PROVE  Rising(Append(q, x), T \cup {x})
<1> DEFINE r == Append(q, x)
           l == Len(q)
<1>1. q \in Seq(Nat) /\ l \in Nat
  BY DEF Rising
<1>2. r \in Seq(Nat) /\ Len(r) = l + 1 /\ r[l+1] = x /\ \A i \in 1..l : r[i] = q[i]
  BY <1>1
<1> HIDE DEF r
<1>3. \A i \in 1..l : q[i] < x
  BY DEF Rising
<1>4. \A i, j \in 1..Len(r) : i < j => r[i] < r[j]
  <2> SUFFICES ASSUME NEW i \in 1..Len(r), NEW j \in 1..Len(r), i < j PROVE r[i] < r[j]
    OBVIOUS
  <2>1. i \in 1..l
    BY <1>1, <1>2
  <2>2. CASE j = l + 1
    BY <1>2, <1>3, <2>1, <2>2
  <2>3. CASE j # l + 1
    <3>1. j \in 1..l
      <4>1. j \in 1..l+1
        BY <1>2
      <4> QED
        BY <1>1, <2>3, <4>1
    <3> QED
      BY <1>2, <2>1, <3>1 DEF Rising
  <2> QED
    BY <2>2, <2>3
<1>5. \A y : y \in T <=> \E i \in 1..l : q[i] = y
  BY DEF Rising
<1>6. \A y : y \in T \cup {x} <=> \E i \in 1..l+1 : r[i] = y
  <2>1. 1..l+1 = (1..l) \cup {l + 1}
    BY <1>1
  <2> QED
    BY <1>2, <1>5, <2>1
<1> QED
  BY <1>2, <1>4, <1>6 DEF Rising, r

\* f is the recursive function of InOrder, up to k.
Picks(f, S, k) ==
  /\ f[0] = << >>
  /\ \A n \in 1..k : f[n] = IF n \in S THEN Append(f[n-1], n) ELSE f[n-1]

Picked(f, S, k) ==
  [n \in 0..k |-> IF n = 0 THEN << >> ELSE IF n \in S THEN Append(f[n-1], n) ELSE f[n-1]]

\* There is such a function.
LEMMA PicksExist ==
  ASSUME NEW S, NEW k \in Nat
  PROVE  \E f : f = Picked(f, S, k)
<1> DEFINE R == {n \in Nat : \E f : f = [m \in 0..n |-> f[m]] /\ Picks(f, S, n)}
<1>1. 0 \in R
  <2> DEFINE f == [m \in 0..0 |-> << >>]
  <2>1. f = [m \in 0..0 |-> f[m]] /\ Picks(f, S, 0)
    BY DEF Picks
  <2> HIDE DEF f
  <2> QED
    BY <2>1
<1>2. ASSUME NEW n \in Nat, n \in R PROVE n + 1 \in R
  <2>1. PICK f : f = [m \in 0..n |-> f[m]] /\ Picks(f, S, n)
    BY <1>2
  <2> DEFINE y == IF n + 1 \in S THEN Append(f[n], n + 1) ELSE f[n]
             g == [m \in 0..n+1 |-> IF m = n + 1 THEN y ELSE f[m]]
  <2>2. g = [m \in 0..n+1 |-> g[m]]
    OBVIOUS
  <2>3. /\ g[0] = f[0] /\ g[n+1] = y /\ g[n] = f[n]
        /\ \A m \in 1..n : g[m] = f[m] /\ g[m-1] = f[m-1]
    <3> HIDE DEF y
    <3> QED
      OBVIOUS
  <2> HIDE DEF g
  <2>4. ASSUME NEW m \in 1..n+1 PROVE g[m] = IF m \in S THEN Append(g[m-1], m) ELSE g[m-1]
    <3>1. CASE m = n + 1
      <4>1. m - 1 = n
        BY <3>1
      <4> QED
        BY <2>3, <3>1, <4>1
    <3>2. CASE m # n + 1
      <4>1. m \in 1..n
        BY <3>2
      <4> QED
        BY <2>1, <2>3, <4>1 DEF Picks
    <3> QED
      BY <3>1, <3>2
  <2>5. g[0] = << >>
    BY <2>1, <2>3 DEF Picks
  <2>6. Picks(g, S, n + 1)
    BY <2>4, <2>5 DEF Picks
  <2> QED
    BY <2>2, <2>6
<1>3. R = Nat
  <2>1. R \in SUBSET Nat
    OBVIOUS
  <2> HIDE DEF R
  <2> QED
    BY <1>1, <1>2, <2>1, Induction
<1>4. k \in R
  <2> HIDE DEF R
  <2> QED
    BY <1>3
<1>5. PICK f : f = [m \in 0..k |-> f[m]] /\ Picks(f, S, k)
  BY <1>4
<1>6. ASSUME NEW n \in 0..k
      PROVE  f[n] = IF n = 0 THEN << >> ELSE IF n \in S THEN Append(f[n-1], n) ELSE f[n-1]
  <2>1. n = 0 \/ n \in 1..k
    OBVIOUS
  <2> QED
    BY <1>5, <2>1 DEF Picks
<1>7. f = Picked(f, S, k)
  <2>1. [m \in 0..k |-> f[m]] = Picked(f, S, k)
    BY <1>6 DEF Picked
  <2> QED
    BY <1>5, <2>1
<1> QED
  BY <1>7

\* InOrder gives the numbers of the set in their order.
LEMMA InOrderRising ==
  ASSUME NEW S, NEW k \in Nat
  PROVE  Rising(B!InOrder(S, k), {x \in S : x \in 1..k})
<1> DEFINE c == CHOOSE f : f = Picked(f, S, k)
<1>1. B!InOrder(S, k) = c[k]
  BY DEF B!InOrder, Picked
<1>2. c = Picked(c, S, k)
  BY PicksExist
<1> HIDE DEF c
<1>3. c[0] = << >>
  BY <1>2 DEF Picked
<1>4. ASSUME NEW n \in 1..k PROVE c[n] = IF n \in S THEN Append(c[n-1], n) ELSE c[n-1]
  <2>1. n \in 0..k /\ n # 0
    OBVIOUS
  <2> QED
    BY <1>2, <2>1 DEF Picked
<1> DEFINE R == {n \in Nat : n <= k => Rising(c[n], {x \in S : x \in 1..n})}
<1>5. 0 \in R
  <2>1. {x \in S : x \in 1..0} = {}
    OBVIOUS
  <2>2. Rising(c[0], {x \in S : x \in 1..0})
    BY <1>3, <2>1, RisingEmpty
  <2> QED
    BY <2>2
<1>6. ASSUME NEW n \in Nat, n \in R PROVE n + 1 \in R
  <2> SUFFICES ASSUME n + 1 <= k PROVE Rising(c[n+1], {x \in S : x \in 1..n+1})
    OBVIOUS
  <2> DEFINE T == {x \in S : x \in 1..n}
  <2>1. Rising(c[n], T)
    BY <1>6
  <2>2. n + 1 \in 1..k /\ (n + 1) - 1 = n
    OBVIOUS
  <2>3. CASE n + 1 \in S
    <3>1. {x \in S : x \in 1..n+1} = T \cup {n + 1} /\ \A y \in T : y < n + 1
      BY <2>3
    <3>2. c[n+1] = Append(c[n], n + 1)
      BY <1>4, <2>2, <2>3
    <3> HIDE DEF T
    <3> QED
      BY <2>1, <3>1, <3>2, RisingAppend
  <2>4. CASE n + 1 \notin S
    <3>1. {x \in S : x \in 1..n+1} = T
      BY <2>4
    <3>2. c[n+1] = c[n]
      BY <1>4, <2>2, <2>4
    <3> QED
      BY <2>1, <3>1, <3>2
  <2> QED
    BY <2>3, <2>4
<1>7. R = Nat
  <2>1. R \in SUBSET Nat
    OBVIOUS
  <2> HIDE DEF R
  <2> QED
    BY <1>5, <1>6, <2>1, Induction
<1>8. Rising(c[k], {x \in S : x \in 1..k})
  BY <1>7
<1> QED
  BY <1>1, <1>8

\* A sequence of these is what InOrder gives.
LEMMA InOrderIs ==
  ASSUME NEW S, NEW k \in Nat, S \subseteq 1..k, NEW q, Rising(q, S)
  PROVE  B!InOrder(S, k) = q
<1>1. {x \in S : x \in 1..k} = S
  OBVIOUS
<1>2. Rising(B!InOrder(S, k), S)
  BY <1>1, InOrderRising
<1> QED
  BY <1>2, RisingUnique

\* The two builders share the operators of DomNode: what one says the other says.
LEMMA InOrderSame == ASSUME NEW S, NEW k PROVE X!InOrder(S, k) = B!InOrder(S, k)
  BY DEF X!InOrder, B!InOrder

LEMMA ParentOfSame == ASSUME NEW S, NEW k PROVE X!ParentOf(S, k) = B!ParentOf(S, k)
  BY DEF X!ParentOf, B!ParentOf, X!Count, B!Count, X!Cardinality, B!Cardinality

LEMMA OpeningSame == ASSUME NEW d PROVE X!Opening(d) = B!Opening(d)
  BY InOrderSame, ParentOfSame DEF X!Opening, B!Opening

LEMMA InsideSame == ASSUME NEW d, NEW j, NEW o PROVE X!Inside(d, j, o) = B!Inside(d, j, o)
  BY InOrderSame, ParentOfSame DEF X!Inside, B!Inside

LEMMA ForestSame == ASSUME NEW d PROVE X!ForestOf(d) = B!ForestOf(d)
  BY InOrderSame, ParentOfSame, OpeningSame, InsideSame DEF X!ForestOf, B!ForestOf,
    X!Last, B!Last, X!domnode, B!domnode

-----------------------------------------------------------------------------
(* The tree of the first n events of a document.                           *)

\* The events of a kind that are directly in the element opened at j,
Held(d, n, j, o) == {i \in 1..n : d[i].op = o /\ B!ParentOf(d, i) = j}

\* and those that make a node.
Seats(d, n) ==
  {j \in 1..n : d[j].op = "open" \/ (d[j].op = "comment" /\ B!ParentOf(d, j) # 0)}

\* Node k, which event at[k] made, is what the events say.
Drawn(d, n, at, k, node) ==
  IF d[at[k]].op = "comment" THEN node = B!domnode(Comment, d[at[k]].s)
  ELSE \E t, a :
         /\ Rising(t, Held(d, n, at[k], "text")) /\ Rising(a, Held(d, n, at[k], "attr"))
         /\ Rising(node.children, {c \in 1..Len(at) : B!ParentOf(d, at[c]) = at[k]})
         /\ node = [name     |-> d[at[k]].s,
                    value    |-> IF t = << >> THEN NULL ELSE d[t[Len(t)]].s,
                    children |-> node.children,
                    attrs    |-> [i \in 1..Len(a) |-> <<d[a[i]].s, d[a[i]].v>>]]

Grown(d, n, f, at) ==
  /\ Rising(at, Seats(d, n))
  /\ f = [k \in 1..Len(at) |-> f[k]]
  /\ \A k \in 1..Len(at) : Drawn(d, n, at, k, f[k])

\* The tree of all events is the one that ForestOf reads off the document.
LEMMA GrownIs ==
  ASSUME NEW E, NEW d \in Seq(E), NEW f, NEW at, Grown(d, Len(d), f, at)
  PROVE  f = B!ForestOf(d) /\ at = B!Opening(d)
<1>1. Len(d) \in Nat /\ DOMAIN d = 1..Len(d)
  OBVIOUS
<1> DEFINE n == Len(d)
<1>2. B!Opening(d) = at
  <2>1. B!Opening(d) = B!InOrder(Seats(d, n), n)
    BY <1>1 DEF B!Opening, Seats
  <2>2. Seats(d, n) \subseteq 1..n
    BY DEF Seats
  <2>3. Rising(at, Seats(d, n))
    BY DEF Grown
  <2> HIDE DEF n
  <2>4. n \in Nat
    BY <1>1 DEF n
  <2> QED
    BY <2>1, <2>2, <2>3, <2>4, InOrderIs
<1>3. at \in Seq(Nat) /\ DOMAIN at = 1..Len(at) /\ Len(at) \in Nat
  BY DEF Grown, Rising
<1>4. ASSUME NEW j, NEW o, NEW q, Rising(q, Held(d, n, j, o))
      PROVE  B!Inside(d, j, o) = q
  <2>1. B!Inside(d, j, o) = B!InOrder(Held(d, n, j, o), n)
    BY <1>1 DEF B!Inside, Held
  <2>2. Held(d, n, j, o) \subseteq 1..n
    BY DEF Held
  <2> HIDE DEF n
  <2>3. n \in Nat
    BY <1>1 DEF n
  <2> QED
    BY <1>4, <2>1, <2>2, <2>3, InOrderIs
<1>5. ASSUME NEW j, NEW q, Rising(q, {c \in 1..Len(at) : B!ParentOf(d, at[c]) = j})
      PROVE  B!InOrder({c \in DOMAIN at : B!ParentOf(d, at[c]) = j}, Len(at)) = q
  <2>1. {c \in DOMAIN at : B!ParentOf(d, at[c]) = j} = {c \in 1..Len(at) : B!ParentOf(d, at[c]) = j}
    BY <1>3
  <2>2. {c \in 1..Len(at) : B!ParentOf(d, at[c]) = j} \subseteq 1..Len(at)
    OBVIOUS
  <2> QED
    BY <1>3, <1>5, <2>1, <2>2, InOrderIs
<1> DEFINE Node(j) ==
        LET texts == B!Inside(d, j, "text")
            attrs == B!Inside(d, j, "attr")
        IN  [name     |-> d[j].s,
             value    |-> IF texts = << >> THEN NULL ELSE d[B!Last(texts)].s,
             children |-> B!InOrder({k \in DOMAIN at : B!ParentOf(d, at[k]) = j}, Len(at)),
             attrs    |-> [k \in DOMAIN attrs |-> <<d[attrs[k]].s, d[attrs[k]].v>>]]
<1>6. ASSUME NEW k \in 1..Len(at)
      PROVE  f[k] = IF d[at[k]].op = "comment" THEN B!domnode(Comment, d[at[k]].s) ELSE Node(at[k])
  <2>1. Drawn(d, n, at, k, f[k])
    BY DEF Grown
  <2>2. CASE d[at[k]].op = "comment"
    BY <2>1, <2>2 DEF Drawn
  <2>3. CASE d[at[k]].op # "comment"
    <3>1. PICK t, a :
         /\ Rising(t, Held(d, n, at[k], "text")) /\ Rising(a, Held(d, n, at[k], "attr"))
         /\ Rising(f[k].children, {c \in 1..Len(at) : B!ParentOf(d, at[c]) = at[k]})
         /\ f[k] = [name     |-> d[at[k]].s,
                    value    |-> IF t = << >> THEN NULL ELSE d[t[Len(t)]].s,
                    children |-> f[k].children,
                    attrs    |-> [i \in 1..Len(a) |-> <<d[a[i]].s, d[a[i]].v>>]]
      BY <2>1, <2>3 DEF Drawn
    <3>2. t = B!Inside(d, at[k], "text") /\ a = B!Inside(d, at[k], "attr")
      BY <1>4, <3>1
    <3>3. f[k].children = B!InOrder({c \in DOMAIN at : B!ParentOf(d, at[c]) = at[k]}, Len(at))
      BY <1>5, <3>1
    <3>4. DOMAIN a = 1..Len(a)
      BY <3>1 DEF Rising
    <3>5. f[k] = Node(at[k])
      BY <3>1, <3>2, <3>3, <3>4 DEF B!Last
    <3> QED
      BY <2>3, <3>5
  <2> QED
    BY <2>2, <2>3
<1>7. B!ForestOf(d) = [k \in 1..Len(at) |-> IF d[at[k]].op = "comment" THEN B!domnode(Comment, d[at[k]].s)
                                            ELSE Node(at[k])]
  BY <1>2, <1>3 DEF B!ForestOf
<1> HIDE DEF Node
<1>8. f = [k \in 1..Len(at) |-> f[k]]
  BY DEF Grown
<1> QED
  BY <1>2, <1>6, <1>7, <1>8

\* Event n + 1 is in one element, if it is in any.
LEMMA HeldStep ==
  ASSUME NEW d, NEW n \in Nat, NEW j, NEW o
  PROVE  Held(d, n + 1, j, o) = IF d[n+1].op = o /\ B!ParentOf(d, n + 1) = j
                                THEN Held(d, n, j, o) \cup {n + 1} ELSE Held(d, n, j, o)
<1>1. 1..n+1 = (1..n) \cup {n + 1}
  OBVIOUS
<1> QED
  BY <1>1 DEF Held

\* What another event leaves in the element.
LEMMA HeldOther ==
  ASSUME NEW d, NEW n \in Nat, NEW j, NEW o, ~ (d[n+1].op = o /\ B!ParentOf(d, n + 1) = j)
  PROVE  Held(d, n + 1, j, o) = Held(d, n, j, o)
<1>1. 1..n+1 = (1..n) \cup {n + 1}
  OBVIOUS
<1> QED
  BY <1>1 DEF Held

\* An event that is no attribute and no text of node k leaves the node.
LEMMA DrawnSame ==
  ASSUME NEW d, NEW n \in Nat, NEW at, NEW k, NEW node, Drawn(d, n, at, k, node),
         d[n+1].op \in {"text", "attr"} => B!ParentOf(d, n + 1) # at[k]
  PROVE  Drawn(d, n + 1, at, k, node)
<1>1. ASSUME NEW o \in {"text", "attr"} PROVE Held(d, n + 1, at[k], o) = Held(d, n, at[k], o)
  <2>1. ~ (d[n+1].op = o /\ B!ParentOf(d, n + 1) = at[k])
    OBVIOUS
  <2> QED
    BY <2>1, HeldOther
<1>2. Held(d, n + 1, at[k], "text") = Held(d, n, at[k], "text")
      /\ Held(d, n + 1, at[k], "attr") = Held(d, n, at[k], "attr")
  BY <1>1
<1> QED
  BY <1>2 DEF Drawn

\* Events that make no node.
LEMMA SeatsSame ==
  ASSUME NEW d, NEW n \in Nat, d[n+1].op # "open",
         d[n+1].op = "comment" => B!ParentOf(d, n + 1) = 0
  PROVE  Seats(d, n + 1) = Seats(d, n)
<1>1. 1..n+1 = (1..n) \cup {n + 1}
  OBVIOUS
<1> QED
  BY <1>1 DEF Seats

\* An event that says nothing of the tree.
LEMMA GrowNone ==
  ASSUME NEW d, NEW n \in Nat, NEW f, NEW at, Grown(d, n, f, at),
         d[n+1].op # "open", d[n+1].op \in {"comment", "text", "attr"} => B!ParentOf(d, n + 1) = 0
  PROVE  Grown(d, n + 1, f, at)
<1>1. Seats(d, n + 1) = Seats(d, n)
  BY SeatsSame
<1>2. \A k \in 1..Len(at) : at[k] # 0
  <2>1. \A k \in 1..Len(at) : at[k] \in Seats(d, n)
    BY DEF Grown, Rising
  <2> QED
    BY <2>1 DEF Seats
<1>3. \A k \in 1..Len(at) : Drawn(d, n + 1, at, k, f[k])
  BY <1>2, DrawnSame DEF Grown
<1> QED
  BY <1>1, <1>3 DEF Grown

\* One node is changed, as the event says.
LEMMA GrowAt ==
  ASSUME NEW d, NEW n \in Nat, NEW f, NEW at, Grown(d, n, f, at), d[n+1].op \in {"text", "attr"},
         NEW m \in 1..Len(at), B!ParentOf(d, n + 1) = at[m],
         NEW node, Drawn(d, n + 1, at, m, node)
  PROVE  Grown(d, n + 1, [f EXCEPT ![m] = node], at)
<1> DEFINE g == [f EXCEPT ![m] = node]
<1>1. Seats(d, n + 1) = Seats(d, n)
  BY SeatsSame
<1>2. f = [k \in 1..Len(at) |-> f[k]] /\ Rising(at, Seats(d, n))
  BY DEF Grown
<1>3. g = [k \in 1..Len(at) |-> IF k = m THEN node ELSE f[k]]
  BY <1>2
<1>4. ASSUME NEW k \in 1..Len(at) PROVE Drawn(d, n + 1, at, k, g[k])
  <2>1. CASE k = m
    BY <1>3, <2>1
  <2>2. CASE k # m
    <3>1. at[k] # at[m]
      <4>1. k \in Nat /\ m \in Nat /\ at[k] \in Nat /\ at[m] \in Nat
        BY <1>2 DEF Rising
      <4>2. k < m \/ m < k
        BY <2>2, <4>1
      <4> QED
        BY <1>2, <4>1, <4>2 DEF Rising
    <3>2. Drawn(d, n, at, k, f[k])
      BY DEF Grown
    <3>3. Drawn(d, n + 1, at, k, f[k])
      BY <3>1, <3>2, DrawnSame
    <3> QED
      BY <1>3, <2>2, <3>3
  <2> QED
    BY <2>1, <2>2
<1>5. g = [k \in 1..Len(at) |-> g[k]]
  BY <1>3
<1> HIDE DEF g
<1>6. Grown(d, n + 1, g, at)
  BY <1>1, <1>2, <1>4, <1>5 DEF Grown
<1> QED
  BY <1>6 DEF g

\* A text becomes the value.
LEMMA GrowText ==
  ASSUME NEW d, NEW n \in Nat, NEW f, NEW at, Grown(d, n, f, at), d[n+1].op = "text",
         NEW m \in 1..Len(at), B!ParentOf(d, n + 1) = at[m], d[at[m]].op = "open"
  PROVE  Grown(d, n + 1, [f EXCEPT ![m].value = d[n+1].s], at)
<1> DEFINE node == [f[m] EXCEPT !.value = d[n+1].s]
<1>1. Drawn(d, n, at, m, f[m])
  BY DEF Grown
<1>2. PICK t, a :
         /\ Rising(t, Held(d, n, at[m], "text")) /\ Rising(a, Held(d, n, at[m], "attr"))
         /\ Rising(f[m].children, {c \in 1..Len(at) : B!ParentOf(d, at[c]) = at[m]})
         /\ f[m] = [name     |-> d[at[m]].s,
                    value    |-> IF t = << >> THEN NULL ELSE d[t[Len(t)]].s,
                    children |-> f[m].children,
                    attrs    |-> [i \in 1..Len(a) |-> <<d[a[i]].s, d[a[i]].v>>]]
  BY <1>1 DEF Drawn
<1>3. node = [name |-> d[at[m]].s, value |-> d[n+1].s, children |-> f[m].children,
              attrs |-> [i \in 1..Len(a) |-> <<d[a[i]].s, d[a[i]].v>>]]
  <2> DEFINE b == [i \in 1..Len(a) |-> <<d[a[i]].s, d[a[i]].v>>]
             v == IF t = << >> THEN NULL ELSE d[t[Len(t)]].s
             c == f[m].children
  <2>1. f[m] = [name |-> d[at[m]].s, value |-> v, children |-> c, attrs |-> b]
    BY <1>2
  <2> HIDE DEF b, v, c
  <2>2. node = [name |-> d[at[m]].s, value |-> d[n+1].s, children |-> c, attrs |-> b]
    BY <2>1
  <2> QED
    BY <2>2 DEF b, c
<1> DEFINE s == Append(t, n + 1)
<1>4. Rising(s, Held(d, n + 1, at[m], "text"))
  <2>1. Held(d, n + 1, at[m], "text") = Held(d, n, at[m], "text") \cup {n + 1}
    BY HeldStep, ZenonT(40)
  <2>2. \A y \in Held(d, n, at[m], "text") : y < n + 1
    BY DEF Held
  <2> QED
    BY <1>2, <2>1, <2>2, RisingAppend
<1>5. s # << >> /\ s[Len(s)] = n + 1
  <2>1. t \in Seq(Nat) /\ n + 1 \in Nat
    BY <1>2 DEF Rising
  <2>2. Len(s) = Len(t) + 1 /\ s[Len(t) + 1] = n + 1 /\ Len(t) \in Nat
    BY <2>1
  <2> HIDE DEF s
  <2>3. Len(s) # 0
    BY <2>2
  <2> QED
    BY <2>2, <2>3
<1>6. Held(d, n + 1, at[m], "attr") = Held(d, n, at[m], "attr")
  <2>1. d[n+1].op # "attr"
    OBVIOUS
  <2> QED
    BY <2>1, HeldOther
<1>7. node.children = f[m].children
  BY <1>3
<1> HIDE DEF node, s
<1>8. node = [name |-> d[at[m]].s, value |-> IF s = << >> THEN NULL ELSE d[s[Len(s)]].s,
              children |-> node.children, attrs |-> [i \in 1..Len(a) |-> <<d[a[i]].s, d[a[i]].v>>]]
  BY <1>3, <1>5, <1>7
<1>9. Drawn(d, n + 1, at, m, node)
  BY <1>2, <1>4, <1>6, <1>7, <1>8 DEF Drawn
<1>10. Grown(d, n + 1, [f EXCEPT ![m] = node], at)
  BY <1>9, GrowAt
<1>11. [f EXCEPT ![m].value = d[n+1].s] = [f EXCEPT ![m] = node]
  BY DEF node
<1> QED
  BY <1>10, <1>11

\* An attribute is added at the end.
LEMMA GrowAttr ==
  ASSUME NEW d, NEW n \in Nat, NEW f, NEW at, Grown(d, n, f, at), d[n+1].op = "attr",
         NEW m \in 1..Len(at), B!ParentOf(d, n + 1) = at[m], d[at[m]].op = "open"
  PROVE  Grown(d, n + 1, [f EXCEPT ![m].attrs = Append(@, <<d[n+1].s, d[n+1].v>>)], at)
<1> DEFINE x == <<d[n+1].s, d[n+1].v>>
           node == [f[m] EXCEPT !.attrs = Append(@, x)]
           A(q) == [i \in 1..Len(q) |-> <<d[q[i]].s, d[q[i]].v>>]
<1>1. Drawn(d, n, at, m, f[m])
  BY DEF Grown
<1>2. PICK t, a :
         /\ Rising(t, Held(d, n, at[m], "text")) /\ Rising(a, Held(d, n, at[m], "attr"))
         /\ Rising(f[m].children, {c \in 1..Len(at) : B!ParentOf(d, at[c]) = at[m]})
         /\ f[m] = [name     |-> d[at[m]].s,
                    value    |-> IF t = << >> THEN NULL ELSE d[t[Len(t)]].s,
                    children |-> f[m].children,
                    attrs    |-> A(a)]
  BY <1>1 DEF Drawn
<1> DEFINE v == IF t = << >> THEN NULL ELSE d[t[Len(t)]].s
           b == Append(a, n + 1)
<1>3. a \in Seq(Nat) /\ Len(a) \in Nat
  BY <1>2 DEF Rising
<1>4. Append(A(a), x) = A(b)
  <2>1. Len(b) = Len(a) + 1 /\ b[Len(a) + 1] = n + 1 /\ \A i \in 1..Len(a) : b[i] = a[i]
    BY <1>3
  <2> DEFINE V == {<<d[i].s, d[i].v>> : i \in Nat}
  <2>2. A(a) \in Seq(V) /\ Len(A(a)) = Len(a)
    BY <1>3, SMTT(30)
  <2>3. x \in V
    OBVIOUS
  <2> HIDE DEF V
  <2>4. Append(A(a), x) = [i \in 1..Len(a)+1 |-> IF i = Len(a) + 1 THEN x ELSE A(a)[i]]
    BY <1>3, <2>2, <2>3
  <2>5. \A i \in 1..Len(a)+1 : (IF i = Len(a) + 1 THEN x ELSE A(a)[i]) = <<d[b[i]].s, d[b[i]].v>>
    <3> SUFFICES ASSUME NEW i \in 1..Len(a)+1
                 PROVE  (IF i = Len(a) + 1 THEN x ELSE A(a)[i]) = <<d[b[i]].s, d[b[i]].v>>
      OBVIOUS
    <3>1. CASE i = Len(a) + 1
      BY <2>1, <3>1
    <3>2. CASE i # Len(a) + 1
      <4>1. i \in 1..Len(a)
        BY <1>3, <3>2
      <4> QED
        BY <2>1, <3>2, <4>1
    <3> QED
      BY <3>1, <3>2
  <2>6. A(b) = [i \in 1..Len(a)+1 |-> <<d[b[i]].s, d[b[i]].v>>]
    BY <2>1
  <2> HIDE DEF x, b, A
  <2> QED
    BY <2>4, <2>5, <2>6
<1> HIDE DEF v, b, x, A
<1>5. f[m] = [name |-> d[at[m]].s, value |-> v, children |-> f[m].children, attrs |-> A(a)]
  BY <1>2 DEF v
<1>6. node = [name |-> d[at[m]].s, value |-> v, children |-> f[m].children, attrs |-> A(b)]
  <2> DEFINE c == f[m].children
  <2>1. f[m] = [name |-> d[at[m]].s, value |-> v, children |-> c, attrs |-> A(a)]
    BY <1>5
  <2> DEFINE nm == d[at[m]].s
             y == A(a)
  <2>3. f[m] = [name |-> nm, value |-> v, children |-> c, attrs |-> y]
    BY <2>1
  <2> HIDE DEF c, nm, y
  <2>5. f[m].attrs = y
    BY <2>3
  <2> DEFINE z == Append(f[m].attrs, x)
  <2>6. node = [f[m] EXCEPT !.attrs = z]
    OBVIOUS
  <2> HIDE DEF node, z
  <2>7. node = [name |-> nm, value |-> v, children |-> c, attrs |-> z]
    BY <2>3, <2>6
  <2>4. node = [name |-> nm, value |-> v, children |-> c, attrs |-> Append(y, x)]
    BY <2>5, <2>7 DEF z
  <2>2. node = [name |-> d[at[m]].s, value |-> v, children |-> c, attrs |-> Append(A(a), x)]
    BY <2>4 DEF nm, y
  <2> QED
    BY <1>4, <2>2 DEF c
<1>7. Rising(b, Held(d, n + 1, at[m], "attr"))
  <2>1. Held(d, n + 1, at[m], "attr") = Held(d, n, at[m], "attr") \cup {n + 1}
    BY HeldStep, ZenonT(40)
  <2>2. \A y \in Held(d, n, at[m], "attr") : y < n + 1
    BY DEF Held
  <2> QED
    BY <1>2, <2>1, <2>2, RisingAppend DEF b
<1>8. Held(d, n + 1, at[m], "text") = Held(d, n, at[m], "text")
  <2>1. d[n+1].op # "text"
    OBVIOUS
  <2> QED
    BY <2>1, HeldOther
<1>9. node.children = f[m].children
  BY <1>6
<1>10. f[m] = f[m]
  OBVIOUS
<1> HIDE DEF node
<1>11. Drawn(d, n + 1, at, m, node)
  BY <1>2, <1>6, <1>7, <1>8, <1>9 DEF Drawn, v, A
<1>12. Grown(d, n + 1, [f EXCEPT ![m] = node], at)
  BY <1>11, GrowAt
<1>13. [f EXCEPT ![m].attrs = Append(@, x)] = [f EXCEPT ![m] = node]
  BY DEF node
<1> QED
  BY <1>12, <1>13 DEF x

-----------------------------------------------------------------------------
\* An element is opened before what is in it.
LEMMA ParentBelow ==
  ASSUME NEW d, NEW j \in Nat
  PROVE  B!ParentOf(d, j) = 0 \/ (B!ParentOf(d, j) \in 1..j-1 /\ B!ParentOf(d, j) < j)
<1> DEFINE A == {i \in 1..j-1 : Around(d, i, j - 1)}
<1>1. B!ParentOf(d, j) = Highest(A)
  BY ParentIs
<1>2. CASE A = {}
  <2> HIDE DEF A
  <2>1. Highest({}) = 0
    BY DEF Highest
  <2> QED
    BY <1>1, <1>2, <2>1
<1>3. CASE A # {}
  <2>1. A \subseteq 1..j-1
    OBVIOUS
  <2>2. \A a \in A : j - 1 - a \in Nat
    BY <2>1
  <2>3. \E i \in A : \A k \in A : k <= i
    <3> DEFINE P == {j - 1 - a : a \in A}
    <3>1. P \subseteq Nat /\ P # {}
      BY <1>3, <2>2
    <3>2. PICK p \in P : \A x \in P : p <= x
      BY <3>1, Least
    <3>3. PICK i \in A : p = j - 1 - i
      BY <3>2
    <3>4. \A k \in A : j - 1 - i <= j - 1 - k
      BY <3>2, <3>3
    <3>5. \A k \in A : k <= i
      BY <2>1, <3>4
    <3> QED
      BY <3>5
  <2>4. Highest(A) \in A
    <3> HIDE DEF A
    <3> QED
      BY <1>3, <2>3 DEF Highest
  <2> QED
    BY <1>1, <2>1, <2>4
<1> QED
  BY <1>2, <1>3

\* An event that makes a node makes the last one, without anything in it.
LEMMA SeatNew ==
  ASSUME NEW d, NEW n \in Nat, NEW at, Rising(at, Seats(d, n)),
         d[n+1].op = "open" \/ (d[n+1].op = "comment" /\ B!ParentOf(d, n + 1) # 0)
  PROVE  LET q == Append(at, n + 1)
         IN  /\ Rising(q, Seats(d, n + 1))
             /\ Len(at) \in Nat /\ Len(q) = Len(at) + 1 /\ q[Len(at) + 1] = n + 1
             /\ \A k \in 1..Len(at) : q[k] = at[k] /\ at[k] \in 1..n
<1> DEFINE q == Append(at, n + 1)
<1>1. 1..n+1 = (1..n) \cup {n + 1}
  OBVIOUS
<1>2. Seats(d, n + 1) = Seats(d, n) \cup {n + 1}
  BY <1>1 DEF Seats
<1>3. \A y \in Seats(d, n) : y < n + 1
  BY DEF Seats
<1>4. Rising(q, Seats(d, n + 1))
  BY <1>2, <1>3, RisingAppend
<1>5. at \in Seq(Nat) /\ Len(at) \in Nat /\ n + 1 \in Nat
  BY DEF Rising
<1>6. Len(q) = Len(at) + 1 /\ q[Len(at) + 1] = n + 1 /\ \A k \in 1..Len(at) : q[k] = at[k]
  BY <1>5
<1>7. \A k \in 1..Len(at) : at[k] \in Seats(d, n)
  BY DEF Rising
<1>8. \A k \in 1..Len(at) : at[k] \in 1..n
  BY <1>7 DEF Seats
<1> QED
  BY <1>4, <1>5, <1>6, <1>8

\* The children of node k when a node is added.
Sons(d, at, j) == {c \in 1..Len(at) : B!ParentOf(d, at[c]) = j}

\* The children of an element, with another node.
LEMMA SonsStep ==
  ASSUME NEW d, NEW n \in Nat, NEW at, NEW q, Len(at) \in Nat, Len(q) = Len(at) + 1,
         q[Len(at) + 1] = n + 1, \A k \in 1..Len(at) : q[k] = at[k], NEW j
  PROVE  Sons(d, q, j) = IF B!ParentOf(d, n + 1) = j THEN Sons(d, at, j) \cup {Len(at) + 1}
                         ELSE Sons(d, at, j)
<1>1. 1..Len(at)+1 = (1..Len(at)) \cup {Len(at) + 1}
  OBVIOUS
<1> QED
  BY <1>1 DEF Sons

\* The new node.
LEMMA DrawnNew ==
  ASSUME NEW d, NEW n \in Nat, NEW at, Rising(at, Seats(d, n)),
         d[n+1].op = "open" \/ (d[n+1].op = "comment" /\ B!ParentOf(d, n + 1) # 0)
  PROVE  Drawn(d, n + 1, Append(at, n + 1), Len(at) + 1,
               IF d[n+1].op = "comment" THEN B!domnode(Comment, d[n+1].s)
               ELSE B!domnode(d[n+1].s, NULL))
<1> DEFINE q == Append(at, n + 1)
<1>1. /\ Rising(q, Seats(d, n + 1))
      /\ Len(at) \in Nat /\ Len(q) = Len(at) + 1 /\ q[Len(at) + 1] = n + 1
      /\ \A k \in 1..Len(at) : q[k] = at[k] /\ at[k] \in 1..n
  BY SeatNew
<1> HIDE DEF q
<1>2. CASE d[n+1].op = "comment"
  BY <1>1, <1>2 DEF Drawn, q
<1>3. CASE d[n+1].op # "comment"
  <2> DEFINE node == B!domnode(d[n+1].s, NULL)
  <2>1. \A i \in 1..n+1 : B!ParentOf(d, i) # n + 1
    <3> SUFFICES ASSUME NEW i \in 1..n+1 PROVE B!ParentOf(d, i) # n + 1
      OBVIOUS
    <3>1. B!ParentOf(d, i) = 0 \/ (B!ParentOf(d, i) \in 1..i-1 /\ B!ParentOf(d, i) < i)
      BY ParentBelow
    <3> QED
      BY <3>1
  <2>2. Held(d, n + 1, n + 1, "text") = {} /\ Held(d, n + 1, n + 1, "attr") = {}
    BY <2>1 DEF Held
  <2>3. \A k \in 1..Len(at)+1 : q[k] \in 1..n+1
    <3> SUFFICES ASSUME NEW k \in 1..Len(at)+1 PROVE q[k] \in 1..n+1
      OBVIOUS
    <3>1. k = Len(at) + 1 \/ k \in 1..Len(at)
      BY <1>1
    <3> QED
      BY <1>1, <3>1
  <2>4. {c \in 1..Len(q) : B!ParentOf(d, q[c]) = n + 1} = {}
    BY <1>1, <2>1, <2>3
  <2>5. node.children = << >> /\ node = [name |-> d[n+1].s, value |-> NULL, children |-> node.children,
                 attrs |-> << >>]
    BY DEF B!domnode
  <2>6. ASSUME NEW e, e = << >> PROVE [i \in 1..Len(e) |-> <<d[e[i]].s, d[e[i]].v>>] = << >>
    <3>1. 1..Len(e) = {}
      BY <2>6
    <3> QED
      BY <3>1
  <2>7. PICK e : e = << >>
    OBVIOUS
  <2> HIDE DEF node
  <2>8. /\ Rising(e, Held(d, n + 1, n + 1, "text")) /\ Rising(e, Held(d, n + 1, n + 1, "attr"))
        /\ Rising(node.children, {c \in 1..Len(q) : B!ParentOf(d, q[c]) = n + 1})
    BY <2>2, <2>4, <2>5, <2>7, RisingEmpty
  <2>9. node = [name |-> d[n+1].s, value |-> IF e = << >> THEN NULL ELSE d[e[Len(e)]].s,
                children |-> node.children, attrs |-> [i \in 1..Len(e) |-> <<d[e[i]].s, d[e[i]].v>>]]
    BY <2>5, <2>6, <2>7
  <2>10. q[Len(at) + 1] = n + 1
    BY <1>1
  <2>11. Drawn(d, n + 1, q, Len(at) + 1, node)
    BY <1>3, <2>8, <2>9, <2>10 DEF Drawn
  <2> QED
    BY <1>3, <2>11 DEF node, q
<1> QED
  BY <1>2, <1>3

\* The other nodes but for the parent.
LEMMA DrawnOther ==
  ASSUME NEW d, NEW n \in Nat, NEW at, Rising(at, Seats(d, n)),
         d[n+1].op = "open" \/ (d[n+1].op = "comment" /\ B!ParentOf(d, n + 1) # 0),
         NEW k \in 1..Len(at), NEW node, Drawn(d, n, at, k, node), B!ParentOf(d, n + 1) # at[k]
  PROVE  Drawn(d, n + 1, Append(at, n + 1), k, node)
<1> DEFINE q == Append(at, n + 1)
<1>1. /\ Rising(q, Seats(d, n + 1))
      /\ Len(at) \in Nat /\ Len(q) = Len(at) + 1 /\ q[Len(at) + 1] = n + 1
      /\ \A c \in 1..Len(at) : q[c] = at[c] /\ at[c] \in 1..n
  BY SeatNew
<1> HIDE DEF q
<1>2. Sons(d, q, at[k]) = Sons(d, at, at[k])
  BY <1>1, SonsStep
<1>3. d[n+1].op # "text" /\ d[n+1].op # "attr"
  OBVIOUS
<1>4. Held(d, n + 1, at[k], "text") = Held(d, n, at[k], "text")
  BY <1>3, HeldOther
<1>5. Held(d, n + 1, at[k], "attr") = Held(d, n, at[k], "attr")
  BY <1>3, HeldOther
<1>6. q[k] = at[k]
  BY <1>1
<1> QED
  BY <1>2, <1>4, <1>5, <1>6 DEF Drawn, Sons, q

\* The parent gets a child.
LEMMA DrawnChild ==
  ASSUME NEW d, NEW n \in Nat, NEW at, Rising(at, Seats(d, n)),
         d[n+1].op = "open" \/ (d[n+1].op = "comment" /\ B!ParentOf(d, n + 1) # 0),
         NEW k \in 1..Len(at), NEW node, Drawn(d, n, at, k, node), B!ParentOf(d, n + 1) = at[k],
         d[at[k]].op = "open"
  PROVE  Drawn(d, n + 1, Append(at, n + 1), k,
               [node EXCEPT !.children = Append(@, Len(at) + 1)])
<1> DEFINE q == Append(at, n + 1)
           new == [node EXCEPT !.children = Append(@, Len(at) + 1)]
<1>1. /\ Rising(q, Seats(d, n + 1))
      /\ Len(at) \in Nat /\ Len(q) = Len(at) + 1 /\ q[Len(at) + 1] = n + 1
      /\ \A c \in 1..Len(at) : q[c] = at[c] /\ at[c] \in 1..n
  BY SeatNew
<1> HIDE DEF q
<1>2. Sons(d, q, at[k]) = Sons(d, at, at[k]) \cup {Len(at) + 1}
  BY <1>1, SonsStep, SMTT(30)
<1>3. d[n+1].op # "text" /\ d[n+1].op # "attr"
  OBVIOUS
<1>4. Held(d, n + 1, at[k], "text") = Held(d, n, at[k], "text")
  BY <1>3, HeldOther
<1>5. Held(d, n + 1, at[k], "attr") = Held(d, n, at[k], "attr")
  BY <1>3, HeldOther
<1>6. q[k] = at[k] /\ d[at[k]].op # "comment"
  BY <1>1
<1>7. PICK t, a :
         /\ Rising(t, Held(d, n, at[k], "text")) /\ Rising(a, Held(d, n, at[k], "attr"))
         /\ Rising(node.children, Sons(d, at, at[k]))
         /\ node = [name     |-> d[at[k]].s,
                    value    |-> IF t = << >> THEN NULL ELSE d[t[Len(t)]].s,
                    children |-> node.children,
                    attrs    |-> [i \in 1..Len(a) |-> <<d[a[i]].s, d[a[i]].v>>]]
  BY <1>6 DEF Drawn, Sons
<1> DEFINE v == IF t = << >> THEN NULL ELSE d[t[Len(t)]].s
           b == [i \in 1..Len(a) |-> <<d[a[i]].s, d[a[i]].v>>]
           z == Append(node.children, Len(at) + 1)
<1>8. new = [name |-> d[at[k]].s, value |-> v, children |-> z, attrs |-> b]
  <2> DEFINE c == node.children
             nm == d[at[k]].s
  <2>1. node = [name |-> nm, value |-> v, children |-> c, attrs |-> b] /\ new = [node EXCEPT !.children = z]
    BY <1>7
  <2> HIDE DEF c, nm, v, b, z, new
  <2>2. new = [name |-> nm, value |-> v, children |-> z, attrs |-> b]
    BY <2>1
  <2> QED
    BY <2>2 DEF nm
<1>9. Rising(z, Sons(d, q, at[k]))
  <2>1. \A y \in Sons(d, at, at[k]) : y < Len(at) + 1
    BY <1>1 DEF Sons
  <2> QED
    BY <1>1, <1>2, <1>7, <2>1, RisingAppend
<1> HIDE DEF z, new
<1>10. new.children = z
  BY <1>8
<1>11. Drawn(d, n + 1, q, k, new)
  BY <1>4, <1>5, <1>6, <1>7, <1>8, <1>9, <1>10 DEF Drawn, Sons
<1> QED
  BY <1>11 DEF new, q

\* Append, as a function.
LEMMA AppendIs ==
  ASSUME NEW l \in Nat, NEW f, f = [k \in 1..l |-> f[k]], NEW new
  PROVE  Append(f, new) = [k \in 1..l+1 |-> IF k = l + 1 THEN new ELSE f[k]]
<1> DEFINE V == {f[k] : k \in 1..l} \cup {new}
<1>1. f \in [1..l -> V] /\ new \in V
  OBVIOUS
<1> HIDE DEF V
<1>2. f \in Seq(V)
  BY <1>1
<1>3. Len(f) = l
  BY <1>1
<1> DEFINE g == Append(f, new)
<1>4. g \in Seq(V) /\ Len(g) = l + 1
  BY <1>1, <1>2, <1>3
<1>5. \A k \in 1..l+1 : g[k] = IF k = l + 1 THEN new ELSE f[k]
  BY <1>1, <1>2, <1>3
<1>6. g = [k \in 1..l+1 |-> g[k]]
  BY <1>4
<1> HIDE DEF g
<1>7. g = [k \in 1..l+1 |-> IF k = l + 1 THEN new ELSE f[k]]
  BY <1>5, <1>6
<1> QED
  BY <1>7 DEF g

\* A node without a parent.
LEMMA GrowRoot ==
  ASSUME NEW d, NEW n \in Nat, NEW f, NEW at, Grown(d, n, f, at), d[n+1].op = "open",
         B!ParentOf(d, n + 1) = 0
  PROVE  Grown(d, n + 1, Append(f, B!domnode(d[n+1].s, NULL)), Append(at, n + 1))
<1> DEFINE q == Append(at, n + 1)
           new == B!domnode(d[n+1].s, NULL)
           g == Append(f, new)
<1>1. /\ Rising(q, Seats(d, n + 1))
      /\ Len(at) \in Nat /\ Len(q) = Len(at) + 1 /\ q[Len(at) + 1] = n + 1
      /\ \A k \in 1..Len(at) : q[k] = at[k] /\ at[k] \in 1..n
      /\ Rising(at, Seats(d, n))
  BY SeatNew DEF Grown
<1>2. f = [k \in 1..Len(at) |-> f[k]]
  BY DEF Grown
<1> HIDE DEF new
<1>3. g = [k \in 1..Len(at)+1 |-> IF k = Len(at) + 1 THEN new ELSE f[k]]
  BY <1>1, <1>2, AppendIs
<1> HIDE DEF g, q
<1>4. ASSUME NEW k \in 1..Len(q) PROVE Drawn(d, n + 1, q, k, g[k])
  <2>1. CASE k = Len(at) + 1
    <3>1. Drawn(d, n + 1, q, k, new)
      <4>1. d[n+1].op # "comment"
        OBVIOUS
      <4> QED
        BY <1>1, <2>1, <4>1, DrawnNew DEF q, new
    <3>2. g[k] = new
      BY <1>1, <1>3, <2>1
    <3> QED
      BY <3>1, <3>2
  <2>2. CASE k # Len(at) + 1
    <3>1. k \in 1..Len(at)
      BY <1>1, <2>2
    <3>2. at[k] # 0 /\ Drawn(d, n, at, k, f[k]) /\ g[k] = f[k]
      BY <1>1, <1>3, <2>2, <3>1 DEF Grown
    <3> QED
      BY <1>1, <3>1, <3>2, DrawnOther DEF q
  <2> QED
    BY <2>1, <2>2
<1>5. g = [k \in 1..Len(q) |-> g[k]]
  BY <1>1, <1>3
<1>6. Grown(d, n + 1, g, q)
  BY <1>1, <1>4, <1>5 DEF Grown
<1> QED
  BY <1>6 DEF g, q, new

\* A node in node m.
LEMMA GrowNode ==
  ASSUME NEW d, NEW n \in Nat, NEW f, NEW at, Grown(d, n, f, at), d[n+1].op \in {"open", "comment"},
         NEW m \in 1..Len(at), B!ParentOf(d, n + 1) = at[m], d[at[m]].op = "open",
         NEW new, new = IF d[n+1].op = "comment" THEN B!domnode(Comment, d[n+1].s)
                        ELSE B!domnode(d[n+1].s, NULL)
  PROVE  Grown(d, n + 1, B!AppendChild(Append(f, new), m, Len(at) + 1), Append(at, n + 1))
<1> DEFINE q == Append(at, n + 1)
           g == B!AppendChild(Append(f, new), m, Len(at) + 1)
<1>0. Rising(at, Seats(d, n)) /\ f = [k \in 1..Len(at) |-> f[k]]
  BY DEF Grown
<1>00. d[n+1].op = "open" \/ (d[n+1].op = "comment" /\ B!ParentOf(d, n + 1) # 0)
  <2>1. at[m] \in Seats(d, n)
    BY <1>0 DEF Rising
  <2>2. at[m] # 0
    BY <2>1 DEF Seats
  <2> QED
    BY <2>2
<1>1. /\ Rising(q, Seats(d, n + 1))
      /\ Len(at) \in Nat /\ Len(q) = Len(at) + 1 /\ q[Len(at) + 1] = n + 1
      /\ \A k \in 1..Len(at) : q[k] = at[k] /\ at[k] \in 1..n
  BY <1>0, <1>00, SeatNew
<1> DEFINE grown == [f[m] EXCEPT !.children = Append(@, Len(at) + 1)]
<1>3. g = [k \in 1..Len(at)+1 |-> IF k = Len(at) + 1 THEN new ELSE IF k = m THEN grown ELSE f[k]]
  <2> DEFINE h == Append(f, new)
  <2>3. h = [k \in 1..Len(at)+1 |-> IF k = Len(at) + 1 THEN new ELSE f[k]]
    BY <1>0, <1>1, AppendIs
  <2>4. m # Len(at) + 1 /\ m \in 1..Len(at)+1
    BY <1>1
  <2> HIDE DEF h
  <2>5. h[m] = f[m]
    BY <2>3, <2>4
  <2>6. g = [h EXCEPT ![m] = grown]
    BY <2>5 DEF B!AppendChild, h
  <2> HIDE DEF grown, g
  <2> QED
    BY <2>3, <2>4, <2>6
<1> HIDE DEF g, q, grown
<1>4. ASSUME NEW k \in 1..Len(q) PROVE Drawn(d, n + 1, q, k, g[k])
  <2>1. CASE k = Len(at) + 1
    <3>1. Drawn(d, n + 1, q, k, new)
      BY <1>0, <1>00, <1>1, <2>1, DrawnNew DEF q
    <3>2. g[k] = new
      BY <1>1, <1>3, <2>1
    <3> QED
      BY <3>1, <3>2
  <2>2. CASE k = m
    <3>1. Drawn(d, n, at, m, f[m])
      BY DEF Grown
    <3>2. Drawn(d, n + 1, q, m, grown)
      BY <1>0, <1>00, <3>1, DrawnChild DEF q, grown
    <3>3. g[k] = grown
      BY <1>1, <1>3, <2>2
    <3> QED
      BY <2>2, <3>2, <3>3
  <2>3. CASE k # Len(at) + 1 /\ k # m
    <3>0. Len(at) \in Nat /\ Len(q) = Len(at) + 1 /\ k # Len(at) + 1
      BY <1>1, <2>3
    <3>1. k \in 1..Len(at)
      BY <3>0
    <3>2. at[k] # at[m]
      <4>1. k \in Nat /\ m \in Nat /\ at[k] \in Nat /\ at[m] \in Nat
        BY <1>1, <3>1
      <4>2. k < m \/ m < k
        BY <2>3, <4>1
      <4> QED
        BY <1>0, <3>1, <4>1, <4>2 DEF Rising
    <3>3. Drawn(d, n, at, k, f[k]) /\ g[k] = f[k]
      BY <1>1, <1>3, <2>3, <3>1 DEF Grown
    <3>4. B!ParentOf(d, n + 1) # at[k]
      BY <3>2
    <3> QED
      BY <1>0, <1>00, <3>1, <3>3, <3>4, DrawnOther DEF q
  <2> QED
    BY <2>1, <2>2, <2>3
<1>5. g = [k \in 1..Len(q) |-> g[k]]
  BY <1>1, <1>3
<1>6. Grown(d, n + 1, g, q)
  BY <1>1, <1>4, <1>5 DEF Grown
<1> QED
  BY <1>6 DEF g, q

\* The tree of the first n events does not depend on the others.
LEMMA GrownSame ==
  ASSUME NEW c, NEW d, NEW n \in Nat, \A j \in 1..n : c[j] = d[j], NEW f, NEW at, Grown(c, n, f, at)
  PROVE  Grown(d, n, f, at)
<1>1. \A j \in 1..n : c[j].op = d[j].op
  OBVIOUS
<1>2. \A j \in 1..n : B!ParentOf(c, j) = B!ParentOf(d, j)
  <2> SUFFICES ASSUME NEW j \in 1..n PROVE B!ParentOf(c, j) = B!ParentOf(d, j)
    OBVIOUS
  <2>1. j \in 1..n+1
    OBVIOUS
  <2> QED
    BY <1>1, <2>1, ParentSame
<1>3. Seats(c, n) = Seats(d, n)
  BY <1>1, <1>2 DEF Seats
<1>4. \A j, o : Held(c, n, j, o) = Held(d, n, j, o)
  BY <1>1, <1>2 DEF Held
<1>5. \A k \in 1..Len(at) : at[k] \in 1..n
  <2>1. \A k \in 1..Len(at) : at[k] \in Seats(c, n)
    BY DEF Grown, Rising
  <2> QED
    BY <2>1 DEF Seats
<1>6. \A j : Sons(c, at, j) = Sons(d, at, j)
  BY <1>2, <1>5 DEF Sons
<1>7. ASSUME NEW k \in 1..Len(at) PROVE Drawn(d, n, at, k, f[k])
  <2>1. Drawn(c, n, at, k, f[k]) /\ at[k] \in 1..n
    BY <1>5 DEF Grown
  <2>2. c[at[k]] = d[at[k]]
    BY <2>1
  <2>3. CASE d[at[k]].op = "comment"
    BY <2>1, <2>2, <2>3 DEF Drawn
  <2>4. CASE d[at[k]].op # "comment"
    <3>1. PICK t, a :
         /\ Rising(t, Held(c, n, at[k], "text")) /\ Rising(a, Held(c, n, at[k], "attr"))
         /\ Rising(f[k].children, Sons(c, at, at[k]))
         /\ f[k] = [name     |-> c[at[k]].s,
                    value    |-> IF t = << >> THEN NULL ELSE c[t[Len(t)]].s,
                    children |-> f[k].children,
                    attrs    |-> [i \in 1..Len(a) |-> <<c[a[i]].s, c[a[i]].v>>]]
      BY <2>1, <2>2, <2>4 DEF Drawn, Sons
    <3>2. \A i \in 1..Len(a) : c[a[i]] = d[a[i]]
      <4>1. \A i \in 1..Len(a) : a[i] \in Held(c, n, at[k], "attr")
        BY <3>1 DEF Rising
      <4> QED
        BY <4>1 DEF Held
    <3>3. [i \in 1..Len(a) |-> <<c[a[i]].s, c[a[i]].v>>] = [i \in 1..Len(a) |-> <<d[a[i]].s, d[a[i]].v>>]
      BY <3>2
    <3>4. t = << >> \/ c[t[Len(t)]] = d[t[Len(t)]]
      <4>1. \A i \in 1..Len(t) : t[i] \in Held(c, n, at[k], "text")
        BY <3>1 DEF Rising
      <4>2. t = << >> \/ Len(t) \in 1..Len(t)
        BY <3>1 DEF Rising
      <4>3. \A x \in Held(c, n, at[k], "text") : c[x] = d[x]
        BY DEF Held
      <4> QED
        BY <4>1, <4>2, <4>3
    <3>5. f[k] = [name     |-> d[at[k]].s,
                  value    |-> IF t = << >> THEN NULL ELSE d[t[Len(t)]].s,
                  children |-> f[k].children,
                  attrs    |-> [i \in 1..Len(a) |-> <<d[a[i]].s, d[a[i]].v>>]]
      BY <2>2, <3>1, <3>3, <3>4
    <3>6. Rising(t, Held(d, n, at[k], "text")) /\ Rising(a, Held(d, n, at[k], "attr"))
          /\ Rising(f[k].children, Sons(d, at, at[k]))
      BY <1>4, <1>6, <3>1
    <3> QED
      BY <2>4, <3>5, <3>6 DEF Drawn, Sons
  <2> QED
    BY <2>3, <2>4
<1> QED
  BY <1>3, <1>7 DEF Grown

-----------------------------------------------------------------------------
(* The tree of n events and the elements that are open after them.         *)

\* Element el[i] of the open ones is the node of the event that opened it.
Stacked(d, n, el, at) ==
  \E op : /\ Nest(d, n, op) /\ Len(op) = Len(el)
          /\ \A i \in 1..Len(el) : el[i] \in 1..Len(at) /\ at[el[i]] = op[i]

Drawing(d, n, el, f) ==
  /\ el \in Seq(Nat)
  /\ \E at : Grown(d, n, f, at) /\ Stacked(d, n, el, at)

\* The element that was opened last is the parent of the next event.
LEMMA StackedTop ==
  ASSUME NEW d, NEW n \in Nat, NEW el \in Seq(Nat), NEW at, Stacked(d, n, el, at)
  PROVE  /\ Len(el) = 0 => B!ParentOf(d, n + 1) = 0
         /\ Len(el) # 0 => /\ el[Len(el)] \in 1..Len(at)
                           /\ B!ParentOf(d, n + 1) = at[el[Len(el)]]
                           /\ d[at[el[Len(el)]]].op = "open"
<1>1. PICK op : /\ Nest(d, n, op) /\ Len(op) = Len(el)
                /\ \A i \in 1..Len(el) : el[i] \in 1..Len(at) /\ at[el[i]] = op[i]
  BY DEF Stacked
<1>2. B!ParentOf(d, n + 1) = IF Len(op) = 0 THEN 0 ELSE op[Len(op)]
  BY <1>1, ParentTop
<1>3. CASE Len(el) = 0
  BY <1>1, <1>2, <1>3
<1>4. CASE Len(el) # 0
  <2>1. Len(el) \in 1..Len(el)
    BY <1>4
  <2>2. op[Len(el)] \in 1..n /\ Around(d, op[Len(el)], n)
    BY <1>1, <2>1 DEF Nest
  <2>3. d[op[Len(el)]].op = "open"
    BY <2>2 DEF Around
  <2> QED
    BY <1>1, <1>2, <1>4, <2>1, <2>3
<1> QED
  BY <1>3, <1>4

\* An event that opens and closes nothing leaves them.
LEMMA StackedNone ==
  ASSUME NEW d, NEW n \in Nat, NEW el, NEW at, Stacked(d, n, el, at),
         d[n+1].op \notin {"open", "close"}
  PROVE  Stacked(d, n + 1, el, at)
<1>1. PICK op : /\ Nest(d, n, op) /\ Len(op) = Len(el)
                /\ \A i \in 1..Len(el) : el[i] \in 1..Len(at) /\ at[el[i]] = op[i]
  BY DEF Stacked
<1>2. Nest(d, n + 1, op)
  BY <1>1, NestNone
<1> QED
  BY <1>1, <1>2 DEF Stacked

\* More nodes do not matter.
LEMMA StackedMore ==
  ASSUME NEW d, NEW n \in Nat, NEW el, NEW at, NEW x, Stacked(d, n, el, at), Len(at) \in Nat,
         NEW q, Len(q) = Len(at) + 1, \A k \in 1..Len(at) : q[k] = at[k]
  PROVE  Stacked(d, n, el, q)
<1>1. PICK op : /\ Nest(d, n, op) /\ Len(op) = Len(el)
                /\ \A i \in 1..Len(el) : el[i] \in 1..Len(at) /\ at[el[i]] = op[i]
  BY DEF Stacked
<1>2. \A i \in 1..Len(el) : el[i] \in 1..Len(q) /\ q[el[i]] = op[i]
  BY <1>1
<1> QED
  BY <1>1, <1>2 DEF Stacked

\* An element is opened.
LEMMA StackedOpen ==
  ASSUME NEW d, NEW n \in Nat, NEW el \in Seq(Nat), NEW at, Stacked(d, n, el, at),
         d[n+1].op = "open", NEW c \in 1..Len(at), at[c] = n + 1
  PROVE  Stacked(d, n + 1, Append(el, c), at)
<1>1. PICK op : /\ Nest(d, n, op) /\ Len(op) = Len(el)
                /\ \A i \in 1..Len(el) : el[i] \in 1..Len(at) /\ at[el[i]] = op[i]
  BY DEF Stacked
<1> DEFINE p == Append(op, n + 1)
           e == Append(el, c)
<1>2. Nest(d, n + 1, p)
  BY <1>1, NestOpen
<1>3. op \in Seq(Nat) /\ n + 1 \in Nat /\ c \in Nat
  BY <1>1 DEF Nest
<1>4. /\ Len(p) = Len(op) + 1 /\ p[Len(op) + 1] = n + 1 /\ \A i \in 1..Len(op) : p[i] = op[i]
      /\ Len(e) = Len(el) + 1 /\ e[Len(el) + 1] = c /\ \A i \in 1..Len(el) : e[i] = el[i]
      /\ Len(el) \in Nat
  BY <1>3
<1> HIDE DEF p, e
<1>5. ASSUME NEW i \in 1..Len(e) PROVE e[i] \in 1..Len(at) /\ at[e[i]] = p[i]
  <2>1. i = Len(el) + 1 \/ i \in 1..Len(el)
    BY <1>4
  <2> QED
    BY <1>1, <1>4, <2>1
<1>6. Len(p) = Len(e)
  BY <1>1, <1>4
<1>7. Stacked(d, n + 1, e, at)
  BY <1>2, <1>5, <1>6 DEF Stacked
<1> QED
  BY <1>7 DEF e

\* The innermost element is closed.
LEMMA StackedClose ==
  ASSUME NEW d, NEW n \in Nat, NEW el \in Seq(Nat), NEW at, Stacked(d, n, el, at),
         d[n+1].op = "close", Len(el) > 0
  PROVE  Stacked(d, n + 1, SubSeq(el, 1, Len(el) - 1), at)
<1>1. PICK op : /\ Nest(d, n, op) /\ Len(op) = Len(el)
                /\ \A i \in 1..Len(el) : el[i] \in 1..Len(at) /\ at[el[i]] = op[i]
  BY DEF Stacked
<1> DEFINE p == SubSeq(op, 1, Len(op) - 1)
           e == SubSeq(el, 1, Len(el) - 1)
<1>2. Nest(d, n + 1, p)
  BY <1>1, NestClose
<1>3. op \in Seq(Nat)
  BY <1>1 DEF Nest
<1>4. /\ Len(p) = Len(op) - 1 /\ \A i \in 1..Len(op)-1 : p[i] = op[i]
  BY <1>1, <1>3, FrontOf
<1>5. /\ Len(e) = Len(el) - 1 /\ \A i \in 1..Len(el)-1 : e[i] = el[i]
      /\ Len(el) \in Nat
  BY FrontOf
<1> HIDE DEF p, e
<1>6. \A i \in 1..Len(e) : e[i] \in 1..Len(at) /\ at[e[i]] = p[i]
  BY <1>1, <1>4, <1>5, SMTT(30)
<1>7. Stacked(d, n + 1, e, at)
  <2>1. Len(p) = Len(e)
    BY <1>1, <1>4, <1>5
  <2> QED
    BY <1>2, <1>6, <2>1 DEF Stacked
<1> QED
  BY <1>7 DEF e

\* What an event does to the tree, as the actions of the grammar do it.
LEMMA DrawNone ==
  ASSUME NEW d, NEW n \in Nat, NEW el, NEW f, Drawing(d, n, el, f),
         d[n+1].op = "none" \/ (d[n+1].op = "comment" /\ Len(el) = 0)
  PROVE  Drawing(d, n + 1, el, f)
<1>1. PICK at : Grown(d, n, f, at) /\ Stacked(d, n, el, at)
  BY DEF Drawing
<1>2. el \in Seq(Nat)
  BY DEF Drawing
<1>3. d[n+1].op \in {"comment", "text", "attr"} => B!ParentOf(d, n + 1) = 0
  BY <1>1, <1>2, StackedTop
<1>4. Grown(d, n + 1, f, at)
  BY <1>1, <1>3, GrowNone
<1>5. Stacked(d, n + 1, el, at)
  <2>1. d[n+1].op \notin {"open", "close"}
    OBVIOUS
  <2> QED
    BY <1>1, <2>1, StackedNone
<1> QED
  BY <1>2, <1>4, <1>5 DEF Drawing

\* The tree after each kind of event: an end tag leaves it,
LEMMA DrawClose ==
  ASSUME NEW d, NEW n \in Nat, NEW el, NEW f, Drawing(d, n, el, f), d[n+1].op = "close", Len(el) > 0
  PROVE  Drawing(d, n + 1, SubSeq(el, 1, Len(el) - 1), f)
<1>1. PICK at : Grown(d, n, f, at) /\ Stacked(d, n, el, at)
  BY DEF Drawing
<1>2. el \in Seq(Nat)
  BY DEF Drawing
<1>3. Grown(d, n + 1, f, at)
  <2>1. d[n+1].op # "open" /\ d[n+1].op \notin {"comment", "text", "attr"}
    OBVIOUS
  <2> QED
    BY <1>1, <2>1, GrowNone
<1>4. Stacked(d, n + 1, SubSeq(el, 1, Len(el) - 1), at)
  BY <1>1, <1>2, StackedClose
<1>5. SubSeq(el, 1, Len(el) - 1) \in Seq(Nat)
  BY <1>2, FrontOf
<1> QED
  BY <1>3, <1>4, <1>5 DEF Drawing

\* a text is the new value of the innermost element,
LEMMA DrawText ==
  ASSUME NEW d, NEW n \in Nat, NEW el, NEW f, Drawing(d, n, el, f), d[n+1].op = "text", Len(el) # 0
  PROVE  Drawing(d, n + 1, el, [f EXCEPT ![el[Len(el)]].value = d[n+1].s])
<1>1. PICK at : Grown(d, n, f, at) /\ Stacked(d, n, el, at)
  BY DEF Drawing
<1>2. el \in Seq(Nat)
  BY DEF Drawing
<1> DEFINE m == el[Len(el)]
<1>3. m \in 1..Len(at) /\ B!ParentOf(d, n + 1) = at[m] /\ d[at[m]].op = "open"
  BY <1>1, <1>2, StackedTop
<1> HIDE DEF m
<1>4. Grown(d, n + 1, [f EXCEPT ![m].value = d[n+1].s], at)
  BY <1>1, <1>3, GrowText
<1>5. Stacked(d, n + 1, el, at)
  <2>1. d[n+1].op \notin {"open", "close"}
    OBVIOUS
  <2> QED
    BY <1>1, <2>1, StackedNone
<1> QED
  BY <1>2, <1>4, <1>5 DEF Drawing, m

\* an attribute is its last one,
LEMMA DrawAttr ==
  ASSUME NEW d, NEW n \in Nat, NEW el, NEW f, Drawing(d, n, el, f), d[n+1].op = "attr", Len(el) # 0
  PROVE  Drawing(d, n + 1, el,
                 [f EXCEPT ![el[Len(el)]].attrs = Append(@, <<d[n+1].s, d[n+1].v>>)])
<1>1. PICK at : Grown(d, n, f, at) /\ Stacked(d, n, el, at)
  BY DEF Drawing
<1>2. el \in Seq(Nat)
  BY DEF Drawing
<1> DEFINE m == el[Len(el)]
<1>3. m \in 1..Len(at) /\ B!ParentOf(d, n + 1) = at[m] /\ d[at[m]].op = "open"
  BY <1>1, <1>2, StackedTop
<1> HIDE DEF m
<1>4. Grown(d, n + 1, [f EXCEPT ![m].attrs = Append(@, <<d[n+1].s, d[n+1].v>>)], at)
  BY <1>1, <1>3, GrowAttr
<1>5. Stacked(d, n + 1, el, at)
  <2>1. d[n+1].op \notin {"open", "close"}
    OBVIOUS
  <2> QED
    BY <1>1, <2>1, StackedNone
<1> QED
  BY <1>2, <1>4, <1>5 DEF Drawing, m

\* a comment is its last child,
LEMMA DrawComment ==
  ASSUME NEW d, NEW n \in Nat, NEW el, NEW f, Drawing(d, n, el, f), d[n+1].op = "comment",
         Len(el) # 0
  PROVE  Drawing(d, n + 1, el, B!AppendChild(Append(f, B!domnode(Comment, d[n+1].s)),
                                             el[Len(el)], Len(f) + 1))
<1>1. PICK at : Grown(d, n, f, at) /\ Stacked(d, n, el, at)
  BY DEF Drawing
<1>2. el \in Seq(Nat)
  BY DEF Drawing
<1> DEFINE m == el[Len(el)]
           new == B!domnode(Comment, d[n+1].s)
           q == Append(at, n + 1)
<1>3. m \in 1..Len(at) /\ B!ParentOf(d, n + 1) = at[m] /\ d[at[m]].op = "open"
  BY <1>1, <1>2, StackedTop
<1> HIDE DEF m, new
<1>4. Grown(d, n + 1, B!AppendChild(Append(f, new), m, Len(at) + 1), q)
  BY <1>1, <1>3, GrowNode DEF new
<1>5. Rising(at, Seats(d, n)) /\ f = [k \in 1..Len(at) |-> f[k]]
  BY <1>1 DEF Grown
<1>6. Len(at) \in Nat
  BY <1>5 DEF Rising
<1>7. Len(f) = Len(at)
  BY <1>5, <1>6
<1>8. at[m] # 0
  <2>1. at[m] \in Seats(d, n)
    BY <1>3, <1>5 DEF Rising
  <2> QED
    BY <2>1 DEF Seats
<1>9. Len(q) = Len(at) + 1 /\ \A k \in 1..Len(at) : q[k] = at[k]
  BY <1>3, <1>5, <1>8, SeatNew
<1> HIDE DEF q
<1>10. Stacked(d, n + 1, el, at)
  <2>1. d[n+1].op \notin {"open", "close"}
    OBVIOUS
  <2> QED
    BY <1>1, <2>1, StackedNone
<1>11. Stacked(d, n + 1, el, q)
  <2>1. n + 1 \in Nat
    OBVIOUS
  <2> QED
    BY <1>6, <1>9, <1>10, <2>1, StackedMore
<1> QED
  BY <1>2, <1>4, <1>7, <1>11 DEF Drawing, m, new

\* and a start tag is a new root or its last child.
LEMMA DrawOpen ==
  ASSUME NEW d, NEW n \in Nat, NEW el, NEW f, Drawing(d, n, el, f), d[n+1].op = "open",
         NEW made, made = Append(f, B!domnode(d[n+1].s, NULL))
  PROVE  Drawing(d, n + 1, Append(el, Len(f) + 1),
                 IF Len(el) = 0 THEN made ELSE B!AppendChild(made, el[Len(el)], Len(f) + 1))
<1>1. PICK at : Grown(d, n, f, at) /\ Stacked(d, n, el, at)
  BY DEF Drawing
<1>2. el \in Seq(Nat)
  BY DEF Drawing
<1> DEFINE m == el[Len(el)]
           q == Append(at, n + 1)
           g == IF Len(el) = 0 THEN made ELSE B!AppendChild(made, m, Len(at) + 1)
<1>3. Rising(at, Seats(d, n)) /\ f = [k \in 1..Len(at) |-> f[k]]
  BY <1>1 DEF Grown
<1>4. Len(at) \in Nat
  BY <1>3 DEF Rising
<1>5. Len(f) = Len(at)
  BY <1>3, <1>4
<1>6. Grown(d, n + 1, g, q)
  <2>1. CASE Len(el) = 0
    <3>1. B!ParentOf(d, n + 1) = 0
      BY <1>1, <1>2, <2>1, StackedTop
    <3> QED
      BY <1>1, <2>1, <3>1, GrowRoot
  <2>2. CASE Len(el) # 0
    <3>1. m \in 1..Len(at) /\ B!ParentOf(d, n + 1) = at[m] /\ d[at[m]].op = "open"
      BY <1>1, <1>2, <2>2, StackedTop
    <3> DEFINE new == B!domnode(d[n+1].s, NULL)
    <3>2. new = IF d[n+1].op = "comment" THEN B!domnode(Comment, d[n+1].s)
                ELSE B!domnode(d[n+1].s, NULL)
      OBVIOUS
    <3>3. d[n+1].op \in {"open", "comment"}
      OBVIOUS
    <3> HIDE DEF m, new
    <3>4. Grown(d, n + 1, B!AppendChild(Append(f, new), m, Len(at) + 1), q)
      BY <1>1, <3>1, <3>2, <3>3, GrowNode
    <3> QED
      BY <2>2, <3>4 DEF m, new
  <2> QED
    BY <2>1, <2>2
<1>7. Len(q) = Len(at) + 1 /\ q[Len(at) + 1] = n + 1 /\ \A k \in 1..Len(at) : q[k] = at[k]
  BY <1>3, SeatNew
<1> HIDE DEF q
<1>8. Stacked(d, n, el, q)
  BY <1>1, <1>4, <1>7, StackedMore
<1>9. Len(at) + 1 \in 1..Len(q)
  BY <1>4, <1>7
<1>10. Stacked(d, n + 1, Append(el, Len(at) + 1), q)
  BY <1>2, <1>7, <1>8, <1>9, StackedOpen
<1>11. Append(el, Len(at) + 1) \in Seq(Nat)
  BY <1>2, <1>4
<1>12. Drawing(d, n + 1, Append(el, Len(at) + 1), g)
  <2> HIDE DEF g
  <2> QED
    BY <1>6, <1>10, <1>11 DEF Drawing
<1> QED
  BY <1>5, <1>12

\* Before any event.
LEMMA DrawStart ==
  ASSUME NEW d
  PROVE  Drawing(d, 0, << >>, << >>)
<1>1. Seats(d, 0) = {}
  BY DEF Seats
<1>2. Rising(<< >>, Seats(d, 0))
  BY <1>1, RisingEmpty
<1>3. ASSUME NEW e, e = << >> PROVE Grown(d, 0, e, e)
  <2>1. 1..Len(e) = {}
    BY <1>3
  <2>2. e = [k \in 1..Len(e) |-> e[k]]
    BY <1>3, <2>1
  <2> QED
    BY <1>2, <1>3, <2>1, <2>2 DEF Grown
<1>4. Nest(d, 0, << >>)
  BY NestStart
<1>5. ASSUME NEW e, e = << >> PROVE Stacked(d, 0, e, e)
  <2>1. 1..Len(e) = {}
    BY <1>5
  <2> QED
    BY <1>4, <1>5, <2>1 DEF Stacked
<1>6. << >> \in Seq(Nat)
  OBVIOUS
<1> QED
  BY <1>3, <1>5, <1>6 DEF Drawing

\* Documents that begin alike.
LEMMA DrawSame ==
  ASSUME NEW c, NEW d, NEW n \in Nat, \A j \in 1..n : c[j] = d[j], NEW el, NEW f,
         Drawing(c, n, el, f)
  PROVE  Drawing(d, n, el, f)
<1>1. PICK at : Grown(c, n, f, at) /\ Stacked(c, n, el, at)
  BY DEF Drawing
<1>2. Grown(d, n, f, at)
  BY <1>1, GrownSame
<1>3. PICK op : /\ Nest(c, n, op) /\ Len(op) = Len(el)
                /\ \A i \in 1..Len(el) : el[i] \in 1..Len(at) /\ at[el[i]] = op[i]
  BY <1>1 DEF Stacked
<1>4. Nest(d, n, op)
  <2>1. \A j \in 1..n : c[j].op = d[j].op
    OBVIOUS
  <2> QED
    BY <1>3, <2>1, NestSame
<1>5. Stacked(d, n, el, at)
  BY <1>3, <1>4 DEF Stacked
<1> QED
  BY <1>2, <1>5 DEF Drawing

-----------------------------------------------------------------------------
(* The generated parser: how far the tree is while the tokens come in.      *)

\* The events of the tokens r.
EventAt(r, j) ==
  B!Event(OpAt(r, j),
          IF OpAt(r, j) \in {"none", "close"} THEN NULL ELSE r[j].s,
          IF OpAt(r, j) # "attr" THEN NULL
          ELSE IF j + 2 <= Len(r) /\ r[j+1].k = 4 THEN r[j+2].s ELSE Empty)

Events(r) == [j \in 1..Len(r) |-> EventAt(r, j)]

\* Doc is the events of what was read.
LEMMA DocIs ==
  ASSUME read \in Seq(Tokens)
  PROVE  B!Doc = Events(read)
<1>1. DOMAIN read = 1..Len(read)
  OBVIOUS
<1>2. B!Doc = [j \in 1..Len(read) |-> B!Doc[j]]
  BY <1>1 DEF B!Doc
<1>3. ASSUME NEW n \in 1..Len(read) PROVE B!Doc[n] = EventAt(read, n)
  <2>0. n \in DOMAIN read
    BY <1>1
  <2> USE DEF B!Doc, B!Event, EventAt, OpAt, Prior, B!YYEMPTY, B!Token, B!START, B!COMMENT, B!DATA,
              B!NAME, B!CLOSE, B!END, B!SLASH, B!EQ
  <2>1. CASE read[n].k = 12
    BY <2>0, <2>1
  <2>2. CASE read[n].k = 11
    BY <2>0, <2>2
  <2>3. CASE read[n].k = 10
    BY <2>0, <2>3
  <2>4. CASE read[n].k = 8
    BY <2>0, <2>4
  <2>5. CASE read[n].k = 6
    BY <2>0, <2>5
  <2>6. CASE read[n].k \notin {12, 11, 10, 8, 6}
    BY <2>0, <2>6
  <2> QED
    BY <2>1, <2>2, <2>3, <2>4, <2>5, <2>6
<1>4. B!Doc = [j \in 1..Len(read) |-> EventAt(read, j)]
  BY <1>2, <1>3
<1> QED
  BY <1>4 DEF Events

\* The operations of the events are Ops.
LEMMA EventIs ==
  ASSUME NEW r, NEW j \in 1..Len(r)
  PROVE  Events(r)[j] = EventAt(r, j) /\ Events(r)[j].op = OpAt(r, j) /\ Ops(r)[j].op = OpAt(r, j)
BY DEF Events, EventAt, B!Event, Ops

\* The last tokens that were shifted, and how many of the events before them
\* are in the tree.
Built(s, t) ==
  IF s \in {2, 3, 11, 14, 18, 24} THEN t - 1 ELSE IF s = 16 THEN t - 2 ELSE IF s = 21 THEN t - 3
  ELSE t

\* The value of an attribute is known when the token after its name is.
Firm(r, b) ==
  \A j \in 1..b : OpAt(r, j) = "attr" => j < Len(r) /\ (r[j+1].k = 4 => j + 1 < Len(r))

\* The values on the stack of the tokens that are not in the tree yet.
Waiting(s, vs, r, t) ==
  /\ s = 2  => t >= 1 /\ OpAt(r, t) = "comment" /\ vs[Len(vs)] = r[t].s
  /\ s = 3  => t >= 1 /\ OpAt(r, t) = "open" /\ vs[Len(vs)] = r[t].s
  /\ s = 11 => t >= 1 /\ OpAt(r, t) = "attr" /\ vs[Len(vs)] = r[t].s
  /\ s \in {14, 24} => t >= 1 /\ OpAt(r, t) = "close"
  /\ s = 16 => t >= 2 /\ OpAt(r, t - 1) = "attr" /\ vs[Len(vs) - 1] = r[t-1].s /\ r[t].k = 4
  /\ s = 18 => t >= 1 /\ OpAt(r, t) = "text" /\ vs[Len(vs)] = r[t].s
  /\ s = 21 => /\ t >= 3 /\ OpAt(r, t - 2) = "attr" /\ vs[Len(vs) - 2] = r[t-2].s
               /\ r[t-1].k = 4 /\ r[t].k = 9 /\ vs[Len(vs)] = r[t].s

\* Before the root; p is the state below s.
Fresh(s, p) == s \in {0, 1} \/ (s \in {2, 3, 4} /\ p = 1)

Upto(s, p, vs, el, f, r, t) ==
  /\ Built(s, t) \in Nat
  /\ Drawing(Events(r), Built(s, t), el, f)
  /\ Firm(r, Built(s, t))
  /\ Waiting(s, vs, r, t)
  /\ f = << >> <=> Fresh(s, p)
  /\ s = 3 => p = 1 \/ Len(el) # 0

\* No more events are in the tree than tokens were taken.
LEMMA BuiltBelow ==
  ASSUME NEW s, NEW t \in Nat
  PROVE  Built(s, t) \in Int /\ Built(s, t) <= t
BY DEF Built

\* Another token is read.
LEMMA UptoRead ==
  ASSUME NEW r \in Seq(Tokens), NEW tok \in Tokens, NEW s, NEW p, NEW vs, NEW el, NEW f,
         Upto(s, p, vs, el, f, r, Len(r))
  PROVE  Upto(s, p, vs, el, f, Append(r, tok), Len(r))
<1> DEFINE q == Append(r, tok)
           t == Len(r)
           b == Built(s, t)
<1>1. t \in Nat /\ Len(q) = t + 1 /\ \A i \in 1..t : q[i] = r[i]
  OBVIOUS
<1>2. b \in Nat /\ b <= t
  BY <1>1, BuiltBelow DEF Upto
<1> HIDE DEF q
<1>3. ASSUME NEW n \in 1..t PROVE OpAt(q, n) = OpAt(r, n)
  <2>1. q[n] = r[n]
    BY <1>1
  <2>2. \A i \in {1, 2} : Prior(q, n, i) = Prior(r, n, i)
    <3>1. \A i \in {1, 2} : n > i => n - i \in 1..t
      BY <1>1
    <3> QED
      BY <1>1, <3>1 DEF Prior
  <2> QED
    BY <2>1, <2>2 DEF OpAt
<1>4. Firm(r, b)
  BY DEF Upto
<1>5. Firm(q, b)
  <2> SUFFICES ASSUME NEW j \in 1..b, OpAt(q, j) = "attr"
               PROVE  j < Len(q) /\ (q[j+1].k = 4 => j + 1 < Len(q))
    BY DEF Firm
  <2>1. j \in 1..t
    BY <1>2
  <2>2. j < t /\ (r[j+1].k = 4 => j + 1 < t)
    BY <1>3, <1>4, <2>1 DEF Firm
  <2>3. j + 1 \in 1..t
    BY <1>1, <2>1, <2>2
  <2> QED
    BY <1>1, <2>1, <2>2, <2>3
<1>6. ASSUME NEW j \in 1..b PROVE Events(q)[j] = Events(r)[j]
  <2>1. j \in 1..t /\ j \in 1..Len(q)
    BY <1>1, <1>2
  <2>2. OpAt(q, j) = OpAt(r, j) /\ q[j] = r[j]
    BY <1>1, <1>3, <2>1
  <2>3. ASSUME OpAt(r, j) = "attr"
        PROVE  (IF j + 2 <= Len(q) /\ q[j+1].k = 4 THEN q[j+2].s ELSE Empty)
               = (IF j + 2 <= t /\ r[j+1].k = 4 THEN r[j+2].s ELSE Empty)
    <3>1. j < t /\ (r[j+1].k = 4 => j + 1 < t)
      BY <1>4, <2>3 DEF Firm
    <3>2. q[j+1] = r[j+1]
      BY <1>1, <2>1, <3>1
    <3>3. CASE r[j+1].k = 4
      <4>1. j + 2 \in 1..t
        BY <1>1, <2>1, <3>1, <3>3
      <4> QED
        BY <1>1, <3>2, <3>3, <4>1
    <3>4. CASE r[j+1].k # 4
      BY <3>2, <3>4
    <3> QED
      BY <3>3, <3>4
  <2>4. EventAt(q, j) = EventAt(r, j)
    BY <2>2, <2>3 DEF EventAt
  <2> QED
    BY <2>1, <2>4, EventIs
<1>7. Drawing(Events(q), b, el, f)
  <2>1. Drawing(Events(r), b, el, f)
    BY DEF Upto
  <2> HIDE DEF b
  <2> QED
    BY <1>2, <1>6, <2>1, DrawSame
<1>8. Waiting(s, vs, q, t)
  <2>1. Waiting(s, vs, r, t)
    BY DEF Upto
  <2>2. \A n \in 1..t : OpAt(q, n) = OpAt(r, n) /\ q[n] = r[n]
    BY <1>1, <1>3
  <2>3. /\ t >= 1 => t \in 1..t
        /\ t >= 2 => t \in 1..t /\ t - 1 \in 1..t
        /\ t >= 3 => t \in 1..t /\ t - 1 \in 1..t /\ t - 2 \in 1..t
    BY <1>1
  <2> HIDE DEF t
  <2> QED
    BY <2>1, <2>2, <2>3 DEF Waiting
<1> QED
  BY <1>2, <1>5, <1>7, <1>8 DEF Upto, q

\* What state x, into which state s shifts a token of kind k, tells of the
\* token's event.
Takes(s, x, o, k, e) ==
  /\ x = 2  <=> o = "comment"
  /\ x = 3  <=> o = "open"
  /\ x = 11 <=> o = "attr"
  /\ x \in {14, 24} <=> o = "close"
  /\ x = 18 <=> o = "text"
  /\ x = 16 <=> k = 4
  /\ x = 21 <=> k = 9
  /\ x = 16 <=> s = 11
  /\ x = 21 <=> s = 16
  /\ x = 3 => s \in {1, 15}
  /\ x = 2 => s \in {1, 7, 15}
  /\ x \notin {0, 1, 4} /\ (s \in {0, 1, 2, 3, 4} => s = 1 /\ x \in {2, 3})
  /\ s = 15 => e # 0

\* The tables shift what Takes says.
LEMMA Shifted ==
  ASSUME NEW r \in Seq(Tokens), NEW t \in Nat, t + 1 \in 1..Len(r), NEW s \in States, NEW p, NEW n,
         NEW e \in Nat, Place(s, p, n, e, ModeAt(r, t), DepthAt(r, t)),
         s \in Consulting, NEW x, x = ShiftTo(s, r[t+1].k), x \notin {0, 27},
         s = 8 /\ ModeAt(r, t) = "attr" => r[t+1].k # 4
  PROVE  Takes(s, x, OpAt(r, t + 1), r[t+1].k, e)
<1> DEFINE k == r[t+1].k
           mode == ModeAt(r, t)
<1>1. r[t+1] \in Tokens /\ k \in Kinds
  <2>1. r[t+1] \in Tokens
    OBVIOUS
  <2> QED
    BY <2>1 DEF Tokens
<1>2. x = ShiftTo(s, k)
  OBVIOUS
<1>3. mode # "error"
  BY PlaceMode
<1>4. Prior(r, t + 1, 1) = 5 <=> mode = "slash"
  <2>1. CASE t = 0
    BY <2>1, ModeStart DEF Prior
  <2>2. CASE t # 0
    <3>1. t \in 1..Len(r) /\ t + 1 > 1 /\ (t + 1) - 1 = t
      BY <2>2
    <3> QED
      BY <1>3, <3>1, ModeTokens DEF Prior
  <2> QED
    BY <2>1, <2>2
<1>5. Prior(r, t + 1, 1) = 7 <=> mode = "end"
  <2>1. CASE t = 0
    BY <2>1, ModeStart DEF Prior
  <2>2. CASE t # 0
    <3>1. t \in 1..Len(r) /\ t + 1 > 1 /\ (t + 1) - 1 = t
      BY <2>2
    <3> QED
      BY <1>3, <3>1, ModeTokens DEF Prior
  <2> QED
    BY <2>1, <2>2
<1>6. Prior(r, t + 1, 2) = 7 <=> mode = "name"
  <2>1. CASE t = 0
    BY <2>1, ModeStart DEF Prior
  <2>2. CASE t # 0
    <3>1. t \in 1..Len(r)
      BY <2>2
    <3>2. ModeAt(r, t - 1) # "error" /\ (mode = "name" <=> ModeAt(r, t - 1) = "end")
      BY <1>3, <3>1, ModeTokens
    <3>3. CASE t = 1
      BY <3>2, <3>3, ModeStart DEF Prior
    <3>4. CASE t # 1
      <4>1. t - 1 \in 1..Len(r) /\ t + 1 > 2 /\ (t + 1) - 2 = t - 1
        BY <2>2, <3>4
      <4> QED
        BY <3>2, <4>1, ModeTokens DEF Prior
    <3> QED
      BY <3>3, <3>4
  <2> QED
    BY <2>1, <2>2
<1>7. OpAt(r, t + 1) = CASE k = 12 -> "open" [] k = 11 -> "comment" [] k = 10 -> "text"
                         [] k = 8 -> IF mode = "end" THEN "none" ELSE "attr"
                         [] k = 6 -> IF mode \in {"slash", "name"} THEN "close" ELSE "none"
                         [] OTHER -> "none"
  BY <1>4, <1>5, <1>6 DEF OpAt
<1> DEFINE o == OpAt(r, t + 1)
<1>8. Place(s, p, n, e, mode, DepthAt(r, t)) /\ (s = 8 /\ mode = "attr" => k # 4)
  OBVIOUS
<1>9. s \in Consulting /\ x \notin {0, 27}
  OBVIOUS
<1> HIDE DEF k, mode, o
<1>10. o = CASE k = 12 -> "open" [] k = 11 -> "comment" [] k = 10 -> "text"
                         [] k = 8 -> IF mode = "end" THEN "none" ELSE "attr"
                         [] k = 6 -> IF mode \in {"slash", "name"} THEN "close" ELSE "none"
                         [] OTHER -> "none"
  BY <1>7 DEF o
<1>11. ASSUME s = 1 PROVE Takes(s, x, o, k, e)
  BY <1>2, <1>8, <1>9, <1>10, <1>11 DEF ShiftTo, Place, Takes
<1>12. ASSUME s = 7 PROVE Takes(s, x, o, k, e)
  BY <1>2, <1>8, <1>9, <1>10, <1>12 DEF ShiftTo, Place, Takes
<1>13. ASSUME s = 8 PROVE Takes(s, x, o, k, e)
  BY <1>2, <1>8, <1>9, <1>10, <1>13 DEF ShiftTo, Place, Takes
<1>14. ASSUME s = 9 PROVE Takes(s, x, o, k, e)
  BY <1>2, <1>8, <1>9, <1>10, <1>14 DEF ShiftTo, Place, Takes
<1>15. ASSUME s = 11 PROVE Takes(s, x, o, k, e)
  BY <1>2, <1>8, <1>9, <1>10, <1>15 DEF ShiftTo, Place, Takes
<1>16. ASSUME s = 15 PROVE Takes(s, x, o, k, e)
  <2>1. x = (CASE k = 7 -> 17 [] k = 10 -> 18 [] k = 11 -> 2 [] k = 12 -> 3 [] OTHER -> 0)
    BY <1>2, <1>16 DEF ShiftTo
  <2>2. e # 0
    BY <1>8, <1>16 DEF Place
  <2>3. CASE k = 7
    BY <1>10, <1>16, <2>1, <2>2, <2>3 DEF Takes
  <2>4. CASE k = 10
    BY <1>10, <1>16, <2>1, <2>2, <2>4 DEF Takes
  <2>5. CASE k = 11
    BY <1>10, <1>16, <2>1, <2>2, <2>5 DEF Takes
  <2>6. CASE k = 12
    BY <1>10, <1>16, <2>1, <2>2, <2>6 DEF Takes
  <2>7. CASE k \notin {7, 10, 11, 12}
    BY <1>9, <2>1, <2>7
  <2> QED
    BY <2>3, <2>4, <2>5, <2>6, <2>7
<1>17. ASSUME s = 16 PROVE Takes(s, x, o, k, e)
  BY <1>2, <1>8, <1>9, <1>10, <1>17 DEF ShiftTo, Place, Takes
<1>18. ASSUME s = 17 PROVE Takes(s, x, o, k, e)
  BY <1>2, <1>8, <1>9, <1>10, <1>18 DEF ShiftTo, Place, Takes
<1>19. ASSUME s = 23 PROVE Takes(s, x, o, k, e)
  BY <1>2, <1>8, <1>9, <1>10, <1>19 DEF ShiftTo, Place, Takes
<1>20. ASSUME s = 25 PROVE Takes(s, x, o, k, e)
  BY <1>2, <1>8, <1>9, <1>10, <1>20 DEF ShiftTo, Place, Takes
<1>21. ASSUME s = 26 PROVE Takes(s, x, o, k, e)
  BY <1>2, <1>8, <1>9, <1>10, <1>21 DEF ShiftTo, Place, Takes
<1>22. Takes(s, x, o, k, e)
  BY <1>9, <1>11, <1>12, <1>13, <1>14, <1>15, <1>16, <1>17, <1>18, <1>19, <1>20, <1>21
     DEF Consulting
<1> QED
  BY <1>22 DEF k, o

-----------------------------------------------------------------------------
\* A token is shifted.
LEMMA UptoShift ==
  ASSUME NEW r \in Seq(Tokens), NEW t \in Nat, t + 1 \in 1..Len(r), NEW s \in States, NEW p,
         NEW vs \in Seq(Strings), NEW el \in Seq(Nat), NEW f,
         Upto(s, p, vs, el, f, r, t),
         Place(s, p, Len(vs), Len(el), ModeAt(r, t), DepthAt(r, t)),
         s \in Consulting, NEW x, x = ShiftTo(s, r[t+1].k), x \notin {0, 27},
         s = 8 /\ ModeAt(r, t) = "attr" => r[t+1].k # 4
  PROVE  Upto(x, s, Append(vs, r[t+1].s), el, f, r, t + 1)
<1> DEFINE o == OpAt(r, t + 1)
           k == r[t+1].k
           ws == Append(vs, r[t+1].s)
           n == Len(vs)
           e == Len(el)
<1>1. Takes(s, x, o, k, e)
  <2>1. e \in Nat
    OBVIOUS
  <2> QED
    BY <2>1, Shifted
<1>2. o \in {"comment", "open", "attr", "close", "text", "none"}
  BY DEF OpAt
<1>3. /\ Drawing(Events(r), Built(s, t), el, f) /\ Firm(r, Built(s, t)) /\ Waiting(s, vs, r, t)
      /\ f = << >> <=> Fresh(s, p)
      /\ Built(s, t) \in Nat
  BY DEF Upto
<1>4. n \in Nat /\ Len(ws) = n + 1 /\ ws[n+1] = r[t+1].s /\ \A i \in 1..n : ws[i] = vs[i]
  <2>1. r[t+1] \in Tokens
    OBVIOUS
  <2>2. r[t+1].s \in Strings
    BY <2>1 DEF Tokens
  <2> QED
    BY <2>2
<1>5. s = 11 => n >= 1
  BY DEF Place
<1>6. s = 16 => n >= 2
  BY DEF Place
<1>7. s \in {1, 7, 8, 9, 11, 15, 16, 17, 23, 25, 26}
  BY DEF Consulting
<1>8. Events(r)[t+1].op = o
  BY EventIs
<1> HIDE DEF o, k, ws, n, e
<1>9. x = 16 => s = 11
  BY <1>1 DEF Takes
<1>10. x = 21 => s = 16
  BY <1>1 DEF Takes
<1>11. /\ Built(x, t + 1) \in Nat /\ Drawing(Events(r), Built(x, t + 1), el, f)
       /\ Firm(r, Built(x, t + 1))
  <2>1. CASE Built(x, t + 1) = Built(s, t)
    BY <1>3, <2>1
  <2>2. CASE Built(x, t + 1) # Built(s, t)
    <3>1. (x = 16 => s = 11) /\ (x = 21 => s = 16)
      BY <1>9, <1>10
    <3>2. x \notin {2, 3, 11, 14, 16, 18, 21, 24}
      <4>1. s = 11 => Built(s, t) = t - 1
        BY DEF Built
      <4>2. s = 16 => Built(s, t) = t - 2
        BY DEF Built
      <4>3. s \notin {11, 16} => Built(s, t) = t
        BY <1>7 DEF Built
      <4>4. x = 16 => Built(x, t + 1) = t - 1
        BY DEF Built
      <4>5. x = 21 => Built(x, t + 1) = t - 2
        BY DEF Built
      <4>6. x \in {2, 3, 11, 14, 18, 24} => Built(x, t + 1) = t
        BY DEF Built
      <4>7. x \in {2, 3, 11, 14, 18, 24} => s \notin {11, 16}
        BY <1>1 DEF Takes
      <4> QED
        BY <2>2, <3>1, <4>1, <4>2, <4>3, <4>4, <4>5, <4>6, <4>7
    <3>3. Built(x, t + 1) = t + 1
      BY <3>2 DEF Built
    <3>4. o = "none"
      BY <1>1, <1>2, <3>2 DEF Takes
    <3>5. Built(s, t) = t
      <4>1. s \notin {11, 16}
        BY <1>1, <3>2 DEF Takes
      <4> QED
        BY <1>7, <4>1 DEF Built
    <3>6. Drawing(Events(r), t + 1, el, f)
      BY <1>3, <1>8, <3>4, <3>5, DrawNone
    <3>7. Firm(r, t + 1)
      <4>1. \A j \in 1..t+1 : j = t + 1 \/ j \in 1..t
        OBVIOUS
      <4> QED
        BY <1>3, <3>4, <3>5, <4>1 DEF Firm, o
    <3> QED
      BY <3>3, <3>6, <3>7
  <2> QED
    BY <2>1, <2>2
<1>12. Waiting(x, ws, r, t + 1)
  <2>1. t + 1 >= 1 /\ (t + 1) - 1 = t /\ (t + 1) - 2 = t - 1 /\ ws[Len(ws)] = r[t+1].s
    BY <1>4
  <2>2. s = 11 => Len(ws) - 1 = n /\ ws[Len(ws) - 1] = vs[n]
    <3>1. s = 11 => Len(ws) - 1 = n /\ n \in 1..n
      BY <1>4, <1>5
    <3>2. n \in 1..n => ws[n] = vs[n]
      BY <1>4
    <3> QED
      BY <3>1, <3>2
  <2>3. s = 16 => ws[Len(ws) - 2] = vs[n - 1]
    <3>1. s = 16 => Len(ws) - 2 = n - 1 /\ n - 1 \in 1..n
      BY <1>4, <1>6
    <3> QED
      BY <1>4, <3>1
  <2>4. x = 16 => /\ t + 1 >= 2 /\ OpAt(r, t) = "attr" /\ ws[Len(ws) - 1] = r[t].s /\ r[t+1].k = 4
    <3> SUFFICES ASSUME x = 16
                 PROVE  t + 1 >= 2 /\ OpAt(r, t) = "attr" /\ ws[Len(ws) - 1] = r[t].s /\ r[t+1].k = 4
      OBVIOUS
    <3>1. t >= 1 /\ OpAt(r, t) = "attr" /\ vs[n] = r[t].s
      BY <1>3, <1>9 DEF Waiting, n
    <3>2. k = 4
      BY <1>1 DEF Takes
    <3> QED
      BY <1>9, <2>2, <3>1, <3>2 DEF k
  <2>5. x = 21 => /\ t + 1 >= 3 /\ OpAt(r, t - 1) = "attr" /\ ws[Len(ws) - 2] = r[t-1].s
                  /\ r[t].k = 4 /\ r[t+1].k = 9
    <3> SUFFICES ASSUME x = 21
                 PROVE  /\ t + 1 >= 3 /\ OpAt(r, t - 1) = "attr" /\ ws[Len(ws) - 2] = r[t-1].s
                        /\ r[t].k = 4 /\ r[t+1].k = 9
      OBVIOUS
    <3>1. t >= 2 /\ OpAt(r, t - 1) = "attr" /\ vs[n - 1] = r[t-1].s /\ r[t].k = 4
      BY <1>3, <1>10 DEF Waiting, n
    <3>2. k = 9
      BY <1>1 DEF Takes
    <3> QED
      BY <1>10, <2>3, <3>1, <3>2 DEF k
  <2>6. /\ x = 2 => OpAt(r, t + 1) = "comment"
        /\ x = 3 => OpAt(r, t + 1) = "open"
        /\ x = 11 => OpAt(r, t + 1) = "attr"
        /\ x \in {14, 24} => OpAt(r, t + 1) = "close"
        /\ x = 18 => OpAt(r, t + 1) = "text"
    BY <1>1 DEF Takes, o
  <2> QED
    BY <2>1, <2>4, <2>5, <2>6 DEF Waiting
<1>13. Fresh(s, p) <=> Fresh(x, s)
  BY <1>1, <1>7 DEF Takes, Fresh
<1>14. x = 3 => s = 1 \/ Len(el) # 0
  BY <1>1 DEF Takes, e
<1> QED
  BY <1>3, <1>11, <1>12, <1>13, <1>14 DEF Upto, ws

\* A rule is reduced, after which the tree has all events.
LEMMA UptoReduce ==
  ASSUME NEW s, NEW p, NEW vs, NEW el, NEW f, NEW r, NEW t \in Nat, Upto(s, p, vs, el, f, r, t),
         NEW n, NEW k, NEW rr, NEW x, Moves(s, n, p, k, rr, x),
         NEW eo, NEW g, Drawing(Events(r), t, eo, g), Firm(r, t),
         g = << >> <=> f = << >> /\ s # 3, NEW ws
  PROVE  Upto(x, rr, ws, eo, g, r, t)
<1>1. x \in {1, 4, 5, 6, 7, 8, 12, 13, 15, 19, 20, 23, 25}
  BY DEF Moves
<1>2. Built(x, t) = t
  BY <1>1 DEF Built
<1>3. Waiting(x, ws, r, t)
  BY <1>1 DEF Waiting
<1>4. Fresh(x, rr) <=> Fresh(s, p) /\ s # 3
  BY DEF Moves, Fresh
<1>5. f = << >> <=> Fresh(s, p)
  BY DEF Upto
<1>6. x # 3
  BY <1>1
<1> QED
  BY <1>2, <1>3, <1>4, <1>5, <1>6 DEF Upto

\* What the tree is after the action of the rule, for each of the rules.
LEMMA UptoOther ==
  ASSUME NEW s, NEW p, NEW vs, NEW el, NEW f, NEW r, NEW t \in Nat, Upto(s, p, vs, el, f, r, t),
         s \in {0, 4, 5, 6, 7, 10, 12, 13, 19, 20, 22}
  PROVE  Drawing(Events(r), t, el, f) /\ Firm(r, t)
<1>1. Built(s, t) = t
  BY DEF Built
<1> QED
  BY <1>1 DEF Upto

\* The event that waits, where it is one.
LEMMA UptoOne ==
  ASSUME NEW s, NEW p, NEW vs, NEW el, NEW f, NEW r, NEW t \in Nat, Upto(s, p, vs, el, f, r, t),
         t <= Len(r), Len(r) \in Nat, s \in {2, 3, 11, 14, 18, 24}
  PROVE  /\ t - 1 \in Nat /\ (t - 1) + 1 = t /\ t \in 1..Len(r)
         /\ Drawing(Events(r), t - 1, el, f) /\ Firm(r, t - 1)
         /\ Events(r)[t] = EventAt(r, t) /\ Events(r)[t].op = OpAt(r, t)
         /\ OpAt(r, t) # "attr" => Firm(r, t)
<1>1. Built(s, t) = t - 1
  BY DEF Built
<1>2. t - 1 \in Nat /\ Drawing(Events(r), t - 1, el, f) /\ Firm(r, t - 1)
  BY <1>1 DEF Upto
<1>3. (t - 1) + 1 = t /\ t \in 1..Len(r)
  BY <1>2
<1>4. Events(r)[t] = EventAt(r, t) /\ Events(r)[t].op = OpAt(r, t)
  BY <1>3, EventIs
<1>5. OpAt(r, t) # "attr" => Firm(r, t)
  <2>1. \A j \in 1..t : j = t \/ j \in 1..t-1
    BY <1>2
  <2> QED
    BY <1>2, <2>1 DEF Firm
<1> QED
  BY <1>2, <1>3, <1>4, <1>5

\* A comment is reduced: its node is in the tree.
LEMMA UptoComment ==
  ASSUME NEW p, NEW vs, NEW el, NEW f, NEW r, NEW t \in Nat, Upto(2, p, vs, el, f, r, t),
         t <= Len(r), Len(r) \in Nat,
         NEW made, made = Append(f, B!domnode(Comment, vs[Len(vs)]))
  PROVE  /\ Drawing(Events(r), t, el,
                    IF Len(el) = 0 THEN f ELSE B!AppendChild(made, el[Len(el)], Len(f) + 1))
         /\ Firm(r, t)
<1>1. /\ t - 1 \in Nat /\ (t - 1) + 1 = t
      /\ Drawing(Events(r), t - 1, el, f)
      /\ Events(r)[t] = EventAt(r, t) /\ Events(r)[t].op = OpAt(r, t)
      /\ OpAt(r, t) # "attr" => Firm(r, t)
  BY UptoOne
<1>2. OpAt(r, t) = "comment" /\ vs[Len(vs)] = r[t].s
  BY DEF Upto, Waiting
<1>3. Events(r)[t].s = r[t].s
  BY <1>1, <1>2 DEF EventAt, B!Event
<1>4. CASE Len(el) = 0
  <2>1. Drawing(Events(r), (t - 1) + 1, el, f)
    BY <1>1, <1>2, <1>4, DrawNone
  <2> QED
    BY <1>1, <1>2, <1>4, <2>1
<1>5. CASE Len(el) # 0
  <2> DEFINE d == Events(r)
             m == t - 1
  <2>1. d[m+1].op = "comment" /\ d[m+1].s = vs[Len(vs)] /\ m \in Nat /\ Drawing(d, m, el, f)
    BY <1>1, <1>2, <1>3
  <2> HIDE DEF d, m
  <2>2. Drawing(d, m + 1, el, B!AppendChild(Append(f, B!domnode(Comment, d[m+1].s)),
                                             el[Len(el)], Len(f) + 1))
    BY <1>5, <2>1, DrawComment
  <2> QED
    BY <1>1, <1>2, <1>5, <2>1, <2>2 DEF d, m
<1> QED
  BY <1>4, <1>5

\* The name of a start tag is reduced: its node is in the tree.
LEMMA UptoStart ==
  ASSUME NEW p, NEW vs, NEW el, NEW f, NEW r, NEW t \in Nat, Upto(3, p, vs, el, f, r, t),
         t <= Len(r), Len(r) \in Nat,
         NEW made, made = Append(f, B!domnode(vs[Len(vs)], NULL))
  PROVE  /\ Drawing(Events(r), t, Append(el, Len(f) + 1),
                    IF Len(el) = 0 THEN made ELSE B!AppendChild(made, el[Len(el)], Len(f) + 1))
         /\ Firm(r, t)
<1>1. /\ t - 1 \in Nat /\ (t - 1) + 1 = t
      /\ Drawing(Events(r), t - 1, el, f)
      /\ Events(r)[t] = EventAt(r, t) /\ Events(r)[t].op = OpAt(r, t)
      /\ OpAt(r, t) # "attr" => Firm(r, t)
  BY UptoOne
<1>2. OpAt(r, t) = "open" /\ vs[Len(vs)] = r[t].s
  BY DEF Upto, Waiting
<1>3. Events(r)[t].s = r[t].s
  BY <1>1, <1>2 DEF EventAt, B!Event
<1> DEFINE d == Events(r)
           m == t - 1
<1>4. d[m+1].op = "open" /\ d[m+1].s = vs[Len(vs)] /\ m \in Nat /\ Drawing(d, m, el, f)
  BY <1>1, <1>2, <1>3
<1> HIDE DEF d, m
<1>5. made = Append(f, B!domnode(d[m+1].s, NULL))
  BY <1>4
<1>6. Drawing(d, m + 1, Append(el, Len(f) + 1),
              IF Len(el) = 0 THEN made ELSE B!AppendChild(made, el[Len(el)], Len(f) + 1))
  BY <1>4, <1>5, DrawOpen
<1>7. m + 1 = t
  BY <1>1 DEF m
<1> QED
  BY <1>1, <1>2, <1>6, <1>7 DEF d

\* An element is reduced: it is no longer open.
LEMMA UptoClose ==
  ASSUME NEW s \in {14, 24}, NEW p, NEW vs, NEW el, NEW f, NEW r, NEW t \in Nat,
         Upto(s, p, vs, el, f, r, t), t <= Len(r), Len(r) \in Nat, Len(el) > 0
  PROVE  Drawing(Events(r), t, SubSeq(el, 1, Len(el) - 1), f) /\ Firm(r, t)
<1>1. /\ t - 1 \in Nat /\ (t - 1) + 1 = t
      /\ Drawing(Events(r), t - 1, el, f)
      /\ Events(r)[t] = EventAt(r, t) /\ Events(r)[t].op = OpAt(r, t)
      /\ OpAt(r, t) # "attr" => Firm(r, t)
  BY UptoOne
<1>2. OpAt(r, t) = "close"
  BY DEF Upto, Waiting
<1>3. Drawing(Events(r), (t - 1) + 1, SubSeq(el, 1, Len(el) - 1), f)
  BY <1>1, <1>2, DrawClose
<1> QED
  BY <1>1, <1>2, <1>3

\* A text is reduced: it is the value.
LEMMA UptoData ==
  ASSUME NEW p, NEW vs, NEW el, NEW f, NEW r, NEW t \in Nat,
         Upto(18, p, vs, el, f, r, t), t <= Len(r), Len(r) \in Nat, Len(el) > 0
  PROVE  Drawing(Events(r), t, el, [f EXCEPT ![el[Len(el)]].value = vs[Len(vs)]]) /\ Firm(r, t)
<1>1. /\ t - 1 \in Nat /\ (t - 1) + 1 = t
      /\ Drawing(Events(r), t - 1, el, f)
      /\ Events(r)[t] = EventAt(r, t) /\ Events(r)[t].op = OpAt(r, t)
      /\ OpAt(r, t) # "attr" => Firm(r, t)
  BY UptoOne
<1>2. OpAt(r, t) = "text" /\ vs[Len(vs)] = r[t].s
  BY DEF Upto, Waiting
<1>3. Events(r)[t].s = r[t].s
  BY <1>1, <1>2 DEF EventAt, B!Event
<1> DEFINE d == Events(r)
           m == t - 1
<1>4. d[m+1].op = "text" /\ d[m+1].s = vs[Len(vs)] /\ m \in Nat /\ Drawing(d, m, el, f)
  BY <1>1, <1>2, <1>3
<1> HIDE DEF d, m
<1>5. Drawing(d, m + 1, el, [f EXCEPT ![el[Len(el)]].value = d[m+1].s])
  <2>1. Len(el) # 0
    OBVIOUS
  <2> QED
    BY <1>4, <2>1, DrawText
<1>6. m + 1 = t
  BY <1>1 DEF m
<1> QED
  BY <1>1, <1>2, <1>4, <1>5, <1>6 DEF d

\* An attribute without a value, and the token after its name is there.
LEMMA UptoName ==
  ASSUME NEW p, NEW vs, NEW el, NEW f, NEW r, NEW t \in Nat,
         Upto(11, p, vs, el, f, r, t), t < Len(r), Len(r) \in Nat, r[t+1].k # 4, Len(el) > 0
  PROVE  /\ Drawing(Events(r), t, el,
                    [f EXCEPT ![el[Len(el)]].attrs = Append(@, <<vs[Len(vs)], Empty>>)])
         /\ Firm(r, t)
<1>1. /\ t - 1 \in Nat /\ (t - 1) + 1 = t /\ t <= Len(r)
      /\ Drawing(Events(r), t - 1, el, f) /\ Firm(r, t - 1)
      /\ Events(r)[t] = EventAt(r, t) /\ Events(r)[t].op = OpAt(r, t)
  BY UptoOne
<1>2. OpAt(r, t) = "attr" /\ vs[Len(vs)] = r[t].s
  BY DEF Upto, Waiting
<1>3. Events(r)[t].s = r[t].s /\ Events(r)[t].v = Empty
  BY <1>1, <1>2 DEF EventAt, B!Event
<1> DEFINE d == Events(r)
           m == t - 1
<1>4. d[m+1].op = "attr" /\ d[m+1].s = vs[Len(vs)] /\ d[m+1].v = Empty /\ m \in Nat
      /\ Drawing(d, m, el, f)
  BY <1>1, <1>2, <1>3
<1> HIDE DEF d, m
<1>5. Drawing(d, m + 1, el,
              [f EXCEPT ![el[Len(el)]].attrs = Append(@, <<d[m+1].s, d[m+1].v>>)])
  <2>1. Len(el) # 0
    OBVIOUS
  <2> QED
    BY <1>4, <2>1, DrawAttr
<1>6. m + 1 = t
  BY <1>1 DEF m
<1>7. Firm(r, t)
  <2>1. \A j \in 1..t : j = t \/ j \in 1..t-1
    BY <1>1
  <2> QED
    BY <1>1, <2>1 DEF Firm
<1> QED
  BY <1>4, <1>5, <1>6, <1>7 DEF d

\* An attribute with its value.
LEMMA UptoValue ==
  ASSUME NEW p, NEW vs, NEW el, NEW f, NEW r, NEW t \in Nat,
         Upto(21, p, vs, el, f, r, t), t <= Len(r), Len(r) \in Nat, Len(el) > 0
  PROVE  /\ Drawing(Events(r), t, el,
                    [f EXCEPT ![el[Len(el)]].attrs = Append(@, <<vs[Len(vs)-2], vs[Len(vs)]>>)])
         /\ Firm(r, t)
<1>1. /\ t >= 3 /\ OpAt(r, t - 2) = "attr" /\ vs[Len(vs) - 2] = r[t-2].s
      /\ r[t-1].k = 4 /\ r[t].k = 9 /\ vs[Len(vs)] = r[t].s
  BY DEF Upto, Waiting
<1>2. Built(21, t) = t - 3
  BY DEF Built
<1>3. Drawing(Events(r), t - 3, el, f) /\ Firm(r, t - 3)
  BY <1>2 DEF Upto
<1> DEFINE d == Events(r)
           m == t - 3
           g == [f EXCEPT ![el[Len(el)]].attrs = Append(@, <<vs[Len(vs)-2], vs[Len(vs)]>>)]
<1>4. /\ m \in Nat /\ m + 1 = t - 2 /\ (m + 1) + 1 = t - 1 /\ (m + 2) + 1 = t /\ m + 1 + 2 = t
      /\ (m + 1) + 1 = m + 2
      /\ t \in 1..Len(r) /\ t - 1 \in 1..Len(r) /\ t - 2 \in 1..Len(r) /\ t - 2 + 1 = t - 1
      /\ t - 2 + 2 = t
  <2>1. t \in Nat /\ t >= 3 /\ t <= Len(r) /\ Len(r) \in Nat
    BY <1>1
  <2> QED
    BY <2>1
<1>5. d[t-2] = EventAt(r, t - 2) /\ d[t-2].op = "attr"
  BY <1>1, <1>4, EventIs
<1>6. d[t-2].s = r[t-2].s /\ d[t-2].v = r[t].s
  <2> DEFINE j == t - 2
  <2>1. j + 2 = t /\ j + 1 = t - 1 /\ j + 2 <= Len(r)
    BY <1>4
  <2>2. OpAt(r, j) = "attr" /\ r[j+1].k = 4 /\ r[j+2].s = r[t].s /\ d[j] = EventAt(r, j)
    BY <1>1, <1>5, <2>1
  <2> HIDE DEF j, d
  <2>3. d[j].s = r[j].s /\ d[j].v = r[j+2].s
    BY <2>1, <2>2 DEF EventAt, B!Event
  <2> QED
    BY <2>2, <2>3 DEF j
<1>7. d[t-1].op = "none" /\ d[t].op = "none"
  <2>1. OpAt(r, t - 1) = "none" /\ OpAt(r, t) = "none"
    BY <1>1 DEF OpAt
  <2> QED
    BY <1>4, <2>1, EventIs
<1>8. Firm(r, t)
  <2>1. \A j \in 1..t : j \in 1..t-3 \/ j = t - 2 \/ j = t - 1 \/ j = t
    BY <1>4
  <2>2. OpAt(r, t - 1) # "attr" /\ OpAt(r, t) # "attr"
    BY <1>1 DEF OpAt
  <2>3. t - 2 < Len(r) /\ t - 2 + 1 < Len(r)
    BY <1>4
  <2> QED
    BY <1>3, <2>1, <2>2, <2>3 DEF Firm
<1>9. d[m+1].op = "attr" /\ d[m+1].s = vs[Len(vs)-2] /\ d[m+1].v = vs[Len(vs)]
  BY <1>1, <1>4, <1>5, <1>6
<1>10. d[(m+1)+1].op = "none" /\ d[(m+2)+1].op = "none"
  BY <1>4, <1>7
<1>11. Drawing(d, m, el, f)
  BY <1>3
<1> HIDE DEF d, m
<1>12. Drawing(d, m + 1, el,
               [f EXCEPT ![el[Len(el)]].attrs = Append(@, <<d[m+1].s, d[m+1].v>>)])
  <2>1. Len(el) # 0
    OBVIOUS
  <2> QED
    BY <1>4, <1>9, <1>11, <2>1, DrawAttr
<1>13. Drawing(d, m + 1, el, g)
  BY <1>9, <1>12
<1> HIDE DEF g
<1>14. m + 1 \in Nat /\ m + 2 \in Nat
  BY <1>4
<1>15. Drawing(d, (m + 1) + 1, el, g)
  BY <1>10, <1>13, <1>14, DrawNone
<1>16. Drawing(d, m + 2, el, g)
  BY <1>4, <1>15
<1>17. Drawing(d, (m + 2) + 1, el, g)
  BY <1>10, <1>14, <1>16, DrawNone
<1> QED
  BY <1>4, <1>8, <1>17 DEF d, g

-----------------------------------------------------------------------------
(* The tree that the generated parser builds. *)

TreeInv ==
  /\ B!Parsing =>
       /\ Upto(Top(yyss), yyss[Len(yyss)-1], yyvs, yyelements, yyforest, read,
               TakenOf(Top(yyss), yychar, read))
       /\ yyroot = IF yyforest = << >> THEN 0 ELSE 1
  /\ yyresult = 0 => yyforest = B!ForestOf(B!Doc) /\ yyforest # << >> /\ yyroot = 1

\* What the invariants say while the parser runs.
LEMMA TreeFacts ==
  ASSUME ParserInv, TreeInv, B!Parsing
  PROVE  LET s == Top(yyss)
             t == TakenOf(s, yychar, read)
         IN  /\ Upto(s, yyss[Len(yyss)-1], yyvs, yyelements, yyforest, read, t)
             /\ yyroot = IF yyforest = << >> THEN 0 ELSE 1
             /\ t \in Nat /\ t <= Len(read) /\ Len(read) \in Nat /\ read \in Seq(Tokens)
             /\ yychar # B!YYEMPTY /\ s # 26 => /\ t + 1 = Len(read) /\ read[t+1] = yychar
             /\ yyvs \in Seq(Strings) /\ yyelements \in Seq(Nat) /\ yyforest \in Seq(Nodes)
<1> DEFINE s == Top(yyss)
           t == TakenOf(s, yychar, read)
<1>1. /\ Typed(yyvs, yyelements, yyforest, yychar, read)
      /\ yychar # B!YYEMPTY => yychar = read[Len(read)] /\ Len(read) > 0
  BY TopFacts
<1>2. read \in Seq(Tokens) /\ Len(read) \in Nat /\ yyvs \in Seq(Strings) /\ yyelements \in Seq(Nat)
      /\ yyforest \in Seq(Nodes)
  BY <1>1 DEF Typed
<1>3. t \in Nat /\ t <= Len(read)
      /\ (yychar # B!YYEMPTY /\ s # 26 => t + 1 = Len(read) /\ read[t+1] = yychar)
  BY <1>1, <1>2 DEF TakenOf
<1> QED
  BY <1>2, <1>3 DEF TreeInv

\* ReadToken
LEMMA TreeReading ==
  ASSUME ParserInv, TreeInv, B!ReadToken
  PROVE  TreeInv'
<1> DEFINE s == Top(yyss)
           p == yyss[Len(yyss)-1]
<1>1. /\ B!Parsing /\ ~ B!Decided
      /\ UNCHANGED <<yyss, yyvs, yystacksize, yyelements, yyforest, yyroot, yyresult>>
  BY DEF B!ReadToken, B!stacks, B!maker
<1>2. yychar = B!YYEMPTY
  BY <1>1 DEF B!Decided
<1>3. PICK t \in B!YYLEX : yychar' = t /\ read' = Append(read, t)
  BY DEF B!ReadToken
<1>4. /\ read \in Seq(Tokens) /\ Len(read) \in Nat
      /\ Upto(s, p, yyvs, yyelements, yyforest, read, TakenOf(s, yychar, read))
      /\ yyroot = IF yyforest = << >> THEN 0 ELSE 1
  BY <1>1, TreeFacts
<1>5. t \in Tokens
  BY <1>3, <1>4 DEF B!YYLEX, B!Token, Tokens, Kinds, Strings, B!START, B!COMMENT, B!END, B!EOF,
     B!DATA, B!NAME, B!VALUE, B!SLASH, B!EQ, B!CLOSE, B!ENDDEF
<1>6. TakenOf(s, yychar, read) = Len(read)
  BY <1>2 DEF TakenOf
<1>7. s # 26
  <2>1. Within(s, p, Len(yyss), yyvs, yyelements, yyforest, yychar, read,
               TakenOf(s, yychar, read))
    BY <1>1, TopFacts
  <2> HIDE DEF s
  <2> QED
    BY <1>2, <2>1 DEF Within, Pending
<1>8. TakenOf(s, t, Append(read, t)) = Len(read)
  <2>1. t # B!YYEMPTY /\ Len(Append(read, t)) = Len(read) + 1
    BY <1>4, <1>5, EmptyToken
  <2> HIDE DEF s
  <2> QED
    BY <1>4, <1>7, <2>1 DEF TakenOf
<1> HIDE DEF s, p
<1>9. Upto(s, p, yyvs, yyelements, yyforest, Append(read, t), Len(read))
  BY <1>4, <1>5, <1>6, UptoRead
<1>10. Upto(s, p, yyvs, yyelements, yyforest, read', TakenOf(s, yychar', read'))
  BY <1>3, <1>8, <1>9
<1>11. Top(yyss') = s /\ yyss'[Len(yyss') - 1] = p
  BY <1>1 DEF s, p
<1> QED
  BY <1>1, <1>4, <1>10, <1>11 DEF TreeInv, B!Parsing

\* Shift
LEMMA TreeShifting ==
  ASSUME ParserInv, TreeInv, B!Shift
  PROVE  TreeInv'
<1> DEFINE s == Top(yyss)
           p == yyss[Len(yyss)-1]
           t == TakenOf(s, yychar, read)
           x == ShiftTo(s, yychar.k)
           z == IF yychar.k = 0 THEN yychar ELSE B!YYEMPTY
<1>1. /\ B!Parsing /\ B!Decided /\ B!ToShift # 0 /\ B!ToShift # 27
      /\ yyvs' = Append(yyvs, yychar.s) /\ B!PushState(yyss, B!ToShift)
      /\ yychar' = z
      /\ UNCHANGED <<yyelements, yyforest, yyroot, read>>
  BY DEF B!Shift, B!maker, B!YYFINAL, B!EOF
<1>2. /\ Len(yyvs) = Len(yyss) /\ Len(yyss) \in Nat \ {0}
      /\ yychar # B!YYEMPTY /\ B!ToShift = x
      /\ s \in States /\ s \in Consulting
      /\ Within(s, p, Len(yyss), yyvs, yyelements, yyforest, yychar, read, t)
      /\ Place(s, p, Len(yyss), Len(yyelements), ModeAt(read, t), DepthAt(read, t))
  <2>1. s \in Consulting
    BY <1>1, TopFacts
  <2> QED
    BY <1>1, <2>1, TopFacts
<1>3. /\ Upto(s, p, yyvs, yyelements, yyforest, read, t)
      /\ yyroot = IF yyforest = << >> THEN 0 ELSE 1
      /\ t \in Nat /\ Len(read) \in Nat /\ read \in Seq(Tokens)
      /\ s # 26 => t + 1 = Len(read) /\ read[t+1] = yychar
      /\ yyvs \in Seq(Strings) /\ yyelements \in Seq(Nat)
  BY <1>1, <1>2, TreeFacts
<1>4. Pending(s, yychar, ModeAt(read, t))
  BY <1>2 DEF Within
<1>5. x \notin {0, 27}
  BY <1>1, <1>2
<1>6. s # 26
  <2>1. s = 26 => yychar.k = 0
    BY <1>4 DEF Pending
  <2> QED
    BY <1>5, <2>1 DEF ShiftTo
<1>7. t + 1 = Len(read) /\ read[t+1] = yychar
  BY <1>3, <1>6
<1>8. Upto(x, s, Append(yyvs, yychar.s), yyelements, yyforest, read, t + 1)
  <2>1. s = 8 /\ ModeAt(read, t) = "attr" => read[t+1].k # 4
    BY <1>4, <1>7 DEF Pending
  <2>2. t + 1 \in 1..Len(read) /\ x = ShiftTo(s, read[t+1].k) /\ yychar.s = read[t+1].s
        /\ Place(s, p, Len(yyvs), Len(yyelements), ModeAt(read, t), DepthAt(read, t))
    BY <1>2, <1>3, <1>7
  <2> HIDE DEF s, p, t, x
  <2> QED
    BY <1>2, <1>3, <1>5, <2>1, <2>2, UptoShift
<1>9. TakenOf(x, z, read) = t + 1
  <2>1. x = 26 => yychar.k = 0
    BY <1>6 DEF ShiftTo
  <2>2. yychar.k = 0 => x = 26
    BY <1>2, <1>5, <1>6 DEF ShiftTo, Consulting
  <2> HIDE DEF x, s, t
  <2> QED
    BY <1>7, <2>1, <2>2 DEF TakenOf
<1> HIDE DEF x, z
<1>10. x \in States
  <2>1. x \in 0..27
    BY DEF ShiftTo, x
  <2> QED
    BY <1>5, <2>1 DEF States
<1>11. /\ yyss' = Append(yyss, x)
       /\ B!Parsing' \/ yyresult' = 2
  <2>1. StackInv /\ yyss \in Seq(States) /\ Len(yyss) <= Len(yyss)
    BY <1>2 DEF ParserInv, StackInv
  <2> QED
    BY <1>1, <1>2, <1>10, <2>1, PushKeeps
<1>12. Top(yyss') = x /\ yyss'[Len(yyss') - 1] = s
  <2>1. yyss \in Seq(States)
    BY DEF ParserInv, StackInv
  <2>2. Len(yyss') = Len(yyss) + 1 /\ yyss'[Len(yyss) + 1] = x /\ yyss'[Len(yyss)] = yyss[Len(yyss)]
    BY <1>2, <1>10, <1>11, <2>1
  <2>3. Len(yyss') - 1 = Len(yyss)
    BY <1>2, <2>2
  <2> QED
    BY <2>2, <2>3 DEF Top, s
<1>13. Upto(Top(yyss'), yyss'[Len(yyss')-1], yyvs', yyelements', yyforest', read',
            TakenOf(Top(yyss'), yychar', read'))
  <2> HIDE DEF s, t
  <2> QED
    BY <1>1, <1>8, <1>9, <1>12
<1>14. yyresult' # 0
  BY <1>11 DEF B!Parsing
<1>15. yyroot' = IF yyforest' = << >> THEN 0 ELSE 1
  BY <1>1, <1>3
<1> HIDE DEF s, t, p
<1> QED
  BY <1>13, <1>14, <1>15 DEF TreeInv

\* Accept: all events are in the tree.
LEMMA TreeAccepting ==
  ASSUME ParserInv, TreeInv, B!Accept
  PROVE  TreeInv'
<1> DEFINE s == Top(yyss)
           t == TakenOf(s, yychar, read)
<1>1. /\ B!Parsing /\ B!Decided /\ B!ToShift = 27 /\ yyresult' = 0
      /\ UNCHANGED <<yyss, yyvs, yystacksize, yychar, yyelements, yyforest, yyroot, read>>
  BY DEF B!Accept, B!stacks, B!maker, B!YYFINAL
<1>2. s \in Consulting /\ B!ToShift = ShiftTo(s, yychar.k)
  BY <1>1, TopFacts
<1>3. s = 26
  <2> HIDE DEF s
  <2> QED
    BY <1>1, <1>2 DEF ShiftTo
<1>4. /\ Upto(s, yyss[Len(yyss)-1], yyvs, yyelements, yyforest, read, t)
      /\ yyroot = IF yyforest = << >> THEN 0 ELSE 1
      /\ read \in Seq(Tokens) /\ Len(read) \in Nat
  BY <1>1, TreeFacts
<1>5. t = Len(read) /\ Built(s, t) = t
  BY <1>3 DEF TakenOf, Built
<1> HIDE DEF s, t
<1>6. Drawing(Events(read), Len(read), yyelements, yyforest)
  BY <1>4, <1>5 DEF Upto
<1>7. yyforest # << >>
  <2>1. ~ Fresh(s, yyss[Len(yyss)-1])
    BY <1>3 DEF Fresh
  <2> QED
    BY <1>4, <2>1 DEF Upto
<1>8. yyforest = B!ForestOf(B!Doc)
  <2>1. PICK at : Grown(Events(read), Len(read), yyforest, at)
    BY <1>6 DEF Drawing
  <2> DEFINE E == {EventAt(read, j) : j \in 1..Len(read)}
  <2>2. Events(read) \in [1..Len(read) -> E]
    BY DEF Events
  <2> HIDE DEF E
  <2>3. Events(read) \in Seq(E) /\ Len(Events(read)) = Len(read)
    BY <1>4, <2>2
  <2>4. yyforest = B!ForestOf(Events(read))
    BY <2>1, <2>3, GrownIs
  <2> QED
    BY <1>4, <2>4, DocIs
<1>9. B!Doc' = B!Doc
  BY <1>1 DEF B!Doc
<1>10. ~ B!Parsing'
  BY <1>1 DEF B!Parsing
<1>11. yyforest' = yyforest /\ yyforest' # << >> /\ yyroot' = 1
  BY <1>1, <1>4, <1>7
<1>12. yyforest' = B!ForestOf(B!Doc)'
  BY <1>8, <1>9, <1>11
<1> QED
  BY <1>10, <1>11, <1>12 DEF TreeInv

\* Where a reduction leads to.
LEMMA Reduced ==
  ASSUME ParserInv, NEW n, B!Reducing(n), NEW g, NEW eo, NEW v, B!Reduce(n, g, eo, v), n # 0
  PROVE  \E k, rr, x :
           /\ Moves(Top(yyss), Len(yyss), yyss[Len(yyss)-1], k, rr, x)
           /\ Top(yyss') = x /\ yyss'[Len(yyss')-1] = rr
           /\ B!Parsing' \/ yyresult' = 2
           /\ yyforest' = g /\ yyelements' = eo /\ UNCHANGED <<yychar, read>>
<1> DEFINE s == Top(yyss)
           k == Symbols(n)
           l == Len(yyss) - k
           x == Led(n, yyss[l])
<1>1. B!Parsing /\ B!Decided /\ B!ToShift = 0 /\ B!ToReduce = n
  BY DEF B!Reducing
<1>2. /\ Typed(yyvs, yyelements, yyforest, yychar, read) /\ Path(yyss)
      /\ Len(yyvs) = Len(yyss) /\ Len(yyss) \in Nat \ {0} /\ n = ReduceBy(s)
  BY <1>1, TopFacts
<1>3. /\ n \in 1..17 /\ k \in Nat /\ k < Len(yyss)
      /\ Moves(s, Len(yyss), yyss[Len(yyss)-1], k, yyss[l], x)
  BY <1>2, ReduceMoves
<1>4. B!At(B!yyr2, n) = k
  BY <1>3, SymbolTable
<1>5. yyss \in Seq(States)
  BY DEF ParserInv, StackInv
<1> DEFINE ss == SubSeq(yyss, 1, l)
<1>6. ss \in Seq(States) /\ Len(ss) = l /\ ss[l] = yyss[l] /\ l \in Nat /\ l <= Len(yyss)
  <2>1. l \in Nat /\ l <= Len(yyss) /\ l \in 1..l /\ \A i \in 1..l : i \in 1..Len(yyss)
    BY <1>2, <1>3
  <2> HIDE DEF l
  <2> QED
    BY <1>5, <2>1
<1>7. /\ B!PushState(ss, x)
      /\ yyforest' = g /\ yyelements' = eo /\ UNCHANGED <<yychar, read>>
  <2>1. /\ B!PushState(ss, B!Entry(B!At(B!yypgoto, B!At(B!yyr1, n) - B!YYNTBASE) + B!Last(ss),
                                   B!Last(ss), B!At(B!yydefgoto, B!At(B!yyr1, n) - B!YYNTBASE)))
        /\ yyforest' = g /\ yyelements' = eo /\ UNCHANGED <<yychar, read>>
    <3> HIDE DEF x
    <3> QED
      BY <1>4 DEF B!Reduce
  <2>2. B!Last(ss) = yyss[l]
    <3> HIDE DEF ss, l
    <3> QED
      BY <1>6 DEF B!Last
  <2> HIDE DEF ss, l
  <2> QED
    BY <1>6, <2>1, <2>2 DEF Led
<1>8. x \in States
  <2> HIDE DEF x, s, l, k
  <2> QED
    BY <1>3 DEF Moves, States
<1> HIDE DEF s, l, x, ss, k
<1>9. /\ yyss' = Append(ss, x) /\ Len(yyss') = l + 1
      /\ B!Parsing' \/ yyresult' = 2
  <2>1. StackInv /\ Len(ss) <= Len(yyss)
    BY <1>2, <1>3, <1>6 DEF ParserInv
  <2> QED
    BY <1>1, <1>6, <1>7, <1>8, <2>1, PushKeeps
<1>10. Top(yyss') = x /\ yyss'[Len(yyss')-1] = yyss[l]
  <2>1. l \in 1..l /\ (l + 1) - 1 = l
    BY <1>2, <1>3, <1>6 DEF l
  <2> QED
    BY <1>6, <1>8, <1>9, <2>1 DEF Top
<1> QED
  BY <1>3, <1>7, <1>9, <1>10 DEF s

\* A reduction after which the tree has all events keeps the invariant.
LEMMA TreeReducing ==
  ASSUME ParserInv, TreeInv, NEW n, B!Reducing(n), n # 0,
         NEW g, NEW eo, NEW v, B!Reduce(n, g, eo, v),
         Drawing(Events(read), TakenOf(Top(yyss), yychar, read), eo, g),
         Firm(read, TakenOf(Top(yyss), yychar, read)),
         g = << >> <=> yyforest = << >> /\ Top(yyss) # 3,
         yyroot' = IF g = << >> THEN 0 ELSE 1
  PROVE  TreeInv'
<1> DEFINE s == Top(yyss)
           p == yyss[Len(yyss)-1]
           t == TakenOf(s, yychar, read)
<1>1. PICK k, rr, x :
           /\ Moves(s, Len(yyss), p, k, rr, x)
           /\ Top(yyss') = x /\ yyss'[Len(yyss')-1] = rr
           /\ B!Parsing' \/ yyresult' = 2
           /\ yyforest' = g /\ yyelements' = eo /\ UNCHANGED <<yychar, read>>
  BY Reduced
<1>2. Upto(s, p, yyvs, yyelements, yyforest, read, t) /\ t \in Nat
  BY TreeFacts DEF B!Reducing
<1> HIDE DEF p
<1>3. s # 26 /\ x # 26
  <2> HIDE DEF s
  <2> QED
    BY <1>1 DEF Moves
<1>4. TakenOf(x, yychar, read) = t
  <2> HIDE DEF s
  <2> QED
    BY <1>3 DEF TakenOf
<1>5. Upto(x, rr, yyvs', eo, g, read, t)
  <2> HIDE DEF s, t
  <2>1. Drawing(Events(read), t, eo, g) /\ Firm(read, t) /\ (g = << >> <=> yyforest = << >> /\ s # 3)
    BY DEF s, t
  <2> QED
    BY <1>1, <1>2, <2>1, UptoReduce
<1> HIDE DEF s, t
<1>6. Upto(Top(yyss'), yyss'[Len(yyss')-1], yyvs', yyelements', yyforest', read',
           TakenOf(Top(yyss'), yychar', read'))
  BY <1>1, <1>4, <1>5
<1>7. yyresult' # 0
  BY <1>1 DEF B!Parsing
<1>8. yyroot' = IF yyforest' = << >> THEN 0 ELSE 1
  BY <1>1
<1> QED
  BY <1>6, <1>7, <1>8 DEF TreeInv

-----------------------------------------------------------------------------
\* Before the first token.
LEMMA TreeInit ==
  ASSUME B!Init
  PROVE  TreeInv
<1>1. /\ yyss = <<0>> /\ yyvs = <<NULL>> /\ yychar = B!YYEMPTY
      /\ yyelements = << >> /\ yyforest = << >> /\ yyroot = 0 /\ yyresult = -1 /\ read = << >>
  BY DEF B!Init
<1>2. Top(yyss) = 0 /\ TakenOf(0, yychar, read) = 0
  BY <1>1 DEF Top, TakenOf
<1>3. Built(0, 0) = 0
  BY DEF Built
<1>4. Drawing(Events(read), 0, yyelements, yyforest)
  BY <1>1, DrawStart
<1>5. Firm(read, 0)
  <2>1. 1..0 = {}
    OBVIOUS
  <2> QED
    BY <2>1 DEF Firm
<1>6. ASSUME NEW p PROVE Upto(0, p, yyvs, yyelements, yyforest, read, 0)
  BY <1>1, <1>3, <1>4, <1>5 DEF Upto, Waiting, Fresh
<1>7. Upto(Top(yyss), yyss[Len(yyss)-1], yyvs, yyelements, yyforest, read,
           TakenOf(Top(yyss), yychar, read))
  BY <1>2, <1>6
<1> QED
  BY <1>1, <1>7 DEF TreeInv

\* The rest of the system leaves the tree alone.
LEMMA TreeSame ==
  ASSUME TreeInv, UNCHANGED bison
  PROVE  TreeInv'
<1>1. UNCHANGED <<yyss, yyvs, yychar, yyelements, yyforest, yyroot, yyresult, read>>
  BY DEF bison
<1> QED
  BY <1>1 DEF TreeInv, B!Parsing, B!Doc

\* An error of the document ends it.
LEMMA TreeAborting ==
  ASSUME B!Abort
  PROVE  TreeInv'
<1>1. yyresult' = 1
  BY DEF B!Abort
<1> QED
  BY <1>1 DEF TreeInv, B!Parsing

\* What the rules find: the open element and the events so far.
LEMMA TreeFound ==
  ASSUME ParserInv, TreeInv, NEW n, B!Reducing(n), n # 0
  PROVE  LET s == Top(yyss)
             t == TakenOf(s, yychar, read)
         IN  /\ n = ReduceBy(s)
             /\ Upto(s, yyss[Len(yyss)-1], yyvs, yyelements, yyforest, read, t)
             /\ yyroot = IF yyforest = << >> THEN 0 ELSE 1
             /\ t \in Nat /\ t <= Len(read) /\ Len(read) \in Nat
             /\ yyforest \in Seq(Nodes) /\ Len(yyforest) \in Nat /\ Len(yyelements) \in Nat
             /\ yyforest = << >> <=> Len(yyforest) = 0
             /\ B!Val(0) = yyvs[Len(yyvs)] /\ B!Val(2) = yyvs[Len(yyvs) - 2]
             /\ B!AssertNode <=> Len(yyelements) > 0
             /\ B!Node = yyelements[Len(yyelements)]
             /\ Len(yyelements) > 0 => B!Node \in 1..Len(yyforest)
             /\ B!Front(yyelements) = SubSeq(yyelements, 1, Len(yyelements) - 1)
<1>1. B!Parsing
  BY DEF B!Reducing
<1>2. B!Val(2) = yyvs[Len(yyvs) - 2]
  BY DEF B!Val
<1>3. yyforest \in Seq(Nodes) /\ yyelements \in Seq(Nat)
  BY Found
<1>4. Len(yyforest) \in Nat /\ Len(yyelements) \in Nat /\ (yyforest = << >> <=> Len(yyforest) = 0)
  BY <1>3
<1> QED
  BY <1>1, <1>2, <1>3, <1>4, Found, TreeFacts

\* comment: COMMENT
LEMMA TreeCommenting ==
  ASSUME ParserInv, TreeInv, B!ReduceComment
  PROVE  TreeInv'
<1> DEFINE s == Top(yyss)
           t == TakenOf(s, yychar, read)
           made == Append(yyforest, B!domnode(Comment, B!Val(0)))
           g == IF B!AssertNode THEN B!AppendChild(made, B!Node, Len(made)) ELSE yyforest
           h == IF Len(yyelements) = 0 THEN yyforest
                ELSE B!AppendChild(made, yyelements[Len(yyelements)], Len(yyforest) + 1)
<1>1. B!Reducing(4) /\ B!Reduce(4, g, yyelements, B!Val(0)) /\ yyroot' = yyroot
  BY DEF B!ReduceComment
<1>2. /\ 4 = ReduceBy(s)
      /\ Upto(s, yyss[Len(yyss)-1], yyvs, yyelements, yyforest, read, t)
      /\ yyroot = IF yyforest = << >> THEN 0 ELSE 1
      /\ t \in Nat /\ t <= Len(read) /\ Len(read) \in Nat
      /\ yyforest \in Seq(Nodes) /\ Len(yyforest) \in Nat /\ Len(yyelements) \in Nat
      /\ yyforest = << >> <=> Len(yyforest) = 0
      /\ B!Val(0) = yyvs[Len(yyvs)]
      /\ B!AssertNode <=> Len(yyelements) > 0
      /\ B!Node = yyelements[Len(yyelements)]
      /\ Len(yyelements) > 0 => B!Node \in 1..Len(yyforest)
  BY <1>1, TreeFound
<1>3. s = 2
  <2> HIDE DEF s
  <2> QED
    BY <1>2 DEF ReduceBy
<1>4. B!Val(0) \in Strings
  <2>1. 0 \in 0..17 /\ 0 < Symbols(4)
    BY DEF Symbols
  <2> QED
    BY <1>1, <2>1, Found
<1>5. made \in Seq(Nodes) /\ Len(made) = Len(yyforest) + 1
  <2>1. Comment \in Strings
    BY DEF Strings
  <2> QED
    BY <1>2, <1>4, <2>1, NodeMade
<1>6. Drawing(Events(read), t, yyelements, h) /\ Firm(read, t)
  <2>1. made = Append(yyforest, B!domnode(Comment, yyvs[Len(yyvs)]))
    BY <1>2
  <2> HIDE DEF s, t, made
  <2> QED
    BY <1>2, <1>3, <2>1, UptoComment
<1> HIDE DEF made
<1>7. g = h
  BY <1>2, <1>5
<1>8. g = << >> <=> yyforest = << >>
  <2>1. CASE B!AssertNode
    <3>1. B!Node \in 1..Len(made) /\ Len(made) \in Nat
      BY <1>2, <1>5, <2>1
    <3>2. Kept(made, B!AppendChild(made, B!Node, Len(made)))
      BY <1>5, <3>1, ChildAppended
    <3>3. Len(g) = Len(yyforest) + 1
      BY <1>5, <2>1, <3>2 DEF Kept
    <3>4. Len(yyforest) # 0
      BY <1>2, <2>1
    <3>5. Len(<< >>) = 0
      OBVIOUS
    <3> QED
      BY <1>2, <3>3, <3>4, <3>5
  <2>2. CASE ~ B!AssertNode
    BY <2>2
  <2> QED
    BY <2>1, <2>2
<1>9. Drawing(Events(read), t, yyelements, g)
  BY <1>6, <1>7
<1> HIDE DEF g, h
<1>10. g = << >> <=> yyforest = << >> /\ Top(yyss) # 3
  BY <1>3, <1>8
<1>11. yyroot' = IF g = << >> THEN 0 ELSE 1
  BY <1>1, <1>2, <1>8
<1> QED
  BY <1>1, <1>6, <1>9, <1>10, <1>11, TreeReducing

\* element: START
LEMMA TreeStarting ==
  ASSUME ParserInv, TreeInv, B!ReduceStart
  PROVE  TreeInv'
<1> DEFINE s == Top(yyss)
           p == yyss[Len(yyss)-1]
           t == TakenOf(s, yychar, read)
           made == Append(yyforest, B!domnode(B!Val(0), NULL))
           n == Len(made)
           g == IF B!AssertNode THEN B!AppendChild(made, B!Node, n) ELSE made
           h == IF Len(yyelements) = 0 THEN made
                ELSE B!AppendChild(made, yyelements[Len(yyelements)], Len(yyforest) + 1)
<1>1. /\ B!Reducing(5) /\ B!Reduce(5, g, Append(yyelements, n), NULL)
      /\ yyroot' = IF B!AssertNode THEN yyroot ELSE n
  BY DEF B!ReduceStart
<1>2. /\ 5 = ReduceBy(s)
      /\ Upto(s, p, yyvs, yyelements, yyforest, read, t)
      /\ yyroot = IF yyforest = << >> THEN 0 ELSE 1
      /\ t \in Nat /\ t <= Len(read) /\ Len(read) \in Nat
      /\ yyforest \in Seq(Nodes) /\ Len(yyforest) \in Nat /\ Len(yyelements) \in Nat
      /\ yyforest = << >> <=> Len(yyforest) = 0
      /\ B!Val(0) = yyvs[Len(yyvs)]
      /\ B!AssertNode <=> Len(yyelements) > 0
      /\ B!Node = yyelements[Len(yyelements)]
      /\ Len(yyelements) > 0 => B!Node \in 1..Len(yyforest)
  BY <1>1, TreeFound
<1>3. s = 3
  <2> HIDE DEF s
  <2> QED
    BY <1>2 DEF ReduceBy
<1>4. B!Val(0) \in Strings
  <2>1. /\ Len(yyvs) = Len(yyss) /\ Len(yyss) \in Nat \ {0}
        /\ Typed(yyvs, yyelements, yyforest, yychar, read)
    BY <1>1, TopFacts DEF B!Reducing
  <2>2. yyvs \in Seq(Strings) /\ Len(yyvs) \in 1..Len(yyvs)
    BY <2>1 DEF Typed
  <2> QED
    BY <1>2, <2>2
<1>5. made \in Seq(Nodes) /\ n = Len(yyforest) + 1
  <2>1. NULL \in Strings
    BY DEF Strings
  <2> QED
    BY <1>2, <1>4, <2>1, NodeMade
<1>6. Drawing(Events(read), t, Append(yyelements, Len(yyforest) + 1), h) /\ Firm(read, t)
  <2>1. made = Append(yyforest, B!domnode(yyvs[Len(yyvs)], NULL))
    BY <1>2
  <2> HIDE DEF s, p, t, made
  <2> QED
    BY <1>2, <1>3, <2>1, UptoStart
<1>7. Len(yyelements) = 0 => yyforest = << >>
  <2> HIDE DEF s, p, t
  <2>1. p = 1 \/ Len(yyelements) # 0
    BY <1>2, <1>3 DEF Upto
  <2>2. yyforest = << >> <=> Fresh(s, p)
    BY <1>2 DEF Upto
  <2> QED
    BY <1>3, <2>1, <2>2 DEF Fresh
<1> HIDE DEF made, n
<1>8. g = h
  BY <1>2, <1>5
<1>9. g # << >>
  <2>1. CASE B!AssertNode
    <3>1. B!Node \in 1..Len(made) /\ n \in Nat
      BY <1>2, <1>5, <2>1 DEF n
    <3>2. Kept(made, B!AppendChild(made, B!Node, n))
      BY <1>5, <3>1, ChildAppended
    <3>3. Len(g) = Len(yyforest) + 1
      BY <1>5, <2>1, <3>2 DEF Kept, n
    <3>4. Len(<< >>) = 0
      OBVIOUS
    <3> QED
      BY <1>2, <3>3, <3>4
  <2>2. CASE ~ B!AssertNode
    <3>1. Len(<< >>) = 0
      OBVIOUS
    <3> QED
      BY <1>2, <1>5, <2>2, <3>1 DEF n
  <2> QED
    BY <2>1, <2>2
<1>10. Drawing(Events(read), t, Append(yyelements, n), g)
  BY <1>5, <1>6, <1>8
<1>11. yyroot' = 1
  BY <1>1, <1>2, <1>5, <1>7
<1> HIDE DEF g, h
<1>12. g = << >> <=> yyforest = << >> /\ Top(yyss) # 3
  BY <1>3, <1>9
<1>13. yyroot' = IF g = << >> THEN 0 ELSE 1
  BY <1>9, <1>11
<1> DEFINE eo == Append(yyelements, n)
<1>14. B!Reducing(5) /\ B!Reduce(5, g, eo, NULL) /\ Drawing(Events(read), t, eo, g)
  BY <1>1, <1>10
<1> HIDE DEF eo
<1> QED
  BY <1>6, <1>12, <1>13, <1>14, TreeReducing

\* An element is closed, by a slash or by an end tag of its name.
LEMMA TreeClosing ==
  ASSUME ParserInv, TreeInv, B!ReduceEmpty \/ B!ReduceEnd
  PROVE  TreeInv'
<1>1. ASSUME NEW n \in {7, 8}, B!Reducing(n), B!AssertNode, NEW v,
             B!Reduce(n, yyforest, B!Front(yyelements), v), yyroot' = yyroot
      PROVE  TreeInv'
  <2> DEFINE s == Top(yyss)
             p == yyss[Len(yyss)-1]
             t == TakenOf(s, yychar, read)
  <2>0. n # 0
    BY <1>1
  <2>1. /\ n = ReduceBy(s)
        /\ Upto(s, p, yyvs, yyelements, yyforest, read, t)
        /\ yyroot = IF yyforest = << >> THEN 0 ELSE 1
        /\ t \in Nat /\ t <= Len(read) /\ Len(read) \in Nat
        /\ B!AssertNode <=> Len(yyelements) > 0
        /\ B!Front(yyelements) = SubSeq(yyelements, 1, Len(yyelements) - 1)
    BY <1>1, <2>0, TreeFound
  <2> HIDE DEF s, p, t
  <2>2. s \in {14, 24}
    BY <2>1 DEF ReduceBy
  <2>3. Drawing(Events(read), t, B!Front(yyelements), yyforest) /\ Firm(read, t)
    BY <1>1, <2>1, <2>2, UptoClose
  <2>4. yyforest = << >> <=> yyforest = << >> /\ s # 3
    BY <2>2
  <2>5. yyroot' = IF yyforest = << >> THEN 0 ELSE 1
    BY <1>1, <2>1
  <2> QED
    BY <1>1, <2>0, <2>3, <2>4, <2>5, TreeReducing DEF s, t
<1>2. CASE B!ReduceEmpty
  BY <1>1, <1>2 DEF B!ReduceEmpty
<1>3. CASE B!ReduceEnd
  <2>1. CASE yyforest[B!Node].name = B!Val(1)
    BY <1>1, <1>3, <2>1 DEF B!ReduceEnd
  <2>2. CASE yyforest[B!Node].name # B!Val(1)
    BY <1>3, <2>2, TreeAborting DEF B!ReduceEnd
  <2> QED
    BY <2>1, <2>2
<1> QED
  BY <1>2, <1>3

\* content: content DATA
LEMMA TreeFilling ==
  ASSUME ParserInv, TreeInv, B!ReduceData
  PROVE  TreeInv'
<1> DEFINE s == Top(yyss)
           p == yyss[Len(yyss)-1]
           t == TakenOf(s, yychar, read)
           g == [yyforest EXCEPT ![B!Node].value = B!Val(0)]
<1>1. B!Reducing(9) /\ B!Reduce(9, g, yyelements, B!Val(1)) /\ B!AssertNode /\ yyroot' = yyroot
  BY DEF B!ReduceData
<1>2. /\ 9 = ReduceBy(s)
      /\ Upto(s, p, yyvs, yyelements, yyforest, read, t)
      /\ yyroot = IF yyforest = << >> THEN 0 ELSE 1
      /\ t \in Nat /\ t <= Len(read) /\ Len(read) \in Nat
      /\ yyforest \in Seq(Nodes) /\ Len(yyforest) \in Nat
      /\ yyforest = << >> <=> Len(yyforest) = 0
      /\ B!Val(0) = yyvs[Len(yyvs)] /\ Len(yyelements) > 0
      /\ B!Node = yyelements[Len(yyelements)] /\ B!Node \in 1..Len(yyforest)
  BY <1>1, TreeFound
<1>3. B!Val(0) \in Strings
  <2>1. 0 \in 0..17 /\ 0 < Symbols(9)
    BY DEF Symbols
  <2> QED
    BY <1>1, <2>1, Found
<1>4. Kept(yyforest, g)
  BY <1>2, <1>3, ValueSet
<1> HIDE DEF s, p, t
<1>5. s = 18
  BY <1>2 DEF ReduceBy
<1>6. Drawing(Events(read), t, yyelements, g) /\ Firm(read, t)
  BY <1>2, <1>5, UptoData
<1> HIDE DEF g
<1>7. g # << >> /\ yyforest # << >>
  <2>1. Len(g) = Len(yyforest) /\ Len(yyforest) # 0 /\ Len(<< >>) = 0
    BY <1>2, <1>4 DEF Kept
  <2> QED
    BY <2>1
<1> QED
  BY <1>1, <1>2, <1>6, <1>7, TreeReducing DEF s, t

\* attribute: NAME, and NAME EQ VALUE
LEMMA TreeDescribing ==
  ASSUME ParserInv, TreeInv, B!ReduceAttribute
  PROVE  TreeInv'
<1> DEFINE s == Top(yyss)
           p == yyss[Len(yyss)-1]
           t == TakenOf(s, yychar, read)
<1>1. ASSUME NEW n \in {16, 17}, B!Reducing(n), NEW name \in Strings, NEW value \in Strings,
             B!Reduce(n, B!domnode_attribute(name, value), yyelements, name),
             Drawing(Events(read), t, yyelements, B!domnode_attribute(name, value)), Firm(read, t),
             B!AssertNode, yyroot' = yyroot
      PROVE  TreeInv'
  <2> DEFINE g == B!domnode_attribute(name, value)
  <2>0. n # 0
    BY <1>1
  <2>1. /\ yyroot = IF yyforest = << >> THEN 0 ELSE 1
        /\ yyforest \in Seq(Nodes) /\ Len(yyforest) \in Nat
        /\ yyforest = << >> <=> Len(yyforest) = 0
        /\ B!Node \in 1..Len(yyforest)
    BY <1>1, <2>0, TreeFound
  <2>2. Kept(yyforest, g)
    <3>1. <<name, value>> \in Strings \X Strings
      OBVIOUS
    <3>2. g = [yyforest EXCEPT ![B!Node].attrs = Append(@, <<name, value>>)]
      BY DEF B!domnode_attribute
    <3> HIDE DEF g
    <3> QED
      BY <2>1, <3>1, <3>2, AttributeAdded
  <2>3. Drawing(Events(read), TakenOf(Top(yyss), yychar, read), yyelements, g)
        /\ Firm(read, TakenOf(Top(yyss), yychar, read)) /\ B!Reduce(n, g, yyelements, name)
    BY <1>1
  <2> HIDE DEF g
  <2>4. g # << >> /\ yyforest # << >>
    <3>1. Len(g) = Len(yyforest) /\ Len(yyforest) # 0 /\ Len(<< >>) = 0
      BY <2>1, <2>2 DEF Kept
    <3> QED
      BY <3>1
  <2>5. yyroot' = IF g = << >> THEN 0 ELSE 1
    BY <1>1, <2>1, <2>4
  <2>6. g = << >> <=> yyforest = << >> /\ Top(yyss) # 3
    BY <2>4
  <2> QED
    BY <1>1, <2>0, <2>3, <2>5, <2>6, TreeReducing
<1>2. CASE B!Reducing(16) /\ B!Reduce(16, B!domnode_attribute(B!Val(0), Empty), yyelements, B!Val(0))
  <2>1. B!AssertNode /\ yyroot' = yyroot /\ B!Parsing /\ B!Decided /\ B!ToShift = 0
    BY <1>2 DEF B!ReduceAttribute, B!Reducing
  <2>2. B!Val(0) \in Strings /\ Empty \in Strings
    <3>1. 0 \in 0..17 /\ 0 < Symbols(16)
      BY DEF Symbols
    <3> QED
      BY <1>2, <3>1, Found DEF Strings
  <2>3. /\ 16 = ReduceBy(s)
        /\ Upto(s, p, yyvs, yyelements, yyforest, read, t)
        /\ t \in Nat /\ Len(read) \in Nat
        /\ B!Val(0) = yyvs[Len(yyvs)] /\ Len(yyelements) > 0
        /\ B!Node = yyelements[Len(yyelements)]
    BY <1>2, <2>1, TreeFound
  <2>4. yychar # B!YYEMPTY /\ s # 26 => t + 1 = Len(read) /\ read[t+1] = yychar
    BY <2>1, TreeFacts
  <2>5. s \in Consulting => yychar # B!YYEMPTY /\ B!ToShift = ShiftTo(s, yychar.k)
    BY <2>1, TopFacts
  <2> HIDE DEF s, p, t
  <2>6. s = 11
    BY <2>3 DEF ReduceBy
  <2>7. yychar # B!YYEMPTY /\ yychar.k # 4
    BY <2>1, <2>5, <2>6 DEF Consulting, ShiftTo
  <2>8. t < Len(read) /\ read[t+1].k # 4
    BY <2>3, <2>4, <2>6, <2>7
  <2>9. /\ Drawing(Events(read), t, yyelements,
                   [yyforest EXCEPT ![yyelements[Len(yyelements)]].attrs =
                                      Append(@, <<yyvs[Len(yyvs)], Empty>>)])
        /\ Firm(read, t)
    BY <2>3, <2>6, <2>8, UptoName
  <2>10. Drawing(Events(read), t, yyelements, B!domnode_attribute(B!Val(0), Empty))
    BY <2>3, <2>9 DEF B!domnode_attribute
  <2> QED
    BY <1>1, <1>2, <2>1, <2>2, <2>9, <2>10
<1>3. CASE B!Reducing(17) /\ B!Reduce(17, B!domnode_attribute(B!Val(2), B!Val(0)), yyelements, B!Val(2))
  <2>1. B!AssertNode /\ yyroot' = yyroot
    BY <1>3 DEF B!ReduceAttribute
  <2>2. B!Val(0) \in Strings /\ B!Val(2) \in Strings
    <3>1. 0 \in 0..17 /\ 0 < Symbols(17) /\ 2 \in 0..17 /\ 2 < Symbols(17)
      BY DEF Symbols
    <3> QED
      BY <1>3, <3>1, Found
  <2>3. /\ 17 = ReduceBy(s)
        /\ Upto(s, p, yyvs, yyelements, yyforest, read, t)
        /\ t \in Nat /\ t <= Len(read) /\ Len(read) \in Nat
        /\ B!Val(0) = yyvs[Len(yyvs)] /\ B!Val(2) = yyvs[Len(yyvs) - 2] /\ Len(yyelements) > 0
        /\ B!Node = yyelements[Len(yyelements)]
    BY <1>3, <2>1, TreeFound
  <2> HIDE DEF s, p, t
  <2>4. s = 21
    BY <2>3 DEF ReduceBy
  <2>5. /\ Drawing(Events(read), t, yyelements,
                   [yyforest EXCEPT ![yyelements[Len(yyelements)]].attrs =
                                      Append(@, <<yyvs[Len(yyvs)-2], yyvs[Len(yyvs)]>>)])
        /\ Firm(read, t)
    BY <2>3, <2>4, UptoValue
  <2>6. Drawing(Events(read), t, yyelements, B!domnode_attribute(B!Val(2), B!Val(0)))
    BY <2>3, <2>5 DEF B!domnode_attribute
  <2> QED
    BY <1>1, <1>3, <2>1, <2>2, <2>5, <2>6
<1> QED
  BY <1>2, <1>3 DEF B!ReduceAttribute

\* The rules without an action.
LEMMA TreePassing ==
  ASSUME ParserInv, TreeInv, B!ReduceOther
  PROVE  TreeInv'
<1> DEFINE s == Top(yyss)
           p == yyss[Len(yyss)-1]
           t == TakenOf(s, yychar, read)
<1>1. PICK n \in {1, 2, 3, 6, 10, 11, 12, 13, 14, 15} :
        /\ B!Reducing(n)
        /\ B!Reduce(n, yyforest, yyelements,
                    IF B!At(B!yyr2, n) = 0 THEN NULL ELSE B!Val(B!At(B!yyr2, n) - 1))
  BY DEF B!ReduceOther
<1>2. yyroot' = yyroot /\ n # 0
  BY <1>1 DEF B!ReduceOther
<1> DEFINE v == IF B!At(B!yyr2, n) = 0 THEN NULL ELSE B!Val(B!At(B!yyr2, n) - 1)
<1>3. /\ n = ReduceBy(s)
      /\ Upto(s, p, yyvs, yyelements, yyforest, read, t)
      /\ yyroot = IF yyforest = << >> THEN 0 ELSE 1
      /\ t \in Nat
  BY <1>1, <1>2, TreeFound
<1>4. s \in States
  BY <1>1, TopFacts DEF B!Reducing
<1>5. B!Reduce(n, yyforest, yyelements, v)
  BY <1>1
<1> HIDE DEF s, p, t, v
<1>6. s \in {0, 4, 5, 6, 7, 10, 12, 13, 19, 20, 22, 8, 15, 25}
  BY <1>1, <1>3, <1>4 DEF ReduceBy, States
<1>7. Drawing(Events(read), t, yyelements, yyforest) /\ Firm(read, t)
  <2>1. Built(s, t) = t
    BY <1>6 DEF Built
  <2> QED
    BY <1>3, <2>1 DEF Upto
<1>8. yyforest = << >> <=> yyforest = << >> /\ s # 3
  BY <1>6
<1>9. yyroot' = IF yyforest = << >> THEN 0 ELSE 1
  BY <1>2, <1>3
<1> QED
  BY <1>1, <1>2, <1>5, <1>7, <1>8, <1>9, TreeReducing DEF s, t

\* Every step of the parser keeps the tree.
LEMMA TreeNext ==
  ASSUME ParserInv, TreeInv, B!Next
  PROVE  TreeInv'
<1>1. CASE B!SyntaxError
  BY <1>1, TreeAborting DEF B!SyntaxError
<1> QED
  BY <1>1, TreeReading, TreeShifting, TreeAccepting, TreeCommenting, TreeStarting, TreeClosing,
     TreeFilling, TreeDescribing, TreePassing DEF B!Next

\* The tree that the generated parser builds is at every moment that of the
\* events it has reduced.
LEMMA TreeKept == Spec => [](ParserInv /\ TreeInv)
<1>1. Init => ParserInv /\ TreeInv
  BY ParserInit, TreeInit DEF Init
<1>2. ParserInv /\ TreeInv /\ [Next]_vars => ParserInv' /\ TreeInv'
  <2> SUFFICES ASSUME ParserInv, TreeInv, [Next]_vars PROVE ParserInv' /\ TreeInv'
    OBVIOUS
  <2>1. CASE Parse
    BY <2>1, ParserNext, TreeNext DEF Parse
  <2>2. CASE Build
    BY <2>2, ParserSame, TreeSame DEF Build
  <2>3. CASE log4c_rc_load
    BY <2>3, ParserSame, TreeSame DEF log4c_rc_load
  <2>4. CASE NoFile
    BY <2>4, ParserSame, TreeSame DEF NoFile
  <2>5. CASE UNCHANGED vars
    BY <2>5, ParserSame, TreeSame DEF vars
  <2> QED
    BY <2>1, <2>2, <2>3, <2>4, <2>5 DEF Next
<1> QED
  BY <1>1, <1>2, PTL DEF Spec
=============================================================================
