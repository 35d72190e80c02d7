----------------------- MODULE ConfigTreeDocumentProofs -----------------------
(***************************************************************************)
(* What is made of the trees: that of the handlers of expat, what is       *)
(* handed to the loader, and what the writer and the search make of the    *)
(* tree of an accepted document.                                           *)
(*                                                                         *)
(* Expat.  Mirror says of the forest of the handlers what Drawing says of  *)
(* the other: each node is that of the document with its children and      *)
(* attributes reversed, and with the text that was collected last          *)
(* (Spoken).  The buffer holds what fits of the pieces since the last tag  *)
(* (Collected).  ExpatInv is kept by all handlers.                         *)
(*                                                                         *)
(* The loader hands over the children of the root that are elements        *)
(* (LoadInv): those of the document, for expat in the opposite order.      *)
(*                                                                         *)
(* The tree of an accepted document is a family: its nodes have the        *)
(* numbers of a walk from the root, and each but the first has one parent, *)
(* with a smaller number (Family).  Therefore the search, which goes from  *)
(* node to node, comes to all of them; and what is written, which is       *)
(* nested as the tree is, is the text whose events make these nodes again, *)
(* one after the other (Drafts), with blanks around their values, which    *)
(* leave the family what it is (SpacedFamily).                             *)
(***************************************************************************)
EXTENDS ConfigTreeProofs

-----------------------------------------------------------------------------
(* The buffer of the handlers of expat. *)

\* Steps H from a in the set S, and a function that makes k of them.
Steps(S, a, k, H) == a \in S /\ k \in Nat /\ H \in [(1..k) \X S -> S]
Stepwise(S, a, k, H) ==
  \E f \in [0..k -> S] : f[0] = a /\ \A n \in 1..k : f[n] = H[<<n, f[n-1]>>]

\* Recursion over numbers: there is one.
LEMMA StepsExist ==
  ASSUME NEW S, NEW a, NEW k, NEW H, Steps(S, a, k, H)
  PROVE  Stepwise(S, a, k, H)
<1>0. a \in S /\ k \in Nat /\ H \in [(1..k) \X S -> S]
  BY DEF Steps
<1> DEFINE R == {n \in Nat : n <= k =>
                   \E f \in [0..n -> S] : f[0] = a /\ \A m \in 1..n : f[m] = H[<<m, f[m-1]>>]}
<1>1. 0 \in R
  <2> DEFINE f == [m \in 0..0 |-> a]
  <2>1. f \in [0..0 -> S] /\ f[0] = a /\ 1..0 = {}
    BY <1>0
  <2> HIDE DEF f
  <2> QED
    BY <2>1
<1>2. ASSUME NEW n \in Nat, n \in R PROVE n + 1 \in R
  <2> SUFFICES ASSUME n + 1 <= k
               PROVE  \E f \in [0..n+1 -> S] :
                        f[0] = a /\ \A m \in 1..n+1 : f[m] = H[<<m, f[m-1]>>]
    OBVIOUS
  <2>1. PICK f \in [0..n -> S] : f[0] = a /\ \A m \in 1..n : f[m] = H[<<m, f[m-1]>>]
    BY <1>0, <1>2
  <2> DEFINE y == H[<<n + 1, f[n]>>]
             g == [m \in 0..n+1 |-> IF m = n + 1 THEN y ELSE f[m]]
  <2>2. y \in S
    <3>1. n + 1 \in 1..k /\ f[n] \in S
      BY <1>0, <2>1
    <3> QED
      BY <1>0, <3>1
  <2>3. \A m \in 0..n+1 : m = n + 1 \/ m \in 0..n
    OBVIOUS
  <2> HIDE DEF y
  <2>4. g \in [0..n+1 -> S]
    BY <2>1, <2>2, <2>3
  <2>5. /\ g[0] = f[0] /\ g[n+1] = y /\ g[n] = f[n]
        /\ \A m \in 1..n : g[m] = f[m] /\ g[m-1] = f[m-1]
    OBVIOUS
  <2> HIDE DEF g
  <2>6. ASSUME NEW m \in 1..n+1 PROVE g[m] = H[<<m, g[m-1]>>]
    <3>1. CASE m = n + 1
      <4>1. m - 1 = n
        BY <3>1
      <4> QED
        BY <2>5, <3>1, <4>1 DEF y
    <3>2. CASE m # n + 1
      <4>1. m \in 1..n
        BY <3>2
      <4> QED
        BY <2>1, <2>5, <4>1
    <3> QED
      BY <3>1, <3>2
  <2> QED
    BY <2>1, <2>4, <2>5, <2>6
<1>3. R = Nat
  <2>1. R \in SUBSET Nat
    OBVIOUS
  <2> HIDE DEF R
  <2> QED
    BY <1>1, <1>2, <2>1, Induction
<1>4. k \in R
  <2> HIDE DEF R
  <2> QED
    BY <1>0, <1>3
<1> QED
  BY <1>0, <1>4 DEF Stepwise

\* The function of Length.
Sums(f, s) == [n \in 0..Len(s) |-> IF n = 0 THEN 0 ELSE f[n-1] + s[n].len]

\* It exists.
LEMMA SumsExist ==
  ASSUME NEW s \in Seq(Pieces)
  PROVE  LET f == CHOOSE g : g = Sums(g, s)
         IN  /\ f \in [0..Len(s) -> Nat] /\ f[0] = 0
             /\ \A n \in 1..Len(s) : f[n] = f[n-1] + s[n].len
<1> DEFINE k == Len(s)
           H == [x \in (1..k) \X Nat |-> x[2] + s[x[1]].len]
<1>1. k \in Nat
  OBVIOUS
<1>2. \A n \in 1..k : s[n].len \in Nat
  <2>1. \A n \in 1..k : s[n] \in Pieces
    OBVIOUS
  <2> QED
    BY <2>1, BuildersAssumption DEF X!PiecesAssumption
<1>3. H \in [(1..k) \X Nat -> Nat]
  BY <1>2
<1>4. \A n \in 1..k, x \in Nat : H[<<n, x>>] = x + s[n].len
  OBVIOUS
<1> HIDE DEF H, k
<1>5. PICK f \in [0..k -> Nat] : f[0] = 0 /\ \A n \in 1..k : f[n] = H[<<n, f[n-1]>>]
  <2>1. Steps(Nat, 0, k, H)
    BY <1>1, <1>3 DEF Steps
  <2>2. Stepwise(Nat, 0, k, H)
    BY <2>1, StepsExist
  <2> QED
    BY <2>2 DEF Stepwise
<1>6. f = [n \in 0..k |-> IF n = 0 THEN 0 ELSE f[n-1] + s[n].len]
  <2>1. \A n \in 1..k : n - 1 \in 0..k
    BY <1>1
  <2>2. \A n \in 1..k : f[n] = f[n-1] + s[n].len
    BY <1>4, <1>5, <2>1
  <2>3. \A n \in 0..k : n = 0 \/ n \in 1..k
    BY <1>1
  <2>4. \A n \in 0..k : f[n] = IF n = 0 THEN 0 ELSE f[n-1] + s[n].len
    BY <1>5, <2>2, <2>3
  <2>5. f = [n \in 0..k |-> f[n]]
    BY <1>5
  <2> QED
    BY <2>4, <2>5
<1>7. \E g : g = Sums(g, s)
  BY <1>6 DEF Sums, k
<1> DEFINE c == CHOOSE g : g = Sums(g, s)
<1>8. c = Sums(c, s)
  BY <1>7
<1> HIDE DEF c
<1>9. c = [n \in 0..k |-> IF n = 0 THEN 0 ELSE c[n-1] + s[n].len]
  BY <1>8 DEF Sums, k
<1>10. c[0] = 0 /\ \A n \in 1..k : c[n] = c[n-1] + s[n].len
  <2>1. 0 \in 0..k /\ \A n \in 1..k : n \in 0..k /\ n # 0
    BY <1>1
  <2> QED
    BY <1>9, <2>1
<1> DEFINE R == {n \in Nat : n <= k => c[n] \in Nat}
<1>11. 0 \in R /\ \A n \in R : n + 1 \in R
  <2>1. 0 \in R
    BY <1>10
  <2>2. ASSUME NEW n \in Nat, n \in R, n + 1 <= k PROVE c[n+1] \in Nat
    <3>1. n + 1 \in 1..k /\ (n + 1) - 1 = n /\ n <= k
      BY <1>1, <2>2
    <3>2. c[n+1] = c[n] + s[n+1].len
      BY <1>10, <3>1
    <3> QED
      BY <1>2, <2>2, <3>1, <3>2
  <2> QED
    BY <2>1, <2>2
<1>12. R = Nat
  <2>1. R \in SUBSET Nat
    OBVIOUS
  <2> HIDE DEF R
  <2> QED
    BY <1>11, <2>1, Induction
<1>13. \A n \in 0..k : c[n] \in Nat
  <2>1. \A n \in 0..k : n \in R /\ n <= k
    BY <1>1, <1>12
  <2> QED
    BY <2>1
<1>14. c \in [0..k -> Nat]
  <2>1. c = [n \in 0..k |-> c[n]]
    BY <1>9
  <2> QED
    BY <1>13, <2>1
<1> QED
  BY <1>10, <1>14 DEF c, k

\* The length of no piece, and of one more.
LEMMA LengthNone == X!Length(<< >>) = 0
<1>1. << >> \in Seq(Pieces) /\ Len(<< >>) = 0
  OBVIOUS
<1> DEFINE f == CHOOSE g : g = Sums(g, << >>)
<1>2. f[0] = 0
  BY <1>1, SumsExist
<1>3. X!Length(<< >>) = f[Len(<< >>)]
  BY DEF X!Length, Sums
<1> QED
  BY <1>1, <1>2, <1>3

\* The length of one more piece.
LEMMA LengthMore ==
  ASSUME NEW s \in Seq(Pieces), NEW p \in Pieces
  PROVE  /\ X!Length(s) \in Nat
         /\ X!Length(Append(s, p)) = X!Length(s) + p.len
<1> DEFINE q == Append(s, p)
           k == Len(s)
           e == CHOOSE g : g = Sums(g, s)
           f == CHOOSE g : g = Sums(g, q)
<1>1. /\ k \in Nat /\ q \in Seq(Pieces) /\ Len(q) = k + 1 /\ q[k+1] = p
      /\ \A n \in 1..k : q[n] = s[n]
  OBVIOUS
<1>2. e \in [0..k -> Nat] /\ e[0] = 0 /\ \A n \in 1..k : e[n] = e[n-1] + s[n].len
  BY SumsExist
<1> HIDE DEF q
<1>3. f[0] = 0 /\ \A n \in 1..Len(q) : f[n] = f[n-1] + q[n].len
  BY <1>1, SumsExist
<1>4. X!Length(s) = e[k] /\ X!Length(q) = f[Len(q)]
  BY DEF X!Length, Sums
<1> HIDE DEF e, f, k
<1> DEFINE R == {n \in Nat : n <= k => f[n] = e[n]}
<1>5. 0 \in R /\ \A n \in R : n + 1 \in R
  <2>1. 0 \in R
    BY <1>2, <1>3
  <2>2. ASSUME NEW n \in Nat, n \in R, n + 1 <= k PROVE f[n+1] = e[n+1]
    <3>1. n + 1 \in 1..k /\ (n + 1) - 1 = n /\ n <= k /\ n + 1 \in 1..Len(q)
      BY <1>1, <2>2
    <3>2. e[n+1] = e[n] + s[n+1].len /\ f[n+1] = f[n] + q[n+1].len
      BY <1>2, <1>3, <3>1
    <3> QED
      BY <1>1, <2>2, <3>1, <3>2
  <2> QED
    BY <2>1, <2>2
<1>6. R = Nat
  <2>1. R \in SUBSET Nat
    OBVIOUS
  <2> HIDE DEF R
  <2> QED
    BY <1>5, <2>1, Induction
<1>7. f[k] = e[k]
  BY <1>1, <1>6
<1>8. f[k+1] = f[k] + p.len
  <2>1. k + 1 \in 1..Len(q) /\ (k + 1) - 1 = k
    BY <1>1
  <2> QED
    BY <1>1, <1>3, <2>1
<1>9. e[k] \in Nat
  BY <1>1, <1>2
<1> QED
  BY <1>1, <1>4, <1>7, <1>8, <1>9 DEF q

\* The function of Fitting.
Keeps(f, s) ==
  [n \in 0..Len(s) |->
     IF n = 0 THEN << >>
     ELSE IF s[n].len = 0 \/ X!Length(f[n-1]) + s[n].len + 2 > CDATA THEN f[n-1]
     ELSE Append(f[n-1], s[n])]

\* The buffer after another piece.
More(c, p) == IF p.len = 0 \/ X!Length(c) + p.len + 2 > CDATA THEN c ELSE Append(c, p)

\* It exists.
LEMMA KeepsExist ==
  ASSUME NEW s \in Seq(Pieces)
  PROVE  LET f == CHOOSE g : g = Keeps(g, s)
         IN  /\ f[0] = << >>
             /\ \A n \in 1..Len(s) : f[n] = More(f[n-1], s[n])
             /\ \A n \in 0..Len(s) : f[n] \in Seq(Pieces)
<1> DEFINE k == Len(s)
           P == Seq(Pieces)
           H == [x \in (1..k) \X P |-> More(x[2], s[x[1]])]
<1>1. k \in Nat /\ << >> \in P /\ \A n \in 1..k : s[n] \in Pieces
  OBVIOUS
<1>2. \A c \in P, p \in Pieces : More(c, p) \in P
  BY DEF More
<1> HIDE DEF P, k
<1>3. H \in [(1..k) \X P -> P]
  BY <1>1, <1>2
<1>4. \A n \in 1..k, x \in P : H[<<n, x>>] = More(x, s[n])
  OBVIOUS
<1> HIDE DEF H
<1>5. PICK f \in [0..k -> P] : f[0] = << >> /\ \A n \in 1..k : f[n] = H[<<n, f[n-1]>>]
  <2>1. Steps(P, << >>, k, H)
    BY <1>1, <1>3 DEF Steps
  <2>2. Stepwise(P, << >>, k, H)
    BY <2>1, StepsExist
  <2> QED
    BY <2>2 DEF Stepwise
<1>6. \E g : g = Keeps(g, s)
  <2>1. \A n \in 1..k : n - 1 \in 0..k
    BY <1>1
  <2>2. \A n \in 1..k : f[n] = More(f[n-1], s[n])
    BY <1>4, <1>5, <2>1
  <2>3. \A n \in 0..k : n = 0 \/ n \in 1..k
    BY <1>1
  <2>4. \A n \in 0..k : f[n] = IF n = 0 THEN << >> ELSE More(f[n-1], s[n])
    BY <1>5, <2>2, <2>3
  <2>5. f = [n \in 0..k |-> f[n]]
    BY <1>5
  <2>6. f = [n \in 0..k |-> IF n = 0 THEN << >> ELSE More(f[n-1], s[n])]
    BY <2>4, <2>5
  <2>7. f = Keeps(f, s)
    BY <2>6 DEF Keeps, More, k
  <2> QED
    BY <2>7
<1> DEFINE c == CHOOSE g : g = Keeps(g, s)
<1>7. c = Keeps(c, s)
  BY <1>6
<1> HIDE DEF c
<1>8. c = [n \in 0..k |-> IF n = 0 THEN << >> ELSE More(c[n-1], s[n])]
  BY <1>7 DEF Keeps, More, k
<1>9. c[0] = << >> /\ \A n \in 1..k : c[n] = More(c[n-1], s[n])
  <2>1. 0 \in 0..k /\ \A n \in 1..k : n \in 0..k /\ n # 0
    BY <1>1
  <2> QED
    BY <1>8, <2>1
<1> DEFINE R == {n \in Nat : n <= k => c[n] \in P}
<1>10. 0 \in R /\ \A n \in R : n + 1 \in R
  <2>1. 0 \in R
    BY <1>1, <1>9
  <2>2. ASSUME NEW n \in Nat, n \in R, n + 1 <= k PROVE c[n+1] \in P
    <3>1. n + 1 \in 1..k /\ (n + 1) - 1 = n /\ n <= k
      BY <1>1, <2>2
    <3>2. c[n+1] = More(c[n], s[n+1])
      BY <1>9, <3>1
    <3> QED
      BY <1>1, <1>2, <2>2, <3>1, <3>2
  <2> QED
    BY <2>1, <2>2
<1>11. R = Nat
  <2>1. R \in SUBSET Nat
    OBVIOUS
  <2> HIDE DEF R
  <2> QED
    BY <1>10, <2>1, Induction
<1>12. \A n \in 0..k : c[n] \in P
  <2>1. \A n \in 0..k : n \in R /\ n <= k
    BY <1>1, <1>11
  <2> QED
    BY <2>1
<1> QED
  BY <1>9, <1>12 DEF c, k, P

\* What is kept of no text, and of one piece more.
LEMMA FittingNone == X!Fitting(<< >>) = << >>
<1>1. << >> \in Seq(Pieces) /\ Len(<< >>) = 0
  OBVIOUS
<1> DEFINE f == CHOOSE g : g = Keeps(g, << >>)
<1>2. f[0] = << >>
  BY <1>1, KeepsExist
<1>3. X!Fitting(<< >>) = f[Len(<< >>)]
  BY DEF X!Fitting, Keeps
<1> QED
  BY <1>1, <1>2, <1>3

\* What fits, with one more piece.
LEMMA FittingMore ==
  ASSUME NEW s \in Seq(Pieces), NEW p \in Pieces
  PROVE  /\ X!Fitting(s) \in Seq(Pieces)
         /\ X!Fitting(Append(s, p)) = More(X!Fitting(s), p)
<1> DEFINE q == Append(s, p)
           k == Len(s)
           e == CHOOSE g : g = Keeps(g, s)
           f == CHOOSE g : g = Keeps(g, q)
<1>1. /\ k \in Nat /\ q \in Seq(Pieces) /\ Len(q) = k + 1 /\ q[k+1] = p
      /\ \A n \in 1..k : q[n] = s[n]
  OBVIOUS
<1>2. /\ e[0] = << >> /\ \A n \in 1..k : e[n] = More(e[n-1], s[n])
      /\ \A n \in 0..k : e[n] \in Seq(Pieces)
  BY KeepsExist
<1> HIDE DEF q
<1>3. f[0] = << >> /\ \A n \in 1..Len(q) : f[n] = More(f[n-1], q[n])
  BY <1>1, KeepsExist
<1>4. X!Fitting(s) = e[k] /\ X!Fitting(q) = f[Len(q)]
  BY DEF X!Fitting, Keeps
<1> HIDE DEF e, f, k
<1> DEFINE R == {n \in Nat : n <= k => f[n] = e[n]}
<1>5. 0 \in R /\ \A n \in R : n + 1 \in R
  <2>1. 0 \in R
    BY <1>2, <1>3
  <2>2. ASSUME NEW n \in Nat, n \in R, n + 1 <= k PROVE f[n+1] = e[n+1]
    <3>1. n + 1 \in 1..k /\ (n + 1) - 1 = n /\ n <= k /\ n + 1 \in 1..Len(q)
      BY <1>1, <2>2
    <3>2. e[n+1] = More(e[n], s[n+1]) /\ f[n+1] = More(f[n], q[n+1])
      BY <1>2, <1>3, <3>1
    <3> QED
      BY <1>1, <2>2, <3>1, <3>2
  <2> QED
    BY <2>1, <2>2
<1>6. R = Nat
  <2>1. R \in SUBSET Nat
    OBVIOUS
  <2> HIDE DEF R
  <2> QED
    BY <1>5, <2>1, Induction
<1>7. f[k] = e[k]
  BY <1>1, <1>6
<1>8. f[k+1] = More(f[k], p)
  <2>1. k + 1 \in 1..Len(q) /\ (k + 1) - 1 = k
    BY <1>1
  <2> QED
    BY <1>1, <1>3, <2>1
<1>9. e[k] \in Seq(Pieces)
  BY <1>1, <1>2
<1> QED
  BY <1>1, <1>4, <1>7, <1>8, <1>9 DEF q

-----------------------------------------------------------------------------
\* What expat tells the handlers.
Marks == [op : {"open", "close", "attr", "text", "comment"},
          s : Names \cup Texts \cup Pieces \cup {NULL}, v : Texts \cup {NULL}]

\* The text up to event k without a tag in between.
TextsTo(d, k) ==
  {i \in 1..k : d[i].op = "text" /\ \A m \in i..k : d[m].op \notin {"open", "close"}}

RunAt(d, k) == LET q == B!InOrder(TextsTo(d, k), k) IN [i \in 1..Len(q) |-> d[q[i]].s]

\* The run, by the places of its texts.
LEMMA RunIs ==
  ASSUME NEW d, NEW k \in Nat, NEW q, Rising(q, TextsTo(d, k))
  PROVE  RunAt(d, k) = [i \in 1..Len(q) |-> d[q[i]].s]
<1>1. TextsTo(d, k) \subseteq 1..k
  BY DEF TextsTo
<1>2. B!InOrder(TextsTo(d, k), k) = q
  BY <1>1, InOrderIs
<1> QED
  BY <1>2 DEF RunAt

\* There are such places.
LEMMA RunRising ==
  ASSUME NEW d, NEW k \in Nat
  PROVE  \E q : Rising(q, TextsTo(d, k))
<1>1. {i \in TextsTo(d, k) : i \in 1..k} = TextsTo(d, k)
  BY DEF TextsTo
<1> QED
  BY <1>1, InOrderRising

\* It is what RunTo says.
LEMMA RunDoc ==
  ASSUME doc \in Seq(Marks), NEW k \in 1..Len(doc)
  PROVE  X!RunTo(k) = RunAt(doc, k)
<1> DEFINE s == [i \in DOMAIN doc |-> doc[i].s]
           T == TextsTo(doc, k)
           n == Len(doc)
<1>1. n \in Nat /\ DOMAIN doc = 1..n /\ k \in Nat
  OBVIOUS
<1>2. Len(s) = n /\ \A i \in 1..n : s[i] = doc[i].s
  BY <1>1
<1> HIDE DEF n
<1>3. T \subseteq 1..k /\ T \subseteq 1..n
  BY <1>1 DEF TextsTo, n
<1>4. PICK q : Rising(q, T)
  BY <1>1, RunRising
<1>5. RunAt(doc, k) = [i \in 1..Len(q) |-> doc[q[i]].s]
  BY <1>1, <1>4, RunIs
<1> HIDE DEF s
<1>6. X!RunTo(k) = X!Those(s, T)
  BY DEF X!RunTo, TextsTo, s
<1> HIDE DEF T
<1>7. X!InOrder(T, Len(s)) = q
  <2>1. B!InOrder(T, n) = q
    BY <1>1, <1>3, <1>4, InOrderIs
  <2> QED
    BY <1>2, <2>1, InOrderSame
<1>8. X!Those(s, T) = [i \in DOMAIN q |-> s[q[i]]]
  BY <1>7 DEF X!Those
<1>9. DOMAIN q = 1..Len(q) /\ \A i \in 1..Len(q) : q[i] \in 1..n
  BY <1>3, <1>4 DEF Rising
<1>10. [i \in DOMAIN q |-> s[q[i]]] = [i \in 1..Len(q) |-> doc[q[i]].s]
  BY <1>2, <1>9
<1> QED
  BY <1>5, <1>6, <1>8, <1>10

\* What an event does to it.
LEMMA RunStart == ASSUME NEW d PROVE RunAt(d, 0) = << >>
<1>1. TextsTo(d, 0) = {}
  BY DEF TextsTo
<1>2. Rising(<< >>, TextsTo(d, 0))
  BY <1>1, RisingEmpty
<1>3. ASSUME NEW q, q = << >>, Rising(q, TextsTo(d, 0)) PROVE RunAt(d, 0) = << >>
  <2>1. RunAt(d, 0) = [i \in 1..Len(q) |-> d[q[i]].s]
    BY <1>3, RunIs
  <2>2. 1..Len(q) = {}
    BY <1>3
  <2> QED
    BY <2>1, <2>2
<1> QED
  BY <1>2, <1>3

\* A tag ends the run,
LEMMA RunTag ==
  ASSUME NEW d, NEW n \in Nat, d[n+1].op \in {"open", "close"}
  PROVE  RunAt(d, n + 1) = << >>
<1>1. TextsTo(d, n + 1) = {}
  <2>1. \A i \in 1..n+1 : n + 1 \in i..n+1
    OBVIOUS
  <2> QED
    BY <2>1 DEF TextsTo
<1>2. Rising(<< >>, TextsTo(d, n + 1))
  BY <1>1, RisingEmpty
<1>3. ASSUME NEW q, q = << >>, Rising(q, TextsTo(d, n + 1)) PROVE RunAt(d, n + 1) = << >>
  <2>1. RunAt(d, n + 1) = [i \in 1..Len(q) |-> d[q[i]].s]
    BY <1>3, RunIs
  <2>2. 1..Len(q) = {}
    BY <1>3
  <2> QED
    BY <2>1, <2>2
<1> QED
  BY <1>2, <1>3

\* an attribute or a comment leaves it,
LEMMA RunOther ==
  ASSUME NEW d, NEW n \in Nat, d[n+1].op \notin {"open", "close", "text"}
  PROVE  RunAt(d, n + 1) = RunAt(d, n)
<1>1. TextsTo(d, n + 1) = TextsTo(d, n)
  <2>1. \A i \in 1..n+1 : i = n + 1 \/ i \in 1..n
    OBVIOUS
  <2>2. \A i \in 1..n, m \in Nat : m \in i..n+1 <=> m = n + 1 \/ m \in i..n
    OBVIOUS
  <2>3. \A i \in 1..n : (\A m \in i..n+1 : d[m].op \notin {"open", "close"})
                        <=> (\A m \in i..n : d[m].op \notin {"open", "close"})
    <3> SUFFICES ASSUME NEW i \in 1..n
                 PROVE  (\A m \in i..n+1 : d[m].op \notin {"open", "close"})
                        <=> (\A m \in i..n : d[m].op \notin {"open", "close"})
      OBVIOUS
    <3>1. i..n+1 = (i..n) \cup {n + 1}
      OBVIOUS
    <3> QED
      BY <3>1
  <2>4. \A i \in 1..n : i \in 1..n+1
    OBVIOUS
  <2> QED
    BY <2>1, <2>3, <2>4 DEF TextsTo
<1>2. PICK q : Rising(q, TextsTo(d, n))
  BY RunRising
<1>3. n + 1 \in Nat
  OBVIOUS
<1> QED
  BY <1>1, <1>2, <1>3, RunIs

\* and a text is added to it.
LEMMA RunText ==
  ASSUME NEW d, NEW n \in Nat, d[n+1].op = "text"
  PROVE  RunAt(d, n + 1) = Append(RunAt(d, n), d[n+1].s)
<1>1. TextsTo(d, n + 1) = TextsTo(d, n) \cup {n + 1} /\ \A i \in TextsTo(d, n) : i < n + 1
  <2>1. \A i \in 1..n+1 : i = n + 1 \/ i \in 1..n
    OBVIOUS
  <2>2. \A i \in 1..n : (\A m \in i..n+1 : d[m].op \notin {"open", "close"})
                        <=> (\A m \in i..n : d[m].op \notin {"open", "close"})
    <3> SUFFICES ASSUME NEW i \in 1..n
                 PROVE  (\A m \in i..n+1 : d[m].op \notin {"open", "close"})
                        <=> (\A m \in i..n : d[m].op \notin {"open", "close"})
      OBVIOUS
    <3>1. i..n+1 = (i..n) \cup {n + 1}
      OBVIOUS
    <3> QED
      BY <3>1
  <2>3. (n + 1)..(n + 1) = {n + 1}
    OBVIOUS
  <2>4. \A i \in 1..n : i \in 1..n+1 /\ i < n + 1
    OBVIOUS
  <2>5. n + 1 \in 1..n+1
    OBVIOUS
  <2> QED
    BY <2>1, <2>2, <2>3, <2>4, <2>5 DEF TextsTo
<1>2. PICK q : Rising(q, TextsTo(d, n))
  BY RunRising
<1> DEFINE r == Append(q, n + 1)
<1>3. n + 1 \in Nat
  OBVIOUS
<1>4. Rising(r, TextsTo(d, n + 1))
  BY <1>1, <1>2, <1>3, RisingAppend
<1>5. q \in Seq(Nat) /\ Len(q) \in Nat
  BY <1>2 DEF Rising
<1>6. Len(r) = Len(q) + 1 /\ r[Len(q) + 1] = n + 1 /\ \A i \in 1..Len(q) : r[i] = q[i]
  BY <1>5
<1>7. RunAt(d, n) = [i \in 1..Len(q) |-> d[q[i]].s]
  BY <1>2, RunIs
<1> HIDE DEF r
<1>8. RunAt(d, n + 1) = [i \in 1..Len(r) |-> d[r[i]].s]
  BY <1>3, <1>4, RunIs
<1> DEFINE u == RunAt(d, n)
<1>9. u = [i \in 1..Len(q) |-> u[i]]
  BY <1>7
<1>10. Append(u, d[n+1].s) = [i \in 1..Len(q)+1 |-> IF i = Len(q) + 1 THEN d[n+1].s ELSE u[i]]
  <2> HIDE DEF u
  <2> QED
    BY <1>5, <1>9, AppendIs
<1>11. \A i \in 1..Len(q)+1 : i = Len(q) + 1 \/ i \in 1..Len(q)
  BY <1>5
<1>12. \A i \in 1..Len(q)+1 : d[r[i]].s = IF i = Len(q) + 1 THEN d[n+1].s ELSE u[i]
  BY <1>6, <1>7, <1>11
<1> QED
  BY <1>6, <1>8, <1>10, <1>12

\* Documents that begin alike.
LEMMA RunSame ==
  ASSUME NEW c, NEW d, NEW n \in Nat, \A j \in 1..n : c[j] = d[j]
  PROVE  RunAt(c, n) = RunAt(d, n)
<1>1. TextsTo(c, n) = TextsTo(d, n)
  <2>1. \A i \in 1..n : i..n \subseteq 1..n
    OBVIOUS
  <2> QED
    BY <2>1 DEF TextsTo
<1>2. PICK q : Rising(q, TextsTo(c, n))
  BY RunRising
<1>3. \A i \in 1..Len(q) : q[i] \in 1..n
  <2>1. \A i \in 1..Len(q) : q[i] \in TextsTo(c, n)
    BY <1>2 DEF Rising
  <2> QED
    BY <2>1 DEF TextsTo
<1>4. RunAt(c, n) = [i \in 1..Len(q) |-> c[q[i]].s] /\ RunAt(d, n) = [i \in 1..Len(q) |-> d[q[i]].s]
  BY <1>1, <1>2, RunIs
<1>5. [i \in 1..Len(q) |-> c[q[i]].s] = [i \in 1..Len(q) |-> d[q[i]].s]
  BY <1>3
<1> QED
  BY <1>4, <1>5

\* Its pieces.
LEMMA RunPieces ==
  ASSUME NEW d, NEW n \in Nat, \A j \in 1..n : d[j].op = "text" => d[j].s \in Pieces
  PROVE  RunAt(d, n) \in Seq(Pieces)
<1>1. PICK q : Rising(q, TextsTo(d, n))
  BY RunRising
<1>2. \A i \in 1..Len(q) : q[i] \in TextsTo(d, n)
  BY <1>1 DEF Rising
<1>3. \A i \in 1..Len(q) : d[q[i]].s \in Pieces
  BY <1>2 DEF TextsTo
<1>4. RunAt(d, n) = [i \in 1..Len(q) |-> d[q[i]].s] /\ Len(q) \in Nat
  BY <1>1, RunIs DEF Rising
<1> QED
  BY <1>3, <1>4

-----------------------------------------------------------------------------
(* The tree that the handlers build, as the mirrored tree of the events.   *)

\* The texts of the element that event j opened which left something in the
\* buffer, and the value of the element after the last of them.
Heard(d, n, j) ==
  {k \in 1..n : d[k].op = "text" /\ B!ParentOf(d, k) = j /\ X!Fitting(RunAt(d, k)) # << >>}

Spoken(d, n, j) ==
  IF Heard(d, n, j) = {} THEN NULL ELSE X!Fitting(RunAt(d, Highest(Heard(d, n, j))))

\* The highest of some numbers is one of them.
LEMMA HighestIn ==
  ASSUME NEW n \in Nat, NEW S, S \subseteq 1..n, S # {}
  PROVE  Highest(S) \in S /\ \A k \in S : k <= Highest(S)
<1>1. \E i \in S : \A k \in S : k <= i
  <2> DEFINE R == {m \in Nat : \A i \in S : n - i >= m}
  <2>1. PICK x : x \in S
    OBVIOUS
  <2>2. SUFFICES ASSUME \A i \in S : \E k \in S : ~ (k <= i) PROVE FALSE
    OBVIOUS
  <2>3. 0 \in R
    OBVIOUS
  <2>4. ASSUME NEW m \in Nat, m \in R PROVE m + 1 \in R
    <3> SUFFICES ASSUME NEW i \in S PROVE n - i >= m + 1
      OBVIOUS
    <3>1. PICK k \in S : ~ (k <= i)
      BY <2>2
    <3>2. n - k >= m /\ k \in 1..n /\ i \in 1..n
      BY <2>4
    <3> QED
      BY <3>1, <3>2
  <2>5. R = Nat
    <3>1. R \in SUBSET Nat
      OBVIOUS
    <3> HIDE DEF R
    <3> QED
      BY <2>3, <2>4, <3>1, Induction
  <2>6. n - x >= n
    <3>1. n \in R
      BY <2>5
    <3> QED
      BY <2>1, <3>1
  <2>7. x \in 1..n
    BY <2>1
  <2> QED
    BY <2>6, <2>7
<1> DEFINE c == CHOOSE i \in S : \A k \in S : k <= i
<1>2. c \in S /\ \A k \in S : k <= c
  BY <1>1
<1>3. Highest(S) = c
  BY DEF Highest
<1> QED
  BY <1>2, <1>3

\* Only the element's own text changes its value.
LEMMA SpokenOther ==
  ASSUME NEW d, NEW n \in Nat, NEW j, ~ (d[n+1].op = "text" /\ B!ParentOf(d, n + 1) = j)
  PROVE  Spoken(d, n + 1, j) = Spoken(d, n, j)
<1>1. \A k \in 1..n+1 : k = n + 1 \/ k \in 1..n
  OBVIOUS
<1>2. \A k \in 1..n : k \in 1..n+1
  OBVIOUS
<1>3. Heard(d, n + 1, j) = Heard(d, n, j)
  BY <1>1, <1>2 DEF Heard
<1> QED
  BY <1>3 DEF Spoken

\* The buffer becomes its value, unless nothing is in it.
LEMMA SpokenText ==
  ASSUME NEW d, NEW n \in Nat, NEW j, d[n+1].op = "text", B!ParentOf(d, n + 1) = j
  PROVE  Spoken(d, n + 1, j) = IF X!Fitting(RunAt(d, n + 1)) = << >> THEN Spoken(d, n, j)
                               ELSE X!Fitting(RunAt(d, n + 1))
<1> DEFINE T == Heard(d, n, j)
           U == Heard(d, n + 1, j)
<1>1. \A k \in 1..n+1 : k = n + 1 \/ k \in 1..n
  OBVIOUS
<1>2. n + 1 \in 1..n+1 /\ \A k \in 1..n : k \in 1..n+1
  OBVIOUS
<1>3. CASE X!Fitting(RunAt(d, n + 1)) = << >>
  <2>1. U = T
    BY <1>1, <1>2, <1>3 DEF Heard
  <2> QED
    BY <1>3, <2>1 DEF Spoken
<1>4. CASE X!Fitting(RunAt(d, n + 1)) # << >>
  <2>1. n + 1 \in U /\ U \subseteq 1..n+1
    BY <1>2, <1>4 DEF Heard
  <2>2. n + 1 \in Nat
    OBVIOUS
  <2> HIDE DEF U
  <2>3. U # {}
    BY <2>1
  <2>4. Highest(U) \in U /\ n + 1 <= Highest(U)
    BY <2>1, <2>2, <2>3, HighestIn
  <2>5. Highest(U) = n + 1
    <3>1. Highest(U) \in 1..n+1
      BY <2>1, <2>4
    <3> HIDE DEF U
    <3> QED
      BY <2>4, <3>1
  <2> QED
    BY <1>4, <2>3, <2>5 DEF Spoken, U
<1> QED
  BY <1>3, <1>4

\* A new element has none.
LEMMA SpokenNew ==
  ASSUME NEW d, NEW n \in Nat
  PROVE  Spoken(d, n, n) = NULL
<1>1. \A k \in 1..n : B!ParentOf(d, k) # n
  <2> SUFFICES ASSUME NEW k \in 1..n PROVE B!ParentOf(d, k) # n
    OBVIOUS
  <2>1. k \in Nat
    OBVIOUS
  <2>2. B!ParentOf(d, k) = 0 \/ (B!ParentOf(d, k) \in 1..k-1 /\ B!ParentOf(d, k) < k)
    BY <2>1, ParentBelow
  <2> QED
    BY <2>2
<1>2. Heard(d, n, n) = {}
  BY <1>1 DEF Heard
<1> QED
  BY <1>2 DEF Spoken

\* Documents that begin alike.
LEMMA SpokenSame ==
  ASSUME NEW c, NEW d, NEW n \in Nat, \A j \in 1..n : c[j] = d[j], NEW i
  PROVE  Spoken(c, n, i) = Spoken(d, n, i)
<1>1. ASSUME NEW k \in 1..n PROVE RunAt(c, k) = RunAt(d, k) /\ B!ParentOf(c, k) = B!ParentOf(d, k)
  <2>1. k \in Nat /\ \A j \in 1..k : c[j] = d[j]
    OBVIOUS
  <2>2. k \in 1..n+1 /\ \A j \in 1..n : c[j].op = d[j].op
    OBVIOUS
  <2> QED
    BY <2>1, <2>2, RunSame, ParentSame
<1>2. Heard(c, n, i) = Heard(d, n, i)
  BY <1>1 DEF Heard
<1>3. CASE Heard(d, n, i) = {}
  BY <1>2, <1>3 DEF Spoken
<1>4. CASE Heard(d, n, i) # {}
  <2>1. Heard(d, n, i) \subseteq 1..n
    BY DEF Heard
  <2>2. Highest(Heard(d, n, i)) \in 1..n
    BY <1>4, <2>1, HighestIn
  <2> QED
    BY <1>1, <1>2, <1>4, <2>2 DEF Spoken
<1> QED
  BY <1>3, <1>4

-----------------------------------------------------------------------------
\* Reversed sequences.
LEMMA ReverseNone == X!Reverse(<< >>) = << >>
<1>1. 1..Len(<< >>) = {}
  OBVIOUS
<1> QED
  BY <1>1 DEF X!Reverse

\* The reverse of a longer sequence.
LEMMA ReverseMore ==
  ASSUME NEW S, NEW s \in Seq(S), NEW x \in S
  PROVE  X!Reverse(Append(s, x)) = <<x>> \o X!Reverse(s)
<1> DEFINE l == Len(s)
           q == Append(s, x)
           r == X!Reverse(s)
           u == <<x>> \o r
           w == X!Reverse(q)
<1>1. l \in Nat /\ Len(q) = l + 1 /\ q[l+1] = x /\ \A i \in 1..l : q[i] = s[i]
  OBVIOUS
<1>2. r = [i \in 1..l |-> s[(l - i) + 1]]
  BY DEF X!Reverse
<1>3. \A i \in 1..l : (l - i) + 1 \in 1..l
  BY <1>1
<1>4. r \in Seq(S) /\ Len(r) = l
  <2>1. \A i \in 1..l : s[i] \in S
    OBVIOUS
  <2> HIDE DEF l
  <2>2. \A i \in 1..l : s[(l - i) + 1] \in S
    BY <1>3, <2>1
  <2> QED
    BY <1>1, <1>2, <2>2
<1>5. w = [i \in 1..l+1 |-> q[((l + 1) - i) + 1]]
  <2> HIDE DEF q, l
  <2> QED
    BY <1>1 DEF X!Reverse
<1> HIDE DEF l, q, r
<1>6. Len(u) = l + 1 /\ u[1] = x /\ (\A i \in 2..l+1 : u[i] = r[i-1]) /\ u \in Seq(S)
  <2>1. <<x>> \in Seq(S) /\ Len(<<x>>) = 1 /\ <<x>>[1] = x
    OBVIOUS
  <2> QED
    BY <1>1, <1>4, <2>1
<1>7. ASSUME NEW i \in 1..l+1 PROVE u[i] = q[((l + 1) - i) + 1]
  <2>1. CASE i = 1
    <3>1. ((l + 1) - i) + 1 = l + 1
      BY <1>1, <2>1
    <3> QED
      BY <1>1, <1>6, <2>1, <3>1
  <2>2. CASE i # 1
    <3>1. i \in 2..l+1 /\ i - 1 \in 1..l /\ ((l + 1) - i) + 1 = (l - (i - 1)) + 1
      BY <1>1, <2>2
    <3>2. u[i] = s[(l - (i - 1)) + 1]
      BY <1>2, <1>6, <3>1
    <3>3. (l - (i - 1)) + 1 \in 1..l
      BY <1>3, <3>1
    <3> QED
      BY <1>1, <3>1, <3>2, <3>3
  <2> QED
    BY <2>1, <2>2
<1>8. u = [i \in 1..l+1 |-> u[i]]
  BY <1>6
<1> HIDE DEF u
<1>9. u = [i \in 1..l+1 |-> q[((l + 1) - i) + 1]]
  BY <1>7, <1>8
<1> QED
  BY <1>5, <1>9 DEF u, r, q

-----------------------------------------------------------------------------
\* The node that stands for node k of the tree.
Faced(d, n, at, k, node) ==
  IF d[at[k]].op = "comment" THEN node
  ELSE [name |-> node.name, value |-> Spoken(d, n, at[k]),
        children |-> X!Reverse(node.children), attrs |-> X!Reverse(node.attrs)]

Mirrors(d, n, at, g, f) == f = [k \in 1..Len(at) |-> Faced(d, n, at, k, g[k])]

Mirror(d, n, el, f) ==
  /\ el \in Seq(Nat)
  /\ \E g, at : Grown(d, n, g, at) /\ Stacked(d, n, el, at) /\ Mirrors(d, n, at, g, f)

\* The parts of a node.
LEMMA NodeParts ==
  ASSUME NEW d, NEW n, NEW g, NEW at, Grown(d, n, g, at), NEW k \in 1..Len(at)
  PROVE  /\ g[k].children \in Seq(Nat) /\ \E S : g[k].attrs \in Seq(S)
         /\ g[k] = [name |-> g[k].name, value |-> g[k].value, children |-> g[k].children,
                    attrs |-> g[k].attrs]
         /\ d[at[k]].op = "comment" => g[k] = B!domnode(Comment, d[at[k]].s)
         /\ d[at[k]].op # "comment" => g[k].name = d[at[k]].s
<1>1. Drawn(d, n, at, k, g[k])
  BY DEF Grown
<1>2. CASE d[at[k]].op = "comment"
  <2>1. g[k] = B!domnode(Comment, d[at[k]].s)
    BY <1>1, <1>2 DEF Drawn
  <2>2. g[k].children = << >> /\ g[k].attrs = << >>
        /\ g[k] = [name |-> g[k].name, value |-> g[k].value, children |-> g[k].children,
                   attrs |-> g[k].attrs]
    BY <2>1 DEF B!domnode
  <2>3. << >> \in Seq(Nat)
    OBVIOUS
  <2> QED
    BY <1>2, <2>1, <2>2, <2>3
<1>3. CASE d[at[k]].op # "comment"
  <2>1. PICK t, a :
          /\ Rising(t, Held(d, n, at[k], "text")) /\ Rising(a, Held(d, n, at[k], "attr"))
          /\ Rising(g[k].children, {c \in 1..Len(at) : B!ParentOf(d, at[c]) = at[k]})
          /\ g[k] = [name     |-> d[at[k]].s,
                     value    |-> IF t = << >> THEN NULL ELSE d[t[Len(t)]].s,
                     children |-> g[k].children,
                     attrs    |-> [i \in 1..Len(a) |-> <<d[a[i]].s, d[a[i]].v>>]]
    BY <1>1, <1>3 DEF Drawn
  <2> DEFINE v == IF t = << >> THEN NULL ELSE d[t[Len(t)]].s
             at2 == [i \in 1..Len(a) |-> <<d[a[i]].s, d[a[i]].v>>]
             S == {at2[i] : i \in 1..Len(a)}
  <2>2. Len(a) \in Nat /\ g[k].children \in Seq(Nat)
    BY <2>1 DEF Rising
  <2>3. at2 \in Seq(S)
    BY <2>2
  <2>4. g[k] = [name |-> d[at[k]].s, value |-> v, children |-> g[k].children, attrs |-> at2]
    BY <2>1
  <2> HIDE DEF v, at2, S
  <2>5. g[k].name = d[at[k]].s /\ g[k].attrs = at2
        /\ g[k] = [name |-> g[k].name, value |-> g[k].value, children |-> g[k].children,
                   attrs |-> g[k].attrs]
    BY <2>4
  <2>6. \E Q : g[k].attrs \in Seq(Q)
    BY <2>3, <2>5
  <2> QED
    BY <1>3, <2>2, <2>5, <2>6
<1> QED
  BY <1>2, <1>3

-----------------------------------------------------------------------------
\* Different nodes were made by different events.
LEMMA SeatsDiffer ==
  ASSUME NEW d, NEW n, NEW g, NEW at, Grown(d, n, g, at)
  PROVE  /\ Len(at) \in Nat /\ at \in Seq(Nat)
         /\ \A k \in 1..Len(at) : at[k] \in 1..n
         /\ \A k, m \in 1..Len(at) : k # m => at[k] # at[m]
<1>1. Rising(at, Seats(d, n))
  BY DEF Grown
<1>2. at \in Seq(Nat) /\ Len(at) \in Nat
  BY <1>1 DEF Rising
<1>3. \A k \in 1..Len(at) : at[k] \in 1..n
  BY <1>1 DEF Rising, Seats
<1>4. \A k, m \in 1..Len(at) : k # m => k < m \/ m < k
  BY <1>2
<1>5. \A k, m \in 1..Len(at) : k < m => at[k] < at[m]
  BY <1>1 DEF Rising
<1>6. \A k \in 1..Len(at) : at[k] \in Nat
  BY <1>2
<1>7. \A k, m \in 1..Len(at) : k # m => at[k] # at[m]
  <2> SUFFICES ASSUME NEW k \in 1..Len(at), NEW m \in 1..Len(at), k # m PROVE at[k] # at[m]
    OBVIOUS
  <2>1. at[k] < at[m] \/ at[m] < at[k]
    BY <1>4, <1>5
  <2> QED
    BY <1>6, <2>1
<1> QED
  BY <1>2, <1>3, <1>7

\* One node changes.
LEMMA MirrorsAt ==
  ASSUME NEW d, NEW n \in Nat, NEW at, NEW g, NEW f, Len(at) \in Nat,
         g = [k \in 1..Len(at) |-> g[k]], Mirrors(d, n, at, g, f), NEW m \in 1..Len(at),
         NEW node, NEW face, face = Faced(d, n + 1, at, m, node),
         \A k \in 1..Len(at) : k # m => Spoken(d, n + 1, at[k]) = Spoken(d, n, at[k])
  PROVE  Mirrors(d, n + 1, at, [g EXCEPT ![m] = node], [f EXCEPT ![m] = face])
<1> DEFINE h == [g EXCEPT ![m] = node]
           e == [f EXCEPT ![m] = face]
<1>1. f = [k \in 1..Len(at) |-> Faced(d, n, at, k, g[k])]
  BY DEF Mirrors
<1>2. e = [k \in 1..Len(at) |-> IF k = m THEN face ELSE Faced(d, n, at, k, g[k])]
  BY <1>1
<1>3. h = [k \in 1..Len(at) |-> IF k = m THEN node ELSE g[k]]
  OBVIOUS
<1> HIDE DEF h, e
<1>4. ASSUME NEW k \in 1..Len(at), k # m PROVE Faced(d, n, at, k, g[k]) = Faced(d, n + 1, at, k, h[k])
  <2>1. h[k] = g[k] /\ Spoken(d, n + 1, at[k]) = Spoken(d, n, at[k])
    BY <1>3, <1>4
  <2> QED
    BY <2>1 DEF Faced
<1>5. h[m] = node
  BY <1>3
<1>6. \A k \in 1..Len(at) : (IF k = m THEN face ELSE Faced(d, n, at, k, g[k]))
                            = Faced(d, n + 1, at, k, h[k])
  BY <1>4, <1>5
<1>7. e = [k \in 1..Len(at) |-> Faced(d, n + 1, at, k, h[k])]
  BY <1>2, <1>6
<1> QED
  BY <1>7 DEF Mirrors, h, e

\* No node changes.
LEMMA MirrorsSame ==
  ASSUME NEW d, NEW n \in Nat, NEW at, NEW g, NEW f, Mirrors(d, n, at, g, f),
         \A k \in 1..Len(at) : Spoken(d, n + 1, at[k]) = Spoken(d, n, at[k])
  PROVE  Mirrors(d, n + 1, at, g, f)
<1>1. \A k \in 1..Len(at) : Faced(d, n, at, k, g[k]) = Faced(d, n + 1, at, k, g[k])
  BY DEF Faced
<1> QED
  BY <1>1 DEF Mirrors

\* The end of an element.
LEMMA MirrorClose ==
  ASSUME NEW d, NEW n \in Nat, NEW el, NEW f, Mirror(d, n, el, f), d[n+1].op = "close", Len(el) > 0
  PROVE  Mirror(d, n + 1, SubSeq(el, 1, Len(el) - 1), f)
<1>1. PICK g, at : Grown(d, n, g, at) /\ Stacked(d, n, el, at) /\ Mirrors(d, n, at, g, f)
  BY DEF Mirror
<1>2. el \in Seq(Nat)
  BY DEF Mirror
<1>3. Grown(d, n + 1, g, at)
  <2>1. d[n+1].op # "open" /\ d[n+1].op \notin {"comment", "text", "attr"}
    OBVIOUS
  <2> QED
    BY <1>1, <2>1, GrowNone
<1>4. Stacked(d, n + 1, SubSeq(el, 1, Len(el) - 1), at)
  BY <1>1, <1>2, StackedClose
<1>5. SubSeq(el, 1, Len(el) - 1) \in Seq(Nat)
  BY <1>2, FrontOf
<1>6. \A k \in 1..Len(at) : Spoken(d, n + 1, at[k]) = Spoken(d, n, at[k])
  BY SpokenOther
<1>7. Mirrors(d, n + 1, at, g, f)
  BY <1>1, <1>6, MirrorsSame
<1> QED
  BY <1>3, <1>4, <1>5, <1>7 DEF Mirror

\* A comment outside of the root, at which the program aborts.
LEMMA MirrorOutside ==
  ASSUME NEW d, NEW n \in Nat, NEW el, NEW f, Mirror(d, n, el, f), d[n+1].op = "comment", Len(el) = 0
  PROVE  Mirror(d, n + 1, el, f) /\ B!ParentOf(d, n + 1) = 0
<1>1. PICK g, at : Grown(d, n, g, at) /\ Stacked(d, n, el, at) /\ Mirrors(d, n, at, g, f)
  BY DEF Mirror
<1>2. el \in Seq(Nat)
  BY DEF Mirror
<1>3. B!ParentOf(d, n + 1) = 0
  BY <1>1, <1>2, StackedTop
<1>4. Grown(d, n + 1, g, at)
  BY <1>1, <1>3, GrowNone
<1>5. Stacked(d, n + 1, el, at)
  <2>1. d[n+1].op \notin {"open", "close"}
    OBVIOUS
  <2> QED
    BY <1>1, <2>1, StackedNone
<1>6. \A k \in 1..Len(at) : Spoken(d, n + 1, at[k]) = Spoken(d, n, at[k])
  BY SpokenOther
<1>7. Mirrors(d, n + 1, at, g, f)
  BY <1>1, <1>6, MirrorsSame
<1> QED
  BY <1>2, <1>3, <1>4, <1>5, <1>7 DEF Mirror

\* A piece of text, which leaves something in the buffer or does not.
LEMMA MirrorText ==
  ASSUME NEW d, NEW n \in Nat, NEW el, NEW f, Mirror(d, n, el, f), d[n+1].op = "text", Len(el) # 0,
         NEW kept, kept = X!Fitting(RunAt(d, n + 1)),
         NEW h, h = IF kept = << >> THEN f ELSE [f EXCEPT ![el[Len(el)]].value = kept]
  PROVE  Mirror(d, n + 1, el, h)
<1>1. PICK g, at : Grown(d, n, g, at) /\ Stacked(d, n, el, at) /\ Mirrors(d, n, at, g, f)
  BY DEF Mirror
<1>2. el \in Seq(Nat)
  BY DEF Mirror
<1> DEFINE m == el[Len(el)]
           node == [g[m] EXCEPT !.value = d[n+1].s]
           face == IF kept = << >> THEN f[m] ELSE [f[m] EXCEPT !.value = kept]
<1>3. m \in 1..Len(at) /\ B!ParentOf(d, n + 1) = at[m] /\ d[at[m]].op = "open"
  BY <1>1, <1>2, StackedTop
<1> HIDE DEF m
<1>4. Len(at) \in Nat /\ \A k \in 1..Len(at) : k # m => at[k] # at[m]
  BY <1>1, <1>3, SeatsDiffer
<1>5. g = [k \in 1..Len(at) |-> g[k]] /\ f = [k \in 1..Len(at) |-> Faced(d, n, at, k, g[k])]
  BY <1>1 DEF Grown, Mirrors
<1>6. Grown(d, n + 1, [g EXCEPT ![m] = node], at)
  <2>1. Grown(d, n + 1, [g EXCEPT ![m].value = d[n+1].s], at)
    BY <1>1, <1>3, GrowText
  <2>2. [g EXCEPT ![m].value = d[n+1].s] = [g EXCEPT ![m] = node]
    OBVIOUS
  <2> QED
    BY <2>1, <2>2
<1>7. Stacked(d, n + 1, el, at)
  <2>1. d[n+1].op \notin {"open", "close"}
    OBVIOUS
  <2> QED
    BY <1>1, <2>1, StackedNone
<1>8. face = Faced(d, n + 1, at, m, node)
  <2> DEFINE new == Spoken(d, n + 1, at[m])
             old == Spoken(d, n, at[m])
             c == X!Reverse(g[m].children)
             a == X!Reverse(g[m].attrs)
  <2>1. g[m] = [name |-> g[m].name, value |-> g[m].value, children |-> g[m].children,
                attrs |-> g[m].attrs]
    BY <1>1, <1>3, NodeParts
  <2>2. node.name = g[m].name /\ node.children = g[m].children /\ node.attrs = g[m].attrs
    BY <2>1
  <2>3. new = IF kept = << >> THEN old ELSE kept
    BY <1>3, SpokenText
  <2>4. f[m] = Faced(d, n, at, m, g[m])
    BY <1>3, <1>5
  <2>5. f[m] = [name |-> g[m].name, value |-> old, children |-> c, attrs |-> a]
    BY <1>3, <2>4 DEF Faced
  <2>6. Faced(d, n + 1, at, m, node) = [name |-> g[m].name, value |-> new, children |-> c, attrs |-> a]
    BY <1>3, <2>2 DEF Faced
  <2> HIDE DEF new, old, c, a
  <2>7. face = [name |-> g[m].name, value |-> new, children |-> c, attrs |-> a]
    BY <2>3, <2>5
  <2> QED
    BY <2>6, <2>7
<1>9. \A k \in 1..Len(at) : k # m => Spoken(d, n + 1, at[k]) = Spoken(d, n, at[k])
  <2> SUFFICES ASSUME NEW k \in 1..Len(at), k # m
               PROVE  Spoken(d, n + 1, at[k]) = Spoken(d, n, at[k])
    OBVIOUS
  <2>1. B!ParentOf(d, n + 1) # at[k]
    BY <1>3, <1>4
  <2> QED
    BY <2>1, SpokenOther
<1>10. h = [f EXCEPT ![m] = face]
  <2>1. CASE kept = << >>
    <3>1. f = [f EXCEPT ![m] = f[m]]
      BY <1>5
    <3> QED
      BY <2>1, <3>1
  <2>2. CASE kept # << >>
    <3>1. [f EXCEPT ![m].value = kept] = [f EXCEPT ![m] = [f[m] EXCEPT !.value = kept]]
      OBVIOUS
    <3> QED
      BY <2>2, <3>1 DEF m
  <2> QED
    BY <2>1, <2>2
<1> HIDE DEF node, face
<1>11. Mirrors(d, n + 1, at, [g EXCEPT ![m] = node], [f EXCEPT ![m] = face])
  BY <1>1, <1>3, <1>4, <1>5, <1>8, <1>9, MirrorsAt
<1>12. Mirrors(d, n + 1, at, [g EXCEPT ![m] = node], h)
  BY <1>10, <1>11
<1> QED
  BY <1>2, <1>6, <1>7, <1>12 DEF Mirror

\* An attribute.
LEMMA MirrorAttr ==
  ASSUME NEW d, NEW n \in Nat, NEW el, NEW f, Mirror(d, n, el, f), d[n+1].op = "attr", Len(el) # 0,
         NEW x, x = <<d[n+1].s, d[n+1].v>>
  PROVE  Mirror(d, n + 1, el, [f EXCEPT ![el[Len(el)]].attrs = <<x>> \o @])
<1>1. PICK g, at : Grown(d, n, g, at) /\ Stacked(d, n, el, at) /\ Mirrors(d, n, at, g, f)
  BY DEF Mirror
<1>2. el \in Seq(Nat)
  BY DEF Mirror
<1> DEFINE m == el[Len(el)]
           more == Append(g[m].attrs, x)
           node == [g[m] EXCEPT !.attrs = more]
           first == <<x>> \o f[m].attrs
           face == [f[m] EXCEPT !.attrs = first]
<1>3. m \in 1..Len(at) /\ B!ParentOf(d, n + 1) = at[m] /\ d[at[m]].op = "open"
  BY <1>1, <1>2, StackedTop
<1> HIDE DEF m
<1>4. Len(at) \in Nat
  BY <1>1, SeatsDiffer
<1>5. g = [k \in 1..Len(at) |-> g[k]] /\ f = [k \in 1..Len(at) |-> Faced(d, n, at, k, g[k])]
  BY <1>1 DEF Grown, Mirrors
<1>6. Grown(d, n + 1, [g EXCEPT ![m] = node], at)
  <2>1. Grown(d, n + 1, [g EXCEPT ![m].attrs = Append(@, <<d[n+1].s, d[n+1].v>>)], at)
    BY <1>1, <1>3, GrowAttr
  <2>2. [g EXCEPT ![m].attrs = Append(@, x)] = [g EXCEPT ![m] = node]
    OBVIOUS
  <2> HIDE DEF node
  <2> QED
    BY <2>1, <2>2
<1>7. Stacked(d, n + 1, el, at)
  <2>1. d[n+1].op \notin {"open", "close"}
    OBVIOUS
  <2> QED
    BY <1>1, <2>1, StackedNone
<1>8. face = Faced(d, n + 1, at, m, node)
  <2> DEFINE new == Spoken(d, n + 1, at[m])
             c == X!Reverse(g[m].children)
             a == X!Reverse(g[m].attrs)
  <2>1. /\ g[m] = [name |-> g[m].name, value |-> g[m].value, children |-> g[m].children,
                   attrs |-> g[m].attrs]
        /\ \E S : g[m].attrs \in Seq(S)
    BY <1>1, <1>3, NodeParts
  <2>2. X!Reverse(more) = <<x>> \o a
    <3>1. PICK S : g[m].attrs \in Seq(S)
      BY <2>1
    <3> DEFINE R == S \cup {x}
    <3>2. g[m].attrs \in Seq(R) /\ x \in R
      BY <3>1
    <3> HIDE DEF R
    <3> QED
      BY <3>2, ReverseMore
  <2> HIDE DEF more
  <2>3. node.name = g[m].name /\ node.children = g[m].children /\ node.attrs = more
    BY <2>1
  <2>4. new = Spoken(d, n, at[m])
    BY SpokenOther
  <2>5. f[m] = Faced(d, n, at, m, g[m])
    BY <1>3, <1>5
  <2>6. f[m] = [name |-> g[m].name, value |-> new, children |-> c, attrs |-> a]
    BY <1>3, <2>4, <2>5 DEF Faced
  <2>7. Faced(d, n + 1, at, m, node) = [name |-> g[m].name, value |-> new, children |-> c,
                                       attrs |-> X!Reverse(more)]
    BY <1>3, <2>3 DEF Faced
  <2>8. first = X!Reverse(more)
    BY <2>2, <2>6
  <2> HIDE DEF new, c, a, first
  <2>9. face = [name |-> g[m].name, value |-> new, children |-> c, attrs |-> first]
    BY <2>6
  <2> QED
    BY <2>7, <2>8, <2>9
<1>9. \A k \in 1..Len(at) : k # m => Spoken(d, n + 1, at[k]) = Spoken(d, n, at[k])
  BY SpokenOther
<1>10. [f EXCEPT ![m].attrs = <<x>> \o @] = [f EXCEPT ![m] = face]
  OBVIOUS
<1> HIDE DEF node, face
<1>11. Mirrors(d, n + 1, at, [g EXCEPT ![m] = node], [f EXCEPT ![m] = face])
  BY <1>1, <1>3, <1>4, <1>5, <1>8, <1>9, MirrorsAt
<1>12. Mirror(d, n + 1, el, [f EXCEPT ![m] = face])
  BY <1>2, <1>6, <1>7, <1>11 DEF Mirror
<1> QED
  BY <1>10, <1>12 DEF m

\* Documents that begin alike.
LEMMA MirrorSame ==
  ASSUME NEW c, NEW d, NEW n \in Nat, \A j \in 1..n : c[j] = d[j], NEW el, NEW f, Mirror(c, n, el, f)
  PROVE  Mirror(d, n, el, f)
<1>1. PICK g, at : Grown(c, n, g, at) /\ Stacked(c, n, el, at) /\ Mirrors(c, n, at, g, f)
  BY DEF Mirror
<1>2. Grown(d, n, g, at)
  BY <1>1, GrownSame
<1>3. PICK op : /\ Nest(c, n, op) /\ Len(op) = Len(el)
                /\ \A i \in 1..Len(el) : el[i] \in 1..Len(at) /\ at[el[i]] = op[i]
  BY <1>1 DEF Stacked
<1>4. Nest(d, n, op)
  <2>1. \A j \in 1..n : c[j].op = d[j].op
    OBVIOUS
  <2> QED
    BY <1>3, <2>1, NestSame
<1>5. Stacked(d, n, el, at)
  BY <1>3, <1>4 DEF Stacked
<1>6. \A k \in 1..Len(at) : at[k] \in 1..n
  BY <1>2, SeatsDiffer
<1>7. \A k \in 1..Len(at) : Faced(c, n, at, k, g[k]) = Faced(d, n, at, k, g[k])
  <2> SUFFICES ASSUME NEW k \in 1..Len(at) PROVE Faced(c, n, at, k, g[k]) = Faced(d, n, at, k, g[k])
    OBVIOUS
  <2>1. c[at[k]] = d[at[k]] /\ Spoken(c, n, at[k]) = Spoken(d, n, at[k])
    BY <1>6, SpokenSame
  <2> QED
    BY <2>1 DEF Faced
<1>8. Mirrors(d, n, at, g, f)
  BY <1>1, <1>7 DEF Mirrors
<1> QED
  BY <1>2, <1>5, <1>8 DEF Mirror

\* Before any event.
LEMMA MirrorStart ==
  ASSUME NEW d
  PROVE  Mirror(d, 0, << >>, << >>)
<1>1. Drawing(d, 0, << >>, << >>)
  BY DrawStart
<1>2. PICK at : Grown(d, 0, << >>, at) /\ Stacked(d, 0, << >>, at)
  BY <1>1 DEF Drawing
<1>3. Len(at) = 0
  <2>1. Rising(at, Seats(d, 0))
    BY <1>2 DEF Grown
  <2>2. Seats(d, 0) = {}
    BY DEF Seats
  <2>3. Len(at) \in Nat /\ \A i \in 1..Len(at) : at[i] \in Seats(d, 0)
    BY <2>1 DEF Rising
  <2>4. \A i \in 1..Len(at) : FALSE
    BY <2>2, <2>3
  <2> QED
    BY <2>3, <2>4
<1>4. ASSUME NEW e, e = << >> PROVE Mirrors(d, 0, at, e, e)
  <2>1. 1..Len(at) = {}
    BY <1>3
  <2>2. [k \in 1..Len(at) |-> Faced(d, 0, at, k, e[k])] = << >>
    BY <2>1
  <2> QED
    BY <1>4, <2>2 DEF Mirrors
<1>5. << >> \in Seq(Nat)
  OBVIOUS
<1> QED
  BY <1>2, <1>4, <1>5 DEF Mirror

-----------------------------------------------------------------------------
\* The seats q are those of at and one for event n + 1.
Seated(n, at, q) ==
  /\ Len(at) \in Nat /\ Len(q) = Len(at) + 1
  /\ q[Len(at) + 1] = n + 1 /\ \A k \in 1..Len(at) : q[k] = at[k]

\* A node that is its own face.
Unchanging(d, n, q, l, node) == node = Faced(d, n, q, l, node)

\* A new node.
LEMMA MirrorsNew ==
  ASSUME NEW d, NEW n \in Nat, NEW at, NEW g, NEW f, Grown(d, n, g, at), Mirrors(d, n, at, g, f),
         d[n+1].op # "text", NEW q, Seated(n, at, q),
         NEW new, Unchanging(d, n + 1, q, Len(at) + 1, new),
         NEW h, h = Append(g, new), NEW e, e = Append(f, new)
  PROVE  Mirrors(d, n + 1, q, h, e)
<1> DEFINE l == Len(at)
<1>1. f = [k \in 1..l |-> Faced(d, n, at, k, g[k])]
  BY DEF Mirrors
<1>2. f = [k \in 1..l |-> f[k]]
  BY <1>1
<1>3. l \in Nat /\ Len(q) = l + 1 /\ g = [k \in 1..l |-> g[k]]
  BY DEF Grown, Seated
<1>9. q[l+1] = n + 1 /\ \A k \in 1..l : q[k] = at[k]
  BY DEF Seated
<1> HIDE DEF l
<1>4. h = [k \in 1..l+1 |-> IF k = l + 1 THEN new ELSE g[k]]
  BY <1>3, AppendIs
<1>5. e = [k \in 1..l+1 |-> IF k = l + 1 THEN new ELSE f[k]]
  BY <1>2, <1>3, AppendIs
<1>6. ASSUME NEW k \in 1..l+1
      PROVE  (IF k = l + 1 THEN new ELSE f[k]) = Faced(d, n + 1, q, k, h[k])
  <2>1. CASE k = l + 1
    BY <1>4, <2>1 DEF l, Unchanging
  <2>2. CASE k # l + 1
    <3>1. k \in 1..l
      BY <1>3, <2>2
    <3>2. h[k] = g[k] /\ q[k] = at[k]
      BY <1>4, <1>9, <2>2, <3>1
    <3>3. Spoken(d, n + 1, at[k]) = Spoken(d, n, at[k])
      BY SpokenOther
    <3>4. f[k] = Faced(d, n, at, k, g[k])
      BY <1>1, <3>1
    <3> QED
      BY <2>2, <3>2, <3>3, <3>4 DEF Faced
  <2> QED
    BY <2>1, <2>2
<1>7. e = [k \in 1..Len(q) |-> Faced(d, n + 1, q, k, h[k])]
  BY <1>3, <1>5, <1>6
<1> QED
  BY <1>7 DEF Mirrors

\* One node is exchanged.
LEMMA MirrorsPut ==
  ASSUME NEW d, NEW n \in Nat, NEW at, NEW g, NEW f, Len(at) \in Nat,
         g = [k \in 1..Len(at) |-> g[k]], Mirrors(d, n, at, g, f), NEW m \in 1..Len(at),
         NEW node, NEW face, face = Faced(d, n, at, m, node)
  PROVE  Mirrors(d, n, at, [g EXCEPT ![m] = node], [f EXCEPT ![m] = face])
<1> DEFINE h == [g EXCEPT ![m] = node]
           e == [f EXCEPT ![m] = face]
<1>1. f = [k \in 1..Len(at) |-> Faced(d, n, at, k, g[k])]
  BY DEF Mirrors
<1>2. e = [k \in 1..Len(at) |-> IF k = m THEN face ELSE Faced(d, n, at, k, g[k])]
  BY <1>1
<1>3. h = [k \in 1..Len(at) |-> IF k = m THEN node ELSE g[k]]
  OBVIOUS
<1> HIDE DEF h, e
<1>4. \A k \in 1..Len(at) : (IF k = m THEN face ELSE Faced(d, n, at, k, g[k]))
                            = Faced(d, n, at, k, h[k])
  BY <1>3
<1>5. e = [k \in 1..Len(at) |-> Faced(d, n, at, k, h[k])]
  BY <1>2, <1>4
<1> QED
  BY <1>5 DEF Mirrors, h, e

\* The node of an element and of a comment, as they are made.
LEMMA FaceNew ==
  ASSUME NEW d, NEW n \in Nat, NEW q, NEW l, q[l] = n, NEW new,
         \/ d[n].op = "open" /\ new = B!domnode(d[n].s, NULL)
         \/ d[n].op = "comment"
  PROVE  Unchanging(d, n, q, l, new)
<1>1. CASE d[n].op = "comment"
  BY <1>1 DEF Faced, Unchanging
<1>2. CASE d[n].op # "comment"
  <2>1. new = [name |-> d[n].s, value |-> NULL, children |-> << >>, attrs |-> << >>]
    BY <1>2 DEF B!domnode
  <2>2. new.name = d[n].s /\ new.children = << >> /\ new.attrs = << >>
    BY <2>1
  <2>3. Spoken(d, n, q[l]) = NULL
    BY SpokenNew
  <2>4. Faced(d, n, q, l, new) = [name |-> d[n].s, value |-> NULL, children |-> X!Reverse(<< >>),
                                 attrs |-> X!Reverse(<< >>)]
    BY <1>2, <2>2, <2>3 DEF Faced
  <2> QED
    BY <2>1, <2>4, ReverseNone DEF Unchanging
<1> QED
  BY <1>1, <1>2

\* A node in the open element: first of its children here, and the last one
\* in the document.
LEMMA MirrorsChild ==
  ASSUME NEW d, NEW n \in Nat, NEW g, NEW at, NEW f, Grown(d, n, g, at), Mirrors(d, n, at, g, f),
         d[n+1].op \in {"open", "comment"},
         NEW m \in 1..Len(at), B!ParentOf(d, n + 1) = at[m], d[at[m]].op = "open",
         NEW new, new = IF d[n+1].op = "comment" THEN B!domnode(Comment, d[n+1].s)
                        ELSE B!domnode(d[n+1].s, NULL)
  PROVE  /\ Grown(d, n + 1, B!AppendChild(Append(g, new), m, Len(at) + 1), Append(at, n + 1))
         /\ Mirrors(d, n + 1, Append(at, n + 1), B!AppendChild(Append(g, new), m, Len(at) + 1),
                    X!PrependChild(Append(f, new), m, Len(f) + 1))
<1> DEFINE q == Append(at, n + 1)
           l == Len(at)
           h == Append(g, new)
           e == Append(f, new)
<1>1. Grown(d, n + 1, B!AppendChild(h, m, l + 1), q)
  BY GrowNode
<1>2. Rising(at, Seats(d, n)) /\ g = [k \in 1..l |-> g[k]]
  BY DEF Grown
<1>3. d[n+1].op = "open" \/ (d[n+1].op = "comment" /\ B!ParentOf(d, n + 1) # 0)
  <2>1. at[m] \in Seats(d, n)
    BY <1>2 DEF Rising
  <2>2. at[m] # 0
    BY <2>1 DEF Seats
  <2> QED
    BY <2>2
<1>4. /\ l \in Nat /\ Len(q) = l + 1 /\ q[l+1] = n + 1
      /\ \A k \in 1..l : q[k] = at[k]
  BY <1>2, <1>3, SeatNew
<1>5. n + 1 \in Nat /\ d[n+1].op # "text" /\ m \in 1..l /\ m \in 1..l+1 /\ m # l + 1
  BY <1>4
<1>6. Unchanging(d, n + 1, q, l + 1, new)
  <2> HIDE DEF q, l
  <2> QED
    BY <1>4, <1>5, FaceNew
<1>7. q[m] = at[m]
  BY <1>4
<1>20. Len(f) = l
  <2>1. f = [k \in 1..l |-> Faced(d, n, at, k, g[k])]
    BY DEF Mirrors
  <2> QED
    BY <1>4, <2>1
<1>8. Mirrors(d, n + 1, q, h, e)
  <2>1. Seated(n, at, q)
    BY <1>4 DEF Seated
  <2>2. Unchanging(d, n + 1, q, Len(at) + 1, new)
    BY <1>6
  <2>5. h = Append(g, new) /\ e = Append(f, new)
    OBVIOUS
  <2> HIDE DEF q, h, e
  <2> QED
    BY <1>5, <2>1, <2>2, <2>5, MirrorsNew
<1>9. h = [k \in 1..l+1 |-> IF k = l + 1 THEN new ELSE g[k]]
  <2> HIDE DEF l
  <2> QED
    BY <1>2, <1>4, AppendIs
<1> HIDE DEF h, e, q
<1>10. h[m] = g[m] /\ h = [k \in 1..Len(q) |-> h[k]]
  BY <1>4, <1>5, <1>9
<1>11. e[m] = Faced(d, n + 1, q, m, g[m])
  <2>1. e = [k \in 1..Len(q) |-> Faced(d, n + 1, q, k, h[k])]
    BY <1>8 DEF Mirrors
  <2> QED
    BY <1>4, <1>5, <1>10, <2>1
<1> DEFINE more == Append(g[m].children, l + 1)
           node == [g[m] EXCEPT !.children = more]
           first == <<l + 1>> \o e[m].children
           face == [e[m] EXCEPT !.children = first]
<1>12. face = Faced(d, n + 1, q, m, node)
  <2> DEFINE new1 == Spoken(d, n + 1, at[m])
             c == X!Reverse(g[m].children)
             a == X!Reverse(g[m].attrs)
  <2>1. /\ g[m] = [name |-> g[m].name, value |-> g[m].value, children |-> g[m].children,
                   attrs |-> g[m].attrs]
        /\ g[m].children \in Seq(Nat)
    BY <1>5, NodeParts
  <2>2. X!Reverse(more) = <<l + 1>> \o c
    <3>1. l + 1 \in Nat
      BY <1>4
    <3> HIDE DEF l
    <3> QED
      BY <2>1, <3>1, ReverseMore
  <2> HIDE DEF more
  <2>3. node.name = g[m].name /\ node.children = more /\ node.attrs = g[m].attrs
    BY <2>1
  <2>4. e[m] = [name |-> g[m].name, value |-> new1, children |-> c, attrs |-> a]
    BY <1>7, <1>11 DEF Faced
  <2>5. Faced(d, n + 1, q, m, node) = [name |-> g[m].name, value |-> new1,
                                      children |-> X!Reverse(more), attrs |-> a]
    BY <1>7, <2>3 DEF Faced
  <2>6. first = X!Reverse(more)
    BY <2>2, <2>4
  <2> HIDE DEF new1, c, a, first
  <2>7. face = [name |-> g[m].name, value |-> new1, children |-> first, attrs |-> a]
    BY <2>4
  <2> QED
    BY <2>5, <2>6, <2>7
<1>13. B!AppendChild(h, m, l + 1) = [h EXCEPT ![m] = node]
  BY <1>10 DEF B!AppendChild
<1>14. X!PrependChild(e, m, Len(f) + 1) = [e EXCEPT ![m] = face]
  BY <1>20 DEF X!PrependChild
<1> HIDE DEF node, face, l
<1>15. Mirrors(d, n + 1, q, [h EXCEPT ![m] = node], [e EXCEPT ![m] = face])
  <2>1. Len(q) \in Nat /\ m \in 1..Len(q)
    BY <1>4, <1>5
  <2> QED
    BY <1>5, <1>8, <1>10, <1>12, <2>1, MirrorsPut
<1>16. Mirrors(d, n + 1, q, B!AppendChild(h, m, l + 1), X!PrependChild(e, m, Len(f) + 1))
  BY <1>13, <1>14, <1>15
<1> QED
  BY <1>1, <1>16 DEF q, h, e, l

\* A comment in an element.
LEMMA MirrorComment ==
  ASSUME NEW d, NEW n \in Nat, NEW el, NEW f, Mirror(d, n, el, f), d[n+1].op = "comment",
         Len(el) # 0
  PROVE  /\ Mirror(d, n + 1, el, X!PrependChild(Append(f, B!domnode(Comment, d[n+1].s)),
                                                el[Len(el)], Len(f) + 1))
         /\ B!ParentOf(d, n + 1) # 0
<1>1. PICK g, at : Grown(d, n, g, at) /\ Stacked(d, n, el, at) /\ Mirrors(d, n, at, g, f)
  BY DEF Mirror
<1>2. el \in Seq(Nat)
  BY DEF Mirror
<1> DEFINE m == el[Len(el)]
           new == B!domnode(Comment, d[n+1].s)
           q == Append(at, n + 1)
           h == B!AppendChild(Append(g, new), m, Len(at) + 1)
           e == X!PrependChild(Append(f, new), m, Len(f) + 1)
<1>3. m \in 1..Len(at) /\ B!ParentOf(d, n + 1) = at[m] /\ d[at[m]].op = "open"
  BY <1>1, <1>2, StackedTop
<1> HIDE DEF m, new
<1>4. Grown(d, n + 1, h, q) /\ Mirrors(d, n + 1, q, h, e)
  BY <1>1, <1>3, MirrorsChild DEF new
<1>5. Rising(at, Seats(d, n))
  BY <1>1 DEF Grown
<1>6. at[m] # 0
  <2>1. at[m] \in Seats(d, n)
    BY <1>3, <1>5 DEF Rising
  <2> QED
    BY <2>1 DEF Seats
<1>7. Len(at) \in Nat /\ Len(q) = Len(at) + 1 /\ \A k \in 1..Len(at) : q[k] = at[k]
  BY <1>3, <1>5, <1>6, SeatNew
<1> HIDE DEF q, h, e
<1>8. Stacked(d, n + 1, el, at)
  <2>1. d[n+1].op \notin {"open", "close"}
    OBVIOUS
  <2> QED
    BY <1>1, <2>1, StackedNone
<1>9. Stacked(d, n + 1, el, q)
  <2>1. n + 1 \in Nat
    OBVIOUS
  <2> QED
    BY <1>7, <1>8, <2>1, StackedMore
<1>10. Mirror(d, n + 1, el, e)
  BY <1>2, <1>4, <1>9 DEF Mirror
<1> QED
  BY <1>3, <1>6, <1>10 DEF e, m, new

\* An element without its attributes.
LEMMA MirrorOpen ==
  ASSUME NEW d, NEW n \in Nat, NEW el, NEW f, Mirror(d, n, el, f), d[n+1].op = "open",
         NEW made, made = Append(f, B!domnode(d[n+1].s, NULL))
  PROVE  /\ Mirror(d, n + 1, Append(el, Len(f) + 1),
                   IF Len(el) = 0 THEN made ELSE X!PrependChild(made, el[Len(el)], Len(f) + 1))
         /\ Len(f) \in Nat
<1>1. PICK g, at : Grown(d, n, g, at) /\ Stacked(d, n, el, at) /\ Mirrors(d, n, at, g, f)
  BY DEF Mirror
<1>2. el \in Seq(Nat)
  BY DEF Mirror
<1> DEFINE m == el[Len(el)]
           q == Append(at, n + 1)
           new == B!domnode(d[n+1].s, NULL)
           e == IF Len(el) = 0 THEN made ELSE X!PrependChild(made, m, Len(f) + 1)
<1>3. Rising(at, Seats(d, n)) /\ g = [k \in 1..Len(at) |-> g[k]]
  BY <1>1 DEF Grown
<1>4. Len(at) \in Nat /\ f = [k \in 1..Len(at) |-> Faced(d, n, at, k, g[k])]
  BY <1>1, <1>3 DEF Rising, Mirrors
<1>5. Len(f) = Len(at)
  BY <1>4
<1>6. Len(q) = Len(at) + 1 /\ q[Len(at) + 1] = n + 1 /\ \A k \in 1..Len(at) : q[k] = at[k]
  BY <1>3, SeatNew
<1>7. \E h : Grown(d, n + 1, h, q) /\ Mirrors(d, n + 1, q, h, e)
  <2>1. CASE Len(el) = 0
    <3>1. B!ParentOf(d, n + 1) = 0
      BY <1>1, <1>2, <2>1, StackedTop
    <3>2. Grown(d, n + 1, Append(g, new), q)
      BY <1>1, <3>1, GrowRoot
    <3>3. n + 1 \in Nat
      OBVIOUS
    <3> DEFINE h == Append(g, new)
               i == Append(f, new)
    <3>10. h = Append(g, new) /\ i = Append(f, new)
      OBVIOUS
    <3> HIDE DEF q, new, h, i
    <3>4. Unchanging(d, n + 1, q, Len(at) + 1, new)
      BY <1>6, <3>3, FaceNew DEF new
    <3>5. d[n+1].op # "text"
      OBVIOUS
    <3>6. Seated(n, at, q)
      BY <1>4, <1>6 DEF Seated
    <3>7. Mirrors(d, n + 1, q, h, i)
      BY <1>1, <3>4, <3>5, <3>6, <3>10, MirrorsNew
    <3> QED
      BY <2>1, <3>2, <3>7 DEF new, h, i
  <2>2. CASE Len(el) # 0
    <3>1. m \in 1..Len(at) /\ B!ParentOf(d, n + 1) = at[m] /\ d[at[m]].op = "open"
      BY <1>1, <1>2, <2>2, StackedTop
    <3>2. new = IF d[n+1].op = "comment" THEN B!domnode(Comment, d[n+1].s)
                ELSE B!domnode(d[n+1].s, NULL)
      OBVIOUS
    <3>3. d[n+1].op \in {"open", "comment"}
      OBVIOUS
    <3>4. e = X!PrependChild(Append(f, new), m, Len(f) + 1)
      BY <2>2
    <3> HIDE DEF m, new, e
    <3>5. Grown(d, n + 1, B!AppendChild(Append(g, new), m, Len(at) + 1), q)
          /\ Mirrors(d, n + 1, q, B!AppendChild(Append(g, new), m, Len(at) + 1),
                     X!PrependChild(Append(f, new), m, Len(f) + 1))
      BY <1>1, <3>1, <3>2, <3>3, MirrorsChild
    <3> QED
      BY <3>4, <3>5
  <2> QED
    BY <2>1, <2>2
<1> HIDE DEF q
<1>8. Stacked(d, n, el, q)
  BY <1>1, <1>4, <1>6, StackedMore
<1>9. Len(at) + 1 \in 1..Len(q)
  BY <1>4, <1>6
<1>10. Stacked(d, n + 1, Append(el, Len(at) + 1), q)
  BY <1>2, <1>6, <1>8, <1>9, StackedOpen
<1>11. Append(el, Len(at) + 1) \in Seq(Nat)
  BY <1>2, <1>4
<1>12. Mirror(d, n + 1, Append(el, Len(at) + 1), e)
  <2> HIDE DEF e
  <2> QED
    BY <1>7, <1>10, <1>11 DEF Mirror
<1> QED
  BY <1>4, <1>5, <1>12

-----------------------------------------------------------------------------
(* What the handlers have collected of a document: the tree, and the text  *)
(* since the last tag as far as it fits the buffer.                        *)
Collected(d, el, f, c, w) ==
  /\ d \in Seq(Marks)
  /\ \A j \in 1..Len(d) : /\ d[j].op = "open" => d[j].s \in Names
                          /\ d[j].op = "text" => d[j].s \in Pieces
  /\ Mirror(d, Len(d), el, f)
  /\ c = X!Fitting(RunAt(d, Len(d))) /\ c \in Seq(Pieces)
  /\ w = X!Length(c) /\ w \in Nat /\ w < CDATA - 1
  /\ Len(c) # 0 => Len(el) # 0 /\ f[el[Len(el)]].value = c

\* q is d and the event e.
Longer(d, q, e) ==
  /\ q \in Seq(Marks) /\ Len(q) = Len(d) + 1 /\ q[Len(d) + 1] = e
  /\ \A j \in 1..Len(d) : q[j] = d[j]

\* A document and one more event.
LEMMA OneMore ==
  ASSUME NEW d \in Seq(Marks), NEW e \in Marks
  PROVE  Longer(d, d \o <<e>>, e)
<1> HIDE DEF Marks
<1>1. <<e>> \in Seq(Marks) /\ Len(<<e>>) = 1 /\ <<e>>[1] = e
  OBVIOUS
<1> DEFINE q == d \o <<e>>
<1>2. q \in Seq(Marks) /\ Len(q) = Len(d) + 1 /\ q[Len(d) + 1] = e /\ \A j \in 1..Len(d) : q[j] = d[j]
  BY <1>1
<1> QED
  BY <1>2 DEF Longer

\* The nodes, and the one that is open.
LEMMA MirrorNodes ==
  ASSUME NEW d, NEW n \in Nat, NEW el, NEW f, Mirror(d, n, el, f)
  PROVE  /\ Len(f) \in Nat /\ f = [k \in 1..Len(f) |-> f[k]]
         /\ \A k \in 1..Len(f) :
              f[k] = [name |-> f[k].name, value |-> f[k].value, children |-> f[k].children,
                      attrs |-> f[k].attrs]
         /\ Len(el) \in Nat /\ el \in Seq(Nat)
         /\ Len(el) # 0 => el[Len(el)] \in 1..Len(f)
<1>1. PICK g, at : Grown(d, n, g, at) /\ Stacked(d, n, el, at) /\ Mirrors(d, n, at, g, f)
  BY DEF Mirror
<1>2. el \in Seq(Nat) /\ Len(el) \in Nat
  BY DEF Mirror
<1>3. Len(at) \in Nat
  BY <1>1, SeatsDiffer
<1>4. f = [k \in 1..Len(at) |-> Faced(d, n, at, k, g[k])]
  BY <1>1 DEF Mirrors
<1>5. Len(f) = Len(at) /\ f = [k \in 1..Len(f) |-> f[k]]
  BY <1>3, <1>4
<1>6. ASSUME NEW k \in 1..Len(at)
      PROVE  f[k] = [name |-> f[k].name, value |-> f[k].value, children |-> f[k].children,
                     attrs |-> f[k].attrs]
  <2>1. f[k] = Faced(d, n, at, k, g[k])
    BY <1>4
  <2>2. CASE d[at[k]].op = "comment"
    <3>1. f[k] = g[k]
      BY <2>1, <2>2 DEF Faced
    <3>2. g[k] = [name |-> g[k].name, value |-> g[k].value, children |-> g[k].children,
                  attrs |-> g[k].attrs]
      BY <1>1, NodeParts
    <3> QED
      BY <3>1, <3>2
  <2>3. CASE d[at[k]].op # "comment"
    BY <2>1, <2>3 DEF Faced
  <2> QED
    BY <2>2, <2>3
<1>7. Len(el) # 0 => el[Len(el)] \in 1..Len(f)
  BY <1>1, <1>2, <1>5, StackedTop, ZenonT(40)
<1> QED
  BY <1>2, <1>3, <1>5, <1>6, <1>7

\* The tree and the run of the longer document.
LEMMA Lengthened ==
  ASSUME NEW d, NEW el, NEW f, NEW c, NEW w, Collected(d, el, f, c, w),
         NEW q, NEW e, Longer(d, q, e), e.op = "open" => e.s \in Names, e.op = "text" => e.s \in Pieces
  PROVE  LET n == Len(d)
         IN  /\ n \in Nat /\ q[n+1] = e /\ Len(q) = n + 1 /\ q \in Seq(Marks)
             /\ \A j \in 1..Len(q) : /\ q[j].op = "open" => q[j].s \in Names
                                     /\ q[j].op = "text" => q[j].s \in Pieces
             /\ Mirror(q, n, el, f)
             /\ c = X!Fitting(RunAt(q, n)) /\ RunAt(q, n) \in Seq(Pieces)
<1> DEFINE n == Len(d)
<1>1. n \in Nat
  BY DEF Collected
<1>2. q[n+1] = e /\ Len(q) = n + 1 /\ q \in Seq(Marks) /\ \A j \in 1..n : q[j] = d[j]
  BY DEF Longer
<1>3. /\ \A j \in 1..n : /\ d[j].op = "open" => d[j].s \in Names
                         /\ d[j].op = "text" => d[j].s \in Pieces
      /\ Mirror(d, n, el, f) /\ c = X!Fitting(RunAt(d, n))
  BY DEF Collected
<1> HIDE DEF n
<1>4. Mirror(q, n, el, f)
  <2>1. \A j \in 1..n : d[j] = q[j]
    BY <1>2
  <2> QED
    BY <1>1, <1>3, <2>1, MirrorSame
<1>5. RunAt(q, n) = RunAt(d, n)
  BY <1>1, <1>2, RunSame
<1>6. RunAt(d, n) \in Seq(Pieces)
  BY <1>1, <1>3, RunPieces
<1>7. ASSUME NEW j \in 1..n+1
      PROVE  /\ q[j].op = "open" => q[j].s \in Names
             /\ q[j].op = "text" => q[j].s \in Pieces
  <2>1. j = n + 1 \/ j \in 1..n
    BY <1>1
  <2> QED
    BY <1>2, <1>3, <2>1
<1> QED
  BY <1>1, <1>2, <1>3, <1>4, <1>5, <1>6, <1>7 DEF n

\* After a tag the buffer is empty.
LEMMA CollectedTag ==
  ASSUME NEW q \in Seq(Marks), NEW el, NEW f, NEW n \in Nat, Len(q) = n + 1,
         \A j \in 1..Len(q) : /\ q[j].op = "open" => q[j].s \in Names
                              /\ q[j].op = "text" => q[j].s \in Pieces,
         Mirror(q, n + 1, el, f), RunAt(q, n + 1) = << >>
  PROVE  Collected(q, el, f, << >>, 0)
<1>1. Mirror(q, Len(q), el, f) /\ X!Fitting(RunAt(q, Len(q))) = << >>
  BY FittingNone
<1>2. X!Length(<< >>) = 0 /\ << >> \in Seq(Pieces) /\ Len(<< >>) = 0
  BY LengthNone
<1>3. 0 \in Nat /\ 0 < CDATA - 1
  BY BuildersAssumption DEF X!PiecesAssumption
<1> QED
  BY <1>1, <1>2, <1>3 DEF Collected

\* What is collected after each kind of event: a start tag is a first child
\* of the innermost element, and empties the buffer;
LEMMA CollectedOpen ==
  ASSUME NEW d, NEW el, NEW f, NEW c, NEW w, Collected(d, el, f, c, w),
         NEW q, NEW e, Longer(d, q, e), e.op = "open", e.s \in Names,
         NEW made, made = Append(f, B!domnode(e.s, NULL))
  PROVE  Collected(q, Append(el, Len(f) + 1),
                   IF Len(el) = 0 THEN made ELSE X!PrependChild(made, el[Len(el)], Len(f) + 1),
                   << >>, 0)
<1> DEFINE n == Len(d)
           g == IF Len(el) = 0 THEN made ELSE X!PrependChild(made, el[Len(el)], Len(f) + 1)
<1>1. /\ n \in Nat /\ q[n+1] = e /\ Len(q) = n + 1 /\ q \in Seq(Marks)
      /\ \A j \in 1..Len(q) : /\ q[j].op = "open" => q[j].s \in Names
                              /\ q[j].op = "text" => q[j].s \in Pieces
      /\ Mirror(q, n, el, f)
  BY Lengthened
<1> HIDE DEF n
<1>2. Mirror(q, n + 1, Append(el, Len(f) + 1), g)
  BY <1>1, MirrorOpen
<1>3. RunAt(q, n + 1) = << >>
  BY <1>1, RunTag
<1> HIDE DEF g
<1> QED
  BY <1>1, <1>2, <1>3, CollectedTag DEF g

\* an end tag leaves the tree, and empties the buffer;
LEMMA CollectedClose ==
  ASSUME NEW d, NEW el, NEW f, NEW c, NEW w, Collected(d, el, f, c, w),
         NEW q, NEW e, Longer(d, q, e), e.op = "close", Len(el) # 0
  PROVE  Collected(q, SubSeq(el, 1, Len(el) - 1), f, << >>, 0)
<1> DEFINE n == Len(d)
<1>1. /\ n \in Nat /\ q[n+1] = e /\ Len(q) = n + 1 /\ q \in Seq(Marks)
      /\ \A j \in 1..Len(q) : /\ q[j].op = "open" => q[j].s \in Names
                              /\ q[j].op = "text" => q[j].s \in Pieces
      /\ Mirror(q, n, el, f)
  BY Lengthened
<1> HIDE DEF n
<1>2. Mirror(q, n + 1, SubSeq(el, 1, Len(el) - 1), f)
  <2>1. Len(el) \in Nat
    BY <1>1, MirrorNodes
  <2>2. Len(el) > 0
    BY <2>1
  <2> QED
    BY <1>1, <2>2, MirrorClose
<1>3. RunAt(q, n + 1) = << >>
  BY <1>1, RunTag
<1> QED
  BY <1>1, <1>2, <1>3, CollectedTag

\* an attribute is put before the others.
LEMMA CollectedAttr ==
  ASSUME NEW d, NEW el, NEW f, Collected(d, el, f, << >>, 0), RunAt(d, Len(d)) = << >>,
         NEW q, NEW e, Longer(d, q, e), e.op = "attr", Len(el) # 0,
         NEW x, x = <<e.s, e.v>>
  PROVE  /\ Collected(q, el, [f EXCEPT ![el[Len(el)]].attrs = <<x>> \o @], << >>, 0)
         /\ RunAt(q, Len(q)) = << >>
<1> DEFINE n == Len(d)
           g == [f EXCEPT ![el[Len(el)]].attrs = <<x>> \o @]
<1>1. /\ n \in Nat /\ q[n+1] = e /\ Len(q) = n + 1 /\ q \in Seq(Marks)
      /\ \A j \in 1..Len(q) : /\ q[j].op = "open" => q[j].s \in Names
                              /\ q[j].op = "text" => q[j].s \in Pieces
      /\ Mirror(q, n, el, f)
  BY Lengthened
<1>2. RunAt(q, n) = << >>
  <2>1. \A j \in 1..n : q[j] = d[j]
    BY DEF Longer
  <2> QED
    BY <1>1, <2>1, RunSame
<1> HIDE DEF n
<1>3. Mirror(q, n + 1, el, g)
  BY <1>1, MirrorAttr
<1>4. RunAt(q, n + 1) = << >>
  BY <1>1, <1>2, RunOther
<1> HIDE DEF g
<1>5. Collected(q, el, g, << >>, 0)
  BY <1>1, <1>3, <1>4, CollectedTag
<1> QED
  BY <1>1, <1>4, <1>5 DEF g

\* A piece of text fits or does not.
LEMMA CollectedText ==
  ASSUME NEW d, NEW el, NEW f, NEW c, NEW w, Collected(d, el, f, c, w),
         NEW q, NEW e, Longer(d, q, e), e.op = "text", e.s \in Pieces, Len(el) # 0
  PROVE  IF e.s.len = 0 \/ ~ (w + e.s.len < CDATA - 1) THEN Collected(q, el, f, c, w)
         ELSE Collected(q, el, [f EXCEPT ![el[Len(el)]].value = Append(c, e.s)],
                        Append(c, e.s), w + e.s.len)
<1> DEFINE n == Len(d)
           p == e.s
           skip == p.len = 0 \/ ~ (w + p.len < CDATA - 1)
           kept == IF skip THEN c ELSE Append(c, p)
<1>1. /\ n \in Nat /\ q[n+1] = e /\ Len(q) = n + 1 /\ q \in Seq(Marks)
      /\ \A j \in 1..Len(q) : /\ q[j].op = "open" => q[j].s \in Names
                              /\ q[j].op = "text" => q[j].s \in Pieces
      /\ Mirror(q, n, el, f)
      /\ c = X!Fitting(RunAt(q, n)) /\ RunAt(q, n) \in Seq(Pieces)
  BY Lengthened
<1>2. /\ c \in Seq(Pieces) /\ w = X!Length(c) /\ w \in Nat /\ w < CDATA - 1
      /\ Len(c) # 0 => f[el[Len(el)]].value = c
  BY DEF Collected
<1>3. CDATA \in Nat /\ p.len \in Nat
  BY BuildersAssumption DEF X!PiecesAssumption
<1> HIDE DEF n
<1>4. RunAt(q, n + 1) = Append(RunAt(q, n), p)
  BY <1>1, RunText
<1>5. X!Fitting(RunAt(q, n + 1)) = More(c, p)
  <2> HIDE DEF p
  <2>1. p \in Pieces
    BY DEF p
  <2> QED
    BY <1>1, <1>4, <2>1, FittingMore
<1>6. More(c, p) = kept
  <2>1. skip <=> p.len = 0 \/ w + p.len + 2 > CDATA
    BY <1>2, <1>3
  <2> HIDE DEF skip, p
  <2> QED
    BY <1>2, <2>1 DEF More
<1>7. CASE skip
  <2>1. kept = c
    BY <1>7
  <2>2. f = IF kept = << >> THEN f ELSE [f EXCEPT ![el[Len(el)]].value = kept]
    <3> DEFINE m == el[Len(el)]
    <3>1. SUFFICES ASSUME c # << >> PROVE f = [f EXCEPT ![m].value = c]
      BY <2>1
    <3>2. Len(c) # 0
      BY <1>2, <3>1
    <3>3. /\ f = [k \in 1..Len(f) |-> f[k]] /\ m \in 1..Len(f)
          /\ f[m] = [name |-> f[m].name, value |-> f[m].value, children |-> f[m].children,
                     attrs |-> f[m].attrs]
      BY <1>1, MirrorNodes
    <3> HIDE DEF m
    <3>4. f[m].value = c
      BY <1>2, <3>2 DEF m
    <3>5. [f[m] EXCEPT !.value = c] = f[m]
      BY <3>3, <3>4
    <3>6. [f EXCEPT ![m] = f[m]] = f
      BY <3>3
    <3>7. [f EXCEPT ![m].value = c] = [f EXCEPT ![m] = [f[m] EXCEPT !.value = c]]
      OBVIOUS
    <3> QED
      BY <3>5, <3>6, <3>7
  <2>3. kept = X!Fitting(RunAt(q, n + 1))
    BY <1>5, <1>6
  <2> HIDE DEF kept
  <2>4. Mirror(q, n + 1, el, f)
    BY <1>1, <2>2, <2>3, MirrorText
  <2>5. Collected(q, el, f, c, w)
    <3>1. c = X!Fitting(RunAt(q, Len(q))) /\ Mirror(q, Len(q), el, f)
      BY <1>1, <2>1, <2>3, <2>4
    <3> QED
      BY <1>1, <1>2, <3>1 DEF Collected
  <2> QED
    BY <1>7, <2>5
<1>8. CASE ~ skip
  <2> DEFINE g == [f EXCEPT ![el[Len(el)]].value = kept]
  <2>1. kept = Append(c, p)
    BY <1>8
  <2>2. kept # << >> /\ Len(kept) # 0 /\ kept \in Seq(Pieces)
    <3>1. p \in Pieces
      OBVIOUS
    <3> HIDE DEF p, kept
    <3> QED
      BY <1>2, <2>1, <3>1
  <2>3. kept = X!Fitting(RunAt(q, n + 1))
    BY <1>5, <1>6
  <2>4. X!Length(kept) = w + p.len /\ w + p.len \in Nat /\ w + p.len < CDATA - 1
    <3>1. p \in Pieces
      OBVIOUS
    <3>2. X!Length(kept) = w + p.len
      <4> HIDE DEF p, kept
      <4> QED
        BY <1>2, <2>1, <3>1, LengthMore
    <3>3. w + p.len < CDATA - 1
      BY <1>8
    <3> HIDE DEF p, kept
    <3> QED
      BY <1>2, <1>3, <3>2, <3>3
  <2> HIDE DEF kept
  <2>5. g = IF kept = << >> THEN f ELSE [f EXCEPT ![el[Len(el)]].value = kept]
    BY <2>2
  <2>6. Mirror(q, n + 1, el, g)
    <3> HIDE DEF g
    <3> QED
      BY <1>1, <2>3, <2>5, MirrorText
  <2>7. g[el[Len(el)]].value = kept
    <3> DEFINE m == el[Len(el)]
    <3>1. /\ f = [k \in 1..Len(f) |-> f[k]] /\ m \in 1..Len(f)
          /\ f[m] = [name |-> f[m].name, value |-> f[m].value, children |-> f[m].children,
                     attrs |-> f[m].attrs]
      BY <1>1, MirrorNodes
    <3> HIDE DEF m
    <3>2. [f[m] EXCEPT !.value = kept].value = kept
      BY <3>1
    <3>3. [f EXCEPT ![m].value = kept][m] = [f[m] EXCEPT !.value = kept]
      BY <3>1
    <3> QED
      BY <3>2, <3>3 DEF m
  <2>8. Collected(q, el, g, kept, w + p.len)
    <3>1. kept = X!Fitting(RunAt(q, Len(q))) /\ Mirror(q, Len(q), el, g)
      BY <1>1, <2>3, <2>6
    <3> HIDE DEF g
    <3> QED
      BY <1>1, <2>2, <2>4, <2>7, <3>1 DEF Collected
  <2> QED
    BY <1>8, <2>1, <2>8
<1> QED
  BY <1>7, <1>8

\* A comment leaves the buffer.
LEMMA CollectedComment ==
  ASSUME NEW d, NEW el, NEW f, NEW c, NEW w, Collected(d, el, f, c, w),
         NEW q, NEW e, Longer(d, q, e), e.op = "comment"
  PROVE  IF Len(el) = 0 THEN Collected(q, el, f, c, w) /\ B!ParentOf(q, Len(d) + 1) = 0
         ELSE /\ Collected(q, el, X!PrependChild(Append(f, B!domnode(Comment, e.s)),
                                                 el[Len(el)], Len(f) + 1), c, w)
              /\ B!ParentOf(q, Len(d) + 1) # 0
<1> DEFINE n == Len(d)
<1>1. /\ n \in Nat /\ q[n+1] = e /\ Len(q) = n + 1 /\ q \in Seq(Marks)
      /\ \A j \in 1..Len(q) : /\ q[j].op = "open" => q[j].s \in Names
                              /\ q[j].op = "text" => q[j].s \in Pieces
      /\ Mirror(q, n, el, f)
      /\ c = X!Fitting(RunAt(q, n))
  BY Lengthened
<1>2. /\ c \in Seq(Pieces) /\ w = X!Length(c) /\ w \in Nat /\ w < CDATA - 1
      /\ Len(c) # 0 => Len(el) # 0 /\ f[el[Len(el)]].value = c
  BY DEF Collected
<1> HIDE DEF n
<1>3. c = X!Fitting(RunAt(q, Len(q)))
  <2>1. RunAt(q, n + 1) = RunAt(q, n)
    BY <1>1, RunOther
  <2> QED
    BY <1>1, <2>1
<1>4. CASE Len(el) = 0
  <2>1. Mirror(q, n + 1, el, f) /\ B!ParentOf(q, n + 1) = 0
    BY <1>1, <1>4, MirrorOutside
  <2>2. Mirror(q, Len(q), el, f)
    BY <1>1, <2>1
  <2>3. Collected(q, el, f, c, w)
    BY <1>1, <1>2, <1>3, <2>2 DEF Collected
  <2> QED
    BY <1>4, <2>1, <2>3 DEF n
<1>5. CASE Len(el) # 0
  <2> DEFINE m == el[Len(el)]
             new == B!domnode(Comment, e.s)
             h == Append(f, new)
             g == X!PrependChild(h, m, Len(f) + 1)
  <2>1. Mirror(q, n + 1, el, g) /\ B!ParentOf(q, n + 1) # 0
    BY <1>1, <1>5, MirrorComment
  <2>2. Mirror(q, Len(q), el, g)
    BY <1>1, <2>1
  <2>3. g[m].value = f[m].value
    <3>1. /\ Len(f) \in Nat /\ f = [k \in 1..Len(f) |-> f[k]] /\ m \in 1..Len(f)
          /\ f[m] = [name |-> f[m].name, value |-> f[m].value, children |-> f[m].children,
                     attrs |-> f[m].attrs]
      BY <1>1, <1>5, MirrorNodes
    <3> HIDE DEF m, new
    <3>2. h = [k \in 1..Len(f)+1 |-> IF k = Len(f) + 1 THEN new ELSE f[k]]
      BY <3>1, AppendIs
    <3> HIDE DEF h
    <3>3. m \in 1..Len(f)+1 /\ m # Len(f) + 1
      BY <3>1
    <3>4. h[m] = f[m]
      BY <3>2, <3>3
    <3> DEFINE first == <<Len(f) + 1>> \o f[m].children
    <3>5. g = [h EXCEPT ![m] = [f[m] EXCEPT !.children = first]]
      BY <3>4 DEF X!PrependChild
    <3> HIDE DEF g, first
    <3>6. g[m] = [f[m] EXCEPT !.children = first]
      BY <3>2, <3>3, <3>5
    <3>7. [f[m] EXCEPT !.children = first].value = f[m].value
      BY <3>1
    <3> QED
      BY <3>6, <3>7
  <2> HIDE DEF g
  <2>4. Collected(q, el, g, c, w)
    <3>1. Len(c) # 0 => Len(el) # 0 /\ g[el[Len(el)]].value = c
      BY <1>2, <2>3
    <3> QED
      BY <1>1, <1>2, <1>3, <2>2, <3>1 DEF Collected
  <2> QED
    BY <1>5, <2>1, <2>4 DEF g, h, new, m, n
<1> QED
  BY <1>4, <1>5

\* Before any event.
LEMMA CollectedStart == Collected(<< >>, << >>, << >>, << >>, 0)
<1> DEFINE d == << >>
<1>1. d \in Seq(Marks) /\ Len(d) = 0 /\ 1..Len(d) = {}
  OBVIOUS
<1>2. RunAt(d, 0) = << >> /\ X!Fitting(<< >>) = << >> /\ X!Length(<< >>) = 0
  BY RunStart, FittingNone, LengthNone
<1>3. Mirror(d, 0, << >>, << >>)
  BY MirrorStart
<1>4. << >> \in Seq(Pieces) /\ Len(<< >>) = 0 /\ 0 \in Nat
  OBVIOUS
<1>5. 0 < CDATA - 1
  BY BuildersAssumption DEF X!PiecesAssumption
<1> QED
  BY <1>1, <1>2, <1>3, <1>4, <1>5 DEF Collected

-----------------------------------------------------------------------------
\* A comment outside of the root, at which the program aborts.
Outside(d) == \E j \in 1..Len(d) : d[j].op = "comment" /\ B!ParentOf(d, j) = 0

\* A comment is outside if it was, or comes now and nothing is open.
LEMMA OutsideMore ==
  ASSUME NEW d \in Seq(Marks), NEW q, NEW e, Longer(d, q, e)
  PROVE  Outside(q) <=> Outside(d) \/ (e.op = "comment" /\ B!ParentOf(q, Len(d) + 1) = 0)
<1> DEFINE n == Len(d)
<1>1. n \in Nat
  OBVIOUS
<1>2. Len(q) = n + 1 /\ q[n+1] = e /\ \A j \in 1..n : q[j] = d[j]
  BY DEF Longer
<1> HIDE DEF n
<1>3. \A j \in 1..n : B!ParentOf(q, j) = B!ParentOf(d, j)
  <2> SUFFICES ASSUME NEW j \in 1..n PROVE B!ParentOf(q, j) = B!ParentOf(d, j)
    OBVIOUS
  <2>1. j \in 1..n+1 /\ \A i \in 1..n : q[i].op = d[i].op
    BY <1>1, <1>2
  <2> QED
    BY <1>1, <2>1, ParentSame
<1>4. \A j \in 1..n+1 : j = n + 1 \/ j \in 1..n
  BY <1>1
<1>5. n + 1 \in 1..n+1 /\ \A j \in 1..n : j \in 1..n+1
  BY <1>1
<1>6. Outside(q) <=> \E j \in 1..n+1 : q[j].op = "comment" /\ B!ParentOf(q, j) = 0
  BY <1>2 DEF Outside
<1>7. Outside(d) <=> \E j \in 1..n : d[j].op = "comment" /\ B!ParentOf(d, j) = 0
  BY DEF Outside, n
<1>8. Outside(q) <=> Outside(d) \/ (e.op = "comment" /\ B!ParentOf(q, n + 1) = 0)
  BY <1>2, <1>3, <1>4, <1>5, <1>6, <1>7
<1> QED
  BY <1>8 DEF n

\* The tree with a new element of these attributes.
Begun(el, f, name, a) ==
  LET made == Append(f, [B!domnode(name, NULL) EXCEPT !.attrs = a])
  IN  IF Len(el) = 0 THEN made ELSE X!PrependChild(made, el[Len(el)], Len(f) + 1)

\* One attribute more, in front of the others.
Adds(el, f, name, a, x) ==
  [Begun(el, f, name, a) EXCEPT ![Len(f) + 1].attrs = <<x>> \o @]
  = Begun(el, f, name, <<x>> \o a)

\* An attribute that is put before the others of a node that was begun.
LEMMA BegunMore ==
  ASSUME NEW el, NEW f, NEW name, NEW a, NEW x, Len(f) \in Nat, f = [k \in 1..Len(f) |-> f[k]],
         Len(el) # 0 => el[Len(el)] \in 1..Len(f)
  PROVE  Adds(el, f, name, a, x)
<1> DEFINE l == Len(f)
           m == el[Len(el)]
           b == <<x>> \o a
           child == [B!domnode(name, NULL) EXCEPT !.attrs = a]
           other == [B!domnode(name, NULL) EXCEPT !.attrs = b]
           h == Append(f, child)
           i == Append(f, other)
<1>1. [child EXCEPT !.attrs = <<x>> \o @] = other
  <2>1. B!domnode(name, NULL) = [name |-> name, value |-> NULL, children |-> << >>, attrs |-> << >>]
    BY DEF B!domnode
  <2>2. child.attrs = a
    BY <2>1
  <2>3. [child EXCEPT !.attrs = <<x>> \o @] = [child EXCEPT !.attrs = b]
    BY <2>2
  <2> HIDE DEF b
  <2>4. [child EXCEPT !.attrs = b] = other
    BY <2>1
  <2> HIDE DEF child, other
  <2> QED
    BY <2>3, <2>4
<1> HIDE DEF child, other
<1>2. l \in Nat /\ f = [k \in 1..l |-> f[k]]
  OBVIOUS
<1> HIDE DEF l
<1>3. h = [k \in 1..l+1 |-> IF k = l + 1 THEN child ELSE f[k]]
  BY <1>2, AppendIs
<1>4. i = [k \in 1..l+1 |-> IF k = l + 1 THEN other ELSE f[k]]
  BY <1>2, AppendIs
<1>5. l + 1 \in 1..l+1
  BY <1>2
<1> HIDE DEF h, i
<1>6. CASE Len(el) = 0
  <2>1. Begun(el, f, name, a) = h /\ Begun(el, f, name, b) = i
    BY <1>6 DEF Begun, h, i, child, other
  <2>2. [h EXCEPT ![l + 1].attrs = <<x>> \o @] = [h EXCEPT ![l + 1] = other]
    BY <1>1, <1>3, <1>5
  <2>3. [h EXCEPT ![l + 1] = other] = i
    BY <1>3, <1>4, <1>5
  <2> QED
    BY <2>1, <2>2, <2>3 DEF l, Adds
<1>7. CASE Len(el) # 0
  <2> DEFINE first == <<l + 1>> \o f[m].children
             parent == [f[m] EXCEPT !.children = first]
             u == X!PrependChild(h, m, l + 1)
             v == X!PrependChild(i, m, l + 1)
  <2>1. Begun(el, f, name, a) = u /\ Begun(el, f, name, b) = v
    BY <1>7 DEF Begun, h, i, child, other, l
  <2>2. m \in 1..l+1 /\ m # l + 1 /\ l + 1 # m
    BY <1>2, <1>7 DEF l
  <2> HIDE DEF m
  <2>3. h[m] = f[m] /\ i[m] = f[m]
    BY <1>3, <1>4, <2>2
  <2>4. u = [h EXCEPT ![m] = parent] /\ v = [i EXCEPT ![m] = parent]
    BY <2>3 DEF X!PrependChild
  <2> HIDE DEF parent, u, v
  <2>5. u = [k \in 1..l+1 |-> IF k = l + 1 THEN child ELSE IF k = m THEN parent ELSE f[k]]
    BY <1>3, <2>2, <2>4
  <2>6. v = [k \in 1..l+1 |-> IF k = l + 1 THEN other ELSE IF k = m THEN parent ELSE f[k]]
    BY <1>4, <2>2, <2>4
  <2>7. [u EXCEPT ![l + 1].attrs = <<x>> \o @] = [u EXCEPT ![l + 1] = other]
    BY <1>1, <1>5, <2>5
  <2>8. [u EXCEPT ![l + 1] = other] = v
    BY <1>5, <2>5, <2>6
  <2> QED
    BY <2>1, <2>7, <2>8 DEF l, Adds
<1> QED
  BY <1>6, <1>7

\* Concatenated one by one.
LEMMA Lined ==
  ASSUME NEW S, NEW d \in Seq(S), NEW s \in Seq(S), NEW x \in S
  PROVE  d \o Append(s, x) = (d \o s) \o <<x>>
<1> DEFINE y == <<x>>
           t == Append(s, x)
           a == d \o t
           b == d \o s
           c == b \o y
<1>1. y \in Seq(S) /\ Len(y) = 1 /\ y[1] = x
  OBVIOUS
<1> HIDE DEF y
<1>2. t \in Seq(S) /\ Len(t) = Len(s) + 1 /\ t[Len(s)+1] = x /\ \A i \in 1..Len(s) : t[i] = s[i]
  OBVIOUS
<1>3. b \in Seq(S) /\ Len(b) = Len(d) + Len(s) /\ \A i \in 1..Len(b) :
        b[i] = IF i <= Len(d) THEN d[i] ELSE s[i - Len(d)]
  OBVIOUS
<1> HIDE DEF t, b
<1>4. a \in Seq(S) /\ Len(a) = Len(d) + Len(t) /\ \A i \in 1..Len(a) :
        a[i] = IF i <= Len(d) THEN d[i] ELSE t[i - Len(d)]
  BY <1>2
<1>5. c \in Seq(S) /\ Len(c) = Len(b) + 1 /\ c[Len(b)+1] = x /\ \A i \in 1..Len(b) : c[i] = b[i]
  <2>1. b \in Seq(S) /\ Len(b) \in Nat
    BY <1>3
  <2>2. c \in Seq(S) /\ Len(c) = Len(b) + Len(y)
    <3>1. b \in Seq(S) /\ y \in Seq(S)
      BY <1>1, <2>1
    <3>2. c \in Seq(S)
      BY <3>1
    <3>3. Len(c) = Len(b) + Len(y)
      BY <3>1
    <3> QED
      BY <3>2, <3>3
  <2>3. \A i \in 1..Len(c) : c[i] = IF i <= Len(b) THEN b[i] ELSE y[i - Len(b)]
    BY <1>1, <2>1
  <2>4. ~ (Len(b) + 1 <= Len(b)) /\ Len(b) + 1 - Len(b) = 1 /\ \A i \in 1..Len(b) : i <= Len(b)
    BY <2>1
  <2>5. Len(b) + 1 \in 1..Len(b)+1 /\ \A i \in 1..Len(b) : i \in 1..Len(b)+1
    BY <2>1
  <2> HIDE DEF c
  <2> QED
    BY <1>1, <2>2, <2>3, <2>4, <2>5
<1> HIDE DEF a, c
<1> DEFINE m == Len(d)
           n == Len(s)
<1>6. m \in Nat /\ n \in Nat /\ Len(a) = m + n + 1 /\ Len(c) = m + n + 1 /\ Len(b) = m + n
      /\ Len(t) = n + 1
  BY <1>2, <1>3, <1>4, <1>5
<1>7. ASSUME NEW i \in 1..m+n+1 PROVE a[i] = c[i]
  <2>1. a[i] = IF i <= m THEN d[i] ELSE t[i - m]
    BY <1>4, <1>6
  <2>2. CASE i = m + n + 1
    <3>1. ~ (i <= m) /\ i - m = n + 1
      BY <1>6, <2>2
    <3> QED
      BY <1>2, <1>5, <1>6, <2>1, <2>2, <3>1
  <2>3. CASE i # m + n + 1
    <3>1. i \in 1..m+n /\ (i <= m \/ i - m \in 1..n)
      BY <1>6, <2>3
    <3>2. c[i] = b[i]
      BY <1>5, <1>6, <3>1
    <3>3. b[i] = IF i <= m THEN d[i] ELSE s[i - m]
      BY <1>3, <1>6, <3>1
    <3> QED
      BY <1>2, <2>1, <3>1, <3>2, <3>3
  <2> QED
    BY <2>2, <2>3
<1>8. a = [i \in 1..m+n+1 |-> a[i]] /\ c = [i \in 1..m+n+1 |-> c[i]]
  BY <1>4, <1>5, <1>6
<1>9. a = c
  BY <1>7, <1>8
<1> QED
  BY <1>9 DEF a, c, t, b, y

\* The start tag: an element and up to two attributes.
Attribute(x) == X!Event("attr", x[1], x[2])
Tag(name, atts) == <<X!Event("open", name, NULL)>> \o [j \in DOMAIN atts |-> Attribute(atts[j])]

\* The events of a tag: one for its name,
LEMMA TagNone ==
  ASSUME NEW name
  PROVE  Tag(name, << >>) = <<X!Event("open", name, NULL)>>
<1>1. DOMAIN << >> = {} 
  OBVIOUS
<1>2. [j \in DOMAIN << >> |-> Attribute(<< >>[j])] = << >>
  BY <1>1
<1> DEFINE e == X!Event("open", name, NULL)
<1>3. <<e>> \o << >> = <<e>>
  <2> HIDE DEF e
  <2>1. <<e>> \in Seq({e})
    OBVIOUS
  <2> QED
    BY <2>1
<1> QED
  BY <1>2, <1>3 DEF Tag

\* one for its first attribute,
LEMMA TagOne ==
  ASSUME NEW name, NEW x
  PROVE  Tag(name, <<x>>) = Append(Tag(name, << >>), Attribute(x))
<1> DEFINE e == X!Event("open", name, NULL)
           a == Attribute(x)
           s == <<x>>
<1>1. DOMAIN s = 1..1 /\ s[1] = x
  OBVIOUS
<1>2. [j \in DOMAIN s |-> Attribute(s[j])] = <<a>>
  BY <1>1
<1>3. Tag(name, s) = <<e>> \o <<a>>
  BY <1>2 DEF Tag
<1>4. Tag(name, << >>) = <<e>>
  BY TagNone
<1> HIDE DEF e, a
<1>5. <<e>> \o <<a>> = Append(<<e>>, a)
  OBVIOUS
<1> QED
  BY <1>3, <1>4, <1>5 DEF a

\* and one for its second.
LEMMA TagTwo ==
  ASSUME NEW name, NEW x, NEW y
  PROVE  Tag(name, <<x, y>>) = Append(Tag(name, <<x>>), Attribute(y))
<1> DEFINE e == X!Event("open", name, NULL)
           a == Attribute(x)
           b == Attribute(y)
           s == <<x, y>>
<1>1. DOMAIN s = 1..2 /\ s[1] = x /\ s[2] = y
  OBVIOUS
<1>2. [j \in DOMAIN s |-> Attribute(s[j])] = <<a, b>>
  BY <1>1
<1>3. Tag(name, s) = <<e>> \o <<a, b>>
  BY <1>2 DEF Tag
<1>4. Tag(name, <<x>>) = Append(<<e>>, a)
  BY TagNone, TagOne
<1> HIDE DEF e, a, b
<1>5. <<e>> \o <<a, b>> = Append(Append(<<e>>, a), b)
  OBVIOUS
<1> QED
  BY <1>3, <1>4, <1>5 DEF b

-----------------------------------------------------------------------------
\* What the start tag leaves in the tree.
Sprouted(d, q, el, f, name, a) ==
  /\ Collected(q, Append(el, Len(f) + 1), Begun(el, f, name, a), << >>, 0)
  /\ RunAt(q, Len(q)) = << >> /\ (Outside(q) <=> Outside(d))

\* They are events of a document.
LEMMA TagMarks ==
  ASSUME NEW name \in Names, NEW n \in Names, NEW x \in Texts
  PROVE  /\ Tag(name, << >>) \in Seq(Marks) /\ X!Event("open", name, NULL) \in Marks
         /\ Attribute(<<n, x>>) \in Marks /\ Attribute(<<n, x>>).op = "attr"
         /\ <<Attribute(<<n, x>>).s, Attribute(<<n, x>>).v>> = <<n, x>>
<1>1. X!Event("open", name, NULL) \in Marks
  BY DEF X!Event, Marks
<1>2. Tag(name, << >>) \in Seq(Marks)
  <2> DEFINE e == X!Event("open", name, NULL)
  <2>1. e \in Marks /\ Tag(name, << >>) = <<e>>
    BY <1>1, TagNone
  <2> HIDE DEF e
  <2>2. <<e>> \in Seq(Marks)
    BY <2>1
  <2> QED
    BY <2>1, <2>2
<1>3. Attribute(<<n, x>>) = [op |-> "attr", s |-> n, v |-> x]
  BY DEF X!Event, Attribute
<1> QED
  BY <1>1, <1>2, <1>3 DEF Marks

\* The handler of a start tag without attributes.
LEMMA OpenedNone ==
  ASSUME NEW d, NEW el, NEW f, NEW c, NEW w, Collected(d, el, f, c, w), NEW name \in Names
  PROVE  Sprouted(d, d \o Tag(name, << >>), el, f, name, << >>)
<1> DEFINE e == X!Event("open", name, NULL)
           q == d \o <<e>>
           made == Append(f, B!domnode(name, NULL))
           g == IF Len(el) = 0 THEN made ELSE X!PrependChild(made, el[Len(el)], Len(f) + 1)
<1>1. e.op = "open" /\ e.s = name /\ e \in Marks /\ Tag(name, << >>) = <<e>>
  BY TagNone DEF X!Event, Marks
<1>2. d \in Seq(Marks)
  BY DEF Collected
<1> HIDE DEF e
<1>3. Longer(d, q, e)
  BY <1>1, <1>2, OneMore
<1>4. Collected(q, Append(el, Len(f) + 1), g, << >>, 0)
  <2>1. e.s \in Names /\ made = Append(f, B!domnode(e.s, NULL))
    BY <1>1
  <2> HIDE DEF q, made
  <2> QED
    BY <1>1, <1>3, <2>1, CollectedOpen
<1>5. Begun(el, f, name, << >>) = g
  <2>1. [B!domnode(name, NULL) EXCEPT !.attrs = << >>] = B!domnode(name, NULL)
    BY DEF B!domnode
  <2> QED
    BY <2>1 DEF Begun
<1>6. RunAt(q, Len(q)) = << >>
  <2>1. Len(d) \in Nat /\ Len(q) = Len(d) + 1 /\ q[Len(d) + 1] = e
    BY <1>2, <1>3 DEF Longer
  <2> HIDE DEF q
  <2> QED
    BY <1>1, <2>1, RunTag
<1>7. Outside(q) <=> Outside(d)
  BY <1>1, <1>2, <1>3, OutsideMore
<1> QED
  BY <1>1, <1>4, <1>5, <1>6, <1>7 DEF Sprouted

\* The handler of a start tag that has one more attribute.
LEMMA OpenedMore ==
  ASSUME NEW d, NEW el, NEW f, NEW c, NEW w, Collected(d, el, f, c, w), NEW name, NEW q, NEW a,
         Sprouted(d, q, el, f, name, a), NEW e \in Marks, e.op = "attr", NEW x, x = <<e.s, e.v>>
  PROVE  Sprouted(d, q \o <<e>>, el, f, name, <<x>> \o a)
<1> DEFINE g == Begun(el, f, name, a)
           o == Append(el, Len(f) + 1)
           p == q \o <<e>>
           h == [g EXCEPT ![o[Len(o)]].attrs = <<x>> \o @]
<1>1. Mirror(d, Len(d), el, f) /\ Len(d) \in Nat
  BY DEF Collected
<1>2. /\ Len(f) \in Nat /\ f = [k \in 1..Len(f) |-> f[k]]
      /\ el \in Seq(Nat) /\ Len(el) \in Nat
      /\ Len(el) # 0 => el[Len(el)] \in 1..Len(f)
  BY <1>1, MirrorNodes
<1>3. Len(o) # 0 /\ o[Len(o)] = Len(f) + 1
  <2> DEFINE l == Len(f) + 1
  <2>1. l \in Nat
    BY <1>2
  <2> HIDE DEF l
  <2>2. Len(Append(el, l)) # 0 /\ Append(el, l)[Len(Append(el, l))] = l
    BY <1>2, <2>1
  <2> QED
    BY <2>2 DEF l
<1>4. Collected(q, o, g, << >>, 0) /\ RunAt(q, Len(q)) = << >> /\ (Outside(q) <=> Outside(d))
  BY DEF Sprouted
<1>5. q \in Seq(Marks)
  BY <1>4 DEF Collected
<1>6. Longer(q, p, e)
  BY <1>5, OneMore
<1> HIDE DEF g, o, p
<1>7. Collected(p, o, h, << >>, 0) /\ RunAt(p, Len(p)) = << >>
  BY <1>3, <1>4, <1>6, CollectedAttr
<1>8. h = Begun(el, f, name, <<x>> \o a)
  <2>1. Adds(el, f, name, a, x)
    BY <1>2, BegunMore
  <2> QED
    BY <1>3, <2>1 DEF g, Adds
<1>9. Outside(p) <=> Outside(d)
  <2>1. Outside(p) <=> Outside(q)
    BY <1>5, <1>6, OutsideMore
  <2> QED
    BY <1>4, <2>1
<1> HIDE DEF h
<1> QED
  BY <1>7, <1>8, <1>9 DEF Sprouted, p, o

\* The last element of a longer sequence, and the others.
LEMMA Appended ==
  ASSUME NEW S, NEW a \in Seq(S), NEW z \in S
  PROVE  /\ Append(a, z) \in Seq(S) /\ Len(Append(a, z)) = Len(a) + 1 /\ Append(a, z)[Len(a)+1] = z
         /\ \A i \in 1..Len(a) : Append(a, z)[i] = a[i]
OBVIOUS

\* Two elements, one after the other.
LEMMA Pair ==
  ASSUME NEW y, NEW z
  PROVE  Append(<<y>>, z) = <<y, z>>
<1> SUFFICES ASSUME NEW S, y \in S, z \in S PROVE Append(<<y>>, z) = <<y, z>>
  <2>1. y \in {y, z} /\ z \in {y, z}
    OBVIOUS
  <2> QED
    BY <2>1
<1>1. <<y>> \in Seq(S) /\ Len(<<y>>) = 1 /\ <<y>>[1] = y
  OBVIOUS
<1> SUFFICES ASSUME NEW a \in Seq(S), Len(a) = 1, a[1] = y PROVE Append(a, z) = <<y, z>>
  BY <1>1
<1>2. /\ Append(a, z) \in Seq(S) /\ Len(Append(a, z)) = Len(a) + 1 /\ Append(a, z)[Len(a)+1] = z
      /\ \A i \in 1..Len(a) : Append(a, z)[i] = a[i]
  BY Appended
<1> DEFINE t == Append(a, z)
           u == <<y, z>>
<1>3. t \in Seq(S) /\ Len(t) = 2 /\ t[1] = y /\ t[2] = z
  BY <1>2
<1>4. u \in Seq(S) /\ Len(u) = 2 /\ u[1] = y /\ u[2] = z
  OBVIOUS
<1> HIDE DEF t, u
<1>5. t = [i \in 1..2 |-> t[i]] /\ u = [i \in 1..2 |-> u[i]]
  BY <1>3, <1>4
<1>6. \A i \in 1..2 : i = 1 \/ i = 2
  OBVIOUS
<1>7. \A i \in 1..2 : t[i] = u[i]
  BY <1>3, <1>4, <1>6
<1>8. t = u
  BY <1>5, <1>7
<1> QED
  BY <1>8 DEF t, u

\* The attributes in the reverse of their order.
LEMMA OpenedTag ==
  ASSUME NEW d, NEW el, NEW f, NEW c, NEW w, Collected(d, el, f, c, w), NEW name \in Names,
         NEW atts, \/ atts = << >>
                   \/ \E n \in Names, x \in Texts : atts = << <<n, x>> >>
                   \/ \E m, n \in Names, x \in Texts : atts = << <<m, x>>, <<n, x>> >>
  PROVE  Sprouted(d, d \o Tag(name, atts), el, f, name, X!Reverse(atts))
<1>0. d \in Seq(Marks)
  BY DEF Collected
<1>1. Sprouted(d, d \o Tag(name, << >>), el, f, name, << >>)
  BY OpenedNone
<1>2. ASSUME NEW n \in Names, NEW x \in Texts
      PROVE  /\ Sprouted(d, d \o Tag(name, << <<n, x>> >>), el, f, name, X!Reverse(<< <<n, x>> >>))
             /\ Tag(name, << <<n, x>> >>) \in Seq(Marks)
  <2> DEFINE y == <<n, x>>
             e == Attribute(y)
             s == Tag(name, << >>)
  <2>1. s \in Seq(Marks) /\ e \in Marks /\ e.op = "attr" /\ <<e.s, e.v>> = y
    BY TagMarks
  <2> HIDE DEF e, s, y
  <2>2. Tag(name, <<y>>) = Append(s, e)
    BY TagOne DEF e, s
  <2>3. d \o Append(s, e) = (d \o s) \o <<e>>
    BY <1>0, <2>1, Lined
  <2>4. Sprouted(d, d \o s, el, f, name, << >>)
    BY <1>1 DEF s
  <2> DEFINE q == d \o s
             none == << >>
  <2>5. Sprouted(d, q, el, f, name, none)
    BY <2>4
  <2> HIDE DEF q, none
  <2>6. Sprouted(d, q \o <<e>>, el, f, name, <<y>> \o none)
    BY <2>1, <2>5, OpenedMore
  <2>7. X!Reverse(<<y>>) = <<y>> \o none
    <3>1. << >> \in Seq({y}) /\ y \in {y} /\ Append(<< >>, y) = <<y>>
      OBVIOUS
    <3>2. X!Reverse(Append(<< >>, y)) = <<y>> \o X!Reverse(<< >>)
      BY <3>1, ReverseMore
    <3> QED
      BY <3>1, <3>2, ReverseNone DEF none
  <2>8. Append(s, e) \in Seq(Marks)
    BY <2>1
  <2> QED
    BY <2>2, <2>3, <2>6, <2>7, <2>8 DEF q, y
<1>3. ASSUME NEW m \in Names, NEW n \in Names, NEW x \in Texts
      PROVE  Sprouted(d, d \o Tag(name, << <<m, x>>, <<n, x>> >>), el, f, name,
                     X!Reverse(<< <<m, x>>, <<n, x>> >>))
  <2> DEFINE y == <<m, x>>
             z == <<n, x>>
             e == Attribute(z)
             s == Tag(name, <<y>>)
             a == X!Reverse(<<y>>)
  <2>1. e \in Marks /\ e.op = "attr" /\ <<e.s, e.v>> = z
    BY TagMarks
  <2>2. s \in Seq(Marks) /\ Sprouted(d, d \o s, el, f, name, a)
    BY <1>2
  <2> HIDE DEF e, s, y, z, a
  <2>3. Tag(name, <<y, z>>) = Append(s, e)
    BY TagTwo DEF e, s
  <2>4. d \o Append(s, e) = (d \o s) \o <<e>>
    BY <1>0, <2>1, <2>2, Lined
  <2> DEFINE q == d \o s
  <2>5. Sprouted(d, q, el, f, name, a)
    BY <2>2
  <2> HIDE DEF q
  <2>6. Sprouted(d, q \o <<e>>, el, f, name, <<z>> \o a)
    BY <2>1, <2>5, OpenedMore
  <2>7. X!Reverse(<<y, z>>) = <<z>> \o a
    <3> DEFINE S == {y, z}
    <3>1. Append(<<y>>, z) = <<y, z>>
      BY Pair
    <3>3. y \in S /\ z \in S
      OBVIOUS
    <3> HIDE DEF S
    <3>4. <<y>> \in Seq(S)
      BY <3>3
    <3>2. X!Reverse(Append(<<y>>, z)) = <<z>> \o X!Reverse(<<y>>)
      BY <3>3, <3>4, ReverseMore
    <3> QED
      BY <3>1, <3>2 DEF a
  <2> QED
    BY <2>3, <2>4, <2>6, <2>7 DEF q, y, z
<1>4. CASE atts = << >>
  BY <1>1, <1>4, ReverseNone
<1>5. CASE \E n \in Names, x \in Texts : atts = << <<n, x>> >>
  <2>1. PICK n \in Names, x \in Texts : atts = << <<n, x>> >>
    BY <1>5
  <2>2. Sprouted(d, d \o Tag(name, << <<n, x>> >>), el, f, name, X!Reverse(<< <<n, x>> >>))
    BY <1>2
  <2> QED
    BY <2>1, <2>2
<1>6. CASE \E m, n \in Names, x \in Texts : atts = << <<m, x>>, <<n, x>> >>
  <2>1. PICK m \in Names, n \in Names, x \in Texts : atts = << <<m, x>>, <<n, x>> >>
    BY <1>6
  <2>2. Sprouted(d, d \o Tag(name, << <<m, x>>, <<n, x>> >>), el, f, name,
                X!Reverse(<< <<m, x>>, <<n, x>> >>))
    BY <1>3
  <2> QED
    BY <2>1, <2>2
<1> QED
  BY <1>4, <1>5, <1>6

-----------------------------------------------------------------------------
(* The invariant of the handlers. *)

ExpatInv ==
  /\ Collected(doc, elements, forest, cdata, wptr)
  /\ root = IF Len(forest) = 0 THEN 0 ELSE 1
  /\ status \in {"reading", "ended", "failed", "aborted"}
  /\ status = "aborted" <=> Outside(doc)
  /\ status = "ended" => root # 0

\* What follows of the invariant at once.
LEMMA ExpatFacts ==
  ASSUME ExpatInv
  PROVE  /\ doc \in Seq(Marks) /\ Len(doc) \in Nat
         /\ Len(forest) \in Nat /\ forest = [k \in 1..Len(forest) |-> forest[k]]
         /\ elements \in Seq(Nat) /\ Len(elements) \in Nat
         /\ elements = << >> <=> Len(elements) = 0
         /\ Len(elements) # 0 => elements[Len(elements)] \in 1..Len(forest)
         /\ X!Last(elements) = elements[Len(elements)]
         /\ X!Front(elements) = SubSeq(elements, 1, Len(elements) - 1)
<1>1. doc \in Seq(Marks) /\ Len(doc) \in Nat /\ Mirror(doc, Len(doc), elements, forest)
  BY DEF ExpatInv, Collected
<1>2. /\ Len(forest) \in Nat /\ forest = [k \in 1..Len(forest) |-> forest[k]]
      /\ elements \in Seq(Nat) /\ Len(elements) \in Nat
      /\ Len(elements) # 0 => elements[Len(elements)] \in 1..Len(forest)
  BY <1>1, MirrorNodes
<1>3. elements = << >> <=> Len(elements) = 0
  BY <1>2
<1>4. X!Last(elements) = elements[Len(elements)]
      /\ X!Front(elements) = SubSeq(elements, 1, Len(elements) - 1)
  BY DEF X!Last, X!Front
<1> QED
  BY <1>1, <1>2, <1>3, <1>4

\* The invariant holds before the first event, and each handler keeps it.
LEMMA ExpatInit ==
  ASSUME X!Init
  PROVE  ExpatInv
<1>1. /\ cdata = << >> /\ wptr = 0 /\ elements = << >> /\ forest = << >> /\ root = 0
      /\ status = "reading" /\ doc = << >>
  BY DEF X!Init
<1>2. Collected(doc, elements, forest, cdata, wptr)
  BY <1>1, CollectedStart
<1>3. Len(forest) = 0
  BY <1>1
<1>4. ~ Outside(doc)
  <2>1. 1..Len(doc) = {}
    BY <1>1
  <2> QED
    BY <2>1 DEF Outside
<1> QED
  BY <1>1, <1>2, <1>3, <1>4 DEF ExpatInv

\* A step of another part of the program.
LEMMA ExpatSame ==
  ASSUME ExpatInv, UNCHANGED expat
  PROVE  ExpatInv'
<1>1. UNCHANGED <<cdata, wptr, elements, forest, root, status, doc>>
  BY DEF expat
<1> QED
  BY <1>1 DEF ExpatInv, Collected, Outside

\* The start tag.
LEMMA ExpatStarting ==
  ASSUME ExpatInv, X!Start
  PROVE  ExpatInv'
<1>1. /\ doc \in Seq(Marks) /\ Len(forest) \in Nat /\ (elements = << >> <=> Len(elements) = 0)
      /\ forest = [k \in 1..Len(forest) |-> forest[k]]
      /\ Len(elements) # 0 => elements[Len(elements)] \in 1..Len(forest)
      /\ X!Last(elements) = elements[Len(elements)]
  BY ExpatFacts
<1>3. PICK name \in Names,
           atts \in {<< >>} \cup {<< <<n, x>> >> : n \in Names, x \in Texts}
                \cup {<< <<m, x>>, <<n, x>> >> : m, n \in Names, x \in Texts} :
        X!start_handler(name, atts)
  BY DEF X!Start
<1>2. /\ status = "reading" /\ status' = status /\ cdata' = << >> /\ wptr' = 0
      /\ root = 0 \/ elements # << >>
  BY <1>3 DEF X!Start, X!start_handler, X!udata_pop_cdata, X!Reading
<1> DEFINE Child(nm, at) == [X!domnode(nm, NULL) EXCEPT !.attrs = X!Reverse(at)]
           Made(nm, at) == Append(forest, Child(nm, at))
<1>31. /\ forest' = IF elements = << >> THEN Made(name, atts)
                    ELSE X!PrependChild(Made(name, atts), X!Last(elements), Len(Made(name, atts)))
       /\ root' = IF elements = << >> THEN Len(Made(name, atts)) ELSE root
       /\ elements' = Append(elements, Len(Made(name, atts)))
  BY <1>3 DEF X!start_handler
<1>30. doc' = doc \o (<<X!Event("open", name, NULL)>>
                      \o [j \in DOMAIN atts |-> X!Event("attr", atts[j][1], atts[j][2])])
  BY <1>3 DEF X!Says, X!start_handler
<1>4. \/ atts = << >>
      \/ \E n \in Names, x \in Texts : atts = << <<n, x>> >>
      \/ \E m, n \in Names, x \in Texts : atts = << <<m, x>>, <<n, x>> >>
  OBVIOUS
<1> DEFINE a == X!Reverse(atts)
           child == [B!domnode(name, NULL) EXCEPT !.attrs = a]
           made == Append(forest, child)
           l == Len(forest)
<1>5. Child(name, atts) = child
  BY DEF X!domnode, B!domnode
<1>6. made = [k \in 1..l+1 |-> IF k = l + 1 THEN child ELSE forest[k]] /\ l \in Nat
  <2>1. l \in Nat /\ forest = [k \in 1..l |-> forest[k]]
    BY <1>1
  <2> HIDE DEF l, child
  <2> QED
    BY <2>1, AppendIs
<1>7. Len(made) = l + 1
  <2> HIDE DEF made, l, child
  <2> QED
    BY <1>6
<1>8. doc' = doc \o Tag(name, atts)
  BY <1>30 DEF Tag, Attribute
<1>9. forest' = Begun(elements, forest, name, a) /\ elements' = Append(elements, Len(forest) + 1)
      /\ root' = IF elements = << >> THEN l + 1 ELSE root
  <2>1. Made(name, atts) = made
    BY <1>5
  <2>2. /\ forest' = IF Len(elements) = 0 THEN made
                     ELSE X!PrependChild(made, elements[Len(elements)], l + 1)
        /\ root' = IF elements = << >> THEN l + 1 ELSE root
        /\ elements' = Append(elements, l + 1)
    <3> HIDE DEF made, l, Made, Child
    <3> QED
      BY <1>1, <1>31, <1>7, <2>1
  <2> QED
    BY <2>2 DEF Begun
<1> HIDE DEF Child, Made, made, child
<1>10. Sprouted(doc, doc', elements, forest, name, a)
  <2>1. Collected(doc, elements, forest, cdata, wptr)
    BY DEF ExpatInv
  <2>2. Sprouted(doc, doc \o Tag(name, atts), elements, forest, name, X!Reverse(atts))
    BY <1>4, <2>1, OpenedTag
  <2> QED
    BY <1>8, <2>2
<1>11. Collected(doc', elements', forest', cdata', wptr') /\ (Outside(doc') <=> Outside(doc))
  BY <1>2, <1>9, <1>10 DEF Sprouted
<1>12. Len(forest') = l + 1
  <2>1. Begun(elements, forest, name, a) = IF Len(elements) = 0 THEN made
          ELSE X!PrependChild(made, elements[Len(elements)], l + 1)
    BY DEF Begun, made, child, l
  <2>2. Len(X!PrependChild(made, elements[Len(elements)], l + 1)) = l + 1
    <3>1. DOMAIN X!PrependChild(made, elements[Len(elements)], l + 1) = 1..l+1
      BY <1>6 DEF X!PrependChild
    <3>2. \E S : X!PrependChild(made, elements[Len(elements)], l + 1) \in Seq(S)
      <4> DEFINE m == elements[Len(elements)]
                 p == X!PrependChild(made, m, l + 1)
                 S == {p[k] : k \in 1..l+1}
      <4>1. p = [k \in 1..l+1 |-> p[k]]
        <5> DEFINE u == [made[m] EXCEPT !.children = <<l + 1>> \o @]
        <5>1. made = [k \in 1..l+1 |-> IF k = l + 1 THEN child ELSE forest[k]]
          BY <1>6
        <5>2. p = [made EXCEPT ![m] = u]
          BY DEF X!PrependChild
        <5> HIDE DEF m, u
        <5>3. [made EXCEPT ![m] = u] = [k \in 1..l+1 |-> [made EXCEPT ![m] = u][k]]
          BY <5>1
        <5> QED
          BY <5>2, <5>3
      <4>4. l + 1 \in Nat
        BY <1>6
      <4> HIDE DEF p, l
      <4>2. p \in [1..l+1 -> S]
        BY <4>1
      <4> HIDE DEF S
      <4>3. p \in Seq(S)
        BY <4>2, <4>4
      <4> QED
        BY <4>3 DEF p
    <3> QED
      BY <1>6, <3>1, <3>2
  <2> QED
    BY <1>7, <1>9, <2>1, <2>2
<1>13. root' = IF Len(forest') = 0 THEN 0 ELSE 1
  <2>1. root = IF l = 0 THEN 0 ELSE 1
    BY DEF ExpatInv
  <2>2. l = 0 \/ elements # << >>
    BY <1>2, <2>1
  <2>3. l = 0 => elements = << >>
    <3>1. l = 0 => 1..Len(forest) = {}
      BY <1>1
    <3> QED
      BY <1>1, <3>1
  <2> HIDE DEF l
  <2> QED
    BY <1>6, <1>9, <1>12, <2>1, <2>2, <2>3
<1> QED
  BY <1>2, <1>11, <1>13 DEF ExpatInv

\* The end tag.
LEMMA ExpatEnding ==
  ASSUME ExpatInv, X!End
  PROVE  ExpatInv'
<1> DEFINE e == X!Event("close", NULL, NULL)
<1>1. /\ doc' = doc \o <<e>> /\ status = "reading" /\ cdata' = << >> /\ wptr' = 0
      /\ elements # << >> /\ elements' = X!Front(elements) /\ UNCHANGED <<forest, root, status>>
  BY DEF X!End, X!Says, X!Reading, X!udata_pop_cdata
<1>2. e \in Marks /\ e.op = "close"
  BY DEF X!Event, Marks
<1> HIDE DEF e
<1>3. doc \in Seq(Marks) /\ Len(elements) # 0
      /\ elements' = SubSeq(elements, 1, Len(elements) - 1)
  BY <1>1, ExpatFacts
<1>4. Longer(doc, doc', e)
  BY <1>1, <1>2, <1>3, OneMore
<1>5. Collected(doc, elements, forest, cdata, wptr)
  BY DEF ExpatInv
<1>6. Collected(doc', elements', forest, << >>, 0)
  BY <1>2, <1>3, <1>4, <1>5, CollectedClose
<1>7. Outside(doc') <=> Outside(doc)
  BY <1>2, <1>3, <1>4, OutsideMore
<1> QED
  BY <1>1, <1>6, <1>7 DEF ExpatInv

\* The character data: they are added to the buffer if they fit.
LEMMA ExpatText ==
  ASSUME ExpatInv, X!Cdata
  PROVE  ExpatInv'
<1>1. PICK p \in Pieces :
        /\ doc' = doc \o <<X!Event("text", p, NULL)>>
        /\ IF p.len = 0 \/ ~ (wptr + p.len < CDATA - 1) THEN UNCHANGED <<cdata, wptr, forest>>
           ELSE /\ cdata' = Append(cdata, p)
                /\ wptr' = wptr + p.len
                /\ forest' = [forest EXCEPT ![X!Last(elements)].value = Append(cdata, p)]
  BY DEF X!Cdata, X!Says, X!Fits
<1>2. status = "reading" /\ elements # << >> /\ UNCHANGED <<elements, root, status>>
  BY DEF X!Cdata, X!Reading
<1> DEFINE e == X!Event("text", p, NULL)
<1>3. e \in Marks /\ e.op = "text" /\ e.s = p
  BY DEF X!Event, Marks
<1> HIDE DEF e
<1>4. doc \in Seq(Marks) /\ Len(elements) # 0 /\ X!Last(elements) = elements[Len(elements)]
      /\ forest = [k \in 1..Len(forest) |-> forest[k]] /\ Len(forest) \in Nat
  BY <1>2, ExpatFacts
<1>5. Longer(doc, doc', e)
  BY <1>1, <1>3, <1>4, OneMore DEF e
<1>6. Collected(doc, elements, forest, cdata, wptr)
  BY DEF ExpatInv
<1>7. IF p.len = 0 \/ ~ (wptr + p.len < CDATA - 1) THEN Collected(doc', elements, forest, cdata, wptr)
      ELSE Collected(doc', elements,
                     [forest EXCEPT ![elements[Len(elements)]].value = Append(cdata, p)],
                     Append(cdata, p), wptr + p.len)
  <2>1. e.s \in Pieces
    BY <1>3
  <2>2. IF e.s.len = 0 \/ ~ (wptr + e.s.len < CDATA - 1)
        THEN Collected(doc', elements, forest, cdata, wptr)
        ELSE Collected(doc', elements,
                       [forest EXCEPT ![elements[Len(elements)]].value = Append(cdata, e.s)],
                       Append(cdata, e.s), wptr + e.s.len)
    BY <1>3, <1>4, <1>5, <1>6, <2>1, CollectedText
  <2> QED
    BY <1>3, <2>2
<1>8. Collected(doc', elements', forest', cdata', wptr')
  BY <1>1, <1>2, <1>4, <1>7
<1>9. Len(forest') = Len(forest)
  <2> DEFINE g == [forest EXCEPT ![X!Last(elements)].value = Append(cdata, p)]
  <2>1. g = [k \in 1..Len(forest) |-> g[k]]
    BY <1>4
  <2> HIDE DEF g
  <2>2. Len(g) = Len(forest)
    BY <1>4, <2>1
  <2> QED
    BY <1>1, <2>2 DEF g
<1>10. Outside(doc') <=> Outside(doc)
  BY <1>3, <1>4, <1>5, OutsideMore
<1> QED
  BY <1>2, <1>8, <1>9, <1>10 DEF ExpatInv

\* A comment: it aborts the program outside of the root.
LEMMA ExpatComment ==
  ASSUME ExpatInv, X!CommentHandler
  PROVE  ExpatInv'
<1> DEFINE Made(x) == Append(forest, X!domnode(Comment, x))
<1>1. PICK x \in Texts :
        /\ doc' = doc \o <<X!Event("comment", x, NULL)>>
        /\ IF elements = << >> THEN status' = "aborted" /\ UNCHANGED forest
           ELSE /\ forest' = X!PrependChild(Made(x), X!Last(elements), Len(Made(x)))
                /\ UNCHANGED status
  BY DEF X!CommentHandler, X!Says
<1>2. status = "reading" /\ UNCHANGED <<cdata, wptr, elements, root>>
  BY DEF X!CommentHandler, X!Reading
<1> DEFINE e == X!Event("comment", x, NULL)
           new == B!domnode(Comment, x)
           made == Append(forest, new)
           l == Len(forest)
<1>3. e \in Marks /\ e.op = "comment" /\ e.s = x
  BY DEF X!Event, Marks
<1> HIDE DEF e
<1>4. forest = [k \in 1..l |-> forest[k]] /\ l \in Nat
  BY ExpatFacts
<1>14. doc \in Seq(Marks)
  BY ExpatFacts
<1>15. X!Last(elements) = elements[Len(elements)] /\ (elements = << >> <=> Len(elements) = 0)
  BY ExpatFacts
<1>16. Len(elements) # 0 => elements[Len(elements)] \in 1..l
  BY ExpatFacts
<1>5. Longer(doc, doc', e)
  BY <1>1, <1>3, <1>14, OneMore DEF e
<1>6. Collected(doc, elements, forest, cdata, wptr)
  BY DEF ExpatInv
<1>7. IF Len(elements) = 0
      THEN Collected(doc', elements, forest, cdata, wptr) /\ B!ParentOf(doc', Len(doc) + 1) = 0
      ELSE /\ Collected(doc', elements, X!PrependChild(Append(forest, B!domnode(Comment, e.s)),
                                         elements[Len(elements)], Len(forest) + 1), cdata, wptr)
           /\ B!ParentOf(doc', Len(doc) + 1) # 0
  BY <1>3, <1>5, <1>6, CollectedComment
<1>8. Outside(doc') <=> Outside(doc) \/ B!ParentOf(doc', Len(doc) + 1) = 0
  BY <1>3, <1>14, <1>5, OutsideMore
<1>9. made = [k \in 1..l+1 |-> IF k = l + 1 THEN new ELSE forest[k]]
  <2> HIDE DEF l, new
  <2> QED
    BY <1>4, AppendIs
<1>10. Len(made) = l + 1 /\ Made(x) = made
  <2>1. X!domnode(Comment, x) = new
    BY DEF X!domnode, B!domnode
  <2>2. Len(made) = l + 1
    <3> HIDE DEF l, new, made
    <3> QED
      BY <1>4, <1>9
  <2> QED
    BY <2>1, <2>2
<1> HIDE DEF Made, new, made, l
<1>11. status # "aborted" /\ ~ Outside(doc)
  BY <1>2 DEF ExpatInv
<1>12. CASE Len(elements) = 0
  <2>1. status' = "aborted" /\ forest' = forest
    BY <1>1, <1>15, <1>12
  <2>2. Collected(doc', elements', forest', cdata', wptr') /\ Outside(doc')
    BY <1>2, <1>7, <1>8, <1>12, <2>1
  <2> QED
    BY <1>2, <2>1, <2>2 DEF ExpatInv
<1>13. CASE Len(elements) # 0
  <2> DEFINE m == elements[Len(elements)]
             g == X!PrependChild(made, m, l + 1)
  <2>1. status' = status /\ forest' = g
    BY <1>1, <1>15, <1>10, <1>13
  <2>2. Collected(doc', elements, g, cdata, wptr) /\ ~ Outside(doc')
    BY <1>3, <1>7, <1>8, <1>11, <1>13 DEF made, new, l
  <2>3. Len(g) = l + 1
    <3>1. g = [k \in 1..l+1 |-> g[k]]
      BY <1>9 DEF X!PrependChild
    <3> HIDE DEF g
    <3> QED
      BY <1>4, <3>1
  <2>4. root = 1 /\ l # 0
    <3>1. l # 0
      <4>1. m \in 1..l
        BY <1>16, <1>13
      <4> HIDE DEF m
      <4> QED
        BY <1>4, <4>1
    <3> QED
      BY <3>1 DEF ExpatInv, l
  <2>5. Len(g) # 0
    BY <1>4, <2>3
  <2> HIDE DEF g
  <2> QED
    BY <1>2, <1>11, <2>1, <2>2, <2>4, <2>5 DEF ExpatInv
<1> QED
  BY <1>12, <1>13

\* The end of the file, and what stops expat before.
LEMMA ExpatStopping ==
  ASSUME ExpatInv, X!EndOfFile \/ X!Fault
  PROVE  ExpatInv'
<1>1. UNCHANGED <<cdata, wptr, elements, forest, root, doc>> /\ status = "reading"
  BY DEF X!EndOfFile, X!Fault, X!udata, X!Reading
<1>2. status' = "failed" \/ (status' = "ended" /\ root # 0)
  BY DEF X!EndOfFile, X!Fault
<1> QED
  BY <1>1, <1>2 DEF ExpatInv, Collected, Outside

\* All steps of expat.
LEMMA ExpatNext ==
  ASSUME ExpatInv, X!Next
  PROVE  ExpatInv'
BY ExpatStarting, ExpatEnding, ExpatText, ExpatComment, ExpatStopping DEF X!Next

\* The tree of the handlers mirrors the events at every moment.
LEMMA MirrorKept == Spec => []ExpatInv
<1>1. Init => ExpatInv
  BY ExpatInit DEF Init
<1>2. ExpatInv /\ [Next]_vars => ExpatInv'
  <2> SUFFICES ASSUME ExpatInv, [Next]_vars PROVE ExpatInv'
    OBVIOUS
  <2>1. CASE Build
    BY <2>1, ExpatNext DEF Build
  <2>2. CASE Parse \/ log4c_rc_load \/ NoFile
    BY <2>2, ExpatSame DEF Parse, log4c_rc_load, NoFile
  <2>3. CASE UNCHANGED vars
    BY <2>3, ExpatSame DEF vars
  <2> QED
    BY <2>1, <2>2, <2>3 DEF Next
<1> QED
  BY <1>1, <1>2, PTL DEF Spec

-----------------------------------------------------------------------------
\* The value of an element is what was last left in the buffer there.
LEMMA ValueIs ==
  ASSUME doc \in Seq(Marks), NEW j
  PROVE  X!ValueOf(j) = Spoken(doc, Len(doc), j)
<1> DEFINE n == Len(doc)
           T == {k \in DOMAIN doc : /\ doc[k].op = "text" /\ X!ParentOf(doc, k) = j
                                    /\ X!Fitting(X!RunTo(k)) # << >>}
           top == CHOOSE k \in T : \A i \in T : i <= k
<1>1. DOMAIN doc = 1..n
  OBVIOUS
<1>2. \A k \in 1..n : X!RunTo(k) = RunAt(doc, k) /\ X!ParentOf(doc, k) = B!ParentOf(doc, k)
  BY RunDoc, ParentOfSame
<1>3. T = Heard(doc, n, j)
  <2> HIDE DEF n
  <2> QED
    BY <1>1, <1>2 DEF Heard
<1>4. X!ValueOf(j) = IF T = {} THEN NULL ELSE X!Fitting(X!RunTo(top))
  BY DEF X!ValueOf
<1>5. n \in Nat /\ T \subseteq 1..n
  BY <1>1
<1> HIDE DEF T, n
<1>6. CASE T = {}
  BY <1>3, <1>4, <1>6 DEF Spoken, n
<1>7. CASE T # {}
  <2>1. Highest(T) = top
    BY <1>7 DEF Highest
  <2>2. Highest(T) \in T
    BY <1>5, <1>7, HighestIn
  <2>3. X!RunTo(top) = RunAt(doc, top)
    BY <1>2, <1>5, <2>1, <2>2
  <2>4. Spoken(doc, n, j) = X!Fitting(RunAt(doc, top))
    BY <1>3, <1>7, <2>1 DEF Spoken
  <2> HIDE DEF top
  <2> QED
    BY <1>4, <1>7, <2>3, <2>4 DEF n
<1> QED
  BY <1>6, <1>7

\* A node of the tree of the document and its mirror image.
Image(node, value) ==
  IF node.name = Comment THEN node
  ELSE [node EXCEPT !.children = X!Reverse(@), !.attrs = X!Reverse(@), !.value = value]

\* The tree that the handlers have built, node by node.
LEMMA MirrorWhole ==
  ASSUME ExpatInv
  PROVE  LET g == B!ForestOf(doc)
             at == B!Opening(doc)
         IN  /\ DOMAIN g = 1..Len(g) /\ Len(g) = Len(at) /\ Len(g) \in Nat
             /\ Grown(doc, Len(doc), g, at) /\ Len(forest) = Len(g)
             /\ forest = [k \in 1..Len(g) |-> Image(g[k], Spoken(doc, Len(doc), at[k]))]
             /\ \A k \in 1..Len(g) : /\ g[k].name = Comment => g[k].children = << >>
                                     /\ g[k].name = Comment <=> doc[at[k]].op = "comment"
<1> DEFINE n == Len(doc)
<1>1. /\ doc \in Seq(Marks) /\ n \in Nat /\ Mirror(doc, n, elements, forest)
      /\ \A j \in 1..n : doc[j].op = "open" => doc[j].s \in Names
  BY ExpatFacts DEF ExpatInv, Collected
<1>2. PICK g, at : Grown(doc, n, g, at) /\ Stacked(doc, n, elements, at)
                   /\ Mirrors(doc, n, at, g, forest)
  BY <1>1 DEF Mirror
<1>3. g = B!ForestOf(doc) /\ at = B!Opening(doc)
  BY <1>1, <1>2, GrownIs
<1>4. Len(at) \in Nat
  BY <1>1, <1>2, SeatsDiffer
<1>5. g = [k \in 1..Len(at) |-> g[k]]
  BY <1>2 DEF Grown
<1>6. DOMAIN g = 1..Len(at) /\ Len(g) = Len(at)
  BY <1>4, <1>5
<1>7. forest = [k \in 1..Len(at) |-> Faced(doc, n, at, k, g[k])]
  BY <1>2 DEF Mirrors
<1>8. Len(forest) = Len(at)
  BY <1>4, <1>7
<1> HIDE DEF n
<1>9. ASSUME NEW k \in 1..Len(at)
      PROVE  /\ Faced(doc, n, at, k, g[k]) = Image(g[k], Spoken(doc, n, at[k]))
             /\ g[k].name = Comment => g[k].children = << >>
             /\ g[k].name = Comment <=> doc[at[k]].op = "comment"
  <2>1. /\ g[k] = [name |-> g[k].name, value |-> g[k].value, children |-> g[k].children,
                   attrs |-> g[k].attrs]
        /\ doc[at[k]].op = "comment" => g[k] = B!domnode(Comment, doc[at[k]].s)
        /\ doc[at[k]].op # "comment" => g[k].name = doc[at[k]].s
    BY <1>2, NodeParts
  <2>2. CASE doc[at[k]].op = "comment"
    <3>1. g[k].name = Comment /\ g[k].children = << >>
      BY <2>1, <2>2 DEF B!domnode
    <3> QED
      BY <2>2, <3>1 DEF Faced, Image
  <2>3. CASE doc[at[k]].op # "comment"
    <3>1. at[k] \in Seats(doc, n)
      BY <1>2 DEF Grown, Rising
    <3>2. at[k] \in 1..n /\ doc[at[k]].op = "open"
      BY <2>3, <3>1 DEF Seats
    <3>3. g[k].name # Comment
      BY <1>1, <2>1, <2>3, <3>2, BuildersAssumption
    <3> DEFINE v == Spoken(doc, n, at[k])
               c == X!Reverse(g[k].children)
               a == X!Reverse(g[k].attrs)
    <3>4. Faced(doc, n, at, k, g[k]) = [name |-> g[k].name, value |-> v, children |-> c,
                                       attrs |-> a]
      BY <2>3 DEF Faced
    <3>5. Image(g[k], v) = [g[k] EXCEPT !.children = c, !.attrs = a, !.value = v]
      BY <2>1, <3>3 DEF Image
    <3> HIDE DEF v, c, a
    <3>6. [g[k] EXCEPT !.children = c, !.attrs = a, !.value = v]
          = [name |-> g[k].name, value |-> v, children |-> c, attrs |-> a]
      <4> DEFINE nm == g[k].name
                 w == g[k].value
                 b == g[k].children
                 e == g[k].attrs
                 node == g[k]
      <4>1. node = [name |-> nm, value |-> w, children |-> b, attrs |-> e]
        BY <2>1
      <4> HIDE DEF nm, w, b, e, node
      <4> DEFINE n1 == [node EXCEPT !.children = c]
                 n2 == [n1 EXCEPT !.attrs = a]
                 n3 == [n2 EXCEPT !.value = v]
      <4>3. n1 = [name |-> nm, value |-> w, children |-> c, attrs |-> e]
        BY <4>1
      <4> HIDE DEF n1
      <4>4. n2 = [name |-> nm, value |-> w, children |-> c, attrs |-> a]
        BY <4>3
      <4> HIDE DEF n2
      <4>5. n3 = [name |-> nm, value |-> v, children |-> c, attrs |-> a]
        BY <4>4
      <4>6. n3 = [node EXCEPT !.children = c, !.attrs = a, !.value = v]
        BY DEF n1, n2
      <4> HIDE DEF n3
      <4>2. [node EXCEPT !.children = c, !.attrs = a, !.value = v]
            = [name |-> nm, value |-> v, children |-> c, attrs |-> a]
        BY <4>5, <4>6
      <4> QED
        BY <4>2 DEF nm, node
    <3> QED
      BY <2>3, <3>3, <3>4, <3>5, <3>6 DEF v
  <2> QED
    BY <2>2, <2>3
<1>10. forest = [k \in 1..Len(at) |-> Image(g[k], Spoken(doc, n, at[k]))]
  BY <1>7, <1>9
<1> QED
  BY <1>2, <1>3, <1>4, <1>6, <1>8, <1>9, <1>10 DEF n

\* It is the tree of the document, mirrored.
LEMMA MirrorsDocument ==
  ASSUME ExpatInv
  PROVE  X!TreeMirrorsDocument
<1> DEFINE g == X!ForestOf(doc)
           at == X!Opening(doc)
<1>1. g = B!ForestOf(doc) /\ at = B!Opening(doc)
  BY ForestSame, OpeningSame
<1>2. doc \in Seq(Marks) /\ DOMAIN doc = 1..Len(doc)
  BY ExpatFacts
<1>3. DOMAIN g = 1..Len(g)
      /\ forest = [k \in 1..Len(g) |-> Image(g[k], Spoken(doc, Len(doc), at[k]))]
  BY <1>1, MirrorWhole
<1> HIDE DEF g, at
<1>4. \A k \in 1..Len(g) : Spoken(doc, Len(doc), at[k]) = X!ValueOf(at[k])
  BY <1>2, ValueIs
<1>5. forest = [k \in DOMAIN g |-> Image(g[k], X!ValueOf(at[k]))]
  BY <1>3, <1>4
<1>6. forest = [k \in DOMAIN g |->
                  IF g[k].name = Comment THEN g[k]
                  ELSE [g[k] EXCEPT !.children = X!Reverse(@), !.attrs = X!Reverse(@),
                                    !.value = X!ValueOf(at[k])]]
  BY <1>5 DEF Image
<1>7. wptr < CDATA - 1
  BY DEF ExpatInv, Collected
<1>8. status = "aborted"
      <=> \E j \in DOMAIN doc : doc[j].op = "comment" /\ X!ParentOf(doc, j) = 0
  <2>1. \A j \in 1..Len(doc) : X!ParentOf(doc, j) = B!ParentOf(doc, j)
    BY ParentOfSame
  <2>2. status = "aborted" <=> Outside(doc)
    BY DEF ExpatInv
  <2> QED
    BY <1>2, <2>1, <2>2 DEF Outside
<1> QED
  BY <1>6, <1>7, <1>8 DEF X!TreeMirrorsDocument, g, at

\* The tree of the handlers is the document, mirrored, at every moment.
THEOREM HandlersMirrorDocument == Spec => []TreeMirrorsDocument
<1>1. ExpatInv => TreeMirrorsDocument
  BY MirrorsDocument DEF TreeMirrorsDocument
<1> QED
  BY <1>1, MirrorKept, PTL

-----------------------------------------------------------------------------
(* What log4c_rc_load hands over. *)

Turned(l, p, q) == q = [k \in 1..Len(p) |-> (l - p[(Len(p) - k) + 1]) + 1]

\* The places l, ..., 1 of a reversed sequence.
LEMMA RisingReverse ==
  ASSUME NEW l \in Nat, NEW A, A \subseteq 1..l, NEW p, Rising(p, A),
         NEW q, Turned(l, p, q)
  PROVE  Rising(q, {j \in 1..l : (l - j) + 1 \in A}) /\ Len(q) = Len(p)
<1> DEFINE n == Len(p)
           B2 == {j \in 1..l : (l - j) + 1 \in A}
<1>1. p \in Seq(Nat) /\ n \in Nat
  BY DEF Rising
<1>2. \A i \in 1..n : p[i] \in A /\ p[i] \in 1..l
  BY DEF Rising
<1>3. \A i, j \in 1..n : i < j => p[i] < p[j]
  BY DEF Rising
<1>4. \A x \in A : \E i \in 1..n : p[i] = x
  BY DEF Rising
<1>5. q = [k \in 1..n |-> (l - p[(n - k) + 1]) + 1]
  BY DEF Turned
<1> HIDE DEF n
<1>6. \A k \in 1..n : (n - k) + 1 \in 1..n
  BY <1>1
<1>7. \A k \in 1..n : q[k] = (l - p[(n - k) + 1]) + 1
  BY <1>5
<1>8. \A k \in 1..n : q[k] \in 1..l /\ (l - q[k]) + 1 = p[(n - k) + 1]
  <2> SUFFICES ASSUME NEW k \in 1..n PROVE q[k] \in 1..l /\ (l - q[k]) + 1 = p[(n - k) + 1]
    OBVIOUS
  <2> DEFINE x == p[(n - k) + 1]
  <2>1. x \in 1..l /\ q[k] = (l - x) + 1
    BY <1>2, <1>6, <1>7
  <2> HIDE DEF x
  <2>2. q[k] \in 1..l /\ (l - q[k]) + 1 = x
    BY <2>1
  <2> QED
    BY <2>2 DEF x
<1>9. q \in Seq(Nat) /\ Len(q) = n
  <2>1. q \in [1..n -> Nat]
    <3>3. \A k \in 1..n : q[k] \in 1..l
      BY <1>8
    <3>4. \A x \in 1..l : x \in Nat
      OBVIOUS
    <3>1. \A k \in 1..n : q[k] \in Nat
      BY <3>3, <3>4
    <3>2. q = [k \in 1..n |-> q[k]]
      BY <1>5
    <3> QED
      BY <3>1, <3>2
  <2>2. Len(q) = n
    BY <1>1, <1>5
  <2> QED
    BY <1>1, <2>1, <2>2
<1>10. ASSUME NEW i \in 1..n, NEW j \in 1..n, i < j PROVE q[i] < q[j]
  <2> DEFINE x == p[(n - i) + 1]
             y == p[(n - j) + 1]
  <2>1. (n - j) + 1 < (n - i) + 1
    BY <1>1, <1>10
  <2>2. y < x /\ x \in 1..l /\ y \in 1..l
    BY <1>2, <1>3, <1>6, <2>1
  <2>3. q[i] = (l - x) + 1 /\ q[j] = (l - y) + 1
    BY <1>7
  <2> HIDE DEF x, y
  <2> QED
    BY <2>2, <2>3
<1>11. \A x : x \in B2 <=> \E i \in 1..n : q[i] = x
  <2>1. ASSUME NEW x \in B2 PROVE \E i \in 1..n : q[i] = x
    <3>1. PICK m \in 1..n : p[m] = (l - x) + 1
      BY <1>4
    <3>2. (n - m) + 1 \in 1..n /\ (n - ((n - m) + 1)) + 1 = m
      BY <1>1
    <3>3. q[(n - m) + 1] = (l - ((l - x) + 1)) + 1
      BY <1>7, <3>1, <3>2
    <3>4. (l - ((l - x) + 1)) + 1 = x
      <4>1. x \in 1..l
        OBVIOUS
      <4> QED
        BY <4>1
    <3> QED
      BY <3>2, <3>3, <3>4
  <2>2. ASSUME NEW i \in 1..n PROVE q[i] \in B2
    BY <1>2, <1>6, <1>8
  <2> HIDE DEF B2
  <2> QED
    BY <2>1, <2>2
<1>12. Rising(q, B2)
  <2> HIDE DEF B2
  <2> QED
    BY <1>9, <1>10, <1>11 DEF Rising
<1> QED
  BY <1>9, <1>12 DEF n

\* The elements of s at the places p.
Chosen(s, p) == [k \in 1..Len(p) |-> s[p[k]]]

\* Those, by the places of what is taken.
LEMMA ThoseIs ==
  ASSUME NEW s, Len(s) \in Nat, NEW A, A \subseteq 1..Len(s), NEW p, Rising(p, A)
  PROVE  B!Those(s, A) = Chosen(s, p)
<1>2. B!InOrder(A, Len(s)) = p
  BY InOrderIs
<1>3. DOMAIN p = 1..Len(p)
  BY DEF Rising
<1> QED
  BY <1>2, <1>3 DEF B!Those, Chosen

\* What is picked of the reverse is the reverse of what is picked.
LEMMA ThoseReverse ==
  ASSUME NEW s \in Seq(Nat), NEW A, A \subseteq 1..Len(s)
  PROVE  B!Those(X!Reverse(s), {j \in 1..Len(s) : (Len(s) - j) + 1 \in A})
         = Reverse(B!Those(s, A))
<1> DEFINE l == Len(s)
           r == X!Reverse(s)
           A2 == {j \in 1..l : (l - j) + 1 \in A}
<1>1. l \in Nat /\ r = [i \in 1..l |-> s[(l - i) + 1]]
  BY DEF X!Reverse
<1>2. r \in Seq(Nat) /\ Len(r) = l
  <2>1. \A i \in 1..l : (l - i) + 1 \in 1..l
    BY <1>1
  <2>2. \A i \in 1..l : s[i] \in Nat
    OBVIOUS
  <2> HIDE DEF l, r
  <2>3. \A i \in 1..l : s[(l - i) + 1] \in Nat
    BY <2>1, <2>2
  <2> QED
    BY <1>1, <2>3
<1>3. PICK p : Rising(p, A)
  <2>1. Rising(B!InOrder(A, l), {x \in A : x \in 1..l})
    BY <1>1, InOrderRising
  <2>2. {x \in A : x \in 1..l} = A
    OBVIOUS
  <2> QED
    BY <2>1, <2>2
<1> DEFINE n == Len(p)
           q == [k \in 1..n |-> (l - p[(n - k) + 1]) + 1]
<1>4. Rising(q, A2) /\ Len(q) = n
  <2>1. Turned(l, p, q) /\ A \subseteq 1..l
    BY DEF Turned
  <2> HIDE DEF q, l
  <2> QED
    BY <1>1, <1>3, <2>1, RisingReverse
<1>5. n \in Nat /\ \A i \in 1..n : p[i] \in 1..l
  BY <1>3 DEF Rising
<1>6. B!Those(r, A2) = [k \in 1..n |-> r[q[k]]]
  <2>1. A2 \subseteq 1..Len(r) /\ Len(r) \in Nat
    BY <1>1, <1>2
  <2> HIDE DEF q, r, A2
  <2>2. B!Those(r, A2) = Chosen(r, q)
    BY <1>2, <1>4, <2>1, ThoseIs
  <2> QED
    BY <1>4, <2>2 DEF Chosen
<1> DEFINE t == B!Those(s, A)
<1>7. t = [k \in 1..n |-> s[p[k]]]
  <2>2. Len(s) \in Nat /\ A \subseteq 1..Len(s)
    OBVIOUS
  <2> HIDE DEF l, n, q, r, A2
  <2>1. B!Those(s, A) = Chosen(s, p)
    BY <1>3, <2>2, ThoseIs
  <2> QED
    BY <2>1 DEF n, Chosen
<1> HIDE DEF l, n, q, r, A2, t
<1>8. Len(t) = n
  BY <1>5, <1>7
<1>9. Reverse(t) = [k \in 1..n |-> t[(n - k) + 1]]
  BY <1>8 DEF Reverse
<1>10. ASSUME NEW k \in 1..n PROVE r[q[k]] = t[(n - k) + 1]
  <2> DEFINE m == (n - k) + 1
             x == p[m]
  <2>1. m \in 1..n
    BY <1>5
  <2>2. x \in 1..l /\ t[m] = s[x]
    BY <1>5, <1>7, <2>1
  <2>3. q[k] = (l - x) + 1
    BY DEF q
  <2> HIDE DEF m, x
  <2>4. (l - x) + 1 \in 1..l /\ (l - ((l - x) + 1)) + 1 = x
    BY <1>1, <2>2
  <2>5. r[(l - x) + 1] = s[x]
    BY <1>1, <2>4
  <2> QED
    BY <2>2, <2>3, <2>5 DEF m
<1>11. B!Those(r, A2) = Reverse(t)
  BY <1>6, <1>9, <1>10
<1> QED
  BY <1>11 DEF r, A2, t, l

\* The elements in a node and in its mirror image.
LEMMA ElementsReverse ==
  ASSUME NEW c \in Seq(Nat), NEW g, NEW f, NEW a, NEW b, a.children = c, b.children = X!Reverse(c),
         \A i \in 1..Len(c) : f[c[i]].name = g[c[i]].name
  PROVE  B!Elements(f, b) = Reverse(B!Elements(g, a))
<1> DEFINE l == Len(c)
           r == X!Reverse(c)
           A == {j \in 1..l : g[c[j]].name # Comment}
           A2 == {j \in 1..l : (l - j) + 1 \in A}
           A3 == {j \in 1..l : f[r[j]].name # Comment}
<1>1. l \in Nat /\ r = [i \in 1..l |-> c[(l - i) + 1]] /\ DOMAIN c = 1..l
  BY DEF X!Reverse
<1>2. DOMAIN r = 1..l
  BY <1>1
<1>3. \A j \in 1..l : (l - j) + 1 \in 1..l /\ r[j] = c[(l - j) + 1]
  BY <1>1
<1>4. A2 = A3
  <2>1. ASSUME NEW j \in 1..l PROVE j \in A2 <=> j \in A3
    <3>1. f[c[(l - j) + 1]].name = g[c[(l - j) + 1]].name
      BY <1>3
    <3> HIDE DEF r
    <3> QED
      BY <1>3, <3>1
  <2>2. A2 \subseteq 1..l /\ A3 \subseteq 1..l
    OBVIOUS
  <2> HIDE DEF A2, A3
  <2> QED
    BY <2>1, <2>2
<1>5. B!Elements(g, a) = B!Those(c, A)
  BY <1>1 DEF B!Elements
<1>6. B!Elements(f, b) = B!Those(r, A3)
  <2> HIDE DEF r
  <2>1. b.children = r
    BY DEF r
  <2> QED
    BY <1>2, <2>1 DEF B!Elements
<1>7. B!Those(r, A2) = Reverse(B!Those(c, A))
  <2>1. A \subseteq 1..Len(c)
    OBVIOUS
  <2> HIDE DEF A
  <2> QED
    BY <2>1, ThoseReverse
<1> HIDE DEF A, A2, A3, r
<1> QED
  BY <1>4, <1>5, <1>6, <1>7

-----------------------------------------------------------------------------
(* The invariant of the loader: what it handed over, in terms of the trees. *)

LoadInv ==
  /\ builder \in {"bison", "expat"}
  /\ outcome = "loaded" =>
       IF builder = "bison" THEN yyresult = 0 /\ handed = B!Elements(yyforest, yyforest[1])
       ELSE Len(forest) # 0 /\ handed = B!Elements(forest, forest[1])
  /\ outcome = "undefined" <=>
       outcome # "none" /\ builder = "expat" /\ status = "failed" /\ Len(forest) = 0

\* log4c_rc_load
LEMMA LoadLoading ==
  ASSUME ParserInv, TreeInv, ExpatInv, LoadInv, log4c_rc_load
  PROVE  LoadInv'
<1>1. /\ UNCHANGED <<builder, yyforest, yyroot, yyresult, forest, root, status>>
      /\ BuilderDone
  BY DEF log4c_rc_load, bison, expat
<1>2. yyresult = 0 => yyroot = 1
  BY DEF TreeInv
<1>3. root = (IF Len(forest) = 0 THEN 0 ELSE 1) /\ (status = "ended" => root # 0)
  BY DEF ExpatInv
<1>4. builder \in {"bison", "expat"}
  BY DEF LoadInv
<1> DEFINE d == sd_domnode_load
           node == d.forest[d.root]
           version == B!AttrsGet(node, Version)
<1>5. IF d.ret = -1 THEN outcome' = "refused"
      ELSE IF d.root = 0 THEN outcome' = "undefined"
      ELSE IF node.name # Root THEN outcome' = "refused"
      ELSE IF version \notin {NULL, VERSION} THEN outcome' = "refused"
      ELSE outcome' = "loaded" /\ handed' = B!Elements(d.forest, node)
  BY DEF log4c_rc_load, Refuse, Undefined, HandOver
<1> HIDE DEF version
<1>6. CASE builder = "bison"
  <2>1. CASE yyresult = 0
    <3>1. d.ret = 0 /\ d.forest = yyforest /\ d.root = 1
      BY <1>2, <1>6, <2>1 DEF sd_domnode_load, Loaded
    <3>2. node = yyforest[1]
      BY <3>1
    <3> HIDE DEF d, node
    <3>3. outcome' = "refused"
          \/ (outcome' = "loaded" /\ handed' = B!Elements(yyforest, yyforest[1]))
      BY <1>5, <3>1, <3>2
    <3> QED
      BY <1>1, <1>6, <2>1, <3>3 DEF LoadInv
  <2>2. CASE yyresult # 0
    <3>1. d.ret = -1
      BY <1>6, <2>2 DEF sd_domnode_load, Loaded
    <3> HIDE DEF d, node
    <3>2. outcome' = "refused"
      BY <1>5, <3>1
    <3> QED
      BY <1>1, <1>6, <3>2 DEF LoadInv
  <2> QED
    BY <2>1, <2>2
<1>7. CASE builder = "expat"
  <2>1. d.ret = 0 /\ d.forest = forest /\ d.root = root
    BY <1>7 DEF sd_domnode_load, Loaded
  <2>2. status \in {"ended", "failed"}
    BY <1>1, <1>7 DEF BuilderDone
  <2>3. node = forest[root]
    BY <2>1
  <2> HIDE DEF d, node
  <2>4. CASE root = 0
    <3>1. outcome' = "undefined"
      BY <1>5, <2>1, <2>4
    <3>2. status = "failed" /\ Len(forest) = 0
      BY <1>3, <2>2, <2>4
    <3> QED
      BY <1>1, <1>7, <3>1, <3>2 DEF LoadInv
  <2>5. CASE root # 0
    <3>1. root = 1 /\ Len(forest) # 0
      BY <1>3, <2>5
    <3>2. outcome' = "refused"
          \/ (outcome' = "loaded" /\ handed' = B!Elements(forest, forest[1]))
      BY <1>5, <2>1, <2>3, <3>1
    <3> QED
      BY <1>1, <1>7, <3>1, <3>2 DEF LoadInv
  <2> QED
    BY <2>4, <2>5
<1> QED
  BY <1>4, <1>6, <1>7

\* Every step keeps the invariant of the loader.
LEMMA LoadNext ==
  ASSUME ParserInv, TreeInv, ExpatInv, LoadInv, [Next]_vars
  PROVE  LoadInv'
<1>1. CASE Parse
  BY <1>1 DEF Parse, load, LoadInv
<1>2. CASE Build
  BY <1>2 DEF Build, load, LoadInv
<1>3. CASE log4c_rc_load
  BY <1>3, LoadLoading
<1>4. CASE NoFile
  <2>1. /\ UNCHANGED <<builder, yyforest, yyresult, forest, status>>
        /\ outcome' = "refused" /\ status = "reading"
    BY <1>4 DEF NoFile, Refuse, bison, expat
  <2> QED
    BY <2>1 DEF LoadInv
<1>5. CASE UNCHANGED vars
  <2>1. UNCHANGED <<builder, outcome, handed, yyforest, yyresult, forest, status>>
    BY <1>5 DEF vars, load, bison, expat
  <2> QED
    BY <2>1 DEF LoadInv
<1> QED
  BY <1>1, <1>2, <1>3, <1>4, <1>5 DEF Next

\* A document without an element has no tree, as a comment needs an element
\* around it.
LEMMA NoElement ==
  ASSUME ExpatInv
  PROVE  Len(forest) = 0 <=> \A j \in DOMAIN doc : doc[j].op # "open"
<1> DEFINE at == B!Opening(doc)
           n == Len(doc)
<1>1. Len(forest) = Len(at) /\ Rising(at, Seats(doc, n))
  BY MirrorWhole DEF Grown
<1>2. DOMAIN doc = 1..n /\ n \in Nat
  BY ExpatFacts
<1>3. Len(at) \in Nat /\ \A x : x \in Seats(doc, n) <=> \E i \in 1..Len(at) : at[i] = x
  BY <1>1 DEF Rising
<1> HIDE DEF at, n
<1>4. ASSUME NEW j \in 1..n, doc[j].op = "open" PROVE Len(at) # 0
  <2>1. j \in Seats(doc, n)
    BY <1>4 DEF Seats
  <2> QED
    BY <1>3, <2>1
<1>5. ASSUME Len(at) # 0 PROVE \E j \in 1..n : doc[j].op = "open"
  <2>1. 1 \in 1..Len(at)
    BY <1>3, <1>5
  <2>2. PICK j : j \in Seats(doc, n)
    BY <1>3, <2>1
  <2>3. j \in 1..n /\ (doc[j].op = "open" \/ B!ParentOf(doc, j) # 0)
    BY <2>2 DEF Seats
  <2>4. CASE B!ParentOf(doc, j) # 0
    <3> DEFINE A == {i \in 1..j-1 : Around(doc, i, j - 1)}
    <3>1. B!ParentOf(doc, j) = Highest(A)
      BY ParentIs
    <3>2. A # {}
      BY <2>4, <3>1 DEF Highest
    <3>3. PICK i \in 1..j-1 : Around(doc, i, j - 1)
      BY <3>2
    <3>4. i \in 1..n /\ doc[i].op = "open"
      BY <1>2, <2>3, <3>3 DEF Around
    <3> QED
      BY <3>4
  <2> QED
    BY <2>3, <2>4
<1> QED
  BY <1>1, <1>2, <1>4, <1>5

\* The elements in the root of the handlers, backwards.
LEMMA ElementsMirrored ==
  ASSUME ExpatInv, Len(forest) # 0
  PROVE  B!Elements(forest, forest[1]) = Reverse(Below(doc))
<1> DEFINE g == B!ForestOf(doc)
           at == B!Opening(doc)
           n == Len(doc)
           V(k) == Spoken(doc, n, at[k])
<1>1. /\ DOMAIN g = 1..Len(g) /\ Len(g) = Len(at) /\ Len(g) \in Nat
      /\ Grown(doc, n, g, at) /\ Len(forest) = Len(g)
      /\ forest = [k \in 1..Len(g) |-> Image(g[k], V(k))]
      /\ \A k \in 1..Len(g) : g[k].name = Comment => g[k].children = << >>
  BY MirrorWhole
<1>2. Below(doc) = B!Elements(g, g[1])
  BY DEF Below
<1> HIDE DEF g, at, V, n
<1>3. ASSUME NEW k \in 1..Len(at)
      PROVE  /\ g[k].children \in Seq(Nat)
             /\ g[k] = [name |-> g[k].name, value |-> g[k].value, children |-> g[k].children,
                        attrs |-> g[k].attrs]
             /\ \A i \in 1..Len(g[k].children) : g[k].children[i] \in 1..Len(at)
  <2>1. /\ g[k].children \in Seq(Nat)
        /\ g[k] = [name |-> g[k].name, value |-> g[k].value, children |-> g[k].children,
                   attrs |-> g[k].attrs]
        /\ doc[at[k]].op = "comment" => g[k] = B!domnode(Comment, doc[at[k]].s)
    <3>1. Grown(doc, n, g, at)
      BY <1>1
    <3> QED
      BY <3>1, NodeParts
  <2>2. CASE doc[at[k]].op = "comment"
    <3>1. g[k].children = << >>
      BY <2>1, <2>2 DEF B!domnode
    <3>2. 1..Len(g[k].children) = {}
      BY <3>1
    <3> QED
      BY <2>1, <3>2
  <2>3. CASE doc[at[k]].op # "comment"
    <3>1. Drawn(doc, n, at, k, g[k])
      BY <1>1 DEF Grown
    <3>2. Rising(g[k].children, {c \in 1..Len(at) : B!ParentOf(doc, at[c]) = at[k]})
      BY <2>3, <3>1 DEF Drawn
    <3>3. \A i \in 1..Len(g[k].children) : g[k].children[i] \in 1..Len(at)
      BY <3>2 DEF Rising
    <3> QED
      BY <2>1, <3>3
  <2> QED
    BY <2>2, <2>3
<1>4. ASSUME NEW k \in 1..Len(at) PROVE Image(g[k], V(k)).name = g[k].name
  <2> DEFINE c == X!Reverse(g[k].children)
             a == X!Reverse(g[k].attrs)
             v == V(k)
             node == g[k]
  <2>1. CASE node.name # Comment
    <3>1. Image(node, v) = [node EXCEPT !.children = c, !.attrs = a, !.value = v]
      BY <2>1 DEF Image
    <3>2. node = [name |-> node.name, value |-> node.value, children |-> node.children,
                  attrs |-> node.attrs]
      BY <1>3
    <3> HIDE DEF c, a, v, node
    <3>3. [node EXCEPT !.children = c, !.attrs = a, !.value = v].name = node.name
      BY <3>2
    <3> QED
      BY <3>1, <3>3 DEF node, v
  <2> QED
    BY <2>1 DEF Image
<1>5. 1 \in 1..Len(at) /\ forest[1] = Image(g[1], V(1))
  BY <1>1
<1>6. forest[1].children = X!Reverse(g[1].children)
  <2> DEFINE c == X!Reverse(g[1].children)
             a == X!Reverse(g[1].attrs)
             v == V(1)
             node == g[1]
  <2>1. CASE node.name = Comment
    <3>1. node.children = << >>
      BY <1>1, <1>5, <2>1
    <3>2. X!Reverse(node.children) = << >>
      BY <3>1 DEF X!Reverse
    <3>3. forest[1] = node
      BY <1>5, <2>1 DEF Image
    <3> QED
      BY <3>1, <3>2, <3>3
  <2>2. CASE node.name # Comment
    <3>1. Image(node, v) = [node EXCEPT !.children = c, !.attrs = a, !.value = v]
      BY <2>2 DEF Image
    <3>2. node = [name |-> node.name, value |-> node.value, children |-> node.children,
                  attrs |-> node.attrs]
      BY <1>3, <1>5
    <3> HIDE DEF c, a, v, node
    <3>3. [node EXCEPT !.children = c, !.attrs = a, !.value = v].children = c
      BY <3>2
    <3> QED
      BY <1>5, <3>1, <3>3 DEF node, v, c
  <2> QED
    BY <2>1, <2>2
<1> DEFINE c == g[1].children
<1>7. c \in Seq(Nat) /\ \A i \in 1..Len(c) : c[i] \in 1..Len(at)
  BY <1>3, <1>5
<1>8. \A m \in 1..Len(at) : forest[m].name = g[m].name
  BY <1>1, <1>4
<1>9. \A i \in 1..Len(c) : forest[c[i]].name = g[c[i]].name
  <2> HIDE DEF c
  <2> QED
    BY <1>7, <1>8
<1>10. B!Elements(forest, forest[1]) = Reverse(B!Elements(g, g[1]))
  BY <1>6, <1>7, <1>9, ElementsReverse
<1> QED
  BY <1>2, <1>10

\* The invariants give the property.
LEMMA LoadsRead ==
  ASSUME ParserInv, TreeInv, ExpatInv, LoadInv
  PROVE  LoadsWhatWasRead
<1>1. ASSUME outcome = "loaded", builder = "bison"
      PROVE  handed = Below(B!Doc) /\ B!Mode = "accepted" /\ B!NamesMatch
  <2>1. yyresult = 0 /\ handed = B!Elements(yyforest, yyforest[1])
    BY <1>1 DEF LoadInv
  <2>2. yyforest = B!ForestOf(B!Doc)
    BY <2>1 DEF TreeInv
  <2>3. B!Mode = "accepted" /\ B!NamesMatch
    BY <2>1, ParserAccepts DEF B!AcceptsGrammar
  <2> QED
    BY <2>1, <2>2, <2>3 DEF Below
<1>2. ASSUME outcome = "loaded", builder # "bison"
      PROVE  handed = Reverse(Below(doc))
  <2>1. Len(forest) # 0 /\ handed = B!Elements(forest, forest[1])
    BY <1>2 DEF LoadInv
  <2> QED
    BY <2>1, ElementsMirrored
<1>3. outcome = "undefined" <=>
        /\ outcome # "none" /\ builder = "expat" /\ status = "failed"
        /\ \A j \in DOMAIN doc : doc[j].op # "open"
  <2>1. outcome = "undefined" <=>
          outcome # "none" /\ builder = "expat" /\ status = "failed" /\ Len(forest) = 0
    BY DEF LoadInv
  <2> QED
    BY <2>1, NoElement
<1> QED
  BY <1>1, <1>2, <1>3 DEF LoadsWhatWasRead

\* The loader hands over what was read, whichever parser read it.
THEOREM LoaderLoadsWhatWasRead == Spec => []LoadsWhatWasRead
<1>1. Init => LoadInv
  <2> SUFFICES ASSUME Init PROVE LoadInv
    OBVIOUS
  <2>1. builder \in {"bison", "expat"} /\ outcome = "none"
    BY DEF Init
  <2> QED
    BY <2>1 DEF LoadInv
<1>2. ParserInv /\ TreeInv /\ ExpatInv /\ LoadInv /\ [Next]_vars => LoadInv'
  BY LoadNext
<1>3. ParserInv /\ TreeInv /\ ExpatInv /\ LoadInv => LoadsWhatWasRead
  BY LoadsRead
<1> QED
  BY <1>1, <1>2, <1>3, TreeKept, MirrorKept, PTL DEF Spec

-----------------------------------------------------------------------------
(* The shape of the tree of an accepted document. *)

\* Every node but the first is a child of a node.
Rooted(f) ==
  \A c \in 2..Len(f) : \E p \in 1..Len(f) : \E i \in 1..Len(f[p].children) : f[p].children[i] = c

\* This is so as long as the parser works, and no element has the name of
\* the comments.
RootedInv ==
  /\ read \in Seq(Tokens) /\ \A j \in 1..Len(read) : read[j].k = 12 => read[j].s \in Names
  /\ B!Parsing \/ yyresult = 0 => Rooted(yyforest)

\* A change of a node that leaves its children.
LEMMA RootedSame ==
  ASSUME NEW f, NEW g, Len(g) = Len(f), \A p \in 1..Len(f) : g[p].children = f[p].children, Rooted(f)
  PROVE  Rooted(g)
BY DEF Rooted

\* A node that is added with its parent.
LEMMA RootedChild ==
  ASSUME NEW f \in Seq(Nodes), Rooted(f), NEW node \in Nodes, NEW p \in 1..Len(f)
  PROVE  Rooted(B!AppendChild(Append(f, node), p, Len(f) + 1))
<1> DEFINE n == Len(f) + 1
           made == Append(f, node)
           g == B!AppendChild(made, p, n)
           q == Append(f[p].children, n)
<1>1. Len(f) \in Nat /\ n \in Nat
  OBVIOUS
<1>2. made \in Seq(Nodes) /\ Len(made) = n /\ \A i \in 1..Len(f) : made[i] = f[i]
  OBVIOUS
<1>3. \A i \in 1..Len(f) : f[i].children \in Seq(Nat)
  <2>1. \A i \in 1..Len(f) : f[i] \in Nodes
    OBVIOUS
  <2> QED
    BY <2>1 DEF Nodes
<1>4. /\ Len(q) = Len(f[p].children) + 1 /\ q[Len(q)] = n /\ Len(q) \in 1..Len(q)
      /\ \A i \in 1..Len(f[p].children) : q[i] = f[p].children[i] /\ i \in 1..Len(q)
  <2> DEFINE c == f[p].children
  <2>1. c \in Seq(Nat)
    BY <1>3
  <2> HIDE DEF c, n
  <2>2. Len(Append(c, n)) = Len(c) + 1 /\ Append(c, n)[Len(c) + 1] = n /\ Len(c) \in Nat
        /\ \A i \in 1..Len(c) : Append(c, n)[i] = c[i]
    BY <1>1, <2>1
  <2>3. Len(Append(c, n)) \in 1..Len(Append(c, n))
        /\ \A i \in 1..Len(c) : i \in 1..Len(Append(c, n))
    BY <2>2
  <2> QED
    BY <2>2, <2>3 DEF c
<1> HIDE DEF n, made
<1>5. Kept(made, g) /\ n = Len(f) + 1
  <2>1. p \in 1..Len(made)
    BY <1>1, <1>2 DEF n
  <2> QED
    BY <1>1, <1>2, <2>1, ChildAppended DEF n
<1>6. Len(g) = n
  BY <1>2, <1>5 DEF Kept
<1>7. g[p].children = q /\ \A i \in 1..Len(f) : i # p => g[i] = f[i]
  <2>1. p \in DOMAIN made /\ \A i \in 1..Len(f) : i \in DOMAIN made
    BY <1>1, <1>2 DEF n
  <2>2. g = [made EXCEPT ![p].children = Append(@, n)]
    BY DEF B!AppendChild
  <2>3. made[p] = f[p] /\ f[p] \in Nodes
    BY <1>2
  <2> DEFINE w == [made[p] EXCEPT !.children = Append(@, n)]
  <2>4. g = [made EXCEPT ![p] = w]
    BY <2>2
  <2>5. w.children = Append(made[p].children, n)
    <3>1. made[p] \in [name : Strings, value : Strings, children : Seq(Nat),
                       attrs : Seq(Strings \X Strings)]
      BY <2>3 DEF Nodes
    <3> QED
      BY <3>1
  <2> HIDE DEF w, g
  <2>6. g[p] = w
    BY <2>1, <2>4
  <2>7. \A i \in 1..Len(f) : i # p => g[i] = made[i]
    BY <2>1, <2>4
  <2> QED
    BY <1>2, <2>3, <2>5, <2>6, <2>7
<1> HIDE DEF g, q
<1>8. p \in 1..n
  BY <1>1 DEF n
<1>9. ASSUME NEW c \in 2..n
      PROVE  \E k \in 1..n : \E i \in 1..Len(g[k].children) : g[k].children[i] = c
  <2>1. CASE c = n
    BY <1>4, <1>7, <1>8, <2>1
  <2>2. CASE c # n
    <3>1. c \in 2..Len(f)
      BY <1>1, <2>2 DEF n
    <3>2. PICK k \in 1..Len(f) : \E i \in 1..Len(f[k].children) : f[k].children[i] = c
      BY <3>1 DEF Rooted
    <3>3. PICK i \in 1..Len(f[k].children) : f[k].children[i] = c
      BY <3>2
    <3>4. k \in 1..n
      BY <1>1 DEF n
    <3>5. CASE k = p
      <4>1. q[i] = c /\ i \in 1..Len(q)
        BY <1>4, <3>3, <3>5
      <4> QED
        BY <1>7, <1>8, <4>1
    <3>6. CASE k # p
      BY <1>7, <3>3, <3>4, <3>6
    <3> QED
      BY <3>5, <3>6
  <2> QED
    BY <2>1, <2>2
<1>10. Rooted(g)
  BY <1>6, <1>9 DEF Rooted
<1> QED
  BY <1>10, <1>5 DEF g, made

\* What the reductions need of the forest.
LEMMA RootedFound ==
  ASSUME ParserInv, RootedInv, NEW n, B!Reducing(n), n # 0
  PROVE  /\ Rooted(yyforest) /\ yyforest \in Seq(Nodes) /\ Len(yyforest) \in Nat
         /\ B!AssertNode <=> Len(yyelements) > 0
         /\ Len(yyelements) > 0 => B!Node \in 1..Len(yyforest)
  BY Found DEF RootedInv, B!Reducing

\* comment: COMMENT
LEMMA RootedCommenting ==
  ASSUME ParserInv, RootedInv, B!ReduceComment
  PROVE  Rooted(yyforest')
<1> DEFINE node == B!domnode(Comment, B!Val(0))
           made == Append(yyforest, node)
<1>1. /\ B!Reducing(4)
      /\ yyforest' = IF B!AssertNode THEN B!AppendChild(made, B!Node, Len(made)) ELSE yyforest
  BY DEF B!ReduceComment, B!Reduce
<1>2. /\ Rooted(yyforest) /\ yyforest \in Seq(Nodes) /\ Len(yyforest) \in Nat
      /\ B!AssertNode => B!Node \in 1..Len(yyforest)
  BY <1>1, RootedFound
<1>3. node \in Nodes
  <2>1. 0 \in 0..17 /\ 0 < Symbols(4)
    BY DEF Symbols
  <2>2. B!Val(0) \in Strings
    BY <1>1, <2>1, Found
  <2>3. << >> \in Seq(Nat) /\ << >> \in Seq(Strings \X Strings) /\ Comment \in Strings
    BY DEF Strings
  <2> QED
    BY <2>2, <2>3 DEF B!domnode, Nodes
<1> HIDE DEF node
<1>4. Len(made) = Len(yyforest) + 1
  BY <1>2
<1> QED
  BY <1>1, <1>2, <1>3, <1>4, RootedChild

\* element: START
LEMMA RootedStarting ==
  ASSUME ParserInv, TreeInv, RootedInv, B!ReduceStart
  PROVE  Rooted(yyforest')
<1> DEFINE node == B!domnode(B!Val(0), NULL)
           made == Append(yyforest, node)
<1>1. /\ B!Reducing(5)
      /\ yyforest' = IF B!AssertNode THEN B!AppendChild(made, B!Node, Len(made)) ELSE made
  BY DEF B!ReduceStart, B!Reduce
<1>2. /\ Rooted(yyforest) /\ yyforest \in Seq(Nodes) /\ Len(yyforest) \in Nat
      /\ B!AssertNode => B!Node \in 1..Len(yyforest)
      /\ B!AssertNode <=> Len(yyelements) > 0
  BY <1>1, RootedFound
<1>3. node \in Nodes
  <2>1. /\ Len(yyvs) = Len(yyss) /\ Len(yyss) \in Nat \ {0}
        /\ Typed(yyvs, yyelements, yyforest, yychar, read)
    BY <1>1, TopFacts DEF B!Reducing
  <2>2. B!Val(0) \in Strings
    <3>1. yyvs \in Seq(Strings) /\ Len(yyvs) \in 1..Len(yyvs)
      BY <2>1 DEF Typed
    <3>2. B!Val(0) = yyvs[Len(yyvs)]
      BY <1>1, Found
    <3> QED
      BY <3>1, <3>2
  <2>3. << >> \in Seq(Nat) /\ << >> \in Seq(Strings \X Strings) /\ NULL \in Strings
    BY DEF Strings
  <2> QED
    BY <2>2, <2>3 DEF B!domnode, Nodes
<1> HIDE DEF node
<1>4. Len(made) = Len(yyforest) + 1
  BY <1>2
<1>5. CASE B!AssertNode
  BY <1>1, <1>2, <1>3, <1>4, <1>5, RootedChild
<1>6. CASE ~ B!AssertNode
  <2>1. Len(yyelements) = 0
    <3>1. Len(yyelements) \in Nat
      BY <1>1, TreeFound
    <3> QED
      BY <1>2, <1>6, <3>1
  <2>2. Top(yyss) = 3
    <3>1. 5 = ReduceBy(Top(yyss))
      BY <1>1, TreeFound
    <3> QED
      BY <3>1 DEF ReduceBy
  <2> DEFINE s == Top(yyss)
             p == yyss[Len(yyss)-1]
             t == TakenOf(s, yychar, read)
  <2>3. Upto(s, p, yyvs, yyelements, yyforest, read, t)
    BY <1>1, TreeFound
  <2> HIDE DEF p, t, s
  <2>4. yyforest = << >>
    <3>1. s = 3
      BY <2>2 DEF s
    <3>2. p = 1
      BY <2>1, <2>3, <3>1 DEF Upto
    <3>3. yyforest = << >> <=> Fresh(s, p)
      BY <2>3 DEF Upto
    <3> QED
      BY <3>1, <3>2, <3>3 DEF Fresh
  <2>5. Len(made) = 1
    <3>1. Len(<< >>) = 0
      OBVIOUS
    <3> QED
      BY <1>4, <2>4, <3>1
  <2>6. 2..Len(made) = {}
    BY <2>5
  <2>7. yyforest' = made
    BY <1>1, <1>6
  <2> HIDE DEF made
  <2> QED
    BY <2>6, <2>7 DEF Rooted
<1> QED
  BY <1>5, <1>6

\* content: content DATA, and attributes: the children stay.
LEMMA RootedFilling ==
  ASSUME ParserInv, RootedInv, B!ReduceData \/ B!ReduceAttribute
  PROVE  Rooted(yyforest')
<1>1. PICK n \in {9, 16, 17} : B!Reducing(n)
  BY DEF B!ReduceData, B!ReduceAttribute
<1>2. Rooted(yyforest) /\ yyforest \in Seq(Nodes) /\ Len(yyforest) \in Nat
  BY <1>1, RootedFound
<1>3. (\E v : yyforest' = [yyforest EXCEPT ![B!Node].value = v])
      \/ (\E x : yyforest' = [yyforest EXCEPT ![B!Node].attrs = Append(@, x)])
  <2>1. CASE B!ReduceData
    BY <2>1 DEF B!ReduceData, B!Reduce
  <2>2. CASE B!ReduceAttribute
    BY <2>2 DEF B!ReduceAttribute, B!Reduce, B!domnode_attribute
  <2> QED
    BY <2>1, <2>2
<1>4. ASSUME NEW k \in 1..Len(yyforest)
      PROVE  yyforest[k] \in [name : Strings, value : Strings, children : Seq(Nat),
                              attrs : Seq(Strings \X Strings)]
  <2>1. yyforest[k] \in Nodes
    BY <1>2
  <2> QED
    BY <2>1 DEF Nodes
<1> DEFINE f == yyforest
           m == B!Node
<1>5. ASSUME NEW w, w.children = f[m].children
      PROVE  LET g == [f EXCEPT ![m] = w]
             IN  Len(g) = Len(f) /\ \A p \in 1..Len(f) : g[p].children = f[p].children
  <2> HIDE DEF f, m
  <2>1. f \in Seq(Nodes) /\ Len(f) \in Nat
    BY <1>2 DEF f
  <2>2. DOMAIN f = 1..Len(f) /\ f = [k \in 1..Len(f) |-> f[k]]
    BY <2>1
  <2>3. [f EXCEPT ![m] = w] = [k \in 1..Len(f) |-> IF k = m THEN w ELSE f[k]]
    BY <2>2
  <2>4. Len([k \in 1..Len(f) |-> IF k = m THEN w ELSE f[k]]) = Len(f)
    BY <2>1
  <2> QED
    BY <1>5, <2>3, <2>4
<1>6. CASE m \in 1..Len(f)
  <2>1. ASSUME NEW v, f' = [f EXCEPT ![m].value = v] PROVE Rooted(f')
    <3> DEFINE w == [f[m] EXCEPT !.value = v]
    <3>1. w.children = f[m].children
      BY <1>4, <1>6
    <3>2. f' = [f EXCEPT ![m] = w]
      BY <2>1
    <3> HIDE DEF w
    <3>3. Len(f') = Len(f) /\ \A p \in 1..Len(f) : f'[p].children = f[p].children
      BY <1>5, <3>1, <3>2
    <3> QED
      BY <1>2, <3>3, RootedSame
  <2>2. ASSUME NEW x, f' = [f EXCEPT ![m].attrs = Append(@, x)] PROVE Rooted(f')
    <3> DEFINE w == [f[m] EXCEPT !.attrs = Append(@, x)]
    <3>1. w.children = f[m].children
      BY <1>4, <1>6
    <3>2. f' = [f EXCEPT ![m] = w]
      BY <2>2
    <3> HIDE DEF w
    <3>3. Len(f') = Len(f) /\ \A p \in 1..Len(f) : f'[p].children = f[p].children
      BY <1>5, <3>1, <3>2
    <3> QED
      BY <1>2, <3>3, RootedSame
  <2> QED
    BY <1>3, <2>1, <2>2
<1>7. m \in 1..Len(f)
  <2>1. B!AssertNode /\ n # 0
    BY <1>1 DEF B!ReduceData, B!ReduceAttribute
  <2> QED
    BY <1>1, <2>1, RootedFound
<1> QED
  BY <1>6, <1>7

\* Every step of the parser keeps the shape.
LEMMA RootedNext ==
  ASSUME ParserInv, TreeInv, RootedInv, B!Next
  PROVE  RootedInv'
<1>1. B!Parsing
  BY DEF B!Next, B!ReadToken, B!Shift, B!Accept, B!SyntaxError, B!Reducing, B!ReduceComment,
         B!ReduceStart, B!ReduceEmpty, B!ReduceEnd, B!ReduceData, B!ReduceAttribute, B!ReduceOther
<1>2. Rooted(yyforest)
  BY <1>1 DEF RootedInv
<1>3. Rooted(yyforest')
  <2>1. CASE B!ReduceComment
    BY <2>1, RootedCommenting
  <2>2. CASE B!ReduceStart
    BY <2>2, RootedStarting
  <2>3. CASE B!ReduceData \/ B!ReduceAttribute
    BY <2>3, RootedFilling
  <2>4. CASE B!ReadToken \/ B!Shift \/ B!Accept \/ B!SyntaxError \/ B!ReduceEmpty
             \/ B!ReduceEnd \/ B!ReduceOther
    <3>1. yyforest' = yyforest
      BY <2>4 DEF B!ReadToken, B!Shift, B!Accept, B!SyntaxError, B!Abort, B!ReduceEmpty,
         B!ReduceEnd, B!ReduceOther, B!Reduce, B!maker
    <3> QED
      BY <1>2, <3>1
  <2> QED
    BY <2>1, <2>2, <2>3, <2>4 DEF B!Next
<1>4. read' \in Seq(Tokens) /\ \A j \in 1..Len(read') : read'[j].k = 12 => read'[j].s \in Names
  <2>1. CASE B!ReadToken
    <3>1. PICK t \in B!YYLEX : read' = Append(read, t)
      BY <2>1 DEF B!ReadToken
    <3>2. read \in Seq(Tokens) /\ Len(read) \in Nat
      BY DEF RootedInv
    <3>3. t \in Tokens
      BY <3>1, <3>2 DEF B!YYLEX, B!Token, Tokens, Kinds, Strings, B!START, B!COMMENT, B!END, B!EOF,
         B!DATA, B!NAME, B!VALUE, B!SLASH, B!EQ, B!CLOSE, B!ENDDEF
    <3>4. t.k = 12 => t.s \in Names
      BY <3>1 DEF B!YYLEX, B!Token, B!START, B!COMMENT, B!END, B!EOF, B!DATA, B!NAME, B!VALUE,
         B!SLASH, B!EQ, B!CLOSE, B!ENDDEF
    <3>5. /\ read' \in Seq(Tokens) /\ Len(read') = Len(read) + 1 /\ read'[Len(read) + 1] = t
          /\ \A j \in 1..Len(read) : read'[j] = read[j]
      BY <3>1, <3>2, <3>3
    <3>6. \A j \in 1..Len(read') : j \in 1..Len(read) \/ j = Len(read) + 1
      BY <3>2, <3>5
    <3> QED
      BY <3>4, <3>5, <3>6 DEF RootedInv
  <2>2. CASE ~ B!ReadToken
    <3>1. read' = read
      BY <2>2 DEF B!Next, B!Shift, B!Accept, B!SyntaxError, B!Abort, B!ReduceEmpty, B!ReduceEnd,
         B!ReduceOther, B!Reduce, B!ReduceComment, B!ReduceStart, B!ReduceData, B!ReduceAttribute
    <3> QED
      BY <3>1 DEF RootedInv
  <2> QED
    BY <2>1, <2>2
<1> QED
  BY <1>3, <1>4 DEF RootedInv

\* The tree of an accepted document has one root.
LEMMA RootedKept == Spec => []RootedInv
<1>1. Init => RootedInv
  <2> SUFFICES ASSUME Init PROVE RootedInv
    OBVIOUS
  <2>1. read = << >> /\ yyforest = << >>
    BY DEF Init, B!Init
  <2>2. 1..Len(read) = {} /\ 2..Len(yyforest) = {} /\ read \in Seq(Tokens)
    BY <2>1
  <2> QED
    BY <2>2 DEF RootedInv, Rooted
<1>2. ParserInv /\ TreeInv /\ RootedInv /\ [Next]_vars => RootedInv'
  <2> SUFFICES ASSUME ParserInv, TreeInv, RootedInv, [Next]_vars PROVE RootedInv'
    OBVIOUS
  <2>1. CASE Parse
    BY <2>1, RootedNext DEF Parse
  <2>2. CASE Build \/ log4c_rc_load \/ NoFile \/ UNCHANGED vars
    <3>1. UNCHANGED <<read, yyforest, yyresult>>
      BY <2>2 DEF Build, log4c_rc_load, NoFile, vars, bison
    <3> QED
      BY <3>1 DEF RootedInv, B!Parsing
  <2> QED
    BY <2>1, <2>2 DEF Next
<1> QED
  BY <1>1, <1>2, TreeKept, PTL DEF Spec

-----------------------------------------------------------------------------
(* Families: forests whose nodes have the numbers of a walk from the root. *)

\* A node as it can be written: a comment, or an element with pairs as its
\* attributes.
Formed(node) ==
  IF node.name = Comment THEN node = B!domnode(Comment, node.value)
  ELSE /\ node = [name |-> node.name, value |-> node.value, children |-> node.children,
                  attrs |-> node.attrs]
       /\ Len(node.attrs) \in Nat
       /\ node.attrs = [i \in 1..Len(node.attrs) |-> <<node.attrs[i][1], node.attrs[i][2]>>]

\* par gives the parent of each node; a node that is made while another one
\* is open is in it, or what is around it.
Parents(par, l) ==
  /\ l \in Nat /\ par \in [1..l -> Nat]
  /\ \A c \in 1..l : par[c] < c /\ (par[c] = 0 => c = 1)
  /\ \A c, e \in 1..l : c < e => par[e] <= par[c] \/ par[e] >= c

Family(g, par) ==
  /\ Parents(par, Len(g)) /\ g = [k \in 1..Len(g) |-> g[k]]
  /\ \A k \in 1..Len(g) : Rising(g[k].children, {c \in 1..Len(g) : par[c] = k}) /\ Formed(g[k])
  /\ \A k \in 1..Len(g) : par[k] = 0 => g[k].name # Comment

\* The tree of a document is one that the events draw.
LEMMA ForestGrown ==
  ASSUME NEW E, NEW d \in Seq(E)
  PROVE  Grown(d, Len(d), B!ForestOf(d), B!Opening(d))
<1> DEFINE n == Len(d)
           at == B!Opening(d)
           f == B!ForestOf(d)
<1>1. n \in Nat /\ DOMAIN d = 1..n
  OBVIOUS
<1>2. Rising(at, Seats(d, n))
  <2>1. at = B!InOrder(Seats(d, n), n)
    BY <1>1 DEF B!Opening, Seats
  <2>2. {x \in Seats(d, n) : x \in 1..n} = Seats(d, n)
    BY DEF Seats
  <2> HIDE DEF at, n
  <2> QED
    BY <1>1, <2>1, <2>2, InOrderRising
<1>3. at \in Seq(Nat) /\ DOMAIN at = 1..Len(at) /\ Len(at) \in Nat
  BY <1>2 DEF Rising
<1>4. ASSUME NEW j, NEW o
      PROVE  Rising(B!Inside(d, j, o), Held(d, n, j, o))
  <2>1. B!Inside(d, j, o) = B!InOrder(Held(d, n, j, o), n)
    BY <1>1 DEF B!Inside, Held
  <2>2. {x \in Held(d, n, j, o) : x \in 1..n} = Held(d, n, j, o)
    BY DEF Held
  <2> HIDE DEF n, at
  <2> QED
    BY <1>1, <2>1, <2>2, InOrderRising
<1> DEFINE Node(j) ==
        LET texts == B!Inside(d, j, "text")
            attrs == B!Inside(d, j, "attr")
        IN  [name     |-> d[j].s,
             value    |-> IF texts = << >> THEN NULL ELSE d[B!Last(texts)].s,
             children |-> B!InOrder({k \in DOMAIN at : B!ParentOf(d, at[k]) = j}, Len(at)),
             attrs    |-> [k \in DOMAIN attrs |-> <<d[attrs[k]].s, d[attrs[k]].v>>]]
<1>5. f = [k \in 1..Len(at) |-> IF d[at[k]].op = "comment" THEN B!domnode(Comment, d[at[k]].s)
                                ELSE Node(at[k])]
  BY <1>3 DEF B!ForestOf
<1> HIDE DEF at, f
<1>6. ASSUME NEW k \in 1..Len(at) PROVE Drawn(d, n, at, k, f[k])
  <2>1. CASE d[at[k]].op = "comment"
    <3>1. f[k] = B!domnode(Comment, d[at[k]].s)
      BY <1>5, <2>1
    <3> QED
      BY <2>1, <3>1 DEF Drawn
  <2>2. CASE d[at[k]].op # "comment"
    <3> DEFINE t == B!Inside(d, at[k], "text")
               a == B!Inside(d, at[k], "attr")
               S == {c \in 1..Len(at) : B!ParentOf(d, at[c]) = at[k]}
               ch == B!InOrder({c \in DOMAIN at : B!ParentOf(d, at[c]) = at[k]}, Len(at))
               v == IF t = << >> THEN NULL ELSE d[t[Len(t)]].s
               at2 == [i \in 1..Len(a) |-> <<d[a[i]].s, d[a[i]].v>>]
    <3>1. Rising(t, Held(d, n, at[k], "text")) /\ Rising(a, Held(d, n, at[k], "attr"))
      BY <1>4
    <3>2. DOMAIN a = 1..Len(a)
      BY <3>1 DEF Rising
    <3>3. Node(at[k]) = [name |-> d[at[k]].s, value |-> v, children |-> ch, attrs |-> at2]
      BY <3>2 DEF B!Last
    <3>4. f[k] = Node(at[k])
      BY <1>5, <2>2
    <3>5. Rising(ch, S)
      <4>1. ch = B!InOrder(S, Len(at))
        BY <1>3
      <4>2. {x \in S : x \in 1..Len(at)} = S
        OBVIOUS
      <4> HIDE DEF S, ch
      <4> QED
        BY <1>3, <4>1, <4>2, InOrderRising
    <3> HIDE DEF t, a, ch, n, Node, v, at2
    <3>6. f[k].children = ch
      BY <3>3, <3>4
    <3>7. f[k] = [name |-> d[at[k]].s, value |-> v, children |-> f[k].children, attrs |-> at2]
      BY <3>3, <3>4, <3>6
    <3>8. Rising(f[k].children, S)
      BY <3>5, <3>6
    <3> QED
      BY <2>2, <3>1, <3>7, <3>8 DEF Drawn, v, at2
  <2> QED
    BY <2>1, <2>2
<1> HIDE DEF Node
<1>7. f = [k \in 1..Len(at) |-> f[k]]
  BY <1>5
<1> QED
  BY <1>2, <1>6, <1>7 DEF Grown, at, f

\* The parent of an event is the highest of the elements around it.
LEMMA ParentFacts ==
  ASSUME NEW d, NEW j \in Nat
  PROVE  LET p == B!ParentOf(d, j)
         IN  /\ p # 0 => p \in 1..j-1 /\ Around(d, p, j - 1)
             /\ p \in Nat
             /\ \A i \in 1..j-1 : Around(d, i, j - 1) => i <= p
<1> DEFINE A == {i \in 1..j-1 : Around(d, i, j - 1)}
           p == B!ParentOf(d, j)
<1>1. p = Highest(A)
  BY ParentIs
<1>2. CASE A = {}
  <2>1. p = 0
    BY <1>1, <1>2 DEF Highest
  <2> QED
    BY <1>2, <2>1
<1>3. CASE A # {}
  <2>1. A \subseteq 1..j /\ \A i \in A : i \in 1..j-1 /\ Around(d, i, j - 1)
    OBVIOUS
  <2> HIDE DEF A, p
  <2>2. p \in A /\ \A i \in A : i <= p
    BY <1>1, <1>3, <2>1, HighestIn
  <2>3. p \in 1..j-1 /\ Around(d, p, j - 1) /\ p \in Nat
    BY <2>1, <2>2
  <2>4. \A i \in 1..j-1 : Around(d, i, j - 1) => i \in A
    BY DEF A
  <2> QED
    BY <2>2, <2>3, <2>4 DEF p
<1> QED
  BY <1>2, <1>3

\* Elements do not cross.
LEMMA ParentsNest ==
  ASSUME NEW d, NEW i \in Nat, NEW j \in Nat, i < j
  PROVE  B!ParentOf(d, j) <= B!ParentOf(d, i) \/ B!ParentOf(d, j) >= i
<1> DEFINE p == B!ParentOf(d, j)
           q == B!ParentOf(d, i)
<1>1. p \in Nat /\ (p # 0 => p \in 1..j-1 /\ Around(d, p, j - 1))
  BY ParentFacts
<1>2. q \in Nat /\ \A k \in 1..i-1 : Around(d, k, i - 1) => k <= q
  BY ParentFacts
<1> HIDE DEF p, q
<1>3. SUFFICES ASSUME p # 0, p < i PROVE p <= q
  BY <1>1, <1>2 DEF p, q
<1>4. Around(d, p, i - 1)
  <2>1. \A k \in p+1..i-1 : k \in p+1..j-1
    BY <1>1, <1>3
  <2> QED
    BY <1>1, <1>3, <2>1 DEF Around
<1> QED
  BY <1>1, <1>2, <1>3, <1>4

\* The nodes of a document are a family, if there is one root and no element
\* has the name of the comments.
LEMMA ForestFamily ==
  ASSUME NEW E, NEW d \in Seq(E), Rooted(B!ForestOf(d)),
         \A j \in 1..Len(d) : d[j].op = "open" => d[j].s # Comment
  PROVE  \E par : Family(B!ForestOf(d), par)
<1> DEFINE n == Len(d)
           at == B!Opening(d)
           g == B!ForestOf(d)
           l == Len(g)
           P(c) == B!ParentOf(d, at[c])
           par == [c \in 1..l |-> IF P(c) = 0 THEN 0 ELSE CHOOSE p \in 1..l : at[p] = P(c)]
<1>1. Grown(d, n, g, at) /\ n \in Nat
  BY ForestGrown
<1> HIDE DEF g, at, n
<1>2. Rising(at, Seats(d, n)) /\ at \in Seq(Nat) /\ Len(at) \in Nat
      /\ g = [k \in 1..Len(at) |-> g[k]]
  BY <1>1 DEF Grown, Rising
<1>3. l = Len(at) /\ l \in Nat
  BY <1>2
<1> HIDE DEF l
<1>4. /\ \A c \in 1..l : at[c] \in Seats(d, n) /\ at[c] \in 1..n
      /\ \A j \in Seats(d, n) : \E c \in 1..l : at[c] = j
      /\ \A c, e \in 1..l : c < e => at[c] < at[e]
  BY <1>2, <1>3 DEF Rising, Seats
<1>5. \A c \in 1..l : P(c) \in Nat /\ (P(c) # 0 => /\ P(c) \in 1..at[c]-1 /\ d[P(c)].op = "open"
                                                  /\ \E p \in 1..l : at[p] = P(c))
  <2> SUFFICES ASSUME NEW c \in 1..l
               PROVE  P(c) \in Nat /\ (P(c) # 0 => /\ P(c) \in 1..at[c]-1 /\ d[P(c)].op = "open"
                                                  /\ \E p \in 1..l : at[p] = P(c))
    OBVIOUS
  <2> DEFINE p == P(c)
             j == at[c]
  <2>1. j \in 1..n /\ j \in Nat
    BY <1>4
  <2>2. p \in Nat /\ (p # 0 => p \in 1..j-1 /\ Around(d, p, j - 1))
    <3>1. p = B!ParentOf(d, j)
      OBVIOUS
    <3> HIDE DEF p, j
    <3> QED
      BY <2>1, <3>1, ParentFacts
  <2> HIDE DEF p, j
  <2>3. p # 0 => p \in 1..n /\ d[p].op = "open"
    BY <1>1, <2>1, <2>2 DEF Around
  <2>4. p # 0 => p \in Seats(d, n)
    BY <2>3 DEF Seats
  <2> QED
    BY <1>4, <2>2, <2>3, <2>4 DEF p, j
<1> HIDE DEF P
<1>6. \A c \in 1..l : /\ P(c) = 0 => par[c] = 0
                      /\ P(c) # 0 => par[c] \in 1..l /\ at[par[c]] = P(c)
  BY <1>5
<1>7. par = [c \in 1..l |-> par[c]]
  OBVIOUS
<1> HIDE DEF par
<1>8. \A c, e \in 1..l : at[c] <= at[e] => c <= e
  <2> SUFFICES ASSUME NEW c \in 1..l, NEW e \in 1..l, at[c] <= at[e], ~ (c <= e) PROVE FALSE
    OBVIOUS
  <2>1. e < c /\ at[c] \in Nat /\ at[e] \in Nat
    BY <1>2, <1>3
  <2>2. at[e] < at[c]
    BY <1>4, <2>1
  <2> QED
    BY <2>1, <2>2
<1>9. \A c \in 1..l : par[c] \in Nat /\ par[c] < c
  <2> SUFFICES ASSUME NEW c \in 1..l PROVE par[c] \in Nat /\ par[c] < c
    OBVIOUS
  <2>1. CASE P(c) = 0
    BY <1>6, <2>1
  <2>2. CASE P(c) # 0
    <3>1. par[c] \in 1..l /\ at[par[c]] = P(c) /\ P(c) \in 1..at[c]-1
      BY <1>5, <1>6, <2>2
    <3>2. at[c] \in Nat
      BY <1>2, <1>3
    <3>3. ~ (at[c] <= at[par[c]])
      BY <3>1, <3>2
    <3>4. ~ (c <= par[c])
      <4> SUFFICES ASSUME c <= par[c] PROVE FALSE
        OBVIOUS
      <4>1. c = par[c] \/ c < par[c]
        BY <3>1
      <4>2. at[par[c]] \in Nat
        BY <1>2, <1>3, <3>1
      <4> QED
        BY <1>4, <3>1, <3>2, <3>3, <4>1, <4>2
    <3> QED
      BY <3>1, <3>4
  <2> QED
    BY <2>1, <2>2
<1>10. ASSUME NEW k \in 1..l
       PROVE  Rising(g[k].children, {c \in 1..l : par[c] = k}) /\ Formed(g[k])
  <2>1. Drawn(d, n, at, k, g[k]) /\ k \in 1..Len(at)
    BY <1>1, <1>3 DEF Grown
  <2>2. {c \in 1..l : par[c] = k} = {c \in 1..l : P(c) = at[k]}
    <3>1. ASSUME NEW c \in 1..l PROVE par[c] = k <=> P(c) = at[k]
      <4>1. CASE P(c) = 0
        BY <1>4, <1>6, <4>1
      <4>2. CASE P(c) # 0
        <5>1. par[c] \in 1..l /\ at[par[c]] = P(c)
          BY <1>6, <4>2
        <5>2. at[par[c]] = at[k] => par[c] = k
          <6>1. at[k] \in Nat /\ at[par[c]] \in Nat
            BY <1>2, <1>3, <5>1
          <6>2. at[k] = at[par[c]] => k <= par[c] /\ par[c] <= k
            BY <1>8, <5>1, <6>1
          <6> QED
            BY <5>1, <6>2
        <5> QED
          BY <5>1, <5>2
      <4> QED
        BY <4>1, <4>2
    <3> QED
      BY <3>1
  <2>3. CASE d[at[k]].op = "comment"
    <3>1. g[k] = B!domnode(Comment, d[at[k]].s)
      BY <2>1, <2>3 DEF Drawn
    <3>2. g[k].name = Comment /\ g[k].children = << >> /\ g[k].value = d[at[k]].s
      BY <3>1 DEF B!domnode
    <3>3. {c \in 1..l : P(c) = at[k]} = {}
      <4> SUFFICES ASSUME NEW c \in 1..l, P(c) = at[k] PROVE FALSE
        OBVIOUS
      <4>1. P(c) # 0
        BY <1>4
      <4> QED
        BY <1>5, <2>3, <4>1
    <3>4. Formed(g[k])
      BY <3>1, <3>2 DEF Formed
    <3> QED
      BY <2>2, <3>2, <3>3, <3>4, RisingEmpty
  <2>4. CASE d[at[k]].op # "comment"
    <3>1. d[at[k]].op = "open" /\ at[k] \in 1..n
      BY <1>4, <2>4 DEF Seats
    <3>2. PICK t, a :
          /\ Rising(t, Held(d, n, at[k], "text")) /\ Rising(a, Held(d, n, at[k], "attr"))
          /\ Rising(g[k].children, {c \in 1..Len(at) : B!ParentOf(d, at[c]) = at[k]})
          /\ g[k] = [name     |-> d[at[k]].s,
                     value    |-> IF t = << >> THEN NULL ELSE d[t[Len(t)]].s,
                     children |-> g[k].children,
                     attrs    |-> [i \in 1..Len(a) |-> <<d[a[i]].s, d[a[i]].v>>]]
      BY <2>1, <2>4 DEF Drawn
    <3>3. {c \in 1..Len(at) : B!ParentOf(d, at[c]) = at[k]} = {c \in 1..l : P(c) = at[k]}
      BY <1>3 DEF P
    <3> DEFINE v == IF t = << >> THEN NULL ELSE d[t[Len(t)]].s
               at2 == [i \in 1..Len(a) |-> <<d[a[i]].s, d[a[i]].v>>]
               ch == g[k].children
               nm == d[at[k]].s
    <3>4. Len(a) \in Nat
      BY <3>2 DEF Rising
    <3>5. Len(at2) = Len(a) /\ Len(at2) \in Nat
          /\ at2 = [i \in 1..Len(at2) |-> <<at2[i][1], at2[i][2]>>]
      BY <3>4
    <3>6. g[k] = [name |-> nm, value |-> v, children |-> ch, attrs |-> at2]
      BY <3>2
    <3>7. nm # Comment
      BY <3>1 DEF n
    <3> HIDE DEF v, at2, ch, nm
    <3>8. g[k].name = nm /\ g[k].attrs = at2 /\ g[k].value = v /\ g[k].children = ch
      BY <3>6
    <3>9. g[k] = [name |-> g[k].name, value |-> g[k].value, children |-> g[k].children,
                  attrs |-> g[k].attrs]
      BY <3>6, <3>8
    <3>10. Formed(g[k])
      BY <3>5, <3>7, <3>8, <3>9 DEF Formed
    <3> QED
      BY <2>2, <3>2, <3>3, <3>10
  <2> QED
    BY <2>3, <2>4
<1>11. ASSUME NEW c \in 1..l, par[c] = 0 PROVE c = 1
  <2> SUFFICES ASSUME c # 1 PROVE FALSE
    OBVIOUS
  <2>1. c \in 2..Len(g)
    BY <1>3 DEF l
  <2>2. PICK p \in 1..Len(g) : \E i \in 1..Len(g[p].children) : g[p].children[i] = c
    BY <2>1 DEF Rooted, g
  <2>3. p \in 1..l
    BY DEF l
  <2>4. Rising(g[p].children, {e \in 1..l : par[e] = p})
    BY <1>10, <2>3
  <2>5. c \in {e \in 1..l : par[e] = p}
    BY <2>2, <2>4 DEF Rising
  <2> QED
    BY <1>11, <2>3, <2>5
<1>12. ASSUME NEW c \in 1..l, NEW e \in 1..l, c < e PROVE par[e] <= par[c] \/ par[e] >= c
  <2>1. at[c] \in Nat /\ at[e] \in Nat /\ at[c] < at[e]
    BY <1>2, <1>3, <1>4, <1>12
  <2>2. P(e) <= P(c) \/ P(e) >= at[c]
    BY <2>1, ParentsNest DEF P
  <2>3. par[e] \in Nat /\ par[c] \in Nat
    BY <1>9
  <2>4. CASE P(e) = 0
    BY <1>6, <2>3, <2>4
  <2>5. CASE P(e) # 0 /\ P(e) >= at[c]
    <3>1. par[e] \in 1..l /\ at[c] <= at[par[e]]
      BY <1>5, <1>6, <2>1, <2>5
    <3> QED
      BY <1>8, <3>1
  <2>6. CASE P(e) # 0 /\ P(e) <= P(c)
    <3>1. P(c) # 0
      BY <1>5, <2>6
    <3>2. par[e] \in 1..l /\ par[c] \in 1..l /\ at[par[e]] <= at[par[c]]
      BY <1>6, <2>6, <3>1
    <3> QED
      BY <1>8, <3>2
  <2> QED
    BY <2>2, <2>4, <2>5, <2>6
<1>13. Parents(par, l)
  <2>1. par \in [1..l -> Nat]
    BY <1>7, <1>9
  <2> QED
    BY <1>3, <1>9, <1>11, <1>12, <2>1 DEF Parents
<1>14. g = [k \in 1..l |-> g[k]]
  BY <1>2, <1>3
<1>15. ASSUME NEW k \in 1..l, par[k] = 0 PROVE g[k].name # Comment
  <2>1. P(k) = 0
    BY <1>6, <1>15
  <2>2. at[k] \in Seats(d, n)
    BY <1>4
  <2>3. d[at[k]].op = "open" /\ at[k] \in 1..n
    BY <2>1, <2>2 DEF Seats, P
  <2>4. d[at[k]].s # Comment
    BY <2>3 DEF n
  <2>5. Drawn(d, n, at, k, g[k])
    BY <1>1, <1>3 DEF Grown
  <2>6. \E t, a : g[k] = [name     |-> d[at[k]].s,
                           value    |-> IF t = << >> THEN NULL ELSE d[t[Len(t)]].s,
                           children |-> g[k].children,
                           attrs    |-> [i \in 1..Len(a) |-> <<d[a[i]].s, d[a[i]].v>>]]
    <3>1. d[at[k]].op # "comment"
      BY <2>3
    <3> QED
      BY <2>5, <3>1 DEF Drawn
  <2>7. g[k].name = d[at[k]].s
    BY <2>6
  <2> QED
    BY <2>4, <2>7
<1>16. Family(g, par)
  BY <1>10, <1>13, <1>14, <1>15 DEF Family, l
<1> QED
  BY <1>16 DEF g

\* So it is when the parser has accepted.
LEMMA AcceptedFamily ==
  ASSUME TreeInv, RootedInv, yyresult = 0
  PROVE  \E par : Family(yyforest, par)
<1>1. yyforest = B!ForestOf(B!Doc) /\ Rooted(yyforest)
  BY DEF TreeInv, RootedInv
<1>2. read \in Seq(Tokens) /\ Len(read) \in Nat
  BY DEF RootedInv
<1>3. B!Doc = Events(read)
  BY <1>2, DocIs
<1> DEFINE d == Events(read)
           E == {d[j] : j \in 1..Len(read)}
<1>4. d \in Seq(E) /\ Len(d) = Len(read)
  <2>1. d = [j \in 1..Len(read) |-> d[j]]
    BY DEF Events
  <2> HIDE DEF d
  <2>2. Len(d) = Len(read)
    BY <1>2, <2>1
  <2>3. d \in [1..Len(read) -> E]
    BY <2>1
  <2> HIDE DEF E
  <2> QED
    BY <1>2, <2>2, <2>3
<1>5. ASSUME NEW j \in 1..Len(d), d[j].op = "open" PROVE d[j].s # Comment
  <2>1. j \in 1..Len(read)
    BY <1>4
  <2>2. d[j] = EventAt(read, j) /\ OpAt(read, j) = "open"
    BY <1>5, <2>1, EventIs
  <2>3. d[j].s = read[j].s
    BY <2>2 DEF EventAt, B!Event
  <2>4. read[j].k = 12
    BY <2>2 DEF OpAt
  <2>5. read[j].s \in Names
    BY <2>1, <2>4 DEF RootedInv
  <2> QED
    BY <2>3, <2>5, BuildersAssumption
<1> HIDE DEF d, E
<1>6. Rooted(B!ForestOf(d)) /\ yyforest = B!ForestOf(d)
  BY <1>1, <1>3 DEF d
<1> QED
  BY <1>4, <1>5, <1>6, ForestFamily

-----------------------------------------------------------------------------
(* Recursion that may use all earlier values, and the search.               *)

\* H gives a value in S from the values before.
Walk(H, S, k) ==
  /\ H \in [(0..k) \X [0..k -> S] -> S]
  /\ \A m \in 0..k : \A F, G \in [0..k -> S] :
       (\A i \in 0..k : i < m => F[i] = G[i]) => H[<<m, F>>] = H[<<m, G>>]

\* There is a function of all these values.
LEMMA WalkExists ==
  ASSUME NEW S, NEW a \in S, NEW k \in Nat, NEW H, Walk(H, S, k)
  PROVE  \E F \in [0..k -> S] : \A m \in 0..k : F[m] = H[<<m, F>>]
<1>0. /\ H \in [(0..k) \X [0..k -> S] -> S]
      /\ \A m \in 0..k : \A F, G \in [0..k -> S] :
           (\A i \in 0..k : i < m => F[i] = G[i]) => H[<<m, F>>] = H[<<m, G>>]
  BY DEF Walk
<1> DEFINE R == {n \in Nat : n <= k + 1 =>
                   \E F \in [0..k -> S] : \A m \in 0..k : m < n => F[m] = H[<<m, F>>]}
<1>1. 0 \in R
  <2> DEFINE F == [m \in 0..k |-> a]
  <2>1. F \in [0..k -> S] /\ \A m \in 0..k : ~ (m < 0)
    OBVIOUS
  <2> HIDE DEF F
  <2> QED
    BY <2>1
<1>2. ASSUME NEW n \in Nat, n \in R PROVE n + 1 \in R
  <2> SUFFICES ASSUME n + 1 <= k + 1
               PROVE  \E F \in [0..k -> S] : \A m \in 0..k : m < n + 1 => F[m] = H[<<m, F>>]
    OBVIOUS
  <2>1. n \in 0..k /\ n <= k + 1
    OBVIOUS
  <2>2. PICK F \in [0..k -> S] : \A m \in 0..k : m < n => F[m] = H[<<m, F>>]
    BY <1>2, <2>1
  <2> DEFINE G == [F EXCEPT ![n] = H[<<n, F>>]]
  <2>3. H[<<n, F>>] \in S
    <3>1. <<n, F>> \in (0..k) \X [0..k -> S]
      BY <2>1
    <3> QED
      BY <1>0, <3>1
  <2>4. G \in [0..k -> S] /\ G[n] = H[<<n, F>>] /\ \A i \in 0..k : i # n => G[i] = F[i]
    BY <2>1, <2>3
  <2> HIDE DEF G
  <2>5. \A i \in 0..k : i < n => G[i] = F[i]
    BY <2>1, <2>4
  <2>6. ASSUME NEW m \in 0..k, m < n + 1 PROVE G[m] = H[<<m, G>>]
    <3>1. \A i \in 0..k : i < m => F[i] = G[i]
      BY <2>1, <2>5, <2>6
    <3>2. H[<<m, F>>] = H[<<m, G>>]
      BY <1>0, <2>4, <3>1
    <3>3. CASE m = n
      BY <2>4, <3>2, <3>3
    <3>4. CASE m # n
      <4>1. m < n
        BY <2>1, <2>6, <3>4
      <4> QED
        BY <2>2, <2>5, <3>2, <4>1
    <3> QED
      BY <3>3, <3>4
  <2> QED
    BY <2>4, <2>6
<1>3. k + 1 \in R
  <2>1. R \in SUBSET Nat
    OBVIOUS
  <2> HIDE DEF R
  <2>2. R = Nat
    BY <1>1, <1>2, <2>1, Induction
  <2> QED
    BY <2>2
<1>4. \A m \in 0..k : m < k + 1
  OBVIOUS
<1> QED
  BY <1>3, <1>4

\* The first of some numbers is one of them.
LEMMA FirstIn ==
  ASSUME NEW P, P \subseteq Nat, P # {}
  PROVE  B!First(P) \in P
<1>1. \E j \in P : \A i \in P : j <= i
  BY Least
<1> QED
  BY <1>1 DEF B!First

\* What is found in the root of a family, where D are the nodes in which
\* something is found, N those of the name and A those with the attribute.
Searched(l, par, A, N, D) ==
  /\ A \subseteq 1..l /\ N \subseteq 1..l /\ D \subseteq 1..l
  /\ \A k \in 1..l : k \in D <=> k \in A \/ \E c \in 1..l : par[c] = k /\ (c \in N \/ c \in D)

\* The search from the root finds what some node has.
LEMMA FoundInRoot ==
  ASSUME NEW l \in Nat \ {0}, NEW par, Parents(par, l), NEW A, NEW N, NEW D,
         Searched(l, par, A, N, D)
  PROVE  1 \in D <=> \E k \in 1..l : (k # 1 /\ k \in N) \/ k \in A
<1>0. /\ A \subseteq 1..l /\ N \subseteq 1..l /\ D \subseteq 1..l
      /\ \A k \in 1..l : k \in D <=> k \in A \/ \E c \in 1..l : par[c] = k /\ (c \in N \/ c \in D)
  BY DEF Searched
<1>1. \A c \in 1..l : par[c] \in Nat /\ par[c] < c /\ (c # 1 => par[c] \in 1..l)
  BY DEF Parents
<1>2. ASSUME 1 \in D PROVE \E k \in 1..l : (k # 1 /\ k \in N) \/ k \in A
  <2> DEFINE R == {m \in Nat : \A k \in 1..l : l - k < m /\ k \in D =>
                                  \E c \in 1..l : (c # 1 /\ c \in N) \/ c \in A}
  <2>1. 0 \in R
    OBVIOUS
  <2>2. ASSUME NEW m \in Nat, m \in R PROVE m + 1 \in R
    <3> SUFFICES ASSUME NEW k \in 1..l, l - k < m + 1, k \in D
                 PROVE  \E c \in 1..l : (c # 1 /\ c \in N) \/ c \in A
      OBVIOUS
    <3>1. CASE k \in A
      BY <1>0, <3>1
    <3>2. CASE k \notin A
      <4>1. PICK c \in 1..l : par[c] = k /\ (c \in N \/ c \in D)
        BY <1>0, <2>2, <3>2
      <4>2. k < c /\ c # 1
        BY <1>1, <4>1
      <4>3. l - c < m
        BY <4>2
      <4> QED
        BY <2>2, <4>1, <4>2, <4>3
    <3> QED
      BY <3>1, <3>2
  <2>3. R = Nat
    <3>1. R \in SUBSET Nat
      OBVIOUS
    <3> HIDE DEF R
    <3> QED
      BY <2>1, <2>2, <3>1, Induction
  <2>4. l \in R
    <3> HIDE DEF R
    <3> QED
      BY <2>3
  <2>5. 1 \in 1..l /\ l - 1 < l
    OBVIOUS
  <2> QED
    BY <1>2, <2>4, <2>5
<1>3. ASSUME NEW k \in 1..l, k \in D PROVE 1 \in D
  <2> DEFINE R == {m \in Nat : \A c \in 1..l : c <= m /\ c \in D => 1 \in D}
  <2>1. 0 \in R
    OBVIOUS
  <2>2. ASSUME NEW m \in Nat, m \in R PROVE m + 1 \in R
    <3> SUFFICES ASSUME NEW c \in 1..l, c <= m + 1, c \in D PROVE 1 \in D
      OBVIOUS
    <3>1. CASE c = 1
      BY <3>1
    <3>2. CASE c # 1
      <4>1. par[c] \in 1..l /\ par[c] <= m
        BY <1>1, <3>2
      <4>2. par[c] \in D
        BY <1>0, <4>1
      <4> QED
        BY <2>2, <4>1, <4>2
    <3> QED
      BY <3>1, <3>2
  <2>3. R = Nat
    <3>1. R \in SUBSET Nat
      OBVIOUS
    <3> HIDE DEF R
    <3> QED
      BY <2>1, <2>2, <3>1, Induction
  <2>4. k \in R
    BY <2>3
  <2> QED
    BY <1>3, <2>4
<1>4. ASSUME NEW k \in 1..l, (k # 1 /\ k \in N) \/ k \in A PROVE 1 \in D
  <2>1. CASE k \in A
    BY <1>0, <1>3, <2>1
  <2>2. CASE k # 1 /\ k \in N
    <3>1. par[k] \in 1..l
      BY <1>1, <2>2
    <3>2. par[k] \in D
      BY <1>0, <2>2, <3>1
    <3> QED
      BY <1>3, <3>1, <3>2
  <2> QED
    BY <1>4, <2>1, <2>2
<1> QED
  BY <1>2, <1>4

\* What the search finds below node k, if F gives what it finds elsewhere.
Finding(f, name, F, m) ==
  LET node  == f[Len(f) - m]
      own   == {j \in DOMAIN node.children : f[node.children[j]].name = name}
      attrs == {j \in DOMAIN node.attrs : node.attrs[j][1] = name}
      deep  == {j \in DOMAIN node.children : F[Len(f) - node.children[j]] # << >>}
  IN  IF m = Len(f) THEN << >>
      ELSE IF own # {} THEN <<node.children[B!First(own)]>>
      ELSE IF attrs # {} THEN node.attrs[B!First(attrs)]
      ELSE IF deep # {} THEN F[Len(f) - node.children[B!First(deep)]] ELSE << >>

Finder(F, f, name) == F = [m \in 0..Len(f) |-> Finding(f, name, F, m)]

\* The nodes of a family, for what follows.
LEMMA FamilyNodes ==
  ASSUME NEW g, NEW par, Family(g, par), NEW k \in 1..Len(g)
  PROVE  /\ Len(g) \in Nat
         /\ g[k].children \in Seq(Nat) /\ DOMAIN g[k].children = 1..Len(g[k].children)
         /\ \A j \in 1..Len(g[k].children) :
              g[k].children[j] \in k+1..Len(g) /\ par[g[k].children[j]] = k
         /\ \A c \in 1..Len(g) : par[c] = k => \E j \in 1..Len(g[k].children) : g[k].children[j] = c
         /\ Len(g[k].attrs) \in Nat /\ DOMAIN g[k].attrs = 1..Len(g[k].attrs)
         /\ \A j \in 1..Len(g[k].attrs) : \E a, b : g[k].attrs[j] = <<a, b>>
<1>1. Parents(par, Len(g)) /\ Rising(g[k].children, {c \in 1..Len(g) : par[c] = k}) /\ Formed(g[k])
  BY DEF Family
<1> DEFINE ch == g[k].children
           l == Len(g)
<1>2. l \in Nat /\ \A c \in 1..l : par[c] < c /\ par[c] \in Nat
  BY <1>1 DEF Parents
<1>3. ch \in Seq(Nat) /\ \A x : x \in {c \in 1..l : par[c] = k} <=> \E j \in 1..Len(ch) : ch[j] = x
  BY <1>1 DEF Rising
<1> HIDE DEF ch, l
<1>4. \A j \in 1..Len(ch) : ch[j] \in 1..l /\ par[ch[j]] = k
  <2> SUFFICES ASSUME NEW j \in 1..Len(ch) PROVE ch[j] \in 1..l /\ par[ch[j]] = k
    OBVIOUS
  <2>1. ch[j] \in {c \in 1..l : par[c] = k}
    BY <1>3
  <2> QED
    BY <2>1
<1>5. \A j \in 1..Len(ch) : ch[j] \in k+1..l
  <2> SUFFICES ASSUME NEW j \in 1..Len(ch) PROVE ch[j] \in k+1..l
    OBVIOUS
  <2>1. ch[j] \in 1..l /\ k < ch[j] /\ k \in Nat
    BY <1>2, <1>4
  <2> QED
    BY <1>2, <2>1
<1>6. DOMAIN ch = 1..Len(ch)
  BY <1>3
<1>7. \A c \in 1..l : par[c] = k => \E j \in 1..Len(ch) : ch[j] = c
  BY <1>3
<1> DEFINE at == g[k].attrs
<1>8. Len(at) \in Nat /\ DOMAIN at = 1..Len(at)
      /\ \A j \in 1..Len(at) : \E a, b : at[j] = <<a, b>>
  <2>1. CASE g[k].name = Comment
    <3>1. at = << >>
      BY <1>1, <2>1 DEF Formed, B!domnode
    <3>2. Len(at) = 0 /\ DOMAIN at = 1..0 /\ 1..Len(at) = {}
      BY <3>1
    <3> QED
      BY <3>2
  <2>2. CASE g[k].name # Comment
    <3>1. Len(at) \in Nat /\ at = [i \in 1..Len(at) |-> <<at[i][1], at[i][2]>>]
      BY <1>1, <2>2 DEF Formed
    <3> HIDE DEF at
    <3>2. DOMAIN at = 1..Len(at) /\ \A j \in 1..Len(at) : at[j] = <<at[j][1], at[j][2]>>
      BY <3>1
    <3> QED
      BY <3>1, <3>2
  <2> QED
    BY <2>1, <2>2
<1> QED
  BY <1>2, <1>3, <1>4, <1>5, <1>6, <1>7, <1>8 DEF ch, l

\* The children of a node come after it and have it as their parent.
ChildrenFollow(g, par, k) ==
  LET ch == g[k].children
  IN  /\ Len(g) \in Nat /\ ch \in Seq(Nat) /\ DOMAIN ch = 1..Len(ch)
      /\ \A j \in 1..Len(ch) : ch[j] \in k+1..Len(g) /\ par[ch[j]] = k

LEMMA FamilyChildren ==
  ASSUME NEW g, NEW par, Family(g, par), NEW k \in 1..Len(g)
  PROVE  ChildrenFollow(g, par, k)
  BY FamilyNodes DEF ChildrenFollow

\* The search is defined: a child has a larger number than its parent.
LEMMA FinderExists ==
  ASSUME NEW g, NEW par, Family(g, par), NEW name
  PROVE  \E F : Finder(F, g, name)
<1> DEFINE l == Len(g)
           A == UNION {{g[k].attrs[j] : j \in 1..Len(g[k].attrs)} : k \in 1..l}
           S == {<< >>} \cup {<<c>> : c \in Nat} \cup A
           H == [x \in (0..l) \X [0..l -> S] |-> Finding(g, name, x[2], x[1])]
<1>1. l \in Nat
  BY DEF Family, Parents
<1>2. \A m \in 0..l, F \in [0..l -> S] : H[<<m, F>>] = Finding(g, name, F, m)
  OBVIOUS
<1>3. ASSUME NEW m \in 0..l, m # l
      PROVE  l - m \in 1..l /\ \A c \in (l-m)+1..l : l - c \in 0..l /\ l - c < m
  BY <1>1, <1>3
<1>4. ASSUME NEW m \in 0..l, NEW F \in [0..l -> S] PROVE Finding(g, name, F, m) \in S
  <2>1. CASE m = l
    <3>1. Finding(g, name, F, m) = << >>
      BY <2>1 DEF Finding
    <3> QED
      BY <3>1
  <2>2. CASE m # l
    <3> DEFINE k == l - m
               node == g[k]
               own   == {j \in DOMAIN node.children : g[node.children[j]].name = name}
               attrs == {j \in DOMAIN node.attrs : node.attrs[j][1] = name}
               deep  == {j \in DOMAIN node.children : F[Len(g) - node.children[j]] # << >>}
    <3>1. k \in 1..l
      BY <1>3, <2>2
    <3>2. /\ node.children \in Seq(Nat) /\ DOMAIN node.children = 1..Len(node.children)
          /\ \A j \in 1..Len(node.children) : node.children[j] \in k+1..l
          /\ DOMAIN node.attrs = 1..Len(node.attrs) /\ Len(node.attrs) \in Nat
      BY <3>1, FamilyNodes
    <3>3. own \subseteq Nat /\ attrs \subseteq Nat /\ deep \subseteq Nat
      <4>1. \A j \in 1..Len(node.children) : j \in Nat
        BY <3>2
      <4>2. \A j \in 1..Len(node.attrs) : j \in Nat
        BY <3>2
      <4> QED
        BY <3>2, <4>1, <4>2
    <3>4. own # {} => <<node.children[B!First(own)]>> \in S
      <4> SUFFICES ASSUME own # {} PROVE <<node.children[B!First(own)]>> \in S
        OBVIOUS
      <4>1. B!First(own) \in own
        BY <3>3, FirstIn
      <4>2. B!First(own) \in 1..Len(node.children)
        BY <3>2, <4>1
      <4>3. \A j \in 1..Len(node.children) : node.children[j] \in Nat
        <5> DEFINE ch == node.children
        <5>1. ch \in Seq(Nat)
          BY <3>2
        <5> HIDE DEF ch
        <5>2. \A j \in 1..Len(ch) : ch[j] \in Nat
          BY <5>1
        <5> QED
          BY <5>2 DEF ch
      <4> QED
        BY <4>2, <4>3
    <3>5. attrs # {} => node.attrs[B!First(attrs)] \in S
      <4> SUFFICES ASSUME attrs # {} PROVE node.attrs[B!First(attrs)] \in S
        OBVIOUS
      <4>1. B!First(attrs) \in attrs
        BY <3>3, FirstIn
      <4>2. B!First(attrs) \in 1..Len(g[k].attrs)
        BY <3>2, <4>1
      <4>3. g[k].attrs[B!First(attrs)] \in A
        <5> HIDE DEF attrs, k, l
        <5> QED
          BY <3>1, <4>2
      <4> QED
        BY <4>3
    <3>6. deep # {} => F[l - node.children[B!First(deep)]] \in S
      <4> SUFFICES ASSUME deep # {} PROVE F[l - node.children[B!First(deep)]] \in S
        OBVIOUS
      <4>1. B!First(deep) \in deep
        BY <3>3, FirstIn
      <4>2. node.children[B!First(deep)] \in k+1..l
        BY <3>2, <4>1
      <4>3. l - node.children[B!First(deep)] \in 0..l
        BY <1>3, <2>2, <4>2
      <4> HIDE DEF S, deep
      <4> QED
        BY <4>3
    <3>7. Finding(g, name, F, m) = IF own # {} THEN <<node.children[B!First(own)]>>
                                  ELSE IF attrs # {} THEN node.attrs[B!First(attrs)]
                                  ELSE IF deep # {} THEN F[l - node.children[B!First(deep)]]
                                  ELSE << >>
      BY <2>2 DEF Finding
    <3>8. << >> \in S
      OBVIOUS
    <3> HIDE DEF own, attrs, deep, S, node
    <3> QED
      BY <3>4, <3>5, <3>6, <3>7, <3>8
  <2> QED
    BY <2>1, <2>2
<1>5. ASSUME NEW m \in 0..l, NEW F \in [0..l -> S], NEW G \in [0..l -> S],
             \A i \in 0..l : i < m => F[i] = G[i]
      PROVE  Finding(g, name, F, m) = Finding(g, name, G, m)
  <2>1. CASE m = l
    BY <2>1 DEF Finding
  <2>2. CASE m # l
    <3> DEFINE k == l - m
               ch == g[k].children
    <3>1. DOMAIN ch = 1..Len(ch) /\ ch \in Seq(Nat) /\ \A j \in 1..Len(ch) : ch[j] \in k+1..l
      BY <1>3, <2>2, FamilyNodes
    <3>2. \A j \in DOMAIN ch : F[l - ch[j]] = G[l - ch[j]]
      <4> SUFFICES ASSUME NEW j \in 1..Len(ch) PROVE F[l - ch[j]] = G[l - ch[j]]
        BY <3>1
      <4>1. l - ch[j] \in 0..l /\ l - ch[j] < m
        <5>1. ch[j] \in (l-m)+1..l
          BY <3>1
        <5> HIDE DEF ch
        <5> QED
          BY <1>3, <2>2, <5>1
      <4> QED
        BY <1>5, <4>1
    <3> DEFINE D1 == {j \in DOMAIN ch : F[l - ch[j]] # << >>}
               D2 == {j \in DOMAIN ch : G[l - ch[j]] # << >>}
    <3>3. D1 = D2
      BY <3>2
    <3>4. D1 # {} => F[l - ch[B!First(D1)]] = G[l - ch[B!First(D2)]]
      <4> SUFFICES ASSUME D1 # {} PROVE F[l - ch[B!First(D1)]] = G[l - ch[B!First(D2)]]
        OBVIOUS
      <4>1. D1 \subseteq Nat
        <5>1. \A j \in 1..Len(ch) : j \in Nat
          BY <3>1
        <5> QED
          BY <3>1, <5>1
      <4>2. B!First(D1) \in D1
        BY <4>1, FirstIn
      <4>3. B!First(D1) \in DOMAIN ch
        BY <4>2
      <4> HIDE DEF D1, D2, ch
      <4> QED
        BY <3>2, <3>3, <4>3
    <3> DEFINE own   == {j \in DOMAIN ch : g[ch[j]].name = name}
               attrs == {j \in DOMAIN g[k].attrs : g[k].attrs[j][1] = name}
    <3>5. Finding(g, name, F, m) = IF own # {} THEN <<ch[B!First(own)]>>
                                  ELSE IF attrs # {} THEN g[k].attrs[B!First(attrs)]
                                  ELSE IF D1 # {} THEN F[l - ch[B!First(D1)]]
                                  ELSE << >>
      BY <2>2 DEF Finding
    <3>6. Finding(g, name, G, m) = IF own # {} THEN <<ch[B!First(own)]>>
                                  ELSE IF attrs # {} THEN g[k].attrs[B!First(attrs)]
                                  ELSE IF D2 # {} THEN G[l - ch[B!First(D2)]]
                                  ELSE << >>
      BY <2>2 DEF Finding
    <3> HIDE DEF own, attrs, D1, D2, ch
    <3> QED
      BY <3>3, <3>4, <3>5, <3>6
  <2> QED
    BY <2>1, <2>2
<1>6. Walk(H, S, l)
  <2>1. \A x \in (0..l) \X [0..l -> S] : H[x] \in S
    <3> SUFFICES ASSUME NEW m \in 0..l, NEW F \in [0..l -> S] PROVE H[<<m, F>>] \in S
      OBVIOUS
    <3> HIDE DEF S, H, l
    <3> QED
      BY <1>2, <1>4
  <2>2. H = [x \in (0..l) \X [0..l -> S] |-> H[x]]
    OBVIOUS
  <2> HIDE DEF H, S, l
  <2>3. H \in [(0..l) \X [0..l -> S] -> S]
    BY <2>1, <2>2
  <2>4. ASSUME NEW m \in 0..l, NEW F \in [0..l -> S], NEW G \in [0..l -> S],
               \A i \in 0..l : i < m => F[i] = G[i]
        PROVE  H[<<m, F>>] = H[<<m, G>>]
    <3>1. Finding(g, name, F, m) = Finding(g, name, G, m)
      BY <1>5, <2>4
    <3> QED
      BY <1>2, <3>1
  <2> QED
    BY <2>3, <2>4 DEF Walk
<1>7. << >> \in S
  OBVIOUS
<1> HIDE DEF S, H
<1>8. PICK F \in [0..l -> S] : \A m \in 0..l : F[m] = H[<<m, F>>]
  <2> HIDE DEF l
  <2> QED
    BY <1>1, <1>6, <1>7, WalkExists
<1>9. F = [m \in 0..l |-> Finding(g, name, F, m)]
  <2>1. \A m \in 0..l : F[m] = Finding(g, name, F, m)
    BY <1>2, <1>8
  <2> QED
    BY <2>1
<1> QED
  BY <1>9 DEF Finder

\* A search in a family finds the name if a node below or an attribute has it.
LEMMA SearchFinds ==
  ASSUME NEW g, NEW par, Family(g, par), Len(g) # 0, NEW name
  PROVE  B!Search(g, 1, name) # << >> <=>
           \E k \in DOMAIN g : \/ k # 1 /\ g[k].name = name
                               \/ \E j \in DOMAIN g[k].attrs : g[k].attrs[j][1] = name
<1> DEFINE l == Len(g)
           F == CHOOSE found : found = [m \in 0..l |-> Finding(g, name, found, m)]
           V(k) == F[l - k]
<1>1. l \in Nat \ {0} /\ DOMAIN g = 1..l /\ Parents(par, l)
  BY DEF Family, Parents
<1>2. F = [m \in 0..l |-> Finding(g, name, F, m)]
  BY FinderExists DEF Finder
<1>3. B!Search(g, 1, name) = F[l - 1]
  BY DEF B!Search, Finding
<1> HIDE DEF F, l
<1> DEFINE A == {k \in 1..l : \E j \in DOMAIN g[k].attrs : g[k].attrs[j][1] = name}
           N == {k \in 1..l : g[k].name = name}
           D == {k \in 1..l : V(k) # << >>}
<1>4. ASSUME NEW k \in 1..l
      PROVE  k \in D <=> k \in A \/ \E c \in 1..l : par[c] = k /\ (c \in N \/ c \in D)
  <2> DEFINE node == g[k]
             ch == node.children
             own   == {j \in DOMAIN ch : g[ch[j]].name = name}
             attrs == {j \in DOMAIN node.attrs : node.attrs[j][1] = name}
             deep  == {j \in DOMAIN ch : F[l - ch[j]] # << >>}
  <2>1. /\ ch \in Seq(Nat) /\ DOMAIN ch = 1..Len(ch)
        /\ \A j \in 1..Len(ch) : ch[j] \in k+1..l /\ par[ch[j]] = k
        /\ \A c \in 1..l : par[c] = k => \E j \in 1..Len(ch) : ch[j] = c
        /\ Len(node.attrs) \in Nat /\ DOMAIN node.attrs = 1..Len(node.attrs)
        /\ \A j \in 1..Len(node.attrs) : \E a, b : node.attrs[j] = <<a, b>>
    <3>1. k \in 1..Len(g)
      BY DEF l
    <3> QED
      BY <3>1, FamilyNodes DEF l
  <2>2. l - k \in 0..l /\ l - k # l /\ l - (l - k) = k
    BY <1>1
  <2>3. V(k) = IF own # {} THEN <<ch[B!First(own)]>>
               ELSE IF attrs # {} THEN node.attrs[B!First(attrs)]
               ELSE IF deep # {} THEN F[l - ch[B!First(deep)]] ELSE << >>
    <3>1. V(k) = Finding(g, name, F, l - k)
      BY <1>2, <2>2
    <3> QED
      BY <2>2, <3>1 DEF Finding, l
  <2>4. own \subseteq Nat /\ attrs \subseteq Nat /\ deep \subseteq Nat
    <3>1. \A j \in 1..Len(ch) : j \in Nat
      BY <2>1
    <3>2. \A j \in 1..Len(node.attrs) : j \in Nat
      BY <2>1
    <3> QED
      BY <2>1, <3>1, <3>2
  <2>5. attrs # {} => node.attrs[B!First(attrs)] # << >>
    <3> SUFFICES ASSUME attrs # {} PROVE node.attrs[B!First(attrs)] # << >>
      OBVIOUS
    <3>1. B!First(attrs) \in attrs
      BY <2>4, FirstIn
    <3>2. B!First(attrs) \in 1..Len(node.attrs)
      BY <2>1, <3>1
    <3>3. PICK a, b : node.attrs[B!First(attrs)] = <<a, b>>
      BY <2>1, <3>2
    <3>4. <<a, b>> # << >>
      OBVIOUS
    <3> QED
      BY <3>3, <3>4
  <2>6. deep # {} => F[l - ch[B!First(deep)]] # << >>
    <3> SUFFICES ASSUME deep # {} PROVE F[l - ch[B!First(deep)]] # << >>
      OBVIOUS
    <3>1. B!First(deep) \in deep
      BY <2>4, FirstIn
    <3> QED
      BY <3>1
  <2>7. k \in D <=> own # {} \/ attrs # {} \/ deep # {}
    <3> DEFINE x == ch[B!First(own)]
               y == node.attrs[B!First(attrs)]
               z == F[l - ch[B!First(deep)]]
               v == V(k)
    <3>1. <<x>> # << >>
      OBVIOUS
    <3>2. k \in D <=> v # << >>
      OBVIOUS
    <3>3. v = IF own # {} THEN <<x>> ELSE IF attrs # {} THEN y ELSE IF deep # {} THEN z ELSE << >>
      BY <2>3
    <3>4. (attrs # {} => y # << >>) /\ (deep # {} => z # << >>)
      BY <2>5, <2>6
    <3> HIDE DEF x, y, z, v, own, attrs, deep, D
    <3> QED
      BY <3>1, <3>2, <3>3, <3>4
  <2>8. attrs # {} <=> k \in A
    OBVIOUS
  <2>9. own # {} <=> \E c \in 1..l : par[c] = k /\ c \in N
    <3>1. ASSUME own # {} PROVE \E c \in 1..l : par[c] = k /\ c \in N
      <4>1. PICK j \in 1..Len(ch) : g[ch[j]].name = name
        BY <2>1, <3>1
      <4>2. ch[j] \in 1..l /\ par[ch[j]] = k
        BY <2>1
      <4> QED
        BY <4>1, <4>2
    <3>2. ASSUME NEW c \in 1..l, par[c] = k, c \in N PROVE own # {}
      <4>1. PICK j \in 1..Len(ch) : ch[j] = c
        BY <2>1, <3>2
      <4> QED
        BY <2>1, <3>2, <4>1
    <3> QED
      BY <3>1, <3>2
  <2>10. deep # {} <=> \E c \in 1..l : par[c] = k /\ c \in D
    <3>1. ASSUME deep # {} PROVE \E c \in 1..l : par[c] = k /\ c \in D
      <4>1. PICK j \in 1..Len(ch) : F[l - ch[j]] # << >>
        BY <2>1, <3>1
      <4>2. ch[j] \in 1..l /\ par[ch[j]] = k
        BY <2>1
      <4> QED
        BY <4>1, <4>2
    <3>2. ASSUME NEW c \in 1..l, par[c] = k, c \in D PROVE deep # {}
      <4>1. PICK j \in 1..Len(ch) : ch[j] = c
        BY <2>1, <3>2
      <4> QED
        BY <2>1, <3>2, <4>1
    <3> QED
      BY <3>1, <3>2
  <2> HIDE DEF own, attrs, deep, D, A, N
  <2> QED
    BY <2>7, <2>8, <2>9, <2>10
<1>5. 1 \in D <=> \E k \in 1..l : (k # 1 /\ k \in N) \/ k \in A
  <2>1. A \subseteq 1..l /\ N \subseteq 1..l /\ D \subseteq 1..l
    OBVIOUS
  <2> HIDE DEF A, N, D
  <2>2. \A k \in 1..l : k \in D <=> k \in A \/ \E c \in 1..l : par[c] = k /\ (c \in N \/ c \in D)
    BY <1>4
  <2>3. Searched(l, par, A, N, D)
    BY <2>1, <2>2 DEF Searched
  <2> QED
    BY <1>1, <2>3, FoundInRoot
<1>6. 1 \in D <=> B!Search(g, 1, name) # << >>
  BY <1>1, <1>3
<1> QED
  BY <1>1, <1>5, <1>6

-----------------------------------------------------------------------------
(* The nodes below a node of a family: they have the numbers after it.      *)

\* e is the last node below k,
Ends(par, l, k, e) ==
  /\ e \in k..l
  /\ \A x \in k+1..e : par[x] >= k
  /\ e < l => par[e+1] < k

\* and below k with its first j children, which are ch.
Part(par, l, k, ch, j, e) ==
  /\ e \in k..l
  /\ \A x \in k+1..e : par[x] >= k
  /\ \A i \in 1..Len(ch) : i <= j <=> ch[i] <= e
  /\ e < l => par[e+1] <= k

\* Before its first child there is the node alone.
LEMMA PartNone ==
  ASSUME NEW l, NEW par, Parents(par, l), NEW k \in 1..l, NEW ch,
         Rising(ch, {c \in 1..l : par[c] = k})
  PROVE  Part(par, l, k, ch, 0, k)
<1>1. l \in Nat /\ par \in [1..l -> Nat] /\ \A c \in 1..l : par[c] < c
  BY DEF Parents
<1>2. \A i \in 1..Len(ch) : ch[i] \in 1..l /\ par[ch[i]] = k
  BY DEF Rising
<1>3. \A i \in 1..Len(ch) : ~ (i <= 0) /\ ~ (ch[i] <= k)
  BY <1>1, <1>2
<1>4. k < l => par[k+1] <= k
  <2> SUFFICES ASSUME k < l PROVE par[k+1] <= k
    OBVIOUS
  <2>1. k + 1 \in 1..l
    BY <1>1
  <2>2. par[k+1] < k + 1 /\ par[k+1] \in Nat
    BY <1>1, <2>1
  <2> QED
    BY <2>2
<1>5. k \in k..l /\ k+1..k = {}
  BY <1>1
<1> QED
  BY <1>3, <1>4, <1>5 DEF Part

\* The next child is the next number,
LEMMA PartNext ==
  ASSUME NEW l, NEW par, Parents(par, l), NEW k \in 1..l, NEW ch,
         Rising(ch, {c \in 1..l : par[c] = k}),
         NEW j \in Nat, j < Len(ch), NEW e, Part(par, l, k, ch, j, e)
  PROVE  ch[j+1] = e + 1 /\ e + 1 \in 1..l /\ par[e+1] = k /\ e \in Nat
<1>1. /\ l \in Nat /\ par \in [1..l -> Nat]
      /\ \A c, x \in 1..l : c < x => par[x] <= par[c] \/ par[x] >= c
  BY DEF Parents
<1>2. /\ \A i \in 1..Len(ch) : ch[i] \in 1..l /\ par[ch[i]] = k
      /\ \A x \in 1..l : par[x] = k => \E i \in 1..Len(ch) : ch[i] = x
      /\ \A i, m \in 1..Len(ch) : i < m => ch[i] < ch[m]
      /\ Len(ch) \in Nat
  BY DEF Rising
<1>3. /\ e \in k..l /\ (e < l => par[e+1] <= k)
      /\ \A i \in 1..Len(ch) : i <= j <=> ch[i] <= e
  BY DEF Part
<1>4. j + 1 \in 1..Len(ch) /\ ~ (j + 1 <= j)
  BY <1>2
<1> DEFINE c == ch[j+1]
<1>5. c \in 1..l /\ par[c] = k /\ ~ (c <= e)
  BY <1>2, <1>3, <1>4
<1> HIDE DEF c
<1>6. e + 1 \in 1..l /\ e + 1 <= c /\ e \in Nat /\ e < l
  BY <1>1, <1>3, <1>5
<1>7. e + 1 = c
  <2> SUFFICES ASSUME e + 1 # c PROVE FALSE
    OBVIOUS
  <2>1. e + 1 < c
    BY <1>5, <1>6
  <2>2. k <= par[e+1] \/ k >= e + 1
    BY <1>1, <1>5, <1>6, <2>1
  <2>3. par[e+1] \in Nat /\ par[e+1] <= k /\ e >= k /\ k \in Nat
    BY <1>1, <1>3, <1>6
  <2>4. par[e+1] = k
    BY <1>6, <2>2, <2>3
  <2>5. PICK i \in 1..Len(ch) : ch[i] = e + 1
    BY <1>2, <1>6, <2>4
  <2>6. ~ (i <= j)
    BY <1>3, <1>6, <2>5
  <2>7. i = j + 1 \/ j + 1 < i
    BY <2>6
  <2>8. ch[j+1] <= ch[i]
    BY <1>2, <1>4, <2>5, <2>7
  <2> QED
    BY <1>5, <1>6, <2>1, <2>5, <2>8 DEF c
<1> QED
  BY <1>5, <1>6, <1>7 DEF c

\* and what is below it comes after it.
LEMMA PartMore ==
  ASSUME NEW l, NEW par, Parents(par, l), NEW k \in 1..l, NEW ch,
         Rising(ch, {c \in 1..l : par[c] = k}),
         NEW j \in Nat, j < Len(ch), NEW e, Part(par, l, k, ch, j, e),
         NEW z, Ends(par, l, e + 1, z)
  PROVE  Part(par, l, k, ch, j + 1, z)
<1>1. /\ l \in Nat /\ par \in [1..l -> Nat]
      /\ \A c, x \in 1..l : c < x => par[x] <= par[c] \/ par[x] >= c
  BY DEF Parents
<1>2. /\ \A i \in 1..Len(ch) : ch[i] \in 1..l /\ par[ch[i]] = k
      /\ \A i, m \in 1..Len(ch) : i < m => ch[i] < ch[m]
      /\ Len(ch) \in Nat
  BY DEF Rising
<1>3. ch[j+1] = e + 1 /\ e + 1 \in 1..l /\ par[e+1] = k /\ e \in Nat
  BY PartNext
<1>4. e \in k..l /\ \A x \in k+1..e : par[x] >= k
  BY DEF Part
<1>5. z \in e+1..l /\ (\A x \in e+1+1..z : par[x] >= e + 1) /\ (z < l => par[z+1] < e + 1)
  BY DEF Ends
<1>6. z \in k..l /\ z \in Nat
  BY <1>1, <1>3, <1>4, <1>5
<1>7. ASSUME NEW x \in k+1..z PROVE par[x] >= k
  <2>0. x \in 1..l
    BY <1>1, <1>5, <1>6
  <2>1. CASE x <= e
    BY <1>4, <2>1
  <2>2. CASE x = e + 1
    BY <1>1, <1>3, <2>2
  <2>3. CASE x > e + 1
    <3>1. x \in e+1+1..z
      BY <1>3, <2>3
    <3>2. par[x] >= e + 1 /\ par[x] \in Nat
      BY <1>1, <1>5, <2>0, <3>1
    <3> QED
      BY <1>3, <1>4, <3>2
  <2> QED
    BY <1>3, <2>1, <2>2, <2>3
<1>8. ASSUME NEW i \in 1..Len(ch) PROVE i <= j + 1 <=> ch[i] <= z
  <2>1. j + 1 \in 1..Len(ch) /\ ch[i] \in 1..l /\ par[ch[i]] = k
    BY <1>2
  <2>2. CASE i <= j + 1
    <3>1. i = j + 1 \/ i < j + 1
      BY <2>2
    <3>2. ch[i] <= e + 1
      BY <1>2, <1>3, <2>1, <3>1
    <3> QED
      BY <1>3, <1>5, <2>1, <2>2, <3>2
  <2>3. CASE j + 1 < i
    <3>1. e + 1 < ch[i]
      BY <1>2, <1>3, <2>1, <2>3
    <3>2. ch[i] <= z => par[ch[i]] >= e + 1
      BY <1>3, <1>5, <2>1, <3>1
    <3> QED
      BY <1>3, <1>4, <2>1, <2>3, <3>2
  <2> QED
    BY <2>2, <2>3
<1>9. z < l => par[z+1] <= k
  <2> SUFFICES ASSUME z < l PROVE par[z+1] <= k
    OBVIOUS
  <2>1. z + 1 \in 1..l /\ e + 1 < z + 1
    BY <1>1, <1>3, <1>5, <1>6
  <2>2. par[z+1] <= par[e+1] \/ par[z+1] >= e + 1
    BY <1>1, <1>3, <2>1
  <2>3. par[z+1] \in Nat /\ par[z+1] < e + 1
    BY <1>1, <1>5, <2>1
  <2> QED
    BY <1>3, <2>2, <2>3
<1> QED
  BY <1>6, <1>7, <1>8, <1>9 DEF Part

\* After its last child all is below it that is,
LEMMA PartAll ==
  ASSUME NEW l, NEW par, Parents(par, l), NEW k \in 1..l, NEW ch,
         Rising(ch, {c \in 1..l : par[c] = k}), NEW e, Part(par, l, k, ch, Len(ch), e)
  PROVE  Ends(par, l, k, e)
<1>1. l \in Nat /\ par \in [1..l -> Nat]
  BY DEF Parents
<1>2. \A x \in 1..l : par[x] = k => \E i \in 1..Len(ch) : ch[i] = x
  BY DEF Rising
<1>3. /\ e \in k..l /\ \A x \in k+1..e : par[x] >= k
      /\ e < l => par[e+1] <= k
      /\ \A i \in 1..Len(ch) : i <= Len(ch) <=> ch[i] <= e
  BY DEF Part
<1>4. e < l => par[e+1] < k
  <2> SUFFICES ASSUME e < l PROVE par[e+1] < k
    OBVIOUS
  <2>1. e + 1 \in 1..l /\ e \in Nat
    BY <1>1, <1>3
  <2>2. par[e+1] # k
    <3> SUFFICES ASSUME par[e+1] = k PROVE FALSE
      OBVIOUS
    <3>1. PICK i \in 1..Len(ch) : ch[i] = e + 1
      BY <1>2, <2>1
    <3>2. Len(ch) \in Nat
      BY DEF Rising
    <3>3. e + 1 <= e
      BY <1>3, <3>1, <3>2
    <3> QED
      BY <2>1, <3>3
  <2>3. par[e+1] \in Nat /\ par[e+1] <= k
    BY <1>1, <1>3, <2>1
  <2> QED
    BY <2>2, <2>3
<1> QED
  BY <1>3, <1>4 DEF Ends

\* and below the root are all.
LEMMA EndsRoot ==
  ASSUME NEW l, NEW par, Parents(par, l), NEW e, Ends(par, l, 1, e)
  PROVE  e = l
<1>1. l \in Nat /\ par \in [1..l -> Nat] /\ \A c \in 1..l : par[c] = 0 => c = 1
  BY DEF Parents
<1>2. e \in 1..l /\ (e < l => par[e+1] < 1)
  BY DEF Ends
<1> SUFFICES ASSUME e < l PROVE FALSE
  BY <1>1, <1>2
<1>3. e + 1 \in 1..l /\ e + 1 # 1
  BY <1>1, <1>2
<1>4. par[e+1] \in Nat /\ par[e+1] < 1
  BY <1>1, <1>2, <1>3
<1> QED
  BY <1>1, <1>3, <1>4

-----------------------------------------------------------------------------
(* The first nodes of a family, as the events of its text make them.        *)

NodeOf(n, v, c, a) == [name |-> n, value |-> v, children |-> c, attrs |-> a]

WithValue(node, w) == [node EXCEPT !.value = w]
WithChildren(node, w) == [node EXCEPT !.children = w]
WithAttrs(node, w) == [node EXCEPT !.attrs = w]

\* What a change of one field makes of a node.
LEMMA NodeWith ==
  ASSUME NEW n, NEW v, NEW c, NEW a, NEW w
  PROVE  /\ WithValue(NodeOf(n, v, c, a), w) = NodeOf(n, w, c, a)
         /\ WithChildren(NodeOf(n, v, c, a), w) = NodeOf(n, v, w, a)
         /\ WithAttrs(NodeOf(n, v, c, a), w) = NodeOf(n, v, c, w)
BY DEF NodeOf, WithValue, WithChildren, WithAttrs

\* The children of node x among the first m.
SonsOf(par, m, x) == B!InOrder({c \in 1..m : par[c] = x}, m)

Cut(g, par, m) ==
  [x \in 1..m |-> NodeOf(g[x].name, g[x].value, SonsOf(par, m, x), g[x].attrs)]

\* The last of them still without its children, with attributes a and value v.
Half(g, par, m, a, v) ==
  [x \in 1..m |-> NodeOf(g[x].name, IF x = m THEN v ELSE g[x].value, SonsOf(par, m, x),
                         IF x = m THEN a ELSE g[x].attrs)]

\* Another node is a child of its parent, and of no other.
LEMMA SonsOfNext ==
  ASSUME NEW par, NEW m \in Nat, NEW x
  PROVE  SonsOf(par, m + 1, x) = IF par[m+1] = x THEN Append(SonsOf(par, m, x), m + 1)
                                 ELSE SonsOf(par, m, x)
<1> DEFINE S == {c \in 1..m : par[c] = x}
           T == {c \in 1..m+1 : par[c] = x}
           q == SonsOf(par, m, x)
<1>1. S \subseteq 1..m /\ T \subseteq 1..m+1 /\ {c \in S : c \in 1..m} = S /\ m + 1 \in Nat
  OBVIOUS
<1>2. T = IF par[m+1] = x THEN S \cup {m + 1} ELSE S
  <2>1. \A c : c \in 1..m+1 <=> c \in 1..m \/ c = m + 1
    OBVIOUS
  <2> QED
    BY <2>1
<1>3. \A y \in S : y < m + 1
  OBVIOUS
<1>4. SonsOf(par, m + 1, x) = B!InOrder(T, m + 1) /\ q = B!InOrder(S, m)
  BY DEF SonsOf
<1> HIDE DEF S, T, q
<1>5. Rising(q, S)
  BY <1>1, <1>4, InOrderRising
<1>6. CASE par[m+1] = x
  <2>1. Rising(Append(q, m + 1), T)
    BY <1>1, <1>2, <1>3, <1>5, <1>6, RisingAppend
  <2>2. B!InOrder(T, m + 1) = Append(q, m + 1)
    BY <1>1, <2>1, InOrderIs
  <2> QED
    BY <1>4, <1>6, <2>2 DEF q
<1>7. CASE par[m+1] # x
  <2>1. Rising(q, T)
    BY <1>2, <1>5, <1>7
  <2>2. B!InOrder(T, m + 1) = q
    BY <1>1, <2>1, InOrderIs
  <2> QED
    BY <1>4, <1>7, <2>2 DEF q
<1> QED
  BY <1>6, <1>7

\* The last node has no child yet.
LEMMA SonsOfLast ==
  ASSUME NEW l, NEW par, Parents(par, l), NEW m \in 1..l
  PROVE  SonsOf(par, m, m) = << >>
<1>1. {c \in 1..m : par[c] = m} = {}
  <2>1. l \in Nat /\ par \in [1..l -> Nat] /\ \A c \in 1..l : par[c] < c
    BY DEF Parents
  <2> SUFFICES ASSUME NEW c \in 1..m, par[c] = m PROVE FALSE
    OBVIOUS
  <2>2. c \in 1..l /\ c <= m
    BY <2>1
  <2>3. par[c] < c
    BY <2>1, <2>2
  <2> QED
    BY <2>1, <2>2, <2>3
<1>2. l \in Nat
  BY DEF Parents
<1>3. m \in Nat /\ {} \subseteq 1..m
  BY <1>2
<1>4. B!InOrder({}, m) = << >>
  BY <1>3, RisingEmpty, InOrderIs
<1> QED
  BY <1>1, <1>4 DEF SonsOf

\* A node is opened: it is the last one, and a child of its parent.
LEMMA HalfOpen ==
  ASSUME NEW g, NEW l, NEW par, Parents(par, l), NEW m \in Nat, m + 1 \in 1..l, NEW v
  PROVE  LET made == Append(Cut(g, par, m), B!domnode(g[m+1].name, v))
         IN  (IF par[m+1] = 0 THEN made ELSE B!AppendChild(made, par[m+1], m + 1))
             = Half(g, par, m + 1, << >>, v)
<1> DEFINE f == Cut(g, par, m)
           node == B!domnode(g[m+1].name, v)
           made == Append(f, node)
           p == par[m+1]
           h == Half(g, par, m + 1, << >>, v)
<1>1. l \in Nat /\ p \in Nat /\ p < m + 1
  <2>1. l \in Nat /\ par \in [1..l -> Nat] /\ \A c \in 1..l : par[c] < c
    BY DEF Parents
  <2> QED
    BY <2>1
<1>2. made = [x \in 1..m+1 |-> IF x = m + 1 THEN node ELSE f[x]]
  <2>1. f = [x \in 1..m |-> f[x]]
    BY DEF Cut
  <2> HIDE DEF f, node
  <2> QED
    BY <2>1, AppendIs
<1>3. \A x \in 1..m : f[x] = NodeOf(g[x].name, g[x].value, SonsOf(par, m, x), g[x].attrs)
  BY DEF Cut
<1>4. \A x \in 1..m+1 :
        h[x] = NodeOf(g[x].name, IF x = m + 1 THEN v ELSE g[x].value, SonsOf(par, m + 1, x),
                      IF x = m + 1 THEN << >> ELSE g[x].attrs)
  BY DEF Half
<1>5. h = [x \in 1..m+1 |-> h[x]]
  BY DEF Half
<1>6. \A x \in 1..m+1 : x \in 1..m \/ x = m + 1
  OBVIOUS
<1>7. node = NodeOf(g[m+1].name, v, << >>, << >>)
  BY DEF B!domnode, NodeOf
<1>8. SonsOf(par, m + 1, m + 1) = << >>
  BY SonsOfLast
<1> HIDE DEF f, h, node
<1>9. h[m+1] = node
  <2>1. m + 1 \in 1..m+1
    OBVIOUS
  <2> QED
    BY <1>4, <1>7, <1>8, <2>1
<1>10. ASSUME NEW x \in 1..m, p # x PROVE h[x] = f[x]
  <2>1. SonsOf(par, m + 1, x) = SonsOf(par, m, x)
    BY <1>10, SonsOfNext
  <2>2. x \in 1..m+1 /\ x # m + 1
    OBVIOUS
  <2> QED
    BY <1>3, <1>4, <2>1, <2>2
<1>11. ASSUME p # 0 PROVE h[p] = [f[p] EXCEPT !.children = Append(f[p].children, m + 1)]
  <2>1. p \in 1..m /\ p \in 1..m+1 /\ p # m + 1
    BY <1>1, <1>11
  <2>2. SonsOf(par, m + 1, p) = Append(SonsOf(par, m, p), m + 1)
    BY SonsOfNext
  <2> DEFINE ch == SonsOf(par, m, p)
             ch2 == Append(ch, m + 1)
  <2>3. f[p] = NodeOf(g[p].name, g[p].value, ch, g[p].attrs)
    BY <1>3, <2>1
  <2>4. h[p] = NodeOf(g[p].name, g[p].value, ch2, g[p].attrs)
    BY <1>4, <2>1, <2>2
  <2>5. f[p].children = ch
    BY <2>3 DEF NodeOf
  <2>6. Append(f[p].children, m + 1) = ch2
    BY <2>5
  <2> HIDE DEF ch, ch2, p
  <2>7. WithChildren(f[p], ch2) = h[p]
    BY <2>3, <2>4, NodeWith
  <2> QED
    BY <2>6, <2>7 DEF p, WithChildren
<1>12. CASE p = 0
  <2>1. \A x \in 1..m+1 : made[x] = h[x]
    BY <1>2, <1>6, <1>9, <1>10, <1>12
  <2> HIDE DEF made
  <2>2. made = h
    BY <1>2, <1>5, <2>1
  <2> QED
    BY <1>12, <2>2 DEF made, f, node, h
<1>13. CASE p # 0
  <2> DEFINE k == B!AppendChild(made, p, m + 1)
             y == [made[p] EXCEPT !.children = Append(made[p].children, m + 1)]
  <2>1. p \in 1..m /\ p \in 1..m+1 /\ p # m + 1
    BY <1>1, <1>13
  <2>2. k = [made EXCEPT ![p] = y]
    BY DEF B!AppendChild
  <2>3. made[p] = f[p]
    BY <1>2, <2>1
  <2>4. y = h[p]
    BY <1>11, <1>13, <2>3
  <2>5. \A x \in 1..m+1 : x # p => made[x] = h[x]
    BY <1>2, <1>6, <1>9, <1>10
  <2> HIDE DEF made, y, k
  <2>6. k = [x \in 1..m+1 |-> IF x = p THEN y ELSE made[x]]
    BY <1>2, <2>1, <2>2
  <2>7. k = h
    BY <1>5, <2>4, <2>5, <2>6
  <2> QED
    BY <1>13, <2>7 DEF k, made, f, node, h
<1> QED
  BY <1>12, <1>13

AttrAdded(f, m, y) == [f EXCEPT ![m].attrs = Append(@, y)]
ValueGiven(f, m, w) == [f EXCEPT ![m].value = w]

\* It gets an attribute,
LEMMA HalfAttr ==
  ASSUME NEW g, NEW par, NEW m \in Nat, m # 0, NEW a, NEW v, NEW y
  PROVE  AttrAdded(Half(g, par, m, a, v), m, y) = Half(g, par, m, Append(a, y), v)
<1> DEFINE h == Half(g, par, m, a, v)
           b == Append(a, y)
           k == Half(g, par, m, b, v)
           r(at) == NodeOf(g[m].name, v, SonsOf(par, m, m), at)
<1>1. m \in 1..m
  OBVIOUS
<1>2. /\ h = [x \in 1..m |-> h[x]] /\ k = [x \in 1..m |-> k[x]] /\ h[m] = r(a) /\ k[m] = r(b)
      /\ \A x \in 1..m : x # m => h[x] = k[x]
  BY <1>1 DEF Half
<1>3. h[m].attrs = a
  BY <1>2 DEF NodeOf
<1>4. [h EXCEPT ![m].attrs = Append(@, y)] = [h EXCEPT ![m] = [h[m] EXCEPT !.attrs = b]]
  BY <1>3
<1>5. [h[m] EXCEPT !.attrs = b] = k[m]
  <2> HIDE DEF b, h, k
  <2>1. WithAttrs(h[m], b) = k[m]
    BY <1>2, NodeWith
  <2> QED
    BY <2>1 DEF WithAttrs
<1> HIDE DEF h, k, b, r
<1>6. [h EXCEPT ![m] = k[m]] = k
  BY <1>1, <1>2
<1> QED
  BY <1>4, <1>5, <1>6 DEF AttrAdded, h, k, b

\* or its value.
LEMMA HalfText ==
  ASSUME NEW g, NEW par, NEW m \in Nat, m # 0, NEW a, NEW v, NEW w
  PROVE  ValueGiven(Half(g, par, m, a, v), m, w) = Half(g, par, m, a, w)
<1> DEFINE h == Half(g, par, m, a, v)
           k == Half(g, par, m, a, w)
           r(u) == NodeOf(g[m].name, u, SonsOf(par, m, m), a)
<1>1. m \in 1..m
  OBVIOUS
<1>2. /\ h = [x \in 1..m |-> h[x]] /\ k = [x \in 1..m |-> k[x]] /\ h[m] = r(v) /\ k[m] = r(w)
      /\ \A x \in 1..m : x # m => h[x] = k[x]
  BY <1>1 DEF Half
<1>3. [h[m] EXCEPT !.value = w] = k[m]
  <2> HIDE DEF h, k
  <2>1. WithValue(h[m], w) = k[m]
    BY <1>2, NodeWith
  <2> QED
    BY <2>1 DEF WithValue
<1> HIDE DEF h, k, r
<1>4. [h EXCEPT ![m].value = w] = [h EXCEPT ![m] = [h[m] EXCEPT !.value = w]]
  OBVIOUS
<1>5. [h EXCEPT ![m] = k[m]] = k
  BY <1>1, <1>2
<1> QED
  BY <1>3, <1>4, <1>5 DEF ValueGiven, h, k

\* With all of them it is the node of the family.
LEMMA HalfWhole ==
  ASSUME NEW g, NEW par, NEW m
  PROVE  Half(g, par, m, g[m].attrs, g[m].value) = Cut(g, par, m)
BY DEF Half, Cut

\* With all nodes the cut is the family.
LEMMA CutWhole ==
  ASSUME NEW g, NEW par, Family(g, par)
  PROVE  Cut(g, par, Len(g)) = g
<1> DEFINE l == Len(g)
<1>1. l \in Nat
  BY DEF Family, Parents
<1>2. ASSUME NEW x \in 1..l
      PROVE  g[x] = NodeOf(g[x].name, g[x].value, SonsOf(par, l, x), g[x].attrs)
  <2>1. Rising(g[x].children, {c \in 1..l : par[c] = x}) /\ Formed(g[x])
    BY DEF Family
  <2>2. {c \in 1..l : par[c] = x} \subseteq 1..l
    OBVIOUS
  <2> HIDE DEF l
  <2>3. SonsOf(par, l, x) = g[x].children
    BY <1>1, <2>1, <2>2, InOrderIs DEF SonsOf
  <2>4. g[x] = NodeOf(g[x].name, g[x].value, g[x].children, g[x].attrs)
    BY <2>1 DEF Formed, B!domnode, NodeOf
  <2> QED
    BY <2>3, <2>4
<1>3. g = [x \in 1..l |-> g[x]]
  BY DEF Family
<1> QED
  BY <1>2, <1>3 DEF Cut

-----------------------------------------------------------------------------
(* The text of a family.                                                    *)

\* F joins the first elements of s.
Joins(F, s, S) ==
  /\ F \in [0..Len(s) -> S] /\ F[0] = << >>
  /\ \A i \in 1..Len(s) : F[i] = F[i-1] \o s[i]

\* FlattenSeq joins them all.
LEMMA FlattenJoins ==
  ASSUME NEW E, NEW s \in Seq(Seq(E))
  PROVE  \E F : Joins(F, s, Seq(E)) /\ F[Len(s)] = B!FlattenSeq(s)
<1> DEFINE l == Len(s)
           S == Seq(E)
           H == [p \in (0..l) \X [0..l -> S] |-> IF p[1] = 0 THEN << >> ELSE p[2][p[1] - 1] \o s[p[1]]]
<1>1. l \in Nat /\ << >> \in S /\ \A i \in 1..l : s[i] \in S
  OBVIOUS
<1>2. Walk(H, S, l)
  <2>1. ASSUME NEW p \in (0..l) \X [0..l -> S]
        PROVE  (IF p[1] = 0 THEN << >> ELSE p[2][p[1] - 1] \o s[p[1]]) \in S
    <3>1. p[1] \in 0..l /\ p[2] \in [0..l -> S]
      OBVIOUS
    <3>2. CASE p[1] = 0
      BY <1>1, <3>2
    <3>3. CASE p[1] # 0
      <4>1. p[1] \in 1..l /\ p[1] - 1 \in 0..l
        BY <1>1, <3>1, <3>3
      <4>2. s[p[1]] \in Seq(E) /\ p[2][p[1] - 1] \in Seq(E)
        BY <1>1, <3>1, <4>1
      <4>3. p[2][p[1] - 1] \o s[p[1]] \in Seq(E)
        BY <4>2
      <4> QED
        BY <3>3, <4>3
    <3> QED
      BY <3>2, <3>3
  <2>2. H \in [(0..l) \X [0..l -> S] -> S]
    BY <2>1
  <2>3. ASSUME NEW m \in 0..l, NEW F \in [0..l -> S], NEW G \in [0..l -> S],
               \A i \in 0..l : i < m => F[i] = G[i]
        PROVE  H[<<m, F>>] = H[<<m, G>>]
    <3>1. H[<<m, F>>] = (IF m = 0 THEN << >> ELSE F[m-1] \o s[m])
          /\ H[<<m, G>>] = (IF m = 0 THEN << >> ELSE G[m-1] \o s[m])
      OBVIOUS
    <3>2. m # 0 => F[m-1] = G[m-1]
      BY <1>1, <2>3
    <3> QED
      BY <3>1, <3>2
  <2> QED
    BY <2>2, <2>3 DEF Walk
<1>3. \A m \in 0..l : \A F \in [0..l -> S] :
        H[<<m, F>>] = IF m = 0 THEN << >> ELSE F[m-1] \o s[m]
  OBVIOUS
<1> HIDE DEF H, S
<1>4. PICK F \in [0..l -> S] : \A m \in 0..l : F[m] = H[<<m, F>>]
  BY <1>1, <1>2, WalkExists
<1>5. F[0] = << >> /\ \A i \in 1..l : F[i] = F[i-1] \o s[i]
  <2>1. 0 \in 0..l /\ \A i \in 1..l : i \in 0..l /\ i # 0
    BY <1>1
  <2> QED
    BY <1>3, <1>4, <2>1
<1>6. F[l] = B!FlattenSeq(s)
  <2>1. CASE l = 0
    BY <1>5, <2>1 DEF B!FlattenSeq
  <2>2. CASE l # 0
    <3> DEFINE Is(f) == f = [i \in 1..l |-> IF i = 1 THEN s[i] ELSE f[i-1] \o s[i]]
               fl == CHOOSE f : Is(f)
    <3>1. B!FlattenSeq(s) = fl[l]
      BY <2>2 DEF B!FlattenSeq
    <3>2. F[1] = s[1]
      <4>1. 1 \in 1..l /\ s[1] \in Seq(E)
        BY <1>1, <2>2
      <4>2. << >> \o s[1] = s[1]
        BY <4>1
      <4>3. F[1] = F[0] \o s[1]
        <5>1. 1 - 1 = 0
          OBVIOUS
        <5> QED
          BY <1>5, <4>1, <5>1
      <4> QED
        BY <1>5, <4>2, <4>3
    <3> DEFINE R == [i \in 1..l |-> F[i]]
    <3>3. Is(R)
      <4>1. \A i \in 1..l : R[i] = IF i = 1 THEN s[i] ELSE R[i-1] \o s[i]
        <5> SUFFICES ASSUME NEW i \in 1..l PROVE R[i] = IF i = 1 THEN s[i] ELSE R[i-1] \o s[i]
          OBVIOUS
        <5>1. R[i] = F[i] /\ (i # 1 => i - 1 \in 1..l /\ R[i-1] = F[i-1])
          BY <1>1
        <5> HIDE DEF R
        <5> QED
          BY <1>5, <3>2, <5>1
      <4>2. R = [i \in 1..l |-> R[i]]
        OBVIOUS
      <4> HIDE DEF R
      <4> QED
        BY <4>1, <4>2
    <3>4. Is(fl)
      <4> HIDE DEF Is
      <4> QED
        BY <3>3
    <3> HIDE DEF fl, R
    <3>5. \A i \in 1..l : fl[i] = IF i = 1 THEN s[i] ELSE fl[i-1] \o s[i]
      BY <3>4
    <3> DEFINE Q == {n \in Nat : n \in 1..l => fl[n] = F[n]}
    <3>6. 0 \in Q
      OBVIOUS
    <3>7. ASSUME NEW n \in Nat, n \in Q PROVE n + 1 \in Q
      <4> SUFFICES ASSUME n + 1 \in 1..l PROVE fl[n+1] = F[n+1]
        OBVIOUS
      <4>1. CASE n = 0
        BY <3>2, <3>5, <4>1
      <4>2. CASE n # 0
        <5> DEFINE j == n + 1
        <5>1. n \in 1..l /\ j \in 1..l /\ j # 1 /\ j - 1 = n
          BY <1>1, <4>2
        <5> HIDE DEF j
        <5>2. fl[n] = F[n]
          BY <3>7, <5>1
        <5>3. fl[j] = fl[n] \o s[j]
          BY <3>5, <5>1
        <5>4. F[j] = F[n] \o s[j]
          BY <1>5, <5>1
        <5> QED
          BY <5>2, <5>3, <5>4 DEF j
      <4> QED
        BY <4>1, <4>2
    <3>8. Q \in SUBSET Nat
      OBVIOUS
    <3>9. l \in Q
      <4> HIDE DEF Q
      <4>1. Q = Nat
        BY <3>6, <3>7, <3>8, Induction
      <4> QED
        BY <1>1, <4>1
    <3>10. fl[l] = F[l]
      BY <1>1, <2>2, <3>9
    <3> QED
      BY <3>1, <3>10
  <2> QED
    BY <2>1, <2>2
<1> QED
  BY <1>4, <1>5, <1>6 DEF Joins, S

\* The events of a text come in d after the first n.
LiesAt(d, n, t) == n \in Nat /\ \A i \in 1..Len(t) : d[n+i] = t[i]

\* The parts of a text come one after the other.
LEMMA LiesJoined ==
  ASSUME NEW E, NEW a \in Seq(E), NEW b \in Seq(E), NEW d, NEW n, LiesAt(d, n, a \o b)
  PROVE  /\ LiesAt(d, n, a) /\ LiesAt(d, n + Len(a), b)
         /\ a \o b \in Seq(E) /\ Len(a \o b) = Len(a) + Len(b)
<1>1. /\ a \o b \in Seq(E) /\ Len(a \o b) = Len(a) + Len(b) /\ Len(a) \in Nat /\ Len(b) \in Nat
      /\ \A i \in 1..Len(a) : (a \o b)[i] = a[i]
      /\ \A i \in 1..Len(b) : (a \o b)[Len(a) + i] = b[i]
  OBVIOUS
<1>2. n \in Nat /\ \A i \in 1..Len(a)+Len(b) : d[n+i] = (a \o b)[i]
  BY <1>1 DEF LiesAt
<1>3. ASSUME NEW i \in 1..Len(a) PROVE d[n+i] = a[i]
  <2>1. i \in 1..Len(a)+Len(b)
    BY <1>1
  <2> QED
    BY <1>1, <1>2, <2>1
<1>4. ASSUME NEW i \in 1..Len(b) PROVE d[n + Len(a) + i] = b[i]
  <2>1. Len(a) + i \in 1..Len(a)+Len(b) /\ n + (Len(a) + i) = n + Len(a) + i
    BY <1>1, <1>2
  <2> QED
    BY <1>1, <1>2, <2>1
<1> QED
  BY <1>1, <1>2, <1>3, <1>4 DEF LiesAt

\* So do the elements of what FlattenSeq joins.
LEMMA LiesFlattened ==
  ASSUME NEW E, NEW s \in Seq(Seq(E)), NEW d, NEW n, LiesAt(d, n, B!FlattenSeq(s))
  PROVE  \E o : /\ o \in [0..Len(s) -> Nat] /\ o[0] = n
                /\ o[Len(s)] = n + Len(B!FlattenSeq(s))
                /\ \A i \in 1..Len(s) : o[i] = o[i-1] + Len(s[i]) /\ LiesAt(d, o[i-1], s[i])
<1> DEFINE l == Len(s)
<1>1. PICK F : Joins(F, s, Seq(E)) /\ F[Len(s)] = B!FlattenSeq(s)
  BY FlattenJoins
<1>2. /\ F \in [0..l -> Seq(E)] /\ F[0] = << >>
      /\ \A i \in 1..l : F[i] = F[i-1] \o s[i]
      /\ l \in Nat /\ \A i \in 1..l : s[i] \in Seq(E)
  BY <1>1 DEF Joins
<1>3. n \in Nat
  BY DEF LiesAt
<1> DEFINE o == [i \in 0..l |-> n + Len(F[i])]
           Q == {m \in Nat : m <= l => LiesAt(d, n, F[l - m])}
<1>4. ASSUME NEW i \in 1..l, LiesAt(d, n, F[i])
      PROVE  /\ LiesAt(d, n, F[i-1]) /\ LiesAt(d, n + Len(F[i-1]), s[i])
             /\ Len(F[i]) = Len(F[i-1]) + Len(s[i])
  <2>0. i - 1 \in 0..l
    BY <1>2
  <2>1. F[i-1] \in Seq(E) /\ s[i] \in Seq(E) /\ F[i] = F[i-1] \o s[i]
    BY <1>2, <2>0
  <2> DEFINE a == F[i-1]
             b == s[i]
  <2>2. a \in Seq(E) /\ b \in Seq(E) /\ LiesAt(d, n, a \o b)
    BY <1>4, <2>1
  <2>3. F[i] = a \o b
    BY <2>1
  <2> HIDE DEF a, b
  <2>4. LiesAt(d, n, a) /\ LiesAt(d, n + Len(a), b) /\ Len(a \o b) = Len(a) + Len(b)
    BY <2>2, LiesJoined
  <2> QED
    BY <2>3, <2>4 DEF a, b
<1>5. 0 \in Q
  BY <1>1, <1>2
<1>6. ASSUME NEW m \in Nat, m \in Q PROVE m + 1 \in Q
  <2> SUFFICES ASSUME m + 1 <= l PROVE LiesAt(d, n, F[l - (m + 1)])
    OBVIOUS
  <2>1. l - m \in 1..l /\ (l - m) - 1 = l - (m + 1) /\ m <= l
    BY <1>2
  <2> QED
    BY <1>4, <1>6, <2>1
<1>7. Q \in SUBSET Nat
  OBVIOUS
<1>8. \A i \in 0..l : LiesAt(d, n, F[i])
  <2> SUFFICES ASSUME NEW i \in 0..l PROVE LiesAt(d, n, F[i])
    OBVIOUS
  <2>1. l - i \in Nat /\ l - i <= l /\ l - (l - i) = i
    BY <1>2
  <2>2. l - i \in Q
    <3> HIDE DEF Q
    <3>1. Q = Nat
      BY <1>5, <1>6, <1>7, Induction
    <3> QED
      BY <2>1, <3>1
  <2> QED
    BY <2>1, <2>2
<1>9. o \in [0..l -> Nat]
  <2>1. \A i \in 0..l : F[i] \in Seq(E)
    BY <1>2
  <2>2. \A i \in 0..l : Len(F[i]) \in Nat
    BY <2>1
  <2> QED
    BY <1>3, <2>2
<1>10. \A i \in 0..l : o[i] = n + Len(F[i])
  OBVIOUS
<1> HIDE DEF o, Q
<1>11. o[0] = n
  <2>1. 0 \in 0..l /\ Len(F[0]) = 0
    BY <1>2
  <2>2. o[0] = n + Len(F[0])
    BY <1>10, <2>1
  <2> QED
    BY <1>3, <2>1, <2>2
<1>12. o[l] = n + Len(B!FlattenSeq(s))
  <2>1. l \in 0..l
    BY <1>2
  <2> QED
    BY <1>1, <1>10, <2>1
<1>13. ASSUME NEW i \in 1..l PROVE o[i] = o[i-1] + Len(s[i]) /\ LiesAt(d, o[i-1], s[i])
  <2>0. i \in 0..l /\ i - 1 \in 0..l
    BY <1>2
  <2>1. s[i] \in Seq(E) /\ F[i-1] \in Seq(E)
    BY <1>2, <2>0
  <2>2. LiesAt(d, n, F[i])
    BY <1>8, <2>1
  <2>3. LiesAt(d, n + Len(F[i-1]), s[i]) /\ Len(F[i]) = Len(F[i-1]) + Len(s[i])
    BY <1>4, <2>2
  <2>4. Len(s[i]) \in Nat /\ Len(F[i-1]) \in Nat
    BY <2>1
  <2>5. o[i] = n + Len(F[i]) /\ o[i-1] = n + Len(F[i-1])
    BY <1>10, <2>0
  <2>6. n + Len(F[i]) = n + Len(F[i-1]) + Len(s[i])
    <3>1. Len(F[i]) = Len(F[i-1]) + Len(s[i])
      BY <2>3
    <3> DEFINE x == Len(F[i])
               y == Len(F[i-1])
               z == Len(s[i])
    <3>2. x = y + z /\ y \in Nat /\ z \in Nat
      BY <2>4, <3>1
    <3> HIDE DEF x, y, z
    <3>3. n + x = n + y + z
      BY <1>3, <3>2
    <3> QED
      BY <3>3 DEF x, y, z
  <2> QED
    BY <2>3, <2>5, <2>6
<1> QED
  BY <1>9, <1>11, <1>12, <1>13

-----------------------------------------------------------------------------
(* The text of a node, of its attributes, its value and its children.       *)

AttrsText(node) ==
  [j \in DOMAIN node.attrs |-> B!Event("attr", node.attrs[j][1], node.attrs[j][2])]

ValueText(node) == IF node.value = NULL THEN << >> ELSE <<B!Event("text", node.value, NULL)>>

\* Those of the children are in F.
SonsText(f, F, node) == [j \in DOMAIN node.children |-> F[Len(f) - node.children[j]]]

NodeText(f, F, node) ==
  IF node.name = Comment THEN <<B!Event("comment", node.value, NULL)>>
  ELSE <<B!Event("open", node.name, NULL)>>
       \o AttrsText(node) \o ValueText(node) \o B!FlattenSeq(SonsText(f, F, node))
       \o <<B!Event("close", node.name, NULL)>>

Texting(f, F, m) == IF Len(f) - m = 0 THEN << >> ELSE NodeText(f, F, f[Len(f) - m])

\* E has the events of the texts of a forest of l nodes.
Covers(E, g, l) ==
  \A k \in 1..l :
    /\ B!Event("comment", g[k].value, NULL) \in E /\ B!Event("open", g[k].name, NULL) \in E
    /\ B!Event("text", g[k].value, NULL) \in E /\ B!Event("close", g[k].name, NULL) \in E
    /\ \A j \in 1..Len(g[k].attrs) : B!Event("attr", g[k].attrs[j][1], g[k].attrs[j][2]) \in E

\* There is a set of them.
LEMMA CoversExist ==
  ASSUME NEW g, NEW l
  PROVE  \E E : Covers(E, g, l)
<1> DEFINE At(k) == {B!Event("attr", g[k].attrs[j][1], g[k].attrs[j][2]) : j \in 1..Len(g[k].attrs)}
           Of(k) == {B!Event("comment", g[k].value, NULL), B!Event("open", g[k].name, NULL),
                     B!Event("text", g[k].value, NULL), B!Event("close", g[k].name, NULL)}
           E == UNION {At(k) \cup Of(k) : k \in 1..l}
<1>1. ASSUME NEW k \in 1..l
      PROVE  At(k) \subseteq E /\ Of(k) \subseteq E
  <2> HIDE DEF At, Of
  <2> QED
    OBVIOUS
<1>2. ASSUME NEW k \in 1..l
      PROVE  /\ B!Event("comment", g[k].value, NULL) \in Of(k)
             /\ B!Event("open", g[k].name, NULL) \in Of(k)
             /\ B!Event("text", g[k].value, NULL) \in Of(k)
             /\ B!Event("close", g[k].name, NULL) \in Of(k)
             /\ \A j \in 1..Len(g[k].attrs) :
                  B!Event("attr", g[k].attrs[j][1], g[k].attrs[j][2]) \in At(k)
  OBVIOUS
<1> HIDE DEF At, Of, E
<1>3. Covers(E, g, l)
  <2> SUFFICES ASSUME NEW k \in 1..l
               PROVE  /\ B!Event("comment", g[k].value, NULL) \in E
                      /\ B!Event("open", g[k].name, NULL) \in E
                      /\ B!Event("text", g[k].value, NULL) \in E
                      /\ B!Event("close", g[k].name, NULL) \in E
                      /\ \A j \in 1..Len(g[k].attrs) :
                           B!Event("attr", g[k].attrs[j][1], g[k].attrs[j][2]) \in E
    BY DEF Covers
  <2> QED
    BY <1>1, <1>2
<1> QED
  BY <1>3

\* The parts of a node's text are sequences of events.
LEMMA TextParts ==
  ASSUME NEW g, NEW par, Family(g, par), NEW E, Covers(E, g, Len(g)),
         NEW F, F \in [0..Len(g) -> Seq(E)], NEW k \in 1..Len(g)
  PROVE  /\ <<B!Event("comment", g[k].value, NULL)>> \in Seq(E)
         /\ <<B!Event("open", g[k].name, NULL)>> \in Seq(E)
         /\ AttrsText(g[k]) \in Seq(E) /\ Len(AttrsText(g[k])) = Len(g[k].attrs)
         /\ ValueText(g[k]) \in Seq(E)
         /\ SonsText(g, F, g[k]) \in Seq(Seq(E))
         /\ Len(SonsText(g, F, g[k])) = Len(g[k].children)
         /\ B!FlattenSeq(SonsText(g, F, g[k])) \in Seq(E)
         /\ <<B!Event("close", g[k].name, NULL)>> \in Seq(E)
<1> DEFINE node == g[k]
           l == Len(g)
           ch == node.children
           at == node.attrs
           s == SonsText(g, F, node)
<1>1. /\ l \in Nat /\ ch \in Seq(Nat) /\ DOMAIN ch = 1..Len(ch)
      /\ \A j \in 1..Len(ch) : ch[j] \in k+1..l
      /\ Len(at) \in Nat /\ DOMAIN at = 1..Len(at)
  BY FamilyNodes
<1>2. /\ B!Event("comment", node.value, NULL) \in E /\ B!Event("open", node.name, NULL) \in E
      /\ B!Event("text", node.value, NULL) \in E /\ B!Event("close", node.name, NULL) \in E
      /\ \A j \in 1..Len(at) : B!Event("attr", at[j][1], at[j][2]) \in E
  BY DEF Covers
<1>3. AttrsText(node) \in [1..Len(at) -> E]
  BY <1>1, <1>2 DEF AttrsText
<1>4. AttrsText(node) \in Seq(E) /\ Len(AttrsText(node)) = Len(at)
  <2> DEFINE a == AttrsText(node)
             n == Len(at)
  <2>1. a \in [1..n -> E] /\ n \in Nat
    BY <1>1, <1>3
  <2> HIDE DEF a, n
  <2>2. a \in Seq(E) /\ Len(a) = n
    BY <2>1
  <2> QED
    BY <2>2 DEF a, n
<1>5. ValueText(node) \in Seq(E)
  BY <1>2 DEF ValueText
<1>6. s \in [1..Len(ch) -> Seq(E)]
  <2>1. ASSUME NEW j \in 1..Len(ch) PROVE F[l - ch[j]] \in Seq(E)
    <3>1. ch[j] \in k+1..l /\ k \in 1..l
      BY <1>1
    <3>2. l - ch[j] \in 0..l
      BY <1>1, <3>1
    <3> QED
      BY <3>2
  <2> QED
    BY <1>1, <2>1 DEF SonsText
<1>7. s \in Seq(Seq(E)) /\ Len(s) = Len(ch)
  <2> DEFINE n == Len(ch)
             S == Seq(E)
  <2>1. s \in [1..n -> S] /\ n \in Nat
    BY <1>1, <1>6
  <2> HIDE DEF s, n, S
  <2>2. s \in Seq(S) /\ Len(s) = n
    BY <2>1
  <2> QED
    BY <2>2 DEF n, S
<1>8. B!FlattenSeq(s) \in Seq(E)
  <2> HIDE DEF s
  <2>1. PICK J : Joins(J, s, Seq(E)) /\ J[Len(s)] = B!FlattenSeq(s)
    BY <1>7, FlattenJoins
  <2>2. J \in [0..Len(s) -> Seq(E)] /\ Len(s) \in 0..Len(s)
    BY <1>7, <2>1 DEF Joins
  <2> QED
    BY <2>1, <2>2
<1>9. /\ <<B!Event("comment", node.value, NULL)>> \in Seq(E)
      /\ <<B!Event("open", node.name, NULL)>> \in Seq(E)
      /\ <<B!Event("close", node.name, NULL)>> \in Seq(E)
  <2> DEFINE x == B!Event("comment", node.value, NULL)
             y == B!Event("open", node.name, NULL)
             z == B!Event("close", node.name, NULL)
  <2>1. x \in E /\ y \in E /\ z \in E
    BY <1>2
  <2> HIDE DEF x, y, z
  <2>2. <<x>> \in Seq(E) /\ <<y>> \in Seq(E) /\ <<z>> \in Seq(E)
    BY <2>1
  <2> QED
    BY <2>2 DEF x, y, z
<1> QED
  BY <1>4, <1>5, <1>7, <1>8, <1>9

\* A text is one, too.
LEMMA TextIn ==
  ASSUME NEW g, NEW par, Family(g, par), NEW E, Covers(E, g, Len(g)),
         NEW F, F \in [0..Len(g) -> Seq(E)], NEW k \in 1..Len(g)
  PROVE  NodeText(g, F, g[k]) \in Seq(E)
<1> DEFINE a == <<B!Event("open", g[k].name, NULL)>>
           b == AttrsText(g[k])
           c == ValueText(g[k])
           d == B!FlattenSeq(SonsText(g, F, g[k]))
           e == <<B!Event("close", g[k].name, NULL)>>
           f == <<B!Event("comment", g[k].value, NULL)>>
<1>1. a \in Seq(E) /\ b \in Seq(E) /\ c \in Seq(E) /\ d \in Seq(E) /\ e \in Seq(E) /\ f \in Seq(E)
  BY TextParts
<1>2. NodeText(g, F, g[k]) = IF g[k].name = Comment THEN f ELSE a \o b \o c \o d \o e
  BY DEF NodeText
<1> HIDE DEF a, b, c, d, e, f
<1>3. a \o b \in Seq(E)
  BY <1>1
<1>4. a \o b \o c \in Seq(E)
  BY <1>1, <1>3
<1>5. a \o b \o c \o d \in Seq(E)
  BY <1>1, <1>4
<1>6. a \o b \o c \o d \o e \in Seq(E)
  BY <1>1, <1>5
<1> QED
  BY <1>1, <1>2, <1>6

\* A text uses those of larger numbers only.
LEMMA TextSame ==
  ASSUME NEW g, NEW par, Family(g, par), NEW F, NEW G, NEW k \in 1..Len(g),
         \A c \in k+1..Len(g) : F[Len(g) - c] = G[Len(g) - c]
  PROVE  NodeText(g, F, g[k]) = NodeText(g, G, g[k])
<1>1. DOMAIN g[k].children = 1..Len(g[k].children)
      /\ \A j \in 1..Len(g[k].children) : g[k].children[j] \in k+1..Len(g)
  BY FamilyChildren DEF ChildrenFollow
<1>2. SonsText(g, F, g[k]) = SonsText(g, G, g[k])
  BY <1>1 DEF SonsText
<1> QED
  BY <1>2 DEF NodeText

\* Hence the texts of all nodes exist, and DocumentOf is that of the root.
LEMMA TextsExist ==
  ASSUME NEW g, NEW par, Family(g, par), NEW E, Covers(E, g, Len(g))
  PROVE  \E F \in [0..Len(g) -> Seq(E)] : F = [m \in 0..Len(g) |-> Texting(g, F, m)]
<1> DEFINE l == Len(g)
           S == Seq(E)
           H == [x \in (0..l) \X [0..l -> S] |-> Texting(g, x[2], x[1])]
<1>1. l \in Nat /\ << >> \in S
  BY DEF Family, Parents
<1>2. \A m \in 0..l, F \in [0..l -> S] : H[<<m, F>>] = Texting(g, F, m)
  OBVIOUS
<1>3. ASSUME NEW m \in 0..l, l - m # 0
      PROVE  l - m \in 1..l /\ \A c \in (l-m)+1..l : l - c \in 0..l /\ l - c < m
  BY <1>1, <1>3
<1>4. ASSUME NEW m \in 0..l, NEW F \in [0..l -> S] PROVE Texting(g, F, m) \in S
  BY <1>1, <1>3, TextIn DEF Texting
<1>5. ASSUME NEW m \in 0..l, NEW F \in [0..l -> S], NEW G \in [0..l -> S],
             \A i \in 0..l : i < m => F[i] = G[i]
      PROVE  Texting(g, F, m) = Texting(g, G, m)
  <2>1. CASE l - m = 0
    BY <2>1 DEF Texting
  <2>2. CASE l - m # 0
    <3> DEFINE k == l - m
    <3>1. k \in 1..l /\ \A c \in k+1..l : F[l - c] = G[l - c]
      BY <1>3, <1>5, <2>2
    <3> HIDE DEF k
    <3>2. NodeText(g, F, g[k]) = NodeText(g, G, g[k])
      BY <3>1, TextSame
    <3> QED
      BY <2>2, <3>2 DEF Texting, k
  <2> QED
    BY <2>1, <2>2
<1>6. Walk(H, S, l)
  <2>1. \A x \in (0..l) \X [0..l -> S] : H[x] \in S
    <3> SUFFICES ASSUME NEW m \in 0..l, NEW F \in [0..l -> S] PROVE H[<<m, F>>] \in S
      OBVIOUS
    <3> HIDE DEF S, H, l
    <3> QED
      BY <1>2, <1>4
  <2>2. H = [x \in (0..l) \X [0..l -> S] |-> H[x]]
    OBVIOUS
  <2> HIDE DEF H, S, l
  <2>3. H \in [(0..l) \X [0..l -> S] -> S]
    BY <2>1, <2>2
  <2>4. ASSUME NEW m \in 0..l, NEW F \in [0..l -> S], NEW G \in [0..l -> S],
               \A i \in 0..l : i < m => F[i] = G[i]
        PROVE  H[<<m, F>>] = H[<<m, G>>]
    <3>1. Texting(g, F, m) = Texting(g, G, m)
      BY <1>5, <2>4
    <3> QED
      BY <1>2, <3>1
  <2> QED
    BY <2>3, <2>4 DEF Walk
<1> HIDE DEF S, H
<1>8. PICK F \in [0..l -> S] : \A m \in 0..l : F[m] = H[<<m, F>>]
  <2> HIDE DEF l
  <2> QED
    BY <1>1, <1>6, WalkExists
<1>9. F = [m \in 0..l |-> Texting(g, F, m)]
  <2>1. \A m \in 0..l : F[m] = Texting(g, F, m)
    BY <1>2, <1>8
  <2> QED
    BY <2>1
<1> QED
  BY <1>9 DEF S

\* What is written of a family is the text of its root.
LEMMA WrittenIs ==
  ASSUME NEW g, NEW par, Family(g, par), NEW E, Covers(E, g, Len(g)), Len(g) # 0
  PROVE  \E F : /\ F \in [0..Len(g) -> Seq(E)] /\ B!DocumentOf(g, 1) = F[Len(g) - 1]
                /\ \A k \in 1..Len(g) : F[Len(g) - k] = NodeText(g, F, g[k])
<1> DEFINE l == Len(g)
           F == CHOOSE text : text = [m \in 0..l |-> Texting(g, text, m)]
<1>1. l \in Nat /\ l # 0
  BY DEF Family, Parents
<1>2. F = [m \in 0..l |-> Texting(g, F, m)]
  BY TextsExist
<1>3. B!DocumentOf(g, 1) = F[l - 1]
  BY DEF B!DocumentOf, Texting, NodeText, AttrsText, ValueText, SonsText
<1>4. ASSUME NEW k \in 1..l PROVE F[l - k] = NodeText(g, F, g[k])
  <2> HIDE DEF F, l
  <2>1. l - k \in 0..l /\ l - (l - k) = k /\ k # 0
    BY <1>1
  <2>2. F[l - k] = Texting(g, F, l - k)
    BY <1>2, <2>1
  <2> QED
    BY <2>1, <2>2 DEF Texting, l
<1>5. F \in [0..l -> Seq(E)]
  <2> SUFFICES ASSUME NEW G \in [0..l -> Seq(E)], G = [m \in 0..l |-> Texting(g, G, m)]
               PROVE  F \in [0..l -> Seq(E)]
    BY TextsExist
  <2> HIDE DEF F, l
  <2> DEFINE R == {n \in Nat : n <= l => F[n] = G[n]}
  <2>1. ASSUME NEW n \in Nat, \A i \in 0..n-1 : i <= l => F[i] = G[i], n <= l PROVE F[n] = G[n]
    <3>0. n \in 0..l
      BY <1>1, <2>1
    <3>1. n \in 0..l /\ F[n] = Texting(g, F, n) /\ G[n] = Texting(g, G, n)
      <4>1. \A m \in 0..l : F[m] = Texting(g, F, m)
        BY <1>2
      <4>2. \A m \in 0..l : G[m] = Texting(g, G, m)
        OBVIOUS
      <4> QED
        BY <3>0, <4>1, <4>2
    <3>2. CASE l - n = 0
      BY <3>1, <3>2 DEF Texting, l
    <3>3. CASE l - n # 0
      <4> DEFINE k == l - n
      <4>1. k \in 1..l /\ \A c \in k+1..l : F[l - c] = G[l - c]
        <5>1. k \in 1..l
          BY <1>1, <3>1, <3>3
        <5>2. ASSUME NEW c \in k+1..l PROVE F[l - c] = G[l - c]
          <6>1. l - c \in 0..n-1 /\ l - c <= l
            BY <1>1, <3>1, <5>1
          <6> QED
            BY <2>1, <6>1
        <5> QED
          BY <5>1, <5>2
      <4> HIDE DEF k
      <4>2. NodeText(g, F, g[k]) = NodeText(g, G, g[k])
        BY <4>1, TextSame DEF l
      <4> QED
        BY <3>1, <3>3, <4>2 DEF Texting, k, l
    <3> QED
      BY <3>2, <3>3
  <2> DEFINE Q == {n \in Nat : \A i \in 0..n-1 : i <= l => F[i] = G[i]}
  <2>2. 0 \in Q
    <3>1. 0..0-1 = {}
      OBVIOUS
    <3> QED
      BY <3>1
  <2>3. ASSUME NEW n \in Nat, n \in Q PROVE n + 1 \in Q
    <3>1. \A i \in 0..n+1-1 : i \in 0..n-1 \/ i = n
      OBVIOUS
    <3>2. n <= l => F[n] = G[n]
      BY <2>1, <2>3
    <3> QED
      BY <2>3, <3>1, <3>2
  <2>4. Q \in SUBSET Nat
    OBVIOUS
  <2>5. l + 1 \in Q
    <3> HIDE DEF Q
    <3>1. Q = Nat
      BY <2>2, <2>3, <2>4, Induction
    <3> QED
      BY <1>1, <3>1
  <2>6. \A i \in 0..l : F[i] = G[i]
    <3> DEFINE z == l + 1
    <3>1. z \in Q /\ z - 1 = l /\ \A i \in 0..l : i <= l
      BY <1>1, <2>5
    <3> HIDE DEF z
    <3>2. \A i \in 0..z-1 : i <= l => F[i] = G[i]
      BY <3>1
    <3> QED
      BY <3>1, <3>2
  <2>7. F = [i \in 0..l |-> F[i]]
    <3>1. F = [m \in 0..l |-> Texting(g, F, m)]
      BY <1>2
    <3> QED
      BY <3>1
  <2> QED
    BY <2>6, <2>7
<1> QED
  BY <1>3, <1>4, <1>5

-----------------------------------------------------------------------------
(* The text of a family is drawn as the family.                             *)

\* Where the parts of a node's text are in d.
TextPlaces(g, F, k, d, n) ==
  LET node == g[k]
      p == n + 1 + Len(node.attrs)
      q == p + Len(ValueText(node))
      s == B!FlattenSeq(SonsText(g, F, node))
  IN  /\ n \in Nat /\ Len(node.attrs) \in Nat /\ Len(ValueText(node)) \in Nat /\ Len(s) \in Nat
      /\ d[n+1] = B!Event("open", node.name, NULL)
      /\ \A j \in 1..Len(node.attrs) :
           d[n+1+j] = B!Event("attr", node.attrs[j][1], node.attrs[j][2])
      /\ node.value # NULL => d[p+1] = B!Event("text", node.value, NULL)
      /\ LiesAt(d, q, s)
      /\ d[q + Len(s) + 1] = B!Event("close", node.name, NULL)
      /\ n + Len(NodeText(g, F, node)) = q + Len(s) + 1

\* They are there if the text is.
LEMMA TextLies ==
  ASSUME NEW g, NEW par, Family(g, par), NEW E, Covers(E, g, Len(g)),
         NEW F, F \in [0..Len(g) -> Seq(E)], NEW k \in 1..Len(g), g[k].name # Comment,
         NEW d, NEW n, LiesAt(d, n, NodeText(g, F, g[k]))
  PROVE  TextPlaces(g, F, k, d, n)
<1> DEFINE x == B!Event("open", g[k].name, NULL)
           y == B!Event("close", g[k].name, NULL)
           a == <<x>>
           b == AttrsText(g[k])
           c == ValueText(g[k])
           s == B!FlattenSeq(SonsText(g, F, g[k]))
           e == <<y>>
           la == Len(g[k].attrs)
           text == NodeText(g, F, g[k])
<1>1. /\ a \in Seq(E) /\ b \in Seq(E) /\ c \in Seq(E) /\ s \in Seq(E) /\ e \in Seq(E)
      /\ Len(b) = la
  BY TextParts
<1>2. text = a \o b \o c \o s \o e
  BY DEF NodeText
<1>3. la \in Nat /\ DOMAIN g[k].attrs = 1..la
  BY FamilyNodes
<1>4. Len(a) = 1 /\ a[1] = x /\ Len(e) = 1 /\ e[1] = y /\ 1 \in 1..Len(a) /\ 1 \in 1..Len(e)
  <2> HIDE DEF x, y
  <2> QED
    OBVIOUS
<1>5. \A j \in 1..la : b[j] = B!Event("attr", g[k].attrs[j][1], g[k].attrs[j][2])
  BY <1>3 DEF AttrsText
<1>6. g[k].value # NULL => Len(c) = 1 /\ c[1] = B!Event("text", g[k].value, NULL)
  BY DEF ValueText
<1>7. n \in Nat
  BY DEF LiesAt
<1> HIDE DEF a, b, c, s, e, x, y, la, text
<1>8. Len(c) \in Nat /\ Len(s) \in Nat
  BY <1>1
<1>9. a \o b \in Seq(E)
  BY <1>1
<1>10. a \o b \o c \in Seq(E)
  BY <1>1, <1>9
<1>11. a \o b \o c \o s \in Seq(E)
  BY <1>1, <1>10
<1>12. /\ LiesAt(d, n, a \o b \o c \o s) /\ LiesAt(d, n + Len(a \o b \o c \o s), e)
       /\ Len(text) = Len(a \o b \o c \o s) + Len(e)
  <2>1. LiesAt(d, n, (a \o b \o c \o s) \o e)
    BY <1>2 DEF text
  <2> QED
    BY <1>1, <1>2, <1>11, <2>1, LiesJoined
<1>13. /\ LiesAt(d, n, a \o b \o c) /\ LiesAt(d, n + Len(a \o b \o c), s)
       /\ Len(a \o b \o c \o s) = Len(a \o b \o c) + Len(s)
  BY <1>1, <1>10, <1>12, LiesJoined
<1>14. /\ LiesAt(d, n, a \o b) /\ LiesAt(d, n + Len(a \o b), c)
       /\ Len(a \o b \o c) = Len(a \o b) + Len(c)
  BY <1>1, <1>9, <1>13, LiesJoined
<1>15. /\ LiesAt(d, n, a) /\ LiesAt(d, n + Len(a), b)
       /\ Len(a \o b) = Len(a) + Len(b)
  BY <1>1, <1>14, LiesJoined
<1> DEFINE p == n + 1 + la
           q == p + Len(c)
<1>16. /\ n + Len(a \o b) = p /\ n + Len(a \o b \o c) = q
       /\ n + Len(a \o b \o c \o s) = q + Len(s) /\ n + Len(text) = q + Len(s) + 1
  BY <1>1, <1>3, <1>4, <1>7, <1>8, <1>12, <1>13, <1>14, <1>15
<1> HIDE DEF p, q
<1>17. d[n+1] = x
  BY <1>4, <1>15 DEF LiesAt
<1>18. ASSUME NEW j \in 1..la
       PROVE  d[n+1+j] = B!Event("attr", g[k].attrs[j][1], g[k].attrs[j][2])
  <2>1. LiesAt(d, n + 1, b) /\ j \in 1..Len(b)
    BY <1>1, <1>4, <1>15
  <2> QED
    BY <1>5, <2>1 DEF LiesAt
<1>19. ASSUME g[k].value # NULL PROVE d[p+1] = B!Event("text", g[k].value, NULL)
  <2>1. LiesAt(d, p, c) /\ 1 \in 1..Len(c)
    BY <1>6, <1>14, <1>16, <1>19
  <2> QED
    BY <1>6, <1>19, <2>1 DEF LiesAt
<1>20. LiesAt(d, q, s)
  BY <1>13, <1>16
<1>21. d[q + Len(s) + 1] = y
  <2>1. LiesAt(d, q + Len(s), e)
    BY <1>12, <1>16
  <2> QED
    BY <1>4, <2>1 DEF LiesAt
<1> QED
  BY <1>3, <1>7, <1>8, <1>16, <1>17, <1>18, <1>19, <1>20, <1>21
  DEF TextPlaces, p, q, la, c, s, x, y, text

\* p is the element that was opened last, or none is open.
Topped(el, p) == IF p = 0 THEN Len(el) = 0 ELSE Len(el) # 0 /\ el[Len(el)] = p

\* The events of a node up to its value make it.
LEMMA NodeDrawn ==
  ASSUME NEW g, NEW par, Family(g, par), NEW m \in Nat, m + 1 \in 1..Len(g),
         g[m+1].name # Comment, NEW d, NEW n \in Nat, NEW el, Topped(el, par[m+1]),
         Drawing(d, n, el, Cut(g, par, m)),
         d[n+1] = B!Event("open", g[m+1].name, NULL),
         \A j \in 1..Len(g[m+1].attrs) :
           d[n+1+j] = B!Event("attr", g[m+1].attrs[j][1], g[m+1].attrs[j][2]),
         g[m+1].value # NULL =>
           d[n + 1 + Len(g[m+1].attrs) + 1] = B!Event("text", g[m+1].value, NULL)
  PROVE  Drawing(d, n + 1 + Len(g[m+1].attrs) + Len(ValueText(g[m+1])), Append(el, m + 1),
                 Cut(g, par, m + 1))
<1> DEFINE k == m + 1
           at == g[k].attrs
           l == Len(g)
           el2 == Append(el, k)
           f == Cut(g, par, m)
           H(a, v) == Half(g, par, k, a, v)
           first(i) == [j \in 1..i |-> at[j]]
<1>1. Parents(par, l) /\ l \in Nat
  BY DEF Family, Parents
<1>2. Len(at) \in Nat /\ DOMAIN at = 1..Len(at)
      /\ at = [j \in 1..Len(at) |-> <<at[j][1], at[j][2]>>]
  <2>1. Formed(g[k])
    BY DEF Family
  <2>2. Len(at) \in Nat /\ at = [i \in 1..Len(at) |-> <<at[i][1], at[i][2]>>]
    BY <2>1 DEF Formed
  <2> HIDE DEF at
  <2> QED
    BY <2>2
<1>3. el \in Seq(Nat)
  BY DEF Drawing
<1>4. el2 \in Seq(Nat) /\ Len(el2) # 0 /\ el2[Len(el2)] = k
  <2> HIDE DEF k
  <2>1. k \in Nat
    BY DEF k
  <2> QED
    BY <1>3, <2>1
<1>5. Drawing(d, n + 1, el2, H(<< >>, NULL))
  <2> DEFINE node == B!domnode(d[n+1].s, NULL)
             made == Append(f, node)
             h == IF Len(el) = 0 THEN made ELSE B!AppendChild(made, el[Len(el)], Len(f) + 1)
  <2>1. d[n+1].op = "open" /\ d[n+1].s = g[k].name
    BY DEF B!Event
  <2>2. Len(f) = m
    <3>1. f = [x \in 1..m |-> f[x]]
      BY DEF Cut
    <3> HIDE DEF f
    <3> QED
      BY <3>1
  <2>3. Drawing(d, n + 1, Append(el, Len(f) + 1), h)
    <3> HIDE DEF h, f
    <3>1. made = Append(f, B!domnode(d[n+1].s, NULL))
      OBVIOUS
    <3> HIDE DEF made
    <3> QED
      BY <2>1, <3>1, DrawOpen DEF f, h
  <2>4. h = H(<< >>, NULL)
    <3> DEFINE w == Append(Cut(g, par, m), B!domnode(g[m+1].name, NULL))
    <3>1. (IF par[m+1] = 0 THEN w ELSE B!AppendChild(w, par[m+1], m + 1)) = H(<< >>, NULL)
      BY <1>1, HalfOpen
    <3>2. made = w
      BY <2>1
    <3> HIDE DEF w, made
    <3> QED
      BY <2>2, <3>1, <3>2 DEF Topped
  <2> QED
    BY <2>2, <2>3, <2>4
<1> DEFINE Q == {i \in Nat : i <= Len(at) => Drawing(d, n + 1 + i, el2, H(first(i), NULL))}
<1>6. 0 \in Q
  <2>1. first(0) = << >> /\ n + 1 + 0 = n + 1
    OBVIOUS
  <2> HIDE DEF first, H
  <2> QED
    BY <1>5, <2>1
<1>7. ASSUME NEW i \in Nat, i \in Q PROVE i + 1 \in Q
  <2> SUFFICES ASSUME i + 1 <= Len(at)
               PROVE  Drawing(d, n + 1 + (i + 1), el2, H(first(i + 1), NULL))
    OBVIOUS
  <2>1. i + 1 \in 1..Len(at) /\ i <= Len(at) /\ n + 1 + i \in Nat /\ n + 1 + i + 1 = n + 1 + (i + 1)
    BY <1>2
  <2>2. Drawing(d, n + 1 + i, el2, H(first(i), NULL))
    BY <1>7, <2>1
  <2>3. d[n + 1 + i + 1] = B!Event("attr", at[i+1][1], at[i+1][2])
    BY <2>1
  <2>4. /\ d[n + 1 + i + 1].op = "attr"
        /\ <<d[n + 1 + i + 1].s, d[n + 1 + i + 1].v>> = at[i+1]
    <3>1. at[i+1] = <<at[i+1][1], at[i+1][2]>>
      <4> HIDE DEF at
      <4> QED
        BY <1>2, <2>1
    <3> QED
      BY <2>3, <3>1 DEF B!Event
  <2> DEFINE h == H(first(i), NULL)
             z == n + 1 + i
             y == <<d[z+1].s, d[z+1].v>>
  <2>5. Drawing(d, z + 1, el2, [h EXCEPT ![el2[Len(el2)]].attrs = Append(@, y)])
    <3> HIDE DEF h, z, el2
    <3>1. d[z+1].op = "attr" /\ z \in Nat
      BY <2>1, <2>4 DEF z
    <3>2. Drawing(d, z, el2, h)
      BY <2>2 DEF h, z
    <3> QED
      BY <1>4, <3>1, <3>2, DrawAttr
  <2>6. [h EXCEPT ![k].attrs = Append(@, y)] = H(Append(first(i), y), NULL)
    <3>1. k \in Nat /\ k # 0
      OBVIOUS
    <3> DEFINE u == first(i)
    <3> HIDE DEF u, k, y
    <3>2. AttrAdded(Half(g, par, k, u, NULL), k, y) = Half(g, par, k, Append(u, y), NULL)
      BY <3>1, HalfAttr
    <3> QED
      BY <3>2 DEF AttrAdded, u
  <2>7. Append(first(i), y) = first(i + 1)
    <3>1. y = at[i+1]
      BY <2>4
    <3>2. first(i) = [j \in 1..i |-> first(i)[j]]
      OBVIOUS
    <3> DEFINE u == first(i)
    <3>3. \A j \in 1..i : u[j] = at[j]
      OBVIOUS
    <3>4. u = [j \in 1..i |-> u[j]]
      OBVIOUS
    <3> HIDE DEF u, y, at
    <3>5. Append(u, y) = [j \in 1..i+1 |-> IF j = i + 1 THEN y ELSE u[j]]
      BY <3>4, AppendIs
    <3>6. Append(u, y) = [j \in 1..i+1 |-> at[j]]
      <4>1. \A j \in 1..i+1 : j \in 1..i \/ j = i + 1
        OBVIOUS
      <4> QED
        BY <3>1, <3>3, <3>5, <4>1
    <3> QED
      BY <3>6 DEF u
  <2> HIDE DEF first, h, H, y
  <2>8. Drawing(d, z + 1, el2, H(first(i + 1), NULL))
    BY <1>4, <2>5, <2>6, <2>7
  <2> QED
    BY <2>1, <2>8
<1>8. Q \in SUBSET Nat
  OBVIOUS
<1>9. Len(at) \in Q
  <2> HIDE DEF Q, at
  <2>1. Q = Nat
    BY <1>6, <1>7, <1>8, Induction
  <2> QED
    BY <1>2, <2>1
<1>10. first(Len(at)) = at
  <2> HIDE DEF at
  <2> QED
    BY <1>2
<1>11. Drawing(d, n + 1 + Len(at), el2, H(at, NULL))
  <2> HIDE DEF first, H, at
  <2> QED
    BY <1>2, <1>9, <1>10
<1> DEFINE p == n + 1 + Len(at)
<1>12. p \in Nat
  BY <1>2
<1>13. CASE g[k].value = NULL
  <2>1. Len(ValueText(g[k])) = 0 /\ p + 0 = p
    BY <1>12, <1>13 DEF ValueText
  <2>2. H(at, NULL) = Cut(g, par, k)
    BY <1>13, HalfWhole
  <2> HIDE DEF p, H
  <2>3. Drawing(d, p + Len(ValueText(g[k])), el2, Cut(g, par, k))
    BY <1>11, <2>1, <2>2 DEF p
  <2> QED
    BY <2>3 DEF p
<1>14. CASE g[k].value # NULL
  <2>1. Len(ValueText(g[k])) = 1
    BY <1>14 DEF ValueText
  <2>2. d[p+1].op = "text" /\ d[p+1].s = g[k].value
    <3>1. d[p+1] = B!Event("text", g[k].value, NULL)
      BY <1>14
    <3> QED
      BY <3>1 DEF B!Event
  <2> DEFINE h == H(at, NULL)
  <2>3. Drawing(d, p + 1, el2, [h EXCEPT ![el2[Len(el2)]].value = d[p+1].s])
    <3> HIDE DEF h, p, el2
    <3>1. Drawing(d, p, el2, h)
      BY <1>11 DEF h, p
    <3> QED
      BY <1>4, <1>12, <2>2, <3>1, DrawText
  <2>4. [h EXCEPT ![k].value = g[k].value] = H(at, g[k].value)
    <3>1. k \in Nat /\ k # 0
      OBVIOUS
    <3> DEFINE w == g[k].value
    <3> HIDE DEF k, at, w
    <3>2. ValueGiven(Half(g, par, k, at, NULL), k, w) = Half(g, par, k, at, w)
      BY <3>1, HalfText
    <3> QED
      BY <3>2 DEF ValueGiven, w
  <2>5. H(at, g[k].value) = Cut(g, par, k)
    BY HalfWhole
  <2> HIDE DEF h, H, p
  <2>6. Drawing(d, p + 1, el2, Cut(g, par, k))
    BY <1>4, <2>2, <2>3, <2>4, <2>5
  <2> QED
    BY <2>1, <2>6 DEF p
<1> QED
  BY <1>13, <1>14

-----------------------------------------------------------------------------
(* What is written is read as it was.                                       *)

\* Node k of the family is drawn from its text, with all that is below it.
Drafts(d, g, par, F, k) ==
  \A n, el :
    /\ Topped(el, par[k]) /\ Drawing(d, n, el, Cut(g, par, k - 1))
    /\ LiesAt(d, n, NodeText(g, F, g[k]))
    => \E e : /\ Ends(par, Len(g), k, e)
              /\ Drawing(d, n + Len(NodeText(g, F, g[k])), el, Cut(g, par, e))

\* A comment is drawn,
LEMMA CommentDrafts ==
  ASSUME NEW g, NEW par, Family(g, par), NEW F, NEW k \in 1..Len(g), g[k].name = Comment, NEW d
  PROVE  Drafts(d, g, par, F, k)
<1> DEFINE l == Len(g)
           text == NodeText(g, F, g[k])
<1> SUFFICES ASSUME NEW n, NEW el, Topped(el, par[k]), Drawing(d, n, el, Cut(g, par, k - 1)),
                    LiesAt(d, n, text)
             PROVE  \E e : Ends(par, l, k, e) /\ Drawing(d, n + Len(text), el, Cut(g, par, e))
  BY DEF Drafts
<1>1. /\ Parents(par, l) /\ l \in Nat /\ par[k] \in Nat /\ par[k] # 0
      /\ Rising(g[k].children, {c \in 1..l : par[c] = k}) /\ Formed(g[k])
  BY DEF Family, Parents
<1>2. /\ g[k] = B!domnode(Comment, g[k].value) /\ g[k].children = << >> /\ g[k].attrs = << >>
  <2>1. g[k] = B!domnode(Comment, g[k].value)
    BY <1>1 DEF Formed
  <2> QED
    BY <2>1 DEF B!domnode
<1> DEFINE m == k - 1
           x == B!Event("comment", g[k].value, NULL)
           f == Cut(g, par, m)
<1>3. m \in Nat /\ m + 1 = k /\ m + 1 \in 1..l
  BY <1>1
<1>4. text = <<x>> /\ Len(text) = 1 /\ text[1] = x /\ 1 \in 1..Len(text)
  <2>1. text = <<x>>
    BY DEF NodeText
  <2> HIDE DEF text, x
  <2> QED
    BY <2>1
<1>5. n \in Nat /\ d[n+1] = x
  BY <1>4 DEF LiesAt
<1>6. d[n+1].op = "comment" /\ d[n+1].s = g[k].value
  BY <1>5 DEF B!Event
<1>7. Len(el) # 0 /\ el[Len(el)] = par[k]
  BY <1>1 DEF Topped
<1>8. Len(f) = m
  <2>1. f = [i \in 1..m |-> f[i]]
    BY DEF Cut
  <2> HIDE DEF f, m
  <2> QED
    BY <1>3, <2>1
<1> DEFINE h == B!AppendChild(Append(f, B!domnode(Comment, d[n+1].s)), el[Len(el)], Len(f) + 1)
<1>9. Drawing(d, n + 1, el, h)
  <2> HIDE DEF f
  <2> QED
    BY <1>5, <1>6, <1>7, DrawComment DEF f
<1>10. h = Cut(g, par, k)
  <2> DEFINE w == Append(f, B!domnode(g[m+1].name, g[k].value))
  <2>1. (IF par[m+1] = 0 THEN w ELSE B!AppendChild(w, par[m+1], m + 1))
        = Half(g, par, m + 1, << >>, g[k].value)
    <3> DEFINE v == g[k].value
    <3> HIDE DEF m, v
    <3> QED
      BY <1>1, <1>3, HalfOpen
  <2>2. B!AppendChild(w, par[k], k) = Half(g, par, k, << >>, g[k].value)
    BY <1>1, <1>3, <2>1
  <2>3. h = B!AppendChild(w, par[k], k)
    BY <1>3, <1>6, <1>7, <1>8
  <2>4. Half(g, par, k, g[k].attrs, g[k].value) = Cut(g, par, k)
    BY HalfWhole
  <2> HIDE DEF h, w
  <2> QED
    BY <1>2, <2>2, <2>3, <2>4
<1>11. Ends(par, l, k, k)
  <2> DEFINE ch == g[k].children
  <2>1. Part(par, l, k, ch, 0, k)
    BY <1>1, PartNone
  <2>2. Len(ch) = 0
    BY <1>2
  <2> HIDE DEF ch
  <2>3. Part(par, l, k, ch, Len(ch), k) /\ Rising(ch, {c \in 1..l : par[c] = k})
    BY <1>1, <2>1, <2>2 DEF ch
  <2> QED
    BY <1>1, <2>3, PartAll
<1> HIDE DEF h, text
<1>12. Drawing(d, n + Len(text), el, Cut(g, par, k))
  BY <1>4, <1>9, <1>10
<1> QED
  BY <1>11, <1>12

\* and an element, if all below it are.
LEMMA ElementDrafts ==
  ASSUME NEW g, NEW par, Family(g, par), NEW E, Covers(E, g, Len(g)),
         NEW F, F \in [0..Len(g) -> Seq(E)],
         \A c \in 1..Len(g) : F[Len(g) - c] = NodeText(g, F, g[c]),
         NEW k \in 1..Len(g), g[k].name # Comment, NEW d,
         \A c \in k+1..Len(g) : Drafts(d, g, par, F, c)
  PROVE  Drafts(d, g, par, F, k)
<1>a. ChildrenFollow(g, par, k)
  BY FamilyChildren
<1> DEFINE l == Len(g)
           text == NodeText(g, F, g[k])
<1> SUFFICES ASSUME NEW n, NEW el, Topped(el, par[k]), Drawing(d, n, el, Cut(g, par, k - 1)),
                    LiesAt(d, n, text)
             PROVE  \E e : Ends(par, l, k, e) /\ Drawing(d, n + Len(text), el, Cut(g, par, e))
  BY DEF Drafts
<1> DEFINE node == g[k]
           ch == node.children
           r == Len(ch)
           p == n + 1 + Len(node.attrs)
           q == p + Len(ValueText(node))
           s == SonsText(g, F, node)
           z == q + Len(B!FlattenSeq(s))
           el2 == Append(el, k)
<1>1. /\ Parents(par, l) /\ l \in Nat /\ Rising(ch, {c \in 1..l : par[c] = k}) /\ k \in 1..l
      /\ ch \in Seq(Nat) /\ r \in Nat /\ DOMAIN ch = 1..r
      /\ \A j \in 1..r : ch[j] \in k+1..l /\ par[ch[j]] = k
  <2>1. Parents(par, l) /\ Rising(ch, {c \in 1..l : par[c] = k})
    BY DEF Family
  <2>2. r \in Nat
    BY <2>1 DEF Rising
  <2> QED
    BY <1>a, <2>1, <2>2 DEF ChildrenFollow
<1>2. /\ n \in Nat /\ Len(node.attrs) \in Nat /\ Len(ValueText(node)) \in Nat
      /\ Len(B!FlattenSeq(s)) \in Nat
      /\ d[n+1] = B!Event("open", node.name, NULL)
      /\ \A j \in 1..Len(node.attrs) :
           d[n+1+j] = B!Event("attr", node.attrs[j][1], node.attrs[j][2])
      /\ node.value # NULL => d[p+1] = B!Event("text", node.value, NULL)
      /\ LiesAt(d, q, B!FlattenSeq(s))
      /\ d[z+1] = B!Event("close", node.name, NULL)
      /\ n + Len(text) = z + 1
  <2>1. TextPlaces(g, F, k, d, n)
    BY TextLies
  <2> QED
    BY <2>1 DEF TextPlaces
<1>3. q \in Nat /\ z \in Nat
  <2>1. n \in Nat /\ Len(node.attrs) \in Nat /\ Len(ValueText(node)) \in Nat
        /\ Len(B!FlattenSeq(s)) \in Nat
    BY <1>2
  <2> DEFINE x == Len(node.attrs)
             y == Len(ValueText(node))
             w == Len(B!FlattenSeq(s))
  <2>2. x \in Nat /\ y \in Nat /\ w \in Nat /\ n \in Nat
    BY <2>1
  <2>3. q = n + 1 + x + y /\ z = n + 1 + x + y + w
    OBVIOUS
  <2> HIDE DEF x, y, w, q, z
  <2> QED
    BY <2>2, <2>3
<1>4. Drawing(d, q, el2, Cut(g, par, k))
  <2> DEFINE m == k - 1
  <2>1. m \in Nat /\ m + 1 = k
    BY <1>1
  <2>2. /\ m \in Nat /\ m + 1 \in 1..Len(g) /\ g[m+1].name # Comment /\ Topped(el, par[m+1])
        /\ Drawing(d, n, el, Cut(g, par, m)) /\ d[n+1] = B!Event("open", g[m+1].name, NULL)
        /\ \A j \in 1..Len(g[m+1].attrs) :
             d[n+1+j] = B!Event("attr", g[m+1].attrs[j][1], g[m+1].attrs[j][2])
        /\ g[m+1].value # NULL =>
             d[n + 1 + Len(g[m+1].attrs) + 1] = B!Event("text", g[m+1].value, NULL)
    BY <1>2, <2>1
  <2> HIDE DEF m
  <2>3. Drawing(d, n + 1 + Len(g[m+1].attrs) + Len(ValueText(g[m+1])), Append(el, m + 1),
                Cut(g, par, m + 1))
    BY <1>2, <2>2, NodeDrawn
  <2> QED
    BY <2>1, <2>3
<1>5. s \in Seq(Seq(E)) /\ Len(s) = r /\ \A j \in 1..r : s[j] = NodeText(g, F, g[ch[j]])
  <2>1. s \in Seq(Seq(E)) /\ Len(s) = r
    BY TextParts
  <2>2. ASSUME NEW j \in 1..r PROVE s[j] = NodeText(g, F, g[ch[j]])
    <3>1. s[j] = F[l - ch[j]]
      BY <1>1 DEF SonsText
    <3>2. ch[j] \in 1..l
      BY <1>1
    <3> QED
      BY <3>1, <3>2
  <2> QED
    BY <2>1, <2>2
<1>6. PICK o : /\ o \in [0..r -> Nat] /\ o[0] = q /\ o[r] = z
               /\ \A i \in 1..r : o[i] = o[i-1] + Len(s[i]) /\ LiesAt(d, o[i-1], s[i])
  <2> HIDE DEF s, q, r
  <2>1. \E o : /\ o \in [0..Len(s) -> Nat] /\ o[0] = q
               /\ o[Len(s)] = q + Len(B!FlattenSeq(s))
               /\ \A i \in 1..Len(s) : o[i] = o[i-1] + Len(s[i]) /\ LiesAt(d, o[i-1], s[i])
    BY <1>2, <1>5, LiesFlattened
  <2> QED
    BY <1>5, <2>1
<1> HIDE DEF s, q, z
<1>7. /\ el \in Seq(Nat) /\ el2 \in Seq(Nat) /\ Len(el2) # 0 /\ el2[Len(el2)] = k
      /\ Len(el2) > 0 /\ SubSeq(el2, 1, Len(el2) - 1) = el
  <2>1. el \in Seq(Nat) /\ k \in Nat
    BY <1>1 DEF Drawing
  <2> QED
    BY <2>1
<1>8. k # 0
  BY <1>1
<1> DEFINE Q == {j \in Nat : j <= r => \E e : /\ Part(par, l, k, ch, j, e)
                                              /\ Drawing(d, o[j], el2, Cut(g, par, e))}
<1>9. 0 \in Q
  <2> HIDE DEF ch
  <2>1. Part(par, l, k, ch, 0, k)
    BY <1>1, PartNone
  <2> QED
    BY <1>4, <1>6, <2>1
<1>10. ASSUME NEW j \in Nat, j \in Q PROVE j + 1 \in Q
  <2> SUFFICES ASSUME j + 1 <= r
               PROVE  \E e : Part(par, l, k, ch, j + 1, e) /\ Drawing(d, o[j+1], el2, Cut(g, par, e))
    OBVIOUS
  <2>1. j + 1 \in 1..r /\ j < r /\ j <= r /\ (j + 1) - 1 = j
    BY <1>1
  <2>2. PICK e : Part(par, l, k, ch, j, e) /\ Drawing(d, o[j], el2, Cut(g, par, e))
    BY <1>10, <2>1
  <2> DEFINE c == e + 1
  <2>3. ch[j+1] = c /\ c \in 1..l /\ par[c] = k /\ e \in Nat /\ c - 1 = e
    <3> HIDE DEF ch, l
    <3>1. ch[j+1] = e + 1 /\ e + 1 \in 1..l /\ par[e+1] = k /\ e \in Nat
      BY <1>1, <2>1, <2>2, PartNext
    <3> QED
      BY <3>1
  <2>4. c \in k+1..l
    BY <1>1, <2>1, <2>3
  <2> HIDE DEF c
  <2>5. LiesAt(d, o[j], NodeText(g, F, g[c])) /\ o[j+1] = o[j] + Len(NodeText(g, F, g[c]))
    <3> DEFINE i == j + 1
    <3>1. i \in 1..r /\ i - 1 = j /\ ch[i] = c
      BY <2>1, <2>3
    <3> HIDE DEF i, ch, r
    <3>2. o[i] = o[j] + Len(s[i]) /\ LiesAt(d, o[j], s[i]) /\ s[i] = NodeText(g, F, g[c])
      BY <1>5, <1>6, <3>1
    <3> QED
      BY <3>2 DEF i
  <2>6. Topped(el2, par[c])
    BY <1>7, <1>8, <2>3 DEF Topped
  <2>7. Drawing(d, o[j], el2, Cut(g, par, c - 1))
    BY <2>2, <2>3
  <2>8. PICK x : /\ Ends(par, l, c, x)
                 /\ Drawing(d, o[j] + Len(NodeText(g, F, g[c])), el2, Cut(g, par, x))
    <3>1. Drafts(d, g, par, F, c)
      BY <2>4
    <3> HIDE DEF el2
    <3> QED
      BY <2>5, <2>6, <2>7, <3>1 DEF Drafts
  <2>9. Part(par, l, k, ch, j + 1, x)
    <3>1. Ends(par, l, e + 1, x)
      BY <2>8 DEF c
    <3> HIDE DEF ch, l
    <3> QED
      BY <1>1, <2>1, <2>2, <3>1, PartMore
  <2>10. Drawing(d, o[j+1], el2, Cut(g, par, x))
    BY <2>5, <2>8
  <2> QED
    BY <2>9, <2>10
<1>11. Q \in SUBSET Nat
  OBVIOUS
<1>12. r \in Q
  <2> HIDE DEF Q, r
  <2>1. Q = Nat
    BY <1>9, <1>10, <1>11, Induction
  <2> QED
    BY <1>1, <2>1
<1>13. PICK e : Part(par, l, k, ch, r, e) /\ Drawing(d, o[r], el2, Cut(g, par, e))
  BY <1>1, <1>12
<1>14. Ends(par, l, k, e)
  <2> HIDE DEF ch, l
  <2> QED
    BY <1>1, <1>13, PartAll DEF r
<1>15. Drawing(d, z + 1, el, Cut(g, par, e))
  <2>1. d[z+1].op = "close"
    BY <1>2 DEF B!Event
  <2>2. Drawing(d, z, el2, Cut(g, par, e))
    BY <1>6, <1>13
  <2> DEFINE f == Cut(g, par, e)
  <2> HIDE DEF f, el2
  <2>3. Drawing(d, z + 1, SubSeq(el2, 1, Len(el2) - 1), f)
    BY <1>3, <1>7, <2>1, <2>2, DrawClose DEF f
  <2> QED
    BY <1>7, <2>3 DEF f
<1> QED
  BY <1>2, <1>14, <1>15

\* The text of a family is a document whose tree is the family.
LEMMA DocumentIsFamily ==
  ASSUME NEW g, NEW par, Family(g, par), Len(g) # 0
  PROVE  B!ForestOf(B!DocumentOf(g, 1)) = g
<1> DEFINE l == Len(g)
<1>1. PICK E : Covers(E, g, l)
  BY CoversExist
<1>2. PICK F : /\ F \in [0..l -> Seq(E)] /\ B!DocumentOf(g, 1) = F[l - 1]
               /\ \A k \in 1..l : F[l - k] = NodeText(g, F, g[k])
  BY <1>1, WrittenIs
<1>3. l \in Nat /\ 1 \in 1..l /\ Parents(par, l) /\ par[1] = 0
  <2>1. Parents(par, l)
    BY DEF Family
  <2>2. l \in Nat /\ 1 \in 1..l
    BY <2>1 DEF Parents
  <2>3. par[1] \in Nat /\ par[1] < 1
    BY <2>1, <2>2 DEF Parents
  <2> QED
    BY <2>1, <2>2, <2>3
<1> DEFINE d == B!DocumentOf(g, 1)
<1>4. d = NodeText(g, F, g[1]) /\ d \in Seq(E)
  <2>1. l - 1 \in 0..l
    BY <1>3
  <2> QED
    BY <1>2, <1>3, <2>1
<1> DEFINE Q == {m \in Nat : \A k \in 1..l : k > l - m => Drafts(d, g, par, F, k)}
<1>5. 0 \in Q
  BY <1>3
<1>6. ASSUME NEW m \in Nat, m \in Q PROVE m + 1 \in Q
  <2> SUFFICES ASSUME NEW k \in 1..l, k > l - (m + 1) PROVE Drafts(d, g, par, F, k)
    OBVIOUS
  <2>1. \A c \in k+1..l : Drafts(d, g, par, F, c)
    <3> SUFFICES ASSUME NEW c \in k+1..l PROVE Drafts(d, g, par, F, c)
      OBVIOUS
    <3>1. c \in 1..l /\ c > l - m
      BY <1>3
    <3> QED
      BY <1>6, <3>1
  <2> HIDE DEF d
  <2>2. CASE g[k].name = Comment
    BY <2>2, CommentDrafts
  <2>3. CASE g[k].name # Comment
    BY <1>1, <1>2, <2>1, <2>3, ElementDrafts
  <2> QED
    BY <2>2, <2>3
<1>7. Q \in SUBSET Nat
  OBVIOUS
<1>8. Drafts(d, g, par, F, 1)
  <2>1. l \in Q
    <3> HIDE DEF Q
    <3>1. Q = Nat
      BY <1>5, <1>6, <1>7, Induction
    <3> QED
      BY <1>3, <3>1
  <2>2. 1 > l - l
    BY <1>3
  <2> HIDE DEF d
  <2> QED
    BY <1>3, <2>1, <2>2
<1>9. Drawing(d, 0, << >>, Cut(g, par, 1 - 1))
  <2>1. Cut(g, par, 1 - 1) = << >>
    <3>1. 1..(1 - 1) = {}
      OBVIOUS
    <3> QED
      BY <3>1 DEF Cut
  <2> HIDE DEF d
  <2> QED
    BY <2>1, DrawStart
<1>10. Topped(<< >>, par[1])
  BY <1>3 DEF Topped
<1>11. LiesAt(d, 0, d) /\ Len(d) \in Nat
  <2> HIDE DEF d
  <2>1. Len(d) \in Nat
    BY <1>4
  <2>2. \A i \in 1..Len(d) : 0 + i = i
    BY <2>1
  <2> QED
    BY <2>1, <2>2 DEF LiesAt
<1> HIDE DEF d, Q
<1>12. PICK e : Ends(par, l, 1, e) /\ Drawing(d, 0 + Len(d), << >>, Cut(g, par, e))
  <2>1. LiesAt(d, 0, NodeText(g, F, g[1]))
    BY <1>4, <1>11
  <2>2. \E e : Ends(par, Len(g), 1, e)
               /\ Drawing(d, 0 + Len(NodeText(g, F, g[1])), << >>, Cut(g, par, e))
    BY <1>8, <1>9, <1>10, <2>1 DEF Drafts
  <2> QED
    BY <1>4, <2>2
<1>13. e = l
  BY <1>3, <1>12, EndsRoot
<1>14. Drawing(d, Len(d), << >>, g)
  <2>1. 0 + Len(d) = Len(d)
    BY <1>11
  <2>2. Cut(g, par, l) = g
    BY CutWhole
  <2> QED
    BY <1>12, <1>13, <2>1, <2>2
<1>15. PICK at : Grown(d, Len(d), g, at)
  BY <1>14 DEF Drawing
<1>16. g = B!ForestOf(d)
  BY <1>4, <1>15, GrownIs
<1> QED
  BY <1>16 DEF d

\* With blanks around its values it is the same family.
LEMMA SpacedFamily ==
  ASSUME NEW g, NEW par, Family(g, par)
  PROVE  Family(B!Spaced(g), par) /\ Len(B!Spaced(g)) = Len(g)
<1> DEFINE l == Len(g)
           w(k) == IF g[k].name = Comment THEN <<" ", g[k].value, " ">>
                   ELSE IF g[k].value = NULL THEN NULL ELSE <<"\n", g[k].value, "\n">>
           node(k) == [g[k] EXCEPT !.value = w(k)]
           h == B!Spaced(g)
<1>1. l \in Nat /\ DOMAIN g = 1..l
  <2>1. l \in Nat /\ g = [k \in 1..l |-> g[k]]
    BY DEF Family, Parents
  <2> QED
    BY <2>1
<1>2. h = [k \in 1..l |-> node(k)]
  BY <1>1 DEF B!Spaced
<1> HIDE DEF l, h
<1>3. ASSUME NEW k \in 1..l
      PROVE  /\ node(k).name = g[k].name /\ node(k).children = g[k].children
             /\ node(k).attrs = g[k].attrs /\ Formed(node(k))
  <2> DEFINE v == w(k)
             x == g[k]
  <2>1. Formed(x)
    BY DEF Family, l
  <2> HIDE DEF v, x
  <2>2. x = [name |-> x.name, value |-> x.value, children |-> x.children, attrs |-> x.attrs]
    BY <2>1 DEF Formed, B!domnode
  <2> DEFINE y == [x EXCEPT !.value = v]
  <2>3. y = [name |-> x.name, value |-> v, children |-> x.children, attrs |-> x.attrs]
    BY <2>2
  <2>4. y.name = x.name /\ y.value = v /\ y.children = x.children /\ y.attrs = x.attrs
    BY <2>3
  <2>5. Formed(y)
    <3>1. CASE x.name = Comment
      <4>1. x.children = << >> /\ x.attrs = << >>
        BY <2>1, <3>1 DEF Formed, B!domnode
      <4>2. y = B!domnode(Comment, y.value)
        BY <2>3, <2>4, <3>1, <4>1 DEF B!domnode
      <4> HIDE DEF y
      <4> QED
        BY <2>4, <3>1, <4>2 DEF Formed
    <3>2. CASE x.name # Comment
      <4>1. Len(x.attrs) \in Nat
            /\ x.attrs = [i \in 1..Len(x.attrs) |-> <<x.attrs[i][1], x.attrs[i][2]>>]
        BY <2>1, <3>2 DEF Formed
      <4>2. y = [name |-> y.name, value |-> y.value, children |-> y.children, attrs |-> y.attrs]
        BY <2>3, <2>4
      <4> HIDE DEF y
      <4>3. Len(y.attrs) \in Nat
            /\ y.attrs = [i \in 1..Len(y.attrs) |-> <<y.attrs[i][1], y.attrs[i][2]>>]
        BY <2>4, <4>1
      <4> QED
        BY <2>4, <3>2, <4>2, <4>3 DEF Formed
    <3> QED
      BY <3>1, <3>2
  <2>6. node(k) = y
    BY DEF v, x
  <2> HIDE DEF y, node
  <2> QED
    BY <2>4, <2>5, <2>6 DEF x
<1> HIDE DEF node
<1>4. Len(h) = l /\ \A k \in 1..l : h[k] = node(k)
  BY <1>1, <1>2
<1>5. h = [k \in 1..l |-> h[k]]
  BY <1>2, <1>4
<1>6. \A k \in 1..l : /\ Rising(h[k].children, {c \in 1..l : par[c] = k}) /\ Formed(h[k])
                      /\ par[k] = 0 => h[k].name # Comment
  BY <1>3, <1>4 DEF Family, l
<1>7. Parents(par, l)
  BY DEF Family, l
<1>8. Family(h, par)
  BY <1>4, <1>5, <1>6, <1>7 DEF Family
<1> QED
  BY <1>4, <1>8 DEF h, l

-----------------------------------------------------------------------------
\* The tree that the parser built is the tree of the document; what is
\* printed of it is a document of the same tree, but for the blanks that the
\* formats of xml_fwrite put around comments and texts; and a search from
\* the root finds a name if a node below or an attribute has it.
THEOREM ParserTreeIsDocument == Spec => []TreeIsDocument
<1>1. TreeInv /\ RootedInv => TreeIsDocument
  <2> SUFFICES ASSUME TreeInv, RootedInv, yyresult = 0 PROVE B!TreeIsDocument
    BY DEF TreeIsDocument, B!TreeIsDocument
  <2>1. yyforest = B!ForestOf(B!Doc) /\ yyforest # << >> /\ yyroot = 1
    BY DEF TreeInv
  <2>2. PICK par : Family(yyforest, par)
    BY AcceptedFamily
  <2>3. Len(yyforest) # 0
    <3>1. yyforest = [k \in 1..Len(yyforest) |-> yyforest[k]]
      BY <2>2 DEF Family
    <3> QED
      BY <2>1, <3>1
  <2>4. B!ForestOf(B!xml_fwrite(yyforest, yyroot)) = B!Spaced(yyforest)
    <3>1. Family(B!Spaced(yyforest), par) /\ Len(B!Spaced(yyforest)) # 0
      BY <2>2, <2>3, SpacedFamily
    <3> QED
      BY <2>1, <3>1, DocumentIsFamily DEF B!xml_fwrite
  <2>5. \A name \in Names :
          B!Search(yyforest, yyroot, name) # << >> <=>
            \E k \in DOMAIN yyforest :
              \/ k # yyroot /\ yyforest[k].name = name
              \/ \E j \in DOMAIN yyforest[k].attrs : yyforest[k].attrs[j][1] = name
    BY <2>1, <2>2, <2>3, SearchFinds
  <2> QED
    BY <2>1, <2>4, <2>5 DEF B!TreeIsDocument
<1> QED
  BY <1>1, TreeKept, RootedKept, PTL
=============================================================================
