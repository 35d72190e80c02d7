--------------------------- MODULE DispatchProofs ---------------------------
(***************************************************************************)
(* The climbs of an event through the categories, for every tree of names, *)
(* every text of the configuration files and every edit of them.           *)
(*                                                                         *)
(* Parents always exist, so a climb never leaves the tree; each loop keeps *)
(* an invariant that says what the levels behind it have in common, and    *)
(* its last turn is the property.  Nothing but the library's own thread    *)
(* changes a category, so nothing disturbs a loop half way.                *)
(*                                                                         *)
(* That a file counts as seen only if it was loaded as it is rests on the  *)
(* clock: no ctime is later than now, and none earlier than the reading.   *)
(***************************************************************************)
EXTENDS Dispatch, TLAPS

\* The places of a logging call proper.
InCall == {"chain", "vlog", "stat", "restat", "deliver", "done"}

\* What a place says of the event and of the file in hand: an event's
\* category exists, and a file that is being read is one of the files.
PlaceInv ==
  /\ event # NoEvent => event.cat \in DOMAIN hier
  /\ pc \in InCall => event # NoEvent
  /\ pc \in {"init", "initstat", "idle"} => event = NoEvent
  /\ pc \in {"initstat", "restat", "load", "apply"} => at <= NFiles

\* The first climb has passed nothing but categories without a priority.
ClimbInv ==
  pc = "chain" =>
    \A e \in level+1..Len(event.cat) : hier[Upto(event.cat, e)].priority = NOTSET

\* The last climb has delivered to what the additive chain reaches among the
\* categories it has passed, and to nothing else.
Passed == {d \in Reached(event.cat) : d > level}

DeliveredInOrder ==
  \A j \in 1..Len(delivered) :
    /\ delivered[j][2] = hier[Upto(event.cat, delivered[j][1])].appender
    /\ j > 1 => delivered[j][1] < delivered[j-1][1]

DeliverInv ==
  /\ pc \notin {"deliver", "done"} => delivered = << >>
  /\ pc = "deliver" =>
       /\ \A e \in level+1..Len(event.cat) : hier[Upto(event.cat, e)].additive = 1
       /\ {delivered[j][1] : j \in 1..Len(delivered)} = Passed
       /\ DeliveredInOrder

\* The verdict holds from the call on: the first climb is about to find it,
\* and only an event that passed goes on, whatever is loaded meanwhile.
VerdictInv ==
  /\ pc = "chain" => verdict = Lets(event.cat, event.priority)
  /\ pc \notin {"chain", "done"} /\ event # NoEvent => verdict

IInv == /\ TypeOK /\ ParentsExist /\ PlaceInv /\ ClimbInv /\ VerdictInv
        /\ NearestPriorityDecides /\ DeliverInv /\ DeliversAdditiveChain

-----------------------------------------------------------------------------
(* A name's own prefixes: the name, and the prefixes of each of them.       *)
LEMMA ChainFacts ==
  ASSUME NEW n \in Names
  PROVE  /\ n \in Chain(n)
         /\ Root \in Chain(n)
         /\ Len(n) \in Nat
         /\ \A d \in 0..Len(n) : Upto(n, d) \in Chain(n)
         /\ \A m \in Chain(n) : m \in Names /\ Chain(m) \subseteq Chain(n)
<1>1. n \in Seq(STRING) /\ Chain(n) \subseteq Names
  BY NamesAssumption
<1>2. Len(n) \in Nat
  BY <1>1
<1>3. Upto(n, Len(n)) = n /\ Upto(n, 0) = Root
  BY <1>1 DEF Upto, Root
<1>4. ASSUME NEW d \in 0..Len(n), NEW e \in 0..d PROVE Upto(Upto(n, d), e) = Upto(n, e)
  BY <1>1 DEF Upto
<1>5. ASSUME NEW d \in 0..Len(n) PROVE Len(Upto(n, d)) = d
  BY <1>1 DEF Upto
<1>6. ASSUME NEW m \in Chain(n) PROVE Chain(m) \subseteq Chain(n)
  <2>1. PICK d \in 0..Len(n) : m = Upto(n, d)
    BY DEF Chain
  <2>2. SUFFICES ASSUME NEW e \in 0..Len(m) PROVE Upto(m, e) \in Chain(n)
    BY DEF Chain
  <2>3. e \in 0..d /\ e \in 0..Len(n)
    BY <2>1, <1>2, <1>5
  <2> QED
    BY <2>1, <2>3, <1>4 DEF Chain
<1> QED
  BY <1>1, <1>2, <1>3, <1>6 DEF Chain

(* Getting a category keeps the tree closed under parents, and well formed. *)
LEMMA CategoryGetFacts ==
  ASSUME NEW h, DOMAIN h \subseteq Names, \A n \in DOMAIN h : h[n] \in Category,
         \A n \in DOMAIN h : Chain(n) \subseteq DOMAIN h, NEW m \in Names
  PROVE  LET g == CategoryGet(h, m)
         IN  /\ DOMAIN g \subseteq Names
             /\ \A n \in DOMAIN g : g[n] \in Category
             /\ \A n \in DOMAIN g : Chain(n) \subseteq DOMAIN g
             /\ m \in DOMAIN g /\ DOMAIN h \subseteq DOMAIN g
<1> DEFINE g == CategoryGet(h, m)
<1>1. DOMAIN g = DOMAIN h \cup Chain(m)
  BY DEF CategoryGet
<1>2. \A n \in DOMAIN g : g[n] = IF n \in DOMAIN h THEN h[n] ELSE New
  BY DEF CategoryGet
<1>3. New \in Category
  BY LevelsAssumption DEF New, Category, Priorities, Outlets, NOTSET
<1>4. m \in Chain(m) /\ \A n \in Chain(m) : n \in Names /\ Chain(n) \subseteq Chain(m)
  BY ChainFacts
<1> QED
  BY <1>1, <1>2, <1>3, <1>4

LEMMA CategoryLoadFacts ==
  ASSUME NEW h, DOMAIN h \subseteq Names, \A n \in DOMAIN h : h[n] \in Category,
         \A n \in DOMAIN h : Chain(n) \subseteq DOMAIN h, NEW e \in Element
  PROVE  LET g == CategoryLoad(h, e)
         IN  /\ DOMAIN g \subseteq Names
             /\ \A n \in DOMAIN g : g[n] \in Category
             /\ \A n \in DOMAIN g : Chain(n) \subseteq DOMAIN g
             /\ DOMAIN h \subseteq DOMAIN g
<1> DEFINE c == CategoryGet(h, e.name)
           g == CategoryLoad(h, e)
<1>1. e.name \in Names
  BY DEF Element
<1>2. /\ DOMAIN c \subseteq Names /\ DOMAIN h \subseteq DOMAIN c /\ e.name \in DOMAIN c
      /\ \A n \in DOMAIN c : c[n] \in Category
      /\ \A n \in DOMAIN c : Chain(n) \subseteq DOMAIN c
  BY <1>1, CategoryGetFacts
<1> DEFINE old == c[e.name]
           new == [priority |-> Given(e.priority, old.priority),
                   additive |-> Given(e.additive, old.additive),
                   appender |-> Given(e.appender, old.appender)]
<1>3. new \in Category
  BY <1>2 DEF Element, Category, Given
<1>4. g = [c EXCEPT ![e.name] = new]
  BY DEF CategoryLoad
<1> HIDE DEF c, g, new
<1>5. DOMAIN g = DOMAIN c
  BY <1>4
<1>6. \A n \in DOMAIN c : g[n] \in Category
  BY <1>2, <1>3, <1>4, <1>5
<1> QED
  BY <1>2, <1>5, <1>6 DEF g

(* The depths delivered at, after one more delivery. *)
LEMMA AppendDepths ==
  ASSUME NEW s \in Seq(Nat \X Appenders), NEW x \in Nat \X Appenders
  PROVE  {Append(s, x)[j][1] : j \in 1..Len(Append(s, x))}
           = {s[j][1] : j \in 1..Len(s)} \cup {x[1]}
<1> DEFINE t == Append(s, x)
<1>1. Len(s) \in Nat /\ Len(t) = Len(s) + 1 /\ t[Len(t)] = x
  OBVIOUS
<1>2. \A j \in 1..Len(s) : t[j] = s[j]
  OBVIOUS
<1>3. 1..Len(t) = (1..Len(s)) \cup {Len(t)}
  BY <1>1
<1> HIDE DEF t
<1>4. {t[j][1] : j \in 1..Len(t)} = {t[j][1] : j \in 1..Len(s)} \cup {t[Len(t)][1]}
  BY <1>3
<1>5. {t[j][1] : j \in 1..Len(s)} = {s[j][1] : j \in 1..Len(s)}
  BY <1>2
<1> QED
  BY <1>1, <1>4, <1>5 DEF t

LEMMA InitIInv == Init => IInv
<1> SUFFICES ASSUME Init PROVE IInv
  OBVIOUS
<1>1. TypeOK
  <2>1. verdict \in BOOLEAN
    BY Zenon DEF Init
  <2> QED
    BY <2>1, NamesAssumption, BoundsAssumption
    DEF Init, TypeOK, Places, NoEvent, Root, Files
<1>2. ParentsExist
  BY DEF Init, ParentsExist
<1>3. /\ PlaceInv /\ ClimbInv /\ VerdictInv /\ NearestPriorityDecides /\ DeliverInv
      /\ DeliversAdditiveChain
  BY DEF Init, PlaceInv, InCall, ClimbInv, VerdictInv, NearestPriorityDecides, DeliverInv,
         DeliversAdditiveChain
<1> QED
  BY <1>1, <1>2, <1>3 DEF IInv

LEMMA InitFileIInv == ASSUME IInv, InitFile PROVE IInv'
<1> USE DEF IInv, InitFile
<1>1. TypeOK'
  <2>1. at' \in 1..NFiles+1 /\ pc' \in Places
    BY BoundsAssumption DEF TypeOK, Places
  <2> QED
    BY <2>1 DEF TypeOK, rcfiles, ghosts, counts, admin, Files
<1>2. ParentsExist'
  BY DEF ParentsExist
<1>3. PlaceInv'
  BY DEF PlaceInv, InCall
<1>4. ClimbInv'
  BY DEF ClimbInv
<1>5. VerdictInv' /\ NearestPriorityDecides'
  BY DEF VerdictInv, Lets, Governs, NearestPriorityDecides, Reached, PlaceInv, InCall, ghosts
<1>6. DeliverInv'
  BY DEF DeliverInv, Passed, Reached, DeliveredInOrder
<1>7. DeliversAdditiveChain'
  BY DEF DeliversAdditiveChain, Reached
<1> QED
  BY <1>1, <1>2, <1>3, <1>4, <1>5, <1>6, <1>7

LEMMA InitStatIInv == ASSUME IInv, InitStat PROVE IInv'
<1> USE DEF IInv, InitStat
<1>a. at \in Files /\ file[at].ctime \in Nat
  BY BoundsAssumption DEF TypeOK, PlaceInv, Files
<1>1. TypeOK'
  <2>1. exists' \in [Files -> {0, 1}] /\ seen' \in [Files -> Nat]
    BY <1>a DEF TypeOK
  <2> QED
    BY <2>1 DEF TypeOK, Places, ghosts, counts, admin, Files
<1>2. ParentsExist'
  BY DEF ParentsExist
<1>3. PlaceInv'
  BY DEF PlaceInv, InCall
<1>4. ClimbInv'
  BY DEF ClimbInv
<1>5. VerdictInv' /\ NearestPriorityDecides'
  BY DEF VerdictInv, Lets, Governs, NearestPriorityDecides, Reached, PlaceInv, InCall, ghosts
<1>6. DeliverInv'
  BY DEF DeliverInv, Passed, Reached, DeliveredInOrder
<1>7. DeliversAdditiveChain'
  BY DEF DeliversAdditiveChain, Reached
<1> QED
  BY <1>1, <1>2, <1>3, <1>4, <1>5, <1>6, <1>7

LEMMA InitEnvironmentIInv == ASSUME IInv, InitEnvironment PROVE IInv'
<1> USE DEF IInv, InitEnvironment
<1>a. DOMAIN hier \subseteq Names /\ \A n \in DOMAIN hier : hier[n] \in Category
  BY DEF TypeOK
<1>b. \A n \in DOMAIN hier : Chain(n) \subseteq DOMAIN hier
  BY DEF ParentsExist
<1>c. /\ DOMAIN hier' \subseteq Names /\ \A n \in DOMAIN hier' : hier'[n] \in Category
      /\ \A n \in DOMAIN hier' : Chain(n) \subseteq DOMAIN hier'
  BY <1>a, <1>b, CategoryLoadFacts, EnvironmentAssumption
<1>1. TypeOK'
  BY <1>c DEF TypeOK, Places, rcfiles, ghosts, counts, admin, Files
<1>2. ParentsExist'
  BY <1>c DEF ParentsExist
<1>3. PlaceInv'
  BY DEF PlaceInv, InCall
<1>4. ClimbInv'
  BY DEF ClimbInv
<1>5. VerdictInv' /\ NearestPriorityDecides'
  BY DEF VerdictInv, Lets, Governs, NearestPriorityDecides, Reached, PlaceInv, InCall, ghosts
<1>6. DeliverInv'
  BY DEF DeliverInv, Passed, Reached, DeliveredInOrder
<1>7. DeliversAdditiveChain'
  BY DEF DeliversAdditiveChain, Reached
<1> QED
  BY <1>1, <1>2, <1>3, <1>4, <1>5, <1>6, <1>7

LEMMA LoadIInv == ASSUME IInv, Load PROVE IInv'
<1> USE DEF IInv, Load, NextFile
<1>a. at' \in 1..NFiles+1 /\ pc' \in Places
  BY BoundsAssumption DEF TypeOK, Places, PlaceInv
<1>b. reread' \in {0, 1} /\ todo' \in Seq(Element)
  BY TextsAssumption DEF TypeOK, Text, Given
<1>1. TypeOK'
  BY <1>a, <1>b DEF TypeOK, rcfiles, ghosts, counts, admin, Files
<1>2. ParentsExist'
  BY DEF ParentsExist
<1>3. PlaceInv'
  BY DEF PlaceInv, InCall
<1>4. ClimbInv'
  BY DEF ClimbInv
<1>5. VerdictInv' /\ NearestPriorityDecides'
  BY DEF VerdictInv, Lets, Governs, NearestPriorityDecides, Reached, PlaceInv, InCall, ghosts
<1>6. DeliverInv'
  BY DEF DeliverInv, Passed, Reached, DeliveredInOrder
<1>7. DeliversAdditiveChain'
  BY DEF DeliversAdditiveChain, Reached
<1> QED
  BY <1>1, <1>2, <1>3, <1>4, <1>5, <1>6, <1>7

LEMMA ApplyIInv == ASSUME IInv, Apply PROVE IInv'
<1> USE DEF IInv, Apply, NextFile
<1>a. DOMAIN hier \subseteq Names /\ \A n \in DOMAIN hier : hier[n] \in Category
  BY DEF TypeOK
<1>b. \A n \in DOMAIN hier : Chain(n) \subseteq DOMAIN hier
  BY DEF ParentsExist
<1>c. ASSUME todo # << >>
      PROVE  /\ DOMAIN hier' \subseteq Names /\ \A n \in DOMAIN hier' : hier'[n] \in Category
             /\ \A n \in DOMAIN hier' : Chain(n) \subseteq DOMAIN hier'
             /\ DOMAIN hier \subseteq DOMAIN hier'
             /\ todo' \in Seq(Element)
  <2>1. Head(todo) \in Element /\ Tail(todo) \in Seq(Element)
    BY <1>c DEF TypeOK
  <2> QED
    BY <1>a, <1>b, <1>c, <2>1, CategoryLoadFacts
<1>d. at' \in 1..NFiles+1 /\ pc' \in Places
  BY BoundsAssumption DEF TypeOK, Places, PlaceInv
<1>1. TypeOK'
  BY <1>c, <1>d DEF TypeOK, rcfiles, ghosts, counts, admin, Files
<1>2. ParentsExist'
  BY <1>c DEF ParentsExist
<1>3. PlaceInv'
  BY <1>c DEF PlaceInv, InCall
<1>4. ClimbInv'
  BY DEF ClimbInv
<1>5. VerdictInv' /\ NearestPriorityDecides'
  BY DEF VerdictInv, Lets, Governs, NearestPriorityDecides, Reached, PlaceInv, InCall, ghosts
<1>6. DeliverInv'
  BY DEF DeliverInv, Passed, Reached, DeliveredInOrder
<1>7. DeliversAdditiveChain'
  BY DEF DeliversAdditiveChain, Reached
<1> QED
  BY <1>1, <1>2, <1>3, <1>4, <1>5, <1>6, <1>7

LEMMA GetIInv == ASSUME IInv, NEW c \in Names, Get(c) PROVE IInv'
<1> USE DEF IInv, Get
<1>a. DOMAIN hier \subseteq Names /\ \A n \in DOMAIN hier : hier[n] \in Category
  BY DEF TypeOK
<1>b. \A n \in DOMAIN hier : Chain(n) \subseteq DOMAIN hier
  BY DEF ParentsExist
<1>c. /\ DOMAIN hier' \subseteq Names /\ \A m \in DOMAIN hier' : hier'[m] \in Category
      /\ \A m \in DOMAIN hier' : Chain(m) \subseteq DOMAIN hier'
  BY <1>a, <1>b, CategoryGetFacts
<1>1. TypeOK'
  BY <1>c DEF TypeOK, rcfiles, ghosts, counts, admin, Files
<1>2. ParentsExist'
  BY <1>c DEF ParentsExist
<1>3. PlaceInv'
  BY DEF PlaceInv, InCall
<1>4. ClimbInv'
  BY DEF ClimbInv
<1>5. VerdictInv' /\ NearestPriorityDecides'
  BY DEF VerdictInv, Lets, Governs, NearestPriorityDecides, Reached, PlaceInv, InCall, ghosts
<1>6. DeliverInv'
  BY DEF DeliverInv, Passed, Reached, DeliveredInOrder
<1>7. DeliversAdditiveChain'
  BY DEF DeliversAdditiveChain, Reached
<1> QED
  BY <1>1, <1>2, <1>3, <1>4, <1>5, <1>6, <1>7

LEMMA SetIInv == ASSUME IInv, NEW s \in Settings, Set(s[1], s[2], s[3]) PROVE IInv'
<1> USE DEF IInv, Set
<1>a. DOMAIN hier \subseteq Names /\ \A n \in DOMAIN hier : hier[n] \in Category
  BY DEF TypeOK
<1>b. \A n \in DOMAIN hier : Chain(n) \subseteq DOMAIN hier
  BY DEF ParentsExist
<1>c. DOMAIN hier' = DOMAIN hier
  OBVIOUS
<1>d. \A n \in DOMAIN hier : hier'[n] \in Category
  BY <1>a, SettingsAssumption DEF Category
<1>e. DOMAIN hier' \subseteq Names /\ \A n \in DOMAIN hier' : hier'[n] \in Category
  BY <1>a, <1>c, <1>d
<1>f. sets' \in Nat
  BY DEF TypeOK
<1>1. TypeOK'
  BY <1>e, <1>f DEF TypeOK, rcfiles, ghosts, counts, admin, Files
<1>2. ParentsExist'
  BY <1>c DEF ParentsExist
<1>3. PlaceInv'
  BY <1>c DEF PlaceInv, InCall
<1>4. ClimbInv'
  BY DEF ClimbInv
<1>5. VerdictInv' /\ NearestPriorityDecides'
  BY DEF VerdictInv, Lets, Governs, NearestPriorityDecides, Reached, PlaceInv, InCall, ghosts
<1>6. DeliverInv'
  BY DEF DeliverInv, Passed, Reached, DeliveredInOrder
<1>7. DeliversAdditiveChain'
  BY DEF DeliversAdditiveChain, Reached
<1> QED
  BY <1>1, <1>2, <1>3, <1>4, <1>5, <1>6, <1>7

LEMMA CallIInv == ASSUME IInv, NEW n \in Names, NEW p \in Levels, Call(n, p) PROVE IInv'
<1> USE DEF IInv, Call
<1>1. TypeOK'
  <2>1. verdict' \in BOOLEAN
    BY Zenon DEF Lets
  <2> QED
    BY <2>1, ChainFacts, SMTT(30) DEF TypeOK, Places, rcfiles, ghosts, counts, admin, Files
<1>2. ParentsExist'
  BY DEF ParentsExist
<1>3. PlaceInv'
  BY LevelsAssumption DEF PlaceInv, InCall, NoEvent
<1>4. ClimbInv'
  BY DEF ClimbInv
<1>5. VerdictInv' /\ NearestPriorityDecides'
  BY DEF VerdictInv, Lets, Governs, NearestPriorityDecides, Reached, PlaceInv, InCall, ghosts
<1>6. DeliverInv'
  BY DEF DeliverInv, Passed, Reached, DeliveredInOrder
<1>7. DeliversAdditiveChain'
  BY DEF DeliversAdditiveChain, Reached
<1> QED
  BY <1>1, <1>2, <1>3, <1>4, <1>5, <1>6, <1>7

LEMMA ChainedPriorityIInv == ASSUME IInv, ChainedPriority PROVE IInv'
<1> USE DEF IInv, ChainedPriority
<1>a. event.cat \in Names /\ Len(event.cat) \in Nat /\ level \in 0..Len(event.cat)
  BY ChainFacts DEF TypeOK
<1>b. Cat \in Category
  <2>1. event # NoEvent /\ event.cat \in DOMAIN hier
    BY DEF PlaceInv, InCall
  <2>2. Upto(event.cat, level) \in DOMAIN hier
    BY <1>a, <2>1, ChainFacts DEF ParentsExist
  <2> QED
    BY <2>2 DEF Cat, TypeOK
<1>1. TypeOK'
  BY <1>a DEF TypeOK, Places, rcfiles, ghosts, counts, admin, Files
<1>2. ParentsExist'
  BY DEF ParentsExist
<1>3. PlaceInv'
  BY DEF PlaceInv, InCall
<1>4. ClimbInv'
  BY <1>a DEF ClimbInv, Cat
<1>5. VerdictInv' /\ NearestPriorityDecides'
  <2>1. ASSUME pc' # "chain" PROVE Governs(event.cat, level)
    BY <1>a, <2>1 DEF Governs, ClimbInv, Cat
  <2>2. ASSUME pc' # "chain", NEW d \in 0..Len(event.cat), Governs(event.cat, d)
        PROVE  d = level
    <3>1. ~ (d < level)
      BY <1>a, <2>1, <2>2 DEF Governs
    <3>2. ~ (level < d)
      BY <1>a, <2>1, <2>2 DEF Governs
    <3> QED
      BY <1>a, <3>1, <3>2
  <2>3. verdict = Lets(event.cat, event.priority)
    BY DEF VerdictInv
  <2>4. ASSUME pc' # "chain" PROVE verdict <=> Cat.priority >= event.priority
    BY <1>a, <2>1, <2>2, <2>3, <2>4 DEF Lets, Cat
  <2>5. delivered = << >> /\ delivered' = delivered /\ verdict' = verdict
    BY DEF DeliverInv, ghosts
  <2>6. VerdictInv'
    BY <2>3, <2>4, <2>5 DEF VerdictInv, Lets, Governs
  <2> QED
    BY <2>4, <2>5, <2>6 DEF NearestPriorityDecides
<1>6. DeliverInv'
  BY DEF DeliverInv, Passed, Reached, DeliveredInOrder
<1>7. DeliversAdditiveChain'
  BY DEF DeliverInv, DeliversAdditiveChain
<1> QED
  BY <1>1, <1>2, <1>3, <1>4, <1>5, <1>6, <1>7

LEMMA VlogIInv == ASSUME IInv, Vlog PROVE IInv'
<1> USE DEF IInv, Vlog
<1>1. TypeOK'
  BY BoundsAssumption DEF TypeOK, Places, rcfiles, ghosts, counts, admin, Files
<1>2. ParentsExist'
  BY DEF ParentsExist
<1>3. PlaceInv'
  BY DEF PlaceInv, InCall
<1>4. ClimbInv'
  BY DEF ClimbInv
<1>5. VerdictInv' /\ NearestPriorityDecides'
  <2>1. VerdictInv' /\ delivered' = << >>
    BY DEF VerdictInv, DeliverInv, ghosts
  <2>2. ASSUME pc' = "done" PROVE Reached(event.cat)' = {}
    BY <2>2 DEF Reached, Chain
  <2> QED
    BY <2>1, <2>2 DEF NearestPriorityDecides
<1>6. DeliverInv'
  BY DEF DeliverInv, Passed, Reached, DeliveredInOrder
<1>7. DeliversAdditiveChain'
  BY DEF DeliverInv, DeliversAdditiveChain
<1> QED
  BY <1>1, <1>2, <1>3, <1>4, <1>5, <1>6, <1>7

LEMMA StatIInv == ASSUME IInv, Stat PROVE IInv'
<1> USE DEF IInv, Stat
<1>a. at' \in 1..NFiles+1 /\ pc' \in Places
  BY BoundsAssumption DEF TypeOK, Places
<1>1. TypeOK'
  BY <1>a DEF TypeOK, rcfiles, ghosts, counts, admin, Files
<1>2. ParentsExist'
  BY DEF ParentsExist
<1>3. PlaceInv'
  BY DEF PlaceInv, InCall
<1>4. ClimbInv'
  BY DEF ClimbInv
<1>5. VerdictInv' /\ NearestPriorityDecides'
  BY DEF VerdictInv, Lets, Governs, NearestPriorityDecides, Reached, PlaceInv, InCall, ghosts
<1>6. DeliverInv'
  BY DEF DeliverInv, Passed, Reached, DeliveredInOrder
<1>7. DeliversAdditiveChain'
  BY DEF DeliversAdditiveChain, Reached
<1> QED
  BY <1>1, <1>2, <1>3, <1>4, <1>5, <1>6, <1>7

LEMMA RestatIInv == ASSUME IInv, Restat PROVE IInv'
<1> USE DEF IInv, Restat
<1>1. TypeOK'
  BY DEF TypeOK, Places, rcfiles, ghosts, counts, admin, Files
<1>2. ParentsExist'
  BY DEF ParentsExist
<1>3. PlaceInv'
  BY DEF PlaceInv, InCall
<1>4. ClimbInv'
  BY DEF ClimbInv
<1>5. VerdictInv' /\ NearestPriorityDecides'
  BY DEF VerdictInv, Lets, Governs, NearestPriorityDecides, Reached, PlaceInv, InCall, ghosts
<1>6. DeliverInv'
  BY DEF DeliverInv, Passed, Reached, DeliveredInOrder
<1>7. DeliversAdditiveChain'
  BY DEF DeliversAdditiveChain, Reached
<1> QED
  BY <1>1, <1>2, <1>3, <1>4, <1>5, <1>6, <1>7

LEMMA StatDoneIInv == ASSUME IInv, StatDone PROVE IInv'
<1> USE DEF IInv, StatDone
<1>1. TypeOK'
  BY DEF TypeOK, Places, rcfiles, ghosts, counts, admin, Files
<1>2. ParentsExist'
  BY DEF ParentsExist
<1>3. PlaceInv'
  BY DEF PlaceInv, InCall
<1>4. ClimbInv'
  BY DEF ClimbInv
<1>5. VerdictInv' /\ NearestPriorityDecides'
  BY DEF VerdictInv, Lets, Governs, NearestPriorityDecides, Reached, PlaceInv, InCall, ghosts
<1>6. DeliverInv'
  BY DEF DeliverInv, Passed, Reached, DeliveredInOrder
<1>7. DeliversAdditiveChain'
  BY DEF DeliversAdditiveChain, Reached
<1> QED
  BY <1>1, <1>2, <1>3, <1>4, <1>5, <1>6, <1>7

LEMMA DeliverIInv == ASSUME IInv, Deliver PROVE IInv'
<1> USE DEF IInv, Deliver
<1>a. event.cat \in Names /\ Len(event.cat) \in Nat /\ level \in 0..Len(event.cat)
  BY ChainFacts DEF TypeOK
<1>b. Cat \in Category
  <2>1. event # NoEvent /\ event.cat \in DOMAIN hier
    BY DEF PlaceInv, InCall
  <2>2. Upto(event.cat, level) \in DOMAIN hier
    BY <1>a, <2>1, ChainFacts DEF ParentsExist
  <2> QED
    BY <2>2 DEF Cat, TypeOK
<1>n. Cat.appender # NoAppender => <<level, Cat.appender>> \in Nat \X Appenders
  BY <1>a, <1>b DEF Category, Outlets
<1>c. /\ \A e \in level+1..Len(event.cat) : hier[Upto(event.cat, e)].additive = 1
      /\ {delivered[j][1] : j \in 1..Len(delivered)} = Passed
      /\ DeliveredInOrder
  BY DEF DeliverInv
<1>d. {delivered'[j][1] : j \in 1..Len(delivered')}
        = {d \in Reached(event.cat) : d >= level}
  <2>1. CASE Cat.appender # NoAppender
    <3>1. level \in Reached(event.cat)
      BY <1>a, <1>c, <2>1 DEF Reached, Cat
    <3>2. {delivered'[j][1] : j \in 1..Len(delivered')} = Passed \cup {level}
      <4> DEFINE x == <<level, Cat.appender>>
      <4>1. x \in Nat \X Appenders /\ delivered \in Seq(Nat \X Appenders) /\ x[1] = level
        BY <1>n, <2>1 DEF TypeOK
      <4>2. delivered' = Append(delivered, x)
        BY <2>1
      <4> HIDE DEF x
      <4> QED
        BY <1>c, <4>1, <4>2, AppendDepths
    <3>3. \A d \in Reached(event.cat) : d \in Int
      BY <1>a DEF Reached
    <3>4. Passed \cup {level} = {d \in Reached(event.cat) : d >= level}
      <4>1. \A d \in Reached(event.cat) : d >= level <=> d > level \/ d = level
        BY <1>a, <3>3
      <4> QED
        BY <3>1, <4>1, Zenon DEF Passed
    <3> QED
      BY <3>2, <3>4
  <2>2. CASE Cat.appender = NoAppender
    <3>1. level \notin Reached(event.cat)
      BY <2>2 DEF Reached, Cat
    <3>2. \A d \in Reached(event.cat) : d \in Int
      BY <1>a DEF Reached
    <3> QED
      BY <1>a, <1>c, <2>2, <3>1, <3>2 DEF Passed
  <2> QED
    BY <2>1, <2>2
<1>e. DeliveredInOrder'
  <2>1. CASE Cat.appender # NoAppender
    <3> DEFINE x == <<level, Cat.appender>>
    <3>1. /\ delivered' = Append(delivered, x) /\ Len(delivered) \in Nat
          /\ Len(delivered') = Len(delivered) + 1 /\ delivered'[Len(delivered')] = x
          /\ \A j \in 1..Len(delivered) : delivered'[j] = delivered[j]
      BY <1>n, <2>1 DEF TypeOK
    <3>2. x[1] = level /\ x[2] = hier[Upto(event.cat, level)].appender
      BY DEF Cat
    <3>3. \A j \in 1..Len(delivered) : level < delivered[j][1]
      BY <1>c DEF Passed
    <3> HIDE DEF x
    <3> QED
      BY <1>c, <3>1, <3>2, <3>3 DEF DeliveredInOrder
  <2>2. CASE Cat.appender = NoAppender
    BY <1>c, <2>2 DEF DeliveredInOrder
  <2> QED
    BY <2>1, <2>2
<1>1. TypeOK'
  <2>2. delivered' \in Seq(Nat \X Appenders)
    BY <1>n DEF TypeOK
  <2>3. level' \in 0..Len(event.cat)
    BY <1>a
  <2> QED
    BY <2>2, <2>3 DEF TypeOK, Places, rcfiles, ghosts, counts, admin, Files
<1>2. ParentsExist'
  BY DEF ParentsExist
<1>3. PlaceInv'
  BY DEF PlaceInv, InCall
<1>4. ClimbInv'
  BY DEF ClimbInv
<1>6. DeliverInv'
  <2>1. CASE pc' = "done"
    BY <2>1 DEF DeliverInv
  <2>2. CASE pc' = "deliver"
    <3>1. \A e \in level'+1..Len(event.cat) : hier[Upto(event.cat, e)].additive = 1
      BY <1>a, <1>b, <1>c, <2>2 DEF Category, Cat
    <3>2. Passed' = {d \in Reached(event.cat) : d >= level}
      BY <1>a, <2>2 DEF Passed, Reached
    <3> QED
      BY <1>a, <1>d, <1>e, <2>2, <3>1, <3>2 DEF DeliverInv
  <2> QED
    BY <2>1, <2>2
<1>7. DeliversAdditiveChain'
  <2>1. ASSUME pc' = "done" PROVE {d \in Reached(event.cat) : d >= level} = Reached(event.cat)
    BY <1>a, <1>b, <2>1 DEF Reached, Cat, Category
  <2>2. Reached(event.cat)' = Reached(event.cat)
    BY DEF Reached
  <2> QED
    BY <1>d, <1>e, <2>1, <2>2 DEF DeliversAdditiveChain, DeliveredInOrder
<1>8. VerdictInv' /\ NearestPriorityDecides'
  <2>1. verdict /\ VerdictInv'
    BY DEF VerdictInv, PlaceInv, InCall, ghosts
  <2>2. ASSUME pc' = "done"
        PROVE  {delivered'[j][1] : j \in 1..Len(delivered')} = Reached(event.cat)
    BY <1>a, <1>b, <1>d, <2>2, SMTT(30) DEF Reached, Cat, Category
  <2>3. delivered' # << >> <=> {delivered'[j][1] : j \in 1..Len(delivered')} # {}
    <3>1. delivered' \in Seq(Nat \X Appenders)
      BY <1>1 DEF TypeOK
    <3> HIDE DEF Deliver
    <3>2. Len(delivered') \in Nat /\ (delivered' # << >> <=> Len(delivered') # 0)
      BY <3>1
    <3>3. Len(delivered') # 0 <=> 1 \in 1..Len(delivered')
      BY <3>2
    <3>4. 1..Len(delivered') # {} <=> 1 \in 1..Len(delivered')
      BY <3>2
    <3> QED
      BY <3>2, <3>3, <3>4, Zenon
  <2>4. Reached(event.cat)' = Reached(event.cat) /\ verdict' = verdict
    BY DEF Reached, ghosts
  <2> QED
    BY <2>1, <2>2, <2>3, <2>4 DEF NearestPriorityDecides
<1> QED
  BY <1>1, <1>2, <1>3, <1>4, <1>6, <1>7, <1>8

LEMMA ReturnIInv == ASSUME IInv, Return PROVE IInv'
<1> USE DEF IInv, Return
<1>1. TypeOK'
  <2>1. verdict' \in BOOLEAN
    BY Zenon
  <2> QED
    BY <2>1, NamesAssumption DEF TypeOK, Places, NoEvent, Root, rcfiles, ghosts, counts, admin, Files
<1>2. ParentsExist'
  BY DEF ParentsExist
<1>3. PlaceInv'
  BY DEF PlaceInv, InCall
<1>4. ClimbInv'
  BY DEF ClimbInv
<1>5. VerdictInv' /\ NearestPriorityDecides'
  BY DEF VerdictInv, Lets, Governs, NearestPriorityDecides, Reached, PlaceInv, InCall, ghosts
<1>6. DeliverInv'
  BY DEF DeliverInv, Passed, Reached, DeliveredInOrder
<1>7. DeliversAdditiveChain'
  BY DEF DeliversAdditiveChain, Reached
<1> QED
  BY <1>1, <1>2, <1>3, <1>4, <1>5, <1>6, <1>7

LEMMA EditIInv == ASSUME IInv, NEW f \in Files, NEW text \in Texts \cup {Broken, Missing}, Edit(f, text) PROVE IInv'
<1> USE DEF IInv, Edit
<1>1. TypeOK'
  BY DEF TypeOK, Places, rcfiles, ghosts, counts, admin, Files
<1>2. ParentsExist'
  BY DEF ParentsExist
<1>3. PlaceInv'
  BY DEF PlaceInv, InCall
<1>4. ClimbInv'
  BY DEF ClimbInv
<1>5. VerdictInv' /\ NearestPriorityDecides'
  BY DEF VerdictInv, Lets, Governs, NearestPriorityDecides, Reached, PlaceInv, InCall, ghosts
<1>6. DeliverInv'
  BY DEF DeliverInv, Passed, Reached, DeliveredInOrder
<1>7. DeliversAdditiveChain'
  BY DEF DeliversAdditiveChain, Reached
<1> QED
  BY <1>1, <1>2, <1>3, <1>4, <1>5, <1>6, <1>7

LEMMA TickIInv == ASSUME IInv, Tick PROVE IInv'
<1> USE DEF IInv, Tick
<1>1. TypeOK'
  BY DEF TypeOK, Places, rcfiles, ghosts, counts, admin, Files
<1>2. ParentsExist'
  BY DEF ParentsExist
<1>3. PlaceInv'
  BY DEF PlaceInv, InCall
<1>4. ClimbInv'
  BY DEF ClimbInv
<1>5. VerdictInv' /\ NearestPriorityDecides'
  BY DEF VerdictInv, Lets, Governs, NearestPriorityDecides, Reached, PlaceInv, InCall, ghosts
<1>6. DeliverInv'
  BY DEF DeliverInv, Passed, Reached, DeliveredInOrder
<1>7. DeliversAdditiveChain'
  BY DEF DeliversAdditiveChain, Reached
<1> QED
  BY <1>1, <1>2, <1>3, <1>4, <1>5, <1>6, <1>7

-----------------------------------------------------------------------------
(* Every step keeps the invariant; a setter of the application is a step   *)
(* like any other.                                                         *)
THEOREM Inductive == IInv /\ [Next]_vars => IInv'
<1> SUFFICES ASSUME IInv, [Next]_vars PROVE IInv'
  OBVIOUS
<1>1. CASE LoadStep
  BY <1>1, InitFileIInv, InitStatIInv, InitEnvironmentIInv, LoadIInv, ApplyIInv, StatIInv,
     RestatIInv, StatDoneIInv DEF LoadStep
<1>2. CASE LogStep
  BY <1>2, ChainedPriorityIInv, VlogIInv, DeliverIInv, ReturnIInv DEF LogStep
<1>3. CASE \E s \in Settings : Set(s[1], s[2], s[3])
  BY <1>3, SetIInv
<1>4. CASE \E n \in Names : Get(n)
  BY <1>4, GetIInv
<1>5. CASE \E n \in Names, p \in Levels : Call(n, p)
  BY <1>5, CallIInv
<1>6. CASE \E f \in Files, text \in Texts \cup {Broken, Missing} : Edit(f, text)
  BY <1>6, EditIInv
<1>7. CASE Tick
  BY <1>7, TickIInv
<1>8. CASE UNCHANGED vars
  <2> USE <1>8 DEF vars, rcfiles, ghosts, counts, IInv
  <2>1. TypeOK' /\ ParentsExist' /\ PlaceInv'
    BY DEF TypeOK, ParentsExist, PlaceInv
  <2>2. ClimbInv' /\ VerdictInv' /\ NearestPriorityDecides'
    BY DEF ClimbInv, VerdictInv, Lets, Governs, NearestPriorityDecides, Reached
  <2>3. DeliverInv'
    BY DEF DeliverInv, Passed, Reached, DeliveredInOrder
  <2>4. DeliversAdditiveChain'
    BY DEF DeliversAdditiveChain, Reached
  <2> QED
    BY <2>1, <2>2, <2>3, <2>4
<1> QED
  BY <1>1, <1>2, <1>3, <1>4, <1>5, <1>6, <1>7, <1>8 DEF Next

LEMMA Invariant == Spec => []IInv
  BY InitIInv, Inductive, PTL DEF Spec

(* The state keeps its types. *)
THEOREM TypeCorrect == Spec => []TypeOK
<1>1. IInv => TypeOK
  BY DEF IInv
<1> QED
  BY <1>1, Invariant, PTL

(* However categories are named, by the application or by the files, each   *)
(* has all of its ancestors.                                                *)
THEOREM TreeClosed == Spec => []ParentsExist
<1>1. IInv => ParentsExist
  BY DEF IInv
<1> QED
  BY <1>1, Invariant, PTL

(* An event is delivered exactly if the nearest priority set above it let   *)
(* it when the call was made and the additive chain in force at the end     *)
(* reaches an appender, whatever a reread changed in between.               *)
THEOREM PriorityInherited == Spec => []NearestPriorityDecides
<1>1. IInv => NearestPriorityDecides
  BY DEF IInv
<1> QED
  BY <1>1, Invariant, PTL

(* A call delivers along the additive chain, nearest first, to every        *)
(* appender there once, as one configuration has them.                      *)
THEOREM DeliveredAlongChain == Spec => []DeliversAdditiveChain
<1>1. IInv => DeliversAdditiveChain
  BY DEF IInv
<1> QED
  BY <1>1, Invariant, PTL

-----------------------------------------------------------------------------
(* No time that is noted lies ahead of the clock; and a ctime was noted     *)
(* before the file was read.                                                *)
ClocksInv ==
  /\ applied \in [Files -> Texts \cup {Broken, Missing}] /\ readAt \in [Files -> Nat]
  /\ \A f \in Files :
       /\ file[f].ctime <= clock /\ seen[f] <= clock /\ readAt[f] <= clock
       /\ exists[f] = 1 /\ ~ (pc = "load" /\ at = f) => seen[f] <= readAt[f]

SeenInv == ClocksInv /\ SeenIsLoaded

LEMMA InitSeen == Init => SeenInv
BY DEF Init, SeenInv, ClocksInv, SeenIsLoaded

\* A step that neither reads a file nor looks at one.
LEMMA AsideSeen ==
  ASSUME SeenInv, UNCHANGED <<exists, seen, file, clock, applied, readAt>>,
         pc = "load" => pc' = "load" /\ at' = at,
         pc # "load" => pc' # "load"
  PROVE  SeenInv'
BY DEF SeenInv, ClocksInv, SeenIsLoaded

LEMMA LoadSeen == ASSUME IInv, SeenInv, Load PROVE SeenInv'
<1>1. at \in Files
  BY BoundsAssumption DEF IInv, TypeOK, PlaceInv, Load, Files
<1>2. /\ UNCHANGED <<exists, seen, file, clock>>
      /\ applied' = [applied EXCEPT ![at] = file[at].text]
      /\ readAt' = [readAt EXCEPT ![at] = clock]
      /\ pc = "load" /\ pc' # "load"
  BY DEF Load, NextFile, rcfiles
<1>3. \A f \in Files : f # at => applied'[f] = applied[f] /\ readAt'[f] = readAt[f]
  BY <1>2 DEF SeenInv, ClocksInv
<1>4. applied'[at] = file[at].text /\ readAt'[at] = clock
  BY <1>1, <1>2 DEF SeenInv, ClocksInv
<1>5. /\ clock \in Nat /\ seen \in [Files -> Nat]
      /\ \A f \in Files : file[f].ctime \in Nat /\ file[f].text \in Texts \cup {Broken, Missing}
  BY DEF IInv, TypeOK
<1>6. ClocksInv'
  <2>1. /\ applied' \in [Files -> Texts \cup {Broken, Missing}]
        /\ readAt' \in [Files -> Nat]
    BY <1>1, <1>2, <1>5 DEF SeenInv, ClocksInv
  <2>2. ASSUME NEW f \in Files
        PROVE  /\ file'[f].ctime <= clock' /\ seen'[f] <= clock' /\ readAt'[f] <= clock'
               /\ exists'[f] = 1 => seen'[f] <= readAt'[f]
    BY <1>2, <1>3, <1>4, <1>5 DEF SeenInv, ClocksInv
  <2> QED
    BY <2>1, <2>2 DEF ClocksInv
<1>7. SeenIsLoaded'
  BY <1>2, <1>3, <1>4 DEF SeenInv, SeenIsLoaded
<1> QED
  BY <1>6, <1>7 DEF SeenInv

\* The ctime is noted: the file counts as seen, but is about to be read.
LEMMA NoteSeen ==
  ASSUME IInv, SeenInv, InitStat \/ Restat PROVE SeenInv'
<1>1. at \in Files
  BY BoundsAssumption DEF IInv, TypeOK, PlaceInv, InitStat, Restat, Files
<1>2. /\ UNCHANGED <<file, clock, applied, readAt, at>> /\ pc # "load" /\ pc' = "load"
      /\ seen' = [seen EXCEPT ![at] = IF file[at].text = Missing THEN @ ELSE file[at].ctime]
      /\ exists' \in {exists, [exists EXCEPT ![at] = 1]}
  BY DEF InitStat, Restat, ghosts, admin
<1>3. \A f \in Files : f # at => seen'[f] = seen[f] /\ exists'[f] = exists[f]
  BY <1>2 DEF IInv, TypeOK
<1>4. seen'[at] <= clock
  BY <1>1, <1>2 DEF IInv, TypeOK, SeenInv, ClocksInv
<1> QED
  BY <1>1, <1>2, <1>3, <1>4 DEF SeenInv, ClocksInv, SeenIsLoaded

\* A file that is changed in the second in which its ctime was noted was
\* read in that second too.
LEMMA EditSeen ==
  ASSUME IInv, SeenInv, NEW f \in Files, NEW text \in Texts \cup {Broken, Missing}, Edit(f, text)
  PROVE  SeenInv'
<1>1. /\ UNCHANGED <<pc, at, exists, seen, clock, applied, readAt>>
      /\ file' = [file EXCEPT ![f] = [text |-> text, ctime |-> clock]]
  BY DEF Edit, rcfiles, ghosts
<1>2. /\ file'[f] = [text |-> text, ctime |-> clock]
      /\ \A g \in Files : g # f => file'[g] = file[g]
  BY <1>1 DEF IInv, TypeOK
<1>3. clock \in Nat /\ seen \in [Files -> Nat] /\ readAt \in [Files -> Nat]
  BY DEF IInv, TypeOK, SeenInv, ClocksInv
<1>4. ClocksInv'
  BY <1>1, <1>2, <1>3 DEF SeenInv, ClocksInv
<1>5. exists[f] = 1 /\ seen[f] = clock /\ ~ (pc = "load" /\ at = f) => readAt[f] = clock
  BY <1>3 DEF SeenInv, ClocksInv
<1>6. SeenIsLoaded'
  BY <1>1, <1>2, <1>5 DEF SeenInv, SeenIsLoaded
<1> QED
  BY <1>4, <1>6 DEF SeenInv

LEMMA TickSeen == ASSUME IInv, SeenInv, Tick PROVE SeenInv'
<1>1. /\ UNCHANGED <<pc, at, exists, seen, file, applied, readAt>> /\ clock' = clock + 1
  BY DEF Tick, rcfiles, ghosts
<1>2. /\ clock \in Nat /\ seen \in [Files -> Nat] /\ readAt \in [Files -> Nat]
      /\ \A f \in Files : file[f].ctime \in Nat
  BY DEF IInv, TypeOK, SeenInv, ClocksInv
<1> QED
  BY <1>1, <1>2 DEF SeenInv, ClocksInv, SeenIsLoaded

LEMMA SeenInductive == IInv /\ SeenInv /\ [Next]_vars => SeenInv'
<1> SUFFICES ASSUME IInv, SeenInv, [Next]_vars PROVE SeenInv'
  OBVIOUS
<1> USE DEF rcfiles, ghosts
<1>1. CASE LoadStep
  <2>1. CASE InitFile \/ InitEnvironment
    BY <2>1, AsideSeen DEF InitFile, InitEnvironment, admin
  <2>2. CASE Apply
    BY <2>2, AsideSeen DEF Apply, NextFile
  <2>3. CASE Stat \/ StatDone
    BY <2>3, AsideSeen DEF Stat, StatDone, admin
  <2> QED
    BY <1>1, <2>1, <2>2, <2>3, LoadSeen, NoteSeen DEF LoadStep
<1>2. CASE LogStep
  <2>1. CASE ChainedPriority \/ Vlog
    BY <2>1, AsideSeen DEF ChainedPriority, Vlog, admin
  <2>2. CASE Deliver \/ Return
    BY <2>2, AsideSeen DEF Deliver, Return, admin
  <2> QED
    BY <1>2, <2>1, <2>2 DEF LogStep
<1>3. CASE \E s \in Settings : Set(s[1], s[2], s[3])
  BY <1>3, AsideSeen DEF Set, admin
<1>4. CASE \E n \in Names : Get(n)
  BY <1>4, AsideSeen DEF Get, admin
<1>5. CASE \E n \in Names, p \in Levels : Call(n, p)
  BY <1>5, AsideSeen DEF Call, admin
<1>6. CASE \E f \in Files, text \in Texts \cup {Broken, Missing} : Edit(f, text)
  BY <1>6, EditSeen
<1>7. CASE Tick
  BY <1>7, TickSeen
<1>8. CASE UNCHANGED vars
  BY <1>8, AsideSeen DEF vars
<1> QED
  BY <1>1, <1>2, <1>3, <1>4, <1>5, <1>6, <1>7, <1>8 DEF Next

(* A file whose noted ctime is its ctime has been loaded as it is, whenever *)
(* the administrator changes it, but for changes in the second of a load.   *)
THEOREM SeenFilesLoaded == Spec => []SeenIsLoaded
<1>1. SeenInv => SeenIsLoaded
  BY DEF SeenInv
<1> QED
  BY <1>1, InitSeen, SeenInductive, Invariant, PTL DEF Spec
=============================================================================
