--------------------------- MODULE LifecycleProofs ---------------------------
(***************************************************************************)
(* What holds of any set of appenders and policies, any configurations and *)
(* any number of rereads: the initialised flag of a policy tells whether   *)
(* it has file names.  Typing is what the step needs besides: only the     *)
(* user data of an appender ever initialises a policy.                     *)
(***************************************************************************)
EXTENDS Lifecycle, SequenceTheorems, TLAPS

LEMMA UdataNumbers ==
  /\ Null \notin Udata /\ Nothing \notin Udata /\ Bare \notin Udata
  /\ \A m \in 0..MaxUdata : m < MaxUdata => m + 1 \in Udata /\ m + 1 \in 0..MaxUdata
BY BoundsAssumption DEF Udata, Null, Nothing, Bare

PolType == [init : {0, 1}, sw : {Nothing, Bare} \cup Udata, rf : Udata \cup {Null}]
AppType == [type : {"none", "rollingfile"}, isopen : {0, 1}, udata : Udata \cup {Null}]
RfType  == [fp : Udata \cup {Null}, dirs : {0, 1}, policy : Policies \cup {NoPolicy}]

LEMMA InitializedType ==
  ASSUME NEW p \in PolType, NEW r \in Udata
  PROVE  /\ Initialized(p, r) \in PolType
         /\ Initialized(p, r).init = 1 /\ Initialized(p, r).sw \in Udata
BY DEF Initialized, PolType

LEMMA FinishedType ==
  ASSUME NEW p \in PolType, p.init = 1 <=> p.sw \in Udata
  PROVE  /\ Finished(p) \in PolType
         /\ Finished(p).init = 1 <=> Finished(p).sw \in Udata
<1>1. CASE p.init = 1
  <2>1. Finished(p) = [init |-> 0, sw |-> Nothing, rf |-> p.rf]
    BY <1>1 DEF Finished, PolType
  <2> QED
    BY <2>1, UdataNumbers DEF PolType
<1>2. CASE p.init # 1
  BY <1>2 DEF Finished
<1> QED
  BY <1>1, <1>2

LEMMA NothingType == NoPol \in PolType /\ NoRf \in RfType
BY DEF NoPol, NoRf, PolType, RfType

LEMMA InitTyped == Init => TypeOK /\ FlagTellsNames
<1> SUFFICES ASSUME Init PROVE TypeOK /\ FlagTellsNames
  OBVIOUS
<1>1. 0 \in 0..MaxUdata /\ 0 \in 0..MaxInits
  BY BoundsAssumption
<1>2. << >> \in Seq(Element)
  OBVIOUS
<1> QED
  BY <1>1, <1>2, UdataNumbers DEF Init, TypeOK, FlagTellsNames, NoApp, NoRf, NoPol, Faults
-----------------------------------------------------------------------------
(* What a step must keep: typing, and the flags.                            *)
IInv == TypeOK /\ FlagTellsNames

LEMMA LoadAppenderIInv ==
  ASSUME IInv, NEW e \in Element, LoadAppender(e) PROVE IInv'
<1> DEFINE r == made + 1
<1>1. r \in Udata /\ made' = r /\ made' \in 0..MaxUdata
  <2>1. made \in 0..MaxUdata /\ made < MaxUdata /\ made' = r
    BY DEF IInv, TypeOK, LoadAppender
  <2> QED
    BY <2>1, UdataNumbers
<1>2. e.appender \in Appenders /\ e.policy \in Policies \cup {NoPolicy}
  BY DEF LoadAppender, Element
<1>3. rf' \in [Udata -> RfType]
  BY <1>1, <1>2, UdataNumbers DEF IInv, TypeOK, LoadAppender, RfType
<1>4. app' \in [Appenders -> AppType]
  <2>1. app[e.appender] \in AppType
    BY <1>2 DEF IInv, TypeOK, AppType
  <2>2. \A u \in Udata \cup {Null} : Typed(app[e.appender], u) \in AppType
    BY <2>1 DEF Typed, AppType
  <2>3. app' \in {[app EXCEPT ![e.appender] = Typed(@, u)] : u \in Udata \cup {Null}}
    BY <1>1, <2>1 DEF LoadAppender, AppType
  <2> QED
    BY <2>2, <2>3, <1>2 DEF IInv, TypeOK, AppType
<1>5. pol' \in [Policies -> PolType] /\ FlagTellsNames'
  <2>1. CASE e.policy = NoPolicy
    BY <2>1 DEF IInv, TypeOK, LoadAppender, FlagTellsNames, PolType
  <2>2. CASE e.policy # NoPolicy
    <3>1. e.policy \in Policies /\ pol[e.policy] \in PolType
      BY <1>2, <2>2 DEF IInv, TypeOK, PolType
    <3>2. pol' = [pol EXCEPT ![e.policy] = Initialized(pol[e.policy], r)]
      BY <1>1, <2>2 DEF LoadAppender
    <3> QED
      BY <1>1, <3>1, <3>2, InitializedType DEF IInv, TypeOK, FlagTellsNames, PolType
  <2> QED
    BY <2>1, <2>2
<1>6. todo' \in Seq(Element) /\ did' \subseteq {"close", "reread"}
  BY DEF IInv, TypeOK, LoadAppender, Loads
<1> QED
  BY <1>1, <1>3, <1>4, <1>5, <1>6 DEF IInv, TypeOK, LoadAppender, AppType, RfType, PolType

LEMMA FaultIInv == ASSUME IInv, NEW f \in Faults, Fault(f) PROVE IInv'
BY DEF IInv, TypeOK, FlagTellsNames, Fault

LEMMA BeginIInv == ASSUME IInv, NEW text \in Texts, Begin(text) PROVE IInv'
<1>1. text \in Seq(Element) /\ inits' \in 0..MaxInits
  BY TextsAssumption, BoundsAssumption DEF IInv, TypeOK, Begin
<1> QED
  BY <1>1 DEF IInv, TypeOK, FlagTellsNames, Begin

LEMMA RereadIInv == ASSUME IInv, NEW text \in Rereads, Reread(text) PROVE IInv'
<1>1. text \in Seq(Element)
  BY TextsAssumption
<1>2. loaded' \in Seq(Element)
  BY <1>1 DEF IInv, TypeOK, Reread
<1> QED
  BY <1>1, <1>2 DEF IInv, TypeOK, FlagTellsNames, Reread

LEMMA LoadPolicyIInv ==
  ASSUME IInv, NEW e \in Element, LoadPolicy(e) PROVE IInv'
<1> DEFINE p == pol[e.policy]
<1>1. e.policy \in Policies /\ p \in PolType
  <2>1. e.policy \in Policies
    BY NamesAssumption DEF LoadPolicy, Element
  <2> QED
    BY <2>1 DEF IInv, TypeOK, PolType
<1> DEFINE bad == ~e.sizes \/ (p.sw # Nothing /\ (p.rf = Null \/ rf[p.rf].dirs = 0))
<1>2. CASE bad
  <2>1. Fault("attributes") \/ Fault("rfudata") \/ Fault("logdir")
    BY <1>2, Zenon DEF LoadPolicy
  <2> QED
    BY <2>1, FaultIInv DEF Faults
<1>3. CASE ~bad
  <2>1. todo' \in Seq(Element)
    <3>1. todo' = Tail(todo) /\ todo # << >>
      BY <1>3, Zenon DEF LoadPolicy, Loads
    <3>2. todo \in Seq(Element)
      BY DEF IInv, TypeOK
    <3> QED
      BY <3>1, <3>2
  <2>2. CASE p.sw = Nothing
    <3>1. pol' = [pol EXCEPT ![e.policy] = [p EXCEPT !.sw = Bare]]
      BY <1>3, <2>2 DEF LoadPolicy
    <3>2. [p EXCEPT !.sw = Bare] = [init |-> p.init, sw |-> Bare, rf |-> p.rf]
      BY <1>1 DEF PolType
    <3>3. p.init = 0
      BY <1>1, <2>2, UdataNumbers DEF IInv, FlagTellsNames, PolType
    <3>4. pol' \in [Policies -> PolType] /\ FlagTellsNames'
      BY <1>1, <3>1, <3>2, <3>3, UdataNumbers DEF IInv, TypeOK, FlagTellsNames, PolType
    <3> QED
      BY <1>3, <2>1, <3>4 DEF LoadPolicy, IInv, TypeOK, PolType
  <2>3. CASE p.sw # Nothing
    <3>1. pol' = [pol EXCEPT ![e.policy] = Initialized(p, p.rf)] /\ p.rf \in Udata
      BY <1>1, <1>3, <2>3 DEF LoadPolicy, PolType
    <3>2. pol' \in [Policies -> PolType] /\ FlagTellsNames'
      BY <1>1, <3>1, InitializedType DEF IInv, TypeOK, FlagTellsNames, PolType
    <3> QED
      BY <1>3, <2>1, <3>2 DEF LoadPolicy, IInv, TypeOK, PolType
  <2> QED
    BY <2>2, <2>3
<1> QED
  BY <1>2, <1>3

LEMMA ConfigureIInv ==
  ASSUME IInv, NEW a \in Appenders, NEW q \in Policies \cup {NoPolicy}, Configure(a, q)
  PROVE  IInv'
<1> DEFINE r == made + 1
<1>1. r \in Udata /\ made' = r /\ made' \in 0..MaxUdata
  <2>1. made \in 0..MaxUdata /\ made < MaxUdata /\ made' = r
    BY DEF IInv, TypeOK, Configure
  <2> QED
    BY <2>1, UdataNumbers
<1>2. rf' \in [Udata -> RfType]
  BY <1>1 DEF IInv, TypeOK, Configure, RfType
<1>3. app' \in [Appenders -> AppType]
  <2>1. Typed(app[a], r) \in AppType
    BY <1>1 DEF IInv, TypeOK, AppType, Typed
  <2> QED
    BY <1>1, <2>1 DEF IInv, TypeOK, Configure, AppType
<1>4. pol' \in [Policies -> PolType] /\ FlagTellsNames' /\ loaded' \in Seq(Element)
  <2>1. CASE q = NoPolicy
    BY <2>1 DEF IInv, TypeOK, Configure, FlagTellsNames, PolType
  <2>2. CASE q # NoPolicy
    <3>1. pol[q] \in PolType /\ [policy |-> q, appender |-> a] \in Element
      BY <2>2 DEF IInv, TypeOK, PolType, Element
    <3>2. pol' = [pol EXCEPT ![q] = Initialized(pol[q], r)]
      BY <1>1, <2>2 DEF Configure
    <3>3. loaded' \in Seq(Element)
      <4>1. loaded' = Append(loaded, [policy |-> q, appender |-> a])
        BY <2>2, Zenon DEF Configure
      <4>2. loaded \in Seq(Element)
        BY DEF IInv, TypeOK
      <4> QED
        BY <3>1, <4>1, <4>2
    <3> QED
      BY <1>1, <2>2, <3>1, <3>2, <3>3, InitializedType
      DEF IInv, TypeOK, FlagTellsNames, PolType
  <2> QED
    BY <2>1, <2>2
<1> QED
  BY <1>1, <1>2, <1>3, <1>4 DEF IInv, TypeOK, Configure, AppType, RfType, PolType

LEMMA OpenedType == ASSUME IInv, Opened PROVE app' \in [Appenders -> AppType] /\ pc' \in {"write", "up"}
<1>1. [app[cur] EXCEPT !.isopen = 1]
        = [type |-> app[cur].type, isopen |-> 1, udata |-> app[cur].udata]
  BY DEF IInv, TypeOK
<1> QED
  BY <1>1 DEF IInv, TypeOK, Opened, AppType

\* The user data of the appender that is being opened or written.
LEMMA CurrentType ==
  ASSUME IInv
  PROVE  /\ U \in Udata \cup {Null}
         /\ U # Null => rf[U] \in RfType
         /\ U # Null /\ Rolls(U) => rf[U].policy \in Policies /\ pol[rf[U].policy] \in PolType
<1>1. U \in Udata \cup {Null}
  BY DEF IInv, TypeOK, U
<1>2. U # Null => rf[U] \in RfType
  BY <1>1 DEF IInv, TypeOK, RfType
<1>3. U # Null /\ Rolls(U) => rf[U].policy \in Policies
  BY <1>2 DEF Rolls, RfType
<1> QED
  BY <1>1, <1>2, <1>3 DEF IInv, TypeOK, PolType

LEMMA StreamType ==
  ASSUME NEW x \in RfType, NEW fp \in Udata \cup {Null}
  PROVE  [x EXCEPT !.fp = fp] \in RfType
BY DEF RfType

LEMMA RolledOverType ==
  ASSUME NEW p \in PolType, NEW fp \in Udata \cup {Null}
  PROVE  RolledOver(p, fp) \in Udata \cup {Null}
BY DEF RolledOver

LEMMA OpenIInv == ASSUME IInv, Open PROVE IInv'
<1>1. app' \in [Appenders -> AppType] /\ pc' \in {"write", "up"}
  BY OpenedType DEF Open
<1>2. U \in Udata /\ rf[U] \in RfType
  BY CurrentType DEF Open
<1>3. CASE Rolls(U)
  <2> DEFINE p     == pol[rf[U].policy]
             after == IF p.init = 0 THEN Initialized(p, U) ELSE p
  <2>1. rf[U].policy \in Policies /\ p \in PolType
    BY <1>2, <1>3, CurrentType DEF Open
  <2>2. after \in PolType /\ (after.init = 1 <=> after.sw \in Udata)
    BY <1>2, <2>1, InitializedType DEF IInv, FlagTellsNames
  <2>3. /\ pol' = [pol EXCEPT ![rf[U].policy] = after]
        /\ rf' = [rf EXCEPT ![U] = [rf[U] EXCEPT !.fp = RolledOver(after, rf[U].fp)]]
    BY <1>3, Zenon DEF Open
  <2> HIDE DEF after
  <2>4. pol' \in [Policies -> PolType] /\ FlagTellsNames'
    BY <2>1, <2>2, <2>3 DEF IInv, TypeOK, FlagTellsNames, PolType
  <2>5. RolledOver(after, rf[U].fp) \in Udata \cup {Null}
    BY <1>2, <2>2, RolledOverType DEF RfType
  <2>6. [rf[U] EXCEPT !.fp = RolledOver(after, rf[U].fp)] \in RfType
    BY <1>2, <2>5, StreamType
  <2>7. rf' \in [Udata -> RfType]
    BY <1>2, <2>3, <2>6 DEF IInv, TypeOK, RfType
  <2> QED
    BY <1>1, <2>4, <2>7 DEF IInv, TypeOK, Open, AppType, RfType, PolType
<1>4. CASE ~Rolls(U)
  <2>1. rf' = [rf EXCEPT ![U] = [@ EXCEPT !.fp = U]] /\ pol' = pol
    BY <1>4 DEF Open
  <2>2. rf' \in [Udata -> RfType]
    BY <1>2, <2>1, StreamType DEF IInv, TypeOK, RfType
  <2> QED
    BY <1>1, <2>1, <2>2 DEF IInv, TypeOK, FlagTellsNames, Open, AppType, RfType
<1> QED
  BY <1>3, <1>4

LEMMA WriteIInv == ASSUME IInv, NEW triggers \in BOOLEAN, Write(triggers) PROVE IInv'
<1> DEFINE fp == IF Rolls(U) /\ triggers THEN RolledOver(pol[rf[U].policy], rf[U].fp)
                                         ELSE rf[U].fp
<1>1. CASE \E f \in Faults : Fault(f)
  BY <1>1, FaultIInv
<1>2. CASE /\ U # Null
           /\ rf' = [rf EXCEPT ![U] = [@ EXCEPT !.fp = fp]] /\ pc' = "up"
           /\ UNCHANGED <<app, pol, made, todo, cur, inits, fault, loaded, did>>
  <2>1. U \in Udata /\ rf[U] \in RfType
    BY <1>2, CurrentType
  <2>2. fp \in Udata \cup {Null}
    BY <1>2, <2>1, CurrentType, RolledOverType DEF RfType
  <2> HIDE DEF fp
  <2>3. rf' \in [Udata -> RfType]
    BY <1>2, <2>1, <2>2, StreamType DEF IInv, TypeOK, RfType
  <2> QED
    BY <1>2, <2>3 DEF IInv, TypeOK, FlagTellsNames, RfType
<1> QED
  BY <1>1, <1>2 DEF Write, Faults

\* A policy is finished with its names and its flag together.
LEMMA ClosedKeeps ==
  ASSUME IInv, NEW r \in Udata, Closed(r)
  PROVE  rf' \in [Udata -> RfType] /\ pol' \in [Policies -> PolType] /\ FlagTellsNames'
<1>1. rf' \in [Udata -> RfType]
  BY NothingType DEF IInv, TypeOK, Closed, RfType
<1>2. CASE Rolls(r)
  <2> DEFINE q == rf[r].policy
  <2>1. q \in Policies /\ pol[q] \in PolType
    BY <1>2 DEF IInv, TypeOK, Rolls, PolType
  <2>2. pol' = [pol EXCEPT ![q] = Finished(pol[q])]
    BY <1>2 DEF Closed
  <2>3. Finished(pol[q]) \in PolType /\ (Finished(pol[q]).init = 1 <=> Finished(pol[q]).sw \in Udata)
    BY <2>1, FinishedType DEF IInv, FlagTellsNames
  <2> QED
    BY <1>1, <2>1, <2>2, <2>3 DEF IInv, TypeOK, FlagTellsNames, PolType
<1>3. CASE ~Rolls(r)
  BY <1>1, <1>3 DEF Closed, IInv, TypeOK, FlagTellsNames, PolType
<1> QED
  BY <1>2, <1>3

LEMMA CloseIInv == ASSUME IInv, NEW a \in Appenders, Close(a) PROVE IInv'
<1>1. CASE app[a].udata = Null
  BY <1>1, FaultIInv DEF Close, Faults
<1>2. CASE app[a].udata # Null
  <2>1. app[a].udata \in Udata /\ Closed(app[a].udata)
    BY <1>2 DEF Close, IInv, TypeOK
  <2>2. [app[a] EXCEPT !.isopen = 0]
          = [type |-> app[a].type, isopen |-> 0, udata |-> app[a].udata]
    BY DEF IInv, TypeOK
  <2>3. app' \in [Appenders -> AppType]
    BY <1>2, <2>1, <2>2 DEF Close, IInv, TypeOK, AppType
  <2> QED
    BY <1>2, <2>1, <2>3, ClosedKeeps DEF Close, IInv, TypeOK, AppType, RfType, PolType
<1> QED
  BY <1>1, <1>2

LEMMA DeleteAppenderIInv == ASSUME IInv, NEW a \in Appenders, DeleteAppender(a) PROVE IInv'
<1>1. app' \in [Appenders -> AppType] \/ app' = app
  BY UdataNumbers DEF DeleteAppender, IInv, TypeOK, NoApp, AppType, Fault
<1>2. CASE app[a].isopen = 0
  BY <1>1, <1>2 DEF DeleteAppender, IInv, TypeOK, FlagTellsNames, AppType
<1>3. CASE app[a].isopen # 0 /\ app[a].udata = Null
  BY <1>3, FaultIInv DEF DeleteAppender, Faults
<1>4. CASE app[a].isopen # 0 /\ app[a].udata # Null
  <2>1. app[a].udata \in Udata /\ Closed(app[a].udata)
    BY <1>4 DEF DeleteAppender, IInv, TypeOK
  <2> QED
    BY <1>1, <1>4, <2>1, ClosedKeeps DEF DeleteAppender, IInv, TypeOK, AppType, RfType, PolType
<1> QED
  BY <1>2, <1>3, <1>4

LEMMA DeletePoliciesIInv == ASSUME IInv, DeletePolicies PROVE IInv'
<1>1. pol' \in [Policies -> PolType] /\ FlagTellsNames'
  BY NothingType, UdataNumbers DEF DeletePolicies, FlagTellsNames, NoPol
<1> QED
  BY <1>1 DEF DeletePolicies, IInv, TypeOK, PolType

LEMMA LogIInv == ASSUME IInv, Log PROVE IInv'
<1>1. CASE \E a \in Appenders : Append1(a)
  BY <1>1 DEF Append1, IInv, TypeOK, FlagTellsNames
<1>2. CASE \E a \in Appenders : Close(a)
  BY <1>2, CloseIInv
<1>3. CASE OpenDefault
  BY <1>3, OpenedType DEF OpenDefault, IInv, TypeOK, FlagTellsNames, AppType
<1>4. CASE OpenWithoutDirs
  BY <1>4, FaultIInv DEF OpenWithoutDirs, Faults
<1>5. CASE Open
  BY <1>5, OpenIInv
<1>6. CASE \E triggers \in BOOLEAN : Write(triggers)
  BY <1>6, WriteIInv
<1> QED
  BY <1>1, <1>2, <1>3, <1>4, <1>5, <1>6 DEF Log

-----------------------------------------------------------------------------
(* The invariant is inductive.                                              *)
THEOREM Inductive == IInv /\ [Next]_vars => IInv'
<1> SUFFICES ASSUME IInv, [Next]_vars PROVE IInv'
  OBVIOUS
<1>1. CASE \E text \in Texts : Begin(text)
  BY <1>1, BeginIInv
<1>2. CASE \E text \in Rereads : Reread(text)
  BY <1>2, RereadIInv
<1>3. CASE Load
  <2>1. CASE LoadDone
    BY <2>1 DEF LoadDone, IInv, TypeOK, FlagTellsNames
  <2>2. CASE \E e \in Element : LoadPolicy(e) \/ LoadAppender(e)
    BY <2>2, LoadPolicyIInv, LoadAppenderIInv
  <2> QED
    BY <1>3, <2>1, <2>2 DEF Load
<1>4. CASE Setup
  BY <1>4, ConfigureIInv DEF Setup
<1>5. CASE Log
  BY <1>5, LogIInv
<1>6. CASE Fini
  BY <1>6 DEF Fini, IInv, TypeOK, FlagTellsNames
<1>7. CASE DeletePolicies
  BY <1>7, DeletePoliciesIInv
<1>8. CASE \E a \in Appenders : DeleteAppender(a)
  BY <1>8, DeleteAppenderIInv
<1>9. CASE UNCHANGED vars
  BY <1>9 DEF vars, IInv, TypeOK, FlagTellsNames
<1> QED
  BY <1>1, <1>2, <1>3, <1>4, <1>5, <1>6, <1>7, <1>8, <1>9 DEF Next

LEMMA Invariant == Spec => []IInv
<1>1. Init => IInv
  BY InitTyped DEF IInv
<1> QED
  BY <1>1, Inductive, PTL DEF Spec

(* The state keeps its types.                                               *)
THEOREM TypeCorrect == Spec => []TypeOK
<1>1. IInv => TypeOK
  BY DEF IInv
<1> QED
  BY <1>1, Invariant, PTL

(* The initialised flag of a policy always tells whether it has file names: *)
(* rollingfile_open, which decides by it, never rolls over without them.    *)
THEOREM FlagCorrect == Spec => []FlagTellsNames
<1>1. IInv => FlagTellsNames
  BY DEF IInv
<1> QED
  BY <1>1, Invariant, PTL

-----------------------------------------------------------------------------
(***************************************************************************)
(* What relates the objects to the elements that were read, for any        *)
(* configurations, rereads and calls: which uses of the library follow a   *)
(* NULL, where an appender logs to, and that log4c_fini leaves no stream   *)
(* open.  The invariant ties each pointer to the element that set it, and  *)
(* each stream to the open appender that holds it.                         *)
(***************************************************************************)
Named(a, p) == \E i \in DOMAIN loaded : loaded[i].appender = a /\ loaded[i].policy = p

\* How many elements have been loaded.
Done == Len(loaded) - Len(todo)

Alone(x, p) == x.policy = p /\ x.appender = "none"

OffInv == pc = "off" => /\ \A a \in Appenders : app[a] = NoApp
                        /\ \A p \in Policies : pol[p] = NoPol

CurInv == /\ pc \in {"open", "write"} => app[cur].type = "rollingfile"
          /\ pc = "write" => app[cur].isopen = 1
          /\ fault # "none" => pc # "off"

\* No two appenders have the same user data.
OwnInv == \A a \in Appenders :
            /\ app[a].type = "none" => app[a] = NoApp
            /\ app[a].udata <= made
            /\ \A b \in Appenders :
                 a # b /\ app[a].udata = app[b].udata => app[a].udata = Null

\* What is still to be loaded is the end of what was read.
TodoInv == /\ Len(todo) <= Len(loaded)
           /\ \A j \in 1..Len(todo) : todo[j] = loaded[Done + j]
           /\ pc # "load" => todo = << >>

NamedInv == \A a \in Appenders :
  /\ \A p \in Policies :
       app[a].udata # Null /\ rf[app[a].udata].policy = p => Named(a, p)
  /\ app[a].type = "rollingfile" /\ app[a].udata = Null => Named(a, NoPolicy)

\* No appender element has named a policy that knows no appender.
PolInv == pc # "off" => \A p \in Policies : pol[p].rf = Null =>
  /\ pol[p].sw \in {Nothing, Bare}
  /\ \A n \in 1..Done : ~Names(n, p)
  /\ pol[p].sw = Bare => \E n \in 1..Done : Alone(loaded[n], p)

OpenInv == \A a \in Appenders : app[a].isopen = 1 /\ app[a].udata # Null =>
  LET r == rf[app[a].udata]
  IN  /\ r.fp = Null => "reread" \in did
      /\ pc # "fini" /\ r.policy # NoPolicy /\ pol[r.policy].sw = Nothing
           => "close" \in did /\ PolicyShared

DirsInv == \A a \in Appenders :
             app[a].udata # Null /\ rf[app[a].udata].dirs = 0 => "close" \in did

\* Every stream is held by an open appender.
HeldInv == "reread" \notin did => \A r \in Udata : rf[r].fp # Null =>
             \E a \in Appenders : app[a].udata = r /\ app[a].isopen = 1

\* A policy of one appender has the file names of no other.
AloneInv == ~PolicyShared => \A a \in Appenders :
  LET u == app[a].udata
      p == pol[rf[u].policy]
  IN  u # Null /\ rf[u].policy # NoPolicy => p.rf = u /\ p.sw \in {Nothing, Bare, u}

PointersInv == OffInv /\ CurInv /\ OwnInv /\ TodoInv
CausesInv   == NamedInv /\ PolInv /\ OpenInv /\ DirsInv
StreamsInv  == HeldInv /\ AloneInv /\ LogsToItsDirectory

HInv == IInv /\ PointersInv /\ CausesInv /\ StreamsInv

USE DEF PolType, AppType, RfType

\* Two appenders named for one policy share it.
LEMMA SharedNames ==
  ASSUME NEW a \in Appenders, NEW b \in Appenders, a # b, NEW p \in Policies,
         Named(a, p), Named(b, p)
  PROVE  PolicyShared
<1>1. PICK i \in DOMAIN loaded : loaded[i].appender = a /\ loaded[i].policy = p
  BY DEF Named
<1>2. PICK j \in DOMAIN loaded : loaded[j].appender = b /\ loaded[j].policy = p
  BY DEF Named
<1> QED
  BY <1>1, <1>2, NamesAssumption DEF PolicyShared, Names

LEMMA SharedNamesNext ==
  ASSUME NEW a \in Appenders, NEW b \in Appenders, a # b, NEW p \in Policies,
         Named(a, p)', Named(b, p)'
  PROVE  PolicyShared'
<1>1. PICK i \in DOMAIN loaded' : loaded'[i].appender = a /\ loaded'[i].policy = p
  BY DEF Named
<1>2. PICK j \in DOMAIN loaded' : loaded'[j].appender = b /\ loaded'[j].policy = p
  BY DEF Named
<1> QED
  BY <1>1, <1>2, NamesAssumption DEF PolicyShared, Names

\* What has been named stays named when more is read.
LEMMA NamesStay ==
  ASSUME TypeOK, NEW s \in Seq(Element), loaded' = loaded \o s
  PROVE  /\ Len(loaded') = Len(loaded) + Len(s)
         /\ \A i \in DOMAIN loaded : i \in DOMAIN loaded' /\ loaded'[i] = loaded[i]
         /\ \A j \in 1..Len(s) : loaded'[Len(loaded) + j] = s[j]
         /\ \A a, p : Named(a, p) => Named(a, p)'
         /\ PolicyShared => PolicyShared'
<1>1. loaded \in Seq(Element)
  BY DEF TypeOK
<1>2. /\ Len(loaded') = Len(loaded) + Len(s)
      /\ \A i \in DOMAIN loaded : i \in DOMAIN loaded' /\ loaded'[i] = loaded[i]
      /\ \A j \in 1..Len(s) : loaded'[Len(loaded) + j] = s[j]
  BY <1>1
<1>3. \A a, p : Named(a, p) => Named(a, p)'
  BY <1>2, Zenon DEF Named
<1>4. PolicyShared => PolicyShared'
  <2>1. SUFFICES ASSUME NEW i \in DOMAIN loaded, NEW j \in DOMAIN loaded, NEW p \in Policies,
                        Names(i, p), Names(j, p), loaded[i].appender # loaded[j].appender
                 PROVE  PolicyShared'
    BY Zenon DEF PolicyShared
  <2>2. Names(i, p)' /\ Names(j, p)' /\ loaded'[i].appender # loaded'[j].appender
    BY <1>2, <2>1 DEF Names
  <2> QED
    BY <1>2, <2>2, Zenon DEF PolicyShared
<1> QED
  BY <1>2, <1>3, <1>4

LEMMA InitHInv == Init => HInv
<1> SUFFICES ASSUME Init PROVE HInv
  OBVIOUS
<1>1. IInv
  BY InitTyped DEF IInv
<1>2. PointersInv
  BY BoundsAssumption DEF Init, PointersInv, OffInv, CurInv, OwnInv, TodoInv, Done, NoApp, Null
<1>3. CausesInv
  BY DEF Init, CausesInv, NamedInv, PolInv, OpenInv, DirsInv, NoApp
<1>4. StreamsInv
  BY DEF Init, StreamsInv, HeldInv, AloneInv, LogsToItsDirectory, NoApp, NoRf
<1> QED
  BY <1>1, <1>2, <1>3, <1>4 DEF HInv

-----------------------------------------------------------------------------
(* The steps that leave the objects as they are.                            *)

LEMMA FaultHInv == ASSUME HInv, NEW f \in Faults, pc # "off", Fault(f) PROVE HInv'
<1>1. IInv'
  BY FaultIInv DEF HInv
<1>2. PointersInv'
  BY DEF HInv, PointersInv, OffInv, CurInv, OwnInv, TodoInv, Done, Fault
<1>3. CausesInv'
  BY DEF HInv, CausesInv, NamedInv, PolInv, OpenInv, DirsInv, Named, Done, PolicyShared, Names,
     Fault
<1>4. StreamsInv'
  BY DEF HInv, StreamsInv, HeldInv, AloneInv, LogsToItsDirectory, PolicyShared, Names, Fault
<1> QED
  BY <1>1, <1>2, <1>3, <1>4 DEF HInv

LEMMA StutterHInv == ASSUME HInv, UNCHANGED vars PROVE HInv'
BY DEF vars, HInv, IInv, TypeOK, FlagTellsNames, PointersInv, OffInv, CurInv, OwnInv, TodoInv,
   CausesInv, NamedInv, PolInv, OpenInv, DirsInv, StreamsInv, HeldInv, AloneInv,
   LogsToItsDirectory, Named, Done, PolicyShared, Names

LEMMA BeginHInv == ASSUME HInv, NEW text \in Texts, Begin(text) PROVE HInv'
<1>1. IInv'
  BY BeginIInv DEF HInv
<1>2. /\ \A a \in Appenders : app[a] = NoApp
      /\ \A p \in Policies : pol[p] = NoPol
      /\ pc' = "load" /\ todo' = text /\ loaded' = text /\ did' = did \cap {"reread"}
      /\ UNCHANGED <<app, rf, pol, made, cur, fault>>
  BY DEF HInv, PointersInv, OffInv, Begin
<1>3. text \in Seq(Element)
  BY TextsAssumption
<1>4. PointersInv'
  BY <1>2, <1>3 DEF HInv, PointersInv, OffInv, CurInv, OwnInv, TodoInv, Done
<1>5. CausesInv'
  <2>1. Done' = 0
    BY <1>2, <1>3 DEF Done
  <2> QED
    BY <1>2, <2>1 DEF HInv, CausesInv, NamedInv, PolInv, OpenInv, DirsInv, NoApp, NoPol, Nothing,
       Bare
<1>6. StreamsInv'
  BY <1>2 DEF HInv, StreamsInv, HeldInv, AloneInv, LogsToItsDirectory, NoApp
<1> QED
  BY <1>1, <1>4, <1>5, <1>6 DEF HInv

LEMMA RereadHInv == ASSUME HInv, NEW text \in Rereads, Reread(text) PROVE HInv'
<1>1. IInv'
  BY RereadIInv DEF HInv
<1>2. text \in Seq(Element) /\ loaded \in Seq(Element)
  BY TextsAssumption DEF HInv, IInv, TypeOK
<1>3. /\ pc = "up" /\ pc' = "load" /\ todo = << >> /\ todo' = text
      /\ loaded' = loaded \o text
      /\ UNCHANGED <<app, rf, pol, made, cur, fault, did>>
  BY DEF HInv, PointersInv, TodoInv, Reread
<1>4. /\ Len(loaded') = Len(loaded) + Len(text)
      /\ \A i \in DOMAIN loaded : i \in DOMAIN loaded' /\ loaded'[i] = loaded[i]
      /\ \A j \in 1..Len(text) : loaded'[Len(loaded) + j] = text[j]
      /\ \A a, p : Named(a, p) => Named(a, p)'
      /\ PolicyShared => PolicyShared'
  BY <1>2, <1>3, NamesStay DEF HInv, IInv
<1>5. Done = Len(loaded) /\ Done' = Len(loaded)
  BY <1>2, <1>3, <1>4 DEF Done
<1>6. PointersInv'
  BY <1>2, <1>3, <1>4, <1>5 DEF HInv, PointersInv, OffInv, CurInv, OwnInv, TodoInv
<1>7. CausesInv'
  <2>1. NamedInv'
    BY <1>3, <1>4 DEF HInv, CausesInv, NamedInv
  <2>2. PolInv'
    <3>1. \A n \in 1..Done : loaded'[n] = loaded[n]
      BY <1>2, <1>4, <1>5
    <3> QED
      BY <1>3, <1>5, <3>1 DEF HInv, CausesInv, PolInv, Names
  <2>3. OpenInv' /\ DirsInv'
    BY <1>3, <1>4 DEF HInv, CausesInv, OpenInv, DirsInv
  <2> QED
    BY <2>1, <2>2, <2>3 DEF CausesInv
<1>8. StreamsInv'
  BY <1>3, <1>4 DEF HInv, StreamsInv, HeldInv, AloneInv, LogsToItsDirectory
<1> QED
  BY <1>1, <1>6, <1>7, <1>8 DEF HInv

\* LoadDone, log4c_appender_append and log4c_fini only move on.
LEMMA MoveHInv ==
  ASSUME HInv, IInv', pc # "off", todo = << >>,
         UNCHANGED <<app, rf, pol, made, todo, inits, fault, loaded, did>>,
         \/ pc' \in {"up", "fini"} /\ pc # "fini"
         \/ pc' = "open" /\ pc = "up" /\ app[cur'].type = "rollingfile"
         \/ pc' = "write" /\ pc = "up" /\ app[cur'].type = "rollingfile" /\ app[cur'].isopen = 1
  PROVE  HInv'
<1>1. PointersInv'
  BY DEF HInv, PointersInv, OffInv, CurInv, OwnInv, TodoInv, Done
<1>2. CausesInv'
  BY DEF HInv, CausesInv, NamedInv, PolInv, OpenInv, DirsInv, Named, Done, PolicyShared, Names
<1>3. StreamsInv'
  BY DEF HInv, StreamsInv, HeldInv, AloneInv, LogsToItsDirectory, PolicyShared, Names
<1> QED
  BY <1>1, <1>2, <1>3 DEF HInv

-----------------------------------------------------------------------------
(* The steps that load an element.                                          *)

\* The element at the head of the list is the next of those read.
LEMMA NextElement ==
  ASSUME HInv, NEW e \in Element, Loads(e), todo' = Tail(todo), loaded' = loaded
  PROVE  /\ Done \in Nat /\ Done' = Done + 1 /\ Done' \in DOMAIN loaded
         /\ loaded[Done'] = e
         /\ Len(todo') <= Len(loaded)
         /\ \A j \in 1..Len(todo') : todo'[j] = loaded[Done' + j]
         /\ Named(e.appender, e.policy)
<1>1. todo \in Seq(Element) /\ loaded \in Seq(Element) /\ todo # << >> /\ e = todo[1]
  BY DEF HInv, IInv, TypeOK, Loads
<1>2. Len(todo) <= Len(loaded) /\ \A j \in 1..Len(todo) : todo[j] = loaded[Done + j]
  BY DEF HInv, PointersInv, TodoInv
<1>3. Len(todo) \in Nat \ {0} /\ Len(loaded) \in Nat
  BY <1>1
<1>4. Len(todo') = Len(todo) - 1 /\ \A j \in 1..Len(todo') : todo'[j] = todo[j + 1]
  BY <1>1
<1>5. Done \in Nat /\ Done' = Done + 1 /\ Done' \in 1..Len(loaded)
  BY <1>2, <1>3, <1>4 DEF Done
<1>6. Done' \in DOMAIN loaded /\ loaded[Done'] = e
  BY <1>1, <1>2, <1>3, <1>5, SMTT(30)
<1>7. \A j \in 1..Len(todo') : todo'[j] = loaded[Done' + j]
  <2> SUFFICES ASSUME NEW j \in 1..Len(todo') PROVE todo'[j] = loaded[Done' + j]
    OBVIOUS
  <2>1. j + 1 \in 1..Len(todo) /\ Done' + j = Done + (j + 1)
    BY <1>3, <1>4, <1>5
  <2> QED
    BY <1>2, <1>4, <2>1
<1>8. Named(e.appender, e.policy)
  BY <1>6 DEF Named
<1> QED
  BY <1>2, <1>3, <1>4, <1>5, <1>6, <1>7, <1>8

\* A policy that knows no appender, and comes twice, has been named by none.
LEMMA TwiceHasCause ==
  ASSUME HInv, NEW e \in Element, Loads(e), e.appender = "none",
         pol[e.policy].sw # Nothing, pol[e.policy].rf = Null
  PROVE  PolicyTwice
<1>1. todo \in Seq(Element) /\ loaded \in Seq(Element) /\ todo # << >> /\ e = todo[1]
  BY DEF HInv, IInv, TypeOK, Loads
<1>2. Len(todo) \in Nat \ {0} /\ Len(loaded) \in Nat /\ Len(todo) <= Len(loaded)
  BY <1>1 DEF HInv, PointersInv, TodoInv
<1>3. todo[1] = loaded[Done + 1] /\ Done \in Nat /\ Done + 1 \in 1..Len(loaded)
  BY <1>2 DEF HInv, PointersInv, TodoInv, Done
<1>4. e.policy \in Policies /\ Alone(e, e.policy)
  BY NamesAssumption DEF Element, Alone
<1>5. /\ \A n \in 1..Done : ~Names(n, e.policy)
      /\ \E n \in 1..Done : Alone(loaded[n], e.policy)
  BY <1>4 DEF HInv, CausesInv, PolInv, Loads
<1>6. PICK i \in 1..Done : Alone(loaded[i], e.policy)
  BY <1>5
<1>7. \A k \in 1..(Done + 1) : ~Names(k, e.policy)
  BY <1>1, <1>3, <1>5 DEF Names
<1>8. i \in DOMAIN loaded /\ Done + 1 \in DOMAIN loaded /\ i < Done + 1
  BY <1>1, <1>3, <1>6
<1>9. Describes(i, e.policy) /\ Describes(Done + 1, e.policy)
  BY <1>1, <1>3, <1>4, <1>6 DEF Describes, Alone
<1> QED
  BY <1>4, <1>7, <1>8, <1>9 DEF PolicyTwice

LEMMA LoadPolicyHInv ==
  ASSUME HInv, NEW e \in Element, LoadPolicy(e) PROVE HInv'
<1> DEFINE p == pol[e.policy]
<1>1. IInv'
  BY LoadPolicyIInv DEF HInv
<1>2. e.policy \in Policies /\ p \in PolType /\ Alone(e, e.policy) /\ e.appender = "none"
  BY NamesAssumption DEF LoadPolicy, Element, Alone, HInv, IInv, TypeOK
<1> DEFINE bad == ~e.sizes \/ (p.sw # Nothing /\ (p.rf = Null \/ rf[p.rf].dirs = 0))
<1>3. CASE bad
  <2>1. Fault("attributes") \/ Fault("rfudata") \/ Fault("logdir")
    BY <1>3, Zenon DEF LoadPolicy
  <2> QED
    BY <2>1, FaultHInv DEF LoadPolicy, Loads, Faults
<1>4. CASE ~bad
  <2> DEFINE after == IF p.sw = Nothing THEN [p EXCEPT !.sw = Bare] ELSE Initialized(p, p.rf)
  <2>1. /\ pol' = [pol EXCEPT ![e.policy] = after] /\ todo' = Tail(todo)
        /\ UNCHANGED <<app, rf, made, pc, cur, inits, fault, loaded, did>>
        /\ Loads(e) /\ pc = "load"
    BY <1>4 DEF LoadPolicy, Loads
  <2>2. /\ Done \in Nat /\ Done' = Done + 1 /\ Done' \in DOMAIN loaded /\ loaded[Done'] = e
        /\ Len(todo') <= Len(loaded)
        /\ \A j \in 1..Len(todo') : todo'[j] = loaded[Done' + j]
    BY <2>1, NextElement
  <2>3. /\ after.rf = p.rf /\ after.sw # Nothing
        /\ p.sw = Nothing => after.sw = Bare
        /\ p.sw # Nothing => after.sw = p.rf /\ p.rf # Null
    BY <1>2, <1>4, UdataNumbers DEF Initialized, Bare, Nothing
  <2>4. \A q \in Policies : pol'[q] = IF q = e.policy THEN after ELSE pol[q]
    BY <1>2, <2>1 DEF HInv, IInv, TypeOK
  <2> HIDE DEF after
  <2>5. PointersInv'
    BY <2>1, <2>2 DEF HInv, PointersInv, OffInv, CurInv, OwnInv, TodoInv
  <2>6. CausesInv'
    <3>1. NamedInv' /\ DirsInv'
      BY <2>1 DEF HInv, CausesInv, NamedInv, DirsInv, Named
    <3>2. PolInv'
      <4> SUFFICES ASSUME NEW q \in Policies, pol'[q].rf = Null
                   PROVE  /\ pol'[q].sw \in {Nothing, Bare}
                          /\ \A n \in 1..Done' : ~Names(n, q)
                          /\ pol'[q].sw = Bare => \E n \in 1..Done' : Alone(loaded[n], q)
        BY <2>1 DEF PolInv, Names
      <4>1. /\ pol[q].rf = Null
            /\ pol[q].sw \in {Nothing, Bare}
            /\ \A n \in 1..Done : ~Names(n, q)
            /\ pol[q].sw = Bare => \E n \in 1..Done : Alone(loaded[n], q)
        BY <2>1, <2>3, <2>4 DEF HInv, CausesInv, PolInv
      <4>2. \A n \in 1..Done' : ~Names(n, q)
        BY <1>2, <2>2, <4>1 DEF Names
      <4>3. \A n \in 1..Done : n \in 1..Done'
        BY <2>2
      <4>4. CASE q = e.policy
        BY <1>2, <2>2, <2>3, <2>4, <4>1, <4>2, <4>4
      <4>5. CASE q # e.policy
        BY <2>4, <4>1, <4>2, <4>3, <4>5
      <4> QED
        BY <4>4, <4>5
    <3>3. OpenInv'
      <4>1. \A a \in Appenders : app[a].udata # Null => rf[app[a].udata].policy \in Policies \cup {NoPolicy}
        BY DEF HInv, IInv, TypeOK
      <4> QED
        BY <2>1, <2>3, <2>4, <4>1 DEF HInv, CausesInv, OpenInv, PolicyShared, Names
    <3> QED
      BY <3>1, <3>2, <3>3 DEF CausesInv
  <2>7. StreamsInv'
    <3>1. AloneInv'
      <4> SUFFICES ASSUME ~PolicyShared, NEW a \in Appenders, app[a].udata # Null,
                          rf[app[a].udata].policy # NoPolicy
                   PROVE  /\ pol'[rf[app[a].udata].policy].rf = app[a].udata
                          /\ pol'[rf[app[a].udata].policy].sw \in {Nothing, Bare, app[a].udata}
        BY <2>1 DEF AloneInv, PolicyShared, Names
      <4>1. rf[app[a].udata].policy \in Policies
        BY DEF HInv, IInv, TypeOK
      <4>2. /\ pol[rf[app[a].udata].policy].rf = app[a].udata
            /\ pol[rf[app[a].udata].policy].sw \in {Nothing, Bare, app[a].udata}
        BY DEF HInv, StreamsInv, AloneInv
      <4> QED
        BY <2>3, <2>4, <4>1, <4>2
    <3>2. HeldInv' /\ LogsToItsDirectory'
      BY <2>1 DEF HInv, StreamsInv, HeldInv, LogsToItsDirectory, PolicyShared, Names
    <3> QED
      BY <3>1, <3>2 DEF StreamsInv
  <2> QED
    BY <1>1, <2>5, <2>6, <2>7 DEF HInv
<1> QED
  BY <1>3, <1>4

\* An appender gets new user data, or keeps what it has without a policy.
LEMMA GivenHInv ==
  ASSUME HInv, NEW a \in Appenders, NEW q \in Policies \cup {NoPolicy}, NEW r \in Udata,
         NEW u \in {r, app[a].udata},
         r = made + 1, made' = r, pc # "off", pc' = pc, cur' = cur, fault' = fault,
         pc = "load" \/ app[a].isopen = 0,
         rf' = [rf EXCEPT ![r] = [fp |-> Null, dirs |-> 1, policy |-> q]],
         app' = [app EXCEPT ![a] = Typed(@, u)],
         u # r => q = NoPolicy,
         pol' = IF q = NoPolicy THEN pol ELSE [pol EXCEPT ![q] = Initialized(@, r)],
         (u = r /\ q = NoPolicy) \/ Named(a, q)',
         \A b \in Appenders, p \in Policies \cup {NoPolicy} : Named(b, p) => Named(b, p)',
         PolicyShared => PolicyShared',
         did \subseteq did', app[a].isopen = 1 => "reread" \in did'
  PROVE  OffInv' /\ CurInv' /\ OwnInv' /\ NamedInv' /\ OpenInv' /\ DirsInv' /\ StreamsInv'
<1>1. /\ made \in Nat /\ Null # r /\ r \notin 0..made
      /\ app \in [Appenders -> AppType] /\ rf \in [Udata -> RfType] /\ pol \in [Policies -> PolType]
      /\ \A b \in Appenders :
           app[b].udata # r /\ app[b].udata \in Nat /\ app[b].udata <= made
  BY UdataNumbers DEF HInv, IInv, TypeOK, PointersInv, OwnInv, Udata, Null
<1>2. /\ \A b \in Appenders : b # a => app'[b] = app[b]
      /\ app'[a] = [type |-> "rollingfile", isopen |-> app[a].isopen, udata |-> u]
  BY <1>1 DEF Typed
<1>3. /\ rf'[r] = [fp |-> Null, dirs |-> 1, policy |-> q]
      /\ \A v \in Udata : v # r => rf'[v] = rf[v]
  BY <1>1
<1>4. /\ \A p \in Policies : p # q => pol'[p] = pol[p]
      /\ q # NoPolicy => q \in Policies /\ pol'[q] = [init |-> 1, sw |-> r, rf |-> r]
  BY <1>1, ZenonT(40) DEF Initialized
<1>5. \A b \in Appenders : app[b].udata # Null =>
        /\ app[b].udata \in Udata /\ rf'[app[b].udata] = rf[app[b].udata]
        /\ rf[app[b].udata].policy \in Policies \cup {NoPolicy}
  BY <1>1, <1>3
<1>6. OffInv' /\ CurInv'
  BY <1>2 DEF HInv, PointersInv, OffInv, CurInv
<1>7. OwnInv'
  <2>1. \A b \in Appenders : app'[b].type = "none" => app'[b] = NoApp
    BY <1>2 DEF HInv, PointersInv, OwnInv
  <2>2. \A b \in Appenders : app'[b].udata <= made'
    BY <1>1, <1>2
  <2>3. \A b, c \in Appenders : b # c /\ app'[b].udata = app'[c].udata => app'[b].udata = Null
    <3>1. \A b, c \in Appenders : b # c /\ app[b].udata = app[c].udata => app[b].udata = Null
      BY DEF HInv, PointersInv, OwnInv
    <3>2. u = r \/ u = app[a].udata
      OBVIOUS
    <3> QED
      BY <1>1, <1>2, <3>1, <3>2
  <2> QED
    BY <2>1, <2>2, <2>3 DEF OwnInv
<1>8. NamedInv'
  <2> SUFFICES ASSUME NEW b \in Appenders
               PROVE  /\ \A p \in Policies :
                           app'[b].udata # Null /\ rf'[app'[b].udata].policy = p => Named(b, p)'
                      /\ app'[b].type = "rollingfile" /\ app'[b].udata = Null
                           => Named(b, NoPolicy)'
    BY DEF NamedInv
  <2>1. CASE b = a /\ u = r
    BY <1>1, <1>2, <1>3, <2>1, NamesAssumption
  <2>2. CASE app'[b].udata = app[b].udata /\ b = a /\ u # r
    <3>1. \A p \in Policies : app[b].udata # Null /\ rf[app[b].udata].policy = p => Named(b, p)
      BY DEF HInv, CausesInv, NamedInv
    <3> QED
      BY <1>5, <2>2, <3>1
  <2>3. CASE b # a
    <3>1. /\ \A p \in Policies :
                app[b].udata # Null /\ rf[app[b].udata].policy = p => Named(b, p)
          /\ app[b].type = "rollingfile" /\ app[b].udata = Null => Named(b, NoPolicy)
      BY DEF HInv, CausesInv, NamedInv
    <3> QED
      BY <1>2, <1>5, <2>3, <3>1
  <2>4. u = r \/ u = app[a].udata
    OBVIOUS
  <2> QED
    BY <1>2, <2>1, <2>2, <2>3, <2>4
<1>9. OpenInv'
  <2> SUFFICES ASSUME NEW b \in Appenders, app'[b].isopen = 1, app'[b].udata # Null
               PROVE  LET x == rf'[app'[b].udata]
                      IN  /\ x.fp = Null => "reread" \in did'
                          /\ pc' # "fini" /\ x.policy # NoPolicy /\ pol'[x.policy].sw = Nothing
                               => "close" \in did' /\ PolicyShared'
    BY DEF OpenInv
  <2>1. CASE b = a /\ u = r
    BY <1>1, <1>2, <1>3, <1>4, <2>1, UdataNumbers
  <2>2. (app'[b].udata = app[b].udata /\ app[b].isopen = 1) \/ (b = a /\ u = r)
    <3>1. CASE b # a
      BY <1>2, <3>1
    <3>2. CASE b = a
      <4>1. app'[a].udata = u /\ app'[a].isopen = app[a].isopen
        BY <1>2
      <4> QED
        BY <3>2, <4>1
    <3> QED
      BY <3>1, <3>2
  <2>3. CASE app'[b].udata = app[b].udata /\ app[b].isopen = 1
    <3>1. pol'[rf[app[b].udata].policy].sw = Nothing /\ rf[app[b].udata].policy # NoPolicy
            => pol[rf[app[b].udata].policy].sw = Nothing
      BY <1>4, <1>5, <2>3, UdataNumbers
    <3> QED
      BY <1>5, <2>3, <3>1 DEF HInv, CausesInv, OpenInv
  <2> QED
    BY <2>1, <2>2, <2>3
<1>10. DirsInv'
  BY <1>1, <1>2, <1>3, <1>5 DEF HInv, CausesInv, DirsInv
<1>11. HeldInv'
  <2> SUFFICES ASSUME "reread" \notin did', NEW v \in Udata, rf'[v].fp # Null
               PROVE  \E b \in Appenders : app'[b].udata = v /\ app'[b].isopen = 1
    BY DEF HeldInv
  <2>1. v # r /\ rf[v].fp # Null
    BY <1>3
  <2>2. PICK b \in Appenders : app[b].udata = v /\ app[b].isopen = 1
    BY <2>1 DEF HInv, StreamsInv, HeldInv
  <2> QED
    BY <1>2, <2>2
<1>12. AloneInv'
  <2> SUFFICES ASSUME ~PolicyShared', NEW b \in Appenders, app'[b].udata # Null,
                      rf'[app'[b].udata].policy # NoPolicy
               PROVE  LET v == app'[b].udata
                          p == pol'[rf'[v].policy]
                      IN  p.rf = v /\ p.sw \in {Nothing, Bare, v}
    BY DEF AloneInv
  <2>1. CASE b = a /\ u = r
    BY <1>2, <1>3, <1>4, <2>1
  <2>2. app'[b].udata = app[b].udata \/ (b = a /\ u = r)
    <3>1. CASE b # a
      BY <1>2, <3>1
    <3>2. CASE b = a
      <4>1. app'[a].udata = u /\ app'[a].isopen = app[a].isopen
        BY <1>2
      <4> QED
        BY <3>2, <4>1
    <3> QED
      BY <3>1, <3>2
  <2>3. CASE app'[b].udata = app[b].udata /\ ~(b = a /\ u = r)
    <3> DEFINE p == rf[app[b].udata].policy
    <3>1. p \in Policies /\ rf'[app'[b].udata].policy = p
      BY <1>5, <2>3
    <3>2. pol[p].rf = app[b].udata /\ pol[p].sw \in {Nothing, Bare, app[b].udata}
      BY <2>3, <3>1 DEF HInv, StreamsInv, AloneInv
    <3>3. Named(b, p)'
      BY <2>3, <3>1 DEF HInv, CausesInv, NamedInv
    <3>4. p # q
      <4>1. CASE b = a
        BY <2>3, <3>1, <4>1, NamesAssumption
      <4>2. CASE b # a /\ p = q
        <5>1. Named(a, p)'
          BY <3>1, <4>2, NamesAssumption
        <5> QED
          BY <3>1, <3>3, <4>2, <5>1, SharedNamesNext
      <4> QED
        BY <4>1, <4>2
    <3> QED
      BY <1>4, <2>3, <3>1, <3>2, <3>4
  <2> QED
    BY <2>1, <2>2, <2>3
<1>13. LogsToItsDirectory'
  <2> SUFFICES ASSUME ~PolicyShared', NEW b \in Appenders, app'[b].udata # Null
               PROVE  rf'[app'[b].udata].fp \in {Null, app'[b].udata}
    BY DEF LogsToItsDirectory
  <2>1. app'[b].udata = r \/ app'[b].udata = app[b].udata
    BY <1>2
  <2> QED
    BY <1>3, <1>5, <2>1 DEF HInv, StreamsInv, LogsToItsDirectory
<1> QED
  BY <1>6, <1>7, <1>8, <1>9, <1>10, <1>11, <1>12, <1>13 DEF StreamsInv

LEMMA LoadAppenderHInv ==
  ASSUME HInv, NEW e \in Element, LoadAppender(e) PROVE HInv'
<1> DEFINE a == e.appender
           q == e.policy
           r == made + 1
           u == IF q = NoPolicy THEN app[a].udata ELSE r
<1>1. IInv'
  BY LoadAppenderIInv DEF HInv
<1>2. a \in Appenders /\ q \in Policies \cup {NoPolicy}
  BY DEF LoadAppender, Element
<1>3. r \in Udata /\ made' = r /\ u \in {r, app[a].udata}
  <2>1. made \in 0..MaxUdata /\ made < MaxUdata /\ made' = r
    BY DEF HInv, IInv, TypeOK, LoadAppender
  <2> QED
    BY <2>1, UdataNumbers
<1>4. /\ rf' = [rf EXCEPT ![r] = [fp |-> Null, dirs |-> 1, policy |-> q]]
      /\ app' = [app EXCEPT ![a] = Typed(@, u)]
      /\ pol' = IF q = NoPolicy THEN pol ELSE [pol EXCEPT ![q] = Initialized(@, r)]
      /\ did \subseteq did' /\ (app[a].isopen = 1 => "reread" \in did')
      /\ Loads(e) /\ pc = "load" /\ todo' = Tail(todo)
      /\ UNCHANGED <<pc, cur, inits, fault, loaded>>
  BY <1>3 DEF LoadAppender, Loads
<1>5. /\ Done \in Nat /\ Done' = Done + 1 /\ Done' \in DOMAIN loaded /\ loaded[Done'] = e
      /\ Len(todo') <= Len(loaded)
      /\ \A j \in 1..Len(todo') : todo'[j] = loaded[Done' + j]
      /\ Named(a, q)
  BY <1>4, NextElement
<1>6. \A b, p : Named(b, p) <=> Named(b, p)'
  BY <1>4 DEF Named
<1>7. PolicyShared' = PolicyShared
  BY <1>4 DEF PolicyShared, Names
<1>8. OffInv' /\ CurInv' /\ OwnInv' /\ NamedInv' /\ OpenInv' /\ DirsInv' /\ StreamsInv'
  <2>1. u # r => q = NoPolicy
    OBVIOUS
  <2> HIDE DEF u, r
  <2> QED
    BY <1>2, <1>3, <1>4, <1>5, <1>6, <1>7, <2>1, GivenHInv DEF r
<1>9. TodoInv'
  BY <1>4, <1>5 DEF TodoInv
<1>10. PolInv'
  <2> SUFFICES ASSUME NEW p \in Policies, pol'[p].rf = Null
               PROVE  /\ pol'[p].sw \in {Nothing, Bare}
                      /\ \A n \in 1..Done' : ~Names(n, p)
                      /\ pol'[p].sw = Bare => \E n \in 1..Done' : Alone(loaded[n], p)
    BY <1>4 DEF PolInv, Names
  <2>1. q # p /\ pol'[p] = pol[p]
    <3>1. CASE q = NoPolicy
      BY <1>4, <3>1, NamesAssumption
    <3>2. CASE q # NoPolicy
      BY <1>2, <1>3, <1>4, <3>2, UdataNumbers DEF HInv, IInv, TypeOK, Initialized
    <3> QED
      BY <3>1, <3>2
  <2>2. /\ pol[p].sw \in {Nothing, Bare}
        /\ \A n \in 1..Done : ~Names(n, p)
        /\ pol[p].sw = Bare => \E n \in 1..Done : Alone(loaded[n], p)
    BY <1>4, <2>1 DEF HInv, CausesInv, PolInv
  <2>3. \A n \in 1..Done' : n \in 1..Done \/ n = Done'
    BY <1>5
  <2>4. \A n \in 1..Done' : ~Names(n, p)
    BY <1>5, <2>1, <2>2, <2>3 DEF Names
  <2>5. \A n \in 1..Done : n \in 1..Done'
    BY <1>5
  <2> QED
    BY <2>1, <2>2, <2>4, <2>5
<1> QED
  BY <1>1, <1>8, <1>9, <1>10 DEF HInv, PointersInv, CausesInv

LEMMA ConfigureHInv ==
  ASSUME HInv, NEW a \in Appenders, NEW q \in Policies \cup {NoPolicy}, Configure(a, q)
  PROVE  HInv'
<1> DEFINE r == made + 1
           x == [policy |-> q, appender |-> a]
           s == IF q = NoPolicy THEN << >> ELSE << x >>
<1>1. IInv'
  BY ConfigureIInv DEF HInv
<1>2. r \in Udata /\ made' = r
  <2>1. made \in 0..MaxUdata /\ made < MaxUdata /\ made' = r
    BY DEF HInv, IInv, TypeOK, Configure
  <2> QED
    BY <2>1, UdataNumbers
<1>3. /\ rf' = [rf EXCEPT ![r] = [fp |-> Null, dirs |-> 1, policy |-> q]]
      /\ app' = [app EXCEPT ![a] = Typed(@, r)]
      /\ pol' = IF q = NoPolicy THEN pol ELSE [pol EXCEPT ![q] = Initialized(@, r)]
      /\ pc = "up" /\ app[a].isopen = 0
      /\ UNCHANGED <<pc, todo, cur, inits, fault, did>>
  BY <1>2 DEF Configure
<1>4. todo = << >> /\ loaded \in Seq(Element) /\ s \in Seq(Element)
  <2>1. q # NoPolicy => x \in Element
    BY DEF Element
  <2>2. s \in Seq(Element)
    BY <2>1
  <2> QED
    BY <1>3, <2>2 DEF HInv, PointersInv, TodoInv, IInv, TypeOK
<1>5. loaded' = loaded \o s
  <2>1. CASE q = NoPolicy
    BY <1>4, <2>1 DEF Configure
  <2>2. CASE q # NoPolicy
    <3>1. loaded' = Append(loaded, x)
      BY <2>2, Zenon DEF Configure
    <3> QED
      BY <1>4, <2>2, <3>1
  <2> QED
    BY <2>1, <2>2
<1> HIDE DEF r
<1>6. /\ Len(loaded') = Len(loaded) + Len(s)
      /\ \A i \in DOMAIN loaded : i \in DOMAIN loaded' /\ loaded'[i] = loaded[i]
      /\ \A j \in 1..Len(s) : loaded'[Len(loaded) + j] = s[j]
      /\ \A b, p : Named(b, p) => Named(b, p)'
      /\ PolicyShared => PolicyShared'
  <2> HIDE DEF s
  <2> QED
    BY <1>4, <1>5, NamesStay DEF HInv, IInv
<1>7. q # NoPolicy => Len(loaded) + 1 = Len(loaded') /\ loaded'[Len(loaded')] = x
  BY <1>6
<1>8. loaded' \in Seq(Element)
  BY <1>4, <1>5
<1>9. q = NoPolicy \/ Named(a, q)'
  BY <1>4, <1>7, <1>8 DEF Named
<1>10. OffInv' /\ CurInv' /\ OwnInv' /\ NamedInv' /\ OpenInv' /\ DirsInv' /\ StreamsInv'
  <2>1. r = made + 1 /\ r \in {r, app[a].udata} /\ (app[a].isopen = 1 => "reread" \in did')
    BY <1>3 DEF r
  <2>2. (r = r /\ q = NoPolicy) \/ Named(a, q)'
    BY <1>9
  <2>3. pc # "off" /\ did \subseteq did' /\ pc' = pc /\ cur' = cur /\ fault' = fault
    BY <1>3
  <2> HIDE DEF s, x
  <2> QED
    BY <1>2, <1>3, <1>6, <2>1, <2>2, <2>3, GivenHInv
<1>11. TodoInv'
  BY <1>3, <1>4, <1>8 DEF TodoInv
<1>12. PolInv'
  <2> SUFFICES ASSUME NEW p \in Policies, pol'[p].rf = Null
               PROVE  /\ pol'[p].sw \in {Nothing, Bare}
                      /\ \A n \in 1..Done' : ~Names(n, p)'
                      /\ pol'[p].sw = Bare => \E n \in 1..Done' : Alone(loaded'[n], p)
    BY DEF PolInv, Alone
  <2>1. q # p /\ pol'[p] = pol[p]
    <3>1. CASE q = NoPolicy
      BY <1>3, <3>1, NamesAssumption
    <3>2. CASE q # NoPolicy
      BY <1>2, <1>3, <3>2, UdataNumbers DEF HInv, IInv, TypeOK, Initialized
    <3> QED
      BY <3>1, <3>2
  <2>2. Done = Len(loaded) /\ Done' = Len(loaded')
    BY <1>3, <1>4, <1>8 DEF Done
  <2>3. /\ pol[p].sw \in {Nothing, Bare}
        /\ \A n \in 1..Len(loaded) : ~Names(n, p)
        /\ pol[p].sw = Bare => \E n \in 1..Len(loaded) : Alone(loaded[n], p)
    BY <1>3, <2>1, <2>2 DEF HInv, CausesInv, PolInv
  <2>4. \A n \in 1..Len(loaded) : n \in 1..Len(loaded') /\ loaded'[n] = loaded[n]
    BY <1>4, <1>6, <1>8
  <2>5. \A n \in 1..Len(loaded') : n \in 1..Len(loaded) \/ (q # NoPolicy /\ n = Len(loaded'))
    <3>1. Len(s) = IF q = NoPolicy THEN 0 ELSE 1
      OBVIOUS
    <3>2. Len(loaded') = Len(loaded) + Len(s) /\ Len(loaded) \in Nat
      BY <1>4, <1>6
    <3> HIDE DEF s
    <3> QED
      BY <3>1, <3>2
  <2>6. \A n \in 1..Len(loaded') : ~Names(n, p)'
    BY <1>7, <2>1, <2>3, <2>4, <2>5 DEF Names
  <2> QED
    BY <2>1, <2>2, <2>3, <2>4, <2>6
<1> QED
  BY <1>1, <1>10, <1>11, <1>12 DEF HInv, PointersInv, CausesInv

-----------------------------------------------------------------------------
(* The steps that open, write, close and delete.                            *)

\* What the pointers of the invariant point to.
LEMMA Typing ==
  ASSUME HInv
  PROVE  /\ app \in [Appenders -> AppType] /\ rf \in [Udata -> RfType]
         /\ pol \in [Policies -> PolType] /\ cur \in Appenders
         /\ Null \notin Udata
         /\ \A a \in Appenders : app[a].udata # Null =>
              /\ app[a].udata \in Udata
              /\ rf[app[a].udata].policy \in Policies \cup {NoPolicy}
BY UdataNumbers DEF HInv, IInv, TypeOK

LEMMA OpenDefaultHInv == ASSUME HInv, OpenDefault PROVE HInv'
<1>1. IInv'
  <2>1. IInv
    BY DEF HInv
  <2> QED
    BY <2>1, OpenedType DEF OpenDefault, IInv, TypeOK, FlagTellsNames
<1>2. /\ cur \in Appenders /\ app[cur].udata = Null /\ app[cur].type = "rollingfile"
      /\ \A b \in Appenders : b # cur => app'[b] = app[b]
      /\ app'[cur] = [type |-> "rollingfile", isopen |-> 1, udata |-> Null]
      /\ pc = "open" /\ pc' \in {"write", "up"}
      /\ UNCHANGED <<rf, pol, made, todo, cur, inits, fault, loaded, did>>
  BY Typing DEF OpenDefault, Opened, U, HInv, PointersInv, CurInv
<1>3. PointersInv'
  BY <1>2 DEF HInv, PointersInv, OffInv, CurInv, OwnInv, TodoInv, Done, Null
<1>4. CausesInv'
  <2>1. \A b, p : Named(b, p) <=> Named(b, p)'
    BY <1>2 DEF Named
  <2>2. NamedInv'
    BY <1>2, <2>1 DEF HInv, CausesInv, NamedInv
  <2>3. PolInv' /\ OpenInv' /\ DirsInv'
    BY <1>2 DEF HInv, CausesInv, PolInv, OpenInv, DirsInv, Done, PolicyShared, Names
  <2> QED
    BY <2>2, <2>3 DEF CausesInv
<1>5. StreamsInv'
  <2>1. PolicyShared' = PolicyShared
    BY <1>2 DEF PolicyShared, Names
  <2>2. HeldInv'
    <3> SUFFICES ASSUME "reread" \notin did', NEW v \in Udata, rf'[v].fp # Null
                 PROVE  \E b \in Appenders : app'[b].udata = v /\ app'[b].isopen = 1
      BY DEF HeldInv
    <3>1. PICK b \in Appenders : app[b].udata = v /\ app[b].isopen = 1
      BY <1>2 DEF HInv, StreamsInv, HeldInv
    <3> QED
      BY <1>2, <3>1, Typing
  <2> QED
    BY <1>2, <2>1, <2>2 DEF HInv, StreamsInv, AloneInv, LogsToItsDirectory
<1> QED
  BY <1>1, <1>3, <1>4, <1>5 DEF HInv

LEMMA InitializedFields ==
  ASSUME NEW p \in PolType, NEW r \in Udata
  PROVE  Initialized(p, r) = [init |-> 1, sw |-> r, rf |-> r]
<1> DEFINE i == Initialized(p, r)
<1>1. i \in PolType /\ i.init = 1 /\ i.sw = r /\ i.rf = r
  BY DEF Initialized
<1> HIDE DEF i
<1>2. i = [init |-> i.init, sw |-> i.sw, rf |-> i.rf]
  BY <1>1
<1> QED
  BY <1>1, <1>2 DEF i

\* Opening and writing give a stream to the current appender, and perhaps
\* file names to its policy.
LEMMA StreamGiven ==
  ASSUME HInv, IInv', U # Null, pc \in {"open", "write"}, pc' \in {"write", "up"}, fault = "none",
         NEW fp \in Udata,
         rf' = [rf EXCEPT ![U].fp = fp],
         app' = [app EXCEPT ![cur].isopen = 1],
         \/ pol' = pol
         \/ Rolls(U) /\ pol' = [pol EXCEPT ![rf[U].policy] = Initialized(@, U)],
         pc = "open" /\ Rolls(U) => pol'[rf[U].policy].sw \in Udata,
         UNCHANGED <<made, todo, cur, inits, fault, loaded, did>>,
         fp = U \/ (Rolls(U) /\ fp = pol'[rf[U].policy].sw)
                \/ fp = rf[U].fp
  PROVE  HInv'
<1>1. /\ U \in Udata /\ U = app[cur].udata /\ cur \in Appenders
      /\ rf[U].policy \in Policies \cup {NoPolicy} /\ app[cur].type = "rollingfile"
  BY Typing DEF U, HInv, PointersInv, CurInv
<1>2. /\ \A b \in Appenders : b # cur => app'[b] = app[b]
      /\ app'[cur] = [type |-> "rollingfile", isopen |-> 1, udata |-> U]
      /\ \A b \in Appenders : app'[b].udata = app[b].udata /\ app'[b].type = app[b].type
  BY <1>1, Typing
<1>3. /\ \A v \in Udata : v # U => rf'[v] = rf[v]
      /\ rf'[U] = [fp |-> fp, dirs |-> rf[U].dirs, policy |-> rf[U].policy]
      /\ \A v \in Udata : rf'[v].policy = rf[v].policy /\ rf'[v].dirs = rf[v].dirs
  BY <1>1, Typing
<1>4. \A p \in Policies :
        \/ pol'[p] = pol[p]
        \/ p = rf[U].policy /\ pol'[p] = [init |-> 1, sw |-> U, rf |-> U]
  <2>1. CASE Rolls(U) /\ pol' = [pol EXCEPT ![rf[U].policy] = Initialized(@, U)]
    <3>1. rf[U].policy \in Policies
      BY <1>1, <2>1 DEF Rolls
    <3>2. pol[rf[U].policy] \in PolType
      BY <3>1, Typing
    <3>3. Initialized(pol[rf[U].policy], U) = [init |-> 1, sw |-> U, rf |-> U]
      BY <1>1, <3>2, InitializedFields
    <3> QED
      BY <2>1, <3>1, <3>3, Typing
  <2> QED
    BY <2>1
<1>5. \A b, p : Named(b, p) <=> Named(b, p)'
  BY DEF Named
<1>6. PolicyShared' = PolicyShared /\ Done' = Done
  BY DEF PolicyShared, Names, Done
<1>7. \A b \in Appenders : b # cur => app[b].udata # U
  BY <1>1, Typing DEF HInv, PointersInv, OwnInv
<1>8. PointersInv'
  <2>1. OffInv' /\ CurInv' /\ TodoInv'
    BY <1>1, <1>2 DEF HInv, PointersInv, OffInv, CurInv, TodoInv, Done
  <2>2. OwnInv'
    <3>1. \A b \in Appenders : app'[b].type = "none" => app'[b] = NoApp
      BY <1>2 DEF HInv, PointersInv, OwnInv
    <3> QED
      BY <1>2, <3>1 DEF HInv, PointersInv, OwnInv
  <2> QED
    BY <2>1, <2>2 DEF PointersInv
<1>9. NamedInv' /\ DirsInv'
  <2>1. \A b \in Appenders : app[b].udata # Null => rf'[app[b].udata].policy = rf[app[b].udata].policy
                                                   /\ rf'[app[b].udata].dirs = rf[app[b].udata].dirs
    BY <1>3, Typing
  <2>2. NamedInv'
    BY <1>2, <1>5, <2>1 DEF HInv, CausesInv, NamedInv
  <2> QED
    BY <1>2, <2>1, <2>2 DEF HInv, CausesInv, DirsInv
<1>10. PolInv'
  <2> SUFFICES ASSUME NEW p \in Policies, pol'[p].rf = Null
               PROVE  /\ pol'[p].sw \in {Nothing, Bare}
                      /\ \A n \in 1..Done : ~Names(n, p)
                      /\ pol'[p].sw = Bare => \E n \in 1..Done : Alone(loaded[n], p)
    BY <1>6 DEF PolInv, Names
  <2>1. pol'[p] = pol[p] /\ pc # "off"
    BY <1>1, <1>4
  <2> QED
    BY <2>1 DEF HInv, CausesInv, PolInv
<1>11. OpenInv'
  <2> SUFFICES ASSUME NEW b \in Appenders, app'[b].isopen = 1, app'[b].udata # Null
               PROVE  LET x == rf'[app'[b].udata]
                      IN  /\ x.fp = Null => "reread" \in did'
                          /\ pc' # "fini" /\ x.policy # NoPolicy /\ pol'[x.policy].sw = Nothing
                               => "close" \in did' /\ PolicyShared'
    BY DEF OpenInv
  <2> DEFINE q == rf[app[b].udata].policy
  <2>1. app[b].udata \in Udata /\ q \in Policies \cup {NoPolicy} /\ rf'[app'[b].udata].policy = q
    BY <1>2, <1>3, Typing
  <2>2. CASE app[b].isopen = 1 /\ b # cur
    <3>1. rf'[app'[b].udata] = rf[app[b].udata]
      BY <1>2, <1>3, <1>7, <2>1, <2>2
    <3>2. q # NoPolicy /\ pol'[q].sw = Nothing => pol[q].sw = Nothing
      BY <1>1, <1>4, <2>1, UdataNumbers
    <3>3. /\ rf[app[b].udata].fp = Null => "reread" \in did
          /\ q # NoPolicy /\ pol[q].sw = Nothing => "close" \in did /\ PolicyShared
      BY <1>2, <2>1, <2>2, Typing DEF HInv, CausesInv, OpenInv
    <3> QED
      BY <1>6, <2>1, <3>1, <3>2, <3>3
  <2>3. CASE b = cur
    <3>1. app'[b].udata = U /\ rf'[U].fp # Null /\ q = rf[U].policy
      BY <1>1, <1>2, <1>3, <2>3, Typing
    <3>2. CASE app[cur].isopen = 1
      <4>1. q # NoPolicy /\ pol'[q].sw = Nothing => pol[q].sw = Nothing
        BY <1>1, <1>4, <2>1, UdataNumbers
      <4>2. q # NoPolicy /\ pol[q].sw = Nothing => "close" \in did /\ PolicyShared
        BY <1>1, <2>1, <2>3, <3>2 DEF HInv, CausesInv, OpenInv
      <4> QED
        BY <1>6, <2>1, <3>1, <4>1, <4>2
    <3>3. CASE app[cur].isopen # 1
      <4>1. q # NoPolicy => pol'[q].sw # Nothing
        <5>1. pc = "open"
          BY <3>3 DEF HInv, PointersInv, CurInv
        <5> QED
          BY <2>1, <3>1, <5>1, UdataNumbers DEF Rolls
      <4> QED
        BY <2>1, <3>1, <4>1
    <3> QED
      BY <3>2, <3>3
  <2> QED
    BY <1>2, <2>2, <2>3
<1>12. HeldInv'
  <2> SUFFICES ASSUME "reread" \notin did', NEW v \in Udata, rf'[v].fp # Null
               PROVE  \E b \in Appenders : app'[b].udata = v /\ app'[b].isopen = 1
    BY DEF HeldInv
  <2>1. CASE v = U
    BY <1>1, <1>2, <2>1
  <2>2. CASE v # U
    <3>1. rf[v].fp # Null
      BY <1>3, <2>2
    <3>2. PICK b \in Appenders : app[b].udata = v /\ app[b].isopen = 1
      BY <3>1 DEF HInv, StreamsInv, HeldInv
    <3> QED
      BY <1>1, <1>2, <2>2, <3>2
  <2> QED
    BY <2>1, <2>2
<1>13. AloneInv'
  <2> SUFFICES ASSUME ~PolicyShared, NEW b \in Appenders, app[b].udata # Null,
                      rf[app[b].udata].policy # NoPolicy
               PROVE  /\ pol'[rf[app[b].udata].policy].rf = app[b].udata
                      /\ pol'[rf[app[b].udata].policy].sw \in {Nothing, Bare, app[b].udata}
    <3>1. \A b \in Appenders : app[b].udata # Null => rf'[app'[b].udata].policy = rf[app[b].udata].policy
      BY <1>2, <1>3, Typing
    <3> QED
      BY <1>2, <1>6, <3>1 DEF AloneInv
  <2> DEFINE q == rf[app[b].udata].policy
  <2>1. q \in Policies /\ Named(b, q)
    BY Typing DEF HInv, CausesInv, NamedInv
  <2>2. pol[q].rf = app[b].udata /\ pol[q].sw \in {Nothing, Bare, app[b].udata}
    BY <2>1 DEF HInv, StreamsInv, AloneInv
  <2>3. CASE b = cur
    BY <1>1, <1>4, <2>1, <2>2, <2>3, SMTT(30)
  <2>4. CASE b # cur
    <3>1. rf[U].policy # q
      <4> SUFFICES ASSUME rf[U].policy = q PROVE FALSE
        OBVIOUS
      <4>1. Named(cur, q)
        BY <1>1, <2>1 DEF HInv, CausesInv, NamedInv
      <4> QED
        BY <1>1, <2>1, <2>4, <4>1, SharedNames
    <3> QED
      BY <1>4, <2>1, <2>2, <3>1
  <2> QED
    BY <2>3, <2>4
<1>14. LogsToItsDirectory'
  <2> SUFFICES ASSUME ~PolicyShared, NEW b \in Appenders, app[b].udata # Null
               PROVE  rf'[app[b].udata].fp \in {Null, app[b].udata}
    BY <1>2, <1>6 DEF LogsToItsDirectory
  <2>1. rf[app[b].udata].fp \in {Null, app[b].udata} /\ app[b].udata \in Udata
    BY Typing DEF HInv, StreamsInv, LogsToItsDirectory
  <2>2. CASE b # cur
    BY <1>3, <1>7, <2>1, <2>2
  <2>3. CASE b = cur
    <3>1. Rolls(U) /\ fp = pol'[rf[U].policy].sw => fp = U
      <4> SUFFICES ASSUME Rolls(U), fp = pol'[rf[U].policy].sw PROVE fp = U
        OBVIOUS
      <4>1. rf'[U].policy = rf[U].policy /\ app'[cur].udata = U /\ rf[U].policy # NoPolicy
        BY <1>1, <1>2, <1>3 DEF Rolls
      <4>2. pol'[rf[U].policy].sw \in {Nothing, Bare, U}
        BY <1>1, <1>6, <1>13, <4>1 DEF AloneInv
      <4> QED
        BY <4>2, UdataNumbers
    <3> QED
      BY <1>1, <1>3, <2>1, <2>3, <3>1
  <2> QED
    BY <2>2, <2>3
<1> QED
  BY <1>8, <1>9, <1>10, <1>11, <1>12, <1>13, <1>14 DEF HInv, CausesInv, StreamsInv

LEMMA OpenHInv == ASSUME HInv, Open PROVE HInv'
<1>1. IInv'
  BY OpenIInv DEF HInv
<1>2. U \in Udata /\ rf[U].policy \in Policies \cup {NoPolicy}
  BY Typing DEF U, Open
<1>3. /\ app' = [app EXCEPT ![cur].isopen = 1]
      /\ pc = "open" /\ pc' \in {"write", "up"} /\ fault = "none" /\ U # Null
      /\ UNCHANGED <<made, todo, cur, inits, fault, loaded, did>>
  BY DEF Open, Opened, Up
<1>4. CASE Rolls(U)
  <2> DEFINE q     == rf[U].policy
             p     == pol[q]
             after == IF p.init = 0 THEN Initialized(p, U) ELSE p
  <2>1. q \in Policies /\ p \in PolType
    BY <1>2, <1>4, Typing DEF Rolls
  <2>2. /\ pol' = [pol EXCEPT ![q] = after]
        /\ rf' = [rf EXCEPT ![U].fp = RolledOver(after, rf[U].fp)]
    BY <1>4, Zenon DEF Open
  <2>3. after \in PolType /\ after.sw \in Udata
    BY <1>2, <2>1, InitializedType DEF HInv, IInv, FlagTellsNames
  <2>4. RolledOver(after, rf[U].fp) = after.sw
    BY <2>3 DEF RolledOver
  <2>5. pol'[q] = after
    BY <2>1, <2>2, Typing
  <2>6. pol' = pol \/ pol' = [pol EXCEPT ![q] = Initialized(@, U)]
    <3>1. CASE p.init = 0
      BY <2>2, <3>1
    <3>2. CASE p.init # 0
      BY <2>1, <2>2, <3>2, Typing
    <3> QED
      BY <3>1, <3>2
  <2> HIDE DEF after
  <2>7. rf' = [rf EXCEPT ![U].fp = after.sw]
    BY <2>2, <2>4
  <2> QED
    BY <1>1, <1>3, <1>4, <2>3, <2>5, <2>6, <2>7, StreamGiven
<1>5. CASE ~Rolls(U)
  <2>1. rf' = [rf EXCEPT ![U].fp = U] /\ pol' = pol
    BY <1>5 DEF Open
  <2> QED
    BY <1>1, <1>2, <1>3, <1>5, <2>1, StreamGiven
<1> QED
  BY <1>4, <1>5

LEMMA WriteHInv == ASSUME HInv, NEW triggers \in BOOLEAN, Write(triggers) PROVE HInv'
<1> DEFINE p  == pol[rf[U].policy]
           fp == IF Rolls(U) /\ triggers THEN RolledOver(p, rf[U].fp) ELSE rf[U].fp
<1>1. IInv'
  BY WriteIInv DEF HInv
<1>2. CASE \E f \in Faults : Fault(f)
  BY <1>2, FaultHInv DEF Write
<1>3. CASE /\ U # Null /\ fp # Null
           /\ rf' = [rf EXCEPT ![U].fp = fp] /\ pc' = "up"
           /\ UNCHANGED <<app, pol, made, todo, cur, inits, fault, loaded, did>>
  <2>1. U \in Udata /\ rf[U].policy \in Policies \cup {NoPolicy} /\ cur \in Appenders
    BY <1>3, Typing DEF U
  <2>2. fp = rf[U].fp \/ (Rolls(U) /\ fp = p.sw /\ p.sw \in Udata)
    BY DEF RolledOver
  <2>3. fp \in Udata
    BY <1>3, <2>1, <2>2, Typing
  <2>4. app' = [app EXCEPT ![cur].isopen = 1]
    <3>1. app[cur].isopen = 1 /\ app[cur] \in AppType
      BY <2>1, Typing DEF Write, HInv, PointersInv, CurInv
    <3>2. [app[cur] EXCEPT !.isopen = 1] = app[cur]
      BY <3>1
    <3> QED
      BY <1>3, <3>2, Typing
  <2>5. pc = "write" /\ fault = "none"
    BY DEF Write, Up
  <2> HIDE DEF fp
  <2> QED
    BY <1>1, <1>3, <2>2, <2>3, <2>4, <2>5, StreamGiven
<1> QED
  BY <1>2, <1>3 DEF Write, Faults

\* rollingfile_close leaves the appender's user data empty, and may take the
\* file names of its policy.
LEMMA ClosedHInv ==
  ASSUME HInv, IInv', NEW a \in Appenders, app[a].isopen = 1, app[a].udata # Null,
         Closed(app[a].udata),
         \/ /\ app' = [app EXCEPT ![a].isopen = 0] /\ pc = "up"
            /\ did' = did \cup {"close"}
         \/ app' = [app EXCEPT ![a] = NoApp] /\ pc = "fini" /\ did' = did,
         UNCHANGED <<made, pc, todo, cur, inits, fault, loaded>>
  PROVE  HInv'
<1> DEFINE r == app[a].udata
           q == rf[r].policy
<1>1. r \in Udata /\ r # Null /\ q \in Policies \cup {NoPolicy}
  BY Typing
<1>2. /\ rf'[r] = NoRf
      /\ \A v \in Udata : v # r => rf'[v] = rf[v]
  BY <1>1, Typing DEF Closed
<1>3. \A p \in Policies :
        /\ pol'[p].rf = pol[p].rf
        /\ pol'[p] = pol[p] \/ (p = q /\ pol[p].init = 1 /\ pol'[p].sw = Nothing)
  <2>1. CASE Rolls(r)
    <3>1. q \in Policies /\ pol' = [pol EXCEPT ![q] = Finished(@)]
      BY <1>1, <2>1 DEF Closed, Rolls
    <3>2. pol[q] \in PolType
      BY <3>1, Typing
    <3>3. /\ Finished(pol[q]).rf = pol[q].rf
          /\ \/ Finished(pol[q]) = pol[q]
             \/ pol[q].init = 1 /\ Finished(pol[q]).sw = Nothing
      BY <3>2 DEF Finished
    <3> QED
      BY <3>1, <3>3, Typing
  <2>2. CASE ~Rolls(r)
    BY <2>2 DEF Closed
  <2> QED
    BY <2>1, <2>2
<1>4. /\ \A b \in Appenders : b # a => app'[b] = app[b]
      /\ app'[a] = NoApp \/ (app'[a].udata = r /\ "close" \in did' /\ app'[a].type = app[a].type)
      /\ app'[a].isopen = 0
  BY Typing DEF NoApp
<1>5. \A b \in Appenders : app[b].udata # Null /\ b # a =>
        /\ app[b].udata \in Udata /\ app[b].udata # r /\ rf'[app[b].udata] = rf[app[b].udata]
        /\ rf[app[b].udata].policy \in Policies \cup {NoPolicy}
  BY <1>1, <1>2, Typing DEF HInv, PointersInv, OwnInv
<1>6. \A b, p : Named(b, p) <=> Named(b, p)'
  BY DEF Named
<1>7. PolicyShared' = PolicyShared /\ Done' = Done /\ did \subseteq did'
  BY DEF PolicyShared, Names, Done
<1> HIDE DEF r, q
<1>8. NoRf.fp = Null /\ NoRf.policy = NoPolicy /\ NoApp.udata = Null /\ NoApp.type = "none"
  BY DEF NoRf, NoApp
<1>9. PointersInv'
  <2>1. OffInv' /\ CurInv' /\ TodoInv'
    BY DEF HInv, PointersInv, OffInv, CurInv, TodoInv, Done
  <2>2. app[a].type # "none"
    BY DEF HInv, PointersInv, OwnInv, NoApp
  <2>3. \A b \in Appenders : app'[b].udata = app[b].udata \/ app'[b].udata = Null
    BY <1>4, <1>8 DEF r
  <2>4. \A b \in Appenders : app'[b].type = "none" => app'[b] = NoApp
    BY <1>4, <2>2 DEF HInv, PointersInv, OwnInv
  <2>5. made \in Nat
    BY BoundsAssumption DEF HInv, IInv, TypeOK
  <2>6. \A b \in Appenders : app'[b].udata <= made'
    BY <2>3, <2>5 DEF HInv, PointersInv, OwnInv, Null
  <2>7. \A b, c \in Appenders : b # c /\ app'[b].udata = app'[c].udata => app'[b].udata = Null
    BY <2>3 DEF HInv, PointersInv, OwnInv
  <2> QED
    BY <2>1, <2>4, <2>6, <2>7 DEF PointersInv, OwnInv
<1>10. NamedInv'
  <2> SUFFICES ASSUME NEW b \in Appenders
               PROVE  /\ \A p \in Policies :
                           app'[b].udata # Null /\ rf'[app'[b].udata].policy = p => Named(b, p)'
                      /\ app'[b].type = "rollingfile" /\ app'[b].udata = Null
                           => Named(b, NoPolicy)'
    BY DEF NamedInv
  <2>1. CASE b = a
    BY <1>1, <1>2, <1>4, <1>8, <2>1, NamesAssumption
  <2>2. CASE b # a
    <3>1. /\ \A p \in Policies :
                app[b].udata # Null /\ rf[app[b].udata].policy = p => Named(b, p)
          /\ app[b].type = "rollingfile" /\ app[b].udata = Null => Named(b, NoPolicy)
      BY DEF HInv, CausesInv, NamedInv
    <3> QED
      BY <1>4, <1>5, <1>6, <2>2, <3>1
  <2> QED
    BY <2>1, <2>2
<1>11. PolInv'
  <2> SUFFICES ASSUME pc # "off", NEW p \in Policies, pol'[p].rf = Null
               PROVE  /\ pol'[p].sw \in {Nothing, Bare}
                      /\ \A n \in 1..Done : ~Names(n, p)
                      /\ pol'[p].sw = Bare => \E n \in 1..Done : Alone(loaded[n], p)
    BY <1>7 DEF PolInv, Names
  <2>1. pol[p].rf = Null
    BY <1>3
  <2>2. /\ pol[p].sw \in {Nothing, Bare}
        /\ \A n \in 1..Done : ~Names(n, p)
        /\ pol[p].sw = Bare => \E n \in 1..Done : Alone(loaded[n], p)
    BY <2>1 DEF HInv, CausesInv, PolInv
  <2>3. pol[p].init # 1
    BY <2>2, UdataNumbers DEF HInv, IInv, FlagTellsNames
  <2> QED
    BY <1>3, <2>2, <2>3
<1>12. OpenInv'
  <2> SUFFICES ASSUME NEW b \in Appenders, app'[b].isopen = 1, app'[b].udata # Null
               PROVE  LET x == rf'[app'[b].udata]
                      IN  /\ x.fp = Null => "reread" \in did'
                          /\ pc' # "fini" /\ x.policy # NoPolicy /\ pol'[x.policy].sw = Nothing
                               => "close" \in did' /\ PolicyShared'
    BY DEF OpenInv
  <2> DEFINE x == rf[app[b].udata]
  <2>1. b # a /\ app[b].isopen = 1 /\ app[b].udata # Null /\ rf'[app'[b].udata] = x
        /\ x.policy \in Policies \cup {NoPolicy}
    BY <1>4, <1>5
  <2>2. /\ x.fp = Null => "reread" \in did
        /\ pc # "fini" /\ x.policy # NoPolicy /\ pol[x.policy].sw = Nothing
             => "close" \in did /\ PolicyShared
    BY <2>1 DEF HInv, CausesInv, OpenInv
  <2>3. x.policy # NoPolicy /\ x.policy = q => PolicyShared
    <3> SUFFICES ASSUME x.policy \in Policies, x.policy = q PROVE PolicyShared
      BY <2>1
    <3>1. Named(b, q) /\ Named(a, q)
      BY <1>1, <2>1 DEF HInv, CausesInv, NamedInv, q, r
    <3> QED
      BY <2>1, <3>1, SharedNames
  <2>4. pc # "fini" => "close" \in did'
    OBVIOUS
  <2>5. x.policy # NoPolicy /\ x.policy # q => pol'[x.policy] = pol[x.policy]
    BY <1>3, <2>1
  <2> HIDE DEF x
  <2> QED
    BY <1>7, <2>1, <2>2, <2>3, <2>4, <2>5
<1>13. DirsInv'
  <2> SUFFICES ASSUME NEW b \in Appenders, app'[b].udata # Null, rf'[app'[b].udata].dirs = 0
               PROVE  "close" \in did'
    BY DEF DirsInv
  <2> QED
    BY <1>4, <1>5, <1>7, <1>8 DEF HInv, CausesInv, DirsInv
<1>14. HeldInv'
  <2> SUFFICES ASSUME "reread" \notin did', NEW v \in Udata, rf'[v].fp # Null
               PROVE  \E b \in Appenders : app'[b].udata = v /\ app'[b].isopen = 1
    BY DEF HeldInv
  <2>1. v # r /\ rf[v].fp # Null /\ "reread" \notin did
    BY <1>2, <1>7, <1>8
  <2>2. PICK b \in Appenders : app[b].udata = v /\ app[b].isopen = 1
    BY <2>1 DEF HInv, StreamsInv, HeldInv
  <2> QED
    BY <1>4, <2>1, <2>2 DEF r
<1>15. AloneInv'
  <2> SUFFICES ASSUME ~PolicyShared, NEW b \in Appenders, app'[b].udata # Null,
                      rf'[app'[b].udata].policy # NoPolicy
               PROVE  LET v == app'[b].udata
                          p == pol'[rf'[v].policy]
                      IN  p.rf = v /\ p.sw \in {Nothing, Bare, v}
    BY <1>7 DEF AloneInv
  <2>1. b # a
    BY <1>2, <1>4, <1>8
  <2>2. app'[b] = app[b] /\ rf'[app[b].udata] = rf[app[b].udata] /\ rf[app[b].udata].policy \in Policies
    BY <1>4, <1>5, <2>1
  <2>3. LET p == pol[rf[app[b].udata].policy]
        IN  p.rf = app[b].udata /\ p.sw \in {Nothing, Bare, app[b].udata}
    BY <2>2 DEF HInv, StreamsInv, AloneInv
  <2> QED
    BY <1>3, <2>2, <2>3
<1>16. LogsToItsDirectory'
  <2> SUFFICES ASSUME ~PolicyShared, NEW b \in Appenders, app'[b].udata # Null
               PROVE  rf'[app'[b].udata].fp \in {Null, app'[b].udata}
    BY <1>7 DEF LogsToItsDirectory
  <2> QED
    BY <1>2, <1>4, <1>5, <1>8 DEF HInv, StreamsInv, LogsToItsDirectory
<1> QED
  BY <1>9, <1>10, <1>11, <1>12, <1>13, <1>14, <1>15, <1>16 DEF HInv, CausesInv, StreamsInv

LEMMA CloseHInv == ASSUME HInv, NEW a \in Appenders, Close(a) PROVE HInv'
<1>1. CASE app[a].udata = Null
  BY <1>1, FaultHInv DEF Close, Faults
<1>2. CASE app[a].udata # Null
  <2>1. IInv'
    BY CloseIInv DEF HInv
  <2> QED
    BY <1>2, <2>1, ClosedHInv DEF Close
<1> QED
  BY <1>1, <1>2

LEMMA DeleteAppenderHInv == ASSUME HInv, NEW a \in Appenders, DeleteAppender(a) PROVE HInv'
<1>1. IInv'
  BY DeleteAppenderIInv DEF HInv
<1>2. CASE app[a].isopen = 0
  <2>1. /\ app' = [app EXCEPT ![a] = NoApp] /\ pc = "fini"
        /\ UNCHANGED <<rf, pol, made, pc, todo, cur, inits, fault, loaded, did>>
    BY <1>2 DEF DeleteAppender
  <2>2. /\ \A b \in Appenders : b # a => app'[b] = app[b]
        /\ app'[a] = NoApp /\ NoApp.udata = Null /\ NoApp.type = "none" /\ NoApp.isopen = 0
    BY <2>1, Typing DEF NoApp
  <2>3. PointersInv'
    <3>1. OffInv' /\ CurInv' /\ TodoInv'
      BY <2>1 DEF HInv, PointersInv, OffInv, CurInv, TodoInv, Done
    <3>2. made \in Nat
      BY BoundsAssumption DEF HInv, IInv, TypeOK
    <3>3. OwnInv'
      BY <2>1, <2>2, <3>2 DEF HInv, PointersInv, OwnInv, Null
    <3> QED
      BY <3>1, <3>3 DEF PointersInv
  <2>4. \A b, p : Named(b, p) <=> Named(b, p)'
    BY <2>1 DEF Named
  <2>5. PolicyShared' = PolicyShared /\ Done' = Done
    BY <2>1 DEF PolicyShared, Names, Done
  <2>6. CausesInv'
    <3>1. NamedInv'
      BY <2>1, <2>2, <2>4 DEF HInv, CausesInv, NamedInv
    <3>2. PolInv'
      BY <2>1, <2>5 DEF HInv, CausesInv, PolInv, Names
    <3>3. OpenInv'
      BY <2>1, <2>2, <2>5 DEF HInv, CausesInv, OpenInv
    <3>4. DirsInv'
      BY <2>1, <2>2 DEF HInv, CausesInv, DirsInv
    <3> QED
      BY <3>1, <3>2, <3>3, <3>4 DEF CausesInv
  <2>7. StreamsInv'
    <3>1. HeldInv'
      BY <1>2, <2>1, <2>2 DEF HInv, StreamsInv, HeldInv
    <3>2. AloneInv' /\ LogsToItsDirectory'
      BY <2>1, <2>2, <2>5 DEF HInv, StreamsInv, AloneInv, LogsToItsDirectory
    <3> QED
      BY <3>1, <3>2 DEF StreamsInv
  <2> QED
    BY <1>1, <2>3, <2>6, <2>7 DEF HInv
<1>3. CASE app[a].isopen # 0 /\ app[a].udata = Null
  BY <1>3, FaultHInv DEF DeleteAppender, Faults
<1>4. CASE app[a].isopen # 0 /\ app[a].udata # Null
  <2>1. app[a].isopen = 1
    BY <1>4, Typing
  <2> QED
    BY <1>1, <1>4, <2>1, ClosedHInv DEF DeleteAppender
<1> QED
  BY <1>2, <1>3, <1>4

LEMMA DeletePoliciesHInv == ASSUME HInv, DeletePolicies PROVE HInv'
<1>1. IInv'
  BY DeletePoliciesIInv DEF HInv
<1>2. /\ \A a \in Appenders : app[a] = NoApp
      /\ \A p \in Policies : pol'[p] = NoPol
      /\ pc' = "off" /\ todo = << >> /\ fault = "none" /\ NoApp.udata = Null /\ NoApp.type = "none"
      /\ UNCHANGED <<app, rf, made, todo, cur, inits, fault, loaded, did>>
  BY DEF DeletePolicies, Up, HInv, PointersInv, OwnInv, TodoInv, NoApp
<1>3. PointersInv'
  BY <1>2 DEF HInv, PointersInv, OffInv, CurInv, OwnInv, TodoInv, Done
<1>4. CausesInv'
  BY <1>2, Typing DEF CausesInv, NamedInv, PolInv, OpenInv, DirsInv, NoApp
<1>5. StreamsInv'
  BY <1>2, Typing DEF HInv, StreamsInv, HeldInv, AloneInv, LogsToItsDirectory, NoApp
<1> QED
  BY <1>1, <1>3, <1>4, <1>5 DEF HInv

LEMMA LogHInv == ASSUME HInv, Log PROVE HInv'
<1>1. CASE \E a \in Appenders : Append1(a)
  <2>1. IInv'
    BY <1>1, LogIInv DEF HInv, Log
  <2> PICK a \in Appenders : Append1(a)
    BY <1>1
  <2>2. todo = << >> /\ app[a].isopen \in {0, 1}
    BY Typing DEF Append1, HInv, PointersInv, TodoInv
  <2> QED
    BY <2>1, <2>2, MoveHInv DEF Append1
<1>2. CASE \E a \in Appenders : Close(a)
  BY <1>2, CloseHInv
<1>3. CASE OpenDefault
  BY <1>3, OpenDefaultHInv
<1>4. CASE OpenWithoutDirs
  BY <1>4, FaultHInv DEF OpenWithoutDirs, Faults
<1>5. CASE Open
  BY <1>5, OpenHInv
<1>6. CASE \E triggers \in BOOLEAN : Write(triggers)
  BY <1>6, WriteHInv
<1> QED
  BY <1>1, <1>2, <1>3, <1>4, <1>5, <1>6 DEF Log

-----------------------------------------------------------------------------
(* The invariant is inductive.                                              *)
THEOREM HistoryInductive == HInv /\ [Next]_vars => HInv'
<1> SUFFICES ASSUME HInv, [Next]_vars PROVE HInv'
  OBVIOUS
<1>1. CASE \E text \in Texts : Begin(text)
  BY <1>1, BeginHInv
<1>2. CASE \E text \in Rereads : Reread(text)
  BY <1>2, RereadHInv
<1>3. CASE Load
  <2>1. CASE LoadDone
    <3>1. IInv'
      BY <1>3, Inductive DEF HInv, Next
    <3> QED
      BY <2>1, <3>1, MoveHInv DEF LoadDone
  <2>2. CASE \E e \in Element : LoadPolicy(e) \/ LoadAppender(e)
    BY <2>2, LoadPolicyHInv, LoadAppenderHInv
  <2> QED
    BY <1>3, <2>1, <2>2 DEF Load
<1>4. CASE Setup
  BY <1>4, ConfigureHInv DEF Setup
<1>5. CASE Log
  BY <1>5, LogHInv
<1>6. CASE Fini
  <2>1. IInv'
    BY <1>6, Inductive DEF HInv, Next
  <2>2. todo = << >>
    BY <1>6 DEF Fini, HInv, PointersInv, TodoInv
  <2> QED
    BY <1>6, <2>1, <2>2, MoveHInv DEF Fini
<1>7. CASE DeletePolicies
  BY <1>7, DeletePoliciesHInv
<1>8. CASE \E a \in Appenders : DeleteAppender(a)
  BY <1>8, DeleteAppenderHInv
<1>9. CASE UNCHANGED vars
  BY <1>9, StutterHInv
<1> QED
  BY <1>1, <1>2, <1>3, <1>4, <1>5, <1>6, <1>7, <1>8, <1>9 DEF Next

LEMMA HistoryInvariant == Spec => []HInv
BY InitHInv, HistoryInductive, PTL DEF Spec

(* The stream of an appender is under its own directory whatever is loaded, *)
(* reread, opened and closed, in any order, unless two share a policy.      *)
THEOREM OwnDirectory == Spec => []LogsToItsDirectory
<1>1. HInv => LogsToItsDirectory
  BY DEF HInv, StreamsInv
<1> QED
  BY <1>1, HistoryInvariant, PTL

(* log4c_fini leaves no stream open, unless a reread replaced the user data *)
(* of an open appender.                                                     *)
THEOREM StreamsClosed == Spec => []FiniClosesStreams
<1>1. HInv => FiniClosesStreams
  <2> SUFFICES ASSUME HInv, pc = "off", "reread" \notin did, NEW r \in Udata PROVE rf[r].fp = Null
    BY DEF FiniClosesStreams
  <2>1. \A a \in Appenders : app[a].isopen = 0
    BY DEF HInv, PointersInv, OffInv, NoApp
  <2> QED
    BY <2>1 DEF HInv, StreamsInv, HeldInv
<1> QED
  BY <1>1, HistoryInvariant, PTL

-----------------------------------------------------------------------------
(***************************************************************************)
(* What a policy knows of the appender that it was last initialised for,   *)
(* whose directory a close may have freed: then it has no file names, and  *)
(* its element was read again if it has user data all the same.            *)
(***************************************************************************)
Known(p, x) ==
  x.rf # Null =>
    /\ x.rf \in 1..made
    /\ \E i \in 1..Done : Names(i, p)
    /\ rf[x.rf].dirs = 1 => rf[x.rf].policy = p
    /\ rf[x.rf].dirs = 0 => "close" \in did /\ x.sw \notin Udata
    /\ x.sw = Bare => \E i, j \in 1..Done : i < j /\ Names(i, p) /\ Describes(j, p)

KnownInv == pc \notin {"off", "fini"} => \A p \in Policies : Known(p, pol[p])

\* A policy that stays as it is, while more is read and said.
LEMMA KnownStays ==
  ASSUME HInv, HInv', NEW p \in Policies, Known(p, pol[p]), pol'[p] = pol[p],
         made <= made', Done <= Done', did \subseteq did',
         \A n \in 1..Done : n \in DOMAIN loaded' /\ loaded'[n] = loaded[n],
         \A v \in 1..made : rf'[v].dirs = rf[v].dirs /\ rf'[v].policy = rf[v].policy
  PROVE  Known(p, pol[p])'
<1>1. made \in Nat /\ made' \in Nat
  BY BoundsAssumption DEF HInv, IInv, TypeOK
<1>2. Done \in Int /\ Done' \in Int
  <2>1. Len(todo) \in Nat /\ Len(loaded) \in Nat /\ Len(todo') \in Nat /\ Len(loaded') \in Nat
    BY DEF HInv, IInv, TypeOK
  <2> QED
    BY <2>1 DEF Done
<1>3. \A n \in 1..Done : n \in 1..Done' /\ (Names(n, p) <=> Names(n, p)')
                          /\ (Describes(n, p) <=> Describes(n, p)')
  BY <1>2 DEF Names, Describes
<1>4. 1..made \subseteq 1..made'
  BY <1>1
<1> QED
  BY <1>3, <1>4 DEF Known

\* A policy that is initialised for user data that has a directory.
LEMMA KnownInitialized ==
  ASSUME NEW p \in Policies, NEW r \in Udata, pol'[p] = Initialized(pol[p], r),
         pol[p] \in PolType, r \in 1..made', rf'[r].dirs = 1, rf'[r].policy = p,
         NEW n \in 1..Done', Names(n, p)'
  PROVE  Known(p, pol[p])'
<1>1. pol'[p].rf = r /\ pol'[p].sw # Bare
  BY InitializedFields, UdataNumbers
<1> QED
  BY <1>1 DEF Known

\* What was named has been read, when nothing is left to be loaded.
LEMMA NamedRead ==
  ASSUME HInv, todo = << >>, NEW a \in Appenders, NEW p \in Policies, Named(a, p)
  PROVE  \E n \in 1..Done : Names(n, p)
<1>1. PICK n \in DOMAIN loaded : loaded[n].appender = a /\ loaded[n].policy = p
  BY DEF Named
<1>2. n \in 1..Done
  <2>1. loaded \in Seq(Element)
    BY DEF HInv, IInv, TypeOK
  <2> QED
    BY <2>1 DEF Done
<1> QED
  BY <1>1, <1>2, NamesAssumption DEF Names

LEMMA KnownLoadPolicy ==
  ASSUME HInv, HInv', KnownInv, NEW e \in Element, LoadPolicy(e), fault' = "none"
  PROVE  KnownInv'
<1> DEFINE p == pol[e.policy]
           after == IF p.sw = Nothing THEN [p EXCEPT !.sw = Bare] ELSE Initialized(p, p.rf)
<1>1. e.policy \in Policies /\ p \in PolType /\ e.appender = "none"
  BY NamesAssumption, Typing DEF LoadPolicy, Element
<1>2. /\ pol' = [pol EXCEPT ![e.policy] = after] /\ todo' = Tail(todo)
      /\ UNCHANGED <<app, rf, made, pc, cur, inits, fault, loaded, did>>
      /\ Loads(e) /\ pc = "load"
      /\ p.sw # Nothing => p.rf # Null /\ rf[p.rf].dirs # 0
  BY DEF LoadPolicy, Loads, Fault, Up
<1>3. Done \in Nat /\ Done' = Done + 1 /\ Done' \in DOMAIN loaded /\ loaded[Done'] = e
  BY <1>2, NextElement
<1>5. \A n \in 1..Done : n \in DOMAIN loaded' /\ loaded'[n] = loaded[n]
  <2>1. loaded \in Seq(Element)
    BY DEF HInv, IInv, TypeOK
  <2> QED
    BY <1>2, <1>3, <2>1
<1>6. made <= made' /\ Done <= Done'
  BY <1>2, <1>3, BoundsAssumption DEF HInv, IInv, TypeOK
<1> SUFFICES ASSUME NEW q \in Policies PROVE Known(q, pol[q])'
  BY DEF KnownInv
<1>7. Known(q, pol[q])
  BY <1>2 DEF KnownInv
<1>8. CASE q # e.policy
  <2>1. pol'[q] = pol[q]
    BY <1>1, <1>2, <1>8, Typing
  <2> QED
    BY <1>2, <1>5, <1>6, <1>7, <2>1, KnownStays
<1>9. CASE q = e.policy
  <2>1. pol'[q] = after
    BY <1>1, <1>2, <1>9, Typing
  <2>2. CASE p.sw = Nothing
    <3>1. after.rf = p.rf /\ after.sw = Bare /\ Bare \notin Udata
      BY <1>1, <2>2, UdataNumbers
    <3> HIDE DEF after
    <3>2. CASE p.rf = Null
      BY <2>1, <3>1, <3>2 DEF Known
    <3>3. CASE p.rf # Null
      <4>1. /\ p.rf \in 1..made
            /\ rf[p.rf].dirs = 1 => rf[p.rf].policy = q
            /\ rf[p.rf].dirs = 0 => "close" \in did
        BY <1>7, <1>9, <3>3 DEF Known
      <4>2. PICK i \in 1..Done : Names(i, q)
        BY <1>7, <1>9, <3>3 DEF Known
      <4>3. Names(i, q)' /\ loaded'[Done'].appender = "none" /\ loaded'[Done'].policy = q
        BY <1>1, <1>2, <1>3, <1>9, <4>2 DEF Names
      <4>4. i \in 1..Done' /\ Done' \in 1..Done' /\ i < Done'
        BY <1>3
      <4>5. \E n, m \in 1..Done' : n < m /\ Names(n, q)' /\ Describes(m, q)'
        BY <4>3, <4>4 DEF Describes
      <4>6. \E n \in 1..Done' : Names(n, q)'
        BY <4>3, <4>4
      <4> QED
        BY <1>2, <2>1, <3>1, <4>1, <4>5, <4>6 DEF Known
    <3> QED
      BY <3>2, <3>3
  <2>3. CASE p.sw # Nothing
    <3>1. p.rf \in Udata /\ rf[p.rf].dirs = 1
      BY <1>1, <1>2, <2>3, Typing
    <3>2. p.rf \in 1..made /\ rf[p.rf].policy = q
      BY <1>2, <1>7, <1>9, <2>3, <3>1 DEF Known
    <3>3. PICK n \in 1..Done : Names(n, q)
      BY <1>2, <1>7, <1>9, <2>3 DEF Known
    <3>4. n \in 1..Done' /\ Names(n, q)'
      BY <1>2, <1>3, <3>3 DEF Names
    <3>5. pol'[q] = Initialized(pol[q], p.rf)
      BY <1>9, <2>1, <2>3
    <3> HIDE DEF p
    <3>6. pol[q] \in PolType /\ p.rf \in 1..made' /\ rf'[p.rf].dirs = 1 /\ rf'[p.rf].policy = q
      BY <1>2, <3>1, <3>2, Typing
    <3> QED
      BY <3>1, <3>4, <3>5, <3>6, KnownInitialized
  <2> QED
    BY <2>2, <2>3
<1> QED
  BY <1>8, <1>9

\* User data is made, and the policy it names is initialised for it.
LEMMA KnownGiven ==
  ASSUME HInv, HInv', KnownInv, NEW q \in Policies \cup {NoPolicy}, NEW r \in Udata,
         r = made + 1, made' = r, pc \notin {"off", "fini"}, did \subseteq did',
         rf' = [rf EXCEPT ![r] = [fp |-> Null, dirs |-> 1, policy |-> q]],
         pol' = IF q = NoPolicy THEN pol ELSE [pol EXCEPT ![q] = Initialized(@, r)],
         Done <= Done', \A n \in 1..Done : n \in DOMAIN loaded' /\ loaded'[n] = loaded[n],
         q # NoPolicy => \E n \in 1..Done' : Names(n, q)'
  PROVE  KnownInv'
<1> SUFFICES ASSUME NEW p \in Policies PROVE Known(p, pol[p])'
  BY DEF KnownInv
<1>1. made \in Nat /\ r \in 1..made' /\ made <= made' /\ r \notin 1..made
  BY BoundsAssumption DEF HInv, IInv, TypeOK
<1>2. CASE p = q
  <2>1. q # NoPolicy /\ q \in Policies
    BY <1>2, NamesAssumption
  <2>2. PICK n \in 1..Done' : Names(n, p)'
    BY <1>2, <2>1
  <2>3. pol'[p] = Initialized(pol[p], r) /\ pol[p] \in PolType
        /\ rf'[r].dirs = 1 /\ rf'[r].policy = p
    BY <1>2, <2>1, Typing
  <2> QED
    BY <1>1, <2>2, <2>3, KnownInitialized
<1>3. CASE p # q
  <2>1. pol'[p] = pol[p] /\ Known(p, pol[p])
    BY <1>3, Typing DEF KnownInv
  <2>2. \A v \in 1..made : rf'[v].dirs = rf[v].dirs /\ rf'[v].policy = rf[v].policy
    <3>1. made <= MaxUdata /\ MaxUdata \in Nat
      BY BoundsAssumption DEF HInv, IInv, TypeOK
    <3>2. \A v \in 1..made : v \in Udata /\ v # r
      BY <1>1, <3>1 DEF Udata
    <3> QED
      BY <3>2, Typing
  <2> QED
    BY <1>1, <2>1, <2>2, KnownStays
<1> QED
  BY <1>2, <1>3

LEMMA KnownLoadAppender ==
  ASSUME HInv, HInv', KnownInv, NEW e \in Element, LoadAppender(e) PROVE KnownInv'
<1> DEFINE q == e.policy
           r == made + 1
<1>1. e.appender \in Appenders /\ q \in Policies \cup {NoPolicy}
  BY DEF LoadAppender, Element
<1>2. r \in Udata /\ made' = r
  <2>1. made \in 0..MaxUdata /\ made < MaxUdata /\ made' = r
    BY DEF HInv, IInv, TypeOK, LoadAppender
  <2> QED
    BY <2>1, UdataNumbers
<1>3. /\ rf' = [rf EXCEPT ![r] = [fp |-> Null, dirs |-> 1, policy |-> q]]
      /\ pol' = IF q = NoPolicy THEN pol ELSE [pol EXCEPT ![q] = Initialized(@, r)]
      /\ did \subseteq did' /\ Loads(e) /\ pc = "load" /\ todo' = Tail(todo) /\ loaded' = loaded
  BY <1>2 DEF LoadAppender, Loads
<1>4. Done \in Nat /\ Done' = Done + 1 /\ Done' \in DOMAIN loaded /\ loaded[Done'] = e
  BY <1>3, NextElement
<1>5. \A n \in 1..Done : n \in DOMAIN loaded' /\ loaded'[n] = loaded[n]
  <2>1. loaded \in Seq(Element)
    BY DEF HInv, IInv, TypeOK
  <2> QED
    BY <1>3, <1>4, <2>1
<1>6. Done' \in 1..Done' /\ Done <= Done'
  BY <1>4
<1>7. loaded'[Done'].appender # "none" /\ loaded'[Done'].policy = q
  BY <1>1, <1>3, <1>4, NamesAssumption
<1>8. \E n \in 1..Done' : Names(n, q)'
  BY <1>6, <1>7 DEF Names
<1>9. pc \notin {"off", "fini"}
  BY <1>3
<1> QED
  BY <1>1, <1>2, <1>3, <1>5, <1>6, <1>8, <1>9, KnownGiven

LEMMA KnownConfigure ==
  ASSUME HInv, HInv', KnownInv, NEW a \in Appenders, NEW q \in Policies \cup {NoPolicy},
         Configure(a, q)
  PROVE  KnownInv'
<1> DEFINE r == made + 1
           x == [policy |-> q, appender |-> a]
<1>1. r \in Udata /\ made' = r
  <2>1. made \in 0..MaxUdata /\ made < MaxUdata /\ made' = r
    BY DEF HInv, IInv, TypeOK, Configure
  <2> QED
    BY <2>1, UdataNumbers
<1>2. /\ rf' = [rf EXCEPT ![r] = [fp |-> Null, dirs |-> 1, policy |-> q]]
      /\ pol' = IF q = NoPolicy THEN pol ELSE [pol EXCEPT ![q] = Initialized(@, r)]
      /\ did \subseteq did' /\ pc = "up" /\ todo' = todo
      /\ loaded' = IF q = NoPolicy THEN loaded ELSE Append(loaded, x)
  BY <1>1 DEF Configure
<1>3. todo = << >> /\ todo' = << >> /\ loaded \in Seq(Element)
  BY <1>2 DEF HInv, PointersInv, TodoInv, IInv, TypeOK
<1>4. /\ Done = Len(loaded) /\ Done' = Len(loaded') /\ Done <= Done'
      /\ \A n \in 1..Done : n \in DOMAIN loaded' /\ loaded'[n] = loaded[n]
      /\ q # NoPolicy => Done' \in 1..Done' /\ loaded'[Done'] = x
  <2>1. CASE q = NoPolicy
    BY <1>2, <1>3, <2>1 DEF Done
  <2>2. CASE q # NoPolicy
    <3>1. loaded' = Append(loaded, x)
      BY <1>2, <2>2
    <3> HIDE DEF x
    <3> QED
      BY <1>3, <2>2, <3>1 DEF Done
  <2> QED
    BY <2>1, <2>2
<1>5. q # NoPolicy => \E n \in 1..Done' : Names(n, q)'
  BY <1>4, NamesAssumption DEF Names
<1> HIDE DEF x
<1> QED
  BY <1>1, <1>2, <1>4, <1>5, KnownGiven

LEMMA KnownOpen == ASSUME HInv, HInv', KnownInv, Open PROVE KnownInv'
<1>1. /\ cur \in Appenders /\ U = app[cur].udata /\ U \in Udata
      /\ rf[U].policy \in Policies \cup {NoPolicy}
  BY Typing DEF U, Open
<1>2. /\ pc = "open" /\ rf[U].dirs = 1 /\ U # Null
      /\ UNCHANGED <<made, todo, loaded, did>>
  BY DEF Open, Opened
<1>3. \A v \in Udata : rf'[v].dirs = rf[v].dirs /\ rf'[v].policy = rf[v].policy
  BY <1>1, Typing DEF Open
<1>4. todo = << >> /\ Done' = Done /\ made \in Nat /\ made <= MaxUdata
  BY <1>2, BoundsAssumption DEF HInv, PointersInv, TodoInv, Done, IInv, TypeOK
<1>5. U \in 1..made
  BY <1>1 DEF HInv, PointersInv, OwnInv, Udata
<1>6. \A n \in 1..Done : n \in DOMAIN loaded' /\ loaded'[n] = loaded[n]
  <2>1. loaded \in Seq(Element)
    BY DEF HInv, IInv, TypeOK
  <2> QED
    BY <1>2, <1>4, <2>1 DEF Done
<1> SUFFICES ASSUME NEW p \in Policies PROVE Known(p, pol[p])'
  BY DEF KnownInv
<1>7. pol'[p] = pol[p] \/ (rf[U].policy = p /\ pol'[p] = Initialized(pol[p], U))
  <2>1. CASE Rolls(U)
    <3> DEFINE q == rf[U].policy
               after == IF pol[q].init = 0 THEN Initialized(pol[q], U) ELSE pol[q]
    <3>1. pol' = [pol EXCEPT ![q] = after] /\ q \in Policies
      BY <1>1, <2>1, Zenon DEF Open, Rolls
    <3>2. pol'[p] = IF p = q THEN after ELSE pol[p]
      BY <3>1, Typing
    <3> QED
      BY <3>2
  <2>2. CASE ~Rolls(U)
    BY <2>2 DEF Open
  <2> QED
    BY <2>1, <2>2
<1>8. CASE pol'[p] = pol[p]
  <2>1. Known(p, pol[p])
    BY <1>2 DEF KnownInv
  <2>2. \A v \in 1..made : v \in Udata
    BY <1>4, BoundsAssumption DEF Udata
  <2>3. made <= made' /\ Done <= Done' /\ did \subseteq did'
    <3>1. Done \in Int
      BY DEF Done, HInv, IInv, TypeOK
    <3> QED
      BY <1>2, <1>4, <3>1
  <2> QED
    BY <1>3, <1>6, <1>8, <2>1, <2>2, <2>3, KnownStays
<1>9. CASE rf[U].policy = p /\ pol'[p] = Initialized(pol[p], U)
  <2>1. Named(cur, p)
    BY <1>1, <1>2, <1>9 DEF HInv, CausesInv, NamedInv
  <2>2. PICK n \in 1..Done : Names(n, p)
    BY <1>1, <1>4, <2>1, NamedRead
  <2>3. n \in 1..Done' /\ Names(n, p)' /\ U \in 1..made' /\ rf'[U].dirs = 1 /\ rf'[U].policy = p
    BY <1>1, <1>2, <1>3, <1>4, <1>5, <1>9, <2>2 DEF Names
  <2> QED
    BY <1>1, <1>9, <2>3, KnownInitialized, Typing
<1> QED
  BY <1>7, <1>8, <1>9

LEMMA KnownClose == ASSUME HInv, HInv', KnownInv, NEW a \in Appenders, Close(a),
                           app[a].udata # Null
                    PROVE  KnownInv'
<1> DEFINE r == app[a].udata
           q == rf[r].policy
<1>1. r \in Udata /\ r # Null /\ q \in Policies \cup {NoPolicy}
  BY Typing
<1>2. /\ rf' = [rf EXCEPT ![r] = NoRf]
      /\ pol' = IF Rolls(r) THEN [pol EXCEPT ![q] = Finished(@)] ELSE pol
      /\ "close" \in did' /\ did \subseteq did' /\ pc = "up"
      /\ UNCHANGED <<made, todo, loaded>>
  BY DEF Close, Closed
<1>3. Done' = Done /\ \A n, p : (Names(n, p)' <=> Names(n, p)) /\ (Describes(n, p)' <=> Describes(n, p))
  BY <1>2 DEF Done, Names, Describes
<1> SUFFICES ASSUME NEW p \in Policies PROVE Known(p, pol[p])'
  BY DEF KnownInv
<1>4. Known(p, pol[p])
  BY <1>2 DEF KnownInv
<1>5. /\ pol'[p].rf = pol[p].rf
      /\ pol'[p] = pol[p] \/ (p = q /\ pol'[p].sw = Nothing)
      /\ p = q => pol'[p].sw \notin Udata
  <2>1. CASE p = q
    <3>1. Rolls(r) /\ pol'[p] = Finished(pol[p])
      BY <1>1, <1>2, <2>1, Typing, NamesAssumption DEF Rolls
    <3>2. pol[p] \in PolType /\ (pol[p].init = 1 <=> pol[p].sw \in Udata)
      BY Typing DEF HInv, IInv, FlagTellsNames
    <3>3. CASE pol[p].init = 1
      <4>1. Finished(pol[p]) = [init |-> 0, sw |-> Nothing, rf |-> pol[p].rf]
        BY <3>2, <3>3 DEF Finished
      <4> QED
        BY <2>1, <3>1, <4>1, UdataNumbers
    <3>4. CASE pol[p].init # 1
      BY <2>1, <3>1, <3>2, <3>4 DEF Finished
    <3> QED
      BY <3>3, <3>4
  <2>2. CASE p # q
    BY <1>1, <1>2, <2>2, Typing
  <2> QED
    BY <2>1, <2>2
<1>0. CASE pol[p].rf = Null
  BY <1>0, <1>5 DEF Known
<1>a. CASE pol[p].rf # Null
  <2> USE <1>a
  <2>6. Nothing # Bare /\ NoRf.dirs = 0
    BY DEF Nothing, Bare, NoRf
  <2>7. pol[p].rf \in Udata
    BY Typing
  <2>8. CASE pol[p].rf = r
    <3>1. rf'[r].dirs = 0
      BY <1>1, <1>2, <2>6, Typing
    <3>2. pol'[p].sw \notin Udata
      <4>1. CASE rf[r].dirs = 1
        BY <1>4, <1>5, <2>8, <4>1 DEF Known
      <4>2. CASE rf[r].dirs = 0
        BY <1>4, <1>5, <2>8, <4>2, UdataNumbers DEF Known
      <4> QED
        BY <1>1, <4>1, <4>2, Typing
    <3>3. pol'[p].sw = Bare => pol[p].sw = Bare
      BY <1>5, <2>6
    <3>4. /\ r \in 1..made /\ \E i \in 1..Done : Names(i, p)
          /\ pol[p].sw = Bare => \E i, j \in 1..Done : i < j /\ Names(i, p) /\ Describes(j, p)
      BY <1>4, <2>8 DEF Known
    <3>5. /\ r \in 1..made' /\ \E i \in 1..Done' : Names(i, p)'
          /\ pol[p].sw = Bare => \E i, j \in 1..Done' : i < j /\ Names(i, p)' /\ Describes(j, p)'
      BY <1>2, <1>3, <3>4
    <3>6. pol'[p].rf = r /\ "close" \in did'
      BY <1>2, <1>5, <2>8
    <3> HIDE DEF r
    <3> QED
      BY <3>1, <3>2, <3>3, <3>5, <3>6 DEF Known
  <2>9. CASE pol[p].rf # r
    <3>1. rf'[pol[p].rf] = rf[pol[p].rf]
      BY <1>2, <2>7, <2>9, Typing
    <3>2. pol'[p].sw = Bare => pol[p].sw = Bare
      BY <1>5, <2>6
    <3>3. pol'[p].sw \in Udata => pol[p].sw \in Udata
      BY <1>5, UdataNumbers
    <3> QED
      BY <1>2, <1>3, <1>4, <1>5, <3>1, <3>2, <3>3 DEF Known
  <2> QED
    BY <2>8, <2>9
<1> QED
  BY <1>0, <1>a

\* The steps that leave what policies know as it is.
LEMMA KnownKept ==
  ASSUME HInv, HInv', KnownInv, UNCHANGED <<pol, made, did>>,
         pc \notin {"off", "fini"} \/ pc' \in {"off", "fini"},
         \A v \in Udata : rf'[v].dirs = rf[v].dirs /\ rf'[v].policy = rf[v].policy,
         Done' = Done, \A n \in 1..Done : n \in DOMAIN loaded' /\ loaded'[n] = loaded[n]
  PROVE  KnownInv'
<1> SUFFICES ASSUME pc' \notin {"off", "fini"}, NEW p \in Policies PROVE Known(p, pol[p])'
  BY DEF KnownInv
<1>1. made \in Nat /\ 1..made \subseteq Udata
  BY BoundsAssumption DEF Udata, HInv, IInv, TypeOK
<1>2. Done \in Int
  BY DEF Done, HInv, IInv, TypeOK
<1>3. Known(p, pol[p])
  BY DEF KnownInv
<1> QED
  BY <1>1, <1>2, <1>3, KnownStays

LEMMA DoneRead == HInv => \A n \in 1..Done : n \in DOMAIN loaded
<1> SUFFICES ASSUME HInv PROVE \A n \in 1..Done : n \in DOMAIN loaded
  OBVIOUS
<1>1. Len(todo) \in Nat /\ loaded \in Seq(Element)
  BY DEF HInv, IInv, TypeOK
<1> QED
  BY <1>1 DEF Done

LEMMA KnownStep == ASSUME HInv, HInv', KnownInv, [Next]_vars PROVE KnownInv'
<1>0. \A n \in 1..Done : n \in DOMAIN loaded
  BY DoneRead
<1>1. CASE \E e \in Element : LoadPolicy(e)
  <2> PICK e \in Element : LoadPolicy(e)
    BY <1>1
  <2>1. CASE fault' = "none"
    BY <2>1, KnownLoadPolicy
  <2>2. CASE fault' # "none"
    <3>1. UNCHANGED <<rf, pol, made, pc, todo, loaded, did>>
      BY <2>2 DEF LoadPolicy, Loads, Up, Fault
    <3> QED
      BY <1>0, <3>1, KnownKept DEF Done, KnownInv
  <2> QED
    BY <2>1, <2>2
<1>2. CASE \E e \in Element : LoadAppender(e)
  BY <1>2, KnownLoadAppender
<1>3. CASE Setup
  BY <1>3, KnownConfigure DEF Setup
<1>4. CASE Open
  BY <1>4, KnownOpen
<1>5. CASE \E a \in Appenders : Close(a)
  <2> PICK a \in Appenders : Close(a)
    BY <1>5
  <2>1. CASE app[a].udata # Null
    BY <2>1, KnownClose
  <2>2. CASE app[a].udata = Null
    <3>1. UNCHANGED <<rf, pol, made, pc, todo, loaded, did>> /\ pc = "up"
      BY <2>2 DEF Close, Fault
    <3> QED
      BY <1>0, <3>1, KnownKept DEF Done
  <2> QED
    BY <2>1, <2>2
<1>6. CASE \E triggers \in BOOLEAN : Write(triggers)
  <2>1. /\ UNCHANGED <<pol, made, todo, loaded, did>> /\ pc = "write"
        /\ rf' = rf \/ \E fp : rf' = [rf EXCEPT ![U].fp = fp]
    <3> PICK triggers \in BOOLEAN : Write(triggers)
      BY <1>6
    <3> QED
      BY DEF Write, Fault
  <2>2. \A v \in Udata : rf'[v].dirs = rf[v].dirs /\ rf'[v].policy = rf[v].policy
    BY <2>1, Typing
  <2> QED
    BY <1>0, <2>1, <2>2, KnownKept DEF Done
<1>7. CASE \E text \in Texts : Begin(text)
  BY <1>7 DEF Begin, HInv, PointersInv, OffInv, KnownInv, Known, NoPol
<1>8. CASE \E text \in Rereads : Reread(text)
  <2> PICK text \in Rereads : Reread(text)
    BY <1>8
  <2>1. text \in Seq(Element) /\ loaded \in Seq(Element) /\ todo = << >> /\ pc = "up"
        /\ loaded' = loaded \o text /\ todo' = text /\ UNCHANGED <<rf, pol, made, did>>
    BY TextsAssumption DEF Reread, HInv, PointersInv, TodoInv, IInv, TypeOK
  <2>2. /\ Len(loaded') = Len(loaded) + Len(text)
        /\ \A i \in DOMAIN loaded : i \in DOMAIN loaded' /\ loaded'[i] = loaded[i]
    BY <2>1, NamesStay DEF HInv, IInv
  <2>3. Done' = Done
    BY <2>1, <2>2 DEF Done
  <2> QED
    BY <1>0, <2>1, <2>2, <2>3, KnownKept
<1>9. CASE \E a \in Appenders : DeleteAppender(a)
  BY <1>9 DEF DeleteAppender, Fault, KnownInv
<1>10. CASE DeletePolicies
  BY <1>10 DEF DeletePolicies, KnownInv
<1>11. CASE LoadDone \/ Fini \/ (\E a \in Appenders : Append1(a))
  <2>1. UNCHANGED <<rf, pol, made, todo, loaded, did>> /\ pc \in {"load", "up"}
    BY <1>11 DEF LoadDone, Fini, Append1
  <2> QED
    BY <1>0, <2>1, KnownKept DEF Done
<1>12. CASE OpenDefault \/ OpenWithoutDirs
  <2>1. UNCHANGED <<rf, pol, made, todo, loaded, did>> /\ pc = "open"
    BY <1>12 DEF OpenDefault, OpenWithoutDirs, Fault
  <2> QED
    BY <1>0, <2>1, KnownKept DEF Done
<1>13. CASE UNCHANGED vars
  BY <1>0, <1>13, KnownKept DEF vars, Done, KnownInv
<1> QED
  BY <1>1, <1>2, <1>3, <1>4, <1>5, <1>6, <1>7, <1>8, <1>9, <1>10, <1>11, <1>12, <1>13
  DEF Next, Load, Log

-----------------------------------------------------------------------------
(* A NULL that is followed has its cause in what was read or done.          *)

\* The directory that an element of a policy finds freed was freed by a close,
\* and the element was read before.
LEMMA FreedHasCause ==
  ASSUME HInv, KnownInv, NEW e \in Element, Loads(e), e.appender = "none",
         pol[e.policy].sw # Nothing, pol[e.policy].rf # Null, rf[pol[e.policy].rf].dirs = 0
  PROVE  "close" \in did /\ PolicyTwiceMore
<1> DEFINE p == pol[e.policy]
<1>1. todo \in Seq(Element) /\ loaded \in Seq(Element) /\ todo # << >> /\ e = todo[1]
  BY DEF HInv, IInv, TypeOK, Loads
<1>2. Len(todo) \in Nat \ {0} /\ Len(loaded) \in Nat /\ Len(todo) <= Len(loaded)
  BY <1>1 DEF HInv, PointersInv, TodoInv
<1>3. loaded[Done + 1] = e /\ Done \in Nat /\ Done + 1 \in DOMAIN loaded
  BY <1>1, <1>2 DEF HInv, PointersInv, TodoInv, Done
<1>4. e.policy \in Policies /\ p \in PolType
  BY NamesAssumption, Typing DEF Element
<1>5. "close" \in did /\ p.sw \notin Udata
  BY <1>4 DEF KnownInv, Known, Loads
<1>6. p.sw = Bare
  BY <1>4, <1>5
<1>7. PICK i, j \in 1..Done : i < j /\ Names(i, e.policy) /\ Describes(j, e.policy)
  BY <1>4, <1>6 DEF KnownInv, Known, Loads
<1>8. Describes(Done + 1, e.policy)
  BY <1>3 DEF Describes
<1>9. i \in DOMAIN loaded /\ j \in DOMAIN loaded /\ j < Done + 1
  BY <1>3, DoneRead
<1> QED
  BY <1>3, <1>4, <1>5, <1>7, <1>8, <1>9, Zenon DEF PolicyTwiceMore

LEMMA MissingHasCause ==
  ASSUME HInv, NEW e \in Element, Loads(e), e.appender = "none", ~e.sizes
  PROVE  SizesMissing
<1>1. todo \in Seq(Element) /\ loaded \in Seq(Element) /\ todo # << >> /\ e = todo[1]
  BY DEF HInv, IInv, TypeOK, Loads
<1>2. Len(todo) \in Nat \ {0} /\ Len(loaded) \in Nat /\ Len(todo) <= Len(loaded)
  BY <1>1 DEF HInv, PointersInv, TodoInv
<1>3. loaded[Done + 1] = e /\ Done + 1 \in DOMAIN loaded
  BY <1>1, <1>2 DEF HInv, PointersInv, TodoInv, Done
<1> QED
  BY <1>3 DEF SizesMissing

LEMMA OmittedHasCause ==
  ASSUME HInv, NEW a \in Appenders, app[a].type # "none", app[a].udata = Null
  PROVE  PolicyOmitted
<1>1. Named(a, NoPolicy)
  BY Typing DEF HInv, CausesInv, NamedInv
<1> QED
  BY <1>1, NamesAssumption DEF Named, PolicyOmitted, Names

LEMMA WriteHasCause ==
  ASSUME HInv, NEW triggers \in BOOLEAN, Write(triggers), FaultsHaveCause
  PROVE  FaultsHaveCause'
<1>1. /\ cur \in Appenders /\ app[cur].type = "rollingfile" /\ app[cur].isopen = 1
      /\ pc = "write" /\ U = app[cur].udata
  BY Typing DEF Write, U, HInv, PointersInv, CurInv
<1>2. CASE U = Null
  <2>1. PolicyOmitted /\ Fault("udata")
    BY <1>1, <1>2, OmittedHasCause DEF Write
  <2> QED
    BY <2>1 DEF Fault, FaultsHaveCause, PolicyOmitted, Names
<1>3. CASE U # Null
  <2>1. /\ rf[U].fp = Null => "reread" \in did
        /\ Rolls(U) /\ pol[rf[U].policy].sw = Nothing => "close" \in did /\ PolicyShared
    BY <1>1, <1>3 DEF HInv, CausesInv, OpenInv, Rolls
  <2>2. CASE Rolls(U) /\ pol[rf[U].policy].sw = Nothing
    <3>1. Fault("policy udata")
      BY <1>3, <2>2 DEF Write
    <3> QED
      BY <2>1, <2>2, <3>1 DEF Fault, FaultsHaveCause, PolicyShared, Names
  <2>3. CASE ~(Rolls(U) /\ pol[rf[U].policy].sw = Nothing)
    <3> DEFINE fp == IF Rolls(U) /\ triggers THEN RolledOver(pol[rf[U].policy], rf[U].fp)
                                             ELSE rf[U].fp
    <3>1. fp = Null => rf[U].fp = Null
      BY Typing DEF RolledOver
    <3>2. CASE fp = Null
      <4>1. Fault("stream")
        BY <1>3, <2>3, <3>2 DEF Write
      <4> QED
        BY <2>1, <3>1, <3>2, <4>1 DEF Fault, FaultsHaveCause
    <3>3. CASE fp # Null
      <4>1. fault' = fault /\ fault = "none"
        BY <1>3, <2>3, <3>3 DEF Write, Up
      <4> QED
        BY <4>1 DEF FaultsHaveCause
    <3> QED
      BY <3>2, <3>3
  <2> QED
    BY <2>2, <2>3
<1> QED
  BY <1>2, <1>3

LEMMA StepHasCause ==
  ASSUME HInv, KnownInv, [Next]_vars, FaultsHaveCause PROVE FaultsHaveCause'
<1>1. CASE fault' = "none"
  BY <1>1 DEF FaultsHaveCause
<1>2. CASE UNCHANGED <<fault, loaded, did>>
  <2>1. SizesMissing' = SizesMissing /\ PolicyOmitted' = PolicyOmitted /\ PolicyShared' = PolicyShared
    BY <1>2 DEF SizesMissing, PolicyOmitted, PolicyShared, Names
  <2>2. PolicyTwice' = PolicyTwice
    BY <1>2 DEF PolicyTwice, Names, Describes
  <2>3. PolicyTwiceMore' = PolicyTwiceMore
    BY <1>2 DEF PolicyTwiceMore, Names, Describes
  <2> QED
    BY <1>2, <2>1, <2>2, <2>3 DEF FaultsHaveCause
<1>3. CASE \E a \in Appenders : Close(a) \/ DeleteAppender(a)
  <2> PICK a \in Appenders : Close(a) \/ DeleteAppender(a)
    BY <1>3
  <2>1. Up /\ (fault' = fault \/ (Fault("udata") /\ app[a].isopen # 0 /\ app[a].udata = Null))
    BY DEF Close, DeleteAppender
  <2>2. CASE fault' = fault
    BY <1>1, <2>1, <2>2 DEF Up
  <2>3. CASE Fault("udata") /\ app[a].isopen # 0 /\ app[a].udata = Null
    <3>1. PolicyOmitted
      BY <2>3, OmittedHasCause DEF HInv, PointersInv, OwnInv, NoApp
    <3> QED
      BY <2>3, <3>1 DEF Fault, FaultsHaveCause, PolicyOmitted, Names
  <2> QED
    BY <2>1, <2>2, <2>3
<1>4. CASE \E e \in Element : LoadPolicy(e)
  <2> PICK e \in Element : LoadPolicy(e)
    BY <1>4
  <2> DEFINE p == pol[e.policy]
  <2>0. Loads(e) /\ e.appender = "none"
    BY DEF LoadPolicy
  <2>1. CASE ~e.sizes
    <3>1. Fault("attributes") /\ SizesMissing
      BY <2>0, <2>1, MissingHasCause DEF LoadPolicy
    <3> QED
      BY <3>1 DEF Fault, FaultsHaveCause, SizesMissing
  <2>2. CASE e.sizes /\ p.sw # Nothing /\ p.rf = Null
    <3>1. Fault("rfudata") /\ PolicyTwice
      BY <2>0, <2>2, TwiceHasCause DEF LoadPolicy
    <3>2. PolicyTwice' = PolicyTwice
      BY <3>1 DEF Fault, PolicyTwice, Names, Describes
    <3> QED
      BY <3>1, <3>2 DEF Fault, FaultsHaveCause
  <2>3. CASE e.sizes /\ p.sw # Nothing /\ p.rf # Null /\ rf[p.rf].dirs = 0
    <3>1. Fault("logdir") /\ "close" \in did /\ PolicyTwiceMore
      BY <2>0, <2>3, FreedHasCause DEF LoadPolicy
    <3> QED
      BY <3>1 DEF Fault, FaultsHaveCause, PolicyTwiceMore, Names, Describes
  <2>4. CASE e.sizes /\ ~(p.sw # Nothing /\ (p.rf = Null \/ rf[p.rf].dirs = 0))
    BY <1>1, <2>4 DEF LoadPolicy, Loads, Up
  <2> QED
    BY <2>1, <2>2, <2>3, <2>4
<1>5. CASE OpenWithoutDirs
  <2>1. "close" \in did
    BY <1>5, Typing DEF OpenWithoutDirs, U, HInv, CausesInv, DirsInv
  <2> QED
    BY <1>5, <2>1 DEF OpenWithoutDirs, Fault, FaultsHaveCause
<1>6. CASE \E triggers \in BOOLEAN : Write(triggers)
  BY <1>6, WriteHasCause
<1>7. CASE \E text \in Texts : Begin(text)
  BY <1>1, <1>7 DEF Begin, HInv, PointersInv, CurInv
<1>8. CASE Setup \/ (\E text \in Rereads : Reread(text)) \/ (\E e \in Element : LoadAppender(e))
  BY <1>1, <1>8 DEF Setup, Configure, Reread, LoadAppender, Loads, Up
<1>9. CASE \/ LoadDone \/ OpenDefault \/ Open \/ Fini \/ DeletePolicies
           \/ \E a \in Appenders : Append1(a)
           \/ UNCHANGED vars
  BY <1>2, <1>9 DEF LoadDone, OpenDefault, Open, Fini, DeletePolicies, Append1, vars
<1> QED
  BY <1>3, <1>4, <1>5, <1>6, <1>7, <1>8, <1>9 DEF Next, Load, Log

(* Whatever is configured, reread and called, a NULL is followed only after *)
(* its cause: a policy read twice before an appender named it, or twice     *)
(* more and closed, without its sizes, omitted, or shared, a close by the   *)
(* program, a reread of an open appender.                                   *)
THEOREM CausesKnown == Spec => []FaultsHaveCause
<1>1. Init => FaultsHaveCause
  BY DEF Init, FaultsHaveCause
<1>2. Init => KnownInv
  BY DEF Init, KnownInv
<1>3. HInv /\ HInv' /\ KnownInv /\ FaultsHaveCause /\ [Next]_vars => KnownInv' /\ FaultsHaveCause'
  BY KnownStep, StepHasCause
<1> QED
  BY <1>1, <1>2, <1>3, HistoryInvariant, PTL DEF Spec

=============================================================================
