-------------------------- MODULE InstancesProofs --------------------------
(***************************************************************************)
(* What TLAPS proves of Instances, for any names and configurations.       *)
(*                                                                         *)
(* An appender that was not given another type while it was in use has     *)
(* user data that fits its type, and holds what its close gives back.  The *)
(* functions of rc.c keep this element by element, the appenders' open and *)
(* append message by message.                                              *)
(***************************************************************************)
EXTENDS Instances, TLAPS

AppenderNames == Appenders \cup {"stdout", "stderr"}

Caused(h, a, what) == \E w \in what : <<a, w>> \in h

\* User data, and what is held, fit the type.
Fits(app) ==
  /\ app.isopen = 0 => app.holds = {}
  /\ app.type = NULL => app.isopen = 0
  /\ app.type = "stream" =>
       app.udata \in {NULL, "FILE"} /\ app.holds \subseteq {"file"}
         /\ (app.isopen = 1 => app.udata = "FILE")
  /\ app.type = "stream2" =>
       app.udata \in {NULL, "stream2"} /\ app.holds \subseteq {"file"}
         /\ (app.isopen = 1 => app.udata = "stream2")
  /\ app.type = "mmap" =>
       app.udata \in {NULL, "mmap", "failed mmap"} /\ app.holds \subseteq {"mapping"}
         /\ (app.isopen = 1 => app.udata # NULL)
  /\ app.type = "syslog" => app.holds = {}
  /\ app.type = "rollingfile" =>
       app.udata \in {NULL, "new rollingfile", "rollingfile"} /\ app.holds \subseteq {"file"}
         /\ app.udata # IF app.isopen = 1 THEN "new rollingfile" ELSE "rollingfile"

\* Appenders with a layout of the instances s.
Apps(s) ==
  [type : AppenderTypes \cup {NULL}, layout : DOMAIN s.layouts, isopen : {0, 1},
   udata : UserData, policy : Policies \cup {NULL}, holds : SUBSET {"file", "mapping"}]

\* Appender a of the instances s, after the history h.
AppSound(s, h, a, app) ==
  /\ app \in Apps(s)
  /\ Fits(app) \/ Caused(h, a, {"retyped", "renewed"})
  /\ app.udata \in {"new rollingfile", "rollingfile"} => app.policy \in s.policies
  /\ app.type = NULL => <<a, "unknown type">> \in h

\* Without user data a rolling file appender had no policy, and one of stream2
\* that is open was of another type when it was opened.
Furnished(h, a, app) ==
  /\ app.type = "rollingfile" /\ app.udata = NULL =>
       Caused(h, a, {"no policy", "retyped", "renewed"})
  /\ app.type = "stream2" /\ app.udata = NULL /\ app.isopen = 1 => Caused(h, a, {"retyped"})

IsInst(s) == s = [layouts |-> s.layouts, appenders |-> s.appenders, cats |-> s.cats,
                  policies |-> s.policies, nocleanup |-> s.nocleanup]

Sound(s, h) ==
  /\ IsInst(s)
  /\ DOMAIN s.appenders \subseteq AppenderNames
  /\ \A a \in DOMAIN s.appenders : AppSound(s, h, a, s.appenders[a])
  /\ \A l \in DOMAIN s.layouts : s.layouts[l] = NULL => <<l, "unknown type">> \in h
  /\ \A c \in DOMAIN s.cats : s.cats[c] \in DOMAIN s.appenders \cup {NULL}

AllFurnished(s, h) == \A a \in DOMAIN s.appenders : Furnished(h, a, s.appenders[a])

\* Where log4c_fini is, the factories before are gone.
PlaceInv ==
  /\ types \in BOOLEAN /\ is_init \in {0, 1}
  /\ pc \in {"idle", "load", "categories", "appenders", "policies"}
  /\ todo \in Seq(Elements) /\ (pc = "load" => todo # << >>)
  /\ pc \in {"appenders", "policies"} => DOMAIN inst.cats = {}
  /\ pc = "policies" => DOMAIN inst.appenders = {} /\ DOMAIN inst.layouts = {}

\* What was noted has its cause, for appenders that are deleted too.
CauseInv ==
  /\ fault \in {"none", "null", "other type", "no mapping"}
  /\ \A a \in AppenderNames :
       /\ <<a, "at fault">> \in did =>
            Caused(did, a, {"retyped", "renewed", "no policy", "unmapped"})
       /\ <<a, "dropped">> \in did => Caused(did, a, {"unknown type", "unmappable", "retyped"})
       /\ <<a, "bare">> \in did /\ pc # "policies" =>
            \E l \in DOMAIN inst.layouts : <<l, "unknown type">> \in did
  /\ \A a \in leaked : Caused(did, a, {"retyped", "renewed"})

IInv == Sound(inst, did) /\ AllFurnished(inst, did) /\ PlaceInv /\ CauseInv

\* History g is h and more of what is done to instances, but nothing more of
\* what they did.
Marks == {"at fault", "dropped", "bare"}
Extends(g, h) ==
  /\ h \subseteq g
  /\ \A a \in AppenderNames, w \in Marks : <<a, w>> \in g => <<a, w>> \in h

-----------------------------------------------------------------------------
\* Constants the provers must tell apart.
LEMMA NullApart ==
  /\ \A t \in AppenderTypes : t # NULL
  /\ \A u \in UserData \ {NULL} : u # NULL
  /\ "new rollingfile" # NULL /\ "rollingfile" # NULL
  /\ "stream" # NULL /\ "stream2" # NULL /\ "mmap" # NULL /\ "syslog" # NULL
  /\ \A n \in AppenderNames : n # NULL
BY NamesAssumption DEF AppenderTypes, UserData, AppenderNames

LEMMA ExtendsTransitive ==
  ASSUME NEW f, NEW g, NEW h, Extends(g, h), Extends(f, g)
  PROVE  Extends(f, h)
BY DEF Extends

LEMMA LoadingParts == \A s, h : Loading(s, h).inst = s /\ Loading(s, h).did = h
BY DEF Loading

\* More history keeps what it explains.
LEMMA MoreHistory ==
  ASSUME NEW s, NEW h, NEW g, h \subseteq g, NEW a, NEW app, AppSound(s, h, a, app)
  PROVE  AppSound(s, g, a, app) /\ (Furnished(h, a, app) => Furnished(g, a, app))
BY DEF AppSound, Apps, Furnished, Caused

\* One appender is changed, and the history grows.
LEMMA Changed ==
  ASSUME NEW s, NEW h, NEW g, h \subseteq g, Sound(s, h),
         NEW a \in DOMAIN s.appenders, NEW app, AppSound(s, g, a, app)
  PROVE  LET t == [s EXCEPT !.appenders[a] = app]
         IN  /\ Sound(t, g)
             /\ t.layouts = s.layouts /\ t.cats = s.cats /\ t.policies = s.policies
             /\ DOMAIN t.appenders = DOMAIN s.appenders
             /\ \A b \in DOMAIN s.appenders : t.appenders[b] = IF b = a THEN app ELSE s.appenders[b]
<1> DEFINE t == [s EXCEPT !.appenders[a] = app]
<1>a. t = [layouts |-> s.layouts, appenders |-> [s.appenders EXCEPT ![a] = app],
           cats |-> s.cats, policies |-> s.policies, nocleanup |-> s.nocleanup]
  <2>1. IsInst(s)
    BY DEF Sound
  <2> QED
    BY <2>1 DEF IsInst
<1>1. /\ t.layouts = s.layouts /\ t.cats = s.cats /\ t.policies = s.policies
      /\ DOMAIN t.appenders = DOMAIN s.appenders
      /\ \A b \in DOMAIN s.appenders : t.appenders[b] = IF b = a THEN app ELSE s.appenders[b]
      /\ IsInst(t)
  <2> HIDE DEF t
  <2> QED
    BY <1>a DEF IsInst
<1> HIDE DEF t
<1>2. \A b \in DOMAIN t.appenders : AppSound(t, g, b, t.appenders[b])
  <2> SUFFICES ASSUME NEW b \in DOMAIN s.appenders PROVE AppSound(t, g, b, t.appenders[b])
    BY <1>1
  <2>1. AppSound(s, g, b, t.appenders[b])
    BY <1>1, MoreHistory DEF Sound
  <2> QED
    BY <2>1, <1>1 DEF AppSound, Apps
<1>3. Sound(t, g)
  BY <1>1, <1>2 DEF Sound
<1> QED
  BY <1>1, <1>3 DEF t

LEMMA EmptyDomain == DOMAIN << >> = {}
OBVIOUS

LEMMA LayoutGetSound ==
  ASSUME NEW s, NEW h, NEW n, n # NULL, Sound(s, h)
  PROVE  LET t == LayoutGet(s, n)
         IN  /\ Sound(t, h) /\ n \in DOMAIN t.layouts /\ DOMAIN s.layouts \subseteq DOMAIN t.layouts
             /\ t.appenders = s.appenders /\ t.cats = s.cats /\ t.policies = s.policies
<1> DEFINE defaults == IF DOMAIN s.layouts = {} THEN [m \in {"dated", "basic"} |-> m] ELSE s.layouts
           new == IF n \in DOMAIN defaults THEN defaults ELSE With(defaults, n, "basic")
           t == LayoutGet(s, n)
<1>1. /\ DOMAIN s.layouts \subseteq DOMAIN defaults
      /\ \A l \in DOMAIN defaults : defaults[l] = NULL => <<l, "unknown type">> \in h
  BY NamesAssumption DEF Sound
<1> HIDE DEF defaults
<1>2. /\ DOMAIN defaults \subseteq DOMAIN new /\ n \in DOMAIN new
      /\ \A l \in DOMAIN new : new[l] = NULL => <<l, "unknown type">> \in h
  BY <1>1, NamesAssumption DEF With
<1>3. t = [s EXCEPT !.layouts = new]
  BY DEF LayoutGet, defaults
<1> HIDE DEF new, t
<1>4. /\ t.layouts = new /\ t.appenders = s.appenders /\ t.cats = s.cats /\ t.policies = s.policies
      /\ IsInst(t)
  BY <1>3 DEF Sound, IsInst
<1>5. \A a \in DOMAIN t.appenders : AppSound(t, h, a, t.appenders[a])
  BY <1>1, <1>2, <1>4 DEF Sound, AppSound, Apps
<1>6. Sound(t, h)
  BY <1>2, <1>4, <1>5 DEF Sound
<1> QED
  BY <1>1, <1>2, <1>4, <1>6 DEF t

LEMMA NewAppenderSound ==
  ASSUME NEW s, NEW h, NEW n \in AppenderNames, NEW udata \in {NULL, "FILE"},
         Sound(s, h), AllFurnished(s, h)
  PROVE  LET t == log4c_appender_new(s, n, udata)
         IN  /\ Sound(t, h) /\ AllFurnished(t, h)
             /\ DOMAIN t.appenders = DOMAIN s.appenders \cup {n}
             /\ DOMAIN s.layouts \subseteq DOMAIN t.layouts
             /\ t.cats = s.cats /\ t.policies = s.policies
<1> DEFINE g == LayoutGet(s, "basic")
           app == [type |-> "stream", layout |-> "basic", isopen |-> 0,
                   udata |-> udata, policy |-> NULL, holds |-> {}]
           t == log4c_appender_new(s, n, udata)
<1>1. /\ Sound(g, h) /\ "basic" \in DOMAIN g.layouts /\ DOMAIN s.layouts \subseteq DOMAIN g.layouts
      /\ g.appenders = s.appenders /\ g.cats = s.cats /\ g.policies = s.policies
  BY LayoutGetSound, NamesAssumption
<1>2. t = [g EXCEPT !.appenders = With(@, n, app)]
  BY DEF log4c_appender_new
<1> HIDE DEF g, t
<1>3. AppSound(g, h, n, app) /\ Furnished(h, n, app)
  <2>1. app \in Apps(g)
    BY <1>1 DEF Apps, AppenderTypes, UserData
  <2>2. Fits(app)
    <3>1. /\ app.type = "stream" /\ app.isopen = 0 /\ app.holds = {} /\ app.udata = udata
          /\ app.type # "stream2" /\ app.type # "mmap" /\ app.type # "syslog"
          /\ app.type # "rollingfile" /\ app.isopen # 1
      OBVIOUS
    <3> HIDE DEF app
    <3> QED
      BY <3>1 DEF Fits
  <2>3. app.type # NULL /\ app.udata \notin {"new rollingfile", "rollingfile"}
    BY NamesAssumption DEF AppenderTypes
  <2> QED
    BY <2>1, <2>2, <2>3 DEF AppSound, Apps, Furnished
<1> HIDE DEF app
<1>4. /\ t.appenders = With(s.appenders, n, app) /\ t.layouts = g.layouts
      /\ t.cats = s.cats /\ t.policies = s.policies /\ IsInst(t)
  BY <1>1, <1>2 DEF Sound, IsInst
<1>5. DOMAIN t.appenders = DOMAIN s.appenders \cup {n}
  BY <1>4 DEF With
<1>6. \A a \in DOMAIN t.appenders : AppSound(t, h, a, t.appenders[a]) /\ Furnished(h, a, t.appenders[a])
  <2> SUFFICES ASSUME NEW a \in DOMAIN t.appenders
               PROVE  AppSound(t, h, a, t.appenders[a]) /\ Furnished(h, a, t.appenders[a])
    OBVIOUS
  <2>1. t.appenders[a] = IF a = n THEN app ELSE s.appenders[a]
    BY <1>4 DEF With
  <2>2. AppSound(g, h, a, t.appenders[a]) /\ Furnished(h, a, t.appenders[a])
    BY <2>1, <1>1, <1>3, <1>5 DEF Sound, AllFurnished
  <2> QED
    BY <2>2, <1>4, <1>1 DEF AppSound, Apps
<1>7. Sound(t, h) /\ AllFurnished(t, h)
  BY <1>1, <1>4, <1>5, <1>6 DEF Sound, AllFurnished
<1> QED
  BY <1>1, <1>4, <1>5, <1>7 DEF t

LEMMA AppenderGetSound ==
  ASSUME NEW s, NEW h, NEW n \in AppenderNames, Sound(s, h), AllFurnished(s, h)
  PROVE  LET t == AppenderGet(s, n)
         IN  /\ Sound(t, h) /\ AllFurnished(t, h) /\ n \in DOMAIN t.appenders
             /\ DOMAIN s.appenders \subseteq DOMAIN t.appenders
             /\ DOMAIN s.layouts \subseteq DOMAIN t.layouts
             /\ t.cats = s.cats /\ t.policies = s.policies
<1> DEFINE one == log4c_appender_new(s, "stderr", "FILE")
           two == log4c_appender_new(one, "stdout", "FILE")
           t == IF DOMAIN s.appenders # {} THEN s ELSE two
<1>1. /\ Sound(one, h) /\ AllFurnished(one, h) /\ DOMAIN s.layouts \subseteq DOMAIN one.layouts
      /\ one.cats = s.cats /\ one.policies = s.policies
  BY NewAppenderSound DEF AppenderNames
<1> HIDE DEF one
<1>2. /\ Sound(two, h) /\ AllFurnished(two, h) /\ DOMAIN one.layouts \subseteq DOMAIN two.layouts
      /\ two.cats = s.cats /\ two.policies = s.policies
  BY <1>1, NewAppenderSound, SMTT(30) DEF AppenderNames
<1> HIDE DEF two
<1>3. /\ Sound(t, h) /\ AllFurnished(t, h)
      /\ DOMAIN s.appenders \subseteq DOMAIN t.appenders
      /\ DOMAIN s.layouts \subseteq DOMAIN t.layouts
      /\ t.cats = s.cats /\ t.policies = s.policies
  BY <1>1, <1>2
<1>4. AppenderGet(s, n) = IF n \in DOMAIN t.appenders THEN t ELSE log4c_appender_new(t, n, NULL)
  BY DEF AppenderGet, one, two
<1> HIDE DEF t
<1>5. CASE n \in DOMAIN t.appenders
  BY <1>3, <1>4, <1>5
<1>6. CASE n \notin DOMAIN t.appenders
  <2> DEFINE u == log4c_appender_new(t, n, NULL)
  <2>1. /\ Sound(u, h) /\ AllFurnished(u, h) /\ DOMAIN u.appenders = DOMAIN t.appenders \cup {n}
        /\ DOMAIN t.layouts \subseteq DOMAIN u.layouts
        /\ u.cats = t.cats /\ u.policies = t.policies
    BY <1>3, NewAppenderSound
  <2> HIDE DEF u
  <2> QED
    BY <2>1, <1>3, <1>4, <1>6 DEF u
<1> QED
  BY <1>5, <1>6

LEMMA CategoryGetSound ==
  ASSUME NEW s, NEW h, NEW n, Sound(s, h), AllFurnished(s, h)
  PROVE  LET t == CategoryGet(s, n)
         IN  /\ Sound(t, h) /\ AllFurnished(t, h) /\ n \in DOMAIN t.cats
             /\ t.appenders = s.appenders /\ t.layouts = s.layouts /\ t.policies = s.policies
<1> DEFINE Adds(u, m) == [u EXCEPT !.cats = With(@, m, NULL)]
           t == IF "root" \in DOMAIN s.cats THEN s ELSE Adds(s, "root")
<1>1. ASSUME NEW u, Sound(u, h), AllFurnished(u, h), NEW m
      PROVE  /\ Sound(Adds(u, m), h) /\ AllFurnished(Adds(u, m), h) /\ m \in DOMAIN Adds(u, m).cats
             /\ Adds(u, m).appenders = u.appenders /\ Adds(u, m).layouts = u.layouts
             /\ Adds(u, m).policies = u.policies
  <2> DEFINE v == Adds(u, m)
  <2>0. v = [layouts |-> u.layouts, appenders |-> u.appenders, cats |-> With(u.cats, m, NULL),
             policies |-> u.policies, nocleanup |-> u.nocleanup]
    <3>1. IsInst(u)
      BY <1>1 DEF Sound
    <3> QED
      BY <3>1 DEF IsInst
  <2> HIDE DEF v
  <2>1. /\ v.cats = With(u.cats, m, NULL)
        /\ v.appenders = u.appenders /\ v.layouts = u.layouts /\ v.policies = u.policies /\ IsInst(v)
    BY <2>0 DEF IsInst
  <2>2. \A a \in DOMAIN v.appenders : AppSound(v, h, a, v.appenders[a])
    BY <1>1, <2>1 DEF Sound, AppSound, Apps
  <2>3. \A c \in DOMAIN v.cats : v.cats[c] \in DOMAIN v.appenders \cup {NULL}
    BY <1>1, <2>1 DEF Sound, With
  <2>4. Sound(v, h) /\ AllFurnished(v, h) /\ m \in DOMAIN v.cats
    BY <1>1, <2>1, <2>2, <2>3 DEF Sound, AllFurnished, With
  <2> QED
    BY <2>1, <2>4 DEF v
<1>2. CategoryGet(s, n) = IF n \in DOMAIN t.cats THEN t ELSE Adds(t, n)
  BY DEF CategoryGet
<1> HIDE DEF Adds
<1>3. /\ Sound(t, h) /\ AllFurnished(t, h)
      /\ t.appenders = s.appenders /\ t.layouts = s.layouts /\ t.policies = s.policies
  BY <1>1
<1> HIDE DEF t
<1> QED
  BY <1>1, <1>2, <1>3

-----------------------------------------------------------------------------
LEMMA SetTypeSound ==
  ASSUME NEW s, NEW h, Sound(s, h), NEW a \in DOMAIN s.appenders, NEW t \in AppenderTypes \cup {NULL},
         Furnished(h, a, s.appenders[a])
  PROVE  LET x == SetType(Loading(s, h), a, t)
         IN  /\ x = Loading(x.inst, x.did)
             /\ Sound(x.inst, x.did) /\ Extends(x.did, h)
             /\ x.inst.layouts = s.layouts /\ x.inst.policies = s.policies
             /\ DOMAIN x.inst.appenders = DOMAIN s.appenders
             /\ x.inst.appenders[a].type = t
             /\ t # "rollingfile" => Furnished(x.did, a, x.inst.appenders[a])
             /\ \A b \in DOMAIN s.appenders \ {a} : x.inst.appenders[b] = s.appenders[b]
<1> DEFINE app == s.appenders[a]
           new == [app EXCEPT !.type = t]
           one == IF t # app.type /\ (app.udata # NULL \/ app.isopen = 1)
                  THEN {<<a, "retyped">>} ELSE {}
           two == IF t = NULL THEN {<<a, "unknown type">>} ELSE {}
           g   == h \cup one \cup two
           u   == [s EXCEPT !.appenders[a] = new]
<1>1. SetType(Loading(s, h), a, t) = Loading(u, g)
  BY DEF SetType, Loading
<1>2. AppSound(s, h, a, app)
  BY DEF Sound
<1>3. /\ new.type = t /\ new.layout = app.layout /\ new.isopen = app.isopen
      /\ new.udata = app.udata /\ new.policy = app.policy /\ new.holds = app.holds
      /\ new \in Apps(s)
  BY <1>2 DEF AppSound, Apps
<1>4. Extends(g, h)
  BY DEF Extends, Marks
<1>5. /\ t = NULL => <<a, "unknown type">> \in g
      /\ t # app.type /\ (app.udata # NULL \/ app.isopen = 1) => <<a, "retyped">> \in g
  OBVIOUS
<1> HIDE DEF g
<1>6. Fits(new) \/ Caused(g, a, {"retyped", "renewed"})
  <2>1. CASE t # app.type /\ (app.udata # NULL \/ app.isopen = 1)
    BY <2>1, <1>5 DEF Caused
  <2>2. CASE app.udata = NULL /\ app.isopen = 0
    <3>1. Fits(app) => app.holds = {}
      BY <2>2 DEF Fits
    <3>2. app.holds = {} => Fits(new)
      <4> HIDE DEF new, app
      <4> QED
        <5>1. new.isopen = 0 /\ new.udata = NULL
          BY <1>3, <2>2
        <5>2. new.isopen # 1
          BY <5>1
        <5>3. new.udata # "rollingfile"
          BY <5>1, NullApart
        <5> QED
          BY <5>1, <5>2, <5>3, <1>3 DEF Fits
    <3>3. Caused(h, a, {"retyped", "renewed"}) => Caused(g, a, {"retyped", "renewed"})
      BY <1>4 DEF Caused, Extends
    <3> QED
      BY <3>1, <3>2, <3>3, <1>2 DEF AppSound, Apps
  <2>3. CASE t = app.type
    <3>1. Fits(app) => Fits(new)
      <4> HIDE DEF new, app
      <4> QED
        BY <1>3, <2>3 DEF Fits
    <3>2. Caused(h, a, {"retyped", "renewed"}) => Caused(g, a, {"retyped", "renewed"})
      BY <1>4 DEF Caused, Extends
    <3> QED
      BY <3>1, <3>2, <1>2 DEF AppSound, Apps
  <2> QED
    BY <2>1, <2>2, <2>3, <1>2 DEF AppSound, Apps
<1> HIDE DEF new
<1>7. AppSound(s, g, a, new)
  BY <1>2, <1>3, <1>4, <1>5, <1>6 DEF AppSound, Apps, Extends
<1>8. /\ Sound(u, g) /\ u.layouts = s.layouts /\ u.policies = s.policies
      /\ DOMAIN u.appenders = DOMAIN s.appenders
      /\ \A b \in DOMAIN s.appenders : u.appenders[b] = IF b = a THEN new ELSE s.appenders[b]
  <2>1. h \subseteq g
    BY <1>4 DEF Extends
  <2> HIDE DEF app
  <2> QED
    BY <2>1, <1>7, Changed
<1> HIDE DEF u, app
<1>9. t # "rollingfile" => Furnished(g, a, new)
  <2>1. CASE t # app.type
    BY <2>1, <1>3, <1>5 DEF Furnished, Caused
  <2>2. CASE t = app.type
    <3>1. Furnished(h, a, app)
      BY DEF app
    <3>2. Furnished(g, a, app)
      BY <3>1, <1>4 DEF Furnished, Caused, Extends
    <3> QED
      BY <2>2, <3>2, <1>3 DEF Furnished
  <2> QED
    BY <2>1, <2>2
<1> QED
  BY <1>1, <1>3, <1>4, <1>8, <1>9, LoadingParts

LEMMA SetRollingSound ==
  ASSUME NEW s, NEW h, Sound(s, h), NEW a \in DOMAIN s.appenders, NEW policy \in Policies \cup {NULL},
         s.appenders[a].type \in {NULL, "rollingfile"},
         \A b \in DOMAIN s.appenders \ {a} : Furnished(h, b, s.appenders[b])
  PROVE  LET x == SetRolling(Loading(s, h), a, policy)
         IN  /\ Sound(x.inst, x.did) /\ AllFurnished(x.inst, x.did)
             /\ Extends(x.did, h) /\ x.inst.layouts = s.layouts
             /\ DOMAIN x.inst.appenders = DOMAIN s.appenders
<1> DEFINE app == s.appenders[a]
<1>1. AppSound(s, h, a, app)
  BY DEF Sound
<1>2. CASE policy = NULL
  <2> DEFINE g == h \cup {<<a, "no policy">>}
  <2>1. SetRolling(Loading(s, h), a, policy) = Loading(s, g)
    BY <1>2 DEF SetRolling, Loading
  <2>2. Extends(g, h) /\ h \subseteq g /\ <<a, "no policy">> \in g
    BY DEF Extends, Marks
  <2> HIDE DEF g
  <2>3. Sound(s, g)
    BY <2>2, MoreHistory DEF Sound
  <2>4. AllFurnished(s, g)
    <3> SUFFICES ASSUME NEW b \in DOMAIN s.appenders PROVE Furnished(g, b, s.appenders[b])
      BY DEF AllFurnished
    <3>1. CASE b = a
      <4>1. app.type # "stream2" /\ Caused(g, a, {"no policy", "retyped", "renewed"})
        BY <2>2, NullApart DEF Caused
      <4> QED
        BY <3>1, <4>1 DEF Furnished
    <3>2. CASE b # a
      <4>1. Furnished(h, b, s.appenders[b])
        BY <3>2
      <4> QED
        BY <2>2, <4>1 DEF Furnished, Caused
    <3> QED
      BY <3>1, <3>2
  <2> QED
    BY <2>1, <2>2, <2>3, <2>4, LoadingParts
<1>3. CASE policy # NULL
  <2> DEFINE g   == h \cup IF app.isopen = 1 THEN {<<a, "renewed">>} ELSE {}
             got == PolicyGet(s, policy)
             new == [app EXCEPT !.udata = "new rollingfile", !.policy = policy]
             u   == [got EXCEPT !.appenders[a] = new]
  <2>1. got.appenders = s.appenders /\ got.layouts = s.layouts /\ got.cats = s.cats
        /\ got.policies = s.policies \cup {policy} /\ IsInst(got)
    <3>1. got = [s EXCEPT !.policies = @ \cup {policy}]
      BY DEF PolicyGet
    <3> HIDE DEF got
    <3> QED
      BY <3>1 DEF Sound, IsInst
  <2>2. SetRolling(Loading(s, h), a, policy) = Loading(u, g)
    <3>1. got.appenders[a] = app
      BY <2>1
    <3> HIDE DEF got
    <3>2. [got EXCEPT !.appenders[a].udata = "new rollingfile", !.appenders[a].policy = policy] = u
      BY <3>1
    <3> QED
      BY <3>2, <1>3 DEF SetRolling, Loading, got
  <2> HIDE DEF got
  <2>3. /\ new.type = app.type /\ new.layout = app.layout /\ new.isopen = app.isopen
        /\ new.udata = "new rollingfile" /\ new.policy = policy /\ new.holds = app.holds
        /\ new \in Apps(s)
    BY <1>1 DEF AppSound, Apps, UserData
  <2>4. Extends(g, h) /\ h \subseteq g /\ (app.isopen = 1 => <<a, "renewed">> \in g)
    BY DEF Extends, Marks
  <2> HIDE DEF g, new
  <2>5. Fits(new) \/ Caused(g, a, {"retyped", "renewed"})
    <3>1. CASE app.isopen = 1
      BY <3>1, <2>4 DEF Caused
    <3>2. CASE app.isopen = 0
      <4>1. Fits(app) => Fits(new)
        <5>1. app.type = NULL \/ app.type = "rollingfile"
          OBVIOUS
        <5> HIDE DEF app
        <5>2. new.type # "stream" /\ new.type # "stream2" /\ new.type # "mmap"
          <6>1. new.type = NULL \/ new.type = "rollingfile"
            BY <5>1, <2>3
          <6> QED
            BY <6>1, NullApart
        <5>3. Fits(app) => new.holds = {}
          BY <3>2, <2>3 DEF Fits
        <5>4. new.holds = {} => Fits(new)
          <6>1. new.isopen = 0
            BY <3>2, <2>3
          <6>2. new.isopen # 1
            BY <6>1
          <6>3. new.udata = "new rollingfile"
            BY <2>3
          <6> QED
            BY <5>2, <6>1, <6>2, <6>3 DEF Fits
        <5> QED
          BY <5>3, <5>4
      <4>2. Caused(h, a, {"retyped", "renewed"}) => Caused(g, a, {"retyped", "renewed"})
        BY <2>4 DEF Caused
      <4> QED
        BY <4>1, <4>2, <1>1 DEF AppSound, Apps
    <3> QED
      BY <3>1, <3>2, <1>1 DEF AppSound, Apps
  <2>6. Sound(got, h)
    <3>1. \A b \in DOMAIN got.appenders : AppSound(got, h, b, got.appenders[b])
      BY <2>1 DEF Sound, AppSound, Apps
    <3> QED
      BY <2>1, <3>1 DEF Sound
  <2>7. AppSound(got, g, a, new)
    BY <1>1, <2>1, <2>3, <2>4, <2>5 DEF AppSound, Apps
  <2>8. /\ Sound(u, g) /\ u.layouts = s.layouts
        /\ DOMAIN u.appenders = DOMAIN s.appenders
        /\ \A b \in DOMAIN s.appenders : u.appenders[b] = IF b = a THEN new ELSE s.appenders[b]
    <3> HIDE DEF app
    <3>1. a \in DOMAIN got.appenders
      BY <2>1
    <3>2. /\ Sound(u, g) /\ u.layouts = got.layouts
          /\ DOMAIN u.appenders = DOMAIN got.appenders
          /\ \A b \in DOMAIN got.appenders : u.appenders[b] = IF b = a THEN new ELSE got.appenders[b]
      BY <2>4, <2>6, <2>7, <3>1, Changed
    <3> QED
      BY <2>1, <3>2
  <2> HIDE DEF u, app
  <2>9. AllFurnished(u, g)
    <3> SUFFICES ASSUME NEW b \in DOMAIN u.appenders PROVE Furnished(g, b, u.appenders[b])
      BY DEF AllFurnished
    <3>1. CASE b = a
      BY <3>1, <2>3, <2>8, NullApart DEF Furnished
    <3>2. CASE b # a
      BY <3>2, <2>4, <2>8 DEF Furnished, Caused
    <3> QED
      BY <3>1, <3>2
  <2> QED
    BY <2>2, <2>4, <2>8, <2>9, LoadingParts
<1> QED
  BY <1>2, <1>3

LEMMA ElementSound ==
  ASSUME NEW s, NEW h, Sound(s, h), AllFurnished(s, h), NEW e \in Elements
  PROVE  LET x == Element(Loading(s, h), e)
         IN  /\ Sound(x.inst, x.did) /\ AllFurnished(x.inst, x.did)
             /\ Extends(x.did, h) /\ DOMAIN s.layouts \subseteq DOMAIN x.inst.layouts
<1> DEFINE x == Element(Loading(s, h), e)
<1>0. Extends(h, h)
  BY DEF Extends
<1>1. CASE e \in AppenderElement
  <2> DEFINE a     == e.name
             got   == AppenderGet(s, a)
             y     == Loading(got, h)
             typed == IF e.type = NULL THEN y ELSE SetType(y, a, TypeGet(e.type, AppenderTypes))
             z     == IF e.type = "rollingfile" THEN SetRolling(typed, a, e.policy) ELSE typed
  <2>1. /\ Sound(got, h) /\ AllFurnished(got, h) /\ a \in DOMAIN got.appenders
        /\ DOMAIN s.layouts \subseteq DOMAIN got.layouts
    BY <1>1, AppenderGetSound DEF AppenderElement, AppenderNames
  <2>2. x = IF e.layout = NULL THEN z
            ELSE Loading([LayoutGet(z.inst, e.layout) EXCEPT !.appenders[a].layout = e.layout], z.did)
    BY <1>1 DEF Element, appender_load, AppenderElement, Loading
  <2> HIDE DEF x, got
  <2>3. /\ Sound(typed.inst, typed.did) /\ Extends(typed.did, h)
        /\ typed = Loading(typed.inst, typed.did)
        /\ typed.inst.layouts = got.layouts /\ DOMAIN typed.inst.appenders = DOMAIN got.appenders
        /\ e.type = "rollingfile" => typed.inst.appenders[a].type \in {NULL, "rollingfile"}
        /\ e.type # "rollingfile" => AllFurnished(typed.inst, typed.did)
        /\ \A b \in DOMAIN got.appenders \ {a} : Furnished(typed.did, b, typed.inst.appenders[b])
    <3>1. CASE e.type = NULL
      <4>1. typed = y /\ y.inst = got /\ y.did = h /\ e.type # "rollingfile"
        BY <3>1, LoadingParts, NullApart DEF AppenderTypes
      <4> HIDE DEF typed
      <4>2. y = Loading(y.inst, y.did)
        BY LoadingParts
      <4> HIDE DEF y
      <4> QED
        BY <2>1, <1>0, <4>1, <4>2 DEF AllFurnished
    <3>2. CASE e.type # NULL
      <4> DEFINE t == TypeGet(e.type, AppenderTypes)
                 w == SetType(y, a, t)
      <4>1. t \in AppenderTypes \cup {NULL} /\ t \in {NULL, e.type}
        BY DEF TypeGet
      <4> HIDE DEF t
      <4>3. /\ w = Loading(w.inst, w.did) /\ Sound(w.inst, w.did) /\ Extends(w.did, h)
            /\ w.inst.layouts = got.layouts /\ w.inst.policies = got.policies
            /\ DOMAIN w.inst.appenders = DOMAIN got.appenders
            /\ w.inst.appenders[a].type = t
            /\ t # "rollingfile" => Furnished(w.did, a, w.inst.appenders[a])
            /\ \A b \in DOMAIN got.appenders \ {a} : w.inst.appenders[b] = got.appenders[b]
        <5>1. a \in DOMAIN got.appenders /\ Furnished(h, a, got.appenders[a])
          BY <2>1 DEF AllFurnished
        <5>2. y = Loading(got, h)
          OBVIOUS
        <5> HIDE DEF y
        <5> QED
          BY <2>1, <4>1, <5>1, <5>2, SetTypeSound
      <4>4. typed = w
        BY <3>2 DEF t
      <4> HIDE DEF w, typed
      <4>5. \A b \in DOMAIN got.appenders \ {a} : Furnished(w.did, b, w.inst.appenders[b])
        BY <2>1, <4>3 DEF AllFurnished, Furnished, Caused, Extends
      <4>6. e.type # "rollingfile" => t # "rollingfile"
        BY <4>1, NullApart DEF AppenderTypes
      <4> QED
        BY <4>1, <4>3, <4>4, <4>5, <4>6 DEF AllFurnished
    <3> QED
      BY <3>1, <3>2
  <2> HIDE DEF typed
  <2>4. /\ Sound(z.inst, z.did) /\ AllFurnished(z.inst, z.did) /\ Extends(z.did, h)
        /\ a \in DOMAIN z.inst.appenders /\ z.inst.layouts = got.layouts
    <3>1. CASE e.type = "rollingfile"
      <4> DEFINE w == SetRolling(Loading(typed.inst, typed.did), a, e.policy)
      <4>2. e.policy \in Policies \cup {NULL}
        BY <1>1 DEF AppenderElement
      <4>4. /\ Sound(w.inst, w.did) /\ AllFurnished(w.inst, w.did)
            /\ Extends(w.did, typed.did) /\ w.inst.layouts = typed.inst.layouts
            /\ DOMAIN w.inst.appenders = DOMAIN typed.inst.appenders
        BY <2>1, <2>3, <3>1, <4>2, SetRollingSound
      <4>5. z = w
        BY <3>1, <2>3
      <4> HIDE DEF w, z
      <4> QED
        BY <2>1, <2>3, <4>4, <4>5, ExtendsTransitive
    <3>2. CASE e.type # "rollingfile"
      BY <3>2, <2>1, <2>3
    <3> QED
      BY <3>1, <3>2
  <2> HIDE DEF z
  <2>5. CASE e.layout = NULL
    BY <2>1, <2>2, <2>4, <2>5 DEF x
  <2>6. CASE e.layout # NULL
    <3> DEFINE l   == LayoutGet(z.inst, e.layout)
               app == z.inst.appenders[a]
               new == [app EXCEPT !.layout = e.layout]
               u   == [l EXCEPT !.appenders[a] = new]
    <3>1. /\ Sound(l, z.did) /\ e.layout \in DOMAIN l.layouts
          /\ DOMAIN z.inst.layouts \subseteq DOMAIN l.layouts
          /\ l.appenders = z.inst.appenders
      BY <2>4, <2>6, LayoutGetSound, ZenonT(40)
    <3>2. x = Loading(u, z.did)
      BY <2>2, <2>6, <3>1
    <3> HIDE DEF l
    <3>3. AppSound(l, z.did, a, app)
      BY <2>4, <3>1 DEF Sound
    <3>4. /\ new.type = app.type /\ new.layout = e.layout /\ new.isopen = app.isopen
          /\ new.udata = app.udata /\ new.policy = app.policy /\ new.holds = app.holds
          /\ new \in Apps(l)
      BY <3>1, <3>3 DEF AppSound, Apps
    <3> HIDE DEF new
    <3>5. AppSound(l, z.did, a, new)
      BY <3>3, <3>4 DEF AppSound, Apps, Fits
    <3>6. /\ Sound(u, z.did) /\ u.layouts = l.layouts
          /\ DOMAIN u.appenders = DOMAIN l.appenders
          /\ \A b \in DOMAIN l.appenders : u.appenders[b] = IF b = a THEN new ELSE l.appenders[b]
      <4> HIDE DEF app
      <4>1. a \in DOMAIN l.appenders /\ z.did \subseteq z.did
        BY <2>4, <3>1
      <4> QED
        BY <3>1, <3>5, <4>1, Changed
    <3> HIDE DEF u
    <3>7. AllFurnished(u, z.did)
      <4> SUFFICES ASSUME NEW b \in DOMAIN u.appenders PROVE Furnished(z.did, b, u.appenders[b])
        BY DEF AllFurnished
      <4>1. Furnished(z.did, b, z.inst.appenders[b])
        BY <2>4, <3>1, <3>6 DEF AllFurnished
      <4>2. CASE b = a
        BY <3>1, <3>4, <3>6, <4>1, <4>2 DEF Furnished
      <4>3. CASE b # a
        BY <3>1, <3>6, <4>1, <4>3
      <4> QED
        BY <4>2, <4>3
    <3> QED
      BY <2>1, <2>4, <3>1, <3>2, <3>6, <3>7, LoadingParts DEF x
  <2> QED
    BY <2>5, <2>6
<1>2. CASE e \in LayoutElement
  <2> DEFINE got == LayoutGet(s, e.name)
             t == TypeGet(e.type, LayoutTypes)
             g == h \cup IF t = NULL THEN {<<e.name, "unknown type">>} ELSE {}
             u == [got EXCEPT !.layouts[e.name] = t]
  <2>0. e.name # NULL
    BY <1>2, NamesAssumption DEF LayoutElement
  <2>1. /\ Sound(got, h) /\ e.name \in DOMAIN got.layouts
        /\ DOMAIN s.layouts \subseteq DOMAIN got.layouts /\ got.appenders = s.appenders
    BY <1>2, LayoutGetSound, <2>0
  <2>2. x = IF e.type = NULL THEN Loading(got, h) ELSE Loading(u, g)
    BY <1>2 DEF Element, layout_load, LayoutElement, Loading
  <2>3. Extends(g, h) /\ h \subseteq g /\ (t = NULL => <<e.name, "unknown type">> \in g)
    BY DEF Extends, Marks
  <2> HIDE DEF x, got, g, t
  <2>4. u = [layouts |-> [got.layouts EXCEPT ![e.name] = t], appenders |-> got.appenders,
             cats |-> got.cats, policies |-> got.policies, nocleanup |-> got.nocleanup]
    <3>1. IsInst(got)
      BY <2>1 DEF Sound
    <3> QED
      BY <3>1 DEF IsInst
  <2> HIDE DEF u
  <2>5. /\ u.layouts = [got.layouts EXCEPT ![e.name] = t] /\ u.appenders = got.appenders
        /\ u.cats = got.cats /\ u.policies = got.policies /\ IsInst(u)
    BY <2>4 DEF IsInst
  <2>6. \A a \in DOMAIN u.appenders : AppSound(u, g, a, u.appenders[a])
    <3> SUFFICES ASSUME NEW a \in DOMAIN u.appenders PROVE AppSound(u, g, a, u.appenders[a])
      OBVIOUS
    <3>1. AppSound(got, g, a, u.appenders[a])
      BY <2>1, <2>3, <2>5, MoreHistory DEF Sound
    <3> QED
      BY <3>1, <2>5 DEF AppSound, Apps
  <2>7. Sound(u, g)
    <3>1. \A l \in DOMAIN u.layouts : u.layouts[l] = NULL => <<l, "unknown type">> \in g
      BY <2>1, <2>3, <2>5 DEF Sound
    <3> QED
      BY <2>1, <2>5, <2>6, <3>1 DEF Sound
  <2>8. AllFurnished(got, h) /\ AllFurnished(u, g)
    BY <2>1, <2>3, <2>5 DEF AllFurnished, Furnished, Caused
  <2>9. DOMAIN s.layouts \subseteq DOMAIN u.layouts
    BY <2>1, <2>5
  <2>10. CASE e.type = NULL
    BY <2>1, <2>2, <2>8, <2>10, <1>0, LoadingParts DEF x
  <2>11. CASE e.type # NULL
    <3>1. x.inst = u /\ x.did = g
      BY <2>2, <2>11, LoadingParts
    <3> QED
      BY <2>3, <2>7, <2>8, <2>9, <3>1 DEF x
  <2> QED
    BY <2>10, <2>11
<1>3. CASE e \in CategoryElement
  <2> DEFINE got == CategoryGet(s, e.name)
             o   == AppenderGet(got, e.appender)
             u   == [o EXCEPT !.cats[e.name] = e.appender]
  <2>1. /\ Sound(got, h) /\ AllFurnished(got, h) /\ e.name \in DOMAIN got.cats
        /\ got.layouts = s.layouts
    BY CategoryGetSound
  <2>2. x = IF e.appender = NULL THEN Loading(got, h) ELSE Loading(u, h)
    BY <1>3 DEF Element, category_load, CategoryElement, Loading
  <2> HIDE DEF x, got
  <2>3. CASE e.appender = NULL
    BY <2>1, <2>2, <2>3, <1>0, LoadingParts DEF x
  <2>4. CASE e.appender # NULL
    <3>1. /\ Sound(o, h) /\ AllFurnished(o, h) /\ e.appender \in DOMAIN o.appenders
          /\ DOMAIN got.layouts \subseteq DOMAIN o.layouts /\ o.cats = got.cats
      BY <2>1, <2>4, <1>3, AppenderGetSound DEF CategoryElement, AppenderNames
    <3> HIDE DEF o
    <3>2. u = [layouts |-> o.layouts, appenders |-> o.appenders,
               cats |-> [o.cats EXCEPT ![e.name] = e.appender],
               policies |-> o.policies, nocleanup |-> o.nocleanup]
      <4>1. IsInst(o)
        BY <3>1 DEF Sound
      <4> QED
        BY <4>1 DEF IsInst
    <3> HIDE DEF u
    <3>3. /\ u.layouts = o.layouts /\ u.appenders = o.appenders /\ u.policies = o.policies
          /\ u.cats = [o.cats EXCEPT ![e.name] = e.appender] /\ IsInst(u)
      BY <3>2 DEF IsInst
    <3>4. \A a \in DOMAIN u.appenders : AppSound(u, h, a, u.appenders[a])
      BY <3>1, <3>3 DEF Sound, AppSound, Apps
    <3>5. Sound(u, h) /\ AllFurnished(u, h)
      BY <2>1, <3>1, <3>3, <3>4 DEF Sound, AllFurnished
    <3> QED
      BY <2>1, <2>2, <2>4, <3>1, <3>3, <3>5, <1>0, LoadingParts DEF x
  <2> QED
    BY <2>3, <2>4
<1>4. CASE e \in ConfigElement
  <2> DEFINE u == [s EXCEPT !.nocleanup = e.nocleanup]
  <2>1. x = Loading(u, h)
    BY <1>4 DEF Element, config_load, ConfigElement, Loading
  <2> HIDE DEF x
  <2>2. u = [layouts |-> s.layouts, appenders |-> s.appenders, cats |-> s.cats,
             policies |-> s.policies, nocleanup |-> e.nocleanup]
    <3>1. IsInst(s)
      BY DEF Sound
    <3> QED
      BY <3>1 DEF IsInst
  <2> HIDE DEF u
  <2>3. /\ u.layouts = s.layouts /\ u.appenders = s.appenders /\ u.policies = s.policies
        /\ u.cats = s.cats /\ IsInst(u)
    BY <2>2 DEF IsInst
  <2>4. \A a \in DOMAIN u.appenders : AppSound(u, h, a, u.appenders[a])
    BY <2>3 DEF Sound, AppSound, Apps
  <2>5. Sound(u, h) /\ AllFurnished(u, h)
    BY <2>3, <2>4 DEF Sound, AllFurnished
  <2> QED
    BY <2>1, <2>3, <2>5, <1>0, LoadingParts DEF x
<1> QED
  BY <1>1, <1>2, <1>3, <1>4 DEF Elements

-----------------------------------------------------------------------------
\* The only faults there are.
Faults == {"none", "null", "other type", "no mapping"}

\* What is known of an appender that may have failed.
Known(s, h, a, r) ==
  /\ AppSound(s, h, a, r.app) /\ Furnished(h, a, r.app)
  /\ r.fault \in Faults
  /\ r.fault # "none" =>
       Caused(h, a, {"retyped", "renewed", "no policy"}) \/ r.app.udata = "failed mmap"

\* What is said of a call that goes well: if not that it wrote, then why not.
Told(h, a, r) ==
  /\ r.said \subseteq {"wrote", "unmappable"}
  /\ r.fault = "none" =>
       r.said \cap {"wrote", "unmappable"} # {} \/ Caused(h, a, {"unknown type", "retyped"})

\* What open and append leave of an appender.
Keeps(app, new) ==
  /\ new.type = app.type /\ new.layout = app.layout /\ new.policy = app.policy
  /\ new.udata = NULL => app.udata = NULL
  /\ new.udata \in {"new rollingfile", "rollingfile"} =>
       app.udata \in {"new rollingfile", "rollingfile"}
  /\ new.type = "stream2" /\ new.udata = NULL /\ new.isopen = 1 => app.isopen = 1
  /\ Fits(app) => Fits(new)

LEMMA KeepsSound ==
  ASSUME NEW s, NEW h, NEW a, NEW app, NEW new,
         AppSound(s, h, a, app), Furnished(h, a, app), new \in Apps(s), Keeps(app, new)
  PROVE  AppSound(s, h, a, new) /\ Furnished(h, a, new)
BY DEF AppSound, Furnished, Keeps

\* One field of an appender is changed.
LEMMA OpensFields ==
  ASSUME NEW s, NEW app \in Apps(s)
  PROVE  /\ Opens(app) \in Apps(s) /\ Opens(app).type = app.type /\ Opens(app).layout = app.layout
         /\ Opens(app).policy = app.policy /\ Opens(app).isopen = 1
         /\ Opens(app).udata = app.udata /\ Opens(app).holds = app.holds
BY DEF Opens, Apps

LEMMA UdataFields ==
  ASSUME NEW s, NEW app \in Apps(s), NEW u \in UserData
  PROVE  LET n == [app EXCEPT !.udata = u]
         IN  /\ n \in Apps(s) /\ n.type = app.type /\ n.layout = app.layout
             /\ n.policy = app.policy /\ n.isopen = app.isopen
             /\ n.udata = u /\ n.holds = app.holds
BY DEF Apps

LEMMA HoldsFields ==
  ASSUME NEW s, NEW app \in Apps(s), NEW H \in SUBSET {"file", "mapping"}
  PROVE  LET n == [app EXCEPT !.holds = H]
         IN  /\ n \in Apps(s) /\ n.type = app.type /\ n.layout = app.layout
             /\ n.policy = app.policy /\ n.isopen = app.isopen
             /\ n.udata = app.udata /\ n.holds = H
BY DEF Apps

LEMMA MyFileFields ==
  ASSUME NEW s, NEW app \in Apps(s)
  PROVE  LET n == MyFile(app)
         IN  /\ n \in Apps(s) /\ n.type = app.type /\ n.layout = app.layout
             /\ n.policy = app.policy /\ n.isopen = app.isopen
             /\ n.udata = app.udata /\ n.holds = app.holds \cup {"file"}
<1>1. app.holds \cup {"file"} \in SUBSET {"file", "mapping"}
  BY DEF Apps
<1> QED
  BY <1>1, HoldsFields DEF MyFile

LEMMA Results ==
  \A app :
    /\ Good(app).app = app /\ Good(app).fault = "none" /\ Good(app).said = {}
    /\ Wrote(app).app = app /\ Wrote(app).fault = "none" /\ Wrote(app).said = {"wrote"}
BY DEF Good, Wrote, Outcome

LEMMA ResultsWhy ==
  ASSUME NEW app, NEW why
  PROVE  /\ Bad(app, why).app = app /\ Bad(app, why).fault = why /\ Bad(app, why).said = {}
         /\ OpenFailed(app, why).app = app /\ OpenFailed(app, why).fault = "none"
         /\ OpenFailed(app, why).said = {why}
BY DEF Bad, OpenFailed, Outcome

\* open takes an appender that is closed.
LEMMA OpenSound ==
  ASSUME NEW s, NEW h, NEW a, NEW app, AppSound(s, h, a, app), Furnished(h, a, app),
         app.type # NULL, app.isopen = 0, NEW o \in TypeOpen(app)
  PROVE  /\ Known(s, h, a, o) /\ o.app.type = app.type /\ o.app.isopen \in {0, 1}
         /\ o.said \subseteq {"unmappable"}
         /\ o.fault = "none" /\ o.app.isopen = 0 => o.said = {"unmappable"}
<1>1. /\ app \in Apps(s) /\ app.type \in AppenderTypes
      /\ Fits(app) \/ Caused(h, a, {"retyped", "renewed"})
  BY DEF AppSound, Apps
<1> DEFINE n == Opens(app)
           Sets(u) == [n EXCEPT !.udata = u]
<1>a. /\ n \in Apps(s) /\ n.type = app.type /\ n.layout = app.layout
      /\ n.policy = app.policy /\ n.isopen = 1 /\ n.udata = app.udata /\ n.holds = app.holds
  BY <1>1, OpensFields
<1>b. \A u \in UserData :
        /\ Sets(u) \in Apps(s) /\ Sets(u).type = app.type /\ Sets(u).layout = app.layout
        /\ Sets(u).policy = app.policy /\ Sets(u).isopen = 1
        /\ Sets(u).udata = u /\ Sets(u).holds = app.holds
  <2> HIDE DEF n
  <2> QED
    BY <1>a, UdataFields
<1>2. Caused(h, a, {"retyped", "renewed"}) => Caused(h, a, {"retyped", "renewed", "no policy"})
  BY DEF Caused
<1>3. app.isopen # 1
  OBVIOUS
<1>4. SUFFICES /\ o.app \in Apps(s) /\ Keeps(app, o.app) /\ o.said \subseteq {"unmappable"}
               /\ o.fault = "none" \/ (o.fault = "other type" /\ ~ Fits(app))
               /\ o.fault = "none" /\ o.app.isopen = 0 => o.said = {"unmappable"}
  BY <1>1, <1>2, KeepsSound DEF Known, Faults, Keeps, Apps
<1>5. CASE app.type = "stream"
  <2>1. o \in StreamOpen(app)
    BY <1>5 DEF TypeOpen
  <2>2. /\ o.fault = "none" /\ o.app \in Apps(s)
        /\ o.app.type = app.type /\ o.app.layout = app.layout /\ o.app.policy = app.policy
        /\ o.app.isopen = 1 /\ o.said = {}
        /\ \/ app.udata # NULL /\ o.app.udata = app.udata /\ o.app.holds = app.holds
           \/ app.udata = NULL /\ o.app.udata = "FILE" /\ o.app.holds \in {app.holds, app.holds \cup {"file"}}
    <3> DEFINE m == Sets("FILE")
    <3>1. m \in Apps(s) /\ m.holds = app.holds /\ m.udata = "FILE"
          /\ m.type = app.type /\ m.layout = app.layout /\ m.policy = app.policy /\ m.isopen = 1
      BY <1>b DEF UserData
    <3>2. o \in IF app.udata # NULL THEN {Good(n)} ELSE {Good(m), Good(MyFile(m))}
      BY <2>1 DEF StreamOpen
    <3> HIDE DEF n, m
    <3> QED
      BY <3>1, <3>2, <1>a, MyFileFields, Results
  <2>3. Fits(app) => Fits(o.app)
    BY <2>2, <1>5, <1>3, NullApart DEF Fits
  <2>4. app.type # "stream2"
    BY <1>5
  <2>7. Keeps(app, o.app)
    BY <2>2, <2>3, <2>4, NullApart DEF Keeps
  <2>8. o.app.isopen # 0 /\ o.said \subseteq {"unmappable"}
    BY <2>2
  <2> QED
    BY <2>2, <2>7, <2>8
<1>6. CASE app.type = "stream2"
  <2>1. o \in Stream2Open(app)
    BY <1>6 DEF TypeOpen
  <2>2. CASE app.udata \notin {NULL, "stream2"}
    <3>1. o.fault = "other type" /\ o.app = app /\ o.said = {}
      <4>1. o = Bad(app, "other type")
        BY <2>1, <2>2 DEF Stream2Open
      <4> QED
        BY <4>1 DEF Bad, Outcome
    <3>2. ~ Fits(app)
      BY <2>2, <1>6 DEF Fits
    <3> QED
      BY <3>1, <3>2, <1>1 DEF Keeps
  <2>3. CASE app.udata \in {NULL, "stream2"}
    <3>1. /\ o.fault = "none" /\ o.app \in Apps(s)
          /\ o.app.type = app.type /\ o.app.layout = app.layout /\ o.app.policy = app.policy
          /\ o.app.isopen = 1 /\ o.said = {} /\ o.app.udata = "stream2"
          /\ o.app.holds \in {app.holds, app.holds \cup {"file"}}
      <4> DEFINE m == Sets("stream2")
      <4>1. m \in Apps(s) /\ m.holds = app.holds /\ m.udata = "stream2"
            /\ m.type = app.type /\ m.layout = app.layout /\ m.policy = app.policy /\ m.isopen = 1
        BY <1>b DEF UserData
      <4>2. o \in IF app.udata = "stream2" THEN {Good(n)} ELSE {Good(m), Good(MyFile(m))}
        BY <2>1, <2>3 DEF Stream2Open
      <4> HIDE DEF n, m
      <4> QED
        BY <4>1, <4>2, <1>a, MyFileFields, Results
    <3>2. Fits(app) => Fits(o.app)
      BY <3>1, <1>6, <1>3, NullApart DEF Fits
    <3>7. Keeps(app, o.app)
      BY <3>1, <3>2, NullApart DEF Keeps
    <3>8. o.app.isopen # 0 /\ o.said \subseteq {"unmappable"}
      BY <3>1
    <3> QED
      BY <3>1, <3>7, <3>8
  <2> QED
    BY <2>2, <2>3
<1>7. CASE app.type = "mmap"
  <2>1. o \in MmapOpen(app)
    BY <1>7 DEF TypeOpen
  <2>2. CASE o = OpenFailed(app, "unmappable")
    <3>1. o.app = app /\ o.fault = "none" /\ o.said = {"unmappable"}
      BY <2>2, ResultsWhy
    <3> QED
      BY <3>1, <1>1 DEF Keeps
  <2>3. CASE o # OpenFailed(app, "unmappable")
    <3>1. /\ o.fault = "none" /\ o.app \in Apps(s)
          /\ o.app.type = app.type /\ o.app.layout = app.layout /\ o.app.policy = app.policy
          /\ o.app.isopen = 1 /\ o.said = {}
          /\ \/ app.udata # NULL /\ o.app.udata = app.udata /\ o.app.holds = app.holds
             \/ /\ app.udata = NULL /\ o.app.udata \in {"mmap", "failed mmap"}
                /\ o.app.holds \in {app.holds, app.holds \cup {"mapping"}}
      <4> DEFINE m == [n EXCEPT !.udata = "mmap", !.holds = @ \cup {"mapping"}]
                 f == Sets("failed mmap")
      <4>1. f \in Apps(s) /\ f.holds = app.holds /\ f.udata = "failed mmap"
            /\ f.type = app.type /\ f.layout = app.layout /\ f.policy = app.policy /\ f.isopen = 1
        BY <1>b DEF UserData
      <4>2. m \in Apps(s) /\ m.holds = app.holds \cup {"mapping"} /\ m.udata = "mmap"
            /\ m.type = app.type /\ m.layout = app.layout /\ m.policy = app.policy /\ m.isopen = 1
        <5> HIDE DEF n
        <5> QED
          BY <1>a DEF Apps, UserData
      <4>3. o \in IF app.udata # NULL THEN {Good(n)} ELSE {Good(m), Good(f)}
        BY <2>1, <2>3 DEF MmapOpen
      <4> HIDE DEF n, m, f
      <4>4. CASE app.udata # NULL
        <5>1. o.fault = "none" /\ o.app = n /\ o.said = {}
          BY <4>3, <4>4, Results
        <5> QED
          BY <5>1, <4>4, <1>a
      <4>5. CASE app.udata = NULL
        <5>1. o.fault = "none" /\ o.app \in {m, f} /\ o.said = {}
          BY <4>3, <4>5, Results
        <5> QED
          BY <5>1, <4>1, <4>2, <4>5
      <4> QED
        BY <4>4, <4>5
    <3>2. Fits(app) => Fits(o.app)
      BY <3>1, <1>7, <1>3, NamesAssumption DEF Fits
    <3>3. app.type # "stream2"
      BY <1>7
    <3>7. Keeps(app, o.app)
      BY <3>1, <3>2, <3>3, NamesAssumption DEF Keeps
    <3>8. o.app.isopen # 0 /\ o.said \subseteq {"unmappable"}
      <4>1. o.app.isopen = 1 /\ o.said = {}
        BY <3>1
      <4> QED
        BY <4>1
    <3> QED
      BY <3>1, <3>7, <3>8
  <2> QED
    BY <2>2, <2>3
<1>8. CASE app.type = "syslog"
  <2>1. o = Good(Opens(app))
    BY <1>8 DEF TypeOpen, SyslogOpen
  <2>2. /\ o.fault = "none" /\ o.app \in Apps(s)
        /\ o.app.type = app.type /\ o.app.layout = app.layout /\ o.app.policy = app.policy
        /\ o.app.isopen = 1 /\ o.said = {} /\ o.app.udata = app.udata /\ o.app.holds = app.holds
    BY <2>1, <1>1, OpensFields, Results
  <2>3. Fits(app) => Fits(o.app)
    BY <2>2, <1>8, NullApart DEF Fits
  <2>4. app.type # "stream2"
    BY <1>8
  <2>7. Keeps(app, o.app)
    BY <2>2, <2>3, <2>4 DEF Keeps
  <2>8. o.app.isopen # 0 /\ o.said \subseteq {"unmappable"}
    BY <2>2
  <2> QED
    BY <2>2, <2>7, <2>8
<1>9. CASE app.type = "rollingfile"
  <2>1. o \in RollingOpen(app)
    BY <1>9 DEF TypeOpen
  <2>2. CASE app.udata \in {NULL, "new rollingfile"}
    <3>1. /\ o.fault = "none" /\ o.app \in Apps(s)
          /\ o.app.type = app.type /\ o.app.layout = app.layout /\ o.app.policy = app.policy
          /\ o.app.isopen = 1 /\ o.said = {} /\ o.app.holds = app.holds \cup {"file"}
          /\ o.app.udata = IF app.udata = NULL THEN NULL ELSE "rollingfile"
      <4> DEFINE m == MyFile(n)
                 u == IF app.udata = NULL THEN NULL ELSE "rollingfile"
                 f == [m EXCEPT !.udata = u]
      <4>1. o = Good(f)
        <5>1. m.udata = app.udata
          <6> HIDE DEF n
          <6> QED
            BY <1>a, MyFileFields
        <5> HIDE DEF m
        <5> QED
          BY <2>1, <2>2, <5>1 DEF RollingOpen, m
      <4>2. u \in UserData
        BY DEF UserData
      <4> HIDE DEF n, u
      <4>3. m \in Apps(s) /\ m.holds = app.holds \cup {"file"}
            /\ m.type = app.type /\ m.layout = app.layout /\ m.policy = app.policy /\ m.isopen = 1
        BY <1>a, MyFileFields
      <4> HIDE DEF m
      <4>4. f \in Apps(s) /\ f.holds = app.holds \cup {"file"} /\ f.udata = u
            /\ f.type = app.type /\ f.layout = app.layout /\ f.policy = app.policy /\ f.isopen = 1
        BY <4>2, <4>3, UdataFields
      <4> HIDE DEF f
      <4> QED
        BY <4>1, <4>4, Results DEF u
    <3>2. Fits(app) => Fits(o.app)
      BY <3>1, <1>9, <1>3, NullApart DEF Fits
    <3>3. app.type # "stream2"
      BY <1>9
    <3>7. Keeps(app, o.app)
      BY <3>1, <3>2, <3>3, <2>2, NullApart DEF Keeps
    <3>8. o.app.isopen # 0 /\ o.said \subseteq {"unmappable"}
      BY <3>1
    <3> QED
      BY <3>1, <3>7, <3>8
  <2>3. CASE app.udata \notin {NULL, "new rollingfile"}
    <3>1. o.fault = "other type" /\ o.app = app /\ o.said = {}
      <4>1. o = Bad(app, "other type")
        BY <2>1, <2>3 DEF RollingOpen
      <4> QED
        BY <4>1 DEF Bad, Outcome
    <3>2. ~ Fits(app)
      BY <2>3, <1>9, <1>3 DEF Fits
    <3> QED
      BY <3>1, <3>2, <1>1 DEF Keeps
  <2> QED
    BY <2>2, <2>3
<1> QED
  BY <1>1, <1>5, <1>6, <1>7, <1>8, <1>9 DEF AppenderTypes

\* The append of a type.
LEMMA AppendSound ==
  ASSUME NEW s, NEW h, NEW a, NEW app, AppSound(s, h, a, app), Furnished(h, a, app),
         app.type # NULL, app.isopen = 1, NEW r \in TypeAppend(app)
  PROVE  Known(s, h, a, r) /\ Told(h, a, r)
<1>1. /\ app \in Apps(s) /\ app.type \in AppenderTypes /\ app.isopen \in {0, 1}
      /\ Fits(app) \/ Caused(h, a, {"retyped", "renewed"})
  BY DEF AppSound, Apps
<1>2. Caused(h, a, {"retyped", "renewed"}) => Caused(h, a, {"retyped", "renewed", "no policy"})
  BY DEF Caused
<1>3. Keeps(app, app)
  BY DEF Keeps
<1>4. SUFFICES /\ r.app \in Apps(s) /\ Keeps(app, r.app)
               /\ \/ r.fault = "none"
                  \/ r.fault \in Faults /\ ~ Fits(app)
                  \/ r.fault = "no mapping" /\ r.app.udata = "failed mmap"
                  \/ r.fault = "null" /\ app.type = "rollingfile" /\ app.udata = NULL
               /\ r.said \subseteq {"wrote"}
               /\ \/ r.fault # "none" \/ r.said = {"wrote"}
                  \/ app.type = "stream2" /\ app.udata = NULL
  <2>2. app.type = "stream2" /\ app.udata = NULL => Caused(h, a, {"unknown type", "retyped"})
    BY DEF Furnished, Caused
  <2>1. app.type = "rollingfile" /\ app.udata = NULL => Caused(h, a, {"retyped", "renewed", "no policy"})
    BY DEF Furnished, Caused
  <2> QED
    BY <1>1, <1>2, <1>4, <2>1, <2>2, KeepsSound DEF Known, Told, Faults
<1>6. CASE app.isopen = 1
  <2>1. ASSUME NEW udata, r \in Takes(app, udata)
        PROVE  /\ r.app = app /\ r.said \subseteq {"wrote"}
               /\ r.fault = "none" => r.said = {"wrote"}
               /\ \/ r.fault = "none"
                  \/ r.fault \in {"null", "other type"} /\ app.udata # udata /\
                       (r.fault = "null" => app.udata = NULL)
    <3>1. r = IF app.udata = udata THEN Wrote(app)
              ELSE Bad(app, IF app.udata = NULL THEN "null" ELSE "other type")
      BY <2>1 DEF Takes
    <3>2. CASE app.udata = udata
      BY <3>1, <3>2, Results
    <3>3. CASE app.udata # udata /\ app.udata = NULL
      <4>1. r = Bad(app, "null")
        BY <3>1, <3>3
      <4> QED
        <5>1. r.app = app /\ r.fault = "null" /\ r.said = {}
          BY <4>1 DEF Bad, Outcome
        <5> QED
          BY <3>3, <5>1
    <3>4. CASE app.udata # udata /\ app.udata # NULL
      <4>1. r = Bad(app, "other type")
        BY <3>1, <3>4
      <4> QED
        <5>1. r.app = app /\ r.fault = "other type" /\ r.said = {}
          BY <4>1 DEF Bad, Outcome
        <5> QED
          BY <3>4, <5>1
    <3> QED
      BY <3>2, <3>3, <3>4
  <2>2. app.isopen # 0
    BY <1>6
  <2>3. CASE app.type = "stream"
    <3>1. r \in Takes(app, "FILE")
      BY <2>3, <2>2 DEF TypeAppend, StreamAppend
    <3>2. app.udata # "FILE" => ~ Fits(app)
      BY <1>6, <2>3 DEF Fits
    <3> QED
      BY <2>1, <3>1, <3>2, <1>1, <1>3 DEF Faults
  <2>4. CASE app.type = "stream2"
    <3>1. r \in Takes(app, "stream2") \/ (r = Good(app) /\ app.udata = NULL)
      BY <2>4, <2>2 DEF TypeAppend, Stream2Append
    <3>2. app.udata # "stream2" => ~ Fits(app)
      BY <1>6, <2>4 DEF Fits
    <3>3. CASE r \in Takes(app, "stream2")
      BY <2>1, <3>2, <3>3, <1>1, <1>3 DEF Faults
    <3>4. CASE r = Good(app) /\ app.udata = NULL
      BY <2>4, <3>4, <1>1, <1>3, Results
    <3> QED
      BY <3>1, <3>3, <3>4
  <2>5. CASE app.type = "mmap"
    <3>1. r \in MmapAppend(app)
      BY <2>5, <2>2 DEF TypeAppend
    <3>2. CASE app.udata = "failed mmap"
      <4>1. r = Bad(app, "no mapping")
        BY <3>1, <3>2 DEF MmapAppend
      <4> QED
        <5>1. r.app = app /\ r.fault = "no mapping" /\ r.said = {}
          BY <4>1 DEF Bad, Outcome
        <5> QED
          BY <3>2, <5>1, <1>1, <1>3
    <3>3. CASE app.udata # "failed mmap"
      <4>1. r \in Takes(app, "mmap")
        BY <3>1, <3>3 DEF MmapAppend
      <4>2. app.udata # "mmap" => ~ Fits(app)
        BY <3>3, <1>6, <2>5 DEF Fits
      <4> QED
        BY <2>1, <4>1, <4>2, <1>1, <1>3 DEF Faults
    <3> QED
      BY <3>2, <3>3
  <2>6. CASE app.type = "syslog"
    <3>1. r = Wrote(app)
      BY <2>6, <2>2 DEF TypeAppend, SyslogAppend
    <3> QED
      BY <3>1, <1>1, <1>3, Results
  <2>7. CASE app.type = "rollingfile"
    <3>1. r \in RollingAppend(app)
      BY <2>7, <2>2 DEF TypeAppend
    <3>2. CASE app.udata = "new rollingfile"
      <4> DEFINE m == MyFile(app)
                 f == [m EXCEPT !.udata = "rollingfile"]
      <4>1. r = Bad(app, "null") \/ r = Wrote(f)
        BY <3>1, <3>2 DEF RollingAppend
      <4>2. ~ Fits(app)
        BY <3>2, <2>7, <1>6 DEF Fits
      <4>3. /\ m \in Apps(s) /\ m.type = app.type /\ m.layout = app.layout /\ m.policy = app.policy
        BY <1>1, MyFileFields
      <4>u. "rollingfile" \in UserData
        BY DEF UserData
      <4> HIDE DEF m
      <4>4. f \in Apps(s) /\ f.type = app.type /\ f.layout = app.layout /\ f.policy = app.policy
            /\ f.udata = "rollingfile"
        BY <4>3, <4>u, UdataFields
      <4> HIDE DEF f
      <4>5. Keeps(app, f)
        BY <4>2, <4>4, <3>2, NullApart DEF Keeps
      <4> QED
        <5>1. CASE r = Bad(app, "null")
          <6>1. r.app = app /\ r.fault = "null" /\ r.said = {}
            BY <5>1 DEF Bad, Outcome
          <6> QED
            BY <6>1, <4>2, <1>1, <1>3 DEF Faults
        <5>2. CASE r = Wrote(f)
          BY <5>2, <4>4, <4>5, Results
        <5> QED
          BY <4>1, <5>1, <5>2
    <3>3. CASE app.udata # "new rollingfile"
      <4>1. r \in Takes(app, "rollingfile")
        BY <3>1, <3>3 DEF RollingAppend
      <4>2. app.udata \notin {NULL, "rollingfile"} => ~ Fits(app)
        BY <3>3, <2>7 DEF Fits
      <4> QED
        <5>1. CASE r.fault = "none"
          BY <2>1, <4>1, <5>1, <1>1, <1>3
        <5>2. CASE app.udata = NULL
          <6>1. r.app = app /\ r.fault = "null" /\ r.said = {}
            <7>1. app.udata # "rollingfile"
              BY <5>2, NullApart
            <7>2. r = Bad(app, "null")
              BY <4>1, <5>2, <7>1 DEF Takes
            <7> QED
              BY <7>2 DEF Bad, Outcome
          <6> QED
            BY <6>1, <2>7, <5>2, <1>1, <1>3
        <5>3. CASE r.fault # "none" /\ app.udata # NULL
          BY <2>1, <4>1, <4>2, <5>3, <1>1, <1>3 DEF Faults
        <5> QED
          BY <5>1, <5>2, <5>3
    <3> QED
      BY <3>2, <3>3
  <2> QED
    BY <1>1, <2>3, <2>4, <2>5, <2>6, <2>7 DEF AppenderTypes
<1> QED
  BY <1>6

LEMMA Append1Sound ==
  ASSUME NEW s, NEW h, NEW a, NEW app, AppSound(s, h, a, app), Furnished(h, a, app),
         NEW r \in Append1(app)
  PROVE  Known(s, h, a, r) /\ Told(h, a, r)
<1>1. CASE app.type = NULL
  <2>1. r = Good(app) /\ <<a, "unknown type">> \in h
    BY <1>1 DEF Append1, AppSound
  <2> QED
    BY <2>1, Results DEF Known, Told, Caused, Faults
<1>2. CASE app.type # NULL
  <2>1. PICK o \in IF app.isopen = 1 THEN {Good(app)} ELSE TypeOpen(app) :
             r \in IF o.fault # "none" \/ o.app.isopen = 0 THEN {o} ELSE TypeAppend(o.app)
    BY <1>2 DEF Append1
  <2>2. /\ Known(s, h, a, o) /\ o.app.type = app.type /\ o.app.isopen \in {0, 1}
        /\ o.said \subseteq {"unmappable"}
        /\ o.fault = "none" /\ o.app.isopen = 0 => o.said = {"unmappable"}
    <3>1. CASE app.isopen = 1
      <4>1. o = Good(app)
        BY <2>1, <3>1
      <4> QED
        BY <3>1, <4>1, Results DEF Known, Faults
    <3>2. CASE app.isopen # 1
      <4>1. app.isopen = 0
        BY <3>2 DEF AppSound, Apps
      <4> QED
        BY <1>2, <2>1, <3>2, <4>1, OpenSound
    <3> QED
      BY <3>1, <3>2
  <2>3. CASE o.fault # "none" \/ o.app.isopen = 0
    <3>1. r = o
      BY <2>1, <2>3
    <3> QED
      BY <2>2, <2>3, <3>1 DEF Told
  <2>4. CASE o.fault = "none" /\ o.app.isopen = 1
    <3>1. AppSound(s, h, a, o.app) /\ Furnished(h, a, o.app)
      BY <2>2 DEF Known
    <3>2. o.app.type # NULL
      BY <1>2, <2>2
    <3>3. r \in TypeAppend(o.app)
      <4>1. o.app.isopen # 0
        BY <2>4
      <4> QED
        BY <2>1, <2>4, <4>1
    <3> QED
      BY <2>4, <3>1, <3>2, <3>3, AppendSound
  <2> QED
    BY <2>2, <2>3, <2>4
<1> QED
  BY <1>1, <1>2

\* close takes back what an appender that was never retyped or renewed holds.
LEMMA CloseSound ==
  ASSUME NEW a, NEW app, AppSound(inst, did, a, app), Furnished(did, a, app)
  PROVE  LET r == TypeClose(app)
         IN  /\ r.fault \in {"none", "null", "other type"}
             /\ r.fault # "none" => Caused(did, a, {"retyped", "renewed", "no policy"})
             /\ r.fault = "none" /\ r.app.holds # {} => Caused(did, a, {"retyped", "renewed"})
<1> DEFINE r == TypeClose(app)
<1>1. /\ app \in Apps(inst) /\ app.type \in AppenderTypes \cup {NULL} /\ app.isopen \in {0, 1}
      /\ app.holds \subseteq {"file", "mapping"}
      /\ Fits(app) \/ Caused(did, a, {"retyped", "renewed"})
  BY DEF AppSound, Apps
<1>2. SUFFICES /\ r.fault \in {"none", "null", "other type"}
               /\ r.fault # "none" =>
                    ~ Fits(app) \/ (app.type = "rollingfile" /\ app.udata = NULL)
               /\ r.fault = "none" /\ r.app.holds # {} => ~ Fits(app)
  <2>1. Caused(did, a, {"retyped", "renewed"}) => Caused(did, a, {"retyped", "renewed", "no policy"})
    BY DEF Caused
  <2>2. app.type = "rollingfile" /\ app.udata = NULL =>
          Caused(did, a, {"retyped", "renewed", "no policy"})
    BY DEF Furnished, Caused
  <2> HIDE DEF r
  <2> QED
    BY <1>1, <1>2, <2>1, <2>2 DEF r
<1>3. CASE app.isopen = 0 \/ app.type \in {NULL, "syslog"}
  <2>1. r.app = app /\ r.fault = "none"
    BY <1>3, Results DEF TypeClose
  <2>2. Fits(app) => app.holds = {}
    <3>1. Fits(app) /\ app.type = NULL => app.isopen = 0
      BY DEF Fits
    <3>2. Fits(app) /\ (app.isopen = 0 \/ app.type = "syslog") => app.holds = {}
      BY DEF Fits
    <3> QED
      BY <1>3, <3>1, <3>2
  <2> QED
    BY <2>1, <2>2
<1>4. CASE app.isopen # 0 /\ app.type \notin {NULL, "syslog"}
  <2>0. app.isopen = 1
    BY <1>1, <1>4
  <2>1. ASSUME NEW good, NEW what \in {"file", "mapping"}, r = Gives(app, good, what),
               Fits(app) => app.udata # NULL /\ app.udata \in good /\ app.holds \subseteq {what}
        PROVE  /\ r.fault \in {"none", "other type"}
               /\ r.fault # "none" => ~ Fits(app)
               /\ r.fault = "none" /\ r.app.holds # {} => ~ Fits(app)
    <3> HIDE DEF r
    <3>1. CASE app.udata = NULL
      <4>1. r = Good(app)
        BY <2>1, <3>1 DEF Gives
      <4> QED
        BY <2>1, <3>1, <4>1, Results
    <3>2. CASE app.udata # NULL /\ app.udata \in good
      <4> DEFINE n == [app EXCEPT !.holds = @ \ {what}]
      <4>1. r = Good(n)
        BY <2>1, <3>2 DEF Gives
      <4>2. n.holds = app.holds \ {what}
        BY <1>1 DEF Apps
      <4> HIDE DEF n
      <4>3. r.app = n /\ r.fault = "none"
        BY <4>1, Results
      <4> QED
        BY <2>1, <4>2, <4>3
    <3>3. CASE app.udata # NULL /\ app.udata \notin good
      <4>1. r = Bad(app, "other type")
        BY <2>1, <3>3 DEF Gives
      <4>2. r.app = app /\ r.fault = "other type"
        BY <4>1 DEF Bad, Outcome
      <4> QED
        BY <2>1, <3>3, <4>2
    <3> QED
      BY <3>1, <3>2, <3>3
  <2>2. CASE app.type = "stream"
    <3>1. r = Gives(app, {"FILE"}, "file")
      BY <1>4, <2>2 DEF TypeClose, StreamClose
    <3>2. Fits(app) => app.udata # NULL /\ app.udata \in {"FILE"} /\ app.holds \subseteq {"file"}
      BY <2>0, <2>2, NamesAssumption DEF Fits
    <3> QED
      BY <2>1, <3>1, <3>2
  <2>3. CASE app.type = "stream2"
    <3>1. r = Gives(app, {"stream2"}, "file")
      BY <1>4, <2>3 DEF TypeClose, Stream2Close
    <3>2. Fits(app) => app.udata # NULL /\ app.udata \in {"stream2"} /\ app.holds \subseteq {"file"}
      BY <2>0, <2>3, NullApart DEF Fits
    <3> QED
      BY <2>1, <3>1, <3>2
  <2>4. CASE app.type = "mmap"
    <3>1. r = Gives(app, {"mmap", "failed mmap"}, "mapping")
      BY <1>4, <2>4 DEF TypeClose, MmapClose
    <3>2. Fits(app) => app.udata # NULL /\ app.udata \in {"mmap", "failed mmap"}
                         /\ app.holds \subseteq {"mapping"}
      BY <2>0, <2>4 DEF Fits
    <3> QED
      BY <2>1, <3>1, <3>2
  <2>5. CASE app.type = "rollingfile"
    <3>1. r = RollingClose(app)
      BY <1>4, <2>5 DEF TypeClose
    <3> HIDE DEF r
    <3>2. CASE app.udata = NULL
      <4>1. r = Bad(app, "null")
        BY <3>1, <3>2 DEF RollingClose
      <4>2. r.fault = "null"
        BY <4>1 DEF Bad, Outcome
      <4> QED
        BY <2>5, <3>2, <4>2
    <3>3. CASE app.udata \notin {NULL, "rollingfile"}
      <4>1. ~ Fits(app)
        BY <2>0, <2>5, <3>3 DEF Fits
      <4>2. app.udata = "new rollingfile" => app.policy \in inst.policies
        BY DEF AppSound
      <4>3. CASE app.udata = "new rollingfile"
        <5> DEFINE n == [app EXCEPT !.holds = IF app.udata = "rollingfile" THEN @ \ {"file"} ELSE @]
        <5>1. r = Good(n)
          BY <3>1, <3>3, <4>2, <4>3 DEF RollingClose
        <5> HIDE DEF n
        <5> QED
          BY <4>1, <5>1, Results
      <4>4. CASE app.udata # "new rollingfile"
        <5>1. r = Bad(app, "other type")
          BY <3>1, <3>3, <4>4 DEF RollingClose
        <5>2. r.fault = "other type"
          BY <5>1 DEF Bad, Outcome
        <5> QED
          BY <4>1, <5>2
      <4> QED
        BY <4>3, <4>4
    <3>4. CASE app.udata = "rollingfile"
      <4> DEFINE n == [app EXCEPT !.holds = @ \ {"file"}]
      <4>1. app.policy \in inst.policies
        BY <3>4 DEF AppSound
      <4>2. r = Good(n)
        BY <3>1, <3>4, <4>1, NullApart DEF RollingClose
      <4>3. n.holds = app.holds \ {"file"}
        BY <1>1 DEF Apps
      <4> HIDE DEF n
      <4>4. r.app = n /\ r.fault = "none"
        BY <4>2, Results
      <4>5. Fits(app) => app.holds \subseteq {"file"}
        BY <2>5 DEF Fits
      <4> QED
        BY <4>3, <4>4, <4>5
    <3> QED
      BY <3>2, <3>3, <3>4
  <2> QED
    BY <1>1, <1>4, <2>2, <2>3, <2>4, <2>5 DEF AppenderTypes
<1> QED
  BY <1>3, <1>4

-----------------------------------------------------------------------------
LEMMA Initial == Init => IInv
<1> SUFFICES ASSUME Init PROVE IInv
  OBVIOUS
<1>1. inst.layouts = << >> /\ inst.appenders = << >> /\ inst.cats = << >> /\ IsInst(inst)
  BY DEF Init, NoInstances, IsInst
<1>2. Sound(inst, did) /\ AllFurnished(inst, did)
  BY <1>1, EmptyDomain DEF Sound, AllFurnished
<1>3. PlaceInv
  <2>1. << >> \in Seq(Elements)
    OBVIOUS
  <2> QED
    BY <2>1 DEF Init, PlaceInv
<1>4. CauseInv
  BY DEF Init, CauseInv
<1> QED
  BY <1>2, <1>3, <1>4 DEF IInv

\* Where history grows, and no layout goes, causes stay known.
LEMMA CauseGrows ==
  ASSUME CauseInv, pc # "policies", Extends(did', did),
         DOMAIN inst.layouts \subseteq DOMAIN inst'.layouts, leaked' = leaked, fault' = fault
  PROVE  CauseInv'
<1>1. ASSUME NEW a \in AppenderNames
      PROVE  /\ <<a, "at fault">> \in did' =>
                  Caused(did', a, {"retyped", "renewed", "no policy", "unmapped"})
             /\ <<a, "dropped">> \in did' =>
                  Caused(did', a, {"unknown type", "unmappable", "retyped"})
             /\ <<a, "bare">> \in did' /\ pc' # "policies" =>
                  \E l \in DOMAIN inst'.layouts : <<l, "unknown type">> \in did'
  BY DEF CauseInv, Caused, Extends, Marks
<1>2. \A a \in leaked' : Caused(did', a, {"retyped", "renewed"})
  BY DEF CauseInv, Caused, Extends
<1> QED
  BY <1>1, <1>2 DEF CauseInv

LEMMA LoadStep == IInv /\ Load => IInv'
<1> SUFFICES ASSUME IInv, Load PROVE IInv'
  OBVIOUS
<1> DEFINE x == Element(Loading(inst, did), Head(todo))
<1>1. /\ Sound(inst, did) /\ AllFurnished(inst, did)
      /\ todo \in Seq(Elements) /\ todo # << >> /\ pc = "load"
  BY DEF IInv, PlaceInv, Load
<1>2. Head(todo) \in Elements /\ Tail(todo) \in Seq(Elements)
  BY <1>1
<1>3. /\ Sound(x.inst, x.did) /\ AllFurnished(x.inst, x.did)
      /\ Extends(x.did, did) /\ DOMAIN inst.layouts \subseteq DOMAIN x.inst.layouts
  BY <1>1, <1>2, ElementSound
<1>4. inst' = x.inst /\ did' = x.did
  BY DEF Load
<1> HIDE DEF x
<1>5. Sound(inst', did') /\ AllFurnished(inst', did')
  BY <1>3, <1>4
<1>6. CauseInv'
  BY <1>1, <1>3, <1>4, CauseGrows DEF IInv, Load
<1>7. PlaceInv'
  BY <1>1, <1>2 DEF IInv, PlaceInv, Load
<1> QED
  BY <1>5, <1>6, <1>7 DEF IInv

\* Where only types, is_init, pc and what is to be loaded change.
LEMMA ReadStep ==
  ASSUME IInv, pc = "idle", UNCHANGED <<inst, did, leaked, fault>>,
         types' \in BOOLEAN, is_init' \in {0, 1}, Reads
  PROVE  IInv'
<1>1. Sound(inst', did') /\ AllFurnished(inst', did')
  BY DEF IInv
<1>2. CauseInv'
  BY CauseGrows DEF IInv, Extends
<1>3. PlaceInv'
  BY TextsAssumption DEF IInv, PlaceInv, Reads
<1> QED
  BY <1>1, <1>2, <1>3 DEF IInv

LEMMA GetStep == IInv /\ Get => IInv'
<1> SUFFICES ASSUME IInv, Get PROVE IInv'
  OBVIOUS
<1>1. Sound(inst, did) /\ AllFurnished(inst, did)
  BY DEF IInv
<1>2. /\ Sound(inst', did) /\ AllFurnished(inst', did)
      /\ DOMAIN inst.layouts \subseteq DOMAIN inst'.layouts
  <2>1. CASE \E n \in Categories \cup {"root"} : inst' = CategoryGet(inst, n)
    BY <1>1, <2>1, CategoryGetSound
  <2>2. CASE \E n \in Appenders : inst' = AppenderGet(inst, n)
    BY <1>1, <2>2, AppenderGetSound DEF AppenderNames
  <2> QED
    BY <2>1, <2>2 DEF Get
<1>3. CauseInv'
  BY <1>2, CauseGrows DEF IInv, Get, Extends
<1>4. PlaceInv'
  BY DEF IInv, PlaceInv, Get
<1> QED
  BY <1>2, <1>3, <1>4 DEF IInv, Get

LEMMA LogStep == IInv /\ Log => IInv'
<1> SUFFICES ASSUME IInv, Log PROVE IInv'
  OBVIOUS
<1>1. Sound(inst, did) /\ AllFurnished(inst, did) /\ pc = "idle"
  BY DEF IInv, Log
<1>2. PICK c \in DOMAIN inst.cats :
        /\ inst.cats[c] # NULL
        /\ \E r \in Append1(inst.appenders[inst.cats[c]]) :
             /\ inst' = [inst EXCEPT !.appenders[inst.cats[c]] = r.app]
             /\ fault' = r.fault
             /\ did' = did \cup {<<inst.cats[c], note>> :
                                 note \in Notes(inst.appenders[inst.cats[c]], r)}
  BY DEF Log
<1> DEFINE a   == inst.cats[c]
           app == inst.appenders[a]
<1>3. a \in DOMAIN inst.appenders /\ a \in AppenderNames
  BY <1>1, <1>2 DEF Sound
<1>4. PICK r \in Append1(app) : /\ inst' = [inst EXCEPT !.appenders[a] = r.app]
                                /\ fault' = r.fault
                                /\ did' = did \cup {<<a, note>> : note \in Notes(app, r)}
  BY <1>2
<1>5. AppSound(inst, did, a, app) /\ Furnished(did, a, app)
  BY <1>1, <1>3 DEF Sound, AllFurnished
<1> HIDE DEF app, a
<1>6. Known(inst, did, a, r) /\ Told(did, a, r)
  BY <1>5, Append1Sound
<1>7. did \subseteq did'
  BY <1>4
<1>8. AppSound(inst, did', a, r.app) /\ Furnished(did', a, r.app)
  BY <1>6, <1>7, MoreHistory DEF Known
<1>9. /\ Sound(inst', did') /\ inst'.layouts = inst.layouts /\ inst'.cats = inst.cats
      /\ DOMAIN inst'.appenders = DOMAIN inst.appenders
      /\ \A b \in DOMAIN inst.appenders :
           inst'.appenders[b] = IF b = a THEN r.app ELSE inst.appenders[b]
  <2> DEFINE t   == [inst EXCEPT !.appenders[a] = r.app]
             new == r.app
             g   == did'
  <2>1. AppSound(inst, g, a, new) /\ did \subseteq g
    BY <1>7, <1>8
  <2>2. inst' = t
    BY <1>4
  <2> HIDE DEF new, g
  <2>3. /\ Sound(t, g) /\ t.layouts = inst.layouts /\ t.cats = inst.cats
        /\ DOMAIN t.appenders = DOMAIN inst.appenders
        /\ \A b \in DOMAIN inst.appenders : t.appenders[b] = IF b = a THEN new ELSE inst.appenders[b]
    BY <1>1, <1>3, <2>1, Changed DEF new
  <2> QED
    BY <2>2, <2>3 DEF new, g
<1>10. AllFurnished(inst', did')
  <2> SUFFICES ASSUME NEW b \in DOMAIN inst'.appenders PROVE Furnished(did', b, inst'.appenders[b])
    BY DEF AllFurnished
  <2>1. CASE b = a
    BY <1>8, <1>9, <2>1
  <2>2. CASE b # a
    BY <1>1, <1>7, <1>9, <2>2 DEF AllFurnished, Furnished, Caused
  <2> QED
    BY <2>1, <2>2
<1>11. CauseInv'
  <2>1. fault' \in {"none", "null", "other type", "no mapping"}
    BY <1>4, <1>6 DEF Known, Faults
  <2>2. \A b \in leaked' : Caused(did', b, {"retyped", "renewed"})
    BY <1>7 DEF IInv, CauseInv, Caused, Log
  <2>3. ASSUME NEW b \in AppenderNames
        PROVE  /\ <<b, "at fault">> \in did' =>
                    Caused(did', b, {"retyped", "renewed", "no policy", "unmapped"})
               /\ <<b, "dropped">> \in did' =>
                    Caused(did', b, {"unknown type", "unmappable", "retyped"})
               /\ <<b, "bare">> \in did' /\ pc' # "policies" =>
                    \E l \in DOMAIN inst'.layouts : <<l, "unknown type">> \in did'
    <3>1. ASSUME <<b, "at fault">> \in did'
          PROVE  Caused(did', b, {"retyped", "renewed", "no policy", "unmapped"})
      <4>1. CASE <<b, "at fault">> \in did
        BY <4>1, <1>7 DEF IInv, CauseInv, Caused
      <4>2. CASE <<b, "at fault">> \notin did
        <5>1. b = a /\ "at fault" \in Notes(app, r)
          BY <3>1, <4>2, <1>4
        <5>2. r.fault # "none"
          <6>1. ASSUME r.fault = "none" PROVE FALSE
            <7>1. "at fault" \in r.said
              BY <5>1, <6>1 DEF Notes
            <7> QED
              BY <1>6, <7>1 DEF Told
          <6> QED
            BY <6>1
        <5>3. CASE Caused(did, a, {"retyped", "renewed", "no policy"})
          BY <5>1, <5>3, <1>7 DEF Caused
        <5>4. CASE r.app.udata = "failed mmap"
          <6>1. "unmapped" \in Notes(app, r)
            BY <5>2, <5>4 DEF Notes
          <6>2. <<a, "unmapped">> \in did'
            BY <6>1, <1>4
          <6> QED
            BY <5>1, <6>2 DEF Caused
        <5> QED
          BY <5>2, <5>3, <5>4, <1>6 DEF Known
      <4> QED
        BY <4>1, <4>2
    <3>2. ASSUME <<b, "dropped">> \in did' 
          PROVE  Caused(did', b, {"unknown type", "unmappable", "retyped"})
      <4>1. CASE <<b, "dropped">> \in did
        BY <4>1, <1>7 DEF IInv, CauseInv, Caused
      <4>2. CASE <<b, "dropped">> \notin did
        <5>1. b = a /\ "dropped" \in Notes(app, r)
          BY <3>2, <4>2, <1>4
        <5>2. r.fault = "none" /\ "wrote" \notin r.said
          <6>1. ASSUME r.fault # "none" PROVE FALSE
            BY <5>1, <6>1 DEF Notes
          <6>2. ASSUME "wrote" \in r.said, r.fault = "none" PROVE FALSE
            BY <1>6, <5>1, <6>2 DEF Notes, Told
          <6> QED
            BY <6>1, <6>2
        <5>3. CASE "unmappable" \in r.said
          <6>1. "unmappable" \in Notes(app, r)
            BY <5>2, <5>3 DEF Notes
          <6>2. <<a, "unmappable">> \in did'
            BY <6>1, <1>4
          <6> QED
            BY <5>1, <6>2 DEF Caused
        <5>4. CASE "unmappable" \notin r.said
          BY <1>6, <1>7, <5>1, <5>2, <5>4 DEF Told, Caused
        <5> QED
          BY <5>3, <5>4
      <4> QED
        BY <4>1, <4>2
    <3>3. ASSUME <<b, "bare">> \in did'
          PROVE  \E l \in DOMAIN inst'.layouts : <<l, "unknown type">> \in did'
      <4>1. CASE <<b, "bare">> \in did
        BY <4>1, <1>1, <1>7, <1>9 DEF IInv, CauseInv
      <4>2. CASE <<b, "bare">> \notin did
        <5>1. b = a /\ "bare" \in Notes(app, r)
          BY <3>3, <4>2, <1>4
        <5>2. inst.layouts[app.layout] = NULL
          BY <1>6, <5>1 DEF Notes, Told
        <5>3. app.layout \in DOMAIN inst.layouts
          BY <1>5 DEF AppSound, Apps
        <5> QED
          BY <5>2, <5>3, <1>1, <1>7, <1>9 DEF Sound
      <4> QED
        BY <4>1, <4>2
    <3> QED
      BY <3>1, <3>2, <3>3
  <2> QED
    BY <2>1, <2>2, <2>3 DEF CauseInv
<1>12. PlaceInv'
  BY <1>9 DEF IInv, PlaceInv, Log
<1> QED
  BY <1>9, <1>10, <1>11, <1>12 DEF IInv

LEMMA FiniStep == IInv /\ Fini => IInv'
<1> SUFFICES ASSUME IInv, Fini PROVE IInv'
  OBVIOUS
<1>1. CauseInv'
  BY CauseGrows DEF IInv, Fini, Extends
<1>2. PlaceInv'
  BY DEF IInv, PlaceInv, Fini
<1> QED
  BY <1>1, <1>2 DEF IInv, Fini

LEMMA DeleteCategoriesStep == IInv /\ DeleteCategories => IInv'
<1> SUFFICES ASSUME IInv, DeleteCategories PROVE IInv'
  OBVIOUS
<1>1. /\ inst'.layouts = inst.layouts /\ inst'.appenders = inst.appenders
      /\ inst'.cats = << >> /\ inst'.policies = inst.policies /\ IsInst(inst')
  BY DEF IInv, Sound, IsInst, DeleteCategories
<1>2. Sound(inst', did') /\ AllFurnished(inst', did')
  BY <1>1, EmptyDomain DEF IInv, Sound, AllFurnished, AppSound, Apps, DeleteCategories
<1>3. CauseInv'
  BY <1>1, CauseGrows DEF IInv, DeleteCategories, Extends
<1>4. PlaceInv'
  BY <1>1, EmptyDomain DEF IInv, PlaceInv, DeleteCategories
<1> QED
  BY <1>2, <1>3, <1>4 DEF IInv

LEMMA DeleteAppenderStep ==
  ASSUME IInv, NEW a \in DOMAIN inst.appenders, DeleteAppender(a) PROVE IInv'
<1> DEFINE r == TypeClose(inst.appenders[a])
<1>1. AppSound(inst, did, a, inst.appenders[a]) /\ Furnished(did, a, inst.appenders[a])
  BY DEF IInv, Sound, AllFurnished
<1>2. /\ r.fault \in {"none", "null", "other type"}
      /\ r.fault # "none" => Caused(did, a, {"retyped", "renewed", "no policy"})
      /\ r.fault = "none" /\ r.app.holds # {} => Caused(did, a, {"retyped", "renewed"})
  BY <1>1, CloseSound
<1>3. /\ inst' = [inst EXCEPT !.appenders = Restrict(@, DOMAIN @ \ {a})]
      /\ fault' = r.fault
      /\ leaked' = IF r.fault = "none" /\ r.app.holds # {} THEN leaked \cup {a} ELSE leaked
      /\ did' = did \cup IF r.fault = "none" THEN {} ELSE {<<a, "at fault">>}
      /\ pc = "appenders" /\ UNCHANGED <<types, is_init, pc, todo>>
  BY DEF DeleteAppender
<1> HIDE DEF r
<1>4. /\ inst'.layouts = inst.layouts /\ inst'.cats = inst.cats
      /\ inst'.policies = inst.policies /\ IsInst(inst')
      /\ inst'.appenders = [b \in DOMAIN inst.appenders \ {a} |-> inst.appenders[b]]
  BY <1>3 DEF IInv, Sound, IsInst, Restrict
<1>5. did \subseteq did'
  BY <1>3
<1>6. \A b \in DOMAIN inst'.appenders :
        AppSound(inst', did', b, inst'.appenders[b]) /\ Furnished(did', b, inst'.appenders[b])
  <2> SUFFICES ASSUME NEW b \in DOMAIN inst'.appenders
               PROVE  AppSound(inst', did', b, inst'.appenders[b])
                        /\ Furnished(did', b, inst'.appenders[b])
    OBVIOUS
  <2>1. b \in DOMAIN inst.appenders /\ inst'.appenders[b] = inst.appenders[b]
    BY <1>4
  <2>2. AppSound(inst, did', b, inst.appenders[b]) /\ Furnished(did', b, inst.appenders[b])
    BY <2>1, <1>5, MoreHistory DEF IInv, Sound, AllFurnished
  <2> QED
    BY <2>1, <2>2, <1>4 DEF AppSound, Apps
<1>7. Sound(inst', did') /\ AllFurnished(inst', did')
  <2>1. DOMAIN inst'.cats = {}
    BY <1>3, <1>4 DEF IInv, PlaceInv
  <2> QED
    BY <1>4, <1>5, <1>6, <2>1 DEF IInv, Sound, AllFurnished
<1>8. CauseInv'
  <2>1. ASSUME NEW b \in AppenderNames
        PROVE  /\ <<b, "at fault">> \in did' =>
                    Caused(did', b, {"retyped", "renewed", "no policy", "unmapped"})
               /\ <<b, "dropped">> \in did' =>
                    Caused(did', b, {"unknown type", "unmappable", "retyped"})
               /\ <<b, "bare">> \in did' /\ pc' # "policies" =>
                    \E l \in DOMAIN inst'.layouts : <<l, "unknown type">> \in did'
    <3>1. CASE <<b, "at fault">> \in did' /\ <<b, "at fault">> \notin did
      <4>1. b = a /\ r.fault # "none"
        BY <1>3, <3>1
      <4> QED
        BY <4>1, <1>2, <1>3, <1>4, <1>5 DEF IInv, CauseInv, Caused
    <3>2. CASE ~ (<<b, "at fault">> \in did' /\ <<b, "at fault">> \notin did)
      BY <3>2, <1>3, <1>4, <1>5 DEF IInv, CauseInv, Caused
    <3> QED
      BY <3>1, <3>2
  <2>2. \A b \in leaked' : Caused(did', b, {"retyped", "renewed"})
    BY <1>2, <1>3, <1>5 DEF IInv, CauseInv, Caused
  <2>3. fault' \in {"none", "null", "other type", "no mapping"}
    BY <1>2, <1>3
  <2> QED
    BY <2>1, <2>2, <2>3 DEF CauseInv
<1>9. PlaceInv'
  BY <1>3, <1>4 DEF IInv, PlaceInv
<1> QED
  BY <1>7, <1>8, <1>9 DEF IInv

LEMMA DeleteLayoutsStep == IInv /\ DeleteLayouts => IInv'
<1> SUFFICES ASSUME IInv, DeleteLayouts PROVE IInv'
  OBVIOUS
<1>1. /\ inst'.layouts = << >> /\ inst'.appenders = inst.appenders
      /\ inst'.cats = inst.cats /\ inst'.policies = inst.policies /\ IsInst(inst')
      /\ DOMAIN inst.appenders = {} /\ pc = "appenders" /\ pc' = "policies"
  BY DEF IInv, Sound, IsInst, DeleteLayouts
<1>2. Sound(inst', did') /\ AllFurnished(inst', did')
  BY <1>1, EmptyDomain DEF IInv, Sound, AllFurnished, DeleteLayouts
<1>3. CauseInv'
  BY <1>1 DEF IInv, CauseInv, Caused, DeleteLayouts
<1>4. PlaceInv'
  BY <1>1, EmptyDomain DEF IInv, PlaceInv, DeleteLayouts
<1> QED
  BY <1>2, <1>3, <1>4 DEF IInv

LEMMA DeletePoliciesStep == IInv /\ DeletePolicies => IInv'
<1> SUFFICES ASSUME IInv, DeletePolicies PROVE IInv'
  OBVIOUS
<1>1. /\ inst'.layouts = inst.layouts /\ inst'.appenders = inst.appenders
      /\ inst'.cats = inst.cats /\ IsInst(inst')
      /\ pc = "policies" /\ pc' = "idle"
  BY DEF IInv, Sound, IsInst, DeletePolicies
<1>2. DOMAIN inst.layouts = {} /\ DOMAIN inst.appenders = {} /\ DOMAIN inst.cats = {}
  BY <1>1 DEF IInv, PlaceInv
<1>3. Sound(inst', did') /\ AllFurnished(inst', did')
  BY <1>1, <1>2 DEF Sound, AllFurnished
<1>4. CauseInv'
  BY <1>1 DEF IInv, CauseInv, DeletePolicies
<1>5. PlaceInv'
  BY <1>1, <1>2 DEF IInv, PlaceInv, DeletePolicies
<1> QED
  BY <1>3, <1>4, <1>5 DEF IInv

LEMMA Step == IInv /\ [Next]_vars => IInv'
<1> SUFFICES ASSUME IInv, [Next]_vars PROVE IInv'
  OBVIOUS
<1>1. CASE LogInit
  BY <1>1, ReadStep DEF LogInit
<1>2. CASE LogLoad
  BY <1>2, ReadStep DEF LogLoad, IInv, PlaceInv
<1>3. CASE \E a \in DOMAIN inst.appenders : DeleteAppender(a)
  BY <1>3, DeleteAppenderStep
<1>4. CASE UNCHANGED vars
  BY <1>4 DEF vars, IInv, PlaceInv, CauseInv
<1> QED
  BY <1>1, <1>2, <1>3, <1>4, LoadStep, GetStep, LogStep, FiniStep, DeleteCategoriesStep,
     DeleteLayoutsStep, DeletePoliciesStep DEF Next

-----------------------------------------------------------------------------
(* What an appender holds fits its type, and what does not is explained, in *)
(* every state.                                                             *)
THEOREM Inductive == Spec => []IInv
<1> QED
  BY Initial, Step, PTL DEF Spec

(* Every appender has a layout that exists and fields of their types; every *)
(* category is bound to an appender that exists, or to none: whatever is    *)
(* loaded, and wherever log4c_fini is.                                      *)
THEOREM TypeCorrect == Spec => []TypeOK
<1>1. IInv => TypeOK
  BY DEF IInv, Sound, AppSound, Apps, PlaceInv, TypeOK
<1> QED
  BY <1>1, Inductive, PTL

(* Nothing that is NULL, of another type or unmapped is followed but for    *)
(* the named causes, and nothing that was freed ever is; a message is       *)
(* dropped only for want of a type or of a file to map, or by an appender   *)
(* that was given another type, and unrendered only without a layout type.  *)
THEOREM CausesKnown == Spec => []FaultsHaveCause
<1>1. IInv => FaultsHaveCause
  <2> SUFFICES ASSUME IInv PROVE FaultsHaveCause
    OBVIOUS
  <2>1. DOMAIN inst.appenders \cup Appenders \subseteq AppenderNames
    BY DEF IInv, Sound, AppenderNames
  <2>2. fault # "freed"
    BY DEF IInv, CauseInv
  <2>3. \A a \in DOMAIN inst.appenders \cup Appenders :
          <<a, "at fault">> \in did => Did(a, {"retyped", "renewed", "no policy", "unmapped"})
    BY <2>1 DEF IInv, CauseInv, Caused, Did
  <2>4. ASSUME NEW a \in DOMAIN inst.appenders
        PROVE  /\ <<a, "dropped">> \in did => Did(a, {"unknown type", "unmappable", "retyped"})
               /\ <<a, "bare">> \in did => \E l \in DOMAIN inst.layouts : <<l, "unknown type">> \in did
    BY <2>1 DEF IInv, CauseInv, PlaceInv, Caused, Did
  <2> QED
    BY <2>2, <2>3, <2>4 DEF FaultsHaveCause
<1> QED
  BY <1>1, Inductive, PTL

(* log4c_fini leaves no file and no mapping open but those of an appender   *)
(* that was given another type, or new user data, while it was in use.      *)
THEOREM FilesClosed == Spec => []FiniClosesAll
<1>1. IInv => FiniClosesAll
  BY DEF IInv, CauseInv, Caused, Did, FiniClosesAll
<1> QED
  BY <1>1, Inductive, PTL
=============================================================================
