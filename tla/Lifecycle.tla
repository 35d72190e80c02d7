----------------------------- MODULE Lifecycle -----------------------------
(***************************************************************************)
(* Who owns what, and for how long: rolling file appenders, their user     *)
(* data and the policies these point to, through log4c_init, the elements  *)
(* of a configuration (rc.c), logging, closing, rereading and log4c_fini.  *)
(*                                                                         *)
(* The three kinds of object are made at different times and point to each *)
(* other.  The user data of an appender (rollingfile_udata) holds its      *)
(* directory, its stream and its policy; a policy holds its own user data  *)
(* (sizewin_udata: the array of file names) and the appender user data it  *)
(* was last initialised with.  The code checks few of the pointers: where  *)
(* it would follow one that is NULL the model stops, with the reason in    *)
(* `fault'.  What was read and done before is kept beside it, so that the  *)
(* property is which use of the library is safe.                           *)
(*                                                                         *)
(* One thread; system calls succeed (see SizeWin for those that do not).   *)
(* Every appender that is logged to has an <appender> element of type      *)
(* rollingfile, and every policy element is of type sizewin.               *)
(***************************************************************************)
EXTENDS Integers, Sequences, FiniteSets

CONSTANTS
  Appenders, Policies,  \* names
  NoPolicy,             \* rfc_policy is NULL, or no rollingpolicy attribute
  Texts,                \* configurations: sequences of elements
  Rereads,              \* configurations that a reread may find
  MaxUdata,             \* bound: user data made by appender elements
  MaxLoads,             \* bound: elements that rereads bring it to
  MaxInits              \* bound: calls of log4c_init

Udata == 1..MaxUdata
Null  == 0

\* A policy element, which has its sizes (maxsize and maxnum) or lacks one,
\* or an appender element.
Element == [policy : Policies, appender : {"none"}, sizes : BOOLEAN]
           \cup [policy : Policies \cup {NoPolicy}, appender : Appenders]

ASSUME NamesAssumption == NoPolicy \notin Policies /\ "none" \notin Appenders
ASSUME TextsAssumption == Texts \subseteq Seq(Element) /\ Rereads \subseteq Seq(Element)
ASSUME BoundsAssumption == {MaxUdata, MaxLoads, MaxInits} \subseteq Nat

VARIABLES
  app,     \* appenders: type, app_isopen, app_udata
  rf,      \* rolling file user data: fp, whether dirs are set, policy
  pol,     \* policies: flags, udata (by whose file names it holds), rfudata
  made,    \* user data made so far (it is never freed)
  pc,      \* "off", "load", "up", "open", "write", "fini"
  todo,    \* elements still to be loaded
  cur,     \* the appender being logged to
  inits,   \* calls of log4c_init
  fault,   \* the NULL that was followed, or "none"
  loaded,  \* the elements read since log4c_init, and what the
           \* program configured itself: history
  did      \* history: "close", the program closed an appender; "reread", an
           \* element was read again for an open appender

vars == <<app, rf, pol, made, pc, todo, cur, inits, fault, loaded, did>>

\* policy_udata: none, made but without file names, or with the names under
\* the directory of some appender user data.
Nothing == -2
Bare    == -1

NoApp == [type |-> "none", isopen |-> 0, udata |-> Null]
NoRf  == [fp |-> Null, dirs |-> 0, policy |-> NoPolicy]
NoPol == [init |-> 0, sw |-> Nothing, rf |-> Null]

\* A stream is told by the user data under whose directory its file is.
Rolls(r)  == rf[r].policy # NoPolicy
Fault(f)  == /\ fault' = f
             /\ UNCHANGED <<app, rf, pol, made, pc, todo, cur, inits, loaded, did>>
Up        == fault = "none"

-----------------------------------------------------------------------------
(* log4c_init starts to load a configuration, with nothing held against it  *)
(* but a stream that an earlier reread lost: that one stays lost.           *)
Begin(text) ==
  /\ pc = "off" /\ inits < MaxInits
  /\ inits' = inits + 1
  /\ pc' = "load" /\ todo' = text
  /\ loaded' = text /\ did' = did \cap {"reread"}
  /\ UNCHANGED <<app, rf, pol, made, cur, fault>>

(* __log4c_reread loads one that has changed. *)
Reread(text) ==
  /\ Up /\ pc = "up"
  /\ Len(loaded) + Len(text) <= MaxLoads
  /\ pc' = "load" /\ todo' = text
  /\ loaded' = loaded \o text
  /\ UNCHANGED <<app, rf, pol, made, cur, inits, fault, did>>

LoadDone ==
  /\ pc = "load" /\ todo = << >>
  /\ pc' = "up"
  /\ UNCHANGED <<app, rf, pol, made, todo, cur, inits, fault, loaded, did>>

Loads(e) == Up /\ pc = "load" /\ todo # << >> /\ e = Head(todo)

\* Variant: the new names are not made for the appender at hand.
InitializedStale(p, r) ==
  [p EXCEPT !.init = 1, !.rf = r, !.sw = IF @ \in {Nothing, Bare} THEN r ELSE @]

(* log4c_rollingpolicy_init and sizewin_init: the names are made for r. *)
Initialized(p, r) == [p EXCEPT !.init = 1, !.rf = r, !.sw = r]

\* Variant: a policy without user data is initialised at once.
LoadPolicyAlwaysInits(e) ==
  /\ Loads(e) /\ e.appender = "none"
  /\ LET p == pol[e.policy]
     IN  IF ~e.sizes THEN Fault("attributes")
         ELSE IF p.rf = Null THEN Fault("rfudata")
         ELSE IF rf[p.rf].dirs = 0 THEN Fault("logdir")
         ELSE /\ pol' = [pol EXCEPT ![e.policy] = Initialized(p, p.rf)]
              /\ todo' = Tail(todo)
              /\ UNCHANGED <<app, rf, made, pc, cur, inits, fault, loaded, did>>

(* rollingpolicy_load: a policy without user data gets it, one that has it  *)
(* is initialised again, for the user data it knows: there may be none, or  *)
(* its directory was freed by a close, and the names are made from it.      *)
(* Either way the sizes are read without looking.                           *)
LoadPolicy(e) ==
  /\ Loads(e) /\ e.appender = "none"
  /\ LET p == pol[e.policy]
     IN  IF ~e.sizes THEN Fault("attributes")
         ELSE IF p.sw # Nothing /\ p.rf = Null THEN Fault("rfudata")
         ELSE IF p.sw # Nothing /\ rf[p.rf].dirs = 0 THEN Fault("logdir")
         ELSE /\ pol' = [pol EXCEPT ![e.policy] =
                           IF p.sw = Nothing THEN [p EXCEPT !.sw = Bare]
                                             ELSE Initialized(p, p.rf)]
              /\ todo' = Tail(todo)
              /\ UNCHANGED <<app, rf, made, pc, cur, inits, fault, loaded, did>>

Typed(x, u) == [type |-> "rollingfile", isopen |-> x.isopen, udata |-> u]

(* appender_load: new user data, which the appender gets only if the        *)
(* element names a policy; that is initialised for it.                      *)
LoadAppender(e) ==
  /\ Loads(e) /\ e.appender # "none" /\ made < MaxUdata
  /\ made' = made + 1
  /\ rf' = [rf EXCEPT ![made'] = [fp |-> Null, dirs |-> 1, policy |-> e.policy]]
  /\ IF e.policy = NoPolicy
     THEN app' = [app EXCEPT ![e.appender] = Typed(@, @.udata)] /\ UNCHANGED pol
     ELSE /\ app' = [app EXCEPT ![e.appender] = Typed(@, made')]
          /\ pol' = [pol EXCEPT ![e.policy] = Initialized(@, made')]
  /\ did' = IF app[e.appender].isopen = 1 THEN did \cup {"reread"} ELSE did
  /\ todo' = Tail(todo)
  /\ UNCHANGED <<pc, cur, inits, fault, loaded>>

(* The program does the same by calls, as the tests do: here also without   *)
(* a policy the appender gets its user data.                                *)
Configure(a, p) ==
  /\ Up /\ pc = "up" /\ app[a].isopen = 0 /\ made < MaxUdata
  /\ made' = made + 1
  /\ rf' = [rf EXCEPT ![made'] = [fp |-> Null, dirs |-> 1, policy |-> p]]
  /\ app' = [app EXCEPT ![a] = Typed(@, made')]
  /\ IF p = NoPolicy
     THEN UNCHANGED <<pol, loaded>>
     ELSE /\ pol' = [pol EXCEPT ![p] = Initialized(@, made')]
          /\ loaded' = Append(loaded, [policy |-> p, appender |-> a])
  /\ UNCHANGED <<pc, todo, cur, inits, fault, did>>

-----------------------------------------------------------------------------
(* log4c_appender_append opens the appender if need be. *)
Append1(a) ==
  /\ Up /\ pc = "up" /\ app[a].type = "rollingfile"
  /\ cur' = a
  /\ pc' = IF app[a].isopen = 0 THEN "open" ELSE "write"
  /\ UNCHANGED <<app, rf, pol, made, todo, inits, fault, loaded, did>>

U == app[cur].udata

\* The caller goes on to write, unless it is the program and only opens.
Opened ==
  /\ app' = [app EXCEPT ![cur].isopen = 1]
  /\ pc' \in {"write", "up"}

(* rollingfile_open without user data opens a file of its own defaults, and *)
(* forgets it.                                                              *)
OpenDefault ==
  /\ Up /\ pc = "open" /\ U = Null
  /\ Opened
  /\ UNCHANGED <<rf, pol, made, todo, cur, inits, fault, loaded, did>>

OpenWithoutDirs ==
  /\ Up /\ pc = "open" /\ U # Null /\ rf[U].dirs = 0
  /\ Fault("dirs")

(* sizewin_rollover on a stream: without user data or directory it does     *)
(* nothing, otherwise the stream is one under the directory of its names.   *)
RolledOver(p, fp) == IF p.sw \in Udata THEN p.sw ELSE fp

(* rollingfile_open: a policy that is not initialised is now, and rolls     *)
(* over; without a policy the appender opens its file.                      *)
Open ==
  /\ Up /\ pc = "open" /\ U # Null /\ rf[U].dirs = 1
  /\ IF Rolls(U)
     THEN LET p     == pol[rf[U].policy]
              after == IF p.init = 0 THEN Initialized(p, U) ELSE p
          IN  /\ pol' = [pol EXCEPT ![rf[U].policy] = after]
              /\ rf' = [rf EXCEPT ![U].fp = RolledOver(after, @)]
     ELSE /\ rf' = [rf EXCEPT ![U].fp = U]
          /\ UNCHANGED pol
  /\ Opened
  /\ UNCHANGED <<made, todo, cur, inits, fault, loaded, did>>

(* rollingfile_append: the trigger check follows the policy's user data,    *)
(* and the write the stream, without looking.                               *)
Write(triggers) ==
  /\ Up /\ pc = "write"
  /\ IF U = Null THEN Fault("udata")
     ELSE IF Rolls(U) /\ pol[rf[U].policy].sw = Nothing THEN Fault("policy udata")
     ELSE LET fp == IF Rolls(U) /\ triggers
                    THEN RolledOver(pol[rf[U].policy], rf[U].fp) ELSE rf[U].fp
          IN  IF fp = Null THEN Fault("stream")
              ELSE /\ rf' = [rf EXCEPT ![U].fp = fp]
                   /\ pc' = "up"
                   /\ UNCHANGED <<app, pol, made, todo, cur, inits, fault, loaded, did>>

\* Variant: the policy keeps its flag.
FinishedKeepsFlag(p) == IF p.init = 1 THEN [p EXCEPT !.sw = Nothing] ELSE p

(* log4c_rollingpolicy_fini and sizewin_fini *)
Finished(p) == IF p.init = 1 THEN [p EXCEPT !.init = 0, !.sw = Nothing] ELSE p

\* Variant: the stream stays open.
ClosedKeepsStream(r) ==
  /\ pol' = IF Rolls(r) THEN [pol EXCEPT ![rf[r].policy] = Finished(@)] ELSE pol
  /\ rf' = [rf EXCEPT ![r].dirs = 0, ![r].policy = NoPolicy]

(* rollingfile_close: the stream is closed, directory and prefix freed, and *)
(* the policy finished, whoever else uses it.                               *)
Closed(r) ==
  /\ pol' = IF Rolls(r) THEN [pol EXCEPT ![rf[r].policy] = Finished(@)] ELSE pol
  /\ rf' = [rf EXCEPT ![r] = NoRf]

(* log4c_appender_close, called by the program. *)
Close(a) ==
  /\ Up /\ pc = "up" /\ app[a].isopen = 1
  /\ IF app[a].udata = Null THEN Fault("udata")
     ELSE /\ Closed(app[a].udata)
          /\ app' = [app EXCEPT ![a].isopen = 0]
          /\ did' = did \cup {"close"}
          /\ UNCHANGED <<made, pc, todo, cur, inits, fault, loaded>>

-----------------------------------------------------------------------------
(* log4c_fini deletes the appenders, which closes those that are open ...   *)
Fini ==
  /\ Up /\ pc = "up"
  /\ pc' = "fini"
  /\ UNCHANGED <<app, rf, pol, made, todo, cur, inits, fault, loaded, did>>

DeleteAppender(a) ==
  /\ Up /\ pc = "fini" /\ app[a].type # "none"
  /\ IF app[a].isopen = 0
     THEN /\ app' = [app EXCEPT ![a] = NoApp]
          /\ UNCHANGED <<rf, pol, made, pc, todo, cur, inits, fault, loaded, did>>
     ELSE IF app[a].udata = Null THEN Fault("udata")
     ELSE /\ Closed(app[a].udata)
          /\ app' = [app EXCEPT ![a] = NoApp]
          /\ UNCHANGED <<made, pc, todo, cur, inits, fault, loaded, did>>

(* ... and then the policies. *)
DeletePolicies ==
  /\ Up /\ pc = "fini" /\ \A a \in Appenders : app[a].type = "none"
  /\ pol' = [p \in Policies |-> NoPol]
  /\ pc' = "off"
  /\ UNCHANGED <<app, rf, made, todo, cur, inits, fault, loaded, did>>

-----------------------------------------------------------------------------
Init ==
  /\ app = [a \in Appenders |-> NoApp]
  /\ rf = [r \in Udata |-> NoRf]
  /\ pol = [p \in Policies |-> NoPol]
  /\ made = 0
  /\ pc = "off" /\ todo = << >> /\ cur \in Appenders
  /\ inits = 0 /\ fault = "none" /\ loaded = << >> /\ did = {}

Setup == \E a \in Appenders, p \in Policies \cup {NoPolicy} : Configure(a, p)

Load == LoadDone \/ \E e \in Element : LoadPolicy(e) \/ LoadAppender(e)
Log  == \/ \E a \in Appenders : Append1(a) \/ Close(a)
        \/ OpenDefault \/ OpenWithoutDirs \/ Open
        \/ \E triggers \in BOOLEAN : Write(triggers)

Next == \/ \E text \in Texts : Begin(text)
        \/ \E text \in Rereads : Reread(text)
        \/ Load \/ Setup
        \/ Log
        \/ Fini \/ DeletePolicies
        \/ \E a \in Appenders : DeleteAppender(a)

Spec == Init /\ [][Next]_vars

-----------------------------------------------------------------------------
Faults == {"none", "attributes", "rfudata", "logdir", "dirs", "udata", "policy udata", "stream"}

TypeOK ==
  /\ app \in [Appenders -> [type : {"none", "rollingfile"}, isopen : {0, 1},
                            udata : Udata \cup {Null}]]
  /\ rf \in [Udata -> [fp : Udata \cup {Null}, dirs : {0, 1}, policy : Policies \cup {NoPolicy}]]
  /\ pol \in [Policies -> [init : {0, 1}, sw : {Nothing, Bare} \cup Udata,
                           rf : Udata \cup {Null}]]
  /\ made \in 0..MaxUdata
  /\ pc \in {"off", "load", "up", "open", "write", "fini"}
  /\ todo \in Seq(Element) /\ loaded \in Seq(Element)
  /\ cur \in Appenders /\ inits \in 0..MaxInits
  /\ fault \in Faults /\ did \subseteq {"close", "reread"}

\* The element at place i names policy p, for an appender.
Names(i, p) == loaded[i].appender # "none" /\ loaded[i].policy = p

\* The element at place i is that of policy p.
Describes(i, p) == loaded[i].appender = "none" /\ loaded[i].policy = p

\* A second element of a policy that no appender element has named yet.
PolicyTwice ==
  \E i, j \in DOMAIN loaded, p \in Policies :
    /\ i < j /\ Describes(i, p) /\ Describes(j, p)
    /\ \A k \in 1..j : ~Names(k, p)

\* Two elements of a policy after an appender element that names it.
PolicyTwiceMore ==
  \E i, j, k \in DOMAIN loaded, p \in Policies :
    i < j /\ j < k /\ Names(i, p) /\ Describes(j, p) /\ Describes(k, p)

SizesMissing ==
  \E i \in DOMAIN loaded : loaded[i].appender = "none" /\ ~loaded[i].sizes

PolicyOmitted == \E i \in DOMAIN loaded : Names(i, NoPolicy)

PolicyShared ==
  \E i, j \in DOMAIN loaded, p \in Policies :
    Names(i, p) /\ Names(j, p) /\ loaded[i].appender # loaded[j].appender

(* Which use is safe: a NULL is followed only after one of seven things     *)
(* that a configuration says or a program does, each NULL after its own.    *)
(* With sizes for every policy, a policy for every appender and none for    *)
(* two, each element read once, and no close before the end, none is.       *)
FaultsHaveCause ==
  /\ fault = "attributes" => SizesMissing
  /\ fault = "rfudata" => PolicyTwice
  /\ fault = "logdir" => "close" \in did /\ PolicyTwiceMore
  /\ fault = "udata" => PolicyOmitted
  /\ fault = "dirs" => "close" \in did
  /\ fault = "policy udata" => "close" \in did /\ PolicyShared
  /\ fault = "stream" => "reread" \in did

(* PFLAGS_IS_INITIALIZED tells whether the policy has file names, through   *)
(* every order of elements, openings and closings: rollingfile_open decides *)
(* by it.                                                                   *)
FlagTellsNames == \A p \in Policies : pol[p].init = 1 <=> pol[p].sw \in Udata

(* init.h: one appender may log to one directory and another to another.    *)
(* The stream of an appender is under its own directory, through every      *)
(* order of loading, rereading and closing, unless two share a policy.      *)
LogsToItsDirectory ==
  ~PolicyShared =>
    \A a \in Appenders : LET u == app[a].udata IN u # Null => rf[u].fp \in {Null, u}

(* After log4c_fini no stream is left open, also if the program closed some *)
(* appenders itself, unless a reread took a stream's user data away.        *)
FiniClosesStreams ==
  pc = "off" /\ "reread" \notin did => \A r \in Udata : rf[r].fp = Null

(* appender_type_rollingfile.h: log4c "ships with (and defaults to) the     *)
(* classic size-window rollover policy": an appender whose element names no *)
(* policy can be logged to.                                                 *)
OmittedPolicyDefaults == fault # "udata"
=============================================================================
