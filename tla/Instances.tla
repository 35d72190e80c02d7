----------------------------- MODULE Instances -----------------------------
(***************************************************************************)
(* The instances that live between log4c_init and log4c_fini: layouts,     *)
(* appenders of every type, categories and policies, each kind made on     *)
(* demand by a factory (sd/factory.c) and looked up by name; the registry  *)
(* of types (appender.c, layout.c); and what a configuration does to them  *)
(* (rc.c).                                                                 *)
(*                                                                         *)
(* An appender's user data means what its type made of it: a FILE, a       *)
(* record of stream2, a mapping, a record of rollingfile.  Its type can be *)
(* changed by every element of a configuration, and the code never looks   *)
(* whether the user data fits.  Where it follows NULL, freed memory or     *)
(* user data of another type the model stops with the reason in `fault'.   *)
(* Dispatch has the hierarchy of categories, Lifecycle the sharing of      *)
(* policies, Streams the closing by the program.  One thread.              *)
(***************************************************************************)
EXTENDS Integers, Sequences, Functions

CONSTANTS
  NULL,
  Appenders, Layouts,   \* names, beside the default ones
  Categories,           \* names, beside "root"
  Policies,
  Texts,                \* configurations: sequences of elements
  MaxLoads, MaxInits    \* bounds: calls of log4c_rc_load and of log4c_init

AppenderTypes == {"stream", "stream2", "mmap", "syslog", "rollingfile"}
LayoutTypes   == {"basic", "dated", "basic_r", "dated_r"}

\* What an appender's user data may be.
UserData == {NULL, "FILE", "stream2", "mmap", "failed mmap", "new rollingfile", "rollingfile"}

\* The elements of a configuration; an attribute that is missing is NULL.
AppenderElement ==
  [kind : {"appender"}, name : Appenders \cup {"stdout", "stderr"},
   type : AppenderTypes \cup {"other", NULL}, layout : Layouts \cup {"basic", "dated", NULL},
   policy : Policies \cup {NULL}]
LayoutElement ==
  [kind : {"layout"}, name : Layouts \cup {"basic", "dated"},
   type : LayoutTypes \cup {"other", NULL}]
CategoryElement ==
  [kind : {"category"}, name : Categories \cup {"root"},
   appender : Appenders \cup {"stdout", "stderr", NULL}]
ConfigElement == [kind : {"config"}, nocleanup : BOOLEAN]

Elements == AppenderElement \cup LayoutElement \cup CategoryElement \cup ConfigElement

ASSUME NamesAssumption ==
  /\ {"stdout", "stderr"} \cap Appenders = {} /\ "root" \notin Categories
  /\ {"basic", "dated"} \cap Layouts = {}
  /\ NULL \notin Policies \cup Appenders \cup Layouts
  /\ NULL \notin AppenderTypes \cup LayoutTypes \cup {"stdout", "stderr", "basic", "dated"}
  /\ NULL \notin {"FILE", "stream2", "mmap", "failed mmap", "new rollingfile", "rollingfile"}

ASSUME TextsAssumption == Texts \subseteq Seq(Elements)

VARIABLES
  types,       \* the types are registered
  is_init,     \* log4c_is_init
  inst,        \* what the factories have made, and nocleanup
  pc,          \* "idle", "load", or where log4c_fini is
  todo,        \* the elements still to be loaded
  fault,       \* "none", or what was followed: "null", "freed", "other type",
               \* "no mapping"
  leaked,      \* ghost: what was deleted and had a file or a mapping open
  loads, inits, \* ghosts, for the bounds
  did          \* history: pairs of an instance and what was done to it

vars == <<types, is_init, inst, pc, todo, fault, leaked, loads, inits, did>>

\* An instance is deleted with its factory.  A factory that is NULL is one
\* that has no instances: getting one from it makes it.
NoInstances == [layouts |-> << >>, appenders |-> << >>, cats |-> << >>, policies |-> {},
                nocleanup |-> FALSE]

With(f, n, x) == [m \in DOMAIN f \cup {n} |-> IF m = n THEN x ELSE f[m]]

-----------------------------------------------------------------------------
(* log4c_layout_get, which makes the default layouts first                  *)
LayoutGet(s, n) ==
  LET defaults == IF DOMAIN s.layouts = {}
                  THEN [m \in {"dated", "basic"} |-> m] ELSE s.layouts
  IN  [s EXCEPT !.layouts = IF n \in DOMAIN defaults THEN defaults
                            ELSE With(defaults, n, "basic")]

(* log4c_appender_new *)
log4c_appender_new(s, n, udata) ==
  LET t == LayoutGet(s, "basic")
  IN  [t EXCEPT !.appenders = With(@, n, [type |-> "stream", layout |-> "basic", isopen |-> 0,
                                          udata |-> udata, policy |-> NULL, holds |-> {}])]

(* log4c_appender_get, which makes the default appenders first              *)
AppenderGet(s, n) ==
  LET t == IF DOMAIN s.appenders # {} THEN s
           ELSE log4c_appender_new(log4c_appender_new(s, "stderr", "FILE"), "stdout", "FILE")
  IN  IF n \in DOMAIN t.appenders THEN t ELSE log4c_appender_new(t, n, NULL)

(* log4c_category_get, which makes the parents first                        *)
CategoryGet(s, n) ==
  LET t == IF "root" \in DOMAIN s.cats THEN s ELSE [s EXCEPT !.cats = With(@, "root", NULL)]
  IN  IF n \in DOMAIN t.cats THEN t ELSE [t EXCEPT !.cats = With(@, n, NULL)]

(* log4c_rollingpolicy_get *)
PolicyGet(s, n) == [s EXCEPT !.policies = @ \cup {n}]

\* log4c_appender_type_get, log4c_layout_type_get
TypeGet(t, known) == IF types /\ t \in known THEN t ELSE NULL

-----------------------------------------------------------------------------
\* The functions of rc.c, on the instances and the history together.
Loading(s, h) == [inst |-> s, did |-> h]

SetType(x, a, t) ==
  LET app == x.inst.appenders[a]
  IN  Loading([x.inst EXCEPT !.appenders[a].type = t],
              x.did \cup (IF t # app.type /\ (app.udata # NULL \/ app.isopen = 1)
                          THEN {<<a, "retyped">>} ELSE {})
                    \cup (IF t = NULL THEN {<<a, "unknown type">>} ELSE {}))

\* New user data of a rolling file appender, which it gets with its policy.
SetRolling(x, a, policy) ==
  IF policy = NULL THEN Loading(x.inst, x.did \cup {<<a, "no policy">>})
  ELSE Loading([PolicyGet(x.inst, policy) EXCEPT !.appenders[a].udata = "new rollingfile",
                                                 !.appenders[a].policy = policy],
               x.did \cup IF x.inst.appenders[a].isopen = 1 THEN {<<a, "renewed">>} ELSE {})

appender_load(x, e) ==
  LET got   == Loading(AppenderGet(x.inst, e.name), x.did)
      typed == IF e.type = NULL THEN got ELSE SetType(got, e.name, TypeGet(e.type, AppenderTypes))
      y     == IF e.type = "rollingfile" THEN SetRolling(typed, e.name, e.policy) ELSE typed
  IN  IF e.layout = NULL THEN y
      ELSE Loading([LayoutGet(y.inst, e.layout) EXCEPT !.appenders[e.name].layout = e.layout],
                   y.did)

layout_load(x, e) ==
  LET got == LayoutGet(x.inst, e.name)
      t   == TypeGet(e.type, LayoutTypes)
  IN  IF e.type = NULL THEN Loading(got, x.did)
      ELSE Loading([got EXCEPT !.layouts[e.name] = t],
                   x.did \cup IF t = NULL THEN {<<e.name, "unknown type">>} ELSE {})

category_load(x, e) ==
  LET got == CategoryGet(x.inst, e.name)
  IN  IF e.appender = NULL THEN Loading(got, x.did)
      ELSE Loading([AppenderGet(got, e.appender) EXCEPT !.cats[e.name] = e.appender], x.did)

config_load(x, e) == Loading([x.inst EXCEPT !.nocleanup = e.nocleanup], x.did)

Element(x, e) ==
  CASE e.kind = "appender" -> appender_load(x, e)
    [] e.kind = "layout"   -> layout_load(x, e)
    [] e.kind = "category" -> category_load(x, e)
    [] e.kind = "config"   -> config_load(x, e)

\* What is loaded: a configuration of one element or more, or none at all.
Reads == todo' \in Texts /\ pc' = IF todo' = << >> THEN "idle" ELSE "load"

\* One element after the other, in the order of the file.
Load ==
  /\ pc = "load" /\ todo # << >>
  /\ LET x == Element(Loading(inst, did), Head(todo))
     IN  inst' = x.inst /\ did' = x.did
  /\ todo' = Tail(todo)
  /\ pc' = IF todo' = << >> THEN "idle" ELSE "load"
  /\ UNCHANGED <<types, is_init, fault, leaked, loads, inits>>

(* log4c_init: the types are registered and the configuration is loaded;    *)
(* once, until log4c_fini.                                                  *)
LogInit ==
  /\ pc = "idle" /\ fault = "none" /\ inits < MaxInits
  /\ is_init = 0 /\ is_init' = 1 /\ types' = TRUE
  /\ Reads
  /\ inits' = inits + 1
  /\ UNCHANGED <<inst, fault, leaked, loads, did>>

(* log4c_load, by the program, which may do so before log4c_init; or        *)
(* __log4c_reread                                                           *)
LogLoad ==
  /\ pc = "idle" /\ fault = "none" /\ loads < MaxLoads
  /\ Reads
  /\ loads' = loads + 1
  /\ UNCHANGED <<types, is_init, inst, fault, leaked, inits, did>>

(* The program gets a category or an appender by name.                      *)
Get ==
  /\ pc = "idle" /\ fault = "none"
  /\ \/ \E n \in Categories \cup {"root"} : inst' = CategoryGet(inst, n)
     \/ \E n \in Appenders : inst' = AppenderGet(inst, n)
  /\ UNCHANGED <<types, is_init, pc, todo, fault, leaked, loads, inits, did>>

-----------------------------------------------------------------------------
\* What an appender becomes, or why it cannot go on, and what can be said of
\* the call: that it wrote the message, or had no file to map.
Outcome(app, why, said) == [app |-> app, fault |-> why, said |-> said]
Good(app)  == Outcome(app, "none", {})
Wrote(app) == Outcome(app, "none", {"wrote"})
Bad(app, why) == Outcome(app, why, {})

MyFile(app) == [app EXCEPT !.holds = @ \cup {"file"}]

Opens(app) == [app EXCEPT !.isopen = 1]

\* open of the type failed: the appender stays closed.
OpenFailed(app, why) == Outcome(app, "none", {why})

\* The open of each type, for an appender that is not open.  What is there is
\* taken for what the type makes; fopen may fail, where stderr is taken.
StreamOpen(app) ==
  IF app.udata # NULL THEN {Good(Opens(app))}
  ELSE LET o == [Opens(app) EXCEPT !.udata = "FILE"] IN {Good(o), Good(MyFile(o))}

Stream2Open(app) ==
  IF app.udata = "stream2" THEN {Good(Opens(app))}
  ELSE IF app.udata # NULL THEN {Bad(app, "other type")}
  ELSE LET o == [Opens(app) EXCEPT !.udata = "stream2"] IN {Good(o), Good(MyFile(o))}

\* The file to map may be missing or empty; where mmap() itself fails its
\* result, which is not NULL, is taken for an address.
MmapOpen(app) ==
  IF app.udata # NULL THEN {Good(Opens(app))}
  ELSE {OpenFailed(app, "unmappable"),
        Good([Opens(app) EXCEPT !.udata = "mmap", !.holds = @ \cup {"mapping"}]),
        Good([Opens(app) EXCEPT !.udata = "failed mmap"])}

SyslogOpen(app) == {Good(Opens(app))}

RollingOpen(app) ==
  IF app.udata \in {NULL, "new rollingfile"}
  THEN {Good([MyFile(Opens(app)) EXCEPT !.udata = IF @ = NULL THEN NULL ELSE "rollingfile"])}
  ELSE {Bad(app, "other type")}

(* log4c_appender_open, which looks only whether the appender has a type    *)
TypeOpen(app) ==
  CASE app.type = "stream"      -> StreamOpen(app)
    [] app.type = "stream2"     -> Stream2Open(app)
    [] app.type = "mmap"        -> MmapOpen(app)
    [] app.type = "syslog"      -> SyslogOpen(app)
    [] app.type = "rollingfile" -> RollingOpen(app)

\* The append of each type to an appender that is open.
Takes(app, udata) ==
  IF app.udata = udata THEN {Wrote(app)}
  ELSE {Bad(app, IF app.udata = NULL THEN "null" ELSE "other type")}

StreamAppend(app)  == Takes(app, "FILE")
\* Without user data it returns -1 and writes nothing.
Stream2Append(app) == IF app.udata = NULL THEN {Good(app)} ELSE Takes(app, "stream2")
MmapAppend(app)    == IF app.udata = "failed mmap" THEN {Bad(app, "no mapping")}
                      ELSE Takes(app, "mmap")
SyslogAppend(app)  == {Wrote(app)}

\* The new user data of an appender that was open has no stream, unless the
\* policy rolls over at once.
RollingAppend(app) ==
  IF app.udata = "new rollingfile"
  THEN {Bad(app, "null"), Wrote([MyFile(app) EXCEPT !.udata = "rollingfile"])}
  ELSE Takes(app, "rollingfile")

TypeAppend(app) ==
  CASE app.type = "stream"      -> StreamAppend(app)
    [] app.type = "stream2"     -> Stream2Append(app)
    [] app.type = "mmap"        -> MmapAppend(app)
    [] app.type = "syslog"      -> SyslogAppend(app)
    [] app.type = "rollingfile" -> RollingAppend(app)

(* log4c_appender_append: nothing without a type; open on demand, and -1 if *)
(* that fails; then the type's append of the line the layout renders, or of *)
(* the bare message.                                                        *)
Append1(app) ==
  IF app.type = NULL THEN {Good(app)}
  ELSE UNION {IF o.fault # "none" \/ o.app.isopen = 0 THEN {o} ELSE TypeAppend(o.app) :
              o \in IF app.isopen = 1 THEN {Good(app)} ELSE TypeOpen(app)}

\* What history has of it: it failed, for want of a mapping maybe; or it had
\* no file to map; or it wrote nothing, or a message no layout had rendered.
Notes(app, r) ==
  IF r.fault # "none"
  THEN {"at fault"} \cup IF r.app.udata = "failed mmap" THEN {"unmapped"} ELSE {}
  ELSE (r.said \ {"wrote"})
       \cup IF "wrote" \notin r.said THEN {"dropped"}
            ELSE IF inst.layouts[app.layout] = NULL THEN {"bare"} ELSE {}

Log ==
  /\ pc = "idle" /\ fault = "none"
  /\ \E c \in DOMAIN inst.cats :
       /\ inst.cats[c] # NULL
       /\ LET a   == inst.cats[c]
              app == inst.appenders[a]
          IN  \E r \in Append1(app) :
                /\ inst' = [inst EXCEPT !.appenders[a] = r.app]
                /\ fault' = r.fault
                /\ did' = did \cup {<<a, note>> : note \in Notes(app, r)}
  /\ UNCHANGED <<types, is_init, pc, todo, leaked, loads, inits>>

-----------------------------------------------------------------------------
\* The close of each type; nothing is done without user data, which only
\* rollingfile takes for granted.
Gives(app, good, what) ==
  IF app.udata = NULL THEN Good(app)
  ELSE IF app.udata \in good THEN Good([app EXCEPT !.holds = @ \ {what}])
  ELSE Bad(app, "other type")

StreamClose(app)  == Gives(app, {"FILE"}, "file")
Stream2Close(app) == Gives(app, {"stream2"}, "file")
MmapClose(app)    == Gives(app, {"mmap", "failed mmap"}, "mapping")

RollingClose(app) ==
  IF app.udata = NULL THEN Bad(app, "null")
  ELSE IF app.udata \notin {"rollingfile", "new rollingfile"} THEN Bad(app, "other type")
  ELSE IF app.policy \notin inst.policies THEN Bad(app, "freed")
  ELSE Good([app EXCEPT !.holds = IF app.udata = "rollingfile" THEN @ \ {"file"} ELSE @])

(* log4c_appender_close, as log4c_appender_delete calls it: by the type the *)
(* appender has now.                                                        *)
TypeClose(app) ==
  IF app.isopen = 0 \/ app.type \in {NULL, "syslog"} THEN Good(app)
  ELSE CASE app.type = "stream"      -> StreamClose(app)
         [] app.type = "stream2"     -> Stream2Close(app)
         [] app.type = "mmap"        -> MmapClose(app)
         [] app.type = "rollingfile" -> RollingClose(app)

(* log4c_fini: nothing if the configuration says nocleanup or the library   *)
(* is not initialised; else the factories are deleted one after the other.  *)
Fini ==
  /\ pc = "idle" /\ fault = "none"
  /\ ~ inst.nocleanup /\ is_init = 1
  /\ is_init' = 0
  /\ pc' = "categories"
  /\ UNCHANGED <<types, inst, todo, fault, leaked, loads, inits, did>>

\* Variant: the policies are deleted before the appenders.
DeleteCategoriesAndPolicies ==
  /\ pc = "categories"
  /\ inst' = [inst EXCEPT !.cats = << >>, !.policies = {}]
  /\ pc' = "appenders"
  /\ UNCHANGED <<types, is_init, todo, fault, leaked, loads, inits, did>>

DeleteCategories ==
  /\ pc = "categories"
  /\ inst' = [inst EXCEPT !.cats = << >>]
  /\ pc' = "appenders"
  /\ UNCHANGED <<types, is_init, todo, fault, leaked, loads, inits, did>>

\* Variant: an appender is deleted without closing it.
DeleteAppenderOpen(a) ==
  /\ pc = "appenders" /\ fault = "none" /\ a \in DOMAIN inst.appenders
  /\ inst' = [inst EXCEPT !.appenders = Restrict(@, DOMAIN @ \ {a})]
  /\ leaked' = IF inst.appenders[a].holds # {} THEN leaked \cup {a} ELSE leaked
  /\ UNCHANGED <<types, is_init, pc, todo, fault, loads, inits, did>>

(* log4c_appender_delete *)
DeleteAppender(a) ==
  /\ pc = "appenders" /\ fault = "none" /\ a \in DOMAIN inst.appenders
  /\ LET r == TypeClose(inst.appenders[a])
     IN  /\ inst' = [inst EXCEPT !.appenders = Restrict(@, DOMAIN @ \ {a})]
         /\ fault' = r.fault
         /\ leaked' = IF r.fault = "none" /\ r.app.holds # {} THEN leaked \cup {a} ELSE leaked
         /\ did' = did \cup IF r.fault = "none" THEN {} ELSE {<<a, "at fault">>}
  /\ UNCHANGED <<types, is_init, pc, todo, loads, inits>>

DeleteLayouts ==
  /\ pc = "appenders" /\ fault = "none" /\ DOMAIN inst.appenders = {}
  /\ inst' = [inst EXCEPT !.layouts = << >>]
  /\ pc' = "policies"
  /\ UNCHANGED <<types, is_init, todo, fault, leaked, loads, inits, did>>

DeletePolicies ==
  /\ pc = "policies"
  /\ inst' = [inst EXCEPT !.policies = {}]
  /\ pc' = "idle"
  /\ leaked' = {} /\ did' = {}
  /\ UNCHANGED <<types, is_init, todo, fault, loads, inits>>

Init ==
  /\ types = FALSE /\ is_init = 0
  /\ inst = NoInstances
  /\ pc = "idle" /\ todo = << >> /\ fault = "none"
  /\ leaked = {} /\ loads = 0 /\ inits = 0 /\ did = {}

Next == \/ LogInit \/ LogLoad \/ Load \/ Get \/ Log
        \/ Fini \/ DeleteCategories \/ (\E a \in DOMAIN inst.appenders : DeleteAppender(a))
        \/ DeleteLayouts \/ DeletePolicies

Spec == Init /\ [][Next]_vars

-----------------------------------------------------------------------------
TypeOK ==
  /\ types \in BOOLEAN /\ is_init \in {0, 1}
  /\ \A a \in DOMAIN inst.appenders :
       inst.appenders[a] \in
         [type : AppenderTypes \cup {NULL}, layout : DOMAIN inst.layouts, isopen : {0, 1},
          udata : UserData,
          policy : Policies \cup {NULL}, holds : SUBSET {"file", "mapping"}]
  /\ \A c \in DOMAIN inst.cats : inst.cats[c] \in DOMAIN inst.appenders \cup {NULL}

Did(a, what) == \E w \in what : <<a, w>> \in did

(* Whatever is configured, gotten, logged, loaded again and cleaned up, in  *)
(* any order: NULL or user data of another type is followed only for an     *)
(* appender that was given another type while it had user data or was open, *)
(* that is of type rollingfile without a policy, whose rollingfile element  *)
(* was read again while it was open, or whose mmap() failed; freed memory   *)
(* never is.  A message is dropped only by an appender whose type was not   *)
(* known, or not yet registered, when it was looked up, or that had no file *)
(* to map, or that was given another type while it was open; and one goes   *)
(* out unrendered only if a layout's type was not known.                    *)
FaultsHaveCause ==
  /\ fault # "freed"
  /\ \A a \in DOMAIN inst.appenders \cup Appenders :
       <<a, "at fault">> \in did => Did(a, {"retyped", "renewed", "no policy", "unmapped"})
  /\ \A a \in DOMAIN inst.appenders :
       /\ <<a, "dropped">> \in did => Did(a, {"unknown type", "unmappable", "retyped"})
       /\ <<a, "bare">> \in did => \E l \in DOMAIN inst.layouts : <<l, "unknown type">> \in did

(* log4c_fini closes every file and mapping that an appender has open, but  *)
(* where its type was changed meanwhile, or new user data took the place of *)
(* what it had.                                                             *)
FiniClosesAll == \A a \in leaked : Did(a, {"retyped", "renewed"})
=============================================================================
