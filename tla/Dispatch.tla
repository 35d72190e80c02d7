------------------------------ MODULE Dispatch ------------------------------
(***************************************************************************)
(* Categories, the configuration that shapes them, and the path of one     *)
(* event: category.c, log4c_init and __log4c_reread (init.c), and what     *)
(* log4c_rc_load (rc.c) does to categories.                                *)
(*                                                                         *)
(* Categories form a tree by their dotted names.  A logging call climbs it *)
(* three times: for the priority that decides whether the event is logged, *)
(* for an appender anywhere above, and, from the bottom again, to hand the *)
(* event to every appender until a category that is not additive.  Between *)
(* the second and the third climb the configuration files whose ctime      *)
(* changed are loaded again, so the third one sees a newer configuration   *)
(* than the first two.                                                     *)
(*                                                                         *)
(* One thread uses the library (creation and configuration are documented  *)
(* as not thread safe); an administrator edits the files at any moment.    *)
(* A name is the sequence of its components, the root's the empty one.     *)
(***************************************************************************)
EXTENDS Integers, Sequences

CONSTANTS
  Names,        \* names the application and the files use
  Levels,       \* priorities in use
  Appenders,    \* appenders in use
  NoAppender,   \* cat_appender is NULL
  Unset,        \* an attribute that an element does not have
  Texts,        \* what a well-formed configuration file may say
  Broken,       \* a text that is rejected: a file half written
  Missing,      \* no file, or not readable
  NFiles,       \* nrcfiles
  Settings,     \* what the application sets: <<name, attribute, value>>
  Environment,  \* LOG4C_PRIORITY and LOG4C_APPENDER, as an element for root
  MaxEdits,     \* bound: changes to the files
  MaxClock,     \* bound: seconds
  MaxSets       \* bound: calls of the category setters

NOTSET == 900
Root   == << >>

\* The category reached from n by following cat_parent until d components
\* are left.
Upto(n, d) == SubSeq(n, 1, d)
Chain(n) == {Upto(n, d) : d \in 0..Len(n)}

Priorities == Levels \cup {NOTSET}
Outlets    == Appenders \cup {NoAppender}
Category   == [priority : Priorities, additive : {0, 1}, appender : Outlets]
New        == [priority |-> NOTSET, additive |-> 1, appender |-> NoAppender]

\* A <category> element, and the text of a file.
Element == [name : Names, priority : Priorities \cup {Unset},
            additive : {0, 1, Unset}, appender : Outlets \cup {Unset}]
Text == [reread : {0, 1, Unset}, categories : Seq(Element)]

ASSUME NamesAssumption == /\ Root \in Names
                          /\ \A n \in Names : n \in Seq(STRING) /\ Chain(n) \subseteq Names
ASSUME LevelsAssumption == Levels \subseteq Int /\ Unset \notin Int
ASSUME OutletsAssumption == NoAppender \notin Appenders /\ Unset \notin Outlets
ASSUME TextsAssumption == Texts \subseteq Text /\ Broken \notin Texts /\ Missing \notin Texts
ASSUME SettingsAssumption ==
  \A s \in Settings : \/ s \in Names \X {"priority"} \X Priorities
                      \/ s \in Names \X {"additive"} \X {0, 1}
                      \/ s \in Names \X {"appender"} \X Outlets
ASSUME EnvironmentAssumption == Environment \in Element /\ Environment.name = Root
ASSUME BoundsAssumption == /\ NFiles \in Nat /\ MaxEdits \in Nat
                           /\ MaxClock \in Nat /\ MaxSets \in Nat

VARIABLES
  hier,        \* the category factory: name |-> category
  reread,      \* log4c_rc->config.reread
  exists,      \* rcfiles[f].exists
  seen,        \* rcfiles[f].ctime
  pc,          \* where the thread is
  event,       \* the event being logged, or NoEvent
  level,       \* `cat' in the climbs: the event's category up to this depth
  at,          \* the file that a loop over rcfiles is at
  todo,        \* elements of the loaded text still to be applied
  delivered,   \* <<depth, appender>> of each delivery of the event, in order
  file,        \* the files: text and ctime
  clock,       \* the second it is
  applied,     \* what log4c_rc_load last found in each file ...
  readAt,      \* ... and the second in which it did
  verdict,     \* whether the priorities in force at the call let the event pass
  edits, sets  \* counters behind the bounds

ghosts  == <<applied, readAt, verdict>>
counts  == <<edits, sets>>
rcfiles == <<exists, seen>>
admin   == <<file, clock, edits>>
vars    == <<hier, reread, rcfiles, pc, event, level, at, todo, delivered,
             file, clock, ghosts, counts>>

Files == 1..NFiles
NoEvent == [cat |-> Root, priority |-> Unset]
Cat == hier[Upto(event.cat, level)]

-----------------------------------------------------------------------------
\* Variant: the categories above are not created.
CategoryGetAlone(h, n) ==
  [m \in DOMAIN h \cup {n} |-> IF m \in DOMAIN h THEN h[m] ELSE New]

(* log4c_category_get: a category that does not exist is created, and       *)
(* creating it gets its parent first.                                       *)
CategoryGet(h, n) ==
  [m \in DOMAIN h \cup Chain(n) |-> IF m \in DOMAIN h THEN h[m] ELSE New]

Given(value, old) == IF value = Unset THEN old ELSE value

(* category_load: an attribute that the element lacks keeps its value. *)
CategoryLoad(h, e) ==
  [CategoryGet(h, e.name) EXCEPT ![e.name] =
     [priority |-> Given(e.priority, @.priority),
      additive |-> Given(e.additive, @.additive),
      appender |-> Given(e.appender, @.appender)]]

-----------------------------------------------------------------------------
(* log4c_init: is there a file that can be read? *)
InitFile ==
  /\ pc = "init" /\ at <= NFiles
  /\ IF file[at].text = Missing
     THEN at' = at + 1 /\ UNCHANGED pc
     ELSE pc' = "initstat" /\ UNCHANGED at
  /\ UNCHANGED <<hier, reread, rcfiles, event, level, todo, delivered, ghosts, sets, admin>>

(* Its ctime is noted, unless it is gone by now, and it is loaded.          *)
InitStat ==
  /\ pc = "initstat"
  /\ seen' = [seen EXCEPT ![at] = IF file[at].text = Missing THEN @ ELSE file[at].ctime]
  /\ exists' = [exists EXCEPT ![at] = 1]
  /\ pc' = "load"
  /\ UNCHANGED <<hier, reread, event, level, at, todo, delivered, ghosts, sets, admin>>

(* Its end: the environment overrides the files. *)
InitEnvironment ==
  /\ pc = "init" /\ at > NFiles
  /\ hier' = CategoryLoad(hier, Environment)
  /\ pc' = "idle"
  /\ UNCHANGED <<reread, rcfiles, event, level, at, todo, delivered, file, clock,
                 ghosts, counts>>

\* On to the next file, in log4c_init or in __log4c_reread.
NextFile == /\ at' = at + 1
            /\ pc' = IF event = NoEvent THEN "init" ELSE "stat"

(* log4c_rc_load reads the file.  A text that does not parse, or that has   *)
(* the wrong root or version, is rejected before anything is applied.       *)
Load ==
  /\ pc = "load"
  /\ applied' = [applied EXCEPT ![at] = file[at].text]
  /\ readAt' = [readAt EXCEPT ![at] = clock]
  /\ IF file[at].text \in Texts
     THEN /\ reread' = Given(file[at].text.reread, reread)
          /\ todo' = file[at].text.categories
          /\ pc' = "apply"
          /\ UNCHANGED at
     ELSE NextFile /\ UNCHANGED <<reread, todo>>
  /\ UNCHANGED <<hier, rcfiles, event, level, delivered, verdict, file, clock, counts>>

\* Variant: the ctime is noted when the file has been loaded.
ApplyThenStat ==
  /\ pc = "apply"
  /\ IF todo = << >>
     THEN NextFile /\ seen' = [seen EXCEPT ![at] = file[at].ctime] /\ UNCHANGED <<hier, todo>>
     ELSE /\ hier' = CategoryLoad(hier, Head(todo))
          /\ todo' = Tail(todo)
          /\ UNCHANGED <<at, pc, seen>>
  /\ UNCHANGED <<reread, exists, event, level, delivered, file, clock, ghosts, counts>>

(* The loop over the elements of the text. *)
Apply ==
  /\ pc = "apply"
  /\ IF todo = << >>
     THEN NextFile /\ UNCHANGED <<hier, todo>>
     ELSE /\ hier' = CategoryLoad(hier, Head(todo))
          /\ todo' = Tail(todo)
          /\ UNCHANGED <<at, pc>>
  /\ UNCHANGED <<reread, rcfiles, event, level, delivered, file, clock, ghosts, counts>>

-----------------------------------------------------------------------------
\* The application gets a category, or calls one of its setters.
Get(n) ==
  /\ pc = "idle" /\ sets < MaxSets /\ n \notin DOMAIN hier
  /\ sets' = sets + 1
  /\ hier' = CategoryGet(hier, n)
  /\ UNCHANGED <<reread, rcfiles, pc, event, level, at, todo, delivered, ghosts, admin>>

Set(n, field, value) ==
  /\ pc = "idle" /\ sets < MaxSets /\ n \in DOMAIN hier
  /\ sets' = sets + 1
  /\ hier' = [hier EXCEPT ![n][field] = value]
  /\ UNCHANGED <<reread, rcfiles, pc, event, level, at, todo, delivered, ghosts, admin>>

\* The depth whose priority counts for category n: the nearest one set.
Governs(n, d) == /\ d = 0 \/ hier[Upto(n, d)].priority # NOTSET
                 /\ \A e \in d+1..Len(n) : hier[Upto(n, e)].priority = NOTSET

\* It lets events of this priority, and of more urgent ones, pass.
Lets(n, p) == \E d \in 0..Len(n) : Governs(n, d) /\ hier[Upto(n, d)].priority >= p

(* log4c_category_log and its kin. *)
Call(n, p) ==
  /\ pc = "idle" /\ n \in DOMAIN hier
  /\ event' = [cat |-> n, priority |-> p]
  /\ verdict' = Lets(n, p)
  /\ level' = Len(n)
  /\ pc' = "chain"
  /\ UNCHANGED <<hier, reread, rcfiles, at, todo, delivered, applied, readAt, sets, admin>>

\* Variant: the root's priority counts only if it is set.
ChainedPriorityStopsEarly ==
  /\ pc = "chain"
  /\ IF Cat.priority = NOTSET /\ level > 1
     THEN level' = level - 1 /\ UNCHANGED pc
     ELSE /\ pc' = IF Cat.priority >= event.priority THEN "vlog" ELSE "done"
          /\ UNCHANGED level
  /\ UNCHANGED <<hier, reread, rcfiles, event, at, todo, delivered, ghosts, sets, admin>>

(* log4c_category_get_chainedpriority, and the comparison with its result. *)
ChainedPriority ==
  /\ pc = "chain"
  /\ IF Cat.priority = NOTSET /\ level > 0
     THEN level' = level - 1 /\ UNCHANGED pc
     ELSE /\ pc' = IF Cat.priority >= event.priority THEN "vlog" ELSE "done"
          /\ UNCHANGED level
  /\ UNCHANGED <<hier, reread, rcfiles, event, at, todo, delivered, ghosts, sets, admin>>

(* __log4c_category_vlog returns at once if there is no appender above, and *)
(* has the files read again otherwise.                                      *)
Vlog ==
  /\ pc = "vlog"
  /\ at' = IF reread = 0 THEN NFiles + 1 ELSE 1
  /\ pc' = IF \E n \in Chain(event.cat) : hier[n].appender # NoAppender
           THEN "stat" ELSE "done"
  /\ UNCHANGED <<hier, reread, rcfiles, event, level, todo, delivered, ghosts, sets, admin>>

\* Variant: a file that cannot be examined ends the loop.
StatStops ==
  /\ pc = "stat" /\ at <= NFiles
  /\ IF exists[at] = 1 /\ file[at].text # Missing
     THEN IF file[at].ctime # seen[at]
          THEN pc' = "restat" /\ UNCHANGED at
          ELSE at' = at + 1 /\ UNCHANGED pc
     ELSE at' = NFiles + 1 /\ UNCHANGED pc
  /\ UNCHANGED <<hier, reread, rcfiles, event, level, todo, delivered, ghosts, sets, admin>>

(* __log4c_reread: is this file another one than the one loaded? *)
Stat ==
  /\ pc = "stat" /\ at <= NFiles
  /\ IF exists[at] = 1 /\ file[at].text # Missing /\ file[at].ctime # seen[at]
     THEN pc' = "restat" /\ UNCHANGED at
     ELSE at' = at + 1 /\ UNCHANGED pc
  /\ UNCHANGED <<hier, reread, rcfiles, event, level, todo, delivered, ghosts, sets, admin>>

(* If so its ctime is taken once more, before it is loaded. *)
Restat ==
  /\ pc = "restat"
  /\ seen' = [seen EXCEPT ![at] = IF file[at].text = Missing THEN @ ELSE file[at].ctime]
  /\ pc' = "load"
  /\ UNCHANGED <<hier, reread, exists, event, level, at, todo, delivered, ghosts, sets, admin>>

\* The files are done: vlog goes on from the event's category.
StatDone ==
  /\ pc = "stat" /\ at > NFiles
  /\ level' = Len(event.cat)
  /\ pc' = "deliver"
  /\ UNCHANGED <<hier, reread, rcfiles, event, at, todo, delivered, ghosts, sets, admin>>

\* Variant: additivity is looked at before the category's own appender.
DeliverAdditiveFirst ==
  /\ pc = "deliver"
  /\ delivered' = IF Cat.appender # NoAppender /\ Cat.additive = 1
                  THEN Append(delivered, <<level, Cat.appender>>) ELSE delivered
  /\ IF Cat.additive = 0 \/ level = 0
     THEN pc' = "done" /\ UNCHANGED level
     ELSE level' = level - 1 /\ UNCHANGED pc
  /\ UNCHANGED <<hier, reread, rcfiles, event, at, todo, ghosts, sets, admin>>

\* Variant: the loop does not move on from a category without an appender.
DeliverStays ==
  /\ pc = "deliver"
  /\ delivered' = IF Cat.appender # NoAppender
                  THEN Append(delivered, <<level, Cat.appender>>) ELSE delivered
  /\ IF Cat.additive = 0 \/ level = 0
     THEN pc' = "done" /\ UNCHANGED level
     ELSE level' = (IF Cat.appender = NoAppender THEN level ELSE level - 1) /\ UNCHANGED pc
  /\ UNCHANGED <<hier, reread, rcfiles, event, at, todo, ghosts, sets, admin>>

(* One turn of the loop that hands the event to the appenders. *)
Deliver ==
  /\ pc = "deliver"
  /\ delivered' = IF Cat.appender # NoAppender
                  THEN Append(delivered, <<level, Cat.appender>>) ELSE delivered
  /\ IF Cat.additive = 0 \/ level = 0
     THEN pc' = "done" /\ UNCHANGED level
     ELSE level' = level - 1 /\ UNCHANGED pc
  /\ UNCHANGED <<hier, reread, rcfiles, event, at, todo, ghosts, sets, admin>>

\* Back in the application.
Return ==
  /\ pc = "done"
  /\ pc' = "idle"
  /\ event' = NoEvent /\ level' = 0 /\ delivered' = << >> /\ verdict' = FALSE
  /\ UNCHANGED <<hier, reread, rcfiles, at, todo, applied, readAt, sets, admin>>

-----------------------------------------------------------------------------
(* The administrator saves a file, is in the middle of saving it, or        *)
(* removes it; the ctime is the current second.                             *)
Edit(f, text) ==
  /\ edits < MaxEdits
  /\ edits' = edits + 1
  /\ file' = [file EXCEPT ![f] = [text |-> text, ctime |-> clock]]
  /\ UNCHANGED <<hier, reread, rcfiles, pc, event, level, at, todo, delivered,
                 clock, ghosts, sets>>

Tick ==
  /\ clock < MaxClock
  /\ clock' = clock + 1
  /\ UNCHANGED <<hier, reread, rcfiles, pc, event, level, at, todo, delivered,
                 file, ghosts, counts>>

-----------------------------------------------------------------------------
Init ==
  /\ hier = [n \in {} |-> New] /\ reread = 0
  /\ exists = [f \in Files |-> 0] /\ seen = [f \in Files |-> 0]
  /\ pc = "init" /\ event = NoEvent /\ level = 0 /\ at = 1
  /\ todo = << >> /\ delivered = << >>
  /\ file \in [Files -> [text : Texts \cup {Missing}, ctime : {1}]]
  /\ clock = 1
  /\ applied = [f \in Files |-> Missing] /\ readAt = [f \in Files |-> 0]
  /\ verdict = FALSE
  /\ edits = 0 /\ sets = 0

LoadStep == \/ InitFile \/ InitStat \/ InitEnvironment
            \/ Load \/ Apply
            \/ Stat \/ Restat \/ StatDone
LogStep  == ChainedPriority \/ Vlog \/ Deliver \/ Return

Next == \/ LoadStep
        \/ LogStep
        \/ \E s \in Settings : Set(s[1], s[2], s[3])
        \/ \E n \in Names : Get(n)
        \/ \E n \in Names, p \in Levels : Call(n, p)
        \/ \E f \in Files, text \in Texts \cup {Broken, Missing} : Edit(f, text)
        \/ Tick

\* The thread that logs is scheduled again and again.
Spec == Init /\ [][Next]_vars /\ WF_vars(LoadStep) /\ WF_vars(LogStep)

-----------------------------------------------------------------------------
Places == {"init", "initstat", "load", "apply", "idle", "chain", "vlog", "stat",
           "restat", "deliver", "done"}

TypeOK ==
  /\ DOMAIN hier \subseteq Names
  /\ \A n \in DOMAIN hier : hier[n] \in Category
  /\ reread \in {0, 1}
  /\ exists \in [Files -> {0, 1}] /\ seen \in [Files -> Nat]
  /\ pc \in Places
  /\ event \in [cat : Names, priority : Levels \cup {Unset}]
  /\ level \in 0..Len(event.cat)
  /\ at \in 1..NFiles+1
  /\ todo \in Seq(Element)
  /\ delivered \in Seq(Nat \X Appenders)
  /\ file \in [Files -> [text : Texts \cup {Broken, Missing}, ctime : Nat]]
  /\ clock \in Nat /\ edits \in Nat /\ sets \in Nat
  /\ verdict \in BOOLEAN

(* Every category's chain up to the root exists, in whatever order the      *)
(* application and the files name them: no climb meets a missing parent.    *)
ParentsExist == \A n \in DOMAIN hier : Chain(n) \subseteq DOMAIN hier

\* Depths from which the additive chain reaches an appender.
Reached(n) == {d \in 0..Len(n) : /\ hier[Upto(n, d)].appender # NoAppender
                                 /\ \A e \in d+1..Len(n) : hier[Upto(n, e)].additive = 1}

(* A call ends with the event delivered exactly if two things hold: the     *)
(* nearest priority set above its category, or else the root's, let it when *)
(* the call was made; and the additive chain, as the configuration that is  *)
(* in force at the end has it, reaches an appender.  A reread in between    *)
(* takes back neither an event that passed nor one that was refused, though *)
(* it may have changed the very priority that decided.                      *)
NearestPriorityDecides ==
  pc = "done" => (delivered # << >> <=> verdict /\ Reached(event.cat) # {})

(* A call that delivered anything delivered the event once to the appender  *)
(* of every category on the additive chain, nearest first, and to no other; *)
(* all of them as the same configuration has it, the one in force after the *)
(* files were read again.                                                   *)
DeliversAdditiveChain ==
  pc = "done" /\ delivered # << >> =>
    /\ {delivered[j][1] : j \in 1..Len(delivered)} = Reached(event.cat)
    /\ \A j \in 1..Len(delivered) :
         /\ delivered[j][2] = hier[Upto(event.cat, delivered[j][1])].appender
         /\ j > 1 => delivered[j][1] < delivered[j-1][1]

(* A file counted as seen has been loaded as it is now, unless it was       *)
(* loaded in the very second of its last change.  It relies on the ctime    *)
(* being taken before the text is read.                                     *)
SeenIsLoaded ==
  \A f \in Files :
    /\ exists[f] = 1 /\ file[f].text # Missing /\ seen[f] = file[f].ctime
    /\ ~ (pc = "load" /\ at = f) /\ readAt[f] # file[f].ctime
    => applied[f] = file[f].text

(* Every call returns: the three climbs and the loop over the files end.    *)
CallReturns == pc \notin {"init", "initstat", "idle"} ~> pc = "idle"

(* If events keep reaching appenders with rereading on, then once the       *)
(* administrator is done the files in place have all been loaded as they    *)
(* are, those aside that were loaded in the second of their last change.    *)
ChangesArrive ==
  []<>(pc = "deliver" /\ reread = 1) =>
  <>[](\A f \in Files :
         exists[f] = 1 /\ file[f].text # Missing /\ readAt[f] # file[f].ctime
           => applied[f] = file[f].text)
=============================================================================
