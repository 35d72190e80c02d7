# TLA+ models of log4c

This directory holds TLA+ specifications of the logging library log4c, TLC configurations that check them on small
instances, and proofs that TLAPS checks for every instance. Definitions keep the names the source uses; `PROJECT.json`
gives, for each definition, the lines it stands for.

    tlc -workers 2 -config SizeWinClean.cfg SizeWin      # model-check
    tlapm SizeWinProofs.tla                              # check proofs

## The system

log4c is a C library. A program gets *categories* by dotted name and logs messages to them; each category may have an
*appender*, which has a *layout* and writes lines somewhere; a rolling file appender has a *rolling policy* that
decides when its file is full and what happens then. All of these are created on demand, by name, and are configured
by the program, by one or two XML files (`$LOG4C_RCPATH/log4crc`, `~/.log4crc`), which can be reread while the program
runs, and by two environment variables.

| Component (source) | State | Operations | Correct if | Here |
|---|---|---|---|---|
| Size-window policy (`rollingpolicy_type_sizewin.c`) | `sw_conf`, `sw_filenames`, `sw_last_index`, `sw_flags` | trigger check, rollover, init, fini, setters | only the oldest file is lost; files stay in order whatever fails; array indices in bounds | `SizeWin`, `LogWindow`, `SizeWinProofs` |
| Rolling file appender (`appender_type_rollingfile.c`) | `rfu_current_fp`, `rfu_current_file_size`, `rfu_mutex`, log directory, prefix, policy | open, append, close, setters | one thread at the stream; every line written once to an open file; the size counts what was written | `SizeWin`, `AppenderMT`, `AppenderContainersProofs`, `Lifecycle` |
| Appender objects (`appender.c`) | `app_isopen`, type, layout, `app_udata`, the registry of types | get, open, append (opens on demand), close, delete, setters | the type is opened once, and not closed while in use; user data fits the type | `AppenderMT`, `Lifecycle`, `Instances` |
| Categories and dispatch (`category.c`, `category.h`) | priority, additivity, appender, parent | get, setters, chained priority, vlog | the nearest priority decides; the appenders of the additive chain get the event once each | `Dispatch`, `DispatchProofs` |
| Configuration loader (`rc.c`) | `log4c_rc->config` | load of a file, element by element | a rejected file changes nothing; a missing attribute leaves its setting alone | `ConfigTree`, `Dispatch`, `Instances`, `Lifecycle`, `SizeWin` |
| Init, reread, fini (`init.c`) | `rcfiles[]`: name, exists, ctime; `log4c_is_init` | init, reread, fini | a changed file is loaded in the end; one bad file does not hide another; fini leaves nothing open | `Dispatch`, `Lifecycle`, `Instances` |
| Rolling policy objects (`rollingpolicy.c`) | type, user data, `PFLAGS_IS_INITIALIZED` | init, fini, delegation to the type | used only between init and fini, also when appenders share it | `Lifecycle`, `LifecycleProofs`; partly |
| Layouts (`layout*.c`) | type; the line's buffer | format | a thread's line is its own; long lines are cut inside the buffer | `Message`, `OutputsProofs`, `Instances`, buffers in `AppenderMT` |
| Priorities, events | integers; a record per event | conversions | a number has the name of its range | `Message`, `Dispatch`; partly |
| Stream, stream2 appenders | `FILE*`, ownership flag | open, append, close, set_fp | files closed once, by their owner | `Streams`, `OutputsProofs`, `Instances` |
| Mmap appender | mapping, length and pointer | open, append, close | the mapping is a ring of what was logged | `Message`, `OutputsProofs`, `Instances` |
| Syslog appender | none | priority mapping | a level for each priority, as its name says | `Message`, `Instances` |
| Hash table (`sd/hash.c`) | buckets of iterators, count | lookup, add, delete, clear, foreach, iterators, rehash | a map, whatever the callback of a foreach does | `Chains`, `Hash`, `HashMap`, `AppenderContainersProofs` |
| Factories (`sd/factory.c`) | name to instance | get, delete all, list | at most one instance per name, none left behind | `Instances`, `InstancesProofs` |
| Lists (`sd/list.c`) | head, tail, linked cells, count | add, append, insert, sorted add, delete, clear, loops both ways | a sequence, whatever the callback of a loop does | `Chains`, `List`, `DataList`, `AppenderContainersProofs` |
| Stacks (`sd/stack.c`) | array, size, stack pointer, maximum | push, pop, peek, clear, iterate | last in, first out, within the array | `Stack`, `Lifo`, `AppenderContainersProofs` |
| Configuration tree (`sd/domnode*.c`) | nodes with children and attributes | handlers of the two parsers, load, search, write | the tree is the document | `DomNode`, `ExpatTree`, `ConfigTree`, `ConfigTreeDocumentProofs`; partly |
| Generated scanner and parser (`sd/domnode-xml-scanner.c`, `-parser.c`) | buffer and automaton; tables and two stacks | next token, refill; shift, reduce, error | tokens are the longest ones; the language is the grammar's; arrays in bounds | `Scanner`, `XmlParser`, `ConfigTreeProofs` |
| Platform and utilities (`sd/malloc.c`, `sprintf.c`, `error.c`, `sd_xplatform.c` and others), tests, examples | | | | not modelled |

**How they interact.** A logging call runs in the caller's thread from the category (`category.h`, `category.c`) into
`log4c_reread` (which may load files and change any category, appender or policy), then into each appender
(`log4c_appender_append`: open on demand, layout, then the type), and for a rolling file under its mutex into the
policy. Loading runs the scanner, the parser, the handlers that build the tree, and then one loading function per
element, each of which gets its instance from a factory and so from a hash table. There are no threads or queues of
the library's own; callbacks are those of the loops over tables and lists.

**What is hard.** System calls that fail in the middle of a rollover, and process death there; several threads in one
appender of which only the innermost part is locked; a configuration that changes between the checks of a call and its
effect; files that change while they are read, noticed by a clock of whole seconds; one policy or user data object
used by parts with different lifetimes, and user data that a change of type gives another meaning; containers that
change under a loop; buffers of five sizes on the way of one message; tokens that lie across the end of a buffer.
`PROJECT.json` lists these as hazards, each at its line.

## The modules

### `SizeWin` and `LogWindow`: the rolling window

`SizeWin` is the policy together with the appender that drives it. Its variables are the fields of the C structs
(`lastIndex`, `flags`, `fp`, `size`, `maxNum`, `maxSize`), the place and the locals of `sizewin_rollover` (`pc`, `k`,
`i`, `rc`), the disk (per index, the numbers of the messages a file holds and its length) and ghosts (`sent`,
`rotatedOut`, `console`, `failures`). Each library call of a rollover — `unlink`, `fclose`, `rename`, `fopen`, and the `fprintf` —
is one action that succeeds and one that fails, so everything that the code does after an error is there. A name that
does not exist makes its call fail by itself; other failures are taken from `Faults`. `Crash` stops the process
between any two calls, `Remove` takes a file away, `Reload` is what `rollingpolicy_load` does to a policy in use.
`Open` starts a new life: after a crash, a new process; after `Close`, a new process too or the same one after
`log4c_fini` and `log4c_init`, where the appender is made anew (opening the same object again is in `Lifecycle`).

The stream is one variable (`fp`: closed, a file of the disk, one on a file that was removed, or stderr) and `stderr`
another. `StreamMatchesFlag` says which streams are left behind and which closed: a rollover that finds no file closes
nothing (`rollingpolicy_type_sizewin.c:122-130`), so that the stream it had, on a removed file, stays open; and
`rollingfile_close` (`rollingfile.c:200`) closes stderr if a failed `fopen` put it in place of a file, after which a
second failed `fopen` makes a message go to a closed stderr. The ghost `failures` shows that it takes two.

`LogWindow` is what a reader of the documentation expects: a sequence of files, newest first, at most `limit` of them;
one grows at the front, or a new one is put in front and the one beyond the limit is dropped. `ImplementsLogWindow`
maps the disk to it and is checked and proved for `Faults = {}`.

### `AppenderMT`: threads

`log4c_appender_append` checks `app_isopen` without a lock, opens if need be, renders the line into a buffer, and
calls the type, which takes `rfu_mutex` and checks the size, rolls over, writes, and counts. `AppenderMT` has one step
for each of these, for any number of threads. Either a main thread opens the appender before it starts the others,
which is what the test suite requires (`tests/log4c/test_rollingfile_appender_mt.c:170-178`: opening on the first
append "does not work in a MT environment"), or a single thread logs and opens on its first append; `Init` chooses.
The main thread closes the appender when the others are joined. Files are reduced to a generation number and rollovers
always succeed: their failures are the subject of `SizeWin`. `Reentrant` says whether the layout renders into the
event's buffer (`basic_r`, which the run uses) or into one that all threads share (`basic`); with the shared buffer
`WrittenOnce` fails, which is why the library has both.

### `Dispatch`: categories, configuration, and one event

Variables: `hier` (the category factory: name to priority, additivity, appender), `rcfiles` as `exists` and `seen`
(the ctime last noted), `reread`, the files and the clock outside, and the place of the thread that logs. One action
per turn of a climb (`ChainedPriority`, `Deliver`), per file examined (`Stat`, `Restat`), per file read (`Load`) and
per element applied (`Apply`), so that the administrator's `Edit` — saving, half saving (`Broken`), removing — falls
between any two of them. `InitFile`, `InitStat` and `InitEnvironment` are `log4c_init`. A name is a sequence of
components and `cat_parent` the sequence without its last one, which is what `dot_dirname` computes on dotted names.

`verdict` is a ghost: whether the nearest priority set lets the event pass when the call is made.
`NearestPriorityDecides` says that the call ends with the event delivered exactly if it does and the additive chain
has an appender at the end, whatever a reread in between did to the priorities.

One thread uses the library, as the documentation asks for creation and configuration. A file is a list of elements or
rejected (`ConfigTree` says which); appenders are names; the environment is one element for the root.

### `Lifecycle`: who owns what, and for how long

An appender points to rolling file user data, that to a policy by name, and the policy to its own user data (the file
names) and back to the appender user data it was last initialised for. `Lifecycle` has these pointers (`app`, `rf`,
`pol`) through everything that sets them: `Begin`, `LoadPolicy`, `LoadAppender` (`log4c_init` and `rc.c`, one element
a step), `Reread`, `Configure` (the setters, as the tests call them), `Append1`, `Open`, `Write`, `Close` (the
appender and its type), `Fini`, `DeleteAppender`, `DeletePolicies`. User data is numbered as it is made; a stream is
told by the user data under whose directory its file is. System calls succeed here; those that fail are in `SizeWin`.

The code follows most of these pointers, and uses attributes of a policy element, without looking. Where one is NULL
the model stops with its name in `fault`, and `FaultsHaveCause` says what the user of the library must have done for
that:

| `fault` | where | only after |
|---|---|---|
| `attributes` | `rollingpolicy_load` reads the value of `maxsize` and `maxnum` | a policy element that lacks one of them |
| `rfudata` | `rollingpolicy_load` initialises a policy for no appender | an element of a policy was read twice before an appender named it |
| `logdir` | `sizewin_get_filename_by_index` makes the names of a policy that is initialised again | the program closed an appender, which freed its directory, and an element of its policy was read a second time |
| `udata` | `rollingfile_append`, `rollingfile_close` | an appender element without a policy |
| `dirs` | `rollingfile_open` | the program closed an appender and logged to it again |
| `policy udata` | `sizewin_is_triggering_event` | two appenders share a policy and one of them was closed |
| `stream` | `rollingfile_append` | the element of an open appender was read again, which gives it user data without a stream |

The last one is met by any reread of a file with an open rolling file appender, unless the first append after it rolls
over. `loaded` (the elements read and the calls made) and `did` are history and appear in no guard, except that
`MaxLoads` bounds the length of `loaded`.

### `Instances`: instances of every type, made by name

`inst` is what the factories hold: layouts, appenders with their type, user data and what they have open, categories
with their appender, policies, and `nocleanup`. A factory is a function from names to instances, as `HashMap` promises
it, and a call of `..._get` adds at most one. `LogInit`, `LogLoad` and `Fini`, followed by `DeleteCategories`,
`DeleteAppender` (one each), `DeleteLayouts` and `DeletePolicies` in the order of `log4c_fini`, make up the life of
the library, which may be started twice; `Get` and `Log` are the program's calls. A file is loaded one element a step
(`todo` is what is left of it), and nothing else happens until it is loaded, as one thread configures. User data is an
appender's FILE, record or mapping according to the type that made it, and every operation first asks whether that is
what it takes it for. An element that changes the type of an open appender is met by `log4c_fini` as user data of
another type; `FaultsHaveCause` and `FiniClosesAll` say which uses lead there. What a call to an appender comes to
(`Outcome`) includes whether it wrote the message: one that did not, whatever the reason in the code, counts as
dropped, and the causes of that are named too (an unknown type, no file to map, a type changed while open).

### `Streams` and `Message`: what an appender does with its FILE, and what becomes of a message

`Streams` has one appender of type stream or stream2, and a program that opens files, gives them to the appender and
closes them, in any order. The state is `isopen`, the user data (`udata`, `fp`, `state`, where the bit `STREAM2_MY_FP`
says that the appender opened the file) and the files. `fopen` may fail (then stderr is used) and so may `fclose`,
which closes the file all the same but leaves the appender open. The two types differ: stream keeps the pointer after
closing, which `FaultsHaveCause` names as a cause of its use after that, and closes whatever it has; stream2 forgets
it, and never closes a FILE of the program (`ClosedByOwner`).

`Message` follows a message through `__log4c_category_vlog` (a buffer of the configured size, or one that
`sd_vsprintf` grows and formats twice), the layout (a static buffer, that of the event, or none, with the dots a
re-entrant layout puts at the end of what it cut) and to a FILE, `syslog` or the circular copy of the mmap appender. A
character is its event and its place in the line, so that what was written shows from whose message it came and what
of it is missing. `snprintf`, `strlen` and `memcpy` are steps, with two threads between them: the static buffer and
the mapping have no lock. `LinesHaveCause` says what may be written, character for character (`Faithful`: the whole
line if it fits, or the beginning that fills the buffer, with the mark of the re-entrant layouts), and for what only
another text may be there; `MappingIsRing` that the mapping holds the last characters, each in its place.

### `Chains`, `Hash`, `List`, `Stack` and what they promise: `HashMap`, `DataList`, `Lifo`

`Hash` and `List` keep iterators as numbered cells with `next` and `prev`, so that a cell that is used after it was
freed can be told; `Chains` is what a walk along the links finds. The functions are operators on a table or a list
that bear the names of the source, each one step, in which `rehash` moves every cell; a loop is split around its
callback (`HashVisit`, `HashAfter`, `NextBucket`; `ListVisit`, `ListAfter`), which may add or delete anything, its own
element included. Each is shown to implement its abstract container. `HashMap` has the call in its state (`call`: the
function, its key, its datum) and one action for each function of `hash.h`, so that a table that deletes another key
than it was told, or overwrites in a lookadd, does not implement it; `Hash` notes the call it makes in `hcall`, and
`ImplementsHashMap` maps the buckets by what `sd_hash_lookup` finds; `ImplementsDataList` the cells by following them.
`LoopsMeetAll` says that an element that stays is visited once. For the table it leaves out loops during which the
array grew: there an element may be visited twice or not at all, as `rehash` moves it while the loop goes on with the
old bucket number. `Containers` puts the three side by side.

`Stack` is the array of `sd_stack`, which is doubled and halved; its operators are those the handlers for expat use,
and it implements `Lifo`. The maximum may be any number. One below the first size is taken as it is: the array is then
larger than its maximum, and the push that finds it full shrinks it under its elements, which the assertion of
`stack.c:143` does not let pass (`PushAborts`, after which nothing happens); until then it is a store of as many
elements as the first size has room for.

### `Scanner`, `XmlParser`, `ExpatTree`, `DomNode`, `ConfigTree`: from a file to its elements

`Scanner` is the automaton that flex generated, as a relation on named states that the tables encode, its buffer with
the refills, growth and end-of-buffer handling, the exit when `read()` fails, and the functions that cut a value out
of a token. `ScansFile` compares its tokens with a definition that says of the whole text, without an automaton or a
buffer, what the longest text of a rule is and means. `XmlParser` is the bison parser with its tables as the source
has them (`yypact`, `yytable` and the others), both stacks and their growth, and the actions of the grammar, which
build the tree by `DomNode`. `AcceptsGrammar` and `TreeIsDocument` compare it with an automaton of the grammar that
counts open elements, and with the tree read off the document (`ForestOf`: the nodes in the order of their start tags,
the parent of each found by counting tags). `xml_fwrite` prints a tree as a document; its formats put blanks and line
ends around comments and texts (`Spaced`), and the tree of what it prints is the one printed but for these. Scanned
again, some of the blanks become part of the value (`comment()` takes them off in front only). `ExpatTree` is the
alternative builder, whose handlers expat calls; expat is external. `ConfigTree` puts either below `sd_domnode_load`
and `log4c_rc_load`, and `LoadsWhatWasRead` says what is handed to the loading functions: the two builders differ in
the order of elements and in what becomes of a file that breaks off.

## Runs

| Run | Question | Bounds |
|---|---|---|
| `sizewin_clean` | Without failures, is it a `LogWindow`? Nothing lost but the oldest (19,667 states) | windows of 1–3 files, with a limit of 2 bytes or none, lines of 0, 1, 3 bytes, 6 messages, 2 openings: the window fills, overflows and is found again by a second process |
| `sizewin_faulty` | What survives failures, crashes, removals, reloads? (298,279 states) | windows of 2–3, any 2 misbehaviours of 8 kinds, 5 messages, 2 openings or reloads: enough to meet a gap twice |
| `sizewin_fopen_once` | Finding, below | one failure |
| `appender_threads` | Mutual exclusion, lines written once, everybody finishes | main thread and 3 others, lines of different lengths, limit 4, 2 messages each: two threads overflow the same file |
| `dispatch` | Is an event delivered exactly if it should be, and along the chain? Do changes arrive? (425,284 states) | root, `a`, `a.b`; 2 files of 2 texts, missing or half written; 2 edits, 2 seconds, 1 setter call |
| `lifecycle` | Which uses never follow a NULL? Does the flag tell the truth, does an appender log to its own directory, are streams closed? (282,887 states) | 2 appenders, 2 policies, 6 configurations (in and out of order, shared, without a policy, without sizes), 3 rereads, 2 lives, 4 user data: a reread after a reread, a second life after each kind of first; every `fault` is reached |
| `lifecycle_no_policy` | Finding, below | the same |
| `instances` | What follows user data of another type, and what stays open after `log4c_fini`? (304,250 states) | an appender, a layout and a policy besides the default ones, 11 configurations with every type known and one unknown, 3 loads, 2 lives: a type changed while new, open and closed |
| `outputs` | Who closes a FILE; what is left of a message on its way (337,890 states) | 4 files in all, two of the program's and two of the appender's; 2 threads with 2 messages of length 1, 3 or 9, event buffers of 2, 5 or none, a static one of 7, formatting in 9, a mapping of 4: each buffer is met by a message that fits, one that just does not, and one far too long |
| `containers` | A map, a sequence, a last-in-first-out store? (204,474 states) | 4 keys, 1 bucket that grows to 4 when the fourth is added, where two keys collide, 5 cells, as an emptied one may wait while all keys are there; a list of 3 cells with 2 data; a stack that starts with 2 slots, and has a maximum of 1, 2, 3 or 8 |
| `config_tree` | Do tokens, language and tree agree with rules, grammar and document, and what is loaded? (548,580 states) | files of three fragments in a buffer of 4 read 3 at a time, so that a token lies across each end and makes it grow; 8 tokens of any kind, or 11 without attributes and texts, which give an element two children one of which is an element; 2 names, stacks that grow twice and overflow at the third level; 5 events for expat, a text buffer of 5 |
| `expat_comment` | Finding, below | the same |

Bounds are the constants `Max...` and appear only in guards; sizes of buffers and arrays (512, 1024, 2048, 16384, 200,
10000, 32 in the source) are constants too, small in the runs. The modules that do not share state (`Streams` and
`Message`; `Hash`, `List` and `Stack`; `Scanner` and `ConfigTree`) share a run, in which `subject` chooses one at the
start. Symmetry exchanges threads in `outputs` and keys of one hash or items in `containers`, which no formula tells
apart, and no liveness is checked there.

`CHECK_DEADLOCK FALSE` is used where a model stops when its bounds are used up and its threads are done, when a file
has been read, or at a fault; for the containers that is the failed assertion of a stack whose maximum is below its
first size. Most type invariants are proved and not run.

### Fairness

`SizeWin`: weak fairness of `Step`, a thread inside the appender is not left unscheduled; nothing makes a message be
logged, or a failure happen or stop. `AppenderMT`: weak fairness for each thread. The mutex needs no strong fairness:
each thread logs a bounded number of messages, so in the end nobody competes for it. `Dispatch`: weak fairness of the
library's own steps; `ChangesArrive` is conditional on events that keep reaching appenders while rereading is on,
since files are looked at only then, and leaves out a file that is changed again in the second in which it was read,
which the code cannot notice (`init.c:202`). Neither the administrator nor the clock is fair. The other modules have
safety properties only.

## Findings

* **A failed `fopen` costs the newest messages for good** (`sizewin_fopen_once`, code bug at
  `rollingpolicy_type_sizewin.c:185`). After one failure file 0 is missing and `last_index` still counts it. Later
  rollovers stop at the gap and truncate file 0: `RolloverKeepsNewest` fails, and with it the documented window.
* **An appender without a policy cannot be logged to** (`lifecycle_no_policy`, `rc.c:211`). Comments promise the
  default size-window policy; the loader gives the appender no user data, and the first append locks a mutex through
  NULL.
* **With expat, a comment outside the root element ends the process** (`expat_comment`, `domnode-expat.c:227`).
  `comment_handler` asserts that an element is open; the grammar of the other parser tests for it.

`WindowOrdered`, `SizeCountsFile` and the others of `sizewin_faulty` hold nevertheless. What the passing runs show
besides, as the causes that their properties name: a failed `fclose` makes a rollover truncate file 0 although nothing
was renamed (`SizeWin`); any reread of an element gives an open appender user data without a stream (`Lifecycle`); a
type changed on an open appender is met by its close (`Instances`); with expat the elements of a file are loaded in
the opposite order, and a file that breaks off is loaded as far as it went (`LoadsWhatWasRead`); a buffer size of 1 to
3 with a re-entrant layout writes its dots before the buffer, and without a fixed buffer size a long message is
formatted a second time from arguments that are used up (`LinesHaveCause`).

## Proofs

All proofs are of the specifications above, for all values of the constants that satisfy the named assumptions: any
window size, any number of threads, any names and texts. Each invariant a run checks, but for `ScansFile`, is proved
from an inductive one that holds initially and is kept by every action, one step of the proof per action.

* `SizeWinProofs` (`CapAssumption`, `ConfAssumption`, `LensAssumption`, `BoundsAssumption`): `IInv` adds to `TypeOK`,
  `WindowOrdered`, `StreamMatchesFlag` and `SizeCountsFile` what is true at each place of the rollover (`PcInv`: the
  ranges of `k` and `i`, and that renaming goes on only while `rc` is 0) and that the files hold only messages older
  than the one in hand (`IdsPast`), without which a write could break `WindowOrdered`. `StreamMatchesFlag` needs which
  stream each place of the rollover can have, and how many `fopen`s failed before stderr could be closed.
  `RotateInBounds` follows from `PcInv`; the action property `WriteRespectsLimit` from the counter never being below
  the file's length. The second half assumes `Faults = {}`, which its theorems name: `LossInv` adds to `IInv` the
  shape of the window at each place of a rollover (`ShapeInv`: without a gap between calls, with exactly one, which
  moves down, while the files are shifted), that `rc` stays 0 and the stream is never stderr (`QuietInv`), and where
  each message is (`KeptInv`). `NothingElseLost` follows; for `ImplementsLogWindow` each action is shown to be a step
  of `LogWindow` or a stutter, which for a rename is that the sequence read off the disk does not change when the gap
  moves.
* `AppenderContainersProofs`, of `AppenderMT`: mutual exclusion is shown although opening takes no lock: before the
  threads are started only the main thread is there (`OpenerAlone`), and the appender is open from then on until all
  are joined, so that no thread takes the path that opens. `EachLineOnce` assumes `Reentrant`: a thread's buffer holds
  its own line until it is written (`OwnInv`), and each line stands at exactly one place of the files once its thread
  is finished with it and nowhere before (`PlacedInv`); a write adds one place, a rollover none. `SizesCounted`
  assumes it too, as a thread counts the line it rendered, which with a shared buffer is not the one it writes;
  `SizesInv` says what the counter is at each place under the mutex. That the sum over a file grows by the line
  appended to it (`BytesAppend`) is an induction over the numbers of lines.
* `DispatchProofs`: `NearestPriorityDecides` and `DeliversAdditiveChain` need what the climbs have passed (`ClimbInv`:
  no category deeper than `level` has a priority; `DeliverInv`: all of them are additive and their appenders are
  exactly what was delivered), and that nothing changes `hier` while a climb is under way, which is in turn because
  configuration is applied only at places outside the climbs (`PlaceInv`); and for the first of them that `verdict` is
  what the climb will find, as long as it lasts, and what it found after it (`VerdictInv`). `SeenIsLoaded` needs how
  the ctimes noted, the times of reading and the clock are ordered (`ClocksInv`).
* `LifecycleProofs` (`NamesAssumption`, `TextsAssumption`, `BoundsAssumption`): typing and `FlagTellsNames` for any
  names and configurations. The two are inductive together: that user data numbers are none of the marks `Nothing` and
  `Bare` is what makes a policy with names initialised. The second half ties each pointer to the elements in `loaded`
  that set it (`HInv`: a policy initialised for no appender was read once only, an appender without user data was
  named without a policy, user data lost its directory because an appender was closed), streams to the open appenders
  that hold them, and a policy without user data to the appender whose closing finalised it. From it
  `FaultsHaveCause`, `LogsToItsDirectory` and `FiniClosesStreams`.
* `InstancesProofs` (`NamesAssumption`, `TextsAssumption`): `AppSound` says that the user data of an appender, and
  what it holds, fit its type and its `isopen`, or that it was given another type or new user data while in use. One
  lemma per function of `rc.c` and one per type and operation of the appenders shows that this is kept; `ElementSound`
  puts those of an element together, `Log` those of the appenders along the chain. During `log4c_fini` the invariant
  holds of the appenders that are left.
* `OutputsProofs`, of `Streams` (`MaxFilesAssumption`): the invariant says that what makes a pointer stale is in `did`
  (`NeedInv`), that the FILE which the bit of stream2 calls its own is one the appender opened (`BitInv`), and that an
  open FILE of the appender's is the one it has (`OwnInv`); that files are opened in the order of their numbers
  (`OrderInv`) makes the next one new.
* `OutputsProofs`, of `Message` (`MessageAssumption`): a thread's text is the beginning of its message as long as the
  buffers allow (`TextFaithful`; `KeptLength` says how long), and its line what the layout makes of that, unless it
  stands in the static buffer. The mapping needs how far the copying has come: for a thread alone in `mmap_append`,
  `ptr` and each cell are what they are in a ring of what is in `flow`. `RingStep` is one `memcpy`: characters put in
  one after the other from where `ptr` points to are in their places modulo the length, and replace exactly those that
  are now too old.
* `AppenderContainersProofs`, of `Containers` (the assumptions of `Hash`, `List` and `Stack`): the invariants
  `HashInv` and `ListInv` say that there are sequences of cells, one for each bucket and one for the list, in which
  each cell's links lead to its neighbours (`Linear`), which together have the cells in use, and of which the loop has
  met what it has visited (`Met`). Without the links in both directions a deletion could not be shown to leave a
  chain; without the order of the cells kept by every call (`SameOrder`) a loop could miss one. `rehash` is an
  induction over the cells it has moved: the larger table has those, the smaller one the rest, each chained
  (`Rehashing`). `FreeCell` is why an addition finds memory: no two cells have the same key. `ImplementsHashMap` shows
  for each function that `hcall` and the change of the map are those of the action of `HashMap` with that name. For
  `Stack`, `StackSound` is the size between the first one and the larger of it and the maximum, with the pointer in
  it, and only a stack that is `Overfull` aborts; the refinement of `Lifo` compares the sequence read off the array
  before and after each reallocation. Each of the three is proved by itself, and a step of the composition is a step
  or a stutter of each.
* `ConfigTreeProofs`, of `XmlParser` (`BuildersAssumption`): `AcceptsGrammar`, for documents of any length, any names,
  and any initial and maximal size of the stacks. `Path` says for every state of the tables which states may be below
  it; `Place` how high the stack is for the elements that are open, and in what mode of the grammar the tokens taken
  so far leave the document; `Pending` relates the token read but not yet shifted to both. `Opened` ties the elements
  that the actions keep open to the definition of a document's tree, which counts the tags between two events: without
  it the name compared at an end tag could be another element's. That reading, shifting and reducing keep all this are
  `ReadKeeps`, `ShiftKeeps` and `ReduceKeeps`, one case for each rule of the grammar; what the packed tables say of
  each state and token is worked out once, in `ShiftTable`, `ReduceTable`, `GotoTable` and `SymbolTable`. The scanner
  shares no variable with this.
* `ConfigTreeProofs`, the tree of the parser: `Grown` characterises the tree of the first n events of a document by
  the places of its nodes, texts, attributes and children, each in increasing order (`Rising`, which determines a
  sequence), and `Drawing` adds which elements are open after them; each kind of event then changes forest and stack
  as an action does (`DrawOpen`, `DrawText` and so on). The parser lags behind its tokens, as a token shifted is in
  the tree only when its rule is reduced: `Upto` says for every state how many events are in the tree and which values
  on the stack are still to come. `TreeKept` is the invariant.
* `ConfigTreeDocumentProofs`, `HandlersMirrorDocument`: the handlers' forest is the mirrored one of the document
  (`Mirror`), with the text that each element collected last as its value; the buffer is what fits of the pieces since
  the last tag, for any size of it and any lengths (`Collected`). A start tag with its attributes is several events,
  which the handler takes in one step (`OpenedTag`). Loading needs besides that the tree does not change once the
  builder is done (`LoadInv`) and that the elements of a mirrored node are those of the node in the opposite order
  (`ElementsMirrored`): `LoaderLoadsWhatWasRead`.
* `ConfigTreeDocumentProofs`, `ParserTreeIsDocument`: beyond `TreeKept` this says what the writer and the search make
  of the tree (`SpacedFamily`: the blanks put in leave its shape alone), two recursions down the tree. Both need its
  shape: every node but the first has exactly one parent, with a smaller number, and the nodes below a node have the
  numbers that follow it (`Family`, `Ends`). That an accepted document has one root is an invariant of its own
  (`RootedInv`). The search goes from a node to its children, so that what it finds is found from the root
  (`FoundInRoot`). The text that is written of a node begins where the tree so far is `Cut` off before that node, and
  after it the tree is cut off behind the last node below (`Drafts`, from the highest number down, and along the
  children of a node): at the end nothing is cut off.

The proofs about a file's tree rest on `BuildersAssumption`: the text buffer has room for more than its final zero,
and no element is named `#comment`, which is no name in XML.

Induction over numbers is itself proved, from the library's theorem that `<` is well-founded on them and that a set
then has a least element; sums, walks and folds are recursive functions, whose values are shown from it step by step.

Only model-checked:

* liveness (`AppendReturns`, `EveryoneFinishes`, `CallReturns`, `ChangesArrive`), which under fairness is beyond the
  prover, as ENABLED is;
* `ScansFile`: it compares the tokens of a buffered automaton with a definition over the whole text that knows
  neither. A proof needs what the texts that lead to a state of the automaton have in common, for each of its states
  and rules, and what of a token is where when the buffer is refilled in the middle of it; this invariant is not
  there.

## Not modelled

Each of these is left out on purpose; what remains of a component without it is exact.

* **Platform and utilities**: allocation (which ends the process when memory is exhausted), error output, file status,
  string helpers. They keep no state that other parts use. `sd_vsprintf` is a step of `Message`.
* **Concurrent configuration**: two threads that notice the same change load the file at the same time without a lock.
  The documentation leaves creation and configuration to one thread, so `Dispatch`, `Lifecycle` and `Instances` have
  one.
* **Values of the configuration file**: the suffix of `parse_byte_size` (which multiplies without a check of the width
  of `long`), `maxnum` of 0 or of what `atoi` does not understand, for which the code indexes an array of no names,
  and limits of `bufsize`. `SizeWin` assumes a window of at least one file, as every configuration of the repository
  has.
* **Calls that the library never makes**: `sd_hash_iter_prev` (whose loop stops before bucket 0), the duplication and
  freeing of keys and data in the table, `sd_factory_destroy`, `sd_domnode_attrs_put` and `_remove`,
  `log4c_logging_event_new` and `_delete`; `log4c_priority_to_int`, a lookup of a string.
* **Generated code that cannot be reached here**: `unput`, `input`, several buffers, the parser's error recovery after
  which the grammar has nothing. The carriage return, in two rules of the scanner, is not among its characters.
* **Text**: the wording of lines, names of files and directories, printing and dumps, buffering modes of a FILE, the
  facility of syslog; messages with `%` directives, which rollingfile passes on as a format.
* **Reading what was written**: the blanks that the writer puts around comments and texts are in the document of
  `xml_fwrite`; what the scanner makes of them (some stay, and a comment behind a text is taken for a part of it) is
  not followed. The library itself reads nothing that it wrote.
* **Policies of another type** than sizewin, of which the library has none.
* **Expat** is modelled as the handlers see it: well-formed documents up to the end or the first error.
