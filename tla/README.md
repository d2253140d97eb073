# Verification of the Haxe compilation server, its C libraries and the thread library

The repository holds the Haxe compiler (OCaml, `src/src/`), the C libraries it is
linked with (`src/libs/`), the standard library (Haxe and C++, `src/std/`) and
tooling. Most of it transforms syntax trees, one compilation at a time, and is
out of reach of a state model. Four parts are not like that. The **compilation
server** lives through many requests, keeps parsed files, typed modules and
directory listings between them, and must decide at every request what of this
is still true. The **C libraries** own memory, descriptors, child processes and
the colour bits of the garbage collector, and must give back what they took
however a call ends. The **XML parser** of the C++ target is a machine of 18 states
over a text that may end anywhere. The **thread library** `sys.thread` and
`haxe.MainLoop` run user callbacks among threads. This directory models them in
TLA+, checks the models with TLC on small instances, and proves theorems for
instances of every size with TLAPS.

Paths below that do not begin with `src/std` or `src/libs` are relative to
`src/src/`.

## 1. Inventory

### The compilation server

One process, one thread. `Server.wait_loop` accepts a request, `process` runs
it, and the tables survive to the next. Nothing runs concurrently inside the
server; what makes it hard is that the *files* change at any moment, that a
request can leave by an exception at any moment, and that the tables
(parsed files, modules, directories) are updated at different moments.

| part | state it keeps | operations | what would be wrong |
|---|---|---|---|
| Reuse of modules (`compiler/server.ml:574-790`) | `m_extra` of every cached module: `m_deps`, `m_checked`, `m_added`, `m_cache_state` | `check_module`, `add_modules`, `type_module`, `taint_modules`, `cache_context` | an outdated module reused; a reused module next to a newly typed version of its dependency; a module given up for nothing; a module left between two states |
| Parser cache (`server.ml:46-88`, `compilationCache.ml`) | `context_cache.files`: time and declarations per file | `parse_file`, `remove_files` | an old text under the new time |
| Module cache (`compilationCache.ml`, `commonCache.ml`) | `context_cache.modules`: time, state, and what it was typed from | `check_file`, `content_changed`, `make_module`, `cache_context` | a compilation that uses a text the file no longer has |
| Directory cache (`server.ml:505-567`, `:588-606`, `:795-811`) | `cs.directories`, `sctx.changed_directories`, `sctx.class_paths`, `sctx.delays`; `readdir_cache` of `context/common.ml` | `get_changed_directories`, `check_module_shadowing`, `after_arg_parsing`, `run_delays` | a file that now comes first on the class path is not noticed |
| Server loop and tasks (`server.ml:940-1070`, `tasks.ml`) | `cs.tasks` (a priority queue), `current_stdin`, the connection | `wait_loop`, `process`, `add_task`, `get_task#run` | a request served between two tasks sees half an update; a task that raises ends the server |
| Native libraries (`context/nativeLibraryHandler.ml`) | one table: file and time per library | `add_native_lib` | an outdated library |
| Message pipe (`Communication`, `serverMessage.ml`) | none between requests | framing of an answer | |
| Display protocol (`context/display/displayJson.ml`) | none of its own | `server/invalidate`, `server/readClassPaths`, queries | see parser and module cache |
| Retyper (`compiler/retyper.ml`) | module objects that are being retyped | `attempt_retyping` (experimental policy `Retype`) | a half-retyped module declared clean |
| Driver, typer, generators, macro interpreter | per compilation | | sequential; the interpreter's thread table and `Deque` (`macro/eval/evalThread.ml`) are the exception |

### The C libraries and the XML parser

| part | state it keeps | operations | what would be wrong |
|---|---|---|---|
| objsize (`src/libs/objsize/c_objsize.c`, `bitarray.h`) | colours in the headers of the whole heap, a log of the overwritten ones, three counters | `objsize` with lists of excluded and of sought values | a block counted twice or not at all; a colour not put back, on which the collector relies; a walk without end |
| Processes (`src/libs/extc/process_stubs.c`) | three descriptors and a process id per handle | `process_run`, `read`, `write`, `close`, `exit`, `kill` | a descriptor closed twice, by then another's; one never closed; a signal to a stranger; a wait without end |
| Command line on Windows (same file, `:269-331`) | a growing buffer | `buffer_append_*`, quoting | an argument that arrives as another |
| pcre2 (`src/libs/pcre2/pcre2_stubs.c`) | compiled patterns with a context each, match data, the vector of offsets, the callout under way | compile, match, DFA match, callouts, finalisation | memory lost or freed under a running match; a callout that is called after its match; offsets of an earlier match |
| Files, time, console, zlib (`src/libs/extc/extc_stubs.c`) | none | one call of the system each | |
| mbedtls (`src/libs/mbedtls/mbedtls_stubs.c`) | the objects of the library | one function each, and finalisers | |
| XML (`src/std/cpp/NativeXmlImport.cpp`, `NativeXml.hx`) | position, state and next state, the node under construction, the stack of recursive calls | the cases of the 18 states, callbacks that build the tree | a wrong tree; a broken document accepted; a read past the end |

### The thread library

| part | state it keeps | operations | what would be wrong |
|---|---|---|---|
| `sys.thread.EventLoop` (`src/std/sys/thread/EventLoop.hx`) | sorted list of repeating events, one-time events, promise count, a lock used as wake-up, a mutex | `repeat`, `cancel`, `promise`, `run`, `runPromised`, `loop`, `progress`, `wait` | a lost wake-up; a cancelled event runs; the loop ends with work left or never ends |
| `haxe.MainLoop`, `haxe.Timer` | `pending` events of the main thread | `add`, `stop`, `tick` | as above |
| `sys.thread.FixedThreadPool` | deque of tasks and stop signals, a flag | `run`, `shutdown`, workers | a task accepted and not run; a worker that does not end |
| `sys.thread.ElasticThreadPool` | workers with their task, lock and flags; deque; mutex | `run`, `shutdown`, workers, time-outs | a task run twice, or never |
| `haxe.EntryPoint` | pending functions, thread count | `run`, `addThread`, `runInMainThread` | a program that never ends |
| `Thread`, `Deque`, `Lock`, `Mutex`, `Condition`, `Semaphore` per target | | | |

### How they interact

A compilation calls `type_module` for every module it needs (CheckModule). That
asks `get_changed_directories` once per request (DirectoryCache) and the time of
the module's file (ModuleCache); a module that cannot be reused is looked up
on the class path (DirectoryCache), parsed through the parser cache and typed
(ModuleCache), and at the end `cache_context` puts it in place of the old one, if
there were no errors. The memory report of the server calls objsize on
its caches. The macro interpreter offers pcre2 as `EReg` and the processes as
`sys.io.Process`. The pools use a `Deque` and a `Lock`; a worker thread has an
`EventLoop` of its own; on the main thread `EventLoop` calls `MainLoop.tick`.

`PROJECT.json` lists these components, and under `hazards` the 40 places where
the code is hard to test, each with the properties that cover it. Seven of them no
property covers, because the code does what a property would exclude, and several are
covered in part: a note at the hazard says what is left.

## 2. Modules

| module | models | size of its instance |
|---|---|---|
| `CheckModule` | `check_module`, `add_modules`, `taint_modules`, `cache_context`: which cached modules a compilation reuses | 3 modules |
| `ModuleCache` | `parse_file`, `check_file`, `content_changed`, `make_module` for one file | 3 texts |
| `FreshCompile` | the promise to the user that ModuleCache implements | |
| `DirectoryCache` | `get_changed_directories`, shadowing, the delays, `find_file` | 2 directories, 2 class paths |
| `Measurement` | what `Objsize.objsize` promises | |
| `ColorLog` | the log of colours: a growing array of bits, run-length encoded | |
| `ObjSize` | `c_objsize`: the two walks over the heap; implements Measurement with ColorLog | 5 heaps of 4 blocks |
| `Process` | `process_stubs.c` on Unix, with pipes, children and process ids | 2 processes |
| `CommandLine` | the command line and the buffer of `process_stubs.c` on Windows | 2 arguments |
| `ProcessRun` | `process_stubs.c` as it is compiled: Process or CommandLine | |
| `NativeXml` | `do_parse_xml` and the callbacks of `NativeXmlState` | documents of 4 tokens |
| `Pcre2` | compilation, matches, callouts and finalisation of pcre2 | 2 patterns, nested 2 deep |
| `FixedThreadPool` | `sys.thread.FixedThreadPool` | 2 workers, 3 tasks, 2 shutdowns |
| `ElasticThreadPool` | `sys.thread.ElasticThreadPool` | 2 workers, 3 tasks, 2 shutdowns |
| `EventLoop` | `sys.thread.EventLoop` and `MainLoop.tick` | 5 events |
| `...Proofs` | the theorems about the module of that name (`ProcessProofs`: about ProcessRun; `ThreadPoolProofs`: about the two pools; `StdProofs`: about EventLoop and NativeXml) | |
| `MC...` | the instance of the module of that name for TLC | |

An operator with a name of the form `Action_Something` and a comment that begins
with "Faulty" is not part of the specification: it is the definition `Action`
with a plausible bug in it, with which `PROJECT.json` (`mutants`) demonstrates
that each property can be violated.

### CheckModule

`check` is recursive over a graph with cycles. Its recursion is an explicit
`stack` of modules with the dependencies they have left (`todo`), one action
per point where a call begins, returns or raises; `pc` and `cur` say what the
innermost call does. `m_checked` and `m_added` are only compared with the current
`compilation_step`, so they are the sets `checked` and `added`, emptied when
the step is increased; hence the number of compilations needs no bound.
`unknown_state_modules` is `clean`. `m_deps` holds *objects*: `dead[m]` are the
dependencies of `m` whose object the cache has replaced by a newer one. The
order of the dependencies (`PMap` over `m_id`) is any order, and so is the order in
which a compilation asks for modules. Between two calls files are edited
(`Edit`) and modules invalidated (`Taint`: `server/invalidate`, or a macro in the
middle of a compilation). `Raise` is an exception that leaves `check_module`: one of
the parser under the content policy (`:585`), or one met while the macro context is
made for a macro module (`:640`).

### ModuleCache and FreshCompile

One file: its text and time, the cached parse, the cached module, and the steps
of a request, with a step for each system call (`Stat`, `ParseRead`,
`MakeModule` asks for the time once more). Constants say whether the
file can be written while a request runs (`Racing`), whether a write can leave
the time as it was (`SameSecond`: times are whole seconds,
`src/libs/extc/extc_stubs.c:573`), whether the module has the content policy,
and whether there are requests that only parse (`Explores`). FreshCompile knows
nothing of caches: a request answers with nothing or with a text the file held
while the request ran. `seen` and `result` are the same variables in both, so
the refinement mapping is the identity on `content`, `seen`, `result`.
Three history variables name the two steps in which the code promises nothing
(section 6). `late` says that the file was written since the running request got the
text it holds. `mistimed` is this for the cached module: `make_module` asked for the
time of the file only after such a write, so the module has the time of a text it was
not typed from. `overtaken` says that an exploration has since parsed the file the
content policy compares the module's text with. The refinement is claimed for every
step but the reuse by its time of a mistimed module and the reuse by its content of an
overtaken one; all other writes, between any two steps of a request, are within the claim.

### DirectoryCache

One module M of the root package, which may lie in several directories. The
file system (`Create`, `Delete`, `Rewrite`, `RemoveDir`, `MakeDir`) can move
between any two steps of the server; a created file may bring along an older
time. A request is `Begin`, any number of further compilations
(`NextCompilation`), and `RunDelays`, or `CutOff` when an exception leaves it
and the delays stay. `known[d]` is `c_mtime`, 0 for directories that are not
listed. `overlooked` is a history variable: directories in which the server
has seen a change without comparing M with what is there now, or which it has listed
(`RunDelays`) when a file that comes before the cached one was already there.

### Measurement, ColorLog and ObjSize

Measurement is one step per call: the blocks below the start that are not
reached through excluded ones are counted, and the colours of the heap are as
before. ObjSize takes the walk apart: a frame per active call of `c_rec_objsize`
or of `restore_colors`, one step per field, the last child in place of its
parent (the code jumps to its start instead of recurring). Every colour that is
overwritten goes to the log, whose encoding ColorLog translates bit by bit:
`COLORS_INIT_COUNT` colours at first, doubled when full, `BITS_FOR_COUNT`
and `BITS_FOR_ORDER` bits for repeated colours; small values of these three let
a few colours fill the array and end a run. `log.ok` is what the
`ASSERT`s of the code test. ObjSize implements Measurement (property
**Measures**): in the middle of a call the colours are mapped to those it has
`saved`. Between two calls the garbage collector may change all
colours. The depth that is reported is that of the walk, which is the
length of some path, not of the longest: Measurement says no more.

Not in the model: blue as the colour of a live block. On OCaml 5 the two bits mean
something else, and 2 is a status a live block can have; `ColorAssumption` states
what the code takes for granted.

### Process, CommandLine and ProcessRun

`fds` is the table of descriptors of the program; an entry names an end of a pipe
of one handle. `pipe` takes the two lowest free numbers, `close` frees them, `fork`
gives the child a copy of all (none is closed on exec), so `held` of a child can
contain ends of other children's pipes. `process_run` is a step per system
call, each of which can fail. `read`, `write` and `waitpid` block the one thread
of the program: `call` is the call that is under way and `CallStep` its return. `write`
may put part of its bytes into the pipe and wait for room (`WritePart`); it returns when
none is `left`.
Process ids are given out again once a child was waited for. Children copy their
input to a stream, end when it ends, and may end at any time. `EINTR` repeats
the call: a step that changes nothing. What is passed in `argv` is data.

CommandLine follows the characters of one `process_run` on Windows. A string is a
sequence over `Character`, the set of what is told apart, of which the code
names five. The buffer is a list of pieces that double in size (`Blen`, whose
`totlen` rounds are more than the loop of the code ever takes); `ArgumentsArrive`
reads the finished line as the C runtime of a program does and compares.

### NativeXml

One step per iteration of the loop of `do_parse_xml`, with the state, the next
state, the start of the current text, and a stack for the recursive calls. The
text ends with one zero (`NUL`), which every comparison that looks ahead must
stop at; no document contains it, and no character that is looked for is one
(`NativeXmlAssumption`). A document is a sequence of tokens, with their characters and with
the callback each should cause. What the characters of a token look like is a grammar of
its own (`IsToken`: a text has no `<`, a tag its name, attributes and spaces, a section
the first end behind its keyword), written without the states of the parser; which
characters may be tokens is the assumption `TokenAssumption`, and broken tokens
(`Junk`) are free. `Understood` reads the tokens one after the other (`Meaning`), and
`CallbacksFollowDocument` and `TreeIsRight` compare what the parser did with it.

### Pcre2

Every call of `pcre2_match_stub0` allocates match data. One with a callout also
allocates a copy of the subject, a copy of the match context that holds the callout,
and, for a DFA match, a workspace; it calls the library, and a callout runs arbitrary
OCaml in between. `frames` are the calls under way, and while a callout runs
(`InOCaml`) every operation can begin, the garbage collector included. A call without
callout is one step into the library and one out of it. `heap` counts how often each
call holds each block, so that a leak is a 1 too many and a double free a -1. What
the library does is external: a match ends with any result the types allow
(`Matched`), and may call out first, with group 0 unset (`MatchedSoFar`). Of the two
offsets of a group one is modelled. The functions that only ask a pattern about itself
are left out.

### The pools and the loop

FixedThreadPool takes no lock, so the test of the flag and the addition to the
deque are separate actions, for `run` and for `shutdown`. ElasticThreadPool has one
action per access to shared state of `Worker.loop`; sections under
`deathMutex` are single actions; `shutdown` reads the flag before it takes the mutex
(`ShutdownCheck`), so two calls may both go on. In EventLoop every method runs under the mutex
and is one action, the two sections of `__progress` are two, and callbacks,
which run without the mutex, can call any method between any two of them; other
threads call the methods in `ForeignCalls`. Between the sections the loop tests, for
each event it has collected, whether it was cancelled (`CheckRegular`) and calls it
(`RunRegular`): two steps without the mutex, with room for a cancel by another thread.
`tooLate` is a history variable that says there was one. `unexpected` are the events other
threads schedule without a promise: the class says that only a promise makes the
loop wait for them.

## 3. What the runs check

| run | states | shows |
|---|---|---|
| `check_module` | 1,986,994 | every graph of three modules, any number of compilations |
| `check_policies` | 2,418,965 | a shared cycle, macro module, content policy with exceptions; termination |
| `module_cache` | 231,709 | writes between any two steps, explorations, content policy; refinement of FreshCompile |
| `directory_cache` | 5,810,011 | file system and server interleaved |
| `objsize` | 742,976 | any number of calls over five heaps and every colouring; refinement of Measurement |
| `process` | 398,276 | two processes, every call at any moment, failing pipe and fork; every short command line |
| `xml_parser` | 416,221 | every document of four tokens, and of two with broken ones |
| `pcre2_match` | 158,282 | two patterns, matches with and without callout, matches in callouts of matches |
| `fixed_pool` | 34,048 | two racing shutdowns, a task that throws, `run` at any moment |
| `elastic_pool` | 332,816 | time-outs at any moment, a task that throws, two racing shutdowns |
| `event_loop` | 2,116,049 | callbacks and other threads, between the test for a cancelled event and its call too |
| `elastic_pool_stranded_task` | | the first disagreement of section 6 |

* **ConfirmedClosed.** What the server confirms passed its own check and depends
  only on confirmed modules, none of them replaced. This is the one that could
  go wrong in the marking algorithm: on a cycle a module counts as clean before
  its own check has ended.
* **NoMixedVersions.** A compilation never holds a reused module and a newly
  typed version of one of its dependencies.
* **BadHasCause.** From every module that is given up, dependencies that are
  given up lead to one that is dirty itself.
* **NothingAssumedAtRest**, **StickyBad**, **CheckReturns.** No assumption outlives
  the call that made it (without exceptions); a bad module stays bad until it
  is replaced; every call returns.
* **ParseCacheFresh.** The parser cache never pairs an old text with the present
  time, even if the file is written between `stat` and read.
* **ServesFreshText** (refinement). A request uses a text the file had while it
  ran, whenever the file is written, except where it reuses a module that is
  `mistimed` or `overtaken`. Without either exception TLC finds a violation.
* **ShadowingIsSeen.** A request that reuses M misses no file that shadows it,
  except in directories the server does not know, has passed over before, or
  that changed after the request began. Each exception is a behaviour of the
  code (section 6); without any one of the three TLC finds a violation.
* **MarksTheReachable**, **NoAssertFails**, **Measures**, **CallReturns.** The walk
  marks what Measurement counts, no assertion of the log fails, a call is one
  step of Measurement that restores every colour, and it ends on every heap.
* **HandlesKeepTheirEnds**, **NothingElseIsOpen**, **OwnChildOnly.** The numbers in
  a handle name its own pipes although numbers are reused; nothing is left open
  but what a failing `pipe` leaves; `exit` and `kill` meet no other child.
* **CallsReturn.** A blocking call returns, unless a child waits for room in a pipe
  nobody reads: `write` always, `read` and `exit` once the inputs of all processes
  are closed. All, because a child that was started later holds the writing ends
  of earlier ones.
* **BufferHoldsText**, **ArgumentsArrive.** The buffer holds what was appended, and
  every argument arrives as it was given.
* **CallbacksFollowDocument**, **TreeIsRight**, **Terminates**, **XmlTypeOK.** The
  parser reports the tokens of the document in order and rejects exactly the
  documents whose tags do not match; up to the first end tag every node hangs where
  it stands in the document (section 6 says why not further); the parser stops, and
  never goes behind the zero, in broken documents either.
* **NothingLeaks**, **RunningCodeIsAlive**, **GroupsReported.** The calls that have
  not ended hold each block they need once and nothing else is held, so every way out
  frees all of its call's blocks, and none twice; a pattern outlives its matches; a
  group that took part is reported by its offset in the whole subject, and one that did
  not by a negative number, of this match and not of a callout's. Nothing is said of
  the case of section 6: an unset group before a set one in a search that starts behind
  the beginning of the subject.
* **SubmittedBeforeShutdownRuns**, **WorkersEnd**, **NoTaskTwice**,
  **HandedTasksRun.** The pools run what they promised to run, once, and end.
* **NoLostWakeup.** A loop that sleeps with no release pending has nothing to run
  before it wakes.
* **DoneMeansIdleOffMain**, **CancelledDoNotRun**, **EveryOneTimerRuns.** The loop
  ends only when nothing is left that it was told of; cancelled events do not
  begin to run, not even those already collected, unless another thread cancels one in
  the moment between the test and the call; one-time events do.

### Bounds

* `check_module`: three modules give every shape that matters to the marking
  (cycle, cycle with an entry, shared dependency, chain into a cycle), and all 64
  graphs without self-loops are initial states and targets of retyping. Theorems
  cover the other sizes. `check_policies` fixes one graph (a cycle that a third
  module depends on) because temporal properties are expensive.
* `MaxTime` (ModuleCache and DirectoryCache: 4) bounds the number of writes or
  changes. Each exception of ShadowingIsSeen, when it is left out, is violated
  with a single change; three let a change that was passed over, one before the
  request and one during it meet.
* `MaxDelays` 2: an older and a newer delay, whose order matters.
* ObjSize: the heaps have a list, sharing, cycles, a block that points to itself
  and a string whose words look like pointers; four blocks fill an array of one byte
  and let a run of equal colours reach its limit of three. Colours are 0 and
  3, which differ in both bits.
* Process: two handles make one process a stranger to the other and let the
  second inherit the pipes of the first; nine descriptors are too few for what
  failing calls leave open, so `pipe` also meets the limit. `Capacity` 1 already
  lets every writer wait, and a write of `Capacity` + 1 bytes waits half-way. With `Capacity` 2 (1.45 million states), and with
  children that write to both streams (1.09 million), the properties hold as well.
  Command lines: one argument of up to four characters, or two of up to two, over
  quotation mark, backslash, space and a letter: runs of backslashes before a
  quotation mark, before the end and before a letter.
* NativeXml: eleven kinds of tokens; four nest two elements with text between, close
  the wrong one, or put a section inside. Thirteen broken tokens and a document type
  without a name, in documents of at most two, end a section at every place where the
  code looks ahead.
* Pcre2: two patterns are interchangeable (symmetry; no liveness is checked), two
  groups let one take part and one not, two levels let a match in a callout use the
  pattern of the match below. A subject of length 1 has two positions to start at.
* Pools: a task may overtake at most the others, so three tasks on two workers
  let one be queued and one throw; two shutdowns race. The violation run needs one
  worker, two tasks and one shutdown.
* EventLoop: two repeating events with intervals 2 and 1 fall due apart and, at
  `MaxNow`, together, so that one can cancel the other that is already collected; two one-time events, one can be scheduled while the other runs;
  `MaxNow` 2 (at `MaxNow` time stands still and what is later counts as due).
  Other threads call everything but `repeat`, which only callbacks call: it
  differs from `run` for the loop only in the list it goes to.
* No run uses a state constraint. Symmetry is used in `check_module` and
  `pcre2_match`, which have no liveness property; StickyBad does not depend on
  names.
* `CHECK_DEADLOCK FALSE` is set where the system really may stop: pools that are
  shut down, an event loop that is done, a parsed document, a program that a
  signal has ended or that has used up its handles. The server never stops.

### Fairness

* CheckModule: `WF_vars(Check)`. The compiler is one thread and runs a call of
  `check_module` without waiting for anybody. Nothing makes users send requests.
* ObjSize, NativeXml: weak fairness of the steps of a call. They are plain loops;
  nobody has to begin a call.
* Process: the kernel completes a call that can be completed (`CallStep`), and every
  child runs (`KidStep`): it reads its input, writes what it read, and ends at the
  end of its input. No child has to end earlier, and the program has to call nothing.
* FixedThreadPool: weak fairness of each worker and of a shutdown that has read
  the flag; no one is obliged to call `run` or `shutdown`. Tasks return.
* ElasticThreadPool: the same; and no lock has to time out.
* EventLoop: weak fairness of the loop and of the clock. Callbacks return; nobody is
  obliged to keep a promise.
* The mutexes need no strong fairness in the models: who takes one gives it back
  within a bounded number of its own steps, and the number of calls is finite.

## 4. What is proved

| theorem | says, for every value of the constants | assumes |
|---|---|---|
| `CheckModuleProofs!TypeCorrect` | `[]TypeOK` | |
| `ConfirmedIsClosed` | `[]ConfirmedClosed` | |
| `VersionsDoNotMix` | `[]NoMixedVersions` | |
| `BadIsSticky` | `StickyBad` | |
| `NothingStaysAssumed` | `[]NothingAssumedAtRest` | no module has the content policy, none is a macro module |
| `EveryBadHasCause` | `[]BadHasCause` | |
| `ModuleCacheProofs!TypeCorrect` | `[]TypeOK` | |
| `ParserCacheIsFresh` | `[]ParseCacheFresh`, also with racing writes | writes change the time |
| `FreshTextIsServed` | `ServesFreshText` | writes change the time |
| `DirectoryCacheProofs!TypeCorrect` | `[]TypeOK` | |
| `ShadowsAreSeen` | `ShadowingIsSeen` | |
| `Pcre2Proofs!PcreTypeCorrect` | `[]PcreTypeOK` | |
| `EverythingIsFreed` | `[]NothingLeaks` | |
| `PatternsStayAlive` | `[]RunningCodeIsAlive` | |
| `GroupsAreReported` | `[]GroupsReported` | |
| `ProcessProofs!OwnEndsStay` | `[]HandlesKeepTheirEnds` | |
| `NumbersAreClosed` | `[]NothingElseIsOpen` | |
| `StrangersAreSpared` | `[]OwnChildOnly` | |
| `TextIsKept` | `[]BufferHoldsText` | |
| `ArgumentsAreRead` | `[]ArgumentsArrive` | |
| `ThreadPoolProofs!FixedTypeCorrect` | `[]FixedTypeOK` of FixedThreadPool | |
| `TypeCorrect` | `[]TypeOK` of ElasticThreadPool | |
| `NoTaskRunsTwice` | `[]NoTaskTwice` | |
| `StdProofs!NoWakeupIsLost` | `[]NoLostWakeup` | |
| `TheLoopEndsIdle` | `[]DoneMeansIdleOffMain` | |
| `CancelledStayAway` | `CancelledDoNotRun` | |
| `ReadsInBounds` | `[]XmlTypeOK` of NativeXml | |
| `CallbacksFollow` | `[]CallbacksFollowDocument` | |
| `TreeStaysRight` | `[]TreeIsRight` | |
| `ObjSizeProofs!MarksExactly` | `[]MarksTheReachable` | |
| `NoMarkIsLeft` | between two calls no block is blue | |
| `NoAssertEverFails` | `[]NoAssertFails` | |
| `ColoursAreRestored` | between two calls every block has the colour it had at first | |
| `ObjSizeMeasures` | `Measures`: ObjSize implements Measurement | |

All of them assume the named assumptions on the constants that the modules
declare, which TLC evaluates in every run, and nothing else.

*CheckModule.* `ConfirmedClosed` is not inductive: half-way through a call the
visited modules rely on one another. The invariant `Inv` says what they rely on:
while nothing was found dirty (`Assuming`), each finished module has all its
dependencies among the confirmed, the tentative and, for those on the
stack, the ones still to be visited (`AssumptionsSupported`); the tentative
modules are exactly the finished ones and those on the stack (`Discharged`). When
the outermost call ends clean the stack is empty and all assumptions become
true at once; the first dirty dependency ends every pending call, and
`FinishDirty` lowers what was assumed. `raised` has to be part of the
invariant because an exception breaks `Discharged` until the next compilation.
`NothingAssumedAtRest` adds `OwnedUnknowns`: a module in the state `MSUnknown` is
one the running call has on its stack or in its list of assumptions. Without
the content policy and macro modules nothing raises in between, so the list is empty at rest.
`BadHasCause` needs a reason for what a call that is not over has found: below the
first dirty dependency every call on the stack is about to be lowered for the one
above it (`Chain`), and the invariant says so of the stack, of the result that is
handed back and of the cache alike (`Reason`).

*ModuleCache.* The parser cache: an entry's time is not later than the file's, and
if they are equal so are the texts (`Fits`); this survives `ParseRead` because
the time was asked for first. The module cache also needs that, under the content
policy, the cached parse is the text the module was typed from (`SameSource`),
and that the time of a module is that of its text. `mistimed` and `overtaken` are set by
exactly the steps that break the one or the other; what such a module has lost is only
its claim to be reused, so everything else the invariant says holds with them, too.

*DirectoryCache.* `TimesInv`: in a request that has asked, a directory's recorded
time is its present one, or it changed after the request began. `ClearInv`: in a
directory whose recorded time is the present one nothing comes before the
cached module, but what is `overlooked`. Together they leave only the three
exceptions.

*Pcre2.* The stack of matches changes in four ways only: it keeps its shape, a match
is pushed, the top changes, the top is popped (`Kept`, `Pushed`, `Changed`,
`Popped`). For each, what is allocated is what the frames on the stack own,
so an empty stack owns nothing; a block of a depth that is not on the stack is held by
nobody, so what a new call allocates it holds once. A pattern that a frame with a callout
uses is a root, so `Collect` cannot free it; a frame without one is on top of the stack
while it lasts (`PlainMatchesOnTop`) and lets no OCaml code run.

*Process.* Every open number has one reason to be open: a handle that was not closed,
a `process_run` under way, or a pipe that failed (`Accounted`), and it names an end
of that handle's own pipe; closing the ends of one handle therefore leaves
the others' (`EndsSurvive`). No two children that can be waited for have one id,
and a call of `exit` waits for the handle's own child if that could be waited for
when the call began (`OwnKids`).

*CommandLine.* A fold of the community modules is a recursive function on sets of
indices; `FoldExists` builds one for every length, `FoldUnfolds` reads it as one
value per index, and from there `CountsUp`, the well-foundedness of the numbers,
carries a fact from each index to the next. With that, whatever is appended to the
pieces is appended to the text they hold (`SubStep`, `CharStep`, `CharsStep`), so
each step of `process_run` keeps `Filling`: the buffer holds `text`. The arguments
need more, for a backslash is written only when the next character is known.
`ReadSoFar` says what a program would have read of the text so far: between two
arguments all before the i-th, the last one still open until a space follows
(`Between`); inside one, its first j - 1 characters, once the `bs_count` backslashes
that wait are added (`Within`). A quote in the argument leaves the program inside
of quotes because the backslashes before it are an odd number (`QuoteStays`), the one
at the end leaves them because they are an even number (`QuoteEnds`).

*Pools.* The types count workers: one that adds stop signals has added those of the
workers before it. `NoTaskTwice` needs that a task that was submitted once is in
at most one place, the deque or the hand of one worker (`OnePlace`), and that what
is in a place was accepted and has not run (`NotYet`).

*EventLoop.* `CollectRegular` takes back every release of the lock before the loop
looks at the queues, so while no release is pending what it saw is what there
is (`Awake`); a loop that waits, waits for a time or a promise (`Waits`); and a
round that decides to end has run no callback, so whatever came in meanwhile came
from another thread without a promise (`IdleRound`). `CancelledDoNotRun` needs that
the event the loop is about to call was not cancelled when it was tested: a cancel
since then is `tooLate`, and no callback runs in between.

*NativeXml.* Only what is not the zero lies in the document (`There`), and every
character the parser skips was compared with one that is not the zero, so the position
stays within (`BreakReads`, `WordsRead`). The tree needs `WaitOK`: a call waits
for `>` with an element open, or `done` would have no parent to go back to. The return
from an end tag needs `Placed`: a call that looks for one has a parent's name, which
the outermost has not, so there is a caller below it. That the document is a sequence
of characters at all is an induction over its tokens (`Flattened`, with `CountsUp`).
`CallbacksFollowDocument` is far from inductive: it does not say where the parser is.
`Follows` does. The tokens are laid over the document (`Cut`), `k` of them
are read, and the parser stands (`Stands`) in one of four places: between two tokens
(`Between`), in a text, of which the account holds what belongs to the tokens read so
far (`InText`, for two text tokens in a row are one callback), inside of the next token
(`Within`), or on the `>` of an element without an end tag, which is in the tree
already (`Waiting`). Inside of a token `Spot` relates the state, the next state and the
marks of the call on top to the grammar: which attribute, which side of the `=`,
how many brackets are open. The calls below are the open elements with their names and the
number of their children (`Calls`), and the nodes of the tree are those of the account,
which hang alike while no end tag was read (`Alike`). One lemma per action takes the
parser to the next place (`BodyFollows`, `WaitEndRetFollows` and so on); an error needs
that an account which went wrong stays wrong (`ReachesTheEnd`), and the
end that only `Between` and `InText` are left there (`LastPlace`).

*ObjSize.* Both walks are one depth-first search, over the blocks that are not blue or
over those that are. Of a search that has entered `V` and can still enter `U`,
`Walked` says: a field of a block of `V` that lies in `U` is one that a pending call
has yet to look at, or the child it holds back to enter last. A search that is over
has no pending call, so `V` is closed under the fields, and what the first walk marks is
no less than the least closed set; it is no more because a block is entered from a
block already entered. The second walk starts with exactly those blocks blue, so
what it leaves blue could not be reached, and there is no such block. That
every list and every field names a block is the assumption `HeapAssumption`.
The colours come back because the search is deterministic: the blocks in the order
in which the first walk enters them are a trace, and the second walk enters them
in this order. `Ordered` says so: the log, decoded, is the
colours of the trace; during the second walk, of what it has yet to enter. That
what is written in the code of ColorLog is read back is a lemma on its bits, place
by place: a number in the log takes a run of bits that say how long it is, and no bit
before the read position matters. `NoAssertFails` follows, since each read finds a
place that was written. The refinement needs
the words of a set of blocks, counted in whatever order they are entered (`Counted`);
that the count does not depend on the order is shown by a smallest counterexample,
since induction is out of reach. Then each step of a walk is a stutter of
Measurement and the return of the call its one step.

### Only model-checked

Liveness under fairness (`CheckReturns`, `CallReturns`, `CallsReturn`,
`Terminates`, the pools', `EveryOneTimerRuns`) is out of reach of the proof
system, and so is what depends on `ENABLED`. Every invariant and every action
property of the runs is proved. Three folds and two recursive functions are unfolded by
lemmas of their own (`FoldUnfolds`, `MeaningIs` and others), since no lemma here can
take the operator that is folded as a parameter.

## 5. Not modelled

* CheckModule: the experimental policy `Retype`, the `NoCheck*` policies (they only
  skip checks), `MFake`/`MImport`/`MExtern` modules. The `ServerError` of
  `server.ml:637` cannot be raised: the check is done for the context of the compilation
  (`:575`), and where that is the macro context an earlier case of the match applies.
* DirectoryCache: sub-directories, modules in packages, several signatures,
  platform-specific file names.
* ModuleCache: other modules, except as errors; `current_stdin`.
* ObjSize: a failing `realloc`, which ends the process; `alloc.h`. Elements of the two
  lists are blocks.
* Process: the calls of Windows other than the command line; a handle that is never
  closed is finalised by nobody; a child that a signal ended, for which `process_exit`
  raises (`:561`) after it was waited for, is one that returned a status.
* Pcre2: limits and character tables, and an allocation that fails (`Out_of_memory`).
  DFA matches are matches whose workspace is freed in the same place. With a callout the
  stub hands the library the OCaml array itself (`&Field(v_workspace, 0)`, `:581`), which
  is no root and may move while a callout runs, so the library may then read and write
  where the array was; and it copies the other workspace, which nobody wrote, back into
  the array. Such reads and writes are outside of the model.
* NativeXml: entities and character sets, which the callbacks would decode. A look-ahead
  behind the zero cannot be represented: the model compares with what stands at a
  position, up to the zero, and only the position itself is shown to stay within.
* EventLoop: `progress` and `wait`, with which a program drives the loop itself;
  callbacks that throw; delays and priorities of `MainLoop`.
* mbedtls: a wrapper and a finaliser per object, no state of its own. The rest of extc:
  one system call per function.
* The server loop, tasks, native libraries, `EntryPoint`, `evalThread.ml`, the
  passes of the typer: planned, section 7. Parser, typer, optimizer, generators and
  data structures: sequential transformations of large data.

## 6. What the code does otherwise than it says

One disagreement has a run of its own (`findings` in `PROJECT.json`):

1. A task queued by `ElasticThreadPool.run` while the last worker is between its
   empty `queue.pop` and `task = null` is left in the deque. Run
   `elastic_pool_stranded_task`.

Others are visible in the models as exceptions of a property, an assumption of a
theorem, or a case left out:

* A syntax error met by `content_changed` (`server.ml:577`), or an error met while a
  macro context is made (`:640`), leaves `check_module` with modules in the state
  `MSUnknown`; the next compilation dies with "This should not happen" (`:689`).
  `check_policies` contains both steps (`Raise`, `DieOnUnknown`); `NothingAssumedAtRest`
  is checked and proved without the content policy and macro modules only.
* The content policy compares a file with the parser cache (`:580`). After an
  exploration has parsed the changed file it finds no change, and the outdated
  module is reused. `make_module` (`typing/typeloadModule.ml:54`) asks for the time
  after the file was parsed, so a write in between gives the module a time its text
  did not have. ModuleCache calls such modules `overtaken` and `mistimed`, and excepts
  their reuse. With `SameSecond = TRUE` both
  cache properties fail.
* Directories: (a) the listing of a new context is compared for the first time in
  the *second* request, although modules are cached by then (`server.ml:562` says
  there is nothing to shadow); (b) a new class path clears the directories
  (`:806`) but not the modules, so a module of a directory that left the class
  path is reused; (c) sub-directories come from `Path.find_directories`
  (`core/path.ml:289`) without a trailing slash, so the file name built at
  `:590` never names a file in a package; (d) a change is consumed by the first
  request that sees it (`:524`), whether or not it checks the module; (e) only
  younger files shadow (`:593`); (f) delays left by requests that were cut off
  run newest first, so the oldest class path stays; (g) `readdir_cache` can be
  older than the directory's recorded time.
* Processes: the documentation of `sys.io.Process` says of `exitCode` "If the process
  has already exited, return the exit code immediately", but a second call finds no
  child and raises; a write to a process that has ended raises no exception but ends
  the program by SIGPIPE, unless it is ignored; a failing `pipe` leaves the pipes
  opened before it open (`src/libs/extc/process_stubs.c:381`), a failing `fork` does
  not; on Windows `process_stdin_close` keeps the closed handle, which
  `process_close` closes again.
* Pcre2: a group that took no part but stands before one that did is reported as
  `subj_start - 1` where a match starts behind the beginning of the subject, because
  the unset offset is -1 before `subj_start` is added. `pcre2.ml` takes only a negative
  offset for unset (`:424`, `:434`, `:932`, `:1052`), and `split` and `full_split` start
  matches there (`:948`, `:962`, `:1070`). `GroupsReported` demands the negative offset
  in every other case and leaves this one out; with it, TLC finds a violation. A callout sees the groups behind `capture_top` as an earlier match
  left them.
* XML: `done` is documented as called "when an XML node is closed"
  (`src/std/cpp/NativeXmlImport.cpp:367`), and is called for `<a/>` but not for
  `</a>` (`:282-288`), so what follows an end tag hangs below the element it
  closed; a comment that begins with `?` becomes a
  processing instruction (`src/std/cpp/NativeXml.hx:104`); the name of an end tag is
  taken from behind the `/` (`NativeXmlImport.cpp:186`), spaces included, so `</ a>` does
  not close `<a>` although `< a>` opens it: it is among the broken tokens.
* A task accepted by `FixedThreadPool.run` between the flag and the addition
  (`src/std/sys/thread/FixedThreadPool.hx:70`) can land behind the stop signals.
* `EventLoop.cancel` is to "Prevent execution of a previously scheduled event"
  (`src/std/sys/thread/EventLoop.hx:84`). A cancel by another thread between the test
  (`:230`) and the call (`:231`) of an event that was collected comes too late: the
  event runs once more after `cancel` has returned. `CancelledDoNotRun` excepts it.
* What the last event of `haxe.MainLoop` schedules before it stops is lost with
  the loop (`src/std/sys/thread/EventLoop.hx:261`). An event another thread adds
  between the second section of `__progress` and the end of `EventLoop.loop`
  (`:187`) is lost; `nextRunTime` is advanced without sorting the list again
  (`:219`), so later events run out of the order of their times; an event that
  throws drops those collected with it (`:254`).
* A function given to `EntryPoint.addThread` that throws keeps the program alive for
  ever (`src/std/haxe/EntryPoint.hx:80`); tasks at the end of a request run outside
  the handler of exceptions (`server.ml:1052`).

## 7. Plan

Done: CheckModule, ModuleCache with FreshCompile, DirectoryCache, the two pools
and EventLoop, in the order of what a wrong answer would cost; the C libraries
objsize (with Measurement), processes and pcre2; the XML parser; proofs about all of
them. Next, in this order:

1. **CheckModule with `Retype`**: `attempt_retyping` as a third outcome of a dirty
   dependency (`server.ml:697-708`, `retyper.ml`). Property: ConfirmedClosed with
   retyped modules; three modules.
2. **ServerLoop**: `wait_loop`, `process`, exceptions at every call, the queue of
   tasks with its priorities, blocking and non-blocking connections, native
   libraries. Properties: every request gets one answer, every task runs, no task
   runs inside a request, what an aborted request leaves behind. Two requests, three
   tasks. It composes the `idle` steps of the cache modules.
3. **EvalThread**: the table of threads that each thread replaces by a copy
   (`macro/eval/evalThread.ml:89`) and `Deque.pop`, which looks without the lock
   (`:42`), as a refinement of the sequence the pools use.
4. **EntryPoint**: `run`, `addThread`, `runInMainThread`, functions that throw.
5. **EventLoop** with `progress` and `wait`, and callbacks that throw.
6. **TyperPasses**: `delay` and `flush_pass`, as a queue ordered by pass.
7. **Finalisers of mbedtls**: objects that refer to one another, freed in any order.
8. **Primitives**: Condition and Semaphore of the targets that are written in Haxe.

Theorems planned: for FixedThreadPool that no task follows a stop signal except one
that raced with the shutdown; the refinement of Deque by EvalThread.
