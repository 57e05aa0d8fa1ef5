# A formal model of wowless

wowless runs the Lua and XML code of World of Warcraft addons without a client.  It
has two halves.  The *host* is a set of Lua modules (`src/wowless/modules`) that keep
the state of a client - frames, anchors, events, timers, addons - and call the code of
the addons back.  Below it is *elune* (`src/elune`), the project's Lua 5.1 with the
taint of the client built in, and the C code with which wowless crosses between the
host and the sandbox (`src/wowless/*.c`, `*.h`).

What makes the host hard is *re-entrancy*: nearly every loop in it runs foreign Lua
code in its body, and that code may call any operation of any module, the one whose
loop is running included.  What makes elune hard is that each of its parts keeps a
discipline no type checks: registers freed in the reverse of the order in which they
were taken, a barrier in every store, taint read and given by every macro that copies
a value, counts and modes put back on every way out of a call.

Every module is translated from the source; file and line of each definition are in
`PROJECT.json` under "map".

## Contents

| Module | Models | Checked by | Proofs |
| --- | --- | --- | --- |
| `HList`, `HListWalk` | `hlist.lua`: the hash list, and a loop over it | run `hlist` | `HListLemmas`, `WalksProofs` |
| `Visibility` | `visibility.lua`, `SetParent`, `CreateUIObject` | run `hlist` | `WalksProofs` |
| `Walks` | `HListWalk` and `Visibility`, side by side | run `hlist` | `WalksProofs` |
| `EventDispatch` | `events.lua`, `RunScript`, function containers | run `events` | `EventProofs` |
| `Timers` | `time.lua` | run `timers` | `TimersProofs` |
| `Anchors` | `points.lua`, `dirty.lua`, `region.lua`, `SetScrollChild.lua`, anchors of `xmleval.lua` | runs `anchors`, `anchors_scroll` | `AnchorsProofs` |
| `MainLoop` | `mainloop.lua`, `eventqueue.lua`, `warningqueue.lua`, `xmlwarningqueue.lua` | run `mainloop` | `MainLoopProofs` |
| `EventDelivery` | what the event queue promises; `MainLoop` implements it | run `mainloop` | `MainLoopProofs` |
| `Loader` | `loader.lua` from `doLoadAddon` on | run `loader` | `LoaderProofs` |
| `Heap`, `Collector` | `lgc.c`, and what the API does to the heap | runs `collector`, `collector_upvalue` | none |
| `Calls` | `ldo.c`, `lcorolib.c`, `bubblewrap.c`, `security.c` | runs `calls`, `calls_nesting` | `CallsInvariant`, `CallsProofs` |
| `Parser`, `Codegen`, `CheckCode` | `lparser.c`, `lcode.c`, `ldebug.c` | run `runtime` | none |
| `Execute`, `Meaning` | `lvm.c`; what a program means without a compiler | run `runtime` | none |
| `Tables`, `Sorting` | `ltable.c`, `ltablib.c` | run `runtime` | none |
| `Patterns` | the matcher of `lstrlib.c` | run `runtime` | none |
| `Stubs` | `typecheck.h`, `stubs.cpp`, `luaobject.c`, `uiobject.c`, `tools/prep.lua` | run `runtime` | none |
| `Taint` | taint of values in `lapi.c`, `lauxlib.c`, `lbaselib.c` | run `runtime` | none |
| `Runtime` | the parts from `Parser` to `Taint`, side by side | run `runtime` | none |

The `MC` modules are instances for TLC; `MCPrograms` has the programs for the compiler.
`EventDispatch`, `MainLoop` and `Visibility` extend `HList`: their lists of frames,
callbacks, children and regions are hash lists, and a change to `HList` is a change to
them.  Definitions named "a variant with a slip in it" are used by no specification.
They are the plausible bugs that the properties are tried against ("mutants" in
`PROJECT.json`): each property is violated when one of them takes the place of the right
definition.

## The system and its components

### The host

**Runner** (`runner.lua`).  Loads the addons, sends the login events, then runs
scripts: frames of the client, clicks on buttons, events, slash commands.  It keeps no
state.  It is the only caller at the outermost level, so what the models call "the
host" or "Lua code outside" is the runner.

**Addon loader** (`loader.lua`).  State: for each addon its .toc, `loadable`, and the
marks `loadattempted`, `loaded`, `secdeploadattempted`, `secdeploaded`,
`bootstrapping`, `bootstrapped`.  Operations: `loadAddons` at startup, `loadAddon`
from Lua (`LoadAddOn`), `saveAllVariables`.  It runs the files of an addon and sends
`ADDON_LOADED`; both may call it again.  Correct when: files run once and after those
of the dependencies, whatever the cycles; nothing stays half loaded.

**Event delivery** (`events.lua`, `scripts.lua`, `funtainer.lua`).  State: hash lists
of frames for each event and for all events, of callbacks for each event, and of
callbacks for each frame and event.  Operations: register and unregister, cancel a
container, send.  Sending runs handlers, which call all of these.  Correct when: a
send reaches what it promised to reach, no matter what the handlers do, and reaches
nothing that asked for silence before it.

**Timers** (`time.lua`).  State: the clock, a heap of timers.  Operations: make a
timer, cancel its callback, advance the clock and run what is due.  Correct when:
timers run in order, not early, not too often, none is lost, and `Advance` ends.

**Main loop** (`mainloop.lua` and the queues).  State: the events pending, the
warnings pending, the warnings of the XML reader.  `NextFrame` drains them, advances
the timers, runs `OnUpdate` of all visible frames and recomputes their rectangles.
Correct when: events go out once and in order, the warning limit holds and drops what
it says it drops, every visible frame has its turn.

**Anchors and rectangles** (`points.lua`, `dirty.lua`, `region.lua`).  State of a
region: its points, `anchoredBy` (the reverse, counted), `dirty`, its rectangle.
Operations: set and clear points, set sizes, ask for the rectangle.  Correct when: a
rectangle in use is what computing it again would give; no call that searches for a
cycle closes one.

**Visibility and parenting** (`visibility.lua`, `uiobjects.lua`).  State: parent,
children, regions, `shown`.  Showing, hiding and reparenting run `OnShow` and `OnHide`
down the tree, in loops over the children.  Correct when: the scripts a frame has run
agree with what it is in the end.

**UI objects** (`xmleval.lua`, `api.lua`, `templates.lua`, `intrinsics.lua`).
Creation of an object from templates, in phases, with scripts in between; the
translation of XML into such calls.

**Script security and errors** (`security.c`, `bubblewrap.c`, `errorhandler.lua`,
`errors.lua`).  Every call of foreign code goes through `CallSandbox` or `CallSafely`:
taint is switched on for it and off again behind it, an error ends there, goes to the
error handler, and becomes a warning of the next frame if that one fails too.  Correct
when: each side runs in its own mode, through errors and coroutines too.

**API stubs** (`typecheck.h`, `stubs.cpp`, `luaobject.c`, `uiobject.c`, and
`tools/prep.lua`, which generates the wrappers).  The sandbox
calls an API function through a C wrapper that checks and converts the arguments,
calls the implementation and converts the results.  Correct when: an implementation
sees what it declared, and what the sandbox gets it can give back.

### elune

**Compiler and interpreter** (`lparser.c`, `lcode.c`, `ldebug.c`, `lvm.c`, `lfunc.c`).
One pass: the parser emits instructions while it reads, with an expression descriptor
for what it does not want to emit yet and lists of jumps whose destination it does not
know.  Correct when: the code does what the program means, and passes `symbexec`.

**Garbage collector** (`lgc.c`).  Incremental: marks and sweeps in steps between the
calls of the program.  State: colours, gray lists, the place of the sweep, userdata
that wait for their finalizer.  Correct when: nothing reachable is freed, garbage is
finalized once, weak tables forget what is dead and only that.

**Calls, errors and coroutines** (`ldo.c`, `lcorolib.c`, `lsec.h`).  State of a
thread: its CallInfos, its count of C calls, its taint and taint mode.  An error
unwinds Lua and C calls at once with `longjmp`.  Correct when: whatever was switched,
counted or saved is put back; taint is not washed off.

**Taint of values** (`lapi.c`, `lmanip.h`, `lauxlib.c`, `lbaselib.c`).  Every value and
every object has a taint; reading a tainted value taints the thread, and a tainted
thread taints what it writes and makes.  `securecall` and its kin are barriers.
Correct when: nothing made of something insecure is secure; no barrier leaks.

**Tables** (`ltable.c`, `ltablib.c`) with an array and a hash part, **table.sort**, and
**string patterns** (`lstrlib.c`): algorithms with a definition to compare them with.

### How they interact

The loader and the XML reader create objects; creation, the main loop, event delivery
and visibility run scripts (`scripts.RunScript`, through `CallSandbox`), which call
back into everything through the stubs; whatever moves a region calls
`dirty.SetDirty`; the main loop asks for rectangles.  The library functions of elune
use its API, the API stores with the barriers of the collector, the collector runs
between any two of them.  All calls are synchronous; there are no messages, one
thread of the operating system and no crashes to recover from.  What persists, the
saved variables, is written once at the end.

## The models

**HList / HListWalk.**  A hash list is the record `[list, set]` of the code, and
`Insert`, `Remove`, `HasNext`, `NextEntry` are its methods.  `HListWalk` is one
`for` loop over `entries()` with a body that may insert and remove anything.
`yielded` is history: it is kept while no yielded entry has been removed.

**Visibility.**  `parent`, `children`, `regions` and `flagged` (the objects with `shown`)
are the fields of the objects; `updates` is the stack of walks of `DoUpdateVisible` and
of creations in progress, each with its place in its lists, which are those of
`HList`, read as they are at each step.  While a script runs it may show, hide, move
and create anything.  Whether an object is visible follows from the flags at once and
the scripts tell of it later, so the question is whether what an object was `told` last
is true.  `disturbed` is history: a script has meddled with a walk that is under way.

**EventDispatch.**  `regs`, `allregs`, `global`, `frames` are the tables of
`events.lua`; `stack` is the stack of running `DoSendEvent` calls, each with its
place in its three loops.  The handler that runs belongs to the top of the stack.
The loop over the OnEvent frames works on a copy, the two others on the lists as
they are, and `pairs()` over `frames` may skip or repeat keys when one is added,
or fail when its own key is gone (the manual leaves it undefined).  A container
is one value of `Callback`; the three binding types of a script run as one
handler.

**Timers.**  One action for each of: making a timer, cancelling, entering
`Advance`, dropping a dead timer, starting a callback, the return of the callback,
leaving `Advance`.  The heap is a set; among entries due at the same time it may
give any.  The sentinel at infinity is never due and is left out.

**Anchors.**  The numbers are abstracted: `valid` says whether a region has a
rectangle and `uses` from which regions it was computed.  The order in which
`validate` looks for a usable point is kept (`Alternatives`), so is the rule that
a point relative to a region without a rectangle is passed over, and the sides
that follow from a width or height.  `SetDirty` is the set that its recursion
marks.  The search of `cycleCheck` is its answer: it succeeds when some set of
regions that holds the target, and with a region all it is anchored to, is
without the region itself.  `SetPointInternal` and `SetAllPointsInternal` make no
search: `SetScrollChild` and XML call them directly.  Regions of `Xml` come to be one
in another (`loading`), and while its elements are evaluated the innermost is anchored
to whatever there is but itself; scripts run in between.  `GetRect` is left undefined
on cycles, where the code goes on with an old rectangle.

**MainLoop.**  `phase` and `cursor` are the place in `NextFrame`; `script` says
that Lua code runs.  That code is a number of calls and a return.  What a send or
a timer does besides is in the other modules.  Events and warnings are numbered
as they are queued, so that order and loss can be told.  `EventDelivery` is what
the queue is for, with nothing of arrays and cursors: events are asked for, delivered
in that order, and a drain closes only when none is left.

**Loader.**  `stack` holds the calls of `doLoadAddon` and `doBootstrap` in
progress, since they are recursive and Lua code between them may start more.  The
`.toc` files are a constant of a behaviour, `toc`, chosen at the start:
dependencies (required and optional are treated alike once `initAddons` is over),
the reverse of `LoadWith`, and the flags.  A file is a name with its attributes.

**Heap / Collector.**  `g` is `global_State` with all objects: a colour for each and
the references that can change.  A table has one entry, a Lua closure one upvalue, a
C closure one value, a userdata its environment; stacks, open upvalues, the string
table, weak tables and userdata with `__gc` are there.  `Heap` has the functions of
`lgc.c` and the stores of the API with the barrier that each uses; `Collector` has one
action for each state of `singlestep` and one for each kind of call of a program, and
`luaC_fullgc`.  How much work a step does, and when it is due, is left open: a step
may happen after any call.  The gray list is a set: its order is any.

**Calls.**  The state has the C stack as it is: each protected call, resume,
`luaD_call` and `luaV_execute` has an activation there, so an error is a search for
the nearest `try` and everything above is gone, as with `longjmp`.  Lua functions do
anything in any order: call, tail call, return, raise an error, read something
tainted.  The C functions are those that matter for control: `pcall`, `xpcall`,
`securecall`, delegates, coroutines, and the crossings of wowless.

**Parser, Codegen, CheckCode.**  `Parser` reads syntax trees in the order in which the
parser reads tokens and calls `Codegen`, whose operators are the functions of
`lcode.c` on a FuncState and an expression descriptor.  A list of jumps, threaded
through the instructions by the code, is the set of their places.  `CheckCode` is
`symbexec`.  `asserts` becomes false where a `lua_assert` of `lparser.c` or `lcode.c`
would fail, with these exceptions.  `lua_assert(0)` in a `switch` (`lcode.c:479`, `594`,
`721`, `824`, and `356`, whose default takes the kinds that are left) is a CASE without
OTHER, which ends the run with an error.  That the constant found is the one looked for
(`lcode.c:224`) and that an instruction is made by the function for its format
(`lcode.c:847`, `854`) hold by the way the model is written: a constant is looked for by
its value, and `Emit` makes instructions of every format.  `lparser.c:388` says the same
as `lparser.c:386` one line after it.
**Execute** runs what comes out, an instruction a step, with all opcodes, upvalues,
varargs, metamethods, strings that are numerals and the checks of divisions that
`debug.setexceptmask` switches on.  A string is a sequence of characters, compared byte
by byte up to each `'\0'` as `l_strcmp` does in the C locale; strings have no metatable.
Numbers are integers and NaN: a division gives an exact quotient or `0/0`, and of the
numerals that `strtod` reads there are `nan` and digits with a sign.  The strict check of
a division reads its operands as numbers whatever they are; for what a nil or a boolean
leaves unwritten there the step has both outcomes.
**Meaning** evaluates the same syntax with environments and
cells, as the manual describes the language, and is what the run compares with.

**Tables, Sorting.**  Nodes, their chains, the free pointer, dead keys, the counts of
`rehash` and the sizes it picks, `next`, the binary searches of `luaH_getn`.  The
functions of `ltablib.c` run over it one store at a time.  `Sorting` is `auxsort` with
its partition, for orders that need not be orders.

**Patterns.**  The matcher as it recurses, with captures opened and closed on the way
and given back when it backs out.  It is compared with `Ways`: the matches of
a pattern, declaratively, in the order in which the manual prefers them.

**Stubs.**  A declaration and the values of a call are chosen first, and the wrapper that
`prep.lua` makes of the declaration is run on them: the pass for a usage message
(`CheckUsage`), the checks, conversions and permissive replacements (`CheckInput`), the
warning about too many arguments and the defaults (`InputsDone`), the implementation,
which returns anything (`CallImpl`), and the checks of the results with their defaults
(`CheckOutput`).  Every type of `typecheck.h` has its conversion in both directions, and
the two variants, with an implementation and without (`MakeResults`), are kept apart as
in the code.  Left out are structures, whose checks are generated field by field, the
getters and setters of fields, methods of Lua objects, `protected`, `secureonly` and
`unsupported` functions, which answer before any check, and the default `stubnotnil`.

**Taint.**  A C function at work: its stack, its upvalues, a table, the taint state
of its thread.  It makes the API calls of a library function one by one, or any calls
it likes.  A value has the taint the code gives it, and as ghosts whether it was really
made from something insecure; the properties compare the two.

**Runtime.**  The last six share no state, so their composition lets one be at work
in a behaviour and leaves the others idle; exploring their product would show nothing
more.  Where parts do share state they are composed for real: the collector with the
API (`Collector`), calls with taint and coroutines and the crossings of wowless
(`Calls`), the compiler with the interpreter, tables with their library.

## What the runs show

| Run | Instance | Bounds | States |
| --- | --- | --- | --- |
| `hlist` | a list of 4 values; 3 frames and a region in three trees | any number of changes of the list, 4 calls on the tree | 1 810 634 |
| `events` | 2 frames, 3 callbacks, 1 event | 2 sends at once, 4 calls after a start with registrations | 198 468 |
| `timers` | 2 timers, 2 callbacks, delays 0-2, iterations 0, 1, 3 | clock moves by 5 | 630 764 |
| `anchors` | 3 regions, 1 of them from XML, 2 points, both sides set or neither | 3 points at once | 115 956 |
| `anchors_scroll` | the same, none from XML | the same | violation |
| `mainloop` | 2 frames, limit of 2 warnings | 5 calls | 201 386 |
| `loader` | 3 addons, 6 kinds, 288 sets of .toc files, 4 files each | 1 `LoadAddOn` call by Lua | 721 177 |
| `collector` | 14 objects of all kinds, 5 starts | 3 calls after the start, 3 stack slots | 1 367 808 |
| `collector_upvalue` | the same | the same | violation |
| `calls` | 1 host function, 2 of addons, main and one coroutine | limits of 5 C and 8 Lua calls, 6 CallInfos, 2 calls lost | 872 488 |
| `calls_nesting` | 1 and 1, main and two coroutines | limit of 3 C calls, 9 CallInfos | violation |
| `runtime` | see below | see below | 1 241 611 |

* `hlist`.  `WalkIsPrefix`, `EndIsComplete`: a loop none of whose yielded entries is
  removed goes through the list without skipping or repeating. Four values let a removal
  move an entry that was yielded, the current one and one still to come.  `TreeAgrees`:
  parents and the lists of children and regions say the same, and no chain of parents
  closes.  `ScriptsTell`: a script that tells its object something else than the one
  before is right when it starts, and the last one is right when all is over - unless a
  script meddled with a walk: it made a walked frame, or one above it, visible or
  invisible, or moved something below a walked frame, or hid something below a frame
  whose OnHide walk is under way. Each of these three is needed, TLC finds a
  counterexample without it (see "Seen on the way"). The trees have a child beside a
  region, a chain of three and a frame with two children, so that a walk is nested and a
  removal moves a sibling; one call starts a walk and three are made by the scripts in
  it.
* `events`.  `Delivered`: OnEvent runs exactly as often as the frame was registered
  when the send began, and the loop over the global callbacks reaches all that were
  there, once, unless one was unregistered under it.  `QuietFrames`: after
  `UnregisterAllEvents` nothing is left anywhere, and no later send runs anything of
  the frame.  `SendsEnd`.  The instance starts from registrations that a few legal calls
  make, so that the four calls are spent on what happens during sends; two sends at
  once are an outer loop disturbed by an inner one.
* `timers`.  `NoneLost`; `OnTime`: never early, never more than its iterations, and
  nothing due left behind; `InDueOrder`; `AdvanceEnds`.  Delay 0 is the case in which a
  timer put back could be met again; two timers on one callback share its cancellation.
* `anchors`.  `RefCounts`: `anchoredBy` is exact.  `CleanRects`: what is not dirty
  rests on what is not dirty and will be marked with it - this is why `SetDirty` may
  stop at a dirty region - and a rectangle kept is what would be computed now.
  `OnlyUncheckedCloses`: the cycle check is enough where it is made; what closes a cycle
  is `SetScrollChild` or XML.  One region is made from XML, at any time.  Three regions make chains and
  cycles with one in between, two points on one region make counts of 2.  Regions with
  a cleared point are excepted, since `ClearPoint` keeps the rectangle and the tests say
  that it must (`addon/Wowless/uiobjects.lua:911-926`).
* `mainloop`.  `DeliversInOrder`: the main loop implements `EventDelivery`, under a
  refinement mapping from its queue and cursor.  `Warnings`: they go out in order, and
  the limit drops what it says it drops.  `Updates`: the OnUpdate loop reaches each
  frame that is shown, in order.  `FrameDone`: a frame ends, with no dirty rectangle on
  a visible frame.  Five calls are enough for warnings of both kinds around and past
  the limit of two, with a drain in between.  The real limit is 100.
* `loader`.  `RunOnce`: no file runs twice in an environment, with three kinds of
  exception that the property names and the code has.  `InTurn`: files run after those
  of the dependencies, except what is being loaded, the addon itself or further out, and
  what bootstraps is not secure (the assertion of `loader.lua:300`).  `AllLoaded`: between loads nothing
  is half done, and in the end everything is loaded.  `LoadEnds`.  The addons are of
  every mix of kinds and the dependencies have cycles of two and three.
* `collector`.  `ReachableKept`: what the program can reach is not freed.
  `ColoursAndLists`: between cycles everything is white, and no object is in two lists
  that are threaded through one field.  `Finalization`: only of garbage, once,
  before the memory goes, and in the reverse of the order in which the userdata were
  made.  `WeakEntriesKept`: an entry that is cleared was dead, in full collections too.
  The starts put the objects where most barriers meet: a userdata with a finalizer that
  is the value of a weak table, one that is both key and value of a table with weak
  keys, closures that share an upvalue whose local is gone, closures over locals one of
  which is gone, a thread kept alone with a closure over a slot of it.  The calls put
  tables, threads, closures and strings in the place of the userdata and make the second
  userdata, whose finalizer is then the first to run.  Three calls are enough
  for a value to be read, its only reference overwritten and the value stored elsewhere
  in the middle of a cycle, which is what barriers are for; two upvalues let two
  threads' lists be joined.  `collector_upvalue` is violated, see below.
* `calls`.  `HostClean`: code of wowless runs with taint off, code of addons with taint
  on.  `TaintSticks`: what an insecure function calls or resumes is tainted, unless it
  calls through a boundary.  `resumed` is history for it: a coroutine runs on as secure as who
  resumes it, and the tests want it so (`luatest_scriptcases.lua:601-621`), so calls that
  were open when it was resumed do not count.  `OpenCallsCounted`:
  the count of open calls of a closure is exact.  `YieldLosesNothing`: a yield never
  cuts off a C call, with the functions on coroutines that the sandbox has (see
  "What is not modelled").  The limits are as small as lets them be met: five nested C calls
  are a coroutine that crosses into the host and back; six CallInfos are a function of
  the sandbox that resumes a coroutine whose function yields; a coroutine that yielded
  is collected with its two calls, and made again.  A secure function in a coroutine
  that goes on below an insecure call of its resumer takes seven: that is 2.67 million states, and
  the run's properties hold there too, but it takes too long for a run of every day.
  All taints are one, since only whether there is one matters.  `calls_nesting` is violated, see below.
* `runtime`.  Six parts, one at work in each behaviour:
  * *compiler and interpreter*, some 340 programs (`MCPrograms`) with every form of
    statement and expression of `lparser.c` and the combinations in which register
    allocation, jump lists, `and`/`or` chains, multiple results, upvalues and constants
    meet; comparisons of strings, numerals in arithmetic and in `for`, divisions that
    are checked and not, and programs that fail.
    `MAXINDEXRK` and `LFIELDS_PER_FLUSH` are 3, so that constants that no operand can
    hold and flushes of table constructors occur.  `RunsAsMeant`, `AssertsHold`;
  * *tables*, four integer and two string keys whose hashes collide, up to five stores,
    collections and traversals in between, or one call of `insert`, `remove`,
    `removemulti`, `wipe`.  `TableMeans`, `Traversal`, and the
    first half of `LibraryMeans`;
  * *sorting*, all lists of up to seven elements of three values and six orders, of
    which three are none.  Seven elements give a partition with a part on each side
    that is itself partitioned.  The second half of `LibraryMeans`;
  * *stubs*, every type of argument and of result, each optional and not, with and
    without implementation, and declarations with strides, with defaults, permissive,
    with `usage` and `genusage`, with `manualinputs` and native; each value the sandbox
    or the host may have.  `ArgumentsMeant`, `RoundTrip`;
  * *patterns*, some 1 700 patterns of three items, captures, back references,
    balances and frontiers on seven subjects, for `find`, `match`, `gmatch` and
    `gsub`; at most two captures, so that the limit is met.  `PatternsMean`;
  * *taint*, the library functions that move values, and any three calls of the API.
    `Spreads`: what is made of something tainted is tainted.  `Barriers`: `securecall`
    and its kin give back the taint and the mode they found.

Deadlock is checked in `mainloop`.  The other systems stop by themselves:
calls and clock are bounded, a program or a search is at its end, and a loader that has
loaded everything has nothing left to do.

**Fairness.**  Weak fairness of the steps of the loop itself, never of the calls that
Lua code makes.  There is one thread and the host calls the loop, so its next step is
taken unless foreign code does not return.  That foreign code returns is an assumption
(`HandlerReturns`, `Return` and `Returned` are among the fair steps): nothing in wowless
enforces it.  The bound on calls stands for the same assumption: a handler that queues
an event for every event keeps the drain from ending, and the code does not prevent
that.  The models of elune state no fairness: what matters of them is safety.

## Findings

`anchors_scroll` states what the error text of `SetPoint` says, that a region cannot be
anchored to one that depends on it ("[Cannot anchor to a region dependent on it]",
`points.lua:41`).  `SetScrollChild` anchors the child with `SetPointInternal`, without the
check, so two calls close a cycle: anchor the scroll frame to a region, then make that
region its scroll child.  `validate` then goes on with stale sides, and the error path of
`cycleCheck` may follow `seen` round the cycle for ever.  XML is the other way
(`xmleval.lua:366, 596, 711, 715`: `<NormalTexture name="T"/>` followed by an anchor
relative to `T`), left out of this run so that the trace is one of calls;
`OnlyUncheckedCloses` says that there is no third.

`collector_upvalue` states what `checkliveness` asserts (`lobject.h:103-106`), with no
exception for `lua_setupvalue`.  That function stores into an upvalue but uses the barrier
of the closure (`lapi.c:1043`).  An upvalue is shared: when it is black and the closure
named is not black yet, no barrier fires, and the value is freed in that cycle.
`ReachableKept` shows that with this store aside the barriers are enough.

`calls_nesting` states that `LUAI_MAXCCALLS` is the maximum number of nested C calls
(`luaconf.h.in:70`).  `lua_resumefrom` makes the test before the coroutine has the count
of its resumer (`ldo.c:484-492`), so it compares a stale number, 0 in a new coroutine,
and coroutines that resume coroutines pass the limit.

Seen on the way and stated by no run:

* The script that a frame runs last may be wrong when a script changes the tree under a
  walk (`visibility.lua:17-27`).  A child that the OnHide of its sibling hides is skipped by
  the walk of their parent, and by its own `SetShown`, since the parent is invisible
  by then: it never hears OnHide.  A child moved out of the list that is walked makes
  the walk skip the sibling that takes its place.  A kid whose OnShow hides the parent
  starts the walk for OnHide inside that for OnShow, which then goes on and tells the
  rest, and the parent, that they are shown.
* `SetParent` ends the whole program on a loop of parents (`uiobjects.lua:92-93`).
* `luaB_secureexecuterange` passes the error function 0, for none; `luaL_secureforeach`
  makes an absolute index of it, one past the top, where the key of the traversal is
  pushed.  So the key is the error handler (`lauxlib.c:917-930`).
* The tests of `lua_getstack` in `lseclib.c:71`, `102` and `179` have their sense
  reversed: they fail on a level that exists.
* `THETAINT` is reset to nil by an inner crossing into the host that returns, also while
  an outer one is still under way.
* `removemulti` pushes all it removes without `luaL_checkstack`.
* The assertions of `lsec.h` at the handover between threads need not hold after an
  error in a coroutine.
* `t[k] = nil` for a key that is not there inserts the key.

## What is proved

TLAPS checks these for every value of the constants: any set of values, timers, regions,
frames, callbacks, any limit and any number of calls.

* **Hash list and walks** (`HListLemmas`, `WalksProofs`): `Consistent`, `WalkIsPrefix`,
  `EndIsComplete`.  The inductive invariant is the conjunction of the type invariant
  with the first two: a removal keeps the prefix because only entries still to come
  can be moved into a hole behind the loop's place.  `InsertOK`, `RemoveOK` and
  `InsertSlots` are about the operators alone, and the proofs of other components cite
  them.
* **Visibility** (`WalksProofs`): `TreeAgrees`.  That parents and lists agree follows from
  the lemmas on hash lists; that no chain of parents closes needs the meaning of the
  test in `SetParent`: `Above` is the least set with the parent and the parents of its
  members, so what is not above a frame may be put below it.  Assumption
  (`VisibilityAssumption`): the starts are such trees.  The theorems `ListIsWalked` and
  `TreeAlwaysAgrees` are about `Walks`, the specification that the run checks.
* **Events** (`EventProofs`): `QuietFrames`, `Delivered`.  For the first the invariant is: the hash lists are
  well-formed; a quiet frame is in none of the four registries; for each send in
  progress, no frame that has been silent since it began is in the rest of its
  snapshot, among the owners its walk has still to come to, or the owner it is at.  The
  last part needs what `pairs()` may do when a key is added: it comes to keys of the
  table only, and a frame that gets a key is awake.  A snapshot is of registered
  frames, hence of none that is quiet.  For `Delivered` it counts: each frame is due as
  often as it has run and is still in the snapshot behind its place; and the loop over the
  global callbacks has come to the entries up to its own, unless one was taken out.
* **Timers** (`TimersProofs`): `NoneLost`, `OnTime`, `InDueOrder`.  They are proved
  together, with `DueTimes` (an entry is due its delay after the timer was made or run)
  and `Order` (what this `Advance` has run is not due again, and nothing due is older
  than what ran last).  `InDueOrder` is not inductive alone: without `DueTimes` a timer
  put back could be due in the past.  Assumption: delays, counts and frame lengths are
  naturals; the code has real numbers, of which only order and addition matter here.
* **Anchors** (`AnchorsProofs`): `TypeOK`, `RefCounts`, `CleanRects`,
  `OnlyUncheckedCloses`.  The types of the counts are proved as integers first, since
  that none is negative follows from `RefCounts`.  `MarksClosed` says that `SetDirty`
  leaves no clean region on a marked one; it needs `CleanOnClean` to hold before and
  `RefCounts` to read anchors off the counts.  `CycleStep`: a set of regions without
  an exit that a new anchor creates must contain its region and, through the target,
  every set the check considered.  The half of `CleanRects` about the rectangles: what
  comes out for a region depends on the regions it asks for alone (`AskedIsEnough`), and
  those that do not come out as they were are marked, since `SetDirty` follows the
  anchors back (`MarkingRects`).  Assumption: the points are among the nine frame
  points, so finite.
* **Main loop** (`MainLoopProofs`): `DeliversInOrder`, the refinement: every step of the
  main loop is a step of `EventDelivery` or a stutter.  It rests on `EventsInOrder`, whose
  invariant numbers the queue: its first element is the event after those of earlier
  drains.  `Warnings`: the invariant numbers the warnings as well, those of the drain
  under way and those since; no warning of an earlier frame is left in the queue
  (`NotCarriedOver`).  `Updates`: the frames updated are in the order of the list
  and none is after the frame the walk is at; of those visible all the time it has missed
  none up to there; and a frame that a script makes is last in the list.
* **Loader** (`LoaderProofs`): `TypeOK`, `RunOnce`, `InTurn`, `AllLoaded`.  What has begun is
  marked (`Marked`); a mark is set once, so there is one load begun of an addon in each
  of the two ways, with and without `forceSecure` (`OneLoad`); what is marked and not
  done is on the stack (`UnderWay`).  The files a load has run are those before its place
  and no other load runs them in that environment (`RanOnce`).  Each dependency that a
  load has come to is settled: done, or begun no further in, or the call just above, and
  the same for the addons of the other loops (`Turns`, `Came`).  The load with
  `forceSecure` comes behind the one without (`WithoutFirst`, `ForcedLast`).
  Assumptions: two entries of a .toc can be told apart, which a path does.
* **Calls** (`CallsInvariant`, `CallsProofs`): `HostClean`, `YieldLosesNothing`,
  `OpenCallsCounted`, `TaintSticks`.  `CallsInvariant` holds the invariants and what the
  proofs say of a part of a step, `CallsProofs` the lemmas and theorems.  The mode is
  switched in one function and back in another, with anything in between: errors, yields,
  handlers of errors.  The invariant goes through each C stack from the bottom and says of each
  activation which mode, how many C calls and how many CallInfos belong to it (its
  level), so that a protected call that catches an error finds its own again, whatever
  is cut off above it.  `YieldLosesNothing` then is about the levels of the activations
  that a yield removes.  `OpenCallsCounted` goes through every step and counts: a call more
  (`TallyEnters`), the calls above the n-th of a thread closed (`CallsLeft`), the calls of a
  collected coroutine lost (`TallyLost`), the same calls in a changed state (`Alike`).  It needs
  the invariant for what a step starts from: a return closes a call that is there, and a
  protected call finds its thread no shorter than it left it.  `TaintSticks` says something of
  one state of a thread, but a protected call puts back what its C function kept
  (`securecall`, `delegate`, `bubblewrapped`), so the invariant (`Sticks`) is about what they
  keep: of every call of an insecure function that counts (`Hot`), the C functions whose
  protected calls stand above it on the C stack (`Shadow`) have kept a taint, up to the
  first that is a boundary, and if none is one what runs is tainted (`Tells`).  The call on
  top after a return counts, and it either did before or runs on and taints again by
  itself (`Reenter`): `Floors` says that no thread was resumed above what the
  `luaV_execute` over its resume still runs.  Assumptions: the names of the C functions
  are no Lua functions (`NamesAssumption`), and there is room for two CallInfos
  (`2 <= BasicCI`; it is 8 in `lstate.h`).

Model-checked only:

* liveness (`SendsEnd`, `AdvanceEnds`, the second half of `FrameDone`, `LoadEnds`): TLAPS
  does not do liveness under fairness;
* `ScriptsTell` of visibility: an invariant over the nested walks and what they have told, the
  largest one that is left of the host;
* what a recursive definition computes for every input, which is out of the provers'
  reach: all of the compiler, the interpreter, the marking of the collector, the
  matcher, the tables, sorting and the stubs, and with them the taint of values, whose
  modules declare recursive operators.  (What is least or a fixpoint can be written and
  proved without recursion, as `Above` is.)

## What is not modelled

Of the host:

* the creation of objects but for what visibility sees of it (templates and their
  phases, names, mixins), XML evaluation, buttons: the part with the most control of what
  is left;
* a `SetParent` that would close a loop, and with it the program; frame levels and the
  fields such as `scrollChild` that `DoSetParent` clears in the old parent;
* the spread of "not loadable" in `initAddons`: the loader starts behind it;
* numbers of rectangles, scales, texts, fonts, textures, cvars: data without control;
* parsing of .toc files and XML, SQL, rendering: functions of their input;
* `saveAllVariables`: writes files, once, at the end;
* cycles in `GetRect`, see `Anchors`;
* errors thrown by the operations themselves for bad arguments: no state changes.

Of elune:

* the lexer, the loading and dumping of bytecode, `string.format` and the libraries
  for numbers, the operating system and input and output: functions of their input;
* `coroutine.call` and `coroutine.bind` (`lcorolib.c:137-177`), a `lua_pcall` on a
  thread that is not resumed: the sandbox gets `create`, `resume`, `running`, `status`,
  `wrap` and `yield` only (`impl.yaml:253-264`), and no code of wowless calls them.
  `YieldLosesNothing` is not true with them: on a thread that has yielded, `nCcalls` is one
  less than `baseCcalls` (`ldo.c:509`), so that a call made there does not make the test of
  `ldo.c:517` fail, and a yield in it cuts off the C call;
* growth of the stack and of the array of CallInfos: values are in sequences, and only
  the limits are kept (`MaxCalls`, `BasicCI`);
* running out of memory in the middle of an operation;
* hooks, profiling but for its count of open calls, the debug library but for
  upvalues, environments and the taint it reads;
* how much work a step of the collector does and when it is due (`luaC_step`): the
  models allow a step after every call;
* arithmetic of doubles: programs compute with small integers, exact quotients and NaN;
  no fractions, infinities, hexadecimal numerals or exponents.  Strings are compared in
  the C locale, and have no metatable, so no methods.

`PROJECT.json` lists the components that have no module and why, and the hazards, those
no property covers yet among them.

## Outlook

What would add most, in this order: the worklist of `initAddons` with the largest set
closed under required dependencies as its specification; the phases of `CreateUIObject`
(attributes, script bindings, kids of each template) on top of `Visibility`; a proof of
`ScriptsTell` over the nested walks of `Visibility`.
