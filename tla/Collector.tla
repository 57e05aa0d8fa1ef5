------------------------------ MODULE Collector ------------------------------
(***************************************************************************)
(* The incremental garbage collector of elune (lgc.c) and the program it   *)
(* works for.                                                              *)
(*                                                                         *)
(* The collector works in small steps between the calls of the program.    *)
(* While it marks, the program must not hide an unmarked object behind one *)
(* that is done (a barrier in every store); while it sweeps, the program   *)
(* must not pick up again what is about to be freed.                       *)
(***************************************************************************)
EXTENDS Heap

CONSTANTS StackSize, MaxCalls,  \* bounds: stack slots, calls of the program
          Starts                \* heaps that a few calls of a program make

VARIABLES g,        \* the global state and the heap
          running,  \* the thread that runs
          full,     \* the place in luaC_fullgc
          calls,    \* calls of the program so far
          called,   \* history: userdata whose __gc was called
          bypassed, \* history: lua_setupvalue stored past the barrier
          born      \* history: the userdata that are there, oldest first

vars == <<g, running, full, calls, called, bypassed, born>>

\* lua_newstate: the main thread and the registry
EmptyHeap ==
  [color |-> [o \in Objects |-> IF o \in {MainThread, Registry} THEN "white0"
                                ELSE "free"],
   entry |-> [t \in Tables |-> [k |-> Nil, v |-> Nil]],
   up |-> [c \in LuaClosures |-> Nil],
   ref |-> [c \in CClosures \cup Userdata |-> Nil],
   upv |-> [u \in UpVals |-> [th |-> Nil, lvl |-> 0, val |-> Nil]],
   stack |-> [t \in Threads |-> <<>>],
   openupval |-> [t \in Threads |-> <<>>],
   root |-> <<Registry, MainThread>>,
   finalized |-> {}, tmudata |-> <<>>, errfunc |-> Nil,
   gray |-> {}, grayagain |-> {}, weak |-> {},
   gcstate |-> "pause", white |-> "white0", sweepgc |-> 1, sweepstr |-> 1]

Init ==
  /\ g \in Starts
  /\ running = MainThread /\ full = "no"
  /\ calls = 0 /\ called = {} /\ bypassed = FALSE
  /\ born = SelectSeq(g.root, LAMBDA o : o \in Userdata)

(***************************************************************************)
(* The program.  It runs between the steps of the collector, and during a  *)
(* full collection only in finalizers.                                     *)
(***************************************************************************)

Call(h) ==
  /\ full \in {"no", "finalizer"} /\ calls < MaxCalls
  /\ calls' = calls + 1
  /\ g' = h
  /\ UNCHANGED <<full, called>>

Room == Len(g.stack[running]) < StackSize
Some == g.stack[running] # <<>>
Here == OnStack(g, running)
\* what a C function takes from its stack is no local of a Lua function
Temporary == Some /\ UpvalAt(g, running, Len(g.stack[running])) = {}

New ==
  /\ Room /\ UNCHANGED <<running, bypassed>>
  /\ \/ \E t \in Free(g, Tables) : Call(PushTable(g, running, t))
     \/ \E d \in Free(g, Userdata) : Call(PushUserdata(g, running, d))
     \/ \E th \in Free(g, Threads) : Call(PushThread(g, running, th))
     \/ \E s \in Strings : Call(PushString(g, running, s))

NewCClosure ==
  /\ Temporary /\ UNCHANGED <<running, bypassed>>
  /\ \E c \in Free(g, CClosures) : Call(PushCClosure(g, running, c))

NewClosure ==
  /\ Room /\ UNCHANGED <<running, bypassed>>
  /\ \E c \in Free(g, LuaClosures) :
       \/ \E i \in 1 .. Len(g.stack[running]) :
            /\ Free(g, UpVals) # {} \/ UpvalAt(g, running, i) # {}
            /\ Call(PushClosureOfLocal(g, running, c, i))
       \/ \E f \in Here \cap LuaClosures :
            Call(PushClosureOfUpval(g, running, c, f))

Return ==
  /\ UNCHANGED <<running, bypassed>>
  /\ \E i \in 1 .. Len(g.stack[running]) : Call(Leave(g, running, i))

Read ==
  /\ Room /\ UNCHANGED <<running, bypassed>>
  /\ \/ \E t \in (Here \cap Tables) \cup {Registry} :
          \/ g.entry[t].v # Nil /\ Call(Push(g, running, g.entry[t].v))
          \/ g.entry[t].v # Nil /\ g.entry[t].k # Plain
             /\ Call(Push(g, running, g.entry[t].k))
     \/ \E c \in Here \cap LuaClosures :
          Call(Push(g, running, UpvalValue(g, g.up[c])))
     \/ \E o \in Here \cap (CClosures \cup Userdata) :
          Call(Push(g, running, g.ref[o]))

\* only one entry: it is written over if it has no value or the same key
Write ==
  /\ Some /\ UNCHANGED <<running, bypassed>>
  /\ \E t \in (Here \cap Tables) \cup {Registry} :
       \E v \in {Top(g, running), Nil},
          k \in IF t \in WeakKeys THEN Here \cap Objects ELSE {Plain} :
         /\ g.entry[t].v = Nil \/ g.entry[t].k = k
         /\ g.entry[t].v # Nil \/ v # Nil
         /\ Call(SetTable(g, t, k, v))

WriteUpval ==
  /\ Some /\ UNCHANGED <<running, bypassed>>
  /\ \E c \in Here \cap LuaClosures : Call(SetUpval(g, c, Top(g, running)))

WriteUpvalueOf ==
  /\ Some /\ UNCHANGED running
  /\ \E c \in Here \cap LuaClosures :
       /\ Call(SetUpvalueOf(g, c, Top(g, running)))
       /\ bypassed' = (bypassed \/ ~IsOpen(g, g.up[c]))

JoinUpvals ==
  /\ UNCHANGED <<running, bypassed>>
  /\ \E c, d \in Here \cap LuaClosures :
       g.up[c] # g.up[d] /\ Call(UpvalueJoin(g, c, d))

WriteRef ==
  /\ Some /\ UNCHANGED <<running, bypassed>>
  /\ \/ \E d \in Here \cap Userdata :
          Top(g, running) \in Tables /\ Call(SetRef(g, d, Top(g, running)))
     \/ \E c \in Here \cap CClosures : Call(SetRef(g, c, Top(g, running)))

\* the global error handler is a root without a barrier
SetErrorHandler ==
  /\ Some /\ UNCHANGED <<running, bypassed>>
  /\ Top(g, running) \in LuaClosures \cup CClosures
  /\ Call([g EXCEPT !.errfunc = Top(g, running)])

\* coroutines: values are moved to the thread, it runs and gives way again
MoveToThread ==
  /\ Temporary /\ UNCHANGED <<running, bypassed>>
  /\ \E th \in (Here \cap Threads) \ {running} :
       /\ Len(g.stack[th]) < StackSize
       /\ Call(XMove(g, running, th))
Resume ==
  /\ running = MainThread /\ running' \in Here \cap Threads
  /\ running' # running /\ Call(g) /\ UNCHANGED bypassed
Yield ==
  /\ running # MainThread /\ running' = MainThread
  /\ Call(g) /\ UNCHANGED bypassed

Program ==
  \/ New \/ NewCClosure \/ NewClosure \/ Return \/ Read \/ Write
  \/ WriteUpval \/ WriteUpvalueOf \/ JoinUpvals \/ WriteRef
  \/ SetErrorHandler \/ MoveToThread \/ Resume \/ Yield

(***************************************************************************)
(* The collector: one action for each case of singlestep.                  *)
(***************************************************************************)

Same == UNCHANGED <<running, calls, called, bypassed>>

\* in a full collection the sweep that was pending comes first
Start ==
  /\ g.gcstate = "pause" /\ full = "no"
  /\ g' = MarkRoot(g) /\ full' = full /\ Same

Mark ==
  /\ g.gcstate = "propagate" /\ g.gray # {}
  /\ \E o \in g.gray : g' = PropagateMark(g, o)
  /\ full' = full /\ Same

FinishMark ==
  /\ g.gcstate = "propagate" /\ g.gray = {}
  /\ g' = Atomic(g, running, g.errfunc)
  /\ full' = full /\ Same

Sweep ==
  /\ \/ g.gcstate = "sweepstring" /\ g' = SweepStrings(g)
     \/ g.gcstate = "sweep" /\ g' = SweepObjects(g)
  /\ called' = {d \in called : ~IsFree(g', d)}
  /\ UNCHANGED <<running, full, calls, bypassed>>

\* GCTM: the finalizer gets its userdata on the stack
CallFinalizer ==
  LET d == Head(g.tmudata)
      h == [LinkUdata(g, d) EXCEPT !.tmudata = Tail(@)]
  IN /\ g.gcstate = "finalize" /\ g.tmudata # <<>> /\ full # "sweep"
     /\ g' = IF Room THEN Push(h, running, d) ELSE h
     /\ called' = called \cup {d}
     /\ full' = IF full = "no" THEN "no" ELSE "finalizer"
     /\ UNCHANGED <<running, calls, bypassed>>

EndCycle ==
  /\ g.gcstate = "finalize" /\ g.tmudata = <<>> /\ full # "sweep"
  /\ g' = [g EXCEPT !.gcstate = "pause"]
  /\ full' = "no" /\ Same

\* luaC_fullgc: drop the marks of a cycle begun, finish its sweep, then a
\* whole cycle.  A finalizer may call it too.
StartFull ==
  /\ full \in {"no", "finalizer"} /\ calls < MaxCalls
  /\ calls' = calls + 1 /\ full' = "sweep"
  /\ g' = IF g.gcstate \in {"pause", "propagate"}
          THEN [g EXCEPT !.sweepstr = 1, !.sweepgc = 1, !.gray = {},
                         !.grayagain = {}, !.weak = {},
                         !.gcstate = "sweepstring"]
          ELSE g
  /\ UNCHANGED <<running, called, bypassed>>

FullMark ==
  /\ full = "sweep" /\ g.gcstate = "finalize"
  /\ g' = MarkRoot(g) /\ full' = "mark" /\ Same

Step == Start \/ Mark \/ FinishMark \/ Sweep \/ CallFinalizer \/ EndCycle
          \/ FullMark

\* the history of which userdata is older
Track ==
  LET kept == SelectSeq(born, LAMBDA d : ~IsFree(g', d))
      made == {d \in Userdata : IsFree(g, d) /\ ~IsFree(g', d)}
  IN born' = IF made = {} THEN kept
             ELSE Append(kept, CHOOSE d \in made : TRUE)

Next == (Program \/ Step \/ StartFull) /\ Track

Spec == Init /\ [][Next]_vars

(***************************************************************************)
(* What the program can reach: everything, and without weak references.    *)
(***************************************************************************)

RECURSIVE Closure(_, _)
Closure(refs, S) ==
  LET T == S \cup UNION {refs[o] : o \in S}
  IN IF T = S THEN S ELSE Closure(refs, T)

Refs(h, weak) ==
  [o \in Objects |->
     Objects \cap
     CASE o \in Tables ->
            IF h.entry[o].v = Nil THEN {}
            ELSE (IF weak /\ o \in WeakKeys THEN {} ELSE {h.entry[o].k})
                   \cup (IF weak /\ o \in WeakValues THEN {}
                         ELSE {h.entry[o].v})
       [] o \in LuaClosures -> {h.up[o]}
       [] o \in CClosures \cup Userdata -> {h.ref[o]}
       [] o \in UpVals -> IF IsFree(h, o) THEN {} ELSE {UpvalValue(h, o)}
       [] o \in Threads -> OnStack(h, o)
       [] OTHER -> {}]

Roots(h) == {MainThread, Registry, running} \cup (Objects \cap {h.errfunc})
Waiting(h) == {h.tmudata[i] : i \in 1 .. Len(h.tmudata)}
Reachable == Closure(Refs(g, FALSE), Roots(g) \cup Waiting(g))
StronglyReachable == Closure(Refs(g, TRUE), Roots(g))

Sweeping == g.gcstate \in {"sweepstring", "sweep"}
Kept(o) == ~IsFree(g, o) /\ (Sweeping => ~IsDead(g, o))

(***************************************************************************)
(* Properties.                                                             *)
(***************************************************************************)

\* What the program can reach is never freed nor waits to be: no value it
\* copies is dead (checkliveness in lobject.h), whatever it stored, moved or
\* dropped while the collector was under way.  Stores of lua_setupvalue are
\* excepted, see UpvaluesLive.
ReachableKept == ~bypassed => \A o \in Reachable : Kept(o)

\* The same without the exception, as checkliveness has it.
UpvaluesLive == \A o \in Reachable : Kept(o)

\* When no cycle is under way everything has the current white, so that no
\* barrier fires (the assertions of luaC_barrierf and luaC_barrierback); only
\* userdata that wait for their finalizer are still black.
CleanAtRest ==
  g.gcstate \in {"pause", "finalize"} =>
    \A o \in Objects \ Waiting(g) :
      IsFree(g, o) \/ g.color[o] = g.white

\* An object is linked into at most one of the lists that share its gclist.
OneGrayList ==
  g.gcstate = "propagate" =>
    /\ g.gray \cap (g.grayagain \cup g.weak) = {}
    /\ g.grayagain \cap g.weak = {}

\* The two things every barrier relies on: what is white when, and that the
\* field of a list is free (lgc.c).
ColoursAndLists == CleanAtRest /\ OneGrayList

\* A userdata is given up only when the program cannot reach it, its memory
\* only after its finalizer ran, and no finalizer runs twice.  Finalizers run
\* in the order of the cycles that gave their userdata up, and those of one
\* cycle in the reverse of the order in which the userdata were made
\* (luaC_separateudata and GCTM).
Precedes(s, d, e) ==
  \E i, j \in 1 .. Len(s) : i < j /\ s[i] = d /\ s[j] = e
Finalization ==
  [][~bypassed =>
     \A d \in HasGC :
       /\ d \in Waiting(g)' \ Waiting(g) => d \notin StronglyReachable
       /\ IsFree(g, d)' /\ ~IsFree(g, d) => d \in called
       /\ (g'.tmudata # g.tmudata /\ d \in Waiting(g) \ Waiting(g)') =>
            /\ d \notin called
            /\ g'.tmudata = Tail(g.tmudata) /\ d = Head(g.tmudata)
       /\ \A e \in HasGC :
            {d, e} \subseteq Waiting(g)' \ Waiting(g) /\ Precedes(born, d, e) =>
              Precedes(g'.tmudata, e, d)]_vars

\* The collector takes an entry out of a weak table only if the program could
\* not reach its key or its value but through weak tables, or the value is a
\* userdata that has been finalized; in the cycles of luaC_fullgc as well.
WeakEntriesKept ==
  [][g.gcstate = "propagate" /\ g'.gcstate = "sweepstring" =>
     \A t \in Tables :
       LET e == g.entry[t]
       IN e.v # Nil /\ g'.entry[t].v = Nil =>
            \/ \E x \in {e.k, e.v} \cap (Objects \ Strings) :
                 x \notin StronglyReachable
            \/ e.v \in g'.finalized]_vars
=============================================================================
