-------------------------------- MODULE Heap --------------------------------
(***************************************************************************)
(* The heap of elune, what its garbage collector does to it (lgc.c) and    *)
(* what the calls of a program do (lfunc.c, lstring.c, lapi.c, lvm.c), as  *)
(* operators.  Collector.tla puts them together.                           *)
(*                                                                         *)
(* A heap `h' is global_State and all objects: every object has a colour   *)
(* (or is "free" memory) and the references that the program can change.   *)
(* A table has one entry, a Lua closure one upvalue, a C closure one       *)
(* value, and a userdata its environment.                                  *)
(***************************************************************************)
EXTENDS Integers, Sequences, FiniteSets

CONSTANTS Tables, LuaClosures, CClosures, UpVals, Threads, Userdata, Strings,
          MainThread, Registry,
          WeakKeys, WeakValues,  \* tables whose metatable has such a __mode
          HasGC,                 \* userdata whose metatable has __gc
          Bucket, Buckets,       \* the string table: place of a string, size
          SweepMax,              \* GCSWEEPMAX
          Nil, Plain             \* nil, and a value that is not collectable

Objects == Tables \cup LuaClosures \cup CClosures \cup UpVals \cup Threads
             \cup Userdata \cup Strings
Whites == {"white0", "white1"}

ASSUME HeapAssumption ==
  /\ MainThread \in Threads /\ Registry \in Tables
  /\ WeakKeys \cup WeakValues \subseteq Tables \ {Registry}
  /\ HasGC \subseteq Userdata
  /\ Bucket \in [Strings -> 1 .. Buckets]
  /\ SweepMax \in Nat \ {0} /\ {Nil, Plain} \cap Objects = {}

OtherWhite(h) == CHOOSE w \in Whites : w # h.white
IsWhite(h, o) == o \in Objects /\ h.color[o] \in Whites
IsDead(h, o) == h.color[o] = OtherWhite(h)
IsBlack(h, o) == h.color[o] = "black"
Dead(h, S) == {o \in S : IsDead(h, o)}

IsOpen(h, u) == h.upv[u].th # Nil
UpvalValue(h, u) ==
  IF IsOpen(h, u) THEN h.stack[h.upv[u].th][h.upv[u].lvl] ELSE h.upv[u].val

(***************************************************************************)
(* Marking.                                                                *)
(***************************************************************************)

\* markobject and markvalue for every value of S.  An upvalue is marked with
\* its value, a userdata with its environment; the rest waits in `gray'.
MarkAll(h, S) ==
  LET White(T) == {o \in T : IsWhite(h, o)}
      direct == White(S)
      values == White({UpvalValue(h, u) : u \in direct \cap UpVals})
      envs == White({h.ref[d] : d \in (direct \cup values) \cap Userdata})
      marked == direct \cup values \cup envs
      Colour(o) == IF o \in Userdata \/ (o \in UpVals /\ ~IsOpen(h, o))
                   THEN "black" ELSE "gray"
  IN [h EXCEPT
        !.color = [o \in Objects |-> IF o \in marked THEN Colour(o) ELSE @[o]],
        !.gray = @ \cup (marked \cap (Tables \cup LuaClosures \cup CClosures
                                        \cup Threads))]

\* a variant with a slip in it: a weak table turns black like any other
TraverseTableBlack(h, t) ==
  LET e == h.entry[t]
      h1 == [h EXCEPT !.color[t] = "black",
                      !.weak = IF t \in WeakKeys \cup WeakValues
                               THEN @ \cup {t} ELSE @]
  IN MarkAll(h1, (IF t \in WeakKeys THEN {} ELSE {e.k})
                   \cup (IF t \in WeakValues THEN {} ELSE {e.v}))

\* a variant with a slip in it: weak keys make the values weak as well
TraverseTableWeak(h, t) ==
  LET e == h.entry[t]
      weak == t \in WeakKeys \cup WeakValues
      h1 == [h EXCEPT !.color[t] = IF weak THEN "gray" ELSE "black",
                      !.weak = IF weak THEN @ \cup {t} ELSE @]
  IN IF weak THEN h1 ELSE MarkAll(h1, {e.k, e.v})

\* traversetable: a weak table stays gray and is kept for the end of the
\* phase, and an entry without a value loses its key
TraverseTable(h, t) ==
  LET e == h.entry[t]
      keys == IF t \in WeakKeys THEN {} ELSE {e.k}
      vals == IF t \in WeakValues THEN {} ELSE {e.v}
      weak == t \in WeakKeys \cup WeakValues
      h1 == [h EXCEPT !.color[t] = IF weak THEN "gray" ELSE "black",
                      !.weak = IF weak THEN @ \cup {t} ELSE @]
  IN CASE t \in WeakKeys \cap WeakValues -> h1
       [] OTHER -> IF e.v = Nil THEN [h1 EXCEPT !.entry[t].k = Nil]
                   ELSE MarkAll(h1, keys \cup vals)

TraverseClosure(h, c) ==
  MarkAll([h EXCEPT !.color[c] = "black"],
          {IF c \in LuaClosures THEN h.up[c] ELSE h.ref[c]})

\* a thread is never black: it is traversed once more at the end
TraverseStack(h, th) ==
  MarkAll([h EXCEPT !.grayagain = @ \cup {th}],
          {h.stack[th][i] : i \in 1 .. Len(h.stack[th])})

PropagateMark(h, o) ==
  LET h1 == [h EXCEPT !.gray = @ \ {o}]
  IN CASE o \in Tables -> TraverseTable(h1, o)
       [] o \in LuaClosures \cup CClosures -> TraverseClosure(h1, o)
       [] o \in Threads -> TraverseStack(h1, o)

RECURSIVE PropagateAll(_)
PropagateAll(h) ==
  IF h.gray = {} THEN h
  ELSE PropagateAll(PropagateMark(h, CHOOSE o \in h.gray : TRUE))

MarkRoot(h) ==
  [MarkAll([h EXCEPT !.gray = {}, !.grayagain = {}, !.weak = {}],
           {MainThread, Registry})
     EXCEPT !.gcstate = "propagate"]

\* open upvalues that are marked, though their thread may be dead
RemarkUpvals(h) ==
  MarkAll(h, {UpvalValue(h, u) :
                u \in {u \in UpVals : h.color[u] = "gray" /\ IsOpen(h, u)}})

\* a variant with a slip in it: userdata finalized before are taken again
SeparateUdataAgain(h) ==
  LET gone(d) == d \in HasGC /\ IsWhite(h, d)
  IN [h EXCEPT !.finalized = @ \cup {d \in Userdata : IsWhite(h, d)},
               !.root = SelectSeq(@, LAMBDA o : ~gone(o)),
               !.tmudata = @ \o SelectSeq(h.root, gone)]

\* luaC_separateudata: unreachable userdata go to `tmudata', in list order
SeparateUdata(h) ==
  LET sep(d) == d \in Userdata /\ IsWhite(h, d) /\ d \notin h.finalized
      gone(d) == sep(d) /\ d \in HasGC
  IN [h EXCEPT !.finalized = @ \cup {d \in Userdata : sep(d)},
               !.root = SelectSeq(@, LAMBDA o : ~gone(o)),
               !.tmudata = @ \o SelectSeq(h.root, gone)]

MarkTmu(h) ==
  LET tm == {h.tmudata[i] : i \in 1 .. Len(h.tmudata)}
  IN MarkAll([h EXCEPT !.color = [o \in Objects |->
                                    IF o \in tm THEN h.white ELSE @[o]]], tm)

IsCleared(h, v, iskey) ==
  /\ v \in Objects \ Strings
  /\ IsWhite(h, v) \/ (v \in h.finalized /\ ~iskey)

\* cleartable: entries of weak tables whose key or value was not marked;
\* strings count as values and are marked instead
ClearTables(h) ==
  LET full_ == {t \in h.weak : h.entry[t].v # Nil}
      keyGone == {t \in full_ : IsCleared(h, h.entry[t].k, TRUE)}
      gone == keyGone \cup {t \in full_ : IsCleared(h, h.entry[t].v, FALSE)}
      strings == Strings \cap ({h.entry[t].k : t \in full_}
                                 \cup {h.entry[t].v : t \in full_ \ keyGone})
  IN [h EXCEPT
        !.entry = [t \in Tables |->
                     IF t \in gone THEN [k |-> Nil, v |-> Nil] ELSE @[t]],
        !.color = [o \in Objects |->
                     IF o \in strings /\ @[o] \in Whites THEN "gray" ELSE @[o]]]

\* the end of the mark phase, in one go
Atomic(h, L, errfunc) ==
  LET h1 == PropagateAll(RemarkUpvals(h))
      h2 == PropagateAll(MarkAll([h1 EXCEPT !.gray = h1.weak, !.weak = {}],
                                 {L, errfunc}))
      h3 == PropagateAll([h2 EXCEPT !.gray = h2.grayagain, !.grayagain = {}])
      h4 == PropagateAll(MarkTmu(SeparateUdata(h3)))
  IN [ClearTables(h4) EXCEPT !.white = OtherWhite(h), !.sweepstr = 1,
                             !.sweepgc = 1, !.gcstate = "sweepstring"]

(***************************************************************************)
(* Lists of objects.  `root' is the list rootgc; the main thread is at its *)
(* end, followed by the userdata.  `sweepgc' is the place in the list that *)
(* the pointer of that name refers to.                                     *)
(***************************************************************************)

\* luaC_link
Link(h, o) ==
  [h EXCEPT !.root = <<o>> \o @, !.color[o] = h.white,
            !.sweepgc = IF @ = 1 THEN 1 ELSE @ + 1]

\* into the list behind the main thread (luaS_newudata, GCTM)
LinkUdata(h, d) ==
  LET p == CHOOSE i \in 1 .. Len(h.root) : h.root[i] = MainThread
  IN [h EXCEPT !.root = SubSeq(@, 1, p) \o <<d>> \o SubSeq(@, p + 1, Len(@)),
               !.color[d] = h.white,
               !.sweepgc = IF @ > p + 1 THEN @ + 1 ELSE @]

\* memory that is free has no contents
Erase(h, S) ==
  [h EXCEPT !.color = [o \in Objects |-> IF o \in S THEN "free" ELSE @[o]],
            !.entry = [t \in Tables |-> IF t \in S THEN [k |-> Nil, v |-> Nil]
                                        ELSE @[t]],
            !.up = [c \in LuaClosures |-> IF c \in S THEN Nil ELSE @[c]],
            !.ref = [c \in CClosures \cup Userdata |->
                       IF c \in S THEN Nil ELSE @[c]],
            !.upv = [u \in UpVals |->
                       IF u \in S THEN [th |-> Nil, lvl |-> 0, val |-> Nil]
                       ELSE @[u]],
            !.stack = [t \in Threads |-> IF t \in S THEN <<>> ELSE @[t]],
            !.finalized = @ \ S]

\* a variant with a slip in it: a marked upvalue keeps its colour in a sweep
LinkUpvalGray(h, u) ==
  LET c == h.color[u]
      h1 == [Link(h, u) EXCEPT !.color[u] = c]
  IN IF c = "gray" /\ h.gcstate = "propagate"
     THEN MarkAll([h1 EXCEPT !.color[u] = "black"], {h.upv[u].val}) ELSE h1

\* luaC_linkupval, for an upvalue that was just closed
LinkUpval(h, u) ==
  LET c == h.color[u]
      h1 == Link(h, u)
      h2 == [h1 EXCEPT !.color[u] = "black"]
      v == h.upv[u].val
  IN CASE c # "gray" -> [h1 EXCEPT !.color[u] = c]
       [] c = "gray" /\ h.gcstate = "propagate" -> MarkAll(h2, {v})
       [] OTHER -> h1

\* luaF_close: the open upvalues of `th' from a stack level upwards
RECURSIVE CloseUpvals(_, _, _)
CloseUpvals(h, th, level) ==
  LET open == h.openupval[th]
      u == Head(open)
      h1 == [h EXCEPT !.openupval[th] = Tail(@)]
      h2 == [h1 EXCEPT !.upv[u] = [th |-> Nil, lvl |-> 0,
                                   val |-> UpvalValue(h, u)]]
  IN IF open = <<>> \/ h.upv[Head(open)].lvl < level THEN h
     ELSE CloseUpvals(IF IsDead(h, u) THEN Erase(h1, {u}) ELSE LinkUpval(h2, u),
                      th, level)

(***************************************************************************)
(* Sweeping.                                                               *)
(***************************************************************************)

\* objects that sweeplist meets outside the list `root'
SweepSet(h, S) ==
  Erase([h EXCEPT !.color = [o \in Objects |->
                     IF o \in S \ Dead(h, S) /\ @[o] # "free" THEN h.white
                     ELSE @[o]]],
        Dead(h, S))

SweepOpenUpvals(h, th) ==
  LET open == h.openupval[th]
      us == {open[i] : i \in 1 .. Len(open)}
  IN [SweepSet(h, us) EXCEPT
        !.openupval[th] = SelectSeq(@, LAMBDA u : u \notin Dead(h, us))]

\* freeobj of a thread is luaE_freethread, which closes its upvalues
FreeThread(h, th) == Erase(CloseUpvals(h, th, 1), {th})

\* sweeplist for the object at `sweepgc'
SweepOne(h) ==
  LET o == h.root[h.sweepgc]
      h1 == IF o \in Threads THEN SweepOpenUpvals(h, o) ELSE h
      h2 == [h1 EXCEPT !.root = SubSeq(@, 1, h.sweepgc - 1)
                                  \o SubSeq(@, h.sweepgc + 1, Len(@))]
  IN IF IsDead(h, o) /\ o # MainThread
     THEN IF o \in Threads THEN FreeThread(h2, o) ELSE Erase(h2, {o})
     ELSE [h1 EXCEPT !.color[o] = h.white, !.sweepgc = @ + 1]

RECURSIVE SweepList(_, _)
SweepList(h, n) ==
  IF n = 0 \/ h.sweepgc > Len(h.root) THEN h ELSE SweepList(SweepOne(h), n - 1)

\* one step of the phase that sweeps the string table
SweepStrings(h) ==
  LET h1 == SweepSet(h, {s \in Strings : Bucket[s] = h.sweepstr})
  IN [h1 EXCEPT !.sweepstr = @ + 1,
                !.gcstate = IF h.sweepstr = Buckets THEN "sweep" ELSE @]

SweepObjects(h) ==
  LET h1 == SweepList(h, SweepMax)
  IN IF h1.sweepgc > Len(h1.root)
     THEN [h1 EXCEPT !.gcstate = "finalize", !.sweepgc = 1, !.sweepstr = 1]
     ELSE h1

(***************************************************************************)
(* Barriers: `v' is stored in `o'.                                         *)
(***************************************************************************)

Barrier(h, o, v) ==
  IF ~(IsWhite(h, v) /\ IsBlack(h, o)) THEN h
  ELSE IF h.gcstate = "propagate" THEN MarkAll(h, {v})
  ELSE [h EXCEPT !.color[o] = h.white]

BarrierBack(h, t, v) ==
  IF ~(IsWhite(h, v) /\ IsBlack(h, t)) THEN h
  ELSE [h EXCEPT !.color[t] = "gray", !.grayagain = @ \cup {t}]

(***************************************************************************)
(* What the program does, as operators on the heap.  `L' is the thread     *)
(* that runs.                                                              *)
(***************************************************************************)

Top(h, L) == h.stack[L][Len(h.stack[L])]
Push(h, L, v) == [h EXCEPT !.stack[L] = Append(@, v)]
Drop(h, L) == [h EXCEPT !.stack[L] = SubSeq(@, 1, Len(@) - 1)]
OnStack(h, L) == {h.stack[L][i] : i \in 1 .. Len(h.stack[L])}
IsFree(h, o) == h.color[o] = "free"
Free(h, S) == {o \in S : IsFree(h, o)}

PushTable(h, L, t) == Push(Link(h, t), L, t)
PushThread(h, L, th) == Push(Link(h, th), L, th)
PushUserdata(h, L, d) ==
  Push([LinkUdata(h, d) EXCEPT !.ref[d] = Registry], L, d)

\* luaS_newlstr: strings are unique, and one about to be freed is saved
PushString(h, L, s) ==
  Push([h EXCEPT !.color[s] = IF IsFree(h, s) \/ IsDead(h, s) THEN h.white
                              ELSE @], L, s)

\* lua_pushcclosure with the value on the top as upvalue
PushCClosure(h, L, c) ==
  Push(Drop([Link(h, c) EXCEPT !.ref[c] = Top(h, L)], L), L, c)

\* luaF_findupval: the upvalue of a slot, an old one brought back or a new one
UpvalAt(h, L, level) ==
  {u \in UpVals : h.upv[u].th = L /\ h.upv[u].lvl = level}
\* a variant with a slip in it: an upvalue about to be freed is not saved
FindUpvalDead(h, L, level) ==
  LET open == h.openupval[L]
      found == UpvalAt(h, L, level)
      u == CHOOSE u \in found \cup Free(h, UpVals) : found # {} => u \in found
  IN IF found # {} THEN <<u, h>>
     ELSE <<u, [h EXCEPT !.color[u] = h.white,
                         !.upv[u] = [th |-> L, lvl |-> level, val |-> Nil],
                         !.openupval[L] = <<u>> \o open]>>
FindUpval(h, L, level) ==
  LET open == h.openupval[L]
      found == UpvalAt(h, L, level)
      u == CHOOSE u \in found \cup Free(h, UpVals) : found # {} => u \in found
      above == SelectSeq(open, LAMBDA x : h.upv[x].lvl > level)
      below == SelectSeq(open, LAMBDA x : h.upv[x].lvl < level)
  IN IF found # {}
     THEN <<u, [h EXCEPT !.color[u] = IF IsDead(h, u) THEN h.white ELSE @]>>
     ELSE <<u, [h EXCEPT !.color[u] = h.white,
                         !.upv[u] = [th |-> L, lvl |-> level, val |-> Nil],
                         !.openupval[L] = above \o <<u>> \o below]>>

\* OP_CLOSURE: the upvalue is a local of this function or one of its upvalues
PushClosureOfLocal(h, L, c, level) ==
  LET f == FindUpval(Link(h, c), L, level)
  IN Push([f[2] EXCEPT !.up[c] = f[1]], L, c)
PushClosureOfUpval(h, L, c, f) ==
  Push([Link(h, c) EXCEPT !.up[c] = h.up[f]], L, c)

\* a function returns or a block ends: its slots go, its upvalues are closed
Leave(h, L, level) ==
  [CloseUpvals(h, L, level) EXCEPT !.stack[L] = SubSeq(@, 1, level - 1)]

\* lua_rawset, and luaV_settable without metamethods; the key of a new entry
\* has a barrier of its own (newkey in ltable.c)
SetTable(h, t, k, v) ==
  LET h1 == IF h.entry[t].k = k THEN h ELSE BarrierBack(h, t, k)
  IN BarrierBack([h1 EXCEPT !.entry[t] = [k |-> k, v |-> v]], t, v)

SetUpvalValue(h, u, v) ==
  IF IsOpen(h, u) THEN [h EXCEPT !.stack[h.upv[u].th][h.upv[u].lvl] = v]
  ELSE [h EXCEPT !.upv[u].val = v]

\* OP_SETUPVAL
SetUpval(h, c, v) == Barrier(SetUpvalValue(h, h.up[c], v), h.up[c], v)
\* lua_setupvalue: the barrier is that of the closure
SetUpvalueOf(h, c, v) == Barrier(SetUpvalValue(h, h.up[c], v), c, v)
\* lua_upvaluejoin
UpvalueJoin(h, c, d) == Barrier([h EXCEPT !.up[c] = h.up[d]], c, h.up[d])
\* lua_setfenv and lua_setmetatable of a userdata, moveto for a C upvalue
SetRef(h, o, v) == Barrier([h EXCEPT !.ref[o] = v], o, v)
\* lua_xmove of one value
XMove(h, from, to) == Push(Drop(h, from), to, Top(h, from))
=============================================================================
