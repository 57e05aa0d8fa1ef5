-------------------------------- MODULE Taint --------------------------------
(***************************************************************************)
(* Taint of values in elune: how the functions of the C API (lapi.c,       *)
(* lmanip.h, lsec.h) carry it, and the library functions that call other   *)
(* code behind a barrier (lauxlib.c, lbaselib.c).                          *)
(*                                                                         *)
(* `c' is a C function at work: its stack, its upvalues, the one table it  *)
(* uses and the taint state of its thread.  It makes the API calls of a    *)
(* library function one by one, or ("free") any calls it likes.  A cell    *)
(* has a value, the taint of the TValue, and of an object its own taint;   *)
(* `bad' and `by' are ghosts: the value, or the object, was made from       *)
(* something insecure.                                                     *)
(***************************************************************************)
EXTENDS Integers, Sequences, FiniteSets, SequencesExt

CONSTANTS
  Tainted,   \* taints a value has from the start
  Callee,    \* a taint that only called code brings
  MaxFree    \* bound: API calls of the free function

None == "none"
Both == {"r", "w"}

VARIABLE c

(***************************************************************************)
(* Cells: lmanip.h and lsec.h.                                             *)
(***************************************************************************)

Cell(v, taint) ==
  [v |-> v, taint |-> taint, bad |-> taint # None, own |-> None, by |-> FALSE, ups |-> <<>>]
IsFunction(x) == x.v \in {"f", "closure"}

WriteTaint(s) == IF "w" \in s.mode THEN s.stk ELSE None

\* luaR_taintstack; the ghost `dirty' says that something bad was read
TaintStack(s, x) ==
  [s EXCEPT !.stk = IF x.taint # None /\ "r" \in s.mode THEN x.taint ELSE @,
            !.dirty = @ \/ x.bad]

\* setobj2s, what comes into the stack and what becomes of the state
Stored(s, x) ==
  [x EXCEPT !.taint = IF @ = None THEN WriteTaint(s) ELSE @, !.bad = @ \/ s.dirty]

\* a variant with a slip in it: reading a tainted value leaves the stack alone
PutQuietly(s, x) ==
  [s EXCEPT !.dirty = @ \/ x.bad, !.stack = Append(@, Stored(s, x))]

PushRead(s, x) == [TaintStack(s, x) EXCEPT !.stack = Append(@, Stored(s, x))]

\* setnilvalue, setnvalue and their like, and luaR_taintalloc of new objects
Made(s, v) == [Cell(v, WriteTaint(s)) EXCEPT !.bad = s.dirty]
AllocTaint(s, v) ==
  IF s.gc # None THEN s.gc
  ELSE IF WriteTaint(s) # None THEN WriteTaint(s)
  ELSE IF v = "closure" THEN s.cl ELSE None
New(s, v, ups) == [Made(s, v) EXCEPT !.own = AllocTaint(s, v), !.by = s.dirty, !.ups = ups]

(***************************************************************************)
(* Functions of the API.                                                   *)
(***************************************************************************)

Top(s) == Len(s.stack)
Adr(s, i) == IF i > 0 THEN i ELSE Top(s) + 1 + i
CellAt(s, i) == s.stack[Adr(s, i)]
TopCell(s) == s.stack[Top(s)]
PopTop(s, n) == [s EXCEPT !.stack = SubSeq(@, 1, Len(@) - n)]
CutTo(s, n) == [s EXCEPT !.stack = SubSeq(@, 1, n)]

PushNew(s, v) == [s EXCEPT !.stack = Append(@, Made(s, v))]
SetTop(s, n) ==
  IF n <= Top(s) THEN CutTo(s, n)
  ELSE [s EXCEPT !.stack = @ \o [i \in 1 .. n - Len(@) |-> Made(s, "nil")]]

\* lua_insert and lua_remove move cells by setobjs2s, one after the other
PutAll(s, cells) == FoldLeft(PushRead, s, cells)
PutAt(s, i) ==
  LET read == PutAll(s, Reverse(SubSeq(s.stack, i, Top(s) - 1)) \o <<TopCell(s)>>)
  IN [read EXCEPT !.stack =
        SubSeq(s.stack, 1, i - 1) \o Reverse(SubSeq(@, Top(s) + 1, Len(@)))]
TakeOut(s, i) ==
  LET read == PutAll(s, SubSeq(s.stack, i + 1, Top(s)))
  IN [read EXCEPT !.stack = SubSeq(s.stack, 1, i - 1) \o SubSeq(@, Top(s) + 1, Len(@))]

\* moveto: cells are copied as they are
ReplaceCell(s, i) == PopTop([s EXCEPT !.stack[Adr(s, i)] = TopCell(s)], 1)
CopyCell(s, i, j) == [s EXCEPT !.stack[Adr(s, j)] = CellAt(s, i)]
ReplaceUpvalue(s, i) == PopTop([s EXCEPT !.up[i] = TopCell(s)], 1)

\* lua_tolstring turns a number into a string where it is
Convert(s, i) ==
  IF CellAt(s, i).v # "n" THEN s
  ELSE [s EXCEPT !.stack[Adr(s, i)] = [Made(s, "s") EXCEPT !.bad = @ \/ CellAt(s, i).bad]]

\* the table has a value for every key, numbers and strings
KeyOf(x) == IF x.v = "n" THEN 1 ELSE 2
GetByKey(s) == PushRead(PopTop(s, 1), s.tab[KeyOf(TopCell(s))])
GetField(s, k) == PushRead(s, s.tab[k])
SetByKey(s) == PopTop([s EXCEPT !.tab[KeyOf(s.stack[Top(s) - 1])] = TopCell(s)], 2)
SetField(s, k) == PopTop([s EXCEPT !.tab[k] = TopCell(s)], 1)

\* lua_next, when there is a next element
NextKey(x) == IF x.v = "nil" THEN 1 ELSE 2
HasNext(s) == TopCell(s).v = "nil" \/ (TopCell(s).v = "n" /\ s.tab[2].v # "nil")
NextPair(s) ==
  LET k == NextKey(TopCell(s))
  IN PushRead([s EXCEPT !.stack[Top(s)] = Made(s, IF k = 1 THEN "n" ELSE "s")], s.tab[k])

\* luaV_concat: numbers become strings, the result is new
ConcatTop(s, n) ==
  LET taken == SubSeq(s.stack, Top(s) - n + 1, Top(s))
      result == [Made(s, "s") EXCEPT !.bad = @ \/ \E i \in 1 .. n : taken[i].bad]
  IN [s EXCEPT !.stack = Append(SubSeq(@, 1, Len(@) - n), result)]

NewClosure(s, n) ==
  LET ups == SubSeq(s.stack, Top(s) - n + 1, Top(s))
  IN [s EXCEPT !.stack = Append(SubSeq(@, 1, Len(@) - n), New(s, "closure", ups))]

PushTable(s) == [s EXCEPT !.stack = Append(@, New(s, "t", <<>>))]

\* the taint functions of lapi.c
SetStackTaint(s, taint) == [s EXCEPT !.stk = taint, !.dirty = taint # None]
SetValueTaint(s, i, taint) ==
  [s EXCEPT !.stack[Adr(s, i)].taint = taint, !.stack[Adr(s, i)].bad = taint # None]
SetTopTaint(s, n, taint) ==
  [s EXCEPT !.stack = [i \in DOMAIN @ |->
     IF i > Len(@) - n THEN [@[i] EXCEPT !.taint = taint, !.bad = taint # None] ELSE @[i]]]
TaintTop(s, n) ==
  IF WriteTaint(s) = None THEN s
  ELSE [s EXCEPT !.stack = [i \in DOMAIN @ |->
          IF i > Len(@) - n THEN [@[i] EXCEPT !.taint = WriteTaint(s)] ELSE @[i]]]
SaveTaint(s) == [mode |-> s.mode, stk |-> s.stk, gc |-> s.gc, cl |-> s.cl, dirty |-> s.dirty]

\* a variant with a slip in it: the mode comes back, the taint does not
RestoreMode(s, t) == [s EXCEPT !.mode = t.mode, !.gc = t.gc, !.cl = t.cl]

RestoreTaint(s, t) ==
  [s EXCEPT !.mode = t.mode, !.stk = t.stk, !.gc = t.gc, !.cl = t.cl, !.dirty = t.dirty]
TaintState(s) == [mode |-> s.mode, stk |-> s.stk, gc |-> s.gc, cl |-> s.cl]
ClearTaint(s, n) == SetTopTaint([SetStackTaint(s, None) EXCEPT !.gc = None, !.cl = None], n, None)

(***************************************************************************)
(* Library functions, as the API calls they make.  Taint states are kept   *)
(* in `saved'; a call may taint the stack and return, or fail with, what   *)
(* it likes.                                                               *)
(***************************************************************************)

luaL_gettabletaint ==
  <<<<"save", 1>>, <<"pushvalue", 1>>, <<"pushvalue", 2>>, <<"protect">>, <<"setstacktaint">>,
    <<"gettable">>, <<"settop", 1>>, <<"save", 2>>, <<"restore", 1>>>>
luaB_issecurevariable ==
  <<<<"global">>, <<"settop", 2>>>> \o luaL_gettabletaint \o <<<<"pushnew", "s">>, <<"return">>>>
luaB_hooksecurefunc ==
  <<<<"global">>, <<"settop", 3>>, <<"save", 1>>, <<"pushvalue", 2>>, <<"protect">>,
    <<"setstacktaint">>, <<"gettable">>, <<"save", 2>>, <<"restore", 1>>, <<"checkfunction", 4>>,
    <<"insert", 3>>, <<"setvaluetaint", 3, 2>>, <<"setvaluetaint", 4, 1>>, <<"restore", 1>>,
    <<"pushclosure", 2>>, <<"setvaluetaint", 3, 0>>, <<"rawset">>, <<"return">>>>
f_securehook ==
  <<<<"pushupvalue", 1>>, <<"pushvalue", 1>>, <<"call", 1>>, <<"save", 1>>, <<"results">>,
    <<"pushupvalue", 2>>, <<"pushvalue", 1>>, <<"pcall", 1, "none">>, <<"popfailure">>,
    <<"restore", 1>>, <<"return">>>>
luaL_pcallas == <<<<"pcall", 1, "any">>, <<"restore", 1>>, <<"settoptaint">>>>
luaL_securecall == <<<<"save", 1>>>> \o luaL_pcallas \o <<<<"popfailure">>, <<"return">>>>
luaB_securecall ==
  <<<<"save", 1>>, <<"lookup">>, <<"pcall", 1, "any">>, <<"popfailure">>, <<"restore", 1>>,
    <<"settoptaint">>, <<"return">>>>
luaL_secureforeach ==
  <<<<"save", 1>>, <<"pushnew", "nil">>, <<"next", 11>>, <<"pushvalue", 2>>, <<"pushvalue", -3>>,
    <<"pushvalue", -3>>, <<"pcall", 2, "none">>, <<"popfailure">>, <<"restore", 1>>,
    <<"again", 3>>, <<"return">>>>
f_securedelegate ==
  <<<<"pushvalue", 1>>, <<"pushclosure", 1>>, <<"replace", 1>>, <<"save", 1>>,
    <<"pushupvalue", 1>>, <<"insert", 1>>, <<"setstacktaint">>, <<"cleartop">>,
    <<"pcall", 1, "any">>, <<"restore", 1>>, <<"settoptaint">>, <<"rethrow">>, <<"return">>>>
luaL_loadas ==
  <<<<"save", 1>>, <<"setstacktaint">>, <<"load">>, <<"restore", 1>>, <<"setvaluetaint", -1, 1>>,
    <<"return">>>>
luaL_getupvaluetaint ==
  <<<<"save", 1>>, <<"setstacktaint">>, <<"pushupvalue", 1>>, <<"settop", 1>>, <<"save", 2>>,
    <<"restore", 1>>, <<"return">>>>
luaL_setupvaluetaint ==
  <<<<"save", 1>>, <<"pushupvalue", 1>>, <<"setvaluetaint", -1, 0>>, <<"setupvalue", 1>>,
    <<"restore", 1>>, <<"return">>>>
Scripts ==
  [issecurevariable |-> luaB_issecurevariable, hooksecurefunc |-> luaB_hooksecurefunc,
   securehook |-> f_securehook, securecallfunction |-> luaL_securecall,
   securecall |-> luaB_securecall, secureexecuterange |-> luaL_secureforeach,
   securedelegate |-> f_securedelegate, loadas |-> luaL_loadas,
   getupvaluetaint |-> luaL_getupvaluetaint, setupvaluetaint |-> luaL_setupvaluetaint]
LibraryFunctions == DOMAIN Scripts

\* what the arguments are; a value on the stack of a function that propagates
\* reads has tainted its stack before
ArgumentKinds(fn) ==
  CASE fn = "issecurevariable" -> {<<"s">>, <<"t", "s">>}
    [] fn = "hooksecurefunc" -> {<<"s", "f">>, <<"t", "s", "f">>}
    [] fn = "securecall" -> {<<"s", "s">>, <<"f", "s">>}
    [] fn = "securecallfunction" -> {<<"f", "s">>}
    [] fn = "secureexecuterange" -> {<<"t", "f">>}
    [] fn = "securedelegate" -> {<<"f">>}
    [] fn = "free" -> {<<"n", "f">>}
    [] fn \in {"securehook", "loadas", "getupvaluetaint", "setupvaluetaint"} -> {<<"s">>}

Start(fn, mode, stk, args, up, tab) ==
  [fn |-> fn, pc |-> 1, out |-> "run", calls |-> 0, mode |-> mode, stk |-> stk, gc |-> None,
   cl |-> stk, dirty |-> stk # None, stack |-> args, up |-> up, tab |-> tab,
   entry |-> [mode |-> mode, stk |-> stk, args |-> args, up |-> up, tab |-> tab],
   saved |-> <<>>, protected |-> <<>>, failed |-> FALSE, ran |-> <<>>, results |-> <<>>]
TaintInit == c = [fn |-> None]
Begin ==
  /\ c.fn = None
  /\ \E fn \in LibraryFunctions \cup {"free"}, mode \in SUBSET Both, stk \in Tainted \cup {None},
        first, element, up \in Tainted \cup {None} :
       /\ "r" \in mode /\ first # None => stk # None
       /\ \E kinds \in ArgumentKinds(fn), second \in {"nil", "f"} :
            c' = Start(fn, mode, stk,
                       [i \in DOMAIN kinds |-> Cell(kinds[i], IF i = 1 THEN first ELSE None)],
                       <<Cell("f", up), Cell("f", None)>>,
                       <<Cell("f", None), Cell(second, IF second = "nil" THEN None ELSE element)>>)

Stepped(s) == [s EXCEPT !.pc = @ + 1]
Operation == Scripts[c.fn][c.pc]
AtOp(what) == c.fn \in LibraryFunctions /\ c.out = "run" /\ Operation[1] = what

\* an error leaves through lua_protecttaint
Throw(s) ==
  IF s.protected = <<>> THEN [s EXCEPT !.out = "error"]
  ELSE [RestoreTaint(s, s.protected[1]) EXCEPT !.out = "error"]

\* API calls with one outcome
Effect(s, op) ==
  CASE op[1] = "global" ->
         IF s.stack[1].v = "t" THEN s ELSE PutAt(PushRead(s, Cell("t", None)), 1)
    [] op[1] = "settop" -> SetTop(s, op[2])
    [] op[1] = "save" -> [s EXCEPT !.saved = Append(SubSeq(@, 1, op[2] - 1), SaveTaint(s))]
    [] op[1] = "restore" -> RestoreTaint(s, s.saved[op[2]])
    [] op[1] = "pushvalue" -> PushRead(s, CellAt(s, op[2]))
    [] op[1] = "pushupvalue" -> PushRead(s, s.up[op[2]])
    [] op[1] = "pushnew" -> PushNew(s, op[2])
    [] op[1] = "pushclosure" -> NewClosure(s, op[2])
    [] op[1] = "protect" -> [s EXCEPT !.protected = <<SaveTaint(s)>>]
    [] op[1] = "setstacktaint" -> SetStackTaint(s, None)
    [] op[1] = "gettable" -> [GetByKey(s) EXCEPT !.protected = <<>>]
    [] op[1] = "insert" -> PutAt(s, op[2])
    [] op[1] = "replace" -> ReplaceCell(s, op[2])
    [] op[1] = "setvaluetaint" ->
         SetValueTaint(s, op[2], IF op[3] = 0 THEN None ELSE s.saved[op[3]].stk)
    [] op[1] = "rawset" -> SetByKey(s)
    [] op[1] = "lookup" ->
         IF s.stack[1].v = "s" THEN ReplaceCell(GetByKey(PushRead(s, s.stack[1])), 1) ELSE s
    [] op[1] = "settoptaint" -> SetTopTaint(s, Top(s), s.stk)
    [] op[1] = "cleartop" -> SetTopTaint(s, 1, None)
    [] op[1] = "setupvalue" -> ReplaceUpvalue(s, op[2])
    [] op[1] = "results" -> [s EXCEPT !.results = SubSeq(s.stack, 2, Top(s))]
    [] op[1] = "popfailure" -> IF s.failed THEN PopTop(s, 1) ELSE s
    [] op[1] = "return" -> [s EXCEPT !.out = "ok"]
SimpleOps ==
  {"global", "settop", "save", "restore", "pushvalue", "pushupvalue", "pushnew", "pushclosure",
   "protect", "setstacktaint", "gettable", "insert", "replace", "setvaluetaint", "rawset",
   "lookup", "settoptaint", "cleartop", "setupvalue", "results", "popfailure", "return"}

CallApi ==
  /\ c.fn \in LibraryFunctions /\ c.out = "run" /\ Operation[1] \in SimpleOps
  /\ c' = Stepped(Effect(c, Operation))

\* the table may have a metamethod that fails
LookupFails == AtOp("gettable") /\ c' = Throw(c)
CheckFunction ==
  AtOp("checkfunction") /\ c' = IF IsFunction(CellAt(c, Operation[2])) THEN Stepped(c) ELSE Throw(c)
Rethrow == AtOp("rethrow") /\ c' = IF c.failed THEN Throw(c) ELSE Stepped(c)
NextRound ==
  AtOp("next") /\ c' = IF HasNext(c) THEN Stepped(NextPair(c))
                        ELSE [PopTop(c, 2) EXCEPT !.pc = Operation[2]]
Again == AtOp("again") /\ c' = [PopTop(c, 1) EXCEPT !.pc = Operation[2]]

\* the parser makes a function, or a message
LoadText == AtOp("load") /\ \E v \in {"f", "s"} :
     c' = Stepped([c EXCEPT !.stack =
                    Append(@, IF v = "f" THEN New(c, "closure", <<>>) ELSE Made(c, v))])

\* lua_call and lua_pcall: the callee may read what taints it, and returns or
\* throws something new or something tainted
PushResult(s, n, x) == PushRead(PopTop(s, n), x)
Outcomes(s) == {Made(s, "s"), Made(s, "f")} \cup {Cell("s", Callee)}
AfterRun(s, stk) ==
  [s EXCEPT !.ran = Append(@, [stk |-> s.stk,
                               args |-> SubSeq(s.stack, Top(s) - Operation[2] + 1, Top(s))]),
            !.stk = stk, !.dirty = stk # None]
RunCallee(s, x, fails, returns) ==
  Stepped([(IF fails \/ returns THEN PushResult(s, Operation[2] + 1, x)
            ELSE PopTop(s, Operation[2] + 1))
          EXCEPT !.failed = fails])
CalleeTaints == IF "r" \in c.mode THEN {c.stk, Callee} ELSE {c.stk}
PCall ==
  /\ AtOp("pcall")
  /\ \E stk \in CalleeTaints, fails, returns \in BOOLEAN :
       /\ Operation[3] = "none" => ~returns
       /\ \E x \in Outcomes(AfterRun(c, stk)) : c' = RunCallee(AfterRun(c, stk), x, fails, returns)
CallPlain ==
  /\ AtOp("call")
  /\ \E stk \in CalleeTaints, fails, returns \in BOOLEAN, v \in {"s", "f"} :
       c' = IF fails THEN Throw(AfterRun(c, stk))
            ELSE RunCallee(AfterRun(c, stk), Made(AfterRun(c, stk), v), FALSE, returns)

\* any API call
FreeEffect(s, op) ==
  CASE op = "pushvalue" -> PushRead(s, s.stack[1])
    [] op = "pushupvalue" -> PushRead(s, s.up[1])
    [] op = "xmove" -> PushRead(s, s.tab[2])
    [] op = "pushnew" -> PushNew(s, "n")
    [] op = "grow" -> SetTop(s, Top(s) + 1)
    [] op = "pop" -> PopTop(s, 1)
    [] op = "remove" -> TakeOut(s, 1)
    [] op = "insert" -> PutAt(s, 1)
    [] op = "replace" -> ReplaceCell(s, 1)
    [] op = "copy" -> CopyCell(s, 1, -1)
    [] op = "tostring" -> Convert(s, 1)
    [] op = "gettable" -> GetByKey(s)
    [] op = "getfield" -> GetField(s, 1)
    [] op = "settable" -> SetByKey(s)
    [] op = "setfield" -> SetField(s, 1)
    [] op = "setupvalue" -> ReplaceUpvalue(s, 1)
    [] op = "concat" -> ConcatTop(s, 2)
    [] op = "next" -> NextPair(s)
    [] op = "closure" -> NewClosure(s, 1)
    [] op = "table" -> PushTable(s)
    [] op = "tainttop" -> TaintTop(s, 1)
    [] op = "cleartaint" -> ClearTaint(s, Top(s))
FreeOps ==
  {"pushvalue", "pushupvalue", "xmove", "pushnew", "grow", "pop", "remove", "insert", "replace",
   "copy", "tostring", "gettable", "getfield", "settable", "setfield", "setupvalue", "concat",
   "next", "closure", "table", "tainttop", "cleartaint"}
Legal(s, op) ==
  CASE op \in {"gettable", "concat"} ->
         \A i \in 1 .. 2 : i <= Top(s) /\ CellAt(s, -i).v \in {"n", "s"}
    [] op = "settable" -> Top(s) > 2 /\ CellAt(s, -2).v \in {"n", "s"}
    [] op = "next" -> Top(s) > 0 /\ HasNext(s)
    [] op \in {"pushupvalue", "xmove", "pushnew", "grow", "getfield", "table", "cleartaint"} -> TRUE
    [] op \notin {"gettable", "concat", "settable", "next", "pushupvalue", "xmove", "pushnew", "grow",
                 "getfield", "table", "cleartaint"} -> Top(s) > 1
CallAny ==
  /\ c.fn = "free" /\ c.calls < MaxFree
  /\ \E op \in FreeOps : /\ Legal(c, op)
                          /\ c' = [FreeEffect(c, op) EXCEPT !.calls = @ + 1]

TaintNext ==
  \/ Begin \/ CallApi \/ LookupFails \/ CheckFunction \/ Rethrow \/ NextRound \/ Again \/ LoadText
  \/ PCall \/ CallPlain \/ CallAny

(***************************************************************************)
(* Taint spreads as README.md of elune says: code that has read something  *)
(* insecure is tainted from then on, and what it makes, moves, converts or *)
(* concatenates with the functions of lapi.c is tainted with it, on the    *)
(* stack, in tables and in upvalues.                                       *)
(***************************************************************************)
AllCells == ToSet(c.stack) \cup ToSet(c.up) \cup ToSet(c.tab)
Spreads ==
  c.fn # None =>
    /\ "r" \in c.mode /\ c.dirty => c.stk # None
    /\ c.mode = Both => \A x \in AllCells : /\ x.bad => x.taint # None
                                       /\ x.by => x.own # None

(***************************************************************************)
(* The library functions that look into tables or call other code leave    *)
(* the taint of their caller as it was, whatever that code does, and       *)
(* whether it fails (luaL_pcallas, luaL_secureforeach, f_securedelegate,   *)
(* luaL_loadas, luaB_hooksecurefunc, luaL_gettabletaint): they answer with *)
(* the taint of what was stored; a hook keeps the taint of the hooked      *)
(* function apart from that of its own; the results of securecall are as   *)
(* secure as the caller; no call of secureexecuterange sees what the one   *)
(* before it brought; a delegate runs untainted on untainted arguments.    *)
(***************************************************************************)
SameState ==
  TaintState(c) = [mode |-> c.entry.mode, stk |-> c.entry.stk, gc |-> None, cl |-> c.entry.stk]
Reads == "r" \in c.entry.mode
Barriers ==
  c.fn \in LibraryFunctions /\ c.out # "run" =>
    /\ c.fn # "securehook" => SameState
    /\ c.out = "ok" =>
         CASE c.fn = "issecurevariable" ->
                Len(c.stack) = 2 /\ (Reads => c.saved[2].stk = c.tab[2].taint)
           [] c.fn = "getupvaluetaint" ->
                Len(c.stack) = 1 /\ (Reads => c.saved[2].stk = c.up[1].taint)
           [] c.fn = "setupvaluetaint" -> Len(c.stack) = 1 /\ c.up[1].taint = None
           [] c.fn = "hooksecurefunc" ->
                LET hook == c.tab[2]
                IN /\ hook.taint = None /\ hook.v = "closure" /\ Len(c.stack) = 1
                   /\ hook.ups[1].v = "f" /\ hook.ups[2].v = "f" /\ hook.ups[2].taint = c.entry.stk
                   /\ Reads => hook.ups[1].taint = c.entry.tab[2].taint
           [] c.fn = "securehook" ->
                /\ SubSeq(c.stack, 2, Len(c.stack)) = c.results
                /\ TaintState(c).stk = c.saved[1].stk
           [] c.fn \in {"securecall", "securecallfunction", "securedelegate"} ->
                /\ \A i \in DOMAIN c.stack : c.stack[i].taint = c.entry.stk
                /\ c.fn = "securedelegate" =>
                     c.ran[1].stk = None
                       /\ \A i \in DOMAIN c.ran[1].args : c.ran[1].args[i].taint = None
           [] c.fn = "secureexecuterange" ->
                /\ Len(c.ran) = Cardinality({k \in {1, 2} : c.tab[k].v # "nil"})
                /\ \A i \in DOMAIN c.ran : c.ran[i].stk # Callee
                /\ Len(c.stack) = 1
           [] c.fn = "loadas" -> c.stack[2].taint = c.entry.stk
=============================================================================
