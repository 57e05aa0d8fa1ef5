-------------------------------- MODULE Parser --------------------------------
(***************************************************************************)
(* The parser of elune (lparser.c): what it does to the FuncStates for     *)
(* each construct, in the order in which it reads it.  The tokens are      *)
(* replaced by the tree they stand for, but for operators and operands.    *)
(*                                                                         *)
(* Expressions:  <<"nil">> <<"true">> <<"false">> <<"num", n>>             *)
(*   <<"str", s>> <<"...">> <<"name", x>> <<"paren", e>>                   *)
(*   <<"index", e, key>> <<"call", e, args>> <<"method", e, name, args>>   *)
(*   <<"function", params, vararg, block>> <<"table", items>>              *)
(*   <<"ops", items>>, operators between and before operands, in which     *)
(*   items are <<"op", op>> and <<"val", e>>                               *)
(* Statements, in blocks: <<"local", names, exps>>                         *)
(*   <<"assign", vars, exps>> <<"callstat", e>> <<"do", block>>            *)
(*   <<"while", e, block>> <<"repeat", block, e>>                          *)
(*   <<"if", clauses, else>> <<"fornum", x, exps, block>>                  *)
(*   <<"forin", names, exps, block>> <<"funcstat", var, needself, e>>      *)
(*   <<"localfunction", x, e>> <<"return", exps>> <<"break">>              *)
(* A FuncState has the one around it in `prev'.                            *)
(***************************************************************************)
EXTENDS CheckCode

RECURSIVE Construct(_, _), ExpList(_, _), Chunk(_, _), SingleVarAux(_, _, _),
          Targets(_, _, _), Assignment(_, _, _), Clauses(_, _, _), SubExpr(_, _, _), Climb(_, _)

(***************************************************************************)
(* Functions and blocks.                                                   *)
(***************************************************************************)

\* open_func
OpenFunc(prev, params, vararg) ==
  [code |-> <<>>, k |-> <<>>, jpc |-> {}, jumps |-> {}, lasttarget |-> 0,
   freereg |-> Len(params), maxstack |-> IF Len(params) > 2 THEN Len(params) ELSE 2,
   actvar |-> params, bl |-> <<>>, upvalues |-> <<>>, protos |-> <<>>,
   numparams |-> Len(params), vararg |-> vararg, asserts |-> TRUE, prev |-> prev]

\* close_func: what is left of the function
Prototype(f) ==
  [code |-> f.code, k |-> f.k, protos |-> f.protos, upvalues |-> f.upvalues,
   numparams |-> f.numparams, vararg |-> f.vararg, maxstack |-> f.maxstack,
   asserts |-> f.asserts /\ f.bl = <<>> /\ \A i \in DOMAIN f.protos : f.protos[i].asserts]
Checked(p) == [p EXCEPT !.asserts = @ /\ CodeChecks(p)]
CloseFunc(f) ==
  Checked(Prototype(Ret([Require(f, f.bl = <<>>) EXCEPT !.actvar = <<>>], 0, 0)))

\* enterblock
EnterBlock(f, isbreakable) ==
  [Require(f, f.freereg = NActVar(f)) EXCEPT
     !.bl = Append(@, [breaklist |-> {}, nactvar |-> NActVar(f), upval |-> FALSE,
                       isbreakable |-> isbreakable])]

\* leaveblock: the variables of the block go, closed if a function has them
LeaveBlock(f) ==
  LET bl == Last(f.bl)
      g == [f EXCEPT !.bl = Front(@), !.actvar = SubSeq(@, 1, bl.nactvar)]
      h == IF bl.upval THEN Emit(g, "CLOSE", bl.nactvar, 0, 0) ELSE g
  IN PatchToHere([Require(h, (~bl.isbreakable \/ ~bl.upval) /\ bl.nactvar = NActVar(h))
                    EXCEPT !.freereg = bl.nactvar], bl.breaklist)

\* adjustlocalvars
Activate(f, names) == [f EXCEPT !.actvar = @ \o names]

(***************************************************************************)
(* Variables.                                                              *)
(***************************************************************************)

\* searchvar: the innermost variable of that name, or 0
SearchVar(f, name) ==
  LET found == {i \in 1 .. NActVar(f) : f.actvar[i] = name}
  IN IF found = {} THEN 0 ELSE CHOOSE i \in found : \A j \in found : j <= i

\* a variant with a slip in it: the innermost block is marked, whatever block
\* the variable is in
MarkInnermost(f, level) ==
  IF f.bl = <<>> THEN f ELSE [f EXCEPT !.bl[Len(f.bl)].upval = TRUE]

\* markupval: the block that has the variable has to close it
MarkUpval(f, level) ==
  LET around == {i \in DOMAIN f.bl : f.bl[i].nactvar <= level}
      b == CHOOSE i \in around : \A j \in around : j <= i
  IN IF around = {} THEN f ELSE [f EXCEPT !.bl[b].upval = TRUE]

\* indexupvalue
IndexUpvalue(f, name, kind, info) ==
  LET found == {i \in DOMAIN f.upvalues : f.upvalues[i].k = kind /\ f.upvalues[i].info = info}
      i == CHOOSE i \in found : \A j \in found : i <= j
      new == [k |-> kind, info |-> info, name |-> name]
  IN IF found # {} THEN X(Require(f, f.upvalues[i].name = name), Exp("UPVAL", i))
     ELSE X(Require([f EXCEPT !.upvalues = Append(@, new)], kind \in {"LOCAL", "UPVAL"}),
            Exp("UPVAL", Len(f.upvalues) + 1))

\* singlevaraux: a local here, an upvalue through every function between, or
\* a global
SingleVarAux(f, name, base) ==
  LET v == SearchVar(f, name)
      outer == SingleVarAux(f.prev, name, FALSE)
  IN IF v > 0 THEN X(IF base THEN f ELSE MarkUpval(f, v - 1), Exp("LOCAL", v - 1))
     ELSE IF f.prev = <<>> THEN X(f, Exp("GLOBAL", 0))
     ELSE IF outer.e.k = "GLOBAL" THEN X(f, outer.e)
     ELSE IndexUpvalue([f EXCEPT !.prev = outer.f], name, outer.e.k, outer.e.info)

\* singlevar
SingleVar(f, name) ==
  LET x == SingleVarAux(f, name, TRUE)
      k == <<"s", <<name>>>>
  IN IF x.e.k = "GLOBAL" THEN X(AddK(x.f, k), Exp("GLOBAL", IndexOfK(x.f, k))) ELSE x

\* adjust_assign
FillNils(f, n) == IF n > 0 THEN Nils(ReserveRegs(f, n), f.freereg, n) ELSE f
OpenRegs(f, n) == IF n > 1 THEN ReserveRegs(f, n - 1) ELSE f
AdjustAssign(x, nvars, nexps) ==
  IF HasMultRet(x.e)
  THEN LET open == IF nvars - nexps < -1 THEN 0 ELSE nvars - nexps + 1
       IN OpenRegs(SetReturns(x, open), open)
  ELSE FillNils(IF x.e.k = "VOID" THEN x.f ELSE Exp2NextReg(x).f, nvars - nexps)

(***************************************************************************)
(* Expressions.                                                            *)
(***************************************************************************)

Void(f) == X(f, Exp("VOID", 0))
InNextReg(f, e) == Exp2NextReg(Construct(f, e))

\* explist1: all but the last value in registers
ExpList(f, exps) ==
  CASE exps = <<>> -> Void(f)
    [] Len(exps) = 1 -> Construct(f, exps[1])
    [] Len(exps) > 1 -> ExpList(InNextReg(f, exps[1]).f, Tail(exps))

\* funcargs
AllInRegs(x) ==
  CASE x.e.k = "VOID" -> x.f
    [] HasMultRet(x.e) -> SetReturns(x, MultRet)
    [] OTHER -> Exp2NextReg(x).f
CallCode(f, base, nparams) ==
  X([Emit(f, "CALL", base, nparams + 1, 2) EXCEPT !.freereg = base + 1], Exp("CALL", Pc(f)))
CallInRegs(f, open, base) ==
  CallCode(f, base, IF open THEN MultRet ELSE f.freereg - (base + 1))
CallOfList(x, base) == CallInRegs(AllInRegs(x), HasMultRet(x.e), base)
Args(fn, args) == CallOfList(ExpList(Require(fn.f, fn.e.k = "NONRELOC"), args), fn.e.info)

\* `:' in primaryexp
MethodKey(key, e) == Self(X(key.f, e), key.e)
Method(o, name) == MethodKey(ConstExp(o.f, <<"s", <<name>>>>), o.e)

\* yindex and luaK_indexed
IndexKey(key, t) == Indexed(key.f, t, key.e)
Index(t, key) == IndexKey(Exp2Val(Construct(t.f, key)), t.e)

\* body, with pushclosure: a pseudo instruction for each upvalue
Pseudo(u) ==
  [op |-> IF u.k = "LOCAL" THEN "MOVE" ELSE "GETUPVAL", a |-> 0, b |-> u.info, c |-> 0]
ClosureCode(f, upvalues) ==
  X([Emit(f, "CLOSURE", 0, Len(f.protos), 0) EXCEPT
       !.code = @ \o [i \in DOMAIN upvalues |-> Pseudo(upvalues[i])]],
    Exp("RELOCABLE", Pc(f)))
PushClosure(inner) ==
  ClosureCode([inner.prev EXCEPT !.protos = Append(@, CloseFunc(inner))], inner.upvalues)
Body(f, e) == PushClosure(Chunk(OpenFunc(f, e[2], e[3]), e[4]))

\* closelistfield; q has the last item and the counts of the ConsControl, the
\* table is in register t
Flush(f, cc, t) ==
  IF cc.tostore = FieldsPerFlush
  THEN [x |-> Void(SetList(f, t, cc.na, cc.tostore)), cc |-> [cc EXCEPT !.tostore = 0]]
  ELSE [x |-> Void(f), cc |-> cc]
CloseListField(q, t) == IF q.x.e.k = "VOID" THEN q ELSE Flush(Exp2NextReg(q.x).f, q.cc, t)

\* recfield
FieldStore(val, key, t, reg) ==
  Void([Emit(val.f, "SETTABLE", t, RK(key), RK(val.e)) EXCEPT !.freereg = reg])
FieldValue(key, e, t, reg) == FieldStore(Exp2RK(Construct(key.f, e)), key.e, t, reg)
RecField(f, item, t) == FieldValue(Exp2RK(Exp2Val(Construct(f, item[2]))), item[3], t, f.freereg)

\* an item of constructor: the one before it, if any, waits to be stored
Waiting(q) == [q EXCEPT !.x.f = Require(@, q.x.e.k = "VOID" \/ q.cc.tostore > 0)]
AddItem(q, item, t) ==
  IF item[1] = "field"
  THEN [x |-> RecField(q.x.f, item, t), cc |-> [q.cc EXCEPT !.nh = @ + 1]]
  ELSE [x |-> Construct(q.x.f, item[2]), cc |-> [q.cc EXCEPT !.na = @ + 1, !.tostore = @ + 1]]

\* lastlistfield: an open call or ... gives all its values
LastListField(q, t) ==
  CASE q.cc.tostore = 0 -> [f |-> q.x.f, cc |-> q.cc]
    [] q.cc.tostore # 0 /\ HasMultRet(q.x.e) ->
         [f |-> SetList(SetReturns(q.x, MultRet), t, q.cc.na, MultRet),
          cc |-> [q.cc EXCEPT !.na = @ - 1]]
    [] q.cc.tostore # 0 /\ ~HasMultRet(q.x.e) ->
         [f |-> SetList(AllInRegs(q.x), t, q.cc.na, q.cc.tostore), cc |-> q.cc]

\* constructor
TableSizes(q, pc) == SetArg(SetArg(q.f, pc, "b", q.cc.na), pc, "c", q.cc.nh)
TableItems(t, pc, items) ==
  LET Add(q, item) == AddItem(CloseListField(Waiting(q), t.e.info), item, t.e.info)
      none == [x |-> Void(t.f), cc |-> [na |-> 0, nh |-> 0, tostore |-> 0]]
  IN X(TableSizes(LastListField(FoldLeft(Add, none, items), t.e.info), pc), t.e)
Constructor(f, items) ==
  TableItems(Exp2NextReg(X(Emit(f, "NEWTABLE", 0, 0, 0), Exp("RELOCABLE", Pc(f)))), Pc(f), items)

\* getunopr, getbinopr and priority
UnaryPriority == 8
LeftPriority(op) ==
  CASE op = "or" -> 1 [] op = "and" -> 2 [] op \in {"==", "~=", "<", "<=", ">", ">="} -> 3
    [] op = ".." -> 5 [] op \in {"+", "-"} -> 6 [] op \in {"*", "/", "%"} -> 7 [] op = "^" -> 10
RightPriority(op) == IF op \in {"..", "^"} THEN LeftPriority(op) - 1 ELSE LeftPriority(op)

\* subexpr: an operand, with the operators before it, and what follows as
\* long as its operator binds more than `limit'; `items' are left
Read(x, items) == [f |-> x.f, e |-> x.e, items |-> items]
Prefixed(r, op) == Read(Prefix(X(r.f, r.e), op), r.items)
Operand(f, items) ==
  IF items[1][1] = "op" THEN Prefixed(SubExpr(f, Tail(items), UnaryPriority), items[1][2])
  ELSE Read(Construct(f, items[1][2]), Tail(items))
SubExpr(f, items, limit) == Climb(Operand(f, items), limit)
Joined(r, op, e1) == Read(Posfix(r.f, op, e1, r.e), r.items)
ReadSecond(x1, op, items) == Joined(SubExpr(x1.f, items, RightPriority(op)), op, x1.e)
Climb(r, limit) ==
  IF r.items = <<>> \/ LeftPriority(r.items[1][2]) <= limit THEN r
  ELSE Climb(ReadSecond(Infix(X(r.f, r.e), r.items[1][2]), r.items[1][2], Tail(r.items)), limit)
WholeExpr(r) == X(r.f, r.e)

\* simpleexp, primaryexp and expr
Expr(f, e) ==
  IF ~f.asserts THEN Void(f)
  ELSE CASE e[1] = "nil" -> X(f, Exp("NIL", 0))
    [] e[1] = "true" -> X(f, Exp("TRUE", 0))
    [] e[1] = "false" -> X(f, Exp("FALSE", 0))
    [] e[1] = "num" -> X(f, Exp("KNUM", <<"n", e[2]>>))
    [] e[1] = "str" -> ConstExp(f, <<"s", e[2]>>)
    [] e[1] = "..." -> X(Emit(f, "VARARG", 0, 1, 0), Exp("VARARG", Pc(f)))
    [] e[1] = "name" -> SingleVar(f, e[2])
    [] e[1] = "paren" -> DischargeVars(Construct(f, e[2]))
    [] e[1] = "index" -> Index(Exp2AnyReg(Construct(f, e[2])), e[3])
    [] e[1] = "call" -> Args(InNextReg(f, e[2]), e[3])
    [] e[1] = "method" -> Args(Method(Construct(f, e[2]), e[3]), e[4])
    [] e[1] = "function" -> Body(f, e)
    [] e[1] = "table" -> Constructor(f, e[2])
    [] e[1] = "ops" -> WholeExpr(SubExpr(f, e[2], 0))

(***************************************************************************)
(* Statements.                                                             *)
(***************************************************************************)

\* block, which is not a loop: no break is on its list
NoBreaks(f) == Require(f, Last(f.bl).breaklist = {})
Block(f, block) == LeaveBlock(NoBreaks(Chunk(EnterBlock(f, FALSE), block)))

\* check_conflict: targets t[i] that use the local v get a copy of it
Conflicts(vars, v) ==
  {i \in DOMAIN vars : vars[i].k = "INDEXED" /\ v.info \in {vars[i].info, vars[i].aux}}
ResolveConflicts(f, vars, v) ==
  LET Safe(r) == IF r = v.info THEN f.freereg ELSE r
  IN IF Conflicts(vars, v) = {} THEN [f |-> f, vars |-> vars]
     ELSE [f |-> ReserveRegs(Emit(f, "MOVE", f.freereg, v.info, 0), 1),
           vars |-> [i \in DOMAIN vars |->
                       IF i \in Conflicts(vars, v)
                       THEN [vars[i] EXCEPT !.info = Safe(@), !.aux = Safe(@)]
                       ELSE vars[i]]]

\* assignment, the variables on the left
AddTarget(r, e) == [f |-> r.f, vars |-> Append(r.vars, e)]
NextTarget(x, vars) ==
  AddTarget(IF x.e.k = "LOCAL" THEN ResolveConflicts(x.f, vars, x.e)
            ELSE [f |-> x.f, vars |-> vars], x.e)
Targets(f, vars, names) ==
  IF names = <<>> THEN [f |-> f, vars |-> vars]
  ELSE LET r == NextTarget(Construct(f, names[1]), vars) IN Targets(r.f, r.vars, Tail(names))

\* assignment, the stores of the values on the stack, from the last variable
Assignment(f, vars, n) ==
  IF n = 0 THEN f
  ELSE Assignment(StoreVar(f, vars[n], Exp("NONRELOC", f.freereg - 1)), vars, n - 1)

LastValue(x, vars, n) == Assignment(StoreVar(x.f, vars[n], x.e), vars, n - 1)
AssignList(x, vars, n, nexps) ==
  IF n = nexps THEN LastValue(SetOneRet(x), vars, n)
  ELSE Assignment([AdjustAssign(x, n, nexps)
                     EXCEPT !.freereg = IF nexps > n THEN @ - (nexps - n) ELSE @], vars, n)
AssignTo(r, exps) == AssignList(ExpList(r.f, exps), r.vars, Len(r.vars), Len(exps))
Assign(f, names, exps) == AssignTo(Targets(f, <<>>, names), exps)

\* cond: the jumps that are taken when the condition is false
IfTrue(x) == GoIfTrue(IF x.e.k = "NIL" THEN X(x.f, [x.e EXCEPT !.k = "FALSE"]) ELSE x)
Cond(f, e) == IfTrue(Construct(f, e))

\* breakstat
AddBreak(f, b) == [f EXCEPT !.bl[b].breaklist = @ \cup f.jumps]
BreakFrom(f, b) ==
  AddBreak(Jump(IF \E i \in b + 1 .. Len(f.bl) : f.bl[i].upval
                THEN Emit(f, "CLOSE", f.bl[b].nactvar, 0, 0) ELSE f), b)
Break(f) ==
  LET loops == {i \in DOMAIN f.bl : f.bl[i].isbreakable}
  IN BreakFrom(f, CHOOSE b \in loops : \A j \in loops : j <= b)

BackTo(f, target) == PatchList(f, f.jumps, target)

\* whilestat
WhileBlock(c, block, init) ==
  PatchToHere(LeaveBlock(BackTo(Jump(Block(EnterBlock(c.f, TRUE), block)), init)), c.e.f)
While(f, e, block) == WhileBlock(Cond(Label(f), e), block, Pc(f))

\* repeatstat: the condition is inside the scope of the block
Until(c, init) ==
  LeaveBlock(IF Last(c.f.bl).upval
             THEN BackTo(Jump(LeaveBlock(PatchToHere(Break(c.f), c.e.f))), init)
             ELSE PatchList(LeaveBlock(c.f), c.e.f, init))
Repeat(f, block, e) ==
  Until(Cond(Chunk(EnterBlock(EnterBlock(Label(f), TRUE), FALSE), block), e), Pc(f))

\* test_then_block and ifstat: `escape' are the jumps to the end
NextClause(j, false, clauses, escape) ==
  Clauses(PatchToHere(j, false), Tail(clauses), escape \cup j.jumps)
ThenBlock(c, clauses, escape) ==
  LET f == Block(c.f, clauses[1][2])
  IN IF Len(clauses) = 1 THEN [f |-> f, false |-> c.e.f, escape |-> escape]
     ELSE NextClause(Jump(f), c.e.f, clauses, escape)
Clauses(f, clauses, escape) == ThenBlock(Cond(f, clauses[1][1]), clauses, escape)
ElseBlock(j, r, block) ==
  PatchToHere(Block(PatchToHere(j, r.false), block), r.escape \cup j.jumps)
IfEnd(r, else) ==
  IF else = <<>> THEN PatchToHere(r.f, r.escape \cup r.false)
  ELSE ElseBlock(Jump(r.f), r, else[1])
If(f, clauses, else) == IfEnd(Clauses(f, clauses, {}), else)

\* forbody
ForPrep(f, base, isnum) ==
  IF isnum THEN [Emit(f, "FORPREP", base, 0, 0) EXCEPT !.jumps = {Pc(f)}] ELSE Jump(f)
ForBlock(f, names, block) ==
  LeaveBlock(Block(ReserveRegs(Activate(EnterBlock(f, FALSE), names), Len(names)), block))
ForEnd(f, base, names, isnum) ==
  IF isnum THEN [Emit(f, "FORLOOP", base, 0, 0) EXCEPT !.jumps = {Pc(f)}]
  ELSE Jump(Emit(f, "TFORLOOP", base, 0, Len(names)))
ForFrom(p, first, base, names, block, isnum) ==
  BackTo(ForEnd(PatchToHere(ForBlock(p, names, block), p.jumps), base, names, isnum), first)
ForControlled(f, base, names, block, isnum) ==
  ForFrom(ForPrep(f, base, isnum), Pc(f) + 1, base, names, block, isnum)
ForBody(f, base, names, block, isnum) ==
  ForControlled(Activate(f, <<"(for index)", "(for limit)", "(for step)">>),
                base, names, block, isnum)

\* fornum and forlist in forstat
OneStep(f) ==
  ReserveRegs(Emit(AddK(f, <<"n", 1>>), "LOADK", f.freereg, IndexOfK(f, <<"n", 1>>), 0), 1)
ForStep(f, exps) == IF Len(exps) = 3 THEN InNextReg(f, exps[3]).f ELSE OneStep(f)
ForNum(f, name, exps, block) ==
  LeaveBlock(ForBody(ForStep(InNextReg(InNextReg(f, exps[1]).f, exps[2]).f, exps),
                     f.freereg, <<name>>, block, TRUE))
ForIn(f, names, exps, block) ==
  LeaveBlock(ForBody(CheckStack(AdjustAssign(ExpList(f, exps), 3, Len(exps)), 3),
                     f.freereg, names, block, FALSE))

\* retstat: a single call becomes a tail call
ReturnOpen(x, f, tail) ==
  Ret(IF tail THEN Require([f EXCEPT !.code[x.e.info].op = "TAILCALL"],
                           f.code[x.e.info].a = NActVar(f))
      ELSE f, NActVar(f), MultRet)
ReturnOne(x) == Ret(x.f, x.e.info, 1)
ReturnMany(f, n) == Ret(Require(f, n = f.freereg - NActVar(f)), NActVar(f), n)
ReturnList(x, n) ==
  CASE n = 0 -> Ret(x.f, 0, 0)
    [] n > 0 /\ HasMultRet(x.e) -> ReturnOpen(x, SetReturns(x, MultRet), x.e.k = "CALL" /\ n = 1)
    [] n = 1 /\ ~HasMultRet(x.e) -> ReturnOne(Exp2AnyReg(x))
    [] n > 1 /\ ~HasMultRet(x.e) -> ReturnMany(Exp2NextReg(x).f, n)
Return(f, exps) == ReturnList(ExpList(f, exps), Len(exps))

\* localfunc: the function sees its own name
StoreBody(x, reg) == StoreVar(x.f, Exp("LOCAL", reg), x.e)
LocalFunction(f, name, e) ==
  StoreBody(Body(Activate(ReserveRegs(f, 1), <<name>>), e), f.freereg)

\* funcstat, whose body has a parameter `self' before its own after a colon
WithSelf(e, needself) == IF needself THEN [e EXCEPT ![2] = <<"self">> \o @] ELSE e
StoreFunction(x, var) == StoreVar(x.f, var, x.e)
NamedFunctionOf(v, e) == StoreFunction(Body(v.f, e), v.e)
FuncStat(f, var, needself, e) == NamedFunctionOf(Construct(f, var), WithSelf(e, needself))

\* localstat
LocalVars(f, names, exps) ==
  Activate(AdjustAssign(ExpList(f, exps), Len(names), Len(exps)), names)

\* exprstat
CallStat(x) == SetArg(x.f, x.e.info, "c", 1)

\* statement
Statement(f, s) ==
  CASE s[1] = "local" -> LocalVars(f, s[2], s[3])
    [] s[1] = "assign" -> Assign(f, s[2], s[3])
    [] s[1] = "callstat" -> CallStat(Construct(f, s[2]))
    [] s[1] = "do" -> Block(f, s[2])
    [] s[1] = "while" -> While(f, s[2], s[3])
    [] s[1] = "repeat" -> Repeat(f, s[2], s[3])
    [] s[1] = "if" -> If(f, s[2], s[3])
    [] s[1] = "fornum" -> ForNum(EnterBlock(f, TRUE), s[2], s[3], s[4])
    [] s[1] = "forin" -> ForIn(EnterBlock(f, TRUE), s[2], s[3], s[4])
    [] s[1] = "funcstat" -> FuncStat(f, s[2], s[3], s[4])
    [] s[1] = "localfunction" -> LocalFunction(f, s[2], s[3])
    [] s[1] = "return" -> Return(f, s[2])
    [] s[1] = "break" -> Break(f)

\* the code of a construct, an expression or a statement
Statements == {"local", "assign", "callstat", "do", "while", "repeat", "if", "fornum", "forin",
               "funcstat", "localfunction", "return", "break"}
Construct(f, t) == IF t[1] \in Statements THEN Statement(f, t) ELSE Expr(f, t)

\* chunk: after each statement the registers of its temporaries are free; a
\* lua_assert that fails is the end
FreeTemporaries(f) ==
  [Require(f, f.maxstack >= f.freereg /\ f.freereg >= NActVar(f)) EXCEPT !.freereg = NActVar(f)]
Chunk(f, block) ==
  IF ~f.asserts \/ block = <<>> THEN f
  ELSE Chunk(FreeTemporaries(Construct(f, block[1])), Tail(block))

\* luaY_parser: there is nothing around the main function
Outermost(f) == Require(f, f.prev = <<>> /\ f.upvalues = <<>>)
Compile(block) == CloseFunc(Outermost(Chunk(OpenFunc(<<>>, <<>>, TRUE), block)))
=============================================================================
