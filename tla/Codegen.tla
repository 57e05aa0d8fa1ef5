------------------------------- MODULE Codegen -------------------------------
(***************************************************************************)
(* The code generator of elune (lcode.c).                                  *)
(*                                                                         *)
(* A FuncState `f' is a record, and so is an expression descriptor `e'     *)
(* (expdesc); operators on both take and return x = [f |-> f, e |-> e].    *)
(* An instruction is [op, a, b, c]; a jump has its destination in b, and a *)
(* list of pending jumps, which the code threads through the instructions, *)
(* is the set of their places.  Places count from 1.  An RK operand is a   *)
(* register, or -i for the i-th constant.  `asserts' becomes FALSE where a *)
(* lua_assert of the source would fail; a CASE without OTHER stands for a  *)
(* switch whose default is lua_assert(0).                                  *)
(***************************************************************************)
EXTENDS Integers, Sequences, FiniteSets, SequencesExt, TLC

CONSTANTS MaxIndexRK,      \* MAXINDEXRK
          FieldsPerFlush   \* LFIELDS_PER_FLUSH

NoReg == 255
NoJump == 0
MultRet == -1

X(f, e) == [f |-> f, e |-> e]
Exp(k, info) == [k |-> k, info |-> info, aux |-> 0, t |-> {}, f |-> {}]
HasMultRet(e) == e.k \in {"CALL", "VARARG"}
IsNumeral(e) == e.k = "KNUM" /\ e.t = {} /\ e.f = {}
HasJumps(e) == e.t # e.f
Require(f, cond) == [f EXCEPT !.asserts = @ /\ cond]

Pc(f) == Len(f.code) + 1
NActVar(f) == Len(f.actvar)
Latest(f) == f.code[Len(f.code)]
Code(x) == x.f.code[x.e.info]
SetArg(f, pc, arg, v) == [f EXCEPT !.code[pc][arg] = v]

(***************************************************************************)
(* Jumps.                                                                  *)
(***************************************************************************)

TestOps == {"EQ", "LT", "LE", "TEST", "TESTSET", "TFORLOOP"}

\* getjumpcontrol: the test before a jump, if there is one
JumpControl(f, pc) ==
  IF pc > 1 /\ f.code[pc - 1].op \in TestOps THEN pc - 1 ELSE pc

\* need_value: some jump of the list does not bring a value
NeedValue(f, list) == \E pc \in list : f.code[JumpControl(f, pc)].op # "TESTSET"

\* patchtestreg: where the value of a TESTSET goes; without a register, or
\* when it is there already, only the test is left
TestReg(i, reg) ==
  IF reg # NoReg /\ reg # i.b THEN [i EXCEPT !.a = reg]
  ELSE [op |-> "TEST", a |-> i.b, b |-> 0, c |-> i.c]

\* the places with the tests that bring the values of some jumps of a list
TestSets(f, list) ==
  {JumpControl(f, pc) : pc \in list} \cap {pc \in DOMAIN f.code : f.code[pc].op = "TESTSET"}

\* patchlistaux: jumps that bring a value go to vtarget, others to dtarget;
\* fixjump asserts that they go somewhere
PatchListAux(f, list, vtarget, reg, dtarget) ==
  LET Dest(pc) == IF NeedValue(f, {pc}) THEN dtarget ELSE vtarget
  IN Require([f EXCEPT !.code =
                [pc \in list |-> [@[pc] EXCEPT !.b = Dest(pc)]]
                @@ [pc \in TestSets(f, list) |-> TestReg(@[pc], reg)] @@ @],
             \A pc \in list : Dest(pc) # NoJump)

\* removevalues
RemoveValues(f, list) ==
  [f EXCEPT !.code = [pc \in TestSets(f, list) |-> TestReg(@[pc], NoReg)] @@ @]

\* the operands that an opcode does not have (OpArgN of luaP_opmodes)
BIsUnused == {"TFORLOOP", "CLOSE"}
CIsUnused ==
  {"MOVE", "LOADNIL", "GETUPVAL", "SETUPVAL", "UNM", "NOT", "LEN", "RETURN", "CLOSE", "VARARG"}

\* luaK_codeABC, luaK_codeABx and luaK_code, with dischargejpc: the jumps to
\* here have their destination now
Emit(f, op, a, b, c) ==
  Require([PatchListAux(f, f.jpc, Pc(f), NoReg, Pc(f))
             EXCEPT !.code = Append(@, [op |-> op, a |-> a, b |-> b, c |-> c]), !.jpc = {}],
          (op \in BIsUnused => b = 0) /\ (op \in CIsUnused => c = 0))

\* luaK_getlabel
Label(f) == [f EXCEPT !.lasttarget = Pc(f)]

\* luaK_patchtohere
PatchToHere(f, list) == [Label(f) EXCEPT !.jpc = @ \cup list]

\* luaK_patchlist
PatchList(f, list, target) ==
  IF target = Pc(f) THEN PatchToHere(f, list)
  ELSE PatchListAux(Require(f, target < Pc(f)), list, target, NoReg, target)

\* luaK_jump: jumps to this place are kept on hold and go where it goes.
\* The list of the new jump is in `jumps'.
Jump(f) ==
  [Emit([f EXCEPT !.jpc = {}], "JMP", 0, 0, 0)
     EXCEPT !.jumps = {Pc(f)} \cup f.jpc]

\* condjump
CondJump(f, op, a, b, c) == Jump(Emit(f, op, a, b, c))

\* luaK_ret
Ret(f, first, nret) == Emit(f, "RETURN", first, nret + 1, 0)

\* luaK_nil: joins the LOADNIL before it when no jump comes between
Nils(f, from, n) ==
  LET joined == IF f.code = <<>> THEN from >= NActVar(f)
                ELSE Latest(f).op = "LOADNIL" /\ Latest(f).a <= from /\ from <= Latest(f).b + 1
  IN IF Pc(f) <= f.lasttarget \/ ~joined
     THEN Emit(f, "LOADNIL", from, from + n - 1, 0)
     ELSE IF f.code # <<>> /\ from + n - 1 > Latest(f).b
          THEN SetArg(f, Len(f.code), "b", from + n - 1) ELSE f

(***************************************************************************)
(* Registers and constants.                                                *)
(***************************************************************************)

\* luaK_checkstack and luaK_reserveregs
CheckStack(f, n) ==
  [f EXCEPT !.maxstack = IF f.freereg + n > @ THEN f.freereg + n ELSE @]
ReserveRegs(f, n) == [CheckStack(f, n) EXCEPT !.freereg = @ + n]

\* freereg: registers are freed in the reverse order
FreeReg(f, reg) ==
  IF reg >= 0 /\ reg >= NActVar(f)
  THEN Require([f EXCEPT !.freereg = @ - 1], reg = f.freereg - 1)
  ELSE f

FreeExp(f, e) == IF e.k = "NONRELOC" THEN FreeReg(f, e.info) ELSE f

\* addk: the constant v of f.k, a new one if it is not there; that the one
\* found is v, which addk asserts, is how it is found here
IndexOfK(f, v) == IF \E i \in DOMAIN f.k : f.k[i] = v
                  THEN CHOOSE i \in DOMAIN f.k : f.k[i] = v ELSE Len(f.k) + 1
AddK(f, v) == IF \E i \in DOMAIN f.k : f.k[i] = v THEN f
              ELSE [f EXCEPT !.k = Append(@, v)]

\* luaK_stringK and luaK_numberK
ConstExp(f, v) == X(AddK(f, v), Exp("K", IndexOfK(f, v)))

(***************************************************************************)
(* From descriptors to registers.                                          *)
(***************************************************************************)

\* luaK_setreturns
SetReturns(x, n) ==
  CASE x.e.k = "CALL" -> SetArg(x.f, x.e.info, "c", n + 1)
    [] x.e.k = "VARARG" ->
         ReserveRegs(SetArg(SetArg(x.f, x.e.info, "b", n + 1),
                            x.e.info, "a", x.f.freereg), 1)

\* luaK_setoneret
SetOneRet(x) ==
  CASE x.e.k = "CALL" -> X(x.f, [x.e EXCEPT !.k = "NONRELOC", !.info = Code(x).a])
    [] x.e.k = "VARARG" -> X(SetArg(x.f, x.e.info, "b", 2),
                             [x.e EXCEPT !.k = "RELOCABLE"])
    [] OTHER -> x

\* luaK_dischargevars
Loaded(x, f, op, b, c) ==
  X(Emit(f, op, 0, b, c), [x.e EXCEPT !.k = "RELOCABLE", !.info = Pc(f)])
DischargeVars(x) ==
  CASE x.e.k = "LOCAL" -> X(x.f, [x.e EXCEPT !.k = "NONRELOC"])
    [] x.e.k = "UPVAL" -> Loaded(x, x.f, "GETUPVAL", x.e.info, 0)
    [] x.e.k = "GLOBAL" -> Loaded(x, x.f, "GETGLOBAL", x.e.info, 0)
    [] x.e.k = "INDEXED" -> Loaded(x, FreeReg(FreeReg(x.f, x.e.aux), x.e.info),
                                   "GETTABLE", x.e.info, x.e.aux)
    [] OTHER -> SetOneRet(x)

\* discharge2reg
ToReg(x, f, reg) ==
  CASE x.e.k = "NIL" -> Nils(f, reg, 1)
    [] x.e.k \in {"TRUE", "FALSE"} -> Emit(f, "LOADBOOL", reg, IF x.e.k = "TRUE" THEN 1 ELSE 0, 0)
    [] x.e.k = "K" -> Emit(f, "LOADK", reg, x.e.info, 0)
    [] x.e.k = "KNUM" -> Emit(AddK(f, x.e.info), "LOADK", reg, IndexOfK(f, x.e.info), 0)
    [] x.e.k = "RELOCABLE" -> SetArg(f, x.e.info, "a", reg)
    [] x.e.k = "NONRELOC" -> IF reg # x.e.info THEN Emit(f, "MOVE", reg, x.e.info, 0) ELSE f
DischargedToReg(x, reg) ==
  IF x.e.k \in {"VOID", "JMP"} THEN x
  ELSE X(ToReg(x, x.f, reg), [x.e EXCEPT !.k = "NONRELOC", !.info = reg])
Discharge2Reg(x, reg) == DischargedToReg(DischargeVars(x), reg)

\* discharge2anyreg
Discharge2AnyReg(x) ==
  IF x.e.k = "NONRELOC" THEN x
  ELSE Discharge2Reg(X(ReserveRegs(x.f, 1), x.e), x.f.freereg)

\* code_label, twice: false, which skips the next, and true; jumps around them
BoolLoads(f, reg) ==
  PatchToHere(Emit(Label(Emit(Label(f), "LOADBOOL", reg, 0, 1)), "LOADBOOL", reg, 1, 0), f.jumps)

\* the lists of an expression, with their values in reg: those that bring
\* none come from the loads at atfalse and attrue
PatchValues(f, t, fl, reg, atfalse, attrue) ==
  PatchListAux(PatchListAux(f, fl, Pc(f), reg, atfalse), t, Pc(f), reg, attrue)
WithBools(f, t, fl, reg) ==
  PatchValues(Label(BoolLoads(f, reg)), t, fl, reg, Pc(f), Pc(f) + 1)

\* exp2reg: the value of the expression and of all its jumps in one register
JumpsToReg(x, t, reg) ==
  CASE t = x.e.f -> x.f
    [] t # x.e.f /\ ~NeedValue(x.f, t \cup x.e.f) ->
         PatchValues(Label(x.f), t, x.e.f, reg, 0, 0)
    [] t # x.e.f /\ NeedValue(x.f, t \cup x.e.f) ->
         WithBools(IF x.e.k = "JMP" THEN [x.f EXCEPT !.jumps = {}] ELSE Jump(x.f), t, x.e.f, reg)
ValueToReg(x, reg) ==
  X(JumpsToReg(x, IF x.e.k = "JMP" THEN x.e.t \cup x.e.info ELSE x.e.t, reg),
    Exp("NONRELOC", reg))
Exp2Reg(x, reg) == ValueToReg(Discharge2Reg(x, reg), reg)

\* luaK_exp2nextreg
ToNextReg(f, e) == Exp2Reg(X(ReserveRegs(f, 1), e), f.freereg)
DischargedToNextReg(x) == ToNextReg(FreeExp(x.f, x.e), x.e)
Exp2NextReg(x) == DischargedToNextReg(DischargeVars(x))

\* luaK_exp2anyreg
DischargedToAnyReg(x) ==
  IF x.e.k = "NONRELOC" /\ ~HasJumps(x.e) THEN x
  ELSE IF x.e.k = "NONRELOC" /\ x.e.info >= NActVar(x.f)
       THEN Exp2Reg(x, x.e.info) ELSE Exp2NextReg(x)
Exp2AnyReg(x) == DischargedToAnyReg(DischargeVars(x))

\* luaK_exp2val
Exp2Val(x) == IF HasJumps(x.e) THEN Exp2AnyReg(x) ELSE DischargeVars(x)

Nil == <<"nil">>
Bool(b) == <<"b", b>>

\* luaK_exp2RK: a constant becomes an operand when its index has room
ConstOf(e) ==
  CASE e.k = "NIL" -> Nil
    [] e.k \in {"TRUE", "FALSE"} -> Bool(e.k = "TRUE")
    [] e.k = "KNUM" -> e.info
    [] OTHER -> <<>>
ValueToRK(x) ==
  IF ConstOf(x.e) # <<>> /\ Len(x.f.k) <= MaxIndexRK
  THEN X(AddK(x.f, ConstOf(x.e)), [x.e EXCEPT !.k = "K", !.info = IndexOfK(x.f, ConstOf(x.e))])
  ELSE IF x.e.k = "K" /\ x.e.info - 1 <= MaxIndexRK THEN x ELSE Exp2AnyReg(x)
Exp2RK(x) == ValueToRK(Exp2Val(x))
RK(e) == IF e.k = "K" THEN -e.info ELSE e.info

\* luaK_storevar
EmitFree(x, op, a, b, c) == FreeExp(Emit(x.f, op, a, b, c), x.e)
StoreToName(x, op, info) == EmitFree(x, op, x.e.info, info, 0)
StoreToTable(x, var) == EmitFree(x, "SETTABLE", var.info, var.aux, RK(x.e))
StoreVar(f, var, ex) ==
  CASE var.k = "LOCAL" -> Exp2Reg(X(FreeExp(f, ex), ex), var.info).f
    [] var.k \in {"UPVAL", "GLOBAL"} ->
         StoreToName(Exp2AnyReg(X(f, ex)), IF var.k = "UPVAL" THEN "SETUPVAL" ELSE "SETGLOBAL",
                     var.info)
    [] var.k = "INDEXED" -> StoreToTable(Exp2RK(X(f, ex)), var)

\* luaK_self: the function and the object in two registers
SelfCode(x, key, base, obj) == EmitFree(X(x.f, key), "SELF", base, obj, RK(key))
SelfWithKey(x, base, e) ==
  X(SelfCode(x, x.e, base, e.info), [e EXCEPT !.k = "NONRELOC", !.info = base])
SelfAt(f, e, key) == SelfWithKey(Exp2RK(X(ReserveRegs(f, 2), key)), f.freereg, e)
SelfOf(x, key) == SelfAt(FreeExp(x.f, x.e), x.e, key)
Self(x, key) == SelfOf(Exp2AnyReg(x), key)

(***************************************************************************)
(* Conditions.                                                             *)
(***************************************************************************)

\* invertjump: the comparison that a jump comes from, never a test of a value
InvertJump(x) ==
  LET pc == JumpControl(x.f, CHOOSE j \in x.e.info : \A i \in x.e.info : i <= j)
  IN SetArg(Require(x.f, x.f.code[pc].op \in TestOps \ {"TEST", "TESTSET"}),
            pc, "a", 1 - x.f.code[pc].a)

\* jumponcond: a jump that is taken when the value is cond.  A `not' before
\* it is dropped for the opposite jump.
JumpOnReg(x, cond) == CondJump(FreeExp(x.f, x.e), "TESTSET", NoReg, x.e.info, cond)
JumpOnCond(x, cond) ==
  IF x.e.k = "RELOCABLE" /\ Code(x).op = "NOT"
  THEN CondJump([x.f EXCEPT !.code = Front(@)], "TEST", Code(x).b, 0, 1 - cond)
  ELSE JumpOnReg(Discharge2AnyReg(x), cond)

\* luaK_goiftrue and luaK_goiffalse: go on when the value is the one, jump
\* when it is the other
AddFalse(f, e) == X(PatchToHere(f, e.t), [e EXCEPT !.f = @ \cup f.jumps, !.t = {}])
JumpIfFalse(x) ==
  CASE x.e.k \in {"K", "KNUM", "TRUE"} -> [x.f EXCEPT !.jumps = {}]
    [] x.e.k = "JMP" -> [InvertJump(x) EXCEPT !.jumps = x.e.info]
    [] OTHER -> JumpOnCond(x, 0)
DischargedIfTrue(x) == AddFalse(JumpIfFalse(x), x.e)
GoIfTrue(x) == DischargedIfTrue(DischargeVars(x))

AddTrue(f, e) == X(PatchToHere(f, e.f), [e EXCEPT !.t = @ \cup f.jumps, !.f = {}])
JumpIfTrue(x) ==
  CASE x.e.k \in {"NIL", "FALSE"} -> [x.f EXCEPT !.jumps = {}]
    [] x.e.k = "JMP" -> [x.f EXCEPT !.jumps = x.e.info]
    [] OTHER -> JumpOnCond(x, 1)
DischargedIfFalse(x) == AddTrue(JumpIfTrue(x), x.e)
GoIfFalse(x) == DischargedIfFalse(DischargeVars(x))

\* codenot: the lists change places, and their values are not needed
NotReg(f, reg, e) == Loaded(X(f, e), f, "NOT", reg, 0)
NotValue(x, y) ==
  CASE x.e.k \in {"NIL", "FALSE"} -> X(x.f, [x.e EXCEPT !.k = "TRUE"])
    [] x.e.k \in {"K", "KNUM", "TRUE"} -> X(x.f, [x.e EXCEPT !.k = "FALSE"])
    [] x.e.k = "JMP" -> X(InvertJump(x), x.e)
    [] x.e.k \in {"RELOCABLE", "NONRELOC"} -> NotReg(FreeExp(y.f, y.e), y.e.info, x.e)
Swapped(x) ==
  X(RemoveValues(x.f, x.e.t \cup x.e.f), [x.e EXCEPT !.t = x.e.f, !.f = x.e.t])
DischargedNot(x) == Swapped(NotValue(x, Discharge2AnyReg(x)))
CodeNot(x) == DischargedNot(DischargeVars(x))

\* luaK_indexed
IndexedBy(x, t) == X(x.f, [t EXCEPT !.k = "INDEXED", !.aux = RK(x.e)])
Indexed(f, t, k) == IndexedBy(Exp2RK(X(f, k)), t)

(***************************************************************************)
(* Operators.                                                              *)
(***************************************************************************)

ArithOps == {"ADD", "SUB", "MUL", "DIV", "MOD", "POW", "UNM"}
NaN == <<"nan">>
Abs(n) == IF n < 0 THEN -n ELSE n

\* the arithmetic of luai_num*, with integers for doubles: of the powers only
\* those of exponents from 0 on, of the quotients only whole numbers and 0 / 0
Arith(op, v, w) ==
  IF v = NaN \/ w = NaN THEN NaN
  ELSE CASE op = "ADD" -> <<"n", v[2] + w[2]>>
         [] op = "SUB" -> <<"n", v[2] - w[2]>>
         [] op = "MUL" -> <<"n", v[2] * w[2]>>
         [] op = "DIV" -> IF v[2] = 0 /\ w[2] = 0 THEN NaN
                          ELSE <<"n", CHOOSE q \in -Abs(v[2]) .. Abs(v[2]) : q * w[2] = v[2]>>
         [] op = "MOD" -> IF w[2] = 0 THEN NaN
                          ELSE IF w[2] > 0 THEN <<"n", v[2] % w[2]>>
                          ELSE <<"n", -((-v[2]) % (-w[2]))>>
         [] op = "POW" -> <<"n", v[2] ^ w[2]>>
         [] op = "UNM" -> <<"n", -v[2]>>

\* constfolding: never a division by 0, never a NaN
CanFold(op, e1, e2) ==
  /\ IsNumeral(e1) /\ IsNumeral(e2) /\ op \in ArithOps
  /\ op \in {"DIV", "MOD"} => e2.info[2] # 0
  /\ Arith(op, e1.info, e2.info) # NaN

\* a variant with a slip in it: the left operand is freed first
FreeLeftFirst(f, e1, e2) == FreeExp(FreeExp(f, e1), e2)

\* codearith: the operand in the higher register is freed first
FreeOperands(f, e1, e2) ==
  IF RK(e1) > RK(e2) THEN FreeExp(FreeExp(f, e1), e2) ELSE FreeExp(FreeExp(f, e2), e1)
ArithOn(x1, op, e2) ==
  Loaded(x1, FreeOperands(x1.f, x1.e, e2), op, RK(x1.e), RK(e2))
ArithWith(x2, op, e1) == ArithOn(Exp2RK(X(x2.f, e1)), op, x2.e)
ArithOf(f, op, e1, e2) ==
  ArithWith(IF op \in {"UNM", "LEN"} THEN X(f, Exp("K", 0)) ELSE Exp2RK(X(f, e2)), op, e1)
\* constfolding has no case for the other opcodes, and asserts that none comes
FoldAsserts(op, e1, e2) == IsNumeral(e1) /\ IsNumeral(e2) => op \in ArithOps \cup {"LEN"}
CodeArith(f, op, e1, e2) ==
  IF CanFold(op, e1, e2) THEN X(f, [e1 EXCEPT !.info = Arith(op, e1.info, e2.info)])
  ELSE ArithOf(Require(f, FoldAsserts(op, e1, e2)), op, e1, e2)

\* codecomp: > and >= are < and <= with the operands exchanged
CompJump(f, op, cond, e1, e2) ==
  IF cond = 0 /\ op # "EQ" THEN CondJump(f, op, 1, RK(e2), RK(e1))
  ELSE CondJump(f, op, cond, RK(e1), RK(e2))
JumpExp(f, e) == X(f, [e EXCEPT !.k = "JMP", !.info = f.jumps])
CompOn(x2, op, cond, e1) ==
  JumpExp(CompJump(FreeExp(FreeExp(x2.f, x2.e), e1), op, cond, e1, x2.e), e1)
CompWith(x1, op, cond, e2) == CompOn(Exp2RK(X(x1.f, e2)), op, cond, x1.e)
CodeComp(f, op, cond, e1, e2) == CompWith(Exp2RK(X(f, e1)), op, cond, e2)

Zero == <<"n", 0>>

\* luaK_prefix
PrefixArith(x, op) == CodeArith(x.f, op, x.e, Exp("KNUM", Zero))
Prefix(x, op) ==
  CASE op = "not" -> CodeNot(x)
    [] op = "-" -> PrefixArith(IF IsNumeral(x.e) THEN x ELSE Exp2AnyReg(x), "UNM")
    [] op = "#" -> PrefixArith(Exp2AnyReg(x), "LEN")

Arithmetical == {"+", "-", "*", "/", "%", "^"}

\* luaK_infix, after the first operand
Infix(x, op) ==
  CASE op = "and" -> GoIfTrue(x)
    [] op = "or" -> GoIfFalse(x)
    [] op = ".." -> Exp2NextReg(x)
    [] OTHER -> IF op \in Arithmetical /\ IsNumeral(x.e) THEN x ELSE Exp2RK(x)

OpcodeOf(op) ==
  CASE op = "+" -> "ADD" [] op = "-" -> "SUB" [] op = "*" -> "MUL" [] op = "/" -> "DIV"
    [] op = "%" -> "MOD" [] op = "^" -> "POW"
    [] op \in {"==", "~="} -> "EQ" [] op \in {"<", ">"} -> "LT" [] op \in {"<=", ">="} -> "LE"

\* luaK_posfix, after the second operand: more strings join a concatenation
AndThen(x, e1) == X(Require(x.f, e1.t = {}), [x.e EXCEPT !.f = @ \cup e1.f])
OrElse(x, e1) == X(Require(x.f, e1.f = {}), [x.e EXCEPT !.t = @ \cup e1.t])
ConcatArith(x, e1) == CodeArith(x.f, "CONCAT", e1, x.e)
ConcatWith(x, e1) ==
  IF x.e.k = "RELOCABLE" /\ Code(x).op = "CONCAT"
  THEN X(SetArg(FreeExp(Require(x.f, e1.info = Code(x).b - 1), e1), x.e.info, "b", e1.info),
         [e1 EXCEPT !.k = "RELOCABLE", !.info = x.e.info])
  ELSE ConcatArith(Exp2NextReg(x), e1)
Posfix(f, op, e1, e2) ==
  CASE op = "and" -> AndThen(DischargeVars(X(f, e2)), e1)
    [] op = "or" -> OrElse(DischargeVars(X(f, e2)), e1)
    [] op = ".." -> ConcatWith(Exp2Val(X(f, e2)), e1)
    [] op \in Arithmetical -> CodeArith(f, OpcodeOf(op), e1, e2)
    [] OTHER -> CodeComp(f, OpcodeOf(op), IF op \in {"==", "<", "<="} THEN 1 ELSE 0, e1, e2)

\* luaK_setlist, for a count of flushes that fits its operand
SetList(f, base, nelems, tostore) ==
  [Emit(Require(f, tostore # 0), "SETLIST", base, IF tostore = MultRet THEN 0 ELSE tostore,
        ((nelems - 1) \div FieldsPerFlush) + 1) EXCEPT !.freereg = base + 1]
=============================================================================
