------------------------------ MODULE CheckCode ------------------------------
(***************************************************************************)
(* The check of compiled functions (luaG_checkcode of ldebug.c, with the   *)
(* modes of lopcodes.c), which close_func of the parser asserts.           *)
(***************************************************************************)
EXTENDS Codegen

(***************************************************************************)
(* The modes of the operands (luaP_opmodes).                               *)
(***************************************************************************)

Comparisons == {"EQ", "LT", "LE"}

\* a register, and a register or a constant
BIsReg == {"MOVE", "LOADNIL", "GETTABLE", "SELF", "UNM", "NOT", "LEN", "CONCAT", "TEST", "TESTSET"}
BIsRK == {"SETTABLE"} \cup (ArithOps \ {"UNM"}) \cup Comparisons
CIsReg == {"CONCAT"}
CIsRK == {"GETTABLE", "SELF"} \cup BIsRK
BIsConstant == {"LOADK", "GETGLOBAL", "SETGLOBAL"}
Jumps == {"JMP", "FORLOOP", "FORPREP"}

\* checkArgMode
IsReg(p, r) == r \in 0 .. p.maxstack - 1
IsRK(p, r) == IF r < 0 THEN -r \in DOMAIN p.k ELSE IsReg(p, r)
ArgModes(p, i) ==
  /\ i.op \in BIsReg => IsReg(p, i.b)
  /\ i.op \in BIsRK => IsRK(p, i.b)
  /\ i.op \in BIsUnused => i.b = 0
  /\ i.op \in BIsConstant => i.b \in DOMAIN p.k
  /\ i.op \in Jumps => i.b \in DOMAIN p.code
  /\ i.op \in CIsReg => IsReg(p, i.c)
  /\ i.op \in CIsRK => IsRK(p, i.c)
  /\ i.op \in CIsUnused => i.c = 0

\* luaG_checkopenop: what uses all values up to the top
OpenOp(i) == i.op \in {"CALL", "TAILCALL", "RETURN", "SETLIST"} /\ i.b = 0

\* symbexec, for one instruction and without a register to trace
ResultRegs(p, pc, i) ==
  IF i.c - 1 = MultRet THEN OpenOp(p.code[pc + 1]) ELSE i.c > 1 => IsReg(p, i.a + i.c - 2)
Registers(p, pc, i) ==
  CASE i.op = "SELF" -> IsReg(p, i.a + 1)
    [] i.op = "TFORLOOP" -> i.c >= 1 /\ IsReg(p, i.a + 2 + i.c)
    [] i.op \in {"FORLOOP", "FORPREP"} -> IsReg(p, i.a + 3)
    [] i.op \in {"CALL", "TAILCALL"} -> (i.b # 0 => IsReg(p, i.a + i.b - 1)) /\ ResultRegs(p, pc, i)
    [] i.op = "RETURN" -> i.b > 1 => IsReg(p, i.a + i.b - 2)
    [] i.op = "SETLIST" -> IsReg(p, i.a + i.b)
    [] i.op = "VARARG" ->
         /\ p.vararg
         /\ IF i.b = 0 THEN OpenOp(p.code[pc + 1]) ELSE i.b > 1 => IsReg(p, i.a + i.b - 2)
    [] OTHER -> TRUE
Others(p, pc, i) ==
  CASE i.op \in TestOps -> pc + 1 < Len(p.code) /\ p.code[pc + 1].op = "JMP"
    [] i.op = "LOADBOOL" -> i.c = 1 => pc + 1 < Len(p.code)
    [] i.op \in {"GETUPVAL", "SETUPVAL"} -> i.b \in DOMAIN p.upvalues
    [] i.op \in {"GETGLOBAL", "SETGLOBAL"} -> p.k[i.b][1] = "s"
    [] i.op = "CONCAT" -> i.b < i.c
    [] i.op = "CLOSURE" ->
         /\ i.b \in DOMAIN p.protos
         /\ pc + Len(p.protos[i.b].upvalues) < Len(p.code)
         /\ \A j \in DOMAIN p.protos[i.b].upvalues : p.code[pc + j].op \in {"GETUPVAL", "MOVE"}
    [] OTHER -> TRUE

\* precheck
PreCheck(p) ==
  /\ p.numparams <= p.maxstack
  /\ p.code # <<>> /\ Last(p.code).op = "RETURN"

\* luaG_checkcode
CodeChecks(p) ==
  /\ PreCheck(p)
  /\ \A pc \in DOMAIN p.code :
       /\ IsReg(p, p.code[pc].a)
       /\ ArgModes(p, p.code[pc])
       /\ Registers(p, pc, p.code[pc])
       /\ Others(p, pc, p.code[pc])
=============================================================================
