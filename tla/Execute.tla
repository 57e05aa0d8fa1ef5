------------------------------- MODULE Execute -------------------------------
(***************************************************************************)
(* The interpreter of elune (lvm.c, and of lfunc.c its upvalues) running   *)
(* compiled programs, one instruction a step.                              *)
(*                                                                         *)
(* A machine `m' has the frames, each with registers of its own; upvalues, *)
(* open ones of which name a register of a frame; closures; tables with    *)
(* their metatables, the first table being that of the globals; and what   *)
(* the program put out.  `ret' of a frame is what the instruction that     *)
(* called it does with the results; metamethods are called that way too.   *)
(* A string is the sequence of its characters, but the name of a variable  *)
(* or of a field is one of them; strings have no metatable.                *)
(***************************************************************************)
EXTENDS Codegen, TLC

VARIABLE m

ProtoAt(main, path) == FoldLeft(LAMBDA p, i : p.protos[i], main, path)
Frame == m.frames[Len(m.frames)]
ProtoOf(fr) == ProtoAt(m.main, m.fns[fr.fn].path)
Instr == ProtoOf(Frame).code[Frame.pc]

Is(v, kinds) == v[1] \in kinds
IsFalse(v) == v \in {Nil, Bool(FALSE)}
At(seq, i) == IF i \in DOMAIN seq THEN seq[i] ELSE Nil
Padded(vals, n) == [i \in 1 .. n |-> At(vals, i)]

NewFrame(fn, p, args, ret) ==
  [fn |-> fn, pc |-> 1, ret |-> ret, top |-> 0,
   regs |-> [r \in 1 .. p.maxstack |-> IF r <= p.numparams THEN At(args, r) ELSE Nil],
   va |-> IF p.vararg THEN SubSeq(args, p.numparams + 1, Len(args)) ELSE <<>>]

Emptytable == [map |-> <<>>, mt |-> 0]
GlobalNames == {"out", "setmetatable", "setexceptmask"}
GlobalTables ==
  <<[map |-> [k \in {<<"s", <<g>>>> : g \in GlobalNames} |-> <<"c", k[2][1]>>], mt |-> 0]>>

InitMachine(main) ==
  [main |-> main, status |-> "run", log |-> <<>>, upv |-> <<>>, except |-> {},
   fns |-> <<[path |-> <<>>, up |-> <<>>]>>,
   tabs |-> GlobalTables,
   frames |-> <<NewFrame(1, main, <<>>, [k |-> "halt"])>>]

(***************************************************************************)
(* Registers and tables.                                                   *)
(***************************************************************************)

Reg(r) == Frame.regs[r + 1]
RKValue(r) == IF r < 0 THEN ProtoOf(Frame).k[-r] ELSE Reg(r)
InFrame(s, fr) == [s EXCEPT !.frames[Len(s.frames)] = fr]
TopOf(s) == s.frames[Len(s.frames)]
SetRegs(s, a, vals) ==
  InFrame(s, [TopOf(s) EXCEPT
    !.regs = [r \in DOMAIN @ |-> IF r - a \in DOMAIN vals THEN vals[r - a] ELSE @[r]]])
Skip(s, n) == [s EXCEPT !.frames[Len(s.frames)].pc = @ + n]
GoTo(s, pc) == [s EXCEPT !.frames[Len(s.frames)].pc = pc]
Fail(s) == [s EXCEPT !.status = "error"]

Has(t, key) == key \in DOMAIN t.map
RawGet(t, key) == IF Has(t, key) THEN t.map[key] ELSE Nil
RawSet(s, t, key, v) ==
  [s EXCEPT !.tabs[t].map =
     IF v = Nil THEN [k \in DOMAIN @ \ {key} |-> @[k]]
     ELSE (key :> v) @@ @]
\* luaH_getn, for tables without holes
Border(t) == CHOOSE n \in 0 .. Cardinality(DOMAIN t.map) :
               /\ ~Has(t, <<"n", n + 1>>)
               /\ \A i \in 1 .. n : Has(t, <<"n", i>>)

\* luaT_gettmbyobj and fasttm
Metamethod(s, v, event) ==
  IF v[1] = "t" /\ s.tabs[v[2]].mt # 0
  THEN RawGet(s.tabs[s.tabs[v[2]].mt], <<"s", <<event>>>>) ELSE Nil

(***************************************************************************)
(* Strings and numbers.                                                    *)
(***************************************************************************)

\* the characters that are compared and converted, in the order of their bytes
Digits == <<"0", "1", "2", "3", "4", "5", "6", "7", "8", "9">>
Characters == <<"NUL", " ", "-">> \o Digits \o <<"a", "b", "c", "x">>
PlaceIn(seq, ch) == CHOOSE i \in DOMAIN seq : seq[i] = ch
Before(a, b) ==
  \E i \in 1 .. Len(b) :
    /\ \A j \in 1 .. i - 1 : j <= Len(a) /\ a[j] = b[j]
    /\ i <= Len(a) => PlaceIn(Characters, a[i]) < PlaceIn(Characters, b[i])

\* lua_number2str, for whole numbers
Decimal[n \in Nat] ==
  IF n < 10 THEN <<Digits[n + 1]>> ELSE Append(Decimal[n \div 10], Digits[(n % 10) + 1])
StringAtoms(v) ==
  CASE v[1] = "s" -> v[2]
    [] v = NaN -> <<"nan">>
    [] v[1] = "n" -> (IF v[2] < 0 THEN <<"-">> ELSE <<>>) \o Decimal[Abs(v[2])]

\* luaV_tonumber and luaO_str2d: of what strtod reads, "nan" and the numerals of
\* a sign and digits, with spaces around them; what comes after a '\0' does not count.
\* Nil is the NULL of the code.
UpToNul(s) == IF Contains(s, "NUL") THEN SubSeq(s, 1, PlaceIn(s, "NUL") - 1) ELSE s
Unsigned(s) == IF s # <<>> /\ Head(s) = "-" THEN Tail(s) ELSE s
Trimmed(s) ==
  LET ink == {i \in DOMAIN s : s[i] # " "}
  IN IF ink = {} THEN <<>> ELSE SubSeq(s, Min(ink), Max(ink))
Natural(ds) == FoldLeft(LAMBDA n, d : 10 * n + PlaceIn(Digits, d) - 1, 0, ds)
NumberIn(s) ==
  CASE Unsigned(s) = <<"nan">> -> NaN
    [] Unsigned(s) # <<>> /\ ToSet(Unsigned(s)) \subseteq ToSet(Digits) ->
         <<"n", (IF Head(s) = "-" THEN -1 ELSE 1) * Natural(Unsigned(s))>>
    [] OTHER -> Nil
Numbers == {"n", "nan"}
AsNumber(v) ==
  CASE Is(v, Numbers) -> v
    [] v[1] = "s" -> NumberIn(Trimmed(UpToNul(v[2])))
    [] OTHER -> Nil

(***************************************************************************)
(* Calls.                                                                  *)
(***************************************************************************)

RECURSIVE Concat(_, _, _, _), GetTable(_, _, _, _), SetTable(_, _, _, _),
          CallValue(_, _, _, _), LStrcmp(_, _)

Operands(s, b, last) == [i \in 1 .. last - b + 1 |-> TopOf(s).regs[b + i]]

\* what the instruction that made the call does with the results
Deliver(s, ret, vals) ==
  CASE ret.k = "call" /\ ret.want >= 0 -> SetRegs(s, ret.a, Padded(vals, ret.want))
    [] ret.k = "call" /\ ret.want = MultRet ->
         LET fr == TopOf(s)
             size == IF Len(fr.regs) > ret.a + Len(vals) THEN Len(fr.regs) ELSE ret.a + Len(vals)
         IN InFrame(s, [fr EXCEPT
              !.top = ret.a + Len(vals),
              !.regs = [r \in 1 .. size |-> IF r <= ret.a THEN @[r] ELSE At(vals, r - ret.a)]])
    [] ret.k = "value" -> SetRegs(s, ret.a, <<At(vals, 1)>>)
    [] ret.k = "test" ->
         IF ~IsFalse(At(vals, 1)) = ret.cond THEN GoTo(s, ret.jump) ELSE Skip(s, 1)
    [] ret.k = "for" ->
         LET s1 == SetRegs(s, ret.a + 3, Padded(vals, ret.n))
         IN IF At(vals, 1) = Nil THEN Skip(s1, 1)
            ELSE GoTo(SetRegs(s1, ret.a + 2, <<vals[1]>>), ret.jump)
    [] ret.k = "concat" ->
         Concat(SetRegs(s, ret.last - 1, <<At(vals, 1)>>), ret.a, ret.b, ret.last - 1)
    [] ret.k = "drop" -> s
    [] ret.k = "halt" -> [s EXCEPT !.status = "done", !.log = Append(@, vals)]

\* luaD_precall, for Lua functions, functions of C and, by tryfuncTM, values
\* with a __call
CallValue(s, f, args, ret) ==
  CASE f[1] = "f" ->
         LET p == ProtoAt(s.main, s.fns[f[2]].path)
         IN [s EXCEPT !.frames = Append(@, NewFrame(f[2], p, args, ret))]
    [] f = <<"c", "out">> -> Deliver([s EXCEPT !.log = Append(@, args)], ret, args)
    [] f = <<"c", "setmetatable">> ->
         Deliver([s EXCEPT !.tabs[args[1][2]].mt = args[2][2]], ret, <<args[1]>>)
    [] f = <<"c", "setexceptmask">> ->
         Deliver([s EXCEPT !.except = ToSet(args[1][2])], ret, <<>>)
    [] OTHER -> LET tm == Metamethod(s, f, "__call")
                IN IF Is(tm, {"f", "c"}) THEN CallValue(s, tm, <<f>> \o args, ret) ELSE Fail(s)

\* luaV_gettable
GetTable(s, t, key, a) ==
  LET tm == Metamethod(s, t, "__index")
      raw == t[1] = "t" /\ (Has(s.tabs[t[2]], key) \/ tm = Nil)
  IN IF raw THEN SetRegs(s, a, <<RawGet(s.tabs[t[2]], key)>>)
     ELSE IF tm = Nil THEN Fail(s)
     ELSE IF Is(tm, {"f", "c"}) THEN CallValue(s, tm, <<t, key>>, [k |-> "value", a |-> a])
     ELSE GetTable(s, tm, key, a)

\* luaV_settable, and the keys that luaH_set refuses
SetTable(s, t, key, v) ==
  LET tm == Metamethod(s, t, "__newindex")
      raw == t[1] = "t" /\ (Has(s.tabs[t[2]], key) \/ tm = Nil)
  IN IF t[1] = "t" /\ key \in {Nil, NaN} THEN Fail(s)
     ELSE IF raw THEN RawSet(s, t[2], key, v)
     ELSE IF tm = Nil THEN Fail(s)
     ELSE IF Is(tm, {"f", "c"}) THEN CallValue(s, tm, <<t, key, v>>, [k |-> "drop"])
     ELSE SetTable(s, tm, key, v)

\* call_binTM: the metamethod of the first operand, or of the second
BinaryTM(s, v, w, event, ret) ==
  LET tm == IF Metamethod(s, v, event) # Nil THEN Metamethod(s, v, event)
            ELSE Metamethod(s, w, event)
  IN IF tm = Nil THEN Fail(s) ELSE CallValue(s, tm, <<v, w>>, ret)

\* luaV_concat: from the right, as many strings at once as there are
Concat(s, a, b, last) ==
  LET vals == Operands(s, b, last)
      n == Len(vals)
      strings == {i \in 1 .. n : \A j \in i .. n : Is(vals[j], {"s", "n", "nan"})}
      from == CHOOSE i \in strings : \A j \in strings : i <= j
      joined == <<"s", FoldLeft(LAMBDA acc, v : acc \o StringAtoms(v), <<>>,
                                SubSeq(vals, from, n))>>
  IN IF n = 1 THEN SetRegs(s, a, vals)
     ELSE IF n - 1 \notin strings
     THEN BinaryTM(s, vals[n - 1], vals[n], "__concat",
                   [k |-> "concat", a |-> a, b |-> b, last |-> last])
     ELSE Concat(SetRegs(s, b + from - 1, <<joined>>), a, b, b + from - 1)

(***************************************************************************)
(* Instructions.                                                           *)
(***************************************************************************)

Op(ops) == m.status = "run" /\ Instr.op \in ops
Put(s) == m' = Skip(SetRegs(m, Instr.a, <<s>>), 1)

Load ==
  \/ Op({"MOVE"}) /\ Put(Reg(Instr.b))
  \/ Op({"LOADK"}) /\ Put(ProtoOf(Frame).k[Instr.b])
  \/ Op({"LOADBOOL"}) /\ m' = Skip(SetRegs(m, Instr.a, <<Bool(Instr.b = 1)>>), 1 + Instr.c)
  \/ Op({"LOADNIL"}) /\ m' = Skip(SetRegs(m, Instr.a, Padded(<<>>, Instr.b - Instr.a + 1)), 1)

UpvalueOf(b) == m.upv[m.fns[Frame.fn].up[b]]

Upvalue ==
  \/ /\ Op({"GETUPVAL"})
     /\ LET u == UpvalueOf(Instr.b)
        IN Put(IF u.fr = 0 THEN u.v ELSE m.frames[u.fr].regs[u.reg + 1])
  \/ /\ Op({"SETUPVAL"})
     /\ LET u == UpvalueOf(Instr.b)
            s == IF u.fr = 0
                 THEN [m EXCEPT !.upv[m.fns[Frame.fn].up[Instr.b]].v = Reg(Instr.a)]
                 ELSE [m EXCEPT !.frames[u.fr].regs[u.reg + 1] = Reg(Instr.a)]
        IN m' = Skip(s, 1)

Globals == <<"t", 1>>

TableAccess ==
  \/ Op({"GETGLOBAL"}) /\ m' = GetTable(Skip(m, 1), Globals, ProtoOf(Frame).k[Instr.b], Instr.a)
  \/ /\ Op({"SETGLOBAL"})
     /\ m' = SetTable(Skip(m, 1), Globals, ProtoOf(Frame).k[Instr.b], Reg(Instr.a))
  \/ Op({"GETTABLE"}) /\ m' = GetTable(Skip(m, 1), Reg(Instr.b), RKValue(Instr.c), Instr.a)
  \/ Op({"SETTABLE"}) /\ m' = SetTable(Skip(m, 1), Reg(Instr.a), RKValue(Instr.b), RKValue(Instr.c))
  \/ /\ Op({"SELF"})
     /\ m' = GetTable(SetRegs(Skip(m, 1), Instr.a + 1, <<Reg(Instr.b)>>),
                      Reg(Instr.b), RKValue(Instr.c), Instr.a)
  \/ /\ Op({"NEWTABLE"})
     /\ LET s == [m EXCEPT !.tabs = Append(@, Emptytable)]
        IN m' = Skip(SetRegs(s, Instr.a, <<<<"t", Len(s.tabs)>>>>), 1)

\* OP_SETLIST
SetListItems ==
  /\ Op({"SETLIST"})
  /\ LET n == IF Instr.b = 0 THEN Frame.top - Instr.a - 1 ELSE Instr.b
         first == (Instr.c - 1) * FieldsPerFlush
     IN m' = Skip(FoldLeft(LAMBDA s, i : RawSet(s, Reg(Instr.a)[2], <<"n", first + i>>,
                                                Reg(Instr.a + i)),
                           m, [i \in 1 .. n |-> i]), 1)

EventOf == [ADD |-> "__add", SUB |-> "__sub", MUL |-> "__mul", DIV |-> "__div",
            MOD |-> "__mod", POW |-> "__pow", UNM |-> "__unm"]

\* checkfp, for numbers without the infinities
FPException(s, flag, v, w) == flag \in s.except /\ (w = Zero \/ NaN \in {v, w})

\* arith_op and Arith.  The strict check is made of the operands whatever they
\* are: it takes the bits of a pointer for a very small number, and those that
\* a nil or a boolean leaves unwritten may be any.
Checks(op) == op \in {"DIV", "MOD"}
Unwritten(v, w) == Is(v, {"nil", "b"}) \/ Is(w, {"nil", "b"})
Computed(s, i, v, w) ==
  LET nb == AsNumber(v)
      nc == AsNumber(w)
      coerced == ~(Is(v, Numbers) /\ Is(w, Numbers))
  IN IF nb = Nil \/ nc = Nil
     THEN BinaryTM(Skip(s, 1), v, w, EventOf[i.op], [k |-> "value", a |-> i.a])
     ELSE IF coerced /\ Checks(i.op) /\ FPException(s, "f", nb, nc) THEN Fail(s)
     ELSE Skip(SetRegs(s, i.a, <<Arith(i.op, nb, nc)>>), 1)
Arithmetic ==
  /\ Op(ArithOps)
  /\ LET v == RKValue(Instr.b)
         w == IF Instr.op = "UNM" THEN v ELSE RKValue(Instr.c)
         strict == Checks(Instr.op) /\ "F" \in m.except
     IN \/ /\ ~(Checks(Instr.op) /\ FPException(m, "F", v, w))
           /\ m' = Computed(m, Instr, v, w)
        \/ /\ strict /\ (FPException(m, "F", v, w) \/ Unwritten(v, w))
           /\ m' = Fail(m)

Unary ==
  \/ Op({"NOT"}) /\ Put(Bool(IsFalse(Reg(Instr.b))))
  \/ /\ Op({"LEN"})
     /\ LET v == Reg(Instr.b)
        IN CASE v[1] = "t" -> Put(<<"n", Border(m.tabs[v[2]])>>)
             [] v[1] = "s" -> Put(<<"n", Len(v[2])>>)
             [] OTHER -> m' = Fail(m)

Concatenate == Op({"CONCAT"}) /\ m' = Concat(Skip(m, 1), Instr.a, Instr.b, Instr.c)

\* dojump of the jump after a test
JumpAfter == ProtoOf(Frame).code[Frame.pc + 1].b

\* the result of a test: the jump behind it is taken, or skipped
Tested(s, taken) == IF taken THEN GoTo(s, JumpAfter) ELSE Skip(s, 2)

\* luaV_lessthan and lessequal of numbers
Less(op, v, w) ==
  /\ v # NaN /\ w # NaN
  /\ IF op = "LT" THEN v[2] < w[2] ELSE v[2] <= w[2]

\* l_strcmp: strcoll of the parts up to the next '\0', which in the C locale
\* compares their bytes
Strcoll(a, b) == IF a = b THEN 0 ELSE IF Before(a, b) THEN -1 ELSE 1
LStrcmp(l, r) ==
  LET len == Len(UpToNul(l))
      temp == Strcoll(UpToNul(l), UpToNul(r))
  IN IF temp # 0 THEN temp
     ELSE IF len = Len(r) THEN (IF len = Len(l) THEN 0 ELSE 1)
     ELSE IF len = Len(l) THEN -1
     ELSE LStrcmp(SubSeq(l, len + 2, Len(l)), SubSeq(r, len + 2, Len(r)))
LessString(op, v, w) ==
  IF op = "LT" THEN LStrcmp(v[2], w[2]) < 0 ELSE LStrcmp(v[2], w[2]) <= 0

\* get_compTM and call_orderTM: both operands have the same metamethod
SameTM(v, w, event) ==
  IF Metamethod(m, v, event) = Metamethod(m, w, event) THEN Metamethod(m, v, event) ELSE Nil

Compare ==
  /\ Op({"EQ", "LT", "LE"})
  /\ LET v == RKValue(Instr.b)
         w == RKValue(Instr.c)
         cond == Instr.a = 1
         s == Skip(m, 1)
         Later(want) == [k |-> "test", cond |-> want, jump |-> JumpAfter]
         eq == SameTM(v, w, "__eq")
         order == SameTM(v, w, IF Instr.op = "LT" THEN "__lt" ELSE "__le")
         lt == SameTM(v, w, "__lt")
     IN m' = IF Instr.op = "EQ"
             THEN IF v # w /\ v[1] = "t" /\ w[1] = "t" /\ eq # Nil
                  THEN CallValue(s, eq, <<v, w>>, Later(cond))
                  ELSE Tested(m, (v = w /\ v # NaN) = cond)
             ELSE IF Is(v, Numbers) /\ Is(w, Numbers) THEN Tested(m, Less(Instr.op, v, w) = cond)
             ELSE IF v[1] # w[1] THEN Fail(m)
             ELSE IF v[1] = "s" THEN Tested(m, LessString(Instr.op, v, w) = cond)
             ELSE IF order # Nil THEN CallValue(s, order, <<v, w>>, Later(cond))
             ELSE IF Instr.op = "LE" /\ lt # Nil
                  THEN CallValue(s, lt, <<w, v>>, Later(~cond)) ELSE Fail(m)

Branch ==
  \/ Op({"JMP"}) /\ m' = GoTo(m, Instr.b)
  \/ Op({"TEST"}) /\ m' = Tested(m, IsFalse(Reg(Instr.a)) # (Instr.c = 1))
  \/ /\ Op({"TESTSET"})
     /\ LET taken == IsFalse(Reg(Instr.b)) # (Instr.c = 1)
        IN m' = Tested(IF taken THEN SetRegs(m, Instr.a, <<Reg(Instr.b)>>) ELSE m, taken)

Given(n) == [i \in 1 .. n |-> Reg(Instr.a + i)]
NArgs == IF Instr.b = 0 THEN Frame.top - Instr.a - 1 ELSE Instr.b - 1

\* luaF_close: the upvalues of the registers from a on get values of their own
Close(s, a) ==
  [s EXCEPT !.upv = [u \in DOMAIN @ |->
     IF @[u].fr = Len(s.frames) /\ @[u].reg >= a
     THEN [fr |-> 0, reg |-> 0, v |-> TopOf(s).regs[@[u].reg + 1]] ELSE @[u]]]

Pop(s) == [s EXCEPT !.frames = Front(@)]

CallOp ==
  /\ Op({"CALL"})
  /\ m' = CallValue(Skip(m, 1), Reg(Instr.a), Given(NArgs),
                    [k |-> "call", a |-> Instr.a, want |-> Instr.c - 1])

\* OP_TAILCALL: a Lua function takes the place of the frame
TailCall ==
  /\ Op({"TAILCALL"})
  /\ LET f == Reg(Instr.a)
     IN m' = IF f[1] = "f"
             THEN CallValue(Pop(Close(m, 0)), f, Given(NArgs), Frame.ret)
             ELSE CallValue(Skip(m, 1), f, Given(NArgs),
                            [k |-> "call", a |-> Instr.a, want |-> MultRet])

ReturnOp ==
  /\ Op({"RETURN"})
  /\ LET n == IF Instr.b = 0 THEN Frame.top - Instr.a ELSE Instr.b - 1
         vals == [i \in 1 .. n |-> Reg(Instr.a + i - 1)]
     IN m' = Deliver(Pop(Close(m, 0)), Frame.ret, vals)

ForLoop ==
  \/ /\ Op({"FORPREP"})
     /\ LET a == Instr.a
            loop == [i \in 1 .. 3 |-> AsNumber(Reg(a + i - 1))]
        IN m' = IF Contains(loop, Nil) THEN Fail(m)
                ELSE GoTo(SetRegs(m, a, [loop EXCEPT ![1] = Arith("SUB", @, loop[3])]), Instr.b)
  \/ /\ Op({"FORLOOP"})
     /\ LET a == Instr.a
            step == Reg(a + 2)
            idx == Arith("ADD", Reg(a), step)
            on == IF Less("LT", Zero, step) THEN Less("LE", idx, Reg(a + 1))
                  ELSE Less("LE", Reg(a + 1), idx)
        IN m' = IF on THEN GoTo(SetRegs(SetRegs(m, a, <<idx>>), a + 3, <<idx>>), Instr.b)
                ELSE Skip(m, 1)
  \/ /\ Op({"TFORLOOP"})
     /\ m' = CallValue(Skip(m, 1), Reg(Instr.a), <<Reg(Instr.a + 1), Reg(Instr.a + 2)>>,
                       [k |-> "for", a |-> Instr.a, n |-> Instr.c, jump |-> JumpAfter])

\* luaF_findupval: two closures over one variable share its upvalue
OpenUpval(reg) == {u \in DOMAIN m.upv : m.upv[u].fr = Len(m.frames) /\ m.upv[u].reg = reg}
FreshUpval(reg) == [fr |-> Len(m.frames), reg |-> reg, v |-> Nil]

ClosureOp ==
  \/ Op({"CLOSE"}) /\ m' = Skip(Close(m, Instr.a), 1)
  \/ /\ Op({"CLOSURE"})
     /\ LET n == Len(ProtoOf(Frame).protos[Instr.b].upvalues)
            Pseudo(j) == ProtoOf(Frame).code[Frame.pc + j]
            missing == {Pseudo(j).b : j \in {i \in 1 .. n : Pseudo(i).op = "MOVE"}}
            new == SetToSeq({r \in missing : OpenUpval(r) = {}})
            At2(r) == IF OpenUpval(r) # {} THEN CHOOSE u \in OpenUpval(r) : TRUE
                      ELSE Len(m.upv) + (CHOOSE i \in DOMAIN new : new[i] = r)
            up == [j \in 1 .. n |-> IF Pseudo(j).op = "MOVE" THEN At2(Pseudo(j).b)
                                    ELSE m.fns[Frame.fn].up[Pseudo(j).b]]
            s == [m EXCEPT !.upv = @ \o [i \in DOMAIN new |-> FreshUpval(new[i])],
                           !.fns = Append(@, [path |-> Append(m.fns[Frame.fn].path, Instr.b),
                                              up |-> up])]
        IN m' = Skip(SetRegs(s, Instr.a, <<<<"f", Len(s.fns)>>>>), 1 + n)
  \/ /\ Op({"VARARG"})
     /\ m' = Deliver(Skip(m, 1), [k |-> "call", a |-> Instr.a, want |-> Instr.b - 1], Frame.va)

Step ==
  \/ Load \/ Upvalue \/ TableAccess \/ SetListItems \/ Arithmetic \/ Unary \/ Concatenate
  \/ Compare \/ Branch \/ CallOp \/ TailCall \/ ReturnOp \/ ForLoop \/ ClosureOp

=============================================================================
