------------------------------- MODULE Meaning -------------------------------
(***************************************************************************)
(* What a program means, by the constructs of the language and with        *)
(* nothing of the compiler: expressions evaluate to lists of values in an  *)
(* environment from names to cells.  It is what the compiled program,      *)
(* executed, is compared with.                                             *)
(*                                                                         *)
(* A state has the tables, the closures, the output and the status of a    *)
(* machine of Execute, and the cells of the variables.                     *)
(***************************************************************************)
EXTENDS Execute

RECURSIVE Means(_, _, _), Values(_, _, _), Apply(_, _, _), IndexBy(_, _, _), Run(_, _, _),
          StoreBy(_, _, _, _), Fields(_, _, _, _, _), LeftSides(_, _, _), StoreAll(_, _, _),
          Loop(_, _, _, _), UntilLoop(_, _, _, _), Clause(_, _, _, _), Counting(_, _, _, _),
          Iterating(_, _, _, _)

R(s, vals) == [s |-> s, v |-> vals]
One(r) == At(r.v, 1)
First(r) == R(r.s, <<At(r.v, 1)>>)
True(v) == ~IsFalse(v)
Str(name) == <<"s", <<name>>>>

\* new cells for names
Cells(env, n, names) ==
  [x \in ToSet(names) |->
     n + CHOOSE i \in DOMAIN names :
           names[i] = x /\ \A j \in DOMAIN names : names[j] = x => j <= i] @@ env
Bind(s, env, names, vals) ==
  [s |-> [s EXCEPT !.cells = @ \o Padded(vals, Len(names))],
   env |-> Cells(env, Len(s.cells), names)]

Body1(b, block) == Run(b.s, b.env, block)
Varargs(b, rest, block) == Body1(Bind(b.s, b.env, <<"...">>, <<rest>>), block)
Called(s, fn, args) ==
  Varargs(Bind(s, fn.env, fn.params, args), SubSeq(args, Len(fn.params) + 1, Len(args)), fn.block)
Results(r) == R(r.s, r.v)

Apply(s, f, args) ==
  IF s.status # "run" THEN R(s, <<>>)
  ELSE CASE f[1] = "f" -> Results(Called(s, s.fns[f[2]], args))
         [] f = <<"c", "out">> -> R([s EXCEPT !.log = Append(@, args)], args)
         [] f = <<"c", "setmetatable">> ->
              R([s EXCEPT !.tabs[args[1][2]].mt = args[2][2]], <<args[1]>>)
         [] f = <<"c", "setexceptmask">> -> R([s EXCEPT !.except = ToSet(args[1][2])], <<>>)
         [] OTHER -> IF Metamethod(s, f, "__call") = Nil THEN R(Fail(s), <<>>)
                     ELSE Apply(s, Metamethod(s, f, "__call"), <<f>> \o args)

IsTable(v) == v[1] = "t"
HasKey(s, t, key) == IsTable(t) /\ Has(s.tabs[t[2]], key)

\* the value, or what the handler h gives
IndexWithHandler(s, t, key, h) ==
  CASE HasKey(s, t, key) -> R(s, <<RawGet(s.tabs[t[2]], key)>>)
    [] ~HasKey(s, t, key) /\ h = Nil -> IF IsTable(t) THEN R(s, <<Nil>>) ELSE R(Fail(s), <<>>)
    [] OTHER -> IF Is(h, {"f"}) THEN Apply(s, h, <<t, key>>) ELSE IndexBy(s, h, key)
IndexBy(s, t, key) == IndexWithHandler(s, t, key, Metamethod(s, t, "__index"))

StoreWithHandler(s, t, key, v, h) ==
  CASE IsTable(t) /\ (h = Nil \/ HasKey(s, t, key)) ->
         IF key \in {Nil, NaN} THEN Fail(s) ELSE RawSet(s, t[2], key, v)
    [] ~IsTable(t) /\ h = Nil -> Fail(s)
    [] OTHER -> IF Is(h, {"f"}) THEN Apply(s, h, <<t, key, v>>).s ELSE StoreBy(s, h, key, v)
StoreBy(s, t, key, v) == StoreWithHandler(s, t, key, v, Metamethod(s, t, "__newindex"))

\* the handler of the left operand, or of the right one
Handled(s, v, w, h) == IF h = Nil THEN R(Fail(s), <<>>) ELSE Apply(s, h, <<v, w>>)
Either(s, v, w, event) ==
  Handled(s, v, w, IF Metamethod(s, v, event) # Nil THEN Metamethod(s, v, event)
                   ELSE Metamethod(s, w, event))

\* the handler the operands share
Shared(s, v, w, event) ==
  IF Metamethod(s, v, event) = Metamethod(s, w, event) THEN Metamethod(s, v, event) ELSE Nil

Truth(r, want) == R(r.s, <<Bool(True(One(r)) = want)>>)

Equal(s, v, w, want) ==
  IF v # w /\ IsTable(v) /\ IsTable(w) /\ Shared(s, v, w, "__eq") # Nil
  THEN Truth(Apply(s, Shared(s, v, w, "__eq"), <<v, w>>), want)
  ELSE R(s, <<Bool((v = w /\ v # NaN) = want)>>)

\* without a __le, v <= w is not (w < v)
Order(s, v, w, le, lt) ==
  CASE le # Nil -> Truth(Apply(s, le, <<v, w>>), TRUE)
    [] le = Nil /\ lt # Nil -> Truth(Apply(s, lt, <<w, v>>), FALSE)
    [] le = Nil /\ lt = Nil -> R(Fail(s), <<>>)
Ordered(s, v, w, orequal) ==
  CASE Is(v, Numbers) /\ Is(w, Numbers) ->
         R(s, <<Bool(Less(IF orequal THEN "LE" ELSE "LT", v, w))>>)
    [] v[1] # w[1] -> R(Fail(s), <<>>)
    [] v[1] = "s" /\ w[1] = "s" ->
         R(s, <<Bool(IF orequal THEN ~Before(w[2], v[2]) ELSE Before(v[2], w[2]))>>)
    [] OTHER -> Order(s, v, w, Shared(s, v, w, IF orequal THEN "__le" ELSE "__lt"),
                      IF orequal THEN Shared(s, v, w, "__lt") ELSE Nil)

\* arithmetic on numbers and on the numbers that strings are; a division that
\* the flags of the thread do not allow fails, "F" for any operands and "f"
\* for strings
Strings == {"s", "n", "nan"}
Forbidden(s, op, v, w) ==
  /\ op \in {"/", "%"}
  /\ \/ "F" \in s.except /\ (w = Zero \/ v = NaN \/ w = NaN)
     \/ /\ "f" \in s.except /\ (v[1] = "s" \/ w[1] = "s") /\ Nil \notin {AsNumber(v), AsNumber(w)}
        /\ AsNumber(w) = Zero \/ NaN \in {AsNumber(v), AsNumber(w)}
Calculated(s, op, v, w, n1, n2) ==
  CASE Forbidden(s, op, v, w) -> R(Fail(s), <<>>)
    [] ~Forbidden(s, op, v, w) /\ Nil \notin {n1, n2} -> R(s, <<Arith(OpcodeOf(op), n1, n2)>>)
    [] ~Forbidden(s, op, v, w) /\ Nil \in {n1, n2} -> Either(s, v, w, EventOf[OpcodeOf(op)])
Binary(s, op, v, w) ==
  CASE op \in Arithmetical ->
         Calculated(s, op, v, w, AsNumber(v), AsNumber(w))
    [] op = ".." ->
         IF Is(v, Strings) /\ Is(w, Strings)
         THEN R(s, <<<<"s", StringAtoms(v) \o StringAtoms(w)>>>>)
         ELSE Either(s, v, w, "__concat")
    [] op \in {"==", "~="} -> Equal(s, v, w, op = "==")
    [] op \in {"<", "<="} -> Ordered(s, v, w, op = "<=")
    [] op \in {">", ">="} -> Ordered(s, w, v, op = ">=")

UnaryOn(s, op, v) ==
  CASE op = "not" -> R(s, <<Bool(IsFalse(v))>>)
    [] op = "-" -> IF AsNumber(v) # Nil THEN R(s, <<Arith("UNM", AsNumber(v), v)>>)
                   ELSE Either(s, v, v, "__unm")
    [] op = "#" -> CASE IsTable(v) -> R(s, <<<<"n", Border(s.tabs[v[2]])>>>>)
                     [] v[1] = "s" -> R(s, <<<<"n", Len(v[2])>>>>)
                     [] OTHER -> R(Fail(s), <<>>)

\* a list of expressions: one value of each, all values of the last
MoreValues(head, env, exps) ==
  IF exps = <<>> THEN head
  ELSE LET rest == Values(head.s, env, exps) IN R(rest.s, <<One(head)>> \o rest.v)
Values(s, env, exps) ==
  IF exps = <<>> THEN R(s, <<>>) ELSE MoreValues(Means(s, env, exps[1]), env, Tail(exps))

\* the items of a constructor; n of them had no key
Numbered(s, t, n, vals) ==
  FoldLeft(LAMBDA st, i : RawSet(st, t, <<"n", n + i>>, vals[i]), s, [i \in DOMAIN vals |-> i])
Listed(r, t, n, islast) == Numbered(r.s, t, n, IF islast THEN r.v ELSE <<One(r)>>)
Keyed(r, t, key) == StoreBy(r.s, <<"t", t>>, key, One(r))
FieldValueOf(r, env, t, e) == Keyed(Means(r.s, env, e), t, One(r))
Fields(s, env, t, n, items) ==
  CASE items = <<>> -> s
    [] items # <<>> /\ items[1][1] = "field" ->
         Fields(FieldValueOf(Means(s, env, items[1][2]), env, t, items[1][3]),
                env, t, n, Tail(items))
    [] items # <<>> /\ items[1][1] = "item" ->
         Fields(Listed(Means(s, env, items[1][2]), t, n, Len(items) = 1),
                env, t, n + 1, Tail(items))
TableOf(s, env, items) ==
  R(Fields([s EXCEPT !.tabs = Append(@, Emptytable)], env, Len(s.tabs) + 1, 0, items),
    <<<<"t", Len(s.tabs) + 1>>>>)

ClosureOf(s, env, e) ==
  R([s EXCEPT !.fns = Append(@, [params |-> e[2], block |-> e[4], env |-> env])],
    <<<<"f", Len(s.fns) + 1>>>>)

\* each with the results so far
IndexOn(r, t) == IndexBy(r.s, t, One(r))
IndexedOn(r, env, key) == IndexOn(Means(r.s, env, key), One(r))
ApplyTo(r, f, first) == Apply(r.s, f, first \o r.v)
CalledOn(r, env, args, first) == ApplyTo(Values(r.s, env, args), One(r), first)
MethodOn(r, env, name, args) ==
  CalledOn(IndexBy(r.s, One(r), Str(name)), env, args, <<One(r)>>)
BinaryOn(r, op, v) == Binary(r.s, op, v, One(r))
OperatorOn(r, env, op, e) ==
  IF op \in {"and", "or"}
  THEN IF True(One(r)) = (op = "and") THEN Means(r.s, env, e) ELSE r
  ELSE BinaryOn(Means(r.s, env, e), op, One(r))

\* operators, from those that bind least to those that bind most, - and not
\* being between * and ^; .. and ^ group to the right
Levels == <<{"or"}, {"and"}, {"==", "~=", "<", "<=", ">", ">="}, {".."}, {"+", "-"}, {"*", "/", "%"},
            {}, {"^"}>>
Level(item) == CHOOSE n \in DOMAIN Levels : item[2] \in Levels[n]
BinaryIn(items) == {i \in 2 .. Len(items) : items[i][1] = "op" /\ items[i - 1][1] = "val"}
Loosest(items, places) ==
  {i \in places : \A j \in places : Level(items[i]) <= Level(items[j])}
Middle(items, places) ==
  CHOOSE i \in places : IF items[i][2] \in {"..", "^"} THEN \A j \in places : i <= j
                        ELSE \A j \in places : i >= j
UnaryOf(r, op) == First(UnaryOn(r.s, op, One(r)))
SplitAt(s, env, items, i) ==
  First(OperatorOn(Means(s, env, <<"ops", SubSeq(items, 1, i - 1)>>), env, items[i][2],
                   <<"ops", SubSeq(items, i + 1, Len(items))>>))
Split(s, env, items, places) ==
  CASE Len(items) = 1 -> First(Means(s, env, items[1][2]))
    [] Len(items) > 1 /\ items[1][1] = "op" /\ (\A i \in places : items[i][2] = "^") ->
         UnaryOf(Means(s, env, <<"ops", Tail(items)>>), items[1][2])
    [] OTHER -> SplitAt(s, env, items, Middle(items, Loosest(items, places)))

Value(s, env, e) ==
  IF s.status # "run" THEN R(s, <<>>)
  ELSE CASE e[1] = "nil" -> R(s, <<Nil>>)
         [] e[1] \in {"true", "false"} -> R(s, <<Bool(e[1] = "true")>>)
         [] e[1] = "num" -> R(s, <<<<"n", e[2]>>>>)
         [] e[1] = "str" -> R(s, <<<<"s", e[2]>>>>)
         [] e[1] = "..." -> R(s, s.cells[env["..."]])
         [] e[1] = "name" -> IF e[2] \in DOMAIN env THEN R(s, <<s.cells[env[e[2]]]>>)
                             ELSE First(IndexBy(s, Globals, Str(e[2])))
         [] e[1] = "paren" -> First(Means(s, env, e[2]))
         [] e[1] = "index" -> First(IndexedOn(Means(s, env, e[2]), env, e[3]))
         [] e[1] = "call" -> CalledOn(Means(s, env, e[2]), env, e[3], <<>>)
         [] e[1] = "method" -> MethodOn(Means(s, env, e[2]), env, e[3], e[4])
         [] e[1] = "function" -> ClosureOf(s, env, e)
         [] e[1] = "table" -> TableOf(s, env, e[2])
         [] e[1] = "ops" -> Split(s, env, e[2], BinaryIn(e[2]))

(***************************************************************************)
(* Statements.  A result has the way the block ended, "go", "break" or     *)
(* "return", and the environment at its end.                               *)
(***************************************************************************)

Res(s, env, c, vals) == [s |-> s, env |-> env, c |-> c, v |-> vals]
Go(s, env) == Res(s, env, "go", <<>>)

\* where the values of an assignment go
MoreSides(r, l) == R(r.s, <<l>> \o r.v)
TableSide(r, env, t, vars) == MoreSides(LeftSides(r.s, env, vars), <<"table", t, One(r)>>)
IndexSide(r, env, key, vars) == TableSide(Means(r.s, env, key), env, One(r), vars)
LeftSides(s, env, vars) ==
  CASE vars = <<>> -> R(s, <<>>)
    [] vars # <<>> /\ vars[1][1] = "index" ->
         IndexSide(Means(s, env, vars[1][2]), env, vars[1][3], Tail(vars))
    [] vars # <<>> /\ vars[1][1] = "name" ->
         MoreSides(LeftSides(s, env, Tail(vars)),
                   IF vars[1][2] \in DOMAIN env THEN <<"cell", env[vars[1][2]]>>
                   ELSE <<"table", Globals, Str(vars[1][2])>>)

StoreOne(s, l, v) ==
  IF l[1] = "cell" THEN [s EXCEPT !.cells[l[2]] = v] ELSE StoreBy(s, l[2], l[3], v)
StoreAll(s, left, vals) ==
  IF left = <<>> THEN s
  ELSE StoreAll(StoreOne(s, Last(left), At(vals, Len(left))), Front(left), vals)
Assigned(r, left) == StoreAll(r.s, left, r.v)
AssignedTo(r, env, exps) == Assigned(Values(r.s, env, exps), r.v)

\* how a loop ends that its body left
Ended(r, env) == Res(r.s, env, IF r.c = "return" THEN "return" ELSE "go", r.v)

LoopAgain(r, env, e, block) == IF r.c # "go" THEN Ended(r, env) ELSE Loop(r.s, env, e, block)
LoopIf(c, env, e, block) ==
  IF c.s.status # "run" \/ ~True(One(c)) THEN Go(c.s, env)
  ELSE LoopAgain(Run(c.s, env, block), env, e, block)
Loop(s, env, e, block) == LoopIf(Means(s, env, e), env, e, block)

LoopUnless(c, env, block, e) ==
  IF c.s.status # "run" \/ True(One(c)) THEN Go(c.s, env) ELSE UntilLoop(c.s, env, block, e)
UntilOn(r, env, block, e) ==
  IF r.c # "go" THEN Ended(r, env) ELSE LoopUnless(Means(r.s, r.env, e), env, block, e)
UntilLoop(s, env, block, e) == UntilOn(Run(s, env, block), env, block, e)

Scoped(r, env) == Res(r.s, env, r.c, r.v)
ClauseIf(c, env, clauses, else) ==
  IF True(One(c)) THEN Scoped(Run(c.s, env, clauses[1][2]), env)
  ELSE Clause(c.s, env, Tail(clauses), else)
Clause(s, env, clauses, else) ==
  CASE clauses # <<>> -> ClauseIf(Means(s, env, clauses[1][1]), env, clauses, else)
    [] clauses = <<>> -> IF else = <<>> THEN Go(s, env) ELSE Scoped(Run(s, env, else[1]), env)

\* loop is <<name, limit, step, block>>
Within(i, loop) ==
  IF Less("LT", Zero, loop[3]) THEN Less("LE", i, loop[2]) ELSE Less("LE", loop[2], i)
CountOn(r, env, i, loop) ==
  IF r.c # "go" THEN Ended(r, env) ELSE Counting(r.s, env, Arith("ADD", i, loop[3]), loop)
Counting(s, env, i, loop) ==
  IF s.status # "run" \/ ~Within(i, loop) THEN Go(s, env)
  ELSE CountOn(Body1(Bind(s, env, <<loop[1]>>, <<i>>), loop[4]), env, i, loop)
CountFrom(r, env, i, limit, step, name, block) ==
  IF Nil \in {i, limit, step} THEN Go(Fail(r.s), env)
  ELSE Counting(r.s, env, i, <<name, limit, step, block>>)
ForNumber(r, env, n, name, block) ==
  CountFrom(r, env, AsNumber(At(r.v, 1)), AsNumber(At(r.v, 2)),
            IF n = 3 THEN AsNumber(At(r.v, 3)) ELSE <<"n", 1>>, name, block)

\* loop is <<names, function, state, block>>
IterateOn(r, env, control, loop) ==
  IF r.c # "go" THEN Ended(r, env) ELSE Iterating(r.s, env, control, loop)
IterateIf(a, env, loop) ==
  IF a.s.status # "run" \/ One(a) = Nil THEN Go(a.s, env)
  ELSE IterateOn(Body1(Bind(a.s, env, loop[1], a.v), loop[4]), env, One(a), loop)
Iterating(s, env, control, loop) ==
  IterateIf(Apply(s, loop[2], <<loop[3], control>>), env, loop)
ForEach(r, env, names, block) ==
  Iterating(r.s, env, At(r.v, 3), <<names, At(r.v, 1), At(r.v, 2), block>>)

LocalsOf(b) == Go(b.s, b.env)
Locals(r, env, names) == LocalsOf(Bind(r.s, env, names, r.v))
OwnName(r, env) == Go([r.s EXCEPT !.cells[Len(r.s.cells)] = One(r)], env)
NamedFunction(b, e) == OwnName(ClosureOf(b.s, b.env, e), b.env)
WithSelfParam(e, needself) == IF needself THEN [e EXCEPT ![2] = <<"self">> \o @] ELSE e
Returned(r, env) == Res(r.s, env, "return", r.v)

Do(s, env, stat) ==
  CASE stat[1] = "local" -> Locals(Values(s, env, stat[3]), env, stat[2])
    [] stat[1] = "assign" -> Go(AssignedTo(LeftSides(s, env, stat[2]), env, stat[3]), env)
    [] stat[1] = "callstat" -> Go(Means(s, env, stat[2]).s, env)
    [] stat[1] = "do" -> Scoped(Run(s, env, stat[2]), env)
    [] stat[1] = "while" -> Loop(s, env, stat[2], stat[3])
    [] stat[1] = "repeat" -> UntilLoop(s, env, stat[2], stat[3])
    [] stat[1] = "if" -> Clause(s, env, stat[2], stat[3])
    [] stat[1] = "fornum" ->
         ForNumber(Values(s, env, stat[3]), env, Len(stat[3]), stat[2], stat[4])
    [] stat[1] = "forin" -> ForEach(Values(s, env, stat[3]), env, stat[2], stat[4])
    [] stat[1] = "funcstat" ->
         Go(AssignedTo(LeftSides(s, env, <<stat[2]>>), env,
                       <<WithSelfParam(stat[4], stat[3])>>), env)
    [] stat[1] = "localfunction" -> NamedFunction(Bind(s, env, <<stat[2]>>, <<Nil>>), stat[3])
    [] stat[1] = "return" -> Returned(Values(s, env, stat[2]), env)
    [] stat[1] = "break" -> Res(s, env, "break", <<>>)

StatementKinds == {"local", "assign", "callstat", "do", "while", "repeat", "if", "fornum",
                   "forin", "funcstat", "localfunction", "return", "break"}
Means(s, env, t) == IF t[1] \in StatementKinds THEN Do(s, env, t) ELSE Value(s, env, t)

RunOn(r, block) == IF r.c # "go" THEN r ELSE Run(r.s, r.env, block)
Run(s, env, block) ==
  IF block = <<>> \/ s.status # "run" THEN Go(s, env)
  ELSE RunOn(Means(s, env, block[1]), Tail(block))

\* a whole program: its output, with what it returns at the end
Outcome(r) ==
  [log |-> IF r.s.status = "run" THEN Append(r.s.log, r.v) ELSE r.s.log,
   status |-> IF r.s.status = "run" THEN "done" ELSE r.s.status]
Meaning(program) ==
  Outcome(Run([tabs |-> GlobalTables, fns |-> <<[params |-> <<>>]>>, log |-> <<>>,
               status |-> "run", except |-> {}, cells |-> <<<<>>>>], [x \in {"..."} |-> 1], program))
=============================================================================
