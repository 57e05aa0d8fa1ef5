----------------------------- MODULE MCPrograms -----------------------------
(***************************************************************************)
(* Programs for the compiler and the interpreter, as their syntax.  `out'  *)
(* is a global function that puts out its arguments.                       *)
(***************************************************************************)
EXTENDS Parser, Meaning

V(x) == <<"name", x>>
K(i) == <<"num", i>>
Q(s) == <<"str", <<s>>>>
W(chars) == <<"str", chars>>
True_ == <<"true">>
False_ == <<"false">>
Nil_ == <<"nil">>
Dots == <<"...">>
Paren(e) == <<"paren", e>>
At_(t, k) == <<"index", t, k>>
Dot(t, k) == At_(t, Q(k))
C(f, args) == <<"call", f, args>>
M(o, name, args) == <<"method", o, name, args>>
Val(e) == <<"val", e>>
Op_(op) == <<"op", op>>
B(op, a, b) == <<"ops", <<Val(a), Op_(op), Val(b)>>>>
U(op, a) == <<"ops", <<Op_(op), Val(a)>>>>
F(ps, block) == <<"function", ps, FALSE, block>>
FV(ps, block) == <<"function", ps, TRUE, block>>
T(items) == <<"table", items>>
It(e) == <<"item", e>>
Fd(k, e) == <<"field", k, e>>
L(names, exps) == <<"local", names, exps>>
A(vars, exps) == <<"assign", vars, exps>>
S(e) == <<"callstat", e>>
Return_(exps) == <<"return", exps>>
If_(e, b1, b2) == <<"if", <<<<e, b1>>>>, <<b2>>>>
LF(x, e) == <<"localfunction", x, e>>
FS(var, e) == <<"funcstat", var, FALSE, e>>
FM(var, e) == <<"funcstat", var, TRUE, e>>
Out(args) == S(C(V("out"), args))

Atom == [x |-> V("x"), y |-> V("y"), c |-> C(V("g"), <<>>), t |-> True_, n |-> K(2)]
Flat(i) ==
  <<L(<<"x", "y", "s">>, <<K(IF i = <<4, "^", "^", "">> THEN 2 ELSE 16), K(2), Q("a")>>),
    Out(<<<<"ops", CASE i[1] = 4 -> <<Val(V("x")), Op_(i[2])>> \o
                                     (IF i[4] = "" THEN <<>> ELSE <<Op_(i[4])>>) \o
                                     <<Val(K(4)), Op_(i[3]), Val(V("y"))>>
                     [] i[1] = 5 -> <<Val(V("s")), Op_(".."), Val(V("x")), Op_(i[2]),
                                      Val(V("y")), Op_(".."), Val(V("s"))>>
                     [] i[1] = 6 -> <<Op_(i[2]), Val(V("x")), Op_(i[3]), Val(K(4))>>>>>>)>>
Gen(i) ==
  LET a == Atom[i[4]]
      b == Atom[i[5]]
      c == Atom[i[6]]
      e == CASE i[1] = 1 -> B(i[2], B(i[3], a, b), c)
             [] i[1] = 2 -> B(i[2], a, B(i[3], b, c))
             [] i[1] = 3 -> B(i[2], U("not", B(i[3], a, b)), c)
  IN <<L(<<"x", "y">>, <<False_, K(1)>>),
       A(<<V("g")>>, <<F(<<>>, <<>>)>>),
       Out(<<e>>),
       L(<<"z">>, <<e>>),
       If_(e, <<Out(<<V("z")>>)>>, <<Out(<<K(7), V("z")>>)>>),
       <<"while", e, <<Out(<<K(4)>>), <<"break">>>>>>,
       A(<<V("z")>>, <<U("not", e)>>),
       Return_(<<B("==", e, V("z")), e>>)>>

Hand == <<
  \* closures over the variables of a loop, with a break out of it
  <<L(<<"t">>, <<T(<<>>)>>), <<"fornum", "i", <<K(1), K(3)>>, <<L(<<"j">>, <<B("*", V("i"),
    K(2))>>), A(<<At_(V("t"), V("i"))>>, <<F(<<>>, <<A(<<V("j")>>, <<B("+", V("j"), V("i"))>>),
    Return_(<<V("j")>>)>>)>>), <<"if", <<<<B("==", V("i"), K(2)), <<<<"break">>>>>>>>,
    <<>>>>>>>>, Out(<<C(At_(V("t"), K(1)), <<>>), C(At_(V("t"), K(1)), <<>>), C(At_(V("t"),
    K(2)), <<>>)>>), Return_(<<U("#", V("t"))>>)>>,
  \* a condition in the scope of the block it repeats
  <<L(<<"i", "f">>, <<K(0)>>), <<"repeat", <<L(<<"k">>, <<V("i")>>), A(<<V("f")>>, <<F(<<>>,
    <<A(<<V("k")>>, <<B("+", V("k"), K(10))>>), Return_(<<V("k")>>)>>)>>), A(<<V("i")>>,
    <<B("+", V("i"), K(1))>>)>>, B(">=", V("k"), K(1))>>, Out(<<C(V("f"), <<>>), V("i")>>),
    Return_(<<C(V("f"), <<>>)>>)>>,
  \* assignments that change what their other targets are indexed with
  <<L(<<"i", "t">>, <<K(1), T(<<>>)>>), A(<<V("i"), At_(V("t"), V("i"))>>, <<K(2), K(5)>>),
    L(<<"u">>, <<V("t")>>), A(<<Dot(V("t"), "x"), V("t")>>, <<K(3), T(<<>>)>>), A(<<Dot(V("t"),
    "x"), At_(V("u"), V("i")), V("i")>>, <<V("i"), Dot(V("u"), "x"), V("u")>>),
    Out(<<At_(V("i"), K(1)), At_(V("i"), K(2)), Dot(V("i"), "x"), Dot(V("t"), "x")>>), L(<<"a",
    "b">>, <<K(1), K(2)>>), A(<<V("a"), V("b")>>, <<V("b"), V("a")>>), Return_(<<V("a"),
    V("b")>>)>>,
  \* more and fewer values than targets
  <<LF("f", FV(<<>>, <<Return_(<<Dots>>)>>)), L(<<"a", "b", "c">>, <<C(V("f"), <<K(1),
    K(2)>>)>>), Out(<<V("a"), V("b"), V("c")>>), A(<<V("a"), V("b")>>, <<C(V("f"), <<>>),
    K(4)>>), Out(<<V("a"), V("b")>>), A(<<V("a"), V("b"), V("c")>>, <<K(1), C(V("f"), <<K(2),
    K(3)>>)>>), Out(<<V("a"), V("b"), V("c")>>), A(<<V("a"), V("b")>>, <<K(1), K(2), C(V("f"),
    <<K(3)>>)>>), A(<<V("a"), V("b"), V("c")>>, <<K(9)>>), Return_(<<V("a"), V("b"),
    V("c")>>)>>,
  \* varargs
  <<LF("f", FV(<<"x">>, <<L(<<"a", "b">>, <<Dots>>), L(<<"t">>, <<T(<<It(Dots), It(V("x")),
    It(Dots)>>)>>), Out(<<V("a"), V("b"), U("#", V("t")), Paren(Dots)>>), Return_(<<V("x"),
    Dots>>)>>)), Out(<<C(V("f"), <<K(1)>>)>>), Out(<<C(V("f"), <<K(1), K(2), K(3)>>),
    Paren(C(V("f"), <<K(4), K(5)>>))>>), Return_(<<C(V("f"), <<Dots>>)>>)>>,
  \* constructors with more items than a flush
  <<LF("f", F(<<>>, <<Return_(<<K(7), K(8)>>)>>)), L(<<"t">>, <<T(<<It(K(1)), It(K(2)),
    Fd(Q("x"), K(3)), It(K(4)), It(C(V("f"), <<>>)), Fd(Q("y"), C(V("f"), <<>>)), It(K(5)),
    It(K(6)), It(C(V("f"), <<>>))>>)>>), Out(<<U("#", V("t")), At_(V("t"), K(4)), At_(V("t"),
    K(5)), At_(V("t"), K(7)), At_(V("t"), K(8)), Dot(V("t"), "x"), Dot(V("t"), "y")>>),
    L(<<"u">>, <<T(<<It(C(V("f"), <<>>)), It(C(V("f"), <<>>)), It(C(V("f"), <<>>))>>)>>),
    Return_(<<U("#", V("u")), At_(V("u"), K(4)), T(<<It(T(<<>>)), It(T(<<>>))>>)>>)>>,
  \* methods
  <<L(<<"o">>, <<T(<<Fd(Q("n"), K(0))>>)>>), A(<<Dot(V("o"), "inc")>>, <<F(<<"self", "d">>,
    <<A(<<Dot(V("self"), "n")>>, <<B("+", Dot(V("self"), "n"), V("d"))>>), Return_(<<V("self"),
    V("d")>>)>>)>>), L(<<"a", "b">>, <<M(M(V("o"), "inc", <<K(2)>>), "inc", <<K(3)>>)>>),
    S(M(V("o"), "inc", <<K(1)>>)), Return_(<<Dot(V("o"), "n"), V("b"), B("==", V("a"),
    V("o"))>>)>>,
  \* metamethods of access
  <<L(<<"m">>, <<T(<<>>)>>), L(<<"t">>, <<C(V("setmetatable"), <<T(<<>>), V("m")>>)>>),
    A(<<Dot(V("m"), "__index")>>, <<F(<<"s", "k">>, <<Return_(<<V("k")>>)>>)>>),
    Out(<<Dot(V("t"), "a"), At_(V("t"), K(1))>>), A(<<Dot(V("m"), "__index")>>, <<T(<<Fd(Q("b"),
    K(2))>>)>>), Out(<<Dot(V("t"), "a"), Dot(V("t"), "b")>>), A(<<Dot(V("m"), "__newindex")>>,
    <<F(<<"s", "k", "v">>, <<Out(<<V("k"), V("v")>>)>>)>>), A(<<Dot(V("t"), "c")>>, <<K(3)>>),
    L(<<"u">>, <<T(<<>>)>>), A(<<Dot(V("m"), "__newindex")>>, <<V("u")>>), A(<<Dot(V("t"),
    "d")>>, <<K(4)>>), Return_(<<Dot(V("t"), "c"), Dot(V("u"), "d"), Dot(V("t"), "d")>>)>>,
  \* metamethods of operators
  <<L(<<"m">>, <<T(<<Fd(Q("__add"), F(<<"a", "b">>, <<Return_(<<Q("add"), K(1)>>)>>)),
    Fd(Q("__unm"), F(<<"a">>, <<Return_(<<Q("unm")>>)>>)), Fd(Q("__concat"), F(<<"a", "b">>,
    <<Return_(<<Q("cat")>>)>>)), Fd(Q("__call"), F(<<"s", "a", "b">>, <<Return_(<<V("a"),
    V("b")>>)>>))>>)>>), L(<<"t">>, <<C(V("setmetatable"), <<T(<<>>), V("m")>>)>>), Out(<<B("+",
    V("t"), K(1)), B("+", K(1), V("t")), U("-", V("t")), B("..", V("t"), Q("a")), B("..",
    Q("a"), B("..", K(1), B("..", V("t"), B("..", Q("b"), K(2)))))>>), Return_(<<C(V("t"),
    <<K(3), K(4)>>)>>)>>,
  \* metamethods of comparisons
  <<L(<<"m">>, <<T(<<Fd(Q("__eq"), F(<<>>, <<Return_(<<K(1)>>)>>)), Fd(Q("__lt"), F(<<>>,
    <<Return_(<<False_>>)>>))>>)>>), L(<<"a", "b">>, <<C(V("setmetatable"), <<T(<<>>),
    V("m")>>), C(V("setmetatable"), <<T(<<>>), V("m")>>)>>), Out(<<B("==", V("a"), V("b")),
    B("~=", V("a"), V("b")), B("<", V("a"), V("b")), B("<=", V("a"), V("b")), B(">", V("a"),
    V("b"))>>), <<"if", <<<<U("not", Paren(B("<", V("a"), V("b")))), <<Out(<<K(1)>>)>>>>>>,
    <<>>>>, A(<<Dot(V("m"), "__le")>>, <<F(<<>>, <<Return_(<<Nil_>>)>>)>>), <<"if", <<<<B(">=",
    V("a"), V("b")), <<Out(<<K(2)>>)>>>>>>, <<>>>>, <<"while", B("==", V("a"), V("b")),
    <<<<"break">>>>>>, Return_(<<B("<=", V("a"), V("b")), B("==", V("a"), V("a"))>>)>>,
  \* generic for
  <<LF("iter", F(<<"s", "c">>, <<<<"if", <<<<B("<", V("c"), V("s")), <<Return_(<<B("+", V("c"),
    K(1)), B("*", V("c"), K(2))>>)>>>>>>, <<>>>>>>)), L(<<"fs">>, <<T(<<>>)>>), <<"forin",
    <<"i", "v">>, <<V("iter"), K(3), K(0)>>, <<A(<<At_(V("fs"), V("i"))>>, <<F(<<>>,
    <<Return_(<<B("+", V("i"), V("v"))>>)>>)>>), Out(<<V("i"), V("v")>>), <<"if", <<<<B("==",
    V("v"), K(4)), <<<<"break">>>>>>>>, <<>>>>>>>>, <<"forin", <<"i">>, <<V("iter"), K(1),
    K(0)>>, <<Out(<<V("i"), C(At_(V("fs"), B("+", V("i"), K(1))), <<>>)>>)>>>>,
    Return_(<<C(At_(V("fs"), K(3)), <<>>)>>)>>,
  \* recursion and tail calls
  <<LF("fact", F(<<"n">>, <<<<"if", <<<<B("<=", V("n"), K(1)), <<Return_(<<K(1)>>)>>>>>>,
    <<>>>>, Return_(<<B("*", V("n"), C(V("fact"), <<B("-", V("n"), K(1))>>))>>)>>)), LF("loop",
    F(<<"n", "a">>, <<<<"if", <<<<B("==", V("n"), K(0)), <<Return_(<<V("a"), V("n")>>)>>>>>>,
    <<>>>>, Return_(<<C(V("loop"), <<B("-", V("n"), K(1)), B("+", V("a"), V("n"))>>)>>)>>)),
    A(<<V("g")>>, <<F(<<"f">>, <<Return_(<<C(V("out"), <<C(V("f"), <<K(3)>>)>>)>>)>>)>>),
    Out(<<C(V("loop"), <<K(3), K(0)>>)>>), Return_(<<Paren(C(V("g"), <<V("fact")>>))>>)>>,
  \* upvalues of upvalues, and a variable of the same name in a block
  <<L(<<"x">>, <<K(1)>>), LF("f", F(<<>>, <<L(<<"y">>, <<K(10)>>), Return_(<<F(<<>>,
    <<A(<<V("x")>>, <<B("+", V("x"), K(1))>>), A(<<V("y")>>, <<B("+", V("y"), V("x"))>>),
    L(<<"x">>, <<V("y")>>), Return_(<<V("x")>>)>>)>>)>>)), L(<<"g">>, <<C(V("f"), <<>>)>>),
    <<"do", <<L(<<"x">>, <<K(5)>>), Out(<<C(V("g"), <<>>), V("x")>>)>>>>, Return_(<<C(V("g"),
    <<>>), V("x")>>)>>,
  \* numeric loops
  <<<<"fornum", "i", <<K(3), K(1), U("-", K(1))>>, <<Out(<<V("i")>>)>>>>, <<"fornum", "i",
    <<K(1), K(0)>>, <<Out(<<K(9)>>)>>>>, <<"fornum", "i", <<K(1), K(5), K(2)>>, <<L(<<"i">>,
    <<B("+", V("i"), K(1))>>), Out(<<V("i")>>)>>>>, L(<<"n">>, <<K(0)>>), <<"fornum", "i",
    <<K(1), K(2)>>, <<<<"fornum", "j", <<K(1), K(2)>>, <<A(<<V("n")>>, <<B("+", V("n"), B("*",
    V("i"), V("j")))>>), <<"if", <<<<B("==", V("j"), V("i")), <<<<"break">>>>>>>>,
    <<>>>>>>>>>>>>, Return_(<<V("n")>>)>>,
  \* blocks that close their variables and are left by a break
  <<L(<<"f">>, <<>>), <<"while", True_, <<L(<<"a">>, <<K(1)>>), <<"do", <<L(<<"b">>, <<K(2)>>),
    A(<<V("f")>>, <<F(<<>>, <<A(<<V("a")>>, <<B("+", V("a"), V("b"))>>),
    Return_(<<V("a")>>)>>)>>), <<"if", <<<<V("b"), <<<<"break">>>>>>>>, <<>>>>>>>>>>>>,
    Out(<<C(V("f"), <<>>), C(V("f"), <<>>)>>), Return_(<<C(V("f"), <<>>)>>)>>,
  \* constants that are folded, and those that are not
  <<L(<<"x">>, <<K(4)>>), Out(<<B("+", B("*", K(2), K(3)), V("x")), U("-", K(2)), B("-", B("%",
    K(7), K(4)), K(1)), U("-", Paren(U("-", V("x")))), B("*", U("-", V("x")), K(2)), B("%",
    K(5), V("x"))>>), L(<<"n">>, <<B("%", K(1), K(0))>>), Return_(<<B("==", V("n"), V("n")),
    B("<", V("n"), K(1)), U("not", Paren(B("<", V("n"), K(1)))), B("~=", V("n"), V("n")),
    B("==", B("%", K(1), K(0)), B("%", K(1), K(0)))>>)>>,
  \* nils that are joined
  <<L(<<"a">>, <<>>), L(<<"b", "c">>, <<>>), <<"do", <<L(<<"d">>, <<>>), L(<<"e">>, <<>>),
    Out(<<V("d"), V("e")>>)>>>>, <<"fornum", "i", <<K(1), K(2)>>, <<L(<<"x">>, <<>>), L(<<"y">>,
    <<>>), Out(<<V("x"), V("y")>>), A(<<V("x")>>, <<V("i")>>), A(<<V("y")>>, <<V("i")>>)>>>>,
    L(<<"d">>, <<>>), <<"while", U("not", V("d")), <<L(<<"e">>, <<>>), A(<<V("d")>>, <<K(1)>>),
    A(<<V("e")>>, <<V("d")>>)>>>>, Return_(<<V("a"), V("b"), V("c"), V("d")>>)>>,
  \* strings
  <<L(<<"s">>, <<B("..", Q("a"), Q("b"))>>), A(<<V("s")>>, <<B("..", V("s"), B("..", K(1),
    B("..", V("s"), B("..", Paren(B("+", K(2), K(3))), Q("c")))))>>), Out(<<V("s"), U("#",
    V("s")), B("==", V("s"), W(<<"a", "b">>)), U("#", Q("x")), B("==", B("..", Q("a"), Q("b")),
    W(<<"a", "b">>)), B("==", B("..", K(1), K(-20)), W(<<"1", "-", "2", "0">>))>>), Return_(<<V("s")>>)>>,
  \* chains of conditions
  <<<<"fornum", "i", <<K(1), K(4)>>, <<<<"if", <<<<B("==", V("i"), K(1)), <<Out(<<Q("a")>>)>>>>,
    <<B("and", B("==", V("i"), K(2)), V("i")), <<Out(<<Q("b")>>)>>>>, <<B("==", V("i"), K(3)),
    <<>>>>>>, <<<<Out(<<Q("d")>>)>>>>>>>>>>, L(<<"i">>, <<K(0)>>), <<"while", B("and", B("<",
    V("i"), K(3)), U("not", Paren(B("==", V("i"), K(2))))), <<A(<<V("i")>>, <<B("+", V("i"),
    K(1))>>)>>>>, <<"repeat", <<A(<<V("i")>>, <<B("-", V("i"), K(1))>>)>>, B("or", B("<",
    V("i"), K(1)), B("==", V("i"), K(5)))>>, Return_(<<B("or", B("and", B("==", V("i"), K(0)),
    Q("zero")), Q("other")), B("or", B(">", V("i"), K(0)), B(">=", V("i"), K(0)))>>)>>,
  \* globals and constants beyond the reach of an operand
  <<A(<<V("a")>>, <<K(1)>>), A(<<V("b")>>, <<K(2)>>), A(<<V("c")>>, <<B("+", V("a"), K(3))>>),
    A(<<V("d")>>, <<T(<<Fd(Q("k"), V("c")), Fd(K(4), K(5))>>)>>), A(<<Dot(V("d"), "k")>>,
    <<B("+", Dot(V("d"), "k"), K(6))>>), A(<<At_(V("d"), V("c"))>>, <<Q("v")>>), Out(<<V("a"),
    V("b"), V("c"), Dot(V("d"), "k"), At_(V("d"), K(4))>>), A(<<V("h")>>, <<F(<<>>,
    <<Return_(<<B("==", V("c"), K(4)), B("==", Q("s"), At_(V("d"), K(4))), B("<", V("a"),
    K(9))>>)>>)>>), Return_(<<C(V("h"), <<>>)>>)>>,
  \* operands in registers
  <<LF("f", F(<<"a", "b", "c">>, <<Return_(<<B("-", V("a"), B("*", V("b"), V("c"))), B("*",
    Paren(B("+", V("a"), V("b"))), Paren(B("-", V("c"), V("a")))), B("..", V("a"), B("..",
    V("b"), V("c"))), U("-", Paren(B("+", V("a"), V("b"))))>>)>>)), L(<<"t">>, <<T(<<Fd(Q("x"),
    T(<<Fd(Q("y"), T(<<Fd(Q("z"), K(3))>>))>>))>>)>>), A(<<Dot(Dot(Dot(V("t"), "x"), "y"), "z"),
    Dot(Dot(V("t"), "x"), "w")>>, <<B("*", Dot(Dot(Dot(V("t"), "x"), "y"), "z"), K(2)),
    Dot(V("t"), "x")>>), Out(<<Dot(Dot(Dot(Dot(V("t"), "x"), "w"), "y"), "z"), C(V("f"), <<K(1),
    K(2), K(3)>>)>>), Return_(<<B("==", U("not", Dot(V("t"), "x")), Nil_), U("not", U("not",
    V("t")))>>)>>,
  \* strings that are compared, with a character 0 in some
  <<L(<<"z", "az">>, <<W(<<"NUL">>), W(<<"a", "NUL">>)>>), Out(<<B("<", Q("a"), Q("b")), B("<=",
    W(<<"a", "b">>), Q("a")), B("<", W(<<"1", "0">>), Q("9")), B(">", B("..", K(2), Q("a")),
    B("..", K(10), Q("a"))), B(">=", W(<<>>), V("z")), B("<", V("az"), Q("a")), B("<=", Q("a"),
    V("az"))>>), <<"if", <<<<B("<", B("..", V("az"), Q("c")), B("..", V("az"), Q("b"))),
    <<Out(<<K(1)>>)>>>>, <<B(">=", V("z"), B("..", V("z"), V("z"))), <<Out(<<K(2)>>)>>>>, <<B("<",
    B("..", V("az"), Q("b")), B("..", V("az"), Q("c"))), <<Out(<<K(3)>>)>>>>>>, <<>>>>,
    Return_(<<B("<=", B("..", V("az"), Q("b")), B("..", V("az"), Q("b"))), B("<", V("z"),
    V("z"))>>)>>,
  \* strings that are numbers
  <<Out(<<B("+", Q("1"), K(2)), B("*", B("..", K(1), K(2)), W(<<"-", "3">>)), U("-", W(<<" ", "5",
    " ">>)), B("/", Q("8"), Q("2")), B("%", W(<<"1", "7">>), K(4)), B("-", W(<<"5", "NUL", "x">>),
    K(1)), B("==", Q("1"), K(1))>>), <<"fornum", "i", <<Q("3"), W(<<" ", "1">>), W(<<"-", "1">>)>>,
    <<Out(<<V("i"), B("^", V("i"), Q("2"))>>)>>>>, L(<<"n">>, <<B("..", B("%", K(1), K(0)),
    W(<<>>))>>), Return_(<<B("==", B("+", V("n"), K(1)), B("+", V("n"), K(1)))>>)>>,
  \* divisions
  <<L(<<"x", "y">>, <<K(16), K(4)>>), Out(<<B("/", V("x"), V("y")), B("/", B("/", K(16), K(4)),
    K(2)), B("/", K(16), Paren(B("/", K(4), K(2)))), B("*", B("/", V("x"), V("y")), K(2)), U("-",
    Paren(B("/", V("x"), U("-", K(2)))))>>), L(<<"n">>, <<B("/", K(0), K(0))>>), Return_(<<B("==",
    V("n"), V("n"))>>)>>,
  \* flags of divisions: of strings, of all operands, and neither
  <<L(<<"s">>, <<V("setexceptmask")>>), S(C(V("s"), <<Q("f")>>)), Out(<<B("==", B("%", K(1), K(0)),
    K(1)), B("/", Q("6"), Q("3"))>>), S(C(V("s"), <<W(<<"f", "F">>)>>)), Out(<<B("/", K(6), V("y")),
    K(1)>>)>>,
  <<S(C(V("setexceptmask"), <<Q("f")>>)), Out(<<B("%", Q("6"), K(4))>>), Out(<<B("/", Q("6"),
    K(0))>>)>>,
  <<S(C(V("setexceptmask"), <<Q("F")>>)), L(<<"x">>, <<B("/", K(0), K(3))>>), Out(<<V("x"), B("%",
    Q("6"), Q("4"))>>), S(C(V("setexceptmask"), <<W(<<>>)>>)), Out(<<B("==", B("%", K(1), K(0)),
    K(0))>>), S(C(V("setexceptmask"), <<Q("F")>>)), Return_(<<B("%", K(1), V("x"))>>)>>,
  <<L(<<"t">>, <<C(V("setmetatable"), <<T(<<>>), T(<<Fd(Q("__div"), F(<<"a", "b">>,
    <<Return_(<<V("b")>>)>>))>>)>>)>>), Out(<<B("/", V("t"), K(0)), B("/", V("t"), Q("0"))>>),
    S(C(V("setexceptmask"), <<Q("F")>>)), Out(<<B("/", V("t"), K(1)), B("/", V("t"), Q("0")), B("/",
    Q("a"), V("t"))>>), Return_(<<B("/", V("t"), K(0))>>)>>,
  \* functions that are given names
  <<L(<<"t">>, <<T(<<Fd(Q("u"), T(<<>>))>>)>>), FS(Dot(Dot(V("t"), "u"), "f"), F(<<"a">>,
    <<Return_(<<B("+", V("a"), K(1))>>)>>)), FM(Dot(Dot(V("t"), "u"), "m"), FV(<<"a">>,
    <<L(<<"b">>, <<Dots>>), FS(V("b"), F(<<>>, <<Return_(<<B("==", V("self"), Dot(V("t"), "u")),
    V("a")>>)>>)), Return_(<<C(Dot(V("self"), "f"), <<V("a")>>), V("b"), Dots>>)>>)), FS(V("g"),
    F(<<"n">>, <<FS(V("t"), F(<<>>, <<Return_(<<V("n")>>)>>)), Return_(<<C(V("t"), <<>>)>>)>>)),
    L(<<"a", "b", "c">>, <<M(Dot(V("t"), "u"), "m", <<K(3), K(4)>>)>>), Out(<<V("a"), C(V("b"),
    <<>>)>>), Return_(<<V("c"), C(V("g"), <<K(5)>>), C(V("t"), <<>>)>>)>>,
  <<FM(Dot(V("t"), "m"), F(<<>>, <<>>))>>,
  \* what fails
  <<Out(<<K(1)>>), L(<<"t">>, <<T(<<>>)>>), Out(<<Dot(Dot(V("t"), "x"), "y")>>)>>,
  <<LF("f", F(<<>>, <<Return_(<<B("+", Nil_, K(1))>>)>>)), Out(<<K(2)>>), Return_(<<C(V("f"),
    <<>>)>>)>>,
  <<Out(<<B("<", K(1), Q("a"))>>)>>,
  <<L(<<"a">>, <<K(1)>>), A(<<Dot(V("a"), "x")>>, <<K(2)>>)>>,
  <<L(<<"t">>, <<T(<<>>)>>), A(<<At_(V("t"), Nil_)>>, <<K(1)>>)>>,
  <<<<"fornum", "i", <<K(1), Q("x")>>, <<Out(<<V("i")>>)>>>>>>,
  <<Return_(<<B("..", K(1), T(<<>>))>>)>>,
  <<A(<<V("x")>>, <<Nil_>>), S(C(V("x"), <<>>))>>,
  <<Return_(<<U("#", Nil_)>>)>>,
  <<Return_(<<B("+", K(1), W(<<"-">>))>>)>>,
  <<Return_(<<B("*", W(<<"1", " ", "2">>), K(1))>>)>>,
  <<Return_(<<U("-", W(<<" ">>))>>)>>,
  <<<<"fornum", "i", <<K(1), K(2), W(<<>>)>>, <<Out(<<V("i")>>)>>>>>>,
  <<L(<<"t">>, <<C(V("setmetatable"), <<T(<<>>), T(<<Fd(Q("__lt"), K(1))>>)>>)>>),
    Return_(<<B("<=", V("t"), T(<<>>))>>)>>,
  <<Return_(<<B("<", T(<<>>), T(<<>>))>>)>>,
  <<Return_(<<U("-", T(<<>>))>>)>>,
  <<L(<<"t">>, <<T(<<>>)>>), A(<<At_(V("t"), B("%", K(1), K(0)))>>, <<K(1)>>)>>
>>
GenIndex == {<<sh, o, p, a, b, c>> : sh \in 1 .. 3, o \in {"and", "or"}, p \in {"and", "or", "=="},
              a \in {"x", "y"}, b \in {"c", "t"}, c \in {"x", "n"}}
FlatOps == {"or", "and", "==", "<", "+", "*", "/", "^"}
FlatIndex == {<<4, o, p, u>> : o \in FlatOps, p \in FlatOps, u \in {"", "not"}}
  \cup {<<5, o>> : o \in FlatOps \cup {".."}}
  \cup {<<6, u, o>> : u \in {"-", "not"}, o \in FlatOps \ {"<"}}
HandIndex == {<<i>> : i \in DOMAIN Hand}
MCPrograms == [i \in GenIndex \cup FlatIndex \cup HandIndex |->
  CASE Len(i) = 1 -> Hand[i[1]] [] Len(i) \in 2 .. 4 -> Flat(i) [] OTHER -> Gen(i)]

MCCompiled == [i \in DOMAIN MCPrograms |-> Compile(MCPrograms[i])]
MCMeant == [i \in DOMAIN MCPrograms |-> Meaning(MCPrograms[i])]
=============================================================================
