------------------------------ MODULE MCRuntime ------------------------------
(* Instances of the parts of the runtime for TLC. *)
EXTENDS Runtime, MCPrograms

\* tables: the hash of an integer is that of its bits as a double; "a" and "b"
\* collide with integers in small nodes
MCHash ==
  <<"n", 1>> :> 1072693248 @@ <<"n", 2>> :> 1073741824 @@ <<"n", 3>> :> 1074266112 @@
  <<"n", 4>> :> 1074790400 @@ <<"n", 5>> :> 1075052544 @@ <<"s", "a">> :> 1 @@ <<"s", "b">> :> 3
MCInputs == [k \in Keys |-> IF IsInt(k) THEN {k[2]} ELSE {7}]

\* orders that sort, orders that do not, and one by which 1, 2 < 3 and 1 is neither
MCOrders ==
  LET pairs == (0 .. 3) \X (0 .. 3)
  IN [less |-> {p \in pairs : 0 < p[1] /\ p[1] < p[2]},
      more |-> {p \in pairs : p[1] > p[2] /\ p[2] > 0},
      weak |-> {<<1, 3>>, <<2, 3>>},
      leq |-> {p \in pairs : 0 < p[1] /\ p[1] <= p[2]},
      always |-> pairs,
      cycle |-> {<<1, 2>>, <<2, 3>>, <<3, 1>>}]
MCSortLists == UNION {[1 .. n -> 1 .. 3] : n \in 0 .. 7}

\* declarations of API functions: one argument or one result of every type,
\* optional or not, and some with more
Decl(t) ==
  [type |-> t, nilable |-> FALSE, default |-> NilValue, permissive |-> FALSE, stub |-> NilValue]
DeclN(t) == [Decl(t) EXCEPT !.nilable = TRUE]
DeclD(t, v) == [Decl(t) EXCEPT !.default = v]
Sig(ins, instride, outs, outstride, maynothing, impl) ==
  [ins |-> ins, instride |-> instride, outs |-> outs, outstride |-> outstride,
   maynothing |-> maynothing, impl |-> impl, usage |-> "no", manual |-> FALSE,
   unchecked |-> FALSE, stubs |-> Len(outs)]
BothWays ==
  {<<t>> : t \in {"number", "enum", "string", "fileasset", "boolean", "unknown", "function",
                  "table", "unit", "any", "nil", "stringenum"}}
  \cup {<<"luaobject", "F">>, <<"uiobject", "region">>, <<"arrayof", "number">>}
InTypes == BothWays \cup {<<"uiaddon">>, <<"textureasset">>, <<"font", "font">>}
OutTypes == BothWays \cup {<<"oneornil">>}
FrameType == <<"uiobject", "frame">>
ObjectType == <<"luaobject", "F">>
CoreSignatures ==
  {Sig(<<d>>, 0, <<>>, 0, FALSE, impl) :
     d \in {Decl(t) : t \in InTypes} \cup {DeclN(t) : t \in InTypes}, impl \in BOOLEAN}
  \cup {Sig(<<>>, 0, <<Decl(t)>>, 0, TRUE, TRUE) : t \in OutTypes}
  \cup {Sig(<<>>, 0, <<DeclN(t)>>, 0, FALSE, TRUE) : t \in OutTypes}
  \cup {Sig(<<Decl(<<"number">>), Decl(<<"gender">>)>>, 0, <<Decl(<<"number">>)>>, 0, FALSE, TRUE),
        Sig(<<Decl(FrameType), Decl(ObjectType)>>, 1, <<>>, 0, FALSE, TRUE),
        Sig(<<>>, 0, <<Decl(FrameType), DeclN(ObjectType)>>, 1, FALSE, TRUE),
        Sig(<<>>, 0, <<DeclN(<<"number">>)>>, 0, FALSE, FALSE)}
  \cup {Sig(<<Decl(FrameType)>>, 0, <<Decl(t)>>, 0, FALSE, FALSE) :
          t \in {ObjectType, FrameType, <<"number">>}}
Chars(s) == <<"string", s>>
Tab(vs) == <<"table", vs>>
EnumType == <<"stringenum">>
Defaults ==
  {DeclD(<<"number">>, Number(1)), DeclD(<<"boolean">>, Boolean(FALSE)), DeclD(<<"unit">>, Chars("player")),
   DeclD(EnumType, Chars("CC")), [DeclD(EnumType, Chars("CC")) EXCEPT !.permissive = TRUE]}
MoreSignatures ==
  {Sig(<<d>>, 0, <<>>, 0, FALSE, impl) : d \in Defaults, impl \in BOOLEAN}
  \cup {Sig(<<Decl(<<"number">>), d>>, 0, <<>>, 0, FALSE, TRUE) : d \in Defaults}
  \cup {[Sig(<<Decl(t)>>, 0, <<Decl(FrameType)>>, 0, FALSE, impl) EXCEPT !.usage = "usage"] :
          t \in {<<"string">>, <<"function">>, FrameType}, impl \in BOOLEAN}
  \cup {[Sig(<<Decl(<<"number">>), Decl(<<"string">>)>>, 1, <<>>, 0, FALSE, TRUE)
           EXCEPT !.usage = "usage"]}
  \cup {[Sig(<<Decl(<<"table">>), DeclN(<<"any">>)>>, 0, <<Decl(<<"boolean">>)>>, 0, FALSE, TRUE)
           EXCEPT !.usage = "genusage", !.unchecked = TRUE]}
  \cup {[Sig(<<Decl(<<"table">>)>>, 0, <<Decl(<<"number">>)>>, 0, FALSE, TRUE)
           EXCEPT !.usage = "genusage"]}
  \cup {[Sig(<<Decl(FrameType)>>, 0, <<DeclN(<<"unknown">>)>>, 0, FALSE, TRUE)
           EXCEPT !.manual = TRUE]}
  \cup {Sig(<<>>, 0, <<d>>, 0, FALSE, TRUE) :
          d \in {DeclD(<<"number">>, Number(1)), DeclD(<<"boolean">>, Boolean(FALSE)),
                 DeclD(EnumType, Chars("CC"))}}
  \cup {Sig(<<>>, 0, <<DeclN(ObjectType), DeclN(<<"number">>)>>, 1, FALSE, TRUE),
        Sig(<<>>, 0, <<Decl(<<"number">>), Decl(<<"string">>)>>, 2, FALSE, TRUE),
        [Sig(<<>>, 0, <<Decl(EnumType), [Decl(<<"number">>) EXCEPT !.stub = Number(2)]>>, 1,
             FALSE, FALSE) EXCEPT !.stubs = 3],
        [Sig(<<>>, 0, <<Decl(<<"number">>)>>, 0, FALSE, FALSE) EXCEPT !.stubs = 0],
        Sig(<<>>, 0, <<DeclD(<<"boolean">>, Boolean(FALSE)), Decl(<<"any">>)>>, 0, FALSE, FALSE)}
MCSignatures == CoreSignatures \cup MoreSignatures
MCUiType == 1 :> "frame" @@ 2 :> "font"
MCIsa == [frame |-> {"frame", "region"}, font |-> {"font"}]
MCTypeId == [f |-> "F", g |-> "G"]
MCCoerced == (<<"function">> :> "f")
MCNumeral == "0" :> 0 @@ "1" :> 1 @@ "2" :> 2
MCEnum == <<"Bb", "CC", "cd">>
MCByte == [Bb |-> 1, CC |-> 2, bB |-> 3, cd |-> 4, player |-> 7, fontname |-> 8] @@ ("1" :> 0)
MCFold == [Bb |-> 1, CC |-> 2, bB |-> 1, cd |-> 3, player |-> 7, fontname |-> 0] @@ ("1" :> 0)
MCUnits == [player |-> <<"table", <<>>>>]
MCAddons == Number(1) :> <<"table", <<>>>>
MCFonts == [fontname |-> <<"luarep", 2>>]
MCSandboxed ==
  {NilValue, Number(0), Number(1), Chars("1"), Chars("bB"), Chars("cd"),
   Chars("player"), Chars("fontname"),
   Boolean(FALSE), <<"function">>, <<"userdata">>, Tab(<<>>), Tab(<<Number(1), Chars("1")>>),
   Tab(<<Chars("bB")>>), <<"luarep", 1>>, <<"luarep", 2>>, <<"proxy", "f">>, <<"proxy", "g">>}
MCHosted ==
  {NilValue, Number(1), Number(2), Chars("CC"), Chars("bB"), Chars("cd"), Boolean(TRUE),
   <<"function">>,
   Tab(<<>>), Tab(<<Number(1)>>), <<"host", 1>>, <<"host", 2>>, <<"object", "f">>,
   <<"object", "g">>, <<"luarep", 1>>}

\* patterns: three items of any kind, with captures around one or two, on
\* subjects of the characters 1 and 2 and the parentheses 3 and 4
CharA == {1}
NotCharA == 0 .. 4 \ CharA
AnyChar == 1 .. 4
Item(set, rep) == <<"one", set, rep>>
Items == {Item(CharA, ""), Item(AnyChar, "*"), Item(AnyChar, "-"), Item(CharA, "+"),
          Item(NotCharA, "?"),
          <<"(">>, <<")">>, <<"()">>, <<"%", 1>>, <<"%f", CharA>>, <<"%f", NotCharA>>}
MCPatterns ==
  {<<i1, i2, i3>> : i1 \in Items, i2 \in Items, i3 \in Items}
  \cup {<<<<"(">>, i1, <<")">>, i2, i3>> : i1 \in Items, i2 \in Items, i3 \in {<<"%", 1>>, <<"$">>}}
  \cup {<<<<"(">>, <<"(">>, a, <<")">>, b, <<")">>, <<"%", 2>>>> : a \in Items, b \in Items}
  \cup {<<<<"%b", 3, 4>>, a>> : a \in Items}
  \cup {<<>>, <<<<"(">>, <<"(">>, <<"(">>, <<")">>, <<")">>, <<")">>>>}
MCSubjects ==
  {<<>>, <<1>>, <<2, 1>>, <<1, 1, 2>>, <<2, 1, 1>>, <<1, 2, 1>>, <<3, 3, 4, 1, 4>>}
MCReplacements == {<<<<"%", 0>>>>, <<<<"c", 2>>, <<"%", 1>>>>, <<>>}
=============================================================================
