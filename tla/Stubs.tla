-------------------------------- MODULE Stubs --------------------------------
(***************************************************************************)
(* The C stubs through which sandboxed code calls the client API: the      *)
(* checks of arguments and results (typecheck.h), in the order in which    *)
(* the wrappers that tools/prep.lua generates make them, and the objects   *)
(* on both sides (luaobject.c, uiobject.c).                                *)
(*                                                                         *)
(* A value is <<Lua type, content>>; objects have a kind of their own:     *)
(* <<"luarep", id>>, the table sandboxed code has for a UI object, with a  *)
(* userdata at 0; <<"host", id>>, the table the host has for it;           *)
(* <<"proxy", o>>, the userdata sandboxed code has for a Lua object, whose *)
(* environment is <<"object", o>>.  A table is <<"table", items>>.         *)
(* A type is a tuple with its name first.                                  *)
(***************************************************************************)
EXTENDS Integers, Sequences, FiniteSets, TLC

CONSTANTS Signatures,  \* the declarations of API functions, as read by tools/prep.lua
          UiType,      \* [ids of UI objects -> their types]
          Isa,         \* [types of UI objects -> the types each is a kind of]
          TypeId,      \* [Lua objects -> their types]
          Coerced,     \* [numbers and strings -> the Lua object Coerce makes of them]
          Numeral,     \* [numeric strings -> numbers]
          EnumValues,  \* the values of a string enum, as table.sort has them
          ByteRank,    \* [strings -> Nat], the order of strcmp
          FoldedRank,  \* [strings -> Nat], the order of strcasecmp
          Units,       \* [strings that name a unit -> host values]
          Addons,      \* [numbers and strings that name an addon -> host values]
          GlobalFonts, \* [strings that name a font -> values]
          Sandboxed,   \* values that sandboxed code has
          Hosted,      \* values that implementations return
          MaxExtra   \* bound: values of a call beyond those that are declared

VARIABLE call

NilValue == <<"nil">>
Nothing == <<"none">>
Bad == <<"error">>
Number(n) == <<"number", n>>
Boolean(b) == <<"boolean", b>>
Missing == {NilValue, Nothing}

\* lua_type, lua_isnumber, lua_isstring and lua_tonumber
LuaType(v) ==
  CASE v[1] \in {"luarep", "host", "object"} -> "table"
    [] v[1] = "proxy" -> "userdata"
    [] OTHER -> v[1]
LooksNumeric(v) == v[1] = "string" /\ v[2] \in DOMAIN Numeral
IsNumber(v) == v[1] = "number" \/ LooksNumeric(v)
IsString(v) == v[1] \in {"number", "string"}
ToNumber(v) == IF LooksNumeric(v) THEN Numeral[v[2]] ELSE IF v[1] = "number" THEN v[2] ELSE 0

(***************************************************************************)
(* Objects and enums.                                                      *)
(***************************************************************************)

\* wowless_isluaobject: by the marker and type_id of the userdata
IsProxy(v, t) == v[1] = "proxy" /\ TypeId[v[2]] = t

\* wowless_isuiobject: by the marker and the isa_mask of the userdata at 0
IsLuarep(v, t) == v[1] = "luarep" /\ t \in Isa[UiType[v[2]]]

\* wowless_stringenum_check: binary search in the order of strcasecmp or strcmp
RECURSIVE Find(_, _, _, _)
Find(rank, s, lo, hi) ==
  LET mid == (lo + hi) \div 2
  IN IF lo > hi THEN 0
     ELSE IF rank[s] = rank[EnumValues[mid]] THEN mid
     ELSE IF rank[s] < rank[EnumValues[mid]] THEN Find(rank, s, lo, mid - 1)
     ELSE Find(rank, s, mid + 1, hi)
EnumSpelled(v) ==
  IF v[1] = "string" THEN Find(FoldedRank, v[2], 1, Len(EnumValues)) ELSE 0
EnumExact(v) == IF v[1] = "string" THEN Find(ByteRank, v[2], 1, Len(EnumValues)) ELSE 0

(***************************************************************************)
(* Checks of arguments.                                                    *)
(***************************************************************************)

\* wowless_is..., and wowless_stubcheck... of what they accept
IsScalar(t, v) ==
  CASE t \in {"number", "enum"} -> IsNumber(v)
    [] t \in {"string", "fileasset", "uiaddon"} -> IsString(v)
    [] t = "textureasset" -> IsString(v) \/ LuaType(v) = "table"
    [] t \in {"boolean", "unknown"} -> v \notin Missing
    [] t \in {"function", "table"} -> LuaType(v) = t
    [] t = "unit" -> LuaType(v) = "string"
    [] t \in {"gender", "any"} -> TRUE
    [] t = "nil" -> v \in Missing
    [] t = "stringenum" -> EnumSpelled(v) > 0
IsA(type, v) ==
  CASE type[1] = "luaobject" -> IsProxy(v, type[2])
    [] type[1] \in {"uiobject", "font"} -> IsLuarep(v, type[2])
    [] type[1] = "arrayof" ->
         v[1] = "table" /\ \A i \in DOMAIN v[2] : IsScalar(type[2], v[2][i])
    [] OTHER -> IsScalar(type[1], v)
StubCheck(type, nilable, v) == (nilable /\ v \in Missing) \/ IsA(type, v)

\* a variant with a slip in it: a numeral is accepted as it is
KeepNumeral(v) == IF IsNumber(v) THEN v ELSE Bad

\* wowless_implchecknumber, with wowless_implcoercenumber
CoerceNumber(v) == IF IsNumber(v) THEN Number(ToNumber(v)) ELSE Bad

\* wowless_implcheckgender: what is pushed for a missing argument is popped
\* again by lua_replace
CoerceGender(v) == IF v = Nothing THEN Nothing ELSE Number(ToNumber(v))

\* wowless_implcheckboolean, with wowless_implcoerceboolean
CoerceBoolean(v) ==
  CASE v[1] = "boolean" -> v [] v \in Missing -> Bad [] OTHER -> Boolean(TRUE)

\* wowless_implcheckstring: luaL_checkstring turns a number into a string
CoerceString(v) ==
  CASE v[1] = "string" -> v
    [] v[1] = "number" -> <<"string", CHOOSE s \in DOMAIN Numeral : Numeral[s] = v[2]>>
    [] OTHER -> Bad

\* wowless_implchecktextureasset: any UI object
TextureAsset(v) ==
  CASE IsString(v) -> v [] v[1] = "luarep" -> <<"host", v[2]>> [] OTHER -> Bad

\* wowless_implcheckunit: what GetUnit says, which may be nil
Unit(v) ==
  IF v[1] # "string" THEN Bad ELSE IF v[2] \in DOMAIN Units THEN Units[v[2]] ELSE NilValue

\* wowless_implcheckuiaddon: what GetUiAddon says
UiAddon(v) ==
  IF ~IsString(v) THEN Bad ELSE IF v \in DOMAIN Addons THEN Addons[v] ELSE NilValue

\* wowless_implcheckstringenum: the spelling of the enum
Enum(v) == IF EnumSpelled(v) > 0 THEN <<"string", EnumValues[EnumSpelled(v)]>> ELSE Bad

\* wowless_implcheckluaobject: the environment of a proxy, or what Coerce makes
LuaObject(v, t) ==
  IF IsProxy(v, t) THEN <<"object", v[2]>>
  ELSE IF v \in DOMAIN Coerced /\ TypeId[Coerced[v]] = t THEN <<"object", Coerced[v]>> ELSE Bad

\* wowless_implcheckuiobject: the entry of uiobjects.userdata for its id
UiObject(v, t) == IF IsLuarep(v, t) THEN <<"host", v[2]>> ELSE Bad

\* the check of the type Font: a string is the name of a global
Font(v, t) ==
  UiObject(IF v[1] # "string" THEN v
           ELSE IF v[2] \in DOMAIN GlobalFonts THEN GlobalFonts[v[2]] ELSE NilValue, t)

\* wowless_implcheck...
ImplCheckValue(type, v) ==
  CASE type[1] \in {"number", "enum"} -> CoerceNumber(v)
    [] type[1] = "gender" -> CoerceGender(v)
    [] type[1] = "boolean" -> CoerceBoolean(v)
    [] type[1] = "string" -> CoerceString(v)
    [] type[1] = "textureasset" -> TextureAsset(v)
    [] type[1] = "unit" -> Unit(v)
    [] type[1] = "uiaddon" -> UiAddon(v)
    [] type[1] = "stringenum" -> Enum(v)
    [] type[1] = "luaobject" -> LuaObject(v, type[2])
    [] type[1] = "uiobject" -> UiObject(v, type[2])
    [] type[1] = "font" -> Font(v, type[2])
    [] OTHER -> IF IsA(type, v) THEN v ELSE Bad

\* wowless_implchecknilable...
ImplCheck(type, nilable, v) ==
  IF nilable /\ v \in Missing THEN v ELSE ImplCheckValue(type, v)

(***************************************************************************)
(* Checks of results, which convert nothing but objects.                   *)
(***************************************************************************)

\* luaobject_createproxy
CreateProxy(o) == <<"proxy", o>>

\* wowless_imploutputluaobject
OutputLuaObject(v, t) == IF v[1] = "object" /\ TypeId[v[2]] = t THEN CreateProxy(v[2]) ELSE Bad

\* wowless_imploutputuiobject: the luarep of the object
OutputUiObject(v, t) ==
  IF v[1] = "host" /\ t \in Isa[UiType[v[2]]] THEN <<"luarep", v[2]>> ELSE Bad

\* wowless_imploutput...
IsOutput(t, v) ==
  CASE t \in {"number", "enum"} -> v[1] = "number"
    [] t \in {"string", "unit"} -> v[1] = "string"
    [] t \in {"boolean", "function", "table"} -> LuaType(v) = t
    [] t = "fileasset" -> IsString(v)
    [] t = "oneornil" -> v \in {NilValue, Number(1)}
    [] t = "nil" -> v = NilValue
    [] t = "stringenum" -> EnumExact(v) > 0
    [] t \in {"any", "unknown"} -> TRUE
OutputValue(type, v) ==
  CASE type[1] = "luaobject" -> OutputLuaObject(v, type[2])
    [] type[1] = "uiobject" -> OutputUiObject(v, type[2])
    [] type[1] = "arrayof" -> IF IsA(type, v) THEN v ELSE Bad
    [] OTHER -> IF IsOutput(type[1], v) THEN v ELSE Bad

\* a variant with a slip in it: results that may be nil are not converted
NilableUnconverted(type, nilable, v) == IF nilable THEN v ELSE OutputValue(type, v)

\* wowless_imploutputnilable...; a result that is absent passes only where the
\* check is for none as well as for nil
ImplOutput(type, nilable, v) ==
  IF \/ nilable /\ v = NilValue
     \/ nilable /\ v = Nothing /\ type[1] \in {"luaobject", "uiobject", "stringenum", "arrayof"}
  THEN v ELSE OutputValue(type, v)

(***************************************************************************)
(* A call.  A signature has the inputs and outputs, of which the last      *)
(* `instride' and `outstride' repeat, and                                  *)
(*   impl: whether there is an implementation;                             *)
(*   usage: "usage" or "genusage" where one of these is declared, or "no"; *)
(*   manual: manualinputs, or no inputs are declared;                      *)
(*   unchecked: a native implementation, or no outputs are declared;       *)
(*   maynothing: mayreturnnothing;                                         *)
(*   stubs: how many results a stub makes, by stubnothing, stuboutstrides. *)
(* Each input and output has its type, nilable, default, permissive, stub. *)
(***************************************************************************)

HasDefault(decl) == decl.default # NilValue
Optional(decl) == decl.nilable \/ HasDefault(decl)

\* what a position is declared to be
TypesOf(decls, stride, i) ==
  IF i <= Len(decls) THEN decls[i]
  ELSE decls[Len(decls) - stride + 1 + ((i - Len(decls) - 1) % stride)]
InputAt(sig, i) == TypesOf(sig.ins, sig.instride, i)
OutputAt(sig, i) == TypesOf(sig.outs, sig.outstride, i)
FixedInputs(sig) == Len(sig.ins) - sig.instride
FixedOutputs(sig) == Len(sig.outs) - sig.outstride

\* how many positions are checked when n values are there
ArgsChecked(decls, stride, n) ==
  LET fixed == Len(decls) - stride
      over == IF n > fixed THEN n - fixed ELSE 0
  IN IF stride = 0 THEN fixed ELSE fixed + stride * ((over + stride - 1) \div stride)

Tuples(set, most) == UNION {[1 .. n -> set] : n \in 0 .. most}
Most(sig) == Len(sig.ins) + Len(sig.outs) + MaxExtra
ArgAt(i) == IF i <= Len(call.args) THEN call.args[i] ELSE Nothing
InputsLeft == call.pos <= ArgsChecked(call.sig.ins, call.sig.instride, Len(call.given))

NoCall == [stage |-> "none"]
StubsInit == call = NoCall

CallStub ==
  /\ call = NoCall
  /\ \E sig \in Signatures : \E args \in Tuples(Sandboxed, Len(sig.ins) + MaxExtra) :
       call' = [stage |-> IF sig.usage = "no" THEN "inputs" ELSE "usage", sig |-> sig, pos |-> 1,
                given |-> args, args |-> args, result |-> <<>>, returned |-> <<>>,
                warned |-> FALSE]

RaiseError == call' = [call EXCEPT !.stage = "error"]

\* usagecheck and genusagecheck, which change nothing; only after usagecheck of
\* all and where there is an implementation are the arguments converted
CheckUsage ==
  /\ call.stage = "usage"
  /\ IF InputsLeft
     THEN LET decl == InputAt(call.sig, call.pos)
          IN IF StubCheck(decl.type, Optional(decl), ArgAt(call.pos))
             THEN call' = [call EXCEPT !.pos = @ + 1] ELSE RaiseError
     ELSE call' = [call EXCEPT
            !.stage = IF call.sig.usage = "usage" /\ call.sig.impl THEN "inputs" ELSE "checked",
            !.pos = 1]

\* cpermissive: what is not accepted is replaced by the default, and what is
\* accepted stays as it is
Permissive(decl, v) == IF v \in Missing \/ IsA(decl.type, v) THEN v ELSE decl.default

\* what a check makes of an argument
CheckedInput(decl, v) ==
  IF decl.permissive THEN Permissive(decl, v)
  ELSE IF call.sig.impl THEN ImplCheck(decl.type, Optional(decl), v)
  ELSE IF StubCheck(decl.type, Optional(decl), v) THEN v ELSE Bad

\* the check of the argument at pos, which replaces it
CheckInput ==
  /\ call.stage = "inputs"
  /\ IF InputsLeft
     THEN LET v == CheckedInput(InputAt(call.sig, call.pos), ArgAt(call.pos))
          IN IF v = Bad THEN RaiseError
             ELSE call' = [call EXCEPT !.pos = @ + 1,
                             !.args = IF call.pos <= Len(@) THEN [@ EXCEPT ![call.pos] = v] ELSE @]
     ELSE call' = [call EXCEPT !.stage = "checked"]

\* the defaults of arguments that are nil or none; the stack grows to the last
TakesDefault(i) ==
  i <= FixedInputs(call.sig) /\ HasDefault(call.sig.ins[i]) /\ ArgAt(i) \in Missing
WithDefaults ==
  LET filled == {i \in 1 .. FixedInputs(call.sig) : TakesDefault(i)}
      top == CHOOSE n \in filled \cup {Len(call.args)} :
               \A i \in filled \cup {Len(call.args)} : i <= n
  IN [i \in 1 .. top |-> IF TakesDefault(i) THEN call.sig.ins[i].default
                         ELSE IF ArgAt(i) = Nothing THEN NilValue ELSE ArgAt(i)]

\* wowless_stubcheckextraargs, by which too many are only logged, and the defaults
InputsDone ==
  /\ call.stage = "checked"
  /\ call' = [call EXCEPT
       !.stage = IF call.sig.impl THEN "call" ELSE "stub",
       !.args = IF call.sig.impl THEN WithDefaults ELSE @,
       !.warned = ~call.sig.manual /\ call.sig.instride = 0 /\ Len(call.args) > Len(call.sig.ins)]

\* wowless_impl_stub: an error of the implementation goes on to the caller
CallImpl ==
  /\ call.stage = "call"
  /\ \/ \E rets \in Tuples(Hosted, Most(call.sig) - Len(call.given)) :
          call' = [call EXCEPT !.stage = IF call.sig.unchecked THEN "passed" ELSE "outputs",
                     !.pos = 1, !.returned = rets, !.result = rets]
     \/ RaiseError

\* the default of a type, see coutdefaults and coutpushers: fresh objects come
\* from wowless_stubcreateluaobject and wowless_stubcreateuiobject
TypeDefault(type) ==
  CASE type[1] = "luaobject" ->
         {CreateProxy(o) : o \in {p \in DOMAIN TypeId : TypeId[p] = type[2]}}
    [] type[1] = "uiobject" ->
         {<<"luarep", i>> : i \in {j \in DOMAIN UiType : UiType[j] = type[2]}}
    [] type[1] \in {"number", "any", "fileasset"} -> {Number(1)}
    [] type[1] = "boolean" -> {Boolean(FALSE)}
    [] type[1] = "stringenum" -> {<<"string", EnumValues[1]>>}
    [] OTHER -> {NilValue}

\* emit_stub_outputs: what a declared function without an implementation makes
StubResult(decl) ==
  IF decl.stub # NilValue THEN {decl.stub}
  ELSE IF HasDefault(decl) THEN {decl.default}
  ELSE IF decl.nilable THEN {NilValue}
  ELSE TypeDefault(decl.type)
MakeResults ==
  /\ call.stage = "stub"
  /\ IF Len(call.result) = call.sig.stubs THEN call' = [call EXCEPT !.stage = "made"]
     ELSE \E v \in StubResult(OutputAt(call.sig, Len(call.result) + 1)) :
            call' = [call EXCEPT !.result = Append(@, v)]

\* wowless_stubchecknreturns, and the count of results that repeat two or more at
\* a time
RightCount(sig, n) ==
  CASE sig.outstride = 0 -> n = FixedOutputs(sig)
    [] sig.outstride = 1 -> TRUE
    [] OTHER -> n >= FixedOutputs(sig) /\ (n - FixedOutputs(sig)) % sig.outstride = 0

\* the default of a result stands for nil, where results do not repeat
ReplacesNil(sig, decl) == sig.outstride = 0 /\ HasDefault(decl)
ResultAt(i) == IF i <= Len(call.result) THEN call.result[i] ELSE Nothing
OutputsDone == call.pos > Len(call.result) /\ call.pos > FixedOutputs(call.sig)
CheckOutput ==
  /\ call.stage = "outputs"
  /\ IF call.sig.maynothing /\ call.returned = <<>> THEN call' = [call EXCEPT !.stage = "done"]
     ELSE IF ~RightCount(call.sig, Len(call.returned)) THEN RaiseError
     ELSE IF OutputsDone THEN call' = [call EXCEPT !.stage = "done"]
     ELSE LET decl == OutputAt(call.sig, call.pos)
              v == IF ~ReplacesNil(call.sig, decl)
                   THEN ImplOutput(decl.type, decl.nilable, ResultAt(call.pos))
                   ELSE IF ResultAt(call.pos) = NilValue THEN decl.default
                   ELSE ImplOutput(decl.type, FALSE, ResultAt(call.pos))
          IN IF v = Bad THEN RaiseError
             ELSE call' = [call EXCEPT !.pos = @ + 1,
                    !.result = IF call.pos <= Len(@) THEN [@ EXCEPT ![call.pos] = v] ELSE @]

StubsNext ==
  \/ CallStub \/ CheckUsage \/ CheckInput \/ InputsDone \/ CallImpl \/ MakeResults
  \/ CheckOutput

(***************************************************************************)
(* Properties.                                                             *)
(***************************************************************************)

\* the values an implementation may see for an argument of a type
HostDomain(type, v) ==
  CASE type[1] \in {"number", "enum", "gender"} -> v[1] = "number"
    [] type[1] \in {"boolean", "string", "function"} -> v[1] = type[1]
    [] type[1] = "stringenum" -> \E i \in DOMAIN EnumValues : v = <<"string", EnumValues[i]>>
    [] type[1] = "luaobject" -> v[1] = "object" /\ TypeId[v[2]] = type[2]
    [] type[1] \in {"uiobject", "font"} -> v[1] = "host" /\ type[2] \in Isa[UiType[v[2]]]
    [] type[1] = "textureasset" -> v[1] \in {"string", "number", "host"}
    [] OTHER -> TRUE

\* what a conversion makes of an argument: a value of the declared type as the
\* host has it, the very object that was given, or what is left out
Conveyed(decl, given, arg) ==
  /\ \/ HostDomain(decl.type, arg)
     \/ Optional(decl) /\ given \in Missing /\ arg \in {given, NilValue}
     \/ decl.type[1] = "gender" /\ given = Nothing
  /\ given[1] = "luarep" /\ decl.type[1] \in {"uiobject", "font", "textureasset"} =>
       arg = <<"host", given[2]>>
  /\ given[1] = "proxy" /\ decl.type[1] = "luaobject" => arg = <<"object", given[2]>>

\* why an argument may be the declared default instead: nothing was given, or
\* what is not accepted where the declaration is permissive, or a unit or addon
\* that does not exist
Defaulted(decl, given) ==
  \/ given \in Missing
  \/ decl.permissive /\ ~IsA(decl.type, given)
  \/ decl.type[1] \in {"unit", "uiaddon"}

\* An implementation is called only with arguments of the declared types, as
\* the host has them: numbers for numerals, the enum's own spelling, host objects
\* for luareps and proxies, and the very object that was given.  An argument with
\* a default is never missing, and is the default only for a reason; what is
\* permissive or only checked for a usage message is of the accepted kind, as it was
\* given.  A gender that is left out stays out (emit_implstub_body of prep.lua, the
\* checks wowless_implcheck... of typecheck.h, and cgencode.lua's userdata).
ArgumentsMeant ==
  call.stage = "call" =>
    \A i \in 1 .. ArgsChecked(call.sig.ins, call.sig.instride, Len(call.given)) :
      LET decl == InputAt(call.sig, i)
          given == IF i <= Len(call.given) THEN call.given[i] ELSE Nothing
          filled == i <= FixedInputs(call.sig) /\ HasDefault(decl)
      IN /\ filled => ArgAt(i) \notin Missing
         /\ \/ filled /\ ArgAt(i) = decl.default /\ Defaulted(decl, given)
            \/ /\ decl.permissive \/ call.sig.usage = "genusage"
               /\ ArgAt(i) = given /\ StubCheck(decl.type, Optional(decl), given)
            \/ /\ ~decl.permissive /\ call.sig.usage # "genusage"
               /\ Conveyed(decl, given, ArgAt(i))

\* Results in the sandbox round-trip: given back as an argument declared like
\* the result, each is accepted by the check of arguments and is, on the host's
\* side, what the implementation had returned, or the declared default where that
\* was nil.  So a host object reaches sandboxed code only as its luarep or a proxy,
\* and an enum's value is one the enum accepts (wowless_imploutput... against
\* wowless_implcheck... of typecheck.h).  What a native implementation returns, or
\* one without declared outputs, is passed on unchecked and left out.
RoundTrip ==
  call.stage = "done" =>
    \A i \in DOMAIN call.result :
      LET decl == OutputAt(call.sig, i)
          meant == IF ReplacesNil(call.sig, decl) /\ call.returned[i] = NilValue
                   THEN decl.default ELSE call.returned[i]
      IN decl.type[1] \in {"number", "enum", "boolean", "string", "stringenum", "function",
                           "fileasset", "luaobject", "uiobject", "arrayof"} =>
           ImplCheck(decl.type, decl.nilable, call.result[i]) = meant
=============================================================================
