-------------------------------- MODULE Calls --------------------------------
(***************************************************************************)
(* Calls, errors, coroutines and taint in elune (ldo.c, lsec.h, the call   *)
(* instructions of lvm.c, lcorolib.c) and the C functions with which       *)
(* wowless crosses from framework code to addon code and back              *)
(* (bubblewrap.c, modules/security.c).                                     *)
(*                                                                         *)
(* The state `vm' has the C stack (`native'), on which every protected     *)
(* call, resume, luaD_call and luaV_execute has an activation, and of each *)
(* thread its CallInfos and its taint.  `todo' says what the C code does   *)
(* next; on "run" the Lua function on top decides.                         *)
(*                                                                         *)
(* Of the functions on coroutines these are the ones that the sandbox is   *)
(* given (src/data/impl.yaml:253-264).  coroutine.call and coroutine.bind  *)
(* of lcorolib.c, a lua_pcall on a thread that is not resumed, are not     *)
(* among them and nothing in wowless calls them: they are left out.        *)
(***************************************************************************)
EXTENDS Integers, Sequences, FiniteSets, FiniteSetsExt, SequencesExt

CONSTANTS
  HostLua,       \* Lua functions of wowless
  SandboxLua,    \* Lua functions of addons and of the client's own UI
  Logger,        \* errors.ErrorHandler, the message handler of CallSandbox
  Handler,       \* the global message handler of the client
  ClosureTaint,  \* taint of the closures of SandboxLua that were made insecurely
  ReadTaints,    \* taints of the values the sandbox can read
  Forced,        \* LUA_FORCEINSECURE_TAINT
  Main, Coroutines,
  MaxCCalls, CCallsSlack,  \* LUAI_MAXCCALLS, and an eighth of it
  MaxCalls, BasicCI,       \* LUAI_MAXCALLS, BASIC_CI_SIZE
  MaxFrames,               \* bound: CallInfos of all threads
  MaxLost                  \* bound: CallInfos that die with their coroutine

None == "none"
Threads == {Main} \cup Coroutines
CFunctions == {"plain", "error", "forceinsecure", "pcall", "xpcall",
               "securecall", "delegate", "create", "resume", "wrapped",
               "yield", "bubblewrapped", "CallSandbox", "CallSafely"}
LuaFunctions == HostLua \cup SandboxLua \cup {Logger, Handler}
Functions == LuaFunctions \cup CFunctions

ASSUME CallsAssumption ==
  /\ DOMAIN ClosureTaint \subseteq SandboxLua
  /\ MaxCCalls \in Nat /\ CCallsSlack \in Nat /\ MaxCalls \in Nat
  /\ BasicCI \in Nat /\ 2 <= BasicCI /\ BasicCI <= MaxCalls

\* The functions are told apart, and so are the threads.
ASSUME NamesAssumption ==
  /\ HostLua \cap SandboxLua = {} /\ Logger # Handler
  /\ {Logger, Handler} \cap (HostLua \cup SandboxLua) = {}
  /\ LuaFunctions \cap CFunctions = {} /\ None \notin LuaFunctions
  /\ Main \notin Coroutines

TaintOf(f) == IF f \in DOMAIN ClosureTaint THEN ClosureTaint[f] ELSE None

VARIABLES
  vm,
  resumed  \* history: how many CallInfos a thread had when it was resumed
           \* last, of those it still has

vars == <<vm, resumed>>

\* preinit_state, stack_init
NewThread ==
  [ci |-> <<>>, size |-> BasicCI, start |-> None, status |-> "ok",
   nCcalls |-> 0, baseCcalls |-> 0, errfunc |-> None,
   mode |-> "disabled", stack |-> None, fixed |-> None]

\* wowless has started: its main chunk runs in a protected call
Init ==
  /\ resumed = [t \in Threads |-> 0]
  /\ \E h \in HostLua :
    vm = [th |-> [t \in Threads |->
                    IF t = Main
                    THEN [NewThread EXCEPT !.ci = <<h>>, !.nCcalls = 1]
                    ELSE NewThread],
          native |-> <<[k |-> "try", th |-> Main, ci |-> 0, nCcalls |-> 0,
                        errfunc |-> None],
                       [k |-> "call", th |-> Main],
                       [k |-> "exec", th |-> Main, n |-> 1]>>,
          nopencalls |-> [f \in Functions |-> IF f = h THEN 1 ELSE 0],
          lost |-> [f \in Functions |-> 0],
          thetaint |-> None, todo |-> "run"]

(***************************************************************************)
(* The state.                                                              *)
(***************************************************************************)

Ended(s) == s.native = <<>>
Act(s) == s.native[Len(s.native)]
Run(s) == Act(s).th                     \* the thread that runs
Cur(s) == s.th[Run(s)]
Top(s) == Cur(s).ci[Len(Cur(s).ci)]     \* the function that runs
Push(s, a) == [s EXCEPT !.native = Append(@, a)]
Pop(s) == [s EXCEPT !.native = SubSeq(@, 1, Len(@) - 1)]
Do(s, what) == [s EXCEPT !.todo = what]
Set(s, t) == [s EXCEPT !.th[Run(s)] = t]

(***************************************************************************)
(* Taint: lsec.h.                                                          *)
(***************************************************************************)

\* luaR_taintstack: reading something tainted taints the execution, except
\* in a closure whose own taint is fixed
TaintStack(t, taint) ==
  IF taint # None /\ t.fixed = None /\ t.mode = "rw"
  THEN [t EXCEPT !.stack = taint] ELSE t

\* luaR_taintthread
TaintThread(t, from) == [t EXCEPT !.mode = from.mode, !.stack = from.stack]

\* luaR_savetaint, luaR_loadtaint, and their like in lapi.c
SaveTaint(t) == [mode |-> t.mode, stack |-> t.stack]
LoadTaint(t, saved) == [t EXCEPT !.mode = saved.mode, !.stack = saved.stack]

\* the entry of luaV_execute: the closure taints what it runs in, and pins it
Reenter(t, f) ==
  [TaintStack([t EXCEPT !.fixed = None], TaintOf(f)) EXCEPT !.fixed = TaintOf(f)]

(***************************************************************************)
(* Frames, calls and errors: ldo.c.                                        *)
(***************************************************************************)

\* a variant with a slip in it: one level is closed whatever the distance
UnwindOne(s, n) ==
  LET t == Cur(s)
  IN IF n = Len(t.ci) THEN s
     ELSE [s EXCEPT !.nopencalls[Top(s)] = @ - 1,
             !.th[Run(s)] = [t EXCEPT !.ci = SubSeq(@, 1, n), !.fixed = None]]

\* luaD_unwindci to the n-th CallInfo: every frame above it is closed
Unwind(s, n) ==
  LET t == Cur(s)
      Closed(f) == Cardinality({i \in n + 1 .. Len(t.ci) : t.ci[i] = f})
  IN IF n = Len(t.ci) THEN s
     ELSE [s EXCEPT
             !.nopencalls = [f \in Functions |-> @[f] - Closed(f)],
             !.th[Run(s)] = [t EXCEPT !.ci = SubSeq(@, 1, n), !.fixed = None]]

\* inc_ci and growCI: the array of CallInfos doubles; past LUAI_MAXCALLS
\* that is an error, and past the room for its handler a final one
PushFrame(s, f) ==
  LET t == [Cur(s) EXCEPT !.fixed = None]
      Pushed(u) == [Set(Do(s, "run"), [u EXCEPT !.ci = Append(@, f)])
                      EXCEPT !.nopencalls[f] = @ + 1]
      grown == [t EXCEPT !.size = 2 * @]
  IN CASE Len(t.ci) < t.size - 1 -> Pushed(t)
       [] Len(t.ci) = t.size - 1 /\ t.size > MaxCalls -> Do(Set(s, t), "throw")
       [] Len(t.ci) = t.size - 1 /\ t.size <= MaxCalls ->
            IF grown.size > MaxCalls THEN Do(Set(s, grown), "raise")
            ELSE Pushed(grown)

\* luaV_execute runs the function on top: one more of its own activation, or
\* a new one when C code called it
Execute(s, f) ==
  LET s1 == Set(s, Reenter(Cur(s), f))
  IN IF Act(s).k = "exec" THEN [s1 EXCEPT !.native[Len(s.native)].n = @ + 1]
     ELSE Push(s1, [k |-> "exec", th |-> Run(s), n |-> 1])

\* luaD_precall, up to the body of a C function
Precall(s, f) ==
  LET s1 == PushFrame(s, f)
  IN IF s1.todo # "run" THEN s1
     ELSE IF f \in LuaFunctions THEN Execute(s1, f) ELSE Do(s1, "body")

\* a variant with a slip in it: the C calls are not counted
LuaDCallUncounted(s, f) ==
  Precall(Push(s, [k |-> "call", th |-> Run(s)]), f)

\* luaD_call
LuaDCall(s, f) ==
  LET n == Cur(s).nCcalls + 1
      s1 == Set(Push(s, [k |-> "call", th |-> Run(s)]),
                [Cur(s) EXCEPT !.nCcalls = n])
  IN CASE n < MaxCCalls -> Precall(s1, f)
       [] n = MaxCCalls -> Do(s1, "raise")
       [] n > MaxCCalls /\ n < MaxCCalls + CCallsSlack -> Precall(s1, f)
       [] n > MaxCCalls /\ n >= MaxCCalls + CCallsSlack -> Do(s1, "throw")

\* lua_pcall and luaD_pcall from the C function f, which keeps `saved'
PCall(s, f, saved, errfunc, g) ==
  LET t == Cur(s)
      s1 == Push(s, [k |-> "c", th |-> Run(s), f |-> f, saved |-> saved])
      s2 == Push(s1, [k |-> "try", th |-> Run(s), ci |-> Len(t.ci),
                      nCcalls |-> t.nCcalls, errfunc |-> t.errfunc])
  IN LuaDCall(Set(s2, [t EXCEPT !.errfunc = errfunc]), g)

\* luaD_poscall of a C function, and the way back to what called it
CReturn(s) ==
  LET s1 == Unwind(s, Len(Cur(s).ci) - 1)
  IN Do(s1, IF Act(s).k = "exec" THEN "run" ELSE "returned")

\* luaG_errormsg: the message handler is called on top of the error
ErrorMsg ==
  /\ vm.todo = "raise"
  /\ LET errfunc == Cur(vm).errfunc
     IN vm' = IF errfunc = None THEN Do(vm, "throw")
              ELSE LuaDCall(Push(vm, [k |-> "errmsg", th |-> Run(vm)]), errfunc)

\* luaD_call returns, to luaD_pcall or to luaG_errormsg
CallReturns ==
  /\ vm.todo = "returned" /\ Act(vm).k = "call"
  /\ LET s1 == Pop(Set(vm, [Cur(vm) EXCEPT !.nCcalls = @ - 1]))
         s2 == Pop(Set(s1, [Cur(s1) EXCEPT !.errfunc = Act(s1).errfunc]))
     IN vm' = IF Act(s1).k = "errmsg" THEN Do(Pop(s1), "throw")
              ELSE Do(s2, IF Ended(s2) THEN "end" ELSE "ok")

\* luaD_throw: the innermost setjmp
Catcher(s) == Max({i \in 1 .. Len(s.native) : s.native[i].k \in {"try", "resume"}})
CutTo(s, i) == [s EXCEPT !.native = SubSeq(@, 1, i)]

\* restore_stack_limit
RestoreLimit(t) ==
  IF t.size > MaxCalls /\ Len(t.ci) + 1 < MaxCalls THEN [t EXCEPT !.size = MaxCalls]
  ELSE t

\* the error path of luaD_pcall
Catch ==
  /\ vm.todo = "throw"
  /\ LET i == Catcher(vm)
         try == vm.native[i]
         s1 == Unwind([vm EXCEPT !.th[try.th].nCcalls = try.nCcalls], try.ci)
         s2 == Set(s1, RestoreLimit([Cur(s1) EXCEPT !.errfunc = try.errfunc]))
     IN /\ try.k = "try"
        /\ vm' = Do(CutTo(s2, i - 1), IF i = 1 THEN "end" ELSE "failed")

(***************************************************************************)
(* Lua functions.                                                          *)
(***************************************************************************)

Frames(s) == MapThenSumSet(LAMBDA t : Len(s.th[t].ci), Threads)
Secure == {"plain", "error", "pcall"}

\* what a function calls: wowless never gives one side the functions of the
\* other without a wrapper, and neither side coroutine.call or coroutine.bind
Callable(f) ==
  CASE f \in HostLua -> HostLua \cup Secure \cup {"CallSafely", "CallSandbox"}
    [] f \in SandboxLua -> SandboxLua \cup (CFunctions \ {"CallSafely", "CallSandbox"})
    [] f = Logger -> {"plain", "error"}
    [] f = Handler -> {"pcall"}

\* what a C function that f called is given to call
Targets(f) == IF f \in HostLua THEN HostLua ELSE SandboxLua \cup {"yield"}

InLua == vm.todo = "run"

\* OP_CALL
OpCall ==
  /\ InLua /\ Frames(vm) < MaxFrames
  /\ \E f \in Callable(Top(vm)) : vm' = Precall(vm, f)

\* OP_TAILCALL of a Lua function: its frame takes the place of the caller's
OpTailCall ==
  /\ InLua /\ Frames(vm) < MaxFrames
  /\ \E f \in Callable(Top(vm)) \cap LuaFunctions :
       LET s == PushFrame(vm, f)
           t == Cur(s)
           n == Len(t.ci)
           moved == [t EXCEPT !.ci = Append(SubSeq(@, 1, n - 2), f), !.fixed = None]
       IN vm' = IF s.todo # "run" THEN s
                ELSE [Set(s, Reenter(moved, f))
                        EXCEPT !.nopencalls[t.ci[n - 1]] = @ - 1]

\* OP_RETURN: back to the caller in this activation of luaV_execute, or out
OpReturn ==
  /\ InLua
  /\ LET s == Unwind(vm, Len(Cur(vm).ci) - 1)
         n == Act(vm).n - 1
     IN vm' = IF n = 0 THEN Do(Pop(s), "returned")
              ELSE [Set(s, Reenter(Cur(s), Top(s)))
                      EXCEPT !.native[Len(s.native)].n = n]

\* an instruction reads a value that carries a taint
ReadTainted ==
  /\ InLua
  /\ \E taint \in ReadTaints : vm' = Set(vm, TaintStack(Cur(vm), taint))

\* an instruction fails
RuntimeError == InLua /\ vm' = Do(vm, "raise")

(***************************************************************************)
(* C functions.  A body runs to its end, or to the call it makes.          *)
(***************************************************************************)

Body(f) == vm.todo = "body" /\ Top(vm) = f
CallerIn(s) == Cur(s).ci[Len(Cur(s).ci) - 1]
Given == Targets(CallerIn(vm))
After(f) == vm.todo \in {"ok", "failed"} /\ Act(vm).k = "c" /\ Act(vm).f = f
CallFailed == vm.todo = "failed"

Plain == Body("plain") /\ vm' = CReturn(vm)

\* luaB_error
Error == Body("error") /\ vm' = Do(vm, "raise")

\* luaL_forceinsecure, which does not ask for the mode
ForceInsecure ==
  /\ Body("forceinsecure")
  /\ vm' = CReturn(IF Cur(vm).stack # None THEN vm
                   ELSE Set(vm, [Cur(vm) EXCEPT !.stack = Forced]))

\* luaB_pcall and luaB_xpcall return the error as a result
ProtectedCall ==
  \/ /\ Body("pcall")
     /\ \E g \in Given : vm' = PCall(vm, "pcall", SaveTaint(Cur(vm)), None, g)
  \/ /\ Body("xpcall")
     /\ \E g, h \in Given :
          vm' = PCall(vm, "xpcall", SaveTaint(Cur(vm)), h, g)
  \/ /\ After("pcall") \/ After("xpcall")
     /\ vm' = CReturn(Pop(vm))

\* luaB_securecall: the taint of the caller comes back, the error goes to the
\* handler only
SecureCall ==
  \/ /\ Body("securecall")
     /\ \E g \in Given :
          vm' = PCall(vm, "securecall", SaveTaint(Cur(vm)), Handler, g)
  \/ /\ After("securecall")
     /\ vm' = CReturn(Pop(Set(vm, LoadTaint(Cur(vm), Act(vm).saved))))

\* a variant with a slip in it: the taint of the caller is not put back
DelegateReturnsLeaky(s) == IF CallFailed THEN Do(Pop(s), "raise") ELSE CReturn(Pop(s))

\* f_securedelegate, after the call
DelegateReturns(s) ==
  LET s1 == Pop(Set(s, LoadTaint(Cur(s), Act(s).saved)))
  IN IF CallFailed THEN Do(s1, "raise") ELSE CReturn(s1)

\* f_securedelegate: the function it is for runs securely
Delegate ==
  \/ /\ Body("delegate")
     /\ \E g \in Given :
          vm' = PCall(Set(vm, [Cur(vm) EXCEPT !.stack = None]), "delegate",
                      SaveTaint(Cur(vm)), None, g)
  \/ After("delegate") /\ vm' = DelegateReturns(vm)

(***************************************************************************)
(* Coroutines.                                                             *)
(***************************************************************************)

OnCStack(s, t) == \E i \in 1 .. Len(s.native) : s.native[i].th = t

\* auxstatus of lcorolib.c
Suspended(s, co) ==
  /\ co # Run(s)
  /\ \/ s.th[co].status = "yield"
     \/ s.th[co].status = "ok" /\ s.th[co].ci = <<>> /\ s.th[co].start # None

\* luaB_cocreate with a new thread or the memory of a collected one: the
\* calls that were open in it stay counted
Create ==
  /\ Body("create")
  /\ \E co \in Coroutines, f \in SandboxLua :
       LET old == vm.th[co].ci
           Left(g) == Cardinality({i \in 1 .. Len(old) : old[i] = g})
       IN /\ ~OnCStack(vm, co)
          /\ FoldFunction(+, 0, vm.lost) + Len(old) <= MaxLost
          /\ vm' = CReturn(
               [vm EXCEPT
                  !.lost = [g \in Functions |-> @[g] + Left(g)],
                  !.th[co] = [TaintThread(NewThread, Cur(vm)) EXCEPT !.start = f]])

\* the end of lua_resumefrom in the thread that resumed co
BackFrom(s, co, from, th) ==
  LET s1 == [s EXCEPT !.th[co] = [th EXCEPT !.nCcalls = @ - 1],
                      !.th[from] = TaintThread(@, s.th[co])]
  IN [s1 EXCEPT !.native = SubSeq(@, 1, Catcher(s) - 1)]

\* the thread whose code has the innermost resume on the C stack
Resumer(s) == s.native[Catcher(s) - 1].th

\* lua_resumefrom, lua_resume's error to the caller and resume of ldo.c.  The
\* C calls of the coroutine are compared before they are set.
Resume ==
  \E how \in {"resume", "wrapped"}, co \in Coroutines :
    /\ Body(how)
    /\ LET refused == IF how = "resume" THEN CReturn(vm) ELSE Do(vm, "raise")
           from == Cur(vm)
           th == [TaintThread(vm.th[co], from) EXCEPT
                    !.nCcalls = from.nCcalls + 1, !.baseCcalls = from.nCcalls + 1,
                    !.status = "ok"]
           s == Push([vm EXCEPT !.th[co] = th], [k |-> "resume", th |-> co])
           yielded == Unwind(s, Len(th.ci) - 1)
           again == Push(yielded, [k |-> "exec", th |-> co, n |-> Len(th.ci) - 1])
       IN vm' = CASE ~Suspended(vm, co) -> refused
                  [] Suspended(vm, co) /\ vm.th[co].nCcalls >= MaxCCalls -> refused
                  [] Suspended(vm, co) /\ vm.th[co].nCcalls < MaxCCalls ->
                       IF vm.th[co].status = "yield"
                       THEN Do(Set(again, Reenter(Cur(again), Top(again))), "run")
                       ELSE Precall(s, th.start)

\* lua_yield, the returns of luaV_execute and resume, and lua_resumefrom
Yield ==
  /\ Body("yield")
  /\ LET co == Run(vm)
         th == Cur(vm)
     IN vm' = IF th.nCcalls > th.baseCcalls THEN Do(vm, "raise")
              ELSE CReturn(BackFrom(vm, co, Resumer(vm), [th EXCEPT !.status = "yield"]))

\* the function of the coroutine returned
Finish ==
  /\ vm.todo = "returned" /\ Act(vm).k = "resume"
  /\ vm' = CReturn(BackFrom(vm, Run(vm), Resumer(vm), [Cur(vm) EXCEPT !.start = None]))

\* the error path of lua_resumefrom.  The dead thread keeps its CallInfos for
\* tracebacks only, they are not kept here.
Die ==
  /\ vm.todo = "throw" /\ vm.native[Catcher(vm)].k = "resume"
  /\ LET co == Run(vm)
         from == Resumer(vm)
         dead == [NewThread EXCEPT !.status = "err", !.nCcalls = Cur(vm).nCcalls,
                                   !.size = Cur(vm).size]
         s == BackFrom(Unwind(vm, 0), co, from, dead)
     IN vm' = IF Top(s) = "wrapped" THEN Do(s, "raise") ELSE CReturn(s)

(***************************************************************************)
(* Between wowless and addons: bubblewrap.c and modules/security.c.        *)
(***************************************************************************)

InHostMode(t) == t.mode = "disabled" /\ t.stack = None

\* wowless_bubblewrap_cstub_enter: addon code enters the host
BubblewrapEnter ==
  /\ Body("bubblewrapped")
  /\ LET t == Cur(vm)
         s == [Set(vm, [t EXCEPT !.mode = "disabled", !.stack = None])
                 EXCEPT !.thetaint = IF t.stack = None THEN @ ELSE t.stack]
     IN IF t.mode # "rw" THEN vm' = Do(vm, "raise")
        ELSE \E g \in HostLua :
               vm' = PCall(s, "bubblewrapped", SaveTaint(t), None, g)

\* a variant with a slip in it: the mode is left to the host
BubblewrapLeaveOpen(s) ==
  LET t == Cur(s)
      s1 == Pop([Set(s, [t EXCEPT !.stack = Act(s).saved.stack])
                   EXCEPT !.thetaint = None])
  IN IF CallFailed \/ ~InHostMode(t) THEN Do(s1, "raise") ELSE CReturn(s1)

\* wowless_bubblewrap_cstub_exit, and the error of the host's function
BubblewrapLeave(s) ==
  LET t == Cur(s)
      s1 == Pop([Set(s, [t EXCEPT !.stack = Act(s).saved.stack, !.mode = "rw"])
                   EXCEPT !.thetaint = None])
  IN IF CallFailed \/ ~InHostMode(t) THEN Do(s1, "raise") ELSE CReturn(s1)

BubblewrapExit == After("bubblewrapped") /\ vm' = BubblewrapLeave(vm)

\* call_safely: a host function calls another, the error goes to the log
CallSafely ==
  \/ /\ Body("CallSafely")
     /\ IF InHostMode(Cur(vm))
        THEN \E g \in HostLua :
               vm' = PCall(vm, "CallSafely", SaveTaint(Cur(vm)), Logger, g)
        ELSE vm' = Do(vm, "raise")
  \/ /\ After("CallSafely")
     /\ vm' = IF InHostMode(Cur(vm)) THEN CReturn(Pop(vm)) ELSE Do(Pop(vm), "raise")

\* call_sandbox, after the call
SandboxReturns(s) ==
  LET s1 == Pop(Set(s, [Cur(s) EXCEPT !.mode = "disabled", !.stack = None]))
  IN IF Cur(s).mode # "rw" THEN Do(s1, "raise") ELSE CReturn(s1)

\* call_sandbox: the host calls addon code
CallSandbox ==
  \/ /\ Body("CallSandbox")
     /\ IF InHostMode(Cur(vm))
        THEN \E g \in SandboxLua \cup {"bubblewrapped"} :
               vm' = PCall(Set(vm, [Cur(vm) EXCEPT !.mode = "rw"]), "CallSandbox",
                           SaveTaint(Cur(vm)), Logger, g)
        ELSE vm' = Do(vm, "raise")
  \/ After("CallSandbox") /\ vm' = SandboxReturns(vm)

Step ==
  \/ OpCall \/ OpTailCall \/ OpReturn \/ ReadTainted \/ RuntimeError
  \/ ErrorMsg \/ CallReturns \/ Catch
  \/ Plain \/ Error \/ ForceInsecure \/ ProtectedCall \/ SecureCall \/ Delegate
  \/ Create \/ Resume \/ Yield \/ Finish \/ Die
  \/ BubblewrapEnter \/ BubblewrapExit \/ CallSafely \/ CallSandbox

Remember ==
  resumed' =
    [t \in Threads |->
       LET n == Len(vm'.th[t].ci)
       IN IF \/ resumed[t] > n
             \/ vm.th[t].status = "yield" /\ vm'.th[t].status = "ok"
          THEN n ELSE resumed[t]]

Next == Step /\ Remember

Spec == Init /\ [][Next]_vars

(***************************************************************************)
(* Properties.                                                             *)
(***************************************************************************)

\* Code of wowless runs with taint off and nothing tainted, code of addons
\* with taint on, whatever calls, errors and coroutines came before: the
\* modes that bubblewrap.c and security.c switch and assert.
HostClean ==
  InLua => /\ Top(vm) \in HostLua => InHostMode(Cur(vm))
           /\ Top(vm) \in SandboxLua \cup {Handler} => Cur(vm).mode = "rw"

Boundary == {"bubblewrapped", "CallSandbox", "delegate"}

\* Between the i-th call of the thread u and the function that runs a boundary
\* is under way: its protected call stands on the C stack above that call.
Shielded(s, u, i) ==
  \E k \in 2 .. Len(s.native) :
    /\ s.native[k].k = "try" /\ s.native[k - 1].f \in Boundary
    /\ IF s.native[k].th = u THEN i <= s.native[k].ci
       ELSE \A j \in k .. Len(s.native) : s.native[j].th # u

\* The calls of insecure functions, of all threads that wait for the one that
\* runs, with no boundary above them.  A coroutine runs on as secure as who
\* resumes it, whatever it was before (luatest_scriptcases.lua:601-621,
\* 675-692): calls below the one at which it was resumed do not count.
InsecureCalls(s) ==
  {u \in Threads : OnCStack(s, u) /\
     \E i \in DOMAIN s.th[u].ci :
       resumed[u] <= i /\ TaintOf(s.th[u].ci[i]) # None /\ ~Shielded(s, u, i)}

\* Whatever an insecure function calls is tainted, what it resumes too, until
\* wowless or a secure delegate stands between (lstate.h: "taint applied from
\* currently executing Lua closure"): no error, no barrier and no coroutine
\* that it waits for washes it off.
TaintSticks == InLua /\ Cur(vm).stack = None => InsecureCalls(vm) = {}

\* The calls that are open, each by its thread and its place there.
OpenCalls(s) == UNION {{t} \X DOMAIN s.th[t].ci : t \in Threads}

\* Every closure counts its open calls exactly, over errors and switches of
\* thread, but for the calls of coroutines that were collected; profiling
\* takes a call for outermost when the count is 1 (ldebug.c).
OpenCallsCounted ==
  LET open == OpenCalls(vm)
  IN \A f \in Functions :
       vm.nopencalls[f] =
         vm.lost[f] + Cardinality({c \in open : vm.th[c[1]].ci[c[2]] = f})

\* A coroutine yields only when nothing but its own luaV_execute and resume
\* stands on the C stack above its resumer: lua_yield's test of nCcalls against
\* baseCcalls sees every C call in between (ldo.c:517).  This is of the
\* functions the sandbox has: a C call that coroutine.call made on a thread
\* that has yielded would not be seen (lcorolib.c:137, ldo.c:509).
YieldLosesNothing ==
  [][ (vm.todo = "body" /\ \E co \in Coroutines :
         vm.th[co].status = "ok" /\ vm'.th[co].status = "yield")
      => LET n == Len(vm.native)
         IN /\ vm.native[n].k = "exec" /\ vm.native[n - 1].k = "resume"
            /\ vm.native[n - 1].th = vm.native[n].th
            /\ vm.native[n].n = Len(Cur(vm).ci) - 1 ]_vars

\* luaconf.h: LUAI_MAXCCALLS is the "maximum number of nested C calls"; the
\* slack is for the handler of that error.
CCallsBounded ==
  InLua =>
    Cardinality({i \in 1 .. Len(vm.native) : vm.native[i].k \in {"call", "resume"}})
      <= MaxCCalls + CCallsSlack
=============================================================================
