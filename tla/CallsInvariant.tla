--------------------------- MODULE CallsInvariant ---------------------------
(***************************************************************************)
(* The inductive invariants of Calls: IInv of the C stack, AllCounted of   *)
(* the counts, TaintInv of what taint sticks to; and what a part of a step *)
(* does to the thread that runs and to the C stack, which the proofs that  *)
(* they are kept go by (CallsProofs).                                      *)
(***************************************************************************)
EXTENDS Calls

(***************************************************************************)
(* The C stack, entry by entry                                             *)
(***************************************************************************)

\* f may run in mode m: code of wowless and what calls it safely only with
\* taint off, code of addons and what is made for it only with taint on.
Suits(f, m) ==
  /\ f \in HostLua \cup {"CallSafely", "CallSandbox"} => m = "disabled"
  /\ f \in SandboxLua \cup {Handler} \cup
           (CFunctions \ {"plain", "error", "pcall", "CallSafely", "CallSandbox"})
       => m = "rw"

\* What luaD_call calls: a Lua function, or one of two C functions.
Called(f) == f \in LuaFunctions \cup {"yield", "bubblewrapped"}

HandlerSuits(f, m) == f # None => Called(f) /\ Suits(f, m)

\* The mode f calls in when it runs in m.
Switched(f, m) ==
  IF f = "CallSandbox" THEN "rw" ELSE IF f = "bubblewrapped" THEN "disabled" ELSE m

Taints == {None, Forced} \cup ReadTaints \cup {ClosureTaint[f] : f \in DOMAIN ClosureTaint}

Modes == {"disabled", "rw"}

Thread ==
  [ci : Seq(Functions), size : Nat, start : Functions \cup {None},
   status : {"ok", "yield", "err"}, nCcalls : Int, baseCcalls : Nat,
   errfunc : Functions \cup {None}, mode : Modes, stack : Taints, fixed : Taints]

\* With taint off nothing is tainted, in what a C function keeps too.
Saved == {v \in [mode : Modes, stack : Taints] : v.mode = "disabled" => v.stack = None}

Activation ==
  [k : {"call", "errmsg", "resume"}, th : Threads]
    \cup [k : {"exec"}, th : Threads, n : Nat]
    \cup [k : {"c"}, th : Threads, f : CFunctions, saved : Saved]
    \cup [k : {"try"}, th : Threads, ci : Nat, nCcalls : Nat, errfunc : Functions \cup {None}]

\* What goes with an activation, found again when all above it is gone: the
\* mode and the C calls of its thread, and the CallInfos the thread had.
Level == [m : Modes, c : Nat, b : Nat]

\* The CallInfos an activation runs itself.
Runs(a) == IF a.k = "exec" THEN a.n ELSE 0

\* How an activation a, at level l, stands on the one below, q at level p.
LinkC(q, p, a, l) ==
  /\ a.k = "c" /\ q.k \in {"exec", "call"} /\ a.th = q.th
  /\ Suits(a.f, p.m) /\ a.saved.mode = p.m
  /\ l = [m |-> Switched(a.f, p.m), c |-> p.c, b |-> p.b + Runs(q) + 1]

LinkTry(q, p, a, l) ==
  /\ a.k = "try" /\ q.k = "c" /\ a.th = q.th
  /\ a.ci = p.b /\ a.nCcalls = p.c /\ HandlerSuits(a.errfunc, q.saved.mode)
  /\ l = p

LinkCall(q, p, a, l) ==
  /\ a.k = "call" /\ q.k \in {"try", "errmsg"} /\ a.th = q.th
  /\ l = [m |-> p.m, c |-> p.c + 1, b |-> p.b]

LinkExec(th, q, p, a, l) ==
  /\ a.k = "exec" /\ q.k \in {"call", "resume"} /\ a.th = q.th
  /\ l = p /\ 1 <= a.n
  /\ p.b + a.n <= Len(th[a.th].ci)
  /\ \A i \in p.b + 1 .. p.b + a.n :
       th[a.th].ci[i] \in LuaFunctions /\ Suits(th[a.th].ci[i], p.m)

LinkErrMsg(q, p, a, l) ==
  /\ a.k = "errmsg" /\ q.k \in {"exec", "call", "resume"} /\ a.th = q.th
  /\ l.m = p.m /\ l.c = p.c /\ l.b >= p.b + Runs(q)

LinkResume(th, q, p, a, l) ==
  /\ a.k = "resume" /\ q.k = "exec" /\ a.th \in Coroutines /\ a.th # q.th
  /\ p.m = "rw" /\ l = [m |-> "rw", c |-> th[a.th].baseCcalls, b |-> 0]
  /\ th[q.th].nCcalls = p.c /\ Len(th[q.th].ci) = p.b + q.n + 1
  /\ HandlerSuits(th[q.th].errfunc, "rw")

Link(th, q, p, a, l) ==
  \/ LinkC(q, p, a, l) \/ LinkTry(q, p, a, l) \/ LinkCall(q, p, a, l)
  \/ LinkExec(th, q, p, a, l) \/ LinkErrMsg(q, p, a, l) \/ LinkResume(th, q, p, a, l)

\* The first protected call, in main.
Bottom(a, l) ==
  /\ a = [k |-> "try", th |-> Main, ci |-> 0, nCcalls |-> 0, errfunc |-> None]
  /\ l = [m |-> "disabled", c |-> 0, b |-> 0]

\* The C stack N of the threads th with levels g.
Linked(th, N, g) ==
  /\ N \in Seq(Activation) /\ g \in Seq(Level) /\ Len(N) = Len(g) /\ 1 <= Len(N)
  /\ Bottom(N[1], g[1])
  /\ \A i \in 2 .. Len(N) : Link(th, N[i - 1], g[i - 1], N[i], g[i])

\* Further up a thread has no less CallInfos and no less C calls, and more of
\* these from a luaD_call on.
Rising(th, N, g) ==
  /\ \A j \in 1 .. Len(N), i \in 1 .. Len(N) :
       i < j /\ N[i].th = N[j].th => g[i].b + Runs(N[i]) <= g[j].b /\ g[i].c <= g[j].c
  /\ \A i \in 1 .. Len(N) :
       /\ th[N[i].th].baseCcalls <= g[i].c
       /\ N[i].k = "call" => th[N[i].th].baseCcalls < g[i].c
       /\ th[N[i].th].status = "ok"

\* A thread that has resumed another does not come up again above it.
Apart(th, N) ==
  \A i \in 1 .. Len(N), j \in 1 .. Len(N), k \in 1 .. Len(N) :
    i < j /\ j <= k /\ N[i].th # N[j].th => N[i].th # N[k].th /\ 1 <= Len(th[N[i].th].ci)

\* The mode changes with a C function that calls, and with a resume.
Steady(N, g) ==
  \A i \in 1 .. Len(N), j \in 1 .. Len(N) :
    i < j /\ (\A k \in i + 1 .. j : N[k].k \notin {"c", "resume"})
      => g[j].m = g[i].m /\ N[j].th = N[i].th

Shape(th, N, g) == Linked(th, N, g) /\ Rising(th, N, g) /\ Apart(th, N) /\ Steady(N, g)

\* A thread that can be resumed.
Asleep(t) ==
  /\ t.status = "yield" =>
       /\ 2 <= Len(t.ci) /\ HandlerSuits(t.errfunc, "rw")
       /\ \A i \in 1 .. Len(t.ci) - 1 : t.ci[i] \in LuaFunctions /\ Suits(t.ci[i], "rw")
  /\ t.status = "ok" /\ t.ci = <<>> /\ t.start # None =>
       t.start \in SandboxLua /\ HandlerSuits(t.errfunc, "rw")

Rested(th, N) ==
  \A co \in Coroutines : (\A i \in 1 .. Len(N) : N[i].th # co) => Asleep(th[co])

\* The thread that runs, at level l in the activation a.
Fine(t, a, l) ==
  /\ t.mode = l.m /\ t.nCcalls = l.c /\ (t.mode = "disabled" => t.stack = None)
  /\ HandlerSuits(t.errfunc, IF a.k = "c" THEN a.saved.mode ELSE l.m)
  /\ l.b + Runs(a) <= Len(t.ci)

Whole(s) ==
  s = [th |-> s.th, native |-> s.native, nopencalls |-> s.nopencalls, lost |-> s.lost,
       thetaint |-> s.thetaint, todo |-> s.todo]

Typed(s) ==
  /\ Whole(s)
  /\ s.th \in [Threads -> Thread]
  /\ \A t \in Threads : Len(s.th[t].ci) < s.th[t].size

State(s, g) ==
  /\ Typed(s) /\ Shape(s.th, s.native, g) /\ Rested(s.th, s.native)
  /\ Fine(Cur(s), Act(s), g[Len(g)])

\* What the C code does next, and what it has on its stacks then.
Own(s, g) == Len(Cur(s).ci) - g[Len(g)].b - Runs(Act(s))

Doing(s, g) ==
  \/ s.todo = "run" /\ Act(s).k = "exec" /\ Own(s, g) = 0
  \/ /\ s.todo = "body" /\ Own(s, g) = 1 /\ Top(s) \in CFunctions /\ Suits(Top(s), g[Len(g)].m)
     /\ \/ Act(s).k = "exec" /\ Top(s) \in Callable(CallerIn(s))
        \/ Act(s).k = "call" /\ Top(s) \in {"yield", "bubblewrapped"}
  \/ s.todo \in {"raise", "throw"} /\ Act(s).k \in {"exec", "call", "resume"}
  \/ s.todo = "returned" /\ Act(s).k \in {"call", "resume"} /\ Own(s, g) = 0
  \/ s.todo \in {"ok", "failed"} /\ Act(s).k = "c" /\ Own(s, g) = 0

Good(s, g) == State(s, g) /\ Doing(s, g)

IInv == vm.todo = "end" \/ \E g : Good(vm, g)

(***************************************************************************)
(* From one state to the next                                              *)
(***************************************************************************)

\* From th to now only the thread that runs has gone on, and it has left the
\* CallInfos alone that activations of luaV_execute run.
Onward(th, now, N, g) ==
  LET t == N[Len(N)].th
      d == g[Len(N)].b + Runs(N[Len(N)])
  IN /\ \A i \in 1 .. Len(N) : N[i].th # t => now[N[i].th] = th[N[i].th]
     /\ now[t].baseCcalls = th[t].baseCcalls /\ now[t].status = th[t].status
     /\ Len(now[t].ci) \in Nat /\ d <= Len(now[t].ci)
     /\ \A i \in 1 .. d : now[t].ci[i] = th[t].ci[i]

\* The thread that runs has come to u, the C stack to N.
Now(r, s, u, N) == Whole(r) /\ r.th = [s.th EXCEPT ![Run(s)] = u] /\ r.native = N

Back(r, s, u, n) == Now(r, s, u, SubSeq(s.native, 1, n))

Ahead(r, s, u, a) == Now(r, s, u, Append(s.native, a))

\* u is the thread that runs in s, gone on above its first d CallInfos.
Goes(s, u, d) ==
  /\ u \in Thread /\ Len(u.ci) < u.size
  /\ u.baseCcalls = Cur(s).baseCcalls /\ u.status = Cur(s).status
  /\ d <= Len(u.ci) /\ \A i \in 1 .. d : u.ci[i] = Cur(s).ci[i]

Onto(s, u, a, l) == Goes(s, u, l.b + Runs(a))

\* The counts are as they were.
Quiet(r, s) == r.nopencalls = s.nopencalls /\ r.lost = s.lost

\* Nothing of the counts and no CallInfo has changed.
Alike(r, s) == Quiet(r, s) /\ \A t \in Threads : r.th[t].ci = s.th[t].ci

\* From the n-th activation on the C stack is that of the thread that runs.
Within(s, n) == \A k \in n .. Len(s.native) : s.native[k].th = Run(s)

\* The n CallInfos of ci from b on are Lua functions that run in mode m.
RunsIn(ci, b, n, m) ==
  b + n <= Len(ci) /\ \A i \in b + 1 .. b + n : ci[i] \in LuaFunctions /\ Suits(ci[i], m)

\* The same mode, C calls and handler, no taint that the host would see and none
\* washed off.
Kept(u, t) ==
  /\ u \in Thread /\ u.mode = t.mode /\ (t.mode = "disabled" => u.stack = t.stack)
  /\ (t.stack # None => u.stack # None)
  /\ u.nCcalls = t.nCcalls /\ u.baseCcalls = t.baseCcalls
  /\ u.errfunc = t.errfunc /\ u.status = t.status

\* The same CallInfos up to the n-th, and no others.
Keeps(u, t, n) ==
  /\ Len(u.ci) = n /\ Len(u.ci) < u.size
  /\ \A i \in 1 .. Len(u.ci) : u.ci[i] = t.ci[i]

\* One CallInfo more.
Enters(u, t, f) ==
  /\ Len(u.ci) = Len(t.ci) + 1 /\ Len(u.ci) < u.size
  /\ u.ci[Len(u.ci)] = f
  /\ \A i \in 1 .. Len(t.ci) : u.ci[i] = t.ci[i]

\* A call of f is due.
Ready(s, g, f) ==
  /\ State(s, g) /\ Own(s, g) = 0 /\ Act(s).k \in {"exec", "call", "resume"}
  /\ f \in Functions /\ Suits(f, g[Len(g)].m)
  /\ f \in CFunctions => \/ Act(s).k = "exec" /\ f \in Callable(Top(s))
                         \/ Act(s).k = "call" /\ f \in {"yield", "bubblewrapped"}

\* u is the thread that runs, in the mode and with the taint that f sets for
\* what it calls.
Switches(u, t, f) ==
  /\ u \in Thread /\ u.ci = t.ci /\ u.size = t.size
  /\ u.mode = Switched(f, t.mode) /\ (u.mode = "disabled" => u.stack = None)
  /\ u.nCcalls = t.nCcalls /\ u.baseCcalls = t.baseCcalls
  /\ u.errfunc = t.errfunc /\ u.status = t.status

\* u is the thread that runs, in a mode it had before.
Restores(u, t, mode) ==
  /\ u \in Thread /\ u.ci = t.ci /\ u.size = t.size
  /\ u.mode = mode /\ (mode = "disabled" => u.stack = None)
  /\ u.nCcalls = t.nCcalls /\ u.baseCcalls = t.baseCcalls
  /\ u.errfunc = t.errfunc /\ u.status = t.status

\* luaV_execute has taken up the function on top of the thread.
Reentered(u) == \E w \in Thread : u = Reenter(w, u.ci[Len(u.ci)])

\* co is not on the C stack, and x takes its place.
Aside(r, s, co, x, N) ==
  /\ \A i \in 1 .. Len(s.native) : s.native[i].th # co
  /\ Whole(r) /\ r.th = [s.th EXCEPT ![co] = x] /\ r.native = N

\* x is ready to run on the C stack of what resumes it.
Awake(x) ==
  /\ x \in Thread /\ Len(x.ci) < x.size /\ x.mode = "rw" /\ x.status = "ok"
  /\ x.nCcalls = x.baseCcalls /\ HandlerSuits(x.errfunc, "rw")

(***************************************************************************)
(* What yields, and what is counted                                        *)
(***************************************************************************)

\* No thread yields from s to r.
NoYield(r, s) == \A t \in Threads : r.th[t].status = "yield" => s.th[t].status = "yield"

\* A state whose thread that runs is one.
Sound(s) ==
  /\ Whole(s) /\ s.native \in Seq(Activation)
  /\ s.th \in [Threads -> Thread] /\ Run(s) \in Threads /\ Len(Cur(s).ci) < Cur(s).size

\* From s to r the thread that runs comes to u and still runs.
Steps(r, s, u, N) ==
  /\ Now(r, s, u, N) /\ N \in Seq(Activation) /\ N[Len(N)].th = Run(s)
  /\ u \in Thread /\ Len(u.ci) < u.size /\ u.status = Cur(s).status

\* luaV_execute takes up the Lua functions of a coroutine that had yielded.
TakenUp(s) ==
  Push(Unwind(s, Len(Cur(s).ci) - 1),
       [k |-> "exec", th |-> Run(s), n |-> Len(Cur(s).ci) - 1])

\* A coroutine has been put on the C stack, and runs as secure as who resumes it.
Resumes(r, s) ==
  /\ Run(r) \in Coroutines
  /\ Aside(r, s, Run(r), Cur(r), Append(s.native, [k |-> "resume", th |-> Run(r)]))
  /\ Cur(r).ci = s.th[Run(r)].ci /\ Cur(r).stack = Cur(s).stack

\* Control goes back from the i-th activation, a resume, to the thread that
\* resumed: the coroutine is left as x, the mode and the taint are u's.
Hands(r, s, i, x, u) ==
  LET from == s.native[i - 1].th
  IN /\ Whole(r) /\ r.native = SubSeq(s.native, 1, i - 1)
     /\ r.th = [s.th EXCEPT ![Run(s)] = x, ![from] = TaintThread(s.th[from], u)]

\* The open calls of f, each by its thread and its place there.
CallsOf(th, f) ==
  {c \in Threads \X Nat : c[2] \in 1 .. Len(th[c[1]].ci) /\ th[c[1]].ci[c[2]] = f}

\* The counts `open' are those of the calls that are open and the lost ones.
Tally(th, open, lost) ==
  /\ open \in [Functions -> Int] /\ lost \in [Functions -> Int]
  /\ \A f \in Functions : /\ IsFiniteSet(CallsOf(th, f))
                          /\ open[f] = lost[f] + Cardinality(CallsOf(th, f))

\* The places above the n-th at which t has f.
Above(t, n, f) == {i \in n + 1 .. Len(t.ci) : t.ci[i] = f}

\* From th to th2 only t has changed: its calls above the n-th are gone.
Leaves(th2, th, t, n) ==
  /\ Len(th[t].ci) \in Nat /\ n \in 0 .. Len(th[t].ci) /\ Len(th2[t].ci) = n
  /\ \A i \in 1 .. n : th2[t].ci[i] = th[t].ci[i]
  /\ \A x \in Threads : x # t => th2[x] = th[x]

\* Every closure counts its open calls, but for those that are lost.
Counted(s) == Tally(s.th, s.nopencalls, s.lost)

\* In luaD_call r has come deeper than s: the thread counts a C call more, and
\* an activation stands above.  f is entered, or an error raised.
Deeper(s, f, r, u, a, N) ==
  /\ u \in Thread /\ u.ci = Cur(s).ci /\ u.size = Cur(s).size /\ u.mode = Cur(s).mode
  /\ u.stack = Cur(s).stack /\ u.errfunc = Cur(s).errfunc
  /\ u.baseCcalls = Cur(s).baseCcalls /\ u.status = Cur(s).status
  /\ u.nCcalls = Cur(s).nCcalls + 1 /\ Len(u.ci) \in Nat
  /\ a \in Activation /\ a.k = "call" /\ a.th = Run(s)
  /\ N = Append(s.native, a) /\ N \in Seq(Activation) /\ N[Len(N)] = a /\ 1 <= Len(N)
  /\ Now(r, s, u, N) /\ Quiet(r, s)
  /\ LuaDCall(s, f) \in {Precall(r, f), Do(r, "raise"), Do(r, "throw")}

(***************************************************************************)
(* What taint sticks to                                                    *)
(***************************************************************************)

\* The i-th call of the thread u is below the k-th activation, of a C function.
Below(N, u, i, k) ==
  IF N[k].th = u THEN k < Len(N) => i <= N[k + 1].ci
  ELSE \A j \in k .. Len(N) : N[j].th # u

\* The C functions whose protected call stands above that call.
Shadow(N, u, i) == {k \in 1 .. Len(N) : N[k].k = "c" /\ Below(N, u, i, k)}

\* The thread is on the C stack.
On(N, u) == \E j \in 1 .. Len(N) : N[j].th = u

\* It is a call of an insecure function in a thread on the C stack, made since
\* the thread was resumed or on top of it.
Hot(th, N, since, u, i) ==
  /\ On(N, u)
  /\ i \in 1 .. Len(th[u].ci) /\ TaintOf(th[u].ci[i]) # None
  /\ since[u] <= i \/ i = Len(th[u].ci)

\* Up to the first boundary among S what the C functions have kept is tainted,
\* and what runs if there is none.
Tells(N, S, stack) ==
  /\ \A k \in S : (\A j \in S : j < k => N[j].f \notin Boundary) => N[k].saved.stack # None
  /\ (\A j \in S : N[j].f \notin Boundary) => stack # None

\* What taint sticks to, as an invariant: of every such call, the C functions
\* above it up to the first boundary have kept a taint, and without one what runs
\* is tainted.
Sticks(s, since) ==
  \A u \in Threads, i \in Nat :
    Hot(s.th, s.native, since, u, i) =>
      Tells(s.native, Shadow(s.native, u, i), Cur(s).stack)

\* The stack M is N as far as p, but for what luaV_execute runs there; above p
\* neither has a C function, nor a thread but that at p and x.
Along(M, N, p, x) ==
  /\ p \in 1 .. Len(M) /\ p \in 1 .. Len(N)
  /\ \A k \in 1 .. p - 1 : M[k] = N[k]
  /\ \/ M[p] = N[p]
     \/ M[p].k = "exec" /\ N[p].k = "exec" /\ M[p].th = N[p].th /\ (p = 1 \/ N[p - 1].k # "c")
  /\ \A k \in p + 1 .. Len(M) : M[k].k # "c" /\ M[k].th \in {N[p].th, x}
  /\ \A k \in p + 1 .. Len(N) : N[k].k # "c" /\ N[k].th \in {N[p].th, x}

\* The same C functions above the call, on both stacks or on none.
Alongside(M, N, u, i) ==
  /\ Shadow(M, u, i) = Shadow(N, u, i)
  /\ \A k \in Shadow(N, u, i) : M[k] = N[k]
  /\ On(M, u) <=> On(N, u)

\* The protected calls of the thread t were made when it had at most n calls.
Fits(N, t, n) ==
  \A k \in 1 .. Len(N) : N[k].k = "c" /\ N[k].th = t =>
    k < Len(N) /\ N[k + 1].k = "try" /\ N[k + 1].ci <= n

\* The thread t has come to u on the stack M, all below its top was there before:
\* every call of an insecure function that counts did so before, or it is on top
\* and has tainted the thread.
Follows(u, t, since, M, th) ==
  \A i \in 1 .. Len(u.ci) :
    TaintOf(u.ci[i]) # None /\ (since <= i \/ i = Len(u.ci)) =>
      \/ i \in 1 .. Len(t.ci) /\ u.ci[i] = t.ci[i] /\ (since <= i \/ i = Len(t.ci))
      \/ i = Len(u.ci) /\ u.stack # None /\ Shadow(M, th, i) = {}

\* What a resumed thread runs right on its resume.
Rest(N, i) == IF i < Len(N) /\ N[i + 1].k = "exec" THEN N[i + 1].n ELSE 0

\* No thread has been resumed above that.
Floors(N, since) ==
  /\ since[Main] = 0
  /\ \A i \in 1 .. Len(N) : N[i].k = "resume" => since[N[i].th] <= Rest(N, i)

\* Only threads of T are on the C stack.
Among(N, T) == \A i \in 1 .. Len(N) : N[i].th \in T

\* All of it, for threads of T only.
Stuck(s, since, T) == Sticks(s, since) /\ Floors(s.native, since) /\ Among(s.native, T)

\* The stack M is N as far as p, but for what luaV_execute runs there, which has
\* not become less, and goes on in the thread there with no resume.
Rises(M, N, p) ==
  /\ p \in 1 .. Len(M) /\ p \in 1 .. Len(N) /\ \A k \in 1 .. p - 1 : M[k] = N[k]
  /\ \/ M[p] = N[p]
     \/ M[p].k = "exec" /\ N[p].k = "exec" /\ M[p].th = N[p].th /\ N[p].n <= M[p].n
  /\ \A k \in p + 1 .. Len(M) : M[k].k # "resume" /\ M[k].th = N[p].th
  /\ N[p].k = "resume" /\ p < Len(N) => N[p + 1].k # "exec"

\* A sound state in which something is on the C stack, luaV_execute not right on
\* a C function.
Firm(s) ==
  /\ Sound(s) /\ 1 <= Len(s.native)
  /\ Act(s).k = "exec" => Len(s.native) = 1 \/ s.native[Len(s.native) - 1].k # "c"

\* luaV_execute runs one more function, or is called.
Executed(s) ==
  IF Act(s).k = "exec" THEN [s.native EXCEPT ![Len(s.native)].n = Act(s).n + 1]
  ELSE Append(s.native, [k |-> "exec", th |-> Run(s), n |-> 1])

\* What runs in Lua has nothing above it, and taints what it runs in.
Bare(r) ==
  r.todo = "run" /\ TaintOf(Top(r)) # None =>
    Cur(r).mode = "rw" /\ Shadow(r.native, Run(r), Len(Cur(r).ci)) = {}

\* The stack M with a C function at n on top, and perhaps its protected call: all
\* calls so far are below that function.
Tops(N, M, n) ==
  /\ n \in 2 .. Len(N) /\ Len(M) = n - 1 /\ \A k \in 1 .. n - 1 : M[k] = N[k]
  /\ N[n].k = "c" /\ N[n - 1].k # "c" /\ N[n].th = N[n - 1].th
  /\ Len(N) = n \/ Len(N) = n + 1
  /\ Len(N) = n + 1 => N[n + 1].k # "c" /\ N[n + 1].th = N[n].th

\* That function, and no other, is above a call besides those that were.
Adds(N, M, n, u, i) ==
  /\ Shadow(N, u, i) = Shadow(M, u, i) \cup {n}
  /\ \A k \in Shadow(M, u, i) : k < n /\ M[k] = N[k]
  /\ On(N, u) <=> On(M, u)

\* What taint sticks to in s it sticks to in r.
Clings(r, s) ==
  \A since \in [Threads -> Nat] : \A T : Stuck(s, since, T) => Stuck(r, since, T)

\* A step has led to the end of a C function: to where it returns, or raises an
\* error, and the calls have been counted.
Leads ==
  \E r, h : /\ State(r, h) /\ Own(r, h) = 1 /\ Act(r).k \in {"exec", "call"}
            /\ vm' \in {CReturn(r), Do(r, "raise")}
            /\ Counted(vm) => Counted(r)
            /\ Clings(r, vm)

(***************************************************************************)
(* The start, and the C functions that call                                *)
(***************************************************************************)

\* The state when the function h of wowless is called first.
Started(h) ==
  [th |-> [t \in Threads |-> IF t = Main
                             THEN [NewThread EXCEPT !.ci = <<h>>, !.nCcalls = 1]
                             ELSE NewThread],
   native |-> <<[k |-> "try", th |-> Main, ci |-> 0, nCcalls |-> 0, errfunc |-> None],
                [k |-> "call", th |-> Main], [k |-> "exec", th |-> Main, n |-> 1]>>,
   nopencalls |-> [f \in Functions |-> IF f = h THEN 1 ELSE 0],
   lost |-> [f \in Functions |-> 0], thetaint |-> None, todo |-> "run"]

\* The levels wowless starts with: its main chunk, called in main.
StartLevels ==
  <<[m |-> "disabled", c |-> 0, b |-> 0],
    [m |-> "disabled", c |-> 1, b |-> 0],
    [m |-> "disabled", c |-> 1, b |-> 0]>>

\* The C functions that call in protected mode, and come back.
Switch ==
  \/ ProtectedCall \/ SecureCall \/ Delegate
  \/ BubblewrapEnter \/ BubblewrapExit \/ CallSafely \/ CallSandbox

\* u is the thread t but for its mode, its taint and its handler.
Same(u, t) ==
  /\ u \in Thread /\ u.ci = t.ci /\ u.size = t.size /\ u.status = t.status
  /\ u.nCcalls = t.nCcalls

\* The counts are right now.
AllCounted == Counted(vm)

(***************************************************************************)
(* What taint sticks to, over every step                                   *)
(***************************************************************************)

\* The protected call above the n-th activation is over.
Cuts(r, s, e, n) ==
  /\ n \in 1 .. Len(s.native) /\ Within(s, n) /\ Back(r, s, e, n) /\ Len(e.ci) \in Nat
  /\ \A k \in n + 1 .. Len(s.native) : s.native[k].k # "c"
  /\ s.native[n].k = "c" /\ n < Len(s.native) =>
       s.native[n + 1].k = "try" /\ Len(e.ci) <= s.native[n + 1].ci
  /\ s.native[n].k = "resume" /\ n < Len(s.native) => s.native[n + 1].k # "exec"
  /\ Cur(s).stack # None => e.stack # None

\* What `resumed' is: a number of CallInfos that the thread has.
Remembered ==
  resumed \in [Threads -> Nat] /\ \A t \in Threads : resumed[t] <= Len(vm.th[t].ci)

\* A thread that has been resumed since it yielded is on the C stack in `vm' only
\* when it was not before.
Awoken(t) == vm.th[t].status = "yield" /\ vm'.th[t].status = "ok"

\* What taint sticks to in `vm'.
TaintHolds == Remembered /\ Sticks(vm, resumed) /\ Floors(vm.native, resumed)

\* The threads that are on the C stack have that status.
Up == {t \in Threads : vm.th[t].status = "ok"}

\* The stack M is N with the resume of co on top, and maybe one activation more.
Joins(M, N, co) ==
  LET n == Len(N)
  IN /\ n \in Nat /\ 1 <= n /\ N[n].k = "exec" /\ \A i \in 1 .. n : N[i].th # co
     /\ Len(M) \in {n + 1, n + 2} /\ \A i \in 1 .. n : M[i] = N[i]
     /\ M[n + 1].k = "resume"
     /\ \A i \in n + 1 .. Len(M) : M[i].th = co /\ M[i].k # "c"
     /\ Len(M) = n + 2 => M[n + 2].k # "resume"

\* The hot calls of co in r are covered by no other call, and r is tainted.
Open(r, since, co) ==
  \A i \in Nat : Hot(r.th, r.native, since, co, i) =>
    Shadow(r.native, co, i) = {} /\ Cur(r).stack # None

\* The invariant of the C stack, and what taint sticks to.
TaintInv == vm.todo = "end" \/ (IInv /\ TaintHolds)

=============================================================================
