----------------------------- MODULE CallsProofs -----------------------------
(***************************************************************************)
(* For any functions, coroutines and limits: wowless runs with taint off   *)
(* and nothing tainted, addons with taint on, whatever calls, errors,      *)
(* message handlers and coroutines came before.                            *)
(*                                                                         *)
(* The mode is switched in one function and switched back in another, with *)
(* anything in between.  The invariant therefore goes through the C stack  *)
(* from the bottom and says at every activation what mode, how many C      *)
(* calls and how many CallInfos belong to it; a protected call finds them  *)
(* again when all above it is gone.  From the same levels it follows that  *)
(* a yield cuts off no C call.  The counts of the open calls of every      *)
(* closure are then kept, step by step.                                    *)
(*                                                                         *)
(* What is tainted stays so: over each call of an insecure function stand  *)
(* C functions that keep the taint of their caller and may put it back.    *)
(* From the call up all of them have kept a taint as far as the first      *)
(* boundary, and where there is none what runs is tainted.                 *)
(***************************************************************************)
EXTENDS CallsInvariant, SequenceTheorems, FiniteSetTheorems, TLAPS

(***************************************************************************)
(* Sequences                                                               *)
(***************************************************************************)

\* The first n elements.
LEMMA FirstOnes ==
  ASSUME NEW S, NEW s \in Seq(S), NEW n \in 0 .. Len(s)
  PROVE  /\ SubSeq(s, 1, n) \in Seq(S) /\ Len(SubSeq(s, 1, n)) = n
         /\ \A i \in 1 .. n : SubSeq(s, 1, n)[i] = s[i]
<1>1. \A i \in 1 .. n : s[i] \in S
  BY LenProperties
<1> QED BY <1>1, SubSeqProperties

\* One more.
LEMMA OneMore ==
  ASSUME NEW S, NEW s \in Seq(S), NEW x \in S
  PROVE  /\ Append(s, x) \in Seq(S) /\ Len(Append(s, x)) = Len(s) + 1
         /\ Append(s, x)[Len(s) + 1] = x
         /\ \A i \in 1 .. Len(s) : Append(s, x)[i] = s[i]
         /\ Len(s) \in Nat
BY AppendProperties, LenProperties

\* A set of numbers up to n has a greatest one, and Max is it.
LEMMA Greatest ==
  ASSUME NEW n \in Nat, NEW S \in SUBSET (1 .. n), S # {}
  PROVE  Max(S) \in S /\ \A x \in S : x <= Max(S)
<1> DEFINE F == FiniteSubsetsOf(Nat)
           R == StrictSubsetOrdering(Nat)
           U == {x + 1 .. n : x \in S}
<1>1. IsWellFoundedOn(R, F)
  BY FS_StrictSubsetOrderingWellFounded
<1>2. U \subseteq F /\ U # {}
  <2>1. \A x \in S : x + 1 .. n \in F
    BY FS_Interval DEF FiniteSubsetsOf
  <2> QED BY <2>1
<1>3. PICK u \in U : \A y \in U : ~(<<y, u>> \in R)
  <2> HIDE DEF R, F, U
  <2> QED BY <1>1, <1>2, WFMin
<1>4. PICK m \in S : u = m + 1 .. n
  OBVIOUS
<1>5. ASSUME NEW x \in S, m < x PROVE FALSE
  <2>1. x + 1 .. n \subseteq m + 1 .. n /\ x \in m + 1 .. n /\ x \notin x + 1 .. n
    BY <1>5
  <2>2. <<x + 1 .. n, m + 1 .. n>> \in R
    BY <2>1 DEF StrictSubsetOrdering
  <2> QED BY <1>3, <1>4, <2>2
<1>6. \E x \in S : \A y \in S : x >= y
  BY <1>5
<1> QED BY <1>6 DEF Max

-----------------------------------------------------------------------------
(* The C stack: cut off, pushed on, with threads that go on *)

\* What is below stays as it is.
LEMMA CutShape ==
  ASSUME NEW th, NEW N, NEW g, Shape(th, N, g), NEW n \in 1 .. Len(N)
  PROVE  /\ Shape(th, SubSeq(N, 1, n), SubSeq(g, 1, n))
         /\ Len(SubSeq(N, 1, n)) = n /\ Len(SubSeq(g, 1, n)) = n
         /\ SubSeq(N, 1, n)[n] = N[n] /\ SubSeq(g, 1, n)[n] = g[n]
<1> DEFINE M == SubSeq(N, 1, n)
           e == SubSeq(g, 1, n)
<1>1. N \in Seq(Activation) /\ g \in Seq(Level) /\ Len(N) = Len(g) /\ Len(N) \in Nat
  BY LenProperties DEF Shape, Linked
<1>2. /\ M \in Seq(Activation) /\ Len(M) = n /\ \A i \in 1 .. n : M[i] = N[i]
      /\ e \in Seq(Level) /\ Len(e) = n /\ \A i \in 1 .. n : e[i] = g[i]
  BY <1>1, FirstOnes
<1> HIDE DEF M, e
<1>3. Linked(th, M, e)
  <2>1. Bottom(M[1], e[1])
    BY <1>1, <1>2 DEF Shape, Linked
  <2>2. ASSUME NEW i \in 2 .. n PROVE Link(th, M[i - 1], e[i - 1], M[i], e[i])
    <3>1. Link(th, N[i - 1], g[i - 1], N[i], g[i])
      BY <1>1 DEF Shape, Linked
    <3>2. i - 1 \in 1 .. n /\ i \in 1 .. n
      OBVIOUS
    <3> QED BY <1>2, <3>1, <3>2
  <2> QED BY <1>1, <1>2, <2>1, <2>2 DEF Linked
<1>4. Rising(th, M, e)
  <2>1. ASSUME NEW j \in 1 .. n, NEW i \in 1 .. n, i < j, M[i].th = M[j].th
        PROVE  e[i].b + Runs(M[i]) <= e[j].b /\ e[i].c <= e[j].c
    BY <1>1, <1>2, <2>1 DEF Shape, Rising
  <2>2. ASSUME NEW i \in 1 .. n
        PROVE  /\ th[M[i].th].baseCcalls <= e[i].c
               /\ M[i].k = "call" => th[M[i].th].baseCcalls < e[i].c
               /\ th[M[i].th].status = "ok"
    BY <1>1, <1>2 DEF Shape, Rising
  <2> QED BY <1>2, <2>1, <2>2 DEF Rising
<1>5. Apart(th, M)
  BY <1>1, <1>2 DEF Shape, Apart
<1>6. Steady(M, e)
  <2> SUFFICES ASSUME NEW i \in 1 .. n, NEW j \in 1 .. n, i < j,
                      \A k \in i + 1 .. j : M[k].k \notin {"c", "resume"}
               PROVE  e[j].m = e[i].m /\ M[j].th = M[i].th
    BY <1>2 DEF Steady
  <2>1. \A k \in i + 1 .. j : N[k].k \notin {"c", "resume"}
    BY <1>2
  <2>2. g[j].m = g[i].m /\ N[j].th = N[i].th
    BY <1>1, <2>1, SMTT(60) DEF Shape, Steady
  <2> QED BY <1>2, <2>2
<1> QED BY <1>2, <1>3, <1>4, <1>5, <1>6 DEF Shape, M, e

\* The thread that runs goes on above what the stack holds of it.
LEMMA ThreadShape ==
  ASSUME NEW th, NEW N, NEW g, Shape(th, N, g), NEW now, Onward(th, now, N, g)
  PROVE  Shape(now, N, g)
<1> DEFINE t == N[Len(N)].th
           d == g[Len(N)].b + Runs(N[Len(N)])
<1>o. /\ \A i \in 1 .. Len(N) : N[i].th # t => now[N[i].th] = th[N[i].th]
      /\ now[t].baseCcalls = th[t].baseCcalls /\ now[t].status = th[t].status
      /\ Len(now[t].ci) \in Nat /\ d <= Len(now[t].ci)
      /\ \A i \in 1 .. d : now[t].ci[i] = th[t].ci[i]
  BY DEF Onward
<1>e. t = N[Len(N)].th /\ d = g[Len(N)].b + Runs(N[Len(N)])
  OBVIOUS
<1> HIDE DEF t, d
<1> USE <1>o, <1>e
<1>1. N \in Seq(Activation) /\ g \in Seq(Level) /\ Len(N) = Len(g) /\ Len(N) \in Nat /\ 1 <= Len(N)
  BY LenProperties DEF Shape, Linked
<1>2. \A i \in 1 .. Len(N) : g[i] \in Level /\ N[i] \in Activation /\ g[i].b \in Nat
  <2>1. \A i \in 1 .. Len(N) : g[i] \in Level /\ N[i] \in Activation
    BY <1>1, ElementOfSeq
  <2> QED BY <2>1 DEF Level
<1>3. \A i \in 1 .. Len(N) : Runs(N[i]) \in Nat
  BY <1>2 DEF Runs, Activation
<1>4. \A i \in 1 .. Len(N) : N[i].th = t => g[i].b + Runs(N[i]) <= d
  <2> SUFFICES ASSUME NEW i \in 1 .. Len(N), N[i].th = t
               PROVE  g[i].b + Runs(N[i]) <= d
    OBVIOUS
  <2>1. CASE i = Len(N)
    BY <1>2, <1>3, <2>1
  <2>2. CASE i < Len(N)
    <3>1. Len(N) \in 1 .. Len(N)
      BY <1>1
    <3>2. g[i].b + Runs(N[i]) <= g[Len(N)].b
      BY <2>2, <3>1 DEF Shape, Rising
    <3> QED BY <1>2, <1>3, <3>1, <3>2
  <2> QED BY <1>1, <2>1, <2>2
<1>5. \A i \in 2 .. Len(N) : Link(now, N[i - 1], g[i - 1], N[i], g[i])
  <2> SUFFICES ASSUME NEW i \in 2 .. Len(N)
               PROVE  Link(now, N[i - 1], g[i - 1], N[i], g[i])
    OBVIOUS
  <2> DEFINE q == N[i - 1]
             p == g[i - 1]
             a == N[i]
             l == g[i]
  <2>1. Link(th, q, p, a, l)
    BY DEF Shape, Linked
  <2>2. CASE LinkExec(th, q, p, a, l)
    <3>1. p = l /\ a.k = "exec" /\ Runs(a) = a.n
      BY <2>2 DEF LinkExec, Runs
    <3>2. CASE a.th = t
      <4>1. i \in 1 .. Len(N) /\ i - 1 \in 1 .. Len(N) /\ Len(N) \in 1 .. Len(N)
        BY <1>1
      <4>2. p.b + a.n <= d /\ p.b \in Nat /\ a.n \in Nat /\ d \in Nat
        BY <4>1, <1>2, <1>3, <1>4, <3>1, <3>2
      <4> HIDE DEF q, p, a, l
      <4>3. \A x \in p.b + 1 .. p.b + a.n : now[t].ci[x] = th[t].ci[x]
        BY <4>2
      <4>4. p.b + a.n <= Len(now[t].ci)
        BY <4>2
      <4>5. LinkExec(now, q, p, a, l)
        BY <2>2, <3>2, <4>3, <4>4 DEF LinkExec
      <4> QED BY <4>5 DEF Link, q, p, a, l
    <3>3. CASE a.th # t
      BY <2>2, <3>3 DEF LinkExec, Link
    <3> QED BY <3>2, <3>3
  <2>3. CASE LinkResume(th, q, p, a, l)
    <3>1. q.th # t
      BY <1>1, <2>3 DEF Shape, Apart, LinkResume
    <3>2. now[q.th] = th[q.th]
      BY <1>1, <3>1, SMTT(60)
    <3>3. now[a.th].baseCcalls = th[a.th].baseCcalls
      BY <1>1
    <3> QED BY <2>3, <3>2, <3>3 DEF LinkResume, Link
  <2> QED BY <2>1, <2>2, <2>3 DEF Link
<1>6. Rising(now, N, g)
  BY DEF Shape, Rising
<1>7. Apart(now, N)
  <2> SUFFICES ASSUME NEW i \in 1 .. Len(N), NEW j \in 1 .. Len(N), NEW k \in 1 .. Len(N),
                      i < j, j <= k, N[i].th # N[j].th
               PROVE  N[i].th # N[k].th /\ 1 <= Len(now[N[i].th].ci)
    BY DEF Apart
  <2>1. N[i].th # N[k].th /\ 1 <= Len(th[N[i].th].ci)
    BY DEF Shape, Apart
  <2>2. N[i].th # t
    BY <1>1 DEF Shape, Apart
  <2> QED BY <2>1, <2>2
<1> QED BY <1>5, <1>6, <1>7 DEF Shape, Linked

\* One more activation.
LEMMA PushShape ==
  ASSUME NEW th, NEW N, NEW g, Shape(th, N, g), NEW a \in Activation, NEW l \in Level,
         Link(th, N[Len(N)], g[Len(N)], a, l),
         th[a.th].status = "ok", th[a.th].baseCcalls \in Nat,
         a.k = "resume" => \A i \in 1 .. Len(N) : N[i].th # a.th
  PROVE  /\ Shape(th, Append(N, a), Append(g, l))
         /\ Len(Append(N, a)) = Len(N) + 1 /\ Len(Append(g, l)) = Len(N) + 1
         /\ Append(N, a)[Len(N) + 1] = a /\ Append(g, l)[Len(N) + 1] = l
         /\ SubSeq(Append(N, a), 1, Len(N)) = N
<1> DEFINE M == Append(N, a)
           e == Append(g, l)
           n == Len(N)
           q == N[n]
           p == g[n]
<1>1. N \in Seq(Activation) /\ g \in Seq(Level) /\ Len(N) = Len(g) /\ Len(N) \in Nat /\ 1 <= n
  BY LenProperties DEF Shape, Linked
<1>2. /\ M \in Seq(Activation) /\ Len(M) = n + 1 /\ M[n + 1] = a /\ \A i \in 1 .. n : M[i] = N[i]
      /\ e \in Seq(Level) /\ Len(e) = n + 1 /\ e[n + 1] = l /\ \A i \in 1 .. n : e[i] = g[i]
  BY <1>1, OneMore
<1>3. \A i \in 1 .. n : g[i] \in Level /\ N[i] \in Activation /\ g[i].b \in Nat /\ g[i].c \in Nat
  <2>1. \A i \in 1 .. n : g[i] \in Level /\ N[i] \in Activation
    BY <1>1, ElementOfSeq
  <2> QED BY <2>1 DEF Level
<1>4. \A i \in 1 .. n : Runs(N[i]) \in Nat
  BY <1>3 DEF Runs, Activation
<1>5. l.b \in Nat /\ l.c \in Nat /\ n \in 1 .. n
  BY <1>1 DEF Level
<1>6. SubSeq(M, 1, n) = N
  <2>1. Len(SubSeq(M, 1, n)) = n /\ SubSeq(M, 1, n) \in Seq(Activation)
        /\ \A i \in 1 .. n : SubSeq(M, 1, n)[i] = N[i]
    BY <1>2, FirstOnes
  <2> QED BY <1>1, <2>1, SeqEqual
<1>7. \/ a.k # "resume" /\ a.th = q.th /\ p.b + Runs(q) <= l.b /\ p.c <= l.c
         /\ (a.k = "call" => p.c < l.c) /\ (a.k # "c" => l.m = p.m)
      \/ LinkResume(th, q, p, a, l)
  <2>1. p \in Level /\ q \in Activation /\ p.b \in Nat /\ p.c \in Nat /\ Runs(q) \in Nat
    BY <1>3, <1>4, <1>5
  <2> HIDE DEF p, q
  <2>2. Link(th, q, p, a, l)
    BY DEF p, q
  <2>3. CASE LinkC(q, p, a, l)
    BY <2>1, <2>3 DEF LinkC
  <2>4. CASE LinkTry(q, p, a, l)
    BY <2>1, <2>4 DEF LinkTry, Runs
  <2>5. CASE LinkCall(q, p, a, l)
    BY <2>1, <2>5 DEF LinkCall, Runs
  <2>6. CASE LinkExec(th, q, p, a, l)
    BY <2>1, <2>6 DEF LinkExec, Runs
  <2>7. CASE LinkErrMsg(q, p, a, l)
    BY <2>1, <2>7 DEF LinkErrMsg
  <2> QED BY <2>2, <2>3, <2>4, <2>5, <2>6, <2>7 DEF Link
<1> HIDE DEF M, e
<1>8. Linked(th, M, e)
  <2>1. \A i \in 2 .. n + 1 : Link(th, M[i - 1], e[i - 1], M[i], e[i])
    <3> SUFFICES ASSUME NEW i \in 2 .. n + 1 PROVE Link(th, M[i - 1], e[i - 1], M[i], e[i])
      OBVIOUS
    <3>1. CASE i = n + 1
      BY <1>1, <1>2, <3>1
    <3>2. CASE i \in 2 .. n
      <4>1. i - 1 \in 1 .. n /\ i \in 1 .. n
        BY <3>2
      <4>2. Link(th, N[i - 1], g[i - 1], N[i], g[i])
        BY <3>2 DEF Shape, Linked
      <4> QED BY <1>2, <4>1, <4>2
    <3> QED BY <1>1, <3>1, <3>2
  <2>2. Bottom(M[1], e[1])
    BY <1>1, <1>2 DEF Shape, Linked
  <2> QED BY <1>1, <1>2, <2>1, <2>2 DEF Linked
<1>9. Rising(th, M, e)
  <2>1. \A i \in 1 .. n : N[i].th = q.th => g[i].b + Runs(N[i]) <= p.b + Runs(q) /\ g[i].c <= p.c
    <3> SUFFICES ASSUME NEW i \in 1 .. n, N[i].th = q.th
                 PROVE  g[i].b + Runs(N[i]) <= p.b + Runs(q) /\ g[i].c <= p.c
      OBVIOUS
    <3>1. CASE i = n
      BY <1>3, <1>4, <3>1
    <3>2. CASE i < n
      <4>1. g[i].b + Runs(N[i]) <= p.b /\ g[i].c <= p.c
        BY <1>5, <3>2 DEF Shape, Rising
      <4> QED BY <1>3, <1>4, <1>5, <4>1, SMTT(60)
    <3> QED BY <3>1, <3>2, <1>1
  <2>2. \A i \in 1 .. n : N[i].th = a.th => g[i].b + Runs(N[i]) <= l.b /\ g[i].c <= l.c
    <3> SUFFICES ASSUME NEW i \in 1 .. n, N[i].th = a.th
                 PROVE  g[i].b + Runs(N[i]) <= l.b /\ g[i].c <= l.c
      OBVIOUS
    <3>1. a.k # "resume" /\ a.th = q.th /\ p.b + Runs(q) <= l.b /\ p.c <= l.c
      BY <1>7 DEF LinkResume
    <3>2. g[i].b + Runs(N[i]) <= p.b + Runs(q) /\ g[i].c <= p.c
      BY <2>1, <3>1
    <3>3. g[i].b \in Nat /\ g[i].c \in Nat /\ Runs(N[i]) \in Nat
          /\ p.b \in Nat /\ p.c \in Nat /\ Runs(q) \in Nat
      BY <1>3, <1>4, <1>5
    <3>4. \A x, y, z \in Int : x <= y /\ y <= z => x <= z
      OBVIOUS
    <3>5. g[i].b + Runs(N[i]) \in Int /\ p.b + Runs(q) \in Int /\ l.b \in Int
          /\ g[i].c \in Int /\ p.c \in Int /\ l.c \in Int
      BY <1>5, <3>3, SMTT(60)
    <3> HIDE DEF p, q
    <3> QED BY <3>1, <3>2, <3>4, <3>5
  <2>3. /\ th[a.th].baseCcalls <= l.c
        /\ a.k = "call" => th[a.th].baseCcalls < l.c
    <3>1. CASE LinkResume(th, q, p, a, l)
      BY <1>5, <3>1 DEF LinkResume
    <3>2. CASE a.k # "resume" /\ a.th = q.th /\ p.c <= l.c /\ (a.k = "call" => p.c < l.c)
      <4>1. th[q.th].baseCcalls <= p.c
        BY <1>5 DEF Shape, Rising
      <4> QED BY <1>3, <1>5, <3>2, <4>1
    <3> QED BY <1>7, <3>1, <3>2
  <2>4. ASSUME NEW j \in 1 .. n + 1, NEW i \in 1 .. n + 1, i < j, M[i].th = M[j].th
        PROVE  e[i].b + Runs(M[i]) <= e[j].b /\ e[i].c <= e[j].c
    <3>1. i \in 1 .. n
      BY <1>1, <2>4
    <3>2. CASE j = n + 1
      BY <1>2, <2>2, <2>4, <3>1, <3>2
    <3>3. CASE j \in 1 .. n
      BY <1>2, <2>4, <3>1, <3>3 DEF Shape, Rising
    <3> QED BY <1>1, <3>2, <3>3
  <2>5. ASSUME NEW i \in 1 .. n + 1
        PROVE  /\ th[M[i].th].baseCcalls <= e[i].c
               /\ M[i].k = "call" => th[M[i].th].baseCcalls < e[i].c
               /\ th[M[i].th].status = "ok"
    <3>1. CASE i = n + 1
      BY <1>2, <2>3, <3>1
    <3>2. CASE i \in 1 .. n
      BY <1>2, <3>2 DEF Shape, Rising
    <3> QED BY <1>1, <3>1, <3>2
  <2> QED BY <1>2, <2>4, <2>5 DEF Rising
<1>10. Apart(th, M)
  <2> SUFFICES ASSUME NEW i \in 1 .. n + 1, NEW j \in 1 .. n + 1, NEW k \in 1 .. n + 1,
                      i < j, j <= k, M[i].th # M[j].th
               PROVE  M[i].th # M[k].th /\ 1 <= Len(th[M[i].th].ci)
    BY <1>2 DEF Apart
  <2>1. i \in 1 .. n
    BY <1>1
  <2>2. CASE k \in 1 .. n
    BY <1>1, <1>2, <2>1, <2>2, SMTT(60) DEF Shape, Apart
  <2>3. CASE k = n + 1 /\ j \in 1 .. n
    <3>1. N[i].th # N[n].th /\ 1 <= Len(th[N[i].th].ci)
      BY <1>1, <1>2, <2>1, <2>3 DEF Shape, Apart
    <3>2. a.th = q.th \/ \A x \in 1 .. n : N[x].th # a.th
      BY <1>7 DEF LinkResume
    <3> QED BY <1>2, <2>1, <2>3, <3>1, <3>2
  <2>4. CASE k = n + 1 /\ j = n + 1
    <3>1. N[i].th # a.th
      BY <1>2, <2>1, <2>4
    <3>2. CASE N[i].th = q.th
      <4>1. LinkResume(th, q, p, a, l)
        BY <1>7, <3>1, <3>2
      <4>2. Len(th[q.th].ci) = p.b + q.n + 1 /\ Runs(q) = q.n
        BY <4>1 DEF LinkResume, Runs
      <4>3. p.b \in Nat /\ Runs(q) \in Nat
        BY <1>3, <1>4, <1>5
      <4>4. M[k] = a /\ M[i] = N[i]
        BY <1>2, <2>1, <2>4
      <4>5. 1 <= Len(th[q.th].ci)
        <5> HIDE DEF p, q
        <5> QED BY <4>2, <4>3
      <4> QED BY <3>1, <3>2, <4>4, <4>5
    <3>3. CASE N[i].th # q.th
      <4>1. i < n
        BY <1>1, <2>1, <3>3
      <4>2. 1 <= Len(th[N[i].th].ci)
        BY <1>5, <2>1, <3>3, <4>1 DEF Shape, Apart
      <4> QED BY <1>2, <2>1, <2>4, <3>1, <4>2
    <3> QED BY <3>2, <3>3
  <2>5. \/ k \in 1 .. n
        \/ k = n + 1 /\ j \in 1 .. n
        \/ k = n + 1 /\ j = n + 1
    BY <1>1
  <2> QED BY <2>2, <2>3, <2>4, <2>5
<1>11. Steady(M, e)
  <2> SUFFICES ASSUME NEW i \in 1 .. n + 1, NEW j \in 1 .. n + 1, i < j,
                      \A k \in i + 1 .. j : M[k].k \notin {"c", "resume"}
               PROVE  e[j].m = e[i].m /\ M[j].th = M[i].th
    BY <1>2 DEF Steady
  <2>1. i \in 1 .. n
    BY <1>1
  <2>2. CASE j \in 1 .. n
    <3>1. \A k \in i + 1 .. j : N[k].k \notin {"c", "resume"}
      BY <1>2, <2>1, <2>2
    <3> QED BY <1>2, <2>1, <2>2, <3>1 DEF Shape, Steady
  <2>3. CASE j = n + 1
    <3>1. a.k \notin {"c", "resume"}
      BY <1>1, <1>2, <2>3
    <3>2. a.th = q.th /\ l.m = p.m
      BY <1>7, <3>1 DEF LinkResume
    <3>3. CASE i = n
      BY <1>2, <2>1, <2>3, <3>2, <3>3
    <3>4. CASE i < n
      <4>1. \A k \in i + 1 .. n : N[k].k \notin {"c", "resume"}
        BY <1>2, <2>1, <2>3
      <4>2. p.m = g[i].m /\ q.th = N[i].th
        BY <1>5, <2>1, <3>4, <4>1 DEF Shape, Steady
      <4> QED BY <1>2, <2>1, <2>3, <3>2, <4>2
    <3> QED BY <1>1, <2>1, <3>3, <3>4
  <2> QED BY <1>1, <2>2, <2>3
<1> QED BY <1>1, <1>2, <1>6, <1>8, <1>9, <1>10, <1>11 DEF Shape, M, e

-----------------------------------------------------------------------------
(* The state, field by field *)

\* What `Do' changes.
LEMMA DoFields ==
  ASSUME NEW s, Whole(s), NEW w
  PROVE  /\ Whole(Do(s, w)) /\ Do(s, w).th = s.th /\ Do(s, w).native = s.native
         /\ Do(s, w).todo = w
BY DEF Whole, Do

\* What `Set' changes.
LEMMA SetFields ==
  ASSUME NEW s, Whole(s), NEW u
  PROVE  /\ Whole(Set(s, u)) /\ Set(s, u).th = [s.th EXCEPT ![Run(s)] = u]
         /\ Set(s, u).native = s.native /\ Set(s, u).todo = s.todo
BY DEF Whole, Set

\* A new C stack changes nothing else.
LEMMA NativeFields ==
  ASSUME NEW s, Whole(s), NEW N
  PROVE  /\ Whole([s EXCEPT !.native = N]) /\ [s EXCEPT !.native = N].th = s.th
         /\ [s EXCEPT !.native = N].todo = s.todo /\ [s EXCEPT !.native = N].native = N
BY DEF Whole

\* What `Push' changes.
LEMMA PushFields ==
  ASSUME NEW s, Whole(s), NEW a
  PROVE  /\ Whole(Push(s, a)) /\ Push(s, a).th = s.th /\ Push(s, a).todo = s.todo
         /\ Push(s, a).native = Append(s.native, a)
BY NativeFields DEF Push

\* What `Pop' changes.
LEMMA PopFields ==
  ASSUME NEW s, Whole(s)
  PROVE  /\ Whole(Pop(s)) /\ Pop(s).th = s.th /\ Pop(s).todo = s.todo
         /\ Pop(s).native = SubSeq(s.native, 1, Len(s.native) - 1)
BY NativeFields DEF Pop

\* What `CutTo' changes.
LEMMA CutFields ==
  ASSUME NEW s, Whole(s), NEW i
  PROVE  /\ Whole(CutTo(s, i)) /\ CutTo(s, i).th = s.th /\ CutTo(s, i).todo = s.todo
         /\ CutTo(s, i).native = SubSeq(s.native, 1, i)
BY NativeFields DEF CutTo

\* What is set of a state leaves the counts alone.
LEMMA QuietFields ==
  ASSUME NEW s, Whole(s)
  PROVE  /\ \A w : Quiet(Do(s, w), s)
         /\ \A u : Quiet(Set(s, u), s)
         /\ \A a : Quiet(Push(s, a), s)
         /\ Quiet(Pop(s), s)
         /\ \A i : Quiet(CutTo(s, i), s)
         /\ \A N : Quiet([s EXCEPT !.native = N], s)
         /\ \A x : Quiet([s EXCEPT !.thetaint = x], s)
<1>1. \A w : Quiet(Do(s, w), s)
  BY DEF Whole, Quiet, Do
<1>2. \A u : Quiet(Set(s, u), s)
  BY DEF Whole, Quiet, Set
<1>3. \A N : Quiet([s EXCEPT !.native = N], s)
  BY DEF Whole, Quiet
<1>4. \A x : Quiet([s EXCEPT !.thetaint = x], s)
  BY DEF Whole, Quiet
<1> QED BY <1>1, <1>2, <1>3, <1>4 DEF Push, Pop, CutTo

\* Both one after the other.
LEMMA AlikeTrans ==
  ASSUME NEW r, NEW s, NEW x, Alike(x, s), Alike(r, x)
  PROVE  Alike(r, s)
BY DEF Alike, Quiet

\* The thread that runs comes to u, with the CallInfos it had.
LEMMA AlikeNow ==
  ASSUME NEW s, s.th \in [Threads -> Thread], Run(s) \in Threads,
         NEW u, u.ci = Cur(s).ci, NEW N, NEW r, Now(r, s, u, N), Quiet(r, s)
  PROVE  Alike(r, s)
BY DEF Alike, Now, Cur

\* What is done next is not counted.
LEMMA AlikeDo ==
  ASSUME NEW s, Whole(s), NEW w
  PROVE  Alike(Do(s, w), s)
BY DoFields, QuietFields DEF Alike

\* What a state says of the thread and the activation that run.
LEMMA StateFacts ==
  ASSUME NEW s, NEW g, State(s, g)
  PROVE  /\ Whole(s) /\ s.th \in [Threads -> Thread]
         /\ s.native \in Seq(Activation) /\ g \in Seq(Level) /\ Len(s.native) = Len(g)
         /\ Len(g) \in Nat /\ 1 <= Len(g)
         /\ Act(s) = s.native[Len(g)] /\ Act(s) \in Activation
         /\ Run(s) \in Threads /\ Run(s) = s.native[Len(g)].th
         /\ g[Len(g)] \in Level /\ g[Len(g)].m \in Modes
         /\ g[Len(g)].b \in Nat /\ g[Len(g)].c \in Nat /\ Runs(Act(s)) \in Nat
         /\ Cur(s) = s.th[Run(s)] /\ Cur(s) \in Thread /\ Cur(s).status = "ok"
         /\ Cur(s).ci \in Seq(Functions) /\ Len(Cur(s).ci) \in Nat /\ Cur(s).size \in Nat
         /\ Len(Cur(s).ci) < Cur(s).size
         /\ Cur(s).baseCcalls <= g[Len(g)].c /\ Cur(s).baseCcalls \in Nat
         /\ Act(s).k = "call" => Cur(s).baseCcalls < g[Len(g)].c
         /\ g[Len(g)].b + Runs(Act(s)) <= Len(Cur(s).ci)
<1>1. Whole(s) /\ s.th \in [Threads -> Thread]
  BY DEF State, Typed
<1>2. /\ s.native \in Seq(Activation) /\ g \in Seq(Level) /\ Len(s.native) = Len(g)
      /\ Len(g) \in Nat /\ 1 <= Len(g)
  BY LenProperties DEF State, Shape, Linked
<1>3. Act(s) = s.native[Len(g)] /\ Act(s) \in Activation /\ g[Len(g)] \in Level
  BY <1>2, ElementOfSeq DEF Act
<1>4. Run(s) \in Threads /\ Run(s) = s.native[Len(g)].th
  BY <1>3 DEF Run, Activation
<1>5. g[Len(g)].m \in Modes /\ g[Len(g)].b \in Nat /\ g[Len(g)].c \in Nat
  BY <1>3 DEF Level
<1>6. Runs(Act(s)) \in Nat
  BY <1>3 DEF Runs, Activation
<1>7. Cur(s) = s.th[Run(s)] /\ Cur(s) \in Thread
  BY <1>1, <1>4 DEF Cur
<1>8. Cur(s).ci \in Seq(Functions) /\ Cur(s).size \in Nat /\ Cur(s).baseCcalls \in Nat
  BY <1>7 DEF Thread
<1>9. Len(Cur(s).ci) \in Nat
  BY <1>8, LenProperties
<1>10. Len(Cur(s).ci) < Cur(s).size
  BY <1>4, <1>7 DEF State, Typed
<1>11. /\ Cur(s).baseCcalls <= g[Len(g)].c /\ Cur(s).status = "ok"
       /\ Act(s).k = "call" => Cur(s).baseCcalls < g[Len(g)].c
  <2>1. Len(g) \in 1 .. Len(s.native)
    BY <1>2
  <2> QED BY <2>1, <1>3, <1>4, <1>7 DEF State, Shape, Rising
<1>12. g[Len(g)].b + Runs(Act(s)) <= Len(Cur(s).ci)
  BY DEF State, Fine
<1> QED BY <1>1, <1>2, <1>3, <1>4, <1>5, <1>6, <1>7, <1>8, <1>9, <1>10, <1>11, <1>12

\* Back in an activation further down of the same thread.
LEMMA CutState ==
  ASSUME NEW s, NEW g, State(s, g), NEW n \in 1 .. Len(g), Within(s, n),
         NEW u, Onto(s, u, s.native[n], g[n]), Fine(u, s.native[n], g[n]),
         NEW r, Back(r, s, u, n)
  PROVE  /\ State(r, SubSeq(g, 1, n)) /\ Len(SubSeq(g, 1, n)) = n
         /\ SubSeq(g, 1, n)[n] = g[n]
         /\ Act(r) = s.native[n] /\ Run(r) = Run(s) /\ Cur(r) = u
<1> DEFINE N == s.native
           M == SubSeq(s.native, 1, n)
           e == SubSeq(g, 1, n)
<1>1. /\ N \in Seq(Activation) /\ g \in Seq(Level) /\ Len(N) = Len(g) /\ Len(g) \in Nat
      /\ Run(s) \in Threads /\ Cur(s) = s.th[Run(s)] /\ s.th \in [Threads -> Thread]
  BY StateFacts
<1>2. Shape(s.th, M, e) /\ Len(M) = n /\ Len(e) = n /\ M[n] = N[n] /\ e[n] = g[n]
  <2>1. Shape(s.th, N, g)
    BY DEF State
  <2> QED BY <2>1, <1>1, CutShape
<1>3. \A i \in 1 .. n : M[i] = N[i]
  BY <1>1, FirstOnes
<1>4. Whole(r) /\ r.th = [s.th EXCEPT ![Run(s)] = u] /\ r.native = M
  BY DEF Now, Back, Ahead
<1> HIDE DEF M, e
<1>5. N[n].th = Run(s)
  BY <1>1 DEF Within
<1>6. Act(r) = N[n] /\ Run(r) = Run(s) /\ Cur(r) = u
  BY <1>1, <1>2, <1>4, <1>5 DEF Act, Run, Cur
<1>7. Shape(r.th, M, e)
  <2>1. Len(u.ci) \in Nat
    BY LenProperties DEF Onto, Goes, Thread
  <2>2. \A i \in 1 .. n : M[i].th \in Threads
    <3>1. \A i \in 1 .. n : N[i] \in Activation
      BY <1>1, ElementOfSeq
    <3> QED BY <3>1, <1>3 DEF Activation
  <2>3. \A i \in 1 .. n : M[i].th # Run(s) => r.th[M[i].th] = s.th[M[i].th]
    BY <1>1, <1>4, <2>2
  <2>4. r.th[Run(s)] = u
    BY <1>1, <1>4
  <2>5. DEFINE d == g[n].b + Runs(N[n])
  <2>6. /\ u.baseCcalls = s.th[Run(s)].baseCcalls /\ u.status = s.th[Run(s)].status
        /\ d <= Len(u.ci) /\ \A i \in 1 .. d : u.ci[i] = s.th[Run(s)].ci[i]
    BY <1>1 DEF Onto, Goes
  <2>7. d = e[Len(M)].b + Runs(M[Len(M)]) /\ Run(s) = M[Len(M)].th
    BY <1>2, <1>5
  <2>8. Onward(s.th, r.th, M, e)
    <3> HIDE DEF d, N
    <3> QED BY <1>2, <2>1, <2>3, <2>4, <2>6, <2>7 DEF Onward
  <2> QED BY <1>2, <2>8, ThreadShape
<1>8. Rested(r.th, M)
  <2> SUFFICES ASSUME NEW co \in Coroutines, \A i \in 1 .. Len(M) : M[i].th # co
               PROVE  Asleep(r.th[co])
    BY DEF Rested
  <2>1. co # Run(s)
    BY <1>2, <1>5
  <2>2. r.th[co] = s.th[co]
    BY <2>1, <1>1, <1>4 DEF Threads
  <2>3. \A i \in 1 .. Len(N) : N[i].th # co
    BY <1>1, <1>2, <1>3, <2>1 DEF Within
  <2> QED BY <2>2, <2>3 DEF State, Rested
<1>9. Typed(r)
  <2>1. r.th \in [Threads -> Thread]
    BY <1>1, <1>4 DEF Onto, Goes
  <2>2. \A t \in Threads : Len(r.th[t].ci) < r.th[t].size
    BY <1>1, <1>4 DEF Onto, Goes, State, Typed
  <2> QED BY <1>4, <2>1, <2>2 DEF Typed
<1>10. Fine(Cur(r), Act(r), e[Len(e)])
  BY <1>2, <1>6
<1> QED BY <1>2, <1>4, <1>6, <1>7, <1>8, <1>9, <1>10 DEF State, M, e

\* The activation that runs goes on.
LEMMA SameState ==
  ASSUME NEW s, NEW g, State(s, g),
         NEW u, Onto(s, u, Act(s), g[Len(g)]), Fine(u, Act(s), g[Len(g)]),
         NEW r, Now(r, s, u, s.native)
  PROVE  State(r, g) /\ Act(r) = Act(s) /\ Run(r) = Run(s) /\ Cur(r) = u
<1>1. /\ s.native \in Seq(Activation) /\ g \in Seq(Level) /\ Len(s.native) = Len(g)
      /\ Len(g) \in Nat /\ 1 <= Len(g) /\ Act(s) = s.native[Len(g)]
      /\ Run(s) = s.native[Len(g)].th
  BY StateFacts
<1>2. SubSeq(s.native, 1, Len(g)) = s.native /\ SubSeq(g, 1, Len(g)) = g
  <2>1. SubSeq(s.native, 1, Len(s.native)) = s.native
    <3>1. Len(s.native) \in 0 .. Len(s.native)
      BY <1>1
    <3> QED BY <1>1, <3>1, FirstOnes, SeqEqual
  <2>2. SubSeq(g, 1, Len(g)) = g
    <3>1. Len(g) \in 0 .. Len(g)
      BY <1>1
    <3> QED BY <1>1, <3>1, FirstOnes, SeqEqual
  <2> QED BY <1>1, <2>1, <2>2
<1>3. Len(g) \in 1 .. Len(g) /\ Within(s, Len(g))
  BY <1>1 DEF Within
<1>4. Back(r, s, u, Len(g))
  BY <1>2 DEF Back
<1>5. Onto(s, u, s.native[Len(g)], g[Len(g)]) /\ Fine(u, s.native[Len(g)], g[Len(g)])
  BY <1>1
<1>6. State(r, SubSeq(g, 1, Len(g))) /\ Act(r) = s.native[Len(g)] /\ Run(r) = Run(s) /\ Cur(r) = u
  BY <1>3, <1>4, <1>5, CutState
<1> QED BY <1>1, <1>2, <1>6

\* One more activation in the thread that runs.
LEMMA PushState ==
  ASSUME NEW s, NEW g, State(s, g),
         NEW u, Onto(s, u, Act(s), g[Len(g)]),
         NEW a \in Activation, a.k # "resume", a.th = Run(s), NEW l \in Level,
         NEW r, Ahead(r, s, u, a),
         Link(r.th, Act(s), g[Len(g)], a, l), Fine(u, a, l)
  PROVE  /\ State(r, Append(g, l)) /\ Len(Append(g, l)) = Len(g) + 1
         /\ Append(g, l)[Len(g) + 1] = l
         /\ Act(r) = a /\ Run(r) = Run(s) /\ Cur(r) = u
<1> DEFINE N == s.native
           M == Append(s.native, a)
           e == Append(g, l)
<1>1. /\ N \in Seq(Activation) /\ g \in Seq(Level) /\ Len(N) = Len(g) /\ Len(g) \in Nat
      /\ 1 <= Len(g) /\ Act(s) = N[Len(g)] /\ Run(s) = N[Len(g)].th
      /\ Run(s) \in Threads /\ Cur(s) = s.th[Run(s)] /\ s.th \in [Threads -> Thread]
      /\ Cur(s).status = "ok" /\ Cur(s).baseCcalls \in Nat
  BY StateFacts
<1>2. Whole(r) /\ r.th = [s.th EXCEPT ![Run(s)] = u] /\ r.native = M
  BY DEF Now, Back, Ahead
<1>3. Len(u.ci) \in Nat
  BY LenProperties DEF Onto, Goes, Thread
<1>4. Shape(r.th, N, g)
  <2>1. Shape(s.th, N, g)
    BY DEF State
  <2>2. \A i \in 1 .. Len(N) : N[i].th # Run(s) => r.th[N[i].th] = s.th[N[i].th]
    <3>1. \A i \in 1 .. Len(N) : N[i] \in Activation
      BY <1>1, ElementOfSeq
    <3>2. \A i \in 1 .. Len(N) : N[i].th \in Threads
      BY <3>1 DEF Activation
    <3> QED BY <1>1, <1>2, <3>2
  <2>3. r.th[Run(s)] = u
    BY <1>1, <1>2
  <2>4. DEFINE d == g[Len(g)].b + Runs(Act(s))
  <2>5. /\ u.baseCcalls = s.th[Run(s)].baseCcalls /\ u.status = s.th[Run(s)].status
        /\ d <= Len(u.ci) /\ \A i \in 1 .. d : u.ci[i] = s.th[Run(s)].ci[i]
    BY <1>1 DEF Onto, Goes
  <2>6. d = g[Len(N)].b + Runs(N[Len(N)]) /\ Run(s) = N[Len(N)].th
    BY <1>1
  <2>7. Onward(s.th, r.th, N, g)
    <3> HIDE DEF d, N
    <3> QED BY <1>3, <2>2, <2>3, <2>5, <2>6 DEF Onward
  <2> QED BY <2>1, <2>7, ThreadShape
<1>5. /\ Shape(r.th, M, e) /\ Len(M) = Len(N) + 1 /\ Len(e) = Len(N) + 1
      /\ M[Len(N) + 1] = a /\ e[Len(N) + 1] = l
  <2>1. r.th[a.th].status = "ok" /\ r.th[a.th].baseCcalls \in Nat
    BY <1>1, <1>2 DEF Onto, Goes
  <2>2. Link(r.th, N[Len(N)], g[Len(N)], a, l)
    BY <1>1
  <2> QED BY <1>4, <2>1, <2>2, PushShape
<1>6. \A i \in 1 .. Len(N) : M[i] = N[i]
  BY <1>1, OneMore
<1> HIDE DEF M, e
<1>7. Act(r) = a /\ Run(r) = Run(s) /\ Cur(r) = u
  BY <1>1, <1>2, <1>5 DEF Act, Run, Cur
<1>8. Rested(r.th, M)
  <2> SUFFICES ASSUME NEW co \in Coroutines, \A i \in 1 .. Len(M) : M[i].th # co
               PROVE  Asleep(r.th[co])
    BY DEF Rested
  <2>1. \A i \in 1 .. Len(N) : N[i].th # co
    BY <1>1, <1>5, <1>6
  <2>2. r.th[co] = s.th[co]
    BY <2>1, <1>1, <1>2 DEF Threads
  <2> QED BY <2>1, <2>2 DEF State, Rested
<1>9. Typed(r)
  <2>1. r.th \in [Threads -> Thread]
    BY <1>1, <1>2 DEF Onto, Goes
  <2>2. \A t \in Threads : Len(r.th[t].ci) < r.th[t].size
    BY <1>1, <1>2 DEF Onto, Goes, State, Typed
  <2> QED BY <1>2, <2>1, <2>2 DEF Typed
<1>10. Fine(Cur(r), Act(r), e[Len(e)])
  BY <1>1, <1>5, <1>7
<1> QED BY <1>1, <1>2, <1>5, <1>7, <1>8, <1>9, <1>10 DEF State, M, e

\* An activation stands on the one below; only the first one is at the bottom.
LEMMA LinkFacts ==
  ASSUME NEW s, NEW g, State(s, g), NEW i \in 2 .. Len(g)
  PROVE  /\ Link(s.th, s.native[i - 1], g[i - 1], s.native[i], g[i])
         /\ i - 1 \in 1 .. Len(g) /\ i \in 1 .. Len(g)
         /\ s.native[i] \in Activation /\ s.native[i - 1] \in Activation
         /\ g[i] \in Level /\ g[i - 1] \in Level
         /\ g[i].b \in Nat /\ g[i].c \in Nat /\ g[i].m \in Modes
         /\ g[i - 1].b \in Nat /\ g[i - 1].c \in Nat /\ g[i - 1].m \in Modes
<1>1. /\ s.native \in Seq(Activation) /\ g \in Seq(Level) /\ Len(s.native) = Len(g)
      /\ Len(g) \in Nat
  BY StateFacts
<1>2. Link(s.th, s.native[i - 1], g[i - 1], s.native[i], g[i])
  BY <1>1 DEF State, Shape, Linked
<1>3. i - 1 \in 1 .. Len(g) /\ i \in 1 .. Len(g)
  BY <1>1
<1>4. /\ s.native[i] \in Activation /\ s.native[i - 1] \in Activation
      /\ g[i] \in Level /\ g[i - 1] \in Level
  BY <1>1, <1>3, ElementOfSeq
<1>5. g[i].b \in Nat /\ g[i].c \in Nat /\ g[i].m \in Modes
  BY <1>4 DEF Level
<1>6. g[i - 1].b \in Nat /\ g[i - 1].c \in Nat /\ g[i - 1].m \in Modes
  BY <1>4 DEF Level
<1> QED BY <1>2, <1>3, <1>4, <1>5, <1>6

\* The first protected call is at the bottom, and nothing runs in it directly.
LEMMA BottomFacts ==
  ASSUME NEW s, NEW g, State(s, g)
  PROVE  /\ s.native[1].k = "try" /\ s.native[1].th = Main
         /\ Act(s).k # "try" => 2 <= Len(g) /\ Len(g) \in 2 .. Len(g)
<1>1. s.native[1].k = "try" /\ s.native[1].th = Main
  BY DEF State, Shape, Linked, Bottom
<1>2. Len(g) \in Nat /\ 1 <= Len(g) /\ Act(s) = s.native[Len(g)]
  BY StateFacts
<1> QED BY <1>1, <1>2

\* What luaV_execute stands on, and what it runs.
LEMMA ExecFacts ==
  ASSUME NEW s, NEW g, State(s, g), Act(s).k = "exec"
  PROVE  /\ Len(g) \in 2 .. Len(g) /\ Len(g) - 1 \in 1 .. Len(g)
         /\ s.native[Len(g) - 1].k \in {"call", "resume"}
         /\ s.native[Len(g) - 1].th = Run(s) /\ g[Len(g) - 1] = g[Len(g)]
         /\ Act(s).n \in Nat /\ 1 <= Act(s).n /\ Runs(Act(s)) = Act(s).n
         /\ Act(s) = [k |-> "exec", th |-> Run(s), n |-> Act(s).n]
         /\ RunsIn(Cur(s).ci, g[Len(g)].b, Act(s).n, g[Len(g)].m)
         /\ Within(s, Len(g) - 1)
<1>1. /\ Len(s.native) = Len(g) /\ Len(g) \in Nat /\ Act(s) = s.native[Len(g)]
      /\ Run(s) = s.native[Len(g)].th /\ Cur(s) = s.th[Run(s)] /\ Act(s) \in Activation
  BY StateFacts
<1>2. Len(g) \in 2 .. Len(g)
  BY BottomFacts
<1>3. /\ Link(s.th, s.native[Len(g) - 1], g[Len(g) - 1], s.native[Len(g)], g[Len(g)])
      /\ Len(g) - 1 \in 1 .. Len(g)
  BY <1>2, LinkFacts
<1>4. LinkExec(s.th, s.native[Len(g) - 1], g[Len(g) - 1], s.native[Len(g)], g[Len(g)])
  BY <1>1, <1>3 DEF Link, LinkC, LinkTry, LinkCall, LinkErrMsg, LinkResume
<1>5. /\ s.native[Len(g) - 1].k \in {"call", "resume"}
      /\ s.native[Len(g) - 1].th = Run(s) /\ g[Len(g) - 1] = g[Len(g)] /\ 1 <= Act(s).n
  BY <1>1, <1>4, SMTT(60) DEF LinkExec
<1>6. RunsIn(Cur(s).ci, g[Len(g)].b, Act(s).n, g[Len(g)].m)
  BY <1>1, <1>4, ZenonT(60) DEF LinkExec, RunsIn
<1>7. /\ Act(s).n \in Nat /\ Runs(Act(s)) = Act(s).n
      /\ Act(s) = [k |-> "exec", th |-> Run(s), n |-> Act(s).n]
  BY <1>1 DEF Activation, Runs, Run
<1>8. Within(s, Len(g) - 1)
  BY <1>1, <1>5 DEF Within
<1> QED BY <1>2, <1>3, <1>5, <1>6, <1>7, <1>8

\* The activation of luaV_execute comes to run n functions.
LEMMA ExecState ==
  ASSUME NEW s, NEW g, State(s, g), Act(s).k = "exec",
         NEW n \in Nat, 1 <= n,
         NEW u, Goes(s, u, g[Len(g)].b), RunsIn(u.ci, g[Len(g)].b, n, g[Len(g)].m),
         NEW a, a = [k |-> "exec", th |-> Run(s), n |-> n], Fine(u, a, g[Len(g)]),
         NEW r, Now(r, s, u, [s.native EXCEPT ![Len(s.native)].n = n])
  PROVE  State(r, g) /\ Act(r) = a /\ Run(r) = Run(s) /\ Cur(r) = u
<1> DEFINE N == s.native
           m == Len(g) - 1
           x == [Set(s, u) EXCEPT !.native = SubSeq(s.native, 1, m)]
           h == SubSeq(g, 1, m)
           l == g[Len(g)]
<1>1. /\ Whole(s) /\ N \in Seq(Activation) /\ g \in Seq(Level) /\ Len(N) = Len(g) /\ Len(g) \in Nat
      /\ 1 <= Len(g) /\ Act(s) = N[Len(g)] /\ Run(s) = N[Len(g)].th
      /\ Run(s) \in Threads /\ Cur(s) = s.th[Run(s)] /\ s.th \in [Threads -> Thread]
      /\ l \in Level /\ l.b \in Nat
  BY StateFacts
<1>2. /\ m \in 1 .. Len(g) /\ N[m].k \in {"call", "resume"} /\ N[m].th = Run(s) /\ g[m] = l
      /\ Act(s) = [k |-> "exec", th |-> Run(s), n |-> Act(s).n] /\ Within(s, m)
  BY ExecFacts
<1>3. Runs(N[m]) = 0 /\ N[m].k # "c" /\ Runs(a) = n /\ a.k = "exec" /\ a.th = Run(s)
  BY <1>2 DEF Runs
<1>m. m = Len(g) - 1
  OBVIOUS
<1> HIDE DEF m
<1>4. Back(x, s, u, m)
  <2> DEFINE y == Set(s, u)
  <2>1. Whole(y) /\ y.th = [s.th EXCEPT ![Run(s)] = u]
    BY <1>1, SetFields
  <2> HIDE DEF y
  <2>2. /\ Whole([y EXCEPT !.native = SubSeq(N, 1, m)])
        /\ [y EXCEPT !.native = SubSeq(N, 1, m)].th = y.th
        /\ [y EXCEPT !.native = SubSeq(N, 1, m)].native = SubSeq(N, 1, m)
    BY <2>1, NativeFields
  <2> QED BY <2>1, <2>2 DEF Back, Now, y
<1>5. Onto(s, u, N[m], g[m]) /\ Fine(u, N[m], g[m])
  <2>1. g[m].b + Runs(N[m]) = l.b
    BY <1>1, <1>2, <1>3
  <2>2. Len(u.ci) \in Nat
    BY LenProperties DEF Goes, Thread
  <2>3. l.b <= Len(u.ci)
    BY DEF Goes
  <2>4. Fine(u, N[m], g[m])
    BY <1>1, <1>2, <1>3, <2>1, <2>3 DEF Fine
  <2> QED BY <2>1, <2>4 DEF Onto
<1>6. /\ State(x, h) /\ Len(h) = m /\ h[m] = l /\ Act(x) = N[m] /\ Run(x) = Run(s)
      /\ Cur(x) = u
  <2>1. /\ State(x, SubSeq(g, 1, m)) /\ Len(SubSeq(g, 1, m)) = m /\ SubSeq(g, 1, m)[m] = g[m]
        /\ Act(x) = N[m] /\ Run(x) = Run(s) /\ Cur(x) = u
    <3> HIDE DEF x
    <3> QED BY <1>2, <1>4, <1>5, CutState, SMTT(60)
  <2> QED BY <1>2, <2>1
<1>7. x.native = SubSeq(N, 1, m) /\ x.th = [s.th EXCEPT ![Run(s)] = u]
  BY <1>4 DEF Back, Now
<1> HIDE DEF x, h
<1>8. [N EXCEPT ![Len(N)].n = n] = Append(SubSeq(N, 1, m), a)
  <2>1. /\ SubSeq(N, 1, m) \in Seq(Activation) /\ Len(SubSeq(N, 1, m)) = m
        /\ \A i \in 1 .. m : SubSeq(N, 1, m)[i] = N[i]
    BY <1>1, <1>2, FirstOnes
  <2>2. a \in Activation
    BY <1>1 DEF Activation
  <2>3. /\ Append(SubSeq(N, 1, m), a) \in Seq(Activation)
        /\ Len(Append(SubSeq(N, 1, m), a)) = Len(N)
        /\ Append(SubSeq(N, 1, m), a)[Len(N)] = a
        /\ \A i \in 1 .. m : Append(SubSeq(N, 1, m), a)[i] = N[i]
    BY <1>1, <1>m, <2>1, <2>2, OneMore
  <2>4. [N EXCEPT ![Len(N)].n = n] = [N EXCEPT ![Len(N)] = a]
    <3>1. [N[Len(N)] EXCEPT !.n = n] = a
      BY <1>1, <1>2
    <3> QED BY <3>1
  <2>5. \A y \in Activation :
          /\ [N EXCEPT ![Len(N)] = y] \in Seq(Activation)
          /\ Len([N EXCEPT ![Len(N)] = y]) = Len(N)
          /\ [N EXCEPT ![Len(N)] = y][Len(N)] = y
          /\ \A i \in 1 .. m : [N EXCEPT ![Len(N)] = y][i] = N[i]
    BY <1>1, <1>m, ExceptSeq
  <2>6. /\ [N EXCEPT ![Len(N)] = a] \in Seq(Activation)
        /\ Len([N EXCEPT ![Len(N)] = a]) = Len(N)
        /\ [N EXCEPT ![Len(N)] = a][Len(N)] = a
        /\ \A i \in 1 .. m : [N EXCEPT ![Len(N)] = a][i] = N[i]
    BY <2>2, <2>5
  <2>7. \A i \in 1 .. Len(N) : i = Len(N) \/ i \in 1 .. m
    BY <1>1, <1>m
  <2> DEFINE A == [N EXCEPT ![Len(N)] = a]
             B == Append(SubSeq(N, 1, m), a)
  <2>8. A = B
    <3> HIDE DEF A, B
    <3>1. /\ A \in Seq(Activation) /\ B \in Seq(Activation) /\ Len(A) = Len(B)
          /\ \A i \in 1 .. Len(A) : A[i] = B[i]
      BY <2>3, <2>6, <2>7 DEF A, B
    <3> QED BY <3>1, SeqEqual
  <2> QED BY <2>4, <2>8
<1>9. Ahead(r, x, u, a)
  <2>1. [x.th EXCEPT ![Run(x)] = u] = [s.th EXCEPT ![Run(s)] = u]
    BY <1>1, <1>6, <1>7
  <2> QED BY <1>7, <1>8, <2>1 DEF Ahead, Now
<1>10. Onto(x, u, Act(x), h[Len(h)])
  <2>1. Onto(s, u, Act(x), h[Len(h)])
    BY <1>2, <1>5, <1>6
  <2>2. u.baseCcalls = Cur(s).baseCcalls /\ u.status = Cur(s).status
    BY <1>5 DEF Onto, Goes
  <2> QED BY <1>6, <2>1, <2>2 DEF Onto, Goes
<1>11. Link(r.th, Act(x), h[Len(h)], a, l)
  <2>1. r.th[Run(s)] = u
    BY <1>1, <1>6, <1>7, <1>9 DEF Ahead, Now
  <2>2. LinkExec(r.th, N[m], l, a, l)
    BY <1>2, <1>3, <2>1 DEF LinkExec, RunsIn
  <2> QED BY <1>6, <2>2 DEF Link
<1>12. State(r, Append(h, l)) /\ Act(r) = a /\ Run(r) = Run(s) /\ Cur(r) = u
  <2>1. a \in Activation /\ a.k # "resume" /\ a.th = Run(x)
    BY <1>1, <1>6 DEF Activation
  <2>2. Fine(u, a, l)
    OBVIOUS
  <2> HIDE DEF l
  <2> QED BY <1>1, <1>6, <1>9, <1>10, <1>11, <2>1, <2>2, PushState, SMTT(60)
<1>13. Append(h, l) = g
  <2>1. /\ h \in Seq(Level) /\ Len(h) = m /\ \A i \in 1 .. m : h[i] = g[i]
    BY <1>1, <1>2, FirstOnes DEF h
  <2>2. /\ Append(h, l) \in Seq(Level) /\ Len(Append(h, l)) = m + 1
        /\ Append(h, l)[m + 1] = l /\ \A i \in 1 .. m : Append(h, l)[i] = g[i]
    BY <1>1, <2>1, OneMore
  <2>3. m + 1 = Len(g) /\ \A i \in 1 .. Len(g) : i = m + 1 \/ i \in 1 .. m
    BY <1>1, <1>m
  <2> DEFINE B == Append(h, l)
  <2> HIDE DEF B
  <2>4. Len(B) = Len(g) /\ B \in Seq(Level) /\ \A i \in 1 .. Len(g) : B[i] = g[i]
    BY <2>2, <2>3 DEF B
  <2>5. B = g
    BY <1>1, <2>4, SeqEqual
  <2> QED BY <2>5 DEF B
<1> QED BY <1>12, <1>13

-----------------------------------------------------------------------------
(* A thread that goes on *)

\* The taint of a function is one.
LEMMA TaintOfTaints == ASSUME NEW f PROVE TaintOf(f) \in Taints /\ None \in Taints
BY DEF TaintOf, Taints

\* luaR_taintstack touches the taint only, and not with taint off.
LEMMA TaintStackKept ==
  ASSUME NEW t \in Thread, Len(t.ci) < t.size, NEW taint \in Taints
  PROVE  /\ Kept(TaintStack(t, taint), t) /\ Keeps(TaintStack(t, taint), t, Len(t.ci))
         /\ TaintStack(t, taint).ci = t.ci /\ TaintStack(t, taint).size = t.size
<1> DEFINE u == TaintStack(t, taint)
<1>1. \/ u = t
      \/ t.mode = "rw" /\ taint # None /\ u = [t EXCEPT !.stack = taint]
  BY DEF TaintStack
<1> HIDE DEF u
<1>2. u \in Thread /\ u.ci = t.ci /\ u.size = t.size
  BY <1>1 DEF Thread
<1>3. Kept(u, t)
  BY <1>1, <1>2 DEF Kept, Thread
<1>4. Keeps(u, t, Len(t.ci))
  BY <1>2 DEF Keeps
<1> QED BY <1>2, <1>3, <1>4 DEF u

\* luaV_execute's entry touches the taint only.
LEMMA ReenterKept ==
  ASSUME NEW t \in Thread, Len(t.ci) < t.size, NEW f
  PROVE  /\ Kept(Reenter(t, f), t) /\ Keeps(Reenter(t, f), t, Len(t.ci))
         /\ Reenter(t, f).ci = t.ci
<1> DEFINE t1 == [t EXCEPT !.fixed = None]
           t2 == TaintStack(t1, TaintOf(f))
           u == [t2 EXCEPT !.fixed = TaintOf(f)]
<1>1. t1 \in Thread /\ t1.ci = t.ci /\ t1.size = t.size /\ Kept(t1, t)
  BY TaintOfTaints DEF Thread, Kept
<1> HIDE DEF t1
<1>2. /\ Kept(t2, t1) /\ t2.ci = t1.ci /\ t2.size = t1.size
  BY <1>1, TaintOfTaints, TaintStackKept
<1> HIDE DEF t2
<1>3. u \in Thread /\ u.ci = t2.ci /\ u.size = t2.size /\ Kept(u, t2)
  BY <1>2, TaintOfTaints DEF Thread, Kept
<1> HIDE DEF u
<1>4. Kept(u, t)
  BY <1>1, <1>2, <1>3 DEF Kept
<1>5. Keeps(u, t, Len(t.ci)) /\ u.ci = t.ci
  BY <1>1, <1>2, <1>3 DEF Keeps
<1> QED BY <1>4, <1>5 DEF u, t2, t1, Reenter

\* What is kept twice is kept.
LEMMA KeptTrans ==
  ASSUME NEW u, NEW v, NEW t, Kept(v, u), Kept(u, t)
  PROVE  Kept(v, t)
BY DEF Kept

\* Frames are closed down to the n-th.
LEMMA UnwindFields ==
  ASSUME NEW s, Whole(s), s.th \in [Threads -> Thread], Run(s) \in Threads,
         Len(Cur(s).ci) < Cur(s).size, NEW n \in 0 .. Len(Cur(s).ci)
  PROVE  \E u : /\ Now(Unwind(s, n), s, u, s.native) /\ Unwind(s, n).todo = s.todo
                /\ Kept(u, Cur(s)) /\ Keeps(u, Cur(s), n) /\ u.size = Cur(s).size
                /\ u.start = Cur(s).start
<1> DEFINE t == Cur(s)
           v == [t EXCEPT !.ci = SubSeq(@, 1, n), !.fixed = None]
<1>1. t \in Thread /\ t = s.th[Run(s)] /\ t.ci \in Seq(Functions) /\ Len(t.ci) \in Nat /\ t.size \in Nat
  <2>1. t \in Thread /\ t = s.th[Run(s)]
    BY DEF Cur
  <2>2. t.ci \in Seq(Functions) /\ t.size \in Nat
    BY <2>1 DEF Thread
  <2> QED BY <2>1, <2>2, LenProperties
<1>2. CASE n = Len(t.ci)
  <2>1. Unwind(s, n) = s
    BY <1>2 DEF Unwind
  <2>2. [s.th EXCEPT ![Run(s)] = t] = s.th
    BY <1>1
  <2>3. Now(s, s, t, s.native)
    BY <2>2 DEF Now
  <2>4. Kept(t, t) /\ Keeps(t, t, n)
    BY <1>1, <1>2 DEF Kept, Keeps
  <2> QED BY <2>1, <2>3, <2>4
<1>3. CASE n # Len(t.ci)
  <2>1. /\ SubSeq(t.ci, 1, n) \in Seq(Functions) /\ Len(SubSeq(t.ci, 1, n)) = n
        /\ \A i \in 1 .. n : SubSeq(t.ci, 1, n)[i] = t.ci[i]
    BY <1>1, FirstOnes
  <2>2. v \in Thread /\ v.ci = SubSeq(t.ci, 1, n) /\ v.size = t.size /\ v.start = t.start
    BY <1>1, <2>1, TaintOfTaints DEF Thread
  <2>3. Kept(v, t)
    BY <1>1, <2>2 DEF Kept, Thread
  <2>4. Keeps(v, t, n)
    BY <1>1, <2>1, <2>2 DEF Keeps
  <2>5. Now(Unwind(s, n), s, v, s.native) /\ Unwind(s, n).todo = s.todo
    BY <1>3 DEF Unwind, Now, Whole
  <2> QED BY <2>2, <2>3, <2>4, <2>5
<1> QED BY <1>2, <1>3

\* A frame is pushed, or the call fails for want of room.
LEMMA PushFrameFields ==
  ASSUME NEW s, Whole(s), s.th \in [Threads -> Thread], Run(s) \in Threads,
         Len(Cur(s).ci) < Cur(s).size, NEW f \in Functions
  PROVE  \E u : /\ Now(PushFrame(s, f), s, u, s.native) /\ Kept(u, Cur(s))
                /\ \/ PushFrame(s, f).todo = "run" /\ Enters(u, Cur(s), f)
                   \/ /\ PushFrame(s, f).todo \in {"raise", "throw"}
                      /\ Keeps(u, Cur(s), Len(Cur(s).ci))
<1> DEFINE r == PushFrame(s, f)
           t0 == Cur(s)
           t == [t0 EXCEPT !.fixed = None]
           grown == [t EXCEPT !.size = 2 * @]
           pushed(u) == [u EXCEPT !.ci = Append(@, f)]
<1>1. t0 \in Thread /\ t0.ci \in Seq(Functions) /\ Len(t0.ci) \in Nat /\ t0.size \in Nat
  <2>1. t0 \in Thread
    BY DEF Cur
  <2>2. t0.ci \in Seq(Functions) /\ t0.size \in Nat
    BY <2>1 DEF Thread
  <2> QED BY <2>1, <2>2, LenProperties
<1>2. t \in Thread /\ t.ci = t0.ci /\ t.size = t0.size /\ Kept(t, t0)
  BY <1>1, TaintOfTaints DEF Thread, Kept
<1> HIDE DEF t
<1>3. grown \in Thread /\ grown.ci = t.ci /\ grown.size = 2 * t.size /\ Kept(grown, t)
  <2> DEFINE z == 2 * t.size
  <2>1. z \in Nat /\ grown = [t EXCEPT !.size = z]
    BY <1>1, <1>2
  <2> HIDE DEF z
  <2>2. grown \in Thread /\ grown.ci = t.ci /\ grown.size = z /\ Kept(grown, t)
    BY <1>2, <2>1 DEF Thread, Kept
  <2> QED BY <2>2 DEF z
<1> HIDE DEF grown
<1>4. ASSUME NEW u \in Thread, u.ci = t0.ci, Kept(u, t0), Len(t0.ci) + 1 < u.size
      PROVE  Kept(pushed(u), t0) /\ Enters(pushed(u), t0, f)
  <2>1. /\ Append(t0.ci, f) \in Seq(Functions) /\ Len(Append(t0.ci, f)) = Len(t0.ci) + 1
        /\ Append(t0.ci, f)[Len(t0.ci) + 1] = f
        /\ \A i \in 1 .. Len(t0.ci) : Append(t0.ci, f)[i] = t0.ci[i]
    BY <1>1, OneMore
  <2> DEFINE c == Append(t0.ci, f)
             v == [u EXCEPT !.ci = c]
  <2>2. pushed(u) = v /\ c \in Seq(Functions)
    BY <1>4, <2>1
  <2> HIDE DEF c
  <2>3. v \in Thread /\ v.ci = c /\ v.size = u.size /\ Kept(v, u)
    BY <1>4, <2>2 DEF Thread, Kept
  <2> HIDE DEF v
  <2>4. Kept(v, t0)
    BY <1>4, <2>3, KeptTrans
  <2>5. Enters(v, t0, f)
    BY <1>4, <2>1, <2>3 DEF Enters, c
  <2> QED BY <2>2, <2>4, <2>5
<1>5. ASSUME NEW u
      PROVE  /\ Now([Set(Do(s, "run"), pushed(u)) EXCEPT !.nopencalls[f] = @ + 1], s, pushed(u), s.native)
             /\ [Set(Do(s, "run"), pushed(u)) EXCEPT !.nopencalls[f] = @ + 1].todo = "run"
  <2> DEFINE v == pushed(u)
             x == Do(s, "run")
             y == Set(x, v)
  <2> HIDE DEF v
  <2>1. Whole(x) /\ x.th = s.th /\ x.native = s.native /\ x.todo = "run"
    BY DoFields
  <2>2. Run(x) = Run(s)
    BY <2>1 DEF Run, Act
  <2> HIDE DEF x
  <2>3. Whole(y) /\ y.th = [s.th EXCEPT ![Run(s)] = v] /\ y.native = s.native /\ y.todo = "run"
    BY <2>1, <2>2, SetFields
  <2> HIDE DEF y
  <2>4. /\ Now([y EXCEPT !.nopencalls[f] = @ + 1], s, v, s.native)
        /\ [y EXCEPT !.nopencalls[f] = @ + 1].todo = "run"
    BY <2>3 DEF Now, Whole
  <2> QED BY <2>4 DEF x, y, v
<1>6. ASSUME NEW u, NEW w
      PROVE  Now(Do(Set(s, u), w), s, u, s.native) /\ Do(Set(s, u), w).todo = w
  <2> DEFINE y == Set(s, u)
  <2>1. Whole(y) /\ y.th = [s.th EXCEPT ![Run(s)] = u] /\ y.native = s.native
    BY SetFields
  <2> HIDE DEF y
  <2> QED BY <2>1, DoFields DEF Now, y
<1> HIDE DEF pushed
<1>7. CASE Len(t.ci) < t.size - 1
  <2>1. r = [Set(Do(s, "run"), pushed(t)) EXCEPT !.nopencalls[f] = @ + 1]
    BY <1>7 DEF PushFrame, pushed, t, grown
  <2>2. Kept(pushed(t), t0) /\ Enters(pushed(t), t0, f)
    BY <1>1, <1>2, <1>4, <1>7
  <2> QED BY <1>5, <2>1, <2>2
<1>8. CASE Len(t.ci) = t.size - 1 /\ t.size > MaxCalls
  <2>1. r = Do(Set(s, t), "throw")
    BY <1>8, <1>1, <1>2, CallsAssumption DEF PushFrame, t
  <2>2. Keeps(t, t0, Len(t0.ci))
    BY <1>2 DEF Keeps
  <2> QED BY <1>2, <1>6, <2>1, <2>2
<1>9. CASE Len(t.ci) = t.size - 1 /\ t.size <= MaxCalls
  <2>1. Kept(grown, t0) /\ Len(t0.ci) + 1 < grown.size
    BY <1>1, <1>2, <1>3, <1>9, KeptTrans
  <2>2. CASE grown.size > MaxCalls
    <3>1. r = Do(Set(s, grown), "raise")
      BY <1>9, <1>1, <1>2, <2>2, CallsAssumption DEF PushFrame, t, grown
    <3>2. Keeps(grown, t0, Len(t0.ci))
      BY <1>1, <1>2, <1>3, <2>1 DEF Keeps
    <3> QED BY <1>6, <2>1, <3>1, <3>2
  <2>3. CASE ~(grown.size > MaxCalls)
    <3>1. r = [Set(Do(s, "run"), pushed(grown)) EXCEPT !.nopencalls[f] = @ + 1]
      BY <1>9, <1>1, <1>2, <2>3, CallsAssumption DEF PushFrame, t, grown, pushed
    <3>2. Kept(pushed(grown), t0) /\ Enters(pushed(grown), t0, f)
      BY <1>2, <1>3, <1>4, <2>1
    <3> QED BY <1>5, <3>1, <3>2
  <2> QED BY <2>2, <2>3
<1>10. \/ Len(t.ci) < t.size - 1
       \/ Len(t.ci) = t.size - 1 /\ t.size > MaxCalls
       \/ Len(t.ci) = t.size - 1 /\ t.size <= MaxCalls
  BY <1>1, <1>2, CallsAssumption
<1> QED BY <1>7, <1>8, <1>9, <1>10

\* What is kept keeps the thread fine.
LEMMA KeptFine ==
  ASSUME NEW s, NEW g, State(s, g), NEW u, Kept(u, Cur(s)), Len(u.ci) < u.size,
         \A i \in 1 .. g[Len(g)].b + Runs(Act(s)) : u.ci[i] = Cur(s).ci[i],
         g[Len(g)].b + Runs(Act(s)) <= Len(u.ci)
  PROVE  Onto(s, u, Act(s), g[Len(g)]) /\ Fine(u, Act(s), g[Len(g)])
<1>1. Fine(Cur(s), Act(s), g[Len(g)])
  BY DEF State
<1>2. Fine(u, Act(s), g[Len(g)])
  BY <1>1 DEF Fine, Kept
<1>3. Onto(s, u, Act(s), g[Len(g)])
  BY DEF Onto, Goes, Kept
<1> QED BY <1>2, <1>3

\* A thread that kept its frames fits where it ran.
LEMMA KeepsOnto ==
  ASSUME NEW s, NEW g, State(s, g), NEW u, Kept(u, Cur(s)),
         NEW n, Keeps(u, Cur(s), n), n \in Nat, g[Len(g)].b + Runs(Act(s)) <= n
  PROVE  Onto(s, u, Act(s), g[Len(g)]) /\ Fine(u, Act(s), g[Len(g)])
<1>1. g[Len(g)].b \in Nat /\ Runs(Act(s)) \in Nat
  BY StateFacts
<1> DEFINE d == g[Len(g)].b + Runs(Act(s))
<1>2. d \in Nat /\ d <= n
  BY <1>1
<1> HIDE DEF d
<1>3. Len(u.ci) < u.size /\ d <= Len(u.ci) /\ \A i \in 1 .. d : u.ci[i] = Cur(s).ci[i]
  BY <1>2 DEF Keeps
<1> QED BY <1>3, KeptFine DEF d

\* Only what comes next is settled.
LEMMA DoState ==
  ASSUME NEW s, NEW g, State(s, g), NEW w
  PROVE  /\ State(Do(s, w), g) /\ Act(Do(s, w)) = Act(s) /\ Cur(Do(s, w)) = Cur(s)
         /\ Run(Do(s, w)) = Run(s) /\ Do(s, w).todo = w /\ Own(Do(s, w), g) = Own(s, g)
<1>1. /\ Whole(Do(s, w)) /\ Do(s, w).th = s.th /\ Do(s, w).native = s.native
      /\ Do(s, w).todo = w
  BY DoFields DEF State, Typed
<1>2. Act(Do(s, w)) = Act(s) /\ Cur(Do(s, w)) = Cur(s) /\ Run(Do(s, w)) = Run(s)
  BY <1>1 DEF Act, Cur, Run
<1> QED BY <1>1, <1>2 DEF State, Typed, Own

\* An error is raised or thrown, wherever that may be.
LEMMA FailGood ==
  ASSUME NEW s, NEW g, State(s, g), Act(s).k \in {"exec", "call", "resume"},
         NEW w \in {"raise", "throw"}
  PROVE  Good(Do(s, w), g)
BY DoState DEF Good, Doing

\* luaD_precall of a function that may be called.
LEMMA PrecallGood ==
  ASSUME NEW s, NEW g, NEW f, Ready(s, g, f)
  PROVE  \E h : Good(Precall(s, f), h)
<1> DEFINE p == PushFrame(s, f)
           l == g[Len(g)]
           n == Len(Cur(s).ci)
<1>1. /\ Whole(s) /\ s.th \in [Threads -> Thread] /\ Run(s) \in Threads /\ Len(g) \in Nat
      /\ Cur(s) = s.th[Run(s)] /\ Cur(s) \in Thread /\ n \in Nat /\ Len(Cur(s).ci) < Cur(s).size
      /\ l \in Level /\ l.b \in Nat /\ l.m \in Modes /\ Runs(Act(s)) \in Nat
      /\ l.b + Runs(Act(s)) <= n /\ Len(s.native) = Len(g) /\ 1 <= Len(g)
  BY StateFacts DEF Ready
<1>2. /\ State(s, g) /\ f \in Functions /\ Suits(f, l.m) /\ n = l.b + Runs(Act(s))
      /\ Act(s).k \in {"exec", "call", "resume"}
  <2>1. n - l.b - Runs(Act(s)) = 0
    BY DEF Ready, Own
  <2> HIDE DEF n
  <2>2. n = l.b + Runs(Act(s))
    BY <1>1, <2>1
  <2> QED BY <2>2 DEF Ready
<1>3. PICK u : /\ Now(p, s, u, s.native) /\ Kept(u, Cur(s))
               /\ \/ p.todo = "run" /\ Enters(u, Cur(s), f)
                  \/ p.todo \in {"raise", "throw"} /\ Keeps(u, Cur(s), n)
  BY <1>1, <1>2, PushFrameFields
<1> HIDE DEF p
<1>4. Onto(s, u, Act(s), l) /\ Fine(u, Act(s), l) /\ u \in Thread
  <2>1. Len(u.ci) < u.size /\ n <= Len(u.ci) /\ \A i \in 1 .. n : u.ci[i] = Cur(s).ci[i]
    BY <1>1, <1>3, SMTT(60) DEF Enters, Keeps
  <2>2. /\ \A i \in 1 .. l.b + Runs(Act(s)) : u.ci[i] = Cur(s).ci[i]
        /\ l.b + Runs(Act(s)) <= Len(u.ci)
    BY <1>2, <2>1
  <2>3. u \in Thread
    BY <1>3 DEF Kept
  <2> QED BY <1>2, <1>3, <2>1, <2>2, <2>3, KeptFine
<1>5. State(p, g) /\ Act(p) = Act(s) /\ Run(p) = Run(s) /\ Cur(p) = u
  BY <1>2, <1>3, <1>4, SameState
<1>6. Whole(p) /\ p.native = s.native /\ p.th = [s.th EXCEPT ![Run(s)] = u]
  BY <1>3 DEF Now
<1>7. CASE p.todo # "run"
  <2>1. Precall(s, f) = p
    BY <1>7 DEF Precall, p
  <2>2. Good(p, g)
    BY <1>2, <1>3, <1>5, <1>7 DEF Good, Doing
  <2> QED BY <2>1, <2>2
<1>8. ASSUME p.todo = "run"
      PROVE  /\ Len(u.ci) = n + 1 /\ u.ci[n + 1] = f /\ \A i \in 1 .. n : u.ci[i] = Cur(s).ci[i]
             /\ Len(u.ci) < u.size
  BY <1>1, <1>3, <1>8 DEF Enters
<1>9. CASE p.todo = "run" /\ f \notin LuaFunctions
  <2> DEFINE r == Do(p, "body")
  <2>1. Precall(s, f) = r
    BY <1>9 DEF Precall, p
  <2>2. /\ State(r, g) /\ Act(r) = Act(s) /\ Cur(r) = u /\ r.todo = "body"
    BY <1>5, DoState
  <2> HIDE DEF r
  <2>3. Own(r, g) = 1
    BY <1>1, <1>2, <1>8, <1>9, <2>2, SMTT(60) DEF Own
  <2>4. Top(r) = f /\ f \in CFunctions
    BY <1>1, <1>2, <1>8, <1>9, <2>2 DEF Top, Functions
  <2>5. Act(s).k = "exec" => CallerIn(r) = Top(s)
    <3>1. SUFFICES ASSUME Act(s).k = "exec" PROVE CallerIn(r) = Top(s)
      OBVIOUS
    <3>2. 1 <= Runs(Act(s))
      BY <1>2, <3>1, ExecFacts
    <3>3. n \in 1 .. n
      BY <1>1, <1>2, <3>2
    <3>4. u.ci[n] = Cur(s).ci[n] /\ Len(u.ci) - 1 = n
      <4> HIDE DEF n
      <4> QED BY <1>1, <1>8, <1>9, <3>3
    <3> QED BY <2>2, <3>4 DEF CallerIn, Top
  <2>6. Good(r, g)
    BY <1>2, <2>2, <2>3, <2>4, <2>5 DEF Good, Doing, Ready
  <2> QED BY <2>1, <2>6
<1>10. CASE p.todo = "run" /\ f \in LuaFunctions
  <2> DEFINE v == Reenter(u, f)
             x == Set(p, v)
  <2>1. Kept(v, u) /\ Keeps(v, u, Len(u.ci)) /\ v.ci = u.ci
    BY <1>4, <1>8, <1>10, ReenterKept
  <2> HIDE DEF v
  <2>2. v \in Thread /\ Len(v.ci) < v.size /\ Kept(v, u)
    BY <2>1 DEF Kept, Keeps
  <2>3. Whole(x) /\ x.th = [p.th EXCEPT ![Run(p)] = v] /\ x.native = s.native /\ x.todo = "run"
    BY <1>6, <1>10, SetFields
  <2> HIDE DEF x
  <2>4. Onto(p, v, Act(p), l) /\ Fine(v, Act(p), l)
    <3>1. Kept(v, Cur(p)) /\ Keeps(v, Cur(p), Len(u.ci)) /\ Len(u.ci) \in Nat
      BY <1>1, <1>5, <1>8, <1>10, <2>1
    <3>2. l.b + Runs(Act(p)) <= Len(u.ci)
      BY <1>1, <1>2, <1>5, <1>8, <1>10
    <3> HIDE DEF l
    <3> QED BY <1>5, <3>1, <3>2, KeepsOnto DEF l
  <2>5. CASE Act(s).k = "exec"
    <3> DEFINE a == [k |-> "exec", th |-> Run(s), n |-> Act(s).n + 1]
               r == [x EXCEPT !.native[Len(s.native)].n = Act(s).n + 1]
               m == Act(s).n + 1
    <3>1. /\ Act(s).n \in Nat /\ 1 <= Act(s).n /\ Runs(Act(s)) = Act(s).n
          /\ RunsIn(Cur(s).ci, l.b, Act(s).n, l.m)
      BY <1>2, <2>5, ExecFacts
    <3>2. m \in Nat /\ 1 <= m /\ l.b + m = n + 1
      BY <1>1, <1>2, <3>1, SMTT(60)
    <3>3. Precall(s, f) = r
      <4>1. Precall(s, f) = Execute(p, f)
        BY <1>10 DEF Precall, p
      <4>2. Execute(p, f) = [x EXCEPT !.native[Len(p.native)].n = @ + 1]
        BY <1>5, <2>5 DEF Execute, x, v
      <4>3. x.native[Len(p.native)].n = Act(s).n
        BY <1>6, <2>3 DEF Act
      <4> QED BY <1>6, <4>1, <4>2, <4>3
    <3>4. Now(r, p, v, [p.native EXCEPT ![Len(p.native)].n = m]) /\ r.todo = "run"
      <4> DEFINE N == [x.native EXCEPT ![Len(s.native)].n = m]
      <4>1. r = [x EXCEPT !.native = N]
        BY <2>3 DEF Whole
      <4>2. N = [p.native EXCEPT ![Len(p.native)].n = m]
        BY <1>6, <2>3
      <4> HIDE DEF N, r, m
      <4>3. Whole(r) /\ r.th = x.th /\ r.todo = x.todo /\ r.native = N
        BY <2>3, <4>1, NativeFields
      <4> QED BY <2>3, <4>2, <4>3 DEF Now
    <3>5. RunsIn(v.ci, l.b, m, l.m)
      <4>1. \A i \in l.b + 1 .. l.b + m : i = n + 1 \/ i \in l.b + 1 .. l.b + Act(s).n
        <5> HIDE DEF l, n
        <5> QED BY <1>1, <3>1, <3>2
      <4>2. \A i \in l.b + 1 .. l.b + Act(s).n : i \in 1 .. n
        BY <1>1, <1>2, <3>1
      <4>3. \A i \in l.b + 1 .. l.b + Act(s).n : v.ci[i] \in LuaFunctions /\ Suits(v.ci[i], l.m)
        BY <1>8, <1>10, <2>1, <3>1, <4>2 DEF RunsIn
      <4>4. v.ci[n + 1] \in LuaFunctions /\ Suits(v.ci[n + 1], l.m)
        BY <1>2, <1>8, <1>10, <2>1
      <4>5. l.b + m <= Len(v.ci)
        BY <1>1, <1>8, <1>10, <2>1, <3>2
      <4> HIDE DEF m
      <4> QED BY <4>1, <4>3, <4>4, <4>5 DEF RunsIn
    <3>6. Goes(p, v, l.b)
      <4>1. \A i \in 1 .. l.b : i \in 1 .. l.b + Runs(Act(p))
        BY <1>1, <1>5
      <4>2. l.b <= Len(v.ci)
        BY <1>1, <1>2, <1>8, <1>10, <2>1
      <4> QED BY <2>4, <4>1, <4>2 DEF Onto, Goes
    <3>7. Fine(v, a, l)
      <4>1. Runs(a) = m /\ a.k # "c" /\ Act(p).k # "c"
        BY <1>5, <2>5 DEF Runs
      <4>2. l.b + m <= Len(v.ci)
        BY <3>5 DEF RunsIn
      <4> HIDE DEF m, a
      <4> QED BY <2>4, <4>1, <4>2 DEF Fine
    <3>8. a = [k |-> "exec", th |-> Run(p), n |-> m] /\ Act(p).k = "exec"
      BY <1>5, <2>5
    <3> HIDE DEF r, m, a
    <3>9. State(r, g) /\ Act(r) = a /\ Run(r) = Run(p) /\ Cur(r) = v
      BY <1>5, <3>2, <3>4, <3>5, <3>6, <3>7, <3>8, ExecState, SMTT(60)
    <3>10. Own(r, g) = 0
      <4>1. Runs(a) = m
        BY <3>8 DEF Runs
      <4> QED BY <1>1, <1>8, <1>10, <2>1, <3>2, <3>9, <4>1 DEF Own
    <3>11. Good(r, g)
      BY <3>4, <3>8, <3>9, <3>10 DEF Good, Doing
    <3> QED BY <3>3, <3>11
  <2>6. CASE Act(s).k # "exec"
    <3> DEFINE a == [k |-> "exec", th |-> Run(s), n |-> 1]
               r == Push(x, a)
    <3>1. Precall(s, f) = r
      <4>1. Precall(s, f) = Execute(p, f)
        BY <1>10 DEF Precall, p
      <4>2. Execute(p, f) = Push(x, [k |-> "exec", th |-> Run(p), n |-> 1])
        BY <1>5, <2>6 DEF Execute, x, v
      <4> QED BY <1>5, <4>1, <4>2
    <3>2. a \in Activation /\ a.k = "exec" /\ a.th = Run(p) /\ Runs(a) = 1 /\ a.n = 1
      BY <1>1, <1>5 DEF Activation, Runs
    <3> HIDE DEF a
    <3>3. Ahead(r, p, v, a) /\ r.todo = "run"
      <4>1. Whole(r) /\ r.th = x.th /\ r.todo = x.todo /\ r.native = Append(x.native, a)
        BY <2>3, PushFields
      <4> QED BY <1>6, <2>3, <4>1 DEF Ahead, Now
    <3> HIDE DEF r
    <3>4. Runs(Act(s)) = 0 /\ Len(v.ci) = l.b + 1 /\ v.ci[l.b + 1] = f
      BY <1>1, <1>2, <1>8, <1>10, <2>1, <2>6 DEF Runs
    <3>5. Link(r.th, Act(p), l, a, l)
      <4>1. r.th[Run(p)] = v
        BY <1>1, <1>5, <1>6, <3>3 DEF Ahead, Now
      <4>2. Act(p).k \in {"call", "resume"} /\ Act(p).th = Run(p)
        BY <1>2, <1>5, <2>6 DEF Run
      <4>3. \A i \in l.b + 1 .. l.b + a.n : v.ci[i] = f
        BY <1>1, <3>2, <3>4
      <4>4. LinkExec(r.th, Act(p), l, a, l)
        BY <1>1, <1>2, <1>10, <3>2, <3>4, <4>1, <4>2, <4>3 DEF LinkExec
      <4> QED BY <4>4 DEF Link
    <3>6. Fine(v, a, l)
      <4>1. Act(p).k # "c" /\ l.b + Runs(a) <= Len(v.ci)
        BY <1>1, <1>2, <1>5, <3>2, <3>4
      <4> QED BY <2>4, <3>2, <4>1 DEF Fine
    <3>7. /\ State(r, Append(g, l)) /\ Len(Append(g, l)) = Len(g) + 1
          /\ Append(g, l)[Len(g) + 1] = l /\ Act(r) = a /\ Run(r) = Run(p) /\ Cur(r) = v
      BY <1>1, <1>5, <2>4, <3>2, <3>3, <3>5, <3>6, PushState
    <3>8. Own(r, Append(g, l)) = 0
      <4> DEFINE h == Append(g, l)
      <4>1. h[Len(h)] = l
        BY <1>1, <3>7
      <4> HIDE DEF h
      <4> QED BY <1>1, <3>2, <3>4, <3>7, <4>1 DEF Own, h
    <3>9. Good(r, Append(g, l))
      BY <3>2, <3>3, <3>7, <3>8 DEF Good, Doing
    <3> QED BY <3>1, <3>9
  <2> QED BY <2>5, <2>6
<1> QED BY <1>7, <1>9, <1>10

\* What luaD_call may call it may call in that mode.
LEMMA CalledReady ==
  ASSUME NEW s, NEW g, State(s, g), Own(s, g) = 0, Act(s).k = "call",
         NEW f, Called(f), Suits(f, g[Len(g)].m)
  PROVE  Ready(s, g, f)
BY NamesAssumption DEF Ready, Called, Functions, CFunctions

\* luaD_call: the thread counts a C call more and an activation stands above,
\* then the function is entered or an error raised.
LEMMA LuaDCallParts ==
  ASSUME NEW s, Whole(s), s.native \in Seq(Activation), s.th \in [Threads -> Thread],
         Run(s) \in Threads, NEW f
  PROVE  \E r, u, a, N : Deeper(s, f, r, u, a, N)
<1> DEFINE n == Cur(s).nCcalls + 1
           a == [k |-> "call", th |-> Run(s)]
           x == Push(s, a)
           u == [Cur(s) EXCEPT !.nCcalls = n]
           N == Append(s.native, a)
           r == Set(x, u)
<1>1. n \in Int /\ Cur(s) \in Thread
  BY DEF Cur, Thread
<1>2. /\ u \in Thread /\ u.ci = Cur(s).ci /\ u.size = Cur(s).size /\ u.mode = Cur(s).mode
      /\ u.stack = Cur(s).stack /\ u.errfunc = Cur(s).errfunc
      /\ u.baseCcalls = Cur(s).baseCcalls /\ u.status = Cur(s).status /\ u.nCcalls = n
  <2> HIDE DEF n
  <2> QED BY <1>1 DEF Thread
<1>3. Len(u.ci) \in Nat
  BY <1>2, LenProperties DEF Thread
<1>4. a \in Activation /\ a.k = "call" /\ a.th = Run(s)
  BY DEF Activation
<1>5. N \in Seq(Activation) /\ N[Len(N)] = a /\ 1 <= Len(N)
  <2> HIDE DEF a
  <2> QED BY <1>4, OneMore
<1>6. Now(r, s, u, N) /\ Quiet(r, s)
  <2>1. Whole(x) /\ x.th = s.th /\ x.native = N /\ Quiet(x, s)
    BY PushFields, QuietFields
  <2>2. Run(x) = Run(s)
    BY <1>4, <1>5, <2>1 DEF Run, Act
  <2> HIDE DEF x, u, N
  <2> QED BY <2>1, <2>2, SetFields, QuietFields DEF Now, Quiet
<1>7. LuaDCall(s, f) \in {Precall(r, f), Do(r, "raise"), Do(r, "throw")}
  <2>1. CASE n < MaxCCalls
    BY <2>1 DEF LuaDCall, r, x, a, u
  <2>2. CASE n = MaxCCalls
    BY <1>1, <2>2, CallsAssumption DEF LuaDCall, r, x, a, u
  <2>3. CASE n > MaxCCalls /\ n < MaxCCalls + CCallsSlack
    BY <1>1, <2>3, CallsAssumption DEF LuaDCall, r, x, a, u
  <2>4. CASE n > MaxCCalls /\ n >= MaxCCalls + CCallsSlack
    BY <1>1, <2>4, CallsAssumption DEF LuaDCall, r, x, a, u
  <2> QED BY <1>1, <2>1, <2>2, <2>3, <2>4, CallsAssumption
<1>8. n = Cur(s).nCcalls + 1 /\ N = Append(s.native, a)
  OBVIOUS
<1> HIDE DEF a, x, u, r, N, n
<1>9. Deeper(s, f, r, u, a, N)
  BY <1>2, <1>3, <1>4, <1>5, <1>6, <1>7, <1>8 DEF Deeper
<1> QED BY <1>9

\* luaD_call from a protected call or for a message handler.
LEMMA LuaDCallGood ==
  ASSUME NEW s, NEW g, State(s, g), Own(s, g) = 0, Act(s).k \in {"try", "errmsg"},
         NEW f, Called(f), Suits(f, g[Len(g)].m)
  PROVE  \E h : Good(LuaDCall(s, f), h)
<1> DEFINE l == g[Len(g)]
<1>1. /\ Whole(s) /\ Run(s) \in Threads /\ Len(g) \in Nat /\ Len(Cur(s).ci) \in Nat
      /\ Cur(s) \in Thread /\ Len(Cur(s).ci) < Cur(s).size
      /\ l \in Level /\ l.b \in Nat /\ l.c \in Nat /\ l.m \in Modes /\ Runs(Act(s)) \in Nat
      /\ Len(s.native) = Len(g) /\ 1 <= Len(g)
      /\ s.native \in Seq(Activation) /\ s.th \in [Threads -> Thread] /\ Cur(s) = s.th[Run(s)]
  BY StateFacts
<1>2. PICK r, u, a, N : Deeper(s, f, r, u, a, N)
  BY <1>1, LuaDCallParts
<1>3. /\ Fine(Cur(s), Act(s), l) /\ Cur(s).nCcalls = l.c /\ u.nCcalls = l.c + 1
      /\ Ahead(r, s, u, a) /\ Runs(a) = 0
  BY <1>1, <1>2 DEF Deeper, State, Fine, Ahead, Runs
<1> DEFINE m == [m |-> l.m, c |-> l.c + 1, b |-> l.b]
           h == Append(g, m)
<1>4. m \in Level /\ m.m = l.m /\ m.c = u.nCcalls /\ m.b = l.b
  BY <1>1, <1>3 DEF Level
<1> HIDE DEF m
<1>5. l.b + Runs(Act(s)) <= Len(Cur(s).ci)
  BY StateFacts
<1>6. Runs(Act(s)) = 0 /\ Act(s).k # "c"
  BY DEF Runs
<1>7. Onto(s, u, Act(s), l)
  BY <1>1, <1>2, <1>5 DEF Deeper, Onto, Goes
<1>8. Link(r.th, Act(s), l, a, m)
  <2>1. LinkCall(Act(s), l, a, m)
    BY <1>2, <1>3 DEF Deeper, LinkCall, m, Run
  <2> QED BY <2>1 DEF Link
<1>9. Fine(u, a, m)
  BY <1>1, <1>2, <1>3, <1>4, <1>5, <1>6 DEF Deeper, Fine
<1>10. /\ State(r, h) /\ Len(h) = Len(g) + 1 /\ h[Len(g) + 1] = m
       /\ Act(r) = a /\ Run(r) = Run(s) /\ Cur(r) = u
  BY <1>2, <1>3, <1>4, <1>7, <1>8, <1>9, PushState DEF Deeper
<1>11. h[Len(h)] = m
  BY <1>1, <1>10
<1> HIDE DEF h
<1>12. Own(r, h) = 0
  <2>1. Len(Cur(s).ci) - l.b - 0 = 0
    BY <1>6 DEF Own
  <2> QED BY <1>2, <1>3, <1>4, <1>10, <1>11, <2>1 DEF Deeper, Own
<1>13. Ready(r, h, f)
  BY <1>2, <1>4, <1>10, <1>11, <1>12, CalledReady DEF Deeper
<1>14. \E k : Good(Precall(r, f), k)
  BY <1>13, PrecallGood
<1>15. Good(Do(r, "raise"), h) /\ Good(Do(r, "throw"), h)
  BY <1>2, <1>10, FailGood DEF Deeper
<1> QED BY <1>2, <1>14, <1>15 DEF Deeper

\* A protected call from the body of a C function.
LEMMA PCallGood ==
  ASSUME NEW s, NEW g, Good(s, g), s.todo = "body",
         NEW f, Top(s) = f, NEW u, Switches(u, Cur(s), f),
         NEW r, Now(r, s, u, s.native),
         NEW saved \in Saved, saved.mode = Cur(s).mode,
         NEW e, e \in Functions \cup {None}, HandlerSuits(e, u.mode),
         NEW f2, Called(f2), Suits(f2, u.mode)
  PROVE  \E h : Good(PCall(r, f, saved, e, f2), h)
<1> DEFINE l == g[Len(g)]
           a == [k |-> "c", th |-> Run(s), f |-> f, saved |-> saved]
           m == [m |-> Switched(f, l.m), c |-> l.c, b |-> l.b + Runs(Act(s)) + 1]
           x == Push(r, a)
           g1 == Append(g, m)
           b == [k |-> "try", th |-> Run(s), ci |-> Len(u.ci), nCcalls |-> u.nCcalls,
                 errfunc |-> u.errfunc]
           v == [u EXCEPT !.errfunc = e]
           y == Set(Push(x, b), v)
           g2 == Append(g1, m)
<1>1. /\ Whole(s) /\ Run(s) \in Threads /\ Len(g) \in Nat /\ Len(Cur(s).ci) \in Nat
      /\ Cur(s) \in Thread /\ Len(Cur(s).ci) < Cur(s).size
      /\ l \in Level /\ l.b \in Nat /\ l.c \in Nat /\ l.m \in Modes /\ Runs(Act(s)) \in Nat
      /\ Len(s.native) = Len(g) /\ 1 <= Len(g) /\ l.b + Runs(Act(s)) <= Len(Cur(s).ci)
      /\ s.native \in Seq(Activation) /\ s.th \in [Threads -> Thread] /\ Cur(s) = s.th[Run(s)]
  BY StateFacts DEF Good
<1>2. /\ State(s, g) /\ Fine(Cur(s), Act(s), l) /\ Cur(s).nCcalls = l.c /\ Cur(s).mode = l.m
      /\ Act(s).k \in {"exec", "call"} /\ Own(s, g) = 1 /\ f \in CFunctions /\ Suits(f, l.m)
  BY DEF Good, State, Fine, Doing
<1>3. Len(Cur(s).ci) = l.b + Runs(Act(s)) + 1
  <2>1. Len(Cur(s).ci) - l.b - Runs(Act(s)) = 1
    BY <1>2 DEF Own
  <2> QED BY <1>1, <2>1
<1>4. HandlerSuits(Cur(s).errfunc, l.m) /\ Cur(s).errfunc \in Functions \cup {None}
  BY <1>1, <1>2 DEF Fine, Thread
<1>5. a \in Activation /\ a.k = "c" /\ a.th = Run(s) /\ Runs(a) = 0 /\ a.f = f /\ a.saved = saved
  BY <1>1, <1>2 DEF Activation, Runs
<1>6. m \in Level /\ m.m = u.mode /\ m.c = l.c /\ m.b = Len(Cur(s).ci)
  BY <1>1, <1>2, <1>3 DEF Level, Switches, Switched, Modes
<1>7. u \in Thread /\ u.ci = Cur(s).ci /\ u.size = Cur(s).size /\ Len(u.ci) = m.b /\ u.nCcalls = m.c
  BY <1>2, <1>6 DEF Switches
<1>8. Ahead(x, s, u, a)
  <2>1. Whole(r) /\ r.th = [s.th EXCEPT ![Run(s)] = u] /\ r.native = s.native
    BY DEF Now
  <2>2. Whole(x) /\ x.th = r.th /\ x.native = Append(r.native, a)
    BY <2>1, PushFields
  <2> QED BY <2>1, <2>2 DEF Ahead, Now
<1>9. Run(r) = Run(s) /\ Cur(r) = u
  BY <1>1 DEF Now, Run, Act, Cur
<1>10. Link(x.th, Act(s), l, a, m)
  <2>1. LinkC(Act(s), l, a, m)
    BY <1>2, <1>5 DEF LinkC, Run
  <2> QED BY <2>1 DEF Link
<1> HIDE DEF a, m
<1>11. Onto(s, u, Act(s), l) /\ Fine(u, a, m)
  <2>1. Onto(s, u, Act(s), l)
    BY <1>1, <1>7 DEF Onto, Goes, Switches
  <2>2. HandlerSuits(u.errfunc, a.saved.mode)
    BY <1>2, <1>4, <1>5 DEF Switches
  <2>3. m.b + Runs(a) <= Len(u.ci)
    BY <1>1, <1>5, <1>6, <1>7
  <2>4. Fine(u, a, m)
    BY <1>5, <1>6, <1>7, <2>2, <2>3 DEF Fine, Switches
  <2> QED BY <2>1, <2>4
<1> HIDE DEF x
<1>12. /\ State(x, g1) /\ Len(g1) = Len(g) + 1 /\ g1[Len(g) + 1] = m
       /\ Act(x) = a /\ Run(x) = Run(s) /\ Cur(x) = u
  BY <1>2, <1>5, <1>6, <1>8, <1>10, <1>11, PushState
<1>13. g1[Len(g1)] = m /\ Len(g1) \in Nat /\ 1 <= Len(g1)
  BY <1>1, <1>12
<1> HIDE DEF g1
<1>14. b \in Activation /\ b.k = "try" /\ b.th = Run(x) /\ Runs(b) = 0
  BY <1>1, <1>6, <1>7, <1>12 DEF Activation, Runs, Thread, Level
<1>15. v \in Thread /\ v.ci = u.ci /\ v.size = u.size /\ v.mode = u.mode /\ v.stack = u.stack
       /\ v.nCcalls = u.nCcalls /\ v.baseCcalls = u.baseCcalls /\ v.status = u.status
       /\ v.errfunc = e
  BY <1>7 DEF Thread
<1>16. Link(x.th, Act(x), m, b, m)
  <2>1. HandlerSuits(u.errfunc, a.saved.mode)
    BY <1>2, <1>4, <1>5 DEF Switches
  <2>2. LinkTry(Act(x), m, b, m)
    BY <1>5, <1>7, <1>12, <1>14, <2>1 DEF LinkTry, Run
  <2> QED BY <2>2 DEF Link
<1>17. Ahead(y, x, v, b)
  <2>1. Whole(x) /\ x.native \in Seq(Activation)
    BY <1>12, StateFacts
  <2> DEFINE z == Push(x, b)
  <2>2. Whole(z) /\ z.th = x.th /\ z.native = Append(x.native, b)
    BY <2>1, PushFields
  <2>3. Run(z) = Run(x)
    <3>1. /\ Len(Append(x.native, b)) = Len(x.native) + 1
          /\ Append(x.native, b)[Len(x.native) + 1] = b
      BY <1>14, <2>1, OneMore
    <3> HIDE DEF z, b
    <3> QED BY <1>14, <2>2, <3>1 DEF Run, Act
  <2> HIDE DEF z, v
  <2>4. Whole(y) /\ y.th = [x.th EXCEPT ![Run(x)] = v] /\ y.native = Append(x.native, b)
    BY <2>2, <2>3, SetFields DEF z
  <2> QED BY <2>4 DEF Ahead, Now
<1> HIDE DEF b, v, y
<1>18. Link(y.th, Act(x), m, b, m)
  BY <1>16, <1>5, <1>12, <1>14 DEF Link, LinkC, LinkTry, LinkCall, LinkExec, LinkErrMsg, LinkResume
<1>19. Onto(x, v, Act(x), m) /\ Fine(v, b, m)
  <2>1. Onto(x, v, Act(x), m)
    BY <1>1, <1>5, <1>6, <1>7, <1>12, <1>15 DEF Onto, Goes
  <2>2. m.b + Runs(b) <= Len(v.ci)
    BY <1>1, <1>6, <1>7, <1>14, <1>15
  <2>3. Fine(v, b, m)
    BY <1>6, <1>7, <1>14, <1>15, <2>2 DEF Fine, Switches
  <2> QED BY <2>1, <2>3
<1>20. /\ State(y, g2) /\ Len(g2) = Len(g1) + 1 /\ g2[Len(g1) + 1] = m
       /\ Act(y) = b /\ Run(y) = Run(x) /\ Cur(y) = v
  BY <1>6, <1>12, <1>13, <1>14, <1>17, <1>18, <1>19, PushState
<1>21. g2[Len(g2)] = m
  BY <1>13, <1>20
<1> HIDE DEF g2
<1>22. Own(y, g2) = 0
  BY <1>1, <1>6, <1>7, <1>14, <1>15, <1>20, <1>21 DEF Own
<1>23. \E h : Good(LuaDCall(y, f2), h)
  BY <1>6, <1>14, <1>20, <1>21, <1>22, LuaDCallGood
<1>24. PCall(r, f, saved, e, f2) = LuaDCall(y, f2)
  BY <1>9, <1>12 DEF PCall, y, x, a, b, v
<1> QED BY <1>23, <1>24

\* A C function returns.
LEMMA CReturnGood ==
  ASSUME NEW s, NEW g, State(s, g), Own(s, g) = 1, Act(s).k \in {"exec", "call"}
  PROVE  Good(CReturn(s), g)
<1> DEFINE l == g[Len(g)]
           n == Len(Cur(s).ci) - 1
           x == Unwind(s, n)
           r == Do(x, IF Act(s).k = "exec" THEN "run" ELSE "returned")
<1>1. /\ Whole(s) /\ Run(s) \in Threads /\ Len(g) \in Nat /\ Len(Cur(s).ci) \in Nat
      /\ Cur(s) \in Thread /\ Len(Cur(s).ci) < Cur(s).size
      /\ l.b \in Nat /\ Runs(Act(s)) \in Nat /\ s.th \in [Threads -> Thread]
  BY StateFacts
<1>2. n = l.b + Runs(Act(s)) /\ n \in Nat /\ n \in 0 .. Len(Cur(s).ci)
  <2>1. Len(Cur(s).ci) - l.b - Runs(Act(s)) = 1
    BY DEF Own
  <2>2. \A k, b, c \in Nat : k - b - c = 1 => k - 1 = b + c /\ k - 1 \in Nat /\ k - 1 \in 0 .. k
    OBVIOUS
  <2> HIDE DEF l
  <2> QED BY <1>1, <2>1, <2>2
<1>3. PICK u : /\ Now(x, s, u, s.native) /\ Kept(u, Cur(s)) /\ Keeps(u, Cur(s), n)
  <2> HIDE DEF n
  <2> QED BY <1>1, <1>2, UnwindFields
<1>4. Onto(s, u, Act(s), l) /\ Fine(u, Act(s), l)
  <2>1. l.b + Runs(Act(s)) <= n
    BY <1>2
  <2> HIDE DEF n
  <2> QED BY <1>2, <1>3, <2>1, KeepsOnto
<1>5. State(x, g) /\ Act(x) = Act(s) /\ Run(x) = Run(s) /\ Cur(x) = u
  <2> HIDE DEF x, l
  <2> QED BY <1>3, <1>4, SameState DEF l
<1>6. Len(u.ci) = n
  BY <1>3 DEF Keeps
<1> HIDE DEF x, n
<1>7. Own(x, g) = 0
  BY <1>1, <1>2, <1>5, <1>6 DEF Own
<1>8. State(r, g) /\ Act(r) = Act(s) /\ Own(r, g) = 0
      /\ r.todo = IF Act(s).k = "exec" THEN "run" ELSE "returned"
  BY <1>5, <1>7, DoState
<1>9. Good(r, g)
  BY <1>8 DEF Good, Doing
<1> QED BY <1>9 DEF CReturn, x, n

-----------------------------------------------------------------------------
(* The way back *)

\* One change after another.
LEMMA NowTrans ==
  ASSUME NEW s, NEW x, NEW y, NEW u, NEW v, NEW M, NEW N,
         Now(x, s, u, M), Run(x) = Run(s), Now(y, x, v, N)
  PROVE  Now(y, s, v, N)
BY DEF Now

\* What is done last does not count.
LEMMA NowDo ==
  ASSUME NEW s, NEW x, NEW u, NEW N, Now(x, s, u, N), NEW w
  PROVE  Now(Do(x, w), s, u, N) /\ Do(x, w).todo = w
BY DoFields DEF Now

\* A thread is set.
LEMMA NowSet ==
  ASSUME NEW s, Whole(s), NEW u
  PROVE  Now(Set(s, u), s, u, s.native) /\ Set(s, u).todo = s.todo
BY SetFields DEF Now

\* The C stack is cut.
LEMMA NowCut ==
  ASSUME NEW s, NEW x, NEW u, NEW N, Now(x, s, u, N)
  PROVE  /\ \A i : Now(CutTo(x, i), s, u, SubSeq(N, 1, i)) /\ CutTo(x, i).todo = x.todo
         /\ Now(Pop(x), s, u, SubSeq(N, 1, Len(N) - 1)) /\ Pop(x).todo = x.todo
<1>1. Whole(x) /\ x.native = N /\ x.th = [s.th EXCEPT ![Run(s)] = u]
  BY DEF Now
<1>2. \A i : /\ Whole(CutTo(x, i)) /\ CutTo(x, i).th = x.th /\ CutTo(x, i).todo = x.todo
             /\ CutTo(x, i).native = SubSeq(x.native, 1, i)
  BY <1>1, CutFields
<1>3. /\ Whole(Pop(x)) /\ Pop(x).th = x.th /\ Pop(x).todo = x.todo
      /\ Pop(x).native = SubSeq(x.native, 1, Len(x.native) - 1)
  BY <1>1, PopFields
<1> QED BY <1>1, <1>2, <1>3 DEF Now

\* What runs when only the thread that ran has changed.
LEMMA NowRun ==
  ASSUME NEW s, NEW g, State(s, g), NEW x, NEW u, Now(x, s, u, s.native)
  PROVE  Run(x) = Run(s) /\ Cur(x) = u /\ Act(x) = Act(s)
<1>1. s.th \in [Threads -> Thread] /\ Run(s) \in Threads
  BY StateFacts
<1> QED BY <1>1 DEF Now, Run, Act, Cur

\* Two entries are taken off.
LEMMA CutTwice ==
  ASSUME NEW S, NEW q \in Seq(S), 2 <= Len(q)
  PROVE  SubSeq(SubSeq(q, 1, Len(q) - 1), 1, Len(SubSeq(q, 1, Len(q) - 1)) - 1)
           = SubSeq(q, 1, Len(q) - 2)
<1> DEFINE n == Len(q) - 1
           m == Len(q) - 2
           p == SubSeq(q, 1, n)
           A == SubSeq(p, 1, m)
           B == SubSeq(q, 1, m)
<1>1. Len(q) \in Nat /\ n \in 0 .. Len(q) /\ m \in 0 .. Len(q) /\ m \in 0 .. n /\ m = n - 1
  BY LenProperties
<1> HIDE DEF n, m
<1>2. p \in Seq(S) /\ Len(p) = n /\ \A i \in 1 .. n : p[i] = q[i]
  BY <1>1, FirstOnes
<1>3. B \in Seq(S) /\ Len(B) = m /\ \A i \in 1 .. m : B[i] = q[i]
  BY <1>1, FirstOnes
<1> HIDE DEF p, B
<1>4. A \in Seq(S) /\ Len(A) = m /\ \A i \in 1 .. m : A[i] = p[i]
  BY <1>1, <1>2, FirstOnes
<1> HIDE DEF A
<1>5. \A i \in 1 .. m : A[i] = B[i]
  BY <1>1, <1>2, <1>3, <1>4
<1>6. A = B
  BY <1>3, <1>4, <1>5, SeqEqual
<1>7. A = SubSeq(p, 1, Len(p) - 1)
  BY <1>1, <1>2 DEF A
<1> QED BY <1>6, <1>7 DEF A, B, p, n, m

\* A protected call is over: back in the body of the C function.
LEMMA BodyState ==
  ASSUME NEW s, NEW g, Good(s, g), s.todo \in {"ok", "failed"},
         NEW u, Restores(u, Cur(s), Act(s).saved.mode),
         NEW r, Back(r, s, u, Len(g) - 1)
  PROVE  \E h : State(r, h) /\ Own(r, h) = 1 /\ Act(r).k \in {"exec", "call"} /\ Cur(r) = u
<1> DEFINE n == Len(g)
           m == Len(g) - 1
           q == s.native[m]
           p == g[m]
           l == g[n]
<1>1. /\ State(s, g) /\ Act(s).k = "c" /\ Own(s, g) = 0
      /\ Fine(Cur(s), Act(s), l)
  BY DEF Good, State, Doing
<1>2. /\ Len(s.native) = n /\ n \in Nat /\ Act(s) = s.native[n] /\ Run(s) = s.native[n].th
      /\ Len(Cur(s).ci) \in Nat /\ Len(Cur(s).ci) < Cur(s).size
  BY <1>1, StateFacts
<1>3. n \in 2 .. Len(g)
  BY <1>1, BottomFacts
<1>4. /\ Link(s.th, q, p, s.native[n], l) /\ m \in 1 .. Len(g)
      /\ q \in Activation /\ p \in Level /\ p.b \in Nat /\ p.c \in Nat /\ l.b \in Nat
  BY <1>1, <1>3, LinkFacts
<1>5. Runs(q) \in Nat
  BY <1>4 DEF Runs, Activation
<1>6. LinkC(q, p, Act(s), l)
  BY <1>1, <1>2, <1>4, ZenonT(60) DEF Link, LinkTry, LinkCall, LinkExec, LinkErrMsg, LinkResume
<1>7. /\ q.k \in {"exec", "call"} /\ q.th = Run(s) /\ Act(s).saved.mode = p.m
      /\ l.c = p.c /\ l.b = p.b + Runs(q) + 1
  BY <1>2, <1>6 DEF LinkC
<1> HIDE DEF m, q, p, l
<1>8. Len(Cur(s).ci) = p.b + Runs(q) + 1
  <2>1. Runs(Act(s)) = 0
    BY <1>1 DEF Runs
  <2>2. Len(Cur(s).ci) - l.b - 0 = 0
    BY <1>1, <2>1 DEF Own, l
  <2> QED BY <1>2, <1>4, <1>7, <2>2
<1>9. Onto(s, u, q, p)
  BY <1>2, <1>4, <1>5, <1>8 DEF Onto, Goes, Restores
<1>10. Fine(u, q, p)
  BY <1>1, <1>2, <1>4, <1>5, <1>7, <1>8, SMTT(60) DEF Fine, Restores
<1>11. Within(s, m)
  BY <1>2, <1>4, <1>7, SMTT(60) DEF Within, m, q
<1>12. /\ State(r, SubSeq(g, 1, m)) /\ Len(SubSeq(g, 1, m)) = m
       /\ SubSeq(g, 1, m)[m] = p /\ Act(r) = q /\ Cur(r) = u
  <2>1. Back(r, s, u, m) /\ Onto(s, u, s.native[m], g[m]) /\ Fine(u, s.native[m], g[m])
    BY <1>9, <1>10 DEF m, q, p
  <2> QED BY <1>1, <1>4, <1>11, <2>1, CutState DEF q, p
<1>13. Own(r, SubSeq(g, 1, m)) = 1
  <2> DEFINE h == SubSeq(g, 1, m)
  <2>1. h[Len(h)] = p /\ Len(u.ci) = Len(Cur(s).ci) /\ Act(r) = q /\ Cur(r) = u
    BY <1>12 DEF Restores
  <2> HIDE DEF h
  <2> QED BY <1>4, <1>5, <1>8, <2>1, SMTT(60) DEF Own, h
<1> QED BY <1>7, <1>12, <1>13

\* The C function returns, or raises an error of its own.
LEMMA BackGood ==
  ASSUME NEW s, NEW g, Good(s, g), s.todo \in {"ok", "failed"},
         NEW u, Restores(u, Cur(s), Act(s).saved.mode),
         NEW r, Now(r, s, u, SubSeq(s.native, 1, Len(s.native) - 1))
  PROVE  (\E h : Good(CReturn(r), h)) /\ (\E h : Good(Do(r, "raise"), h))
<1>1. Back(r, s, u, Len(g) - 1)
  BY StateFacts DEF Good, Back
<1>2. PICK h : State(r, h) /\ Own(r, h) = 1 /\ Act(r).k \in {"exec", "call"} /\ Cur(r) = u
  BY <1>1, BodyState
<1> QED BY <1>2, CReturnGood, FailGood

\* luaD_throw finds a protected call or a resume of the thread that runs, in
\* the mode of the error.
LEMMA CatcherFacts ==
  ASSUME NEW s, NEW g, Good(s, g), s.todo = "throw"
  PROVE  /\ Catcher(s) \in 1 .. Len(g) /\ s.native[Catcher(s)].k \in {"try", "resume"}
         /\ s.native[Catcher(s)].th = Run(s)
         /\ Within(s, Catcher(s)) /\ g[Catcher(s)].m = g[Len(g)].m
         /\ g[Catcher(s)].b <= Len(Cur(s).ci)
<1> DEFINE N == s.native
           n == Len(g)
           S == {i \in 1 .. Len(N) : N[i].k \in {"try", "resume"}}
           i == Max(S)
<1>1. State(s, g) /\ Act(s).k \in {"exec", "call", "resume"}
  BY DEF Good, Doing
<1>2. /\ Len(N) = n /\ n \in Nat /\ 1 <= n /\ Act(s) = N[n] /\ Run(s) = N[n].th
      /\ g[n].b \in Nat /\ Runs(Act(s)) \in Nat /\ g[n].b + Runs(Act(s)) <= Len(Cur(s).ci)
      /\ Len(Cur(s).ci) \in Nat /\ N \in Seq(Activation) /\ g \in Seq(Level)
  BY <1>1, StateFacts
<1>3. 1 \in S
  BY <1>1, <1>2, BottomFacts
<1>4. i \in S /\ \A j \in S : j <= i
  <2>1. S \in SUBSET (1 .. Len(N)) /\ S # {} /\ Len(N) \in Nat
    BY <1>2, <1>3
  <2> HIDE DEF S
  <2> QED BY <2>1, Greatest
<1>5. Catcher(s) = i
  BY DEF Catcher
<1> HIDE DEF i
<1>6. i \in 1 .. n /\ N[i].k \in {"try", "resume"}
  BY <1>2, <1>4
<1>7. \A j \in i + 1 .. n : N[j].k \notin {"try", "resume"}
  <2> SUFFICES ASSUME NEW j \in i + 1 .. n, N[j].k \in {"try", "resume"} PROVE FALSE
    OBVIOUS
  <2>1. j \in 1 .. Len(N) /\ j > i
    BY <1>2, <1>6
  <2> QED BY <1>4, <1>6, <2>1
<1>8. \A j \in i + 1 .. n : N[j].k # "c"
  <2> SUFFICES ASSUME NEW j \in i + 1 .. n, N[j].k = "c" PROVE FALSE
    OBVIOUS
  <2>1. j # n
    BY <1>1, <1>2
  <2>2. j + 1 \in 2 .. n /\ (j + 1) - 1 = j /\ j + 1 \in i + 1 .. n
    BY <1>2, <1>6, <2>1
  <2>3. Link(s.th, N[j], g[j], N[j + 1], g[j + 1])
    BY <1>1, <2>2, LinkFacts
  <2>4. N[j + 1].k = "try"
    BY <2>3 DEF Link, LinkC, LinkTry, LinkCall, LinkExec, LinkErrMsg, LinkResume
  <2> QED BY <1>7, <2>2, <2>4
<1>9. \A j \in i + 1 .. n : g[j].m = g[i].m /\ N[j].th = N[i].th
  <2> SUFFICES ASSUME NEW j \in i + 1 .. n PROVE g[j].m = g[i].m /\ N[j].th = N[i].th
    OBVIOUS
  <2>1. i \in 1 .. Len(N) /\ j \in 1 .. Len(N) /\ i < j
    BY <1>2, <1>6
  <2>2. \A k \in i + 1 .. j : N[k].k \notin {"c", "resume"}
    <3>1. \A k \in i + 1 .. j : k \in i + 1 .. n
      BY <1>2, <1>6
    <3> QED BY <1>7, <1>8, <3>1
  <2>3. Steady(N, g)
    BY <1>1 DEF State, Shape
  <2> HIDE DEF N
  <2> QED BY <2>1, <2>2, <2>3 DEF Steady
<1>10. g[n].m = g[i].m /\ N[n].th = N[i].th
  <2>1. n = i \/ n \in i + 1 .. n
    BY <1>2, <1>6
  <2> QED BY <1>9, <2>1
<1>11. Within(s, i)
  <2>1. \A k \in i .. n : k = i \/ k \in i + 1 .. n
    BY <1>2, <1>6
  <2> QED BY <1>2, <1>9, <1>10, <2>1 DEF Within
<1>12. g[i].b <= Len(Cur(s).ci)
  <2>1. CASE i = n
    BY <1>2, <2>1
  <2>2. CASE i < n
    <3>1. Rising(s.th, N, g) /\ i \in 1 .. Len(N) /\ n \in 1 .. Len(N)
      BY <1>1, <1>2, <1>6 DEF State, Shape
    <3>2. g[i].b + Runs(N[i]) <= g[n].b
      BY <1>10, <2>2, <3>1 DEF Rising
    <3>3. g[i] \in Level /\ N[i] \in Activation
      BY <1>2, <1>6, ElementOfSeq
    <3>4. g[i].b \in Nat
      BY <3>3 DEF Level
    <3>5. Runs(N[i]) \in Nat
      BY <3>3 DEF Runs, Activation
    <3> QED BY <1>2, <3>2, <3>4, <3>5
  <2> QED BY <1>2, <1>6, <2>1, <2>2
<1> QED BY <1>2, <1>5, <1>6, <1>10, <1>11, <1>12

-----------------------------------------------------------------------------
(* Lua functions *)

\* What is known while a Lua function runs.
LEMMA InLuaFacts ==
  ASSUME NEW s, NEW g, Good(s, g), s.todo = "run"
  PROVE  /\ State(s, g) /\ Act(s).k = "exec" /\ Own(s, g) = 0
         /\ Act(s).n \in Nat /\ 1 <= Act(s).n
         /\ Len(Cur(s).ci) = g[Len(g)].b + Act(s).n
         /\ Top(s) \in LuaFunctions /\ Suits(Top(s), g[Len(g)].m)
         /\ Cur(s).mode = g[Len(g)].m /\ (Cur(s).mode = "disabled" => Cur(s).stack = None)
<1> DEFINE l == g[Len(g)]
<1>1. State(s, g) /\ Act(s).k = "exec" /\ Own(s, g) = 0
  BY DEF Good, Doing
<1>2. /\ Act(s).n \in Nat /\ 1 <= Act(s).n /\ Runs(Act(s)) = Act(s).n
      /\ RunsIn(Cur(s).ci, l.b, Act(s).n, l.m)
  BY <1>1, ExecFacts
<1>3. l.b \in Nat /\ Len(Cur(s).ci) \in Nat
  BY <1>1, StateFacts
<1>4. Len(Cur(s).ci) = l.b + Act(s).n
  <2>1. Len(Cur(s).ci) - l.b - Act(s).n = 0
    BY <1>1, <1>2 DEF Own
  <2>2. \A k, b, c \in Nat : k - b - c = 0 => k = b + c
    OBVIOUS
  <2> HIDE DEF l
  <2> QED BY <1>2, <1>3, <2>1, <2>2
<1>5. Top(s) \in LuaFunctions /\ Suits(Top(s), l.m)
  <2>1. Len(Cur(s).ci) \in l.b + 1 .. l.b + Act(s).n
    BY <1>2, <1>3, <1>4
  <2> HIDE DEF l
  <2> QED BY <1>2, <2>1 DEF RunsIn, Top
<1>6. Cur(s).mode = l.m /\ (Cur(s).mode = "disabled" => Cur(s).stack = None)
  BY <1>1 DEF State, Fine
<1> QED BY <1>1, <1>2, <1>4, <1>5, <1>6

\* A function calls what suits the mode it runs in.
LEMMA CallableSuits ==
  ASSUME NEW f \in LuaFunctions, NEW m, Suits(f, m), NEW c \in Callable(f)
  PROVE  c \in Functions /\ Suits(c, m)
<1>1. CASE f \in HostLua
  <2>1. Callable(f) = HostLua \cup Secure \cup {"CallSafely", "CallSandbox"}
    BY <1>1, NamesAssumption DEF Callable
  <2>2. m = "disabled"
    BY <1>1 DEF Suits
  <2>3. c \in HostLua \cup {"plain", "error", "pcall", "CallSafely", "CallSandbox"}
    BY <2>1 DEF Secure
  <2>4. c \notin SandboxLua /\ c # Handler
    BY <2>3, NamesAssumption DEF LuaFunctions, CFunctions
  <2>5. c \notin CFunctions \ {"plain", "error", "pcall", "CallSafely", "CallSandbox"}
    BY <2>3, NamesAssumption DEF LuaFunctions
  <2>6. c \in Functions
    BY <2>3 DEF Functions, LuaFunctions, CFunctions
  <2> QED BY <2>2, <2>4, <2>5, <2>6 DEF Suits
<1>2. CASE f \in SandboxLua
  <2>1. Callable(f) = SandboxLua \cup (CFunctions \ {"CallSafely", "CallSandbox"})
    BY <1>2, NamesAssumption DEF Callable
  <2>2. m = "rw"
    BY <1>2 DEF Suits
  <2>3. c \notin HostLua \cup {"CallSafely", "CallSandbox"}
    BY <2>1, NamesAssumption DEF LuaFunctions, CFunctions
  <2>4. c \in Functions
    BY <2>1 DEF Functions, LuaFunctions
  <2> QED BY <2>2, <2>3, <2>4 DEF Suits
<1>3. CASE f \in {Logger, Handler}
  <2>1. Callable(f) \subseteq {"plain", "error", "pcall"}
    BY <1>3, NamesAssumption DEF Callable
  <2>2. c \in CFunctions /\ c \in Functions
    BY <2>1 DEF CFunctions, Functions
  <2>3. c \notin HostLua \cup SandboxLua \cup {Handler}
    BY <2>2, NamesAssumption DEF LuaFunctions
  <2> QED BY <2>1, <2>2, <2>3 DEF Suits
<1> QED BY <1>1, <1>2, <1>3 DEF LuaFunctions

\* OP_CALL.
LEMMA OpCallGood ==
  ASSUME NEW g, Good(vm, g), OpCall
  PROVE  \E h : Good(vm', h)
<1>1. vm.todo = "run"
  BY DEF OpCall, InLua
<1>2. PICK f \in Callable(Top(vm)) : vm' = Precall(vm, f)
  BY DEF OpCall
<1>3. /\ State(vm, g) /\ Act(vm).k = "exec" /\ Own(vm, g) = 0 /\ Top(vm) \in LuaFunctions
      /\ Suits(Top(vm), g[Len(g)].m)
  BY <1>1, InLuaFacts
<1>4. f \in Functions /\ Suits(f, g[Len(g)].m)
  BY <1>3, CallableSuits
<1>5. Ready(vm, g, f)
  BY <1>3, <1>4 DEF Ready
<1> QED BY <1>2, <1>5, PrecallGood

\* The function on top goes on, or another in its place.
LEMMA InPlace ==
  ASSUME NEW s, NEW g, State(s, g), Act(s).k = "exec",
         NEW n \in Nat, 1 <= n,
         NEW u, u \in Thread, Len(u.ci) < u.size, Kept(u, Cur(s)),
         Len(u.ci) = g[Len(g)].b + n,
         \A i \in 1 .. g[Len(g)].b : u.ci[i] = Cur(s).ci[i],
         RunsIn(u.ci, g[Len(g)].b, n, g[Len(g)].m),
         NEW r, Now(r, s, u, [s.native EXCEPT ![Len(s.native)].n = n]), r.todo = "run"
  PROVE  Good(r, g)
<1> DEFINE l == g[Len(g)]
           a == [k |-> "exec", th |-> Run(s), n |-> n]
<1>1. l.b \in Nat /\ Fine(Cur(s), Act(s), l)
  BY StateFacts DEF State
<1>2. Goes(s, u, l.b)
  BY <1>1 DEF Goes, Kept
<1>3. Runs(a) = n /\ a.k = "exec"
  BY DEF Runs
<1>4. Fine(u, a, l)
  BY <1>1, <1>3 DEF Fine, Kept
<1>5. a = [k |-> "exec", th |-> Run(s), n |-> n]
  OBVIOUS
<1> HIDE DEF a
<1>6. State(r, g) /\ Act(r) = a /\ Cur(r) = u
  BY <1>2, <1>4, <1>5, ExecState
<1>7. Own(r, g) = 0
  BY <1>1, <1>3, <1>6 DEF Own
<1> QED BY <1>3, <1>6, <1>7 DEF Good, Doing

\* OP_TAILCALL: one frame for another.
LEMMA OpTailCallGood ==
  ASSUME NEW g, Good(vm, g), OpTailCall
  PROVE  \E h : Good(vm', h)
<1> DEFINE l == g[Len(g)]
           n == Len(Cur(vm).ci)
<1>1. vm.todo = "run"
  BY DEF OpTailCall, InLua
<1>2. PICK f \in Callable(Top(vm)) \cap LuaFunctions :
        LET s == PushFrame(vm, f)
            t == Cur(s)
            k == Len(t.ci)
            moved == [t EXCEPT !.ci = Append(SubSeq(@, 1, k - 2), f), !.fixed = None]
        IN vm' = IF s.todo # "run" THEN s
                 ELSE [Set(s, Reenter(moved, f))
                         EXCEPT !.nopencalls[t.ci[k - 1]] = @ - 1]
  BY DEF OpTailCall
<1> DEFINE s == PushFrame(vm, f)
<1>3. /\ State(vm, g) /\ Act(vm).k = "exec" /\ Top(vm) \in LuaFunctions
      /\ Suits(Top(vm), l.m) /\ Act(vm).n \in Nat /\ 1 <= Act(vm).n /\ n = l.b + Act(vm).n
  BY <1>1, InLuaFacts
<1>4. f \in Functions /\ Suits(f, l.m) /\ f \in LuaFunctions
  BY <1>3, CallableSuits
<1>5. /\ Whole(vm) /\ vm.th \in [Threads -> Thread] /\ Run(vm) \in Threads
      /\ Len(Cur(vm).ci) < Cur(vm).size /\ n \in Nat /\ l.b \in Nat /\ Cur(vm) \in Thread
      /\ vm.native \in Seq(Activation) /\ Len(vm.native) = Len(g) /\ Len(g) \in Nat /\ 1 <= Len(g)
  BY <1>3, StateFacts
<1>6. PICK u : /\ Now(s, vm, u, vm.native) /\ Kept(u, Cur(vm))
               /\ \/ s.todo = "run" /\ Enters(u, Cur(vm), f)
                  \/ s.todo \in {"raise", "throw"} /\ Keeps(u, Cur(vm), n)
  BY <1>4, <1>5, PushFrameFields
<1>7. /\ RunsIn(Cur(vm).ci, l.b, Act(vm).n, l.m) /\ Runs(Act(vm)) = Act(vm).n
      /\ Act(vm) = [k |-> "exec", th |-> Run(vm), n |-> Act(vm).n]
  BY <1>3, ExecFacts
<1>8. Run(s) = Run(vm) /\ Cur(s) = u
  <2> HIDE DEF s
  <2> QED BY <1>3, <1>6, NowRun
<1>9. CASE s.todo # "run"
  <2>1. vm' = s
    BY <1>2, <1>9
  <2>2. Keeps(u, Cur(vm), n) /\ s.todo \in {"raise", "throw"}
    BY <1>6, <1>9
  <2>3. l.b + Runs(Act(vm)) <= n
    BY <1>3, <1>5, <1>7
  <2> HIDE DEF s, n
  <2>4. Onto(vm, u, Act(vm), l) /\ Fine(u, Act(vm), l)
    BY <1>3, <1>5, <1>6, <2>2, <2>3, KeepsOnto
  <2>5. State(s, g) /\ Act(s) = Act(vm)
    BY <1>3, <1>6, <2>4, SameState
  <2> QED BY <1>3, <2>1, <2>2, <2>5 DEF Good, Doing
<1>10. CASE s.todo = "run"
  <2> DEFINE c == Append(SubSeq(u.ci, 1, Len(u.ci) - 2), f)
             moved == [u EXCEPT !.ci = c, !.fixed = None]
             v == Reenter(moved, f)
             x == Set(s, v)
             z == [x EXCEPT !.nopencalls[u.ci[Len(u.ci) - 1]] = @ - 1]
  <2>1. vm' = z
    BY <1>2, <1>8, <1>10
  <2>2. /\ Enters(u, Cur(vm), f) /\ Len(u.ci) = n + 1 /\ Len(u.ci) < u.size
        /\ \A i \in 1 .. n : u.ci[i] = Cur(vm).ci[i]
    BY <1>6, <1>10 DEF Enters
  <2>3. u \in Thread /\ u.ci \in Seq(Functions) /\ u.size \in Nat
    <3>1. u \in Thread
      BY <1>6 DEF Kept
    <3> QED BY <3>1 DEF Thread
  <2>4. /\ c \in Seq(Functions) /\ Len(c) = n /\ c[n] = f
        /\ \A i \in 1 .. n - 1 : c[i] = Cur(vm).ci[i]
    <3> DEFINE d == SubSeq(u.ci, 1, n - 1)
    <3>1. n - 1 \in 0 .. Len(u.ci) /\ Len(u.ci) - 2 = n - 1 /\ n - 1 \in Nat
      BY <1>3, <1>5, <2>2, SMTT(60)
    <3>2. d \in Seq(Functions) /\ Len(d) = n - 1 /\ \A i \in 1 .. n - 1 : d[i] = u.ci[i]
      BY <2>3, <3>1, FirstOnes
    <3>3. c = Append(d, f)
      BY <3>1
    <3> HIDE DEF d, c
    <3>4. c \in Seq(Functions) /\ Len(c) = n /\ c[n] = f /\ \A i \in 1 .. n - 1 : c[i] = d[i]
      <4>1. /\ Append(d, f) \in Seq(Functions) /\ Len(Append(d, f)) = Len(d) + 1
            /\ Append(d, f)[Len(d) + 1] = f
            /\ \A i \in 1 .. Len(d) : Append(d, f)[i] = d[i]
        BY <1>4, <3>2, OneMore
      <4>2. Len(d) + 1 = n
        BY <1>5, <3>1, <3>2
      <4> QED BY <3>2, <3>3, <4>1, <4>2
    <3>5. \A i \in 1 .. n - 1 : i \in 1 .. n
      BY <1>5
    <3> QED BY <2>2, <3>2, <3>4, <3>5
  <2> HIDE DEF c
  <2>5. moved \in Thread /\ moved.ci = c /\ moved.size = u.size /\ Kept(moved, u)
    BY <2>3, <2>4, TaintOfTaints DEF Thread, Kept
  <2>6. Len(moved.ci) < moved.size
    BY <1>5, <2>2, <2>3, <2>4, <2>5
  <2> HIDE DEF moved
  <2>7. Kept(v, moved) /\ Keeps(v, moved, Len(moved.ci)) /\ v.ci = c
    BY <2>5, <2>6, ReenterKept
  <2> HIDE DEF v
  <2>8. Kept(v, Cur(vm)) /\ v \in Thread /\ Len(v.ci) < v.size
    BY <1>6, <2>5, <2>7, KeptTrans DEF Kept, Keeps
  <2>9. Now(z, vm, v, vm.native) /\ z.todo = "run"
    <3> HIDE DEF s
    <3>1. Whole(s) /\ s.th = [vm.th EXCEPT ![Run(vm)] = u] /\ s.native = vm.native
      BY <1>6 DEF Now
    <3>2. Whole(x) /\ x.th = [s.th EXCEPT ![Run(s)] = v] /\ x.native = s.native /\ x.todo = "run"
      BY <1>10, <3>1, SetFields
    <3> HIDE DEF x
    <3>3. Whole(z) /\ z.th = x.th /\ z.native = x.native /\ z.todo = x.todo
      BY <3>2 DEF Whole
    <3> HIDE DEF z
    <3> QED BY <1>8, <3>1, <3>2, <3>3 DEF Now
  <2>10. RunsIn(v.ci, l.b, Act(vm).n, l.m)
    <3>1. \A i \in l.b + 1 .. l.b + Act(vm).n : i = n \/ i \in 1 .. n - 1
      <4> HIDE DEF n, l
      <4> QED BY <1>3, <1>5
    <3>2. \A i \in l.b + 1 .. l.b + Act(vm).n : v.ci[i] \in LuaFunctions /\ Suits(v.ci[i], l.m)
      BY <1>4, <1>7, <2>4, <2>7, <3>1 DEF RunsIn
    <3> QED BY <1>3, <1>5, <2>4, <2>7, <3>2 DEF RunsIn
  <2>11. Now(z, vm, v, [vm.native EXCEPT ![Len(vm.native)].n = Act(vm).n])
    <3>1. [vm.native EXCEPT ![Len(vm.native)].n = Act(vm).n] = vm.native
      <4> DEFINE N == vm.native
                 k == Len(vm.native)
      <4>1. N[k] = Act(vm) /\ [Act(vm) EXCEPT !.n = Act(vm).n] = Act(vm)
        BY <1>7 DEF Act
      <4>2. [N EXCEPT ![k] = N[k]] = N
        <5>1. N \in [1 .. k -> Activation]
          BY <1>5, LenProperties
        <5> QED BY <5>1
      <4>3. [N EXCEPT ![k].n = Act(vm).n] = [N EXCEPT ![k] = [N[k] EXCEPT !.n = Act(vm).n]]
        OBVIOUS
      <4> QED BY <4>1, <4>2, <4>3
    <3> QED BY <2>9, <3>1
  <2>12. \A i \in 1 .. l.b : v.ci[i] = Cur(vm).ci[i]
    <3>1. \A i \in 1 .. l.b : i \in 1 .. n - 1
      <4> HIDE DEF n, l
      <4> QED BY <1>3, <1>5
    <3> QED BY <2>4, <2>7, <3>1
  <2>13. Len(v.ci) = l.b + Act(vm).n
    BY <1>3, <2>4, <2>7
  <2> HIDE DEF z, n
  <2>14. Good(z, g)
    BY <1>3, <2>8, <2>9, <2>10, <2>11, <2>12, <2>13, InPlace
  <2> QED BY <2>1, <2>14
<1> QED BY <1>9, <1>10

\* OP_RETURN, to Lua or to C.
LEMMA OpReturnGood ==
  ASSUME NEW g, Good(vm, g), OpReturn
  PROVE  \E h, u :
           /\ Good(vm', h)
           /\ Kept(u, Cur(vm)) /\ Keeps(u, Cur(vm), Len(Cur(vm).ci) - 1)
           /\ LET n == Act(vm).n - 1
              IN \/ n = 0 /\ Back(vm', vm, u, Len(vm.native) - 1)
                 \/ /\ n # 0 /\ Now(vm', vm, u, [vm.native EXCEPT ![Len(vm.native)].n = n])
                    /\ vm'.todo = "run" /\ Reentered(u)
<1> DEFINE l == g[Len(g)]
           k == Len(Cur(vm).ci) - 1
           n == Act(vm).n - 1
           s == Unwind(vm, k)
<1>1. vm.todo = "run"
  BY DEF OpReturn, InLua
<1>2. vm' = IF n = 0 THEN Do(Pop(s), "returned")
            ELSE [Set(s, Reenter(Cur(s), Top(s))) EXCEPT !.native[Len(s.native)].n = n]
  BY DEF OpReturn
<1>3. /\ State(vm, g) /\ Act(vm).k = "exec" /\ Act(vm).n \in Nat /\ 1 <= Act(vm).n
      /\ Len(Cur(vm).ci) = l.b + Act(vm).n
  BY <1>1, InLuaFacts
<1>4. /\ Whole(vm) /\ vm.th \in [Threads -> Thread] /\ Run(vm) \in Threads
      /\ Len(Cur(vm).ci) < Cur(vm).size /\ l.b \in Nat /\ Cur(vm) \in Thread
      /\ vm.native \in Seq(Activation) /\ Len(vm.native) = Len(g) /\ Len(g) \in Nat /\ 1 <= Len(g)
      /\ Act(vm) = vm.native[Len(g)] /\ Fine(Cur(vm), Act(vm), l) /\ Len(Cur(vm).ci) \in Nat
  BY <1>3, StateFacts DEF State
<1>5. /\ Len(g) - 1 \in 1 .. Len(g) /\ vm.native[Len(g) - 1].k \in {"call", "resume"}
      /\ g[Len(g) - 1] = l /\ Within(vm, Len(g) - 1)
      /\ RunsIn(Cur(vm).ci, l.b, Act(vm).n, l.m) /\ Runs(Act(vm)) = Act(vm).n
  BY <1>3, ExecFacts
<1>6. k = l.b + n /\ n \in Nat /\ k \in 0 .. Len(Cur(vm).ci) /\ k \in Nat
  <2> HIDE DEF l
  <2> QED BY <1>3, <1>4
<1>k. k = Len(Cur(vm).ci) - 1
  OBVIOUS
<1> HIDE DEF k
<1>7. PICK u : /\ Now(s, vm, u, vm.native) /\ s.todo = "run"
               /\ Kept(u, Cur(vm)) /\ Keeps(u, Cur(vm), k)
  BY <1>1, <1>4, <1>6, UnwindFields
<1>8. /\ u \in Thread /\ Len(u.ci) = k /\ Len(u.ci) < u.size
      /\ \A i \in 1 .. k : u.ci[i] = Cur(vm).ci[i]
  BY <1>7 DEF Kept, Keeps
<1> HIDE DEF s
<1>9. Run(s) = Run(vm) /\ Cur(s) = u /\ Whole(s) /\ s.native = vm.native
  BY <1>3, <1>7, NowRun, ZenonT(60) DEF Now
<1>10. CASE n = 0
  <2> DEFINE m == Len(g) - 1
             q == vm.native[m]
             x == Pop(s)
             r == Do(x, "returned")
             h == SubSeq(g, 1, m)
  <2>1. Runs(q) = 0 /\ q.k # "c"
    BY <1>5 DEF Runs
  <2>2. Now(x, vm, u, SubSeq(vm.native, 1, Len(vm.native) - 1))
    BY <1>7, NowCut
  <2> HIDE DEF x
  <2>3. Back(r, vm, u, m) /\ r.todo = "returned"
    BY <1>4, <2>2, NowDo DEF Back
  <2> HIDE DEF r, q
  <2>4. Onto(vm, u, q, l)
    <3>1. k = l.b
      BY <1>4, <1>6, <1>10
    <3> QED BY <1>4, <1>7, <1>8, <2>1, <3>1 DEF Onto, Goes, Kept
  <2>5. Fine(u, q, l)
    <3>1. l.b + Runs(q) <= Len(u.ci)
      BY <1>4, <1>6, <1>8, <1>10, <2>1
    <3> QED BY <1>3, <1>4, <1>7, <2>1, <3>1 DEF Fine, Kept
  <2>6. /\ State(r, h) /\ Len(h) = m /\ h[m] = l /\ Act(r) = q /\ Cur(r) = u
    <3>1. Onto(vm, u, vm.native[m], g[m]) /\ Fine(u, vm.native[m], g[m])
      BY <1>5, <2>4, <2>5 DEF q
    <3>m. m \in 1 .. Len(g) /\ g[m] = l /\ Within(vm, m)
      BY <1>5
    <3> HIDE DEF m, l
    <3> QED BY <1>3, <2>3, <3>1, <3>m, CutState DEF q
  <2>7. h[Len(h)] = l
    BY <2>6
  <2> HIDE DEF h
  <2>8. Own(r, h) = 0
    BY <1>4, <1>6, <1>8, <1>10, <2>1, <2>6, <2>7 DEF Own
  <2>9. q.k \in {"call", "resume"}
    BY <1>5 DEF q
  <2>10. Good(r, h)
    BY <2>3, <2>6, <2>8, <2>9 DEF Good, Doing
  <2>11. vm' = r
    BY <1>2, <1>10 DEF r, x
  <2>12. Back(vm', vm, u, Len(vm.native) - 1)
    BY <1>4, <2>3, <2>11
  <2>13. \E h2 : Good(vm', h2)
    BY <2>10, <2>11
  <2> QED BY <1>7, <1>10, <1>k, <2>12, <2>13
<1>11. CASE n # 0
  <2> DEFINE v == Reenter(u, Top(s))
             x == Set(s, v)
             N == [vm.native EXCEPT ![Len(vm.native)].n = n]
             r == [x EXCEPT !.native = N]
  <2>1. Kept(v, u) /\ Keeps(v, u, Len(u.ci)) /\ v.ci = u.ci
    BY <1>8, ReenterKept
  <2>v. v = Reenter(Cur(s), Top(s))
    BY <1>9
  <2> HIDE DEF v
  <2>2. v \in Thread /\ Len(v.ci) < v.size /\ Kept(v, Cur(vm))
    BY <1>7, <2>1, KeptTrans DEF Kept, Keeps
  <2>3. Now(x, vm, v, vm.native) /\ x.todo = "run"
    <3>1. Now(x, s, v, s.native) /\ x.todo = s.todo
      BY <1>9, NowSet
    <3> HIDE DEF x
    <3> QED BY <1>7, <1>9, <3>1, NowTrans
  <2>4. vm' = r
    <3>1. Whole(x) /\ x.native = vm.native
      BY <2>3 DEF Now
    <3>2. vm' = [x EXCEPT !.native[Len(s.native)].n = n]
      BY <1>2, <1>11, <2>v
    <3> HIDE DEF x, n
    <3> QED BY <1>9, <3>1, <3>2 DEF Whole
  <2>5. Now(r, vm, v, N) /\ r.todo = "run"
    <3> HIDE DEF N, x
    <3> QED BY <2>3, NativeFields DEF Now
  <2>6. RunsIn(v.ci, l.b, n, l.m)
    <3>1. \A i \in l.b + 1 .. l.b + n : i \in l.b + 1 .. l.b + Act(vm).n /\ i \in 1 .. k
      <4> HIDE DEF l
      <4> QED BY <1>3, <1>4, <1>6
    <3>2. l.b + n <= Len(v.ci)
      BY <1>4, <1>6, <1>8, <2>1
    <3> HIDE DEF n, l
    <3> QED BY <1>5, <1>8, <2>1, <3>1, <3>2 DEF RunsIn
  <2>7. \A i \in 1 .. l.b : v.ci[i] = Cur(vm).ci[i]
    <3>1. \A i \in 1 .. l.b : i \in 1 .. k
      <4> HIDE DEF l
      <4> QED BY <1>3, <1>4, <1>6, SMTT(60)
    <3> QED BY <1>8, <2>1, <3>1
  <2>8. Len(v.ci) = l.b + n /\ n \in Nat /\ 1 <= n
    <3> HIDE DEF n
    <3> QED BY <1>6, <1>8, <1>11, <2>1
  <2>10. Now(vm', vm, v, [vm.native EXCEPT ![Len(vm.native)].n = Act(vm).n - 1])
    BY <2>4, <2>5
  <2>11. Keeps(v, Cur(vm), Len(Cur(vm).ci) - 1)
    BY <1>8, <1>k, <2>1 DEF Keeps
  <2> HIDE DEF r
  <2>12. Act(vm).n - 1 # 0 /\ vm'.todo = "run"
    BY <1>11, <2>4, <2>5
  <2>13. Reentered(v)
    <3>1. Top(s) = v.ci[Len(v.ci)] /\ v = Reenter(u, Top(s))
      BY <1>9, <2>1, <2>v DEF Top
    <3> QED BY <1>8, <3>1 DEF Reentered
  <2> HIDE DEF n
  <2>9. Good(r, g)
    BY <1>3, <2>2, <2>5, <2>6, <2>7, <2>8, InPlace DEF N
  <2> QED BY <2>2, <2>4, <2>9, <2>10, <2>11, <2>12, <2>13
<1> QED BY <1>10, <1>11

\* An instruction reads a tainted value.
LEMMA ReadTaintedGood ==
  ASSUME NEW g, Good(vm, g), ReadTainted
  PROVE  \E h : Good(vm', h)
<1> DEFINE l == g[Len(g)]
<1>1. vm.todo = "run"
  BY DEF ReadTainted, InLua
<1>2. PICK taint \in ReadTaints : vm' = Set(vm, TaintStack(Cur(vm), taint))
  BY DEF ReadTainted
<1>3. State(vm, g) /\ Act(vm).k = "exec" /\ Own(vm, g) = 0
  BY <1>1, InLuaFacts
<1>4. /\ Whole(vm) /\ Cur(vm) \in Thread /\ Len(Cur(vm).ci) < Cur(vm).size
      /\ Len(Cur(vm).ci) \in Nat /\ l.b + Runs(Act(vm)) <= Len(Cur(vm).ci)
  BY <1>3, StateFacts
<1> DEFINE u == TaintStack(Cur(vm), taint)
<1>5. Kept(u, Cur(vm)) /\ Keeps(u, Cur(vm), Len(Cur(vm).ci)) /\ u.ci = Cur(vm).ci
  BY <1>4, TaintStackKept DEF Taints
<1>6. Now(vm', vm, u, vm.native) /\ vm'.todo = "run"
  BY <1>1, <1>2, <1>4, NowSet
<1> HIDE DEF u
<1>7. Onto(vm, u, Act(vm), l) /\ Fine(u, Act(vm), l)
  BY <1>3, <1>4, <1>5, KeepsOnto
<1>8. State(vm', g) /\ Act(vm') = Act(vm) /\ Cur(vm') = u
  BY <1>3, <1>6, <1>7, SameState
<1>9. Own(vm', g) = 0
  BY <1>3, <1>5, <1>8 DEF Own
<1> QED BY <1>3, <1>6, <1>8, <1>9 DEF Good, Doing

\* An instruction fails.
LEMMA RuntimeErrorGood ==
  ASSUME NEW g, Good(vm, g), RuntimeError
  PROVE  \E h : Good(vm', h)
<1>1. vm.todo = "run" /\ vm' = Do(vm, "raise")
  BY DEF RuntimeError, InLua
<1>2. State(vm, g) /\ Act(vm).k = "exec"
  BY <1>1, InLuaFacts
<1> QED BY <1>1, <1>2, FailGood

-----------------------------------------------------------------------------
(* Calls that return, and errors *)

\* luaG_errormsg.
LEMMA ErrorMsgGood ==
  ASSUME NEW g, Good(vm, g), ErrorMsg
  PROVE  \E h : Good(vm', h)
<1> DEFINE l == g[Len(g)]
           t == Cur(vm)
           f == t.errfunc
           a == [k |-> "errmsg", th |-> Run(vm)]
           m == [m |-> l.m, c |-> l.c, b |-> Len(t.ci)]
           x == Push(vm, a)
           h == Append(g, m)
<1>1. State(vm, g) /\ Act(vm).k \in {"exec", "call", "resume"} /\ Fine(t, Act(vm), l)
  BY DEF ErrorMsg, Good, Doing, State
<1>2. /\ Whole(vm) /\ vm.th \in [Threads -> Thread] /\ Run(vm) \in Threads /\ t = vm.th[Run(vm)]
      /\ t \in Thread /\ Len(t.ci) < t.size /\ Len(t.ci) \in Nat /\ l \in Level
      /\ l.b \in Nat /\ l.c \in Nat /\ l.m \in Modes /\ Runs(Act(vm)) \in Nat
      /\ Len(g) \in Nat /\ 1 <= Len(g) /\ l.b + Runs(Act(vm)) <= Len(t.ci)
  BY <1>1, StateFacts
<1>3. CASE f = None
  <2>1. vm' = Do(vm, "throw")
    BY <1>3 DEF ErrorMsg
  <2> QED BY <1>1, <2>1, FailGood
<1>4. CASE f # None
  <2>1. vm' = LuaDCall(x, f)
    BY <1>4 DEF ErrorMsg
  <2>2. Called(f) /\ Suits(f, l.m)
    BY <1>1, <1>4 DEF Fine, HandlerSuits
  <2>3. a \in Activation /\ a.k = "errmsg" /\ a.th = Run(vm) /\ Runs(a) = 0
    BY <1>2 DEF Activation, Runs
  <2>4. m \in Level /\ m.m = l.m /\ m.c = l.c /\ m.b = Len(t.ci)
    BY <1>2 DEF Level
  <2>5. Ahead(x, vm, t, a)
    <3>1. Whole(x) /\ x.th = vm.th /\ x.native = Append(vm.native, a)
      BY <1>2, PushFields
    <3>2. [vm.th EXCEPT ![Run(vm)] = t] = vm.th
      BY <1>2
    <3> QED BY <3>1, <3>2 DEF Ahead, Now
  <2> HIDE DEF x, a, m
  <2>6. Link(x.th, Act(vm), l, a, m)
    <3>1. LinkErrMsg(Act(vm), l, a, m)
      BY <1>1, <1>2, <2>3, <2>4 DEF LinkErrMsg, Run
    <3> QED BY <3>1 DEF Link
  <2>7. Onto(vm, t, Act(vm), l)
    BY <1>2 DEF Onto, Goes
  <2>8. Fine(t, a, m)
    <3>1. m.b + Runs(a) <= Len(t.ci)
      BY <1>2, <2>3, <2>4
    <3> QED BY <1>1, <2>3, <2>4, <3>1 DEF Fine
  <2>9. /\ State(x, h) /\ Len(h) = Len(g) + 1 /\ h[Len(g) + 1] = m
        /\ Act(x) = a /\ Cur(x) = t
    BY <1>1, <2>3, <2>4, <2>5, <2>6, <2>7, <2>8, PushState
  <2>10. h[Len(h)] = m
    BY <2>9
  <2> HIDE DEF h
  <2>11. Own(x, h) = 0
    BY <1>2, <2>3, <2>4, <2>9, <2>10 DEF Own
  <2> QED BY <2>1, <2>2, <2>3, <2>4, <2>9, <2>10, <2>11, LuaDCallGood
<1> QED BY <1>3, <1>4

\* luaD_call returns, to luaG_errormsg or luaD_pcall.
LEMMA CallReturnsGood ==
  ASSUME NEW g, Good(vm, g), CallReturns
  PROVE  vm'.todo = "end" \/ \E h : Good(vm', h)
<1> DEFINE n == Len(g)
           N == vm.native
           l == g[n]
           t == Cur(vm)
           x == Set(vm, [t EXCEPT !.nCcalls = @ - 1])
           u == [t EXCEPT !.nCcalls = @ - 1]
           s1 == Pop(x)
           j == n - 1
           i == n - 2
           p == g[j]
           q == N[j]
           e == [u EXCEPT !.errfunc = q.errfunc]
           s2 == Pop(Set(s1, e))
<1>1. /\ State(vm, g) /\ Act(vm).k = "call" /\ Own(vm, g) = 0 /\ vm.todo = "returned"
      /\ Fine(t, Act(vm), l)
  BY DEF CallReturns, Good, Doing, State
<1>2. /\ Whole(vm) /\ vm.th \in [Threads -> Thread] /\ Run(vm) \in Threads /\ t = vm.th[Run(vm)]
      /\ t \in Thread /\ Len(t.ci) < t.size /\ Len(t.ci) \in Nat
      /\ l.b \in Nat /\ l.c \in Nat /\ l.m \in Modes /\ Runs(Act(vm)) \in Nat
      /\ n \in Nat /\ 1 <= n /\ N \in Seq(Activation) /\ Len(N) = n /\ Act(vm) = N[n]
      /\ Run(vm) = N[n].th /\ t.baseCcalls \in Nat
  BY <1>1, StateFacts
<1>3. n \in 2 .. Len(g) /\ j \in 1 .. Len(g)
  BY <1>1, <1>2, BottomFacts
<1>4. Link(vm.th, q, p, N[n], l) /\ q \in Activation /\ p.b \in Nat /\ p.c \in Nat /\ p.m \in Modes
  BY <1>1, <1>3, LinkFacts, SMTT(60)
<1>5. LinkCall(q, p, N[n], l)
  BY <1>1, <1>2, <1>4, ZenonT(60) DEF Link, LinkC, LinkTry, LinkExec, LinkErrMsg, LinkResume
<1>6. /\ q.k \in {"try", "errmsg"} /\ q.th = Run(vm) /\ l.m = p.m /\ l.c = p.c + 1 /\ l.b = p.b
  BY <1>2, <1>5 DEF LinkCall
<1> HIDE DEF p, q, l
<1>7. t.nCcalls = l.c /\ t.nCcalls - 1 = p.c /\ t.mode = p.m
  BY <1>1, <1>4, <1>6 DEF Fine
<1>8. Len(t.ci) = p.b
  <2>1. Runs(Act(vm)) = 0
    BY <1>1 DEF Runs
  <2>2. Len(t.ci) - l.b - 0 = 0
    BY <1>1, <2>1 DEF Own, l
  <2> QED BY <1>2, <1>4, <1>6, <2>2, SMTT(60)
<1>9. /\ u \in Thread /\ u.ci = t.ci /\ u.size = t.size /\ u.mode = t.mode /\ u.stack = t.stack
      /\ u.nCcalls = p.c /\ u.baseCcalls = t.baseCcalls /\ u.status = t.status
      /\ u.errfunc = t.errfunc
  <2> DEFINE c == t.nCcalls - 1
  <2>1. c \in Int /\ c = p.c
    BY <1>4, <1>7
  <2> HIDE DEF c
  <2>2. u = [t EXCEPT !.nCcalls = c]
    BY DEF c
  <2> QED BY <1>2, <2>1, <2>2, ZenonT(60) DEF Thread
<1>10. Now(s1, vm, u, SubSeq(N, 1, j)) /\ s1.native = SubSeq(N, 1, j)
  <2>1. Now(x, vm, u, N)
    BY <1>2, NowSet
  <2> HIDE DEF x, u, N
  <2>2. Now(s1, vm, u, SubSeq(N, 1, Len(N) - 1))
    BY <2>1, NowCut
  <2> QED BY <1>2, <2>2 DEF Now
<1> HIDE DEF u, s1, x
<1>11. Act(s1) = q /\ Run(s1) = Run(vm) /\ Cur(s1) = u
  <2>1. Len(SubSeq(N, 1, j)) = j /\ SubSeq(N, 1, j)[j] = N[j]
    <3>1. j \in 0 .. Len(N) /\ j \in 1 .. j
      BY <1>2, <1>3
    <3> HIDE DEF j, N
    <3> QED BY <1>2, <3>1, FirstOnes
  <2>2. Act(s1) = q /\ Run(s1) = Run(vm)
    BY <1>6, <1>10, <2>1 DEF Act, Run, q
  <2>3. Cur(s1) = u
    BY <1>2, <1>10, <2>2 DEF Now, Cur
  <2> QED BY <2>2, <2>3
<1>12. /\ SubSeq(SubSeq(N, 1, j), 1, Len(SubSeq(N, 1, j)) - 1) = SubSeq(N, 1, i)
  <2>1. SubSeq(SubSeq(N, 1, Len(N) - 1), 1, Len(SubSeq(N, 1, Len(N) - 1)) - 1) = SubSeq(N, 1, Len(N) - 2)
    BY <1>2, <1>3, CutTwice
  <2> QED BY <1>2, <2>1
<1>13. vm' = IF q.k = "errmsg" THEN Do(Pop(s1), "throw")
             ELSE Do(s2, IF Ended(s2) THEN "end" ELSE "ok")
  BY <1>11 DEF CallReturns, s1, x, u
<1>14. Now(Pop(s1), vm, u, SubSeq(N, 1, i))
  <2> HIDE DEF N, j, i
  <2>1. Now(Pop(s1), vm, u, SubSeq(SubSeq(N, 1, j), 1, Len(SubSeq(N, 1, j)) - 1))
    BY <1>10, NowCut
  <2> QED BY <1>12, <2>1
<1>15. Now(s2, vm, e, SubSeq(N, 1, i))
  <2> DEFINE y == Set(s1, e)
  <2> HIDE DEF N, j, i, e
  <2>1. Now(y, s1, e, SubSeq(N, 1, j))
    <3>1. Whole(s1)
      BY <1>10 DEF Now
    <3> QED BY <1>10, <3>1, NowSet
  <2> HIDE DEF y
  <2>2. Now(y, vm, e, SubSeq(N, 1, j))
    BY <1>10, <1>11, <2>1, NowTrans
  <2>3. Now(Pop(y), vm, e, SubSeq(SubSeq(N, 1, j), 1, Len(SubSeq(N, 1, j)) - 1))
    BY <2>2, NowCut
  <2> QED BY <1>12, <2>3 DEF y
<1>16. CASE q.k = "errmsg"
  <2> DEFINE r == Do(Pop(s1), "throw")
             h == SubSeq(g, 1, i)
             q2 == N[i]
             p2 == g[i]
  <2>1. j \in 2 .. Len(g)
    <3>1. N[1].k = "try"
      BY <1>1, BottomFacts
    <3> QED BY <1>2, <1>3, <1>16, <3>1 DEF q
  <2>2. i = j - 1
    BY <1>2
  <2>3. Link(vm.th, q2, p2, q, p) /\ i \in 1 .. Len(g) /\ q2 \in Activation
        /\ p2.b \in Nat /\ p2.c \in Nat /\ p2.m \in Modes
    <3> HIDE DEF j, i
    <3> QED BY <1>1, <2>1, <2>2, LinkFacts DEF q, p
  <2>4. LinkErrMsg(q2, p2, q, p)
    BY <1>16, <2>3 DEF Link, LinkC, LinkTry, LinkCall, LinkExec, LinkResume
  <2> HIDE DEF q2, p2, i
  <2>5. q2.k \in {"exec", "call", "resume"} /\ q2.th = Run(vm) /\ p.m = p2.m /\ p.c = p2.c
        /\ p.b >= p2.b + Runs(q2) /\ Runs(q2) \in Nat
    BY <1>6, <2>3, <2>4, SMTT(60) DEF LinkErrMsg, Runs, Activation
  <2>6. Onto(vm, u, q2, p2)
    BY <1>2, <1>4, <1>8, <1>9, <2>3, <2>5, ZenonT(60) DEF Onto, Goes
  <2>7. Fine(u, q2, p2)
    BY <1>1, <1>2, <1>4, <1>6, <1>7, <1>8, <1>9, <2>3, <2>5, ZenonT(60) DEF Fine
  <2>8. Within(vm, i)
    <3>1. \A k \in i .. n : k = i \/ k = j \/ k = n
      BY <1>2, <2>1, <2>2
    <3> HIDE DEF n, j
    <3> QED BY <1>2, <1>6, <2>5, <3>1 DEF Within, q, q2
  <2>9. Back(r, vm, u, i) /\ r.todo = "throw"
    BY <1>14, NowDo DEF Back
  <2> HIDE DEF r
  <2>10. State(r, h) /\ Act(r) = q2
    <3>1. Onto(vm, u, vm.native[i], g[i]) /\ Fine(u, vm.native[i], g[i])
      BY <2>6, <2>7 DEF q2, p2
    <3> QED BY <1>1, <2>3, <2>8, <2>9, <3>1, CutState DEF q2
  <2>11. Good(r, h)
    BY <2>5, <2>9, <2>10 DEF Good, Doing
  <2> QED BY <1>13, <1>16, <2>11 DEF r
<1>17. CASE q.k = "try"
  <2> DEFINE w == IF Ended(s2) THEN "end" ELSE "ok"
             r == Do(s2, w)
             h == SubSeq(g, 1, i)
             q2 == N[i]
             p2 == g[i]
  <2>1. vm' = r
    BY <1>13, <1>17
  <2>2. Back(r, vm, e, i) /\ r.todo = w
    BY <1>15, NowDo DEF Back
  <2>3. CASE w = "end"
    BY <2>1, <2>2, <2>3
  <2>4. CASE w # "end"
    <3>1. s2.native # <<>>
      BY <2>4 DEF Ended
    <3>2. s2.native = SubSeq(N, 1, i)
      BY <1>15 DEF Now
    <3>3. i # 0
      <4> SUFFICES ASSUME i = 0 PROVE FALSE
        OBVIOUS
      <4>1. SubSeq(N, 1, 0) \in Seq(Activation) /\ Len(SubSeq(N, 1, 0)) = 0
        <5>1. 0 \in 0 .. Len(N)
          BY <1>2
        <5> QED BY <1>2, <5>1, FirstOnes
      <4>2. SubSeq(N, 1, 0) = <<>>
        BY <4>1, EmptySeq
      <4> QED BY <3>1, <3>2, <4>2
    <3>4. j \in 2 .. Len(g) /\ i = j - 1
      <4>1. \A k \in Nat : k \in 2 .. k /\ k - 2 # 0 => k - 1 \in 2 .. k /\ k - 2 = (k - 1) - 1
        OBVIOUS
      <4> QED BY <1>2, <1>3, <3>3, <4>1
    <3>5. Link(vm.th, q2, p2, q, p) /\ i \in 1 .. Len(g) /\ q2 \in Activation
          /\ p2.b \in Nat /\ p2.c \in Nat /\ p2.m \in Modes
      <4> HIDE DEF j, i
      <4> QED BY <1>1, <3>4, LinkFacts DEF q, p
    <3>6. LinkTry(q2, p2, q, p)
      BY <1>17, <3>5 DEF Link, LinkC, LinkErrMsg, LinkCall, LinkExec, LinkResume
    <3> HIDE DEF q2, p2, i
    <3>7. /\ q2.k = "c" /\ q2.th = Run(vm) /\ p = p2 /\ Runs(q2) = 0
          /\ HandlerSuits(q.errfunc, q2.saved.mode)
      BY <1>6, <3>6 DEF LinkTry, Runs
    <3>8. /\ e \in Thread /\ e.ci = t.ci /\ e.size = t.size /\ e.mode = t.mode /\ e.stack = t.stack
          /\ e.nCcalls = p.c /\ e.baseCcalls = t.baseCcalls /\ e.status = t.status
          /\ e.errfunc = q.errfunc
      <4>1. q.errfunc \in Functions \cup {None}
        BY <1>4, <1>17 DEF Activation
      <4> QED BY <1>9, <4>1 DEF Thread
    <3> HIDE DEF e
    <3>9. Onto(vm, e, q2, p2)
      <4>1. p2.b + Runs(q2) <= Len(e.ci)
        BY <1>2, <1>8, <3>5, <3>7, <3>8
      <4>2. Len(e.ci) < e.size /\ e.ci = Cur(vm).ci
        BY <1>2, <3>8
      <4> HIDE DEF t
      <4> QED BY <3>8, <4>1, <4>2 DEF Onto, Goes, t
    <3>10. Fine(e, q2, p2)
      <4>1. p2.b + Runs(q2) <= Len(e.ci)
        BY <1>2, <1>8, <3>5, <3>7, <3>8
      <4>2. e.mode = p2.m /\ e.nCcalls = p2.c /\ (e.mode = "disabled" => e.stack = None)
        BY <1>1, <1>7, <3>7, <3>8 DEF Fine
      <4> QED BY <3>7, <3>8, <4>1, <4>2 DEF Fine
    <3>11. Within(vm, i)
      <4>1. \A k \in i .. n : k = i \/ k = j \/ k = n
        BY <1>2, <3>4
      <4> HIDE DEF n, j
      <4> QED BY <1>2, <1>6, <3>7, <4>1 DEF Within, q, q2
    <3> HIDE DEF r, w
    <3>12. /\ State(r, h) /\ Len(h) = i /\ h[i] = p2 /\ Act(r) = q2 /\ Cur(r) = e
      <4>1. Onto(vm, e, vm.native[i], g[i]) /\ Fine(e, vm.native[i], g[i])
        BY <3>9, <3>10 DEF q2, p2
      <4> QED BY <1>1, <2>2, <3>5, <3>11, <4>1, CutState DEF q2, p2
    <3>13. h[Len(h)] = p2
      BY <3>12
    <3> HIDE DEF h
    <3>14. Own(r, h) = 0
      BY <1>2, <1>4, <1>8, <3>7, <3>8, <3>12, <3>13 DEF Own
    <3>15. r.todo = "ok"
      BY <2>2, <2>4 DEF w
    <3>16. Good(r, h)
      BY <3>7, <3>12, <3>14, <3>15 DEF Good, Doing
    <3> QED BY <2>1, <3>16
  <2> QED BY <2>3, <2>4
<1> QED BY <1>6, <1>16, <1>17

\* restore_stack_limit keeps the CallInfos.
LEMMA RestoreLimitKept ==
  ASSUME NEW t \in Thread, Len(t.ci) < t.size
  PROVE  /\ Kept(RestoreLimit(t), t) /\ RestoreLimit(t).ci = t.ci
         /\ Len(RestoreLimit(t).ci) < RestoreLimit(t).size
<1>1. Len(t.ci) \in Nat
  BY LenProperties DEF Thread
<1> DEFINE u == RestoreLimit(t)
<1>2. \/ u = t
      \/ Len(t.ci) + 1 < MaxCalls /\ u = [t EXCEPT !.size = MaxCalls]
  BY DEF RestoreLimit
<1> HIDE DEF u
<1>3. u \in Thread /\ u.ci = t.ci
  BY <1>2, CallsAssumption DEF Thread
<1>4. Len(u.ci) < u.size
  BY <1>1, <1>2, <1>3, CallsAssumption DEF Thread
<1>5. Kept(u, t)
  BY <1>2, <1>3 DEF Kept, Thread
<1> QED BY <1>3, <1>4, <1>5 DEF u

\* The error path of luaD_pcall, part by part: s is as the error found it but
\* for the C calls, x is without the frames above the protected call.
LEMMA CatchParts ==
  ASSUME NEW g, Good(vm, g), Catch
  PROVE  LET i == Catcher(vm)
             try == vm.native[i]
             t == Cur(vm)
         IN /\ vm.todo = "throw" /\ State(vm, g) /\ Fine(t, Act(vm), g[Len(g)])
            /\ i \in 1 .. Len(g) /\ try.k = "try" /\ try.th = Run(vm) /\ Within(vm, i)
            /\ g[i] \in Level /\ g[i].m = g[Len(g)].m /\ g[i].b <= Len(t.ci)
            /\ try \in Activation /\ try.ci = g[i].b /\ try.nCcalls = g[i].c
            /\ \E s, t0, x, u, v :
                 /\ Now(s, vm, t0, vm.native) /\ Run(s) = Run(vm) /\ Cur(s) = t0
                 /\ t0 \in Thread /\ t0.ci = t.ci /\ t0.size = t.size
                 /\ t0.mode = t.mode /\ t0.stack = t.stack /\ t0.nCcalls = try.nCcalls
                 /\ t0.baseCcalls = t.baseCcalls /\ t0.status = t.status /\ Quiet(s, vm)
                 /\ x = Unwind(s, try.ci) /\ Now(x, vm, u, vm.native)
                 /\ Run(x) = Run(vm) /\ Cur(x) = u
                 /\ Kept(u, t0) /\ Keeps(u, t0, try.ci)
                 /\ v \in Thread /\ v.ci = u.ci /\ Len(v.ci) < v.size
                 /\ v.mode = u.mode /\ (u.mode = "disabled" => v.stack = u.stack)
                 /\ (u.stack # None => v.stack # None)
                 /\ v.nCcalls = u.nCcalls /\ v.baseCcalls = u.baseCcalls
                 /\ v.status = u.status /\ v.errfunc = try.errfunc
                 /\ Back(vm', vm, v, i - 1) /\ Alike(vm', x)
                 /\ vm'.todo = IF i = 1 THEN "end" ELSE "failed"
<1> DEFINE i == Catcher(vm)
           try == vm.native[i]
           t == Cur(vm)
           s0 == [vm EXCEPT !.th[try.th].nCcalls = try.nCcalls]
           t0 == [t EXCEPT !.nCcalls = try.nCcalls]
           s1 == Unwind(s0, try.ci)
           w == IF i = 1 THEN "end" ELSE "failed"
           l == g[i]
<1>1. vm.todo = "throw" /\ try.k = "try"
  BY DEF Catch
<1>2. vm' = Do(CutTo(Set(s1, RestoreLimit([Cur(s1) EXCEPT !.errfunc = try.errfunc])), i - 1), w)
  BY DEF Catch
<1>3. State(vm, g) /\ Fine(t, Act(vm), g[Len(g)])
  BY DEF Good, State
<1>4. /\ i \in 1 .. Len(g) /\ try.th = Run(vm) /\ Within(vm, i) /\ l.m = g[Len(g)].m
      /\ l.b <= Len(t.ci)
  BY <1>1, CatcherFacts
<1>5. /\ Whole(vm) /\ vm.th \in [Threads -> Thread] /\ Run(vm) \in Threads /\ t = vm.th[Run(vm)]
      /\ t \in Thread /\ Len(t.ci) < t.size /\ Len(t.ci) \in Nat /\ t.baseCcalls \in Nat
      /\ Len(g) \in Nat /\ vm.native \in Seq(Activation) /\ Len(vm.native) = Len(g)
      /\ g \in Seq(Level)
  BY <1>3, StateFacts
<1> SUFFICES
      /\ l \in Level /\ try \in Activation /\ try.ci = l.b /\ try.nCcalls = l.c
      /\ \E s, t1, x, u, v :
           /\ Now(s, vm, t1, vm.native) /\ Run(s) = Run(vm) /\ Cur(s) = t1
           /\ t1 \in Thread /\ t1.ci = t.ci /\ t1.size = t.size
           /\ t1.mode = t.mode /\ t1.stack = t.stack /\ t1.nCcalls = try.nCcalls
           /\ t1.baseCcalls = t.baseCcalls /\ t1.status = t.status /\ Quiet(s, vm)
           /\ x = Unwind(s, try.ci) /\ Now(x, vm, u, vm.native)
           /\ Run(x) = Run(vm) /\ Cur(x) = u
           /\ Kept(u, t1) /\ Keeps(u, t1, try.ci)
           /\ v \in Thread /\ v.ci = u.ci /\ Len(v.ci) < v.size
           /\ v.mode = u.mode /\ (u.mode = "disabled" => v.stack = u.stack)
           /\ (u.stack # None => v.stack # None)
           /\ v.nCcalls = u.nCcalls /\ v.baseCcalls = u.baseCcalls
           /\ v.status = u.status /\ v.errfunc = try.errfunc
           /\ Back(vm', vm, v, i - 1) /\ Alike(vm', x) /\ vm'.todo = w
  BY <1>1, <1>3, <1>4
<1> HIDE DEF i
<1>6. try \in Activation /\ l \in Level
  BY <1>4, <1>5, ElementOfSeq
<1>7. try.ci \in Nat /\ try.nCcalls \in Nat /\ try.errfunc \in Functions \cup {None}
  BY <1>1, <1>6 DEF Activation
<1>8. l.b \in Nat /\ l.c \in Nat /\ l.m \in Modes
  BY <1>6 DEF Level
<1>9. try.ci = l.b /\ try.nCcalls = l.c
  <2>1. CASE i = 1
    <3>1. Bottom(vm.native[1], g[1])
      BY <1>3 DEF State, Shape, Linked
    <3> QED BY <2>1, <3>1 DEF Bottom
  <2>2. CASE i # 1
    <3>1. i \in 2 .. Len(g)
      BY <1>4, <1>5, <2>2
    <3>2. Link(vm.th, vm.native[i - 1], g[i - 1], vm.native[i], g[i])
      BY <1>3, <3>1, LinkFacts
    <3> QED
      BY <1>1, <3>2 DEF Link, LinkC, LinkTry, LinkErrMsg, LinkCall, LinkExec, LinkResume
  <2> QED BY <2>1, <2>2
<1> HIDE DEF l
<1>10. Whole(s0) /\ s0.th = [vm.th EXCEPT ![Run(vm)] = t0] /\ s0.native = vm.native
       /\ Quiet(s0, vm)
  <2>1. s0 = [vm EXCEPT !.th = [vm.th EXCEPT ![try.th] = [vm.th[try.th] EXCEPT !.nCcalls = try.nCcalls]]]
    OBVIOUS
  <2> HIDE DEF try
  <2>2. s0 = Set(vm, t0)
    BY <1>4, <1>5, <2>1 DEF Set
  <2> HIDE DEF s0, t0
  <2> QED BY <1>5, <2>2, SetFields, QuietFields
<1>11. /\ t0 \in Thread /\ t0.ci = t.ci /\ t0.size = t.size /\ t0.mode = t.mode /\ t0.stack = t.stack
       /\ t0.nCcalls = try.nCcalls /\ t0.baseCcalls = t.baseCcalls /\ t0.status = t.status
  <2>1. try.nCcalls \in Int
    BY <1>7
  <2> HIDE DEF try
  <2> QED BY <1>5, <1>9, <2>1 DEF Thread
<1> HIDE DEF s0, t0
<1>12. Now(s0, vm, t0, vm.native) /\ Run(s0) = Run(vm) /\ Cur(s0) = t0
  <2>1. Now(s0, vm, t0, vm.native)
    BY <1>10 DEF Now
  <2> QED BY <1>3, <2>1, NowRun
<1>13. PICK u : Now(s1, s0, u, s0.native) /\ Kept(u, t0) /\ Keeps(u, t0, try.ci)
  <2>1. s0.th \in [Threads -> Thread] /\ Run(s0) \in Threads
    BY <1>5, <1>10, <1>11, <1>12
  <2>2. try.ci \in 0 .. Len(Cur(s0).ci) /\ Len(Cur(s0).ci) < Cur(s0).size
    BY <1>4, <1>5, <1>7, <1>9, <1>11, <1>12
  <2> HIDE DEF try
  <2> QED BY <1>10, <1>12, <2>1, <2>2, UnwindFields
<1>s. s1 = Unwind(s0, try.ci)
  OBVIOUS
<1> HIDE DEF s1
<1>14. Now(s1, vm, u, vm.native)
  BY <1>10, <1>12, <1>13, NowTrans
<1>15. Run(s1) = Run(vm) /\ Cur(s1) = u
  BY <1>3, <1>14, NowRun
<1> DEFINE e == [u EXCEPT !.errfunc = try.errfunc]
           v == RestoreLimit(e)
           x == Set(s1, v)
           r == Do(CutTo(x, i - 1), w)
<1>16. u \in Thread /\ Len(u.ci) < u.size
  BY <1>13 DEF Kept, Keeps
<1>17. /\ e \in Thread /\ e.ci = u.ci /\ e.size = u.size /\ e.mode = u.mode /\ e.stack = u.stack
       /\ e.nCcalls = u.nCcalls /\ e.baseCcalls = u.baseCcalls /\ e.status = u.status
       /\ e.errfunc = try.errfunc
  <2> HIDE DEF try
  <2> QED BY <1>7, <1>16 DEF Thread
<1> HIDE DEF e
<1>18. Kept(v, e) /\ v.ci = e.ci /\ Len(v.ci) < v.size
  BY <1>16, <1>17, RestoreLimitKept
<1>v. v = RestoreLimit([Cur(s1) EXCEPT !.errfunc = try.errfunc])
  BY <1>15 DEF e
<1> HIDE DEF v
<1>19. Now(x, vm, v, vm.native) /\ Alike(x, s1) /\ Whole(x)
  <2>1. Now(x, s1, v, s1.native) /\ s1.native = vm.native /\ Quiet(x, s1) /\ Whole(s1)
    BY <1>14, NowSet, QuietFields DEF Now
  <2> HIDE DEF x
  <2>2. s1.th \in [Threads -> Thread] /\ Run(s1) \in Threads
    BY <1>5, <1>14, <1>15, <1>16 DEF Now
  <2> QED BY <1>14, <1>15, <1>17, <1>18, <2>1, <2>2, NowTrans, AlikeNow DEF Now
<1> HIDE DEF x
<1>20. Back(r, vm, v, i - 1) /\ r.todo = w /\ Alike(r, x)
  <2> DEFINE y == CutTo(x, i - 1)
  <2>1. Now(y, vm, v, SubSeq(vm.native, 1, i - 1)) /\ Alike(y, x)
    BY <1>19, NowCut, CutFields, QuietFields DEF Alike
  <2> HIDE DEF y, w
  <2>2. Alike(Do(y, w), y)
    BY <2>1, AlikeDo DEF Now
  <2> QED BY <2>1, <2>2, NowDo, AlikeTrans DEF Back, y
<1>21. vm' = r
  BY <1>2, <1>v DEF x
<1> HIDE DEF r, w
<1>22. Alike(vm', s1)
  BY <1>19, <1>20, <1>21, AlikeTrans
<1>23. /\ v \in Thread /\ v.ci = u.ci
       /\ v.mode = u.mode /\ (u.mode = "disabled" => v.stack = u.stack)
       /\ (u.stack # None => v.stack # None)
       /\ v.nCcalls = u.nCcalls /\ v.baseCcalls = u.baseCcalls
       /\ v.status = u.status /\ v.errfunc = try.errfunc
  BY <1>17, <1>18 DEF Kept
<1> HIDE DEF try, t
<1> QED
  BY <1>6, <1>9, <1>11, <1>12, <1>10, <1>s, <1>14, <1>15, <1>13, <1>18, <1>20, <1>21, <1>22, <1>23

\* The error path of luaD_pcall: the frames above it are gone.
LEMMA CatchGood ==
  ASSUME NEW g, Good(vm, g), Catch
  PROVE  vm'.todo = "end" \/ \E h : Good(vm', h)
<1> DEFINE i == Catcher(vm)
           try == vm.native[i]
           t == Cur(vm)
           l == g[i]
<1>1. /\ State(vm, g) /\ Fine(t, Act(vm), g[Len(g)])
      /\ i \in 1 .. Len(g) /\ try.k = "try" /\ try.th = Run(vm) /\ Within(vm, i)
      /\ l \in Level /\ l.m = g[Len(g)].m /\ l.b <= Len(t.ci)
      /\ try.ci = l.b /\ try.nCcalls = l.c
  BY CatchParts
<1>2. PICK t0, u, v :
        /\ t0.ci = t.ci /\ t0.mode = t.mode /\ t0.stack = t.stack /\ t0.nCcalls = try.nCcalls
        /\ t0.baseCcalls = t.baseCcalls /\ t0.status = t.status
        /\ Kept(u, t0) /\ Keeps(u, t0, try.ci)
        /\ v \in Thread /\ v.ci = u.ci /\ Len(v.ci) < v.size
        /\ v.mode = u.mode /\ (u.mode = "disabled" => v.stack = u.stack)
        /\ (u.stack # None => v.stack # None)
        /\ v.nCcalls = u.nCcalls /\ v.baseCcalls = u.baseCcalls
        /\ v.status = u.status /\ v.errfunc = try.errfunc
        /\ Back(vm', vm, v, i - 1) /\ vm'.todo = IF i = 1 THEN "end" ELSE "failed"
  <2> HIDE DEF i, try, t
  <2> QED BY CatchParts DEF i, try, t
<1>3. Len(g) \in Nat /\ t.baseCcalls \in Nat
  BY <1>1, StateFacts
<1>4. l.b \in Nat /\ l.c \in Nat /\ l.m \in Modes
  BY <1>1 DEF Level
<1>5. Len(v.ci) = l.b /\ \A k \in 1 .. l.b : v.ci[k] = t.ci[k]
  BY <1>1, <1>2 DEF Keeps
<1> HIDE DEF i, l
<1>6. CASE i = 1
  BY <1>2, <1>6
<1>7. CASE i # 1
  <2> DEFINE j == i - 1
             q == vm.native[j]
             p == g[j]
             h == SubSeq(g, 1, j)
  <2>1. i \in 2 .. Len(g)
    BY <1>1, <1>3, <1>7
  <2>2. Link(vm.th, q, p, try, l) /\ j \in 1 .. Len(g)
    BY <1>1, <2>1, LinkFacts DEF l
  <2>3. LinkTry(q, p, try, l)
    BY <1>1, <2>2 DEF Link, LinkC, LinkErrMsg, LinkCall, LinkExec, LinkResume
  <2>4. /\ q.k = "c" /\ q.th = Run(vm) /\ p = l /\ Runs(q) = 0
        /\ HandlerSuits(try.errfunc, q.saved.mode)
    BY <1>1, <2>3 DEF LinkTry, Runs
  <2>j. j = i - 1
    OBVIOUS
  <2> HIDE DEF q, p, j
  <2>5. Onto(vm, v, q, p)
    BY <1>2, <1>3, <1>4, <1>5, <2>4 DEF Onto, Goes, Kept
  <2>6. Fine(v, q, p)
    <3>1. v.mode = l.m /\ v.nCcalls = l.c /\ v.errfunc = try.errfunc
      BY <1>1, <1>2 DEF Kept, Fine
    <3>2. v.mode = "disabled" => v.stack = None
      BY <1>1, <1>2 DEF Kept, Fine
    <3>3. l.b + Runs(q) <= Len(v.ci)
      BY <1>4, <1>5, <2>4
    <3> QED BY <2>4, <3>1, <3>2, <3>3 DEF Fine
  <2>7. Within(vm, j)
    <3>1. \A k \in j .. Len(g) : k = j \/ k \in i .. Len(g)
      BY <1>1, <1>3, <2>1, <2>j
    <3> QED BY <1>1, <2>4, <3>1 DEF Within, q
  <2>8. /\ State(vm', h) /\ Len(h) = j /\ h[j] = p /\ Act(vm') = q /\ Cur(vm') = v
    <3>1. Onto(vm, v, vm.native[j], g[j]) /\ Fine(v, vm.native[j], g[j]) /\ Back(vm', vm, v, j)
      BY <1>2, <2>5, <2>6, <2>j DEF q, p
    <3> QED BY <1>1, <2>2, <2>7, <3>1, CutState DEF q, p
  <2>9. h[Len(h)] = p
    BY <2>8
  <2> HIDE DEF h
  <2>10. Own(vm', h) = 0
    BY <1>4, <1>5, <2>4, <2>8, <2>9 DEF Own
  <2>11. Good(vm', h)
    BY <1>2, <1>7, <2>4, <2>8, <2>10 DEF Good, Doing
  <2> QED BY <2>11
<1> QED BY <1>6, <1>7

-----------------------------------------------------------------------------
(* C functions *)

\* What luaD_call calls, and in which mode it may run.
LEMMA LuaSuits ==
  /\ \A f \in HostLua : Called(f) /\ Suits(f, "disabled")
  /\ \A f \in SandboxLua \cup {"yield", "bubblewrapped"} : Called(f) /\ Suits(f, "rw")
  /\ \A m : Called(Logger) /\ Suits(Logger, m)
  /\ Called(Handler) /\ Suits(Handler, "rw")
  /\ \A f : Called(f) => f \in Functions
<1>1. \A f \in HostLua : Called(f) /\ Suits(f, "disabled")
  BY NamesAssumption DEF Called, Suits, LuaFunctions
<1>2. \A f \in SandboxLua \cup {"yield", "bubblewrapped"} : Called(f) /\ Suits(f, "rw")
  <2>1. \A f \in SandboxLua : Called(f) /\ Suits(f, "rw")
    BY NamesAssumption DEF Called, Suits, LuaFunctions, CFunctions
  <2>2. Called("yield") /\ Called("bubblewrapped")
    BY DEF Called
  <2>3. "yield" \in CFunctions /\ "bubblewrapped" \in CFunctions
    BY DEF CFunctions
  <2>4. "yield" \notin HostLua /\ "bubblewrapped" \notin HostLua
    BY <2>3, NamesAssumption DEF LuaFunctions
  <2>5. Suits("yield", "rw") /\ Suits("bubblewrapped", "rw")
    BY <2>4 DEF Suits
  <2> QED BY <2>1, <2>2, <2>5
<1>3. \A m : Called(Logger) /\ Suits(Logger, m)
  <2>1. Logger \notin HostLua \cup SandboxLua \cup {Handler} \cup CFunctions
    BY NamesAssumption DEF LuaFunctions
  <2> QED BY <2>1 DEF Called, Suits, LuaFunctions, CFunctions
<1>4. Called(Handler) /\ Suits(Handler, "rw")
  <2>1. Handler \notin HostLua \cup CFunctions
    BY NamesAssumption DEF LuaFunctions
  <2> QED BY <2>1 DEF Called, Suits, LuaFunctions, CFunctions
<1>5. \A f : Called(f) => f \in Functions
  BY DEF Called, Functions, CFunctions
<1> QED BY <1>1, <1>2, <1>3, <1>4, <1>5

\* In the body of a C function.
LEMMA BodyFacts ==
  ASSUME NEW s, NEW g, Good(s, g), s.todo = "body", NEW f, Top(s) = f
  PROVE  /\ State(s, g) /\ Own(s, g) = 1 /\ Act(s).k \in {"exec", "call"}
         /\ f \in CFunctions /\ Cur(s).mode = g[Len(g)].m /\ Suits(f, Cur(s).mode)
         /\ Cur(s) \in Thread /\ SaveTaint(Cur(s)) \in Saved
         /\ SaveTaint(Cur(s)).mode = Cur(s).mode /\ Cur(s).mode \in Modes
         /\ Cur(s).mode = "disabled" => Cur(s).stack = None
         /\ Now(s, s, Cur(s), s.native)
         /\ f \notin {"yield", "bubblewrapped"} =>
              /\ Act(s).k = "exec" /\ CallerIn(s) \in LuaFunctions
              /\ Suits(CallerIn(s), Cur(s).mode) /\ f \in Callable(CallerIn(s))
              /\ Len(Cur(s).ci) = g[Len(g)].b + Act(s).n + 1
<1> DEFINE l == g[Len(g)]
           t == Cur(s)
<1>1. /\ State(s, g) /\ Own(s, g) = 1 /\ f \in CFunctions /\ Suits(f, l.m)
      /\ \/ Act(s).k = "exec" /\ f \in Callable(CallerIn(s))
         \/ Act(s).k = "call" /\ f \in {"yield", "bubblewrapped"}
  BY DEF Good, Doing
<1>2. t.mode = l.m /\ (t.mode = "disabled" => t.stack = None)
  BY <1>1 DEF State, Fine
<1>3. /\ t \in Thread /\ Whole(s) /\ s.th \in [Threads -> Thread] /\ Run(s) \in Threads
      /\ t = s.th[Run(s)] /\ l.b \in Nat /\ Runs(Act(s)) \in Nat /\ Len(t.ci) \in Nat
  BY <1>1, StateFacts
<1>4. SaveTaint(t) \in Saved /\ SaveTaint(t).mode = t.mode /\ t.mode \in Modes
  BY <1>2, <1>3 DEF SaveTaint, Saved, Thread
<1>5. Now(s, s, t, s.native)
  BY <1>3 DEF Now
<1>6. ASSUME f \notin {"yield", "bubblewrapped"}
      PROVE  /\ Act(s).k = "exec" /\ CallerIn(s) \in LuaFunctions
             /\ Suits(CallerIn(s), t.mode) /\ f \in Callable(CallerIn(s))
             /\ Len(t.ci) = l.b + Act(s).n + 1
  <2>1. Act(s).k = "exec" /\ f \in Callable(CallerIn(s))
    BY <1>1, <1>6
  <2>2. /\ Act(s).n \in Nat /\ 1 <= Act(s).n /\ Runs(Act(s)) = Act(s).n
        /\ RunsIn(t.ci, l.b, Act(s).n, l.m)
    BY <1>1, <2>1, ExecFacts
  <2>3. Len(t.ci) - l.b - Act(s).n = 1
    BY <1>1, <2>2 DEF Own
  <2>4. Len(t.ci) - 1 \in l.b + 1 .. l.b + Act(s).n /\ Len(t.ci) = l.b + Act(s).n + 1
    <3>1. \A k, b, n \in Nat : k - b - n = 1 /\ 1 <= n => k - 1 \in b + 1 .. b + n /\ k = b + n + 1
      OBVIOUS
    <3> HIDE DEF l, t
    <3> QED BY <1>3, <2>2, <2>3, <3>1, ZenonT(60)
  <2> HIDE DEF l
  <2>5. CallerIn(s) \in LuaFunctions /\ Suits(CallerIn(s), l.m)
    BY <2>2, <2>4 DEF RunsIn, CallerIn
  <2> QED BY <1>2, <2>1, <2>4, <2>5 DEF l
<1> QED BY <1>1, <1>2, <1>3, <1>4, <1>5, <1>6

\* What a C function is given to call suits the mode it calls in.
LEMMA GivenSuits ==
  ASSUME NEW s, NEW g, Good(s, g), s.todo = "body", NEW f, Top(s) = f,
         f \in {"pcall", "xpcall", "securecall", "delegate"}
  PROVE  /\ \A h \in Targets(CallerIn(s)) :
              Called(h) /\ Suits(h, Cur(s).mode) /\ h \in Functions
         /\ f # "pcall" => Cur(s).mode = "rw"
<1> DEFINE c == CallerIn(s)
<1>1. /\ c \in LuaFunctions /\ Suits(c, Cur(s).mode) /\ f \in Callable(c) /\ Suits(f, Cur(s).mode)
  BY BodyFacts
<1>2. f # "pcall" => Cur(s).mode = "rw"
  BY <1>1 DEF Suits, CFunctions
<1>3. CASE c \in HostLua
  <2>1. Cur(s).mode = "disabled"
    BY <1>1, <1>3 DEF Suits
  <2> QED BY <1>2, <1>3, <2>1, LuaSuits DEF Targets
<1>4. CASE c \notin HostLua
  <2>1. c # Logger
    <3> SUFFICES ASSUME c = Logger PROVE FALSE
      OBVIOUS
    <3>1. Callable(c) = {"plain", "error"}
      BY NamesAssumption DEF Callable
    <3> QED BY <1>1, <3>1
  <2>2. c \in SandboxLua \cup {Handler}
    BY <1>1, <1>4, <2>1 DEF LuaFunctions
  <2>3. Cur(s).mode = "rw"
    BY <1>1, <2>2 DEF Suits
  <2>4. Targets(c) = SandboxLua \cup {"yield"}
    BY <1>4 DEF Targets
  <2> QED BY <1>2, <2>3, <2>4, LuaSuits
<1> QED BY <1>3, <1>4

\* After a protected call.
LEMMA AfterFacts ==
  ASSUME NEW s, NEW g, Good(s, g), s.todo \in {"ok", "failed"}, NEW f, Act(s).f = f
  PROVE  /\ Act(s).k = "c" /\ Act(s).saved \in Saved /\ Suits(f, Act(s).saved.mode)
         /\ f \in CFunctions /\ Cur(s).mode = Switched(f, Act(s).saved.mode)
         /\ Cur(s) \in Thread /\ Cur(s).mode \in Modes /\ Whole(s)
         /\ Cur(s).mode = "disabled" => Cur(s).stack = None
         /\ Now(Pop(s), s, Cur(s), SubSeq(s.native, 1, Len(s.native) - 1))
<1> DEFINE n == Len(g)
<1>1. State(s, g) /\ Act(s).k = "c" /\ Fine(Cur(s), Act(s), g[n])
  BY DEF Good, State, Doing
<1>2. /\ Cur(s) \in Thread /\ Whole(s) /\ s.th \in [Threads -> Thread] /\ Run(s) \in Threads
      /\ Act(s) \in Activation /\ Act(s) = s.native[n] /\ Cur(s) = s.th[Run(s)]
  BY <1>1, StateFacts
<1>3. n \in 2 .. Len(g)
  BY <1>1, BottomFacts
<1>4. Link(s.th, s.native[n - 1], g[n - 1], s.native[n], g[n])
  BY <1>1, <1>3, LinkFacts, SMTT(60)
<1>5. LinkC(s.native[n - 1], g[n - 1], Act(s), g[n])
  BY <1>1, <1>2, <1>4, ZenonT(60) DEF Link, LinkTry, LinkCall, LinkExec, LinkErrMsg, LinkResume
<1>6. Suits(f, Act(s).saved.mode) /\ Cur(s).mode = Switched(f, Act(s).saved.mode)
  BY <1>1, <1>5 DEF LinkC, Fine
<1>7. Act(s).saved \in Saved /\ f \in CFunctions
  BY <1>1, <1>2 DEF Activation
<1>8. Cur(s).mode \in Modes
  BY <1>2 DEF Thread
<1>9. Now(s, s, Cur(s), s.native)
  BY <1>2 DEF Now
<1>10. Now(Pop(s), s, Cur(s), SubSeq(s.native, 1, Len(s.native) - 1))
  BY <1>9, NowCut
<1> QED BY <1>1, <1>2, <1>6, <1>7, <1>8, <1>10 DEF Fine

\* Something else in the state is changed.
LEMMA NowThetaint ==
  ASSUME NEW s, NEW x, NEW u, NEW N, Now(x, s, u, N), NEW v
  PROVE  Now([x EXCEPT !.thetaint = v], s, u, N)
BY DEF Now, Whole

\* A C function that only returns.
LEMMA PlainGood ==
  ASSUME NEW g, Good(vm, g), Plain
  PROVE  \E h : Good(vm', h)
<1>1. vm.todo = "body" /\ Top(vm) = "plain" /\ vm' = CReturn(vm)
  BY DEF Plain, Body
<1>2. State(vm, g) /\ Own(vm, g) = 1 /\ Act(vm).k \in {"exec", "call"}
  BY <1>1, BodyFacts
<1> QED BY <1>1, <1>2, CReturnGood

\* luaB_error.
LEMMA ErrorGood ==
  ASSUME NEW g, Good(vm, g), Error
  PROVE  \E h : Good(vm', h)
<1>1. vm.todo = "body" /\ Top(vm) = "error" /\ vm' = Do(vm, "raise")
  BY DEF Error, Body
<1>2. State(vm, g) /\ Act(vm).k \in {"exec", "call"}
  BY <1>1, BodyFacts
<1> QED BY <1>1, <1>2, FailGood

\* luaL_forceinsecure: only addon code has it.
LEMMA ForceInsecureGood ==
  ASSUME NEW g, Good(vm, g), ForceInsecure
  PROVE  \E h : Good(vm', h)
<1> DEFINE t == Cur(vm)
           u == [t EXCEPT !.stack = Forced]
           x == Set(vm, u)
           l == g[Len(g)]
<1>1. vm.todo = "body" /\ Top(vm) = "forceinsecure"
      /\ vm' = CReturn(IF t.stack # None THEN vm ELSE x)
  BY DEF ForceInsecure, Body
<1>2. /\ State(vm, g) /\ Own(vm, g) = 1 /\ Act(vm).k \in {"exec", "call"} /\ t \in Thread
      /\ Suits("forceinsecure", t.mode)
  BY <1>1, BodyFacts
<1>3. t.mode = "rw"
  BY <1>2 DEF Suits, CFunctions
<1>4. /\ Whole(vm) /\ Len(t.ci) < t.size /\ Len(t.ci) \in Nat /\ l.b + Runs(Act(vm)) <= Len(t.ci)
  BY <1>2, StateFacts
<1>5. u \in Thread /\ u.ci = t.ci /\ u.size = t.size
  BY <1>2 DEF Thread, Taints
<1> HIDE DEF u
<1>6. CASE t.stack # None
  BY <1>1, <1>2, <1>6, CReturnGood
<1>7. CASE t.stack = None
  <2>1. Kept(u, t) /\ Keeps(u, t, Len(t.ci))
    BY <1>2, <1>3, <1>4, <1>5, <1>7 DEF Kept, Keeps, Thread, u
  <2>2. Now(x, vm, u, vm.native)
    BY <1>4, NowSet
  <2> HIDE DEF x
  <2>3. Onto(vm, u, Act(vm), l) /\ Fine(u, Act(vm), l)
    BY <1>2, <1>4, <2>1, KeepsOnto
  <2>4. State(x, g) /\ Act(x) = Act(vm) /\ Cur(x) = u
    BY <1>2, <2>2, <2>3, SameState
  <2>5. Own(x, g) = 1
    BY <1>2, <1>5, <2>4 DEF Own
  <2>6. Good(CReturn(x), g)
    BY <1>2, <2>4, <2>5, CReturnGood
  <2> QED BY <1>1, <1>7, <2>6
<1> QED BY <1>6, <1>7

\* luaB_pcall and luaB_xpcall.
LEMMA ProtectedCallGood ==
  ASSUME NEW g, Good(vm, g), ProtectedCall
  PROVE  \E h : Good(vm', h)
<1> DEFINE t == Cur(vm)
<1>1. ASSUME NEW f \in {"pcall", "xpcall"}, vm.todo = "body", Top(vm) = f,
             NEW f2 \in Given, NEW e \in Given \cup {None},
             vm' = PCall(vm, f, SaveTaint(t), e, f2)
      PROVE  \E h : Good(vm', h)
  <2>1. /\ Called(f2) /\ Suits(f2, t.mode) /\ HandlerSuits(e, t.mode)
        /\ e \in Functions \cup {None}
    BY <1>1, GivenSuits DEF Given, HandlerSuits
  <2>2. /\ t \in Thread /\ SaveTaint(t) \in Saved /\ SaveTaint(t).mode = t.mode
        /\ t.mode = "disabled" => t.stack = None
        /\ Now(vm, vm, t, vm.native)
    BY <1>1, BodyFacts
  <2>3. Switches(t, t, f)
    BY <1>1, <2>2 DEF Switches, Switched
  <2> DEFINE saved == SaveTaint(t)
  <2> HIDE DEF t, saved
  <2> QED BY <1>1, <2>1, <2>2, <2>3, PCallGood DEF t, saved
<1>2. ASSUME NEW f \in {"pcall", "xpcall"}, After(f), vm' = CReturn(Pop(vm))
      PROVE  \E h : Good(vm', h)
  <2>1. vm.todo \in {"ok", "failed"} /\ Act(vm).f = f
    BY <1>2 DEF After
  <2>2. /\ t \in Thread /\ t.mode = Switched(f, Act(vm).saved.mode)
        /\ t.mode = "disabled" => t.stack = None
        /\ Now(Pop(vm), vm, t, SubSeq(vm.native, 1, Len(vm.native) - 1))
    BY <2>1, AfterFacts
  <2>3. Restores(t, t, Act(vm).saved.mode)
    BY <1>2, <2>2 DEF Restores, Switched
  <2>4. \E h : Good(CReturn(Pop(vm)), h)
    BY <2>1, <2>2, <2>3, BackGood
  <2> QED BY <1>2, <2>4
<1>3. CASE Body("pcall") /\ \E h \in Given : vm' = PCall(vm, "pcall", SaveTaint(t), None, h)
  <2>1. PICK f2 \in Given : vm' = PCall(vm, "pcall", SaveTaint(t), None, f2)
    BY <1>3
  <2> QED BY <1>1, <1>3, <2>1 DEF Body
<1>4. CASE Body("xpcall") /\ \E h, e \in Given : vm' = PCall(vm, "xpcall", SaveTaint(t), e, h)
  <2>1. PICK f2 \in Given, e \in Given : vm' = PCall(vm, "xpcall", SaveTaint(t), e, f2)
    BY <1>4
  <2> QED BY <1>1, <1>4, <2>1 DEF Body
<1>5. CASE (After("pcall") \/ After("xpcall")) /\ vm' = CReturn(Pop(vm))
  BY <1>2, <1>5
<1> QED BY <1>3, <1>4, <1>5 DEF ProtectedCall

\* The taint of the caller is put back after the call.
LEMMA LoadTaintGood ==
  ASSUME NEW g, Good(vm, g), vm.todo \in {"ok", "failed"},
         Act(vm).f \in {"securecall", "delegate"},
         NEW r, r = Pop(Set(vm, LoadTaint(Cur(vm), Act(vm).saved)))
  PROVE  (\E h : Good(CReturn(r), h)) /\ (\E h : Good(Do(r, "raise"), h))
<1> DEFINE t == Cur(vm)
           saved == Act(vm).saved
           u == [t EXCEPT !.mode = saved.mode, !.stack = saved.stack]
           x == Set(vm, u)
<1>1. /\ saved \in Saved /\ Suits(Act(vm).f, saved.mode) /\ t \in Thread /\ Whole(vm)
  BY AfterFacts
<1>2. saved.mode = "rw" /\ saved.stack \in Taints
  BY <1>1 DEF Suits, CFunctions, Saved
<1>3. Restores(u, t, saved.mode)
  <2> HIDE DEF saved
  <2> QED BY <1>1, <1>2 DEF Restores, Thread, Modes
<1>4. r = Pop(x)
  BY DEF LoadTaint
<1>5. Now(x, vm, u, vm.native)
  BY <1>1, NowSet
<1> HIDE DEF x, u
<1>6. Now(r, vm, u, SubSeq(vm.native, 1, Len(vm.native) - 1))
  BY <1>4, <1>5, NowCut, ZenonT(60)
<1> QED BY <1>3, <1>6, BackGood

\* securecall.
LEMMA SecureCallGood ==
  ASSUME NEW g, Good(vm, g), SecureCall
  PROVE  \E h : Good(vm', h)
<1> DEFINE t == Cur(vm)
<1>1. CASE Body("securecall") /\ \E h \in Given : vm' = PCall(vm, "securecall", SaveTaint(t), Handler, h)
  <2>1. PICK f2 \in Given : vm' = PCall(vm, "securecall", SaveTaint(t), Handler, f2)
    BY <1>1
  <2>2. vm.todo = "body" /\ Top(vm) = "securecall"
    BY <1>1 DEF Body
  <2>3. Called(f2) /\ Suits(f2, t.mode) /\ t.mode = "rw"
    BY <2>2, GivenSuits DEF Given
  <2>4. HandlerSuits(Handler, t.mode) /\ Handler \in Functions
    BY <2>3, LuaSuits DEF HandlerSuits
  <2>5. /\ t \in Thread /\ SaveTaint(t) \in Saved /\ SaveTaint(t).mode = t.mode
        /\ Now(vm, vm, t, vm.native)
    BY <2>2, BodyFacts
  <2>6. Switches(t, t, "securecall")
    BY <2>3, <2>5 DEF Switches, Switched
  <2> DEFINE saved == SaveTaint(t)
  <2> HIDE DEF t, saved
  <2> QED BY <2>1, <2>2, <2>3, <2>4, <2>5, <2>6, PCallGood DEF t, saved
<1>2. CASE After("securecall") /\ vm' = CReturn(Pop(Set(vm, LoadTaint(Cur(vm), Act(vm).saved))))
  BY <1>2, LoadTaintGood DEF After
<1> QED BY <1>1, <1>2 DEF SecureCall

\* f_securedelegate.
LEMMA DelegateGood ==
  ASSUME NEW g, Good(vm, g), Delegate
  PROVE  \E h : Good(vm', h)
<1> DEFINE t == Cur(vm)
           u == [t EXCEPT !.stack = None]
           x == Set(vm, u)
<1>1. CASE Body("delegate") /\ \E h \in Given : vm' = PCall(x, "delegate", SaveTaint(t), None, h)
  <2>1. PICK f2 \in Given : vm' = PCall(x, "delegate", SaveTaint(t), None, f2)
    BY <1>1
  <2>2. vm.todo = "body" /\ Top(vm) = "delegate"
    BY <1>1 DEF Body
  <2>3. Called(f2) /\ Suits(f2, t.mode) /\ t.mode = "rw"
    BY <2>2, GivenSuits DEF Given
  <2>4. State(vm, g) /\ t \in Thread /\ SaveTaint(t) \in Saved /\ SaveTaint(t).mode = t.mode
    BY <2>2, BodyFacts
  <2>5. Switches(u, t, "delegate") /\ u.mode = t.mode
    BY <2>3, <2>4, TaintOfTaints DEF Switches, Switched, Thread
  <2>6. Now(x, vm, u, vm.native)
    BY <2>4, StateFacts, NowSet
  <2>7. HandlerSuits(None, u.mode)
    BY DEF HandlerSuits
  <2> DEFINE saved == SaveTaint(t)
  <2> HIDE DEF t, u, x, saved
  <2> QED BY <2>1, <2>2, <2>3, <2>4, <2>5, <2>6, <2>7, PCallGood DEF t, saved
<1>2. CASE After("delegate") /\ vm' = DelegateReturns(vm)
  <2>1. vm.todo \in {"ok", "failed"} /\ Act(vm).f = "delegate"
    BY <1>2 DEF After
  <2> DEFINE r == Pop(Set(vm, LoadTaint(Cur(vm), Act(vm).saved)))
  <2>2. vm' \in {CReturn(r), Do(r, "raise")}
    BY <1>2 DEF DelegateReturns
  <2>3. (\E h : Good(CReturn(r), h)) /\ (\E h : Good(Do(r, "raise"), h))
    BY <2>1, LoadTaintGood
  <2> QED BY <2>2, <2>3
<1> QED BY <1>1, <1>2 DEF Delegate

\* wowless_bubblewrap_cstub_enter.
LEMMA BubblewrapEnterGood ==
  ASSUME NEW g, Good(vm, g), BubblewrapEnter
  PROVE  \E h : Good(vm', h)
<1> DEFINE t == Cur(vm)
           u == [t EXCEPT !.mode = "disabled", !.stack = None]
           x == Set(vm, u)
           z == [x EXCEPT !.thetaint = IF t.stack = None THEN @ ELSE t.stack]
<1>1. /\ vm.todo = "body" /\ Top(vm) = "bubblewrapped"
      /\ \/ t.mode # "rw" /\ vm' = Do(vm, "raise")
         \/ t.mode = "rw" /\ \E h \in HostLua : vm' = PCall(z, "bubblewrapped", SaveTaint(t), None, h)
  BY DEF BubblewrapEnter, Body
<1>2. /\ State(vm, g) /\ Act(vm).k \in {"exec", "call"} /\ t \in Thread
      /\ SaveTaint(t) \in Saved /\ SaveTaint(t).mode = t.mode
  BY <1>1, BodyFacts
<1>3. CASE vm' = Do(vm, "raise")
  BY <1>2, <1>3, FailGood
<1>4. CASE \E h \in HostLua : vm' = PCall(z, "bubblewrapped", SaveTaint(t), None, h)
  <2>1. PICK f2 \in HostLua : vm' = PCall(z, "bubblewrapped", SaveTaint(t), None, f2)
    BY <1>4
  <2>2. Switches(u, t, "bubblewrapped") /\ u.mode = "disabled"
    BY <1>2, TaintOfTaints DEF Switches, Switched, Thread, Modes
  <2>3. Now(x, vm, u, vm.native)
    BY <1>2, StateFacts, NowSet
  <2> HIDE DEF x, u
  <2>4. Now(z, vm, u, vm.native)
    BY <2>3, NowThetaint
  <2>5. Called(f2) /\ Suits(f2, u.mode) /\ HandlerSuits(None, u.mode)
    BY <2>2, LuaSuits DEF HandlerSuits
  <2> DEFINE saved == SaveTaint(t)
  <2> HIDE DEF t, saved, z
  <2> QED BY <1>1, <1>2, <2>1, <2>2, <2>4, <2>5, PCallGood DEF t, saved
<1> QED BY <1>1, <1>3, <1>4

\* wowless_bubblewrap_cstub_exit: the mode is that of the caller again.
LEMMA BubblewrapExitGood ==
  ASSUME NEW g, Good(vm, g), BubblewrapExit
  PROVE  \E h : Good(vm', h)
<1> DEFINE t == Cur(vm)
           saved == Act(vm).saved
           u == [t EXCEPT !.stack = saved.stack, !.mode = "rw"]
           x == Set(vm, u)
           z == [x EXCEPT !.thetaint = None]
           r == Pop(z)
<1>1. /\ vm.todo \in {"ok", "failed"} /\ Act(vm).f = "bubblewrapped"
      /\ vm' \in {CReturn(r), Do(r, "raise")}
  BY DEF BubblewrapExit, After, BubblewrapLeave
<1>2. /\ saved \in Saved /\ Suits("bubblewrapped", saved.mode) /\ t \in Thread /\ Whole(vm)
  BY <1>1, AfterFacts
<1>3. saved.mode = "rw" /\ saved.stack \in Taints
  BY <1>2 DEF Suits, CFunctions, Saved
<1>4. Restores(u, t, saved.mode)
  <2> HIDE DEF saved
  <2> QED BY <1>2, <1>3 DEF Restores, Thread, Modes
<1>5. Now(x, vm, u, vm.native)
  BY <1>2, NowSet
<1> HIDE DEF x, u
<1>6. Now(z, vm, u, vm.native)
  BY <1>5, NowThetaint
<1> HIDE DEF z
<1>7. Now(r, vm, u, SubSeq(vm.native, 1, Len(vm.native) - 1))
  BY <1>6, NowCut
<1> HIDE DEF r
<1>8. (\E h : Good(CReturn(r), h)) /\ (\E h : Good(Do(r, "raise"), h))
  BY <1>1, <1>4, <1>7, BackGood
<1> QED BY <1>1, <1>8

\* call_safely of modules/security.c.
LEMMA CallSafelyGood ==
  ASSUME NEW g, Good(vm, g), CallSafely
  PROVE  \E h : Good(vm', h)
<1> DEFINE t == Cur(vm)
<1>1. CASE Body("CallSafely") /\ vm' = Do(vm, "raise")
  <2>1. State(vm, g) /\ Act(vm).k \in {"exec", "call"}
    BY <1>1, BodyFacts DEF Body
  <2> QED BY <1>1, <2>1, FailGood
<1>2. CASE Body("CallSafely") /\ \E h \in HostLua : vm' = PCall(vm, "CallSafely", SaveTaint(t), Logger, h)
  <2>1. PICK f2 \in HostLua : vm' = PCall(vm, "CallSafely", SaveTaint(t), Logger, f2)
    BY <1>2
  <2>2. vm.todo = "body" /\ Top(vm) = "CallSafely"
    BY <1>2 DEF Body
  <2>3. /\ t \in Thread /\ SaveTaint(t) \in Saved /\ SaveTaint(t).mode = t.mode
        /\ t.mode = "disabled" => t.stack = None
        /\ Now(vm, vm, t, vm.native) /\ Suits("CallSafely", t.mode)
    BY <2>2, BodyFacts
  <2>4. t.mode = "disabled"
    BY <2>3 DEF Suits
  <2>5. Switches(t, t, "CallSafely")
    BY <2>3 DEF Switches, Switched
  <2>6. /\ Called(f2) /\ Suits(f2, t.mode) /\ HandlerSuits(Logger, t.mode) /\ Logger \in Functions
    BY <2>4, LuaSuits DEF HandlerSuits
  <2> DEFINE saved == SaveTaint(t)
  <2> HIDE DEF t, saved
  <2> QED BY <2>1, <2>2, <2>3, <2>5, <2>6, PCallGood DEF t, saved
<1>3. CASE After("CallSafely") /\ vm' \in {CReturn(Pop(vm)), Do(Pop(vm), "raise")}
  <2>1. vm.todo \in {"ok", "failed"} /\ Act(vm).f = "CallSafely"
    BY <1>3 DEF After
  <2>2. /\ t \in Thread /\ t.mode = Switched("CallSafely", Act(vm).saved.mode)
        /\ t.mode = "disabled" => t.stack = None
        /\ Now(Pop(vm), vm, t, SubSeq(vm.native, 1, Len(vm.native) - 1))
    BY <2>1, AfterFacts
  <2>3. Restores(t, t, Act(vm).saved.mode)
    BY <2>2 DEF Restores, Switched
  <2>4. (\E h : Good(CReturn(Pop(vm)), h)) /\ (\E h : Good(Do(Pop(vm), "raise"), h))
    BY <2>1, <2>2, <2>3, BackGood
  <2> QED BY <1>3, <2>4
<1> QED BY <1>1, <1>2, <1>3 DEF CallSafely

\* call_sandbox of modules/security.c.
LEMMA CallSandboxGood ==
  ASSUME NEW g, Good(vm, g), CallSandbox
  PROVE  \E h : Good(vm', h)
<1> DEFINE t == Cur(vm)
           u == [t EXCEPT !.mode = "rw"]
           x == Set(vm, u)
           v == [t EXCEPT !.mode = "disabled", !.stack = None]
           y == Set(vm, v)
           r == Pop(y)
<1>1. CASE Body("CallSandbox") /\ vm' = Do(vm, "raise")
  <2>1. State(vm, g) /\ Act(vm).k \in {"exec", "call"}
    BY <1>1, BodyFacts DEF Body
  <2> QED BY <1>1, <2>1, FailGood
<1>2. CASE /\ Body("CallSandbox")
           /\ \E h \in SandboxLua \cup {"bubblewrapped"} :
                vm' = PCall(x, "CallSandbox", SaveTaint(t), Logger, h)
  <2>1. PICK f2 \in SandboxLua \cup {"bubblewrapped"} :
               vm' = PCall(x, "CallSandbox", SaveTaint(t), Logger, f2)
    BY <1>2
  <2>2. vm.todo = "body" /\ Top(vm) = "CallSandbox"
    BY <1>2 DEF Body
  <2>3. State(vm, g) /\ t \in Thread /\ SaveTaint(t) \in Saved /\ SaveTaint(t).mode = t.mode
    BY <2>2, BodyFacts
  <2>4. Switches(u, t, "CallSandbox") /\ u.mode = "rw"
    BY <2>3 DEF Switches, Switched, Thread, Modes
  <2>5. Now(x, vm, u, vm.native)
    BY <2>3, StateFacts, NowSet
  <2>6. /\ Called(f2) /\ Suits(f2, u.mode) /\ HandlerSuits(Logger, u.mode) /\ Logger \in Functions
    BY <2>4, LuaSuits DEF HandlerSuits
  <2> DEFINE saved == SaveTaint(t)
  <2> HIDE DEF t, saved, u, x
  <2> QED BY <2>1, <2>2, <2>3, <2>4, <2>5, <2>6, PCallGood DEF t, saved
<1>3. CASE After("CallSandbox") /\ vm' = SandboxReturns(vm)
  <2>1. vm.todo \in {"ok", "failed"} /\ Act(vm).f = "CallSandbox"
    BY <1>3 DEF After
  <2>2. vm' \in {CReturn(r), Do(r, "raise")}
    BY <1>3 DEF SandboxReturns
  <2>3. /\ Act(vm).saved \in Saved /\ Suits("CallSandbox", Act(vm).saved.mode) /\ t \in Thread
        /\ Whole(vm)
    BY <2>1, AfterFacts
  <2>4. Act(vm).saved.mode = "disabled"
    BY <2>3 DEF Suits
  <2>5. Restores(v, t, Act(vm).saved.mode)
    BY <2>3, <2>4, TaintOfTaints DEF Restores, Thread, Modes
  <2>6. Now(y, vm, v, vm.native)
    BY <2>3, NowSet
  <2> HIDE DEF y, v
  <2>7. Now(r, vm, v, SubSeq(vm.native, 1, Len(vm.native) - 1))
    BY <2>6, NowCut
  <2> HIDE DEF r
  <2>8. (\E h : Good(CReturn(r), h)) /\ (\E h : Good(Do(r, "raise"), h))
    BY <2>1, <2>5, <2>7, BackGood
  <2> QED BY <2>2, <2>8
<1> QED BY <1>1, <1>2, <1>3 DEF CallSandbox

-----------------------------------------------------------------------------
(* Coroutines *)

\* The C stack of a state in which other threads than those on it differ.
LEMMA AsideShape ==
  ASSUME NEW s, NEW g, State(s, g), NEW now,
         \A i \in 1 .. Len(s.native) : now[s.native[i].th] = s.th[s.native[i].th]
  PROVE  Shape(now, s.native, g)
<1>1. /\ Len(s.native) = Len(g) /\ Len(g) \in Nat /\ 1 <= Len(g) /\ Act(s) = s.native[Len(g)]
      /\ Run(s) = s.native[Len(g)].th /\ Cur(s) = s.th[Run(s)] /\ Len(Cur(s).ci) \in Nat
      /\ g[Len(g)].b + Runs(Act(s)) <= Len(Cur(s).ci)
  BY StateFacts
<1>2. now[Run(s)] = Cur(s)
  BY <1>1
<1>3. Onward(s.th, now, s.native, g)
  BY <1>1, <1>2 DEF Onward
<1>4. Shape(s.th, s.native, g)
  BY DEF State
<1> QED BY <1>3, <1>4, ThreadShape

\* A coroutine is created.
LEMMA SleepState ==
  ASSUME NEW s, NEW g, State(s, g), NEW co \in Coroutines,
         NEW x \in Thread, Len(x.ci) < x.size, Asleep(x),
         NEW r, Aside(r, s, co, x, s.native)
  PROVE  State(r, g) /\ Act(r) = Act(s) /\ Run(r) = Run(s) /\ Cur(r) = Cur(s)
<1>1. /\ s.th \in [Threads -> Thread] /\ Len(s.native) = Len(g) /\ Len(g) \in Nat /\ 1 <= Len(g)
      /\ Run(s) = s.native[Len(g)].th /\ Run(s) \in Threads /\ s.native \in Seq(Activation)
      /\ Cur(s) = s.th[Run(s)] /\ Act(s) = s.native[Len(g)]
  BY StateFacts
<1>2. /\ \A i \in 1 .. Len(s.native) : s.native[i].th # co
      /\ Whole(r) /\ r.th = [s.th EXCEPT ![co] = x] /\ r.native = s.native
  BY DEF Aside
<1>3. \A t \in Threads : t # co => r.th[t] = s.th[t]
  BY <1>1, <1>2
<1>4. r.th[co] = x /\ co \in Threads
  BY <1>1, <1>2 DEF Threads
<1>5. Act(r) = Act(s) /\ Run(r) = Run(s) /\ Cur(r) = Cur(s)
  <2>1. Run(s) # co
    BY <1>1, <1>2
  <2> QED BY <1>1, <1>2, <1>3, <2>1 DEF Act, Run, Cur
<1>6. Shape(r.th, r.native, g)
  <2>1. \A i \in 1 .. Len(s.native) : s.native[i] \in Activation
    BY <1>1, ElementOfSeq
  <2>2. \A i \in 1 .. Len(s.native) : s.native[i].th \in Threads
    BY <2>1 DEF Activation
  <2>3. \A i \in 1 .. Len(s.native) : r.th[s.native[i].th] = s.th[s.native[i].th]
    BY <1>2, <1>3, <2>2
  <2> QED BY <1>2, <2>3, AsideShape
<1>7. Rested(r.th, r.native)
  <2> SUFFICES ASSUME NEW c \in Coroutines, \A i \in 1 .. Len(r.native) : r.native[i].th # c
               PROVE  Asleep(r.th[c])
    BY DEF Rested
  <2>1. c \in Threads
    BY DEF Threads
  <2>2. Asleep(s.th[c])
    BY <1>2 DEF State, Rested
  <2> QED BY <1>3, <1>4, <2>1, <2>2
<1>8. Typed(r)
  <2>1. r.th \in [Threads -> Thread]
    BY <1>1, <1>2
  <2>2. \A t \in Threads : Len(s.th[t].ci) < s.th[t].size
    BY DEF State, Typed
  <2>3. \A t \in Threads : Len(r.th[t].ci) < r.th[t].size
    BY <1>3, <1>4, <2>2
  <2> QED BY <1>2, <2>1, <2>3 DEF Typed
<1>9. Fine(Cur(r), Act(r), g[Len(g)])
  BY <1>5 DEF State
<1> QED BY <1>5, <1>6, <1>7, <1>8, <1>9 DEF State

\* A resume on top of the C stack starts with no CallInfos of its own.
LEMMA ResumeState ==
  ASSUME NEW s, NEW g, State(s, g), Act(s).k = "exec", Own(s, g) = 1, Cur(s).mode = "rw",
         NEW co \in Coroutines, NEW x, Awake(x),
         NEW a, a = [k |-> "resume", th |-> co],
         NEW r, Aside(r, s, co, x, Append(s.native, a))
  PROVE  \E h : /\ State(r, h) /\ h[Len(h)] = [m |-> "rw", c |-> x.nCcalls, b |-> 0]
                /\ Act(r) = a /\ Run(r) = co /\ Cur(r) = x
<1> DEFINE N == s.native
           M == Append(s.native, a)
           m == [m |-> "rw", c |-> x.nCcalls, b |-> 0]
           h == Append(g, m)
           n == Len(g)
           p == g[n]
           t == Cur(s)
<1>1. /\ s.th \in [Threads -> Thread] /\ Len(N) = n /\ n \in Nat /\ 1 <= n
      /\ Run(s) = N[n].th /\ Run(s) \in Threads /\ N \in Seq(Activation) /\ g \in Seq(Level)
      /\ t = s.th[Run(s)] /\ Act(s) = N[n] /\ p.b \in Nat /\ p.c \in Nat /\ Len(t.ci) \in Nat
  BY StateFacts
<1>2. /\ \A i \in 1 .. Len(N) : N[i].th # co
      /\ Whole(r) /\ r.th = [s.th EXCEPT ![co] = x] /\ r.native = M
  BY DEF Aside
<1>3. \A y \in Threads : y # co => r.th[y] = s.th[y]
  BY <1>1, <1>2
<1>4. r.th[co] = x /\ co \in Threads
  BY <1>1, <1>2 DEF Threads
<1>5. Shape(r.th, N, g)
  <2>1. \A i \in 1 .. Len(N) : N[i] \in Activation
    BY <1>1, ElementOfSeq
  <2>2. \A i \in 1 .. Len(N) : N[i].th \in Threads
    BY <2>1 DEF Activation
  <2>3. \A i \in 1 .. Len(N) : r.th[N[i].th] = s.th[N[i].th]
    BY <1>2, <1>3, <2>2
  <2> QED BY <2>3, AsideShape
<1>6. a \in Activation /\ a.k = "resume" /\ a.th = co /\ Runs(a) = 0
  BY <1>4 DEF Activation, Runs
<1>7. x.baseCcalls \in Nat /\ x.status = "ok" /\ x \in Thread /\ m \in Level
  <2>1. x \in Thread /\ x.status = "ok" /\ x.nCcalls = x.baseCcalls
    BY DEF Awake
  <2>2. x.baseCcalls \in Nat
    BY <2>1 DEF Thread
  <2> QED BY <2>1, <2>2 DEF Level, Modes
<1>8. Link(r.th, N[Len(N)], g[Len(N)], a, m)
  <2>1. r.th[Run(s)] = t /\ Run(s) # co
    BY <1>1, <1>2, <1>3
  <2>2. Fine(t, Act(s), p)
    BY DEF State
  <2>3. p.m = "rw" /\ t.nCcalls = p.c /\ HandlerSuits(t.errfunc, "rw")
    BY <2>2 DEF Fine
  <2>4. Len(t.ci) = p.b + Act(s).n + 1
    <3>1. Act(s).n \in Nat /\ Runs(Act(s)) = Act(s).n
      BY ExecFacts
    <3>2. Len(t.ci) - p.b - Act(s).n = 1
      BY <3>1 DEF Own
    <3>3. \A k, b, c \in Nat : k - b - c = 1 => k = b + c + 1
      OBVIOUS
    <3> HIDE DEF p, t
    <3> QED BY <1>1, <3>1, <3>2, <3>3
  <2>5. m.m = "rw" /\ m.c = x.baseCcalls /\ m.b = 0 /\ m = [m |-> "rw", c |-> x.baseCcalls, b |-> 0]
    BY DEF Awake
  <2> HIDE DEF m, p, t
  <2>6. LinkResume(r.th, Act(s), p, a, m)
    BY <1>1, <1>4, <1>6, <2>1, <2>3, <2>4, <2>5 DEF LinkResume
  <2> QED BY <1>1, <2>6 DEF Link, p
<1> HIDE DEF m
<1>9. /\ Shape(r.th, M, h) /\ Len(M) = n + 1 /\ Len(h) = n + 1
      /\ M[n + 1] = a /\ h[n + 1] = m
  <2>1. r.th[a.th].status = "ok" /\ r.th[a.th].baseCcalls \in Nat
    BY <1>4, <1>6, <1>7
  <2>2. a.k = "resume" => \A i \in 1 .. Len(N) : N[i].th # a.th
    BY <1>2, <1>6
  <2>3. /\ Shape(r.th, Append(N, a), Append(g, m))
        /\ Len(Append(N, a)) = Len(N) + 1 /\ Len(Append(g, m)) = Len(N) + 1
        /\ Append(N, a)[Len(N) + 1] = a /\ Append(g, m)[Len(N) + 1] = m
    <3> HIDE DEF N
    <3> QED BY <1>5, <1>6, <1>7, <1>8, <2>1, <2>2, PushShape
  <2> QED BY <1>1, <2>3
<1>10. \A i \in 1 .. n : M[i] = N[i]
  BY <1>1, <1>6, OneMore
<1> HIDE DEF M, h
<1>11. Act(r) = a /\ Run(r) = co /\ Cur(r) = x
  BY <1>2, <1>4, <1>6, <1>9 DEF Act, Run, Cur
<1>12. Rested(r.th, M)
  <2> SUFFICES ASSUME NEW c \in Coroutines, \A i \in 1 .. Len(M) : M[i].th # c
               PROVE  Asleep(r.th[c])
    BY DEF Rested
  <2>1. c \in Threads /\ c # co
    BY <1>1, <1>6, <1>9 DEF Threads
  <2>2. \A i \in 1 .. Len(N) : N[i].th # c
    BY <1>1, <1>9, <1>10
  <2>3. Asleep(s.th[c])
    BY <2>2 DEF State, Rested
  <2> QED BY <1>3, <2>1, <2>3
<1>13. Typed(r)
  <2>1. r.th \in [Threads -> Thread]
    BY <1>1, <1>2, <1>7
  <2>2. \A y \in Threads : Len(s.th[y].ci) < s.th[y].size
    BY DEF State, Typed
  <2>3. \A y \in Threads : Len(r.th[y].ci) < r.th[y].size
    BY <1>3, <1>4, <2>2 DEF Awake
  <2> QED BY <1>2, <2>1, <2>3 DEF Typed
<1>14. Fine(x, a, m)
  <2>1. Len(x.ci) \in Nat
    BY <1>7, LenProperties DEF Thread
  <2>2. m.b + Runs(a) <= Len(x.ci)
    BY <1>6, <2>1 DEF m
  <2> QED BY <1>6, <2>2 DEF Fine, Awake, m
<1>15. h[Len(h)] = m
  BY <1>9
<1>16. State(r, h)
  BY <1>2, <1>9, <1>11, <1>12, <1>13, <1>14, <1>15 DEF State
<1> QED BY <1>11, <1>15, <1>16 DEF m

-----------------------------------------------------------------------------
(* What a step leaves suspended *)

\* The thread that runs goes on.
LEMMA StepsSound ==
  ASSUME NEW s, Sound(s), NEW r, NEW u, NEW N, Steps(r, s, u, N)
  PROVE  Sound(r) /\ NoYield(r, s) /\ Run(r) = Run(s) /\ Cur(r) = u
<1>1. /\ Whole(r) /\ r.th = [s.th EXCEPT ![Run(s)] = u] /\ r.native = N
      /\ N \in Seq(Activation) /\ N[Len(N)].th = Run(s)
      /\ u \in Thread /\ Len(u.ci) < u.size /\ u.status = s.th[Run(s)].status
  BY DEF Steps, Now, Cur
<1>2. s.th \in [Threads -> Thread] /\ Run(s) \in Threads
  BY DEF Sound
<1>3. Run(r) = Run(s)
  BY <1>1 DEF Run, Act
<1>4. r.th \in [Threads -> Thread] /\ r.th[Run(s)] = u
  BY <1>1, <1>2
<1>5. Cur(r) = u
  BY <1>3, <1>4 DEF Cur
<1>6. NoYield(r, s)
  BY <1>1, <1>2 DEF NoYield
<1> QED BY <1>1, <1>2, <1>3, <1>4, <1>5, <1>6 DEF Sound

\* A good state is sound.
LEMMA StateSound ==
  ASSUME NEW s, NEW g, State(s, g)
  PROVE  Sound(s) /\ Cur(s) \in Thread /\ s.native[Len(s.native)].th = Run(s)
BY StateFacts DEF Sound

\* What is done next has nothing to do with it.
LEMMA DoNoYield ==
  ASSUME NEW s, Sound(s), NEW r, NoYield(s, r), NEW w
  PROVE  NoYield(Do(s, w), r)
BY DoFields DEF NoYield, Sound

\* luaD_precall suspends nothing.
LEMMA PrecallNoYield ==
  ASSUME NEW s, Sound(s), s.native[Len(s.native)].th = Run(s), NEW f \in Functions
  PROVE  NoYield(Precall(s, f), s)
<1> DEFINE p == PushFrame(s, f)
           n == Len(s.native)
<1>1. PICK u : /\ Now(p, s, u, s.native) /\ Kept(u, Cur(s))
               /\ \/ p.todo = "run" /\ Enters(u, Cur(s), f)
                  \/ p.todo \in {"raise", "throw"} /\ Keeps(u, Cur(s), Len(Cur(s).ci))
  BY PushFrameFields DEF Sound
<1> HIDE DEF p
<1>2. u \in Thread /\ Len(u.ci) < u.size /\ u.status = Cur(s).status
  BY <1>1 DEF Kept, Enters, Keeps
<1>3. Steps(p, s, u, s.native)
  BY <1>1, <1>2 DEF Steps, Sound
<1>4. Sound(p) /\ NoYield(p, s) /\ Run(p) = Run(s) /\ Cur(p) = u
  BY <1>3, StepsSound
<1>5. CASE Precall(s, f) \in {p, Do(p, "body")}
  BY <1>4, <1>5, DoNoYield
<1>6. CASE Precall(s, f) = Execute(p, f)
  <2> DEFINE v == Reenter(u, f)
             x == Set(p, v)
             N == [x.native EXCEPT ![Len(p.native)].n = @ + 1]
             a == [k |-> "exec", th |-> Run(p), n |-> 1]
  <2>1. v.status = u.status
    BY <1>2, ReenterKept DEF Kept
  <2>2. Execute(p, f) = IF Act(p).k = "exec" THEN [x EXCEPT !.native = N] ELSE Push(x, a)
    <3>1. Whole(x)
      BY <1>4, SetFields DEF Sound
    <3> HIDE DEF x
    <3>2. [x EXCEPT !.native[Len(p.native)].n = @ + 1] = [x EXCEPT !.native = N]
      BY <3>1 DEF Whole
    <3> QED BY <1>4, <3>2 DEF Execute, x
  <2>3. Whole(x) /\ x.th = [p.th EXCEPT ![Run(p)] = v]
    BY <1>4, SetFields DEF Sound
  <2> HIDE DEF x, N, v, a
  <2>4. [x EXCEPT !.native = N].th = x.th /\ Push(x, a).th = x.th
    BY <2>3, NativeFields, PushFields
  <2>5. Execute(p, f).th = [p.th EXCEPT ![Run(p)] = v]
    BY <2>2, <2>3, <2>4
  <2>6. p.th \in [Threads -> Thread] /\ Run(p) \in Threads /\ p.th[Run(p)] = u
    BY <1>4 DEF Sound, Cur
  <2>7. NoYield(Execute(p, f), p)
    BY <2>1, <2>5, <2>6 DEF NoYield
  <2> QED BY <1>4, <1>6, <2>7 DEF NoYield
<1> QED BY <1>5, <1>6 DEF Precall, p

\* luaD_call suspends nothing.
LEMMA LuaDCallNoYield ==
  ASSUME NEW s, Sound(s), Cur(s) \in Thread, NEW f \in Functions
  PROVE  NoYield(LuaDCall(s, f), s)
<1>1. PICK r, u, a, N : Deeper(s, f, r, u, a, N)
  BY LuaDCallParts DEF Sound
<1>2. Steps(r, s, u, N)
  BY <1>1 DEF Deeper, Steps, Sound
<1>3. Sound(r) /\ NoYield(r, s) /\ Run(r) = Run(s)
  BY <1>1, <1>2, StepsSound DEF Deeper
<1>4. r.native[Len(r.native)].th = Run(r)
  BY <1>1, <1>3 DEF Deeper, Now
<1>5. NoYield(Precall(r, f), s)
  <2>1. NoYield(Precall(r, f), r)
    BY <1>3, <1>4, PrecallNoYield
  <2> QED BY <1>3, <2>1 DEF NoYield
<1>6. NoYield(Do(r, "raise"), s) /\ NoYield(Do(r, "throw"), s)
  BY <1>3, DoNoYield
<1> QED BY <1>1, <1>5, <1>6 DEF Deeper

\* A protected call suspends nothing.
LEMMA PCallNoYield ==
  ASSUME NEW s, Sound(s), Cur(s) \in Thread, Cur(s).nCcalls \in Nat,
         NEW f \in CFunctions, NEW saved \in Saved, NEW e \in Functions \cup {None},
         NEW f2 \in Functions
  PROVE  NoYield(PCall(s, f, saved, e, f2), s)
<1> DEFINE t == Cur(s)
           a == [k |-> "c", th |-> Run(s), f |-> f, saved |-> saved]
           x == Push(s, a)
           b == [k |-> "try", th |-> Run(s), ci |-> Len(t.ci), nCcalls |-> t.nCcalls,
                 errfunc |-> t.errfunc]
           z == Push(x, b)
           v == [t EXCEPT !.errfunc = e]
           y == Set(z, v)
           M == Append(s.native, a)
           N == Append(M, b)
<1>1. a \in Activation /\ b \in Activation /\ a.th = Run(s) /\ b.th = Run(s)
  BY LenProperties DEF Activation, Sound, Thread
<1>2. M \in Seq(Activation) /\ N \in Seq(Activation) /\ M[Len(M)] = a /\ N[Len(N)] = b
  <2> HIDE DEF a, b
  <2>1. M \in Seq(Activation) /\ M[Len(M)] = a
    BY <1>1, OneMore DEF Sound
  <2> HIDE DEF M
  <2> QED BY <1>1, <2>1, OneMore
<1>3. v \in Thread /\ v.ci = t.ci /\ v.size = t.size /\ v.status = t.status
  BY DEF Thread
<1>4. PCall(s, f, saved, e, f2) = LuaDCall(y, f2)
  BY DEF PCall
<1> HIDE DEF a, b
<1>5. Now(y, s, v, N)
  <2>1. Whole(x) /\ x.th = s.th /\ x.native = M
    BY PushFields DEF Sound
  <2> HIDE DEF x, M
  <2>2. Whole(z) /\ z.th = s.th /\ z.native = N
    BY <2>1, PushFields
  <2> HIDE DEF z, N, v
  <2>3. Run(z) = Run(s)
    BY <1>1, <1>2, <2>2 DEF Run, Act
  <2>4. Whole(y) /\ y.th = [z.th EXCEPT ![Run(z)] = v] /\ y.native = z.native
    BY <2>2, SetFields
  <2> QED BY <2>2, <2>3, <2>4 DEF Now
<1> HIDE DEF x, z, v, y, M, N
<1>6. Steps(y, s, v, N)
  BY <1>1, <1>2, <1>3, <1>5 DEF Steps, Sound
<1>7. Sound(y) /\ NoYield(y, s) /\ Cur(y) = v
  BY <1>6, StepsSound
<1>8. NoYield(LuaDCall(y, f2), y)
  BY <1>3, <1>7, LuaDCallNoYield
<1> QED BY <1>4, <1>7, <1>8 DEF NoYield

\* A C function that returns suspends nothing.
LEMMA CReturnNoYield ==
  ASSUME NEW s, Sound(s), Len(Cur(s).ci) \in Nat, 1 <= Len(Cur(s).ci)
  PROVE  NoYield(CReturn(s), s)
<1> DEFINE n == Len(Cur(s).ci) - 1
           x == Unwind(s, n)
<1>1. n \in 0 .. Len(Cur(s).ci)
  OBVIOUS
<1>2. PICK u : Now(x, s, u, s.native) /\ Kept(u, Cur(s))
  <2> HIDE DEF n
  <2> QED BY <1>1, UnwindFields DEF Sound
<1>3. CReturn(s) = Do(x, IF Act(s).k = "exec" THEN "run" ELSE "returned")
  BY DEF CReturn
<1> HIDE DEF x
<1>4. CReturn(s).th = [s.th EXCEPT ![Run(s)] = u]
  BY <1>2, <1>3, DoFields DEF Now
<1>5. u.status = s.th[Run(s)].status /\ s.th \in [Threads -> Thread] /\ Run(s) \in Threads
  BY <1>2 DEF Kept, Cur, Sound
<1> QED BY <1>4, <1>5 DEF NoYield

\* The body of a C function has a CallInfo.
LEMMA OwnCalls ==
  ASSUME NEW s, NEW g, State(s, g), Own(s, g) = 1
  PROVE  Len(Cur(s).ci) \in Nat /\ 1 <= Len(Cur(s).ci) /\ Cur(s).nCcalls \in Nat
<1> DEFINE k == Len(Cur(s).ci)
           b == g[Len(g)].b
           c == Runs(Act(s))
<1>1. k \in Nat /\ b \in Nat /\ c \in Nat
  BY StateFacts
<1>2. k - b - c = 1
  BY DEF Own
<1>3. Cur(s).nCcalls = g[Len(g)].c /\ g[Len(g)].c \in Nat
  BY StateFacts DEF State, Fine
<1> HIDE DEF k, b, c
<1>4. 1 <= k
  BY <1>1, <1>2
<1> QED BY <1>1, <1>3, <1>4 DEF k

\* A coroutine that can be resumed is not on the C stack.
LEMMA SuspendedAside ==
  ASSUME NEW s, NEW g, State(s, g), NEW co \in Coroutines, Suspended(s, co)
  PROVE  (\A i \in 1 .. Len(s.native) : s.native[i].th # co) /\ Asleep(s.th[co])
<1> DEFINE N == s.native
           n == Len(g)
<1>1. Len(N) = n /\ n \in Nat /\ 1 <= n /\ Run(s) = N[n].th
  BY StateFacts
<1>2. co # Run(s) /\ (s.th[co].status = "yield" \/ s.th[co].ci = <<>>)
  BY DEF Suspended
<1>3. ASSUME NEW i \in 1 .. Len(N), N[i].th = co PROVE FALSE
  <2>1. s.th[N[i].th].status = "ok"
    BY DEF State, Shape, Rising
  <2>2. s.th[co].ci = <<>>
    BY <1>2, <1>3, <2>1
  <2>3. i < n /\ n \in 1 .. Len(N) /\ N[i].th # N[n].th
    BY <1>1, <1>2, <1>3
  <2>4. 1 <= Len(s.th[N[i].th].ci)
    BY <2>3 DEF State, Shape, Apart
  <2> QED BY <1>3, <2>2, <2>4
<1>4. Asleep(s.th[co])
  BY <1>3 DEF State, Rested
<1> QED BY <1>3, <1>4

\* The Lua functions of a coroutine that yielded run on.
LEMMA AgainGood ==
  ASSUME NEW s, NEW h, State(s, h), Act(s).k = "resume",
         h[Len(h)].m = "rw", h[Len(h)].b = 0,
         2 <= Len(Cur(s).ci), RunsIn(Cur(s).ci, 0, Len(Cur(s).ci) - 1, "rw"),
         NEW again, again = TakenUp(s)
  PROVE  \E e, u :
           LET r == Do(Set(again, Reenter(Cur(again), Top(again))), "run")
               n == Len(Cur(s).ci) - 1
           IN /\ Good(r, e) /\ Ahead(r, s, u, [k |-> "exec", th |-> Run(s), n |-> n])
              /\ Kept(u, Cur(s)) /\ Len(u.ci) = n /\ Reentered(u) /\ r.todo = "run"
<1> DEFINE t == Cur(s)
           n == Len(t.ci) - 1
           l == h[Len(h)]
           a == [k |-> "exec", th |-> Run(s), n |-> n]
           x == Unwind(s, n)
           f == Top(again)
<1>1. /\ Whole(s) /\ s.th \in [Threads -> Thread] /\ Run(s) \in Threads /\ t = s.th[Run(s)]
      /\ t \in Thread /\ Len(t.ci) < t.size /\ Len(t.ci) \in Nat /\ l \in Level
      /\ s.native \in Seq(Activation) /\ Len(h) \in Nat /\ 1 <= Len(h)
      /\ Len(s.native) = Len(h)
  BY StateFacts
<1>2. n \in Nat /\ 1 <= n /\ n \in 0 .. Len(t.ci)
  BY <1>1
<1>3. again = Push(x, a)
  BY DEF TakenUp
<1>4. RunsIn(t.ci, 0, n, "rw")
  OBVIOUS
<1>n. n = Len(t.ci) - 1
  OBVIOUS
<1>l. l = h[Len(h)] /\ l.m = "rw" /\ l.b = 0
  OBVIOUS
<1> HIDE DEF n, l, t
<1>5. PICK u : Now(x, s, u, s.native) /\ Kept(u, t) /\ Keeps(u, t, n)
  BY <1>1, <1>2, UnwindFields DEF t
<1>6. a \in Activation /\ a.k = "exec" /\ a.th = Run(s) /\ a.n = n /\ Runs(a) = n
  BY <1>1, <1>2 DEF Activation, Runs
<1> HIDE DEF x, a
<1>7. Ahead(again, s, u, a)
  <2>1. Whole(x) /\ x.native = s.native /\ x.th = [s.th EXCEPT ![Run(s)] = u]
    BY <1>5 DEF Now
  <2>2. Whole(Push(x, a)) /\ Push(x, a).th = x.th /\ Push(x, a).native = Append(x.native, a)
    <3>1. ASSUME NEW y, Whole(y)
          PROVE  Whole(Push(y, a)) /\ Push(y, a).th = y.th /\ Push(y, a).native = Append(y.native, a)
      BY <3>1, PushFields
    <3> QED BY <2>1, <3>1
  <2> QED BY <1>3, <2>1, <2>2 DEF Ahead, Now
<1>8. Run(again) = Run(s) /\ Cur(again) = u
  <2>1. /\ Len(Append(s.native, a)) = Len(s.native) + 1
        /\ Append(s.native, a)[Len(s.native) + 1] = a
    BY <1>1, <1>6, OneMore
  <2>2. again.native = Append(s.native, a) /\ again.th = [s.th EXCEPT ![Run(s)] = u]
    BY <1>7 DEF Ahead, Now
  <2>3. Act(again) = a
    BY <2>1, <2>2 DEF Act
  <2>4. Run(again) = Run(s)
    BY <1>6, <2>3 DEF Run
  <2>5. Cur(again) = again.th[Run(s)]
    BY <2>4 DEF Cur
  <2> QED BY <1>1, <2>2, <2>4, <2>5
<1> DEFINE v == Reenter(u, f)
           y == Set(again, v)
           r == Do(y, "run")
<1>9. u \in Thread /\ Len(u.ci) = n /\ Len(u.ci) < u.size
  BY <1>5 DEF Kept, Keeps
<1>10. Kept(v, u) /\ Keeps(v, u, Len(u.ci)) /\ v.ci = u.ci
  BY <1>9, ReenterKept
<1>24. Reentered(v)
  BY <1>8, <1>9, <1>10 DEF Reentered, Top
<1> HIDE DEF v, f
<1>11. /\ Kept(v, t) /\ Len(v.ci) = n /\ Len(v.ci) < v.size
       /\ \A i \in 1 .. n : v.ci[i] = t.ci[i]
  <2>1. Kept(v, t)
    BY <1>5, <1>10, KeptTrans
  <2> QED BY <1>5, <1>9, <1>10, <2>1 DEF Keeps
<1>12. Ahead(r, s, v, a) /\ r.todo = "run"
  <2>1. Now(again, s, u, Append(s.native, a))
    BY <1>7 DEF Ahead
  <2>2. Whole(again) /\ again.native = Append(s.native, a)
    BY <2>1 DEF Now
  <2>3. Now(y, again, v, again.native)
    BY <2>2, NowSet
  <2> HIDE DEF y
  <2>4. Now(y, s, v, Append(s.native, a))
    BY <1>8, <2>1, <2>2, <2>3, NowTrans
  <2>5. Now(r, s, v, Append(s.native, a)) /\ r.todo = "run"
    BY <2>4, NowDo
  <2> QED BY <2>5 DEF Ahead
<1>13. r = Do(Set(again, Reenter(Cur(again), Top(again))), "run")
  BY <1>8 DEF v, f
<1> HIDE DEF y, r
<1>14. Runs(Act(s)) = 0
  BY DEF Runs
<1>15. Onto(s, v, Act(s), l)
  <2>1. l.b + Runs(Act(s)) = 0
    BY <1>14, <1>l
  <2>2. 0 <= Len(v.ci) /\ v \in Thread
    BY <1>2, <1>11 DEF Kept
  <2> QED BY <1>11, <2>1, <2>2 DEF Onto, Goes, Kept, t
<1>16. Link(r.th, Act(s), l, a, l)
  <2>1. r.th[Run(s)] = v
    BY <1>1, <1>12 DEF Ahead, Now
  <2>2. \A i \in l.b + 1 .. l.b + a.n : v.ci[i] \in LuaFunctions /\ Suits(v.ci[i], l.m)
    BY <1>2, <1>4, <1>6, <1>11, <1>l DEF RunsIn
  <2>3. l.b + a.n <= Len(v.ci) /\ 1 <= a.n
    BY <1>2, <1>6, <1>11, <1>l
  <2>4. LinkExec(r.th, Act(s), l, a, l)
    BY <1>6, <2>1, <2>2, <2>3 DEF LinkExec, Run
  <2> QED BY <2>4 DEF Link
<1>17. Fine(v, a, l)
  <2>1. Fine(t, Act(s), l)
    BY <1>l DEF State, t
  <2>2. l.b + Runs(a) <= Len(v.ci)
    BY <1>2, <1>6, <1>11, <1>l
  <2> QED BY <1>6, <1>11, <2>1, <2>2 DEF Fine, Kept
<1> DEFINE e == Append(h, l)
<1>18. /\ State(r, e) /\ Len(e) = Len(h) + 1 /\ e[Len(h) + 1] = l /\ Act(r) = a /\ Cur(r) = v
  <2>1. Link(r.th, Act(s), h[Len(h)], a, l) /\ Onto(s, v, Act(s), h[Len(h)])
    BY <1>15, <1>16, <1>l
  <2> QED BY <1>1, <1>6, <1>12, <1>17, <2>1, PushState
<1>19. e[Len(e)] = l
  BY <1>18
<1> HIDE DEF e
<1>20. Own(r, e) = 0
  BY <1>2, <1>6, <1>11, <1>18, <1>19, <1>l DEF Own
<1>21. Good(r, e)
  BY <1>6, <1>12, <1>18, <1>20 DEF Good, Doing
<1>22. Ahead(r, s, v, [k |-> "exec", th |-> Run(s), n |-> Len(Cur(s).ci) - 1])
  BY <1>12 DEF a, n, t
<1>23. Kept(v, Cur(s)) /\ Len(v.ci) = Len(Cur(s).ci) - 1
  BY <1>11 DEF n, t
<1> QED BY <1>12, <1>13, <1>21, <1>22, <1>23, <1>24

\* Nor does a coroutine that runs on.
LEMMA AgainNoYield ==
  ASSUME NEW s, Sound(s), Cur(s) \in Thread, s.native[Len(s.native)].th = Run(s),
         Len(Cur(s).ci) \in Nat, 2 <= Len(Cur(s).ci), NEW again, again = TakenUp(s)
  PROVE  NoYield(Do(Set(again, Reenter(Cur(again), Top(again))), "run"), s)
<1> DEFINE n == Len(Cur(s).ci) - 1
           x == Unwind(s, n)
           a == [k |-> "exec", th |-> Run(s), n |-> n]
           N == Append(x.native, a)
           f == Top(again)
<1>1. n \in 0 .. Len(Cur(s).ci) /\ n \in Nat
  OBVIOUS
<1>2. PICK u : Now(x, s, u, s.native) /\ Kept(u, Cur(s)) /\ Keeps(u, Cur(s), n)
  <2> HIDE DEF n
  <2> QED BY <1>1, UnwindFields DEF Sound
<1>3. again = Push(x, a)
  BY DEF TakenUp
<1>4. a \in Activation /\ a.th = Run(s)
  BY <1>1 DEF Activation, Sound
<1> HIDE DEF n, a, x
<1>5. /\ Whole(again) /\ again.th = [s.th EXCEPT ![Run(s)] = u]
      /\ again.native = N /\ N[Len(N)] = a /\ N \in Seq(Activation)
  <2>1. Whole(x) /\ x.th = [s.th EXCEPT ![Run(s)] = u] /\ x.native = s.native
    BY <1>2 DEF Now
  <2>5. ASSUME NEW y, Whole(y), NEW b
        PROVE  Whole(Push(y, b)) /\ Push(y, b).th = y.th /\ Push(y, b).native = Append(y.native, b)
    BY <2>5, PushFields
  <2>2. Whole(again) /\ again.th = x.th /\ again.native = N
    BY <1>3, <2>1, <2>5
  <2>3. s.native \in Seq(Activation)
    BY DEF Sound
  <2>4. N[Len(N)] = a /\ N \in Seq(Activation)
    BY <1>4, <2>1, <2>3, OneMore
  <2> QED BY <2>1, <2>2, <2>4
<1>6. u \in Thread /\ Len(u.ci) < u.size /\ u.status = Cur(s).status
  BY <1>2 DEF Kept, Keeps
<1>7. Steps(again, s, u, N)
  BY <1>4, <1>5, <1>6 DEF Steps, Now
<1>8. Sound(again) /\ NoYield(again, s) /\ Cur(again) = u
  BY <1>7, StepsSound
<1> DEFINE v == Reenter(u, f)
           r == Set(again, v)
<1>9. v.status = u.status
  BY <1>6, ReenterKept DEF Kept
<1> HIDE DEF v
<1>10. Whole(r) /\ r.th = [again.th EXCEPT ![Run(again)] = v]
  BY <1>5, SetFields
<1>11. again.th \in [Threads -> Thread] /\ Run(again) \in Threads /\ again.th[Run(again)] = u
  BY <1>8 DEF Sound, Cur
<1> HIDE DEF r
<1>12. NoYield(r, again)
  BY <1>9, <1>10, <1>11 DEF NoYield
<1>13. NoYield(Do(r, "run"), again)
  <2>1. Do(r, "run").th = r.th
    BY <1>10, DoFields
  <2> QED BY <1>12, <2>1 DEF NoYield
<1>14. NoYield(Do(r, "run"), s)
  BY <1>8, <1>13 DEF NoYield
<1> QED BY <1>8, <1>14 DEF r, v

\* lua_resumefrom refuses, or runs the coroutine on from a state r that differs
\* from the last in what the coroutine is told.
LEMMA ResumeParts ==
  ASSUME NEW g, Good(vm, g), Resume
  PROVE  /\ State(vm, g) /\ Own(vm, g) = 1 /\ Act(vm).k = "exec"
         /\ \/ vm' \in {CReturn(vm), Do(vm, "raise")}
            \/ \E r, h :
                 /\ State(r, h) /\ Act(r).k = "resume" /\ h[Len(h)].m = "rw" /\ h[Len(h)].b = 0
                 /\ Alike(r, vm) /\ NoYield(r, vm) /\ Resumes(r, vm)
                 /\ \/ /\ 2 <= Len(Cur(r).ci) /\ RunsIn(Cur(r).ci, 0, Len(Cur(r).ci) - 1, "rw")
                       /\ \E q : /\ q = TakenUp(r)
                                 /\ vm' = Do(Set(q, Reenter(Cur(q), Top(q))), "run")
                       /\ vm.th[Run(r)].status = "yield"
                    \/ /\ \E f \in Functions : Ready(r, h, f) /\ vm' = Precall(r, f)
                       /\ vm.th[Run(r)].status = "ok" /\ Cur(r).ci = <<>>
<1> DEFINE from == Cur(vm)
           refused(how) == IF how = "resume" THEN CReturn(vm) ELSE Do(vm, "raise")
           th(co) == [TaintThread(vm.th[co], from) EXCEPT
                        !.nCcalls = from.nCcalls + 1, !.baseCcalls = from.nCcalls + 1,
                        !.status = "ok"]
           s(co) == Push([vm EXCEPT !.th[co] = th(co)], [k |-> "resume", th |-> co])
           yielded(co) == Unwind(s(co), Len(th(co).ci) - 1)
           again(co) == Push(yielded(co), [k |-> "exec", th |-> co, n |-> Len(th(co).ci) - 1])
<1>1. PICK how \in {"resume", "wrapped"}, co \in Coroutines :
        /\ vm.todo = "body" /\ Top(vm) = how
        /\ vm' = CASE ~Suspended(vm, co) -> refused(how)
                   [] Suspended(vm, co) /\ vm.th[co].nCcalls >= MaxCCalls -> refused(how)
                   [] Suspended(vm, co) /\ vm.th[co].nCcalls < MaxCCalls ->
                        IF vm.th[co].status = "yield"
                        THEN Do(Set(again(co), Reenter(Cur(again(co)), Top(again(co)))), "run")
                        ELSE Precall(s(co), th(co).start)
  BY DEF Resume, Body
<1>2. /\ State(vm, g) /\ Own(vm, g) = 1 /\ Act(vm).k = "exec" /\ from \in Thread
      /\ Suits(how, from.mode)
  BY <1>1, BodyFacts
<1>3. from.mode = "rw"
  BY <1>2 DEF Suits, CFunctions
<1>6. CASE vm' \notin {CReturn(vm), Do(vm, "raise")}
  <2> DEFINE y == vm.th[co]
             x == th(co)
             r == s(co)
             a == [k |-> "resume", th |-> co]
  <2>1. /\ Whole(vm) /\ vm.th \in [Threads -> Thread] /\ co \in Threads
        /\ Fine(from, Act(vm), g[Len(g)]) /\ g[Len(g)].c \in Nat
    BY <1>2, StateFacts DEF State, Threads
  <2>2. vm.th[co].nCcalls \in Int /\ MaxCCalls \in Int
    BY <2>1, CallsAssumption DEF Thread
  <2>3. /\ Suspended(vm, co)
        /\ vm' = IF y.status = "yield"
                 THEN Do(Set(again(co), Reenter(Cur(again(co)), Top(again(co)))), "run")
                 ELSE Precall(r, x.start)
    <3> DEFINE A == vm.th[co].nCcalls
               B == Suspended(vm, co)
               C == Do(Set(again(co), Reenter(Cur(again(co)), Top(again(co)))), "run")
               D == Precall(s(co), th(co).start)
    <3>1. refused(how) \in {CReturn(vm), Do(vm, "raise")}
      OBVIOUS
    <3>2. A < MaxCCalls \/ A >= MaxCCalls
      BY <2>2
    <3> HIDE DEF A, B, refused, C, D, y
    <3>3. vm' = CASE ~B -> refused(how)
                  [] B /\ A >= MaxCCalls -> refused(how)
                  [] B /\ A < MaxCCalls -> IF y.status = "yield" THEN C ELSE D
      BY <1>1 DEF A, B, C, D, y
    <3>4. CASE ~B
      BY <1>6, <3>1, <3>3, <3>4
    <3>5. CASE B /\ A >= MaxCCalls
      <4>1. ~(A < MaxCCalls)
        BY <2>2, <3>5 DEF A
      <4>2. vm' = refused(how)
        BY <3>3, <3>5, <4>1
      <4> QED BY <1>6, <3>1, <4>2
    <3>6. CASE B /\ A < MaxCCalls
      <4>1. ~(A >= MaxCCalls)
        BY <2>2, <3>6 DEF A
      <4>2. vm' = IF y.status = "yield" THEN C ELSE D
        BY <3>3, <3>6, <4>1
      <4> QED BY <3>6, <4>2 DEF B, C, D
    <3> QED BY <3>2, <3>4, <3>5, <3>6
  <2>4. (\A i \in 1 .. Len(vm.native) : vm.native[i].th # co) /\ Asleep(y)
    BY <1>2, <2>3, SuspendedAside
  <2>5. y \in Thread /\ Len(y.ci) < y.size /\ from.nCcalls + 1 \in Nat
    BY <1>2, <2>1 DEF Fine, State, Typed
  <2>6. /\ x \in Thread /\ x.ci = y.ci /\ x.size = y.size /\ x.mode = "rw" /\ x.status = "ok"
        /\ x.nCcalls = from.nCcalls + 1 /\ x.baseCcalls = from.nCcalls + 1
        /\ x.errfunc = y.errfunc /\ x.start = y.start /\ x.stack = from.stack
    <3> DEFINE c == from.nCcalls + 1
               m == from.mode
               k == from.stack
               z == [y EXCEPT !.mode = m, !.stack = k]
    <3>1. x = [z EXCEPT !.nCcalls = c, !.baseCcalls = c, !.status = "ok"]
      BY DEF TaintThread
    <3>2. m = "rw" /\ k \in Taints /\ c \in Nat
      BY <1>2, <1>3, <2>5 DEF Thread
    <3> HIDE DEF c, m, k, x, y
    <3>3. /\ z \in Thread /\ z.ci = y.ci /\ z.size = y.size /\ z.mode = "rw"
          /\ z.errfunc = y.errfunc /\ z.start = y.start /\ z.stack = k
      BY <2>5, <3>2 DEF Thread, Modes
    <3> HIDE DEF z
    <3> DEFINE z1 == [z EXCEPT !.nCcalls = c]
               z2 == [z1 EXCEPT !.baseCcalls = c]
    <3>4. /\ z1 \in Thread /\ z1.ci = z.ci /\ z1.size = z.size /\ z1.mode = z.mode
          /\ z1.nCcalls = c /\ z1.errfunc = z.errfunc /\ z1.start = z.start
          /\ z1.stack = z.stack
      BY <3>2, <3>3 DEF Thread
    <3>5. x = [z2 EXCEPT !.status = "ok"]
      BY <3>1
    <3> HIDE DEF z1
    <3>6. /\ z2 \in Thread /\ z2.ci = z.ci /\ z2.size = z.size /\ z2.mode = z.mode
          /\ z2.nCcalls = c /\ z2.baseCcalls = c /\ z2.errfunc = z.errfunc /\ z2.start = z.start
          /\ z2.stack = z.stack
      BY <3>2, <3>4 DEF Thread
    <3> HIDE DEF z2
    <3>7. /\ x \in Thread /\ x.ci = z.ci /\ x.size = z.size /\ x.mode = z.mode /\ x.status = "ok"
          /\ x.nCcalls = c /\ x.baseCcalls = c /\ x.errfunc = z.errfunc /\ x.start = z.start
          /\ x.stack = z.stack
      BY <3>5, <3>6 DEF Thread
    <3> QED BY <3>3, <3>7 DEF c, k
  <2>7. \/ y.status = "yield"
        \/ y.status = "ok" /\ y.ci = <<>> /\ y.start # None
    BY <2>3 DEF Suspended
  <2> HIDE DEF x, y
  <2>8. Awake(x)
    BY <2>4, <2>5, <2>6, <2>7 DEF Awake, Asleep
  <2>9. Aside(r, vm, co, x, Append(vm.native, a)) /\ Quiet(r, vm)
    <3> DEFINE w == [vm EXCEPT !.th = [vm.th EXCEPT ![co] = x]]
    <3>1. Whole(w) /\ w.th = [vm.th EXCEPT ![co] = x] /\ w.native = vm.native
      BY <2>1 DEF Whole
    <3>2. r = Push(w, a)
      BY DEF x
    <3> HIDE DEF w, r, a
    <3>3. /\ Whole(Push(w, a)) /\ Push(w, a).th = w.th /\ Push(w, a).native = Append(w.native, a)
      BY <3>1, PushFields
    <3>4. Quiet(w, vm) /\ Quiet(Push(w, a), w)
      BY <2>1, <3>1, QuietFields DEF w, Quiet, Whole
    <3> QED BY <2>4, <3>1, <3>2, <3>3, <3>4 DEF Aside, Quiet
  <2>10. again(co) = Push(Unwind(r, Len(x.ci) - 1), [k |-> "exec", th |-> co, n |-> Len(x.ci) - 1])
    BY DEF x
  <2> DEFINE q == again(co)
  <2> HIDE DEF r, q
  <2>12. vm' = IF y.status = "yield" THEN Do(Set(q, Reenter(Cur(q), Top(q))), "run")
               ELSE Precall(r, x.start)
    BY <2>3 DEF q
  <2>13. q = Push(Unwind(r, Len(x.ci) - 1), [k |-> "exec", th |-> co, n |-> Len(x.ci) - 1])
    BY <2>10 DEF q
  <2>14. PICK h : /\ State(r, h) /\ h[Len(h)] = [m |-> "rw", c |-> x.nCcalls, b |-> 0]
                  /\ Act(r) = a /\ Run(r) = co /\ Cur(r) = x
    BY <1>2, <1>3, <2>8, <2>9, ResumeState
  <2>15. Act(r).k = "resume" /\ h[Len(h)].m = "rw" /\ h[Len(h)].b = 0 /\ Runs(Act(r)) = 0
    BY <2>14 DEF Runs
  <2>18. Alike(r, vm) /\ NoYield(r, vm)
    <3>1. r.th = [vm.th EXCEPT ![co] = x]
      BY <2>9 DEF Aside
    <3> QED BY <2>1, <2>6, <2>9, <3>1 DEF NoYield, Alike, y
  <2>19. Resumes(r, vm)
    BY <2>6, <2>9, <2>14 DEF Resumes, y, a
  <2>16. CASE y.status = "yield"
    <3>1. /\ 2 <= Len(x.ci)
          /\ \A i \in 1 .. Len(x.ci) - 1 : x.ci[i] \in LuaFunctions /\ Suits(x.ci[i], "rw")
      BY <2>4, <2>6, <2>16 DEF Asleep
    <3>2. Len(x.ci) \in Nat
      BY <2>6, LenProperties DEF Thread
    <3>3. RunsIn(x.ci, 0, Len(x.ci) - 1, "rw")
      BY <3>1, <3>2 DEF RunsIn
    <3>4. 2 <= Len(Cur(r).ci) /\ RunsIn(Cur(r).ci, 0, Len(Cur(r).ci) - 1, "rw")
      BY <2>14, <3>1, <3>3
    <3>5. q = TakenUp(r)
      BY <2>13, <2>14 DEF TakenUp
    <3>6. vm' = Do(Set(q, Reenter(Cur(q), Top(q))), "run")
      BY <2>12, <2>16
    <3>7. vm.th[Run(r)].status = "yield"
      BY <2>14, <2>16 DEF y
    <3> QED BY <1>2, <2>14, <2>15, <2>18, <2>19, <3>4, <3>5, <3>6, <3>7
  <2>17. CASE y.status # "yield"
    <3>1. x.ci = <<>> /\ x.start \in SandboxLua
      BY <2>4, <2>6, <2>7, <2>17 DEF Asleep
    <3>2. Own(r, h) = 0
      BY <2>14, <2>15, <3>1 DEF Own
    <3>3. x.start \in Functions /\ Suits(x.start, "rw") /\ x.start \notin CFunctions
      BY <3>1, LuaSuits, NamesAssumption DEF Functions, LuaFunctions
    <3>4. Ready(r, h, x.start)
      BY <2>14, <2>15, <3>2, <3>3 DEF Ready
    <3>5. vm' = Precall(r, x.start)
      BY <2>12, <2>17
    <3>6. vm.th[Run(r)].status = "ok" /\ Cur(r).ci = <<>>
      BY <2>7, <2>14, <2>17, <3>1 DEF y
    <3> QED BY <1>2, <2>14, <2>15, <2>18, <2>19, <3>3, <3>4, <3>5, <3>6
  <2> QED BY <2>16, <2>17
<1> QED BY <1>2, <1>6

\* lua_resumefrom, in a good state.
LEMMA ResumeGood ==
  ASSUME NEW g, Good(vm, g), Resume
  PROVE  (\E h : Good(vm', h)) /\ NoYield(vm', vm)
<1>1. State(vm, g) /\ Own(vm, g) = 1 /\ Act(vm).k = "exec"
  BY ResumeParts
<1>2. CASE vm' \in {CReturn(vm), Do(vm, "raise")}
  <2>1. Sound(vm) /\ NoYield(vm, vm)
    BY <1>1, StateSound DEF NoYield
  <2>2. Len(Cur(vm).ci) \in Nat /\ 1 <= Len(Cur(vm).ci)
    BY <1>1, OwnCalls
  <2>3. NoYield(CReturn(vm), vm) /\ NoYield(Do(vm, "raise"), vm)
    BY <2>1, <2>2, CReturnNoYield, DoNoYield
  <2>4. Good(CReturn(vm), g) /\ Good(Do(vm, "raise"), g)
    BY <1>1, CReturnGood, FailGood
  <2> QED BY <1>2, <2>3, <2>4
<1>3. CASE vm' \notin {CReturn(vm), Do(vm, "raise")}
  <2>1. PICK r, h :
          /\ State(r, h) /\ Act(r).k = "resume" /\ h[Len(h)].m = "rw" /\ h[Len(h)].b = 0
          /\ Alike(r, vm) /\ NoYield(r, vm)
          /\ \/ /\ 2 <= Len(Cur(r).ci) /\ RunsIn(Cur(r).ci, 0, Len(Cur(r).ci) - 1, "rw")
                /\ \E q : /\ q = TakenUp(r)
                          /\ vm' = Do(Set(q, Reenter(Cur(q), Top(q))), "run")
             \/ \E f \in Functions : Ready(r, h, f) /\ vm' = Precall(r, f)
    BY <1>3, ResumeParts
  <2>2. Sound(r) /\ Cur(r) \in Thread /\ r.native[Len(r.native)].th = Run(r)
    BY <2>1, StateSound
  <2>3. CASE /\ 2 <= Len(Cur(r).ci) /\ RunsIn(Cur(r).ci, 0, Len(Cur(r).ci) - 1, "rw")
             /\ \E q : /\ q = TakenUp(r)
                       /\ vm' = Do(Set(q, Reenter(Cur(q), Top(q))), "run")
    <3>1. Len(Cur(r).ci) \in Nat
      BY <2>1, StateFacts
    <3>2. \E e : Good(vm', e)
      BY <2>1, <2>3, AgainGood
    <3>3. NoYield(vm', r)
      BY <2>2, <2>3, <3>1, AgainNoYield
    <3> QED BY <2>1, <3>2, <3>3 DEF NoYield
  <2>4. CASE \E f \in Functions : Ready(r, h, f) /\ vm' = Precall(r, f)
    <3>1. \E e : Good(vm', e)
      BY <2>4, PrecallGood
    <3>2. NoYield(vm', r)
      BY <2>2, <2>4, PrecallNoYield
    <3> QED BY <2>1, <3>1, <3>2 DEF NoYield
  <2> QED BY <2>1, <2>3, <2>4
<1> QED BY <1>2, <1>3

\* A resume stands on luaV_execute of another thread, on addon code.
LEMMA ResumeFacts ==
  ASSUME NEW s, NEW g, State(s, g), NEW i \in 1 .. Len(g), s.native[i].k = "resume"
  PROVE  /\ i \in 2 .. Len(g) /\ i - 1 \in 1 .. Len(g)
         /\ LinkResume(s.th, s.native[i - 1], g[i - 1], s.native[i], g[i])
         /\ s.native[i].th \in Coroutines /\ s.native[i - 1].th # s.native[i].th
         /\ s.native[i - 1].th \in Threads
         /\ g[i].m = "rw" /\ g[i].b = 0 /\ g[i - 1].b \in Nat /\ g[i - 1].c \in Nat
         /\ s.native[i - 1].k = "exec" /\ s.native[i - 1].n \in Nat
<1>1. i \in 2 .. Len(g)
  <2>1. i # 1
    BY BottomFacts
  <2>2. Len(g) \in Nat
    BY StateFacts
  <2> QED BY <2>1, <2>2
<1>2. /\ Link(s.th, s.native[i - 1], g[i - 1], s.native[i], g[i])
      /\ i - 1 \in 1 .. Len(g) /\ s.native[i - 1] \in Activation
      /\ g[i - 1].b \in Nat /\ g[i - 1].c \in Nat
  BY <1>1, LinkFacts
<1>3. LinkResume(s.th, s.native[i - 1], g[i - 1], s.native[i], g[i])
  BY <1>2 DEF Link, LinkC, LinkTry, LinkErrMsg, LinkCall, LinkExec
<1>4. /\ s.native[i].th \in Coroutines /\ s.native[i - 1].th # s.native[i].th
      /\ g[i].m = "rw" /\ g[i].b = 0 /\ s.native[i - 1].k = "exec"
  BY <1>3 DEF LinkResume
<1>5. s.native[i - 1].th \in Threads /\ s.native[i - 1].n \in Nat
  BY <1>2, <1>4 DEF Activation
<1> QED BY <1>1, <1>2, <1>3, <1>4, <1>5

\* The thread that resumed is where it was.
LEMMA ResumerState ==
  ASSUME NEW s, NEW g, State(s, g),
         NEW i \in 1 .. Len(g), s.native[i].k = "resume", s.native[i].th = Run(s), Within(s, i),
         NEW x \in Thread, Len(x.ci) < x.size, Asleep(x),
         NEW u \in Thread, u.mode = "rw",
         NEW r, Hands(r, s, i, x, u)
  PROVE  \E h : State(r, h) /\ Own(r, h) = 1 /\ Act(r).k = "exec"
<1> DEFINE N == s.native
           co == Run(s)
           j == i - 1
           from == N[j].th
           p == g[j]
           q == N[j]
           y == TaintThread(s.th[from], u)
           M == SubSeq(N, 1, j)
           e == SubSeq(g, 1, j)
<1>1. /\ s.th \in [Threads -> Thread] /\ N \in Seq(Activation) /\ g \in Seq(Level)
      /\ Len(N) = Len(g) /\ Len(g) \in Nat /\ co \in Threads
  BY StateFacts
<1>2. /\ i \in 2 .. Len(g) /\ j \in 1 .. Len(g) /\ LinkResume(s.th, q, p, N[i], g[i])
      /\ co \in Coroutines /\ from # co /\ from \in Threads /\ p.b \in Nat /\ p.c \in Nat
      /\ q.k = "exec" /\ q.n \in Nat
  BY ResumeFacts
<1>3. /\ p.m = "rw" /\ s.th[from].nCcalls = p.c /\ Len(s.th[from].ci) = p.b + q.n + 1
      /\ HandlerSuits(s.th[from].errfunc, "rw") /\ Runs(q) = q.n
  BY <1>2 DEF LinkResume, Runs
<1>4. Whole(r) /\ r.native = M /\ r.th = [s.th EXCEPT ![co] = x, ![from] = y]
  BY DEF Hands
<1>5. Shape(s.th, M, e) /\ Len(M) = j /\ Len(e) = j /\ M[j] = q /\ e[j] = p
  <2>1. Shape(s.th, N, g)
    BY DEF State
  <2> HIDE DEF N, j
  <2> QED BY <1>1, <1>2, <2>1, CutShape
<1>6. \A k \in 1 .. j : M[k] = N[k]
  <2>1. j \in 0 .. Len(N)
    BY <1>1, <1>2
  <2> HIDE DEF N, j
  <2> QED BY <1>1, <2>1, FirstOnes
<1>j. j = i - 1 /\ j \in 1 .. j /\ \A k \in 1 .. j : k \in 1 .. Len(N)
  BY <1>1, <1>2
<1> HIDE DEF M, e, j
<1>7. y \in Thread /\ y.ci = s.th[from].ci /\ y.size = s.th[from].size /\ y.mode = "rw"
      /\ y.nCcalls = s.th[from].nCcalls /\ y.baseCcalls = s.th[from].baseCcalls
      /\ y.errfunc = s.th[from].errfunc /\ y.status = s.th[from].status
  <2> DEFINE z == s.th[from]
             m == u.mode
             k == u.stack
  <2>1. z \in Thread /\ m \in Modes /\ k \in Taints /\ m = "rw"
    BY <1>1, <1>2 DEF Thread, Modes
  <2>2. y = [z EXCEPT !.mode = m, !.stack = k]
    BY DEF TaintThread
  <2> HIDE DEF y, z, m, k
  <2>3. y \in Thread /\ y.ci = z.ci /\ y.size = z.size /\ y.mode = "rw"
        /\ y.nCcalls = z.nCcalls /\ y.baseCcalls = z.baseCcalls
        /\ y.errfunc = z.errfunc /\ y.status = z.status
    BY <2>1, <2>2 DEF Thread
  <2> QED BY <2>3 DEF z
<1> HIDE DEF y, from, q, p
<1>8. /\ r.th[co] = x /\ r.th[from] = y
      /\ \A t \in Threads : t # co /\ t # from => r.th[t] = s.th[t]
  BY <1>1, <1>2, <1>4
<1>9. \A k \in 1 .. j : N[k].th # co
  <2> SUFFICES ASSUME NEW k \in 1 .. j, N[k].th = co PROVE FALSE
    OBVIOUS
  <2>1. k # j
    BY <1>2 DEF from
  <2>2. k \in 1 .. Len(N) /\ j \in 1 .. Len(N) /\ i \in 1 .. Len(N) /\ k < j /\ j <= i
    BY <1>1, <1>2, <1>j, <2>1
  <2>3. N[k].th # N[j].th
    BY <1>2 DEF from
  <2>4. N[k].th # N[i].th
    <3>1. Apart(s.th, N)
      BY DEF State, Shape
    <3> HIDE DEF N
    <3> QED BY <2>2, <2>3, <3>1 DEF Apart
  <2> QED BY <2>4
<1>10. \A k \in 1 .. j : M[k].th \in Threads
  <2>1. \A k \in 1 .. j : N[k] \in Activation
    BY <1>1, <1>j, ElementOfSeq
  <2> QED BY <1>6, <2>1 DEF Activation
<1>11. Act(r) = q /\ Run(r) = from /\ Cur(r) = y
  BY <1>4, <1>5, <1>8 DEF Act, Run, Cur, from, q
<1>12. Shape(r.th, M, e)
  <2>1. \A k \in 1 .. Len(M) : M[k].th # from => r.th[M[k].th] = s.th[M[k].th]
    BY <1>5, <1>6, <1>8, <1>9, <1>10
  <2>2. Len(y.ci) \in Nat
    BY <1>7, LenProperties DEF Thread
  <2> DEFINE d == p.b + Runs(q)
  <2>3. d <= Len(y.ci) /\ \A k \in 1 .. d : y.ci[k] = s.th[from].ci[k]
    BY <1>2, <1>3, <1>7
  <2>4. d = e[Len(M)].b + Runs(M[Len(M)]) /\ from = M[Len(M)].th
    BY <1>5 DEF from, q
  <2>5. Onward(s.th, r.th, M, e)
    <3> HIDE DEF d, N
    <3> QED BY <1>5, <1>7, <1>8, <2>1, <2>2, <2>3, <2>4 DEF Onward
  <2> QED BY <1>5, <2>5, ThreadShape
<1>13. Rested(r.th, M)
  <2> SUFFICES ASSUME NEW c \in Coroutines, \A k \in 1 .. Len(M) : M[k].th # c
               PROVE  Asleep(r.th[c])
    BY DEF Rested
  <2>1. CASE c = co
    BY <1>8, <2>1
  <2>2. CASE c # co
    <3>1. c # from /\ c \in Threads
      BY <1>5, <1>j DEF from, q, Threads
    <3>2. \A k \in 1 .. Len(N) : N[k].th # c
      <4> SUFFICES ASSUME NEW k \in 1 .. Len(N) PROVE N[k].th # c
        OBVIOUS
      <4>1. k \in 1 .. j \/ k \in i .. Len(N)
        BY <1>1, <1>2, <1>j
      <4>2. CASE k \in 1 .. j
        BY <1>5, <1>6, <4>2
      <4>3. CASE k \in i .. Len(N)
        BY <2>2, <4>3 DEF Within
      <4> QED BY <4>1, <4>2, <4>3
    <3>3. Asleep(s.th[c])
      BY <3>2 DEF State, Rested
    <3> QED BY <1>8, <2>2, <3>1, <3>3
  <2> QED BY <2>1, <2>2
<1>14. Typed(r)
  <2>1. r.th \in [Threads -> Thread]
    BY <1>1, <1>4, <1>7
  <2>2. \A t \in Threads : Len(s.th[t].ci) < s.th[t].size
    BY DEF State, Typed
  <2>3. \A t \in Threads : Len(r.th[t].ci) < r.th[t].size
    BY <1>2, <1>7, <1>8, <2>2
  <2> QED BY <1>4, <2>1, <2>3 DEF Typed
<1>15. Fine(y, q, p)
  <2>1. p.b + Runs(q) <= Len(y.ci)
    BY <1>2, <1>3, <1>7
  <2> QED BY <1>2, <1>3, <1>7, <2>1 DEF Fine
<1>16. e[Len(e)] = p
  BY <1>5
<1>17. State(r, e)
  BY <1>4, <1>11, <1>12, <1>13, <1>14, <1>15, <1>16 DEF State
<1>18. Own(r, e) = 1
  <2>1. \A k, b, n \in Nat : k = b + n + 1 => k - b - n = 1
    OBVIOUS
  <2>2. Len(y.ci) = p.b + q.n + 1 /\ Len(y.ci) \in Nat
    BY <1>2, <1>3, <1>7
  <2> QED BY <1>2, <1>3, <1>11, <1>16, <2>1, <2>2 DEF Own
<1> QED BY <1>2, <1>11, <1>17, <1>18

\* The end of lua_resumefrom hands back to where the innermost resume is.
LEMMA BackFromHands ==
  ASSUME NEW s, NEW g, State(s, g), NEW z, NEW u, Now(z, s, u, s.native),
         Catcher(s) \in 1 .. Len(g), s.native[Catcher(s)].k = "resume",
         s.native[Catcher(s)].th = Run(s),
         NEW th, NEW x, x = [th EXCEPT !.nCcalls = @ - 1]
  PROVE  Hands(BackFrom(z, Run(s), Resumer(s), th), s, Catcher(s), x, u)
<1> DEFINE i == Catcher(s)
           co == Run(s)
           from == Resumer(s)
           s1 == [z EXCEPT !.th[co] = x, !.th[from] = TaintThread(@, z.th[co])]
           r == [s1 EXCEPT !.native = SubSeq(z.native, 1, i - 1)]
<1>1. Whole(z) /\ z.th = [s.th EXCEPT ![co] = u] /\ z.native = s.native
  BY DEF Now
<1>2. s.th \in [Threads -> Thread] /\ co \in Threads
  BY StateFacts
<1>3. from = s.native[i - 1].th /\ from # co /\ from \in Threads
  BY ResumeFacts DEF Resumer
<1>4. Catcher(z) = i
  BY <1>1 DEF Catcher
<1>5. BackFrom(z, co, from, th) = r
  BY <1>1, <1>4 DEF BackFrom
<1> HIDE DEF i, from, co
<1> DEFINE B == [z.th EXCEPT ![co] = x, ![from] = TaintThread(z.th[from], z.th[co])]
<1>6. s1 = [z EXCEPT !.th = B]
  OBVIOUS
<1>7. B = [s.th EXCEPT ![co] = x, ![from] = TaintThread(s.th[from], u)]
  <2>1. z.th[co] = u /\ z.th[from] = s.th[from]
    BY <1>1, <1>2, <1>3
  <2> DEFINE k == TaintThread(s.th[from], u)
  <2>2. B = [z.th EXCEPT ![co] = x, ![from] = k]
    BY <2>1
  <2> HIDE DEF B, k
  <2>3. B = [s.th EXCEPT ![co] = x, ![from] = k]
    BY <1>1, <1>2, <1>3, <2>2
  <2> QED BY <2>3 DEF k
<1> HIDE DEF B, s1
<1>8. Whole(s1) /\ s1.th = B /\ s1.native = z.native
  BY <1>1, <1>6 DEF Whole
<1>9. Whole(r) /\ r.th = B /\ r.native = SubSeq(s.native, 1, i - 1)
  <2> DEFINE M == SubSeq(z.native, 1, i - 1)
  <2>1. r = [s1 EXCEPT !.native = M] /\ M = SubSeq(s.native, 1, i - 1)
    BY <1>1
  <2> HIDE DEF M, r
  <2>2. Whole(r) /\ r.th = s1.th /\ r.native = M
    BY <1>8, <2>1 DEF Whole
  <2> QED BY <1>8, <2>1, <2>2
<1> HIDE DEF r
<1>10. Hands(r, s, i, x, u)
  BY <1>3, <1>7, <1>9 DEF Hands, co
<1> QED BY <1>5, <1>10 DEF i, co, from

\* When lua_yield finds no C call in between, only luaV_execute and the resume
\* stand on the C stack above the resumer.
LEMMA YieldFacts ==
  ASSUME NEW s, NEW g, Good(s, g), s.todo = "body", Top(s) = "yield",
         ~(Cur(s).nCcalls > Cur(s).baseCcalls)
  PROVE  /\ Act(s).k = "exec" /\ Len(g) - 1 \in 1 .. Len(g)
         /\ s.native[Len(g) - 1].k = "resume" /\ s.native[Len(g) - 1].th = Run(s)
         /\ Catcher(s) = Len(g) - 1 /\ Within(s, Len(g) - 1)
         /\ Act(s).n \in Nat /\ 1 <= Act(s).n /\ Len(Cur(s).ci) = Act(s).n + 1
         /\ RunsIn(Cur(s).ci, 0, Act(s).n, "rw") /\ HandlerSuits(Cur(s).errfunc, "rw")
         /\ Cur(s).mode = "rw"
<1> DEFINE n == Len(g)
           j == n - 1
           N == s.native
           t == Cur(s)
           l == g[n]
<1>1. /\ State(s, g) /\ Own(s, g) = 1 /\ Act(s).k \in {"exec", "call"} /\ t.mode = l.m
      /\ Suits("yield", t.mode)
  BY BodyFacts
<1>2. /\ Len(N) = n /\ n \in Nat /\ 1 <= n /\ Act(s) = N[n] /\ t.baseCcalls \in Nat
      /\ l.b \in Nat /\ l.c \in Nat /\ Runs(Act(s)) \in Nat /\ Len(t.ci) \in Nat
      /\ t.baseCcalls <= l.c /\ (Act(s).k = "call" => t.baseCcalls < l.c)
      /\ Cur(s) = s.th[Run(s)]
  BY <1>1, StateFacts
<1>3. Fine(t, Act(s), l)
  BY <1>1 DEF State
<1>4. t.mode = "rw" /\ t.nCcalls = l.c
  BY <1>1, <1>3 DEF Suits, Fine, CFunctions
<1>5. Act(s).k = "exec"
  BY <1>1, <1>2, <1>4
<1>6. /\ j \in 1 .. n /\ N[j].k \in {"call", "resume"} /\ N[j].th = Run(s) /\ g[j] = l
      /\ Act(s).n \in Nat /\ 1 <= Act(s).n /\ Runs(Act(s)) = Act(s).n /\ Within(s, j)
      /\ RunsIn(t.ci, l.b, Act(s).n, l.m)
  BY <1>1, <1>5, ExecFacts
<1>j. j = n - 1
  OBVIOUS
<1> HIDE DEF j
<1>7. N[j].k = "resume"
  <2>1. N[j].k = "call" => s.th[N[j].th].baseCcalls < g[j].c
    BY <1>1, <1>2, <1>6 DEF State, Shape, Rising
  <2> HIDE DEF N
  <2> QED BY <1>2, <1>4, <1>6, <2>1
<1>8. l.b = 0 /\ l.m = "rw"
  BY <1>1, <1>6, <1>7, ResumeFacts
<1>9. Len(t.ci) = Act(s).n + 1
  <2>1. Len(t.ci) - 0 - Act(s).n = 1
    BY <1>1, <1>6, <1>8 DEF Own
  <2>2. \A k, b \in Nat : k - 0 - b = 1 => k = b + 1
    OBVIOUS
  <2> HIDE DEF t
  <2> QED BY <1>2, <1>6, <2>1, <2>2
<1>10. Catcher(s) = j
  <2> DEFINE S == {i \in 1 .. Len(N) : N[i].k \in {"try", "resume"}}
  <2>1. Max(S) \in S /\ \A x \in S : x <= Max(S)
    <3>1. S \in SUBSET (1 .. Len(N)) /\ j \in S /\ Len(N) \in Nat
      BY <1>2, <1>6, <1>7
    <3> HIDE DEF S
    <3> QED BY <3>1, Greatest
  <2>2. j \in S /\ Max(S) # n
    BY <1>2, <1>5, <1>6, <1>7, <2>1
  <2> DEFINE m == Max(S)
  <2>3. m \in 1 .. n /\ j <= m /\ m # n
    BY <1>2, <2>1, <2>2
  <2>4. Catcher(s) = m
    BY DEF Catcher
  <2> HIDE DEF m
  <2> QED BY <1>2, <1>j, <2>3, <2>4
<1>11. RunsIn(t.ci, 0, Act(s).n, "rw") /\ HandlerSuits(t.errfunc, "rw")
  BY <1>3, <1>5, <1>6, <1>8 DEF Fine
<1> QED BY <1>4, <1>5, <1>6, <1>7, <1>9, <1>10, <1>11 DEF j

-----------------------------------------------------------------------------
(* The calls that are counted *)

\* They are finitely many.
LEMMA AboveFinite ==
  ASSUME NEW t, Len(t.ci) \in Nat, NEW n \in Nat, NEW f
  PROVE  IsFiniteSet(Above(t, n, f)) /\ Cardinality(Above(t, n, f)) \in Nat
<1>1. IsFiniteSet(n + 1 .. Len(t.ci))
  BY FS_Interval
<1>2. IsFiniteSet(Above(t, n, f))
  BY <1>1, FS_Subset DEF Above
<1> QED BY <1>2, FS_CardinalityType

\* The same CallInfos, the same calls.
LEMMA TallySame ==
  ASSUME NEW th, NEW th2, \A t \in Threads : th2[t].ci = th[t].ci,
         NEW open, NEW lost, Tally(th, open, lost)
  PROVE  Tally(th2, open, lost)
<1>1. ASSUME NEW f PROVE CallsOf(th2, f) = CallsOf(th, f)
  BY DEF CallsOf
<1> QED BY <1>1 DEF Tally

\* A call more.
LEMMA TallyEnters ==
  ASSUME NEW th \in [Threads -> Thread], NEW t \in Threads, NEW u \in Thread,
         NEW f \in Functions, Enters(u, th[t], f),
         NEW open, NEW lost, Tally(th, open, lost)
  PROVE  Tally([th EXCEPT ![t] = u], [open EXCEPT ![f] = @ + 1], lost)
<1> DEFINE th2 == [th EXCEPT ![t] = u]
           n == Len(th[t].ci) + 1
           c == <<t, n>>
           open2 == [open EXCEPT ![f] = @ + 1]
<1>1. Len(th[t].ci) \in Nat /\ n \in Nat
  <2>1. th[t].ci \in Seq(Functions)
    BY DEF Thread
  <2> QED BY <2>1, LenProperties
<1>2. th2[t] = u /\ \A x \in Threads : x # t => th2[x] = th[x]
  OBVIOUS
<1>3. /\ Len(u.ci) = n /\ u.ci[n] = f /\ \A i \in 1 .. Len(th[t].ci) : u.ci[i] = th[t].ci[i]
  BY DEF Enters
<1>4. \A i \in 1 .. n : i # n => i \in 1 .. Len(th[t].ci)
  BY <1>1
<1>5. c \in Threads \X Nat /\ c[1] = t /\ c[2] = n
  BY <1>1
<1>6. c \notin CallsOf(th, f)
  BY <1>1, <1>5 DEF CallsOf
<1> HIDE DEF th2, n
<1>7. CallsOf(th2, f) = CallsOf(th, f) \cup {c}
  <2>1. ASSUME NEW x \in CallsOf(th2, f) PROVE x \in CallsOf(th, f) \cup {c}
    <3>1. x \in Threads \X Nat /\ x = <<x[1], x[2]>> /\ x[2] \in 1 .. Len(th2[x[1]].ci) /\ th2[x[1]].ci[x[2]] = f
      BY DEF CallsOf
    <3>2. CASE x[1] # t
      BY <1>2, <3>1, <3>2 DEF CallsOf
    <3>3. CASE x[1] = t /\ x[2] = n
      BY <3>1, <3>3
    <3>4. CASE x[1] = t /\ x[2] # n
      BY <1>2, <1>3, <1>4, <3>1, <3>4 DEF CallsOf
    <3> QED BY <3>2, <3>3, <3>4
  <2>2. ASSUME NEW x \in CallsOf(th, f) PROVE x \in CallsOf(th2, f)
    <3>1. x \in Threads \X Nat /\ x[2] \in 1 .. Len(th[x[1]].ci) /\ th[x[1]].ci[x[2]] = f
      BY DEF CallsOf
    <3>2. \A i \in 1 .. Len(th[t].ci) : i \in 1 .. n
      BY <1>1 DEF n
    <3> QED BY <1>2, <1>3, <3>1, <3>2 DEF CallsOf
  <2>3. c \in CallsOf(th2, f)
    <3>1. n \in 1 .. n
      BY <1>1 DEF n
    <3> QED BY <1>2, <1>3, <1>5, <3>1 DEF CallsOf
  <2> QED BY <2>1, <2>2, <2>3
<1>8. ASSUME NEW h \in Functions, h # f PROVE CallsOf(th2, h) = CallsOf(th, h)
  <2>1. ASSUME NEW x \in CallsOf(th2, h) PROVE x \in CallsOf(th, h)
    <3>1. x \in Threads \X Nat /\ x[2] \in 1 .. Len(th2[x[1]].ci) /\ th2[x[1]].ci[x[2]] = h
      BY DEF CallsOf
    <3> QED BY <1>2, <1>3, <1>4, <1>8, <3>1 DEF CallsOf
  <2>2. ASSUME NEW x \in CallsOf(th, h) PROVE x \in CallsOf(th2, h)
    <3>1. x \in Threads \X Nat /\ x[2] \in 1 .. Len(th[x[1]].ci) /\ th[x[1]].ci[x[2]] = h
      BY DEF CallsOf
    <3>2. \A i \in 1 .. Len(th[t].ci) : i \in 1 .. n
      BY <1>1 DEF n
    <3> QED BY <1>2, <1>3, <3>1, <3>2 DEF CallsOf
  <2> QED BY <2>1, <2>2
<1>9. /\ open \in [Functions -> Int] /\ lost \in [Functions -> Int]
      /\ \A h \in Functions : /\ IsFiniteSet(CallsOf(th, h))
                              /\ open[h] = lost[h] + Cardinality(CallsOf(th, h))
  BY DEF Tally
<1>10. /\ IsFiniteSet(CallsOf(th2, f))
       /\ Cardinality(CallsOf(th2, f)) = Cardinality(CallsOf(th, f)) + 1
  <2> DEFINE S == CallsOf(th, f)
  <2>1. IsFiniteSet(S) /\ c \notin S
    BY <1>6, <1>9
  <2> HIDE DEF S, c
  <2>2. IsFiniteSet(S \cup {c}) /\ Cardinality(S \cup {c}) = Cardinality(S) + 1
    BY <2>1, FS_AddElement
  <2> QED BY <1>7, <2>2 DEF S
<1>11. Cardinality(CallsOf(th, f)) \in Nat
  BY <1>9, FS_CardinalityType
<1>12. open2 \in [Functions -> Int] /\ open2[f] = open[f] + 1
       /\ \A h \in Functions : h # f => open2[h] = open[h]
  BY <1>9
<1> HIDE DEF open2, c
<1>13. ASSUME NEW h \in Functions
       PROVE  IsFiniteSet(CallsOf(th2, h)) /\ open2[h] = lost[h] + Cardinality(CallsOf(th2, h))
  <2>1. CASE h = f
    <3>1. open[f] \in Int /\ lost[f] \in Int /\ open[f] = lost[f] + Cardinality(CallsOf(th, f))
      BY <1>9
    <3> QED BY <1>10, <1>11, <1>12, <2>1, <3>1
  <2>2. CASE h # f
    BY <1>8, <1>9, <1>12, <2>2
  <2> QED BY <2>1, <2>2
<1>14. Tally(th2, open2, lost)
  BY <1>9, <1>12, <1>13 DEF Tally
<1> QED BY <1>14 DEF th2, open2

\* They are counted no more.
LEMMA CallsLeft ==
  ASSUME NEW th, NEW th2, NEW t \in Threads, NEW n, Leaves(th2, th, t, n),
         NEW f, IsFiniteSet(CallsOf(th, f))
  PROVE  /\ IsFiniteSet(CallsOf(th2, f))
         /\ Cardinality(CallsOf(th2, f))
              = Cardinality(CallsOf(th, f)) - Cardinality(Above(th[t], n, f))
         /\ Cardinality(CallsOf(th, f)) \in Nat /\ Cardinality(Above(th[t], n, f)) \in Nat
<1> DEFINE A == Above(th[t], n, f)
           B == {t} \X A
           S == CallsOf(th, f)
           u == th2[t]
           m == Len(th[t].ci)
<1>1. m \in Nat /\ n \in Nat /\ n <= m
  BY DEF Leaves
<1>2. /\ th2[t] = u /\ \A x \in Threads : x # t => th2[x] = th[x]
      /\ Len(u.ci) = n /\ \A i \in 1 .. n : u.ci[i] = th[t].ci[i]
  BY DEF Leaves
<1> HIDE DEF u
<1>3. \A i \in Nat : (i \in 1 .. n) <=> (i \in 1 .. m /\ i \notin n + 1 .. m)
  BY <1>1
<1>4. CallsOf(th2, f) = S \ B
  <2>1. ASSUME NEW x \in CallsOf(th2, f) PROVE x \in S \ B
    <3>1. x \in Threads \X Nat /\ x[2] \in 1 .. Len(th2[x[1]].ci) /\ th2[x[1]].ci[x[2]] = f
      BY DEF CallsOf
    <3>2. CASE x[1] # t
      BY <1>2, <3>1, <3>2 DEF CallsOf
    <3>3. CASE x[1] = t
      <4>1. x[2] \in Nat /\ x[2] \in 1 .. n /\ u.ci[x[2]] = f
        BY <1>2, <3>1, <3>3
      <4>3. x[2] \in 1 .. m /\ x[2] \notin n + 1 .. m
        BY <1>3, <4>1
      <4>2. x[2] \in 1 .. m /\ x[2] \notin A /\ th[t].ci[x[2]] = f
        BY <1>2, <4>1, <4>3 DEF Above
      <4> HIDE DEF A, m
      <4> QED BY <3>1, <3>3, <4>2 DEF CallsOf, m
    <3> QED BY <3>2, <3>3
  <2>2. ASSUME NEW x \in S, x \notin B PROVE x \in CallsOf(th2, f)
    <3>1. x \in Threads \X Nat /\ x[2] \in 1 .. Len(th[x[1]].ci) /\ th[x[1]].ci[x[2]] = f
          /\ x = <<x[1], x[2]>>
      BY DEF CallsOf
    <3>2. CASE x[1] # t
      BY <1>2, <3>1, <3>2 DEF CallsOf
    <3>3. CASE x[1] = t
      <4>1. x[2] \in Nat /\ x[2] \in 1 .. m /\ th[t].ci[x[2]] = f
        BY <3>1, <3>3
      <4>2. x[2] \notin A
        <5> HIDE DEF A
        <5> QED BY <2>2, <3>1, <3>3
      <4>3. x[2] \in 1 .. n
        BY <1>3, <4>1, <4>2 DEF Above
      <4> QED BY <1>2, <3>1, <3>3, <4>1, <4>3 DEF CallsOf
    <3> QED BY <3>2, <3>3
  <2> QED BY <2>1, <2>2
<1>5. B \subseteq S
  BY <1>1 DEF Above, CallsOf
<1>6. IsFiniteSet(A) /\ Cardinality(A) \in Nat
  BY <1>1, AboveFinite
<1>7. IsFiniteSet(B) /\ Cardinality(B) = Cardinality(A)
  <2> DEFINE b == [i \in A |-> <<t, i>>]
  <2> HIDE DEF A
  <2>1. b \in Bijection(A, B)
    <3>1. b \in [A -> B]
      OBVIOUS
    <3>2. \A x, y \in A : b[x] = b[y] => x = y
      OBVIOUS
    <3>3. \A y \in B : \E x \in A : b[x] = y
      OBVIOUS
    <3> HIDE DEF b, B
    <3> QED BY <3>1, <3>2, <3>3 DEF Bijection, Injection, Surjection, IsInjective
  <2> HIDE DEF b, B
  <2>2. ExistsBijection(A, B)
    BY <2>1 DEF ExistsBijection
  <2> QED BY <1>6, <2>2, FS_Bijection
<1>8. IsFiniteSet(S \ B) /\ Cardinality(S \ B) = Cardinality(S) - Cardinality(S \cap B)
  BY FS_Difference
<1>9. S \cap B = B
  BY <1>5
<1>10. Cardinality(S) \in Nat
  BY FS_CardinalityType
<1> HIDE DEF S, B, A
<1> QED BY <1>4, <1>6, <1>7, <1>8, <1>9, <1>10 DEF S, A

\* So the counts stay right.
LEMMA AlikeCounted ==
  ASSUME NEW r, NEW s, Alike(r, s), Counted(s)
  PROVE  Counted(r)
BY TallySame DEF Alike, Quiet, Counted

\* luaD_unwindci closes the calls above the n-th.
LEMMA UnwindCounted ==
  ASSUME NEW s, Sound(s), Counted(s), NEW n \in 0 .. Len(Cur(s).ci)
  PROVE  Counted(Unwind(s, n))
<1> DEFINE t == Cur(s)
           r == Unwind(s, n)
<1>1. /\ Whole(s) /\ s.th \in [Threads -> Thread] /\ Run(s) \in Threads /\ t = s.th[Run(s)]
      /\ Len(t.ci) < t.size
  BY DEF Sound, Cur
<1>2. CASE n = Len(t.ci)
  BY <1>2 DEF Unwind
<1>3. CASE n # Len(t.ci)
  <2>1. PICK u : Now(r, s, u, s.native) /\ Kept(u, t) /\ Keeps(u, t, n)
    BY <1>1, UnwindFields
  <2>2. r.th = [s.th EXCEPT ![Run(s)] = u]
    BY <2>1 DEF Now
  <2>3. u \in Thread /\ Len(u.ci) = n /\ \A i \in 1 .. n : u.ci[i] = t.ci[i]
    BY <2>1 DEF Kept, Keeps
  <2> DEFINE closed(f) == Cardinality({i \in n + 1 .. Len(t.ci) : t.ci[i] = f})
             open == [f \in Functions |-> s.nopencalls[f] - closed(f)]
  <2>4. r.nopencalls = open /\ r.lost = s.lost
    <3> HIDE DEF open
    <3>1. r = [s EXCEPT !.nopencalls = open,
                        !.th[Run(s)] = [t EXCEPT !.ci = SubSeq(@, 1, n), !.fixed = None]]
      BY <1>3 DEF Unwind, open
    <3> HIDE DEF r
    <3> QED BY <1>1, <3>1 DEF Whole
  <2> SUFFICES Counted(r)
    OBVIOUS
  <2> HIDE DEF r
  <2>5. /\ s.nopencalls \in [Functions -> Int] /\ s.lost \in [Functions -> Int]
        /\ \A f \in Functions : /\ IsFiniteSet(CallsOf(s.th, f))
                                /\ s.nopencalls[f] = s.lost[f] + Cardinality(CallsOf(s.th, f))
    BY DEF Counted, Tally
  <2>6. ASSUME NEW f \in Functions
        PROVE  /\ IsFiniteSet(CallsOf(r.th, f)) /\ closed(f) \in Nat
               /\ s.nopencalls[f] - closed(f) = s.lost[f] + Cardinality(CallsOf(r.th, f))
    <3>1. /\ IsFiniteSet(CallsOf(r.th, f))
          /\ Cardinality(CallsOf(r.th, f))
               = Cardinality(CallsOf(s.th, f)) - Cardinality(Above(t, n, f))
          /\ Cardinality(CallsOf(s.th, f)) \in Nat /\ Cardinality(Above(t, n, f)) \in Nat
      <4>1. Leaves(r.th, s.th, Run(s), n)
        <5>1. Len(t.ci) \in Nat
          BY <1>1, LenProperties DEF Thread
        <5> QED BY <1>1, <2>2, <2>3, <5>1 DEF Leaves
      <4>2. IsFiniteSet(CallsOf(s.th, f))
        BY <2>5
      <4> QED BY <1>1, <4>1, <4>2, CallsLeft
    <3>2. closed(f) = Cardinality(Above(t, n, f))
      BY DEF Above
    <3> HIDE DEF closed
    <3> QED BY <2>5, <3>1, <3>2
  <2> HIDE DEF closed
  <2>7. open \in [Functions -> Int]
    BY <2>5, <2>6
  <2> QED BY <2>4, <2>5, <2>6, <2>7 DEF Counted, Tally
<1> QED BY <1>2, <1>3

\* inc_ci opens one call of f, or none.
LEMMA PushFrameOpens ==
  ASSUME NEW s, Sound(s), NEW f \in Functions
  PROVE  \/ /\ PushFrame(s, f).todo = "run" /\ PushFrame(s, f).lost = s.lost
            /\ PushFrame(s, f).nopencalls = [s.nopencalls EXCEPT ![f] = @ + 1]
         \/ PushFrame(s, f).todo # "run" /\ Quiet(PushFrame(s, f), s)
<1> DEFINE r == PushFrame(s, f)
           t == [Cur(s) EXCEPT !.fixed = None]
           grown == [t EXCEPT !.size = 2 * @]
           pushed(u) == [Set(Do(s, "run"), [u EXCEPT !.ci = Append(@, f)]) EXCEPT !.nopencalls[f] = @ + 1]
<1>1. Whole(s) /\ Cur(s) \in Thread /\ Len(Cur(s).ci) < Cur(s).size
  BY DEF Sound, Cur
<1>2. Len(Cur(s).ci) \in Nat /\ Cur(s).size \in Nat
  <2>1. Cur(s).ci \in Seq(Functions) /\ Cur(s).size \in Nat
    BY <1>1 DEF Thread
  <2> QED BY <2>1, LenProperties
<1>3. t.ci = Cur(s).ci /\ t.size = Cur(s).size
  BY <1>1 DEF Thread
<1>4. r \in {pushed(t), pushed(grown), Do(Set(s, t), "throw"), Do(Set(s, grown), "raise")}
  <2>1. CASE Len(t.ci) < t.size - 1
    <3>1. r = pushed(t)
      BY <2>1 DEF PushFrame
    <3> QED BY <3>1
  <2>2. CASE Len(t.ci) = t.size - 1 /\ t.size > MaxCalls
    <3>1. r = Do(Set(s, t), "throw")
      BY <1>2, <1>3, <2>2, CallsAssumption DEF PushFrame
    <3> QED BY <3>1
  <2>3. CASE Len(t.ci) = t.size - 1 /\ t.size <= MaxCalls
    <3>1. r = IF grown.size > MaxCalls THEN Do(Set(s, grown), "raise") ELSE pushed(grown)
      BY <1>2, <1>3, <2>3, CallsAssumption DEF PushFrame
    <3> QED BY <3>1
  <2> QED BY <1>1, <1>2, <1>3, <2>1, <2>2, <2>3, CallsAssumption
<1>5. ASSUME NEW u
      PROVE  /\ pushed(u).todo = "run" /\ pushed(u).lost = s.lost
             /\ pushed(u).nopencalls = [s.nopencalls EXCEPT ![f] = @ + 1]
  <2> DEFINE x == Do(s, "run")
             v == [u EXCEPT !.ci = Append(@, f)]
             y == Set(x, v)
  <2>1. Whole(x) /\ x.todo = "run" /\ Quiet(x, s)
    BY <1>1, DoFields, QuietFields
  <2> HIDE DEF x, v
  <2>2. Whole(y) /\ y.todo = "run" /\ Quiet(y, x)
    BY <2>1, SetFields, QuietFields
  <2> HIDE DEF y
  <2>3. /\ [y EXCEPT !.nopencalls[f] = @ + 1].todo = "run"
        /\ [y EXCEPT !.nopencalls[f] = @ + 1].lost = s.lost
        /\ [y EXCEPT !.nopencalls[f] = @ + 1].nopencalls = [s.nopencalls EXCEPT ![f] = @ + 1]
    BY <2>1, <2>2 DEF Whole, Quiet
  <2> QED BY <2>3 DEF y, x, v
<1>6. ASSUME NEW u, NEW w \in {"throw", "raise"}
      PROVE  Do(Set(s, u), w).todo # "run" /\ Quiet(Do(Set(s, u), w), s)
  <2> DEFINE y == Set(s, u)
  <2>1. Whole(y) /\ Quiet(y, s)
    BY <1>1, SetFields, QuietFields
  <2> HIDE DEF y
  <2>2. Do(y, w).todo = w /\ Quiet(Do(y, w), y)
    BY <2>1, DoFields, QuietFields
  <2> QED BY <2>1, <2>2 DEF Quiet, y
<1> HIDE DEF r, t, grown, pushed
<1> QED BY <1>4, <1>5, <1>6 DEF r

\* So it keeps the counts.
LEMMA PushFrameCounted ==
  ASSUME NEW s, Sound(s), Counted(s), NEW f \in Functions
  PROVE  Counted(PushFrame(s, f))
<1> DEFINE p == PushFrame(s, f)
<1>1. /\ s.th \in [Threads -> Thread] /\ Run(s) \in Threads /\ Cur(s) = s.th[Run(s)]
  BY DEF Sound, Cur
<1>2. PICK u : /\ Now(p, s, u, s.native) /\ Kept(u, Cur(s))
               /\ \/ p.todo = "run" /\ Enters(u, Cur(s), f)
                  \/ p.todo \in {"raise", "throw"} /\ Keeps(u, Cur(s), Len(Cur(s).ci))
  BY PushFrameFields DEF Sound
<1>3. \/ /\ p.todo = "run" /\ p.lost = s.lost
         /\ p.nopencalls = [s.nopencalls EXCEPT ![f] = @ + 1]
      \/ p.todo # "run" /\ Quiet(p, s)
  BY PushFrameOpens
<1> SUFFICES Counted(p)
  OBVIOUS
<1> HIDE DEF p
<1>4. p.th = [s.th EXCEPT ![Run(s)] = u] /\ u \in Thread
  BY <1>2 DEF Now, Kept
<1>5. CASE p.todo = "run"
  <2>1. Enters(u, Cur(s), f) /\ p.lost = s.lost
        /\ p.nopencalls = [s.nopencalls EXCEPT ![f] = @ + 1]
    BY <1>2, <1>3, <1>5
  <2> QED BY <1>1, <1>4, <2>1, TallyEnters DEF Counted
<1>6. CASE p.todo # "run"
  <2>1. Keeps(u, Cur(s), Len(Cur(s).ci)) /\ Quiet(p, s)
    BY <1>2, <1>3, <1>6
  <2>2. u.ci \in Seq(Functions) /\ Cur(s).ci \in Seq(Functions)
    BY <1>1, <1>4 DEF Thread
  <2>3. u.ci = Cur(s).ci
    BY <2>1, <2>2, SeqEqual DEF Keeps
  <2>4. Alike(p, s)
    BY <1>1, <1>2, <2>1, <2>3, AlikeNow
  <2> QED BY <2>4, AlikeCounted
<1> QED BY <1>5, <1>6

\* luaV_execute opens no call.
LEMMA ExecuteCounted ==
  ASSUME NEW p, Sound(p), Counted(p), NEW f
  PROVE  Counted(Execute(p, f))
<1> DEFINE v == Reenter(Cur(p), f)
           x == Set(p, v)
           N == [x.native EXCEPT ![Len(p.native)].n = @ + 1]
           a == [k |-> "exec", th |-> Run(p), n |-> 1]
<1>1. /\ Whole(p) /\ p.th \in [Threads -> Thread] /\ Run(p) \in Threads /\ Cur(p) = p.th[Run(p)]
      /\ Len(Cur(p).ci) < Cur(p).size
  BY DEF Sound, Cur
<1>2. v.ci = Cur(p).ci
  BY <1>1, ReenterKept
<1> HIDE DEF v
<1>3. Whole(x) /\ x.th = [p.th EXCEPT ![Run(p)] = v] /\ Quiet(x, p)
  BY <1>1, SetFields, QuietFields
<1>4. Execute(p, f) = IF Act(p).k = "exec" THEN [x EXCEPT !.native = N] ELSE Push(x, a)
  <2> HIDE DEF x
  <2>1. [x EXCEPT !.native[Len(p.native)].n = @ + 1] = [x EXCEPT !.native = N]
    BY <1>3 DEF Whole
  <2> QED BY <2>1 DEF Execute, x, v
<1> HIDE DEF x, N, a
<1>5. /\ [x EXCEPT !.native = N].th = x.th /\ Push(x, a).th = x.th
      /\ Quiet([x EXCEPT !.native = N], x) /\ Quiet(Push(x, a), x)
  BY <1>3, NativeFields, PushFields, QuietFields
<1>6. Alike(x, p)
  BY <1>1, <1>2, <1>3 DEF Alike
<1>7. Alike(Execute(p, f), x)
  BY <1>4, <1>5 DEF Alike
<1> QED BY <1>6, <1>7, AlikeCounted

\* luaD_precall counts the call it makes.
LEMMA PrecallCounted ==
  ASSUME NEW s, Sound(s), s.native[Len(s.native)].th = Run(s), Counted(s), NEW f \in Functions
  PROVE  Counted(Precall(s, f))
<1> DEFINE p == PushFrame(s, f)
<1>1. PICK u : /\ Now(p, s, u, s.native) /\ Kept(u, Cur(s))
               /\ \/ p.todo = "run" /\ Enters(u, Cur(s), f)
                  \/ p.todo \in {"raise", "throw"} /\ Keeps(u, Cur(s), Len(Cur(s).ci))
  BY PushFrameFields DEF Sound
<1>2. Counted(p)
  BY PushFrameCounted
<1> HIDE DEF p
<1>3. u \in Thread /\ Len(u.ci) < u.size /\ u.status = Cur(s).status
  BY <1>1 DEF Kept, Enters, Keeps
<1>4. Steps(p, s, u, s.native)
  BY <1>1, <1>3 DEF Steps, Sound
<1>5. Sound(p)
  BY <1>4, StepsSound
<1>6. Counted(Do(p, "body"))
  BY <1>2, <1>5, AlikeDo, AlikeCounted DEF Sound
<1>7. Counted(Execute(p, f))
  BY <1>2, <1>5, ExecuteCounted
<1> QED BY <1>2, <1>6, <1>7 DEF Precall, p

\* luaD_call counts the call it makes.
LEMMA LuaDCallCounted ==
  ASSUME NEW s, Sound(s), Cur(s) \in Thread, Counted(s), NEW f \in Functions
  PROVE  Counted(LuaDCall(s, f))
<1>1. PICK r, u, a, N : Deeper(s, f, r, u, a, N)
  BY LuaDCallParts DEF Sound
<1>2. Steps(r, s, u, N)
  BY <1>1 DEF Deeper, Steps, Sound
<1>3. Sound(r) /\ Run(r) = Run(s)
  BY <1>1, <1>2, StepsSound DEF Deeper
<1>4. r.native[Len(r.native)].th = Run(r)
  BY <1>1, <1>3 DEF Deeper, Now
<1>5. Counted(r)
  BY <1>1, AlikeNow, AlikeCounted DEF Deeper, Sound
<1>6. Counted(Precall(r, f)) /\ Counted(Do(r, "raise")) /\ Counted(Do(r, "throw"))
  BY <1>3, <1>4, <1>5, PrecallCounted, AlikeDo, AlikeCounted DEF Sound
<1> QED BY <1>1, <1>6 DEF Deeper

\* A protected call counts the call it makes.
LEMMA PCallCounted ==
  ASSUME NEW s, Sound(s), Cur(s) \in Thread, Cur(s).nCcalls \in Nat, Counted(s),
         NEW f \in CFunctions, NEW saved \in Saved, NEW e \in Functions \cup {None},
         NEW f2 \in Functions
  PROVE  Counted(PCall(s, f, saved, e, f2))
<1> DEFINE t == Cur(s)
           a == [k |-> "c", th |-> Run(s), f |-> f, saved |-> saved]
           x == Push(s, a)
           b == [k |-> "try", th |-> Run(s), ci |-> Len(t.ci), nCcalls |-> t.nCcalls,
                 errfunc |-> t.errfunc]
           z == Push(x, b)
           v == [t EXCEPT !.errfunc = e]
           y == Set(z, v)
           M == Append(s.native, a)
           N == Append(M, b)
<1>1. a \in Activation /\ b \in Activation /\ a.th = Run(s) /\ b.th = Run(s)
  BY LenProperties DEF Activation, Sound, Thread
<1>2. M \in Seq(Activation) /\ N \in Seq(Activation) /\ M[Len(M)] = a /\ N[Len(N)] = b
  <2> HIDE DEF a, b
  <2>1. M \in Seq(Activation) /\ M[Len(M)] = a
    BY <1>1, OneMore DEF Sound
  <2> HIDE DEF M
  <2> QED BY <1>1, <2>1, OneMore
<1>3. v \in Thread /\ v.ci = t.ci /\ v.size = t.size /\ v.status = t.status
  BY DEF Thread
<1>4. PCall(s, f, saved, e, f2) = LuaDCall(y, f2)
  BY DEF PCall
<1> HIDE DEF a, b
<1>5. Now(y, s, v, N) /\ Quiet(y, s)
  <2>1. Whole(x) /\ x.th = s.th /\ x.native = M /\ Quiet(x, s)
    BY PushFields, QuietFields DEF Sound
  <2> HIDE DEF x, M
  <2>2. Whole(z) /\ z.th = s.th /\ z.native = N /\ Quiet(z, s)
    BY <2>1, PushFields, QuietFields DEF Quiet
  <2> HIDE DEF z, N, v
  <2>3. Run(z) = Run(s)
    BY <1>1, <1>2, <2>2 DEF Run, Act
  <2>4. Whole(y) /\ y.th = [z.th EXCEPT ![Run(z)] = v] /\ y.native = z.native /\ Quiet(y, z)
    BY <2>2, SetFields, QuietFields
  <2> QED BY <2>2, <2>3, <2>4 DEF Now, Quiet
<1> HIDE DEF x, z, v, y, M, N
<1>6. Steps(y, s, v, N)
  BY <1>1, <1>2, <1>3, <1>5 DEF Steps, Sound
<1>7. Sound(y) /\ Cur(y) = v
  BY <1>6, StepsSound
<1>8. Counted(y)
  <2> HIDE DEF t
  <2> QED BY <1>3, <1>5, AlikeNow, AlikeCounted DEF Sound, t
<1> QED BY <1>3, <1>4, <1>7, <1>8, LuaDCallCounted

\* A C function that returns closes its call.
LEMMA CReturnCounted ==
  ASSUME NEW s, Sound(s), Counted(s), Len(Cur(s).ci) \in Nat, 1 <= Len(Cur(s).ci)
  PROVE  Counted(CReturn(s))
<1> DEFINE n == Len(Cur(s).ci) - 1
           x == Unwind(s, n)
<1>1. n \in 0 .. Len(Cur(s).ci)
  OBVIOUS
<1> HIDE DEF n
<1>2. PICK u : Now(x, s, u, s.native)
  BY <1>1, UnwindFields DEF Sound
<1>3. Counted(x) /\ Whole(x)
  BY <1>1, <1>2, UnwindCounted DEF Now
<1>4. CReturn(s) = Do(x, IF Act(s).k = "exec" THEN "run" ELSE "returned")
  BY DEF CReturn, n
<1> HIDE DEF x
<1> QED BY <1>3, <1>4, AlikeDo, AlikeCounted

\* A coroutine that runs on opens no call.
LEMMA AgainCounted ==
  ASSUME NEW s, Sound(s), Cur(s) \in Thread, s.native[Len(s.native)].th = Run(s), Counted(s),
         Len(Cur(s).ci) \in Nat, 2 <= Len(Cur(s).ci), NEW again, again = TakenUp(s)
  PROVE  Counted(Do(Set(again, Reenter(Cur(again), Top(again))), "run"))
<1> DEFINE n == Len(Cur(s).ci) - 1
           x == Unwind(s, n)
           a == [k |-> "exec", th |-> Run(s), n |-> n]
           N == Append(x.native, a)
           f == Top(again)
<1>1. n \in 0 .. Len(Cur(s).ci) /\ n \in Nat
  OBVIOUS
<1>2. PICK u : Now(x, s, u, s.native) /\ Kept(u, Cur(s)) /\ Keeps(u, Cur(s), n)
  <2> HIDE DEF n
  <2> QED BY <1>1, UnwindFields DEF Sound
<1>3. again = Push(x, a)
  BY DEF TakenUp
<1>4. a \in Activation /\ a.th = Run(s)
  BY <1>1 DEF Activation, Sound
<1>5. Counted(x)
  <2> HIDE DEF n
  <2> QED BY <1>1, UnwindCounted
<1> HIDE DEF n, a, x
<1>6. /\ Whole(again) /\ again.th = x.th /\ Quiet(again, x)
      /\ again.native = N /\ N[Len(N)] = a /\ N \in Seq(Activation)
  <2>1. Whole(x) /\ x.native = s.native
    BY <1>2 DEF Now
  <2>2. /\ Whole(again) /\ again.th = x.th /\ again.native = N /\ Quiet(again, x)
    BY <1>3, <2>1, PushFields, QuietFields
  <2>3. N[Len(N)] = a /\ N \in Seq(Activation)
    BY <1>4, <2>1, OneMore DEF Sound
  <2> QED BY <2>2, <2>3
<1>7. u \in Thread /\ Len(u.ci) < u.size /\ u.status = Cur(s).status
  BY <1>2 DEF Kept, Keeps
<1>8. Steps(again, s, u, N)
  BY <1>2, <1>4, <1>6, <1>7 DEF Steps, Now
<1>9. Sound(again) /\ Cur(again) = u
  BY <1>8, StepsSound
<1>10. Counted(again)
  BY <1>5, <1>6, AlikeCounted DEF Alike
<1> DEFINE v == Reenter(u, f)
           r == Set(again, v)
<1>11. v.ci = u.ci
  BY <1>7, ReenterKept
<1> HIDE DEF v
<1>12. Now(r, again, v, again.native) /\ Quiet(r, again)
  BY <1>6, SetFields, QuietFields DEF Now
<1> HIDE DEF r
<1>13. Counted(r) /\ Whole(r)
  BY <1>9, <1>10, <1>11, <1>12, AlikeNow, AlikeCounted DEF Sound, Now
<1>14. Counted(Do(r, "run"))
  BY <1>13, AlikeDo, AlikeCounted
<1> QED BY <1>9, <1>14 DEF r, v

\* The way back from a resume touches no count.
LEMMA BackFromQuiet ==
  ASSUME NEW z, Whole(z), NEW co, NEW from, NEW th
  PROVE  Quiet(BackFrom(z, co, from, th), z)
<1> DEFINE B == [z.th EXCEPT ![co] = [th EXCEPT !.nCcalls = @ - 1],
                             ![from] = TaintThread(z.th[from], z.th[co])]
           s1 == [z EXCEPT !.th = B]
           M == SubSeq(z.native, 1, Catcher(z) - 1)
           r == [s1 EXCEPT !.native = M]
<1>1. BackFrom(z, co, from, th) = r
  <2>1. [z EXCEPT !.th[co] = [th EXCEPT !.nCcalls = @ - 1],
                  !.th[from] = TaintThread(@, z.th[co])] = s1
    OBVIOUS
  <2>2. s1.native = z.native
    <3> HIDE DEF B
    <3> QED BY DEF Whole
  <2> HIDE DEF s1
  <2> QED BY <2>1, <2>2 DEF BackFrom
<1> HIDE DEF B
<1>2. Whole(s1) /\ Quiet(s1, z)
  BY DEF Whole, Quiet
<1> HIDE DEF s1, M
<1>3. Quiet(r, s1)
  BY <1>2, QuietFields
<1> QED BY <1>1, <1>2, <1>3 DEF Quiet

\* Who resumed has the calls it had.
LEMMA HandsAlike ==
  ASSUME NEW s, NEW g, State(s, g), NEW i \in 1 .. Len(g), s.native[i].k = "resume",
         s.native[i].th = Run(s), NEW x, x.ci = Cur(s).ci, NEW u,
         NEW r, Hands(r, s, i, x, u), Quiet(r, s)
  PROVE  Alike(r, s)
<1> DEFINE from == s.native[i - 1].th
           y == TaintThread(s.th[from], u)
<1>1. s.th \in [Threads -> Thread] /\ Run(s) \in Threads /\ Cur(s) = s.th[Run(s)]
  BY StateFacts
<1>2. from # Run(s) /\ from \in Threads
  BY ResumeFacts
<1>3. y.ci = s.th[from].ci
  <2> DEFINE z == s.th[from]
  <2>1. z \in Thread
    BY <1>1, <1>2
  <2> HIDE DEF z
  <2> QED BY <2>1 DEF TaintThread, Thread, z
<1>4. r.th = [s.th EXCEPT ![Run(s)] = x, ![from] = y]
  BY DEF Hands
<1> HIDE DEF from, y
<1>5. \A t \in Threads : r.th[t].ci = s.th[t].ci
  BY <1>1, <1>2, <1>3, <1>4
<1> QED BY <1>5 DEF Alike

\* A C function returns, or raises an error.
LEMMA ReturnCounted ==
  ASSUME NEW s, NEW g, State(s, g), Own(s, g) = 1, Counted(s)
  PROVE  Counted(CReturn(s)) /\ \A w : Counted(Do(s, w))
<1>1. Sound(s) /\ Len(Cur(s).ci) \in Nat /\ 1 <= Len(Cur(s).ci)
  BY StateSound, OwnCalls
<1> QED BY <1>1, CReturnCounted, AlikeDo, AlikeCounted DEF Sound

\* One call less.
LEMMA TallyLeaves ==
  ASSUME NEW th, NEW th2, NEW t \in Threads,
         NEW n \in Nat, 1 <= n, Len(th[t].ci) = n, Leaves(th2, th, t, n - 1),
         NEW f \in Functions, th[t].ci[n] = f,
         NEW open, NEW lost, Tally(th, open, lost)
  PROVE  Tally(th2, [open EXCEPT ![f] = @ - 1], lost)
<1> DEFINE open2 == [open EXCEPT ![f] = @ - 1]
<1>1. /\ open \in [Functions -> Int] /\ lost \in [Functions -> Int]
      /\ \A h \in Functions : /\ IsFiniteSet(CallsOf(th, h))
                              /\ open[h] = lost[h] + Cardinality(CallsOf(th, h))
  BY DEF Tally
<1>2. ASSUME NEW h \in Functions
      PROVE  /\ IsFiniteSet(CallsOf(th2, h))
             /\ Cardinality(CallsOf(th2, h))
                  = Cardinality(CallsOf(th, h)) - Cardinality(Above(th[t], n - 1, h))
             /\ Cardinality(CallsOf(th, h)) \in Nat
  BY <1>1, CallsLeft
<1>3. \A h : Above(th[t], n - 1, h) = IF h = f THEN {n} ELSE {}
  <2>1. (n - 1) + 1 .. n = {n}
    OBVIOUS
  <2> QED BY <2>1 DEF Above
<1>4. Cardinality({n}) = 1 /\ Cardinality({}) = 0
  BY FS_Singleton, FS_EmptySet
<1>5. open2 \in [Functions -> Int] /\ open2[f] = open[f] - 1
      /\ \A h \in Functions : h # f => open2[h] = open[h]
  BY <1>1
<1> HIDE DEF open2
<1>6. ASSUME NEW h \in Functions
      PROVE  IsFiniteSet(CallsOf(th2, h)) /\ open2[h] = lost[h] + Cardinality(CallsOf(th2, h))
  <2>1. CASE h = f
    BY <1>1, <1>2, <1>3, <1>4, <1>5, <2>1
  <2>2. CASE h # f
    BY <1>1, <1>2, <1>3, <1>4, <1>5, <2>2
  <2> QED BY <2>1, <2>2
<1>7. Tally(th2, open2, lost)
  BY <1>1, <1>5, <1>6 DEF Tally
<1> QED BY <1>7 DEF open2

\* The calls of a thread that is gone are lost.
LEMMA TallyLost ==
  ASSUME NEW th \in [Threads -> Thread], NEW t \in Threads, NEW u \in Thread, u.ci = <<>>,
         NEW open, NEW lost, Tally(th, open, lost), NEW lost2,
         lost2 = [f \in Functions |->
                    lost[f] + Cardinality({i \in 1 .. Len(th[t].ci) : th[t].ci[i] = f})]
  PROVE  Tally([th EXCEPT ![t] = u], open, lost2)
<1> DEFINE th2 == [th EXCEPT ![t] = u]
<1>1. /\ open \in [Functions -> Int] /\ lost \in [Functions -> Int]
      /\ \A h \in Functions : /\ IsFiniteSet(CallsOf(th, h))
                              /\ open[h] = lost[h] + Cardinality(CallsOf(th, h))
  BY DEF Tally
<1>2. ASSUME NEW h \in Functions
      PROVE  /\ IsFiniteSet(CallsOf(th2, h))
             /\ Cardinality(CallsOf(th2, h))
                  = Cardinality(CallsOf(th, h)) - Cardinality(Above(th[t], 0, h))
             /\ Cardinality(CallsOf(th, h)) \in Nat /\ Cardinality(Above(th[t], 0, h)) \in Nat
  <2>1. Leaves(th2, th, t, 0)
    <3>1. th[t].ci \in Seq(Functions)
      BY DEF Thread
    <3> QED BY <3>1, LenProperties DEF Leaves
  <2>2. IsFiniteSet(CallsOf(th, h))
    BY <1>1
  <2> HIDE DEF th2
  <2> QED BY <2>1, <2>2, CallsLeft
<1>3. \A h : Above(th[t], 0, h) = {i \in 1 .. Len(th[t].ci) : th[t].ci[i] = h}
  BY DEF Above
<1> HIDE DEF th2
<1>4. \A h \in Functions : lost2[h] = lost[h] + Cardinality(Above(th[t], 0, h))
  BY <1>3
<1>5. lost2 \in [Functions -> Int]
  <2>1. \A h \in Functions : lost[h] + Cardinality(Above(th[t], 0, h)) \in Int
    BY <1>1, <1>2
  <2>2. lost2 = [h \in Functions |-> lost[h] + Cardinality(Above(th[t], 0, h))]
    BY <1>3
  <2> QED BY <2>1, <2>2
<1>6. ASSUME NEW h \in Functions
      PROVE  IsFiniteSet(CallsOf(th2, h)) /\ open[h] = lost2[h] + Cardinality(CallsOf(th2, h))
  BY <1>1, <1>2, <1>4
<1>7. Tally(th2, open, lost2)
  BY <1>1, <1>5, <1>6 DEF Tally
<1> QED BY <1>7 DEF th2

(***************************************************************************)
(* What taint sticks to                                                    *)
(***************************************************************************)

\* Another stack, with the same C functions above every call.
LEMMA SticksOn ==
  ASSUME NEW s, NEW r, NEW since, Sticks(s, since),
         Cur(s).stack # None => Cur(r).stack # None,
         \A u \in Threads, i \in Nat : Hot(r.th, r.native, since, u, i) =>
            \/ Shadow(r.native, u, i) = {} /\ Cur(r).stack # None
            \/ /\ Hot(s.th, s.native, since, u, i)
               /\ Shadow(r.native, u, i) = Shadow(s.native, u, i)
               /\ \A k \in Shadow(s.native, u, i) : r.native[k] = s.native[k]
  PROVE  Sticks(r, since)
<1> SUFFICES ASSUME NEW u \in Threads, NEW i \in Nat, Hot(r.th, r.native, since, u, i)
             PROVE  Tells(r.native, Shadow(r.native, u, i), Cur(r).stack)
  BY DEF Sticks
<1>1. CASE Shadow(r.native, u, i) = {} /\ Cur(r).stack # None
  BY <1>1 DEF Tells
<1>2. CASE /\ Hot(s.th, s.native, since, u, i)
           /\ Shadow(r.native, u, i) = Shadow(s.native, u, i)
           /\ \A k \in Shadow(s.native, u, i) : r.native[k] = s.native[k]
  <2>1. Tells(s.native, Shadow(s.native, u, i), Cur(s).stack)
    BY <1>2 DEF Sticks
  <2> QED BY <1>2, <2>1 DEF Tells
<1> QED BY <1>1, <1>2

\* So a call of another thread than x has the same C functions above it.
LEMMA ShadowAlong ==
  ASSUME NEW M, NEW N, Len(M) \in Nat, Len(N) \in Nat, NEW p, NEW x, Along(M, N, p, x),
         NEW u, u # x \/ x = N[p].th, NEW i,
         N[p].k = "c" /\ N[p].th = u =>
           (p < Len(N) => i <= N[p + 1].ci) /\ (p < Len(M) => i <= M[p + 1].ci)
  PROVE  Alongside(M, N, u, i)
<1>1. /\ p \in 1 .. Len(M) /\ p \in 1 .. Len(N)
      /\ \A k \in 1 .. p : M[k].th = N[k].th /\ M[k].k = N[k].k
      /\ \A k \in 1 .. p : N[k].k = "c" => M[k] = N[k]
      /\ \A k \in 1 .. p - 1 : N[k].k = "c" => M[k + 1] = N[k + 1]
  <2>1. p \in 1 .. Len(M) /\ p \in 1 .. Len(N) /\ \A k \in 1 .. p - 1 : M[k] = N[k]
    BY DEF Along
  <2>2. /\ M[p].th = N[p].th /\ M[p].k = N[p].k /\ (N[p].k = "c" => M[p] = N[p])
        /\ p # 1 /\ N[p - 1].k = "c" => M[p] = N[p]
    BY <2>1 DEF Along
  <2>3. ASSUME NEW k \in 1 .. p - 1, N[k].k = "c" PROVE M[k + 1] = N[k + 1]
    <3>1. CASE k = p - 1
      BY <2>1, <2>2, <2>3, <3>1
    <3>2. CASE k # p - 1
      BY <2>1, <3>2
    <3> QED BY <3>1, <3>2
  <2>4. \A k \in 1 .. p : k = p \/ k \in 1 .. p - 1
    BY <2>1
  <2> QED BY <2>1, <2>2, <2>3, <2>4
<1>2. /\ \A k \in p + 1 .. Len(M) : M[k].k # "c" /\ (M[k].th = u => N[p].th = u)
      /\ \A k \in p + 1 .. Len(N) : N[k].k # "c" /\ (N[k].th = u => N[p].th = u)
  BY DEF Along
<1>3. \A k \in 1 .. Len(M) : k \in 1 .. p \/ k \in p + 1 .. Len(M)
  BY <1>1
<1>4. \A k \in 1 .. Len(N) : k \in 1 .. p \/ k \in p + 1 .. Len(N)
  BY <1>1
<1>5. ASSUME NEW k \in 1 .. p
      PROVE  (\A j \in k .. Len(M) : M[j].th # u) <=> (\A j \in k .. Len(N) : N[j].th # u)
  <2>1. ASSUME \A j \in k .. Len(M) : M[j].th # u, NEW j \in k .. Len(N), N[j].th = u
        PROVE  FALSE
    <3>1. N[p].th # u
      BY <1>1, <2>1
    <3>2. j \in 1 .. p
      BY <1>1, <1>2, <1>4, <2>1, <3>1
    <3> QED BY <1>1, <2>1, <3>2
  <2>2. ASSUME \A j \in k .. Len(N) : N[j].th # u, NEW j \in k .. Len(M), M[j].th = u
        PROVE  FALSE
    <3>1. N[p].th # u
      BY <1>1, <2>2
    <3>2. j \in 1 .. p
      BY <1>1, <1>2, <1>3, <2>2, <3>1
    <3> QED BY <1>1, <2>2, <3>2
  <2> QED BY <2>1, <2>2
<1>6. ASSUME NEW k \in 1 .. p, N[k].k = "c" PROVE Below(M, u, i, k) <=> Below(N, u, i, k)
  <2>1. CASE N[k].th # u
    BY <1>1, <1>5, <2>1 DEF Below
  <2>2. CASE N[k].th = u /\ k = p
    BY <1>1, <1>6, <2>2 DEF Below
  <2>3. CASE N[k].th = u /\ k # p
    <3>1. k \in 1 .. p - 1 /\ k < Len(M) /\ k < Len(N)
      BY <1>1, <2>3
    <3> QED BY <1>1, <1>6, <2>3, <3>1 DEF Below
  <2> QED BY <2>1, <2>2, <2>3
<1>7. Shadow(M, u, i) = Shadow(N, u, i)
  <2>1. Shadow(M, u, i) = {k \in 1 .. p : M[k].k = "c" /\ Below(M, u, i, k)}
    BY <1>1, <1>2, <1>3 DEF Shadow
  <2>2. Shadow(N, u, i) = {k \in 1 .. p : N[k].k = "c" /\ Below(N, u, i, k)}
    BY <1>1, <1>2, <1>4 DEF Shadow
  <2> QED BY <1>1, <1>6, <2>1, <2>2
<1>8. \A k \in Shadow(N, u, i) : M[k] = N[k]
  BY <1>1, <1>2, <1>4 DEF Shadow
<1>9. On(M, u) <=> On(N, u)
  <2>1. 1 \in 1 .. p
    BY <1>1
  <2>2. (\A j \in 1 .. Len(M) : M[j].th # u) <=> (\A j \in 1 .. Len(N) : N[j].th # u)
    BY <1>5, <2>1
  <2> QED BY <2>2 DEF On
<1> QED BY <1>7, <1>8, <1>9 DEF Alongside

\* So nothing is above the next call of the thread that runs.
LEMMA TopBare ==
  ASSUME NEW N \in Seq(Activation), 1 <= Len(N), NEW n \in Nat, Fits(N, N[Len(N)].th, n)
  PROVE  Shadow(N, N[Len(N)].th, n + 1) = {}
<1> SUFFICES ASSUME NEW k \in 1 .. Len(N), N[k].k = "c", Below(N, N[Len(N)].th, n + 1, k)
             PROVE  FALSE
  BY DEF Shadow
<1>0. Len(N) \in Nat
  BY LenProperties
<1>1. N[k].th = N[Len(N)].th
  <2>1. Len(N) \in k .. Len(N)
    BY <1>0
  <2> QED BY <2>1 DEF Below
<1>2. k < Len(N) /\ N[k + 1].k = "try" /\ N[k + 1].ci <= n
  BY <1>1 DEF Fits
<1>3. n + 1 <= N[k + 1].ci
  BY <1>1, <1>2 DEF Below
<1>4. N[k + 1].ci \in Nat
  <2>1. N[k + 1] \in Activation
    BY <1>0, <1>2, ElementOfSeq
  <2> QED BY <1>2, <2>1 DEF Activation
<1> QED BY <1>2, <1>3, <1>4

\* The thread that runs goes on.
LEMMA GoesOn ==
  ASSUME NEW s, Sound(s), NEW u, NEW M \in Seq(Activation), NEW r, Now(r, s, u, M),
         1 <= Len(M), M[Len(M)].th = Run(s), Len(u.ci) \in Nat,
         NEW p, Along(M, s.native, p, Run(s)), s.native[p].th = Run(s),
         s.native[p].k = "c" =>
            /\ p < Len(s.native) => Len(u.ci) <= s.native[p + 1].ci /\ s.native[p + 1].k = "try"
            /\ p < Len(M) => Len(u.ci) <= M[p + 1].ci /\ M[p + 1].k = "try",
         Cur(s).stack # None => u.stack # None,
         NEW since, Follows(u, Cur(s), since[Run(s)], M, Run(s)), Sticks(s, since)
  PROVE  Sticks(r, since)
<1> DEFINE N == s.native
           t == Run(s)
<1>1. /\ Whole(s) /\ N \in Seq(Activation) /\ s.th \in [Threads -> Thread] /\ t \in Threads
      /\ Cur(s) = s.th[t] /\ Len(N) \in Nat /\ Len(M) \in Nat /\ r.native = M
      /\ r.th = [s.th EXCEPT ![t] = u]
  BY LenProperties DEF Sound, Cur, Now
<1>2. Cur(r) = u
  BY <1>1 DEF Cur, Run, Act
<1>3. ASSUME NEW x \in Threads, NEW i \in Nat, Hot(r.th, M, since, x, i)
      PROVE  \/ Shadow(M, x, i) = {} /\ u.stack # None
             \/ /\ Hot(s.th, N, since, x, i) /\ Shadow(M, x, i) = Shadow(N, x, i)
                /\ \A k \in Shadow(N, x, i) : M[k] = N[k]
  <2>1. CASE x = t /\ i = Len(u.ci) /\ u.stack # None /\ Shadow(M, t, i) = {}
    BY <2>1
  <2>2. CASE ~(x = t /\ i = Len(u.ci) /\ u.stack # None /\ Shadow(M, t, i) = {})
    <3>1. ASSUME x = t
          PROVE  /\ i \in 1 .. Len(u.ci) /\ i \in 1 .. Len(s.th[t].ci)
                 /\ TaintOf(s.th[t].ci[i]) # None
                 /\ since[t] <= i \/ i = Len(s.th[t].ci)
      <4>1. /\ i \in 1 .. Len(u.ci) /\ TaintOf(u.ci[i]) # None
            /\ since[t] <= i \/ i = Len(u.ci)
        BY <1>1, <1>3, <3>1 DEF Hot
      <4> QED BY <1>1, <2>2, <3>1, <4>1 DEF Follows
    <3>2. N[p].k = "c" /\ N[p].th = x =>
            (p < Len(N) => i <= N[p + 1].ci) /\ (p < Len(M) => i <= M[p + 1].ci)
      <4> SUFFICES ASSUME N[p].k = "c", x = t
                   PROVE  /\ p < Len(N) => i <= N[p + 1].ci
                          /\ p < Len(M) => i <= M[p + 1].ci
        OBVIOUS
      <4>1. i <= Len(u.ci)
        BY <3>1
      <4>2. p \in 1 .. Len(N) /\ p \in 1 .. Len(M)
        BY DEF Along
      <4>3. p < Len(N) => N[p + 1].ci \in Nat
        <5>1. p < Len(N) => N[p + 1] \in Activation
          BY <1>1, <4>2, ElementOfSeq
        <5> QED BY <5>1 DEF Activation
      <4>4. p < Len(M) => M[p + 1].ci \in Nat
        <5>1. p < Len(M) => M[p + 1] \in Activation
          BY <1>1, <4>2, ElementOfSeq
        <5> QED BY <5>1 DEF Activation
      <4> QED BY <4>1, <4>3, <4>4
    <3>3. /\ Shadow(M, x, i) = Shadow(N, x, i)
          /\ \A k \in Shadow(N, x, i) : M[k] = N[k]
          /\ On(M, x) <=> On(N, x)
      <4>1. /\ Len(M) \in Nat /\ Len(N) \in Nat /\ Along(M, N, p, t)
            /\ x # t \/ t = N[p].th
        BY <1>1
      <4> HIDE DEF N, t
      <4>2. Alongside(M, N, x, i)
        BY <3>2, <4>1, ShadowAlong
      <4> QED BY <4>2 DEF Alongside
    <3>4. Hot(s.th, N, since, x, i)
      <4>1. On(N, x)
        BY <1>3, <3>3 DEF Hot
      <4>2. CASE x = t
        BY <3>1, <4>1, <4>2 DEF Hot
      <4>3. CASE x # t
        <5>1. r.th[x] = s.th[x]
          BY <1>1, <4>3
        <5> QED BY <1>3, <4>1, <5>1 DEF Hot
      <4> QED BY <4>2, <4>3
    <3> QED BY <3>3, <3>4
  <2> QED BY <2>1, <2>2
<1> HIDE DEF N, t
<1> QED BY <1>1, <1>2, <1>3, SticksOn DEF N

\* What luaV_execute runs is a number.
LEMMA RestNat ==
  ASSUME NEW N \in Seq(Activation), NEW i \in 1 .. Len(N)
  PROVE  Rest(N, i) \in Nat
<1>1. CASE i < Len(N) /\ N[i + 1].k = "exec"
  <2>1. i + 1 \in 1 .. Len(N)
    BY <1>1, LenProperties
  <2>2. N[i + 1] \in Activation
    BY <2>1, ElementOfSeq
  <2> QED BY <1>1, <2>2 DEF Rest, Activation
<1>2. CASE ~(i < Len(N) /\ N[i + 1].k = "exec")
  BY <1>2 DEF Rest
<1> QED BY <1>1, <1>2

\* So no floor is lower.
LEMMA RisesFloors ==
  ASSUME NEW M \in Seq(Activation), NEW N \in Seq(Activation), NEW p, Rises(M, N, p),
         NEW since \in [Threads -> Nat], NEW T, Floors(N, since), Among(N, T)
  PROVE  Floors(M, since) /\ Among(M, T)
<1>0. Len(M) \in Nat /\ Len(N) \in Nat
  BY LenProperties
<1>1. /\ p \in 1 .. Len(M) /\ p \in 1 .. Len(N) /\ \A k \in 1 .. p - 1 : M[k] = N[k]
      /\ M[p].k = N[p].k /\ M[p].th = N[p].th
      /\ M[p] = N[p] \/ (M[p].k = "exec" /\ N[p].k = "exec" /\ N[p].n <= M[p].n)
      /\ \A k \in p + 1 .. Len(M) : M[k].k # "resume" /\ M[k].th = N[p].th
      /\ N[p].k = "resume" /\ p < Len(N) => N[p + 1].k # "exec"
  BY DEF Rises
<1>2. \A k \in 1 .. Len(M) : k \in 1 .. p - 1 \/ k = p \/ k \in p + 1 .. Len(M)
  BY <1>0, <1>1
<1>3. Among(M, T)
  BY <1>0, <1>1, <1>2 DEF Among
<1>4. ASSUME NEW i \in 1 .. Len(M), M[i].k = "resume"
      PROVE  since[M[i].th] <= Rest(M, i)
  <2>1. i \in 1 .. Len(N) /\ N[i].k = "resume" /\ N[i].th = M[i].th /\ i <= p
    BY <1>0, <1>1, <1>2, <1>4
  <2>2. since[M[i].th] <= Rest(N, i)
    BY <2>1 DEF Floors
  <2>3. since[M[i].th] \in Nat
    <3>1. N[i] \in Activation
      BY <2>1, ElementOfSeq
    <3>2. N[i].th \in Threads
      BY <3>1 DEF Activation
    <3> QED BY <2>1, <3>2
  <2>4. Rest(N, i) \in Nat /\ Rest(M, i) \in Nat
    BY <2>1, RestNat
  <2>5. Rest(N, i) <= Rest(M, i)
    <3>1. CASE i = p
      <4>1. Rest(N, i) = 0
        BY <1>1, <2>1, <3>1 DEF Rest
      <4> QED BY <2>4, <4>1
    <3>2. CASE i < p - 1
      <4>1. M[i + 1] = N[i + 1] /\ i < Len(M) /\ i < Len(N)
        BY <1>0, <1>1, <2>1, <3>2
      <4> QED BY <2>4, <4>1 DEF Rest
    <3>3. CASE i = p - 1
      <4>1. i + 1 = p /\ i < Len(M) /\ i < Len(N)
        BY <1>0, <1>1, <2>1, <3>3
      <4>2. CASE M[p] = N[p]
        BY <2>4, <4>1, <4>2 DEF Rest
      <4>3. CASE M[p].k = "exec" /\ N[p].k = "exec" /\ N[p].n <= M[p].n
        BY <2>4, <4>1, <4>3 DEF Rest
      <4> QED BY <1>1, <4>2, <4>3
    <3> QED BY <1>0, <1>1, <2>1, <3>1, <3>2, <3>3
  <2> QED BY <2>2, <2>3, <2>4, <2>5
<1> QED BY <1>3, <1>4 DEF Floors

\* The thread that runs goes on.
LEMMA GoesStuck ==
  ASSUME NEW s, Sound(s), NEW u, NEW M \in Seq(Activation), NEW r, Now(r, s, u, M),
         1 <= Len(M), M[Len(M)].th = Run(s), Len(u.ci) \in Nat,
         NEW p, Along(M, s.native, p, Run(s)), Rises(M, s.native, p),
         s.native[p].th = Run(s),
         s.native[p].k = "c" =>
            /\ p < Len(s.native) => Len(u.ci) <= s.native[p + 1].ci /\ s.native[p + 1].k = "try"
            /\ p < Len(M) => Len(u.ci) <= M[p + 1].ci /\ M[p + 1].k = "try",
         Cur(s).stack # None => u.stack # None,
         NEW since \in [Threads -> Nat], Follows(u, Cur(s), since[Run(s)], M, Run(s)),
         NEW T, Stuck(s, since, T)
  PROVE  Stuck(r, since, T)
<1>1. s.native \in Seq(Activation) /\ r.native = M
  BY DEF Sound, Now
<1>2. Sticks(s, since) /\ Floors(s.native, since) /\ Among(s.native, T)
  BY DEF Stuck
<1>3. Floors(M, since) /\ Among(M, T)
  BY <1>1, <1>2, RisesFloors
<1>4. Sticks(r, since)
  BY <1>2, GoesOn
<1> QED BY <1>1, <1>3, <1>4 DEF Stuck

\* What is known of one.
LEMMA FirmFacts ==
  ASSUME NEW s, Firm(s)
  PROVE  /\ Sound(s) /\ Whole(s) /\ s.native \in Seq(Activation) /\ Len(s.native) \in Nat
         /\ Len(s.native) \in 1 .. Len(s.native) /\ Act(s) = s.native[Len(s.native)]
         /\ Act(s) \in Activation /\ Run(s) \in Threads
         /\ s.native[Len(s.native)].th = Run(s)
         /\ Act(s).k = "exec" => Len(s.native) = 1 \/ s.native[Len(s.native) - 1].k # "c"
<1>1. /\ Sound(s) /\ 1 <= Len(s.native)
      /\ Act(s).k = "exec" => Len(s.native) = 1 \/ s.native[Len(s.native) - 1].k # "c"
  BY DEF Firm
<1>2. Whole(s) /\ s.native \in Seq(Activation) /\ Run(s) \in Threads
  BY <1>1 DEF Sound
<1>3. Len(s.native) \in Nat /\ Len(s.native) \in 1 .. Len(s.native)
  BY <1>1, <1>2, LenProperties
<1>4. s.native[Len(s.native)] \in Activation
  BY <1>2, <1>3, ElementOfSeq
<1> QED BY <1>1, <1>2, <1>3, <1>4 DEF Act, Run

\* It counts its calls as before, the last one at most is new.
LEMMA FollowsSame ==
  ASSUME NEW u, NEW t, u.ci = t.ci, NEW since, NEW M, NEW th
  PROVE  Follows(u, t, since, M, th)
  BY DEF Follows

\* A thread that keeps all its calls follows.
LEMMA FollowsAll ==
  ASSUME NEW u, NEW t, Len(t.ci) \in Nat, Keeps(u, t, Len(t.ci)), NEW since, NEW M, NEW th
  PROVE  Follows(u, t, since, M, th)
  BY DEF Follows, Keeps

\* So does one that keeps the first n, and is tainted if the n-th is insecure.
LEMMA FollowsKeeps ==
  ASSUME NEW u, NEW t, Len(t.ci) \in Nat, NEW n \in Nat, n <= Len(t.ci), Keeps(u, t, n),
         NEW since \in Nat, NEW M, NEW th,
         \/ n = Len(t.ci) \/ since <= n
         \/ 1 <= n => (TaintOf(u.ci[n]) # None => u.stack # None /\ Shadow(M, th, n) = {})
  PROVE  Follows(u, t, since, M, th)
<1>1. Len(u.ci) = n /\ \A i \in 1 .. n : u.ci[i] = t.ci[i]
  BY DEF Keeps
<1>2. ASSUME NEW i \in 1 .. n, TaintOf(u.ci[i]) # None, since <= i \/ i = n
      PROVE  \/ i \in 1 .. Len(t.ci) /\ u.ci[i] = t.ci[i] /\ (since <= i \/ i = Len(t.ci))
             \/ i = n /\ u.stack # None /\ Shadow(M, th, i) = {}
  <2>1. i \in 1 .. Len(t.ci) /\ u.ci[i] = t.ci[i]
    BY <1>1
  <2>2. CASE since <= i
    BY <2>1, <2>2
  <2>3. CASE i = n
    BY <1>2, <2>1, <2>3
  <2> QED BY <1>2, <2>2, <2>3
<1> QED BY <1>1, <1>2 DEF Follows

\* So does one with a call more, tainted if that is insecure.
LEMMA FollowsEnters ==
  ASSUME NEW u, NEW t, Len(t.ci) \in Nat, NEW f, Enters(u, t, f),
         NEW since \in Nat, NEW M, NEW th,
         TaintOf(f) # None => u.stack # None /\ Shadow(M, th, Len(u.ci)) = {}
  PROVE  Follows(u, t, since, M, th)
<1>1. /\ Len(u.ci) = Len(t.ci) + 1 /\ u.ci[Len(u.ci)] = f
      /\ \A i \in 1 .. Len(t.ci) : u.ci[i] = t.ci[i]
  BY DEF Enters
<1>2. ASSUME NEW i \in 1 .. Len(u.ci), TaintOf(u.ci[i]) # None, since <= i \/ i = Len(u.ci)
      PROVE  \/ i \in 1 .. Len(t.ci) /\ u.ci[i] = t.ci[i] /\ (since <= i \/ i = Len(t.ci))
             \/ i = Len(u.ci) /\ u.stack # None /\ Shadow(M, th, i) = {}
  <2>1. CASE i = Len(u.ci)
    BY <1>1, <1>2, <2>1
  <2>2. CASE i # Len(u.ci)
    <3>1. i \in 1 .. Len(t.ci)
      BY <1>1, <2>2
    <3> QED BY <1>1, <1>2, <2>2, <3>1
  <2> QED BY <2>1, <2>2
<1> QED BY <1>2 DEF Follows

\* On the same C stack.
LEMMA StayStuck ==
  ASSUME NEW s, Firm(s), NEW u, NEW r, Now(r, s, u, s.native), Len(u.ci) \in Nat,
         Cur(s).stack # None => u.stack # None,
         NEW since \in [Threads -> Nat], Follows(u, Cur(s), since[Run(s)], s.native, Run(s)),
         NEW T, Stuck(s, since, T)
  PROVE  Stuck(r, since, T)
<1> DEFINE N == s.native
           p == Len(N)
<1>1. /\ Sound(s) /\ N \in Seq(Activation) /\ p \in Nat /\ p \in 1 .. p /\ N[p].th = Run(s)
  BY FirmFacts
<1>2. Along(N, N, p, Run(s)) /\ Rises(N, N, p)
  BY <1>1 DEF Rises, Along
<1> QED BY <1>1, <1>2, GoesStuck

\* With one more activation.
LEMMA PushStuck ==
  ASSUME NEW s, Firm(s), NEW u, NEW a \in Activation, NEW r, Ahead(r, s, u, a),
         Len(u.ci) \in Nat, a.k \notin {"c", "resume"}, a.th = Run(s),
         Act(s).k = "c" => a.k = "try" /\ Len(u.ci) <= a.ci,
         Cur(s).stack # None => u.stack # None,
         NEW since \in [Threads -> Nat],
         Follows(u, Cur(s), since[Run(s)], Append(s.native, a), Run(s)),
         NEW T, Stuck(s, since, T)
  PROVE  Stuck(r, since, T)
<1> DEFINE N == s.native
           M == Append(N, a)
           p == Len(N)
<1>1. /\ Sound(s) /\ N \in Seq(Activation) /\ p \in Nat /\ p \in 1 .. p /\ N[p].th = Run(s)
      /\ Act(s) = N[p]
  BY FirmFacts
<1>2. /\ M \in Seq(Activation) /\ Len(M) = p + 1 /\ M[p + 1] = a
      /\ \A k \in 1 .. p : M[k] = N[k]
  BY <1>1, OneMore
<1> HIDE DEF M
<1>3. Along(M, N, p, Run(s)) /\ Rises(M, N, p)
  <2>1. \A k \in p + 1 .. Len(M) : k = p + 1
    BY <1>1, <1>2
  <2>2. M[p] = N[p] /\ p \in 1 .. Len(M) /\ \A k \in 1 .. p - 1 : M[k] = N[k]
    BY <1>1, <1>2
  <2>3. Along(M, N, p, Run(s))
    BY <1>1, <1>2, <2>1, <2>2 DEF Along
  <2> QED BY <1>1, <1>2, <2>1, <2>2, <2>3 DEF Rises
<1>4. /\ Now(r, s, u, M) /\ 1 <= Len(M) /\ M[Len(M)].th = Run(s)
      /\ Follows(u, Cur(s), since[Run(s)], M, Run(s))
  BY <1>1, <1>2 DEF Ahead, M
<1>5. N[p].k = "c" =>
        /\ p < Len(N) => Len(u.ci) <= N[p + 1].ci /\ N[p + 1].k = "try"
        /\ p < Len(M) => Len(u.ci) <= M[p + 1].ci /\ M[p + 1].k = "try"
  BY <1>1, <1>2
<1> QED BY <1>1, <1>2, <1>3, <1>4, <1>5, GoesStuck

\* With no less run by luaV_execute.
LEMMA GrowStuck ==
  ASSUME NEW s, Firm(s), NEW n \in Nat, Act(s).k = "exec", Act(s).n <= n,
         NEW u, NEW M, M = [s.native EXCEPT ![Len(s.native)].n = n],
         NEW r, Now(r, s, u, M), Len(u.ci) \in Nat,
         Cur(s).stack # None => u.stack # None,
         NEW since \in [Threads -> Nat], Follows(u, Cur(s), since[Run(s)], M, Run(s)),
         NEW T, Stuck(s, since, T)
  PROVE  Stuck(r, since, T)
<1> DEFINE N == s.native
           p == Len(N)
<1>1. /\ Sound(s) /\ N \in Seq(Activation) /\ p \in Nat /\ p \in 1 .. p /\ N[p].th = Run(s)
      /\ Act(s) = N[p] /\ N[p] \in Activation
      /\ p = 1 \/ N[p - 1].k # "c"
  BY FirmFacts
<1>2. N[p] = [k |-> "exec", th |-> N[p].th, n |-> N[p].n] /\ N[p].th \in Threads
  BY <1>1 DEF Activation
<1>3. M = [N EXCEPT ![p] = [k |-> "exec", th |-> N[p].th, n |-> n]]
  BY <1>1, <1>2
<1>4. [k |-> "exec", th |-> N[p].th, n |-> n] \in Activation
  BY <1>2 DEF Activation
<1>5. /\ M \in Seq(Activation) /\ Len(M) = p
      /\ M[p] = [k |-> "exec", th |-> N[p].th, n |-> n]
      /\ \A k \in 1 .. p - 1 : M[k] = N[k]
  BY <1>1, <1>3, <1>4, ExceptSeq
<1>6. Along(M, N, p, Run(s)) /\ Rises(M, N, p)
  <2>1. Along(M, N, p, Run(s))
    BY <1>1, <1>5 DEF Along
  <2> QED BY <1>1, <1>5, <2>1 DEF Rises
<1>7. 1 <= Len(M) /\ M[Len(M)].th = Run(s)
  BY <1>1, <1>5
<1>8. N[p].k # "c"
  BY <1>1
<1> QED BY <1>1, <1>5, <1>6, <1>7, <1>8, GoesStuck

\* With no protected call above the n-th activation any more.
LEMMA CutStuck ==
  ASSUME NEW s, Firm(s), NEW n \in 1 .. Len(s.native), Within(s, n),
         \A k \in n + 1 .. Len(s.native) : s.native[k].k # "c",
         NEW u, NEW r, Back(r, s, u, n), Len(u.ci) \in Nat,
         s.native[n].k = "c" /\ n < Len(s.native) =>
           s.native[n + 1].k = "try" /\ Len(u.ci) <= s.native[n + 1].ci,
         s.native[n].k = "resume" /\ n < Len(s.native) => s.native[n + 1].k # "exec",
         Cur(s).stack # None => u.stack # None,
         NEW since \in [Threads -> Nat],
         Follows(u, Cur(s), since[Run(s)], SubSeq(s.native, 1, n), Run(s)),
         NEW T, Stuck(s, since, T)
  PROVE  Stuck(r, since, T)
<1> DEFINE N == s.native
           M == SubSeq(N, 1, n)
<1>1. /\ Sound(s) /\ N \in Seq(Activation) /\ Len(N) \in Nat
  BY FirmFacts
<1>2. M \in Seq(Activation) /\ Len(M) = n /\ \A k \in 1 .. n : M[k] = N[k]
  BY <1>1, FirstOnes
<1> HIDE DEF M
<1>3. /\ \A k \in n .. Len(N) : N[k].th = Run(s)
      /\ n \in n .. Len(N) /\ n \in 1 .. n
  BY <1>1 DEF Within
<1>4. Along(M, N, n, Run(s)) /\ Rises(M, N, n)
  <2>1. \A k \in n + 1 .. Len(N) : k \in n .. Len(N)
    BY <1>1
  <2>2. M[n] = N[n] /\ \A k \in 1 .. n - 1 : M[k] = N[k]
    BY <1>2, <1>3
  <2>3. Along(M, N, n, Run(s))
    BY <1>2, <1>3, <2>1, <2>2 DEF Along
  <2> QED BY <1>2, <2>2, <2>3 DEF Rises
<1>5. /\ Now(r, s, u, M) /\ 1 <= Len(M) /\ M[Len(M)].th = Run(s) /\ N[n].th = Run(s)
      /\ Follows(u, Cur(s), since[Run(s)], M, Run(s))
  BY <1>2, <1>3 DEF Back, M
<1>6. N[n].k = "c" =>
        /\ n < Len(N) => Len(u.ci) <= N[n + 1].ci /\ N[n + 1].k = "try"
        /\ n < Len(M) => Len(u.ci) <= M[n + 1].ci /\ M[n + 1].k = "try"
  BY <1>2
<1> QED BY <1>1, <1>2, <1>4, <1>5, <1>6, GoesStuck

\* Only threads and the C stack count.
LEMMA SameStuck ==
  ASSUME NEW s, NEW r, r.th = s.th, r.native = s.native, NEW since, NEW T, Stuck(s, since, T)
  PROVE  Stuck(r, since, T)
<1>1. Cur(r) = Cur(s)
  BY DEF Cur, Run, Act
<1> QED BY <1>1 DEF Stuck, Sticks

\* What is done next makes no difference.
LEMMA DoStuck ==
  ASSUME NEW s, Whole(s), NEW w, NEW since, NEW T, Stuck(s, since, T)
  PROVE  Stuck(Do(s, w), since, T)
<1>1. Do(s, w).th = s.th /\ Do(s, w).native = s.native
  BY DoFields
<1> HIDE DEF Do
<1> QED BY <1>1, SameStuck

\* With taint on the entry of luaV_execute taints by what it runs.
LEMMA ReenterTaints ==
  ASSUME NEW t \in Thread, NEW f, TaintOf(f) # None, Reenter(t, f).mode = "rw"
  PROVE  Reenter(t, f).stack # None
<1> DEFINE a == [t EXCEPT !.fixed = None]
           b == TaintStack(a, TaintOf(f))
<1>1. a.fixed = None /\ a.mode = t.mode /\ a \in Thread
  BY TaintOfTaints DEF Thread
<1> HIDE DEF a
<1>2. b \in Thread /\ b.mode = a.mode /\ (a.mode = "rw" => b.stack # None)
  <2>1. CASE a.mode = "rw"
    <3>1. b = [a EXCEPT !.stack = TaintOf(f)]
      BY <1>1, <2>1 DEF TaintStack
    <3> QED BY <1>1, <3>1, TaintOfTaints DEF Thread
  <2>2. CASE a.mode # "rw"
    BY <1>1, <2>2 DEF TaintStack
  <2> QED BY <2>1, <2>2
<1>3. Reenter(t, f) = [b EXCEPT !.fixed = TaintOf(f)]
  BY DEF Reenter, a
<1> HIDE DEF b
<1> QED BY <1>1, <1>2, <1>3 DEF Thread

\* What luaV_execute leaves.
LEMMA ExecuteNow ==
  ASSUME NEW s, Sound(s), NEW p, NEW u \in Thread, Now(p, s, u, s.native), NEW f
  PROVE  /\ Now(Execute(p, f), s, Reenter(u, f), Executed(s))
         /\ Execute(p, f).todo = p.todo
<1> DEFINE v == Reenter(u, f)
           x == Set(p, v)
           N == s.native
           a == [k |-> "exec", th |-> Run(s), n |-> 1]
<1>1. /\ Whole(p) /\ p.th = [s.th EXCEPT ![Run(s)] = u] /\ p.native = N
      /\ s.th \in [Threads -> Thread] /\ Run(s) \in Threads
  BY DEF Now, Sound
<1>2. Run(p) = Run(s) /\ Act(p) = Act(s) /\ Cur(p) = u /\ Act(s) = N[Len(N)]
  BY <1>1 DEF Run, Act, Cur
<1> HIDE DEF v
<1>3. /\ Whole(x) /\ x.th = [s.th EXCEPT ![Run(s)] = v] /\ x.native = N /\ x.todo = p.todo
  BY <1>1, <1>2, SetFields
<1>4. Execute(p, f) = IF Act(s).k = "exec" THEN [x EXCEPT !.native[Len(N)].n = @ + 1]
                      ELSE Push(x, a)
  BY <1>1, <1>2 DEF Execute, v
<1> HIDE DEF x, N
<1> DEFINE M == [N EXCEPT ![Len(N)].n = Act(s).n + 1]
<1>5. [x EXCEPT !.native[Len(N)].n = @ + 1] = [x EXCEPT !.native = M]
  BY <1>2, <1>3 DEF Whole, N
<1>6. Executed(s) = IF Act(s).k = "exec" THEN M ELSE Append(N, a)
  BY DEF Executed, N
<1> HIDE DEF M, a
<1>7. CASE Act(s).k = "exec"
  <2>1. Execute(p, f) = [x EXCEPT !.native = M] /\ Executed(s) = M
    BY <1>4, <1>5, <1>6, <1>7
  <2> QED BY <1>3, <2>1, NativeFields DEF Now, v
<1>8. CASE Act(s).k # "exec"
  BY <1>3, <1>4, <1>6, <1>8, PushFields DEF Now, v
<1> QED BY <1>7, <1>8

\* C functions are not made insecurely.
LEMMA CFunctionSecure == ASSUME NEW f \in Functions, f \notin LuaFunctions PROVE TaintOf(f) = None
  BY CallsAssumption DEF TaintOf, LuaFunctions

\* luaD_precall.
LEMMA PrecallStuck ==
  ASSUME NEW s, Firm(s), Act(s).k # "c", NEW f \in Functions, Bare(Precall(s, f)),
         NEW since \in [Threads -> Nat], NEW T, Stuck(s, since, T)
  PROVE  Stuck(Precall(s, f), since, T)
<1> DEFINE p == PushFrame(s, f)
           r == Precall(s, f)
           t == Cur(s)
           N == s.native
<1>1. /\ Sound(s) /\ s.th \in [Threads -> Thread] /\ Run(s) \in Threads /\ t \in Thread
      /\ Len(t.ci) \in Nat /\ since[Run(s)] \in Nat /\ N \in Seq(Activation)
  BY FirmFacts, LenProperties DEF Sound, Cur, Thread
<1>2. PICK u : /\ Now(p, s, u, N) /\ Kept(u, t)
               /\ \/ p.todo = "run" /\ Enters(u, t, f)
                  \/ p.todo \in {"raise", "throw"} /\ Keeps(u, t, Len(t.ci))
  BY <1>1, PushFrameFields DEF Sound
<1> HIDE DEF p
<1>3. u \in Thread /\ Len(u.ci) \in Nat /\ Len(u.ci) < u.size /\ (t.stack # None => u.stack # None)
  <2>1. u \in Thread /\ (t.stack # None => u.stack # None)
    BY <1>2 DEF Kept
  <2>2. Len(u.ci) \in Nat
    BY <2>1, LenProperties DEF Thread
  <2>3. Len(u.ci) < u.size
    BY <1>2 DEF Enters, Keeps
  <2> QED BY <2>1, <2>2, <2>3
<1>4. r = IF p.todo # "run" THEN p
          ELSE IF f \in LuaFunctions THEN Execute(p, f) ELSE Do(p, "body")
  BY DEF Precall, p
<1> HIDE DEF r
<1>5. Whole(p)
  BY <1>2 DEF Now
<1>6. CASE p.todo # "run"
  <2>1. Keeps(u, t, Len(t.ci))
    BY <1>2, <1>6
  <2>2. Follows(u, t, since[Run(s)], N, Run(s))
    BY <1>1, <2>1, FollowsAll
  <2> QED
    <3>1. Stuck(p, since, T)
      BY <1>2, <1>3, <2>2, StayStuck
    <3> QED BY <1>4, <1>6, <3>1 DEF r
<1>7. CASE p.todo = "run" /\ f \notin LuaFunctions
  <2>1. Enters(u, t, f) /\ TaintOf(f) = None
    BY <1>2, <1>7, CFunctionSecure
  <2>2. Follows(u, t, since[Run(s)], N, Run(s))
    BY <1>1, <2>1, FollowsEnters
  <2>3. Stuck(p, since, T)
    BY <1>2, <1>3, <2>2, StayStuck
  <2> QED BY <1>4, <1>5, <1>7, <2>3, DoStuck DEF r
<1>8. CASE p.todo = "run" /\ f \in LuaFunctions
  <2> DEFINE v == Reenter(u, f)
             M == Executed(s)
  <2>1. Now(r, s, v, M) /\ r.todo = "run"
    BY <1>1, <1>2, <1>3, <1>4, <1>8, ExecuteNow
  <2>2. v \in Thread /\ Kept(v, u) /\ Keeps(v, u, Len(u.ci)) /\ v.ci = u.ci
    BY <1>3, ReenterKept DEF Kept
  <2>3. TaintOf(f) # None /\ v.mode = "rw" => v.stack # None
    BY <1>3, ReenterTaints
  <2> HIDE DEF v, M
  <2>4. Enters(v, t, f) /\ Len(v.ci) \in Nat /\ (t.stack # None => v.stack # None)
    BY <1>2, <1>3, <1>8, <2>2 DEF Enters, Keeps, Kept
  <2>5. M \in Seq(Activation) /\ 1 <= Len(M) /\ M[Len(M)].th = Run(s)
    <3>1. CASE Act(s).k = "exec"
      <4>1. /\ Act(s) = [k |-> "exec", th |-> Run(s), n |-> Act(s).n] /\ Act(s).n \in Nat
            /\ N[Len(N)] = Act(s)
        BY <3>1, FirmFacts DEF Activation
      <4>2. M = [N EXCEPT ![Len(N)] = [k |-> "exec", th |-> Run(s), n |-> Act(s).n + 1]]
        BY <3>1, <4>1 DEF M, Executed
      <4>3. [k |-> "exec", th |-> Run(s), n |-> Act(s).n + 1] \in Activation
        BY <1>1, <4>1 DEF Activation
      <4> QED BY <4>2, <4>3, FirmFacts, ExceptSeq
    <3>2. CASE Act(s).k # "exec"
      <4>1. [k |-> "exec", th |-> Run(s), n |-> 1] \in Activation
        BY <1>1 DEF Activation
      <4> QED BY <1>1, <3>2, <4>1, OneMore DEF M, Executed
    <3> QED BY <3>1, <3>2
  <2>6. Run(r) = Run(s) /\ Cur(r) = v /\ r.native = M /\ Top(r) = f
    <3>1. r.native = M /\ r.th = [s.th EXCEPT ![Run(s)] = v]
      BY <2>1 DEF Now
    <3>2. Run(r) = Run(s) /\ Cur(r) = v
      BY <1>1, <2>5, <3>1 DEF Run, Act, Cur
    <3> QED BY <2>4, <3>1, <3>2 DEF Top, Enters
  <2>7. TaintOf(f) # None => v.stack # None /\ Shadow(M, Run(s), Len(v.ci)) = {}
    BY <2>1, <2>3, <2>6 DEF Bare, r
  <2>8. Follows(v, t, since[Run(s)], M, Run(s))
    BY <1>1, <2>4, <2>7, FollowsEnters
  <2>9. CASE Act(s).k = "exec"
    <3> DEFINE n == Act(s).n + 1
    <3>1. n \in Nat /\ Act(s).n <= n
      BY <2>9, FirmFacts DEF Activation
    <3>2. M = [N EXCEPT ![Len(N)].n = n]
      BY <2>9 DEF M, Executed
    <3> HIDE DEF n
    <3> QED BY <2>1, <2>4, <2>8, <2>9, <3>1, <3>2, GrowStuck DEF r
  <2>10. CASE Act(s).k # "exec"
    <3> DEFINE a == [k |-> "exec", th |-> Run(s), n |-> 1]
    <3>1. a \in Activation /\ a.k = "exec" /\ a.th = Run(s)
      BY <1>1 DEF Activation
    <3>2. M = Append(N, a)
      BY <2>10 DEF M, Executed
    <3> HIDE DEF a
    <3>3. Ahead(r, s, v, a)
      BY <2>1, <3>2 DEF Ahead
    <3> QED BY <2>4, <2>8, <3>1, <3>2, <3>3, PushStuck DEF r
  <2> QED BY <2>9, <2>10
<1> QED BY <1>6, <1>7, <1>8

\* A good state is firm.
LEMMA StateFirm ==
  ASSUME NEW s, NEW g, State(s, g)
  PROVE  Firm(s)
<1>1. Sound(s) /\ 1 <= Len(s.native) /\ Len(s.native) = Len(g)
  BY StateSound, StateFacts
<1>2. Act(s).k = "exec" => s.native[Len(s.native) - 1].k # "c"
  BY <1>1, ExecFacts
<1> QED BY <1>1, <1>2 DEF Firm

\* On a C function that calls stands its protected call.
LEMMA TryOnC ==
  ASSUME NEW s, NEW g, State(s, g), NEW k \in 1 .. Len(g), k < Len(g), s.native[k].k = "c"
  PROVE  /\ k + 1 \in 1 .. Len(g) /\ s.native[k + 1].k = "try"
         /\ s.native[k + 1].th = s.native[k].th
         /\ s.native[k + 1].ci = g[k + 1].b /\ g[k + 1].b \in Nat
<1>1. Len(g) \in Nat
  BY StateFacts
<1>2. k + 1 \in 2 .. Len(g) /\ k + 1 \in 1 .. Len(g) /\ (k + 1) - 1 = k
  BY <1>1
<1>3. Link(s.th, s.native[k], g[k], s.native[k + 1], g[k + 1]) /\ g[k + 1].b \in Nat
  BY <1>2, LinkFacts
<1>4. LinkTry(s.native[k], g[k], s.native[k + 1], g[k + 1])
  BY <1>3 DEF Link, LinkC, LinkCall, LinkExec, LinkErrMsg, LinkResume
<1> QED BY <1>2, <1>3, <1>4 DEF LinkTry

\* Nothing is above the Lua function that runs.
LEMMA GoodBare ==
  ASSUME NEW r, NEW h, Good(r, h)
  PROVE  Bare(r)
<1> SUFFICES ASSUME r.todo = "run", TaintOf(Top(r)) # None
             PROVE  Cur(r).mode = "rw" /\ Shadow(r.native, Run(r), Len(Cur(r).ci)) = {}
  BY DEF Bare
<1>1. /\ State(r, h) /\ Act(r).k = "exec" /\ Act(r).n \in Nat /\ 1 <= Act(r).n
      /\ Len(Cur(r).ci) = h[Len(h)].b + Act(r).n
      /\ Suits(Top(r), h[Len(h)].m) /\ Cur(r).mode = h[Len(h)].m
  BY InLuaFacts
<1>2. Cur(r).mode = "rw"
  <2>1. Top(r) \in SandboxLua
    BY CallsAssumption DEF TaintOf
  <2> QED BY <1>1, <2>1 DEF Suits
<1>3. /\ r.native \in Seq(Activation) /\ Len(r.native) = Len(h) /\ Len(h) \in Nat /\ 1 <= Len(h)
      /\ Act(r) = r.native[Len(h)] /\ Run(r) = r.native[Len(h)].th /\ h[Len(h)].b \in Nat
  BY <1>1, StateFacts
<1> DEFINE n == Len(Cur(r).ci) - 1
<1>4. n \in Nat /\ h[Len(h)].b <= n /\ Len(Cur(r).ci) = n + 1
  BY <1>1, <1>3
<1>5. ASSUME NEW k \in 1 .. Len(r.native), r.native[k].k = "c", r.native[k].th = Run(r)
      PROVE  k < Len(r.native) /\ r.native[k + 1].k = "try" /\ r.native[k + 1].ci <= n
  <2>1. k # Len(h)
    BY <1>1, <1>3, <1>5
  <2>2. k \in 1 .. Len(h) /\ k < Len(h)
    BY <1>3, <2>1
  <2>3. /\ k + 1 \in 1 .. Len(h) /\ r.native[k + 1].k = "try"
        /\ r.native[k + 1].th = Run(r)
        /\ r.native[k + 1].ci = h[k + 1].b /\ h[k + 1].b \in Nat
    BY <1>1, <1>5, <2>2, TryOnC
  <2>4. k + 1 < Len(h)
    <3>1. k + 1 # Len(h)
      BY <1>1, <1>3, <2>3
    <3> QED BY <1>3, <2>3, <3>1
  <2>5. h[k + 1].b + Runs(r.native[k + 1]) <= h[Len(h)].b
    <3>1. Len(h) \in 1 .. Len(h) /\ Rising(r.th, r.native, h)
      BY <1>1, <1>3 DEF State, Shape
    <3> QED BY <1>3, <2>3, <2>4, <3>1 DEF Rising
  <2>6. Runs(r.native[k + 1]) = 0
    BY <2>3 DEF Runs
  <2> HIDE DEF n
  <2> QED BY <1>3, <1>4, <2>2, <2>3, <2>5, <2>6
<1> HIDE DEF n
<1>6. Fits(r.native, Run(r), n)
  BY <1>5 DEF Fits
<1>7. Shadow(r.native, Run(r), n + 1) = {}
  BY <1>3, <1>4, <1>6, TopBare
<1> QED BY <1>2, <1>4, <1>7

\* One C function more on top is one more above every call.
LEMMA ShadowTop ==
  ASSUME NEW N, NEW M, Len(N) \in Nat, NEW n, Tops(N, M, n), NEW u, NEW i,
         u = N[n].th /\ Len(N) = n + 1 => i <= N[n + 1].ci
  PROVE  Adds(N, M, n, u, i)
<1>1. /\ n \in 2 .. Len(N) /\ Len(M) = n - 1 /\ \A k \in 1 .. n - 1 : M[k] = N[k]
      /\ N[n].k = "c" /\ N[n - 1].k # "c" /\ N[n].th = N[n - 1].th
      /\ Len(N) = n \/ Len(N) = n + 1
      /\ Len(N) = n + 1 => N[n + 1].k # "c" /\ N[n + 1].th = N[n].th
  BY DEF Tops
<1>2. /\ n \in Nat /\ n - 1 \in 1 .. n - 1 /\ Len(M) \in Nat
      /\ \A k \in 1 .. Len(N) : k \in 1 .. n - 1 \/ k = n \/ (k = n + 1 /\ Len(N) = n + 1)
      /\ \A k \in 1 .. n - 1 : k \in 1 .. Len(N) /\ k \in 1 .. Len(M) /\ k < n
      /\ \A k \in 1 .. Len(M) : k \in 1 .. n - 1
  BY <1>1
<1>3. \A j \in n .. Len(N) : N[j].th = M[n - 1].th
  <2>1. \A j \in n .. Len(N) : j = n \/ (j = n + 1 /\ Len(N) = n + 1)
    BY <1>1, <1>2
  <2> QED BY <1>1, <1>2, <2>1
<1>4. ASSUME NEW k \in 1 .. n - 1
      PROVE  (\A j \in k .. Len(N) : N[j].th # u) <=> (\A j \in k .. Len(M) : M[j].th # u)
  <2>1. \A j \in k .. Len(M) : j \in k .. Len(N) /\ M[j] = N[j]
    BY <1>1, <1>2
  <2>2. \A j \in k .. Len(N) : j \in k .. Len(M) \/ j \in n .. Len(N)
    BY <1>1, <1>2
  <2>3. n - 1 \in k .. Len(M)
    BY <1>1, <1>2
  <2> QED BY <1>3, <2>1, <2>2, <2>3
<1>5. ASSUME NEW k \in 1 .. n - 1, N[k].k = "c" PROVE Below(N, u, i, k) <=> Below(M, u, i, k)
  <2>1. CASE N[k].th # u
    BY <1>1, <1>4, <2>1 DEF Below
  <2>2. CASE N[k].th = u
    <3>1. k # n - 1
      BY <1>1, <1>5
    <3>2. k + 1 \in 1 .. n - 1 /\ k < Len(N) /\ k < Len(M)
      BY <1>1, <1>2, <3>1
    <3> QED BY <1>1, <2>2, <3>2 DEF Below
  <2> QED BY <2>1, <2>2
<1>6. Below(N, u, i, n)
  <2>1. CASE N[n].th # u
    <3>1. \A j \in n .. Len(N) : N[j].th # u
      BY <1>1, <1>2, <1>3, <2>1
    <3> QED BY <2>1, <3>1 DEF Below
  <2>2. CASE N[n].th = u
    BY <1>1, <2>2 DEF Below
  <2> QED BY <2>1, <2>2
<1>7. Shadow(N, u, i) = Shadow(M, u, i) \cup {n}
  <2>1. ASSUME NEW k PROVE k \in Shadow(N, u, i) <=> k \in Shadow(M, u, i) \/ k = n
    <3>1. CASE k \in 1 .. n - 1
      BY <1>1, <1>2, <1>5, <3>1 DEF Shadow
    <3>2. CASE k = n
      BY <1>1, <1>6, <3>2 DEF Shadow
    <3>3. CASE k \notin 1 .. n - 1 /\ k # n
      BY <1>1, <1>2, <3>3 DEF Shadow
    <3> QED BY <3>1, <3>2, <3>3
  <2> QED BY <2>1
<1>8. \A k \in Shadow(M, u, i) : k < n /\ M[k] = N[k]
  BY <1>1, <1>2 DEF Shadow
<1>9. On(N, u) <=> On(M, u)
  <2>1. 1 \in 1 .. n - 1
    BY <1>1, <1>2
  <2>2. (\A j \in 1 .. Len(N) : N[j].th # u) <=> (\A j \in 1 .. Len(M) : M[j].th # u)
    BY <1>4, <2>1
  <2> QED BY <2>2 DEF On
<1> QED BY <1>7, <1>8, <1>9 DEF Adds

\* What C functions tell, with one more on top.
LEMMA TellsMore ==
  ASSUME NEW N, NEW M, NEW n, NEW S, \A k \in S : k < n /\ M[k] = N[k],
         NEW old, Tells(M, S, old), old # None => N[n].saved.stack # None,
         NEW new, N[n].f \notin Boundary /\ old # None => new # None
  PROVE  Tells(N, S \cup {n}, new)
<1>1. ASSUME NEW k \in S \cup {n}, \A j \in S \cup {n} : j < k => N[j].f \notin Boundary
      PROVE  N[k].saved.stack # None
  <2>1. CASE k \in S
    BY <1>1, <2>1 DEF Tells
  <2>2. CASE k = n
    BY <1>1, <2>2 DEF Tells
  <2> QED BY <2>1, <2>2
<1>2. ASSUME \A j \in S \cup {n} : N[j].f \notin Boundary PROVE new # None
  BY <1>2 DEF Tells
<1> QED BY <1>1, <1>2 DEF Tells

\* And with that off again.
LEMMA TellsLess ==
  ASSUME NEW N, NEW M, NEW n, NEW S \in SUBSET Nat, n \in Nat,
         \A k \in S : k < n /\ M[k] = N[k],
         NEW old, Tells(N, S \cup {n}, old),
         NEW new, \/ new # None \/ N[n].saved.stack = None
                  \/ N[n].f \notin Boundary /\ old = None
  PROVE  Tells(M, S, new)
<1>1. ASSUME NEW k \in S, \A j \in S : j < k => M[j].f \notin Boundary
      PROVE  M[k].saved.stack # None
  <2>1. ~(n < k)
    BY <1>1
  <2>2. \A j \in S \cup {n} : j < k => N[j].f \notin Boundary
    BY <1>1, <2>1
  <2> QED BY <2>2 DEF Tells
<1>2. ASSUME \A j \in S : M[j].f \notin Boundary PROVE new # None
  <2>1. \A j \in S \cup {n} : j < n => N[j].f \notin Boundary
    BY <1>2
  <2>2. N[n].saved.stack # None
    BY <2>1 DEF Tells
  <2>3. N[n].f \notin Boundary => \A j \in S \cup {n} : N[j].f \notin Boundary
    BY <1>2
  <2> QED BY <2>2, <2>3 DEF Tells
<1> QED BY <1>1, <1>2 DEF Tells

\* The thread that runs has the calls it had.
LEMMA NowCalls ==
  ASSUME NEW s, Sound(s), NEW u, u.ci = Cur(s).ci, NEW M, NEW r, Now(r, s, u, M)
  PROVE  \A x \in Threads : r.th[x].ci = s.th[x].ci
<1>1. r.th = [s.th EXCEPT ![Run(s)] = u] /\ s.th \in [Threads -> Thread] /\ u.ci = s.th[Run(s)].ci
  BY DEF Now, Sound, Cur
<1> QED BY <1>1

\* A C function makes a protected call.
LEMMA EnterStuck ==
  ASSUME NEW s, Firm(s), Act(s).k \notin {"c", "resume"},
         NEW a \in Activation, a.k = "c", a.th = Run(s),
         NEW b \in Activation, b.k = "try", b.th = Run(s), b.ci = Len(Cur(s).ci),
         Cur(s).stack # None => a.saved.stack # None,
         NEW u, u.ci = Cur(s).ci,
         a.f \notin Boundary /\ Cur(s).stack # None => u.stack # None,
         NEW r, Now(r, s, u, Append(Append(s.native, a), b)),
         NEW since \in [Threads -> Nat], NEW T, Stuck(s, since, T)
  PROVE  Stuck(r, since, T)
<1> DEFINE N == Append(Append(s.native, a), b)
           M == s.native
           p == Len(M)
           n == p + 1
           L == Append(M, a)
<1>1. /\ Sound(s) /\ M \in Seq(Activation) /\ p \in Nat /\ p \in 1 .. p /\ M[p].th = Run(s)
      /\ Act(s) = M[p]
  BY FirmFacts
<1>2. L \in Seq(Activation) /\ Len(L) = n /\ L[n] = a /\ \A k \in 1 .. p : L[k] = M[k]
  BY <1>1, OneMore
<1> HIDE DEF L
<1>3. N = Append(L, b) /\ Now(r, s, u, N)
  BY DEF L
<1> HIDE DEF N
<1>4. /\ N \in Seq(Activation) /\ Len(N) = n + 1 /\ N[n + 1] = b /\ N[n] = a
      /\ \A k \in 1 .. p : N[k] = M[k]
  <2>1. /\ N \in Seq(Activation) /\ Len(N) = n + 1 /\ N[n + 1] = b
        /\ \A k \in 1 .. n : N[k] = L[k]
    BY <1>2, <1>3, OneMore
  <2>2. n \in 1 .. n /\ \A k \in 1 .. p : k \in 1 .. n
    BY <1>1
  <2> QED BY <1>2, <2>1, <2>2
<1>5. Tops(N, M, n)
  <2>1. n \in 2 .. Len(N) /\ n - 1 = p
    BY <1>1, <1>4
  <2> QED BY <1>1, <1>4, <2>1 DEF Tops
<1>6. \A x \in Threads : r.th[x].ci = s.th[x].ci
  BY <1>1, <1>3, NowCalls
<1>7. r.native = N /\ Cur(r) = u
  <2>1. r.th = [s.th EXCEPT ![Run(s)] = u] /\ r.native = N
    BY <1>3 DEF Now
  <2>2. Run(r) = Run(s)
    BY <1>4, <2>1 DEF Run, Act
  <2> QED BY <1>1, <2>1, <2>2 DEF Cur, Sound
<1>8. Sticks(s, since) /\ Floors(M, since) /\ Among(M, T)
  BY DEF Stuck
<1>9. Rises(N, M, p)
  <2>1. \A k \in p + 1 .. Len(N) : k = n \/ k = n + 1
    <3>1. p \in Nat /\ Len(N) = n + 1
      BY <1>1, <1>4
    <3> HIDE DEF p
    <3> QED BY <3>1
  <2>2. \A k \in p + 1 .. Len(N) : N[k].k # "resume" /\ N[k].th = M[p].th
    BY <1>1, <1>4, <2>1
  <2>3. p \in 1 .. Len(N) /\ N[p] = M[p] /\ \A k \in 1 .. p - 1 : N[k] = M[k]
    BY <1>1, <1>4
  <2> QED BY <1>1, <2>2, <2>3 DEF Rises
<1>10. Floors(N, since) /\ Among(N, T)
  BY <1>1, <1>4, <1>8, <1>9, RisesFloors
<1>11. ASSUME NEW x \in Threads, NEW i \in Nat, Hot(r.th, N, since, x, i)
       PROVE  Tells(N, Shadow(N, x, i), u.stack)
  <2>1. x = N[n].th /\ Len(N) = n + 1 => i <= N[n + 1].ci
    <3>1. i <= Len(r.th[x].ci)
      BY <1>11 DEF Hot
    <3> QED BY <1>4, <1>6, <3>1 DEF Cur
  <2>2. Adds(N, M, n, x, i)
    <3> HIDE DEF n, M
    <3>1. Len(N) \in Nat
      BY <1>4, LenProperties
    <3> QED BY <1>5, <2>1, <3>1, ShadowTop
  <2>3. Hot(s.th, M, since, x, i)
    BY <1>6, <1>11, <2>2 DEF Hot, Adds
  <2>4. Tells(M, Shadow(M, x, i), Cur(s).stack)
    BY <1>8, <2>3 DEF Sticks
  <2>5. Tells(N, Shadow(M, x, i) \cup {n}, u.stack)
    <3>1. N[n].saved = a.saved /\ N[n].f = a.f
      BY <1>4
    <3> HIDE DEF n, M
    <3> QED BY <2>2, <2>4, <3>1, TellsMore DEF Adds
  <2> QED BY <2>2, <2>5 DEF Adds
<1> QED BY <1>7, <1>10, <1>11 DEF Stuck, Sticks

\* It is over: the C function goes on.
LEMMA LeaveStuck ==
  ASSUME NEW s, Firm(s), 2 <= Len(s.native), Act(s).k = "c",
         s.native[Len(s.native) - 1].k \notin {"c", "resume"},
         s.native[Len(s.native) - 1].th = Run(s),
         NEW u, u.ci = Cur(s).ci,
         \/ u.stack # None \/ Act(s).saved.stack = None
         \/ Act(s).f \notin Boundary /\ Cur(s).stack = None,
         NEW M, M = SubSeq(s.native, 1, Len(s.native) - 1), NEW r, Now(r, s, u, M),
         NEW since \in [Threads -> Nat], NEW T, Stuck(s, since, T)
  PROVE  Stuck(r, since, T)
<1> DEFINE N == s.native
           n == Len(N)
           p == n - 1
<1>1. /\ Sound(s) /\ N \in Seq(Activation) /\ n \in Nat /\ N[n].th = Run(s) /\ Act(s) = N[n]
      /\ 2 <= n
  BY FirmFacts
<1>2. /\ M \in Seq(Activation) /\ Len(M) = p /\ \A k \in 1 .. p : M[k] = N[k]
      /\ p \in 1 .. p /\ p \in Nat
  <2>1. p \in 0 .. Len(N) /\ p \in 1 .. p /\ p \in Nat
    BY <1>1
  <2> QED BY <1>1, <2>1, FirstOnes
<1>3. Tops(N, M, n)
  <2>1. n \in 2 .. Len(N)
    BY <1>1
  <2> QED BY <1>1, <1>2, <2>1 DEF Tops
<1>4. \A x \in Threads : r.th[x].ci = s.th[x].ci
  BY <1>1, NowCalls
<1>5. r.native = M /\ Cur(r) = u
  <2>1. r.th = [s.th EXCEPT ![Run(s)] = u] /\ r.native = M
    BY DEF Now
  <2>2. Run(r) = Run(s)
    BY <1>2, <2>1 DEF Run, Act
  <2> QED BY <1>1, <2>1, <2>2 DEF Cur, Sound
<1>6. Sticks(s, since) /\ Floors(N, since) /\ Among(N, T)
  BY DEF Stuck
<1>7. Rises(M, N, p)
  <2>1. p \in 1 .. Len(N) /\ N[p] = M[p] /\ \A k \in 1 .. p - 1 : M[k] = N[k]
    BY <1>1, <1>2
  <2>2. \A k \in p + 1 .. Len(M) : FALSE
    BY <1>2
  <2> QED BY <1>2, <2>1, <2>2 DEF Rises
<1>8. Floors(M, since) /\ Among(M, T)
  BY <1>1, <1>2, <1>6, <1>7, RisesFloors
<1>9. ASSUME NEW x \in Threads, NEW i \in Nat, Hot(r.th, M, since, x, i)
      PROVE  Tells(M, Shadow(M, x, i), u.stack)
  <2>1. Len(N) # n + 1
    BY <1>1
  <2>2. Adds(N, M, n, x, i)
    <3>1. Len(N) \in Nat
      BY <1>1
    <3> HIDE DEF n, N
    <3> QED BY <1>3, <2>1, <3>1, ShadowTop
  <2>3. Hot(s.th, N, since, x, i)
    BY <1>4, <1>9, <2>2 DEF Hot, Adds
  <2>4. Tells(N, Shadow(M, x, i) \cup {n}, Cur(s).stack)
    BY <1>6, <2>2, <2>3 DEF Sticks, Adds
  <2>5. Shadow(M, x, i) \in SUBSET Nat
    BY DEF Shadow
  <2>6. \/ u.stack # None \/ N[n].saved.stack = None
        \/ N[n].f \notin Boundary /\ Cur(s).stack = None
    BY <1>1
  <2>7. n \in Nat /\ \A k \in Shadow(M, x, i) : k < n /\ M[k] = N[k]
    BY <1>1, <2>2 DEF Adds
  <2> DEFINE S == Shadow(M, x, i)
             old == Cur(s).stack
             new == u.stack
  <2>8. /\ S \in SUBSET Nat /\ n \in Nat /\ \A k \in S : k < n /\ M[k] = N[k]
        /\ Tells(N, S \cup {n}, old)
        /\ new # None \/ N[n].saved.stack = None \/ (N[n].f \notin Boundary /\ old = None)
    BY <2>4, <2>5, <2>6, <2>7
  <2> HIDE DEF n, N, S, old, new
  <2>9. Tells(M, S, new)
    BY <2>8, TellsLess
  <2> QED BY <2>9 DEF S, new
<1> QED BY <1>5, <1>8, <1>9 DEF Stuck, Sticks

\* luaD_call.
LEMMA LuaDCallStuck ==
  ASSUME NEW s, Firm(s), Act(s).k # "c", Cur(s) \in Thread, NEW f \in Functions,
         Bare(LuaDCall(s, f)),
         NEW since \in [Threads -> Nat], NEW T, Stuck(s, since, T)
  PROVE  Stuck(LuaDCall(s, f), since, T)
<1>1. /\ Sound(s) /\ Whole(s) /\ Run(s) \in Threads /\ s.native \in Seq(Activation)
      /\ Len(s.native) \in Nat /\ Len(Cur(s).ci) < Cur(s).size /\ s.th \in [Threads -> Thread]
  BY FirmFacts DEF Sound
<1>2. PICK r, u, a, N : Deeper(s, f, r, u, a, N)
  BY <1>1, LuaDCallParts
<1>3. Stuck(r, since, T)
  <2>1. Follows(u, Cur(s), since[Run(s)], N, Run(s))
    BY <1>2, FollowsSame DEF Deeper
  <2>2. Ahead(r, s, u, a)
    BY <1>2 DEF Deeper, Ahead
  <2> QED BY <1>2, <2>1, <2>2, PushStuck DEF Deeper
<1>4. Sound(r) /\ Firm(r) /\ Whole(r) /\ Act(r).k # "c"
  <2>1. Steps(r, s, u, N)
    BY <1>1, <1>2 DEF Deeper, Steps
  <2>2. Sound(r) /\ r.native = N
    BY <1>1, <1>2, <2>1, StepsSound DEF Deeper, Now
  <2>3. Act(r) = a
    BY <1>2, <2>2 DEF Deeper, Act
  <2> QED BY <1>2, <2>2, <2>3 DEF Deeper, Firm, Sound
<1>5. CASE LuaDCall(s, f) = Precall(r, f)
  BY <1>3, <1>4, <1>5, PrecallStuck
<1>6. CASE LuaDCall(s, f) \in {Do(r, "raise"), Do(r, "throw")}
  BY <1>3, <1>4, <1>6, DoStuck
<1> QED BY <1>2, <1>5, <1>6 DEF Deeper

\* A protected call from a C function, which may have set another mode or taint.
LEMMA PCallStuck ==
  ASSUME NEW s, Firm(s), Act(s).k \in {"exec", "call"},
         NEW u \in Thread, u.ci = Cur(s).ci, Len(u.ci) < u.size, u.nCcalls \in Nat,
         u.status = Cur(s).status,
         NEW r, Now(r, s, u, s.native), NEW f \in CFunctions, NEW saved \in Saved,
         NEW e \in Functions \cup {None}, NEW f2 \in Functions,
         Cur(s).stack # None => saved.stack # None,
         f \notin Boundary /\ Cur(s).stack # None => u.stack # None,
         Bare(PCall(r, f, saved, e, f2)),
         NEW since \in [Threads -> Nat], NEW T, Stuck(s, since, T)
  PROVE  Stuck(PCall(r, f, saved, e, f2), since, T)
<1>0. /\ Sound(s) /\ Run(s) \in Threads /\ s.native \in Seq(Activation) /\ Len(s.native) \in Nat
      /\ 1 <= Len(s.native) /\ s.th \in [Threads -> Thread]
  BY FirmFacts DEF Sound
<1>1. /\ Whole(r) /\ r.native = s.native /\ Run(r) = Run(s) /\ Cur(r) = u
  BY <1>0 DEF Now, Run, Act, Cur
<1> DEFINE a == [k |-> "c", th |-> Run(s), f |-> f, saved |-> saved]
           x == Push(r, a)
           b == [k |-> "try", th |-> Run(s), ci |-> Len(u.ci), nCcalls |-> u.nCcalls,
                 errfunc |-> u.errfunc]
           z == Push(x, b)
           v == [u EXCEPT !.errfunc = e]
           y == Set(z, v)
           M == Append(s.native, a)
           N == Append(M, b)
<1>2. /\ a \in Activation /\ a.k = "c" /\ a.th = Run(s) /\ a.f = f /\ a.saved = saved
      /\ b \in Activation /\ b.k = "try" /\ b.th = Run(s) /\ b.ci = Len(u.ci)
  <2>1. Len(u.ci) \in Nat /\ u.errfunc \in Functions \cup {None}
    BY LenProperties DEF Thread
  <2> QED BY <1>0, <2>1 DEF Activation
<1>3. M \in Seq(Activation) /\ N \in Seq(Activation) /\ N[Len(N)] = b /\ 1 <= Len(N)
  <2> HIDE DEF a, b
  <2>1. M \in Seq(Activation) /\ Len(M) \in Nat
    BY <1>0, <1>2, OneMore, LenProperties
  <2> HIDE DEF M
  <2> QED BY <1>2, <2>1, OneMore
<1>4. /\ v \in Thread /\ v.ci = u.ci /\ v.size = u.size /\ v.status = u.status
      /\ v.stack = u.stack /\ v.nCcalls = u.nCcalls
  BY DEF Thread
<1>5. PCall(r, f, saved, e, f2) = LuaDCall(y, f2)
  BY <1>1 DEF PCall
<1> HIDE DEF a, b
<1>6. Now(y, r, v, N)
  <2>1. Whole(x) /\ x.th = r.th /\ x.native = M
    BY <1>1, PushFields
  <2> HIDE DEF x, M
  <2>2. Whole(z) /\ z.th = r.th /\ z.native = N
    BY <2>1, PushFields
  <2> HIDE DEF z, N, v
  <2>3. Run(z) = Run(r)
    BY <1>1, <1>2, <1>3, <2>2 DEF Run, Act
  <2>4. Whole(y) /\ y.th = [z.th EXCEPT ![Run(z)] = v] /\ y.native = z.native
    BY <2>2, SetFields
  <2> QED BY <2>2, <2>3, <2>4 DEF Now
<1> HIDE DEF x, z, v, y
<1>7. Now(y, s, v, N)
  BY <1>1, <1>6, NowTrans
<1>8. Stuck(y, since, T)
  <2>1. Act(s).k \notin {"c", "resume"}
    OBVIOUS
  <2>2. Now(y, s, v, Append(Append(s.native, a), b))
    BY <1>7
  <2>3. /\ v.ci = Cur(s).ci /\ b.ci = Len(Cur(s).ci)
        /\ Cur(s).stack # None => a.saved.stack # None
        /\ a.f \notin Boundary /\ Cur(s).stack # None => v.stack # None
    BY <1>2, <1>4
  <2> HIDE DEF M, N
  <2> QED BY <1>2, <2>1, <2>2, <2>3, EnterStuck
<1> HIDE DEF M, N
<1>9. Firm(y) /\ Cur(y) = v /\ Act(y).k # "c"
  <2>1. Steps(y, s, v, N)
    BY <1>2, <1>3, <1>4, <1>7 DEF Steps
  <2>2. Sound(y) /\ Cur(y) = v /\ y.native = N
    BY <1>0, <1>7, <2>1, StepsSound DEF Now
  <2>3. Act(y) = b
    BY <1>3, <2>2 DEF Act
  <2> QED BY <1>2, <1>3, <2>2, <2>3 DEF Firm
<1> QED BY <1>4, <1>5, <1>8, <1>9, LuaDCallStuck

\* A thread was resumed no higher than where its activations are.
LEMMA FloorBelow ==
  ASSUME NEW s, NEW g, State(s, g), NEW since \in [Threads -> Nat], Floors(s.native, since),
         NEW j \in 1 .. Len(g), s.native[j].k # "resume" \/ j = Len(g)
  PROVE  since[s.native[j].th] <= g[j].b + Runs(s.native[j])
<1> DEFINE N == s.native
           u == N[j].th
           B == {k \in 1 .. j - 1 : N[k].th # u}
<1>1. /\ N \in Seq(Activation) /\ Len(N) = Len(g) /\ Len(g) \in Nat /\ N[1].th = Main
      /\ Rising(s.th, N, g) /\ g \in Seq(Level)
  BY StateFacts, BottomFacts DEF State, Shape
<1>2. \A k \in 1 .. Len(g) : /\ N[k] \in Activation /\ N[k].th \in Threads /\ Runs(N[k]) \in Nat
                             /\ g[k].b \in Nat /\ since[N[k].th] \in Nat
  <2> SUFFICES ASSUME NEW k \in 1 .. Len(g)
               PROVE  /\ N[k] \in Activation /\ N[k].th \in Threads /\ Runs(N[k]) \in Nat
                      /\ g[k].b \in Nat /\ since[N[k].th] \in Nat
    OBVIOUS
  <2>1. N[k] \in Activation /\ g[k] \in Level
    BY <1>1, ElementOfSeq
  <2>2. N[k].th \in Threads /\ Runs(N[k]) \in Nat
    BY <2>1 DEF Activation, Runs
  <2> QED BY <2>1, <2>2 DEF Level
<1>3. j \in Nat /\ g[j].b \in Nat /\ Runs(N[j]) \in Nat /\ since[u] \in Nat
  BY <1>1, <1>2
<1>4. CASE B = {}
  <2>1. \A k \in 1 .. j : N[k].th = u
    BY <1>3, <1>4
  <2>2. 1 \in 1 .. j
    BY <1>3
  <2>3. u = Main
    BY <1>1, <2>1, <2>2
  <2>4. since[u] = 0
    BY <2>3 DEF Floors
  <2> QED BY <1>3, <2>4
<1>5. CASE B # {}
  <2> DEFINE q == Max(B)
             m == q + 1
  <2>1. q \in B /\ \A k \in B : k <= q
    <3>1. B \in SUBSET (1 .. j)
      BY <1>3
    <3> HIDE DEF B
    <3> QED BY <1>3, <1>5, <3>1, Greatest
  <2> HIDE DEF q
  <2>2. /\ q \in 1 .. j - 1 /\ N[q].th # u /\ m \in 2 .. Len(g) /\ m <= j /\ m - 1 = q
        /\ m \in 1 .. Len(g)
    BY <1>1, <2>1
  <2>3. \A k \in m .. j : N[k].th = u
    <3>1. ASSUME NEW k \in m .. j PROVE k = j \/ (k \in 1 .. j - 1 /\ ~(k <= q))
      BY <2>2
    <3> QED BY <2>1, <3>1
  <2>4. m \in m .. j
    BY <2>2
  <2>5. N[m].th = u
    BY <2>3, <2>4
  <2>6. N[m].k = "resume"
    <3>1. Link(s.th, N[q], g[q], N[m], g[m])
      BY <2>2, LinkFacts
    <3>2. N[m].th # N[q].th
      BY <2>2, <2>5
    <3> QED
      BY <3>1, <3>2 DEF Link, LinkC, LinkTry, LinkCall, LinkExec, LinkErrMsg, LinkResume
  <2>7. since[u] <= Rest(N, m)
    BY <1>1, <2>2, <2>5, <2>6 DEF Floors
  <2>8. CASE ~(m < Len(N) /\ N[m + 1].k = "exec")
    <3>1. Rest(N, m) = 0
      BY <2>8 DEF Rest
    <3> QED BY <1>3, <2>7, <3>1
  <2>9. CASE m < Len(N) /\ N[m + 1].k = "exec"
    <3>1. Rest(N, m) = Runs(N[m + 1])
      BY <2>9 DEF Rest, Runs
    <3>2. m < j
      BY <1>1, <2>2, <2>6, <2>9
    <3>3. CASE m + 1 = j
      BY <1>3, <2>7, <3>1, <3>3
    <3>4. CASE m + 1 < j
      <4>1. m + 1 \in m .. j /\ m + 1 \in 1 .. Len(N) /\ j \in 1 .. Len(N)
        BY <1>1, <2>2, <3>4
      <4>2. N[m + 1].th = N[j].th
        BY <2>3, <4>1
      <4>3. g[m + 1].b + Runs(N[m + 1]) <= g[j].b
        BY <1>1, <3>4, <4>1, <4>2 DEF Rising
      <4>4. g[m + 1].b \in Nat /\ Runs(N[m + 1]) \in Nat
        BY <1>1, <1>2, <4>1
      <4> QED BY <1>3, <2>7, <3>1, <4>3, <4>4
    <3> QED BY <2>2, <3>2, <3>3, <3>4
  <2> QED BY <2>8, <2>9
<1> QED BY <1>4, <1>5

\* A C function returns to what was there.
LEMMA CReturnStuck ==
  ASSUME NEW s, NEW g, State(s, g), Own(s, g) = 1,
         NEW since \in [Threads -> Nat], NEW T, Stuck(s, since, T)
  PROVE  Stuck(CReturn(s), since, T)
<1> DEFINE t == Cur(s)
           n == Len(t.ci) - 1
           x == Unwind(s, n)
<1>1. /\ Firm(s) /\ Sound(s) /\ Len(t.ci) \in Nat /\ 1 <= Len(t.ci) /\ Run(s) \in Threads
  BY StateFirm, FirmFacts, OwnCalls
<1>2. since[Run(s)] \in Nat /\ since[Run(s)] <= n
  <2>1. /\ Len(g) \in 1 .. Len(g) /\ Run(s) = s.native[Len(g)].th /\ Act(s) = s.native[Len(g)]
        /\ g[Len(g)].b \in Nat /\ Runs(Act(s)) \in Nat
    BY StateFacts
  <2>2. since[Run(s)] <= g[Len(g)].b + Runs(Act(s))
    <3>1. Floors(s.native, since)
      BY DEF Stuck
    <3> QED BY <2>1, <3>1, FloorBelow
  <2> QED BY <1>1, <2>1, <2>2 DEF Own
<1>3. n \in Nat /\ n \in 0 .. Len(t.ci) /\ n <= Len(t.ci)
  BY <1>1
<1> HIDE DEF n
<1>4. PICK u : Now(x, s, u, s.native) /\ Kept(u, t) /\ Keeps(u, t, n)
  BY <1>1, <1>3, UnwindFields DEF Sound
<1>5. CReturn(s) = Do(x, IF Act(s).k = "exec" THEN "run" ELSE "returned")
  BY DEF CReturn, n
<1> HIDE DEF x
<1>6. Len(u.ci) \in Nat /\ (t.stack # None => u.stack # None) /\ Whole(x)
  BY <1>3, <1>4 DEF Kept, Keeps, Now
<1>7. Follows(u, t, since[Run(s)], s.native, Run(s))
  BY <1>1, <1>2, <1>3, <1>4, FollowsKeeps
<1>8. Stuck(x, since, T)
  BY <1>1, <1>4, <1>6, <1>7, StayStuck
<1> QED BY <1>5, <1>6, <1>8, DoStuck

\* Nothing that calls stands above its own protected call.
LEMMA NoneAbove ==
  ASSUME NEW s, NEW g, Good(s, g), s.todo = "throw"
  PROVE  \A k \in Catcher(s) .. Len(s.native) : s.native[k].k # "c"
<1> DEFINE i == Catcher(s)
           B == {k \in 1 .. Len(s.native) : s.native[k].k \in {"try", "resume"}}
<1>1. State(s, g) /\ Act(s).k \in {"exec", "call", "resume"}
  BY DEF Good, Doing
<1>2. i \in 1 .. Len(g) /\ s.native[i].k \in {"try", "resume"}
  BY CatcherFacts
<1>3. Len(g) \in Nat /\ Len(s.native) = Len(g) /\ Act(s) = s.native[Len(g)]
  BY <1>1, StateFacts
<1>4. i = Max(B)
  BY DEF Catcher
<1>5. \A k \in B : k <= i
  <2>1. B \in SUBSET (1 .. Len(g)) /\ B # {}
    BY <1>2, <1>3
  <2> HIDE DEF B, i
  <2> QED BY <1>3, <1>4, <2>1, Greatest
<1> HIDE DEF i
<1>6. ASSUME NEW k \in i .. Len(s.native), s.native[k].k = "c"
      PROVE  FALSE
  <2>1. k \in 1 .. Len(g) /\ k # Len(g)
    BY <1>1, <1>2, <1>3, <1>6
  <2>2. k < Len(g)
    BY <1>3, <2>1
  <2>3. k + 1 \in 1 .. Len(g) /\ s.native[k + 1].k = "try"
    BY <1>1, <1>6, <2>1, <2>2, TryOnC
  <2>4. k + 1 \in B
    BY <1>3, <2>3
  <2> HIDE DEF B
  <2> QED BY <1>2, <1>5, <1>6, <2>1, <2>4
<1> QED BY <1>6 DEF i

\* A thread that has been resumed is not on the C stack below that.
LEMMA ResumedAside ==
  ASSUME NEW s, NEW g, State(s, g), NEW i \in 1 .. Len(g), s.native[i].k = "resume"
  PROVE  \A k \in 1 .. i - 1 : s.native[k].th # s.native[i].th
<1> DEFINE N == s.native
           j == i - 1
<1>1. Len(N) = Len(g) /\ Len(g) \in Nat
  BY StateFacts
<1>2. i \in 2 .. Len(g) /\ j \in 1 .. Len(g) /\ N[j].th # N[i].th
  BY ResumeFacts
<1>3. ASSUME NEW k \in 1 .. j, N[k].th = N[i].th
      PROVE  FALSE
  <2>1. k # j
    BY <1>2, <1>3
  <2>2. k \in 1 .. Len(N) /\ j \in 1 .. Len(N) /\ i \in 1 .. Len(N) /\ k < j /\ j <= i
    BY <1>1, <1>2, <2>1
  <2>3. N[k].th # N[j].th
    BY <1>2, <1>3
  <2>4. Apart(s.th, N)
    BY DEF State, Shape
  <2> HIDE DEF N, j
  <2> QED BY <1>3, <2>2, <2>3, <2>4 DEF Apart
<1> QED BY <1>3

\* Who resumed goes on.
LEMMA HandsStuck ==
  ASSUME NEW s, NEW g, State(s, g), NEW i \in 1 .. Len(g), s.native[i].k = "resume",
         s.native[i].th = Run(s), Within(s, i),
         \A k \in i .. Len(s.native) : s.native[k].k # "c",
         NEW x, NEW u, Cur(s).stack # None => u.stack # None,
         NEW r, Hands(r, s, i, x, u),
         NEW since \in [Threads -> Nat], NEW T, Stuck(s, since, T)
  PROVE  Stuck(r, since, T)
<1> DEFINE N == s.native
           co == Run(s)
           p == i - 1
           from == N[p].th
           M == SubSeq(N, 1, p)
           y == TaintThread(s.th[from], u)
<1>1. /\ s.th \in [Threads -> Thread] /\ N \in Seq(Activation)
      /\ Len(N) = Len(g) /\ Len(g) \in Nat /\ co \in Threads
  BY StateFacts
<1>2. /\ i \in 2 .. Len(g) /\ p \in 1 .. Len(g) /\ from # co /\ from \in Threads
      /\ N[p].k = "exec"
  BY ResumeFacts
<1>3. \A k \in 1 .. p : N[k].th # co
  BY ResumedAside
<1>4. M \in Seq(Activation) /\ Len(M) = p /\ \A k \in 1 .. p : M[k] = N[k]
  <2>1. p \in 0 .. Len(N)
    BY <1>1, <1>2
  <2> HIDE DEF p, N
  <2> QED BY <1>1, <2>1, FirstOnes
<1>5. /\ p + 1 = i /\ p \in 1 .. p /\ p \in Nat
      /\ \A k \in 1 .. p - 1 : k \in 1 .. p
  BY <1>1, <1>2
<1>6. r.native = M /\ r.th = [s.th EXCEPT ![co] = x, ![from] = y]
  BY DEF Hands
<1>7. y.ci = s.th[from].ci /\ y.stack = u.stack
  <2> DEFINE w == s.th[from]
  <2>1. w \in Thread
    BY <1>1, <1>2
  <2> HIDE DEF w
  <2> QED BY <2>1 DEF TaintThread, Thread, w
<1> HIDE DEF M, y, from, p
<1>8. Cur(r).stack = u.stack
  <2>1. Run(r) = from
    BY <1>4, <1>5, <1>6 DEF Run, Act, from
  <2> QED BY <1>1, <1>2, <1>6, <1>7, <2>1 DEF Cur
<1>9. p \in 1 .. Len(M) /\ p \in 1 .. Len(N)
  BY <1>1, <1>2, <1>4, <1>5
<1>13. \A k \in i .. Len(N) : N[k].k # "c" /\ N[k].th = co
  BY DEF Within
<1>14. Along(M, N, p, co)
  <2>1. \A k \in p + 1 .. Len(N) : N[k].k # "c" /\ N[k].th = co
    BY <1>5, <1>13
  <2>2. \A k \in p + 1 .. Len(M) : N[k].k # "c" /\ M[k].k # "c" /\ M[k].th = co
    <3>1. Len(M) = p /\ p \in Nat
      BY <1>4, <1>5
    <3>2. ASSUME NEW k \in p + 1 .. Len(M)
          PROVE  FALSE
      BY <3>1, <3>2
    <3> QED BY <3>2
  <2> QED BY <1>4, <1>5, <1>9, <2>1, <2>2 DEF Along
<1>10. Along(M, N, p, co) /\ Rises(M, N, p)
  BY <1>2, <1>4, <1>5, <1>9, <1>14 DEF Rises
<1>11. Floors(M, since) /\ Among(M, T)
  BY <1>1, <1>4, <1>10, RisesFloors DEF Stuck
<1>12. Sticks(r, since)
  <2>1. Sticks(s, since)
    BY DEF Stuck
  <2>2. ASSUME NEW v \in Threads, NEW k \in Nat, Hot(r.th, r.native, since, v, k)
        PROVE  /\ Hot(s.th, s.native, since, v, k)
               /\ Shadow(r.native, v, k) = Shadow(s.native, v, k)
               /\ \A n \in Shadow(s.native, v, k) : r.native[n] = s.native[n]
    <3>1. On(M, v)
      BY <1>6, <2>2 DEF Hot
    <3>2. v # co
      BY <1>3, <1>4, <3>1 DEF On
    <3>3. r.th[v].ci = s.th[v].ci
      BY <1>1, <1>2, <1>6, <1>7, <3>2
    <3>4. /\ Shadow(M, v, k) = Shadow(N, v, k)
          /\ \A n \in Shadow(N, v, k) : M[n] = N[n]
          /\ On(M, v) <=> On(N, v)
      <4>1. Len(M) \in Nat /\ Len(N) \in Nat /\ N[p].k # "c"
        BY <1>1, <1>2, <1>4, <1>5
      <4>2. N[p].k = "c" /\ N[p].th = v =>
              (p < Len(N) => k <= N[p + 1].ci) /\ (p < Len(M) => k <= M[p + 1].ci)
        BY <4>1
      <4>3. v # co \/ co = N[p].th
        BY <3>2
      <4> HIDE DEF N, co
      <4>4. Alongside(M, N, v, k)
        BY <1>10, <4>1, <4>2, <4>3, ShadowAlong
      <4> QED BY <4>4 DEF Alongside
    <3>5. Hot(s.th, N, since, v, k)
      BY <1>6, <2>2, <3>3, <3>4 DEF Hot
    <3> QED BY <1>6, <3>4, <3>5
  <2> QED BY <1>8, <2>1, <2>2, SticksOn
<1> QED BY <1>6, <1>11, <1>12 DEF Stuck

\* A thread that is not on the C stack is new.
LEMMA AsideStuck ==
  ASSUME NEW s, NEW co, NEW x, NEW r, Aside(r, s, co, x, s.native),
         s.th \in [Threads -> Thread], co \in Threads, Run(r) = Run(s), Cur(r) = Cur(s),
         NEW since, NEW T, Stuck(s, since, T)
  PROVE  Stuck(r, since, T)
<1>1. /\ \A i \in 1 .. Len(s.native) : s.native[i].th # co
      /\ r.th = [s.th EXCEPT ![co] = x] /\ r.native = s.native
  BY DEF Aside
<1>2. Sticks(r, since)
  <2>1. ASSUME NEW v \in Threads, NEW k \in Nat, Hot(r.th, r.native, since, v, k)
        PROVE  Hot(s.th, s.native, since, v, k)
    <3>1. v # co
      BY <1>1, <2>1 DEF Hot, On
    <3>2. r.th[v] = s.th[v]
      BY <1>1, <3>1
    <3> QED BY <1>1, <2>1, <3>2 DEF Hot
  <2>2. Sticks(s, since)
    BY DEF Stuck
  <2> QED BY <1>1, <2>1, <2>2, SticksOn
<1> QED BY <1>1, <1>2 DEF Stuck

-----------------------------------------------------------------------------
(* Coroutines that are made, yield and end *)

\* luaB_cocreate: the new thread is not on the C stack.
LEMMA CreateLeads ==
  ASSUME NEW g, Good(vm, g), Create
  PROVE  Leads
<1>1. vm.todo = "body" /\ Top(vm) = "create"
  BY DEF Create, Body
<1>2. PICK co \in Coroutines, f \in SandboxLua :
        LET old == vm.th[co].ci
            Left(k) == Cardinality({i \in 1 .. Len(old) : old[i] = k})
        IN /\ ~OnCStack(vm, co)
           /\ FoldFunction(+, 0, vm.lost) + Len(old) <= MaxLost
           /\ vm' = CReturn(
                [vm EXCEPT
                   !.lost = [k \in Functions |-> @[k] + Left(k)],
                   !.th[co] = [TaintThread(NewThread, Cur(vm)) EXCEPT !.start = f]])
  BY DEF Create
<1> DEFINE old == vm.th[co].ci
           lost == [k \in Functions |-> vm.lost[k] + Cardinality({i \in 1 .. Len(old) : old[i] = k})]
           x == [TaintThread(NewThread, Cur(vm)) EXCEPT !.start = f]
           r == [vm EXCEPT !.lost = lost, !.th[co] = x]
<1>3. vm' = CReturn(r) /\ ~OnCStack(vm, co)
  BY <1>2
<1>4. State(vm, g) /\ Own(vm, g) = 1 /\ Act(vm).k \in {"exec", "call"} /\ Cur(vm) \in Thread
  BY <1>1, BodyFacts
<1>5. Whole(vm)
  BY <1>4, StateFacts
<1>6. Aside(r, vm, co, x, vm.native) /\ r.nopencalls = vm.nopencalls /\ r.lost = lost
  <2> HIDE DEF lost, x
  <2>1. \A i \in 1 .. Len(vm.native) : vm.native[i].th # co
    BY <1>3 DEF OnCStack
  <2> DEFINE y == [vm EXCEPT !.lost = lost]
  <2>2. /\ Whole(y) /\ y.th = vm.th /\ y.native = vm.native
        /\ y.lost = lost /\ y.nopencalls = vm.nopencalls
    BY <1>5 DEF Whole
  <2>3. r = [y EXCEPT !.th = [y.th EXCEPT ![co] = x]]
    BY <2>2
  <2> HIDE DEF y, r
  <2>4. Whole(r) /\ r.th = [vm.th EXCEPT ![co] = x] /\ r.native = vm.native
    BY <2>2, <2>3 DEF Whole
  <2>5. Quiet(r, y)
    BY <2>2, <2>3 DEF Quiet, Whole
  <2> QED BY <2>1, <2>2, <2>4, <2>5 DEF Aside, Quiet
<1>7. /\ x \in Thread /\ x.ci = <<>> /\ x.size = BasicCI /\ x.status = "ok" /\ x.start = f
      /\ x.errfunc = None
  <2>1. Cur(vm).mode \in Modes /\ Cur(vm).stack \in Taints
    BY <1>4 DEF Thread
  <2>2. f \in Functions /\ <<>> \in Seq(Functions) /\ BasicCI \in Nat
    BY CallsAssumption DEF Functions, LuaFunctions
  <2> DEFINE y == NewThread
             m == Cur(vm).mode
             k == Cur(vm).stack
  <2>3. /\ y \in Thread /\ y.ci = <<>> /\ y.size = BasicCI /\ y.status = "ok"
        /\ y.errfunc = None
    BY <2>2, TaintOfTaints DEF NewThread, Thread, Modes
  <2>4. x = [[y EXCEPT !.mode = m, !.stack = k] EXCEPT !.start = f]
    BY DEF TaintThread
  <2> HIDE DEF x, y, m, k
  <2> QED BY <2>1, <2>2, <2>3, <2>4 DEF Thread, m, k
<1> HIDE DEF x, r
<1>8. Len(x.ci) < x.size
  BY <1>7, CallsAssumption
<1>9. Asleep(x)
  BY <1>7 DEF Asleep, HandlerSuits
<1>10. State(r, g) /\ Act(r) = Act(vm) /\ Cur(r) = Cur(vm)
  BY <1>4, <1>6, <1>7, <1>8, <1>9, SleepState
<1>11. Own(r, g) = 1
  BY <1>4, <1>10 DEF Own
<1>12. Counted(vm) => Counted(r)
  <2>1. vm.th \in [Threads -> Thread] /\ co \in Threads /\ r.th = [vm.th EXCEPT ![co] = x]
    BY <1>4, <1>6, StateFacts DEF Threads, Aside
  <2>2. lost = [k \in Functions |->
                  vm.lost[k] + Cardinality({i \in 1 .. Len(vm.th[co].ci) : vm.th[co].ci[i] = k})]
    OBVIOUS
  <2> HIDE DEF lost
  <2>3. Counted(vm) => Tally([vm.th EXCEPT ![co] = x], vm.nopencalls, lost)
    BY <1>7, <2>1, <2>2, TallyLost DEF Counted
  <2> QED BY <1>6, <2>1, <2>3 DEF Counted
<1>13. Clings(r, vm)
  <2>1. vm.th \in [Threads -> Thread] /\ co \in Threads
    BY <1>4, StateFacts DEF Threads
  <2>2. Run(r) = Run(vm)
    BY <1>10 DEF Run
  <2> SUFFICES ASSUME NEW since \in [Threads -> Nat], NEW T, Stuck(vm, since, T)
               PROVE  Stuck(r, since, T)
    BY DEF Clings
  <2> QED BY <1>6, <1>10, <2>1, <2>2, AsideStuck
<1> QED BY <1>3, <1>4, <1>10, <1>11, <1>12, <1>13 DEF Leads

\* lua_yield.
LEMMA YieldLeads ==
  ASSUME NEW g, Good(vm, g), Yield
  PROVE  Leads
<1> DEFINE co == Run(vm)
           th == Cur(vm)
           y == [th EXCEPT !.status = "yield"]
           x == [y EXCEPT !.nCcalls = @ - 1]
           r == BackFrom(vm, co, Resumer(vm), y)
           i == Catcher(vm)
<1>1. /\ vm.todo = "body" /\ Top(vm) = "yield"
      /\ vm' = IF th.nCcalls > th.baseCcalls THEN Do(vm, "raise") ELSE CReturn(r)
  BY DEF Yield, Body
<1>2. State(vm, g) /\ Own(vm, g) = 1 /\ Act(vm).k \in {"exec", "call"} /\ th \in Thread /\ Now(vm, vm, th, vm.native)
  BY <1>1, BodyFacts
<1>3. CASE th.nCcalls > th.baseCcalls
  <2>1. vm' = Do(vm, "raise")
    BY <1>1, <1>3
  <2>2. Clings(vm, vm)
    BY DEF Clings
  <2> QED BY <1>2, <2>1, <2>2 DEF Leads
<1>4. CASE ~(th.nCcalls > th.baseCcalls)
  <2>1. /\ i \in 1 .. Len(g) /\ vm.native[i].k = "resume" /\ vm.native[i].th = co
        /\ Within(vm, i) /\ Act(vm).k = "exec" /\ i = Len(g) - 1
        /\ Act(vm).n \in Nat /\ 1 <= Act(vm).n /\ Len(th.ci) = Act(vm).n + 1
        /\ RunsIn(th.ci, 0, Act(vm).n, "rw") /\ HandlerSuits(th.errfunc, "rw")
        /\ th.mode = "rw"
    BY <1>1, <1>4, YieldFacts
  <2>2. /\ x \in Thread /\ x.ci = th.ci /\ x.size = th.size /\ x.status = "yield"
        /\ x.errfunc = th.errfunc
    <3>1. y \in Thread /\ y.ci = th.ci /\ y.size = th.size /\ y.status = "yield"
          /\ y.errfunc = th.errfunc /\ y.nCcalls \in Int
      BY <1>2 DEF Thread
    <3> DEFINE c == y.nCcalls - 1
    <3>2. x = [y EXCEPT !.nCcalls = c] /\ c \in Int
      BY <3>1
    <3> HIDE DEF y, c, x
    <3> QED BY <3>1, <3>2 DEF Thread
  <2>3. x = [y EXCEPT !.nCcalls = @ - 1]
    OBVIOUS
  <2> HIDE DEF x, y, r, i
  <2>4. Len(x.ci) < x.size
    BY <1>2, <2>2, StateFacts
  <2>5. Asleep(x)
    <3>1. 2 <= Len(x.ci)
      BY <2>1, <2>2
    <3>2. \A k \in 1 .. Len(x.ci) - 1 : x.ci[k] \in LuaFunctions /\ Suits(x.ci[k], "rw")
      BY <2>1, <2>2 DEF RunsIn
    <3> QED BY <2>1, <2>2, <3>1, <3>2 DEF Asleep
  <2>6. Hands(r, vm, i, x, th)
    BY <1>2, <2>1, <2>3, BackFromHands DEF r, i
  <2>7. PICK h : State(r, h) /\ Own(r, h) = 1 /\ Act(r).k = "exec"
    BY <1>2, <2>1, <2>2, <2>4, <2>5, <2>6, ResumerState
  <2>8. Quiet(r, vm)
    BY <1>2, BackFromQuiet DEF r, Now
  <2>9. Counted(vm) => Counted(r)
    BY <1>2, <2>1, <2>2, <2>6, <2>8, HandsAlike, AlikeCounted
  <2>10. \A k \in i .. Len(vm.native) : vm.native[k].k # "c"
    <3>1. Len(vm.native) = Len(g) /\ Len(g) \in Nat /\ Act(vm) = vm.native[Len(vm.native)]
      BY <1>2, StateFacts DEF Act
    <3>2. \A k \in i .. Len(vm.native) : k = i \/ k = Len(vm.native)
      BY <2>1, <3>1
    <3> QED BY <2>1, <3>1, <3>2
  <2>11. Clings(r, vm)
    BY <1>2, <2>1, <2>6, <2>10, HandsStuck DEF Clings
  <2> QED BY <1>1, <1>4, <2>7, <2>9, <2>11 DEF Leads
<1> QED BY <1>3, <1>4

\* The function of a coroutine returns.
LEMMA FinishLeads ==
  ASSUME NEW g, Good(vm, g), Finish
  PROVE  Leads
<1> DEFINE co == Run(vm)
           th == Cur(vm)
           y == [th EXCEPT !.start = None]
           x == [y EXCEPT !.nCcalls = @ - 1]
           r == BackFrom(vm, co, Resumer(vm), y)
           i == Catcher(vm)
           n == Len(g)
<1>1. /\ vm.todo = "returned" /\ Act(vm).k = "resume" /\ vm' = CReturn(r)
  BY DEF Finish
<1>2. State(vm, g) /\ Fine(th, Act(vm), g[n])
  BY DEF Good, State
<1>3. /\ th \in Thread /\ th.status = "ok" /\ vm.native[n] = Act(vm) /\ n \in Nat /\ 1 <= n
      /\ Run(vm) = vm.native[n].th /\ Len(vm.native) = n /\ Whole(vm)
      /\ vm.th \in [Threads -> Thread] /\ co \in Threads /\ th = vm.th[co] /\ Len(th.ci) < th.size
  BY <1>2, StateFacts
<1>4. i = n
  <2> DEFINE N == vm.native
             S == {k \in 1 .. Len(N) : N[k].k \in {"try", "resume"}}
  <2>1. Max(S) \in S /\ \A k \in S : k <= Max(S)
    <3>1. S \in SUBSET (1 .. Len(N)) /\ n \in S /\ Len(N) \in Nat
      BY <1>1, <1>3
    <3> HIDE DEF S
    <3> QED BY <3>1, Greatest
  <2>2. n \in S
    BY <1>1, <1>3
  <2>3. Max(S) \in 1 .. n /\ n <= Max(S)
    BY <1>3, <2>1, <2>2
  <2>4. i = Max(S)
    BY DEF Catcher
  <2> HIDE DEF S, i
  <2> QED BY <1>3, <2>3, <2>4
<1>5. /\ i \in 1 .. Len(g) /\ vm.native[i].k = "resume" /\ vm.native[i].th = co /\ Within(vm, i)
  BY <1>1, <1>3, <1>4 DEF Within
<1>6. th.mode = "rw"
  <2>1. g[n].m = "rw"
    BY <1>2, <1>4, <1>5, ResumeFacts
  <2> QED BY <1>2, <2>1 DEF Fine
<1>7. x \in Thread /\ x.ci = th.ci /\ x.size = th.size /\ x.status = "ok" /\ x.start = None
  <2>1. y \in Thread /\ y.ci = th.ci /\ y.size = th.size /\ y.status = "ok" /\ y.start = None
        /\ y.nCcalls \in Int
    BY <1>3 DEF Thread
  <2> DEFINE c == y.nCcalls - 1
  <2>2. x = [y EXCEPT !.nCcalls = c] /\ c \in Int
    BY <2>1
  <2> HIDE DEF y, c, x
  <2> QED BY <2>1, <2>2 DEF Thread
<1>8. x = [y EXCEPT !.nCcalls = @ - 1]
  OBVIOUS
<1> HIDE DEF x, y, r, i
<1>9. Asleep(x) /\ Len(x.ci) < x.size
  BY <1>3, <1>7 DEF Asleep
<1>10. Now(vm, vm, th, vm.native)
  BY <1>3 DEF Now
<1>11. Hands(r, vm, i, x, th)
  BY <1>2, <1>5, <1>8, <1>10, BackFromHands DEF r, i
<1>12. PICK h : State(r, h) /\ Own(r, h) = 1 /\ Act(r).k = "exec"
  BY <1>2, <1>3, <1>5, <1>6, <1>7, <1>9, <1>11, ResumerState
<1>13. Quiet(r, vm)
  BY <1>3, BackFromQuiet DEF r
<1>14. Counted(vm) => Counted(r)
  BY <1>2, <1>5, <1>7, <1>11, <1>13, HandsAlike, AlikeCounted
<1>15. Clings(r, vm)
  <2>1. \A k \in i .. Len(vm.native) : vm.native[k].k # "c"
    BY <1>1, <1>3, <1>4
  <2> QED BY <1>2, <1>5, <1>11, <2>1, HandsStuck DEF Clings
<1> QED BY <1>1, <1>12, <1>14, <1>15 DEF Leads

\* The error path of lua_resumefrom.
LEMMA DieLeads ==
  ASSUME NEW g, Good(vm, g), Die
  PROVE  Leads
<1> DEFINE co == Run(vm)
           th == Cur(vm)
           y == [NewThread EXCEPT !.status = "err", !.nCcalls = th.nCcalls, !.size = th.size]
           x == [y EXCEPT !.nCcalls = @ - 1]
           z == Unwind(vm, 0)
           r == BackFrom(z, co, Resumer(vm), y)
           i == Catcher(vm)
           n == Len(g)
<1>1. /\ vm.todo = "throw" /\ vm.native[i].k = "resume"
      /\ vm' \in {Do(r, "raise"), CReturn(r)}
  BY DEF Die
<1>2. State(vm, g) /\ Fine(th, Act(vm), g[n])
  BY DEF Good, State
<1>3. /\ th \in Thread /\ Whole(vm) /\ vm.th \in [Threads -> Thread] /\ co \in Threads
      /\ Len(th.ci) < th.size /\ Len(th.ci) \in Nat /\ th.size \in Nat
  BY <1>2, StateFacts
<1>4. /\ i \in 1 .. Len(g) /\ vm.native[i].th = co /\ Within(vm, i) /\ g[i].m = g[n].m
  BY <1>1, CatcherFacts
<1>5. th.mode = "rw"
  <2>1. g[i].m = "rw"
    BY <1>1, <1>2, <1>4, ResumeFacts
  <2> QED BY <1>2, <1>4, <2>1 DEF Fine
<1>6. /\ x \in Thread /\ x.ci = <<>> /\ x.size = th.size /\ x.status = "err"
  <2> DEFINE c0 == th.nCcalls
             k == th.size
             w == NewThread
  <2>1. /\ w \in Thread /\ w.ci = <<>>
    BY CallsAssumption, TaintOfTaints DEF NewThread, Thread, Modes
  <2>2. c0 \in Int /\ k \in Nat /\ y = [w EXCEPT !.status = "err", !.nCcalls = c0, !.size = k]
    BY <1>3 DEF Thread
  <2> HIDE DEF w, c0, k, x, y
  <2>3. y \in Thread /\ y.ci = <<>> /\ y.size = k /\ y.status = "err" /\ y.nCcalls = c0
    BY <2>1, <2>2 DEF Thread
  <2> DEFINE c == y.nCcalls - 1
  <2>4. x = [y EXCEPT !.nCcalls = c] /\ c \in Int
    BY <2>2, <2>3 DEF x
  <2> HIDE DEF c
  <2>5. x \in Thread /\ x.ci = <<>> /\ x.size = k /\ x.status = "err"
    BY <2>3, <2>4 DEF Thread
  <2> QED BY <2>5 DEF k
<1>7. x = [y EXCEPT !.nCcalls = @ - 1]
  OBVIOUS
<1> HIDE DEF x, y, r, i
<1>8. Asleep(x) /\ Len(x.ci) < x.size
  BY <1>3, <1>6 DEF Asleep
<1>9. PICK u : Now(z, vm, u, vm.native) /\ Kept(u, th) /\ u.ci = <<>>
  <2>1. 0 \in 0 .. Len(th.ci)
    BY <1>3
  <2>2. PICK u : Now(z, vm, u, vm.native) /\ Kept(u, th) /\ Keeps(u, th, 0)
    BY <1>3, <2>1, UnwindFields
  <2>3. u.ci = <<>>
    BY <2>2, EmptySeq DEF Kept, Keeps, Thread
  <2> QED BY <2>2, <2>3
<1>14. Counted(vm) => Counted(z)
  <2>1. 0 \in 0 .. Len(Cur(vm).ci) /\ Sound(vm)
    BY <1>2, <1>3, StateSound
  <2> QED BY <2>1, UnwindCounted
<1> HIDE DEF z
<1>10. u \in Thread /\ u.mode = "rw"
  BY <1>5, <1>9 DEF Kept
<1>11. Hands(r, vm, i, x, u)
  BY <1>1, <1>2, <1>4, <1>7, <1>9, BackFromHands DEF r, i
<1>12. PICK h : State(r, h) /\ Own(r, h) = 1 /\ Act(r).k = "exec"
  BY <1>1, <1>2, <1>4, <1>6, <1>8, <1>10, <1>11, ResumerState
<1>13. Alike(r, z)
  <2> DEFINE from == vm.native[i - 1].th
             v == TaintThread(vm.th[from], u)
  <2>1. Quiet(r, z) /\ Whole(z)
    BY <1>9, BackFromQuiet DEF r, Now
  <2>2. from # co /\ from \in Threads
    BY <1>1, <1>2, <1>4, ResumeFacts
  <2>3. v.ci = vm.th[from].ci
    <3> DEFINE w == vm.th[from]
    <3>1. w \in Thread
      BY <1>3, <2>2
    <3> HIDE DEF w
    <3> QED BY <3>1 DEF TaintThread, Thread, w
  <2>4. r.th = [vm.th EXCEPT ![co] = x, ![from] = v]
    BY <1>11 DEF Hands
  <2>5. z.th = [vm.th EXCEPT ![co] = u]
    BY <1>9 DEF Now
  <2> HIDE DEF from, v
  <2>6. \A t \in Threads : r.th[t].ci = z.th[t].ci
    BY <1>3, <1>6, <1>9, <2>2, <2>3, <2>4, <2>5
  <2> QED BY <2>1, <2>6 DEF Alike
<1>15. Clings(r, vm)
  <2>1. \A k \in i .. Len(vm.native) : vm.native[k].k # "c"
    BY <1>1, NoneAbove DEF i
  <2>2. th.stack # None => u.stack # None
    BY <1>9 DEF Kept
  <2> QED BY <1>1, <1>2, <1>4, <1>11, <2>1, <2>2, HandsStuck DEF Clings
<1>16. Counted(vm) => Counted(r)
  BY <1>13, <1>14, AlikeCounted
<1> QED BY <1>1, <1>12, <1>15, <1>16 DEF Leads

\* So these steps lead to a good state, keep the counts and what taint sticks to.
LEMMA LeadsGood ==
  ASSUME Leads
  PROVE  (\E h : Good(vm', h)) /\ (Counted(vm) => Counted(vm')) /\ Clings(vm', vm)
<1>1. PICK r, h : /\ State(r, h) /\ Own(r, h) = 1 /\ Act(r).k \in {"exec", "call"}
                  /\ vm' \in {CReturn(r), Do(r, "raise")} /\ (Counted(vm) => Counted(r))
                  /\ Clings(r, vm)
  BY DEF Leads
<1>2. Good(CReturn(r), h) /\ Good(Do(r, "raise"), h)
  BY <1>1, CReturnGood, FailGood
<1>3. Counted(r) => Counted(CReturn(r)) /\ Counted(Do(r, "raise"))
  BY <1>1, ReturnCounted
<1>4. Clings(vm', vm)
  <2> SUFFICES ASSUME NEW since \in [Threads -> Nat], NEW T, Stuck(vm, since, T)
               PROVE  Stuck(vm', since, T)
    BY DEF Clings
  <2>1. Stuck(r, since, T) /\ Whole(r)
    BY <1>1, StateFacts DEF Clings
  <2>2. Stuck(CReturn(r), since, T) /\ Stuck(Do(r, "raise"), since, T)
    BY <1>1, <2>1, CReturnStuck, DoStuck
  <2> QED BY <1>1, <2>2
<1> QED BY <1>1, <1>2, <1>3, <1>4

(***************************************************************************)
(* The specification                                                       *)
(***************************************************************************)

\* A new thread is one, and cannot be resumed before it is given a function.
LEMMA NewThreadFacts ==
  /\ NewThread \in Thread /\ NewThread.ci = <<>> /\ NewThread.size = BasicCI
  /\ NewThread.status = "ok" /\ NewThread.errfunc = None /\ NewThread.mode = "disabled"
  /\ NewThread.stack = None /\ NewThread.baseCcalls = 0 /\ NewThread.nCcalls = 0
  /\ Asleep(NewThread)
  BY CallsAssumption, TaintOfTaints DEF NewThread, Thread, Modes, Asleep

\* wowless starts in a good state.
LEMMA InitGood == ASSUME Init PROVE \E g : Good(vm, g)
<1>1. PICK h \in HostLua : vm = Started(h)
  BY DEF Init, Started
<1> DEFINE N == vm.native
           th == vm.th
           g == StartLevels
           t == [NewThread EXCEPT !.ci = <<h>>, !.nCcalls = 1]
<1>2. /\ Whole(vm) /\ vm.todo = "run"
      /\ N = <<[k |-> "try", th |-> Main, ci |-> 0, nCcalls |-> 0, errfunc |-> None],
               [k |-> "call", th |-> Main], [k |-> "exec", th |-> Main, n |-> 1]>>
  BY <1>1, SMTT(30) DEF Whole, Started
<1>3. th = [x \in Threads |-> IF x = Main THEN t ELSE NewThread]
  BY <1>1 DEF Started
<1>4. Main \in Threads /\ h \in HostLua /\ h \in Functions /\ h \in LuaFunctions
  BY DEF Threads, Functions, LuaFunctions
<1>5. /\ t \in Thread /\ t.ci = <<h>> /\ t.size = BasicCI /\ t.nCcalls = 1
      /\ t.status = "ok" /\ t.errfunc = None /\ t.mode = "disabled" /\ t.stack = None
      /\ t.baseCcalls = 0
  <2> DEFINE w == NewThread
             c == <<h>>
  <2>1. c \in Seq(Functions)
    BY <1>4
  <2>2. w \in Thread /\ t = [w EXCEPT !.ci = c, !.nCcalls = 1]
    BY NewThreadFacts
  <2>3. /\ w.size = BasicCI /\ w.status = "ok" /\ w.errfunc = None /\ w.mode = "disabled"
        /\ w.stack = None /\ w.baseCcalls = 0
    BY NewThreadFacts
  <2> HIDE DEF w, c, t
  <2> DEFINE v == [w EXCEPT !.ci = c]
  <2>4. t = [v EXCEPT !.nCcalls = 1]
    BY <2>2
  <2>5. /\ v \in Thread /\ v.ci = c /\ v.size = BasicCI
        /\ v.status = "ok" /\ v.errfunc = None /\ v.mode = "disabled" /\ v.stack = None
        /\ v.baseCcalls = 0
    BY <2>1, <2>2, <2>3 DEF Thread
  <2> HIDE DEF v
  <2>6. /\ t \in Thread /\ t.ci = c /\ t.size = BasicCI /\ t.nCcalls = 1
        /\ t.status = "ok" /\ t.errfunc = None /\ t.mode = "disabled" /\ t.stack = None
        /\ t.baseCcalls = 0
    BY <2>4, <2>5 DEF Thread
  <2> QED BY <2>6 DEF c
<1> HIDE DEF t
<1>6. th \in [Threads -> Thread] /\ th[Main] = t
  BY <1>3, <1>4, <1>5, NewThreadFacts
<1>7. \A x \in Threads : Len(th[x].ci) < th[x].size
  <2>1. 2 <= BasicCI
    BY CallsAssumption
  <2>2. Len(t.ci) = 1 /\ Len(NewThread.ci) = 0
    BY <1>5, NewThreadFacts
  <2>3. BasicCI \in Nat /\ t.size = BasicCI /\ NewThread.size = BasicCI
    BY <1>5, NewThreadFacts, CallsAssumption
  <2> DEFINE w == NewThread
  <2>4. \A x \in Threads : th[x] = t \/ th[x] = w
    BY <1>3
  <2>5. Len(t.ci) < t.size /\ Len(w.ci) < w.size
    BY <2>1, <2>2, <2>3
  <2> HIDE DEF w, th
  <2> QED BY <2>4, <2>5
<1>8. /\ Len(N) = 3 /\ N[1].k = "try" /\ N[2].k = "call" /\ N[3].k = "exec" /\ N[3].n = 1
      /\ N[1].th = Main /\ N[2].th = Main /\ N[3].th = Main
      /\ N[1] = [k |-> "try", th |-> Main, ci |-> 0, nCcalls |-> 0, errfunc |-> None]
      /\ N[2] = [k |-> "call", th |-> Main] /\ N[3] = [k |-> "exec", th |-> Main, n |-> 1]
  BY <1>2
<1>9. N \in Seq(Activation)
  <2>1. \A i \in 1 .. 3 : N[i] \in Activation
    <3>1. N[1] \in Activation
      BY <1>4, <1>8 DEF Activation
    <3>2. N[2] \in Activation
      BY <1>4, <1>8 DEF Activation
    <3>3. N[3] \in Activation
      BY <1>4, <1>8 DEF Activation
    <3> QED BY <3>1, <3>2, <3>3
  <2> QED BY <1>2, <1>8, <2>1
<1>10. /\ g \in Seq(Level) /\ Len(g) = 3
       /\ g[1] = [m |-> "disabled", c |-> 0, b |-> 0]
       /\ g[2] = [m |-> "disabled", c |-> 1, b |-> 0]
       /\ g[3] = [m |-> "disabled", c |-> 1, b |-> 0]
  BY DEF StartLevels, Level, Modes
<1> HIDE DEF N, th, g
<1>11. Runs(N[1]) = 0 /\ Runs(N[2]) = 0 /\ Runs(N[3]) = 1
  BY <1>8 DEF Runs
<1>12. Linked(th, N, g)
  <2>1. Bottom(N[1], g[1])
    BY <1>8, <1>10 DEF Bottom
  <2>2. Link(th, N[1], g[1], N[2], g[2])
    BY <1>8, <1>10 DEF Link, LinkCall
  <2>3. Link(th, N[2], g[2], N[3], g[3])
    <3>1. Suits(h, "disabled")
      BY <1>4, NamesAssumption DEF Suits, CFunctions, LuaFunctions
    <3>2. Len(t.ci) = 1 /\ t.ci[1] = h
      BY <1>5
    <3>3. \A i \in 0 + 1 .. 0 + 1 : t.ci[i] \in LuaFunctions /\ Suits(t.ci[i], "disabled")
      BY <1>4, <3>1, <3>2
    <3>4. LinkExec(th, N[2], g[2], N[3], g[3])
      BY <1>6, <1>8, <1>10, <3>2, <3>3 DEF LinkExec
    <3> QED BY <3>4 DEF Link
  <2>4. \A i \in 2 .. 3 : i = 2 \/ i = 3
    OBVIOUS
  <2>5. \A i \in 2 .. 3 : Link(th, N[i - 1], g[i - 1], N[i], g[i])
    <3> TAKE i \in 2 .. 3
    <3>1. CASE i = 2
      <4>1. i - 1 = 1
        BY <3>1
      <4> QED BY <2>2, <3>1, <4>1
    <3>2. CASE i = 3
      <4>1. i - 1 = 2
        BY <3>2
      <4> QED BY <2>3, <3>2, <4>1
    <3> QED BY <2>4, <3>1, <3>2
  <2> QED BY <1>8, <1>9, <1>10, <2>1, <2>5 DEF Linked
<1>13. \A i \in 1 .. Len(N) : i = 1 \/ i = 2 \/ i = 3
  BY <1>8
<1>14. \A i \in 1 .. Len(N) : N[i].th = Main
  BY <1>8, <1>13
<1>15. Rising(th, N, g)
  <2>1. \A i \in 1 .. Len(N), j \in 1 .. Len(N) :
          j < i => g[j].b + Runs(N[j]) <= g[i].b /\ g[j].c <= g[i].c
    BY <1>8, <1>10, <1>11, <1>13
  <2>2. \A i \in 1 .. Len(N) :
          /\ th[N[i].th].baseCcalls = 0 /\ th[N[i].th].status = "ok"
    BY <1>5, <1>6, <1>14
  <2>3. \A i \in 1 .. Len(N) : 0 <= g[i].c /\ (N[i].k = "call" => 0 < g[i].c)
    BY <1>8, <1>10, <1>13
  <2> QED BY <2>1, <2>2, <2>3 DEF Rising
<1>16. Apart(th, N)
  BY <1>14 DEF Apart
<1>17. Steady(N, g)
  <2>1. \A i \in 1 .. Len(N) : g[i].m = "disabled"
    BY <1>10, <1>13
  <2> QED BY <1>14, <2>1 DEF Steady
<1>18. Rested(th, N)
  <2>1. \A co \in Coroutines : co \in Threads /\ co # Main
    BY NamesAssumption DEF Threads
  <2>2. \A co \in Coroutines : th[co] = NewThread
    BY <1>3, <2>1
  <2> QED BY <2>2, NewThreadFacts DEF Rested
<1>19. Act(vm) = N[3] /\ Run(vm) = Main /\ Cur(vm) = t
  BY <1>6, <1>8 DEF Act, Run, Cur, N, th
<1>20. Len(t.ci) = 1
  BY <1>5
<1>21. Fine(Cur(vm), Act(vm), g[Len(g)])
  <2>1. HandlerSuits(None, "disabled")
    BY DEF HandlerSuits
  <2> DEFINE a == Act(vm)
             l == g[Len(g)]
  <2>2. a.k = "exec" /\ Runs(a) = 1
    BY <1>8, <1>11, <1>19
  <2>3. l.m = "disabled" /\ l.c = 1 /\ l.b = 0
    BY <1>10
  <2> HIDE DEF a, l
  <2>4. Fine(t, a, l)
    BY <1>5, <1>20, <2>1, <2>2, <2>3 DEF Fine
  <2> QED BY <1>19, <2>4 DEF a, l
<1>22. State(vm, g)
  BY <1>2, <1>6, <1>7, <1>12, <1>15, <1>16, <1>17, <1>18, <1>21
     DEF State, Typed, Shape, N, th
<1>23. Doing(vm, g)
  <2>1. Own(vm, g) = 0
    BY <1>10, <1>11, <1>19, <1>20 DEF Own
  <2> QED BY <1>2, <1>8, <1>19, <2>1 DEF Doing
<1> QED BY <1>22, <1>23 DEF Good

\* Once the last protected call is gone nothing happens any more.
LEMMA EndStays == ASSUME vm.todo = "end" PROVE ~Step
<1>1. /\ ~OpCall /\ ~OpTailCall /\ ~OpReturn /\ ~ReadTainted /\ ~RuntimeError
      /\ ~ErrorMsg /\ ~CallReturns /\ ~Catch
  BY DEF OpCall, OpTailCall, OpReturn, ReadTainted, RuntimeError, ErrorMsg, CallReturns,
         Catch, InLua
<1>2. \A f : ~Body(f) /\ ~After(f)
  BY DEF Body, After
<1>3. /\ ~Plain /\ ~Error /\ ~ForceInsecure /\ ~ProtectedCall /\ ~SecureCall /\ ~Delegate
      /\ ~Create /\ ~Resume /\ ~Yield /\ ~Finish /\ ~Die
  BY <1>2 DEF Plain, Error, ForceInsecure, ProtectedCall, SecureCall, Delegate, Create,
              Resume, Yield, Finish, Die
<1>4. ~BubblewrapEnter /\ ~BubblewrapExit /\ ~CallSafely /\ ~CallSandbox
  BY <1>2 DEF BubblewrapEnter, BubblewrapExit, CallSafely, CallSandbox
<1> QED BY <1>1, <1>3, <1>4 DEF Step

\* Every operation leads from a good state to a good one, or to the end.
LEMMA NextGood ==
  ASSUME NEW g, Good(vm, g), Step
  PROVE  vm'.todo = "end" \/ \E h : Good(vm', h)
<1>1. CASE OpCall \/ OpTailCall \/ OpReturn \/ ReadTainted \/ RuntimeError
  BY <1>1, OpCallGood, OpTailCallGood, OpReturnGood, ReadTaintedGood, RuntimeErrorGood, Zenon
<1>2. CASE ErrorMsg \/ CallReturns \/ Catch
  BY <1>2, ErrorMsgGood, CallReturnsGood, CatchGood, Zenon
<1>3. CASE Plain \/ Error \/ ForceInsecure \/ ProtectedCall \/ SecureCall \/ Delegate
  BY <1>3, PlainGood, ErrorGood, ForceInsecureGood, ProtectedCallGood, SecureCallGood,
     DelegateGood, Zenon
<1>4. CASE Create \/ Resume \/ Yield \/ Finish \/ Die
  BY <1>4, CreateLeads, ResumeGood, YieldLeads, FinishLeads, DieLeads, LeadsGood, Zenon
<1>5. CASE BubblewrapEnter \/ BubblewrapExit \/ CallSafely \/ CallSandbox
  BY <1>5, BubblewrapEnterGood, BubblewrapExitGood, CallSafelyGood, CallSandboxGood, Zenon
<1> QED BY <1>1, <1>2, <1>3, <1>4, <1>5, Zenon DEF Step

\* In every state that is reached, the C stack has levels that tell, of every
\* activation on it, the mode, the C calls and the CallInfos of its thread
\* (lsec.h, ldo.c, bubblewrap.c, security.c), or the program has ended.
THEOREM CallsInv == Spec => []IInv
<1>1. Init => IInv
  BY InitGood DEF IInv
<1>2. IInv /\ [Next]_vars => IInv'
  <2> SUFFICES ASSUME IInv, [Next]_vars PROVE IInv'
    OBVIOUS
  <2>1. CASE vm' = vm
    <3>1. \A g : Good(vm, g) => Good(vm', g)
      BY <2>1
    <3>2. CASE vm.todo = "end"
      BY <2>1, <3>2 DEF IInv
    <3>3. CASE \E g : Good(vm, g)
      <4>1. \E g : Good(vm', g)
        BY <3>1, <3>3
      <4> QED BY <4>1 DEF IInv
    <3> QED BY <3>2, <3>3 DEF IInv
  <2>2. CASE Next
    <3>1. CASE vm.todo = "end"
      BY <2>2, <3>1, EndStays DEF Next
    <3>2. CASE \E g : Good(vm, g)
      <4>1. PICK g : Good(vm, g)
        BY <3>2
      <4>2. vm'.todo = "end" \/ \E h : Good(vm', h)
        BY <2>2, <4>1, NextGood DEF Next
      <4> QED BY <4>2 DEF IInv
    <3> QED BY <3>1, <3>2 DEF IInv
  <2> QED BY <2>1, <2>2 DEF vars
<1> QED BY <1>1, <1>2, PTL DEF Spec

\* Code of wowless runs with taint off and nothing tainted, code of addons
\* with taint on, whatever calls, errors, handlers and coroutines came before
\* (bubblewrap.c and modules/security.c switch the mode and assert it).
THEOREM CallsHostClean == Spec => []HostClean
<1>1. IInv => HostClean
  <2> SUFFICES ASSUME IInv, InLua PROVE
        /\ Top(vm) \in HostLua => InHostMode(Cur(vm))
        /\ Top(vm) \in SandboxLua \cup {Handler} => Cur(vm).mode = "rw"
    BY DEF HostClean
  <2>1. vm.todo = "run"
    BY DEF InLua
  <2>2. PICK g : Good(vm, g)
    BY <2>1 DEF IInv
  <2>3. /\ Suits(Top(vm), g[Len(g)].m) /\ Cur(vm).mode = g[Len(g)].m
        /\ Cur(vm).mode = "disabled" => Cur(vm).stack = None
    BY <2>1, <2>2, InLuaFacts
  <2> QED BY <2>3 DEF Suits, InHostMode
<1> QED BY <1>1, CallsInv, PTL

(***************************************************************************)
(* What yields                                                             *)
(***************************************************************************)

\* What is changed of a state in which the thread that runs has come to u.
LEMMA NowQuiet ==
  ASSUME NEW s, NEW x, NEW u, NEW N, Now(x, s, u, N), Quiet(x, s)
  PROVE  /\ Now(Pop(x), s, u, SubSeq(N, 1, Len(N) - 1)) /\ Quiet(Pop(x), s)
         /\ \A v : /\ Now([x EXCEPT !.thetaint = v], s, u, N)
                   /\ Quiet([x EXCEPT !.thetaint = v], s)
<1>1. Whole(x)
  BY DEF Now
<1>2. /\ Now(Pop(x), s, u, SubSeq(N, 1, Len(N) - 1))
      /\ \A v : Now([x EXCEPT !.thetaint = v], s, u, N)
  BY NowCut, NowThetaint
<1>3. Quiet(Pop(x), x) /\ \A v : Quiet([x EXCEPT !.thetaint = v], x)
  BY <1>1, QuietFields
<1> QED BY <1>2, <1>3 DEF Quiet

\* What the C functions that call in protected mode do: they raise, or switch
\* the thread that runs and call.
LEMMA BodyParts ==
  ASSUME NEW g, Good(vm, g), vm.todo = "body", Switch
  PROVE  \/ vm' = Do(vm, "raise")
         \/ \E r, u : \E f \in CFunctions, e \in Functions \cup {None}, f2 \in Functions :
              /\ Same(u, Cur(vm)) /\ Now(r, vm, u, vm.native) /\ Quiet(r, vm)
              /\ f \notin Boundary /\ Cur(vm).stack # None => u.stack # None
              /\ vm' = PCall(r, f, SaveTaint(Cur(vm)), e, f2)
<1> DEFINE t == Cur(vm)
           u1 == [t EXCEPT !.stack = None]
           u2 == [t EXCEPT !.mode = "disabled", !.stack = None]
           u3 == [t EXCEPT !.mode = "rw"]
           x2 == Set(vm, u2)
           z == [x2 EXCEPT !.thetaint = IF t.stack = None THEN @ ELSE t.stack]
           Guards(r, f) == \E e \in Functions \cup {None}, f2 \in Functions :
                             vm' = PCall(r, f, SaveTaint(t), e, f2)
<1>1. State(vm, g) /\ t \in Thread /\ Whole(vm)
  BY BodyFacts, StateFacts
<1>2. Same(t, t) /\ Same(u1, t) /\ Same(u2, t) /\ Same(u3, t)
  BY <1>1, TaintOfTaints DEF Same, Thread, Modes
<1>3. /\ Now(vm, vm, t, vm.native) /\ Quiet(vm, vm)
      /\ Now(Set(vm, u1), vm, u1, vm.native) /\ Quiet(Set(vm, u1), vm)
      /\ Now(x2, vm, u2, vm.native) /\ Quiet(x2, vm)
      /\ Now(Set(vm, u3), vm, u3, vm.native) /\ Quiet(Set(vm, u3), vm)
  BY <1>1, BodyFacts, NowSet, QuietFields DEF Quiet
<1>4. /\ HostLua \subseteq Functions /\ Given \subseteq Functions
      /\ {Logger, Handler} \subseteq Functions /\ SandboxLua \cup {"bubblewrapped"} \subseteq Functions
  <2>1. {"yield", "bubblewrapped"} \subseteq CFunctions
    BY DEF CFunctions
  <2> QED BY <2>1 DEF Given, Targets, Functions, LuaFunctions
<1>5. \/ vm' = Do(vm, "raise")
      \/ \E f \in {"pcall", "xpcall", "securecall", "CallSafely"} : Guards(vm, f)
      \/ Guards(Set(vm, u1), "delegate") \/ Guards(z, "bubblewrapped")
      \/ Guards(Set(vm, u3), "CallSandbox")
  <2>1. CASE ProtectedCall \/ SecureCall \/ CallSafely
    BY <1>4, <2>1 DEF ProtectedCall, SecureCall, CallSafely, After, Body
  <2>2. CASE Delegate
    BY <1>4, <2>2 DEF Delegate, After, Body
  <2>3. CASE BubblewrapEnter
    BY <1>4, <2>3 DEF BubblewrapEnter, Body
  <2>4. CASE CallSandbox
    BY <1>4, <2>4 DEF CallSandbox, After, Body
  <2>5. ~BubblewrapExit
    BY DEF BubblewrapExit, After
  <2> QED BY <2>1, <2>2, <2>3, <2>4, <2>5 DEF Switch
<1>6. /\ {"delegate", "bubblewrapped", "CallSandbox"} \subseteq CFunctions \cap Boundary
      /\ {"pcall", "xpcall", "securecall", "CallSafely"} \subseteq CFunctions
  BY DEF CFunctions, Boundary
<1> HIDE DEF u1, u2, u3, x2
<1>7. Now(z, vm, u2, vm.native) /\ Quiet(z, vm)
  BY <1>3, NowQuiet
<1> HIDE DEF z
<1>8. ASSUME NEW r, NEW f \in CFunctions, NEW u, Guards(r, f), Same(u, t),
             Now(r, vm, u, vm.native), Quiet(r, vm), f \in Boundary \/ u = t
      PROVE  \E v, w : \E k \in CFunctions, e \in Functions \cup {None}, f2 \in Functions :
               /\ Same(w, t) /\ Now(v, vm, w, vm.native) /\ Quiet(v, vm)
               /\ k \notin Boundary /\ t.stack # None => w.stack # None
               /\ vm' = PCall(v, k, SaveTaint(t), e, f2)
  BY <1>8
<1> HIDE DEF t, Guards
<1> QED BY <1>2, <1>3, <1>5, <1>6, <1>7, <1>8 DEF t

\* A protected call from the body of a C function suspends nothing.
LEMMA BodyPCallNoYield ==
  ASSUME NEW g, Good(vm, g), vm.todo = "body", NEW u, Same(u, Cur(vm)),
         NEW r, Now(r, vm, u, vm.native), NEW f \in CFunctions,
         NEW e \in Functions \cup {None}, NEW f2 \in Functions,
         vm' = PCall(r, f, SaveTaint(Cur(vm)), e, f2)
  PROVE  NoYield(vm', vm)
<1> DEFINE saved == SaveTaint(Cur(vm))
<1>1. State(vm, g) /\ Own(vm, g) = 1 /\ saved \in Saved
  BY BodyFacts
<1>2. /\ Sound(vm) /\ vm.native[Len(vm.native)].th = Run(vm)
  BY <1>1, StateSound
<1>3. Cur(vm).nCcalls \in Nat
  BY <1>1, OwnCalls
<1>4. Steps(r, vm, u, vm.native)
  BY <1>2 DEF Steps, Same, Sound
<1>5. Sound(r) /\ NoYield(r, vm) /\ Cur(r) = u
  BY <1>2, <1>4, StepsSound
<1>6. Cur(r) \in Thread /\ Cur(r).nCcalls \in Nat
  BY <1>3, <1>5 DEF Same
<1> HIDE DEF saved
<1>7. NoYield(PCall(r, f, saved, e, f2), r)
  BY <1>1, <1>5, <1>6, PCallNoYield
<1> QED BY <1>5, <1>7 DEF NoYield, saved

\* The C functions that call nothing.
LEMMA LeavesNoYield ==
  ASSUME NEW g, Good(vm, g), vm.todo = "body", Plain \/ Error \/ ForceInsecure \/ Create
  PROVE  NoYield(vm', vm)
<1> DEFINE t == Cur(vm)
<1>1. State(vm, g) /\ Own(vm, g) = 1 /\ t \in Thread
  BY BodyFacts
<1>2. Sound(vm) /\ vm.native[Len(vm.native)].th = Run(vm) /\ NoYield(vm, vm)
  BY <1>1, StateSound DEF NoYield
<1>3. Len(t.ci) \in Nat /\ 1 <= Len(t.ci)
  BY <1>1, OwnCalls
<1>4. NoYield(CReturn(vm), vm) /\ NoYield(Do(vm, "raise"), vm)
  BY <1>2, <1>3, CReturnNoYield, DoNoYield
<1>5. CASE Plain \/ Error
  BY <1>4, <1>5 DEF Plain, Error
<1>6. CASE ForceInsecure
  <2> DEFINE u == [t EXCEPT !.stack = Forced]
             x == Set(vm, u)
  <2>1. vm' \in {CReturn(vm), CReturn(x)}
    BY <1>6 DEF ForceInsecure
  <2>2. u \in Thread /\ u.ci = t.ci /\ u.size = t.size /\ u.status = t.status
    BY <1>1 DEF Thread, Taints
  <2>3. Now(x, vm, u, vm.native)
    BY <1>1, StateFacts, NowSet
  <2> HIDE DEF u, x
  <2>4. Steps(x, vm, u, vm.native)
    BY <1>2, <2>2, <2>3 DEF Steps, Sound
  <2>5. Sound(x) /\ NoYield(x, vm) /\ Cur(x) = u
    BY <1>2, <2>4, StepsSound
  <2>6. NoYield(CReturn(x), x)
    BY <1>3, <2>2, <2>5, CReturnNoYield
  <2> QED BY <1>4, <2>1, <2>5, <2>6 DEF NoYield
<1>7. CASE Create
  <2>1. PICK co \in Coroutines, f \in SandboxLua :
          /\ ~OnCStack(vm, co)
          /\ vm' = CReturn(
               [vm EXCEPT
                  !.lost = [k \in Functions |->
                              @[k] + Cardinality({i \in 1 .. Len(vm.th[co].ci) : vm.th[co].ci[i] = k})],
                  !.th[co] = [TaintThread(NewThread, t) EXCEPT !.start = f]])
    BY <1>7 DEF Create
  <2> DEFINE lost == [k \in Functions |->
                        vm.lost[k] + Cardinality({i \in 1 .. Len(vm.th[co].ci) : vm.th[co].ci[i] = k})]
             x == [TaintThread(NewThread, t) EXCEPT !.start = f]
             y == [vm EXCEPT !.lost = lost]
             r == [vm EXCEPT !.lost = lost, !.th[co] = x]
  <2>2. vm' = CReturn(r)
    BY <2>1
  <2>3. x.status = "ok" /\ x \in Thread
    <3> DEFINE w == NewThread
               m == t.mode
               k == t.stack
               v == [w EXCEPT !.mode = m, !.stack = k]
    <3>1. x = [v EXCEPT !.start = f]
      BY DEF TaintThread
    <3>2. w \in Thread /\ w.status = "ok" /\ m \in Modes /\ k \in Taints
      BY <1>1, NewThreadFacts DEF Thread
    <3> HIDE DEF w, m, k, x
    <3>3. v \in Thread /\ v.status = "ok"
      BY <3>2 DEF Thread
    <3>4. f \in Functions
      BY DEF Functions, LuaFunctions
    <3> HIDE DEF v
    <3> QED BY <3>1, <3>3, <3>4 DEF Thread
  <2> HIDE DEF lost, x
  <2>4. Whole(r) /\ r.th = [vm.th EXCEPT ![co] = x] /\ r.native = vm.native
    <3>1. Whole(y) /\ y.th = vm.th /\ y.native = vm.native
      BY <1>2 DEF Whole, Sound
    <3>2. r = [y EXCEPT !.th = [y.th EXCEPT ![co] = x]]
      BY <3>1
    <3> HIDE DEF y, r
    <3> QED BY <3>1, <3>2 DEF Whole
  <2> HIDE DEF r
  <2>5. co # Run(vm)
    <3>1. Len(vm.native) \in 1 .. Len(vm.native)
      BY <1>1, StateFacts
    <3> QED BY <1>2, <2>1, <3>1 DEF OnCStack
  <2>6. /\ vm.th \in [Threads -> Thread] /\ Run(vm) \in Threads /\ vm.native \in Seq(Activation)
        /\ Len(t.ci) < t.size /\ t = vm.th[Run(vm)]
    BY <1>2 DEF Sound, Cur
  <2>7. Run(r) = Run(vm) /\ Cur(r) = t
    BY <2>4, <2>5, <2>6 DEF Run, Act, Cur
  <2>8. r.th \in [Threads -> Thread] /\ NoYield(r, vm)
    BY <2>3, <2>4, <2>6 DEF NoYield
  <2>9. Sound(r)
    <3> HIDE DEF t
    <3> QED BY <2>4, <2>6, <2>7, <2>8 DEF Sound
  <2>10. NoYield(CReturn(r), r)
    BY <1>3, <2>7, <2>9, CReturnNoYield
  <2> QED BY <2>2, <2>8, <2>10 DEF NoYield
<1> QED BY <1>5, <1>6, <1>7

\* The C functions that call in protected mode suspend nothing.
LEMMA SwitchNoYield ==
  ASSUME NEW g, Good(vm, g), vm.todo = "body", Switch
  PROVE  NoYield(vm', vm)
<1>1. NoYield(Do(vm, "raise"), vm)
  BY BodyFacts, StateSound, DoNoYield DEF NoYield
<1> QED BY <1>1, BodyParts, BodyPCallNoYield

\* In the body of a C function only lua_yield suspends a thread, and it does so
\* on luaV_execute and resume.
LEMMA NextYields ==
  ASSUME NEW g, Good(vm, g), vm.todo = "body", Step, ~NoYield(vm', vm)
  PROVE  LET n == Len(vm.native)
         IN /\ vm.native[n].k = "exec" /\ vm.native[n - 1].k = "resume"
            /\ vm.native[n - 1].th = vm.native[n].th
            /\ vm.native[n].n = Len(Cur(vm).ci) - 1
<1>1. /\ ~OpCall /\ ~OpTailCall /\ ~OpReturn /\ ~ReadTainted /\ ~RuntimeError
      /\ ~ErrorMsg /\ ~CallReturns /\ ~Catch /\ ~Finish /\ ~Die /\ ~BubblewrapExit
  BY DEF OpCall, OpTailCall, OpReturn, ReadTainted, RuntimeError, ErrorMsg, CallReturns,
         Catch, InLua, Finish, Die, BubblewrapExit, After
<1>2. /\ ~Plain /\ ~Error /\ ~ForceInsecure /\ ~Create
  BY LeavesNoYield
<1>3. ~Switch
  BY SwitchNoYield
<1>4. ~Resume
  BY ResumeGood
<1>5. Yield
  BY <1>1, <1>2, <1>3, <1>4 DEF Step, Switch
<1>6. State(vm, g) /\ Len(vm.native) = Len(g) /\ Act(vm) = vm.native[Len(g)]
      /\ Run(vm) = vm.native[Len(g)].th
  BY BodyFacts, StateFacts
<1>7. Top(vm) = "yield" /\ ~(Cur(vm).nCcalls > Cur(vm).baseCcalls)
  <2>1. NoYield(Do(vm, "raise"), vm)
    BY <1>6, StateSound, DoNoYield DEF NoYield
  <2> QED BY <1>5, <2>1 DEF Yield, Body
<1>8. /\ Act(vm).k = "exec" /\ vm.native[Len(g) - 1].k = "resume"
      /\ vm.native[Len(g) - 1].th = Run(vm)
      /\ Act(vm).n \in Nat /\ Len(Cur(vm).ci) = Act(vm).n + 1
  BY <1>7, YieldFacts
<1>9. vm.native[Len(g)].n = Len(Cur(vm).ci) - 1
  BY <1>6, <1>8
<1> QED BY <1>6, <1>8, <1>9

\* A coroutine yields only when nothing but its own luaV_execute and resume
\* stands on the C stack above its resumer: lua_yield's test of nCcalls against
\* baseCcalls sees every C call in between (ldo.c:517), with the functions on
\* coroutines that the sandbox has: coroutine.call is not among them.
THEOREM CallsYieldLosesNothing == Spec => YieldLosesNothing
<1> DEFINE Kind ==
      (vm.todo = "body" /\ \E co \in Coroutines :
         vm.th[co].status = "ok" /\ vm'.th[co].status = "yield")
      => LET n == Len(vm.native)
         IN /\ vm.native[n].k = "exec" /\ vm.native[n - 1].k = "resume"
            /\ vm.native[n - 1].th = vm.native[n].th
            /\ vm.native[n].n = Len(Cur(vm).ci) - 1
<1>1. IInv /\ [Next]_vars => [Kind]_vars
  <2> SUFFICES ASSUME IInv, Next, vm.todo = "body",
                      NEW co \in Coroutines,
                      vm.th[co].status = "ok", vm'.th[co].status = "yield"
               PROVE  Kind
    BY DEF vars
  <2>1. PICK g : Good(vm, g)
    BY DEF IInv
  <2>2. ~NoYield(vm', vm)
    BY DEF NoYield, Threads
  <2> QED BY <2>1, <2>2, NextYields DEF Next
<1>2. [][Kind]_vars <=> YieldLosesNothing
  BY DEF YieldLosesNothing
<1> QED BY <1>1, <1>2, CallsInv, PTL DEF Spec

(***************************************************************************)
(* What is counted                                                         *)
(***************************************************************************)

\* OP_CALL.
LEMMA OpCallCounted ==
  ASSUME NEW g, Good(vm, g), Counted(vm), OpCall
  PROVE  Counted(vm')
<1>1. vm.todo = "run"
  BY DEF OpCall, InLua
<1>2. PICK f \in Callable(Top(vm)) : vm' = Precall(vm, f)
  BY DEF OpCall
<1>3. State(vm, g) /\ f \in Functions
  BY <1>1, InLuaFacts, CallableSuits
<1> QED BY <1>2, <1>3, StateSound, PrecallCounted

\* OP_TAILCALL: one call less and one more.
LEMMA OpTailCallCounted ==
  ASSUME NEW g, Good(vm, g), Counted(vm), OpTailCall
  PROVE  Counted(vm')
<1> DEFINE n == Len(Cur(vm).ci)
           m == Run(vm)
<1>1. vm.todo = "run"
  BY DEF OpTailCall, InLua
<1>2. PICK f \in Callable(Top(vm)) \cap LuaFunctions :
        LET s == PushFrame(vm, f)
            t == Cur(s)
            k == Len(t.ci)
            moved == [t EXCEPT !.ci = Append(SubSeq(@, 1, k - 2), f), !.fixed = None]
        IN vm' = IF s.todo # "run" THEN s
                 ELSE [Set(s, Reenter(moved, f))
                         EXCEPT !.nopencalls[t.ci[k - 1]] = @ - 1]
  BY DEF OpTailCall
<1> DEFINE s == PushFrame(vm, f)
<1>3. /\ State(vm, g) /\ Act(vm).k = "exec" /\ Top(vm) \in LuaFunctions
      /\ Suits(Top(vm), g[Len(g)].m) /\ Act(vm).n \in Nat /\ 1 <= Act(vm).n
      /\ n = g[Len(g)].b + Act(vm).n
  BY <1>1, InLuaFacts
<1>4. f \in Functions /\ f \in LuaFunctions
  BY <1>3, CallableSuits
<1>5. /\ Whole(vm) /\ vm.th \in [Threads -> Thread] /\ m \in Threads /\ Cur(vm) = vm.th[m]
      /\ Len(Cur(vm).ci) < Cur(vm).size /\ n \in Nat /\ Cur(vm) \in Thread /\ g[Len(g)].b \in Nat
  BY <1>3, StateFacts
<1>6. 1 <= n
  BY <1>3, <1>5
<1>7. PICK u : /\ Now(s, vm, u, vm.native) /\ Kept(u, Cur(vm))
               /\ \/ s.todo = "run" /\ Enters(u, Cur(vm), f)
                  \/ s.todo \in {"raise", "throw"} /\ Keeps(u, Cur(vm), n)
  BY <1>4, <1>5, PushFrameFields
<1>8. Run(s) = m /\ Cur(s) = u
  <2> HIDE DEF s
  <2> QED BY <1>3, <1>7, NowRun
<1>9. CASE s.todo # "run"
  <2>1. vm' = s
    BY <1>2, <1>9
  <2> QED BY <1>3, <1>4, <2>1, StateSound, PushFrameCounted
<1>10. CASE s.todo = "run"
  <2> DEFINE d == SubSeq(u.ci, 1, Len(u.ci) - 2)
             c == Append(d, f)
             moved == [u EXCEPT !.ci = c, !.fixed = None]
             v == Reenter(moved, f)
             x == Set(s, v)
             z == [x EXCEPT !.nopencalls[u.ci[Len(u.ci) - 1]] = @ - 1]
             last == Cur(vm).ci[n]
             cut == [Cur(vm) EXCEPT !.ci = d]
  <2>1. vm' = z
    BY <1>2, <1>8, <1>10
  <2>2. /\ Len(u.ci) = n + 1 /\ Len(u.ci) < u.size
        /\ \A i \in 1 .. n : u.ci[i] = Cur(vm).ci[i]
    BY <1>7, <1>10 DEF Enters
  <2>3. u \in Thread /\ u.ci \in Seq(Functions) /\ u.size \in Nat /\ Cur(vm).ci \in Seq(Functions)
    <3>1. u \in Thread
      BY <1>7 DEF Kept
    <3> QED BY <1>5, <3>1 DEF Thread
  <2>4. Len(u.ci) - 1 = n /\ u.ci[n] = last /\ last \in Functions
    <3>1. n \in 1 .. n
      BY <1>5, <1>6
    <3>2. u.ci[n] = last /\ last \in Functions
      BY <2>2, <2>3, <3>1, ElementOfSeq
    <3> QED BY <1>5, <2>2, <3>2
  <2>5. d \in Seq(Functions) /\ Len(d) = n - 1 /\ \A i \in 1 .. n - 1 : d[i] = Cur(vm).ci[i]
    <3>1. n - 1 \in 0 .. Len(u.ci) /\ Len(u.ci) - 2 = n - 1
      BY <1>5, <1>6, <2>2, SMTT(60)
    <3>2. d \in Seq(Functions) /\ Len(d) = n - 1 /\ \A i \in 1 .. n - 1 : d[i] = u.ci[i]
      BY <2>3, <3>1, FirstOnes
    <3>3. \A i \in 1 .. n - 1 : i \in 1 .. n
      BY <1>5
    <3> QED BY <2>2, <3>2, <3>3
  <2> HIDE DEF d
  <2>6. cut \in Thread /\ cut.ci = d
    BY <1>5, <2>5 DEF Thread
  <2>7. c \in Seq(Functions) /\ Len(c) = n /\ c[n] = f /\ \A i \in 1 .. n - 1 : c[i] = d[i]
    <3>1. Len(d) + 1 = n
      BY <1>5, <2>5
    <3> QED BY <1>4, <2>5, <3>1, OneMore
  <2> HIDE DEF c
  <2>8. moved \in Thread /\ moved.ci = c /\ moved.size = u.size
    BY <2>3, <2>7, TaintOfTaints DEF Thread
  <2>9. Len(moved.ci) < moved.size
    BY <1>5, <2>2, <2>3, <2>7, <2>8
  <2> HIDE DEF moved
  <2>10. v.ci = c /\ v \in Thread /\ Len(v.ci) < v.size
    <3>1. Kept(v, moved) /\ Keeps(v, moved, Len(moved.ci)) /\ v.ci = moved.ci
      BY <2>8, <2>9, ReenterKept
    <3> QED BY <2>8, <3>1 DEF Kept, Keeps
  <2> HIDE DEF v
  <2>11. Enters(v, cut, f)
    <3>1. Len(d) + 1 = n
      BY <1>5, <2>5
    <3> QED BY <2>5, <2>6, <2>7, <2>10, <3>1 DEF Enters
  <2>12. /\ z.th = [vm.th EXCEPT ![m] = v] /\ z.lost = vm.lost
         /\ z.nopencalls = [s.nopencalls EXCEPT ![last] = @ - 1]
    <3> HIDE DEF s, last
    <3>1. Whole(s) /\ s.th = [vm.th EXCEPT ![m] = u]
      BY <1>7 DEF Now
    <3>2. s.lost = vm.lost
      BY <1>3, <1>4, <1>10, StateSound, PushFrameOpens DEF s
    <3>3. Whole(x) /\ x.th = [s.th EXCEPT ![m] = v] /\ Quiet(x, s)
      BY <1>8, <3>1, SetFields, QuietFields
    <3> HIDE DEF x
    <3>4. z = [x EXCEPT !.nopencalls[last] = @ - 1]
      BY <2>4
    <3> HIDE DEF z
    <3>5. z.th = x.th /\ z.lost = x.lost /\ z.nopencalls = [x.nopencalls EXCEPT ![last] = @ - 1]
      BY <3>3, <3>4 DEF Whole
    <3> QED BY <3>1, <3>2, <3>3, <3>5 DEF Quiet
  <2>13. s.nopencalls = [vm.nopencalls EXCEPT ![f] = @ + 1]
    BY <1>3, <1>4, <1>10, StateSound, PushFrameOpens
  <2> DEFINE th1 == [vm.th EXCEPT ![m] = cut]
             open1 == [vm.nopencalls EXCEPT ![last] = @ - 1]
  <2> HIDE DEF cut, last, s, x, z
  <2>14. Tally(th1, open1, vm.lost)
    <3>1. vm.th[m].ci[n] = last /\ Len(vm.th[m].ci) = n
      BY <1>5 DEF last
    <3>2. Tally(vm.th, vm.nopencalls, vm.lost)
      BY DEF Counted
    <3> HIDE DEF n, m
    <3>3. Leaves(th1, vm.th, m, n - 1)
      <4>1. th1[m] = cut /\ \A x0 \in Threads : x0 # m => th1[x0] = vm.th[x0]
        BY <1>5
      <4> HIDE DEF th1
      <4> QED BY <1>5, <1>6, <2>5, <2>6, <3>1, <4>1 DEF Leaves
    <3> HIDE DEF th1
    <3> QED BY <1>5, <1>6, <2>4, <3>1, <3>2, <3>3, TallyLeaves
  <2>15. th1 \in [Threads -> Thread] /\ th1[m] = cut
    <3> HIDE DEF m
    <3> QED BY <1>5, <2>6
  <2>16. Tally([th1 EXCEPT ![m] = v], [open1 EXCEPT ![f] = @ + 1], vm.lost)
    <3> HIDE DEF th1, open1, m
    <3> QED BY <1>4, <1>5, <2>10, <2>11, <2>14, <2>15, TallyEnters
  <2>17. [th1 EXCEPT ![m] = v] = z.th
    <3> HIDE DEF m
    <3> QED BY <1>5, <2>12
  <2>18. [open1 EXCEPT ![f] = @ + 1] = z.nopencalls
    <3> DEFINE open == vm.nopencalls
               A == [open1 EXCEPT ![f] = @ + 1]
    <3>1. open \in [Functions -> Int]
      BY DEF Counted, Tally
    <3>2. /\ A \in [Functions -> Int]
          /\ \A h \in Functions : A[h] = IF h = f THEN open1[h] + 1 ELSE open1[h]
          /\ \A h \in Functions : open1[h] = IF h = last THEN open[h] - 1 ELSE open[h]
      <4>1. /\ open1 \in [Functions -> Int]
            /\ \A h \in Functions : open1[h] = IF h = last THEN open[h] - 1 ELSE open[h]
        BY <2>4, <3>1
      <4> HIDE DEF open1
      <4> QED BY <1>4, <4>1
    <3> HIDE DEF open, A
    <3>3. /\ s.nopencalls \in [Functions -> Int]
          /\ \A h \in Functions : s.nopencalls[h] = IF h = f THEN open[h] + 1 ELSE open[h]
      <4> DEFINE p == s.nopencalls
      <4>1. p = [open EXCEPT ![f] = @ + 1]
        BY <2>13 DEF open
      <4> HIDE DEF p
      <4>2. /\ p \in [Functions -> Int]
            /\ \A h \in Functions : p[h] = IF h = f THEN open[h] + 1 ELSE open[h]
        BY <1>4, <3>1, <4>1
      <4> QED BY <4>2 DEF p
    <3>4. /\ z.nopencalls \in [Functions -> Int]
          /\ \A h \in Functions : z.nopencalls[h] = IF h = last THEN s.nopencalls[h] - 1
                                                     ELSE s.nopencalls[h]
      <4> DEFINE p == s.nopencalls
                 q == z.nopencalls
      <4>1. q = [p EXCEPT ![last] = @ - 1] /\ p \in [Functions -> Int]
        BY <2>12, <3>3
      <4> HIDE DEF p, q
      <4>2. /\ q \in [Functions -> Int]
            /\ \A h \in Functions : q[h] = IF h = last THEN p[h] - 1 ELSE p[h]
        BY <2>4, <4>1
      <4> QED BY <4>2 DEF p, q
    <3>5. ASSUME NEW h \in Functions PROVE A[h] = z.nopencalls[h]
      BY <3>1, <3>2, <3>3, <3>4
    <3>6. A = z.nopencalls
      BY <3>2, <3>4, <3>5
    <3> QED BY <3>6 DEF A
  <2>19. Counted(z)
    BY <2>12, <2>16, <2>17, <2>18 DEF Counted
  <2> QED BY <2>1, <2>19
<1> QED BY <1>9, <1>10

\* OP_RETURN.
LEMMA OpReturnCounted ==
  ASSUME NEW g, Good(vm, g), Counted(vm), OpReturn
  PROVE  Counted(vm')
<1> DEFINE n == Len(Cur(vm).ci) - 1
           s == Unwind(vm, n)
           k == Act(vm).n - 1
           x == Set(s, Reenter(Cur(s), Top(s)))
           y == [x EXCEPT !.native[Len(s.native)].n = k]
           N == [x.native EXCEPT ![Len(s.native)].n = k]
<1>1. vm.todo = "run" /\ vm' = IF k = 0 THEN Do(Pop(s), "returned") ELSE y
  BY DEF OpReturn, InLua
<1>2. /\ State(vm, g) /\ Act(vm).k = "exec" /\ Act(vm).n \in Nat /\ 1 <= Act(vm).n
      /\ Len(Cur(vm).ci) = g[Len(g)].b + Act(vm).n
  BY <1>1, InLuaFacts
<1>3. Sound(vm) /\ Len(Cur(vm).ci) \in Nat /\ g[Len(g)].b \in Nat
  BY <1>2, StateSound, StateFacts
<1>4. n \in 0 .. Len(Cur(vm).ci)
  BY <1>2, <1>3
<1> HIDE DEF n
<1>5. Counted(s)
  BY <1>3, <1>4, UnwindCounted
<1>6. PICK u : Now(s, vm, u, vm.native) /\ Kept(u, Cur(vm)) /\ Keeps(u, Cur(vm), n)
  BY <1>3, <1>4, UnwindFields DEF Sound
<1> HIDE DEF s
<1>7. Sound(s) /\ Cur(s) = u
  <2>1. Steps(s, vm, u, vm.native)
    BY <1>2, <1>3, <1>6, StateSound DEF Steps, Kept, Keeps, Sound
  <2> QED BY <1>3, <2>1, StepsSound
<1>8. Counted(Do(Pop(s), "returned"))
  <2>1. Alike(Pop(s), s) /\ Whole(Pop(s))
    BY <1>7, PopFields, QuietFields DEF Alike, Sound
  <2> QED BY <1>5, <2>1, AlikeDo, AlikeCounted
<1>9. Counted(y)
  <2>1. Reenter(Cur(s), Top(s)).ci = Cur(s).ci
    BY <1>6, <1>7, ReenterKept DEF Kept, Keeps
  <2>2. Now(x, s, Reenter(Cur(s), Top(s)), s.native) /\ Quiet(x, s)
    BY <1>7, NowSet, QuietFields DEF Sound
  <2>3. Alike(x, s) /\ Whole(x)
    BY <1>7, <2>1, <2>2, AlikeNow DEF Sound, Now
  <2> HIDE DEF x
  <2>4. y = [x EXCEPT !.native = N]
    BY <2>3 DEF Whole
  <2> HIDE DEF N, y
  <2>5. Alike(y, x)
    BY <2>3, <2>4, NativeFields, QuietFields DEF Alike
  <2> QED BY <1>5, <2>3, <2>5, AlikeCounted
<1> QED BY <1>1, <1>8, <1>9

\* An instruction that reads something tainted.
LEMMA ReadTaintedCounted ==
  ASSUME NEW g, Good(vm, g), Counted(vm), ReadTainted
  PROVE  Counted(vm')
<1>1. PICK taint \in ReadTaints : vm' = Set(vm, TaintStack(Cur(vm), taint))
  BY DEF ReadTainted
<1>2. State(vm, g)
  BY DEF Good
<1>3. Sound(vm) /\ Cur(vm) \in Thread
  BY <1>2, StateSound
<1> DEFINE u == TaintStack(Cur(vm), taint)
<1>4. u.ci = Cur(vm).ci
  BY <1>3, TaintStackKept DEF Taints, Sound
<1> HIDE DEF u
<1>5. Now(vm', vm, u, vm.native) /\ Quiet(vm', vm)
  BY <1>1, <1>3, NowSet, QuietFields DEF Sound, u
<1> QED BY <1>3, <1>4, <1>5, AlikeNow, AlikeCounted DEF Sound

\* luaG_errormsg.
LEMMA ErrorMsgCounted ==
  ASSUME NEW g, Good(vm, g), Counted(vm), ErrorMsg
  PROVE  Counted(vm')
<1> DEFINE a == [k |-> "errmsg", th |-> Run(vm)]
           s == Push(vm, a)
           e == Cur(vm).errfunc
<1>1. vm' = IF e = None THEN Do(vm, "throw") ELSE LuaDCall(s, e)
  BY DEF ErrorMsg
<1>2. State(vm, g)
  BY DEF Good
<1>3. Sound(vm) /\ Cur(vm) \in Thread /\ e \in Functions \cup {None}
  BY <1>2, StateSound DEF Thread
<1>4. Alike(s, vm) /\ Whole(s) /\ s.th = vm.th /\ s.native = Append(vm.native, a)
  BY <1>3, PushFields, QuietFields DEF Alike, Sound
<1>5. a \in Activation /\ a.th = Run(vm)
  BY <1>3 DEF Activation, Sound
<1> HIDE DEF s, a
<1>6. s.native \in Seq(Activation) /\ s.native[Len(s.native)] = a
  BY <1>3, <1>4, <1>5, OneMore DEF Sound
<1>7. Run(s) = Run(vm) /\ Cur(s) = Cur(vm)
  BY <1>4, <1>5, <1>6 DEF Run, Act, Cur
<1>8. Sound(s)
  BY <1>3, <1>4, <1>6, <1>7 DEF Sound
<1>9. e # None => Counted(LuaDCall(s, e))
  BY <1>3, <1>4, <1>7, <1>8, AlikeCounted, LuaDCallCounted
<1> QED BY <1>1, <1>3, <1>9, AlikeDo, AlikeCounted DEF Sound

\* luaD_call returns.
LEMMA CallReturnsCounted ==
  ASSUME NEW g, Good(vm, g), Counted(vm), CallReturns
  PROVE  Counted(vm')
<1> DEFINE n == Len(vm.native)
           u == [Cur(vm) EXCEPT !.nCcalls = @ - 1]
           x == Set(vm, u)
           s1 == Pop(x)
           v == [Cur(s1) EXCEPT !.errfunc = Act(s1).errfunc]
           y == Set(s1, v)
           s2 == Pop(y)
           w == IF Ended(s2) THEN "end" ELSE "ok"
<1>1. /\ Act(vm).k = "call"
      /\ vm' = IF Act(s1).k = "errmsg" THEN Do(Pop(s1), "throw") ELSE Do(s2, w)
  BY DEF CallReturns
<1>2. State(vm, g)
  BY DEF Good
<1>3. Sound(vm) /\ Cur(vm) \in Thread
  BY <1>2, StateSound
<1>4. n \in Nat /\ 2 <= n
  <2>1. n \in Nat /\ 1 <= n /\ Bottom(vm.native[1], g[1])
    BY <1>2, StateFacts DEF State, Shape, Linked
  <2>2. n # 1
    BY <1>1, <2>1 DEF Act, Bottom
  <2> HIDE DEF n
  <2> QED BY <2>1, <2>2
<1>5. u.ci = Cur(vm).ci
  BY <1>3 DEF Thread
<1> HIDE DEF u
<1>6. Alike(x, vm) /\ Now(x, vm, u, vm.native) /\ Whole(x)
  <2>1. Now(x, vm, u, vm.native) /\ Quiet(x, vm) /\ Whole(x)
    BY <1>3, NowSet, QuietFields DEF Sound, Now
  <2> QED BY <1>3, <1>5, <2>1, AlikeNow DEF Sound
<1> HIDE DEF x
<1>7. /\ Alike(s1, x) /\ Whole(s1) /\ s1.th = x.th
      /\ s1.native = SubSeq(vm.native, 1, n - 1)
  BY <1>6, PopFields, QuietFields DEF Alike, Now
<1> HIDE DEF s1
<1>8. Run(s1) \in Threads
  <2>1. n - 1 \in 0 .. n /\ n - 1 \in Nat /\ n - 1 \in 1 .. n - 1 /\ n - 1 \in 1 .. n
    BY <1>4
  <2>2. Len(s1.native) = n - 1 /\ s1.native[n - 1] = vm.native[n - 1]
    BY <1>3, <1>7, <2>1, FirstOnes DEF Sound
  <2>3. vm.native[n - 1] \in Activation
    BY <1>3, <2>1, ElementOfSeq DEF Sound
  <2> QED BY <2>2, <2>3 DEF Run, Act, Activation
<1>9. x.th \in [Threads -> Thread]
  <2>1. u \in Thread
    BY <1>3 DEF Thread, u
  <2> QED BY <1>3, <1>6, <2>1 DEF Now, Sound
<1>10. Cur(s1) \in Thread /\ v.ci = Cur(s1).ci
  <2>1. Cur(s1) \in Thread
    BY <1>7, <1>8, <1>9 DEF Cur
  <2> QED BY <2>1 DEF Thread
<1> HIDE DEF v
<1>11. Alike(y, s1) /\ Whole(y)
  <2>1. Now(y, s1, v, s1.native) /\ Quiet(y, s1) /\ Whole(y)
    BY <1>7, NowSet, QuietFields DEF Now
  <2> QED BY <1>7, <1>8, <1>9, <1>10, <2>1, AlikeNow
<1> HIDE DEF y
<1>12. Alike(s2, y) /\ Whole(s2) /\ Alike(Pop(s1), s1) /\ Whole(Pop(s1))
  BY <1>7, <1>11, PopFields, QuietFields DEF Alike
<1>13. Counted(s1)
  BY <1>6, <1>7, AlikeCounted
<1> HIDE DEF s2, w
<1>14. Counted(Do(Pop(s1), "throw")) /\ Counted(Do(s2, w))
  BY <1>11, <1>12, <1>13, AlikeDo, AlikeCounted
<1> QED BY <1>1, <1>14

\* The error path of luaD_pcall closes the calls above the protected one.
LEMMA CatchCounted ==
  ASSUME NEW g, Good(vm, g), Counted(vm), Catch
  PROVE  Counted(vm')
<1> DEFINE try == vm.native[Catcher(vm)]
<1>1. /\ State(vm, g) /\ try \in Activation /\ try.k = "try" /\ try.ci = g[Catcher(vm)].b
      /\ g[Catcher(vm)].b <= Len(Cur(vm).ci)
  BY CatchParts
<1>2. PICK s, t0, x : /\ Now(s, vm, t0, vm.native) /\ Run(s) = Run(vm) /\ Cur(s) = t0
                      /\ t0 \in Thread /\ t0.ci = Cur(vm).ci /\ t0.size = Cur(vm).size
                      /\ t0.status = Cur(vm).status /\ Quiet(s, vm)
                      /\ x = Unwind(s, try.ci) /\ Alike(vm', x)
  <2> HIDE DEF try
  <2> QED BY CatchParts DEF try
<1>3. Sound(vm) /\ vm.native[Len(vm.native)].th = Run(vm) /\ Len(Cur(vm).ci) \in Nat
  BY <1>1, StateSound, StateFacts
<1>4. try.ci \in Nat
  BY <1>1 DEF Activation
<1> HIDE DEF try
<1>5. Sound(s)
  <2>1. Steps(s, vm, t0, vm.native)
    BY <1>2, <1>3 DEF Steps, Sound
  <2> QED BY <1>3, <2>1, StepsSound
<1>6. Counted(s)
  BY <1>2, <1>3, AlikeNow, AlikeCounted DEF Sound
<1>7. try.ci \in 0 .. Len(Cur(s).ci)
  BY <1>1, <1>2, <1>3, <1>4 DEF try
<1>8. Counted(x)
  BY <1>2, <1>5, <1>6, <1>7, UnwindCounted
<1> QED BY <1>2, <1>8, AlikeCounted

\* An instruction that fails, luaB_error and C functions that only return.
LEMMA PlainCounted ==
  ASSUME NEW g, Good(vm, g), Counted(vm), RuntimeError \/ Plain \/ Error
  PROVE  Counted(vm')
<1>1. State(vm, g) /\ Whole(vm)
  BY StateFacts DEF Good
<1>2. \A w : Counted(Do(vm, w))
  BY <1>1, AlikeDo, AlikeCounted
<1>3. CASE Plain
  <2>1. vm.todo = "body" /\ Top(vm) = "plain" /\ vm' = CReturn(vm)
    BY <1>3 DEF Plain, Body
  <2>2. State(vm, g) /\ Own(vm, g) = 1
    BY <2>1, BodyFacts
  <2> QED BY <2>1, <2>2, ReturnCounted
<1> QED BY <1>2, <1>3 DEF RuntimeError, Error

\* luaL_forceinsecure.
LEMMA ForceInsecureCounted ==
  ASSUME NEW g, Good(vm, g), Counted(vm), ForceInsecure
  PROVE  Counted(vm')
<1> DEFINE t == Cur(vm)
           u == [t EXCEPT !.stack = Forced]
           x == Set(vm, u)
<1>1. vm.todo = "body" /\ Top(vm) = "forceinsecure" /\ vm' \in {CReturn(vm), CReturn(x)}
  BY DEF ForceInsecure, Body
<1>2. State(vm, g) /\ Own(vm, g) = 1 /\ t \in Thread
  BY <1>1, BodyFacts
<1>3. /\ Sound(vm) /\ vm.native[Len(vm.native)].th = Run(vm) /\ Whole(vm)
      /\ Len(t.ci) \in Nat /\ 1 <= Len(t.ci)
  BY <1>2, StateSound, OwnCalls DEF Sound
<1>4. u \in Thread /\ u.ci = t.ci /\ u.size = t.size /\ u.status = t.status
  BY <1>2 DEF Thread, Taints
<1>5. Now(x, vm, u, vm.native) /\ Quiet(x, vm)
  BY <1>3, NowSet, QuietFields
<1> HIDE DEF u, x
<1>6. Steps(x, vm, u, vm.native)
  BY <1>3, <1>4, <1>5 DEF Steps, Sound
<1>7. Sound(x) /\ Cur(x) = u
  BY <1>3, <1>6, StepsSound
<1>8. Counted(x)
  BY <1>3, <1>4, <1>5, AlikeNow, AlikeCounted DEF Sound
<1>9. Counted(CReturn(x)) /\ Counted(CReturn(vm))
  BY <1>3, <1>4, <1>7, <1>8, CReturnCounted
<1> QED BY <1>1, <1>9

\* A protected call from the body of a C function counts the call it makes.
LEMMA BodyPCallCounted ==
  ASSUME NEW g, Good(vm, g), Counted(vm), vm.todo = "body", NEW u, Same(u, Cur(vm)),
         NEW r, Now(r, vm, u, vm.native), Quiet(r, vm), NEW f \in CFunctions,
         NEW e \in Functions \cup {None}, NEW f2 \in Functions,
         vm' = PCall(r, f, SaveTaint(Cur(vm)), e, f2)
  PROVE  Counted(vm')
<1> DEFINE saved == SaveTaint(Cur(vm))
<1>1. State(vm, g) /\ Own(vm, g) = 1 /\ saved \in Saved
  BY BodyFacts
<1>2. /\ Sound(vm) /\ vm.native[Len(vm.native)].th = Run(vm)
  BY <1>1, StateSound
<1>3. Cur(vm).nCcalls \in Nat
  BY <1>1, OwnCalls
<1>4. Steps(r, vm, u, vm.native)
  BY <1>2 DEF Steps, Same, Sound
<1>5. Sound(r) /\ Cur(r) = u
  BY <1>2, <1>4, StepsSound
<1>6. Cur(r) \in Thread /\ Cur(r).nCcalls \in Nat
  BY <1>3, <1>5 DEF Same
<1>7. Counted(r)
  BY <1>2, AlikeNow, AlikeCounted DEF Same, Sound
<1> HIDE DEF saved
<1>8. Counted(PCall(r, f, saved, e, f2))
  BY <1>1, <1>5, <1>6, <1>7, PCallCounted
<1> QED BY <1>8 DEF saved

\* They are called, or what they called is over.
LEMMA SwitchTodo == ASSUME Switch PROVE vm.todo = "body" \/ vm.todo \in {"ok", "failed"}
BY DEF Switch, ProtectedCall, SecureCall, Delegate, BubblewrapEnter, BubblewrapExit,
       CallSafely, CallSandbox, Body, After

\* What the C functions do when the call they made is over: they put back the
\* mode, and the taint where they keep one.
LEMMA AfterParts ==
  ASSUME NEW g, Good(vm, g), vm.todo \in {"ok", "failed"}, Switch
  PROVE  \E r, u :
           /\ Restores(u, Cur(vm), Act(vm).saved.mode)
           /\ Now(r, vm, u, SubSeq(vm.native, 1, Len(vm.native) - 1)) /\ Quiet(r, vm)
           /\ \/ u.stack # None \/ Act(vm).saved.stack = None
              \/ Act(vm).f \notin Boundary /\ Cur(vm).stack = None
           /\ vm' \in {CReturn(r), Do(r, "raise")}
<1> DEFINE t == Cur(vm)
           saved == Act(vm).saved
           f == Act(vm).f
           u1 == [t EXCEPT !.mode = saved.mode, !.stack = saved.stack]
           u2 == [t EXCEPT !.stack = saved.stack, !.mode = "rw"]
           u3 == [t EXCEPT !.mode = "disabled", !.stack = None]
           x1 == Set(vm, u1)
           x2 == Set(vm, u2)
           y2 == [x2 EXCEPT !.thetaint = None]
           x3 == Set(vm, u3)
           Ends(r) == vm' \in {CReturn(Pop(r)), Do(Pop(r), "raise")}
           N == SubSeq(vm.native, 1, Len(vm.native) - 1)
           Over == \E r, v :
                     /\ Restores(v, t, saved.mode) /\ Now(r, vm, v, N) /\ Quiet(r, vm)
                     /\ \/ v.stack # None \/ saved.stack = None
                        \/ f \notin Boundary /\ t.stack = None
                     /\ vm' \in {CReturn(r), Do(r, "raise")}
<1>1. \/ f \in {"pcall", "xpcall", "CallSafely"} /\ Ends(vm)
      \/ f \in {"securecall", "delegate"} /\ Ends(x1)
      \/ f = "bubblewrapped" /\ Ends(y2)
      \/ f = "CallSandbox" /\ Ends(x3)
  <2>1. CASE ProtectedCall \/ CallSafely
    BY <2>1 DEF ProtectedCall, CallSafely, Body, After
  <2>2. CASE SecureCall
    BY <2>2 DEF SecureCall, Body, After, LoadTaint
  <2>3. CASE Delegate
    BY <2>3 DEF Delegate, Body, After, DelegateReturns, LoadTaint
  <2>4. CASE BubblewrapExit
    BY <2>4 DEF BubblewrapExit, After, BubblewrapLeave
  <2>5. CASE CallSandbox
    BY <2>5 DEF CallSandbox, Body, After, SandboxReturns
  <2>6. ~BubblewrapEnter
    BY DEF BubblewrapEnter, Body
  <2> QED BY <2>1, <2>2, <2>3, <2>4, <2>5, <2>6 DEF Switch
<1>2. /\ saved \in Saved /\ Suits(f, saved.mode) /\ t \in Thread /\ Whole(vm)
      /\ t.mode = Switched(f, saved.mode) /\ (t.mode = "disabled" => t.stack = None)
      /\ Now(Pop(vm), vm, t, N)
  BY AfterFacts
<1>3. Now(vm, vm, t, vm.native) /\ Quiet(vm, vm)
  BY <1>2, StateFacts DEF Good, Now, Quiet
<1>4. ASSUME NEW x, NEW u, Ends(x), Now(x, vm, u, vm.native), Quiet(x, vm),
             Restores(u, t, saved.mode),
             u.stack # None \/ saved.stack = None \/ (f \notin Boundary /\ t.stack = None)
      PROVE  Over
  BY <1>4, NowQuiet
<1> SUFFICES Over
  OBVIOUS
<1> HIDE DEF f, saved, N, Ends, Over
<1>5. CASE f \in {"pcall", "xpcall", "CallSafely"} /\ Ends(vm)
  <2>1. Restores(t, t, saved.mode)
    BY <1>2, <1>5 DEF Restores, Switched
  <2>2. t.stack # None \/ (f \notin Boundary /\ t.stack = None)
    BY <1>5 DEF Boundary
  <2> HIDE DEF t
  <2> QED BY <1>3, <1>4, <1>5, <2>1, <2>2
<1>6. CASE f \in {"securecall", "delegate"} /\ Ends(x1)
  <2>1. Restores(u1, t, saved.mode) /\ (u1.stack # None \/ saved.stack = None)
    BY <1>2, <1>6 DEF Suits, CFunctions, Saved, Restores, Thread, Modes
  <2>2. Now(x1, vm, u1, vm.native) /\ Quiet(x1, vm)
    BY <1>2, NowSet, QuietFields
  <2> HIDE DEF t, u1, x1
  <2> QED BY <1>4, <1>6, <2>1, <2>2
<1>7. CASE f = "bubblewrapped" /\ Ends(y2)
  <2>1. Restores(u2, t, saved.mode) /\ (u2.stack # None \/ saved.stack = None)
    BY <1>2, <1>7 DEF Suits, CFunctions, Saved, Restores, Thread, Modes
  <2>2. Now(x2, vm, u2, vm.native) /\ Quiet(x2, vm)
    BY <1>2, NowSet, QuietFields
  <2> HIDE DEF u2, x2
  <2>3. Now(y2, vm, u2, vm.native) /\ Quiet(y2, vm)
    BY <2>2, NowQuiet
  <2> HIDE DEF t, y2
  <2> QED BY <1>4, <1>7, <2>1, <2>3
<1>8. CASE f = "CallSandbox" /\ Ends(x3)
  <2>1. Restores(u3, t, saved.mode) /\ saved.stack = None
    BY <1>2, <1>8, TaintOfTaints DEF Suits, Saved, Restores, Thread, Modes
  <2>2. Now(x3, vm, u3, vm.native) /\ Quiet(x3, vm)
    BY <1>2, NowSet, QuietFields
  <2> HIDE DEF t, u3, x3
  <2> QED BY <1>4, <1>8, <2>1, <2>2
<1> QED BY <1>1, <1>5, <1>6, <1>7, <1>8

\* A protected call is over: the C function sets the thread that runs to one
\* with the CallInfos it had, and returns or fails.
LEMMA AfterCounted ==
  ASSUME NEW g, Good(vm, g), Counted(vm), vm.todo \in {"ok", "failed"},
         NEW u, Restores(u, Cur(vm), Act(vm).saved.mode),
         NEW r, Now(r, vm, u, SubSeq(vm.native, 1, Len(vm.native) - 1)), Quiet(r, vm)
  PROVE  Counted(CReturn(r)) /\ \A w : Counted(Do(r, w))
<1>1. State(vm, g)
  BY DEF Good
<1>2. Len(vm.native) = Len(g) /\ vm.th \in [Threads -> Thread] /\ Run(vm) \in Threads
  BY <1>1, StateFacts
<1>3. PICK h : State(r, h) /\ Own(r, h) = 1
  <2>1. Back(r, vm, u, Len(g) - 1)
    BY <1>2 DEF Back
  <2> QED BY <2>1, BodyState
<1>4. Counted(r)
  BY <1>2, AlikeNow, AlikeCounted DEF Restores
<1> QED BY <1>3, <1>4, ReturnCounted

\* The C functions call in protected mode, and come back.
LEMMA SwitchCounted ==
  ASSUME NEW g, Good(vm, g), Counted(vm), Switch
  PROVE  Counted(vm')
<1>1. CASE vm.todo = "body"
  <2>1. Counted(Do(vm, "raise"))
    BY <1>1, BodyFacts, StateFacts, AlikeDo, AlikeCounted
  <2> QED BY <1>1, <2>1, BodyParts, BodyPCallCounted
<1>2. CASE vm.todo \in {"ok", "failed"}
  BY <1>2, AfterParts, AfterCounted
<1> QED BY <1>1, <1>2, SwitchTodo

\* lua_resumefrom keeps the counts.
LEMMA ResumeCounted ==
  ASSUME NEW g, Good(vm, g), Counted(vm), Resume
  PROVE  Counted(vm')
<1>1. State(vm, g) /\ Own(vm, g) = 1
  BY ResumeParts
<1>2. CASE vm' \in {CReturn(vm), Do(vm, "raise")}
  BY <1>1, <1>2, ReturnCounted
<1>3. CASE vm' \notin {CReturn(vm), Do(vm, "raise")}
  <2>1. PICK r, h :
          /\ State(r, h) /\ Alike(r, vm)
          /\ \/ /\ 2 <= Len(Cur(r).ci)
                /\ \E q : /\ q = TakenUp(r)
                          /\ vm' = Do(Set(q, Reenter(Cur(q), Top(q))), "run")
             \/ \E f \in Functions : vm' = Precall(r, f)
    BY <1>3, ResumeParts
  <2>2. Sound(r) /\ Cur(r) \in Thread /\ r.native[Len(r.native)].th = Run(r)
    BY <2>1, StateSound
  <2>3. Counted(r) /\ Len(Cur(r).ci) \in Nat
    BY <2>1, AlikeCounted, StateFacts
  <2> QED BY <2>1, <2>2, <2>3, AgainCounted, PrecallCounted
<1> QED BY <1>2, <1>3

\* wowless starts with one call open, that of its main chunk.
LEMMA InitCounted == ASSUME Init PROVE Counted(vm)
<1>1. PICK h \in HostLua : vm = Started(h)
  BY DEF Init, Started
<1> DEFINE main == [NewThread EXCEPT !.ci = <<h>>, !.nCcalls = 1]
           open == [f \in Functions |-> IF f = h THEN 1 ELSE 0]
           lost == [f \in Functions |-> 0]
           th == [t \in Threads |-> IF t = Main THEN main ELSE NewThread]
<1>2. vm.th = th /\ vm.nopencalls = open /\ vm.lost = lost
  BY <1>1 DEF Started
<1>3. Main \in Threads /\ h \in Functions
  BY DEF Threads, Functions, LuaFunctions
<1>4. main.ci = <<h>> /\ NewThread.ci = <<>>
  <2> DEFINE w == NewThread
             c == <<h>>
  <2>1. w \in Thread /\ w.ci = <<>> /\ main = [w EXCEPT !.ci = c, !.nCcalls = 1]
    BY NewThreadFacts
  <2> HIDE DEF w, c, main
  <2>2. main.ci = c
    BY <2>1 DEF Thread
  <2> QED BY <2>1, <2>2 DEF w, c
<1> HIDE DEF main
<1>5. ASSUME NEW f PROVE CallsOf(th, f) = IF f = h THEN {<<Main, 1>>} ELSE {}
  <2>1. \A t \in Threads : th[t].ci = IF t = Main THEN <<h>> ELSE <<>>
    BY <1>4
  <2>2. /\ \A i : i \in 1 .. Len(<<h>>) <=> i = 1
        /\ \A i : i \notin 1 .. Len(<<>>) /\ <<h>>[1] = h
    OBVIOUS
  <2> HIDE DEF th
  <2>3. ASSUME NEW c
        PROVE  c \in CallsOf(th, f) <=> f = h /\ c = <<Main, 1>>
    BY <1>3, <2>1, <2>2 DEF CallsOf
  <2> QED BY <2>3
<1>6. ASSUME NEW f \in Functions
      PROVE  IsFiniteSet(CallsOf(th, f)) /\ open[f] = lost[f] + Cardinality(CallsOf(th, f))
  <2> DEFINE S == CallsOf(th, f)
  <2> SUFFICES IsFiniteSet(S) /\ Cardinality(S) = IF f = h THEN 1 ELSE 0
    OBVIOUS
  <2>1. S = IF f = h THEN {<<Main, 1>>} ELSE {}
    BY <1>5
  <2> HIDE DEF S
  <2> QED BY <2>1, FS_EmptySet, FS_Singleton
<1>7. open \in [Functions -> Int] /\ lost \in [Functions -> Int]
  OBVIOUS
<1> HIDE DEF th, open, lost
<1>8. Tally(th, open, lost)
  BY <1>6, <1>7 DEF Tally
<1> QED BY <1>2, <1>8 DEF Counted

\* Every operation keeps the counts.
LEMMA NextCounted ==
  ASSUME NEW g, Good(vm, g), Counted(vm), Step
  PROVE  Counted(vm')
<1>1. CASE OpCall \/ OpTailCall \/ OpReturn \/ ReadTainted \/ RuntimeError
  BY <1>1, OpCallCounted, OpTailCallCounted, OpReturnCounted, ReadTaintedCounted, PlainCounted,
     Zenon
<1>2. CASE ErrorMsg \/ CallReturns \/ Catch
  BY <1>2, ErrorMsgCounted, CallReturnsCounted, CatchCounted, Zenon
<1>3. CASE Plain \/ Error \/ ForceInsecure
  BY <1>3, PlainCounted, ForceInsecureCounted, Zenon
<1>4. CASE Create \/ Resume \/ Yield \/ Finish \/ Die
  BY <1>4, CreateLeads, ResumeCounted, YieldLeads, FinishLeads, DieLeads, LeadsGood, Zenon
<1>5. CASE Switch
  BY <1>5, SwitchCounted
<1> QED BY <1>1, <1>2, <1>3, <1>4, <1>5, Zenon DEF Step, Switch

\* What is counted is what is open.
LEMMA CountedCalls == ASSUME Counted(vm) PROVE OpenCallsCounted
<1> DEFINE open == OpenCalls(vm)
<1>1. ASSUME NEW f
      PROVE  {c \in open : vm.th[c[1]].ci[c[2]] = f} = CallsOf(vm.th, f)
  <2>1. ASSUME NEW c
        PROVE  c \in open <=>
                 \E t \in Threads : \E i \in 1 .. Len(vm.th[t].ci) : c = <<t, i>>
    BY DEF OpenCalls
  <2> QED BY <2>1 DEF CallsOf
<1> HIDE DEF open
<1>2. \A f \in Functions :
        vm.nopencalls[f] =
          vm.lost[f] + Cardinality({c \in open : vm.th[c[1]].ci[c[2]] = f})
  BY <1>1 DEF Counted, Tally
<1> QED BY <1>2 DEF OpenCallsCounted, open

\* Every closure counts its open calls exactly, over errors and switches of
\* thread, but for the calls of coroutines that were collected (ldo.c, lfunc.h;
\* ldebug.c reads the count).
THEOREM CallsOpenCallsCounted == Spec => []OpenCallsCounted
<1>1. Init => AllCounted
  BY InitCounted DEF AllCounted
<1>2. IInv /\ AllCounted /\ [Next]_vars => AllCounted'
  <2> SUFFICES ASSUME IInv, Counted(vm), [Next]_vars PROVE Counted(vm')
    BY DEF AllCounted
  <2>1. CASE vm' = vm
    BY <2>1
  <2>2. CASE Next
    <3>1. Step /\ vm.todo # "end"
      BY <2>2, EndStays DEF Next
    <3>2. PICK g : Good(vm, g)
      BY <3>1 DEF IInv
    <3> QED BY <3>1, <3>2, NextCounted
  <2> QED BY <2>1, <2>2 DEF vars
<1>3. AllCounted => OpenCallsCounted
  BY CountedCalls DEF AllCounted
<1> QED BY <1>1, <1>2, <1>3, CallsInv, PTL DEF Spec

(***************************************************************************)
(* What taint sticks to, over every step                                   *)
(***************************************************************************)

\* OP_CALL.
LEMMA OpCallStuck ==
  ASSUME NEW g, Good(vm, g), NEW since \in [Threads -> Nat], NEW T, Stuck(vm, since, T),
         OpCall
  PROVE  Stuck(vm', since, T)
<1>1. vm.todo = "run"
  BY DEF OpCall, InLua
<1>2. PICK f \in Callable(Top(vm)) : vm' = Precall(vm, f)
  BY DEF OpCall
<1>3. State(vm, g) /\ f \in Functions /\ Act(vm).k = "exec"
  BY <1>1, InLuaFacts, CallableSuits
<1>4. Bare(vm')
  BY OpCallGood, GoodBare
<1>5. Firm(vm)
  BY <1>3, StateFirm
<1> QED BY <1>2, <1>3, <1>4, <1>5, PrecallStuck

\* An instruction reads what is tainted.
LEMMA ReadTaintedStuck ==
  ASSUME NEW g, Good(vm, g), NEW since \in [Threads -> Nat], NEW T, Stuck(vm, since, T),
         ReadTainted
  PROVE  Stuck(vm', since, T)
<1>1. PICK taint \in ReadTaints : vm' = Set(vm, TaintStack(Cur(vm), taint))
  BY DEF ReadTainted
<1>2. State(vm, g)
  BY DEF Good
<1>3. Sound(vm) /\ Cur(vm) \in Thread /\ Firm(vm) /\ Len(Cur(vm).ci) \in Nat
  BY <1>2, StateSound, StateFirm, StateFacts
<1> DEFINE u == TaintStack(Cur(vm), taint)
<1>4. u.ci = Cur(vm).ci /\ (Cur(vm).stack # None => u.stack # None)
  BY <1>3, TaintStackKept DEF Taints, Sound, Kept
<1> HIDE DEF u
<1>5. Now(vm', vm, u, vm.native)
  BY <1>1, <1>3, NowSet DEF Sound, u
<1>6. Follows(u, Cur(vm), since[Run(vm)], vm.native, Run(vm))
  BY <1>4, FollowsSame
<1> QED BY <1>3, <1>4, <1>5, <1>6, StayStuck

\* What only fails, and what returns at once.
LEMMA PlainStuck ==
  ASSUME NEW g, Good(vm, g), NEW since \in [Threads -> Nat], NEW T, Stuck(vm, since, T),
         RuntimeError \/ Plain \/ Error
  PROVE  Stuck(vm', since, T)
<1>1. State(vm, g) /\ Whole(vm)
  BY StateFacts DEF Good
<1>2. \A w : Stuck(Do(vm, w), since, T)
  BY <1>1, DoStuck
<1>3. CASE Plain
  <2>1. vm.todo = "body" /\ Top(vm) = "plain" /\ vm' = CReturn(vm)
    BY <1>3 DEF Plain, Body
  <2>2. State(vm, g) /\ Own(vm, g) = 1
    BY <2>1, BodyFacts
  <2> QED BY <2>1, <2>2, CReturnStuck
<1> QED BY <1>2, <1>3 DEF RuntimeError, Error

\* luaL_forceinsecure.
LEMMA ForceInsecureStuck ==
  ASSUME NEW g, Good(vm, g), NEW since \in [Threads -> Nat], NEW T, Stuck(vm, since, T),
         ForceInsecure
  PROVE  Stuck(vm', since, T)
<1> DEFINE t == Cur(vm)
           u == [t EXCEPT !.stack = Forced]
           x == Set(vm, u)
<1>1. /\ vm.todo = "body" /\ Top(vm) = "forceinsecure"
      /\ vm' = IF t.stack # None THEN CReturn(vm) ELSE CReturn(x)
  BY DEF ForceInsecure, Body
<1>2. /\ State(vm, g) /\ Own(vm, g) = 1 /\ t \in Thread
      /\ "forceinsecure" \in CFunctions /\ Suits("forceinsecure", t.mode) /\ t.mode = g[Len(g)].m
      /\ Act(vm).k \in {"exec", "call"}
  BY <1>1, BodyFacts
<1>3. CASE t.stack # None
  BY <1>1, <1>2, <1>3, CReturnStuck
<1>4. CASE t.stack = None
  <2>1. Firm(vm) /\ Whole(vm) /\ Len(t.ci) \in Nat /\ Len(t.ci) < t.size
    BY <1>2, StateFirm, StateFacts
  <2>2. Fine(t, Act(vm), g[Len(g)])
    BY <1>2 DEF State
  <2>3. u \in Thread /\ u.ci = t.ci /\ u.size = t.size /\ u.status = t.status
        /\ u.mode = t.mode /\ u.nCcalls = t.nCcalls /\ u.baseCcalls = t.baseCcalls
        /\ u.errfunc = t.errfunc
    BY <1>2 DEF Thread, Taints
  <2>4. Now(x, vm, u, vm.native)
    BY <2>1, NowSet
  <2> HIDE DEF u, x
  <2>5. Fine(u, Act(vm), g[Len(g)])
    BY <1>2, <2>2, <2>3 DEF Fine, Suits, CFunctions
  <2>6. Onto(vm, u, Act(vm), g[Len(g)])
    BY <2>1, <2>2, <2>3 DEF Onto, Goes, Fine
  <2>7. State(x, g) /\ Act(x) = Act(vm) /\ Run(x) = Run(vm) /\ Cur(x) = u
    BY <1>2, <2>4, <2>5, <2>6, SameState
  <2>8. Own(x, g) = 1
    BY <1>2, <2>3, <2>7 DEF Own
  <2>9. Follows(u, t, since[Run(vm)], vm.native, Run(vm))
    BY <2>3, FollowsSame
  <2>10. Stuck(x, since, T)
    <3>1. t.stack # None => u.stack # None
      BY <1>4
    <3> QED BY <2>1, <2>3, <2>4, <2>9, <3>1, StayStuck
  <2> QED BY <1>1, <1>4, <2>7, <2>8, <2>10, CReturnStuck
<1> QED BY <1>3, <1>4

\* luaG_errormsg.
LEMMA ErrorMsgStuck ==
  ASSUME NEW g, Good(vm, g), NEW since \in [Threads -> Nat], NEW T, Stuck(vm, since, T),
         ErrorMsg
  PROVE  Stuck(vm', since, T)
<1> DEFINE a == [k |-> "errmsg", th |-> Run(vm)]
           s == Push(vm, a)
           e == Cur(vm).errfunc
<1>1. vm.todo = "raise" /\ vm' = IF e = None THEN Do(vm, "throw") ELSE LuaDCall(s, e)
  BY DEF ErrorMsg
<1>2. State(vm, g) /\ Act(vm).k \in {"exec", "call", "resume"}
  BY <1>1 DEF Good, Doing
<1>3. /\ Sound(vm) /\ Firm(vm) /\ Cur(vm) \in Thread /\ e \in Functions \cup {None}
      /\ Len(Cur(vm).ci) \in Nat
  BY <1>2, StateSound, StateFirm, StateFacts DEF Thread
<1>4. Whole(s) /\ s.th = vm.th /\ s.native = Append(vm.native, a)
  BY <1>3, PushFields DEF Sound
<1>5. a \in Activation /\ a.th = Run(vm) /\ a.k = "errmsg"
  BY <1>3 DEF Activation, Sound
<1>6. Bare(vm')
  BY ErrorMsgGood, GoodBare
<1> HIDE DEF s, a
<1>7. s.native \in Seq(Activation) /\ s.native[Len(s.native)] = a /\ 1 <= Len(s.native)
  BY <1>3, <1>4, <1>5, OneMore DEF Sound
<1>8. Run(s) = Run(vm) /\ Cur(s) = Cur(vm) /\ Act(s) = a
  BY <1>4, <1>5, <1>7 DEF Run, Act, Cur
<1>9. Firm(s)
  BY <1>3, <1>4, <1>5, <1>7, <1>8 DEF Sound, Firm
<1>10. Stuck(s, since, T)
  <2>1. Ahead(s, vm, Cur(vm), a)
    <3>1. s.th = [vm.th EXCEPT ![Run(vm)] = Cur(vm)]
      BY <1>3, <1>4 DEF Cur, Sound
    <3> QED BY <1>4, <3>1 DEF Ahead, Now
  <2>2. Follows(Cur(vm), Cur(vm), since[Run(vm)], Append(vm.native, a), Run(vm))
    BY FollowsSame
  <2> QED BY <1>2, <1>3, <1>5, <2>1, <2>2, PushStuck
<1>11. e # None => Stuck(LuaDCall(s, e), since, T)
  BY <1>1, <1>3, <1>5, <1>6, <1>8, <1>9, <1>10, LuaDCallStuck
<1> QED BY <1>1, <1>3, <1>11, DoStuck DEF Sound

\* OP_TAILCALL.
LEMMA OpTailCallStuck ==
  ASSUME NEW g, Good(vm, g), NEW since \in [Threads -> Nat], NEW T, Stuck(vm, since, T),
         OpTailCall
  PROVE  Stuck(vm', since, T)
<1> DEFINE n == Len(Cur(vm).ci)
<1>1. vm.todo = "run"
  BY DEF OpTailCall, InLua
<1>2. PICK f \in Callable(Top(vm)) \cap LuaFunctions :
        LET s == PushFrame(vm, f)
            t == Cur(s)
            k == Len(t.ci)
            moved == [t EXCEPT !.ci = Append(SubSeq(@, 1, k - 2), f), !.fixed = None]
        IN vm' = IF s.todo # "run" THEN s
                 ELSE [Set(s, Reenter(moved, f))
                         EXCEPT !.nopencalls[t.ci[k - 1]] = @ - 1]
  BY DEF OpTailCall
<1> DEFINE s == PushFrame(vm, f)
<1>3. /\ State(vm, g) /\ Act(vm).k = "exec" /\ Act(vm).n \in Nat /\ 1 <= Act(vm).n
      /\ n = g[Len(g)].b + Act(vm).n /\ f \in Functions
  BY <1>1, InLuaFacts, CallableSuits
<1>4. /\ Whole(vm) /\ vm.th \in [Threads -> Thread] /\ Run(vm) \in Threads
      /\ Len(Cur(vm).ci) < Cur(vm).size /\ n \in Nat /\ g[Len(g)].b \in Nat
  BY <1>3, StateFacts
<1>5. Firm(vm) /\ 1 <= n /\ Bare(vm')
  BY <1>3, <1>4, StateFirm, OpTailCallGood, GoodBare
<1>6. PICK u : /\ Now(s, vm, u, vm.native) /\ Kept(u, Cur(vm))
               /\ \/ s.todo = "run" /\ Enters(u, Cur(vm), f)
                  \/ s.todo \in {"raise", "throw"} /\ Keeps(u, Cur(vm), n)
  BY <1>3, <1>4, PushFrameFields
<1>7. Run(s) = Run(vm) /\ Cur(s) = u
  <2> HIDE DEF s
  <2> QED BY <1>3, <1>6, NowRun
<1>8. CASE s.todo # "run"
  <2>1. vm' = s
    BY <1>2, <1>8
  <2> HIDE DEF s
  <2>2. Keeps(u, Cur(vm), n)
    BY <1>6, <1>8
  <2>3. Len(u.ci) \in Nat /\ (Cur(vm).stack # None => u.stack # None)
    BY <1>4, <1>6, <2>2 DEF Keeps, Kept
  <2>4. Follows(u, Cur(vm), since[Run(vm)], vm.native, Run(vm))
    BY <1>4, <2>2, FollowsAll
  <2> QED BY <1>5, <1>6, <2>1, <2>3, <2>4, StayStuck
<1>9. CASE s.todo = "run"
  <2> DEFINE c == Append(SubSeq(u.ci, 1, Len(u.ci) - 2), f)
             moved == [u EXCEPT !.ci = c, !.fixed = None]
             v == Reenter(moved, f)
             x == Set(s, v)
             z == [x EXCEPT !.nopencalls[u.ci[Len(u.ci) - 1]] = @ - 1]
  <2>1. vm' = z
    BY <1>2, <1>7, <1>9
  <2>2. /\ Enters(u, Cur(vm), f) /\ Len(u.ci) = n + 1 /\ Len(u.ci) < u.size
        /\ \A i \in 1 .. n : u.ci[i] = Cur(vm).ci[i]
    BY <1>6, <1>9 DEF Enters
  <2>3. u \in Thread /\ u.ci \in Seq(Functions) /\ u.size \in Nat
    <3>1. u \in Thread
      BY <1>6 DEF Kept
    <3> QED BY <3>1 DEF Thread
  <2>4. /\ c \in Seq(Functions) /\ Len(c) = n /\ c[n] = f
        /\ \A i \in 1 .. n - 1 : c[i] = Cur(vm).ci[i]
    <3> DEFINE d == SubSeq(u.ci, 1, n - 1)
    <3>1. n - 1 \in 0 .. Len(u.ci) /\ Len(u.ci) - 2 = n - 1 /\ n - 1 \in Nat
      BY <1>4, <1>5, <2>2, SMTT(60)
    <3>2. d \in Seq(Functions) /\ Len(d) = n - 1 /\ \A i \in 1 .. n - 1 : d[i] = u.ci[i]
      BY <2>3, <3>1, FirstOnes
    <3>3. c = Append(d, f)
      BY <3>1
    <3> HIDE DEF d, c
    <3>4. c \in Seq(Functions) /\ Len(c) = n /\ c[n] = f /\ \A i \in 1 .. n - 1 : c[i] = d[i]
      <4>1. /\ Append(d, f) \in Seq(Functions) /\ Len(Append(d, f)) = Len(d) + 1
            /\ Append(d, f)[Len(d) + 1] = f
            /\ \A i \in 1 .. Len(d) : Append(d, f)[i] = d[i]
        BY <1>3, <3>2, OneMore
      <4>2. Len(d) + 1 = n
        BY <1>4, <3>1, <3>2
      <4> QED BY <3>2, <3>3, <4>1, <4>2
    <3>5. \A i \in 1 .. n - 1 : i \in 1 .. n
      BY <1>4
    <3> QED BY <2>2, <3>2, <3>4, <3>5
  <2> HIDE DEF c
  <2>5. moved \in Thread /\ moved.ci = c /\ moved.size = u.size /\ Kept(moved, u)
    BY <2>3, <2>4, TaintOfTaints DEF Thread, Kept
  <2>6. Len(moved.ci) < moved.size
    BY <1>4, <2>2, <2>3, <2>4, <2>5
  <2> HIDE DEF moved
  <2>7. Kept(v, moved) /\ v.ci = c
    BY <2>5, <2>6, ReenterKept
  <2>8. v.mode = "rw" /\ TaintOf(f) # None => v.stack # None
    BY <2>5, ReenterTaints
  <2> HIDE DEF v
  <2>9. Cur(vm).stack # None => v.stack # None
    BY <1>6, <2>5, <2>7 DEF Kept
  <2>10. Now(z, vm, v, vm.native) /\ z.todo = "run"
    <3> HIDE DEF s
    <3>1. Whole(s) /\ s.th = [vm.th EXCEPT ![Run(vm)] = u] /\ s.native = vm.native
      BY <1>6 DEF Now
    <3>2. Whole(x) /\ x.th = [s.th EXCEPT ![Run(s)] = v] /\ x.native = s.native /\ x.todo = "run"
      BY <1>9, <3>1, SetFields
    <3> HIDE DEF x
    <3>3. Whole(z) /\ z.th = x.th /\ z.native = x.native /\ z.todo = x.todo
      BY <3>2 DEF Whole
    <3> HIDE DEF z
    <3> QED BY <1>7, <3>1, <3>2, <3>3 DEF Now
  <2> HIDE DEF z, n
  <2>11. Run(z) = Run(vm) /\ Cur(z) = v
    BY <1>3, <2>10, NowRun
  <2>12. TaintOf(f) # None => v.stack # None /\ Shadow(vm.native, Run(vm), n) = {}
    <3>1. Top(z) = f /\ Len(Cur(z).ci) = n /\ z.native = vm.native
      BY <2>4, <2>7, <2>10, <2>11 DEF Top, Now
    <3> QED BY <1>5, <2>1, <2>8, <2>10, <2>11, <3>1 DEF Bare
  <2>13. Follows(v, Cur(vm), since[Run(vm)], vm.native, Run(vm))
    <3>1. ASSUME NEW i \in 1 .. Len(v.ci), i # n
          PROVE  i \in 1 .. n - 1 /\ i \in 1 .. Len(Cur(vm).ci) /\ v.ci[i] = Cur(vm).ci[i]
      BY <1>4, <2>4, <2>7, <3>1 DEF n
    <3>2. Len(v.ci) = n /\ v.ci[n] = f
      BY <2>4, <2>7
    <3> QED BY <2>12, <3>1, <3>2 DEF Follows
  <2>14. Len(v.ci) \in Nat
    BY <1>4, <2>4, <2>7 DEF n
  <2> QED BY <1>5, <2>1, <2>9, <2>10, <2>13, <2>14, StayStuck
<1> QED BY <1>8, <1>9

\* CutStuck, of that.
LEMMA CutsStuck ==
  ASSUME NEW s, Firm(s), NEW u, NEW n, NEW r, Cuts(r, s, u, n),
         NEW since \in [Threads -> Nat],
         Follows(u, Cur(s), since[Run(s)], SubSeq(s.native, 1, n), Run(s)),
         NEW T, Stuck(s, since, T)
  PROVE  Stuck(r, since, T)
BY CutStuck DEF Cuts

\* luaD_call returns to luaG_errormsg or luaD_pcall, whose C function goes on.
LEMMA CallReturnsParts ==
  ASSUME NEW g, Good(vm, g), CallReturns
  PROVE  vm'.todo = "end" \/ \E n, e : e.ci = Cur(vm).ci /\ Cuts(vm', vm, e, n)
<1> DEFINE n == Len(g)
           N == vm.native
           l == g[n]
           t == Cur(vm)
           x == Set(vm, [t EXCEPT !.nCcalls = @ - 1])
           u == [t EXCEPT !.nCcalls = @ - 1]
           s1 == Pop(x)
           j == n - 1
           i == n - 2
           p == g[j]
           q == N[j]
           e == [u EXCEPT !.errfunc = q.errfunc]
           s2 == Pop(Set(s1, e))
<1>1. /\ State(vm, g) /\ Act(vm).k = "call" /\ Own(vm, g) = 0 /\ vm.todo = "returned"
  BY DEF CallReturns, Good, Doing
<1>2. /\ Whole(vm) /\ vm.th \in [Threads -> Thread] /\ Run(vm) \in Threads /\ t = vm.th[Run(vm)]
      /\ t \in Thread /\ Len(t.ci) \in Nat /\ l.b \in Nat
      /\ n \in Nat /\ 1 <= n /\ N \in Seq(Activation) /\ Len(N) = n /\ Act(vm) = N[n]
      /\ Run(vm) = N[n].th
  BY <1>1, StateFacts
<1>3. n \in 2 .. Len(g) /\ j \in 1 .. Len(g)
  BY <1>1, <1>2, BottomFacts
<1>4. Link(vm.th, q, p, N[n], l) /\ q \in Activation /\ p.b \in Nat
  BY <1>1, <1>3, LinkFacts, SMTT(60)
<1>5. LinkCall(q, p, N[n], l)
  BY <1>1, <1>2, <1>4, ZenonT(60) DEF Link, LinkC, LinkTry, LinkExec, LinkErrMsg, LinkResume
<1>6. q.k \in {"try", "errmsg"} /\ q.th = Run(vm) /\ l.b = p.b
  BY <1>2, <1>5 DEF LinkCall
<1> HIDE DEF p, q, l
<1>7. Len(t.ci) = p.b
  <2>1. Runs(Act(vm)) = 0
    BY <1>1 DEF Runs
  <2>2. Len(t.ci) - l.b - 0 = 0
    BY <1>1, <2>1 DEF Own, l
  <2> QED BY <1>2, <1>4, <1>6, <2>2, SMTT(60)
<1>8. u.ci = t.ci /\ u.stack = t.stack /\ e.ci = t.ci /\ e.stack = t.stack
  BY <1>2 DEF Thread
<1>9. Now(s1, vm, u, SubSeq(N, 1, j)) /\ s1.native = SubSeq(N, 1, j)
  <2>1. Now(x, vm, u, N)
    BY <1>2, NowSet
  <2> HIDE DEF x, u, N
  <2>2. Now(s1, vm, u, SubSeq(N, 1, Len(N) - 1))
    BY <2>1, NowCut
  <2> QED BY <1>2, <2>2 DEF Now
<1> HIDE DEF u, s1, x
<1>10. Act(s1) = q /\ Run(s1) = Run(vm) /\ Cur(s1) = u
  <2>1. Len(SubSeq(N, 1, j)) = j /\ SubSeq(N, 1, j)[j] = N[j]
    <3>1. j \in 0 .. Len(N) /\ j \in 1 .. j
      BY <1>2, <1>3
    <3> HIDE DEF j, N
    <3> QED BY <1>2, <3>1, FirstOnes
  <2>2. Act(s1) = q /\ Run(s1) = Run(vm)
    BY <1>6, <1>9, <2>1 DEF Act, Run, q
  <2>3. Cur(s1) = u
    BY <1>2, <1>9, <2>2 DEF Now, Cur
  <2> QED BY <2>2, <2>3
<1>11. /\ SubSeq(SubSeq(N, 1, j), 1, Len(SubSeq(N, 1, j)) - 1) = SubSeq(N, 1, i)
  <2>1. SubSeq(SubSeq(N, 1, Len(N) - 1), 1, Len(SubSeq(N, 1, Len(N) - 1)) - 1) = SubSeq(N, 1, Len(N) - 2)
    BY <1>2, <1>3, CutTwice
  <2> QED BY <1>2, <2>1
<1>12. vm' = IF q.k = "errmsg" THEN Do(Pop(s1), "throw")
             ELSE Do(s2, IF Ended(s2) THEN "end" ELSE "ok")
  BY <1>10 DEF CallReturns, s1, x, u
<1>13. Now(Pop(s1), vm, u, SubSeq(N, 1, i))
  <2> HIDE DEF N, j, i
  <2>1. Now(Pop(s1), vm, u, SubSeq(SubSeq(N, 1, j), 1, Len(SubSeq(N, 1, j)) - 1))
    BY <1>9, NowCut
  <2> QED BY <1>11, <2>1
<1>14. Now(s2, vm, e, SubSeq(N, 1, i))
  <2> DEFINE y == Set(s1, e)
  <2> HIDE DEF N, j, i, e
  <2>1. Now(y, s1, e, SubSeq(N, 1, j))
    <3>1. Whole(s1)
      BY <1>9 DEF Now
    <3> QED BY <1>9, <3>1, NowSet
  <2> HIDE DEF y
  <2>2. Now(y, vm, e, SubSeq(N, 1, j))
    BY <1>9, <1>10, <2>1, NowTrans
  <2>3. Now(Pop(y), vm, e, SubSeq(SubSeq(N, 1, j), 1, Len(SubSeq(N, 1, j)) - 1))
    BY <2>2, NowCut
  <2> QED BY <1>11, <2>3 DEF y
<1>15. ASSUME vm'.todo # "end" PROVE j \in 2 .. Len(g)
  <2>1. CASE q.k = "errmsg"
    <3>1. N[1].k = "try"
      BY <1>1, BottomFacts
    <3> QED BY <1>2, <1>3, <2>1, <3>1 DEF q
  <2>2. CASE q.k = "try"
    <3>1. vm' = Do(s2, IF Ended(s2) THEN "end" ELSE "ok") /\ Whole(s2)
      BY <1>12, <1>14, <2>2 DEF Now
    <3>2. s2.native # <<>>
      <4>1. ASSUME Ended(s2) PROVE vm' = Do(s2, "end")
        BY <3>1, <4>1
      <4> HIDE DEF s2
      <4>2. ~Ended(s2)
        BY <1>15, <3>1, <4>1, DoFields
      <4> QED BY <4>2 DEF Ended
    <3>3. s2.native = SubSeq(N, 1, i)
      BY <1>14 DEF Now
    <3>4. i # 0
      <4> SUFFICES ASSUME i = 0 PROVE FALSE
        OBVIOUS
      <4>1. SubSeq(N, 1, 0) \in Seq(Activation) /\ Len(SubSeq(N, 1, 0)) = 0
        <5>1. 0 \in 0 .. Len(N)
          BY <1>2
        <5> QED BY <1>2, <5>1, FirstOnes
      <4>2. SubSeq(N, 1, 0) = <<>>
        BY <4>1, EmptySeq
      <4> QED BY <3>2, <3>3, <4>2
    <3>5. \A k \in Nat : k \in 2 .. k /\ k - 2 # 0 => k - 1 \in 2 .. k
      OBVIOUS
    <3> QED BY <1>2, <1>3, <3>4, <3>5
  <2> QED BY <1>6, <2>1, <2>2
<1> SUFFICES ASSUME vm'.todo # "end"
             PROVE  \E d, v : v.ci = t.ci /\ Cuts(vm', vm, v, d)
  OBVIOUS
<1>16. j \in 2 .. Len(g) /\ i = j - 1 /\ i + 1 = j
  BY <1>2, <1>15
<1> DEFINE q2 == N[i]
           p2 == g[i]
<1>17. Link(vm.th, q2, p2, q, p) /\ i \in 1 .. Len(g)
  <2> HIDE DEF j, i
  <2> QED BY <1>1, <1>16, LinkFacts DEF q, p
<1>18. /\ q2.th = Run(vm)
       /\ q.k = "errmsg" => q2.k # "c"
       /\ q.k = "try" => q2.k = "c" /\ q.ci = p.b /\ p2 = p
  <2>1. CASE q.k = "errmsg"
    <3>1. LinkErrMsg(q2, p2, q, p)
      BY <1>17, <2>1 DEF Link, LinkC, LinkTry, LinkCall, LinkExec, LinkResume
    <3> QED BY <1>6, <2>1, <3>1 DEF LinkErrMsg
  <2>2. CASE q.k = "try"
    <3>1. LinkTry(q2, p2, q, p)
      BY <1>17, <2>2 DEF Link, LinkC, LinkErrMsg, LinkCall, LinkExec, LinkResume
    <3> QED BY <1>6, <2>2, <3>1 DEF LinkTry
  <2> QED BY <1>6, <2>1, <2>2
<1> HIDE DEF q2, p2
<1>19. i \in 1 .. Len(N) /\ Within(vm, i) /\ \A k \in i + 1 .. Len(N) : N[k].k # "c"
  <2>1. \A k \in i .. n : k = i \/ k = j \/ k = n
    <3>1. \A m \in Nat : \A k \in m - 2 .. m : k = m - 2 \/ k = m - 1 \/ k = m
      OBVIOUS
    <3> QED BY <1>2, <3>1
  <2>2. \A k \in i + 1 .. n : k = j \/ k = n
    <3>1. \A m \in Nat : \A k \in (m - 2) + 1 .. m : k = m - 1 \/ k = m
      OBVIOUS
    <3> QED BY <1>2, <3>1
  <2> HIDE DEF n, j
  <2>3. N[i].th = Run(vm) /\ N[j].th = Run(vm) /\ N[n].th = Run(vm) /\ N[j].k # "c" /\ N[n].k # "c"
    BY <1>1, <1>2, <1>6, <1>18 DEF q, q2
  <2> QED BY <1>2, <1>17, <2>1, <2>2, <2>3 DEF Within
<1>20. \A v : v.ci = t.ci /\ N[i].k = "c" /\ i < Len(N) =>
              N[i + 1].k = "try" /\ Len(v.ci) <= N[i + 1].ci
  <2>1. N[i] = q2 /\ N[i + 1] = q
    BY <1>16 DEF q, q2
  <2> HIDE DEF n, i, N
  <2> QED BY <1>2, <1>4, <1>6, <1>7, <1>18, <2>1
<1>21. N[i].k = "resume" /\ i < Len(N) => N[i + 1].k # "exec"
  <2>1. N[i + 1] = q
    BY <1>16 DEF q
  <2> QED BY <1>6, <2>1
<1>22. CASE q.k = "errmsg"
  <2>1. Back(vm', vm, u, i)
    BY <1>12, <1>13, <1>22, NowDo DEF Back
  <2> HIDE DEF i, t, N
  <2>2. Cuts(vm', vm, u, i)
    BY <1>2, <1>8, <1>19, <1>20, <1>21, <2>1 DEF Cuts, t, N
  <2> QED BY <1>8, <2>2
<1>23. CASE q.k = "try"
  <2>1. Back(vm', vm, e, i)
    BY <1>12, <1>14, <1>23, NowDo DEF Back
  <2> HIDE DEF i, t, N, e
  <2>2. Cuts(vm', vm, e, i)
    BY <1>2, <1>8, <1>19, <1>20, <1>21, <2>1 DEF Cuts, t, N
  <2> QED BY <1>8, <2>2
<1> QED BY <1>6, <1>22, <1>23

\* luaD_call returns.
LEMMA CallReturnsStuck ==
  ASSUME NEW g, Good(vm, g), NEW since \in [Threads -> Nat], NEW T, Stuck(vm, since, T),
         CallReturns, vm'.todo # "end"
  PROVE  Stuck(vm', since, T)
<1>1. PICK n, e : e.ci = Cur(vm).ci /\ Cuts(vm', vm, e, n)
  BY CallReturnsParts
<1>2. Firm(vm)
  BY StateFirm DEF Good
<1>3. Follows(e, Cur(vm), since[Run(vm)], SubSeq(vm.native, 1, n), Run(vm))
  BY <1>1, FollowsSame
<1> QED BY <1>1, <1>2, <1>3, CutsStuck

\* The error path of luaD_pcall.
LEMMA CatchStuck ==
  ASSUME NEW g, Good(vm, g), NEW since \in [Threads -> Nat], NEW T, Stuck(vm, since, T),
         Catch, vm'.todo # "end"
  PROVE  Stuck(vm', since, T)
<1> DEFINE i == Catcher(vm)
           try == vm.native[i]
           t == Cur(vm)
           l == g[i]
           j == i - 1
<1>1. /\ vm.todo = "throw" /\ State(vm, g)
      /\ i \in 1 .. Len(g) /\ try.k = "try" /\ try.th = Run(vm) /\ Within(vm, i)
      /\ l \in Level /\ l.b <= Len(t.ci) /\ try.ci = l.b
  BY CatchParts
<1>2. PICK t0, u, v :
        /\ t0.ci = t.ci /\ t0.stack = t.stack
        /\ Kept(u, t0) /\ Keeps(u, t0, try.ci) /\ v.ci = u.ci /\ Len(v.ci) < v.size
        /\ (u.stack # None => v.stack # None)
        /\ Back(vm', vm, v, i - 1) /\ vm'.todo = IF i = 1 THEN "end" ELSE "failed"
  <2> HIDE DEF i, try, t
  <2> QED BY CatchParts DEF i, try, t
<1>3. Len(g) \in Nat /\ Len(vm.native) = Len(g) /\ Len(t.ci) \in Nat /\ l.b \in Nat /\ Firm(vm)
      /\ Run(vm) \in Threads
  BY <1>1, StateFacts, StateFirm DEF Level
<1>4. i \in 2 .. Len(g) /\ j \in 1 .. Len(g) /\ j + 1 = i
  BY <1>1, <1>2, <1>3
<1>5. vm.native[j].k = "c" /\ vm.native[j].th = Run(vm)
  <2>1. Link(vm.th, vm.native[i - 1], g[i - 1], try, l)
    BY <1>1, <1>4, LinkFacts DEF l
  <2>2. LinkTry(vm.native[i - 1], g[i - 1], try, l)
    BY <1>1, <2>1 DEF Link, LinkC, LinkErrMsg, LinkCall, LinkExec, LinkResume
  <2> QED BY <1>1, <2>2 DEF LinkTry
<1>6. \A k \in i .. Len(vm.native) : vm.native[k].k # "c"
  BY <1>1, NoneAbove
<1>7. since[Run(vm)] <= l.b
  <2>1. Floors(vm.native, since)
    BY DEF Stuck
  <2>2. Runs(try) = 0 /\ try.k # "resume"
    BY <1>1 DEF Runs
  <2>3. since[try.th] <= l.b + Runs(try)
    BY <1>1, <2>1, <2>2, FloorBelow
  <2> HIDE DEF try, l
  <2> QED BY <1>1, <1>3, <2>2, <2>3
<1>8. Keeps(v, t, l.b) /\ Len(v.ci) = l.b /\ (t.stack # None => v.stack # None)
  <2> HIDE DEF t, try, l
  <2>1. /\ Len(v.ci) = l.b /\ Len(v.ci) < v.size
        /\ \A k \in 1 .. Len(v.ci) : v.ci[k] = t.ci[k]
    BY <1>1, <1>2 DEF Keeps
  <2>2. t.stack # None => v.stack # None
    BY <1>2 DEF Kept
  <2> QED BY <2>1, <2>2 DEF Keeps
<1>9. Cuts(vm', vm, v, j)
  <2>1. Within(vm, j)
    <3>1. \A k \in j .. Len(g) : k = j \/ k \in i .. Len(g)
      BY <1>3, <1>4
    <3> HIDE DEF i, j
    <3> QED BY <1>1, <1>3, <1>5, <3>1 DEF Within
  <2>2. vm.native[j + 1] = try
    BY <1>4
  <2>3. Back(vm', vm, v, j)
    BY <1>2
  <2>4. \A k \in j + 1 .. Len(vm.native) : vm.native[k].k # "c"
    BY <1>4, <1>6
  <2>5. j \in 1 .. Len(vm.native) /\ Len(v.ci) \in Nat /\ Len(v.ci) <= try.ci
    BY <1>1, <1>3, <1>4, <1>8
  <2> HIDE DEF i, j, try, l
  <2> QED BY <1>1, <1>5, <1>8, <2>1, <2>2, <2>3, <2>4, <2>5 DEF Cuts
<1>10. Follows(v, t, since[Run(vm)], SubSeq(vm.native, 1, j), Run(vm))
  <2> HIDE DEF l, t, j
  <2>1. since[Run(vm)] \in Nat
    BY <1>3
  <2> QED BY <1>1, <1>3, <1>7, <1>8, <2>1, FollowsKeeps
<1> QED BY <1>3, <1>9, <1>10, CutsStuck

\* A protected call that a C function makes.
LEMMA BodyPCallStuck ==
  ASSUME NEW g, Good(vm, g), NEW since \in [Threads -> Nat], NEW T, Stuck(vm, since, T),
         vm.todo = "body", NEW u, Same(u, Cur(vm)),
         NEW r, Now(r, vm, u, vm.native), NEW f \in CFunctions,
         NEW e \in Functions \cup {None}, NEW f2 \in Functions,
         f \notin Boundary /\ Cur(vm).stack # None => u.stack # None,
         vm' = PCall(r, f, SaveTaint(Cur(vm)), e, f2), NEW h, Good(vm', h)
  PROVE  Stuck(vm', since, T)
<1> DEFINE t == Cur(vm)
           saved == SaveTaint(t)
<1>1. /\ State(vm, g) /\ Own(vm, g) = 1 /\ Act(vm).k \in {"exec", "call"}
      /\ t \in Thread /\ saved \in Saved
  BY BodyFacts
<1>2. Firm(vm) /\ Len(t.ci) < t.size /\ t.nCcalls \in Nat
  BY <1>1, StateFirm, StateFacts, OwnCalls
<1>3. /\ u \in Thread /\ u.ci = t.ci /\ Len(u.ci) < u.size /\ u.nCcalls \in Nat
      /\ u.status = t.status
  BY <1>2 DEF Same
<1>4. t.stack # None => saved.stack # None
  BY DEF SaveTaint
<1>5. Bare(PCall(r, f, saved, e, f2))
  BY GoodBare
<1>6. vm' = PCall(r, f, saved, e, f2)
  OBVIOUS
<1> HIDE DEF saved
<1> QED BY <1>1, <1>2, <1>3, <1>4, <1>5, <1>6, PCallStuck

\* A protected call is over, and its C function goes on.
LEMMA AfterStuck ==
  ASSUME NEW g, Good(vm, g), NEW since \in [Threads -> Nat], NEW T, Stuck(vm, since, T),
         vm.todo \in {"ok", "failed"},
         NEW u, Restores(u, Cur(vm), Act(vm).saved.mode),
         \/ u.stack # None \/ Act(vm).saved.stack = None
         \/ Act(vm).f \notin Boundary /\ Cur(vm).stack = None,
         NEW r, Now(r, vm, u, SubSeq(vm.native, 1, Len(vm.native) - 1))
  PROVE  Stuck(CReturn(r), since, T) /\ \A w : Stuck(Do(r, w), since, T)
<1> DEFINE n == Len(g)
           M == SubSeq(vm.native, 1, Len(vm.native) - 1)
<1>1. State(vm, g) /\ Act(vm).k = "c"
  BY DEF Good, Doing
<1>2. Len(vm.native) = n /\ n \in Nat /\ Act(vm) = vm.native[n] /\ Run(vm) = vm.native[n].th
  BY <1>1, StateFacts
<1>3. n \in 2 .. n
  BY <1>1, BottomFacts
<1>4. PICK h : State(r, h) /\ Own(r, h) = 1
  <2>1. Back(r, vm, u, n - 1)
    BY <1>2 DEF Back
  <2> QED BY <2>1, BodyState
<1>5. LinkC(vm.native[n - 1], g[n - 1], Act(vm), g[n])
  <2>1. Link(vm.th, vm.native[n - 1], g[n - 1], vm.native[n], g[n])
    BY <1>1, <1>3, LinkFacts, SMTT(60)
  <2> QED
    BY <1>1, <1>2, <2>1, ZenonT(60) DEF Link, LinkTry, LinkCall, LinkExec, LinkErrMsg, LinkResume
<1>6. vm.native[Len(vm.native) - 1].k \notin {"c", "resume"} /\ vm.native[Len(vm.native) - 1].th = Run(vm)
  BY <1>2, <1>5 DEF LinkC
<1>7. Firm(vm) /\ 2 <= Len(vm.native) /\ u.ci = Cur(vm).ci
  BY <1>1, <1>2, <1>3, StateFirm DEF Restores
<1>8. Stuck(r, since, T)
  BY <1>1, <1>6, <1>7, LeaveStuck
<1>9. Whole(r)
  BY DEF Now
<1> QED BY <1>4, <1>8, <1>9, CReturnStuck, DoStuck

\* The C functions call in protected mode, and come back.
LEMMA SwitchStuck ==
  ASSUME NEW g, Good(vm, g), NEW since \in [Threads -> Nat], NEW T, Stuck(vm, since, T),
         Switch, NEW h, Good(vm', h)
  PROVE  Stuck(vm', since, T)
<1>1. CASE vm.todo = "body"
  <2>1. Stuck(Do(vm, "raise"), since, T)
    BY <1>1, BodyFacts, StateFacts, DoStuck
  <2> QED BY <1>1, <2>1, BodyParts, BodyPCallStuck
<1>2. CASE vm.todo \in {"ok", "failed"}
  BY <1>2, AfterParts, AfterStuck
<1> QED BY <1>1, <1>2, SwitchTodo

\* Only a thread that had yielded is remembered anew, unless it has less calls now.
LEMMA RememberFacts ==
  ASSUME Remember, resumed \in [Threads -> Nat], vm'.th \in [Threads -> Thread]
  PROVE  /\ Remembered'
         /\ \A t \in Threads : Len(vm'.th[t].ci) \in Nat
         /\ \A t \in Threads :
              vm.th[t].status # "yield" \/ vm'.th[t].status # "ok" =>
                /\ resumed'[t] <= resumed[t]
                /\ resumed'[t] = resumed[t] \/ resumed'[t] = Len(vm'.th[t].ci)
<1> DEFINE n(t) == Len(vm'.th[t].ci)
           W(t) == resumed[t] > n(t) \/ (vm.th[t].status = "yield" /\ vm'.th[t].status = "ok")
<1>1. \A t \in Threads : n(t) \in Nat
  BY LenProperties DEF Thread
<1>2. resumed' = [t \in Threads |-> IF W(t) THEN n(t) ELSE resumed[t]]
  BY DEF Remember
<1>3. \A t \in Threads : ~W(t) => ~(resumed[t] > n(t))
  OBVIOUS
<1>4. \A t \in Threads :
        vm.th[t].status # "yield" \/ vm'.th[t].status # "ok" => (W(t) => resumed[t] > n(t))
  OBVIOUS
<1> HIDE DEF W
<1>5. \A t \in Threads : resumed'[t] = IF W(t) THEN n(t) ELSE resumed[t]
  BY <1>2
<1>6. resumed' \in [Threads -> Nat]
  <2> HIDE DEF n
  <2> QED BY <1>1, <1>2
<1>7. \A t \in Threads : resumed'[t] <= n(t)
  <2> HIDE DEF n
  <2> QED BY <1>1, <1>3, <1>5
<1>8. ASSUME NEW t \in Threads, vm.th[t].status # "yield" \/ vm'.th[t].status # "ok"
      PROVE  resumed'[t] <= resumed[t] /\ (resumed'[t] = resumed[t] \/ resumed'[t] = n(t))
  <2> HIDE DEF n
  <2> QED BY <1>1, <1>4, <1>5, <1>8
<1> QED BY <1>1, <1>6, <1>7, <1>8 DEF Remembered

\* What is remembered of the threads on the C stack makes no more calls hot.
LEMMA RememberSticks ==
  ASSUME Remember, resumed \in [Threads -> Nat], vm'.th \in [Threads -> Thread],
         \A t \in Threads : On(vm'.native, t) => ~Awoken(t),
         Sticks(vm', resumed)
  PROVE  Sticks(vm', resumed')
<1>1. ASSUME NEW u \in Threads, NEW i \in Nat, Hot(vm'.th, vm'.native, resumed', u, i)
      PROVE  Hot(vm'.th, vm'.native, resumed, u, i)
  <2>1. On(vm'.native, u) /\ i \in 1 .. Len(vm'.th[u].ci)
    BY <1>1 DEF Hot
  <2>2. /\ resumed'[u] = resumed[u] \/ resumed'[u] = Len(vm'.th[u].ci)
        /\ Len(vm'.th[u].ci) \in Nat
    BY <2>1, RememberFacts DEF Awoken
  <2>3. resumed'[u] <= i => resumed[u] <= i \/ i = Len(vm'.th[u].ci)
    BY <2>1, <2>2
  <2> QED BY <1>1, <2>3 DEF Hot
<1> QED BY <1>1 DEF Sticks

LEMMA RememberFloors ==
  ASSUME Remember, resumed \in [Threads -> Nat], vm'.th \in [Threads -> Thread],
         vm'.native \in Seq(Activation), ~Awoken(Main),
         \A t \in Threads : On(vm'.native, t) => ~Awoken(t),
         resumed[Main] = 0,
         \A i \in 1 .. Len(vm'.native) : vm'.native[i].k = "resume" =>
           LET t == vm'.native[i].th
           IN resumed[t] <= Rest(vm'.native, i) \/ Len(vm'.th[t].ci) <= Rest(vm'.native, i)
  PROVE  Floors(vm'.native, resumed')
<1>1. Main \in Threads
  BY DEF Threads
<1>2. /\ resumed' \in [Threads -> Nat] /\ \A t \in Threads : resumed'[t] <= Len(vm'.th[t].ci)
      /\ \A t \in Threads : Len(vm'.th[t].ci) \in Nat
  BY RememberFacts DEF Remembered
<1>3. resumed'[Main] = 0
  <2>1. resumed'[Main] <= resumed[Main] /\ resumed'[Main] \in Nat
    BY <1>1, <1>2, RememberFacts DEF Awoken
  <2> QED BY <2>1
<1>4. ASSUME NEW i \in 1 .. Len(vm'.native), vm'.native[i].k = "resume"
      PROVE  resumed'[vm'.native[i].th] <= Rest(vm'.native, i)
  <2> DEFINE t == vm'.native[i].th
             n == Len(vm'.th[t].ci)
             m == Rest(vm'.native, i)
  <2>1. t \in Threads /\ m \in Nat
    <3>1. vm'.native[i] \in Activation
      BY ElementOfSeq
    <3> QED BY <3>1, RestNat DEF Activation
  <2>2. On(vm'.native, t)
    BY DEF On
  <2>3. resumed'[t] <= resumed[t] /\ resumed'[t] <= n /\ n \in Nat
        /\ resumed'[t] \in Nat /\ resumed[t] \in Nat
    BY <1>2, <2>1, <2>2, RememberFacts DEF Awoken
  <2>4. resumed[t] <= m \/ n <= m
    BY <1>4
  <2> HIDE DEF t, n, m
  <2>5. resumed'[t] <= m
    BY <2>1, <2>3, <2>4
  <2> QED BY <2>5 DEF t, m
<1> QED BY <1>3, <1>4 DEF Floors

LEMMA UpFacts ==
  ASSUME NEW g, Good(vm, g)
  PROVE  /\ Among(vm.native, Up) /\ Main \in Up /\ \A t \in Up : ~Awoken(t)
         /\ vm.native \in Seq(Activation)
<1>1. /\ State(vm, g) /\ vm.native \in Seq(Activation) /\ Len(vm.native) \in Nat
      /\ 1 <= Len(vm.native)
  BY StateFacts DEF Good
<1>2. ASSUME NEW i \in 1 .. Len(vm.native)
      PROVE  vm.native[i].th \in Up
  <2>1. vm.native[i] \in Activation
    BY <1>1, ElementOfSeq
  <2>2. vm.native[i].th \in Threads
    BY <2>1 DEF Activation
  <2>3. vm.th[vm.native[i].th].status = "ok"
    BY <1>1 DEF State, Shape, Rising
  <2> QED BY <2>2, <2>3 DEF Up
<1>3. vm.native[1].th = Main
  BY <1>1 DEF State, Shape, Linked, Bottom
<1>4. 1 \in 1 .. Len(vm.native)
  BY <1>1
<1> QED BY <1>1, <1>2, <1>3, <1>4 DEF Among, Awoken, Up

\* A step holds it that keeps what taint sticks to, over the same threads.
LEMMA StuckHolds ==
  ASSUME NEW g, Good(vm, g), NEW h, Good(vm', h), TaintHolds, Remember,
         Stuck(vm, resumed, Up) => Stuck(vm', resumed, Up)
  PROVE  TaintHolds'
<1>1. /\ Among(vm.native, Up) /\ Main \in Up /\ \A t \in Up : ~Awoken(t)
  BY UpFacts
<1>2. /\ vm'.th \in [Threads -> Thread] /\ vm'.native \in Seq(Activation)
  BY StateFacts DEF Good
<1>3. resumed \in [Threads -> Nat]
  BY DEF TaintHolds, Remembered
<1>4. Sticks(vm', resumed) /\ Floors(vm'.native, resumed) /\ Among(vm'.native, Up)
  <2>1. Stuck(vm, resumed, Up)
    BY <1>1 DEF TaintHolds, Stuck
  <2> QED BY <2>1 DEF Stuck
<1>5. \A t \in Threads : On(vm'.native, t) => ~Awoken(t)
  BY <1>1, <1>4 DEF On, Among
<1>6. Sticks(vm', resumed')
  BY <1>2, <1>3, <1>4, <1>5, RememberSticks
<1>7. Floors(vm'.native, resumed')
  <2>1. resumed[Main] = 0
    BY <1>4 DEF Floors
  <2>2. ASSUME NEW i \in 1 .. Len(vm'.native), vm'.native[i].k = "resume"
        PROVE  LET t == vm'.native[i].th
               IN resumed[t] <= Rest(vm'.native, i) \/ Len(vm'.th[t].ci) <= Rest(vm'.native, i)
    BY <1>4, <2>2 DEF Floors
  <2> QED BY <1>1, <1>2, <1>3, <1>5, <2>1, <2>2, RememberFloors
<1>8. Remembered'
  BY <1>2, <1>3, RememberFacts
<1> QED BY <1>6, <1>7, <1>8 DEF TaintHolds

\* OP_RETURN goes back to a function that may have been called before the thread
\* was resumed: as much of it as is left now counts.
LEMMA OpReturnHolds ==
  ASSUME NEW g, Good(vm, g), TaintHolds, Remember, OpReturn
  PROVE  TaintHolds'
<1> DEFINE N == vm.native
           M == vm'.native
           m == Len(vm.native)
           p == m - 1
           co == Run(vm)
           t == Cur(vm)
           d == Len(t.ci) - 1
           n == Act(vm).n - 1
<1>1. PICK h, u :
        /\ Good(vm', h)
        /\ Kept(u, t) /\ Keeps(u, t, d)
        /\ \/ n = 0 /\ Back(vm', vm, u, p)
           \/ /\ n # 0 /\ Now(vm', vm, u, [N EXCEPT ![m].n = n])
              /\ vm'.todo = "run" /\ Reentered(u)
  BY OpReturnGood
<1>2. /\ State(vm, g) /\ Act(vm).k = "exec" /\ Act(vm).n \in Nat /\ 1 <= Act(vm).n
      /\ Len(t.ci) = g[m].b + Act(vm).n
      /\ vm.th \in [Threads -> Thread] /\ co \in Threads /\ t = vm.th[co] /\ t.status = "ok"
      /\ N \in Seq(Activation) /\ m = Len(g) /\ m \in Nat /\ Act(vm) = N[m] /\ N[m].th = co
      /\ Len(t.ci) \in Nat
  <2>1. vm.todo = "run"
    BY DEF OpReturn, InLua
  <2> QED BY <2>1, InLuaFacts, StateFacts
<1>3. /\ p \in 1 .. m /\ m \in 2 .. m /\ m \in 1 .. m /\ p + 1 = m
      /\ N[p].k \in {"call", "resume"} /\ N[p].th = co /\ g[p] = g[m] /\ g[m].b \in Nat
  BY <1>2, ExecFacts, StateFacts
<1>4. d = g[m].b + n /\ n \in Nat /\ d \in Nat /\ d <= Len(t.ci)
  <2>1. \A a, b, c \in Nat : a = b + c /\ 1 <= c =>
          a - 1 = b + (c - 1) /\ c - 1 \in Nat /\ a - 1 \in Nat /\ a - 1 <= a
    OBVIOUS
  <2> QED BY <1>2, <1>3, <2>1
<1>5. /\ vm'.th = [vm.th EXCEPT ![co] = u] /\ u \in Thread /\ u.status = "ok" /\ Len(u.ci) = d
      /\ t.stack # None => u.stack # None
  BY <1>1, <1>2 DEF Back, Now, Kept, Keeps
<1>6. /\ M \in Seq(Activation) /\ Len(M) \in {p, m}
      /\ \A i \in 1 .. p : M[i] = N[i]
      /\ \/ n = 0 /\ Len(M) = p
         \/ /\ n # 0 /\ Len(M) = m /\ M = [N EXCEPT ![m].n = n] /\ M[m].th = co
            /\ M[m].k = "exec" /\ M[m].n = n
  <2>1. CASE n = 0
    <3>1. M = SubSeq(N, 1, p) /\ p \in 0 .. Len(N)
      BY <1>1, <1>3, <2>1 DEF Back, Now
    <3> HIDE DEF M, N, p
    <3>2. M \in Seq(Activation) /\ Len(M) = p /\ \A i \in 1 .. p : M[i] = N[i]
      BY <1>2, <3>1, FirstOnes
    <3> QED BY <2>1, <3>2
  <2>2. CASE n # 0
    <3>1. M = [N EXCEPT ![m].n = n]
      BY <1>1, <2>2 DEF Back, Now
    <3>2. M \in Seq(Activation)
      BY <1>1, StateFacts DEF Good
    <3>3. N[m] \in Activation
      BY <1>2, <1>3, ElementOfSeq
    <3>4. N[m].k = "exec" /\ N[m].th = co
      BY <1>2
    <3> HIDE DEF M, n
    <3>5. /\ Len(M) = m /\ \A i \in 1 .. p : M[i] = N[i]
          /\ M[m].th = co /\ M[m].k = "exec" /\ M[m].n = n
      BY <1>2, <1>3, <3>1, <3>3, <3>4 DEF Activation
    <3> QED BY <2>2, <3>1, <3>2, <3>5
  <2> QED BY <2>1, <2>2
<1>7. /\ resumed \in [Threads -> Nat] /\ Sticks(vm, resumed) /\ Floors(N, resumed)
      /\ Among(N, Up) /\ Main \in Up /\ \A x \in Up : ~Awoken(x)
  BY UpFacts DEF TaintHolds, Remembered
<1>t. vm'.th \in [Threads -> Thread]
  BY <1>2, <1>5
<1>b. Bare(vm')
  BY <1>1, GoodBare
<1> HIDE DEF N, M, p, t, d, n, co, m
<1>8. \A i \in 1 .. Len(M) : i \in 1 .. m /\ M[i].th = N[i].th
  <2>1. \A i \in 1 .. Len(M) : i \in 1 .. p \/ i = m
    BY <1>2, <1>3, <1>6
  <2> QED BY <1>2, <1>3, <1>6, <2>1
<1>9. \A x \in Threads : On(M, x) => ~Awoken(x)
  BY <1>7, <1>8 DEF On, Among, m, N
<1>10. Sticks(vm', resumed)
  <2>1. Sound(vm)
    BY <1>2, StateSound
  <2>2. Along(M, N, p, co) /\ N[p].th = co /\ N[p].k # "c" /\ 1 <= Len(M) /\ M[Len(M)].th = co
    <3>1. CASE Len(M) = p
      <4>1. \A k \in p + 1 .. Len(M) : FALSE
        BY <1>2, <1>3, <3>1
      <4>2. \A k \in p + 1 .. m : N[k].k # "c" /\ N[k].th = co
        BY <1>2, <1>3
      <4>3. p \in 1 .. p /\ \A k \in 1 .. p - 1 : k \in 1 .. p
        BY <1>3
      <4>4. Len(M) = p /\ \A i \in 1 .. p : M[i] = N[i]
        BY <1>6, <3>1
      <4>5. N[p].th = co /\ p \in 1 .. Len(N)
        BY <1>3 DEF m, N
      <4>6. \A k \in p + 1 .. Len(N) : N[k].k # "c" /\ N[k].th = co
        BY <4>2 DEF m, N
      <4>7. Along(M, N, p, co)
        BY <4>1, <4>3, <4>4, <4>5, <4>6 DEF Along
      <4>8. 1 <= Len(M) /\ M[Len(M)].th = co
        BY <1>3, <4>3, <4>4, <4>5
      <4> QED BY <1>3, <4>7, <4>8
    <3>2. CASE Len(M) = m
      <4>1. \A k \in p + 1 .. m : N[k].k # "c" /\ N[k].th = co /\ M[k].k # "c" /\ M[k].th = co
        BY <1>2, <1>3, <1>6, <3>2
      <4>3. p \in 1 .. p /\ \A k \in 1 .. p - 1 : k \in 1 .. p
        BY <1>3
      <4> QED BY <1>3, <1>6, <3>2, <4>1, <4>3 DEF Along, m
    <3> QED BY <1>6, <3>1, <3>2
  <2>3. Follows(u, t, resumed[co], M, co)
    <3>1. \/ resumed[co] <= d
          \/ 1 <= d => (TaintOf(u.ci[d]) # None => u.stack # None /\ Shadow(M, co, d) = {})
      <4>1. CASE n = 0 /\ N[p].k = "call"
        <5>1. resumed[N[p].th] <= g[p].b + Runs(N[p])
          BY <1>2, <1>3, <1>7, <4>1, FloorBelow DEF N
        <5> QED BY <1>3, <1>4, <4>1, <5>1 DEF Runs
      <4>2. CASE n = 0 /\ N[p].k = "resume"
        <5>1. g[p].b = 0
          BY <1>2, <1>3, <4>2, ResumeFacts DEF N
        <5> QED BY <1>3, <1>4, <4>2, <5>1
      <4>3. CASE n # 0
        <5> SUFFICES ASSUME 1 <= d, TaintOf(u.ci[d]) # None
                     PROVE  u.stack # None /\ Shadow(M, co, d) = {}
          OBVIOUS
        <5>1. Run(vm') = co
          BY <1>6, <4>3 DEF Run, Act, M
        <5>2. Cur(vm') = u
          BY <1>2, <1>5, <5>1 DEF Cur
        <5>3. Top(vm') = u.ci[d]
          BY <1>5, <5>2 DEF Top
        <5>4. vm'.todo = "run" /\ Reentered(u)
          BY <1>1, <4>3 DEF n
        <5>5. u.mode = "rw" /\ Shadow(M, co, d) = {}
          BY <1>5, <1>b, <5>1, <5>2, <5>3, <5>4 DEF Bare, M
        <5>6. PICK w \in Thread : u = Reenter(w, u.ci[d])
          BY <1>5, <5>4 DEF Reentered
        <5>7. u.stack # None
          <6> DEFINE f == u.ci[d]
          <6>1. TaintOf(f) # None /\ u = Reenter(w, f)
            BY <5>6
          <6> HIDE DEF f
          <6> QED BY <5>5, <6>1, ReenterTaints
        <5> QED BY <5>5, <5>7
      <4> QED BY <1>3, <4>1, <4>2, <4>3
    <3>2. Keeps(u, t, d) /\ resumed[co] \in Nat
      BY <1>1, <1>2, <1>7 DEF d, t
    <3> QED BY <1>2, <1>4, <3>1, <3>2, FollowsKeeps
  <2>4. Now(vm', vm, u, M)
    BY <1>1 DEF Back, Now, M, N
  <2> QED BY <1>4, <1>5, <1>6, <1>7, <2>1, <2>2, <2>3, <2>4, GoesOn DEF N, t, co
<1>11. ASSUME NEW i \in 1 .. Len(M), M[i].k = "resume"
       PROVE  \/ resumed[M[i].th] <= Rest(M, i)
              \/ Len(vm'.th[M[i].th].ci) <= Rest(M, i)
  <2>1. i \in 1 .. p /\ M[i] = N[i] /\ i \in 1 .. m
    <3>1. i \in 1 .. p \/ i = m
      BY <1>2, <1>3, <1>6, <1>8
    <3>2. i # m
      BY <1>2, <1>6, <1>11
    <3> QED BY <1>2, <1>3, <1>6, <1>8, <3>1, <3>2
  <2>2. CASE i = p
    <3>1. g[p].b = 0
      BY <1>2, <1>3, <1>11, <2>1, <2>2, ResumeFacts DEF N
    <3>2. Len(vm'.th[M[i].th].ci) = n
      BY <1>2, <1>3, <1>4, <1>5, <2>1, <2>2, <3>1
    <3>3. Rest(M, i) \in Nat
      BY <1>6, RestNat
    <3>4. n # 0 => Rest(M, i) = n
      BY <1>2, <1>3, <1>6, <2>2 DEF Rest
    <3> QED BY <1>4, <3>2, <3>3, <3>4
  <2>3. CASE i # p
    <3>1. i + 1 \in 1 .. p /\ i < p
      BY <1>2, <1>3, <2>1, <2>3
    <3>2. i < Len(M) /\ i < m /\ M[i + 1] = N[i + 1]
      BY <1>2, <1>3, <1>6, <3>1
    <3>3. Rest(M, i) = Rest(N, i)
      BY <3>2 DEF Rest, m, N
    <3>4. resumed[N[i].th] <= Rest(N, i)
      BY <1>7, <1>11, <2>1 DEF Floors, m, N
    <3> QED BY <2>1, <3>3, <3>4
  <2> QED BY <2>2, <2>3
<1>12. Sticks(vm', resumed')
  BY <1>7, <1>9, <1>10, <1>t, RememberSticks DEF M
<1>13. Floors(vm'.native, resumed')
  <2>1. resumed[Main] = 0 /\ ~Awoken(Main)
    BY <1>7 DEF Floors
  <2>2. \A x \in Threads : On(vm'.native, x) => ~Awoken(x)
    BY <1>9 DEF M
  <2>3. ASSUME NEW i \in 1 .. Len(vm'.native), vm'.native[i].k = "resume"
        PROVE  LET x == vm'.native[i].th
               IN resumed[x] <= Rest(vm'.native, i) \/ Len(vm'.th[x].ci) <= Rest(vm'.native, i)
    BY <1>11, <2>3 DEF M
  <2>4. vm'.native \in Seq(Activation)
    BY <1>6 DEF M
  <2> QED BY <1>7, <1>t, <2>1, <2>2, <2>3, <2>4, RememberFloors
<1>14. Remembered'
  BY <1>7, <1>t, RememberFacts
<1> QED BY <1>12, <1>13, <1>14 DEF TaintHolds

\* Taint sticks to what it stuck to when a coroutine is resumed.
LEMMA JoinSticks ==
  ASSUME NEW s, NEW co, NEW r, NEW since,
         \A t \in Threads : t = co \/ r.th[t] = s.th[t],
         Joins(r.native, s.native, co),
         Cur(s).stack = None \/ Cur(r).stack # None,
         Sticks(s, since), Open(r, since, co)
  PROVE  Sticks(r, since)
<1> DEFINE M == r.native
           N == s.native
           n == Len(N)
<1>1. /\ n \in Nat /\ n \in 1 .. n /\ N[n].k = "exec" /\ Len(M) \in {n + 1, n + 2}
      /\ \A i \in 1 .. n : M[i] = N[i]
      /\ \A i \in n + 1 .. Len(M) : M[i].th = co /\ M[i].k # "c"
  BY DEF Joins
<1>2. n \in 1 .. Len(M) /\ \A i \in 1 .. n - 1 : i \in 1 .. n
  BY <1>1
<1>3. \A i \in n + 1 .. n : FALSE
  BY <1>1
<1>4. Along(M, N, n, co)
  <2>1. \A k \in n + 1 .. Len(N) : N[k].k # "c" /\ N[k].th \in {N[n].th, co}
    BY <1>3
  <2>2. M[n] = N[n]
    BY <1>1
  <2> QED BY <1>1, <1>2, <2>1, <2>2 DEF Along
<1>5. ASSUME NEW u \in Threads, NEW i \in Nat, Hot(r.th, r.native, since, u, i), u # co
      PROVE  /\ Hot(s.th, N, since, u, i)
             /\ Shadow(r.native, u, i) = Shadow(N, u, i)
             /\ \A k \in Shadow(N, u, i) : r.native[k] = N[k]
  <2>1. /\ Shadow(M, u, i) = Shadow(N, u, i)
        /\ \A k \in Shadow(N, u, i) : M[k] = N[k]
        /\ On(M, u) <=> On(N, u)
    <3>1. Len(M) \in Nat /\ Len(N) \in Nat /\ N[n].k # "c"
      BY <1>1
    <3> HIDE DEF N, n, M
    <3>2. u # co \/ co = N[n].th
      BY <1>5
    <3>3. N[n].k = "c" /\ N[n].th = u =>
            (n < Len(N) => i <= N[n + 1].ci) /\ (n < Len(M) => i <= M[n + 1].ci)
      BY <3>1
    <3>4. Alongside(M, N, u, i)
      BY <1>4, <3>1, <3>2, <3>3, ShadowAlong
    <3> QED BY <3>4 DEF Alongside
  <2>2. r.th[u] = s.th[u]
    BY <1>5
  <2>3. Hot(s.th, N, since, u, i)
    BY <1>5, <2>1, <2>2 DEF Hot
  <2> QED BY <2>1, <2>3
<1> QED BY <1>5, SticksOn DEF Open

\* Nor has another thread been resumed above what it runs on the C stack.
LEMMA JoinFloors ==
  ASSUME NEW M \in Seq(Activation), NEW N, NEW co, Joins(M, N, co),
         NEW since, Floors(N, since), since[co] <= Rest(M, Len(N) + 1)
  PROVE  Floors(M, since)
<1> DEFINE n == Len(N)
<1>1. /\ n \in Nat /\ N[n].k = "exec" /\ Len(M) \in {n + 1, n + 2}
      /\ \A i \in 1 .. n : M[i] = N[i]
      /\ \A i \in n + 1 .. Len(M) : M[i].th = co
      /\ Len(M) = n + 2 => M[n + 2].k # "resume"
  BY DEF Joins
<1>2. ASSUME NEW i \in 1 .. Len(M), M[i].k = "resume"
      PROVE  since[M[i].th] <= Rest(M, i)
  <2>1. i \in 1 .. n \/ i = n + 1
    BY <1>1, <1>2
  <2>2. CASE i \in 1 .. n
    <3>1. i # n
      BY <1>1, <1>2, <2>2
    <3>2. i + 1 \in 1 .. n /\ i < n /\ i < Len(M)
      BY <1>1, <2>2, <3>1
    <3>3. Rest(M, i) = Rest(N, i) /\ M[i] = N[i]
      BY <1>1, <2>2, <3>2 DEF Rest
    <3>4. since[N[i].th] <= Rest(N, i)
      BY <1>2, <2>2, <3>3 DEF Floors
    <3> QED BY <3>3, <3>4
  <2>3. CASE i = n + 1
    <3>1. M[i].th = co
      BY <1>1, <2>3
    <3> QED BY <2>3, <3>1
  <2> QED BY <2>1, <2>2, <2>3
<1> QED BY <1>2 DEF Floors

\* What a resume puts on the C stack.
LEMMA ResumesJoins ==
  ASSUME NEW g, Good(vm, g), Act(vm).k = "exec", NEW r, Resumes(r, vm)
  PROVE  /\ r.native \in Seq(Activation) /\ Len(r.native) = Len(vm.native) + 1
         /\ Len(vm.native) \in Nat
         /\ Joins(r.native, vm.native, Run(r))
         /\ \A n \in Nat :
              LET M == Append(r.native, [k |-> "exec", th |-> Run(r), n |-> n])
              IN M \in Seq(Activation) /\ Joins(M, vm.native, Run(r))
                 /\ Rest(M, Len(vm.native) + 1) = n /\ M[Len(M)].th = Run(r)
<1> DEFINE N == vm.native
           m == Len(N)
           co == Run(r)
           a == [k |-> "resume", th |-> co]
           L == Append(N, a)
<1>1. /\ N \in Seq(Activation) /\ m \in Nat /\ 1 <= m /\ N[m].k = "exec"
  BY StateFacts DEF Good, Act
<1>2. /\ co \in Threads /\ \A i \in 1 .. m : N[i].th # co
      /\ r.native = L
  BY DEF Resumes, Aside, Threads
<1>3. a \in Activation /\ a.k = "resume" /\ a.th = co
  BY <1>2 DEF Activation
<1> HIDE DEF N, a, co
<1>4. L \in Seq(Activation) /\ Len(L) = m + 1 /\ L[m + 1] = a /\ \A i \in 1 .. m : L[i] = N[i]
  BY <1>1, <1>3, OneMore
<1> HIDE DEF L
<1>5. Joins(L, N, co)
  <2>1. \A i \in m + 1 .. m + 1 : i = m + 1
    BY <1>1
  <2>2. \A i \in m + 1 .. Len(L) : L[i].th = co /\ L[i].k # "c"
    BY <1>3, <1>4, <2>1
  <2> QED BY <1>1, <1>2, <1>3, <1>4, <2>2 DEF Joins
<1>6. ASSUME NEW n \in Nat, NEW b, b = [k |-> "exec", th |-> co, n |-> n],
             NEW M, M = Append(L, b)
      PROVE  M \in Seq(Activation) /\ Joins(M, N, co) /\ Rest(M, m + 1) = n /\ M[Len(M)].th = co
  <2>1. b \in Activation /\ b.k = "exec" /\ b.th = co /\ b.n = n
    BY <1>2, <1>6 DEF Activation
  <2>2. M \in Seq(Activation) /\ Len(M) = m + 2 /\ M[m + 2] = b
        /\ \A i \in 1 .. m + 1 : M[i] = L[i]
    <3>1. M \in Seq(Activation) /\ Len(M) = Len(L) + 1 /\ M[Len(L) + 1] = b
          /\ \A i \in 1 .. Len(L) : M[i] = L[i]
      BY <1>4, <1>6, <2>1, OneMore
    <3>2. Len(L) + 1 = m + 2
      BY <1>1, <1>4
    <3> QED BY <1>4, <3>1, <3>2
  <2>3. \A i \in 1 .. m : M[i] = N[i]
    BY <1>1, <1>4, <2>2
  <2>4. M[m + 1] = a
    BY <1>1, <1>4, <2>2
  <2>5. \A i \in m + 1 .. Len(M) : M[i].th = co /\ M[i].k # "c"
    <3>1. \A i \in m + 1 .. m + 2 : i = m + 1 \/ i = m + 2
      BY <1>1
    <3> QED BY <1>3, <2>1, <2>2, <2>4, <3>1
  <2>6. Joins(M, N, co)
    BY <1>1, <1>2, <1>3, <2>1, <2>2, <2>3, <2>4, <2>5 DEF Joins
  <2>7. Rest(M, m + 1) = n
    <3>1. m + 1 < Len(M) /\ (m + 1) + 1 = m + 2
      BY <1>1, <2>2
    <3> QED BY <2>1, <2>2, <3>1 DEF Rest
  <2> QED BY <2>1, <2>2, <2>6, <2>7
<1>7. ASSUME NEW n \in Nat
      PROVE  LET M == Append(L, [k |-> "exec", th |-> co, n |-> n])
             IN M \in Seq(Activation) /\ Joins(M, N, co) /\ Rest(M, m + 1) = n
                /\ M[Len(M)].th = co
  BY <1>6
<1> QED BY <1>1, <1>2, <1>4, <1>5, <1>7 DEF N, co

\* A coroutine that has not run yet is resumed.
LEMMA FreshStuck ==
  ASSUME NEW g, Good(vm, g), Act(vm).k = "exec", TaintHolds,
         NEW r, NEW h, State(r, h), Resumes(r, vm),
         vm.th[Run(r)].status = "ok", Cur(r).ci = <<>>
  PROVE  Stuck(r, resumed, Up)
<1> DEFINE co == Run(r)
           M == r.native
           N == vm.native
<1>1. /\ M \in Seq(Activation) /\ Joins(M, N, co) /\ Len(M) = Len(N) + 1 /\ Len(N) \in Nat
  BY ResumesJoins
<1>2. /\ co \in Threads /\ r.th = [vm.th EXCEPT ![co] = Cur(r)]
      /\ vm.th[co].ci = <<>> /\ Cur(r).stack = Cur(vm).stack
  BY DEF Resumes, Aside, Threads
<1>3. vm.th \in [Threads -> Thread]
  BY StateFacts DEF Good
<1>4. /\ Sticks(vm, resumed) /\ Floors(N, resumed) /\ resumed \in [Threads -> Nat]
      /\ resumed[co] <= 0 /\ Among(N, Up)
  BY <1>2, UpFacts, EmptySeq DEF TaintHolds, Remembered
<1> HIDE DEF M, co, N
<1>5. Sticks(r, resumed)
  <2>1. ASSUME NEW i \in Nat, Hot(r.th, M, resumed, co, i)
        PROVE  FALSE
    BY <1>2, <1>3, <2>1, EmptySeq DEF Hot, co
  <2>2. Open(r, resumed, co)
    BY <2>1 DEF Open, M
  <2>3. /\ Joins(r.native, vm.native, co)
        /\ Cur(vm).stack = None \/ Cur(r).stack # None
        /\ \A t \in Threads : t = co \/ r.th[t] = vm.th[t]
    BY <1>1, <1>2, <1>3 DEF M, N
  <2> QED BY <1>4, <2>2, <2>3, JoinSticks
<1>6. Floors(M, resumed)
  <2>1. Len(N) + 1 \in 1 .. Len(M)
    BY <1>1
  <2>2. Rest(M, Len(N) + 1) \in Nat
    BY <1>1, <2>1, RestNat
  <2>3. resumed[co] <= Rest(M, Len(N) + 1)
    BY <1>2, <1>4, <2>2
  <2> QED BY <1>1, <1>4, <2>3, JoinFloors
<1>7. Among(M, Up)
  <2>1. co \in Up
    BY <1>2 DEF Up, co
  <2>2. \A i \in 1 .. Len(M) : i \in 1 .. Len(N) \/ i \in Len(N) + 1 .. Len(M)
    BY <1>1
  <2>3. /\ \A i \in 1 .. Len(N) : M[i] = N[i]
        /\ \A i \in Len(N) + 1 .. Len(M) : M[i].th = co
    BY <1>1 DEF Joins
  <2> QED BY <1>4, <2>1, <2>2, <2>3 DEF Among
<1> QED BY <1>5, <1>6, <1>7 DEF Stuck, M

\* A coroutine that had yielded is resumed: its calls below the one that runs on
\* do not count from then on.
LEMMA AgainHolds ==
  ASSUME NEW g, Good(vm, g), Act(vm).k = "exec", TaintHolds, Remember,
         NEW r, NEW h, State(r, h), Resumes(r, vm),
         vm.th[Run(r)].status = "yield", 2 <= Len(Cur(r).ci),
         NEW e, Good(vm', e), NEW u,
         Ahead(vm', r, u, [k |-> "exec", th |-> Run(r), n |-> Len(Cur(r).ci) - 1]),
         Kept(u, Cur(r)), Len(u.ci) = Len(Cur(r).ci) - 1, Reentered(u), vm'.todo = "run"
  PROVE  TaintHolds'
<1> DEFINE co == Run(r)
           N == vm.native
           M == vm'.native
           n == Len(u.ci)
<1>1. /\ co \in Threads /\ co # Main /\ Cur(r) = r.th[co] /\ Cur(r).status = "ok"
      /\ vm.th \in [Threads -> Thread] /\ N \in Seq(Activation)
  BY StateFacts, NamesAssumption DEF Good, Resumes, Threads
<1>2. /\ r.th = [vm.th EXCEPT ![co] = Cur(r)] /\ \A i \in 1 .. Len(N) : N[i].th # co
      /\ Cur(r).stack = Cur(vm).stack
  BY DEF Resumes, Aside
<1>3. /\ Len(Cur(r).ci) \in Nat /\ n \in Nat /\ u \in Thread /\ u.status = "ok"
      /\ Cur(r).stack # None => u.stack # None
  <2>1. Len(Cur(r).ci) \in Nat
    BY StateFacts
  <2>2. n \in Nat
    BY <2>1
  <2> QED BY <1>1, <2>1, <2>2 DEF Kept
<1>4. /\ M = Append(r.native, [k |-> "exec", th |-> co, n |-> n])
      /\ vm'.th = [r.th EXCEPT ![co] = u]
  BY DEF Ahead, Now
<1>5. /\ M \in Seq(Activation) /\ Joins(M, N, co) /\ Rest(M, Len(N) + 1) = n
      /\ M[Len(M)].th = co
  BY <1>3, <1>4, ResumesJoins
<1>6. /\ vm'.th \in [Threads -> Thread] /\ vm'.th[co] = u
      /\ \A t \in Threads : t = co \/ vm'.th[t] = vm.th[t]
  BY <1>1, <1>2, <1>3, <1>4
<1>7. Run(vm') = co /\ Cur(vm') = u
  <2>1. Run(vm') = co
    BY <1>5 DEF Run, Act
  <2> QED BY <1>6, <2>1 DEF Cur
<1>8. resumed \in [Threads -> Nat] /\ Sticks(vm, resumed) /\ Floors(N, resumed)
      /\ \A t \in Threads : resumed[t] <= Len(vm.th[t].ci)
  BY DEF TaintHolds, Remembered
<1>9. Bare(vm')
  BY GoodBare
<1> HIDE DEF N, M, n, co
<1>10. /\ resumed'[co] = n
       /\ \A t \in Threads : t = co \/ resumed'[t] = resumed[t]
  <2>1. resumed'[co] = n
    BY <1>1, <1>3, <1>6 DEF Remember, n, co
  <2>2. ASSUME NEW t \in Threads, t # co
        PROVE  resumed'[t] = resumed[t]
    <3>1. vm'.th[t] = vm.th[t]
      BY <1>6, <2>2
    <3>2. Len(vm.th[t].ci) \in Nat /\ resumed[t] \in Nat /\ resumed[t] <= Len(vm.th[t].ci)
      <4>1. vm.th[t] \in Thread
        BY <1>1, <2>2
      <4> QED BY <1>8, <2>2, <4>1 DEF Thread
    <3> QED BY <2>2, <3>1, <3>2 DEF Remember
  <2> QED BY <2>1, <2>2
<1>11. Sticks(vm, resumed')
  <2>1. ASSUME NEW x \in Threads, NEW i \in Nat, Hot(vm.th, N, resumed', x, i)
        PROVE  Hot(vm.th, N, resumed, x, i)
    <3>1. x # co
      BY <1>2, <2>1 DEF Hot, On
    <3> QED BY <1>10, <2>1, <3>1 DEF Hot
  <2> QED BY <1>8, <2>1 DEF Sticks, N
<1>12. Open(vm', resumed', co)
  <2> SUFFICES ASSUME NEW i \in Nat, Hot(vm'.th, M, resumed', co, i)
               PROVE  Shadow(M, co, i) = {} /\ u.stack # None
    BY <1>7 DEF Open, M
  <2>1. i = n /\ TaintOf(u.ci[n]) # None
    <3>1. i \in 1 .. n /\ (n <= i \/ i = n)
      BY <1>6, <1>10 DEF Hot, n
    <3>2. i = n
      BY <1>3, <3>1
    <3> QED BY <1>6, <3>2 DEF Hot
  <2>2. Top(vm') = u.ci[n]
    BY <1>7 DEF Top, n
  <2>3. u.mode = "rw" /\ Shadow(M, co, n) = {}
    BY <1>7, <1>9, <2>1, <2>2 DEF Bare, M, n
  <2>4. PICK w \in Thread : u = Reenter(w, u.ci[n])
    BY DEF Reentered, n
  <2>5. u.stack # None
    <3> DEFINE f == u.ci[n]
    <3>1. TaintOf(f) # None /\ u = Reenter(w, f)
      BY <2>1, <2>4
    <3> HIDE DEF f
    <3> QED BY <2>3, <3>1, ReenterTaints
  <2> QED BY <2>1, <2>3, <2>5
<1>13. Sticks(vm', resumed')
  <2>1. Cur(vm).stack = None \/ Cur(vm').stack # None
    BY <1>2, <1>3, <1>7
  <2>2. Joins(vm'.native, vm.native, co)
    BY <1>5 DEF M, N
  <2> QED BY <1>6, <1>11, <1>12, <2>1, <2>2, JoinSticks
<1>14. Floors(M, resumed')
  <2>1. Floors(N, resumed')
    <3>1. resumed'[Main] = 0
      BY <1>1, <1>8, <1>10 DEF Floors, Threads
    <3>2. ASSUME NEW i \in 1 .. Len(N), N[i].k = "resume"
          PROVE  resumed'[N[i].th] <= Rest(N, i)
      <4>1. N[i] \in Activation
        BY <1>1, <3>2, ElementOfSeq
      <4>2. N[i].th \in Threads /\ N[i].th # co
        BY <1>2, <3>2, <4>1 DEF Activation
      <4>3. resumed[N[i].th] <= Rest(N, i)
        BY <1>8, <3>2 DEF Floors
      <4> QED BY <1>10, <4>2, <4>3
    <3> QED BY <3>1, <3>2 DEF Floors
  <2>2. resumed'[co] <= Rest(M, Len(N) + 1)
    BY <1>3, <1>5, <1>10
  <2> QED BY <1>5, <2>1, <2>2, JoinFloors
<1>15. Remembered'
  BY <1>6, <1>8, RememberFacts
<1> QED BY <1>13, <1>14, <1>15 DEF TaintHolds, M

\* Taint sticks over a resume, or what refuses it.
LEMMA ResumeHolds ==
  ASSUME NEW g, Good(vm, g), TaintHolds, Remember, Resume
  PROVE  TaintHolds'
<1>1. State(vm, g) /\ Own(vm, g) = 1 /\ Act(vm).k = "exec" /\ Whole(vm)
  BY ResumeParts, StateFacts DEF Good
<1>2. PICK e : Good(vm', e)
  BY ResumeGood
<1>3. resumed \in [Threads -> Nat]
  BY DEF TaintHolds, Remembered
<1>4. CASE vm' \in {CReturn(vm), Do(vm, "raise")}
  <2>1. ASSUME Stuck(vm, resumed, Up)
        PROVE  Stuck(CReturn(vm), resumed, Up) /\ Stuck(Do(vm, "raise"), resumed, Up)
    BY <1>1, <1>3, <2>1, CReturnStuck, DoStuck
  <2>2. Stuck(vm, resumed, Up) => Stuck(vm', resumed, Up)
    BY <1>4, <2>1
  <2> QED BY <1>2, <2>2, StuckHolds
<1>5. CASE vm' \notin {CReturn(vm), Do(vm, "raise")}
  <2>1. PICK r, h :
          /\ State(r, h) /\ Act(r).k = "resume" /\ h[Len(h)].m = "rw" /\ h[Len(h)].b = 0
          /\ Resumes(r, vm)
          /\ \/ /\ 2 <= Len(Cur(r).ci) /\ RunsIn(Cur(r).ci, 0, Len(Cur(r).ci) - 1, "rw")
                /\ \E q : /\ q = TakenUp(r)
                          /\ vm' = Do(Set(q, Reenter(Cur(q), Top(q))), "run")
                /\ vm.th[Run(r)].status = "yield"
             \/ /\ \E f \in Functions : Ready(r, h, f) /\ vm' = Precall(r, f)
                /\ vm.th[Run(r)].status = "ok" /\ Cur(r).ci = <<>>
    BY <1>5, ResumeParts
  <2>2. CASE /\ 2 <= Len(Cur(r).ci) /\ RunsIn(Cur(r).ci, 0, Len(Cur(r).ci) - 1, "rw")
             /\ \E q : /\ q = TakenUp(r)
                       /\ vm' = Do(Set(q, Reenter(Cur(q), Top(q))), "run")
             /\ vm.th[Run(r)].status = "yield"
    <3>1. \E d, u :
            /\ Good(vm', d)
            /\ Ahead(vm', r, u, [k |-> "exec", th |-> Run(r), n |-> Len(Cur(r).ci) - 1])
            /\ Kept(u, Cur(r)) /\ Len(u.ci) = Len(Cur(r).ci) - 1 /\ Reentered(u)
            /\ vm'.todo = "run"
      BY <2>1, <2>2, AgainGood
    <3> QED BY <1>1, <2>1, <2>2, <3>1, AgainHolds
  <2>3. CASE /\ \E f \in Functions : Ready(r, h, f) /\ vm' = Precall(r, f)
             /\ vm.th[Run(r)].status = "ok" /\ Cur(r).ci = <<>>
    <3>1. PICK f \in Functions : vm' = Precall(r, f)
      BY <2>3
    <3>2. Stuck(r, resumed, Up)
      BY <1>1, <2>1, <2>3, FreshStuck
    <3>3. Firm(r) /\ Act(r).k # "c"
      BY <2>1, StateFirm
    <3>4. Bare(Precall(r, f))
      BY <1>2, <3>1, GoodBare
    <3>5. Stuck(vm', resumed, Up)
      BY <1>3, <3>1, <3>2, <3>3, <3>4, PrecallStuck
    <3> QED BY <1>2, <3>5, StuckHolds
  <2> QED BY <2>1, <2>2, <2>3
<1> QED BY <1>4, <1>5

\* It sticks over every step but the last.
LEMMA NextHolds ==
  ASSUME NEW g, Good(vm, g), TaintHolds, Next
  PROVE  vm'.todo = "end" \/ ((\E h : Good(vm', h)) /\ TaintHolds')
<1> SUFFICES ASSUME vm'.todo # "end"
             PROVE  (\E h : Good(vm', h)) /\ TaintHolds'
  OBVIOUS
<1>1. PICK h : Good(vm', h)
  BY NextGood DEF Next
<1>2. Remember /\ Step /\ resumed \in [Threads -> Nat]
  BY DEF Next, TaintHolds, Remembered
<1>3. CASE OpReturn
  BY <1>1, <1>2, <1>3, OpReturnHolds
<1>4. CASE Resume
  BY <1>1, <1>2, <1>4, ResumeHolds
<1>5. CASE ~OpReturn /\ ~Resume
  <2> SUFFICES ASSUME Stuck(vm, resumed, Up)
               PROVE  Stuck(vm', resumed, Up)
    BY <1>1, <1>2, StuckHolds
  <2>1. CASE OpCall \/ OpTailCall \/ ReadTainted \/ RuntimeError \/ Plain \/ Error
    BY <1>2, <2>1, OpCallStuck, OpTailCallStuck, ReadTaintedStuck, PlainStuck, Zenon
  <2>2. CASE ErrorMsg \/ CallReturns \/ Catch \/ ForceInsecure
    BY <1>2, <2>2, ErrorMsgStuck, CallReturnsStuck, CatchStuck, ForceInsecureStuck, Zenon
  <2>3. CASE Create \/ Yield \/ Finish \/ Die
    <3>1. Clings(vm', vm)
      BY <2>3, CreateLeads, YieldLeads, FinishLeads, DieLeads, LeadsGood, Zenon
    <3> QED BY <1>2, <3>1 DEF Clings
  <2>4. CASE Switch
    BY <1>1, <1>2, <2>4, SwitchStuck, Zenon
  <2> QED BY <1>2, <1>5, <2>1, <2>2, <2>3, <2>4, Zenon DEF Step, Switch
<1> QED BY <1>1, <1>3, <1>4, <1>5

\* In the beginning nothing is tainted, and no function of wowless is insecure.
LEMMA InitHolds == ASSUME Init PROVE TaintHolds
<1>1. PICK h \in HostLua : vm = Started(h)
  BY DEF Init, Started
<1> DEFINE N == vm.native
<1>2. resumed = [t \in Threads |-> 0]
  BY DEF Init
<1>3. /\ Len(N) = 3 /\ N[1].k = "try" /\ N[2].k = "call" /\ N[3].k = "exec"
      /\ N[1].th = Main /\ N[2].th = Main /\ N[3].th = Main
  BY <1>1 DEF Started
<1>4. Main \in Threads
  BY DEF Threads
<1>5. vm.th[Main].ci = <<h>> /\ TaintOf(h) = None
  <2>1. vm.th[Main].ci = <<h>>
    BY <1>1, <1>4 DEF Started, NewThread
  <2>2. h \notin DOMAIN ClosureTaint
    BY CallsAssumption, NamesAssumption
  <2> QED BY <2>1, <2>2 DEF TaintOf
<1>6. \A i \in 1 .. Len(N) : N[i].th = Main /\ N[i].k # "resume"
  <2>1. \A i \in 1 .. Len(N) : i = 1 \/ i = 2 \/ i = 3
    BY <1>3
  <2> QED BY <1>3, <2>1
<1>7. Remembered
  <2>1. PICK g : Good(vm, g)
    BY InitGood
  <2>2. vm.th \in [Threads -> Thread]
    BY <2>1, StateFacts DEF Good
  <2>3. ASSUME NEW t \in Threads
        PROVE  0 <= Len(vm.th[t].ci)
    <3>1. vm.th[t] \in Thread
      BY <2>2
    <3>2. Len(vm.th[t].ci) \in Nat
      BY <3>1 DEF Thread
    <3> QED BY <3>2
  <2> QED BY <1>2, <2>3 DEF Remembered
<1> HIDE DEF N
<1>8. Sticks(vm, resumed)
  <2>1. ASSUME NEW u \in Threads, NEW i \in Nat, Hot(vm.th, N, resumed, u, i)
        PROVE  FALSE
    <3>1. u = Main
      BY <1>6, <2>1 DEF Hot, On
    <3>2. i \in 1 .. Len(vm.th[Main].ci) /\ TaintOf(vm.th[Main].ci[i]) # None
      BY <2>1, <3>1 DEF Hot
    <3>3. i = 1
      BY <1>5, <3>2
    <3> QED BY <1>5, <3>2, <3>3
  <2> QED BY <2>1 DEF Sticks, N
<1>9. Floors(N, resumed)
  BY <1>2, <1>4, <1>6 DEF Floors
<1> QED BY <1>7, <1>8, <1>9 DEF TaintHolds, N

\* The protected call of a boundary shields the calls it stands above.
LEMMA ShadowShields ==
  ASSUME NEW g, Good(vm, g), vm.todo = "run", NEW u, NEW i,
         NEW k \in Shadow(vm.native, u, i), vm.native[k].f \in Boundary
  PROVE  Shielded(vm, u, i)
<1> DEFINE N == vm.native
<1>1. State(vm, g) /\ Act(vm).k = "exec"
  BY InLuaFacts
<1>2. /\ N \in Seq(Activation) /\ Len(N) = Len(g) /\ Len(N) \in Nat /\ Act(vm) = N[Len(N)]
  BY <1>1, StateFacts
<1>3. k \in 1 .. Len(N) /\ N[k].k = "c" /\ Below(N, u, i, k)
  BY DEF Shadow
<1>4. k # Len(N) /\ k < Len(N)
  BY <1>1, <1>2, <1>3
<1>5. N[k + 1].k = "try" /\ N[k + 1].th = N[k].th
  BY <1>1, <1>2, <1>3, <1>4, TryOnC
<1>6. k + 1 \in 2 .. Len(N) /\ (k + 1) - 1 = k
  BY <1>2, <1>3, <1>4
<1>7. CASE N[k].th = u
  <2>1. N[k + 1].th = u /\ i <= N[k + 1].ci
    BY <1>3, <1>4, <1>5, <1>7 DEF Below
  <2> QED BY <1>5, <1>6, <2>1 DEF Shielded
<1>8. CASE N[k].th # u
  <2>1. \A j \in k .. Len(N) : N[j].th # u
    BY <1>3, <1>8 DEF Below
  <2>2. \A j \in k + 1 .. Len(N) : j \in k .. Len(N)
    BY <1>2, <1>3
  <2>3. N[k + 1].th # u /\ \A j \in k + 1 .. Len(N) : N[j].th # u
    BY <1>5, <1>8, <2>1, <2>2
  <2> QED BY <1>5, <1>6, <2>3 DEF Shielded
<1> QED BY <1>7, <1>8

\* Where nothing is tainted no insecure call is without a boundary above it.
LEMMA TaintHoldsSticks == ASSUME TaintInv PROVE TaintSticks
<1> SUFFICES ASSUME InLua, Cur(vm).stack = None, NEW u \in InsecureCalls(vm)
             PROVE  FALSE
  BY DEF TaintSticks
<1>1. vm.todo = "run" /\ IInv /\ TaintHolds
  BY DEF TaintInv, InLua
<1>2. PICK g : Good(vm, g)
  BY <1>1 DEF IInv
<1>3. PICK i \in DOMAIN vm.th[u].ci :
        resumed[u] <= i /\ TaintOf(vm.th[u].ci[i]) # None /\ ~Shielded(vm, u, i)
  BY DEF InsecureCalls
<1>4. u \in Threads /\ On(vm.native, u)
  BY DEF InsecureCalls, OnCStack, On
<1>5. i \in Nat /\ i \in 1 .. Len(vm.th[u].ci)
  <2>1. vm.th[u] \in Thread
    BY <1>2, <1>4, StateFacts DEF Good
  <2>2. vm.th[u].ci \in Seq(Functions)
    BY <2>1 DEF Thread
  <2> QED BY <2>2
<1>6. Hot(vm.th, vm.native, resumed, u, i)
  BY <1>3, <1>4, <1>5 DEF Hot
<1>7. Tells(vm.native, Shadow(vm.native, u, i), Cur(vm).stack)
  BY <1>1, <1>4, <1>5, <1>6 DEF TaintHolds, Sticks
<1>8. PICK k \in Shadow(vm.native, u, i) : vm.native[k].f \in Boundary
  BY <1>7 DEF Tells
<1> QED BY <1>1, <1>2, <1>3, <1>8, ShadowShields

\* Whatever an insecure function calls, or resumes, is tainted until wowless or a
\* secure delegate stands between: no error, no barrier of a protected call and
\* no coroutine that waits washes the taint off (lstate.h, lsec.h, ldo.c,
\* lvm.c, lbaselib.c, bubblewrap.c).
THEOREM CallsTaintSticks == Spec => []TaintSticks
<1>1. Init => TaintInv
  BY InitGood, InitHolds DEF TaintInv, IInv
<1>2. TaintInv /\ [Next]_vars => TaintInv'
  <2> SUFFICES ASSUME TaintInv, [Next]_vars PROVE TaintInv'
    OBVIOUS
  <2>1. CASE UNCHANGED vars
    <3>1. vm' = vm /\ resumed' = resumed
      BY <2>1 DEF vars
    <3>2. \A g : Good(vm, g) => Good(vm', g)
      BY <3>1
    <3>3. ASSUME IInv
          PROVE  IInv'
      <4>1. CASE vm.todo = "end"
        BY <3>1, <4>1 DEF IInv
      <4>2. CASE \E g : Good(vm, g)
        <5>1. \E g : Good(vm', g)
          BY <3>2, <4>2
        <5> QED BY <5>1 DEF IInv
      <4> QED BY <3>3, <4>1, <4>2 DEF IInv
    <3>4. TaintHolds => TaintHolds'
      BY <3>1 DEF TaintHolds, Remembered
    <3> QED BY <3>1, <3>3, <3>4 DEF TaintInv
  <2>2. CASE Next
    <3>1. vm.todo # "end" /\ IInv /\ TaintHolds
      BY <2>2, EndStays DEF TaintInv, Next
    <3>2. PICK g : Good(vm, g)
      BY <3>1 DEF IInv
    <3>3. vm'.todo = "end" \/ ((\E h : Good(vm', h)) /\ TaintHolds')
      BY <2>2, <3>1, <3>2, NextHolds
    <3> QED BY <3>3 DEF TaintInv, IInv
  <2> QED BY <2>1, <2>2
<1>3. TaintInv => TaintSticks
  BY TaintHoldsSticks
<1> QED BY <1>1, <1>2, <1>3, PTL DEF Spec

=============================================================================
