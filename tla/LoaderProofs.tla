---------------------------- MODULE LoaderProofs ----------------------------
(***************************************************************************)
(* Loading addons, for any addons with any .toc files, any dependencies,   *)
(* cycles included, and any calls of LoadAddOn by the Lua code of a file:  *)
(* no file runs twice in an environment, dependencies are loaded first,    *)
(* and when the stack of calls is empty nothing is left half done.         *)
(***************************************************************************)
EXTENDS Loader, SequenceTheorems, TLAPS

\* The marks of the loads with and without forceSecure.
Att(s) == IF s THEN secdeploadattempted ELSE loadattempted
Done(s) == IF s THEN secdeploaded ELSE loaded

\* The loads of a: all, those that have not marked it yet, those that have,
\* and those of them whose addon is not loaded yet.
LoadIs(c, a, s) == c.what = "load" /\ c.addon = a /\ (c.secure <=> s)
Pending(c, a, s) == LoadIs(c, a, s) /\ c.at \in {"enter", "check"}
Begun(c, a, s) == LoadIs(c, a, s) /\ c.at \notin {"enter", "check"}
Running(c, a, s) == LoadIs(c, a, s) /\ c.at \in {"deps", "files", "variables"}

\* The bootstraps of a that have marked it.
Booting(c, a) == c.what = "boot" /\ c.addon = a /\ c.at # "enter"

\* What is still to be called: a load of a, a bootstrap of a.
LoadWaits(a) == \E i \in 1 .. Len(stack) : Pending(stack[i], a, FALSE)
BootWaits(a) ==
  \E i \in 1 .. Len(stack) :
    stack[i].what = "boot" /\ stack[i].addon = a /\ stack[i].at = "enter"

\* The types of the variables; a mark that something is over is one that it began.
Types ==
  /\ toc \in Toc /\ Sensible(toc)
  /\ loaded \subseteq loadattempted /\ loadattempted \subseteq Addon
  /\ secdeploaded \subseteq secdeploadattempted /\ secdeploadattempted \subseteq Addon
  /\ bootstrapped \subseteq bootstrapping /\ bootstrapping \subseteq toc.loadondemand
  /\ stack \in Seq(InProgress)
  /\ phase \in {"loadfirst", "signed", "unsigned", "done"} /\ left \subseteq Addon
  /\ again \subseteq ran
  /\ ran \subseteq [addon : Addon, file : File, env : {"global", "secure"}]

\* A load that has begun is marked so, and when it has come to its reverse
\* LoadWiths the addon is loaded.  So is a bootstrap.
Marked ==
  /\ \A i \in 1 .. Len(stack) : \A a \in Addon, s \in BOOLEAN :
       Begun(stack[i], a, s) => a \in Att(s) /\ (stack[i].at = "revwiths" => a \in Done(s))
  /\ \A i \in 1 .. Len(stack) : \A a \in Addon :
       Booting(stack[i], a) => a \in bootstrapping

\* Of an addon one load at a time has begun in each way.
OneLoad ==
  \A i, j \in 1 .. Len(stack) : \A a \in Addon, s \in BOOLEAN :
    Begun(stack[i], a, s) /\ Begun(stack[j], a, s) => i = j

\* What has begun is over or on the stack.
UnderWay ==
  \A s \in BOOLEAN : \A a \in Att(s) \ Done(s) :
    \E i \in 1 .. Len(stack) : Running(stack[i], a, s)
BootUnderWay ==
  \A a \in bootstrapping \ bootstrapped : \E i \in 1 .. Len(stack) : Booting(stack[i], a)

\* Those dependencies of a load that it has come to are loaded, or being
\* loaded no further in; or the load of one is the call just above.
Todo(c) == IF c.at = "deps" THEN c.todo ELSE {}
Settled(i, d, s) ==
  \/ d \in Done(s)
  \/ \E j \in 1 .. i : Begun(stack[j], d, s)
  \/ stack[i].at = "deps" /\ i < Len(stack) /\ LoadIs(stack[i + 1], d, s)
DepsSettled ==
  \A i \in 1 .. Len(stack) :
    stack[i].what = "load" /\ stack[i].at \notin {"enter", "check"} =>
      \A d \in toc.deps[stack[i].addon] \ Todo(stack[i]), s \in BOOLEAN :
        (s <=> UseSecureEnv(stack[i])) => Settled(i, d, s)

\* A load with forceSecure comes after one without.
Preceded(i, a) ==
  \/ a \in loadattempted
  \/ i < Len(stack) /\ Pending(stack[i + 1], a, FALSE)
WithoutFirst ==
  \A i \in 1 .. Len(stack) : \A a \in Addon :
    LoadIs(stack[i], a, TRUE) /\ stack[i].at = "check" => Preceded(i, a)
ForcedLast == secdeploadattempted \subseteq loadattempted

\* With an addon its dependencies are loaded, or under way.
DepsAttempted ==
  \A a \in loaded :
    /\ toc.deps[a] \subseteq loadattempted
    /\ a \in toc.onlysecure => toc.deps[a] \subseteq secdeploadattempted

\* So is what has a LoadWith on it, when its load has come to that.
WithsAttempted ==
  \A a \in loaded : \A w \in toc.revwiths[a] :
    \/ w \in loadattempted
    \/ \E i \in 1 .. Len(stack) :
         LoadIs(stack[i], a, FALSE) /\ stack[i].at = "revwiths" /\ w \in stack[i].todo
    \/ LoadWaits(w)

\* Nothing is bootstrapped before the onlysecure addons are loaded.
Boots ==
  /\ phase = "loadfirst" => \A i \in 1 .. Len(stack) : stack[i].what = "load"
  /\ phase # "loadfirst" => toc.loadfirst \subseteq loaded
  /\ \A i \in 1 .. Len(stack) : \A a \in Addon : Booting(stack[i], a) => a \notin toc.onlysecure

\* Every addon the loop has come to has been loaded or bootstrapped, or will be.
Came(a) ==
  \/ a \in loadattempted \/ a \in bootstrapping \/ LoadWaits(a)
  \/ a \in toc.loadondemand /\ BootWaits(a)
CameFirst(a) == a \in loadattempted \/ LoadWaits(a)
Turns ==
  /\ phase = "loadfirst" => \A a \in toc.loadfirst \ left : CameFirst(a)
  /\ phase = "signed" => \A a \in toc.signed \ left : Came(a)
  /\ phase = "unsigned" => left \subseteq Addon \ toc.signed /\ \A a \in Addon \ left : Came(a)
  /\ phase = "done" => left = {} /\ \A a \in Addon : Came(a)

\* A file that has run, but for the exceptions of RunOnce, has not run again;
\* its load is marked, and if it is still on the stack it is past the file.
RanOnce ==
  \A r \in ran :
    \/ r.addon \in toc.onlysecure
    \/ r.file \in IntoGlobal \cup IntoSecure \cup Bootstrap
    \/ /\ r \notin again
       /\ r.addon \in Att(r.env = "secure")
       /\ \A i \in 1 .. Len(stack) : Begun(stack[i], r.addon, r.env = "secure") =>
            \E k \in 1 .. stack[i].next - 1 : Files[k] = r.file

IInv ==
  /\ Types /\ Marked /\ OneLoad /\ UnderWay /\ BootUnderWay /\ DepsSettled
  /\ WithoutFirst /\ ForcedLast /\ DepsAttempted /\ WithsAttempted /\ Boots /\ Turns /\ RanOnce

-----------------------------------------------------------------------------
(* What the actions do to the stack, place by place.                        *)

Same(n) == \A i \in 1 .. n : stack'[i] = stack[i]
Kept == UNCHANGED <<toc, phase, left, marks>>

\* The call c is the one at the top, at a place of its own.
Now(c, at, todo, next) ==
  /\ c \in InProgress
  /\ c.what = stack[Len(stack)].what /\ c.addon = stack[Len(stack)].addon
  /\ c.secure = stack[Len(stack)].secure
  /\ c.at = at /\ c.todo = todo /\ c.next = next

Entering(c, what, a, s) ==
  /\ c \in InProgress
  /\ c.what = what /\ c.addon = a /\ (c.secure <=> s)
  /\ c.at = "enter" /\ c.todo = {} /\ c.next = 1

TopIs(what, at) ==
  /\ Len(stack) \in Nat \ {0} /\ stack[Len(stack)] \in InProgress
  /\ stack[Len(stack)].what = what /\ stack[Len(stack)].at = at

\* The call at the top goes on, goes on after a new call, or is over; a call
\* is begun on top of it.
Moves(at, todo, next) ==
  /\ Len(stack') = Len(stack) /\ Same(Len(stack) - 1)
  /\ Now(stack'[Len(stack)], at, todo, next)
Opens(at, todo, next, what, a, s) ==
  /\ Len(stack') = Len(stack) + 1 /\ Same(Len(stack) - 1)
  /\ Now(stack'[Len(stack)], at, todo, next)
  /\ Entering(stack'[Len(stack) + 1], what, a, s)
Ends == Len(stack') = Len(stack) - 1 /\ Same(Len(stack) - 1)
Adds(what, a, s) ==
  /\ Len(stack') = Len(stack) + 1 /\ Same(Len(stack))
  /\ Entering(stack'[Len(stack) + 1], what, a, s)

\* A file has been run.
Ran(a, file, env) ==
  LET r == [addon |-> a, file |-> file, env |-> env] IN
    ran' = ran \cup {r} /\ again' = again \cup ({r} \cap ran)

\* The first n elements of a sequence.
LEMMA FirstOnes ==
  ASSUME NEW S, NEW s \in Seq(S), NEW n \in 0 .. Len(s)
  PROVE  /\ SubSeq(s, 1, n) \in Seq(S) /\ Len(SubSeq(s, 1, n)) = n
         /\ \A i \in 1 .. n : SubSeq(s, 1, n)[i] = s[i]
<1>1. \A i \in 1 .. n : s[i] \in S
  BY LenProperties
<1> QED
  BY <1>1, SubSeqProperties

\* One element more.
LEMMA OneMore ==
  ASSUME NEW S, NEW s \in Seq(S), NEW x \in S
  PROVE  /\ Append(s, x) \in Seq(S) /\ Len(Append(s, x)) = Len(s) + 1
         /\ Append(s, x)[Len(s) + 1] = x
         /\ \A i \in 1 .. Len(s) : Append(s, x)[i] = s[i]
         /\ Len(s) \in Nat
BY AppendProperties, LenProperties

\* Two elements more.
LEMMA TwoMore ==
  ASSUME NEW S, NEW s \in Seq(S), NEW x \in S, NEW y \in S
  PROVE  /\ s \o <<x, y>> \in Seq(S) /\ Len(s \o <<x, y>>) = Len(s) + 2
         /\ (s \o <<x, y>>)[Len(s) + 1] = x /\ (s \o <<x, y>>)[Len(s) + 2] = y
         /\ \A i \in 1 .. Len(s) : (s \o <<x, y>>)[i] = s[i]
<1> DEFINE t == <<x, y>>
<1>1. t \in Seq(S) /\ Len(t) = 2 /\ t[1] = x /\ t[2] = y
  OBVIOUS
<1>2. Len(s) \in Nat
  BY LenProperties
<1> HIDE DEF t
<1>3. s \o t \in Seq(S) /\ Len(s \o t) = Len(s) + 2
  BY <1>1, <1>2, ConcatProperties
<1>4. \A i \in 1 .. Len(s) : (s \o t)[i] = s[i]
  BY <1>1, <1>2, ConcatProperties
<1>5. (s \o t)[Len(s) + 1] = x /\ (s \o t)[Len(s) + 2] = y
  BY <1>1, <1>2, ConcatProperties
<1> QED
  BY <1>3, <1>4, <1>5 DEF t

\* The calls below the top.
LEMMA BelowIs ==
  ASSUME stack \in Seq(InProgress), stack # <<>>, NEW n, n = Len(stack) - 1
  PROVE  /\ n \in Nat /\ Len(stack) = n + 1
         /\ Below \in Seq(InProgress) /\ Len(Below) = n
         /\ \A i \in 1 .. n : Below[i] = stack[i]
<1>1. n \in 0 .. Len(stack) /\ n \in Nat /\ Len(stack) = n + 1
  BY EmptySeq, LenProperties
<1>2. Below = SubSeq(stack, 1, n)
  BY DEF Below
<1> QED
  BY <1>1, <1>2, FirstOnes

\* The top of the stack is replaced.
LEMMA GotoStack ==
  ASSUME stack \in Seq(InProgress), stack # <<>>, NEW c \in InProgress, Goto(c)
  PROVE  /\ stack' \in Seq(InProgress) /\ Len(stack') = Len(stack)
         /\ Same(Len(stack) - 1) /\ stack'[Len(stack)] = c
<1> DEFINE n == Len(stack) - 1
<1>1. /\ n \in Nat /\ Len(stack) = n + 1
      /\ Below \in Seq(InProgress) /\ Len(Below) = n
      /\ \A i \in 1 .. n : Below[i] = stack[i]
  BY BelowIs
<1>2. stack' = Append(Below, c)
  BY DEF Goto
<1> HIDE DEF n
<1>3. /\ stack' \in Seq(InProgress) /\ Len(stack') = n + 1 /\ stack'[n + 1] = c
      /\ \A i \in 1 .. n : stack'[i] = Below[i]
  BY <1>1, <1>2, OneMore
<1> QED
  BY <1>1, <1>3 DEF Same, n

\* The top of the stack is replaced and a call put on it.
LEMMA PushStack ==
  ASSUME stack \in Seq(InProgress), stack # <<>>, NEW c \in InProgress,
         NEW new \in InProgress, Push(c, new)
  PROVE  /\ stack' \in Seq(InProgress) /\ Len(stack') = Len(stack) + 1
         /\ Same(Len(stack) - 1) /\ stack'[Len(stack)] = c /\ stack'[Len(stack) + 1] = new
<1> DEFINE n == Len(stack) - 1
<1>1. /\ n \in Nat /\ Len(stack) = n + 1
      /\ Below \in Seq(InProgress) /\ Len(Below) = n
      /\ \A i \in 1 .. n : Below[i] = stack[i]
  BY BelowIs
<1>2. stack' = Below \o <<c, new>>
  BY DEF Push
<1> HIDE DEF n
<1>3. /\ stack' \in Seq(InProgress) /\ Len(stack') = n + 2
      /\ stack'[n + 1] = c /\ stack'[n + 2] = new
      /\ \A i \in 1 .. n : stack'[i] = Below[i]
  <2>1. ASSUME NEW s \in Seq(InProgress), Len(s) = n
        PROVE  /\ s \o <<c, new>> \in Seq(InProgress) /\ Len(s \o <<c, new>>) = n + 2
               /\ (s \o <<c, new>>)[n + 1] = c /\ (s \o <<c, new>>)[n + 2] = new
               /\ \A i \in 1 .. n : (s \o <<c, new>>)[i] = s[i]
    BY <2>1, TwoMore
  <2> QED
    BY <1>1, <1>2, <2>1
<1> QED
  BY <1>1, <1>3 DEF Same, n

\* The top of the stack is taken off.
LEMMA BelowStack ==
  ASSUME stack \in Seq(InProgress), stack # <<>>, stack' = Below
  PROVE  /\ stack' \in Seq(InProgress) /\ Len(stack') = Len(stack) - 1
         /\ Same(Len(stack) - 1)
BY BelowIs DEF Same

\* A call is put on the stack.
LEMMA AddStack ==
  ASSUME stack \in Seq(InProgress), NEW c \in InProgress, stack' = Append(stack, c)
  PROVE  /\ stack' \in Seq(InProgress) /\ Len(stack') = Len(stack) + 1
         /\ Same(Len(stack)) /\ stack'[Len(stack) + 1] = c
BY OneMore DEF Same

\* The call at the top is one in progress.
LEMMA TopType ==
  ASSUME stack \in Seq(InProgress), stack # <<>>
  PROVE  /\ Len(stack) \in Nat \ {0} /\ stack[Len(stack)] \in InProgress
         /\ Top = stack[Len(stack)]
BY EmptySeq, LenProperties, ElementOfSeq DEF Top

\* A call that begins is a call in progress.
LEMMA NewCalls ==
  ASSUME NEW a \in Addon, NEW s \in BOOLEAN
  PROVE  Entering(LoadOf(a, s), "load", a, s) /\ Entering(BootOf(a), "boot", a, FALSE)
<1>1. Len(Files) \in Nat
  BY FilesAssumption, LenProperties
<1> QED
  BY <1>1 DEF Entering, InProgress, LoadOf, BootOf

-----------------------------------------------------------------------------
(* The actions, place by place.                                             *)

\* A call at the top that goes on.
LEMMA GotoMoves ==
  ASSUME Types, stack # <<>>, NEW c, NEW at, NEW todo, NEW next,
         Now(c, at, todo, next), Goto(c)
  PROVE  stack' \in Seq(InProgress) /\ Moves(at, todo, next)
<1>1. stack \in Seq(InProgress) /\ c \in InProgress
  BY DEF Types, Now
<1> QED
  BY <1>1, GotoStack DEF Moves

\* One that goes on after a new call.
LEMMA PushCalls ==
  ASSUME Types, stack # <<>>, NEW c, NEW at, NEW todo, NEW next, Now(c, at, todo, next),
         NEW new, NEW what, NEW a, NEW s, Entering(new, what, a, s), Push(c, new)
  PROVE  stack' \in Seq(InProgress) /\ Opens(at, todo, next, what, a, s)
<1>1. stack \in Seq(InProgress) /\ c \in InProgress /\ new \in InProgress
  BY DEF Types, Now, Entering
<1> QED
  BY <1>1, PushStack DEF Opens

\* The place of the call at the top.
LEMMA TopAt ==
  ASSUME Types, NEW what, NEW at, At(what, at)
  PROVE  /\ TopIs(what, at) /\ stack # <<>> /\ Top = stack[Len(stack)]
         /\ Top \in InProgress /\ Top.what = what /\ Top.at = at
         /\ Top.addon \in Addon
<1>1. /\ stack # <<>> /\ Len(stack) \in Nat \ {0}
      /\ stack[Len(stack)] \in InProgress /\ Top = stack[Len(stack)]
  BY TopType DEF Types, At
<1> QED
  BY <1>1 DEF At, TopIs, InProgress

\* The places of the next file and of the one after it.
LEMMA NextFile ==
  ASSUME NEW n \in 1 .. Len(Files) + 1, n <= Len(Files)
  PROVE  n + 1 \in 1 .. Len(Files) + 1
BY FilesAssumption, LenProperties

\* EnterLoad: the load goes on, perhaps after one without forceSecure.
LEMMA EnterLoadIs ==
  ASSUME Types, EnterLoad
  PROVE  /\ stack' \in Seq(InProgress) /\ Kept /\ TopIs("load", "enter")
         /\ \/ /\ Moves("check", Top.todo, Top.next)
               /\ Top.secure => Top.addon \in loaded
            \/ Opens("check", Top.todo, Top.next, "load", Top.addon, FALSE)
<1> DEFINE c == [Top EXCEPT !.at = "check"]
           new == LoadOf(Top.addon, FALSE)
<1>1. /\ TopIs("load", "enter") /\ stack # <<>> /\ Top = stack[Len(stack)]
      /\ Top \in InProgress /\ Top.addon \in Addon
  BY TopAt DEF EnterLoad
<1>2. Kept
  BY DEF EnterLoad, Kept
<1>3. Now(c, "check", Top.todo, Top.next)
  BY <1>1 DEF Now, InProgress
<1>4. Entering(new, "load", Top.addon, FALSE)
  BY <1>1, NewCalls
<1>5. Push(c, new) \/ (Goto(c) /\ (Top.secure => Top.addon \in loaded))
  BY DEF EnterLoad
<1> HIDE DEF c, new
<1>6. CASE Goto(c) /\ (Top.secure => Top.addon \in loaded)
  BY <1>1, <1>2, <1>3, <1>6, GotoMoves
<1>7. CASE Push(c, new)
  BY <1>1, <1>2, <1>3, <1>4, <1>7, PushCalls
<1> QED
  BY <1>5, <1>6, <1>7

\* SkipLoad: it is over.
LEMMA SkipLoadIs ==
  ASSUME Types, SkipLoad
  PROVE  /\ stack' \in Seq(InProgress) /\ TopIs("load", "check") /\ Ends
         /\ Kept
         /\ Attempted(Top)
<1>1. TopIs("load", "check") /\ stack # <<>>
  BY TopAt DEF SkipLoad
<1>2. /\ Kept
      /\ Attempted(Top)
  BY DEF SkipLoad, Kept, marks
<1>3. stack' \in Seq(InProgress) /\ Ends
  BY <1>1, BelowStack DEF SkipLoad, Types, Ends
<1> QED
  BY <1>1, <1>2, <1>3

\* BeginLoad: the addon is marked, its dependencies are next.
LEMMA BeginLoadIs ==
  ASSUME Types, BeginLoad
  PROVE  /\ stack' \in Seq(InProgress) /\ TopIs("load", "check")
         /\ Moves("deps", toc.deps[Top.addon], Top.next)
         /\ UNCHANGED <<toc, phase, left, loaded, secdeploaded, bootstrapping, bootstrapped>>
         /\ ~Attempted(Top)
         /\ secdeploadattempted' = secdeploadattempted \cup {a \in {Top.addon} : Top.secure}
         /\ loadattempted' = loadattempted \cup {a \in {Top.addon} : ~Top.secure}
<1> DEFINE c == [Top EXCEPT !.at = "deps", !.todo = toc.deps[Top.addon]]
<1>1. /\ TopIs("load", "check") /\ stack # <<>> /\ Top = stack[Len(stack)]
      /\ Top \in InProgress /\ Top.addon \in Addon
  BY TopAt DEF BeginLoad
<1>2. /\ UNCHANGED <<toc, phase, left, loaded, secdeploaded, bootstrapping, bootstrapped>>
      /\ ~Attempted(Top)
      /\ secdeploadattempted' = secdeploadattempted \cup {a \in {Top.addon} : Top.secure}
      /\ loadattempted' = loadattempted \cup {a \in {Top.addon} : ~Top.secure}
  BY DEF BeginLoad, Kept, marks
<1>3. toc.deps[Top.addon] \in SUBSET Addon
  BY <1>1 DEF Types, Toc
<1>4. Now(c, "deps", toc.deps[Top.addon], Top.next)
  BY <1>1, <1>3 DEF Now, InProgress
<1>5. Goto(c)
  BY DEF BeginLoad
<1> HIDE DEF c
<1> QED
  BY <1>1, <1>2, <1>4, <1>5, GotoMoves

\* LoadDep: a dependency is loaded.
LEMMA LoadDepIs ==
  ASSUME Types, NEW d \in Addon, LoadDep(d)
  PROVE  /\ stack' \in Seq(InProgress) /\ Kept /\ TopIs("load", "deps")
         /\ d \in Top.todo
         /\ Opens("deps", Top.todo \ {d}, Top.next, "load", d, UseSecureEnv(Top))
<1> DEFINE c == [Top EXCEPT !.todo = @ \ {d}]
           new == LoadOf(d, UseSecureEnv(Top))
<1>1. /\ TopIs("load", "deps") /\ stack # <<>> /\ Top = stack[Len(stack)]
      /\ Top \in InProgress /\ Top.at = "deps"
  BY TopAt DEF LoadDep
<1>2. Kept /\ d \in Top.todo
  BY DEF LoadDep, Kept
<1>3. Now(c, "deps", Top.todo \ {d}, Top.next)
  BY <1>1 DEF Now, InProgress
<1>4. Entering(new, "load", d, UseSecureEnv(Top))
  BY <1>1, NewCalls DEF UseSecureEnv, InProgress
<1>5. Push(c, new)
  BY DEF LoadDep
<1> HIDE DEF c, new
<1> QED
  BY <1>1, <1>2, <1>3, <1>4, <1>5, PushCalls

\* EndDeps: the files are next.
LEMMA EndDepsIs ==
  ASSUME Types, EndDeps
  PROVE  /\ stack' \in Seq(InProgress) /\ TopIs("load", "deps")
         /\ Moves("files", {}, Top.next)
         /\ Kept
         /\ Top.todo = {}
<1> DEFINE c == [Top EXCEPT !.at = "files"]
<1>1. /\ TopIs("load", "deps") /\ stack # <<>> /\ Top = stack[Len(stack)]
      /\ Top \in InProgress /\ Top.addon \in Addon
  BY TopAt DEF EndDeps
<1>2. /\ Kept
      /\ Top.todo = {}
  BY DEF EndDeps, Kept, marks
<1>3. Now(c, "files", {}, Top.next)
  BY <1>1, <1>2 DEF Now, InProgress
<1>4. Goto(c)
  BY DEF EndDeps
<1> HIDE DEF c
<1> QED
  BY <1>1, <1>2, <1>3, <1>4, GotoMoves

\* LoadVariables: the variables are next.
LEMMA LoadVariablesIs ==
  ASSUME Types, LoadVariables
  PROVE  /\ stack' \in Seq(InProgress) /\ TopIs("load", "files")
         /\ Moves("variables", Top.todo, Top.next)
         /\ Kept
<1> DEFINE c == [Top EXCEPT !.at = "variables", !.lua = TRUE]
<1>1. /\ TopIs("load", "files") /\ stack # <<>> /\ Top = stack[Len(stack)]
      /\ Top \in InProgress /\ Top.addon \in Addon
  BY TopAt DEF LoadVariables
<1>2. Kept
  BY DEF LoadVariables, Kept, marks
<1>3. Now(c, "variables", Top.todo, Top.next)
  BY <1>1, <1>2 DEF Now, InProgress
<1>4. Goto(c)
  BY DEF LoadVariables
<1> HIDE DEF c
<1> QED
  BY <1>1, <1>2, <1>3, <1>4, GotoMoves

\* EndLoad: the addon is loaded, what has a LoadWith on it is next.
LEMMA EndLoadIs ==
  ASSUME Types, EndLoad
  PROVE  /\ stack' \in Seq(InProgress) /\ TopIs("load", "variables")
         /\ Moves("revwiths", toc.revwiths[Top.addon], Top.next)
         /\ UNCHANGED <<toc, phase, left, loadattempted, secdeploadattempted,
                        bootstrapping, bootstrapped>>
         /\ secdeploaded' = secdeploaded \cup {a \in {Top.addon} : Top.secure}
         /\ loaded' = loaded \cup {a \in {Top.addon} : ~Top.secure}
<1> DEFINE c == [Top EXCEPT !.at = "revwiths", !.todo = toc.revwiths[Top.addon], !.lua = TRUE]
<1>1. /\ TopIs("load", "variables") /\ stack # <<>> /\ Top = stack[Len(stack)]
      /\ Top \in InProgress /\ Top.addon \in Addon
  BY TopAt DEF EndLoad
<1>2. /\ UNCHANGED <<toc, phase, left, loadattempted, secdeploadattempted,
                        bootstrapping, bootstrapped>>
      /\ secdeploaded' = secdeploaded \cup {a \in {Top.addon} : Top.secure}
      /\ loaded' = loaded \cup {a \in {Top.addon} : ~Top.secure}
  BY DEF EndLoad, Kept, marks
<1>3. toc.revwiths[Top.addon] \in SUBSET Addon
  BY <1>1 DEF Types, Toc
<1>4. Now(c, "revwiths", toc.revwiths[Top.addon], Top.next)
  BY <1>1, <1>3 DEF Now, InProgress
<1>5. Goto(c)
  BY DEF EndLoad
<1> HIDE DEF c
<1> QED
  BY <1>1, <1>2, <1>4, <1>5, GotoMoves

\* LoadRevWith: an addon with a LoadWith is loaded.
LEMMA LoadRevWithIs ==
  ASSUME Types, NEW d \in Addon, LoadRevWith(d)
  PROVE  /\ stack' \in Seq(InProgress) /\ Kept /\ TopIs("load", "revwiths")
         /\ d \in Top.todo
         /\ Opens("revwiths", Top.todo \ {d}, Top.next, "load", d, FALSE)
<1> DEFINE c == [Top EXCEPT !.todo = @ \ {d}]
           new == LoadOf(d, FALSE)
<1>1. /\ TopIs("load", "revwiths") /\ stack # <<>> /\ Top = stack[Len(stack)]
      /\ Top \in InProgress /\ Top.at = "revwiths"
  BY TopAt DEF LoadRevWith
<1>2. Kept /\ d \in Top.todo
  BY DEF LoadRevWith, Kept
<1>3. Now(c, "revwiths", Top.todo \ {d}, Top.next)
  BY <1>1 DEF Now, InProgress
<1>4. Entering(new, "load", d, FALSE)
  BY NewCalls
<1>5. Push(c, new)
  BY DEF LoadRevWith
<1> HIDE DEF c, new
<1> QED
  BY <1>1, <1>2, <1>3, <1>4, <1>5, PushCalls

\* Leave: the load is over.
LEMMA LeaveIs ==
  ASSUME Types, Leave
  PROVE  /\ stack' \in Seq(InProgress) /\ TopIs("load", "revwiths") /\ Ends
         /\ Kept
         /\ Top.todo = {}
<1>1. TopIs("load", "revwiths") /\ stack # <<>>
  BY TopAt DEF Leave
<1>2. /\ Kept
      /\ Top.todo = {}
  BY DEF Leave, Kept, marks
<1>3. stack' \in Seq(InProgress) /\ Ends
  BY <1>1, BelowStack DEF Leave, Types, Ends
<1> QED
  BY <1>1, <1>2, <1>3

\* SkipBootstrap: it is over.
LEMMA SkipBootstrapIs ==
  ASSUME Types, SkipBootstrap
  PROVE  /\ stack' \in Seq(InProgress) /\ TopIs("boot", "enter") /\ Ends
         /\ Kept
         /\ NoBootstrap(Top.addon)
<1>1. TopIs("boot", "enter") /\ stack # <<>>
  BY TopAt DEF SkipBootstrap
<1>2. /\ Kept
      /\ NoBootstrap(Top.addon)
  BY DEF SkipBootstrap, Kept, marks
<1>3. stack' \in Seq(InProgress) /\ Ends
  BY <1>1, BelowStack DEF SkipBootstrap, Types, Ends
<1> QED
  BY <1>1, <1>2, <1>3

\* BeginBootstrap: the addon is marked, its dependencies are next.
LEMMA BeginBootstrapIs ==
  ASSUME Types, BeginBootstrap
  PROVE  /\ stack' \in Seq(InProgress) /\ TopIs("boot", "enter")
         /\ Moves("deps", toc.deps[Top.addon], Top.next)
         /\ UNCHANGED <<toc, phase, left, loadattempted, loaded, secdeploadattempted,
                        secdeploaded, bootstrapped>>
         /\ ~NoBootstrap(Top.addon)
         /\ bootstrapping' = bootstrapping \cup {Top.addon}
<1> DEFINE c == [Top EXCEPT !.at = "deps", !.todo = toc.deps[Top.addon]]
<1>1. /\ TopIs("boot", "enter") /\ stack # <<>> /\ Top = stack[Len(stack)]
      /\ Top \in InProgress /\ Top.addon \in Addon
  BY TopAt DEF BeginBootstrap
<1>2. /\ UNCHANGED <<toc, phase, left, loadattempted, loaded, secdeploadattempted,
                        secdeploaded, bootstrapped>>
      /\ ~NoBootstrap(Top.addon)
      /\ bootstrapping' = bootstrapping \cup {Top.addon}
  BY DEF BeginBootstrap, Kept, marks
<1>3. toc.deps[Top.addon] \in SUBSET Addon
  BY <1>1 DEF Types, Toc
<1>4. Now(c, "deps", toc.deps[Top.addon], Top.next)
  BY <1>1, <1>3 DEF Now, InProgress
<1>5. Goto(c)
  BY DEF BeginBootstrap
<1> HIDE DEF c
<1> QED
  BY <1>1, <1>2, <1>4, <1>5, GotoMoves

\* BootstrapDep: a dependency is bootstrapped.
LEMMA BootstrapDepIs ==
  ASSUME Types, NEW d \in Addon, BootstrapDep(d)
  PROVE  /\ stack' \in Seq(InProgress) /\ Kept /\ TopIs("boot", "deps")
         /\ d \in Top.todo
         /\ Opens("deps", Top.todo \ {d}, Top.next, "boot", d, FALSE)
<1> DEFINE c == [Top EXCEPT !.todo = @ \ {d}]
           new == BootOf(d)
<1>1. /\ TopIs("boot", "deps") /\ stack # <<>> /\ Top = stack[Len(stack)]
      /\ Top \in InProgress /\ Top.at = "deps"
  BY TopAt DEF BootstrapDep
<1>2. Kept /\ d \in Top.todo
  BY DEF BootstrapDep, Kept
<1>3. Now(c, "deps", Top.todo \ {d}, Top.next)
  BY <1>1 DEF Now, InProgress
<1>4. Entering(new, "boot", d, FALSE)
  BY NewCalls
<1>5. Push(c, new)
  BY DEF BootstrapDep
<1> HIDE DEF c, new
<1> QED
  BY <1>1, <1>2, <1>3, <1>4, <1>5, PushCalls

\* EndBootstrapDeps: the files are next.
LEMMA EndBootstrapDepsIs ==
  ASSUME Types, EndBootstrapDeps
  PROVE  /\ stack' \in Seq(InProgress) /\ TopIs("boot", "deps")
         /\ Moves("files", {}, Top.next)
         /\ Kept
         /\ Top.todo = {}
<1> DEFINE c == [Top EXCEPT !.at = "files"]
<1>1. /\ TopIs("boot", "deps") /\ stack # <<>> /\ Top = stack[Len(stack)]
      /\ Top \in InProgress /\ Top.addon \in Addon
  BY TopAt DEF EndBootstrapDeps
<1>2. /\ Kept
      /\ Top.todo = {}
  BY DEF EndBootstrapDeps, Kept, marks
<1>3. Now(c, "files", {}, Top.next)
  BY <1>1, <1>2 DEF Now, InProgress
<1>4. Goto(c)
  BY DEF EndBootstrapDeps
<1> HIDE DEF c
<1> QED
  BY <1>1, <1>2, <1>3, <1>4, GotoMoves

\* EndBootstrap: the addon is bootstrapped.
LEMMA EndBootstrapIs ==
  ASSUME Types, EndBootstrap
  PROVE  /\ stack' \in Seq(InProgress) /\ TopIs("boot", "files") /\ Ends
         /\ UNCHANGED <<toc, phase, left, loadattempted, loaded, secdeploadattempted,
                        secdeploaded, bootstrapping>>
         /\ bootstrapped' = bootstrapped \cup {Top.addon}
<1>1. TopIs("boot", "files") /\ stack # <<>>
  BY TopAt DEF EndBootstrap
<1>2. /\ UNCHANGED <<toc, phase, left, loadattempted, loaded, secdeploadattempted,
                        secdeploaded, bootstrapping>>
      /\ bootstrapped' = bootstrapped \cup {Top.addon}
  BY DEF EndBootstrap, Kept, marks
<1>3. stack' \in Seq(InProgress) /\ Ends
  BY <1>1, BelowStack DEF EndBootstrap, Types, Ends
<1> QED
  BY <1>1, <1>2, <1>3

\* LoadFile: the next file, if it is not left out, runs.
LEMMA LoadFileIs ==
  ASSUME Types, LoadFile
  PROVE  /\ stack' \in Seq(InProgress) /\ Kept /\ TopIs("load", "files")
         /\ Top.next <= Len(Files) /\ Moves("files", Top.todo, Top.next + 1)
         /\ \/ UNCHANGED <<ran, again>>
            \/ Ran(Top.addon, Files[Top.next], EnvOf(Top, Files[Top.next]))
<1> DEFINE c == [Top EXCEPT !.next = @ + 1]
           cc == [Top EXCEPT !.next = @ + 1, !.lua = TRUE]
<1>1. /\ TopIs("load", "files") /\ stack # <<>> /\ Top = stack[Len(stack)]
      /\ Top \in InProgress /\ Top.at = "files"
  BY TopAt DEF LoadFile
<1>2. Kept /\ Top.next <= Len(Files)
  BY DEF LoadFile, Kept
<1>3. Top.next + 1 \in 1 .. Len(Files) + 1
  BY <1>1, <1>2, NextFile DEF InProgress
<1>4. Now(c, "files", Top.todo, Top.next + 1) /\ Now(cc, "files", Top.todo, Top.next + 1)
  BY <1>1, <1>3 DEF Now, InProgress
<1>5. \/ Goto(c) /\ UNCHANGED <<ran, again>>
      \/ Goto(cc) /\ Ran(Top.addon, Files[Top.next], EnvOf(Top, Files[Top.next]))
  BY DEF LoadFile, Run, Ran
<1> HIDE DEF c, cc
<1>6. Goto(c) \/ Goto(cc) => stack' \in Seq(InProgress) /\ Moves("files", Top.todo, Top.next + 1)
  BY <1>1, <1>4, GotoMoves
<1> QED
  BY <1>1, <1>2, <1>5, <1>6

\* BootstrapFile: the next file runs if it has Bootstrap.
LEMMA BootstrapFileIs ==
  ASSUME Types, BootstrapFile
  PROVE  /\ stack' \in Seq(InProgress) /\ Kept /\ TopIs("boot", "files")
         /\ Top.next <= Len(Files) /\ Moves("files", Top.todo, Top.next + 1)
         /\ \/ UNCHANGED <<ran, again>>
            \/ /\ Files[Top.next] \in Bootstrap
               /\ Ran(Top.addon, Files[Top.next], "global")
<1> DEFINE c == [Top EXCEPT !.next = @ + 1]
           cc == [Top EXCEPT !.next = @ + 1, !.lua = TRUE]
<1>1. /\ TopIs("boot", "files") /\ stack # <<>> /\ Top = stack[Len(stack)]
      /\ Top \in InProgress /\ Top.at = "files"
  BY TopAt DEF BootstrapFile
<1>2. Kept /\ Top.next <= Len(Files)
  BY DEF BootstrapFile, Kept
<1>3. Top.next + 1 \in 1 .. Len(Files) + 1
  BY <1>1, <1>2, NextFile DEF InProgress
<1>4. Now(c, "files", Top.todo, Top.next + 1) /\ Now(cc, "files", Top.todo, Top.next + 1)
  BY <1>1, <1>3 DEF Now, InProgress
<1>5. \/ Goto(c) /\ UNCHANGED <<ran, again>>
      \/ /\ Goto(cc) /\ Files[Top.next] \in Bootstrap
         /\ Ran(Top.addon, Files[Top.next], "global")
  BY DEF BootstrapFile, Run, Ran
<1> HIDE DEF c, cc
<1>6. Goto(c) \/ Goto(cc) => stack' \in Seq(InProgress) /\ Moves("files", Top.todo, Top.next + 1)
  BY <1>1, <1>4, GotoMoves
<1> QED
  BY <1>1, <1>2, <1>5, <1>6

\* Return: the Lua code at the top is over.
LEMMA ReturnIs ==
  ASSUME Types, Return
  PROVE  /\ stack' \in Seq(InProgress) /\ Kept /\ TopIs(Top.what, Top.at)
         /\ Moves(Top.at, Top.todo, Top.next)
<1> DEFINE c == [Top EXCEPT !.lua = FALSE]
<1>1. /\ stack # <<>> /\ Len(stack) \in Nat \ {0}
      /\ stack[Len(stack)] \in InProgress /\ Top = stack[Len(stack)]
  BY TopType DEF Types, Return
<1>2. Kept /\ TopIs(Top.what, Top.at)
  BY <1>1 DEF Return, Kept, TopIs
<1>3. Now(c, Top.at, Top.todo, Top.next)
  BY <1>1 DEF Now, InProgress
<1>4. Goto(c)
  BY DEF Return
<1> HIDE DEF c
<1> QED
  BY <1>1, <1>2, <1>3, <1>4, GotoMoves

\* LoadAddOn: a load is begun.
LEMMA LoadAddOnIs ==
  ASSUME Types, NEW a \in Addon, LoadAddOn(a)
  PROVE  stack' \in Seq(InProgress) /\ Kept /\ Adds("load", a, FALSE)
<1>1. LoadOf(a, FALSE) \in InProgress /\ Entering(LoadOf(a, FALSE), "load", a, FALSE)
  BY NewCalls DEF Entering
<1> QED
  BY <1>1, AddStack DEF Types, LoadAddOn, Kept, Adds

\* Visit: the loop comes to an addon, and loads or bootstraps it.
LEMMA VisitIs ==
  ASSUME Types, NEW a \in Addon, Visit(a)
  PROVE  /\ stack' \in Seq(InProgress) /\ UNCHANGED <<toc, phase, marks>>
         /\ Len(stack) = 0 /\ left' = left \ {a} /\ a \in left
         /\ \/ ~Concerns(a) /\ Len(stack') = 0
            \/ phase # "loadfirst" /\ a \in toc.loadondemand /\ Adds("boot", a, FALSE)
            \/ Adds("load", a, FALSE)
<1>1. /\ stack = <<>> /\ Len(stack) = 0 /\ left' = left \ {a} /\ a \in left
      /\ UNCHANGED <<toc, phase, marks>>
  BY EmptySeq DEF Visit, IsTurnOf
<1>2. \/ ~Concerns(a) /\ stack' = <<>>
      \/ /\ phase # "loadfirst" /\ a \in toc.loadondemand
         /\ stack' = <<BootOf(a)>>
      \/ stack' = <<LoadOf(a, FALSE)>>
  BY DEF Visit
<1>3. ASSUME NEW c \in InProgress, NEW what, NEW s, Entering(c, what, a, s), stack' = <<c>>
      PROVE  stack' \in Seq(InProgress) /\ Adds(what, a, s)
  <2>1. stack' \in Seq(InProgress) /\ Len(stack') = 1 /\ stack'[1] = c
    BY <1>3
  <2>2. Len(stack) + 1 = 1 /\ Same(Len(stack))
    BY <1>1 DEF Same
  <2>3. Len(stack') = Len(stack) + 1 /\ stack'[Len(stack) + 1] = c
    BY <2>1, <2>2
  <2> QED
    BY <1>3, <2>1, <2>2, <2>3 DEF Adds
<1>4. /\ Entering(LoadOf(a, FALSE), "load", a, FALSE) /\ LoadOf(a, FALSE) \in InProgress
      /\ Entering(BootOf(a), "boot", a, FALSE) /\ BootOf(a) \in InProgress
  BY NewCalls DEF Entering
<1>5. stack' = <<>> => stack' \in Seq(InProgress) /\ Len(stack') = 0
  OBVIOUS
<1>6. stack' = <<BootOf(a)>> => stack' \in Seq(InProgress) /\ Adds("boot", a, FALSE)
  BY <1>3, <1>4
<1>7. stack' = <<LoadOf(a, FALSE)>> => stack' \in Seq(InProgress) /\ Adds("load", a, FALSE)
  BY <1>3, <1>4
<1> QED
  BY <1>1, <1>2, <1>5, <1>6, <1>7

\* NextLoop: the next of the three loops.
LEMMA NextLoopIs ==
  ASSUME Types, NextLoop
  PROVE  /\ UNCHANGED <<toc, marks, stack>> /\ Len(stack) = 0 /\ left = {}
         /\ \/ phase = "loadfirst" /\ phase' = "signed" /\ left' = Addon
            \/ phase = "signed" /\ phase' = "unsigned" /\ left' = Addon \ toc.signed
            \/ phase = "unsigned" /\ phase' = "done" /\ left' = {}
BY EmptySeq DEF NextLoop, Types

-----------------------------------------------------------------------------
(* The steps that move a call on and mark nothing, together.                *)

Quiet ==
  /\ Kept /\ TopIs(Top.what, Top.at) /\ Top = stack[Len(stack)]
  /\ \E at, next :
       /\ Moves(at, Top.todo, next) /\ Top.next <= next
       /\ \/ at = Top.at
          \/ Top.at = "deps" /\ at = "files" /\ Top.todo = {}
          \/ Top.at = "files" /\ at = "variables"

\* These are the steps that are quiet.
LEMMA QuietSteps ==
  ASSUME Types,
         EndDeps \/ LoadFile \/ LoadVariables \/ EndBootstrapDeps \/ BootstrapFile \/ Return
  PROVE  stack' \in Seq(InProgress) /\ Quiet
<1>1. TopIs(Top.what, Top.at) => Top.next <= Top.next /\ Top.next <= Top.next + 1
  BY DEF TopIs, InProgress, Top
<1>2. TopIs(Top.what, Top.at) => Top = stack[Len(stack)]
  BY DEF Top
<1>3. ASSUME NEW what, NEW at, TopIs(what, at)
      PROVE  TopIs(Top.what, Top.at) /\ Top.at = at
  BY <1>3 DEF TopIs, Top
<1>4. CASE EndDeps
  BY <1>1, <1>2, <1>3, <1>4, EndDepsIs DEF Quiet
<1>5. CASE LoadFile
  BY <1>1, <1>2, <1>3, <1>5, LoadFileIs DEF Quiet
<1>6. CASE LoadVariables
  BY <1>1, <1>2, <1>3, <1>6, LoadVariablesIs DEF Quiet
<1>7. CASE EndBootstrapDeps
  BY <1>1, <1>2, <1>3, <1>7, EndBootstrapDepsIs DEF Quiet
<1>8. CASE BootstrapFile
  BY <1>1, <1>2, <1>3, <1>8, BootstrapFileIs DEF Quiet
<1>9. CASE Return
  BY <1>1, <1>2, <1>9, ReturnIs DEF Quiet
<1> QED
  BY <1>4, <1>5, <1>6, <1>7, <1>8, <1>9

\* The steps, for the proofs that follow.
LEMMA StepCases ==
  ASSUME Types, Next
  PROVE  \/ Quiet
         \/ EnterLoad \/ SkipLoad \/ BeginLoad \/ EndLoad \/ Leave
         \/ SkipBootstrap \/ BeginBootstrap \/ EndBootstrap \/ NextLoop
         \/ \E d \in Addon : LoadDep(d) \/ LoadRevWith(d) \/ BootstrapDep(d)
         \/ \E a \in Addon : Visit(a) \/ LoadAddOn(a)
BY QuietSteps DEF Next, LoaderStep

-----------------------------------------------------------------------------
(* Each part of the invariant is kept.                                      *)

\* The types.
LEMMA TypesStep ==
  ASSUME Types, Marked, Next
  PROVE  Types'
<1>1. stack' \in Seq(InProgress) /\ toc' = toc
  <2>1. stack' \in Seq(InProgress)
    BY QuietSteps, EnterLoadIs, SkipLoadIs, BeginLoadIs, EndLoadIs, LeaveIs, SkipBootstrapIs,
       BeginBootstrapIs, EndBootstrapIs, NextLoopIs, LoadDepIs, LoadRevWithIs, BootstrapDepIs,
       VisitIs, LoadAddOnIs DEF Next, LoaderStep, Types
  <2>2. toc' = toc
    BY DEF Next, LoaderStep, EnterLoad, SkipLoad, BeginLoad, LoadDep, EndDeps, LoadFile,
       LoadVariables, EndLoad, LoadRevWith, Leave, SkipBootstrap, BeginBootstrap, BootstrapDep,
       EndBootstrapDeps, BootstrapFile, EndBootstrap, LoadAddOn, Return, Visit, NextLoop
  <2> QED
    BY <2>1, <2>2
<1> DEFINE MarkTypes ==
             /\ loaded \subseteq loadattempted /\ loadattempted \subseteq Addon
             /\ secdeploaded \subseteq secdeploadattempted /\ secdeploadattempted \subseteq Addon
             /\ bootstrapped \subseteq bootstrapping /\ bootstrapping \subseteq toc.loadondemand
           LoopTypes ==
             /\ phase \in {"loadfirst", "signed", "unsigned", "done"} /\ left \subseteq Addon
           RanTypes ==
             /\ again \subseteq ran
             /\ ran \subseteq [addon : Addon, file : File, env : {"global", "secure"}]
<1>2. MarkTypes'
  <2> USE <1>1 DEF Types
  <2>1. CASE UNCHANGED marks
    BY <2>1 DEF marks
  <2>2. CASE BeginLoad
    <3>1. Top.addon \in Addon
      BY <2>2, TopAt DEF BeginLoad
    <3> QED
      BY <2>2, <3>1, BeginLoadIs
  <2>3. CASE EndLoad
    <3>1. /\ Top.addon \in Addon /\ Top.secure \in BOOLEAN /\ Len(stack) \in 1 .. Len(stack)
          /\ Begun(stack[Len(stack)], Top.addon, Top.secure)
      BY <2>3, TopAt DEF EndLoad, TopIs, Begun, LoadIs, InProgress
    <3>2. Top.addon \in Att(Top.secure)
      BY <3>1 DEF Marked
    <3> QED
      BY <2>3, <3>1, <3>2, EndLoadIs DEF Att
  <2>4. CASE BeginBootstrap
    BY <2>4, BeginBootstrapIs DEF NoBootstrap
  <2>5. CASE EndBootstrap
    <3>1. /\ Top.addon \in Addon /\ Len(stack) \in 1 .. Len(stack)
          /\ Booting(stack[Len(stack)], Top.addon)
      BY <2>5, TopAt DEF EndBootstrap, TopIs, Booting, InProgress
    <3>2. Top.addon \in bootstrapping
      BY <3>1 DEF Marked
    <3> QED
      BY <2>5, <3>2, EndBootstrapIs
  <2> QED
    BY <2>1, <2>2, <2>3, <2>4, <2>5, StepCases, EnterLoadIs, SkipLoadIs, LeaveIs,
       SkipBootstrapIs, NextLoopIs, LoadDepIs, LoadRevWithIs, BootstrapDepIs, VisitIs, LoadAddOnIs
       DEF Quiet, Kept
<1>3. LoopTypes'
  BY StepCases, EnterLoadIs, SkipLoadIs, LeaveIs, SkipBootstrapIs, NextLoopIs, LoadDepIs,
     LoadRevWithIs, BootstrapDepIs, VisitIs, LoadAddOnIs, BeginLoadIs, EndLoadIs,
     BeginBootstrapIs, EndBootstrapIs DEF Quiet, Kept, Types
<1>4. RanTypes'
  <2>1. CASE UNCHANGED <<ran, again>>
    BY <2>1 DEF Types
  <2>2. ASSUME NEW a \in Addon, NEW file \in File, NEW env \in {"global", "secure"},
               Ran(a, file, env)
        PROVE  RanTypes'
    BY <2>2 DEF Ran, Types
  <2>3. TopIs("load", "files") \/ TopIs("boot", "files") =>
          Top.addon \in Addon /\ Top.next \in 1 .. Len(Files) + 1
    BY DEF TopIs, Top, InProgress
  <2>4. \A k \in 1 .. Len(Files) + 1 : k <= Len(Files) => Files[k] \in File
    BY FilesAssumption, LenProperties, ElementOfSeq
  <2>5. \A f : EnvOf(Top, f) \in {"global", "secure"}
    BY DEF EnvOf
  <2>6. CASE LoadFile
    BY <2>1, <2>2, <2>3, <2>4, <2>5, <2>6, LoadFileIs
  <2>7. CASE BootstrapFile
    BY <2>1, <2>2, <2>3, <2>4, <2>5, <2>7, BootstrapFileIs
  <2> QED
    BY <2>1, <2>6, <2>7 DEF Next, LoaderStep, EnterLoad, SkipLoad, BeginLoad, LoadDep, EndDeps,
       LoadVariables, EndLoad, LoadRevWith, Leave, SkipBootstrap, BeginBootstrap, BootstrapDep,
       EndBootstrapDeps, EndBootstrap, LoadAddOn, Return, Visit, NextLoop
<1> QED
  BY <1>1, <1>2, <1>3, <1>4 DEF Types, Sensible

\* What has begun is marked.
LEMMA MarkedStep ==
  ASSUME Types, Marked, Types', Next
  PROVE  Marked'
<1> SUFFICES ASSUME NEW i \in 1 .. Len(stack'), NEW a \in Addon
    PROVE  /\ \A s \in BOOLEAN : Begun(stack'[i], a, s) =>
                a \in Att(s)' /\ (stack'[i].at = "revwiths" => a \in Done(s)')
           /\ Booting(stack'[i], a) => a \in bootstrapping'
  BY DEF Marked, Begun, LoadIs, Booting
<1> DEFINE Goal == /\ \A s \in BOOLEAN : Begun(stack'[i], a, s) =>
                        a \in Att(s)' /\ (stack'[i].at = "revwiths" => a \in Done(s)')
                   /\ Booting(stack'[i], a) => a \in bootstrapping'
<1>0. /\ i \in 1 .. Len(stack') /\ Len(stack) \in Nat /\ Len(stack') \in Nat
      /\ \A n \in Nat : i \in 1 .. n + 1 => i = n + 1 \/ i \in 1 .. n
      /\ \A n \in Nat : i \in 1 .. n => i = n \/ i \in 1 .. n - 1
  BY LenProperties DEF Types
<1> USE DEF Marked, Begun, LoadIs, Booting, Att, Done
<1> USE DEF TopIs, Moves, Opens, Ends, Adds, Same, Now, Entering, Kept, marks, Top
<1>1. CASE Quiet
  BY <1>0, <1>1 DEF Quiet
<1>2. CASE EnterLoad
  BY <1>0, <1>2, EnterLoadIs
<1>3. CASE SkipLoad
  BY <1>0, <1>3, SkipLoadIs
<1>4. CASE BeginLoad
  BY <1>0, <1>4, BeginLoadIs
<1>5. CASE EndLoad
  BY <1>0, <1>5, EndLoadIs
<1>6. CASE Leave
  BY <1>0, <1>6, LeaveIs
<1>7. CASE SkipBootstrap
  BY <1>0, <1>7, SkipBootstrapIs
<1>8. CASE BeginBootstrap
  BY <1>0, <1>8, BeginBootstrapIs
<1>9. CASE EndBootstrap
  BY <1>0, <1>9, EndBootstrapIs
<1>10. CASE NextLoop
  BY <1>0, <1>10, NextLoopIs
<1>11. ASSUME NEW d \in Addon, LoadDep(d)
       PROVE  Goal
  BY <1>0, <1>11, LoadDepIs
<1>12. ASSUME NEW d \in Addon, LoadRevWith(d)
       PROVE  Goal
  <2>1. Kept /\ TopIs("load", "revwiths") /\ \E t, n : Opens("revwiths", t, n, "load", d, FALSE)
    BY <1>12, LoadRevWithIs
  <2> QED
    BY <1>0, <2>1
<1>13. ASSUME NEW d \in Addon, BootstrapDep(d)
       PROVE  Goal
  <2>1. Kept /\ TopIs("boot", "deps") /\ \E t, n : Opens("deps", t, n, "boot", d, FALSE)
    BY <1>13, BootstrapDepIs
  <2> QED
    BY <1>0, <2>1
<1>14. ASSUME NEW b \in Addon, Visit(b)
       PROVE  Goal
  BY <1>0, <1>14, VisitIs
<1>15. ASSUME NEW b \in Addon, LoadAddOn(b)
       PROVE  Goal
  BY <1>0, <1>15, LoadAddOnIs
<1> QED
  BY <1>1, <1>2, <1>3, <1>4, <1>5, <1>6, <1>7, <1>8, <1>9,
     <1>10, <1>11, <1>12, <1>13, <1>14, <1>15, StepCases

\* A load that has begun had begun before the step, or begins with it.
LEMMA BegunBefore ==
  ASSUME Types, Types', NEW i \in 1 .. Len(stack'), NEW a \in Addon, NEW s \in BOOLEAN,
         Begun(stack'[i], a, s), Next
  PROVE  \/ /\ i \in 1 .. Len(stack) /\ Begun(stack[i], a, s)
            /\ stack'[i] = stack[i] \/ i = Len(stack)
         \/ BeginLoad /\ i = Len(stack) /\ LoadIs(stack[i], a, s) /\ a \notin Att(s)
<1>0. /\ Len(stack) \in Nat /\ Len(stack') \in Nat
      /\ i \in 1 .. Len(stack')
      /\ \A n \in Nat : i \in 1 .. n + 1 => i = n + 1 \/ i \in 1 .. n
      /\ \A n \in Nat : i \in 1 .. n => i = n \/ i \in 1 .. n - 1
  BY LenProperties DEF Types
<1> DEFINE Goal == \/ /\ i \in 1 .. Len(stack) /\ Begun(stack[i], a, s)
                      /\ stack'[i] = stack[i] \/ i = Len(stack)
                   \/ BeginLoad /\ i = Len(stack) /\ LoadIs(stack[i], a, s) /\ a \notin Att(s)
<1> USE DEF Begun, LoadIs
<1> USE DEF TopIs, Moves, Opens, Ends, Adds, Same, Now, Entering, Kept, marks, Top
<1>1. CASE Quiet
  <2>1. PICK at, next : /\ Moves(at, Top.todo, next)
                        /\ \/ at = Top.at
                           \/ Top.at = "deps" /\ at = "files" /\ Top.todo = {}
                           \/ Top.at = "files" /\ at = "variables"
    BY <1>1 DEF Quiet
  <2>2. i \in 1 .. Len(stack) /\ (stack'[i] = stack[i] \/ i = Len(stack))
    BY <1>0, <2>1
  <2>3. CASE i = Len(stack)
    BY <2>1, <2>2, <2>3
  <2> QED
    BY <2>2, <2>3
<1>2. CASE EnterLoad
  BY <1>0, <1>2, EnterLoadIs
<1>3. CASE SkipLoad
  BY <1>0, <1>3, SkipLoadIs
<1>4. CASE BeginLoad
  BY <1>0, <1>4, BeginLoadIs DEF Att, Attempted
<1>5. CASE EndLoad
  BY <1>0, <1>5, EndLoadIs
<1>6. CASE Leave
  BY <1>0, <1>6, LeaveIs
<1>7. CASE SkipBootstrap
  BY <1>0, <1>7, SkipBootstrapIs
<1>8. CASE BeginBootstrap
  BY <1>0, <1>8, BeginBootstrapIs
<1>9. CASE EndBootstrap
  BY <1>0, <1>9, EndBootstrapIs
<1>10. CASE NextLoop
  BY <1>0, <1>10, NextLoopIs
<1>11. ASSUME NEW d \in Addon, LoadDep(d)
       PROVE  Goal
  BY <1>0, <1>11, LoadDepIs
<1>12. ASSUME NEW d \in Addon, LoadRevWith(d)
       PROVE  Goal
  <2>1. Kept /\ TopIs("load", "revwiths") /\ \E t, n : Opens("revwiths", t, n, "load", d, FALSE)
    BY <1>12, LoadRevWithIs
  <2> QED
    BY <1>0, <2>1
<1>13. ASSUME NEW d \in Addon, BootstrapDep(d)
       PROVE  Goal
  <2>1. Kept /\ TopIs("boot", "deps") /\ \E t, n : Opens("deps", t, n, "boot", d, FALSE)
    BY <1>13, BootstrapDepIs
  <2> QED
    BY <1>0, <2>1
<1>14. ASSUME NEW b \in Addon, Visit(b)
       PROVE  Goal
  BY <1>0, <1>14, VisitIs
<1>15. ASSUME NEW b \in Addon, LoadAddOn(b)
       PROVE  Goal
  BY <1>0, <1>15, LoadAddOnIs
<1> QED
  BY <1>1, <1>2, <1>3, <1>4, <1>5, <1>6, <1>7, <1>8, <1>9,
     <1>10, <1>11, <1>12, <1>13, <1>14, <1>15, StepCases

\* A load that has begun goes on until it leaves.
LEMMA BegunAfter ==
  ASSUME Types, Types', NEW i \in 1 .. Len(stack), NEW a \in Addon, NEW s \in BOOLEAN,
         Begun(stack[i], a, s), Next
  PROVE  \/ /\ i \in 1 .. Len(stack') /\ Begun(stack'[i], a, s)
            /\ stack'[i] = stack[i] \/ i = Len(stack)
         \/ Leave /\ i = Len(stack)
<1>0. /\ Len(stack) \in Nat /\ Len(stack') \in Nat
      /\ i \in 1 .. Len(stack)
      /\ \A n \in Nat : i \in 1 .. n + 1 => i = n + 1 \/ i \in 1 .. n
      /\ \A n \in Nat : i \in 1 .. n => i = n \/ i \in 1 .. n - 1
  BY LenProperties DEF Types
<1> DEFINE Goal == \/ /\ i \in 1 .. Len(stack') /\ Begun(stack'[i], a, s)
                      /\ stack'[i] = stack[i] \/ i = Len(stack)
                   \/ Leave /\ i = Len(stack)
<1> USE DEF Begun, LoadIs
<1> USE DEF TopIs, Moves, Opens, Ends, Adds, Same, Now, Entering, Kept, marks, Top
<1>1. CASE Quiet
  BY <1>0, <1>1 DEF Quiet
<1>2. CASE EnterLoad
  BY <1>0, <1>2, EnterLoadIs
<1>3. CASE SkipLoad
  BY <1>0, <1>3, SkipLoadIs
<1>4. CASE BeginLoad
  BY <1>0, <1>4, BeginLoadIs
<1>5. CASE EndLoad
  BY <1>0, <1>5, EndLoadIs
<1>6. CASE Leave
  BY <1>0, <1>6, LeaveIs
<1>7. CASE SkipBootstrap
  BY <1>0, <1>7, SkipBootstrapIs
<1>8. CASE BeginBootstrap
  BY <1>0, <1>8, BeginBootstrapIs
<1>9. CASE EndBootstrap
  BY <1>0, <1>9, EndBootstrapIs
<1>10. CASE NextLoop
  BY <1>0, <1>10, NextLoopIs
<1>11. ASSUME NEW d \in Addon, LoadDep(d)
       PROVE  Goal
  BY <1>0, <1>11, LoadDepIs
<1>12. ASSUME NEW d \in Addon, LoadRevWith(d)
       PROVE  Goal
  <2>1. Kept /\ TopIs("load", "revwiths") /\ \E t, n : Opens("revwiths", t, n, "load", d, FALSE)
    BY <1>12, LoadRevWithIs
  <2> QED
    BY <1>0, <2>1
<1>13. ASSUME NEW d \in Addon, BootstrapDep(d)
       PROVE  Goal
  <2>1. Kept /\ TopIs("boot", "deps") /\ \E t, n : Opens("deps", t, n, "boot", d, FALSE)
    BY <1>13, BootstrapDepIs
  <2> QED
    BY <1>0, <2>1
<1>14. ASSUME NEW b \in Addon, Visit(b)
       PROVE  Goal
  BY <1>0, <1>14, VisitIs
<1>15. ASSUME NEW b \in Addon, LoadAddOn(b)
       PROVE  Goal
  BY <1>0, <1>15, LoadAddOnIs
<1> QED
  BY <1>1, <1>2, <1>3, <1>4, <1>5, <1>6, <1>7, <1>8, <1>9,
     <1>10, <1>11, <1>12, <1>13, <1>14, <1>15, StepCases

\* A load begins when none has marked the addon.
LEMMA OneLoadStep ==
  ASSUME Types, Types', Marked, OneLoad, Next
  PROVE  OneLoad'
<1> SUFFICES ASSUME NEW i \in 1 .. Len(stack'), NEW j \in 1 .. Len(stack'),
                    NEW a \in Addon, NEW s \in BOOLEAN,
                    Begun(stack'[i], a, s), Begun(stack'[j], a, s)
             PROVE  i = j
  BY DEF OneLoad, Begun, LoadIs
<1>1. ASSUME NEW k \in 1 .. Len(stack'), Begun(stack'[k], a, s)
      PROVE  \/ k \in 1 .. Len(stack) /\ Begun(stack[k], a, s) /\ a \in Att(s)
             \/ k = Len(stack) /\ a \notin Att(s)
  BY <1>1, BegunBefore DEF Marked
<1> QED
  BY <1>1 DEF OneLoad

\* What has begun is under way.
LEMMA UnderWayStep ==
  ASSUME Types, Marked, UnderWay, Types', Next
  PROVE  UnderWay'
<1> SUFFICES ASSUME NEW s \in BOOLEAN, NEW a \in Att(s)' \ Done(s)'
         PROVE  \E i \in 1 .. Len(stack') : Running(stack'[i], a, s)
  BY DEF UnderWay, Running, LoadIs
<1>0. /\ Len(stack) \in Nat /\ Len(stack') \in Nat
  BY LenProperties DEF Types
<1> DEFINE Goal == \E i \in 1 .. Len(stack') : Running(stack'[i], a, s)
<1> USE DEF UnderWay, Running, LoadIs, Att, Done
<1> USE DEF TopIs, Moves, Opens, Ends, Adds, Same, Now, Entering, Kept, marks, Top
<1>1. CASE Quiet
  BY <1>0, <1>1 DEF Quiet
<1>2. CASE EnterLoad
  BY <1>0, <1>2, EnterLoadIs
<1>3. CASE SkipLoad
  BY <1>0, <1>3, SkipLoadIs
<1>4. CASE BeginLoad
  BY <1>0, <1>4, BeginLoadIs
<1>5. CASE EndLoad
  BY <1>0, <1>5, EndLoadIs
<1>6. CASE Leave
  BY <1>0, <1>6, LeaveIs, SMTT(30)
<1>7. CASE SkipBootstrap
  BY <1>0, <1>7, SkipBootstrapIs
<1>8. CASE BeginBootstrap
  BY <1>0, <1>8, BeginBootstrapIs
<1>9. CASE EndBootstrap
  BY <1>0, <1>9, EndBootstrapIs
<1>10. CASE NextLoop
  BY <1>0, <1>10, NextLoopIs
<1>11. ASSUME NEW d \in Addon, LoadDep(d)
       PROVE  Goal
  BY <1>0, <1>11, LoadDepIs
<1>12. ASSUME NEW d \in Addon, LoadRevWith(d)
       PROVE  Goal
  <2>1. Kept /\ TopIs("load", "revwiths") /\ \E t, n : Opens("revwiths", t, n, "load", d, FALSE)
    BY <1>12, LoadRevWithIs
  <2> QED
    BY <1>0, <2>1
<1>13. ASSUME NEW d \in Addon, BootstrapDep(d)
       PROVE  Goal
  <2>1. Kept /\ TopIs("boot", "deps") /\ \E t, n : Opens("deps", t, n, "boot", d, FALSE)
    BY <1>13, BootstrapDepIs
  <2> QED
    BY <1>0, <2>1
<1>14. ASSUME NEW b \in Addon, Visit(b)
       PROVE  Goal
  BY <1>0, <1>14, VisitIs
<1>15. ASSUME NEW b \in Addon, LoadAddOn(b)
       PROVE  Goal
  BY <1>0, <1>15, LoadAddOnIs
<1> QED
  BY <1>1, <1>2, <1>3, <1>4, <1>5, <1>6, <1>7, <1>8, <1>9,
     <1>10, <1>11, <1>12, <1>13, <1>14, <1>15, StepCases

\* So is a bootstrap that has begun.
LEMMA BootUnderWayStep ==
  ASSUME Types, BootUnderWay, Types', Next
  PROVE  BootUnderWay'
<1> SUFFICES ASSUME NEW a \in bootstrapping' \ bootstrapped'
         PROVE  \E i \in 1 .. Len(stack') : Booting(stack'[i], a)
  BY DEF BootUnderWay, Booting
<1>0. /\ Len(stack) \in Nat /\ Len(stack') \in Nat
  BY LenProperties DEF Types
<1> DEFINE Goal == \E i \in 1 .. Len(stack') : Booting(stack'[i], a)
<1> USE DEF BootUnderWay, Booting
<1> USE DEF TopIs, Moves, Opens, Ends, Adds, Same, Now, Entering, Kept, marks, Top
<1>1. CASE Quiet
  BY <1>0, <1>1 DEF Quiet
<1>2. CASE EnterLoad
  BY <1>0, <1>2, EnterLoadIs
<1>3. CASE SkipLoad
  BY <1>0, <1>3, SkipLoadIs
<1>4. CASE BeginLoad
  BY <1>0, <1>4, BeginLoadIs
<1>5. CASE EndLoad
  BY <1>0, <1>5, EndLoadIs
<1>6. CASE Leave
  BY <1>0, <1>6, LeaveIs
<1>7. CASE SkipBootstrap
  BY <1>0, <1>7, SkipBootstrapIs
<1>8. CASE BeginBootstrap
  BY <1>0, <1>8, BeginBootstrapIs
<1>9. CASE EndBootstrap
  BY <1>0, <1>9, EndBootstrapIs
<1>10. CASE NextLoop
  BY <1>0, <1>10, NextLoopIs
<1>11. ASSUME NEW d \in Addon, LoadDep(d)
       PROVE  Goal
  BY <1>0, <1>11, LoadDepIs
<1>12. ASSUME NEW d \in Addon, LoadRevWith(d)
       PROVE  Goal
  <2>1. Kept /\ TopIs("load", "revwiths") /\ \E t, n : Opens("revwiths", t, n, "load", d, FALSE)
    BY <1>12, LoadRevWithIs
  <2> QED
    BY <1>0, <2>1
<1>13. ASSUME NEW d \in Addon, BootstrapDep(d)
       PROVE  Goal
  <2>1. Kept /\ TopIs("boot", "deps") /\ \E t, n : Opens("deps", t, n, "boot", d, FALSE)
    BY <1>13, BootstrapDepIs
  <2> QED
    BY <1>0, <2>1
<1>14. ASSUME NEW b \in Addon, Visit(b)
       PROVE  Goal
  BY <1>0, <1>14, VisitIs
<1>15. ASSUME NEW b \in Addon, LoadAddOn(b)
       PROVE  Goal
  BY <1>0, <1>15, LoadAddOnIs
<1> QED
  BY <1>1, <1>2, <1>3, <1>4, <1>5, <1>6, <1>7, <1>8, <1>9,
     <1>10, <1>11, <1>12, <1>13, <1>14, <1>15, StepCases

\* The load without forceSecure comes first.
LEMMA WithoutFirstStep ==
  ASSUME Types, WithoutFirst, Types', Next
  PROVE  WithoutFirst'
<1> SUFFICES ASSUME NEW i \in 1 .. Len(stack'), NEW a \in Addon,
                LoadIs(stack'[i], a, TRUE), stack'[i].at = "check"
         PROVE  Preceded(i, a)'
  BY DEF WithoutFirst, LoadIs
<1>0. /\ Len(stack) \in Nat /\ Len(stack') \in Nat
      /\ i \in 1 .. Len(stack')
      /\ \A n \in Nat : i \in 1 .. n + 1 => i = n + 1 \/ i \in 1 .. n
      /\ \A n \in Nat : i \in 1 .. n => i = n \/ i \in 1 .. n - 1
  BY LenProperties DEF Types
<1> USE DEF WithoutFirst, Preceded, Pending, LoadIs
<1> USE DEF TopIs, Moves, Opens, Ends, Adds, Same, Now, Entering, Kept, marks, Top
<1>1. CASE Quiet
  BY <1>0, <1>1 DEF Quiet
<1>2. CASE EnterLoad
  <2>1. /\ Kept /\ TopIs("load", "enter") /\ Same(Len(stack) - 1)
        /\ \E t, n : Now(stack'[Len(stack)], "check", t, n)
        /\ \/ Len(stack') = Len(stack) /\ (Top.secure => Top.addon \in loadattempted)
           \/ /\ Len(stack') = Len(stack) + 1
              /\ Entering(stack'[Len(stack) + 1], "load", Top.addon, FALSE)
    BY <1>2, EnterLoadIs DEF Moves, Opens, Types
  <2>2. CASE i = Len(stack)
    BY <1>0, <2>1, <2>2 DEF TopIs, Now, Entering, Top, Kept, marks
  <2>3. CASE i < Len(stack)
    <3>1. stack'[i] = stack[i] /\ Preceded(i, a)
      BY <1>0, <2>1, <2>3, SMTT(30) DEF Same
    <3>2. i + 1 < Len(stack) => stack'[i + 1] = stack[i + 1]
      BY <1>0, <2>1 DEF Same
    <3>3. loadattempted' = loadattempted /\ i < Len(stack')
      <4>1. Len(stack') = Len(stack) \/ Len(stack') = Len(stack) + 1
        BY <2>1
      <4> QED
        BY <1>0, <2>1, <2>3, <4>1 DEF Kept, marks
    <3>4. CASE Pending(stack[i + 1], a, FALSE) /\ i + 1 = Len(stack)
      BY <1>0, <2>1, <3>3, <3>4 DEF Now
    <3> QED
      BY <1>0, <2>3, <3>1, <3>2, <3>3, <3>4
  <2>4. CASE i > Len(stack)
    BY <1>0, <2>1, <2>4 DEF Entering
  <2> QED
    BY <1>0, <2>2, <2>3, <2>4
<1>3. CASE SkipLoad
  <2>1. /\ Kept /\ TopIs("load", "check") /\ Same(Len(stack) - 1)
        /\ Len(stack') = Len(stack) - 1
        /\ ~Top.secure => Top.addon \in loadattempted
    BY <1>3, SkipLoadIs DEF Ends, Attempted, Types
  <2>2. /\ stack'[i] = stack[i] /\ Preceded(i, a) /\ i < Len(stack)
    BY <1>0, <2>1 DEF Same
  <2>3. loadattempted' = loadattempted
    BY <2>1 DEF Kept, marks
  <2>4. CASE i + 1 = Len(stack)
    BY <1>0, <2>1, <2>2, <2>3, <2>4 DEF Top
  <2>5. CASE i + 1 < Len(stack)
    <3>1. stack'[i + 1] = stack[i + 1] /\ i < Len(stack')
      BY <1>0, <2>1, <2>5 DEF Same
    <3> QED
      BY <2>2, <2>3, <3>1
  <2> QED
    BY <1>0, <2>2, <2>4, <2>5
<1>4. CASE BeginLoad
  BY <1>0, <1>4, BeginLoadIs
<1>5. CASE EndLoad
  BY <1>0, <1>5, EndLoadIs
<1>6. CASE Leave
  BY <1>0, <1>6, LeaveIs
<1>7. CASE SkipBootstrap
  BY <1>0, <1>7, SkipBootstrapIs, SMTT(30)
<1>8. CASE BeginBootstrap
  BY <1>0, <1>8, BeginBootstrapIs
<1>9. CASE EndBootstrap
  BY <1>0, <1>9, EndBootstrapIs, SMTT(30)
<1>10. CASE NextLoop
  BY <1>0, <1>10, NextLoopIs
<1>11. ASSUME NEW d \in Addon, LoadDep(d)
       PROVE  Preceded(i, a)'
  BY <1>0, <1>11, LoadDepIs, SMTT(30)
<1>12. ASSUME NEW d \in Addon, LoadRevWith(d)
       PROVE  Preceded(i, a)'
  <2>1. Kept /\ TopIs("load", "revwiths") /\ \E t, n : Opens("revwiths", t, n, "load", d, FALSE)
    BY <1>12, LoadRevWithIs
  <2> QED
    BY <1>0, <2>1
<1>13. ASSUME NEW d \in Addon, BootstrapDep(d)
       PROVE  Preceded(i, a)'
  <2>1. Kept /\ TopIs("boot", "deps") /\ \E t, n : Opens("deps", t, n, "boot", d, FALSE)
    BY <1>13, BootstrapDepIs
  <2>2. i < Len(stack)
    BY <1>0, <2>1
  <2>3. stack'[i] = stack[i] /\ Preceded(i, a) /\ i + 1 \in 1 .. Len(stack')
    BY <1>0, <2>1, <2>2
  <2>4. i + 1 < Len(stack) => stack'[i + 1] = stack[i + 1]
    BY <1>0, <2>1
  <2>5. i + 1 = Len(stack) => ~Pending(stack[i + 1], a, FALSE)
    BY <2>1
  <2> QED
    BY <1>0, <2>1, <2>2, <2>3, <2>4, <2>5
<1>14. ASSUME NEW b \in Addon, Visit(b)
       PROVE  Preceded(i, a)'
  BY <1>0, <1>14, VisitIs
<1>15. ASSUME NEW b \in Addon, LoadAddOn(b)
       PROVE  Preceded(i, a)'
  <2>1. Kept /\ Adds("load", b, FALSE)
    BY <1>15, LoadAddOnIs
  <2>2. i \in 1 .. Len(stack)
    BY <1>0, <2>1
  <2>3. stack'[i] = stack[i] /\ Preceded(i, a) /\ i < Len(stack')
    BY <1>0, <2>1, <2>2
  <2>4. i < Len(stack) => stack'[i + 1] = stack[i + 1]
    BY <1>0, <2>1, <2>2
  <2> QED
    BY <1>0, <2>1, <2>2, <2>3, <2>4
<1> QED
  BY <1>1, <1>2, <1>3, <1>4, <1>5, <1>6, <1>7, <1>8, <1>9,
     <1>10, <1>11, <1>12, <1>13, <1>14, <1>15, StepCases

\* So what is marked with forceSecure is marked without.
LEMMA ForcedLastStep ==
  ASSUME Types, WithoutFirst, ForcedLast, Next
  PROVE  ForcedLast'
<1>1. CASE BeginLoad
  <2>1. /\ TopIs("load", "check") /\ Top = stack[Len(stack)]
        /\ Top.addon \in Addon /\ Top.secure \in BOOLEAN
    BY <1>1, TopAt DEF BeginLoad, InProgress
  <2>2. Top.secure => Top.addon \in loadattempted
    <3>1. Len(stack) \in 1 .. Len(stack) /\ ~(Len(stack) < Len(stack))
      BY <2>1 DEF TopIs
    <3>2. Top.secure =>
            LoadIs(stack[Len(stack)], Top.addon, TRUE) /\ stack[Len(stack)].at = "check"
      BY <2>1 DEF TopIs, LoadIs
    <3> QED
      BY <2>1, <3>1, <3>2 DEF WithoutFirst, Preceded
  <2> QED
    BY <1>1, <2>2, BeginLoadIs DEF ForcedLast
<1>2. CASE secdeploadattempted' = secdeploadattempted /\ loadattempted' = loadattempted
  BY <1>2 DEF ForcedLast
<1> QED
  BY <1>1, <1>2, StepCases, EnterLoadIs, SkipLoadIs, EndLoadIs, LeaveIs, SkipBootstrapIs,
     BeginBootstrapIs, EndBootstrapIs, NextLoopIs, LoadDepIs, LoadRevWithIs, BootstrapDepIs,
     VisitIs, LoadAddOnIs DEF Quiet, Kept, marks

\* Marks stay.
LEMMA MarksGrow ==
  ASSUME Types, Next
  PROVE  /\ toc' = toc
         /\ loadattempted \subseteq loadattempted' /\ loaded \subseteq loaded'
         /\ secdeploadattempted \subseteq secdeploadattempted'
         /\ secdeploaded \subseteq secdeploaded'
         /\ bootstrapping \subseteq bootstrapping' /\ bootstrapped \subseteq bootstrapped'
BY StepCases, EnterLoadIs, SkipLoadIs, BeginLoadIs, EndLoadIs, LeaveIs, SkipBootstrapIs,
   BeginBootstrapIs, EndBootstrapIs, NextLoopIs, LoadDepIs, LoadRevWithIs, BootstrapDepIs,
   VisitIs, LoadAddOnIs DEF Quiet, Kept, marks

\* A load stays until it is over.
LEMMA LoadAfter ==
  ASSUME Types, Types', NEW i \in 1 .. Len(stack), NEW a \in Addon, NEW s \in BOOLEAN,
         LoadIs(stack[i], a, s), Next
  PROVE  \/ i \in 1 .. Len(stack') /\ LoadIs(stack'[i], a, s)
         \/ (SkipLoad \/ Leave) /\ i = Len(stack)
<1>0. /\ Len(stack) \in Nat /\ Len(stack') \in Nat
      /\ i \in 1 .. Len(stack)
      /\ \A n \in Nat : i \in 1 .. n + 1 => i = n + 1 \/ i \in 1 .. n
      /\ \A n \in Nat : i \in 1 .. n => i = n \/ i \in 1 .. n - 1
  BY LenProperties DEF Types
<1> DEFINE Goal == \/ i \in 1 .. Len(stack') /\ LoadIs(stack'[i], a, s)
                   \/ (SkipLoad \/ Leave) /\ i = Len(stack)
<1> USE DEF LoadIs
<1> USE DEF TopIs, Moves, Opens, Ends, Adds, Same, Now, Entering, Kept, marks, Top
<1>1. CASE Quiet
  BY <1>0, <1>1 DEF Quiet
<1>2. CASE EnterLoad
  BY <1>0, <1>2, EnterLoadIs
<1>3. CASE SkipLoad
  BY <1>0, <1>3, SkipLoadIs
<1>4. CASE BeginLoad
  BY <1>0, <1>4, BeginLoadIs
<1>5. CASE EndLoad
  BY <1>0, <1>5, EndLoadIs
<1>6. CASE Leave
  BY <1>0, <1>6, LeaveIs
<1>7. CASE SkipBootstrap
  BY <1>0, <1>7, SkipBootstrapIs
<1>8. CASE BeginBootstrap
  BY <1>0, <1>8, BeginBootstrapIs
<1>9. CASE EndBootstrap
  BY <1>0, <1>9, EndBootstrapIs
<1>10. CASE NextLoop
  BY <1>0, <1>10, NextLoopIs
<1>11. ASSUME NEW d \in Addon, LoadDep(d)
       PROVE  Goal
  BY <1>0, <1>11, LoadDepIs
<1>12. ASSUME NEW d \in Addon, LoadRevWith(d)
       PROVE  Goal
  <2>1. Kept /\ TopIs("load", "revwiths") /\ \E t, n : Opens("revwiths", t, n, "load", d, FALSE)
    BY <1>12, LoadRevWithIs
  <2> QED
    BY <1>0, <2>1
<1>13. ASSUME NEW d \in Addon, BootstrapDep(d)
       PROVE  Goal
  <2>1. Kept /\ TopIs("boot", "deps") /\ \E t, n : Opens("deps", t, n, "boot", d, FALSE)
    BY <1>13, BootstrapDepIs
  <2> QED
    BY <1>0, <2>1
<1>14. ASSUME NEW b \in Addon, Visit(b)
       PROVE  Goal
  BY <1>0, <1>14, VisitIs
<1>15. ASSUME NEW b \in Addon, LoadAddOn(b)
       PROVE  Goal
  BY <1>0, <1>15, LoadAddOnIs
<1> QED
  BY <1>1, <1>2, <1>3, <1>4, <1>5, <1>6, <1>7, <1>8, <1>9,
     <1>10, <1>11, <1>12, <1>13, <1>14, <1>15, StepCases

\* A step leaves the calls below the top as they are.
LEMMA BelowAfter ==
  ASSUME Types, Types', NEW i \in 1 .. Len(stack), i < Len(stack), Next
  PROVE  stack'[i] = stack[i] /\ i \in 1 .. Len(stack')
<1>0. /\ Len(stack) \in Nat /\ Len(stack') \in Nat
      /\ i \in 1 .. Len(stack)
      /\ \A n \in Nat : i \in 1 .. n + 1 => i = n + 1 \/ i \in 1 .. n
      /\ \A n \in Nat : i \in 1 .. n => i = n \/ i \in 1 .. n - 1
  BY LenProperties DEF Types
<1> DEFINE Goal == stack'[i] = stack[i] /\ i \in 1 .. Len(stack')
<1> USE DEF TopIs, Moves, Opens, Ends, Adds, Same, Now, Entering, Kept, marks, Top
<1>1. CASE Quiet
  BY <1>0, <1>1 DEF Quiet
<1>2. CASE EnterLoad
  BY <1>0, <1>2, EnterLoadIs
<1>3. CASE SkipLoad
  BY <1>0, <1>3, SkipLoadIs
<1>4. CASE BeginLoad
  BY <1>0, <1>4, BeginLoadIs
<1>5. CASE EndLoad
  BY <1>0, <1>5, EndLoadIs
<1>6. CASE Leave
  BY <1>0, <1>6, LeaveIs
<1>7. CASE SkipBootstrap
  BY <1>0, <1>7, SkipBootstrapIs
<1>8. CASE BeginBootstrap
  BY <1>0, <1>8, BeginBootstrapIs
<1>9. CASE EndBootstrap
  BY <1>0, <1>9, EndBootstrapIs
<1>10. CASE NextLoop
  BY <1>0, <1>10, NextLoopIs
<1>11. ASSUME NEW d \in Addon, LoadDep(d)
       PROVE  Goal
  BY <1>0, <1>11, LoadDepIs
<1>12. ASSUME NEW d \in Addon, LoadRevWith(d)
       PROVE  Goal
  <2>1. Kept /\ TopIs("load", "revwiths") /\ \E t, n : Opens("revwiths", t, n, "load", d, FALSE)
    BY <1>12, LoadRevWithIs
  <2> QED
    BY <1>0, <2>1
<1>13. ASSUME NEW d \in Addon, BootstrapDep(d)
       PROVE  Goal
  <2>1. Kept /\ TopIs("boot", "deps") /\ \E t, n : Opens("deps", t, n, "boot", d, FALSE)
    BY <1>13, BootstrapDepIs
  <2> QED
    BY <1>0, <2>1
<1>14. ASSUME NEW b \in Addon, Visit(b)
       PROVE  Goal
  BY <1>0, <1>14, VisitIs
<1>15. ASSUME NEW b \in Addon, LoadAddOn(b)
       PROVE  Goal
  BY <1>0, <1>15, LoadAddOnIs
<1> QED
  BY <1>1, <1>2, <1>3, <1>4, <1>5, <1>6, <1>7, <1>8, <1>9,
     <1>10, <1>11, <1>12, <1>13, <1>14, <1>15, StepCases

\* A load that waits waits until it begins.
LEMMA PendingAfter ==
  ASSUME Types, Types', NEW i \in 1 .. Len(stack), NEW a \in Addon,
         Pending(stack[i], a, FALSE), Next
  PROVE  \/ i \in 1 .. Len(stack') /\ Pending(stack'[i], a, FALSE)
         \/ a \in loadattempted'
<1>0. /\ Len(stack) \in Nat /\ Len(stack') \in Nat
      /\ i \in 1 .. Len(stack)
      /\ \A n \in Nat : i \in 1 .. n + 1 => i = n + 1 \/ i \in 1 .. n
      /\ \A n \in Nat : i \in 1 .. n => i = n \/ i \in 1 .. n - 1
  BY LenProperties DEF Types
<1> DEFINE Goal == \/ i \in 1 .. Len(stack') /\ Pending(stack'[i], a, FALSE)
                   \/ a \in loadattempted'
<1> USE DEF Pending, LoadIs
<1> USE DEF TopIs, Moves, Opens, Ends, Adds, Same, Now, Entering, Kept, marks, Top
<1>1. CASE Quiet
  BY <1>0, <1>1 DEF Quiet
<1>2. CASE EnterLoad
  BY <1>0, <1>2, EnterLoadIs
<1>3. CASE SkipLoad
  BY <1>0, <1>3, SkipLoadIs DEF Attempted, Types
<1>4. CASE BeginLoad
  BY <1>0, <1>4, BeginLoadIs
<1>5. CASE EndLoad
  BY <1>0, <1>5, EndLoadIs
<1>6. CASE Leave
  BY <1>0, <1>6, LeaveIs
<1>7. CASE SkipBootstrap
  BY <1>0, <1>7, SkipBootstrapIs
<1>8. CASE BeginBootstrap
  BY <1>0, <1>8, BeginBootstrapIs
<1>9. CASE EndBootstrap
  BY <1>0, <1>9, EndBootstrapIs
<1>10. CASE NextLoop
  BY <1>0, <1>10, NextLoopIs
<1>11. ASSUME NEW d \in Addon, LoadDep(d)
       PROVE  Goal
  BY <1>0, <1>11, LoadDepIs
<1>12. ASSUME NEW d \in Addon, LoadRevWith(d)
       PROVE  Goal
  <2>1. Kept /\ TopIs("load", "revwiths") /\ \E t, n : Opens("revwiths", t, n, "load", d, FALSE)
    BY <1>12, LoadRevWithIs
  <2> QED
    BY <1>0, <2>1
<1>13. ASSUME NEW d \in Addon, BootstrapDep(d)
       PROVE  Goal
  <2>1. Kept /\ TopIs("boot", "deps") /\ \E t, n : Opens("deps", t, n, "boot", d, FALSE)
    BY <1>13, BootstrapDepIs
  <2> QED
    BY <1>0, <2>1
<1>14. ASSUME NEW b \in Addon, Visit(b)
       PROVE  Goal
  BY <1>0, <1>14, VisitIs
<1>15. ASSUME NEW b \in Addon, LoadAddOn(b)
       PROVE  Goal
  BY <1>0, <1>15, LoadAddOnIs
<1> QED
  BY <1>1, <1>2, <1>3, <1>4, <1>5, <1>6, <1>7, <1>8, <1>9,
     <1>10, <1>11, <1>12, <1>13, <1>14, <1>15, StepCases

\* So does a bootstrap of an addon that loads on demand.
LEMMA BootAfter ==
  ASSUME Types, Types', NEW i \in 1 .. Len(stack), NEW a \in toc.loadondemand,
         stack[i].what = "boot", stack[i].addon = a, stack[i].at = "enter", Next
  PROVE  \/ /\ i \in 1 .. Len(stack')
            /\ stack'[i].what = "boot" /\ stack'[i].addon = a /\ stack'[i].at = "enter"
         \/ a \in loadattempted' \/ a \in bootstrapping'
<1>0. /\ Len(stack) \in Nat /\ Len(stack') \in Nat
      /\ i \in 1 .. Len(stack)
      /\ \A n \in Nat : i \in 1 .. n + 1 => i = n + 1 \/ i \in 1 .. n
      /\ \A n \in Nat : i \in 1 .. n => i = n \/ i \in 1 .. n - 1
  BY LenProperties DEF Types
<1> DEFINE Goal == \/ /\ i \in 1 .. Len(stack')
                      /\ stack'[i].what = "boot" /\ stack'[i].addon = a /\ stack'[i].at = "enter"
                   \/ a \in loadattempted' \/ a \in bootstrapping'
<1> USE DEF TopIs, Moves, Opens, Ends, Adds, Same, Now, Entering, Kept, marks, Top
<1>1. CASE Quiet
  BY <1>0, <1>1 DEF Quiet
<1>2. CASE EnterLoad
  BY <1>0, <1>2, EnterLoadIs
<1>3. CASE SkipLoad
  BY <1>0, <1>3, SkipLoadIs
<1>4. CASE BeginLoad
  BY <1>0, <1>4, BeginLoadIs
<1>5. CASE EndLoad
  BY <1>0, <1>5, EndLoadIs
<1>6. CASE Leave
  BY <1>0, <1>6, LeaveIs
<1>7. CASE SkipBootstrap
  BY <1>0, <1>7, SkipBootstrapIs DEF NoBootstrap, Types
<1>8. CASE BeginBootstrap
  BY <1>0, <1>8, BeginBootstrapIs
<1>9. CASE EndBootstrap
  BY <1>0, <1>9, EndBootstrapIs
<1>10. CASE NextLoop
  BY <1>0, <1>10, NextLoopIs
<1>11. ASSUME NEW d \in Addon, LoadDep(d)
       PROVE  Goal
  BY <1>0, <1>11, LoadDepIs
<1>12. ASSUME NEW d \in Addon, LoadRevWith(d)
       PROVE  Goal
  <2>1. Kept /\ TopIs("load", "revwiths") /\ \E t, n : Opens("revwiths", t, n, "load", d, FALSE)
    BY <1>12, LoadRevWithIs
  <2> QED
    BY <1>0, <2>1
<1>13. ASSUME NEW d \in Addon, BootstrapDep(d)
       PROVE  Goal
  <2>1. Kept /\ TopIs("boot", "deps") /\ \E t, n : Opens("deps", t, n, "boot", d, FALSE)
    BY <1>13, BootstrapDepIs
  <2> QED
    BY <1>0, <2>1
<1>14. ASSUME NEW b \in Addon, Visit(b)
       PROVE  Goal
  BY <1>0, <1>14, VisitIs
<1>15. ASSUME NEW b \in Addon, LoadAddOn(b)
       PROVE  Goal
  BY <1>0, <1>15, LoadAddOnIs
<1> QED
  BY <1>1, <1>2, <1>3, <1>4, <1>5, <1>6, <1>7, <1>8, <1>9,
     <1>10, <1>11, <1>12, <1>13, <1>14, <1>15, StepCases

\* A load comes to its dependencies by loading them.
LEMMA TodoBefore ==
  ASSUME Types, Types', NEW d \in Addon, 0 < Len(stack), Len(stack) <= Len(stack'),
         stack[Len(stack)].what = "load",
         stack[Len(stack)].at \notin {"enter", "check"}, d \notin Todo(stack'[Len(stack)]), Next
  PROVE  d \notin Todo(stack[Len(stack)]) \/ LoadDep(d)
<1>0. /\ Len(stack) \in Nat /\ Len(stack') \in Nat
  BY LenProperties DEF Types
<1> DEFINE Goal == d \notin Todo(stack[Len(stack)]) \/ LoadDep(d)
<1> USE DEF Todo
<1> USE DEF TopIs, Moves, Opens, Ends, Adds, Same, Now, Entering, Kept, marks, Top
<1>1. CASE Quiet
  BY <1>0, <1>1 DEF Quiet
<1>2. CASE EnterLoad
  BY <1>0, <1>2, EnterLoadIs
<1>3. CASE SkipLoad
  BY <1>0, <1>3, SkipLoadIs
<1>4. CASE BeginLoad
  BY <1>0, <1>4, BeginLoadIs
<1>5. CASE EndLoad
  BY <1>0, <1>5, EndLoadIs
<1>6. CASE Leave
  BY <1>0, <1>6, LeaveIs
<1>7. CASE SkipBootstrap
  BY <1>0, <1>7, SkipBootstrapIs
<1>8. CASE BeginBootstrap
  BY <1>0, <1>8, BeginBootstrapIs
<1>9. CASE EndBootstrap
  BY <1>0, <1>9, EndBootstrapIs
<1>10. CASE NextLoop
  BY <1>0, <1>10, NextLoopIs
<1>11. ASSUME NEW b \in Addon, LoadDep(b)
       PROVE  Goal
  BY <1>0, <1>11, LoadDepIs
<1>12. ASSUME NEW b \in Addon, LoadRevWith(b)
       PROVE  Goal
  <2>1. Kept /\ TopIs("load", "revwiths") /\ \E t, n : Opens("revwiths", t, n, "load", b, FALSE)
    BY <1>12, LoadRevWithIs
  <2> QED
    BY <1>0, <2>1
<1>13. ASSUME NEW b \in Addon, BootstrapDep(b)
       PROVE  Goal
  <2>1. Kept /\ TopIs("boot", "deps") /\ \E t, n : Opens("deps", t, n, "boot", b, FALSE)
    BY <1>13, BootstrapDepIs
  <2> QED
    BY <1>0, <2>1
<1>14. ASSUME NEW b \in Addon, Visit(b)
       PROVE  Goal
  BY <1>0, <1>14, VisitIs
<1>15. ASSUME NEW b \in Addon, LoadAddOn(b)
       PROVE  Goal
  BY <1>0, <1>15, LoadAddOnIs
<1> QED
  BY <1>1, <1>2, <1>3, <1>4, <1>5, <1>6, <1>7, <1>8, <1>9,
     <1>10, <1>11, <1>12, <1>13, <1>14, <1>15, StepCases

\* A bootstrap was there before the step, or is new; then none is the first.
LEMMA BootBefore ==
  ASSUME Types, Types', NEW i \in 1 .. Len(stack'), stack'[i].what = "boot", Next
  PROVE  \/ /\ i \in 1 .. Len(stack) /\ stack[i].what = "boot"
            /\ stack[i].addon = stack'[i].addon
            /\ \/ (stack[i].at = "enter") <=> (stack'[i].at = "enter")
               \/ BeginBootstrap /\ i = Len(stack)
         \/ /\ stack'[i].at = "enter"
            /\ phase # "loadfirst" \/ \E j \in 1 .. Len(stack) : stack[j].what = "boot"
<1>0. /\ Len(stack) \in Nat /\ Len(stack') \in Nat
      /\ i \in 1 .. Len(stack')
      /\ \A n \in Nat : i \in 1 .. n + 1 => i = n + 1 \/ i \in 1 .. n
      /\ \A n \in Nat : i \in 1 .. n => i = n \/ i \in 1 .. n - 1
  BY LenProperties DEF Types
<1> DEFINE Goal == \/ /\ i \in 1 .. Len(stack) /\ stack[i].what = "boot"
                      /\ stack[i].addon = stack'[i].addon
                      /\ \/ (stack[i].at = "enter") <=> (stack'[i].at = "enter")
                         \/ BeginBootstrap /\ i = Len(stack)
                   \/ /\ stack'[i].at = "enter"
                      /\ phase # "loadfirst" \/ \E j \in 1 .. Len(stack) : stack[j].what = "boot"
<1> USE DEF TopIs, Moves, Opens, Ends, Adds, Same, Now, Entering, Kept, marks, Top
<1>1. CASE Quiet
  BY <1>0, <1>1 DEF Quiet
<1>2. CASE EnterLoad
  BY <1>0, <1>2, EnterLoadIs
<1>3. CASE SkipLoad
  BY <1>0, <1>3, SkipLoadIs
<1>4. CASE BeginLoad
  BY <1>0, <1>4, BeginLoadIs
<1>5. CASE EndLoad
  BY <1>0, <1>5, EndLoadIs
<1>6. CASE Leave
  BY <1>0, <1>6, LeaveIs
<1>7. CASE SkipBootstrap
  BY <1>0, <1>7, SkipBootstrapIs
<1>8. CASE BeginBootstrap
  BY <1>0, <1>8, BeginBootstrapIs
<1>9. CASE EndBootstrap
  BY <1>0, <1>9, EndBootstrapIs
<1>10. CASE NextLoop
  BY <1>0, <1>10, NextLoopIs
<1>11. ASSUME NEW d \in Addon, LoadDep(d)
       PROVE  Goal
  BY <1>0, <1>11, LoadDepIs
<1>12. ASSUME NEW d \in Addon, LoadRevWith(d)
       PROVE  Goal
  <2>1. Kept /\ TopIs("load", "revwiths") /\ \E t, n : Opens("revwiths", t, n, "load", d, FALSE)
    BY <1>12, LoadRevWithIs
  <2> QED
    BY <1>0, <2>1
<1>13. ASSUME NEW d \in Addon, BootstrapDep(d)
       PROVE  Goal
  <2>1. Kept /\ TopIs("boot", "deps") /\ \E t, n : Opens("deps", t, n, "boot", d, FALSE)
    BY <1>13, BootstrapDepIs
  <2> QED
    BY <1>0, <2>1
<1>14. ASSUME NEW b \in Addon, Visit(b)
       PROVE  Goal
  BY <1>0, <1>14, VisitIs
<1>15. ASSUME NEW b \in Addon, LoadAddOn(b)
       PROVE  Goal
  BY <1>0, <1>15, LoadAddOnIs
<1> QED
  BY <1>1, <1>2, <1>3, <1>4, <1>5, <1>6, <1>7, <1>8, <1>9,
     <1>10, <1>11, <1>12, <1>13, <1>14, <1>15, StepCases

\* A call goes from file to file in order.
LEMMA NextGrows ==
  ASSUME Types, Types', NEW i \in 1 .. Len(stack), i \in 1 .. Len(stack'), Next
  PROVE  stack[i].next <= stack'[i].next
<1>0. /\ Len(stack) \in Nat /\ Len(stack') \in Nat
      /\ i \in 1 .. Len(stack) /\ i \in 1 .. Len(stack') /\ stack[i].next \in Nat
      /\ \A n \in Nat : i \in 1 .. n => i = n \/ i \in 1 .. n - 1
  <2>1. stack[i] \in InProgress /\ Len(stack) \in Nat /\ Len(stack') \in Nat
    BY LenProperties, ElementOfSeq DEF Types
  <2> QED
    BY <2>1 DEF InProgress
<1> USE DEF TopIs, Moves, Opens, Ends, Adds, Same, Now, Entering, Kept, marks, Top
<1>1. CASE Quiet
  BY <1>0, <1>1 DEF Quiet
<1>2. CASE EnterLoad
  BY <1>0, <1>2, EnterLoadIs
<1>3. CASE SkipLoad
  BY <1>0, <1>3, SkipLoadIs
<1>4. CASE BeginLoad
  BY <1>0, <1>4, BeginLoadIs
<1>5. CASE EndLoad
  BY <1>0, <1>5, EndLoadIs
<1>6. CASE Leave
  BY <1>0, <1>6, LeaveIs
<1>7. CASE SkipBootstrap
  BY <1>0, <1>7, SkipBootstrapIs
<1>8. CASE BeginBootstrap
  BY <1>0, <1>8, BeginBootstrapIs
<1>9. CASE EndBootstrap
  BY <1>0, <1>9, EndBootstrapIs
<1>10. CASE NextLoop
  BY <1>0, <1>10, NextLoopIs
<1>11. ASSUME NEW d \in Addon, LoadDep(d)
       PROVE  stack[i].next <= stack'[i].next
  BY <1>0, <1>11, LoadDepIs, SMTT(30)
<1>12. ASSUME NEW d \in Addon, LoadRevWith(d)
       PROVE  stack[i].next <= stack'[i].next
  BY <1>0, <1>12, LoadRevWithIs
<1>13. ASSUME NEW d \in Addon, BootstrapDep(d)
       PROVE  stack[i].next <= stack'[i].next
  BY <1>0, <1>13, BootstrapDepIs
<1>14. ASSUME NEW b \in Addon, Visit(b)
       PROVE  stack[i].next <= stack'[i].next
  BY <1>0, <1>14, VisitIs
<1>15. ASSUME NEW b \in Addon, LoadAddOn(b)
       PROVE  stack[i].next <= stack'[i].next
  BY <1>0, <1>15, LoadAddOnIs
<1> QED
  BY <1>1, <1>2, <1>3, <1>4, <1>5, <1>6, <1>7, <1>8, <1>9,
     <1>10, <1>11, <1>12, <1>13, <1>14, <1>15, StepCases

\* A dependency that is settled stays so.
LEMMA SettledAfter ==
  ASSUME Types, Types', Marked, UnderWay, Next,
         NEW i \in 1 .. Len(stack), i \in 1 .. Len(stack'), NEW d \in Addon, NEW s \in BOOLEAN,
         Settled(i, d, s)
  PROVE  Settled(i, d, s)'
<1>1. Len(stack) \in Nat /\ Len(stack') \in Nat
  BY LenProperties DEF Types
<1>2. d \in Done(s) => d \in Done(s)'
  BY MarksGrow DEF Done
<1>3. ASSUME NEW j \in 1 .. i, Begun(stack[j], d, s)
      PROVE  Settled(i, d, s)'
  <2>1. j \in 1 .. Len(stack)
    BY <1>1
  <2>2. CASE j \in 1 .. Len(stack') /\ Begun(stack'[j], d, s)
    BY <2>2 DEF Settled, Begun, LoadIs
  <2>3. CASE Leave /\ j = Len(stack)
    <3>1. stack[j].at = "revwiths"
      BY <2>3, LeaveIs DEF TopIs
    <3> QED
      BY <1>2, <1>3, <2>1, <3>1 DEF Marked, Settled
  <2> QED
    BY <1>3, <2>1, <2>2, <2>3, BegunAfter
<1>4. CASE stack[i].at = "deps" /\ i < Len(stack) /\ LoadIs(stack[i + 1], d, s)
  <2>1. i + 1 \in 1 .. Len(stack)
    BY <1>1, <1>4
  <2>2. stack'[i] = stack[i]
    BY <1>4, BelowAfter
  <2>3. CASE i + 1 \in 1 .. Len(stack') /\ LoadIs(stack'[i + 1], d, s)
    <3>1. i < Len(stack')
      BY <1>1, <2>3
    <3> QED
      BY <1>4, <2>2, <2>3, <3>1 DEF Settled, LoadIs
  <2>4. CASE Leave /\ i + 1 = Len(stack)
    <3>1. stack[i + 1].at = "revwiths"
      BY <2>4, LeaveIs DEF TopIs
    <3>2. d \in Done(s)
      BY <1>4, <2>1, <3>1 DEF Marked, Begun
    <3> QED
      BY <1>2, <3>2 DEF Settled
  <2>5. CASE SkipLoad /\ i + 1 = Len(stack)
    <3>1. stack[i + 1].at = "check" /\ Attempted(stack[i + 1])
      BY <2>5, SkipLoadIs DEF TopIs, Top
    <3>2. d \in Att(s)
      BY <1>4, <3>1 DEF Attempted, LoadIs, Att, Types
    <3>3. CASE d \in Done(s)
      BY <1>2, <3>3 DEF Settled
    <3>4. CASE d \notin Done(s)
      <4>1. PICK j \in 1 .. Len(stack) : Running(stack[j], d, s)
        BY <3>2, <3>4 DEF UnderWay
      <4>2. j # i + 1 /\ Begun(stack[j], d, s)
        BY <3>1, <4>1 DEF Running, Begun
      <4>3. j \in 1 .. i
        BY <1>1, <2>5, <4>2
      <4> QED
        BY <1>3, <4>2, <4>3
    <3> QED
      BY <3>3, <3>4
  <2> QED
    BY <1>4, <2>1, <2>3, <2>4, <2>5, LoadAfter
<1>5. CASE d \in Done(s)
  BY <1>2, <1>5 DEF Settled
<1> QED
  BY <1>3, <1>4, <1>5 DEF Settled

\* What a load has come to of its dependencies is settled.
LEMMA DepsSettledStep ==
  ASSUME Types, Types', Marked, UnderWay, DepsSettled, Next
  PROVE  DepsSettled'
<1> SUFFICES ASSUME NEW i \in 1 .. Len(stack'),
                    stack'[i].what = "load", stack'[i].at \notin {"enter", "check"},
                    NEW d \in toc'.deps[stack'[i].addon], d \notin Todo(stack'[i]),
                    NEW s \in BOOLEAN,
                    s <=> (stack'[i].secure \/ stack'[i].addon \in toc'.onlysecure)
             PROVE  Settled(i, d, s)'
  BY DEF DepsSettled, Todo, UseSecureEnv
<1> DEFINE a == stack'[i].addon
           t == stack'[i].secure
<1>1. /\ Len(stack) \in Nat /\ Len(stack') \in Nat
      /\ a \in Addon /\ t \in BOOLEAN /\ Begun(stack'[i], a, t)
  <2>1. stack'[i] \in InProgress /\ Len(stack) \in Nat /\ Len(stack') \in Nat
    BY LenProperties, ElementOfSeq DEF Types
  <2> QED
    BY <2>1 DEF InProgress, Begun, LoadIs
<1>2. toc' = toc /\ d \in toc.deps[a] /\ d \in Addon
  BY <1>1, MarksGrow DEF Types, Toc
<1> HIDE DEF a, t
<1>3. CASE BeginLoad /\ i = Len(stack)
  <2>1. /\ stack'[i].at = "deps" /\ stack'[i].todo = toc.deps[stack[i].addon]
        /\ stack'[i].addon = stack[i].addon
    BY <1>3, BeginLoadIs DEF Moves, Now, Top
  <2> QED
    BY <1>2, <2>1 DEF Todo, a
<1>4. CASE /\ i \in 1 .. Len(stack) /\ Begun(stack[i], a, t)
           /\ stack'[i] = stack[i] \/ i = Len(stack)
  <2>1. /\ stack[i].what = "load" /\ stack[i].at \notin {"enter", "check"}
        /\ stack[i].addon = a /\ (s <=> UseSecureEnv(stack[i]))
    BY <1>1, <1>2, <1>4 DEF Begun, LoadIs, UseSecureEnv, a, t
  <2>2. d \notin Todo(stack[i]) => Settled(i, d, s)
    BY <1>2, <1>4, <2>1 DEF DepsSettled
  <2>3. CASE d \notin Todo(stack[i])
    BY <1>2, <1>4, <2>2, <2>3, SettledAfter
  <2>4. CASE d \in Todo(stack[i])
    <3>1. i = Len(stack)
      BY <1>4, <2>4
    <3>2. LoadDep(d)
      BY <1>1, <1>2, <2>1, <2>4, <3>1, TodoBefore
    <3>3. Opens("deps", Top.todo \ {d}, Top.next, "load", d, UseSecureEnv(Top))
      BY <1>2, <3>2, LoadDepIs
    <3>4. /\ stack'[i].at = "deps" /\ i < Len(stack')
          /\ LoadIs(stack'[i + 1], d, s)
      BY <1>1, <2>1, <3>1, <3>3 DEF Opens, Now, Entering, LoadIs, Top
    <3> QED
      BY <3>4 DEF Settled, LoadIs
  <2> QED
    BY <2>3, <2>4
<1> QED
  BY <1>1, <1>3, <1>4, BegunBefore

\* With an addon, its dependencies.
LEMMA DepsAttemptedStep ==
  ASSUME Types, Marked, DepsSettled, ForcedLast, DepsAttempted, Next
  PROVE  DepsAttempted'
<1>1. ASSUME NEW a \in loaded
      PROVE  /\ toc'.deps[a] \subseteq loadattempted'
             /\ a \in toc'.onlysecure => toc'.deps[a] \subseteq secdeploadattempted'
  BY <1>1, MarksGrow DEF DepsAttempted
<1>2. CASE EndLoad /\ ~Top.secure
  <2>1. /\ TopIs("load", "variables") /\ Top = stack[Len(stack)] /\ Top.addon \in Addon
        /\ Len(stack) \in 1 .. Len(stack)
    BY <1>2, TopAt DEF EndLoad, TopIs
  <2>2. loaded' = loaded \cup {Top.addon}
    BY <1>2, EndLoadIs
  <2> DEFINE s == Top.addon \in toc.onlysecure
  <2>3. s \in BOOLEAN /\ (s <=> UseSecureEnv(Top)) /\ toc.deps[Top.addon] \subseteq Addon
    BY <1>2, <2>1 DEF UseSecureEnv, Types, Toc
  <2> HIDE DEF s
  <2>4. ASSUME NEW d \in toc.deps[Top.addon]
        PROVE  d \in Att(s)
    <3>1. Settled(Len(stack), d, s)
      BY <2>1, <2>3 DEF DepsSettled, Todo, TopIs
    <3>2. CASE d \in Done(s)
      BY <3>2 DEF Done, Att, Types
    <3>3. ASSUME NEW j \in 1 .. Len(stack), Begun(stack[j], d, s)
          PROVE  d \in Att(s)
      BY <2>3, <3>3 DEF Marked
    <3> QED
      BY <2>1, <3>1, <3>2, <3>3 DEF Settled, TopIs
  <2>5. /\ toc.deps[Top.addon] \subseteq loadattempted
        /\ Top.addon \in toc.onlysecure => toc.deps[Top.addon] \subseteq secdeploadattempted
    BY <2>4 DEF Att, ForcedLast, s
  <2> QED
    BY <1>1, <2>2, <2>5, MarksGrow DEF DepsAttempted
<1>3. CASE loaded' = loaded
  BY <1>1, <1>3 DEF DepsAttempted
<1>4. EndLoad /\ Top.secure => loaded' = loaded
  BY EndLoadIs
<1> QED
  BY <1>2, <1>3, <1>4, StepCases, EnterLoadIs, SkipLoadIs, BeginLoadIs, LeaveIs, SkipBootstrapIs,
     BeginBootstrapIs, EndBootstrapIs, NextLoopIs, LoadDepIs, LoadRevWithIs, BootstrapDepIs,
     VisitIs, LoadAddOnIs DEF Quiet, Kept, marks

\* What waits to be loaded waits, or is loaded.
LEMMA WaitsAfter ==
  ASSUME Types, Types', Next, NEW a \in Addon
  PROVE  /\ LoadWaits(a) => LoadWaits(a)' \/ a \in loadattempted'
         /\ a \in toc.loadondemand /\ BootWaits(a) =>
              BootWaits(a)' \/ a \in loadattempted' \/ a \in bootstrapping'
<1>1. ASSUME NEW i \in 1 .. Len(stack), Pending(stack[i], a, FALSE)
      PROVE  LoadWaits(a)' \/ a \in loadattempted'
  <2>1. \/ i \in 1 .. Len(stack') /\ Pending(stack'[i], a, FALSE)
        \/ a \in loadattempted'
    BY <1>1, PendingAfter
  <2> QED
    BY <2>1 DEF LoadWaits, Pending, LoadIs
<1>2. ASSUME NEW i \in 1 .. Len(stack), a \in toc.loadondemand,
             stack[i].what = "boot", stack[i].addon = a, stack[i].at = "enter"
      PROVE  BootWaits(a)' \/ a \in loadattempted' \/ a \in bootstrapping'
  BY <1>2, BootAfter DEF BootWaits
<1> QED
  BY <1>1, <1>2 DEF LoadWaits, BootWaits

\* What a loop has come to stays so.
LEMMA CameAfter ==
  ASSUME Types, Types', Next, NEW a \in Addon
  PROVE  (CameFirst(a) => CameFirst(a)') /\ (Came(a) => Came(a)')
BY WaitsAfter, MarksGrow DEF CameFirst, Came

\* A load that is at what has a LoadWith on its addon.
LEMMA WithAfter ==
  ASSUME Types, Types', Next, NEW i \in 1 .. Len(stack), NEW a \in Addon, NEW w \in Addon,
         LoadIs(stack[i], a, FALSE), stack[i].at = "revwiths", w \in stack[i].todo
  PROVE  \/ /\ i \in 1 .. Len(stack') /\ LoadIs(stack'[i], a, FALSE)
            /\ stack'[i].at = "revwiths" /\ w \in stack'[i].todo
         \/ LoadWaits(w)'
<1> DEFINE Goal == \/ /\ i \in 1 .. Len(stack') /\ LoadIs(stack'[i], a, FALSE)
                      /\ stack'[i].at = "revwiths" /\ w \in stack'[i].todo
                   \/ LoadWaits(w)'
<1>0. /\ Len(stack) \in Nat /\ Len(stack') \in Nat
      /\ i \in 1 .. Len(stack)
  BY LenProperties DEF Types
<1>1. CASE i < Len(stack)
  BY <1>1, BelowAfter DEF LoadIs
<1>2. CASE i = Len(stack)
  <2> USE DEF LoadIs
  <2>1. CASE Quiet
    BY <1>0, <1>2, <2>1 DEF Quiet, Moves, Now, Top
  <2>2. CASE Leave
    BY <1>2, <2>2, LeaveIs DEF Top
  <2>3. ASSUME NEW d \in Addon, LoadRevWith(d)
        PROVE  Goal
    <3>1. Opens("revwiths", Top.todo \ {d}, Top.next, "load", d, FALSE) /\ Top = stack[i]
      BY <1>2, <2>3, LoadRevWithIs DEF Top
    <3>2. i \in 1 .. Len(stack') /\ Len(stack) + 1 \in 1 .. Len(stack')
      BY <1>0, <3>1 DEF Opens
    <3>3. CASE d = w
      <4>1. Pending(stack'[Len(stack) + 1], w, FALSE)
        BY <3>1, <3>3 DEF Opens, Entering, Pending
      <4> QED
        BY <3>2, <4>1 DEF LoadWaits, Pending
    <3>4. CASE d # w
      BY <1>0, <1>2, <3>1, <3>2, <3>4 DEF Opens, Now
    <3> QED
      BY <3>3, <3>4
  <2>4. ASSUME NEW b \in Addon, LoadAddOn(b)
        PROVE  Goal
    <3>1. stack'[i] = stack[i] /\ i \in 1 .. Len(stack')
      <4>1. Adds("load", b, FALSE)
        BY <2>4, LoadAddOnIs
      <4> QED
        BY <1>0, <4>1 DEF Adds, Same
    <3> QED
      BY <3>1
  <2>5. CASE NextLoop
    BY <1>2, <2>5, NextLoopIs
  <2>6. ASSUME NEW b \in Addon, Visit(b)
        PROVE  Goal
    <3>1. Len(stack) = 0
      BY <2>6, VisitIs
    <3> QED
      BY <1>0, <3>1
  <2> QED
    BY <1>2, <2>1, <2>2, <2>3, <2>4, <2>5, <2>6, StepCases, EnterLoadIs, SkipLoadIs,
       BeginLoadIs, EndLoadIs, SkipBootstrapIs, BeginBootstrapIs, EndBootstrapIs, LoadDepIs,
       BootstrapDepIs DEF TopIs
<1>3. i < Len(stack) \/ i = Len(stack)
  BY <1>0
<1> QED
  BY <1>1, <1>2, <1>3

\* With an addon, what has a LoadWith on it.
LEMMA WithsAttemptedStep ==
  ASSUME Types, Types', WithsAttempted, Next
  PROVE  WithsAttempted'
<1> SUFFICES ASSUME NEW a \in loaded', NEW w \in toc.revwiths[a]
             PROVE  \/ w \in loadattempted'
                    \/ \E i \in 1 .. Len(stack') : /\ LoadIs(stack'[i], a, FALSE)
                         /\ stack'[i].at = "revwiths" /\ w \in stack'[i].todo
                    \/ LoadWaits(w)'
  BY MarksGrow DEF WithsAttempted, LoadIs
<1>1. a \in Addon /\ w \in Addon /\ toc' = toc
  BY MarksGrow DEF Types, Toc
<1>2. CASE a \in loaded
  <2>1. CASE w \in loadattempted
    BY <2>1, MarksGrow
  <2>2. CASE LoadWaits(w)
    BY <1>1, <2>2, WaitsAfter
  <2>3. CASE \E i \in 1 .. Len(stack) :
               LoadIs(stack[i], a, FALSE) /\ stack[i].at = "revwiths" /\ w \in stack[i].todo
    BY <1>1, <2>3, WithAfter
  <2> QED
    BY <1>2, <2>1, <2>2, <2>3 DEF WithsAttempted
<1>3. CASE EndLoad /\ a \notin loaded
  <2>1. /\ ~Top.secure /\ Top.addon = a /\ Top = stack[Len(stack)]
        /\ Len(stack) \in Nat \ {0} /\ Top.what = "load"
    BY <1>3, EndLoadIs DEF TopIs, Top
  <2>2. Moves("revwiths", toc.revwiths[a], Top.next)
    BY <1>3, <2>1, EndLoadIs
  <2>3. /\ Len(stack) \in 1 .. Len(stack') /\ LoadIs(stack'[Len(stack)], a, FALSE)
        /\ stack'[Len(stack)].at = "revwiths" /\ w \in stack'[Len(stack)].todo
    BY <2>1, <2>2 DEF Moves, Now, LoadIs
  <2> QED
    BY <2>3
<1> QED
  BY <1>2, <1>3, StepCases, EnterLoadIs, SkipLoadIs, BeginLoadIs, LeaveIs, SkipBootstrapIs,
     BeginBootstrapIs, EndBootstrapIs, NextLoopIs, LoadDepIs, LoadRevWithIs, BootstrapDepIs,
     VisitIs, LoadAddOnIs DEF Quiet, Kept, marks

\* When the stack is empty nothing is under way.
LEMMA NothingUnderWay ==
  ASSUME Types, UnderWay, BootUnderWay, Len(stack) = 0
  PROVE  /\ loadattempted = loaded /\ secdeploadattempted = secdeploaded
         /\ bootstrapping = bootstrapped
         /\ \A a : ~LoadWaits(a) /\ ~BootWaits(a)
<1>1. \A s \in BOOLEAN : Att(s) \subseteq Done(s)
  BY DEF UnderWay
<1>2. Att(TRUE) \subseteq Done(TRUE) /\ Att(FALSE) \subseteq Done(FALSE)
  BY <1>1
<1>3. bootstrapping \subseteq bootstrapped
  BY DEF BootUnderWay
<1>4. \A a : ~LoadWaits(a) /\ ~BootWaits(a)
  BY DEF LoadWaits, BootWaits
<1>5. loadattempted \subseteq loaded /\ secdeploadattempted \subseteq secdeploaded
  BY <1>2 DEF Att, Done
<1> QED
  BY <1>3, <1>4, <1>5 DEF Types

\* The three loops come to every addon.
LEMMA TurnsStep ==
  ASSUME Types, Types', UnderWay, BootUnderWay, Boots, Turns, Next
  PROVE  Turns'
<1>1. CASE NextLoop
  <2>1. /\ Len(stack) = 0 /\ left = {} /\ UNCHANGED <<toc, marks, stack>>
    BY <1>1, NextLoopIs
  <2>2. \A a \in Addon : Came(a) => Came(a)'
    BY CameAfter
  <2>3. CASE phase = "loadfirst" /\ phase' = "signed" /\ left' = Addon
    BY <2>1, <2>3 DEF Turns, Types, Toc
  <2>4. CASE phase = "signed" /\ phase' = "unsigned" /\ left' = Addon \ toc.signed
    BY <2>1, <2>2, <2>4 DEF Turns, Types, Toc
  <2>5. CASE phase = "unsigned" /\ phase' = "done" /\ left' = {}
    BY <2>1, <2>2, <2>5 DEF Turns, Types, Toc
  <2> QED
    BY <1>1, <2>3, <2>4, <2>5, NextLoopIs
<1>2. ASSUME NEW a \in Addon, Visit(a)
      PROVE  Turns'
  <2>1. /\ UNCHANGED <<toc, phase>> /\ Len(stack) = 0 /\ left' = left \ {a} /\ a \in left
    BY <1>2, VisitIs
  <2>2. /\ \A b \in Addon : CameFirst(b) => CameFirst(b)'
        /\ \A b \in Addon : Came(b) => Came(b)'
    BY CameAfter
  <2>3. CASE ~Concerns(a)
    <3>1. a \in loaded => Came(a)
      BY DEF Came, Types
    <3>2. phase = "loadfirst" => a \notin toc.loadfirst
      BY <2>3 DEF Concerns
    <3>3. phase = "signed" => a \notin toc.signed \/ a \in loaded
      BY <2>3 DEF Concerns
    <3>4. phase = "unsigned" => a \in loaded
      BY <2>3 DEF Concerns
    <3> QED
      BY <2>1, <2>2, <3>1, <3>2, <3>3, <3>4 DEF Turns, Types, Toc, Sensible
  <2>4. ASSUME LoadWaits(a)' \/ (phase # "loadfirst" /\ a \in toc'.loadondemand /\ BootWaits(a)')
        PROVE  Turns'
    <3>1. /\ Came(a)' /\ (phase = "loadfirst" => CameFirst(a)')
      BY <2>4 DEF Came, CameFirst
    <3> QED
      BY <2>1, <2>2, <3>1 DEF Turns, Types, Toc, Sensible
  <2>5. Len(stack) + 1 = 1
    BY <2>1
  <2>6. Adds("load", a, FALSE) => LoadWaits(a)'
    BY <2>1, <2>5 DEF Adds, Entering, LoadWaits, Pending, LoadIs
  <2>7. Adds("boot", a, FALSE) => BootWaits(a)'
    BY <2>1, <2>5 DEF Adds, Entering, BootWaits
  <2> QED
    BY <1>2, <2>1, <2>3, <2>4, <2>6, <2>7, VisitIs
<1>3. CASE UNCHANGED <<toc, phase, left>>
  <2>1. /\ \A b \in Addon : CameFirst(b) => CameFirst(b)'
        /\ \A b \in Addon : Came(b) => Came(b)'
    BY CameAfter
  <2> QED
    BY <1>3, <2>1 DEF Turns, Types, Toc, Sensible
<1> QED
  BY <1>1, <1>2, <1>3, StepCases, EnterLoadIs, SkipLoadIs, BeginLoadIs, EndLoadIs, LeaveIs,
     SkipBootstrapIs, BeginBootstrapIs, EndBootstrapIs, LoadDepIs, LoadRevWithIs,
     BootstrapDepIs, LoadAddOnIs DEF Quiet, Kept

\* Bootstrapping begins when the onlysecure addons are loaded.
LEMMA BootsStep ==
  ASSUME Types, Types', UnderWay, BootUnderWay, Boots, Turns, Next
  PROVE  Boots'
<1>1. phase' # "loadfirst" => toc'.loadfirst \subseteq loaded'
  <2>1. CASE phase # "loadfirst"
    BY <2>1, MarksGrow DEF Boots
  <2>2. CASE NextLoop /\ phase = "loadfirst"
    <3>1. /\ loadattempted = loaded
          /\ \A a : ~LoadWaits(a)
      BY <2>2, NextLoopIs, NothingUnderWay
    <3>2. toc.loadfirst \subseteq loaded
      BY <2>2, <3>1, NextLoopIs DEF Turns, CameFirst
    <3> QED
      BY <3>2, MarksGrow
  <2>3. CASE phase' = phase
    BY <2>1, <2>3
  <2> QED
    BY <2>1, <2>2, <2>3, StepCases, EnterLoadIs, SkipLoadIs, BeginLoadIs, EndLoadIs, LeaveIs,
       SkipBootstrapIs, BeginBootstrapIs, EndBootstrapIs, LoadDepIs, LoadRevWithIs,
       BootstrapDepIs, VisitIs, LoadAddOnIs DEF Quiet, Kept
<1>2. phase' = "loadfirst" => phase = "loadfirst"
  BY StepCases, EnterLoadIs, SkipLoadIs, BeginLoadIs, EndLoadIs, LeaveIs, SkipBootstrapIs,
     BeginBootstrapIs, EndBootstrapIs, LoadDepIs, LoadRevWithIs, BootstrapDepIs, VisitIs,
     NextLoopIs, LoadAddOnIs DEF Quiet, Kept
<1>3. ASSUME NEW i \in 1 .. Len(stack'), stack'[i].what = "boot"
      PROVE  \/ /\ i \in 1 .. Len(stack) /\ stack[i].what = "boot"
                /\ stack[i].addon = stack'[i].addon
                /\ \/ (stack[i].at = "enter") <=> (stack'[i].at = "enter")
                   \/ BeginBootstrap /\ i = Len(stack)
             \/ /\ stack'[i].at = "enter"
                /\ phase # "loadfirst" \/ \E j \in 1 .. Len(stack) : stack[j].what = "boot"
  BY <1>3, BootBefore
<1>4. phase' = "loadfirst" => \A i \in 1 .. Len(stack') : stack'[i].what = "load"
  <2>1. \A i \in 1 .. Len(stack') : stack'[i].what \in {"load", "boot"}
    <3>1. \A i \in 1 .. Len(stack') : stack'[i] \in InProgress
      BY ElementOfSeq DEF Types
    <3> QED
      BY <3>1 DEF InProgress
  <2>2. \A j \in 1 .. Len(stack) : phase = "loadfirst" => stack[j].what # "boot"
    BY DEF Boots
  <2> QED
    BY <1>2, <1>3, <2>1, <2>2
<1>5. ASSUME NEW i \in 1 .. Len(stack'), NEW a \in Addon, Booting(stack'[i], a)
      PROVE  a \notin toc'.onlysecure
  <2>1. toc' = toc
    BY MarksGrow
  <2>2. stack'[i].what = "boot" /\ stack'[i].addon = a /\ stack'[i].at # "enter"
    BY <1>5 DEF Booting
  <2>3. /\ i \in 1 .. Len(stack) /\ stack[i].what = "boot" /\ stack[i].addon = a
        /\ stack[i].at # "enter" \/ (BeginBootstrap /\ i = Len(stack))
    BY <1>3, <2>2
  <2>4. CASE stack[i].at # "enter"
    BY <2>1, <2>3, <2>4 DEF Boots, Booting
  <2>5. CASE BeginBootstrap /\ i = Len(stack)
    <3>1. a \notin loaded
      BY <2>3, <2>5, BeginBootstrapIs DEF NoBootstrap, Top
    <3>2. toc.loadfirst \subseteq loaded
      BY <2>3 DEF Boots
    <3> QED
      BY <2>1, <3>1, <3>2 DEF Types, Sensible
  <2> QED
    BY <2>3, <2>4, <2>5
<1> QED
  BY <1>1, <1>4, <1>5 DEF Boots, Booting

\* A file of an addon that has run without exception is not run again.
LEMMA RanOnceStep ==
  ASSUME Types, Types', Marked, OneLoad, RanOnce, Next
  PROVE  RanOnce'
<1> DEFINE Exempt(r) == \/ r.addon \in toc.onlysecure
                        \/ r.file \in IntoGlobal \cup IntoSecure \cup Bootstrap
           Secure(r) == r.env = "secure"
           Past(r, i) == \E k \in 1 .. stack[i].next - 1 : Files[k] = r.file
<1>0. /\ toc' = toc /\ Len(stack) \in Nat /\ Len(stack') \in Nat
      /\ \A i \in 1 .. Len(stack) : stack[i] \in InProgress /\ stack[i].next \in Nat
      /\ \A i \in 1 .. Len(stack') : stack'[i] \in InProgress /\ stack'[i].next \in Nat
  <2>1. /\ \A i \in 1 .. Len(stack) : stack[i] \in InProgress
        /\ \A i \in 1 .. Len(stack') : stack'[i] \in InProgress
    BY ElementOfSeq DEF Types
  <2> QED
    BY <2>1, MarksGrow, LenProperties DEF Types, InProgress
\* The calls that have begun are past what they were past.
<1>1. ASSUME NEW r \in ran, ~Exempt(r)
      PROVE  /\ r \notin again /\ r.addon \in Att(Secure(r))'
             /\ \A i \in 1 .. Len(stack') : Begun(stack'[i], r.addon, Secure(r)) => Past(r, i)'
  <2>1. /\ r \notin again /\ r.addon \in Att(Secure(r)) /\ r.addon \in Addon
        /\ Secure(r) \in BOOLEAN
        /\ \A i \in 1 .. Len(stack) : Begun(stack[i], r.addon, Secure(r)) => Past(r, i)
    BY <1>1 DEF RanOnce, Types
  <2>2. r.addon \in Att(Secure(r))'
    BY <2>1, MarksGrow DEF Att
  <2>3. ASSUME NEW i \in 1 .. Len(stack'), Begun(stack'[i], r.addon, Secure(r))
        PROVE  Past(r, i)'
    <3>1. /\ i \in 1 .. Len(stack) /\ Begun(stack[i], r.addon, Secure(r))
          /\ stack'[i] = stack[i] \/ i = Len(stack)
      BY <2>1, <2>3, BegunBefore
    <3>2. stack[i].next <= stack'[i].next
      BY <1>0, <3>1, NextGrows DEF Begun, LoadIs
    <3>3. PICK k \in 1 .. stack[i].next - 1 : Files[k] = r.file
      BY <2>1, <3>1
    <3>4. k \in 1 .. stack'[i].next - 1
      BY <1>0, <3>1, <3>2
    <3> QED
      BY <3>3, <3>4
  <2> QED
    BY <2>1, <2>2, <2>3
<1>2. CASE UNCHANGED <<ran, again>>
  BY <1>0, <1>1, <1>2 DEF RanOnce
<1>3. ASSUME NEW a \in Addon, NEW file, NEW env, Ran(a, file, env),
             file \in Bootstrap
      PROVE  RanOnce'
  <2> DEFINE r == [addon |-> a, file |-> file, env |-> env]
  <2>1. ran' = ran \cup {r} /\ again' \subseteq again \cup {r} /\ Exempt(r)
    BY <1>3 DEF Ran
  <2> QED
    BY <1>0, <1>1, <2>1 DEF RanOnce
<1>4. ASSUME LoadFile, NEW r,
             r = [addon |-> Top.addon, file |-> Files[Top.next],
                  env |-> EnvOf(Top, Files[Top.next])],
             Ran(Top.addon, Files[Top.next], EnvOf(Top, Files[Top.next]))
      PROVE  RanOnce'
  <2> DEFINE n == Len(stack)
  <2>1. ran' = ran \cup {r} /\ again' = again \cup ({r} \cap ran)
    BY <1>4 DEF Ran
  <2>2. CASE Exempt(r)
    BY <1>0, <1>1, <2>1, <2>2 DEF RanOnce
  <2>3. CASE ~Exempt(r)
    <3>1. /\ TopIs("load", "files") /\ Top = stack[n] /\ Top \in InProgress
          /\ Top.addon \in Addon /\ Top.next <= Len(Files) /\ n \in 1 .. n
          /\ Moves("files", Top.todo, Top.next + 1)
      BY <1>4, TopAt, LoadFileIs DEF LoadFile, TopIs
    <3>2. /\ r.addon = Top.addon /\ r.file = Files[Top.next]
          /\ (Secure(r) <=> Top.secure) /\ Secure(r) \in BOOLEAN
      BY <1>4, <2>3 DEF EnvOf, UseSecureEnv
    <3>3. Begun(stack[n], r.addon, Secure(r))
      BY <3>1, <3>2 DEF Begun, LoadIs, TopIs
    <3>4. /\ Top.next \in DOMAIN Files /\ Top.next \in Nat /\ 1 <= Top.next
          /\ \A k \in 1 .. Top.next - 1 : k \in DOMAIN Files
      BY <3>1, FilesAssumption, LenProperties DEF InProgress
    <3>5. r \notin ran
      <4>1. ASSUME r \in ran
            PROVE  Past(r, n)
        BY <2>3, <3>1, <3>3, <4>1 DEF RanOnce
      <4>2. ~Past(r, n)
        BY <3>1, <3>2, <3>4, FilesAssumption
      <4> QED
        BY <4>1, <4>2
    <3>6. r.addon \in Att(Secure(r)) /\ r.addon \in Att(Secure(r))'
      <4>1. r.addon \in Att(Secure(r))
        BY <3>1, <3>2, <3>3 DEF Marked
      <4> QED
        BY <4>1, MarksGrow DEF Att
    <3>7. ASSUME NEW i \in 1 .. Len(stack'), Begun(stack'[i], r.addon, Secure(r))
          PROVE  Past(r, i)'
      <4>1. i \in 1 .. n /\ Begun(stack[i], r.addon, Secure(r))
        BY <3>1, <3>2, <3>6, <3>7, BegunBefore
      <4>2. i = n
        BY <3>1, <3>2, <3>3, <4>1 DEF OneLoad
      <4>3. stack'[i].next = Top.next + 1
        BY <3>1, <4>2 DEF Moves, Now
      <4>4. Top.next \in 1 .. stack'[i].next - 1
        <5>1. \A m \in Nat : 1 <= m => m \in 1 .. (m + 1) - 1
          OBVIOUS
        <5> QED
          BY <3>4, <4>3, <5>1
      <4> QED
        BY <3>2, <4>4
    <3>8. again' = again /\ r \notin again
      BY <2>1, <3>5 DEF Types
    <3> HIDE DEF Exempt, Secure, Past
    <3>9. \A q \in ran' : \/ Exempt(q)
                          \/ /\ q \notin again' /\ q.addon \in Att(Secure(q))'
                             /\ \A i \in 1 .. Len(stack') :
                                  Begun(stack'[i], q.addon, Secure(q)) => Past(q, i)'
      BY <1>1, <2>1, <3>6, <3>7, <3>8
    <3> QED
      BY <1>0, <3>9 DEF RanOnce, Exempt, Secure, Past
  <2> QED
    BY <2>2, <2>3
<1>5. CASE LoadFile
  <2>1. CASE Ran(Top.addon, Files[Top.next], EnvOf(Top, Files[Top.next]))
    BY <1>4, <1>5, <2>1
  <2> QED
    BY <1>2, <1>5, <2>1, LoadFileIs
<1>6. CASE BootstrapFile
  <2>1. Top.addon \in Addon
    BY <1>6, TopAt DEF BootstrapFile
  <2> QED
    BY <1>2, <1>3, <1>6, <2>1, BootstrapFileIs
<1> QED
  BY <1>2, <1>5, <1>6 DEF Next, LoaderStep, EnterLoad, SkipLoad, BeginLoad, LoadDep, EndDeps,
     LoadVariables, EndLoad, LoadRevWith, Leave, SkipBootstrap, BeginBootstrap, BootstrapDep,
     EndBootstrapDeps, EndBootstrap, LoadAddOn, Return, Visit, NextLoop

-----------------------------------------------------------------------------

\* At first nothing has begun.
LEMMA IInvInit == Init => IInv
<1> SUFFICES ASSUME Init PROVE IInv
  OBVIOUS
<1>1. Len(stack) = 0 /\ stack \in Seq(InProgress)
  BY EmptySeq DEF Init
<1>2. Types
  BY <1>1 DEF Init, Types
<1>3. Marked /\ OneLoad /\ DepsSettled /\ WithoutFirst
  BY <1>1 DEF Marked, OneLoad, DepsSettled, WithoutFirst
<1>4. UnderWay /\ BootUnderWay /\ ForcedLast /\ DepsAttempted /\ WithsAttempted /\ RanOnce
  BY DEF Init, UnderWay, BootUnderWay, ForcedLast, DepsAttempted, WithsAttempted, RanOnce, Att
<1>5. Boots
  BY <1>1 DEF Init, Boots
<1>6. Turns
  BY DEF Init, Turns, Types, Toc, Sensible
<1> QED
  BY <1>2, <1>3, <1>4, <1>5, <1>6 DEF IInv

\* Every step keeps the invariant.
LEMMA IInvStep == IInv /\ [Next]_vars => IInv'
<1> SUFFICES ASSUME IInv, [Next]_vars PROVE IInv'
  OBVIOUS
<1> USE DEF IInv
<1>1. CASE Next
  <2>1. Types'
    BY <1>1, TypesStep
  <2>2. Marked' /\ OneLoad' /\ RanOnce'
    BY <1>1, <2>1, MarkedStep, OneLoadStep, RanOnceStep
  <2>3. UnderWay' /\ BootUnderWay'
    BY <1>1, <2>1, UnderWayStep, BootUnderWayStep
  <2>4. DepsSettled' /\ DepsAttempted'
    BY <1>1, <2>1, DepsSettledStep, DepsAttemptedStep
  <2>5. WithoutFirst' /\ ForcedLast'
    BY <1>1, <2>1, WithoutFirstStep, ForcedLastStep
  <2>6. WithsAttempted' /\ Boots' /\ Turns'
    BY <1>1, <2>1, WithsAttemptedStep, BootsStep, TurnsStep
  <2> QED
    BY <2>1, <2>2, <2>3, <2>4, <2>5, <2>6
<1>2. CASE UNCHANGED vars
  <2>1. UNCHANGED <<toc, loadattempted, loaded, secdeploadattempted, secdeploaded, bootstrapping,
                    bootstrapped, stack, phase, left, ran, again>>
    BY <1>2 DEF vars, marks
  <2>2. Types' /\ Marked' /\ OneLoad' /\ RanOnce'
    BY <2>1 DEF Types, Marked, OneLoad, RanOnce, Att, Done, Begun, LoadIs, Booting
  <2>3. UnderWay' /\ BootUnderWay' /\ ForcedLast' /\ DepsAttempted'
    BY <2>1 DEF UnderWay, BootUnderWay, ForcedLast, DepsAttempted, Att, Done, Running, LoadIs,
       Booting
  <2>4. DepsSettled' /\ WithoutFirst'
    BY <2>1 DEF DepsSettled, Settled, Todo, UseSecureEnv, WithoutFirst, Preceded, Done, Begun,
       Pending, LoadIs
  <2>5. WithsAttempted' /\ Boots' /\ Turns'
    BY <2>1 DEF WithsAttempted, Boots, Turns, Came, CameFirst, LoadWaits, BootWaits, Booting,
       Pending, LoadIs
  <2> QED
    BY <2>2, <2>3, <2>4, <2>5
<1> QED
  BY <1>1, <1>2

\* So it holds in every reachable state.
LEMMA Invariance == Spec => []IInv
BY IInvInit, IInvStep, PTL DEF Spec

\* The types of the variables, whatever the addons and the calls of LoadAddOn.
THEOREM LoaderTypes == Spec => []TypeOK
<1>1. Init => calls \in 0 .. MaxCalls
  BY AddonAssumption DEF Init
<1>2. calls \in 0 .. MaxCalls /\ [Next]_vars => (calls \in 0 .. MaxCalls)'
  <2>1. [Next]_vars => calls' = calls \/ (calls < MaxCalls /\ calls' = calls + 1)
    BY DEF vars, Next, LoaderStep, EnterLoad, SkipLoad, BeginLoad, LoadDep, EndDeps, LoadFile,
       LoadVariables, EndLoad, LoadRevWith, Leave, SkipBootstrap, BeginBootstrap, BootstrapDep,
       EndBootstrapDeps, BootstrapFile, EndBootstrap, LoadAddOn, Return, Visit, NextLoop
  <2> QED
    BY <2>1, AddonAssumption
<1>3. IInv /\ calls \in 0 .. MaxCalls => TypeOK
  <2>1. IInv => \A i \in DOMAIN stack : stack[i] \in InProgress
    BY ElementOfSeq, LenProperties DEF IInv, Types
  <2> QED
    BY <2>1 DEF IInv, Types, ForcedLast, TypeOK
<1> QED
  BY <1>1, <1>2, <1>3, Invariance, PTL DEF Spec

\* Whatever the dependencies, their cycles and the calls of LoadAddOn, a file
\* runs once in an environment, but for the exceptions RunOnce names.
THEOREM LoaderRunOnce == Spec => []RunOnce
<1>1. IInv => RunOnce
  BY DEF IInv, Types, RanOnce, RunOnce
<1> QED
  BY <1>1, Invariance, PTL

\* The files of an addon run when what it depends on is loaded, or in the
\* middle of it further out, in the environment it goes to; and no onlysecure
\* addon is ever bootstrapped.
THEOREM LoaderInTurn == Spec => []InTurn
<1>1. IInv => DepsFirst
  <2> SUFFICES ASSUME IInv, NEW i \in DOMAIN stack,
                      stack[i].what = "load", stack[i].at \in {"files", "variables", "revwiths"},
                      NEW d \in toc.deps[stack[i].addon]
               PROVE  \/ d \in IF UseSecureEnv(stack[i]) THEN secdeploaded ELSE loaded
                      \/ \E j \in 1 .. i :
                           /\ stack[j].what = "load" /\ stack[j].addon = d
                           /\ stack[j].secure = UseSecureEnv(stack[i])
    BY DEF DepsFirst
  <2> DEFINE s == UseSecureEnv(stack[i])
  <2>1. i \in 1 .. Len(stack) /\ \A j \in 1 .. Len(stack) : stack[j] \in InProgress
    BY ElementOfSeq, LenProperties DEF IInv, Types
  <2>2. s \in BOOLEAN /\ \A j \in 1 .. i : j \in 1 .. Len(stack)
    BY <2>1, LenProperties DEF UseSecureEnv, InProgress, IInv, Types
  <2>3. Settled(i, d, s)
    BY <2>1, <2>2 DEF IInv, DepsSettled, Todo
  <2>4. CASE d \in Done(s)
    BY <2>4 DEF Done
  <2>5. ASSUME NEW j \in 1 .. i, Begun(stack[j], d, s)
        PROVE  stack[j].what = "load" /\ stack[j].addon = d /\ stack[j].secure = s
    <3>1. stack[j].secure \in BOOLEAN
      BY <2>1, <2>2 DEF InProgress
    <3> QED
      BY <2>2, <2>5, <3>1 DEF Begun, LoadIs
  <2> QED
    BY <2>3, <2>4, <2>5 DEF Settled
<1>2. IInv => BootstrapNotSecure
  <2>1. IInv => \A i \in DOMAIN stack : i \in 1 .. Len(stack) /\ stack[i] \in InProgress
    BY ElementOfSeq, LenProperties DEF IInv, Types
  <2> QED
    BY <2>1 DEF IInv, Boots, Booting, BootstrapNotSecure, InProgress
<1>3. IInv => InTurn
  BY <1>1, <1>2 DEF InTurn
<1> QED
  BY <1>3, Invariance, PTL

\* When no call is in progress nothing is left half done, and at the end
\* every addon is loaded, or bootstrapped if it loads on demand.
THEOREM LoaderAllLoaded == Spec => []AllLoaded
<1>1. IInv => AllLoaded
  <2> SUFFICES ASSUME IInv, stack = <<>>
               PROVE  /\ loadattempted = loaded /\ secdeploadattempted = secdeploaded
                      /\ bootstrapping = bootstrapped
                      /\ \A a \in loaded : toc.deps[a] \cup toc.revwiths[a] \subseteq loaded
                      /\ \A a \in loaded \cap toc.onlysecure : toc.deps[a] \subseteq secdeploaded
                      /\ phase = "done" => Addon = loaded \cup (bootstrapped \cap toc.loadondemand)
    BY DEF AllLoaded
  <2>1. Len(stack) = 0
    BY EmptySeq
  <2>2. /\ loadattempted = loaded /\ secdeploadattempted = secdeploaded
        /\ bootstrapping = bootstrapped
        /\ \A a : ~LoadWaits(a) /\ ~BootWaits(a)
    BY <2>1, NothingUnderWay DEF IInv
  <2>3. \A a \in loaded : toc.deps[a] \cup toc.revwiths[a] \subseteq loaded
    BY <2>1, <2>2 DEF IInv, DepsAttempted, WithsAttempted
  <2>4. \A a \in loaded \cap toc.onlysecure : toc.deps[a] \subseteq secdeploaded
    BY <2>2 DEF IInv, DepsAttempted
  <2>5. phase = "done" => Addon = loaded \cup (bootstrapped \cap toc.loadondemand)
    <3>1. loaded \subseteq Addon /\ bootstrapping \subseteq toc.loadondemand
          /\ toc.loadondemand \subseteq Addon
      BY DEF IInv, Types, Toc
    <3>2. phase = "done" => \A a \in Addon : a \in loadattempted \/ a \in bootstrapping
      BY <2>2 DEF IInv, Turns, Came
    <3> QED
      BY <2>2, <3>1, <3>2
  <2> QED
    BY <2>2, <2>3, <2>4, <2>5
<1> QED
  BY <1>1, Invariance, PTL
=============================================================================
