----------------------------- MODULE EventProofs -----------------------------
(***************************************************************************)
(* For any frames, callbacks and events, any depth of nested sends and any *)
(* number of calls: a frame that unregistered from all events hears of     *)
(* none, and a send delivers to all that were registered when it began, as *)
(* often as they were.                                                     *)
(***************************************************************************)
EXTENDS EventDispatch, HListLemmas

\* A sequence of whatever it has for elements: the stack of sends, of whose
\* many fields most do not matter here.
IsSeq(s) == s \in Seq({s[i] : i \in DOMAIN s})

\* Every key of the four registries is known, the hash lists are well-formed.
RegistryOK ==
  /\ DOMAIN regs = ScriptEvent /\ \A e \in ScriptEvent : HListOK(regs[e], Frame)
  /\ HListOK(allregs, Frame)
  /\ DOMAIN frames = CallbackEvent

\* A quiet frame is in no registry: the first half of QuietFrames.
Unregistered(f) ==
  /\ ~Has(allregs, f)
  /\ \A e \in ScriptEvent : ~Has(regs[e], f)
  /\ \A e \in CallbackEvent : f \notin DOMAIN frames[e]

\* The fields of a send.
HasFields(d) ==
  d = [ev |-> d.ev, phase |-> d.phase, todo |-> d.todo, first |-> d.first, cur |-> d.cur,
       left |-> d.left, owner |-> d.owner, detached |-> d.detached, held |-> d.held,
       lost |-> d.lost, running |-> d.running, runs |-> d.runs, due |-> d.due, got |-> d.got,
       start |-> d.start, cut |-> d.cut, silent |-> d.silent]

\* What a send still has to come to is nothing that is silent, and silent
\* frames are quiet: of the frames it may still walk, none is about to be.
SendOK(d, q) ==
  /\ HasFields(d) /\ d.silent \subseteq q
  /\ d.ev \in Event /\ d.todo \in Seq(Frame)
  /\ d.phase \in {"frames", "global", "owners", "list"}
  /\ d.phase # "frames" => d.ev \in CallbackEvent
  /\ \A k \in 1 .. Len(d.todo) : d.todo[k] \notin d.silent
  /\ d.phase \in {"owners", "list"} => d.left \cap d.silent = {}
  /\ d.phase = "list" => d.owner \notin d.silent

StackOK(s, q) == IsSeq(s) /\ \A i \in 1 .. Len(s) : SendOK(s[i], q)

IInv ==
  /\ RegistryOK
  /\ \A f \in quiet : Unregistered(f)
  /\ StackOK(stack, quiet)

-----------------------------------------------------------------------------
(* Sequences of anything *)

\* A function on 1 .. n is a sequence.
LEMMA FunctionIsSeq ==
  ASSUME NEW n \in Nat, NEW s, s = [i \in 1 .. n |-> s[i]]
  PROVE  IsSeq(s) /\ Len(s) = n
<1> DEFINE S == {s[i] : i \in 1 .. n}
<1>1. DOMAIN s = 1 .. n
  OBVIOUS
<1>2. \A i \in 1 .. n : s[i] \in S
  OBVIOUS
<1>3. s \in [1 .. n -> S]
  BY <1>2
<1>4. s \in Seq(S)
  BY <1>3
<1>5. Len(s) = n
  BY <1>1, <1>4
<1> QED
  BY <1>1, <1>4, <1>5 DEF IsSeq

\* And the other way round.
LEMMA SeqIsFunction ==
  ASSUME NEW s, IsSeq(s)
  PROVE  /\ Len(s) \in Nat /\ DOMAIN s = 1 .. Len(s) /\ s = [i \in 1 .. Len(s) |-> s[i]]
         /\ s # <<>> => Len(s) \in 1 .. Len(s)
<1> DEFINE S == {s[i] : i \in DOMAIN s}
<1>1. s \in Seq(S)
  BY DEF IsSeq
<1> HIDE DEF S
<1>2. Len(s) \in Nat /\ DOMAIN s = 1 .. Len(s) /\ s = [i \in 1 .. Len(s) |-> s[i]]
  BY <1>1, LenProperties
<1>3. s # <<>> => Len(s) # 0
  BY <1>1, EmptySeq
<1> QED
  BY <1>2, <1>3

\* A send begins.
LEMMA StackAppend ==
  ASSUME NEW s, NEW q, NEW d, StackOK(s, q), SendOK(d, q)
  PROVE  StackOK(Append(s, d), q)
<1> DEFINE n == Len(s)
           t == Append(s, d)
           S == {s[i] : i \in 1 .. n} \cup {d}
<1>1. n \in Nat /\ DOMAIN s = 1 .. n /\ s = [i \in 1 .. n |-> s[i]]
  BY SeqIsFunction DEF StackOK
<1>2. s \in Seq(S) /\ d \in S
  <2>1. \A i \in 1 .. n : s[i] \in S
    OBVIOUS
  <2>2. s \in [1 .. n -> S]
    BY <1>1, <2>1
  <2> QED
    BY <1>1, <2>2
<1>3. /\ t \in Seq(S) /\ Len(t) = n + 1
      /\ t[n + 1] = d /\ \A i \in 1 .. n : t[i] = s[i]
  <2> HIDE DEF S
  <2> QED
    BY <1>2, AppendProperties
<1>4. \A i \in 1 .. n + 1 : SendOK(t[i], q)
  BY <1>1, <1>3 DEF StackOK
<1>5. t = [i \in 1 .. n + 1 |-> t[i]]
  <2> HIDE DEF S, t
  <2> QED
    BY <1>3, LenProperties
<1> HIDE DEF t, n, S
<1>6. IsSeq(t) /\ Len(t) = n + 1
  BY <1>1, <1>5, FunctionIsSeq
<1> QED
  BY <1>4, <1>6 DEF StackOK, t

\* The innermost send makes a step.
LEMMA StackSetTop ==
  ASSUME NEW s, NEW q, NEW d, StackOK(s, q), s # <<>>, SendOK(d, q)
  PROVE  StackOK([s EXCEPT ![Len(s)] = d], q)
<1> DEFINE n == Len(s)
           t == [s EXCEPT ![n] = d]
<1>1. n \in Nat /\ DOMAIN s = 1 .. n
  BY SeqIsFunction DEF StackOK
<1>2. t = [i \in 1 .. n |-> t[i]]
  BY <1>1
<1>3. \A i \in 1 .. n : SendOK(t[i], q)
  BY <1>1 DEF StackOK
<1> HIDE DEF t, n
<1>4. IsSeq(t) /\ Len(t) = n
  BY <1>1, <1>2, FunctionIsSeq
<1> QED
  BY <1>3, <1>4 DEF StackOK, t, n

\* The innermost send ends.
LEMMA StackPop ==
  ASSUME NEW s, NEW q, StackOK(s, q), s # <<>>
  PROVE  StackOK(SubSeq(s, 1, Len(s) - 1), q)
<1> DEFINE n == Len(s) - 1
           t == SubSeq(s, 1, n)
<1>1. n \in Nat /\ Len(s) \in Nat
  BY SeqIsFunction DEF StackOK
<1>2. t = [i \in 1 .. n |-> s[i]]
  BY <1>1
<1>3. t = [i \in 1 .. n |-> t[i]]
  BY <1>2
<1>4. \A i \in 1 .. n : SendOK(t[i], q)
  BY <1>1, <1>2 DEF StackOK
<1> HIDE DEF t, n
<1>5. IsSeq(t) /\ Len(t) = n
  BY <1>1, <1>3, FunctionIsSeq
<1> QED
  BY <1>4, <1>5 DEF StackOK, t, n

\* An operation changes what all sends in progress know.
LEMMA StackMap ==
  ASSUME NEW s, NEW q, NEW t, IsSeq(s), t = [i \in DOMAIN s |-> t[i]],
         \A i \in 1 .. Len(s) : SendOK(t[i], q)
  PROVE  StackOK(t, q)
<1>1. Len(s) \in Nat /\ DOMAIN s = 1 .. Len(s)
  BY SeqIsFunction
<1>2. IsSeq(t) /\ Len(t) = Len(s)
  BY <1>1, FunctionIsSeq
<1> QED
  BY <1>2 DEF StackOK

\* When more frames are quiet, a send is still right about its silent ones.
LEMMA StackQuieter ==
  ASSUME NEW s, NEW q, NEW r, StackOK(s, q), q \subseteq r
  PROVE  StackOK(s, r)
BY DEF StackOK, SendOK

-----------------------------------------------------------------------------
(* Registries *)

\* insert and remove, whether or not the frame is in the list.
LEMMA InsertFrame ==
  ASSUME NEW g, HListOK(g, Frame), NEW f \in Frame
  PROVE  /\ HListOK(Insert(g, f), Frame)
         /\ \A x : Has(Insert(g, f), x) <=> Has(g, x) \/ x = f
BY InsertOK DEF Members, Has

\* A frame is taken off a registry.
LEMMA RemoveFrame ==
  ASSUME NEW g, HListOK(g, Frame), NEW f \in Frame
  PROVE  /\ HListOK(Remove(g, f), Frame)
         /\ \A x : Has(Remove(g, f), x) <=> Has(g, x) /\ x # f
<1>1. CASE Has(g, f)
  BY <1>1, RemoveOK DEF Members, Has
<1>2. CASE ~Has(g, f)
  BY <1>2 DEF Remove, Has
<1> QED
  BY <1>1, <1>2

\* The snapshot of a send has only frames that are registered.
LEMMA SnapshotRegistered ==
  ASSUME RegistryOK, NEW ev
  PROVE  LET todo == GetFramesRegisteredForEvent(ev)
         IN  /\ todo \in Seq(Frame)
             /\ \A k \in 1 .. Len(todo) :
                  Has(allregs, todo[k]) \/ (ev \in ScriptEvent /\ Has(regs[ev], todo[k]))
<1> DEFINE front == IF ev \in ScriptEvent THEN regs[ev].list ELSE <<>>
           todo == front \o allregs.list
<1>1. /\ front \in Seq(Frame)
      /\ \A k \in 1 .. Len(front) : ev \in ScriptEvent /\ Has(regs[ev], front[k])
  <2>1. CASE ev \in ScriptEvent
    BY <2>1 DEF RegistryOK, HListOK, Has
  <2>2. CASE ev \notin ScriptEvent
    BY <2>2, EmptySeq
  <2> QED
    BY <2>1, <2>2
<1>2. allregs.list \in Seq(Frame) /\ \A k \in 1 .. Len(allregs.list) : Has(allregs, allregs.list[k])
  BY DEF RegistryOK, HListOK, Has
<1> HIDE DEF front
<1>3. /\ todo \in Seq(Frame) /\ Len(todo) = Len(front) + Len(allregs.list)
      /\ \A k \in 1 .. Len(front) + Len(allregs.list) :
           todo[k] = IF k <= Len(front) THEN front[k] ELSE allregs.list[k - Len(front)]
  BY <1>1, <1>2, ConcatProperties
<1>4. Len(front) \in Nat /\ Len(allregs.list) \in Nat
  BY <1>1, <1>2
<1>5. ASSUME NEW k \in 1 .. Len(todo)
      PROVE  Has(allregs, todo[k]) \/ (ev \in ScriptEvent /\ Has(regs[ev], todo[k]))
  <2>1. CASE k <= Len(front)
    BY <1>1, <1>3, <1>4, <2>1
  <2>2. CASE ~(k <= Len(front))
    <3>1. k - Len(front) \in 1 .. Len(allregs.list)
      BY <1>3, <1>4, <2>2
    <3> QED
      BY <1>2, <1>3, <1>4, <2>2, <3>1
  <2> QED
    BY <2>1, <2>2
<1> QED
  BY <1>3, <1>5 DEF GetFramesRegisteredForEvent, front

-----------------------------------------------------------------------------
(* Operations *)

\* Awake changes one field.
LEMMA AwakeFields ==
  ASSUME NEW d, HasFields(d), NEW f
  PROVE  LET a == Awake(d, f)
         IN  /\ HasFields(a) /\ a.silent = d.silent \ {f}
             /\ a.ev = d.ev /\ a.todo = d.todo /\ a.phase = d.phase
             /\ a.left = d.left /\ a.owner = d.owner
<1> DEFINE a == Awake(d, f)
<1>1. a = [d EXCEPT !.silent = d.silent \ {f}]
  BY DEF Awake
<1> QED
  BY <1>1 DEF HasFields

\* A frame that is awake is none of the silent ones.
LEMMA AwakeOK ==
  ASSUME NEW d, NEW q, SendOK(d, q), NEW f
  PROVE  SendOK(Awake(d, f), q \ {f})
<1> DEFINE a == Awake(d, f)
<1>1. HasFields(d)
  BY DEF SendOK
<1>2. /\ HasFields(a) /\ a.silent = d.silent \ {f}
      /\ a.ev = d.ev /\ a.todo = d.todo /\ a.phase = d.phase /\ a.left = d.left /\ a.owner = d.owner
  BY <1>1, AwakeFields
<1> HIDE DEF a
<1>3. SendOK(a, q \ {f})
  BY <1>2 DEF SendOK
<1> QED
  BY <1>3 DEF a

\* What a send keeps of its fields when others change.
LEMMA SameSend ==
  ASSUME NEW d, NEW q, SendOK(d, q), NEW a, HasFields(a),
         a.silent = d.silent, a.ev = d.ev, a.todo = d.todo, a.phase = d.phase,
         a.left \subseteq d.left, a.owner = d.owner
  PROVE  SendOK(a, q)
BY DEF SendOK

\* RegisterEvent and RegisterAllEvents wake the frame in all sends.
LEMMA AwakeAll ==
  ASSUME NEW f, StackOK(stack, quiet), stack' = [i \in DOMAIN stack |-> Awake(stack[i], f)]
  PROVE  StackOK(stack', quiet \ {f})
<1>1. \A i \in 1 .. Len(stack) : SendOK(stack'[i], quiet \ {f})
  BY SeqIsFunction, AwakeOK DEF StackOK
<1>2. stack' = [i \in DOMAIN stack |-> stack'[i]]
  OBVIOUS
<1>3. IsSeq(stack)
  BY DEF StackOK
<1> QED
  BY <1>1, <1>2, <1>3, StackMap

\* RegisterEvent.
LEMMA RegisterEventStep ==
  ASSUME IInv, NEW f \in Frame, NEW ev \in Event, NEW tainted \in BOOLEAN,
         RegisterEvent(f, ev, tainted)
  PROVE  IInv'
<1>1. ev \in ScriptEvent /\ UNCHANGED <<allregs, frames>>
  BY DEF RegisterEvent
<1>2. CASE UNCHANGED <<regs, stack, quiet>>
  BY <1>1, <1>2 DEF IInv, RegistryOK, Unregistered
<1>3. CASE /\ regs' = [regs EXCEPT ![ev] = Insert(regs[ev], f)]
           /\ stack' = [i \in DOMAIN stack |-> Awake(stack[i], f)]
           /\ quiet' = quiet \ {f}
  <2>1. HListOK(Insert(regs[ev], f), Frame)
        /\ \A x : Has(Insert(regs[ev], f), x) <=> Has(regs[ev], x) \/ x = f
    BY <1>1, InsertFrame DEF IInv, RegistryOK
  <2>2. RegistryOK'
    BY <1>1, <1>3, <2>1 DEF IInv, RegistryOK
  <2>3. \A g \in quiet' : Unregistered(g)'
    BY <1>1, <1>3, <2>1 DEF IInv, RegistryOK, Unregistered
  <2>4. StackOK(stack', quiet')
    BY <1>3, AwakeAll DEF IInv
  <2> QED
    BY <2>2, <2>3, <2>4 DEF IInv
<1> QED
  BY <1>2, <1>3 DEF RegisterEvent, Wakes

\* RegisterAllEvents.
LEMMA RegisterAllEventsStep ==
  ASSUME IInv, NEW f \in Frame, RegisterAllEvents(f)
  PROVE  IInv'
<1>1. /\ allregs' = Insert(allregs, f) /\ UNCHANGED <<regs, frames>>
      /\ stack' = [i \in DOMAIN stack |-> Awake(stack[i], f)]
      /\ quiet' = quiet \ {f}
  BY DEF RegisterAllEvents, Wakes
<1>2. HListOK(Insert(allregs, f), Frame)
      /\ \A x : Has(Insert(allregs, f), x) <=> Has(allregs, x) \/ x = f
  BY InsertFrame DEF IInv, RegistryOK
<1>3. RegistryOK'
  BY <1>1, <1>2 DEF IInv, RegistryOK
<1>4. \A g \in quiet' : Unregistered(g)'
  BY <1>1, <1>2 DEF IInv, RegistryOK, Unregistered
<1>5. StackOK(stack', quiet')
  BY <1>1, AwakeAll DEF IInv
<1> QED
  BY <1>3, <1>4, <1>5 DEF IInv

\* A walk over `frames' that a new key has disturbed comes to some keys; none
\* of them is quiet.
LEMMA RegisterEventCallbackStep ==
  ASSUME IInv, NEW f \in Frame, NEW ev \in Event, NEW cb \in Callback, NEW tainted \in BOOLEAN,
         RegisterEventCallback(f, ev, cb, tainted)
  PROVE  IInv'
<1> DEFINE keys == DOMAIN frames[ev] \cup {f}
           old == IF f \notin DOMAIN frames[ev] THEN EmptyHList ELSE frames[ev][f]
<1>1. /\ ev \in CallbackEvent /\ UNCHANGED <<regs, allregs>> /\ quiet' = quiet \ {f}
      /\ frames' = [frames EXCEPT ![ev] =
                      [g \in keys |-> IF g = f THEN Insert(old, cb) ELSE frames[ev][g]]]
  BY DEF RegisterEventCallback, Wakes
<1>2. \/ \E rest \in [DOMAIN stack -> SUBSET keys] :
           stack' = [i \in DOMAIN stack |-> Awake(Grown(stack[i], ev, keys, rest[i]), f)]
      \/ stack' = [i \in DOMAIN stack |-> Awake(stack[i], f)]
  BY DEF RegisterEventCallback
<1>3. RegistryOK'
  BY <1>1 DEF IInv, RegistryOK
<1>4. \A g \in quiet' : Unregistered(g)'
  BY <1>1 DEF IInv, RegistryOK, Unregistered
<1>5. keys \cap (quiet \ {f}) = {}
  BY <1>1 DEF IInv, Unregistered
<1> HIDE DEF keys
<1>6. StackOK(stack', quiet')
  <2>1. CASE stack' = [i \in DOMAIN stack |-> Awake(stack[i], f)]
    BY <1>1, <2>1, AwakeAll DEF IInv
  <2>2. ASSUME NEW rest \in [DOMAIN stack -> SUBSET keys],
               stack' = [i \in DOMAIN stack |-> Awake(Grown(stack[i], ev, keys, rest[i]), f)]
        PROVE  StackOK(stack', quiet')
    <3>1. ASSUME NEW i \in 1 .. Len(stack) PROVE SendOK(stack'[i], quiet')
      <4> DEFINE d == stack[i]
                 b == Awake(d, f)
                 a == Awake(Grown(d, ev, keys, rest[i]), f)
      <4>1. i \in DOMAIN stack /\ SendOK(d, quiet) /\ stack'[i] = a /\ rest[i] \subseteq keys
        BY <2>2, SeqIsFunction DEF IInv, StackOK
      <4>2. SendOK(b, quiet')
        BY <1>1, <4>1, AwakeOK
      <4>3. CASE d.ev = ev /\ WalkingFrames(d)
        <5>1. HasFields(d)
          BY <4>1 DEF SendOK
        <5> DEFINE g == Grown(d, ev, keys, rest[i])
        <5>5. g = [d EXCEPT !.left = rest[i], !.lost = d.owner \notin keys]
          BY <4>3 DEF Grown
        <5>6. /\ HasFields(g) /\ g.silent = d.silent /\ g.ev = d.ev /\ g.todo = d.todo
              /\ g.phase = d.phase /\ g.left = rest[i] /\ g.owner = d.owner
          BY <5>1, <5>5 DEF HasFields
        <5> HIDE DEF g
        <5>7. /\ HasFields(Awake(g, f)) /\ Awake(g, f).silent = g.silent \ {f}
              /\ Awake(g, f).ev = g.ev /\ Awake(g, f).todo = g.todo
              /\ Awake(g, f).phase = g.phase /\ Awake(g, f).left = g.left
              /\ Awake(g, f).owner = g.owner
          BY <5>6, AwakeFields
        <5>8. /\ b.silent = d.silent \ {f} /\ b.ev = d.ev /\ b.todo = d.todo
              /\ b.phase = d.phase /\ b.owner = d.owner
          BY <5>1, AwakeFields
        <5>2. /\ HasFields(a) /\ a.silent = b.silent /\ a.ev = b.ev /\ a.todo = b.todo
              /\ a.phase = b.phase /\ a.left = rest[i] /\ a.owner = b.owner
          BY <5>6, <5>7, <5>8 DEF g
        <5>3. a.left \cap a.silent = {}
          BY <1>1, <1>5, <4>1, <4>2, <5>2 DEF SendOK
        <5> HIDE DEF a, b
        <5>4. SendOK(a, quiet')
          BY <4>2, <5>2, <5>3 DEF SendOK
        <5> QED
          BY <4>1, <5>4
      <4>4. CASE ~(d.ev = ev /\ WalkingFrames(d))
        BY <4>1, <4>2, <4>4 DEF Grown
      <4> QED
        BY <4>3, <4>4
    <3>2. stack' = [i \in DOMAIN stack |-> stack'[i]]
      BY <2>2
    <3> QED
      BY <3>1, <3>2, StackMap DEF IInv, StackOK
  <2> QED
    BY <1>2, <2>1, <2>2
<1> QED
  BY <1>3, <1>4, <1>6 DEF IInv

\* The registry after an unregistration knows fewer frames than before.
LEMMA RemoveFromRegistry ==
  ASSUME RegistryOK, NEW f \in Frame, NEW evs,
         regs' = [e \in ScriptEvent |-> IF e \in evs THEN Remove(regs[e], f) ELSE regs[e]],
         frames' = [e \in CallbackEvent |->
                      IF e \in evs THEN Restrict(frames[e], DOMAIN frames[e] \ {f})
                      ELSE frames[e]],
         allregs' \in {allregs, Remove(allregs, f)}
  PROVE  /\ RegistryOK'
         /\ \A g : Unregistered(g) => Unregistered(g)'
         /\ \A e \in ScriptEvent \cap evs : ~Has(regs'[e], f)
         /\ \A e \in CallbackEvent \cap evs : f \notin DOMAIN frames'[e]
<1>1. \A e \in ScriptEvent :
        /\ HListOK(Remove(regs[e], f), Frame)
        /\ \A x : Has(Remove(regs[e], f), x) <=> Has(regs[e], x) /\ x # f
  BY RemoveFrame DEF RegistryOK
<1>2. /\ HListOK(allregs', Frame)
      /\ \A x : Has(allregs', x) => Has(allregs, x)
  BY RemoveFrame DEF RegistryOK
<1>3. \A e \in CallbackEvent :
        DOMAIN frames'[e] = IF e \in evs THEN DOMAIN frames[e] \ {f} ELSE DOMAIN frames[e]
  BY DEF Restrict
<1>4. RegistryOK'
  BY <1>1, <1>2 DEF RegistryOK
<1>5. \A g : Unregistered(g) => Unregistered(g)'
  BY <1>1, <1>2, <1>3 DEF Unregistered
<1> QED
  BY <1>1, <1>3, <1>4, <1>5

\* A loop that has its list detached from the registry goes on over no more
\* frames than before.
LEMMA DetachedOK ==
  ASSUME NEW d, NEW q, SendOK(d, q), NEW f, NEW evs
  PROVE  SendOK(Detached(d, f, evs), q)
<1> DEFINE a == Detached(d, f, evs)
           on == d.ev \in evs /\ WalkingFrames(d) /\ f \in DOMAIN frames[d.ev]
<1>1. CASE ~on
  BY <1>1 DEF Detached
<1>2. CASE on
  <2>1. HasFields(d)
    BY DEF SendOK
  <2> DEFINE h == IF d.owner = f /\ ~d.detached THEN frames[d.ev][f] ELSE d.held
  <2>2. a = [d EXCEPT !.left = d.left \ {f}, !.detached = d.detached \/ d.owner = f, !.held = h]
    BY <1>2 DEF Detached
  <2> HIDE DEF a, h, on
  <2>3. /\ HasFields(a) /\ a.silent = d.silent /\ a.ev = d.ev /\ a.todo = d.todo
        /\ a.phase = d.phase /\ a.left = d.left \ {f} /\ a.owner = d.owner
    BY <2>1, <2>2 DEF HasFields
  <2>4. SendOK(a, q)
    BY <2>3, SameSend
  <2> QED
    BY <2>4 DEF a
<1> QED
  BY <1>1, <1>2

\* A frame leaves registries while sends walk them.
LEMMA DetachedAll ==
  ASSUME NEW f, NEW evs, StackOK(stack, quiet),
         stack' = [i \in DOMAIN stack |-> Detached(stack[i], f, evs)]
  PROVE  StackOK(stack', quiet)
<1>1. \A i \in 1 .. Len(stack) : SendOK(stack'[i], quiet)
  BY SeqIsFunction, DetachedOK DEF StackOK
<1>2. stack' = [i \in DOMAIN stack |-> stack'[i]]
  OBVIOUS
<1>3. IsSeq(stack)
  BY DEF StackOK
<1> QED
  BY <1>1, <1>2, <1>3, StackMap

\* UnregisterEvent.
LEMMA UnregisterEventStep ==
  ASSUME IInv, NEW f \in Frame, NEW ev \in Event, UnregisterEvent(f, ev)
  PROVE  IInv'
<1> DEFINE evs == {ev}
<1>1. /\ regs' = [e \in ScriptEvent |-> IF e \in evs THEN Remove(regs[e], f) ELSE regs[e]]
      /\ frames' = [e \in CallbackEvent |->
                      IF e \in evs THEN Restrict(frames[e], DOMAIN frames[e] \ {f})
                      ELSE frames[e]]
      /\ stack' = [i \in DOMAIN stack |-> Detached(stack[i], f, {ev})]
      /\ allregs' = allregs /\ quiet' = quiet
  BY DEF UnregisterEvent
<1>2. RegistryOK' /\ \A g : Unregistered(g) => Unregistered(g)'
  <2> HIDE DEF evs
  <2> QED
    BY <1>1, RemoveFromRegistry DEF IInv
<1>3. StackOK(stack', quiet')
  BY <1>1, DetachedAll DEF IInv
<1> QED
  BY <1>1, <1>2, <1>3 DEF IInv

\* UnregisterAllEvents.
LEMMA UnregisterAllEventsStep ==
  ASSUME IInv, NEW f \in Frame, UnregisterAllEvents(f)
  PROVE  IInv'
<1> DEFINE evs == Event
<1>1. /\ regs' = [e \in ScriptEvent |-> IF e \in evs THEN Remove(regs[e], f) ELSE regs[e]]
      /\ frames' = [e \in CallbackEvent |->
                      IF e \in evs THEN Restrict(frames[e], DOMAIN frames[e] \ {f})
                      ELSE frames[e]]
      /\ stack' = [i \in DOMAIN stack |-> Detached(stack[i], f, CallbackEvent)]
      /\ allregs' = Remove(allregs, f) /\ quiet' = quiet \cup {f}
  BY DEF UnregisterAllEvents, Event
<1>2. ScriptEvent \subseteq evs /\ CallbackEvent \subseteq evs
  BY DEF Event
<1> HIDE DEF evs
<1>3. /\ RegistryOK' /\ \A g : Unregistered(g) => Unregistered(g)'
      /\ \A e \in ScriptEvent \cap evs : ~Has(regs'[e], f)
      /\ \A e \in CallbackEvent \cap evs : f \notin DOMAIN frames'[e]
  BY <1>1, RemoveFromRegistry DEF IInv
<1>4. ~Has(allregs', f)
  BY <1>1, RemoveFrame DEF IInv, RegistryOK
<1>5. \A g \in quiet' : Unregistered(g)'
  <2>1. Unregistered(f)'
    BY <1>2, <1>3, <1>4 DEF Unregistered
  <2> QED
    BY <1>1, <1>3, <2>1 DEF IInv
<1>6. StackOK(stack', quiet')
  <2>1. StackOK(stack', quiet)
    BY <1>1, DetachedAll DEF IInv
  <2> QED
    BY <1>1, <2>1, StackQuieter
<1> QED
  BY <1>3, <1>5, <1>6 DEF IInv

\* What touches neither the registries of frames nor the quiet ones.
LEMMA SameRegistry ==
  ASSUME IInv, UNCHANGED <<regs, allregs, frames, quiet>>, StackOK(stack', quiet)
  PROVE  IInv'
<1>1. RegistryOK' /\ \A f : Unregistered(f)' <=> Unregistered(f)
  BY DEF IInv, RegistryOK, Unregistered
<1> QED
  BY <1>1 DEF IInv

\* A callback of no frame is unregistered.
LEMMA UnregisterEventCallbackGlobalStep ==
  ASSUME IInv, NEW ev \in Event, NEW cb \in Callback, NEW tainted \in BOOLEAN,
         UnregisterEventCallbackGlobal(ev, cb, tainted)
  PROVE  IInv'
<1> DEFINE cut(d) == d.ev = ev /\ d.phase = "global" /\ Has(global[ev], cb)
           a(d) == [d EXCEPT !.cut = TRUE, !.got = <<>>]
<1>1. /\ stack' = [i \in DOMAIN stack |-> IF cut(stack[i]) THEN a(stack[i]) ELSE stack[i]]
      /\ UNCHANGED <<regs, allregs, frames, quiet>>
  BY DEF UnregisterEventCallbackGlobal
<1>2. ASSUME NEW d, SendOK(d, quiet) PROVE SendOK(a(d), quiet)
  <2> DEFINE b == a(d)
  <2>1. HasFields(d)
    BY <1>2 DEF SendOK
  <2>4. b = [d EXCEPT !.cut = TRUE, !.got = <<>>]
    OBVIOUS
  <2> HIDE DEF b, a, cut
  <2>2. /\ HasFields(b) /\ b.silent = d.silent /\ b.ev = d.ev /\ b.todo = d.todo
        /\ b.phase = d.phase /\ b.left = d.left /\ b.owner = d.owner
    BY <2>1, <2>4 DEF HasFields
  <2>3. SendOK(b, quiet)
    BY <1>2, <2>2, SameSend
  <2> QED
    BY <2>3 DEF b
<1> HIDE DEF a, cut
<1>3. IsSeq(stack) /\ \A i \in 1 .. Len(stack) : SendOK(stack[i], quiet)
  BY DEF IInv, StackOK
<1>4. \A i \in 1 .. Len(stack) : SendOK(stack'[i], quiet)
  BY <1>1, <1>2, <1>3, SeqIsFunction
<1>5. stack' = [i \in DOMAIN stack |-> stack'[i]]
  BY <1>1
<1>6. StackOK(stack', quiet)
  BY <1>3, <1>4, <1>5, StackMap
<1> QED
  BY <1>1, <1>6, SameRegistry

\* A new send: its snapshot is of registered frames, hence of none that is
\* quiet.
LEMMA SendEventStep ==
  ASSUME IInv, NEW ev \in Event, SendEvent(ev)
  PROVE  IInv'
<1> DEFINE d == NewSend(ev)
<1>1. stack' = Append(stack, d) /\ UNCHANGED <<regs, allregs, frames, quiet>>
  BY DEF SendEvent, registry
<1>2. /\ HasFields(d) /\ d.silent = quiet /\ d.ev = ev /\ d.phase = "frames"
      /\ d.todo = GetFramesRegisteredForEvent(ev)
  BY DEF NewSend, HasFields
<1> HIDE DEF d
<1>3. /\ d.todo \in Seq(Frame)
      /\ \A k \in 1 .. Len(d.todo) :
           Has(allregs, d.todo[k]) \/ (ev \in ScriptEvent /\ Has(regs[ev], d.todo[k]))
  BY <1>2, SnapshotRegistered DEF IInv
<1>4. \A k \in 1 .. Len(d.todo) : d.todo[k] \notin quiet
  BY <1>3 DEF IInv, Unregistered
<1>5. SendOK(d, quiet)
  BY <1>2, <1>3, <1>4 DEF SendOK
<1>6. StackOK(stack', quiet)
  BY <1>1, <1>5, StackAppend DEF IInv
<1> QED
  BY <1>1, <1>6, SameRegistry

-----------------------------------------------------------------------------
(* The steps of a send *)

\* The innermost send is as it should be.
LEMMA TopOK ==
  ASSUME IInv, stack # <<>>
  PROVE  SendOK(Top, quiet) /\ HasFields(Top)
<1>1. SendOK(Top, quiet)
  BY SeqIsFunction DEF IInv, StackOK, Top
<1> QED
  BY <1>1 DEF SendOK

\* The innermost send goes on.
LEMMA TopStep ==
  ASSUME IInv, UNCHANGED <<regs, allregs, frames, quiet>>, stack # <<>>,
         NEW a, stack' = SetTop(a), SendOK(a, quiet)
  PROVE  IInv'
<1>1. StackOK(stack', quiet)
  BY StackSetTop DEF IInv, SetTop
<1> QED
  BY <1>1, SameRegistry

\* The innermost send ends.
LEMMA PopStep ==
  ASSUME IInv, UNCHANGED <<regs, allregs, frames, quiet>>, stack # <<>>, stack' = Pop
  PROVE  IInv'
<1>1. StackOK(stack', quiet)
  BY StackPop DEF IInv, Pop
<1> QED
  BY <1>1, SameRegistry

\* A script of a frame runs.
LEMMA RunScriptStep ==
  ASSUME IInv, RunScript, UNCHANGED <<regs, allregs, frames, quiet>>
  PROVE  IInv'
<1> DEFINE d == Top
<1>1. stack # <<>> /\ SendOK(d, quiet) /\ HasFields(d) /\ d.phase = "frames" /\ d.todo # <<>>
  BY TopOK DEF RunScript, Ready
<1> HIDE DEF d
<1>2. PICK a : /\ stack' = SetTop(a)
               /\ a = [d EXCEPT !.todo = Tail(@), !.running = TRUE,
                                !.runs[Head(d.todo)] = @ + 1]
  BY DEF RunScript, d
<1>3. /\ HasFields(a) /\ a.silent = d.silent /\ a.ev = d.ev /\ a.todo = Tail(d.todo)
      /\ a.phase = d.phase /\ a.left = d.left /\ a.owner = d.owner
  BY <1>1, <1>2 DEF HasFields
<1>4. /\ Tail(d.todo) \in Seq(Frame) /\ Len(Tail(d.todo)) = Len(d.todo) - 1
      /\ \A k \in 1 .. Len(d.todo) - 1 : Tail(d.todo)[k] = d.todo[k + 1]
  BY <1>1, HeadTailProperties DEF SendOK
<1>5. \A k \in 1 .. Len(a.todo) : a.todo[k] \notin a.silent
  BY <1>1, <1>3, <1>4, LenProperties DEF SendOK
<1>6. SendOK(a, quiet)
  BY <1>1, <1>3, <1>4, <1>5 DEF SendOK
<1> QED
  BY <1>1, <1>2, <1>6, TopStep

\* The frames are through.
LEMMA FramesDoneStep ==
  ASSUME IInv, FramesDone, UNCHANGED <<regs, allregs, frames, quiet>>
  PROVE  IInv'
<1> DEFINE d == Top
<1>1. stack # <<>> /\ SendOK(d, quiet) /\ HasFields(d)
  BY TopOK DEF FramesDone, Ready
<1>2. CASE d.ev \notin CallbackEvent
  BY <1>1, <1>2, PopStep DEF FramesDone
<1>3. CASE d.ev \in CallbackEvent
  <2> HIDE DEF d
  <2>1. PICK a : /\ stack' = SetTop(a)
                 /\ a = [d EXCEPT !.phase = "global", !.first = TRUE,
                                  !.start = Members(global[d.ev])]
    BY <1>3 DEF FramesDone, d
  <2>2. /\ HasFields(a) /\ a.silent = d.silent /\ a.ev = d.ev /\ a.todo = d.todo
        /\ a.phase = "global"
    BY <1>1, <2>1 DEF HasFields
  <2>3. SendOK(a, quiet)
    BY <1>1, <1>3, <2>2 DEF SendOK
  <2> QED
    BY <1>1, <2>1, <2>3, TopStep
<1> QED
  BY <1>2, <1>3

\* The next callback of its own runs.
LEMMA GlobalNextStep ==
  ASSUME IInv, GlobalNext, UNCHANGED <<regs, allregs, frames, quiet>>
  PROVE  IInv'
<1> DEFINE d == Top
<1>1. stack # <<>> /\ SendOK(d, quiet) /\ HasFields(d)
  BY TopOK DEF GlobalNext, Ready
<1> HIDE DEF d
<1>2. PICK a : /\ stack' = SetTop(a)
               /\ \E cb, on, got : a = [d EXCEPT !.first = FALSE, !.cur = cb, !.running = on,
                                               !.got = got]
  BY DEF GlobalNext, d
<1>3. /\ HasFields(a) /\ a.silent = d.silent /\ a.ev = d.ev /\ a.todo = d.todo
      /\ a.phase = d.phase /\ a.left = d.left /\ a.owner = d.owner
  BY <1>1, <1>2 DEF HasFields
<1>4. SendOK(a, quiet)
  BY <1>1, <1>3, SameSend
<1> QED
  BY <1>1, <1>2, <1>4, TopStep

\* The walk over the frames begins: none that has a callback is quiet.
LEMMA GlobalDoneStep ==
  ASSUME IInv, GlobalDone, UNCHANGED <<regs, allregs, frames, quiet>>
  PROVE  IInv'
<1> DEFINE d == Top
<1>1. stack # <<>> /\ SendOK(d, quiet) /\ HasFields(d) /\ d.phase = "global"
  BY TopOK DEF GlobalDone, Ready
<1> HIDE DEF d
<1>2. PICK a : /\ stack' = SetTop(a)
               /\ a = [d EXCEPT !.phase = "owners", !.left = DOMAIN frames[d.ev]]
  BY DEF GlobalDone, d
<1>3. /\ HasFields(a) /\ a.silent = d.silent /\ a.ev = d.ev /\ a.todo = d.todo
      /\ a.phase = "owners" /\ a.left = DOMAIN frames[d.ev]
  BY <1>1, <1>2 DEF HasFields
<1>4. d.ev \in CallbackEvent /\ d.silent \subseteq quiet
  BY <1>1 DEF SendOK
<1>5. a.left \cap a.silent = {}
  BY <1>3, <1>4 DEF IInv, Unregistered
<1>6. SendOK(a, quiet)
  BY <1>1, <1>3, <1>5 DEF SendOK
<1> QED
  BY <1>1, <1>2, <1>6, TopStep

\* An owner of callbacks is picked.
LEMMA PickOwnerStep ==
  ASSUME IInv, PickOwner, UNCHANGED <<regs, allregs, frames, quiet>>
  PROVE  IInv'
<1> DEFINE d == Top
<1>1. stack # <<>> /\ SendOK(d, quiet) /\ HasFields(d) /\ d.phase = "owners"
  BY TopOK DEF PickOwner, Ready
<1> HIDE DEF d
<1>2. PICK f, a :
        /\ f \in d.left /\ stack' = SetTop(a)
        /\ a = [d EXCEPT !.phase = "list", !.owner = f, !.left = d.left \ {f},
                         !.first = TRUE, !.detached = FALSE]
  BY DEF PickOwner, d
<1>3. /\ HasFields(a) /\ a.silent = d.silent /\ a.ev = d.ev /\ a.todo = d.todo
      /\ a.phase = "list" /\ a.left = d.left \ {f} /\ a.owner = f
  BY <1>1, <1>2 DEF HasFields
<1>4. d.left \cap d.silent = {} /\ d.ev \in CallbackEvent
  BY <1>1 DEF SendOK
<1>5. SendOK(a, quiet)
  BY <1>1, <1>2, <1>3, <1>4 DEF SendOK
<1> QED
  BY <1>1, <1>2, <1>5, TopStep

\* The next callback of an owner runs.
LEMMA OwnerNextStep ==
  ASSUME IInv, OwnerNext, UNCHANGED <<regs, allregs, frames, quiet>>
  PROVE  IInv'
<1> DEFINE d == Top
<1>1. stack # <<>> /\ SendOK(d, quiet) /\ HasFields(d)
  BY TopOK DEF OwnerNext, Ready
<1> HIDE DEF d
<1>2. PICK a : /\ stack' = SetTop(a)
               /\ \E cb, on : a = [d EXCEPT !.first = FALSE, !.cur = cb, !.running = on]
  BY DEF OwnerNext, d
<1>3. /\ HasFields(a) /\ a.silent = d.silent /\ a.ev = d.ev /\ a.todo = d.todo
      /\ a.phase = d.phase /\ a.left = d.left /\ a.owner = d.owner
  BY <1>1, <1>2 DEF HasFields
<1>4. SendOK(a, quiet)
  BY <1>1, <1>3, SameSend
<1> QED
  BY <1>1, <1>2, <1>4, TopStep

\* The callbacks of an owner are through.
LEMMA OwnerDoneStep ==
  ASSUME IInv, OwnerDone, UNCHANGED <<regs, allregs, frames, quiet>>
  PROVE  IInv'
<1> DEFINE d == Top
<1>1. stack # <<>> /\ SendOK(d, quiet) /\ HasFields(d) /\ d.phase = "list"
  BY TopOK DEF OwnerDone, Ready
<1> HIDE DEF d
<1>2. PICK a : /\ stack' = SetTop(a)
               /\ a = [d EXCEPT !.phase = "owners", !.held = EmptyHList,
                                !.detached = FALSE, !.lost = FALSE]
  BY DEF OwnerDone, d
<1>3. /\ HasFields(a) /\ a.silent = d.silent /\ a.ev = d.ev /\ a.todo = d.todo
      /\ a.phase = "owners" /\ a.left = d.left
  BY <1>1, <1>2 DEF HasFields
<1>4. SendOK(a, quiet)
  BY <1>1, <1>3 DEF SendOK
<1> QED
  BY <1>1, <1>2, <1>4, TopStep

\* A script or callback returns.
LEMMA HandlerReturnsStep ==
  ASSUME IInv, HandlerReturns, UNCHANGED <<regs, allregs, frames, quiet>>
  PROVE  IInv'
<1> DEFINE d == Top
<1>1. stack # <<>> /\ SendOK(d, quiet) /\ HasFields(d)
  BY TopOK DEF HandlerReturns
<1> HIDE DEF d
<1>2. PICK a : /\ stack' = SetTop(a)
               /\ a = [d EXCEPT !.running = FALSE]
  BY DEF HandlerReturns, d
<1>3. /\ HasFields(a) /\ a.silent = d.silent /\ a.ev = d.ev /\ a.todo = d.todo
      /\ a.phase = d.phase /\ a.left = d.left /\ a.owner = d.owner
  BY <1>1, <1>2 DEF HasFields
<1>4. SendOK(a, quiet)
  BY <1>1, <1>3, SameSend
<1> QED
  BY <1>1, <1>2, <1>4, TopStep

\* A step of DoSendEvent.
LEMMA DoSendEventStep ==
  ASSUME IInv, DoSendEvent
  PROVE  IInv'
<1>1. UNCHANGED <<regs, allregs, frames, quiet>>
  BY DEF DoSendEvent, registry
<1>2. CASE RunScript
  BY <1>1, <1>2, RunScriptStep
<1>3. CASE FramesDone
  BY <1>1, <1>3, FramesDoneStep
<1>4. CASE GlobalNext
  BY <1>1, <1>4, GlobalNextStep
<1>5. CASE GlobalDone
  BY <1>1, <1>5, GlobalDoneStep
<1>6. CASE PickOwner
  BY <1>1, <1>6, PickOwnerStep
<1>7. CASE OwnerNext
  BY <1>1, <1>7, OwnerNextStep
<1>8. CASE OwnerDone
  BY <1>1, <1>8, OwnerDoneStep
<1>9. CASE WalkFails \/ SendDone
  BY <1>1, <1>9, PopStep DEF WalkFails, SendDone, Ready
<1>10. CASE HandlerReturns
  BY <1>1, <1>10, HandlerReturnsStep
<1> QED
  BY <1>2, <1>3, <1>4, <1>5, <1>6, <1>7, <1>8, <1>9, <1>10 DEF DoSendEvent

\* An operation between two steps of a send.
LEMMA OperationStep ==
  ASSUME IInv, Operation
  PROVE  IInv'
<1>1. CASE \E f \in Frame : RegisterAllEvents(f) \/ UnregisterAllEvents(f)
  BY <1>1, RegisterAllEventsStep, UnregisterAllEventsStep
<1>2. CASE \E f \in Frame, ev \in Event : UnregisterEvent(f, ev)
  BY <1>2, UnregisterEventStep
<1>3. CASE \E f \in Frame, ev \in Event, tainted \in BOOLEAN : RegisterEvent(f, ev, tainted)
  BY <1>3, RegisterEventStep
<1>4. CASE \E f \in Frame, ev \in Event, cb \in Callback, tainted \in BOOLEAN :
             RegisterEventCallback(f, ev, cb, tainted)
  BY <1>4, RegisterEventCallbackStep
<1>5. CASE \E ev \in Event, cb \in Callback, tainted \in BOOLEAN :
             RegisterEventCallbackGlobal(ev, cb, tainted)
  <2>1. UNCHANGED <<regs, allregs, frames, quiet, stack>>
    BY <1>5 DEF RegisterEventCallbackGlobal
  <2> QED
    BY <2>1, SameRegistry DEF IInv
<1>6. CASE \E ev \in Event, cb \in Callback, tainted \in BOOLEAN :
             UnregisterEventCallbackGlobal(ev, cb, tainted)
  BY <1>6, UnregisterEventCallbackGlobalStep
<1>7. CASE \E cb \in Callback : Cancel(cb)
  <2>1. UNCHANGED <<regs, allregs, frames, quiet, stack>>
    BY <1>7 DEF Cancel, registry
  <2> QED
    BY <2>1, SameRegistry DEF IInv
<1>8. CASE \E ev \in Event : SendEvent(ev)
  BY <1>8, SendEventStep
<1> QED
  BY <1>1, <1>2, <1>3, <1>4, <1>5, <1>6, <1>7, <1>8 DEF Operation

-----------------------------------------------------------------------------
(* The theorems *)

\* The invariant the proof is by.
LEMMA IInvAlways == Spec => []IInv
<1>1. Init => IInv
  <2> SUFFICES ASSUME Init PROVE IInv
    OBVIOUS
  <2>1. HListOK(EmptyHList, Frame)
    BY EmptySeq DEF HListOK, EmptyHList
  <2>2. RegistryOK
    BY <2>1 DEF Init, RegistryOK
  <2>3. stack = <<>> /\ quiet = {}
    BY DEF Init
  <2>4. stack = [i \in 1 .. 0 |-> stack[i]]
    BY <2>3
  <2>5. IsSeq(stack) /\ Len(stack) = 0
    BY <2>4, FunctionIsSeq
  <2> QED
    BY <2>2, <2>3, <2>5 DEF IInv, StackOK
<1>2. IInv /\ [Next]_vars => IInv'
  <2> SUFFICES ASSUME IInv, [Next]_vars PROVE IInv'
    OBVIOUS
  <2>1. CASE UNCHANGED vars
    BY <2>1, SameRegistry DEF vars, IInv
  <2>2. CASE Next
    BY <2>2, OperationStep, DoSendEventStep DEF Next
  <2> QED
    BY <2>1, <2>2
<1> QED
  BY <1>1, <1>2, PTL DEF Spec

\* QuietFrames for every set of frames, callbacks and events and every depth
\* of nested sends: a frame that unregistered from everything is in none of
\* the four tables, and no send that begins after that runs anything of it,
\* whatever handlers register and unregister while sends are under way
\* (events.lua, UnregisterAllEvents and DoSendEvent).
THEOREM QuietFramesHearNothing == Spec => []QuietFrames
<1>1. IInv => QuietFrames
  <2> SUFFICES ASSUME IInv PROVE QuietFrames
    OBVIOUS
  <2>1. ASSUME NEW i \in DOMAIN stack
        PROVE  /\ \A k \in DOMAIN stack[i].todo : stack[i].todo[k] \notin stack[i].silent
               /\ stack[i].phase = "list" => stack[i].owner \notin stack[i].silent
    <3>1. SendOK(stack[i], quiet)
      BY SeqIsFunction DEF IInv, StackOK
    <3>2. DOMAIN stack[i].todo = 1 .. Len(stack[i].todo)
      BY <3>1, LenProperties DEF SendOK
    <3> QED
      BY <3>1, <3>2 DEF SendOK
  <2> QED
    BY <2>1 DEF IInv, Unregistered, QuietFrames
<1> QED
  BY <1>1, IInvAlways, PTL
-----------------------------------------------------------------------------
(* What was promised is delivered *)

\* 1 if f is in the part of s from a to b.
Owed(s, a, b, f) == IF \E k \in a .. b : s[k] = f THEN 1 ELSE 0

\* The snapshot is of two lists without doubles, the frames of the event up to
\* m and those of all events after it; what is left of it is what is due and
\* did not run.
CountsOK(d) ==
  /\ d.runs \in [Frame -> Nat] /\ d.due \in [Frame -> Nat]
  /\ d.phase # "frames" => d.runs = d.due
  /\ d.phase = "frames" =>
       \E m \in 0 .. Len(d.todo) :
         /\ \A j, k \in 1 .. Len(d.todo) :
              j < k /\ (k <= m \/ j > m) => d.todo[j] # d.todo[k]
         /\ \A f \in Frame :
              d.due[f] = d.runs[f] + Owed(d.todo, 1, m, f)
                           + Owed(d.todo, m + 1, Len(d.todo), f)

\* The loop over the global callbacks h has come to the entries up to the one
\* it is at, as long as none was taken out; when it is done it has come to all.
ReachOK(d, h) ==
  /\ d.got \in Seq(Callback) /\ d.first \in BOOLEAN /\ d.cut \in BOOLEAN
  /\ d.phase = "frames" => d.got = <<>>
  /\ d.phase = "global" /\ ~d.cut =>
       /\ d.start \subseteq Members(h)
       /\ d.first => d.got = <<>>
       /\ ~d.first => /\ d.cur \in Members(h) /\ Len(d.got) = h.set[d.cur]
                      /\ \A k \in 1 .. Len(d.got) : d.got[k] = h.list[k]
  /\ d.phase \in {"owners", "list"} /\ ~d.cut =>
       /\ \A c \in d.start : \E k \in 1 .. Len(d.got) : d.got[k] = c
       /\ \A j, k \in 1 .. Len(d.got) : j < k => d.got[j] # d.got[k]

GlobalOK == DOMAIN global = CallbackEvent /\ \A e \in CallbackEvent : HListOK(global[e], Callback)

AllDelivered ==
  /\ GlobalOK
  /\ \A i \in 1 .. Len(stack) : CountsOK(stack[i]) /\ ReachOK(stack[i], global[stack[i].ev])

\* The fields both depend on.
Alike(a, d) ==
  /\ a.ev = d.ev /\ a.phase = d.phase /\ a.todo = d.todo /\ a.runs = d.runs /\ a.due = d.due
  /\ a.got = d.got /\ a.start = d.start /\ a.cut = d.cut /\ a.first = d.first /\ a.cur = d.cur

\* What a send has delivered depends on its walk only.
LEMMA AlikeDelivers ==
  ASSUME NEW d, NEW a, NEW h, CountsOK(d), ReachOK(d, h), Alike(a, d)
  PROVE  CountsOK(a) /\ ReachOK(a, h)
<1>1. CountsOK(a)
  BY DEF CountsOK, Alike
<1>2. ReachOK(a, h)
  BY DEF ReachOK, Alike
<1> QED
  BY <1>1, <1>2

\* What the operations change of a send leaves those fields alone.
LEMMA AwakeAlike ==
  ASSUME NEW d, HasFields(d), NEW f
  PROVE  HasFields(Awake(d, f)) /\ Alike(Awake(d, f), d)
<1> DEFINE a == Awake(d, f)
<1>1. a = [d EXCEPT !.silent = d.silent \ {f}]
  BY DEF Awake
<1> HIDE DEF a
<1>2. HasFields(a) /\ Alike(a, d)
  BY <1>1 DEF HasFields, Alike
<1> QED
  BY <1>2 DEF a

\* More to walk changes nothing of what was delivered.
LEMMA GrownAlike ==
  ASSUME NEW d, HasFields(d), NEW ev, NEW keys, NEW rest
  PROVE  HasFields(Grown(d, ev, keys, rest)) /\ Alike(Grown(d, ev, keys, rest), d)
<1> DEFINE a == Grown(d, ev, keys, rest)
<1>1. a = d \/ a = [d EXCEPT !.left = rest, !.lost = d.owner \notin keys]
  BY DEF Grown
<1> HIDE DEF a
<1>2. HasFields(a) /\ Alike(a, d)
  BY <1>1 DEF HasFields, Alike
<1> QED
  BY <1>2 DEF a

\* Less to walk changes nothing of what was delivered.
LEMMA DetachedAlike ==
  ASSUME NEW d, HasFields(d), NEW f, NEW evs
  PROVE  Alike(Detached(d, f, evs), d)
<1> DEFINE a == Detached(d, f, evs)
           h == IF d.owner = f /\ ~d.detached THEN frames[d.ev][f] ELSE d.held
<1>1. a = d \/ a = [d EXCEPT !.left = d.left \ {f}, !.detached = d.detached \/ d.owner = f,
                             !.held = h]
  BY DEF Detached
<1> HIDE DEF a, h
<1>2. Alike(a, d)
  BY <1>1 DEF HasFields, Alike
<1> QED
  BY <1>2 DEF a

\* An operation that changes nothing else delivers as before.
LEMMA DeliveryMap ==
  ASSUME IInv, AllDelivered, UNCHANGED global, stack' = [i \in DOMAIN stack |-> stack'[i]],
         \A i \in DOMAIN stack : HasFields(stack[i]) => Alike(stack'[i], stack[i])
  PROVE  AllDelivered'
<1>1. /\ IsSeq(stack) /\ DOMAIN stack = 1 .. Len(stack) /\ Len(stack) \in Nat
      /\ \A i \in 1 .. Len(stack) : HasFields(stack[i])
  BY SeqIsFunction DEF IInv, StackOK, SendOK
<1>2. Len(stack') = Len(stack)
  <2>1. stack' = [i \in 1 .. Len(stack) |-> stack'[i]]
    BY <1>1
  <2> QED
    BY <1>1, <2>1, FunctionIsSeq
<1>3. ASSUME NEW i \in 1 .. Len(stack)
      PROVE  CountsOK(stack'[i]) /\ ReachOK(stack'[i], global[stack'[i].ev])
  <2>1. /\ CountsOK(stack[i]) /\ ReachOK(stack[i], global[stack[i].ev])
        /\ Alike(stack'[i], stack[i])
    BY <1>1 DEF AllDelivered
  <2>2. stack'[i].ev = stack[i].ev
    BY <2>1 DEF Alike
  <2> QED
    BY <2>1, <2>2, AlikeDelivers
<1> QED
  BY <1>2, <1>3 DEF AllDelivered, GlobalOK

\* The operations on frames and their callbacks leave what was delivered alone.
LEMMA FrameOperationDelivers ==
  ASSUME IInv, AllDelivered, NEW f \in Frame,
         \/ \E ev \in Event, tainted \in BOOLEAN : RegisterEvent(f, ev, tainted)
         \/ RegisterAllEvents(f)
         \/ \E ev \in Event, cb \in Callback, tainted \in BOOLEAN :
              RegisterEventCallback(f, ev, cb, tainted)
         \/ \E ev \in Event : UnregisterEvent(f, ev)
         \/ UnregisterAllEvents(f)
  PROVE  AllDelivered'
<1>1. UNCHANGED global
  BY DEF RegisterEvent, RegisterAllEvents, RegisterEventCallback, UnregisterEvent,
         UnregisterAllEvents
<1>2. CASE stack' = stack
  BY <1>1, <1>2 DEF AllDelivered, GlobalOK
<1>3. CASE stack' = [i \in DOMAIN stack |-> Awake(stack[i], f)]
  BY <1>1, <1>3, AwakeAlike, DeliveryMap
<1>4. CASE \E evs : stack' = [i \in DOMAIN stack |-> Detached(stack[i], f, evs)]
  BY <1>1, <1>4, DetachedAlike, DeliveryMap
<1>5. CASE \E ev, keys, rest :
             stack' = [i \in DOMAIN stack |-> Awake(Grown(stack[i], ev, keys, rest[i]), f)]
  <2>1. PICK ev, keys, rest :
          stack' = [i \in DOMAIN stack |-> Awake(Grown(stack[i], ev, keys, rest[i]), f)]
    BY <1>5
  <2>2. ASSUME NEW i \in DOMAIN stack, HasFields(stack[i])
        PROVE  Alike(stack'[i], stack[i])
    <3> DEFINE g == Grown(stack[i], ev, keys, rest[i])
    <3>1. HasFields(g) /\ Alike(g, stack[i])
      BY <2>2, GrownAlike
    <3>2. Alike(Awake(g, f), g)
      BY <3>1, AwakeAlike
    <3>3. stack'[i] = Awake(g, f)
      BY <2>1
    <3> QED
      BY <3>1, <3>2, <3>3 DEF Alike
  <2> QED
    BY <1>1, <2>1, <2>2, DeliveryMap
<1>6. CASE \E ev \in Event, tainted \in BOOLEAN : RegisterEvent(f, ev, tainted)
  BY <1>2, <1>3, <1>6 DEF RegisterEvent
<1>7. CASE \E ev \in Event, cb \in Callback, tainted \in BOOLEAN :
             RegisterEventCallback(f, ev, cb, tainted)
  <2>1. PICK ev \in Event, cb \in Callback, tainted \in BOOLEAN :
          RegisterEventCallback(f, ev, cb, tainted)
    BY <1>7
  <2> DEFINE keys == DOMAIN frames[ev] \cup {f}
  <2>2. \/ \E rest \in [DOMAIN stack -> SUBSET keys] :
             stack' = [i \in DOMAIN stack |-> Awake(Grown(stack[i], ev, keys, rest[i]), f)]
        \/ stack' = [i \in DOMAIN stack |-> Awake(stack[i], f)]
    BY <2>1 DEF RegisterEventCallback
  <2> HIDE DEF keys
  <2> QED
    BY <1>3, <1>5, <2>2
<1>8. CASE RegisterAllEvents(f)
  BY <1>3, <1>8 DEF RegisterAllEvents
<1>9. CASE UnregisterAllEvents(f) \/ \E ev \in Event : UnregisterEvent(f, ev)
  BY <1>4, <1>9 DEF UnregisterEvent, UnregisterAllEvents
<1> QED
  BY <1>6, <1>7, <1>8, <1>9

\* A new global callback comes last in its list: a loop under way is where it was.
LEMMA RegisterGlobalDelivers ==
  ASSUME IInv, AllDelivered, NEW ev \in Event, NEW cb \in Callback, NEW tainted \in BOOLEAN,
         RegisterEventCallbackGlobal(ev, cb, tainted)
  PROVE  AllDelivered'
<1>1. /\ ev \in CallbackEvent /\ global' = [global EXCEPT ![ev] = Insert(global[ev], cb)]
      /\ stack' = stack
  BY DEF RegisterEventCallbackGlobal
<1>2. ASSUME NEW e \in CallbackEvent
      PROVE  /\ HListOK(global'[e], Callback) /\ Members(global[e]) \subseteq Members(global'[e])
             /\ \A x \in Members(global[e]) : global'[e].set[x] = global[e].set[x]
             /\ \A k \in 1 .. Len(global[e].list) : global'[e].list[k] = global[e].list[k]
  <2>1. HListOK(global[e], Callback)
    BY DEF AllDelivered, GlobalOK
  <2>2. CASE e = ev
    <3>1. global'[e] = Insert(global[e], cb)
      BY <1>1, <2>2 DEF AllDelivered, GlobalOK
    <3> QED
      BY <2>1, <3>1, InsertOK, InsertSlots
  <2>3. CASE e # ev
    BY <1>1, <2>1, <2>3 DEF AllDelivered, GlobalOK
  <2> QED
    BY <2>2, <2>3
<1>3. GlobalOK'
  BY <1>1, <1>2 DEF AllDelivered, GlobalOK
<1>4. ASSUME NEW i \in 1 .. Len(stack)
      PROVE  ReachOK(stack[i], global'[stack[i].ev])
  <2> DEFINE d == stack[i]
  <2>1. ReachOK(d, global[d.ev]) /\ SendOK(d, quiet)
    BY DEF AllDelivered, IInv, StackOK
  <2>2. CASE d.phase = "global" /\ ~d.cut
    <3>1. d.ev \in CallbackEvent
      BY <2>1, <2>2 DEF SendOK
    <3> DEFINE h == global[d.ev]
               g == global'[d.ev]
    <3>2. HListOK(h, Callback)
      BY <3>1 DEF AllDelivered, GlobalOK
    <3>3. ~d.first => \A k \in 1 .. Len(d.got) : k \in 1 .. Len(h.list)
      BY <2>1, <2>2, <3>2 DEF ReachOK, HListOK, Members
    <3>4. /\ Members(h) \subseteq Members(g) /\ \A x \in Members(h) : g.set[x] = h.set[x]
          /\ \A k \in 1 .. Len(h.list) : g.list[k] = h.list[k]
      BY <1>2, <3>1
    <3>5. ReachOK(d, h)
      BY <2>1
    <3> HIDE DEF d, g, h
    <3>6. ~d.first => /\ d.cur \in Members(g) /\ Len(d.got) = g.set[d.cur]
                      /\ \A k \in 1 .. Len(d.got) : d.got[k] = g.list[k]
      BY <2>2, <3>3, <3>4, <3>5 DEF ReachOK
    <3>7. ReachOK(d, g)
      BY <2>2, <3>4, <3>5, <3>6 DEF ReachOK
    <3> QED
      BY <3>7 DEF d, g
  <2>3. CASE ~(d.phase = "global" /\ ~d.cut)
    BY <2>1, <2>3 DEF ReachOK
  <2> QED
    BY <2>2, <2>3
<1> QED
  BY <1>1, <1>3, <1>4 DEF AllDelivered

\* When one goes, every loop over its list is cut.
LEMMA UnregisterGlobalDelivers ==
  ASSUME IInv, AllDelivered, NEW ev \in Event, NEW cb \in Callback, NEW tainted \in BOOLEAN,
         UnregisterEventCallbackGlobal(ev, cb, tainted)
  PROVE  AllDelivered'
<1> DEFINE cut(d) == d.ev = ev /\ d.phase = "global" /\ Has(global[ev], cb)
           a(d) == [d EXCEPT !.cut = TRUE, !.got = <<>>]
<1>1. /\ stack' = [i \in DOMAIN stack |-> IF cut(stack[i]) THEN a(stack[i]) ELSE stack[i]]
      /\ ev \in CallbackEvent /\ global' = [global EXCEPT ![ev] = Remove(global[ev], cb)]
  BY DEF UnregisterEventCallbackGlobal
<1>2. \A e \in CallbackEvent :
        /\ HListOK(global'[e], Callback)
        /\ e # ev \/ ~Has(global[ev], cb) => global'[e] = global[e]
  <2> TAKE e \in CallbackEvent
  <2>1. HListOK(global[e], Callback) /\ DOMAIN global = CallbackEvent
    BY DEF AllDelivered, GlobalOK
  <2>2. CASE e = ev /\ Has(global[ev], cb)
    BY <1>1, <2>1, <2>2, RemoveOK
  <2>3. CASE e # ev \/ ~Has(global[ev], cb)
    BY <1>1, <2>1, <2>3 DEF Remove
  <2> QED
    BY <2>2, <2>3
<1>3. GlobalOK'
  BY <1>1, <1>2 DEF AllDelivered, GlobalOK
<1>4. /\ IsSeq(stack) /\ DOMAIN stack = 1 .. Len(stack) /\ Len(stack) \in Nat
  BY SeqIsFunction DEF IInv, StackOK
<1>5. ASSUME NEW i \in 1 .. Len(stack)
      PROVE  CountsOK(stack'[i]) /\ ReachOK(stack'[i], global'[stack'[i].ev])
  <2> DEFINE d == stack[i]
  <2>1. CountsOK(d) /\ ReachOK(d, global[d.ev]) /\ SendOK(d, quiet) /\ HasFields(d)
    BY DEF AllDelivered, IInv, StackOK, SendOK
  <2>2. CASE cut(d)
    <3> DEFINE b == a(d)
    <3>1. stack'[i] = b
      BY <1>1, <1>4, <2>2
    <3>2. d.phase = "global"
      BY <2>2
    <3>3. b = [d EXCEPT !.cut = TRUE, !.got = <<>>]
      OBVIOUS
    <3> HIDE DEF b, d, a, cut
    <3>4. /\ b.phase = d.phase /\ b.todo = d.todo /\ b.runs = d.runs /\ b.due = d.due
          /\ b.cut = TRUE /\ b.got = <<>> /\ b.first = d.first
      BY <2>1, <3>3 DEF HasFields
    <3>5. CountsOK(b)
      BY <2>1, <3>2, <3>4 DEF CountsOK
    <3>6. \A h : ReachOK(b, h)
      BY <2>1, <3>2, <3>4, EmptySeq DEF ReachOK
    <3> QED
      BY <3>1, <3>5, <3>6
  <2>3. CASE ~cut(d)
    <3>1. stack'[i] = d
      BY <1>1, <1>4, <2>3
    <3>2. CASE d.phase = "global"
      <4>1. d.ev \in CallbackEvent /\ (d.ev # ev \/ ~Has(global[ev], cb))
        BY <2>1, <2>3, <3>2 DEF SendOK
      <4> QED
        BY <1>2, <2>1, <3>1, <4>1
    <3>3. CASE d.phase # "global"
      BY <2>1, <3>1, <3>3 DEF ReachOK
    <3> QED
      BY <3>2, <3>3
  <2> QED
    BY <2>2, <2>3
<1> HIDE DEF cut, a
<1>6. Len(stack') = Len(stack)
  <2>1. stack' = [i \in 1 .. Len(stack) |-> stack'[i]]
    BY <1>1, <1>4
  <2> QED
    BY <1>4, <2>1, FunctionIsSeq
<1> QED
  BY <1>3, <1>5, <1>6 DEF AllDelivered
-----------------------------------------------------------------------------
(* The steps of a send, as to what it delivers *)

\* The innermost send has delivered what it should.
LEMMA TopDelivered ==
  ASSUME IInv, AllDelivered, stack # <<>>
  PROVE  /\ HasFields(Top) /\ SendOK(Top, quiet) /\ CountsOK(Top) /\ ReachOK(Top, global[Top.ev])
         /\ Top.ev \in CallbackEvent => HListOK(global[Top.ev], Callback)
<1>1. Len(stack) \in 1 .. Len(stack)
  BY SeqIsFunction DEF IInv, StackOK
<1> QED
  BY <1>1, TopOK DEF AllDelivered, GlobalOK, Top

\* The innermost send goes on delivering.
LEMMA TopDelivers ==
  ASSUME IInv, AllDelivered, UNCHANGED global, stack # <<>>,
         NEW a, stack' = SetTop(a), CountsOK(a), ReachOK(a, global[a.ev])
  PROVE  AllDelivered'
<1> DEFINE n == Len(stack)
<1>1. n \in Nat /\ DOMAIN stack = 1 .. n /\ IsSeq(stack)
  BY SeqIsFunction DEF IInv, StackOK
<1>2. stack' = [stack EXCEPT ![n] = a]
  BY DEF SetTop
<1>3. Len(stack') = n
  <2>1. stack' = [i \in 1 .. n |-> stack'[i]]
    BY <1>1, <1>2
  <2> HIDE DEF n
  <2> QED
    BY <1>1, <2>1, FunctionIsSeq
<1>4. \A i \in 1 .. n : stack'[i] = a \/ stack'[i] = stack[i]
  BY <1>1, <1>2
<1>5. \A i \in 1 .. n : CountsOK(stack[i]) /\ ReachOK(stack[i], global[stack[i].ev])
  BY DEF AllDelivered
<1> HIDE DEF n
<1>6. \A i \in 1 .. n : CountsOK(stack'[i]) /\ ReachOK(stack'[i], global[stack'[i].ev])
  BY <1>4, <1>5
<1> QED
  BY <1>3, <1>6 DEF AllDelivered, GlobalOK

\* The innermost send ends.
LEMMA PopDelivers ==
  ASSUME IInv, AllDelivered, UNCHANGED global, stack # <<>>, stack' = Pop
  PROVE  AllDelivered'
<1> DEFINE n == Len(stack) - 1
<1>1. n \in Nat /\ Len(stack) \in Nat
  BY SeqIsFunction DEF IInv, StackOK
<1>2. stack' = [i \in 1 .. n |-> stack[i]]
  BY <1>1 DEF Pop
<1>3. stack' = [i \in 1 .. n |-> stack'[i]] /\ \A i \in 1 .. n : stack'[i] = stack[i]
  BY <1>2
<1>4. \A i \in 1 .. n : i \in 1 .. Len(stack)
  BY <1>1
<1> HIDE DEF n
<1>5. Len(stack') = n
  BY <1>1, <1>3, FunctionIsSeq
<1>6. \A i \in 1 .. n : CountsOK(stack[i]) /\ ReachOK(stack[i], global[stack[i].ev])
  BY <1>4 DEF AllDelivered
<1> QED
  BY <1>3, <1>5, <1>6 DEF AllDelivered, GlobalOK

\* The snapshot of a new send is what it owes.
LEMMA SnapshotCounts ==
  ASSUME IInv, NEW ev \in Event
  PROVE  CountsOK(NewSend(ev))
<1> DEFINE front == IF ev \in ScriptEvent THEN regs[ev].list ELSE <<>>
           all == allregs.list
           todo == front \o all
           m == Len(front)
           n == Len(all)
           d == NewSend(ev)
           In(f) == ev \in ScriptEvent /\ Has(regs[ev], f)
<1>1. /\ front \in Seq(Frame) /\ \A j, k \in 1 .. m : j < k => front[j] # front[k]
      /\ \A f \in Frame : In(f) <=> \E k \in 1 .. m : front[k] = f
  <2>1. CASE ev \in ScriptEvent
    <3>1. HListOK(regs[ev], Frame) /\ front = regs[ev].list
      BY <2>1 DEF IInv, RegistryOK
    <3>2. \A f : In(f) <=> f \in DOMAIN regs[ev].set
      BY <2>1 DEF Has
    <3> DEFINE l == regs[ev].list
               s == regs[ev].set
    <3>3. /\ l \in Seq(Frame) /\ \A x \in DOMAIN s : s[x] \in 1 .. Len(l) /\ l[s[x]] = x
          /\ \A i \in 1 .. Len(l) : l[i] \in DOMAIN s /\ s[l[i]] = i
      BY <3>1, Zenon DEF HListOK
    <3>4. /\ l \in Seq(Frame) /\ \A j, k \in 1 .. Len(l) : j < k => l[j] # l[k]
          /\ \A f \in Frame : f \in DOMAIN s <=> \E k \in 1 .. Len(l) : l[k] = f
      <4> HIDE DEF l, s
      <4> QED
        BY <3>3
    <3> HIDE DEF In, front
    <3> QED
      BY <3>1, <3>2, <3>4
  <2>2. CASE ev \notin ScriptEvent
    BY <2>2, EmptySeq
  <2> QED
    BY <2>1, <2>2
<1>2. /\ all \in Seq(Frame) /\ \A j, k \in 1 .. n : j < k => all[j] # all[k]
      /\ \A f \in Frame : Has(allregs, f) <=> \E k \in 1 .. n : all[k] = f
  BY DEF IInv, RegistryOK, HListOK, Has
<1>3. /\ d.phase = "frames" /\ d.todo = todo /\ d.runs = [f \in Frame |-> 0]
      /\ d.due = [f \in Frame |-> Due(ev, f)]
  BY DEF NewSend, GetFramesRegisteredForEvent
<1>4. \A f \in Frame : Due(ev, f) = (IF In(f) THEN 1 ELSE 0) + (IF Has(allregs, f) THEN 1 ELSE 0)
  BY DEF Due
<1>5. \A f \in Frame : Due(ev, f) \in Nat
  BY <1>4
<1> HIDE DEF front, all, d, In
<1>6. m \in Nat /\ n \in Nat
  BY <1>1, <1>2
<1>7. /\ Len(todo) = m + n
      /\ \A k \in 1 .. m + n : todo[k] = IF k <= m THEN front[k] ELSE all[k - m]
  BY <1>1, <1>2, ConcatProperties
<1> HIDE DEF todo, m, n
<1>8. \A k \in 1 .. m : todo[k] = front[k]
  BY <1>6, <1>7
<1>9. \A k \in m + 1 .. m + n : todo[k] = all[k - m] /\ k - m \in 1 .. n
  BY <1>6, <1>7
<1>10. \A k \in 1 .. n : all[k] = todo[k + m] /\ k + m \in m + 1 .. m + n
  BY <1>6, <1>7
<1>11. ASSUME NEW j \in 1 .. m + n, NEW k \in 1 .. m + n, j < k, k <= m \/ j > m
       PROVE  todo[j] # todo[k]
  <2>1. CASE k <= m
    <3>1. j \in 1 .. m /\ k \in 1 .. m
      BY <1>6, <1>11, <2>1
    <3> QED
      BY <1>1, <1>8, <1>11, <3>1 DEF m
  <2>2. CASE j > m
    <3>1. j \in m + 1 .. m + n /\ k \in m + 1 .. m + n /\ j - m < k - m
      BY <1>6, <1>11, <2>2
    <3> QED
      BY <1>2, <1>9, <3>1 DEF n
  <2> QED
    BY <1>11, <2>1, <2>2
<1>12. \A f \in Frame : Owed(todo, 1, m, f) = IF In(f) THEN 1 ELSE 0
  BY <1>1, <1>8 DEF Owed, m
<1>13. \A f \in Frame : Owed(todo, m + 1, m + n, f) = IF Has(allregs, f) THEN 1 ELSE 0
  <2> TAKE f \in Frame
  <2>1. Has(allregs, f) <=> \E k \in 1 .. n : all[k] = f
    BY <1>2 DEF n
  <2>2. (\E k \in 1 .. n : all[k] = f) <=> \E k \in m + 1 .. m + n : todo[k] = f
    BY <1>9, <1>10
  <2> QED
    BY <2>1, <2>2 DEF Owed
<1>14. m \in 0 .. Len(d.todo)
  BY <1>3, <1>6, <1>7
<1>15. \A f \in Frame : d.due[f] = d.runs[f] + Owed(d.todo, 1, m, f)
                                    + Owed(d.todo, m + 1, Len(d.todo), f)
  BY <1>3, <1>4, <1>7, <1>12, <1>13
<1>16. d.runs \in [Frame -> Nat] /\ d.due \in [Frame -> Nat]
  BY <1>3, <1>5
<1>17. \A j, k \in 1 .. Len(d.todo) : j < k /\ (k <= m \/ j > m) => d.todo[j] # d.todo[k]
  BY <1>3, <1>7, <1>11
<1>18. CountsOK(d)
  BY <1>3, <1>14, <1>15, <1>16, <1>17 DEF CountsOK
<1> QED
  BY <1>18 DEF d

\* A new send has delivered nothing yet.
LEMMA SendEventDelivers ==
  ASSUME IInv, AllDelivered, NEW ev \in Event, SendEvent(ev)
  PROVE  AllDelivered'
<1> DEFINE d == NewSend(ev)
           n == Len(stack)
           S == {stack[i] : i \in 1 .. n} \cup {d}
<1>1. stack' = Append(stack, d) /\ UNCHANGED global
  BY DEF SendEvent, registry
<1>2. CountsOK(d)
  BY SnapshotCounts
<1>3. d.phase = "frames" /\ d.got = <<>> /\ d.first = TRUE /\ d.cut = FALSE
  BY DEF NewSend
<1> HIDE DEF d
<1>4. \A h : ReachOK(d, h)
  BY <1>3, EmptySeq DEF ReachOK
<1>5. n \in Nat /\ DOMAIN stack = 1 .. n /\ stack = [i \in 1 .. n |-> stack[i]]
  BY SeqIsFunction DEF IInv, StackOK
<1>6. stack \in Seq(S) /\ d \in S
  <2>1. \A i \in 1 .. n : stack[i] \in S
    OBVIOUS
  <2>2. stack \in [1 .. n -> S]
    BY <1>5, <2>1
  <2> QED
    BY <1>5, <2>2
<1> HIDE DEF S
<1>7. Len(stack') = n + 1 /\ stack'[n + 1] = d /\ \A i \in 1 .. n : stack'[i] = stack[i]
  BY <1>1, <1>6, AppendProperties
<1>8. ASSUME NEW i \in 1 .. n + 1
      PROVE  CountsOK(stack'[i]) /\ ReachOK(stack'[i], global[stack'[i].ev])
  <2>1. CASE i \in 1 .. n
    BY <1>7, <2>1 DEF AllDelivered
  <2>2. CASE i = n + 1
    BY <1>2, <1>4, <1>7, <2>2
  <2> QED
    BY <1>5, <2>1, <2>2
<1> HIDE DEF n
<1> QED
  BY <1>1, <1>7, <1>8 DEF AllDelivered, GlobalOK

\* The frame that runs is owed one run less: it was the first of its list.
LEMMA RunScriptDelivers ==
  ASSUME IInv, AllDelivered, RunScript, UNCHANGED global
  PROVE  AllDelivered'
<1> DEFINE d == Top
           s == d.todo
           f0 == Head(s)
           t == Tail(s)
           n == Len(s)
<1>1. /\ stack # <<>> /\ SendOK(d, quiet) /\ HasFields(d) /\ CountsOK(d)
      /\ ReachOK(d, global[d.ev]) /\ d.phase = "frames" /\ s # <<>>
  BY TopDelivered DEF RunScript, Ready
<1>2. PICK a : /\ stack' = SetTop(a)
               /\ a = [d EXCEPT !.todo = t, !.running = TRUE, !.runs[f0] = @ + 1]
  BY DEF RunScript
<1> HIDE DEF d
<1>3. /\ s \in Seq(Frame) /\ n \in Nat /\ n >= 1 /\ f0 \in Frame /\ s[1] = f0
      /\ t \in Seq(Frame) /\ Len(t) = n - 1 /\ \A k \in 1 .. n - 1 : t[k] = s[k + 1]
  BY <1>1, HeadTailProperties DEF SendOK
<1>4. /\ a.todo = t /\ a.runs = [d.runs EXCEPT ![f0] = @ + 1] /\ a.ev = d.ev
      /\ a.phase = d.phase /\ a.due = d.due /\ a.got = d.got /\ a.start = d.start
      /\ a.cut = d.cut /\ a.first = d.first /\ a.cur = d.cur
  BY <1>1, <1>2 DEF HasFields
<1>5. ReachOK(a, global[a.ev])
  BY <1>1, <1>4 DEF ReachOK
<1>6. PICK m \in 0 .. n :
        /\ \A j, k \in 1 .. n : j < k /\ (k <= m \/ j > m) => s[j] # s[k]
        /\ \A f \in Frame : d.due[f] = d.runs[f] + Owed(s, 1, m, f) + Owed(s, m + 1, n, f)
  BY <1>1 DEF CountsOK
<1>7. d.runs \in [Frame -> Nat] /\ d.due \in [Frame -> Nat]
  BY <1>1 DEF CountsOK
<1> HIDE DEF s, t, n, f0
<1> DEFINE l == IF m = 0 THEN 0 ELSE m - 1
           N == n - 1
<1>8. m \in Nat /\ m <= n /\ l \in 0 .. N /\ N \in Nat /\ n = N + 1
  BY <1>3
<1>9. \A j, k \in 1 .. N : j < k /\ (k <= l \/ j > l) => t[j] # t[k]
  <2> SUFFICES ASSUME NEW j \in 1 .. N, NEW k \in 1 .. N, j < k, k <= l \/ j > l
               PROVE  t[j] # t[k]
    OBVIOUS
  <2>1. /\ j + 1 \in 1 .. n /\ k + 1 \in 1 .. n /\ j + 1 < k + 1
        /\ k + 1 <= m \/ j + 1 > m
    BY <1>8
  <2>2. t[j] = s[j + 1] /\ t[k] = s[k + 1]
    BY <1>3
  <2> QED
    BY <1>6, <2>1, <2>2
<1>10. ASSUME NEW f \in Frame
       PROVE  a.due[f] = a.runs[f] + Owed(t, 1, l, f) + Owed(t, l + 1, N, f)
  <2> DEFINE u == Owed(s, 1, m, f)
             v == Owed(s, m + 1, n, f)
             x == Owed(t, 1, l, f)
             y == Owed(t, l + 1, N, f)
             one == IF f = f0 THEN 1 ELSE 0
  <2>1. u \in 0 .. 1 /\ v \in 0 .. 1 /\ x \in 0 .. 1 /\ y \in 0 .. 1
    BY DEF Owed
  <2>2. a.runs[f] = d.runs[f] + one
    BY <1>4, <1>7
  <2>3. \A k \in 1 .. N : t[k] = s[k + 1]
    BY <1>3
  <2>4. CASE m > 0
    <3>1. l = m - 1
      BY <1>8, <2>4
    <3>2. y = v
      <4>1. \A k \in l + 1 .. N : k \in 1 .. N /\ k + 1 \in m + 1 .. n
        BY <1>8, <3>1
      <4>2. \A k \in m + 1 .. n : k - 1 \in l + 1 .. N /\ k - 1 \in 1 .. N /\ (k - 1) + 1 = k
        BY <1>8, <3>1
      <4>3. (\E k \in l + 1 .. N : t[k] = f) <=> (\E k \in m + 1 .. n : s[k] = f)
        BY <2>3, <4>1, <4>2
      <4> QED
        BY <4>3 DEF Owed
    <3>3. u = one + x
      <4>1. CASE f = f0
        <5>1. u = 1
          BY <1>3, <1>8, <2>4, <4>1 DEF Owed
        <5>2. \A k \in 1 .. l : k \in 1 .. N /\ k + 1 \in 1 .. n /\ 1 \in 1 .. n /\ 1 < k + 1 /\ k + 1 <= m
          BY <1>8, <3>1
        <5>3. \A k \in 1 .. l : s[1] # s[k + 1]
          BY <1>6, <5>2
        <5>4. \A k \in 1 .. l : t[k] # f
          BY <1>3, <2>3, <4>1, <5>2, <5>3
        <5> QED
          BY <4>1, <5>1, <5>4 DEF Owed
      <4>2. CASE f # f0
        <5>1. \A k \in 1 .. l : k \in 1 .. N /\ k + 1 \in 1 .. m
          BY <1>8, <3>1
        <5>2. \A k \in 1 .. m : k # 1 => k - 1 \in 1 .. l /\ s[k] = t[k - 1]
          BY <1>8, <2>3, <3>1
        <5>3. s[1] # f
          BY <1>3, <4>2
        <5>4. (\E k \in 1 .. l : t[k] = f) <=> (\E k \in 1 .. m : s[k] = f)
          BY <2>3, <5>1, <5>2, <5>3
        <5> QED
          BY <4>2, <5>4 DEF Owed
      <4> QED
        BY <4>1, <4>2
    <3> HIDE DEF u, v, x, y, one
    <3>4. one \in 0 .. 1
      BY DEF one
    <3>5. d.due[f] = d.runs[f] + u + v /\ d.runs[f] \in Nat
      BY <1>6, <1>7 DEF u, v
    <3>6. a.due[f] = a.runs[f] + x + y
      BY <1>4, <2>1, <2>2, <3>2, <3>3, <3>4, <3>5
    <3> QED
      BY <3>6 DEF x, y
  <2>5. CASE m = 0
    <3>1. l = 0 /\ m + 1 = 1 /\ l + 1 = 1
      BY <2>5
    <3>2. u = 0 /\ x = 0
      BY <2>5, <3>1 DEF Owed
    <3>3. v = one + y
      <4>1. CASE f = f0
        <5>1. v = 1
          BY <1>3, <1>8, <3>1, <4>1 DEF Owed
        <5>2. \A k \in 1 .. N : k + 1 \in 1 .. n /\ 1 \in 1 .. n /\ 1 < k + 1 /\ 1 > m
          BY <1>8, <2>5
        <5>3. \A k \in 1 .. N : s[1] # s[k + 1]
          BY <1>6, <5>2
        <5>4. \A k \in 1 .. N : t[k] # f
          BY <1>3, <2>3, <4>1, <5>3
        <5> QED
          BY <3>1, <4>1, <5>1, <5>4 DEF Owed
      <4>2. CASE f # f0
        <5>1. \A k \in 1 .. N : k + 1 \in 1 .. n
          BY <1>8
        <5>2. \A k \in 1 .. n : k # 1 => k - 1 \in 1 .. N /\ s[k] = t[k - 1]
          BY <1>8, <2>3
        <5>3. s[1] # f
          BY <1>3, <4>2
        <5>4. (\E k \in 1 .. N : t[k] = f) <=> (\E k \in 1 .. n : s[k] = f)
          BY <2>3, <5>1, <5>2, <5>3
        <5> QED
          BY <3>1, <4>2, <5>4 DEF Owed
      <4> QED
        BY <4>1, <4>2
    <3> HIDE DEF u, v, x, y, one
    <3>4. one \in 0 .. 1
      BY DEF one
    <3>5. d.due[f] = d.runs[f] + u + v /\ d.runs[f] \in Nat
      BY <1>6, <1>7 DEF u, v
    <3>6. a.due[f] = a.runs[f] + x + y
      BY <1>4, <2>1, <2>2, <3>2, <3>3, <3>4, <3>5
    <3> QED
      BY <3>6 DEF x, y
  <2> QED
    BY <1>8, <2>4, <2>5
<1>11. a.runs \in [Frame -> Nat] /\ a.due \in [Frame -> Nat]
  BY <1>3, <1>4, <1>7
<1>12. Len(a.todo) = N
  BY <1>3, <1>4
<1>13. CountsOK(a)
  <2> HIDE DEF l, N
  <2>1. a.phase = "frames" /\ l \in 0 .. Len(a.todo)
    BY <1>1, <1>4, <1>8, <1>12
  <2> QED
    BY <1>4, <1>9, <1>10, <1>11, <1>12, <2>1 DEF CountsOK
<1> QED
  BY <1>1, <1>2, <1>5, <1>13, TopDelivers
\* When all frames have run nothing is owed any more.
LEMMA FramesDoneDelivers ==
  ASSUME IInv, AllDelivered, FramesDone, UNCHANGED global
  PROVE  AllDelivered'
<1> DEFINE d == Top
<1>1. /\ stack # <<>> /\ SendOK(d, quiet) /\ HasFields(d) /\ CountsOK(d)
      /\ ReachOK(d, global[d.ev]) /\ d.phase = "frames" /\ d.todo = <<>>
  BY TopDelivered DEF FramesDone, Ready
<1>2. CASE d.ev \notin CallbackEvent
  BY <1>1, <1>2, PopDelivers DEF FramesDone
<1>3. CASE d.ev \in CallbackEvent
  <2> HIDE DEF d
  <2>1. PICK a : /\ stack' = SetTop(a)
                 /\ a = [d EXCEPT !.phase = "global", !.first = TRUE,
                                  !.start = Members(global[d.ev])]
    BY <1>3 DEF FramesDone, d
  <2>2. /\ a.ev = d.ev /\ a.phase = "global" /\ a.todo = d.todo /\ a.runs = d.runs
        /\ a.due = d.due /\ a.got = d.got /\ a.start = Members(global[d.ev])
        /\ a.cut = d.cut /\ a.first = TRUE
    BY <1>1, <2>1 DEF HasFields
  <2>3. Len(d.todo) = 0
    BY <1>1, EmptySeq
  <2>4. \A m \in 0 .. 0, f \in Frame : Owed(d.todo, 1, m, f) = 0 /\ Owed(d.todo, m + 1, 0, f) = 0
    BY DEF Owed
  <2>5. /\ d.runs \in [Frame -> Nat] /\ d.due \in [Frame -> Nat]
        /\ \A f \in Frame : d.due[f] = d.runs[f] + 0 + 0
    BY <1>1, <2>3, <2>4 DEF CountsOK
  <2>6. d.runs = d.due
    <3>1. \A f \in Frame : d.runs[f] = d.due[f]
      BY <2>5
    <3> QED
      BY <2>5, <3>1
  <2>7. CountsOK(a)
    BY <2>2, <2>5, <2>6 DEF CountsOK
  <2>8. ReachOK(a, global[a.ev])
    <3>1. d.got \in Seq(Callback) /\ d.cut \in BOOLEAN /\ d.got = <<>>
      BY <1>1 DEF ReachOK
    <3>2. a.got = <<>> /\ a.got \in Seq(Callback) /\ a.cut \in BOOLEAN /\ a.first \in BOOLEAN
      BY <2>2, <3>1
    <3>3. a.start \subseteq Members(global[a.ev]) /\ a.first
      BY <2>2
    <3> QED
      BY <2>2, <3>2, <3>3 DEF ReachOK
  <2> QED
    BY <1>1, <2>1, <2>7, <2>8, TopDelivers
<1> QED
  BY <1>2, <1>3

\* The loop over the global callbacks goes on to the next entry.
LEMMA GlobalNextDelivers ==
  ASSUME IInv, AllDelivered, GlobalNext, UNCHANGED global
  PROVE  AllDelivered'
<1> DEFINE d == Top
           h == global[d.ev]
           cb == NextEntry(h, d.first, d.cur)
           k == IF d.first THEN 1 ELSE h.set[d.cur] + 1
<1>1. /\ stack # <<>> /\ SendOK(d, quiet) /\ HasFields(d) /\ CountsOK(d) /\ ReachOK(d, h)
      /\ d.phase = "global" /\ HasNext(h, d.first, d.cur)
      /\ d.ev \in CallbackEvent => HListOK(h, Callback)
  BY TopDelivered DEF GlobalNext, Ready
<1>2. HListOK(h, Callback)
  BY <1>1 DEF SendOK
<1>3. PICK a : /\ stack' = SetTop(a)
               /\ \E on : a = [d EXCEPT !.first = FALSE, !.cur = cb, !.running = on,
                                        !.got = IF d.cut THEN @ ELSE Append(@, cb)]
  BY DEF GlobalNext
<1> HIDE DEF d, cb
<1>4. /\ a.ev = d.ev /\ a.phase = d.phase /\ a.todo = d.todo /\ a.runs = d.runs
      /\ a.due = d.due /\ a.start = d.start /\ a.cut = d.cut /\ a.first = FALSE /\ a.cur = cb
      /\ a.got = IF d.cut THEN d.got ELSE Append(d.got, cb)
  BY <1>1, <1>3 DEF HasFields
<1>5. CountsOK(a)
  BY <1>1, <1>4 DEF CountsOK
<1> HIDE DEF h
<1>6. /\ d.got \in Seq(Callback) /\ d.first \in BOOLEAN /\ d.cut \in BOOLEAN
      /\ h.list \in Seq(Callback) /\ Len(h.list) \in Nat
  BY <1>1, <1>2 DEF ReachOK, HListOK
<1>7. CASE d.cut
  <2>1. ReachOK(a, h)
    BY <1>1, <1>4, <1>6, <1>7 DEF ReachOK
  <2> QED
    BY <1>1, <1>3, <1>4, <1>5, <2>1, TopDelivers DEF h
<1>8. CASE ~d.cut
  <2>1. /\ d.start \subseteq Members(h)
        /\ d.first => d.got = <<>>
        /\ ~d.first => /\ d.cur \in Members(h) /\ Len(d.got) = h.set[d.cur]
                       /\ \A j \in 1 .. Len(d.got) : d.got[j] = h.list[j]
    BY <1>1, <1>8 DEF ReachOK
  <2>2. ~d.first => h.set[d.cur] \in 1 .. Len(h.list)
    BY <1>2, <2>1 DEF HListOK, Members
  <2>3. k \in 1 .. Len(h.list) /\ cb = h.list[k]
    <3>1. h.list # <<>> => 1 <= Len(h.list)
      BY <1>6, EmptyListOfV
    <3> QED
      BY <1>1, <1>6, <2>2, <3>1 DEF HasNext, NextEntry, cb
  <2>4. Len(d.got) = k - 1
    BY <1>6, <2>1, <2>2, EmptySeq
  <2>5. \A j \in 1 .. k - 1 : d.got[j] = h.list[j]
    BY <1>6, <2>1, <2>4
  <2> HIDE DEF k
  <2>6. cb \in Callback /\ cb \in Members(h) /\ h.set[cb] = k
    BY <1>2, <2>3 DEF HListOK, Members
  <2>7. /\ a.got \in Seq(Callback) /\ Len(a.got) = k /\ a.got[k] = cb
        /\ \A j \in 1 .. k - 1 : a.got[j] = d.got[j]
    BY <1>4, <1>6, <1>8, <2>3, <2>4, <2>6, AppendProperties
  <2>8. \A j \in 1 .. k : a.got[j] = h.list[j]
    BY <2>3, <2>5, <2>7
  <2>9. ReachOK(a, h)
    BY <1>1, <1>4, <1>8, <2>1, <2>6, <2>7, <2>8 DEF ReachOK
  <2> QED
    BY <1>1, <1>3, <1>4, <1>5, <2>9, TopDelivers DEF h
<1> QED
  BY <1>6, <1>7, <1>8

\* It ends at the last entry: it has come to all of them.
LEMMA GlobalDoneDelivers ==
  ASSUME IInv, AllDelivered, GlobalDone, UNCHANGED global
  PROVE  AllDelivered'
<1> DEFINE d == Top
           h == global[d.ev]
<1>1. /\ stack # <<>> /\ SendOK(d, quiet) /\ HasFields(d) /\ CountsOK(d) /\ ReachOK(d, h)
      /\ d.phase = "global" /\ ~HasNext(h, d.first, d.cur)
      /\ d.ev \in CallbackEvent => HListOK(h, Callback)
  BY TopDelivered DEF GlobalDone, Ready
<1>2. HListOK(h, Callback)
  BY <1>1 DEF SendOK
<1> HIDE DEF d
<1>3. PICK a : /\ stack' = SetTop(a)
               /\ a = [d EXCEPT !.phase = "owners", !.left = DOMAIN frames[d.ev]]
  BY DEF GlobalDone, d
<1>4. /\ a.ev = d.ev /\ a.phase = "owners" /\ a.todo = d.todo /\ a.runs = d.runs
      /\ a.due = d.due /\ a.start = d.start /\ a.cut = d.cut /\ a.first = d.first
      /\ a.got = d.got
  BY <1>1, <1>3 DEF HasFields
<1>5. CountsOK(a)
  BY <1>1, <1>4 DEF CountsOK
<1> HIDE DEF h
<1>6. /\ d.got \in Seq(Callback) /\ d.first \in BOOLEAN /\ d.cut \in BOOLEAN
      /\ h.list \in Seq(Callback) /\ Len(h.list) \in Nat
      /\ \A c \in Members(h) : h.set[c] \in 1 .. Len(h.list) /\ h.list[h.set[c]] = c
      /\ \A j \in 1 .. Len(h.list) : h.set[h.list[j]] = j
  BY <1>1, <1>2 DEF ReachOK, HListOK, Members
<1>7. ASSUME ~d.cut
      PROVE  /\ \A c \in d.start : \E k \in 1 .. Len(d.got) : d.got[k] = c
             /\ \A j, k \in 1 .. Len(d.got) : j < k => d.got[j] # d.got[k]
  <2>1. /\ d.start \subseteq Members(h)
        /\ d.first => d.got = <<>>
        /\ ~d.first => /\ d.cur \in Members(h) /\ Len(d.got) = h.set[d.cur]
                       /\ \A j \in 1 .. Len(d.got) : d.got[j] = h.list[j]
    BY <1>1, <1>7 DEF ReachOK
  <2>2. CASE d.first
    <3>1. Len(h.list) = 0 /\ Len(d.got) = 0
      BY <1>1, <2>1, <2>2, EmptySeq DEF HasNext
    <3> QED
      BY <1>6, <2>1, <3>1
  <2>3. CASE ~d.first
    <3>1. Len(d.got) = Len(h.list)
      BY <1>1, <1>6, <2>1, <2>3 DEF HasNext, Has, Members
    <3>2. \A j \in 1 .. Len(h.list) : d.got[j] = h.list[j]
      BY <2>1, <2>3, <3>1
    <3> QED
      BY <1>6, <2>1, <3>1, <3>2
  <2> QED
    BY <1>6, <2>2, <2>3
<1>8. ReachOK(a, h)
  BY <1>4, <1>6, <1>7 DEF ReachOK
<1> QED
  BY <1>1, <1>3, <1>4, <1>5, <1>8, TopDelivers DEF h

\* The walk over the frames that have callbacks is after all that.
LEMMA OwnersDeliver ==
  ASSUME IInv, AllDelivered, PickOwner \/ OwnerNext \/ OwnerDone \/ HandlerReturns,
         UNCHANGED global
  PROVE  AllDelivered'
<1> DEFINE d == Top
<1>1. /\ stack # <<>> /\ HasFields(d) /\ CountsOK(d) /\ ReachOK(d, global[d.ev])
  BY TopDelivered DEF PickOwner, OwnerNext, OwnerDone, HandlerReturns, Ready
<1>2. ASSUME NEW a, stack' = SetTop(a), a.ev = d.ev, a.todo = d.todo, a.runs = d.runs,
             a.due = d.due, a.start = d.start, a.cut = d.cut, a.got = d.got,
             \/ a.phase = d.phase /\ a.first = d.first /\ a.cur = d.cur
             \/ {a.phase, d.phase} \subseteq {"owners", "list"} /\ a.first \in BOOLEAN
      PROVE  AllDelivered'
  <2> HIDE DEF d
  <2>1. CountsOK(a)
    BY <1>1, <1>2 DEF CountsOK
  <2>2. ReachOK(a, global[a.ev])
    BY <1>1, <1>2 DEF ReachOK
  <2> QED
    BY <1>1, <1>2, <2>1, <2>2, TopDelivers
<1>3. CASE PickOwner
  <2>1. PICK f, a : /\ stack' = SetTop(a) /\ d.phase = "owners"
                    /\ a = [d EXCEPT !.phase = "list", !.owner = f, !.left = d.left \ {f},
                                     !.first = TRUE, !.detached = FALSE]
    BY <1>3 DEF PickOwner, Ready
  <2> HIDE DEF d
  <2> QED
    BY <1>1, <1>2, <2>1 DEF HasFields
<1>4. CASE OwnerNext
  <2>1. PICK a : /\ stack' = SetTop(a) /\ d.phase = "list"
                 /\ \E cb, on : a = [d EXCEPT !.first = FALSE, !.cur = cb, !.running = on]
    BY <1>4 DEF OwnerNext, Ready
  <2> HIDE DEF d
  <2> QED
    BY <1>1, <1>2, <2>1 DEF HasFields
<1>5. CASE OwnerDone
  <2>1. PICK a : /\ stack' = SetTop(a) /\ d.phase = "list"
                 /\ a = [d EXCEPT !.phase = "owners", !.held = EmptyHList,
                                  !.detached = FALSE, !.lost = FALSE]
    BY <1>5 DEF OwnerDone, Ready
  <2>2. d.first \in BOOLEAN
    BY <1>1 DEF ReachOK
  <2> HIDE DEF d
  <2> QED
    BY <1>1, <1>2, <2>1, <2>2 DEF HasFields
<1>6. CASE HandlerReturns
  <2>1. PICK a : stack' = SetTop(a) /\ a = [d EXCEPT !.running = FALSE]
    BY <1>6 DEF HandlerReturns
  <2> HIDE DEF d
  <2> QED
    BY <1>1, <1>2, <2>1 DEF HasFields
<1> QED
  BY <1>3, <1>4, <1>5, <1>6

\* A step of DoSendEvent delivers.
LEMMA DoSendEventDelivers ==
  ASSUME IInv, AllDelivered, DoSendEvent
  PROVE  AllDelivered'
<1>1. UNCHANGED global
  BY DEF DoSendEvent, registry
<1>2. CASE WalkFails \/ SendDone
  BY <1>1, <1>2, PopDelivers DEF WalkFails, SendDone, Ready
<1>3. CASE RunScript
  BY <1>1, <1>3, RunScriptDelivers
<1>4. CASE FramesDone
  BY <1>1, <1>4, FramesDoneDelivers
<1>5. CASE GlobalNext
  BY <1>1, <1>5, GlobalNextDelivers
<1>6. CASE GlobalDone
  BY <1>1, <1>6, GlobalDoneDelivers
<1>7. CASE PickOwner \/ OwnerNext \/ OwnerDone \/ HandlerReturns
  BY <1>1, <1>7, OwnersDeliver
<1> QED
  BY <1>2, <1>3, <1>4, <1>5, <1>6, <1>7 DEF DoSendEvent

\* The operations deliver.
LEMMA OperationDelivers ==
  ASSUME IInv, AllDelivered, Operation
  PROVE  AllDelivered'
<1>1. CASE \E ev \in Event, cb \in Callback, tainted \in BOOLEAN :
             RegisterEventCallbackGlobal(ev, cb, tainted)
  BY <1>1, RegisterGlobalDelivers
<1>2. CASE \E ev \in Event, cb \in Callback, tainted \in BOOLEAN :
             UnregisterEventCallbackGlobal(ev, cb, tainted)
  BY <1>2, UnregisterGlobalDelivers
<1>3. CASE \E cb \in Callback : Cancel(cb)
  BY <1>3 DEF Cancel, registry, AllDelivered, GlobalOK
<1>4. CASE \E ev \in Event : SendEvent(ev)
  BY <1>4, SendEventDelivers
<1>5. CASE \E f \in Frame : RegisterAllEvents(f) \/ UnregisterAllEvents(f)
  BY <1>5, FrameOperationDelivers
<1>6. CASE \E f \in Frame, ev \in Event : UnregisterEvent(f, ev)
  BY <1>6, FrameOperationDelivers
<1>7. CASE \E f \in Frame, ev \in Event, tainted \in BOOLEAN : RegisterEvent(f, ev, tainted)
  BY <1>7, FrameOperationDelivers
<1>8. CASE \E f \in Frame, ev \in Event, cb \in Callback, tainted \in BOOLEAN :
             RegisterEventCallback(f, ev, cb, tainted)
  BY <1>8, FrameOperationDelivers
<1> QED
  BY <1>1, <1>2, <1>3, <1>4, <1>5, <1>6, <1>7, <1>8 DEF Operation

\* For every set of frames, callbacks and events and every depth of nested
\* sends: each frame has its OnEvent run exactly as often as it was registered
\* when the send began, and each global callback there when their loop began
\* is reached, none twice, unless one was unregistered meanwhile, whatever the
\* handlers do (events.lua, DoSendEvent).
THEOREM SendsDeliver == Spec => []Delivered
<1>1. Init => AllDelivered
  <2> SUFFICES ASSUME Init PROVE AllDelivered
    OBVIOUS
  <2>1. HListOK(EmptyHList, Callback)
    BY EmptySeq DEF HListOK, EmptyHList
  <2>2. Len(stack) = 0
    BY EmptySeq DEF Init
  <2> QED
    BY <2>1, <2>2 DEF Init, AllDelivered, GlobalOK
<1>2. IInv /\ AllDelivered /\ [Next]_vars => AllDelivered'
  <2> SUFFICES ASSUME IInv, AllDelivered, [Next]_vars PROVE AllDelivered'
    OBVIOUS
  <2>1. CASE UNCHANGED vars
    BY <2>1 DEF vars, AllDelivered, GlobalOK
  <2> QED
    BY <2>1, OperationDelivers, DoSendEventDelivers DEF Next
<1>3. IInv /\ AllDelivered => Delivered
  <2> SUFFICES ASSUME IInv, AllDelivered PROVE Delivered
    OBVIOUS
  <2>1. ASSUME NEW i \in DOMAIN stack
        PROVE  CountsOK(stack[i]) /\ ReachOK(stack[i], global[stack[i].ev])
    BY SeqIsFunction DEF IInv, StackOK, AllDelivered
  <2>2. SnapshotDelivered
    BY <2>1 DEF CountsOK, SnapshotDelivered
  <2>3. ASSUME NEW i \in DOMAIN stack, WalkingFrames(stack[i]), ~stack[i].cut
        PROVE  stack[i].start \subseteq Range(stack[i].got) /\ IsInjective(stack[i].got)
    <3> DEFINE got == stack[i].got
    <3>1. /\ got \in Seq(Callback)
          /\ \A c \in stack[i].start : \E k \in 1 .. Len(got) : got[k] = c
          /\ \A j, k \in 1 .. Len(got) : j < k => got[j] # got[k]
      BY <2>1, <2>3 DEF ReachOK, WalkingFrames
    <3> HIDE DEF got
    <3>2. DOMAIN got = 1 .. Len(got) /\ Len(got) \in Nat
      BY <3>1
    <3>3. stack[i].start \subseteq Range(got)
      BY <3>1, <3>2 DEF Range
    <3>4. IsInjective(got)
      <4> SUFFICES ASSUME NEW a \in 1 .. Len(got), NEW b \in 1 .. Len(got), got[a] = got[b]
                   PROVE  a = b
        BY <3>2 DEF IsInjective
      <4> QED
        BY <3>1, <3>2
    <3> QED
      BY <3>3, <3>4 DEF got
  <2>4. GlobalCallbacksReached
    BY <2>3 DEF GlobalCallbacksReached
  <2> QED
    BY <2>2, <2>4 DEF Delivered
<1>4. Spec => []AllDelivered
  BY <1>1, <1>2, IInvAlways, PTL DEF Spec
<1> QED
  BY <1>3, <1>4, IInvAlways, PTL
=============================================================================
