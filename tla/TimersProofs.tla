---------------------------- MODULE TimersProofs ----------------------------
(***************************************************************************)
(* The safety of the timers for any number of timers and callbacks, any    *)
(* delays, iteration counts and frame lengths.                             *)
(***************************************************************************)
EXTENDS Timers, TLAPS

\* An entry is due `seconds' after its timer was made or last run.
DueTimes == \A e \in heap : e.pri = since[e.timer] + rec[e.timer].seconds

\* What keeps the order: a timer this Advance has run is not due again in
\* it, and no due entry is older than the one run last.
Order ==
  /\ running # NoTimer => running \in ran
  /\ \A e \in heap : e.timer \in ran => stamp <= e.pri
  /\ \A e \in heap : e.pri < stamp => latest <= e.pri

\* WithinIterations and NoneLost are about the same hand-over of a timer
\* between the heap and the running callback; NeverEarly needs DueTimes.
RunningMade == running # NoTimer => running \in made /\ rec[running].count < rec[running].iterations

IInv ==
  /\ TypeOK /\ NoneLost /\ WithinIterations /\ DueWorkDone /\ NeverEarly
  /\ DueTimes /\ Order /\ RunningMade

-----------------------------------------------------------------------------

\* No timer has been made.
LEMMA IInvInit == Init => IInv
<1> SUFFICES ASSUME Init PROVE IInv
  OBVIOUS
<1>1. TypeOK
  <2>1. rec \in [Timer -> [cb : Callback, count : Nat, iterations : Nat, seconds : Nat]]
    BY DEF Init
  <2>2. since \in [Timer -> Nat]
    BY TimeAssumption DEF Init
  <2> QED
    BY <2>1, <2>2, TimeAssumption DEF Init, TypeOK
<1>2. NoneLost /\ WithinIterations /\ DueWorkDone /\ NeverEarly
  BY DEF Init, NoneLost, WithinIterations, DueWorkDone, NeverEarly
<1>3. DueTimes /\ Order /\ RunningMade
  BY DEF Init, DueTimes, Order, RunningMade
<1> QED
  BY <1>1, <1>2, <1>3 DEF IInv

\* Every step keeps the types.
LEMMA TypeStep == IInv /\ [Next]_vars => TypeOK'
<1> SUFFICES ASSUME IInv, [Next]_vars PROVE TypeOK'
  OBVIOUS
<1> USE NoTimerAssumption, TimeAssumption DEF IInv, TypeOK, Entry
<1>1. ASSUME NEW t \in Timer, NEW s \in Seconds, NEW cb \in Callback, NEW n \in Iterations,
             newTicker(t, s, cb, n)
      PROVE  TypeOK'
  BY <1>1 DEF newTicker, Added
<1>2. ASSUME NEW cb \in Callback, Cancel(cb) PROVE TypeOK'
  BY <1>2 DEF Cancel
<1>3. ASSUME NEW elapsed \in Elapsed, BeginAdvance(elapsed) PROVE TypeOK'
  BY <1>3 DEF BeginAdvance
<1>4. ASSUME NEW e \in heap, Discard(e) PROVE TypeOK'
  BY <1>4 DEF Discard
<1>5. ASSUME NEW e \in heap, Invoke(e) PROVE TypeOK'
  BY <1>5 DEF Invoke
<1>6. CASE Returned
  BY <1>6 DEF Returned, Added
<1>7. CASE EndAdvance
  BY <1>7 DEF EndAdvance
<1>8. CASE UNCHANGED vars
  BY <1>8 DEF vars
<1> QED
  BY <1>1, <1>2, <1>3, <1>4, <1>5, <1>6, <1>7, <1>8 DEF Next, AdvanceLoop

\* Every step keeps the rest of the invariant.
LEMMA IInvStep == IInv /\ [Next]_vars => IInv'
<1> SUFFICES ASSUME IInv, [Next]_vars PROVE IInv'
  OBVIOUS
<1>t. TypeOK /\ TypeOK'
  BY TypeStep DEF IInv
<1> USE NoTimerAssumption, TimeAssumption, <1>t
<1>1. ASSUME NEW t \in Timer, NEW s \in Seconds, NEW cb \in Callback, NEW n \in Iterations,
             newTicker(t, s, cb, n)
      PROVE  IInv'
  <2> DEFINE new == [timer |-> t, pri |-> stamp + s]
  <2>0. /\ t \notin made /\ made' = made \cup {t} /\ heap' = heap \cup {new}
        /\ rec' = [rec EXCEPT ![t] = [cb |-> cb, count |-> 0, iterations |-> n, seconds |-> s]]
        /\ since' = [since EXCEPT ![t] = stamp]
        /\ UNCHANGED <<stamp, cancelled, advancing, running, ran, latest>>
    BY <1>1 DEF newTicker, Added
  <2>1. \A e \in heap : e.timer \in made /\ e.timer # t
    BY <2>0 DEF IInv, NoneLost
  <2>2. running # t
    BY <2>0 DEF IInv, RunningMade
  <2>3. NoneLost'
    <3>1. \A u \in made' : Live(u)' => Scheduled(u)' \/ running' = u
      <4> SUFFICES ASSUME NEW u \in made', Live(u)' PROVE Scheduled(u)' \/ running' = u
        OBVIOUS
      <4>1. CASE u = t
        <5>1. new \in heap' /\ new.timer = u
          BY <2>0, <4>1
        <5> QED
          BY <5>1 DEF Scheduled
      <4>2. CASE u # t
        <5>1. u \in made /\ rec'[u] = rec[u]
          BY <2>0, <4>2 DEF TypeOK
        <5>2. cancelled' = cancelled
          BY <2>0
        <5>3. Live(u)
          BY <5>1, <5>2 DEF Live
        <5>4. Scheduled(u) \/ running = u
          BY <5>1, <5>3 DEF IInv, NoneLost
        <5> QED
          BY <2>0, <5>4 DEF Scheduled
      <4> QED
        BY <4>1, <4>2
    <3>2. \A e \in heap' : e.timer \in made' /\ e.timer # running'
      BY <2>0, <2>1, <2>2 DEF IInv, NoneLost
    <3>3. \A e, x \in heap' : e.timer = x.timer => e = x
      BY <2>0, <2>1 DEF IInv, NoneLost
    <3> QED
      BY <3>1, <3>2, <3>3 DEF NoneLost
  <2>4. WithinIterations' /\ RunningMade'
    BY <2>0, <2>2 DEF IInv, TypeOK, WithinIterations, RunningMade
  <2>5. DueWorkDone' /\ Order'
    BY <2>0 DEF IInv, TypeOK, Entry, DueWorkDone, Order
  <2>6. NeverEarly' /\ DueTimes'
    BY <2>0, <2>1, <2>2 DEF IInv, TypeOK, Entry, NeverEarly, DueTimes
  <2> QED
    BY <2>3, <2>4, <2>5, <2>6 DEF IInv
<1>2. ASSUME NEW cb \in Callback, Cancel(cb) PROVE IInv'
  BY <1>2 DEF Cancel, IInv, NoneLost, Live, Scheduled, WithinIterations, DueWorkDone,
              NeverEarly, DueTimes, Order, RunningMade
<1>3. ASSUME NEW elapsed \in Elapsed, BeginAdvance(elapsed) PROVE IInv'
  <2>0. /\ stamp' = stamp + elapsed /\ advancing' /\ running = NoTimer
        /\ ran' = {} /\ latest' = 0
        /\ UNCHANGED <<made, rec, heap, cancelled, running, since>>
    BY <1>3 DEF BeginAdvance, TypeOK
  <2>1. NoneLost' /\ WithinIterations' /\ DueTimes' /\ RunningMade'
    BY <2>0 DEF IInv, NoneLost, Live, Scheduled, WithinIterations, DueTimes, RunningMade
  <2>2. DueWorkDone' /\ NeverEarly' /\ Order'
    BY <2>0 DEF DueWorkDone, NeverEarly, Order, TypeOK, Entry
  <2> QED
    BY <2>1, <2>2 DEF IInv
<1>4. ASSUME NEW e \in heap, Discard(e) PROVE IInv'
  <2>0. /\ advancing /\ running = NoTimer /\ ~Live(e.timer) /\ heap' = heap \ {e}
        /\ UNCHANGED <<stamp, made, rec, cancelled, advancing, running, ran, latest, since>>
    BY <1>4 DEF Discard
  <2>1. NoneLost'
    BY <2>0 DEF IInv, NoneLost, Live, Scheduled
  <2>2. WithinIterations' /\ RunningMade' /\ DueWorkDone' /\ NeverEarly' /\ DueTimes' /\ Order'
    BY <2>0 DEF IInv, WithinIterations, RunningMade, DueWorkDone, NeverEarly, DueTimes, Order
  <2> QED
    BY <2>1, <2>2 DEF IInv
<1>5. ASSUME NEW e \in heap, Invoke(e) PROVE IInv'
  <2>0. /\ advancing /\ running = NoTimer /\ Live(e.timer) /\ heap' = heap \ {e}
        /\ e.pri < stamp /\ \A x \in heap : e.pri <= x.pri
        /\ running' = e.timer /\ ran' = ran \cup {e.timer} /\ latest' = e.pri
        /\ UNCHANGED <<stamp, made, rec, cancelled, advancing, since>>
    BY <1>5 DEF Invoke, IsFirst
  <2>1. /\ e.timer \in made /\ e.timer \in Timer /\ e.pri \in Nat
        /\ \A x \in heap' : x \in heap /\ x.timer # e.timer
    BY <2>0 DEF IInv, NoneLost, TypeOK, Entry
  <2>2. NoneLost'
    <3>1. \A u \in made' : Live(u)' => Scheduled(u)' \/ running' = u
      <4> SUFFICES ASSUME NEW u \in made, Live(u), u # e.timer PROVE Scheduled(u)'
        BY <2>0 DEF Live
      <4>1. PICK x \in heap : x.timer = u
        BY <2>0 DEF IInv, NoneLost, Scheduled, TypeOK
      <4> QED
        BY <2>0, <4>1 DEF Scheduled
    <3>2. \A x \in heap' : x.timer \in made' /\ x.timer # running'
      BY <2>0, <2>1 DEF IInv, NoneLost
    <3>3. \A x, y \in heap' : x.timer = y.timer => x = y
      BY <2>0 DEF IInv, NoneLost
    <3> QED
      BY <3>1, <3>2, <3>3 DEF NoneLost
  <2>3. WithinIterations' /\ RunningMade'
    BY <2>0, <2>1 DEF IInv, TypeOK, WithinIterations, RunningMade, Live
  <2>4. NeverEarly' /\ DueTimes' /\ DueWorkDone'
    BY <2>0, <2>1 DEF IInv, NeverEarly, DueTimes, DueWorkDone
  <2>5. Order'
    BY <2>0, <2>1 DEF IInv, Order
  <2> QED
    BY <2>2, <2>3, <2>4, <2>5 DEF IInv
<1>6. CASE Returned
  <2> DEFINE t   == running
             new == [timer |-> t, pri |-> stamp + rec[t].seconds]
  <2>0. /\ running # NoTimer /\ running' = NoTimer /\ heap' = heap \cup {new}
        /\ rec' = [rec EXCEPT ![t].count = @ + 1]
        /\ since' = [since EXCEPT ![t] = stamp]
        /\ UNCHANGED <<stamp, made, cancelled, advancing, ran, latest>>
    BY <1>6 DEF Returned, Added
  <2>1. /\ t \in Timer /\ t \in made /\ t \in ran /\ rec[t].count < rec[t].iterations
        /\ advancing /\ \A x \in heap : x.timer # t
    BY <2>0 DEF IInv, TypeOK, RunningMade, Order, NoneLost
  <2>2. \A u \in Timer : /\ rec'[u].seconds = rec[u].seconds /\ rec'[u].cb = rec[u].cb
                         /\ rec'[u].iterations = rec[u].iterations
                         /\ rec'[u].count = IF u = t THEN rec[u].count + 1 ELSE rec[u].count
    BY <2>0 DEF TypeOK
  <2>3. NoneLost'
    <3>1. \A u \in made' : Live(u)' => Scheduled(u)' \/ running' = u
      <4> SUFFICES ASSUME NEW u \in made, Live(u)' PROVE Scheduled(u)'
        BY <2>0
      <4>1. CASE u = t
        <5>1. new \in heap' /\ new.timer = u
          BY <2>0, <4>1
        <5> QED
          BY <5>1 DEF Scheduled
      <4>2. CASE u # t
        <5>1. rec'[u] = rec[u]
          BY <2>0, <4>2 DEF TypeOK
        <5>2. cancelled' = cancelled
          BY <2>0
        <5>3. Live(u)
          BY <5>1, <5>2 DEF Live
        <5>4. PICK x \in heap : x.timer = u
          BY <4>2, <5>3 DEF IInv, NoneLost, Scheduled
        <5> QED
          BY <2>0, <5>4 DEF Scheduled
      <4> QED
        BY <4>1, <4>2
    <3>2. \A x \in heap' : x.timer \in made' /\ x.timer # running'
      BY <2>0, <2>1 DEF IInv, NoneLost, TypeOK, Entry
    <3>3. \A x, y \in heap' : x.timer = y.timer => x = y
      BY <2>0, <2>1 DEF IInv, NoneLost
    <3> QED
      BY <3>1, <3>2, <3>3 DEF NoneLost
  <2>4. WithinIterations' /\ RunningMade'
    BY <2>0, <2>1, <2>2 DEF IInv, TypeOK, WithinIterations, RunningMade
  <2>5. NeverEarly' /\ DueWorkDone'
    BY <2>0, <2>1 DEF NeverEarly, DueWorkDone
  <2>6. DueTimes'
    BY <2>0, <2>1, <2>2 DEF IInv, DueTimes, TypeOK, Entry
  <2>7. Order'
    BY <2>0, <2>1 DEF IInv, Order, TypeOK, Entry
  <2> QED
    BY <2>3, <2>4, <2>5, <2>6, <2>7 DEF IInv
<1>7. CASE EndAdvance
  BY <1>7 DEF EndAdvance, IInv, NoneLost, Live, Scheduled, WithinIterations, DueWorkDone,
              NeverEarly, DueTimes, Order, RunningMade
<1>8. CASE UNCHANGED vars
  BY <1>8 DEF vars, IInv, NoneLost, Live, Scheduled, WithinIterations, DueWorkDone,
              NeverEarly, DueTimes, Order, RunningMade
<1> QED
  BY <1>1, <1>2, <1>3, <1>4, <1>5, <1>6, <1>7, <1>8 DEF Next, AdvanceLoop

\* The invariant holds in every state.
LEMMA IInvAlways == Spec => []IInv
BY IInvInit, IInvStep, PTL DEF Spec

-----------------------------------------------------------------------------

\* No timer is lost or doubled between the heap and its callback.
THEOREM TimersNoneLost == Spec => []NoneLost
<1>1. IInv => NoneLost
  BY DEF IInv
<1> QED
  BY IInvAlways, <1>1, PTL

\* A timer never runs more often than it was asked to.
THEOREM TimersWithinIterations == Spec => []WithinIterations
<1>1. IInv => WithinIterations
  BY DEF IInv
<1> QED
  BY IInvAlways, <1>1, PTL

\* Between Advances nothing is overdue.
THEOREM TimersDueWorkDone == Spec => []DueWorkDone
<1>1. IInv => DueWorkDone
  BY DEF IInv
<1> QED
  BY IInvAlways, <1>1, PTL

\* No callback runs before its delay has passed.
THEOREM TimersNeverEarly == Spec => []NeverEarly
<1>1. IInv => NeverEarly
  BY DEF IInv
<1> QED
  BY IInvAlways, <1>1, PTL

\* Advance runs what is due, all of it and nothing else.
THEOREM TimersOnTime == Spec => []OnTime
<1>1. NeverEarly /\ WithinIterations /\ DueWorkDone => OnTime
  BY DEF OnTime
<1> QED
  BY <1>1, TimersNeverEarly, TimersWithinIterations, TimersDueWorkDone, PTL

\* Callbacks of one Advance run in due order, each timer at most once.
THEOREM TimersInDueOrder == Spec => InDueOrder
<1>1. IInv /\ [Next]_vars =>
        [running = NoTimer /\ running' # NoTimer => running' \notin ran /\ latest <= latest']_vars
  <2> SUFFICES ASSUME IInv, [Next]_vars, running = NoTimer, running' # NoTimer
               PROVE  running' \notin ran /\ latest <= latest'
    OBVIOUS
  <2>1. PICK e \in heap : Invoke(e)
    BY DEF Next, AdvanceLoop, vars, newTicker, Cancel, BeginAdvance, Discard, Returned, EndAdvance
  <2>2. /\ e.pri < stamp /\ running' = e.timer /\ latest' = e.pri
        /\ e.pri \in Nat /\ stamp \in Nat
    BY <2>1 DEF Invoke, IsFirst, IInv, TypeOK, Entry
  <2> QED
    BY <2>2 DEF IInv, Order
<1> QED
  BY IInvAlways, <1>1, PTL DEF Spec, InDueOrder

=============================================================================
