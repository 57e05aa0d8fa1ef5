------------------------------- MODULE Timers -------------------------------
(***************************************************************************)
(* The timers of src/wowless/modules/time.lua.  A heap orders the timers   *)
(* by the time they are due.  Advance moves the clock and runs what is     *)
(* due; a callback may make and cancel timers while Advance is in its      *)
(* loop.  A callback is a function container (funtainer.lua): cancelling   *)
(* it stops every timer that shares it.                                    *)
(***************************************************************************)
EXTENDS Naturals

CONSTANTS
  Timer, Callback,    \* timer records; function containers
  NoTimer,            \* no timer's callback is running
  Seconds,            \* the delays callers ask for
  Iterations,         \* the iteration counts callers ask for
  Elapsed,            \* the frame lengths given to Advance
  Start, MaxStamp     \* the clock's first value; bound: its last

ASSUME NoTimerAssumption == NoTimer \notin Timer
ASSUME TimeAssumption ==
  /\ Seconds \subseteq Nat /\ Iterations \subseteq Nat /\ Elapsed \subseteq Nat
  /\ Start \in Nat /\ MaxStamp \in Nat

VARIABLES
  stamp,              \* the clock
  made,               \* timers created so far
  rec,                \* Timer -> its record
  heap,               \* the entries [timer, pri] of the heap
  cancelled,          \* callbacks cancelled
  advancing,          \* Advance is in its loop
  running,            \* the timer whose callback Advance is running
  ran,                \* history: timers run by this Advance
  latest,             \* history: due time of the last one of them
  since               \* history: Timer -> when it was made or last run

vars == <<stamp, made, rec, heap, cancelled, advancing, running, ran, latest, since>>

Entry == [timer : Timer, pri : Nat]
Scheduled(t) == \E e \in heap : e.timer = t

\* addTimer: due `seconds' after the clock's present value.
Added(h, t, seconds) == h \cup {[timer |-> t, pri |-> stamp + seconds]}

Init ==
  /\ stamp = Start /\ made = {} /\ heap = {} /\ cancelled = {}
  /\ rec \in [Timer -> [cb : Callback, count : {0}, iterations : {0}, seconds : {0}]]
  /\ advancing = FALSE /\ running = NoTimer
  /\ ran = {} /\ latest = 0 /\ since = [t \in Timer |-> Start]

\* Lua code runs: outside Advance, or as the callback that Advance runs.
LuaRuns == advancing => running # NoTimer

\* After and NewTimer ask for one iteration, NewTicker for as many as it says.
newTicker(t, seconds, cb, iterations) ==
  /\ LuaRuns /\ t \notin made
  /\ made' = made \cup {t}
  /\ rec' = [rec EXCEPT ![t] = [cb |-> cb, count |-> 0, iterations |-> iterations,
                                seconds |-> seconds]]
  /\ heap' = Added(heap, t, seconds)
  /\ since' = [since EXCEPT ![t] = stamp]
  /\ UNCHANGED <<stamp, cancelled, advancing, running, ran, latest>>

Cancel(cb) ==
  /\ LuaRuns
  /\ cancelled' = cancelled \cup {cb}
  /\ UNCHANGED <<stamp, made, rec, heap, advancing, running, ran, latest, since>>

-----------------------------------------------------------------------------

BeginAdvance(elapsed) ==
  /\ ~advancing /\ stamp + elapsed <= MaxStamp
  /\ stamp' = stamp + elapsed
  /\ advancing' = TRUE
  /\ ran' = {} /\ latest' = 0
  /\ UNCHANGED <<made, rec, heap, cancelled, running, since>>

\* A variant with a slip in it: an entry due at the clock's value is taken too.
IsFirstInclusive(e) ==
  /\ e \in heap /\ e.pri <= stamp
  /\ \A x \in heap : e.pri <= x.pri

\* A variant with a slip in it: any due entry is taken.
IsDue(e) == e \in heap /\ e.pri < stamp

\* The loop's condition and pop: among equals the heap may give any.
IsFirst(e) ==
  /\ e \in heap /\ e.pri < stamp
  /\ \A x \in heap : e.pri <= x.pri

\* A variant with a slip in it: one iteration too many.
LiveOnceMore(t) == rec[t].cb \notin cancelled /\ rec[t].count <= rec[t].iterations

Live(t) == rec[t].cb \notin cancelled /\ rec[t].count < rec[t].iterations

\* A variant with a slip in it: the entry is looked at and left there.
DiscardPeek(e) ==
  /\ advancing /\ running = NoTimer
  /\ IsFirst(e) /\ ~Live(e.timer)
  /\ UNCHANGED vars

\* A cancelled or exhausted timer is popped and forgotten.
Discard(e) ==
  /\ advancing /\ running = NoTimer
  /\ IsFirst(e) /\ ~Live(e.timer)
  /\ heap' = heap \ {e}
  /\ UNCHANGED <<stamp, made, rec, cancelled, advancing, running, ran, latest, since>>

Invoke(e) ==
  /\ advancing /\ running = NoTimer
  /\ IsFirst(e) /\ Live(e.timer)
  /\ heap' = heap \ {e}
  /\ running' = e.timer
  /\ ran' = ran \cup {e.timer} /\ latest' = e.pri
  /\ UNCHANGED <<stamp, made, rec, cancelled, advancing, since>>

\* A variant with a slip in it: a timer is put back only once.
ReturnedOnce ==
  /\ running # NoTimer
  /\ rec' = [rec EXCEPT ![running].count = @ + 1]
  /\ heap' = IF rec[running].count = 0 THEN Added(heap, running, rec[running].seconds) ELSE heap
  /\ since' = [since EXCEPT ![running] = stamp]
  /\ running' = NoTimer
  /\ UNCHANGED <<stamp, made, cancelled, advancing, ran, latest>>

\* The callback returns (an error in it ends there, CallSandbox): the timer
\* is counted and put back, even when it has no iteration left.
Returned ==
  /\ running # NoTimer
  /\ rec' = [rec EXCEPT ![running].count = @ + 1]
  /\ heap' = Added(heap, running, rec[running].seconds)
  /\ since' = [since EXCEPT ![running] = stamp]
  /\ running' = NoTimer
  /\ UNCHANGED <<stamp, made, cancelled, advancing, ran, latest>>

\* Variants with a slip in them: the loop ends at a cancelled entry, or while
\* a callback is running.
EndAtDead ==
  /\ advancing /\ running = NoTimer
  /\ \A e \in heap : IsFirst(e) => ~Live(e.timer)
  /\ advancing' = FALSE
  /\ UNCHANGED <<stamp, made, rec, heap, cancelled, running, ran, latest, since>>

EndWhileRunning ==
  /\ advancing
  /\ \A e \in heap : stamp <= e.pri
  /\ advancing' = FALSE
  /\ UNCHANGED <<stamp, made, rec, heap, cancelled, running, ran, latest, since>>

\* The loop's condition fails: the first entry, so every entry, is not due.
EndAdvance ==
  /\ advancing /\ running = NoTimer
  /\ \A e \in heap : stamp <= e.pri
  /\ advancing' = FALSE
  /\ UNCHANGED <<stamp, made, rec, heap, cancelled, running, ran, latest, since>>

AdvanceLoop ==
  \/ \E e \in heap : Discard(e) \/ Invoke(e)
  \/ Returned \/ EndAdvance

Next ==
  \/ \E t \in Timer, s \in Seconds, cb \in Callback, n \in Iterations :
       newTicker(t, s, cb, n)
  \/ \E cb \in Callback : Cancel(cb)
  \/ \E elapsed \in Elapsed : BeginAdvance(elapsed)
  \/ AdvanceLoop

Spec == Init /\ [][Next]_vars /\ WF_vars(AdvanceLoop)

-----------------------------------------------------------------------------
(* Properties *)

\* The types of the variables; a callback runs only within Advance.
TypeOK ==
  /\ stamp \in Nat /\ made \subseteq Timer /\ heap \subseteq Entry
  /\ rec \in [Timer -> [cb : Callback, count : Nat, iterations : Nat, seconds : Nat]]
  /\ cancelled \subseteq Callback /\ advancing \in BOOLEAN
  /\ running \in Timer \cup {NoTimer} /\ (running # NoTimer => advancing)
  /\ ran \subseteq Timer /\ latest \in Nat /\ since \in [Timer -> Nat]

\* No timer is lost or doubled: every timer made that is neither cancelled nor
\* exhausted is in the heap or has its callback running, and no timer is in
\* the heap twice, or in the heap while its callback runs (time.lua:26-39).
NoneLost ==
  /\ \A t \in made : Live(t) => Scheduled(t) \/ running = t
  /\ \A e \in heap : e.timer \in made /\ e.timer # running
  /\ \A e, x \in heap : e.timer = x.timer => e = x

\* A timer runs its callback at most `iterations' times (the count is raised
\* only after the callback, which may start and cancel timers itself).
WithinIterations ==
  \A t \in made : rec[t].count + (IF running = t THEN 1 ELSE 0) <= rec[t].iterations

\* When Advance is done nothing that it should have run is left.
DueWorkDone == ~advancing => \A e \in heap : stamp <= e.pri

\* A timer runs only when more than `seconds' have passed since it was made
\* or last run, so never twice in one Advance and never in the Advance whose
\* callbacks made it (time.lua:28, `<', and time.lua:12).
NeverEarly ==
  running # NoTimer => since[running] + rec[running].seconds < stamp

\* Advance runs what is due, all of it and nothing else: no timer early, none
\* more often than its iterations, none left behind (time.lua:26-39).
OnTime == NeverEarly /\ WithinIterations /\ DueWorkDone

\* Within one Advance callbacks run in the order of their due times, each
\* timer once, although callbacks add timers meanwhile.
InDueOrder ==
  [][running = NoTimer /\ running' # NoTimer =>
       running' \notin ran /\ latest <= latest']_vars

\* Advance comes to its end, provided callbacks return: a timer put back is
\* due no earlier than now, so the loop does not meet it again.
AdvanceEnds == advancing ~> ~advancing

=============================================================================
