--------------------------- MODULE MainLoopProofs ---------------------------
(***************************************************************************)
(* The queues of the main loop, for any number of calls, any limit and any *)
(* frames: no event is lost, doubled or overtaken, the warnings of a frame *)
(* are no more than the limit, in order, and none is kept for the next     *)
(* frame; and the OnUpdate loop reaches every frame that is shown.         *)
(***************************************************************************)
EXTENDS MainLoop, HListLemmas

\* How many events of the queue have been sent.
Done == IF phase = "events" THEN cursor ELSE 0

\* The types of what the queues and their histories are made of.
QueueTypes ==
  /\ eventqueue \in Seq(Nat) /\ sent \in Seq(Nat)
  /\ warningqueue \in Seq(Warning) /\ xmlwarningqueue \in Seq(Warning)
  /\ events \in Nat /\ warnings \in Nat /\ closed \in Nat /\ cursor \in Nat

\* The queue holds the last of the events queued, by their numbers; those
\* sent are all before them, and those of the queue that are done.
EventNumbers ==
  /\ Done <= Len(eventqueue) /\ Len(eventqueue) <= events
  /\ Len(sent) = events - Len(eventqueue) + Done
  /\ \A i \in 1 .. Len(eventqueue) : eventqueue[i] = events - Len(eventqueue) + i
  /\ \A i \in 1 .. Len(sent) : sent[i] = i

\* Outside its drain the warning queue has only what was raised since the
\* last one; the XML reader's warnings come into it with the drain.
WarningNumbers ==
  /\ closed <= warnings
  /\ phase # "warnings" =>
       \A i \in 1 .. Len(warningqueue) : ~warningqueue[i].xml /\ warningqueue[i].n > closed

IInv == QueueTypes /\ EventNumbers /\ WarningNumbers

-----------------------------------------------------------------------------

\* All queues are empty.
LEMMA IInvInit == Init => IInv
<1> SUFFICES ASSUME Init PROVE IInv
  OBVIOUS
<1>1. QueueTypes
  BY DEF Init, QueueTypes
<1>2. EventNumbers
  <2>1. /\ Len(eventqueue) = 0 /\ Len(sent) = 0 /\ Done = 0 /\ events = 0
    BY EmptySeq DEF Init, Done
  <2> QED
    BY <2>1 DEF EventNumbers
<1>3. WarningNumbers
  BY EmptySeq DEF Init, WarningNumbers
<1> QED
  BY <1>1, <1>2, <1>3 DEF IInv

\* A step that leaves the queues and their counts alone, and does not enter
\* or leave a drain, keeps the invariant.
LEMMA QuietStep ==
  ASSUME IInv, UNCHANGED <<queues, cursor, counts, sent>>,
         phase' = phase \/ {phase, phase'} \cap {"events", "warnings"} = {}
  PROVE  IInv'
<1>1. QueueTypes'
  BY DEF IInv, QueueTypes, queues, counts
<1>2. Done' = Done
  BY DEF Done
<1>3. EventNumbers'
  BY <1>2 DEF IInv, EventNumbers, queues, counts
<1>4. WarningNumbers'
  BY DEF IInv, WarningNumbers, queues, counts
<1> QED
  BY <1>1, <1>3, <1>4 DEF IInv

\* A new event is the last, with the next number.
LEMMA QueueEventStep == IInv /\ QueueEvent => IInv'
<1> SUFFICES ASSUME IInv, QueueEvent PROVE IInv'
  OBVIOUS
<1>1. /\ events' = events + 1 /\ eventqueue' = Append(eventqueue, events')
      /\ UNCHANGED <<phase, cursor, sent, warningqueue, xmlwarningqueue, warnings, closed>>
  BY DEF QueueEvent, log
<1>2. QueueTypes'
  BY <1>1 DEF IInv, QueueTypes
<1>3. /\ Len(eventqueue') = Len(eventqueue) + 1
      /\ \A i \in 1 .. Len(eventqueue) : eventqueue'[i] = eventqueue[i]
      /\ eventqueue'[Len(eventqueue) + 1] = events + 1
  BY <1>1 DEF IInv, QueueTypes
<1>4. Done' = Done
  BY <1>1 DEF Done
<1>5. EventNumbers'
  <2>0. /\ Len(eventqueue) \in Nat /\ events \in Nat /\ Done \in Nat /\ Len(sent) \in Nat
        /\ Len(eventqueue') = Len(eventqueue) + 1 /\ events' = events + 1 /\ sent' = sent
    BY <1>1, <1>3 DEF IInv, QueueTypes, Done
  <2>1. Done' <= Len(eventqueue)' /\ Len(eventqueue)' <= events'
    BY <2>0, <1>4 DEF IInv, EventNumbers
  <2>2. Len(sent') = events' - Len(eventqueue') + Done'
    <3>1. Len(sent) = events - Len(eventqueue) + Done
      BY DEF IInv, EventNumbers
    <3>2. Len(sent') = Len(sent)
      BY <2>0
    <3> QED
      BY <2>0, <3>1, <3>2, <1>4
  <2>3. ASSUME NEW i \in 1 .. Len(eventqueue')
        PROVE  eventqueue'[i] = events' - Len(eventqueue') + i
    <3>1. CASE i \in 1 .. Len(eventqueue)
      BY <1>3, <2>0, <3>1 DEF IInv, EventNumbers
    <3>2. CASE i = Len(eventqueue) + 1
      BY <1>3, <2>0, <3>2
    <3> QED
      BY <2>0, <3>1, <3>2
  <2>4. \A i \in 1 .. Len(sent)' : sent'[i] = i
    BY <1>1 DEF IInv, EventNumbers
  <2> QED
    BY <2>1, <2>2, <2>3, <2>4 DEF EventNumbers
<1>6. WarningNumbers'
  BY <1>1 DEF IInv, WarningNumbers
<1> QED
  BY <1>2, <1>5, <1>6 DEF IInv

\* A new warning has a number above all those of the last drain.
LEMMA QueueWarningStep == IInv /\ (QueueWarning \/ QueueXmlWarning) => IInv'
<1> SUFFICES ASSUME IInv, QueueWarning \/ QueueXmlWarning PROVE IInv'
  OBVIOUS
<1>1. /\ warnings' = warnings + 1
      /\ UNCHANGED <<phase, cursor, sent, eventqueue, events, closed>>
  BY DEF QueueWarning, QueueXmlWarning, log
<1>2. \/ /\ warningqueue' = Append(warningqueue, [xml |-> FALSE, n |-> warnings'])
         /\ UNCHANGED xmlwarningqueue
      \/ /\ xmlwarningqueue' = Append(xmlwarningqueue, [xml |-> TRUE, n |-> warnings'])
         /\ UNCHANGED warningqueue
  BY DEF QueueWarning, QueueXmlWarning
<1>3. warnings \in Nat /\ warnings' \in Nat
  BY <1>1 DEF IInv, QueueTypes
<1>4. [xml |-> FALSE, n |-> warnings'] \in Warning /\ [xml |-> TRUE, n |-> warnings'] \in Warning
  BY <1>3 DEF Warning
<1>5. QueueTypes'
  <2>1. warningqueue' \in Seq(Warning) /\ xmlwarningqueue' \in Seq(Warning)
    <3>1. warningqueue \in Seq(Warning) /\ xmlwarningqueue \in Seq(Warning)
      BY DEF IInv, QueueTypes
    <3>2. /\ Append(warningqueue, [xml |-> FALSE, n |-> warnings']) \in Seq(Warning)
          /\ Append(xmlwarningqueue, [xml |-> TRUE, n |-> warnings']) \in Seq(Warning)
      BY <1>4, <3>1, AppendProperties
    <3> QED
      BY <1>2, <3>1, <3>2
  <2> QED
    BY <1>1, <1>3, <2>1 DEF IInv, QueueTypes
<1>6. EventNumbers'
  BY <1>1 DEF IInv, EventNumbers, Done
<1>7. WarningNumbers'
  <2>1. closed <= warnings /\ closed < warnings'
    BY <1>1, <1>3 DEF IInv, WarningNumbers, QueueTypes
  <2>2. ASSUME phase # "warnings", NEW i \in 1 .. Len(warningqueue')
        PROVE  ~warningqueue'[i].xml /\ warningqueue'[i].n > closed
    <3>1. CASE i \in 1 .. Len(warningqueue)
      <4>1. warningqueue'[i] = warningqueue[i]
        BY <1>2, <3>1 DEF IInv, QueueTypes
      <4> QED
        BY <2>2, <3>1, <4>1 DEF IInv, WarningNumbers
    <3>2. CASE i \notin 1 .. Len(warningqueue)
      <4>1. warningqueue'[i] = [xml |-> FALSE, n |-> warnings']
        BY <1>2, <2>2, <3>2 DEF IInv, QueueTypes
      <4> QED
        BY <2>1, <4>1, <1>3 DEF IInv, QueueTypes
    <3> QED
      BY <3>1, <3>2
  <2> QED
    BY <1>1, <2>1, <2>2, <1>3 DEF WarningNumbers, IInv, QueueTypes
<1> QED
  BY <1>5, <1>6, <1>7 DEF IInv

\* A drained event is the next by its number.
LEMMA DrainEventsStep == IInv /\ DrainEvents => IInv'
<1> SUFFICES ASSUME IInv, DrainEvents PROVE IInv'
  OBVIOUS
<1>1. /\ phase = "events" /\ phase' = "events" /\ cursor < Len(eventqueue)
      /\ cursor' = cursor + 1 /\ sent' = Append(sent, eventqueue[cursor + 1])
      /\ UNCHANGED <<eventqueue, warningqueue, xmlwarningqueue, events, warnings, closed>>
  BY DEF DrainEvents, At, queues, counts
<1>2. /\ cursor \in Nat /\ Len(eventqueue) \in Nat /\ events \in Nat /\ Len(sent) \in Nat
      /\ cursor + 1 \in 1 .. Len(eventqueue) /\ eventqueue[cursor + 1] \in Nat
  BY <1>1 DEF IInv, QueueTypes
<1>3. Done = cursor /\ Done' = cursor + 1
  BY <1>1 DEF Done
<1>4. /\ sent' \in Seq(Nat) /\ Len(sent') = Len(sent) + 1
      /\ sent'[Len(sent) + 1] = eventqueue[cursor + 1]
      /\ \A i \in 1 .. Len(sent) : sent'[i] = sent[i]
  BY <1>1, <1>2, AppendProperties DEF IInv, QueueTypes
<1>5. QueueTypes'
  BY <1>1, <1>2, <1>4 DEF IInv, QueueTypes
<1>6. EventNumbers'
  <2>1. Len(sent) = events - Len(eventqueue) + cursor
    BY <1>3 DEF IInv, EventNumbers
  <2>2. eventqueue[cursor + 1] = Len(sent) + 1
    BY <1>2, <2>1 DEF IInv, EventNumbers
  <2>3. ASSUME NEW i \in 1 .. Len(sent') PROVE sent'[i] = i
    <3>1. CASE i \in 1 .. Len(sent)
      BY <1>4, <3>1 DEF IInv, EventNumbers
    <3>2. CASE i = Len(sent) + 1
      BY <1>4, <2>2, <3>2
    <3> QED
      BY <1>2, <1>4, <3>1, <3>2
  <2> QED
    BY <1>1, <1>2, <1>3, <1>4, <2>1, <2>3 DEF IInv, EventNumbers
<1>7. WarningNumbers'
  BY <1>1 DEF IInv, WarningNumbers
<1> QED
  BY <1>5, <1>6, <1>7 DEF IInv

\* The drain ends when every event of the queue has been sent.
LEMMA EndDrainEventsStep == IInv /\ EndDrainEvents => IInv'
<1> SUFFICES ASSUME IInv, EndDrainEvents PROVE IInv'
  OBVIOUS
<1>1. /\ phase = "events" /\ phase' = "warnings" /\ cursor >= Len(eventqueue)
      /\ eventqueue' = <<>> /\ cursor' = 0 /\ xmlwarningqueue' = <<>>
      /\ warningqueue' = warningqueue \o xmlwarningqueue
      /\ UNCHANGED <<events, warnings, closed, sent>>
  BY DEF EndDrainEvents, At, counts, log
<1>2. QueueTypes'
  <2>1. warningqueue' \in Seq(Warning)
    BY <1>1, ConcatProperties DEF IInv, QueueTypes
  <2> QED
    BY <1>1, <2>1 DEF IInv, QueueTypes
<1>3. /\ Done = cursor /\ Done' = 0 /\ Len(eventqueue') = 0
      /\ cursor \in Nat /\ Len(eventqueue) \in Nat /\ events \in Nat
  BY <1>1, EmptySeq DEF Done, IInv, QueueTypes
<1>4. EventNumbers'
  BY <1>1, <1>3 DEF IInv, EventNumbers
<1>5. WarningNumbers'
  BY <1>1 DEF IInv, WarningNumbers
<1> QED
  BY <1>2, <1>4, <1>5 DEF IInv

\* Sending a warning leaves the queue as it is.
LEMMA DrainWarningsStep == IInv /\ DrainWarnings => IInv'
<1> SUFFICES ASSUME IInv, DrainWarnings PROVE IInv'
  OBVIOUS
<1>1. /\ phase = "warnings" /\ phase' = "warnings" /\ cursor' = cursor + 1
      /\ UNCHANGED <<queues, counts, sent>>
  BY DEF DrainWarnings, At
<1>2. QueueTypes'
  BY <1>1 DEF IInv, QueueTypes, queues, counts
<1>3. EventNumbers'
  BY <1>1 DEF IInv, EventNumbers, Done, queues, counts
<1>4. WarningNumbers'
  BY <1>1 DEF IInv, WarningNumbers, queues, counts
<1> QED
  BY <1>2, <1>3, <1>4 DEF IInv

\* The other drain ends with an empty queue.
LEMMA EndDrainWarningsStep == IInv /\ EndDrainWarnings => IInv'
<1> SUFFICES ASSUME IInv, EndDrainWarnings PROVE IInv'
  OBVIOUS
<1>1. /\ phase = "warnings" /\ phase' = "timers" /\ warningqueue' = <<>> /\ closed' = warnings
      /\ UNCHANGED <<eventqueue, xmlwarningqueue, cursor, events, warnings, sent>>
  BY DEF EndDrainWarnings, At, log
<1>2. QueueTypes'
  BY <1>1 DEF IInv, QueueTypes
<1>3. EventNumbers'
  BY <1>1 DEF IInv, EventNumbers, Done
<1>4. Len(warningqueue') = 0 /\ warnings \in Nat
  BY <1>1, EmptySeq DEF IInv, QueueTypes
<1>5. WarningNumbers'
  BY <1>1, <1>4 DEF WarningNumbers
<1> QED
  BY <1>2, <1>3, <1>5 DEF IInv

\* The frame begins with no event of its drain sent.
LEMMA NextFrameStep == IInv /\ NextFrame => IInv'
<1> SUFFICES ASSUME IInv, NextFrame PROVE IInv'
  OBVIOUS
<1>1. /\ phase = "idle" /\ phase' = "events" /\ cursor' = 0
      /\ UNCHANGED <<queues, counts, sent>>
  BY DEF NextFrame
<1>2. QueueTypes'
  BY <1>1 DEF IInv, QueueTypes, queues, counts
<1>3. Done = 0 /\ Done' = 0
  BY <1>1 DEF Done
<1>4. EventNumbers'
  BY <1>1, <1>3 DEF IInv, EventNumbers, queues, counts
<1>5. WarningNumbers'
  BY <1>1 DEF IInv, WarningNumbers, queues, counts
<1> QED
  BY <1>2, <1>4, <1>5 DEF IInv

\* Every step keeps the invariant: those that do not touch the queues move
\* between phases that are no drains, or none at all.
LEMMA IInvStep == IInv /\ [Next]_vars => IInv'
<1> SUFFICES ASSUME IInv, [Next]_vars PROVE IInv'
  OBVIOUS
<1>1. CASE LuaCalls
  <2>1. CASE QueueEvent
    BY <2>1, QueueEventStep
  <2>2. CASE QueueWarning \/ QueueXmlWarning
    BY <2>2, QueueWarningStep
  <2>3. CASE \E f \in Frame, b \in BOOLEAN : CreateFrame(f, b)
    <3>1. UNCHANGED <<queues, cursor, counts, sent>> /\ phase' = phase
      BY <2>3 DEF CreateFrame, log
    <3> QED
      BY <3>1, QuietStep
  <2>4. CASE \E f \in Frame : Show(f) \/ Hide(f) \/ SetDirty(f)
    <3>1. UNCHANGED <<queues, cursor, counts, sent>> /\ phase' = phase
      BY <2>4 DEF Show, Hide, SetDirty, log
    <3> QED
      BY <3>1, QuietStep
  <2> QED
    BY <1>1, <2>1, <2>2, <2>3, <2>4 DEF LuaCalls
<1>2. CASE NextFrame
  BY <1>2, NextFrameStep
<1>3. CASE Return \/ DrainWarnings \/ OnUpdate
  <2>1. CASE Return
    <3>1. UNCHANGED <<queues, cursor, counts, sent>> /\ phase' = phase
      BY <2>1 DEF Return, log
    <3> QED
      BY <3>1, QuietStep
  <2>2. CASE DrainWarnings
    BY <2>2, DrainWarningsStep
  <2>3. CASE OnUpdate
    <3>1. UNCHANGED <<queues, cursor, counts, sent>> /\ phase' = phase
      BY <2>3 DEF OnUpdate
    <3> QED
      BY <3>1, QuietStep
  <2> QED
    BY <1>3, <2>1, <2>2, <2>3
<1>4. CASE DrainEvents
  BY <1>4, DrainEventsStep
<1>5. CASE EndDrainEvents
  BY <1>5, EndDrainEventsStep
<1>6. CASE EndDrainWarnings
  BY <1>6, EndDrainWarningsStep
<1>7. CASE EndAdvance \/ EndFrame
  <2>1. /\ UNCHANGED <<queues, cursor, counts, sent>>
        /\ {phase, phase'} \cap {"events", "warnings"} = {}
    BY <1>7 DEF EndAdvance, EndFrame, At, log
  <2> QED
    BY <2>1, QuietStep
<1>8. CASE UNCHANGED vars
  <2>1. UNCHANGED <<queues, cursor, counts, sent>> /\ phase' = phase
    BY <1>8 DEF vars, log
  <2> QED
    BY <2>1, QuietStep
<1> QED
  BY <1>1, <1>2, <1>3, <1>4, <1>5, <1>6, <1>7, <1>8 DEF Next, LoopStep

-----------------------------------------------------------------------------
(* Theorems *)

\* The invariant holds in every state.
LEMMA IInvAlways == Spec => []IInv
<1> QED
  BY IInvInit, IInvStep, PTL DEF Spec

\* What is left of a sequence after its first k elements.
LEMMA RestOf ==
  ASSUME NEW s \in Seq(Nat), NEW k \in Nat, k <= Len(s)
  PROVE  /\ SubSeq(s, k + 1, Len(s)) \in Seq(Nat)
         /\ Len(SubSeq(s, k + 1, Len(s))) = Len(s) - k
         /\ \A i \in 1 .. Len(SubSeq(s, k + 1, Len(s))) :
              SubSeq(s, k + 1, Len(s))[i] = s[k + i]
<1> DEFINE m == k + 1
           n == Len(s)
<1>1. n \in Int /\ m \in Int /\ \A i \in m .. n : s[i] \in Nat
  BY ElementOfSeq
<1>2. n - m + 1 = Len(s) - k /\ (IF m <= n THEN n - m + 1 ELSE 0) = Len(s) - k
  OBVIOUS
<1>3. \A i \in 1 .. n - m + 1 : m + i - 1 = k + i
  OBVIOUS
<1> HIDE DEF m, n
<1>4. /\ SubSeq(s, m, n) \in Seq(Nat)
      /\ Len(SubSeq(s, m, n)) = IF m <= n THEN n - m + 1 ELSE 0
      /\ \A i \in 1 .. n - m + 1 : SubSeq(s, m, n)[i] = s[m + i - 1]
  BY <1>1, SubSeqProperties
<1> QED
  BY <1>2, <1>3, <1>4 DEF m, n

\* What is sent and what is still to be sent is every event queued so far, in
\* the order in which they were queued (eventqueue.lua:5-14).
THEOREM MainLoopEventsInOrder == Spec => []EventsInOrder
<1>1. IInv => EventsInOrder
  <2> SUFFICES ASSUME IInv PROVE sent \o Unsent = [i \in 1 .. events |-> i]
    BY DEF EventsInOrder
  <2> DEFINE rest == SubSeq(eventqueue, Done + 1, Len(eventqueue))
  <2>1. /\ Done \in Nat /\ Done <= Len(eventqueue) /\ Len(eventqueue) \in Nat
        /\ Len(sent) \in Nat /\ events \in Nat /\ sent \in Seq(Nat) /\ eventqueue \in Seq(Nat)
    BY DEF IInv, QueueTypes, EventNumbers, Done
  <2>2. /\ rest \in Seq(Nat) /\ Len(rest) = Len(eventqueue) - Done
        /\ \A i \in 1 .. Len(rest) : rest[i] = eventqueue[Done + i]
    BY <2>1, RestOf
  <2>3. Unsent = rest
    <3>1. CASE phase = "events"
      BY <3>1 DEF Unsent, Done
    <3>2. CASE phase # "events"
      BY <2>1, <3>2 DEF Unsent, Done
    <3> QED
      BY <3>1, <3>2
  <2> HIDE DEF rest
  <2>4. /\ sent \o rest \in Seq(Nat) /\ Len(sent \o rest) = Len(sent) + Len(rest)
        /\ \A i \in 1 .. Len(sent) + Len(rest) :
             (sent \o rest)[i] = IF i <= Len(sent) THEN sent[i] ELSE rest[i - Len(sent)]
    BY <2>1, <2>2, ConcatProperties
  <2>5. Len(sent) + Len(rest) = events
    BY <2>1, <2>2 DEF IInv, EventNumbers
  <2>6. ASSUME NEW i \in 1 .. events PROVE (sent \o rest)[i] = i
    <3>1. CASE i <= Len(sent)
      <4>1. i \in 1 .. Len(sent) /\ i \in 1 .. Len(sent) + Len(rest)
        BY <2>1, <2>5, <3>1
      <4>2. sent[i] = i
        BY <4>1 DEF IInv, EventNumbers
      <4> QED
        BY <2>4, <3>1, <4>1, <4>2
    <3>2. CASE ~(i <= Len(sent))
      <4>1. i - Len(sent) \in 1 .. Len(rest) /\ Done + (i - Len(sent)) \in 1 .. Len(eventqueue)
        BY <2>1, <2>2, <2>5, <3>2
      <4>2. rest[i - Len(sent)] = events - Len(eventqueue) + (Done + (i - Len(sent)))
        BY <2>2, <4>1 DEF IInv, EventNumbers
      <4> QED
        <5>1. Len(sent) = events - Len(eventqueue) + Done
          BY DEF IInv, EventNumbers
        <5>2. rest[i - Len(sent)] = i
          BY <2>1, <4>2, <5>1
        <5>3. i \in 1 .. Len(sent) + Len(rest) /\ ~(i <= Len(sent))
          BY <2>1, <2>5, <3>2
        <5> QED
          BY <2>4, <5>2, <5>3
    <3> QED
      BY <3>1, <3>2
  <2>7. sent \o rest = [i \in 1 .. events |-> (sent \o rest)[i]]
    BY <2>4, <2>5, LenProperties
  <2> QED
    BY <2>3, <2>6, <2>7
<1> QED
  BY IInvAlways, <1>1, PTL

\* Between its drains the warning queue has nothing that an earlier drain
\* found or met (warningqueue.lua:1-4, 14-19).
THEOREM MainLoopNotCarriedOver == Spec => []NotCarriedOver
<1>1. IInv => NotCarriedOver
  <2> SUFFICES ASSUME IInv, phase \in {"timers", "update", "idle", "events"},
                      NEW w \in Elements(warningqueue)
               PROVE  ~w.xml /\ w.n > closed
    BY DEF NotCarriedOver
  <2>1. PICK i \in 1 .. Len(warningqueue) : w = warningqueue[i]
    BY DEF Elements, IInv, QueueTypes
  <2> QED
    BY <2>1 DEF IInv, WarningNumbers
<1> QED
  BY IInvAlways, <1>1, PTL

-----------------------------------------------------------------------------
(* The order of warnings *)

\* Warnings of one kind as they were raised.
Raised(q, xml) ==
  /\ \A i \in 1 .. Len(q) : q[i].xml = xml /\ q[i].n <= warnings
  /\ \A i, j \in 1 .. Len(q) : i < j => q[i].n < q[j].n

\* The first k warnings of q are in the order in which they are to be sent.
InOrder(q, k) ==
  \A i, j \in 1 .. k : i < j =>
    \/ ~q[i].xml /\ q[j].xml
    \/ q[i].xml = q[j].xml /\ q[i].n < q[j].n

\* Between drains the two queues are in order, each of its kind.  In a drain
\* what is up to the limit is in order - a warning raised meanwhile may be out
\* of it, behind the XML reader's - and what was sent is the front of that.
WarningOrder ==
  /\ warned \in Seq(Warning) /\ limit \in Nat /\ limit <= MaxWarnings
  /\ Len(warned) <= MaxWarnings /\ InOrder(warned, Len(warned))
  /\ Raised(xmlwarningqueue, TRUE)
  /\ phase # "warnings" => Raised(warningqueue, FALSE)
  /\ phase = "events" => warned = <<>>
  /\ phase = "warnings" =>
       /\ limit <= Len(warningqueue) /\ InOrder(warningqueue, limit)
       /\ cursor <= limit /\ Len(warned) = cursor
       /\ \A i \in 1 .. cursor : warned[i] = warningqueue[i]

\* No warning yet.
LEMMA WarningOrderInit == Init => WarningOrder
<1> SUFFICES ASSUME Init PROVE WarningOrder
  OBVIOUS
<1>1. /\ warned = <<>> /\ warningqueue = <<>> /\ xmlwarningqueue = <<>>
      /\ limit = 0 /\ phase = "idle"
  BY DEF Init
<1>2. Len(<<>>) = 0 /\ <<>> \in Seq(Warning) /\ MaxWarnings \in Nat
  BY EmptySeq, BoundAssumption
<1> QED
  BY <1>1, <1>2 DEF WarningOrder, Raised, InOrder

\* Steps that leave the queues and the drain of warnings alone.
LEMMA WarningQuietStep ==
  ASSUME WarningOrder, UNCHANGED <<warningqueue, xmlwarningqueue, limit, warned, warnings>>,
         \/ phase' = phase /\ cursor' = cursor
         \/ phase' # "warnings" /\ phase # "warnings" /\ (phase' = "events" => phase = "events")
  PROVE  WarningOrder'
<1>1. /\ Raised(xmlwarningqueue, TRUE)' <=> Raised(xmlwarningqueue, TRUE)
      /\ Raised(warningqueue, FALSE)' <=> Raised(warningqueue, FALSE)
      /\ InOrder(warned, Len(warned))' <=> InOrder(warned, Len(warned))
      /\ InOrder(warningqueue, limit)' <=> InOrder(warningqueue, limit)
  BY DEF Raised, InOrder
<1> QED
  BY <1>1 DEF WarningOrder

\* A warning added to the end of its queue is the latest of its kind.
LEMMA RaisedAppend ==
  ASSUME NEW q \in Seq(Warning), NEW xml \in BOOLEAN, Raised(q, xml),
         warnings \in Nat, warnings' = warnings + 1,
         NEW r, r = Append(q, [xml |-> xml, n |-> warnings'])
  PROVE  Raised(r, xml)'
<1> DEFINE w == [xml |-> xml, n |-> warnings']
<1>1. w \in Warning /\ w.xml = xml /\ w.n = warnings + 1
  BY DEF Warning
<1> HIDE DEF w
<1>2. /\ Len(r) = Len(q) + 1 /\ Len(q) \in Nat
      /\ r[Len(q) + 1] = w /\ \A i \in 1 .. Len(q) : r[i] = q[i]
  BY <1>1, AppendProperties DEF w
<1>3. \A i \in 1 .. Len(q) : q[i].n \in Nat
  <2>1. \A i \in 1 .. Len(q) : q[i] \in Warning
    OBVIOUS
  <2> QED
    BY <2>1 DEF Warning
<1>4. ASSUME NEW i \in 1 .. Len(r) PROVE r[i].xml = xml /\ r[i].n <= warnings'
  <2>1. CASE i \in 1 .. Len(q)
    BY <1>2, <1>3, <2>1 DEF Raised
  <2>2. CASE i = Len(q) + 1
    BY <1>1, <1>2, <2>2
  <2> QED
    BY <1>2, <2>1, <2>2
<1>5. ASSUME NEW i \in 1 .. Len(r), NEW j \in 1 .. Len(r), i < j PROVE r[i].n < r[j].n
  <2>0. i \in 1 .. Len(q)
    BY <1>2, <1>5
  <2>1. CASE j \in 1 .. Len(q)
    BY <1>2, <1>5, <2>0, <2>1 DEF Raised
  <2>2. CASE j = Len(q) + 1
    <3>1. q[i].n <= warnings /\ q[i].n \in Nat
      BY <1>3, <2>0 DEF Raised
    <3> QED
      BY <1>1, <1>2, <2>0, <2>2, <3>1
  <2> QED
    BY <1>2, <2>1, <2>2
<1> QED
  BY <1>4, <1>5 DEF Raised

\* The warnings queued so far were raised before the next.
LEMMA RaisedKept ==
  ASSUME NEW q \in Seq(Warning), NEW xml, Raised(q, xml), warnings \in Nat,
         warnings' = warnings + 1
  PROVE  Raised(q, xml)'
<1>1. \A i \in 1 .. Len(q) : q[i].n \in Nat
  <2>1. \A i \in 1 .. Len(q) : q[i] \in Warning
    OBVIOUS
  <2> QED
    BY <2>1 DEF Warning
<1> QED
  BY <1>1 DEF Raised

\* A warning is queued in its place.
LEMMA QueueWarningOrder ==
  IInv /\ WarningOrder /\ (QueueWarning \/ QueueXmlWarning) => WarningOrder'
<1> SUFFICES ASSUME IInv, WarningOrder, QueueWarning \/ QueueXmlWarning PROVE WarningOrder'
  OBVIOUS
<1>1. /\ warnings' = warnings + 1 /\ warnings \in Nat
      /\ warningqueue \in Seq(Warning) /\ xmlwarningqueue \in Seq(Warning)
      /\ UNCHANGED <<phase, cursor, limit, warned>>
  BY DEF QueueWarning, QueueXmlWarning, IInv, QueueTypes, log
<1>2. InOrder(warned, Len(warned))'
  BY <1>1 DEF WarningOrder, InOrder
<1>3. CASE QueueXmlWarning
  <2>1. /\ xmlwarningqueue' = Append(xmlwarningqueue, [xml |-> TRUE, n |-> warnings'])
        /\ warningqueue' = warningqueue
    BY <1>3 DEF QueueXmlWarning
  <2>2. Raised(xmlwarningqueue, TRUE)'
    BY <1>1, <2>1, RaisedAppend DEF WarningOrder
  <2>3. phase # "warnings" => Raised(warningqueue, FALSE)'
    BY <1>1, <2>1, RaisedKept DEF WarningOrder
  <2>4. phase = "warnings" => InOrder(warningqueue, limit)'
    BY <1>1, <2>1 DEF WarningOrder, InOrder
  <2> QED
    BY <1>1, <1>2, <2>1, <2>2, <2>3, <2>4 DEF WarningOrder
<1>4. CASE QueueWarning
  <2> DEFINE w == [xml |-> FALSE, n |-> warnings']
  <2>1. /\ warningqueue' = Append(warningqueue, w) /\ xmlwarningqueue' = xmlwarningqueue
    BY <1>4 DEF QueueWarning
  <2>2. Raised(xmlwarningqueue, TRUE)'
    BY <1>1, <2>1, RaisedKept DEF WarningOrder
  <2>3. phase # "warnings" => Raised(warningqueue, FALSE)'
    BY <1>1, <2>1, RaisedAppend DEF WarningOrder
  <2>4. w \in Warning
    BY <1>1 DEF Warning
  <2> HIDE DEF w
  <2>5. /\ Len(warningqueue) \in Nat /\ Len(warningqueue') = Len(warningqueue) + 1
        /\ \A i \in 1 .. Len(warningqueue) : warningqueue'[i] = warningqueue[i]
    BY <1>1, <2>1, <2>4, AppendProperties
  <2>6. phase = "warnings" =>
          /\ limit <= Len(warningqueue') /\ InOrder(warningqueue, limit)'
          /\ \A i \in 1 .. cursor : warned[i] = warningqueue'[i]
    <3> SUFFICES ASSUME phase = "warnings"
                 PROVE  /\ limit <= Len(warningqueue') /\ InOrder(warningqueue, limit)'
                        /\ \A i \in 1 .. cursor : warned[i] = warningqueue'[i]
      OBVIOUS
    <3>1. /\ limit \in Nat /\ limit <= Len(warningqueue) /\ InOrder(warningqueue, limit)
          /\ cursor <= limit /\ \A i \in 1 .. cursor : warned[i] = warningqueue[i]
          /\ cursor \in Nat
      BY DEF WarningOrder, IInv, QueueTypes
    <3>2. \A i \in 1 .. limit : warningqueue'[i] = warningqueue[i]
      BY <2>5, <3>1
    <3>3. \A i \in 1 .. cursor : i \in 1 .. limit
      BY <3>1
    <3>4. InOrder(warningqueue, limit)'
      BY <1>1, <3>1, <3>2 DEF InOrder
    <3> QED
      BY <2>5, <3>1, <3>2, <3>3, <3>4
  <2> QED
    BY <1>1, <1>2, <2>2, <2>3, <2>6 DEF WarningOrder
<1> QED
  BY <1>3, <1>4

\* The warnings of the XML reader go behind the others.
LEMMA EndDrainEventsOrder == IInv /\ WarningOrder /\ EndDrainEvents => WarningOrder'
<1> SUFFICES ASSUME IInv, WarningOrder, EndDrainEvents PROVE WarningOrder'
  OBVIOUS
<1> DEFINE a == warningqueue
           b == xmlwarningqueue
           q == a \o b
<1>1. /\ phase = "events" /\ phase' = "warnings" /\ cursor' = 0
      /\ warningqueue' = q /\ xmlwarningqueue' = <<>>
      /\ limit' = IF Len(q) < MaxWarnings THEN Len(q) ELSE MaxWarnings
      /\ UNCHANGED <<warnings, warned>>
  BY DEF EndDrainEvents, At, counts, log
<1>2. /\ a \in Seq(Warning) /\ b \in Seq(Warning) /\ Raised(a, FALSE) /\ Raised(b, TRUE)
      /\ warned = <<>> /\ MaxWarnings \in Nat
  BY <1>1, BoundAssumption DEF WarningOrder, IInv, QueueTypes
<1> HIDE DEF a, b
<1>3. /\ q \in Seq(Warning) /\ Len(q) = Len(a) + Len(b) /\ Len(a) \in Nat /\ Len(b) \in Nat
      /\ \A i \in 1 .. Len(a) + Len(b) : q[i] = IF i <= Len(a) THEN a[i] ELSE b[i - Len(a)]
  BY <1>2, ConcatProperties
<1> HIDE DEF q
<1>4. ASSUME NEW i \in 1 .. Len(q), NEW j \in 1 .. Len(q), i < j
      PROVE  \/ ~q[i].xml /\ q[j].xml
             \/ q[i].xml = q[j].xml /\ q[i].n < q[j].n
  <2>1. CASE j <= Len(a)
    <3>1. i \in 1 .. Len(a) /\ j \in 1 .. Len(a) /\ q[i] = a[i] /\ q[j] = a[j]
      BY <1>3, <1>4, <2>1
    <3> QED
      BY <1>2, <1>4, <3>1 DEF Raised
  <2>2. CASE i <= Len(a) /\ ~(j <= Len(a))
    <3>1. i \in 1 .. Len(a) /\ j - Len(a) \in 1 .. Len(b) /\ q[i] = a[i] /\ q[j] = b[j - Len(a)]
      BY <1>3, <2>2
    <3> QED
      BY <1>2, <3>1 DEF Raised
  <2>3. CASE ~(i <= Len(a))
    <3>1. /\ i - Len(a) \in 1 .. Len(b) /\ j - Len(a) \in 1 .. Len(b) /\ i - Len(a) < j - Len(a)
          /\ ~(j <= Len(a))
      BY <1>3, <1>4, <2>3
    <3>2. q[i] = b[i - Len(a)] /\ q[j] = b[j - Len(a)]
      BY <1>3, <2>3, <3>1
    <3> QED
      BY <1>2, <3>1, <3>2 DEF Raised
  <2> QED
    BY <1>3, <2>1, <2>2, <2>3
<1>5. /\ limit' \in Nat /\ limit' <= MaxWarnings /\ limit' <= Len(q)
      /\ \A i \in 1 .. limit' : i \in 1 .. Len(q)
  BY <1>1, <1>2, <1>3
<1>6. InOrder(warningqueue, limit)'
  BY <1>1, <1>4, <1>5 DEF InOrder
<1>7. Len(<<>>) = 0
  BY EmptySeq
<1>8. Raised(xmlwarningqueue, TRUE)' /\ InOrder(warned, Len(warned))'
  BY <1>1, <1>2, <1>7 DEF Raised, InOrder
<1>9. /\ warned' \in Seq(Warning) /\ Len(warned') = 0 /\ Len(warned') <= MaxWarnings
      /\ limit' <= Len(warningqueue') /\ cursor' = 0 /\ cursor' <= limit'
  BY <1>1, <1>2, <1>5, <1>7 DEF WarningOrder
<1>10. \A i \in 1 .. cursor' : warned'[i] = warningqueue'[i]
  BY <1>9
<1> QED
  BY <1>1, <1>2, <1>5, <1>6, <1>8, <1>9, <1>10 DEF WarningOrder

\* The next warning sent is the next in the queue.
LEMMA DrainWarningsOrder == IInv /\ WarningOrder /\ DrainWarnings => WarningOrder'
<1> SUFFICES ASSUME IInv, WarningOrder, DrainWarnings PROVE WarningOrder'
  OBVIOUS
<1>1. /\ phase = "warnings" /\ phase' = "warnings" /\ cursor < limit
      /\ cursor' = cursor + 1 /\ warned' = Append(warned, warningqueue[cursor + 1])
      /\ UNCHANGED <<warningqueue, xmlwarningqueue, warnings, limit>>
  BY DEF DrainWarnings, At, queues, counts
<1>2. /\ limit \in Nat /\ limit <= MaxWarnings /\ limit <= Len(warningqueue)
      /\ InOrder(warningqueue, limit) /\ Len(warned) = cursor
      /\ \A i \in 1 .. cursor : warned[i] = warningqueue[i]
      /\ cursor \in Nat /\ warningqueue \in Seq(Warning) /\ warned \in Seq(Warning)
      /\ MaxWarnings \in Nat /\ Len(warningqueue) \in Nat
  BY <1>1, BoundAssumption DEF WarningOrder, IInv, QueueTypes
<1>3. warningqueue[cursor + 1] \in Warning
  <2>1. cursor + 1 \in 1 .. Len(warningqueue)
    BY <1>1, <1>2
  <2> QED
    BY <1>2, <2>1, ElementOfSeq
<1>4. /\ warned' \in Seq(Warning) /\ Len(warned') = cursor + 1
      /\ warned'[cursor + 1] = warningqueue[cursor + 1]
      /\ \A i \in 1 .. cursor : warned'[i] = warned[i]
  BY <1>1, <1>2, <1>3, AppendProperties
<1>5. \A i \in 1 .. cursor + 1 : warned'[i] = warningqueue[i] /\ i \in 1 .. limit
  <2> TAKE i \in 1 .. cursor + 1
  <2>1. i \in 1 .. cursor \/ i = cursor + 1
    BY <1>2
  <2> QED
    BY <1>1, <1>2, <1>4, <2>1
<1>6. InOrder(warned', cursor + 1)
  BY <1>2, <1>5 DEF InOrder
<1>7. Raised(xmlwarningqueue, TRUE)' /\ InOrder(warningqueue, limit)'
  BY <1>1, <1>2 DEF WarningOrder, Raised, InOrder
<1>8. cursor + 1 <= limit /\ cursor + 1 <= MaxWarnings
  BY <1>1, <1>2
<1>9. InOrder(warned, Len(warned))'
  BY <1>4, <1>6 DEF InOrder
<1> QED
  BY <1>1, <1>2, <1>4, <1>5, <1>7, <1>8, <1>9 DEF WarningOrder

\* The end of a drain.
LEMMA EndDrainWarningsOrder == WarningOrder /\ EndDrainWarnings => WarningOrder'
<1> SUFFICES ASSUME WarningOrder, EndDrainWarnings PROVE WarningOrder'
  OBVIOUS
<1>1. /\ phase' = "timers" /\ warningqueue' = <<>>
      /\ UNCHANGED <<xmlwarningqueue, warned, limit, warnings>>
  BY DEF EndDrainWarnings, log
<1>2. Raised(warningqueue, FALSE)'
  BY <1>1, EmptySeq DEF Raised
<1>3. Raised(xmlwarningqueue, TRUE)' /\ InOrder(warned, Len(warned))'
  BY <1>1 DEF WarningOrder, Raised, InOrder
<1> QED
  BY <1>1, <1>2, <1>3 DEF WarningOrder

\* A new frame starts.
LEMMA NextFrameOrder == WarningOrder /\ NextFrame => WarningOrder'
<1> SUFFICES ASSUME WarningOrder, NextFrame PROVE WarningOrder'
  OBVIOUS
<1>1. /\ phase = "idle" /\ phase' = "events" /\ warned' = <<>>
      /\ UNCHANGED <<warningqueue, xmlwarningqueue, limit, warnings>>
  BY DEF NextFrame, queues, counts
<1>2. Raised(xmlwarningqueue, TRUE)' /\ Raised(warningqueue, FALSE)'
  BY <1>1 DEF WarningOrder, Raised
<1>3. Len(warned') = 0 /\ warned' \in Seq(Warning) /\ Len(warned') <= MaxWarnings
  BY <1>1, EmptySeq, BoundAssumption
<1>4. InOrder(warned, Len(warned))'
  BY <1>3 DEF InOrder
<1> QED
  BY <1>1, <1>2, <1>3, <1>4 DEF WarningOrder

\* Every step keeps the order of the warnings.
LEMMA WarningOrderStep == IInv /\ WarningOrder /\ [Next]_vars => WarningOrder'
<1> SUFFICES ASSUME IInv, WarningOrder, [Next]_vars PROVE WarningOrder'
  OBVIOUS
<1>1. CASE QueueEvent \/ (\E f \in Frame, b \in BOOLEAN : CreateFrame(f, b))
           \/ (\E f \in Frame : Show(f) \/ Hide(f) \/ SetDirty(f)) \/ Return \/ OnUpdate
           \/ UNCHANGED vars
  <2>1. UNCHANGED <<warningqueue, xmlwarningqueue, limit, warned, warnings, phase, cursor>>
    BY <1>1 DEF QueueEvent, CreateFrame, Show, Hide, SetDirty, Return, OnUpdate,
                vars, queues, counts, log
  <2> QED
    BY <2>1, WarningQuietStep
<1>2. CASE QueueWarning \/ QueueXmlWarning
  BY <1>2, QueueWarningOrder
<1>3. CASE DrainEvents
  <2>1. /\ UNCHANGED <<warningqueue, xmlwarningqueue, limit, warned, warnings>>
        /\ phase = "events" /\ phase' = "events"
    BY <1>3 DEF DrainEvents, At, queues, counts
  <2> QED
    BY <2>1, WarningQuietStep
<1>4. CASE EndAdvance \/ EndFrame
  <2>1. /\ UNCHANGED <<warningqueue, xmlwarningqueue, limit, warned, warnings>>
        /\ phase # "warnings" /\ phase' # "warnings" /\ phase' # "events"
    BY <1>4 DEF EndAdvance, EndFrame, At, queues, counts, log
  <2> QED
    BY <2>1, WarningQuietStep
<1> QED
  BY <1>1, <1>2, <1>3, <1>4, EndDrainEventsOrder, DrainWarningsOrder, EndDrainWarningsOrder,
     NextFrameOrder DEF Next, LuaCalls, LoopStep

\* In every frame the warnings sent are no more than the limit and in the
\* order in which they were raised, those of the XML reader last; none is
\* kept for a later frame (warningqueue.lua:1-19, xmlwarningqueue.lua:9-14).
THEOREM MainLoopWarnings == Spec => []Warnings
<1>1. WarningOrder => WarningsInOrder
  <2> SUFFICES ASSUME WarningOrder PROVE WarningsInOrder
    OBVIOUS
  <2>1. DOMAIN warned = 1 .. Len(warned)
    BY LenProperties DEF WarningOrder
  <2> QED
    BY <2>1 DEF WarningOrder, InOrder, WarningsInOrder
<1>2. Init => WarningOrder
  BY WarningOrderInit
<1>3. Spec => []WarningOrder
  BY <1>2, WarningOrderStep, IInvAlways, PTL DEF Spec
<1>4. WarningsInOrder /\ NotCarriedOver => Warnings
  BY DEF Warnings
<1> QED
  BY <1>1, <1>3, <1>4, MainLoopNotCarriedOver, PTL

-----------------------------------------------------------------------------
(* OnUpdate *)

\* The frames updated, and where the walk is that updates them.
UpdateTypes ==
  /\ HListOK(frames, Frame) /\ cur \in Frame /\ first \in BOOLEAN
  /\ visible \subseteq Members(frames) /\ updated \in Seq(Frame)
  /\ \A i \in 1 .. Len(updated) : updated[i] \in Members(frames)

\* Their slots go up.
SlotsRise ==
  \A i, j \in 1 .. Len(updated) : i < j => frames.set[updated[i]] < frames.set[updated[j]]

\* In the walk the frames updated are none after the frame it is at, and of
\* the frames visible all the time it has missed none up to there.
WalkedSoFar ==
  /\ shown \subseteq visible
  /\ first => updated = <<>>
  /\ ~first =>
       /\ cur \in Members(frames)
       /\ \A i \in 1 .. Len(updated) : frames.set[updated[i]] <= frames.set[cur]
       /\ \A f \in shown : frames.set[f] <= frames.set[cur] =>
            \E i \in 1 .. Len(updated) : updated[i] = f

UpdateOrder ==
  /\ UpdateTypes /\ SlotsRise
  /\ phase \in {"events", "warnings", "timers"} => updated = <<>>
  /\ phase = "update" => WalkedSoFar

\* No update yet.
LEMMA UpdateOrderInit == Init => UpdateOrder
<1> SUFFICES ASSUME Init PROVE UpdateOrder
  OBVIOUS
<1>1. HListOK(EmptyHList, Frame)
  BY EmptySeq DEF EmptyHList, HListOK
<1>2. updated \in Seq(Frame) /\ Len(updated) = 0
  BY EmptySeq DEF Init
<1> QED
  BY <1>1, <1>2 DEF Init, UpdateOrder, UpdateTypes, SlotsRise

\* Steps outside the walk, and those in it that only hide frames or show them.
LEMMA UpdateQuietStep ==
  ASSUME UpdateOrder, UNCHANGED <<frames, cur, first, updated>>,
         visible' \subseteq Members(frames),
         phase' = "update" => phase = "update" /\ shown' \subseteq shown \cap visible',
         phase' \in {"events", "warnings", "timers"} => phase \in {"events", "warnings", "timers"}
  PROVE  UpdateOrder'
<1>1. UpdateTypes' /\ SlotsRise'
  BY DEF UpdateOrder, UpdateTypes, SlotsRise
<1>2. phase' = "update" => WalkedSoFar'
  BY DEF UpdateOrder, WalkedSoFar
<1> QED
  BY <1>1, <1>2 DEF UpdateOrder

\* A new frame is last in the list, so it is still to come.
LEMMA CreateFrameUpdate ==
  ASSUME UpdateOrder, NEW f \in Frame, NEW b \in BOOLEAN, CreateFrame(f, b)
  PROVE  UpdateOrder'
<1>1. /\ ~Has(frames, f) /\ frames' = Insert(frames, f)
      /\ visible' = IF b THEN visible \cup {f} ELSE visible
      /\ shown' = IF b /\ phase = "update" THEN shown \cup {f} ELSE shown
      /\ UNCHANGED <<phase, first, cur, updated>>
  BY DEF CreateFrame, walk, log
<1>2. HListOK(frames, Frame) /\ UpdateTypes /\ SlotsRise
  BY DEF UpdateOrder, UpdateTypes
<1>3. /\ HListOK(frames', Frame) /\ Members(frames') = Members(frames) \cup {f}
      /\ \A x \in Members(frames) : frames'.set[x] = frames.set[x]
      /\ frames'.set[f] = Len(frames.list) + 1
  BY <1>1, <1>2, InsertOK, InsertSlots
<1>4. UpdateTypes'
  BY <1>1, <1>2, <1>3 DEF UpdateTypes, HListOK
<1>5. SlotsRise'
  BY <1>1, <1>2, <1>3 DEF UpdateTypes, SlotsRise
<1>6. ASSUME phase = "update" PROVE WalkedSoFar'
  <2>1. WalkedSoFar
    BY <1>6 DEF UpdateOrder
  <2>2. shown' \subseteq visible' /\ (first' => updated' = <<>>)
    BY <1>1, <2>1 DEF WalkedSoFar
  <2>3. ASSUME ~first
        PROVE  /\ cur' \in Members(frames')
               /\ \A i \in 1 .. Len(updated') : frames'.set[updated'[i]] <= frames'.set[cur']
               /\ \A g \in shown' : frames'.set[g] <= frames'.set[cur'] =>
                    \E i \in 1 .. Len(updated') : updated'[i] = g
    <3>1. /\ cur \in Members(frames) /\ frames'.set[cur] = frames.set[cur]
          /\ frames.set[cur] \in 1 .. Len(frames.list) /\ Len(frames.list) \in Nat
      BY <1>2, <1>3, <2>1, <2>3 DEF WalkedSoFar, HListOK, Members
    <3>2. ~(frames'.set[f] <= frames'.set[cur])
      BY <1>3, <3>1
    <3>3. \A g \in shown : g \in Members(frames)
      BY <1>2, <2>1 DEF WalkedSoFar, UpdateTypes
    <3>4. \A i \in 1 .. Len(updated) : frames'.set[updated[i]] <= frames'.set[cur]
      BY <1>2, <1>3, <2>1, <2>3, <3>1 DEF WalkedSoFar, UpdateTypes
    <3>5. ASSUME NEW g \in shown', frames'.set[g] <= frames'.set[cur]
          PROVE  \E i \in 1 .. Len(updated) : updated[i] = g
      <4>1. g \in shown
        BY <1>1, <3>2, <3>5
      <4> QED
        BY <1>3, <2>1, <2>3, <3>1, <3>3, <3>5, <4>1 DEF WalkedSoFar
    <3> QED
      BY <1>1, <1>3, <3>1, <3>4, <3>5
  <2> QED
    BY <1>1, <2>2, <2>3 DEF WalkedSoFar
<1> QED
  BY <1>1, <1>4, <1>5, <1>6 DEF UpdateOrder

\* The walk begins with every visible frame to come.
LEMMA EndAdvanceUpdate == UpdateOrder /\ EndAdvance => UpdateOrder'
<1> SUFFICES ASSUME UpdateOrder, EndAdvance PROVE UpdateOrder'
  OBVIOUS
<1>1. /\ phase = "timers" /\ phase' = "update" /\ first' = TRUE /\ shown' = visible
      /\ UNCHANGED <<cur, frames, visible, updated>>
  BY DEF EndAdvance, At, log
<1>2. UpdateTypes' /\ SlotsRise'
  BY <1>1 DEF UpdateOrder, UpdateTypes, SlotsRise
<1>3. WalkedSoFar'
  BY <1>1 DEF UpdateOrder, WalkedSoFar
<1> QED
  BY <1>1, <1>2, <1>3 DEF UpdateOrder

\* The step of the walk is to the next slot.
LEMMA OnUpdateUpdate == UpdateOrder /\ OnUpdate => UpdateOrder'
<1> SUFFICES ASSUME UpdateOrder, OnUpdate PROVE UpdateOrder'
  OBVIOUS
<1> DEFINE k == IF first THEN 1 ELSE frames.set[cur] + 1
<1>1. /\ phase = "update" /\ phase' = "update" /\ HasNext(frames, first, cur)
      /\ first' = FALSE /\ cur' = NextEntry(frames, first, cur)
      /\ updated' = IF cur' \in visible THEN Append(updated, cur') ELSE updated
      /\ UNCHANGED <<frames, visible, shown>>
  BY DEF OnUpdate, At, ui
<1>2. HListOK(frames, Frame) /\ UpdateTypes /\ SlotsRise /\ WalkedSoFar
  BY <1>1 DEF UpdateOrder, UpdateTypes
<1>3. /\ first \in BOOLEAN /\ Len(frames.list) \in Nat
      /\ frames.list # <<>> => 1 <= Len(frames.list)
  BY <1>2, EmptyListOfV DEF UpdateTypes, HListOK
<1>4. ~first => frames.set[cur] \in 1 .. Len(frames.list)
  BY <1>2 DEF WalkedSoFar, HListOK, Members
<1>5. k \in 1 .. Len(frames.list) /\ cur' = frames.list[k]
  BY <1>1, <1>3, <1>4 DEF HasNext, NextEntry
<1>6. /\ cur' \in Members(frames) /\ frames.set[cur'] = k /\ cur' \in Frame
  BY <1>2, <1>5 DEF HListOK, Members
<1>7. \A i \in 1 .. Len(updated) : frames.set[updated[i]] \in Nat /\ frames.set[updated[i]] < k
  <2> TAKE i \in 1 .. Len(updated)
  <2>1. ~first
    BY <1>2, EmptySeq DEF WalkedSoFar
  <2>2. frames.set[updated[i]] \in 1 .. Len(frames.list)
    BY <1>2 DEF UpdateTypes, HListOK, Members
  <2> QED
    BY <1>2, <1>4, <2>1, <2>2 DEF WalkedSoFar
<1>8. \A f \in shown : frames.set[f] \in Nat /\ (frames.set[f] < k =>
          \E i \in 1 .. Len(updated) : updated[i] = f)
  <2> TAKE f \in shown
  <2>1. frames.set[f] \in 1 .. Len(frames.list)
    BY <1>2 DEF UpdateTypes, WalkedSoFar, HListOK, Members
  <2> QED
    BY <1>2, <1>3, <1>4, <2>1 DEF WalkedSoFar
<1>9. \A f \in shown : frames.set[f] = k => f = cur'
  BY <1>2, <1>5 DEF UpdateTypes, WalkedSoFar, HListOK, Members
<1> HIDE DEF k
<1>10. k \in Nat /\ updated \in Seq(Frame) /\ shown \subseteq visible
  BY <1>2, <1>3, <1>5 DEF UpdateTypes, WalkedSoFar
<1>11. UpdateTypes'
  <2>1. updated' \in Seq(Frame) /\ \A i \in 1 .. Len(updated') : updated'[i] \in Members(frames)
    BY <1>1, <1>2, <1>6, <1>10 DEF UpdateTypes
  <2> QED
    BY <1>1, <1>2, <1>6, <2>1 DEF UpdateTypes
<1>12. CASE cur' \in visible
  <2>1. /\ Len(updated') = Len(updated) + 1 /\ Len(updated) \in Nat
        /\ updated'[Len(updated) + 1] = cur'
        /\ \A i \in 1 .. Len(updated) : updated'[i] = updated[i]
    BY <1>1, <1>6, <1>10, <1>12, AppendProperties
  <2>2. SlotsRise'
    BY <1>1, <1>2, <1>6, <1>7, <1>10, <2>1 DEF SlotsRise
  <2>3. WalkedSoFar'
    <3>1. \A i \in 1 .. Len(updated') : frames.set[updated'[i]] <= k
      BY <1>6, <1>7, <1>10, <2>1
    <3>2. ASSUME NEW f \in shown, frames.set[f] <= k
          PROVE  \E i \in 1 .. Len(updated') : updated'[i] = f
      <4>1. CASE frames.set[f] < k
        BY <1>8, <2>1, <4>1
      <4>2. CASE frames.set[f] = k
        BY <1>9, <2>1, <4>2
      <4> QED
        BY <1>8, <1>10, <3>2, <4>1, <4>2
    <3> QED
      BY <1>1, <1>6, <1>10, <3>1, <3>2 DEF WalkedSoFar
  <2> QED
    BY <1>1, <1>11, <2>2, <2>3 DEF UpdateOrder
<1>13. CASE cur' \notin visible
  <2>1. updated' = updated
    BY <1>1, <1>13
  <2>2. SlotsRise'
    BY <1>1, <1>2, <2>1 DEF SlotsRise
  <2>3. WalkedSoFar'
    <3>1. \A i \in 1 .. Len(updated) : frames.set[updated[i]] <= k
      BY <1>7, <1>10
    <3>2. ASSUME NEW f \in shown, frames.set[f] <= k
          PROVE  \E i \in 1 .. Len(updated) : updated[i] = f
      <4>1. frames.set[f] < k
        BY <1>8, <1>9, <1>10, <1>13, <3>2
      <4> QED
        BY <1>8, <4>1
    <3> QED
      BY <1>1, <1>6, <1>10, <2>1, <3>1, <3>2 DEF WalkedSoFar
  <2> QED
    BY <1>1, <1>11, <2>2, <2>3 DEF UpdateOrder
<1> QED
  BY <1>12, <1>13

\* Every step keeps the order of the updates.
LEMMA UpdateOrderStep == UpdateOrder /\ [Next]_vars => UpdateOrder'
<1> SUFFICES ASSUME UpdateOrder, [Next]_vars PROVE UpdateOrder'
  OBVIOUS
<1>0. visible \subseteq Members(frames) /\ (phase = "update" => shown \subseteq visible)
  BY DEF UpdateOrder, UpdateTypes, WalkedSoFar
<1>1. CASE QueueEvent \/ QueueWarning \/ QueueXmlWarning \/ Return \/ UNCHANGED vars
  <2>1. UNCHANGED <<frames, cur, first, updated, visible, shown, phase>>
    BY <1>1 DEF QueueEvent, QueueWarning, QueueXmlWarning, Return, vars, walk, ui, log
  <2> QED
    BY <1>0, <2>1, UpdateQuietStep
<1>2. ASSUME NEW f \in Frame, Show(f) \/ Hide(f) \/ SetDirty(f) PROVE UpdateOrder'
  <2>1. /\ UNCHANGED <<frames, cur, first, updated, phase>>
        /\ \/ visible' = visible \cup {f} /\ shown' = shown /\ f \in Members(frames)
           \/ visible' = visible \ {f} /\ shown' = shown \ {f}
           \/ visible' = visible /\ shown' = shown
    BY <1>2 DEF Show, Hide, SetDirty, Has, Members, walk, log
  <2>2. visible' \subseteq Members(frames) /\ (phase = "update" => shown' \subseteq shown \cap visible')
    BY <1>0, <2>1
  <2> QED
    BY <2>1, <2>2, UpdateQuietStep
<1>3. CASE NextFrame
  <2>1. /\ UNCHANGED <<frames, visible, cur, first>> /\ updated' = <<>> /\ phase' = "events"
    BY <1>3 DEF NextFrame, walk, ui
  <2>2. updated' \in Seq(Frame) /\ Len(updated') = 0
    BY <2>1, EmptySeq
  <2> QED
    BY <2>1, <2>2 DEF UpdateOrder, UpdateTypes, SlotsRise
<1>4. CASE DrainEvents \/ EndDrainEvents \/ DrainWarnings \/ EndDrainWarnings
  <2>1. /\ UNCHANGED <<frames, cur, first, updated, visible, shown>>
        /\ phase \in {"events", "warnings", "timers"} /\ phase' # "update"
    BY <1>4 DEF DrainEvents, EndDrainEvents, DrainWarnings, EndDrainWarnings, At, walk, ui, log
  <2> QED
    BY <1>0, <2>1, UpdateQuietStep
<1>5. CASE EndFrame
  <2>1. UNCHANGED <<frames, cur, first, updated, visible, shown>> /\ phase' = "idle"
    BY <1>5 DEF EndFrame, walk, log
  <2> QED
    BY <1>0, <2>1, UpdateQuietStep
<1> QED
  BY <1>1, <1>2, <1>3, <1>4, <1>5, CreateFrameUpdate, EndAdvanceUpdate, OnUpdateUpdate
  DEF Next, LuaCalls, LoopStep

\* OnUpdate runs at most once for a frame, in the order of creation, and for
\* every frame that was visible all the time, whatever the scripts make, show
\* or hide on the way (mainloop.lua:16-20).
THEOREM MainLoopUpdates == Spec => []Updates
<1>1. UpdateOrder => Updates
  <2> SUFFICES ASSUME UpdateOrder PROVE Updates
    OBVIOUS
  <2>1. /\ DOMAIN updated = 1 .. Len(updated) /\ Len(updated) \in Nat
        /\ HListOK(frames, Frame) /\ first \in BOOLEAN
    BY DEF UpdateOrder, UpdateTypes
  <2>2. UpdatedInOrder
    BY <2>1 DEF UpdateOrder, SlotsRise, UpdatedInOrder
  <2>3. ASSUME At("update"), ~HasNext(frames, first, cur), NEW f \in shown
        PROVE  f \in Elements(updated)
    <3>1. WalkedSoFar /\ visible \subseteq Members(frames)
      BY <2>3 DEF UpdateOrder, UpdateTypes, At
    <3>2. frames.set[f] \in 1 .. Len(frames.list) /\ Len(frames.list) \in Nat
      BY <2>1, <2>3, <3>1 DEF WalkedSoFar, HListOK, Members
    <3>3. ~first
      BY <2>3, <3>2, EmptySeq DEF HasNext
    <3>4. frames.set[cur] \in Nat /\ ~(frames.set[cur] < Len(frames.list))
      BY <2>1, <2>3, <3>1, <3>3 DEF HasNext, Has, WalkedSoFar, HListOK, Members
    <3>5. \E i \in 1 .. Len(updated) : updated[i] = f
      BY <2>3, <3>1, <3>2, <3>3, <3>4 DEF WalkedSoFar
    <3> QED
      BY <2>1, <3>5 DEF Elements
  <2> QED
    BY <2>2, <2>3 DEF ShownUpdated, Updates
<1>2. Spec => []UpdateOrder
  BY UpdateOrderInit, UpdateOrderStep, PTL DEF Spec
<1> QED
  BY <1>1, <1>2, PTL

-----------------------------------------------------------------------------
(* The refinement *)

\* A step that asks for nothing, delivers nothing and neither begins nor ends
\* a drain is no step of the channel.
LEMMA Stutters ==
  ASSUME UNCHANGED <<events, sent>>, (phase' = "events") = (phase = "events")
  PROVE  UNCHANGED Delivery!vars
<1> QED
  BY DEF Delivery!vars

\* The next event of the array is the next the channel has to deliver.
LEMMA DrainEventsDelivers == IInv /\ DrainEvents => Delivery!Deliver
<1> SUFFICES ASSUME IInv, DrainEvents PROVE Delivery!Deliver
  OBVIOUS
<1>1. /\ phase = "events" /\ phase' = "events" /\ cursor < Len(eventqueue)
      /\ cursor' = cursor + 1 /\ sent' = Append(sent, eventqueue[cursor + 1])
      /\ events' = events
  BY DEF DrainEvents, At, counts
<1>2. /\ cursor \in Nat /\ Len(eventqueue) \in Nat /\ events \in Nat /\ Len(sent) \in Nat
      /\ cursor + 1 \in 1 .. Len(eventqueue)
  BY <1>1 DEF IInv, QueueTypes
<1>3. Len(sent) = events - Len(eventqueue) + cursor
  BY <1>1 DEF IInv, EventNumbers, Done
<1>4. eventqueue[cursor + 1] = events - Len(eventqueue) + (cursor + 1)
  BY <1>2 DEF IInv, EventNumbers
<1>5. eventqueue[cursor + 1] = Len(sent) + 1 /\ Len(sent) < events
  BY <1>1, <1>2, <1>3, <1>4
<1> QED
  BY <1>1, <1>5 DEF Delivery!Deliver

\* The loop over the array ends when everything asked for was delivered.
LEMMA EndDrainEventsCloses == IInv /\ EndDrainEvents => Delivery!Close
<1> SUFFICES ASSUME IInv, EndDrainEvents PROVE Delivery!Close
  OBVIOUS
<1>1. /\ phase = "events" /\ phase' = "warnings" /\ cursor >= Len(eventqueue)
      /\ UNCHANGED <<events, sent>>
  BY DEF EndDrainEvents, At, counts, log
<1>2. /\ cursor \in Nat /\ Len(eventqueue) \in Nat /\ events \in Nat /\ Len(sent) \in Nat
      /\ cursor <= Len(eventqueue) /\ Len(sent) = events - Len(eventqueue) + cursor
  BY <1>1 DEF IInv, QueueTypes, EventNumbers, Done
<1>3. Len(sent) = events
  BY <1>1, <1>2
<1> QED
  BY <1>1, <1>3 DEF Delivery!Close

\* Every step of the main loop is a step of the channel or none.
LEMMA DeliveryStep == IInv /\ [Next]_vars => [Delivery!Next]_Delivery!vars
<1> SUFFICES ASSUME IInv, [Next]_vars PROVE [Delivery!Next]_Delivery!vars
  OBVIOUS
<1>1. CASE QueueEvent
  BY <1>1 DEF QueueEvent, log, Delivery!Ask, Delivery!Next
<1>2. CASE QueueWarning \/ QueueXmlWarning
  BY <1>2, Stutters DEF QueueWarning, QueueXmlWarning, log
<1>3. CASE \E f \in Frame, b \in BOOLEAN : CreateFrame(f, b)
  BY <1>3, Stutters DEF CreateFrame, counts, log
<1>4. CASE \E f \in Frame : Show(f) \/ Hide(f) \/ SetDirty(f)
  BY <1>4, Stutters DEF Show, Hide, SetDirty, counts, log
<1>5. CASE NextFrame
  BY <1>5 DEF NextFrame, counts, Delivery!Open, Delivery!Next
<1>6. CASE DrainEvents
  BY <1>6, DrainEventsDelivers DEF Delivery!Next
<1>7. CASE EndDrainEvents
  BY <1>7, EndDrainEventsCloses DEF Delivery!Next
<1>8. CASE Return \/ DrainWarnings \/ EndDrainWarnings
  BY <1>8, Stutters DEF Return, DrainWarnings, EndDrainWarnings, At, counts, log
<1>9. CASE EndAdvance \/ OnUpdate \/ EndFrame
  BY <1>9, Stutters DEF EndAdvance, OnUpdate, EndFrame, At, counts, log
<1>10. CASE UNCHANGED vars
  BY <1>10, Stutters DEF vars, counts, log
<1> QED
  BY <1>1, <1>2, <1>3, <1>4, <1>5, <1>6, <1>7, <1>8, <1>9, <1>10 DEF Next, LuaCalls, LoopStep

\* The event queue of the main loop is a channel that delivers in order and
\* leaves nothing behind in a drain (eventqueue.lua:5-14).
THEOREM MainLoopDelivers == Spec => DeliversInOrder
<1>1. Init => Delivery!Init
  BY DEF Init, Delivery!Init
<1> QED
  BY <1>1, DeliveryStep, IInvAlways, PTL DEF Spec, DeliversInOrder, Delivery!Spec
=============================================================================
