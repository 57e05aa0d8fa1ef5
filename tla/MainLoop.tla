------------------------------ MODULE MainLoop ------------------------------
(***************************************************************************)
(* One frame of the client: src/wowless/modules/mainloop.lua with the      *)
(* queues it empties, eventqueue.lua, warningqueue.lua and                 *)
(* xmlwarningqueue.lua.                                                    *)
(*                                                                         *)
(* Every step of the loop may run Lua code, and that code may queue more,  *)
(* make frames and show or hide them while the loop is where it is.  What  *)
(* the code of one step does is a number of calls until it returns; the    *)
(* delivery of an event and the timers have modules of their own.          *)
(***************************************************************************)
EXTENDS HList, FiniteSets

CONSTANTS
  Frame,
  MaxWarnings,        \* maxWarningsPerFrame
  MaxCalls            \* bound: calls in a behaviour

ASSUME BoundAssumption == MaxWarnings \in Nat /\ MaxCalls \in Nat

VARIABLES
  eventqueue,         \* the events pending, numbered as they were queued
  warningqueue,       \* the warnings pending, of either kind
  xmlwarningqueue,    \* those the XML reader has put aside
  phase,              \* where NextFrame is: "idle" between two frames
  script,             \* Lua code runs on its behalf
  cursor, limit,      \* of the queue it drains: items sent, last item to send
  frames,             \* hash list of the frames, in the order of creation
  first, cur,         \* control value of the walk over them
  visible,            \* the frames that IsVisible
  stale,              \* the frames with a dirty rectangle
  calls,              \* calls made so far
  events, warnings,   \* history: events, warnings queued so far
  closed,             \* history: warnings queued when the last drain ended
  sent,               \* history: events sent
  warned, updated,    \* history: warnings sent, frames updated this frame
  shown               \* history: visible ever since the OnUpdate walk began

queues == <<eventqueue, warningqueue, xmlwarningqueue>>
walk   == <<first, cur>>
ui     == <<frames, visible, stale, shown>>
counts == <<events, warnings, closed>>
log    == <<sent, warned, updated>>
vars   == <<queues, phase, script, cursor, limit, walk, ui, calls, counts, log>>

Warning == [xml : BOOLEAN, n : Nat]

Init ==
  /\ eventqueue = <<>> /\ warningqueue = <<>> /\ xmlwarningqueue = <<>>
  /\ phase = "idle" /\ script = FALSE /\ cursor = 0 /\ limit = 0
  /\ frames = EmptyHList /\ first = TRUE /\ cur \in Frame
  /\ visible = {} /\ stale = {} /\ calls = 0
  /\ events = 0 /\ warnings = 0 /\ closed = 0
  /\ sent = <<>> /\ warned = <<>> /\ updated = <<>> /\ shown = {}

-----------------------------------------------------------------------------
(* Calls of Lua code, run by the loop or by the host between two frames. *)

LuaRuns == phase = "idle" \/ script

Call == LuaRuns /\ calls < MaxCalls /\ calls' = calls + 1

QueueEvent ==
  /\ Call
  /\ events' = events + 1
  /\ eventqueue' = Append(eventqueue, events')
  /\ UNCHANGED <<warningqueue, xmlwarningqueue, phase, script, cursor, limit, walk,
                 ui, warnings, closed, log>>

\* From CreateFrame, a script binding, or an error whose handler fails.
QueueWarning ==
  /\ Call
  /\ warnings' = warnings + 1
  /\ warningqueue' = Append(warningqueue, [xml |-> FALSE, n |-> warnings'])
  /\ UNCHANGED <<eventqueue, xmlwarningqueue, phase, script, cursor, limit, walk,
                 ui, events, closed, log>>

\* From loading XML.
QueueXmlWarning ==
  /\ Call
  /\ warnings' = warnings + 1
  /\ xmlwarningqueue' = Append(xmlwarningqueue, [xml |-> TRUE, n |-> warnings'])
  /\ UNCHANGED <<eventqueue, warningqueue, phase, script, cursor, limit, walk,
                 ui, events, closed, log>>

\* A variant with a slip in it: a frame visible at once is not listed.
CreateFrameListedLate(f, isVisible) ==
  /\ Call /\ ~Has(frames, f)
  /\ frames' = IF isVisible THEN frames ELSE Insert(frames, f)
  /\ visible' = IF isVisible THEN visible \cup {f} ELSE visible
  /\ shown' = IF isVisible /\ phase = "update" THEN shown \cup {f} ELSE shown
  /\ UNCHANGED <<queues, phase, script, cursor, limit, walk, stale, counts, log>>

\* CreateUIObject, as far as the loop sees it: the frame joins the list.
CreateFrame(f, isVisible) ==
  /\ Call /\ ~Has(frames, f)
  /\ frames' = Insert(frames, f)
  /\ visible' = IF isVisible THEN visible \cup {f} ELSE visible
  /\ shown' = IF isVisible /\ phase = "update" THEN shown \cup {f} ELSE shown
  /\ UNCHANGED <<queues, phase, script, cursor, limit, walk, stale, counts, log>>

\* A frame, or one above it, is shown or hidden: a call for each frame that
\* it makes visible or invisible.
Show(f) ==
  /\ Call /\ Has(frames, f) /\ visible' = visible \cup {f}
  /\ UNCHANGED <<queues, phase, script, cursor, limit, walk, frames, stale, shown,
                 counts, log>>

Hide(f) ==
  /\ Call /\ Has(frames, f) /\ visible' = visible \ {f} /\ shown' = shown \ {f}
  /\ UNCHANGED <<queues, phase, script, cursor, limit, walk, frames, stale, counts, log>>

\* Whatever changes where a frame is.
SetDirty(f) ==
  /\ Call /\ Has(frames, f) /\ stale' = stale \cup {f}
  /\ UNCHANGED <<queues, phase, script, cursor, limit, walk, frames, visible, shown,
                 counts, log>>

LuaCalls ==
  \/ QueueEvent \/ QueueWarning \/ QueueXmlWarning
  \/ \E f \in Frame, b \in BOOLEAN : CreateFrame(f, b)
  \/ \E f \in Frame : Show(f) \/ Hide(f) \/ SetDirty(f)

\* The code of this step returns.
Return ==
  /\ script /\ script' = FALSE
  /\ UNCHANGED <<queues, phase, cursor, limit, walk, ui, calls, counts, log>>

-----------------------------------------------------------------------------
(* NextFrame *)

NextFrame ==
  /\ phase = "idle"
  /\ phase' = "events" /\ cursor' = 0 /\ warned' = <<>> /\ updated' = <<>>
  /\ UNCHANGED <<queues, script, limit, walk, ui, calls, counts, sent>>

At(p) == phase = p /\ ~script

\* A variant with a slip in it: what is sent is taken out of the array.
DrainEventsTaking ==
  /\ At("events") /\ cursor < Len(eventqueue)
  /\ cursor' = cursor + 1
  /\ sent' = Append(sent, eventqueue[cursor'])
  /\ eventqueue' = Tail(eventqueue)
  /\ script' = TRUE
  /\ UNCHANGED <<warningqueue, xmlwarningqueue, phase, limit, walk, ui, calls, counts,
                 warned, updated>>

\* ipairs(pending) sees what is added while it runs.
DrainEvents ==
  /\ At("events") /\ cursor < Len(eventqueue)
  /\ cursor' = cursor + 1
  /\ sent' = Append(sent, eventqueue[cursor'])
  /\ script' = TRUE
  /\ UNCHANGED <<queues, phase, limit, walk, ui, calls, counts, warned, updated>>

\* A variant with a slip in it: the XML reader's warnings go in front.
XmlFirst ==
  /\ At("events") /\ cursor >= Len(eventqueue)
  /\ eventqueue' = <<>>
  /\ warningqueue' = xmlwarningqueue \o warningqueue
  /\ xmlwarningqueue' = <<>>
  /\ phase' = "warnings" /\ cursor' = 0
  /\ limit' = IF Len(warningqueue') < MaxWarnings THEN Len(warningqueue') ELSE MaxWarnings
  /\ UNCHANGED <<script, walk, ui, calls, counts, log>>

\* Then the warnings of the XML reader go behind the others (Dump), and the
\* number to send is settled: neither runs any Lua.
EndDrainEvents ==
  /\ At("events") /\ cursor >= Len(eventqueue)
  /\ eventqueue' = <<>>
  /\ warningqueue' = warningqueue \o xmlwarningqueue
  /\ xmlwarningqueue' = <<>>
  /\ phase' = "warnings" /\ cursor' = 0
  /\ limit' = IF Len(warningqueue') < MaxWarnings THEN Len(warningqueue') ELSE MaxWarnings
  /\ UNCHANGED <<script, walk, ui, calls, counts, log>>

DrainWarnings ==
  /\ At("warnings") /\ cursor < limit
  /\ cursor' = cursor + 1
  /\ warned' = Append(warned, warningqueue[cursor'])
  /\ script' = TRUE
  /\ UNCHANGED <<queues, phase, limit, walk, ui, calls, counts, sent, updated>>

\* A variant with a slip in it: what the limit cut off stays for the next frame.
EndDrainKeeping ==
  /\ At("warnings") /\ cursor = limit
  /\ warningqueue' = SubSeq(warningqueue, limit + 1, Len(warningqueue))
  /\ closed' = warnings
  /\ phase' = "timers" /\ script' = TRUE
  /\ UNCHANGED <<eventqueue, xmlwarningqueue, cursor, limit, walk, ui, calls,
                 events, warnings, log>>

\* Then Advance(elapsed): the callbacks of the timers, if any is due.
EndDrainWarnings ==
  /\ At("warnings") /\ cursor = limit
  /\ warningqueue' = <<>> /\ closed' = warnings
  /\ phase' = "timers" /\ script' = TRUE
  /\ UNCHANGED <<eventqueue, xmlwarningqueue, cursor, limit, walk, ui, calls,
                 events, warnings, log>>

EndAdvance ==
  /\ At("timers")
  /\ phase' = "update" /\ first' = TRUE /\ shown' = visible
  /\ UNCHANGED <<queues, script, cursor, limit, cur, frames, visible, stale,
                 calls, counts, log>>

\* A variant with a slip in it: the walk does not move on from the first.
OnUpdateStuck ==
  /\ At("update") /\ HasNext(frames, first, cur)
  /\ cur' = NextEntry(frames, first, cur)
  /\ script' = (cur' \in visible)
  /\ updated' = IF cur' \in visible THEN Append(updated, cur') ELSE updated
  /\ UNCHANGED <<queues, phase, cursor, limit, first, ui, calls, counts, sent, warned>>

\* The next frame of the walk; a frame made during the walk is still to come.
OnUpdate ==
  /\ At("update") /\ HasNext(frames, first, cur)
  /\ first' = FALSE /\ cur' = NextEntry(frames, first, cur)
  /\ script' = (cur' \in visible)
  /\ updated' = IF cur' \in visible THEN Append(updated, cur') ELSE updated
  /\ UNCHANGED <<queues, phase, cursor, limit, ui, calls, counts, sent, warned>>

\* A variant with a slip in it: only the frames updated are looked at.
EndFrameUpdated ==
  /\ At("update") /\ ~HasNext(frames, first, cur)
  /\ stale' = stale \ {updated[i] : i \in DOMAIN updated} /\ phase' = "idle"
  /\ UNCHANGED <<queues, script, cursor, limit, walk, frames, visible, shown,
                 calls, counts, log>>

\* Then GetRect for every visible frame, which runs no Lua.
EndFrame ==
  /\ At("update") /\ ~HasNext(frames, first, cur)
  /\ stale' = stale \ visible /\ phase' = "idle"
  /\ UNCHANGED <<queues, script, cursor, limit, walk, frames, visible, shown,
                 calls, counts, log>>

LoopStep ==
  \/ Return \/ DrainEvents \/ EndDrainEvents \/ DrainWarnings \/ EndDrainWarnings
  \/ EndAdvance \/ OnUpdate \/ EndFrame

Next == LuaCalls \/ NextFrame \/ LoopStep

\* The code a frame runs returns, and nothing else holds the loop up.
Spec == Init /\ [][Next]_vars /\ WF_vars(LoopStep)

-----------------------------------------------------------------------------
(* Properties *)

Elements(s) == {s[i] : i \in DOMAIN s}

\* The types of the variables.
TypeOK ==
  /\ eventqueue \in Seq(1 .. MaxCalls)
  /\ Elements(warningqueue) \cup Elements(xmlwarningqueue) \cup Elements(warned)
       \subseteq [xml : BOOLEAN, n : 1 .. MaxCalls]
  /\ phase \in {"idle", "events", "warnings", "timers", "update"}
  /\ script \in BOOLEAN /\ first \in BOOLEAN /\ cur \in Frame
  /\ cursor \in Nat /\ limit \in 0 .. MaxWarnings
  /\ Members(frames) \subseteq Frame
  /\ visible \cup stale \cup shown \cup Elements(updated) \subseteq Members(frames)
  /\ calls \in 0 .. MaxCalls /\ events \in Nat /\ warnings \in Nat /\ closed \in 0 .. warnings
  /\ Elements(sent) \subseteq 1 .. events

\* The events of the queue that are still to be sent.
Unsent ==
  IF phase = "events" THEN SubSeq(eventqueue, cursor + 1, Len(eventqueue)) ELSE eventqueue

\* Every event queued, from wherever and also by the handlers of the drain
\* itself, is sent once and in order, or is still to come (eventqueue.lua:9-14).
EventsInOrder == sent \o Unsent = [i \in 1 .. events |-> i]

Delivery == INSTANCE EventDelivery
  WITH asked <- events, delivered <- sent, draining <- (phase = "events")

\* The array, its cursor and the phases of NextFrame implement a channel that
\* delivers what was asked for in order, only in a drain, and that ends no
\* drain while something is left (eventqueue.lua:5-14).
DeliversInOrder == Delivery!Spec

\* The warnings sent in a frame are no more than the limit, in the order they
\* were raised except that those of the XML reader come last, also the older
\* ones (xmlwarningqueue.lua:9-14, warningqueue.lua:14-19).
WarningsInOrder ==
  /\ Len(warned) <= MaxWarnings
  /\ \A i, j \in DOMAIN warned : i < j =>
       \/ ~warned[i].xml /\ warned[j].xml
       \/ warned[i].xml = warned[j].xml /\ warned[i].n < warned[j].n

\* A warning that was in the queue when a drain ended is dropped, never kept
\* for the next frame, those raised during the drain included ("silently
\* dropped, not carried over to the next one", warningqueue.lua:1-4).  The
\* XML reader's own list is no part of it.
NotCarriedOver ==
  phase \in {"timers", "update", "idle", "events"} =>
    \A w \in Elements(warningqueue) : ~w.xml /\ w.n > closed

\* Warnings come out in their order, up to the limit, and none comes out in a
\* later frame than the one it was raised in.
Warnings == WarningsInOrder /\ NotCarriedOver

\* OnUpdate runs in the order of creation and once for a frame
\* (mainloop.lua:16-20), whatever the scripts make in between.
UpdatedInOrder ==
  \A i, j \in DOMAIN updated : i < j =>
    frames.set[updated[i]] < frames.set[updated[j]]

\* When the walk ends it has reached every frame that was visible all the
\* time, from its start or from the frame's creation in it.
ShownUpdated ==
  At("update") /\ ~HasNext(frames, first, cur) => shown \subseteq Elements(updated)

\* The walk over the frames runs OnUpdate of what is shown, once and in order.
Updates == UpdatedInOrder /\ ShownUpdated

\* A frame ends with no visible frame's rectangle dirty (mainloop.lua:21-25),
\* also not that of a frame shown or moved after its turn.
FrameFresh ==
  [][phase = "update" /\ phase' = "idle" => stale' \cap visible' = {}]_vars

\* NextFrame comes to an end.  (It would not if handlers queued an event for
\* every event for ever; calls are bounded here.)
FrameEnds == phase = "events" ~> phase = "idle"

\* Every frame comes to its end, and then no visible rectangle is dirty.
FrameDone == FrameFresh /\ FrameEnds
=============================================================================
