---------------------------- MODULE EventDelivery ----------------------------
(***************************************************************************)
(* What the event queue promises the code that queues events and the       *)
(* handlers that receive them: events are delivered in the order in which  *)
(* they were asked for, each once, those asked for by handlers during a    *)
(* drain in the same drain.                                                *)
(***************************************************************************)
EXTENDS Naturals, Sequences

VARIABLES
  asked,       \* how many events were asked for; they are numbered
  delivered,   \* the events delivered, in order
  draining     \* a drain is under way

vars == <<asked, delivered, draining>>

Init == asked = 0 /\ delivered = <<>> /\ draining = FALSE

Ask ==
  /\ asked' = asked + 1
  /\ UNCHANGED <<delivered, draining>>

Open ==
  /\ ~draining /\ draining' = TRUE
  /\ UNCHANGED <<asked, delivered>>

Deliver ==
  /\ draining /\ Len(delivered) < asked
  /\ delivered' = Append(delivered, Len(delivered) + 1)
  /\ UNCHANGED <<asked, draining>>

\* Nothing is left for the next drain.
Close ==
  /\ draining /\ Len(delivered) = asked
  /\ draining' = FALSE
  /\ UNCHANGED <<asked, delivered>>

Next == Ask \/ Open \/ Deliver \/ Close

Spec == Init /\ [][Next]_vars
=============================================================================
