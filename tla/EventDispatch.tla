--------------------------- MODULE EventDispatch ---------------------------
(***************************************************************************)
(* Event registration and delivery: src/wowless/modules/events.lua with    *)
(* RunScript of scripts.lua and Invoke of funtainer.lua.                   *)
(*                                                                         *)
(* A send runs handlers, and a handler may call every operation of this    *)
(* module again, sends included.  The sends in progress are a stack; the   *)
(* handler that runs now belongs to the top one.  A send takes a snapshot  *)
(* of the registered frames, but walks the callback lists as they are.     *)
(***************************************************************************)
EXTENDS HList, FiniteSets, Functions

CONSTANTS
  Frame, Callback,    \* frames; function containers
  ScriptEvent,        \* events delivered to OnEvent scripts (not `noscript')
  CallbackEvent,      \* events with `callback'
  Restricted,         \* events with `restricted'
  MaxDepth,           \* bound: sends in progress at once
  MaxCalls            \* bound: operations called in a behaviour

Event == ScriptEvent \cup CallbackEvent

VARIABLES
  regs,               \* ScriptEvent -> hash list of frames
  allregs,            \* hash list of frames registered for all events
  global,             \* CallbackEvent -> hash list of callbacks
  frames,             \* CallbackEvent -> (some frames -> hash list of callbacks)
  cancelled,          \* callbacks whose container is cancelled
  stack,              \* sends in progress, the innermost last
  calls,              \* operations called so far
  quiet               \* history: frames that called UnregisterAllEvents last

registry == <<regs, allregs, global, frames>>
vars == <<regs, allregs, global, frames, cancelled, stack, calls, quiet>>

Top == stack[Len(stack)]
Pop == SubSeq(stack, 1, Len(stack) - 1)
SetTop(d) == [stack EXCEPT ![Len(stack)] = d]

(* A send in progress.  `phase' is the loop of DoSendEvent it is in, `todo' *)
(* what is left of its snapshot, `first' and `cur' the control value of the *)
(* callback loop, `left' the frames pairs() has still to come to, `owner'   *)
(* the frame it is at.  `held' keeps the owner's list once `detached' from  *)
(* the registry.  `lost': pairs() may no longer find its key.  The rest is  *)
(* history: `runs' and `due' count OnEvent deliveries made and promised,    *)
(* `got' the global callbacks reached, `start' those there when that loop   *)
(* began, `cut' that one was unregistered during it, `silent' the frames    *)
(* quiet ever since the send began.                                         *)
GetFramesRegisteredForEvent(ev) ==
  (IF ev \in ScriptEvent THEN regs[ev].list ELSE <<>>) \o allregs.list

Due(ev, f) ==
  (IF ev \in ScriptEvent /\ Has(regs[ev], f) THEN 1 ELSE 0)
    + (IF Has(allregs, f) THEN 1 ELSE 0)

NewSend(ev) ==
  [ev |-> ev, phase |-> "frames", todo |-> GetFramesRegisteredForEvent(ev),
   first |-> TRUE, cur |-> CHOOSE c \in Callback : TRUE,
   left |-> {}, owner |-> CHOOSE f \in Frame : TRUE,
   detached |-> FALSE, held |-> EmptyHList, lost |-> FALSE, running |-> FALSE,
   runs |-> [f \in Frame |-> 0], due |-> [f \in Frame |-> Due(ev, f)],
   got |-> <<>>, start |-> {}, cut |-> FALSE, silent |-> quiet]

\* The handlers of a send run inside its pairs() loop only while it walks
\* the list of one frame.
WalkingFrames(d) == d.phase = "list"

Init ==
  /\ regs = [e \in ScriptEvent |-> EmptyHList]
  /\ allregs = EmptyHList
  /\ global = [e \in CallbackEvent |-> EmptyHList]
  /\ frames = [e \in CallbackEvent |-> [f \in {} |-> EmptyHList]]
  /\ cancelled = {} /\ stack = <<>> /\ calls = 0 /\ quiet = {}

-----------------------------------------------------------------------------
(* Operations: called by a running handler, or by Lua code outside a send. *)

Call ==
  /\ calls < MaxCalls
  /\ stack # <<>> => Top.running
  /\ calls' = calls + 1

\* f is registered again: it is not quiet, not for a send in progress either.
Wakes(f) == quiet' = quiet \ {f}

Awake(d, f) == [d EXCEPT !.silent = @ \ {f}]

\* `tainted' is the caller's _G.THETAINT: tainted callers may not register
\* for restricted events.
RegisterEvent(f, ev, tainted) ==
  /\ Call /\ ev \in ScriptEvent
  /\ IF Has(regs[ev], f) \/ (ev \in Restricted /\ tainted)
     THEN UNCHANGED <<regs, stack, quiet>>
     ELSE /\ regs' = [regs EXCEPT ![ev] = Insert(@, f)]
          /\ stack' = [i \in DOMAIN stack |-> Awake(stack[i], f)]
          /\ Wakes(f)
  /\ UNCHANGED <<allregs, global, frames, cancelled>>

RegisterAllEvents(f) ==
  /\ Call
  /\ allregs' = Insert(allregs, f)
  /\ stack' = [i \in DOMAIN stack |-> Awake(stack[i], f)]
  /\ Wakes(f)
  /\ UNCHANGED <<regs, global, frames, cancelled>>

\* A new key in `frames' while pairs() walks it: the walk may now skip or
\* repeat any of the keys, and fails if its own key is gone by then.
Grown(d, ev, keys, rest) ==
  IF d.ev = ev /\ WalkingFrames(d)
  THEN [d EXCEPT !.left = rest, !.lost = d.owner \notin keys]
  ELSE d

RegisterEventCallback(f, ev, cb, tainted) ==
  /\ Call /\ ev \in CallbackEvent
  /\ ev \in Restricted => ~tainted
  /\ LET fresh == f \notin DOMAIN frames[ev]
         keys  == DOMAIN frames[ev] \cup {f}
         old   == IF fresh THEN EmptyHList ELSE frames[ev][f]
     IN /\ frames' = [frames EXCEPT ![ev] =
                        [g \in keys |-> IF g = f THEN Insert(old, cb) ELSE @[g]]]
        /\ IF fresh
           THEN \E rest \in [DOMAIN stack -> SUBSET keys] :
                  stack' = [i \in DOMAIN stack |->
                              Awake(Grown(stack[i], ev, keys, rest[i]), f)]
           ELSE stack' = [i \in DOMAIN stack |-> Awake(stack[i], f)]
  /\ Wakes(f)
  /\ UNCHANGED <<regs, allregs, global, cancelled>>

RegisterEventCallbackGlobal(ev, cb, tainted) ==
  /\ Call /\ ev \in CallbackEvent
  /\ ev \in Restricted => ~tainted
  /\ global' = [global EXCEPT ![ev] = Insert(@, cb)]
  /\ UNCHANGED <<regs, allregs, frames, cancelled, stack, quiet>>

UnregisterEventCallbackGlobal(ev, cb, tainted) ==
  /\ Call /\ ev \in CallbackEvent
  /\ ev \in Restricted => ~tainted
  /\ global' = [global EXCEPT ![ev] = Remove(@, cb)]
  /\ stack' = [i \in DOMAIN stack |->
                 IF stack[i].ev = ev /\ stack[i].phase = "global" /\ Has(global[ev], cb)
                 THEN [stack[i] EXCEPT !.cut = TRUE, !.got = <<>>] ELSE stack[i]]
  /\ UNCHANGED <<regs, allregs, frames, cancelled, quiet>>

\* A variant with a slip in it: a running loop keeps reading the registry.
NotDetached(d, f, evs) ==
  IF d.ev \in evs /\ WalkingFrames(d) THEN [d EXCEPT !.left = @ \ {f}] ELSE d

\* f's callback list leaves the registry.  A loop over that list goes on
\* over the list object; pairs() does not come to f any more.
Detached(d, f, evs) ==
  IF d.ev \in evs /\ WalkingFrames(d) /\ f \in DOMAIN frames[d.ev]
  THEN [d EXCEPT !.left = @ \ {f},
                 !.detached = @ \/ d.owner = f,
                 !.held = IF d.owner = f /\ ~d.detached THEN frames[d.ev][f] ELSE @]
  ELSE d

UnregisterEvent(f, ev) ==
  /\ Call
  /\ regs' = [e \in ScriptEvent |-> IF e = ev THEN Remove(regs[e], f) ELSE regs[e]]
  /\ frames' = [e \in CallbackEvent |->
                  IF e = ev THEN Restrict(frames[e], DOMAIN frames[e] \ {f}) ELSE frames[e]]
  /\ stack' = [i \in DOMAIN stack |-> Detached(stack[i], f, {ev})]
  /\ UNCHANGED <<allregs, global, cancelled, quiet>>

\* A variant with a slip in it: the table of RegisterAllEvents is forgotten.
UnregisterEachEvent(f) ==
  /\ Call
  /\ regs' = [e \in ScriptEvent |-> Remove(regs[e], f)]
  /\ frames' = [e \in CallbackEvent |-> Restrict(frames[e], DOMAIN frames[e] \ {f})]
  /\ stack' = [i \in DOMAIN stack |-> Detached(stack[i], f, CallbackEvent)]
  /\ quiet' = quiet \cup {f}
  /\ UNCHANGED <<allregs, global, cancelled>>

UnregisterAllEvents(f) ==
  /\ Call
  /\ regs' = [e \in ScriptEvent |-> Remove(regs[e], f)]
  /\ frames' = [e \in CallbackEvent |-> Restrict(frames[e], DOMAIN frames[e] \ {f})]
  /\ allregs' = Remove(allregs, f)
  /\ stack' = [i \in DOMAIN stack |-> Detached(stack[i], f, CallbackEvent)]
  /\ quiet' = quiet \cup {f}
  /\ UNCHANGED <<global, cancelled>>

\* funtainer.lua, Cancel
Cancel(cb) ==
  /\ Call
  /\ cancelled' = cancelled \cup {cb}
  /\ UNCHANGED <<registry, stack, quiet>>

SendEvent(ev) ==
  /\ Call /\ Len(stack) < MaxDepth
  /\ stack' = Append(stack, NewSend(ev))
  /\ UNCHANGED <<registry, cancelled, quiet>>

-----------------------------------------------------------------------------
(* The steps of a send (DoSendEvent), taken while no handler of it runs. *)

Ready(phase) == stack # <<>> /\ ~Top.running /\ Top.phase = phase

\* A variant with a slip in it: frames gone from the registry are passed over.
RunScriptIfRegistered ==
  /\ Ready("frames") /\ Top.todo # <<>>
  /\ LET on == Due(Top.ev, Head(Top.todo)) > 0 IN
     stack' = SetTop([Top EXCEPT !.todo = Tail(@), !.running = on,
                                 !.runs[Head(Top.todo)] = IF on THEN @ + 1 ELSE @])

\* The next frame of the snapshot runs its OnEvent scripts, registered or not.
RunScript ==
  /\ Ready("frames") /\ Top.todo # <<>>
  /\ stack' = SetTop([Top EXCEPT !.todo = Tail(@), !.running = TRUE,
                                 !.runs[Head(Top.todo)] = @ + 1])

FramesDone ==
  /\ Ready("frames") /\ Top.todo = <<>>
  /\ IF Top.ev \in CallbackEvent
     THEN stack' = SetTop([Top EXCEPT !.phase = "global", !.first = TRUE,
                                      !.start = Members(global[Top.ev])])
     ELSE stack' = Pop

\* A variant with a slip in it: the control value of the loop stays nil.
GlobalFirst ==
  /\ Ready("global")
  /\ LET h  == global[Top.ev]
         cb == NextEntry(h, TRUE, Top.cur)
     IN /\ HasNext(h, TRUE, Top.cur)
        /\ stack' = SetTop([Top EXCEPT !.cur = cb, !.running = cb \notin cancelled])

\* Invoke: a cancelled container is passed over.
GlobalNext ==
  /\ Ready("global")
  /\ LET h  == global[Top.ev]
         cb == NextEntry(h, Top.first, Top.cur)
     IN /\ HasNext(h, Top.first, Top.cur)
        /\ stack' = SetTop([Top EXCEPT !.first = FALSE, !.cur = cb,
                                       !.running = cb \notin cancelled,
                                       !.got = IF Top.cut THEN @ ELSE Append(@, cb)])

GlobalDone ==
  /\ Ready("global") /\ ~HasNext(global[Top.ev], Top.first, Top.cur)
  /\ stack' = SetTop([Top EXCEPT !.phase = "owners", !.left = DOMAIN frames[Top.ev]])

\* pairs(): the order of the keys is any.
PickOwner ==
  /\ Ready("owners")
  /\ \E f \in Top.left :
       stack' = SetTop([Top EXCEPT !.phase = "list", !.owner = f, !.left = @ \ {f},
                                   !.first = TRUE, !.detached = FALSE])

OwnerList(d) == IF d.detached THEN d.held ELSE frames[d.ev][d.owner]

OwnerNext ==
  /\ Ready("list")
  /\ LET h  == OwnerList(Top)
         cb == NextEntry(h, Top.first, Top.cur)
     IN /\ HasNext(h, Top.first, Top.cur)
        /\ stack' = SetTop([Top EXCEPT !.first = FALSE, !.cur = cb,
                                       !.running = cb \notin cancelled])

OwnerDone ==
  /\ Ready("list") /\ ~HasNext(OwnerList(Top), Top.first, Top.cur)
  /\ stack' = SetTop([Top EXCEPT !.phase = "owners", !.held = EmptyHList,
                                 !.detached = FALSE, !.lost = FALSE])

\* next() does not find its key: the send ends with an error in its caller.
WalkFails ==
  /\ Ready("list") /\ Top.lost
  /\ ~HasNext(OwnerList(Top), Top.first, Top.cur)
  /\ stack' = Pop

SendDone ==
  /\ Ready("owners") /\ Top.left = {}
  /\ stack' = Pop

\* The handler returns, or raises an error: CallSandbox catches it.
HandlerReturns ==
  /\ stack # <<>> /\ Top.running
  /\ stack' = SetTop([Top EXCEPT !.running = FALSE])

DoSendEvent ==
  /\ \/ RunScript \/ FramesDone \/ GlobalNext \/ GlobalDone
     \/ PickOwner \/ OwnerNext \/ OwnerDone \/ WalkFails \/ SendDone
     \/ HandlerReturns
  /\ UNCHANGED <<registry, cancelled, calls, quiet>>

Operation ==
  \/ \E f \in Frame : RegisterAllEvents(f) \/ UnregisterAllEvents(f)
  \/ \E f \in Frame, ev \in Event : UnregisterEvent(f, ev)
  \/ \E f \in Frame, ev \in Event, tainted \in BOOLEAN : RegisterEvent(f, ev, tainted)
  \/ \E f \in Frame, ev \in Event, cb \in Callback, tainted \in BOOLEAN :
       RegisterEventCallback(f, ev, cb, tainted)
  \/ \E ev \in Event, cb \in Callback, tainted \in BOOLEAN :
       \/ RegisterEventCallbackGlobal(ev, cb, tainted)
       \/ UnregisterEventCallbackGlobal(ev, cb, tainted)
  \/ \E cb \in Callback : Cancel(cb)
  \/ \E ev \in Event : SendEvent(ev)

Next == Operation \/ DoSendEvent

Spec == Init /\ [][Next]_vars /\ WF_vars(DoSendEvent)

-----------------------------------------------------------------------------
(* Properties *)

IsHList(h, S) == DOMAIN h.set \subseteq S /\ \A i \in DOMAIN h.list : h.list[i] \in S

\* The types of the variables; a frame's callback list a loop is at is in the
\* registry unless the loop holds it.
TypeOK ==
  /\ DOMAIN regs = ScriptEvent /\ \A e \in ScriptEvent : IsHList(regs[e], Frame)
  /\ IsHList(allregs, Frame)
  /\ DOMAIN global = CallbackEvent /\ DOMAIN frames = CallbackEvent
  /\ \A e \in CallbackEvent :
       /\ IsHList(global[e], Callback) /\ DOMAIN frames[e] \subseteq Frame
       /\ \A f \in DOMAIN frames[e] : IsHList(frames[e][f], Callback)
  /\ cancelled \subseteq Callback /\ quiet \subseteq Frame
  /\ Len(stack) <= MaxDepth /\ calls \in 0 .. MaxCalls
  /\ \A i \in DOMAIN stack :
       /\ stack[i].phase \in {"frames", "global", "owners", "list"}
       /\ stack[i].phase = "list" =>
            stack[i].detached \/ stack[i].owner \in DOMAIN frames[stack[i].ev]

\* Whatever the handlers register and unregister, every frame has its OnEvent
\* run exactly as often as it was registered when the send began: once for
\* the event, once more for all events (events.lua, DoSendEvent over
\* GetFramesRegisteredForEvent).
SnapshotDelivered ==
  \A i \in DOMAIN stack : stack[i].phase # "frames" => stack[i].runs = stack[i].due

\* A frame that called UnregisterAllEvents and has registered for nothing
\* since is in no registry, and no send begun since runs anything of it
\* (events.lua, UnregisterAllEvents has four tables to clear).
QuietFrames ==
  /\ \A f \in quiet :
       /\ ~Has(allregs, f)
       /\ \A e \in ScriptEvent : ~Has(regs[e], f)
       /\ \A e \in CallbackEvent : f \notin DOMAIN frames[e]
  /\ \A i \in DOMAIN stack :
       /\ \A k \in DOMAIN stack[i].todo : stack[i].todo[k] \notin stack[i].silent
       /\ stack[i].phase = "list" => stack[i].owner \notin stack[i].silent

\* The loop over the global callbacks reaches each of those there when it
\* began, and none twice, unless one was unregistered while it ran: then the
\* hash list moves entries under it (events.lua:157, hlist.lua:21-33).
GlobalCallbacksReached ==
  \A i \in DOMAIN stack :
    LET d == stack[i] IN
      WalkingFrames(d) /\ ~d.cut =>
        /\ d.start \subseteq Range(d.got)
        /\ IsInjective(d.got)

\* A send delivers to what was registered when it began, frames and global
\* callbacks alike, whatever handlers do in the middle of it.
Delivered == SnapshotDelivered /\ GlobalCallbacksReached

\* A send, with all the sends its handlers make, comes to its end, provided
\* handlers return.
SendsEnd == (stack # <<>>) ~> (stack = <<>>)

=============================================================================
