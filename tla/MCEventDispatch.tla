-------------------------- MODULE MCEventDispatch --------------------------
EXTENDS EventDispatch, TLC

CONSTANTS f1, f2, c1, c2, c3, E

\* The registrations that a program makes first, by legal calls: f1 for the
\* event, f2 for the event and for all events, a callback on each frame and
\* two global ones.
L(s) == [list |-> s, set |-> [x \in Range(s) |-> CHOOSE i \in DOMAIN s : s[i] = x]]

MCInit ==
  /\ regs = [e \in ScriptEvent |-> L(<<f1, f2>>)]
  /\ allregs = L(<<f2>>)
  /\ global = [e \in CallbackEvent |-> L(<<c1, c2, c3>>)]
  /\ frames = [e \in CallbackEvent |-> (f1 :> L(<<c2, c1>>))]
  /\ cancelled = {} /\ stack = <<>> /\ calls = 0 /\ quiet = {}

MCSpec == MCInit /\ [][Next]_vars /\ WF_vars(DoSendEvent)

=============================================================================
