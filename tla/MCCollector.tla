----------------------------- MODULE MCCollector -----------------------------
(* Instance of Collector for TLC.                                          *)
EXTENDS Collector

CONSTANTS reg, t1, wv, wk, f1, f2, k1, u1, u2, main, co, d1, d2, s1

MCBucket == [s \in Strings |-> 1]

\* a table in a userdata in a weak table, with nothing else on it
WithWeak ==
  LET h1 == PushUserdata(PushTable(EmptyHeap, main, wv), main, d1)
  IN SetTable(SetTable(h1, wv, Plain, d1), reg, Plain, wv)

\* two closures over one local that is gone; one is kept, one on the stack
WithClosures ==
  LET h1 == PushClosureOfLocal(PushTable(EmptyHeap, main, t1), main, f1, 1)
      h2 == SetTable(h1, reg, Plain, f1)
      h3 == Push(Leave(h2, main, 1), main, t1)
  IN PushClosureOfUpval(h3, main, f2, f1)

\* a thread kept in the registry, a closure over a slot of it on the stack
WithThread ==
  LET h1 == SetTable(PushThread(EmptyHeap, main, co), reg, Plain, co)
      h2 == PushTable(h1, co, t1)
  IN XMove(PushClosureOfLocal(h2, co, f1, 1), co, main)

\* a userdata that is key and value of a weak table
WithKeys ==
  LET h1 == PushUserdata(PushTable(EmptyHeap, main, wk), main, d1)
  IN SetTable(SetTable(h1, wk, d1, d1), reg, Plain, wk)

\* two closures over different locals, one of them gone
WithPair ==
  LET h1 == PushClosureOfLocal(PushTable(EmptyHeap, main, t1), main, f1, 1)
      h2 == Leave(SetTable(h1, reg, Plain, f1), main, 1)
  IN PushClosureOfLocal(PushString(h2, main, s1), main, f2, 1)

MCStarts == {WithWeak, WithClosures, WithPair, WithThread, WithKeys}
=============================================================================
