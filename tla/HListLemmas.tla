----------------------------- MODULE HListLemmas -----------------------------
(***************************************************************************)
(* What the operations of a hash list keep and do, for every set V of      *)
(* values: for the proofs about all components that keep hash lists.       *)
(***************************************************************************)
EXTENDS HList, SequenceTheorems, TLAPS

\* A well-formed hash list over V: values have a slot, and the two halves
\* agree on it.
HListOK(g, V) ==
  /\ g.list \in Seq(V) /\ DOMAIN g.set \subseteq V
  /\ g = [list |-> g.list, set |-> [x \in DOMAIN g.set |-> g.set[x]]]
  /\ \A x \in DOMAIN g.set : g.set[x] \in 1 .. Len(g.list) /\ g.list[g.set[x]] = x
  /\ \A i \in 1 .. Len(g.list) : g.list[i] \in DOMAIN g.set /\ g.set[g.list[i]] = i

-----------------------------------------------------------------------------

\* The empty sequence is the only one of length 0.
LEMMA EmptyListOfV ==
  ASSUME NEW V
  PROVE  /\ <<>> \in Seq(V) /\ Len(<<>>) = 0
         /\ \A s \in Seq(V) : Len(s) \in Nat /\ (s # <<>> => 1 <= Len(s))
<1>1. <<>> \in Seq(V) /\ Len(<<>>) = 0
  BY EmptySeq
<1>2. ASSUME NEW s \in Seq(V) PROVE Len(s) \in Nat /\ (s # <<>> => 1 <= Len(s))
  <2>1. s # <<>> => Len(s) \in Nat \ {0}
    BY EmptySeq
  <2> QED
    BY <2>1
<1> QED
  BY <1>1, <1>2

\* insert (hlist.lua:14-20) keeps a hash list well-formed, keeps every entry
\* in its slot, and makes v a member.
LEMMA InsertOK ==
  ASSUME NEW V, NEW g, HListOK(g, V), NEW v \in V
  PROVE  /\ HListOK(Insert(g, v), V)
         /\ Len(g.list) <= Len(Insert(g, v).list)
         /\ \A i \in 1 .. Len(g.list) : Insert(g, v).list[i] = g.list[i]
         /\ Members(Insert(g, v)) = Members(g) \cup {v}
<1>1. CASE Has(g, v)
  BY <1>1 DEF HListOK, Insert, Has, Members
<1>2. CASE ~Has(g, v)
  <2> DEFINE n == Len(g.list)
             gl == Append(g.list, v)
             gs == [x \in DOMAIN g.set \cup {v} |->
                      IF x = v THEN Len(g.list) + 1 ELSE g.set[x]]
  <2>1. Insert(g, v) = [list |-> gl, set |-> gs]
    BY <1>2 DEF Insert
  <2>2. /\ gl \in Seq(V) /\ Len(gl) = n + 1 /\ n \in Nat
        /\ gl[n + 1] = v /\ \A i \in 1 .. n : gl[i] = g.list[i]
    BY DEF HListOK
  <2>3. \A x \in DOMAIN gs : gs[x] \in 1 .. Len(gl) /\ gl[gs[x]] = x
    BY <2>2 DEF HListOK
  <2>4. \A i \in 1 .. Len(gl) : gl[i] \in DOMAIN gs /\ gs[gl[i]] = i
    <3>1. \A i \in 1 .. n : g.list[i] # v
      BY <1>2 DEF HListOK, Has
    <3> QED
      BY <2>2, <3>1 DEF HListOK
  <2>5. DOMAIN gs = DOMAIN g.set \cup {v}
    OBVIOUS
  <2>6. DOMAIN gs \subseteq V
    BY <2>5 DEF HListOK
  <2> HIDE DEF gl, gs
  <2>7. HListOK([list |-> gl, set |-> gs], V)
    <3>1. gs = [x \in DOMAIN gs |-> gs[x]]
      BY DEF gs
    <3> QED
      BY <2>2, <2>3, <2>4, <2>6, <3>1 DEF HListOK
  <2> QED
    BY <2>1, <2>2, <2>5, <2>7 DEF Members
<1> QED
  BY <1>1, <1>2

\* The slots after an insert: those there were, and one behind them all.
LEMMA InsertSlots ==
  ASSUME NEW V, NEW g, HListOK(g, V), NEW v \in V
  PROVE  /\ \A x \in Members(g) : Insert(g, v).set[x] = g.set[x]
         /\ ~Has(g, v) => Insert(g, v).set[v] = Len(g.list) + 1
BY DEF Insert, Has, Members

\* remove (hlist.lua:21-33) keeps a hash list well-formed; it shortens the
\* list by one and leaves every slot before v's as it was.
LEMMA RemoveOK ==
  ASSUME NEW V, NEW g, HListOK(g, V), NEW v \in V, Has(g, v)
  PROVE  /\ HListOK(Remove(g, v), V)
         /\ Len(Remove(g, v).list) = Len(g.list) - 1
         /\ \A i \in 1 .. g.set[v] - 1 : Remove(g, v).list[i] = g.list[i]
         /\ Members(Remove(g, v)) = Members(g) \ {v}
<1> DEFINE n    == Len(g.list)
           k    == g.set[v]
           last == g.list[n]
           gl   == [i \in 1 .. n - 1 |-> IF i = k THEN last ELSE g.list[i]]
           gs   == [x \in DOMAIN g.set \ {v} |-> IF x = last THEN k ELSE g.set[x]]
<1>1. Remove(g, v) = [list |-> gl, set |-> gs]
  BY DEF Remove
<1>2. n \in Nat /\ k \in 1 .. n /\ g.list[k] = v /\ last \in DOMAIN g.set /\ g.set[last] = n
  BY DEF HListOK, Has
<1>3. gl \in Seq(V) /\ Len(gl) = n - 1
  BY <1>2 DEF HListOK
<1>4. \A x \in DOMAIN gs : gs[x] \in 1 .. Len(gl) /\ gl[gs[x]] = x
  <2> SUFFICES ASSUME NEW x \in DOMAIN gs
               PROVE  gs[x] \in 1 .. n - 1 /\ gl[gs[x]] = x
    BY <1>3
  <2>1. x \in DOMAIN g.set /\ x # v /\ g.set[x] \in 1 .. n /\ g.list[g.set[x]] = x
    BY DEF HListOK
  <2>2. CASE x = last
    BY <1>2, <2>1, <2>2
  <2>3. CASE x # last
    BY <1>2, <2>1, <2>3
  <2> QED
    BY <2>2, <2>3
<1>5. \A i \in 1 .. Len(gl) : gl[i] \in DOMAIN gs /\ gs[gl[i]] = i
  <2> SUFFICES ASSUME NEW i \in 1 .. n - 1
               PROVE  gl[i] \in DOMAIN gs /\ gs[gl[i]] = i
    BY <1>3
  <2>1. g.list[i] \in DOMAIN g.set /\ g.set[g.list[i]] = i
    BY <1>2 DEF HListOK
  <2>2. CASE i = k
    <3>1. last # v /\ gl[i] = last
      BY <1>2, <2>2
    <3>2. last \in DOMAIN gs /\ gs[last] = k
      BY <1>2, <3>1
    <3> QED
      BY <2>2, <3>1, <3>2
  <2>3. CASE i # k
    <3>1. gl[i] = g.list[i] /\ g.list[i] # v /\ g.list[i] # last
      BY <1>2, <2>1, <2>3
    <3> QED
      BY <2>1, <3>1
  <2> QED
    BY <2>2, <2>3
<1>6. DOMAIN gs = DOMAIN g.set \ {v} /\ DOMAIN gs \subseteq V
  BY DEF HListOK
<1>7. \A i \in 1 .. k - 1 : gl[i] = g.list[i]
  BY <1>2
<1>8. gs = [x \in DOMAIN gs |-> gs[x]]
  OBVIOUS
<1> HIDE DEF gl, gs
<1>9. HListOK([list |-> gl, set |-> gs], V)
  BY <1>3, <1>4, <1>5, <1>6, <1>8 DEF HListOK
<1> QED
  BY <1>1, <1>3, <1>6, <1>7, <1>9 DEF Members
=============================================================================
