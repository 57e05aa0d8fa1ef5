---------------------------- MODULE WalksProofs ----------------------------
(***************************************************************************)
(* For every set V of values: the two halves of a hash list agree, and a   *)
(* loop that loses none of the entries it has yielded goes through the     *)
(* list from its first entry on, in order.  For all frames and regions: an *)
(* object is in the one list of its parent, and no chain of parents        *)
(* closes.                                                                 *)
(***************************************************************************)
EXTENDS Walks, HListLemmas, FiniteSetTheorems

-----------------------------------------------------------------------------

\* The inductive invariant: WalkIsPrefix needs Consistent, because the loop
\* finds its place by the slot that `set' records.
IInv == TypeOK /\ Consistent /\ WalkIsPrefix

\* What the invariant says of the list.
LEMMA HListOKFromIInv == IInv => HListOK(h, V)
BY DEF IInv, TypeOK, Consistent, HListOK

\* The invariant from what it says of the list and of the loop.
LEMMA IInvFromParts ==
  ASSUME HListOK(h, V), WalkIsPrefix, walking \in BOOLEAN, first \in BOOLEAN, cur \in V,
         yielded \in Seq(V), undisturbed \in BOOLEAN
  PROVE  IInv
BY DEF IInv, TypeOK, Consistent, HListOK

\* An empty list and no loop.
LEMMA IInvInit == Init => IInv
<1> SUFFICES ASSUME Init PROVE IInv
  OBVIOUS
<1>1. HListOK(h, V)
  BY DEF Init, EmptyHList, HListOK
<1>2. WalkIsPrefix /\ yielded \in Seq(V)
  BY EmptyListOfV DEF Init, WalkIsPrefix
<1> QED
  BY <1>1, <1>2, IInvFromParts DEF Init

\* Every step keeps the invariant.
LEMMA IInvStep == IInv /\ [Next]_vars => IInv'
<1> SUFFICES ASSUME IInv, [Next]_vars PROVE IInv'
  OBVIOUS
<1> USE HListOKFromIInv
<1>t. /\ walking \in BOOLEAN /\ first \in BOOLEAN /\ cur \in V
      /\ yielded \in Seq(V) /\ undisturbed \in BOOLEAN
  BY DEF IInv, TypeOK
<1>p. IInv' <=> (HListOK(h, V)' /\ WalkIsPrefix' /\ walking' \in BOOLEAN /\ first' \in BOOLEAN
                 /\ cur' \in V /\ yielded' \in Seq(V) /\ undisturbed' \in BOOLEAN)
  BY DEF IInv, TypeOK, Consistent, HListOK
<1>1. ASSUME NEW v \in V, Add(v) PROVE IInv'
  <2>1. /\ HListOK(h, V)' /\ Len(h.list) <= Len(h'.list)
        /\ \A i \in 1 .. Len(h.list) : h'.list[i] = h.list[i]
    BY <1>1, InsertOK DEF Add
  <2>2. h.list \in Seq(V) /\ h'.list \in Seq(V)
    BY <2>1 DEF HListOK
  <2>3. WalkIsPrefix'
    BY <1>1, <1>t, <2>1, <2>2 DEF Add, IInv, WalkIsPrefix
  <2> QED
    BY <1>1, <1>t, <1>p, <2>1, <2>3 DEF Add
<1>2. ASSUME NEW v \in V, Drop(v) PROVE IInv'
  <2>1. CASE ~Has(h, v)
    BY <1>2, <1>t, <1>p, <2>1 DEF Drop, Remove, IInv, WalkIsPrefix, HListOK
  <2>2. CASE Has(h, v)
    <3>1. /\ HListOK(h, V)' /\ Len(h'.list) = Len(h.list) - 1
          /\ \A i \in 1 .. h.set[v] - 1 : h'.list[i] = h.list[i]
      BY <1>2, <2>2, RemoveOK DEF Drop
    <3>2. /\ Len(h.list) \in Nat /\ h.set[v] \in 1 .. Len(h.list)
          /\ h.list[h.set[v]] = v
      BY <2>2 DEF HListOK, Has
    <3>3. yielded' \in Seq(V) /\ undisturbed' \in BOOLEAN
      BY <1>2, <1>t DEF Drop
    <3>4. WalkIsPrefix'
      <4> SUFFICES ASSUME walking, undisturbed'
                   PROVE  /\ Len(yielded') <= Len(h'.list)
                          /\ \A i \in 1 .. Len(yielded') : yielded'[i] = h'.list[i]
                          /\ (first <=> yielded' = <<>>)
                          /\ ~first => cur = yielded'[Len(yielded')]
        BY <1>2 DEF Drop, WalkIsPrefix
      <4>1. undisturbed /\ v \notin Yielded /\ yielded' = yielded
        BY <1>2, <2>2, <1>t DEF Drop
      <4>2. /\ Len(yielded) <= Len(h.list)
            /\ \A i \in 1 .. Len(yielded) : yielded[i] = h.list[i]
            /\ (first <=> yielded = <<>>)
            /\ ~first => cur = yielded[Len(yielded)]
        BY <4>1 DEF IInv, WalkIsPrefix
      <4>3. Len(yielded) \in Nat
        BY <1>t
      <4>4. h.set[v] > Len(yielded)
        <5>1. SUFFICES ASSUME h.set[v] \in 1 .. Len(yielded) PROVE FALSE
          BY <3>2, <4>3
        <5> QED
          BY <5>1, <3>2, <4>1, <4>2 DEF Yielded
      <4> QED
        BY <3>1, <3>2, <4>1, <4>2, <4>3, <4>4
    <3> QED
      BY <1>2, <1>t, <1>p, <3>1, <3>3, <3>4 DEF Drop
  <2> QED
    BY <2>1, <2>2
<1>3. CASE StartWalk
  <2>1. HListOK(h, V)'
    BY <1>3 DEF StartWalk, HListOK
  <2>2. Len(h'.list) \in Nat
    BY <2>1 DEF HListOK
  <2>3. WalkIsPrefix' /\ yielded' \in Seq(V)
    <3>1. yielded' = <<>> /\ first' = TRUE
      BY <1>3 DEF StartWalk
    <3>2. Len(yielded') = 0 /\ yielded' \in Seq(V)
      BY <3>1, EmptyListOfV
    <3> QED
      BY <2>2, <3>1, <3>2 DEF WalkIsPrefix
  <2> QED
    BY <1>3, <1>t, <1>p, <2>1, <2>3 DEF StartWalk
<1>4. CASE Step
  <2>1. HListOK(h, V)'
    BY <1>4 DEF Step, HListOK
  <2>2. h.list \in Seq(V) /\ Len(h.list) \in Nat
    BY DEF HListOK
  <2>3. cur' \in V
    BY <1>4, <2>2 DEF Step, HasNext, NextEntry, HListOK, Has
  <2>4. yielded' \in Seq(V)
    BY <1>4, <1>t, <2>3 DEF Step
  <2>5. WalkIsPrefix'
    <3> SUFFICES ASSUME undisturbed
                 PROVE  /\ Len(yielded') <= Len(h.list)
                        /\ \A i \in 1 .. Len(yielded') : yielded'[i] = h.list[i]
                        /\ (first' <=> yielded' = <<>>)
                        /\ ~first' => cur' = yielded'[Len(yielded')]
      BY <1>4 DEF Step, WalkIsPrefix
    <3>1. /\ Len(yielded) <= Len(h.list)
          /\ \A i \in 1 .. Len(yielded) : yielded[i] = h.list[i]
          /\ (first <=> yielded = <<>>)
          /\ ~first => cur = yielded[Len(yielded)]
      BY <1>4 DEF Step, IInv, WalkIsPrefix
    <3>2. /\ yielded' = Append(yielded, cur') /\ first' = FALSE
      BY <1>4 DEF Step
    <3>3. Len(yielded) < Len(h.list) /\ cur' = h.list[Len(yielded) + 1]
      <4>1. CASE first
        BY <1>4, <2>2, <3>1, <4>1, EmptyListOfV DEF Step, HasNext, NextEntry, HListOK
      <4>2. CASE ~first
        <5>1. Len(yielded) \in 1 .. Len(h.list) /\ h.list[Len(yielded)] = cur
          BY <1>t, <2>2, <3>1, <4>2, EmptyListOfV
        <5>2. h.set[cur] = Len(yielded)
          BY <5>1 DEF HListOK
        <5> QED
          BY <1>4, <4>2, <5>2 DEF Step, HasNext, NextEntry
      <4> QED
        BY <4>1, <4>2
    <3>4. /\ yielded' # <<>> /\ Len(yielded') = Len(yielded) + 1
          /\ yielded'[Len(yielded) + 1] = cur'
          /\ \A i \in 1 .. Len(yielded) : yielded'[i] = yielded[i]
      BY <1>t, <2>3, <3>2, AppendProperties
    <3>5. Len(yielded) \in Nat
      BY <1>t
    <3>6. \A i \in 1 .. Len(yielded') : yielded'[i] = h.list[i]
      <4> TAKE i \in 1 .. Len(yielded')
      <4>1. CASE i \in 1 .. Len(yielded)
        BY <3>1, <3>4, <4>1
      <4>2. CASE i = Len(yielded) + 1
        BY <3>3, <3>4, <4>2
      <4> QED
        BY <3>4, <3>5, <4>1, <4>2
    <3> QED
      BY <2>2, <3>2, <3>3, <3>4, <3>5, <3>6
  <2> QED
    BY <1>4, <1>t, <1>p, <2>1, <2>3, <2>4, <2>5 DEF Step
<1>5. CASE EndWalk
  <2>1. HListOK(h, V)'
    BY <1>5 DEF EndWalk, HListOK
  <2>2. WalkIsPrefix' /\ yielded' \in Seq(V)
    BY <1>5, EmptyListOfV DEF EndWalk, WalkIsPrefix
  <2> QED
    BY <1>5, <1>t, <1>p, <2>1, <2>2 DEF EndWalk
<1>6. CASE UNCHANGED vars
  BY <1>6, <1>t, <1>p DEF vars, IInv, WalkIsPrefix, HListOK
<1> QED
  BY <1>1, <1>2, <1>3, <1>4, <1>5, <1>6 DEF Next

-----------------------------------------------------------------------------

\* The list and the slot table of a hash list always describe the same values.
THEOREM ListAndSetAgree == Spec => []Consistent
<1>1. IInv => Consistent
  BY DEF IInv
<1> QED
  BY IInvInit, IInvStep, <1>1, PTL DEF Spec

\* A loop that has lost none of its yielded entries is a prefix of the list.
THEOREM UndisturbedWalk == Spec => []WalkIsPrefix
<1>1. IInv => WalkIsPrefix
  BY DEF IInv
<1> QED
  BY IInvInit, IInvStep, <1>1, PTL DEF Spec

\* When such a loop ends, every entry of the list has been yielded.
THEOREM UndisturbedWalkIsComplete == Spec => EndIsComplete
<1>1. IInv /\ [Next]_vars => [walking /\ ~walking' /\ undisturbed => Yielded = Members(h)]_vars
  <2> SUFFICES ASSUME IInv, [Next]_vars, walking, ~walking', undisturbed
               PROVE  Yielded = Members(h)
    OBVIOUS
  <2>1. EndWalk
    BY DEF Next, vars, Add, Drop, StartWalk, Step
  <2>2. /\ HListOK(h, V) /\ yielded \in Seq(V)
        /\ Len(yielded) <= Len(h.list)
        /\ \A i \in 1 .. Len(yielded) : yielded[i] = h.list[i]
        /\ (first <=> yielded = <<>>)
        /\ ~first => cur = yielded[Len(yielded)]
    BY HListOKFromIInv DEF IInv, TypeOK, WalkIsPrefix
  <2>3. h.list \in Seq(V) /\ Len(h.list) \in Nat /\ Len(yielded) \in Nat
    BY <2>2 DEF HListOK
  <2>4. Len(yielded) = Len(h.list)
    <3>1. CASE first
      BY <2>1, <2>2, <2>3, <3>1, EmptyListOfV DEF EndWalk, HasNext
    <3>2. CASE ~first
      <4>1. Len(yielded) \in 1 .. Len(h.list) /\ h.list[Len(yielded)] = cur
        BY <2>2, <2>3, <3>2, EmptyListOfV
      <4>2. Has(h, cur) /\ h.set[cur] = Len(yielded)
        BY <2>2, <4>1 DEF HListOK, Has
      <4> QED
        BY <2>1, <2>3, <3>2, <4>1, <4>2 DEF EndWalk, HasNext
    <3> QED
      BY <3>1, <3>2
  <2>5. Yielded = {h.list[i] : i \in 1 .. Len(h.list)}
    BY <2>2, <2>4 DEF Yielded
  <2> QED
    BY <2>2, <2>5 DEF HListOK, Members
<1> QED
  BY IInvInit, IInvStep, <1>1, PTL DEF Spec, EndIsComplete

-----------------------------------------------------------------------------
(* Side by side with the tree, the list is walked as it is alone. *)

\* In the state with the tree too, what is done to the list is a behaviour of
\* HListWalk.
THEOREM ListIsWalked == WalksSpec => Spec
<1>1. WalksInit => Init
  BY DEF WalksInit
<1>2. [WalksNext]_<<part, vars, visibility>> => [Next]_vars
  BY DEF WalksNext, ListWalk, TreeWalk
<1> QED
  BY <1>1, <1>2, PTL DEF WalksSpec, Spec

-----------------------------------------------------------------------------
(* What is above an object *)

\* parent is a function from the objects there are to frames among them.
ParentOK ==
  /\ Created \subseteq UIObject
  /\ \A x \in Created : parent[x] \in (Frames \cap Created) \cup {NoParent}

\* S goes up with the parents of its elements.
GoesUp(S) == S \subseteq Created /\ \A x \in S : parent[x] \in S \cup {NoParent}

\* Above(x) is the least set of objects that holds x and goes up.
LEMMA AboveIsLeast ==
  ASSUME ParentOK, NEW x \in Created
  PROVE  /\ x \in Above(x) /\ GoesUp(Above(x))
         /\ \A S : GoesUp(S) /\ x \in S => Above(x) \subseteq S
<1>1. x \in Above(x) /\ Above(x) \subseteq Created
  BY DEF Above
<1>2. ASSUME NEW y \in Above(x), parent[y] # NoParent
      PROVE  parent[y] \in Above(x)
  <2>1. parent[y] \in Created
    BY <1>1, <1>2 DEF ParentOK
  <2> QED
    BY <1>2, <2>1 DEF Above
<1>3. ASSUME NEW S, GoesUp(S), x \in S
      PROVE  Above(x) \subseteq S
  BY <1>3 DEF GoesUp, Above
<1> QED
  BY <1>1, <1>2, <1>3 DEF GoesUp

\* What is above something above x is above x.
LEMMA AboveAbove ==
  ASSUME ParentOK, NEW x \in Created, NEW y \in Above(x)
  PROVE  Above(y) \subseteq Above(x)
<1>1. GoesUp(Above(x))
  BY AboveIsLeast
<1>2. y \in Created
  BY <1>1 DEF GoesUp
<1> QED
  BY <1>1, <1>2, AboveIsLeast

\* What is above an object, but for itself, is above its parent.
LEMMA AboveParent ==
  ASSUME ParentOK, NEW x \in Created, NEW y \in Above(x), y # x
  PROVE  parent[x] # NoParent /\ y \in Above(parent[x])
<1>1. ASSUME NEW S, GoesUp(S), x \in S PROVE y \in S
  BY <1>1, AboveIsLeast
<1>2. CASE parent[x] = NoParent
  <2>1. GoesUp({x})
    BY <1>2 DEF GoesUp
  <2> QED
    BY <1>1, <2>1
<1>3. CASE parent[x] # NoParent
  <2>1. parent[x] \in Created
    BY <1>3 DEF ParentOK
  <2>2. parent[x] \in Above(parent[x]) /\ GoesUp(Above(parent[x]))
    BY <2>1, AboveIsLeast
  <2>3. GoesUp({x} \cup Above(parent[x]))
    BY <2>2 DEF GoesUp
  <2> QED
    BY <1>1, <1>3, <2>3
<1> QED
  BY <1>2, <1>3

\* No object is above its own parent.
NoLoops == \A x \in Created : parent[x] # NoParent => x \notin Above(parent[x])

-----------------------------------------------------------------------------
(* The tree *)

ListsAgree ==
  /\ \A f \in Frames : Members(children[f]) = KidsOf(f, Frames)
  /\ \A f \in Frames : Members(regions[f]) = KidsOf(f, Regions)

\* TreeAgrees is inductive once parents are objects that exist.
TreeInv == ParentOK /\ ListsAgree /\ NoLoops

\* The trees to start with have no loops: an object above its own parent
\* would be one of a set whose parents are all in the set.
LEMMA TreeInvInit == VisibilityInit => TreeInv
<1> SUFFICES ASSUME VisibilityInit PROVE TreeInv
  OBVIOUS
<1>1. ParentOK
  BY VisibilityAssumption DEF VisibilityInit, ParentOK, Created, UIObject
<1>2. ListsAgree
  <2>1. \A S : Members(HListOf(S)) = S
    BY DEF HListOf, Members
  <2> QED
    BY <2>1 DEF VisibilityInit, ListsAgree
<1>3. NoLoops
  <2> SUFFICES ASSUME NEW y \in Created, parent[y] # NoParent, y \in Above(parent[y])
               PROVE  FALSE
    BY DEF NoLoops
  <2> DEFINE q == parent[y]
             S == {z \in Above(q) : y \in Above(z)}
  <2>1. q \in Created
    BY <1>1 DEF ParentOK
  <2>2. q \in Above(q) /\ GoesUp(Above(q)) /\ y \in Above(q)
    BY <1>1, <2>1, AboveIsLeast
  <2>3. S \in SUBSET Created /\ S # {}
    BY <2>2 DEF GoesUp
  <2>4. PICK z \in S : parent[z] \notin S
    BY <2>3, VisibilityAssumption DEF VisibilityInit, Created
  <2>5. z \in Above(q) /\ y \in Above(z) /\ z \in Created
    BY <2>3, <2>4
  <2>6. CASE z = y
    BY <2>2, <2>4, <2>6
  <2>7. CASE z # y
    <3>1. parent[z] # NoParent /\ y \in Above(parent[z])
      BY <1>1, <2>5, <2>7, AboveParent
    <3>2. parent[z] \in Above(q)
      BY <2>2, <2>5, <3>1 DEF GoesUp
    <3> QED
      BY <2>4, <3>1, <3>2
  <2> QED
    BY <2>6, <2>7
<1> QED
  BY <1>1, <1>2, <1>3 DEF TreeInv

\* An object that gets a parent it is not above is in its list, and in no
\* other, and closes no loop.
LEMMA ParentingKeeps ==
  ASSUME TreeInv, NEW o \in UIObject, NEW p \in (Frames \cap Created) \cup {NoParent},
         p # NoParent => o \notin Above(p), o \in Created => parent[o] # p,
         DoSetParent(o, p)
  PROVE  TreeInv'
<1>1. /\ Created' = Created \cup {o} /\ parent'[o] = p
      /\ \A x \in Created \ {o} : parent'[x] = parent[x]
  BY DEF DoSetParent, Created
<1>2. ParentOK'
  BY <1>1 DEF TreeInv, ParentOK
<1>3. /\ p # NoParent => p \in Created /\ p # o /\ p \in Above(p) /\ GoesUp(Above(p))
      /\ NoParent \notin UIObject
  BY AboveIsLeast, VisibilityAssumption DEF TreeInv, UIObject
<1>4. ListsAgree'
  <2>1. ASSUME NEW kind \in {Frames, Regions}, NEW lists, NEW f \in Frames,
               Members(lists[f]) = KidsOf(f, kind)
        PROVE  Members((IF o \in kind THEN Moved(lists, o, p) ELSE lists)[f]) = KidsOf(f, kind)'
    <3>1. KidsOf(f, kind)' = {x \in (Created \cup {o}) \cap kind : parent'[x] = f}
      BY <1>1 DEF KidsOf, Created
    <3>2. KidsOf(f, kind) = {x \in Created \cap kind : parent[x] = f}
      BY DEF KidsOf, Created
    <3>3. CASE o \notin kind
      BY <1>1, <2>1, <3>1, <3>2, <3>3
    <3>4. CASE o \in kind /\ f = p
      <4>1. KidsOf(f, kind)' = KidsOf(f, kind) \cup {o}
        BY <1>1, <3>1, <3>2, <3>4
      <4>2. Moved(lists, o, p)[f] = Insert(lists[f], o)
        BY <3>4 DEF Moved
      <4>3. Members(Insert(lists[f], o)) = Members(lists[f]) \cup {o}
        BY DEF Members, Insert, Has
      <4> QED
        BY <2>1, <3>4, <4>1, <4>2, <4>3
    <3>5. CASE o \in kind /\ f # p /\ o \in Created /\ f = parent[o]
      <4>1. KidsOf(f, kind)' = KidsOf(f, kind) \ {o}
        BY <1>1, <3>1, <3>2, <3>5
      <4>2. Moved(lists, o, p)[f] = Remove(lists[f], o)
        BY <3>5 DEF Moved, Created
      <4>3. Members(Remove(lists[f], o)) = Members(lists[f]) \ {o}
        BY DEF Members, Remove, Has
      <4> QED
        BY <2>1, <3>5, <4>1, <4>2, <4>3
    <3>6. CASE o \in kind /\ f # p /\ ~(o \in Created /\ f = parent[o])
      <4>1. KidsOf(f, kind)' = KidsOf(f, kind)
        BY <1>1, <3>1, <3>2, <3>6
      <4>2. Moved(lists, o, p)[f] = lists[f]
        BY <3>6 DEF Moved, Created
      <4> QED
        BY <2>1, <3>6, <4>1, <4>2
    <3> QED
      BY <3>3, <3>4, <3>5, <3>6
  <2> QED
    BY <2>1 DEF TreeInv, ListsAgree, DoSetParent
<1>5. NoLoops'
  <2> SUFFICES ASSUME NEW y \in Created', parent'[y] # NoParent
               PROVE  y \notin Above(parent[y])'
    BY DEF NoLoops
  <2> DEFINE q == parent'[y]
  <2>1. ASSUME NEW S \in SUBSET Created', q \in S, y \notin S,
               \A x \in S : parent'[x] \in S \cup {NoParent}
        PROVE  y \notin Above(parent[y])'
    BY <2>1 DEF Above
  <2>2. CASE y = o
    <3>1. q = p /\ p # NoParent
      BY <1>1, <2>2
    <3>2. Above(p) \in SUBSET Created' /\ o \notin Above(p)
      BY <1>1, <1>3, <3>1 DEF GoesUp
    <3>3. \A x \in Above(p) : parent'[x] \in Above(p) \cup {NoParent}
      BY <1>1, <1>3, <3>1, <3>2 DEF GoesUp
    <3> QED
      BY <1>3, <2>1, <2>2, <3>1, <3>2, <3>3
  <2>3. CASE y # o
    <3>1. y \in Created /\ q = parent[y]
      BY <1>1, <2>3
    <3>2. q \in Created /\ y \notin Above(q)
      BY <3>1 DEF TreeInv, ParentOK, NoLoops
    <3>3. q \in Above(q) /\ GoesUp(Above(q))
      BY <3>2, AboveIsLeast DEF TreeInv
    <3>4. CASE o \notin Above(q) \/ p = NoParent
      <4>1. \A x \in Above(q) : parent'[x] \in Above(q) \cup {NoParent}
        BY <1>1, <3>3, <3>4 DEF GoesUp
      <4>2. Above(q) \in SUBSET Created'
        BY <1>1, <3>3 DEF GoesUp
      <4> QED
        BY <2>1, <3>2, <3>3, <4>1, <4>2
    <3>5. CASE o \in Above(q) /\ p # NoParent
      <4> DEFINE S == Above(q) \cup Above(p)
      <4>1. \A x \in S : parent'[x] \in S \cup {NoParent}
        BY <1>1, <1>3, <3>3, <3>5 DEF GoesUp
      <4>2. S \in SUBSET Created'
        BY <1>1, <1>3, <3>3, <3>5 DEF GoesUp
      <4>3. y \notin Above(p)
        <5>1. SUFFICES ASSUME y \in Above(p) PROVE FALSE
          OBVIOUS
        <5>2. q \in Above(p)
          BY <1>3, <3>1, <3>5, <5>1 DEF GoesUp
        <5>3. o \in Above(p)
          BY <1>3, <3>5, <5>2, AboveAbove DEF TreeInv
        <5> QED
          BY <3>5, <5>3
      <4> QED
        BY <2>1, <3>2, <3>3, <4>1, <4>2, <4>3
    <3> QED
      BY <3>4, <3>5
  <2> QED
    BY <2>2, <2>3
<1> QED
  BY <1>2, <1>4, <1>5 DEF TreeInv

\* Steps that leave parents and lists alone.
LEMMA TreeStays == TreeInv /\ UNCHANGED tree => TreeInv'
BY DEF tree, TreeInv, ParentOK, ListsAgree, NoLoops, Created, KidsOf, Above

\* Every step keeps TreeInv.
LEMMA TreeInvStep == TreeInv /\ [WalksNext]_<<part, vars, visibility>> => TreeInv'
<1> SUFFICES ASSUME TreeInv, [WalksNext]_<<part, vars, visibility>> PROVE TreeInv'
  OBVIOUS
<1>1. ASSUME NEW o \in UIObject, NEW b, SetShown(o, b) PROVE TreeInv'
  BY <1>1, TreeStays DEF SetShown
<1>2. ASSUME NEW o \in UIObject, NEW p, SetParent(o, p) PROVE TreeInv'
  BY <1>2, ParentingKeeps DEF SetParent
<1>3. ASSUME NEW o \in UIObject, NEW p, NEW b, CreateUIObject(o, p, b) PROVE TreeInv'
  <2>1. p \in (Frames \cap Created) \cup {NoParent} /\ o \notin Created /\ DoSetParent(o, p)
    BY <1>3 DEF CreateUIObject
  <2>2. p # NoParent => o \notin Above(p)
    <3>1. p # NoParent => Above(p) \subseteq Created
      BY <2>1, AboveIsLeast DEF TreeInv, GoesUp
    <3> QED
      BY <2>1, <3>1
  <2> QED
    BY <2>1, <2>2, ParentingKeeps
<1>4. CASE UpdateStep
  BY <1>4, TreeStays DEF UpdateStep
<1>5. CASE ListWalk
  BY <1>5, TreeStays DEF ListWalk, visibility
<1>6. CASE UNCHANGED <<part, vars, visibility>>
  BY <1>6, TreeStays DEF visibility
<1> QED
  BY <1>1, <1>2, <1>3, <1>4, <1>5, <1>6 DEF WalksNext, TreeWalk, VisibilityNext

\* However scripts create and move objects while walks are under way, each is
\* in the one list of its parent for its kind, and no chain of parents closes
\* (uiobjects.lua:25-46).
THEOREM TreeAlwaysAgrees == WalksSpec => []TreeAgrees
<1>1. TreeInv => TreeAgrees
  BY DEF TreeInv, ListsAgree, NoLoops, TreeAgrees
<1>2. WalksInit => TreeInv
  BY TreeInvInit DEF WalksInit
<1> QED
  BY <1>1, <1>2, TreeInvStep, PTL DEF WalksSpec

=============================================================================
