---------------------------- MODULE AnchorsProofs ----------------------------
(***************************************************************************)
(* For any set of regions and any points: the counts of anchoredBy are     *)
(* exact, no rectangle in use rests on one that is out of date, each is    *)
(* what computing it again would give, and no call that makes the search   *)
(* for a cycle of anchors ever closes one.                                 *)
(***************************************************************************)
EXTENDS Anchors, FiniteSetTheorems, TLAPS

Target == Region \cup {Screen, Unset}

\* The types, with the counts integers: that none is negative follows from
\* RefCounts.
Typed ==
  /\ made \subseteq Region /\ loading \in Seq(made)
  /\ points \in [Region -> [Point -> Target]]
  /\ anchoredBy \in [Region -> [Region -> Int]]
  /\ dirty \subseteq Region /\ valid \subseteq Region
  /\ wide \subseteq Region /\ tall \subseteq Region
  /\ uses \in [Region -> SUBSET Region] /\ cleared \subseteq Region

IInv == Typed /\ RefCounts /\ CleanOnClean

-----------------------------------------------------------------------------
(* Counting *)

\* How many points of a region, its points given as f, are on x.
OnTarget(f, x) == {q \in Point : f[q] = x}
Count(f, x) == Cardinality(OnTarget(f, x))

\* A count is that of a finite set.
LEMMA CountIsNat ==
  ASSUME NEW f, NEW x
  PROVE  IsFiniteSet(OnTarget(f, x)) /\ Count(f, x) \in Nat
<1>1. OnTarget(f, x) \in SUBSET Point
  BY DEF OnTarget
<1>2. IsFiniteSet(OnTarget(f, x))
  BY <1>1, FS_Subset, PointAssumption
<1> QED
  BY <1>2, FS_CardinalityType DEF Count

\* g is f with point p now on t.
IsSetTo(g, f, p, t) == g = [f EXCEPT ![p] = t]

\* Setting one point of f changes the counts of what it was on and of what
\* it is on now, by one.
LEMMA CountChange ==
  ASSUME NEW f \in [Point -> Target], NEW p \in Point, NEW t \in Target, NEW x \in Region,
         NEW g, IsSetTo(g, f, p, t)
  PROVE  /\ (x = f[p] <=> x = t) => Count(g, x) = Count(f, x)
         /\ x = f[p] /\ x # t => Count(g, x) = Count(f, x) - 1
         /\ x # f[p] /\ x = t => Count(g, x) = Count(f, x) + 1
<1>1. IsFiniteSet(OnTarget(f, x))
  BY CountIsNat
<1>2. CASE x = f[p] /\ x = t
  <2>1. OnTarget(g, x) = OnTarget(f, x)
    BY <1>2 DEF OnTarget, IsSetTo
  <2> QED
    BY <1>2, <2>1 DEF Count
<1>3. CASE x = f[p] /\ x # t
  <2>1. OnTarget(g, x) = OnTarget(f, x) \ {p} /\ p \in OnTarget(f, x)
    BY <1>3 DEF OnTarget, IsSetTo
  <2> QED
    BY <1>1, <1>3, <2>1, FS_RemoveElement DEF Count
<1>4. CASE x # f[p] /\ x = t
  <2>1. OnTarget(g, x) = OnTarget(f, x) \cup {p} /\ p \notin OnTarget(f, x)
    BY <1>4 DEF OnTarget, IsSetTo
  <2> QED
    BY <1>1, <1>4, <2>1, FS_AddElement DEF Count
<1>5. CASE x # f[p] /\ x # t
  <2>1. OnTarget(g, x) = OnTarget(f, x)
    BY <1>5 DEF OnTarget, IsSetTo
  <2> QED
    BY <1>5, <2>1 DEF Count
<1> QED
  BY <1>2, <1>3, <1>4, <1>5

\* r's counts in by are those of its points f; now differs only in r's counts.
Exact(by, r, f) ==
  /\ by \in [Region -> [Region -> Int]]
  /\ \A x \in Region : by[x][r] = Count(f, x)
SameButFor(r, by, now) ==
  \A x \in Region, q \in Region \ {r} : now[x][q] = by[x][q]

\* Counts keeps the counts of r exact, and those of the others as they are.
LEMMA CountsExact ==
  ASSUME NEW by, NEW f \in [Point -> Target],
         NEW r \in Region, NEW p \in Point, NEW t \in Target,
         Exact(by, r, f), NEW g, IsSetTo(g, f, p, t)
  PROVE  /\ Exact(Counts(by, r, f[p], t), r, g)
         /\ SameButFor(r, by, Counts(by, r, f[p], t))
<1> DEFINE now == Counts(by, r, f[p], t)
<1>0. by \in [Region -> [Region -> Int]]
  BY DEF Exact
<1>1. now \in [Region -> [Region -> Int]]
  BY <1>0 DEF Counts
<1>2. ASSUME NEW x \in Region
      PROVE  now[x][r] = Count(g, x)
  <2>1. by[x][r] = Count(f, x)
    BY DEF Exact
  <2>2. /\ (x = f[p] <=> x = t) => now[x][r] = by[x][r]
        /\ x = f[p] /\ x # t => now[x][r] = by[x][r] - 1
        /\ x # f[p] /\ x = t => now[x][r] = by[x][r] + 1
    BY <1>0 DEF Counts
  <2>3. /\ (x = f[p] <=> x = t) => Count(g, x) = Count(f, x)
        /\ x = f[p] /\ x # t => Count(g, x) = Count(f, x) - 1
        /\ x # f[p] /\ x = t => Count(g, x) = Count(f, x) + 1
    BY CountChange
  <2> QED
    BY <2>1, <2>2, <2>3
<1>3. SameButFor(r, by, now)
  BY <1>0 DEF Counts, SameButFor
<1> QED
  BY <1>1, <1>2, <1>3 DEF Exact

\* No point is on a region when all are unset.
LEMMA NoneOn ==
  ASSUME NEW x \in Region
  PROVE  Count([p \in Point |-> Unset], x) = 0
<1>1. OnTarget([p \in Point |-> Unset], x) = {}
  BY RegionAssumption DEF OnTarget
<1> QED
  BY <1>1, FS_EmptySet DEF Count

\* ClearedCounts brings r's counts to none.
LEMMA ClearedCountsExact ==
  ASSUME IInv, NEW r \in Region
  PROVE  /\ Exact(ClearedCounts(anchoredBy, r), r, [p \in Point |-> Unset])
         /\ SameButFor(r, anchoredBy, ClearedCounts(anchoredBy, r))
<1> DEFINE now == ClearedCounts(anchoredBy, r)
<1>1. \A x \in Region : PointsOn(r, x) \in Nat /\ anchoredBy[x][r] = PointsOn(r, x)
  <2> SUFFICES ASSUME NEW x \in Region
               PROVE  PointsOn(r, x) \in Nat /\ anchoredBy[x][r] = PointsOn(r, x)
    OBVIOUS
  <2>1. PointsOn(r, x) = Count(points[r], x)
    BY DEF PointsOn, Count, OnTarget
  <2>2. Count(points[r], x) \in Nat
    BY CountIsNat, Zenon
  <2> QED
    BY <2>1, <2>2 DEF IInv, RefCounts
<1>2. now \in [Region -> [Region -> Int]] /\ \A x \in Region : now[x][r] = 0
  BY <1>1 DEF IInv, Typed, ClearedCounts
<1>3. SameButFor(r, anchoredBy, now)
  BY DEF IInv, Typed, ClearedCounts, SameButFor
<1>4. \A x \in Region : Count([p \in Point |-> Unset], x) = 0
  BY NoneOn
<1> QED
  BY <1>2, <1>3, <1>4 DEF Exact

-----------------------------------------------------------------------------
(* Each step keeps RefCounts *)

\* It is enough to look at the region whose points changed.
LEMMA OneRegion ==
  ASSUME IInv, NEW r \in Region, NEW f \in [Point -> Target],
         points' = [points EXCEPT ![r] = f],
         Exact(anchoredBy', r, f), SameButFor(r, anchoredBy, anchoredBy')
  PROVE  RefCounts'
<1> SUFFICES ASSUME NEW q \in Region, NEW x \in Region
             PROVE  anchoredBy'[x][q] = PointsOn(q, x)'
  BY DEF RefCounts
<1>1. PointsOn(q, x)' = Count(points'[q], x)
  BY DEF PointsOn, Count, OnTarget
<1>2. CASE q = r
  <2>1. points'[q] = f
    BY <1>2 DEF IInv, Typed
  <2> QED
    BY <1>1, <1>2, <2>1 DEF Exact
<1>3. CASE q # r
  <2>1. points'[q] = points[q]
    BY <1>3 DEF IInv, Typed
  <2>2. anchoredBy[x][q] = PointsOn(q, x)
    BY DEF IInv, RefCounts
  <2>3. PointsOn(q, x) = Count(points[q], x)
    BY DEF PointsOn, Count, OnTarget
  <2>4. anchoredBy'[x][q] = anchoredBy[x][q]
    BY <1>3 DEF SameButFor
  <2> QED
    BY <1>1, <2>1, <2>2, <2>3, <2>4
<1> QED
  BY <1>2, <1>3

\* RefCounts says that each region's counts are exact.
LEMMA ExactNow ==
  ASSUME IInv, NEW r \in Region
  PROVE  Exact(anchoredBy, r, points[r])
BY DEF IInv, Typed, RefCounts, Exact, PointsOn, Count, OnTarget

\* What SetPoint and ClearPoint do to the counts.
LEMMA OnePointCounts ==
  ASSUME IInv, NEW r \in Region, NEW p \in Point, NEW t \in Target,
         points' = [points EXCEPT ![r][p] = t],
         anchoredBy' = Counts(anchoredBy, r, points[r][p], t)
  PROVE  anchoredBy' \in [Region -> [Region -> Int]] /\ RefCounts'
<1> DEFINE f == points[r]
           g == [f EXCEPT ![p] = t]
<1>1. f \in [Point -> Target]
  BY DEF IInv, Typed
<1>2. /\ g \in [Point -> Target] /\ points' = [points EXCEPT ![r] = g]
      /\ IsSetTo(g, f, p, t)
  BY <1>1 DEF IsSetTo
<1>3. Exact(anchoredBy, r, f)
  BY ExactNow
<1>4. anchoredBy' = Counts(anchoredBy, r, f[p], t)
  OBVIOUS
<1> HIDE DEF f, g
<1>5. Exact(anchoredBy', r, g) /\ SameButFor(r, anchoredBy, anchoredBy')
  BY <1>1, <1>2, <1>3, <1>4, CountsExact
<1> QED
  BY <1>2, <1>5, OneRegion DEF Exact

\* What SetAllPoints does to the counts: one point after the other.
LEMMA AllPointsCounts ==
  ASSUME IInv, NEW r \in Region, NEW t \in Target, SetAllPointsInternal(r, t)
  PROVE  anchoredBy' \in [Region -> [Region -> Int]] /\ RefCounts'
<1> DEFINE f  == points[r]
           g  == [f EXCEPT !["TOPLEFT"] = t]
           h  == [g EXCEPT !["BOTTOMRIGHT"] = t]
           by == Counts(anchoredBy, r, f["TOPLEFT"], t)
<1>1. f \in [Point -> Target]
  BY DEF IInv, Typed
<1>2. "TOPLEFT" \in Point /\ "BOTTOMRIGHT" \in Point
  BY DEF SetAllPointsInternal, Corners
<1>3. /\ g \in [Point -> Target] /\ h \in [Point -> Target]
      /\ IsSetTo(g, f, "TOPLEFT", t) /\ IsSetTo(h, g, "BOTTOMRIGHT", t)
      /\ g["BOTTOMRIGHT"] = points[r]["BOTTOMRIGHT"]
  BY <1>1, <1>2 DEF IsSetTo
<1>4. points' = [points EXCEPT ![r] = h]
  BY <1>1, <1>2 DEF SetAllPointsInternal, IInv, Typed
<1>5. Exact(anchoredBy, r, f)
  BY ExactNow
<1>6. anchoredBy' = Counts(by, r, g["BOTTOMRIGHT"], t)
  BY <1>3 DEF SetAllPointsInternal
<1>7. by = Counts(anchoredBy, r, f["TOPLEFT"], t)
  OBVIOUS
<1> HIDE DEF f, g, h, by
<1>8. Exact(by, r, g) /\ SameButFor(r, anchoredBy, by)
  BY <1>1, <1>2, <1>3, <1>5, <1>7, CountsExact
<1>9. Exact(anchoredBy', r, h) /\ SameButFor(r, by, anchoredBy')
  BY <1>2, <1>3, <1>6, <1>8, CountsExact
<1>10. SameButFor(r, anchoredBy, anchoredBy')
  BY <1>8, <1>9 DEF SameButFor
<1> QED
  BY <1>3, <1>4, <1>9, <1>10, OneRegion DEF Exact

\* What ClearAllPoints and SetScrollChild do to the counts.
LEMMA NoPointsCounts ==
  ASSUME IInv, NEW r \in Region, ClearAllPoints(r)
  PROVE  anchoredBy' \in [Region -> [Region -> Int]] /\ RefCounts'
<1> DEFINE none == [p \in Point |-> Unset]
<1>1. none \in [Point -> Target] /\ points' = [points EXCEPT ![r] = none]
  BY DEF Target, ClearAllPoints
<1>2. anchoredBy' = ClearedCounts(anchoredBy, r)
  BY DEF ClearAllPoints
<1>3. Exact(anchoredBy', r, none) /\ SameButFor(r, anchoredBy, anchoredBy')
  BY <1>2, ClearedCountsExact
<1> HIDE DEF none
<1> QED
  BY <1>1, <1>3, OneRegion DEF Exact

\* SetScrollChild leaves the child's counts exact: one, on the scroll frame.
LEMMA ScrollChildCounts ==
  ASSUME IInv, NEW s \in Region, NEW c \in Region, SetScrollChild(s, c)
  PROVE  anchoredBy' \in [Region -> [Region -> Int]] /\ RefCounts'
<1> DEFINE none == [p \in Point |-> Unset]
           g    == [p \in Point |-> IF p = "TOPLEFT" THEN s ELSE Unset]
           by   == ClearedCounts(anchoredBy, c)
<1>1. /\ none \in [Point -> Target] /\ g \in [Point -> Target]
      /\ points' = [points EXCEPT ![c] = g] /\ "TOPLEFT" \in Point
  BY DEF Target, SetScrollChild
<1>2. IsSetTo(g, none, "TOPLEFT", s) /\ none["TOPLEFT"] = Unset
  BY <1>1 DEF IsSetTo
<1>3. anchoredBy' = Counts(by, c, Unset, s)
  BY DEF SetScrollChild
<1>4. Exact(by, c, none) /\ SameButFor(c, anchoredBy, by)
  BY ClearedCountsExact
<1>5. s \in Target
  BY DEF Target
<1> HIDE DEF none, g, by
<1>6. Exact(anchoredBy', c, g) /\ SameButFor(c, by, anchoredBy')
  BY <1>1, <1>2, <1>3, <1>4, <1>5, CountsExact
<1>7. SameButFor(c, anchoredBy, anchoredBy')
  BY <1>4, <1>6 DEF SameButFor
<1> QED
  BY <1>1, <1>6, <1>7, OneRegion DEF Exact

-----------------------------------------------------------------------------
(* Marking *)

\* SetDirty(r) marks r, and whatever is anchored to what it marks.
LEMMA MarksClosed ==
  ASSUME NEW r \in Region, NEW by
  PROVE  /\ DirtyFrom(r, by) \subseteq Region \ dirty
         /\ r \in dirty \cup DirtyFrom(r, by)
         /\ \A x \in DirtyFrom(r, by), y \in Region \ (dirty \cup DirtyFrom(r, by)) :
              by[x][y] = 0
<1>1. CASE r \in dirty
  BY <1>1 DEF DirtyFrom
<1>2. CASE r \notin dirty
  <2> DEFINE clean  == Region \ dirty
             next   == [x \in clean |-> {y \in clean : by[x][y] # 0}]
             closed == {S \in SUBSET clean : r \in S /\ \A x \in S : next[x] \subseteq S}
             marked == {x \in clean : \A S \in closed : x \in S}
  <2>1. DirtyFrom(r, by) = marked
    BY <1>2 DEF DirtyFrom
  <2>2. r \in marked
    BY <1>2
  <2>3. ASSUME NEW x \in marked, NEW y \in clean \ marked
        PROVE  by[x][y] = 0
    <3>1. PICK S \in closed : y \notin S
      OBVIOUS
    <3>2. x \in S
      OBVIOUS
    <3>3. y \notin next[x]
      BY <3>1, <3>2
    <3> QED
      BY <3>3
  <2> HIDE DEF marked
  <2>4. marked \subseteq clean
    BY DEF marked
  <2> QED
    BY <2>1, <2>2, <2>3, <2>4
<1> QED
  BY <1>1, <1>2

\* What SetDirty(r) does, by the regions it marks.
Marking(marked) ==
  /\ dirty' = dirty \cup marked /\ valid' = valid \ marked /\ cleared' = cleared \ marked
  /\ uses' = [x \in Region |-> IF x \in marked THEN {} ELSE uses[x]]

LEMMA WhatSetDirtyDoes ==
  ASSUME NEW r \in Region, NEW by, SetDirty(r, by)
  PROVE  Marking(DirtyFrom(r, by))
<1>1. DirtyFrom(r, by) \subseteq Region \ dirty
  BY MarksClosed
<1>2. dirty' = dirty \cup DirtyFrom(r, by)
  BY DEF SetDirty
<1>3. dirty' \ dirty = DirtyFrom(r, by)
  BY <1>1, <1>2
<1> QED
  BY <1>2, <1>3 DEF SetDirty, Marking

\* No rectangle in use is left that rests on a region marked.
LEMMA MarkingKeeps ==
  ASSUME IInv, NEW r \in Region, NEW by, SameButFor(r, anchoredBy, by),
         SetDirty(r, by),
         \A q \in Region \ {r} : points'[q] = points[q]
  PROVE  CleanOnClean'
<1> DEFINE marked == DirtyFrom(r, by)
<1>1. /\ marked \subseteq Region \ dirty /\ r \in dirty \cup marked
      /\ \A x \in marked, y \in Region \ (dirty \cup marked) : by[x][y] = 0
  BY MarksClosed
<1>2. /\ dirty' = dirty \cup marked /\ cleared' = cleared \ marked
      /\ \A y \in Region \ marked : uses'[y] = uses[y]
  BY WhatSetDirtyDoes DEF Marking
<1> HIDE DEF marked
<1> SUFFICES ASSUME NEW y \in (Region \ (dirty \cup cleared))', NEW x \in uses'[y]
             PROVE  x \in Anchors(y)' /\ x \notin dirty'
  BY DEF CleanOnClean
<1>3. y \in Region \ (dirty \cup cleared) /\ y \notin marked /\ y # r
  BY <1>1, <1>2
<1>4. x \in Anchors(y) /\ x \notin dirty
  BY <1>2, <1>3 DEF IInv, CleanOnClean
<1>5. x \in Anchors(y)'
  BY <1>3, <1>4 DEF Anchors
<1>6. x \notin marked
  <2>1. PICK p \in Point : points[y][p] = x
    BY <1>4 DEF Anchors
  <2>2. x \in Region /\ OnTarget(points[y], x) # {}
    BY <1>4, <2>1 DEF Anchors, OnTarget
  <2>3. Count(points[y], x) # 0
    BY <2>2, CountIsNat, FS_EmptySet DEF Count
  <2>4. anchoredBy[x][y] # 0
    BY <1>3, <2>2, <2>3 DEF IInv, RefCounts, PointsOn, Count, OnTarget
  <2>5. by[x][y] # 0
    BY <1>3, <2>2, <2>4 DEF SameButFor
  <2> QED
    BY <1>1, <1>3, <2>5
<1> QED
  BY <1>2, <1>4, <1>5, <1>6

\* validate goes through everything dirty that it consults.
LEMMA ValidatedClosed ==
  ASSUME NEW r \in Region, NEW V
  PROVE  /\ Validated(r, V) \subseteq dirty
         /\ \A x \in Validated(r, V) : Consulted(x, V) \cap dirty \subseteq Validated(r, V)
<1> DEFINE next   == [y \in dirty |-> Consulted(y, V) \cap dirty]
           closed == {S \in SUBSET dirty : r \in S /\ \A y \in S : next[y] \subseteq S}
           K      == {x \in dirty : \A S \in closed : x \in S}
<1>1. Validated(r, V) = K
  BY DEF Validated
<1>2. ASSUME NEW x \in K, NEW z \in Consulted(x, V) \cap dirty
      PROVE  z \in K
  <2>1. next[x] = Consulted(x, V) \cap dirty
    OBVIOUS
  <2> HIDE DEF next
  <2>2. ASSUME NEW S \in closed PROVE z \in S
    BY <2>1
  <2> QED
    BY <2>2
<1>3. K \subseteq dirty
  OBVIOUS
<1> HIDE DEF K
<1> QED
  BY <1>1, <1>2, <1>3

\* A region is only asked for its rectangle by one that is anchored to it.
LEMMA ConsultedAnchors ==
  ASSUME NEW r \in Region, NEW V
  PROVE  Consulted(r, V) \subseteq Anchors(r)
BY DEF Consulted, Anchors, IsSet

\* What GetRect(r) does, by what it works out and what has a rectangle then.
Validating(K, V) ==
  /\ V = Worked(V)
  /\ dirty' = dirty \ K /\ valid' = valid \cup (K \cap V)
  /\ uses' = [x \in Region |-> IF x \in K THEN Consulted(x, V) ELSE uses[x]]
  /\ UNCHANGED <<made, loading, points, anchoredBy, wide, tall, cleared>>

LEMMA WhatGetRectDoes ==
  ASSUME NEW r \in Region, GetRect(r)
  PROVE  \E V \in SUBSET Region : Validating(Validated(r, V), V)
<1>1. PICK V \in SUBSET Region :
        /\ V = Worked(V) /\ dirty' = dirty \ Validated(r, V)
        /\ valid' = valid \cup ((dirty \ dirty') \cap V)
        /\ uses' = [x \in Region |->
                     IF x \in dirty \ dirty' THEN Consulted(x, V) ELSE uses[x]]
  BY DEF GetRect
<1>2. dirty \ dirty' = Validated(r, V)
  BY <1>1, ValidatedClosed
<1>3. UNCHANGED <<made, loading, points, anchoredBy, wide, tall, cleared>>
  BY DEF GetRect
<1>4. Validating(Validated(r, V), V)
  BY <1>1, <1>2, <1>3 DEF Validating
<1> QED
  BY <1>4

\* Reading a rectangle leaves none in use that rests on a dirty region.
LEMMA ValidatingKeeps ==
  ASSUME IInv, NEW r \in Region, GetRect(r)
  PROVE  CleanOnClean'
<1>0. PICK V \in SUBSET Region : Validating(Validated(r, V), V)
  BY WhatGetRectDoes
<1> DEFINE K == Validated(r, V)
<1>1. /\ dirty' = dirty \ K /\ cleared' = cleared /\ points' = points
      /\ uses' = [x \in Region |-> IF x \in K THEN Consulted(x, V) ELSE uses[x]]
  BY <1>0 DEF Validating
<1>2. K \subseteq dirty /\ \A x \in K : Consulted(x, V) \cap dirty \subseteq K
  BY ValidatedClosed
<1> HIDE DEF K
<1> SUFFICES ASSUME NEW y \in (Region \ (dirty \cup cleared))', NEW x \in uses'[y]
             PROVE  x \in Anchors(y) /\ x \notin dirty'
  BY <1>1 DEF CleanOnClean, Anchors
<1>3. CASE y \in K
  <2>1. x \in Consulted(y, V)
    BY <1>1, <1>3
  <2>2. x \in Anchors(y)
    BY <2>1, ConsultedAnchors
  <2> QED
    BY <1>1, <1>2, <1>3, <2>1, <2>2
<1>4. CASE y \notin K
  <2>1. y \in Region \ (dirty \cup cleared) /\ x \in uses[y]
    BY <1>1, <1>4
  <2> QED
    BY <1>1, <2>1 DEF IInv, CleanOnClean
<1> QED
  BY <1>3, <1>4

-----------------------------------------------------------------------------
(* The invariant *)

\* Without points there are no counts, and no rectangle rests on another.
LEMMA IInvInit == Init => IInv
<1> SUFFICES ASSUME Init PROVE IInv
  OBVIOUS
<1>1. Typed
  BY RegionAssumption DEF Init, Typed, Target
<1>2. RefCounts
  <2> SUFFICES ASSUME NEW r \in Region, NEW t \in Region
               PROVE  anchoredBy[t][r] = PointsOn(r, t)
    BY DEF RefCounts
  <2>1. points[r] = [p \in Point |-> Unset]
    BY DEF Init
  <2>2. PointsOn(r, t) = Count(points[r], t)
    BY DEF PointsOn, Count, OnTarget
  <2>3. Count([p \in Point |-> Unset], t) = 0
    BY NoneOn
  <2> QED
    BY <2>1, <2>2, <2>3 DEF Init
<1>3. CleanOnClean
  BY DEF Init, CleanOnClean
<1> QED
  BY <1>1, <1>2, <1>3 DEF IInv

\* What SetDirty does to the types.
LEMMA MarkingTypes ==
  ASSUME IInv, NEW r \in Region, NEW by, SetDirty(r, by)
  PROVE  /\ dirty' \subseteq Region /\ valid' \subseteq Region
         /\ uses' \in [Region -> SUBSET Region] /\ cleared' \subseteq Region
<1> DEFINE marked == DirtyFrom(r, by)
<1>1. marked \subseteq Region /\ Marking(marked)
  BY MarksClosed, WhatSetDirtyDoes
<1> HIDE DEF marked
<1> QED
  BY <1>1 DEF Marking, IInv, Typed

\* A step by what it does: XML sets points as SetPoint and SetAllPoints do, but
\* for the search before it.
SomeStep ==
  \/ \E r \in Region, p \in Point, t \in Region \cup {Screen} :
       SetPointInternal(r, p, t) /\ (Resolved(r, t) \/ XmlAnchor(r, p, t))
  \/ \E r \in Region, t \in Region \cup {Screen} :
       SetAllPointsInternal(r, t) /\ (Resolved(r, t) \/ XmlAllPoints(r, t))
  \/ \E r \in Region, p \in Point : ClearPoint(r, p)
  \/ \E r \in Region : ClearAllPoints(r) \/ GetRect(r)
  \/ \E r \in Region, s \in Size : SetSize(r, s[1], s[2])
  \/ \E s \in ScrollFrame, c \in Region : SetScrollChild(s, c)
  \/ \E r \in Xml : Load(r)
  \/ Loaded
  \/ UNCHANGED vars

LEMMA Steps ==
  ASSUME Typed, [Next]_vars
  PROVE  SomeStep
<1>1. made \subseteq Region
  BY DEF Typed
<1>2. ASSUME NEW r \in made, NEW p \in Point, NEW t \in made \cup {Screen},
             SetPoint(r, p, t) \/ XmlAnchor(r, p, t)
      PROVE  SomeStep
  <2>1. SetPointInternal(r, p, t) /\ (Resolved(r, t) \/ XmlAnchor(r, p, t))
    BY <1>2 DEF SetPoint, XmlAnchor
  <2> QED
    BY <1>1, <2>1 DEF SomeStep
<1>3. ASSUME NEW r \in made, NEW t \in made \cup {Screen},
             SetAllPoints(r, t) \/ XmlAllPoints(r, t)
      PROVE  SomeStep
  <2>1. SetAllPointsInternal(r, t) /\ (Resolved(r, t) \/ XmlAllPoints(r, t))
    BY <1>3 DEF SetAllPoints, XmlAllPoints
  <2> QED
    BY <1>1, <2>1 DEF SomeStep
<1>4. ASSUME NEW r \in made,
             (\E p \in Point : ClearPoint(r, p)) \/ ClearAllPoints(r) \/ GetRect(r)
               \/ (\E s \in Size : SetSize(r, s[1], s[2]))
               \/ (\E s \in ScrollFrame : SetScrollChild(s, r))
      PROVE  SomeStep
  BY <1>1, <1>4 DEF SomeStep
<1>5. CASE Loaded \/ (\E r \in Xml : Load(r)) \/ UNCHANGED vars
  BY <1>5 DEF SomeStep
<1> QED
  BY <1>2, <1>3, <1>4, <1>5 DEF Next

\* Every call keeps the invariant.
LEMMA IInvStep == IInv /\ [Next]_vars => IInv'
<1> SUFFICES ASSUME IInv, [Next]_vars PROVE IInv'
  OBVIOUS
<1> USE DEF IInv
<1>1. ASSUME NEW r \in Region, NEW p \in Point, NEW t \in Region \cup {Screen},
             SetPointInternal(r, p, t)
      PROVE  IInv'
  <2>1. /\ t \in Target
        /\ points' = [points EXCEPT ![r][p] = t]
        /\ anchoredBy' = Counts(anchoredBy, r, points[r][p], t)
        /\ SetDirty(r, anchoredBy') /\ UNCHANGED <<made, loading, wide, tall>>
    BY <1>1 DEF SetPointInternal, Target
  <2>2. anchoredBy' \in [Region -> [Region -> Int]] /\ RefCounts'
    BY <2>1, OnePointCounts
  <2>3. Typed'
    <3>1. points' \in [Region -> [Point -> Target]]
      BY <2>1 DEF Typed
    <3> QED
      BY <2>1, <2>2, <3>1, MarkingTypes DEF Typed
  <2>4. CleanOnClean'
    <3>1. SameButFor(r, anchoredBy, anchoredBy')
      BY <2>1 DEF SameButFor, Counts, Typed
    <3>2. \A q \in Region \ {r} : points'[q] = points[q]
      BY <2>1 DEF Typed
    <3> QED
      BY <2>1, <3>1, <3>2, MarkingKeeps
  <2> QED
    BY <2>2, <2>3, <2>4
<1>2. ASSUME NEW r \in Region, NEW t \in Region \cup {Screen}, SetAllPointsInternal(r, t)
      PROVE  IInv'
  <2>1. t \in Target /\ SetDirty(r, anchoredBy') /\ UNCHANGED <<made, loading, wide, tall>>
    BY <1>2 DEF SetAllPointsInternal, Target
  <2>2. anchoredBy' \in [Region -> [Region -> Int]] /\ RefCounts'
    BY <1>2, <2>1, AllPointsCounts
  <2>3. /\ points' \in [Region -> [Point -> Target]]
        /\ \A q \in Region \ {r} : points'[q] = points[q]
    BY <1>2, <2>1 DEF Typed, SetAllPointsInternal
  <2>4. Typed'
    BY <2>1, <2>2, <2>3, MarkingTypes DEF Typed
  <2>5. CleanOnClean'
    <3>1. SameButFor(r, anchoredBy, anchoredBy')
      BY <1>2 DEF SameButFor, Counts, Typed, SetAllPointsInternal
    <3> QED
      BY <2>1, <2>3, <3>1, MarkingKeeps
  <2> QED
    BY <2>2, <2>4, <2>5
<1>3. ASSUME NEW r \in Region, NEW p \in Point, ClearPoint(r, p)
      PROVE  IInv'
  <2>1. /\ Unset \in Target
        /\ points' = [points EXCEPT ![r][p] = Unset]
        /\ anchoredBy' = Counts(anchoredBy, r, points[r][p], Unset)
        /\ cleared' = cleared \cup ({r} \ dirty)
        /\ UNCHANGED <<made, loading, dirty, valid, wide, tall, uses>>
    BY <1>3 DEF ClearPoint, Target
  <2>2. anchoredBy' \in [Region -> [Region -> Int]] /\ RefCounts'
    BY <2>1, OnePointCounts
  <2>3. Typed'
    <3>1. points' \in [Region -> [Point -> Target]]
      BY <2>1 DEF Typed
    <3> QED
      BY <2>1, <2>2, <3>1 DEF Typed
  <2>4. CleanOnClean'
    <3> SUFFICES ASSUME NEW y \in (Region \ (dirty \cup cleared))'
                 PROVE  uses'[y] \subseteq Anchors(y)' \ dirty'
      BY DEF CleanOnClean
    <3>1. y # r /\ y \in Region \ (dirty \cup cleared)
      BY <2>1
    <3>2. Anchors(y)' = Anchors(y)
      BY <2>1, <3>1 DEF Typed, Anchors
    <3> QED
      BY <2>1, <3>1, <3>2 DEF CleanOnClean
  <2> QED
    BY <2>2, <2>3, <2>4
<1>4. ASSUME NEW r \in Region, ClearAllPoints(r)
      PROVE  IInv'
  <2>1. SetDirty(r, anchoredBy') /\ UNCHANGED <<made, loading, wide, tall>>
    BY <1>4 DEF ClearAllPoints
  <2>2. anchoredBy' \in [Region -> [Region -> Int]] /\ RefCounts'
    BY <1>4, NoPointsCounts
  <2>3. /\ points' \in [Region -> [Point -> Target]]
        /\ \A q \in Region \ {r} : points'[q] = points[q]
    BY <1>4 DEF Typed, ClearAllPoints, Target
  <2>4. Typed'
    BY <2>1, <2>2, <2>3, MarkingTypes DEF Typed
  <2>5. CleanOnClean'
    <3>1. SameButFor(r, anchoredBy, anchoredBy')
      BY <1>4 DEF SameButFor, ClearedCounts, Typed, ClearAllPoints
    <3> QED
      BY <2>1, <2>3, <3>1, MarkingKeeps
  <2> QED
    BY <2>2, <2>4, <2>5
<1>5. ASSUME NEW s \in Region, NEW c \in Region, SetScrollChild(s, c)
      PROVE  IInv'
  <2>1. SetDirty(c, ClearedCounts(anchoredBy, c)) /\ UNCHANGED <<made, loading, wide, tall>>
    BY <1>5 DEF SetScrollChild
  <2>2. anchoredBy' \in [Region -> [Region -> Int]] /\ RefCounts'
    BY <1>5, ScrollChildCounts
  <2>3. /\ points' \in [Region -> [Point -> Target]]
        /\ \A q \in Region \ {c} : points'[q] = points[q]
    BY <1>5 DEF Typed, SetScrollChild, Target
  <2>4. Typed'
    BY <2>1, <2>2, <2>3, MarkingTypes DEF Typed
  <2>5. CleanOnClean'
    <3>1. SameButFor(c, anchoredBy, ClearedCounts(anchoredBy, c))
      BY ClearedCountsExact
    <3> QED
      BY <2>1, <2>3, <3>1, MarkingKeeps
  <2> QED
    BY <2>2, <2>4, <2>5
<1>6. ASSUME NEW r \in Region, NEW w, NEW h, SetSize(r, w, h)
      PROVE  IInv'
  <2>1. /\ SetDirty(r, anchoredBy) /\ UNCHANGED <<made, loading, points, anchoredBy>>
        /\ wide' \subseteq Region /\ tall' \subseteq Region
    BY <1>6 DEF SetSize, Typed
  <2>2. RefCounts'
    BY <2>1 DEF RefCounts, PointsOn
  <2>3. Typed'
    BY <2>1, MarkingTypes DEF Typed
  <2>4. CleanOnClean'
    <3>1. SameButFor(r, anchoredBy, anchoredBy)
      BY DEF SameButFor
    <3> QED
      BY <2>1, <3>1, MarkingKeeps
  <2> QED
    BY <2>2, <2>3, <2>4
<1>7. ASSUME NEW r \in Region, GetRect(r)
      PROVE  IInv'
  <2>0. PICK V \in SUBSET Region : Validating(Validated(r, V), V)
    BY <1>7, WhatGetRectDoes
  <2>1. RefCounts'
    BY <2>0 DEF RefCounts, PointsOn, Validating
  <2>2. Typed'
    <3>1. /\ Validated(r, V) \subseteq Region
          /\ \A x \in Region : Consulted(x, V) \subseteq Region
      BY ValidatedClosed DEF Typed, Consulted
    <3> QED
      BY <2>0, <3>1 DEF Validating, Typed
  <2> QED
    BY <1>7, <2>1, <2>2, ValidatingKeeps
<1>8. ASSUME UNCHANGED <<points, anchoredBy, dirty, valid, wide, tall, uses, cleared>>,
             made' \subseteq Region, loading' \in Seq(made')
      PROVE  IInv'
  BY <1>8 DEF Typed, RefCounts, PointsOn, CleanOnClean, Anchors
<1>9. ASSUME NEW r \in Xml, Load(r)
      PROVE  IInv'
  <2>1. made' = made \cup {r} /\ loading' = <<r>> \o loading /\ r \in Region
    BY <1>9, RegionAssumption DEF Load
  <2>2. made' \subseteq Region /\ loading' \in Seq(made')
    BY <2>1 DEF Typed
  <2> QED
    BY <1>8, <1>9, <2>2 DEF Load
<1>10. CASE Loaded
  <2>1. made' \subseteq Region /\ loading' \in Seq(made')
    BY <1>10 DEF Loaded, Typed
  <2> QED
    BY <1>8, <1>10, <2>1 DEF Loaded
<1>11. CASE UNCHANGED vars
  BY <1>8, <1>11 DEF vars, Typed
<1> QED
  BY <1>1, <1>2, <1>3, <1>4, <1>5, <1>6, <1>7, <1>9, <1>10, <1>11,
     Steps, RegionAssumption DEF SomeStep

-----------------------------------------------------------------------------
(* What a rectangle is computed from *)

\* Usable, Line, Consulted and Complete of a region whose points are f: they
\* depend on nothing else of the state but whether it has a width, a height.
UsableOf(f, p, V) == p \in Point /\ f[p] # Unset /\ (f[p] = Screen \/ f[p] \in V)
UsedBefore(f, line, i, V) == \E k \in 1 .. i - 1 : UsableOf(f, Alternatives[line][k], V)
LineOf(f, line, V) == \E i \in 1 .. 3 : UsableOf(f, Alternatives[line][i], V)
AskedAt(f, line, i, V, x) ==
  LET p == Alternatives[line][i] IN
    p \in Point /\ f[p] # Unset /\ f[p] = x /\ ~UsedBefore(f, line, i, V)
ConsultedOf(f, V) ==
  {x \in Region : \E line \in DOMAIN Alternatives, i \in 1 .. 3 : AskedAt(f, line, i, V, x)}
CompleteOf(f, wd, tl, V) ==
  LET has(line) == LineOf(f, line, V)
      w == wd \/ (has("mx") /\ (has("rx") \/ has("lx")))
      h == tl \/ (has("my") /\ (has("ty") \/ has("by")))
  IN  /\ has("by") \/ (has("ty") /\ h) \/ (has("my") /\ h)
      /\ has("lx") \/ (has("rx") /\ w) \/ (has("mx") /\ w)
      /\ has("rx") \/ (has("lx") /\ w) \/ (has("mx") /\ w)
      /\ has("ty") \/ (has("by") /\ h) \/ (has("my") /\ h)

\* They are what the model's operators say of a region, now and after a step.
LEMMA ByItsPoints ==
  ASSUME NEW r \in Region, NEW V
  PROVE  /\ Complete(r, V) <=> CompleteOf(points[r], r \in wide, r \in tall, V)
         /\ Consulted(r, V) = ConsultedOf(points[r], V)
<1>1. \A p : Usable(r, p, V) <=> UsableOf(points[r], p, V)
  BY DEF Usable, UsableOf, IsSet
<1>2. \A line : Line(r, line, V) <=> LineOf(points[r], line, V)
  BY <1>1 DEF Line, LineOf
<1>3. Complete(r, V) <=> CompleteOf(points[r], r \in wide, r \in tall, V)
  BY <1>2, Zenon DEF Complete, CompleteOf
<1>4. Consulted(r, V) = ConsultedOf(points[r], V)
  BY <1>1 DEF Consulted, ConsultedOf, AskedAt, UsedBefore, IsSet
<1> QED
  BY <1>3, <1>4

\* The sets of regions V and W agree on what a region with points f asks for.
Agree(f, V, W) == \A x \in ConsultedOf(f, V) : x \in V <=> x \in W

\* When they do, each line finds the same point in both.
LEMMA SameLine ==
  ASSUME NEW f \in [Point -> Target], NEW V \in SUBSET Region, NEW W \in SUBSET Region,
         Agree(f, V, W), NEW line \in DOMAIN Alternatives
  PROVE  /\ LineOf(f, line, V) <=> LineOf(f, line, W)
         /\ \A i \in 1 .. 3 : UsedBefore(f, line, i, V) <=> UsedBefore(f, line, i, W)
<1> DEFINE u(i) == UsableOf(f, Alternatives[line][i], V)
           v(i) == UsableOf(f, Alternatives[line][i], W)
<1>1. ASSUME NEW i \in 1 .. 3, ~UsedBefore(f, line, i, V)
      PROVE  u(i) <=> v(i)
  <2> DEFINE p == Alternatives[line][i]
  <2>1. CASE p \in Point /\ f[p] \in Region
    <3>1. AskedAt(f, line, i, V, f[p])
      BY <1>1, <2>1, RegionAssumption DEF AskedAt
    <3>2. f[p] \in ConsultedOf(f, V)
      BY <2>1, <3>1 DEF ConsultedOf
    <3> QED
      BY <2>1, <3>2 DEF Agree, UsableOf
  <2>2. CASE p \in Point /\ f[p] \notin Region
    BY <2>2 DEF UsableOf
  <2>3. CASE p \notin Point
    BY <2>3 DEF UsableOf
  <2> QED
    BY <2>1, <2>2, <2>3
<1>2. /\ UsedBefore(f, line, 1, V) <=> FALSE
      /\ UsedBefore(f, line, 1, W) <=> FALSE
  BY DEF UsedBefore
<1>3. /\ UsedBefore(f, line, 2, V) <=> u(1)
      /\ UsedBefore(f, line, 2, W) <=> v(1)
  <2>1. 1 .. 2 - 1 = {1}
    OBVIOUS
  <2> QED
    BY <2>1 DEF UsedBefore
<1>4. /\ UsedBefore(f, line, 3, V) <=> u(1) \/ u(2)
      /\ UsedBefore(f, line, 3, W) <=> v(1) \/ v(2)
  <2>1. 1 .. 3 - 1 = {1, 2}
    OBVIOUS
  <2> QED
    BY <2>1 DEF UsedBefore
<1>5. 1 .. 3 = {1, 2, 3}
  OBVIOUS
<1>6. /\ LineOf(f, line, V) <=> u(1) \/ u(2) \/ u(3)
      /\ LineOf(f, line, W) <=> v(1) \/ v(2) \/ v(3)
  BY <1>5 DEF LineOf
<1> HIDE DEF u, v
<1>7. /\ u(1) <=> v(1)
      /\ ~u(1) => (u(2) <=> v(2))
      /\ ~u(1) /\ ~u(2) => (u(3) <=> v(3))
  BY <1>1, <1>2, <1>3, <1>4, <1>5
<1>8. \A i \in {1, 2, 3} : UsedBefore(f, line, i, V) <=> UsedBefore(f, line, i, W)
  BY <1>2, <1>3, <1>4, <1>7
<1> QED
  BY <1>5, <1>6, <1>7, <1>8

\* So the sides come out alike, from the same regions: a rectangle depends on
\* no other region's than those asked for.
LEMMA AskedIsEnough ==
  ASSUME NEW f \in [Point -> Target], NEW V \in SUBSET Region, NEW W \in SUBSET Region,
         Agree(f, V, W), NEW w \in BOOLEAN, NEW h \in BOOLEAN
  PROVE  /\ CompleteOf(f, w, h, V) <=> CompleteOf(f, w, h, W)
         /\ ConsultedOf(f, V) = ConsultedOf(f, W)
<1>1. \A line \in DOMAIN Alternatives : LineOf(f, line, V) <=> LineOf(f, line, W)
  BY SameLine
<1>2. {"by", "lx", "rx", "ty", "mx", "my"} = DOMAIN Alternatives
  BY DEF Alternatives
<1>3. CompleteOf(f, w, h, V) <=> CompleteOf(f, w, h, W)
  <2>1. /\ LineOf(f, "by", V) <=> LineOf(f, "by", W)
        /\ LineOf(f, "lx", V) <=> LineOf(f, "lx", W)
        /\ LineOf(f, "rx", V) <=> LineOf(f, "rx", W)
        /\ LineOf(f, "ty", V) <=> LineOf(f, "ty", W)
        /\ LineOf(f, "mx", V) <=> LineOf(f, "mx", W)
        /\ LineOf(f, "my", V) <=> LineOf(f, "my", W)
    BY <1>1, <1>2
  <2> QED
    BY <2>1, Zenon DEF CompleteOf
<1>4. \A line \in DOMAIN Alternatives, i \in 1 .. 3 :
        UsedBefore(f, line, i, V) <=> UsedBefore(f, line, i, W)
  BY SameLine
<1>5. \A line \in DOMAIN Alternatives, i \in 1 .. 3 :
        \A x : AskedAt(f, line, i, V, x) <=> AskedAt(f, line, i, W, x)
  BY <1>4 DEF AskedAt
<1> QED
  BY <1>3, <1>5 DEF ConsultedOf

-----------------------------------------------------------------------------
(* Each step keeps RectsCurrent *)

\* RectsCurrent is inductive beside IInv once no dirty region counts as valid.
RectsInv == RectsCurrent /\ valid \cap dirty = {}

\* A region keeps its rectangle, as long as its points and its size stay and
\* those asked for are known, or not, as they were.
LEMMA RectStays ==
  ASSUME IInv, RectsInv, Typed', NEW y \in Region \ (dirty \cup cleared),
         points'[y] = points[y], y \in wide' <=> y \in wide, y \in tall' <=> y \in tall,
         uses'[y] = uses[y], y \in valid' <=> y \in valid,
         \A x \in uses[y] : x \in valid <=> x \in valid' \ dirty'
  PROVE  /\ (y \in valid') <=> Complete(y, valid \ dirty)'
         /\ uses'[y] = Consulted(y, valid \ dirty)'
<1> DEFINE f == points[y]
           V == valid \ dirty
           W == valid' \ dirty'
           w == y \in wide
           h == y \in tall
<1>1. V = valid /\ V \in SUBSET Region
  BY DEF RectsInv, IInv, Typed
<1>2. W \in SUBSET Region /\ f \in [Point -> Target] /\ w \in BOOLEAN /\ h \in BOOLEAN
  BY DEF IInv, Typed
<1>3. /\ y \in valid <=> CompleteOf(f, w, h, V)
      /\ uses[y] = ConsultedOf(f, V)
  <2>1. (y \in valid <=> Complete(y, V)) /\ uses[y] = Consulted(y, V)
    BY DEF RectsInv, RectsCurrent
  <2> QED
    BY <2>1, ByItsPoints
<1>4. /\ Complete(y, valid \ dirty)' <=> CompleteOf(f, w, h, W)
      /\ Consulted(y, valid \ dirty)' = ConsultedOf(f, W)
  <2>1. \A p : Usable(y, p, valid \ dirty)' <=> UsableOf(f, p, W)
    BY DEF Usable, UsableOf, IsSet
  <2>2. \A line : Line(y, line, valid \ dirty)' <=> LineOf(f, line, W)
    BY <2>1 DEF Line, LineOf
  <2>3. Complete(y, valid \ dirty)' <=> CompleteOf(f, w, h, W)
    BY <2>2, Zenon DEF Complete, CompleteOf
  <2>4. Consulted(y, valid \ dirty)' = ConsultedOf(f, W)
    BY <2>1 DEF Consulted, ConsultedOf, AskedAt, UsedBefore, IsSet
  <2> QED
    BY <2>3, <2>4
<1> HIDE DEF f, V, W, w, h
<1>5. Agree(f, V, W)
  BY <1>1, <1>3 DEF Agree, W
<1>6. V \in SUBSET Region
  BY <1>1
<1>7. /\ CompleteOf(f, w, h, V) <=> CompleteOf(f, w, h, W)
      /\ ConsultedOf(f, V) = ConsultedOf(f, W)
  BY <1>2, <1>5, <1>6, AskedIsEnough
<1>8. y \in valid' <=> Complete(y, valid \ dirty)'
  BY <1>3, <1>4, <1>7
<1> QED
  BY <1>3, <1>4, <1>7, <1>8

\* What SetDirty marks is all that could come out otherwise: the regions that
\* stay clean ask for none of it.
LEMMA MarkingRects ==
  ASSUME IInv, RectsInv, IInv', NEW r \in Region, NEW by, SetDirty(r, by),
         \A q \in Region \ {r} :
           /\ points'[q] = points[q]
           /\ q \in wide' <=> q \in wide
           /\ q \in tall' <=> q \in tall
  PROVE  RectsInv'
<1> DEFINE marked == DirtyFrom(r, by)
<1>1. marked \subseteq Region \ dirty /\ r \in dirty \cup marked
  BY MarksClosed
<1>0. Marking(marked)
  BY WhatSetDirtyDoes
<1> HIDE DEF marked
<1>2. /\ dirty' = dirty \cup marked /\ valid' = valid \ marked
      /\ cleared' = cleared \ marked
      /\ \A y \in Region \ marked : uses'[y] = uses[y]
  BY <1>0 DEF Marking
<1>3. valid' \cap dirty' = {}
  BY <1>2 DEF RectsInv
<1>4. ASSUME NEW y \in (Region \ (dirty \cup cleared))'
      PROVE  /\ (y \in valid') <=> Complete(y, valid \ dirty)'
             /\ uses'[y] = Consulted(y, valid \ dirty)'
  <2>1. y \in Region \ (dirty \cup cleared) /\ y \notin marked /\ y # r
    BY <1>1, <1>2
  <2>2. uses'[y] = uses[y] /\ (y \in valid' <=> y \in valid)
    BY <1>2, <2>1
  <2>3. uses[y] \cap dirty' = {}
    BY <1>4, <2>2 DEF IInv, CleanOnClean
  <2>4. \A x \in uses[y] : x \in valid <=> x \in valid' \ dirty'
    BY <1>2, <2>3
  <2> QED
    BY <2>1, <2>2, <2>4, RectStays DEF IInv
<1>5. RectsCurrent'
  BY <1>4 DEF RectsCurrent
<1> QED
  BY <1>3, <1>5 DEF RectsInv

\* What is worked out agrees with what was, and what was stays.
LEMMA ValidatingRects ==
  ASSUME IInv, RectsInv, IInv', NEW r \in Region, GetRect(r)
  PROVE  RectsInv'
<1>0. PICK V \in SUBSET Region : Validating(Validated(r, V), V)
  BY WhatGetRectDoes
<1> DEFINE K == Validated(r, V)
<1>1. /\ dirty' = dirty \ K /\ valid' = valid \cup (K \cap V)
      /\ uses' = [x \in Region |-> IF x \in K THEN Consulted(x, V) ELSE uses[x]]
      /\ UNCHANGED <<points, wide, tall, cleared>>
  BY <1>0 DEF Validating
<1>2. K \subseteq dirty /\ \A x \in K : Consulted(x, V) \cap dirty \subseteq K
  BY ValidatedClosed
<1>3. V \in SUBSET Region /\ V = Worked(V)
  BY <1>0 DEF Validating
<1> HIDE DEF K
<1>4. valid' \cap dirty' = {}
  BY <1>1, <1>2 DEF RectsInv
<1>5. ASSUME NEW y \in (Region \ (dirty \cup cleared))'
      PROVE  /\ (y \in valid') <=> Complete(y, valid \ dirty)'
             /\ uses'[y] = Consulted(y, valid \ dirty)'
  <2>1. CASE y \notin K
    <3>1. y \in Region \ (dirty \cup cleared)
      BY <1>1, <2>1
    <3>2. uses'[y] = uses[y] /\ (y \in valid' <=> y \in valid)
      BY <1>1, <2>1
    <3>3. uses[y] \cap dirty = {}
      BY <3>1 DEF IInv, CleanOnClean
    <3>4. \A x \in uses[y] : x \in valid <=> x \in valid' \ dirty'
      BY <1>1, <1>2, <3>3
    <3> QED
      BY <1>1, <3>1, <3>2, <3>4, RectStays DEF IInv
  <2>2. CASE y \in K
    <3> DEFINE f == points[y]
               W == valid' \ dirty'
               w == y \in wide
               h == y \in tall
    <3>1. W \in SUBSET Region /\ f \in [Point -> Target] /\ w \in BOOLEAN /\ h \in BOOLEAN
      BY DEF IInv, Typed
    <3>2. y \in valid' <=> y \in V
      BY <1>1, <1>2, <2>2 DEF RectsInv
    <3>3. y \in V <=> CompleteOf(f, w, h, V)
      <4>1. y \in V <=> Complete(y, V)
        BY <1>2, <1>3, <2>2 DEF Worked
      <4> QED
        BY <4>1, ByItsPoints
    <3>4. uses'[y] = Consulted(y, V) /\ Consulted(y, V) = ConsultedOf(f, V)
      BY <1>1, <2>2, ByItsPoints
    <3>5. /\ Complete(y, valid \ dirty)' <=> CompleteOf(f, w, h, W)
          /\ Consulted(y, valid \ dirty)' = ConsultedOf(f, W)
      <4>1. \A p : Usable(y, p, valid \ dirty)' <=> UsableOf(f, p, W)
        BY <1>1 DEF Usable, UsableOf, IsSet
      <4>2. \A line : Line(y, line, valid \ dirty)' <=> LineOf(f, line, W)
        BY <4>1 DEF Line, LineOf
      <4>3. (y \in wide' <=> w) /\ (y \in tall' <=> h)
        BY <1>1
      <4>4. Complete(y, valid \ dirty)' <=> CompleteOf(f, w, h, W)
        BY <4>2, <4>3, Zenon DEF Complete, CompleteOf
      <4>5. Consulted(y, valid \ dirty)' = ConsultedOf(f, W)
        BY <1>1, <4>1 DEF Consulted, ConsultedOf, AskedAt, UsedBefore, IsSet
      <4> QED
        BY <4>4, <4>5
    <3>6. ASSUME NEW x \in Consulted(y, V)
          PROVE  x \in V <=> x \in valid' \ dirty'
      <4>0. x \in Region
        BY DEF Consulted
      <4>1. CASE x \in dirty
        <5>1. x \in K
          BY <1>2, <2>2, <4>1
        <5> QED
          BY <1>1, <4>1, <5>1 DEF RectsInv
      <4>2. CASE x \notin dirty
        <5>1. x \in V <=> x \in valid
          BY <1>3, <4>0, <4>2 DEF Worked
        <5> QED
          BY <1>1, <1>2, <4>2, <5>1
      <4> QED
        BY <4>1, <4>2
    <3>7. Agree(f, V, W)
      BY <3>4, <3>6 DEF Agree
    <3> HIDE DEF f, W, w, h
    <3>8. CompleteOf(f, w, h, V) <=> CompleteOf(f, w, h, W)
      BY <1>3, <3>1, <3>7, AskedIsEnough
    <3>9. ConsultedOf(f, V) = ConsultedOf(f, W)
      BY <1>3, <3>1, <3>7, AskedIsEnough
    <3>10. y \in valid' <=> Complete(y, valid \ dirty)'
      BY <3>2, <3>3, <3>5, <3>8
    <3> QED
      BY <3>4, <3>5, <3>9, <3>10
  <2> QED
    BY <2>1, <2>2
<1>6. RectsCurrent'
  BY <1>5 DEF RectsCurrent
<1> QED
  BY <1>4, <1>6 DEF RectsInv

\* Without points nothing is asked for, and no rectangle comes out.
LEMMA RectsInit == Init => RectsInv
<1> SUFFICES ASSUME Init PROVE RectsInv
  OBVIOUS
<1> SUFFICES ASSUME NEW y \in Region
             PROVE  /\ (y \in valid) <=> Complete(y, valid \ dirty)
                    /\ uses[y] = Consulted(y, valid \ dirty)
  BY DEF RectsInv, RectsCurrent, Init
<1>1. \A p : ~IsSet(y, p)
  BY DEF Init, IsSet
<1>2. \A line : ~Line(y, line, valid \ dirty)
  BY <1>1 DEF Line, Usable
<1>3. ~Complete(y, valid \ dirty)
  BY <1>2, Zenon DEF Complete
<1>4. Consulted(y, valid \ dirty) = {}
  BY <1>1 DEF Consulted
<1> QED
  BY <1>3, <1>4 DEF Init

\* Every call keeps RectsInv.
LEMMA RectsStep == IInv /\ RectsInv /\ [Next]_vars => RectsInv'
<1> SUFFICES ASSUME IInv, RectsInv, [Next]_vars PROVE RectsInv'
  OBVIOUS
<1>0. IInv'
  BY IInvStep
<1> USE <1>0
<1>1. ASSUME NEW r \in Region, NEW p \in Point, NEW t \in Region \cup {Screen},
             SetPointInternal(r, p, t)
      PROVE  RectsInv'
  <2>1. SetDirty(r, anchoredBy') /\ \A q \in Region \ {r} : points'[q] = points[q]
    BY <1>1 DEF SetPointInternal, IInv, Typed
  <2>2. wide' = wide /\ tall' = tall
    BY <1>1 DEF SetPointInternal
  <2> QED
    BY <2>1, <2>2, MarkingRects
<1>2. ASSUME NEW r \in Region, NEW t \in Region \cup {Screen}, SetAllPointsInternal(r, t)
      PROVE  RectsInv'
  <2>1. SetDirty(r, anchoredBy') /\ \A q \in Region \ {r} : points'[q] = points[q]
    BY <1>2 DEF SetAllPointsInternal, IInv, Typed
  <2>2. wide' = wide /\ tall' = tall
    BY <1>2 DEF SetAllPointsInternal
  <2> QED
    BY <2>1, <2>2, MarkingRects
<1>3. ASSUME NEW r \in Region, NEW p \in Point, ClearPoint(r, p)
      PROVE  RectsInv'
  <2>1. /\ cleared' = cleared \cup ({r} \ dirty)
        /\ UNCHANGED <<dirty, valid, wide, tall, uses>>
        /\ \A q \in Region \ {r} : points'[q] = points[q]
    BY <1>3 DEF ClearPoint, IInv, Typed
  <2>2. ASSUME NEW y \in (Region \ (dirty \cup cleared))'
        PROVE  /\ (y \in valid') <=> Complete(y, valid \ dirty)'
               /\ uses'[y] = Consulted(y, valid \ dirty)'
    <3>1. y # r /\ y \in Region \ (dirty \cup cleared)
      BY <2>1
    <3>2. \A x \in uses[y] : x \in valid <=> x \in valid' \ dirty'
      BY <2>1 DEF RectsInv
    <3> QED
      BY <2>1, <3>1, <3>2, RectStays DEF IInv
  <2>3. RectsCurrent'
    BY <2>2 DEF RectsCurrent
  <2> QED
    BY <2>1, <2>3 DEF RectsInv
<1>4. ASSUME NEW r \in Region, ClearAllPoints(r)
      PROVE  RectsInv'
  <2>1. SetDirty(r, anchoredBy') /\ \A q \in Region \ {r} : points'[q] = points[q]
    BY <1>4 DEF ClearAllPoints, IInv, Typed
  <2>2. wide' = wide /\ tall' = tall
    BY <1>4 DEF ClearAllPoints
  <2> QED
    BY <2>1, <2>2, MarkingRects
<1>5. ASSUME NEW s \in Region, NEW c \in Region, SetScrollChild(s, c)
      PROVE  RectsInv'
  <2>1. SetDirty(c, ClearedCounts(anchoredBy, c)) /\ \A q \in Region \ {c} : points'[q] = points[q]
    BY <1>5 DEF SetScrollChild, IInv, Typed
  <2>2. wide' = wide /\ tall' = tall
    BY <1>5 DEF SetScrollChild
  <2> QED
    BY <2>1, <2>2, MarkingRects
<1>6. ASSUME NEW r \in Region, NEW w, NEW h, SetSize(r, w, h)
      PROVE  RectsInv'
  <2>1. SetDirty(r, anchoredBy) /\ points' = points
    BY <1>6 DEF SetSize
  <2>2. \A q \in Region \ {r} : (q \in wide' <=> q \in wide) /\ (q \in tall' <=> q \in tall)
    BY <1>6 DEF SetSize
  <2> QED
    BY <2>1, <2>2, MarkingRects
<1>7. ASSUME NEW r \in Region, GetRect(r)
      PROVE  RectsInv'
  BY <1>7, ValidatingRects
<1>8. ASSUME UNCHANGED <<points, dirty, valid, wide, tall, uses, cleared>>
      PROVE  RectsInv'
  <2>1. ASSUME NEW y \in (Region \ (dirty \cup cleared))'
        PROVE  /\ (y \in valid') <=> Complete(y, valid \ dirty)'
               /\ uses'[y] = Consulted(y, valid \ dirty)'
    <3>1. \A x \in uses[y] : x \in valid <=> x \in valid' \ dirty'
      BY <1>8 DEF RectsInv
    <3> QED
      BY <1>8, <3>1, RectStays DEF IInv
  <2>2. RectsCurrent'
    BY <2>1 DEF RectsCurrent
  <2> QED
    BY <1>8, <2>2 DEF RectsInv
<1>9. ASSUME NEW r \in Xml, Load(r) PROVE RectsInv'
  BY <1>8, <1>9 DEF Load
<1>10. CASE Loaded
  BY <1>8, <1>10 DEF Loaded
<1>11. CASE UNCHANGED vars
  BY <1>8, <1>11 DEF vars
<1> QED
  BY <1>1, <1>2, <1>3, <1>4, <1>5, <1>6, <1>7, <1>9, <1>10, <1>11,
     Steps, RegionAssumption DEF SomeStep, IInv

-----------------------------------------------------------------------------
(* Cycles *)

\* Points taken away close no cycle.
LEMMA FewerAnchors ==
  ASSUME Acyclic,
         \A x \in Region, p \in Point :
           points'[x][p] = points[x][p] \/ points'[x][p] \notin Region
  PROVE  Acyclic'
<1> SUFFICES ASSUME NEW S \in SUBSET Region, S # {}
             PROVE  \E x \in S : \A p \in Point : points'[x][p] \notin S
  BY DEF Acyclic
<1>1. PICK x \in S : \A p \in Point : points[x][p] \notin S
  BY DEF Acyclic
<1>2. \A p \in Point : points'[x][p] \notin S
  BY <1>1
<1> QED
  BY <1>2

\* Nor do new points of r on t, when the search from t has not met r: a cycle
\* through one of them would hold a cycle, old already, of what the search
\* has met, or be one without t.
LEMMA CheckedAnchor ==
  ASSUME Acyclic, Typed, NEW r \in Region, NEW t \in Region, CycleCheck(r, t),
         \A x \in Region, p \in Point :
           \/ points'[x][p] = points[x][p]
           \/ points'[x][p] \notin Region
           \/ x = r /\ points'[x][p] = t
  PROVE  Acyclic'
<1> SUFFICES ASSUME NEW C \in SUBSET Region, C # {},
                    \A x \in C : \E p \in Point : points'[x][p] \in C
             PROVE  FALSE
  BY DEF Acyclic
<1>1. PICK S \in SUBSET (Region \ {r}) :
        t \in S /\ \A x \in S, p \in Point : points[x][p] \in S \cup {Screen, Unset}
  BY DEF CycleCheck
<1>2. ASSUME NEW x \in C, x # r
      PROVE  \E p \in Point : points[x][p] \in C
  BY <1>2
<1>3. CASE C \cap S # {}
  <2>1. PICK x \in C \cap S : \A p \in Point : points[x][p] \notin C \cap S
    BY <1>3 DEF Acyclic
  <2>2. PICK p \in Point : points[x][p] \in C
    BY <1>2
  <2>3. points[x][p] \in S
    BY <1>1, <2>2, RegionAssumption
  <2> QED
    BY <2>1, <2>2, <2>3
<1>4. CASE C \cap S = {}
  <2>1. t \notin C
    BY <1>1, <1>4
  <2>2. \A x \in C : \E p \in Point : points[x][p] \in C
    BY <2>1
  <2> QED
    BY <2>2 DEF Acyclic
<1> QED
  BY <1>3, <1>4

\* A point on the screen closes no cycle, checked or not; nor does one that
\* XML sets, unless it is an unchecked call.
LEMMA XmlCalls ==
  ASSUME NEW r \in Region, NEW t \in Region
  PROVE  /\ \A p \in Point : XmlAnchor(r, p, t) => Unchecked
         /\ XmlAllPoints(r, t) => Unchecked
<1>1. ASSUME NEW p \in Point, XmlAnchor(r, p, t) PROVE Unchecked
  <2>1. r = Head(loading)
    BY <1>1 DEF XmlAnchor, Evaluated
  <2> QED
    BY <1>1, <2>1 DEF Unchecked
<1>2. ASSUME XmlAllPoints(r, t) PROVE Unchecked
  <2>1. r = Head(loading)
    BY <1>2 DEF XmlAllPoints, Evaluated
  <2> QED
    BY <1>2, <2>1 DEF Unchecked
<1> QED
  BY <1>1, <1>2

\* A call that is not unchecked leaves anchors without cycles so.
LEMMA CycleStep == IInv /\ [Next]_vars /\ Acyclic => Acyclic' \/ Unchecked
<1> SUFFICES ASSUME IInv, [Next]_vars, Acyclic, ~Unchecked
             PROVE  Acyclic'
  OBVIOUS
<1>0. SomeStep
  BY Steps DEF IInv
<1> USE DEF IInv
<1>1. ASSUME NEW r \in Region, NEW t \in Region \cup {Screen}, Resolved(r, t),
             \A x \in Region, p \in Point :
               points'[x][p] = points[x][p] \/ (x = r /\ points'[x][p] = t)
      PROVE  Acyclic'
  <2>1. CASE t \in Region
    <3>1. CycleCheck(r, t)
      BY <1>1, <2>1 DEF Resolved
    <3> QED
      BY <1>1, <2>1, <3>1, CheckedAnchor
  <2>2. CASE t \notin Region
    BY <1>1, <2>2, FewerAnchors
  <2> QED
    BY <2>1, <2>2
<1>2. ASSUME NEW r \in Region, NEW p \in Point, NEW t \in Region \cup {Screen},
             SetPointInternal(r, p, t), Resolved(r, t) \/ XmlAnchor(r, p, t)
      PROVE  Acyclic'
  <2>1. Resolved(r, t)
    BY <1>2, XmlCalls DEF Resolved
  <2>2. \A x \in Region, q \in Point :
          points'[x][q] = points[x][q] \/ (x = r /\ points'[x][q] = t)
    BY <1>2 DEF SetPointInternal, Typed
  <2> QED
    BY <1>1, <2>1, <2>2
<1>3. ASSUME NEW r \in Region, NEW t \in Region \cup {Screen},
             SetAllPointsInternal(r, t), Resolved(r, t) \/ XmlAllPoints(r, t)
      PROVE  Acyclic'
  <2>1. Resolved(r, t)
    BY <1>3, XmlCalls DEF Resolved
  <2>2. \A x \in Region, q \in Point :
          points'[x][q] = points[x][q] \/ (x = r /\ points'[x][q] = t)
    BY <1>3 DEF SetAllPointsInternal, Typed
  <2> QED
    BY <1>1, <2>1, <2>2
<1>4. ASSUME NEW r \in Region, NEW p \in Point, ClearPoint(r, p)
      PROVE  Acyclic'
  <2>1. \A x \in Region, q \in Point :
          points'[x][q] = points[x][q] \/ points'[x][q] \notin Region
    BY <1>4, RegionAssumption DEF ClearPoint, Typed
  <2> QED
    BY <2>1, FewerAnchors
<1>5. ASSUME NEW r \in Region, ClearAllPoints(r)
      PROVE  Acyclic'
  <2>1. \A x \in Region, q \in Point :
          points'[x][q] = points[x][q] \/ points'[x][q] \notin Region
    BY <1>5, RegionAssumption DEF ClearAllPoints, Typed
  <2> QED
    BY <2>1, FewerAnchors
<1>6. ASSUME points' = points
      PROVE  Acyclic'
  BY <1>6, FewerAnchors
<1>7. ASSUME NEW r \in Region, GetRect(r) PROVE Acyclic'
  BY <1>6, <1>7 DEF GetRect
<1>8. ASSUME NEW r \in Region, NEW w, NEW h, SetSize(r, w, h) PROVE Acyclic'
  BY <1>6, <1>8 DEF SetSize
<1>9. ASSUME NEW r \in Xml, Load(r) PROVE Acyclic'
  BY <1>6, <1>9 DEF Load
<1>10. CASE Loaded
  BY <1>6, <1>10 DEF Loaded
<1>11. CASE UNCHANGED vars
  BY <1>6, <1>11 DEF vars
<1>12. ~ \E s \in ScrollFrame, c \in Region : SetScrollChild(s, c)
  BY DEF Unchecked
<1> QED
  BY <1>0, <1>2, <1>3, <1>4, <1>5, <1>7, <1>8, <1>9, <1>10, <1>11, <1>12 DEF SomeStep

-----------------------------------------------------------------------------
(* Theorems *)

\* The types, the counts and CleanOnClean hold together in every state
\* (points.lua, dirty.lua, region.lua).
THEOREM Invariance == Spec => []IInv
<1> QED
  BY IInvInit, IInvStep, PTL DEF Spec

\* The counts make the types complete: none is negative.
LEMMA IInvTypeOK == IInv => TypeOK
<1> SUFFICES ASSUME IInv PROVE TypeOK
  OBVIOUS
<1>1. \A r, t \in Region : anchoredBy[t][r] \in Nat
  <2> SUFFICES ASSUME NEW r \in Region, NEW t \in Region PROVE anchoredBy[t][r] \in Nat
    OBVIOUS
  <2>1. Exact(anchoredBy, r, points[r])
    BY ExactNow
  <2> QED
    BY <2>1, CountIsNat DEF Exact
<1>2. anchoredBy \in [Region -> [Region -> Nat]]
  BY <1>1 DEF IInv, Typed
<1> QED
  BY <1>2 DEF IInv, Typed, TypeOK, Target

\* The types of the anchor state, in every state of the specification.
THEOREM AnchorsTypeOK == Spec => []TypeOK
<1> QED
  BY Invariance, IInvTypeOK, PTL

\* anchoredBy is the exact reverse of the points (points.lua:47-67, 161-173).
THEOREM AnchorsRefCounts == Spec => []RefCounts
<1>1. IInv => RefCounts
  BY DEF IInv
<1> QED
  BY Invariance, <1>1, PTL

\* No rectangle in use rests on one that is out of date, though SetDirty
\* stops at what is dirty already (dirty.lua:2-9, region.lua:50-85).
THEOREM AnchorsCleanOnClean == Spec => []CleanOnClean
<1>1. IInv => CleanOnClean
  BY DEF IInv
<1> QED
  BY Invariance, <1>1, PTL

\* Every rectangle in use is what computing it again would give, from the same
\* regions, however far away the last change was (dirty.lua:2-9,
\* region.lua:50-99, points.lua:47-67).
THEOREM AnchorsCleanRects == Spec => []CleanRects
<1>1. IInv /\ RectsInv => CleanRects
  BY DEF IInv, RectsInv, CleanRects
<1>2. Spec => [](IInv /\ RectsInv)
  BY IInvInit, IInvStep, RectsInit, RectsStep, PTL DEF Spec
<1> QED
  BY <1>1, <1>2, PTL

\* A cycle of anchors is closed by SetScrollChild or by the XML of the region
\* that is being made, and by nothing else: the search of SetPoint and
\* SetAllPoints is enough (points.lua:102-128).
THEOREM AnchorsOnlyUncheckedCloses == Spec => OnlyUncheckedCloses
<1>1. IInv /\ [Next]_vars => [Acyclic => Acyclic' \/ Unchecked]_vars
  BY CycleStep
<1> QED
  BY Invariance, <1>1, PTL DEF Spec, OnlyUncheckedCloses
=============================================================================
