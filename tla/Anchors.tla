------------------------------- MODULE Anchors -------------------------------
(***************************************************************************)
(* Anchors and cached rectangles: src/wowless/modules/points.lua,          *)
(* dirty.lua, region.lua, ScrollFrame's SetScrollChild, and what           *)
(* xmleval.lua does to the points of a region it makes from XML.           *)
(*                                                                         *)
(* A region is placed by points relative to other regions or the screen.   *)
(* Its rectangle is computed when asked for and cached until it is marked  *)
(* dirty; anchoredBy, the reverse of the points with a count, says whom to *)
(* mark with it.  The numbers are abstracted to whether the rectangle can  *)
(* be computed at all (`valid') and from which other regions (`uses').     *)
(* What else XML does to a region it makes is left out; scripts may run at *)
(* any moment of it, so that every call may come between two of its steps. *)
(***************************************************************************)
EXTENDS Naturals, Sequences, FiniteSets

CONSTANTS
  Region,
  Screen, Unset,      \* a point relative to the screen; a point not set
  Point,              \* the frame points in use
  ScrollFrame,        \* the regions with SetScrollChild
  FontString,         \* the regions whose sides are never set to 0
  Xml,                \* the regions made from XML; the others are there
  Size,               \* pairs: whether a width, a height set is not 0
  MaxPoints           \* bound: no more points than this are set at once

FramePoint == {"TOPLEFT", "TOP", "TOPRIGHT", "LEFT", "CENTER", "RIGHT",
               "BOTTOMLEFT", "BOTTOM", "BOTTOMRIGHT"}

ASSUME PointAssumption == Point \subseteq FramePoint /\ IsFiniteSet(Point)
ASSUME RegionAssumption ==
  /\ Screen \notin Region /\ Unset \notin Region /\ Screen # Unset
  /\ ScrollFrame \subseteq Region /\ FontString \subseteq Region
  /\ Xml \subseteq Region
  /\ Size \subseteq BOOLEAN \X BOOLEAN /\ MaxPoints \in Nat

VARIABLES
  made,               \* the regions there are
  loading,            \* those whose XML is evaluated now, the innermost first
  points,             \* Region -> Point -> what the point is relative to
  anchoredBy,         \* Region -> Region -> how many of its points are on it
  dirty,              \* the regions so marked
  valid,              \* the others that have a rectangle, IsRectValid
  wide, tall,         \* the regions whose width, height is not 0
  uses,               \* history: Region -> what its rectangle was computed from
  cleared             \* history: regions that had a point cleared since then

vars == <<made, loading, points, anchoredBy, dirty, valid, wide, tall, uses, cleared>>

Anchors(r) == {points[r][p] : p \in Point} \cap Region

Init ==
  /\ made = Region \ Xml /\ loading = <<>>
  /\ points = [r \in Region |-> [p \in Point |-> Unset]]
  /\ anchoredBy = [r \in Region |-> [d \in Region |-> 0]]
  /\ dirty = {} /\ valid = {}
  /\ wide = FontString /\ tall = FontString
  /\ uses = [r \in Region |-> {}] /\ cleared = {}

-----------------------------------------------------------------------------
(* dirty.lua *)

\* A variant with a slip in it: only direct dependents are marked.
DirtyFromShallow(r, by) ==
  IF r \in dirty THEN {} ELSE {r} \cup {x \in Region \ dirty : by[r][x] > 0}

\* What SetDirty(r) marks: r, and what is anchored to what it marks; it does
\* not go on from a region that is dirty already.
DirtyFrom(r, by) ==
  LET clean  == Region \ dirty
      next   == [x \in clean |-> {y \in clean : by[x][y] # 0}]
      closed == {S \in SUBSET clean : r \in S /\ \A x \in S : next[x] \subseteq S}
  IN  IF r \in dirty THEN {} ELSE {x \in clean : \A S \in closed : x \in S}

\* The rectangles of the regions marked count no more.
SetDirty(r, by) ==
  /\ dirty' = dirty \cup DirtyFrom(r, by)
  /\ LET marked == dirty' \ dirty IN
       /\ valid' = valid \ marked
       /\ uses' = [x \in Region |-> IF x \in marked THEN {} ELSE uses[x]]
       /\ cleared' = cleared \ marked

-----------------------------------------------------------------------------
(* points.lua *)

\* A variant with a slip in it: the anchor a point had keeps its count.
CountsLeft(by, r, old, new) ==
  [t \in Region |-> [by[t] EXCEPT ![r] = IF t = new THEN @ + 1 ELSE @]]

\* r's point moves from `old' to `new': one less on old, one more on new.
Counts(by, r, old, new) ==
  [t \in Region |-> [by[t] EXCEPT ![r] =
     IF t = old /\ t = new THEN @
     ELSE IF t = old THEN @ - 1
     ELSE IF t = new THEN @ + 1 ELSE @]]

\* A variant with a slip in it: only relativeTo's own points are looked at.
CycleCheckOneStep(r, t) == t # r /\ r \notin Anchors(t)

\* relativeTo is refused when it is r itself or depends on r: the search for
\* r from relativeTo along the anchors must come to an end without it.
CycleCheck(r, t) ==
  \E S \in SUBSET (Region \ {r}) :
    /\ t \in S
    /\ \A x \in S, p \in Point : points[x][p] \in S \cup {Screen, Unset}

\* One point of r is set, without a look at where that leads.
SetPointInternal(r, p, t) ==
  /\ points' = [points EXCEPT ![r][p] = t]
  /\ anchoredBy' = Counts(anchoredBy, r, points[r][p], t)
  /\ SetDirty(r, anchoredBy')
  /\ UNCHANGED <<made, loading, wide, tall>>

\* Both corners, in one call, unchecked too.
Corners == {"TOPLEFT", "BOTTOMRIGHT"}

SetAllPointsInternal(r, t) ==
  /\ Corners \subseteq Point
  /\ points' = [points EXCEPT ![r]["TOPLEFT"] = t, ![r]["BOTTOMRIGHT"] = t]
  /\ anchoredBy' = Counts(Counts(anchoredBy, r, points[r]["TOPLEFT"], t),
                          r, points[r]["BOTTOMRIGHT"], t)
  /\ SetDirty(r, anchoredBy')
  /\ UNCHANGED <<made, loading, wide, tall>>

\* The argument may be a region, a name for one, nil or left out (the
\* parent): a target of the call that is a region has passed the check.
Resolved(r, t) == t \in Region => CycleCheck(r, t)

SetPoint(r, p, t) == Resolved(r, t) /\ SetPointInternal(r, p, t)

SetAllPoints(r, t) == Resolved(r, t) /\ SetAllPointsInternal(r, t)

\* ClearPoint marks nothing dirty: the cached rectangle stays as it is.
ClearPoint(r, p) ==
  /\ points[r][p] # Unset
  /\ points' = [points EXCEPT ![r][p] = Unset]
  /\ anchoredBy' = Counts(anchoredBy, r, points[r][p], Unset)
  /\ cleared' = cleared \cup ({r} \ dirty)
  /\ UNCHANGED <<made, loading, dirty, valid, wide, tall, uses>>

\* The count of the points of r on t.
PointsOn(r, t) == Cardinality({p \in Point : points[r][p] = t})

ClearedCounts(by, r) == [t \in Region |-> [by[t] EXCEPT ![r] = @ - PointsOn(r, t)]]

\* A variant with a slip in it: the rectangle is not marked.
ClearAllPointsQuietly(r) ==
  /\ points' = [points EXCEPT ![r] = [p \in Point |-> Unset]]
  /\ anchoredBy' = ClearedCounts(anchoredBy, r)
  /\ UNCHANGED <<made, loading, dirty, valid, wide, tall, uses, cleared>>

\* A variant with a slip in it: the points stay after their counts are gone.
ClearAllPointsUnwiped(r) ==
  /\ anchoredBy' = ClearedCounts(anchoredBy, r)
  /\ SetDirty(r, anchoredBy')
  /\ UNCHANGED <<made, loading, points, wide, tall>>

ClearAllPoints(r) ==
  /\ points' = [points EXCEPT ![r] = [p \in Point |-> Unset]]
  /\ anchoredBy' = ClearedCounts(anchoredBy, r)
  /\ SetDirty(r, anchoredBy')
  /\ UNCHANGED <<made, loading, wide, tall>>

\* SetScrollChild(s, c): c loses its points and is anchored to s, unchecked.
\* (The reparenting it also does leaves anchors and rectangles alone.)
SetScrollChild(s, c) ==
  /\ s # c /\ "TOPLEFT" \in Point
  /\ points' = [points EXCEPT ![c] =
                  [p \in Point |-> IF p = "TOPLEFT" THEN s ELSE Unset]]
  /\ anchoredBy' = Counts(ClearedCounts(anchoredBy, c), c, Unset, s)
  /\ SetDirty(c, ClearedCounts(anchoredBy, c))
  /\ UNCHANGED <<made, loading, wide, tall>>

-----------------------------------------------------------------------------
(* xmleval.lua *)

\* CreateUIObject for an element, or for a template: within another's, or in
\* a call of a script that runs in it.
Load(r) ==
  /\ r \notin made
  /\ made' = made \cup {r} /\ loading' = <<r>> \o loading
  /\ UNCHANGED <<points, anchoredBy, dirty, valid, wide, tall, uses, cleared>>

\* The elements of the innermost region.  Only the region itself is refused.
Evaluated(r, t) == loading # <<>> /\ r = Head(loading) /\ t # r

\* <Anchor>, and a font string that has no points is put on its parent.
XmlAnchor(r, p, t) == Evaluated(r, t) /\ SetPointInternal(r, p, t)

\* setAllPoints, and a texture that has no points is put on its parent.
XmlAllPoints(r, t) == Evaluated(r, t) /\ SetAllPointsInternal(r, t)

\* The last phase of the innermost region is over.
Loaded ==
  /\ loading # <<>> /\ loading' = Tail(loading)
  /\ UNCHANGED <<made, points, anchoredBy, dirty, valid, wide, tall, uses, cleared>>

-----------------------------------------------------------------------------
(* region.lua *)

\* A call that changes a side marks the region; one that does not is no step.
SetSize(r, w, h) ==
  /\ w \/ h \/ r \in wide \cup tall
  /\ wide' = IF w \/ r \in FontString THEN wide \cup {r} ELSE wide \ {r}
  /\ tall' = IF h \/ r \in FontString THEN tall \cup {r} ELSE tall \ {r}
  /\ SetDirty(r, anchoredBy)
  /\ UNCHANGED <<made, loading, points, anchoredBy>>

\* The points tried, in turn, for each line of the rectangle.
Alternatives ==
  [by |-> <<"BOTTOMLEFT", "BOTTOM", "BOTTOMRIGHT">>,
   lx |-> <<"TOPLEFT", "LEFT", "BOTTOMLEFT">>,
   rx |-> <<"TOPRIGHT", "RIGHT", "BOTTOMRIGHT">>,
   ty |-> <<"TOPLEFT", "TOP", "TOPRIGHT">>,
   mx |-> <<"TOP", "CENTER", "BOTTOM">>,
   my |-> <<"LEFT", "CENTER", "RIGHT">>]

IsSet(r, p) == p \in Point /\ points[r][p] # Unset

\* A point can be used when it is relative to the screen or to a region in V,
\* the set of those whose rectangle is known.
Usable(r, p, V) == IsSet(r, p) /\ (points[r][p] = Screen \/ points[r][p] \in V)

Line(r, line, V) == \E i \in 1 .. 3 : Usable(r, Alternatives[line][i], V)

\* The regions that validate(r) asks for their rectangles: for each line
\* those of the points set, up to the first that can be used.
Consulted(r, V) ==
  {x \in Region :
     \E line \in DOMAIN Alternatives, i \in 1 .. 3 :
       LET alt == Alternatives[line] IN
         /\ IsSet(r, alt[i]) /\ points[r][alt[i]] = x
         /\ \A k \in 1 .. i - 1 : ~Usable(r, alt[k], V)}

\* Whether all four sides come out.
Complete(r, V) ==
  LET has(line) == Line(r, line, V)
      w  == r \in wide \/ (has("mx") /\ (has("rx") \/ has("lx")))
      h  == r \in tall \/ (has("my") /\ (has("ty") \/ has("by")))
  IN  /\ has("by") \/ (has("ty") /\ h) \/ (has("my") /\ h)
      /\ has("lx") \/ (has("rx") /\ w) \/ (has("mx") /\ w)
      /\ has("rx") \/ (has("lx") /\ w) \/ (has("mx") /\ w)
      /\ has("ty") \/ (has("by") /\ h) \/ (has("my") /\ h)

\* No set of regions in which each is anchored to one of the set.
Acyclic ==
  \A S \in SUBSET Region :
    S # {} => \E x \in S : \A p \in Point : points[x][p] \notin S

\* The regions with a rectangle when the dirty ones are worked out from V.
Worked(V) == {r \in Region : IF r \in dirty THEN Complete(r, V) ELSE r \in valid}

\* The regions validate(r) goes through: r and, from each of them, the
\* dirty ones consulted.
Validated(r, V) ==
  LET next == [y \in dirty |-> Consulted(y, V) \cap dirty]
  IN  {x \in dirty : \A S \in SUBSET dirty :
         r \in S /\ (\A y \in S : next[y] \subseteq S) => x \in S}

\* GetRect and the other readers.  V is what has a rectangle once all that is
\* dirty is worked out: without cycles there is one such set.  On a cycle the
\* code goes on with the rectangle a region had before; that is left out.
GetRect(r) ==
  /\ r \in dirty /\ Acyclic
  /\ \E V \in SUBSET Region :
       /\ V = Worked(V)
       /\ dirty' = dirty \ Validated(r, V)
       /\ LET K == dirty \ dirty' IN
            /\ valid' = valid \cup (K \cap V)
            /\ uses' = [x \in Region |-> IF x \in K THEN Consulted(x, V) ELSE uses[x]]
  /\ UNCHANGED <<made, loading, points, anchoredBy, wide, tall, cleared>>

\* The points set; whether k more may be.
AllSet == {rp \in Region \X Point : points[rp[1]][rp[2]] # Unset}
Room(k) == Cardinality(AllSet) + k <= MaxPoints

Next ==
  \/ /\ Room(1)
     /\ \E r \in made, p \in Point, t \in made \cup {Screen} :
          SetPoint(r, p, t) \/ XmlAnchor(r, p, t)
  \/ /\ Room(2)
     /\ \E r \in made, t \in made \cup {Screen} :
          SetAllPoints(r, t) \/ XmlAllPoints(r, t)
  \/ \E r \in made, p \in Point : ClearPoint(r, p)
  \/ \E r \in made : ClearAllPoints(r) \/ GetRect(r)
  \/ \E r \in made, s \in Size : SetSize(r, s[1], s[2])
  \/ Room(1) /\ \E s \in ScrollFrame \cap made, c \in made : SetScrollChild(s, c)
  \/ \E r \in Xml : Load(r)
  \/ Loaded

Spec == Init /\ [][Next]_vars

-----------------------------------------------------------------------------
(* Properties *)

\* The types of the variables.
TypeOK ==
  /\ made \subseteq Region /\ loading \in Seq(made)
  /\ points \in [Region -> [Point -> Region \cup {Screen, Unset}]]
  /\ anchoredBy \in [Region -> [Region -> Nat]]
  /\ dirty \subseteq Region /\ valid \subseteq Region
  /\ wide \subseteq Region /\ tall \subseteq Region
  /\ uses \in [Region -> SUBSET Region] /\ cleared \subseteq Region

\* anchoredBy is the exact reverse of the points, several points of one
\* region on the same other region counted (points.lua:47-67, 161-173): a
\* count too low loses a dependent, one too high keeps it for ever.
RefCounts == \A r, t \in Region : anchoredBy[t][r] = PointsOn(r, t)

\* The calls that set a point without the check of points.lua:102-128.
Unchecked ==
  \/ \E s \in ScrollFrame, c \in Region : SetScrollChild(s, c)
  \/ \E p \in Point, t \in Region : XmlAnchor(Head(loading), p, t)
  \/ \E t \in Region : XmlAllPoints(Head(loading), t)

\* A cycle of anchors is only ever closed by SetScrollChild and, on the region
\* whose XML is being evaluated, by XML: the search of points.lua:102-128 is
\* enough in SetPoint and SetAllPoints, with any number of regions in between,
\* and nothing that a script, another call or the end of loading does closes one.
OnlyUncheckedCloses == [][Acyclic => Acyclic' \/ Unchecked]_vars

\* A region that is not dirty has its rectangle from regions that are not
\* dirty either, and it is still anchored to them: whatever marks them will
\* mark it.  SetDirty stops at dirty regions, so this must never fail.  (A
\* region that had a point cleared keeps its rectangle on purpose.)
CleanOnClean ==
  \A r \in Region \ (dirty \cup cleared) :
    uses[r] \subseteq Anchors(r) \ dirty

\* What a region that is not dirty says of its rectangle is what computing
\* it again would say, from the same regions.
RectsCurrent ==
  \A r \in Region \ (dirty \cup cleared) :
    /\ r \in valid <=> Complete(r, valid \ dirty)
    /\ uses[r] = Consulted(r, valid \ dirty)

\* A region is marked dirty whenever what its rectangle was worked out from
\* changes, however far away (SetDirty stops at dirty regions).
CleanRects == CleanOnClean /\ RectsCurrent

\* The error of SetPoint says that a region cannot be anchored to one that
\* depends on it (points.lua:41).
NoDependenceOnItself == Acyclic

=============================================================================
