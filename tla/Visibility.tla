----------------------------- MODULE Visibility -----------------------------
(***************************************************************************)
(* Parents, children and what is visible: src/wowless/modules/             *)
(* visibility.lua, SetParent of uiobjects.lua and CreateUIObject of        *)
(* xmleval.lua as far as it runs OnLoad and OnShow.                        *)
(*                                                                         *)
(* Whether an object is visible follows from the flags `shown' at once;    *)
(* the scripts that tell of it run afterwards, one by one, in a walk over  *)
(* the lists of regions and children as they are.  A script may show, hide *)
(* and move whatever it likes, also what is being walked.                  *)
(***************************************************************************)
EXTENDS HList, FiniteSets

CONSTANTS Frames, Regions,
          NoParent,
          Trees,              \* the parents to start with: functions of some objects
          MaxChanges          \* bound: calls of scripts and of the host

ASSUME VisibilityAssumption ==
  /\ NoParent \notin Frames \cup Regions /\ Frames \cap Regions = {}
  /\ \A t \in Trees :
       /\ DOMAIN t \subseteq Frames \cup Regions
       /\ \A o \in DOMAIN t : t[o] \in (Frames \cap DOMAIN t) \cup {NoParent}
       /\ \A S \in SUBSET DOMAIN t : S # {} => \E o \in S : t[o] \notin S

VARIABLES
  parent,             \* object -> frame or NoParent, for what has been created
  children, regions,  \* frame -> hash list
  flagged,            \* the objects with `shown'
  updates,            \* walks and creations in progress, the innermost last
  changes,            \* calls so far
  told,               \* history: which of OnShow and OnHide an object ran last
  disturbed           \* history: a script meddled with a walk in progress

tree == <<parent, children, regions>>
visibility == <<tree, flagged, updates, changes, told, disturbed>>

UIObject == Frames \cup Regions
Created == DOMAIN parent

\* x and all that is above it
Above(x) ==
  LET closed == {S \in SUBSET Created :
                   x \in S /\ \A o \in S : parent[o] \in S \cup {NoParent}}
  IN  {o \in Created : \A S \in closed : o \in S}

\* An object without a parent needs only its own flag.
IsVisible(x) == x # NoParent => Above(x) \subseteq flagged

Told(visible) == IF visible THEN "OnShow" ELSE "OnHide"

SX == INSTANCE SequencesExt

\* A list of the elements of S, inserted in some order.
HListOf(S) ==
  LET list == SX!SetToSeq(S)
  IN  [list |-> list, set |-> [o \in S |-> CHOOSE i \in DOMAIN list : list[i] = o]]

KidsOf(f, S) == {o \in DOMAIN parent \cap S : parent[o] = f}

VisibilityInit ==
  /\ parent \in Trees /\ flagged \in SUBSET DOMAIN parent
  /\ children = [f \in Frames |-> HListOf(KidsOf(f, Frames))]
  /\ regions = [f \in Frames |-> HListOf(KidsOf(f, Regions))]
  /\ updates = <<>> /\ changes = 0 /\ disturbed = FALSE
  /\ told = [o \in UIObject |-> Told(o \in Created /\ IsVisible(o))]

-----------------------------------------------------------------------------
(* Calls: by a script that runs, or by the host when nothing is going on. *)

Innermost == updates[Len(updates)]
Outer == SubSeq(updates, 1, Len(updates) - 1)

Begin(o, script, phase) ==
  [obj |-> o, script |-> script, phase |-> phase, first |-> TRUE, cur |-> o,
   running |-> phase \in {"self", "load"}]

Change ==
  /\ changes < MaxChanges
  /\ updates # <<>> => Innermost.running
  /\ changes' = changes + 1

Walking(u) == u.phase \in {"regions", "children"}

\* The call is about what a walk is under way in, or takes something away from
\* it: it makes a walked frame, or one above it, visible or invisible, moves
\* something below it, or hides something that has not heard OnHide yet.
Meddles(o, moves, hides) ==
  \E i \in DOMAIN updates :
    LET u == updates[i]
    IN  /\ Walking(u)
        /\ \/ o \in Above(u.obj)
           \/ u.obj \in Above(o) /\ (moves \/ (hides /\ u.script = "OnHide"))

\* Regions have no lists of their own, their script runs at once.
UpdateVisible(o, visible) ==
  IF o \in Frames
  THEN /\ updates' = Append(updates, Begin(o, Told(visible), "regions"))
       /\ UNCHANGED told
  ELSE /\ updates' = Append(updates, Begin(o, Told(visible), "self"))
       /\ told' = [told EXCEPT ![o] = Told(visible)]

\* Show and Hide; nothing happens unless the flag changes.
SetShown(o, shown) ==
  /\ Change /\ o \in Created
  /\ shown # (o \in flagged)
  /\ flagged' = IF shown THEN flagged \cup {o} ELSE flagged \ {o}
  /\ IF IsVisible(parent[o]) THEN UpdateVisible(o, shown) ELSE UNCHANGED <<updates, told>>
  /\ disturbed' = (disturbed \/ Meddles(o, FALSE, ~shown))
  /\ UNCHANGED tree

\* A variant with a slip in it: the old parent keeps the object.
MovedTwice(lists, o, p) ==
  [f \in Frames |-> IF f = p THEN Insert(lists[f], o) ELSE lists[f]]

\* The lists once o is in that of p.
Moved(lists, o, p) ==
  [f \in Frames |->
     CASE f = p -> Insert(lists[f], o)
       [] f # p /\ o \in DOMAIN parent /\ f = parent[o] -> Remove(lists[f], o)
       [] OTHER -> lists[f]]

DoSetParent(o, p) ==
  /\ parent' = [x \in Created \cup {o} |-> IF x = o THEN p ELSE parent[x]]
  /\ children' = IF o \in Frames THEN Moved(children, o, p) ELSE children
  /\ regions' = IF o \in Regions THEN Moved(regions, o, p) ELSE regions

\* A variant with a slip in it: the scripts are for a parent with other flag.
ToldByFlag(o, p) == o \in flagged /\ (parent[o] \in flagged) # (p \in flagged)

\* The move makes o visible or invisible.
ToldByMove(o, p) == o \in flagged /\ IsVisible(parent[o]) # IsVisible(p)

\* SetParent; a loop of parents would end the program.
SetParent(o, p) ==
  /\ Change /\ o \in Created /\ p \in (Frames \cap Created) \cup {NoParent}
  /\ p # NoParent => o \notin Above(p)
  /\ parent[o] # p
  /\ DoSetParent(o, p)
  /\ IF ToldByMove(o, p) THEN UpdateVisible(o, IsVisible(p)) ELSE UNCHANGED <<updates, told>>
  /\ disturbed' = (disturbed \/ Meddles(o, TRUE, FALSE))
  /\ UNCHANGED flagged

\* CreateUIObject, from Lua or XML: the object is in its parent's list before
\* any script runs; `hidden' is the attribute.  What runs then makes the children
\* of its templates, each with scripts of its own, and is its OnLoad.
CreateUIObject(o, p, hidden) ==
  /\ Change /\ o \notin Created /\ p \in (Frames \cap Created) \cup {NoParent}
  /\ DoSetParent(o, p)
  /\ flagged' = IF hidden THEN flagged ELSE flagged \cup {o}
  /\ updates' = Append(updates, Begin(o, "OnLoad", "load"))
  /\ UNCHANGED <<told, disturbed>>

-----------------------------------------------------------------------------
(* The steps of DoUpdateVisible and the end of CreateUIObject. *)

Ready == updates # <<>> /\ ~Innermost.running

Goes(u) == updates' = Append(Outer, u)

ScriptReturns ==
  /\ updates # <<>> /\ Innermost.running
  /\ IF Innermost.phase = "self" THEN updates' = Outer
     ELSE Goes([Innermost EXCEPT !.running = FALSE])
  /\ UNCHANGED told

\* A created object that is visible hears of it.
Loaded ==
  /\ Ready /\ Innermost.phase = "load"
  /\ LET o == Innermost.obj
     IN IF IsVisible(o)
        THEN Goes(Begin(o, "OnShow", "self")) /\ told' = [told EXCEPT ![o] = "OnShow"]
        ELSE updates' = Outer /\ UNCHANGED told

\* The next region runs the script if it is shown by now.
NextRegion ==
  /\ Ready /\ Innermost.phase = "regions"
  /\ LET u == Innermost
         r == NextEntry(regions[u.obj], u.first, u.cur)
     IN /\ HasNext(regions[u.obj], u.first, u.cur)
        /\ Goes([u EXCEPT !.first = FALSE, !.cur = r, !.running = r \in flagged])
        /\ told' = IF r \in flagged THEN [told EXCEPT ![r] = u.script] ELSE told

RegionsDone ==
  /\ Ready /\ Innermost.phase = "regions"
  /\ ~HasNext(regions[Innermost.obj], Innermost.first, Innermost.cur)
  /\ Goes([Innermost EXCEPT !.phase = "children", !.first = TRUE])
  /\ UNCHANGED told

\* The next child, if shown by now, is walked itself.
NextChild ==
  /\ Ready /\ Innermost.phase = "children"
  /\ LET u == Innermost
         k == NextEntry(children[u.obj], u.first, u.cur)
         on == [u EXCEPT !.first = FALSE, !.cur = k]
     IN /\ HasNext(children[u.obj], u.first, u.cur)
        /\ updates' = Append(Outer, on)
                        \o (IF k \in flagged THEN <<Begin(k, u.script, "regions")>> ELSE <<>>)
  /\ UNCHANGED told

\* In the end the frame runs the script, whatever its own flag says by now.
ChildrenDone ==
  /\ Ready /\ Innermost.phase = "children"
  /\ ~HasNext(children[Innermost.obj], Innermost.first, Innermost.cur)
  /\ Goes([Innermost EXCEPT !.phase = "self", !.running = TRUE])
  /\ told' = [told EXCEPT ![Innermost.obj] = Innermost.script]

UpdateStep ==
  /\ ScriptReturns \/ Loaded \/ NextRegion \/ RegionsDone \/ NextChild \/ ChildrenDone
  /\ UNCHANGED <<tree, flagged, changes, disturbed>>

VisibilityNext ==
  \/ \E o \in UIObject, b \in BOOLEAN : SetShown(o, b)
  \/ \E o \in UIObject, p \in Frames \cup {NoParent} : SetParent(o, p)
  \/ \E o \in UIObject, p \in Frames \cup {NoParent}, b \in BOOLEAN : CreateUIObject(o, p, b)
  \/ UpdateStep

-----------------------------------------------------------------------------
(* Properties *)

\* Unless a script meddles with a walk that is under way, the script an object
\* ran last tells the truth when all is over, and one that says otherwise
\* than the last is true when it starts, whatever scripts show, hide, make and
\* move besides (visibility.lua, uiobjects.lua:97-103).
ScriptsTell ==
  /\ [](updates = <<>> /\ ~disturbed => \A o \in Created : told[o] = Told(IsVisible(o)))
  /\ [][~disturbed' =>
          \A o \in Created : told'[o] # told[o] => told'[o] = Told(IsVisible(o)')]_visibility

\* An object is in the one list of its parent that is for its kind, and in no
\* other, and no chain of parents closes (DoSetParent, uiobjects.lua:25-46).
TreeAgrees ==
  /\ \A f \in Frames : Members(children[f]) = KidsOf(f, Frames)
  /\ \A f \in Frames : Members(regions[f]) = KidsOf(f, Regions)
  /\ \A o \in Created : parent[o] # NoParent => o \notin Above(parent[o])
=============================================================================
