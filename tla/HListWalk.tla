----------------------------- MODULE HListWalk -----------------------------
(***************************************************************************)
(* A loop over a hash list whose body may insert and remove entries of the *)
(* list it walks: the event dispatch loops, the region and child loops of  *)
(* a visibility update and the OnUpdate pass are all of this form.         *)
(***************************************************************************)
EXTENDS HList

CONSTANT V            \* the values that are ever in the list

VARIABLES
  h,                  \* the hash list
  walking,            \* a for loop over h:entries() is running
  first,              \* its control value is still nil
  cur,                \* its control value, the entry yielded last
  yielded,            \* history: what an undisturbed loop has yielded, in order
  undisturbed         \* history: no entry this loop has yielded was removed

vars == <<h, walking, first, cur, yielded, undisturbed>>

Yielded == {yielded[i] : i \in 1 .. Len(yielded)}

Init ==
  /\ h = EmptyHList
  /\ walking = FALSE /\ first = TRUE /\ cur \in V
  /\ yielded = <<>> /\ undisturbed = TRUE

Add(v) ==
  /\ h' = Insert(h, v)
  /\ UNCHANGED <<walking, first, cur, yielded, undisturbed>>

\* Once a yielded entry is gone the loop counts as disturbed and its
\* history is no longer kept.
Drop(v) ==
  /\ h' = Remove(h, v)
  /\ LET hit == walking /\ Has(h, v) /\ v \in Yielded IN
       /\ undisturbed' = (undisturbed /\ ~hit)
       /\ yielded' = IF hit THEN <<>> ELSE yielded
  /\ UNCHANGED <<walking, first, cur>>

StartWalk ==
  /\ ~walking
  /\ walking' = TRUE /\ first' = TRUE
  /\ yielded' = <<>> /\ undisturbed' = TRUE
  /\ UNCHANGED <<h, cur>>

Step ==
  /\ walking /\ HasNext(h, first, cur)
  /\ cur' = NextEntry(h, first, cur) /\ first' = FALSE
  /\ yielded' = IF undisturbed THEN Append(yielded, cur') ELSE yielded
  /\ UNCHANGED <<h, walking, undisturbed>>

EndWalk ==
  /\ walking /\ ~HasNext(h, first, cur)
  /\ walking' = FALSE
  /\ yielded' = <<>> /\ undisturbed' = TRUE
  /\ UNCHANGED <<h, first, cur>>

Next ==
  \/ \E v \in V : Add(v) \/ Drop(v)
  \/ StartWalk \/ Step \/ EndWalk

Spec == Init /\ [][Next]_vars

-----------------------------------------------------------------------------
(* Properties *)

\* The types of the variables.
TypeOK ==
  /\ h.list \in Seq(V) /\ DOMAIN h.set \subseteq V
  /\ h = [list |-> h.list, set |-> [x \in DOMAIN h.set |-> h.set[x]]]
  /\ walking \in BOOLEAN /\ first \in BOOLEAN /\ cur \in V
  /\ yielded \in Seq(V) /\ undisturbed \in BOOLEAN

\* The two halves of a hash list (hlist.lua, `list' and `set') describe the
\* same values: every slot holds a value whose recorded slot it is, and every
\* recorded slot holds its value.  The swap in remove has to update both.
Consistent ==
  /\ \A x \in DOMAIN h.set : h.set[x] \in 1 .. Len(h.list) /\ h.list[h.set[x]] = x
  /\ \A i \in 1 .. Len(h.list) : h.list[i] \in DOMAIN h.set /\ h.set[h.list[i]] = i

\* A loop none of whose yielded entries was removed has yielded exactly the
\* first entries of the list as it is now, each once and in order, whatever
\* was inserted and whichever entries still to come were removed
\* (hlist.lua, nextentry).
WalkIsPrefix ==
  walking /\ undisturbed =>
    /\ Len(yielded) <= Len(h.list)
    /\ \A i \in 1 .. Len(yielded) : yielded[i] = h.list[i]
    /\ (first <=> yielded = <<>>)
    /\ ~first => cur = yielded[Len(yielded)]

\* Such a loop ends only when every entry of the list has had its turn:
\* nothing present at the end was skipped.
EndIsComplete ==
  [][walking /\ ~walking' /\ undisturbed => Yielded = Members(h)]_vars

=============================================================================
