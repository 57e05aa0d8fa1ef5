------------------------------- MODULE Sorting -------------------------------
(***************************************************************************)
(* table.sort of elune (ltablib.c), a quicksort, with orders that make     *)
(* sense and with orders that do not.                                      *)
(*                                                                         *)
(* A list `a' has its values in a.v, at the places 0 .. n + 1 of which the *)
(* first and the last are those next to the list, and a.ok is FALSE once   *)
(* sorting raised an error.                                                *)
(***************************************************************************)
EXTENDS Integers, Sequences, FiniteSets

CONSTANTS SortLists,   \* lists to sort, sequences of integers above 0
          Orders       \* [names -> sets of pairs <<v, w>> for which v < w], 0 for the nil
                       \* beyond a list

VARIABLES list, order, sorted

NothingSorted == [v |-> <<>>, ok |-> TRUE]

Lt(v, w) == <<v, w>> \in Orders[order]
Swap(a, i, j) == [a EXCEPT !.v = [@ EXCEPT ![i] = a.v[j], ![j] = a.v[i]]]
SwapIf(a, i, j) == IF Lt(a.v[j], a.v[i]) THEN Swap(a, i, j) ELSE a
Invalid(a) == [a EXCEPT !.ok = FALSE]

RECURSIVE SortRange(_, _, _), Up(_, _, _, _), Down(_, _, _, _), Partition(_, _, _, _, _)

\* repeat ++i until a[i] >= pivot, and --j until a[j] <= pivot; -1 for
\* the error of an order that is none
Up(a, i, u, pivot) ==
  IF ~Lt(a.v[i + 1], pivot) THEN i + 1
  ELSE IF i + 1 > u THEN -1 ELSE Up(a, i + 1, u, pivot)
Down(a, j, l, pivot) ==
  IF ~Lt(pivot, a.v[j - 1]) THEN j - 1
  ELSE IF j - 1 < l THEN -1 ELSE Down(a, j - 1, l, pivot)

\* a variant with a slip in it: the larger half starts one element late
HalvesLate(a, l, u, i) ==
  IF i - l < u - i THEN SortRange(SortRange(a, l, i - 1), i + 2, u)
  ELSE SortRange(SortRange(a, i + 1, u), l, i - 1)

\* the two halves, the smaller one first
Halves(a, l, u, i) ==
  IF i - l < u - i THEN SortRange(SortRange(a, l, i - 1), i + 1, u)
  ELSE SortRange(SortRange(a, i + 1, u), l, i - 1)

\* the loop of auxsort around the pivot in a[u - 1]
Meet(a, l, u, i, j) ==
  CASE i = -1 \/ j = -1 -> Invalid(a)
    [] i # -1 /\ j # -1 /\ j < i -> Halves(Swap(a, u - 1, i), l, u, i)
    [] i # -1 /\ j # -1 /\ j >= i -> Partition(Swap(a, i, j), l, u, i, j)
DownFrom(a, l, u, i, j) ==
  IF i = -1 THEN Invalid(a) ELSE Meet(a, l, u, i, Down(a, j, l, a.v[u - 1]))
Partition(a, l, u, i, j) == DownFrom(a, l, u, Up(a, i, u, a.v[u - 1]), j)

\* auxsort: the first, the middle and the last element get in order
Middled(a, l, u, m) ==
  IF u - l = 2 THEN a ELSE Partition(Swap(a, m, u - 1), l, u, l, u - 1)
Median(a, l, u, m) ==
  Middled(IF Lt(a.v[m], a.v[l]) THEN Swap(a, m, l) ELSE SwapIf(a, m, u), l, u, m)
EndsSorted(a, l, u) == IF u - l = 1 THEN a ELSE Median(a, l, u, (l + u) \div 2)
SortRange(a, l, u) == IF ~a.ok \/ l >= u THEN a ELSE EndsSorted(SwapIf(a, l, u), l, u)

\* table_sort
SortInit ==
  /\ list \in SortLists
  /\ order \in DOMAIN Orders
  /\ sorted = NothingSorted
SortTable ==
  /\ sorted = NothingSorted
  /\ LET n == Len(list)
         a == [v |-> [i \in 0 .. n + 1 |-> IF i \in 1 .. n THEN list[i] ELSE 0], ok |-> TRUE]
     IN sorted' = SortRange(a, 1, n)
  /\ UNCHANGED <<list, order>>

(***************************************************************************)
(* Properties.                                                             *)
(***************************************************************************)

Count(v, S) == [x \in {v[i] : i \in S} |-> Cardinality({i \in S : v[i] = x})]

\* an order by which elements are equal when neither is less
Elements_ == {list[i] : i \in DOMAIN list}
Sensible ==
  /\ \A x \in Elements_ : ~Lt(x, x)
  /\ \A x, y, z \in Elements_ : /\ Lt(x, y) /\ Lt(y, z) => Lt(x, z)
                                /\ Lt(x, z) => Lt(x, y) \/ Lt(y, z)

\* With an order that makes sense, table.sort raises no error, loses no
\* element and takes none in from beyond the list, and leaves no element
\* before a lesser one, in whatever order the smaller and the larger parts
\* are sorted and wherever the searches from both ends meet (auxsort).
Sorted ==
  sorted # NothingSorted /\ Sensible =>
    LET places == 1 .. Len(list)
    IN /\ sorted.ok
       /\ Count(sorted.v, places) = Count(list, DOMAIN list)
       /\ \A i, j \in places : i < j => ~Lt(sorted.v[j], sorted.v[i])
=============================================================================
