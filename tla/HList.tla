------------------------------- MODULE HList -------------------------------
(***************************************************************************)
(* The hash list of src/wowless/hlist.lua: a set with an order.  A value   *)
(* is kept twice, in the array `list' and, with its slot, in the table     *)
(* `set'.  Removal moves the last value into the hole.  This module holds  *)
(* the operations as operators on a record; the modules that keep hash     *)
(* lists in their state extend it.                                         *)
(***************************************************************************)
EXTENDS Naturals, Sequences

EmptyHList == [list |-> <<>>, set |-> [x \in {} |-> 0]]

\* h:has(v)
Has(h, v) == v \in DOMAIN h.set

\* h:insert(v): a value already there keeps its slot.
Insert(h, v) ==
  IF Has(h, v) THEN h
  ELSE [list |-> Append(h.list, v),
        set  |-> [x \in DOMAIN h.set \cup {v} |->
                    IF x = v THEN Len(h.list) + 1 ELSE h.set[x]]]

\* A variant with a slip in it: the moved value keeps the slot it had.
RemoveStaleSlot(h, v) ==
  LET n    == Len(h.list)
  IN  IF ~Has(h, v) THEN h
      ELSE [list |-> [i \in 1 .. n - 1 |-> IF i = h.set[v] THEN h.list[n] ELSE h.list[i]],
            set  |-> [x \in DOMAIN h.set \ {v} |-> h.set[x]]]

\* A variant with a slip in it: the hole gets the number of the last slot.
RemoveStoringSlot(h, v) ==
  LET n == Len(h.list)
  IN  IF ~Has(h, v) THEN h
      ELSE [list |-> [i \in 1 .. n - 1 |-> IF i = h.set[v] THEN n ELSE h.list[i]],
            set  |-> [x \in DOMAIN h.set \ {v} |->
                        IF x = h.list[n] THEN h.set[v] ELSE h.set[x]]]

\* h:remove(v): the last value takes v's slot, then the last slot is dropped.
Remove(h, v) ==
  LET n    == Len(h.list)
      last == h.list[n]
  IN  IF ~Has(h, v) THEN h
      ELSE [list |-> [i \in 1 .. n - 1 |-> IF i = h.set[v] THEN last ELSE h.list[i]],
            set  |-> [x \in DOMAIN h.set \ {v} |->
                        IF x = last THEN h.set[v] ELSE h.set[x]]]

\* A variant with a slip in it: the loop stops before the last entry.
HasNextShort(h, first, v) ==
  IF first THEN h.list # <<>> ELSE Has(h, v) /\ h.set[v] + 1 < Len(h.list)

\* The generic-for step of h:entries(): `first' says that the control value
\* is still nil, `v' is the control value otherwise.  The step looks the
\* slot of v up again, so it follows v when v has moved, and it yields
\* nothing when v is gone or is the last entry.
HasNext(h, first, v) ==
  IF first THEN h.list # <<>> ELSE Has(h, v) /\ h.set[v] < Len(h.list)

NextEntry(h, first, v) == IF first THEN h.list[1] ELSE h.list[h.set[v] + 1]

Members(h) == DOMAIN h.set

=============================================================================
