-------------------------------- MODULE Tables --------------------------------
(***************************************************************************)
(* The tables of elune (ltable.c) and the library for them (ltablib.c).    *)
(*                                                                         *)
(* A table `h' has an array part and a hash part, whose nodes have a key,  *)
(* a value and the place of the next node of their chain; nodes are        *)
(* searched for a free one down from `lastfree'.  A key is <<"n", i>> or   *)
(* <<"s", name>>.                                                          *)
(*                                                                         *)
(* `contents' is what a program put into the table, `trav' a traversal     *)
(* with next, and `op' a function of the library on its way, one store     *)
(* into the table a step.                                                  *)
(***************************************************************************)
EXTENDS Integers, Sequences, FiniteSets, TLC

CONSTANTS MaxInt,     \* integer keys are 1 .. MaxInt
          StrKeys,    \* strings that are keys
          Hash,       \* [Keys -> Nat], of a number before the modulus of hashmod
          Inputs,     \* [Keys -> sets of values that programs store there], integers above 0
          MaxStores   \* bound: the stores and library calls of a program

VARIABLES h, contents, trav, op, stores

tvars == <<h, contents, trav, op, stores>>

NoValue == 0
NoKey == <<"none">>
N(i) == <<"n", i>>
Keys == {N(i) : i \in 1 .. MaxInt} \cup {<<"s", s>> : s \in StrKeys}
IsInt(k) == k[1] = "n"
DeadKey(k) == <<"dead", k>>

(***************************************************************************)
(* Search.                                                                 *)
(***************************************************************************)

\* mainposition: hashmod for numbers, hashpow2 for strings
Modulus(k, size) == IF IsInt(k) /\ size > 1 THEN size - 1 ELSE size
MainPosition(t, k) == 1 + (Hash[k] % Modulus(k, Len(t.node)))

InArray(t, k) == IsInt(k) /\ k[2] \in DOMAIN t.array

\* the place of one of the keys along the chain from node i, or 0
RECURSIVE Along(_, _, _)
Along(node, i, keys) ==
  IF i = 0 \/ node[i].key \in keys THEN i ELSE Along(node, node[i].next, keys)
NodeOf(t, k, keys) == IF t.node = <<>> THEN 0 ELSE Along(t.node, MainPosition(t, k), keys)

\* luaH_get, luaH_getnum and luaH_getstr
ValueAt(t, i) == IF i = 0 THEN NoValue ELSE t.node[i].value
Get(t, k) == IF InArray(t, k) THEN t.array[k[2]]
             ELSE IF k \in Keys THEN ValueAt(t, NodeOf(t, k, {k})) ELSE NoValue

\* the binary searches of luaH_getn and unbound_search
RECURSIVE Between(_, _, _), Unbound(_, _, _)
Between(t, i, j) ==
  IF j - i <= 1 THEN i
  ELSE IF Get(t, N((i + j) \div 2)) = NoValue THEN Between(t, i, (i + j) \div 2)
  ELSE Between(t, (i + j) \div 2, j)
Unbound(t, i, j) ==
  IF Get(t, N(j)) # NoValue THEN Unbound(t, j, 2 * j) ELSE Between(t, i, j)

\* luaH_getn: a border in the array part, or beyond it
GetN(t) ==
  LET j == Len(t.array)
  IN CASE j > 0 /\ t.array[j] = NoValue -> Between(t, 0, j)
       [] t.node = <<>> /\ (j > 0 => t.array[j] # NoValue) -> j
       [] OTHER -> Unbound(t, j, j + 1)

(***************************************************************************)
(* Insertion.                                                              *)
(***************************************************************************)

RECURSIVE SetIn(_, _, _), Reinsert(_, _)

EmptyNode == [key |-> NoKey, value |-> NoValue, next |-> 0]
NodeVector(size) == [i \in 1 .. size |-> EmptyNode]

\* twoto(ceillog2(size)), or no nodes
PowersOf2 == {2 ^ i : i \in 0 .. 5}
SizeFor(size) ==
  IF size = 0 THEN 0
  ELSE CHOOSE p \in PowersOf2 : p >= size /\ \A q \in PowersOf2 : q >= size => q >= p

\* numusearray, numusehash and the extra key
LiveNodes(t) == {i \in DOMAIN t.node : t.node[i].value # NoValue}
LiveKeys(t) ==
  {N(i) : i \in {i \in DOMAIN t.array : t.array[i] # NoValue}}
    \cup {t.node[i].key : i \in LiveNodes(t)}
Ints(keys) == {k[2] : k \in {k \in keys : IsInt(k)}}
UpTo(ints, n) == Cardinality({i \in ints : i <= n})

\* computesizes: the largest power of 2 of which more than half is in use
ArraySize(ints) ==
  LET fit == {p \in PowersOf2 : /\ p \div 2 < Cardinality(ints)
                                /\ \E i \in ints : p \div 2 < i /\ i <= p
                                /\ UpTo(ints, p) > p \div 2}
  IN IF fit = {} THEN 0 ELSE CHOOSE p \in fit : \A q \in fit : q <= p

\* resize: the values beyond the array and those of the old nodes, from the
\* last one, are inserted again
Vanishing(t, na) ==
  SelectSeq([i \in 1 .. Len(t.array) - na |-> <<N(na + i), t.array[na + i]>>],
            LAMBDA e : e[2] # NoValue)
OldNodes(t) ==
  SelectSeq([i \in DOMAIN t.node |-> LET n == t.node[Len(t.node) + 1 - i] IN <<n.key, n.value>>],
            LAMBDA e : e[2] # NoValue)
Resized(t, na, nh) ==
  [array |-> [i \in 1 .. na |-> IF i \in DOMAIN t.array THEN t.array[i] ELSE NoValue],
   node |-> NodeVector(SizeFor(nh)), lastfree |-> SizeFor(nh) + 1]
Reinsert(t, entries) ==
  IF entries = <<>> THEN t
  ELSE Reinsert(SetIn(t, entries[1][1], entries[1][2]), Tail(entries))
Resize(t, na, nh) == Reinsert(Resized(t, na, nh), Vanishing(t, na) \o OldNodes(t))

\* rehash
SizedFor(t, keys, na) == Resize(t, na, Cardinality(keys) - UpTo(Ints(keys), na))
Rehash(t, k) ==
  SizedFor(t, LiveKeys(t) \cup {k}, ArraySize(Ints(LiveKeys(t) \cup {k})))

\* getfreepos: a node that never had a key
FreePos(t) ==
  LET free == {i \in DOMAIN t.node : i < t.lastfree /\ t.node[i].key = NoKey}
  IN IF free = {} THEN 0 ELSE CHOOSE i \in free : \A j \in free : j <= i

\* a variant with a slip in it: the chain of the moved node is cut before it
MoveUnlinked(t, mp, n, other, entry) ==
  [t EXCEPT !.node[n] = t.node[mp], !.node[mp] = entry, !.lastfree = n]

\* newkey, with the node in the main position out of its own
Previous(t, mp, other) ==
  Along([i \in DOMAIN t.node |-> [key |-> t.node[i].next, next |-> t.node[i].next]], other, {mp})
MoveColliding(t, mp, n, other, entry) ==
  [t EXCEPT !.node[Previous(t, mp, other)].next = n, !.node[n] = t.node[mp], !.node[mp] = entry,
            !.lastfree = n]

\* newkey
Collide(t, k, v, mp, n) ==
  LET other == MainPosition(t, t.node[mp].key)
  IN IF n = 0 THEN SetIn(Rehash(t, k), k, v)
     ELSE IF other # mp THEN MoveColliding(t, mp, n, other, [key |-> k, value |-> v, next |-> 0])
     ELSE [t EXCEPT !.node[n] = [key |-> k, value |-> v, next |-> t.node[mp].next],
                    !.node[mp].next = n, !.lastfree = n]
NewKeyAt(t, k, v, mp) ==
  IF t.node[mp].value # NoValue THEN Collide(t, k, v, mp, FreePos(t))
  ELSE [t EXCEPT !.node[mp] = [@ EXCEPT !.key = k, !.value = v]]
NewKey(t, k, v) ==
  IF t.node = <<>> THEN SetIn(Rehash(t, k), k, v) ELSE NewKeyAt(t, k, v, MainPosition(t, k))

\* luaH_set, luaH_setnum and luaH_setstr, and the store of the value
SetNode(t, k, v, i) == IF i = 0 THEN NewKey(t, k, v) ELSE [t EXCEPT !.node[i].value = v]
SetIn(t, k, v) ==
  IF InArray(t, k) THEN [t EXCEPT !.array[k[2]] = v] ELSE SetNode(t, k, v, NodeOf(t, k, {k}))

(***************************************************************************)
(* Programs.                                                               *)
(***************************************************************************)

NoTraversal == [on |-> FALSE, key |-> NoKey, seen |-> <<>>, due |-> {}, failed |-> FALSE]
Idle ==
  [name |-> "idle", key |-> NoKey, i |-> 0, to |-> 0, v |-> 0, ret |-> <<>>, want |-> <<>>, wantret |-> <<>>]

TablesInit ==
  /\ h = [array |-> <<>>, node |-> <<>>, lastfree |-> 1]
  /\ contents = [k \in Keys |-> NoValue]
  /\ trav = NoTraversal
  /\ op = Idle
  /\ stores = 0

Present == {k \in Keys : contents[k] # NoValue}

\* a store of a program: new keys, also those that get nil, end a traversal
Store(k, v) ==
  /\ h' = SetIn(h, k, v)
  /\ contents' = [contents EXCEPT ![k] = v]
  /\ trav' = IF k \notin Present \/ ~trav.on THEN NoTraversal
             ELSE IF v = NoValue THEN [trav EXCEPT !.due = @ \ {k}] ELSE trav

Act == op.name = "idle" /\ stores < MaxStores /\ stores' = stores + 1

AssignKey(k, v) == Act /\ Store(k, v) /\ UNCHANGED op

\* the collector makes keys without values dead (traversetable in lgc.c)
ClearKeys ==
  /\ op.name = "idle"
  /\ LET cleared == {i \in DOMAIN h.node : h.node[i].value = NoValue /\ h.node[i].key[1] = "s"}
     IN /\ cleared # {}
        /\ h' = [h EXCEPT !.node = [i \in DOMAIN @ |->
                   IF i \in cleared THEN [@[i] EXCEPT !.key = DeadKey(@)] ELSE @[i]]]
  /\ UNCHANGED <<contents, trav, op, stores>>

StartTraversal ==
  /\ op.name = "idle" /\ ~trav.on
  /\ trav' = [NoTraversal EXCEPT !.on = TRUE, !.due = Present]
  /\ UNCHANGED <<h, contents, op, stores>>

\* a variant with a slip in it: a dead key is not looked for
IndexOfLive(t, k) ==
  CASE k = NoKey -> 0
    [] k # NoKey /\ InArray(t, k) -> k[2]
    [] OTHER -> Len(t.array) + NodeOf(t, k, {k})

\* findindex: also of a key that is dead by now
IndexOf(t, k) ==
  CASE k = NoKey -> 0
    [] k # NoKey /\ InArray(t, k) -> k[2]
    [] OTHER -> Len(t.array) + NodeOf(t, k, {k, DeadKey(k)})

\* luaH_next, after the element with that index
Elements(t) ==
  [i \in 1 .. Len(t.array) + Len(t.node) |->
     IF i <= Len(t.array) THEN <<N(i), t.array[i]>>
     ELSE LET n == t.node[i - Len(t.array)] IN <<n.key, n.value>>]
After(elements, i) == {j \in i + 1 .. Len(elements) : elements[j][2] # NoValue}
Advance(elements, next) ==
  IF next = {} THEN [trav EXCEPT !.key = NoKey, !.on = FALSE]
  ELSE LET e == elements[CHOOSE j \in next : \A i \in next : j <= i]
       IN [trav EXCEPT !.key = e[1], !.seen = Append(@, e[1])]

NextOf ==
  /\ op.name = "idle" /\ trav.on
  /\ LET i == IndexOf(h, trav.key)
     IN trav' = IF trav.key # NoKey /\ ~InArray(h, trav.key) /\ i = Len(h.array)
                THEN [trav EXCEPT !.failed = TRUE, !.on = FALSE]
                ELSE Advance(Elements(h), After(Elements(h), i))
  /\ UNCHANGED <<h, contents, op, stores>>

(***************************************************************************)
(* The library.                                                            *)
(***************************************************************************)

Moved(to, from) == [contents EXCEPT ![N(to)] = contents[N(from)]]
List(i, n) == [j \in 1 .. n |-> contents[N(i + j - 1)]]
Ints1 == 1 .. MaxInt
ContentAt(k) == IF k \in Ints1 THEN contents[N(k)] ELSE NoValue

\* the contents with other values for the integers
WithInts(new(_)) == [k \in Keys |-> IF IsInt(k) THEN new(k[2]) ELSE contents[k]]

\* table_insert at pos, of length e - 1: i goes down from e
BeginInsert(pos, v) ==
  LET e == IF pos > GetN(h) + 1 THEN pos ELSE GetN(h) + 1
  IN /\ Act /\ e \in Ints1
     /\ op' = [Idle EXCEPT !.name = "insert", !.i = e, !.to = pos, !.v = v,
                 !.want = WithInts(LAMBDA i : CASE i = pos -> v
                                                [] pos < i /\ i <= e -> ContentAt(i - 1)
                              [] OTHER -> ContentAt(i))]
     /\ UNCHANGED <<h, contents, trav>>

StoreAt(i, v) == Store(N(i), v)

InsertStep ==
  /\ op.name = "insert" /\ UNCHANGED stores
  /\ IF op.i > op.to
     THEN StoreAt(op.i, Get(h, N(op.i - 1))) /\ op' = [op EXCEPT !.i = @ - 1]
     ELSE StoreAt(op.to, op.v) /\ op' = [op EXCEPT !.name = "done"]

\* table_remove at pos
BeginRemove(pos) ==
  LET e == GetN(h)
  IN /\ Act /\ pos \in 1 .. e
     /\ op' = [Idle EXCEPT !.name = "remove", !.i = pos, !.to = e, !.ret = <<Get(h, N(pos))>>,
                 !.wantret = <<ContentAt(pos)>>,
                 !.want = WithInts(LAMBDA i : CASE i = e -> NoValue
                                                [] pos <= i /\ i < e -> ContentAt(i + 1)
                              [] OTHER -> ContentAt(i))]
     /\ UNCHANGED <<h, contents, trav>>

RemoveStep ==
  /\ op.name = "remove" /\ UNCHANGED stores
  /\ IF op.i < op.to
     THEN StoreAt(op.i, Get(h, N(op.i + 1))) /\ op' = [op EXCEPT !.i = @ + 1]
     ELSE StoreAt(op.to, NoValue) /\ op' = [op EXCEPT !.name = "done"]

\* table_removemulti: count elements from index on
BeginRemoveMulti(index, count) ==
  LET length == GetN(h)
  IN /\ Act /\ length > 0 /\ index > 0 /\ index + count - 1 <= length
     /\ op' = [Idle EXCEPT !.name = "removemulti", !.i = index, !.to = length, !.v = count,
                 !.wantret = List(index, count),
                 !.want = WithInts(LAMBDA i :
                            CASE index <= i /\ i <= length - count -> ContentAt(i + count)
                              [] index <= i /\ i > length - count /\ i <= length -> NoValue
                              [] OTHER -> ContentAt(i))]
     /\ UNCHANGED <<h, contents, trav>>

\* a variant with a slip in it: the last element stays behind
ShiftedBefore(i) == IF i < op.to THEN Get(h, N(i)) ELSE NoValue

ShiftedFrom(i) == IF i <= op.to THEN Get(h, N(i)) ELSE NoValue
RemoveMultiStep ==
  /\ op.name = "removemulti" /\ UNCHANGED stores
  /\ IF op.i > op.to
     THEN op' = [op EXCEPT !.name = "done"] /\ UNCHANGED <<h, contents, trav>>
     ELSE /\ StoreAt(op.i, ShiftedFrom(op.i + op.v))
          /\ op' = [op EXCEPT !.i = @ + 1,
                      !.ret = IF Len(@) < op.v THEN Append(@, Get(h, N(op.i))) ELSE @]

\* table_wipe: the traversal goes on from keys it has removed
BeginWipe ==
  /\ Act
  /\ op' = [Idle EXCEPT !.name = "wipe", !.want = [k \in Keys |-> NoValue]]
  /\ UNCHANGED <<h, contents, trav>>

WipeStep ==
  /\ op.name = "wipe" /\ UNCHANGED stores
  /\ LET next == After(Elements(h), IndexOf(h, op.key))
         k == Elements(h)[CHOOSE j \in next : \A i \in next : j <= i][1]
     IN IF next = {} THEN op' = [op EXCEPT !.name = "done"] /\ UNCHANGED <<h, contents, trav>>
        ELSE Store(k, NoValue) /\ op' = [op EXCEPT !.key = k]

ReturnStep == op.name = "done" /\ op' = Idle /\ UNCHANGED <<h, contents, trav, stores>>

TablesNext ==
  \/ \E k \in Keys : \E v \in Inputs[k] \cup {NoValue} : AssignKey(k, v)
  \/ ClearKeys
  \/ StartTraversal
  \/ NextOf
  \/ \E pos \in Ints1 : \E v \in Inputs[N(pos)] : BeginInsert(pos, v)
  \/ InsertStep
  \/ \E pos \in Ints1 : BeginRemove(pos)
  \/ RemoveStep
  \/ \E index \in Ints1, count \in 0 .. MaxInt : BeginRemoveMulti(index, count)
  \/ RemoveMultiStep
  \/ BeginWipe
  \/ WipeStep
  \/ ReturnStep

TablesSpec == TablesInit /\ [][TablesNext]_tvars

(***************************************************************************)
(* Properties.                                                             *)
(***************************************************************************)

\* An element that is not in its main position collided with one that is in
\* its own (the main invariant that ltable.c states), so every live element
\* is on the chain of its main position.
Brent ==
  \A i \in LiveNodes(h) :
    LET mp == MainPosition(h, h.node[i].key)
    IN i # mp /\ h.node[mp].value # NoValue => MainPosition(h, h.node[mp].key) = mp

\* What a program put into a table is what it finds there, whatever was
\* moved between the two parts, moved out of its main position or hung on a
\* chain with dead keys, and the length is a border: an index with a value,
\* or 0, before one without (luaH_get, newkey, resize, luaH_getn).
TableMeans ==
  /\ \A k \in Keys : Get(h, k) = contents[k]
  /\ LET n == GetN(h)
     IN /\ n > 0 => n \in Ints1 /\ contents[N(n)] # NoValue
        /\ n + 1 \in Ints1 => contents[N(n + 1)] = NoValue
  /\ Brent

\* A traversal that assigns to, or clears, only fields that exist visits each
\* element once and all that are not removed, over collections that make the
\* cleared keys dead (luaH_next, findindex).
Traversal ==
  /\ ~trav.failed
  /\ \A i, j \in DOMAIN trav.seen : i # j => trav.seen[i] # trav.seen[j]
  /\ ~trav.on => trav.due \subseteq {trav.seen[i] : i \in DOMAIN trav.seen}

\* insert, remove, removemulti and wipe, element by element, do to the table
\* what they promise, and give back the elements removed in their order
LibraryDone == op.name = "done" => contents = op.want /\ op.ret = op.wantret
=============================================================================
