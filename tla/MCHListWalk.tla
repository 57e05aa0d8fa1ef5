---------------------------- MODULE MCHListWalk ----------------------------
EXTENDS Walks, TLC

\* Four values: a list long enough for a removal to move an entry that the
\* loop has yielded, one it is at, and one it has still to reach.
CONSTANTS a, b, c, d
MCV == {a, b, c, d}

\* A frame with a child and a region, a chain of three with a region in the
\* middle, and a frame with two children.
CONSTANTS f1, f2, f3, r1
MCTrees ==
  {f1 :> NoParent @@ f2 :> f1 @@ r1 :> f1,
   f1 :> NoParent @@ f2 :> f1 @@ f3 :> f2 @@ r1 :> f2,
   f1 :> NoParent @@ f2 :> f1 @@ f3 :> f1}

=============================================================================
