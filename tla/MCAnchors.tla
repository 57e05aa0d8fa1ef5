----------------------------- MODULE MCAnchors -----------------------------
EXTENDS Anchors, TLC

\* Both sides set, or neither.
MCSize == {<<TRUE, TRUE>>, <<FALSE, FALSE>>}

\* The regions nothing tells apart.
Symm == Permutations(FontString)
=============================================================================
