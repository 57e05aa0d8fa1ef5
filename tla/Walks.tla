-------------------------------- MODULE Walks --------------------------------
(***************************************************************************)
(* Walks over hash lists whose bodies run foreign code, side by side: one  *)
(* loop with any body (HListWalk), and the nested loops of a visibility    *)
(* update with what scripts can do in them (Visibility).  They share the   *)
(* operations of HList and no state; `part' is the one that is at work.    *)
(***************************************************************************)
EXTENDS HListWalk, Visibility

VARIABLE part

WalksInit ==
  /\ part \in {"list", "tree"}
  /\ Init /\ VisibilityInit
  /\ part = "tree" => cur = CHOOSE v \in V : TRUE
  /\ part = "list" => parent = (CHOOSE t \in Trees : TRUE) /\ flagged = {}

ListWalk ==
  /\ part = "list" /\ Next
  /\ UNCHANGED <<part, visibility>>
TreeWalk ==
  /\ part = "tree" /\ VisibilityNext
  /\ UNCHANGED <<part, vars>>
WalksNext == ListWalk \/ TreeWalk
WalksSpec == WalksInit /\ [][WalksNext]_<<part, vars, visibility>>
=============================================================================
