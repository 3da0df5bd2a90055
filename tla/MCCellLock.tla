----------------------------- MODULE MCCellLock -----------------------------
(***************************************************************************)
(* A top-level cell with two children, one of them split again: the        *)
(* smallest tree with siblings, cousins and three generations.             *)
(***************************************************************************)
EXTENDS CellLock, TLC

CONSTANTS top, left, right, leaf

MCCell == {top, left, right, leaf}

MCPath ==
  (top :> <<top>>) @@ (left :> <<left, top>>) @@ (right :> <<right, top>>)
    @@ (leaf :> <<leaf, left, top>>)
=============================================================================
