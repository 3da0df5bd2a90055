---------------------------- MODULE MCTaskLock ----------------------------
(***************************************************************************)
(* A top-level cell with two children.  A task of every type and subtype:  *)
(* the ones on one cell on a child and on the top, the pairs on the two    *)
(* children.  GravityJob has the gravity tasks of one cell only.           *)
(***************************************************************************)
EXTENDS TaskLock, TLC

CONSTANTS top, left, right

MCCell == {top, left, right}

MCPath == (top :> <<top>>) @@ (left :> <<left, top>>) @@ (right :> <<right, top>>)

MCJob ==
  {[type |-> "self", subtype |-> s, ci |-> c, cj |-> c] :
     s \in SelfSubtype, c \in {top, left}}
  \cup {[type |-> "pair", subtype |-> s, ci |-> left, cj |-> right] :
          s \in PairSubtype}
  \cup {[type |-> k, subtype |-> "none", ci |-> left, cj |-> right] :
          k \in TypeOnly}
  \cup {[type |-> k, subtype |-> "none", ci |-> top, cj |-> top] :
          k \in TypeOnly \ OnPair}

GravityJob ==
  {[type |-> "self", subtype |-> s, ci |-> left, cj |-> left] :
     s \in {"grav", "external_grav"}}
  \cup {[type |-> "pair", subtype |-> "grav", ci |-> left, cj |-> right]}

ThreadSymmetry == Permutations(Thread)
=============================================================================
