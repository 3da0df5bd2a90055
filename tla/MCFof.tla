------------------------------- MODULE MCFof -------------------------------
(***************************************************************************)
(* Six leaf cells; in the order of the gparts array, b has two particles   *)
(* (0, 1), and d, f, a, c and e have one each (2 to 6).  The tasks ab, cd  *)
(* and ef may run together, before or after ac and ce, which join what the *)
(* three work on.  The particles of MCLinked are close, 4 and 1 are not.   *)
(***************************************************************************)
EXTENDS Fof, TLC

CONSTANTS ab, cd, ef, ac, ce

MCTask == {ab, cd, ef, ac, ce}

MCCells ==
  (ab :> {"a", "b"}) @@ (cd :> {"c", "d"}) @@ (ef :> {"e", "f"})
  @@ (ac :> {"a", "c"}) @@ (ce :> {"c", "e"})

MCRows ==
  (ab :> <<[i |-> 4, js |-> <<0, 1>>]>>)
  @@ (cd :> <<[i |-> 5, js |-> <<2>>]>>)
  @@ (ef :> <<[i |-> 6, js |-> <<3>>]>>)
  @@ (ac :> <<[i |-> 4, js |-> <<5>>]>>)
  @@ (ce :> <<[i |-> 5, js |-> <<6>>]>>)

MCLinked == {<<4, 0>>, <<5, 2>>, <<4, 5>>, <<5, 6>>, <<6, 3>>}
=============================================================================
