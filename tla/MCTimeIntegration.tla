------------------------- MODULE MCTimeIntegration -------------------------
(* Two top-level cells. T1 is above the super-cell S1, which is split into  *)
(* the leaves L1 and L2; T2 is top-level cell, super-cell and leaf at once. *)
(* Three gas particles: b reaches a and c and a reaches b only, so that one *)
(* wakes the others across leaves and across super-cells.                   *)
EXTENDS TimeIntegration

CONSTANTS T1, S1, L1, L2, T2, a, b, c

MCParent == [x \in Cell |-> CASE x \in {L1, L2} -> S1
                              [] x = S1         -> T1
                              [] OTHER          -> x]
MCTasks == {{S1}, {T2}, {S1, T2}}
MCStarPairs == {<<T2, S1>>}
MCNgb == {<<a, b>>, <<b, a>>, <<b, c>>}
MCWishes == [x \in Part |-> CASE x = a -> {4} [] x = b -> {1, 2} [] x = c -> {2, 4}]
MCLayouts == {[x \in Part |-> CASE x = a -> L1 [] x = b -> L2 [] x = c -> T2],
              [x \in Part |-> CASE x = a -> L1 [] x = b -> T2 [] x = c -> L2]}
=============================================================================
