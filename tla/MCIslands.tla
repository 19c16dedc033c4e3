----------------------------- MODULE MCIslands -----------------------------
(* p2 is best everywhere; the two meet in one cell of one island and have  *)
(* a cell each in the other, which is limited to one.                       *)
EXTENDS Islands, TLC

CONSTANTS left, small, c1, c2, p1, p2, m1, m2

MCIslandIds == {left, small}
MCPrograms == {p1, p2}
MCCellOf ==
  [i \in MCIslandIds |-> [p \in MCPrograms |-> IF i = small /\ p = p1 THEN c1 ELSE c2]]
MCScore == [i \in MCIslandIds |-> [p \in MCPrograms |-> IF p = p1 THEN 1 ELSE 2]]
MCMaxSize == [i \in MCIslandIds |-> IF i = small THEN 1 ELSE Unlimited]
MCSymmetry == Permutations({m1, m2})
=============================================================================
