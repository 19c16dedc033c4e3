---------------------------- MODULE MCParentRefresh ----------------------------
(* Instances of ParentRefresh for TLC: parents are the ids 1 and 2, so that    *)
(* two tasks can want both in opposite orders.                                 *)
EXTENDS ParentRefresh

TwoParents == {1, 2}
BothModes == {TRUE, FALSE}

\* States that differ in what no step or property reads again are the same: the
\* history of an overtaken parent or of the coalesced mode, and a snapshot whose
\* flip was decided.
MCView ==
  <<coalesce, state, holder, fresh, pc, par, targets, flip, overtaken,
    IF coalesce THEN {} ELSE current \ overtaken,
    [t \in Tasks |->
       IF pc[t] = "locking" \/ (~coalesce /\ pc[t] \in {"flipping", "awaiting", "reading", "mutating"})
       THEN [p \in Parents |-> IF p \in overtaken /\ pc[t] # "locking" THEN "DONE" ELSE seen[t][p]]
       ELSE Unseen]>>
=============================================================================
