----------------------------- MODULE MCDagRunner -----------------------------
(* Small instances of the DAG runner: two programs are enough for one of     *)
(* them to complete, time out or be orphaned while the other one's task      *)
(* holds the batch both are in.                                              *)
EXTENDS DagRunner

\* States that differ in what no step or property looks at are the same: whether
\* the engine knows a program it leaves alone, the DONE and DISCARDED sets of a
\* program that is raced, and everything when no program is left of which the
\* sets promise anything.
MCView ==
  IF raced = Programs THEN <<>>
  ELSE <<blob, [s \in Status |-> IF s \in Settled THEN status[s] \ raced ELSE status[s]],
         schedVars, taskVars, boundVars, active, batch, stray, raced, known \ raced>>
=============================================================================
