--------------------------- MODULE MCParentLineage ---------------------------
(* Three mutant tasks and a visit of an island to one parent.              *)
EXTENDS ParentLineage, TLC
CONSTANTS t1, t2, t3, v1
MCTasks == {t1, t2, t3}
MCVisits == {v1}
NoVisits == {}
MCSymmetry == Permutations(MCTasks)

\* States that differ in a copy nobody will use again are the same.
MCView ==
  <<coalesce, blob, holder, fresh, pc, runner, visit, meddled, recorded, due,
    [t \in Tasks |-> pc[t] \in {"locking", "refreshing"} /\ seen[t] = "DONE"],
    [t \in Tasks |-> pc[t] = "locking" /\ seen[t] = "DISCARDED"],
    [t \in Tasks |-> IF pc[t] \in {"flipping", "updating", "merging"} THEN copy[t] ELSE Fresh],
    [t \in Tasks |-> IF pc[t] = "merging" /\ t \notin dirty THEN base[t] ELSE Fresh],
    {t \in dirty : pc[t] = "merging"},
    IF runner = "idle" THEN Fresh ELSE launched,
    IF runner = "marking" THEN marking ELSE Fresh,
    [i \in Visits |-> IF visit[i] \in {"holding", "trimming"} THEN elite[i] ELSE Fresh]>>
=============================================================================
