--------------------------- MODULE MCMigrationBus ---------------------------
(* Three runs on one stream, as a full bus and as a ring.                  *)
EXTENDS MigrationBus, TLC
CONSTANTS a, b, c
MCRuns == {a, b, c}
MCRingOrder == <<a, b, c>>

\* States that differ in whether a run gave up a message that was claimed or
\* trimmed since are the same.
MCView ==
  <<topology, stream, oldest, claims, saved, node, imports, lapses, troubles,
    [r \in Runs |-> {m \in skipped[r] : m >= oldest /\ ~EverClaimed(m)}]>>
=============================================================================
