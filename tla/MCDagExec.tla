------------------------------ MODULE MCDagExec ------------------------------
(* A small pipeline in the shape of the shipped ones: a source that always   *)
(* runs, a check and a score cached by input hash, an insight whose input is *)
(* optional, and a fallback that runs after a failed check.                  *)
EXTENDS DagExec

CONSTANTS source, check, score, insight, fallback, o1, o2

MCStages == {source, check, score, insight, fallback}
MCEdges ==
  {[src |-> source, dst |-> check, input |-> "x", required |-> TRUE],
   [src |-> check, dst |-> score, input |-> "x", required |-> TRUE],
   [src |-> score, dst |-> insight, input |-> "x", required |-> FALSE]}
MCOrderDeps ==
  {[stage |-> check, dst |-> fallback, condition |-> "failure"],
   [stage |-> source, dst |-> insight, condition |-> "always"]}
MCCache ==
  [s \in MCStages |-> CASE s = source -> "never" [] s = insight -> "probabilistic"
                        [] OTHER -> "hash"]
\* What changes from run to run is what the source makes of the outside.
MCOutputs == [s \in MCStages |-> IF s = source THEN {o1, o2} ELSE {o1}]
=============================================================================
