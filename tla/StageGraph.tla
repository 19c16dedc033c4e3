----------------------------- MODULE StageGraph -----------------------------
(***************************************************************************)
(* What one evaluation of a program by a DAG of stages promises, whatever  *)
(* schedules, caches or skips the stages (gigaevo/programs/dag): a stage   *)
(* is settled once per run, it counts as good only after everything it     *)
(* depends on was settled in this run and allowed it, a stage that was not *)
(* tried had a reason, and a run ends with every stage settled unless it   *)
(* is given up.                                                            *)
(***************************************************************************)
CONSTANTS
  Stages,     \* names of the stages
  Edges,      \* data-flow edges [src, dst, required]
  OrderDeps   \* execution-order dependencies [stage, dst, condition]

VARIABLES
  phase,    \* "idle", "running", "over", "gaveUp"
  settled,  \* stages that are settled in this run
  good      \* those of them that completed

vars == <<phase, settled, good>>

\* A dependency is met, or can no longer be met, given what is settled.
Met(dep, done, ok) ==
  /\ dep.stage \in done
  /\ dep.condition = "success" => dep.stage \in ok
  /\ dep.condition = "failure" => dep.stage \notin ok
Broken(dep, done, ok) == dep.stage \in done /\ ~Met(dep, done, ok)

\* The stage may be tried: all it waits for is settled, in its favour.
Allowed(s, done, ok) ==
  /\ \A e \in Edges : e.dst = s => /\ e.src \in done
                                   /\ e.required => e.src \in ok
  /\ \A d \in OrderDeps : d.dst = s => Met(d, done, ok)

\* The stage can never be tried in this run.
Blocked(s, done, ok) ==
  \/ \E e \in Edges : e.dst = s /\ e.required /\ e.src \in done \ ok
  \/ \E d \in OrderDeps : d.dst = s /\ Broken(d, done, ok)

Init == phase = "idle" /\ settled = {} /\ good = {}

Begin ==
  /\ phase \in {"idle", "over", "gaveUp"}
  /\ phase' = "running" /\ settled' = {} /\ good' = {}

\* Stages S become settled, of which G completed.
Settle(S, G) ==
  /\ phase = "running"
  /\ settled' = settled \cup S /\ good' = good \cup G
  /\ \A s \in S : \/ Allowed(s, settled', good')
                  \/ s \notin G /\ Blocked(s, settled', good')
  /\ UNCHANGED phase

Finish ==
  /\ phase = "running" /\ settled = Stages
  /\ phase' = "over" /\ UNCHANGED <<settled, good>>

\* Time-out, cancellation, or a kill.
GiveUp ==
  /\ phase = "running" /\ phase' \in {"gaveUp", "idle"}
  /\ IF phase' = "idle" THEN settled' = {} /\ good' = {}
                        ELSE UNCHANGED <<settled, good>>

\* The program is not looked at again, or its process is killed.
Forget ==
  /\ phase \in {"over", "gaveUp"}
  /\ phase' = "idle" /\ settled' = {} /\ good' = {}

Next ==
  \/ Begin \/ Finish \/ GiveUp \/ Forget
  \/ \E S \in SUBSET (Stages \ settled) : \E G \in SUBSET S : Settle(S, G)

Spec == Init /\ [][Next]_vars
=============================================================================
