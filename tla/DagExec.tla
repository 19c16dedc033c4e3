------------------------------- MODULE DagExec -------------------------------
(***************************************************************************)
(* The evaluation of one program by a DAG of stages: the loop of           *)
(* gigaevo/programs/dag/dag.py, the gates of dag/automata.py, and the      *)
(* execution and caching of a stage (stages/base.py,                       *)
(* stages/cache_handler.py), over the runs a program goes through when it  *)
(* is refreshed, times out, or its process is killed.                      *)
(*                                                                         *)
(* The loop body has no suspension point before asyncio.wait, so one Tick  *)
(* skips, consults caches and launches in one step; every stage task runs  *)
(* on its own.  Stage results live in memory and reach storage when a run  *)
(* is over.  Outputs are members of a small set, the hash of the inputs    *)
(* is the inputs; a stage with an output type never completes without one. *)
(***************************************************************************)
EXTENDS Naturals, FiniteSets

CONSTANTS
  Stages,      \* topology.nodes
  Edges,       \* data_flow_edges: [src, dst, input, required]
  OrderDeps,   \* exec_order_deps: [stage, dst, condition]
  Cache,       \* cache_handler of each stage: "hash", "never", "probabilistic"
  Outputs,     \* what each stage may produce
  MaxParallel, \* max_parallel_stages
  MaxRuns      \* bound: evaluations of the program

None == "none"  \* absent output or input

InputNames == {e.input : e \in Edges}
Preds(s) == {e.src : e \in {f \in Edges : f.dst = s}}
              \cup {d.stage : d \in {c \in OrderDeps : c.dst = s}}

\* What DAGValidator accepts: known stages, one edge per input of a stage, no
\* cycle through edges and dependencies together (a ranking exists).
Ranks == {r \in [Stages -> 0 .. Cardinality(Stages)] :
            \A s \in Stages : \A p \in Preds(s) : r[p] < r[s]}

ASSUME DagExecAssumption ==
  /\ IsFiniteSet(Stages) /\ Stages # {}
  /\ \A e \in Edges : e.src \in Stages /\ e.dst \in Stages /\ e.required \in BOOLEAN
  /\ \A e, f \in Edges : e.dst = f.dst /\ e.input = f.input => e = f
  /\ \A d \in OrderDeps : /\ d.stage \in Stages /\ d.dst \in Stages
                          /\ d.condition \in {"success", "failure", "always"}
  /\ Ranks # {}
  /\ Cache \in [Stages -> {"hash", "never", "probabilistic"}]
  /\ \A s \in Stages : None \notin Outputs[s]
  /\ MaxParallel \in Nat \ {0} /\ MaxRuns \in Nat

VARIABLES
  pc,        \* "idle", "tick", "wait", "over" or "aborted"
  results,   \* program.stage_results
  stored,    \* the stage results of the blob
  running,   \* stages with a pending task
  launched,  \* launched_this_run
  finished,  \* finished_this_run
  task,      \* the task of a stage: "none", "queued", "computing", "returned"
  attached,  \* the inputs it was created with
  outcome,   \* what it returned
  runs       \* runs so far

progress == <<running, launched, finished>>
taskVars == <<task, attached, outcome>>
vars == <<pc, results, stored, progress, taskVars, runs>>

-----------------------------------------------------------------------------

FinalStates == {"completed", "failed", "cancelled", "skipped"}
StageState == FinalStates \cup {"pending", "running"}
AllOutputs == UNION {Outputs[s] : s \in Stages}
NamedInputs == [InputNames -> AllOutputs \cup {None}]
Result == [status : StageState, output : AllOutputs \cup {None},
           hash : SUBSET NamedInputs]  \* at most one

Pending == [status |-> "pending", output |-> None, hash |-> {}]
Skipped == [status |-> "skipped", output |-> None, hash |-> {}]
Cancelled == [status |-> "cancelled", output |-> None, hash |-> {}]
Unhashed == [status |-> "failed", output |-> None, hash |-> {}]
NoInputs == [i \in InputNames |-> None]

\* build_named_inputs with the normalisation: an input nobody provides is None.
BuildInputs(s, res) ==
  [i \in InputNames |->
     IF \E e \in Edges : e.dst = s /\ e.input = i /\ res[e.src].status = "completed"
     THEN res[(CHOOSE e \in Edges : e.dst = s /\ e.input = i).src].output
     ELSE None]

\* A stage is final in this run, not merely since an earlier one.
FinalEver(s, res, fin) == res[s].status \in FinalStates
FinalNow(s, res, fin) == s \in fin /\ res[s].status \in FinalStates

Expected(d, res) ==
  CASE d.condition = "always"  -> TRUE
    [] d.condition = "success" -> res[d.stage].status = "completed"
    [] d.condition = "failure" -> res[d.stage].status \in {"failed", "cancelled", "skipped"}

\* _diagnose_stage: IMPOSSIBLE, READY, or neither (WAIT); below, without the
\* one or the other gate.
ImpossibleByOrder(s, res, fin) ==
  \E d \in OrderDeps : d.dst = s /\ FinalNow(d.stage, res, fin) /\ ~Expected(d, res)
Impossible(s, res, fin) ==
  \/ \E d \in OrderDeps : d.dst = s /\ FinalNow(d.stage, res, fin) /\ ~Expected(d, res)
  \/ \E e \in Edges : /\ e.dst = s /\ e.required /\ FinalNow(e.src, res, fin)
                      /\ res[e.src].status # "completed"
ReadyByData(s, res, fin) ==
  \A e \in Edges : e.dst = s => /\ FinalNow(e.src, res, fin)
                                /\ e.required => res[e.src].status = "completed"
Ready(s, res, fin) ==
  /\ \A d \in OrderDeps : d.dst = s => FinalNow(d.stage, res, fin) /\ Expected(d, res)
  /\ \A e \in Edges : e.dst = s => /\ FinalNow(e.src, res, fin)
                                   /\ e.required => res[e.src].status = "completed"

\* Whether the cache handler of a stage may reuse, or may repeat, what it has.
ReuseAny(s, res) == res[s].status \in FinalStates /\ Cache[s] # "never"
MayReuse(s, res) ==
  /\ res[s].status \in FinalStates
  /\ \/ Cache[s] = "hash" /\ res[s].hash = {BuildInputs(s, res)}
     \/ Cache[s] = "probabilistic"
MayRerun(s, res) == Cache[s] = "probabilistic" \/ ~MayReuse(s, res)

\* on_complete of the cache handler.
Stamp(s, inputs) == IF Cache[s] = "hash" THEN {inputs} ELSE {}

Init ==
  /\ pc = "idle"
  /\ results = [s \in Stages |-> Pending] /\ stored = results
  /\ running = {} /\ launched = {} /\ finished = {}
  /\ task = [s \in Stages |-> "none"]
  /\ attached = [s \in Stages |-> NoInputs]
  /\ outcome = [s \in Stages |-> Pending]
  /\ runs = 0

-----------------------------------------------------------------------------
(* The loop *)

\* A runner has fetched the program and starts a fresh DAG on it.
Begin ==
  /\ pc = "idle" /\ runs < MaxRuns
  /\ pc' = "tick" /\ runs' = runs + 1
  /\ UNCHANGED <<results, stored, progress, taskVars>>

\* get_stages_to_skip
ToSkip == {s \in Stages \ (running \cup launched \cup finished) :
             Impossible(s, results, finished)}
AfterSkips == [s \in Stages |-> IF s \in ToSkip THEN Skipped ELSE results[s]]

\* The stages get_ready_stages finds ready once the skips are recorded.
ReadyStages ==
  {s \in Stages \ (running \cup launched \cup finished \cup ToSkip) :
     Ready(s, AfterSkips, finished \cup ToSkip)}

\* From the top of the loop to asyncio.wait or the end: skip, reuse what the
\* caches allow, launch the rest, stop when nothing is left to do.
Tick ==
  /\ pc = "tick"
  /\ \E new \in SUBSET ReadyStages :
       LET cached == ReadyStages \ new IN
       /\ \A s \in new : MayRerun(s, AfterSkips)
       /\ \A s \in cached : MayReuse(s, AfterSkips)
       /\ running' = running \cup new
       /\ launched' = launched \cup ToSkip \cup new
       /\ finished' = finished \cup ToSkip \cup cached
       /\ results' = [s \in Stages |->
                        IF s \in new
                        THEN [status |-> "running", output |-> None,
                              hash |-> AfterSkips[s].hash]
                        ELSE AfterSkips[s]]
       /\ task' = [s \in Stages |-> IF s \in new THEN "queued" ELSE task[s]]
       /\ attached' = [s \in Stages |-> IF s \in new THEN BuildInputs(s, AfterSkips)
                                                     ELSE attached[s]]
       /\ pc' = IF running' # {} THEN "wait"
                ELSE IF ToSkip = {} /\ cached = {} THEN "over" ELSE "tick"
  /\ UNCHANGED <<stored, outcome, runs>>

\* asyncio.wait returned, because a task ended or its time-out of a second was
\* up: every task that has ended by then, perhaps none, is processed, and the
\* loop makes another pass while the others run.
Collect ==
  LET done == {s \in running : task[s] = "returned"} IN
  /\ pc = "wait" /\ pc' = "tick"
  /\ results' = [s \in Stages |-> IF s \in done THEN outcome[s] ELSE results[s]]
  /\ running' = running \ done
  /\ finished' = finished \cup done
  /\ task' = [s \in Stages |-> IF s \in done THEN "none" ELSE task[s]]
  /\ attached' = [s \in Stages |-> IF s \in done THEN NoInputs ELSE attached[s]]
  /\ outcome' = [s \in Stages |-> IF s \in done THEN Pending ELSE outcome[s]]
  /\ UNCHANGED <<stored, launched, runs>>

-----------------------------------------------------------------------------
(* A stage task *)

\* The semaphore of max_parallel_stages; tasks that wait for it do not hold it.
WaitersCount == Cardinality({t \in Stages : task[t] \in {"queued", "computing"}}) <= MaxParallel - 1
SlotFree == Cardinality({t \in Stages : task[t] = "computing"}) < MaxParallel

Acquire(s) ==
  /\ task[s] = "queued" /\ SlotFree
  /\ task' = [task EXCEPT ![s] = "computing"]
  /\ UNCHANGED <<pc, results, stored, progress, attached, outcome, runs>>

\* The ends of execute(): an output; a failure, a stage time-out or a result
\* the stage made itself; inputs that cannot be hashed, which fails before there
\* is a hash to stamp; a CancelledError, which skips the cache handler.
Outcomes(s) ==
  {[status |-> "completed", output |-> o, hash |-> Stamp(s, attached[s])] : o \in Outputs[s]}
    \cup {[status |-> st, output |-> None, hash |-> Stamp(s, attached[s])] :
            st \in {"failed", "skipped"}}
    \cup {Unhashed, Cancelled}

Return(s) ==
  /\ task[s] = "computing"
  /\ task' = [task EXCEPT ![s] = "returned"]
  /\ \E o \in Outcomes(s) : outcome' = [outcome EXCEPT ![s] = o]
  /\ UNCHANGED <<pc, results, stored, progress, attached, runs>>

-----------------------------------------------------------------------------
(* How a run ends *)

\* The DAG and the Program object are dropped; the next run fetches the blob.
Forget ==
  /\ pc' = "idle" /\ results' = stored'
  /\ running' = {} /\ launched' = {} /\ finished' = {}
  /\ task' = [s \in Stages |-> "none"]
  /\ attached' = [s \in Stages |-> NoInputs]
  /\ outcome' = [s \in Stages |-> Pending]
  /\ UNCHANGED runs

\* The runner's transition to DONE writes the whole program.
Persist == pc = "over" /\ stored' = results /\ Forget

\* The DAG's own time-out or a cancellation: the results so far are flushed,
\* which may fail; the stage tasks are left running.
Abort(saved) ==
  /\ pc = "wait" /\ pc' = "aborted"
  /\ stored' = IF saved THEN results ELSE stored
  /\ UNCHANGED <<results, progress, taskVars, runs>>

\* A kill and the recovery of the program by the next process.
Restart ==
  /\ pc # "idle" /\ UNCHANGED stored /\ Forget

StageStep == \E s \in Stages : Acquire(s) \/ Return(s)
LoopStep == Tick \/ Collect \/ Persist
Next ==
  \/ Begin \/ LoopStep \/ StageStep
  \/ Restart \/ \E saved \in BOOLEAN : Abort(saved)

Spec == Init /\ [][Next]_vars

\* The event loop runs a ready coroutine, and compute() is bounded by the
\* time-out of its stage.
Fairness == WF_vars(LoopStep) /\ WF_vars(StageStep)
FairSpec == Spec /\ Fairness

-----------------------------------------------------------------------------
(* Properties *)

TypeOK ==
  /\ pc \in {"idle", "tick", "wait", "over", "aborted"}
  /\ results \in [Stages -> Result] /\ stored \in [Stages -> Result]
  /\ running \subseteq Stages /\ launched \subseteq Stages /\ finished \subseteq Stages
  /\ task \in [Stages -> {"none", "queued", "computing", "returned"}]
  /\ attached \in [Stages -> NamedInputs]
  /\ outcome \in [Stages -> Result]
  /\ runs \in 0 .. MaxRuns

\* The inputs a running stage was given are still what its producers made: no
\* producer settles, or settles again, behind the back of its consumer.
InputsCurrent ==
  \A s \in running : attached[s] = BuildInputs(s, results)

\* The loop only stops, without a time-out, when every stage is settled: the
\* warning about unresolved stages (dag.py:264) is unreachable.
EndsResolved ==
  pc = "over" => finished = Stages /\ \A s \in Stages : results[s].status \in FinalStates

\* After a run that ended, the result of a stage cached by input hash belongs
\* to the inputs it would get now, whatever was reused from earlier runs; it has
\* none only if it was cancelled, could not hash its inputs, or cannot run.
NoStaleResult ==
  pc = "over" => \A s \in Stages : Cache[s] = "hash" =>
    \/ results[s].hash = {BuildInputs(s, results)}
    \/ results[s] \in {Cancelled, Unhashed}
    \/ results[s] = Skipped /\ Impossible(s, results, finished)

\* The run keeps the promise of StageGraph.
Graph == INSTANCE StageGraph WITH
  phase   <- CASE pc = "idle" -> "idle" [] pc = "over" -> "over"
               [] pc = "aborted" -> "gaveUp" [] OTHER -> "running",
  settled <- finished,
  good    <- {s \in finished : results[s].status = "completed"}
GraphSpec == Graph!Spec

\* A run ends by itself unless it is cut short: skips, caches and a full
\* semaphore never leave the loop waiting for nobody.
RunEnds == (pc = "tick") ~> (pc \in {"idle", "over", "aborted"})
=============================================================================
