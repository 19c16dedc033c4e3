------------------------------ MODULE DagRunner ------------------------------
(***************************************************************************)
(* The DAG runner (gigaevo/runner/dag_runner.py) over the Redis program    *)
(* storage (gigaevo/database/redis_program_storage.py): the scheduler that *)
(* maintains and launches, one task per program under a semaphore, the     *)
(* queue of completed programs that are marked DONE in batches, time-outs, *)
(* orphans, and the recovery of stranded programs after a kill.            *)
(*                                                                         *)
(* Storage keeps a program twice: its blob carries a state, and its id is  *)
(* in status sets, which is all the scheduler and the recovery look at.    *)
(* A pipeline writes both; Redis drains a pipeline before it serves        *)
(* another client, so landing is one step here, apart from the step that   *)
(* read what it is based on.  The two SMEMBERS of a launch are one read.   *)
(* DAGs, stages and priorities are left out: any order, any outcome.  The  *)
(* evolution engine is an environment that reads programs and, any time    *)
(* later, flips, discards or updates them by the copies it has.            *)
(*                                                                         *)
(* No writer but update() looks whether its copy is still current.  raced  *)
(* collects the programs that somebody wrote by a copy that was not, or    *)
(* while the runner was at work on them: storage makes no promise for      *)
(* these, and the properties of the sets are about the others.             *)
(***************************************************************************)
EXTENDS Naturals, FiniteSets

CONSTANTS
  Programs,       \* the program ids
  MaxConcurrent,  \* max_concurrent_dags: semaphore and batch threshold
  Prefetch,       \* prefetch_factor
  Contested,      \* bound: programs the engine may hold older copies of
  LeaveRaced,     \* bound: the engine does nothing to a program that is raced
  MaxErrors,      \* bound: storage operations and builds that fail
  MaxKills        \* bound: how often the process is killed

\* The scheduler's own entry in batch.
Scheduler == "scheduler"

ASSUME DagRunnerAssumption ==
  /\ IsFiniteSet(Programs)
  /\ MaxConcurrent \in Nat \ {0} /\ Prefetch \in Nat \ {0}
  /\ Contested \subseteq Programs /\ LeaveRaced \in BOOLEAN
  /\ MaxErrors \in Nat /\ MaxKills \in Nat
  /\ Scheduler \notin Programs

VARIABLES
  blob,       \* the state in the stored blob of a program
  status,     \* the status sets
  known,      \* programs the engine has ingested
  raced,      \* history: programs written by a stale copy or under the runner's hands
  sched,      \* where the scheduler is
  todo,       \* ids the current phase of the scheduler still has to handle
  current,    \* the id it is handling (a set of at most one)
  seen,       \* state of the copies the scheduler has read
  patch,      \* ids whose blob batch_transition_by_ids read as QUEUED
  active,     \* domain of _active
  task,       \* where the task of each program is
  mem,        \* state of the Program object the task works on
  stray,      \* running tasks a failed marking cancelled: <<program, state in memory, error>>
  doneQueue,  \* _done_queue
  batch,      \* the batch each flushing task took; the scheduler's own in its turn
  errors,     \* storage errors and failed builds so far
  kills       \* kills so far

storeVars == <<blob, status>>
schedVars == <<sched, todo, current, seen, patch>>
taskVars == <<task, mem, doneQueue>>
boundVars == <<errors, kills>>
vars == <<storeVars, schedVars, taskVars, known, boundVars, active, batch, stray, raced>>
\* What no step of the scheduler but a failed marking touches.
asideVars == <<known, stray, raced>>

-----------------------------------------------------------------------------

Status == {"QUEUED", "RUNNING", "DONE", "DISCARDED"}
TaskPc == {"none", "sema", "run", "failed", "cancelled", "flush"}
SchedPc == {"recover", "idle", "timeouts", "awaitTask", "discard", "flush", "fetch",
            "orphans", "discardOrphan", "launch", "markRead", "markWrite", "markReturn"}

Flushers == Programs \cup {Scheduler}

Live(p) == task[p] # "none"
\* The tasks inside `async with self._sema`.
Evaluating == {p \in Programs : task[p] \in {"run", "failed", "cancelled", "flush"}}
Capacity == MaxConcurrent * Prefetch
Pending == {"QUEUED", "RUNNING"}
Settled == {"DONE", "DISCARDED"}

\* Completed programs on their way to DONE.
Completed == doneQueue \cup UNION {batch[f] : f \in Flushers}

\* The programs of a launch whose marking has not returned.
Marking == IF sched \in {"markRead", "markWrite", "markReturn"} THEN todo ELSE {}

\* The runner has p in hand: a copy, a task, a batch with it, or a place for
\* it in the launch under way.
AtWork(p) == seen[p] # "none" \/ mem[p] # "none" \/ p \in patch \/ p \in Completed

Race(S) == raced' = raced \cup S

\* SREM and SADD of a batch of ids, and the SREM alone.
RemoveStatus(S, from, to) == status' = [status EXCEPT ![from] = @ \ S]
MoveStatus(S, from, to) ==
  status' = [s \in Status |-> IF s = to THEN status[s] \cup S
                              ELSE IF s = from THEN status[s] \ S ELSE status[s]]

\* batch_transition_state and the write half of batch_transition_by_ids.
WriteBatch(S, from, to) ==
  /\ blob' = [p \in Programs |-> IF p \in S THEN to ELSE blob[p]]
  /\ MoveStatus(S, from, to)

\* set_program_state(DISCARDED): the copy decides which set is left, and a
\* copy that is DISCARDED already that nothing is written.
Discard(p, copy) ==
  IF copy = "DISCARDED" THEN UNCHANGED storeVars ELSE WriteBatch({p}, copy, "DISCARDED")

StorageError == errors < MaxErrors /\ errors' = errors + 1

\* write_exclusive: the blob with the state in memory, no status set.
WriteExclusive(p, state) == blob' = [blob EXCEPT ![p] = state] /\ UNCHANGED status

\* A task is over; nothing reads its Program object any more.
TaskEnds(p) ==
  /\ task' = [task EXCEPT ![p] = "none"]
  /\ mem' = [mem EXCEPT ![p] = "none"]

Init ==
  /\ blob = [p \in Programs |-> "QUEUED"]
  /\ status = [s \in Status |-> IF s = "QUEUED" THEN Programs ELSE {}]
  /\ known = {} /\ raced = {}
  /\ sched = "idle"
  /\ todo = {} /\ current = {} /\ patch = {}
  /\ seen = [p \in Programs |-> "none"]
  /\ active = {}
  /\ task = [p \in Programs |-> "none"]
  /\ mem = [p \in Programs |-> "none"]
  /\ stray = {} /\ doneQueue = {}
  /\ batch = [f \in Flushers |-> {}]
  /\ errors = 0 /\ kills = 0

-----------------------------------------------------------------------------
(* The task of a program: _run_one and _execute_dag *)

TaskStart(p) ==
  /\ task[p] = "sema" /\ Cardinality(Evaluating) + Cardinality(stray) < MaxConcurrent
  /\ task' = [task EXCEPT ![p] = "run"]
  /\ UNCHANGED <<storeVars, schedVars, asideVars, boundVars, active, mem, doneQueue, batch>>

\* The DAG completed: queue the program, flush when a batch is full.
DagSucceeds(p) ==
  /\ task[p] = "run"
  /\ LET queue == doneQueue \cup {p}
     IN \/ /\ Cardinality(queue) < MaxConcurrent
           /\ doneQueue' = queue
           /\ TaskEnds(p)
           /\ UNCHANGED batch
        \/ /\ Cardinality(queue) >= MaxConcurrent
           /\ doneQueue' = {}
           /\ batch' = [batch EXCEPT ![p] = queue]
           /\ task' = [task EXCEPT ![p] = "flush"]
           /\ UNCHANGED mem
  /\ Race({p} \cap Marking)
  /\ UNCHANGED <<storeVars, schedVars, known, boundVars, active, stray>>

\* The blobs without the status sets: not what batch_transition_state does.
BlobsLand(f) == blob' = [p \in Programs |-> IF p \in batch[f] THEN "DONE" ELSE blob[p]]
                /\ UNCHANGED <<status, errors>>

\* The batch of f lands, or the operation fails without effect: a lost batch
\* is only logged.
BatchLands(f) ==
  \/ WriteBatch(batch[f], "RUNNING", "DONE") /\ UNCHANGED errors
  \/ StorageError /\ UNCHANGED storeVars

TaskFlushes(p) ==
  /\ task[p] = "flush"
  /\ BatchLands(p)
  /\ batch' = [batch EXCEPT ![p] = {}]
  /\ TaskEnds(p)
  /\ UNCHANGED <<schedVars, asideVars, kills, active, doneQueue>>

\* The DAG failed or timed out by itself: it writes its partial results, an
\* error of which is only logged, ...
DagFails(p) ==
  /\ task[p] = "run"
  /\ \/ WriteExclusive(p, mem[p]) /\ UNCHANGED errors
     \/ StorageError /\ UNCHANGED storeVars
  /\ task' = [task EXCEPT ![p] = "failed"]
  /\ Race({p} \cap Marking)
  /\ UNCHANGED <<schedVars, known, kills, active, mem, doneQueue, batch, stray>>

\* ... and the task discards the program.
FailureDiscards(p) ==
  /\ task[p] = "failed"
  /\ \/ Discard(p, mem[p]) /\ UNCHANGED errors
     \/ StorageError /\ UNCHANGED storeVars
  /\ TaskEnds(p)
  /\ UNCHANGED <<schedVars, asideVars, kills, active, doneQueue, batch>>

\* The last write of a cancelled DAG run, in dag.run's `finally`.  After 2 s
\* wait_for cancels the task again, which ends the write, and goes on waiting.
CancelledTaskEnds(p) ==
  /\ task[p] = "cancelled"
  /\ WriteExclusive(p, mem[p]) \/ UNCHANGED storeVars
  /\ TaskEnds(p)
  /\ UNCHANGED <<schedVars, asideVars, boundVars, active, doneQueue, batch>>

\* The last write of a running task that a failed marking cancelled: nobody
\* waits for it, so the next passes may be at work on its program again.
StrayEnds(s) ==
  LET p == s[1]
  IN /\ s \in stray
     /\ stray' = stray \ {s}
     /\ \/ /\ WriteExclusive(p, s[2])
           /\ Race(IF AtWork(p) \/ blob[p] \notin Pending THEN {p} ELSE {})
           /\ UNCHANGED errors
        \/ StorageError /\ UNCHANGED <<storeVars, raced>>
     /\ UNCHANGED <<schedVars, taskVars, known, kills, active, batch>>

TaskNext(p) == TaskStart(p) \/ DagSucceeds(p) \/ TaskFlushes(p) \/ DagFails(p)
               \/ FailureDiscards(p) \/ CancelledTaskEnds(p)

-----------------------------------------------------------------------------
(* _maintain *)

\* _cancel_task: a task that finished since is left alone, a running DAG
\* still writes, a flush or a discard under way is abandoned.
CancelTask(p) ==
  /\ current' = {p} /\ sched' = "awaitTask"
  /\ \/ task[p] = "run" /\ task' = [task EXCEPT ![p] = "cancelled"] /\ UNCHANGED mem
     \/ task[p] # "run" /\ TaskEnds(p)
  /\ batch' = [batch EXCEPT ![p] = {}]

\* Finished entries leave _active, any task still alive may be over its
\* dag_timeout: the clock starts when the task is created.  The first one is
\* cancelled at once, ...
Classify ==
  /\ sched = "idle"
  /\ active' = {p \in active : Live(p)}
  /\ \/ /\ sched' = "timeouts"
        /\ UNCHANGED <<todo, current, task, mem, batch>>
     \/ \E T \in SUBSET active' : \E p \in T : todo' = T \ {p} /\ CancelTask(p)
  /\ UNCHANGED <<storeVars, seen, patch, doneQueue, boundVars, asideVars>>

\* ... the others in their turn.
CancelTimedOut(p) ==
  /\ sched = "timeouts" /\ p \in todo
  /\ todo' = todo \ {p}
  /\ CancelTask(p)
  /\ UNCHANGED <<storeVars, seen, patch, active, doneQueue, boundVars, asideVars>>

\* _cancel_task waits until the task has ended; without that wait it could be
\* anywhere.
Abandoned(p) == TRUE
Ended(p) == ~Live(p)

\* The task is over: read the program again and leave it alone when DONE.
GetTimedOut(p) ==
  /\ sched = "awaitTask" /\ current = {p} /\ Ended(p)
  /\ active' = active \ {p}
  /\ \/ /\ blob[p] \notin Settled
        /\ seen' = [seen EXCEPT ![p] = blob[p]]
        /\ sched' = "discard"
        /\ UNCHANGED <<current, errors>>
     \/ /\ sched' = "timeouts" /\ current' = {}
        /\ UNCHANGED seen
        /\ \/ blob[p] \in Settled /\ UNCHANGED errors
           \/ StorageError
  /\ UNCHANGED <<storeVars, todo, patch, taskVars, batch, kills, asideVars>>

DiscardTimedOut(p) ==
  /\ sched = "discard" /\ current = {p}
  /\ \/ Discard(p, seen[p]) /\ UNCHANGED errors
     \/ StorageError /\ UNCHANGED storeVars
  /\ sched' = "timeouts" /\ current' = {} /\ seen' = [seen EXCEPT ![p] = "none"]
  /\ UNCHANGED <<todo, patch, active, taskVars, batch, kills, asideVars>>

\* _flush_done_queue at the end of _maintain.
TakeDoneQueue ==
  /\ sched = "timeouts" /\ todo = {}
  /\ batch' = [batch EXCEPT ![Scheduler] = doneQueue]
  /\ doneQueue' = {}
  /\ sched' = IF doneQueue = {} THEN "fetch" ELSE "flush"
  /\ UNCHANGED <<storeVars, todo, current, seen, patch, active, task, mem, boundVars, asideVars>>

SchedulerFlushes ==
  /\ sched = "flush"
  /\ BatchLands(Scheduler)
  /\ batch' = [batch EXCEPT ![Scheduler] = {}]
  /\ sched' = "fetch"
  /\ UNCHANGED <<todo, current, seen, patch, active, taskVars, kills, asideVars>>

-----------------------------------------------------------------------------
(* _launch *)

\* Ids in the RUNNING set without an entry in _active, or none at all.
NoOrphans == {}
Orphans == status["RUNNING"] \ active

\* Both status sets are read before the orphans are handled; the ids to
\* launch are kept in patch until then.
Fetch ==
  /\ sched = "fetch"
  /\ \/ /\ todo' = Orphans
        /\ patch' = status["QUEUED"] \ active
        /\ sched' = "orphans"
        /\ UNCHANGED errors
     \/ /\ StorageError
        /\ sched' = "idle"
        /\ UNCHANGED <<todo, patch>>
  /\ UNCHANGED <<storeVars, current, seen, active, taskVars, batch, kills, asideVars>>

ReadOrphans ==
  /\ sched = "orphans"
  /\ \/ /\ todo' = {p \in todo : blob[p] # "DISCARDED"}
        /\ seen' = [p \in Programs |-> IF p \in todo' THEN blob[p] ELSE "none"]
        /\ sched' = "discardOrphan"
        /\ UNCHANGED errors
     \/ /\ StorageError /\ todo # {}
        /\ todo' = {} /\ sched' = "discardOrphan"
        /\ UNCHANGED seen
  /\ UNCHANGED <<storeVars, current, patch, active, taskVars, batch, kills, asideVars>>

DiscardOrphan(p) ==
  /\ sched = "discardOrphan" /\ p \in todo
  /\ \/ Discard(p, seen[p]) /\ UNCHANGED errors
     \/ StorageError /\ UNCHANGED storeVars
  /\ todo' = todo \ {p}
  /\ seen' = [seen EXCEPT ![p] = "none"]
  /\ UNCHANGED <<sched, current, patch, active, taskVars, batch, kills, asideVars>>

\* The ids one launch takes: as many of the candidates as there is room for.
LaunchUpToCapacity(L) ==
  LET room == Capacity - Cardinality(active)
  IN IF Cardinality(patch) <= room THEN L = patch
     ELSE L \subseteq patch /\ Cardinality(L) = room

\* mget of the programs to launch: nothing to do without room or candidates.
ReadLaunch ==
  /\ sched = "discardOrphan" /\ todo = {}
  /\ \/ \E L \in SUBSET patch :
          /\ LaunchUpToCapacity(L)
          /\ todo' = L
          /\ mem' = [p \in Programs |-> IF p \in L THEN blob[p] ELSE mem[p]]
          /\ sched' = IF L = {} THEN "idle" ELSE "launch"
          /\ UNCHANGED errors
     \/ /\ StorageError
        /\ sched' = "idle"
        /\ UNCHANGED <<todo, mem>>
  /\ patch' = {}
  /\ UNCHANGED <<storeVars, current, seen, active, task, doneQueue, batch, kills, asideVars>>

\* A DAG that cannot be built: its program is discarded.  The tasks of the
\* others are created between such failures; here, after all of them.
BuildFails(p) ==
  /\ sched = "launch" /\ p \in todo
  /\ StorageError
  /\ Discard(p, mem[p])
  /\ todo' = todo \ {p}
  /\ mem' = [mem EXCEPT ![p] = "none"]
  /\ UNCHANGED <<sched, current, seen, patch, active, task, doneQueue, batch, kills, asideVars>>

\* The tasks exist, and may start, before their programs are marked.
CreateTasks ==
  /\ sched = "launch"
  /\ task' = [p \in Programs |-> IF p \in todo THEN "sema" ELSE task[p]]
  /\ active' = active \cup todo
  /\ sched' = IF todo = {} THEN "idle" ELSE "markRead"
  /\ UNCHANGED <<storeVars, todo, current, seen, patch, mem, doneQueue, batch, boundVars, asideVars>>

\* batch_transition_by_ids(QUEUED, RUNNING): read the blobs, ...
MarkRead ==
  /\ sched = "markRead"
  /\ patch' = {p \in todo : blob[p] = "QUEUED"}
  /\ sched' = "markWrite"
  /\ UNCHANGED <<storeVars, todo, current, seen, active, taskVars, batch, boundVars, asideVars>>

\* ... write those that were QUEUED, ...
MarkWrite ==
  /\ sched = "markWrite"
  /\ WriteBatch(patch, "QUEUED", "RUNNING")
  /\ patch' = {}
  /\ sched' = "markReturn"
  /\ UNCHANGED <<todo, current, seen, active, taskVars, batch, boundVars, asideVars>>

\* ... and set the state in memory of all that were launched.
MarkReturns ==
  /\ sched = "markReturn"
  /\ mem' = [p \in Programs |-> IF p \in todo /\ Live(p) THEN "RUNNING" ELSE mem[p]]
  /\ todo' = {} /\ sched' = "idle"
  /\ UNCHANGED <<storeVars, current, seen, patch, active, task, doneQueue, batch, boundVars, asideVars>>

\* The operation failed, with or without effect: the tasks leave _active and
\* are cancelled but not awaited.  One that waits for the semaphore just ends,
\* a flush or a discard under way is abandoned, a running DAG still writes.
MarkFails ==
  /\ sched \in {"markRead", "markWrite", "markReturn"}
  /\ StorageError
  /\ active' = active \ todo
  /\ stray' = stray \cup {<<p, mem[p], errors + 1>> : p \in {q \in todo : task[q] = "run"}}
  /\ task' = [p \in Programs |-> IF p \in todo THEN "none" ELSE task[p]]
  /\ mem' = [p \in Programs |-> IF p \in todo THEN "none" ELSE mem[p]]
  /\ batch' = [f \in Flushers |-> IF f \in todo THEN {} ELSE batch[f]]
  /\ todo' = {} /\ patch' = {} /\ sched' = "idle"
  /\ UNCHANGED <<storeVars, current, seen, doneQueue, kills, known, raced>>

SchedulerNext ==
  \/ Classify \/ TakeDoneQueue \/ SchedulerFlushes \/ Fetch \/ ReadOrphans
  \/ ReadLaunch \/ CreateTasks \/ MarkRead \/ MarkWrite \/ MarkReturns \/ MarkFails
  \/ \E p \in Programs : CancelTimedOut(p) \/ GetTimedOut(p) \/ DiscardTimedOut(p)
                         \/ DiscardOrphan(p) \/ BuildFails(p)

-----------------------------------------------------------------------------
(* The engine, and the life of the process *)

EngineReaches(p) == sched # "recover" /\ ~(LeaveRaced /\ p \in raced)

\* The engine ingests a completed program: it may be in an archive from now on.
EngineIngests(p) ==
  /\ EngineReaches(p) /\ blob[p] = "DONE" /\ p \notin known
  /\ known' = known \cup {p}
  /\ UNCHANGED <<storeVars, schedVars, taskVars, boundVars, active, batch, stray, raced>>

\* The copies the engine can write a program by: read in any state it has been
\* in, as a parent, an elite or a migrant, and held for any time.  Those of a
\* program that is not contested are current.
Held(p) == IF p \notin known THEN {}
           ELSE IF p \in Contested THEN Status \ {"DISCARDED"} ELSE {blob[p]} \ {"DISCARDED"}

\* p is written by a copy while the runner is at work on it, or since somebody
\* else wrote it.
Races(p, copy) == {q \in {p} : copy # blob[q] \/ AtWork(q)}

\* A refresh queues a program it read as DONE for another evaluation.
EngineFlips(p) ==
  /\ EngineReaches(p) /\ "DONE" \in Held(p)
  /\ WriteBatch({p}, "DONE", "QUEUED")
  /\ Race(Races(p, "DONE"))
  /\ UNCHANGED <<schedVars, taskVars, known, boundVars, active, batch, stray>>

\* A program is rejected or evicted from its archive.
EngineDiscards(p) ==
  /\ EngineReaches(p)
  /\ \E c \in Held(p) : Discard(p, c) /\ Race(Races(p, c))
  /\ UNCHANGED <<schedVars, taskVars, known, boundVars, active, batch, stray>>

\* merge_states: the later state of the cycle wins, DISCARDED over all.
Later == {<<"QUEUED", "RUNNING">>, <<"RUNNING", "DONE">>, <<"DONE", "QUEUED">>}
Merge(state, copy) ==
  IF "DISCARDED" \in {state, copy} THEN "DISCARDED"
  ELSE IF <<state, copy>> \in Later THEN copy ELSE state

\* update(): the blob alone, merged with the copy of an archive or of a stage
\* that adds a child.
EngineUpdates(p) ==
  /\ EngineReaches(p)
  /\ \E c \in Held(p) : /\ Merge(blob[p], c) # blob[p]
                         /\ blob' = [blob EXCEPT ![p] = Merge(@, c)]
                         /\ Race(Races(p, c))
  /\ UNCHANGED <<status, schedVars, taskVars, known, boundVars, active, batch, stray>>

\* The process is killed: what is in memory is gone, and the next one starts
\* with recover_stranded_programs.
Kill ==
  /\ kills < MaxKills
  /\ kills' = kills + 1
  /\ sched' = "recover"
  /\ todo' = status["RUNNING"] /\ current' = {} /\ patch' = {}
  /\ active' = {} /\ doneQueue' = {} /\ stray' = {}
  /\ task' = [p \in Programs |-> "none"] /\ mem' = task' /\ seen' = task'
  /\ batch' = [f \in Flushers |-> {}]
  /\ UNCHANGED <<storeVars, known, raced, errors>>

\* Each RUNNING id is written as QUEUED, ...
RecoverWrites(p) ==
  /\ sched = "recover" /\ current = {} /\ p \in todo
  /\ WriteExclusive(p, "QUEUED")
  /\ current' = {p}
  /\ UNCHANGED <<sched, todo, seen, patch, active, taskVars, batch, boundVars, asideVars>>

\* ... and then moved to that set.
RecoverMoves(p) ==
  /\ sched = "recover" /\ current = {p}
  /\ MoveStatus({p}, "RUNNING", "QUEUED") /\ UNCHANGED blob
  /\ todo' = todo \ {p} /\ current' = {}
  /\ UNCHANGED <<sched, seen, patch, active, taskVars, batch, boundVars, asideVars>>

Recovered ==
  /\ sched = "recover" /\ todo = {}
  /\ sched' = "idle"
  /\ UNCHANGED <<storeVars, todo, current, seen, patch, active, taskVars, batch, boundVars, asideVars>>

RecoverStranded == Recovered \/ \E p \in Programs : RecoverWrites(p) \/ RecoverMoves(p)

EngineNext(p) == EngineIngests(p) \/ EngineFlips(p) \/ EngineDiscards(p) \/ EngineUpdates(p)

Next ==
  \/ SchedulerNext
  \/ \E p \in Programs : TaskNext(p)
  \/ \E s \in stray : StrayEnds(s)
  \/ \E p \in Programs : EngineNext(p)
  \/ Kill \/ RecoverStranded

Spec == Init /\ [][Next]_vars

\* The event loop runs every coroutine that can run; storage operations
\* return; a DAG ends, by itself or by its own time-out.  Nothing is assumed
\* of time-outs in the scheduler, of errors, of kills and of the engine.
Fairness ==
  /\ WF_vars(SchedulerNext)
  /\ \A p \in Programs : WF_vars(TaskNext(p))
  /\ WF_vars(\E s \in stray : StrayEnds(s))
  /\ WF_vars(RecoverStranded)

FairSpec == Spec /\ Fairness

-----------------------------------------------------------------------------
(* What the runner promises *)

\* Every variable has its type.
TypeOK ==
  /\ blob \in [Programs -> Status]
  /\ status \in [Status -> SUBSET Programs]
  /\ known \subseteq Programs /\ raced \subseteq Programs
  /\ sched \in SchedPc
  /\ todo \subseteq Programs /\ current \subseteq Programs /\ patch \subseteq Programs
  /\ seen \in [Programs -> Status \cup {"none"}]
  /\ active \subseteq Programs
  /\ task \in [Programs -> TaskPc]
  /\ mem \in [Programs -> Status \cup {"none"}]
  /\ stray \subseteq Programs \X Status \X Nat
  /\ doneQueue \subseteq Programs
  /\ batch \in [Flushers -> SUBSET Programs]
  /\ errors \in Nat /\ kills \in Nat

\* A task has its entry in _active, the only place where time-outs and stop()
\* look for it, until it has ended, unless a failed marking cancelled it
\* (_maintain's removals, _launch's failure path).
TasksSupervised == \A p \in Programs : Live(p) => p \in active

\* A program still to be evaluated is in the QUEUED or in the RUNNING set, the
\* only ids the scheduler and the recovery ever look at, unless two writers
\* raced on it (status sets of every transition).
PendingIsFindable ==
  \A p \in Programs \ raced : blob[p] \in Pending => p \in status["QUEUED"] \cup status["RUNNING"]

\* A program whose blob says DONE or DISCARDED is in the set of that state, so
\* that get_all_by_status and the counts do not miss it, unless two writers
\* raced on it.
SettledIsIndexed == \A p \in Programs \ raced : blob[p] \in Settled => p \in status[blob[p]]

\* The runner does not discard a program whose DAG has completed ("Don't
\* discard a program that already finished", _maintain).  Not kept by the code:
\* README, "What the code does not keep".
CompletedNotDiscarded == [][\A p \in Completed : ~DiscardTimedOut(p) /\ ~DiscardOrphan(p)]_vars

\* No two tasks of a program run at once (write_exclusive's "exclusive
\* ownership").  Not kept by the code either, after a failed marking.
OneTaskPerProgram == \A s \in stray : task[s[1]] # "run"

\* Nor are these without the exemption of the programs that are raced.
PendingAlwaysFindable ==
  \A p \in Programs : blob[p] \in Pending => p \in status["QUEUED"] \cup status["RUNNING"]
SettledAlwaysIndexed == \A p \in Programs : blob[p] \in Settled => p \in status[blob[p]]

\* No program is lost between two sets, a lost batch, a time-out, a failed
\* launch or a kill: each is DONE or DISCARDED in the end, unless two writers
\* raced on it.
NoProgramLost ==
  \A p \in Programs : blob[p] \in Pending ~> blob[p] \in Settled \/ p \in raced
=============================================================================
