# TLA+ models of the GigaEvo evolution engine

These modules model the control of the evolution program in `src/gigaevo`: who may do
what, in which order, and what is left behind when something is cancelled, fails or is
killed.  TLC checks small instances; TLAPS proves the invariants that matter most for
every number of tasks, programs, islands, runs and slots, and two refinements: the
execution of a DAG implements an abstract specification of it, and with refresh tickets a
parent that several writers rewrite whole implements an atomic record, until an island
writes it without regard to the others.

`run.py` starts three things on one asyncio event loop: the *engine* (selects parents,
mutates them, ingests results into an archive of islands), the *DAG runner* (evaluates
programs) and the Redis *storage* they communicate through.  Nearly all their
communication is the state of a program:

    QUEUED --runner--> RUNNING --runner--> DONE --engine--> archive, or DISCARDED
      ^                                      |
      +------------- parent refresh ---------+

Several such processes may share a *migration bus*, through which a run hands on valid
programs that its own archive rejected.

## 1. Inventory

Paths are relative to `src/gigaevo`.

| Component | State | Operations | Talks to | Hard behaviour |
|---|---|---|---|---|
| Engine control: `evolution/engine/{steady_state,dispatcher,mutant_task,mutation,ingestor}.py` | `_running`, `_producer_sema`, `_buffer_sema`, `_in_flight`, `_inflight_tickets`, tasks | dispatcher loop, one task per mutant, ingestor loop, `run`, `stop` | storage, archive, refresher, stopper, hooks | cancellation at every await, ownership handed from task to ingestor, joins at the end |
| Counters and snapshot: `evolution/engine/{core,snapshot,metrics,hooks}.py` | live counters, mirror `_snapshot`, `engine:snapshot` | `_write_snapshot`, `restore_state`, `reserve` | storage | several writers, save that takes effect and fails, crash between store and snapshot |
| Parent refresh: `evolution/engine/refresh.py` | per-parent locks, `_fresh`, tickets | `refresh_with_ticket`, `refresh_if_stale`, `mark_children_completed` | storage, runner, tasks | locks held across evaluations, states read before the lock |
| Stoppers: `evolution/engine/stopper.py` | cap, deadline, plateau | `should_stop` | dispatcher | the cap moves after the check |
| DAG runner: `runner/*.py` | `_active`, `_sema`, `_done_queue` | scheduler pass (maintain, launch), task, flush, cancel, stop | storage, DAG | batches, time-outs, orphans |
| DAG and stages: `programs/dag/*`, `programs/stages/{base,cache_handler}.py` | stage results, running stage tasks | gates, launch, finish, skip, stall check | storage at the end | concurrent stages, time-out |
| Program and state: `programs/{program,program_state}.py`, `database/{merge_strategies,state_manager}.py` | state, results, lineage | transition, merge | all | merge of concurrent states |
| Redis storage: `database/{program_storage,redis_program_storage}.py`, `database/redis/*` | blob per program, set per state, streams, run state | add, update, fast / batch / exclusive writes, recovery | Redis | a program is kept twice; retries |
| Instance lock: `database/redis/locking.py` | key with expiry | acquire, renew, release | Redis | expiry against renewal |
| Archive and islands: `evolution/storage/archive_storage.py`, `evolution/strategies/{island,multi_island,removers}.py` | hash of cells, reverse hash, elite cache | add, remove, trim, migrate, reindex | storage | transaction against cache, trim against refresh, migration in two steps |
| Migration bus: `evolution/bus/*` | streams between runs | publish, poll, import | Redis | at-least-once delivery |
| Population snapshot (`database/program_storage.py`) | cached population, epoch | bump, get | engine, stages | bump during a fetch |
| Endpoint pool (`infra/*`) | load and cooldown per endpoint | pick, report | Redis | shared counters |
| Selectors, routers, scheduling, LLM agents, metrics, `adversarial/`, `memory/`, CLI, monitoring, problems | stateless, external, or display only | | | |

What makes each one correct:

* Engine control: no exit path of a running task loses or doubles a semaphore slot or a
  ticket; a mutant whose add returned is tracked; evaluation backpressure and the mutant
  cap hold; when the final sweep runs nothing else does; `stop()` and the cap both end the run.
* Snapshot: an ordinal whose write was acknowledged is never handed out again; the mirror
  never runs ahead of Redis; stored counters do not go back.
* Parent refresh: no parent is re-evaluated under a mutation that uses it, or flipped
  twice; "fresh" means evaluated since the last child; lock waits end.
* DAG runner and storage: blob and status sets agree where it matters, as long as two
  writers do not race on a program; a task is supervised until it has ended; no program is
  left between two sets.
* DAG: a stage runs once, on the final results of what it depends on; a result is reused
  only for the inputs it was made from; a run ends, and with every stage settled.
* Parent's blob: a write of the whole blob undoes nobody else's; a child is never taken out
  of the lineage; a flipped parent is not DONE before it was evaluated.
* Archive: every elite in hash or cache can be found by its id, so it can be removed; a cell
  only changes to a better program; limits hold; an elite is where its metadata says.
* Bus: a message is imported once per claim, by a run it is meant for, and none is passed
  over; a restart never goes back.
* Lock, population snapshot: at most one live owner; data of an epoch was fetched in it.

The hazards behind these, each with its line, are in `PROJECT.json`.  Some of these promises
the code does not keep; section 4 lists them.

## 2. Modules

| Module | Models | Run as | Proved in |
|---|---|---|---|
| `SteadyState` | engine control | `MCSteadyState`, 4 runs | `SteadyStateProofs` |
| `EngineSnapshot` | counters, snapshot, resume | `MCEngineSnapshot` | `EngineSnapshotProofs` |
| `ParentRefresh` | refresh of several parents, locks, tickets, freshness | `MCParentRefresh` | `ParentRefreshProofs` |
| `ParentLineage` | the blob of one parent, which mutation tasks, runner and islands write whole | `MCParentLineage`, 2 runs | `ParentLineageProofs` |
| `ParentRecord` | abstract: a parent whose fields are changed one at a time, atomically | through `ParentLineage` | `ParentLineageProofs` |
| `DagRunner` | scheduler, tasks, batches, status sets, recovery | `MCDagRunner` | `DagRunnerProofs` |
| `StageGraph` | abstract: what one evaluation by a DAG promises | through `DagExec` | `DagExecProofs` |
| `DagExec` | the execution loop, gates, caches and stage tasks | `MCDagExec` | `DagExecProofs` |
| `Islands` | elite archives, trimming, migration | `MCIslands` | `IslandsProofs` |
| `MigrationBus` | the stream between runs | `MCMigrationBus` | `MigrationBusProofs` |

How they fit together: what `DagRunner` calls the work of a task is one run of `DagExec`;
what `SteadyState` treats as an atomic offer to the archive is spelt out in `Islands`, its
refresh in `ParentRefresh`, its lineage update in `ParentLineage`; a program that
`SteadyState` rejects is what `MigrationBus` publishes.  Each module has the steps of the
others that change its own variables as an environment; the comments of the environment's
actions say which.  The steps that matter most between modules are the writes of whole
programs by code that read them earlier: they appear as `Overtake` in `ParentRefresh`, as
`EngineFlips`, `EngineDiscards` and `EngineUpdates` in `DagRunner`, and one by one in
`ParentLineage`, where the interleaving of the writers is the point.  A property that such a
write breaks names it as an exception, in a history variable (`overtaken`, `raced`, `meddled`),
and section 4 has the formula without the exception, refuted.

The atom of every model is the code between two suspension points of the event loop:
code without an `await` cannot be interleaved.  A cancelled task can only resume by
receiving its `CancelledError`.  An operation on Redis is one step where one command or
one pipeline does it, and two where the code reads, computes and writes.

### SteadyState

`pc[t]` is where `run_one_mutant` (with `generate_one_mutation` inlined) of task `t` is,
`poll` holds the locals of one `poll_and_ingest`, `dispatcher`, `ingestor`, `runPc` are the
three loops.  `Dispatch` is the dispatcher's pass after it has the producer slot,
including its second stopper check; `Register` is the hand-over of slot and ticket into
`_in_flight`; `PollStart`, `PollFetch`, `BatchFetch`,
`Offer`, `DiscardRejected`, `PollRelease` and `PollReport` are the phases of the poll;
`MutantCancelled` delivers the pending cancellation that `stop()` or a drain created;
`generate_one_mutation` swallowing a cancellation after the persist is an outcome of
its own.  `storage.add` is two steps, since its reply may be lost: it can be repeated
(`AddRepeated`), raise although it took effect, so that the task ends without knowing of its
program (`AddFails`, history `lateAdds`), or be cancelled (history `interruptedAdds`).  A task
cancelled before its first step runs no `finally` (`neverStarted`): its producer slot is gone.
The runner is an environment that evaluates or discards a queued program, and
`add_elite` accepts, rejects, fails, or is interrupted after its transaction.

Abstractions: a task makes at most one mutant, so both have one name; which locks a
ticket holds is left to `ParentRefresh`; counters other than `mutations_created` to
`EngineSnapshot`.

### EngineSnapshot

`live` are the metrics, `mirror` the object's `_snapshot`, `stored` Redis.  A call of
`_write_snapshot` goes `queued -> saving -> saved`: the arguments (`want`) are evaluated
before the lock is waited for, as in the code; the merge is made when the lock is taken;
`SaveSnapshot` changes Redis; `SnapshotWritten` changes the mirror.  `WriteFails` and
`WriteCancelled` end a call before or after the save took effect.  `Crash` and `Resume` are
a kill and `restore_state`; `BeginStop`, `Finalize` the final write.  Fields that a writer
does not pass are 0, which the clamp turns into the mirror's value.  A save that was
cancelled takes effect, if at all, before the next one begins: this is an assumption, which a
pool of connections makes likely, since the command has been sent, but does not guarantee.

### ParentRefresh

A task goes `idle -> locking -> flipping -> awaiting -> reading -> mutating -> child`.
`seen` are the states in the selection's snapshot, read before any lock, which is what
`_do_refresh` decides by.  `TakeLock` takes the smallest missing id (`NextLocks`), `BeginFlip`
and `WriteFlip` are the two halves of `batch_transition_by_ids`.  Both values of
`coalesce_refresh` are covered; the mode is chosen in `Init`.  `current` is history:
parents evaluated since their last child completed.  Runner and islands are environment, and
so is every writer of an old copy: `Overtake` gives a parent any other state, as the merge of
a lineage update (DONE over RUNNING) or of a migrant (QUEUED over DONE) and the end of an
evaluation after a discard do, whenever it likes; `overtaken` remembers the parents it hit,
and the properties are about the others.  What they lose by that is real: with one such write
a fresh parent is under evaluation and a refresh flips it again (finding 2 is a case).
`asyncio.Lock` is first in, first out; the model gives a free lock to any waiter and
replaces the order by strong fairness.  The weak registry of locks is left out.

### ParentLineage

`blob` is the parent's JSON, cut down to its state and its children.  Several kinds of code
write all of it: the flip of a refresh (`ReadFlip`, `WriteFlip`) and the marking of a launch
(`ReadMark`, `WriteMark`), both `batch_transition_by_ids`, which reads the raw blobs and writes
them in a later pipeline without a transaction; a running DAG (`DagWrites`) and the end of its
evaluation, which write the copy the launch read; `update`, which WATCHes, merges (`Merge`,
`MergeStates`, `ValidTransition`) and retries (`WatchParent`, `UpdateParent`, `RetryUpdate`); and
the islands, which take no lock: a visit (`IslandReads`) may merge the program it read earlier
into the blob, for `current_island` (`IslandUpdates`), or store it as DISCARDED when it is
trimmed (`IslandDiscards`).  `Visits` bounds how often.  `dirty` are the updates whose WATCH is
broken.  History: `recorded`, children whose update succeeded; `due`, a flip that was not
evaluated yet; `meddled`, an island's merge changed the parent's state, or its trim hit a
parent that was in use or has other children than the copy.  One parent is enough, since
nothing here relates two; the order of locks over several is `ParentRefresh`.

`ParentRecord` knows of no copies, locks or merges: the state goes DONE, QUEUED, RUNNING and
back or to DISCARDED, one transition at a time, and a child is added, and the parent trimmed,
while it is DONE.  `ParentLineage!Record` maps the blob to it as it is; every read, lock, retry
and failed update is a stutter.  The promise ends for good when the record is `disturbed`: in
the coalesced mode it does not start, since finding 2 and `LineageComplete` refute it there,
and with tickets it ends with the first write of an island that sets `meddled`
(`TicketsAlwaysKeepLineage`, section 4).

### DagRunner

`blob` and `status` are the two places where storage keeps a state.  `sched` walks through
`_maintain` and `_launch`; `task[p]` is the task of `p` (`sema`, `run`, then `flush` for a
completed program that fills a batch, `failed` for one that is discarded, `cancelled` for one
that still writes on its way out); `doneQueue` and `batch` are `_done_queue` before and
after a flush took it.  `Classify`, `CancelTimedOut`, `GetTimedOut`, `DiscardTimedOut` are
the time-out path, `Fetch` ... `ReadLaunch`, `CreateTasks`, `Mark*` the launch.  A marking that
fails takes the launched entries out of `_active` and cancels the tasks without waiting for
them: those that run become `stray`, with the state their Program object has, and do their
last write any time later (`StrayEnds`), when their program may have been launched again.
`RecoverStranded` is the restart, a write of the blob and a move between the sets for each
program.  Which program is prioritised, and what a DAG does inside, is any choice.

The engine is the environment: it ingests (`known`), and flips, discards or updates known
programs by a copy it read earlier, of any state if the program is `Contested`, of the present
one otherwise.  A flip or a discard writes blob and sets by the copy's state, an update merges
the copy into the blob alone.

Storage makes no promise for a program that two writers race on.  `raced` collects them: those
the engine wrote by a copy that was not current or while the runner was at work on them, those
whose DAG ended before its launch was marked, and those a stray task wrote when somebody else
had them.  The properties of the sets are about the others; without the exemption they are
refuted (section 4).

Abstractions: Redis drains a pipeline before it serves another client, so a pipeline lands
in one step; the two SMEMBERS of a launch are one read; failed builds share the error
bound; a command that was cancelled takes effect, if at all, before the scheduler's next one,
and one that fails takes effect not at all.

### DagExec and StageGraph

`Tick` is the body of the loop up to `asyncio.wait`, one step since it does not suspend: skip
what is impossible, reuse what the caches allow, launch the rest, stop when nothing is
left.  `Collect` processes the tasks that ended when `asyncio.wait` returns, which it does after
a second also when none has: the loop then makes another pass while all its stages still run.
`Acquire` and `Return` are a stage's task with
the semaphore; `FinalNow`, `Ready` and `Impossible` are the gates, `Stamp`, `MayReuse` and
`MayRerun` the three cache handlers.  A stage whose inputs cannot be hashed fails and stores no
hash (`Unhashed`).  `stored` are the stage results in the program's blob,
`Persist`, `Abort` and `Restart` the ways a run ends, so that a second run starts from the
results of a first one that ended, was cut off (its stage tasks go on computing, but nobody
collects them) or was killed.  A graph is any that `DAGValidator` accepts: `Ranks` says it has
no cycle.  The stall watchdog, which only logs, the types of edges and the contents of
results are left out.

`StageGraph` knows nothing of loops, caches, slots or tasks: stages settle, in sets, each
either because all it depends on is settled and allowed it, or without success because
something rules it out; a run is over only when every stage is settled.  `DagExec!Graph` maps
`finished` to the settled stages and the completed ones of them to the good ones.

### Islands

Per island `hash`, `reverse` and `cache` are the cells in Redis, the reverse hash and the
in-memory cache.  `op[a]` is the operation that the ingestor or a mutant task is at: an add
goes `commit`, `tag`, a trim `size`, `cells`, `delete`, `discard`, a migration takes migrant
after migrant through an add and `leave`, `leaving`, or back through `rollback`, `rolling`, and
then trims every limited island.  Migration starts from `select_elites` in any task that finds
it due, and `last_migration` is written only when it is over, so two may run at once.  A
program has a static cell per island; `Score` stands for both comparison and removal.
`Interrupted` is an error or a cancellation between two steps: a migration ends where it is,
the ingestor rejects what it was adding.  `CommitUnseen`, `DeleteUnseen`, `RemoveUnseen` are
operations that take effect although their reply is lost: `RedisConnection.execute` calls its
function again from the start, or the operation fails; `behind` are the islands whose cache
missed a change that way.  Left out: routed regimes, bootstrap mixing, re-indexing, restart,
and discards that fail one by one.

### MigrationBus

A message is its position in the stream, and its source run.  `Read` ... `Deliver` are one
`consume` with the buffer after it, `Drain` and `Import` the engine's import task, `CancelPoll`,
`SaveCursor`, `Exit` an orderly stop, `Kill` a kill, `PollFails` and `SaveFails` errors of Redis.
The code moves the cursor before it claims, so a claim the poll task is torn out of is given
up (`GiveUp`, history `skipped`): the command reached Redis or not, and the run never asks
again.  A message that cannot be decoded loses its batch in the same way (`DecodeFails`).  The
topology, bus or ring, is chosen in `Init`.  A claim key lives for `claim_ttl` (120 s): `Expire`
removes it at any time, `lapses` counts how often, `Lapsing` bounds it to some messages, and
an expiry is one of the `MaxTroubles`.

## 3. Runs

| Run | Instance | States | Shows |
|---|---|---|---|
| `engine_strict` | 4 tasks, 2 slots, cap 2, tickets, storage may fail | 891k | slots, tickets, overshoot, quiet sweep, tracking of pending mutants |
| `engine_pipelined` | 4 tasks, 1 slot, non-strict, stateful stopper, storage may fail | 481k | no slot doubled, and none lost while the dispatcher spawns; depth 2N and quiet sweep also when a task is cancelled before its first step |
| `engine_live` | 3 tasks, 1 slot, cap 2, storage may fail, fair | 240k | in-flight mutants are released, `stop()` and the cap end the run |
| `engine_stop_hangs` | 3 tasks, 1 slot, non-strict, fair | violation | finding 1 |
| `snapshot_resume` | 3 mutants, 1 seed, 1 resume, crashes, failing saves | 956k | mirror behind Redis, acknowledged ordinals unique, all ordinals unique after orderly stops |
| `parent_refresh` | 2 tasks, 2 parents, both modes, old copies of one parent, fair | 283k | pinning, freshness, no double flip, lock waits are not circular and end |
| `parent_lineage` | 3 tasks, 1 parent, 1 visit of an island, both modes | 209k | with tickets nobody's write is undone and the parent implements `ParentRecord`, until an island meddles; updates never remove a child |
| `parent_lineage_unevaluated` | 3 tasks, coalesced only, no island | violation | finding 2 |
| `dag_runner` | 2 programs, 2 DAGs at a time, 1 error, 1 kill, old copies of one program, fair | 424k | supervision, sets against blobs, nobody lost |
| `dag_exec` | 5 stages, 2 at a time, 2 evaluations, fair | 956k | current inputs, no stale result, all settled, implements `StageGraph`, ends |
| `islands` | 2 programs, 2 islands (one limited), 2 cells, 2 migrating tasks, 1 ingestor, 1 trouble | 1.8M | elites stay removable, cells only improve |
| `migration_bus` | 3 runs, bus and ring, 2 messages, stream of 1, buffer of 1, 2 troubles, one claim may expire, fair | 490k | one import per claim, by whom it is for, nothing passed over, cursor advances, all taken |

Why the bounds are enough.

* Engine: with N slots, N + 2 tasks let one wait at each semaphore while all slots are
  taken, and the cap is below the number of tasks so that the overshoot can occur.
* Snapshot: three writers (mutant, mutant or ingestor, `run()`) are one to hold the lock, one
  to wait with old arguments and one to fail; a second resume repeats the first.
* Refresh: two parents are needed to want two locks in opposite orders; tasks and their
  children recycle, so the run is not bounded in length.  One contested parent leaves the other
  one to relate it to; a parent that was overtaken is out of every property, so a second one
  would only shrink what is checked.
* Lineage: three tasks are one to flip, one to update with an old copy, and one that the
  result misleads.  A task makes one child and ends, so the run is finite by itself.  One visit
  of an island covers the merge and the trim at any distance from the writes of the others; one
  that does not meddle leaves nothing behind for a second one, and after one that does nothing
  is promised.
* Runner: the batch threshold of 2 is where one program's fate lies in another one's task;
  the programs are evaluated again and again, and a program that is not raced shares scheduler,
  batches and recovery with one that is.  With two programs the capacity is never short.  One
  error is one lost batch or failed marking, and the kill has a recovery after it that a lost
  batch of its own can meet.  `LeaveRaced` lets the engine do nothing more to a program once it
  is raced, since no property is about it any more; the runner goes on with it.
* DAG: `MCDagExec` has every kind of gate (required and optional input, `failure` and
  `always` order dependency), of cache, and of outcome; `source` has two
  outputs, so that a cached result can be stale in the second evaluation, and of three
  evaluations the third has no more history than the second, whose start is any result set.
* Islands: the two programs meet in one cell of one island and have a cell each in the
  limited one, so both replacement and trimming occur, and two tasks migrate at the same time.
  `MaxTroubles` is one: an operation that is given up leaves nothing behind that a second one
  could add to but another half-done migration.  Without troubles the same properties held
  with three islands, where two migrations can move a program to different ones (1.9M states),
  and in 8 million states of random behaviours with four programs.  `MaxGeneration` is one, so
  migrations happen in one generation; a second one restarts the same operations from more
  archives, which the simulation had.
* Bus: `MaxMessages` 2 with a stream of 1 and batches of 2 has trimming, skipped and
  partial batches and a full buffer; `Publishers` is one run, since a run skips its own
  messages and the others do not differ; `Disturbed` is one run (it is the reader next in the
  ring), and `MaxTroubles` 2 is a failure, stop or expiry, and one more after it: a claim that
  expires while its owner still holds the message, or after it was killed.

Symmetry is used only in safety runs, over task and mutant names nothing orders.  The VIEW of
`parent_refresh`, `parent_lineage`, `dag_runner` and `migration_bus` merges states that differ only in values
nothing reads again: a copy its task is done with, the history of a program that is out of
the properties.  `dag_runner`'s also merges all states in which every program is raced; its
properties hold of them whatever happens.
Deadlock is checked in `dag_runner`.  The other cfgs switch it off: engine and evaluations
stop, a process stays down after its last resume, all parents may have been discarded,
migrations stop at `MaxGeneration`, and a bus without messages to publish has nothing to do.

Fairness.  The event loop runs what can run: weak fairness per coroutine (dispatcher,
each task, poll, `run()`, scheduler, recovery, the loop of a DAG).  Model calls and refreshes
return (the refresh has a 600 s time-out), a stage ends within its time-out
(`Stage.execute` wraps `compute` in `wait_for`), a DAG within `dag_timeout`, and a cancelled task ends:
`_cancel_task` waits for it with a `wait_for` that cancels it once more after 2 s and then goes
on waiting.  `asyncio.Lock` is FIFO: strong fairness for taking a
lock.  On the bus a poll task or a stop that has begun goes on, and a run that went down is
started again; nothing makes a run publish, import, stop or die.  Nothing is
assumed of `stop()`, storage errors, time-outs of the scheduler, kills, and of the engine
where it is the runner's environment.

### Findings

1. `engine_stop_hangs`.  Non-strict mode: a mutant task that swallowed its cancellation after
   the persist waits for a buffer slot; the ingestor no longer frees any since `_running` is
   false, and it is only cancelled after the dispatcher's gather, which waits for the task.
   `stop()` hangs.
2. `parent_lineage_unevaluated`.  Coalesced refresh (the default): a lineage update whose
   copy of the parent was read before the flip carries DONE.  `update` merges it over the blob
   the runner has just marked RUNNING, and RUNNING to DONE is a valid transition.  The task
   that waits for the refreshed parent sees DONE and mutates the unevaluated one.

## 4. What the code does not keep

Promises that the models refute.  They are formulas of the modules without a run of their
own; to reproduce one, replace the properties of the named cfg by it (and deadlock stays
switched off).  TLC finds each in seconds; the size limit needs random behaviours
(`tlc -simulate num=20000000 -depth 150`).

| Formula | cfg | What happens |
|---|---|---|
| `ArchivedNotDiscarded` (`SteadyState`) | `SteadyStateStrict`, INVARIANT | A poll cancelled while `add_elite` awaits its transaction's reply leaves the program in the archive hash but not in the cache; the final sweep offers it again, the strict comparison with itself fails, and a member of the archive is discarded. |
| `ProducerSlotsReturn` (`SteadyState`) | `SteadyStatePipelined`, INVARIANT | `dispatcher.py:27` says that "a graceful restart finds _producer_sema at full capacity". A mutant task that the dispatcher cancels before its first step never enters its `try`, and nobody else gives back the slot the dispatcher acquired for it. |
| `PipelineDepthAlways` (`SteadyState`) | `SteadyStateStrict` or `SteadyStatePipelined`, INVARIANT | An add that raises although it took effect frees the slots of its task; its QUEUED program is evaluated beyond the limit, and nobody ingests it. |
| `NoGhost` (`SteadyState`) | `SteadyStateStrict`, INVARIANT | The same, and a task cancelled while the reply of its add is out: its program is in storage, to be evaluated, and no part of the engine knows of it. In non-strict mode also a task cancelled while it waits for its buffer slot. |
| `OrdinalsUnique` (`EngineSnapshot`) | `EngineSnapshot`, INVARIANT | A mutant is stored with its ordinal before any snapshot covers it; after a kill in between the next incarnation hands it out again.  After orderly stops it cannot happen (`OrdinalsUniqueOnResume`). |
| `SnapshotNeverRegresses` (`EngineSnapshot`) | `EngineSnapshot`, PROPERTY | A save that took effect but whose writer was cancelled leaves the mirror behind; the next writer is clamped against the mirror and stores smaller counters. |
| `FreshMeansRefreshed` (`ParentRefresh`) | `ParentRefresh` with `Spec`, three tasks, `Modes = {TRUE}`, INVARIANT | A task that selects a parent while another one refreshes it awaits but does not flip it.  A child that completes between the other's flip and its own marking clears the mark first, so the parent is marked fresh without an evaluation since. |
| `PendingAlwaysFindable` (`DagRunner`) | `DagRunner`, INVARIANT | An update of the engine with a copy that says QUEUED, read before the evaluation, merges QUEUED over DONE and leaves the id in the DONE set: nobody launches the program. |
| `SettledAlwaysIndexed` (`DagRunner`) | `DagRunner`, INVARIANT | Finding 2 seen from the sets: DONE merged over RUNNING leaves the id in the RUNNING set. |
| `OneTaskPerProgram` (`DagRunner`) | `DagRunner`, INVARIANT | The marking of a launch fails, the running tasks are cancelled without being awaited, and the next pass launches the program again while the first task is still writing. |
| `CompletedNotDiscarded` (`DagRunner`) | `DagRunner`, PROPERTY | A task that completes after it was classified as timed out only queues its DONE; the check reads RUNNING, discards the program, and the flush turns DISCARDED into DONE. |
| `LineageComplete` (`ParentLineage`) | `ParentLineage`, INVARIANT | Coalesced mode: the runner launched a copy of the parent, an update added a child, and the end of the evaluation writes the copy back without it.  With tickets it cannot happen. |
| `TicketsAlwaysKeepLineage` (`ParentLineage`) | `ParentLineage`, INVARIANT | Tickets do not bind the islands: a migration that read the parent DONE merges it over RUNNING (`island.py:160`), and a trim stores a copy without the children that were added since. |
| `HomeIsTrue` (`Islands`) | `Islands`, INVARIANT | `tests/evolution/test_island.py:607` says that a migration updates `current_island`.  The copy a migration merges into the blob is never newer than the blob, so the recorded island keeps its old value; and a trim that picks an elite another task has moved clears it. |
| `EliteSurvives` (`Islands`) | `Islands`, PROPERTY | Two ways to lose an elite that is neither beaten nor trimmed.  A removal looks up the cell of a program and deletes it in a second command, whoever is in it by then: a better program that was added in between is gone.  And a removal from the source whose reply was lost is repeated by `execute`, finds nothing, and so makes the migration roll back and remove the migrant from its destination, too (one program and one task suffice). |
| `SizeIsLimited` (`Islands`) | `Islands` with four programs, three cells, two islands, `MaxTroubles = 0`, `MaxMigrants = 2`, `MaxGeneration = 4`, INVARIANT | A trim makes the cache forget all victims, also one that another task added again meanwhile; the next trim computes how many to remove from a cache that lacks it, and leaves too many. |

That a message is imported at most once is refuted, too: the code lets a claim key expire
after `claim_ttl` (120 s), and a run that reads the message later, because it started late,
was slow, or comes back from its saved cursor, claims and imports it again, in the same run or
another.  `ImportedOnce` says what is left: one import per claim, so one more than the claim
expired.  The properties of `ParentRefresh` without `\ overtaken` do not hold either: by
finding 2 in the coalesced mode, by the merge of an island's copy with tickets.

Two things the models show not to happen although it is written that they do:
`tests/integration/test_brittleness.py:147-153` describes parallel mutations of one parent that
lose each other's children, the last writer winning.  `UpdateAddsChild` holds in every mode: the
update merges under WATCH; what loses a child is the runner's write (`LineageComplete`).  And
the warning about unresolved stages in `dag.py:264` is unreachable (`EndsResolved`, proved).

Seen while reading and not modelled: `EndpointPool.use` catches `Exception` only, so an
endpoint whose caller is cancelled counts as busy for good.  `PopulationSnapshot` takes a `bump` that
arrives during its fetch for answered by it, and an incremental update never fetches a DONE
program again, although a parent refresh changes its metrics and lineage.

## 5. Proofs

Each theorem has the form `Spec => []Inv`, `Spec => [][A]_vars` or, for the two refinements,
`Spec => AbstractSpec`, and holds for every value of the constants under the module's one
named assumption (finiteness of the tasks, at least one slot, Boolean switches, reserved names). Each proof module has a lemma per action or
group of actions and composes them in the step lemma.

* `SteadyStateProofs`: `TypeCorrect`, `SlotsConserved`, `TicketsInCustody`, `PendingTracked`,
  `SweepIsQuiescent`, `OvershootBounded`, `DepthBounded`, `StrictDrainNeverWaits`,
  `SlotWaitersAreServed`. Slot conservation is not inductive alone: that a release meets a
  held slot needs `Custody`, which ties `slotHeld`, `ticketHeld`, `pc` and `inFlight` to each
  other. The tasks that never started make up what the producer slots lack (`SlotsExact`),
  and there are none while the dispatcher spawns or when the stopper keeps its answer
  (`Unstarted`). The quiet sweep adds `Joins` (what each loop has waited for), the overshoot
  `Committed` (registered mutants plus tasks that will still register stay below the cap
  plus N - 1). The slots bound the depth only while the dispatcher spawns: then every pending
  mutant whose add did not raise late (`Accounted`) is in flight or with its task, and a poll
  gives a slot back only for a settled one (`Evaluations`). A cancelled task may leave a
  pending mutant behind whose slots are free again; from the drain on the depth holds because
  every task that could still add a mutant is cancelled (`Draining`). In strict mode this
  includes all that wait for a slot, so the drain waits for no slot that never comes back.

* `EngineSnapshotProofs`: `TypeCorrect`, `MirrorLags`, `AcknowledgedOrdinalsAreSafe`,
  `OrdinalsUniqueAfterStops`, `MirrorNeverRegresses`. `IInv` adds that only the lock holder
  is saving, that `pending` is above the mirror, that Redis is the mirror or a pending that
  was written, and that live counters, arguments and recorded ordinals are ordered; without
  the last part acknowledgement says nothing about the ordinals still in memory. Uniqueness
  after orderly stops needs `Orderly`: while no incarnation ended abruptly, the ordinals of
  stored mutants and of those that may still be stored lie between the seeds and the next
  ordinal, which is the live counter, or, when the process is down, the stored one; the
  finalizer's write carries the one over into the other. Redis itself may go back
  (`SnapshotNeverRegresses`, section 4); what does hold is that the mirror never does,
  kills and resumes included, and Redis is never below the mirror.

* `ParentRefreshProofs`: `TypeCorrect`, `TicketsPinParents`, `FreshParentsAreEvaluated`,
  `MutationsUseRefreshed`, `NeverDoubleFlipped`, `LocksNeverCycle`. `IInv` says who holds
  which lock at which point (`Pinning`), what the targets are (`Choice`), and that a
  pending flip still finds its parents out of evaluation unless they were overtaken
  (`Pending`), which is why reading and writing in two steps is safe among the refreshes and
  the runner. A write of an old copy takes its parent out of `IInv` for good, and the proof
  shows that it disturbs no other. That waiting is not circular rests on the sorted
  acquisition (`Acquisition`, `Sorted`): while a task locks, what it holds comes before
  what it misses. So in a finite set of waiting tasks the holder of the largest lock any of
  them waits for (`FiniteMaximum`) waits for none of them: it would wait for a larger one.

* `DagRunnerProofs`: `TypeCorrect`, `EveryTaskSupervised`, `PendingStaysFindable`,
  `SettledStaysIndexed`. Supervision is about all programs (`Supervised`); the rest is an
  invariant of each program by itself (`Sound`), kept by every step until the program is
  raced, so a program does not pay for the races of another one. A write of a blob alone
  (`write_exclusive`) is harmless only if the program is in the RUNNING set then, and a
  status transition only if the copy it is based on names the right set. So `Sound` follows
  the program through the runner: what the sets say of the blob (`Indexed`), that a copy the
  scheduler discards by is right about the QUEUED set (`CopyRead`), that a program on its way
  to DONE is not launched again (`Completion`), what a launch read and marked (`Launch`), that
  a task whose marking returned has a RUNNING program (`Evaluation`), and that a recovery
  half-way has its program in the RUNNING set still (`Recovery`). The lemmas go by actor:
  tasks, strays, maintenance, launch, engine, kill and recovery.

* `ParentLineageProofs`: `TypeCorrect`, `TicketsSerialiseWriters`, `UpdatesAddChildren`,
  `UpdatesFollowTransitions`, and the refinement `ImplementsRecord`. An update under way
  either wakes to a broken WATCH or still has the blob as its base (`UpdateInv`, every
  mode). With tickets, and until an island meddles (`TicketInv`), a task past its lock holds
  it, a parent in use is DONE, and while the runner has the parent nobody else writes it, so
  that the runner's copy has the children of the blob and what a running DAG writes changes
  nothing (`DagWritesKeep`). What an island read has no child the blob lacks
  (`ElitesAreBehind`, `MergeBehind`), so its merge changes no more than the state
  (`IslandUpdatesKeep`), which is to meddle; and a trim that does not meddle is that of a
  parent at rest (`IslandDiscardsKeep`). The refinement adds `RecordInv`: what an update is
  about to store differs from the blob by its own child only, and an evaluation ends on a
  parent that was marked RUNNING. So each write of a whole program changes one field.

* `DagExecProofs`: `TypeCorrect`, `InputsStayCurrent`, `RunsEndResolved`,
  `ResultsAreFresh`, and the refinement `ImplementsStageGraph`, for every graph without
  cycles. A stage is launched only when all it depends on is settled in this run
  (`RunningAllowed`), and what is settled is not touched again; so its inputs stay what it
  was given, its result belongs to them (`NothingStale`), and it settles as `StageGraph`
  demands (a stage's gate, once open, stays open: `GatesStay`). That the loop stops only
  with every stage settled needs the ranking: of the stages that are not settled one of
  smallest rank depends on settled ones only, and would have been skipped, reused or
  launched. The refinement needs the invariant in every step, because a tick settles what
  it skips and reuses together, and does so also while stages that it does not concern still
  run.

* `IslandsProofs`: `TypeCorrect`, `ElitesStayIndexed`, `KnownStayIndexed`,
  `CellsOnlyImprove`. A program is in no cell but its own (`InOwnCell`), which makes
  emptying a cell and dropping its program from the reverse hash the same thing; what a
  removal clears in storage its cache forgets too; and what is about to be committed is
  better than the occupant its check saw (`Sound`), the only one add_elite does not compare
  again. What a lost reply changes is a placing or an emptying as well, in an island that
  is `behind` from then on.

* `MigrationBusProofs`: `TypeCorrect`, `ImportedAtMostOnce`, `ClaimsAreConsumers`,
  `CursorsHideNothing`, `SavedCursorsAdvance`, for any runs, topology, limits and number of
  troubles. A batch is an interval of the stream that begins after the cursor, and what
  lies between was trimmed (`BatchesAhead`); so the cursor only moves forward, hides
  nothing, and is never behind the saved one (`CursorsOrdered`). What a run holds is in one
  place only (`HeldOnce`, `HeldBehind`). `ImportedOnce` is a count: imports and holders of a
  message never exceed the claims won for it (`HeldIsClaimed`). A claim adds one holder, a
  delivery or an import moves one from hand to hand, a kill or a full buffer only takes away
  (`HoldersCounted`, `HeldStep`), and an expiry turns the claim that stands into one that was
  (`ExpiryKeeps`).

Each `IInv`, and what is added to it, was first checked by TLC as an invariant. Every
safety property of the runs is stated by a theorem. Model-checked only: the liveness
properties (`InFlightReleased`, `StopTerminates`, `CapTerminates`, `RefreshEnds`,
`NoProgramLost`, `RunEnds`, `EventuallyTaken`), since fairness and ENABLED are out of the
prover's reach. Counterexamples are TLC's by nature.

## 6. Plan

Next, in this order:

1. `PopulationSnapshot`: epochs, the incremental update, collectors that are cancelled.
2. `stop()` of the runner, with the storage it closes under the engine.
3. Restart, re-indexing and mutation routes in `Islands`.
4. The life cycle of a program as an abstract specification that `DagRunner` implements, as
   `ParentLineage` implements `ParentRecord`.

## 7. Not modelled

Selection and routing (sampling over floats: a free choice in the models), scheduling
predictors (any launch order is allowed), prompts and model calls, metrics and logs, the
optional adversarial and memory services, the command line, monitoring and problem
definitions: most of the source lines, and none of them decides what a step of the engine
may do.  Of the core: the seed drain before the loops, the backpressure sampler, hooks other
than the post-run hook, the instance lock (its owner does not react to its loss, so nothing
depends on it), the endpoint pool (it only decides which endpoint serves a call), the
population snapshot, the event stream, and the (de)serialisation of programs.
