--------------------------- MODULE DagRunnerProofs ---------------------------
(***************************************************************************)
(* Proofs of the safety properties of DagRunner, for every number of       *)
(* programs and every limit.  That blobs and status sets stay in step      *)
(* although some writes touch only one of them, and others rest on copies  *)
(* read long before, needs the whole life of a program in the runner: who  *)
(* is in which phase, what the copies say, and in which set the program is *)
(* then.  All of it but the first part is said of one program at a time,   *)
(* for as long as no two writers have raced on it.                         *)
(***************************************************************************)
EXTENDS DagRunner, TLAPS

Queued == status["QUEUED"]
Running == status["RUNNING"]

\* Who can be where: a task that lives is in _active and has a copy of its
\* program, a program that is about to be launched or discarded is not, and a
\* restart begins with nothing.
Supervision ==
  /\ TasksSupervised
  /\ \A p \in Programs : Live(p) => mem[p] # "none"
  /\ sched = "launch" => \A p \in todo : mem[p] # "none"
  /\ sched = "markWrite" => patch \subseteq todo
  /\ \A p \in Programs : task[p] = "cancelled" => sched = "awaitTask" /\ current = {p}
  /\ sched \in {"orphans", "discardOrphan", "launch"} => todo \cap active = {} /\ patch \cap active = {}
  /\ sched = "discard" => current \cap active = {}
  /\ sched = "recover" => /\ Completed = {} /\ stray = {}
                          /\ \A p \in Programs : ~Live(p) /\ seen[p] = "none"

Supervised == TypeOK /\ Supervision

\* What the QUEUED and the RUNNING set say of the blob, and the blob of them.
Indexed(p) ==
  /\ ~(p \in Queued /\ p \in Running)
  /\ p \in Queued => blob[p] = "QUEUED"
  /\ p \in Running => blob[p] # "DONE"
  /\ blob[p] \in Pending => p \in Queued \/ p \in Running
  /\ blob[p] \in Settled => p \in status[blob[p]]

\* The copy the scheduler discards by.
CopyRead(p) ==
  /\ p \in Queued => seen[p] \in {"none", "QUEUED"}
  /\ sched = "discard" /\ p \in current => seen[p] # "none"
  /\ sched = "discardOrphan" /\ p \in todo => seen[p] # "none"

\* A program on its way to DONE is neither queued nor launched again.
Completion(p) ==
  p \in Completed =>
    /\ p \notin Queued /\ task[p] \in {"none", "flush"}
    /\ sched \in {"orphans", "discardOrphan"} => p \notin patch
    /\ sched \in {"launch", "markRead", "markWrite", "markReturn"} => p \notin todo

\* From Fetch to the write of the marking a program is QUEUED, and its copy says
\* so; from then on it is RUNNING.
Launch(p) ==
  /\ sched \in {"orphans", "discardOrphan"} /\ p \in patch => p \notin todo /\ p \in Queued
  /\ sched \in {"launch", "markRead", "markWrite"} /\ p \in todo => p \in Queued /\ mem[p] = "QUEUED"
  /\ sched = "markWrite" /\ p \in todo => p \in patch
  /\ sched = "markReturn" /\ p \in todo => p \in Running /\ mem[p] = "QUEUED"
  /\ p \in Marking => task[p] \in {"sema", "run"}

\* A task whose marking returned works on a program that is RUNNING; one that a
\* failed marking cancelled has a copy from before it.
Evaluation(p) ==
  /\ task[p] \in {"sema", "run", "failed", "cancelled"} /\ p \notin Marking =>
       p \in Running /\ mem[p] = "RUNNING"
  /\ \A s \in stray : s[1] = p => s[2] = "QUEUED"

\* A stranded program is RUNNING until its blob says QUEUED.
Recovery(p) ==
  sched = "recover" => /\ p \in todo => p \in Running
                       /\ p \in current => p \in todo /\ blob[p] = "QUEUED"

Sound(p) == Indexed(p) /\ CopyRead(p) /\ Completion(p) /\ Launch(p) /\ Evaluation(p) /\ Recovery(p)

IInv == Supervised /\ \A p \in Programs \ raced : Sound(p)

-----------------------------------------------------------------------------
(* Initial states *)

\* The invariants of the runner hold in the beginning.
LEMMA InitSupervised == Init => Supervised
BY DagRunnerAssumption DEF Init, Supervised, TypeOK, Supervision, TasksSupervised, Live, Completed,
   Status, TaskPc, SchedPc, Flushers

LEMMA IInvInit == Init => IInv
<1> SUFFICES ASSUME Init, NEW p \in Programs PROVE Sound(p)
  BY InitSupervised DEF IInv
<1>1. Completed = {}
  BY DEF Init, Completed
<1> QED BY <1>1 DEF Init, Sound, Indexed, CopyRead, Completion, Launch, Evaluation, Recovery,
           Marking, Queued, Running, Status, Pending, Settled

-----------------------------------------------------------------------------
(* Types and supervision *)

\* The steps of a task keep types and supervision.
LEMMA TaskSupervised ==
  ASSUME Supervised, NEW p \in Programs, TaskNext(p)
  PROVE  Supervised'
<1> USE DEF Supervised, TypeOK, Supervision, TasksSupervised, Live, Completed, Status, TaskPc,
            SchedPc, Flushers, storeVars, schedVars, taskVars, asideVars, boundVars, StorageError,
            TaskEnds, WriteBatch, MoveStatus, Discard, WriteExclusive, BatchLands, Race
<1>1. CASE TaskStart(p)
  BY <1>1 DEF TaskStart
<1>2. CASE DagSucceeds(p)
  BY <1>2 DEF DagSucceeds
<1>3. CASE TaskFlushes(p)
  BY <1>3 DEF TaskFlushes
<1>4. CASE DagFails(p)
  BY <1>4 DEF DagFails
<1>5. CASE FailureDiscards(p)
  BY <1>5 DEF FailureDiscards
<1>6. CASE CancelledTaskEnds(p)
  BY <1>6 DEF CancelledTaskEnds
<1> QED BY <1>1, <1>2, <1>3, <1>4, <1>5, <1>6 DEF TaskNext

\* So does the end of a task that nobody waits for.
LEMMA StraySupervised ==
  ASSUME Supervised, NEW s \in stray, StrayEnds(s)
  PROVE  Supervised'
<1> USE DEF Supervised, TypeOK, Supervision, TasksSupervised, Live, Completed, Status, TaskPc,
            SchedPc, Flushers, storeVars, schedVars, taskVars, asideVars, boundVars, StorageError,
            TaskEnds, WriteBatch, MoveStatus, Discard, WriteExclusive, BatchLands, Race
<1>1. CASE StrayEnds(s)
  BY <1>1 DEF StrayEnds
<1> QED BY <1>1

\* So do the steps of _maintain.
LEMMA MaintainSupervised ==
  ASSUME Supervised,
         \/ Classify \/ TakeDoneQueue \/ SchedulerFlushes
         \/ \E p \in Programs : CancelTimedOut(p) \/ GetTimedOut(p) \/ DiscardTimedOut(p)
  PROVE  Supervised'
<1> USE DEF Supervised, TypeOK, Supervision, TasksSupervised, Live, Completed, Status, TaskPc,
            SchedPc, Flushers, storeVars, schedVars, taskVars, asideVars, boundVars, StorageError,
            TaskEnds, WriteBatch, MoveStatus, Discard, WriteExclusive, BatchLands, Race
<1>1. CASE Classify
  BY <1>1 DEF Classify, CancelTask
<1>2. CASE TakeDoneQueue
  BY <1>2 DEF TakeDoneQueue
<1>3. CASE SchedulerFlushes
  BY <1>3 DEF SchedulerFlushes
<1>4. ASSUME NEW p \in Programs, CancelTimedOut(p) PROVE Supervised'
  BY <1>4 DEF CancelTimedOut, CancelTask
<1>5. ASSUME NEW p \in Programs, GetTimedOut(p) PROVE Supervised'
  BY <1>5 DEF GetTimedOut, Ended
<1>6. ASSUME NEW p \in Programs, DiscardTimedOut(p) PROVE Supervised'
  BY <1>6 DEF DiscardTimedOut
<1> QED BY <1>1, <1>2, <1>3, <1>4, <1>5, <1>6

\* So do the steps of _launch.
LEMMA LaunchSupervised ==
  ASSUME Supervised,
         \/ Fetch \/ ReadOrphans \/ ReadLaunch \/ CreateTasks
         \/ MarkRead \/ MarkWrite \/ MarkReturns \/ MarkFails
         \/ \E p \in Programs : DiscardOrphan(p) \/ BuildFails(p)
  PROVE  Supervised'
<1> USE DEF Supervised, TypeOK, Supervision, TasksSupervised, Live, Completed, Status, TaskPc,
            SchedPc, Flushers, storeVars, schedVars, taskVars, asideVars, boundVars, StorageError,
            TaskEnds, WriteBatch, MoveStatus, Discard, WriteExclusive, BatchLands, Race
<1>1. CASE Fetch
  BY <1>1 DEF Fetch, Orphans
<1>2. CASE ReadOrphans
  BY <1>2 DEF ReadOrphans
<1>3. CASE ReadLaunch
  BY <1>3 DEF ReadLaunch, LaunchUpToCapacity
<1>4. CASE CreateTasks
  BY <1>4 DEF CreateTasks
<1>5. CASE MarkRead
  BY <1>5 DEF MarkRead
<1>6. CASE MarkWrite
  BY <1>6 DEF MarkWrite
<1>7. CASE MarkReturns
  BY <1>7 DEF MarkReturns
<1>8. CASE MarkFails
  BY <1>8 DEF MarkFails
<1>9. ASSUME NEW p \in Programs, DiscardOrphan(p) PROVE Supervised'
  BY <1>9 DEF DiscardOrphan
<1>10. ASSUME NEW p \in Programs, BuildFails(p) PROVE Supervised'
  BY <1>10 DEF BuildFails
<1> QED BY <1>1, <1>2, <1>3, <1>4, <1>5, <1>6, <1>7, <1>8, <1>9, <1>10

\* So does the engine.
LEMMA EngineSupervised ==
  ASSUME Supervised, NEW p \in Programs, EngineNext(p)
  PROVE  Supervised'
<1> USE DEF Supervised, TypeOK, Supervision, TasksSupervised, Live, Completed, Status, TaskPc,
            SchedPc, Flushers, storeVars, schedVars, taskVars, asideVars, boundVars, StorageError,
            TaskEnds, WriteBatch, MoveStatus, Discard, WriteExclusive, BatchLands, Race
<1>1. CASE EngineIngests(p)
  BY <1>1 DEF EngineIngests, EngineReaches
<1>2. CASE EngineFlips(p)
  BY <1>2 DEF EngineFlips, EngineReaches, Races, Held
<1>3. CASE EngineDiscards(p)
  BY <1>3 DEF EngineDiscards, EngineReaches, Races, Held
<1>4. CASE EngineUpdates(p)
  BY <1>4 DEF EngineUpdates, EngineReaches, Races, Merge, Later, Held
<1> QED BY <1>1, <1>2, <1>3, <1>4 DEF EngineNext

\* So do a kill and the recovery after it.
LEMMA OutsideSupervised ==
  ASSUME Supervised,
         \/ Kill \/ RecoverStranded \/ UNCHANGED vars
  PROVE  Supervised'
<1> USE DEF Supervised, TypeOK, Supervision, TasksSupervised, Live, Completed, Status, TaskPc,
            SchedPc, Flushers, storeVars, schedVars, taskVars, asideVars, boundVars, StorageError,
            TaskEnds, WriteBatch, MoveStatus, Discard, WriteExclusive, BatchLands, Race
<1>1. CASE Kill
  BY <1>1 DEF Kill
<1>2. CASE Recovered
  BY <1>2 DEF Recovered
<1>3. ASSUME NEW p \in Programs, RecoverWrites(p) PROVE Supervised'
  BY <1>3 DEF RecoverWrites
<1>4. ASSUME NEW p \in Programs, RecoverMoves(p) PROVE Supervised'
  BY <1>4 DEF RecoverMoves
<1>5. CASE UNCHANGED vars
  BY <1>5 DEF vars
<1> QED BY <1>1, <1>2, <1>3, <1>4, <1>5 DEF RecoverStranded

\* Types and supervision are inductive.
LEMMA SupervisedStep == Supervised /\ [Next]_vars => Supervised'
BY TaskSupervised, StraySupervised, MaintainSupervised, LaunchSupervised, EngineSupervised,
   OutsideSupervised DEF Next, SchedulerNext

LEMMA SupervisedAlways == Spec => []Supervised
BY InitSupervised, SupervisedStep, PTL DEF Spec

-----------------------------------------------------------------------------
(* Sets and blobs of a program on which no two writers have raced *)

\* The steps of a task.
LEMMA TaskStep ==
  ASSUME Supervised, Supervised', NEW q \in Programs, q \notin raced', q \notin raced, Sound(q),
         NEW p \in Programs, TaskNext(p)
  PROVE  Sound(q)'
<1> USE DEF Supervised, TypeOK, Supervision, TasksSupervised, Live, Completed, Status, Flushers,
            Queued, Running, Pending, Settled, Marking, storeVars, schedVars, taskVars, asideVars,
            boundVars, StorageError, TaskEnds, WriteBatch, MoveStatus, Discard, WriteExclusive,
            BatchLands, Race,
            AtWork, Sound, Indexed, CopyRead, Completion, Launch, Evaluation, Recovery
<1>1. CASE TaskStart(p)
  BY <1>1 DEF TaskStart
<1>2. CASE DagSucceeds(p)
  BY <1>2 DEF DagSucceeds
<1>3. CASE TaskFlushes(p)
  BY <1>3 DEF TaskFlushes
<1>4. CASE DagFails(p)
  BY <1>4 DEF DagFails
<1>5. CASE FailureDiscards(p)
  BY <1>5 DEF FailureDiscards
<1>6. CASE CancelledTaskEnds(p)
  BY <1>6 DEF CancelledTaskEnds
<1> QED BY <1>1, <1>2, <1>3, <1>4, <1>5, <1>6 DEF TaskNext

\* The end of a task nobody waits for.
LEMMA StrayStep ==
  ASSUME Supervised, Supervised', NEW q \in Programs, q \notin raced', q \notin raced, Sound(q),
         NEW s \in stray, StrayEnds(s)
  PROVE  Sound(q)'
<1> USE DEF Supervised, TypeOK, Supervision, TasksSupervised, Live, Completed, Status, Flushers,
            Queued, Running, Pending, Settled, Marking, storeVars, schedVars, taskVars, asideVars,
            boundVars, StorageError, TaskEnds, WriteBatch, MoveStatus, Discard, WriteExclusive,
            BatchLands, Race,
            AtWork, Sound, Indexed, CopyRead, Completion, Launch, Evaluation, Recovery
<1>1. CASE StrayEnds(s)
  BY <1>1 DEF StrayEnds
<1> QED BY <1>1

\* The steps of _maintain.
LEMMA MaintainStep ==
  ASSUME Supervised, Supervised', NEW q \in Programs, q \notin raced', q \notin raced, Sound(q),
         \/ Classify \/ TakeDoneQueue \/ SchedulerFlushes
         \/ \E p \in Programs : CancelTimedOut(p) \/ GetTimedOut(p) \/ DiscardTimedOut(p)
  PROVE  Sound(q)'
<1> USE DEF Supervised, TypeOK, Supervision, TasksSupervised, Live, Completed, Status, Flushers,
            Queued, Running, Pending, Settled, Marking, storeVars, schedVars, taskVars, asideVars,
            boundVars, StorageError, TaskEnds, WriteBatch, MoveStatus, Discard, WriteExclusive,
            BatchLands, Race,
            AtWork, Sound, Indexed, CopyRead, Completion, Launch, Evaluation, Recovery
<1>1. CASE Classify
  BY <1>1 DEF Classify, CancelTask
<1>2. CASE TakeDoneQueue
  BY <1>2 DEF TakeDoneQueue
<1>3. CASE SchedulerFlushes
  BY <1>3 DEF SchedulerFlushes
<1>4. ASSUME NEW p \in Programs, CancelTimedOut(p) PROVE Sound(q)'
  BY <1>4 DEF CancelTimedOut, CancelTask
<1>5. ASSUME NEW p \in Programs, GetTimedOut(p) PROVE Sound(q)'
  BY <1>5 DEF GetTimedOut, Ended
<1>6. ASSUME NEW p \in Programs, DiscardTimedOut(p) PROVE Sound(q)'
  BY <1>6 DEF DiscardTimedOut
<1> QED BY <1>1, <1>2, <1>3, <1>4, <1>5, <1>6

\* The steps of _launch.
LEMMA LaunchStep ==
  ASSUME Supervised, Supervised', NEW q \in Programs, q \notin raced', q \notin raced, Sound(q),
         \/ Fetch \/ ReadOrphans \/ ReadLaunch \/ CreateTasks
         \/ MarkRead \/ MarkWrite \/ MarkReturns \/ MarkFails
         \/ \E p \in Programs : DiscardOrphan(p) \/ BuildFails(p)
  PROVE  Sound(q)'
<1> USE DEF Supervised, TypeOK, Supervision, TasksSupervised, Live, Completed, Status, Flushers,
            Queued, Running, Pending, Settled, Marking, storeVars, schedVars, taskVars, asideVars,
            boundVars, StorageError, TaskEnds, WriteBatch, MoveStatus, Discard, WriteExclusive,
            BatchLands, Race,
            AtWork, Sound, Indexed, CopyRead, Completion, Launch, Evaluation, Recovery
<1>1. CASE Fetch
  BY <1>1 DEF Fetch, Orphans
<1>2. CASE ReadOrphans
  BY <1>2 DEF ReadOrphans
<1>3. CASE ReadLaunch
  BY <1>3 DEF ReadLaunch, LaunchUpToCapacity
<1>4. CASE CreateTasks
  BY <1>4 DEF CreateTasks
<1>5. CASE MarkRead
  BY <1>5 DEF MarkRead
<1>6. CASE MarkWrite
  BY <1>6 DEF MarkWrite
<1>7. CASE MarkReturns
  BY <1>7 DEF MarkReturns
<1>8. CASE MarkFails
  <2>1. Indexed(q)'
    BY <1>8 DEF MarkFails
  <2>2. CopyRead(q)'
    BY <1>8 DEF MarkFails
  <2>3. Completion(q)'
    <3>1. Completed' \subseteq Completed
      <4>1. doneQueue' = doneQueue /\ \A f \in Flushers : batch'[f] \subseteq batch[f]
        BY <1>8 DEF MarkFails
      <4> QED BY ONLY <4>1 DEF Completed
    <3>2. task'[q] \in {task[q], "none"} /\ sched' = "idle" /\ status' = status
      BY <1>8 DEF MarkFails
    <3> HIDE DEF Completed
    <3> QED BY <3>1, <3>2
  <2>4. Launch(q)'
    BY <1>8 DEF MarkFails
  <2>5. Evaluation(q)'
    BY <1>8 DEF MarkFails
  <2>6. Recovery(q)'
    BY <1>8 DEF MarkFails
  <2> QED BY <2>1, <2>2, <2>3, <2>4, <2>5, <2>6
<1>9. ASSUME NEW p \in Programs, DiscardOrphan(p) PROVE Sound(q)'
  BY <1>9 DEF DiscardOrphan
<1>10. ASSUME NEW p \in Programs, BuildFails(p) PROVE Sound(q)'
  BY <1>10 DEF BuildFails
<1> QED BY <1>1, <1>2, <1>3, <1>4, <1>5, <1>6, <1>7, <1>8, <1>9, <1>10

\* The engine.
LEMMA EngineStep ==
  ASSUME Supervised, Supervised', NEW q \in Programs, q \notin raced', q \notin raced, Sound(q),
         NEW p \in Programs, EngineNext(p)
  PROVE  Sound(q)'
<1> USE DEF Supervised, TypeOK, Supervision, TasksSupervised, Live, Completed, Status, Flushers,
            Queued, Running, Pending, Settled, Marking, storeVars, schedVars, taskVars, asideVars,
            boundVars, StorageError, TaskEnds, WriteBatch, MoveStatus, Discard, WriteExclusive,
            BatchLands, Race,
            AtWork, Sound, Indexed, CopyRead, Completion, Launch, Evaluation, Recovery
<1>1. CASE EngineIngests(p)
  BY <1>1 DEF EngineIngests, EngineReaches
<1>2. CASE EngineFlips(p)
  BY <1>2 DEF EngineFlips, EngineReaches, Races, Held
<1>3. CASE EngineDiscards(p)
  BY <1>3 DEF EngineDiscards, EngineReaches, Races, Held
<1>4. CASE EngineUpdates(p)
  BY <1>4 DEF EngineUpdates, EngineReaches, Races, Merge, Later, Held
<1> QED BY <1>1, <1>2, <1>3, <1>4 DEF EngineNext

\* A kill and the recovery after it.
LEMMA OutsideStep ==
  ASSUME Supervised, Supervised', NEW q \in Programs, q \notin raced', q \notin raced, Sound(q),
         \/ Kill \/ RecoverStranded \/ UNCHANGED vars
  PROVE  Sound(q)'
<1> USE DEF Supervised, TypeOK, Supervision, TasksSupervised, Live, Completed, Status, Flushers,
            Queued, Running, Pending, Settled, Marking, storeVars, schedVars, taskVars, asideVars,
            boundVars, StorageError, TaskEnds, WriteBatch, MoveStatus, Discard, WriteExclusive,
            BatchLands, Race,
            AtWork, Sound, Indexed, CopyRead, Completion, Launch, Evaluation, Recovery
<1>1. CASE Kill
  BY <1>1 DEF Kill
<1>2. CASE Recovered
  BY <1>2 DEF Recovered
<1>3. ASSUME NEW p \in Programs, RecoverWrites(p) PROVE Sound(q)'
  BY <1>3 DEF RecoverWrites
<1>4. ASSUME NEW p \in Programs, RecoverMoves(p) PROVE Sound(q)'
  BY <1>4 DEF RecoverMoves
<1>5. CASE UNCHANGED vars
  BY <1>5 DEF vars
<1> QED BY <1>1, <1>2, <1>3, <1>4, <1>5 DEF RecoverStranded

\* A program that is raced stays so.
LEMMA RacedStays == [Next]_vars => raced \subseteq raced'
BY DEF Next, SchedulerNext, TaskNext, EngineNext, RecoverStranded, vars, asideVars, Race,
   TaskStart, DagSucceeds, TaskFlushes, DagFails, FailureDiscards, CancelledTaskEnds, StrayEnds,
   Classify, TakeDoneQueue, SchedulerFlushes, CancelTimedOut, GetTimedOut, DiscardTimedOut, Fetch,
   ReadOrphans, ReadLaunch, CreateTasks, MarkRead, MarkWrite, MarkReturns, MarkFails, DiscardOrphan,
   BuildFails, EngineIngests, EngineFlips, EngineDiscards, EngineUpdates, Kill, Recovered,
   RecoverWrites, RecoverMoves

\* The whole invariant is inductive.
LEMMA IInvStep == IInv /\ [Next]_vars => IInv'
<1> SUFFICES ASSUME IInv, [Next]_vars PROVE IInv'
  OBVIOUS
<1>1. Supervised /\ Supervised'
  BY SupervisedStep DEF IInv
<1>2. ASSUME NEW q \in Programs \ raced' PROVE Sound(q)'
  <2>1. q \notin raced /\ Sound(q)
    BY RacedStays DEF IInv
  <2> QED BY <1>1, <2>1, TaskStep, StrayStep, MaintainStep, LaunchStep, EngineStep, OutsideStep
          DEF Next, SchedulerNext
<1> QED BY <1>1, <1>2 DEF IInv

LEMMA IInvAlways == Spec => []IInv
BY IInvInit, IInvStep, PTL DEF Spec

-----------------------------------------------------------------------------
(* What the runner promises *)

\* The variables keep their types: no state in memory or in a blob is ever
\* missing when it is written (every writer of the runner).
THEOREM TypeCorrect == Spec => []TypeOK
<1>1. Supervised => TypeOK
  BY DEF Supervised
<1> QED BY <1>1, SupervisedAlways, PTL

\* Every task is in _active until it has ended, so the time-out reaches it,
\* through all ways of cancelling it, unless a failed marking cancelled it
\* (_maintain, _launch).
THEOREM EveryTaskSupervised == Spec => []TasksSupervised
<1>1. Supervised => TasksSupervised
  BY DEF Supervised, Supervision
<1> QED BY <1>1, SupervisedAlways, PTL

\* A program that is still to be evaluated is in a set the scheduler or the
\* recovery looks at, whatever failed, timed out or was killed, until two
\* writers race on it (the status sets of every transition).
THEOREM PendingStaysFindable == Spec => []PendingIsFindable
<1>1. IInv => PendingIsFindable
  BY DEF IInv, Sound, Indexed, PendingIsFindable, Queued, Running
<1> QED BY <1>1, IInvAlways, PTL

\* A settled program is in the set of its state until two writers race on it
\* (batch_transition_state, fast_state_transition, write_exclusive).
THEOREM SettledStaysIndexed == Spec => []SettledIsIndexed
<1>1. IInv => SettledIsIndexed
  BY DEF IInv, Sound, Indexed, SettledIsIndexed
<1> QED BY <1>1, IInvAlways, PTL
=============================================================================
