----------------------------- MODULE SteadyState -----------------------------
(***************************************************************************)
(* The control of the steady-state evolution engine                        *)
(* (gigaevo/evolution/engine): the dispatcher loop that spawns mutant      *)
(* tasks against _producer_sema, the mutant tasks (run_one_mutant and      *)
(* generate_one_mutation), the hand-over of buffer slot and parent ticket  *)
(* into _in_flight, the ingestor (poll_and_ingest) that releases them, and *)
(* run() / stop() with cancellation, the final sweep and the post-run      *)
(* hook.  The engine is one asyncio event loop: an action is the code      *)
(* between two suspension points, so what the code does without an await   *)
(* is atomic here too.  A cancelled task can only resume by receiving the  *)
(* CancelledError.                                                         *)
(*                                                                         *)
(* A task spawns at most one mutant, so a mutant has the name of its task. *)
(* Tasks bounds how many tasks the dispatcher ever spawns.  The program    *)
(* states are changed by the DAG runner, another part of the process,      *)
(* which is kept here as an environment, up to the end of the mutant's     *)
(* first evaluation: what happens to it as a parent is ParentRefresh's.    *)
(* The lifetime of the parent locks of a ticket is kept as its ownership;  *)
(* which locks it holds is not.                                            *)
(***************************************************************************)
EXTENDS Naturals, FiniteSets

CONSTANTS
  Tasks,            \* task ids the dispatcher may hand out
  MaxInFlight,      \* config.max_in_flight, the size of both semaphores
  MaxMutants,       \* MaxMutantsStopper.max_mutants
  Strict,           \* config.strict_in_flight
  Coalesce,         \* config.coalesce_refresh: no tickets are issued
  StatefulStopper,  \* the stopper may change its answer between two calls
  StorageMayFail    \* a storage call may raise, after it took effect or before

ASSUME SteadyStateAssumption ==
  /\ IsFiniteSet(Tasks)
  /\ MaxInFlight \in Nat \ {0}
  /\ MaxMutants \in Nat \ {0}
  /\ {Strict, Coalesce, StatefulStopper, StorageMayFail} \subseteq BOOLEAN

VARIABLES
  running,          \* engine._running
  stopRequested,    \* stop() has been called
  runPc,            \* where run() is
  hookRan,          \* post_run_hook.on_run_complete has been called
  dispatcher,       \* where dispatcher_loop is
  ingestor,         \* whether ingestor_loop still runs
  poll,             \* the locals of the current poll_and_ingest
  pc,               \* where each mutant task is
  cancelled,        \* tasks that have a cancellation to receive
  slotHeld,         \* tasks with buffer_held /\ ~slot_transferred
  ticketHeld,       \* tasks whose local ticket is not None
  producerSema,     \* value of _producer_sema
  bufferSema,       \* value of _buffer_sema
  inFlight,         \* _in_flight
  inflightTickets,  \* domain of _inflight_tickets
  mutationsCreated, \* metrics.mutations_created
  program,          \* state in storage of the mutant of each task
  archive,          \* mutants in the archive hash in storage
  cached,           \* mutants the archive's in-memory cache knows
  lateAdds,         \* history: storage.add raised though it had taken effect
  interruptedAdds   \* history: cancelled while the reply of storage.add was out

loopVars == <<running, stopRequested, runPc, hookRan, dispatcher>>
taskVars == <<pc, cancelled, slotHeld, ticketHeld, producerSema>>
slotVars == <<bufferSema, inFlight, inflightTickets>>
pollVars == <<ingestor, poll>>
archiveVars == <<archive, cached>>
addVars == <<lateAdds, interruptedAdds>>
dataVars == <<mutationsCreated, program, archive, cached, addVars>>
vars == <<loopVars, taskVars, slotVars, pollVars, dataVars>>

-----------------------------------------------------------------------------

RunPc == {"wait", "joinIngestor", "joinDispatcher", "finally",
          "closeDispatcher", "closeIngestor", "sweep", "saveSnapshot", "stopped"}
TaskPc == {"unborn", "slot", "select", "refresh", "generate", "adding",
           "lineage", "buffer", "snapshot", "exited", "neverStarted"}
PollPc == {"idle", "fetch", "batch", "offer", "release", "report"}
PollLocals == [at : PollPc, ids : SUBSET Tasks, leaked : SUBSET Tasks,
               completed : SUBSET Tasks, rejected : SUBSET Tasks]
ProgramState == {"none", "QUEUED", "RUNNING", "DONE", "DISCARDED"}

\* dispatcher_loop's `active`: a task leaves it when it is done.
Active == {t \in Tasks : pc[t] \notin {"unborn", "exited", "neverStarted"}}

\* The mutants waiting for their evaluation or in it.
Pending == {t \in Tasks : program[t] \in {"QUEUED", "RUNNING"}}

\* MaxMutantsStopper.should_stop through _reached_mutant_cap.
ReachedMutantCap == mutationsCreated >= MaxMutants

\* The condition the dispatcher checks before and after its acquire.
ShouldStopWithoutCap == ~running
ShouldStop == ~running \/ ReachedMutantCap

\* _producer_sema.acquire() can return.
ProducerSlotFree == dispatcher = "acquire" /\ producerSema > 0

IdlePoll == [at |-> "idle", ids |-> {}, leaked |-> {}, completed |-> {}, rejected |-> {}]

Init ==
  /\ running = TRUE
  /\ stopRequested = FALSE
  /\ runPc = "wait"
  /\ hookRan = FALSE
  /\ dispatcher = "acquire"
  /\ ingestor = "loop"
  /\ poll = IdlePoll
  /\ pc = [t \in Tasks |-> "unborn"]
  /\ cancelled = {}
  /\ slotHeld = {}
  /\ ticketHeld = {}
  /\ producerSema = MaxInFlight
  /\ bufferSema = MaxInFlight
  /\ inFlight = {}
  /\ inflightTickets = {}
  /\ mutationsCreated = 0
  /\ program = [t \in Tasks |-> "none"]
  /\ archive = {}
  /\ cached = {}
  /\ lateAdds = {}
  /\ interruptedAdds = {}

-----------------------------------------------------------------------------
(* dispatcher_loop *)

\* The `finally`: cancel every active task, then gather them.
DrainWithoutCancel == dispatcher' = "drain" /\ UNCHANGED cancelled
DrainDispatcher == dispatcher' = "drain" /\ cancelled' = Active

\* Where a new task suspends first.
FirstAwaitUnslotted == "select"
FirstAwait == IF Strict THEN "slot" ELSE "select"

\* A producer slot is acquired, the stopper re-checked, a task created; it
\* runs to its first suspension before anything else can cancel it.
Dispatch(t) ==
  /\ ProducerSlotFree /\ ~ShouldStop
  /\ pc[t] = "unborn"
  /\ pc' = [pc EXCEPT ![t] = FirstAwait]
  /\ producerSema' = producerSema - 1
  /\ UNCHANGED <<cancelled, slotHeld, ticketHeld, loopVars, slotVars, pollVars, dataVars>>

\* As long as slots are free, acquire does not suspend: several tasks are
\* created in one event-loop tick.  When the stopper stops the loop in that
\* tick, they are cancelled before their first step, so that their bodies and
\* with them their `finally` never run: nobody gives their slots back.
DispatchThenStop(S) ==
  /\ StatefulStopper
  /\ dispatcher = "acquire" /\ ~ShouldStop
  /\ S # {} /\ Cardinality(S) <= producerSema
  /\ \A t \in S : pc[t] = "unborn"
  /\ pc' = [t \in Tasks |-> IF t \in S THEN "neverStarted" ELSE pc[t]]
  /\ producerSema' = producerSema - Cardinality(S)
  /\ DrainDispatcher
  /\ UNCHANGED <<running, stopRequested, runPc, hookRan, slotHeld, ticketHeld,
                 slotVars, pollVars, dataVars>>

\* The check after acquire fails: hand the slot back and leave the loop.
DispatcherStops ==
  /\ ProducerSlotFree
  /\ ShouldStop \/ StatefulStopper
  /\ DrainDispatcher
  /\ UNCHANGED <<running, stopRequested, runPc, hookRan, pc, slotHeld, ticketHeld,
                 producerSema, slotVars, pollVars, dataVars>>

GatherSkipped == dispatcher = "drain"
Gathered == dispatcher = "drain" /\ Active = {}

DispatcherJoined ==
  /\ Gathered
  /\ dispatcher' = "done"
  /\ UNCHANGED <<running, stopRequested, runPc, hookRan, taskVars, slotVars, pollVars, dataVars>>

-----------------------------------------------------------------------------
(* run_one_mutant: one action from one suspension point to the next *)

\* The buffer slot the `finally` of run_one_mutant gives back.
SlotOfTaskTwice(t) == IF t \in slotHeld \cup inFlight THEN 1 ELSE 0
SlotOfTask(t) == IF t \in slotHeld THEN 1 ELSE 0

\* The `finally` of run_one_mutant.
Exit(t) ==
  /\ pc' = [pc EXCEPT ![t] = "exited"]
  /\ producerSema' = producerSema + 1
  /\ bufferSema' = bufferSema + SlotOfTask(t)
  /\ slotHeld' = slotHeld \ {t}
  /\ ticketHeld' = ticketHeld \ {t}
  /\ UNCHANGED <<inFlight, inflightTickets>>

\* The ticket that goes into _inflight_tickets with the mutant.
HandedTicketLost(t) == {} \cap {t}
HandedTicket(t) == ticketHeld \cap {t}

\* Registration in _in_flight: slot and ticket change hands in one step.
Register(t) ==
  /\ pc' = [pc EXCEPT ![t] = "snapshot"]
  /\ inFlight' = inFlight \cup {t}
  /\ inflightTickets' = inflightTickets \cup HandedTicket(t)
  /\ slotHeld' = slotHeld \ {t}
  /\ ticketHeld' = ticketHeld \ {t}
  /\ mutationsCreated' = mutationsCreated + 1

\* Strict mode: the slot comes first.
AcquireSlot(t) ==
  /\ pc[t] = "slot" /\ t \notin cancelled /\ bufferSema > 0
  /\ bufferSema' = bufferSema - 1
  /\ slotHeld' = slotHeld \cup {t}
  /\ pc' = [pc EXCEPT ![t] = "select"]
  /\ UNCHANGED <<cancelled, ticketHeld, producerSema, inFlight, inflightTickets,
                 loopVars, pollVars, dataVars>>

SelectParents(t) ==
  /\ pc[t] = "select" /\ t \notin cancelled
  /\ pc' = [pc EXCEPT ![t] = "refresh"]
  /\ UNCHANGED <<cancelled, slotHeld, ticketHeld, producerSema, loopVars, slotVars, pollVars, dataVars>>

\* refresh_with_ticket returns a ticket, refresh_if_stale none.
ParentsRefreshed(t) ==
  /\ pc[t] = "refresh" /\ t \notin cancelled
  /\ ticketHeld' = IF Coalesce THEN ticketHeld ELSE ticketHeld \cup {t}
  /\ pc' = [pc EXCEPT ![t] = "generate"]
  /\ UNCHANGED <<cancelled, slotHeld, producerSema, loopVars, slotVars, pollVars, dataVars>>

\* The model answered and storage.add took effect; its reply is on the way.
PersistMutant(t) ==
  /\ pc[t] = "generate" /\ t \notin cancelled
  /\ program' = [program EXCEPT ![t] = "QUEUED"]
  /\ pc' = [pc EXCEPT ![t] = "adding"]
  /\ UNCHANGED <<cancelled, slotHeld, ticketHeld, producerSema, mutationsCreated, archiveVars,
                 addVars, loopVars, slotVars, pollVars>>

\* The reply of the add was lost and the connection repeats it: the blob is
\* QUEUED again, whatever the runner has made of it meanwhile.
AddRepeated(t) ==
  /\ StorageMayFail
  /\ pc[t] = "adding" /\ t \notin cancelled
  /\ program' = [program EXCEPT ![t] = "QUEUED"]
  /\ UNCHANGED <<mutationsCreated, archiveVars, addVars, loopVars, taskVars, slotVars, pollVars>>

\* The add gave up after it had taken effect: generate_one_mutation knows of
\* no persisted program and returns None, so the task ends with all it held.
AddFails(t) ==
  /\ StorageMayFail
  /\ pc[t] = "adding" /\ t \notin cancelled
  /\ lateAdds' = lateAdds \cup {t}
  /\ Exit(t)
  /\ UNCHANGED <<cancelled, mutationsCreated, program, archiveVars, interruptedAdds,
                 loopVars, pollVars>>

AddReturns(t) ==
  /\ pc[t] = "adding" /\ t \notin cancelled
  /\ pc' = [pc EXCEPT ![t] = "lineage"]
  /\ UNCHANGED <<cancelled, slotHeld, ticketHeld, producerSema, loopVars, slotVars, pollVars, dataVars>>

\* The lineage update ends, fails or is cancelled: generate_one_mutation
\* returns the id in every case, so a cancellation is consumed here.
MutantPersisted(t) ==
  /\ pc[t] = "lineage"
  /\ cancelled' = cancelled \ {t}
  /\ \/ /\ Strict
        /\ Register(t)
        /\ UNCHANGED bufferSema
     \/ /\ ~Strict
        /\ pc' = [pc EXCEPT ![t] = "buffer"]
        /\ UNCHANGED <<slotHeld, ticketHeld, slotVars, mutationsCreated>>
  /\ UNCHANGED <<producerSema, program, archiveVars, addVars, loopVars, pollVars>>

\* Non-strict mode: the slot comes last, and registration with it.
AcquireBuffer(t) ==
  /\ pc[t] = "buffer" /\ t \notin cancelled /\ bufferSema > 0
  /\ bufferSema' = bufferSema - 1
  /\ Register(t)
  /\ UNCHANGED <<cancelled, producerSema, program, archiveVars, addVars, loopVars, pollVars>>

\* _write_snapshot returned or raised.
SnapshotWritten(t) ==
  /\ pc[t] = "snapshot" /\ t \notin cancelled
  /\ Exit(t)
  /\ UNCHANGED <<cancelled, loopVars, pollVars, dataVars>>

\* No parents, a refresh that failed or timed out, no mutant generated, or an
\* add that raised before it took effect.
MutantAborted(t) ==
  /\ pc[t] \in {"select", "refresh", "generate"} /\ t \notin cancelled
  /\ Exit(t)
  /\ UNCHANGED <<cancelled, loopVars, pollVars, dataVars>>

\* Where a CancelledError ends the task: not once storage.add has returned and
\* generate_one_mutation still runs.
CancelEnds(t) == t \in cancelled /\ pc[t] # "lineage"

MutantCancelled(t) ==
  /\ CancelEnds(t)
  /\ cancelled' = cancelled \ {t}
  /\ interruptedAdds' = IF pc[t] = "adding" THEN interruptedAdds \cup {t} ELSE interruptedAdds
  /\ Exit(t)
  /\ UNCHANGED <<mutationsCreated, program, archiveVars, lateAdds, loopVars, pollVars>>

-----------------------------------------------------------------------------
(* poll_and_ingest, run by the ingestor loop and by the final sweep *)

\* Whoever polls can take its next step: a cancelled ingestor cannot.
Polling ==
  \/ ingestor = "loop" /\ runPc \notin {"joinIngestor", "closeIngestor"}
  \/ runPc = "sweep"

InState(S, s) == {t \in S : program[t] = s}

\* The DISCARDED among the candidates, the leaks poll_and_ingest sweeps.
LeakedIgnored(ids) == {t \in ids : FALSE}
LeakedUnfinished(ids) == ids \ InState(ids, "DONE")
Leaked(ids) == InState(ids, "DISCARDED")

\* The buffer slots that come back with ids: one for each still in flight.
SlotsOfAdded(ids) == Cardinality(ids \cap archive)
SlotsDoubled(ids) == 2 * Cardinality(ids \cap inFlight)
SlotsOf(ids) == Cardinality(ids \cap inFlight)

\* Take ids out of _in_flight with their slots and tickets, then report.
ReleaseInFlight(ids) ==
  /\ inFlight' = inFlight \ ids
  /\ inflightTickets' = inflightTickets \ ids
  /\ bufferSema' = bufferSema + SlotsOf(ids)
  /\ poll' = [IdlePoll EXCEPT !.at = "report"]

PollStart ==
  /\ Polling /\ poll.at = "idle"
  /\ running \/ runPc = "sweep"
  /\ inFlight # {}
  /\ poll' = [IdlePoll EXCEPT !.at = "fetch", !.ids = inFlight]
  /\ UNCHANGED <<ingestor, loopVars, taskVars, slotVars, dataVars>>

\* The first mget: DONE candidates go on to the batch, DISCARDED are leaks.
PollFetch ==
  /\ Polling /\ poll.at = "fetch"
  /\ LET done == InState(poll.ids, "DONE")
         leaked == Leaked(poll.ids)
     IN \/ /\ done # {}
           /\ poll' = [poll EXCEPT !.at = "batch", !.ids = done, !.leaked = leaked]
           /\ UNCHANGED slotVars
        \/ /\ done = {} /\ leaked # {}
           /\ ReleaseInFlight(leaked)
        \/ /\ done = {} /\ leaked = {}
           /\ poll' = IdlePoll
           /\ UNCHANGED slotVars
  /\ UNCHANGED <<ingestor, loopVars, taskVars, dataVars>>

\* _ingest_batch fetches again and keeps what is still DONE.
BatchFetch ==
  /\ Polling /\ poll.at = "batch"
  /\ LET completed == InState(poll.ids, "DONE")
     IN poll' = [poll EXCEPT !.at = IF completed = {} THEN "release" ELSE "offer",
                             !.ids = completed, !.completed = completed]
  /\ UNCHANGED <<ingestor, loopVars, taskVars, slotVars, dataVars>>

\* The acceptor or the strategy may refuse a program, but not one the cache
\* of the archive knows: add_elite is idempotent for those.
MayReject(t) == t \in poll.ids \ cached

\* One turn of the loop over completed.  strategy.add stores the elite first
\* and then updates the program and trims the archive: an error of these is
\* an error of the turn, and the turn rejects the program.
Offer(t) ==
  /\ Polling /\ poll.at = "offer" /\ t \in poll.ids
  /\ \/ /\ archive' = archive \cup {t} /\ cached' = cached \cup {t}
        /\ poll' = [poll EXCEPT !.ids = @ \ {t}]
     \/ /\ MayReject(t)
        /\ poll' = [poll EXCEPT !.ids = @ \ {t}, !.rejected = @ \cup {t}]
        /\ UNCHANGED archiveVars
     \/ /\ StorageMayFail
        /\ archive' = archive \cup {t} /\ cached' = cached \cup {t}
        /\ poll' = [poll EXCEPT !.ids = @ \ {t}, !.rejected = @ \cup {t}]
  /\ UNCHANGED <<ingestor, loopVars, taskVars, slotVars, mutationsCreated, program, addVars>>

\* A pass cancelled inside strategy.add: the transaction of add_elite may
\* have taken effect, the cache does not know.
PassInterrupted ==
  /\ poll' = IdlePoll
  /\ UNCHANGED cached
  /\ \/ UNCHANGED archive
     \/ poll.at = "offer" /\ \E t \in poll.ids : archive' = archive \cup {t}

\* The batch DONE -> DISCARDED of the rejected; a failure is only logged.
DiscardRejected ==
  /\ Polling /\ poll.at = "offer" /\ poll.ids = {}
  /\ \/ program' = [t \in Tasks |-> IF t \in InState(poll.rejected, "DONE")
                                    THEN "DISCARDED" ELSE program[t]]
     \/ poll.rejected # {} /\ UNCHANGED program
  /\ poll' = [poll EXCEPT !.at = "release"]
  /\ UNCHANGED <<ingestor, loopVars, taskVars, slotVars, mutationsCreated, archiveVars, addVars>>

PollRelease ==
  /\ Polling /\ poll.at = "release"
  /\ ReleaseInFlight(poll.completed \cup poll.leaked)
  /\ UNCHANGED <<ingestor, loopVars, taskVars, dataVars>>

\* The snapshot write and the bounded post_step_hook.
PollReport ==
  /\ Polling /\ poll.at = "report"
  /\ poll' = IdlePoll
  /\ UNCHANGED <<ingestor, loopVars, taskVars, slotVars, dataVars>>

\* A storage error: the ingestor task ends with it, the sweep gives up.
PollFails ==
  /\ StorageMayFail
  /\ Polling /\ poll.at \in {"fetch", "batch", "report"}
  /\ poll' = IdlePoll
  /\ \/ /\ runPc = "sweep"
        /\ runPc' = "saveSnapshot"
        /\ UNCHANGED ingestor
     \/ /\ runPc # "sweep"
        /\ ingestor' = "failed"
        /\ UNCHANGED runPc
  /\ UNCHANGED <<running, stopRequested, hookRan, dispatcher, taskVars, slotVars, dataVars>>

\* `while engine._running` is false, or the cancellation arrived.
IngestorStops ==
  /\ ingestor = "loop"
  /\ \/ ~running /\ poll.at = "idle"
     \/ runPc \in {"joinIngestor", "closeIngestor"}
  /\ ingestor' = "stopped"
  /\ PassInterrupted
  /\ UNCHANGED <<loopVars, taskVars, slotVars, mutationsCreated, program, addVars>>

-----------------------------------------------------------------------------
(* run() and stop() *)

\* Cancelling the dispatcher interrupts its acquire or its gather; in both
\* cases every active task is cancelled (again).
CancelDispatcher ==
  IF dispatcher = "done" THEN UNCHANGED <<dispatcher, cancelled>> ELSE DrainDispatcher

\* asyncio.wait returned: one loop ended, cancel and await the other.
LoopEnded ==
  /\ runPc = "wait"
  /\ \/ /\ dispatcher = "done"
        /\ runPc' = "joinIngestor"
        /\ UNCHANGED <<dispatcher, cancelled>>
     \/ /\ dispatcher # "done" /\ ingestor # "loop"
        /\ runPc' = "joinDispatcher"
        /\ CancelDispatcher
  /\ UNCHANGED <<running, stopRequested, hookRan, pc, slotHeld, ticketHeld, producerSema,
                 slotVars, pollVars, dataVars>>

\* Both loops are over: the `finally` has nothing to cancel.
LoopsJoined ==
  /\ \/ runPc = "joinIngestor" /\ ingestor # "loop"
     \/ runPc = "joinDispatcher" /\ dispatcher = "done"
     \/ runPc = "closeIngestor" /\ ingestor # "loop"
  /\ running' = FALSE
  /\ runPc' = "sweep"
  /\ UNCHANGED <<stopRequested, hookRan, dispatcher, taskVars, slotVars, pollVars, dataVars>>

\* run() was cancelled in asyncio.wait: cancel the dispatcher first ...
CloseDispatcher ==
  /\ runPc = "finally"
  /\ runPc' = "closeDispatcher"
  /\ CancelDispatcher
  /\ UNCHANGED <<running, stopRequested, hookRan, pc, slotHeld, ticketHeld, producerSema,
                 slotVars, pollVars, dataVars>>

\* ... and the ingestor only once the dispatcher is done.
CloseIngestor ==
  /\ runPc = "closeDispatcher" /\ dispatcher = "done"
  /\ runPc' = "closeIngestor"
  /\ UNCHANGED <<running, stopRequested, hookRan, dispatcher, taskVars, slotVars, pollVars, dataVars>>

\* The sweep ends with _in_flight empty or at its deadline.
SweepEnds ==
  /\ runPc = "sweep" /\ poll.at = "idle"
  /\ runPc' = "saveSnapshot"
  /\ UNCHANGED <<running, stopRequested, hookRan, dispatcher, taskVars, slotVars, pollVars, dataVars>>

\* The final snapshot is written (or fails), the post-run hook is called.
RunEnds ==
  /\ runPc = "saveSnapshot"
  /\ runPc' = "stopped"
  /\ hookRan' = TRUE
  /\ UNCHANGED <<running, stopRequested, dispatcher, taskVars, slotVars, pollVars, dataVars>>

\* stop() clears _running and cancels run(), which receives it where it is:
\* while awaiting a loop it is passed on to that loop and suppressed, in
\* the sweep it ends the pass, in the final snapshot write nothing
\* catches it.
Stop ==
  /\ ~stopRequested /\ runPc # "stopped"
  /\ stopRequested' = TRUE
  /\ running' = FALSE
  /\ \/ /\ runPc = "wait"
        /\ runPc' = "finally"
        /\ UNCHANGED <<dispatcher, cancelled, poll, archiveVars>>
     \/ /\ runPc = "joinDispatcher"
        /\ CancelDispatcher
        /\ UNCHANGED <<runPc, poll, archiveVars>>
     \/ /\ runPc = "sweep"
        /\ runPc' = "saveSnapshot"
        /\ PassInterrupted
        /\ UNCHANGED <<dispatcher, cancelled>>
     \/ /\ runPc = "saveSnapshot"
        /\ runPc' = "stopped"
        /\ UNCHANGED <<dispatcher, cancelled, poll, archiveVars>>
     \/ /\ runPc = "joinIngestor"
        /\ UNCHANGED <<runPc, dispatcher, cancelled, poll, archiveVars>>
  /\ UNCHANGED <<hookRan, ingestor, pc, slotHeld, ticketHeld, producerSema, slotVars,
                 mutationsCreated, program, addVars>>

-----------------------------------------------------------------------------
(* The DAG runner, seen from the engine *)

RunnerStep(t, from, to) ==
  /\ program[t] = from
  /\ program' = [program EXCEPT ![t] = to]
  /\ UNCHANGED <<mutationsCreated, archiveVars, addVars, loopVars, taskVars, slotVars, pollVars>>

RunnerStarts(t) == RunnerStep(t, "QUEUED", "RUNNING")
RunnerCompletes(t) == RunnerStep(t, "RUNNING", "DONE")
RunnerDiscards(t) == RunnerStep(t, "QUEUED", "DISCARDED") \/ RunnerStep(t, "RUNNING", "DISCARDED")

-----------------------------------------------------------------------------

DispatcherNext ==
  \/ \E t \in Tasks : Dispatch(t)
  \/ \E S \in SUBSET Tasks : DispatchThenStop(S)
  \/ DispatcherStops \/ DispatcherJoined

\* The steps a task takes by itself, once spawned.
TaskNext(t) ==
  \/ AcquireSlot(t) \/ SelectParents(t) \/ ParentsRefreshed(t)
  \/ PersistMutant(t) \/ AddReturns(t) \/ MutantPersisted(t) \/ AcquireBuffer(t)
  \/ SnapshotWritten(t) \/ MutantAborted(t) \/ MutantCancelled(t)

\* What storage may do to a task that adds its mutant.
AddNext(t) == AddRepeated(t) \/ AddFails(t)

PollNext ==
  \/ PollStart \/ PollFetch \/ BatchFetch \/ (\E t \in Tasks : Offer(t))
  \/ DiscardRejected \/ PollRelease \/ PollReport \/ PollFails \/ IngestorStops

RunNext == LoopEnded \/ LoopsJoined \/ CloseDispatcher \/ CloseIngestor \/ SweepEnds \/ RunEnds

RunnerNext(t) == RunnerStarts(t) \/ RunnerCompletes(t) \/ RunnerDiscards(t)

Next ==
  \/ DispatcherNext
  \/ \E t \in Tasks : TaskNext(t) \/ AddNext(t)
  \/ PollNext
  \/ RunNext
  \/ Stop
  \/ \E t \in Tasks : RunnerNext(t)

Spec == Init /\ [][Next]_vars

\* Every coroutine that can run is run by the event loop; the model call and
\* the refresh return (the refresh has its 600 s timeout); the runner
\* evaluates what is queued within its dag_timeout.  Nothing is assumed of
\* stop() and of storage errors.
Fairness ==
  /\ WF_vars(DispatcherNext)
  /\ \A t \in Tasks : WF_vars(TaskNext(t)) /\ WF_vars(RunnerNext(t))
  /\ WF_vars(PollNext)
  /\ WF_vars(RunNext)

FairSpec == Spec /\ Fairness

-----------------------------------------------------------------------------
(* What the engine promises *)

\* Every variable has its type.
TypeOK ==
  /\ running \in BOOLEAN /\ stopRequested \in BOOLEAN /\ hookRan \in BOOLEAN
  /\ runPc \in RunPc
  /\ dispatcher \in {"acquire", "drain", "done"}
  /\ ingestor \in {"loop", "failed", "stopped"}
  /\ poll \in PollLocals
  /\ pc \in [Tasks -> TaskPc]
  /\ cancelled \subseteq Tasks /\ slotHeld \subseteq Tasks /\ ticketHeld \subseteq Tasks
  /\ inFlight \subseteq Tasks /\ inflightTickets \subseteq Tasks
  /\ archive \subseteq Tasks /\ cached \subseteq Tasks
  /\ lateAdds \subseteq Tasks /\ interruptedAdds \subseteq Tasks
  /\ producerSema \in Nat /\ bufferSema \in Nat /\ mutationsCreated \in Nat
  /\ program \in [Tasks -> ProgramState]

\* No exit path of a running mutant task, the ingestor, the sweep or a
\* cancellation loses or doubles a semaphore slot: the free producer slots and
\* the tasks alive make up max_in_flight, and so do the free buffer slots, the
\* ones tasks hold and the ones that went with a mutant into _in_flight
\* (run_one_mutant's `finally`, poll_and_ingest's release).  Tasks cancelled
\* before their first step give nothing back; none exists while the
\* dispatcher spawns, or with a stopper that does not change its answer.
SlotConservation ==
  /\ producerSema + Cardinality(Active) <= MaxInFlight
  /\ dispatcher = "acquire" \/ ~StatefulStopper =>
       producerSema + Cardinality(Active) = MaxInFlight
  /\ bufferSema + Cardinality(slotHeld) + Cardinality(inFlight) = MaxInFlight

\* "a graceful restart finds _producer_sema at full capacity"
\* (dispatcher.py:27).  Not kept by the code: README, "What the code does not
\* keep".
ProducerSlotsReturn == runPc = "stopped" => producerSema = MaxInFlight

\* A parent-refresh ticket has exactly one owner who will release it: the
\* task between refresh and registration, then the in-flight entry of its
\* mutant; in coalesced mode there is none (the hand-over in run_one_mutant
\* and the paired removal in poll_and_ingest).
TicketCustody ==
  /\ inflightTickets = IF Coalesce THEN {} ELSE inFlight
  /\ ticketHeld \cap inFlight = {}
  /\ \A t \in ticketHeld : ~Coalesce /\ pc[t] \in {"generate", "adding", "lineage", "buffer"}

\* Backpressure bounds the mutants waiting for or in evaluation: by
\* max_in_flight in strict mode, by twice that otherwise (the description of
\* max_in_flight and strict_in_flight in config.py).  A mutant whose add raised
\* late is beyond the slots and comes on top.
PipelineDepth ==
  Cardinality(Pending \ lateAdds) <= IF Strict THEN MaxInFlight ELSE 2 * MaxInFlight

\* The bound without that exception.  Not kept by the code: README, "What the
\* code does not keep".
PipelineDepthAlways ==
  Cardinality(Pending) <= IF Strict THEN MaxInFlight ELSE 2 * MaxInFlight

\* The stopper is checked when a task is spawned, the counter moves when its
\* mutant is registered: the cap is overshot by at most the other tasks that
\* were already running (dispatcher_loop's check after acquire).
BoundedOvershoot == mutationsCreated <= MaxMutants + MaxInFlight - 1

\* A mutant in the archive is not discarded by ingestion, even when it is
\* offered again after an interrupted pass ("the archive-member-is-DONE
\* invariant" of add_elite's idempotent re-add).  Not kept by the code: README,
\* "What the code does not keep".
ArchivedNotDiscarded == \A t \in archive : program[t] # "DISCARDED"

\* From the final sweep on nothing runs detached: no mutant task is alive, no
\* task holds a slot or a ticket and the ingestor loop is over, so the sweep
\* is alone with _in_flight (the joins in run() and dispatcher_loop).
QuiescentAtSweep ==
  runPc \in {"sweep", "saveSnapshot", "stopped"} =>
    /\ Active = {} /\ cancelled = {} /\ slotHeld = {} /\ ticketHeld = {}
    /\ dispatcher = "done" /\ ingestor # "loop"

\* A mutant that waits for its evaluation or is in it has somebody who will
\* take its result: it is in _in_flight, or its task is alive and will put it
\* there ("must still return the program ID so the engine can track it",
\* generate_one_mutation).  It holds in strict mode to the end of the engine,
\* otherwise until the dispatcher drains, and not of an add that raised late or
\* whose task was cancelled before it returned.
PendingIsTracked ==
  Strict \/ dispatcher = "acquire" =>
    \A t \in Pending \ (lateAdds \cup interruptedAdds) :
      t \in inFlight \/ pc[t] \in {"adding", "lineage", "buffer"}

\* The same without its exceptions ("CancelledError before persist",
\* generate_one_mutation).  Not kept by the code: README, "What the code does
\* not keep".
NoGhost == \A t \in Pending : t \in inFlight \/ pc[t] \in {"adding", "lineage", "buffer"}

\* Every mutant in flight gives its slot and ticket back, at the latest when
\* the engine stops with the mutant still unevaluated.
InFlightReleased ==
  \A t \in Tasks : (t \in inFlight) ~> (t \notin inFlight \/ runPc = "stopped")

\* stop() ends: the loops and every task they spawned come to rest.
StopTerminates == stopRequested ~> runPc = "stopped"

\* Reaching the cap of the stopper ends the run.
CapTerminates == ReachedMutantCap ~> runPc = "stopped"
=============================================================================
