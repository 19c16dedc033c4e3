--------------------------- MODULE SteadyStateProofs ---------------------------
(***************************************************************************)
(* Proofs about SteadyState, for every number of tasks, every              *)
(* max_in_flight and every mode.  The inductive invariant IInv joins the   *)
(* types, who holds what at which point of a task (Custody), the slot      *)
(* arithmetic (SlotsExact) and when a task may be cancelled before its     *)
(* first step (Unstarted): the arithmetic alone is not inductive, because  *)
(* a registration moves the slot of a task to _in_flight, which keeps the  *)
(* sum only if the task held one, and a poll gives back one slot per id,   *)
(* which is right only for ids that own one.                               *)
(***************************************************************************)
EXTENDS SteadyState, FiniteSetTheorems, TLAPS

\* The points of a task at which it owns a buffer slot, or a ticket.
SlotPc == {"select", "refresh", "generate", "adding", "lineage"}
TicketPc == {"generate", "adding", "lineage", "buffer"}

\* The tasks that took a producer slot and did not give it back: besides the
\* ones alive those that never started, which never will.
Spawned == {t \in Tasks : pc[t] \notin {"unborn", "exited"}}

\* The slot arithmetic with the lost slots on the account.
SlotsExact ==
  /\ producerSema + Cardinality(Spawned) = MaxInFlight
  /\ bufferSema + Cardinality(slotHeld) + Cardinality(inFlight) = MaxInFlight

\* A task that never started was cancelled by the end of the dispatcher's loop.
Unstarted ==
  \A t \in Tasks : pc[t] = "neverStarted" => StatefulStopper /\ dispatcher # "acquire"

\* Who holds what at which point of a task.
Custody ==
  /\ cancelled \subseteq Active
  /\ \A t \in Tasks : (pc[t] = "slot" => Strict) /\ (pc[t] = "buffer" => ~Strict)
  /\ \A t \in Tasks : t \in slotHeld <=> Strict /\ pc[t] \in SlotPc
  /\ \A t \in Tasks : t \in ticketHeld <=> ~Coalesce /\ pc[t] \in TicketPc
  /\ \A t \in inFlight : pc[t] \in {"snapshot", "exited"}
  /\ inflightTickets = IF Coalesce THEN {} ELSE inFlight

-----------------------------------------------------------------------------
(* What the groups of actions leave alone *)

\* Ingestion never touches a task.
LEMMA PollFrame == PollNext => UNCHANGED <<taskVars, mutationsCreated>>
BY DEF PollNext, PollStart, PollFetch, BatchFetch, Offer, DiscardRejected, PollRelease,
       PollReport, PollFails, IngestorStops, ReleaseInFlight, taskVars, dataVars

\* run() moves no slot, no ticket and no task; it may cancel tasks.
LEMMA RunFrame ==
  RunNext \/ Stop =>
    /\ UNCHANGED <<pc, slotHeld, ticketHeld, producerSema, slotVars, mutationsCreated>>
    /\ cancelled' \in {cancelled, Active}
BY DEF RunNext, Stop, LoopEnded, LoopsJoined, CloseDispatcher, CloseIngestor, SweepEnds,
       RunEnds, CancelDispatcher, DrainDispatcher, taskVars, dataVars, slotVars

\* The runner changes program states only.
LEMMA RunnerFrame ==
  ASSUME NEW t \in Tasks
  PROVE  RunnerNext(t) => UNCHANGED <<loopVars, taskVars, slotVars, pollVars, mutationsCreated>>
BY DEF RunnerNext, RunnerStarts, RunnerCompletes, RunnerDiscards, RunnerStep

-----------------------------------------------------------------------------
(* Type correctness *)

\* The number of slots a poll gives back is a number.
LEMMA SlotsOfType ==
  ASSUME TypeOK, SteadyStateAssumption, NEW ids
  PROVE  SlotsOf(ids) \in Nat
<1>1. IsFiniteSet(inFlight)
  BY FS_Subset DEF TypeOK, SteadyStateAssumption
<1>2. IsFiniteSet(ids \cap inFlight)
  BY <1>1, FS_Intersection
<1> QED BY <1>2, FS_CardinalityType DEF SlotsOf

\* The dispatcher's steps keep the types; an acquire takes a slot that is there.
LEMMA DispatcherType == SteadyStateAssumption /\ TypeOK /\ DispatcherNext => TypeOK'
<1> SUFFICES ASSUME SteadyStateAssumption, TypeOK, DispatcherNext PROVE TypeOK'
  OBVIOUS
<1> USE DEF TypeOK, loopVars, slotVars, pollVars, dataVars, addVars, taskVars, ProducerSlotFree
<1>1. ASSUME NEW t \in Tasks, Dispatch(t) PROVE TypeOK'
  BY <1>1 DEF Dispatch, FirstAwait, TaskPc
<1>2. ASSUME NEW S \in SUBSET Tasks, DispatchThenStop(S) PROVE TypeOK'
  <2>1. Cardinality(S) \in Nat
    BY FS_Subset, FS_CardinalityType DEF SteadyStateAssumption
  <2>2. producerSema' \in Nat
    BY <1>2, <2>1 DEF DispatchThenStop
  <2> QED BY <1>2, <2>2 DEF DispatchThenStop, DrainDispatcher, Active, TaskPc
<1>3. CASE DispatcherStops
  BY <1>3 DEF DispatcherStops, DrainDispatcher, Active
<1>4. CASE DispatcherJoined
  BY <1>4 DEF DispatcherJoined
<1> QED BY <1>1, <1>2, <1>3, <1>4 DEF DispatcherNext

\* A mutant task's steps keep the types.
LEMMA TaskType ==
  ASSUME NEW t \in Tasks
  PROVE  TypeOK /\ (TaskNext(t) \/ AddNext(t)) => TypeOK'
<1> SUFFICES ASSUME TypeOK, TaskNext(t) \/ AddNext(t) PROVE TypeOK'
  OBVIOUS
<1> USE DEF TypeOK, loopVars, slotVars, pollVars, dataVars, archiveVars, addVars, TaskPc
<1>1. CASE AcquireSlot(t)
  BY <1>1 DEF AcquireSlot
<1>2. CASE SelectParents(t) \/ ParentsRefreshed(t) \/ AddReturns(t)
  BY <1>2 DEF SelectParents, ParentsRefreshed, AddReturns
<1>3. CASE PersistMutant(t)
  BY <1>3 DEF PersistMutant, ProgramState
<1>4. CASE MutantPersisted(t)
  <2>1. CASE Strict
    BY <1>4, <2>1 DEF MutantPersisted, Register, HandedTicket
  <2>2. CASE ~Strict
    BY <1>4, <2>2 DEF MutantPersisted
  <2> QED BY <2>1, <2>2
<1>5. CASE AcquireBuffer(t)
  BY <1>5 DEF AcquireBuffer, Register, HandedTicket
<1>6. CASE SnapshotWritten(t) \/ MutantAborted(t) \/ MutantCancelled(t) \/ AddFails(t)
  <2>1. /\ Exit(t) /\ cancelled' \subseteq Tasks
        /\ UNCHANGED <<loopVars, pollVars, mutationsCreated, program, archiveVars>>
        /\ lateAdds' \subseteq Tasks /\ interruptedAdds' \subseteq Tasks
    BY <1>6 DEF SnapshotWritten, MutantAborted, MutantCancelled, AddFails
  <2>2. SlotOfTask(t) \in Nat
    BY DEF SlotOfTask
  <2> QED BY <2>1, <2>2 DEF Exit
<1>7. CASE AddRepeated(t)
  BY <1>7 DEF AddRepeated, ProgramState, taskVars
<1> QED BY <1>1, <1>2, <1>3, <1>4, <1>5, <1>6, <1>7 DEF TaskNext, AddNext

\* A pass cut short adds a mutant it was offering to the archive, or none.
LEMMA InterruptedType ==
  TypeOK /\ PassInterrupted => poll' = IdlePoll /\ cached' = cached /\ archive' \subseteq Tasks
<1> SUFFICES ASSUME TypeOK, PassInterrupted
             PROVE  poll' = IdlePoll /\ cached' = cached /\ archive' \subseteq Tasks
  OBVIOUS
<1>1. poll.ids \subseteq Tasks
  BY DEF TypeOK, PollLocals
<1> QED BY <1>1 DEF PassInterrupted, TypeOK

\* Ingestion keeps the types, the locals of a pass included.
LEMMA PollType == SteadyStateAssumption /\ TypeOK /\ PollNext => TypeOK'
<1> SUFFICES ASSUME SteadyStateAssumption, TypeOK, PollNext PROVE TypeOK'
  OBVIOUS
<1> USE DEF TypeOK, loopVars, slotVars, taskVars, dataVars, archiveVars, addVars, PollPc, PollLocals, IdlePoll
<1>0. ASSUME NEW ids, ReleaseInFlight(ids) PROVE /\ inFlight' \subseteq Tasks
                                                /\ inflightTickets' \subseteq Tasks
                                                /\ bufferSema' \in Nat
                                                /\ poll' = [IdlePoll EXCEPT !.at = "report"]
  BY <1>0, SlotsOfType DEF ReleaseInFlight
<1>1. CASE PollStart
  BY <1>1 DEF PollStart
<1>2. CASE PollFetch
  <2>1. CASE InState(poll.ids, "DONE") # {}
    <3>1. poll' = [poll EXCEPT !.at = "batch", !.ids = InState(poll.ids, "DONE"),
                               !.leaked = Leaked(poll.ids)]
          /\ UNCHANGED <<slotVars, ingestor, loopVars, taskVars, dataVars>>
      BY <1>2, <2>1 DEF PollFetch
    <3>2. InState(poll.ids, "DONE") \subseteq Tasks /\ Leaked(poll.ids) \subseteq Tasks
      BY DEF InState, Leaked
    <3> QED BY <3>1, <3>2
  <2>2. CASE InState(poll.ids, "DONE") = {} /\ Leaked(poll.ids) # {}
    <3>1. ReleaseInFlight(Leaked(poll.ids)) /\ UNCHANGED <<ingestor, loopVars, taskVars, dataVars>>
      BY <1>2, <2>2 DEF PollFetch
    <3> QED BY <3>1, <1>0
  <2>3. CASE InState(poll.ids, "DONE") = {} /\ Leaked(poll.ids) = {}
    BY <1>2, <2>3 DEF PollFetch
  <2> QED BY <2>1, <2>2, <2>3
<1>3. CASE BatchFetch
  BY <1>3 DEF BatchFetch, InState
<1>4. ASSUME NEW t \in Tasks, Offer(t) PROVE TypeOK'
  <2>1. poll' \in PollLocals
    <3>1. poll' \in {[poll EXCEPT !.ids = @ \ {t}],
                     [poll EXCEPT !.ids = @ \ {t}, !.rejected = @ \cup {t}]}
      BY <1>4 DEF Offer
    <3>2. CASE poll' = [poll EXCEPT !.ids = @ \ {t}]
      BY <3>2
    <3>3. CASE poll' = [poll EXCEPT !.ids = @ \ {t}, !.rejected = @ \cup {t}]
      BY <3>3
    <3> QED BY <3>1, <3>2, <3>3
  <2>2. archive' \subseteq Tasks /\ cached' \subseteq Tasks
    BY <1>4 DEF Offer
  <2> QED BY <1>4, <2>1, <2>2 DEF Offer
<1>5. CASE DiscardRejected
  BY <1>5 DEF DiscardRejected, ProgramState
<1>6. CASE PollRelease
  <2>1. ReleaseInFlight(poll.completed \cup poll.leaked)
        /\ UNCHANGED <<ingestor, loopVars, taskVars, dataVars>>
    BY <1>6 DEF PollRelease
  <2> QED BY <2>1, <1>0
<1>7. CASE PollReport
  BY <1>7 DEF PollReport
<1>8. CASE PollFails
  BY <1>8 DEF PollFails, RunPc
<1>9. CASE IngestorStops
  <2>1. poll' = IdlePoll /\ cached' = cached /\ archive' \subseteq Tasks
    BY <1>9, InterruptedType DEF IngestorStops
  <2> QED BY <1>9, <2>1 DEF IngestorStops
<1> QED BY <1>1, <1>2, <1>3, <1>4, <1>5, <1>6, <1>7, <1>8, <1>9 DEF PollNext

\* The control of run() and stop() keeps the types.
LEMMA RunType == TypeOK /\ (RunNext \/ Stop) => TypeOK'
<1> SUFFICES ASSUME TypeOK, RunNext \/ Stop PROVE TypeOK'
  OBVIOUS
<1> USE DEF TypeOK, taskVars, slotVars, pollVars, dataVars, addVars, RunPc, Active
<1>1. CASE LoopEnded
  BY <1>1 DEF LoopEnded, CancelDispatcher, DrainDispatcher
<1>2. CASE LoopsJoined \/ CloseIngestor \/ SweepEnds \/ RunEnds
  BY <1>2 DEF LoopsJoined, CloseIngestor, SweepEnds, RunEnds
<1>3. CASE CloseDispatcher
  BY <1>3 DEF CloseDispatcher, CancelDispatcher, DrainDispatcher
<1>4. CASE Stop
  <2>1. /\ runPc' \in RunPc /\ running' \in BOOLEAN /\ stopRequested' \in BOOLEAN
        /\ dispatcher' \in {"acquire", "drain", "done"} /\ cancelled' \subseteq Tasks
    BY <1>4 DEF Stop, CancelDispatcher, DrainDispatcher
  <2>2. poll' \in {poll, IdlePoll} /\ cached' = cached /\ archive' \subseteq Tasks
    BY <1>4, InterruptedType DEF Stop, archiveVars
  <2>3. IdlePoll \in PollLocals
    BY DEF IdlePoll, PollPc, PollLocals
  <2> QED BY <1>4, <2>1, <2>2, <2>3 DEF Stop
<1> QED BY <1>1, <1>2, <1>3, <1>4 DEF RunNext

\* The runner keeps the program states among the known ones.
LEMMA RunnerType ==
  ASSUME NEW t \in Tasks
  PROVE  TypeOK /\ RunnerNext(t) => TypeOK'
BY DEF TypeOK, RunnerNext, RunnerStarts, RunnerCompletes, RunnerDiscards, RunnerStep,
       ProgramState, loopVars, taskVars, slotVars, pollVars, archiveVars, addVars

\* A new engine is well typed.
LEMMA InitType == SteadyStateAssumption /\ Init => TypeOK
<1> SUFFICES ASSUME SteadyStateAssumption, Init PROVE TypeOK
  OBVIOUS
<1>1. IdlePoll \in PollLocals
  BY DEF IdlePoll, PollPc, PollLocals
<1>2. producerSema \in Nat /\ bufferSema \in Nat
  BY DEF SteadyStateAssumption, Init
<1> QED BY <1>1, <1>2 DEF Init, TypeOK, RunPc, TaskPc, ProgramState

\* The engine's variables keep their types.
THEOREM TypeCorrect == Spec => []TypeOK
<1>1. Init => TypeOK
  BY InitType, SteadyStateAssumption
<1>2. TypeOK /\ [Next]_vars => TypeOK'
  <2>1. TypeOK /\ UNCHANGED vars => TypeOK'
    BY DEF TypeOK, vars, loopVars, taskVars, slotVars, pollVars, dataVars, addVars
  <2> QED BY <2>1, SteadyStateAssumption, DispatcherType, TaskType, PollType, RunType, RunnerType
          DEF Next
<1> QED BY <1>1, <1>2, PTL DEF Spec

-----------------------------------------------------------------------------
(* Who holds what *)

\* Spawning gives a task nothing but its producer slot; draining cancels tasks
\* that are alive.
LEMMA DispatcherCustody == TypeOK /\ Custody /\ DispatcherNext => Custody'
<1> SUFFICES ASSUME TypeOK, Custody, DispatcherNext PROVE Custody'
  OBVIOUS
<1> USE DEF TypeOK, Custody, Active, SlotPc, TicketPc, slotVars
<1>1. ASSUME NEW t \in Tasks, Dispatch(t) PROVE Custody'
  BY <1>1 DEF Dispatch, FirstAwait
<1>2. ASSUME NEW S \in SUBSET Tasks, DispatchThenStop(S) PROVE Custody'
  BY <1>2 DEF DispatchThenStop, DrainDispatcher
<1>3. CASE DispatcherStops
  BY <1>3 DEF DispatcherStops, DrainDispatcher
<1>4. CASE DispatcherJoined
  BY <1>4 DEF DispatcherJoined, taskVars
<1> QED BY <1>1, <1>2, <1>3, <1>4 DEF DispatcherNext

\* A task that exits holds nothing any more; others are not affected.
LEMMA ExitCustody ==
  ASSUME TypeOK, Custody, NEW t \in Tasks, t \in Active, Exit(t),
         cancelled' = cancelled \ {t}
  PROVE  Custody'
BY DEF TypeOK, Custody, Active, SlotPc, TicketPc, Exit

\* A task that registers hands over what it holds.
LEMMA RegisterCustody ==
  ASSUME TypeOK, Custody, NEW t \in Tasks, pc[t] \in {"lineage", "buffer"}, Register(t),
         cancelled' \subseteq cancelled
  PROVE  Custody'
<1>1. cancelled' \subseteq Active'
  BY DEF TypeOK, Custody, Active, Register
<1>2. inflightTickets' = IF Coalesce THEN {} ELSE inFlight'
  BY DEF Custody, Register, HandedTicket, TicketPc
<1> QED BY <1>1, <1>2 DEF TypeOK, Custody, SlotPc, TicketPc, Register

\* Whatever a task does, it holds what its program point says.
LEMMA TaskCustody ==
  ASSUME NEW t \in Tasks
  PROVE  TypeOK /\ Custody /\ (TaskNext(t) \/ AddNext(t)) => Custody'
<1> SUFFICES ASSUME TypeOK, Custody, TaskNext(t) \/ AddNext(t) PROVE Custody'
  OBVIOUS
<1> USE DEF slotVars
<1>1. CASE AcquireSlot(t)
  BY <1>1 DEF AcquireSlot, TypeOK, Custody, Active, SlotPc, TicketPc
<1>2. CASE SelectParents(t)
  BY <1>2 DEF SelectParents, TypeOK, Custody, Active, SlotPc, TicketPc
<1>3. CASE ParentsRefreshed(t)
  BY <1>3 DEF ParentsRefreshed, TypeOK, Custody, Active, SlotPc, TicketPc
<1>4. CASE PersistMutant(t)
  BY <1>4 DEF PersistMutant, TypeOK, Custody, Active, SlotPc, TicketPc
<1>5. CASE AddReturns(t)
  BY <1>5 DEF AddReturns, TypeOK, Custody, Active, SlotPc, TicketPc
<1>6. CASE MutantPersisted(t)
  <2>1. CASE Strict
    BY <1>6, <2>1, RegisterCustody DEF MutantPersisted
  <2>2. CASE ~Strict
    BY <1>6, <2>2 DEF MutantPersisted, TypeOK, Custody, Active, SlotPc, TicketPc
  <2> QED BY <2>1, <2>2
<1>7. CASE AcquireBuffer(t)
  BY <1>7, RegisterCustody DEF AcquireBuffer
<1>8. CASE SnapshotWritten(t) \/ MutantAborted(t) \/ MutantCancelled(t) \/ AddFails(t)
  <2>1. Exit(t) /\ cancelled' = cancelled \ {t}
    BY <1>8 DEF SnapshotWritten, MutantAborted, MutantCancelled, AddFails, TypeOK
  <2>2. t \in Active
    BY <1>8 DEF SnapshotWritten, MutantAborted, MutantCancelled, AddFails, CancelEnds, Active,
                Custody
  <2> QED BY <2>1, <2>2, ExitCustody
<1>9. CASE AddRepeated(t)
  BY <1>9 DEF AddRepeated, taskVars, Custody, Active
<1> QED BY <1>1, <1>2, <1>3, <1>4, <1>5, <1>6, <1>7, <1>8, <1>9 DEF TaskNext, AddNext

\* What a poll does to _in_flight and to the slots.
LEMMA PollReleases ==
  PollNext => \/ UNCHANGED slotVars
              \/ \E ids : ReleaseInFlight(ids)
BY DEF PollNext, PollStart, PollFetch, BatchFetch, Offer, DiscardRejected, PollRelease,
       PollReport, PollFails, IngestorStops

\* A slot and the ticket that came with it leave _in_flight together.
LEMMA PollCustody == TypeOK /\ Custody /\ PollNext => Custody'
<1> SUFFICES ASSUME TypeOK, Custody, PollNext PROVE Custody'
  OBVIOUS
<1>1. UNCHANGED taskVars
  BY PollFrame
<1>2. CASE UNCHANGED slotVars
  BY <1>1, <1>2 DEF Custody, Active, taskVars, slotVars
<1>3. ASSUME NEW ids, ReleaseInFlight(ids) PROVE Custody'
  BY <1>1, <1>3 DEF Custody, Active, taskVars, ReleaseInFlight
<1> QED BY <1>2, <1>3, PollReleases

\* run() and stop() cancel tasks that are alive and take nothing from them.
LEMMA RunCustody == Custody /\ (RunNext \/ Stop) => Custody'
BY RunFrame DEF Custody, Active, slotVars

\* The runner has no part in who holds what.
LEMMA RunnerCustody ==
  ASSUME NEW t \in Tasks
  PROVE  Custody /\ RunnerNext(t) => Custody'
BY RunnerFrame DEF Custody, Active, taskVars, slotVars

-----------------------------------------------------------------------------
(* The slot arithmetic *)

\* Every set of tasks is finite.
LEMMA TasksFinite ==
  ASSUME SteadyStateAssumption, NEW S \in SUBSET Tasks
  PROVE  IsFiniteSet(S) /\ Cardinality(S) \in Nat
BY FS_Subset, FS_CardinalityType DEF SteadyStateAssumption

\* A set of tasks grows by one with a new member ...
LEMMA AddTask ==
  ASSUME SteadyStateAssumption, NEW S \in SUBSET Tasks, NEW t, t \notin S
  PROVE  Cardinality(S \cup {t}) = Cardinality(S) + 1
BY TasksFinite, FS_AddElement

\* ... and shrinks by one without a member it had.
LEMMA RemoveTask ==
  ASSUME SteadyStateAssumption, NEW S \in SUBSET Tasks, NEW t, t \in S
  PROVE  Cardinality(S \ {t}) = Cardinality(S) - 1
BY TasksFinite, FS_RemoveElement

\* A producer slot is taken for exactly the task that is created with it.
LEMMA DispatcherSlots ==
  SteadyStateAssumption /\ TypeOK /\ SlotsExact /\ DispatcherNext => SlotsExact'
<1> SUFFICES ASSUME SteadyStateAssumption, TypeOK, SlotsExact, DispatcherNext
             PROVE  SlotsExact'
  OBVIOUS
<1>0. Cardinality(Spawned) \in Nat /\ IsFiniteSet(Spawned)
  BY TasksFinite DEF Spawned
<1>1. ASSUME NEW t \in Tasks, Dispatch(t) PROVE SlotsExact'
  <2>1. Spawned' = Spawned \cup {t} /\ t \notin Spawned
    BY <1>1 DEF Dispatch, Spawned, FirstAwait, TypeOK
  <2>2. Cardinality(Spawned') = Cardinality(Spawned) + 1
    BY <2>1, AddTask DEF Spawned
  <2>3. producerSema' = producerSema - 1 /\ UNCHANGED <<slotHeld, slotVars>>
    BY <1>1 DEF Dispatch
  <2> QED BY <1>0, <2>2, <2>3 DEF SlotsExact, slotVars, TypeOK
<1>3. ASSUME NEW S \in SUBSET Tasks, DispatchThenStop(S) PROVE SlotsExact'
  <2>1. Spawned' = Spawned \cup S /\ Spawned \cap S = {}
    BY <1>3 DEF DispatchThenStop, Spawned, TypeOK
  <2>2. IsFiniteSet(S) /\ Cardinality(S) \in Nat
    BY TasksFinite
  <2>3. Cardinality(Spawned') = Cardinality(Spawned) + Cardinality(S)
    BY <1>0, <2>1, <2>2, FS_Union, FS_EmptySet
  <2>4. producerSema' = producerSema - Cardinality(S) /\ UNCHANGED <<slotHeld, slotVars>>
    BY <1>3 DEF DispatchThenStop
  <2> QED BY <1>0, <2>2, <2>3, <2>4 DEF SlotsExact, slotVars, TypeOK
<1>2. CASE DispatcherStops \/ DispatcherJoined
  BY <1>2 DEF DispatcherStops, DispatcherJoined, taskVars, slotVars, SlotsExact, Spawned
<1> QED BY <1>1, <1>2, <1>3 DEF DispatcherNext

\* The `finally` of a task gives back its producer slot and the buffer slot
\* it still holds, each once.
LEMMA ExitSlots ==
  ASSUME SteadyStateAssumption, TypeOK, SlotsExact, NEW t \in Active, Exit(t)
  PROVE  SlotsExact'
<1>1. Spawned' = Spawned \ {t} /\ t \in Spawned
  BY DEF Exit, Spawned, Active, TypeOK
<1>2. Cardinality(Spawned') = Cardinality(Spawned) - 1 /\ Cardinality(Spawned) \in Nat
  BY <1>1, RemoveTask, TasksFinite DEF Spawned
<1>3. producerSema' + Cardinality(Spawned') = MaxInFlight
  BY <1>2 DEF Exit, SlotsExact, TypeOK
<1>4. Cardinality(slotHeld) \in Nat /\ Cardinality(inFlight) \in Nat
  BY TasksFinite DEF TypeOK
<1>5. CASE t \in slotHeld
  <2>1. Cardinality(slotHeld') = Cardinality(slotHeld) - 1
    BY <1>5, RemoveTask DEF Exit, TypeOK
  <2> QED BY <1>3, <1>4, <1>5, <2>1 DEF Exit, SlotOfTask, SlotsExact, TypeOK
<1>6. CASE t \notin slotHeld
  <2>1. slotHeld' = slotHeld /\ inFlight' = inFlight
    BY <1>6 DEF Exit
  <2>2. bufferSema' = bufferSema
    BY <1>6 DEF Exit, SlotOfTask, TypeOK
  <2> QED BY <1>3, <2>1, <2>2 DEF SlotsExact
<1> QED BY <1>5, <1>6

\* A task's steps keep both sums; registration needs Custody: the slot that
\* goes into _in_flight is one the task owned.
LEMMA TaskSlots ==
  ASSUME NEW t \in Tasks
  PROVE  SteadyStateAssumption /\ TypeOK /\ Custody /\ SlotsExact
           /\ (TaskNext(t) \/ AddNext(t)) => SlotsExact'
<1> SUFFICES ASSUME SteadyStateAssumption, TypeOK, Custody, SlotsExact,
                    TaskNext(t) \/ AddNext(t)
             PROVE  SlotsExact'
  OBVIOUS
<1>0. Cardinality(slotHeld) \in Nat /\ Cardinality(inFlight) \in Nat
  BY TasksFinite DEF TypeOK
<1>1. CASE AcquireSlot(t)
  <2>1. Spawned' = Spawned /\ producerSema' = producerSema
    BY <1>1 DEF AcquireSlot, Spawned, TypeOK
  <2>2. Cardinality(slotHeld') = Cardinality(slotHeld) + 1
    BY <1>1, AddTask DEF AcquireSlot, Custody, SlotPc, TypeOK
  <2> QED BY <1>0, <1>1, <2>1, <2>2 DEF AcquireSlot, SlotsExact, TypeOK
<1>2. CASE SelectParents(t) \/ ParentsRefreshed(t) \/ PersistMutant(t) \/ AddReturns(t)
  <2>1. Spawned' = Spawned
    BY <1>2 DEF SelectParents, ParentsRefreshed, PersistMutant, AddReturns, Spawned, TypeOK
  <2> QED BY <1>2, <2>1 DEF SelectParents, ParentsRefreshed, PersistMutant, AddReturns, slotVars,
                            SlotsExact
<1>3. CASE MutantPersisted(t) /\ ~Strict
  <2>1. Spawned' = Spawned /\ UNCHANGED <<slotHeld, slotVars, producerSema>>
    BY <1>3 DEF MutantPersisted, Spawned, TypeOK
  <2> QED BY <2>1 DEF SlotsExact, slotVars
<1>4. CASE MutantPersisted(t) /\ Strict
  <2>1. Spawned' = Spawned /\ UNCHANGED <<bufferSema, producerSema>>
    BY <1>4 DEF MutantPersisted, Register, Spawned, TypeOK
  <2>2. t \in slotHeld /\ t \notin inFlight
    BY <1>4 DEF MutantPersisted, Custody, SlotPc
  <2>3. slotHeld' = slotHeld \ {t} /\ inFlight' = inFlight \cup {t}
    BY <1>4 DEF MutantPersisted, Register
  <2>4. Cardinality(slotHeld') = Cardinality(slotHeld) - 1
    BY <2>2, <2>3, RemoveTask DEF TypeOK
  <2>5. Cardinality(inFlight') = Cardinality(inFlight) + 1
    BY <2>2, <2>3, AddTask DEF TypeOK
  <2> QED BY <1>0, <2>1, <2>4, <2>5 DEF SlotsExact, TypeOK
<1>5. CASE AcquireBuffer(t)
  <2>1. Spawned' = Spawned /\ producerSema' = producerSema /\ bufferSema' = bufferSema - 1
    BY <1>5 DEF AcquireBuffer, Register, Spawned, TypeOK
  <2>2. t \notin slotHeld /\ t \notin inFlight
    BY <1>5 DEF AcquireBuffer, Custody, SlotPc
  <2>3. slotHeld' = slotHeld /\ inFlight' = inFlight \cup {t}
    BY <1>5, <2>2 DEF AcquireBuffer, Register
  <2>4. Cardinality(inFlight') = Cardinality(inFlight) + 1
    BY <2>2, <2>3, AddTask DEF TypeOK
  <2> QED BY <1>0, <2>1, <2>3, <2>4 DEF SlotsExact, TypeOK
<1>6. CASE SnapshotWritten(t) \/ MutantAborted(t) \/ MutantCancelled(t) \/ AddFails(t)
  <2>1. Exit(t) /\ t \in Active
    BY <1>6 DEF SnapshotWritten, MutantAborted, MutantCancelled, AddFails, CancelEnds, Active,
                Custody
  <2> QED BY <2>1, ExitSlots
<1>7. CASE AddRepeated(t)
  BY <1>7 DEF AddRepeated, taskVars, slotVars, SlotsExact, Spawned
<1> QED BY <1>1, <1>2, <1>3, <1>4, <1>5, <1>6, <1>7 DEF TaskNext, AddNext

\* A poll gives back as many slots as it takes mutants out of _in_flight.
LEMMA PollSlots ==
  SteadyStateAssumption /\ TypeOK /\ SlotsExact /\ PollNext => SlotsExact'
<1> SUFFICES ASSUME SteadyStateAssumption, TypeOK, SlotsExact, PollNext
             PROVE  SlotsExact'
  OBVIOUS
<1>1. Spawned' = Spawned /\ UNCHANGED <<producerSema, slotHeld>>
  BY PollFrame DEF Spawned, taskVars
<1>2. CASE UNCHANGED slotVars
  BY <1>1, <1>2 DEF SlotsExact, slotVars
<1>3. ASSUME NEW ids, ReleaseInFlight(ids) PROVE SlotsExact'
  <2>1. IsFiniteSet(inFlight) /\ Cardinality(inFlight) \in Nat /\ Cardinality(slotHeld) \in Nat
    BY TasksFinite DEF TypeOK
  <2>2. Cardinality(inFlight \ ids) = Cardinality(inFlight) - Cardinality(inFlight \cap ids)
    BY <2>1, FS_Difference
  <2>3. ids \cap inFlight = inFlight \cap ids
    OBVIOUS
  <2>4. Cardinality(inFlight') = Cardinality(inFlight) - SlotsOf(ids)
    BY <1>3, <2>2, <2>3 DEF ReleaseInFlight, SlotsOf
  <2>5. SlotsOf(ids) \in Nat
    BY SlotsOfType
  <2> QED BY <1>1, <1>3, <2>1, <2>4, <2>5 DEF ReleaseInFlight, SlotsExact, TypeOK
<1> QED BY <1>2, <1>3, PollReleases

-----------------------------------------------------------------------------
(* The inductive invariant *)

IInv == TypeOK /\ Custody /\ SlotsExact /\ Unstarted

\* A task is left unstarted only by the step that ends the dispatcher's loop.
LEMMA UnstartedStep == TypeOK /\ Custody /\ Unstarted /\ [Next]_vars => Unstarted'
<1> SUFFICES ASSUME TypeOK, Custody, Unstarted, [Next]_vars PROVE Unstarted'
  OBVIOUS
<1> USE DEF Unstarted
<1>1. ASSUME NEW t \in Tasks, Dispatch(t) PROVE Unstarted'
  BY <1>1 DEF Dispatch, FirstAwait, loopVars, TypeOK
<1>2. ASSUME NEW S \in SUBSET Tasks, DispatchThenStop(S) PROVE Unstarted'
  BY <1>2 DEF DispatchThenStop, DrainDispatcher, TypeOK
<1>3. CASE DispatcherStops \/ DispatcherJoined
  BY <1>3 DEF DispatcherStops, DispatcherJoined, DrainDispatcher, Gathered, taskVars
<1>4. ASSUME NEW t \in Tasks, TaskNext(t) \/ AddNext(t) PROVE Unstarted'
  <2>1. UNCHANGED dispatcher
    BY <1>4 DEF TaskNext, AddNext, AddRepeated, AddFails, AcquireSlot, SelectParents,
       ParentsRefreshed, PersistMutant, AddReturns, MutantPersisted, AcquireBuffer,
       SnapshotWritten, MutantAborted, MutantCancelled, loopVars
  <2>2. pc' = pc \/ \E x \in TaskPc \ {"neverStarted"} : pc' = [pc EXCEPT ![t] = x]
    BY <1>4 DEF TaskNext, AddNext, AddRepeated, AddFails, AcquireSlot, SelectParents,
       ParentsRefreshed, PersistMutant, AddReturns, MutantPersisted, AcquireBuffer,
       SnapshotWritten, MutantAborted, MutantCancelled, Register, Exit, taskVars, TaskPc
  <2> QED BY <2>1, <2>2 DEF TypeOK
<1>5. CASE PollNext
  <2>1. UNCHANGED <<pc, dispatcher>>
    BY <1>5, PollFrame DEF PollNext, PollStart, PollFetch, BatchFetch, Offer, DiscardRejected,
       PollRelease, PollReport, PollFails, IngestorStops, taskVars, loopVars
  <2> QED BY <2>1
<1>6. CASE RunNext \/ Stop
  <2>1. UNCHANGED pc /\ dispatcher' \in {dispatcher, "drain"}
    BY <1>6, RunFrame DEF RunNext, Stop, LoopEnded, LoopsJoined, CloseDispatcher, CloseIngestor,
       SweepEnds, RunEnds, CancelDispatcher, DrainDispatcher
  <2> QED BY <2>1
<1>7. ASSUME NEW t \in Tasks, RunnerNext(t) PROVE Unstarted'
  BY <1>7, RunnerFrame DEF loopVars, taskVars
<1>8. CASE UNCHANGED vars
  BY <1>8 DEF vars, loopVars, taskVars
<1> QED BY <1>1, <1>2, <1>3, <1>4, <1>5, <1>6, <1>7, <1>8 DEF Next, DispatcherNext

\* The inductive invariant holds of a new engine ...
LEMMA IInvInit == SteadyStateAssumption /\ Init => IInv
<1> SUFFICES ASSUME SteadyStateAssumption, Init PROVE IInv
  OBVIOUS
<1>1. TypeOK
  BY InitType
<1>2. Custody
  BY DEF Init, Custody, Active, SlotPc, TicketPc
<1>3. Spawned = {} /\ Cardinality({}) = 0
  BY FS_EmptySet DEF Init, Spawned
<1>4. SlotsExact
  BY <1>3 DEF Init, SlotsExact, SteadyStateAssumption
<1>5. Unstarted
  BY DEF Init, Unstarted
<1> QED BY <1>1, <1>2, <1>4, <1>5 DEF IInv

\* ... and every step keeps it ...
LEMMA IInvStep == SteadyStateAssumption /\ IInv /\ [Next]_vars => IInv'
<1> SUFFICES ASSUME SteadyStateAssumption, IInv, [Next]_vars PROVE IInv'
  OBVIOUS
<1> USE DEF IInv
<1>0. Unstarted'
  BY UnstartedStep
<1> USE <1>0
<1>1. CASE DispatcherNext
  BY <1>1, DispatcherType, DispatcherCustody, DispatcherSlots
<1>2. ASSUME NEW t \in Tasks, TaskNext(t) \/ AddNext(t) PROVE IInv'
  BY <1>2, TaskType, TaskCustody, TaskSlots
<1>3. CASE PollNext
  BY <1>3, PollType, PollCustody, PollSlots
<1>4. CASE RunNext \/ Stop
  <2>1. SlotsExact'
    BY <1>4, RunFrame DEF SlotsExact, Spawned, slotVars
  <2> QED BY <1>4, <2>1, RunType, RunCustody
<1>5. ASSUME NEW t \in Tasks, RunnerNext(t) PROVE IInv'
  <2>1. SlotsExact'
    BY <1>5, RunnerFrame DEF SlotsExact, Spawned, taskVars, slotVars
  <2> QED BY <1>5, <2>1, RunnerType, RunnerCustody
<1>6. CASE UNCHANGED vars
  BY <1>6 DEF TypeOK, Custody, SlotsExact, Active, Spawned, vars, loopVars, taskVars,
              slotVars, pollVars, dataVars, addVars
<1> QED BY <1>1, <1>2, <1>3, <1>4, <1>5, <1>6 DEF Next

\* ... so it holds of every state the engine reaches.
LEMMA Inductive == Spec => []IInv
BY SteadyStateAssumption, IInvInit, IInvStep, PTL DEF Spec

\* While the dispatcher spawns, or with a stopper that does not change its
\* answer, no semaphore slot is lost or doubled, whatever is cancelled or
\* fails; a producer slot is never doubled (run_one_mutant's `finally`).
THEOREM SlotsConserved == Spec => []SlotConservation
<1>1. SteadyStateAssumption /\ IInv => SlotConservation
  <2> SUFFICES ASSUME SteadyStateAssumption, IInv PROVE SlotConservation
    OBVIOUS
  <2>1. Active \subseteq Spawned /\ Spawned \subseteq Tasks
    BY DEF Active, Spawned
  <2>2. /\ Cardinality(Active) \in Nat /\ Cardinality(Spawned) \in Nat
        /\ Cardinality(Active) <= Cardinality(Spawned)
    BY <2>1, TasksFinite, FS_Subset
  <2>3. dispatcher = "acquire" \/ ~StatefulStopper => Active = Spawned
    BY DEF Active, Spawned, IInv, Unstarted
  <2> QED BY <2>2, <2>3 DEF SlotConservation, SlotsExact, IInv, TypeOK, SteadyStateAssumption
<1> QED BY <1>1, SteadyStateAssumption, Inductive, PTL

\* Every ticket has exactly one owner who will release it.
THEOREM TicketsInCustody == Spec => []TicketCustody
<1>1. IInv => TicketCustody
  BY DEF IInv, TypeOK, Custody, TicketCustody, TicketPc
<1> QED BY <1>1, Inductive, PTL

-----------------------------------------------------------------------------
(* Shutdown *)

\* What each join of run() has waited for.
Joins ==
  /\ dispatcher = "done" => Active = {}
  /\ runPc \in {"joinIngestor", "closeIngestor", "sweep", "saveSnapshot", "stopped"} =>
       dispatcher = "done"
  /\ runPc \in {"joinDispatcher", "sweep", "saveSnapshot", "stopped"} => ingestor # "loop"

\* A dispatcher that is done spawns nothing; it is done only when its gather
\* has seen every task end.
LEMMA DispatcherJoins == TypeOK /\ Joins /\ DispatcherNext => Joins'
<1> SUFFICES ASSUME TypeOK, Joins, DispatcherNext PROVE Joins'
  OBVIOUS
<1> USE DEF Joins, pollVars, loopVars
<1>1. CASE (\E t \in Tasks : Dispatch(t)) \/ (\E S \in SUBSET Tasks : DispatchThenStop(S))
  BY <1>1 DEF Dispatch, DispatchThenStop, DrainDispatcher, ProducerSlotFree
<1>2. CASE DispatcherStops
  BY <1>2 DEF DispatcherStops, DrainDispatcher, ProducerSlotFree
<1>3. CASE DispatcherJoined
  BY <1>3 DEF DispatcherJoined, Gathered, Active, taskVars
<1> QED BY <1>1, <1>2, <1>3 DEF DispatcherNext

\* No step of a task brings a task to life.
LEMMA TaskJoins ==
  ASSUME NEW t \in Tasks
  PROVE  TypeOK /\ Custody /\ Joins /\ (TaskNext(t) \/ AddNext(t)) => Joins'
<1> SUFFICES ASSUME TypeOK, Custody, Joins, TaskNext(t) \/ AddNext(t) PROVE Joins'
  OBVIOUS
<1>1. UNCHANGED <<loopVars, ingestor>>
  BY DEF TaskNext, AddNext, AddRepeated, AddFails, AcquireSlot, SelectParents, ParentsRefreshed, PersistMutant, AddReturns,
         MutantPersisted, AcquireBuffer, SnapshotWritten, MutantAborted, MutantCancelled, pollVars
<1>2. t \in Active
  BY DEF TaskNext, AddNext, AddRepeated, AddFails, AcquireSlot, SelectParents, ParentsRefreshed, PersistMutant, AddReturns,
         MutantPersisted, AcquireBuffer, SnapshotWritten, MutantAborted, MutantCancelled,
         CancelEnds, Custody, Active
<1>3. Active' \subseteq Active
  BY DEF TaskNext, AddNext, AddRepeated, AddFails, AcquireSlot, SelectParents, ParentsRefreshed,
         PersistMutant, AddReturns, MutantPersisted, AcquireBuffer, SnapshotWritten,
         MutantAborted, MutantCancelled, CancelEnds, Custody, Register, Exit, Active, TypeOK,
         taskVars
<1> QED BY <1>1, <1>2, <1>3 DEF Joins, loopVars

\* The ingestor loop ends for good.
LEMMA PollJoins == Joins /\ PollNext => Joins'
<1> SUFFICES ASSUME Joins, PollNext PROVE Joins'
  OBVIOUS
<1>1. Active' = Active
  BY PollFrame DEF Active, taskVars
<1>2. dispatcher' = dispatcher /\ ingestor' \in {ingestor, "failed", "stopped"}
  BY DEF PollNext, PollStart, PollFetch, BatchFetch, Offer, DiscardRejected, PollRelease,
         PollReport, PollFails, IngestorStops, loopVars
<1>3. runPc' = runPc \/ (runPc = "sweep" /\ runPc' = "saveSnapshot" /\ ingestor' = ingestor)
  BY DEF PollNext, PollStart, PollFetch, BatchFetch, Offer, DiscardRejected, PollRelease,
         PollReport, PollFails, IngestorStops, loopVars
<1> QED BY <1>1, <1>2, <1>3 DEF Joins

\* run() goes on only when the loop it joined is over, and stop() does not
\* take it past a join.
LEMMA RunJoins == TypeOK /\ Joins /\ (RunNext \/ Stop) => Joins'
<1> SUFFICES ASSUME TypeOK, Joins, RunNext \/ Stop PROVE Joins'
  OBVIOUS
<1>0. Active' = Active
  BY RunFrame DEF Active
<1> USE <1>0 DEF Joins, pollVars, taskVars
<1>1. CASE LoopEnded
  BY <1>1 DEF LoopEnded, CancelDispatcher, DrainDispatcher
<1>2. CASE LoopsJoined
  BY <1>2 DEF LoopsJoined
<1>3. CASE CloseDispatcher \/ CloseIngestor
  BY <1>3 DEF CloseDispatcher, CloseIngestor, CancelDispatcher, DrainDispatcher
<1>4. CASE SweepEnds \/ RunEnds
  BY <1>4 DEF SweepEnds, RunEnds
<1>5. CASE Stop
  BY <1>5 DEF Stop, CancelDispatcher, DrainDispatcher
<1> QED BY <1>1, <1>2, <1>3, <1>4, <1>5 DEF RunNext

\* Joins is inductive together with IInv.
LEMMA JoinsStep == SteadyStateAssumption /\ IInv /\ Joins /\ [Next]_vars => Joins'
<1>1. ASSUME Joins, NEW t \in Tasks, RunnerNext(t) PROVE Joins'
  BY <1>1, RunnerFrame DEF Joins, Active, loopVars, taskVars, pollVars
<1>2. ASSUME Joins, UNCHANGED vars PROVE Joins'
  BY <1>2 DEF Joins, Active, vars, loopVars, taskVars, pollVars
<1> QED BY <1>1, <1>2, DispatcherJoins, TaskJoins, PollJoins, RunJoins DEF Next, IInv

\* From the final sweep on no task is alive or holds anything, and nobody
\* else polls.
THEOREM SweepIsQuiescent == Spec => []QuiescentAtSweep
<1>1. Init => Joins
  BY DEF Init, Joins
<1>2. IInv /\ Joins => QuiescentAtSweep
  BY DEF IInv, Custody, Joins, QuiescentAtSweep, Active, SlotPc, TicketPc, TypeOK
<1> QED BY <1>1, <1>2, JoinsStep, Inductive, SteadyStateAssumption, PTL DEF Spec

-----------------------------------------------------------------------------
(* The mutant cap *)

\* The tasks whose mutant is not counted yet, but may still be.
Uncounted == {t \in Tasks : pc[t] \in {"slot", "select", "refresh", "generate", "adding",
                                       "lineage", "buffer"}}

\* What is counted and what may still be counted stay below the bound: the
\* stopper is asked when a task is spawned, and the producer slots bound how
\* many others are on their way by then.
Committed == mutationsCreated + Cardinality(Uncounted) <= MaxMutants + MaxInFlight - 1

\* Uncounted tasks are tasks.
LEMMA UncountedType ==
  ASSUME SteadyStateAssumption
  PROVE  /\ Cardinality(Uncounted) \in Nat /\ Cardinality(Spawned) \in Nat
         /\ Cardinality(Uncounted) <= Cardinality(Spawned)
<1>1. Uncounted \subseteq Spawned /\ Spawned \subseteq Tasks /\ Uncounted \subseteq Tasks
  BY DEF Uncounted, Spawned
<1>2. IsFiniteSet(Spawned)
  BY <1>1, TasksFinite
<1> QED BY <1>1, <1>2, TasksFinite, FS_Subset

\* A spawn happens below the cap and within the producer slots.
LEMMA DispatchCommitted ==
  ASSUME SteadyStateAssumption, IInv, IInv', NEW t \in Tasks, Dispatch(t)
  PROVE  Committed'
<1>1. mutationsCreated' = mutationsCreated /\ mutationsCreated <= MaxMutants - 1
  BY DEF Dispatch, ShouldStop, ReachedMutantCap, dataVars, IInv, TypeOK, SteadyStateAssumption
<1>2. Cardinality(Uncounted') \in Nat /\ Cardinality(Spawned') \in Nat
      /\ Cardinality(Uncounted') <= Cardinality(Spawned')
  <2>1. Uncounted' \subseteq Spawned' /\ Spawned' \subseteq Tasks /\ Uncounted' \subseteq Tasks
    BY DEF Uncounted, Spawned
  <2>2. IsFiniteSet(Spawned')
    BY <2>1, TasksFinite
  <2> QED BY <2>1, <2>2, TasksFinite, FS_Subset
<1>3. Cardinality(Spawned') <= MaxInFlight
  BY <1>2 DEF IInv, SlotsExact, TypeOK, SteadyStateAssumption
<1> QED BY <1>1, <1>2, <1>3 DEF Committed, IInv, TypeOK, SteadyStateAssumption

\* A step that counts nothing and adds no uncounted task keeps the bound.
LEMMA CommittedFrame ==
  ASSUME SteadyStateAssumption, TypeOK, Committed, Uncounted' \subseteq Uncounted,
         mutationsCreated' = mutationsCreated
  PROVE  Committed'
<1>1. IsFiniteSet(Uncounted) /\ Cardinality(Uncounted) \in Nat
  BY TasksFinite DEF Uncounted
<1>2. Cardinality(Uncounted') <= Cardinality(Uncounted) /\ Cardinality(Uncounted') \in Nat
  BY <1>1, FS_Subset, FS_CardinalityType
<1> QED BY <1>1, <1>2 DEF Committed, TypeOK, SteadyStateAssumption

\* Registration counts a task that was uncounted.
LEMMA RegisterCommitted ==
  ASSUME SteadyStateAssumption, TypeOK, Committed, NEW t \in Tasks,
         pc[t] \in {"lineage", "buffer"}, Register(t)
  PROVE  Committed'
<1>1. t \in Uncounted /\ Uncounted' = Uncounted \ {t}
  BY DEF Uncounted, Register, TypeOK
<1>2. Cardinality(Uncounted') = Cardinality(Uncounted) - 1 /\ Cardinality(Uncounted) \in Nat
  BY <1>1, RemoveTask, TasksFinite DEF Uncounted
<1> QED BY <1>2 DEF Committed, Register, TypeOK, SteadyStateAssumption

\* Every other step of a task counts nothing.
LEMMA TaskCommitted ==
  ASSUME SteadyStateAssumption, TypeOK, Custody, Committed, NEW t \in Tasks,
         TaskNext(t) \/ AddNext(t)
  PROVE  Committed'
<1>1. CASE MutantPersisted(t)
  <2>1. CASE Strict
    BY <1>1, <2>1, RegisterCommitted DEF MutantPersisted
  <2>2. CASE ~Strict
    <3>1. Uncounted' \subseteq Uncounted /\ mutationsCreated' = mutationsCreated
      BY <1>1, <2>2 DEF MutantPersisted, Uncounted, TypeOK
    <3> QED BY <3>1, CommittedFrame
  <2> QED BY <2>1, <2>2
<1>2. CASE AcquireBuffer(t)
  BY <1>2, RegisterCommitted DEF AcquireBuffer
<1>3. CASE AcquireSlot(t) \/ SelectParents(t) \/ ParentsRefreshed(t) \/ PersistMutant(t) \/ AddReturns(t)
  <2>1. Uncounted' \subseteq Uncounted /\ mutationsCreated' = mutationsCreated
    BY <1>3 DEF AcquireSlot, SelectParents, ParentsRefreshed, PersistMutant, AddReturns,
                Uncounted, TypeOK, dataVars
  <2> QED BY <2>1, CommittedFrame
<1>4. CASE SnapshotWritten(t) \/ MutantAborted(t) \/ MutantCancelled(t) \/ AddFails(t)
  <2>1. Exit(t) /\ mutationsCreated' = mutationsCreated
    BY <1>4 DEF SnapshotWritten, MutantAborted, MutantCancelled, AddFails, dataVars
  <2>2. Uncounted' \subseteq Uncounted
    BY <2>1 DEF Exit, Uncounted, TypeOK
  <2> QED BY <2>1, <2>2, CommittedFrame
<1>5. CASE AddRepeated(t)
  BY <1>5, CommittedFrame DEF AddRepeated, Uncounted, taskVars
<1> QED BY <1>1, <1>2, <1>3, <1>4, <1>5 DEF TaskNext, AddNext

\* Committed is inductive together with IInv.
LEMMA CommittedStep ==
  SteadyStateAssumption /\ IInv /\ IInv' /\ Committed /\ [Next]_vars => Committed'
<1> SUFFICES ASSUME SteadyStateAssumption, IInv, IInv', Committed, [Next]_vars PROVE Committed'
  OBVIOUS
<1>0. TypeOK /\ Custody
  BY DEF IInv
<1>1. ASSUME NEW t \in Tasks, Dispatch(t) PROVE Committed'
  BY <1>1, DispatchCommitted
<1>2. ASSUME NEW S \in SUBSET Tasks, DispatchThenStop(S) PROVE Committed'
  <2>1. Uncounted' \subseteq Uncounted /\ mutationsCreated' = mutationsCreated
    BY <1>0, <1>2 DEF DispatchThenStop, Uncounted, TypeOK, dataVars
  <2> QED BY <1>0, <2>1, CommittedFrame
<1>3. CASE DispatcherStops \/ DispatcherJoined
  <2>1. Uncounted' \subseteq Uncounted /\ mutationsCreated' = mutationsCreated
    BY <1>3 DEF DispatcherStops, DispatcherJoined, Uncounted, taskVars, dataVars
  <2> QED BY <1>0, <2>1, CommittedFrame
<1>4. ASSUME NEW t \in Tasks, TaskNext(t) \/ AddNext(t) PROVE Committed'
  BY <1>0, <1>4, TaskCommitted
<1>5. CASE PollNext
  BY <1>0, <1>5, PollFrame, CommittedFrame DEF Uncounted, taskVars
<1>6. CASE RunNext \/ Stop
  BY <1>0, <1>6, RunFrame, CommittedFrame DEF Uncounted
<1>7. ASSUME NEW t \in Tasks, RunnerNext(t) PROVE Committed'
  BY <1>0, <1>7, RunnerFrame, CommittedFrame DEF Uncounted, taskVars
<1>8. CASE UNCHANGED vars
  BY <1>0, <1>8, CommittedFrame DEF Uncounted, vars, taskVars, dataVars
<1> QED BY <1>1, <1>2, <1>3, <1>4, <1>5, <1>6, <1>7, <1>8 DEF Next, DispatcherNext

\* The mutant cap is overshot by at most the other running tasks.
THEOREM OvershootBounded == Spec => []BoundedOvershoot
<1>1. SteadyStateAssumption /\ Init => Committed
  <2> SUFFICES ASSUME SteadyStateAssumption, Init PROVE Committed
    OBVIOUS
  <2>1. Uncounted = {}
    BY DEF Init, Uncounted
  <2> QED BY <2>1, FS_EmptySet DEF Init, Committed, SteadyStateAssumption
<1>2. SteadyStateAssumption /\ IInv /\ Committed => BoundedOvershoot
  BY UncountedType DEF IInv, Committed, BoundedOvershoot, TypeOK, SteadyStateAssumption
<1> QED BY <1>1, <1>2, CommittedStep, Inductive, SteadyStateAssumption, PTL DEF Spec

-----------------------------------------------------------------------------
(* Backpressure *)

\* The points of a task before its mutant is in storage, and those at which
\* it has a mutant that is not in _in_flight yet.
BeforeAdd == {"slot", "select", "refresh", "generate"}
WithMutant == {"adding", "lineage", "buffer"}

\* The mutants the slots account for.
Accounted == Pending \ lateAdds

\* A pass works on mutants that were registered, and the ones it takes out of
\* _in_flight are settled; a mutant has no program before it is added.
Evaluations ==
  /\ \A t \in poll.ids \cup poll.completed \cup poll.leaked : pc[t] \in {"snapshot", "exited"}
  /\ \A t \in poll.completed \cup poll.leaked : program[t] \in {"DONE", "DISCARDED"}
  /\ \A t \in Tasks : pc[t] \in BeforeAdd \cup {"unborn", "neverStarted"} => program[t] = "none"

\* As long as the dispatcher spawns, nothing is cancelled; once it drains, no
\* task adds another mutant or repeats its add.  A cancelled task may leave a
\* pending mutant behind, whose slots are free again then, so that the depth is
\* bounded afterwards only because nothing is added any more.
Draining ==
  /\ dispatcher = "acquire" => cancelled = {} /\ interruptedAdds = {}
  /\ dispatcher # "acquire" =>
       \A t \in Tasks : pc[t] \in BeforeAdd \cup {"adding"} => t \in cancelled

Backpressure == Evaluations /\ Draining /\ PendingIsTracked /\ PipelineDepth

\* While the dispatcher spawns, the slots bound what is pending.
LEMMA SlotsBoundDepth ==
  SteadyStateAssumption /\ IInv /\ Draining /\ PendingIsTracked /\ dispatcher = "acquire"
    => PipelineDepth
<1> SUFFICES ASSUME SteadyStateAssumption, IInv, Draining, PendingIsTracked,
                    dispatcher = "acquire"
             PROVE  PipelineDepth
  OBVIOUS
<1>0. \A t \in Accounted : t \in Tasks /\ (t \in inFlight \/ pc[t] \in WithMutant)
  BY DEF Draining, PendingIsTracked, Accounted, Pending, WithMutant
<1>1. /\ inFlight \subseteq Tasks /\ slotHeld \subseteq Tasks /\ Spawned \subseteq Tasks
      /\ producerSema \in Nat /\ bufferSema \in Nat /\ MaxInFlight \in Nat
  BY DEF IInv, TypeOK, Spawned, SteadyStateAssumption
<1>2. /\ IsFiniteSet(inFlight) /\ IsFiniteSet(slotHeld) /\ IsFiniteSet(Spawned)
      /\ Cardinality(inFlight) \in Nat /\ Cardinality(slotHeld) \in Nat
      /\ Cardinality(Spawned) \in Nat
  BY <1>1, TasksFinite
<1>3. ASSUME NEW S \in SUBSET Tasks, Accounted \subseteq inFlight \cup S
      PROVE  /\ Cardinality(Accounted) \in Nat
             /\ Cardinality(Accounted) <= Cardinality(inFlight) + Cardinality(S)
  <2>1. IsFiniteSet(S) /\ Cardinality(S) \in Nat /\ Cardinality(inFlight \cap S) \in Nat
    BY <1>1, TasksFinite
  <2>2. Cardinality(inFlight \cup S)
          = Cardinality(inFlight) + Cardinality(S) - Cardinality(inFlight \cap S)
    BY <1>2, <2>1, FS_Union
  <2>3. /\ IsFiniteSet(inFlight \cup S) /\ Cardinality(inFlight \cup S) \in Nat
        /\ Cardinality(Accounted) \in Nat
    BY <1>0, <1>1, TasksFinite
  <2>4. Cardinality(Accounted) <= Cardinality(inFlight \cup S)
    BY <1>3, <2>3, FS_Subset
  <2> QED BY <1>2, <2>1, <2>2, <2>3, <2>4
<1>4. CASE Strict
  <2>1. Accounted \subseteq inFlight \cup slotHeld
    BY <1>0, <1>4 DEF WithMutant, IInv, Custody, SlotPc
  <2>2. Cardinality(inFlight) + Cardinality(slotHeld) <= MaxInFlight
    BY <1>1, <1>2 DEF IInv, SlotsExact
  <2>3. Cardinality(Accounted) <= MaxInFlight
    BY <1>1, <1>2, <1>3, <2>1, <2>2
  <2> QED BY <1>4, <2>3 DEF PipelineDepth, Accounted
<1>5. CASE ~Strict
  <2>1. Accounted \subseteq inFlight \cup Spawned
    BY <1>0 DEF WithMutant, Spawned
  <2>2. Cardinality(inFlight) <= MaxInFlight /\ Cardinality(Spawned) <= MaxInFlight
    BY <1>1, <1>2 DEF IInv, SlotsExact
  <2>3. Cardinality(Accounted) <= 2 * MaxInFlight
    BY <1>1, <1>2, <1>3, <2>1, <2>2
  <2> QED BY <1>5, <2>3 DEF PipelineDepth, Accounted
<1> QED BY <1>4, <1>5

\* The same in the next state.
LEMMA SlotsBoundNextDepth ==
  (IInv /\ Draining /\ PendingIsTracked /\ dispatcher = "acquire" => PipelineDepth)'
<1>1. IInv /\ Draining /\ PendingIsTracked /\ dispatcher = "acquire" => PipelineDepth
  BY SlotsBoundDepth, SteadyStateAssumption
<1> QED BY <1>1, PTL

\* A step that makes no program pending keeps the depth.
LEMMA DepthFrame ==
  ASSUME SteadyStateAssumption, PipelineDepth, Accounted' \subseteq Accounted
  PROVE  PipelineDepth'
<1>1. IsFiniteSet(Accounted) /\ Cardinality(Accounted) \in Nat
  BY TasksFinite DEF Accounted, Pending
<1>2. Cardinality(Accounted') <= Cardinality(Accounted) /\ Cardinality(Accounted') \in Nat
  BY <1>1, FS_Subset, FS_CardinalityType
<1>3. MaxInFlight \in Nat
  BY DEF SteadyStateAssumption
<1> QED BY <1>1, <1>2, <1>3 DEF PipelineDepth, Accounted

\* Spawning adds no program, and a drain reaches every task.
LEMMA DispatcherBackpressure ==
  ASSUME SteadyStateAssumption, IInv, Backpressure, DispatcherNext
  PROVE  Backpressure'
<1> USE DEF loopVars, slotVars, pollVars, dataVars, taskVars, addVars, BeforeAdd
<1>1. UNCHANGED <<program, poll, inFlight, lateAdds, interruptedAdds>>
  BY DEF DispatcherNext, Dispatch, DispatchThenStop, DispatcherStops, DispatcherJoined
<1>2. PipelineDepth'
  BY <1>1, DepthFrame DEF Backpressure, Pending, Accounted
<1>3. ASSUME NEW t \in Tasks, Dispatch(t) PROVE Evaluations' /\ Draining' /\ PendingIsTracked'
  <2>1. /\ pc[t] = "unborn" /\ pc' = [pc EXCEPT ![t] = FirstAwait]
        /\ FirstAwait \in {"slot", "select"} /\ dispatcher = "acquire"
        /\ UNCHANGED <<dispatcher, cancelled>> /\ program[t] = "none"
    BY <1>3 DEF Dispatch, FirstAwait, ProducerSlotFree, Backpressure, Evaluations
  <2>2. Evaluations' /\ Draining'
    BY <1>1, <2>1 DEF Backpressure, Evaluations, Draining, IInv, TypeOK
  <2>3. PendingIsTracked'
    BY <1>1, <2>1 DEF Backpressure, PendingIsTracked, Pending, IInv, TypeOK
  <2> QED BY <2>2, <2>3
<1>4. ASSUME NEW S \in SUBSET Tasks, DispatchThenStop(S)
      PROVE  Evaluations' /\ Draining' /\ PendingIsTracked'
  <2>1. /\ \A t \in S : pc[t] = "unborn" /\ program[t] = "none"
        /\ pc' = [t \in Tasks |-> IF t \in S THEN "neverStarted" ELSE pc[t]]
        /\ dispatcher = "acquire" /\ dispatcher' = "drain" /\ cancelled' = Active
    BY <1>4 DEF DispatchThenStop, DrainDispatcher, Backpressure, Evaluations
  <2>2. Evaluations' /\ Draining'
    <3>1. \A u \in poll.ids \cup poll.completed \cup poll.leaked : u \in Tasks /\ u \notin S
      BY <2>1 DEF Backpressure, Evaluations, IInv, TypeOK, PollLocals
    <3>2. Evaluations'
      BY <1>1, <2>1, <3>1 DEF Backpressure, Evaluations
    <3>3. Draining'
      BY <1>1, <2>1 DEF Draining, Active
    <3> QED BY <3>2, <3>3
  <2>3. PendingIsTracked'
    BY <1>1, <2>1 DEF Backpressure, PendingIsTracked, Pending, IInv, TypeOK
  <2> QED BY <2>2, <2>3
<1>5. CASE DispatcherStops
  <2>1. /\ dispatcher = "acquire" /\ dispatcher' = "drain" /\ cancelled' = Active /\ pc' = pc
    BY <1>5 DEF DispatcherStops, DrainDispatcher, ProducerSlotFree
  <2>2. Evaluations' /\ PendingIsTracked'
    BY <1>1, <2>1 DEF Backpressure, Evaluations, PendingIsTracked, Pending
  <2>3. Draining'
    BY <1>1, <2>1 DEF Draining, Active
  <2> QED BY <1>2, <2>2, <2>3 DEF Backpressure
<1>6. CASE DispatcherJoined
  <2>1. dispatcher = "drain" /\ dispatcher' = "done" /\ UNCHANGED <<pc, cancelled>>
    BY <1>6 DEF DispatcherJoined, Gathered
  <2>2. Evaluations' /\ PendingIsTracked'
    BY <1>1, <2>1 DEF Backpressure, Evaluations, PendingIsTracked, Pending
  <2>3. Draining'
    BY <1>1, <2>1 DEF Backpressure, Draining
  <2> QED BY <1>2, <2>2, <2>3 DEF Backpressure
<1> QED BY <1>2, <1>3, <1>4, <1>5, <1>6 DEF DispatcherNext, Backpressure

\* A task adds its mutant only while the dispatcher spawns, and keeps it with
\* itself until it is in _in_flight; a task that exits without has no mutant, or
\* its add raised late, or it was cancelled.
LEMMA TaskBackpressure ==
  ASSUME SteadyStateAssumption, IInv, IInv', Backpressure, NEW t \in Tasks,
         TaskNext(t) \/ AddNext(t)
  PROVE  Backpressure'
<1> USE DEF BeforeAdd, Backpressure, IInv, TypeOK, addVars
<1>0. UNCHANGED <<loopVars, pollVars>>
  BY DEF TaskNext, AddNext, AddRepeated, AddFails, AcquireSlot, SelectParents, ParentsRefreshed,
         PersistMutant, AddReturns, MutantPersisted, AcquireBuffer, SnapshotWritten,
         MutantAborted, MutantCancelled
<1>1. CASE PersistMutant(t) \/ AddRepeated(t)
  <2>1. /\ program' = [program EXCEPT ![t] = "QUEUED"] /\ pc' = [pc EXCEPT ![t] = "adding"]
        /\ pc[t] \in {"generate", "adding"} /\ t \notin cancelled
        /\ UNCHANGED <<cancelled, inFlight, addVars>>
    BY <1>1 DEF PersistMutant, AddRepeated, slotVars, taskVars
  <2>2. /\ dispatcher = "acquire" /\ dispatcher' = "acquire"
        /\ t \notin poll.completed \cup poll.leaked
    BY <1>0, <2>1 DEF Evaluations, Draining, loopVars
  <2>3. t \notin inFlight
    BY <2>1 DEF Custody
  <2>4. Draining'
    BY <2>1, <2>2 DEF Draining
  <2>5. PendingIsTracked'
    BY <2>1, <2>2 DEF PendingIsTracked, Pending
  <2>6. PipelineDepth'
    BY <2>2, <2>4, <2>5, SlotsBoundNextDepth
  <2>7. Evaluations'
    BY <1>0, <2>1, <2>2 DEF Evaluations, pollVars
  <2> QED BY <2>4, <2>5, <2>6, <2>7
<1>2. CASE AcquireSlot(t) \/ SelectParents(t) \/ ParentsRefreshed(t) \/ AddReturns(t)
  <2>1. /\ UNCHANGED <<program, cancelled, inFlight, addVars>>
        /\ pc[t] \in BeforeAdd \cup {"adding"} /\ t \notin cancelled
        /\ \/ pc[t] \in BeforeAdd /\ \E x \in BeforeAdd : pc' = [pc EXCEPT ![t] = x]
           \/ pc[t] = "adding" /\ pc' = [pc EXCEPT ![t] = "lineage"]
    BY <1>2 DEF AcquireSlot, SelectParents, ParentsRefreshed, AddReturns, slotVars, dataVars
  <2>2. Evaluations' /\ Draining'
    <3>1. \A u \in poll.ids \cup poll.completed \cup poll.leaked : u \in Tasks /\ u # t
      BY <2>1 DEF Evaluations, PollLocals
    <3>2. Evaluations'
      BY <1>0, <2>1, <3>1 DEF Evaluations, pollVars
    <3>3. Draining'
      BY <1>0, <2>1 DEF Draining, loopVars
    <3> QED BY <3>2, <3>3
  <2>3. PendingIsTracked'
    BY <1>0, <2>1 DEF PendingIsTracked, Pending, Evaluations, loopVars
  <2> QED BY <2>1, <2>2, <2>3, DepthFrame DEF Pending, Accounted
<1>3. CASE MutantPersisted(t) \/ AcquireBuffer(t)
  <2>1. /\ UNCHANGED <<program, addVars>>
        /\ cancelled' \subseteq cancelled /\ cancelled \ {t} \subseteq cancelled'
        /\ pc[t] \in {"lineage", "buffer"}
        /\ \/ pc' = [pc EXCEPT ![t] = "buffer"] /\ inFlight' = inFlight
           \/ pc' = [pc EXCEPT ![t] = "snapshot"] /\ inFlight' = inFlight \cup {t}
    BY <1>3 DEF MutantPersisted, AcquireBuffer, Register, slotVars
  <2>2. Evaluations' /\ Draining'
    <3>1. \A u \in poll.ids \cup poll.completed \cup poll.leaked : u \in Tasks /\ u # t
      BY <2>1 DEF Evaluations, PollLocals
    <3>2. Evaluations'
      BY <1>0, <2>1, <3>1 DEF Evaluations, pollVars
    <3>3. Draining'
      BY <1>0, <2>1 DEF Draining, loopVars
    <3> QED BY <3>2, <3>3
  <2>3. PendingIsTracked'
    BY <1>0, <2>1 DEF PendingIsTracked, Pending, loopVars
  <2> QED BY <2>1, <2>2, <2>3, DepthFrame DEF Pending, Accounted
<1>4. CASE SnapshotWritten(t) \/ MutantAborted(t) \/ MutantCancelled(t) \/ AddFails(t)
  <2>1. /\ UNCHANGED <<program, inFlight>> /\ pc' = [pc EXCEPT ![t] = "exited"]
        /\ cancelled' = cancelled \ {t}
        /\ lateAdds \subseteq lateAdds' /\ interruptedAdds \subseteq interruptedAdds'
        /\ \/ /\ t \in cancelled /\ pc[t] # "lineage"
              /\ pc[t] = "adding" => t \in interruptedAdds'
           \/ pc[t] \in BeforeAdd \cup {"snapshot"} /\ UNCHANGED interruptedAdds
           \/ pc[t] = "adding" /\ t \in lateAdds' /\ UNCHANGED interruptedAdds
    BY <1>4 DEF SnapshotWritten, MutantAborted, MutantCancelled, AddFails, CancelEnds, Exit, dataVars
  <2>2. Evaluations'
    BY <1>0, <2>1 DEF Evaluations, pollVars
  <2>3. Draining'
    BY <1>0, <2>1 DEF Draining, loopVars
  <2>4. PendingIsTracked'
    <3> SUFFICES ASSUME Strict \/ dispatcher' = "acquire",
                        NEW u \in Pending' \ (lateAdds' \cup interruptedAdds')
                 PROVE  u \in inFlight' \/ pc'[u] \in {"adding", "lineage", "buffer"}
      BY DEF PendingIsTracked
    <3>1. u \in inFlight \/ pc[u] \in {"adding", "lineage", "buffer"}
      BY <1>0, <2>1 DEF PendingIsTracked, Pending, loopVars
    <3>2. CASE u # t
      BY <2>1, <3>1, <3>2 DEF Pending
    <3>3. CASE u = t /\ pc[t] \in BeforeAdd
      BY <2>1, <3>3 DEF Evaluations, Pending
    <3>4. CASE u = t /\ pc[t] \notin BeforeAdd
      <4>1. pc[t] # "adding" /\ pc[t] # "lineage"
        BY <2>1, <3>4
      <4>2. pc[t] # "buffer"
        BY <1>0, <2>1 DEF Custody, Draining, loopVars
      <4> QED BY <2>1, <3>1, <3>4, <4>1, <4>2
    <3> QED BY <3>2, <3>3, <3>4
  <2> QED BY <2>1, <2>2, <2>3, <2>4, DepthFrame DEF Pending, Accounted
<1> QED BY <1>1, <1>2, <1>3, <1>4 DEF TaskNext, AddNext

\* Ingestion takes only settled programs out of _in_flight.
LEMMA PollBackpressure ==
  ASSUME SteadyStateAssumption, IInv, Backpressure, PollNext
  PROVE  Backpressure'
<1> USE DEF Backpressure, IInv, TypeOK
<1>1. UNCHANGED <<pc, cancelled, dispatcher, lateAdds, interruptedAdds>>
  BY PollFrame DEF PollNext, PollStart, PollFetch, BatchFetch, Offer, DiscardRejected, PollRelease,
     PollReport, PollFails, IngestorStops, taskVars, loopVars, dataVars, addVars
<1>2. \A t \in Tasks : program'[t] = program[t] \/ (program[t] = "DONE" /\ program'[t] = "DISCARDED")
  BY DEF PollNext, PollStart, PollFetch, BatchFetch, Offer, DiscardRejected, PollRelease,
     PollReport, PollFails, IngestorStops, dataVars, InState
<1>3. Pending' = Pending
  BY <1>2 DEF Pending
<1>4. \A t \in inFlight : t \in inFlight' \/ program[t] \in {"DONE", "DISCARDED"}
  BY DEF PollNext, PollStart, PollFetch, BatchFetch, Offer, DiscardRejected, PollRelease,
     PollReport, PollFails, IngestorStops, ReleaseInFlight, Leaked, InState, slotVars, Evaluations
<1>5. Draining' /\ PendingIsTracked'
  BY <1>1, <1>3, <1>4 DEF Draining, PendingIsTracked, Pending
<1>6. poll.completed \subseteq Tasks /\ poll.leaked \subseteq Tasks /\ poll.ids \subseteq Tasks
  BY DEF PollLocals
<1>7. \A t \in poll'.completed \cup poll'.leaked :
        t \in poll.completed \cup poll.leaked \/ (t \in Tasks /\ program[t] \in {"DONE", "DISCARDED"})
  <2>1. poll \in PollLocals
    OBVIOUS
  <2>2. CASE PollFetch
    <3>1. CASE poll' = [poll EXCEPT !.at = "batch", !.ids = InState(poll.ids, "DONE"),
                                    !.leaked = Leaked(poll.ids)]
      <4>1. poll'.completed = poll.completed /\ poll'.leaked = Leaked(poll.ids)
        BY <2>1, <3>1 DEF PollLocals
      <4> QED BY <1>6, <4>1 DEF Leaked, InState
    <3>2. CASE poll' = [IdlePoll EXCEPT !.at = "report"] \/ poll' = IdlePoll
      BY <3>2 DEF IdlePoll
    <3> QED BY <2>2, <3>1, <3>2 DEF PollFetch, ReleaseInFlight
  <2>3. CASE BatchFetch
    BY <1>6, <2>3 DEF BatchFetch, InState, PollLocals
  <2>4. CASE PollStart
    BY <2>4 DEF PollStart, IdlePoll
  <2>5. CASE PollRelease \/ PollReport \/ PollFails \/ IngestorStops
    <3>1. poll' = [IdlePoll EXCEPT !.at = "report"] \/ poll' = IdlePoll
      BY <2>5 DEF PollRelease, ReleaseInFlight, PollReport, PollFails, IngestorStops,
                  PassInterrupted
    <3> QED BY <3>1 DEF IdlePoll
  <2>6. CASE DiscardRejected \/ \E t \in Tasks : Offer(t)
    <3>1. poll'.completed = poll.completed /\ poll'.leaked = poll.leaked
      BY <2>1, <2>6 DEF DiscardRejected, Offer, PollLocals
    <3> QED BY <3>1
  <2> QED BY <2>2, <2>3, <2>4, <2>5, <2>6 DEF PollNext
<1>9. poll'.ids \cup poll'.completed \cup poll'.leaked
        \subseteq poll.ids \cup poll.completed \cup poll.leaked \cup inFlight
  <2>1. poll \in PollLocals
    OBVIOUS
  <2>2. CASE PollFetch
    <3>1. CASE poll' = [poll EXCEPT !.at = "batch", !.ids = InState(poll.ids, "DONE"),
                                    !.leaked = Leaked(poll.ids)]
      <4>1. /\ poll'.ids = InState(poll.ids, "DONE") /\ poll'.completed = poll.completed
            /\ poll'.leaked = Leaked(poll.ids)
        BY <2>1, <3>1 DEF PollLocals
      <4> QED BY <4>1 DEF Leaked, InState
    <3>2. CASE poll' = [IdlePoll EXCEPT !.at = "report"] \/ poll' = IdlePoll
      BY <3>2 DEF IdlePoll
    <3> QED BY <2>2, <3>1, <3>2 DEF PollFetch, ReleaseInFlight
  <2>3. CASE BatchFetch
    <3>1. /\ poll'.ids = InState(poll.ids, "DONE") /\ poll'.completed = poll'.ids
          /\ poll'.leaked = poll.leaked
      BY <2>1, <2>3 DEF BatchFetch, PollLocals
    <3> QED BY <3>1 DEF InState
  <2>4. CASE PollStart
    BY <2>4 DEF PollStart, IdlePoll
  <2>5. CASE PollRelease \/ PollReport \/ PollFails \/ IngestorStops
    <3>1. poll' = [IdlePoll EXCEPT !.at = "report"] \/ poll' = IdlePoll
      BY <2>5 DEF PollRelease, ReleaseInFlight, PollReport, PollFails, IngestorStops,
                  PassInterrupted
    <3> QED BY <3>1 DEF IdlePoll
  <2>6. CASE DiscardRejected \/ \E t \in Tasks : Offer(t)
    <3>1. poll'.completed = poll.completed /\ poll'.leaked = poll.leaked /\ poll'.ids \subseteq poll.ids
      BY <2>1, <2>6 DEF DiscardRejected, Offer, PollLocals
    <3> QED BY <3>1
  <2> QED BY <2>2, <2>3, <2>4, <2>5, <2>6 DEF PollNext
<1>10. \A t \in inFlight : pc[t] \in {"snapshot", "exited"}
  BY DEF Custody
<1>8. Evaluations'
  BY <1>1, <1>2, <1>6, <1>7, <1>9, <1>10 DEF Evaluations, BeforeAdd
<1> QED BY <1>1, <1>3, <1>5, <1>8, DepthFrame DEF Accounted

\* run() and stop() only ever start the drain.
LEMMA RunBackpressure ==
  ASSUME SteadyStateAssumption, IInv, Backpressure, RunNext \/ Stop
  PROVE  Backpressure'
<1>1. UNCHANGED <<pc, inFlight, program, lateAdds, interruptedAdds>>
  BY RunFrame DEF RunNext, Stop, LoopEnded, LoopsJoined, CloseDispatcher, CloseIngestor, SweepEnds,
     RunEnds, slotVars, dataVars, addVars
<1>2. \/ UNCHANGED <<dispatcher, cancelled>>
      \/ dispatcher' = "drain" /\ cancelled' = Active
  BY DEF RunNext, Stop, LoopEnded, LoopsJoined, CloseDispatcher, CloseIngestor, SweepEnds,
     RunEnds, CancelDispatcher, DrainDispatcher, taskVars
<1>3. poll' = poll \/ poll' = IdlePoll
  BY DEF RunNext, Stop, LoopEnded, LoopsJoined, CloseDispatcher, CloseIngestor, SweepEnds,
     RunEnds, PassInterrupted, pollVars
<1>4. Evaluations'
  BY <1>1, <1>3 DEF Backpressure, Evaluations, IdlePoll
<1>5. Draining' /\ PendingIsTracked'
  BY <1>1, <1>2 DEF Backpressure, Draining, PendingIsTracked, Pending, Active, BeforeAdd
<1> QED BY <1>1, <1>4, <1>5, DepthFrame DEF Backpressure, Pending, Accounted

\* The runner takes programs on, to the end of their evaluation.
LEMMA RunnerBackpressure ==
  ASSUME SteadyStateAssumption, IInv, Backpressure, NEW t \in Tasks, RunnerNext(t)
  PROVE  Backpressure'
<1>1. /\ program[t] \in {"QUEUED", "RUNNING"}
      /\ \E s \in {"RUNNING", "DONE", "DISCARDED"} : program' = [program EXCEPT ![t] = s]
      /\ UNCHANGED <<pc, cancelled, dispatcher, inFlight, poll, lateAdds, interruptedAdds>>
  BY DEF RunnerNext, RunnerStarts, RunnerCompletes, RunnerDiscards, RunnerStep, loopVars, taskVars,
     slotVars, pollVars, addVars
<1>2. Pending' \subseteq Pending /\ program \in [Tasks -> ProgramState]
  BY <1>1 DEF Pending, IInv, TypeOK
<1>3. Evaluations' /\ Draining' /\ PendingIsTracked'
  BY <1>1, <1>2 DEF Backpressure, Evaluations, Draining, PendingIsTracked, IInv, TypeOK
<1> QED BY <1>1, <1>2, <1>3, DepthFrame DEF Backpressure, Accounted

\* Backpressure is inductive together with IInv.
LEMMA BackpressureStep ==
  SteadyStateAssumption /\ IInv /\ IInv' /\ Backpressure /\ [Next]_vars => Backpressure'
<1> SUFFICES ASSUME SteadyStateAssumption, IInv, IInv', Backpressure, [Next]_vars
             PROVE  Backpressure'
  OBVIOUS
<1>1. CASE UNCHANGED vars
  BY <1>1 DEF Backpressure, Evaluations, Draining, PendingIsTracked, PipelineDepth, Pending, vars,
              loopVars, taskVars, slotVars, pollVars, dataVars, addVars
<1> QED BY <1>1, DispatcherBackpressure, TaskBackpressure, PollBackpressure, RunBackpressure,
           RunnerBackpressure DEF Next

\* It holds of every state the engine reaches.
LEMMA BackpressureAlways == Spec => []Backpressure
<1>1. SteadyStateAssumption /\ Init => Backpressure
  <2> SUFFICES ASSUME SteadyStateAssumption, Init PROVE Backpressure
    OBVIOUS
  <2>1. Evaluations /\ Draining /\ PendingIsTracked
    BY DEF Init, Evaluations, Draining, PendingIsTracked, Pending, IdlePoll
  <2>2. IInv /\ dispatcher = "acquire"
    BY IInvInit DEF Init
  <2> QED BY <2>1, <2>2, SlotsBoundDepth DEF Backpressure
<1> QED BY <1>1, BackpressureStep, Inductive, SteadyStateAssumption, PTL DEF Spec

\* At most max_in_flight mutants wait for or are in evaluation in strict mode,
\* and twice as many otherwise, whatever is cancelled or fails, up to those
\* whose add raised after it had taken effect.
THEOREM DepthBounded == Spec => []PipelineDepth
<1>1. Backpressure => PipelineDepth
  BY DEF Backpressure
<1> QED BY <1>1, BackpressureAlways, PTL

\* While the engine spawns, and in strict mode to its end, a mutant that waits
\* for its evaluation or is in it is in _in_flight or with its task, unless its
\* add raised late or was cancelled (generate_one_mutation, poll_and_ingest).
THEOREM PendingTracked == Spec => []PendingIsTracked
<1>1. Backpressure => PendingIsTracked
  BY DEF Backpressure
<1> QED BY <1>1, BackpressureAlways, PTL

\* In strict mode no task waits for a buffer slot during the drain: whoever
\* still does has its cancellation to receive, so gather cannot wait for a slot
\* that never comes back (dispatcher_loop's drain, run_one_mutant).
THEOREM StrictDrainNeverWaits ==
  ASSUME Strict
  PROVE  Spec => [](dispatcher = "drain" =>
                      \A t \in Tasks : pc[t] \in {"slot", "buffer"} => t \in cancelled)
<1>1. IInv /\ Backpressure =>
        (dispatcher = "drain" => \A t \in Tasks : pc[t] \in {"slot", "buffer"} => t \in cancelled)
  BY Strict DEF IInv, Custody, Backpressure, Draining, BeforeAdd
<1> QED BY <1>1, Inductive, BackpressureAlways, PTL

\* Waiting for buffer slots is never circular: when none is free, a mutant in
\* flight will give one back, or a task has its slot and waits for none
\* (run_one_mutant, poll_and_ingest).
THEOREM SlotWaitersAreServed ==
  Spec => [](bufferSema = 0 =>
               \/ inFlight # {}
               \/ \E t \in slotHeld : pc[t] \notin {"unborn", "slot", "buffer", "exited"})
<1>1. SteadyStateAssumption /\ IInv =>
        (bufferSema = 0 =>
           \/ inFlight # {}
           \/ \E t \in slotHeld : pc[t] \notin {"unborn", "slot", "buffer", "exited"})
  <2> SUFFICES ASSUME SteadyStateAssumption, IInv, bufferSema = 0, inFlight = {}
               PROVE  \E t \in slotHeld : pc[t] \notin {"unborn", "slot", "buffer", "exited"}
    OBVIOUS
  <2>1. slotHeld # {}
    BY FS_EmptySet DEF IInv, SlotsExact, SteadyStateAssumption
  <2>2. PICK t \in slotHeld : t \in Tasks
    BY <2>1 DEF IInv, TypeOK
  <2>3. pc[t] \in SlotPc
    BY <2>2 DEF IInv, Custody
  <2> QED BY <2>2, <2>3 DEF SlotPc
<1> QED BY <1>1, SteadyStateAssumption, Inductive, PTL
=============================================================================
