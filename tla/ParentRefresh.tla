----------------------------- MODULE ParentRefresh -----------------------------
(***************************************************************************)
(* Parents are re-evaluated before they are mutated                        *)
(* (gigaevo/evolution/engine/refresh.py and its users mutant_task.py and   *)
(* ingestor.py).  A mutant task selects parents, locks them in the order   *)
(* of their ids, flips them DONE -> QUEUED, and waits until the runner has *)
(* made them DONE again.  In the ticket mode it keeps the locks until its  *)
(* child was ingested; in the coalesced mode it gives them back at once,   *)
(* and a parent counts as fresh until one of its children completes.       *)
(*                                                                         *)
(* A task stands for a mutant task and then for the child it registered;   *)
(* idle again, it is the next mutant task.  asyncio.Lock serves waiters in *)
(* the order they came: a free lock goes to any waiter here, and strong    *)
(* fairness stands for the order.  The DAG runner, the islands and the     *)
(* lineage updates, which change program states meanwhile, are environment *)
(* (ParentLineage has them in detail); all of them store whole programs    *)
(* they read earlier, and a parent that got such a write is overtaken.     *)
(***************************************************************************)
EXTENDS Naturals, FiniteSets

CONSTANTS
  Tasks,       \* mutant tasks and children at a time
  Parents,     \* ids of the programs that are selected
  MaxParents,  \* parents of one mutant
  Modes,       \* values of coalesce_refresh
  Contested    \* bound: the parents that are stored from an old copy

ASSUME ParentRefreshAssumption ==
  /\ Parents \subseteq Nat /\ Contested \subseteq Parents
  /\ MaxParents \in Nat /\ Modes \subseteq BOOLEAN /\ "nobody" \notin Tasks

VARIABLES
  coalesce,  \* config.coalesce_refresh
  state,     \* state of each parent in storage
  holder,    \* holder of each parent's lock
  fresh,     \* _fresh
  pc,        \* where each task is
  par,       \* the parents it selected
  seen,      \* their states in the selection's snapshot
  targets,   \* the ones it re-evaluates
  flip,      \* the ones its batch transition is about to write
  current,   \* history: parents evaluated since their last child completed
  overtaken  \* history: parents whose state was stored from an old copy

taskVars == <<par, seen, targets, flip>>
history == <<current, overtaken>>
vars == <<coalesce, state, holder, fresh, pc, taskVars, history>>

Unseen == [p \in Parents |-> "DONE"]
Active == {"QUEUED", "RUNNING"}

\* A snapshot in which a program is QUEUED or RUNNING; the code treats them alike.
InSnapshot(p) == IF state[p] \in Active THEN "active" ELSE state[p]
ParentSets == {P \in SUBSET Parents : Cardinality(P) \in 1 .. MaxParents}

-----------------------------------------------------------------------------
(* refresh_with_ticket and refresh_if_stale *)

\* _select_parents_for_mutation reads the programs once, before any lock.
Select(t) ==
  /\ pc[t] = "idle"
  /\ pc' = [pc EXCEPT ![t] = "locking"]
  /\ \E P \in ParentSets :
       /\ par' = [par EXCEPT ![t] = P]
       /\ seen' = [seen EXCEPT ![t] = [p \in Parents |-> IF p \in P THEN InSnapshot(p) ELSE "DONE"]]
  /\ UNCHANGED <<coalesce, state, holder, fresh, targets, flip, history>>

Missing(t) == {p \in par[t] : holder[p] # t}

\* Locks are taken in the order of the ids.
NextLocksUnsorted(t) == Missing(t)
NextLocks(t) == {p \in Missing(t) : \A q \in Missing(t) : p <= q}

AnyLock(p) == TRUE
LockFree(p) == holder[p] = "nobody"

TakeLock(t) ==
  /\ pc[t] = "locking"
  /\ \E p \in NextLocks(t) : LockFree(p) /\ holder' = [holder EXCEPT ![p] = t]
  /\ UNCHANGED <<coalesce, state, fresh, pc, taskVars, history>>

\* The end of a task, or of the child it became; every lock it has is free.
Release(t) == holder' = [p \in Parents |-> IF holder[p] = t THEN "nobody" ELSE holder[p]]
Forget(t) ==
  /\ pc' = [pc EXCEPT ![t] = "idle"]
  /\ par' = [par EXCEPT ![t] = {}] /\ targets' = [targets EXCEPT ![t] = {}]
  /\ seen' = [seen EXCEPT ![t] = Unseen]
  /\ flip' = [flip EXCEPT ![t] = {}]
End(t) == Release(t) /\ Forget(t)

\* The parents to flip.
StaleIgnoringMarks(t) == par[t]
Stale(t) == IF coalesce THEN par[t] \ fresh ELSE par[t]
Refused(t) == \E p \in Stale(t) : seen[t][p] = "DISCARDED"

\* batch_transition_by_ids reads the states of the programs that were DONE
\* in the snapshot, and later writes those that still are.
BeginFlip(t) ==
  /\ pc[t] = "locking" /\ Missing(t) = {} /\ Stale(t) # {} /\ ~Refused(t)
  /\ pc' = [pc EXCEPT ![t] = "flipping"]
  /\ targets' = [targets EXCEPT ![t] = Stale(t)]
  /\ flip' = [flip EXCEPT ![t] = {p \in Stale(t) : seen[t][p] = "DONE" /\ state[p] = "DONE"}]
  /\ UNCHANGED <<coalesce, state, holder, fresh, par, seen, history>>

AllFresh(t) ==
  /\ pc[t] = "locking" /\ Missing(t) = {} /\ Stale(t) = {}
  /\ pc' = [pc EXCEPT ![t] = "reading"]
  /\ UNCHANGED <<coalesce, state, holder, fresh, taskVars, history>>

\* _do_refresh raises for a parent that was DISCARDED in the snapshot.
RefuseDiscarded(t) ==
  /\ pc[t] = "locking" /\ Missing(t) = {} /\ Refused(t)
  /\ End(t)
  /\ UNCHANGED <<coalesce, state, fresh, history>>

WriteFlip(t) ==
  /\ pc[t] = "flipping"
  /\ state' = [p \in Parents |-> IF p \in flip[t] THEN "QUEUED" ELSE state[p]]
  /\ pc' = [pc EXCEPT ![t] = "awaiting"]
  /\ flip' = [flip EXCEPT ![t] = {}]
  /\ UNCHANGED <<coalesce, holder, fresh, par, seen, targets, history>>

\* What _await_done waits for.
QueuedIsOver(t) == \A p \in targets[t] : state[p] \in {"QUEUED", "DONE"}
AllDone(t) == \A p \in targets[t] : state[p] = "DONE"

\* What a task that returns from the refresh keeps: its ticket, or nothing.
ReleaseAtReturn(t) == Release(t)
KeepTicket(t) == IF coalesce THEN Release(t) ELSE UNCHANGED holder

Return(t) ==
  /\ pc' = [pc EXCEPT ![t] = "mutating"]
  /\ targets' = [targets EXCEPT ![t] = {}]
  /\ KeepTicket(t)

\* _await_done sees every target DONE.  In the coalesced mode they are fresh
\* now, and the parents that were fresh before are read.
AwaitDone(t) ==
  /\ pc[t] = "awaiting" /\ AllDone(t)
  /\ fresh' = IF coalesce THEN fresh \cup targets[t] ELSE fresh
  /\ IF targets[t] = par[t]
       THEN Return(t)
       ELSE pc' = [pc EXCEPT ![t] = "reading"] /\ UNCHANGED <<holder, targets>>
  /\ UNCHANGED <<coalesce, state, par, seen, flip, history>>

ReadFresh(t) ==
  /\ pc[t] = "reading"
  /\ Return(t)
  /\ UNCHANGED <<coalesce, state, fresh, par, seen, flip, history>>

\* A target was DISCARDED, or the deadline passes before all are DONE.
AwaitFails(t) ==
  /\ pc[t] = "awaiting" /\ \E p \in targets[t] : state[p] # "DONE"
  /\ End(t)
  /\ UNCHANGED <<coalesce, state, fresh, history>>

-----------------------------------------------------------------------------
(* The mutant and its child *)

MutationFails(t) ==
  /\ pc[t] = "mutating"
  /\ End(t)
  /\ UNCHANGED <<coalesce, state, fresh, history>>

\* The child and the ticket are registered in _in_flight.
RegisterChild(t) ==
  /\ pc[t] = "mutating"
  /\ pc' = [pc EXCEPT ![t] = "child"]
  /\ seen' = [seen EXCEPT ![t] = Unseen]
  /\ UNCHANGED <<coalesce, state, holder, fresh, par, targets, flip, history>>

\* mark_children_completed, for a child that is DONE or DISCARDED.
MarkCompleted(t) ==
  /\ fresh' = fresh \ par[t]
  /\ current' = current \ par[t]

IngestChild(t) ==
  /\ pc[t] = "child"
  /\ MarkCompleted(t) /\ End(t)
  /\ UNCHANGED <<coalesce, state, overtaken>>

\* The child changed its state before _ingest_batch read it again: its
\* parents are marked, it stays in flight.
OfferAgain(t) ==
  /\ pc[t] = "child"
  /\ MarkCompleted(t)
  /\ UNCHANGED <<coalesce, state, holder, pc, taskVars, overtaken>>

\* Whoever awaits a refresh may be cancelled; refresh_if_stale then takes
\* back the marks it made.
CancelRefresh(t) ==
  /\ pc[t] \in {"locking", "flipping", "awaiting", "reading"}
  /\ End(t)
  /\ fresh' = IF pc[t] = "reading" THEN fresh \ targets[t] ELSE fresh
  /\ UNCHANGED <<coalesce, state, history>>

-----------------------------------------------------------------------------
(* The runner and the islands *)

EvaluationBegins(p) ==
  /\ state[p] = "QUEUED"
  /\ state' = [state EXCEPT ![p] = "RUNNING"]
  /\ UNCHANGED <<coalesce, holder, fresh, pc, taskVars, history>>

EvaluationEnds(p) ==
  /\ state[p] = "RUNNING"
  /\ \/ state' = [state EXCEPT ![p] = "DONE"] /\ current' = current \cup {p}
     \/ state' = [state EXCEPT ![p] = "DISCARDED"] /\ UNCHANGED current
  /\ UNCHANGED <<coalesce, holder, fresh, pc, taskVars, overtaken>>

\* An island discards an elite, whatever it is doing.
Discard(p) ==
  /\ state[p] # "DISCARDED"
  /\ state' = [state EXCEPT ![p] = "DISCARDED"]
  /\ UNCHANGED <<coalesce, holder, fresh, pc, taskVars, history>>

\* A program read earlier is merged into what is stored, state included (a
\* lineage update's DONE over RUNNING, a migrant's QUEUED over DONE), or stored
\* over it (an evaluation that ends after a discard).
Overtake(p) ==
  /\ p \in Contested
  /\ \E s \in {"DONE", "QUEUED", "RUNNING", "DISCARDED"} \ {state[p]} :
       state' = [state EXCEPT ![p] = s]
  /\ overtaken' = overtaken \cup {p}
  /\ UNCHANGED <<coalesce, holder, fresh, pc, taskVars, current>>

-----------------------------------------------------------------------------

Init ==
  /\ coalesce \in Modes
  /\ state = [p \in Parents |-> "DONE"]
  /\ holder = [p \in Parents |-> "nobody"]
  /\ fresh = {}
  /\ pc = [t \in Tasks |-> "idle"]
  /\ par = [t \in Tasks |-> {}]
  /\ seen = [t \in Tasks |-> Unseen]
  /\ targets = [t \in Tasks |-> {}]
  /\ flip = [t \in Tasks |-> {}]
  /\ current = {} /\ overtaken = {}

AwaitOver(t) == AwaitDone(t) \/ AwaitFails(t)
MutationOver(t) == MutationFails(t) \/ RegisterChild(t)

RefreshStep(t) ==
  \/ BeginFlip(t) \/ AllFresh(t) \/ RefuseDiscarded(t) \/ WriteFlip(t)
  \/ AwaitOver(t) \/ ReadFresh(t)

TaskNext(t) ==
  \/ Select(t) \/ TakeLock(t) \/ RefreshStep(t) \/ CancelRefresh(t)
  \/ MutationOver(t) \/ IngestChild(t) \/ OfferAgain(t)

ProgramNext(p) == EvaluationBegins(p) \/ EvaluationEnds(p) \/ Discard(p) \/ Overtake(p)

Next ==
  \/ \E t \in Tasks : TaskNext(t)
  \/ \E p \in Parents : ProgramNext(p)

\* asyncio.Lock is first come, first served; a refresh ends at its deadline
\* at the latest, a mutation by the time-out of the model call, and a child,
\* which the runner evaluates within its own time-out, is ingested.
Fairness ==
  \A t \in Tasks :
    /\ SF_vars(TakeLock(t)) /\ WF_vars(RefreshStep(t))
    /\ WF_vars(MutationOver(t)) /\ WF_vars(IngestChild(t))

Spec == Init /\ [][Next]_vars
FairSpec == Spec /\ Fairness

-----------------------------------------------------------------------------
(* What the refresh promises *)

\* Every variable has its type.
TypeOK ==
  /\ coalesce \in BOOLEAN
  /\ state \in [Parents -> {"DONE", "QUEUED", "RUNNING", "DISCARDED"}]
  /\ holder \in [Parents -> Tasks \cup {"nobody"}]
  /\ fresh \subseteq Parents /\ current \subseteq Parents /\ overtaken \subseteq Parents
  /\ pc \in [Tasks -> {"idle", "locking", "flipping", "awaiting", "reading",
                       "mutating", "child"}]
  /\ par \in [Tasks -> SUBSET Parents] /\ targets \in [Tasks -> SUBSET Parents]
  /\ flip \in [Tasks -> SUBSET Parents]
  /\ seen \in [Tasks -> [Parents -> {"DONE", "active", "DISCARDED"}]]

\* With tickets, "parents are not refreshed while their children are in
\* flight" (refresh_with_ticket): from the end of the refresh until the child
\* was ingested no parent of it is queued or running, whoever timed out, was
\* cancelled or selected the same parent; the lock does not bind the writers
\* that overtake it.
ParentsPinned ==
  ~coalesce => \A t \in Tasks : pc[t] \in {"mutating", "child"} =>
    \A p \in par[t] \ overtaken : state[p] \notin Active

\* A parent that counts as fresh is not being evaluated, so a task that skips
\* its refresh gets finished results (refresh_if_stale), unless a merge of an old
\* copy made it DONE or QUEUED: in this mode nothing keeps lineage updates away.
FreshIsEvaluated == \A p \in fresh \ overtaken : state[p] \notin Active

\* With tickets, a mutation starts from parents evaluated after the last
\* child of theirs completed, if they were DONE when they were selected.
RefreshedBeforeMutation ==
  ~coalesce => \A t \in Tasks : pc[t] = "mutating" =>
    \A p \in par[t] \ overtaken : seen[t][p] = "DONE" => p \in current

\* t waits for a lock that u has.
WaitsFor(t, u) == pc[t] = "locking" /\ \E p \in NextLocks(t) : holder[p] = u

\* No tasks wait for each other's locks, although a ticket keeps them for as
\* long as its child is evaluated: in every set of tasks one waits for none of
\* the others (the sorted acquisition in refresh_with_ticket, refresh_if_stale).
NoLockCycle ==
  \A W \in SUBSET Tasks : IsFiniteSet(W) /\ W # {} =>
    \E t \in W : \A u \in W : ~WaitsFor(t, u)

\* Overlapping refreshes never flip a parent that the runner evaluates ("a
\* parent is never double-flipped"), unless an old copy said DONE before.
NoDoubleFlip ==
  [][\A p \in Parents \ overtaken' : state[p] = "RUNNING" => state'[p] # "QUEUED"]_vars

\* A parent is fresh iff it "has been refreshed since the last child of that
\* parent reached DONE/DISCARDED" (ParentRefresher._fresh).  Not kept by the code:
\* README, "What the code does not keep".
FreshMeansRefreshed == fresh \subseteq current

\* Sorted acquisition: whoever waits for locks gets them all, is refused or
\* fails, although locks are held across whole evaluations.
RefreshEnds ==
  \A t \in Tasks : pc[t] = "locking" ~> pc[t] \in {"mutating", "idle"}
=============================================================================
