---------------------------- MODULE ParentLineage ----------------------------
(***************************************************************************)
(* The stored blob of one parent and those who rewrite it during a run:    *)
(* the refresh that flips it DONE -> QUEUED (refresh.py), the runner that  *)
(* writes its own copy during and after the evaluation (dag_runner.py,     *)
(* dag.py, lineage_memory.py), the mutant tasks that add their children to *)
(* its lineage by an optimistic, merging update (mutation.py,              *)
(* redis_program_storage.py, merge_strategies.py), and the islands, which  *)
(* merge an elite they read earlier or overwrite it when they trim         *)
(* (island.py, multi_island.py).  ParentRefresh has the locks over several *)
(* parents; here there is one parent and its blob has contents.            *)
(*                                                                         *)
(* A task makes one child, named after it.  With refresh tickets it keeps  *)
(* the parent's lock until the child was ingested; in the coalesced mode   *)
(* it gives the lock back when the refresh returns.  An evaluation ends    *)
(* after its marking was written: DagRunner has the other order.           *)
(***************************************************************************)
EXTENDS FiniteSets

CONSTANTS
    Tasks,     \* mutant tasks
    Visits,    \* occasions on which an island takes the parent over or trims it
    Modes,     \* values of coalesce_refresh
    Nobody     \* no lock holder

ASSUME LineageAssumption == Modes \subseteq BOOLEAN /\ Nobody \notin Tasks

VARIABLES
    coalesce,  \* config.coalesce_refresh
    blob,      \* the stored program: its state and its children
    holder,    \* holder of the parent's lock
    fresh,     \* whether the parent is in _fresh
    pc,        \* where each task is
    seen,      \* the parent's state in the task's selection
    copy,      \* the program a task read and is about to write
    base,      \* the blob a task's update read under WATCH
    dirty,     \* whether the blob was written since then
    runner,    \* what the runner does with the parent
    launched,  \* the runner's copy of the program
    marking,   \* the blob its marking read
    visit,     \* where the island is on each of them
    elite,     \* the program it read
    meddled,   \* history: an island's write undid or overtook the others' work
    recorded,  \* history: children whose lineage update succeeded
    due        \* history: flipped, and not evaluated since

taskVars == <<coalesce, holder, fresh, pc, seen>>
copies == <<copy, base>>
runnerVars == <<runner, launched, marking>>
islandVars == <<visit, elite, meddled>>
vars == <<blob, taskVars, copies, dirty, runnerVars, islandVars, recorded, due>>

States == {"QUEUED", "RUNNING", "DONE", "DISCARDED"}
Program == [state : States, children : SUBSET Tasks]
Points == {"idle", "locking", "refreshing", "flipping", "awaiting", "mutating",
           "persisted", "updating", "merging", "evaluating", "ended"}

Fresh == [state |-> "DONE", children |-> {}]

Init ==
    /\ coalesce \in Modes
    /\ blob = Fresh
    /\ holder = Nobody
    /\ fresh = FALSE
    /\ pc = [t \in Tasks |-> "idle"]
    /\ seen = [t \in Tasks |-> "DONE"]
    /\ copy = [t \in Tasks |-> Fresh]
    /\ base = [t \in Tasks |-> Fresh]
    /\ dirty = {}
    /\ runner = "idle"
    /\ launched = Fresh
    /\ marking = Fresh
    /\ visit = [i \in Visits |-> "ahead"]
    /\ elite = [i \in Visits |-> Fresh]
    /\ meddled = FALSE
    /\ recorded = {}
    /\ due = FALSE

\* Every write of the blob wakes the WATCH of the updates under way.
Write(b) ==
    /\ blob' = b
    /\ dirty' = {t \in Tasks : pc[t] = "merging"} \union dirty

Goto(t, p) == pc' = [pc EXCEPT ![t] = p]

-----------------------------------------------------------------------------
(* merge_strategies.py and program_state.py                                *)

ValidTransition(old, new) ==
    \/ old = new
    \/ old = "QUEUED" /\ new \in {"RUNNING", "DISCARDED"}
    \/ old = "RUNNING" /\ new \in {"DONE", "DISCARDED"}
    \/ old = "DONE" /\ new \in {"QUEUED", "DISCARDED"}

MergeStates(current, incoming) ==
    IF "DISCARDED" \in {current, incoming} THEN "DISCARDED"
    ELSE IF ValidTransition(current, incoming) THEN incoming
    ELSE current

\* Children are united; the state is merged.  LastWriterWins would keep what the
\* caller had read.
LastWriterWins(current, incoming) ==
    [state |-> MergeStates(current.state, incoming.state),
     children |-> incoming.children]
Merge(current, incoming) ==
    [state |-> MergeStates(current.state, incoming.state),
     children |-> current.children \union incoming.children]

-----------------------------------------------------------------------------
(* The refresh of a mutant task                                            *)

Select(t) ==
    /\ pc[t] = "idle"
    /\ Goto(t, "locking")
    /\ seen' = [seen EXCEPT ![t] = blob.state]
    /\ UNCHANGED <<coalesce, blob, holder, fresh, copies, dirty, runnerVars, islandVars, recorded, due>>

TakeLock(t) ==
    /\ pc[t] = "locking"
    /\ holder = Nobody /\ holder' = t
    /\ Goto(t, "refreshing")
    /\ UNCHANGED <<coalesce, blob, fresh, seen, copies, dirty, runnerVars, islandVars, recorded, due>>

Unlock(t) == holder' = IF holder = t THEN Nobody ELSE holder

\* In the coalesced mode the lock goes back with the refreshed parent.
UnlockAtReturn(t) == Unlock(t)
KeepTicket(t) == IF coalesce THEN Unlock(t) ELSE UNCHANGED holder

Return(t) == Goto(t, "mutating") /\ KeepTicket(t)

AlreadyFresh(t) ==
    /\ pc[t] = "refreshing"
    /\ coalesce /\ fresh
    /\ Return(t)
    /\ UNCHANGED <<coalesce, blob, fresh, seen, copies, dirty, runnerVars, islandVars, recorded, due>>

\* What is to be flipped was DONE in the selection and still is.
FlippableAsSeen(t) == seen[t] = "DONE"
Flippable(t) == seen[t] = "DONE" /\ blob.state = "DONE"

\* batch_transition_by_ids reads the raw blob ...
ReadFlip(t) ==
    /\ pc[t] = "refreshing"
    /\ ~(coalesce /\ fresh)
    /\ seen[t] # "DISCARDED"
    /\ IF Flippable(t)
       THEN copy' = [copy EXCEPT ![t] = blob] /\ Goto(t, "flipping")
       ELSE UNCHANGED copy /\ Goto(t, "awaiting")
    /\ UNCHANGED <<coalesce, blob, holder, fresh, seen, base, dirty, runnerVars, islandVars, recorded, due>>

\* ... and later writes it back with another state, without a transaction.
WriteFlip(t) ==
    /\ pc[t] = "flipping"
    /\ Write([copy[t] EXCEPT !.state = "QUEUED"])
    /\ Goto(t, "awaiting")
    /\ due' = TRUE
    /\ UNCHANGED <<coalesce, holder, fresh, seen, copies, runnerVars, islandVars, recorded>>

\* _await_done
AwaitDone(t) ==
    /\ pc[t] = "awaiting"
    /\ blob.state = "DONE"
    /\ fresh' = coalesce
    /\ Return(t)
    /\ UNCHANGED <<coalesce, blob, seen, copies, dirty, runnerVars, islandVars, recorded, due>>

\* A discarded parent, a time-out, a cancellation, or a mutation that gives no
\* program: the task ends and every lock it has is free.
EndsWithoutChild(t) ==
    /\ pc[t] \in {"locking", "refreshing", "flipping", "awaiting", "mutating"}
    /\ Goto(t, "ended")
    /\ Unlock(t)
    /\ UNCHANGED <<coalesce, blob, fresh, seen, copies, dirty, runnerVars, islandVars, recorded, due>>

-----------------------------------------------------------------------------
(* generate_one_mutation: the child and its parent's lineage               *)

Persist(t) ==
    /\ pc[t] = "mutating"
    /\ Goto(t, "persisted")
    /\ UNCHANGED <<coalesce, blob, holder, fresh, seen, copies, dirty, runnerVars, islandVars, recorded, due>>

GetParent(t) ==
    /\ pc[t] = "persisted"
    /\ copy' = [copy EXCEPT ![t] = [blob EXCEPT !.children = @ \union {t}]]
    /\ Goto(t, "updating")
    /\ UNCHANGED <<coalesce, blob, holder, fresh, seen, base, dirty, runnerVars, islandVars, recorded, due>>

\* WATCH and GET, one task of the state manager at a time.
WatchParent(t) ==
    /\ pc[t] = "updating"
    /\ \A u \in Tasks : pc[u] # "merging"
    /\ base' = [base EXCEPT ![t] = blob]
    /\ dirty' = dirty \ {t}
    /\ Goto(t, "merging")
    /\ UNCHANGED <<coalesce, blob, holder, fresh, seen, copy, runnerVars, islandVars, recorded, due>>

\* EXEC does nothing when the blob was written since WATCH: read it again.
WatchFails(t) == t \in dirty

UpdateParent(t) ==
    /\ pc[t] = "merging"
    /\ ~WatchFails(t)
    /\ Write(Merge(base[t], copy[t]))
    /\ recorded' = recorded \union {t}
    /\ Goto(t, "evaluating")
    /\ UNCHANGED <<coalesce, holder, fresh, seen, copies, runnerVars, islandVars, due>>

RetryUpdate(t) ==
    /\ pc[t] = "merging"
    /\ WatchFails(t)
    /\ Goto(t, "updating")
    /\ UNCHANGED <<coalesce, blob, holder, fresh, seen, copies, dirty, runnerVars, islandVars, recorded, due>>

\* A failed or cancelled lineage update is only logged: the child stands.
LineageUpdateFails(t) ==
    /\ pc[t] \in {"persisted", "updating", "merging"}
    /\ Goto(t, "evaluating")
    /\ UNCHANGED <<coalesce, blob, holder, fresh, seen, copies, dirty, runnerVars, islandVars, recorded, due>>

\* The ingestor finds the child DONE or DISCARDED.
ChildCompletes(t) ==
    /\ pc[t] = "evaluating"
    /\ Goto(t, "ended")
    /\ fresh' = FALSE
    /\ Unlock(t)
    /\ UNCHANGED <<coalesce, blob, seen, copies, dirty, runnerVars, islandVars, recorded, due>>

TaskStep(t) ==
    \/ Select(t) \/ TakeLock(t) \/ AlreadyFresh(t) \/ ReadFlip(t) \/ WriteFlip(t) \/ AwaitDone(t)
    \/ EndsWithoutChild(t) \/ Persist(t) \/ GetParent(t) \/ WatchParent(t) \/ UpdateParent(t)
    \/ RetryUpdate(t) \/ LineageUpdateFails(t) \/ ChildCompletes(t)

-----------------------------------------------------------------------------
(* The DAG runner                                                          *)

\* _launch reads the QUEUED programs and starts their DAGs on what it read.
Launch ==
    /\ runner = "idle"
    /\ blob.state = "QUEUED"
    /\ launched' = blob
    /\ runner' = "launched"
    /\ UNCHANGED <<blob, taskVars, copies, islandVars, dirty, marking, recorded, due>>

\* Its batch_transition_by_ids reads the raw blob, which may not be QUEUED ...
ReadMark ==
    /\ runner = "launched"
    /\ IF blob.state = "QUEUED"
       THEN marking' = blob /\ runner' = "marking"
       ELSE UNCHANGED marking /\ runner' = "evaluating"
    /\ UNCHANGED <<blob, taskVars, copies, islandVars, dirty, launched, recorded, due>>

\* ... and writes it back as RUNNING.
WriteMark ==
    /\ runner = "marking"
    /\ Write([marking EXCEPT !.state = "RUNNING"])
    /\ runner' = "evaluating"
    /\ UNCHANGED <<taskVars, copies, islandVars, launched, marking, recorded, due>>

\* A stage that stores metadata merges the runner's copy into the blob, and a
\* failed DAG writes it whole, before the state is final.
DagWrites ==
    /\ runner = "evaluating"
    /\ LET own == [launched EXCEPT !.state = "RUNNING"]
       IN  Write(Merge(blob, own)) \/ Write(own)
    /\ UNCHANGED <<taskVars, copies, islandVars, runnerVars, recorded, due>>

\* The whole copy is written with its final state.
EvaluationEnds ==
    /\ runner = "evaluating"
    /\ \E s \in {"DONE", "DISCARDED"} : Write([launched EXCEPT !.state = s])
    /\ runner' = "idle"
    /\ due' = FALSE
    /\ UNCHANGED <<taskVars, copies, islandVars, launched, marking, recorded>>

RunnerStep == Launch \/ ReadMark \/ WriteMark \/ DagWrites \/ EvaluationEnds

-----------------------------------------------------------------------------
(* The islands, which take no parent lock                                  *)

\* A migrant, a program just ingested, or an elite that may be trimmed.
IslandReads(i) ==
    /\ visit[i] = "ahead"
    /\ visit' = [visit EXCEPT ![i] = "holding"]
    /\ elite' = [elite EXCEPT ![i] = blob]
    /\ UNCHANGED <<blob, taskVars, copies, dirty, runnerVars, meddled, recorded, due>>

\* The merging update of the current island, after an add or before a discard;
\* its transaction reads the blob again until it is the one it merges into.
IslandUpdates(i) ==
    /\ visit[i] = "holding"
    /\ Write(Merge(blob, elite[i]))
    /\ meddled' = (meddled \/ blob'.state # blob.state)
    /\ \E next \in {"trimming", "over"} : visit' = [visit EXCEPT ![i] = next]
    /\ UNCHANGED <<taskVars, copies, runnerVars, elite, recorded, due>>

\* Nobody refreshes, evaluates or uses the parent.
AtRest == holder = Nobody /\ blob.state = "DONE"

\* Trimming writes the whole program the island read, whatever was stored since.
IslandDiscards(i) ==
    /\ visit[i] \in {"holding", "trimming"}
    /\ elite[i].state # "DISCARDED"
    /\ Write([elite[i] EXCEPT !.state = "DISCARDED"])
    /\ meddled' = (meddled \/ ~AtRest \/ elite[i].children # blob.children)
    /\ visit' = [visit EXCEPT ![i] = "over"]
    /\ UNCHANGED <<taskVars, copies, runnerVars, elite, recorded, due>>

\* The program is not taken or not trimmed, or a write failed.
IslandLeaves(i) ==
    /\ visit[i] \in {"holding", "trimming"}
    /\ visit' = [visit EXCEPT ![i] = "over"]
    /\ UNCHANGED <<blob, taskVars, copies, dirty, runnerVars, elite, meddled, recorded, due>>

IslandStep(i) == IslandReads(i) \/ IslandUpdates(i) \/ IslandDiscards(i) \/ IslandLeaves(i)

Next ==
    \/ RunnerStep
    \/ \E t \in Tasks : TaskStep(t)
    \/ \E i \in Visits : IslandStep(i)

Spec == Init /\ [][Next]_vars

-----------------------------------------------------------------------------
(* Properties                                                              *)

TypeOK ==
    /\ coalesce \in Modes
    /\ blob \in Program /\ launched \in Program /\ marking \in Program
    /\ holder \in Tasks \union {Nobody}
    /\ fresh \in BOOLEAN /\ due \in BOOLEAN
    /\ pc \in [Tasks -> Points]
    /\ seen \in [Tasks -> States]
    /\ copy \in [Tasks -> Program] /\ base \in [Tasks -> Program]
    /\ dirty \subseteq Tasks /\ recorded \subseteq Tasks
    /\ runner \in {"idle", "launched", "marking", "evaluating"}
    /\ visit \in [Visits -> {"ahead", "holding", "trimming", "over"}]
    /\ elite \in [Visits -> Program]
    /\ meddled \in BOOLEAN

\* The parent knows every child whose lineage update succeeded, whoever wrote
\* the parent's blob whole since then.
LineageComplete == recorded \subseteq blob.children

\* A parent flipped for a refresh is not DONE again before it was evaluated, so
\* no mutation starts from a parent that does not know its finished children.
DoneIsEvaluated == due => blob.state # "DONE"

\* A refresh ticket gives the runner and the mutant task the parent's blob one
\* after the other: no write of one undoes what the other wrote.  It binds the
\* islands to nothing, so this lasts until an island changes the state by a merge
\* (island.py:160) or trims a parent that is in use or that it read too long ago.
TicketsKeepLineage == ~coalesce /\ ~meddled => LineageComplete /\ DoneIsEvaluated

\* The same whatever the islands do; it is refuted, and no run checks it.
TicketsAlwaysKeepLineage == ~coalesce => LineageComplete /\ DoneIsEvaluated

\* In every mode a lineage update adds its child to whatever the parent is by
\* then: it never takes a child away.
UpdateAddsChild ==
    [][\A t \in Tasks : UpdateParent(t) => blob.children \union {t} \subseteq blob'.children]_vars

\* With refresh tickets the parent is one atomic record until an island meddles:
\* the flip, the runner's writes, the lineage updates and a trim of a parent at
\* rest, each a rewrite of the whole blob from an earlier read, have the effect of
\* single steps on single fields, and the state takes only the legal transitions.
Record == INSTANCE ParentRecord WITH
    state     <- blob.state,
    children  <- blob.children,
    disturbed <- coalesce \/ meddled
ActsAtomically == Record!Spec
=============================================================================
