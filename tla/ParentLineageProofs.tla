------------------------- MODULE ParentLineageProofs -------------------------
(***************************************************************************)
(* Proofs about the blob of a parent, for any number of mutant tasks and   *)
(* visits of islands.                                                      *)
(*                                                                         *)
(* An update under way either wakes up to a failed WATCH or still has the  *)
(* blob as its base (UpdateInv).  With tickets a task that is past its     *)
(* lock holds it, the blob of a parent in use is DONE, and while the       *)
(* runner has the parent nobody else writes it, so that the runner's copy  *)
(* has the children of the blob (TicketInv).  An island's copy is behind   *)
(* the blob, so a merge of it that leaves the state alone leaves all of    *)
(* the blob alone; any other of its writes, but for a trim of a parent at  *)
(* rest, ends the invariant and is what meddled records.                   *)
(***************************************************************************)
EXTENDS ParentLineage, TLAPS

\* A base read under WATCH is the blob until somebody writes it, and the copy to
\* merge has the child.
UpdateInv ==
  \A t \in Tasks :
    /\ pc[t] = "merging" /\ t \notin dirty => base[t] = blob
    /\ pc[t] \in {"updating", "merging"} => t \in copy[t].children

Held == {"refreshing", "flipping", "awaiting", "mutating", "persisted",
         "updating", "merging", "evaluating"}
Using == {"mutating", "persisted", "updating", "merging", "evaluating"}

HoldersHold == \A t \in Tasks : pc[t] \in Held => holder = t
FlipIsCurrent ==
  \A t \in Tasks : pc[t] = "flipping" => copy[t] = blob /\ blob.state = "DONE"
UsedIsDone == \A t \in Tasks : pc[t] \in Using => blob.state = "DONE"
CopyIsDone ==
  \A t \in Tasks : pc[t] \in {"updating", "merging"} => copy[t].state = "DONE"
RunnerHasCurrent ==
  /\ runner # "idle" => /\ launched.children = blob.children
                        /\ blob.state \in {"QUEUED", "RUNNING"}
  /\ runner \in {"launched", "marking"} => blob.state = "QUEUED"
  /\ runner = "marking" => marking.children = blob.children

ElitesAreBehind ==
  \A i \in Visits :
    visit[i] \in {"holding", "trimming"} => elite[i].children \subseteq blob.children

TicketInv ==
  ~coalesce /\ ~meddled =>
    /\ HoldersHold
    /\ FlipIsCurrent
    /\ UsedIsDone
    /\ CopyIsDone
    /\ RunnerHasCurrent
    /\ ElitesAreBehind
    /\ LineageComplete
    /\ DoneIsEvaluated

IInv == TypeOK /\ UpdateInv /\ TicketInv
-----------------------------------------------------------------------------

\* A parent without children, and nobody at work.
LEMMA IInvInit == Init => IInv
<1> SUFFICES ASSUME Init PROVE IInv
  OBVIOUS
<1>1. TypeOK
  BY LineageAssumption DEF Init, TypeOK, Fresh, Program, States, Points
<1>2. UpdateInv
  BY DEF Init, UpdateInv
<1>3. TicketInv
  BY DEF Init, TicketInv, HoldersHold, FlipIsCurrent, UsedIsDone, CopyIsDone, RunnerHasCurrent,
         ElitesAreBehind, LineageComplete, DoneIsEvaluated, Held, Using, Fresh
<1> QED BY <1>1, <1>2, <1>3 DEF IInv

\* A merge of two programs is a program, and has the children of both.
LEMMA MergeUnites ==
  ASSUME NEW a \in Program, NEW b \in Program
  PROVE  /\ Merge(a, b) \in Program
         /\ Merge(a, b).children = a.children \union b.children
         /\ a.state = "DONE" /\ b.state = "DONE" => Merge(a, b).state = "DONE"
BY DEF Merge, MergeStates, ValidTransition, Program, States

\* A merge of a program that is behind, and that leaves the state, leaves all.
LEMMA MergeBehind ==
  ASSUME NEW a \in Program, NEW b \in Program, b.children \subseteq a.children,
         Merge(a, b).state = a.state
  PROVE  Merge(a, b) = a
BY DEF Merge, Program

\* Every step keeps the types.
LEMMA TypeStep ==
  ASSUME TypeOK, Next
  PROVE  TypeOK'
<1> USE LineageAssumption DEF TypeOK, Program, States, Points, taskVars, copies, runnerVars, islandVars, vars, Goto, Unlock, KeepTicket, Return, Write
<1>1. CASE Launch
  BY <1>1 DEF Launch
<1>2. CASE ReadMark
  BY <1>2 DEF ReadMark
<1>3. CASE WriteMark
  BY <1>3 DEF WriteMark
<1>4. CASE EvaluationEnds
  BY <1>4 DEF EvaluationEnds
<1>6. CASE DagWrites
  BY <1>6, MergeUnites DEF DagWrites
<1>7. ASSUME NEW i \in Visits, IslandStep(i) PROVE TypeOK'
  <2>1. CASE IslandReads(i)
    BY <2>1 DEF IslandReads
  <2>2. CASE IslandUpdates(i)
    BY <2>2, MergeUnites DEF IslandUpdates
  <2>3. CASE IslandDiscards(i)
    BY <2>3 DEF IslandDiscards
  <2>4. CASE IslandLeaves(i)
    BY <2>4 DEF IslandLeaves
  <2> QED BY <1>7, <2>1, <2>2, <2>3, <2>4 DEF IslandStep
<1>5. ASSUME NEW t \in Tasks, TaskStep(t) PROVE TypeOK'
  <2>1. CASE Select(t)
    BY <2>1 DEF Select
  <2>2. CASE TakeLock(t)
    BY <2>2 DEF TakeLock
  <2>3. CASE AlreadyFresh(t)
    BY <2>3 DEF AlreadyFresh
  <2>4. CASE ReadFlip(t)
    <3>1. CASE Flippable(t)
      <4>1. copy' = [copy EXCEPT ![t] = blob] /\ pc' = [pc EXCEPT ![t] = "flipping"]
        BY <2>4, <3>1 DEF ReadFlip
      <4>2. copy' \in [Tasks -> Program]
        BY <4>1
      <4> QED BY <2>4, <4>1, <4>2 DEF ReadFlip
    <3>2. CASE ~Flippable(t)
      BY <2>4, <3>2 DEF ReadFlip
    <3> QED BY <3>1, <3>2
  <2>5. CASE WriteFlip(t)
    BY <2>5 DEF WriteFlip
  <2>6. CASE AwaitDone(t)
    BY <2>6 DEF AwaitDone
  <2>7. CASE EndsWithoutChild(t)
    BY <2>7 DEF EndsWithoutChild
  <2>8. CASE Persist(t)
    BY <2>8 DEF Persist
  <2>9. CASE GetParent(t)
    BY <2>9 DEF GetParent
  <2>10. CASE WatchParent(t)
    BY <2>10 DEF WatchParent
  <2>11. CASE UpdateParent(t)
    <3>1. Merge(base[t], copy[t]) \in Program
      BY MergeUnites
    <3> QED BY <2>11, <3>1 DEF UpdateParent
  <2>12. CASE RetryUpdate(t)
    BY <2>12 DEF RetryUpdate
  <2>13. CASE LineageUpdateFails(t)
    BY <2>13 DEF LineageUpdateFails
  <2>14. CASE ChildCompletes(t)
    BY <2>14 DEF ChildCompletes
  <2> QED BY <1>5, <2>1, <2>2, <2>3, <2>4, <2>5, <2>6, <2>7, <2>8, <2>9, <2>10, <2>11, <2>12, <2>13, <2>14 DEF TaskStep
<1> QED BY <1>1, <1>2, <1>3, <1>4, <1>5, <1>6, <1>7 DEF Next, RunnerStep

\* Every write of the blob makes the updates under way dirty.
LEMMA UpdateStep ==
  ASSUME TypeOK, UpdateInv, Next
  PROVE  UpdateInv'
<1> USE LineageAssumption DEF TypeOK, UpdateInv, Points, taskVars, copies, runnerVars, islandVars, vars, Goto, Unlock, KeepTicket, Return, Write
<1>1. CASE Launch
  BY <1>1 DEF Launch
<1>2. CASE ReadMark
  BY <1>2 DEF ReadMark
<1>3. CASE WriteMark
  BY <1>3 DEF WriteMark
<1>4. CASE EvaluationEnds
  BY <1>4 DEF EvaluationEnds
<1>6. CASE DagWrites
  BY <1>6, MergeUnites DEF DagWrites
<1>7. ASSUME NEW i \in Visits, IslandStep(i) PROVE UpdateInv'
  <2>1. CASE IslandReads(i)
    BY <2>1 DEF IslandReads
  <2>2. CASE IslandUpdates(i)
    BY <2>2, MergeUnites DEF IslandUpdates
  <2>3. CASE IslandDiscards(i)
    BY <2>3 DEF IslandDiscards
  <2>4. CASE IslandLeaves(i)
    BY <2>4 DEF IslandLeaves
  <2> QED BY <1>7, <2>1, <2>2, <2>3, <2>4 DEF IslandStep
<1>5. ASSUME NEW t \in Tasks, TaskStep(t) PROVE UpdateInv'
  <2>1. CASE Select(t)
    BY <2>1 DEF Select
  <2>2. CASE TakeLock(t)
    BY <2>2 DEF TakeLock
  <2>3. CASE AlreadyFresh(t)
    BY <2>3 DEF AlreadyFresh
  <2>4. CASE ReadFlip(t)
    BY <2>4 DEF ReadFlip
  <2>5. CASE WriteFlip(t)
    BY <2>5 DEF WriteFlip
  <2>6. CASE AwaitDone(t)
    BY <2>6 DEF AwaitDone
  <2>7. CASE EndsWithoutChild(t)
    BY <2>7 DEF EndsWithoutChild
  <2>8. CASE Persist(t)
    BY <2>8 DEF Persist
  <2>9. CASE GetParent(t)
    BY <2>9 DEF GetParent
  <2>10. CASE WatchParent(t)
    BY <2>10 DEF WatchParent
  <2>11. CASE UpdateParent(t)
    BY <2>11 DEF UpdateParent
  <2>12. CASE RetryUpdate(t)
    BY <2>12 DEF RetryUpdate
  <2>13. CASE LineageUpdateFails(t)
    BY <2>13 DEF LineageUpdateFails
  <2>14. CASE ChildCompletes(t)
    BY <2>14 DEF ChildCompletes
  <2> QED BY <1>5, <2>1, <2>2, <2>3, <2>4, <2>5, <2>6, <2>7, <2>8, <2>9, <2>10, <2>11, <2>12, <2>13, <2>14 DEF TaskStep
<1> QED BY <1>1, <1>2, <1>3, <1>4, <1>5, <1>6, <1>7 DEF Next, RunnerStep

\* What a DAG merges or writes during the evaluation is what is stored.
LEMMA DagWritesKeep ==
  ASSUME TypeOK, TicketInv, ~coalesce, ~meddled, DagWrites
  PROVE  blob'.state = "RUNNING" /\ blob'.children = blob.children
<1> DEFINE own == [launched EXCEPT !.state = "RUNNING"]
<1>1. /\ own \in Program /\ own.state = "RUNNING" /\ own.children = launched.children
      /\ blob \in Program
  BY DEF TypeOK, Program, States
<1>2. own.children = blob.children /\ blob.state \in {"QUEUED", "RUNNING"}
  BY <1>1 DEF TicketInv, RunnerHasCurrent, DagWrites
<1>3. blob' = Merge(blob, own) \/ blob' = own
  BY DEF DagWrites, Write
<1> HIDE DEF own
<1>4. Merge(blob, own).state = "RUNNING"
  BY <1>1, <1>2 DEF Merge, MergeStates, ValidTransition
<1>5. Merge(blob, own).children = blob.children
  BY <1>1, <1>2, MergeUnites
<1> QED BY <1>1, <1>2, <1>3, <1>4, <1>5

\* A merge of an island that leaves the state leaves the blob.
LEMMA IslandUpdatesKeep ==
  ASSUME TypeOK, TicketInv, ~coalesce, ~meddled', NEW i \in Visits, IslandUpdates(i)
  PROVE  ~meddled /\ blob' = blob
<1>1. /\ ~meddled /\ blob' = Merge(blob, elite[i]) /\ blob'.state = blob.state
      /\ blob \in Program /\ elite[i] \in Program /\ visit[i] = "holding"
  BY DEF IslandUpdates, Write, TypeOK
<1>2. elite[i].children \subseteq blob.children
  BY <1>1 DEF TicketInv, ElitesAreBehind
<1> QED BY <1>1, <1>2, MergeBehind

\* An orderly trim finds nobody at work and keeps the children.
LEMMA IslandDiscardsKeep ==
  ASSUME TypeOK, TicketInv, ~coalesce, ~meddled', NEW i \in Visits, IslandDiscards(i)
  PROVE  /\ ~meddled /\ holder = Nobody /\ runner = "idle" /\ blob.state = "DONE"
         /\ blob'.children = blob.children /\ blob'.state = "DISCARDED"
<1>1. /\ ~meddled /\ holder = Nobody /\ blob.state = "DONE" /\ elite[i].children = blob.children
      /\ elite[i] \in Program /\ blob' = [elite[i] EXCEPT !.state = "DISCARDED"]
  BY DEF IslandDiscards, AtRest, Write, TypeOK
<1>2. runner = "idle"
  BY <1>1 DEF TicketInv, RunnerHasCurrent
<1>3. blob'.children = elite[i].children /\ blob'.state = "DISCARDED"
  BY <1>1 DEF Program
<1> QED BY <1>1, <1>2, <1>3

\* The lock, the blob of a parent in use and the runner's copy.
LEMMA TicketStep ==
  ASSUME TypeOK, UpdateInv, TicketInv, Next
  PROVE  TicketInv'
<1> USE LineageAssumption DEF TypeOK, UpdateInv, Points, TicketInv, HoldersHold, FlipIsCurrent, UsedIsDone, CopyIsDone, RunnerHasCurrent, ElitesAreBehind, LineageComplete, DoneIsEvaluated, Held, Using, taskVars, copies, runnerVars, islandVars, vars, Goto, Unlock, KeepTicket, Return, Write
<1>1. CASE Launch
  BY <1>1 DEF Launch
<1>2. CASE ReadMark
  BY <1>2 DEF ReadMark
<1>3. CASE WriteMark
  BY <1>3 DEF WriteMark
<1>4. CASE EvaluationEnds
  BY <1>4 DEF EvaluationEnds
<1>6. CASE DagWrites
  <2>1. UNCHANGED <<taskVars, copies, islandVars, runnerVars, recorded, due>> /\ runner = "evaluating"
    BY <1>6 DEF DagWrites
  <2> HIDE DEF Program
  <2> QED BY <1>6, <2>1, DagWritesKeep
<1>7. ASSUME NEW i \in Visits, IslandStep(i) PROVE TicketInv'
  <2>1. CASE IslandReads(i)
    BY <2>1 DEF IslandReads
  <2>2. CASE IslandUpdates(i)
    <3>1. /\ UNCHANGED <<taskVars, copies, runnerVars, elite, recorded, due>>
          /\ \E next \in {"trimming", "over"} : visit' = [visit EXCEPT ![i] = next]
          /\ visit[i] = "holding"
      BY <2>2 DEF IslandUpdates
    <3> HIDE DEF Program
    <3> QED BY <2>2, <3>1, IslandUpdatesKeep
  <2>3. CASE IslandDiscards(i)
    <3>1. /\ UNCHANGED <<taskVars, copies, runnerVars, elite, recorded, due>>
          /\ visit' = [visit EXCEPT ![i] = "over"] /\ visit[i] \in {"holding", "trimming"}
      BY <2>3 DEF IslandDiscards
    <3> HIDE DEF Program
    <3> QED BY <2>3, <3>1, IslandDiscardsKeep
  <2>4. CASE IslandLeaves(i)
    BY <2>4 DEF IslandLeaves
  <2> QED BY <1>7, <2>1, <2>2, <2>3, <2>4 DEF IslandStep
<1>5. ASSUME NEW t \in Tasks, TaskStep(t) PROVE TicketInv'
  <2>1. CASE Select(t)
    BY <2>1 DEF Select
  <2>2. CASE TakeLock(t)
    BY <2>2 DEF TakeLock
  <2>3. CASE AlreadyFresh(t)
    BY <2>3 DEF AlreadyFresh
  <2>4. CASE ReadFlip(t)
    BY <2>4 DEF ReadFlip, Flippable
  <2>5. CASE WriteFlip(t)
    BY <2>5 DEF WriteFlip
  <2>6. CASE AwaitDone(t)
    BY <2>6 DEF AwaitDone
  <2>7. CASE EndsWithoutChild(t)
    BY <2>7 DEF EndsWithoutChild
  <2>8. CASE Persist(t)
    BY <2>8 DEF Persist
  <2>9. CASE GetParent(t)
    BY <2>9 DEF GetParent
  <2>10. CASE WatchParent(t)
    BY <2>10 DEF WatchParent
  <2>11. CASE UpdateParent(t)
    <3>1. /\ base[t] \in Program /\ copy[t] \in Program /\ blob \in Program
          /\ t \in Tasks /\ pc[t] = "merging" /\ t \notin dirty /\ base[t] = blob /\ t \in copy[t].children
      BY <2>11 DEF UpdateParent, WatchFails
    <3> HIDE DEF Program
    <3>2. /\ blob'.children = blob.children \union copy[t].children
          /\ blob.state = "DONE" /\ copy[t].state = "DONE" => blob'.state = "DONE"
      BY <2>11, <3>1, MergeUnites DEF UpdateParent
    <3>3. ~coalesce /\ ~meddled => /\ blob.state = "DONE" /\ copy[t].state = "DONE" /\ blob'.state = "DONE"
                       /\ runner = "idle" /\ holder = t
      BY <3>1, <3>2
    <3>4. ~coalesce /\ ~meddled => LineageComplete' /\ DoneIsEvaluated'
      BY <2>11, <3>1, <3>2, <3>3 DEF UpdateParent
    <3>5. ~coalesce /\ ~meddled => HoldersHold' /\ UsedIsDone' /\ CopyIsDone' /\ RunnerHasCurrent' /\ ElitesAreBehind'
      BY <2>11, <3>1, <3>2, <3>3 DEF UpdateParent
    <3>6. ~coalesce /\ ~meddled => FlipIsCurrent'
      BY <2>11, <3>1, <3>2, <3>3 DEF UpdateParent
    <3> QED BY <2>11, <3>4, <3>5, <3>6 DEF UpdateParent
  <2>12. CASE RetryUpdate(t)
    BY <2>12 DEF RetryUpdate
  <2>13. CASE LineageUpdateFails(t)
    BY <2>13 DEF LineageUpdateFails
  <2>14. CASE ChildCompletes(t)
    BY <2>14 DEF ChildCompletes
  <2> QED BY <1>5, <2>1, <2>2, <2>3, <2>4, <2>5, <2>6, <2>7, <2>8, <2>9, <2>10, <2>11, <2>12, <2>13, <2>14 DEF TaskStep
<1> QED BY <1>1, <1>2, <1>3, <1>4, <1>5, <1>6, <1>7 DEF Next, RunnerStep

-----------------------------------------------------------------------------

\* The invariant is inductive.
THEOREM InductiveInvariant == Spec => []IInv
<1>1. Init => IInv
  BY IInvInit
<1>2. IInv /\ [Next]_vars => IInv'
  <2> SUFFICES ASSUME IInv, [Next]_vars PROVE IInv'
    OBVIOUS
  <2>1. CASE Next
    BY <2>1, TypeStep, UpdateStep, TicketStep DEF IInv
  <2>2. CASE UNCHANGED vars
    <3> USE <2>2 DEF IInv, vars, taskVars, copies, runnerVars, islandVars
    <3>1. TypeOK'
      BY DEF TypeOK
    <3>2. UpdateInv'
      BY DEF UpdateInv
    <3>3. TicketInv'
      BY DEF TicketInv, HoldersHold, FlipIsCurrent, UsedIsDone, CopyIsDone, RunnerHasCurrent,
             ElitesAreBehind, LineageComplete, DoneIsEvaluated
    <3> QED BY <3>1, <3>2, <3>3
  <2> QED BY <2>1, <2>2
<1> QED BY <1>1, <1>2, PTL DEF Spec

\* Every variable keeps its type: a merged program is a program.
THEOREM TypeCorrect == Spec => []TypeOK
<1>1. IInv => TypeOK
  BY DEF IInv
<1> QED BY <1>1, InductiveInvariant, PTL

\* With refresh tickets, and until an island meddles, the flip, the runner's writes
\* and the lineage updates of any number of tasks never undo each other, although none of the first two is a
\* transaction: the parent knows every recorded child, and is DONE after a flip
\* only if it was evaluated.
THEOREM TicketsSerialiseWriters == Spec => []TicketsKeepLineage
<1>1. IInv => TicketsKeepLineage
  BY DEF IInv, TicketInv, TicketsKeepLineage
<1> QED BY <1>1, InductiveInvariant, PTL

\* In both modes a lineage update that succeeds keeps the children the blob has
\* at that moment and adds its own.
THEOREM UpdatesAddChildren == Spec => UpdateAddsChild
<1> DEFINE Keeps ==
      \A t \in Tasks : UpdateParent(t) => blob.children \union {t} \subseteq blob'.children
<1>1. IInv /\ [Next]_vars => [Keeps]_vars
  <2> SUFFICES ASSUME IInv, NEW t \in Tasks, UpdateParent(t)
               PROVE  blob.children \union {t} \subseteq blob'.children
    OBVIOUS
  <2>1. base[t] \in Program /\ copy[t] \in Program /\ base[t] = blob /\ t \in copy[t].children
    BY DEF IInv, TypeOK, UpdateInv, UpdateParent, WatchFails
  <2>2. blob'.children = blob.children \union copy[t].children
    BY <2>1, MergeUnites DEF UpdateParent, Write
  <2> QED BY <2>1, <2>2
<1> QED BY <1>1, InductiveInvariant, PTL DEF Spec, UpdateAddsChild

\* Merging is a legal transition from what is stored, revives nobody, and may be
\* repeated: what a retry merges again is what it already merged.
LEMMA MergeIsSafe ==
  ASSUME NEW a \in Program, NEW b \in Program
  PROVE  /\ ValidTransition(a.state, Merge(a, b).state)
         /\ a.state = "DISCARDED" => Merge(a, b).state = "DISCARDED"
         /\ Merge(Merge(a, b), b) = Merge(a, b)
BY DEF Merge, MergeStates, ValidTransition, Program, States

\* In both modes a lineage update takes the parent to a state that is legal from
\* the one it has at that moment, and never revives a discarded parent, however
\* old the copy is that it merges (RedisProgramStorage.update, merge_states).
THEOREM UpdatesFollowTransitions ==
  Spec => [][\A t \in Tasks : UpdateParent(t) =>
               /\ ValidTransition(blob.state, blob'.state)
               /\ blob.state = "DISCARDED" => blob'.state = "DISCARDED"]_vars
<1> DEFINE Legal == \A t \in Tasks : UpdateParent(t) =>
               /\ ValidTransition(blob.state, blob'.state)
               /\ blob.state = "DISCARDED" => blob'.state = "DISCARDED"
<1>1. IInv /\ [Next]_vars => [Legal]_vars
  <2> SUFFICES ASSUME IInv, NEW t \in Tasks, UpdateParent(t)
               PROVE  /\ ValidTransition(blob.state, blob'.state)
                      /\ blob.state = "DISCARDED" => blob'.state = "DISCARDED"
    OBVIOUS
  <2>1. base[t] \in Program /\ copy[t] \in Program /\ base[t] = blob
    BY DEF IInv, TypeOK, UpdateInv, UpdateParent, WatchFails
  <2>2. blob' = Merge(blob, copy[t])
    BY <2>1 DEF UpdateParent, Write
  <2> QED BY <2>1, <2>2, MergeIsSafe
<1> QED BY <1>1, InductiveInvariant, PTL DEF Spec

-----------------------------------------------------------------------------
(* With tickets the parent is one atomic record *)

\* What a task is about to store differs from the blob by its own child only,
\* and an evaluation ends on a parent that was marked.
RecordInv ==
  ~coalesce /\ ~meddled =>
    /\ \A t \in Tasks : pc[t] \in {"updating", "merging"} =>
         copy[t].children = blob.children \union {t}
    /\ runner = "evaluating" => blob.state = "RUNNING"

\* Nobody changes the mode, and no meddling is forgotten.
LEMMA ModeFixed == [Next]_vars => coalesce' = coalesce /\ (~meddled' => ~meddled)
<1> SUFFICES ASSUME [Next]_vars PROVE coalesce' = coalesce /\ (~meddled' => ~meddled)
  OBVIOUS
<1>1. ASSUME NEW i \in Visits, IslandUpdates(i) \/ IslandDiscards(i)
      PROVE  coalesce' = coalesce /\ (~meddled' => ~meddled)
  BY <1>1 DEF IslandUpdates, IslandDiscards, taskVars
<1>2. \/ UNCHANGED <<coalesce, meddled>>
      \/ \E i \in Visits : IslandUpdates(i) \/ IslandDiscards(i)
  BY DEF Next, RunnerStep, TaskStep, IslandStep, vars, taskVars, islandVars, Launch, ReadMark,
         WriteMark, DagWrites, EvaluationEnds, Select, TakeLock, AlreadyFresh, ReadFlip, WriteFlip,
         AwaitDone, EndsWithoutChild, Persist, GetParent, WatchParent, UpdateParent, RetryUpdate,
         LineageUpdateFails, ChildCompletes, IslandReads, IslandLeaves
<1> QED BY <1>1, <1>2

\* A task that has read the blob for its update holds the lock, and nobody else
\* is past it.
LEMMA OnlyHolder ==
  ASSUME TicketInv, ~coalesce, ~meddled, NEW t \in Tasks, NEW u \in Tasks, pc[t] \in Held, pc[u] \in Held
  PROVE  t = u
BY DEF TicketInv, HoldersHold

\* What is stored is a program.
LEMMA WritesPrograms == TypeOK /\ Next => blob' \in Program
BY TypeStep DEF TypeOK

\* The writes there are, and what they store with tickets.
LEMMA Writes ==
  ASSUME IInv, RecordInv, ~coalesce, ~meddled', Next
  PROVE  \/ UNCHANGED blob
         \/ /\ \E t \in Tasks : WriteFlip(t)
            /\ blob.state = "DONE" /\ blob'.state = "QUEUED" /\ blob'.children = blob.children
         \/ /\ WriteMark
            /\ blob.state = "QUEUED" /\ blob'.state = "RUNNING" /\ blob'.children = blob.children
         \/ /\ EvaluationEnds
            /\ blob.state = "RUNNING" /\ blob'.state \in {"DONE", "DISCARDED"}
            /\ blob'.children = blob.children
         \/ \E t \in Tasks :
              /\ UpdateParent(t)
              /\ blob.state = "DONE" /\ blob'.state = "DONE"
              /\ blob'.children = blob.children \union {t}
         \/ /\ \E i \in Visits : IslandDiscards(i)
            /\ blob.state = "DONE" /\ blob'.state = "DISCARDED" /\ blob'.children = blob.children
<1>0. ~meddled
  BY ModeFixed
<1> USE <1>0 DEF IInv, TypeOK
<1>1. ASSUME NEW t \in Tasks, WriteFlip(t)
      PROVE  blob.state = "DONE" /\ blob'.state = "QUEUED" /\ blob'.children = blob.children
  BY <1>1 DEF WriteFlip, Write, TicketInv, FlipIsCurrent, Program
<1>2. CASE WriteMark
  BY <1>2 DEF WriteMark, Write, TicketInv, RunnerHasCurrent, Program
<1>3. CASE EvaluationEnds
  BY <1>3 DEF EvaluationEnds, Write, TicketInv, RunnerHasCurrent, RecordInv, Program
<1>4. ASSUME NEW t \in Tasks, UpdateParent(t)
      PROVE  /\ blob.state = "DONE" /\ blob'.state = "DONE"
             /\ blob'.children = blob.children \union {t}
  <2>1. /\ pc[t] = "merging" /\ base[t] = blob /\ blob' = Merge(blob, copy[t])
        /\ blob \in Program /\ copy[t] \in Program
    BY <1>4 DEF UpdateParent, WatchFails, Write, UpdateInv
  <2>2. /\ blob.state = "DONE" /\ copy[t].state = "DONE"
        /\ copy[t].children = blob.children \union {t}
    BY <2>1 DEF TicketInv, UsedIsDone, CopyIsDone, Using, RecordInv
  <2> QED BY <2>1, <2>2, MergeUnites
<1>5. CASE DagWrites
  <2>1. blob.state = "RUNNING"
    BY <1>5 DEF DagWrites, RecordInv
  <2>2. blob' = blob
    BY <1>5, <2>1, DagWritesKeep, WritesPrograms DEF Program
  <2> QED BY <2>2
<1>6. ASSUME NEW i \in Visits, IslandUpdates(i) PROVE UNCHANGED blob
  BY <1>6, IslandUpdatesKeep
<1>7. ASSUME NEW i \in Visits, IslandDiscards(i)
      PROVE  /\ blob.state = "DONE" /\ blob'.state = "DISCARDED"
             /\ blob'.children = blob.children
  BY <1>7, IslandDiscardsKeep
<1>8. \/ UNCHANGED blob \/ WriteMark \/ DagWrites \/ EvaluationEnds
      \/ \E t \in Tasks : WriteFlip(t) \/ UpdateParent(t)
      \/ \E i \in Visits : IslandUpdates(i) \/ IslandDiscards(i)
  BY DEF Next, RunnerStep, TaskStep, IslandStep, Launch, ReadMark, Select, TakeLock, AlreadyFresh,
         ReadFlip, AwaitDone, EndsWithoutChild, Persist, GetParent, WatchParent, RetryUpdate,
         LineageUpdateFails, ChildCompletes, IslandReads, IslandLeaves
<1> QED BY <1>1, <1>2, <1>3, <1>4, <1>5, <1>6, <1>7, <1>8

\* No write gets between the read of an update and its write.
LEMMA RecordInvStep ==
  ASSUME IInv, RecordInv, Next
  PROVE  RecordInv'
<1> SUFFICES ASSUME ~coalesce, ~meddled, ~meddled'
             PROVE  /\ \A t \in Tasks : pc'[t] \in {"updating", "merging"} =>
                         copy'[t].children = blob'.children \union {t}
                    /\ runner' = "evaluating" => blob'.state = "RUNNING"
  BY ModeFixed DEF RecordInv
<1> USE DEF IInv, TypeOK
<1>1. ASSUME NEW t \in Tasks, pc'[t] \in {"updating", "merging"}
      PROVE  copy'[t].children = blob'.children \union {t}
  <2>1. CASE GetParent(t)
    BY <2>1 DEF GetParent, Goto, Program
  <2>2. CASE ~GetParent(t)
    <3>1. pc[t] \in {"updating", "merging"} /\ copy'[t] = copy[t] /\ ~UpdateParent(t)
      BY <1>1, <2>2 DEF Next, RunnerStep, TaskStep, IslandStep, Launch, ReadMark, WriteMark,
         DagWrites, EvaluationEnds, IslandReads, IslandUpdates, IslandDiscards, IslandLeaves, Select, TakeLock, AlreadyFresh, ReadFlip, WriteFlip, AwaitDone, EndsWithoutChild, Persist,
         GetParent, WatchParent, UpdateParent, RetryUpdate, LineageUpdateFails, ChildCompletes,
         Goto, Return, taskVars, copies
    <3>2. runner = "idle"
      BY <3>1 DEF TicketInv, UsedIsDone, Using, RunnerHasCurrent
    <3>3. \A u \in Tasks : ~WriteFlip(u) /\ ~UpdateParent(u)
      BY <3>1, OnlyHolder DEF WriteFlip, UpdateParent, Held
    <3>4. holder = t
      BY <3>1 DEF TicketInv, HoldersHold, Held
    <3>5. blob' = blob
      BY <3>2, <3>3, <3>4, Writes, IslandDiscardsKeep, LineageAssumption DEF WriteMark, EvaluationEnds
    <3> QED BY <3>1, <3>5 DEF RecordInv
  <2> QED BY <2>1, <2>2
<1>2. ASSUME runner' = "evaluating" PROVE blob'.state = "RUNNING"
  <2>1. CASE WriteMark
    BY <2>1 DEF WriteMark, Write, Program
  <2>2. CASE ~WriteMark
    <3>1. runner = "evaluating" /\ ~EvaluationEnds
      BY <1>2, <2>2 DEF Next, RunnerStep, TaskStep, IslandStep, Launch, ReadMark, DagWrites,
         EvaluationEnds, TicketInv, RunnerHasCurrent, IslandReads, IslandUpdates, IslandDiscards,
         IslandLeaves, Select, TakeLock, AlreadyFresh, ReadFlip, WriteFlip, AwaitDone,
         EndsWithoutChild, Persist, GetParent, WatchParent, UpdateParent, RetryUpdate,
         LineageUpdateFails, ChildCompletes, runnerVars
    <3>2. blob.state = "RUNNING"
      BY <3>1 DEF RecordInv
    <3> QED BY <2>2, <3>1, <3>2, Writes, IslandDiscardsKeep
  <2> QED BY <2>1, <2>2
<1> QED BY <1>1, <1>2

\* It holds in every behaviour.
LEMMA RecordInvAlways == Spec => []RecordInv
<1>1. Init => RecordInv
  BY DEF Init, RecordInv
<1>2. IInv /\ RecordInv /\ [Next]_vars => RecordInv'
  <2>1. ASSUME RecordInv, UNCHANGED vars PROVE RecordInv'
    BY <2>1 DEF RecordInv, vars, taskVars, copies, runnerVars, islandVars
  <2> QED BY <2>1, RecordInvStep
<1> QED BY <1>1, <1>2, InductiveInvariant, PTL DEF Spec

\* With refresh tickets every behaviour of refreshes, runner, lineage updates and
\* orderly islands is one of a record with atomic operations, although each of
\* them writes back a whole program it read before: nothing is lost, nothing is
\* repeated and no evaluation is skipped, until an island meddles.
THEOREM ImplementsRecord == Spec => ActsAtomically
<1>1. Init => Record!Init
  BY LineageAssumption DEF Init, Fresh, Record!Init
<1>2. IInv /\ IInv' /\ RecordInv /\ [Next]_vars => [Record!Next]_(Record!vars)
  <2> SUFFICES ASSUME IInv, IInv', RecordInv, [Next]_vars
               PROVE  Record!Next \/ UNCHANGED Record!vars
    OBVIOUS
  <2>1. CASE (coalesce \/ meddled)'
    BY <2>1 DEF Record!Next, Record!Disturb, IInv, TypeOK, Program, States
  <2>2. CASE UNCHANGED vars
    BY <2>2 DEF vars, taskVars, islandVars, Record!vars
  <2>3. CASE ~coalesce' /\ ~meddled' /\ Next
    <3>1. ~coalesce /\ ~meddled
      BY <2>3, ModeFixed
    <3> QED BY <2>3, <3>1, Writes
       DEF Record!Next, Record!Operation, Record!Flip, Record!Start, Record!Finish,
           Record!Discard, Record!Transition, Record!AddChild, Record!vars
  <2> QED BY <2>1, <2>2, <2>3
<1> QED BY <1>1, <1>2, InductiveInvariant, RecordInvAlways, PTL DEF Spec, ActsAtomically, Record!Spec
=============================================================================
