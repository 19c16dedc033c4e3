-------------------------- MODULE ParentRefreshProofs --------------------------
(***************************************************************************)
(* Proofs of the safety properties of ParentRefresh, for every number of   *)
(* tasks and parents and in both modes.  All of them rest on Pinning: from *)
(* its flip on a task holds the lock of every parent it selected, with a   *)
(* ticket until its child was ingested.  What a task is about to flip      *)
(* (Pending), what it waits for (Choice) and what was evaluated (Evaluated) *)
(* can then be disturbed by the environment only: in the ways the code     *)
(* expects, or, for a parent that is overtaken from then on, in any way.   *)
(***************************************************************************)
EXTENDS ParentRefresh, FiniteSetTheorems, WellFoundedInduction, TLAPS

Flipping == {"flipping", "awaiting"}
Using == {"mutating", "child"}

\* Who flips or awaits holds all its locks; with a ticket also who mutates.
Pinned(t) == pc[t] \in Flipping \/ (~coalesce /\ pc[t] \in Using)
Pinning == \A t \in Tasks : Pinned(t) => \A p \in par[t] : holder[p] = t

\* What a task re-evaluates is what it selected, and nothing that is fresh.
Choice ==
  /\ \A t \in Tasks : flip[t] \subseteq targets[t] /\ targets[t] \subseteq par[t]
  /\ \A t \in Tasks : pc[t] # "flipping" => flip[t] = {}
  /\ \A t \in Tasks : pc[t] \in {"idle", "locking"} => targets[t] = {}
  /\ \A t \in Tasks : ~coalesce /\ pc[t] \in Flipping => targets[t] = par[t]
  /\ \A t \in Tasks : ~coalesce /\ pc[t] = "reading" => par[t] = {}
  /\ \A t \in Tasks : pc[t] \in Flipping => targets[t] \cap fresh = {}
  /\ ~coalesce => fresh = {}

\* A parent is not active while its flip is on the way.
Pending == \A t \in Tasks : pc[t] = "flipping" => \A p \in flip[t] \ overtaken : state[p] \notin Active

\* With tickets, a target that was DONE at selection and is DONE again was
\* evaluated in between, unless its flip is still on the way.
Evaluated ==
  ~coalesce => \A t \in Tasks : pc[t] \in Flipping =>
    \A p \in targets[t] \ overtaken :
      seen[t][p] = "DONE" /\ state[p] = "DONE" /\ ~(pc[t] = "flipping" /\ p \in flip[t])
        => p \in current

IInv ==
  /\ TypeOK /\ Pinning /\ Choice /\ Pending /\ Evaluated
  /\ ParentsPinned /\ FreshIsEvaluated /\ RefreshedBeforeMutation

-----------------------------------------------------------------------------

\* The engine starts without locks, marks and tasks.
LEMMA IInvInit == Init => IInv
<1> SUFFICES ASSUME Init PROVE IInv
  OBVIOUS
<1>1. TypeOK
  BY ParentRefreshAssumption DEF Init, TypeOK, Unseen
<1>2. Pinning /\ Choice /\ Pending /\ Evaluated
  BY DEF Init, Pinning, Pinned, Flipping, Using, Choice, Pending, Evaluated
<1>3. ParentsPinned /\ FreshIsEvaluated /\ RefreshedBeforeMutation
  BY DEF Init, ParentsPinned, FreshIsEvaluated, RefreshedBeforeMutation
<1> QED BY <1>1, <1>2, <1>3 DEF IInv

\* Two tasks that are pinned share no parent.
LEMMA Exclusion ==
  ASSUME IInv, NEW t \in Tasks, NEW u \in Tasks, t # u, Pinned(t), Pinned(u)
  PROVE  par[t] \cap par[u] = {}
BY DEF IInv, Pinning

\* What the end of a task changes: it is idle, and nobody else loses a lock.
LEMMA EndFacts ==
  ASSUME IInv, NEW t \in Tasks, End(t)
  PROVE  /\ holder' \in [Parents -> Tasks \cup {"nobody"}]
         /\ pc' = [pc EXCEPT ![t] = "idle"]
         /\ par' = [par EXCEPT ![t] = {}] /\ targets' = [targets EXCEPT ![t] = {}]
         /\ seen' = [seen EXCEPT ![t] = Unseen] /\ flip' = [flip EXCEPT ![t] = {}]
         /\ Unseen \in [Parents -> {"DONE", "active", "DISCARDED"}]
         /\ \A u \in Tasks \ {t} : \A p \in Parents : holder[p] = u => holder'[p] = u
BY ParentRefreshAssumption DEF IInv, TypeOK, End, Release, Forget, Unseen

\* A task that ends, marks that are dropped with it and a history that
\* loses only parents of its own keep the invariant.
LEMMA EndStep ==
  ASSUME IInv, NEW t \in Tasks, End(t), UNCHANGED <<coalesce, state, overtaken>>,
         fresh' \subseteq fresh,
         \/ current' = current
         \/ current' = current \ par[t] /\ pc[t] = "child"
  PROVE  IInv'
<1> USE DEF IInv
<1>1. TypeOK'
  <2>1. /\ holder' \in [Parents -> Tasks \cup {"nobody"}]
        /\ pc' = [pc EXCEPT ![t] = "idle"]
        /\ par' = [par EXCEPT ![t] = {}] /\ targets' = [targets EXCEPT ![t] = {}]
        /\ seen' = [seen EXCEPT ![t] = Unseen] /\ flip' = [flip EXCEPT ![t] = {}]
        /\ Unseen \in [Parents -> {"DONE", "active", "DISCARDED"}]
    BY EndFacts
  <2>2. fresh' \subseteq Parents /\ current' \subseteq Parents
    BY DEF TypeOK
  <2> QED BY <2>1, <2>2 DEF TypeOK
<1>2. /\ pc'[t] = "idle" /\ par'[t] = {} /\ targets'[t] = {} /\ flip'[t] = {}
      /\ \A u \in Tasks \ {t} : /\ pc'[u] = pc[u] /\ par'[u] = par[u] /\ targets'[u] = targets[u]
                                /\ flip'[u] = flip[u] /\ seen'[u] = seen[u]
      /\ \A u \in Tasks \ {t} : \A p \in Parents : holder[p] = u => holder'[p] = u
      /\ \A u \in Tasks : par[u] \subseteq Parents
  BY EndFacts DEF TypeOK
<1>3. Pinning'
  BY <1>2 DEF Pinning, Pinned, Flipping, Using
<1>4. Choice'
  BY <1>2 DEF Choice, Flipping
<1>5. Pending' /\ ParentsPinned' /\ FreshIsEvaluated'
  BY <1>2 DEF Pending, ParentsPinned, FreshIsEvaluated
<1>6. \A u \in Tasks \ {t} : \A p \in par[u] :
        ~coalesce /\ pc[u] \in Flipping \cup Using /\ p \in current => p \in current'
  <2>1. CASE current' = current
    BY <2>1
  <2>2. CASE current' = current \ par[t] /\ pc[t] = "child"
    BY <2>2, Exclusion DEF Pinned, Flipping, Using
  <2> QED BY <2>1, <2>2
<1>7. Evaluated'
  BY <1>2, <1>6 DEF Evaluated, Choice, Flipping
<1>8. RefreshedBeforeMutation'
  BY <1>2, <1>6 DEF RefreshedBeforeMutation, Using
<1> QED BY <1>1, <1>3, <1>4, <1>5, <1>7, <1>8

\* All the ends there are.
LEMMA EndingSteps ==
  ASSUME IInv, NEW t \in Tasks,
         \/ RefuseDiscarded(t) \/ AwaitFails(t) \/ MutationFails(t)
         \/ IngestChild(t) \/ CancelRefresh(t)
  PROVE  IInv'
<1>1. End(t) /\ UNCHANGED <<coalesce, state, overtaken>> /\ fresh' \subseteq fresh
  BY DEF RefuseDiscarded, AwaitFails, MutationFails, IngestChild, MarkCompleted, CancelRefresh, history
<1>2. \/ current' = current
      \/ current' = current \ par[t] /\ pc[t] = "child"
  BY DEF RefuseDiscarded, AwaitFails, MutationFails, IngestChild, MarkCompleted, CancelRefresh, history
<1> QED BY <1>1, <1>2, EndStep

\* The steps up to the last lock concern only a task that waits.
LEMMA LockingSteps ==
  ASSUME IInv, NEW t \in Tasks, Select(t) \/ TakeLock(t) \/ AllFresh(t)
  PROVE  IInv'
<1> USE DEF IInv
<1>1. CASE Select(t)
  <2>1. PICK P \in ParentSets :
          /\ pc[t] = "idle" /\ pc' = [pc EXCEPT ![t] = "locking"]
          /\ par' = [par EXCEPT ![t] = P]
          /\ seen' = [seen EXCEPT ![t] = [p \in Parents |-> IF p \in P THEN InSnapshot(p) ELSE "DONE"]]
          /\ UNCHANGED <<coalesce, state, holder, fresh, targets, flip, current, overtaken>>
    BY <1>1 DEF Select, history
  <2>2. [p \in Parents |-> IF p \in P THEN InSnapshot(p) ELSE "DONE"]
          \in [Parents -> {"DONE", "active", "DISCARDED"}]
    BY DEF InSnapshot, Active, TypeOK
  <2>3. TypeOK'
    BY <2>1, <2>2 DEF TypeOK, ParentSets
  <2>4. /\ pc'[t] = "locking"
        /\ \A u \in Tasks \ {t} : pc'[u] = pc[u] /\ par'[u] = par[u] /\ seen'[u] = seen[u]
    BY <2>1 DEF TypeOK
  <2>5. Pinning' /\ Pending' /\ Evaluated'
    BY <2>1, <2>4 DEF Pinning, Pinned, Flipping, Using, Pending, Evaluated
  <2>6. Choice'
    BY <2>1, <2>4 DEF Choice, Flipping
  <2>7. ParentsPinned' /\ FreshIsEvaluated' /\ RefreshedBeforeMutation'
    BY <2>1, <2>4 DEF ParentsPinned, FreshIsEvaluated, RefreshedBeforeMutation
  <2> QED BY <2>3, <2>5, <2>6, <2>7
<1>2. CASE TakeLock(t)
  <2>1. PICK p \in Parents :
          /\ holder[p] = "nobody" /\ holder' = [holder EXCEPT ![p] = t]
          /\ UNCHANGED <<coalesce, state, fresh, pc, par, seen, targets, flip, current, overtaken>>
    BY <1>2 DEF TakeLock, NextLocks, Missing, LockFree, taskVars, history, TypeOK
  <2>2. TypeOK'
    BY <2>1 DEF TypeOK
  <2>3. \A u \in Tasks : \A q \in Parents : holder[q] = u => holder'[q] = u
    BY <2>1, ParentRefreshAssumption DEF TypeOK
  <2>4. Pinning'
    BY <2>1, <2>3 DEF Pinning, Pinned, Flipping, Using, TypeOK
  <2>5. Choice' /\ Pending' /\ Evaluated' /\ ParentsPinned' /\ FreshIsEvaluated'
        /\ RefreshedBeforeMutation'
    BY <2>1 DEF Choice, Pending, Evaluated, ParentsPinned, FreshIsEvaluated,
                RefreshedBeforeMutation
  <2> QED BY <2>2, <2>4, <2>5
<1>3. CASE AllFresh(t)
  <2>1. /\ pc[t] = "locking" /\ Stale(t) = {} /\ pc' = [pc EXCEPT ![t] = "reading"]
        /\ UNCHANGED <<coalesce, state, holder, fresh, par, seen, targets, flip, current, overtaken>>
    BY <1>3 DEF AllFresh, taskVars, history
  <2>2. pc'[t] = "reading" /\ \A u \in Tasks \ {t} : pc'[u] = pc[u]
    BY <2>1 DEF TypeOK
  <2>3. TypeOK'
    BY <2>1 DEF TypeOK
  <2>4. Choice'
    BY <2>1, <2>2 DEF Choice, Flipping, Stale
  <2>5. Pinning' /\ Pending' /\ Evaluated' /\ ParentsPinned' /\ FreshIsEvaluated'
        /\ RefreshedBeforeMutation'
    BY <2>1, <2>2 DEF Pinning, Pinned, Flipping, Using, Pending, Evaluated, ParentsPinned,
                      FreshIsEvaluated, RefreshedBeforeMutation
  <2> QED BY <2>3, <2>4, <2>5
<1> QED BY <1>1, <1>2, <1>3

\* The states are read under all locks.
LEMMA BeginFlipStep ==
  ASSUME IInv, NEW t \in Tasks, BeginFlip(t)
  PROVE  IInv'
<1> USE DEF IInv
<1>1. /\ pc[t] = "locking" /\ Missing(t) = {} /\ pc' = [pc EXCEPT ![t] = "flipping"]
      /\ targets' = [targets EXCEPT ![t] = Stale(t)]
      /\ flip' = [flip EXCEPT ![t] = {p \in Stale(t) : seen[t][p] = "DONE" /\ state[p] = "DONE"}]
      /\ UNCHANGED <<coalesce, state, holder, fresh, par, seen, current, overtaken>>
  BY DEF BeginFlip, history
<1>2. Stale(t) \subseteq par[t] /\ par[t] \subseteq Parents
      /\ (~coalesce => Stale(t) = par[t]) /\ Stale(t) \cap fresh = {}
  BY DEF Stale, TypeOK, Choice
<1>3. TypeOK'
  BY <1>1, <1>2 DEF TypeOK
<1>4. /\ pc'[t] = "flipping" /\ targets'[t] = Stale(t)
      /\ flip'[t] = {p \in Stale(t) : seen[t][p] = "DONE" /\ state[p] = "DONE"}
      /\ \A u \in Tasks \ {t} : pc'[u] = pc[u] /\ targets'[u] = targets[u] /\ flip'[u] = flip[u]
  BY <1>1 DEF TypeOK
<1>5. Pinning'
  BY <1>1, <1>4 DEF Pinning, Pinned, Flipping, Using, Missing
<1>6. Choice'
  BY <1>1, <1>2, <1>4 DEF Choice, Flipping
<1>7. Pending'
  BY <1>1, <1>4 DEF Pending, Active
<1>8. Evaluated'
  BY <1>1, <1>4 DEF Evaluated, Flipping
<1>9. ParentsPinned' /\ FreshIsEvaluated' /\ RefreshedBeforeMutation'
  BY <1>1, <1>4 DEF ParentsPinned, FreshIsEvaluated, RefreshedBeforeMutation
<1> QED BY <1>3, <1>5, <1>6, <1>7, <1>8, <1>9

\* The flip concerns parents that only this task has locked.
LEMMA WriteFlipStep ==
  ASSUME IInv, NEW t \in Tasks, WriteFlip(t)
  PROVE  IInv'
<1> USE DEF IInv
<1>1. /\ pc[t] = "flipping" /\ pc' = [pc EXCEPT ![t] = "awaiting"]
      /\ state' = [p \in Parents |-> IF p \in flip[t] THEN "QUEUED" ELSE state[p]]
      /\ flip' = [flip EXCEPT ![t] = {}]
      /\ UNCHANGED <<coalesce, holder, fresh, par, seen, targets, current, overtaken>>
  BY DEF WriteFlip, history
<1>2. TypeOK'
  BY <1>1 DEF TypeOK
<1>3. /\ pc'[t] = "awaiting" /\ flip'[t] = {}
      /\ \A u \in Tasks \ {t} : pc'[u] = pc[u] /\ flip'[u] = flip[u]
      /\ \A p \in Parents \ flip[t] : state'[p] = state[p]
      /\ \A p \in flip[t] : state'[p] = "QUEUED"
      /\ \A u \in Tasks : par[u] \subseteq Parents
  BY <1>1 DEF TypeOK
<1>4. flip[t] \subseteq par[t] /\ flip[t] \subseteq targets[t] /\ Pinned(t)
      /\ flip[t] \cap fresh = {}
  BY <1>1 DEF Choice, Pinned, Flipping
<1>5. \A u \in Tasks \ {t} : Pinned(u) => par[u] \cap flip[t] = {}
  BY <1>4, Exclusion
<1>6. Pinning' /\ Choice'
  BY <1>1, <1>3 DEF Pinning, Pinned, Flipping, Using, Choice
<1>7. Pending'
  <2> SUFFICES ASSUME NEW u \in Tasks, pc'[u] = "flipping", NEW p \in flip'[u] \ overtaken'
               PROVE  state'[p] \notin Active
    BY DEF Pending
  <2>1. /\ u # t /\ pc[u] = "flipping" /\ p \in flip[u] \ overtaken
        /\ p \in par[u] /\ Pinned(u)
    BY <1>1, <1>3 DEF Choice, Pinned, Flipping
  <2>2. p \in Parents \ flip[t]
    BY <1>3, <1>5, <2>1
  <2> QED BY <1>3, <2>1, <2>2 DEF Pending
<1>8. Evaluated'
  <2> SUFFICES ASSUME ~coalesce, NEW u \in Tasks, pc'[u] \in Flipping, NEW p \in targets[u] \ overtaken,
                      seen[u][p] = "DONE", state'[p] = "DONE",
                      ~(pc'[u] = "flipping" /\ p \in flip'[u])
               PROVE  p \in current
    BY <1>1 DEF Evaluated
  <2>1. p \in Parents /\ p \notin flip[t] /\ state[p] = "DONE"
    BY <1>3 DEF Choice
  <2>2. pc[u] \in Flipping /\ ~(pc[u] = "flipping" /\ p \in flip[u])
    BY <1>1, <1>3, <2>1 DEF Flipping
  <2> QED BY <2>1, <2>2 DEF Evaluated
<1>9. ParentsPinned'
  <2> SUFFICES ASSUME ~coalesce, NEW u \in Tasks, pc'[u] \in Using, NEW p \in par[u] \ overtaken
               PROVE  state'[p] \notin Active
    BY <1>1 DEF ParentsPinned, Using
  <2>1. u # t /\ pc[u] \in Using /\ Pinned(u)
    BY <1>3 DEF Pinned, Using
  <2> QED BY <1>3, <1>5, <2>1 DEF ParentsPinned, Using
<1>10. FreshIsEvaluated'
  BY <1>1, <1>3, <1>4 DEF FreshIsEvaluated, TypeOK
<1>11. RefreshedBeforeMutation'
  BY <1>1, <1>3 DEF RefreshedBeforeMutation
<1> QED BY <1>2, <1>6, <1>7, <1>8, <1>9, <1>10, <1>11

\* A task returns from the refresh: all it waited for is DONE.
LEMMA AwaitDoneStep ==
  ASSUME IInv, NEW t \in Tasks, AwaitDone(t)
  PROVE  IInv'
<1> USE DEF IInv
<1>1. /\ pc[t] = "awaiting" /\ \A p \in targets[t] : state[p] = "DONE"
      /\ fresh' = IF coalesce THEN fresh \cup targets[t] ELSE fresh
      /\ UNCHANGED <<coalesce, state, par, seen, flip, current, overtaken>>
  BY DEF AwaitDone, AllDone, history
<1>2. \/ /\ targets[t] = par[t] /\ pc' = [pc EXCEPT ![t] = "mutating"]
         /\ targets' = [targets EXCEPT ![t] = {}] /\ KeepTicket(t)
      \/ /\ targets[t] # par[t] /\ pc' = [pc EXCEPT ![t] = "reading"]
         /\ UNCHANGED <<holder, targets>>
  BY DEF AwaitDone, Return
<1>3. /\ pc'[t] \in {"mutating", "reading"} /\ targets'[t] \subseteq targets[t]
      /\ \A u \in Tasks \ {t} : pc'[u] = pc[u] /\ targets'[u] = targets[u]
      /\ \A u \in Tasks : par[u] \subseteq Parents /\ targets[u] \subseteq Parents
      /\ (coalesce \/ (pc'[t] = "mutating" /\ holder' = holder))
  BY <1>1, <1>2 DEF TypeOK, KeepTicket, Choice, Flipping
<1>4. holder' \in [Parents -> Tasks \cup {"nobody"}]
      /\ \A u \in Tasks \ {t} : \A p \in Parents : holder[p] = u => holder'[p] = u
  BY <1>2 DEF TypeOK, KeepTicket, Release
<1>5. TypeOK'
  BY <1>1, <1>2, <1>4 DEF TypeOK
<1>6. Pinned(t) /\ \A p \in par[t] : holder[p] = t
  BY <1>1 DEF Pinned, Flipping, Pinning
<1>7. Pinning'
  <2> SUFFICES ASSUME NEW u \in Tasks, Pinned(u)', NEW p \in par[u]
               PROVE  holder'[p] = u
    BY <1>1 DEF Pinning
  <2>1. CASE u = t
    BY <1>1, <1>3, <1>6, <2>1 DEF Pinned, Flipping, Using
  <2>2. CASE u # t
    BY <1>1, <1>3, <1>4, <2>2 DEF Pinned, Pinning
  <2> QED BY <2>1, <2>2
<1>8. Choice'
  <2>1. \A u \in Tasks \ {t} : pc[u] \in Flipping => targets[u] \cap fresh' = {}
    BY <1>1, <1>6, Exclusion DEF Choice, Pinned
  <2> QED BY <1>1, <1>2, <1>3, <2>1 DEF Choice, Flipping
<1>9. Pending'
  BY <1>1, <1>3 DEF Pending
<1>10. Evaluated'
  BY <1>1, <1>3 DEF Evaluated, Flipping
<1>11. ~coalesce => targets[t] = par[t]
  BY <1>1 DEF Choice, Flipping
<1>12. ParentsPinned'
  BY <1>1, <1>3, <1>11 DEF ParentsPinned, Active
<1>13. FreshIsEvaluated'
  BY <1>1 DEF FreshIsEvaluated, Active
<1>14. RefreshedBeforeMutation'
  BY <1>1, <1>3, <1>11 DEF RefreshedBeforeMutation, Evaluated, Flipping
<1> QED BY <1>5, <1>7, <1>8, <1>9, <1>10, <1>12, <1>13, <1>14

\* The other steps of a task that is through with its refresh.
LEMMA UsingSteps ==
  ASSUME IInv, NEW t \in Tasks, ReadFresh(t) \/ RegisterChild(t) \/ OfferAgain(t)
  PROVE  IInv'
<1> USE DEF IInv
<1>1. CASE ReadFresh(t)
  <2>1. /\ pc[t] = "reading" /\ pc' = [pc EXCEPT ![t] = "mutating"]
        /\ targets' = [targets EXCEPT ![t] = {}] /\ KeepTicket(t)
        /\ UNCHANGED <<coalesce, state, fresh, par, seen, flip, current, overtaken>>
    BY <1>1 DEF ReadFresh, Return, history
  <2>2. /\ pc'[t] = "mutating" /\ targets'[t] = {}
        /\ \A u \in Tasks \ {t} : pc'[u] = pc[u] /\ targets'[u] = targets[u]
        /\ ~coalesce => par[t] = {}
        /\ \A u \in Tasks : par[u] \subseteq Parents
    BY <2>1 DEF TypeOK, Choice
  <2>3. holder' \in [Parents -> Tasks \cup {"nobody"}]
        /\ \A u \in Tasks \ {t} : \A p \in Parents : holder[p] = u => holder'[p] = u
    BY <2>1 DEF TypeOK, KeepTicket, Release
  <2>4. TypeOK'
    BY <2>1, <2>3 DEF TypeOK
  <2>5. Pinning'
    BY <2>1, <2>2, <2>3 DEF Pinning, Pinned, Flipping, Using
  <2>6. Choice'
    BY <2>1, <2>2 DEF Choice, Flipping
  <2>7. Pending' /\ Evaluated' /\ ParentsPinned' /\ FreshIsEvaluated' /\ RefreshedBeforeMutation'
    BY <2>1, <2>2 DEF Pending, Evaluated, Flipping, ParentsPinned, FreshIsEvaluated,
                      RefreshedBeforeMutation
  <2> QED BY <2>4, <2>5, <2>6, <2>7
<1>2. CASE RegisterChild(t)
  <2>1. /\ pc[t] = "mutating" /\ pc' = [pc EXCEPT ![t] = "child"]
        /\ seen' = [seen EXCEPT ![t] = Unseen]
        /\ UNCHANGED <<coalesce, state, holder, fresh, par, targets, flip, current, overtaken>>
    BY <1>2 DEF RegisterChild, history
  <2>2. pc'[t] = "child" /\ \A u \in Tasks \ {t} : pc'[u] = pc[u] /\ seen'[u] = seen[u]
    BY <2>1 DEF TypeOK
  <2>3. TypeOK'
    BY <2>1 DEF TypeOK, Unseen
  <2>4. Pinning' /\ Choice'
    BY <2>1, <2>2 DEF Pinning, Pinned, Flipping, Using, Choice
  <2>5. Pending' /\ Evaluated' /\ ParentsPinned' /\ FreshIsEvaluated' /\ RefreshedBeforeMutation'
    BY <2>1, <2>2 DEF Pending, Evaluated, Flipping, ParentsPinned, FreshIsEvaluated,
                      RefreshedBeforeMutation
  <2> QED BY <2>3, <2>4, <2>5
<1>3. CASE OfferAgain(t)
  <2>1. /\ pc[t] = "child" /\ fresh' = fresh \ par[t] /\ current' = current \ par[t]
        /\ UNCHANGED <<coalesce, state, holder, pc, par, seen, targets, flip, overtaken>>
    BY <1>3 DEF OfferAgain, MarkCompleted, taskVars
  <2>2. TypeOK' /\ Pinning' /\ Choice' /\ Pending' /\ ParentsPinned' /\ FreshIsEvaluated'
    BY <2>1 DEF TypeOK, Pinning, Pinned, Choice, Pending, ParentsPinned, FreshIsEvaluated
  <2>3. \A u \in Tasks : \A p \in par[u] :
          ~coalesce /\ pc[u] \in Flipping \cup {"mutating"} /\ p \in current => p \in current'
    BY <2>1, Exclusion DEF Pinned, Flipping, Using
  <2>4. Evaluated' /\ RefreshedBeforeMutation'
    BY <2>1, <2>3 DEF Evaluated, Choice, RefreshedBeforeMutation
  <2> QED BY <2>2, <2>4
<1> QED BY <1>1, <1>2, <1>3

\* What the runner and the islands do to a parent.
LEMMA ProgramSteps ==
  ASSUME IInv, NEW q \in Parents, ProgramNext(q)
  PROVE  IInv'
<1> USE DEF IInv
<1>1. UNCHANGED <<coalesce, holder, fresh, pc, par, seen, targets, flip>>
  BY DEF ProgramNext, EvaluationBegins, EvaluationEnds, Discard, Overtake, taskVars, history
<1>2. PICK s \in {"DONE", "QUEUED", "RUNNING", "DISCARDED"} :
        /\ state' = [state EXCEPT ![q] = s]
        /\ current \subseteq current' /\ current' \subseteq current \cup {q}
        /\ \/ /\ s \in Active => state[q] \in Active
              /\ s = "DONE" => q \in current'
              /\ overtaken' = overtaken
           \/ overtaken' = overtaken \cup {q}
  BY DEF ProgramNext, EvaluationBegins, EvaluationEnds, Discard, Overtake, Active, history
<1>3. /\ state'[q] = s /\ \A p \in Parents \ {q} : state'[p] = state[p]
      /\ current \subseteq current' /\ current' \subseteq Parents
      /\ overtaken \subseteq overtaken' /\ overtaken' \subseteq Parents
      /\ s = "DONE" /\ q \notin overtaken' => q \in current'
      /\ \A p \in Parents \ overtaken' : state'[p] \in Active => state[p] \in Active
      /\ \A u \in Tasks : par[u] \subseteq Parents
  BY <1>2 DEF TypeOK
<1>4. TypeOK'
  BY <1>1, <1>2, <1>3 DEF TypeOK
<1>5. Pinning' /\ Choice'
  BY <1>1 DEF Pinning, Pinned, Choice
<1>6. Pending' /\ ParentsPinned' /\ FreshIsEvaluated'
  BY <1>1, <1>3 DEF Pending, Choice, ParentsPinned, FreshIsEvaluated, TypeOK
<1>7. Evaluated'
  <2> SUFFICES ASSUME ~coalesce, NEW u \in Tasks, pc[u] \in Flipping, NEW p \in targets[u] \ overtaken',
                      seen[u][p] = "DONE", state'[p] = "DONE",
                      ~(pc[u] = "flipping" /\ p \in flip[u])
               PROVE  p \in current'
    BY <1>1 DEF Evaluated
  <2>1. p \in Parents
    BY <1>3 DEF Choice
  <2>2. CASE p = q
    BY <1>3, <2>2
  <2>3. CASE p # q
    BY <1>3, <2>1, <2>3 DEF Evaluated
  <2> QED BY <2>2, <2>3
<1>8. RefreshedBeforeMutation'
  BY <1>1, <1>3 DEF RefreshedBeforeMutation
<1> QED BY <1>4, <1>5, <1>6, <1>7, <1>8

\* Every step keeps the invariant.
LEMMA IInvStep == IInv /\ [Next]_vars => IInv'
<1> SUFFICES ASSUME IInv, [Next]_vars PROVE IInv'
  OBVIOUS
<1>1. ASSUME NEW t \in Tasks, TaskNext(t) PROVE IInv'
  BY <1>1, EndingSteps, LockingSteps, BeginFlipStep, WriteFlipStep, AwaitDoneStep, UsingSteps
     DEF TaskNext, RefreshStep, AwaitOver, MutationOver
<1>2. CASE UNCHANGED vars
  BY <1>2 DEF vars, taskVars, history, IInv, TypeOK, Pinning, Pinned, Choice, Pending, Evaluated,
              ParentsPinned, FreshIsEvaluated, RefreshedBeforeMutation
<1> QED BY <1>1, <1>2, ProgramSteps DEF Next

\* The invariant holds in every behaviour.
LEMMA IInvAlways == Spec => []IInv
BY IInvInit, IInvStep, PTL DEF Spec

-----------------------------------------------------------------------------
(* What the refresh promises *)

\* The variables keep their types.
THEOREM TypeCorrect == Spec => []TypeOK
<1>1. IInv => TypeOK
  BY DEF IInv
<1> QED BY <1>1, IInvAlways, PTL

\* A ticket pins the parents that nobody overtakes until the child was ingested
\* (refresh_with_ticket).
THEOREM TicketsPinParents == Spec => []ParentsPinned
<1>1. IInv => ParentsPinned
  BY DEF IInv
<1> QED BY <1>1, IInvAlways, PTL

\* Skipping the refresh of a fresh parent that was not overtaken gives finished
\* results (refresh_if_stale).
THEOREM FreshParentsAreEvaluated == Spec => []FreshIsEvaluated
<1>1. IInv => FreshIsEvaluated
  BY DEF IInv
<1> QED BY <1>1, IInvAlways, PTL

\* With tickets, a parent that was DONE at selection and not overtaken was
\* evaluated after its last child completed (refresh_with_ticket,
\* mark_children_completed).
THEOREM MutationsUseRefreshed == Spec => []RefreshedBeforeMutation
<1>1. IInv => RefreshedBeforeMutation
  BY DEF IInv
<1> QED BY <1>1, IInvAlways, PTL

\* No refresh flips a parent that is being evaluated, unless it was overtaken
\* (_do_refresh).
THEOREM NeverDoubleFlipped == Spec => NoDoubleFlip
<1>1. ASSUME IInv, [Next]_vars
      PROVE  [\A p \in Parents \ overtaken' : state[p] = "RUNNING" => state'[p] # "QUEUED"]_vars
  <2> SUFFICES ASSUME Next, NEW p \in Parents \ overtaken', state[p] = "RUNNING", state'[p] = "QUEUED"
               PROVE  FALSE
    BY <1>1
  <2>1. PICK t \in Tasks : WriteFlip(t)
    BY <1>1 DEF Next, TaskNext, RefreshStep, AwaitOver, MutationOver, ProgramNext,
                Select, TakeLock, BeginFlip, AllFresh, RefuseDiscarded, AwaitDone, AwaitFails,
                ReadFresh, MutationFails, RegisterChild, IngestChild, OfferAgain, CancelRefresh,
                EvaluationBegins, EvaluationEnds, Discard, Overtake, IInv, TypeOK
  <2>2. p \in flip[t] \ overtaken /\ pc[t] = "flipping"
    BY <2>1 DEF WriteFlip, history
  <2> QED BY <1>1, <2>2 DEF IInv, Pending, Active
<1> QED BY <1>1, IInvAlways, PTL DEF Spec, NoDoubleFlip

-----------------------------------------------------------------------------
(* Sorted acquisition *)

\* Who has a lock selected that parent; who still waits has only locks that
\* come before the ones it misses.
Owned == \A t \in Tasks, p \in Parents : holder[p] = t => p \in par[t] /\ pc[t] # "idle"
Sorted ==
  \A t \in Tasks : pc[t] = "locking" =>
    \A p \in par[t], q \in Missing(t) : holder[p] = t => p < q
Acquisition == Owned /\ Sorted

\* A step in which no task starts to wait or gets a lock, and only a task that
\* gives back all its locks leaves its selection.
LEMMA AcquisitionFrame ==
  ASSUME TypeOK, Acquisition,
         \A t \in Tasks, p \in Parents : holder'[p] = t => holder[p] = t,
         \A t \in Tasks :
           \/ par'[t] = par[t] /\ pc'[t] # "idle" /\ pc'[t] # "locking"
           \/ /\ par'[t] = par[t] /\ pc'[t] = pc[t]
              /\ \A p \in Parents : holder'[p] = t <=> holder[p] = t
           \/ pc'[t] # "locking" /\ \A p \in Parents : holder'[p] # t
  PROVE  Acquisition'
<1> USE DEF Acquisition
<1>1. Owned'
  BY DEF Owned
<1>2. Sorted'
  <2> SUFFICES ASSUME NEW t \in Tasks, pc'[t] = "locking", NEW p \in par'[t], NEW q \in Missing(t)',
                      holder'[p] = t
               PROVE  p < q
    BY DEF Sorted
  <2>1. p \in Parents
    BY DEF TypeOK
  <2>2. par'[t] = par[t] /\ pc[t] = "locking" /\ \A r \in Parents : holder'[r] = t <=> holder[r] = t
    BY <2>1
  <2>3. q \in Missing(t) /\ holder[p] = t /\ p \in par[t]
    BY <2>1, <2>2 DEF Missing, TypeOK
  <2> QED BY <2>2, <2>3 DEF Sorted
<1> QED BY <1>1, <1>2

\* The end of a task gives back all its locks and none of the others'.
LEMMA EndAcquisition ==
  ASSUME TypeOK, Acquisition, NEW t \in Tasks, End(t)
  PROVE  Acquisition'
<1>1. /\ \A p \in Parents : holder'[p] = IF holder[p] = t THEN "nobody" ELSE holder[p]
      /\ pc'[t] = "idle"
      /\ \A u \in Tasks \ {t} : pc'[u] = pc[u] /\ par'[u] = par[u]
  BY DEF TypeOK, End, Release, Forget
<1> QED BY <1>1, ParentRefreshAssumption, AcquisitionFrame

\* What a task does with its locks keeps the order.
LEMMA TaskAcquisition ==
  ASSUME TypeOK, Acquisition, NEW t \in Tasks, TaskNext(t)
  PROVE  Acquisition'
<1>1. CASE Select(t)
  <2>1. /\ pc[t] = "idle" /\ pc' = [pc EXCEPT ![t] = "locking"] /\ holder' = holder
        /\ \E P \in ParentSets : par' = [par EXCEPT ![t] = P]
    BY <1>1 DEF Select, history
  <2>2. \A u \in Tasks \ {t} : pc'[u] = pc[u] /\ par'[u] = par[u]
    BY <2>1 DEF TypeOK
  <2>3. par'[t] \subseteq Parents /\ \A p \in Parents : holder[p] # t
    BY <2>1 DEF Acquisition, Owned, ParentSets, TypeOK
  <2>4. Owned'
    BY <2>1, <2>2, <2>3 DEF Acquisition, Owned
  <2>5. \A u \in Tasks : pc'[u] = "locking" /\ u # t => Missing(u)' = Missing(u)
    BY <2>1, <2>2 DEF Missing
  <2>6. Sorted'
    BY <2>1, <2>2, <2>3, <2>5 DEF Acquisition, Sorted
  <2> QED BY <2>4, <2>6 DEF Acquisition
<1>2. CASE TakeLock(t)
  <2>1. PICK p \in NextLocks(t) :
          /\ pc[t] = "locking" /\ holder[p] = "nobody" /\ holder' = [holder EXCEPT ![p] = t]
          /\ UNCHANGED <<pc, par>>
    BY <1>2 DEF TakeLock, LockFree, taskVars, history
  <2>2. p \in Missing(t) /\ p \in par[t] /\ p \in Parents /\ \A q \in Missing(t) : p <= q
    BY DEF NextLocks, Missing, TypeOK
  <2>3. /\ \A q \in Parents \ {p} : holder'[q] = holder[q]
        /\ holder'[p] = t
    BY <2>1, <2>2 DEF TypeOK
  <2>4. Owned'
    BY <2>1, <2>2, <2>3 DEF Acquisition, Owned
  <2>5. ASSUME NEW u \in Tasks, pc[u] = "locking", NEW r \in par[u], NEW q \in Missing(u)',
               holder'[r] = u
        PROVE  r < q
    <3>1. r \in Parents /\ q \in Parents /\ r \in Nat /\ q \in Nat /\ p \in Nat
      BY <2>1, <2>2, <2>5, ParentRefreshAssumption DEF Missing, TypeOK
    <3>2. q \in Missing(u) /\ q # r
      BY <2>1, <2>2, <2>3, <2>5, <3>1, ParentRefreshAssumption DEF Missing
    <3>3. CASE r = p
      <4>1. u = t
        BY <2>3, <2>5, <3>3
      <4> QED BY <2>2, <3>1, <3>2, <3>3, <4>1
    <3>4. CASE r # p
      BY <2>3, <2>5, <3>1, <3>2, <3>4 DEF Acquisition, Sorted
    <3> QED BY <3>3, <3>4
  <2>6. Sorted'
    BY <2>1, <2>5 DEF Sorted
  <2> QED BY <2>4, <2>6 DEF Acquisition
<1>3. CASE RefuseDiscarded(t) \/ AwaitFails(t) \/ MutationFails(t) \/ IngestChild(t) \/ CancelRefresh(t)
  BY <1>3, EndAcquisition
     DEF RefuseDiscarded, AwaitFails, MutationFails, IngestChild, CancelRefresh
<1>4. CASE AwaitDone(t) \/ ReadFresh(t)
  <2>1. /\ \E s \in {"mutating", "reading"} : pc' = [pc EXCEPT ![t] = s]
        /\ par' = par
        /\ holder' = holder \/ Release(t)
    BY <1>4 DEF AwaitDone, ReadFresh, Return, KeepTicket
  <2>2. \A u \in Tasks, p \in Parents :
          /\ holder'[p] = u => holder[p] = u
          /\ u # t /\ holder[p] = u => holder'[p] = u
    BY <2>1, ParentRefreshAssumption DEF Release
  <2>3. /\ pc'[t] # "idle" /\ pc'[t] # "locking" /\ \A u \in Tasks \ {t} : pc'[u] = pc[u]
    BY <2>1 DEF TypeOK
  <2>4. par'[t] = par[t] /\ \A u \in Tasks \ {t} : par'[u] = par[u]
    BY <2>1
  <2>5. \A u \in Tasks \ {t}, p \in Parents : holder'[p] = u <=> holder[p] = u
    BY <2>2
  <2> QED BY <2>2, <2>3, <2>4, <2>5, AcquisitionFrame
<1>5. CASE BeginFlip(t) \/ AllFresh(t) \/ WriteFlip(t) \/ RegisterChild(t) \/ OfferAgain(t)
  <2>1. /\ par' = par /\ holder' = holder
        /\ (pc' = pc \/ \E s \in {"flipping", "reading", "awaiting", "child"} : pc' = [pc EXCEPT ![t] = s])
    BY <1>5 DEF BeginFlip, AllFresh, WriteFlip, RegisterChild, OfferAgain, taskVars
  <2>2. \A u \in Tasks : pc'[u] = pc[u] \/ pc'[u] \in {"flipping", "reading", "awaiting", "child"}
    BY <2>1 DEF TypeOK
  <2> QED BY <2>1, <2>2, AcquisitionFrame
<1> QED BY <1>1, <1>2, <1>3, <1>4, <1>5
        DEF TaskNext, RefreshStep, AwaitOver, MutationOver

\* Locks are taken in order in every behaviour.
LEMMA AcquisitionAlways == Spec => []Acquisition
<1>1. Init => Acquisition
  BY ParentRefreshAssumption DEF Init, Acquisition, Owned, Sorted
<1>2. IInv /\ Acquisition /\ [Next]_vars => Acquisition'
  <2> SUFFICES ASSUME IInv, Acquisition, [Next]_vars PROVE Acquisition'
    OBVIOUS
  <2>0. TypeOK
    BY DEF IInv
  <2>1. ASSUME NEW q \in Parents, ProgramNext(q) PROVE Acquisition'
    BY <2>1 DEF ProgramNext, EvaluationBegins, EvaluationEnds, Discard, Overtake, taskVars, Acquisition, Owned,
                Sorted, Missing
  <2>2. CASE UNCHANGED vars
    BY <2>2 DEF vars, taskVars, history, Acquisition, Owned, Sorted, Missing
  <2> QED BY <2>0, <2>1, <2>2, TaskAcquisition DEF Next
<1> QED BY <1>1, <1>2, IInvAlways, PTL DEF Spec

\* A function into the naturals has a greatest value on a finite set.
LEMMA FiniteMaximum ==
  ASSUME NEW W, IsFiniteSet(W), W # {}, NEW f \in [W -> Nat]
  PROVE  \E t \in W : \A u \in W : f[u] <= f[t]
<1> DEFINE Above(t) == {u \in W : f[u] > f[t]}
           Aboves == {Above(t) : t \in W}
<1>1. IsWellFoundedOn(StrictSubsetOrdering(W), FiniteSubsetsOf(W))
  BY FS_StrictSubsetOrderingWellFounded
<1>2. Aboves \subseteq FiniteSubsetsOf(W) /\ Aboves # {}
  <2>1. \A S \in SUBSET W : IsFiniteSet(S)
    BY FS_Subset
  <2>2. \A t \in W : Above(t) \in SUBSET W
    OBVIOUS
  <2>3. \A t \in W : Above(t) \in FiniteSubsetsOf(W)
    <3> HIDE DEF Above
    <3> QED BY <2>1, <2>2 DEF FiniteSubsetsOf
  <2> HIDE DEF Above
  <2> QED BY <2>3
<1>3. PICK A \in Aboves : \A B \in Aboves : ~(<<B, A>> \in StrictSubsetOrdering(W))
  <2> HIDE DEF Aboves
  <2> QED BY <1>1, <1>2, WFMin
<1>4. PICK t \in W : A = Above(t)
  OBVIOUS
<1>5. ASSUME NEW u \in W, f[u] > f[t] PROVE FALSE
  <2>1. Above(u) \subseteq Above(t) /\ u \in Above(t) /\ u \notin Above(u)
    BY <1>5
  <2>2. <<Above(u), A>> \in StrictSubsetOrdering(W)
    BY <1>4, <2>1 DEF StrictSubsetOrdering
  <2> QED BY <1>3, <2>2
<1>6. \A u \in W : f[u] <= f[t]
  BY <1>5
<1> QED BY <1>6

\* Waiting for locks never becomes circular, however many tasks keep how many
\* tickets: whoever is waited for waits for a later lock (refresh_with_ticket,
\* refresh_if_stale).
THEOREM LocksNeverCycle == Spec => []NoLockCycle
<1>1. IInv /\ Acquisition => NoLockCycle
  <2> SUFFICES ASSUME IInv, Acquisition, NEW W \in SUBSET Tasks, IsFiniteSet(W), W # {},
                      \A t \in W : \E u \in W : WaitsFor(t, u)
               PROVE  FALSE
    BY DEF NoLockCycle
  <2> DEFINE wanted == [t \in W |-> CHOOSE p \in NextLocks(t) : TRUE]
  <2>1. \A t \in W : \A p \in NextLocks(t) : p = wanted[t] /\ p \in Nat /\ p \in Missing(t)
    <3> SUFFICES ASSUME NEW t \in W, NEW p \in NextLocks(t)
                 PROVE  p = wanted[t] /\ p \in Nat /\ p \in Missing(t)
      OBVIOUS
    <3>1. wanted[t] \in NextLocks(t)
      OBVIOUS
    <3>2. NextLocks(t) \subseteq Nat
      BY ParentRefreshAssumption DEF NextLocks, Missing, IInv, TypeOK
    <3>3. p <= wanted[t] /\ wanted[t] <= p
      BY <3>1 DEF NextLocks
    <3> HIDE DEF wanted
    <3> QED BY <3>1, <3>2, <3>3 DEF NextLocks
  <2>2. wanted \in [W -> Nat]
    <3>1. \A t \in W : wanted[t] \in Nat
      BY <2>1 DEF WaitsFor
    <3> QED BY <3>1
  <2>3. PICK t \in W : \A u \in W : wanted[u] <= wanted[t]
    BY <2>2, FiniteMaximum
  <2> HIDE DEF wanted
  <2>4. PICK u \in W : WaitsFor(t, u)
    OBVIOUS
  <2>5. holder[wanted[t]] = u /\ wanted[t] \in Parents
    BY <2>1, <2>4 DEF WaitsFor, Missing, IInv, TypeOK
  <2>6. pc[u] = "locking" /\ wanted[u] \in Missing(u)
    BY <2>1 DEF WaitsFor
  <2>7. wanted[t] < wanted[u]
    BY <2>5, <2>6 DEF Acquisition, Owned, Sorted
  <2> QED BY <2>2, <2>3, <2>7
<1> QED BY <1>1, IInvAlways, AcquisitionAlways, PTL
=============================================================================
