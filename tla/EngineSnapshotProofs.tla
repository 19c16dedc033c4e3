------------------------- MODULE EngineSnapshotProofs -------------------------
(***************************************************************************)
(* Proofs about EngineSnapshot, for any set of mutants, any number of      *)
(* seeds and restarts, with crashes, cancellations and failing saves.      *)
(* What a returned write guarantees (AckedOrdinalsSafe) depends on who     *)
(* holds the lock, on what the holder merged (Merging), on how far the     *)
(* mirror lags (MirrorWithinStore) and on every ordinal reserved by the    *)
(* current incarnation lying below its live counter (Ordinals).            *)
(***************************************************************************)
EXTENDS EngineSnapshot, TLAPS

\* The mutants of the current incarnation that may still be acknowledged.
Fresh == {m \in Mutants : task[m] \in {"generating", "adding", "writing"}}

\* The lock is held by the writer that saves, and by nobody else.
Locking ==
  /\ \A w \in Writers : writing[w] \in {"saving", "saved"} <=> lock = w
  /\ \A m \in Mutants : writing[m] # "no" <=> task[m] = "writing"

\* Which calls there are at which stage of run().
Phases ==
  /\ phase \in {"boot", "finalizing", "down"} => Fresh = {} /\ writing["ingestor"] = "no"
  /\ writing["run"] # "no" => phase \in {"boot", "finalizing"}

\* What the holder of the lock saves covers the mirror and its arguments.
Merging ==
  \A w \in Writers : writing[w] \in {"saving", "saved"} =>
    /\ pending.next >= mirror.next /\ pending.next >= want[w].next
    /\ pending.total >= mirror.total /\ pending.processed >= mirror.processed
    /\ pending.version = mirror.version + 1
    /\ writing[w] = "saved" => stored = pending

\* Where the ordinals lie.
Ordinals ==
  /\ \A m \in Mutants : task[m] = "writing" => ordinal[m] < want[m].next
  /\ \A m \in acked : ordinal[m] < mirror.next
  /\ phase # "down" => \A m \in Fresh \cup acked : ordinal[m] < live.next
  /\ \A m \in Fresh \cup acked : \A n \in Fresh \cup acked : n # m => ordinal[n] # ordinal[m]

\* The mutants that have an ordinal a stored program carries or may yet carry.
Charged == inStore \cup Fresh

\* The next ordinal this incarnation, or after a stop the following one, will
\* hand out.
NextOrdinal == IF phase = "down" THEN stored.next ELSE live.next

\* As long as every incarnation completed its final write: what is charged lies
\* between the seeds and the next ordinal, without repetition.  The finalizer
\* passes the live counter on to its write.
Orderly ==
  ~abrupt =>
    /\ NextOrdinal >= Seeds
    /\ \A m \in Charged : Seeds <= ordinal[m] /\ ordinal[m] < NextOrdinal
    /\ \A m, n \in Charged : n # m => ordinal[n] # ordinal[m]
    /\ phase = "finalizing" => writing["run"] # "no" /\ want["run"].next = live.next

\* A program is stored from its storage.add on, before it is acknowledged.
Records ==
  /\ acked \subseteq inStore
  /\ \A m \in Mutants : task[m] \in {"unborn", "generating"} => m \notin inStore
  /\ \A m \in Mutants : task[m] \in {"adding", "writing"} => m \in inStore

IInv ==
  TypeOK /\ Locking /\ Phases /\ Merging /\ MirrorWithinStore /\ Ordinals /\ Records

-----------------------------------------------------------------------------
(* Facts about single operators *)

\* The larger of two numbers is one of them and not below the other.
LEMMA NewerFacts ==
  ASSUME NEW a \in Nat, NEW b \in Nat
  PROVE  Newer(a, b) \in Nat /\ Newer(a, b) >= a /\ Newer(a, b) >= b
BY DEF Newer

\* The merged snapshot is a snapshot, covers the mirror and the arguments and
\* is one version later.
LEMMA MergedFacts ==
  ASSUME TypeOK, NEW c \in Counters
  PROVE  /\ Merged(c) \in Snapshots
         /\ Merged(c).next >= mirror.next /\ Merged(c).next >= c.next
         /\ Merged(c).total >= mirror.total /\ Merged(c).processed >= mirror.processed
         /\ Merged(c).version = mirror.version + 1
<1>1. /\ c.next \in Nat /\ c.total \in Nat /\ c.processed \in Nat
      /\ mirror.next \in Nat /\ mirror.total \in Nat /\ mirror.processed \in Nat
      /\ mirror.version \in Nat
  BY DEF TypeOK, Counters, Snapshots
<1>2. /\ Newer(c.next, mirror.next) \in Nat /\ Newer(c.next, mirror.next) >= mirror.next
      /\ Newer(c.next, mirror.next) >= c.next
      /\ Newer(c.total, mirror.total) \in Nat /\ Newer(c.total, mirror.total) >= mirror.total
      /\ Newer(c.processed, mirror.processed) \in Nat
      /\ Newer(c.processed, mirror.processed) >= mirror.processed
  BY <1>1, NewerFacts
<1> QED BY <1>1, <1>2 DEF Merged, Snapshots

\* The names of the writers that are no mutants.
LEMMA WriterNames ==
  /\ "ingestor" \in Writers /\ "run" \in Writers /\ Mutants \subseteq Writers
  /\ "nobody" \notin Writers /\ "ingestor" \notin Mutants /\ "run" \notin Mutants
BY EngineSnapshotAssumption DEF Writers

-----------------------------------------------------------------------------
(* The invariant is inductive *)

\* A first start satisfies the invariant.
LEMMA IInvInit == Init => IInv
<1> SUFFICES ASSUME Init PROVE IInv
  OBVIOUS
<1>1. TypeOK
  <2>1. live \in Counters /\ NoCounters \in Counters /\ NoSnapshot \in Snapshots
    BY EngineSnapshotAssumption DEF Init, NoCounters, NoSnapshot, Counters, Snapshots
  <2> QED BY <2>1, WriterNames DEF Init, TypeOK
<1>2. Locking /\ Phases /\ Merging /\ Ordinals /\ Records
  BY WriterNames DEF Init, Locking, Phases, Merging, Ordinals, Records, Fresh
<1>3. MirrorWithinStore
  BY DEF Init, MirrorWithinStore, NoSnapshot
<1> QED BY <1>1, <1>2, <1>3 DEF IInv

\* Taking the lock merges the arguments with the mirror.
LEMMA LockStep ==
  ASSUME IInv, NEW w \in Writers, LockSnapshot(w)
  PROVE  IInv'
<1> USE DEF IInv, progVars, endVars
<1>1. want[w] \in Counters
  BY DEF TypeOK
<1>2. pending' = Merged(want[w]) /\ pending' \in Snapshots
  BY <1>1, MergedFacts DEF LockSnapshot
<1>3. TypeOK'
  BY <1>2 DEF LockSnapshot, TypeOK
<1>4. Locking' /\ Phases'
  BY WriterNames DEF LockSnapshot, Locking, Phases, TypeOK, Fresh
<1>5. Merging'
  <2> SUFFICES ASSUME NEW v \in Writers, writing'[v] \in {"saving", "saved"}
               PROVE  /\ pending'.next >= mirror'.next /\ pending'.next >= want'[v].next
                      /\ pending'.total >= mirror'.total /\ pending'.processed >= mirror'.processed
                      /\ pending'.version = mirror'.version + 1
                      /\ writing'[v] = "saved" => stored' = pending'
    BY DEF Merging
  <2>1. v = w
    BY WriterNames DEF LockSnapshot, Locking, TypeOK
  <2> QED BY <1>1, <1>2, <2>1, MergedFacts DEF LockSnapshot, TypeOK
<1>6. MirrorWithinStore' /\ Ordinals' /\ Records'
  BY DEF LockSnapshot, MirrorWithinStore, Ordinals, Records, Fresh
<1> QED BY <1>3, <1>4, <1>5, <1>6

\* A save stores what covers the mirror.
LEMMA SaveStep ==
  ASSUME IInv, NEW w \in Writers, SaveSnapshot(w)
  PROVE  IInv'
<1> USE DEF IInv, progVars, endVars
<1>1. TypeOK' /\ Locking' /\ Phases' /\ Ordinals' /\ Records'
  BY WriterNames DEF SaveSnapshot, TypeOK, Locking, Phases, Ordinals, Records, Fresh
<1>2. Merging'
  BY DEF SaveSnapshot, TypeOK, Locking, Merging
<1>3. MirrorWithinStore'
  BY DEF SaveSnapshot, TypeOK, Snapshots, Merging, MirrorWithinStore
<1> QED BY <1>1, <1>2, <1>3

\* After the end of a call nobody holds the lock if the caller did.
LEMMA EndCallFacts ==
  ASSUME IInv, NEW w \in Writers, EndCall(w)
  PROVE  /\ lock' \in Writers \cup {"nobody"} /\ pending' \in Snapshots
         /\ writing' \in [Writers -> {"no", "queued", "saving", "saved"}]
         /\ want' \in [Writers -> Counters]
         /\ writing'[w] = "no"
         /\ \A v \in Writers : writing'[v] \in {"saving", "saved"} <=> lock' = v
         /\ \A v \in Writers \ {w} : writing'[v] = writing[v] /\ want'[v] = want[v]
         /\ \A v \in Writers : writing'[v] \in {"saving", "saved"} => pending' = pending
<1>1. NoSnapshot \in Snapshots /\ NoCounters \in Counters
  BY DEF NoSnapshot, Snapshots, NoCounters, Counters
<1> QED BY <1>1, WriterNames DEF IInv, TypeOK, Locking, EndCall

\* An end of a call that leaves mirror, store and live counters alone keeps
\* Merging.
LEMMA EndCallMerging ==
  ASSUME IInv, NEW w \in Writers, EndCall(w), mirror' = mirror, stored' = stored
  PROVE  Merging'
BY EndCallFacts DEF IInv, Merging

\* A mutant that is over is not Fresh any more; nobody else changes.
LEMMA TaskEndFacts ==
  ASSUME TypeOK, NEW m \in Mutants, NEW s \in {"written", "unwritten"},
         task' = [task EXCEPT ![m] = s]
  PROVE  Fresh' = Fresh \ {m} /\ task'[m] = s /\ \A n \in Mutants \ {m} : task'[n] = task[n]
BY DEF TypeOK, Fresh

\* The mirror catches up with the store; a mutant's ordinal is acknowledged.
LEMMA WrittenStep ==
  ASSUME IInv, NEW w \in Writers, SnapshotWritten(w)
  PROVE  IInv'
<1> USE DEF IInv
<1>1. writing[w] = "saved" /\ stored = pending /\ mirror' = pending /\ stored' = stored
      /\ pending \in Snapshots /\ EndCall(w)
  BY DEF SnapshotWritten, Merging, TypeOK
<1>2. Merging'
  <2>1. \A v \in Writers : writing'[v] \notin {"saving", "saved"}
    BY <1>1, EndCallFacts DEF Locking, TypeOK
  <2> QED BY <2>1 DEF Merging
<1>3. MirrorWithinStore'
  BY <1>1 DEF MirrorWithinStore, Snapshots
<1>4. mirror'.next >= mirror.next /\ mirror'.next >= want[w].next
  BY <1>1 DEF Merging
<1>5. /\ mirror.next \in Nat /\ mirror'.next \in Nat /\ \A v \in Writers : want[v].next \in Nat
      /\ \A m \in Mutants : ordinal[m] \in Nat
  BY <1>1 DEF TypeOK, Snapshots, Counters
<1>6. CASE w \in Mutants
  <2>0. task' = [task EXCEPT ![w] = "written"] /\ acked' = acked \cup {w}
        /\ UNCHANGED <<phase, abrupt, live, stored, ordinal, inStore, ingested, resumes>>
    BY <1>6, WriterNames DEF SnapshotWritten
  <2>1. TypeOK'
    BY <1>1, <1>6, <2>0, EndCallFacts DEF TypeOK
  <2>2. Fresh' = Fresh \ {w} /\ task[w] = "writing" /\ w \in Fresh
    BY <1>1, <1>6, <2>0, TaskEndFacts DEF Locking, Fresh
  <2>7. /\ task'[w] = "written" /\ \A n \in Mutants \ {w} : task'[n] = task[n]
        /\ writing'[w] = "no"
        /\ \A n \in Mutants \ {w} : writing'[n] = writing[n] /\ want'[n] = want[n]
        /\ \A v \in Writers : writing'[v] \in {"saving", "saved"} <=> lock' = v
    BY <1>1, <1>6, <2>0, EndCallFacts, TaskEndFacts, WriterNames
  <2>3. Locking'
    BY <2>7 DEF Locking
  <2>4. Phases'
    <3>1. writing'["ingestor"] = writing["ingestor"] /\ writing'["run"] = writing["run"]
      BY <1>1, <1>6, EndCallFacts, WriterNames
    <3> QED BY <2>0, <2>2, <3>1 DEF Phases
  <2>6. Records'
    BY <1>6, <2>0, <2>2, TaskEndFacts DEF Records
  <2>5. Ordinals'
    <3>1. \A m \in Mutants : task'[m] = "writing" => ordinal'[m] < want'[m].next
      BY <2>0, <2>7 DEF Ordinals
    <3>2. \A m \in acked' : ordinal'[m] < mirror'.next
      BY <1>4, <1>5, <1>6, <2>0, <2>2 DEF Ordinals, TypeOK
    <3>3. Fresh' \cup acked' \subseteq Fresh \cup acked
      BY <2>0, <2>2
    <3> QED BY <2>0, <3>1, <3>2, <3>3 DEF Ordinals
  <2> QED BY <1>2, <1>3, <2>1, <2>3, <2>4, <2>5, <2>6
<1>7. CASE w \notin Mutants
  <2>0. /\ UNCHANGED <<task, acked, live, stored, ordinal, inStore, ingested, resumes>>
        /\ \/ w = "ingestor" /\ UNCHANGED <<phase, abrupt>>
           \/ w = "run" /\ RunWriteEnds(TRUE)
    BY <1>7 DEF SnapshotWritten
  <2>1. w = "run" => phase \in {"boot", "finalizing"} /\ phase' \in {"running", "down"}
    BY <1>1, <2>0 DEF RunWriteEnds, Phases
  <2>2. phase' \in {"boot", "running", "stopping", "finalizing", "down"} /\ abrupt' \in BOOLEAN
    BY <2>0 DEF RunWriteEnds, TypeOK
  <2>3. TypeOK'
    BY <1>1, <2>0, <2>2, EndCallFacts DEF TypeOK
  <2>4. Locking'
    BY <1>1, <1>7, <2>0, EndCallFacts, WriterNames DEF Locking
  <2>5. Fresh' = Fresh
    BY <2>0 DEF Fresh
  <2>6. Phases'
    BY <1>1, <2>0, <2>1, <2>5, EndCallFacts, WriterNames DEF Phases
  <2>7. Ordinals'
    <3>1. \A m \in Mutants : task'[m] = "writing" => ordinal'[m] < want'[m].next
      BY <1>1, <1>7, <2>0, EndCallFacts, WriterNames DEF Ordinals
    <3>2. \A m \in acked' : ordinal'[m] < mirror'.next
      BY <1>4, <1>5, <2>0 DEF Ordinals, TypeOK
    <3>3. phase' # "down" => phase # "down"
      BY <2>0, <2>1
    <3> QED BY <2>0, <2>5, <3>1, <3>2, <3>3 DEF Ordinals
  <2>8. Records'
    BY <2>0 DEF Records
  <2> QED BY <1>2, <1>3, <2>3, <2>4, <2>6, <2>7, <2>8
<1> QED BY <1>6, <1>7

\* A call that fails or is cancelled ends; a mutant gets no acknowledgement.
LEMMA FailedCallStep ==
  ASSUME IInv, NEW w \in Writers, EndCall(w), writing[w] # "no",
         UNCHANGED <<live, mirror, stored, ordinal, inStore, ingested, acked, resumes>>,
         abrupt' \in BOOLEAN,
         task' = IF w \in Mutants THEN [task EXCEPT ![w] = "unwritten"] ELSE task,
         IF w = "run" THEN phase' = "down"
                      ELSE phase' = phase \/ (w = "ingestor" /\ phase' = "stopping")
  PROVE  IInv'
<1> USE DEF IInv
<1>1. Merging'
  BY EndCallMerging
<1>2. MirrorWithinStore'
  BY DEF MirrorWithinStore
<1>3. Fresh' = Fresh \ {w} /\ \A n \in Mutants \ {w} : task'[n] = task[n]
  BY TaskEndFacts, WriterNames DEF Fresh
<1>4. TypeOK'
  BY EndCallFacts DEF TypeOK
<1>5. Locking'
  BY EndCallFacts, WriterNames, <1>3 DEF Locking, TypeOK
<1>6. w = "run" => phase \in {"boot", "finalizing"}
  BY DEF Phases
<1>7. w = "ingestor" => phase \notin {"boot", "finalizing", "down"}
  BY DEF Phases
<1>8. Phases'
  BY <1>3, <1>6, <1>7, EndCallFacts, WriterNames DEF Phases
<1>9. Ordinals'
  <2>1. \A m \in Mutants : task'[m] = "writing" => m # w /\ task[m] = "writing"
    BY <1>3, WriterNames DEF TypeOK
  <2>2. \A m \in Mutants : task'[m] = "writing" => ordinal'[m] < want'[m].next
    BY <2>1, EndCallFacts, WriterNames DEF Ordinals
  <2>3. phase' # "down" => phase # "down"
    BY <1>7, WriterNames
  <2> QED BY <1>3, <2>2, <2>3 DEF Ordinals
<1>10. Records'
  <2>1. \A m \in Mutants : task'[m] = task[m] \/ task'[m] = "unwritten"
    BY <1>3, TaskEndFacts
  <2> QED BY <2>1 DEF Records
<1> QED BY <1>1, <1>2, <1>4, <1>5, <1>8, <1>9, <1>10

\* Both ways a call fails are such ends.
LEMMA FailStep ==
  ASSUME IInv, NEW w \in Writers, WriteFails(w) \/ WriteCancelled(w)
  PROVE  IInv'
<1>1. CASE WriteFails(w)
  <2>1. EndCall(w) /\ writing[w] # "no"
        /\ UNCHANGED <<live, mirror, stored, ordinal, inStore, ingested, acked, resumes>>
    BY <1>1 DEF WriteFails, MirrorOnError
  <2>2. task' = IF w \in Mutants THEN [task EXCEPT ![w] = "unwritten"] ELSE task
    BY <1>1, WriterNames DEF WriteFails
  <2>3. abrupt' \in BOOLEAN
    BY <1>1 DEF WriteFails, RunWriteEnds, IInv, TypeOK
  <2>4. IF w = "run" THEN phase' = "down"
                     ELSE phase' = phase \/ (w = "ingestor" /\ phase' = "stopping")
    BY <1>1, WriterNames DEF WriteFails, RunWriteEnds
  <2> QED BY <2>1, <2>2, <2>3, <2>4, FailedCallStep
<1>2. CASE WriteCancelled(w)
  <2>1. EndCall(w) /\ writing[w] # "no" /\ w # "run"
        /\ UNCHANGED <<live, mirror, stored, ordinal, inStore, ingested, acked, resumes, phase>>
    BY <1>2, WriterNames DEF WriteCancelled, endVars
  <2>2. task' = IF w \in Mutants THEN [task EXCEPT ![w] = "unwritten"] ELSE task
    BY <1>2, WriterNames DEF WriteCancelled
  <2>3. abrupt' \in BOOLEAN
    BY <1>2 DEF WriteCancelled, endVars, IInv, TypeOK
  <2> QED BY <2>1, <2>2, <2>3, FailedCallStep
<1> QED BY <1>1, <1>2

\* A new call waits for the lock, so it disturbs no holder.
LEMMA CallFacts ==
  ASSUME IInv, NEW w \in Writers, NEW c \in Counters, writing[w] = "no", Call(w, c)
  PROVE  /\ writing' \in [Writers -> {"no", "queued", "saving", "saved"}]
         /\ want' \in [Writers -> Counters] /\ UNCHANGED <<lock, pending>>
         /\ writing'[w] = "queued" /\ want'[w] = c
         /\ \A v \in Writers \ {w} : writing'[v] = writing[v] /\ want'[v] = want[v]
         /\ \A v \in Writers : writing'[v] \in {"saving", "saved"} <=> lock' = v
BY DEF IInv, TypeOK, Locking, Call

\* An ordinal is reserved: it is above all that are in use.
LEMMA ReserveStep ==
  ASSUME IInv, NEW m \in Mutants, Reserve(m)
  PROVE  IInv'
<1> USE DEF IInv
<1>1. /\ task' = [task EXCEPT ![m] = "generating"] /\ task[m] = "unborn"
      /\ ordinal' = [ordinal EXCEPT ![m] = live.next]
      /\ live' = [live EXCEPT !.next = @ + 1] /\ phase = "running"
      /\ UNCHANGED <<phase, mirror, stored, lock, writing, want, pending,
                     inStore, ingested, acked, resumes, abrupt>>
  BY DEF Reserve, writeVars, endVars
<1>2. live.next \in Nat /\ live'.next = live.next + 1 /\ live' \in Counters
  BY <1>1 DEF TypeOK, Counters
<1>3. TypeOK'
  BY <1>1, <1>2 DEF TypeOK
<1>4. Fresh' = Fresh \cup {m} /\ m \notin Fresh /\ m \notin acked
  BY <1>1 DEF Fresh, TypeOK, Records
<1>5. /\ \A n \in Mutants \ {m} : task'[n] = task[n] /\ ordinal'[n] = ordinal[n]
      /\ task'[m] = "generating" /\ ordinal'[m] = live.next
  BY <1>1 DEF TypeOK
<1>6. Locking'
  BY <1>1, <1>5 DEF Locking
<1>7. Phases' /\ Merging' /\ MirrorWithinStore'
  BY <1>1 DEF Phases, Merging, MirrorWithinStore
<1>8. Ordinals'
  <2>1. \A n \in Fresh \cup acked : n # m /\ n \in Mutants /\ ordinal[n] \in Nat /\ ordinal[n] < live.next
    BY <1>1, <1>4 DEF Ordinals, Fresh, TypeOK
  <2>2. \A n \in Fresh' \cup acked' : n = m \/ n \in Fresh \cup acked
    BY <1>1, <1>4
  <2>3. \A n \in Mutants : task'[n] = "writing" => ordinal'[n] < want'[n].next
    BY <1>1, <1>5 DEF Ordinals
  <2>4. \A n \in acked' : ordinal'[n] < mirror'.next
    BY <1>1, <1>5, <2>1 DEF Ordinals
  <2>5. \A n \in Fresh' \cup acked' : ordinal'[n] < live'.next
    BY <1>2, <1>5, <2>1, <2>2
  <2>6. \A n, k \in Fresh' \cup acked' : k # n => ordinal'[k] # ordinal'[n]
    BY <1>2, <1>5, <2>1, <2>2 DEF Ordinals
  <2> QED BY <2>3, <2>4, <2>5, <2>6 DEF Ordinals
<1>9. Records'
  BY <1>1, <1>5 DEF Records
<1> QED BY <1>3, <1>6, <1>7, <1>8, <1>9

\* The steps of a mutant before its write: the program is stored, or the
\* task ends.
LEMMA TaskStep ==
  ASSUME IInv, NEW m \in Mutants, Persist(m) \/ GiveUp(m)
  PROVE  IInv'
<1> USE DEF IInv
<1>1. /\ task[m] \in {"generating", "adding"} /\ m \in Fresh /\ phase \in {"running", "stopping"}
      /\ UNCHANGED <<phase, live, mirror, stored, lock, writing, want, pending,
                     ordinal, ingested, acked, resumes, abrupt>>
  BY DEF Persist, GiveUp, writeVars, endVars, Fresh
<1>2. \/ task' = [task EXCEPT ![m] = "adding"] /\ inStore' = inStore \cup {m}
      \/ task' = [task EXCEPT ![m] = "gone"] /\ inStore' = inStore
  BY DEF Persist, GiveUp
<1>3. /\ task'[m] \in {"adding", "gone"} /\ \A n \in Mutants \ {m} : task'[n] = task[n]
      /\ Fresh' \subseteq Fresh
  BY <1>1, <1>2 DEF TypeOK, Fresh
<1>4. TypeOK'
  BY <1>1, <1>2 DEF TypeOK
<1>5. Locking'
  BY <1>1, <1>3 DEF Locking
<1>6. Phases' /\ Merging' /\ MirrorWithinStore'
  BY <1>1 DEF Phases, Merging, MirrorWithinStore
<1>7. Ordinals'
  BY <1>1, <1>3 DEF Ordinals
<1>8. Records'
  BY <1>1, <1>2, <1>3 DEF Records, TypeOK
<1> QED BY <1>4, <1>5, <1>6, <1>7, <1>8

\* The call of a mutant passes the live counter, which is past its ordinal.
LEMMA CountStep ==
  ASSUME IInv, NEW m \in Mutants, CountMutant(m)
  PROVE  IInv'
<1> USE DEF IInv
<1> DEFINE c == [next |-> live.next, total |-> live'.total, processed |-> 0]
<1>1. /\ task[m] = "adding" /\ task' = [task EXCEPT ![m] = "writing"]
      /\ phase \in {"running", "stopping"} /\ live' = [live EXCEPT !.total = @ + 1]
      /\ Call(m, c)
      /\ UNCHANGED <<phase, mirror, stored, ordinal, inStore, ingested, acked, resumes, abrupt>>
  BY DEF CountMutant, endVars
<1>2. live' \in Counters /\ live'.next = live.next /\ c \in Counters
  BY <1>1 DEF TypeOK, Counters
<1>3. m \in Writers /\ m # "ingestor" /\ m # "run" /\ writing[m] = "no"
  BY <1>1, WriterNames DEF Locking
<1>4. /\ writing' \in [Writers -> {"no", "queued", "saving", "saved"}]
      /\ want' \in [Writers -> Counters] /\ UNCHANGED <<lock, pending>>
      /\ writing'[m] = "queued" /\ want'[m] = c
      /\ \A v \in Writers \ {m} : writing'[v] = writing[v] /\ want'[v] = want[v]
      /\ \A v \in Writers : writing'[v] \in {"saving", "saved"} <=> lock' = v
  BY <1>1, <1>2, <1>3, CallFacts
<1>5. /\ Fresh' = Fresh /\ m \in Fresh /\ task'[m] = "writing"
      /\ \A n \in Mutants \ {m} : task'[n] = task[n]
  BY <1>1 DEF Fresh, TypeOK
<1>6. TypeOK'
  BY <1>1, <1>2, <1>4 DEF TypeOK
<1>7. Locking'
  <2>1. \A n \in Mutants \ {m} : writing'[n] = writing[n] /\ task'[n] = task[n]
    BY <1>4, <1>5, WriterNames
  <2>2. writing'[m] # "no" /\ task'[m] = "writing"
    BY <1>4, <1>5
  <2>3. \A n \in Mutants : writing'[n] # "no" <=> task'[n] = "writing"
    BY <2>1, <2>2 DEF Locking
  <2> QED BY <1>4, <2>3 DEF Locking
<1>8. Phases'
  <2>1. writing'["ingestor"] = writing["ingestor"] /\ writing'["run"] = writing["run"]
    BY <1>3, <1>4, WriterNames
  <2> QED BY <1>1, <2>1 DEF Phases
<1>9. Merging' /\ MirrorWithinStore'
  BY <1>1, <1>4 DEF Merging, MirrorWithinStore
<1>10. Ordinals'
  <2>1. \A n \in Mutants : task'[n] = "writing" => ordinal'[n] < want'[n].next
    BY <1>1, <1>4, <1>5, WriterNames DEF Ordinals
  <2> QED BY <1>1, <1>2, <1>5, <2>1 DEF Ordinals
<1>11. Records'
  BY <1>1, <1>5 DEF Records
<1> QED BY <1>6, <1>7, <1>8, <1>9, <1>10, <1>11

\* The calls of the ingestor, of the finalizer and of a new incarnation, and
\* what else leaves the mutants alone.
LEMMA IngestStep ==
  ASSUME IInv, NEW m \in Mutants, Ingest(m)
  PROVE  IInv'
<1> USE DEF IInv
<1> DEFINE c == [next |-> 0, total |-> 0, processed |-> live'.processed]
<1>1. /\ phase \in {"running", "stopping"} /\ writing["ingestor"] = "no"
      /\ ingested' = ingested \cup {m} /\ live' = [live EXCEPT !.processed = @ + 1]
      /\ Call("ingestor", c)
      /\ UNCHANGED <<phase, mirror, stored, task, ordinal, inStore, acked, resumes, abrupt>>
  BY DEF Ingest, endVars
<1>2. live' \in Counters /\ live'.next = live.next /\ c \in Counters
  BY <1>1 DEF TypeOK, Counters
<1>3. /\ writing' \in [Writers -> {"no", "queued", "saving", "saved"}]
      /\ want' \in [Writers -> Counters] /\ UNCHANGED <<lock, pending>>
      /\ writing'["ingestor"] = "queued"
      /\ \A v \in Writers \ {"ingestor"} : writing'[v] = writing[v] /\ want'[v] = want[v]
      /\ \A v \in Writers : writing'[v] \in {"saving", "saved"} <=> lock' = v
  BY <1>1, <1>2, WriterNames, CallFacts
<1>4. TypeOK'
  BY <1>1, <1>2, <1>3 DEF TypeOK
<1>5. /\ \A n \in Mutants : writing'[n] = writing[n] /\ want'[n] = want[n]
      /\ writing'["run"] = writing["run"]
  BY <1>3, WriterNames
<1>6. Locking' /\ Phases'
  BY <1>1, <1>3, <1>5 DEF Locking, Phases, Fresh
<1>7. Merging' /\ MirrorWithinStore'
  BY <1>1, <1>3 DEF Merging, MirrorWithinStore
<1>8. Ordinals' /\ Records'
  BY <1>1, <1>2, <1>5 DEF Ordinals, Records, Fresh
<1> QED BY <1>4, <1>6, <1>7, <1>8

\* The end of the loops and the final write.
LEMMA StopStep ==
  ASSUME IInv, BeginStop \/ Finalize
  PROVE  IInv'
<1> USE DEF IInv
<1>1. CASE BeginStop
  <2>1. phase = "running" /\ phase' = "stopping"
        /\ UNCHANGED <<live, mirror, stored, lock, writing, want, pending, task, ordinal,
                       inStore, ingested, acked, resumes, abrupt>>
    BY <1>1 DEF BeginStop, writeVars, progVars, endVars
  <2> QED BY <2>1 DEF TypeOK, Locking, Phases, Merging, MirrorWithinStore, Ordinals, Records, Fresh
<1>2. CASE Finalize
  <2>1. /\ phase = "stopping" /\ phase' = "finalizing" /\ TasksOver /\ writing["ingestor"] = "no"
        /\ Call("run", live)
        /\ UNCHANGED <<live, mirror, stored, task, ordinal, inStore, ingested, acked,
                       resumes, abrupt>>
    BY <1>2 DEF Finalize, FinalCounters, progVars, endVars
  <2>2. writing["run"] = "no" /\ live \in Counters
    BY <2>1, WriterNames DEF Phases, TypeOK
  <2>3. /\ writing' \in [Writers -> {"no", "queued", "saving", "saved"}]
        /\ want' \in [Writers -> Counters] /\ UNCHANGED <<lock, pending>>
        /\ writing'["run"] = "queued"
        /\ \A v \in Writers \ {"run"} : writing'[v] = writing[v] /\ want'[v] = want[v]
        /\ \A v \in Writers : writing'[v] \in {"saving", "saved"} <=> lock' = v
    BY <2>1, <2>2, WriterNames, CallFacts
  <2>4. TypeOK'
    BY <2>1, <2>3 DEF TypeOK
  <2>5. Fresh = {} /\ Fresh' = {}
    BY <2>1 DEF Fresh, TasksOver
  <2>6. /\ \A n \in Mutants : writing'[n] = writing[n] /\ want'[n] = want[n]
        /\ writing'["ingestor"] = "no"
    BY <2>1, <2>3, WriterNames
  <2>7. Locking' /\ Phases'
    BY <2>1, <2>3, <2>5, <2>6 DEF Locking, Phases
  <2>8. Merging' /\ MirrorWithinStore'
    BY <2>1, <2>3 DEF Merging, MirrorWithinStore
  <2>9. Ordinals' /\ Records'
    BY <2>1, <2>5, <2>6 DEF Ordinals, Records
  <2> QED BY <2>4, <2>7, <2>8, <2>9
<1> QED BY <1>1, <1>2

\* A crash ends every call and every task.
LEMMA CrashStep ==
  ASSUME IInv, Crash
  PROVE  IInv'
<1> USE DEF IInv
<1>1. NoSnapshot \in Snapshots /\ NoCounters \in Counters
  BY DEF NoSnapshot, Snapshots, NoCounters, Counters
<1>2. /\ phase' = "down" /\ abrupt' = TRUE /\ lock' = "nobody"
      /\ writing' = [w \in Writers |-> "no"] /\ want' = [w \in Writers |-> NoCounters]
      /\ pending' = NoSnapshot
      /\ UNCHANGED <<live, mirror, stored, ordinal, inStore, ingested, acked, resumes>>
  BY DEF Crash
<1>3. task' = [m \in Mutants |-> IF task[m] \in {"generating", "adding"} THEN "gone"
                                 ELSE IF task[m] = "writing" THEN "unwritten" ELSE task[m]]
  BY DEF Crash
<1>4. TypeOK'
  BY <1>1, <1>2, <1>3 DEF TypeOK
<1>5. \A m \in Mutants : task'[m] \notin {"generating", "adding", "writing"}
                         /\ (task'[m] = "unborn" => task[m] = "unborn")
  BY <1>3 DEF TypeOK
<1>6. Fresh' = {}
  BY <1>5 DEF Fresh
<1>7. Locking' /\ Phases' /\ Merging' /\ MirrorWithinStore'
  BY <1>2, <1>5, <1>6, WriterNames DEF Locking, Phases, Merging, MirrorWithinStore
<1>8. Ordinals' /\ Records'
  BY <1>2, <1>5, <1>6 DEF Ordinals, Records
<1> QED BY <1>4, <1>7, <1>8

\* A new incarnation starts from the stored counters, which are past every
\* acknowledged ordinal.
LEMMA ResumeStep ==
  ASSUME IInv, Resume
  PROVE  IInv'
<1> USE DEF IInv
<1>1. /\ phase = "down" /\ phase' = "boot" /\ resumes' = resumes + 1
      /\ live' = [next |-> stored.next, total |-> stored.total, processed |-> stored.processed]
      /\ mirror' = stored /\ Call("run", live')
      /\ task' = [m \in Mutants |-> IF m \in inStore THEN "stranded" ELSE task[m]]
      /\ UNCHANGED <<stored, ordinal, inStore, ingested, acked, abrupt>>
  BY DEF Resume, Restored
<1>2. live' \in Counters /\ live'.next = stored.next /\ stored.next \in Nat /\ mirror.next \in Nat
  BY <1>1 DEF TypeOK, Counters, Snapshots
<1>3. Fresh = {} /\ writing["run"] = "no" /\ writing["ingestor"] = "no"
  BY <1>1, WriterNames DEF Phases
<1>4. \A w \in Writers : writing[w] = "no"
  BY <1>3 DEF Locking, Fresh, Writers
<1>5. /\ writing' \in [Writers -> {"no", "queued", "saving", "saved"}]
      /\ want' \in [Writers -> Counters] /\ UNCHANGED <<lock, pending>>
      /\ writing'["run"] = "queued"
      /\ \A v \in Writers \ {"run"} : writing'[v] = "no"
      /\ \A v \in Writers : writing'[v] \in {"saving", "saved"} <=> lock' = v
  BY <1>1, <1>2, <1>3, <1>4, WriterNames, CallFacts
<1>6. TypeOK'
  BY <1>1, <1>2, <1>5 DEF TypeOK
<1>7. \A m \in Mutants : /\ task'[m] \notin {"generating", "adding", "writing"}
                         /\ task'[m] = "unborn" => m \notin inStore
  BY <1>1, <1>3 DEF Fresh
<1>8. Fresh' = {}
  BY <1>7 DEF Fresh
<1>9. Locking' /\ Phases'
  BY <1>1, <1>5, <1>7, <1>8, WriterNames DEF Locking, Phases
<1>10. Merging'
  BY <1>5, WriterNames DEF Merging
<1>11. MirrorWithinStore'
  BY <1>1 DEF MirrorWithinStore, TypeOK, Snapshots
<1>12. Ordinals'
  <2>1. \A m \in acked : ordinal[m] \in Nat /\ ordinal[m] < stored.next
    BY <1>2 DEF Ordinals, MirrorWithinStore, TypeOK
  <2> QED BY <1>1, <1>2, <1>7, <1>8, <2>1 DEF Ordinals
<1>13. Records'
  BY <1>1, <1>7 DEF Records
<1> QED BY <1>6, <1>9, <1>10, <1>11, <1>12, <1>13

\* Every step keeps the invariant.
LEMMA IInvStep == IInv /\ [Next]_vars => IInv'
<1> SUFFICES ASSUME IInv, [Next]_vars PROVE IInv'
  OBVIOUS
<1>1. ASSUME NEW m \in Mutants, MutantNext(m) PROVE IInv'
  BY <1>1, ReserveStep, TaskStep, CountStep, IngestStep DEF MutantNext
<1>2. ASSUME NEW w \in Writers, WriterNext(w) PROVE IInv'
  BY <1>2, LockStep, SaveStep, WrittenStep, FailStep DEF WriterNext
<1>3. CASE UNCHANGED vars
  BY <1>3 DEF vars, writeVars, progVars, endVars, IInv, TypeOK, Locking, Phases, Merging,
              MirrorWithinStore, Ordinals, Records, Fresh
<1> QED BY <1>1, <1>2, <1>3, StopStep, CrashStep, ResumeStep DEF Next

\* The invariant holds in every behaviour.
LEMMA IInvAlways == Spec => []IInv
BY IInvInit, IInvStep, PTL DEF Spec

-----------------------------------------------------------------------------
(* What the snapshot promises *)

\* The variables keep their types.
THEOREM TypeCorrect == Spec => []TypeOK
<1>1. IInv => TypeOK
  BY DEF IInv
<1> QED BY <1>1, IInvAlways, PTL

\* "The mirror is thus always <= Redis" (_write_snapshot), whatever fails or
\* is cancelled or killed.
THEOREM MirrorLags == Spec => []MirrorWithinStore
<1>1. IInv => MirrorWithinStore
  BY DEF IInv
<1> QED BY <1>1, IInvAlways, PTL

\* The ordinal of a mutant whose snapshot write returned is its own and is
\* never handed out again (_write_snapshot, restore_state).
THEOREM AcknowledgedOrdinalsAreSafe == Spec => []AckedOrdinalsSafe
<1>1. IInv => AckedOrdinalsSafe
  <2> SUFFICES ASSUME IInv PROVE AckedOrdinalsSafe
    OBVIOUS
  <2>1. \A m \in acked : ordinal[m] \in Nat
    BY DEF IInv, TypeOK
  <2>2. mirror.next \in Nat /\ stored.next \in Nat
    BY DEF IInv, TypeOK, Snapshots
  <2> QED BY <2>1, <2>2 DEF IInv, Ordinals, MirrorWithinStore, AckedOrdinalsSafe
<1> QED BY <1>1, IInvAlways, PTL

-----------------------------------------------------------------------------
(* Ordinals across orderly restarts *)

\* A step that charges nobody, keeps the next ordinal and leaves the finalizer
\* alone keeps the order.
LEMMA OrderlyFrame ==
  ASSUME Orderly, Charged' \subseteq Charged, ordinal' = ordinal, abrupt' = abrupt,
         NextOrdinal' = NextOrdinal,
         phase' = "finalizing" => /\ phase = "finalizing" /\ live' = live
                                  /\ writing'["run"] # "no" /\ want'["run"] = want["run"]
  PROVE  Orderly'
BY DEF Orderly

\* The end of a call of the lock holder or of a waiting writer: a mutant and the
\* ingestor leave the ordinals alone, and run() stops only once its final write
\* holds the live counter, or in disorder.
LEMMA WriterOrderly ==
  ASSUME IInv, IInv', Orderly, NEW w \in Writers, WriterNext(w)
  PROVE  Orderly'
<1> USE DEF Charged, NextOrdinal
<1>1. CASE LockSnapshot(w) \/ SaveSnapshot(w)
  <2>1. /\ UNCHANGED <<want, phase, live, task, ordinal, inStore, abrupt>>
        /\ writing'["run"] = "no" => writing["run"] = "no"
        /\ phase = "down" => stored' = stored
    <3>1. writing["run"] = "no" \/ writing'["run"] # "no"
      BY <1>1, WriterNames DEF LockSnapshot, SaveSnapshot, IInv, TypeOK
    <3>2. phase = "down" => \A v \in Writers : writing[v] = "no"
      BY WriterNames DEF IInv, Phases, Locking, Fresh, Writers
    <3> QED BY <1>1, <3>1, <3>2 DEF LockSnapshot, SaveSnapshot, progVars, endVars
  <2>2. Fresh' = Fresh
    BY <2>1 DEF Fresh
  <2> QED BY <2>1, <2>2, OrderlyFrame DEF Orderly
<1>2. CASE w # "run" /\ (SnapshotWritten(w) \/ WriteFails(w) \/ WriteCancelled(w))
  <2>1. /\ EndCall(w) /\ UNCHANGED <<live, stored, ordinal, inStore, abrupt>>
        /\ phase' = phase \/ (phase' = "stopping" /\ w = "ingestor")
        /\ \/ task' = task
           \/ w \in Mutants /\ \E s \in {"written", "unwritten"} : task' = [task EXCEPT ![w] = s]
    BY <1>2, WriterNames DEF SnapshotWritten, WriteFails, WriteCancelled, endVars
  <2>2. Fresh' \subseteq Fresh
    BY <2>1, TaskEndFacts DEF Fresh, IInv
  <2>3. writing'["run"] = writing["run"] /\ want'["run"] = want["run"]
    BY <1>2, <2>1, EndCallFacts, WriterNames
  <2>4. phase # "down" \/ phase' = phase
    <3>1. writing[w] # "no"
      BY <1>2 DEF SnapshotWritten, WriteFails, WriteCancelled
    <3> QED BY <2>1, <3>1 DEF IInv, Phases
  <2>5. NextOrdinal' = NextOrdinal
    BY <2>1, <2>4
  <2>6. phase' = "finalizing" => phase = "finalizing"
    BY <2>1
  <2> QED BY <2>1, <2>2, <2>3, <2>5, <2>6, OrderlyFrame DEF Orderly
<1>3. CASE w = "run" /\ SnapshotWritten(w)
  <2>1. /\ UNCHANGED <<live, stored, ordinal, inStore, task>> /\ RunWriteEnds(TRUE)
        /\ writing["run"] = "saved"
    BY <1>3, WriterNames DEF SnapshotWritten
  <2>2. Fresh' = Fresh
    BY <2>1 DEF Fresh
  <2>3. phase \in {"boot", "finalizing"}
    BY <2>1 DEF IInv, Phases
  <2>4. CASE phase = "boot"
    <3>1. phase' = "running" /\ abrupt' = abrupt
      BY <2>1, <2>4 DEF RunWriteEnds, IInv, TypeOK
    <3> QED BY <2>1, <2>2, <2>4, <3>1, OrderlyFrame
  <2>5. CASE phase = "finalizing"
    <3>1. phase' = "down" /\ abrupt' = abrupt
      BY <2>1, <2>5 DEF RunWriteEnds, IInv, TypeOK
    <3>2. ~abrupt => stored.next >= live.next
      BY <2>1, <2>5, WriterNames DEF Orderly, IInv, Merging
    <3>3. live.next \in Nat /\ stored.next \in Nat /\ \A m \in Charged : ordinal[m] \in Nat
      BY DEF IInv, TypeOK, Counters, Snapshots, Fresh
    <3> QED BY <2>1, <2>2, <2>5, <3>1, <3>2, <3>3, EngineSnapshotAssumption DEF Orderly
  <2> QED BY <2>3, <2>4, <2>5
<1>4. CASE w = "run" /\ WriteFails(w)
  <2>1. abrupt'
    BY <1>4, WriterNames DEF WriteFails, RunWriteEnds
  <2> QED BY <2>1 DEF Orderly
<1>5. CASE w = "run" /\ WriteCancelled(w)
  BY <1>5, WriterNames DEF WriteCancelled
<1> QED BY <1>1, <1>2, <1>3, <1>4, <1>5 DEF WriterNext

\* An ordinal is reserved at the live counter, which moves past it; the other
\* steps of a mutant charge nobody else.
LEMMA MutantOrderly ==
  ASSUME IInv, IInv', Orderly, NEW m \in Mutants, MutantNext(m)
  PROVE  Orderly'
<1> USE DEF Charged, NextOrdinal
<1>1. /\ UNCHANGED <<phase, stored, abrupt>> /\ phase \in {"running", "stopping"}
  BY DEF MutantNext, Reserve, Persist, CountMutant, GiveUp, Ingest, endVars
<1>2. CASE Reserve(m)
  <2>1. /\ task' = [task EXCEPT ![m] = "generating"] /\ task[m] = "unborn"
        /\ ordinal' = [ordinal EXCEPT ![m] = live.next]
        /\ live' = [live EXCEPT !.next = @ + 1] /\ inStore' = inStore
    BY <1>2 DEF Reserve
  <2>2. live.next \in Nat /\ live'.next = live.next + 1 /\ \A n \in Mutants : ordinal[n] \in Nat
    BY <2>1 DEF IInv, TypeOK, Counters
  <2>3. Charged' = Charged \cup {m} /\ m \notin Charged
    BY <2>1 DEF Fresh, IInv, TypeOK, Records
  <2>4. ordinal'[m] = live.next /\ \A n \in Charged : ordinal'[n] = ordinal[n] /\ n \in Mutants
    BY <2>1, <2>3 DEF IInv, TypeOK, Fresh
  <2>5. ASSUME ~abrupt
        PROVE  /\ \A n \in Charged' : Seeds <= ordinal'[n] /\ ordinal'[n] < live'.next
               /\ \A n, k \in Charged' : k # n => ordinal'[k] # ordinal'[n]
               /\ live'.next >= Seeds
    <3>1. live.next >= Seeds /\ \A n \in Charged : Seeds <= ordinal[n] /\ ordinal[n] < live.next
      BY <1>1, <2>5 DEF Orderly
    <3>2. Seeds \in Nat
      BY EngineSnapshotAssumption
    <3>3. \A n \in Charged' : Seeds <= ordinal'[n] /\ ordinal'[n] < live'.next
      BY <2>2, <2>3, <2>4, <3>1, <3>2
    <3>4. \A n, k \in Charged' : k # n => ordinal'[k] # ordinal'[n]
      BY <2>2, <2>3, <2>4, <2>5, <3>1 DEF Orderly
    <3> QED BY <2>2, <3>1, <3>2, <3>3, <3>4
  <2> QED BY <1>1, <2>5 DEF Orderly
<1>3. CASE Persist(m) \/ CountMutant(m) \/ GiveUp(m) \/ Ingest(m)
  <2>1. ordinal' = ordinal /\ live'.next = live.next
    BY <1>3 DEF Persist, CountMutant, GiveUp, Ingest, IInv, TypeOK, Counters
  <2>2. Charged' \subseteq Charged
    BY <1>3 DEF Persist, CountMutant, GiveUp, Ingest, Fresh, IInv, TypeOK
  <2> QED BY <1>1, <2>1, <2>2, OrderlyFrame
<1> QED BY <1>2, <1>3 DEF MutantNext

\* The finalizer passes the live counter, and a new incarnation starts at the
\* stored one; a crash is no orderly end.
LEMMA RunOrderly ==
  ASSUME IInv, IInv', Orderly, BeginStop \/ Finalize \/ Crash \/ Resume
  PROVE  Orderly'
<1> USE DEF Charged, NextOrdinal
<1>1. CASE BeginStop
  <2>1. /\ phase = "running" /\ phase' = "stopping"
        /\ UNCHANGED <<live, task, ordinal, inStore, abrupt>>
    BY <1>1 DEF BeginStop, progVars, endVars
  <2> QED BY <2>1 DEF Orderly, Fresh
<1>2. CASE Finalize
  <2>1. /\ phase = "stopping" /\ phase' = "finalizing" /\ Call("run", live)
        /\ UNCHANGED <<live, task, ordinal, inStore, abrupt>>
    BY <1>2 DEF Finalize, FinalCounters, progVars, endVars
  <2>2. writing'["run"] = "queued" /\ want'["run"] = live
    BY <2>1, WriterNames DEF Call, IInv, TypeOK
  <2> QED BY <2>1, <2>2 DEF Orderly, Fresh
<1>3. CASE Crash
  BY <1>3 DEF Crash, Orderly
<1>4. CASE Resume
  <2>1. /\ phase = "down" /\ phase' = "boot" /\ live'.next = stored.next
        /\ UNCHANGED <<ordinal, inStore, abrupt>>
    BY <1>4 DEF Resume, Restored
  <2>2. Fresh' = {}
    BY <2>1 DEF IInv, Phases
  <2> QED BY <2>1, <2>2, OrderlyFrame
<1> QED BY <1>1, <1>2, <1>3, <1>4

\* Orderly holds in every behaviour.
LEMMA OrderlyAlways == Spec => []Orderly
<1>1. Init => Orderly
  BY EngineSnapshotAssumption DEF Init, Orderly, Charged, Fresh, NextOrdinal, NoCounters
<1>2. IInv /\ IInv' /\ Orderly /\ [Next]_vars => Orderly'
  <2> SUFFICES ASSUME IInv, IInv', Orderly, [Next]_vars PROVE Orderly'
    OBVIOUS
  <2>1. CASE UNCHANGED vars
    BY <2>1 DEF vars, writeVars, progVars, endVars, Orderly, Charged, Fresh, NextOrdinal
  <2> QED BY <2>1, WriterOrderly, MutantOrderly, RunOrderly DEF Next
<1> QED BY <1>1, <1>2, IInvAlways, PTL DEF Spec

\* As long as every incarnation completed its final write, no two stored
\* programs share an ordinal, seeds and cancelled mutants included (the final
\* write of run(), restore_state).
THEOREM OrdinalsUniqueAfterStops == Spec => []OrdinalsUniqueOnResume
<1>1. IInv /\ Orderly => OrdinalsUniqueOnResume
  <2>1. IInv => \A m \in inStore : ordinal[m] \in Nat
    BY DEF IInv, TypeOK
  <2> QED BY <2>1, EngineSnapshotAssumption
           DEF Orderly, Charged, OrdinalsUniqueOnResume, OrdinalsUnique
<1> QED BY <1>1, IInvAlways, OrderlyAlways, PTL
\* What a process knows to be saved never goes back, not even when it is killed
\* and resumed.  Redis is never below it (MirrorLags), so the counters a resume
\* finds are at least those of the last write that returned, although single
\* saves may take Redis back (SnapshotNeverRegresses) (_write_snapshot,
\* restore_state).
THEOREM MirrorNeverRegresses ==
  Spec => [][mirror'.next >= mirror.next /\ mirror'.total >= mirror.total
             /\ mirror'.processed >= mirror.processed]_vars
<1> DEFINE Advances == mirror'.next >= mirror.next /\ mirror'.total >= mirror.total
                       /\ mirror'.processed >= mirror.processed
<1>1. ASSUME IInv, Next PROVE Advances
  <2>1. /\ mirror.next \in Nat /\ mirror.total \in Nat /\ mirror.processed \in Nat
    BY <1>1 DEF IInv, TypeOK, Snapshots
  <2>2. CASE mirror' = mirror
    BY <2>1, <2>2
  <2>3. CASE Resume
    BY <1>1, <2>3 DEF Resume, IInv, MirrorWithinStore
  <2>4. ASSUME NEW w \in Writers, SnapshotWritten(w) PROVE Advances
    BY <1>1, <2>4 DEF SnapshotWritten, IInv, Merging
  <2>5. ASSUME NEW m \in Mutants, MutantNext(m) PROVE mirror' = mirror
    BY <2>5 DEF MutantNext, Reserve, Persist, CountMutant, GiveUp, Ingest
  <2>6. ASSUME NEW w \in Writers, WriterNext(w), ~SnapshotWritten(w) PROVE mirror' = mirror
    BY <2>6 DEF WriterNext, LockSnapshot, SaveSnapshot, WriteFails, WriteCancelled, MirrorOnError
  <2>7. ASSUME BeginStop \/ Finalize \/ Crash PROVE mirror' = mirror
    BY <2>7 DEF BeginStop, Finalize, Crash
  <2> QED BY <1>1, <2>2, <2>3, <2>4, <2>5, <2>6, <2>7 DEF Next
<1>2. IInv /\ [Next]_vars => [Advances]_vars
  BY <1>1
<1> QED BY <1>2, IInvAlways, PTL DEF Spec
=============================================================================
