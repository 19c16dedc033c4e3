---------------------------- MODULE EngineSnapshot ----------------------------
(***************************************************************************)
(* The counters of the engine and their snapshot in Redis                  *)
(* (gigaevo/evolution/engine/core.py, snapshot.py, and their users in      *)
(* mutant_task.py, ingestor.py and steady_state.py).  A mutant takes an    *)
(* ordinal from the live counter, its program is stored with it, and only  *)
(* then the counters are written.  Writers evaluate their arguments, queue *)
(* for _snapshot_lock, merge with the in-process mirror, save, and mirror  *)
(* what they saved.  A save may fail after it took effect, a task may be   *)
(* cancelled while it writes, the process may be killed at any point and   *)
(* resumed from what Redis holds.                                          *)
(*                                                                         *)
(* A field a writer does not pass is 0 here: the clamp turns it into the   *)
(* mirror's value.  MaxResumes bounds how often the process is resumed,    *)
(* the finite set Mutants how many ordinals are ever reserved.             *)
(***************************************************************************)
EXTENDS Naturals, FiniteSets

CONSTANTS
  Mutants,      \* mutants of all incarnations of the process
  Seeds,        \* programs loaded at the first start; ordinals 0 .. Seeds-1
  MaxResumes,   \* bound on restarts
  MayCrash,     \* the process may be killed, its last write cancelled
  SaveMayFail   \* save_run_state may raise, before or after its effect

ASSUME EngineSnapshotAssumption ==
  /\ Seeds \in Nat /\ MaxResumes \in Nat
  /\ {MayCrash, SaveMayFail} \subseteq BOOLEAN
  /\ Mutants \cap {"ingestor", "run", "nobody"} = {}

Writers == Mutants \cup {"ingestor", "run"}

VARIABLES
  phase,      \* where run() is
  live,       \* metrics.iteration, mutations_created, programs_processed
  mirror,     \* engine._snapshot
  stored,     \* engine:snapshot in Redis
  lock,       \* holder of _snapshot_lock
  writing,    \* progress of the _write_snapshot call of each writer
  want,       \* the arguments of that call
  pending,    \* next_snapshot of the lock holder
  task,       \* progress of each mutant
  ordinal,    \* the ordinal each mutant reserved (Program.iteration)
  inStore,    \* mutants whose program is in storage
  ingested,   \* mutants that were processed
  acked,      \* history: mutants whose own snapshot write returned
  resumes,    \* number of restarts
  abrupt      \* history: some incarnation ended without its final write

writeVars == <<lock, writing, want, pending>>
progVars == <<task, ordinal, inStore, ingested, acked>>
endVars == <<resumes, abrupt>>
vars == <<phase, live, mirror, stored, writeVars, progVars, endVars>>

Counters == [next : Nat, total : Nat, processed : Nat]
Snapshots == [next : Nat, total : Nat, processed : Nat, version : Nat]
NoCounters == [next |-> 0, total |-> 0, processed |-> 0]
NoSnapshot == [next |-> 0, total |-> 0, processed |-> 0, version |-> 0]

Newer(a, b) == IF a >= b THEN a ELSE b

-----------------------------------------------------------------------------
(* _write_snapshot *)

\* The call: arguments are evaluated now, the lock comes later.
Call(w, counters) ==
  /\ writing' = [writing EXCEPT ![w] = "queued"]
  /\ want' = [want EXCEPT ![w] = counters]
  /\ UNCHANGED <<lock, pending>>

\* next_snapshot: no counter below the mirror's, the version one higher.
MergedUnclamped(c) ==
  [next |-> c.next, total |-> c.total, processed |-> c.processed,
   version |-> mirror.version + 1]
Merged(c) ==
  [next |-> Newer(c.next, mirror.next), total |-> Newer(c.total, mirror.total),
   processed |-> Newer(c.processed, mirror.processed), version |-> mirror.version + 1]

LockSnapshot(w) ==
  /\ writing[w] = "queued" /\ lock = "nobody"
  /\ lock' = w
  /\ writing' = [writing EXCEPT ![w] = "saving"]
  /\ pending' = Merged(want[w])
  /\ UNCHANGED <<want, phase, live, mirror, stored, progVars, endVars>>

\* save_run_state takes effect; its reply is on the way.
SaveSnapshot(w) ==
  /\ writing[w] = "saving"
  /\ stored' = pending
  /\ writing' = [writing EXCEPT ![w] = "saved"]
  /\ UNCHANGED <<lock, want, pending, phase, live, mirror, progVars, endVars>>

\* The call is over for w, which gives the lock back if it had it.
EndCall(w) ==
  /\ writing' = [writing EXCEPT ![w] = "no"]
  /\ want' = [want EXCEPT ![w] = NoCounters]
  /\ lock' = IF lock = w THEN "nobody" ELSE lock
  /\ pending' = IF lock = w THEN NoSnapshot ELSE pending

\* What the end of run()'s own write is the end of.
RunWriteEnds(completed) ==
  /\ phase' = IF phase = "boot" /\ completed THEN "running" ELSE "down"
  /\ abrupt' = (abrupt \/ ~completed)

SnapshotWritten(w) ==
  /\ writing[w] = "saved"
  /\ mirror' = pending
  /\ EndCall(w)
  /\ \/ /\ w \in Mutants
        /\ task' = [task EXCEPT ![w] = "written"]
        /\ acked' = acked \cup {w}
        /\ UNCHANGED <<phase, abrupt>>
     \/ w = "ingestor" /\ UNCHANGED <<task, acked, phase, abrupt>>
     \/ w = "run" /\ RunWriteEnds(TRUE) /\ UNCHANGED <<task, acked>>
  /\ UNCHANGED <<live, stored, ordinal, inStore, ingested, resumes>>

\* The mirror after a save that raised.
MirrorAheadOnError == pending
MirrorOnError == mirror

\* save_run_state raised.  The error ends the mutant task, or the ingestor
\* and with it the run; before the loops it ends run() itself, in the
\* finalizer it is suppressed.
WriteFails(w) ==
  /\ SaveMayFail
  /\ writing[w] \in {"saving", "saved"}
  /\ mirror' = MirrorOnError
  /\ EndCall(w)
  /\ \/ /\ w \in Mutants
        /\ task' = [task EXCEPT ![w] = "unwritten"]
        /\ UNCHANGED <<phase, abrupt>>
     \/ /\ w = "ingestor"
        /\ phase' = "stopping"
        /\ UNCHANGED <<task, abrupt>>
     \/ w = "run" /\ RunWriteEnds(FALSE) /\ UNCHANGED task
  /\ UNCHANGED <<live, stored, ordinal, inStore, ingested, acked, resumes>>

-----------------------------------------------------------------------------
(* The users of the counters *)

\* run_one_mutant reserves an ordinal: read and increment, no await between.
Reserve(m) ==
  /\ phase = "running" /\ task[m] = "unborn"
  /\ task' = [task EXCEPT ![m] = "generating"]
  /\ ordinal' = [ordinal EXCEPT ![m] = live.next]
  /\ live' = [live EXCEPT !.next = @ + 1]
  /\ UNCHANGED <<phase, mirror, stored, writeVars, inStore, ingested, acked, endVars>>

\* storage.add takes effect.
Persist(m) ==
  /\ phase = "running" /\ task[m] = "generating"
  /\ task' = [task EXCEPT ![m] = "adding"]
  /\ inStore' = inStore \cup {m}
  /\ UNCHANGED <<phase, live, mirror, stored, writeVars, ordinal, ingested, acked, endVars>>

\* The mutant is counted and the snapshot write called; a cancellation that
\* came during the lineage update does not prevent it.
CountMutant(m) ==
  /\ phase \in {"running", "stopping"} /\ task[m] = "adding"
  /\ task' = [task EXCEPT ![m] = "writing"]
  /\ live' = [live EXCEPT !.total = @ + 1]
  /\ Call(m, [next |-> live.next, total |-> live'.total, processed |-> 0])
  /\ UNCHANGED <<phase, mirror, stored, ordinal, inStore, ingested, acked, endVars>>

\* No mutant was generated, or the task is cancelled before it is counted.
GiveUp(m) ==
  /\ \/ phase = "running" /\ task[m] = "generating"
     \/ phase = "stopping" /\ task[m] \in {"generating", "adding"}
  /\ task' = [task EXCEPT ![m] = "gone"]
  /\ UNCHANGED <<phase, live, mirror, stored, writeVars, ordinal, inStore, ingested, acked, endVars>>

\* poll_and_ingest (or, after a resume, the drain before the loops) handles a
\* program and writes the processed counter.
Ingest(m) ==
  /\ phase \in {"running", "stopping"} /\ writing["ingestor"] = "no"
  /\ m \in inStore \ ingested
  /\ task[m] \in {"writing", "written", "unwritten", "stranded"}
  /\ ingested' = ingested \cup {m}
  /\ live' = [live EXCEPT !.processed = @ + 1]
  /\ Call("ingestor", [next |-> 0, total |-> 0, processed |-> live'.processed])
  /\ UNCHANGED <<phase, mirror, stored, task, ordinal, inStore, acked, endVars>>

-----------------------------------------------------------------------------
(* Shutdown, crash and resume *)

TasksOver == \A m \in Mutants : task[m] \notin {"generating", "adding", "writing"}

BeginStop ==
  /\ phase = "running"
  /\ phase' = "stopping"
  /\ UNCHANGED <<live, mirror, stored, writeVars, progVars, endVars>>

\* The shutdown cancels a writer wherever its call is: the mutant tasks
\* first, the ingestor once they are over.
WriteCancelled(w) ==
  /\ phase = "stopping" /\ writing[w] # "no"
  /\ \/ w \in Mutants /\ task' = [task EXCEPT ![w] = "unwritten"]
     \/ w = "ingestor" /\ TasksOver /\ UNCHANGED task
  /\ EndCall(w)
  /\ UNCHANGED <<phase, live, mirror, stored, ordinal, inStore, ingested, acked, endVars>>

\* The counters the finalizer passes.
FinalCountersWithoutOrdinal == [live EXCEPT !.next = 0]
FinalCounters == live

\* The loops and the sweep are over: write the live counters.
Finalize ==
  /\ phase = "stopping" /\ TasksOver /\ writing["ingestor"] = "no"
  /\ phase' = "finalizing"
  /\ Call("run", FinalCounters)
  /\ UNCHANGED <<live, mirror, stored, progVars, endVars>>

\* The process is killed; or, in the finalizer, stop() cancels its write.
Crash ==
  /\ MayCrash /\ phase # "down"
  /\ phase' = "down"
  /\ abrupt' = TRUE
  /\ lock' = "nobody"
  /\ writing' = [w \in Writers |-> "no"]
  /\ want' = [w \in Writers |-> NoCounters]
  /\ pending' = NoSnapshot
  /\ task' = [m \in Mutants |-> IF task[m] \in {"generating", "adding"} THEN "gone"
                                ELSE IF task[m] = "writing" THEN "unwritten" ELSE task[m]]
  /\ UNCHANGED <<live, mirror, stored, ordinal, inStore, ingested, acked, resumes>>

\* restore_state.
Restored(s) == [next |-> s.next, total |-> s.total, processed |-> s.processed]

\* The next incarnation loads the snapshot and starts with a write of its own.
Resume ==
  /\ phase = "down" /\ resumes < MaxResumes
  /\ phase' = "boot"
  /\ resumes' = resumes + 1
  /\ live' = Restored(stored)
  /\ mirror' = stored
  /\ task' = [m \in Mutants |-> IF m \in inStore THEN "stranded" ELSE task[m]]
  /\ Call("run", live')
  /\ UNCHANGED <<stored, ordinal, inStore, ingested, acked, abrupt>>

-----------------------------------------------------------------------------

\* The first start: the seeds are loaded, run() makes its first write.
Init ==
  /\ phase = "boot"
  /\ live = [NoCounters EXCEPT !.next = Seeds]
  /\ mirror = NoSnapshot
  /\ stored = NoSnapshot
  /\ lock = "nobody"
  /\ writing = [w \in Writers |-> IF w = "run" THEN "queued" ELSE "no"]
  /\ want = [w \in Writers |-> IF w = "run" THEN live ELSE NoCounters]
  /\ pending = NoSnapshot
  /\ task = [m \in Mutants |-> "unborn"]
  /\ ordinal = [m \in Mutants |-> 0]
  /\ inStore = {}
  /\ ingested = {}
  /\ acked = {}
  /\ resumes = 0
  /\ abrupt = FALSE

MutantNext(m) == Reserve(m) \/ Persist(m) \/ CountMutant(m) \/ GiveUp(m) \/ Ingest(m)

WriterNext(w) ==
  LockSnapshot(w) \/ SaveSnapshot(w) \/ SnapshotWritten(w) \/ WriteFails(w) \/ WriteCancelled(w)

Next ==
  \/ \E m \in Mutants : MutantNext(m)
  \/ \E w \in Writers : WriterNext(w)
  \/ BeginStop \/ Finalize \/ Crash \/ Resume

Spec == Init /\ [][Next]_vars

-----------------------------------------------------------------------------
(* What the snapshot promises *)

\* Every variable has its type.
TypeOK ==
  /\ phase \in {"boot", "running", "stopping", "finalizing", "down"}
  /\ live \in Counters
  /\ mirror \in Snapshots /\ stored \in Snapshots /\ pending \in Snapshots
  /\ lock \in Writers \cup {"nobody"}
  /\ writing \in [Writers -> {"no", "queued", "saving", "saved"}]
  /\ want \in [Writers -> Counters]
  /\ task \in [Mutants -> {"unborn", "generating", "adding", "writing", "written",
                           "unwritten", "gone", "stranded"}]
  /\ ordinal \in [Mutants -> Nat]
  /\ inStore \subseteq Mutants /\ ingested \subseteq Mutants /\ acked \subseteq Mutants
  /\ resumes \in Nat /\ abrupt \in BOOLEAN

\* "The mirror is thus always <= Redis", in every counter, and the versions
\* are at most one apart: failed, repeated and cancelled saves never make
\* Redis skip a version (_write_snapshot's persist-then-mirror order).
MirrorWithinStore ==
  /\ mirror.next <= stored.next /\ mirror.total <= stored.total
  /\ mirror.processed <= stored.processed
  /\ stored.version \in {mirror.version, mirror.version + 1}

\* A mutant whose snapshot write returned has an ordinal of its own: no
\* other such mutant carries it and the stored counter is past it, so no
\* later incarnation hands it out, whatever was killed, cancelled or failed
\* in between (the clamp in _write_snapshot, restore_state).
AckedOrdinalsSafe ==
  \A m \in acked :
    /\ ordinal[m] < stored.next
    /\ \A n \in acked \ {m} : ordinal[n] # ordinal[m]

\* No two stored programs have the same ordinal, seeds included.  A crash breaks
\* it (README, "What the code does not keep"); see OrdinalsUniqueOnResume.
OrdinalsUnique ==
  \A m \in inStore :
    /\ ordinal[m] >= Seeds
    /\ \A n \in inStore \ {m} : ordinal[n] # ordinal[m]

\* As long as every incarnation completed its final write, ordinals are
\* unique, also those of mutants cancelled between their storage.add and
\* their own snapshot write (the final write of run()).
OrdinalsUniqueOnResume == ~abrupt => OrdinalsUnique

\* The counters in Redis never go back ("the snapshot can never regress",
\* _write_snapshot).  Not kept by the code: README, "What the code does not keep".
SnapshotNeverRegresses ==
  [][stored'.next >= stored.next /\ stored'.total >= stored.total
     /\ stored'.processed >= stored.processed]_vars
=============================================================================
