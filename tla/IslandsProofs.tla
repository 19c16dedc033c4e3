---------------------------- MODULE IslandsProofs ----------------------------
(***************************************************************************)
(* Proofs about the elite archives, for any number of programs, islands,   *)
(* cells and tasks that migrate at once, and any size limits.              *)
(*                                                                         *)
(* A program sits only in its own cell (InOwnCell), which makes deleting a *)
(* cell and dropping its program from the reverse hash the same thing; a   *)
(* removal only clears cells of programs the cache forgets as well; and    *)
(* what is about to be committed is better than the occupant its check saw *)
(* (CheckedIsBetter), which is all add_elite compares when that occupant   *)
(* is still there.                                                         *)
(***************************************************************************)
EXTENDS Islands, TLAPS

Adding == {"commit", "tag", "leave", "leaving", "rollback", "rolling"}
Trimming == {"size", "cells", "delete", "discard"}

\* The program and the island of an operation are known while it needs them, and
\* what is about to be committed is better than what the check saw.
Sound(o) ==
  /\ o \in Operation
  /\ o.at \in Adding \cup {"reject"} => o.prog \in Programs
  /\ o.at \in Adding \cup Trimming => o.dest \in IslandIds
  /\ o.at = "leaving" => o.from \in IslandIds
  /\ o.at = "delete" => o.found \subseteq o.victims
  /\ o.at = "commit" /\ o.elite # None => Better(o.dest, o.prog, o.elite)

OperationsSound == op \in [Actors -> Operation] /\ \A a \in Actors : Sound(op[a])

\* The ingestor keeps the program it offers until its add is over.
IngestorHolds == op[ingestor].at # "idle" => op[ingestor].prog \in Programs

\* A program is in no cell but its own.
InOwnCell ==
  \A i \in IslandIds : \A c \in Cells :
    hash[i][c] # None => CellOf[i][hash[i][c]] = c

IInv ==
  TypeOK /\ OperationsSound /\ IngestorHolds /\ InOwnCell /\ ElitesAreIndexed /\ KnownAreIndexed

-----------------------------------------------------------------------------
(* The operations of the actors *)

LEMMA IdleSound == Sound(Idle)
BY DEF Sound, Idle, Operation, Points, Adding, Trimming

\* The next migrant starts with nothing but what is left to do.
LEMMA NextSound ==
  ASSUME NEW o, Sound(o)
  PROVE  Sound([Idle EXCEPT !.at = "next", !.todo = o.todo])
BY DEF Sound, Idle, Operation, Points, Adding, Trimming

\* A step to another point of the same operation.
LEMMA MoveSound ==
  ASSUME NEW o, Sound(o), NEW p \in Points \ {"commit", "leaving", "delete"},
         p \in Adding \cup {"reject"} => o.prog \in Programs,
         p \in Adding \cup Trimming => o.dest \in IslandIds
  PROVE  Sound([o EXCEPT !.at = p])
BY DEF Sound, Operation, Points, Adding, Trimming

LEMMA BecomesSound ==
  ASSUME OperationsSound, NEW a \in Actors, NEW o, Sound(o), Becomes(a, o)
  PROVE  OperationsSound'
BY DEF OperationsSound, Becomes, Sound

\* The route leads to an add whose check the program has passed.
LEMMA RouteSound ==
  ASSUME TypeOK, OperationsSound, NEW a \in Actors, NEW o, Sound(o),
         NEW p \in Programs, NEW candidates \in SUBSET IslandIds, RouteTo(a, o, p, candidates)
  PROVE  OperationsSound'
<1>1. PICK i \in Compatible(p, candidates) :
        Becomes(a, [o EXCEPT !.at = "commit", !.prog = p, !.dest = i,
                             !.elite = cache[i][CellOf[i][p]]])
  BY DEF RouteTo
<1>2. i \in IslandIds /\ cache[i][CellOf[i][p]] \in Programs \cup {None}
  BY <1>1, IslandsAssumption DEF Compatible, TypeOK
<1>3. cache[i][CellOf[i][p]] # None => Better(i, p, cache[i][CellOf[i][p]])
  BY <1>1 DEF Compatible, Accepts
<1>4. Sound([o EXCEPT !.at = "commit", !.prog = p, !.dest = i,
                      !.elite = cache[i][CellOf[i][p]]])
  BY <1>2, <1>3 DEF Sound, Operation, Points, Adding, Trimming
<1> QED BY <1>1, <1>4, BecomesSound

\* What follows a trim.
LEMMA TrimmedSound ==
  ASSUME OperationsSound, NEW a \in Actors, op[a].dest \in IslandIds, Trimmed(a)
  PROVE  OperationsSound'
<1>0. Sound(op[a])
  BY DEF OperationsSound
<1>1. CASE a = ingestor
  BY <1>1, IdleSound, BecomesSound DEF Trimmed
<1>2. CASE a # ingestor /\ op[a].prog = None
  <2>1. Sound([op[a] EXCEPT !.at = "enforce", !.dest = None, !.victims = {}])
    BY <1>0 DEF Sound, Operation, Points, Adding, Trimming
  <2> QED BY <1>2, <2>1, BecomesSound DEF Trimmed
<1>3. CASE a # ingestor /\ op[a].prog # None
  <2>1. Sound([op[a] EXCEPT !.at = "leave", !.victims = {}])
    BY <1>0, <1>3 DEF Sound, Operation, Points, Adding, Trimming
  <2> QED BY <1>3, <2>1, BecomesSound DEF Trimmed
<1> QED BY <1>1, <1>2, <1>3

\* The look-up of a removal.
LEMMA LookupSound ==
  ASSUME OperationsSound, NEW a \in Actors, NEW i, NEW yes \in {"leaving", "rolling"},
         NEW no \in {"rollback", "next"}, Lookup(a, i, yes, no),
         op[a].prog \in Programs, op[a].dest \in IslandIds, yes = "leaving" => op[a].from \in IslandIds
  PROVE  OperationsSound'
<1>0. Sound(op[a])
  BY DEF OperationsSound
<1>1. Sound([op[a] EXCEPT !.at = yes])
  BY <1>0 DEF Sound, Operation, Points, Adding, Trimming
<1>2. Sound([op[a] EXCEPT !.at = "rollback"])
  BY <1>0 DEF Sound, Operation, Points, Adding, Trimming
<1>3. Becomes(a, [op[a] EXCEPT !.at = yes]) \/ Becomes(a, [op[a] EXCEPT !.at = "rollback"])
        \/ Becomes(a, [Idle EXCEPT !.at = "next", !.todo = op[a].todo])
  BY DEF Lookup, Goto, ToNext
<1> QED BY <1>0, <1>1, <1>2, <1>3, NextSound, BecomesSound

\* What is given up was known: an ingestor that gives up has a program to reject.
LEMMA GiveUpSound ==
  ASSUME OperationsSound, NEW a \in Actors, GiveUp(a), a = ingestor => op[a].prog \in Programs
  PROVE  OperationsSound'
<1>1. op[a].prog \in Programs => Sound([Idle EXCEPT !.at = "reject", !.prog = op[a].prog])
  BY DEF Sound, Idle, Operation, Points, Adding, Trimming
<1> QED BY <1>1, IdleSound, BecomesSound DEF GiveUp

LEMMA TroubleSound ==
  ASSUME OperationsSound, IngestorHolds, NEW a \in Actors, TroubleStep(a)
  PROVE  OperationsSound'
<1>s. Sound(op[a])
  BY DEF OperationsSound
<1>1. CASE Interrupted(a)
  BY <1>1, GiveUpSound DEF Interrupted, IngestorHolds
<1>2. CASE CommitUnseen(a)
  <2>1. op[a].at = "commit" /\ op[a].prog \in Programs
    BY <1>2, <1>s DEF CommitUnseen, Sound, Adding
  <2>2. [op[a] EXCEPT !.at = "commit"] = op[a]
    BY <2>1, <1>s DEF Sound, Operation
  <2> QED BY <1>2, <1>s, <2>1, <2>2, GiveUpSound, BecomesSound DEF CommitUnseen, ReplyLost, Goto
<1>3. CASE DeleteUnseen(a)
  <2>1. op[a].at = "delete" /\ op[a].dest \in IslandIds
    BY <1>3, <1>s DEF DeleteUnseen, Sound, Trimming
  <2>2. Sound([op[a] EXCEPT !.at = "cells"])
    BY <1>s, <2>1, MoveSound DEF Points, Adding
  <2> QED BY <1>3, <1>s, <2>1, <2>2, GiveUpSound, BecomesSound 
      DEF DeleteUnseen, ReplyLost, Goto, IngestorHolds
<1>4. CASE RemoveUnseen(a)
  <2>1. op[a].prog \in Programs /\ op[a].dest \in IslandIds
    BY <1>4, <1>s DEF RemoveUnseen, Sound, Adding
  <2>2. Sound([op[a] EXCEPT !.at = "leave"]) /\ Sound([op[a] EXCEPT !.at = "rollback"])
    BY <1>s, <2>1, MoveSound DEF Points
  <2> QED BY <1>4, <2>1, <2>2, GiveUpSound, BecomesSound DEF RemoveUnseen, ReplyLost, Goto
<1> QED BY <1>1, <1>2, <1>3, <1>4 DEF TroubleStep

\* Every action leaves every operation sound.
LEMMA OperationsStep ==
  ASSUME TypeOK, OperationsSound, IngestorHolds, Next
  PROVE  OperationsSound'
<1>a. Selecting \subseteq Actors /\ ingestor \in Actors
  BY DEF Actors
<1>s. \A a \in Actors : Sound(op[a])
  BY DEF OperationsSound
<1>1. CASE Offer
  <2>1. PICK p \in toIngest :
          RouteTo(ingestor, Idle, p, IslandIds)
            \/ Becomes(ingestor, [Idle EXCEPT !.at = "reject", !.prog = p])
    BY <1>1 DEF Offer
  <2>2. p \in Programs
    BY DEF TypeOK
  <2>3. Sound([Idle EXCEPT !.at = "reject", !.prog = p])
    BY <2>2 DEF Sound, Idle, Operation, Points, Adding, Trimming
  <2> QED BY <1>a, <2>1, <2>2, <2>3, IdleSound, RouteSound, BecomesSound
<1>2. CASE Reject
  BY <1>2, <1>a, IdleSound, BecomesSound DEF Reject
<1>3. ASSUME NEW a \in Actors, Commit(a) PROVE OperationsSound'
  <2>1. op[a].at = "commit" /\ op[a].prog \in Programs /\ op[a].dest \in IslandIds
    BY <1>3, <1>s DEF Commit, Sound, Adding
  <2>2. \/ Goto(a, "reject") \/ ToNext(a)
        \/ Becomes(a, [op[a] EXCEPT !.at = "tag", !.elite = None])
    BY <1>3 DEF Commit
  <2>3. Sound([op[a] EXCEPT !.at = "reject"])
    BY <1>s, <2>1, MoveSound DEF Points
  <2>4. Sound([op[a] EXCEPT !.at = "tag", !.elite = None])
    BY <1>s, <2>1 DEF Sound, Operation, Points, Adding, Trimming
  <2> QED BY <1>s, <2>2, <2>3, <2>4, NextSound, BecomesSound DEF Goto, ToNext
<1>4. ASSUME NEW a \in Actors, Tag(a) PROVE OperationsSound'
  <2>1. op[a].at = "tag" /\ op[a].prog \in Programs /\ op[a].dest \in IslandIds
    BY <1>4, <1>s DEF Tag, Sound, Adding
  <2>2. Goto(a, "size") \/ Trimmed(a)
    BY <1>4 DEF Tag
  <2>3. Sound([op[a] EXCEPT !.at = "size"])
    BY <1>s, <2>1, MoveSound DEF Points
  <2> QED BY <2>1, <2>2, <2>3, TrimmedSound, BecomesSound DEF Goto
<1>5. ASSUME NEW a \in Actors, ChooseVictims(a) PROVE OperationsSound'
  <2>1. op[a].at = "size" /\ op[a].dest \in IslandIds
    BY <1>5, <1>s DEF ChooseVictims, Sound, Trimming
  <2>2. CASE Trimmed(a)
    BY <2>1, <2>2, TrimmedSound
  <2>3. CASE ~Trimmed(a)
    <3>1. PICK v \in Excess(op[a].dest) : Becomes(a, [op[a] EXCEPT !.at = "cells", !.victims = v])
      BY <1>5, <2>3 DEF ChooseVictims
    <3>2. v \subseteq Programs
      BY DEF Excess, Members
    <3>3. Sound([op[a] EXCEPT !.at = "cells", !.victims = v])
      BY <1>s, <2>1, <3>2 DEF Sound, Operation, Points, Adding, Trimming
    <3> QED BY <3>1, <3>3, BecomesSound
  <2> QED BY <2>2, <2>3
<1>6. ASSUME NEW a \in Actors, ReadCells(a) PROVE OperationsSound'
  <2>1. op[a].at = "cells" /\ op[a].dest \in IslandIds
    BY <1>6, <1>s DEF ReadCells, Sound, Trimming
  <2>2. PICK found \in SUBSET op[a].victims, p \in {"discard", "delete"} :
          Becomes(a, [op[a] EXCEPT !.at = p, !.found = found])
    <3> DEFINE f == {p \in op[a].victims : reverse[op[a].dest][p] # None}
               q == IF f = {} THEN "discard" ELSE "delete"
    <3>1. f \in SUBSET op[a].victims
      OBVIOUS
    <3>2. Becomes(a, [op[a] EXCEPT !.at = q, !.found = f])
      BY <1>6 DEF ReadCells
    <3>3. q \in {"discard", "delete"}
      OBVIOUS
    <3> HIDE DEF f, q
    <3> QED BY <3>1, <3>2, <3>3
  <2>v. found \in SUBSET Programs
    BY <1>s DEF Sound, Operation
  <2>3. Sound([op[a] EXCEPT !.at = p, !.found = found])
    BY <1>s, <2>1, <2>v DEF Sound, Operation, Points, Adding, Trimming
  <2> QED BY <2>2, <2>3, BecomesSound
<1>7. ASSUME NEW a \in Actors, DeleteCells(a) PROVE OperationsSound'
  <2>1. op[a].at = "delete" /\ op[a].dest \in IslandIds
    BY <1>7, <1>s DEF DeleteCells, Sound, Trimming
  <2>2. Sound([op[a] EXCEPT !.at = "discard", !.found = {}])
    BY <1>s, <2>1 DEF Sound, Operation, Points, Adding, Trimming
  <2> QED BY <1>7, <2>2, BecomesSound DEF DeleteCells
<1>8. ASSUME NEW a \in Actors, Discard(a) PROVE OperationsSound'
  <2>1. op[a].dest \in IslandIds
    BY <1>8, <1>s DEF Discard, Sound, Trimming
  <2> QED BY <1>8, <2>1, TrimmedSound DEF Discard
<1>9. ASSUME NEW a \in Selecting, StartMigration(a) PROVE OperationsSound'
  <2> DEFINE All == [prog : Programs, from : IslandIds \cup {None, Absent}, listed : IslandIds]
  <2>1. \A i \in IslandIds : Migrants(i) \subseteq All
    BY DEF Migrants, Members, TypeOK
  <2>2. PICK migrants \in SUBSET UNION {Migrants(i) : i \in IslandIds} :
          Becomes(a, [op[a] EXCEPT !.at = "next", !.todo = migrants])
    BY <1>9 DEF StartMigration
  <2>3. migrants \in SUBSET All
    BY <2>1
  <2>4. Sound([op[a] EXCEPT !.at = "next", !.todo = migrants])
    BY <2>3, <1>a, <1>s DEF Sound, Operation, Points, Adding, Trimming
  <2> QED BY <1>a, <2>2, <2>4, BecomesSound
<1>10. ASSUME NEW a \in Selecting, NextMigrant(a) PROVE OperationsSound'
  <2> DEFINE Rest(x) == [Idle EXCEPT !.at = "next", !.todo = op[a].todo \ {x}]
  <2>1. PICK x \in op[a].todo :
          \/ RouteTo(a, [Rest(x) EXCEPT !.from = x.from], x.prog, IslandIds \ {x.from})
          \/ Becomes(a, Rest(x))
    BY <1>10 DEF NextMigrant
  <2>2. x.prog \in Programs /\ x.from \in IslandIds \cup {None, Absent}
    BY <2>1, <1>a, <1>s DEF Sound, Operation
  <2>3. op[a].todo \ {x} \in
          SUBSET [prog : Programs, from : IslandIds \cup {None, Absent}, listed : IslandIds]
    BY <1>a, <1>s DEF Sound, Operation
  <2>4. Sound(Rest(x)) /\ Sound([Rest(x) EXCEPT !.from = x.from])
    BY <2>2, <2>3 DEF Sound, Idle, Operation, Points, Adding, Trimming
  <2> HIDE DEF Rest
  <2>5. IslandIds \ {x.from} \in SUBSET IslandIds
    OBVIOUS
  <2> QED BY <1>a, <2>1, <2>2, <2>4, <2>5, RouteSound, BecomesSound
<1>11. ASSUME NEW a \in Selecting, LeaveSource(a) PROVE OperationsSound'
  <2>1. op[a].prog \in Programs /\ op[a].dest \in IslandIds
    BY <1>11, <1>a, <1>s DEF LeaveSource, Sound, Adding
  <2>2. CASE ToNext(a)
    BY <2>2, <1>a, <1>s, NextSound, BecomesSound DEF ToNext
  <2>3. CASE op[a].from \in IslandIds /\ Lookup(a, op[a].from, "leaving", "rollback")
    BY <2>1, <2>3, <1>a, LookupSound
  <2> QED BY <1>11, <2>2, <2>3 DEF LeaveSource, Remove
<1>12. ASSUME NEW a \in Selecting, Rollback(a) PROVE OperationsSound'
  <2>1. op[a].prog \in Programs /\ op[a].dest \in IslandIds
    BY <1>12, <1>a, <1>s DEF Rollback, Sound, Adding
  <2>2. CASE ToNext(a)
    BY <2>2, <1>a, <1>s, NextSound, BecomesSound DEF ToNext
  <2>3. CASE Lookup(a, op[a].dest, "rolling", "next")
    BY <2>1, <2>3, <1>a, LookupSound
  <2> QED BY <1>12, <2>2, <2>3 DEF Rollback, Remove
<1>13. ASSUME NEW a \in Selecting, MigrantsDone(a) PROVE OperationsSound'
  <2>1. Sound([Idle EXCEPT !.at = "enforce", !.islands = Limited])
    BY DEF Sound, Idle, Operation, Points, Adding, Trimming, Limited
  <2> QED BY <1>13, <1>a, <2>1, BecomesSound DEF MigrantsDone
<1>14. ASSUME NEW a \in Selecting, EnforceNext(a) PROVE OperationsSound'
  <2>1. PICK i \in op[a].islands :
          Becomes(a, [op[a] EXCEPT !.at = "size", !.dest = i, !.islands = op[a].islands \ {i}])
    BY <1>14 DEF EnforceNext
  <2>2. i \in IslandIds /\ op[a].islands \ {i} \in SUBSET IslandIds
    BY <2>1, <1>a, <1>s DEF Sound, Operation
  <2>3. Sound([op[a] EXCEPT !.at = "size", !.dest = i, !.islands = op[a].islands \ {i}])
    BY <2>2, <1>a, <1>s DEF Sound, Operation, Points, Adding, Trimming
  <2> QED BY <1>a, <2>1, <2>3, BecomesSound
<1>15. ASSUME NEW a \in Selecting, FinishMigration(a) PROVE OperationsSound'
  <2>1. Sound([op[a] EXCEPT !.at = "ready"])
    BY <1>a, <1>s, MoveSound DEF Points, Adding, Trimming
  <2> QED BY <1>15, <1>a, <2>1, BecomesSound DEF FinishMigration, Goto
<1>16. ASSUME NEW a \in Selecting, Select(a) PROVE OperationsSound'
  BY <1>16, <1>a, IdleSound, BecomesSound DEF Select
<1>17. ASSUME NEW a \in Actors, TroubleStep(a) PROVE OperationsSound'
  BY <1>17, TroubleSound
<1> QED BY <1>1, <1>2, <1>3, <1>4, <1>5, <1>6, <1>7, <1>8, <1>9, <1>10, <1>11, <1>12, <1>13,
           <1>14, <1>15, <1>16, <1>17 DEF Next, AddStep, TrimStep, MigrationStep

\* The ingestor is idle, rejects, or goes on with the program it has.
LEMMA IngestorStep ==
  ASSUME TypeOK, OperationsSound, IngestorHolds, Next
  PROVE  IngestorHolds'
<1> USE DEF IngestorHolds
<1>a. /\ ingestor \in Actors /\ Selecting \subseteq Actors /\ ingestor \notin Selecting
      /\ op \in [Actors -> Operation]
  BY IslandsAssumption DEF Actors, OperationsSound
<1>b. ASSUME NEW a \in Actors, a # ingestor, NEW o, Becomes(a, o) PROVE IngestorHolds'
  BY <1>a, <1>b DEF Becomes
<1>c. ASSUME NEW o, Becomes(ingestor, o), o.at # "idle" => o.prog \in Programs
      PROVE  IngestorHolds'
  BY <1>a, <1>c DEF Becomes
<1>i. Idle.at = "idle"
  BY DEF Idle
<1>k. ASSUME op[ingestor].at # "idle", NEW p, Goto(ingestor, p) PROVE IngestorHolds'
  <2>1. [op[ingestor] EXCEPT !.at = p].prog = op[ingestor].prog
    BY <1>a DEF Operation
  <2> QED BY <1>c, <1>k, <2>1 DEF Goto
<1>g. ASSUME op[ingestor].at # "idle", GiveUp(ingestor) PROVE IngestorHolds'
  <2>1. [Idle EXCEPT !.at = "reject", !.prog = op[ingestor].prog].prog = op[ingestor].prog
    BY DEF Idle
  <2> QED BY <1>c, <1>g, <2>1 DEF GiveUp
<1>t. ASSUME Trimmed(ingestor) PROVE IngestorHolds'
  BY <1>c, <1>i, <1>t DEF Trimmed
<1>1. CASE Offer
  <2>1. PICK p \in toIngest :
          \/ \E i \in Compatible(p, IslandIds) :
               Becomes(ingestor, [Idle EXCEPT !.at = "commit", !.prog = p, !.dest = i,
                                              !.elite = cache[i][CellOf[i][p]]])
          \/ Becomes(ingestor, [Idle EXCEPT !.at = "reject", !.prog = p])
    BY <1>1 DEF Offer, RouteTo
  <2>2. p \in Programs
    BY DEF TypeOK
  <2>3. \A i : [Idle EXCEPT !.at = "commit", !.prog = p, !.dest = i,
                            !.elite = cache[i][CellOf[i][p]]].prog = p
    BY DEF Idle
  <2>4. [Idle EXCEPT !.at = "reject", !.prog = p].prog = p
    BY DEF Idle
  <2> QED BY <1>c, <2>1, <2>2, <2>3, <2>4
<1>2. CASE Reject
  BY <1>2, <1>c, <1>i DEF Reject
<1>3. CASE AddStep(ingestor)
  <2>1. [op[ingestor] EXCEPT !.at = "tag", !.elite = None].prog = op[ingestor].prog
    BY <1>a DEF Operation
  <2> QED BY <1>3, <2>1, <1>c, <1>k, <1>t DEF AddStep, Commit, Tag
<1>4. CASE TrimStep(ingestor)
  <2>1. CASE Trimmed(ingestor)
    BY <2>1, <1>t
  <2>2. CASE ~Trimmed(ingestor)
    <3>1. op[ingestor].at # "idle"
      BY <1>4 DEF TrimStep, ChooseVictims, ReadCells, DeleteCells, Discard
    <3>2. \A p, v : /\ [op[ingestor] EXCEPT !.at = p, !.victims = v].prog = op[ingestor].prog
                    /\ [op[ingestor] EXCEPT !.at = p, !.found = v].prog = op[ingestor].prog
      BY <1>a DEF Operation
    <3>3. \E p, v : \/ Becomes(ingestor, [op[ingestor] EXCEPT !.at = p, !.victims = v])
                    \/ Becomes(ingestor, [op[ingestor] EXCEPT !.at = p, !.found = v])
      BY <1>4, <2>2 DEF TrimStep, ChooseVictims, ReadCells, DeleteCells, Discard
    <3> QED BY <1>c, <3>1, <3>2, <3>3
  <2> QED BY <2>1, <2>2
<1>5. CASE TroubleStep(ingestor)
  <2>1. op[ingestor].at # "idle"
    BY <1>5 DEF TroubleStep, Interrupted, CommitUnseen, DeleteUnseen, RemoveUnseen
  <2> QED BY <1>5, <2>1, <1>g, <1>k
          DEF TroubleStep, Interrupted, CommitUnseen, DeleteUnseen, RemoveUnseen, ReplyLost
<1>6. ASSUME NEW a \in Actors, a # ingestor, AddStep(a) \/ TrimStep(a) \/ TroubleStep(a)
      PROVE  IngestorHolds'
  <2>1. \E o : Becomes(a, o)
    BY <1>6 DEF AddStep, Commit, Tag, TrimStep, ChooseVictims, ReadCells, DeleteCells, Discard,
                TroubleStep, Interrupted, CommitUnseen, DeleteUnseen, RemoveUnseen, ReplyLost,
                GiveUp, Goto, ToNext, Trimmed
  <2> QED BY <1>6, <1>b, <2>1
<1>7. ASSUME NEW a \in Selecting, StartMigration(a) \/ MigrationStep(a) \/ Select(a)
      PROVE  IngestorHolds'
  <2>1. \E o : Becomes(a, o)
    BY <1>7 DEF StartMigration, Select, MigrationStep, NextMigrant, LeaveSource, Rollback,
                MigrantsDone, EnforceNext, FinishMigration, RouteTo, Lookup, Remove, Goto, ToNext
  <2>2. a \in Actors /\ a # ingestor
    BY <1>a
  <2> QED BY <1>b, <2>1, <2>2
<1> QED BY <1>1, <1>2, <1>3, <1>4, <1>5, <1>6, <1>7 DEF Next

-----------------------------------------------------------------------------
(* The stored archives *)

\* An archive changes by emptying cells and by placing a program that is better
\* than the occupant.
Placed(i, p) ==
  LET c == CellOf[i][p] IN
  Place(i, p) /\ (hash[i][c] = None \/ Better(i, p, hash[i][c]))

\* A commit places a program that is better than the occupant, whether the check
\* saw it or not.
LEMMA CommitPlaces ==
  ASSUME OperationsSound, NEW a \in Actors, op[a].at = "commit",
         ~Refuses(op[a], Occupant(op[a])), Place(op[a].dest, op[a].prog)
  PROVE  /\ op[a].dest \in IslandIds /\ op[a].prog \in Programs
         /\ Placed(op[a].dest, op[a].prog)
<1>1. Sound(op[a])
  BY DEF OperationsSound
<1>2. op[a].dest \in IslandIds /\ op[a].prog \in Programs
  BY <1>1 DEF Sound, Adding
<1>3. Occupant(op[a]) = None \/ Better(op[a].dest, op[a].prog, Occupant(op[a]))
  BY <1>1 DEF Refuses, Sound
<1> QED BY <1>2, <1>3 DEF Placed, Occupant

\* A change whose reply is lost is one of the same kinds, in an island that is
\* behind from then on.
LEMMA UnseenStep ==
  ASSUME OperationsSound, NEW a \in Actors,
         CommitUnseen(a) \/ DeleteUnseen(a) \/ RemoveUnseen(a)
  PROVE  \E i \in IslandIds :
           /\ \/ \E p \in Programs : Placed(i, p)
              \/ \E ps \in SUBSET Programs : Empty(i, ps)
           /\ behind' = behind \cup {i} /\ UNCHANGED cache
<1>s. Sound(op[a])
  BY DEF OperationsSound
<1>1. CASE CommitUnseen(a)
  BY <1>1, CommitPlaces DEF CommitUnseen, ReplyLost
<1>2. CASE DeleteUnseen(a)
  <2>1. op[a].dest \in IslandIds /\ op[a].found \in SUBSET Programs
    BY <1>s, <1>2 DEF DeleteUnseen, Sound, Trimming, Operation
  <2> QED BY <1>2, <2>1 DEF DeleteUnseen, ReplyLost
<1>3. CASE RemoveUnseen(a)
  <2>1. PICK i \in {op[a].from, op[a].dest} :
          /\ Empty(i, {op[a].prog}) /\ behind' = behind \cup {i} /\ UNCHANGED cache
          /\ i \in IslandIds
    BY <1>s, <1>3 DEF RemoveUnseen, ReplyLost, Sound, Adding
  <2>2. {op[a].prog} \in SUBSET Programs
    BY <1>s, <1>3 DEF RemoveUnseen, Sound, Adding
  <2> QED BY <2>1, <2>2
<1> QED BY <1>1, <1>2, <1>3

\* No island that is behind catches up.
LEMMA BehindGrows ==
  ASSUME Next
  PROVE  behind \subseteq behind'
<1> USE DEF schedule, faults
<1>1. CASE Offer \/ Reject
  BY <1>1 DEF Offer, Reject
<1>2. ASSUME NEW a \in Actors, AddStep(a) \/ TrimStep(a) PROVE behind \subseteq behind'
  BY <1>2 DEF AddStep, Commit, Tag, TrimStep, ChooseVictims, ReadCells, DeleteCells, Discard
<1>3. ASSUME NEW a \in Actors, TroubleStep(a) PROVE behind \subseteq behind'
  BY <1>3 DEF TroubleStep, Interrupted, CommitUnseen, DeleteUnseen, RemoveUnseen, ReplyLost
<1>4. ASSUME NEW a \in Selecting, StartMigration(a) \/ MigrationStep(a) \/ Select(a)
      PROVE  behind \subseteq behind'
  BY <1>4 DEF StartMigration, Select, MigrationStep, NextMigrant, LeaveSource, Rollback,
              MigrantsDone, EnforceNext, FinishMigration, Lookup, Remove
<1> QED BY <1>1, <1>2, <1>3, <1>4 DEF Next

\* Everything else empties the cells of some programs, or touches no archive.
LEMMA ArchiveStep ==
  ASSUME TypeOK, OperationsSound, Next
  PROVE  \/ UNCHANGED <<hash, reverse>>
         \/ \E i \in IslandIds : \E p \in Programs : Placed(i, p)
         \/ \E i \in IslandIds : \E ps \in SUBSET Programs : Empty(i, ps)
<1>s. /\ Selecting \subseteq Actors
      /\ \A a \in Actors : Sound(op[a])
  BY DEF OperationsSound, Actors
<1>1. CASE Offer \/ Reject
  BY <1>1 DEF Offer, Reject, stored
<1>2. ASSUME NEW a \in Actors, AddStep(a)
      PROVE  \/ UNCHANGED <<hash, reverse>>
             \/ \E i \in IslandIds : \E p \in Programs : Placed(i, p)
  <2>1. CASE Tag(a)
    BY <2>1 DEF Tag
  <2>2. CASE Commit(a)
    <3>1. CASE Refuses(op[a], Occupant(op[a]))
      BY <2>2, <3>1 DEF Commit
    <3>2. CASE ~Refuses(op[a], Occupant(op[a]))
      BY <2>2, <3>2, CommitPlaces DEF Commit
    <3> QED BY <3>1, <3>2
  <2> QED BY <1>2, <2>1, <2>2 DEF AddStep
<1>3. ASSUME NEW a \in Actors, TrimStep(a)
      PROVE  \/ UNCHANGED <<hash, reverse>>
             \/ \E i \in IslandIds : \E ps \in SUBSET Programs : Empty(i, ps)
  <2>1. CASE DeleteCells(a)
    <3>1. op[a].dest \in IslandIds /\ op[a].found \in SUBSET Programs
      BY <1>s, <2>1 DEF DeleteCells, Sound, Trimming, Operation
    <3>2. Empty(op[a].dest, op[a].found)
      BY <2>1 DEF DeleteCells, Empty
    <3> QED BY <3>1, <3>2
  <2>2. CASE ChooseVictims(a) \/ ReadCells(a) \/ Discard(a)
    BY <2>2 DEF ChooseVictims, ReadCells, Discard, stored
  <2> QED BY <1>3, <2>1, <2>2 DEF TrimStep
<1>4. ASSUME NEW a \in Selecting, MigrationStep(a)
      PROVE  \/ UNCHANGED <<hash, reverse>>
             \/ \E i \in IslandIds : \E ps \in SUBSET Programs : Empty(i, ps)
  <2>1. ASSUME NEW i \in IslandIds, Remove(a, i), op[a].prog \in Programs
        PROVE  \E ps \in SUBSET Programs : Empty(i, ps)
    <3>1. Empty(i, {op[a].prog})
      BY <2>1 DEF Remove, Empty
    <3> QED BY <2>1, <3>1
  <2>2. CASE LeaveSource(a)
    <3>1. CASE UNCHANGED stored
      BY <3>1 DEF stored
    <3>2. CASE op[a].at = "leaving" /\ Remove(a, op[a].from)
      BY <1>s, <2>1, <3>2 DEF Sound, Adding
    <3> QED BY <2>2, <3>1, <3>2 DEF LeaveSource, Lookup
  <2>3. CASE Rollback(a)
    <3>1. CASE UNCHANGED stored
      BY <3>1 DEF stored
    <3>2. CASE op[a].at = "rolling" /\ Remove(a, op[a].dest)
      BY <1>s, <2>1, <3>2 DEF Sound, Adding
    <3> QED BY <2>3, <3>1, <3>2 DEF Rollback, Lookup
  <2>4. CASE NextMigrant(a) \/ MigrantsDone(a) \/ EnforceNext(a) \/ FinishMigration(a)
    BY <2>4 DEF NextMigrant, MigrantsDone, EnforceNext, FinishMigration, stored
  <2> QED BY <1>4, <2>2, <2>3, <2>4 DEF MigrationStep
<1>5. ASSUME NEW a \in Selecting, StartMigration(a) \/ Select(a)
      PROVE  UNCHANGED <<hash, reverse>>
  BY <1>5 DEF StartMigration, Select, stored
<1>6. ASSUME NEW a \in Actors, TroubleStep(a)
      PROVE  \/ UNCHANGED <<hash, reverse>>
             \/ \E i \in IslandIds : \E p \in Programs : Placed(i, p)
             \/ \E i \in IslandIds : \E ps \in SUBSET Programs : Empty(i, ps)
  BY <1>6, UnseenStep DEF TroubleStep, Interrupted, stored
<1> QED BY <1>1, <1>2, <1>3, <1>4, <1>5, <1>6 DEF Next

\* Placing and emptying keep every program in its cell and in the index.
LEMMA IndexStep ==
  ASSUME TypeOK, OperationsSound, InOwnCell, ElitesAreIndexed, Next
  PROVE  InOwnCell' /\ ElitesAreIndexed'
<1> USE IslandsAssumption DEF TypeOK
<1>1. CASE UNCHANGED <<hash, reverse>>
  BY <1>1 DEF InOwnCell, ElitesAreIndexed, Members
<1>2. ASSUME NEW i \in IslandIds, NEW p \in Programs, Placed(i, p)
      PROVE  InOwnCell' /\ ElitesAreIndexed'
  <2> DEFINE c == CellOf[i][p]
  <2>0. c \in Cells /\ c = CellOf[i][p]
    OBVIOUS
  <2>1. /\ \A j \in IslandIds : \A d \in Cells :
             hash'[j][d] = IF j = i /\ d = c THEN p ELSE hash[j][d]
        /\ \A j \in IslandIds : \A q \in Programs :
             reverse'[j][q] = IF j # i THEN reverse[j][q]
                              ELSE IF q = p THEN c
                              ELSE IF q = hash[i][c] THEN None ELSE reverse[j][q]
    BY <1>2, <2>0 DEF Placed, Place, Unindexed
  <2> HIDE DEF c
  <2>2. InOwnCell'
    BY <2>0, <2>1 DEF InOwnCell
  <2>3. ASSUME NEW j \in IslandIds, NEW q \in Programs, hash'[j][CellOf[j][q]] = q
        PROVE  reverse'[j][q] = CellOf[j][q]
    <3>1. CASE j = i /\ q = p
      BY <2>1, <3>1 DEF c
    <3>2. CASE ~(j = i /\ q = p)
      <4>1. CellOf[j][q] \in Cells
        OBVIOUS
      <4>2. hash[j][CellOf[j][q]] = q /\ ~(j = i /\ CellOf[j][q] = c)
        BY <2>0, <2>1, <2>3, <3>2, <4>1
      <4>3. reverse[j][q] = CellOf[j][q]
        BY <4>2 DEF ElitesAreIndexed, Members
      <4>4. j = i => q # hash[i][c]
        BY <2>0, <4>2 DEF InOwnCell
      <4> QED BY <2>1, <3>2, <4>3, <4>4
    <3> QED BY <3>1, <3>2
  <2> QED BY <2>2, <2>3 DEF ElitesAreIndexed, Members
<1>3. ASSUME NEW i \in IslandIds, NEW ps \in SUBSET Programs, Empty(i, ps)
      PROVE  InOwnCell' /\ ElitesAreIndexed'
  <2>1. /\ \A j \in IslandIds : \A d \in Cells :
             hash'[j][d] = IF j = i /\ d \in {CellOf[i][q] : q \in ps} THEN None ELSE hash[j][d]
        /\ \A j \in IslandIds : \A q \in Programs :
             reverse'[j][q] = IF j = i /\ q \in ps THEN None ELSE reverse[j][q]
    BY <1>3 DEF Empty, Cleared, Unindexed
  <2>2. InOwnCell'
    BY <2>1 DEF InOwnCell
  <2>3. ASSUME NEW j \in IslandIds, NEW q \in Programs, hash'[j][CellOf[j][q]] = q
        PROVE  reverse'[j][q] = CellOf[j][q]
    <3>1. q # None /\ CellOf[j][q] \in Cells
      OBVIOUS
    <3>2. hash[j][CellOf[j][q]] = q /\ ~(j = i /\ q \in ps)
      BY <2>1, <2>3, <3>1
    <3>3. reverse[j][q] = CellOf[j][q]
      BY <3>2 DEF ElitesAreIndexed, Members
    <3> QED BY <2>1, <3>2, <3>3
  <2> QED BY <2>2, <2>3 DEF ElitesAreIndexed, Members
<1> QED BY <1>1, <1>2, <1>3, ArchiveStep

\* The ways in which the cache changes, each with its change of the archive.
Learned(i, p) ==
  /\ p = hash[i][CellOf[i][p]]
  /\ cache' = [cache EXCEPT ![i][CellOf[i][p]] = p]
  /\ UNCHANGED reverse
Added(i, p) == Placed(i, p) /\ cache' = [cache EXCEPT ![i][CellOf[i][p]] = p]
Dropped(i, ps, victims) ==
  /\ ps \subseteq victims
  /\ Empty(i, ps)
  /\ cache' = [cache EXCEPT ![i] = Forgotten(cache[i], victims)]

\* The cache stays as it is, and what may change is in an island that is behind.
Missed(i) ==
  /\ i \in behind' /\ UNCHANGED cache
  /\ \A j \in IslandIds \ {i} : reverse'[j] = reverse[j]

LEMMA CacheStep ==
  ASSUME TypeOK, OperationsSound, InOwnCell, Next
  PROVE  \/ UNCHANGED <<cache, reverse>>
         \/ \E i \in IslandIds : \E p \in Programs : Learned(i, p) \/ Added(i, p)
         \/ \E i \in IslandIds : \E ps, victims \in SUBSET Programs : Dropped(i, ps, victims)
         \/ \E i \in IslandIds : Missed(i)
<1>s. /\ Selecting \subseteq Actors
      /\ \A a \in Actors : Sound(op[a])
  BY DEF OperationsSound, Actors
<1>1. CASE Offer \/ Reject
  BY <1>1 DEF Offer, Reject, stored
<1>2. ASSUME NEW a \in Actors, AddStep(a)
      PROVE  \/ UNCHANGED <<cache, reverse>>
             \/ \E i \in IslandIds : \E p \in Programs : Learned(i, p) \/ Added(i, p)
  <2> DEFINE i == op[a].dest
             p == op[a].prog
             c == CellOf[i][p]
             occupant == Occupant(op[a])
  <2>1. CASE Tag(a)
    BY <2>1 DEF Tag
  <2>2. CASE Commit(a)
    <3>1. i \in IslandIds /\ p \in Programs /\ Sound(op[a]) /\ op[a].at = "commit"
      BY <1>s, <2>2 DEF Commit, Sound, Adding
    <3>2. c \in Cells
      BY <3>1, IslandsAssumption
    <3>3. CASE Refuses(op[a], occupant)
      <4>1. occupant \in Programs /\ CellOf[i][occupant] = c
        BY <3>1, <3>2, <3>3 DEF Refuses, Occupant, InOwnCell, TypeOK
      <4>2. cache' = [cache EXCEPT ![i][c] = occupant] /\ UNCHANGED reverse
        BY <2>2, <3>3 DEF Commit
      <4>3. Learned(i, occupant)
        BY <4>1, <4>2 DEF Learned, Occupant
      <4> QED BY <3>1, <4>1, <4>3
    <3>4. CASE ~Refuses(op[a], occupant)
      <4>1. Placed(i, p)
        BY <2>2, <3>4, CommitPlaces DEF Commit
      <4>2. cache' = [cache EXCEPT ![i][c] = p]
        BY <2>2, <3>4 DEF Commit
      <4>3. Added(i, p)
        BY <4>1, <4>2 DEF Added
      <4> QED BY <3>1, <4>3
    <3> QED BY <3>3, <3>4
  <2> QED BY <1>2, <2>1, <2>2 DEF AddStep
<1>3. ASSUME NEW a \in Actors, TrimStep(a)
      PROVE  \/ UNCHANGED <<cache, reverse>>
             \/ \E i \in IslandIds : \E ps, victims \in SUBSET Programs : Dropped(i, ps, victims)
  <2>1. CASE DeleteCells(a)
    <3>1. /\ op[a].dest \in IslandIds
          /\ op[a].found \in SUBSET Programs /\ op[a].victims \in SUBSET Programs
          /\ op[a].found \subseteq op[a].victims
      BY <1>s, <2>1 DEF DeleteCells, Sound, Trimming, Operation
    <3>2. Dropped(op[a].dest, op[a].found, op[a].victims)
      BY <2>1, <3>1 DEF DeleteCells, Dropped, Empty
    <3> QED BY <3>1, <3>2
  <2>2. CASE ChooseVictims(a) \/ ReadCells(a) \/ Discard(a)
    BY <2>2 DEF ChooseVictims, ReadCells, Discard, stored
  <2> QED BY <1>3, <2>1, <2>2 DEF TrimStep
<1>4. ASSUME NEW a \in Selecting, MigrationStep(a)
      PROVE  \/ UNCHANGED <<cache, reverse>>
             \/ \E i \in IslandIds : \E ps, victims \in SUBSET Programs : Dropped(i, ps, victims)
  <2>1. ASSUME NEW i \in IslandIds, Remove(a, i), op[a].prog \in Programs
        PROVE  \E ps, victims \in SUBSET Programs : Dropped(i, ps, victims)
    <3>1. Dropped(i, {op[a].prog}, {op[a].prog})
      BY <2>1 DEF Remove, Empty, Dropped
    <3>2. {op[a].prog} \in SUBSET Programs
      BY <2>1
    <3> QED BY <3>1, <3>2
  <2>2. CASE LeaveSource(a)
    <3>1. CASE UNCHANGED <<stored, cache>>
      BY <3>1 DEF stored
    <3>2. CASE op[a].at = "leaving" /\ Remove(a, op[a].from)
      BY <1>s, <2>1, <3>2 DEF Sound, Adding
    <3> QED BY <2>2, <3>1, <3>2 DEF LeaveSource, Lookup
  <2>3. CASE Rollback(a)
    <3>1. CASE UNCHANGED <<stored, cache>>
      BY <3>1 DEF stored
    <3>2. CASE op[a].at = "rolling" /\ Remove(a, op[a].dest)
      BY <1>s, <2>1, <3>2 DEF Sound, Adding
    <3> QED BY <2>3, <3>1, <3>2 DEF Rollback, Lookup
  <2>4. CASE NextMigrant(a) \/ MigrantsDone(a) \/ EnforceNext(a) \/ FinishMigration(a)
    BY <2>4 DEF NextMigrant, MigrantsDone, EnforceNext, FinishMigration, stored
  <2> QED BY <1>4, <2>2, <2>3, <2>4 DEF MigrationStep
<1>5. ASSUME NEW a \in Selecting, StartMigration(a) \/ Select(a)
      PROVE  UNCHANGED <<cache, reverse>>
  BY <1>5 DEF StartMigration, Select, stored
<1>6. ASSUME NEW a \in Actors, TroubleStep(a)
      PROVE  \/ UNCHANGED <<cache, reverse>>
             \/ \E i \in IslandIds : Missed(i)
  <2>1. CASE Interrupted(a)
    BY <2>1 DEF Interrupted, stored
  <2>2. CASE CommitUnseen(a) \/ DeleteUnseen(a) \/ RemoveUnseen(a)
    <3>1. PICK i \in IslandIds :
            /\ \/ \E p \in Programs : Placed(i, p)
               \/ \E ps \in SUBSET Programs : Empty(i, ps)
            /\ behind' = behind \cup {i} /\ UNCHANGED cache
      BY <2>2, UnseenStep
    <3>2. \A j \in IslandIds \ {i} : reverse'[j] = reverse[j]
      BY <3>1 DEF Placed, Place, Empty, TypeOK
    <3> QED BY <3>1, <3>2 DEF Missed
  <2> QED BY <1>6, <2>1, <2>2 DEF TroubleStep
<1> QED BY <1>1, <1>2, <1>3, <1>4, <1>5, <1>6 DEF Next

\* A program the cache learns is in the archive, hence in the index; what the
\* index drops, the cache drops too.
LEMMA KnownStep ==
  ASSUME TypeOK, OperationsSound, InOwnCell, ElitesAreIndexed, KnownAreIndexed, Next
  PROVE  KnownAreIndexed'
<1> USE IslandsAssumption DEF TypeOK
<1> SUFFICES ASSUME NEW j \in IslandIds, j \notin behind', NEW q \in Programs,
                    cache'[j][CellOf[j][q]] = q
             PROVE  reverse'[j][q] = CellOf[j][q]
  BY DEF KnownAreIndexed, Members
<1>b. j \notin behind
  BY BehindGrows
<1>0. CellOf[j][q] \in Cells /\ q # None
  OBVIOUS
<1>1. CASE UNCHANGED <<cache, reverse>>
  BY <1>1, <1>b DEF KnownAreIndexed, Members
<1>2. ASSUME NEW i \in IslandIds, NEW p \in Programs, Learned(i, p)
      PROVE  reverse'[j][q] = CellOf[j][q]
  <2>1. CellOf[i][p] \in Cells
    OBVIOUS
  <2>2. \/ cache[j][CellOf[j][q]] = q
        \/ j = i /\ q = p
    BY <1>0, <1>2, <2>1 DEF Learned
  <2>3. reverse[j][q] = CellOf[j][q]
    BY <1>2, <1>b, <2>2 DEF Learned, KnownAreIndexed, ElitesAreIndexed, Members
  <2> QED BY <1>2, <2>3 DEF Learned
<1>3. ASSUME NEW i \in IslandIds, NEW p \in Programs, Added(i, p)
      PROVE  reverse'[j][q] = CellOf[j][q]
  <2> DEFINE c == CellOf[i][p]
  <2>0. c \in Cells /\ c = CellOf[i][p]
    OBVIOUS
  <2>1. reverse'[j][q] = IF j # i THEN reverse[j][q]
                         ELSE IF q = p THEN c
                         ELSE IF q = hash[i][c] THEN None ELSE reverse[j][q]
    BY <1>3, <2>0 DEF Added, Placed, Place, Unindexed
  <2>2. \/ cache[j][CellOf[j][q]] = q /\ ~(j = i /\ CellOf[j][q] = c)
        \/ j = i /\ q = p
    BY <1>0, <1>3, <2>0 DEF Added
  <2> HIDE DEF c
  <2>3. CASE j = i /\ q = p
    BY <2>0, <2>1, <2>3
  <2>4. CASE cache[j][CellOf[j][q]] = q /\ ~(j = i /\ CellOf[j][q] = c)
    <3>1. reverse[j][q] = CellOf[j][q]
      BY <1>b, <2>4 DEF KnownAreIndexed, Members
    <3>2. j = i => q # hash[i][c] /\ q # p
      BY <2>0, <2>4 DEF InOwnCell
    <3> QED BY <2>1, <3>1, <3>2
  <2> QED BY <2>2, <2>3, <2>4
<1>4. ASSUME NEW i \in IslandIds, NEW ps \in SUBSET Programs,
             NEW victims \in SUBSET Programs, Dropped(i, ps, victims)
      PROVE  reverse'[j][q] = CellOf[j][q]
  <2>1. reverse'[j][q] = IF j = i /\ q \in ps THEN None ELSE reverse[j][q]
    BY <1>4 DEF Dropped, Empty, Unindexed
  <2>2. cache[j][CellOf[j][q]] = q /\ ~(j = i /\ q \in victims)
    BY <1>0, <1>4 DEF Dropped, Forgotten
  <2>3. reverse[j][q] = CellOf[j][q]
    BY <1>b, <2>2 DEF KnownAreIndexed, Members
  <2> QED BY <1>4, <2>1, <2>2, <2>3 DEF Dropped
<1>5. ASSUME NEW i \in IslandIds, Missed(i) PROVE reverse'[j][q] = CellOf[j][q]
  BY <1>5, <1>b DEF Missed, KnownAreIndexed, Members
<1> QED BY <1>1, <1>2, <1>3, <1>4, <1>5, CacheStep

\* A cell is emptied, stays, or gets a better program.
LEMMA ImproveStep ==
  ASSUME TypeOK, OperationsSound, Next, NEW i \in IslandIds, NEW c \in Cells
  PROVE  \/ hash'[i][c] \in {None, hash[i][c]} \/ hash[i][c] = None
         \/ Better(i, hash'[i][c], hash[i][c])
<1> USE IslandsAssumption DEF TypeOK
<1>1. ASSUME NEW j \in IslandIds, NEW p \in Programs, Placed(j, p)
      PROVE  \/ hash'[i][c] \in {None, hash[i][c]} \/ hash[i][c] = None
             \/ Better(i, hash'[i][c], hash[i][c])
  BY <1>1 DEF Placed, Place
<1>2. ASSUME NEW j \in IslandIds, NEW ps \in SUBSET Programs, Empty(j, ps)
      PROVE  hash'[i][c] \in {None, hash[i][c]}
  BY <1>2 DEF Empty, Cleared
<1> QED BY <1>1, <1>2, ArchiveStep

-----------------------------------------------------------------------------

\* Types: the archives and the cache hold programs, the counters stay in order.
LEMMA TypeStep ==
  ASSUME TypeOK, OperationsSound, IngestorHolds, Next
  PROVE  TypeOK'
<1> USE IslandsAssumption
<1>o. op' \in [Actors -> Operation]
  BY OperationsStep DEF OperationsSound
<1>s. /\ Selecting \subseteq Actors /\ ingestor \in Actors
      /\ \A a \in Actors : Sound(op[a])
  BY DEF OperationsSound, Actors
<1>h. /\ hash' \in [IslandIds -> [Cells -> Programs \cup {None}]]
      /\ reverse' \in [IslandIds -> [Programs -> Cells \cup {None}]]
  <2> USE DEF TypeOK
  <2>1. CASE UNCHANGED <<hash, reverse>>
    BY <2>1
  <2>2. ASSUME NEW i \in IslandIds, NEW p \in Programs, Placed(i, p)
        PROVE  /\ hash' \in [IslandIds -> [Cells -> Programs \cup {None}]]
               /\ reverse' \in [IslandIds -> [Programs -> Cells \cup {None}]]
    BY <2>2 DEF Placed, Place, Unindexed
  <2>3. ASSUME NEW i \in IslandIds, NEW ps \in SUBSET Programs, Empty(i, ps)
        PROVE  /\ hash' \in [IslandIds -> [Cells -> Programs \cup {None}]]
               /\ reverse' \in [IslandIds -> [Programs -> Cells \cup {None}]]
    BY <2>3 DEF Empty, Cleared, Unindexed
  <2> QED BY <2>1, <2>2, <2>3, ArchiveStep
<1> USE <1>o, <1>h DEF TypeOK, stored, schedule, faults
<1>1. CASE Offer
  BY <1>1 DEF Offer
<1>2. CASE Reject
  BY <1>2, <1>s DEF Reject, Sound
<1>3. ASSUME NEW a \in Actors, Commit(a) PROVE TypeOK'
  <2>1. op[a].prog \in Programs /\ op[a].dest \in IslandIds
    BY <1>3, <1>s DEF Commit, Sound, Adding
  <2> DEFINE i == op[a].dest
             p == op[a].prog
             c == CellOf[i][p]
  <2>2. c \in Cells /\ hash[i][c] \in Programs \cup {None}
    BY <2>1
  <2>3. \/ cache' = [cache EXCEPT ![i][c] = hash[i][c]]
        \/ cache' = [cache EXCEPT ![i][c] = p]
    BY <1>3 DEF Commit, Occupant
  <2>4. cache' \in [IslandIds -> [Cells -> Programs \cup {None}]]
    <3> DEFINE v == hash[i][c]
    <3> HIDE DEF c, i, v
    <3>1. /\ i \in IslandIds /\ c \in Cells /\ v \in Programs \cup {None}
          /\ p \in Programs \cup {None}
      BY <2>1, <2>2 DEF i, c, v
    <3>2. CASE cache' = [cache EXCEPT ![i][c] = v]
      BY <3>1, <3>2
    <3>3. CASE cache' = [cache EXCEPT ![i][c] = p]
      BY <3>1, <3>3
    <3> QED BY <2>3, <3>2, <3>3 DEF v, c, i
  <2>5. UNCHANGED <<discarded, home, toIngest, schedule>>
    BY <1>3 DEF Commit
  <2> QED BY <2>4, <2>5
<1>4. ASSUME NEW a \in Actors, Tag(a) PROVE TypeOK'
  <2>1. op[a].prog \in Programs /\ op[a].dest \in IslandIds
    BY <1>4, <1>s DEF Tag, Sound, Adding
  <2> QED BY <1>4, <2>1 DEF Tag, MergedHome
<1>5. ASSUME NEW a \in Actors, ChooseVictims(a) \/ ReadCells(a) PROVE TypeOK'
  BY <1>5 DEF ChooseVictims, ReadCells
<1>7. ASSUME NEW a \in Actors, DeleteCells(a) PROVE TypeOK'
  <2>1. cache' = [cache EXCEPT ![op[a].dest] = Forgotten(cache[op[a].dest], op[a].victims)]
    BY <1>7 DEF DeleteCells
  <2>2. op[a].dest \in IslandIds =>
          Forgotten(cache[op[a].dest], op[a].victims) \in [Cells -> Programs \cup {None}]
    BY DEF Forgotten
  <2>3. cache' \in [IslandIds -> [Cells -> Programs \cup {None}]]
    BY <2>1, <2>2
  <2>4. UNCHANGED <<discarded, home, toIngest, schedule>>
    BY <1>7 DEF DeleteCells
  <2> QED BY <2>3, <2>4
<1>8. ASSUME NEW a \in Actors, Discard(a) PROVE TypeOK'
  <2>1. op[a].victims \subseteq Programs
    BY <1>s DEF Sound, Operation
  <2> QED BY <1>8, <2>1 DEF Discard
<1>9. ASSUME NEW a \in Selecting,
             \/ StartMigration(a) \/ NextMigrant(a) \/ MigrantsDone(a) \/ EnforceNext(a)
      PROVE  TypeOK'
  BY <1>9 DEF StartMigration, NextMigrant, MigrantsDone, EnforceNext
<1>10. ASSUME NEW a \in Selecting, NEW i \in IslandIds, Remove(a, i) PROVE TypeOK'
  <2>1. Forgotten(cache[i], {op[a].prog}) \in [Cells -> Programs \cup {None}]
    BY DEF Forgotten
  <2>2. cache' = [cache EXCEPT ![i] = Forgotten(cache[i], {op[a].prog})]
    BY <1>10 DEF Remove
  <2>3. cache' \in [IslandIds -> [Cells -> Programs \cup {None}]]
    BY <2>1, <2>2
  <2>4. UNCHANGED <<discarded, home, toIngest, schedule>>
    BY <1>10 DEF Remove
  <2> QED BY <2>3, <2>4
<1>11. ASSUME NEW a \in Selecting, LeaveSource(a) \/ Rollback(a) PROVE TypeOK'
  BY <1>10, <1>11, <1>s DEF LeaveSource, Rollback, Lookup, Sound, Adding
<1>12. ASSUME NEW a \in Selecting, FinishMigration(a) \/ Select(a) PROVE TypeOK'
  BY <1>12 DEF FinishMigration, Select
<1>13. ASSUME NEW a \in Actors, TroubleStep(a) PROVE TypeOK'
  <2>1. CASE Interrupted(a)
    BY <2>1 DEF Interrupted, Trouble
  <2>2. CASE CommitUnseen(a) \/ DeleteUnseen(a) \/ RemoveUnseen(a)
    <3>1. /\ UNCHANGED <<discarded, home, cache, toIngest, generation, lastMigration>>
          /\ Trouble
      BY <2>2 DEF CommitUnseen, DeleteUnseen, RemoveUnseen, ReplyLost
    <3>2. behind' \subseteq IslandIds
      BY <2>2, UnseenStep
    <3> QED BY <3>1, <3>2 DEF Trouble
  <2> QED BY <1>13, <2>1, <2>2 DEF TroubleStep
<1> QED BY <1>1, <1>2, <1>3, <1>4, <1>5, <1>7, <1>8, <1>9, <1>11, <1>12,
           <1>13
        DEF Next, AddStep, TrimStep, MigrationStep

\* Empty archives, nobody at work.
LEMMA IInvInit == Init => IInv
<1> SUFFICES ASSUME Init PROVE IInv
  OBVIOUS
<1>1. op \in [Actors -> Operation] /\ \A a \in Actors : Sound(op[a])
  BY IdleSound DEF Init, Sound
<1>2. TypeOK
  BY <1>1, IslandsAssumption DEF Init, TypeOK
<1>3. InOwnCell /\ ElitesAreIndexed /\ KnownAreIndexed
  BY IslandsAssumption DEF Init, InOwnCell, ElitesAreIndexed, KnownAreIndexed, Members
<1>4. IngestorHolds
  BY <1>1 DEF Init, Idle, IngestorHolds, Actors
<1> QED BY <1>1, <1>2, <1>3, <1>4 DEF IInv, OperationsSound

LEMMA IInvStep == IInv /\ [Next]_vars => IInv'
<1> SUFFICES ASSUME IInv, [Next]_vars PROVE IInv'
  OBVIOUS
<1>1. CASE Next
  BY <1>1, TypeStep, OperationsStep, IngestorStep, IndexStep, KnownStep DEF IInv
<1>2. CASE UNCHANGED vars
  BY <1>2 DEF IInv, TypeOK, OperationsSound, IngestorHolds, InOwnCell, ElitesAreIndexed, KnownAreIndexed, Members,
              vars, stored, schedule, faults
<1> QED BY <1>1, <1>2

\* The invariant is inductive.
THEOREM InductiveInvariant == Spec => []IInv
BY IInvInit, IInvStep, PTL DEF Spec

\* Every variable of the archives keeps its type.
THEOREM TypeCorrect == Spec => []TypeOK
<1>1. IInv => TypeOK
  BY DEF IInv
<1> QED BY <1>1, InductiveInvariant, PTL

\* However additions, trims, removals in two pipelines and migrations of any
\* number of tasks interleave, the reverse hash has every elite, at its cell.
THEOREM ElitesStayIndexed == Spec => []ElitesAreIndexed
<1>1. IInv => ElitesAreIndexed
  BY DEF IInv
<1> QED BY <1>1, InductiveInvariant, PTL

\* Whatever the cache holds is in the reverse hash at its cell: the trims and
\* migrations, which choose from the cache, can remove what they choose.
THEOREM KnownStayIndexed == Spec => []KnownAreIndexed
<1>1. IInv => KnownAreIndexed
  BY DEF IInv
<1> QED BY <1>1, InductiveInvariant, PTL

\* No cell ever changes from one program to another that is not better, although
\* the comparison and the commit are apart.
THEOREM CellsOnlyImprove == Spec => ElitesOnlyImprove
<1> DEFINE Improves ==
      \A i \in IslandIds, c \in Cells :
        \/ hash'[i][c] \in {None, hash[i][c]} \/ hash[i][c] = None
        \/ Better(i, hash'[i][c], hash[i][c])
<1>1. IInv /\ [Next]_vars => [Improves]_vars
  BY ImproveStep DEF IInv
<1> QED BY <1>1, InductiveInvariant, PTL DEF Spec, ElitesOnlyImprove
=============================================================================
