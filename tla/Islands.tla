------------------------------ MODULE Islands ------------------------------
(***************************************************************************)
(* The elite archives of several islands: RedisArchiveStorage (a hash of   *)
(* cells, a reverse hash and an in-memory cache per island), the insertion *)
(* and trimming of MapElitesIsland, and the migration that                 *)
(* MapElitesMultiIsland starts from select_elites.                         *)
(*                                                                         *)
(* The ingestor inserts finished programs, one at a time; every mutant     *)
(* task that selects parents may find a migration due, with no lock that   *)
(* keeps two of them apart.  A step is one transaction or pipeline on      *)
(* Redis with the code after its reply: replies are handled in the order   *)
(* they are sent, and no transaction on the archive hash can be watched    *)
(* and executed between an operation on it and the handling of its reply.  *)
(* Any operation may be given up between two steps, by an error or because *)
(* its task is cancelled; when its reply is lost it took effect, and is    *)
(* given up then or repeated by RedisConnection.execute.                   *)
(* Behaviour spaces are static, so a program has one cell per island.      *)
(***************************************************************************)
EXTENDS Integers, FiniteSets, FiniteSetsExt

CONSTANTS
  Programs,
  IslandIds,
  Cells,
  CellOf,        \* get_cell: [IslandIds -> [Programs -> Cells]]
  Score,         \* what archive_selector and archive_remover compare
  MaxSize,       \* max_size of each island, or Unlimited
  Selecting,     \* mutant tasks that select parents
  Interval,      \* migration_interval
  MaxMigrants,   \* max_migrants_per_island
  MaxGeneration, \* bound: selections in one behaviour
  MaxTroubles    \* bound: errors, cancellations and lost replies

None == "none"
Absent == "absent"  \* a metadata key the blob does not have
Unlimited == -1
ingestor == "ingestor"
Actors == Selecting \cup {ingestor}

ASSUME IslandsAssumption ==
  /\ IsFiniteSet(Programs) /\ IsFiniteSet(IslandIds) /\ IsFiniteSet(Cells)
  /\ {None, Absent} \cap (Programs \cup IslandIds \cup Cells) = {}
  /\ ingestor \notin Selecting
  /\ CellOf \in [IslandIds -> [Programs -> Cells]]
  /\ Score \in [IslandIds -> [Programs -> Int]]
  /\ MaxSize \in [IslandIds -> (Nat \ {0}) \cup {Unlimited}] /\ Interval \in Nat \ {0}
  /\ MaxMigrants \in Nat /\ MaxGeneration \in Nat /\ MaxTroubles \in Nat

VARIABLES
  hash,       \* prefix:archive of each island
  reverse,    \* prefix:archive:reverse
  cache,      \* _elite_cache
  discarded,  \* programs whose stored state is DISCARDED
  home,       \* the stored metadata "current_island"
  toIngest,   \* finished programs the ingestor has not offered yet
  op,         \* what each actor is doing
  generation, lastMigration,
  troubles,   \* errors, cancellations and lost replies so far
  behind      \* history: islands whose cache has missed a change

stored == <<hash, reverse, discarded, home>>
faults == <<troubles, behind>>
schedule == <<generation, lastMigration, faults>>
vars == <<stored, cache, toIngest, op, schedule>>

-----------------------------------------------------------------------------

\* What an actor does: its point, the program and the island of its add, the
\* occupant the check saw, where the migrant comes from, the trim's victims,
\* those of them whose cell was found, migrants and islands still to handle.
Points == {"idle", "commit", "tag", "reject", "size", "cells", "delete", "discard",
           "next", "leave", "leaving", "rollback", "rolling", "enforce", "ready"}
Operation ==
  [at : Points, prog : Programs \cup {None}, dest : IslandIds \cup {None},
   elite : Programs \cup {None}, from : IslandIds \cup {None, Absent},
   victims : SUBSET Programs, found : SUBSET Programs,
   todo : SUBSET [prog : Programs, from : IslandIds \cup {None, Absent}, listed : IslandIds],
   islands : SUBSET IslandIds]
Idle == [at |-> "idle", prog |-> None, dest |-> None, elite |-> None, from |-> Absent,
         victims |-> {}, found |-> {}, todo |-> {}, islands |-> {}]

Members(place, i) == {p \in Programs : place[i][CellOf[i][p]] = p}
Size(place, i) == Cardinality({c \in Cells : place[i][c] # None})
Better(i, p, q) == Score[i][p] > Score[i][q]  \* archive_selector is strict

\* _can_accept_program, and the check of add_elite, both against the cache.
Accepts(i, p) == LET e == cache[i][CellOf[i][p]] IN e = None \/ Better(i, p, e)
Compatible(p, candidates) == {i \in candidates : Accepts(i, p)}

Limited == {i \in IslandIds : MaxSize[i] # Unlimited}
TooLarge(i) == i \in Limited /\ Size(hash, i) > MaxSize[i]

\* archive_remover: the worst ones beyond max_size.
Surplus(i) == Max({0, Cardinality(Members(cache, i)) - MaxSize[i]})
Excess(i) ==
  {v \in SUBSET Members(cache, i) :
     /\ Cardinality(v) = Surplus(i)
     /\ \A p \in v : \A q \in Members(cache, i) \ v : Score[i][p] <= Score[i][q]}

\* The cells of programs ps in one island, emptied whoever is in them.
Cleared(cells, i, ps) ==
  [c \in Cells |-> IF c \in {CellOf[i][p] : p \in ps} THEN None ELSE cells[c]]
\* _cache_remove_id: only cells that hold one of ps.
Remembered(cells, ps) == cells
Forgotten(cells, ps) == [c \in Cells |-> IF cells[c] \in ps THEN None ELSE cells[c]]
UnindexedAll(ids, ps) == [p \in Programs |-> None]
Unindexed(ids, ps) == [p \in Programs |-> IF p \in ps THEN None ELSE ids[p]]

Becomes(a, o) == op' = [op EXCEPT ![a] = o]
Goto(a, point) == Becomes(a, [op[a] EXCEPT !.at = point])
ToNext(a) == Becomes(a, [Idle EXCEPT !.at = "next", !.todo = op[a].todo])

Init ==
  /\ hash = [i \in IslandIds |-> [c \in Cells |-> None]]
  /\ reverse = [i \in IslandIds |-> [p \in Programs |-> None]]
  /\ cache = hash
  /\ discarded = {} /\ toIngest = Programs
  /\ home = [p \in Programs |-> Absent]
  /\ op = [a \in Actors |-> Idle]
  /\ generation = 0 /\ lastMigration = 0
  /\ troubles = 0 /\ behind = {}

-----------------------------------------------------------------------------
(* Adding a program to an island *)

\* The route, island.add and the check of add_elite run without suspension up
\* to the test that the program exists.
RouteTo(a, o, p, candidates) ==
  \E i \in Compatible(p, candidates) :
    Becomes(a, [o EXCEPT !.at = "commit", !.prog = p, !.dest = i,
                         !.elite = cache[i][CellOf[i][p]]])

Offer ==
  /\ op[ingestor].at = "idle"
  /\ \E p \in toIngest :
       /\ toIngest' = toIngest \ {p}
       /\ \/ RouteTo(ingestor, Idle, p, IslandIds)
          \/ /\ Compatible(p, IslandIds) = {}
             /\ Becomes(ingestor, [Idle EXCEPT !.at = "reject", !.prog = p])
  /\ UNCHANGED <<stored, cache, schedule>>

\* The batch transition of the ingestor.
Reject ==
  /\ op[ingestor].at = "reject"
  /\ discarded' = discarded \cup {op[ingestor].prog}
  /\ Becomes(ingestor, Idle)
  /\ UNCHANGED <<hash, reverse, home, cache, toIngest, schedule>>

\* The WATCHed transaction of add_elite, and _cache_set.  An occupant that the
\* check did not see is loaded and compared.
NeverRefuses(o, occupant) == occupant = o.elite /\ occupant # None /\ o.prog = occupant
Refuses(o, occupant) ==
  occupant \notin {None, o.elite} /\ ~Better(o.dest, o.prog, occupant)

Occupant(o) == hash[o.dest][CellOf[o.dest][o.prog]]

\* What the two kinds of transactions do in Redis.
Place(i, p) ==
  LET c == CellOf[i][p] IN
  /\ hash' = [hash EXCEPT ![i][c] = p]
  /\ reverse' = [reverse EXCEPT ![i] = [Unindexed(@, {hash[i][c]}) EXCEPT ![p] = c]]
Empty(i, ps) ==
  /\ hash' = [hash EXCEPT ![i] = Cleared(@, i, ps)]
  /\ reverse' = [reverse EXCEPT ![i] = Unindexed(@, ps)]

Commit(a) ==
  LET o == op[a]
      c == CellOf[o.dest][o.prog]
      occupant == Occupant(o) IN
  /\ o.at = "commit"
  /\ \/ /\ Refuses(o, occupant)
        /\ cache' = [cache EXCEPT ![o.dest][c] = occupant]
        /\ IF a = ingestor THEN Goto(a, "reject") ELSE ToNext(a)
        /\ UNCHANGED <<hash, reverse>>
     \/ /\ ~Refuses(o, occupant)
        /\ Place(o.dest, o.prog)
        /\ cache' = [cache EXCEPT ![o.dest][c] = o.prog]
        /\ Becomes(a, [o EXCEPT !.at = "tag", !.elite = None])
  /\ UNCHANGED <<discarded, home, toIngest, schedule>>

\* Once trimmed: a trim follows an add, or is one of those after a migration.
Trimmed(a) ==
  Becomes(a, CASE a = ingestor -> Idle
               [] a # ingestor /\ op[a].prog = None ->
                    [op[a] EXCEPT !.at = "enforce", !.dest = None, !.victims = {}]
               [] a # ingestor /\ op[a].prog # None ->
                    [op[a] EXCEPT !.at = "leave", !.victims = {}])

\* update_program merges the copy into the blob; the copy is never newer than
\* the blob, so a key that the blob has keeps its value.
MergedHome(p, i) == IF home[p] = Absent THEN i ELSE home[p]

Tag(a) ==
  LET o == op[a] IN
  /\ o.at = "tag"
  /\ home' = [home EXCEPT ![o.prog] = MergedHome(o.prog, o.dest)]
  /\ IF o.dest \in Limited THEN Goto(a, "size") ELSE Trimmed(a)
  /\ UNCHANGED <<hash, reverse, discarded, cache, toIngest, schedule>>

-----------------------------------------------------------------------------
(* Trimming an island: _enforce_size_limit *)

\* The stored size decides whether to trim, the cached elites what goes.
ChooseVictims(a) ==
  LET i == op[a].dest IN
  /\ op[a].at = "size"
  /\ \/ (~TooLarge(i) \/ Excess(i) = {{}}) /\ Trimmed(a)
     \/ /\ TooLarge(i)
        /\ \E v \in Excess(i) \ {{}} :
             Becomes(a, [op[a] EXCEPT !.at = "cells", !.victims = v])
  /\ UNCHANGED <<stored, cache, toIngest, schedule>>

\* bulk_remove_elites_by_id: one pipeline reads the cells, a second deletes
\* them, whoever is in them by then; the cache forgets all victims unless no
\* cell was found.
ReadCells(a) ==
  LET o == op[a]
      found == {p \in o.victims : reverse[o.dest][p] # None} IN
  /\ o.at = "cells"
  /\ Becomes(a, [o EXCEPT !.at = IF found = {} THEN "discard" ELSE "delete",
                          !.found = found])
  /\ UNCHANGED <<stored, cache, toIngest, schedule>>

DeleteCells(a) ==
  LET o == op[a] IN
  /\ o.at = "delete"
  /\ Empty(o.dest, o.found)
  /\ cache' = [cache EXCEPT ![o.dest] = Forgotten(@, o.victims)]
  /\ Becomes(a, [o EXCEPT !.at = "discard", !.found = {}])
  /\ UNCHANGED <<discarded, home, toIngest, schedule>>

\* Every victim is written whole, removed or not: DISCARDED, without an island.
Discard(a) ==
  /\ op[a].at = "discard"
  /\ discarded' = discarded \cup op[a].victims
  /\ home' = [p \in Programs |-> IF p \in op[a].victims THEN None ELSE home[p]]
  /\ Trimmed(a)
  /\ UNCHANGED <<hash, reverse, cache, toIngest, schedule>>

-----------------------------------------------------------------------------
(* Selecting parents, and migration *)

Due == generation - lastMigration >= Interval

\* The migrants of an island are copies, with the island they have recorded.
Migrants(i) ==
  {[prog |-> p, from |-> home[p], listed |-> i] : p \in Members(cache, i)}
Selections(i) ==
  {m \in SUBSET Migrants(i) : Cardinality(m) = Min({MaxMigrants, Cardinality(Migrants(i))})}

StartMigration(a) ==
  /\ op[a].at = "idle" /\ Due
  /\ \E migrants \in SUBSET UNION {Migrants(i) : i \in IslandIds} :
       /\ \A i \in IslandIds : {m \in migrants : m.listed = i} \in Selections(i)
       /\ Becomes(a, [op[a] EXCEPT !.at = "next", !.todo = migrants])
  /\ UNCHANGED <<stored, cache, toIngest, schedule>>

\* The next migrant, in any order, goes to a compatible island other than the
\* one it has recorded, or nowhere.
NextMigrant(a) ==
  /\ op[a].at = "next"
  /\ \E m \in op[a].todo :
       LET o == [Idle EXCEPT !.at = "next", !.todo = op[a].todo \ {m}] IN
       \/ RouteTo(a, [o EXCEPT !.from = m.from], m.prog, IslandIds \ {m.from})
       \/ Compatible(m.prog, IslandIds \ {m.from}) = {} /\ Becomes(a, o)
  /\ UNCHANGED <<stored, cache, toIngest, schedule>>

\* remove_elite_by_id from island i: look up, then delete.
Lookup(a, i, yes, no) ==
  /\ \/ reverse[i][op[a].prog] # None /\ Goto(a, yes)
     \/ reverse[i][op[a].prog] = None /\ IF no = "next" THEN ToNext(a) ELSE Goto(a, no)
  /\ UNCHANGED <<stored, cache, toIngest, schedule>>

Remove(a, i) ==
  /\ Empty(i, {op[a].prog})
  /\ cache' = [cache EXCEPT ![i] = Forgotten(@, {op[a].prog})]
  /\ ToNext(a)
  /\ UNCHANGED <<discarded, home, toIngest, schedule>>

\* The migrant was added: it leaves its source, or, when it is not there any
\* more, its destination again.
LeaveSource(a) ==
  LET o == op[a] IN
  \/ /\ o.at = "leave" /\ o.from \notin IslandIds
     /\ ToNext(a) /\ UNCHANGED <<stored, cache, toIngest, schedule>>
  \/ o.at = "leave" /\ o.from \in IslandIds /\ Lookup(a, o.from, "leaving", "rollback")
  \/ o.at = "leaving" /\ Remove(a, o.from)

Rollback(a) ==
  LET o == op[a] IN
  \/ o.at = "rollback" /\ Lookup(a, o.dest, "rolling", "next")
  \/ o.at = "rolling" /\ Remove(a, o.dest)

MigrantsDone(a) ==
  /\ op[a].at = "next" /\ op[a].todo = {}
  /\ Becomes(a, [Idle EXCEPT !.at = "enforce", !.islands = Limited])
  /\ UNCHANGED <<stored, cache, toIngest, schedule>>

\* _enforce_all_island_size_limits: the islands share nothing, so the order in
\* which their tasks run does not matter.
EnforceNext(a) ==
  /\ op[a].at = "enforce"
  /\ \E i \in op[a].islands :
       Becomes(a, [op[a] EXCEPT !.at = "size", !.dest = i, !.islands = @ \ {i}])
  /\ UNCHANGED <<stored, cache, toIngest, schedule>>

FinishMigration(a) ==
  /\ op[a].at = "enforce" /\ op[a].islands = {}
  /\ lastMigration' = generation
  /\ Goto(a, "ready")
  /\ UNCHANGED <<stored, cache, toIngest, generation, faults>>

\* Elites are selected; the selection counts if there are any.
Select(a) ==
  /\ op[a].at = "ready" \/ (op[a].at = "idle" /\ ~Due)
  /\ IF \E i \in IslandIds : Members(cache, i) # {}
     THEN generation < MaxGeneration /\ generation' = generation + 1
     ELSE UNCHANGED generation
  /\ Becomes(a, Idle)
  /\ UNCHANGED <<stored, cache, toIngest, lastMigration, faults>>

-----------------------------------------------------------------------------
(* Errors, cancellation, repeated operations *)

\* A migration ends with the selection it is part of, which is not counted; a
\* program whose add fails is rejected by the ingestor.
Trouble == troubles < MaxTroubles /\ troubles' = troubles + 1

GiveUp(a) ==
  Becomes(a, IF a = ingestor
             THEN [Idle EXCEPT !.at = "reject", !.prog = op[a].prog] ELSE Idle)

Interrupted(a) ==
  /\ op[a].at \notin {"idle", "next", "enforce"}
  /\ a = ingestor => op[a].at \notin {"reject", "discard"}
  /\ GiveUp(a) /\ Trouble
  /\ UNCHANGED <<stored, cache, toIngest, generation, lastMigration, behind>>

\* execute calls its function again from the start; a cancelled or failed one
\* is not.  The cache learns nothing either way.
ReplyLost(a, i, point) ==
  /\ Goto(a, point) \/ GiveUp(a)
  /\ Trouble /\ behind' = behind \cup {i}
  /\ UNCHANGED <<discarded, home, cache, toIngest, generation, lastMigration>>

CommitUnseen(a) ==
  LET o == op[a] IN
  /\ o.at = "commit" /\ ~Refuses(o, Occupant(o))
  /\ Place(o.dest, o.prog)
  /\ ReplyLost(a, o.dest, "commit")

DeleteUnseen(a) ==
  /\ op[a].at = "delete"
  /\ Empty(op[a].dest, op[a].found)
  /\ ReplyLost(a, op[a].dest, "cells")

RemoveUnseen(a) ==
  LET o == op[a] IN
  \/ o.at = "leaving" /\ Empty(o.from, {o.prog}) /\ ReplyLost(a, o.from, "leave")
  \/ o.at = "rolling" /\ Empty(o.dest, {o.prog}) /\ ReplyLost(a, o.dest, "rollback")

-----------------------------------------------------------------------------

AddStep(a) == Commit(a) \/ Tag(a)
TroubleStep(a) == Interrupted(a) \/ CommitUnseen(a) \/ DeleteUnseen(a) \/ RemoveUnseen(a)
TrimStep(a) == ChooseVictims(a) \/ ReadCells(a) \/ DeleteCells(a) \/ Discard(a)
MigrationStep(a) ==
  \/ NextMigrant(a) \/ LeaveSource(a) \/ Rollback(a) \/ MigrantsDone(a)
  \/ EnforceNext(a) \/ FinishMigration(a)

Next ==
  \/ Offer \/ Reject
  \/ \E a \in Actors : AddStep(a) \/ TrimStep(a) \/ TroubleStep(a)
  \/ \E a \in Selecting :
       StartMigration(a) \/ MigrationStep(a) \/ Select(a)

Spec == Init /\ [][Next]_vars

-----------------------------------------------------------------------------
(* Properties *)

TypeOK ==
  /\ hash \in [IslandIds -> [Cells -> Programs \cup {None}]]
  /\ cache \in [IslandIds -> [Cells -> Programs \cup {None}]]
  /\ reverse \in [IslandIds -> [Programs -> Cells \cup {None}]]
  /\ discarded \subseteq Programs /\ toIngest \subseteq Programs
  /\ home \in [Programs -> IslandIds \cup {None, Absent}]
  /\ op \in [Actors -> Operation]
  /\ generation \in 0 .. MaxGeneration /\ lastMigration \in 0 .. generation
  /\ troubles \in 0 .. MaxTroubles /\ behind \subseteq IslandIds

\* Every elite in storage can be found by its id, so it can be removed, however
\* additions, trims and migrations of several tasks interleave.
ElitesAreIndexed ==
  \A i \in IslandIds : \A p \in Members(hash, i) : reverse[i][p] = CellOf[i][p]

\* Every elite in the cache has its cell in the reverse hash: whatever a trim picks
\* from the cache, or a migration takes along, can be removed from storage, although
\* other tasks replace, remove and re-add elites between its steps, or are stopped
\* half-way.  Only a reply that was lost leaves the cache of its island behind
\* (_cache_set, _cache_remove_id, bulk_remove_elites_by_id).
KnownAreIndexed ==
  \A i \in IslandIds \ behind : \A p \in Members(cache, i) : reverse[i][p] = CellOf[i][p]

\* A cell changes hands only to a better program, also when the check was made
\* against an occupant that has changed since.
ElitesOnlyImprove ==
  [][\A i \in IslandIds, c \in Cells :
       \/ hash'[i][c] \in {None, hash[i][c]} \/ hash[i][c] = None
       \/ Better(i, hash'[i][c], hash[i][c])]_vars

\* An elite leaves the archive because a better one takes a cell of its or because
\* a trim chose it; a migration only moves it.  Not kept by the code: README,
\* "What the code does not keep".
Archived(p) == \E i \in IslandIds : p \in Members(hash, i)
EliteSurvives ==
  [][\A p \in Programs :
       Archived(p) => \/ Archived(p)'
                      \/ \E i \in IslandIds : LET q == hash'[i][CellOf[i][p]] IN
                           q # None /\ Better(i, q, p)
                      \/ \E a \in Actors : p \in op[a].victims]_vars

\* No operation that may still change the size of an island is under way.
Settled(i) ==
  \A a \in Actors : op[a].at \in {"idle", "commit", "reject", "ready"} \/ op[a].dest # i

\* Between additions an island keeps to its limit (_enforce_size_limit).  Not kept
\* when tasks overlap, from four programs on: README, "What the code does not keep".
SizeIsLimited == \A i \in IslandIds : Settled(i) => ~TooLarge(i)

\* Between migrations, an elite is recorded to be in an island it is in: the next
\* migration takes it from there (add's current_island metadata).  Not kept by the
\* code: README, "What the code does not keep".
HomeIsTrue ==
  (\A a \in Actors : op[a].at \in {"idle", "ready"}) =>
    \A i \in IslandIds : \A p \in Members(hash, i) :
      home[p] \in IslandIds /\ p \in Members(hash, home[p])
=============================================================================
