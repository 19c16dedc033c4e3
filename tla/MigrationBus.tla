---------------------------- MODULE MigrationBus ----------------------------
(***************************************************************************)
(* The migration bus between independent runs (gigaevo/evolution/bus).     *)
(* Runs append rejected but valid programs to one Redis stream; every run  *)
(* polls the stream from its own cursor, filters by topology, claims a     *)
(* message with SET NX, and imports what it claimed into its own storage.  *)
(* A message is its position in the stream.  What a run holds in memory    *)
(* (cursor, batch, buffer) is gone when its process ends; the stream, the  *)
(* claims and the saved cursors are in Redis.  A claim expires on its own  *)
(* after claim_ttl, whoever took the message; how often it did is kept as  *)
(* history (lapses), and the promises are stated against it.               *)
(***************************************************************************)
EXTENDS Integers, Sequences, FiniteSets, Functions

CONSTANTS
    Runs,          \* the runs that share the stream
    RingOrder,     \* the order of the runs in a ring
    Publishers,    \* bound: the runs whose strategies reject a program
    MaxMessages,   \* bound: messages ever published
    MaxStreamLen,  \* max_stream_len of the stream
    PerPoll,       \* max_consume_per_poll
    BufferSize,    \* max_buffer_size of a node
    MaxImports,    \* max_imports_per_generation
    Disturbed,     \* bound: the runs that are stopped, killed, or denied an operation
    Lapsing,       \* bound: the messages whose claim expires
    MaxTroubles,   \* bound: how often one or the other happens
    None           \* no claim

ASSUME BusAssumption ==
    /\ {MaxMessages, MaxStreamLen, PerPoll, BufferSize, MaxImports} \subseteq Nat \ {0}
    /\ MaxTroubles \in Nat
    /\ IsFiniteSet(Runs)
    /\ RingOrder \in [1 .. Len(RingOrder) -> Runs] /\ Len(RingOrder) > 1
    /\ None \notin Runs

VARIABLES
    topology,  \* the sources each run accepts, the same configuration for all
    stream,    \* the source of every message ever published
    oldest,    \* the first message XADD has not trimmed
    claims,    \* the run whose claim key stands for a message
    saved,     \* the cursor of each run in the cursors hash
    poll,      \* what each run's poll task is at
    cursor,    \* _last_id
    todo,      \* messages of the XREAD response not yet considered
    got,       \* messages claimed in this consume
    buffer,    \* _buffer
    arrivals,  \* drained messages being imported
    imports,   \* how often each message was imported, over all runs
    lapses,    \* how often the claim of each message expired
    skipped,   \* messages a run was torn away from before or at their claim
    troubles   \* how often a run was disturbed or a claim expired

bus == <<topology, stream, oldest, claims, saved>>
node == <<poll, cursor, todo, got, buffer, arrivals>>
vars == <<bus, node, imports, lapses, skipped, troubles>>

Messages == 1 .. MaxMessages
Points == {"down", "reading", "considering", "claiming", "closing", "closed"}
Up(r) == poll[r] # "down"
\* The transport is open: closing saves the cursor before it closes.
Connected(r) == poll[r] \notin {"down", "closed"}

BusTopology == [r \in Runs |-> Runs \ {r}]
RingTopology ==
    [r \in Runs |-> {RingOrder[IF i = 1 THEN Len(RingOrder) ELSE i - 1] :
                       i \in {j \in 1 .. Len(RingOrder) : RingOrder[j] = r}}]

\* Any other run's message, whatever the topology says.
Foreign(r, m) == stream[m] # r

\* consume takes a message when it is not the run's own and its topology
\* accepts the source.
Wanted(r, m) == stream[m] # r /\ stream[m] \in topology[r]

Published == 1 .. Len(stream)
Trouble(r) == r \in Disturbed /\ troubles < MaxTroubles /\ troubles' = troubles + 1
Holding(r) == got[r] \o buffer[r] \o arrivals[r]

Init ==
    /\ topology \in {BusTopology, RingTopology}
    /\ stream = <<>>
    /\ oldest = 1
    /\ claims = [m \in Messages |-> None]
    /\ saved = [r \in Runs |-> 0]
    /\ poll = [r \in Runs |-> "down"]
    /\ cursor = [r \in Runs |-> 0]
    /\ todo = [r \in Runs |-> <<>>]
    /\ got = [r \in Runs |-> <<>>]
    /\ buffer = [r \in Runs |-> <<>>]
    /\ arrivals = [r \in Runs |-> <<>>]
    /\ imports = [m \in Messages |-> 0]
    /\ lapses = [m \in Messages |-> 0]
    /\ skipped = [r \in Runs |-> {}]
    /\ troubles = 0

-----------------------------------------------------------------------------
(* Publishing: _notify_hook of a program the strategy rejected.            *)

\* XADD with an approximate MAXLEN keeps at least MaxStreamLen messages and
\* may keep more.  After the node has stopped the publish fails and is logged.
Publish(r) ==
    /\ Connected(r) /\ r \in Publishers
    /\ Len(stream) < MaxMessages
    /\ stream' = Append(stream, r)
    /\ oldest' \in {oldest} \union (oldest .. Len(stream') - MaxStreamLen + 1)
    /\ UNCHANGED <<topology, claims, saved, node, imports, lapses, skipped, troubles>>

-----------------------------------------------------------------------------
(* One poll: consume, then the buffer.                                     *)

\* XREAD returns the first messages after the cursor that are still there.
FirstUnread(r) == IF cursor[r] < oldest THEN oldest ELSE cursor[r] + 1
LastOfBatch(r) ==
    IF FirstUnread(r) + PerPoll <= Len(stream) THEN FirstUnread(r) + PerPoll - 1 ELSE Len(stream)
Batch(r) == [k \in 1 .. LastOfBatch(r) - FirstUnread(r) + 1 |-> FirstUnread(r) + k - 1]

Read(r) ==
    /\ poll[r] = "reading"
    /\ FirstUnread(r) <= Len(stream)
    /\ todo' = [todo EXCEPT ![r] = Batch(r)]
    /\ poll' = [poll EXCEPT ![r] = "considering"]
    /\ UNCHANGED <<bus, cursor, got, buffer, arrivals, imports, lapses, skipped, troubles>>

\* The cursor moves to the message before anything else is decided; a message
\* the run does not want is left unclaimed for the others.
Consider(r) ==
    /\ poll[r] = "considering"
    /\ todo[r] # <<>>
    /\ cursor' = [cursor EXCEPT ![r] = Head(todo[r])]
    /\ IF Wanted(r, Head(todo[r]))
       THEN poll' = [poll EXCEPT ![r] = "claiming"] /\ UNCHANGED todo
       ELSE todo' = [todo EXCEPT ![r] = Tail(todo[r])] /\ UNCHANGED poll
    /\ UNCHANGED <<bus, got, buffer, arrivals, imports, lapses, skipped, troubles>>

\* SET NX on the claim key: the first to set it wins.
SetNx(m, r) == claims' = IF claims[m] = None THEN [claims EXCEPT ![m] = r] ELSE claims

\* Only the run whose SET found no claim takes the envelope.
AnyAnswer(m) == m \in Messages
Won(m) == claims[m] = None

Claim(r) ==
    /\ poll[r] = "claiming"
    /\ SetNx(Head(todo[r]), r)
    /\ got' = IF Won(Head(todo[r]))
              THEN [got EXCEPT ![r] = Append(got[r], Head(todo[r]))]
              ELSE got
    /\ todo' = [todo EXCEPT ![r] = Tail(todo[r])]
    /\ poll' = [poll EXCEPT ![r] = "considering"]
    /\ UNCHANGED <<topology, stream, oldest, saved, cursor, buffer, arrivals, imports, lapses, skipped, troubles>>

\* The claim key expires claim_ttl seconds after it was set, whatever became of
\* the message; from then on a run that reads the message claims it anew.
Expire(m) ==
    /\ claims[m] # None
    /\ troubles < MaxTroubles /\ troubles' = troubles + 1
    /\ claims' = [claims EXCEPT ![m] = None]
    /\ lapses' = [lapses EXCEPT ![m] = @ + 1]
    /\ UNCHANGED <<topology, stream, oldest, saved, node, imports, skipped>>

\* The claimed envelopes enter the buffer in order; when it is full the newest
\* are dropped.  Nothing else runs in between.
Keep(s) == IF Len(s) > BufferSize THEN SubSeq(s, 1, BufferSize) ELSE s

Deliver(r) ==
    /\ poll[r] = "considering"
    /\ todo[r] = <<>>
    /\ buffer' = [buffer EXCEPT ![r] = Keep(buffer[r] \o got[r])]
    /\ got' = [got EXCEPT ![r] = <<>>]
    /\ poll' = [poll EXCEPT ![r] = "reading"]
    /\ UNCHANGED <<bus, cursor, todo, arrivals, imports, lapses, skipped, troubles>>

\* What becomes of a claim the poll task is torn out of: the command reached
\* Redis or it did not, and either way the run never asks for it again.
GiveUp(r) ==
    IF poll[r] = "claiming"
    THEN /\ \/ SetNx(Head(todo[r]), r)
            \/ UNCHANGED claims
         /\ skipped' = [skipped EXCEPT ![r] = @ \union {Head(todo[r])}]
    ELSE UNCHANGED <<claims, skipped>>

\* An error of the bus in consume: the loop logs it and polls again.  What
\* this consume had claimed is lost with its result list.
PollFails(r) ==
    /\ poll[r] = "claiming"
    /\ Trouble(r)
    /\ GiveUp(r)
    /\ poll' = [poll EXCEPT ![r] = "reading"]
    /\ todo' = [todo EXCEPT ![r] = <<>>]
    /\ got' = [got EXCEPT ![r] = <<>>]
    /\ UNCHANGED <<topology, stream, oldest, saved, cursor, buffer, arrivals, imports, lapses>>

\* An envelope that from_stream_fields cannot read ends consume in the same way,
\* the cursor being on it already.
DecodeFails(r) ==
    /\ poll[r] = "considering" /\ todo[r] # <<>>
    /\ Trouble(r)
    /\ cursor' = [cursor EXCEPT ![r] = Head(todo[r])]
    /\ skipped' = [skipped EXCEPT ![r] = @ \union {Head(todo[r])}]
    /\ poll' = [poll EXCEPT ![r] = "reading"]
    /\ todo' = [todo EXCEPT ![r] = <<>>]
    /\ got' = [got EXCEPT ![r] = <<>>]
    /\ UNCHANGED <<bus, buffer, arrivals, imports, lapses>>

PollStep(r) == Read(r) \/ Consider(r) \/ Claim(r) \/ Deliver(r)

-----------------------------------------------------------------------------
(* The drain loop: _import_bus_arrivals.                                   *)

Drain(r) ==
    /\ Up(r)
    /\ arrivals[r] = <<>> /\ buffer[r] # <<>>
    /\ \E n \in {IF Len(buffer[r]) < MaxImports THEN Len(buffer[r]) ELSE MaxImports} :
         /\ arrivals' = [arrivals EXCEPT ![r] = SubSeq(buffer[r], 1, n)]
         /\ buffer' = [buffer EXCEPT ![r] = SubSeq(buffer[r], n + 1, Len(buffer[r]))]
    /\ UNCHANGED <<bus, poll, cursor, todo, got, imports, lapses, skipped, troubles>>

\* The orphan gets a fresh id and is stored as a new program; the acceptor may
\* refuse it first, and an error of the import drops it.
Import(r) ==
    /\ Up(r)
    /\ arrivals[r] # <<>>
    /\ arrivals' = [arrivals EXCEPT ![r] = Tail(arrivals[r])]
    /\ \/ imports' = [imports EXCEPT ![Head(arrivals[r])] = @ + 1]
       \/ UNCHANGED imports
    /\ UNCHANGED <<bus, poll, cursor, todo, got, buffer, lapses, skipped, troubles>>

DrainStep(r) == Drain(r) \/ Import(r)

-----------------------------------------------------------------------------
(* Starting, stopping and being killed.                                    *)

\* A fresh process begins at "0-0" unless the cursors hash has an entry; it
\* might have begun there always, or at the end of the stream.
FromTheBeginning(r) == 0 * saved[r]
FromTheEnd(r) == Len(stream)
Restored(r) == saved[r]

Start(r) ==
    /\ poll[r] = "down"
    /\ cursor' = [cursor EXCEPT ![r] = Restored(r)]
    /\ poll' = [poll EXCEPT ![r] = "reading"]
    /\ UNCHANGED <<bus, todo, got, buffer, arrivals, imports, lapses, skipped, troubles>>

\* node.stop cancels the poll task at whatever it awaits.
CancelPoll(r) ==
    /\ poll[r] \in {"reading", "claiming"}
    /\ Trouble(r)
    /\ GiveUp(r)
    /\ poll' = [poll EXCEPT ![r] = "closing"]
    /\ todo' = [todo EXCEPT ![r] = <<>>]
    /\ got' = [got EXCEPT ![r] = <<>>]
    /\ UNCHANGED <<topology, stream, oldest, saved, cursor, buffer, arrivals, imports, lapses>>

\* The cursor is what is saved, not where the stream ends by then.
StreamEnd(r) == Len(stream)
Position(r) == cursor[r]

SaveCursor(r) ==
    /\ poll[r] = "closing"
    /\ saved' = [saved EXCEPT ![r] = Position(r)]
    /\ poll' = [poll EXCEPT ![r] = "closed"]
    /\ UNCHANGED <<topology, stream, oldest, claims, cursor, todo, got, buffer, arrivals, imports, lapses, skipped, troubles>>

\* Redis refuses the cursor: engine.stop logs it and goes on stopping.
SaveFails(r) ==
    /\ poll[r] = "closing"
    /\ Trouble(r)
    /\ poll' = [poll EXCEPT ![r] = "closed"]
    /\ UNCHANGED <<bus, cursor, todo, got, buffer, arrivals, imports, lapses, skipped>>

\* What was in memory is gone.
Forget(r) ==
    /\ poll' = [poll EXCEPT ![r] = "down"]
    /\ cursor' = [cursor EXCEPT ![r] = 0]
    /\ todo' = [todo EXCEPT ![r] = <<>>]
    /\ got' = [got EXCEPT ![r] = <<>>]
    /\ buffer' = [buffer EXCEPT ![r] = <<>>]
    /\ arrivals' = [arrivals EXCEPT ![r] = <<>>]

\* The engine cancels the drain task and the process ends.
Exit(r) ==
    /\ poll[r] = "closed"
    /\ Forget(r)
    /\ UNCHANGED <<bus, imports, lapses, skipped, troubles>>

\* A kill leaves the saved cursor behind: the next start reads again what this
\* one had read, and an interrupted claim is tried again.
Kill(r) ==
    /\ Up(r)
    /\ Trouble(r)
    /\ \/ poll[r] = "claiming" /\ SetNx(Head(todo[r]), r)
       \/ UNCHANGED claims
    /\ Forget(r)
    /\ UNCHANGED <<topology, stream, oldest, saved, imports, lapses, skipped>>

StopStep(r) == SaveCursor(r) \/ Exit(r)

Next ==
    \/ \E r \in Runs : \/ Publish(r) \/ PollStep(r) \/ DrainStep(r)
                       \/ PollFails(r) \/ DecodeFails(r) \/ Start(r) \/ CancelPoll(r)
                       \/ StopStep(r) \/ SaveFails(r) \/ Kill(r)
    \/ \E m \in Messages \intersect Lapsing : Expire(m)

\* A run goes on with what it is at: its poll task, a stop that has begun, or
\* its restart, one after the other.
Fairness == \A r \in Runs : WF_vars(PollStep(r) \/ StopStep(r) \/ Start(r))

Spec == Init /\ [][Next]_vars /\ Fairness

-----------------------------------------------------------------------------
(* Properties.                                                             *)

TypeOK ==
    /\ topology \in [Runs -> SUBSET Runs]
    /\ stream \in Seq(Runs) /\ Len(stream) <= MaxMessages
    /\ oldest \in 1 .. MaxMessages
    /\ claims \in [Messages -> Runs \union {None}]
    /\ saved \in [Runs -> 0 .. MaxMessages]
    /\ poll \in [Runs -> Points]
    /\ cursor \in [Runs -> 0 .. MaxMessages]
    /\ {todo, got, buffer, arrivals} \subseteq [Runs -> Seq(Messages)]
    /\ imports \in [Messages -> Nat]
    /\ lapses \in [Messages -> Nat]
    /\ skipped \in [Runs -> SUBSET Messages]
    /\ troubles \in 0 .. MaxTroubles
    /\ \A r \in Runs : Len(buffer[r]) <= BufferSize /\ Len(arrivals[r]) <= MaxImports

\* Every import was bought with a claim of its own: over all runs and all their
\* restarts a message is imported, or in the hands of a run that may yet import
\* it, at most once more than its claim expired; while the claim has not
\* expired only the run it names has the message, and no run ever has it twice
\* in one life.  Stale cursors, kills and lost batches read a message again
\* without handing it out again.
TimesClaimed(m) == lapses[m] + (IF claims[m] = None THEN 0 ELSE 1)
Holders(m) == {r \in Runs : m \in Range(Holding(r))}
ImportedOnce ==
    /\ \A m \in Messages : imports[m] + Cardinality(Holders(m)) <= TimesClaimed(m)
    /\ \A r \in Runs : /\ IsInjective(Holding(r))
                       /\ \A m \in Range(Holding(r)) : lapses[m] = 0 => claims[m] = r

\* Nobody takes a message away from the run it is meant for: whoever holds a
\* claim is a run whose topology accepts the message's source.
ClaimedByConsumer ==
    \A m \in Messages : claims[m] # None => m \in Published /\ stream[m] \in topology[claims[m]]

\* The cursor hides nothing: a message behind a run's cursor, in memory or
\* saved, that the run wants was claimed by somebody, unless it was trimmed
\* first or the run was torn away from it.
EverClaimed(m) == TimesClaimed(m) > 0
NothingSkipped ==
    \A r \in Runs : \A m \in Published :
        /\ (m <= cursor[r] \/ m <= saved[r])
        /\ Wanted(r, m) /\ m >= oldest
        /\ ~(poll[r] = "claiming" /\ m = Head(todo[r]))
        => EverClaimed(m) \/ m \in skipped[r]

\* A stop after a short or interrupted life never moves the saved cursor back.
SavedCursorAdvances == [][\A r \in Runs : saved'[r] >= saved[r]]_vars

\* Through stops, kills and failed polls, all that was published is claimed in
\* the end, unless nobody wants it, the stream dropped it, or a run gave it up.
EventuallyTaken ==
    <>[] \A m \in Published :
            (\E r \in Runs : Wanted(r, m)) =>
                EverClaimed(m) \/ m < oldest \/ \E r \in Runs : m \in skipped[r]
=============================================================================
