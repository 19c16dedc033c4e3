-------------------------- MODULE MigrationBusProofs --------------------------
(***************************************************************************)
(* Proofs about the migration bus, for any number of runs and messages,    *)
(* any topology of the model, any limits, and any number of stops, kills   *)
(* and failed operations.                                                  *)
(*                                                                         *)
(* A batch is an interval of the stream that starts after the cursor, and  *)
(* what lies between was trimmed (BatchesAhead); so the cursor only moves  *)
(* forward, hides nothing, and stays ahead of the saved one.  What a run   *)
(* holds lies behind its cursor (HeldBehind), so a claim it wins is for a  *)
(* message it does not hold, and it is in one place (HeldOnce); every      *)
(* claim won puts one more in somebody's hands, every import takes one out *)
(* of them, and an expiry changes neither (HeldIsClaimed).                 *)
(***************************************************************************)
EXTENDS MigrationBus, FiniteSetTheorems, TLAPS

\* The parts of TypeOK one by one.
Typed ==
    /\ topology \in [Runs -> SUBSET Runs]
    /\ stream \in Seq(Runs) /\ Len(stream) <= MaxMessages
    /\ oldest \in 1 .. MaxMessages
    /\ claims \in [Messages -> Runs \union {None}]
    /\ saved \in [Runs -> 0 .. MaxMessages]
    /\ poll \in [Runs -> Points]
    /\ cursor \in [Runs -> 0 .. MaxMessages]
    /\ todo \in [Runs -> Seq(Messages)] /\ got \in [Runs -> Seq(Messages)]
    /\ buffer \in [Runs -> Seq(Messages)] /\ arrivals \in [Runs -> Seq(Messages)]
    /\ imports \in [Messages -> Nat] /\ lapses \in [Messages -> Nat]
    /\ skipped \in [Runs -> SUBSET Messages]
    /\ troubles \in 0 .. MaxTroubles

\* A step of one run; the others are the expiries of claims.
RunStep(r) ==
    \/ Publish(r) \/ PollStep(r) \/ DrainStep(r) \/ PollFails(r) \/ DecodeFails(r)
    \/ Start(r) \/ CancelPoll(r) \/ StopStep(r) \/ SaveFails(r) \/ Kill(r)

Bounded == \A r \in Runs : Len(buffer[r]) <= BufferSize /\ Len(arrivals[r]) <= MaxImports

\* The messages of a batch follow each other, up to the end of the stream.
Consecutive(s) ==
    /\ \A k \in 1 .. Len(s) : s[k] = s[1] + k - 1
    /\ Len(s) > 0 => s[1] + Len(s) - 1 <= Len(stream)

\* The batch begins after the cursor, and what lies between has been trimmed;
\* the message being claimed is the one the cursor is at.
BatchesAhead ==
    \A r \in Runs :
        /\ poll[r] \in {"considering", "claiming"} => Consecutive(todo[r])
        /\ poll[r] = "considering" /\ todo[r] # <<>> =>
             cursor[r] < todo[r][1] /\ \A m \in Published : cursor[r] < m /\ m < todo[r][1] => m < oldest
        /\ poll[r] = "claiming" =>
             /\ todo[r] # <<>> /\ todo[r][1] = cursor[r] /\ saved[r] < cursor[r]
             /\ Wanted(r, cursor[r])

CursorsOrdered ==
    \A r \in Runs : /\ cursor[r] <= Len(stream) /\ saved[r] <= Len(stream)
                    /\ Up(r) => saved[r] <= cursor[r]

Held(r) == Range(got[r]) \union Range(buffer[r]) \union Range(arrivals[r])

HeldBehind ==
    \A r \in Runs :
        /\ poll[r] = "down" => Held(r) = {}
        /\ \A m \in Held(r) : m <= cursor[r] /\ (poll[r] = "claiming" => m # cursor[r])

HoldersOf(m) == {r \in Runs : m \in Held(r)}
HeldIsClaimed ==
    /\ \A m \in Messages : imports[m] + Cardinality(HoldersOf(m)) <= TimesClaimed(m)
    /\ \A r \in Runs : \A m \in Held(r) : lapses[m] = 0 => claims[m] = r

HeldOnce ==
    \A r \in Runs :
        /\ IsInjective(got[r]) /\ IsInjective(buffer[r]) /\ IsInjective(arrivals[r])
        /\ Range(got[r]) \intersect Range(buffer[r]) = {}
        /\ Range(got[r]) \intersect Range(arrivals[r]) = {}
        /\ Range(buffer[r]) \intersect Range(arrivals[r]) = {}

IInv ==
    /\ Typed /\ Bounded /\ BatchesAhead /\ CursorsOrdered
    /\ ClaimedByConsumer /\ NothingSkipped /\ HeldBehind /\ HeldOnce /\ HeldIsClaimed

-----------------------------------------------------------------------------
(* Sequences without repetition *)

LEMMA AppendOnce ==
    ASSUME NEW S, NEW s \in Seq(S), NEW m \in S, IsInjective(s), m \notin Range(s)
    PROVE  IsInjective(Append(s, m)) /\ Range(Append(s, m)) = Range(s) \union {m}
BY DEF IsInjective, Range

LEMMA ConcatOnce ==
    ASSUME NEW S, NEW s \in Seq(S), NEW t \in Seq(S), IsInjective(s), IsInjective(t),
           Range(s) \intersect Range(t) = {}
    PROVE  IsInjective(s \o t) /\ Range(s \o t) = Range(s) \union Range(t)
<1>1. /\ s \o t \in Seq(S) /\ DOMAIN (s \o t) = 1 .. Len(s) + Len(t)
      /\ DOMAIN s = 1 .. Len(s) /\ DOMAIN t = 1 .. Len(t)
      /\ Len(s) \in Nat /\ Len(t) \in Nat
    OBVIOUS
<1>2. \A k \in 1 .. Len(s) + Len(t) :
        (s \o t)[k] = IF k <= Len(s) THEN s[k] ELSE t[k - Len(s)]
    OBVIOUS
<1>3. \A k \in 1 .. Len(s) : s[k] \in Range(s)
    BY DEF Range
<1>4. \A k \in 1 .. Len(t) : t[k] \in Range(t)
    BY DEF Range
<1>5. ASSUME NEW i \in 1 .. Len(s) + Len(t), NEW j \in 1 .. Len(s) + Len(t),
             (s \o t)[i] = (s \o t)[j]
      PROVE  i = j
    BY <1>1, <1>2, <1>3, <1>4, <1>5 DEF IsInjective
<1>6. Range(s \o t) \subseteq Range(s) \union Range(t)
    BY <1>1, <1>2, <1>3, <1>4 DEF Range
<1>7. Range(s) \subseteq Range(s \o t)
    BY <1>1, <1>2 DEF Range
<1>8. Range(t) \subseteq Range(s \o t)
    <2> SUFFICES ASSUME NEW k \in 1 .. Len(t) PROVE t[k] \in Range(s \o t)
        BY <1>1 DEF Range
    <2>1. k + Len(s) \in 1 .. Len(s) + Len(t) /\ (s \o t)[k + Len(s)] = t[k]
        BY <1>1, <1>2
    <2> QED BY <1>1, <2>1 DEF Range
<1> QED BY <1>1, <1>5, <1>6, <1>7, <1>8 DEF IsInjective

LEMMA PartOnce ==
    ASSUME NEW S, NEW s \in Seq(S), IsInjective(s), NEW n \in 0 .. Len(s)
    PROVE  /\ SubSeq(s, 1, n) \in Seq(S) /\ Len(SubSeq(s, 1, n)) = n
           /\ SubSeq(s, n + 1, Len(s)) \in Seq(S) /\ Len(SubSeq(s, n + 1, Len(s))) = Len(s) - n
           /\ IsInjective(SubSeq(s, 1, n)) /\ IsInjective(SubSeq(s, n + 1, Len(s)))
           /\ Range(SubSeq(s, 1, n)) \subseteq Range(s)
           /\ Range(SubSeq(s, n + 1, Len(s))) \subseteq Range(s)
           /\ Range(SubSeq(s, 1, n)) \intersect Range(SubSeq(s, n + 1, Len(s))) = {}
<1> DEFINE p == SubSeq(s, 1, n)
           q == SubSeq(s, n + 1, Len(s))
<1>1. /\ p \in Seq(S) /\ Len(p) = n /\ DOMAIN p = 1 .. n
      /\ \A k \in 1 .. n : p[k] = s[k]
    OBVIOUS
<1>2. /\ q \in Seq(S) /\ Len(q) = Len(s) - n /\ DOMAIN q = 1 .. Len(s) - n
      /\ \A k \in 1 .. Len(s) - n : q[k] = s[k + n]
    OBVIOUS
<1>3. DOMAIN s = 1 .. Len(s) /\ Len(s) \in Nat /\ n \in Nat /\ n <= Len(s)
    OBVIOUS
<1> HIDE DEF p, q
<1>4. IsInjective(p)
    BY <1>1, <1>3 DEF IsInjective
<1>9. IsInjective(q)
    <2> SUFFICES ASSUME NEW i \in 1 .. Len(s) - n, NEW k \in 1 .. Len(s) - n, q[i] = q[k]
                 PROVE  i = k
        BY <1>2 DEF IsInjective
    <2>1. i + n \in 1 .. Len(s) /\ k + n \in 1 .. Len(s) /\ s[i + n] = s[k + n]
        BY <1>2, <1>3
    <2>2. i + n = k + n
        BY <1>3, <2>1 DEF IsInjective
    <2> QED BY <1>3, <2>2
<1>5. Range(p) \subseteq Range(s)
    BY <1>1, <1>3 DEF Range
<1>6. Range(q) \subseteq Range(s)
    <2> SUFFICES ASSUME NEW k \in 1 .. Len(s) - n PROVE q[k] \in Range(s)
        BY <1>2 DEF Range
    <2>1. k + n \in 1 .. Len(s) /\ q[k] = s[k + n]
        BY <1>2, <1>3
    <2> QED BY <1>3, <2>1 DEF Range
<1>7. ASSUME NEW i \in 1 .. n, NEW k \in 1 .. Len(s) - n PROVE p[i] # q[k]
    <2>1. k + n \in 1 .. Len(s) /\ i \in 1 .. Len(s) /\ i # k + n
        BY <1>3
    <2>2. s[i] # s[k + n]
        BY <1>3, <2>1 DEF IsInjective
    <2> QED BY <1>1, <1>2, <2>2
<1>8. Range(p) \intersect Range(q) = {}
    BY <1>1, <1>2, <1>7 DEF Range
<1> QED BY <1>1, <1>2, <1>4, <1>5, <1>6, <1>8, <1>9 DEF p, q

LEMMA TailOnce ==
    ASSUME NEW S, NEW s \in Seq(S), IsInjective(s), s # <<>>
    PROVE  /\ Tail(s) \in Seq(S) /\ Len(Tail(s)) = Len(s) - 1
           /\ Head(s) = s[1] /\ Head(s) \in Range(s) /\ Head(s) \in S
           /\ IsInjective(Tail(s)) /\ Range(Tail(s)) \subseteq Range(s)
           /\ Head(s) \notin Range(Tail(s))
<1>1. /\ Tail(s) \in Seq(S) /\ Len(Tail(s)) = Len(s) - 1
      /\ DOMAIN Tail(s) = 1 .. Len(s) - 1 /\ DOMAIN s = 1 .. Len(s) /\ Len(s) \in Nat \ {0}
      /\ \A k \in 1 .. Len(s) - 1 : Tail(s)[k] = s[k + 1]
    OBVIOUS
<1>2. Head(s) = s[1] /\ 1 \in 1 .. Len(s) /\ s[1] \in S
    BY <1>1
<1>3. \A k \in 1 .. Len(s) - 1 : k + 1 \in 1 .. Len(s) /\ k + 1 # 1
    BY <1>1
<1>4. IsInjective(Tail(s))
    <2> SUFFICES ASSUME NEW i \in 1 .. Len(s) - 1, NEW k \in 1 .. Len(s) - 1, Tail(s)[i] = Tail(s)[k]
                 PROVE  i = k
        BY <1>1 DEF IsInjective
    <2>1. s[i + 1] = s[k + 1]
        BY <1>1
    <2>2. i + 1 = k + 1
        BY <1>1, <1>3, <2>1 DEF IsInjective
    <2> QED BY <1>1, <2>2
<1>5. Range(Tail(s)) \subseteq Range(s)
    BY <1>1, <1>3 DEF Range
<1>6. Head(s) \in Range(s)
    BY <1>1, <1>2 DEF Range
<1>7. Head(s) \notin Range(Tail(s))
    BY <1>1, <1>2, <1>3 DEF Range, IsInjective
<1> QED BY <1>1, <1>2, <1>4, <1>5, <1>6, <1>7

LEMMA NothingOnce == IsInjective(<<>>) /\ Range(<<>>) = {}
BY DEF IsInjective, Range

-----------------------------------------------------------------------------
(* Types and limits *)

\* A batch is an interval of the published messages.
LEMMA BatchTyped ==
    ASSUME Typed, NEW r \in Runs, FirstUnread(r) <= Len(stream)
    PROVE  /\ FirstUnread(r) \in Nat \ {0} /\ LastOfBatch(r) \in FirstUnread(r) .. Len(stream)
           /\ Batch(r) \in Seq(Messages) /\ Batch(r) # <<>>
           /\ Len(Batch(r)) = LastOfBatch(r) - FirstUnread(r) + 1
           /\ \A k \in 1 .. Len(Batch(r)) : Batch(r)[k] = FirstUnread(r) + k - 1
<1>1. /\ cursor[r] \in Nat /\ oldest \in Nat \ {0} /\ Len(stream) \in 0 .. MaxMessages
      /\ PerPoll \in Nat \ {0} /\ MaxMessages \in Nat
    BY BusAssumption DEF Typed
<1>2. FirstUnread(r) \in Nat \ {0}
    BY <1>1 DEF FirstUnread
<1>3. LastOfBatch(r) \in FirstUnread(r) .. Len(stream)
    BY <1>1, <1>2 DEF LastOfBatch
<1> DEFINE n == LastOfBatch(r) - FirstUnread(r) + 1
<1>4. n \in Nat \ {0}
    BY <1>1, <1>2, <1>3
<1>5. \A k \in 1 .. n : FirstUnread(r) + k - 1 \in Messages
    BY <1>1, <1>2, <1>3 DEF Messages
<1>6. Batch(r) = [k \in 1 .. n |-> FirstUnread(r) + k - 1]
    BY DEF Batch
<1> HIDE DEF n
<1>7. Batch(r) \in Seq(Messages) /\ Len(Batch(r)) = n
    BY <1>4, <1>5, <1>6
<1> QED BY <1>2, <1>3, <1>4, <1>6, <1>7 DEF n

\* What the buffer keeps is a prefix, within its limit.
LEMMA KeepIsPart ==
    ASSUME NEW s \in Seq(Messages)
    PROVE  /\ Keep(s) \in Seq(Messages) /\ Len(Keep(s)) <= BufferSize
           /\ IsInjective(s) => IsInjective(Keep(s))
           /\ Range(Keep(s)) \subseteq Range(s)
<1>1. BufferSize \in Nat /\ Len(s) \in Nat
    BY BusAssumption
<1>2. CASE Len(s) > BufferSize
    <2>1. Keep(s) = SubSeq(s, 1, BufferSize) /\ BufferSize \in 0 .. Len(s)
        BY <1>1, <1>2 DEF Keep
    <2> DEFINE p == SubSeq(s, 1, BufferSize)
    <2>2. /\ p \in Seq(Messages) /\ Len(p) = BufferSize /\ DOMAIN p = 1 .. BufferSize
          /\ DOMAIN s = 1 .. Len(s) /\ \A k \in 1 .. BufferSize : p[k] = s[k]
        BY <1>1, <2>1
    <2> HIDE DEF p
    <2>3. IsInjective(s) => IsInjective(p)
        BY <1>1, <1>2, <2>2 DEF IsInjective
    <2>4. Range(p) \subseteq Range(s)
        BY <1>1, <1>2, <2>2 DEF Range
    <2> QED BY <1>1, <2>1, <2>2, <2>3, <2>4 DEF p
<1>3. CASE ~(Len(s) > BufferSize)
    BY <1>1, <1>3 DEF Keep
<1> QED BY <1>2, <1>3

\* One run's poll point, cursor and sequences change at a time.
LEMMA TypedStep ==
    ASSUME Typed, BatchesAhead, NEW r \in Runs, RunStep(r)
    PROVE  Typed'
<1> USE BusAssumption
<1>1. \/ Publish(r) \/ PollStep(r) \/ DrainStep(r) \/ PollFails(r) \/ DecodeFails(r)
       \/ Start(r) \/ CancelPoll(r) \/ StopStep(r) \/ SaveFails(r) \/ Kill(r)
    BY DEF RunStep
<1>n. MaxMessages \in Nat \ {0} /\ MaxTroubles \in Nat
    OBVIOUS
<1>h. poll[r] = "claiming" => todo[r] # <<>> /\ Head(todo[r]) \in Messages
    <2>1. todo[r] \in Seq(Messages)
        BY DEF Typed
    <2> QED BY <2>1 DEF BatchesAhead
<1>s. poll[r] = "claiming" /\ SetNx(Head(todo[r]), r) => claims' \in [Messages -> Runs \union {None}]
    BY <1>h DEF SetNx, Typed
<1>e. <<>> \in Seq(Messages)
    OBVIOUS
<1>t. Trouble(r) => troubles' \in 0 .. MaxTroubles
    BY <1>n DEF Trouble, Typed
<1>g. GiveUp(r) => /\ claims' \in [Messages -> Runs \union {None}]
                   /\ skipped' \in [Runs -> SUBSET Messages]
    <2>1. ASSUME GiveUp(r), poll[r] = "claiming"
          PROVE  /\ claims' \in [Messages -> Runs \union {None}]
                 /\ skipped' \in [Runs -> SUBSET Messages]
        <3>1. skipped' = [skipped EXCEPT ![r] = skipped[r] \union {Head(todo[r])}]
            BY <2>1 DEF GiveUp
        <3>2. skipped' \in [Runs -> SUBSET Messages]
            BY <1>h, <2>1, <3>1 DEF Typed
        <3>3. claims' \in [Messages -> Runs \union {None}]
            BY <1>s, <2>1 DEF GiveUp, Typed
        <3> QED BY <3>2, <3>3
    <2>2. ASSUME GiveUp(r), poll[r] # "claiming" PROVE UNCHANGED <<claims, skipped>>
        BY <2>2 DEF GiveUp
    <2> QED BY <2>1, <2>2 DEF Typed
<1>f. Forget(r) => /\ poll' \in [Runs -> Points] /\ cursor' \in [Runs -> 0 .. MaxMessages]
                   /\ todo' \in [Runs -> Seq(Messages)] /\ got' \in [Runs -> Seq(Messages)]
                   /\ buffer' \in [Runs -> Seq(Messages)] /\ arrivals' \in [Runs -> Seq(Messages)]
    BY <1>n, <1>e DEF Forget, Typed, Points
<1>2. CASE Publish(r)
    <2>1. stream' \in Seq(Runs) /\ Len(stream') = Len(stream) + 1 /\ Len(stream) < MaxMessages
        BY <1>2 DEF Publish, Typed
    <2>2. oldest' \in 1 .. MaxMessages
        <3>1. MaxStreamLen \in Nat \ {0} /\ Len(stream) \in Nat
            BY DEF Typed
        <3> QED BY <1>2, <2>1, <3>1 DEF Publish, Typed
    <2>3. UNCHANGED <<topology, claims, saved, node, imports, lapses, skipped, troubles>>
        BY <1>2 DEF Publish
    <2>4. Len(stream') <= MaxMessages
        BY <1>n, <2>1 DEF Typed
    <2>5. UNCHANGED <<poll, cursor, todo, got, buffer, arrivals>>
        BY <2>3 DEF node
    <2> QED BY <2>1, <2>2, <2>3, <2>4, <2>5 DEF Typed
<1>3. CASE Read(r)
    <2>1. todo' \in [Runs -> Seq(Messages)]
        BY <1>3, BatchTyped DEF Read, Typed
    <2>2. poll' \in [Runs -> Points]
        BY <1>3 DEF Read, Typed, Points
    <2> QED BY <1>3, <2>1, <2>2 DEF Read, Typed, bus
<1>4. CASE Consider(r)
    <2>0. todo[r] \in Seq(Messages) /\ todo[r] # <<>>
        BY <1>4 DEF Consider, Typed
    <2>1. Head(todo[r]) \in Messages /\ Tail(todo[r]) \in Seq(Messages)
        BY <2>0
    <2>2. Head(todo[r]) \in 0 .. MaxMessages
        BY <1>n, <2>1 DEF Messages
    <2>3. \/ todo' = todo /\ poll' = [poll EXCEPT ![r] = "claiming"]
          \/ todo' = [todo EXCEPT ![r] = Tail(todo[r])] /\ poll' = poll
        BY <1>4 DEF Consider
    <2>4. cursor' = [cursor EXCEPT ![r] = Head(todo[r])]
        BY <1>4 DEF Consider
    <2>5. todo' \in [Runs -> Seq(Messages)]
        BY <2>1, <2>3 DEF Typed
    <2>6. poll' \in [Runs -> Points]
        BY <2>3 DEF Typed, Points
    <2>7. cursor' \in [Runs -> 0 .. MaxMessages]
        BY <2>2, <2>4 DEF Typed
    <2> QED BY <1>4, <2>5, <2>6, <2>7 DEF Consider, Typed, bus
<1>5. CASE Claim(r)
    <2>0. todo[r] \in Seq(Messages) /\ todo[r] # <<>> /\ got[r] \in Seq(Messages)
        BY <1>5, <1>h DEF Claim, Typed
    <2>1. Head(todo[r]) \in Messages /\ Tail(todo[r]) \in Seq(Messages)
        BY <2>0
    <2>4. Append(got[r], Head(todo[r])) \in Seq(Messages)
        BY <2>0, <2>1
    <2>2. todo' \in [Runs -> Seq(Messages)] /\ poll' \in [Runs -> Points]
        BY <1>5, <2>1 DEF Claim, Typed, Points
    <2>3. got' \in [Runs -> Seq(Messages)]
        BY <1>5, <2>4 DEF Claim, Typed
    <2>5. claims' \in [Messages -> Runs \union {None}]
        BY <1>5, <1>s DEF Claim
    <2> QED BY <1>5, <2>2, <2>3, <2>5 DEF Claim, Typed
<1>6. CASE Deliver(r)
    <2>1. buffer[r] \o got[r] \in Seq(Messages)
        BY DEF Typed
    <2>2. Keep(buffer[r] \o got[r]) \in Seq(Messages)
        BY <2>1, KeepIsPart
    <2>3. buffer' \in [Runs -> Seq(Messages)] /\ got' \in [Runs -> Seq(Messages)]
        BY <1>6, <1>e, <2>2 DEF Deliver, Typed
    <2>4. poll' \in [Runs -> Points]
        BY <1>6 DEF Deliver, Typed, Points
    <2> QED BY <1>6, <2>3, <2>4 DEF Deliver, Typed, bus
<1>7. CASE Drain(r)
    <2>1. buffer[r] \in Seq(Messages) /\ MaxImports \in Nat /\ Len(buffer[r]) \in Nat
        BY DEF Typed
    <2>5. (IF Len(buffer[r]) < MaxImports THEN Len(buffer[r]) ELSE MaxImports) \in 0 .. Len(buffer[r])
        BY <2>1
    <2>2. PICK n \in 0 .. Len(buffer[r]) :
            /\ arrivals' = [arrivals EXCEPT ![r] = SubSeq(buffer[r], 1, n)]
            /\ buffer' = [buffer EXCEPT ![r] = SubSeq(buffer[r], n + 1, Len(buffer[r]))]
        BY <1>7, <2>5 DEF Drain
    <2>3. /\ SubSeq(buffer[r], 1, n) \in Seq(Messages)
          /\ SubSeq(buffer[r], n + 1, Len(buffer[r])) \in Seq(Messages)
        BY <2>1
    <2>4. buffer' \in [Runs -> Seq(Messages)] /\ arrivals' \in [Runs -> Seq(Messages)]
        BY <2>2, <2>3 DEF Typed
    <2> QED BY <1>7, <2>4 DEF Drain, Typed, bus
<1>8. CASE Import(r)
    <2>0. arrivals[r] \in Seq(Messages) /\ arrivals[r] # <<>>
        BY <1>8 DEF Import, Typed
    <2>1. Head(arrivals[r]) \in Messages /\ Tail(arrivals[r]) \in Seq(Messages)
        BY <2>0
    <2>2. arrivals' \in [Runs -> Seq(Messages)]
        BY <1>8, <2>1 DEF Import, Typed
    <2>3. imports' \in [Messages -> Nat]
        <3>0. imports[Head(arrivals[r])] \in Nat
            BY <2>1 DEF Typed
        <3>1. imports[Head(arrivals[r])] + 1 \in Nat
            BY <3>0
        <3>2. \/ imports' = [imports EXCEPT ![Head(arrivals[r])] = imports[Head(arrivals[r])] + 1]
              \/ imports' = imports
            BY <1>8 DEF Import
        <3> QED BY <3>1, <3>2 DEF Typed
    <2> QED BY <1>8, <2>2, <2>3 DEF Import, Typed, bus
<1>9. CASE PollFails(r) \/ CancelPoll(r)
    <2>1. GiveUp(r) /\ Trouble(r)
        BY <1>9 DEF PollFails, CancelPoll
    <2>2. /\ todo' = [todo EXCEPT ![r] = <<>>] /\ got' = [got EXCEPT ![r] = <<>>]
          /\ UNCHANGED <<topology, stream, oldest, saved, cursor, buffer, arrivals, imports, lapses>>
        BY <1>9 DEF PollFails, CancelPoll
    <2>3. todo' \in [Runs -> Seq(Messages)] /\ got' \in [Runs -> Seq(Messages)]
        BY <1>e, <2>2 DEF Typed
    <2>4. poll' \in [Runs -> Points]
        BY <1>9 DEF PollFails, CancelPoll, Typed, Points
    <2> QED BY <1>g, <1>t, <2>1, <2>2, <2>3, <2>4 DEF Typed
<1>10. CASE Start(r)
    <2>1. cursor' \in [Runs -> 0 .. MaxMessages] /\ poll' \in [Runs -> Points]
        BY <1>10 DEF Start, Restored, Typed, Points
    <2> QED BY <1>10, <2>1 DEF Start, Typed, bus
<1>11. CASE SaveCursor(r)
    <2>1. saved' \in [Runs -> 0 .. MaxMessages] /\ poll' \in [Runs -> Points]
        BY <1>11 DEF SaveCursor, Position, Typed, Points
    <2> QED BY <1>11, <2>1 DEF SaveCursor, Typed
<1>12. CASE SaveFails(r)
    <2>1. poll' \in [Runs -> Points]
        BY <1>12 DEF SaveFails, Typed, Points
    <2> QED BY <1>12, <1>t, <2>1 DEF SaveFails, Typed, bus
<1>13. CASE Exit(r)
    BY <1>13, <1>f DEF Exit, Typed, bus
<1>14. CASE Kill(r)
    <2>1. claims' \in [Messages -> Runs \union {None}]
        BY <1>14, <1>s DEF Kill, Typed
    <2>2. UNCHANGED <<topology, stream, oldest, saved, imports, lapses, skipped>>
        BY <1>14 DEF Kill
    <2>3. Forget(r) /\ Trouble(r)
        BY <1>14 DEF Kill
    <2> QED BY <1>f, <1>t, <2>1, <2>2, <2>3 DEF Typed
<1>15. CASE DecodeFails(r)
    <2>0. todo[r] \in Seq(Messages) /\ todo[r] # <<>>
        BY <1>15 DEF DecodeFails, Typed
    <2>1. Head(todo[r]) \in Messages /\ Head(todo[r]) \in 0 .. MaxMessages
        BY <1>n, <2>0 DEF Messages
    <2>2. cursor' \in [Runs -> 0 .. MaxMessages]
        BY <1>15, <2>1 DEF DecodeFails, Typed
    <2>3. skipped' \in [Runs -> SUBSET Messages]
        <3>1. skipped' = [skipped EXCEPT ![r] = skipped[r] \union {Head(todo[r])}]
            BY <1>15 DEF DecodeFails
        <3> QED BY <2>1, <3>1 DEF Typed
    <2>4. poll' \in [Runs -> Points] /\ todo' \in [Runs -> Seq(Messages)] /\ got' \in [Runs -> Seq(Messages)]
        BY <1>15, <1>e DEF DecodeFails, Typed, Points
    <2>5. troubles' \in 0 .. MaxTroubles
        BY <1>15, <1>t DEF DecodeFails
    <2>6. UNCHANGED <<bus, buffer, arrivals, imports, lapses>>
        BY <1>15 DEF DecodeFails
    <2> QED BY <2>2, <2>3, <2>4, <2>5, <2>6 DEF Typed, bus
<1> QED BY <1>1, <1>2, <1>3, <1>4, <1>5, <1>6, <1>7, <1>8, <1>9, <1>10, <1>11, <1>12, <1>13, <1>14, <1>15
        DEF PollStep, DrainStep, StopStep

\* The buffer and the import batch keep to their limits.
LEMMA BoundedStep ==
    ASSUME Typed, Bounded, NEW r \in Runs, RunStep(r)
    PROVE  Bounded'
<1>1. \/ Publish(r) \/ PollStep(r) \/ DrainStep(r) \/ PollFails(r) \/ DecodeFails(r)
       \/ Start(r) \/ CancelPoll(r) \/ StopStep(r) \/ SaveFails(r) \/ Kill(r)
    BY DEF RunStep
<1>b. BufferSize \in Nat /\ MaxImports \in Nat
    BY BusAssumption
<1>2. CASE UNCHANGED <<buffer, arrivals>>
    BY <1>2 DEF Bounded
<1>3. CASE Deliver(r)
    <2>1. buffer[r] \o got[r] \in Seq(Messages)
        BY DEF Typed
    <2>2. Len(Keep(buffer[r] \o got[r])) <= BufferSize
        BY <2>1, KeepIsPart
    <2> QED BY <1>3, <2>2 DEF Deliver, Bounded, Typed
<1>4. CASE Drain(r)
    <2>1. buffer[r] \in Seq(Messages) /\ Len(buffer[r]) \in Nat /\ Len(buffer[r]) <= BufferSize
        BY DEF Typed, Bounded
    <2> DEFINE n == IF Len(buffer[r]) < MaxImports THEN Len(buffer[r]) ELSE MaxImports
    <2>2. n \in 0 .. Len(buffer[r]) /\ n <= MaxImports
        BY <1>b, <2>1
    <2>3. /\ arrivals' = [arrivals EXCEPT ![r] = SubSeq(buffer[r], 1, n)]
          /\ buffer' = [buffer EXCEPT ![r] = SubSeq(buffer[r], n + 1, Len(buffer[r]))]
        BY <1>4 DEF Drain
    <2> HIDE DEF n
    <2>4. Len(SubSeq(buffer[r], 1, n)) = n /\ Len(SubSeq(buffer[r], n + 1, Len(buffer[r]))) = Len(buffer[r]) - n
        BY <2>1, <2>2
    <2>5. Len(buffer[r]) - n <= BufferSize
        BY <1>b, <2>1, <2>2
    <2> QED BY <2>2, <2>3, <2>4, <2>5 DEF Bounded, Typed
<1>5. CASE Import(r)
    <2>1. arrivals[r] \in Seq(Messages) /\ arrivals[r] # <<>>
        BY <1>5 DEF Import, Typed
    <2>2. Len(Tail(arrivals[r])) <= MaxImports
        <3>1. Len(arrivals[r]) \in Nat /\ Len(Tail(arrivals[r])) = Len(arrivals[r]) - 1
            BY <2>1
        <3> QED BY <1>b, <3>1 DEF Bounded
    <2>3. arrivals' = [arrivals EXCEPT ![r] = Tail(arrivals[r])] /\ buffer' = buffer
        BY <1>5 DEF Import
    <2> QED BY <2>2, <2>3 DEF Bounded, Typed
<1>6. CASE Forget(r)
    BY <1>b, <1>6 DEF Forget, Bounded, Typed
<1>7. CASE \/ Publish(r) \/ Read(r) \/ Consider(r) \/ Claim(r) \/ PollFails(r) \/ DecodeFails(r)
           \/ Start(r) \/ CancelPoll(r) \/ SaveCursor(r) \/ SaveFails(r)
    BY <1>2, <1>7 DEF Publish, Read, Consider, Claim, PollFails, DecodeFails, Start, CancelPoll,
                      SaveCursor, SaveFails, node
<1> QED BY <1>1, <1>3, <1>4, <1>5, <1>6, <1>7 DEF PollStep, DrainStep, StopStep, Exit, Kill

-----------------------------------------------------------------------------
(* Cursors and batches *)

\* The cursor starts where it was saved, moves to the head of a batch, and is
\* saved where it is; the stream only grows.
LEMMA CursorStep ==
    ASSUME Typed, BatchesAhead, CursorsOrdered, NEW r \in Runs, RunStep(r)
    PROVE  CursorsOrdered' /\ \A q \in Runs : saved'[q] >= saved[q]
<1>1. \/ Publish(r) \/ PollStep(r) \/ DrainStep(r) \/ PollFails(r) \/ DecodeFails(r)
       \/ Start(r) \/ CancelPoll(r) \/ StopStep(r) \/ SaveFails(r) \/ Kill(r)
    BY DEF RunStep
<1>i. \A q \in Runs : cursor[q] \in Nat /\ saved[q] \in Nat
    BY DEF Typed
<1>l. Len(stream) \in Nat
    BY DEF Typed
<1>2. CASE Publish(r)
    <2>1. Len(stream') = Len(stream) + 1
        BY <1>2 DEF Publish, Typed
    <2>2. UNCHANGED <<saved, poll, cursor>>
        BY <1>2 DEF Publish, node
    <2> QED BY <1>i, <1>l, <2>1, <2>2 DEF CursorsOrdered, Up
<1>3. CASE Consider(r) \/ DecodeFails(r)
    <2>1. todo[r] \in Seq(Messages) /\ todo[r] # <<>> /\ poll[r] = "considering"
        BY <1>3 DEF Consider, DecodeFails, Typed
    <2>2. Head(todo[r]) = todo[r][1] /\ 1 <= Len(todo[r]) /\ Len(todo[r]) \in Nat
          /\ todo[r][1] \in Nat
        <3>1. /\ Head(todo[r]) = todo[r][1] /\ 1 <= Len(todo[r]) /\ Len(todo[r]) \in Nat
              /\ todo[r][1] \in Messages
            BY <2>1
        <3> QED BY <3>1 DEF Messages
    <2>3. cursor[r] < todo[r][1] /\ todo[r][1] <= Len(stream)
        BY <1>l, <2>1, <2>2 DEF BatchesAhead, Consecutive
    <2>4. cursor' = [cursor EXCEPT ![r] = todo[r][1]] /\ UNCHANGED <<stream, saved>>
        BY <1>3, <2>2 DEF Consider, DecodeFails, bus
    <2>5. \A q \in Runs : cursor'[q] = IF q = r THEN todo[r][1] ELSE cursor[q]
        BY <2>4 DEF Typed
    <2>6. \A q \in Runs : Up(q)' => Up(q)
        BY <1>3, <2>1 DEF Consider, DecodeFails, Up, Typed
    <2> QED BY <1>i, <1>l, <2>2, <2>3, <2>4, <2>5, <2>6 DEF CursorsOrdered
<1>4. CASE Start(r)
    <2>1. \A q \in Runs : cursor'[q] = IF q = r THEN saved[r] ELSE cursor[q]
        BY <1>4 DEF Start, Restored, Typed
    <2>2. \A q \in Runs : q # r => poll'[q] = poll[q]
        BY <1>4 DEF Start, Typed
    <2>3. UNCHANGED <<stream, saved>>
        BY <1>4 DEF Start, bus
    <2> QED BY <1>i, <1>l, <2>1, <2>2, <2>3 DEF CursorsOrdered, Up
<1>5. CASE SaveCursor(r)
    <2>1. \A q \in Runs : saved'[q] = IF q = r THEN cursor[r] ELSE saved[q]
        BY <1>5 DEF SaveCursor, Position, Typed
    <2>2. Up(r) /\ \A q \in Runs : q # r => poll'[q] = poll[q]
        BY <1>5 DEF SaveCursor, Typed, Up
    <2>3. UNCHANGED <<stream, cursor>>
        BY <1>5 DEF SaveCursor
    <2> QED BY <1>i, <1>l, <2>1, <2>2, <2>3 DEF CursorsOrdered, Up
<1>6. CASE Forget(r) /\ UNCHANGED <<stream, saved>>
    <2>1. \A q \in Runs : /\ cursor'[q] = IF q = r THEN 0 ELSE cursor[q]
                          /\ poll'[q] = IF q = r THEN "down" ELSE poll[q]
        BY <1>6 DEF Forget, Typed
    <2> QED BY <1>i, <1>l, <1>6, <2>1 DEF CursorsOrdered, Up
<1>7. CASE \/ Read(r) \/ Claim(r) \/ Deliver(r) \/ PollFails(r) \/ CancelPoll(r) \/ SaveFails(r)
           \/ DrainStep(r)
    <2>1. UNCHANGED <<stream, saved, cursor>>
        BY <1>7 DEF Read, Claim, Deliver, PollFails, CancelPoll, SaveFails, DrainStep, Drain,
                    Import, bus
    <2>2. \A q \in Runs : Up(q)' => Up(q)
        BY <1>7 DEF Read, Claim, Deliver, PollFails, CancelPoll, SaveFails, DrainStep, Drain,
                    Import, Up, Typed
    <2> QED BY <1>i, <1>l, <2>1, <2>2 DEF CursorsOrdered
<1> QED BY <1>1, <1>2, <1>3, <1>4, <1>5, <1>6, <1>7 DEF PollStep, StopStep, Exit, Kill, bus

\* The run that moves, and what is known of its batch.
LEMMA HeadFacts ==
    ASSUME Typed, BatchesAhead, NEW r \in Runs,
           \/ poll[r] = "considering" /\ todo[r] # <<>>
           \/ poll[r] = "claiming"
    PROVE  /\ todo[r] \in Seq(Messages) /\ todo[r] # <<>> /\ Head(todo[r]) = todo[r][1]
           /\ todo[r][1] \in Messages /\ todo[r][1] \in Published
           /\ Len(todo[r]) \in Nat \ {0}
           /\ Consecutive(Tail(todo[r]))
           /\ Tail(todo[r]) # <<>> => Tail(todo[r])[1] = todo[r][1] + 1
<1>1. todo[r] \in Seq(Messages) /\ todo[r] # <<>> /\ Consecutive(todo[r])
    BY DEF Typed, BatchesAhead
<1>2. /\ Head(todo[r]) = todo[r][1] /\ todo[r][1] \in Messages /\ Len(todo[r]) \in Nat \ {0}
      /\ Len(Tail(todo[r])) = Len(todo[r]) - 1
      /\ \A k \in 1 .. Len(todo[r]) - 1 : Tail(todo[r])[k] = todo[r][k + 1]
    BY <1>1
<1>3. todo[r][1] \in Nat \ {0} /\ MaxMessages \in Nat /\ Len(stream) \in Nat
    <2>1. MaxMessages \in Nat
        BY BusAssumption
    <2>2. todo[r][1] \in 1 .. MaxMessages
        BY <1>2 DEF Messages
    <2>3. stream \in Seq(Runs)
        BY DEF Typed
    <2> QED BY <2>1, <2>2, <2>3
<1>4. todo[r][1] \in Published
    BY <1>1, <1>2, <1>3 DEF Consecutive, Published
<1>5. \A k \in 1 .. Len(todo[r]) - 1 : Tail(todo[r])[k] = todo[r][1] + k
    <2> TAKE k \in 1 .. Len(todo[r]) - 1
    <2>1. k + 1 \in 1 .. Len(todo[r])
        BY <1>2
    <2>2. todo[r][k + 1] = todo[r][1] + (k + 1) - 1
        BY <1>1, <2>1 DEF Consecutive
    <2> QED BY <1>2, <1>3, <2>2
<1>6. Len(todo[r]) > 1 => Tail(todo[r])[1] = todo[r][1] + 1
    BY <1>2, <1>5
<1>7. Consecutive(Tail(todo[r]))
    BY <1>1, <1>2, <1>3, <1>5, <1>6 DEF Consecutive
<1>8. Tail(todo[r]) # <<>> => Len(todo[r]) > 1
    BY <1>1, <1>2
<1> QED BY <1>1, <1>2, <1>4, <1>6, <1>7, <1>8

\* What one run's batch must satisfy; the other runs' stay as they are.
BatchAhead(r) ==
    /\ poll[r] \in {"considering", "claiming"} => Consecutive(todo[r])
    /\ poll[r] = "considering" /\ todo[r] # <<>> =>
         cursor[r] < todo[r][1] /\ \A m \in Published : cursor[r] < m /\ m < todo[r][1] => m < oldest
    /\ poll[r] = "claiming" =>
         /\ todo[r] # <<>> /\ todo[r][1] = cursor[r] /\ saved[r] < cursor[r]
         /\ Wanted(r, cursor[r])

LEMMA BatchesStep ==
    ASSUME Typed, BatchesAhead, CursorsOrdered, NEW r \in Runs, RunStep(r)
    PROVE  BatchesAhead'
<1>a. \A q \in Runs : BatchAhead(q)
    BY DEF BatchesAhead, BatchAhead
<1> SUFFICES ASSUME NEW q \in Runs PROVE BatchAhead(q)'
    BY DEF BatchesAhead, BatchAhead
<1>1. \/ Publish(r) \/ PollStep(r) \/ DrainStep(r) \/ PollFails(r) \/ DecodeFails(r)
       \/ Start(r) \/ CancelPoll(r) \/ StopStep(r) \/ SaveFails(r) \/ Kill(r)
    BY DEF RunStep
<1>l. Len(stream) \in Nat /\ cursor[q] \in Nat /\ saved[q] \in Nat /\ oldest \in Nat
    BY DEF Typed
<1>2. CASE Publish(r)
    <2>1. /\ stream' = Append(stream, r) /\ Len(stream') = Len(stream) + 1
          /\ \A m \in 1 .. Len(stream) : stream'[m] = stream[m]
        BY <1>2 DEF Publish, Typed
    <2>2. UNCHANGED <<topology, saved, poll, cursor, todo>>
        BY <1>2 DEF Publish, node
    <2>3. oldest' \in Nat /\ oldest' >= oldest
        <3>1. Len(stream') - MaxStreamLen + 1 \in Int
            BY <1>l, <2>1, BusAssumption
        <3>2. oldest' \in {oldest} \union (oldest .. Len(stream') - MaxStreamLen + 1)
            BY <1>2 DEF Publish
        <3> QED BY <1>l, <3>1, <3>2
    <2>4. poll[q] \in {"considering", "claiming"} => Consecutive(todo[q])'
        <3>1. ASSUME Consecutive(todo[q]), Len(todo[q]) > 0 PROVE todo[q][1] + Len(todo[q]) - 1 <= Len(stream')
            <4>1. todo[q] \in Seq(Messages)
                BY DEF Typed
            <4>2. Len(todo[q]) \in Nat /\ todo[q][1] \in Messages
                BY <3>1, <4>1
            <4>3. todo[q][1] \in Nat
                BY <4>2 DEF Messages
            <4> QED BY <1>l, <2>1, <3>1, <4>2, <4>3 DEF Consecutive
        <3> QED BY <1>a, <2>2, <3>1 DEF BatchAhead, Consecutive
    <2>5. ASSUME poll[q] = "considering", todo[q] # <<>>, NEW m \in Published', cursor[q] < m, m < todo[q][1]
          PROVE  m < oldest'
        <3>1. todo[q][1] \in Published
            BY <2>5, HeadFacts
        <3>2. m \in Published
            BY <1>l, <2>1, <2>5, <3>1 DEF Published
        <3>3. m < oldest
            BY <1>a, <2>5, <3>2 DEF BatchAhead
        <3> QED BY <1>l, <2>3, <3>2, <3>3 DEF Published
    <2>6. poll[q] = "claiming" => Wanted(q, cursor[q])'
        <3> SUFFICES ASSUME poll[q] = "claiming" PROVE Wanted(q, cursor[q])'
            OBVIOUS
        <3>1. cursor[q] \in Published /\ Wanted(q, cursor[q])
            BY <1>a, HeadFacts DEF BatchAhead
        <3> QED BY <2>1, <2>2, <3>1 DEF Wanted, Published
    <2> QED BY <1>a, <2>2, <2>4, <2>5, <2>6 DEF BatchAhead
<1>s. CASE q # r /\ ~Publish(r)
    <2>1. /\ poll'[q] = poll[q] /\ todo'[q] = todo[q] /\ cursor'[q] = cursor[q]
          /\ saved'[q] = saved[q]
        BY <1>1, <1>s DEF PollStep, Read, Consider, Claim, Deliver, DrainStep, Drain, Import, PollFails, DecodeFails,
           Start, CancelPoll, StopStep, SaveCursor, Exit, SaveFails, Kill, Forget, Typed, bus
    <2>2. UNCHANGED <<topology, stream, oldest>>
        BY <1>1, <1>s DEF PollStep, Read, Consider, Claim, Deliver, DrainStep, Drain, Import, PollFails, DecodeFails,
           Start, CancelPoll, StopStep, SaveCursor, Exit, SaveFails, Kill, bus
    <2> QED BY <1>a, <2>1, <2>2 DEF BatchAhead, Consecutive, Wanted, Published
<1>3. CASE q = r /\ Read(r)
    <2>0. FirstUnread(r) <= Len(stream)
        BY <1>3 DEF Read
    <2> DEFINE b == Batch(r)
    <2>1. /\ b \in Seq(Messages) /\ b # <<>> /\ Len(b) = LastOfBatch(r) - FirstUnread(r) + 1
          /\ FirstUnread(r) \in Nat \ {0} /\ LastOfBatch(r) \in FirstUnread(r) .. Len(stream)
          /\ \A k \in 1 .. Len(b) : b[k] = FirstUnread(r) + k - 1
        BY <2>0, BatchTyped
    <2>2. /\ poll'[q] = "considering" /\ todo'[q] = b
          /\ UNCHANGED <<stream, oldest, cursor>>
        BY <1>3 DEF Read, Typed, bus
    <2> HIDE DEF b
    <2>3. b[1] = FirstUnread(r)
        BY <1>l, <2>1
    <2>4. Consecutive(b)
        BY <1>l, <2>1, <2>3 DEF Consecutive
    <2>5. cursor[q] < FirstUnread(r) /\ \A m \in Published : cursor[q] < m /\ m < FirstUnread(r) => m < oldest
        BY <1>l, <1>3 DEF FirstUnread, Published
    <2> QED BY <2>2, <2>3, <2>4, <2>5 DEF BatchAhead, Consecutive, Published
<1>4. CASE q = r /\ Consider(r)
    <2>1. poll[r] = "considering" /\ todo[r] # <<>>
        BY <1>4 DEF Consider
    <2>2. /\ todo[r] \in Seq(Messages) /\ Head(todo[r]) = todo[r][1] /\ todo[r][1] \in Published
          /\ Consecutive(Tail(todo[r])) /\ Consecutive(todo[r])
          /\ Tail(todo[r]) # <<>> => Tail(todo[r])[1] = todo[r][1] + 1
        BY <2>1, HeadFacts DEF BatchesAhead
    <2>3. cursor[r] < todo[r][1] /\ saved[r] <= cursor[r]
        BY <2>1 DEF BatchesAhead, CursorsOrdered, Up
    <2>4. cursor'[q] = todo[r][1] /\ UNCHANGED <<topology, stream, oldest, saved>>
        BY <1>4, <2>2 DEF Consider, Typed, bus
    <2>5. todo[r][1] \in Nat
        BY <2>2 DEF Published
    <2>6. CASE Wanted(r, todo[r][1])
        <3>1. poll'[q] = "claiming" /\ todo' = todo
            BY <1>4, <2>2, <2>6 DEF Consider, Typed
        <3>2. saved[r] < todo[r][1]
            BY <1>4, <1>l, <2>3, <2>5
        <3> QED BY <1>4, <2>1, <2>2, <2>4, <2>6, <3>1, <3>2 DEF BatchAhead, Consecutive, Wanted
    <2>7. CASE ~Wanted(r, todo[r][1])
        <3>1. poll'[q] = "considering" /\ todo'[q] = Tail(todo[r])
            BY <1>4, <2>1, <2>2, <2>7 DEF Consider, Typed
        <3>2. Tail(todo[r]) # <<>> =>
                 /\ todo[r][1] < Tail(todo[r])[1]
                 /\ \A m \in Published : ~(todo[r][1] < m /\ m < Tail(todo[r])[1])
            BY <2>2, <2>5 DEF Published
        <3> QED BY <2>2, <2>4, <3>1, <3>2 DEF BatchAhead, Consecutive, Published
    <2> QED BY <2>6, <2>7
<1>5. CASE q = r /\ Claim(r)
    <2>1. poll[r] = "claiming"
        BY <1>5 DEF Claim
    <2>2. /\ Consecutive(Tail(todo[r])) /\ todo[r][1] \in Published
          /\ Tail(todo[r]) # <<>> => Tail(todo[r])[1] = todo[r][1] + 1
          /\ cursor[r] = todo[r][1]
        BY <2>1, HeadFacts DEF BatchesAhead
    <2>3. /\ poll'[q] = "considering" /\ todo'[q] = Tail(todo[r])
          /\ UNCHANGED <<stream, oldest, cursor>>
        BY <1>5 DEF Claim, Typed
    <2>4. Tail(todo[r]) # <<>> =>
             /\ todo[r][1] < Tail(todo[r])[1]
             /\ \A m \in Published : ~(todo[r][1] < m /\ m < Tail(todo[r])[1])
        BY <1>5, <1>l, <2>2 DEF Published
    <2> QED BY <1>5, <2>2, <2>3, <2>4 DEF BatchAhead, Consecutive, Published
<1>6. CASE q = r /\ DrainStep(r)
    <2>1. UNCHANGED <<topology, stream, oldest, saved, poll, todo, cursor>>
        BY <1>6 DEF DrainStep, Drain, Import, bus
    <2> QED BY <1>a, <2>1 DEF BatchAhead, Consecutive, Wanted, Published
<1>7. CASE /\ q = r
           /\ \/ Deliver(r) \/ PollFails(r) \/ DecodeFails(r) \/ Start(r) \/ CancelPoll(r) \/ SaveCursor(r)
              \/ SaveFails(r) \/ Forget(r)
    <2>1. poll'[q] \notin {"considering", "claiming"}
        BY <1>7 DEF Deliver, PollFails, DecodeFails, Start, CancelPoll, SaveCursor, SaveFails, Forget, Typed
    <2> QED BY <2>1 DEF BatchAhead
<1> QED BY <1>1, <1>2, <1>s, <1>3, <1>4, <1>5, <1>6, <1>7 DEF PollStep, StopStep, Exit, Kill

-----------------------------------------------------------------------------
(* Claims *)

\* How a step changes the claims: not at all, or the run that moves sets the one
\* for the message at the head of its batch, if nobody had.
LEMMA ClaimsStep ==
    ASSUME Typed, BatchesAhead, NEW r \in Runs, RunStep(r)
    PROVE  /\ lapses' = lapses
           /\ \/ claims' = claims
              \/ /\ poll[r] = "claiming" /\ SetNx(Head(todo[r]), r)
                 /\ UNCHANGED <<topology, stream>>
<1>1. \/ Publish(r) \/ PollStep(r) \/ DrainStep(r) \/ PollFails(r) \/ DecodeFails(r)
      \/ Start(r) \/ CancelPoll(r) \/ StopStep(r) \/ SaveFails(r) \/ Kill(r)
    BY DEF RunStep
<1>2. CASE Claim(r) \/ PollFails(r) \/ CancelPoll(r) \/ Kill(r)
    BY <1>2 DEF Claim, PollFails, CancelPoll, Kill, GiveUp
<1>3. CASE ~(Claim(r) \/ PollFails(r) \/ CancelPoll(r) \/ Kill(r))
    BY <1>1, <1>3 DEF Publish, PollStep, Read, Consider, Deliver, DecodeFails, DrainStep, Drain,
       Import, Start, StopStep, SaveCursor, Exit, SaveFails, bus
<1> QED BY <1>2, <1>3

\* The published messages stay as they are.
LEMMA StreamGrows ==
    ASSUME Typed, NEW r \in Runs, RunStep(r)
    PROVE  /\ Published \subseteq Published' /\ \A m \in Published : stream'[m] = stream[m]
           /\ topology' = topology /\ oldest' \in Nat /\ oldest' >= oldest
           /\ Published' # Published => UNCHANGED <<claims, node, saved, skipped>>
                                        /\ \A m \in Published' \ Published : m > Len(stream)
<1>1. \/ Publish(r) \/ PollStep(r) \/ DrainStep(r) \/ PollFails(r) \/ DecodeFails(r)
       \/ Start(r) \/ CancelPoll(r) \/ StopStep(r) \/ SaveFails(r) \/ Kill(r)
    BY DEF RunStep
<1>l. Len(stream) \in Nat /\ oldest \in Nat
    BY DEF Typed
<1>2. CASE Publish(r)
    <2>1. /\ Len(stream') = Len(stream) + 1
          /\ \A m \in 1 .. Len(stream) : stream'[m] = stream[m]
        BY <1>2 DEF Publish, Typed
    <2>2. oldest' \in Nat /\ oldest' >= oldest
        <3>1. Len(stream') - MaxStreamLen + 1 \in Int
            BY <1>l, <2>1, BusAssumption
        <3>2. oldest' \in {oldest} \union (oldest .. Len(stream') - MaxStreamLen + 1)
            BY <1>2 DEF Publish
        <3> QED BY <1>l, <3>1, <3>2
    <2>3. Published \subseteq Published' /\ \A m \in Published' \ Published : m > Len(stream)
        BY <1>l, <2>1 DEF Published
    <2>4. UNCHANGED <<topology, claims, node, saved, skipped>>
        BY <1>2 DEF Publish
    <2>5. \A m \in Published : stream'[m] = stream[m]
        BY <2>1 DEF Published
    <2> QED BY <2>2, <2>3, <2>4, <2>5
<1>3. CASE ~Publish(r)
    <2>1. UNCHANGED <<topology, stream, oldest>>
        BY <1>1, <1>3 DEF PollStep, Read, Consider, Claim, Deliver, DrainStep, Drain, Import, PollFails, DecodeFails,
           Start, CancelPoll, StopStep, SaveCursor, Exit, SaveFails, Kill,
           bus
    <2> QED BY <1>l, <2>1 DEF Published
<1> QED BY <1>2, <1>3

LEMMA ClaimedStep ==
    ASSUME Typed, BatchesAhead, ClaimedByConsumer, NEW r \in Runs, RunStep(r)
    PROVE  ClaimedByConsumer'
<1>g. /\ Published \subseteq Published' /\ \A m \in Published : stream'[m] = stream[m]
      /\ topology' = topology
    BY StreamGrows
<1>1. CASE claims' = claims
    BY <1>1, <1>g DEF ClaimedByConsumer
<1>2. ASSUME poll[r] = "claiming", SetNx(Head(todo[r]), r)
      PROVE  ClaimedByConsumer'
    <2>1. Head(todo[r]) \in Published /\ Wanted(r, Head(todo[r]))
        BY <1>2, HeadFacts DEF BatchesAhead
    <2>2. \A m \in Messages : claims'[m] = claims[m] \/ (m = Head(todo[r]) /\ claims'[m] = r)
        BY <1>2 DEF SetNx, Typed
    <2> QED BY <1>g, <2>1, <2>2 DEF ClaimedByConsumer, Wanted
<1> QED BY <1>1, <1>2, ClaimsStep

\* A message behind a cursor that is neither claimed, nor given up, nor just
\* being claimed, is trimmed or not wanted.
Passed(r, m) ==
    /\ (m <= cursor[r] \/ m <= saved[r])
    /\ Wanted(r, m) /\ m >= oldest
    /\ ~(poll[r] = "claiming" /\ m = Head(todo[r]))
    => EverClaimed(m) \/ m \in skipped[r]

LEMMA SkippedStep ==
    ASSUME Typed, BatchesAhead, CursorsOrdered, NothingSkipped, NEW r \in Runs, RunStep(r)
    PROVE  NothingSkipped'
<1>p. \A p \in Runs : \A n \in Published : Passed(p, n)
    BY DEF NothingSkipped, Passed
<1> SUFFICES ASSUME NEW q \in Runs, NEW m \in Published' PROVE Passed(q, m)'
    BY DEF NothingSkipped, Passed
<1>g. /\ Published \subseteq Published' /\ \A n \in Published : stream'[n] = stream[n]
      /\ topology' = topology /\ oldest' \in Nat /\ oldest' >= oldest
      /\ Published' # Published => UNCHANGED <<claims, node, saved, skipped>>
                                   /\ \A n \in Published' \ Published : n > Len(stream)
    BY StreamGrows
<1>i. /\ Len(stream) \in Nat /\ cursor[q] \in Nat /\ saved[q] \in Nat /\ oldest \in Nat
      /\ cursor[q] <= Len(stream) /\ saved[q] <= Len(stream)
    BY DEF Typed, CursorsOrdered
<1>c. EverClaimed(m) /\ m \in Messages => EverClaimed(m)'
    <2>1. lapses' = lapses /\ lapses[m] = lapses'[m]
        BY ClaimsStep
    <2>2. CASE claims' = claims
        BY <2>1, <2>2 DEF EverClaimed, TimesClaimed
    <2>3. CASE SetNx(Head(todo[r]), r)
        <3>1. m \in Messages /\ claims[m] # None => claims'[m] # None
            BY <2>3, BusAssumption DEF SetNx, Typed
        <3>2. m \in Messages => lapses[m] \in Nat
            BY DEF Typed
        <3> QED BY <2>1, <3>1, <3>2 DEF EverClaimed, TimesClaimed
    <2> QED BY <2>2, <2>3, ClaimsStep
<1>1. CASE Published' # Published
    <2>1. CASE m \in Published
        <3>1. Passed(q, m)
            BY <1>p, <2>1
        <3>2. UNCHANGED <<claims, lapses, skipped, saved, cursor, poll, todo>>
            BY <1>1, <1>g, ClaimsStep DEF node
        <3>3. Wanted(q, m)' <=> Wanted(q, m)
            BY <1>g, <2>1 DEF Wanted
        <3>4. m >= oldest' => m >= oldest
            BY <1>g, <1>i, <2>1 DEF Published
        <3> QED BY <3>1, <3>2, <3>3, <3>4 DEF Passed, EverClaimed, TimesClaimed
    <2>2. CASE m \notin Published
        <3>1. m > Len(stream) /\ UNCHANGED <<cursor, saved>>
            BY <1>1, <1>g, <2>2 DEF node
        <3>2. m \in Nat
            BY DEF Published
        <3> QED BY <1>i, <3>1, <3>2 DEF Passed
    <2> QED BY <2>1, <2>2
<1>2. CASE Published' = Published
    <2>m. m \in Published /\ m \in Nat /\ m \in Messages
        <3>1. m \in Published
            BY <1>2
        <3>2. Len(stream) <= MaxMessages /\ MaxMessages \in Nat
            BY BusAssumption DEF Typed
        <3> QED BY <1>i, <3>1, <3>2 DEF Published, Messages
    <2>w. Wanted(q, m)' <=> Wanted(q, m)
        BY <1>g, <2>m DEF Wanted
    <2>o. m >= oldest' => m >= oldest
        BY <1>g, <1>i, <2>m
    <2>c. EverClaimed(m) => EverClaimed(m)'
        BY <1>c, <2>m
    <2>p. Passed(q, m)
        BY <1>p, <2>m
    <2>1. \/ Publish(r) \/ PollStep(r) \/ DrainStep(r) \/ PollFails(r) \/ DecodeFails(r)
           \/ Start(r) \/ CancelPoll(r) \/ StopStep(r) \/ SaveFails(r) \/ Kill(r)
        BY DEF RunStep
    <2>2. m \in skipped[q] => m \in skipped'[q]
        <3>1. CASE GiveUp(r)
            BY <3>1 DEF GiveUp, Typed
        <3>3. CASE DecodeFails(r)
            BY <3>3 DEF DecodeFails, Typed
        <3>2. CASE ~GiveUp(r) /\ ~DecodeFails(r)
            BY <2>1, <3>2 DEF Publish, PollStep, Read, Consider, Claim, Deliver, DrainStep, Drain,
               Import, PollFails, Start, CancelPoll, StopStep, SaveCursor, Exit, SaveFails, Kill
        <3> QED BY <3>1, <3>2, <3>3
    \* Enough: a message newly behind the cursor, or no longer being claimed.
    <2>k. ASSUME /\ m <= cursor'[q] \/ m <= saved'[q] => m <= cursor[q] \/ m <= saved[q]
                 /\ poll[q] = "claiming" /\ m = Head(todo[q]) =>
                      \/ poll'[q] = "claiming" /\ todo'[q] = todo[q]
                      \/ EverClaimed(m)' \/ m \in skipped'[q]
                      \/ ~(m <= cursor'[q] \/ m <= saved'[q])
          PROVE  Passed(q, m)'
        BY <2>p, <2>w, <2>o, <2>c, <2>2, <2>k DEF Passed
    <2>3. CASE q # r
        <3>1. CASE Publish(r)
            BY <2>k, <3>1 DEF Publish, node
        <3>2. CASE ~Publish(r)
            <4>1. /\ poll'[q] = poll[q] /\ todo'[q] = todo[q] /\ cursor'[q] = cursor[q]
                  /\ saved'[q] = saved[q]
                BY <2>1, <2>3, <3>2 DEF PollStep, Read, Consider, Claim, Deliver, DrainStep, Drain, Import,
                   PollFails, DecodeFails, Start, CancelPoll, StopStep, SaveCursor, Exit, SaveFails, Kill, Forget,
                   Typed, bus
            <4> QED BY <2>k, <4>1
        <3> QED BY <3>1, <3>2
    <2>4. CASE q = r /\ Consider(r)
        <3>1. poll[r] = "considering" /\ todo[r] # <<>>
            BY <2>4 DEF Consider
        <3>2. /\ Head(todo[r]) = todo[r][1] /\ todo[r][1] \in Published
              /\ \A n \in Published : cursor[r] < n /\ n < todo[r][1] => n < oldest
            BY <3>1, HeadFacts DEF BatchesAhead
        <3>3. cursor'[q] = todo[r][1] /\ saved' = saved /\ oldest' = oldest
            BY <2>4, <3>2 DEF Consider, Typed, bus
        <3>4. CASE m <= cursor[q] \/ m <= saved[q]
            <4>1. poll[q] # "claiming"
                BY <2>4, <3>1
            <4> QED BY <2>k, <3>4, <4>1
        <3>5. CASE ~(m <= cursor[q] \/ m <= saved[q])
            <4>1. todo[r][1] \in Nat
                BY <3>2 DEF Published
            <4>2. CASE m < todo[r][1]
                BY <1>i, <2>4, <2>m, <3>2, <3>3, <3>5, <4>1, <4>2 DEF Passed
            <4>3. CASE m > todo[r][1]
                BY <1>i, <2>4, <2>m, <3>3, <3>5, <4>1, <4>3 DEF Passed
            <4>4. CASE m = todo[r][1]
                <5>1. CASE Wanted(r, m)
                    <6>1. poll'[q] = "claiming" /\ todo' = todo
                        BY <2>4, <3>2, <4>4, <5>1 DEF Consider, Typed
                    <6> QED BY <2>4, <3>2, <4>4, <6>1 DEF Passed
                <5>2. CASE ~Wanted(r, m)
                    BY <2>4, <2>w, <5>2 DEF Passed
                <5> QED BY <5>1, <5>2
            <4> QED BY <2>m, <4>1, <4>2, <4>3, <4>4
        <3> QED BY <3>4, <3>5
    <2>5. CASE q = r /\ Claim(r)
        <3>1. UNCHANGED <<cursor, saved>>
            BY <2>5 DEF Claim
        <3>2. poll[q] = "claiming" /\ m = Head(todo[q]) => EverClaimed(m)'
            <4>1. m = Head(todo[r]) => claims'[m] # None
                BY <2>5, <2>m, BusAssumption DEF Claim, SetNx, Typed
            <4>2. lapses'[m] \in Nat
                BY <2>m, ClaimsStep DEF Typed
            <4> QED BY <2>5, <4>1, <4>2 DEF EverClaimed, TimesClaimed
        <3> QED BY <2>k, <3>1, <3>2
    <2>6. CASE q = r /\ (PollFails(r) \/ CancelPoll(r))
        <3>1. UNCHANGED <<cursor, saved>> /\ GiveUp(r)
            BY <2>6 DEF PollFails, CancelPoll
        <3>2. poll[q] = "claiming" /\ m = Head(todo[q]) => m \in skipped'[q]
            BY <2>6, <3>1 DEF GiveUp, Typed
        <3> QED BY <2>k, <3>1, <3>2
    <2>7. CASE q = r /\ Kill(r)
        <3>1. cursor'[q] = 0 /\ saved' = saved
            BY <2>7 DEF Kill, Forget, Typed
        <3>2. poll[q] = "claiming" /\ m = Head(todo[q]) => ~(m <= cursor'[q] \/ m <= saved'[q])
            <4> SUFFICES ASSUME poll[q] = "claiming", m = Head(todo[q])
                         PROVE  ~(m <= cursor'[q] \/ m <= saved'[q])
                OBVIOUS
            <4>1. m = cursor[q] /\ saved[q] < cursor[q]
                BY HeadFacts DEF BatchesAhead
            <4> QED BY <1>i, <2>m, <3>1, <4>1
        <3> QED BY <1>i, <2>k, <2>m, <3>1, <3>2
    <2>8. CASE q = r /\ (Start(r) \/ Exit(r) \/ SaveCursor(r))
        <3>1. poll[q] # "claiming"
            BY <2>8 DEF Start, Exit, SaveCursor
        <3>2. m <= cursor'[q] \/ m <= saved'[q] => m <= cursor[q] \/ m <= saved[q]
            BY <1>i, <2>8, <2>m DEF Start, Restored, Exit, Forget, SaveCursor, Position, Typed, bus
        <3> QED BY <2>k, <3>1, <3>2
    <2>9. CASE q = r /\ (Publish(r) \/ Read(r) \/ Deliver(r) \/ DrainStep(r) \/ SaveFails(r))
        <3>1. UNCHANGED <<cursor, saved>>
            BY <2>9 DEF Publish, Read, Deliver, DrainStep, Drain, Import, SaveFails, node, bus
        <3>2. poll[q] = "claiming" => poll'[q] = "claiming" /\ todo'[q] = todo[q]
            BY <2>9 DEF Publish, Read, Deliver, DrainStep, Drain, Import, SaveFails, node, bus
        <3> QED BY <2>k, <3>1, <3>2
    <2>10. CASE q = r /\ DecodeFails(r)
        <3>1. poll[r] = "considering" /\ todo[r] # <<>>
            BY <2>10 DEF DecodeFails
        <3>2. /\ Head(todo[r]) = todo[r][1] /\ todo[r][1] \in Published
              /\ \A n \in Published : cursor[r] < n /\ n < todo[r][1] => n < oldest
            BY <3>1, HeadFacts DEF BatchesAhead
        <3>3. /\ cursor'[q] = todo[r][1] /\ saved' = saved /\ oldest' = oldest
              /\ todo[r][1] \in skipped'[q] /\ todo[r][1] \in Nat
            <4>1. skipped'[r] = skipped[r] \union {Head(todo[r])} /\ cursor'[r] = Head(todo[r])
                BY <2>10 DEF DecodeFails, Typed
            <4>2. saved' = saved /\ oldest' = oldest
                BY <2>10 DEF DecodeFails, bus
            <4>3. todo[r][1] \in Nat
                BY <3>2 DEF Published
            <4> QED BY <2>10, <3>2, <4>1, <4>2, <4>3
        <3>4. CASE m <= cursor[q] \/ m <= saved[q]
            <4>1. poll[q] # "claiming"
                BY <2>10, <3>1
            <4> QED BY <2>k, <3>4, <4>1
        <3>5. CASE ~(m <= cursor[q] \/ m <= saved[q])
            <4>1. CASE m < todo[r][1]
                BY <1>i, <2>10, <2>m, <3>2, <3>3, <3>5, <4>1 DEF Passed
            <4>2. CASE m > todo[r][1]
                BY <1>i, <2>10, <2>m, <3>3, <3>5, <4>2 DEF Passed
            <4>3. CASE m = todo[r][1]
                BY <3>3, <4>3 DEF Passed
            <4> QED BY <2>m, <3>3, <4>1, <4>2, <4>3
        <3> QED BY <3>4, <3>5
    <2> QED BY <2>1, <2>3, <2>4, <2>5, <2>6, <2>7, <2>8, <2>9, <2>10 DEF PollStep, StopStep
<1> QED BY <1>1, <1>2

-----------------------------------------------------------------------------
(* What the runs hold *)

\* The part of HeldOnce about one run.
HeldBy(r) ==
    /\ IsInjective(got[r]) /\ IsInjective(buffer[r]) /\ IsInjective(arrivals[r])
    /\ Range(got[r]) \intersect Range(buffer[r]) = {}
    /\ Range(got[r]) \intersect Range(arrivals[r]) = {}
    /\ Range(buffer[r]) \intersect Range(arrivals[r]) = {}

LEMMA HeldAreMessages ==
    ASSUME Typed, NEW r \in Runs
    PROVE  Held(r) \subseteq Messages
<1>1. \A s \in Seq(Messages) : Range(s) \subseteq Messages
    <2> SUFFICES ASSUME NEW s \in Seq(Messages), NEW k \in DOMAIN s PROVE s[k] \in Messages
        BY DEF Range
    <2> QED OBVIOUS
<1> QED BY <1>1 DEF Held, Typed

\* A run's step never hands on a claim that stands, and every claim is counted.
LEMMA ClaimsStand ==
    ASSUME Typed, BatchesAhead, NEW r \in Runs, RunStep(r), NEW m \in Messages
    PROVE  /\ claims[m] # None => claims'[m] = claims[m]
           /\ TimesClaimed(m) \in Nat /\ TimesClaimed(m)' \in Nat
           /\ TimesClaimed(m) <= TimesClaimed(m)' /\ lapses'[m] = lapses[m]
<1>1. claims[m] # None => claims'[m] = claims[m]
    <2>1. CASE SetNx(Head(todo[r]), r)
        BY <2>1 DEF SetNx, Typed
    <2> QED BY <2>1, ClaimsStep
<1>2. lapses'[m] = lapses[m] /\ lapses[m] \in Nat
    BY ClaimsStep DEF Typed
<1> QED BY <1>1, <1>2 DEF TimesClaimed

\* The step of a run leaves alone what the others hold.
LEMMA OthersHold ==
    ASSUME Typed, NEW r \in Runs, RunStep(r)
    PROVE  \A q \in Runs \ {r} : /\ got'[q] = got[q] /\ buffer'[q] = buffer[q]
                                  /\ arrivals'[q] = arrivals[q]
<1>1. \/ Publish(r) \/ PollStep(r) \/ DrainStep(r) \/ PollFails(r) \/ DecodeFails(r)
      \/ Start(r) \/ CancelPoll(r) \/ StopStep(r) \/ SaveFails(r) \/ Kill(r)
    BY DEF RunStep
<1>2. SUFFICES ASSUME NEW q \in Runs \ {r}
               PROVE  /\ got'[q] = got[q] /\ buffer'[q] = buffer[q] /\ arrivals'[q] = arrivals[q]
    OBVIOUS
<1>3. CASE Publish(r)
    BY <1>3 DEF Publish, node
<1>4. CASE PollStep(r)
    BY <1>4 DEF PollStep, Read, Consider, Claim, Deliver, Typed
<1>5. CASE DrainStep(r)
    <2>1. CASE Drain(r)
        <3>1. got' = got
            BY <2>1 DEF Drain
        <3>2. buffer'[q] = buffer[q] /\ arrivals'[q] = arrivals[q]
            BY <2>1 DEF Drain, Typed
        <3> QED BY <3>1, <3>2
    <2>2. CASE Import(r)
        BY <2>2 DEF Import, Typed
    <2> QED BY <1>5, <2>1, <2>2 DEF DrainStep
<1>6. CASE PollFails(r) \/ DecodeFails(r) \/ CancelPoll(r)
    BY <1>6 DEF PollFails, DecodeFails, CancelPoll, Typed
<1>7. CASE Start(r) \/ StopStep(r) \/ SaveFails(r) \/ Kill(r)
    BY <1>7 DEF Start, StopStep, SaveCursor, Exit, SaveFails, Kill, Forget, Typed
<1> QED BY <1>1, <1>3, <1>4, <1>5, <1>6, <1>7

\* A run claims a message it does not hold: its cursor has just come to it.
LEMMA NewToHolder ==
    ASSUME Typed, BatchesAhead, HeldBehind, NEW r \in Runs, Claim(r)
    PROVE  Head(todo[r]) \notin Held(r)
<1>1. poll[r] = "claiming"
    BY DEF Claim
<1>2. Head(todo[r]) = cursor[r]
    BY <1>1, HeadFacts DEF BatchesAhead
<1> QED BY <1>1, <1>2 DEF HeldBehind

LEMMA HeldOnceStep ==
    ASSUME Typed, BatchesAhead, HeldBehind, HeldOnce, NEW r \in Runs, RunStep(r)
    PROVE  HeldOnce'
<1>a. \A q \in Runs : HeldBy(q)
    BY DEF HeldOnce, HeldBy
<1>0. \A q \in Runs \ {r} : /\ got'[q] = got[q] /\ buffer'[q] = buffer[q]
                             /\ arrivals'[q] = arrivals[q]
    BY OthersHold
<1>1. \/ Publish(r) \/ PollStep(r) \/ DrainStep(r) \/ PollFails(r) \/ DecodeFails(r)
      \/ Start(r) \/ CancelPoll(r) \/ StopStep(r) \/ SaveFails(r) \/ Kill(r)
    BY DEF RunStep
<1>b. HeldBy(r)
    BY <1>a
<1>s. /\ got \in [Runs -> Seq(Messages)] /\ buffer \in [Runs -> Seq(Messages)]
      /\ arrivals \in [Runs -> Seq(Messages)]
      /\ got[r] \in Seq(Messages) /\ buffer[r] \in Seq(Messages) /\ arrivals[r] \in Seq(Messages)
    BY DEF Typed
<1>2. SUFFICES HeldBy(r)'
    BY <1>0, <1>a DEF HeldOnce, HeldBy
<1>3. CASE UNCHANGED <<got, buffer, arrivals>>
    BY <1>3, <1>b DEF HeldBy
<1>4. CASE Claim(r)
    <2> DEFINE m == Head(todo[r])
    <2>1. m \in Messages /\ UNCHANGED <<buffer, arrivals>>
        BY <1>4, HeadFacts DEF Claim
    <2>2. CASE ~Won(m)
        BY <1>4, <1>b, <2>1, <2>2 DEF Claim, HeldBy
    <2>3. CASE Won(m)
        <3>1. got'[r] = Append(got[r], m)
            BY <1>4, <1>s, <2>3 DEF Claim
        <3>2. m \notin Held(r)
            BY <1>4, NewToHolder
        <3>3. IsInjective(Append(got[r], m)) /\ Range(Append(got[r], m)) = Range(got[r]) \union {m}
            BY <1>b, <1>s, <2>1, <3>2, AppendOnce DEF HeldBy, Held
        <3>4. IsInjective(got'[r]) /\ Range(got'[r]) = Range(got[r]) \union {m}
            BY <3>1, <3>3
        <3>5. buffer'[r] = buffer[r] /\ arrivals'[r] = arrivals[r]
            BY <2>1
        <3> HIDE DEF m
        <3> QED BY <1>b, <3>2, <3>4, <3>5 DEF HeldBy, Held
    <2> QED BY <2>2, <2>3
<1>5. CASE Deliver(r)
    <2> DEFINE t == buffer[r] \o got[r]
    <2>1. t \in Seq(Messages) /\ IsInjective(t) /\ Range(t) = Range(buffer[r]) \union Range(got[r])
        BY <1>b, <1>s, ConcatOnce DEF HeldBy
    <2>2. IsInjective(Keep(t)) /\ Range(Keep(t)) \subseteq Range(buffer[r]) \union Range(got[r])
        BY <2>1, KeepIsPart
    <2>3. buffer'[r] = Keep(t) /\ got'[r] = <<>> /\ arrivals'[r] = arrivals[r]
        BY <1>5, <1>s DEF Deliver
    <2>4. /\ IsInjective(buffer'[r]) /\ Range(buffer'[r]) \subseteq Range(buffer[r]) \union Range(got[r])
          /\ IsInjective(got'[r]) /\ Range(got'[r]) = {}
        BY <2>2, <2>3, NothingOnce
    <2> QED BY <1>b, <2>3, <2>4 DEF HeldBy
<1>6. CASE Drain(r)
    <2>1. Len(buffer[r]) \in Nat /\ MaxImports \in Nat
        BY <1>s, BusAssumption
    <2>2. (IF Len(buffer[r]) < MaxImports THEN Len(buffer[r]) ELSE MaxImports) \in 0 .. Len(buffer[r])
        BY <2>1
    <2>3. PICK n \in 0 .. Len(buffer[r]) :
            /\ arrivals' = [arrivals EXCEPT ![r] = SubSeq(buffer[r], 1, n)]
            /\ buffer' = [buffer EXCEPT ![r] = SubSeq(buffer[r], n + 1, Len(buffer[r]))]
        BY <1>6, <2>2 DEF Drain
    <2>4. /\ arrivals'[r] = SubSeq(buffer[r], 1, n) /\ got'[r] = got[r]
          /\ buffer'[r] = SubSeq(buffer[r], n + 1, Len(buffer[r]))
        BY <1>6, <1>s, <2>3 DEF Drain
    <2>5. /\ IsInjective(arrivals'[r]) /\ IsInjective(buffer'[r])
          /\ Range(arrivals'[r]) \subseteq Range(buffer[r]) /\ Range(buffer'[r]) \subseteq Range(buffer[r])
          /\ Range(arrivals'[r]) \intersect Range(buffer'[r]) = {}
        BY <1>b, <1>s, <2>4, PartOnce DEF HeldBy
    <2> QED BY <1>b, <2>4, <2>5 DEF HeldBy
<1>7. CASE Import(r)
    <2>1. arrivals'[r] = Tail(arrivals[r]) /\ got'[r] = got[r] /\ buffer'[r] = buffer[r]
        BY <1>7, <1>s DEF Import
    <2>2. arrivals[r] # <<>>
        BY <1>7 DEF Import
    <2>3. IsInjective(arrivals'[r]) /\ Range(arrivals'[r]) \subseteq Range(arrivals[r])
        BY <1>b, <1>s, <2>1, <2>2, TailOnce DEF HeldBy
    <2> QED BY <1>b, <2>1, <2>3 DEF HeldBy
<1>8. CASE PollFails(r) \/ DecodeFails(r) \/ CancelPoll(r)
    <2>1. got'[r] = <<>> /\ buffer'[r] = buffer[r] /\ arrivals'[r] = arrivals[r]
        BY <1>8, <1>s DEF PollFails, DecodeFails, CancelPoll
    <2>2. IsInjective(got'[r]) /\ Range(got'[r]) = {}
        BY <2>1, NothingOnce
    <2> QED BY <1>b, <2>1, <2>2 DEF HeldBy
<1>9. CASE Forget(r)
    <2>1. got'[r] = <<>> /\ buffer'[r] = <<>> /\ arrivals'[r] = <<>>
        BY <1>9, <1>s DEF Forget
    <2>2. /\ IsInjective(got'[r]) /\ Range(got'[r]) = {}
          /\ IsInjective(buffer'[r]) /\ Range(buffer'[r]) = {}
          /\ IsInjective(arrivals'[r]) /\ Range(arrivals'[r]) = {}
        BY <2>1, NothingOnce
    <2> QED BY <2>2 DEF HeldBy
<1> QED BY <1>1, <1>3, <1>4, <1>5, <1>6, <1>7, <1>8, <1>9
        DEF Publish, PollStep, Read, Consider, DrainStep, Start, StopStep, SaveCursor, Exit,
            SaveFails, Kill, node

LEMMA ForgottenHoldsNothing ==
    ASSUME Typed, NEW r \in Runs, Forget(r)
    PROVE  Held(r)' = {}
<1>1. got'[r] = <<>> /\ buffer'[r] = <<>> /\ arrivals'[r] = <<>>
    BY DEF Forget, Typed
<1> QED BY <1>1, NothingOnce DEF Held

\* What a step does to what the runs hold: the run that moves holds less, or one
\* message more that it has just claimed, or one less that it imports.
Takes(r) == /\ Claim(r) /\ Won(Head(todo[r])) /\ imports' = imports
            /\ Held(r)' = Held(r) \union {Head(todo[r])}
Spends(r) == /\ Import(r) /\ Head(arrivals[r]) \in Held(r) /\ Head(arrivals[r]) \notin Held(r)'
             /\ Held(r)' \subseteq Held(r)
             /\ imports' = [imports EXCEPT ![Head(arrivals[r])] = imports[Head(arrivals[r])] + 1]
LEMMA HeldChange ==
    ASSUME Typed, BatchesAhead, HeldBehind, HeldOnce, NEW r \in Runs, RunStep(r)
    PROVE  /\ \A q \in Runs \ {r} : Held(q)' = Held(q)
           /\ \/ imports' = imports /\ Held(r)' \subseteq Held(r)
              \/ Takes(r)
              \/ Spends(r)
<1>1. \/ Publish(r) \/ PollStep(r) \/ DrainStep(r) \/ PollFails(r) \/ DecodeFails(r)
      \/ Start(r) \/ CancelPoll(r) \/ StopStep(r) \/ SaveFails(r) \/ Kill(r)
    BY DEF RunStep
<1>b. HeldBy(r)
    BY DEF HeldOnce, HeldBy
<1>s. /\ got \in [Runs -> Seq(Messages)] /\ buffer \in [Runs -> Seq(Messages)]
      /\ arrivals \in [Runs -> Seq(Messages)]
      /\ got[r] \in Seq(Messages) /\ buffer[r] \in Seq(Messages) /\ arrivals[r] \in Seq(Messages)
    BY DEF Typed
<1>o. \A q \in Runs \ {r} : Held(q)' = Held(q)
    BY OthersHold DEF Held
<1>2. SUFFICES \/ imports' = imports /\ Held(r)' \subseteq Held(r)
               \/ Takes(r)
               \/ Spends(r)
    BY <1>o
<1>3. CASE UNCHANGED <<got, buffer, arrivals, imports>>
    BY <1>3 DEF Held
<1>4. CASE Claim(r)
    <2> DEFINE m == Head(todo[r])
    <2>1. m \in Messages /\ UNCHANGED <<buffer, arrivals, imports>>
        BY <1>4, HeadFacts DEF Claim
    <2>2. CASE ~Won(m)
        BY <1>4, <2>1, <2>2 DEF Claim, Held
    <2>3. CASE Won(m)
        <3>1. got'[r] = Append(got[r], m)
            BY <1>4, <1>s, <2>3 DEF Claim
        <3>2. m \notin Held(r)
            BY <1>4, NewToHolder
        <3>3. Range(Append(got[r], m)) = Range(got[r]) \union {m}
            BY <1>b, <1>s, <2>1, <3>2, AppendOnce DEF HeldBy, Held
        <3>4. Held(r)' = Held(r) \union {m}
            BY <2>1, <3>1, <3>3 DEF Held
        <3> QED BY <1>4, <2>1, <2>3, <3>4 DEF Takes
    <2> QED BY <2>2, <2>3
<1>5. CASE Deliver(r)
    <2> DEFINE t == buffer[r] \o got[r]
    <2>1. t \in Seq(Messages) /\ IsInjective(t) /\ Range(t) = Range(buffer[r]) \union Range(got[r])
        BY <1>b, <1>s, ConcatOnce DEF HeldBy
    <2>2. Range(Keep(t)) \subseteq Range(buffer[r]) \union Range(got[r])
        BY <2>1, KeepIsPart
    <2>3. buffer'[r] = Keep(t) /\ got'[r] = <<>> /\ arrivals'[r] = arrivals[r] /\ imports' = imports
        BY <1>5, <1>s DEF Deliver
    <2>4. Range(buffer'[r]) \subseteq Range(buffer[r]) \union Range(got[r]) /\ Range(got'[r]) = {}
        BY <2>2, <2>3, NothingOnce
    <2> QED BY <2>3, <2>4 DEF Held
<1>6. CASE Drain(r)
    <2>1. Len(buffer[r]) \in Nat /\ MaxImports \in Nat
        BY <1>s, BusAssumption
    <2>2. (IF Len(buffer[r]) < MaxImports THEN Len(buffer[r]) ELSE MaxImports) \in 0 .. Len(buffer[r])
        BY <2>1
    <2>3. PICK n \in 0 .. Len(buffer[r]) :
            /\ arrivals' = [arrivals EXCEPT ![r] = SubSeq(buffer[r], 1, n)]
            /\ buffer' = [buffer EXCEPT ![r] = SubSeq(buffer[r], n + 1, Len(buffer[r]))]
        BY <1>6, <2>2 DEF Drain
    <2>4. /\ arrivals'[r] = SubSeq(buffer[r], 1, n) /\ got'[r] = got[r] /\ imports' = imports
          /\ buffer'[r] = SubSeq(buffer[r], n + 1, Len(buffer[r]))
        BY <1>6, <1>s, <2>3 DEF Drain
    <2>5. Range(arrivals'[r]) \subseteq Range(buffer[r]) /\ Range(buffer'[r]) \subseteq Range(buffer[r])
        BY <1>b, <1>s, <2>4, PartOnce DEF HeldBy
    <2> QED BY <2>4, <2>5 DEF Held
<1>7. CASE Import(r)
    <2> DEFINE m == Head(arrivals[r])
    <2>1. arrivals'[r] = Tail(arrivals[r]) /\ got'[r] = got[r] /\ buffer'[r] = buffer[r]
        BY <1>7, <1>s DEF Import
    <2>2. arrivals[r] # <<>>
        BY <1>7 DEF Import
    <2>3. /\ Range(arrivals'[r]) \subseteq Range(arrivals[r]) /\ m \in Range(arrivals[r])
          /\ m \notin Range(arrivals'[r])
        BY <1>b, <1>s, <2>1, <2>2, TailOnce DEF HeldBy
    <2>4. Held(r)' \subseteq Held(r) /\ m \in Held(r) /\ m \notin Held(r)'
        BY <1>b, <2>1, <2>3 DEF Held, HeldBy
    <2>5. imports' = imports \/ imports' = [imports EXCEPT ![m] = imports[m] + 1]
        BY <1>7 DEF Import
    <2> QED BY <1>7, <2>4, <2>5 DEF Spends
<1>8. CASE PollFails(r) \/ DecodeFails(r) \/ CancelPoll(r)
    <2>1. got'[r] = <<>> /\ buffer'[r] = buffer[r] /\ arrivals'[r] = arrivals[r] /\ imports' = imports
        BY <1>8, <1>s DEF PollFails, DecodeFails, CancelPoll
    <2>2. Range(got'[r]) = {}
        BY <2>1, NothingOnce
    <2> QED BY <2>1, <2>2 DEF Held
<1>9. CASE Exit(r) \/ Kill(r)
    <2>1. imports' = imports /\ Held(r)' = {}
        BY <1>9, ForgottenHoldsNothing DEF Exit, Kill
    <2> QED BY <2>1
<1> QED BY <1>1, <1>3, <1>4, <1>5, <1>6, <1>7, <1>8, <1>9
        DEF Publish, PollStep, Read, Consider, DrainStep, Start, StopStep, SaveCursor, SaveFails, node

\* What a run holds lies behind its cursor, which it has just moved on before it
\* claims, and a process that is gone holds nothing.
LEMMA BehindStep ==
    ASSUME Typed, BatchesAhead, CursorsOrdered, HeldBehind, HeldOnce, NEW r \in Runs, RunStep(r)
    PROVE  HeldBehind'
<1>1. \/ Publish(r) \/ PollStep(r) \/ DrainStep(r) \/ PollFails(r) \/ DecodeFails(r)
      \/ Start(r) \/ CancelPoll(r) \/ StopStep(r) \/ SaveFails(r) \/ Kill(r)
    BY DEF RunStep
<1>c. /\ \A q \in Runs \ {r} : Held(q)' = Held(q)
      /\ \/ imports' = imports /\ Held(r)' \subseteq Held(r)
         \/ Takes(r)
         \/ Spends(r)
    BY HeldChange
<1>l. ~Claim(r) => Held(r)' \subseteq Held(r)
    BY <1>c DEF Takes, Spends
<1>n. /\ cursor[r] \in Nat /\ \A m \in Held(r) : m \in Nat
      /\ \A m \in Held(r) : m <= cursor[r]
    <2>1. \A m \in Held(r) : m \in Messages
        BY HeldAreMessages
    <2>2. cursor[r] \in Nat
        BY DEF Typed
    <2>3. \A m \in Held(r) : m <= cursor[r]
        BY DEF HeldBehind
    <2> QED BY <2>1, <2>2, <2>3 DEF Messages
<1>q. ASSUME NEW q \in Runs \ {r} PROVE poll'[q] = poll[q] /\ cursor'[q] = cursor[q]
    <2>1. CASE Publish(r)
        BY <2>1 DEF Publish, node
    <2>2. CASE ~Publish(r)
        BY <1>1, <2>2 DEF PollStep, Read, Consider, Claim, Deliver, DrainStep, Drain, Import, PollFails,
           DecodeFails, Start, CancelPoll, StopStep, SaveCursor, Exit, SaveFails, Kill, Forget, Typed, bus
    <2> QED BY <2>1, <2>2
<1>2. SUFFICES /\ poll'[r] = "down" => Held(r)' = {}
               /\ \A m \in Held(r)' : m <= cursor'[r] /\ (poll'[r] = "claiming" => m # cursor'[r])
    BY <1>c, <1>q DEF HeldBehind
<1>3. CASE Publish(r) \/ DrainStep(r)
    <2>1. UNCHANGED <<poll, cursor>> /\ ~Claim(r)
        BY <1>3 DEF Publish, DrainStep, Drain, Import, Claim, node, Typed
    <2> QED BY <1>l, <2>1 DEF HeldBehind
<1>4. CASE Consider(r) \/ DecodeFails(r)
    <2>1. poll[r] = "considering" /\ todo[r] # <<>> /\ ~Claim(r)
        BY <1>4 DEF Consider, DecodeFails, Claim
    <2>2. Head(todo[r]) = todo[r][1] /\ todo[r][1] \in Messages /\ cursor[r] < todo[r][1]
        BY <2>1, HeadFacts DEF BatchesAhead
    <2>3. cursor'[r] = todo[r][1] /\ poll'[r] # "down"
        BY <1>4, <2>1, <2>2 DEF Consider, DecodeFails, Typed
    <2>4. todo[r][1] \in Nat
        BY <2>2 DEF Messages
    <2> QED BY <1>l, <1>n, <2>1, <2>2, <2>3, <2>4
<1>5. CASE Claim(r)
    <2>1. Head(todo[r]) = cursor[r] /\ cursor' = cursor /\ poll'[r] = "considering"
        BY <1>5, HeadFacts DEF Claim, BatchesAhead, Typed
    <2>2. Held(r)' \subseteq Held(r) \union {cursor[r]}
        BY <1>c, <2>1 DEF Takes, Spends
    <2> QED BY <1>n, <2>1, <2>2
<1>6. CASE Start(r)
    <2>1. poll[r] = "down" /\ ~Claim(r)
        BY <1>6 DEF Start, Claim
    <2>2. Held(r)' = {}
        BY <1>l, <2>1 DEF HeldBehind
    <2> QED BY <2>2
<1>7. CASE Exit(r) \/ Kill(r)
    BY <1>7, ForgottenHoldsNothing DEF Exit, Kill
<1>8. CASE Read(r) \/ Deliver(r) \/ PollFails(r) \/ CancelPoll(r) \/ SaveCursor(r) \/ SaveFails(r)
    <2>1. cursor' = cursor /\ poll'[r] \notin {"down", "claiming"}
        BY <1>8 DEF Read, Deliver, PollFails, CancelPoll, SaveCursor, SaveFails, Typed
    <2>2. ~Claim(r)
        BY <1>8, <2>1 DEF Read, Deliver, PollFails, CancelPoll, SaveCursor, SaveFails, Claim, Typed
    <2> QED BY <1>l, <1>n, <2>1, <2>2
<1> QED BY <1>1, <1>3, <1>4, <1>5, <1>6, <1>7, <1>8 DEF PollStep, StopStep

\* The holders of a message are finitely many, and how their number changes.
LEMMA HoldersCounted ==
    ASSUME NEW S \in SUBSET Runs, NEW T \in SUBSET Runs, NEW r \in Runs
    PROVE  /\ Cardinality(S) \in Nat /\ Cardinality(T) \in Nat
           /\ T \subseteq S => Cardinality(T) <= Cardinality(S)
           /\ T = S \union {r} => Cardinality(T) <= Cardinality(S) + 1
           /\ T \subseteq S \ {r} /\ r \in S => Cardinality(T) + 1 <= Cardinality(S)
<1>1. IsFiniteSet(S) /\ IsFiniteSet(T)
    BY BusAssumption, FS_Subset
<1>2. Cardinality(S) \in Nat /\ Cardinality(T) \in Nat
    BY <1>1, FS_CardinalityType
<1>3. T \subseteq S => Cardinality(T) <= Cardinality(S)
    BY <1>1, FS_Subset
<1>4. T = S \union {r} => Cardinality(T) <= Cardinality(S) + 1
    BY <1>1, <1>2, FS_AddElement
<1>5. ASSUME T \subseteq S \ {r}, r \in S PROVE Cardinality(T) + 1 <= Cardinality(S)
    <2>1. IsFiniteSet(S \ {r}) /\ Cardinality(S \ {r}) = Cardinality(S) - 1
        BY <1>1, <1>5, FS_RemoveElement
    <2>2. Cardinality(T) <= Cardinality(S \ {r})
        BY <1>5, <2>1, FS_Subset
    <2> QED BY <1>2, <2>1, <2>2
<1> QED BY <1>2, <1>3, <1>4, <1>5

\* Every claim won is one holder more, every import one less.
LEMMA HeldStep ==
    ASSUME Typed, BatchesAhead, HeldBehind, HeldOnce, HeldIsClaimed, NEW r \in Runs, RunStep(r)
    PROVE  HeldIsClaimed'
<1>o. \A q \in Runs \ {r} : Held(q)' = Held(q)
    BY HeldChange
<1>c. \/ imports' = imports /\ Held(r)' \subseteq Held(r)
      \/ Takes(r)
      \/ Spends(r)
    BY HeldChange
<1>1. ASSUME NEW m \in Messages
      PROVE  imports'[m] + Cardinality(HoldersOf(m)') <= TimesClaimed(m)'
    <2> DEFINE H == HoldersOf(m)
               H2 == HoldersOf(m)'
    <2>1. H \in SUBSET Runs /\ H2 \in SUBSET Runs
        BY DEF HoldersOf
    <2>2. \A q \in Runs \ {r} : q \in H2 <=> q \in H
        BY <1>o DEF HoldersOf
    <2>3. (r \in H <=> m \in Held(r)) /\ (r \in H2 <=> m \in Held(r)')
        BY DEF HoldersOf
    <2>4. imports[m] + Cardinality(H) <= TimesClaimed(m) /\ imports[m] \in Nat
        BY DEF HeldIsClaimed, Typed
    <2>5. /\ TimesClaimed(m) \in Nat /\ TimesClaimed(m)' \in Nat
          /\ TimesClaimed(m) <= TimesClaimed(m)' /\ lapses'[m] = lapses[m]
        BY ClaimsStand
    <2>6. m \in Messages /\ imports \in [Messages -> Nat]
        BY DEF Typed
    <2> HIDE DEF H, H2
    <2>7. CASE imports'[m] = imports[m] /\ (m \in Held(r)' => m \in Held(r))
        <3>1. H2 \subseteq H
            BY <2>1, <2>2, <2>3, <2>7
        <3>2. Cardinality(H2) <= Cardinality(H) /\ Cardinality(H) \in Nat /\ Cardinality(H2) \in Nat
            BY <2>1, <3>1, HoldersCounted
        <3>3. imports'[m] + Cardinality(H2) <= TimesClaimed(m)'
            BY <2>4, <2>5, <2>7, <3>2
        <3> QED BY <3>3 DEF H2
    <2>8. CASE Takes(r) /\ m = Head(todo[r])
        <3>1. claims[m] = None /\ SetNx(m, r) /\ imports'[m] = imports[m]
            BY <2>8 DEF Takes, Won, Claim
        <3>2. claims'[m] # None
            BY <2>6, <3>1, BusAssumption DEF SetNx, Typed
        <3>3. TimesClaimed(m)' = TimesClaimed(m) + 1
            <4>1. lapses[m] \in Nat
                BY <2>6 DEF Typed
            <4> QED BY <2>5, <3>1, <3>2, <4>1 DEF TimesClaimed
        <3>4. H2 = H \union {r}
            BY <2>1, <2>2, <2>3, <2>8 DEF Takes
        <3>5. Cardinality(H2) <= Cardinality(H) + 1 /\ Cardinality(H) \in Nat /\ Cardinality(H2) \in Nat
            BY <2>1, <3>4, HoldersCounted
        <3>6. imports'[m] + Cardinality(H2) <= TimesClaimed(m)'
            BY <2>4, <2>5, <3>1, <3>3, <3>5
        <3> QED BY <3>6 DEF H2
    <2>9. CASE Spends(r) /\ m = Head(arrivals[r])
        <3>1. imports'[m] = imports[m] + 1
            BY <2>6, <2>9 DEF Spends
        <3>2. H2 \subseteq H \ {r} /\ r \in H
            BY <2>1, <2>2, <2>3, <2>9 DEF Spends
        <3>3. Cardinality(H2) + 1 <= Cardinality(H) /\ Cardinality(H) \in Nat /\ Cardinality(H2) \in Nat
            BY <2>1, <3>2, HoldersCounted
        <3>4. imports'[m] + Cardinality(H2) <= TimesClaimed(m)'
            BY <2>4, <2>5, <3>1, <3>3
        <3> QED BY <3>4 DEF H2
    <2>10. \/ imports'[m] = imports[m] /\ (m \in Held(r)' => m \in Held(r))
           \/ Takes(r) /\ m = Head(todo[r])
           \/ Spends(r) /\ m = Head(arrivals[r])
        <3>1. CASE Takes(r)
            BY <3>1 DEF Takes
        <3>2. CASE Spends(r)
            <4>1. Held(r)' \subseteq Held(r)
                BY <3>2 DEF Spends
            <4>2. m # Head(arrivals[r]) => imports'[m] = imports[m]
                BY <2>6, <3>2 DEF Spends
            <4> QED BY <3>2, <4>1, <4>2
        <3> QED BY <1>c, <3>1, <3>2
    <2> QED BY <2>7, <2>8, <2>9, <2>10
<1>2. ASSUME NEW q \in Runs, NEW m \in Held(q)', lapses'[m] = 0
      PROVE  claims'[m] = q
    <2>1. m \in Messages
        <3>1. m \in Held(q) \/ (Takes(r) /\ m = Head(todo[r]))
            BY <1>2, <1>o, <1>c DEF Takes, Spends
        <3>2. Takes(r) => Head(todo[r]) \in Messages
            BY HeadFacts DEF Takes, Claim
        <3> QED BY <3>1, <3>2, HeldAreMessages
    <2>2. lapses[m] = 0
        BY <1>2, <2>1, ClaimsStand
    <2>3. CASE m \in Held(q)
        <3>1. claims[m] = q /\ q # None
            BY <2>1, <2>2, <2>3, BusAssumption DEF HeldIsClaimed
        <3> QED BY <2>1, <3>1, ClaimsStand
    <2>4. CASE m \notin Held(q)
        <3>1. q = r /\ Takes(r) /\ m = Head(todo[r])
            BY <1>2, <1>o, <1>c, <2>4 DEF Takes, Spends
        <3> QED BY <2>1, <3>1 DEF Takes, Won, Claim, SetNx, Typed
    <2> QED BY <2>3, <2>4
<1>3. (\A m \in Messages : imports[m] + Cardinality(HoldersOf(m)) <= TimesClaimed(m))'
    BY <1>1
<1> QED BY <1>2, <1>3 DEF HeldIsClaimed

-----------------------------------------------------------------------------
(* The expiry of a claim *)

\* A claim that expires leaves the message where it is and counts as before.
LEMMA ExpiryKeeps ==
    ASSUME IInv, NEW m \in Messages, Expire(m)
    PROVE  IInv'
<1>1. /\ UNCHANGED <<topology, stream, oldest, saved, node, imports, skipped>>
      /\ claims[m] # None /\ claims' = [claims EXCEPT ![m] = None]
      /\ lapses' = [lapses EXCEPT ![m] = lapses[m] + 1]
      /\ troubles < MaxTroubles /\ troubles' = troubles + 1
    BY DEF Expire
<1>2. claims \in [Messages -> Runs \union {None}] /\ lapses \in [Messages -> Nat]
    BY DEF IInv, Typed
<1>3. UNCHANGED <<poll, cursor, todo, got, buffer, arrivals>>
    BY <1>1 DEF node
<1>4. /\ claims' \in [Messages -> Runs \union {None}] /\ lapses' \in [Messages -> Nat]
      /\ \A n \in Messages : n # m => claims'[n] = claims[n] /\ lapses'[n] = lapses[n]
      /\ claims'[m] = None /\ lapses'[m] = lapses[m] + 1 /\ lapses[m] \in Nat
    BY <1>1, <1>2
<1>5. \A n \in Messages : TimesClaimed(n)' = TimesClaimed(n)
    BY <1>1, <1>4 DEF TimesClaimed
<1>6. Typed'
    <2>1. troubles' \in 0 .. MaxTroubles
        <3>1. troubles \in 0 .. MaxTroubles /\ MaxTroubles \in Nat
            BY BusAssumption DEF IInv, Typed
        <3> QED BY <1>1, <3>1
    <2> QED BY <1>1, <1>3, <1>4, <2>1 DEF IInv, Typed
<1>7. Bounded' /\ CursorsOrdered' /\ BatchesAhead'
    BY <1>1, <1>3 DEF IInv, Bounded, CursorsOrdered, BatchesAhead, Consecutive, Up, Wanted, Published
<1>8. ClaimedByConsumer'
    BY <1>1, <1>4 DEF IInv, ClaimedByConsumer, Published
<1>9. NothingSkipped'
    <2>1. Published \subseteq Messages
        BY BusAssumption DEF IInv, Typed, Published, Messages
    <2> QED BY <1>1, <1>3, <1>5, <2>1 DEF IInv, NothingSkipped, EverClaimed, Wanted, Published
<1>10. HeldBehind' /\ HeldOnce'
    BY <1>3 DEF IInv, HeldBehind, HeldOnce, Held
<1>11. HeldIsClaimed'
    <2>1. \A r \in Runs : Held(r)' = Held(r)
        BY <1>3 DEF Held
    <2>2. \A n \in Messages : HoldersOf(n)' = HoldersOf(n)
        BY <2>1 DEF HoldersOf
    <2>3. \A r \in Runs : \A n \in Held(r)' : lapses'[n] = 0 => claims'[n] = r
        <3>1. \A r \in Runs : Held(r) \subseteq Messages
            BY HeldAreMessages DEF IInv
        <3> QED BY <1>4, <2>1, <3>1 DEF IInv, HeldIsClaimed
    <2> QED BY <1>1, <1>5, <2>2, <2>3 DEF IInv, HeldIsClaimed
<1> QED BY <1>6, <1>7, <1>8, <1>9, <1>10, <1>11 DEF IInv

-----------------------------------------------------------------------------
(* The invariant *)

LEMMA IInvInit == Init => IInv
<1> SUFFICES ASSUME Init PROVE IInv
    OBVIOUS
<1>1. /\ MaxMessages \in Nat \ {0} /\ MaxTroubles \in Nat /\ BufferSize \in Nat /\ MaxImports \in Nat
      /\ None \notin Runs
    BY BusAssumption
<1>2. BusTopology \in [Runs -> SUBSET Runs]
    BY DEF BusTopology
<1>3. RingTopology \in [Runs -> SUBSET Runs]
    <2> SUFFICES ASSUME NEW r \in Runs
                 PROVE  {RingOrder[IF i = 1 THEN Len(RingOrder) ELSE i - 1] :
                           i \in {j \in 1 .. Len(RingOrder) : RingOrder[j] = r}} \subseteq Runs
        BY DEF RingTopology
    <2>1. RingOrder \in [1 .. Len(RingOrder) -> Runs] /\ Len(RingOrder) > 1
        BY BusAssumption
    <2>2. \A i \in 1 .. Len(RingOrder) :
            (IF i = 1 THEN Len(RingOrder) ELSE i - 1) \in 1 .. Len(RingOrder)
        BY <2>1
    <2> QED BY <2>1, <2>2
<1>4. stream = <<>> /\ Len(stream) = 0 /\ stream \in Seq(Runs) /\ Published = {} /\ <<>> \in Seq(Messages)
    BY DEF Init, Published
<1>5. Typed
    BY <1>1, <1>2, <1>3, <1>4 DEF Init, Typed, Points
<1>6. Bounded /\ CursorsOrdered /\ BatchesAhead
    BY <1>1, <1>4 DEF Init, Bounded, CursorsOrdered, BatchesAhead, Up
<1>7. ClaimedByConsumer /\ NothingSkipped
    BY <1>4 DEF Init, ClaimedByConsumer, NothingSkipped
<1>8. \A r \in Runs : Held(r) = {}
    BY NothingOnce DEF Init, Held
<1>9. HeldBehind /\ HeldOnce
    BY <1>8, NothingOnce DEF Init, HeldBehind, HeldOnce
<1>10. HeldIsClaimed
    <2>1. \A m \in Messages : HoldersOf(m) = {}
        BY <1>8 DEF HoldersOf
    <2>2. Cardinality({}) = 0
        BY FS_EmptySet
    <2>3. \A m \in Messages : imports[m] = 0 /\ TimesClaimed(m) = 0
        BY DEF Init, TimesClaimed
    <2>4. \A m \in Messages : imports[m] + Cardinality(HoldersOf(m)) <= TimesClaimed(m)
        BY <2>1, <2>2, <2>3
    <2> QED BY <1>8, <2>4 DEF HeldIsClaimed
<1> QED BY <1>5, <1>6, <1>7, <1>9, <1>10 DEF IInv

LEMMA IInvStep == IInv /\ [Next]_vars => IInv'
<1> SUFFICES ASSUME IInv, [Next]_vars PROVE IInv'
    OBVIOUS
<1>1. ASSUME NEW r \in Runs, RunStep(r) PROVE IInv'
    <2> USE <1>1 DEF IInv
    <2>1. Typed' /\ Bounded'
        BY TypedStep, BoundedStep
    <2>2. BatchesAhead' /\ CursorsOrdered'
        BY BatchesStep, CursorStep
    <2>3. ClaimedByConsumer' /\ NothingSkipped'
        BY ClaimedStep, SkippedStep
    <2>4. HeldBehind' /\ HeldOnce' /\ HeldIsClaimed'
        BY BehindStep, HeldOnceStep, HeldStep
    <2> QED BY <2>1, <2>2, <2>3, <2>4
<1>3. ASSUME NEW m \in Messages, Expire(m) PROVE IInv'
    BY <1>3, ExpiryKeeps
<1>2. CASE UNCHANGED vars
    <2>1. UNCHANGED <<topology, stream, oldest, claims, saved, poll, cursor, todo, got, buffer,
                      arrivals, imports, lapses, skipped, troubles>>
        BY <1>2 DEF vars, bus, node
    <2>2. Typed' /\ Bounded' /\ BatchesAhead' /\ CursorsOrdered'
        BY <2>1 DEF IInv, Typed, Bounded, BatchesAhead, Consecutive, CursorsOrdered, Up, Wanted, Published
    <2>3. ClaimedByConsumer' /\ NothingSkipped'
        BY <2>1 DEF IInv, ClaimedByConsumer, NothingSkipped, EverClaimed, TimesClaimed, Wanted, Published
    <2>4. HeldBehind' /\ HeldOnce'
        BY <2>1 DEF IInv, HeldBehind, HeldOnce, Held
    <2>5. HeldIsClaimed'
        <3>1. \A m \in Messages : HoldersOf(m)' = HoldersOf(m) /\ TimesClaimed(m)' = TimesClaimed(m)
            BY <2>1 DEF HoldersOf, TimesClaimed, Held
        <3>2. \A r \in Runs : Held(r)' = Held(r)
            BY <2>1 DEF Held
        <3> QED BY <2>1, <3>1, <3>2 DEF IInv, HeldIsClaimed
    <2> QED BY <2>2, <2>3, <2>4, <2>5 DEF IInv
<1> QED BY <1>1, <1>2, <1>3 DEF Next, RunStep

\* Whatever the runs, the topology and the troubles, every reachable state of the
\* bus satisfies the invariant.
THEOREM InductiveInvariant == Spec => []IInv
BY IInvInit, IInvStep, PTL DEF Spec

\* The variables of the bus keep their types, and the buffers their limits.
THEOREM TypeCorrect == Spec => []TypeOK
<1>1. IInv => TypeOK
    BY DEF IInv, Typed, Bounded, TypeOK
<1> QED BY <1>1, InductiveInvariant, PTL

\* Over all runs, their restarts and the expiries of claims, every import of an
\* orphan was bought with a claim of its own.
THEOREM ImportedAtMostOnce == Spec => []ImportedOnce
<1>1. ASSUME IInv, NEW r \in Runs
      PROVE  IsInjective(Holding(r)) /\ Range(Holding(r)) = Held(r)
    <2>s. got[r] \in Seq(Messages) /\ buffer[r] \in Seq(Messages) /\ arrivals[r] \in Seq(Messages)
        BY <1>1 DEF IInv, Typed
    <2>b. HeldBy(r)
        BY <1>1 DEF IInv, HeldOnce, HeldBy
    <2> DEFINE t == got[r] \o buffer[r]
    <2>1. t \in Seq(Messages) /\ IsInjective(t) /\ Range(t) = Range(got[r]) \union Range(buffer[r])
        BY <2>s, <2>b, ConcatOnce DEF HeldBy
    <2>2. Range(t) \intersect Range(arrivals[r]) = {}
        BY <2>1, <2>b DEF HeldBy
    <2> HIDE DEF t
    <2>3. /\ IsInjective(t \o arrivals[r])
          /\ Range(t \o arrivals[r]) = Range(t) \union Range(arrivals[r])
        BY <2>s, <2>b, <2>1, <2>2, ConcatOnce DEF HeldBy
    <2>4. Holding(r) = t \o arrivals[r]
        BY DEF Holding, t
    <2> QED BY <2>1, <2>3, <2>4 DEF Held
<1>2. ASSUME IInv PROVE ImportedOnce
    <2>1. \A m \in Messages : Holders(m) = HoldersOf(m)
        BY <1>1, <1>2 DEF Holders, HoldersOf
    <2> QED BY <1>1, <1>2, <2>1 DEF IInv, ImportedOnce, HeldIsClaimed
<1> QED BY <1>2, InductiveInvariant, PTL

\* Whoever claims a message is a run its topology sends the message to.
THEOREM ClaimsAreConsumers == Spec => []ClaimedByConsumer
<1>1. IInv => ClaimedByConsumer
    BY DEF IInv
<1> QED BY <1>1, InductiveInvariant, PTL

\* A cursor, saved or in memory, leaves no wanted message behind that nobody
\* claimed, but for those trimmed and those whose claim the run gave up.
THEOREM CursorsHideNothing == Spec => []NothingSkipped
<1>1. IInv => NothingSkipped
    BY DEF IInv
<1> QED BY <1>1, InductiveInvariant, PTL

\* However short or interrupted a life was, its stop never moves the saved
\* cursor back.
THEOREM SavedCursorsAdvance == Spec => SavedCursorAdvances
<1>1. IInv /\ [Next]_vars => [\A r \in Runs : saved'[r] >= saved[r]]_vars
    <2> SUFFICES ASSUME IInv, [Next]_vars PROVE [\A r \in Runs : saved'[r] >= saved[r]]_vars
        OBVIOUS
    <2>1. ASSUME NEW q \in Runs, RunStep(q) PROVE \A r \in Runs : saved'[r] >= saved[r]
        BY <2>1, CursorStep DEF IInv
    <2>2. ASSUME NEW m \in Messages, Expire(m) PROVE \A r \in Runs : saved'[r] >= saved[r]
        BY <2>2 DEF Expire, IInv, Typed
    <2> QED BY <2>1, <2>2 DEF Next, RunStep
<1> QED BY <1>1, InductiveInvariant, PTL DEF Spec, SavedCursorAdvances
=============================================================================
