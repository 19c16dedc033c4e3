---------------------------- MODULE DagExecProofs ----------------------------
(***************************************************************************)
(* Proofs about the evaluation of a program by a DAG of stages, for any    *)
(* acyclic graph, any caches, outputs and parallelism, and any number of   *)
(* runs: what the loop keeps (IInv), and that a run implements StageGraph. *)
(*                                                                         *)
(* The argument: a stage is launched only when all it depends on is        *)
(* settled in this run (RunningAllowed), and what is settled in this run   *)
(* is not touched again; so its inputs stay what it was given, its result  *)
(* belongs to them, and it may settle as StageGraph demands.  That the     *)
(* loop stops with every stage settled is where the graph must be acyclic: *)
(* of the stages that are not settled one of smallest rank depends on      *)
(* settled ones alone, and would be skipped, reused or launched.           *)
(***************************************************************************)
EXTENDS DagExec, FiniteSetTheorems, WellFoundedInduction, TLAPS

\* The bookkeeping of one run; a stage that was tried and is not running is settled.
Bookkeeping ==
  /\ running \subseteq launched /\ launched \subseteq running \cup finished
  /\ running \cap finished = {}
  /\ pc = "idle" => running = {} /\ finished = {}
  /\ pc = "over" => running = {} /\ finished = Stages

SettledAreFinal == \A s \in finished : results[s].status \in FinalStates

RunningAllowed == \A s \in running : Ready(s, results, finished)

\* What a stage task returned is final, and stamped with the inputs it was given.
Stamped(s, r, inputs) == Cache[s] = "hash" => r.hash = {inputs} \/ r \in {Cancelled, Unhashed}
ReturnedFinal ==
  \A s \in running : task[s] = "returned" =>
    outcome[s].status \in FinalStates /\ Stamped(s, outcome[s], attached[s])

\* Of the stages that are settled so far, NoStaleResult says the same.
Fresh(s, res, fin) ==
  Cache[s] = "hash" => \/ res[s].hash = {BuildInputs(s, res)}
                       \/ res[s] \in {Cancelled, Unhashed}
                       \/ res[s] = Skipped /\ Impossible(s, res, fin)
NothingStale == \A s \in finished : Fresh(s, results, finished)
\* Its dependencies are settled, unless it is skipped.
SettledOnSettled ==
  \A s \in finished : \/ \A e \in Edges : e.dst = s => e.src \in finished
                      \/ results[s] = Skipped /\ Impossible(s, results, finished)

IInv ==
  /\ TypeOK /\ Bookkeeping /\ SettledAreFinal /\ RunningAllowed /\ InputsCurrent
  /\ ReturnedFinal /\ NothingStale /\ SettledOnSettled

-----------------------------------------------------------------------------
(* The gates and the inputs depend on settled stages only *)

\* res2 and fin2 come after res and fin: what is settled stays as it is.
Later(res, fin, res2, fin2) ==
  fin \subseteq fin2 /\ \A t \in fin : res2[t] = res[t]

\* A gate that has let a stage pass, or has ruled it out, does so ever after.
LEMMA GatesStay ==
  ASSUME NEW res, NEW fin, NEW res2, NEW fin2, Later(res, fin, res2, fin2), NEW s
  PROVE  /\ Ready(s, res, fin) => Ready(s, res2, fin2)
         /\ Impossible(s, res, fin) => Impossible(s, res2, fin2)
<1>1. ASSUME NEW t, FinalNow(t, res, fin) PROVE FinalNow(t, res2, fin2) /\ res2[t] = res[t]
  BY <1>1 DEF FinalNow, Later
<1>2. ASSUME NEW d, FinalNow(d.stage, res, fin) PROVE Expected(d, res2) <=> Expected(d, res)
  BY <1>1, <1>2 DEF Expected
<1>3. ASSUME Ready(s, res, fin) PROVE Ready(s, res2, fin2)
  BY <1>1, <1>2, <1>3 DEF Ready
<1>4. ASSUME Impossible(s, res, fin) PROVE Impossible(s, res2, fin2)
  BY <1>1, <1>2, <1>4 DEF Impossible
<1> QED BY <1>3, <1>4

\* The inputs of a stage are those of its producers' results alone.
LEMMA InputsStay ==
  ASSUME NEW res, NEW res2, NEW s,
         \A e \in Edges : e.dst = s => res2[e.src] = res[e.src]
  PROVE  BuildInputs(s, res2) = BuildInputs(s, res)
<1> SUFFICES ASSUME NEW i \in InputNames
             PROVE  BuildInputs(s, res2)[i] = BuildInputs(s, res)[i]
  BY DEF BuildInputs
<1> DEFINE E == CHOOSE e \in Edges : e.dst = s /\ e.input = i
           Given(r) == \E e \in Edges : e.dst = s /\ e.input = i /\ r[e.src].status = "completed"
<1>1. /\ BuildInputs(s, res)[i] = IF Given(res) THEN res[E.src].output ELSE None
      /\ BuildInputs(s, res2)[i] = IF Given(res2) THEN res2[E.src].output ELSE None
  BY DEF BuildInputs
<1>2. Given(res2) <=> Given(res)
  OBVIOUS
<1>3. Given(res) => E \in Edges /\ E.dst = s
  OBVIOUS
<1> HIDE DEF E, Given
<1> QED BY <1>1, <1>2, <1>3

LEMMA InputsTyped ==
  ASSUME NEW res \in [Stages -> Result], NEW s
  PROVE  BuildInputs(s, res) \in NamedInputs
<1> SUFFICES ASSUME NEW i \in InputNames
             PROVE  BuildInputs(s, res)[i] \in AllOutputs \cup {None}
  BY DEF BuildInputs, NamedInputs
<1> DEFINE E == CHOOSE e \in Edges : e.dst = s /\ e.input = i
           Given == \E e \in Edges : e.dst = s /\ e.input = i /\ res[e.src].status = "completed"
<1>1. BuildInputs(s, res)[i] = IF Given THEN res[E.src].output ELSE None
  BY DEF BuildInputs
<1>2. Given => E \in Edges
  OBVIOUS
<1> HIDE DEF E, Given
<1>3. Given => res[E.src] \in Result
  BY <1>2, DagExecAssumption
<1> QED BY <1>1, <1>3 DEF Result

-----------------------------------------------------------------------------
(* One pass of the loop *)

\* What Tick does, with the stages it launches and those it reuses.
Passed(new, cached) ==
  /\ new \subseteq ReadyStages /\ cached = ReadyStages \ new
  /\ \A s \in cached : MayReuse(s, AfterSkips)
  /\ running' = running \cup new
  /\ launched' = launched \cup ToSkip \cup new
  /\ finished' = finished \cup ToSkip \cup cached
  /\ results' = [s \in Stages |->
                   IF s \in new
                   THEN [status |-> "running", output |-> None, hash |-> AfterSkips[s].hash]
                   ELSE AfterSkips[s]]
  /\ task' = [s \in Stages |-> IF s \in new THEN "queued" ELSE task[s]]
  /\ attached' = [s \in Stages |-> IF s \in new THEN BuildInputs(s, AfterSkips)
                                                ELSE attached[s]]
  /\ pc' = IF running' # {} THEN "wait"
           ELSE IF ToSkip = {} /\ cached = {} THEN "over" ELSE "tick"
  /\ UNCHANGED <<stored, outcome, runs>>

LEMMA TickPasses ==
  ASSUME Tick
  PROVE  pc = "tick" /\ \E new, cached \in SUBSET Stages : Passed(new, cached)
<1>1. PICK new \in SUBSET ReadyStages : Passed(new, ReadyStages \ new)
  BY DEF Tick, Passed
<1>2. ReadyStages \subseteq Stages
  BY DEF ReadyStages
<1> QED BY <1>1, <1>2 DEF Tick

\* A pass only adds to what is settled: skipped stages that cannot run, reused
\* ones that could, and it launches stages that are not settled and may run.
LEMMA PassFacts ==
  ASSUME TypeOK, Bookkeeping, NEW new \in SUBSET Stages, NEW cached \in SUBSET Stages,
         Passed(new, cached)
  PROVE  /\ Later(results, finished, results', finished')
         /\ Later(AfterSkips, finished \cup ToSkip, results', finished')
         /\ \A s \in running : results'[s] = results[s]
         /\ new \cap (running \cup finished \cup ToSkip \cup cached) = {}
         /\ ToSkip \cap (running \cup finished) = {} /\ cached \cap running = {}
         /\ \A s \in ToSkip : results'[s] = Skipped /\ Impossible(s, results', finished')
         /\ \A s \in cached : /\ results'[s] = AfterSkips[s] /\ Ready(s, results', finished')
                              /\ MayReuse(s, AfterSkips)
         /\ \A s \in new : Ready(s, results', finished')
         /\ \A s \in new \cup cached :
              BuildInputs(s, AfterSkips) = BuildInputs(s, results')
<1>1. /\ new \cap (running \cup finished \cup ToSkip \cup cached) = {}
      /\ ToSkip \cap (running \cup finished) = {} /\ cached \cap running = {}
      /\ ToSkip \subseteq Stages /\ running \subseteq Stages /\ finished \subseteq Stages
  BY DEF Passed, ReadyStages, ToSkip, TypeOK
<1>2. \A s \in Stages : s \notin new => results'[s] = IF s \in ToSkip THEN Skipped ELSE results[s]
  BY DEF Passed, AfterSkips
<1>3. \A s \in Stages : s \notin new => results'[s] = AfterSkips[s]
  BY DEF Passed
<1>4. Later(results, finished, results', finished')
  BY <1>1, <1>2 DEF Later, Passed
<1>5. Later(AfterSkips, finished \cup ToSkip, results', finished')
  BY <1>1, <1>3 DEF Later, Passed
<1>6. \A s \in running : results'[s] = results[s]
  BY <1>1, <1>2
<1>7. \A s \in ToSkip : results'[s] = Skipped /\ Impossible(s, results', finished')
  <2>1. \A s \in ToSkip : Impossible(s, results, finished)
    BY DEF ToSkip
  <2> QED BY <1>1, <1>2, <1>4, <2>1, GatesStay
<1>8. \A s \in new \cup cached : Ready(s, AfterSkips, finished \cup ToSkip)
  BY DEF Passed, ReadyStages
<1>9. \A s \in new \cup cached : Ready(s, results', finished')
  BY <1>5, <1>8, GatesStay
<1>10. \A s \in cached : results'[s] = AfterSkips[s] /\ MayReuse(s, AfterSkips)
  BY <1>1, <1>3 DEF Passed
<1>11. ASSUME NEW s \in new \cup cached
       PROVE  BuildInputs(s, AfterSkips) = BuildInputs(s, results')
  <2>1. \A e \in Edges : e.dst = s => e.src \in finished \cup ToSkip
    BY <1>8 DEF Ready, FinalNow
  <2>2. \A e \in Edges : e.dst = s => results'[e.src] = AfterSkips[e.src]
    BY <1>5, <2>1 DEF Later
  <2> QED BY <2>2, InputsStay
<1> QED BY <1>1, <1>4, <1>5, <1>6, <1>7, <1>9, <1>10, <1>11

-----------------------------------------------------------------------------
(* The loop stops with every stage settled *)

Less == {ss \in Nat \X Nat : ss[1] < ss[2]}

LEMMA LessWellFounded == IsWellFoundedOn(Less, Nat)
BY NatLessThanWellFounded DEF OpToRel, Less

\* Of some stages, one has a smallest rank.
LEMMA SmallestRank ==
  ASSUME NEW S, NEW r \in [S -> Nat], NEW T \in SUBSET S, T # {}
  PROVE  \E x \in T : \A y \in T : r[x] <= r[y]
<1> DEFINE N == {r[x] : x \in T}
<1>0. N \subseteq Nat /\ N # {}
  OBVIOUS
<1> HIDE DEF N
<1>1. PICK n \in N : \A m \in N : ~ (<<m, n>> \in Less)
  BY LessWellFounded, WFMin, <1>0
<1>2. ASSUME NEW m \in N PROVE n <= m
  <2>1. m \in Nat /\ n \in Nat
    BY <1>0
  <2>2. ASSUME m < n PROVE FALSE
    <3>1. <<m, n>> \in Less
      BY <2>1, <2>2 DEF Less
    <3> QED BY <1>1, <3>1
  <2> QED BY <2>1, <2>2
<1> QED BY <1>1, <1>2 DEF N

\* Nothing runs, nothing is skipped, nothing is ready: everything is settled.
LEMMA AllSettled ==
  ASSUME TypeOK, Bookkeeping, SettledAreFinal,
         running = {}, ToSkip = {}, ReadyStages = {}
  PROVE  finished = Stages
<1> DEFINE U == Stages \ finished
<1> SUFFICES ASSUME U # {} PROVE FALSE
  BY DEF TypeOK
<1>1. PICK r \in Ranks : TRUE
  BY DagExecAssumption
<1>2. r \in [Stages -> Nat] /\ \A s \in Stages : \A p \in Preds(s) : r[p] < r[s]
  <2>1. Cardinality(Stages) \in Nat
    BY FS_CardinalityType, DagExecAssumption
  <2> QED BY <1>1, <2>1 DEF Ranks
<1>3. PICK s \in U : \A t \in U : r[s] <= r[t]
  BY <1>2, SmallestRank
<1>4. s \in Stages \ (running \cup launched \cup finished)
  BY DEF Bookkeeping
<1>5. ASSUME NEW p \in Preds(s) PROVE FinalNow(p, results, finished)
  <2>1. p \in Stages
    BY DagExecAssumption DEF Preds
  <2>2. r[p] \in Nat /\ r[s] \in Nat /\ r[p] < r[s]
    BY <1>2, <1>4, <2>1
  <2>3. p \in finished
    BY <1>3, <2>1, <2>2
  <2> QED BY <2>3 DEF FinalNow, SettledAreFinal
<1>6. ~Impossible(s, results, finished)
  BY <1>4 DEF ToSkip
<1>7. Ready(s, results, finished)
  <2>1. ASSUME NEW d \in OrderDeps, d.dst = s
        PROVE  FinalNow(d.stage, results, finished) /\ Expected(d, results)
    <3>1. d.stage \in Preds(s)
      BY <2>1 DEF Preds
    <3> QED BY <1>5, <1>6, <2>1, <3>1 DEF Impossible
  <2>2. ASSUME NEW e \in Edges, e.dst = s
        PROVE  /\ FinalNow(e.src, results, finished)
               /\ e.required => results[e.src].status = "completed"
    <3>1. e.src \in Preds(s)
      BY <2>2 DEF Preds
    <3> QED BY <1>5, <1>6, <2>2, <3>1 DEF Impossible
  <2> QED BY <2>1, <2>2 DEF Ready
<1>8. Later(results, finished, AfterSkips, finished \cup ToSkip)
  BY DEF Later, AfterSkips, TypeOK
<1>9. Ready(s, AfterSkips, finished \cup ToSkip)
  BY <1>7, <1>8, GatesStay
<1> QED BY <1>4, <1>9 DEF ReadyStages

-----------------------------------------------------------------------------
(* A pass of the loop keeps the invariant *)

\* A settled stage stays fresh while others settle.
LEMMA FreshStays ==
  ASSUME NEW res, NEW fin, NEW res2, NEW fin2, Later(res, fin, res2, fin2),
         NEW s \in fin, Fresh(s, res, fin),
         \/ \A e \in Edges : e.dst = s => e.src \in fin
         \/ res[s] = Skipped /\ Impossible(s, res, fin)
  PROVE  /\ Fresh(s, res2, fin2)
         /\ \/ \A e \in Edges : e.dst = s => e.src \in fin2
            \/ res2[s] = Skipped /\ Impossible(s, res2, fin2)
<1>1. res2[s] = res[s]
  BY DEF Later
<1>2. CASE res[s] = Skipped /\ Impossible(s, res, fin)
  BY <1>1, <1>2, GatesStay DEF Fresh
<1>3. CASE \A e \in Edges : e.dst = s => e.src \in fin
  <2>1. BuildInputs(s, res2) = BuildInputs(s, res)
    BY <1>3, InputsStay DEF Later
  <2>2. Fresh(s, res2, fin2)
    BY <1>1, <2>1, GatesStay DEF Fresh
  <2>3. \A e \in Edges : e.dst = s => e.src \in fin2
    BY <1>3 DEF Later
  <2> QED BY <2>2, <2>3
<1> QED BY <1>2, <1>3

LEMMA PassKeepsTypes ==
  ASSUME IInv, pc = "tick", NEW new \in SUBSET Stages, NEW cached \in SUBSET Stages,
         Passed(new, cached)
  PROVE  TypeOK' /\ Bookkeeping'
<1> USE DEF IInv
<1>1. AfterSkips \in [Stages -> Result]
  BY DEF AfterSkips, TypeOK, Result, Skipped, StageState, FinalStates
<1>2. results' \in [Stages -> Result]
  <2>1. \A s \in Stages : [status |-> "running", output |-> None, hash |-> AfterSkips[s].hash] \in Result
    BY <1>1 DEF Result, StageState
  <2> QED BY <1>1, <2>1 DEF Passed
<1>3. attached' \in [Stages -> NamedInputs]
  <2>1. \A s \in Stages : BuildInputs(s, AfterSkips) \in NamedInputs
    BY <1>1, InputsTyped
  <2> QED BY <2>1 DEF Passed, TypeOK
<1>4. TypeOK'
  <2>1. ToSkip \subseteq Stages
    BY DEF ToSkip
  <2> QED BY <1>2, <1>3, <2>1 DEF Passed, TypeOK
<1>5. pc' = "over" => running' = {} /\ finished' = Stages
  <2> SUFFICES ASSUME pc' = "over" PROVE running' = {} /\ finished' = Stages
    OBVIOUS
  <2>1. running' = {} /\ ToSkip = {} /\ cached = {}
    BY DEF Passed
  <2>2. running = {} /\ ReadyStages = {}
    BY <2>1 DEF Passed
  <2>3. finished = Stages
    BY <2>1, <2>2, AllSettled
  <2> QED BY <2>1, <2>3 DEF Passed
<1>6. pc' # "idle"
  BY DEF Passed
<1>7. /\ running' \subseteq launched' /\ launched' \subseteq running' \cup finished'
      /\ running' \cap finished' = {}
  <2>1. /\ new \cap (running \cup finished \cup ToSkip \cup cached) = {}
        /\ ToSkip \cap (running \cup finished) = {} /\ cached \cap running = {}
    BY PassFacts
  <2>2. /\ running' = running \cup new
        /\ launched' = launched \cup ToSkip \cup new
        /\ finished' = finished \cup ToSkip \cup cached
    BY DEF Passed
  <2>3. /\ running \subseteq launched /\ launched \subseteq running \cup finished
        /\ running \cap finished = {}
    BY DEF Bookkeeping
  <2> QED BY <2>1, <2>2, <2>3
<1> QED BY <1>4, <1>5, <1>6, <1>7 DEF Bookkeeping

LEMMA PassKeepsStages ==
  ASSUME IInv, pc = "tick", NEW new \in SUBSET Stages, NEW cached \in SUBSET Stages,
         Passed(new, cached)
  PROVE  /\ SettledAreFinal' /\ RunningAllowed' /\ InputsCurrent'
         /\ ReturnedFinal' /\ NothingStale' /\ SettledOnSettled'
<1>f. /\ Later(results, finished, results', finished')
      /\ \A s \in running : results'[s] = results[s]
      /\ new \cap (running \cup finished \cup ToSkip \cup cached) = {}
      /\ ToSkip \cap (running \cup finished) = {} /\ cached \cap running = {}
      /\ \A s \in ToSkip : results'[s] = Skipped /\ Impossible(s, results', finished')
      /\ \A s \in cached : /\ results'[s] = AfterSkips[s] /\ Ready(s, results', finished')
                           /\ MayReuse(s, AfterSkips)
      /\ \A s \in new : Ready(s, results', finished')
      /\ \A s \in new \cup cached : BuildInputs(s, AfterSkips) = BuildInputs(s, results')
  BY PassFacts DEF IInv
<1>s. /\ running' = running \cup new
      /\ finished' = finished \cup ToSkip \cup cached
      /\ running' \subseteq Stages /\ finished' \subseteq Stages
  BY PassKeepsTypes DEF Passed, TypeOK
<1>1. SettledAreFinal'
  <2>1. \A s \in cached : results'[s].status \in FinalStates
    BY <1>f DEF MayReuse
  <2>2. \A s \in ToSkip : results'[s].status \in FinalStates
    BY <1>f DEF Skipped, FinalStates
  <2>3. \A s \in finished : results'[s].status \in FinalStates
    BY <1>f DEF Later, IInv, SettledAreFinal
  <2> QED BY <1>s, <2>1, <2>2, <2>3 DEF SettledAreFinal
<1>2. RunningAllowed'
  BY <1>f, <1>s, GatesStay DEF IInv, RunningAllowed
<1>3. InputsCurrent'
  <2>1. ASSUME NEW s \in new PROVE attached'[s] = BuildInputs(s, results')
    BY <1>f, <2>1 DEF Passed
  <2>2. ASSUME NEW s \in running PROVE attached'[s] = BuildInputs(s, results')
    <3>1. s \in Stages /\ s \notin new
      BY <1>f DEF IInv, TypeOK
    <3>2. attached'[s] = attached[s]
      BY <3>1 DEF Passed
    <3>3. \A e \in Edges : e.dst = s => e.src \in finished
      BY <2>2 DEF IInv, RunningAllowed, Ready, FinalNow
    <3>4. BuildInputs(s, results') = BuildInputs(s, results)
      BY <1>f, <3>3, InputsStay DEF Later
    <3> QED BY <3>2, <3>4 DEF IInv, InputsCurrent
  <2> QED BY <1>s, <2>1, <2>2 DEF InputsCurrent
<1>4. ReturnedFinal'
  <2>1. \A s \in new : task'[s] # "returned"
    BY DEF Passed
  <2>2. \A s \in running : /\ task'[s] = task[s] /\ attached'[s] = attached[s]
                           /\ outcome'[s] = outcome[s]
    BY <1>f DEF Passed, IInv, TypeOK
  <2> QED BY <1>s, <2>1, <2>2 DEF IInv, ReturnedFinal, Stamped
<1>5. \A s \in finished' :
        /\ Fresh(s, results', finished')
        /\ \/ \A e \in Edges : e.dst = s => e.src \in finished'
           \/ results'[s] = Skipped /\ Impossible(s, results', finished')
  <2>1. \A s \in finished :
          /\ Fresh(s, results', finished')
          /\ \/ \A e \in Edges : e.dst = s => e.src \in finished'
             \/ results'[s] = Skipped /\ Impossible(s, results', finished')
    BY <1>f, FreshStays DEF IInv, NothingStale, SettledOnSettled
  <2>2. \A s \in ToSkip : Fresh(s, results', finished')
    BY <1>f DEF Fresh
  <2>3. \A s \in cached : Fresh(s, results', finished')
    BY <1>f DEF Fresh, MayReuse
  <2>4. \A s \in cached : \A e \in Edges : e.dst = s => e.src \in finished'
    BY <1>f DEF Ready, FinalNow
  <2> QED BY <1>f, <1>s, <2>1, <2>2, <2>3, <2>4
<1> QED BY <1>1, <1>2, <1>3, <1>4, <1>5 DEF NothingStale, SettledOnSettled

-----------------------------------------------------------------------------
(* Ended stages are collected *)

Ended == {s \in running : task[s] = "returned"}

\* What Collect adds to the settled stages stays apart from what still runs, and
\* was allowed by stages settled before.
LEMMA CollectFacts ==
  ASSUME IInv, Collect
  PROVE  /\ running' = running \ Ended /\ finished' = finished \cup Ended
         /\ Later(results, finished, results', finished')
         /\ \A s \in Stages \ Ended : /\ results'[s] = results[s] /\ task'[s] = task[s]
                                      /\ attached'[s] = attached[s] /\ outcome'[s] = outcome[s]
         /\ \A s \in Ended : /\ results'[s] = outcome[s]
                             /\ results'[s].status \in FinalStates
                             /\ Stamped(s, results'[s], BuildInputs(s, results'))
                             /\ Ready(s, results', finished')
<1>1. /\ running' = running \ Ended /\ finished' = finished \cup Ended
      /\ \A s \in Stages \ Ended : /\ results'[s] = results[s] /\ task'[s] = task[s]
                                   /\ attached'[s] = attached[s] /\ outcome'[s] = outcome[s]
      /\ \A s \in Stages : s \in Ended => results'[s] = outcome[s]
  BY DEF Collect, Ended
<1>2. Ended \subseteq running /\ running \subseteq Stages /\ finished \subseteq Stages
      /\ running \cap finished = {}
  BY DEF IInv, TypeOK, Bookkeeping, Ended
<1>3. Later(results, finished, results', finished')
  BY <1>1, <1>2 DEF Later
<1>4. ASSUME NEW s \in Ended
      PROVE  /\ results'[s].status \in FinalStates
             /\ Stamped(s, results'[s], BuildInputs(s, results'))
             /\ Ready(s, results', finished')
  <2>1. results'[s] = outcome[s] /\ s \in running /\ task[s] = "returned"
    BY <1>1, <1>2, <1>4 DEF Ended
  <2>2. outcome[s].status \in FinalStates /\ Stamped(s, outcome[s], attached[s])
    BY <2>1 DEF IInv, ReturnedFinal
  <2>3. Ready(s, results, finished) /\ attached[s] = BuildInputs(s, results)
    BY <2>1 DEF IInv, RunningAllowed, InputsCurrent
  <2>4. \A e \in Edges : e.dst = s => e.src \in finished
    BY <2>3 DEF Ready, FinalNow
  <2>5. BuildInputs(s, results') = BuildInputs(s, results)
    BY <1>3, <2>4, InputsStay DEF Later
  <2>6. Ready(s, results', finished')
    BY <1>3, <2>3, GatesStay
  <2> QED BY <2>1, <2>2, <2>3, <2>5, <2>6
<1> QED BY <1>1, <1>2, <1>3, <1>4

LEMMA CollectKeeps ==
  ASSUME IInv, Collect
  PROVE  IInv'
<1>f. /\ running' = running \ Ended /\ finished' = finished \cup Ended
      /\ Later(results, finished, results', finished')
      /\ \A s \in Stages \ Ended : /\ results'[s] = results[s] /\ task'[s] = task[s]
                                   /\ attached'[s] = attached[s] /\ outcome'[s] = outcome[s]
      /\ \A s \in Ended : /\ results'[s].status \in FinalStates
                          /\ Stamped(s, results'[s], BuildInputs(s, results'))
                          /\ Ready(s, results', finished')
  BY CollectFacts
<1>r. Ended \subseteq running /\ running \subseteq Stages /\ finished \subseteq Stages
  BY DEF IInv, TypeOK, Ended
<1>1. TypeOK'
  <2>1. NoInputs \in NamedInputs
    BY DEF NoInputs, NamedInputs
  <2>2. Pending \in Result
    BY DEF Pending, Result, StageState
  <2>3. Ended = {s \in running : task[s] = "returned"}
    BY DEF Ended
  <2>4. results' \in [Stages -> Result] /\ outcome' \in [Stages -> Result]
    BY <2>2 DEF Collect, IInv, TypeOK
  <2>5. attached' \in [Stages -> NamedInputs]
    BY <2>1 DEF Collect, IInv, TypeOK
  <2>6. task' \in [Stages -> {"none", "queued", "computing", "returned"}]
    BY DEF Collect, IInv, TypeOK
  <2> QED BY <1>f, <1>r, <2>4, <2>5, <2>6 DEF Collect, IInv, TypeOK
<1>2. Bookkeeping'
  BY <1>f, <1>r DEF Collect, IInv, Bookkeeping
<1>3. SettledAreFinal'
  BY <1>f DEF IInv, SettledAreFinal, Later
<1>4. RunningAllowed'
  BY <1>f, GatesStay DEF IInv, RunningAllowed
<1>5. InputsCurrent'
  <2> SUFFICES ASSUME NEW s \in running \ Ended PROVE attached'[s] = BuildInputs(s, results')
    BY <1>f DEF InputsCurrent
  <2>1. \A e \in Edges : e.dst = s => e.src \in finished
    BY DEF IInv, RunningAllowed, Ready, FinalNow
  <2>2. BuildInputs(s, results') = BuildInputs(s, results)
    BY <1>f, <2>1, InputsStay DEF Later
  <2>3. attached[s] = BuildInputs(s, results)
    BY DEF IInv, InputsCurrent
  <2> QED BY <1>f, <1>r, <2>2, <2>3
<1>6. ReturnedFinal'
  BY <1>f, <1>r DEF IInv, ReturnedFinal, Stamped
<1>7. \A s \in finished :
        /\ Fresh(s, results', finished')
        /\ \/ \A e \in Edges : e.dst = s => e.src \in finished'
           \/ results'[s] = Skipped /\ Impossible(s, results', finished')
  BY <1>f, FreshStays DEF IInv, NothingStale, SettledOnSettled
<1>8. \A s \in Ended : Fresh(s, results', finished')
  BY <1>f DEF Fresh, Stamped
<1>9. \A s \in Ended : \A e \in Edges : e.dst = s => e.src \in finished'
  BY <1>f DEF Ready, FinalNow
<1>10. NothingStale' /\ SettledOnSettled'
  BY <1>f, <1>7, <1>8, <1>9 DEF NothingStale, SettledOnSettled
<1> QED BY <1>1, <1>2, <1>3, <1>4, <1>5, <1>6, <1>10 DEF IInv

-----------------------------------------------------------------------------
(* The other steps *)

\* A stage task takes a slot or returns; what it returns is final and stamped.
LEMMA StageKeeps ==
  ASSUME IInv, NEW s \in Stages, Acquire(s) \/ Return(s)
  PROVE  IInv'
<1>1. UNCHANGED <<pc, results, stored, progress, attached, runs>>
  BY DEF Acquire, Return
<1>2. CASE Acquire(s)
  <2>1. task' = [task EXCEPT ![s] = "computing"] /\ outcome' = outcome
    BY <1>2 DEF Acquire
  <2>2. TypeOK'
    BY <1>1, <2>1 DEF IInv, TypeOK, progress
  <2>3. ReturnedFinal'
    BY <1>1, <2>1 DEF IInv, TypeOK, ReturnedFinal, Stamped, progress
  <2> QED BY <1>1, <2>2, <2>3 DEF IInv, Bookkeeping, SettledAreFinal, RunningAllowed,
             InputsCurrent, NothingStale, SettledOnSettled, progress
<1>3. CASE Return(s)
  <2>1. PICK o \in Outcomes(s) : outcome' = [outcome EXCEPT ![s] = o]
    BY <1>3 DEF Return
  <2>2. task' = [task EXCEPT ![s] = "returned"]
    BY <1>3 DEF Return
  <2>3. o \in Result /\ o.status \in FinalStates /\ Stamped(s, o, attached[s])
    <3>1. attached[s] \in NamedInputs /\ Outputs[s] \subseteq AllOutputs
      BY DEF IInv, TypeOK, AllOutputs
    <3>2. Stamp(s, attached[s]) \in SUBSET NamedInputs
      BY <3>1 DEF Stamp
    <3>3. Cache[s] = "hash" => Stamp(s, attached[s]) = {attached[s]}
      BY DEF Stamp
    <3>4. CASE o \in {Cancelled, Unhashed}
      BY <3>4 DEF Cancelled, Unhashed, Result, StageState, FinalStates, Stamped
    <3>5. CASE o \notin {Cancelled, Unhashed}
      <4>1. PICK st \in {"completed", "failed", "skipped"}, v \in AllOutputs \cup {None} :
              o = [status |-> st, output |-> v, hash |-> Stamp(s, attached[s])]
        BY <2>1, <3>1, <3>5 DEF Outcomes
      <4> QED BY <3>2, <3>3, <4>1 DEF Result, StageState, FinalStates, Stamped
    <3> QED BY <3>4, <3>5
  <2>4. TypeOK'
    BY <1>1, <2>1, <2>2, <2>3 DEF IInv, TypeOK, progress
  <2>5. ReturnedFinal'
    BY <1>1, <2>1, <2>2, <2>3 DEF IInv, TypeOK, ReturnedFinal, Stamped, progress
  <2> QED BY <1>1, <2>4, <2>5 DEF IInv, Bookkeeping, SettledAreFinal, RunningAllowed,
             InputsCurrent, NothingStale, SettledOnSettled, progress
<1> QED BY <1>2, <1>3

\* A run that is forgotten leaves nothing but the stored results.
LEMMA ForgetKeeps ==
  ASSUME IInv, Forget, stored' \in [Stages -> Result]
  PROVE  IInv'
<1>1. /\ pc' = "idle" /\ results' = stored'
      /\ running' = {} /\ launched' = {} /\ finished' = {} /\ runs' = runs
  BY DEF Forget
<1>2. TypeOK'
  BY <1>1 DEF Forget, IInv, TypeOK, NoInputs, NamedInputs, Pending, Result, StageState
<1> QED BY <1>1, <1>2 DEF IInv, Bookkeeping, SettledAreFinal, RunningAllowed, InputsCurrent,
           ReturnedFinal, NothingStale, SettledOnSettled

\* Starting a run and giving one up leave the bookkeeping alone.
LEMMA OutsideKeeps ==
  ASSUME IInv, Begin \/ \E saved \in BOOLEAN : Abort(saved)
  PROVE  IInv'
<1>1. UNCHANGED <<results, progress, taskVars>>
  BY DEF Begin, Abort
<1>2. pc' \in {"tick", "aborted"}
  BY DEF Begin, Abort
<1>3. stored' \in [Stages -> Result] /\ runs' \in 0 .. MaxRuns
  BY DagExecAssumption DEF Begin, Abort, IInv, TypeOK
<1>4. TypeOK'
  BY <1>1, <1>2, <1>3 DEF IInv, TypeOK, progress, taskVars
<1> QED BY <1>1, <1>2, <1>4 DEF IInv, Bookkeeping, SettledAreFinal, RunningAllowed,
           InputsCurrent, ReturnedFinal, NothingStale, SettledOnSettled, progress, taskVars

LEMMA IInvInit == Init => IInv
<1> SUFFICES ASSUME Init PROVE IInv
  OBVIOUS
<1>1. TypeOK
  BY DagExecAssumption DEF Init, TypeOK, NoInputs, NamedInputs, Pending, Result, StageState
<1> QED BY <1>1 DEF Init, IInv, Bookkeeping, SettledAreFinal, RunningAllowed, InputsCurrent,
           ReturnedFinal, NothingStale, SettledOnSettled

LEMMA IInvStep == IInv /\ [Next]_vars => IInv'
<1> SUFFICES ASSUME IInv, [Next]_vars PROVE IInv'
  OBVIOUS
<1>1. CASE Tick
  BY <1>1, TickPasses, PassKeepsTypes, PassKeepsStages DEF IInv
<1>2. CASE Collect
  BY <1>2, CollectKeeps
<1>3. CASE Persist
  BY <1>3, ForgetKeeps DEF Persist, IInv, TypeOK
<1>4. CASE StageStep
  BY <1>4, StageKeeps DEF StageStep
<1>5. CASE Restart
  BY <1>5, ForgetKeeps DEF Restart, IInv, TypeOK
<1>6. CASE Begin \/ \E saved \in BOOLEAN : Abort(saved)
  BY <1>6, OutsideKeeps
<1>7. CASE UNCHANGED vars
  BY <1>7 DEF IInv, TypeOK, Bookkeeping, SettledAreFinal, RunningAllowed, InputsCurrent,
              ReturnedFinal, Stamped, NothingStale, SettledOnSettled, vars, progress, taskVars
<1> QED BY <1>1, <1>2, <1>3, <1>4, <1>5, <1>6, <1>7 DEF Next, LoopStep

\* The invariant is inductive.
THEOREM InductiveInvariant == Spec => []IInv
BY IInvInit, IInvStep, PTL DEF Spec

\* The loop's sets, the results and the stage tasks keep their types.
THEOREM TypeCorrect == Spec => []TypeOK
<1>1. IInv => TypeOK
  BY DEF IInv
<1> QED BY <1>1, InductiveInvariant, PTL

\* No producer changes behind a running consumer, in any graph.
THEOREM InputsStayCurrent == Spec => []InputsCurrent
<1>1. IInv => InputsCurrent
  BY DEF IInv
<1> QED BY <1>1, InductiveInvariant, PTL

\* In any acyclic graph the loop leaves no stage unresolved.
THEOREM RunsEndResolved == Spec => []EndsResolved
<1>1. IInv => EndsResolved
  BY DEF IInv, Bookkeeping, SettledAreFinal, EndsResolved
<1> QED BY <1>1, InductiveInvariant, PTL

\* Whatever caches reuse from earlier, interrupted or failed runs, what a run
\* ends with belongs to its inputs.
THEOREM ResultsAreFresh == Spec => []NoStaleResult
<1>1. IInv => NoStaleResult
  BY DEF IInv, Bookkeeping, NothingStale, Fresh, NoStaleResult
<1> QED BY <1>1, InductiveInvariant, PTL

-----------------------------------------------------------------------------
(* A run implements StageGraph *)

Phase == CASE pc = "idle" -> "idle" [] pc = "over" -> "over"
           [] pc = "aborted" -> "gaveUp" [] OTHER -> "running"
Good == {s \in finished : results[s].status = "completed"}

\* The gates of the code are those of the abstract graph.
LEMMA GatesMeanTheSame ==
  ASSUME NEW s, NEW res, NEW fin, \A t \in fin : res[t].status \in FinalStates
  PROVE  LET ok == {t \in fin : res[t].status = "completed"} IN
         /\ Ready(s, res, fin) => Graph!Allowed(s, fin, ok)
         /\ Impossible(s, res, fin) => Graph!Blocked(s, fin, ok)
<1> DEFINE ok == {t \in fin : res[t].status = "completed"}
<1>1. ASSUME NEW d \in OrderDeps, FinalNow(d.stage, res, fin)
      PROVE  Graph!Met(d, fin, ok) <=> Expected(d, res)
  <2>1. d.condition \in {"success", "failure", "always"} /\ d.stage \in fin
    BY <1>1, DagExecAssumption DEF FinalNow
  <2>2. res[d.stage].status \in {"completed", "failed", "cancelled", "skipped"}
    BY <2>1 DEF FinalStates
  <2> QED BY <2>1, <2>2 DEF Graph!Met, Expected
<1>2. ASSUME Ready(s, res, fin) PROVE Graph!Allowed(s, fin, ok)
  BY <1>1, <1>2 DEF Ready, Graph!Allowed, FinalNow
<1>3. ASSUME Impossible(s, res, fin) PROVE Graph!Blocked(s, fin, ok)
  BY <1>1, <1>3 DEF Impossible, Graph!Blocked, Graph!Broken, FinalNow
<1> QED BY <1>2, <1>3

\* Settling in the loop is settling in the graph, in one step.
LEMMA Settling ==
  ASSUME Later(results, finished, results', finished'), SettledAreFinal',
         NEW S \in SUBSET Stages, finished' = finished \cup S, S \cap finished = {},
         Phase = "running", Phase' = "running",
         \A s \in S : \/ Ready(s, results', finished')
                      \/ results'[s] = Skipped /\ Impossible(s, results', finished')
  PROVE  Graph!Next
<1>0. PICK G \in SUBSET S : G = {s \in S : results'[s].status = "completed"}
  OBVIOUS
<1>1. finished' = finished \cup S /\ Good' = Good \cup G
  BY <1>0 DEF Good, Later
<1>2. ASSUME NEW s \in S
      PROVE  \/ Graph!Allowed(s, finished', Good')
             \/ s \notin G /\ Graph!Blocked(s, finished', Good')
  <2>1. \A t \in finished' : results'[t].status \in FinalStates
    BY DEF SettledAreFinal
  <2>2. /\ Ready(s, results', finished') => Graph!Allowed(s, finished', Good')
        /\ Impossible(s, results', finished') => Graph!Blocked(s, finished', Good')
    BY <2>1, GatesMeanTheSame DEF Good
  <2>3. results'[s] = Skipped => s \notin G
    BY <1>0 DEF Skipped
  <2> QED BY <2>2, <2>3
<1>3. Graph!Settle(S, G)
  BY <1>1, <1>2 DEF Graph!Settle, Phase, Good
<1>4. S \in SUBSET (Stages \ finished) /\ G \in SUBSET S
  OBVIOUS
<1> QED BY <1>3, <1>4 DEF Graph!Next

LEMMA GraphInit == Init => Graph!Init
BY DEF Init, Graph!Init

LEMMA GraphStep == IInv /\ IInv' /\ [Next]_vars => [Graph!Next]_Graph!vars
<1> SUFFICES ASSUME IInv, IInv', [Next]_vars PROVE [Graph!Next]_Graph!vars
  OBVIOUS
<1>1. CASE Tick
  <2>1. PICK new \in SUBSET Stages, cached \in SUBSET Stages : Passed(new, cached)
    BY <1>1, TickPasses
  <2>2. /\ Later(results, finished, results', finished')
        /\ \A s \in ToSkip \cup cached :
             \/ Ready(s, results', finished')
             \/ results'[s] = Skipped /\ Impossible(s, results', finished')
    BY <2>1, PassFacts DEF IInv
  <2>3. finished' = finished \cup (ToSkip \cup cached) /\ ToSkip \cup cached \subseteq Stages
    BY <2>1 DEF Passed, ToSkip
  <2>4. (ToSkip \cup cached) \cap finished = {}
    BY <2>1 DEF Passed, ReadyStages, ToSkip
  <2>5. Phase = "running"
    BY <1>1, TickPasses DEF Phase
  <2>6. CASE pc' # "over"
    <3>1. Phase' = "running"
      BY <2>1, <2>6 DEF Phase, Passed
    <3> QED BY <2>2, <2>3, <2>4, <2>5, <3>1, Settling DEF IInv
  <2>7. CASE pc' = "over"
    <3>1. finished' = finished /\ finished = Stages
      BY <2>1, <2>7 DEF Passed, IInv, Bookkeeping
    <3>2. Good' = Good
      BY <2>2, <3>1 DEF Good, Later
    <3>3. Graph!Finish
      BY <2>5, <2>7, <3>1, <3>2 DEF Graph!Finish, Phase, Good
    <3> QED BY <3>3 DEF Graph!Next
  <2> QED BY <2>6, <2>7
<1>2. CASE Collect
  <2>1. /\ Later(results, finished, results', finished')
        /\ finished' = finished \cup Ended
        /\ \A s \in Ended : Ready(s, results', finished')
    BY <1>2, CollectFacts
  <2>2. Ended \in SUBSET Stages /\ Ended \cap finished = {}
    BY DEF IInv, TypeOK, Bookkeeping, Ended
  <2>3. Phase = "running" /\ Phase' = "running"
    BY <1>2 DEF Collect, Phase
  <2> QED BY <2>1, <2>2, <2>3, Settling DEF IInv
<1>3. CASE Persist \/ Restart
  <2>1. pc # "idle" /\ pc' = "idle" /\ finished' = {} /\ results' = stored'
    BY <1>3 DEF Persist, Restart, Forget
  <2>2. pc \in {"tick", "wait", "over", "aborted"}
    BY <2>1 DEF IInv, TypeOK
  <2> QED BY <2>1, <2>2 DEF Graph!Next, Graph!GiveUp, Graph!Forget
<1>4. CASE StageStep
  <2>1. UNCHANGED <<pc, results, finished>>
    BY <1>4 DEF StageStep, Acquire, Return, progress
  <2> QED BY <2>1 DEF Graph!vars
<1>5. CASE Begin
  <2>1. pc = "idle" /\ pc' = "tick" /\ finished = {} /\ finished' = {}
    BY <1>5 DEF Begin, progress, IInv, Bookkeeping
  <2> QED BY <2>1 DEF Graph!Next, Graph!Begin
<1>6. ASSUME NEW saved \in BOOLEAN, Abort(saved) PROVE Graph!Next
  <2>1. pc = "wait" /\ pc' = "aborted" /\ finished' = finished /\ results' = results
    BY <1>6 DEF Abort, progress
  <2> QED BY <2>1 DEF Graph!Next, Graph!GiveUp
<1>7. CASE UNCHANGED vars
  BY <1>7 DEF vars, progress, Graph!vars
<1> QED BY <1>1, <1>2, <1>3, <1>4, <1>5, <1>6, <1>7 DEF Next, LoopStep

\* Every evaluation of a program, with its caches, its parallel stages, its
\* time-outs and kills, is one that StageGraph allows.
THEOREM ImplementsStageGraph == Spec => GraphSpec
BY GraphInit, GraphStep, InductiveInvariant, PTL DEF Spec, GraphSpec, Graph!Spec
=============================================================================
