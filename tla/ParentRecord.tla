----------------------------- MODULE ParentRecord -----------------------------
(***************************************************************************)
(* What the writers of a parent promise together: the parent behaves like  *)
(* one record in which every operation touches its own field, atomically,  *)
(* although each of them reads and rewrites the whole stored program       *)
(* (gigaevo/evolution/engine/refresh.py, mutation.py,                      *)
(* gigaevo/runner/dag_runner.py and gigaevo/evolution/strategies/          *)
(* island.py).  The state goes round the transitions of program_state.py   *)
(* and never skips the evaluation; a child is entered, and the parent is   *)
(* trimmed, only while it is at rest, and no child is ever lost.           *)
(*                                                                         *)
(* The promise ends when the record is disturbed by a writer that keeps to *)
(* no order: the program's refresh mode decides whether it starts at all.  *)
(***************************************************************************)
CONSTANTS
  Tasks      \* mutant tasks, and the children they make

VARIABLES
  state,     \* state of the parent
  children,  \* the children its lineage names
  disturbed  \* whether the promise is off

vars == <<state, children, disturbed>>

Init == state = "DONE" /\ children = {} /\ disturbed \in BOOLEAN

\* From one state to another; the lineage is not touched.
Transition(from, to) == state = from /\ state' = to /\ UNCHANGED children

\* A refresh asks for another evaluation.
Flip == Transition("DONE", "QUEUED")

Start == Transition("QUEUED", "RUNNING")

Finish == Transition("RUNNING", "DONE") \/ Transition("RUNNING", "DISCARDED")

\* An island has no room for the parent.
Discard == Transition("DONE", "DISCARDED")

\* A lineage update; the state is not touched.
AddChild(t) ==
  /\ state = "DONE"
  /\ children' = children \union {t}
  /\ UNCHANGED state

Operation == Flip \/ Start \/ Finish \/ Discard \/ \E t \in Tasks : AddChild(t)

\* Whatever the parent becomes, the promise does not come back.
Disturb ==
  /\ disturbed'
  /\ state' \in {"QUEUED", "RUNNING", "DONE", "DISCARDED"}
  /\ children' \in SUBSET Tasks

Next == \/ Operation /\ ~disturbed /\ UNCHANGED disturbed
        \/ Disturb

Spec == Init /\ [][Next]_vars
=============================================================================
