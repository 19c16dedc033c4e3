---------------------------- MODULE MCSteadyState ----------------------------
(* Small instances of SteadyState for TLC. *)
EXTENDS SteadyState, TLC

CONSTANTS t1, t2, t3, t4

ThreeTasks == {t1, t2, t3}
FourTasks == {t1, t2, t3, t4}

\* Tasks are interchangeable: nothing orders them.
TaskSymmetry == Permutations(Tasks)

=============================================================================
