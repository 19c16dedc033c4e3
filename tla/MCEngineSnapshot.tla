-------------------------- MODULE MCEngineSnapshot --------------------------
(* Small instances of EngineSnapshot for TLC. *)
EXTENDS EngineSnapshot, TLC

CONSTANTS m1, m2, m3

TwoMutants == {m1, m2}
ThreeMutants == {m1, m2, m3}

\* Mutants are interchangeable: the order of their ordinals is a value.
MutantSymmetry == Permutations(Mutants)

=============================================================================
