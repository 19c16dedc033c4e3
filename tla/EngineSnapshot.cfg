SPECIFICATION Spec
CONSTANTS
  m1 = m1
  m2 = m2
  m3 = m3
  Mutants <- ThreeMutants
  Seeds = 1
  MaxResumes = 1
  MayCrash = TRUE
  SaveMayFail = TRUE
SYMMETRY MutantSymmetry
INVARIANTS
  MirrorWithinStore
  AckedOrdinalsSafe
  OrdinalsUniqueOnResume
CHECK_DEADLOCK FALSE
