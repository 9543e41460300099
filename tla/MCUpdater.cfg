SPECIFICATION Spec
CONSTANTS
  c1 = c1
  c2 = c2
  Calls = {c1, c2}
  LastVersion = 3
SYMMETRY Symmetry
INVARIANTS TypeOK EvidenceIsKept OnlySurprisesAreRefused StateTellsTheTruth
PROPERTIES WatermarkFollowsProgram
CHECK_DEADLOCK FALSE
