CONSTANTS
  m1 = m1
  m2 = m2
  Managers = {m1, m2}
  Day = 2
  Poll = 1
  Resync = 2
  Window = {0, 1}
  MaxTime = 4
  Budget = 0
  Prompt = FALSE
  InitSecrets = 1
SPECIFICATION SettledSpec
INVARIANTS
  Inductive
PROPERTIES
  ImplementsDailyClaim
SYMMETRY ManagerSymmetry
CHECK_DEADLOCK FALSE
