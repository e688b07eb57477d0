CONSTANTS
  m1 = m1
  Managers = {m1}
  Day = 4
  Poll = 1
  Resync = 3
  Window = {0, 1}
  MaxTime = 8
  Budget = 1
  Prompt = TRUE
  InitSecrets = 1
SPECIFICATION AnyFairSpec
INVARIANTS
  CheckedDaily
PROPERTIES
  DeletionCompletes
  Quiesces
  CheckHasData
CHECK_DEADLOCK FALSE
