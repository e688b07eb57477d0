CONSTANTS
  m1 = m1
  Managers = {m1}
  Day = 24
  Poll = 1
  Resync = 10
  Window = {10, 11, 12, 13, 14, 15, 16, 17, 18, 19, 20}
  MaxTime = 48
  Budget = 0
  Prompt = TRUE
  InitSecrets = 1
SPECIFICATION Spec
INVARIANTS
  ServedInTwoDays
CHECK_DEADLOCK FALSE
