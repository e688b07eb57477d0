CONSTANTS
  m1 = m1
  Managers = {m1}
  Day = 24
  Poll = 1
  Resync = 10
  Window = {0, 1, 2, 3, 4, 5, 6, 7, 8, 9, 10, 11, 12, 13, 14, 15, 16, 17, 18, 19, 20, 21, 22, 23}
  MaxTime = 48
  Budget = 0
  Prompt = TRUE
  InitSecrets = 0
SPECIFICATION Spec
INVARIANTS
  ServedInTwoDays
CHECK_DEADLOCK FALSE
