CONSTANTS
  m1 = m1
  Managers = {m1}
  Day = 2
  Poll = 1
  Resync = 2
  Window = {1}
  MaxTime = 2
  Budget = 2
  Prompt = FALSE
  InitSecrets = 1
SPECIFICATION Spec
INVARIANTS
  TypeOK
  NoticePerClaim
  ClaimedHasFinalizer
  FinalizerInductive
PROPERTIES
  ClaimsSpaced
  RunLeavesWakeup
  FinalizerKept
  ImplementsDailyClaim
CHECK_DEADLOCK FALSE
