CONSTANTS
  Ssws = {"w1"}
  Submissions <- TwoSubmissions
  Namespaces = {"ns1"}
  Names = {"a"}
  Types = {"Opaque"}
  Ops = {"Apply", "Update"}
  Day = 1
  Hour = 1
  MaxDuration = 7
  MaxTime = 3
  Budget = 3
SPECIFICATION Spec
PROPERTIES
  NoFalseAlarm
CHECK_DEADLOCK FALSE
