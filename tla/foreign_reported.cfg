CONSTANTS
  Ssws = {"w1", "w2"}
  Submissions <- TwoSubmissions
  Namespaces = {"ns1", "ns2"}
  Names = {"a"}
  Types = {"Opaque"}
  Ops = {"Update"}
  Day = 1
  Hour = 1
  MaxDuration = 7
  MaxTime = 2
  Budget = 0
SPECIFICATION Spec
PROPERTIES
  ReportsItsOwn
CHECK_DEADLOCK FALSE
