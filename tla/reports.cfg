CONSTANTS
  Ssws = {"w1", "w2"}
  Submissions <- AllSubmissions
  Namespaces = {"ns1", "ns2"}
  Names = {"a"}
  Types = {"Opaque", "bootstrap-token"}
  Ops = {"Update"}
  Day = 1
  Hour = 1
  MaxDuration = 3
  MaxTime = 2
  Budget = 1
SPECIFICATION FairSpec
INVARIANTS
  TypeOK
PROPERTIES
  WatchedAsDocumented
  ReportExact
  EventuallyRecorded
  LedgerCollected
CHECK_DEADLOCK FALSE
