CONSTANTS
  m1 = m1
  Managers = {m1}
  Namespaces = {"ns1"}
  Names = {"a"}
  Data <- TwoContents
  Budget = 2
  MaxLag = 2
SPECIFICATION Spec
PROPERTIES
  HistoryKept
CHECK_DEADLOCK FALSE
