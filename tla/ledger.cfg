CONSTANTS
  m1 = m1
  m2 = m2
  Managers = {m1, m2}
  Namespaces = {"ns1", "ns2"}
  Names = {"a"}
  Data <- TwoContents
  Budget = 1
  MaxLag = 1
SPECIFICATION MCSpec
INVARIANTS
  LedgerWellFormed
  HistoryBounded
  LedgerInductive
PROPERTIES
  SameReadKeepsHistory
  Converges
CHECK_DEADLOCK FALSE
