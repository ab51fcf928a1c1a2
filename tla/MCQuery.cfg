\* Pages, plans, groups and the index, one workload each.
SPECIFICATION Spec
CONSTANTS
  NumOf <- MCNumOf
  Text = Text
  NoValue = NoValue
  Nil <- MCNil
  IndexedField = "a"
  HasPart <- Same
  Regex <- Same
  KeyField = "k"
  Workloads <- MCWorkloads
  MaxId = 4
INVARIANTS
  PagesExactlyOnce
  TopKIsSort
  PlanInvisible
  AggregatesExact
  IndexIsScan
