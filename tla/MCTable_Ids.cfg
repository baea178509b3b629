SPECIFICATION Spec
CONSTANTS
  N = 5
  Root = 1
  SeqModulus = 16
  CountedOn <- Both
  MaxOps = 5
  MaxBad = 1
  Calls <- IdCalls
INVARIANT SelectedRecordsLoaded
