SPECIFICATION Spec
CONSTANTS
  N = 5
  Root = 1
  SeqModulus = 16
  CountedOn <- FreeOnly
  MaxOps = 5
  MaxBad = 1
  Calls <- ImageCalls
INVARIANT ReallocatedRefused
