SPECIFICATION Spec
CONSTANTS
  journal = journal
  other = other
  dir = dir
  broken = broken
  brief = brief
  Rec <- MCRec
  Jobs <- MCJobs
INVARIANTS
  TypeOK
  Protocol
  CollectedInOrder
  PanicsAreExplained
  NoCircularWait
PROPERTIES
  EveryStepCounts
  Termination
