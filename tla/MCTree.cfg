SPECIFICATION Spec
CONSTANTS
  Lists <- MCLists
  SeqMod <- MCSeqMod
INVARIANTS
  TypeOK
  RangesCover
  OneEntryOnePlace
PROPERTY ImplementsReference
