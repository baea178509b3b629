SPECIFICATION Spec
CONSTANTS
  file = file
  twin = twin
  dir = dir
  base = base
  ext = ext
  a = a
  b = b
  dash = dash
  Rec <- MCRec
  NoRec = NoRec
  Names <- MCNames
  Entries <- MCEntries
  Jobs <- MCJobs
  NoFile = NoFile
  NoItem = NoItem
  MaxFaults = 1
INVARIANTS
  TypeOK
  Protocol
  WaitCoversWrites
  CrashKeepsWritten
  LastWriterWins
  HashOfOwnContent
  NoCircularWait
PROPERTIES
  EveryStepCounts
  IdNeverOverwrites
  Termination
  ImplementsSequential
