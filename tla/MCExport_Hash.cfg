SPECIFICATION Spec
CONSTANTS
  file = file
  twin = twin
  dir = dir
  base = base
  ext = ext
  a = a
  b = b
  dash = dash
  Rec <- MCRec
  NoRec = NoRec
  Names <- MCNames
  Entries <- MCEntries
  Jobs <- HashJobs
  NoFile = NoFile
  NoItem = NoItem
  MaxFaults = 0
INVARIANT ExportedFilesHashed
