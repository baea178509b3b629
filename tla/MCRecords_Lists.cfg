SPECIFICATION Spec
CONSTANTS
  Names <- MCNames
  Exts <- MCExts
  Paths <- MCPaths
  Jobs <- MCListJobs
  UsnJrnl = "$UsnJrnl"
INVARIANT ListedDataIsLinked
