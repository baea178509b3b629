SPECIFICATION Spec
CONSTANTS
  Names <- MCNames
  Exts <- MCExts
  Paths <- MCPaths
  Jobs <- MCJobs
  UsnJrnl = "$UsnJrnl"
INVARIANTS
  TypeOK
  ParsedAsStored
  SelectedAsAsked
  ShownUnlessOddRecord
  ListsReadInTable
PROPERTY Termination
