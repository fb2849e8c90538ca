SPECIFICATION Spec
CONSTANTS
  PrintTemplates <- MCPrintTemplates
  ScanTemplates <- MCScanTemplates
  Arguments <- MCArguments
  Sizes <- MCSizes
  Files <- MCFiles
  Room = 2
  CharRoom = 4
INVARIANTS PrintsInOrder ItemsInPlace
PROPERTIES Shrinks
