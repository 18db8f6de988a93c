SPECIFICATION Spec
CONSTANTS
  Commands <- MCCommands
  filename_ <- MCFilename
  Files <- MCFiles
  cwd <- MCCwd
  PKGDATADIR <- MCCwd
  exists <- MCExists
  Reserved <- MCReserved
  INT_MAX = 19
  Spelled <- MCSpelled
  Grammar <- MCGrammar
  MainTree <- WithMain
  NoTree <- Null
  Ungrouped <- MCUngrouped
INVARIANTS
  StacksAgree ImportIsInclusion SpelledReadsBack
CHECK_DEADLOCK FALSE
