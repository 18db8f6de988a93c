SPECIFICATION FairSpec
CONSTANTS
  Task <- MCTask
  Declared <- MCDeclared
  Deps <- MCDeps
  Disjunctive <- DisjunctiveTasks
  Parse = "parse"
  Options <- MCOptions
  MaxOptions = 3
  Outcomes <- MCOutcomes
  Fact <- MCFact
  Flag <- Flags
  Provides <- MCProvides
  Drops <- MCDrops
  Reads <- MCReads
  Unfinished <- Unwritten
INVARIANTS
  DepsFirst
  ResolutionOK
  NoReentry
PROPERTIES
  RepeatedOnRequest
  RunsAfterDeps
  NoNeedlessDefault
  DepsSuffice
  Terminates
CHECK_DEADLOCK FALSE
