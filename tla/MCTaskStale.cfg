SPECIFICATION Spec
CONSTANTS
  Task <- MCTask
  Declared <- MCDeclared
  Deps <- MCDeps
  Disjunctive <- DisjunctiveTasks
  Parse = "parse"
  Options <- FewOptions
  MaxOptions = 4
  Outcomes <- MCOutcomes
  Fact <- MCFact
  Flag <- Flags
  Provides <- MCProvides
  Drops <- MCDrops
  Reads <- MCReads
  Unfinished <- Unwritten
PROPERTY InputsHold
CHECK_DEADLOCK FALSE
