SPECIFICATION Spec
CONSTANTS
  a = a
  b = b
  int = int
  Key = {a, b}
  Builtin = {int}
  NoPointer = 0
  MaxNodes = 5
  MaxBatch = 2
SYMMETRY Names
INVARIANTS
  BoundLexically
  RejectsDuplicates
  BreakInnermost
  ScopesBalanced
CHECK_DEADLOCK FALSE
