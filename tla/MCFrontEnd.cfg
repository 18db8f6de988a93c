SPECIFICATION Spec
CONSTANTS
  Programs <- MCPrograms
  Bytes <- MCBytes
  MaxInteger = 511
  MaxFuel = 12
INVARIANTS
  PrintedReadsBack DrawnIsTheTree ParentsEnclose UsesFindDeclarations RenamedApart RebuiltIsAccepted AcceptedRuns SameMeaning CodeIsWellFormed
CHECK_DEADLOCK FALSE
