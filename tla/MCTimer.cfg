SPECIFICATION Spec
CONSTANTS
  Names = {parse, rest}
  Clocks = {user, sys, wall}
  Wall = wall
  MaxNow = 2
  MaxTotal = 2
  MaxDepth = 3
SYMMETRY Symmetry
INVARIANT ReportAddsUp

CHECK_DEADLOCK FALSE
PROPERTY ChargesTheTop
