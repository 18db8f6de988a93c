SPECIFICATION Spec
CONSTANTS
  main = main
  f = f
  g = g
  h = h
  x = x
  y = y
  z = z
  none = none
  Fun = {main, f, g, h}
  Main = main
  Var = {x, y, z}
  Programs <- AllPrograms
INVARIANT
  CollectsCallees
CHECK_DEADLOCK FALSE
