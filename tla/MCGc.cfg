\* Three blocks of at most one word fit, or two and the object of a third whose
\* node does not; every interleaving of a program with two words of stack.
CONSTANTS
  Addr = {a1, a2, a3}
  NoAddr = NoAddr
  MaxWords = 1
  Slots = 2
  MdWords = 2
  NodeWords = 2
  Memory = 14
SPECIFICATION Spec
SYMMETRY AddrSymmetry
INVARIANTS
  NoDangling
  MarksClear
  SweepExact
  DepthBounded
  Accounting
  GivesUpHonestly
PROPERTIES
  ImplementsPromise
CHECK_DEADLOCK FALSE
