\* Liveness: no symmetry.  Two blocks of up to two words.
CONSTANTS
  Addr = {a1, a2}
  NoAddr = NoAddr
  MaxWords = 2
  Slots = 1
  MdWords = 2
  NodeWords = 2
  Memory = 12
SPECIFICATION FairSpec
INVARIANTS
  ExactInv
PROPERTIES
  Answered
CHECK_DEADLOCK FALSE
