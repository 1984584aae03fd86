SPECIFICATION HSpec
CONSTANTS
  BUF_SIZE = 3
  Numbers = 8
  Lengths = {0, 1, 2, 3, 4}
  MaxBurst = 2
  MaxReaders = 2
INVARIANTS
  InputInOrder
  OutputInOrder
  PumpPrimed
PROPERTY OutputProgress
