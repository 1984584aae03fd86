SPECIFICATION KSpec
CONSTANTS
  Maps <- BiosMaps
  KM_LOW_CUTOFF = 4
  KM_HIGH_CUTOFF = 32
  Counts = {0, 1, 2, 3}
  MaxCarved = 1
INVARIANTS
  PageListSound
  LoopsEndThere
PROPERTY ImplementsAllocator
