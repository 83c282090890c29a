SPECIFICATION PoolSpec
CONSTANTS
  Threads = {t1, t2}
  Segments = {1, 2, 3}
  InitialSlots = 1
  MaxSlabSlots = 2
  MaxTotalSlots = 5
  LocalCapacity = 2
SYMMETRY ThreadSymmetry
INVARIANT SlotsAccounted
PROPERTY TrimKeepsReserve
