CONSTANTS
  Keys = {k1, k2, k3, k4}
  Addrs = {a1, a2, a3, a4}
  None = None
  Capacity = 5
  MaxBytes = 6
SPECIFICATION Spec
SYMMETRY CacheSymmetry
INVARIANTS IndexAgrees WithinCapacity HeldPointerUsable
PROPERTY EvictsLeastRecentlyUsed
