SPECIFICATION Spec
CONSTANTS
  a = a
  b = b
  v1 = v1
  v2 = v2
  None = None
  Child = {x, y}
  Key = {k1, k2, k3}
  Paid = {k3}
  Value <- TwoValues
  BlobsOf <- Files
  MaxBytes = 2
  MaxRuns = 2
  Faults = {"kill", "crash", "io"}
INVARIANTS
  CacheInv
  HitIsWhole

  
