SPECIFICATION Spec
CONSTANTS
  Bytes <- MCBytes
  Z = 2
  MaxLen = 3
INVARIANTS
  OnlyIdenticalKeysAreEqual
  TotalOrder
  ZSuffixPlacement
CHECK_DEADLOCK FALSE
