CONSTANTS
  cbA = cbA
  cbB = cbB
  cbC = cbC
  cbD = cbD
  Cb <- MCCb4
  MaxTimer = 3
  Wrap = 32
  Quarter = 8
  Pre = 1
  Post = 4
  Near = 6
  Interval = {2, 4}
  MaxLate = 1
  Uses = {"delete", "return", "own", "other", "add"}
  MaySleep = FALSE
SPECIFICATION Spec
INVARIANT TypeOK
INVARIANT Ordered
PROPERTY OnlyOwnMove
