CONSTANTS
  cbA = cbA
  cbB = cbB
  cbC = cbC
  cbD = cbD
  Cb <- MCCb2
  MaxTimer = 2
  Wrap = 32
  Quarter = 8
  Pre = 1
  Post = 4
  Near = 6
  Interval = {2, 4}
  MaxLate = 1
  Uses = {}
  MaySleep = TRUE
SPECIFICATION FairSpec
INVARIANT WakeArmed
PROPERTY Fires
