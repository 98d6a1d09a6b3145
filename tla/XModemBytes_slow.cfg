SPECIFICATION Spec
CONSTANTS
  Protocol = "XMODEM"
  SmallBlk = 2
  LargeBlk = 3
  BlkMod = 256
  MaxRetry = 3
  MaxTimeout = 2
  HalfWord = 1000
  MaxFaults = 0
  FaultKinds = {}
  NoiseBytes = {}
  MaxAttempt = 3
  HitBytes = {1, 4}
  Files <- MCFiles
  SlowFiles <- MCFiles
  RamSize = 20
  LineSpeeds = {"slow"}
INVARIANT CompleteWhenSlow
