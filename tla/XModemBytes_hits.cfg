SPECIFICATION FairSpec
CONSTANTS
  Protocol = "XMODEM"
  SmallBlk = 2
  LargeBlk = 3
  BlkMod = 256
  MaxRetry = 3
  MaxTimeout = 2
  HalfWord = 1000
  MaxFaults = 1
  FaultKinds = {"byte_lost", "byte_hit", "byte_short", "read_error"}
  NoiseBytes = {}
  MaxAttempt = 3
  HitBytes = {1, 4}
  Files <- MCFiles
  SlowFiles <- MCSlowFiles
  RamSize = 20
  LineSpeeds = {"steady", "slow"}
INVARIANTS
  BytesTypeOK
  StoredIsPrefix
  CrcIsRemainder
  CompleteUnlessSlipped
PROPERTIES
  BodyHitRecovered
  BothReturn
