SPECIFICATION FairSpec
CONSTANTS
  HalfWord = 64
  Protocol = "XMODEM"
  SmallBlk = 2
  LargeBlk = 4
  BlkMod = 5
  MaxRetry = 3
  MaxTimeout = 2
  MaxFaults = 1
  FaultKinds = {"lose", "damage", "reply"}
  NoiseBytes = {4, 6}
  FileSizes = {2, 11}
  RamSizes = {3, 16}
  Timely = FALSE
INVARIANTS CopyIsPrefix WindowInv FaultlessInv CompleteWithoutFaults
PROPERTY Termination
