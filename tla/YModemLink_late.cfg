SPECIFICATION YSpec
CONSTANTS
  HalfWord = 64
  Protocol = "YMODEM"
  SmallBlk = 2
  LargeBlk = 4
  BlkMod = 6
  MaxRetry = 3
  MaxTimeout = 2
  MaxFaults = 2
  FaultKinds = {"lose", "damage", "reply", "noise"}
  NoiseBytes = {4, 6}
  FileSizes = {2, 5}
  RamSizes = {16}
  Timely = FALSE
  Valids = {{"filename", "filesize"}}
INVARIANTS CopyIsPrefix ExactWithoutFaults YWindowInv YFaultlessInv
