SPECIFICATION Spec
CONSTANTS
  HalfWord = 64
  Protocol = "XMODEM"
  SmallBlk = 2
  LargeBlk = 4
  BlkMod = 8
  MaxRetry = 3
  MaxTimeout = 3
  MaxFaults = 2
  FaultKinds = {"lose", "damage", "reply"}
  NoiseBytes = {0, 24}
  FileSizes = {0, 2, 5, 7}
  RamSizes = {3, 6, 16}
  Timely = TRUE
INVARIANTS TypeOK EmittedWasStored SuccessAgreed ReportedIsWritten TimelyInv
PROPERTY ImplementsFileTransfer
