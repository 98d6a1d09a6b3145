SPECIFICATION YFairSpec
CONSTANTS
  HalfWord = 64
  Protocol = "YMODEM"
  SmallBlk = 2
  LargeBlk = 4
  BlkMod = 8
  MaxRetry = 3
  MaxTimeout = 3
  MaxFaults = 3
  FaultKinds = {"lose", "damage", "reply"}
  NoiseBytes = {0, 24}
  FileSizes = {0, 2, 5, 7}
  RamSizes = {6, 16}
  Timely = TRUE
  Valids = {{}, {"filename", "filesize"}, {"filename", "filesize", "modif_date"}}
INVARIANTS YTypeOK ExactCopy BatchAgreed YTimelyInv
PROPERTIES DeliversUndamaged ImplementsFileTransfer
