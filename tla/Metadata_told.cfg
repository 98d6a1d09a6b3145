SPECIFICATION Spec
CONSTANTS
  Protocol = "YMODEM"
  SmallBlk = 32
  LargeBlk = 64
  BlkMod = 256
  MaxRetry = 10
  MaxTimeout = 10
  HalfWord = 32768
  LongMod = 1073741824
  TypeBit = 32768
  Names <- MCNames
  Sizes = {9, 65535}
  Dates = {8}
  Permissions = {420, 33188}
  Serials = {0}
  TxNameSize = 56
  RxNameSizes = {4, 56}
  LineSizes = {20, 69, 72}
  Leftovers = {0, 55}
  MaxFiles = 2
INVARIANTS ToldAsSet CutNameRefused
CHECK_DEADLOCK FALSE
