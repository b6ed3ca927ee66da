SPECIFICATION CodecSpec
CONSTANTS
  MaxBuf = 7
  MaxDoc = 3
  NaN = NaN
  NoNumber = NoNumber
  DepthMax = 2
  UnknownMax = 2
  Int64Max = 1023
  Int32Max = 511
  ExactMax = 512
  DoubleMax = 10000
  NumberWidth = 24
  WriteMax = 256
  TextSize <- MCTextSize
  KeyLen <- MCKeyLen
INVARIANTS
  FramerInv
  ClosesAtObjectEnd
  DecodesTheMeaning
  DecodesOneWholeFrame
  MessagesReadBack
  RepliesReadBack
  DeriveKeepsTheWire
