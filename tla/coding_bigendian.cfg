SPECIFICATION CodingSpec
CONSTANTS
  ByteBits = 2
  CharBits = 4
  Lengths = {1, 3, 4, 7, 8}
  OtherLengths = {2, 3}
  Values <- MCValues
  OtherValues <- MCOtherValues
CHECK_DEADLOCK FALSE
INVARIANTS
  BigCarried
