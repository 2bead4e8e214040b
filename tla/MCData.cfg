SPECIFICATION DataSpec
CONSTANTS
  ByteBits = 4
  WordBytes = 1
  Operands <- MCOperands
  Exponents <- MCExponents
  Moduli <- MCModuli
  UintBound = 34
  StringTag = 4
  ShortLimit = 3
  LongStringTag = 6
  ListTag = 10
  LongListTag = 12
  Leaves <- MCLeaves
  RowLength = 3
  MaxItems = 4
  MaxDepth = 2
INVARIANTS
  NothingLost
  NoFalseRefusal
  SignedArithmetic
  RlpRoundTrip
PROPERTIES
  RangeKept
CHECK_DEADLOCK FALSE
