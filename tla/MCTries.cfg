SPECIFICATION Spec
CONSTANTS
  ByteBits = 4
  WordBytes = 4
  StringTag = 4
  ShortLimit = 3
  LongStringTag = 6
  ListTag = 10
  LongListTag = 12
  Radix = 4
  HashLength = 16
  Keys <- MCKeys
  Values <- MCValues
  KeyDigest <- MCKeyDigest
  ListKeys <- MCListKeys
  MaxEntries = 3
INVARIANTS
  RootOfContent
  EveryKeyFound
  CanonicalShape
  
