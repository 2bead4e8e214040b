SPECIFICATION Spec
CONSTANTS
  PRIME = 103
  NINE = 2
  THREE = 5
  ALT_BN128_CURVE_ORDER = 97
  ATE_PAIRING_COUNT = 106
  ATE_PAIRING_COUNT_BITS = 5
  Octets = 2
  R1 = 8
  R2 = 6
  R3 = 4
  R4 = 15
  IV <- MCIV
  sigma <- MCsigma
  BLS_MODULUS = 5
  KZG_SETUP_G2_MONOMIAL_1 = 3
  FIELD_ELEMENTS_PER_BLOB = 4096
  Calls <- MCCalls
  FinalExponent <- MCFinalExponent
INVARIANTS
  GroupLaw
  PairingCheck
  BlakeReversible
  KzgSound
CHECK_DEADLOCK FALSE
