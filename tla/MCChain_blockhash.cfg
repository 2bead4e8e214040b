CONSTANTS
  alice = alice
  keeper = keeper
  roots = roots
  miner = miner
  c1 = c1
  slot = slot
  Addr <- MCAddr
  Slots = {slot}
  Values = {0, 1, 2, 3, 4, 5, 6, 7}
  Codes = {c1}
  NoCode = NoCode
  NoAccount = NoAccount
  WordSize = 1000000000
  MaxNonce = 100
  Genesis <- MCGenesis
  GenesisHeader <- MCGenesisHeader
  BeaconRoots = roots
  Beneficiary = miner
  Expectations <- MCExpectations
  HashWindow = 2
  Drafts <- ForkDrafts
  MaxBlocks = 3
SPECIFICATION Spec
INVARIANTS BlockHashIsAncestor
CHECK_DEADLOCK FALSE
