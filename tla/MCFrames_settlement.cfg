CONSTANTS
  alice = alice
  token = token
  fresh = fresh
  ecrec = ecrec
  c1 = c1
  k1 = k1
  Addr <- MCAddr
  Slots = {k1}
  Values = {0, 1, 2}
  Codes = {c1}
  NoCode = NoCode
  NoAccount = NoAccount
  WordSize = 1000000
  MaxNonce = 3
  Precompiles = {ecrec}
  Senders = {alice}
  CreateTargets = {fresh}
  CallTargets = {token, ecrec}
  Heirs = {ecrec}
  Probes = {fresh}
  Amounts = {1}
  InitCode = InitCode
  InvalidCode = InvalidCode
  Beneficiary = ecrec
  TxShapes <- PaidTxs
  Genesis <- MCGenesis
  MaxDepth = 2
  MaxTxs = 1
  MaxOps = 4
  Rsclear = 4800
  Gsset = 20000
  Gsreset = 2900
  Gwarmaccess = 100
  NoTx = NoTx
SPECIFICATION Spec
INVARIANTS NoMint RefundCoversClears AccruedKept
CHECK_DEADLOCK FALSE
