CONSTANTS
  alice = alice
  token = token
  fresh = fresh
  ecrec = ecrec
  c1 = c1
  Addr <- MCAddr
  Slots = {}
  Values = {0}
  Codes = {c1}
  NoCode = NoCode
  NoAccount = NoAccount
  WordSize = 1000000
  MaxNonce = 3
  Precompiles = {ecrec}
  Senders = {alice}
  CreateTargets = {fresh, token}
  CallTargets = {token, fresh, ecrec}
  Heirs = {alice, token, fresh}
  Probes = {}
  Amounts = {0, 1}
  InitCode = InitCode
  InvalidCode = InvalidCode
  Beneficiary = ecrec
  TxShapes <- FreeTxs
  Genesis <- MCGenesis
  MaxDepth = 2
  MaxTxs = 2
  MaxOps = 4
  Rsclear = 4800
  Gsset = 20000
  Gsreset = 2900
  Gwarmaccess = 100
  NoTx = NoTx
SPECIFICATION Spec
INVARIANTS TypeOK EtherConserved StaticPure OnlyNewDestroyed DeployedKept SelfExists NoEmptyAccount
PROPERTIES DeployedSurvive
CHECK_DEADLOCK FALSE
