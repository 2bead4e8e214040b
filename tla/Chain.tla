-------------------------------- MODULE Chain --------------------------------
(***************************************************************************)
(* The runner of block chain tests, Conform/TestRunner.lean: processBlocks *)
(* folds a test's blocks over a state; each block is validated, executed   *)
(* and validated again inside a try, and either extends the accepted       *)
(* blocks or leaves the state as it was.                                   *)
(*                                                                         *)
(* The author of the tests is the environment: headers has every block     *)
(* that exists, well made or flawed, and the hash of a block is its        *)
(* position there.  A root (of the state, of the receipts) is the value    *)
(* that it commits to, since the hashes are taken to be injective.  A      *)
(* transaction is abstract: it transfers ether, may log, and may store     *)
(* what BLOCKHASH answers, so that a wrong answer shows in the state root. *)
(***************************************************************************)
EXTENDS Accounts

CONSTANTS
  Genesis,       \* pre, the account map of the test before its blocks
  GenesisHeader, \* the header of the genesis block
  BeaconRoots,   \* BEACON_ROOTS_ADDRESS
  Beneficiary,   \* H_c of every block
  Drafts,        \* the transactions, withdrawals and flaw of a block to make
  Expectations,  \* the sets of exceptions that a test declares for a block
  HashWindow,    \* 256 in the code: how far back BLOCKHASH looks
  MaxBlocks      \* bound on the number of blocks of a test

NoHash == 0      \* the hash that belongs to no block
NoNumber == -1   \* a transaction that asks for no block hash

FlawNames ==
  {"none", "encoding", "parent", "number", "timestamp", "gasLimit", "baseFee",
   "sealed", "gasUsed", "stateRoot", "bloom", "receipts"}

(* What the checks of a transaction alone let through (NONCE_IS_MAX,       *)
(* INTRINSIC_GAS_TOO_LOW), and the gas that it turns out to use.           *)
TxRecord ==
  [sender : Addr, recipient : Addr, nonce : 0..(MaxNonce - 1), value : Word,
   gasLimit : Nat, gasUsed : Nat, price : Nat,
   logs : BOOLEAN, asks : Nat \cup {NoNumber}, fails : BOOLEAN]

WithdrawalRecord == [address : Addr, amount : Word]

ASSUME DraftAssumption ==
  \A draft \in Drafts :
    /\ draft.flaw \in FlawNames
    /\ draft.txs \in Seq(TxRecord)
    /\ draft.withdrawals \in Seq(WithdrawalRecord)

(* No block or transaction uses more gas than its limit. *)
ASSUME GasAssumption ==
  /\ GenesisHeader.gasLimit \in Nat /\ GenesisHeader.baseFee \in Nat
  /\ GenesisHeader.gasUsed \in 0..GenesisHeader.gasLimit
  /\ \A txs \in {GenesisHeader.txs} \cup {draft.txs : draft \in Drafts} :
       \A n \in DOMAIN txs : txs[n].gasUsed <= txs[n].gasLimit

ASSUME ChainAssumption ==
  /\ Genesis \in AccountMap
  /\ {BeaconRoots, Beneficiary} \subseteq Addr
  /\ HashWindow \in Nat /\ MaxBlocks \in Nat
  /\ GenesisHeader.parent = NoHash
  /\ GenesisHeader.number = 0
  /\ GenesisHeader.timestamp \in Nat
  /\ GenesisHeader.stateRoot = Genesis
  /\ GenesisHeader.txs \in Seq(TxRecord)

(* Hashes and block numbers are among the words that a contract can store. *)
ASSUME HashAssumption == 0..(2 * MaxBlocks + 1) \subseteq Values

VARIABLES
  headers,  \* every block made so far; a hash is a position
  blocks,   \* the accepted blocks in order, each with its state
  acc,      \* accState of the fold: the state after the last accepted block
  work,     \* the state of the block in hand
  current,  \* the block in hand: its hash and the exceptions the test expects
  next,     \* the transaction of that block that is executed next
  phase,    \* where the try block stands
  raised,   \* the exception that catch looks at
  test      \* the end of the test: the block it names and the kind of its post

chainVars == <<headers, blocks, acc, work, current, next, phase, raised, test>>

NoException == "none"
Block == headers[current.hash]

Init ==
  /\ headers = <<GenesisHeader>>
  /\ blocks = <<[hash |-> 1, sigma |-> Genesis]>>
  /\ acc = [accountMap |-> Genesis, gasUsed |-> 0, receipts |-> <<>>, logs |-> {}]
  /\ work = acc
  /\ current = [hash |-> NoHash, expects |-> {}]
  /\ next = 1
  /\ phase = "idle"
  /\ raised = NoException
  /\ test = [last |-> NoHash, kind |-> "none"]

-----------------------------------------------------------------------------
(* Executing transactions *)

(* Mutant: the genesis block is not counted. *)
BlockHash_NoGenesis(v, n) ==
  IF v <= n \/ n + HashWindow < v \/ n >= Len(blocks) \/ n = 0
    THEN NoHash
    ELSE blocks[n].hash

(* BLOCKHASH in a block of number v: the accepted blocks are taken to lie  *)
(* at the position of their number.                                        *)
BlockHash(v, n) ==
  IF v <= n \/ n + HashWindow < v \/ n >= Len(blocks)
    THEN NoHash
    ELSE blocks[n + 1].hash

(* What the contract at a, if there is one, stores. *)
StoreAll(sigma, a, x) ==
  IF Exists(sigma, a)
    THEN [sigma EXCEPT ![a] = [@ EXCEPT !.storage = [k \in Slots |-> x]]]
    ELSE sigma

(* Upsilon, for transactions of one call: the sender pays for the gas used *)
(* and its nonce goes up whatever becomes of the call; the call moves the  *)
(* value and stores the block hash it has seen, unless it fails; the       *)
(* beneficiary gets what is paid above the base fee.                       *)
Upsilon(sigma, b, T, seen) ==
  LET cost    == WordMul(T.gasUsed, T.price)
      charged == [sigma EXCEPT ![T.sender] =
                    [AccountAt(sigma, T.sender) EXCEPT
                       !.balance = WordSub(@, cost), !.nonce = WordAdd(@, 1)]]
      moved   == Transfer(charged, T.sender, T.recipient, T.value)
      called  == CASE T.fails                        -> charged
                   [] ~T.fails /\ T.asks = NoNumber  -> moved
                   [] ~T.fails /\ T.asks # NoNumber  -> StoreAll(moved, T.recipient, seen)
      fee     == WordMul(T.gasUsed, T.price - b.baseFee)
  IN  IF fee # 0 THEN IncreaseBalance(called, Beneficiary, fee) ELSE called

LogsOf(T) == IF T.logs /\ ~T.fails THEN {T.recipient} ELSE {}

(* The first check of a sequence that fails names the exception. *)
FirstError(checks) ==
  IF \A i \in DOMAIN checks : ~checks[i].bad
    THEN NoException
    ELSE checks[CHOOSE i \in DOMAIN checks :
           checks[i].bad /\ \A j \in DOMAIN checks : j < i => ~checks[j].bad].error

Check(bad, error) == [bad |-> bad, error |-> error]

(* Mutant: a nonce below that of the sender is let through. *)
TransactionError_NoTooLow(s, b, T) ==
  LET sender == AccountAt(s.accountMap, T.sender)
  IN  FirstError(<<
        Check(T.gasLimit + s.gasUsed > b.gasLimit, "GAS_ALLOWANCE_EXCEEDED"),
        Check(b.baseFee > T.price, "INSUFFICIENT_MAX_FEE_PER_GAS"),
        Check(sender.code # NoCode, "SENDER_NOT_EOA"),
        Check(T.nonce > sender.nonce, "NONCE_MISMATCH_TOO_HIGH"),
        Check(WordAdd(WordMul(T.gasLimit, T.price), T.value) > sender.balance,
              "INSUFFICIENT_ACCOUNT_FUNDS")>>)

(* validateTransaction, but for the checks of the transaction alone (its   *)
(* signature, intrinsic gas, blobs and encoding).                          *)
TransactionError(s, b, T) ==
  LET sender == AccountAt(s.accountMap, T.sender)
  IN  FirstError(<<
        Check(T.gasLimit + s.gasUsed > b.gasLimit, "GAS_ALLOWANCE_EXCEEDED"),
        Check(b.baseFee > T.price, "INSUFFICIENT_MAX_FEE_PER_GAS"),
        Check(sender.code # NoCode, "SENDER_NOT_EOA"),
        Check(T.nonce < sender.nonce, "NONCE_MISMATCH_TOO_LOW"),
        Check(T.nonce > sender.nonce, "NONCE_MISMATCH_TOO_HIGH"),
        Check(WordAdd(WordMul(T.gasLimit, T.price), T.value) > sender.balance,
              "INSUFFICIENT_ACCOUNT_FUNDS")>>)

(* Mutant: the receipt holds the gas of the transaction. *)
Executed_GasOfTx(s, b, T, seen) ==
  [accountMap |-> Upsilon(s.accountMap, b, T, seen),
   gasUsed    |-> s.gasUsed + T.gasUsed,
   receipts   |-> Append(s.receipts,
                    [ok |-> ~T.fails, gas |-> T.gasUsed, logs |-> LogsOf(T)]),
   logs       |-> LogsOf(T)]

(* executeTransaction: the receipt holds the gas of the block so far, and  *)
(* the substate of the state is that of this transaction.                  *)
Executed(s, b, T, seen) ==
  LET total == s.gasUsed + T.gasUsed
  IN  [accountMap |-> Upsilon(s.accountMap, b, T, seen),
       gasUsed    |-> total,
       receipts   |-> Append(s.receipts,
                        [ok |-> ~T.fails, gas |-> total, logs |-> LogsOf(T)]),
       logs       |-> LogsOf(T)]

(* Mutant: a withdrawal overwrites the account. *)
ApplyWithdrawal_Overwrite(sigma, w) ==
  IF w.amount = 0 THEN sigma
    ELSE [sigma EXCEPT ![w.address] = [DefaultAccount EXCEPT !.balance = w.amount]]

(* applyWithdrawal: nothing for nothing, and an absent account is made. *)
ApplyWithdrawal(sigma, w) ==
  IF w.amount = 0 THEN sigma ELSE IncreaseBalance(sigma, w.address, w.amount)

ApplyWithdrawals(sigma, ws) == FoldLeft(ApplyWithdrawal, sigma, ws)

(* The system call before the transactions; its contract, if there is one, *)
(* remembers the block.                                                    *)
BeaconCall(sigma, b) == StoreAll(sigma, BeaconRoots, b.number)

-----------------------------------------------------------------------------
(* The base fee and the header *)

(* Mutant: the step down is at least 1, like the step up. *)
ExpectedBaseFee_AtLeastOne(parent) ==
  LET tau   == parent.gasLimit \div 2
      delta == IF parent.gasUsed < tau THEN tau - parent.gasUsed
                                       ELSE parent.gasUsed - tau
      nu    == ((parent.baseFee * delta) \div tau) \div 8
      step  == IF nu > 1 THEN nu ELSE 1
  IN  CASE parent.gasUsed = tau -> parent.baseFee
        [] parent.gasUsed < tau -> parent.baseFee - step
        [] parent.gasUsed > tau -> parent.baseFee + step

(* expectedBaseFeePerGas: natural numbers, subtraction stops at 0. *)
ExpectedBaseFee(parent) ==
  LET tau   == parent.gasLimit \div 2
      delta == IF parent.gasUsed < tau THEN tau - parent.gasUsed
                                       ELSE parent.gasUsed - tau
      nu    == ((parent.baseFee * delta) \div tau) \div 8
      up    == IF nu > 1 THEN nu ELSE 1
  IN  CASE parent.gasUsed = tau -> parent.baseFee
        [] parent.gasUsed < tau -> parent.baseFee - nu
        [] parent.gasUsed > tau -> parent.baseFee + up

(* validateHeaderBeforeTransactions, once the parent is found. *)
HeaderError(parent, b) ==
  LET slack == parent.gasLimit \div 1024
  IN  FirstError(<<
        Check(\/ b.gasLimit < 5000
              \/ b.gasLimit >= parent.gasLimit + slack
              \/ b.gasLimit <= parent.gasLimit - slack, "INVALID_GASLIMIT"),
        Check(b.baseFee # ExpectedBaseFee(parent), "INVALID_BASEFEE_PER_GAS")>>)

(* Mutant: the gas that the header claims is not compared. *)
BlockError_NoGasUsed(s, parent, b) ==
  FirstError(<<
    Check(b.timestamp <= parent.timestamp, "INVALID_BLOCK_TIMESTAMP_OLDER_THAN_PARENT"),
    Check(b.number # parent.number + 1, "INVALID_BLOCK_NUMBER"),
    Check(~b.sealed, "EXTRA_DATA_TOO_BIG"),
    Check(b.stateRoot # s.accountMap, "INVALID_STATE_ROOT"),
    Check(b.logsBloom # s.logs, "INVALID_LOG_BLOOM"),
    Check(b.receiptRoot # s.receipts, "INVALID_RECEIPTS_ROOT")>>)

(* Mutant: the state that the header claims is not compared. *)
BlockError_NoStateRoot(s, parent, b) ==
  FirstError(<<
    Check(s.gasUsed # b.gasUsed, "INVALID_GAS_USED"),
    Check(b.timestamp <= parent.timestamp, "INVALID_BLOCK_TIMESTAMP_OLDER_THAN_PARENT"),
    Check(b.number # parent.number + 1, "INVALID_BLOCK_NUMBER"),
    Check(~b.sealed, "EXTRA_DATA_TOO_BIG"),
    Check(b.logsBloom # s.logs, "INVALID_LOG_BLOOM"),
    Check(b.receiptRoot # s.receipts, "INVALID_RECEIPTS_ROOT")>>)

(* validateBlock, in its order.  sealed stands for the checks of the       *)
(* header or the body alone (extra data, uncles, blobs, their roots).  The *)
(* bloom is that of the substate: of the last transaction executed.        *)
BlockError(s, parent, b) ==
  FirstError(<<
    Check(s.gasUsed # b.gasUsed, "INVALID_GAS_USED"),
    Check(b.timestamp <= parent.timestamp, "INVALID_BLOCK_TIMESTAMP_OLDER_THAN_PARENT"),
    Check(b.number # parent.number + 1, "INVALID_BLOCK_NUMBER"),
    Check(~b.sealed, "EXTRA_DATA_TOO_BIG"),
    Check(b.stateRoot # s.accountMap, "INVALID_STATE_ROOT"),
    Check(b.logsBloom # s.logs, "INVALID_LOG_BLOOM"),
    Check(b.receiptRoot # s.receipts, "INVALID_RECEIPTS_ROOT")>>)
-----------------------------------------------------------------------------
(* The author of the tests (external): blocks made by the rules, and       *)
(* blocks with one flaw                                                    *)

(* The ancestor of number n of the block h, itself included. *)
AncestorAt(h, n) ==
  LET walk[g \in DOMAIN headers] ==
        IF headers[g].number <= n \/ headers[g].parent = NoHash
          THEN g ELSE walk[headers[g].parent]
  IN  walk[h]

AncestorHash(b, n) ==
  IF b.number <= n \/ n + HashWindow < b.number THEN NoHash
                                                ELSE AncestorAt(b.parent, n)

(* What the transactions of b lead to on the state of its parent, with the *)
(* logs of all of them. *)
RuleRun(b) ==
  LET step(r, T) ==
        LET s == Executed(r, b, T, AncestorHash(b, T.asks))
        IN  [s EXCEPT !.logs = @ \cup r.logs]
  IN  FoldLeft(step,
               [accountMap |-> BeaconCall(headers[b.parent].stateRoot, b),
                gasUsed |-> 0, receipts |-> <<>>, logs |-> {}],
               b.txs)

(* The block on top of p with every claim of its header right. *)
HonestBlock(p, txs, ws) ==
  LET parent == headers[p]
      bare   == [parent |-> p, number |-> parent.number + 1,
                 timestamp |-> parent.timestamp + 1, gasLimit |-> parent.gasLimit,
                 baseFee |-> ExpectedBaseFee(parent), txs |-> txs,
                 withdrawals |-> ws, wellFormed |-> TRUE, sealed |-> TRUE,
                 gasUsed |-> 0, receiptRoot |-> <<>>, logsBloom |-> {},
                 stateRoot |-> parent.stateRoot]
      run    == RuleRun(bare)
  IN  [bare EXCEPT !.gasUsed = run.gasUsed, !.receiptRoot = run.receipts,
                   !.logsBloom = run.logs,
                   !.stateRoot = ApplyWithdrawals(run.accountMap, ws)]

Spoiled(b, flaw) ==
  CASE flaw = "none"      -> b
    [] flaw = "encoding"  -> [b EXCEPT !.wellFormed = FALSE]
    [] flaw = "parent"    -> [b EXCEPT !.parent = NoHash]
    [] flaw = "number"    -> [b EXCEPT !.number = @ + 1]
    [] flaw = "timestamp" -> [b EXCEPT !.timestamp = @ - 1]
    [] flaw = "gasLimit"  -> [b EXCEPT !.gasLimit = @ * 2]
    [] flaw = "baseFee"   -> [b EXCEPT !.baseFee = @ + 1]
    [] flaw = "sealed"    -> [b EXCEPT !.sealed = FALSE]
    [] flaw = "gasUsed"   -> [b EXCEPT !.gasUsed = @ + 1]
    [] flaw = "stateRoot" -> [b EXCEPT !.stateRoot[Beneficiary] = NoAccount]
    [] flaw = "bloom"     -> [b EXCEPT !.logsBloom = Addr]
    [] flaw = "receipts"  -> [b EXCEPT !.receiptRoot =
                                Append(@, [ok |-> TRUE, gas |-> 0, logs |-> {}])]

-----------------------------------------------------------------------------
(* processBlocks *)

Accepted == {blocks[i].hash : i \in DOMAIN blocks}

(* findRev?: the last accepted block with the hash. *)
Found(h) == blocks[Max({i \in DOMAIN blocks : blocks[i].hash = h})]

Take(h, expects) ==
  /\ current' = [hash |-> h, expects |-> expects]
  /\ next' = 1
  /\ phase' = "header"
  /\ raised' = NoException
  /\ UNCHANGED <<blocks, acc, work, test>>

TakeNewBlock(p, draft, expects) ==
  /\ phase = "idle"
  /\ Len(headers) <= MaxBlocks
  /\ headers[p].parent # NoHash \/ p = 1
  /\ LET b == Spoiled(HonestBlock(p, draft.txs, draft.withdrawals), draft.flaw)
     IN  /\ b \notin {headers[h] : h \in DOMAIN headers}
         /\ headers' = Append(headers, b)
  /\ Take(Len(headers) + 1, expects)

(* A test may have the same block twice. *)
TakeOldBlock(h, expects) ==
  /\ phase = "idle"
  /\ h # 1
  /\ Len(blocks) <= MaxBlocks
  /\ UNCHANGED headers
  /\ Take(h, expects)

(* No block in hand: the variables of the try block have no value then. *)
Idle(state) ==
  /\ phase' = "idle"
  /\ work' = state
  /\ current' = [hash |-> NoHash, expects |-> {}]
  /\ next' = 1
  /\ raised' = NoException

Throw(e) ==
  /\ phase' = "catch"
  /\ raised' = e
  /\ UNCHANGED <<headers, blocks, acc, current, next, test>>

(* deserializeRawBlock and validateHeaderBeforeTransactions. *)
EarlyError ==
  CASE ~Block.wellFormed           -> "RLP_STRUCTURES_ENCODING"
    [] Block.wellFormed /\ Block.parent = NoHash -> "UNKNOWN_PARENT_ZERO"
    [] Block.wellFormed /\ Block.parent # NoHash /\ Block.parent \notin Accepted
         -> "UNKNOWN_PARENT"
    [] OTHER -> HeaderError(headers[Block.parent], Block)

RefuseHeader ==
  /\ phase = "header"
  /\ EarlyError # NoException
  /\ Throw(EarlyError)
  /\ UNCHANGED work

(* Mutant: the gas and the receipts of the block before are kept. *)
BeginBlock_NoReset ==
  /\ phase = "header"
  /\ EarlyError = NoException
  /\ phase' = "transactions"
  /\ work' = [acc EXCEPT !.accountMap = BeaconCall(Found(Block.parent).sigma, Block)]
  /\ UNCHANGED <<headers, blocks, acc, current, next, raised, test>>

(* processBlock: the state of the parent, no gas used, no receipts; the    *)
(* substate is the one that the fold has carried here.                     *)
BeginBlock ==
  /\ phase = "header"
  /\ EarlyError = NoException
  /\ phase' = "transactions"
  /\ work' = [acc EXCEPT !.accountMap = BeaconCall(Found(Block.parent).sigma, Block),
                         !.gasUsed = 0,
                         !.receipts = <<>>]
  /\ UNCHANGED <<headers, blocks, acc, current, next, raised, test>>

Transaction == Block.txs[next]

ExecuteTransaction ==
  /\ phase = "transactions"
  /\ next <= Len(Block.txs)
  /\ TransactionError(work, Block, Transaction) = NoException
  /\ work' = Executed(work, Block, Transaction, BlockHash(Block.number, Transaction.asks))
  /\ next' = next + 1
  /\ UNCHANGED <<headers, blocks, acc, current, phase, raised, test>>

RefuseTransaction ==
  /\ phase = "transactions"
  /\ next <= Len(Block.txs)
  /\ LET e == TransactionError(work, Block, Transaction)
     IN  e # NoException /\ Throw(e)
  /\ UNCHANGED work

(* The end of processBlock, which withdrawals cannot make fail. *)
Withdraw ==
  /\ phase = "transactions"
  /\ next > Len(Block.txs)
  /\ work' = [work EXCEPT !.accountMap = ApplyWithdrawals(@, Block.withdrawals)]
  /\ phase' = "validate"
  /\ UNCHANGED <<headers, blocks, acc, current, next, raised, test>>

(* validateBlock, and the exception that was expected and did not come. *)
LateError ==
  LET e == BlockError(work, headers[Block.parent], Block)
  IN  IF e = NoException /\ current.expects # {} THEN "MissedExpectedException" ELSE e

RefuseBlock ==
  /\ phase = "validate"
  /\ LateError # NoException
  /\ Throw(LateError)
  /\ UNCHANGED work

AcceptBlock ==
  /\ phase = "validate"
  /\ LateError = NoException
  /\ blocks' = Append(blocks, [hash |-> current.hash, sigma |-> work.accountMap])
  /\ acc' = work
  /\ Idle(work)
  /\ UNCHANGED <<headers, test>>

(* Mutant: a block that was refused as expected is tried again. *)
CatchExpected_Retry ==
  /\ phase = "catch"
  /\ raised # "MissedExpectedException"
  /\ raised \in current.expects
  /\ phase' = "header"
  /\ next' = 1
  /\ raised' = NoException
  /\ UNCHANGED <<headers, blocks, acc, work, current, test>>

(* catch: an expected exception drops the block, any other ends the test. *)
CatchExpected ==
  /\ phase = "catch"
  /\ raised # "MissedExpectedException"
  /\ raised \in current.expects
  /\ Idle(acc)
  /\ UNCHANGED <<headers, blocks, acc, test>>

CatchUnexpected ==
  /\ phase = "catch"
  /\ raised = "MissedExpectedException" \/ raised \notin current.expects
  /\ phase' = "failed"
  /\ UNCHANGED <<headers, blocks, acc, work, current, next, raised, test>>

(* Mutant: a post state given as a map is compared with the last block. *)
PostOf_LastBlock(last, kind) == acc.accountMap

(* preImpliesPost: which state the expected one is compared with. *)
PostOf(last, kind) ==
  IF kind = "Map" /\ last \in Accepted THEN Found(last).sigma ELSE acc.accountMap

EndTest(last, kind) ==
  /\ phase = "idle"
  /\ test' = [last |-> last, kind |-> kind]
  /\ phase' = IF PostOf(last, kind) = headers[last].stateRoot THEN "passed" ELSE "failed"
  /\ UNCHANGED <<headers, blocks, acc, work, current, next, raised>>

Author ==
  \/ \E p \in DOMAIN headers, draft \in Drafts, expects \in Expectations :
       TakeNewBlock(p, draft, expects)
  \/ \E h \in DOMAIN headers, expects \in Expectations : TakeOldBlock(h, expects)
  \/ \E h \in DOMAIN headers, kind \in {"Map", "Hash"} : EndTest(h, kind)

Runner ==
  \/ RefuseHeader \/ BeginBlock \/ ExecuteTransaction \/ RefuseTransaction
  \/ Withdraw \/ RefuseBlock \/ AcceptBlock \/ CatchExpected \/ CatchUnexpected

Next == Author \/ Runner

(* The runner is a total function of the test: it does not stop in a block. *)
Spec == Init /\ [][Next]_chainVars /\ WF_chainVars(Runner)

-----------------------------------------------------------------------------
(* Properties *)

(* The rules for a transaction, in integers that do not wrap. *)
Fits(r, b, T) ==
  LET sender == AccountAt(r.accountMap, T.sender)
  IN  /\ r.gasUsed + T.gasLimit <= b.gasLimit
      /\ T.price >= b.baseFee
      /\ sender.code = NoCode
      /\ sender.nonce = T.nonce
      /\ sender.balance >= T.gasLimit * T.price + T.value

(* The block h obeys the rules, given the state its parent commits to.     *)
(* The bloom of its header is treated apart (see OnlyBloomRejects).        *)
WellMade(h) ==
  LET b == headers[h]
      prefix(n) == [b EXCEPT !.txs = SubSeq(@, 1, n)]
      run == RuleRun(b)
  IN  /\ b.wellFormed /\ b.sealed
      /\ b.number = headers[b.parent].number + 1
      /\ b.timestamp > headers[b.parent].timestamp
      /\ HeaderError(headers[b.parent], b) = NoException
      /\ \A n \in DOMAIN b.txs : Fits(RuleRun(prefix(n - 1)), b, b.txs[n])
      /\ b.gasUsed = run.gasUsed
      /\ b.receiptRoot = run.receipts
      /\ b.stateRoot = ApplyWithdrawals(run.accountMap, b.withdrawals)

(* Every accepted block obeys the rules, stands on a block accepted before *)
(* it, and is kept with the state that its own ancestors lead to, however  *)
(* many forks and refused blocks came between (processBlocks,              *)
(* TestRunner.lean:484-493).                                               *)
AcceptedSound ==
  \A i \in 2..Len(blocks) :
    LET b == headers[blocks[i].hash]
    IN  /\ \E j \in 1..(i - 1) : blocks[j].hash = b.parent
        /\ WellMade(blocks[i].hash)
        /\ blocks[i].sigma = b.stateRoot

(* The transactions of the chain that ends in h, oldest first. *)
History(h) ==
  LET back[g \in DOMAIN headers] ==
        IF headers[g].parent = NoHash THEN <<>>
                                      ELSE back[headers[g].parent] \o headers[g].txs
  IN  back[h]

(* No transaction takes effect twice on one chain, in one block or in two, *)
(* though it may on two forks: the nonce that validateTransaction compares *)
(* is the one of this chain (TestRunner.lean:288-291).                     *)
NoReplay ==
  \A i \in DOMAIN blocks :
    LET past == History(blocks[i].hash)
    IN  \A m, n \in DOMAIN past :
          m # n => <<past[m].sender, past[m].nonce>> # <<past[n].sender, past[n].nonce>>

Withdrawn(ws) == FoldLeft(LAMBDA n, w : n + w.amount, 0, ws)

(* No sum of the blocks to make reaches the size of a word.  Only the      *)
(* product of a transaction of type 0 or 1 is tested for that              *)
(* (validateTransaction, TestRunner.lean:296); BlockEther is about tests   *)
(* in which it does not happen.                                            *)
WordsSuffice ==
  \A draft \in Drafts :
    /\ \A n \in DOMAIN draft.txs :
         draft.txs[n].gasLimit * draft.txs[n].price + draft.txs[n].value < WordSize
    /\ TotalBalance(Genesis) + MaxBlocks * Withdrawn(draft.withdrawals) < WordSize

(* Block by block the ether of the accepted states changes by what is      *)
(* withdrawn to it and by the base fees that are burnt, and by nothing     *)
(* else (executeTransaction, applyWithdrawals).                            *)
BlockEther ==
  \A i \in 2..Len(blocks) :
    LET b == headers[blocks[i].hash]
    IN  TotalBalance(blocks[i].sigma) =
          TotalBalance(headers[b.parent].stateRoot)
            + Withdrawn(b.withdrawals) - b.gasUsed * b.baseFee

(* Receipts count the gas of this block from 0, transaction by             *)
(* transaction, and an accepted block stays within its gas limit           *)
(* (processBlock starts the count again, TestRunner.lean:566).             *)
GasOfBlock ==
  /\ \A i \in 2..Len(blocks) :
       headers[blocks[i].hash].gasUsed <= headers[blocks[i].hash].gasLimit
  /\ phase = "transactions" =>
       /\ Len(work.receipts) = next - 1
       /\ \A n \in 1..(next - 1) :
            work.receipts[n].gas =
              Block.txs[n].gasUsed + (IF n = 1 THEN 0 ELSE work.receipts[n - 1].gas)

(* From a block to the next the base fee falls by at most an eighth and    *)
(* rises by at most an eighth or by one; a full block of an odd gas limit  *)
(* is one unit further above its target, and counts for it.  Once it is 7  *)
(* or more the base fee can never fall below 7                             *)
(* (validateHeaderBeforeTransactions, TestRunner.lean:169-181).            *)
BaseFeeBounded ==
  \A i \in 2..Len(blocks) :
    LET b      == headers[blocks[i].hash]
        parent == headers[b.parent]
        last   == parent.baseFee
        full   == last + (parent.gasLimit % 2) * (last \div (parent.gasLimit \div 2))
        rise   == IF full \div 8 > 1 THEN full \div 8 ELSE 1
    IN  /\ b.baseFee \in (last - last \div 8)..(last + rise)
        /\ GenesisHeader.baseFee >= 7 => b.baseFee >= 7

LinearChain ==
  \A i \in 2..Len(blocks) : headers[blocks[i].hash].parent = blocks[i - 1].hash

(* While no fork and no repetition has been accepted, BLOCKHASH answers    *)
(* with the ancestor of the number asked for, in every block but one that  *)
(* lies about its number: that is found out only after its transactions    *)
(* (StateOps.lean:84-89, validateBlock).                                   *)
HashOnLinearChain ==
  (/\ phase = "transactions" /\ LinearChain
   /\ Block.parent = Last(blocks).hash
   /\ Block.number = headers[Block.parent].number + 1) =>
    \A n \in 0..MaxBlocks : BlockHash(Block.number, n) = AncestorHash(Block, n)

BloomOfLast(b) == IF b.txs = <<>> THEN acc.logs ELSE LogsOf(Last(b.txs))

(* A block that obeys the rules on an accepted parent is refused only for  *)
(* the two reasons that the code has: its bloom is not the one of its last *)
(* transaction (or, when it is empty, of the last accepted transaction),   *)
(* or a fork made BLOCKHASH answer something else (TestRunner.lean:438).   *)
OnlyBloomRejects ==
  (/\ phase = "catch"
   /\ raised # "MissedExpectedException"
   /\ Block.parent \in Accepted
   /\ WellMade(current.hash)
   /\ Block.logsBloom = RuleRun(Block).logs) =>
     \/ raised = "INVALID_LOG_BLOOM" /\ BloomOfLast(Block) # Block.logsBloom
     \/ /\ raised = "INVALID_STATE_ROOT"
        /\ \E n \in DOMAIN Block.txs :
             LET asked == Block.txs[n].asks
             IN  BlockHash(Block.number, asked) # AncestorHash(Block, asked)

(* A test that names an accepted block and its state passes, given as a    *)
(* map always, given as a hash when the block is the last accepted one     *)
(* (preImpliesPost, TestRunner.lean:583-601).                              *)
VerdictRight ==
  (/\ test.kind # "none"
   /\ test.last \in Accepted
   /\ test.kind = "Map" \/ Last(blocks).hash = test.last) => phase = "passed"

(* What BLOCKHASH answers is "the hash of one of the 256 most recent       *)
(* blocks" (Operations.lean:265) of the chain it is asked in.              *)
BlockHashIsAncestor ==
  phase = "transactions" =>
    \A n \in 0..MaxBlocks :
      BlockHash(Block.number, n) \in {NoHash, AncestorHash(Block, n)}

(* Every block that is taken in hand is accepted or refused in the end:    *)
(* the transactions and the validations of a block are finitely many.      *)
BlockDecided == (phase = "header") ~> (phase \in {"idle", "failed"})

(* The accepted blocks implement the abstract tree. *)
Tree == INSTANCE BlockTree WITH tree <- {blocks[i] : i \in DOMAIN blocks}
ImplementsTree == Tree!Spec
=============================================================================
