------------------------------- MODULE MCChain -------------------------------
(***************************************************************************)
(* Chain with one signer, a contract that logs and stores block hashes,    *)
(* and the contract of the beacon roots.                                   *)
(***************************************************************************)
EXTENDS Chain

CONSTANTS alice, keeper, roots, miner, c1, slot

MCAddr == {alice, keeper, roots, miner}

Empty == [nonce |-> 0, balance |-> 0, code |-> NoCode,
          storage |-> NoStorage, tstorage |-> NoStorage]
Contract == [Empty EXCEPT !.nonce = 1, !.code = c1]

(* Enough ether for three transactions, but not for any number of them. *)
MCGenesis ==
  alice :> [Empty EXCEPT !.balance = 600000] @@
  keeper :> Contract @@
  roots :> Contract @@
  miner :> NoAccount

MCGenesisHeader ==
  [parent |-> NoHash, number |-> 0, timestamp |-> 5, gasLimit |-> 20480,
   baseFee |-> 7, gasUsed |-> 5000, stateRoot |-> MCGenesis, logsBloom |-> {},
   receiptRoot |-> <<>>, wellFormed |-> TRUE, sealed |-> TRUE,
   txs |-> <<>>, withdrawals |-> <<>>]

Tx == [sender |-> alice, recipient |-> keeper, nonce |-> 0, value |-> 1,
       gasLimit |-> 15000, gasUsed |-> 5000, price |-> 20,
       logs |-> FALSE, asks |-> NoNumber, fails |-> FALSE]
At(n, T) == [T EXCEPT !.nonce = n]
Logging == [Tx EXCEPT !.logs = TRUE]
Asking(n) == [Tx EXCEPT !.asks = n]
Failing == [Tx EXCEPT !.fails = TRUE, !.logs = TRUE, !.gasUsed = 15000]

Draft(txs, ws, flaw) == [txs |-> txs, withdrawals |-> ws, flaw |-> flaw]

(* Forks: blocks that do nothing, log, or ask for the hash of block 1. *)
ForkDrafts ==
  {Draft(txs, <<>>, "none") :
     txs \in {<<>>, <<At(0, Logging)>>, <<At(1, Logging)>>,
              <<At(0, Asking(1))>>, <<At(1, Asking(1))>>}}

(* Sequences of transactions, some of which do not fit, withdrawals, and   *)
(* every flaw.                                                             *)
RuleDrafts ==
  {Draft(txs, <<>>, "none") :
     txs \in {<<>>, <<At(0, Tx)>>, <<At(0, Failing)>>, <<At(1, Tx)>>,
              <<At(0, Tx), At(1, Tx)>>, <<At(0, Logging), At(1, Tx)>>,
              <<At(0, Tx), At(0, Failing)>>,
              <<At(0, Tx), At(1, Tx), At(2, Tx)>>}}
  \cup
  {Draft(<<At(0, Tx)>>,
         <<[address |-> miner, amount |-> 0], [address |-> alice, amount |-> 3]>>,
         "none")}
  \cup
  {Draft(<<At(0, Tx)>>, <<>>, flaw) :
     flaw \in FlawNames \ {"none"}}

(* Nothing is expected to fail, or anything may. *)
AnyError ==
  {"RLP_STRUCTURES_ENCODING", "UNKNOWN_PARENT_ZERO", "UNKNOWN_PARENT",
   "INVALID_GASLIMIT", "INVALID_BASEFEE_PER_GAS", "GAS_ALLOWANCE_EXCEEDED",
   "INSUFFICIENT_MAX_FEE_PER_GAS", "SENDER_NOT_EOA", "NONCE_MISMATCH_TOO_LOW",
   "NONCE_MISMATCH_TOO_HIGH", "INSUFFICIENT_ACCOUNT_FUNDS", "INVALID_GAS_USED",
   "INVALID_BLOCK_TIMESTAMP_OLDER_THAN_PARENT", "INVALID_BLOCK_NUMBER",
   "EXTRA_DATA_TOO_BIG", "INVALID_STATE_ROOT", "INVALID_LOG_BLOOM",
   "INVALID_RECEIPTS_ROOT"}
MCExpectations == {{}, AnyError}

(* BlockEther is checked where it is claimed. *)
ASSUME EtherAssumption == WordsSuffice
=============================================================================
