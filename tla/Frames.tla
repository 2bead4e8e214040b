------------------------------- MODULE Frames -------------------------------
(***************************************************************************)
(* The execution of transactions by EvmYul/EVM/Semantics.lean: Upsilon     *)
(* starts a transaction, Theta (message call) and Lambda (contract         *)
(* creation) push a frame, the instructions of X run in the top frame and  *)
(* call Theta and Lambda again, and a frame that ends hands its state to   *)
(* its caller or drops it.                                                 *)
(*                                                                         *)
(* The code is a set of mutually recursive functions that take the state   *)
(* as arguments and return a new one.  A nested call is a frame of the     *)
(* sequence frames; the arguments that Theta and Lambda return when the    *)
(* callee fails are kept in the frame.  Code is abstract: a frame that has *)
(* any may execute any instruction next, and may halt exceptionally at any *)
(* time (out of gas, stack underflow, a write without permission, ...).    *)
(* The number of instructions of a behaviour is bounded by MaxOps.  Gas is *)
(* left out, but for the settlement at the end of a transaction.           *)
(***************************************************************************)
EXTENDS Accounts

CONSTANTS
  Precompiles,   \* pi, the addresses 1..10 of the precompiled contracts
  Senders,       \* the externally owned accounts that sign transactions
  CreateTargets, \* addresses the hash of a creation may give
  CallTargets,   \* addresses that calls name
  Heirs,         \* addresses that SELFDESTRUCT names
  Probes,        \* addresses that BALANCE and the EXTCODE instructions name
  Amounts,       \* values that calls and creations carry
  InitCode,      \* the initialisation code of a creation
  InvalidCode,   \* the code <<0xfe>> that a colliding creation runs
  Beneficiary,   \* H_c, the beneficiary of the block
  TxShapes,      \* what a transaction says beside its sender, target and value
  Genesis,       \* the account map before the first transaction
  MaxDepth,      \* 1024 in the code
  MaxTxs,        \* bound on the number of transactions of a behaviour
  MaxOps,        \* bound on the number of instructions of a behaviour
  Rsclear,       \* the constants of EVM/GasConstants.lean behind a refund
  Gsset, Gsreset, Gwarmaccess,
  NoTx           \* the value of tx between two transactions

ASSUME AddressAssumption ==
  /\ Precompiles \cup Senders \cup CreateTargets \cup CallTargets \cup Heirs
       \cup Probes \cup {Beneficiary} \subseteq Addr
  /\ Amounts \subseteq Word
  /\ MaxDepth \in Nat /\ MaxTxs \in Nat /\ MaxOps \in Nat
ASSUME FrameCodeAssumption ==
  /\ InitCode \notin Codes \cup {NoCode, InvalidCode}
  /\ InvalidCode \notin Codes \cup {NoCode}
ASSUME TxAssumption ==
  /\ NoTx \notin [sender : Addr, gasLimit : Word, baseFee : Word, tip : Word]
  /\ TxShapes \subseteq
       [gasLimit : Word, baseFee : Word, tip : Word, blobFee : Word,
        accessList : [addresses : SUBSET Addr, keys : SUBSET (Addr \X Slots)]]
ASSUME GenesisAssumption ==
  /\ Genesis \in AccountMap
  /\ \A a \in Addr : Exists(Genesis, a) => Genesis[a].nonce <= MaxNonce
\* The ether of the pre-state fits a word, and none of its accounts is empty.
ASSUME SupplyAssumption ==
  /\ TotalBalance(Genesis) < WordSize
  /\ \A a \in Addr : Exists(Genesis, a) => ~IsEmpty(Genesis[a])
ASSUME RefundAssumption ==
  /\ Rsclear \in Nat /\ Gsset \in Nat /\ Gsreset \in Nat /\ Gwarmaccess \in Nat
  /\ Gwarmaccess <= Gsreset /\ Gsreset <= Gsset
  /\ Rsclear + Gsset < WordSize
  /\ MaxOps * (Rsclear + Gsset) < WordSize

VARIABLES
  accountMap,      \* sigma, the account map of the running frame
  substate,        \* A, its accrued substate
  createdAccounts, \* the accounts created in this transaction (EIP-6780)
  sigma0,          \* the checkpoint state; the account map between transactions
  frames,          \* the frames that have begun and not ended, outermost first
  tx,              \* the transaction that runs, or NoTx
  txs,             \* how many transactions have begun
  ops              \* how many instructions the behaviour may still execute

vars == <<accountMap, substate, createdAccounts, sigma0, frames, tx, txs, ops>>

Substate ==
  [selfDestructSet : SUBSET Addr, refundBalance : Word,
   accessedAccounts : SUBSET Addr,
   accessedStorageKeys : SUBSET (Addr \X Slots), logSeries : Seq(Addr)]

(* A0, equation 63: the precompiled contracts are warm from the start. *)
A0 == [selfDestructSet |-> {}, refundBalance |-> 0,
       accessedAccounts |-> Precompiles,
       accessedStorageKeys |-> {}, logSeries |-> <<>>]

(* What a frame needs of its ExecutionEnv, and the account map, substate   *)
(* and created accounts that its failure returns to the caller.  The depth *)
(* I_e is the number of frames below it.                                   *)
Frame ==
  [kind : {"call", "create"}, codeOwner : Addr, source : Addr,
   perm : BOOLEAN, code : Codes \cup {NoCode, InitCode, InvalidCode},
   sigma : AccountMap, A : Substate, cA : SUBSET Addr]

Top == frames[Len(frames)]
Self == Top.codeOwner
Pop == SubSeq(frames, 1, Len(frames) - 1)

Init ==
  /\ accountMap = Genesis
  /\ substate = A0
  /\ createdAccounts = {}
  /\ sigma0 = Genesis
  /\ frames = <<>>
  /\ tx = NoTx
  /\ txs = 0
  /\ ops = MaxOps

-----------------------------------------------------------------------------
(* Entering and leaving frames *)

(* Mutant: a failing precompiled contract also drops the substate. *)
ApplyPrecompile_EmptySubstate(sigma, sigma1, A) ==
  /\ accountMap' \in {sigma1, sigma}
  /\ substate' \in {A, A0}
  /\ createdAccounts' = {}
  /\ UNCHANGED frames

(* applyPrecompile: the new account map is the credited and debited one,   *)
(* or empty when the precompiled contract fails, which Theta replaces by   *)
(* the map it was given.  Either way it returns no created accounts.       *)
ApplyPrecompile(sigma, sigma1, A) ==
  /\ accountMap' \in {sigma1, sigma}
  /\ substate' = A
  /\ createdAccounts' = {}
  /\ UNCHANGED frames

(* Theta(sigma, A, createdAccounts) from s to r with the code of t, the    *)
(* value v and the permission w.                                           *)
MessageCall(sigma, A, cA, s, r, t, v, w) ==
  LET sigma1 == Transfer(sigma, s, r, v)
  IN  IF t \in Precompiles
        THEN ApplyPrecompile(sigma, sigma1, A)
        ELSE /\ accountMap' = sigma1
             /\ substate' = A
             /\ createdAccounts' = cA
             /\ frames' = Append(frames,
                  [kind |-> "call", codeOwner |-> r, source |-> s, perm |-> w,
                   code |-> AccountAt(sigma, t).code,
                   sigma |-> sigma, A |-> A, cA |-> cA])

(* Lambda(sigma, A, createdAccounts): s creates the account a.  The        *)
(* address is the hash of s with its nonce or with a salt, so any address  *)
(* is possible here.                                                       *)
ContractCreation(sigma, A, cA, s, a, v, w) ==
  LET AStar    == [A EXCEPT !.accessedAccounts = @ \cup {a}]
      collides == Collides(sigma, a)
      cA1      == IF collides THEN cA ELSE cA \cup {a}
  IN  /\ accountMap' = Endow(sigma, s, a, v)
      /\ substate' = AStar
      /\ createdAccounts' = cA1
      /\ frames' = Append(frames,
           [kind |-> "create", codeOwner |-> a, source |-> s, perm |-> w,
            code |-> IF collides THEN InvalidCode ELSE InitCode,
            sigma |-> sigma, A |-> AStar, cA |-> cA1])

(* The top frame fails: its caller goes on with what the frame was given. *)
ReturnFailure ==
  /\ accountMap' = Top.sigma
  /\ substate' = Top.A
  /\ createdAccounts' = Top.cA
  /\ frames' = Pop

(* The top frame ends normally in the state sigma, A.  A creation then     *)
(* deposits the code data, unless the address was in use (F_0) or the      *)
(* deposit is refused (F_2 to F_4: gas, size, first byte 0xef).  The       *)
(* created accounts are returned even when the deposit fails.              *)
ReturnSuccess(sigma, A, data, refused) ==
  /\ frames' = Pop
  /\ UNCHANGED createdAccounts
  /\ IF Top.kind = "create"
       THEN IF refused \/ Deployed(Top.sigma, Self)
              THEN accountMap' = Top.sigma /\ substate' = Top.A
              ELSE accountMap' = SetCode(sigma, Self, data) /\ substate' = A
       ELSE accountMap' = sigma /\ substate' = A

-----------------------------------------------------------------------------
(* The transaction: Upsilon *)

Price(shape) == WordAdd(shape.tip, shape.baseFee)
GasCost(shape) == WordMul(shape.gasLimit, Price(shape))

(* The checks of validateTransaction that matter here: the sender is no    *)
(* contract, its nonce is not the last one and it can pay for everything,  *)
(* a sum that the code takes in words.                                     *)
Valid(s, shape, v) ==
  /\ Exists(accountMap, s)
  /\ accountMap[s].code = NoCode
  /\ accountMap[s].nonce < MaxNonce
  /\ WordAdd(WordAdd(GasCost(shape), v), shape.blobFee) <= accountMap[s].balance

Checkpoint(s, shape) ==
  [accountMap EXCEPT ![s] =
     [accountMap[s] EXCEPT
        !.balance = WordSub(WordSub(@, GasCost(shape)), shape.blobFee),
        !.nonce = WordAdd(@, 1)]]

(* A* (77), with the recipients that the transaction names. *)
InitialSubstate(s, shape, recipients) ==
  [A0 EXCEPT
     !.accessedAccounts =
        @ \cup {s, Beneficiary} \cup shape.accessList.addresses \cup recipients,
     !.accessedStorageKeys = shape.accessList.keys]

BeginTx(s, shape, v) ==
  /\ tx = NoTx
  /\ txs < MaxTxs
  /\ Valid(s, shape, v)
  /\ sigma0' = Checkpoint(s, shape)
  /\ tx' = [sender |-> s, gasLimit |-> shape.gasLimit,
            baseFee |-> shape.baseFee, tip |-> shape.tip]
  /\ txs' = txs + 1
  /\ UNCHANGED ops

BeginCall(s, shape, v, t) ==
  /\ BeginTx(s, shape, v)
  /\ MessageCall(Checkpoint(s, shape), InitialSubstate(s, shape, {t}), {},
                 s, t, t, v, TRUE)

BeginCreate(s, shape, v, a) ==
  /\ BeginTx(s, shape, v)
  /\ ContractCreation(Checkpoint(s, shape), InitialSubstate(s, shape, {}), {},
                      s, a, v, TRUE)

(* g* (82): what is left of the gas, and a refund of at most a fifth of    *)
(* what was used.                                                          *)
RefundedGas(gasLeft) ==
  LET cap == (tx.gasLimit - gasLeft) \div 5
  IN  gasLeft + IF cap <= substate.refundBalance
                  THEN cap ELSE substate.refundBalance

(* Mutant: the beneficiary is paid for the gas that was refunded too. *)
Settled_FeeOnLimit(gasLeft) ==
  LET repaid == IncreaseBalance(accountMap, tx.sender,
                                WordMul(RefundedGas(gasLeft), Price(tx)))
      paid   == IncreaseBalance(repaid, Beneficiary, WordMul(tx.gasLimit, tx.tip))
  IN  ClearTransient(EraseAll(paid, substate.selfDestructSet))

(* The outermost frame has ended with gasLeft: the sender gets its gas     *)
(* back, the beneficiary its fee, the accounts that destroyed themselves   *)
(* go, and so does the transient storage.                                  *)
Settled(gasLeft) ==
  LET gStar  == RefundedGas(gasLeft)
      fee    == WordMul(tx.gasLimit - gStar, tx.tip)
      repaid == IncreaseBalance(accountMap, tx.sender, WordMul(gStar, Price(tx)))
      paid   == IF fee # 0 THEN IncreaseBalance(repaid, Beneficiary, fee)
                           ELSE repaid
  IN  ClearTransient(EraseAll(paid, substate.selfDestructSet))

FinishTx(gasLeft) ==
  /\ tx # NoTx
  /\ frames = <<>>
  /\ gasLeft <= tx.gasLimit
  /\ accountMap' = Settled(gasLeft)
  /\ sigma0' = accountMap'
  /\ createdAccounts' = {}
  /\ tx' = NoTx
  /\ UNCHANGED <<substate, frames, txs, ops>>

-----------------------------------------------------------------------------
(* The instructions that touch the state, and the ends of a frame: step,   *)
(* and X around it *)

Runnable(f) == f.code \in Codes \cup {InitCode}

Instruction ==
  /\ frames # <<>>
  /\ Runnable(Top)
  /\ ops > 0
  /\ ops' = ops - 1
  /\ UNCHANGED <<sigma0, tx, txs>>

(* An instruction that X refuses without permission (the predicate W). *)
Write == Instruction /\ Top.perm

(* Mutant: the depth of the call stack is not tested. *)
CallFrom_NoDepthCheck(s, r, t, v, w) ==
  LET A1 == [substate EXCEPT !.accessedAccounts = @ \cup {t}]
  IN  /\ Instruction
      /\ IF v <= BalanceOf(accountMap, Self)
           THEN MessageCall(accountMap, A1, createdAccounts, s, r, t, v, w)
           ELSE substate' = A1 /\ UNCHANGED <<accountMap, createdAccounts, frames>>

(* call: the four CALL instructions, from s to r with the code of t.  A    *)
(* call that the balance or the depth forbids leaves t warm and no more.   *)
CallFrom(s, r, t, v, w) ==
  LET A1 == [substate EXCEPT !.accessedAccounts = @ \cup {t}]
  IN  /\ Instruction
      /\ IF v <= BalanceOf(accountMap, Self) /\ Len(frames) - 1 < MaxDepth
           THEN MessageCall(accountMap, A1, createdAccounts, s, r, t, v, w)
           ELSE substate' = A1 /\ UNCHANGED <<accountMap, createdAccounts, frames>>

Call(t, v) ==
  /\ frames # <<>>
  /\ Top.perm \/ v = 0
  /\ CallFrom(Self, t, t, v, Top.perm)

(* W does not name CALLCODE: without permission it may carry a value. *)
CallCode(t, v) == frames # <<>> /\ CallFrom(Self, Self, t, v, Top.perm)

(* Mutant: DELEGATECALL does not hand on the missing permission. *)
DelegateCall_Permits(t) ==
  frames # <<>> /\ CallFrom(Top.source, Self, t, 0, TRUE)

DelegateCall(t) == frames # <<>> /\ CallFrom(Top.source, Self, t, 0, Top.perm)

StaticCall(t) == frames # <<>> /\ CallFrom(Self, t, t, 0, FALSE)

(* CREATE and CREATE2.  The nonce of the creator grows only when Lambda    *)
(* runs, and it stays when Lambda fails.                                   *)
Create(a, v) ==
  /\ Write
  /\ IF /\ AccountAt(accountMap, Self).nonce < MaxNonce
        /\ v <= BalanceOf(accountMap, Self)
        /\ Len(frames) - 1 < MaxDepth
       THEN ContractCreation(IncrementNonce(accountMap, Self), substate,
                             createdAccounts, Self, a, v, Top.perm)
       ELSE UNCHANGED <<accountMap, substate, createdAccounts, frames>>

(* Mutant: SELFDESTRUCT as it was before EIP-6780. *)
SelfDestruct_AnyAccount(heir) ==
  LET A1 == [substate EXCEPT !.selfDestructSet = @ \cup {Self},
                             !.accessedAccounts = @ \cup {heir}]
  IN  /\ Write
      /\ \E refused \in BOOLEAN :
           ReturnSuccess(Bequeath(accountMap, Self, heir, TRUE), A1, NoCode, refused)

SelfDestruct(heir) ==
  LET isNew == Self \in createdAccounts
      A1 == [substate EXCEPT
               !.selfDestructSet = IF isNew THEN @ \cup {Self} ELSE @,
               !.accessedAccounts = @ \cup {heir}]
  IN  /\ Write
      /\ \E refused \in BOOLEAN :
           ReturnSuccess(Bequeath(accountMap, Self, heir, isNew), A1, NoCode, refused)

(* Mutant: clearing a slot that is already dirty refunds nothing. *)
RefundDelta_NoDirtyClear(v0, v, new) ==
  CASE v # new /\ v0 = v /\ new = 0 -> Rsclear
    [] v # new /\ v0 # 0 /\ v = 0 -> -Rsclear
    [] OTHER -> 0

(* The change of the refund counter by SSTORE, from the original, the      *)
(* current and the new value of the slot.                                  *)
RefundDelta(v0, v, new) ==
  LET dirtyclear == CASE v0 # 0 /\ v = 0 -> -Rsclear
                      [] v0 # 0 /\ v # 0 /\ new = 0 -> Rsclear
                      [] OTHER -> 0
      dirtyreset == CASE v0 = new /\ v0 = 0 -> Gsset - Gwarmaccess
                      [] v0 = new /\ v0 # 0 -> Gsreset - Gwarmaccess
                      [] OTHER -> 0
  IN  CASE v # new /\ v0 = v /\ new = 0 -> Rsclear
        [] v # new /\ v0 # v -> dirtyclear + dirtyreset
        [] OTHER -> 0

AddRefund(refund, delta) ==
  IF delta >= 0 THEN WordAdd(refund, delta) ELSE WordSub(refund, -delta)

SStore(k, new) ==
  LET v0 == AccountAt(sigma0, Self).storage[k]
      v  == AccountAt(accountMap, Self).storage[k]
  IN  /\ Write
      /\ IF Exists(accountMap, Self)
           THEN /\ accountMap' = [accountMap EXCEPT ![Self].storage[k] = new]
                /\ substate' = [substate EXCEPT
                     !.accessedStorageKeys = @ \cup {<<Self, k>>},
                     !.refundBalance = AddRefund(@, RefundDelta(v0, v, new))]
           ELSE UNCHANGED <<accountMap, substate>>
      /\ UNCHANGED <<createdAccounts, frames>>

TStore(k, new) ==
  /\ Write
  /\ IF Exists(accountMap, Self)
       THEN accountMap' = [accountMap EXCEPT ![Self].tstorage[k] = new]
       ELSE UNCHANGED accountMap
  /\ UNCHANGED <<substate, createdAccounts, frames>>

Log ==
  /\ Write
  /\ substate' = [substate EXCEPT !.logSeries = Append(@, Self)]
  /\ UNCHANGED <<accountMap, createdAccounts, frames>>

SLoad(k) ==
  /\ Instruction
  /\ substate' = [substate EXCEPT !.accessedStorageKeys = @ \cup {<<Self, k>>}]
  /\ UNCHANGED <<accountMap, createdAccounts, frames>>

(* BALANCE, EXTCODESIZE, EXTCODECOPY and EXTCODEHASH. *)
Probe(a) ==
  /\ Instruction
  /\ substate' = [substate EXCEPT !.accessedAccounts = @ \cup {a}]
  /\ UNCHANGED <<accountMap, createdAccounts, frames>>

(* STOP and RETURN; a frame without code stops at once. *)
Halt(data, refused) ==
  /\ frames # <<>>
  /\ Top.code # InvalidCode
  /\ Top.code = NoCode \/ Top.kind = "call" => data = NoCode
  /\ ReturnSuccess(accountMap, substate, data, refused)
  /\ UNCHANGED <<sigma0, tx, txs, ops>>

Revert ==
  /\ frames # <<>>
  /\ Runnable(Top)
  /\ ReturnFailure
  /\ UNCHANGED <<sigma0, tx, txs, ops>>

(* X fails with an exception other than the exhaustion of its fuel. *)
ExceptionalHalt ==
  /\ frames # <<>>
  /\ Top.code # NoCode
  /\ ReturnFailure
  /\ UNCHANGED <<sigma0, tx, txs, ops>>

Next ==
  \/ \E s \in Senders, shape \in TxShapes, v \in Amounts :
       \/ \E t \in CallTargets : BeginCall(s, shape, v, t)
       \/ \E a \in CreateTargets : BeginCreate(s, shape, v, a)
  \/ tx # NoTx /\ \E gasLeft \in 0..tx.gasLimit : FinishTx(gasLeft)
  \/ \E t \in CallTargets :
       \/ \E v \in Amounts : Call(t, v) \/ CallCode(t, v)
       \/ DelegateCall(t)
       \/ StaticCall(t)
  \/ \E a \in CreateTargets, v \in Amounts : Create(a, v)
  \/ \E heir \in Heirs : SelfDestruct(heir)
  \/ \E k \in Slots :
       \/ SLoad(k)
       \/ \E new \in Values : SStore(k, new) \/ TStore(k, new)
  \/ Log
  \/ \E a \in Probes : Probe(a)
  \/ \E data \in Codes \cup {NoCode}, refused \in BOOLEAN : Halt(data, refused)
  \/ Revert
  \/ ExceptionalHalt

Spec == Init /\ [][Next]_vars

-----------------------------------------------------------------------------
(* Properties *)

(* Every state variable has its type, and no more than MaxDepth + 1 frames *)
(* are open.                                                               *)
TypeOK ==
  /\ accountMap \in AccountMap
  /\ substate \in Substate
  /\ createdAccounts \in SUBSET Addr
  /\ sigma0 \in AccountMap
  /\ frames \in Seq(Frame)
  /\ tx \in [sender : Addr, gasLimit : Word, baseFee : Word, tip : Word] \cup {NoTx}
  /\ txs \in 0..MaxTxs
  /\ ops \in 0..MaxOps
  /\ Len(frames) <= MaxDepth + 1

(* The account map of the running frame and those its open frames would    *)
(* return on failure: every map that can still become the result.          *)
LiveMaps == {accountMap} \cup {frames[i].sigma : i \in DOMAIN frames}

LiveSubstates == {substate} \cup {frames[i].A : i \in DOMAIN frames}

(* A creation whose address is in use runs an invalid instruction in a map *)
(* that may be nonsense (the account at the address was overwritten).      *)
CollisionPending == frames # <<>> /\ Top.code = InvalidCode

(* Calls, creations, self-destructions and their failures move ether and   *)
(* never make any: the running frame has the total its callers had, or     *)
(* less once an account created in this transaction burnt its own.         *)
EtherConserved ==
  ~CollisionPending =>
    \A i \in DOMAIN frames :
      LET before == TotalBalance(frames[i].sigma)
      IN  \/ TotalBalance(accountMap) = before
          \/ /\ TotalBalance(accountMap) < before
             /\ substate.selfDestructSet # {}

(* The ether of all accounts, with the gas that the running transaction    *)
(* has paid for and may get back, never exceeds what there was in genesis. *)
NoMint ==
  ~CollisionPending =>
    TotalBalance(accountMap) + (IF tx = NoTx THEN 0 ELSE GasCost(tx))
      <= TotalBalance(Genesis)

(* A frame without permission, and everything it calls, leaves the world   *)
(* as it was when the frame was entered.                                   *)
StaticPure ==
  \A i \in DOMAIN frames :
    ~frames[i].perm =>
      /\ accountMap = frames[i].sigma
      /\ substate.selfDestructSet = frames[i].A.selfDestructSet
      /\ substate.refundBalance = frames[i].A.refundBalance
      /\ substate.logSeries = frames[i].A.logSeries

(* EIP-6780: an account that will be erased was created in the transaction *)
(* that runs; it had neither code nor nonce at the checkpoint.             *)
OnlyNewDestroyed ==
  tx # NoTx => \A A \in LiveSubstates : \A a \in A.selfDestructSet : ~Deployed(sigma0, a)

(* Whatever runs and fails, an account that was deployed at the checkpoint *)
(* is there, with the same code and a nonce that has not gone down.        *)
DeployedKept ==
  \A sigma \in LiveMaps : \A a \in Addr :
    Deployed(sigma0, a) =>
      /\ Exists(sigma, a)
      /\ sigma[a].code = sigma0[a].code
      /\ sigma[a].nonce >= sigma0[a].nonce

(* A frame that can execute instructions runs for an account that exists;  *)
(* the SELFDESTRUCT of the code says that the opposite should not happen,  *)
(* and SSTORE panics on it.                                                *)
SelfExists ==
  \A i \in DOMAIN frames :
    Runnable(frames[i]) =>
      /\ Exists(accountMap, frames[i].codeOwner)
      /\ \A j \in DOMAIN frames : j > i => Exists(frames[j].sigma, frames[i].codeOwner)

(* No operation leaves an empty account in the map (EIP-161).  Upsilon     *)
(* erases the dead accounts among A.touchedAccounts, a set that nothing    *)
(* writes: this invariant is what makes that harmless.                     *)
NoEmptyAccount ==
  \A sigma \in LiveMaps : \A a \in Addr : Exists(sigma, a) => ~IsEmpty(sigma[a])

(* The refund counter pays for every slot that the transaction has cleared *)
(* and not set again, in every map that can still become the result: it    *)
(* never wraps below zero, and it is rolled back with the storage.         *)
RefundCovers(sigma, A) ==
  A.refundBalance >=
    Rsclear * Cardinality({p \in Addr \X Slots :
                             /\ AccountAt(sigma0, p[1]).storage[p[2]] # 0
                             /\ AccountAt(sigma, p[1]).storage[p[2]] = 0})
RefundCoversClears ==
  tx # NoTx =>
    /\ RefundCovers(accountMap, substate)
    /\ \A i \in DOMAIN frames : RefundCovers(frames[i].sigma, frames[i].A)

NonceOf(sigma, a) == AccountAt(sigma, a).nonce

(* What a caller had accrued when it made the call is there while the call *)
(* runs: a failure deeper down does not cool an address, drop a log or     *)
(* take back a nonce of the frames around it.  What a creation would       *)
(* return on failure has its address warm, and for its creator a nonce     *)
(* above the one with which the frame of the creator was entered.          *)
AccruedKept ==
  \A i \in DOMAIN frames :
    LET A == frames[i].A
    IN  /\ A.selfDestructSet \subseteq substate.selfDestructSet
        /\ A.accessedAccounts \subseteq substate.accessedAccounts
        /\ A.accessedStorageKeys \subseteq substate.accessedStorageKeys
        /\ IsPrefix(A.logSeries, substate.logSeries)
        /\ \A a \in Addr : NonceOf(accountMap, a) >= NonceOf(frames[i].sigma, a)
        /\ frames[i].kind = "create" =>
             /\ frames[i].codeOwner \in A.accessedAccounts
             /\ i > 1 => NonceOf(frames[i].sigma, frames[i].source)
                          > NonceOf(frames[i - 1].sigma, frames[i].source)

(* A transaction never removes an account that was deployed before it.     *)
DeployedSurvive ==
  [][\A a \in Addr : Deployed(sigma0, a) => Exists(accountMap', a)]_vars

(* EIP-6780, the other half: a contract that this transaction created is   *)
(* known as such, so that its SELFDESTRUCT destroys it (the comments of    *)
(* Lambda's argument createdAccounts and of SELFDESTRUCT).                 *)
CreatedTracked ==
  tx # NoTx /\ ~CollisionPending =>
    \A a \in Addr :
      Deployed(accountMap, a) /\ ~Deployed(sigma0, a) => a \in createdAccounts

=============================================================================
