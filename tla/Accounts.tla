------------------------------ MODULE Accounts ------------------------------
(***************************************************************************)
(* The world state of the EVM model: the map sigma from addresses to       *)
(* accounts (EvmYul/Maps/AccountMap.lean, EvmYul/State/Account.lean) and   *)
(* the pure operators that the execution functions build it with.  A map   *)
(* is a total function on Addr whose value NoAccount stands for an address *)
(* that the red-black map of the code does not contain; the difference     *)
(* between an absent account and an empty one is part of the state.        *)
(***************************************************************************)
EXTENDS Integers, FiniteSets, SequencesExt

CONSTANTS
  Addr,        \* account addresses
  Slots,       \* storage keys
  Values,      \* words a contract writes to a storage slot; 0 is one of them
  Codes,       \* the non-empty byte codes an account can hold
  NoCode,      \* the empty byte code
  NoAccount,   \* the lookup result of an address that is not in the map
  WordSize,    \* 2^256 in the code: UInt256 arithmetic is modulo this number
  MaxNonce     \* 2^64 - 1 in the code: an account at this nonce creates no more

ASSUME WordAssumption == WordSize \in Nat /\ WordSize > MaxNonce + 1
ASSUME NonceAssumption == MaxNonce \in Nat /\ MaxNonce > 0
ASSUME FiniteAssumption == IsFiniteSet(Addr) /\ IsFiniteSet(Slots)
ASSUME CodeAssumption == NoCode \notin Codes
ASSUME ValuesAssumption == Values \subseteq 0..(WordSize - 1) /\ 0 \in Values

Word == 0..(WordSize - 1)

(* UInt256.add, UInt256.sub and UInt256.mul: they wrap, and never fail. *)
WordAdd(x, y) == IF x + y < WordSize THEN x + y ELSE x + y - WordSize
WordSub(x, y) == IF x >= y THEN x - y ELSE x - y + WordSize
WordMul(x, y) == (x * y) % WordSize

Storage == [Slots -> Values]

(* A storage map erases a key that is set to 0, so the empty map is the    *)
(* function that is 0 everywhere.                                          *)
NoStorage == [k \in Slots |-> 0]

Account ==
  [nonce : Word, balance : Word, code : Codes \cup {NoCode},
   storage : Storage, tstorage : Storage]

ASSUME NoAccountAssumption == NoAccount \notin Account

AccountMap == [Addr -> Account \cup {NoAccount}]

(* The default account: what an insertion at a new address starts from. *)
DefaultAccount ==
  [nonce |-> 0, balance |-> 0, code |-> NoCode,
   storage |-> NoStorage, tstorage |-> NoStorage]

Exists(sigma, a) == sigma[a] # NoAccount

AccountAt(sigma, a) == IF Exists(sigma, a) THEN sigma[a] ELSE DefaultAccount

BalanceOf(sigma, a) == AccountAt(sigma, a).balance

(* An account with code or a nonce: what EIP-684 and EIP-6780 call an      *)
(* address that is already in use.                                         *)
Deployed(sigma, a) ==
  Exists(sigma, a) /\ (sigma[a].nonce # 0 \/ sigma[a].code # NoCode)

(* EMPTY(sigma, a), equation 14 of the Yellow Paper. *)
IsEmpty(acc) == acc.code = NoCode /\ acc.nonce = 0 /\ acc.balance = 0

(* AccountMap.increaseBalance: inserts the account when it is absent. *)
IncreaseBalance(sigma, a, amount) ==
  [sigma EXCEPT ![a] = [AccountAt(sigma, a) EXCEPT !.balance = WordAdd(@, amount)]]

(* Mutant: a call of value 0 inserts its recipient. *)
Credit_Always(sigma, r, v) == IncreaseBalance(sigma, r, v)

(* Theta credits the recipient of a call; a call of value 0 to an absent   *)
(* account does not insert it.                                             *)
Credit(sigma, r, v) ==
  IF Exists(sigma, r) \/ v # 0 THEN IncreaseBalance(sigma, r, v) ELSE sigma

(* The debit of Theta, of a sender that may be absent. *)
Debit(sigma, s, v) ==
  IF Exists(sigma, s)
    THEN [sigma EXCEPT ![s] = [sigma[s] EXCEPT !.balance = WordSub(@, v)]]
    ELSE sigma

(* Mutant: the recipient is credited on the map before the debit. *)
Transfer_DebitStale(sigma, s, r, v) ==
  [Debit(sigma, s, v) EXCEPT ![r] = Credit(sigma, r, v)[r]]

(* Theta credits first and debits the map it has credited, so that a call  *)
(* of an account to itself leaves its balance alone.                       *)
Transfer(sigma, s, r, v) == Debit(Credit(sigma, r, v), s, v)

(* The destination of a creation is in use (EIP-7610). *)
Collides(sigma, a) ==
  LET existent == AccountAt(sigma, a)
  IN  existent.nonce # 0 \/ existent.code # NoCode \/ existent.storage # NoStorage

(* Mutant: the new account does not start from the existing one. *)
Endow_FromDefault(sigma, s, a, v) ==
  [Debit(sigma, s, v) EXCEPT ![a] =
     [DefaultAccount EXCEPT !.nonce = 1, !.balance = WordAdd(v, BalanceOf(sigma, a))]]

(* sigma* of Lambda: the creator is debited, then the new account is       *)
(* written over whatever the debit left at its address.                    *)
Endow(sigma, s, a, v) ==
  LET existent == AccountAt(sigma, a)
      created  == [existent EXCEPT !.nonce = WordAdd(@, 1),
                                   !.balance = WordAdd(v, @)]
  IN  IF Exists(sigma, s)
        THEN [Debit(sigma, s, v) EXCEPT ![a] = created]
        ELSE sigma

IncrementNonce(sigma, a) ==
  [sigma EXCEPT ![a] = [AccountAt(sigma, a) EXCEPT !.nonce = WordAdd(@, 1)]]

SetCode(sigma, a, c) ==
  [sigma EXCEPT ![a] = [AccountAt(sigma, a) EXCEPT !.code = c]]

(* Mutant: a new account is erased by its SELFDESTRUCT at once. *)
Bequeath_EraseNow(sigma, a, heir, isNew) ==
  LET estate == BalanceOf(sigma, a)
      paid   == IF heir # a /\ estate # 0
                  THEN IncreaseBalance(sigma, heir, estate) ELSE sigma
  IN  IF isNew THEN [paid EXCEPT ![a] = NoAccount] ELSE sigma

(* The balance of a self-destructing account goes to its heir.  When the   *)
(* heir is the account itself, its ether is burnt if the account was       *)
(* created in this transaction and kept otherwise.                         *)
Bequeath(sigma, a, heir, isNew) ==
  LET estate == BalanceOf(sigma, a)
      emptied(m) == [m EXCEPT ![a] = [sigma[a] EXCEPT !.balance = 0]]
  IN  CASE ~Exists(sigma, a) -> sigma
        [] Exists(sigma, a) /\ heir = a ->
             IF isNew THEN emptied(sigma) ELSE sigma
        [] Exists(sigma, a) /\ heir # a ->
             IF Exists(sigma, heir) \/ estate # 0
               THEN emptied(IncreaseBalance(sigma, heir, estate))
               ELSE sigma

EraseAll(sigma, S) == [a \in Addr |-> IF a \in S THEN NoAccount ELSE sigma[a]]

ClearTransient(sigma) ==
  [a \in Addr |-> IF Exists(sigma, a)
                    THEN [sigma[a] EXCEPT !.tstorage = NoStorage]
                    ELSE NoAccount]

(* All the ether there is.  Not part of the code: the properties use it. *)
TotalBalance(sigma) == SumFunction([a \in Addr |-> BalanceOf(sigma, a)])

=============================================================================
