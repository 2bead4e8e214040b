--------------------------- MODULE AccountsProofs ---------------------------
(***************************************************************************)
(* What the operators of Accounts return and preserve, for every value of  *)
(* its constants.                                                          *)
(***************************************************************************)
EXTENDS Accounts, Inductions

(* Word arithmetic stays within words. *)
LEMMA WordAddType ==
  ASSUME NEW x \in Word, NEW y \in Word
  PROVE  WordAdd(x, y) \in Word
BY WordAssumption DEF WordAdd, Word

LEMMA WordSubType ==
  ASSUME NEW x \in Word, NEW y \in Word
  PROVE  WordSub(x, y) \in Word
BY WordAssumption DEF WordSub, Word

LEMMA WordMulType ==
  ASSUME NEW x \in Int, NEW y \in Int
  PROVE  WordMul(x, y) \in Word
<1>1. x * y \in Int
  OBVIOUS
<1>2. \A n \in Int : n % WordSize \in 0..(WordSize - 1)
  BY WordAssumption, NonceAssumption
<1> QED BY <1>1, <1>2 DEF WordMul, Word

LEMMA SmallWords == 0 \in Word /\ 1 \in Word
BY WordAssumption, NonceAssumption DEF Word

LEMMA DefaultAccountType == DefaultAccount \in Account
BY SmallWords, ValuesAssumption DEF DefaultAccount, Account, Storage, NoStorage

LEMMA AccountAtType ==
  ASSUME NEW sigma \in AccountMap, NEW a \in Addr
  PROVE  AccountAt(sigma, a) \in Account
BY DefaultAccountType DEF AccountAt, Exists, AccountMap

(* Writing an account into a map gives a map. *)
LEMMA UpdateType ==
  ASSUME NEW sigma \in AccountMap, NEW a \in Addr,
         NEW acc \in Account \cup {NoAccount}
  PROVE  [sigma EXCEPT ![a] = acc] \in AccountMap
BY DEF AccountMap

-----------------------------------------------------------------------------
(* What the operators keep *)

(* Every account of sigma is in tau, with the same code and no lower nonce. *)
Preserves(sigma, tau) ==
  \A a \in Addr :
    Exists(sigma, a) =>
      /\ Exists(tau, a)
      /\ tau[a].code = sigma[a].code
      /\ tau[a].nonce >= sigma[a].nonce

NoncesUpTo(sigma, n) == \A a \in Addr : Exists(sigma, a) => sigma[a].nonce <= n

(* tau is a map that preserves sigma and raises no nonce beyond n. *)
Extends(sigma, tau, n) ==
  /\ tau \in AccountMap
  /\ Preserves(sigma, tau)
  /\ NoncesUpTo(tau, n)

LEMMA AccountFields ==
  ASSUME NEW acc \in Account
  PROVE  /\ acc # NoAccount
         /\ acc.nonce \in Word /\ acc.nonce \in Int
         /\ acc.balance \in Word /\ acc.code \in Codes \cup {NoCode}
         /\ acc.storage \in Storage /\ acc.tstorage \in Storage
BY NoAccountAssumption DEF Account, Word

LEMMA LookupType ==
  ASSUME NEW sigma \in AccountMap, NEW a \in Addr, Exists(sigma, a)
  PROVE  sigma[a] \in Account
BY DEF AccountMap, Exists

LEMMA ExtendsReflexive ==
  ASSUME NEW sigma \in AccountMap, NEW n, NoncesUpTo(sigma, n)
  PROVE  Extends(sigma, sigma, n)
BY LookupType, AccountFields DEF Extends, Preserves

LEMMA ExtendsTransitive ==
  ASSUME NEW sigma \in AccountMap, NEW tau \in AccountMap, NEW rho,
         NEW m, NEW n, Extends(sigma, tau, m), Extends(tau, rho, n)
  PROVE  Extends(sigma, rho, n)
<1> SUFFICES ASSUME NEW a \in Addr, Exists(sigma, a)
             PROVE  /\ Exists(rho, a)
                    /\ rho[a].code = sigma[a].code
                    /\ rho[a].nonce >= sigma[a].nonce
  BY DEF Extends, Preserves
<1>1. /\ Exists(tau, a)
      /\ tau[a].code = sigma[a].code
      /\ tau[a].nonce >= sigma[a].nonce
  BY DEF Extends, Preserves
<1>2. /\ Exists(rho, a)
      /\ rho[a].code = tau[a].code
      /\ rho[a].nonce >= tau[a].nonce
  BY <1>1 DEF Extends, Preserves
<1>3. sigma[a].nonce \in Int /\ tau[a].nonce \in Int /\ rho[a].nonce \in Int
  BY <1>1, <1>2, LookupType, AccountFields DEF Extends
<1> QED BY <1>1, <1>2, <1>3

(* Writing at a an account with the code of the one that was there and at  *)
(* least its nonce.                                                        *)
LEMMA UpdateExtends ==
  ASSUME NEW sigma \in AccountMap, NEW a \in Addr, NEW acc \in Account,
         NEW n, NoncesUpTo(sigma, n),
         acc.code = AccountAt(sigma, a).code,
         acc.nonce >= AccountAt(sigma, a).nonce,
         acc.nonce <= n
  PROVE  Extends(sigma, [sigma EXCEPT ![a] = acc], n)
<1> DEFINE tau == [sigma EXCEPT ![a] = acc]
<1>1. tau \in AccountMap
  BY UpdateType
<1>2. tau[a] = acc /\ \A b \in Addr : b # a => tau[b] = sigma[b]
  BY DEF AccountMap
<1>3. acc # NoAccount
  BY AccountFields
<1> HIDE DEF tau
<1>4. Preserves(sigma, tau)
  <2> SUFFICES ASSUME NEW b \in Addr, Exists(sigma, b)
               PROVE  /\ Exists(tau, b)
                      /\ tau[b].code = sigma[b].code
                      /\ tau[b].nonce >= sigma[b].nonce
    BY DEF Preserves
  <2>1. CASE b = a
    BY <2>1, <1>2, <1>3 DEF Exists, AccountAt
  <2>2. CASE b # a
    BY <2>2, <1>2, LookupType, AccountFields DEF Exists
  <2> QED BY <2>1, <2>2
<1>5. NoncesUpTo(tau, n)
  BY <1>2 DEF NoncesUpTo, Exists
<1> QED BY <1>1, <1>4, <1>5 DEF Extends, tau

(* Crediting an account keeps everything but its balance. *)
LEMMA IncreaseBalanceExtends ==
  ASSUME NEW sigma \in AccountMap, NEW a \in Addr, NEW v \in Word,
         NEW n \in Nat, NoncesUpTo(sigma, n)
  PROVE  Extends(sigma, IncreaseBalance(sigma, a, v), n)
<1> DEFINE acc == AccountAt(sigma, a)
           new == [acc EXCEPT !.balance = WordAdd(@, v)]
<1>1. acc \in Account
  BY AccountAtType
<1>2. acc.nonce <= n
  BY DEF AccountAt, NoncesUpTo, DefaultAccount
<1>3. new \in Account /\ new.code = acc.code /\ new.nonce = acc.nonce
  <2> HIDE DEF acc
  <2> QED BY <1>1, WordAddType DEF Account
<1>4. new.nonce >= acc.nonce
  BY <1>1, <1>3, AccountFields
<1> HIDE DEF new
<1>5. Extends(sigma, [sigma EXCEPT ![a] = new], n)
  BY <1>2, <1>3, <1>4, UpdateExtends DEF acc
<1> QED BY <1>5 DEF IncreaseBalance, new, acc

LEMMA CreditExtends ==
  ASSUME NEW sigma \in AccountMap, NEW r \in Addr, NEW v \in Word,
         NEW n \in Nat, NoncesUpTo(sigma, n)
  PROVE  Extends(sigma, Credit(sigma, r, v), n)
BY IncreaseBalanceExtends, ExtendsReflexive DEF Credit

LEMMA DebitExtends ==
  ASSUME NEW sigma \in AccountMap, NEW s \in Addr, NEW v \in Word,
         NEW n \in Nat, NoncesUpTo(sigma, n)
  PROVE  Extends(sigma, Debit(sigma, s, v), n)
<1>1. CASE Exists(sigma, s)
  <2> DEFINE acc == sigma[s]
             new == [acc EXCEPT !.balance = WordSub(@, v)]
  <2>1. acc \in Account /\ acc = AccountAt(sigma, s) /\ acc.nonce <= n
    BY <1>1, LookupType DEF AccountAt, NoncesUpTo
  <2>2. new \in Account /\ new.code = acc.code /\ new.nonce = acc.nonce
    <3> HIDE DEF acc
    <3> QED BY <2>1, WordSubType DEF Account
  <2>3. new.nonce >= acc.nonce
    BY <2>1, <2>2, AccountFields
  <2> HIDE DEF new
  <2>4. Extends(sigma, [sigma EXCEPT ![s] = new], n)
    BY <2>1, <2>2, <2>3, UpdateExtends
  <2> QED BY <1>1, <2>4 DEF Debit, new, acc
<1>2. CASE ~Exists(sigma, s)
  BY <1>2, ExtendsReflexive DEF Debit
<1> QED BY <1>1, <1>2

(* A call moves its value and does nothing else to the accounts there are. *)
LEMMA TransferExtends ==
  ASSUME NEW sigma \in AccountMap, NEW s \in Addr, NEW r \in Addr,
         NEW v \in Word, NEW n \in Nat, NoncesUpTo(sigma, n)
  PROVE  Extends(sigma, Transfer(sigma, s, r, v), n)
<1> DEFINE tau == Credit(sigma, r, v)
<1>1. Extends(sigma, tau, n)
  BY CreditExtends
<1>2. tau \in AccountMap /\ NoncesUpTo(tau, n)
  BY <1>1 DEF Extends
<1> HIDE DEF tau
<1>3. Extends(tau, Debit(tau, s, v), n)
  BY <1>2, DebitExtends
<1>4. Extends(sigma, Debit(tau, s, v), n)
  BY <1>1, <1>2, <1>3, ExtendsTransitive
<1> QED BY <1>4 DEF Transfer, tau

(* Lambda endows the new account: a colliding one may reach one nonce more *)
(* than there was, a fresh one starts with nonce 1.                        *)
LEMMA EndowExtends ==
  ASSUME NEW sigma \in AccountMap, NEW s \in Addr, NEW a \in Addr,
         NEW v \in Word, NoncesUpTo(sigma, MaxNonce),
         NEW n \in Nat, n >= MaxNonce, n <= MaxNonce + 1,
         Collides(sigma, a) => n = MaxNonce + 1
  PROVE  Extends(sigma, Endow(sigma, s, a, v), n)
<1>0. NoncesUpTo(sigma, n)
  BY LookupType, AccountFields, NonceAssumption DEF NoncesUpTo
<1>1. CASE ~Exists(sigma, s)
  BY <1>0, <1>1, ExtendsReflexive DEF Endow
<1>2. CASE Exists(sigma, s)
  <2> DEFINE existent == AccountAt(sigma, a)
             created  == [existent EXCEPT !.nonce = WordAdd(@, 1),
                                          !.balance = WordAdd(v, @)]
             tau      == Debit(sigma, s, v)
  <2>1. Extends(sigma, tau, n) /\ tau \in AccountMap /\ NoncesUpTo(tau, n)
    BY <1>0, DebitExtends DEF Extends
  <2>2. existent \in Account /\ existent.nonce \in Int /\ existent.nonce >= 0
    BY AccountAtType, AccountFields DEF Word
  <2>3. existent.nonce <= MaxNonce
    BY NonceAssumption DEF AccountAt, NoncesUpTo, DefaultAccount
  <2>4. ~Collides(sigma, a) => existent.nonce = 0
    BY DEF Collides
  <2>5. WordAdd(existent.nonce, 1) = existent.nonce + 1
    BY <2>2, <2>3, WordAssumption, NonceAssumption DEF WordAdd
  <2>6. AccountAt(tau, a).code = existent.code
        /\ AccountAt(tau, a).nonce = existent.nonce
    <3>1. CASE a = s
      <4>1. existent = sigma[s]
        BY <1>2, <3>1 DEF AccountAt
      <4>2. AccountAt(tau, a) = [existent EXCEPT !.balance = WordSub(@, v)]
        <5>1. tau[s] = [sigma[s] EXCEPT !.balance = WordSub(@, v)]
          BY <1>2 DEF Debit, AccountMap
        <5>2. tau[s] \in Account
          BY <5>1, <4>1, <2>2, WordSubType DEF Account
        <5>3. Exists(tau, s)
          BY <5>2, AccountFields DEF Exists
        <5> QED BY <5>1, <5>3, <4>1, <3>1 DEF AccountAt
      <4> HIDE DEF existent, tau
      <4> QED BY <4>2, <2>2 DEF Account
    <3>2. CASE a # s
      <4>1. tau[a] = sigma[a]
        BY <1>2, <3>2 DEF Debit, AccountMap
      <4> QED BY <4>1 DEF AccountAt, Exists
    <3> QED BY <3>1, <3>2
  <2>7. created \in Account /\ created.code = existent.code
        /\ created.nonce = existent.nonce + 1
    <3>1. WordAdd(existent.nonce, 1) \in Word /\ WordAdd(v, existent.balance) \in Word
      BY <2>2, WordAddType, SmallWords, AccountFields
    <3> HIDE DEF existent
    <3> QED BY <3>1, <2>2, <2>5 DEF Account
  <2>8. created.nonce >= existent.nonce /\ created.nonce <= n
    BY <2>2, <2>3, <2>4, <2>7, NonceAssumption
  <2> HIDE DEF created, tau
  <2>9. Extends(tau, [tau EXCEPT ![a] = created], n)
    BY <2>1, <2>6, <2>7, <2>8, UpdateExtends
  <2>10. Extends(sigma, [tau EXCEPT ![a] = created], n)
    BY <2>1, <2>9, ExtendsTransitive
  <2> QED BY <1>2, <2>10 DEF Endow, tau, created, existent
<1> QED BY <1>1, <1>2

(* The nonce of a creator grows by one. *)
LEMMA IncrementNonceExtends ==
  ASSUME NEW sigma \in AccountMap, NEW a \in Addr,
         NoncesUpTo(sigma, MaxNonce), AccountAt(sigma, a).nonce < MaxNonce
  PROVE  Extends(sigma, IncrementNonce(sigma, a), MaxNonce)
<1> DEFINE acc == AccountAt(sigma, a)
           new == [acc EXCEPT !.nonce = WordAdd(@, 1)]
<1>1. acc \in Account /\ acc.nonce \in Int
  BY AccountAtType, AccountFields
<1>2. WordAdd(acc.nonce, 1) = acc.nonce + 1
  BY <1>1, WordAssumption, NonceAssumption DEF WordAdd
<1>3. new \in Account /\ new.code = acc.code /\ new.nonce = acc.nonce + 1
  <2>1. WordAdd(acc.nonce, 1) \in Word
    BY <1>1, WordAddType, SmallWords, AccountFields
  <2> HIDE DEF acc
  <2> QED BY <1>1, <1>2, <2>1 DEF Account
<1>4. new.nonce >= acc.nonce /\ new.nonce <= MaxNonce
  BY <1>1, <1>3, NonceAssumption
<1> HIDE DEF new
<1>5. Extends(sigma, [sigma EXCEPT ![a] = new], MaxNonce)
  BY <1>3, <1>4, UpdateExtends DEF acc
<1> QED BY <1>5 DEF IncrementNonce, new, acc

LEMMA IncrementNonceGrows ==
  ASSUME NEW sigma \in AccountMap, NEW a \in Addr, AccountAt(sigma, a).nonce < MaxNonce
  PROVE  AccountAt(IncrementNonce(sigma, a), a).nonce = AccountAt(sigma, a).nonce + 1
<1> DEFINE acc == AccountAt(sigma, a)
           new == [acc EXCEPT !.nonce = WordAdd(@, 1)]
<1>1. acc \in Account /\ acc.nonce \in Int /\ acc.nonce \in Word
  BY AccountAtType, AccountFields
<1>2. WordAdd(acc.nonce, 1) = acc.nonce + 1
  BY <1>1, WordAssumption, NonceAssumption DEF WordAdd, Word
<1>3. new \in Account /\ new.nonce = acc.nonce + 1
  <2>1. WordAdd(acc.nonce, 1) \in Word
    BY <1>1, WordAddType, SmallWords
  <2> HIDE DEF acc
  <2> QED BY <1>1, <1>2, <2>1 DEF Account
<1>4. IncrementNonce(sigma, a)[a] = new
  BY DEF IncrementNonce, AccountMap
<1> HIDE DEF new, acc
<1>5. new # NoAccount
  BY <1>3, AccountFields
<1> QED BY <1>3, <1>4, <1>5 DEF AccountAt, Exists, acc

(* The deposit of code writes one account, and only its code. *)
LEMMA SetCodeWrites ==
  ASSUME NEW sigma \in AccountMap, NEW a \in Addr,
         NEW c \in Codes \cup {NoCode}, NEW n \in Nat, NoncesUpTo(sigma, n)
  PROVE  /\ SetCode(sigma, a, c) \in AccountMap
         /\ NoncesUpTo(SetCode(sigma, a, c), n)
         /\ \A b \in Addr : b # a => SetCode(sigma, a, c)[b] = sigma[b]
         /\ Exists(SetCode(sigma, a, c), a)
         /\ SetCode(sigma, a, c)[a].nonce = AccountAt(sigma, a).nonce
<1> DEFINE acc == AccountAt(sigma, a)
           new == [acc EXCEPT !.code = c]
<1>1. acc \in Account /\ acc.nonce <= n
  BY AccountAtType DEF AccountAt, NoncesUpTo, DefaultAccount
<1>2. new \in Account /\ new.nonce = acc.nonce
  <2> HIDE DEF acc
  <2> QED BY <1>1 DEF Account
<1> HIDE DEF new
<1>3. [sigma EXCEPT ![a] = new] \in AccountMap
  BY <1>2, UpdateType
<1>4. /\ [sigma EXCEPT ![a] = new][a] = new
      /\ \A b \in Addr : b # a => [sigma EXCEPT ![a] = new][b] = sigma[b]
  BY DEF AccountMap
<1>5. new # NoAccount
  BY <1>2, AccountFields
<1> QED BY <1>1, <1>2, <1>3, <1>4, <1>5 DEF SetCode, NoncesUpTo, Exists, new, acc

(* A self-destruction moves or burns ether and removes no account. *)
LEMMA BequeathExtends ==
  ASSUME NEW sigma \in AccountMap, NEW a \in Addr, NEW heir \in Addr,
         NEW isNew \in BOOLEAN, NEW n \in Nat, NoncesUpTo(sigma, n)
  PROVE  Extends(sigma, Bequeath(sigma, a, heir, isNew), n)
<1> DEFINE estate == BalanceOf(sigma, a)
           broke  == [sigma[a] EXCEPT !.balance = 0]
           paid   == IncreaseBalance(sigma, heir, estate)
<1>1. CASE ~Exists(sigma, a)
  BY <1>1, ExtendsReflexive DEF Bequeath
<1>2. CASE Exists(sigma, a)
  <2>1. sigma[a] \in Account /\ estate \in Word /\ sigma[a].nonce <= n
    BY <1>2, LookupType, AccountAtType, AccountFields DEF BalanceOf, NoncesUpTo
  <2>2. /\ broke \in Account
        /\ broke.code = sigma[a].code /\ broke.nonce = sigma[a].nonce
    BY <2>1, SmallWords DEF Account
  <2>3. broke.nonce >= sigma[a].nonce /\ broke.nonce <= n
    BY <2>1, <2>2, AccountFields
  <2>4. Extends(sigma, paid, n) /\ paid \in AccountMap /\ NoncesUpTo(paid, n)
    BY <2>1, IncreaseBalanceExtends DEF Extends
  <2>5. heir # a => paid[a] = sigma[a]
    BY DEF IncreaseBalance, AccountMap
  <2> HIDE DEF broke, estate, paid
  <2>6. Extends(sigma, [sigma EXCEPT ![a] = broke], n)
    BY <1>2, <2>2, <2>3, UpdateExtends DEF AccountAt
  <2>7. heir # a => Extends(sigma, [paid EXCEPT ![a] = broke], n)
    <3> SUFFICES ASSUME heir # a
                 PROVE  Extends(sigma, [paid EXCEPT ![a] = broke], n)
      OBVIOUS
    <3>1. AccountAt(paid, a) = sigma[a]
      BY <1>2, <2>5 DEF AccountAt, Exists
    <3>2. Extends(paid, [paid EXCEPT ![a] = broke], n)
      BY <3>1, <2>2, <2>3, <2>4, UpdateExtends
    <3> QED BY <3>2, <2>4, ExtendsTransitive
  <2>8. Extends(sigma, sigma, n)
    BY ExtendsReflexive
  <2>9. CASE heir = a
    BY <1>2, <2>6, <2>8, <2>9 DEF Bequeath, broke
  <2>10. CASE heir # a
    BY <1>2, <2>7, <2>8, <2>10 DEF Bequeath, broke, paid, estate
  <2> QED BY <2>9, <2>10
<1> QED BY <1>1, <1>2

(* The end of a transaction removes the accounts of S and no other. *)
LEMMA EraseAndClear ==
  ASSUME NEW sigma \in AccountMap, NEW S, NEW n, NoncesUpTo(sigma, n)
  PROVE  LET tau == ClearTransient(EraseAll(sigma, S))
         IN  /\ tau \in AccountMap
             /\ NoncesUpTo(tau, n)
             /\ \A a \in Addr : Exists(tau, a) <=> Exists(sigma, a) /\ a \notin S
<1> DEFINE left == EraseAll(sigma, S)
           tau  == ClearTransient(left)
<1>1. left \in AccountMap
      /\ \A a \in Addr : left[a] = IF a \in S THEN NoAccount ELSE sigma[a]
  BY DEF EraseAll, AccountMap
<1> HIDE DEF left
<1>2. \A a \in Addr : Exists(left, a) =>
        /\ left[a] \in Account
        /\ [left[a] EXCEPT !.tstorage = NoStorage] \in Account
        /\ [left[a] EXCEPT !.tstorage = NoStorage].nonce = left[a].nonce
  <2> TAKE a \in Addr
  <2> HAVE Exists(left, a)
  <2>1. left[a] \in Account
    BY <1>1, LookupType
  <2>2. NoStorage \in Storage
    BY ValuesAssumption DEF NoStorage, Storage
  <2> QED BY <2>1, <2>2 DEF Account
<1>3. tau \in AccountMap
  BY <1>2 DEF ClearTransient, AccountMap
<1>4. \A a \in Addr :
        /\ Exists(tau, a) <=> Exists(left, a)
        /\ Exists(left, a) => tau[a].nonce = left[a].nonce
  BY <1>2, AccountFields DEF ClearTransient, Exists
<1>5. \A a \in Addr : Exists(left, a) <=> Exists(sigma, a) /\ a \notin S
  BY <1>1 DEF Exists
<1>6. \A a \in Addr : Exists(left, a) => left[a] = sigma[a]
  BY <1>1 DEF Exists
<1>7. NoncesUpTo(tau, n)
  BY <1>4, <1>5, <1>6 DEF NoncesUpTo
<1> HIDE DEF tau
<1> QED BY <1>3, <1>4, <1>5, <1>7 DEF tau, left

-----------------------------------------------------------------------------
(* What a transfer without permission does *)

(* Writing into a map what is there changes nothing. *)
LEMMA UpdateSame ==
  ASSUME NEW sigma \in AccountMap, NEW a \in Addr, NEW acc, acc = sigma[a]
  PROVE  [sigma EXCEPT ![a] = acc] = sigma
BY DEF AccountMap

LEMMA SameBalance ==
  ASSUME NEW acc \in Account, NEW n, n = acc.balance
  PROVE  [acc EXCEPT !.balance = n] = acc
BY DEF Account

(* A call of value 0, and a call of an account to itself that it can pay   *)
(* for, leave the account map as it is: CALLCODE may carry a value in a    *)
(* frame without permission.                                               *)
LEMMA TransferPure ==
  ASSUME NEW sigma \in AccountMap, NEW s \in Addr, NEW r \in Addr, NEW v \in Word,
         v = 0 \/ (s = r /\ v <= BalanceOf(sigma, s))
  PROVE  Transfer(sigma, s, r, v) = sigma
<1>1. \A a \in Addr : Exists(sigma, a) =>
        /\ sigma[a] \in Account /\ sigma[a].balance \in 0..(WordSize - 1)
        /\ AccountAt(sigma, a) = sigma[a]
  BY LookupType, AccountFields DEF AccountAt, Word
<1>2. WordSize \in Int /\ v \in 0..(WordSize - 1)
  BY WordAssumption DEF Word
<1>3. CASE v = 0
  <2>1. \A b \in 0..(WordSize - 1) : WordAdd(b, 0) = b /\ WordSub(b, 0) = b
    BY <1>2 DEF WordAdd, WordSub
  <2>2. Credit(sigma, r, 0) = sigma
    <3>1. CASE Exists(sigma, r)
      <4>1. [AccountAt(sigma, r) EXCEPT !.balance = WordAdd(@, 0)] = sigma[r]
        BY <1>1, <2>1, <3>1, SameBalance
      <4> QED BY <3>1, <4>1, UpdateSame DEF Credit, IncreaseBalance
    <3> QED BY <3>1 DEF Credit
  <2>3. Debit(sigma, s, 0) = sigma
    <3>1. CASE Exists(sigma, s)
      <4>1. [sigma[s] EXCEPT !.balance = WordSub(@, 0)] = sigma[s]
        BY <1>1, <2>1, <3>1, SameBalance
      <4> QED BY <3>1, <4>1, UpdateSame DEF Debit
    <3> QED BY <3>1 DEF Debit
  <2> QED BY <1>3, <2>2, <2>3 DEF Transfer
<1>4. CASE v # 0 /\ s = r /\ v <= BalanceOf(sigma, s)
  <2>1. Exists(sigma, s)
    BY <1>2, <1>4 DEF BalanceOf, AccountAt, DefaultAccount
  <2> DEFINE acc  == sigma[s]
             rich == [acc EXCEPT !.balance = WordAdd(@, v)]
             tau  == [sigma EXCEPT ![s] = rich]
  <2>2. acc \in Account /\ acc.balance \in 0..(WordSize - 1)
    BY <1>1, <2>1
  <2>3. WordSub(WordAdd(acc.balance, v), v) = acc.balance
    BY <1>2, <2>2 DEF WordAdd, WordSub
  <2>4. Credit(sigma, r, v) = tau
    BY <1>1, <1>4, <2>1 DEF Credit, IncreaseBalance
  <2>5. rich \in Account /\ rich.balance = WordAdd(acc.balance, v)
    BY <2>2, WordAddType DEF Account
  <2>6. tau[s] = rich /\ Exists(tau, s)
    BY <2>5, AccountFields DEF AccountMap, Exists
  <2>7. [rich EXCEPT !.balance = WordSub(@, v)] = acc
    BY <2>2, <2>3, <2>5 DEF Account
  <2>8. Debit(tau, s, v) = [tau EXCEPT ![s] = acc]
    BY <2>6, <2>7 DEF Debit
  <2>9. [tau EXCEPT ![s] = acc] = sigma
    BY DEF AccountMap
  <2> QED BY <1>4, <2>4, <2>8, <2>9 DEF Transfer
<1> QED BY <1>3, <1>4

-----------------------------------------------------------------------------
(* The ether of all accounts *)

LEMMA TotalIsSum ==
  ASSUME NEW sigma \in AccountMap
  PROVE  LET b == [a \in Addr |-> BalanceOf(sigma, a)]
         IN  b \in [Addr -> Nat] /\ TotalBalance(sigma) = SumFunctionOnSet(b, Addr)
<1>1. \A a \in Addr : BalanceOf(sigma, a) \in Nat
  BY AccountAtType, AccountFields, WordAssumption DEF BalanceOf, Word
<1> QED BY <1>1 DEF TotalBalance, SumFunction

LEMMA TotalBounds ==
  ASSUME NEW sigma \in AccountMap
  PROVE  /\ TotalBalance(sigma) \in Nat
         /\ \A a \in Addr : /\ BalanceOf(sigma, a) \in Nat
                            /\ BalanceOf(sigma, a) <= TotalBalance(sigma)
         /\ \A a, b \in Addr : a # b =>
              BalanceOf(sigma, a) + BalanceOf(sigma, b) <= TotalBalance(sigma)
<1> DEFINE f == [a \in Addr |-> BalanceOf(sigma, a)]
<1>1. f \in [Addr -> Nat] /\ TotalBalance(sigma) = SumFunctionOnSet(f, Addr)
  BY TotalIsSum
<1>2. \A a \in Addr : f[a] = BalanceOf(sigma, a)
  OBVIOUS
<1> HIDE DEF f
<1>3. IsFiniteSet(Addr)
  BY FiniteAssumption
<1>4. /\ SumFunctionOnSet(f, Addr) \in Nat
      /\ \A a \in Addr : f[a] <= SumFunctionOnSet(f, Addr)
      /\ \A a, b \in Addr : a # b => f[a] + f[b] <= SumFunctionOnSet(f, Addr)
  BY <1>1, <1>3, SumNat
<1> QED BY <1>1, <1>2, <1>4

(* One balance has changed. *)
LEMMA TotalChange ==
  ASSUME NEW sigma \in AccountMap, NEW tau \in AccountMap, NEW a \in Addr,
         \A b \in Addr : b # a => BalanceOf(tau, b) = BalanceOf(sigma, b)
  PROVE  TotalBalance(tau) =
           TotalBalance(sigma) + (BalanceOf(tau, a) - BalanceOf(sigma, a))
<1> DEFINE f == [b \in Addr |-> BalanceOf(sigma, b)]
           g == [b \in Addr |-> BalanceOf(tau, b)]
<1>1. /\ f \in [Addr -> Nat] /\ TotalBalance(sigma) = SumFunctionOnSet(f, Addr)
      /\ g \in [Addr -> Nat] /\ TotalBalance(tau) = SumFunctionOnSet(g, Addr)
  BY TotalIsSum
<1>2. /\ \A b \in Addr : b # a => f[b] = g[b]
      /\ f[a] = BalanceOf(sigma, a) /\ g[a] = BalanceOf(tau, a)
  OBVIOUS
<1> HIDE DEF f, g
<1>3. IsFiniteSet(Addr) /\ Addr \in SUBSET Addr
  BY FiniteAssumption
<1>4. f \in [Addr -> Int] /\ g \in [Addr -> Int]
  BY <1>1
<1>5. SumFunctionOnSet(g, Addr) = SumFunctionOnSet(f, Addr) + (g[a] - f[a])
  BY <1>2, <1>3, <1>4, SumChange
<1> QED BY <1>1, <1>2, <1>5

LEMMA TotalMonotone ==
  ASSUME NEW sigma \in AccountMap, NEW tau \in AccountMap,
         \A a \in Addr : BalanceOf(tau, a) <= BalanceOf(sigma, a)
  PROVE  TotalBalance(tau) <= TotalBalance(sigma)
<1> DEFINE f == [b \in Addr |-> BalanceOf(sigma, b)]
           g == [b \in Addr |-> BalanceOf(tau, b)]
<1>1. /\ f \in [Addr -> Nat] /\ TotalBalance(sigma) = SumFunctionOnSet(f, Addr)
      /\ g \in [Addr -> Nat] /\ TotalBalance(tau) = SumFunctionOnSet(g, Addr)
  BY TotalIsSum
<1>2. \A b \in Addr : g[b] <= f[b]
  OBVIOUS
<1> HIDE DEF f, g
<1>3. IsFiniteSet(Addr) /\ Addr \in SUBSET Addr
  BY FiniteAssumption
<1>4. f \in [Addr -> Int] /\ g \in [Addr -> Int]
  BY <1>1
<1> QED BY <1>1, <1>2, <1>3, <1>4, SumMonotone

LEMMA TotalSame ==
  ASSUME NEW sigma \in AccountMap, NEW tau \in AccountMap,
         \A a \in Addr : BalanceOf(tau, a) = BalanceOf(sigma, a)
  PROVE  TotalBalance(tau) = TotalBalance(sigma)
<1>1. [a \in Addr |-> BalanceOf(tau, a)] = [a \in Addr |-> BalanceOf(sigma, a)]
  OBVIOUS
<1> QED BY <1>1 DEF TotalBalance

-----------------------------------------------------------------------------
(* Ether and empty accounts *)

NoneEmpty(sigma) == \A a \in Addr : Exists(sigma, a) => ~IsEmpty(sigma[a])

(* An account is written. *)
LEMMA WriteBalance ==
  ASSUME NEW sigma \in AccountMap, NEW a \in Addr, NEW acc \in Account
  PROVE  LET tau == [sigma EXCEPT ![a] = acc]
         IN  /\ tau \in AccountMap
             /\ tau[a] = acc /\ Exists(tau, a) /\ BalanceOf(tau, a) = acc.balance
             /\ \A b \in Addr : b # a =>
                  tau[b] = sigma[b] /\ BalanceOf(tau, b) = BalanceOf(sigma, b)
             /\ TotalBalance(tau) =
                  TotalBalance(sigma) + (acc.balance - BalanceOf(sigma, a))
             /\ NoneEmpty(sigma) /\ ~IsEmpty(acc) => NoneEmpty(tau)
<1> DEFINE tau == [sigma EXCEPT ![a] = acc]
<1>1. tau \in AccountMap /\ tau[a] = acc /\ \A b \in Addr : b # a => tau[b] = sigma[b]
  BY DEF AccountMap
<1> HIDE DEF tau
<1>2. Exists(tau, a) /\ BalanceOf(tau, a) = acc.balance
  BY <1>1, AccountFields DEF Exists, BalanceOf, AccountAt
<1>3. \A b \in Addr : b # a => BalanceOf(tau, b) = BalanceOf(sigma, b)
  BY <1>1 DEF Exists, BalanceOf, AccountAt
<1>4. TotalBalance(tau) = TotalBalance(sigma) + (acc.balance - BalanceOf(sigma, a))
  BY <1>1, <1>2, <1>3, TotalChange
<1>5. NoneEmpty(sigma) /\ ~IsEmpty(acc) => NoneEmpty(tau)
  BY <1>1 DEF NoneEmpty, Exists
<1> QED BY <1>1, <1>2, <1>3, <1>4, <1>5 DEF tau

(* The balance of an account, which may be new, becomes n. *)
LEMMA SetBalance ==
  ASSUME NEW sigma \in AccountMap, NEW a \in Addr, NEW n \in Word
  PROVE  LET acc == [AccountAt(sigma, a) EXCEPT !.balance = n]
         IN  /\ acc \in Account /\ acc.balance = n
             /\ acc.nonce = AccountAt(sigma, a).nonce
             /\ acc.code = AccountAt(sigma, a).code
             /\ n # 0 => ~IsEmpty(acc)
             /\ Deployed(sigma, a) => ~IsEmpty(acc)
<1> DEFINE old == AccountAt(sigma, a)
           acc == [old EXCEPT !.balance = n]
<1>1. old \in Account
  BY AccountAtType
<1>2. Deployed(sigma, a) => old.nonce # 0 \/ old.code # NoCode
  BY DEF Deployed, AccountAt
<1> HIDE DEF old
<1>3. acc \in Account /\ acc.balance = n /\ acc.nonce = old.nonce /\ acc.code = old.code
  BY <1>1 DEF Account
<1> QED BY <1>2, <1>3 DEF IsEmpty, old

(* More ether, as long as the account has room for it. *)
LEMMA IncreaseBalanceTotal ==
  ASSUME NEW sigma \in AccountMap, NEW a \in Addr, NEW n \in Nat,
         BalanceOf(sigma, a) + n < WordSize
  PROVE  LET tau == IncreaseBalance(sigma, a, n)
         IN  /\ tau \in AccountMap
             /\ TotalBalance(tau) = TotalBalance(sigma) + n
             /\ BalanceOf(tau, a) = BalanceOf(sigma, a) + n
             /\ \A b \in Addr : b # a =>
                  tau[b] = sigma[b] /\ BalanceOf(tau, b) = BalanceOf(sigma, b)
             /\ NoneEmpty(sigma) /\ (Exists(sigma, a) \/ n # 0) => NoneEmpty(tau)
<1> DEFINE old == AccountAt(sigma, a)
           acc == [old EXCEPT !.balance = WordAdd(@, n)]
<1>1. old \in Account /\ BalanceOf(sigma, a) = old.balance
  BY AccountAtType DEF BalanceOf
<1>2. /\ TotalBalance(sigma) \in Nat /\ BalanceOf(sigma, a) \in Nat
      /\ BalanceOf(sigma, a) <= TotalBalance(sigma)
  BY TotalBounds
<1>3. WordSize \in Nat
  BY WordAssumption
<1>4. WordAdd(old.balance, n) = old.balance + n /\ WordAdd(old.balance, n) \in Word
  BY <1>1, <1>2, <1>3 DEF WordAdd, Word
<1>5. /\ acc \in Account /\ acc.balance = old.balance + n
      /\ acc.nonce = old.nonce /\ acc.code = old.code
  BY <1>1, <1>4, SetBalance
<1>6. IncreaseBalance(sigma, a, n) = [sigma EXCEPT ![a] = acc]
  BY DEF IncreaseBalance
<1>7. NoneEmpty(sigma) /\ (Exists(sigma, a) \/ n # 0) => ~IsEmpty(acc)
  <2>1. CASE n # 0
    BY <1>1, <1>2, <1>5, <2>1 DEF IsEmpty
  <2>2. CASE NoneEmpty(sigma) /\ Exists(sigma, a)
    <3>1. ~IsEmpty(old)
      BY <2>2 DEF NoneEmpty, AccountAt
    <3> QED BY <1>1, <1>2, <1>5, <3>1 DEF IsEmpty
  <2> QED BY <2>1, <2>2
<1> DEFINE tau == [sigma EXCEPT ![a] = acc]
<1> HIDE DEF acc, old
<1>8. /\ tau \in AccountMap /\ BalanceOf(tau, a) = acc.balance
      /\ \A b \in Addr : b # a =>
           tau[b] = sigma[b] /\ BalanceOf(tau, b) = BalanceOf(sigma, b)
      /\ TotalBalance(tau) = TotalBalance(sigma) + (acc.balance - BalanceOf(sigma, a))
      /\ NoneEmpty(sigma) /\ ~IsEmpty(acc) => NoneEmpty(tau)
  <2>1. acc \in Account
    BY <1>5
  <2>2. tau \in AccountMap /\ BalanceOf(tau, a) = acc.balance
    BY <2>1, WriteBalance
  <2>3. TotalBalance(tau) = TotalBalance(sigma) + (acc.balance - BalanceOf(sigma, a))
    BY <2>1, WriteBalance
  <2>4. \A b \in Addr : b # a =>
           tau[b] = sigma[b] /\ BalanceOf(tau, b) = BalanceOf(sigma, b)
    BY <2>1, WriteBalance
  <2>5. NoneEmpty(sigma) /\ ~IsEmpty(acc) => NoneEmpty(tau)
    BY <2>1, WriteBalance
  <2> QED BY <2>2, <2>3, <2>4, <2>5
<1> HIDE DEF tau
<1>9. /\ TotalBalance(tau) = TotalBalance(sigma) + n
      /\ BalanceOf(tau, a) = BalanceOf(sigma, a) + n
  BY <1>1, <1>2, <1>5, <1>8
<1> QED BY <1>6, <1>7, <1>8, <1>9 DEF tau

(* An account that is deployed pays: it keeps its code or its nonce. *)
LEMMA DebitTotal ==
  ASSUME NEW sigma \in AccountMap, NEW s \in Addr, NEW v \in Nat,
         v <= BalanceOf(sigma, s), Deployed(sigma, s)
  PROVE  LET tau == Debit(sigma, s, v)
         IN  /\ tau \in AccountMap
             /\ TotalBalance(tau) = TotalBalance(sigma) - v
             /\ \A b \in Addr : b # s => tau[b] = sigma[b]
             /\ NoneEmpty(sigma) => NoneEmpty(tau)
<1> DEFINE acc == [sigma[s] EXCEPT !.balance = WordSub(@, v)]
           tau == [sigma EXCEPT ![s] = acc]
<1>1. Exists(sigma, s) /\ sigma[s] = AccountAt(sigma, s) /\ sigma[s] \in Account
  BY LookupType DEF Deployed, AccountAt
<1>2. BalanceOf(sigma, s) = sigma[s].balance /\ sigma[s].balance \in Word
  BY <1>1, AccountFields DEF BalanceOf
<1>3. WordSub(sigma[s].balance, v) = sigma[s].balance - v
      /\ WordSub(sigma[s].balance, v) \in Word
  BY <1>2, WordAssumption DEF WordSub, Word
<1>4. acc \in Account /\ acc.balance = sigma[s].balance - v /\ ~IsEmpty(acc)
  BY <1>1, <1>3, SetBalance
<1>5. Debit(sigma, s, v) = tau
  BY <1>1 DEF Debit
<1> HIDE DEF acc
<1>6. /\ tau \in AccountMap
      /\ \A b \in Addr : b # s => tau[b] = sigma[b]
      /\ TotalBalance(tau) = TotalBalance(sigma) + (acc.balance - BalanceOf(sigma, s))
      /\ NoneEmpty(sigma) => NoneEmpty(tau)
  BY <1>4, WriteBalance
<1> HIDE DEF tau
<1>7. TotalBalance(tau) = TotalBalance(sigma) - v
  <2>1. TotalBalance(sigma) \in Nat /\ sigma[s].balance \in Int
    BY <1>2, TotalBounds DEF Word
  <2> QED BY <1>2, <1>4, <1>6, <2>1
<1> QED BY <1>5, <1>6, <1>7 DEF tau

(* A transfer that the sender can pay for moves ether and makes none. *)
LEMMA TransferTotal ==
  ASSUME NEW sigma \in AccountMap, NEW s \in Addr, NEW r \in Addr, NEW v \in Word,
         v <= BalanceOf(sigma, s), v = 0 \/ Deployed(sigma, s),
         TotalBalance(sigma) < WordSize
  PROVE  LET tau == Transfer(sigma, s, r, v)
         IN  /\ TotalBalance(tau) = TotalBalance(sigma)
             /\ NoneEmpty(sigma) => NoneEmpty(tau)
<1>1. CASE v = 0 \/ s = r
  BY <1>1, TransferPure
<1>2. CASE v # 0 /\ s # r
  <2> DEFINE mid == Credit(sigma, r, v)
  <2>1. /\ v \in Nat /\ Deployed(sigma, s) /\ WordSize \in Nat
        /\ BalanceOf(sigma, s) \in Nat /\ BalanceOf(sigma, r) \in Nat
        /\ BalanceOf(sigma, s) + BalanceOf(sigma, r) <= TotalBalance(sigma)
        /\ TotalBalance(sigma) \in Nat
    BY <1>2, TotalBounds, WordAssumption DEF Word
  <2>2. mid = IncreaseBalance(sigma, r, v)
    BY <1>2 DEF Credit
  <2>3. /\ mid \in AccountMap
        /\ TotalBalance(mid) = TotalBalance(sigma) + v
        /\ mid[s] = sigma[s] /\ BalanceOf(mid, s) = BalanceOf(sigma, s)
        /\ NoneEmpty(sigma) => NoneEmpty(mid)
    <3>1. BalanceOf(sigma, r) + v < WordSize
      BY <2>1
    <3> HIDE DEF mid
    <3> QED BY <1>2, <2>1, <2>2, <3>1, IncreaseBalanceTotal
  <2> HIDE DEF mid
  <2>4. Deployed(mid, s) /\ v <= BalanceOf(mid, s)
    BY <2>1, <2>3 DEF Deployed, Exists
  <2> DEFINE tau == Debit(mid, s, v)
  <2>5. /\ TotalBalance(tau) = TotalBalance(mid) - v
        /\ NoneEmpty(mid) => NoneEmpty(tau)
    BY <2>1, <2>3, <2>4, DebitTotal
  <2>6. tau = Transfer(sigma, s, r, v)
    BY DEF Transfer, mid
  <2> HIDE DEF tau
  <2> QED BY <2>1, <2>3, <2>5, <2>6
<1> QED BY <1>1, <1>2

(* A creation at another address moves ether and makes none.  At the       *)
(* address of the creator the debit would be overwritten.                  *)
LEMMA EndowTotal ==
  ASSUME NEW sigma \in AccountMap, NEW s \in Addr, NEW a \in Addr, NEW v \in Word,
         v <= BalanceOf(sigma, s), Deployed(sigma, s),
         NoncesUpTo(sigma, MaxNonce), TotalBalance(sigma) < WordSize
  PROVE  LET tau == Endow(sigma, s, a, v)
         IN  /\ s # a => TotalBalance(tau) = TotalBalance(sigma)
             /\ NoneEmpty(sigma) => NoneEmpty(tau)
             /\ Exists(tau, a) /\ tau[a].nonce # 0
<1> DEFINE old  == AccountAt(sigma, a)
           acc  == [old EXCEPT !.nonce = WordAdd(@, 1), !.balance = WordAdd(v, @)]
           left == Debit(sigma, s, v)
           tau  == [left EXCEPT ![a] = acc]
<1>1. /\ old \in Account /\ old.nonce \in Nat /\ old.nonce <= MaxNonce
      /\ old.balance \in Word /\ old.balance = BalanceOf(sigma, a)
  <2>1. old \in Account
    BY AccountAtType
  <2>2. old.nonce \in Nat /\ old.balance \in Word
    BY <2>1, AccountFields DEF Word
  <2>3. old.nonce <= MaxNonce
    BY NonceAssumption DEF AccountAt, NoncesUpTo, DefaultAccount
  <2> QED BY <2>1, <2>2, <2>3 DEF BalanceOf
<1>2. WordAdd(old.nonce, 1) = old.nonce + 1 /\ WordAdd(old.nonce, 1) \in Word
  BY <1>1, WordAssumption, NonceAssumption DEF WordAdd, Word
<1>3. WordAdd(v, old.balance) \in Word
  BY <1>1, WordAddType
<1>4. /\ acc \in Account /\ acc.nonce # 0 /\ acc.balance = WordAdd(v, old.balance)
  <2> HIDE DEF old
  <2>1. acc \in Account /\ acc.nonce = old.nonce + 1 /\ acc.balance = WordAdd(v, old.balance)
    BY <1>1, <1>2, <1>3 DEF Account
  <2> QED BY <1>1, <2>1
<1>5. /\ left \in AccountMap
      /\ TotalBalance(left) = TotalBalance(sigma) - v
      /\ \A b \in Addr : b # s => left[b] = sigma[b]
      /\ NoneEmpty(sigma) => NoneEmpty(left)
  BY DebitTotal DEF Word
<1>6. Endow(sigma, s, a, v) = tau
  BY DEF Endow, Deployed
<1> HIDE DEF acc, left
<1>7. /\ tau[a] = acc /\ Exists(tau, a)
      /\ TotalBalance(tau) = TotalBalance(left) + (acc.balance - BalanceOf(left, a))
      /\ NoneEmpty(left) => NoneEmpty(tau)
  BY <1>4, <1>5, WriteBalance DEF IsEmpty
<1>8. ASSUME s # a
      PROVE  TotalBalance(tau) = TotalBalance(sigma)
  <2>1. BalanceOf(left, a) = old.balance
    BY <1>1, <1>5, <1>8 DEF BalanceOf, AccountAt, Exists
  <2>2. WordAdd(v, old.balance) = v + old.balance
    <3>1. /\ BalanceOf(sigma, s) \in Nat /\ BalanceOf(sigma, a) \in Nat
          /\ BalanceOf(sigma, s) + BalanceOf(sigma, a) <= TotalBalance(sigma)
          /\ TotalBalance(sigma) \in Nat
      BY <1>8, TotalBounds
    <3>2. v \in Nat /\ WordSize \in Nat
      BY WordAssumption DEF Word
    <3> HIDE DEF old
    <3> QED BY <1>1, <3>1, <3>2 DEF WordAdd
  <2>3. v \in Nat /\ old.balance \in Nat /\ TotalBalance(sigma) \in Nat
    BY <1>1, TotalBounds DEF Word
  <2> HIDE DEF tau, old
  <2> QED BY <1>4, <1>5, <1>7, <2>1, <2>2, <2>3
<1> QED BY <1>4, <1>5, <1>6, <1>7, <1>8

(* Nothing but the code, the nonce or the storage is written. *)
LEMMA WriteKeepsTotal ==
  ASSUME NEW sigma \in AccountMap, NEW a \in Addr, NEW acc \in Account,
         acc.balance = BalanceOf(sigma, a)
  PROVE  TotalBalance([sigma EXCEPT ![a] = acc]) = TotalBalance(sigma)
<1>1. BalanceOf(sigma, a) \in Nat /\ TotalBalance(sigma) \in Nat
  BY TotalBounds
<1> QED BY <1>1, WriteBalance

(* What a self-destructing account leaves goes to its heir; it burns its   *)
(* own ether when it is new and names itself.                              *)
LEMMA BequeathTotal ==
  ASSUME NEW sigma \in AccountMap, NEW a \in Addr, NEW heir \in Addr,
         NEW isNew \in BOOLEAN, Deployed(sigma, a),
         TotalBalance(sigma) < WordSize
  PROVE  LET tau == Bequeath(sigma, a, heir, isNew)
         IN  /\ \/ TotalBalance(tau) = TotalBalance(sigma)
                \/ isNew /\ TotalBalance(tau) < TotalBalance(sigma)
             /\ NoneEmpty(sigma) => NoneEmpty(tau)
<1> DEFINE estate == BalanceOf(sigma, a)
           none   == [sigma[a] EXCEPT !.balance = 0]
<1>1. Exists(sigma, a) /\ sigma[a] = AccountAt(sigma, a)
  BY DEF Deployed, AccountAt
<1>2. none \in Account /\ none.balance = 0 /\ ~IsEmpty(none)
  BY <1>1, SmallWords, SetBalance
<1>3. estate \in Nat /\ TotalBalance(sigma) \in Nat /\ estate <= TotalBalance(sigma)
  BY TotalBounds
<1> HIDE DEF none
<1>4. CASE heir = a
  <2>1. CASE isNew
    <3> DEFINE tau == [sigma EXCEPT ![a] = none]
    <3>1. Bequeath(sigma, a, heir, isNew) = tau
      BY <1>1, <1>4, <2>1 DEF Bequeath, none
    <3>2. /\ TotalBalance(tau) = TotalBalance(sigma) + (none.balance - estate)
          /\ NoneEmpty(sigma) => NoneEmpty(tau)
      BY <1>2, WriteBalance
    <3> HIDE DEF tau
    <3>3. TotalBalance(tau) = TotalBalance(sigma) \/ TotalBalance(tau) < TotalBalance(sigma)
      <4> HIDE DEF estate
      <4> QED BY <1>2, <1>3, <3>2
    <3> QED BY <2>1, <3>1, <3>2, <3>3
  <2>2. CASE ~isNew
    <3>1. Bequeath(sigma, a, heir, isNew) = sigma
      BY <1>1, <1>4, <2>2 DEF Bequeath
    <3> QED BY <3>1
  <2> QED BY <2>1, <2>2
<1>5. CASE heir # a /\ (Exists(sigma, heir) \/ estate # 0)
  <2> DEFINE mid == IncreaseBalance(sigma, heir, estate)
             tau == [mid EXCEPT ![a] = none]
  <2>1. Bequeath(sigma, a, heir, isNew) = tau
    BY <1>1, <1>5 DEF Bequeath, none
  <2>2. BalanceOf(sigma, heir) + estate < WordSize
    <3>1. /\ BalanceOf(sigma, heir) \in Nat
          /\ estate + BalanceOf(sigma, heir) <= TotalBalance(sigma)
      BY <1>5, TotalBounds
    <3> HIDE DEF estate
    <3> QED BY <1>3, <3>1, WordAssumption
  <2>3. /\ mid \in AccountMap
        /\ TotalBalance(mid) = TotalBalance(sigma) + estate
        /\ BalanceOf(mid, a) = estate
        /\ NoneEmpty(sigma) => NoneEmpty(mid)
    BY <1>3, <1>5, <2>2, IncreaseBalanceTotal
  <2> HIDE DEF mid
  <2>4. /\ TotalBalance(tau) = TotalBalance(mid) + (none.balance - BalanceOf(mid, a))
        /\ NoneEmpty(mid) => NoneEmpty(tau)
    BY <1>2, <2>3, WriteBalance
  <2> HIDE DEF tau, estate
  <2> QED BY <1>2, <1>3, <2>1, <2>3, <2>4
<1>6. CASE heir # a /\ ~(Exists(sigma, heir) \/ estate # 0)
  <2>1. Bequeath(sigma, a, heir, isNew) = sigma
    BY <1>1, <1>6 DEF Bequeath
  <2> QED BY <2>1
<1> QED BY <1>4, <1>5, <1>6

(* Accounts go, with their ether, and with them the transient storage. *)
LEMMA EraseAndClearTotal ==
  ASSUME NEW sigma \in AccountMap, NEW S
  PROVE  LET tau == ClearTransient(EraseAll(sigma, S))
         IN  /\ tau \in AccountMap
             /\ TotalBalance(tau) <= TotalBalance(sigma)
             /\ NoneEmpty(sigma) => NoneEmpty(tau)
<1> DEFINE mid == EraseAll(sigma, S)
           tau == ClearTransient(mid)
<1>1. \A a \in Addr : mid[a] = IF a \in S THEN NoAccount ELSE sigma[a]
  BY DEF EraseAll
<1>2. NoStorage \in Storage
  BY ValuesAssumption DEF NoStorage, Storage
<1>3. ASSUME NEW a \in Addr
      PROVE  /\ tau[a] \in Account \cup {NoAccount}
             /\ Exists(tau, a) =>
                  /\ Exists(sigma, a)
                  /\ tau[a].balance = sigma[a].balance
                  /\ tau[a].nonce = sigma[a].nonce /\ tau[a].code = sigma[a].code
  <2>1. CASE mid[a] = NoAccount
    BY <2>1 DEF ClearTransient, Exists
  <2>2. CASE mid[a] # NoAccount
    <3>1. mid[a] = sigma[a] /\ Exists(sigma, a)
      BY <1>1, <2>2 DEF Exists
    <3>2. sigma[a] \in Account
      BY <3>1, LookupType
    <3>3. tau[a] = [sigma[a] EXCEPT !.tstorage = NoStorage]
      BY <2>2, <3>1 DEF ClearTransient, Exists
    <3> QED BY <1>2, <3>1, <3>2, <3>3 DEF Account
  <2> QED BY <2>1, <2>2
<1>4. tau \in AccountMap
  <2>1. tau = [a \in Addr |-> tau[a]]
    BY DEF ClearTransient
  <2> HIDE DEF tau
  <2> QED BY <1>3, <2>1 DEF AccountMap
<1> HIDE DEF tau
<1>5. \A a \in Addr : BalanceOf(tau, a) <= BalanceOf(sigma, a)
  <2> TAKE a \in Addr
  <2>1. BalanceOf(sigma, a) \in Nat
    BY TotalBounds
  <2>2. CASE Exists(tau, a)
    BY <1>3, <2>1, <2>2 DEF BalanceOf, AccountAt
  <2>3. CASE ~Exists(tau, a)
    BY <2>1, <2>3 DEF BalanceOf, AccountAt, DefaultAccount
  <2> QED BY <2>2, <2>3
<1>6. TotalBalance(tau) <= TotalBalance(sigma)
  BY <1>4, <1>5, TotalMonotone
<1>7. NoneEmpty(sigma) => NoneEmpty(tau)
  BY <1>3 DEF NoneEmpty, IsEmpty
<1> QED BY <1>4, <1>6, <1>7 DEF tau

-----------------------------------------------------------------------------
(* Storage: only SSTORE writes it *)

(* tau is a map where every account has the storage it has in sigma. *)
SameStorage(sigma, tau) ==
  /\ tau \in AccountMap
  /\ \A a \in Addr : AccountAt(tau, a).storage = AccountAt(sigma, a).storage

LEMMA SameStorageTransitive ==
  ASSUME NEW sigma, NEW tau, NEW rho, SameStorage(sigma, tau), SameStorage(tau, rho)
  PROVE  SameStorage(sigma, rho)
BY DEF SameStorage

LEMMA WriteStorage ==
  ASSUME NEW sigma \in AccountMap, NEW a \in Addr, NEW acc \in Account,
         acc.storage = AccountAt(sigma, a).storage
  PROVE  SameStorage(sigma, [sigma EXCEPT ![a] = acc])
<1> DEFINE tau == [sigma EXCEPT ![a] = acc]
<1>1. /\ tau \in AccountMap /\ tau[a] = acc /\ acc # NoAccount
      /\ \A b \in Addr : b # a => tau[b] = sigma[b]
  BY NoAccountAssumption DEF AccountMap
<1> HIDE DEF tau
<1>2. AccountAt(tau, a) = acc
  BY <1>1 DEF AccountAt, Exists
<1>3. \A b \in Addr : b # a => AccountAt(tau, b) = AccountAt(sigma, b)
  BY <1>1 DEF AccountAt, Exists
<1>4. SameStorage(sigma, tau)
  BY <1>1, <1>2, <1>3 DEF SameStorage
<1> QED BY <1>4 DEF tau

LEMMA WriteBalanceStorage ==
  ASSUME NEW sigma \in AccountMap, NEW a \in Addr, NEW n \in Word
  PROVE  SameStorage(sigma,
           [sigma EXCEPT ![a] = [AccountAt(sigma, a) EXCEPT !.balance = n]])
<1> DEFINE old == AccountAt(sigma, a)
           acc == [old EXCEPT !.balance = n]
<1>1. old \in Account
  BY AccountAtType
<1> HIDE DEF old
<1>2. acc \in Account /\ acc.storage = old.storage
  BY <1>1 DEF Account
<1> HIDE DEF acc
<1>3. SameStorage(sigma, [sigma EXCEPT ![a] = acc])
  BY <1>2, WriteStorage DEF old
<1> QED BY <1>3 DEF acc, old

LEMMA IncreaseBalanceStorage ==
  ASSUME NEW sigma \in AccountMap, NEW a \in Addr, NEW n \in Word
  PROVE  SameStorage(sigma, IncreaseBalance(sigma, a, n))
<1> DEFINE sum == WordAdd(AccountAt(sigma, a).balance, n)
<1>1. sum \in Word
  BY AccountAtType, AccountFields, WordAddType
<1>2. IncreaseBalance(sigma, a, n) =
        [sigma EXCEPT ![a] = [AccountAt(sigma, a) EXCEPT !.balance = sum]]
  BY DEF IncreaseBalance
<1> HIDE DEF sum
<1> QED BY <1>1, <1>2, WriteBalanceStorage

LEMMA DebitStorage ==
  ASSUME NEW sigma \in AccountMap, NEW s \in Addr, NEW v \in Word
  PROVE  SameStorage(sigma, Debit(sigma, s, v))
<1>1. CASE Exists(sigma, s)
  <2> DEFINE rest == WordSub(AccountAt(sigma, s).balance, v)
  <2>1. rest \in Word
    BY AccountAtType, AccountFields, WordSubType
  <2>2. Debit(sigma, s, v) =
          [sigma EXCEPT ![s] = [AccountAt(sigma, s) EXCEPT !.balance = rest]]
    BY <1>1 DEF Debit, AccountAt
  <2> HIDE DEF rest
  <2> QED BY <2>1, <2>2, WriteBalanceStorage
<1>2. CASE ~Exists(sigma, s)
  BY <1>2 DEF Debit, SameStorage
<1> QED BY <1>1, <1>2

LEMMA TransferStorage ==
  ASSUME NEW sigma \in AccountMap, NEW s \in Addr, NEW r \in Addr, NEW v \in Word
  PROVE  SameStorage(sigma, Transfer(sigma, s, r, v))
<1> DEFINE mid == Credit(sigma, r, v)
<1>1. SameStorage(sigma, mid)
  BY IncreaseBalanceStorage DEF Credit, SameStorage
<1> HIDE DEF mid
<1>2. SameStorage(mid, Debit(mid, s, v))
  BY <1>1, DebitStorage DEF SameStorage
<1> QED BY <1>1, <1>2, SameStorageTransitive DEF Transfer, mid

LEMMA EndowStorage ==
  ASSUME NEW sigma \in AccountMap, NEW s \in Addr, NEW a \in Addr, NEW v \in Word
  PROVE  SameStorage(sigma, Endow(sigma, s, a, v))
<1>1. CASE Exists(sigma, s)
  <2> DEFINE old  == AccountAt(sigma, a)
             acc  == [old EXCEPT !.nonce = WordAdd(@, 1), !.balance = WordAdd(v, @)]
             left == Debit(sigma, s, v)
  <2>1. Endow(sigma, s, a, v) = [left EXCEPT ![a] = acc]
    BY <1>1 DEF Endow
  <2>2. old \in Account
    BY AccountAtType
  <2>3. SameStorage(sigma, left)
    BY DebitStorage
  <2>4. AccountAt(left, a).storage = old.storage /\ left \in AccountMap
    BY <2>3 DEF SameStorage
  <2> HIDE DEF old, left
  <2>5. WordAdd(old.nonce, 1) \in Word /\ WordAdd(v, old.balance) \in Word
    BY <2>2, AccountFields, SmallWords, WordAddType
  <2>6. acc \in Account /\ acc.storage = old.storage
    BY <2>2, <2>5 DEF Account
  <2> HIDE DEF acc
  <2>7. SameStorage(left, [left EXCEPT ![a] = acc])
    BY <2>4, <2>6, WriteStorage
  <2> QED BY <2>1, <2>3, <2>7, SameStorageTransitive
<1>2. CASE ~Exists(sigma, s)
  BY <1>2 DEF Endow, SameStorage
<1> QED BY <1>1, <1>2

LEMMA IncrementNonceStorage ==
  ASSUME NEW sigma \in AccountMap, NEW a \in Addr
  PROVE  SameStorage(sigma, IncrementNonce(sigma, a))
<1> DEFINE old == AccountAt(sigma, a)
           acc == [old EXCEPT !.nonce = WordAdd(@, 1)]
<1>1. old \in Account
  BY AccountAtType
<1>2. IncrementNonce(sigma, a) = [sigma EXCEPT ![a] = acc]
  BY DEF IncrementNonce
<1> HIDE DEF old
<1>3. WordAdd(old.nonce, 1) \in Word
  BY <1>1, AccountFields, SmallWords, WordAddType
<1>4. acc \in Account /\ acc.storage = old.storage
  BY <1>1, <1>3 DEF Account
<1> HIDE DEF acc
<1> QED BY <1>2, <1>4, WriteStorage DEF old

LEMMA SetCodeStorage ==
  ASSUME NEW sigma \in AccountMap, NEW a \in Addr, NEW c \in Codes \cup {NoCode}
  PROVE  SameStorage(sigma, SetCode(sigma, a, c))
<1> DEFINE old == AccountAt(sigma, a)
           acc == [old EXCEPT !.code = c]
<1>1. old \in Account
  BY AccountAtType
<1>2. SetCode(sigma, a, c) = [sigma EXCEPT ![a] = acc]
  BY DEF SetCode
<1> HIDE DEF old
<1>3. acc \in Account /\ acc.storage = old.storage
  BY <1>1 DEF Account
<1> HIDE DEF acc
<1> QED BY <1>2, <1>3, WriteStorage DEF old

LEMMA BequeathStorage ==
  ASSUME NEW sigma \in AccountMap, NEW a \in Addr, NEW heir \in Addr,
         NEW isNew \in BOOLEAN
  PROVE  SameStorage(sigma, Bequeath(sigma, a, heir, isNew))
<1>1. CASE Bequeath(sigma, a, heir, isNew) = sigma
  BY <1>1 DEF SameStorage
<1>2. CASE Bequeath(sigma, a, heir, isNew) # sigma
  <2> DEFINE estate  == BalanceOf(sigma, a)
             none    == [sigma[a] EXCEPT !.balance = 0]
             mid     == IF heir = a THEN sigma ELSE IncreaseBalance(sigma, heir, estate)
  <2>1. Exists(sigma, a) /\ sigma[a] \in Account
    BY <1>2, LookupType DEF Bequeath
  <2>2. Bequeath(sigma, a, heir, isNew) = [mid EXCEPT ![a] = none]
    BY <1>2, <2>1 DEF Bequeath
  <2>3. estate \in Word
    BY AccountAtType, AccountFields DEF BalanceOf
  <2>4. SameStorage(sigma, mid)
    BY <2>3, IncreaseBalanceStorage DEF SameStorage
  <2>5. none \in Account /\ none.storage = sigma[a].storage
    BY <2>1, SmallWords DEF Account
  <2> HIDE DEF mid, none
  <2>6. mid \in AccountMap /\ AccountAt(mid, a).storage = none.storage
    BY <2>1, <2>4, <2>5 DEF SameStorage, AccountAt
  <2>7. SameStorage(mid, [mid EXCEPT ![a] = none])
    BY <2>5, <2>6, WriteStorage
  <2> QED BY <2>2, <2>4, <2>7, SameStorageTransitive
<1> QED BY <1>1, <1>2

=============================================================================
