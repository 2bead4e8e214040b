-------------------------- MODULE ChainBlockProofs --------------------------
(***************************************************************************)
(* What a block of Chain makes of the state.  It changes the total of the  *)
(* ether by its withdrawals and the fee it burns.  And what the code makes *)
(* of it, transaction by transaction over a state that it has carried from *)
(* block to block, is compared with the run by the rules from the state of *)
(* its parent: an accepted block obeys the rules, and one that obeys them  *)
(* is refused for its bloom alone, or for what BLOCKHASH has answered.     *)
(***************************************************************************)
EXTENDS ChainProofs

-----------------------------------------------------------------------------
(* The ether of the accepted states                                        *)

(* What is withdrawn is summed one by one. *)
LEMMA WithdrawnSteps ==
  ASSUME NEW ws \in Seq(WithdrawalRecord)
  PROVE  \E G \in [0..Len(ws) -> Nat] :
           /\ G[0] = 0 /\ G[Len(ws)] = Withdrawn(ws)
           /\ \A k \in 1..Len(ws) : G[k] = G[k - 1] + ws[k].amount
<1> DEFINE L == Len(ws)
           g == [p \in Nat \X (1..L) |-> p[1] + ws[p[2]].amount]
           Iterates(iter) == iter = [s \in SUBSET (1..L) |->
             IF s = {} THEN 0 ELSE iter[s \ {Max(s)}] + ws[Max(s)].amount]
<1>1. L \in Nat /\ DOMAIN ws = 1..L /\ \A k \in 1..L : ws[k].amount \in Nat
  <2>1. \A k \in 1..L : ws[k] \in WithdrawalRecord
    OBVIOUS
  <2>2. \A k \in 1..L : ws[k].amount \in Nat
    BY <2>1, WordAssumption DEF WithdrawalRecord, Word
  <2> QED BY <2>2
<1>2. g \in [Nat \X (1..L) -> Nat]
  BY <1>1
<1>3. PICK f \in [SUBSET (1..L) -> Nat] : FoldsUp(f, L, 0, g)
  <2> HIDE DEF g, L
  <2> QED BY <1>1, <1>2, FoldExists
<1>4. Iterates(f)
  <2>1. ASSUME NEW s \in SUBSET (1..L), s # {}
        PROVE  g[<<f[s \ {Max(s)}], Max(s)>>] = f[s \ {Max(s)}] + ws[Max(s)].amount
    <3>1. Max(s) \in 1..L /\ s \ {Max(s)} \in SUBSET (1..L)
      BY <1>1, <2>1, MaxOfRange
    <3>2. f[s \ {Max(s)}] \in Nat
      BY <1>3, <3>1
    <3> QED BY <3>1, <3>2
  <2> HIDE DEF g
  <2>2. f = [s \in SUBSET (1..L) |-> f[s]]
    BY <1>3
  <2> QED BY <1>3, <2>1, <2>2 DEF FoldsUp
<1>5. PICK h : h = CHOOSE iter : Iterates(iter)
  OBVIOUS
<1>6. Iterates(h)
  BY <1>4, <1>5
<1>7. Withdrawn(ws) = h[1..L]
  BY <1>1, <1>5 DEF Withdrawn, FoldLeft, MapThenFoldSet
<1> DEFINE G == [k \in 0..L |-> h[1..k]]
<1>8. G[0] = 0 /\ G[L] = Withdrawn(ws)
  <2>1. 1..0 = {} /\ {} \in SUBSET (1..L)
    OBVIOUS
  <2>2. h[{}] = 0
    BY <1>6, <2>1
  <2> QED BY <1>1, <1>7, <2>1, <2>2
<1>9. ASSUME NEW k \in 1..L PROVE G[k] = G[k - 1] + ws[k].amount
  <2>1. 1..k \in SUBSET (1..L) /\ Max(1..k) = k /\ (1..k) \ {k} = 1..(k - 1) /\ 1..k # {}
    BY <1>1, MaxOfPrefix
  <2>2. h[1..k] = h[1..(k - 1)] + ws[k].amount
    <3> HIDE DEF L
    <3> QED BY <1>6, <2>1
  <2>3. G[k] = h[1..k] /\ G[k - 1] = h[1..(k - 1)]
    BY <1>1
  <2> QED BY <2>2, <2>3
<1>10. G = [k \in 0..L |-> G[k]]
  OBVIOUS
<1> HIDE DEF G, Iterates
<1>11. \A k \in 0..L : G[k] \in Nat
  <2> DEFINE Bad == {k \in 0..L : G[k] \notin Nat}
  <2> SUFFICES ASSUME Bad # {} PROVE FALSE
    OBVIOUS
  <2>1. PICK k \in Bad : \A n \in Bad : k <= n
    <3>1. Bad \subseteq Nat
      BY <1>1
    <3> HIDE DEF Bad
    <3> QED BY <3>1, LeastNumber
  <2>2. k # 0
    BY <1>8
  <2>3. k \in 1..L /\ k - 1 \in 0..L /\ k - 1 \notin Bad
    BY <1>1, <2>1, <2>2
  <2>4. G[k - 1] \in Nat /\ ws[k].amount \in Nat
    BY <1>1, <2>3
  <2> QED BY <1>9, <2>3, <2>4
<1>12. G \in [0..L -> Nat]
  BY <1>10, <1>11
<1> QED BY <1>8, <1>9, <1>12

(* Withdrawals mint what they withdraw, as long as it fits in a word. *)
LEMMA WithdrawalsTotal ==
  ASSUME NEW sigma \in AccountMap, NEW ws \in Seq(WithdrawalRecord),
         TotalBalance(sigma) + Withdrawn(ws) < WordSize
  PROVE  TotalBalance(ApplyWithdrawals(sigma, ws)) = TotalBalance(sigma) + Withdrawn(ws)
<1>1. PICK F :
        /\ F[0] = sigma /\ F[Len(ws)] = ApplyWithdrawals(sigma, ws)
        /\ \A k \in 0..Len(ws) : F[k] \in AccountMap
        /\ \A k \in 1..Len(ws) : F[k] = ApplyWithdrawal(F[k - 1], ws[k])
  BY WithdrawalSteps
<1>2. PICK G \in [0..Len(ws) -> Nat] :
        /\ G[0] = 0 /\ G[Len(ws)] = Withdrawn(ws)
        /\ \A k \in 1..Len(ws) : G[k] = G[k - 1] + ws[k].amount
  BY WithdrawnSteps
<1>3. PICK L : L = Len(ws)
  OBVIOUS
<1>4. L \in Nat /\ \A k \in 1..L : /\ ws[k].address \in Addr
                                   /\ ws[k].amount \in Word /\ ws[k].amount \in Nat
  <2>1. \A k \in 1..L : ws[k] \in WithdrawalRecord
    BY <1>3
  <2>2. \A k \in 1..L : ws[k].address \in Addr /\ ws[k].amount \in Word
    BY <2>1 DEF WithdrawalRecord
  <2> QED BY <1>3, <2>2, WordAssumption DEF Word
<1>5. TotalBalance(sigma) \in Nat /\ WordSize \in Nat
  BY TotalBounds, WordAssumption
<1>6. \A k \in 0..L : G[k] <= G[L]
  <2> DEFINE Bad == {d \in 0..L : ~(G[L - d] <= G[L])}
  <2>1. ASSUME Bad # {} PROVE FALSE
    <3>1. PICK d \in Bad : \A n \in Bad : d <= n
      <4>1. Bad \subseteq Nat
        BY <1>4
      <4> HIDE DEF Bad
      <4> QED BY <2>1, <4>1, LeastNumber
    <3>2. L \in 0..L /\ G[L] \in Nat
      BY <1>2, <1>3, <1>4
    <3>3. d # 0
      BY <1>4, <3>2
    <3>4. d - 1 \in 0..L /\ d - 1 \notin Bad /\ L - d + 1 \in 1..L
      <4>1. d \in 0..L
        OBVIOUS
      <4>2. d - 1 \in 0..L /\ ~(d <= d - 1) /\ L - d + 1 \in 1..L
        BY <1>4, <3>3, <4>1
      <4> HIDE DEF Bad
      <4> QED BY <3>1, <4>2
    <3>5. G[L - (d - 1)] <= G[L] /\ L - (d - 1) = L - d + 1
      BY <1>4, <3>4
    <3>6. G[L - d + 1] = G[L - d] + ws[L - d + 1].amount
      <4>1. (L - d + 1) - 1 = L - d
        BY <1>4
      <4> QED BY <1>2, <1>3, <3>4, <4>1
    <3>7. L - d \in 0..L /\ G[L - d] \in Nat /\ ws[L - d + 1].amount \in Nat
      BY <1>2, <1>3, <1>4, <3>4
    <3> QED BY <3>2, <3>5, <3>6, <3>7
  <2> SUFFICES ASSUME NEW k \in 0..L PROVE G[k] <= G[L]
    OBVIOUS
  <2>2. L - k \in 0..L /\ L - (L - k) = k
    BY <1>4
  <2> QED BY <2>1, <2>2
<1> DEFINE Claim(k) == TotalBalance(F[k]) = TotalBalance(sigma) + G[k]
           Wrong == {k \in 0..L : ~Claim(k)}
<1>7. ASSUME Wrong # {} PROVE FALSE
  <2>1. PICK k \in Wrong : \A n \in Wrong : k <= n
    <3>1. Wrong \subseteq Nat
      BY <1>4
    <3> HIDE DEF Wrong
    <3> QED BY <1>7, <3>1, LeastNumber
  <2>2. k # 0
    BY <1>1, <1>2, <1>5
  <2>3. k \in 1..L /\ k - 1 \in 0..L /\ k - 1 \notin Wrong /\ k \in 0..L
    BY <1>4, <2>1, <2>2
  <2>4. PICK tau, w : tau = F[k - 1] /\ w = ws[k]
    OBVIOUS
  <2>5. /\ tau \in AccountMap /\ F[k] = ApplyWithdrawal(tau, w)
        /\ w.address \in Addr /\ w.amount \in Nat
        /\ G[k - 1] \in Nat /\ G[k] = G[k - 1] + w.amount
        /\ TotalBalance(tau) = TotalBalance(sigma) + G[k - 1]
    BY <1>1, <1>2, <1>3, <1>4, <2>3, <2>4
  <2>6. TotalBalance(F[k]) = TotalBalance(tau) + w.amount
    <3>1. CASE w.amount = 0
      <4>1. F[k] = tau
        BY <2>5, <3>1 DEF ApplyWithdrawal
      <4> QED BY <2>5, <3>1, <4>1, TotalBounds
    <3>2. CASE w.amount # 0
      <4>1. F[k] = IncreaseBalance(tau, w.address, w.amount)
        BY <2>5, <3>2 DEF ApplyWithdrawal
      <4>2. /\ BalanceOf(tau, w.address) \in Nat
            /\ BalanceOf(tau, w.address) <= TotalBalance(tau)
        BY <2>5, TotalBounds
      <4>3. G[k] <= G[L] /\ G[L] = Withdrawn(ws) /\ G[k] \in Nat /\ G[L] \in Nat
        BY <1>2, <1>3, <1>4, <1>6, <2>3
      <4>4. BalanceOf(tau, w.address) + w.amount < WordSize
        BY <1>5, <2>5, <4>2, <4>3
      <4> QED BY <2>5, <4>1, <4>4, IncreaseBalanceTotal
    <3> QED BY <3>1, <3>2
  <2>7. Claim(k)
    BY <1>5, <2>5, <2>6
  <2> QED BY <2>3, <2>7
<1>8. Claim(L)
  <2>1. L \in 0..L
    BY <1>4
  <2> HIDE DEF Claim
  <2> QED BY <1>7, <2>1
<1> QED BY <1>1, <1>2, <1>3, <1>8

LEMMA StoreAllTotal ==
  ASSUME NEW sigma \in AccountMap, NEW a \in Addr, NEW x \in Values
  PROVE  TotalBalance(StoreAll(sigma, a, x)) = TotalBalance(sigma)
<1>1. CASE ~Exists(sigma, a)
  BY <1>1 DEF StoreAll
<1>2. CASE Exists(sigma, a)
  <2> DEFINE all == [k \in Slots |-> x]
             new == [sigma[a] EXCEPT !.storage = all]
  <2>1. StoreAll(sigma, a, x) = [sigma EXCEPT ![a] = new]
    BY <1>2 DEF StoreAll
  <2>2. sigma[a] \in Account /\ all \in Storage
    BY <1>2, LookupType DEF Storage
  <2>3. new \in Account /\ new.balance = sigma[a].balance
    BY <2>2 DEF Account
  <2>4. BalanceOf(sigma, a) = sigma[a].balance
    BY <1>2 DEF BalanceOf, AccountAt
  <2>5. new.balance = BalanceOf(sigma, a)
    BY <2>3, <2>4
  <2> HIDE DEF new
  <2>6. TotalBalance([sigma EXCEPT ![a] = new]) = TotalBalance(sigma)
    BY <2>3, <2>5, WriteKeepsTotal
  <2> QED BY <2>1, <2>6
<1> QED BY <1>1, <1>2

LEMMA FeeArithmetic ==
  ASSUME NEW g \in Nat, NEW l \in Nat, NEW p \in Nat, NEW b \in Nat, g <= l, b <= p
  PROVE  /\ g * p \in Nat /\ l * p \in Nat /\ g * b \in Nat /\ g * (p - b) \in Nat
         /\ g * p <= l * p /\ g * (p - b) + g * b = g * p
<1>1. PICK d \in Nat : l = g + d
  OBVIOUS
<1>2. PICK e \in Nat : p = b + e
  OBVIOUS
<1>3. l * p = g * p + d * p /\ d * p \in Nat /\ g * p \in Nat
  BY <1>1
<1>4. g * p = g * b + g * e /\ g * b \in Nat /\ g * e \in Nat /\ p - b = e
  BY <1>2
<1> QED BY <1>3, <1>4

LEMMA WordMulFits ==
  ASSUME NEW x \in Int, NEW y \in Int, x * y \in Nat, x * y < WordSize
  PROVE  WordMul(x, y) = x * y
<1>1. PICK n : n = x * y
  OBVIOUS
<1>2. n % WordSize = n
  BY <1>1, WordAssumption
<1> QED BY <1>1, <1>2 DEF WordMul

(* What a sender pays for gas is taken from the ether. *)
LEMMA ChargeTotal ==
  ASSUME NEW sigma \in AccountMap, NEW s \in Addr, NEW cost \in Nat,
         cost <= BalanceOf(sigma, s), AccountAt(sigma, s).nonce < MaxNonce
  PROVE  LET new == [AccountAt(sigma, s) EXCEPT
                       !.balance = WordSub(@, cost), !.nonce = WordAdd(@, 1)]
             tau == [sigma EXCEPT ![s] = new]
         IN  /\ tau \in AccountMap /\ Deployed(tau, s)
             /\ BalanceOf(tau, s) = BalanceOf(sigma, s) - cost
             /\ TotalBalance(tau) = TotalBalance(sigma) - cost
<1>1. PICK old, new, tau :
        /\ old = AccountAt(sigma, s)
        /\ new = [old EXCEPT !.balance = WordSub(@, cost), !.nonce = WordAdd(@, 1)]
        /\ tau = [sigma EXCEPT ![s] = new]
  OBVIOUS
<1>2. /\ old \in Account /\ old.nonce \in Nat /\ old.nonce < MaxNonce
      /\ old.balance = BalanceOf(sigma, s) /\ old.balance \in Word
  BY <1>1, AccountAtType, AccountFields, WordAssumption DEF BalanceOf, Word
<1>3. WordSub(old.balance, cost) = old.balance - cost /\ old.balance - cost \in Word
  BY <1>2, WordAssumption DEF WordSub, Word
<1>4. WordAdd(old.nonce, 1) = old.nonce + 1 /\ old.nonce + 1 \in Word
  BY <1>2, WordAssumption, NonceAssumption DEF WordAdd, Word
<1>5. /\ new.nonce = WordAdd(old.nonce, 1) /\ new.balance = WordSub(old.balance, cost)
      /\ new \in Account
  BY <1>1, <1>2, <1>3, <1>4 DEF Account
<1>6. /\ tau \in AccountMap /\ tau[s] = new /\ new # NoAccount
      /\ \A b \in Addr : b # s => tau[b] = sigma[b]
  BY <1>1, <1>5, UpdateType, AccountFields DEF AccountMap
<1>7. Exists(tau, s) /\ BalanceOf(tau, s) = new.balance
  BY <1>6 DEF Exists, BalanceOf, AccountAt
<1>8. Deployed(tau, s)
  BY <1>2, <1>4, <1>5, <1>6, <1>7 DEF Deployed
<1>9. \A b \in Addr : b # s => BalanceOf(tau, b) = BalanceOf(sigma, b)
  BY <1>6 DEF BalanceOf, AccountAt, Exists
<1>10. TotalBalance(tau) = TotalBalance(sigma) + (BalanceOf(tau, s) - BalanceOf(sigma, s))
  BY <1>6, <1>9, TotalChange
<1>11. /\ BalanceOf(tau, s) = BalanceOf(sigma, s) - cost
       /\ TotalBalance(tau) = TotalBalance(sigma) - cost
  BY <1>2, <1>3, <1>5, <1>7, <1>10, TotalBounds
<1> QED BY <1>1, <1>6, <1>8, <1>11

(* A transaction burns its base fee and moves the rest, as long as what it *)
(* may cost fits in a word and in the balance of its sender.               *)
LEMMA UpsilonTotal ==
  ASSUME NEW sigma \in AccountMap, TotalBalance(sigma) < WordSize,
         NEW b, b.baseFee \in Nat, NEW T \in TxRecord,
         NEW seen, T.asks # NoNumber => seen \in Values,
         T.gasUsed <= T.gasLimit, b.baseFee <= T.price,
         T.nonce = AccountAt(sigma, T.sender).nonce,
         T.gasLimit * T.price + T.value <= BalanceOf(sigma, T.sender)
  PROVE  TotalBalance(Upsilon(sigma, b, T, seen)) =
           TotalBalance(sigma) - T.gasUsed * b.baseFee
<1>1. /\ T.sender \in Addr /\ T.recipient \in Addr /\ T.nonce \in 0..(MaxNonce - 1)
      /\ T.value \in Word /\ T.value \in Nat /\ T.gasUsed \in Nat /\ T.gasLimit \in Nat
      /\ T.price \in Nat /\ T.fails \in BOOLEAN
  BY WordAssumption DEF TxRecord, Word
<1>2. PICK old, cost, new, charged, moved, called, fee, tau :
        /\ old = AccountAt(sigma, T.sender)
        /\ cost = WordMul(T.gasUsed, T.price)
        /\ new = [old EXCEPT !.balance = WordSub(@, cost), !.nonce = WordAdd(@, 1)]
        /\ charged = [sigma EXCEPT ![T.sender] = new]
        /\ moved = Transfer(charged, T.sender, T.recipient, T.value)
        /\ called = CASE T.fails                        -> charged
                      [] ~T.fails /\ T.asks = NoNumber  -> moved
                      [] ~T.fails /\ T.asks # NoNumber  -> StoreAll(moved, T.recipient, seen)
        /\ fee = WordMul(T.gasUsed, T.price - b.baseFee)
        /\ tau = IF fee # 0 THEN IncreaseBalance(called, Beneficiary, fee) ELSE called
  OBVIOUS
<1>3. Upsilon(sigma, b, T, seen) = tau
  BY <1>2 DEF Upsilon
<1>4. PICK most, burnt : most = T.gasLimit * T.price /\ burnt = T.gasUsed * b.baseFee
  OBVIOUS
<1>5. PICK total : total = TotalBalance(sigma)
  OBVIOUS
<1>6. /\ total \in Nat /\ total < WordSize /\ WordSize \in Nat
      /\ BalanceOf(sigma, T.sender) \in Nat /\ BalanceOf(sigma, T.sender) <= total
      /\ most + T.value <= BalanceOf(sigma, T.sender)
  BY <1>1, <1>4, <1>5, TotalBounds, WordAssumption
<1>7. /\ cost \in Nat /\ fee \in Nat /\ burnt \in Nat /\ most \in Nat
      /\ cost <= most /\ fee + burnt = cost
  <2>1. /\ T.gasUsed * T.price \in Nat /\ most \in Nat /\ burnt \in Nat
        /\ T.gasUsed * (T.price - b.baseFee) \in Nat
        /\ T.gasUsed * T.price <= most
        /\ T.gasUsed * (T.price - b.baseFee) + burnt = T.gasUsed * T.price
    BY <1>1, <1>4, FeeArithmetic
  <2>2. T.gasUsed * T.price < WordSize /\ T.gasUsed * (T.price - b.baseFee) < WordSize
    BY <1>1, <1>6, <2>1
  <2>3. T.price - b.baseFee \in Int
    BY <1>1
  <2>4. cost = T.gasUsed * T.price
    BY <1>1, <1>2, <2>1, <2>2, WordMulFits
  <2>5. fee = T.gasUsed * (T.price - b.baseFee)
    BY <1>1, <1>2, <2>1, <2>2, <2>3, WordMulFits
  <2> QED BY <2>1, <2>4, <2>5
<1>8. /\ charged \in AccountMap /\ Deployed(charged, T.sender)
       /\ BalanceOf(charged, T.sender) = BalanceOf(sigma, T.sender) - cost
       /\ TotalBalance(charged) = total - cost
  <2>1. /\ cost \in Nat /\ cost <= BalanceOf(sigma, T.sender)
        /\ AccountAt(sigma, T.sender).nonce < MaxNonce
    BY <1>1, <1>6, <1>7, NonceAssumption
  <2> QED BY <1>1, <1>2, <1>5, <2>1, ChargeTotal
<1>9. moved \in AccountMap /\ TotalBalance(moved) = total - cost
  <2>1. T.value <= BalanceOf(charged, T.sender)
    BY <1>1, <1>6, <1>7, <1>8
  <2>2. TotalBalance(charged) < WordSize
    BY <1>6, <1>7, <1>8
  <2>3. TotalBalance(moved) = TotalBalance(charged)
    BY <1>1, <1>2, <1>8, <2>1, <2>2, TransferTotal
  <2>4. Extends(charged, moved, WordSize)
    BY <1>1, <1>2, <1>6, <1>8, WordNonces, TransferExtends
  <2> QED BY <1>8, <2>3, <2>4 DEF Extends
<1>10. called \in AccountMap /\ TotalBalance(called) = total - cost
  <2>1. CASE T.fails
    BY <1>2, <1>8, <2>1
  <2>2. CASE ~T.fails /\ T.asks = NoNumber
    <3>1. called = moved
      BY <1>2, <2>2, Zenon
    <3> QED BY <1>9, <3>1
  <2>3. CASE ~T.fails /\ T.asks # NoNumber
    <3>1. called = StoreAll(moved, T.recipient, seen)
      BY <1>2, <2>3
    <3>2. Ages(moved, called)
      BY <1>1, <1>9, <2>3, <3>1, StoreAllAges
    <3>3. TotalBalance(called) = TotalBalance(moved)
      BY <1>1, <1>9, <2>3, <3>1, StoreAllTotal
    <3> QED BY <1>9, <3>2, <3>3 DEF Ages
  <2> QED BY <1>1, <2>1, <2>2, <2>3
<1>11. TotalBalance(tau) = total - burnt
  <2>1. CASE fee = 0
    BY <1>2, <1>6, <1>7, <1>10, <2>1
  <2>2. CASE fee # 0
    <3>1. tau = IncreaseBalance(called, Beneficiary, fee) /\ Beneficiary \in Addr
      BY <1>2, <2>2, ChainAssumption
    <3>2. BalanceOf(called, Beneficiary) + fee < WordSize
      <4>1. /\ BalanceOf(called, Beneficiary) \in Nat
            /\ BalanceOf(called, Beneficiary) <= TotalBalance(called)
        BY <1>10, <3>1, TotalBounds
      <4> QED BY <1>6, <1>7, <1>10, <4>1
    <3>3. TotalBalance(tau) = TotalBalance(called) + fee
      BY <1>7, <1>10, <3>1, <3>2, IncreaseBalanceTotal
    <3> QED BY <1>6, <1>7, <1>10, <3>3
  <2> QED BY <2>1, <2>2
<1> QED BY <1>3, <1>4, <1>5, <1>11

(* The accepted state of a block leaves room for what the blocks that can  *)
(* still be built on it withdraw.                                          *)
SupplyOK ==
  \A i \in DOMAIN blocks, draft \in Drafts :
    TotalBalance(blocks[i].sigma)
      + (MaxBlocks + 1 - blocks[i].hash) * Withdrawn(draft.withdrawals) < WordSize

(* The ether of the block in hand so far. *)
WorkEther ==
  phase \in {"transactions", "validate"} =>
    TotalBalance(work.accountMap) =
      TotalBalance(headers[Block.parent].stateRoot)
        + (IF phase = "validate" THEN Withdrawn(Block.withdrawals) ELSE 0)
        - work.gasUsed * Block.baseFee

BInv == NInv /\ SupplyOK /\ WorkEther /\ BlockEther

LEMMA WithdrawnType ==
  ASSUME NEW ws \in Seq(WithdrawalRecord)
  PROVE  Withdrawn(ws) \in Nat
<1>1. PICK G \in [0..Len(ws) -> Nat] : G[Len(ws)] = Withdrawn(ws)
  BY WithdrawnSteps
<1>2. Len(ws) \in 0..Len(ws)
  OBVIOUS
<1> QED BY <1>1, <1>2

(* Room for m times the larger of w and v is room for w once, and for v    *)
(* less than m times more.                                                 *)
LEMMA RoomForBoth ==
  ASSUME NEW t \in Nat, NEW S \in Nat, NEW w \in Nat, NEW v \in Nat,
         NEW m \in Nat, NEW k \in Nat, m >= k + 1,
         t + m * w < S, t + m * v < S
  PROVE  t + w + k * v < S
<1>1. PICK e \in Nat : m = k + 1 + e
  OBVIOUS
<1>2. /\ m * w = k * w + w + e * w /\ m * v = k * v + v + e * v
      /\ k * w \in Nat /\ k * v \in Nat /\ e * w \in Nat /\ e * v \in Nat
  BY <1>1
<1>3. CASE v <= w
  <2>1. PICK d \in Nat : w = v + d
    BY <1>3
  <2>2. k * w = k * v + k * d /\ k * d \in Nat
    BY <2>1
  <2> QED BY <1>2, <2>2
<1>4. CASE w <= v
  BY <1>2, <1>4
<1> QED BY <1>3, <1>4

(* What the block in hand withdraws fits on the state of its parent, and   *)
(* leaves room for what later blocks withdraw.                             *)
LEMMA InHandSupply ==
  ASSUME BInv, phase \in {"transactions", "validate"}
  PROVE  LET start == TotalBalance(headers[Block.parent].stateRoot)
             mint  == Withdrawn(Block.withdrawals)
         IN  /\ start \in Nat /\ mint \in Nat /\ start + mint < WordSize
             /\ \A draft \in Drafts :
                  start + mint
                    + (MaxBlocks + 1 - current.hash) * Withdrawn(draft.withdrawals) < WordSize
<1>1. PICK c, p, start, mint :
        /\ c = current.hash /\ p = Block.parent
        /\ start = TotalBalance(headers[p].stateRoot)
        /\ mint = Withdrawn(Block.withdrawals)
  OBVIOUS
<1>2. NInv
  BY DEF BInv
<1>3. /\ c \in DOMAIN headers /\ p \in DOMAIN headers /\ Block = headers[c]
      /\ Block.withdrawals \in Seq(WithdrawalRecord)
  BY <1>1, <1>2, InHandDrafted DEF Block
<1>4. PICK own \in Drafts : Block.withdrawals = own.withdrawals
  BY <1>2, InHandDrafted
<1>5. PICK i \in DOMAIN blocks : blocks[i].hash = p
  BY <1>1, <1>2, InHandDrafted
<1>6. start = TotalBalance(blocks[i].sigma) /\ start \in Nat
  <2>1. blocks[i].sigma = headers[p].stateRoot /\ blocks[i].sigma \in AccountMap
    BY <1>2, <1>5 DEF NInv, VInv, StatesOK, StatesUsed
  <2> QED BY <1>1, <2>1, TotalBounds
<1>7. mint \in Nat /\ WordSize \in Nat /\ MaxBlocks \in Nat
  BY <1>1, <1>3, WithdrawnType, WordAssumption, ChainAssumption
<1>8. c \in 1..(MaxBlocks + 1) /\ p \in 1..(c - 1)
  <2>1. Len(headers) <= MaxBlocks + 1 /\ Len(headers) \in Nat /\ DOMAIN headers = 1..Len(headers)
    BY <1>2, AppendFacts DEF NInv, LInv, CInv, HeadersOK, HeadersMade
  <2>2. p \in 0..(c - 1)
    BY <1>1, <1>2, <1>3 DEF NInv, LInv, HeadersMade
  <2> QED BY <1>3, <1>7, <2>1, <2>2
<1>9. PICK m, k : m = MaxBlocks + 1 - p /\ k = MaxBlocks + 1 - c
  OBVIOUS
<1>10. m \in Nat /\ k \in Nat /\ m >= k + 1
  BY <1>7, <1>8, <1>9
<1>11. \A draft \in Drafts : start + m * Withdrawn(draft.withdrawals) < WordSize
  BY <1>5, <1>6, <1>9 DEF BInv, SupplyOK
<1>12. start + m * mint < WordSize
  BY <1>1, <1>4, <1>11
<1>13. ASSUME NEW draft \in Drafts
       PROVE  start + mint + k * Withdrawn(draft.withdrawals) < WordSize
  <2>1. Withdrawn(draft.withdrawals) \in Nat
    BY DraftAssumption, WithdrawnType
  <2>2. start + m * Withdrawn(draft.withdrawals) < WordSize
    BY <1>11
  <2> QED BY <1>6, <1>7, <1>10, <1>12, <2>1, <2>2, RoomForBoth
<1>14. start + mint < WordSize
  <2>1. m * mint >= mint
    <3>1. PICK e \in Nat : m = e + 1
      BY <1>10
    <3>2. m * mint = e * mint + mint /\ e * mint \in Nat
      BY <1>7, <3>1
    <3> QED BY <1>7, <3>2
  <2>2. m * mint \in Nat
    BY <1>7, <1>10
  <2> QED BY <1>6, <1>7, <1>12, <2>1, <2>2
<1> QED BY <1>1, <1>6, <1>7, <1>9, <1>13, <1>14

LEMMA BInvInit == Init /\ WordsSuffice => BInv
<1> SUFFICES ASSUME Init, WordsSuffice PROVE BInv
  OBVIOUS
<1>1. blocks = <<[hash |-> 1, sigma |-> Genesis]>> /\ phase = "idle"
  BY DEF Init
<1>2. DOMAIN blocks = {1} /\ Len(blocks) = 1 /\ blocks[1].hash = 1 /\ blocks[1].sigma = Genesis
  BY <1>1
<1>3. SupplyOK
  <2>1. MaxBlocks + 1 - 1 = MaxBlocks
    BY ChainAssumption
  <2>2. \A draft \in Drafts :
          TotalBalance(Genesis) + MaxBlocks * Withdrawn(draft.withdrawals) < WordSize
    BY DEF WordsSuffice
  <2> QED BY <1>2, <2>1, <2>2 DEF SupplyOK
<1>4. BlockEther
  <2>1. 2..Len(blocks) = {}
    BY <1>2
  <2> QED BY <2>1, Zenon DEF BlockEther
<1> QED BY <1>1, <1>3, <1>4, NInvInit DEF BInv, WorkEther

(* The ether of b, a child of parent with the state sigma. *)
EtherBalanced(parent, b, sigma) ==
  TotalBalance(sigma) =
    TotalBalance(parent.stateRoot) + Withdrawn(b.withdrawals) - b.gasUsed * b.baseFee

LEMMA BlocksBalanced ==
  ASSUME NEW i \in 2..Len(blocks), BlockEther
  PROVE  EtherBalanced(headers[headers[blocks[i].hash].parent], headers[blocks[i].hash],
                       blocks[i].sigma)
BY Zenon DEF BlockEther, EtherBalanced

(* The headers that are there stay, and no block is accepted. *)
LEMMA EtherKept ==
  ASSUME BInv, NInv', blocks' = blocks, WorkEther',
         \A h \in DOMAIN headers : headers'[h] = headers[h]
  PROVE  BInv'
<1>1. SupplyOK'
  BY DEF BInv, SupplyOK
<1>2. DOMAIN blocks = 1..Len(blocks) /\ \A i \in DOMAIN blocks : blocks[i].hash \in DOMAIN headers
  BY DEF BInv, NInv, LInv, CInv, BlocksOK
<1>3. \A i \in 2..Len(blocks) :
        /\ headers'[blocks[i].hash] = headers[blocks[i].hash]
        /\ headers'[headers[blocks[i].hash].parent] = headers[headers[blocks[i].hash].parent]
  BY <1>2 DEF BInv, NInv, FInv, FeesOK
<1>4. \A i \in 2..Len(blocks') :
        EtherBalanced(headers'[headers'[blocks'[i].hash].parent], headers'[blocks'[i].hash],
                      blocks'[i].sigma)
  BY <1>3, BlocksBalanced DEF BInv
<1>5. BlockEther'
  BY <1>4, Zenon DEF BlockEther, EtherBalanced
<1> QED BY <1>1, <1>5 DEF BInv

LEMMA BeginEther ==
  ASSUME BInv, NInv', BeginBlock
  PROVE  BInv'
<1>1. /\ UNCHANGED <<headers, blocks, acc, current, next>>
      /\ phase = "header" /\ phase' = "transactions" /\ EarlyError = NoException
      /\ work' = [acc EXCEPT !.accountMap = BeaconCall(Found(Block.parent).sigma, Block),
                             !.gasUsed = 0,
                             !.receipts = <<>>]
  BY DEF BeginBlock
<1>2. NInv
  BY DEF BInv
<1>3. PICK i \in DOMAIN blocks : Found(Block.parent) = blocks[i] /\ blocks[i].hash = Block.parent
  BY <1>1, <1>2, EarlyErrorNone, FoundHasHash DEF NInv, VInv, CInv
<1>4. PICK sigma, tau : sigma = blocks[i].sigma /\ tau = BeaconCall(sigma, Block)
  OBVIOUS
<1>5. work'.accountMap = tau /\ work'.gasUsed = 0
  <2>1. {"accountMap", "gasUsed"} \subseteq DOMAIN acc
    BY <1>2 DEF NInv, FInv, GInv, FieldsOK, StateFields
  <2> QED BY <1>1, <1>3, <1>4, <2>1
<1>6. sigma \in AccountMap /\ sigma = headers[Block.parent].stateRoot
  BY <1>2, <1>3, <1>4 DEF NInv, StatesUsed, VInv, StatesOK
<1>7. Block.number \in Values
  <2>1. current.hash \in DOMAIN headers
    BY <1>1, <1>2 DEF NInv, FInv, GInv, CInv, InHandOK
  <2>2. Block.number \in 0..(2 * MaxBlocks)
    BY <1>2, <2>1, InHandTyped
  <2> QED BY <2>2, ChainAssumption, HashAssumption
<1>8. TotalBalance(tau) = TotalBalance(sigma) /\ TotalBalance(sigma) \in Nat
  BY <1>4, <1>6, <1>7, ChainAssumption, StoreAllTotal, TotalBounds DEF BeaconCall
<1>9. Block' = Block
  BY <1>1 DEF Block
<1>10. Block.baseFee \in Nat
  <2>1. current.hash \in DOMAIN headers
    BY <1>1, <1>2 DEF NInv, FInv, GInv, CInv, InHandOK
  <2>2. Block.parent \in Accepted /\ HeaderError(headers[Block.parent], Block) = NoException
    BY <1>1, EarlyErrorNone, EarlyChecks
  <2> QED BY <1>2, <2>1, <2>2, HeaderFee DEF NInv
<1>11. WorkEther'
  <2>1. TotalBalance(work'.accountMap) =
          TotalBalance(headers[Block.parent].stateRoot) + 0 - work'.gasUsed * Block.baseFee
    BY <1>5, <1>6, <1>8, <1>10
  <2>2. phase' # "validate"
    BY <1>1
  <2> QED BY <1>1, <1>9, <2>1, <2>2, Zenon DEF WorkEther
<1> QED BY <1>1, <1>11, EtherKept

(* The sender of a transaction that is let through can pay for it. *)
LEMMA SenderCanPay ==
  ASSUME WordsSuffice, NEW draft \in Drafts, NEW n \in DOMAIN draft.txs,
         NEW T, T = draft.txs[n], T \in TxRecord,
         NEW s, NEW b, TransactionError(s, b, T) = NoException,
         s.accountMap \in AccountMap
  PROVE  T.gasLimit * T.price + T.value <= BalanceOf(s.accountMap, T.sender)
<1>1. /\ T.gasLimit \in Nat /\ T.price \in Nat /\ T.value \in Nat /\ T.sender \in Addr
      /\ WordSize \in Nat
  BY WordAssumption DEF TxRecord, Word
<1>2. PICK most : most = T.gasLimit * T.price
  OBVIOUS
<1>3. most \in Nat /\ most + T.value < WordSize
  <2>1. most \in Nat
    BY <1>1, <1>2
  <2> QED BY <1>2, <2>1 DEF WordsSuffice
<1>4. WordMul(T.gasLimit, T.price) = most
  <2>1. most < WordSize
    BY <1>1, <1>3
  <2> QED BY <1>1, <1>2, <1>3, <2>1, WordMulFits
<1>5. WordAdd(WordMul(T.gasLimit, T.price), T.value) = most + T.value
  BY <1>3, <1>4 DEF WordAdd
<1>6. ~(most + T.value > AccountAt(s.accountMap, T.sender).balance)
  BY <1>5, TransactionChecks
<1>7. AccountAt(s.accountMap, T.sender).balance = BalanceOf(s.accountMap, T.sender)
  BY DEF BalanceOf
<1>8. BalanceOf(s.accountMap, T.sender) \in Nat
  BY <1>1, TotalBounds
<1> QED BY <1>1, <1>2, <1>3, <1>6, <1>7, <1>8

LEMMA ExecuteEther ==
  ASSUME BInv, NInv', WordsSuffice, ExecuteTransaction
  PROVE  BInv'
<1>1. PICK T, seen, sigma, tau :
        /\ T = Block.txs[next] /\ seen = BlockHash(Block.number, T.asks)
        /\ sigma = work.accountMap /\ tau = Upsilon(sigma, Block, T, seen)
  OBVIOUS
<1>2. /\ UNCHANGED <<headers, blocks, acc, current, phase>>
      /\ phase = "transactions" /\ next <= Len(Block.txs)
      /\ TransactionError(work, Block, T) = NoException
      /\ work'.accountMap = tau /\ work'.gasUsed = work.gasUsed + T.gasUsed
  BY <1>1 DEF ExecuteTransaction, Transaction, Executed
<1>3. NInv
  BY DEF BInv
<1>4. sigma \in AccountMap
  BY <1>1, <1>2, <1>3 DEF NInv, WorkUsed
<1>5. /\ current.hash \in DOMAIN headers
      /\ Block.txs \in Seq(TxRecord) /\ Block.number \in 0..(2 * MaxBlocks)
  BY <1>2, <1>3, InHandDrafted, InHandTyped
<1>6. next \in DOMAIN Block.txs /\ T \in TxRecord
  <2>1. next \in Nat /\ next >= 1
    BY <1>2, <1>3 DEF NInv, FInv, GInv, InHandGas, GasSoFar
  <2>2. next \in 1..Len(Block.txs)
    BY <1>2, <1>5, <2>1
  <2> QED BY <1>1, <1>5, <2>2
<1>7. PICK draft \in Drafts : Block.txs = draft.txs
  BY <1>2, <1>3, InHandDrafted
<1>8. T.gasLimit * T.price + T.value <= BalanceOf(sigma, T.sender)
  <2>1. next \in DOMAIN draft.txs /\ T = draft.txs[next]
    BY <1>1, <1>6, <1>7
  <2> QED BY <1>1, <1>2, <1>4, <1>6, <2>1, SenderCanPay
<1>9. /\ T.gasUsed \in Nat /\ T.price \in Nat /\ T.gasUsed <= T.gasLimit
      /\ Block.baseFee \in Nat /\ Block.baseFee <= T.price
  <2>1. T.gasUsed <= T.gasLimit
    BY <1>1, <1>6, <1>7, GasAssumption
  <2>2. ~(Block.baseFee > T.price)
    BY <1>2, TransactionChecks
  <2>3. Block.baseFee \in Nat
    BY <1>2, <1>3, InHandFee DEF NInv
  <2>4. T.gasUsed \in Nat /\ T.price \in Nat
    BY <1>6 DEF TxRecord
  <2> QED BY <2>1, <2>2, <2>3, <2>4
<1>10. T.nonce = AccountAt(sigma, T.sender).nonce
  <2>1. ~(T.nonce < AccountAt(sigma, T.sender).nonce) /\ ~(T.nonce > AccountAt(sigma, T.sender).nonce)
    BY <1>1, <1>2, TransactionChecks
  <2>2. T.nonce \in Nat /\ T.sender \in Addr
    BY <1>6 DEF TxRecord
  <2>3. AccountAt(sigma, T.sender).nonce \in Nat
    BY <1>4, <2>2, NonceAt
  <2> QED BY <2>1, <2>2, <2>3
<1>11. T.asks # NoNumber => seen \in Values
  <2> SUFFICES ASSUME T.asks # NoNumber PROVE seen \in Values
    OBVIOUS
  <2>1. T.asks \in Nat
    BY <1>6 DEF TxRecord
  <2> QED BY <1>1, <1>3, <1>5, <2>1, HashesAreValues
<1>12. PICK start, fee, gas :
         /\ start = TotalBalance(headers[Block.parent].stateRoot)
         /\ fee = Block.baseFee /\ gas = work.gasUsed
  OBVIOUS
<1>13. /\ start \in Nat /\ start < WordSize /\ gas \in Nat /\ fee \in Nat /\ WordSize \in Nat
       /\ TotalBalance(sigma) \in Nat /\ TotalBalance(sigma) = start - gas * fee
  <2>1. start \in Nat /\ WordSize \in Nat
    BY <1>2, <1>12, InHandSupply, WordAssumption
  <2>2. start < WordSize
    <3>1. PICK mint : mint = Withdrawn(Block.withdrawals)
      OBVIOUS
    <3>2. mint \in Nat /\ start + mint < WordSize
      BY <1>2, <1>12, <3>1, InHandSupply
    <3> QED BY <2>1, <3>2
  <2>3. gas \in Nat
    BY <1>2, <1>3, <1>12, GasSoFarNat DEF NInv, FInv, GInv, InHandGas
  <2>4. TotalBalance(sigma) = start + 0 - gas * fee
    BY <1>1, <1>2, <1>12 DEF BInv, WorkEther
  <2> QED BY <1>4, <1>9, <1>12, <2>1, <2>2, <2>3, <2>4, TotalBounds
<1>14. TotalBalance(tau) = TotalBalance(sigma) - T.gasUsed * fee
  <2>1. TotalBalance(sigma) < WordSize
    <3>1. gas * fee \in Nat
      BY <1>13
    <3> QED BY <1>13, <3>1
  <2> QED BY <1>1, <1>4, <1>6, <1>8, <1>9, <1>10, <1>11, <1>12, <2>1, UpsilonTotal
<1>15. TotalBalance(tau) = start + 0 - (gas + T.gasUsed) * fee
  <2>1. (gas + T.gasUsed) * fee = gas * fee + T.gasUsed * fee
    BY <1>9, <1>13
  <2>2. gas * fee \in Nat /\ T.gasUsed * fee \in Nat
    BY <1>9, <1>13
  <2> QED BY <1>13, <1>14, <2>1, <2>2
<1>16. WorkEther'
  <2>1. Block' = Block /\ headers' = headers /\ phase' = "transactions"
    BY <1>2 DEF Block
  <2>2. TotalBalance(work'.accountMap) =
          TotalBalance(headers[Block.parent].stateRoot) + 0 - work'.gasUsed * Block.baseFee
    BY <1>2, <1>12, <1>15, Zenon
  <2>3. phase' # "validate"
    BY <2>1
  <2> QED BY <2>1, <2>2, <2>3, Zenon DEF WorkEther
<1> QED BY <1>2, <1>16, EtherKept

LEMMA WithdrawEther ==
  ASSUME BInv, NInv', Withdraw
  PROVE  BInv'
<1>1. PICK sigma, tau, ws :
        /\ sigma = work.accountMap /\ ws = Block.withdrawals
        /\ tau = ApplyWithdrawals(sigma, ws)
  OBVIOUS
<1>2. /\ UNCHANGED <<headers, blocks, acc, current, next>>
      /\ phase = "transactions" /\ phase' = "validate"
      /\ work' = [work EXCEPT !.accountMap = ApplyWithdrawals(@, Block.withdrawals)]
  BY DEF Withdraw
<1>3. NInv
  BY DEF BInv
<1>4. work'.accountMap = tau /\ work'.gasUsed = work.gasUsed
  <2>1. {"accountMap", "gasUsed"} \subseteq DOMAIN work
    BY <1>3 DEF NInv, FInv, GInv, FieldsOK, StateFields
  <2> QED BY <1>1, <1>2, <2>1
<1>5. sigma \in AccountMap /\ ws \in Seq(WithdrawalRecord)
  BY <1>1, <1>2, <1>3, InHandDrafted DEF NInv, WorkUsed
<1>6. PICK start, mint, burnt :
        /\ start = TotalBalance(headers[Block.parent].stateRoot)
        /\ mint = Withdrawn(ws) /\ burnt = work.gasUsed * Block.baseFee
  OBVIOUS
<1>7. /\ start \in Nat /\ mint \in Nat /\ start + mint < WordSize
      /\ burnt \in Nat /\ WordSize \in Nat
  <2>1. start \in Nat /\ mint \in Nat /\ start + mint < WordSize
    BY <1>1, <1>2, <1>6, InHandSupply
  <2>2. work.gasUsed \in Nat
    BY <1>2, <1>3, GasSoFarNat DEF NInv, FInv, GInv, InHandGas
  <2>3. Block.baseFee \in Nat
    BY <1>2, <1>3, InHandFee DEF NInv
  <2>4. burnt \in Nat
    BY <1>6, <2>2, <2>3
  <2> QED BY <2>1, <2>4, WordAssumption
<1>8. TotalBalance(sigma) = start + 0 - burnt
  BY <1>1, <1>2, <1>6 DEF BInv, WorkEther
<1>9. TotalBalance(tau) = start + mint - burnt
  <2>1. TotalBalance(sigma) + Withdrawn(ws) < WordSize
    BY <1>6, <1>7, <1>8
  <2>2. TotalBalance(tau) = TotalBalance(sigma) + mint
    BY <1>1, <1>5, <1>6, <2>1, WithdrawalsTotal
  <2> QED BY <1>7, <1>8, <2>2
<1>10. WorkEther'
  <2>1. Block' = Block /\ headers' = headers
    BY <1>2 DEF Block
  <2>2. TotalBalance(work'.accountMap) =
          TotalBalance(headers[Block.parent].stateRoot)
            + Withdrawn(Block.withdrawals) - work'.gasUsed * Block.baseFee
    BY <1>1, <1>4, <1>6, <1>9, Zenon
  <2> QED BY <1>2, <2>1, <2>2, Zenon DEF WorkEther
<1> QED BY <1>2, <1>10, EtherKept

LEMMA AcceptEther ==
  ASSUME BInv, NInv', AcceptBlock
  PROVE  BInv'
<1>1. PICK entry : entry = [hash |-> current.hash, sigma |-> work.accountMap]
  OBVIOUS
<1>2. /\ blocks' = Append(blocks, entry) /\ headers' = headers
      /\ phase = "validate" /\ phase' = "idle" /\ LateError = NoException
  BY <1>1 DEF AcceptBlock, Idle
<1>3. NInv
  BY DEF BInv
<1>4. /\ Len(blocks) \in Nat /\ DOMAIN blocks = 1..Len(blocks)
      /\ DOMAIN blocks' = 1..(Len(blocks) + 1) /\ Len(blocks') = Len(blocks) + 1
      /\ \A i \in 1..Len(blocks) : blocks'[i] = blocks[i]
      /\ blocks'[Len(blocks) + 1] = entry
  <2>1. \E S : blocks \in Seq(S)
    BY <1>3 DEF NInv, LInv, CInv, BlocksOK
  <2> QED BY <1>2, <2>1, AppendFacts
<1>5. PICK b, start, mint :
        /\ b = Block /\ start = TotalBalance(headers[b.parent].stateRoot)
        /\ mint = Withdrawn(b.withdrawals)
  OBVIOUS
<1>6. headers[entry.hash] = b
  BY <1>1, <1>5 DEF Block
<1>7. TotalBalance(entry.sigma) = start + mint - b.gasUsed * b.baseFee
  <2>1. TotalBalance(work.accountMap) = start + mint - work.gasUsed * b.baseFee
    BY <1>2, <1>5 DEF BInv, WorkEther
  <2>2. b.gasUsed = work.gasUsed
    BY <1>2, <1>5, LateErrorNone
  <2> QED BY <1>1, <2>1, <2>2
<1>8. EtherBalanced(headers[b.parent], b, entry.sigma)
  BY <1>5, <1>7 DEF EtherBalanced
<1>9. ASSUME NEW i \in 2..Len(blocks')
      PROVE  EtherBalanced(headers[headers[blocks'[i].hash].parent], headers[blocks'[i].hash],
                           blocks'[i].sigma)
  <2>1. CASE i \in 2..Len(blocks)
    BY <1>4, <2>1, BlocksBalanced DEF BInv
  <2>2. CASE i = Len(blocks) + 1
    BY <1>4, <1>6, <1>8, <2>2
  <2> QED BY <1>4, <2>1, <2>2
<1>10. BlockEther'
  BY <1>2, <1>9, Zenon DEF BlockEther, EtherBalanced
<1>11. ASSUME NEW draft \in Drafts
       PROVE  TotalBalance(entry.sigma)
                + (MaxBlocks + 1 - entry.hash) * Withdrawn(draft.withdrawals) < WordSize
  <2>1. PICK burnt, room :
          /\ burnt = b.gasUsed * b.baseFee
          /\ room = (MaxBlocks + 1 - entry.hash) * Withdrawn(draft.withdrawals)
    OBVIOUS
  <2>2. start \in Nat /\ mint \in Nat /\ start + mint + room < WordSize
    BY <1>1, <1>2, <1>5, <2>1, InHandSupply
  <2>3. burnt \in Nat
    <3>1. b.gasUsed \in Nat
      BY <1>2, <1>3, <1>5, LateErrorNone, GasSoFarNat DEF NInv, FInv, GInv, InHandGas
    <3>2. b.baseFee \in Nat
      BY <1>2, <1>3, <1>5, InHandFee DEF NInv
    <3> QED BY <2>1, <3>1, <3>2
  <2>4. room \in Int
    <3>1. Withdrawn(draft.withdrawals) \in Nat
      BY DraftAssumption, WithdrawnType
    <3>2. entry.hash \in Int /\ MaxBlocks \in Int
      <4>1. current.hash \in DOMAIN headers
        BY <1>2, <1>3, InHandDrafted
      <4>2. DOMAIN headers = 1..Len(headers)
        BY <1>3, AppendFacts DEF NInv, LInv, CInv, HeadersOK
      <4> QED BY <1>1, <4>1, <4>2, ChainAssumption
    <3>3. MaxBlocks + 1 - entry.hash \in Int
      BY <3>2
    <3> QED BY <2>1, <3>1, <3>3
  <2>5. TotalBalance(entry.sigma) = start + mint - burnt
    BY <1>7, <2>1
  <2> QED BY <2>1, <2>2, <2>3, <2>4, <2>5, WordAssumption
<1>12. SupplyOK'
  <2>1. ASSUME NEW i \in DOMAIN blocks', NEW draft \in Drafts
        PROVE  TotalBalance(blocks'[i].sigma)
                 + (MaxBlocks + 1 - blocks'[i].hash) * Withdrawn(draft.withdrawals) < WordSize
    <3>1. CASE i \in DOMAIN blocks
      BY <1>4, <3>1 DEF BInv, SupplyOK
    <3>2. CASE i = Len(blocks) + 1
      BY <1>4, <1>11, <3>2
    <3> QED BY <1>4, <3>1, <3>2
  <2> QED BY <2>1, Zenon DEF SupplyOK
<1> QED BY <1>2, <1>10, <1>12 DEF BInv, WorkEther

LEMMA BInvStep == BInv /\ WordsSuffice /\ [Next]_chainVars => BInv'
<1> SUFFICES ASSUME BInv, WordsSuffice, [Next]_chainVars PROVE BInv'
  OBVIOUS
<1>0. NInv'
  BY NInvStep DEF BInv
<1>1. ASSUME NEW p \in DOMAIN headers, NEW draft \in Drafts,
             NEW expects \in Expectations, TakeNewBlock(p, draft, expects)
      PROVE  BInv'
  <2>1. /\ phase' = "header" /\ blocks' = blocks
        /\ \E b : headers' = Append(headers, b)
    BY <1>1 DEF TakeNewBlock, Take
  <2>2. \A h \in DOMAIN headers : headers'[h] = headers[h]
    BY <2>1, AppendFacts DEF BInv, NInv, LInv, CInv, HeadersOK
  <2> QED BY <1>0, <2>1, <2>2, EtherKept DEF WorkEther
<1>2. ASSUME UNCHANGED <<headers, blocks>>, WorkEther'
      PROVE  BInv'
  BY <1>0, <1>2, EtherKept
<1>3. ASSUME NEW h \in DOMAIN headers, NEW expects \in Expectations,
             TakeOldBlock(h, expects)
      PROVE  BInv'
  BY <1>2, <1>3 DEF TakeOldBlock, Take, WorkEther
<1>4. ASSUME NEW last, NEW kind, EndTest(last, kind)
      PROVE  BInv'
  <2>1. UNCHANGED <<headers, blocks>> /\ phase' \in {"passed", "failed"}
    BY <1>4 DEF EndTest
  <2> QED BY <1>2, <2>1 DEF WorkEther
<1>5. CASE \/ RefuseHeader \/ RefuseTransaction \/ RefuseBlock
           \/ CatchExpected \/ CatchUnexpected
  <2>1. UNCHANGED <<headers, blocks>> /\ phase' \in {"catch", "idle", "failed"}
    BY <1>5 DEF RefuseHeader, RefuseTransaction, RefuseBlock, Throw,
       CatchExpected, CatchUnexpected, Idle
  <2> QED BY <1>2, <2>1 DEF WorkEther
<1>6. CASE UNCHANGED chainVars
  BY <1>2, <1>6 DEF BInv, WorkEther, Block, chainVars
<1> QED BY <1>0, <1>1, <1>3, <1>4, <1>5, <1>6, BeginEther, ExecuteEther, WithdrawEther,
        AcceptEther DEF Next, Author, Runner

(* As long as no sum of a test outgrows a word, an accepted block changes  *)
(* the ether of its parent's state by its withdrawals and its base fees    *)
(* alone (executeTransaction, applyWithdrawals).                           *)
THEOREM EtherOfBlocks == WordsSuffice => (Spec => []BlockEther)
<1> SUFFICES ASSUME WordsSuffice PROVE Spec => []BlockEther
  OBVIOUS
<1>1. Init => BInv
  BY BInvInit
<1>2. BInv /\ [Next]_chainVars => BInv'
  BY BInvStep
<1>3. BInv => BlockEther
  BY DEF BInv
<1> QED BY <1>1, <1>2, <1>3, PTL DEF Spec

-----------------------------------------------------------------------------
(* The run by the rules, step by step                                      *)

(* AncestorHash and RuleRun, with the headers hs. *)
HashIn(hs, b, n) ==
  IF b.number <= n \/ n + HashWindow < b.number THEN NoHash
                                                ELSE AncestorsOf(hs, n)[b.parent]

RunStart(hs, b) ==
  [accountMap |-> BeaconCall(hs[b.parent].stateRoot, b),
   gasUsed |-> 0, receipts |-> <<>>, logs |-> {}]

RunStep(hs, b, r, T) ==
  LET s == Executed(r, b, T, HashIn(hs, b, T.asks))
  IN  [s EXCEPT !.logs = @ \cup r.logs]

RunOf(hs, b) == FoldLeft(LAMBDA r, T : RunStep(hs, b, r, T), RunStart(hs, b), b.txs)

(* After the first n transactions. *)
RunAt(hs, b, n) == RunOf(hs, [b EXCEPT !.txs = SubSeq(@, 1, n)])

LEMMA RuleRunIs ==
  ASSUME NEW b
  PROVE  RuleRun(b) = RunOf(headers, b)
BY DEF RuleRun, RunOf, RunStart, RunStep, HashIn, AncestorHash, AncestorAt, AncestorsOf

LEMMA AncestorHashIs ==
  ASSUME NEW b, NEW n
  PROVE  AncestorHash(b, n) = HashIn(headers, b, n)
BY DEF HashIn, AncestorHash, AncestorAt, AncestorsOf

RunStates ==
  [accountMap : AccountMap, gasUsed : Nat,
   receipts : Seq([ok : BOOLEAN, gas : Nat, logs : SUBSET Addr]), logs : SUBSET Addr]

(* The rules are applied to a block as the code applies its own. *)
RunTyped(hs, b) ==
  /\ DOMAIN b = HeaderFields
  /\ b.txs \in Seq(TxRecord) /\ b.baseFee \in Int
  /\ b.number \in Values /\ hs[b.parent].stateRoot \in AccountMap
  /\ \A k \in DOMAIN b.txs :
       b.txs[k].asks # NoNumber => HashIn(hs, b, b.txs[k].asks) \in Values

Runs(hs, b, F) ==
  /\ F[0] = RunStart(hs, b)
  /\ \A k \in 1..Len(b.txs) : F[k] = RunStep(hs, b, F[k - 1], b.txs[k])

-----------------------------------------------------------------------------
(* Two runs that differ in what their contracts store                      *)

SameButStorage(x, y) ==
  x.nonce = y.nonce /\ x.balance = y.balance /\ x.code = y.code

Alike(sigma, tau) ==
  /\ sigma \in AccountMap /\ tau \in AccountMap
  /\ \A a \in Addr :
       /\ Exists(sigma, a) <=> Exists(tau, a)
       /\ SameButStorage(AccountAt(sigma, a), AccountAt(tau, a))

LEMMA AlikeReflexive ==
  ASSUME NEW sigma \in AccountMap
  PROVE  Alike(sigma, sigma)
BY DEF Alike, SameButStorage

LEMMA AlikeTransitive ==
  ASSUME NEW sigma, NEW tau, NEW rho, Alike(sigma, tau), Alike(tau, rho)
  PROVE  Alike(sigma, rho)
BY DEF Alike, SameButStorage

LEMMA AlikeSymmetric ==
  ASSUME NEW sigma, NEW tau, Alike(sigma, tau)
  PROVE  Alike(tau, sigma)
BY DEF Alike, SameButStorage

LEMMA WriteAlike ==
  ASSUME NEW sigma, NEW tau, Alike(sigma, tau), NEW a \in Addr,
         NEW x \in Account, NEW y \in Account, SameButStorage(x, y)
  PROVE  Alike([sigma EXCEPT ![a] = x], [tau EXCEPT ![a] = y])
<1> DEFINE sig1 == [sigma EXCEPT ![a] = x]
           tau1 == [tau EXCEPT ![a] = y]
<1>1. sigma \in AccountMap /\ tau \in AccountMap
  BY DEF Alike
<1>2. sig1 \in AccountMap /\ tau1 \in AccountMap
  BY <1>1, UpdateType
<1>3. sig1[a] = x /\ tau1[a] = y
      /\ \A b \in Addr : b # a => sig1[b] = sigma[b] /\ tau1[b] = tau[b]
  BY <1>1 DEF AccountMap
<1>4. x # NoAccount /\ y # NoAccount
  BY NoAccountAssumption
<1> HIDE DEF sig1, tau1
<1>5. ASSUME NEW b \in Addr
      PROVE  /\ Exists(sig1, b) <=> Exists(tau1, b)
             /\ SameButStorage(AccountAt(sig1, b), AccountAt(tau1, b))
  <2>1. CASE b = a
    BY <1>3, <1>4, <2>1 DEF Exists, AccountAt
  <2>2. CASE b # a
    BY <1>3, <2>2 DEF Exists, AccountAt, Alike
  <2> QED BY <2>1, <2>2
<1> QED BY <1>2, <1>5 DEF Alike, sig1, tau1

(* The account at a, and with another balance or another nonce. *)
LEMMA AlikeAccounts ==
  ASSUME NEW sigma, NEW tau, Alike(sigma, tau), NEW a \in Addr,
         NEW v \in Word
  PROVE  LET x == AccountAt(sigma, a)
             y == AccountAt(tau, a)
             up(z) == [z EXCEPT !.balance = WordAdd(@, v)]
             down(z) == [z EXCEPT !.balance = WordSub(@, v)]
             paid(z) == [z EXCEPT !.balance = WordSub(@, v), !.nonce = WordAdd(@, 1)]
         IN  /\ up(x) \in Account /\ up(y) \in Account /\ SameButStorage(up(x), up(y))
             /\ down(x) \in Account /\ down(y) \in Account
             /\ SameButStorage(down(x), down(y))
             /\ paid(x) \in Account /\ paid(y) \in Account
             /\ SameButStorage(paid(x), paid(y))
<1>1. PICK x, y : x = AccountAt(sigma, a) /\ y = AccountAt(tau, a)
  OBVIOUS
<1>2. x \in Account /\ y \in Account /\ SameButStorage(x, y)
  BY <1>1, AccountAtType DEF Alike
<1>3. x.balance \in Word /\ y.balance \in Word /\ x.nonce \in Word /\ y.nonce \in Word
  BY <1>2, AccountFields
<1>4. PICK up, down, nonce :
        up = WordAdd(x.balance, v) /\ down = WordSub(x.balance, v) /\ nonce = WordAdd(x.nonce, 1)
  OBVIOUS
<1>5. up \in Word /\ down \in Word /\ nonce \in Word
  BY <1>3, <1>4, WordAddType, WordSubType, SmallWords
<1>6. up = WordAdd(y.balance, v) /\ down = WordSub(y.balance, v) /\ nonce = WordAdd(y.nonce, 1)
  BY <1>2, <1>4 DEF SameButStorage
<1>7. ASSUME NEW z \in Account
      PROVE  /\ [z EXCEPT !.balance = up] \in Account
             /\ [z EXCEPT !.balance = down] \in Account
             /\ [z EXCEPT !.balance = down, !.nonce = nonce] \in Account
  BY <1>5 DEF Account
<1>8. /\ SameButStorage([x EXCEPT !.balance = up], [y EXCEPT !.balance = up])
      /\ SameButStorage([x EXCEPT !.balance = down], [y EXCEPT !.balance = down])
      /\ SameButStorage([x EXCEPT !.balance = down, !.nonce = nonce],
                        [y EXCEPT !.balance = down, !.nonce = nonce])
  BY <1>2, <1>7 DEF SameButStorage, Account
<1> QED BY <1>1, <1>2, <1>4, <1>6, <1>7, <1>8

LEMMA IncreaseBalanceAlike ==
  ASSUME NEW sigma, NEW tau, Alike(sigma, tau), NEW a \in Addr, NEW v \in Word
  PROVE  Alike(IncreaseBalance(sigma, a, v), IncreaseBalance(tau, a, v))
BY AlikeAccounts, WriteAlike DEF IncreaseBalance

LEMMA TransferAlike ==
  ASSUME NEW sigma, NEW tau, Alike(sigma, tau), NEW s \in Addr, NEW r \in Addr,
         NEW v \in Word
  PROVE  Alike(Transfer(sigma, s, r, v), Transfer(tau, s, r, v))
<1>1. PICK sig1, tau1 : sig1 = Credit(sigma, r, v) /\ tau1 = Credit(tau, r, v)
  OBVIOUS
<1>2. Alike(sig1, tau1)
  <2>1. Exists(sigma, r) <=> Exists(tau, r)
    BY DEF Alike
  <2> QED BY <1>1, <2>1, IncreaseBalanceAlike DEF Credit
<1>3. Alike(Debit(sig1, s, v), Debit(tau1, s, v))
  <2>1. Exists(sig1, s) <=> Exists(tau1, s)
    BY <1>2 DEF Alike
  <2>2. CASE ~Exists(sig1, s)
    BY <1>2, <2>1, <2>2 DEF Debit
  <2>3. CASE Exists(sig1, s)
    <3>1. AccountAt(sig1, s) = sig1[s] /\ AccountAt(tau1, s) = tau1[s]
      BY <2>1, <2>3 DEF AccountAt
    <3>2. PICK x, y : /\ x = [sig1[s] EXCEPT !.balance = WordSub(@, v)]
                      /\ y = [tau1[s] EXCEPT !.balance = WordSub(@, v)]
      OBVIOUS
    <3>3. x \in Account /\ y \in Account /\ SameButStorage(x, y)
      BY <1>2, <3>1, <3>2, AlikeAccounts
    <3>4. Alike([sig1 EXCEPT ![s] = x], [tau1 EXCEPT ![s] = y])
      BY <1>2, <3>3, WriteAlike
    <3> QED BY <2>1, <2>3, <3>2, <3>4 DEF Debit
  <2> QED BY <2>2, <2>3
<1> QED BY <1>1, <1>3 DEF Transfer

(* A contract that stores leaves the rest of its account alone. *)
LEMMA StoreAllAlike ==
  ASSUME NEW sigma \in AccountMap, NEW a \in Addr, NEW x \in Values
  PROVE  Alike(sigma, StoreAll(sigma, a, x))
<1>1. CASE ~Exists(sigma, a)
  BY <1>1, AlikeReflexive DEF StoreAll
<1>2. CASE Exists(sigma, a)
  <2>1. PICK new : new = [sigma[a] EXCEPT !.storage = [k \in Slots |-> x]]
    OBVIOUS
  <2>2. sigma[a] \in Account /\ [k \in Slots |-> x] \in Storage
    BY <1>2, LookupType DEF Storage
  <2>3. new \in Account /\ SameButStorage(sigma[a], new)
    BY <2>1, <2>2 DEF Account, SameButStorage
  <2>4. StoreAll(sigma, a, x) = [sigma EXCEPT ![a] = new]
    BY <1>2, <2>1 DEF StoreAll
  <2>5. sigma = [sigma EXCEPT ![a] = sigma[a]]
    BY DEF AccountMap
  <2>6. Alike([sigma EXCEPT ![a] = sigma[a]], [sigma EXCEPT ![a] = new])
    BY <2>2, <2>3, AlikeReflexive, WriteAlike
  <2> QED BY <2>4, <2>5, <2>6
<1> QED BY <1>1, <1>2

LEMMA UpsilonAlike ==
  ASSUME NEW sigma, NEW tau, Alike(sigma, tau), NEW b, b.baseFee \in Int,
         NEW T \in TxRecord, NEW seen, T.asks # NoNumber => seen \in Values,
         NEW other, T.asks # NoNumber => other \in Values
  PROVE  Alike(Upsilon(sigma, b, T, seen), Upsilon(tau, b, T, other))
<1>1. /\ T.sender \in Addr /\ T.recipient \in Addr
      /\ T.value \in Word /\ T.gasUsed \in Nat /\ T.price \in Nat
      /\ T.fails \in BOOLEAN
  BY DEF TxRecord
<1>2. PICK cost, fee : cost = WordMul(T.gasUsed, T.price)
                       /\ fee = WordMul(T.gasUsed, T.price - b.baseFee)
  OBVIOUS
<1>3. cost \in Word /\ fee \in Word
  BY <1>1, <1>2, WordMulType
<1>4. PICK x, y, charged, charged2 :
        /\ x = [AccountAt(sigma, T.sender) EXCEPT
                  !.balance = WordSub(@, cost), !.nonce = WordAdd(@, 1)]
        /\ y = [AccountAt(tau, T.sender) EXCEPT
                  !.balance = WordSub(@, cost), !.nonce = WordAdd(@, 1)]
        /\ charged = [sigma EXCEPT ![T.sender] = x]
        /\ charged2 = [tau EXCEPT ![T.sender] = y]
  OBVIOUS
<1>5. Alike(charged, charged2)
  <2>1. x \in Account /\ y \in Account /\ SameButStorage(x, y)
    BY <1>1, <1>3, <1>4, AlikeAccounts
  <2> QED BY <1>1, <1>4, <2>1, WriteAlike
<1>6. PICK moved, moved2 :
        /\ moved = Transfer(charged, T.sender, T.recipient, T.value)
        /\ moved2 = Transfer(charged2, T.sender, T.recipient, T.value)
  OBVIOUS
<1>7. Alike(moved, moved2)
  BY <1>1, <1>5, <1>6, TransferAlike
<1>8. PICK called, called2 :
        /\ called = CASE T.fails                       -> charged
                      [] ~T.fails /\ T.asks = NoNumber -> moved
                      [] ~T.fails /\ T.asks # NoNumber -> StoreAll(moved, T.recipient, seen)
        /\ called2 = CASE T.fails                       -> charged2
                       [] ~T.fails /\ T.asks = NoNumber -> moved2
                       [] ~T.fails /\ T.asks # NoNumber -> StoreAll(moved2, T.recipient, other)
  OBVIOUS
<1>9. Alike(called, called2)
  <2>1. CASE T.fails
    <3>1. called = charged /\ called2 = charged2
      BY <1>8, <2>1
    <3> QED BY <1>5, <3>1
  <2>2. CASE ~T.fails /\ T.asks = NoNumber
    <3>1. called = moved /\ called2 = moved2
      BY <1>8, <2>2, Zenon
    <3> QED BY <1>7, <3>1
  <2>3. CASE ~T.fails /\ T.asks # NoNumber
    <3>1. called = StoreAll(moved, T.recipient, seen)
          /\ called2 = StoreAll(moved2, T.recipient, other)
      BY <1>8, <2>3
    <3>2. moved \in AccountMap /\ moved2 \in AccountMap
      BY <1>7 DEF Alike
    <3>3. Alike(moved, called) /\ Alike(moved2, called2)
      BY <1>1, <2>3, <3>1, <3>2, StoreAllAlike
    <3> QED BY <1>7, <3>3, AlikeSymmetric, AlikeTransitive
  <2> QED BY <1>1, <2>1, <2>2, <2>3
<1>10. PICK end, end2 :
         /\ end = IF fee # 0 THEN IncreaseBalance(called, Beneficiary, fee) ELSE called
         /\ end2 = IF fee # 0 THEN IncreaseBalance(called2, Beneficiary, fee) ELSE called2
  OBVIOUS
<1>11. Alike(end, end2)
  <2>1. CASE fee # 0
    BY <1>3, <1>9, <1>10, <2>1, ChainAssumption, IncreaseBalanceAlike
  <2>2. CASE fee = 0
    BY <1>9, <1>10, <2>2
  <2> QED BY <2>1, <2>2
<1>12. Upsilon(sigma, b, T, seen) = end /\ Upsilon(tau, b, T, other) = end2
  BY <1>2, <1>4, <1>6, <1>8, <1>10 DEF Upsilon
<1> QED BY <1>11, <1>12

(* A transaction that fits the one state fits the other. *)
LEMMA TransactionAlike ==
  ASSUME NEW s, NEW r, Alike(s.accountMap, r.accountMap), s.gasUsed = r.gasUsed,
         NEW b, NEW T \in TxRecord
  PROVE  TransactionError(s, b, T) = TransactionError(r, b, T)
<1>1. T.sender \in Addr
  BY DEF TxRecord
<1>2. PICK x, y : x = AccountAt(s.accountMap, T.sender) /\ y = AccountAt(r.accountMap, T.sender)
  OBVIOUS
<1>3. x.nonce = y.nonce /\ x.balance = y.balance /\ x.code = y.code
  BY <1>1, <1>2 DEF Alike, SameButStorage
<1>4. ASSUME NEW u, NEW z, z = AccountAt(u.accountMap, T.sender)
      PROVE  TransactionError(u, b, T) =
               FirstError(<<
                 Check(T.gasLimit + u.gasUsed > b.gasLimit, "GAS_ALLOWANCE_EXCEEDED"),
                 Check(b.baseFee > T.price, "INSUFFICIENT_MAX_FEE_PER_GAS"),
                 Check(z.code # NoCode, "SENDER_NOT_EOA"),
                 Check(T.nonce < z.nonce, "NONCE_MISMATCH_TOO_LOW"),
                 Check(T.nonce > z.nonce, "NONCE_MISMATCH_TOO_HIGH"),
                 Check(WordAdd(WordMul(T.gasLimit, T.price), T.value) > z.balance,
                       "INSUFFICIENT_ACCOUNT_FUNDS")>>)
  BY <1>4 DEF TransactionError
<1>5. TransactionError(s, b, T) =
               FirstError(<<
                 Check(T.gasLimit + s.gasUsed > b.gasLimit, "GAS_ALLOWANCE_EXCEEDED"),
                 Check(b.baseFee > T.price, "INSUFFICIENT_MAX_FEE_PER_GAS"),
                 Check(x.code # NoCode, "SENDER_NOT_EOA"),
                 Check(T.nonce < x.nonce, "NONCE_MISMATCH_TOO_LOW"),
                 Check(T.nonce > x.nonce, "NONCE_MISMATCH_TOO_HIGH"),
                 Check(WordAdd(WordMul(T.gasLimit, T.price), T.value) > x.balance,
                       "INSUFFICIENT_ACCOUNT_FUNDS")>>)
  BY <1>2, <1>4, Zenon
<1>6. TransactionError(r, b, T) =
               FirstError(<<
                 Check(T.gasLimit + s.gasUsed > b.gasLimit, "GAS_ALLOWANCE_EXCEEDED"),
                 Check(b.baseFee > T.price, "INSUFFICIENT_MAX_FEE_PER_GAS"),
                 Check(x.code # NoCode, "SENDER_NOT_EOA"),
                 Check(T.nonce < x.nonce, "NONCE_MISMATCH_TOO_LOW"),
                 Check(T.nonce > x.nonce, "NONCE_MISMATCH_TOO_HIGH"),
                 Check(WordAdd(WordMul(T.gasLimit, T.price), T.value) > x.balance,
                       "INSUFFICIENT_ACCOUNT_FUNDS")>>)
  <2>1. TransactionError(r, b, T) =
               FirstError(<<
                 Check(T.gasLimit + r.gasUsed > b.gasLimit, "GAS_ALLOWANCE_EXCEEDED"),
                 Check(b.baseFee > T.price, "INSUFFICIENT_MAX_FEE_PER_GAS"),
                 Check(y.code # NoCode, "SENDER_NOT_EOA"),
                 Check(T.nonce < y.nonce, "NONCE_MISMATCH_TOO_LOW"),
                 Check(T.nonce > y.nonce, "NONCE_MISMATCH_TOO_HIGH"),
                 Check(WordAdd(WordMul(T.gasLimit, T.price), T.value) > y.balance,
                       "INSUFFICIENT_ACCOUNT_FUNDS")>>)
    BY <1>2, <1>4, Zenon
  <2> QED BY <1>3, <2>1, Zenon
<1> QED BY <1>5, <1>6, Zenon

LEMMA WithdrawalsAlike ==
  ASSUME NEW sigma, NEW tau, Alike(sigma, tau), NEW ws \in Seq(WithdrawalRecord)
  PROVE  Alike(ApplyWithdrawals(sigma, ws), ApplyWithdrawals(tau, ws))
<1>1. PICK F, G :
        /\ F[0] = sigma /\ F[Len(ws)] = ApplyWithdrawals(sigma, ws)
        /\ \A k \in 1..Len(ws) : F[k] = ApplyWithdrawal(F[k - 1], ws[k])
        /\ G[0] = tau /\ G[Len(ws)] = ApplyWithdrawals(tau, ws)
        /\ \A k \in 1..Len(ws) : G[k] = ApplyWithdrawal(G[k - 1], ws[k])
  <2>1. sigma \in AccountMap /\ tau \in AccountMap
    BY DEF Alike
  <2>2. \E F : /\ F[0] = sigma /\ F[Len(ws)] = ApplyWithdrawals(sigma, ws)
              /\ \A k \in 1..Len(ws) : F[k] = ApplyWithdrawal(F[k - 1], ws[k])
    BY <2>1, WithdrawalSteps
  <2>3. \E G : /\ G[0] = tau /\ G[Len(ws)] = ApplyWithdrawals(tau, ws)
              /\ \A k \in 1..Len(ws) : G[k] = ApplyWithdrawal(G[k - 1], ws[k])
    BY <2>1, WithdrawalSteps
  <2> QED BY <2>2, <2>3
<1>2. Len(ws) \in Nat /\ \A k \in 1..Len(ws) : ws[k] \in WithdrawalRecord
  OBVIOUS
<1> DEFINE Bad == {k \in 0..Len(ws) : ~Alike(F[k], G[k])}
<1>3. ASSUME Bad # {} PROVE FALSE
  <2>1. PICK k \in Bad : \A n \in Bad : k <= n
    <3>1. Bad \subseteq Nat
      BY <1>2
    <3> HIDE DEF Bad
    <3> QED BY <1>3, <3>1, LeastNumber
  <2>2. k # 0
    BY <1>1
  <2>3. k \in 1..Len(ws) /\ k - 1 \in 0..Len(ws) /\ k - 1 \notin Bad
    BY <1>2, <2>1, <2>2
  <2>4. Alike(F[k - 1], G[k - 1]) /\ ~Alike(F[k], G[k])
    BY <2>1, <2>3
  <2>5. ws[k].address \in Addr /\ ws[k].amount \in Word
    BY <1>2, <2>3 DEF WithdrawalRecord
  <2>6. Alike(ApplyWithdrawal(F[k - 1], ws[k]), ApplyWithdrawal(G[k - 1], ws[k]))
    BY <2>4, <2>5, IncreaseBalanceAlike DEF ApplyWithdrawal
  <2> QED BY <1>1, <2>3, <2>4, <2>6
<1>4. Len(ws) \in 0..Len(ws)
  BY <1>2
<1> QED BY <1>1, <1>3, <1>4

-----------------------------------------------------------------------------
(* The states of a run *)

LEMMA RunStartType ==
  ASSUME NEW hs, NEW b, RunTyped(hs, b)
  PROVE  RunStart(hs, b) \in RunStates
<1>1. BeaconCall(hs[b.parent].stateRoot, b) \in AccountMap
  BY ChainAssumption, StoreAllAlike DEF BeaconCall, RunTyped, Alike
<1> QED BY <1>1 DEF RunStart, RunStates

LEMMA RunStepType ==
  ASSUME NEW hs, NEW b, RunTyped(hs, b), NEW r \in RunStates, NEW k \in 1..Len(b.txs)
  PROVE  RunStep(hs, b, r, b.txs[k]) \in RunStates
<1>1. PICK T, seen : T = b.txs[k] /\ seen = HashIn(hs, b, T.asks)
  OBVIOUS
<1>2. T \in TxRecord /\ (T.asks # NoNumber => seen \in Values)
  <2>1. b.txs \in Seq(TxRecord) /\ k \in DOMAIN b.txs
    BY DEF RunTyped
  <2> QED BY <1>1, <2>1 DEF RunTyped
<1>3. T.recipient \in Addr /\ T.gasUsed \in Nat /\ T.fails \in BOOLEAN
  BY <1>2 DEF TxRecord
<1>4. r.accountMap \in AccountMap /\ r.gasUsed \in Nat /\ r.logs \in SUBSET Addr
      /\ r.receipts \in Seq([ok : BOOLEAN, gas : Nat, logs : SUBSET Addr])
  BY DEF RunStates
<1>5. Upsilon(r.accountMap, b, T, seen) \in AccountMap
  BY <1>2, <1>4, AlikeReflexive, UpsilonAlike DEF RunTyped, Alike
<1>6. LogsOf(T) \in SUBSET Addr
  BY <1>3 DEF LogsOf
<1>7. [ok |-> ~T.fails, gas |-> r.gasUsed + T.gasUsed, logs |-> LogsOf(T)]
        \in [ok : BOOLEAN, gas : Nat, logs : SUBSET Addr]
  BY <1>3, <1>4, <1>6
<1>8. PICK receipts, tau, logs :
        /\ receipts = Append(r.receipts, [ok |-> ~T.fails, gas |-> r.gasUsed + T.gasUsed,
                                          logs |-> LogsOf(T)])
        /\ tau = Upsilon(r.accountMap, b, T, seen)
        /\ logs = LogsOf(T) \cup r.logs
  OBVIOUS
<1>9. receipts \in Seq([ok : BOOLEAN, gas : Nat, logs : SUBSET Addr])
  BY <1>4, <1>7, <1>8
<1>10. RunStep(hs, b, r, T) = [accountMap |-> tau, gasUsed |-> r.gasUsed + T.gasUsed,
                               receipts |-> receipts, logs |-> logs]
  <2>1. PICK s : s = [accountMap |-> tau, gasUsed |-> r.gasUsed + T.gasUsed,
                      receipts |-> receipts, logs |-> LogsOf(T)]
    OBVIOUS
  <2>2. s = Executed(r, b, T, seen)
    BY <1>8, <2>1, Zenon DEF Executed
  <2>3. RunStep(hs, b, r, T) = [s EXCEPT !.logs = @ \cup r.logs]
    BY <1>1, <2>2 DEF RunStep
  <2> QED BY <1>8, <2>1, <2>3
<1>11. r.gasUsed + T.gasUsed \in Nat /\ logs \in SUBSET Addr
  BY <1>3, <1>4, <1>6, <1>8
<1> QED BY <1>1, <1>5, <1>8, <1>9, <1>10, <1>11 DEF RunStates

LEMMA RunExists ==
  ASSUME NEW hs, NEW b, RunTyped(hs, b)
  PROVE  \E F :
           /\ Runs(hs, b, F) /\ F[Len(b.txs)] = RunOf(hs, b)
           /\ \A k \in 0..Len(b.txs) : F[k] \in RunStates
<1> DEFINE txs == b.txs
           L == Len(txs)
           start == RunStart(hs, b)
           g == [p \in RunStates \X (1..L) |-> RunStep(hs, b, p[1], txs[p[2]])]
           Iterates(iter) == iter = [s \in SUBSET (1..L) |->
             IF s = {} THEN start
             ELSE RunStep(hs, b, iter[s \ {Max(s)}], txs[Max(s)])]
<1>1. L \in Nat /\ DOMAIN txs = 1..L
  BY DEF RunTyped
<1>2. \A r \in RunStates, k \in 1..L : RunStep(hs, b, r, txs[k]) \in RunStates
  BY RunStepType
<1>3. g \in [RunStates \X (1..L) -> RunStates] /\ start \in RunStates
  <2>1. start \in RunStates
    BY RunStartType
  <2>2. \A p \in RunStates \X (1..L) : RunStep(hs, b, p[1], txs[p[2]]) \in RunStates
    <3> HIDE DEF L, txs
    <3> QED BY <1>2
  <2> QED BY <2>1, <2>2
<1>4. PICK f \in [SUBSET (1..L) -> RunStates] : FoldsUp(f, L, start, g)
  <2> HIDE DEF g, L, start
  <2> QED BY <1>1, <1>3, FoldExists
<1>5. Iterates(f)
  <2>1. ASSUME NEW s \in SUBSET (1..L), s # {}
        PROVE  g[<<f[s \ {Max(s)}], Max(s)>>] = RunStep(hs, b, f[s \ {Max(s)}], txs[Max(s)])
    <3>1. Max(s) \in 1..L /\ s \ {Max(s)} \in SUBSET (1..L)
      BY <1>1, <2>1, MaxOfRange
    <3>2. f[s \ {Max(s)}] \in RunStates
      BY <1>4, <3>1
    <3> HIDE DEF L, txs
    <3> QED BY <3>1, <3>2
  <2> HIDE DEF g, start
  <2>2. f = [s \in SUBSET (1..L) |-> f[s]]
    BY <1>4
  <2> QED BY <1>4, <2>1, <2>2 DEF FoldsUp
<1>6. PICK h : h = CHOOSE iter : Iterates(iter)
  OBVIOUS
<1>7. Iterates(h)
  BY <1>5, <1>6
<1>8. RunOf(hs, b) = h[1..L]
  BY <1>1, <1>6 DEF RunOf, FoldLeft, MapThenFoldSet
<1> DEFINE F == [k \in 0..L |-> h[1..k]]
<1>9. F[0] = start /\ F[L] = RunOf(hs, b)
  <2>1. 1..0 = {} /\ {} \in SUBSET (1..L)
    OBVIOUS
  <2>2. h[{}] = start
    BY <1>7, <2>1
  <2> HIDE DEF start
  <2> QED BY <1>1, <1>8, <2>1, <2>2
<1>10. ASSUME NEW k \in 1..L PROVE F[k] = RunStep(hs, b, F[k - 1], txs[k])
  <2>1. 1..k \in SUBSET (1..L) /\ Max(1..k) = k /\ (1..k) \ {k} = 1..(k - 1) /\ 1..k # {}
    BY <1>1, MaxOfPrefix
  <2>2. h[1..k] = RunStep(hs, b, h[1..(k - 1)], txs[k])
    <3> HIDE DEF L, start
    <3> QED BY <1>7, <2>1
  <2>3. F[k] = h[1..k] /\ F[k - 1] = h[1..(k - 1)]
    BY <1>1
  <2> QED BY <2>2, <2>3
<1> HIDE DEF F, Iterates
<1>11. \A k \in 0..L : F[k] \in RunStates
  <2> DEFINE Bad == {k \in 0..L : F[k] \notin RunStates}
  <2> SUFFICES ASSUME Bad # {} PROVE FALSE
    OBVIOUS
  <2>1. PICK k \in Bad : \A n \in Bad : k <= n
    <3>1. Bad \subseteq Nat
      BY <1>1
    <3> HIDE DEF Bad
    <3> QED BY <3>1, LeastNumber
  <2>2. k # 0
    BY <1>3, <1>9
  <2>3. k \in 1..L /\ k - 1 \in 0..L /\ k - 1 \notin Bad
    BY <1>1, <2>1, <2>2
  <2> HIDE DEF L
  <2> QED BY <1>2, <1>10, <2>3
<1> QED BY <1>9, <1>10, <1>11 DEF Runs

(* Two runs from one state whose steps are the same. *)
SameSteps(L, F, G) ==
  F[0] = G[0] /\ \A k \in 1..L : F[k - 1] = G[k - 1] => F[k] = G[k]

LEMMA SameRuns ==
  ASSUME NEW L \in Nat, NEW F, NEW G, SameSteps(L, F, G)
  PROVE  \A k \in 0..L : F[k] = G[k]
<1> DEFINE Bad == {k \in 0..L : F[k] # G[k]}
<1> SUFFICES ASSUME Bad # {} PROVE FALSE
  OBVIOUS
<1>1. PICK k \in Bad : \A n \in Bad : k <= n
  <2>1. Bad \subseteq Nat
    OBVIOUS
  <2> HIDE DEF Bad
  <2> QED BY <2>1, LeastNumber
<1>2. k # 0
  BY DEF SameSteps
<1>3. k \in 1..L /\ k - 1 \in 0..L /\ k - 1 \notin Bad
  BY <1>1, <1>2
<1> QED BY <1>3 DEF SameSteps

(* The rules look at four fields of a block, and at its transactions up to *)
(* the one they apply to.                                                  *)
LEMMA PartRuns ==
  ASSUME NEW hs, NEW b, RunTyped(hs, b), NEW F, Runs(hs, b, F),
         NEW c, NEW n \in 0..Len(b.txs), DOMAIN c = HeaderFields,
         c.parent = b.parent, c.number = b.number, c.baseFee = b.baseFee,
         c.txs = SubSeq(b.txs, 1, n)
  PROVE  RunOf(hs, c) = F[n]
<1>1. Len(b.txs) \in Nat /\ DOMAIN b.txs = 1..Len(b.txs) /\ b.txs \in Seq(TxRecord)
  BY DEF RunTyped
<1>2. /\ Len(c.txs) = n /\ DOMAIN c.txs = 1..n /\ c.txs \in Seq(TxRecord)
      /\ \A k \in 1..n : c.txs[k] = b.txs[k] /\ k \in DOMAIN b.txs
  BY <1>1
<1>3. \A m : HashIn(hs, c, m) = HashIn(hs, b, m)
  BY DEF HashIn
<1>4. RunTyped(hs, c)
  <2>1. \A k \in DOMAIN c.txs :
          c.txs[k].asks # NoNumber => HashIn(hs, c, c.txs[k].asks) \in Values
    BY <1>2, <1>3 DEF RunTyped
  <2> QED BY <1>2, <2>1 DEF RunTyped
<1>5. RunStart(hs, c) = RunStart(hs, b)
  BY DEF RunStart, BeaconCall
<1>6. ASSUME NEW r, NEW T PROVE RunStep(hs, c, r, T) = RunStep(hs, b, r, T)
  <2>1. HashIn(hs, c, T.asks) = HashIn(hs, b, T.asks)
    BY <1>3
  <2>2. ASSUME NEW seen PROVE Executed(r, c, T, seen) = Executed(r, b, T, seen)
    BY DEF Executed, Upsilon
  <2> QED BY <2>1, <2>2 DEF RunStep
<1>7. PICK G : Runs(hs, c, G) /\ G[n] = RunOf(hs, c)
  BY <1>2, <1>4, RunExists
<1>8. SameSteps(n, F, G)
  <2>1. F[0] = G[0]
    BY <1>5, <1>7 DEF Runs
  <2>2. ASSUME NEW k \in 1..n, F[k - 1] = G[k - 1] PROVE F[k] = G[k]
    <3>1. k \in 1..Len(b.txs) /\ k \in 1..Len(c.txs) /\ c.txs[k] = b.txs[k]
      BY <1>1, <1>2
    <3>2. /\ F[k] = RunStep(hs, b, F[k - 1], b.txs[k])
          /\ G[k] = RunStep(hs, c, G[k - 1], c.txs[k])
      BY <1>7, <3>1 DEF Runs
    <3> QED BY <1>6, <2>2, <3>1, <3>2
  <2> QED BY <2>1, <2>2 DEF SameSteps
<1>9. F[n] = G[n]
  <2>1. n \in Nat /\ n \in 0..n
    BY <1>1
  <2>2. \A k \in 0..n : F[k] = G[k]
    BY <1>8, <2>1, SameRuns
  <2> QED BY <2>1, <2>2
<1> QED BY <1>7, <1>9

LEMMA RunSteps ==
  ASSUME NEW hs, NEW b, RunTyped(hs, b)
  PROVE  /\ RunAt(hs, b, 0) = RunStart(hs, b)
         /\ \A k \in 1..Len(b.txs) :
              RunAt(hs, b, k) = RunStep(hs, b, RunAt(hs, b, k - 1), b.txs[k])
         /\ \A k \in 0..Len(b.txs) : RunAt(hs, b, k) \in RunStates
         /\ RunAt(hs, b, Len(b.txs)) = RunOf(hs, b)
<1>1. PICK F : /\ Runs(hs, b, F) /\ F[Len(b.txs)] = RunOf(hs, b)
               /\ \A k \in 0..Len(b.txs) : F[k] \in RunStates
  BY RunExists
<1>2. Len(b.txs) \in Nat
  BY DEF RunTyped
<1>3. ASSUME NEW k \in 0..Len(b.txs) PROVE RunAt(hs, b, k) = F[k]
  <2>1. PICK c : c = [b EXCEPT !.txs = SubSeq(@, 1, k)]
    OBVIOUS
  <2>2. /\ DOMAIN c = HeaderFields /\ c.parent = b.parent /\ c.number = b.number
        /\ c.baseFee = b.baseFee /\ c.txs = SubSeq(b.txs, 1, k)
    BY <2>1 DEF RunTyped, HeaderFields
  <2>3. RunOf(hs, c) = F[k]
    BY <1>1, <2>2, PartRuns
  <2> QED BY <2>1, <2>3 DEF RunAt
<1>4. F[0] = RunStart(hs, b)
      /\ \A k \in 1..Len(b.txs) : F[k] = RunStep(hs, b, F[k - 1], b.txs[k])
  BY <1>1 DEF Runs
<1>5. /\ 0 \in 0..Len(b.txs) /\ Len(b.txs) \in 0..Len(b.txs)
      /\ \A k \in 1..Len(b.txs) : k \in 0..Len(b.txs) /\ k - 1 \in 0..Len(b.txs)
  BY <1>2
<1>6. \A k \in 1..Len(b.txs) :
        RunAt(hs, b, k) = RunStep(hs, b, RunAt(hs, b, k - 1), b.txs[k])
  BY <1>3, <1>4, <1>5
<1> QED BY <1>1, <1>3, <1>4, <1>5, <1>6

-----------------------------------------------------------------------------
(* New blocks change no run *)

Grows(hs, gs) ==
  /\ Older(hs) /\ Older(gs) /\ DOMAIN hs \subseteq DOMAIN gs
  /\ \A h \in DOMAIN hs : gs[h] = hs[h]

LEMMA AncestorsKept ==
  ASSUME NEW hs, NEW gs, Grows(hs, gs), NEW n
  PROVE  \A h \in DOMAIN hs : AncestorsOf(gs, n)[h] = AncestorsOf(hs, n)[h]
<1> DEFINE Bad == {h \in DOMAIN hs : AncestorsOf(gs, n)[h] # AncestorsOf(hs, n)[h]}
<1> SUFFICES ASSUME Bad # {} PROVE FALSE
  OBVIOUS
<1>1. PICK h \in Bad : \A m \in Bad : h <= m
  <2>1. Bad \subseteq Nat
    BY DEF Grows, Older
  <2> HIDE DEF Bad
  <2> QED BY <2>1, LeastNumber
<1>2. h \in DOMAIN hs /\ h \in DOMAIN gs /\ gs[h] = hs[h]
  BY DEF Grows
<1>3. AncestorsOf(hs, n)[h] =
        IF hs[h].number <= n \/ hs[h].parent = NoHash
          THEN h ELSE AncestorsOf(hs, n)[hs[h].parent]
  BY <1>2, AncestorWalk DEF Grows
<1>4. AncestorsOf(gs, n)[h] =
        IF hs[h].number <= n \/ hs[h].parent = NoHash
          THEN h ELSE AncestorsOf(gs, n)[hs[h].parent]
  BY <1>2, AncestorWalk DEF Grows
<1>5. ~(hs[h].number <= n \/ hs[h].parent = NoHash)
  BY <1>1, <1>3, <1>4
<1>6. hs[h].parent \in DOMAIN hs /\ hs[h].parent < h /\ h \in Nat /\ hs[h].parent \in Nat
  BY <1>2, <1>5 DEF Grows, Older, NoHash
<1>7. hs[h].parent \notin Bad
  BY <1>1, <1>6
<1> QED BY <1>1, <1>3, <1>4, <1>6, <1>7

LEMMA RunKept ==
  ASSUME NEW hs, NEW gs, Grows(hs, gs), NEW b, b.parent \in DOMAIN hs
  PROVE  /\ RunTyped(gs, b) <=> RunTyped(hs, b)
         /\ RunTyped(hs, b) =>
              /\ RunOf(gs, b) = RunOf(hs, b)
              /\ \A k \in 0..Len(b.txs) : RunAt(gs, b, k) = RunAt(hs, b, k)
<1>1. ASSUME NEW n PROVE HashIn(gs, b, n) = HashIn(hs, b, n)
  BY AncestorsKept DEF HashIn
<1>2. gs[b.parent] = hs[b.parent]
  BY DEF Grows
<1>3. RunTyped(gs, b) <=> RunTyped(hs, b)
  BY <1>1, <1>2 DEF RunTyped
<1>4. ASSUME RunTyped(hs, b)
      PROVE  /\ RunOf(gs, b) = RunOf(hs, b)
             /\ \A k \in 0..Len(b.txs) : RunAt(gs, b, k) = RunAt(hs, b, k)
  <2> DEFINE L == Len(b.txs)
             F == [k \in 0..L |-> RunAt(hs, b, k)]
             G == [k \in 0..L |-> RunAt(gs, b, k)]
  <2>1. L \in Nat
    BY <1>4 DEF RunTyped
  <2>2. RunTyped(gs, b)
    BY <1>3, <1>4
  <2>3. /\ RunAt(hs, b, 0) = RunStart(hs, b) /\ RunAt(gs, b, 0) = RunStart(gs, b)
        /\ \A k \in 1..L :
             /\ RunAt(hs, b, k) = RunStep(hs, b, RunAt(hs, b, k - 1), b.txs[k])
             /\ RunAt(gs, b, k) = RunStep(gs, b, RunAt(gs, b, k - 1), b.txs[k])
        /\ RunAt(hs, b, L) = RunOf(hs, b) /\ RunAt(gs, b, L) = RunOf(gs, b)
    BY <1>4, <2>2, RunSteps
  <2>4. RunStart(gs, b) = RunStart(hs, b)
    BY <1>2 DEF RunStart
  <2>5. ASSUME NEW r, NEW T PROVE RunStep(gs, b, r, T) = RunStep(hs, b, r, T)
    <3>1. HashIn(gs, b, T.asks) = HashIn(hs, b, T.asks)
      BY <1>1
    <3> QED BY <3>1 DEF RunStep
  <2>6. SameSteps(L, F, G)
    <3>1. F[0] = G[0]
      BY <2>1, <2>3, <2>4
    <3>2. ASSUME NEW k \in 1..L, F[k - 1] = G[k - 1] PROVE F[k] = G[k]
      <4>1. k \in 0..L /\ k - 1 \in 0..L
        BY <2>1
      <4>2. RunAt(hs, b, k - 1) = RunAt(gs, b, k - 1)
        BY <3>2, <4>1
      <4> QED BY <2>3, <2>5, <4>1, <4>2
    <3> QED BY <3>1, <3>2 DEF SameSteps
  <2>7. \A k \in 0..L : F[k] = G[k]
    <3> HIDE DEF F, G, L
    <3> QED BY <2>1, <2>6, SameRuns
  <2>8. L \in 0..L
    BY <2>1
  <2> QED BY <2>3, <2>7, <2>8
<1> QED BY <1>3, <1>4

LEMMA HashesTyped ==
  ASSUME NEW hs, Older(hs), Len(hs) <= MaxBlocks + 1,
         NEW b, b.parent \in DOMAIN hs, NEW n
  PROVE  HashIn(hs, b, n) \in Values
<1>1. AncestorsOf(hs, n)[b.parent] \in 1..Len(hs)
  BY AncestorWalk DEF Older
<1>2. HashIn(hs, b, n) \in 0..(2 * MaxBlocks + 1)
  BY <1>1, ChainAssumption DEF HashIn, NoHash, Older
<1> QED BY <1>2, HashAssumption

-----------------------------------------------------------------------------
(* What the headers claim *)

(* What the rules make of the state of the parent. *)
RunRoot(hs, b) == ApplyWithdrawals(RunOf(hs, b).accountMap, b.withdrawals)

(* The author makes a block whose state is that of its run, but for the    *)
(* flaw that takes the beneficiary out of it.                              *)
MadeAs(hs, b) ==
  (/\ RunTyped(hs, b) /\ b.parent \in DOMAIN hs
   /\ b.number = hs[b.parent].number + 1
   /\ b.baseFee = ExpectedBaseFee(hs[b.parent])) =>
    b.stateRoot \in {RunRoot(hs, b), [RunRoot(hs, b) EXCEPT ![Beneficiary] = NoAccount]}

MadeOK ==
  \A h \in 2..Len(headers) :
    DOMAIN headers[h] = HeaderFields /\ MadeAs(headers, headers[h])

LEMMA SpoiledRun ==
  ASSUME NEW b, NEW flaw \in FlawNames, DOMAIN b = HeaderFields
  PROVE  /\ DOMAIN Spoiled(b, flaw) = HeaderFields
         /\ Spoiled(b, flaw).stateRoot
              \in {b.stateRoot, [b.stateRoot EXCEPT ![Beneficiary] = NoAccount]}
<1>1. CASE flaw = "none"
  BY <1>1 DEF Spoiled, HeaderFields
<1>2. CASE flaw = "encoding"
  BY <1>2 DEF Spoiled, HeaderFields
<1>3. CASE flaw = "parent"
  BY <1>3 DEF Spoiled, HeaderFields
<1>4. CASE flaw = "number"
  BY <1>4 DEF Spoiled, HeaderFields
<1>5. CASE flaw = "timestamp"
  BY <1>5 DEF Spoiled, HeaderFields
<1>6. CASE flaw = "gasLimit"
  BY <1>6 DEF Spoiled, HeaderFields
<1>7. CASE flaw = "baseFee"
  BY <1>7 DEF Spoiled, HeaderFields
<1>8. CASE flaw = "sealed"
  BY <1>8 DEF Spoiled, HeaderFields
<1>9. CASE flaw = "gasUsed"
  BY <1>9 DEF Spoiled, HeaderFields
<1>10. CASE flaw = "stateRoot"
  BY <1>10 DEF Spoiled, HeaderFields
<1>11. CASE flaw = "bloom"
  BY <1>11 DEF Spoiled, HeaderFields
<1>12. CASE flaw = "receipts"
  BY <1>12 DEF Spoiled, HeaderFields
<1> QED BY <1>1, <1>2, <1>3, <1>4, <1>5, <1>6, <1>7, <1>8, <1>9, <1>10, <1>11, <1>12
        DEF FlawNames

LEMMA NewMade ==
  ASSUME CInv, NEW p \in DOMAIN headers, NEW draft \in Drafts, NEW b,
         b = Spoiled(HonestBlock(p, draft.txs, draft.withdrawals), draft.flaw)
  PROVE  DOMAIN b = HeaderFields /\ MadeAs(headers, b)
<1>1. PICK parent, bare, run, honest :
        /\ parent = headers[p]
        /\ bare = [parent |-> p, number |-> parent.number + 1,
                   timestamp |-> parent.timestamp + 1, gasLimit |-> parent.gasLimit,
                   baseFee |-> ExpectedBaseFee(parent), txs |-> draft.txs,
                   withdrawals |-> draft.withdrawals, wellFormed |-> TRUE, sealed |-> TRUE,
                   gasUsed |-> 0, receiptRoot |-> <<>>, logsBloom |-> {},
                   stateRoot |-> parent.stateRoot]
        /\ run = RuleRun(bare)
        /\ honest = HonestBlock(p, draft.txs, draft.withdrawals)
  OBVIOUS
<1>2. honest = [bare EXCEPT !.gasUsed = run.gasUsed, !.receiptRoot = run.receipts,
                            !.logsBloom = run.logs,
                            !.stateRoot = ApplyWithdrawals(run.accountMap, draft.withdrawals)]
  BY <1>1, Zenon DEF HonestBlock
<1>3. DOMAIN bare = HeaderFields /\ bare.parent = p /\ bare.number = parent.number + 1
      /\ bare.baseFee = ExpectedBaseFee(parent) /\ bare.txs = draft.txs
  BY <1>1 DEF HeaderFields
<1>4. DOMAIN honest = HeaderFields
      /\ honest.stateRoot = ApplyWithdrawals(run.accountMap, draft.withdrawals)
  BY <1>2, <1>3 DEF HeaderFields
<1>5. draft.flaw \in FlawNames
  BY DraftAssumption
<1>6. /\ DOMAIN b = HeaderFields
      /\ b.stateRoot \in {honest.stateRoot, [honest.stateRoot EXCEPT ![Beneficiary] = NoAccount]}
  BY <1>1, <1>4, <1>5, SpoiledRun
<1>7. /\ b.parent \in {p, NoHash}
      /\ b.number \in {headers[p].number + 1, (headers[p].number + 1) + 1}
      /\ b.txs = draft.txs /\ b.withdrawals = draft.withdrawals
  BY NewBlockFields
<1>8. ASSUME RunTyped(headers, b), b.parent \in DOMAIN headers,
             b.number = headers[b.parent].number + 1,
             b.baseFee = ExpectedBaseFee(headers[b.parent])
      PROVE  honest.stateRoot = ApplyWithdrawals(RunOf(headers, b).accountMap, b.withdrawals)
  <2>1. b.parent = p
    <3>1. NoHash \notin DOMAIN headers
      BY AppendFacts DEF CInv, HeadersOK, NoHash
    <3> QED BY <1>7, <1>8, <3>1
  <2>2. PICK F : Runs(headers, b, F) /\ F[Len(b.txs)] = RunOf(headers, b)
    BY <1>8, RunExists
  <2>3. bare.txs = SubSeq(b.txs, 1, Len(b.txs)) /\ Len(b.txs) \in 0..Len(b.txs)
    <3>1. PICK txs : txs = b.txs
      OBVIOUS
    <3>2. txs \in Seq(TxRecord)
      BY <1>8, <3>1 DEF RunTyped
    <3>3. SubSeq(txs, 1, Len(txs)) = txs /\ Len(txs) \in Nat
      BY <3>2
    <3> QED BY <1>3, <1>7, <3>1, <3>3
  <2>4. bare.parent = b.parent /\ bare.number = b.number /\ bare.baseFee = b.baseFee
    BY <1>1, <1>3, <1>8, <2>1
  <2>5. RunOf(headers, bare) = F[Len(b.txs)]
    <3>1. PICK n, hs, c, d : n = Len(b.txs) /\ hs = headers /\ c = bare /\ d = b
      OBVIOUS
    <3>2. /\ RunTyped(hs, d) /\ Runs(hs, d, F) /\ n \in 0..Len(d.txs)
          /\ DOMAIN c = HeaderFields /\ c.parent = d.parent /\ c.number = d.number
          /\ c.baseFee = d.baseFee /\ c.txs = SubSeq(d.txs, 1, n)
      BY <1>3, <1>8, <2>2, <2>3, <2>4, <3>1
    <3>3. RunOf(hs, c) = F[n]
      BY <3>2, PartRuns, SMTT(30)
    <3> QED BY <3>1, <3>3
  <2>6. run = RunOf(headers, bare)
    BY <1>1, RuleRunIs
  <2> QED BY <1>4, <1>7, <2>2, <2>5, <2>6
<1>9. ASSUME RunTyped(headers, b), b.parent \in DOMAIN headers,
             b.number = headers[b.parent].number + 1,
             b.baseFee = ExpectedBaseFee(headers[b.parent])
      PROVE  b.stateRoot \in {RunRoot(headers, b),
                              [RunRoot(headers, b) EXCEPT ![Beneficiary] = NoAccount]}
  <2>1. honest.stateRoot = RunRoot(headers, b)
    BY <1>8, <1>9 DEF RunRoot
  <2> QED BY <1>6, <2>1
<1> QED BY <1>6, <1>9 DEF MadeAs

LEMMA MadeAsKept ==
  ASSUME NEW hs, NEW gs, Grows(hs, gs), NEW b, MadeAs(hs, b),
         b.parent \in DOMAIN gs => b.parent \in DOMAIN hs
  PROVE  MadeAs(gs, b)
<1> SUFFICES ASSUME RunTyped(gs, b), b.parent \in DOMAIN gs,
                    b.number = gs[b.parent].number + 1,
                    b.baseFee = ExpectedBaseFee(gs[b.parent])
             PROVE  b.stateRoot \in {RunRoot(gs, b),
                                     [RunRoot(gs, b) EXCEPT ![Beneficiary] = NoAccount]}
  BY Zenon DEF MadeAs
<1>1. b.parent \in DOMAIN hs /\ gs[b.parent] = hs[b.parent]
  BY DEF Grows
<1>2. RunTyped(hs, b) /\ RunOf(gs, b) = RunOf(hs, b)
  BY <1>1, RunKept
<1>3. RunRoot(gs, b) = RunRoot(hs, b)
  BY <1>2 DEF RunRoot
<1>4. b.number = hs[b.parent].number + 1 /\ b.baseFee = ExpectedBaseFee(hs[b.parent])
  BY <1>1
<1> QED BY <1>1, <1>2, <1>3, <1>4, Zenon DEF MadeAs

LEMMA HeadersGrow ==
  ASSUME LInv, LInv', NEW b, headers' = Append(headers, b)
  PROVE  /\ Grows(headers, headers')
         /\ Len(headers) \in Nat /\ DOMAIN headers = 1..Len(headers)
         /\ DOMAIN headers' = 1..(Len(headers) + 1) /\ Len(headers') = Len(headers) + 1
         /\ \A h \in DOMAIN headers : headers'[h] = headers[h]
         /\ headers'[Len(headers) + 1] = b
<1>1. PICK hs : hs = headers'
  OBVIOUS
<1>2. /\ Len(headers) \in Nat /\ DOMAIN headers = 1..Len(headers)
      /\ DOMAIN headers' = 1..(Len(headers) + 1) /\ Len(headers') = Len(headers) + 1
      /\ \A h \in DOMAIN headers : headers'[h] = headers[h]
      /\ headers'[Len(headers) + 1] = b
  BY AppendFacts DEF LInv, CInv, HeadersOK
<1>3. Older(headers)
  BY HeadersOlder
<1>4. Older(hs)
  <2>1. \A g \in DOMAIN hs : hs[g].parent \in 0..(g - 1)
    BY <1>1 DEF LInv, HeadersMade
  <2> QED BY <1>1, <1>2, <2>1 DEF Older
<1>5. Grows(headers, hs)
  BY <1>1, <1>2, <1>3, <1>4 DEF Grows
<1> QED BY <1>1, <1>2, <1>5

LEMMA MadeInit == Init => MadeOK
<1> SUFFICES ASSUME Init PROVE MadeOK
  OBVIOUS
<1>1. 2..Len(headers) = {}
  BY DEF Init
<1> QED BY <1>1, Zenon DEF MadeOK

LEMMA MadeStep ==
  ASSUME LInv, LInv', MadeOK, [Next]_chainVars
  PROVE  MadeOK'
<1>1. ASSUME NEW p \in DOMAIN headers, NEW draft \in Drafts,
             NEW expects \in Expectations, TakeNewBlock(p, draft, expects)
      PROVE  MadeOK'
  <2>1. PICK b : b = Spoiled(HonestBlock(p, draft.txs, draft.withdrawals), draft.flaw)
    OBVIOUS
  <2>2. headers' = Append(headers, b)
    BY <1>1, <2>1 DEF TakeNewBlock
  <2>3. /\ Grows(headers, headers')
        /\ Len(headers) \in Nat /\ DOMAIN headers = 1..Len(headers)
        /\ Len(headers') = Len(headers) + 1
        /\ \A h \in DOMAIN headers : headers'[h] = headers[h]
        /\ headers'[Len(headers) + 1] = b
    BY <2>2, HeadersGrow
  <2>4. PICK hs : hs = headers'
    OBVIOUS
  <2>5. Grows(headers, hs) /\ Older(hs)
    BY <2>3, <2>4 DEF Grows
  <2>6. ASSUME NEW h \in 2..Len(hs)
        PROVE  DOMAIN hs[h] = HeaderFields /\ MadeAs(hs, hs[h])
    <3>1. CASE h \in 2..Len(headers)
      <4>1. hs[h] = headers[h] /\ h \in DOMAIN headers
        BY <2>3, <2>4, <3>1
      <4>2. DOMAIN headers[h] = HeaderFields /\ MadeAs(headers, headers[h])
        BY <3>1 DEF MadeOK
      <4>3. headers[h].parent \in 0..(h - 1)
        BY <4>1 DEF LInv, HeadersMade
      <4>4. headers[h].parent \in DOMAIN hs => headers[h].parent \in DOMAIN headers
        <5>1. DOMAIN hs = 1..(Len(headers) + 1)
          BY <2>3, <2>4, <2>5 DEF Older
        <5> QED BY <2>3, <3>1, <4>3, <5>1
      <4> QED BY <2>5, <4>1, <4>2, <4>4, MadeAsKept
    <3>2. CASE h = Len(headers) + 1
      <4>1. hs[h] = b
        BY <2>3, <2>4, <3>2
      <4>2. DOMAIN b = HeaderFields /\ MadeAs(headers, b)
        BY <2>1, NewMade DEF LInv
      <4>3. b.parent \in {p, NoHash}
        BY <2>1, NewBlockFields
      <4>4. b.parent \in DOMAIN hs => b.parent \in DOMAIN headers
        BY <2>5, <4>3 DEF Older, NoHash
      <4> QED BY <2>5, <4>1, <4>2, <4>4, MadeAsKept
    <3> QED BY <2>3, <2>4, <3>1, <3>2
  <2>7. \A h \in 2..Len(headers') : DOMAIN headers'[h] = HeaderFields /\ MadeAs(headers', headers'[h])
    BY <2>4, <2>6
  <2> QED BY <2>7, Zenon DEF MadeOK
<1>2. ASSUME UNCHANGED <<headers, blocks>> PROVE MadeOK'
  BY <1>2 DEF MadeOK
<1>3. CASE AcceptBlock
  BY <1>3 DEF AcceptBlock, MadeOK
<1> QED BY <1>1, <1>2, <1>3, OtherSteps

-----------------------------------------------------------------------------
(* The block in hand follows the rules                                     *)

(* The rules can be applied to a block in hand whose header is good. *)
LEMMA InHandRun ==
  ASSUME NInv, MadeOK, current.hash \in DOMAIN headers, Block.parent \in Accepted,
         HeaderError(headers[Block.parent], Block) = NoException
  PROVE  RunTyped(headers, Block) /\ current.hash \in 2..Len(headers)
<1>1. PICK b, p : b = Block /\ p = b.parent /\ b = headers[current.hash]
  BY DEF Block
<1>2. Len(headers) \in Nat /\ DOMAIN headers = 1..Len(headers) /\ Len(headers) <= MaxBlocks + 1
  BY AppendFacts DEF NInv, LInv, CInv, HeadersOK, HeadersMade
<1>3. b.baseFee \in Nat /\ p \in DOMAIN headers
  BY <1>1, HeaderFee DEF NInv
<1>4. current.hash \in 2..Len(headers)
  <2>1. headers[1].parent = NoHash
    BY ChainAssumption DEF NInv, LInv, HeadersMade
  <2>2. p # NoHash
    BY <1>2, <1>3 DEF NoHash
  <2>3. current.hash # 1
    BY <1>1, <2>1, <2>2
  <2> QED BY <1>2, <2>3
<1>5. DOMAIN b = HeaderFields
  BY <1>1, <1>4 DEF MadeOK
<1>6. b.txs \in Seq(TxRecord) /\ b.number \in Values
  <2>1. b.txs \in Seq(TxRecord) /\ b.number \in 0..(2 * MaxBlocks)
    BY <1>1, InHandTyped
  <2> QED BY <2>1, ChainAssumption, HashAssumption
<1>7. headers[p].stateRoot \in AccountMap
  <2>1. PICK i \in DOMAIN blocks : blocks[i].hash = p
    BY <1>1 DEF Accepted
  <2>2. blocks[i].sigma = headers[p].stateRoot /\ blocks[i].sigma \in AccountMap
    BY <2>1 DEF NInv, VInv, StatesOK, StatesUsed
  <2> QED BY <2>2
<1>8. \A n : HashIn(headers, b, n) \in Values
  <2>1. Older(headers)
    BY HeadersOlder DEF NInv
  <2> QED BY <1>1, <1>2, <1>3, <2>1, HashesTyped
<1> QED BY <1>1, <1>3, <1>4, <1>5, <1>6, <1>7, <1>8 DEF RunTyped

(* BLOCKHASH has answered with the ancestor in the first n transactions. *)
Sees(n) ==
  \A m \in 1..n :
    BlockHash(Block.number, Block.txs[m].asks) = HashIn(headers, Block, Block.txs[m].asks)

(* The state s is the one of the run r, but for what the contracts that    *)
(* saw another hash have stored.                                           *)
Follows(s, r, sees) ==
  /\ s.gasUsed = r.gasUsed /\ s.receipts = r.receipts
  /\ Alike(s.accountMap, r.accountMap)
  /\ sees => s.accountMap = r.accountMap

(* What the rules have led to where the block in hand stands. *)
Ruled(hs, b, n, ended) ==
  LET r == RunAt(hs, b, n)
  IN  IF ended THEN [r EXCEPT !.accountMap = ApplyWithdrawals(@, b.withdrawals)] ELSE r

(* The first n transactions of b were let through by the rules. *)
Passed(hs, b, n) ==
  \A m \in 1..n : TransactionError(RunAt(hs, b, m - 1), b, b.txs[m]) = NoException

WorkRuled ==
  phase \in {"transactions", "validate"} =>
    /\ Block.wellFormed
    /\ Passed(headers, Block, next - 1)
    /\ work.logs = IF next = 1 THEN acc.logs ELSE LogsOf(Block.txs[next - 1])
    /\ Follows(work, Ruled(headers, Block, next - 1, phase = "validate"), Sees(next - 1))

HInv == NInv /\ MadeOK /\ WorkRuled

LEMMA HInvInit == Init => HInv
BY NInvInit, MadeInit DEF Init, HInv, WorkRuled

(* The state e is what T makes of the state s, but for its logs. *)
Makes(e, s, b, T, seen) ==
  /\ e.accountMap = Upsilon(s.accountMap, b, T, seen)
  /\ e.gasUsed = s.gasUsed + T.gasUsed
  /\ e.receipts = Append(s.receipts, [ok |-> ~T.fails, gas |-> s.gasUsed + T.gasUsed,
                                      logs |-> LogsOf(T)])

LEMMA ExecutedFields ==
  ASSUME NEW s, NEW b, NEW T, NEW seen, NEW e, e = Executed(s, b, T, seen)
  PROVE  Makes(e, s, b, T, seen) /\ e.logs = LogsOf(T)
         /\ DOMAIN e = {"accountMap", "gasUsed", "receipts", "logs"}
<1>1. PICK tau, receipts : /\ tau = Upsilon(s.accountMap, b, T, seen)
                           /\ receipts = Append(s.receipts,
                                [ok |-> ~T.fails, gas |-> s.gasUsed + T.gasUsed,
                                 logs |-> LogsOf(T)])
  OBVIOUS
<1>2. e = [accountMap |-> tau, gasUsed |-> s.gasUsed + T.gasUsed,
           receipts |-> receipts, logs |-> LogsOf(T)]
  BY <1>1, Zenon DEF Executed
<1>3. /\ e.accountMap = tau /\ e.gasUsed = s.gasUsed + T.gasUsed /\ e.receipts = receipts
      /\ e.logs = LogsOf(T) /\ DOMAIN e = {"accountMap", "gasUsed", "receipts", "logs"}
  BY <1>2
<1> QED BY <1>1, <1>3, Zenon DEF Makes

LEMMA StepFields ==
  ASSUME NEW hs, NEW b, NEW r, NEW T, NEW seen, seen = HashIn(hs, b, T.asks),
         NEW e, e = RunStep(hs, b, r, T)
  PROVE  Makes(e, r, b, T, seen)
<1>1. PICK s : s = Executed(r, b, T, seen)
  OBVIOUS
<1>2. e = [s EXCEPT !.logs = @ \cup r.logs]
  BY <1>1 DEF RunStep
<1>3. Makes(s, r, b, T, seen) /\ DOMAIN s = {"accountMap", "gasUsed", "receipts", "logs"}
  BY <1>1, ExecutedFields
<1>4. e.accountMap = s.accountMap /\ e.gasUsed = s.gasUsed /\ e.receipts = s.receipts
  BY <1>2, <1>3
<1> QED BY <1>3, <1>4, Zenon DEF Makes

LEMMA BeginRuled ==
  ASSUME HInv, BeginBlock
  PROVE  WorkRuled'
<1>1. /\ UNCHANGED <<headers, blocks, acc, current, next>>
      /\ phase = "header" /\ phase' = "transactions" /\ EarlyError = NoException
      /\ work' = [acc EXCEPT !.accountMap = BeaconCall(Found(Block.parent).sigma, Block),
                             !.gasUsed = 0,
                             !.receipts = <<>>]
  BY DEF BeginBlock
<1>2. NInv /\ MadeOK
  BY DEF HInv
<1>3. next = 1 /\ current.hash \in DOMAIN headers
  BY <1>1, <1>2 DEF NInv, FInv, GInv, CInv, InHandGas, InHandOK
<1>4. Block.parent \in Accepted
  BY <1>1, EarlyErrorNone
<1>5. Block.wellFormed
  BY <1>1 DEF EarlyError, NoException
<1>6. RunTyped(headers, Block)
  BY <1>1, <1>2, <1>3, <1>4, EarlyChecks, InHandRun
<1>7. PICK r : r = RunAt(headers, Block, 0)
  OBVIOUS
<1>8. r = RunStart(headers, Block) /\ r \in RunStates
  BY <1>6, <1>7, RunSteps, RunStartType
<1>9. Found(Block.parent).sigma = headers[Block.parent].stateRoot
  <2>1. PICK i \in DOMAIN blocks : Found(Block.parent) = blocks[i] /\ blocks[i].hash = Block.parent
    BY <1>2, <1>4, FoundHasHash DEF NInv, VInv, CInv
  <2> QED BY <1>2, <2>1 DEF NInv, VInv, StatesOK
<1>10. /\ work'.accountMap = r.accountMap /\ work'.gasUsed = r.gasUsed
       /\ work'.receipts = r.receipts /\ work'.logs = acc.logs
  <2>1. DOMAIN acc = StateFields
    BY <1>2 DEF NInv, FInv, GInv, FieldsOK
  <2>2. PICK tau : tau = BeaconCall(Found(Block.parent).sigma, Block)
    OBVIOUS
  <2>3. /\ work'.accountMap = tau /\ work'.gasUsed = 0
        /\ work'.receipts = <<>> /\ work'.logs = acc.logs
    BY <1>1, <2>1, <2>2 DEF StateFields
  <2>4. r.accountMap = tau /\ r.gasUsed = 0 /\ r.receipts = <<>>
    BY <1>8, <1>9, <2>2 DEF RunStart
  <2> QED BY <2>3, <2>4
<1>11. \A sees : Follows(work', r, sees)
  BY <1>8, <1>10, AlikeReflexive DEF Follows, RunStates
<1>12. Ruled(headers, Block, 0, FALSE) = r
  BY <1>7 DEF Ruled
<1>13. Passed(headers, Block, 0)
  BY DEF Passed
<1>14. Block' = Block /\ headers' = headers /\ next' = 1 /\ next' - 1 = 0
       /\ (phase' = "validate") = FALSE /\ acc' = acc
  BY <1>1, <1>3 DEF Block
<1> QED BY <1>5, <1>10, <1>11, <1>12, <1>13, <1>14, Zenon DEF WorkRuled

(* A transaction that the code lets through is let through by the rules,   *)
(* and leads to the same state unless BLOCKHASH has misled it.             *)
LEMMA ExecuteRuled ==
  ASSUME HInv, ExecuteTransaction
  PROVE  WorkRuled'
<1>1. PICK T, seen, sigma, tau, b, r :
        /\ T = Block.txs[next] /\ seen = BlockHash(Block.number, T.asks)
        /\ sigma = work.accountMap /\ tau = Upsilon(sigma, Block, T, seen)
        /\ b = Block /\ r = RunAt(headers, b, next - 1)
  OBVIOUS
<1>2. /\ UNCHANGED <<headers, blocks, acc, current, phase>>
      /\ phase = "transactions" /\ next <= Len(Block.txs) /\ next' = next + 1
      /\ TransactionError(work, Block, T) = NoException
      /\ work' = Executed(work, Block, T, seen)
  BY <1>1 DEF ExecuteTransaction, Transaction
<1>3. NInv /\ MadeOK
  BY DEF HInv
<1>4. RunTyped(headers, b)
  BY <1>1, <1>2, <1>3, InHandRun, InHandDrafted DEF NInv, FInv, HeaderOK, LInv, CInv, InHandOK
<1>5. next \in Nat /\ next \in 1..Len(b.txs) /\ T \in TxRecord /\ Len(b.txs) \in Nat
  <2>1. next \in Nat /\ next >= 1
    BY <1>2, <1>3 DEF NInv, FInv, GInv, InHandGas, GasSoFar
  <2>2. b.txs \in Seq(TxRecord)
    BY <1>4 DEF RunTyped
  <2>3. next \in 1..Len(b.txs) /\ Len(b.txs) \in Nat
    BY <1>1, <1>2, <2>1, <2>2
  <2> QED BY <1>1, <2>1, <2>2, <2>3
<1>6. /\ b.wellFormed /\ Passed(headers, b, next - 1)
      /\ Follows(work, r, Sees(next - 1))
  <2>1. Ruled(headers, b, next - 1, phase = "validate") = r
    BY <1>1, <1>2 DEF Ruled
  <2> QED BY <1>1, <1>2, <2>1 DEF HInv, WorkRuled
<1>7. PICK u : u = RunStep(headers, b, r, T)
  OBVIOUS
<1>8. u = RunAt(headers, b, next) /\ r \in RunStates
  <2>1. RunAt(headers, b, next) = RunStep(headers, b, RunAt(headers, b, next - 1), b.txs[next])
    BY <1>4, <1>5, RunSteps
  <2>2. next - 1 \in 0..Len(b.txs)
    BY <1>5
  <2> QED BY <1>1, <1>4, <1>7, <2>1, <2>2, RunSteps
<1>9. TransactionError(r, b, T) = NoException
  BY <1>1, <1>2, <1>5, <1>6, TransactionAlike DEF Follows
<1>10. Passed(headers, b, next)
  <2>1. ASSUME NEW m \in 1..next
        PROVE  TransactionError(RunAt(headers, b, m - 1), b, b.txs[m]) = NoException
    <3>1. CASE m = next
      BY <1>1, <1>9, <3>1
    <3>2. CASE m # next
      <4>1. m \in 1..(next - 1)
        BY <1>5, <3>2
      <4> QED BY <1>6, <4>1 DEF Passed
    <3> QED BY <3>1, <3>2
  <2> QED BY <2>1 DEF Passed
<1>11. PICK ruled : ruled = HashIn(headers, b, T.asks)
  OBVIOUS
<1>12. Makes(u, r, b, T, ruled)
  BY <1>7, <1>11, StepFields
<1>13. PICK s : s = Executed(work, b, T, seen)
  OBVIOUS
<1>14. Makes(s, work, b, T, seen) /\ s.logs = LogsOf(T)
  BY <1>13, ExecutedFields
<1>15. Alike(s.accountMap, u.accountMap)
  <2>1. Alike(work.accountMap, r.accountMap)
    BY <1>6 DEF Follows
  <2>2. T.asks # NoNumber => ruled \in Values
    BY <1>1, <1>4, <1>5, <1>11 DEF RunTyped
  <2>3. T.asks # NoNumber => seen \in Values
    <3> SUFFICES ASSUME T.asks # NoNumber PROVE seen \in Values
      OBVIOUS
    <3>1. T.asks \in Nat
      BY <1>5 DEF TxRecord
    <3>2. Block.number \in 0..(2 * MaxBlocks)
      BY <1>2, <1>3, InHandDrafted, InHandTyped
    <3> QED BY <1>1, <1>3, <3>1, <3>2, HashesAreValues
  <2>4. b.baseFee \in Int
    BY <1>4 DEF RunTyped
  <2> QED BY <1>5, <1>12, <1>14, <2>1, <2>2, <2>3, <2>4, UpsilonAlike DEF Makes
<1>16. ASSUME Sees(next) PROVE s.accountMap = u.accountMap
  <2>1. Sees(next - 1)
    <3>1. 1..(next - 1) \subseteq 1..next
      BY <1>5
    <3> QED BY <1>16, <3>1 DEF Sees
  <2>2. next \in 1..next
    BY <1>5
  <2>3. seen = ruled
    BY <1>1, <1>11, <1>16, <2>2 DEF Sees
  <2>4. work.accountMap = r.accountMap
    BY <1>6, <2>1 DEF Follows
  <2> QED BY <1>12, <1>14, <2>3, <2>4 DEF Makes
<1>17. s.gasUsed = u.gasUsed /\ s.receipts = u.receipts
  BY <1>6, <1>12, <1>14, Zenon DEF Follows, Makes
<1>18. Follows(s, u, Sees(next))
  BY <1>15, <1>16, <1>17 DEF Follows
<1>19. Ruled(headers, b, next, FALSE) = u
  BY <1>8 DEF Ruled
<1>20. /\ Block' = b /\ headers' = headers /\ next' - 1 = next /\ work' = s
       /\ (phase' = "validate") = FALSE /\ next' # 1 /\ b.txs[next] = T
  BY <1>1, <1>2, <1>5, <1>13 DEF Block
<1>21. Sees(next - 1)' = Sees(next)
  <2>1. /\ headers' = headers /\ blocks' = blocks /\ Block' = Block /\ next' - 1 = next
    BY <1>1, <1>2, <1>20
  <2> QED BY <2>1 DEF Sees, BlockHash
<1> QED BY <1>6, <1>10, <1>14, <1>18, <1>19, <1>20, <1>21, Zenon DEF WorkRuled

LEMMA WithdrawRuled ==
  ASSUME HInv, Withdraw
  PROVE  WorkRuled'
<1>1. PICK b, r, sigma, ws :
        /\ b = Block /\ r = RunAt(headers, b, next - 1)
        /\ sigma = work.accountMap /\ ws = b.withdrawals
  OBVIOUS
<1>2. /\ UNCHANGED <<headers, blocks, acc, current, next>>
      /\ phase = "transactions" /\ phase' = "validate"
      /\ work' = [work EXCEPT !.accountMap = ApplyWithdrawals(@, Block.withdrawals)]
  BY DEF Withdraw
<1>3. NInv /\ MadeOK
  BY DEF HInv
<1>4. RunTyped(headers, b) /\ ws \in Seq(WithdrawalRecord)
  BY <1>1, <1>2, <1>3, InHandRun, InHandDrafted DEF NInv, FInv, HeaderOK, LInv, CInv, InHandOK
<1>5. /\ b.wellFormed /\ Passed(headers, b, next - 1)
      /\ Follows(work, r, Sees(next - 1))
      /\ work.logs = IF next = 1 THEN acc.logs ELSE LogsOf(b.txs[next - 1])
  <2>1. Ruled(headers, b, next - 1, phase = "validate") = r
    BY <1>1, <1>2 DEF Ruled
  <2> QED BY <1>1, <1>2, <2>1 DEF HInv, WorkRuled
<1>6. r \in RunStates
  <2>1. next \in Nat /\ next >= 1 /\ next <= Len(b.txs) + 1
    BY <1>1, <1>2, <1>3 DEF NInv, FInv, GInv, InHandGas, GasSoFar
  <2>2. Len(b.txs) \in Nat
    BY <1>4 DEF RunTyped
  <2>3. next - 1 \in 0..Len(b.txs)
    BY <2>1, <2>2
  <2> QED BY <1>1, <1>4, <2>3, RunSteps
<1>7. PICK tau, rho, u :
        /\ tau = ApplyWithdrawals(sigma, ws) /\ rho = ApplyWithdrawals(r.accountMap, ws)
        /\ u = [r EXCEPT !.accountMap = ApplyWithdrawals(@, ws)]
  OBVIOUS
<1>8. u.accountMap = rho /\ u.gasUsed = r.gasUsed /\ u.receipts = r.receipts
  BY <1>6, <1>7 DEF RunStates
<1>9. /\ work'.accountMap = tau /\ work'.gasUsed = work.gasUsed
      /\ work'.receipts = work.receipts /\ work'.logs = work.logs
  <2>1. DOMAIN work = StateFields
    BY <1>3 DEF NInv, FInv, GInv, FieldsOK
  <2> QED BY <1>1, <1>2, <1>7, <2>1 DEF StateFields
<1>10. Alike(tau, rho)
  BY <1>1, <1>4, <1>5, <1>7, WithdrawalsAlike DEF Follows
<1>11. Sees(next - 1) => tau = rho
  BY <1>1, <1>5, <1>7 DEF Follows
<1>12. Follows(work', u, Sees(next - 1))
  BY <1>5, <1>8, <1>9, <1>10, <1>11 DEF Follows
<1>13. Ruled(headers, b, next - 1, TRUE) = u
  BY <1>1, <1>7 DEF Ruled
<1>14. /\ headers' = headers /\ blocks' = blocks /\ Block' = b /\ next' = next
       /\ acc' = acc /\ (phase' = "validate") = TRUE
  BY <1>1, <1>2 DEF Block
<1>15. Sees(next - 1)' = Sees(next - 1)
  BY <1>1, <1>14 DEF Sees, BlockHash
<1> QED BY <1>5, <1>9, <1>12, <1>13, <1>14, <1>15, Zenon DEF WorkRuled

LEMMA HInvStep == HInv /\ [Next]_chainVars => HInv'
<1> SUFFICES ASSUME HInv, [Next]_chainVars PROVE HInv'
  OBVIOUS
<1>0. NInv' /\ MadeOK'
  <2>1. NInv'
    BY NInvStep DEF HInv
  <2> QED BY <2>1, MadeStep DEF HInv, NInv
<1>1. ASSUME phase' \notin {"transactions", "validate"} PROVE HInv'
  BY <1>0, <1>1 DEF HInv, WorkRuled
<1>2. ASSUME NEW p \in DOMAIN headers, NEW draft \in Drafts,
             NEW expects \in Expectations, TakeNewBlock(p, draft, expects)
      PROVE  HInv'
  BY <1>1, <1>2 DEF TakeNewBlock, Take
<1>3. ASSUME NEW h \in DOMAIN headers, NEW expects \in Expectations,
             TakeOldBlock(h, expects)
      PROVE  HInv'
  BY <1>1, <1>3 DEF TakeOldBlock, Take
<1>4. ASSUME NEW last, NEW kind, EndTest(last, kind)
      PROVE  HInv'
  <2>1. phase' \in {"passed", "failed"}
    BY <1>4 DEF EndTest
  <2> QED BY <1>1, <2>1
<1>5. CASE \/ RefuseHeader \/ RefuseTransaction \/ RefuseBlock
           \/ CatchExpected \/ CatchUnexpected \/ AcceptBlock
  <2>1. phase' \in {"catch", "idle", "failed"}
    BY <1>5 DEF RefuseHeader, RefuseTransaction, RefuseBlock, Throw,
       CatchExpected, CatchUnexpected, AcceptBlock, Idle
  <2> QED BY <1>1, <2>1
<1>6. CASE UNCHANGED chainVars
  <2>1. /\ headers' = headers /\ blocks' = blocks /\ acc' = acc /\ work' = work
        /\ current' = current /\ next' = next /\ phase' = phase
    BY <1>6 DEF chainVars
  <2>2. Block' = Block
    BY <2>1 DEF Block
  <2>3. Sees(next - 1)' = Sees(next - 1)
    BY <2>1, <2>2 DEF Sees, BlockHash
  <2>4. WorkRuled'
    BY <2>1, <2>2, <2>3, Zenon DEF HInv, WorkRuled
  <2> QED BY <1>0, <2>4 DEF HInv
<1> QED BY <1>0, <1>2, <1>3, <1>4, <1>5, <1>6, BeginRuled, ExecuteRuled, WithdrawRuled
        DEF Next, Author, Runner, HInv

-----------------------------------------------------------------------------
(* A block that obeys the rules passes every check but that of its bloom   *)

(* WellMade, of a block among the headers hs. *)
WellMadeIn(hs, b) ==
  /\ b.wellFormed /\ b.sealed
  /\ b.number = hs[b.parent].number + 1
  /\ b.timestamp > hs[b.parent].timestamp
  /\ HeaderError(hs[b.parent], b) = NoException
  /\ \A n \in DOMAIN b.txs : Fits(RunAt(hs, b, n - 1), b, b.txs[n])
  /\ b.gasUsed = RunOf(hs, b).gasUsed
  /\ b.receiptRoot = RunOf(hs, b).receipts
  /\ b.stateRoot = RunRoot(hs, b)

LEMMA WellMadeIs ==
  ASSUME NEW h
  PROVE  WellMade(h) <=> WellMadeIn(headers, headers[h])
<1>1. PICK b : b = headers[h]
  OBVIOUS
<1>2. \A n : RuleRun([b EXCEPT !.txs = SubSeq(@, 1, n)]) = RunAt(headers, b, n)
  BY RuleRunIs DEF RunAt
<1>3. RuleRun(b) = RunOf(headers, b)
  BY RuleRunIs
<1> QED BY <1>1, <1>2, <1>3, Zenon DEF WellMade, WellMadeIn, RunRoot

(* A block keeps to the rules when others are made. *)
LEMMA WellMadeKept ==
  ASSUME NEW hs, NEW gs, Grows(hs, gs), NEW b, b.parent \in DOMAIN hs, RunTyped(hs, b)
  PROVE  WellMadeIn(gs, b) <=> WellMadeIn(hs, b)
<1>1. /\ RunOf(gs, b) = RunOf(hs, b)
      /\ \A k \in 0..Len(b.txs) : RunAt(gs, b, k) = RunAt(hs, b, k)
  BY RunKept
<1>2. gs[b.parent] = hs[b.parent]
  BY DEF Grows
<1>3. \A n \in DOMAIN b.txs : RunAt(gs, b, n - 1) = RunAt(hs, b, n - 1)
  <2>1. \A n \in DOMAIN b.txs : n - 1 \in 0..Len(b.txs)
    BY DEF RunTyped
  <2> QED BY <1>1, <2>1
<1>4. RunRoot(gs, b) = RunRoot(hs, b)
  BY <1>1 DEF RunRoot
<1> QED BY <1>1, <1>2, <1>3, <1>4, Zenon DEF WellMadeIn

(* The exception is that of a check that fails. *)
LEMMA SomeError ==
  ASSUME NEW checks, DOMAIN checks \subseteq Nat, FirstError(checks) # NoException
  PROVE  \E i \in DOMAIN checks : checks[i].bad /\ FirstError(checks) = checks[i].error
<1> DEFINE first(i) == checks[i].bad /\ \A j \in DOMAIN checks : j < i => ~checks[j].bad
           S == {i \in DOMAIN checks : checks[i].bad}
<1>1. ~\A i \in DOMAIN checks : ~checks[i].bad
  BY DEF FirstError
<1>2. PICK m \in S : \A n \in S : m <= n
  <2>1. S \subseteq Nat /\ S # {}
    BY <1>1
  <2> HIDE DEF S
  <2> QED BY <2>1, LeastNumber
<1>3. m \in DOMAIN checks /\ first(m)
  BY <1>2
<1>4. PICK c : c = CHOOSE i \in DOMAIN checks : first(i)
  OBVIOUS
<1>5. c \in DOMAIN checks /\ first(c)
  <2> HIDE DEF first
  <2> QED BY <1>3, <1>4
<1>6. FirstError(checks) = checks[c].error
  BY <1>1, <1>4 DEF FirstError
<1> QED BY <1>5, <1>6

(* What fits is let through: the sum that is compared in words is not more *)
(* than the sum itself.                                                    *)
LEMMA FitsPasses ==
  ASSUME NEW r, r.accountMap \in AccountMap, r.gasUsed \in Nat, NEW b, b.baseFee \in Int,
         b.gasLimit \in Int,
         NEW T \in TxRecord, Fits(r, b, T)
  PROVE  TransactionError(r, b, T) = NoException
<1>1. PICK sender : sender = AccountAt(r.accountMap, T.sender)
  OBVIOUS
<1>2. /\ T.gasLimit \in Nat /\ T.price \in Nat /\ T.value \in Nat /\ T.sender \in Addr
      /\ WordSize \in Nat /\ T.nonce \in Nat
  BY WordAssumption DEF TxRecord, Word
<1>3. /\ r.gasUsed + T.gasLimit <= b.gasLimit /\ T.price >= b.baseFee
      /\ sender.code = NoCode /\ sender.nonce = T.nonce
      /\ sender.balance >= T.gasLimit * T.price + T.value
  BY <1>1, Zenon DEF Fits
<1>4. sender.balance \in Nat /\ sender.balance < WordSize
  <2>1. sender \in Account
    BY <1>1, <1>2, AccountAtType
  <2>2. sender.balance \in Word
    BY <2>1, AccountFields
  <2> QED BY <1>2, <2>2 DEF Word
<1>5. PICK most : most = T.gasLimit * T.price
  OBVIOUS
<1>6. most \in Nat
  BY <1>2, <1>5
<1>7. most + T.value <= sender.balance /\ most < WordSize
  BY <1>2, <1>3, <1>4, <1>5, <1>6
<1>8. WordAdd(WordMul(T.gasLimit, T.price), T.value) = most + T.value
  <2>1. WordMul(T.gasLimit, T.price) = most
    BY <1>2, <1>5, <1>6, <1>7, WordMulFits
  <2> QED BY <1>2, <1>4, <1>6, <1>7, <2>1 DEF WordAdd
<1> DEFINE checks == <<
      Check(T.gasLimit + r.gasUsed > b.gasLimit, "GAS_ALLOWANCE_EXCEEDED"),
      Check(b.baseFee > T.price, "INSUFFICIENT_MAX_FEE_PER_GAS"),
      Check(sender.code # NoCode, "SENDER_NOT_EOA"),
      Check(T.nonce < sender.nonce, "NONCE_MISMATCH_TOO_LOW"),
      Check(T.nonce > sender.nonce, "NONCE_MISMATCH_TOO_HIGH"),
      Check(WordAdd(WordMul(T.gasLimit, T.price), T.value) > sender.balance,
            "INSUFFICIENT_ACCOUNT_FUNDS")>>
<1>9. TransactionError(r, b, T) = FirstError(checks)
  BY <1>1 DEF TransactionError
<1>10. /\ ~(T.gasLimit + r.gasUsed > b.gasLimit) /\ ~(b.baseFee > T.price)
       /\ ~(sender.code # NoCode) /\ ~(T.nonce < sender.nonce) /\ ~(T.nonce > sender.nonce)
       /\ ~(WordAdd(WordMul(T.gasLimit, T.price), T.value) > sender.balance)
  BY <1>2, <1>3, <1>4, <1>6, <1>7, <1>8
<1>11. \A i \in DOMAIN checks : ~checks[i].bad
  <2>1. DOMAIN checks = 1..6
    OBVIOUS
  <2>2. ~checks[1].bad /\ ~checks[2].bad /\ ~checks[3].bad
    BY <1>10 DEF Check
  <2>3. ~checks[4].bad /\ ~checks[5].bad /\ ~checks[6].bad
    BY <1>10 DEF Check
  <2> HIDE DEF checks
  <2> QED BY <2>1, <2>2, <2>3
<1>12. FirstError(checks) = NoException
  <2> HIDE DEF checks
  <2> QED BY <1>11 DEF FirstError
<1> QED BY <1>9, <1>12

(* What is let through fits, as long as no sum outgrows a word. *)
LEMMA PassesFit ==
  ASSUME WordsSuffice, NEW draft \in Drafts, NEW n \in DOMAIN draft.txs,
         NEW T, T = draft.txs[n], T \in TxRecord,
         NEW r, r.accountMap \in AccountMap, r.gasUsed \in Nat,
         NEW b, b.baseFee \in Int, b.gasLimit \in Int,
         TransactionError(r, b, T) = NoException
  PROVE  Fits(r, b, T)
<1>1. PICK sender : sender = AccountAt(r.accountMap, T.sender)
  OBVIOUS
<1>2. T.gasLimit \in Nat /\ T.price \in Nat /\ T.sender \in Addr /\ T.nonce \in Nat
  BY DEF TxRecord
<1>3. /\ ~(T.gasLimit + r.gasUsed > b.gasLimit) /\ ~(b.baseFee > T.price)
      /\ sender.code = NoCode
      /\ ~(T.nonce < sender.nonce) /\ ~(T.nonce > sender.nonce)
  BY <1>1, TransactionChecks
<1>4. T.gasLimit * T.price + T.value <= sender.balance
  BY <1>1, SenderCanPay DEF BalanceOf
<1>5. sender.nonce \in Nat
  BY <1>1, <1>2, NonceAt
<1>6. sender.balance \in Nat /\ T.gasLimit * T.price + T.value \in Nat
  <2>1. BalanceOf(r.accountMap, T.sender) \in Nat
    BY <1>2, TotalBounds
  <2>2. T.value \in Nat
    BY WordAssumption DEF TxRecord, Word
  <2>3. T.gasLimit * T.price \in Nat
    BY <1>2
  <2> QED BY <1>1, <2>1, <2>2, <2>3 DEF BalanceOf
<1>7. /\ r.gasUsed + T.gasLimit <= b.gasLimit /\ T.price >= b.baseFee
      /\ sender.nonce = T.nonce
  BY <1>2, <1>3, <1>5
<1>8. sender.balance >= T.gasLimit * T.price + T.value
  BY <1>4, <1>6
<1> QED BY <1>1, <1>3, <1>7, <1>8, Zenon DEF Fits

(* The i-th accepted block stands on one accepted before it, and obeys the *)
(* rules. *)
SoundBlock(hs, bs, i) ==
  LET b == hs[bs[i].hash]
  IN  /\ \E j \in 1..(i - 1) : bs[j].hash = b.parent
      /\ RunTyped(hs, b) /\ WellMadeIn(hs, b)

SoundOK == \A i \in 2..Len(blocks) : SoundBlock(headers, blocks, i)

SInv == HInv /\ SoundOK

LEMMA SInvInit == Init => SInv
<1> SUFFICES ASSUME Init PROVE SInv
  OBVIOUS
<1>1. 2..Len(blocks) = {}
  BY DEF Init
<1> QED BY <1>1, HInvInit DEF SInv, SoundOK

(* The state of an accepted block is that of its run: the runner's has the *)
(* same accounts, so nothing was left out where the beneficiary should be. *)
LEMMA AcceptedRoot ==
  ASSUME HInv, phase = "validate", LateError = NoException
  PROVE  /\ RunTyped(headers, Block) /\ next = Len(Block.txs) + 1
         /\ Follows(work, Ruled(headers, Block, Len(Block.txs), TRUE), Sees(Len(Block.txs)))
         /\ Passed(headers, Block, Len(Block.txs)) /\ Block.wellFormed
         /\ Block.stateRoot = RunRoot(headers, Block)
<1>1. PICK b, L : b = Block /\ L = Len(b.txs)
  OBVIOUS
<1>2. NInv /\ MadeOK /\ WorkRuled
  BY DEF HInv
<1>3. /\ current.hash \in DOMAIN headers /\ Block.parent \in Accepted
      /\ Block.parent \in DOMAIN headers
  BY <1>2, InHandDrafted DEF NInv, LInv, CInv, InHandOK
<1>4. RunTyped(headers, b) /\ current.hash \in 2..Len(headers)
  BY <1>1, <1>2, <1>3, InHandRun DEF NInv, FInv, HeaderOK
<1>5. next = L + 1 /\ L \in Nat /\ next - 1 = L
  <2>1. next = L + 1
    BY <1>1, <1>2 DEF NInv, WorkUsed
  <2>2. L \in Nat
    BY <1>1, <1>4 DEF RunTyped
  <2> QED BY <2>1, <2>2
<1>6. PICK u : u = Ruled(headers, b, L, TRUE)
  OBVIOUS
<1>7. b.wellFormed /\ Passed(headers, b, L) /\ Follows(work, u, Sees(L))
  <2>1. (phase = "validate") = TRUE
    OBVIOUS
  <2> QED BY <1>1, <1>2, <1>5, <1>6, <2>1, Zenon DEF WorkRuled
<1>8. u.accountMap = RunRoot(headers, b)
  <2>1. PICK r : r = RunAt(headers, b, L)
    OBVIOUS
  <2>2. r = RunOf(headers, b) /\ r \in RunStates
    <3>1. L \in 0..L
      BY <1>5
    <3> QED BY <1>1, <1>4, <2>1, <3>1, RunSteps
  <2>3. u = [r EXCEPT !.accountMap = ApplyWithdrawals(@, b.withdrawals)]
    BY <1>6, <2>1 DEF Ruled
  <2> QED BY <2>2, <2>3 DEF RunRoot, RunStates
<1>9. b.stateRoot = RunRoot(headers, b)
  <2>1. PICK root : root = RunRoot(headers, b)
    OBVIOUS
  <2>2. Alike(work.accountMap, root)
    BY <1>7, <1>8, <2>1 DEF Follows
  <2>3. b.stateRoot = work.accountMap /\ b.number = headers[b.parent].number + 1
    BY <1>1, LateErrorNone
  <2>4. b.stateRoot \in {root, [root EXCEPT ![Beneficiary] = NoAccount]}
    <3>1. MadeAs(headers, b)
      BY <1>1, <1>2, <1>4 DEF MadeOK, Block
    <3>2. b.baseFee = ExpectedBaseFee(headers[b.parent])
      BY <1>1, <1>2, InHandFee DEF NInv
    <3> QED BY <1>1, <1>3, <1>4, <2>1, <2>3, <3>1, <3>2, Zenon DEF MadeAs
  <2>5. CASE b.stateRoot = [root EXCEPT ![Beneficiary] = NoAccount]
    <3>1. root \in AccountMap /\ Beneficiary \in Addr
      BY <2>2, ChainAssumption DEF Alike
    <3>2. b.stateRoot[Beneficiary] = NoAccount
      BY <2>5, <3>1 DEF AccountMap
    <3>3. ~Exists(root, Beneficiary)
      BY <2>2, <2>3, <3>1, <3>2 DEF Alike, Exists
    <3>4. root[Beneficiary] = NoAccount
      BY <3>3 DEF Exists
    <3> QED BY <2>1, <2>5, <3>1, <3>4 DEF AccountMap
  <2> QED BY <2>1, <2>4, <2>5
<1> QED BY <1>1, <1>4, <1>5, <1>6, <1>7, <1>9

LEMMA AcceptedMade ==
  ASSUME HInv, WordsSuffice, phase = "validate", LateError = NoException
  PROVE  WellMadeIn(headers, Block)
<1>1. PICK b, L : b = Block /\ L = Len(b.txs)
  OBVIOUS
<1>2. NInv
  BY DEF HInv
<1>3. /\ RunTyped(headers, b) /\ b.wellFormed /\ Passed(headers, b, L)
      /\ b.stateRoot = RunRoot(headers, b)
      /\ Follows(work, Ruled(headers, b, L, TRUE), Sees(L))
  BY <1>1, AcceptedRoot
<1>4. L \in Nat /\ DOMAIN b.txs = 1..L /\ b.txs \in Seq(TxRecord) /\ b.baseFee \in Int
  BY <1>1, <1>3 DEF RunTyped
<1>5. PICK r : r = RunOf(headers, b)
  OBVIOUS
<1>6. work.gasUsed = r.gasUsed /\ work.receipts = r.receipts
  <2>1. PICK s : s = RunAt(headers, b, L)
    OBVIOUS
  <2>2. s = r /\ s \in RunStates
    <3>1. L \in 0..L
      BY <1>4
    <3> QED BY <1>1, <1>3, <1>5, <2>1, <3>1, RunSteps
  <2>3. Ruled(headers, b, L, TRUE) = [s EXCEPT !.accountMap = ApplyWithdrawals(@, b.withdrawals)]
    BY <2>1 DEF Ruled
  <2> QED BY <1>3, <2>2, <2>3 DEF Follows, RunStates
<1>7. /\ b.number = headers[b.parent].number + 1
      /\ ~(b.timestamp <= headers[b.parent].timestamp)
      /\ b.gasUsed = work.gasUsed /\ b.receiptRoot = work.receipts
      /\ ~(~b.sealed)
  BY <1>1, LateErrorNone
<1>8. /\ current.hash \in DOMAIN headers /\ b.parent \in DOMAIN headers
      /\ HeaderError(headers[b.parent], b) = NoException
  BY <1>1, <1>2, InHandDrafted DEF NInv, FInv, HeaderOK
<1>9. b.timestamp > headers[b.parent].timestamp
  <2>1. b.timestamp \in Int /\ headers[b.parent].timestamp \in Int
    BY <1>1, <1>2, <1>8 DEF NInv, LInv, CInv, HeadersOK, Block
  <2> QED BY <1>7, <2>1
<1>10. ASSUME NEW n \in DOMAIN b.txs
       PROVE  Fits(RunAt(headers, b, n - 1), b, b.txs[n])
  <2>1. PICK draft \in Drafts : b.txs = draft.txs
    BY <1>1, <1>2, InHandDrafted
  <2>2. PICK T, s : T = b.txs[n] /\ s = RunAt(headers, b, n - 1)
    OBVIOUS
  <2>3. n \in DOMAIN draft.txs /\ T = draft.txs[n] /\ T \in TxRecord
    BY <1>4, <2>1, <2>2
  <2>4. s.accountMap \in AccountMap /\ s.gasUsed \in Nat
    <3>1. n - 1 \in 0..Len(b.txs)
      BY <1>1, <1>4
    <3>2. s \in RunStates
      BY <1>3, <2>2, <3>1, RunSteps
    <3> QED BY <3>2 DEF RunStates
  <2>5. TransactionError(s, b, T) = NoException
    BY <1>3, <1>4, <2>2 DEF Passed
  <2>6. b.gasLimit \in Int
    BY <1>1, <1>2, <1>8 DEF NInv, FInv, GInv, GasTyped, Block
  <2> QED BY <1>4, <2>2, <2>3, <2>4, <2>5, <2>6, PassesFit
<1>11. b.sealed
  BY <1>7
<1> QED BY <1>1, <1>3, <1>5, <1>6, <1>7, <1>8, <1>9, <1>10, <1>11, Zenon DEF WellMadeIn

LEMMA SoundKept ==
  ASSUME HInv, SoundOK, UNCHANGED blocks, headers' = headers \/ Grows(headers, headers')
  PROVE  SoundOK'
<1>1. CASE headers' = headers
  BY <1>1 DEF SoundOK
<1>2. CASE Grows(headers, headers')
  <2>1. PICK hs : hs = headers'
    OBVIOUS
  <2>2. ASSUME NEW i \in 2..Len(blocks) PROVE SoundBlock(hs, blocks, i)
    <3>1. PICK b : b = headers[blocks[i].hash]
      OBVIOUS
    <3>2. PICK j \in 1..(i - 1) : blocks[j].hash = b.parent
      BY <3>1 DEF SoundOK, SoundBlock
    <3>3. RunTyped(headers, b) /\ WellMadeIn(headers, b)
      BY <3>1 DEF SoundOK, SoundBlock
    <3>4. blocks[i].hash \in DOMAIN headers /\ blocks[j].hash \in DOMAIN headers
      <4>1. DOMAIN blocks = 1..Len(blocks) /\ Len(blocks) \in Nat
        BY AppendFacts DEF HInv, NInv, LInv, CInv, BlocksOK
      <4>2. i \in DOMAIN blocks /\ j \in DOMAIN blocks
        BY <4>1
      <4> QED BY <4>2 DEF HInv, NInv, LInv, CInv, BlocksOK
    <3>5. hs[blocks[i].hash] = b
      BY <1>2, <2>1, <3>1, <3>4 DEF Grows
    <3>6. RunTyped(hs, b) /\ WellMadeIn(hs, b)
      BY <1>2, <2>1, <3>2, <3>3, <3>4, RunKept, WellMadeKept
    <3> QED BY <3>2, <3>5, <3>6 DEF SoundBlock
  <2> QED BY <2>1, <2>2 DEF SoundOK
<1> QED BY <1>1, <1>2

LEMMA AcceptSound ==
  ASSUME HInv, SoundOK, WordsSuffice, AcceptBlock
  PROVE  SoundOK'
<1>1. PICK entry : entry = [hash |-> current.hash, sigma |-> work.accountMap]
  OBVIOUS
<1>2. /\ blocks' = Append(blocks, entry) /\ headers' = headers
      /\ phase = "validate" /\ LateError = NoException
  BY <1>1 DEF AcceptBlock
<1>3. /\ Len(blocks) \in Nat /\ DOMAIN blocks = 1..Len(blocks)
      /\ Len(blocks') = Len(blocks) + 1
      /\ \A i \in 1..Len(blocks) : blocks'[i] = blocks[i]
      /\ blocks'[Len(blocks) + 1] = entry
  <2>1. \E S : blocks \in Seq(S)
    BY DEF HInv, NInv, LInv, CInv, BlocksOK
  <2> QED BY <1>2, <2>1, AppendFacts
<1>4. PICK bs : bs = blocks'
  OBVIOUS
<1>5. ASSUME NEW i \in 2..Len(bs) PROVE SoundBlock(headers, bs, i)
  <2>1. CASE i \in 2..Len(blocks)
    <3>1. SoundBlock(headers, blocks, i)
      BY <2>1 DEF SoundOK
    <3>2. bs[i] = blocks[i] /\ \A j \in 1..(i - 1) : bs[j] = blocks[j]
      BY <1>3, <1>4, <2>1
    <3> QED BY <3>1, <3>2 DEF SoundBlock
  <2>2. CASE i = Len(blocks) + 1
    <3>1. PICK b : b = Block /\ b = headers[entry.hash]
      BY <1>1 DEF Block
    <3>2. RunTyped(headers, b) /\ WellMadeIn(headers, b)
      BY <1>2, <3>1, AcceptedRoot, AcceptedMade
    <3>3. PICK j \in DOMAIN blocks : blocks[j].hash = b.parent
      BY <1>2, <3>1, InHandDrafted DEF HInv
    <3>4. j \in 1..(i - 1) /\ bs[j].hash = b.parent
      BY <1>3, <1>4, <2>2, <3>3
    <3>5. headers[bs[i].hash] = b
      BY <1>3, <1>4, <2>2, <3>1
    <3> QED BY <3>2, <3>4, <3>5 DEF SoundBlock
  <2> QED BY <1>3, <1>4, <2>1, <2>2
<1> QED BY <1>2, <1>4, <1>5 DEF SoundOK

LEMMA SInvStep == SInv /\ WordsSuffice /\ [Next]_chainVars => SInv'
<1> SUFFICES ASSUME SInv, WordsSuffice, [Next]_chainVars PROVE SInv'
  OBVIOUS
<1>1. HInv /\ SoundOK
  BY DEF SInv
<1>2. HInv'
  BY <1>1, HInvStep
<1>3. ASSUME NEW p \in DOMAIN headers, NEW draft \in Drafts,
             NEW expects \in Expectations, TakeNewBlock(p, draft, expects)
      PROVE  SoundOK'
  <2>1. blocks' = blocks /\ \E b : headers' = Append(headers, b)
    BY <1>3 DEF TakeNewBlock, Take
  <2>2. Grows(headers, headers')
    BY <1>1, <1>2, <2>1, HeadersGrow DEF HInv, NInv
  <2> QED BY <1>1, <2>1, <2>2, SoundKept
<1>4. ASSUME AcceptBlock PROVE SoundOK'
  BY <1>1, <1>4, AcceptSound
<1>5. ASSUME UNCHANGED <<headers, blocks>> PROVE SoundOK'
  BY <1>1, <1>5, SoundKept
<1>6. SoundOK'
  BY <1>3, <1>4, <1>5, OtherSteps
<1> QED BY <1>2, <1>6 DEF SInv

(* As long as no sum of a test outgrows a word, every accepted block obeys *)
(* the rules on the state of its own ancestors, whatever forks, repeats or *)
(* was refused before it (processBlocks, validateBlock).                   *)
THEOREM AcceptedAreSound == WordsSuffice => (Spec => []AcceptedSound)
<1> SUFFICES ASSUME WordsSuffice PROVE Spec => []AcceptedSound
  OBVIOUS
<1>1. Init => SInv
  BY SInvInit
<1>2. SInv /\ [Next]_chainVars => SInv'
  BY SInvStep
<1>3. SInv => AcceptedSound
  <2> SUFFICES ASSUME SInv, NEW i \in 2..Len(blocks)
               PROVE  LET b == headers[blocks[i].hash]
                      IN  /\ \E j \in 1..(i - 1) : blocks[j].hash = b.parent
                          /\ WellMade(blocks[i].hash)
                          /\ blocks[i].sigma = b.stateRoot
    BY Zenon DEF AcceptedSound
  <2>1. SoundBlock(headers, blocks, i)
    BY DEF SInv, SoundOK
  <2>2. WellMade(blocks[i].hash)
    BY <2>1, WellMadeIs DEF SoundBlock
  <2>3. blocks[i].sigma = headers[blocks[i].hash].stateRoot
    <3>1. i \in DOMAIN blocks
      BY AppendFacts DEF SInv, HInv, NInv, LInv, CInv, BlocksOK
    <3> QED BY <3>1 DEF SInv, HInv, NInv, VInv, StatesOK
  <2> QED BY <2>1, <2>2, <2>3 DEF SoundBlock
<1> QED BY <1>1, <1>2, <1>3, PTL DEF Spec

-----------------------------------------------------------------------------
(* What a block that obeys the rules is refused for                        *)

(* OnlyBloomRejects, of the exception e and the block in hand. *)
OnlyBloom(e) ==
  (/\ e # "MissedExpectedException"
   /\ Block.parent \in Accepted
   /\ WellMadeIn(headers, Block)) =>
     \/ e = "INVALID_LOG_BLOOM" /\ BloomOfLast(Block) # Block.logsBloom
     \/ /\ e = "INVALID_STATE_ROOT"
        /\ \E n \in DOMAIN Block.txs :
             BlockHash(Block.number, Block.txs[n].asks) # HashIn(headers, Block, Block.txs[n].asks)

LEMMA OnlyBloomIs == OnlyBloom(raised) => OnlyBloomRejects
<1>1. WellMade(current.hash) <=> WellMadeIn(headers, Block)
  BY WellMadeIs DEF Block
<1>2. \A n : AncestorHash(Block, n) = HashIn(headers, Block, n)
  BY AncestorHashIs
<1> QED BY <1>1, <1>2, Zenon DEF OnlyBloom, OnlyBloomRejects

(* The header is not refused. *)
LEMMA HeaderRefusal ==
  ASSUME HInv, phase = "header", EarlyError # NoException
  PROVE  OnlyBloom(EarlyError)
<1> SUFFICES ASSUME Block.parent \in Accepted, WellMadeIn(headers, Block)
             PROVE  FALSE
  BY DEF OnlyBloom
<1>1. Block.wellFormed /\ HeaderError(headers[Block.parent], Block) = NoException
  BY DEF WellMadeIn
<1>2. Block.parent # NoHash
  <2>1. Block.parent \in DOMAIN headers
    BY AcceptedIn DEF HInv, NInv, LInv, CInv
  <2>2. DOMAIN headers = 1..Len(headers)
    BY AppendFacts DEF HInv, NInv, LInv, CInv, HeadersOK
  <2> QED BY <2>1, <2>2 DEF NoHash
<1> QED BY <1>1, <1>2 DEF EarlyError

(* No transaction is refused. *)
LEMMA TransactionRefusal ==
  ASSUME HInv, phase = "transactions", next <= Len(Block.txs),
         TransactionError(work, Block, Transaction) # NoException
  PROVE  OnlyBloom(TransactionError(work, Block, Transaction))
<1> SUFFICES ASSUME WellMadeIn(headers, Block)
             PROVE  FALSE
  BY DEF OnlyBloom
<1>1. PICK b, T, r : b = Block /\ T = b.txs[next] /\ r = RunAt(headers, b, next - 1)
  OBVIOUS
<1>2. NInv /\ MadeOK
  BY DEF HInv
<1>3. /\ RunTyped(headers, b) /\ current.hash \in DOMAIN headers
  BY <1>1, <1>2, InHandRun, InHandDrafted DEF NInv, FInv, HeaderOK, LInv, CInv, InHandOK
<1>4. next \in Nat /\ next \in DOMAIN b.txs /\ T \in TxRecord /\ next - 1 \in 0..Len(b.txs)
  <2>1. next \in Nat /\ next >= 1
    BY <1>2 DEF NInv, FInv, GInv, InHandGas, GasSoFar
  <2>2. b.txs \in Seq(TxRecord)
    BY <1>3 DEF RunTyped
  <2>3. next \in 1..Len(b.txs) /\ Len(b.txs) \in Nat /\ DOMAIN b.txs = 1..Len(b.txs)
    BY <1>1, <2>1, <2>2
  <2> QED BY <1>1, <2>1, <2>2, <2>3
<1>5. r \in RunStates /\ r.accountMap \in AccountMap /\ r.gasUsed \in Nat
  <2>1. r \in RunStates
    BY <1>1, <1>3, <1>4, RunSteps
  <2> QED BY <2>1 DEF RunStates
<1>6. Follows(work, r, Sees(next - 1))
  <2>1. Ruled(headers, b, next - 1, phase = "validate") = r
    BY <1>1 DEF Ruled
  <2> QED BY <1>1, <2>1 DEF HInv, WorkRuled
<1>7. TransactionError(r, b, T) = NoException
  <2>1. Fits(r, b, T)
    BY <1>1, <1>4 DEF WellMadeIn
  <2>2. b.baseFee \in Int /\ b.gasLimit \in Int
    BY <1>1, <1>2, <1>3 DEF RunTyped, NInv, FInv, GInv, GasTyped, Block
  <2> QED BY <1>4, <1>5, <2>1, <2>2, FitsPasses
<1>8. TransactionError(work, b, T) = TransactionError(r, b, T)
  BY <1>4, <1>6, TransactionAlike DEF Follows
<1> QED BY <1>1, <1>7, <1>8 DEF Transaction

(* In the end only the bloom is wrong, or the state if BLOCKHASH was. *)
LEMMA BlockRefusal ==
  ASSUME HInv, phase = "validate", LateError # NoException
  PROVE  OnlyBloom(LateError)
<1> SUFFICES ASSUME LateError # "MissedExpectedException", Block.parent \in Accepted,
                    WellMadeIn(headers, Block)
             PROVE  \/ /\ LateError = "INVALID_LOG_BLOOM"
                       /\ BloomOfLast(Block) # Block.logsBloom
                    \/ /\ LateError = "INVALID_STATE_ROOT"
                       /\ \E n \in DOMAIN Block.txs :
                            BlockHash(Block.number, Block.txs[n].asks)
                              # HashIn(headers, Block, Block.txs[n].asks)
  BY Zenon DEF OnlyBloom
<1>1. PICK b, parent, L : b = Block /\ parent = headers[b.parent] /\ L = Len(b.txs)
  OBVIOUS
<1>2. NInv /\ MadeOK /\ WorkRuled
  BY DEF HInv
<1>3. RunTyped(headers, b) /\ current.hash \in DOMAIN headers /\ b.parent \in DOMAIN headers
  BY <1>1, <1>2, InHandRun, InHandDrafted DEF NInv, FInv, HeaderOK, LInv, CInv, InHandOK
<1>4. L \in Nat /\ DOMAIN b.txs = 1..L /\ next = L + 1 /\ next - 1 = L /\ b.txs \in Seq(TxRecord)
  <2>1. next = L + 1
    BY <1>1, <1>2 DEF NInv, WorkUsed
  <2>2. L \in Nat /\ DOMAIN b.txs = 1..L /\ b.txs \in Seq(TxRecord)
    BY <1>1, <1>3 DEF RunTyped
  <2> QED BY <2>1, <2>2
<1>5. PICK u : u = Ruled(headers, b, L, TRUE)
  OBVIOUS
<1>6. /\ Follows(work, u, Sees(L))
      /\ work.logs = IF next = 1 THEN acc.logs ELSE LogsOf(b.txs[next - 1])
  <2>1. (phase = "validate") = TRUE
    OBVIOUS
  <2> QED BY <1>1, <1>2, <1>4, <1>5, <2>1, Zenon DEF WorkRuled
<1>7. /\ u.accountMap = RunRoot(headers, b) /\ u.gasUsed = RunOf(headers, b).gasUsed
      /\ u.receipts = RunOf(headers, b).receipts
  <2>1. PICK r : r = RunAt(headers, b, L)
    OBVIOUS
  <2>2. r = RunOf(headers, b) /\ r \in RunStates
    <3>1. L \in 0..L
      BY <1>4
    <3> QED BY <1>1, <1>3, <2>1, <3>1, RunSteps
  <2>3. u = [r EXCEPT !.accountMap = ApplyWithdrawals(@, b.withdrawals)]
    BY <1>5, <2>1 DEF Ruled
  <2> QED BY <2>2, <2>3 DEF RunRoot, RunStates
<1> DEFINE checks ==
      << Check(work.gasUsed # b.gasUsed, "INVALID_GAS_USED"),
         Check(b.timestamp <= parent.timestamp, "INVALID_BLOCK_TIMESTAMP_OLDER_THAN_PARENT"),
         Check(b.number # parent.number + 1, "INVALID_BLOCK_NUMBER"),
         Check(~b.sealed, "EXTRA_DATA_TOO_BIG"),
         Check(b.stateRoot # work.accountMap, "INVALID_STATE_ROOT"),
         Check(b.logsBloom # work.logs, "INVALID_LOG_BLOOM"),
         Check(b.receiptRoot # work.receipts, "INVALID_RECEIPTS_ROOT") >>
<1>8. LateError = FirstError(checks) /\ FirstError(checks) # NoException
  <2>1. BlockError(work, parent, b) = FirstError(checks)
    BY DEF BlockError
  <2> HIDE DEF checks
  <2>2. LateError = IF FirstError(checks) = NoException /\ current.expects # {}
                      THEN "MissedExpectedException" ELSE FirstError(checks)
    BY <1>1, <2>1 DEF LateError
  <2> QED BY <2>2
<1>9. DOMAIN checks = 1..7 /\ DOMAIN checks \subseteq Nat
  OBVIOUS
<1>10. PICK i \in 1..7 : checks[i].bad /\ LateError = checks[i].error
  <2> HIDE DEF checks
  <2> QED BY <1>8, <1>9, SomeError
<1>11. /\ b.sealed /\ b.number = parent.number + 1 /\ b.timestamp > parent.timestamp
       /\ b.gasUsed = work.gasUsed /\ b.receiptRoot = work.receipts
       /\ b.stateRoot = u.accountMap
  BY <1>1, <1>6, <1>7, Zenon DEF WellMadeIn, Follows
<1>12. /\ ~checks[1].bad /\ ~checks[2].bad /\ ~checks[3].bad /\ ~checks[4].bad
       /\ ~checks[7].bad
  <2>1. b.timestamp \in Int /\ parent.timestamp \in Int
    BY <1>1, <1>2, <1>3 DEF NInv, LInv, CInv, HeadersOK, Block
  <2>2. ~(b.timestamp <= parent.timestamp)
    BY <1>11, <2>1
  <2> QED BY <1>11, <2>2 DEF Check
<1>13. /\ checks[5].bad => b.stateRoot # work.accountMap
       /\ checks[5].error = "INVALID_STATE_ROOT"
       /\ checks[6].bad => b.logsBloom # work.logs
       /\ checks[6].error = "INVALID_LOG_BLOOM"
  BY DEF Check
<1> HIDE DEF checks
<1>14. i = 5 \/ i = 6
  BY <1>10, <1>12
<1>15. CASE i = 5
  <2>1. b.stateRoot # work.accountMap /\ LateError = "INVALID_STATE_ROOT"
    BY <1>10, <1>13, <1>15
  <2>2. ~Sees(L)
    BY <1>6, <1>11, <2>1 DEF Follows
  <2>3. \E n \in 1..L : BlockHash(Block.number, Block.txs[n].asks)
                          # HashIn(headers, Block, Block.txs[n].asks)
    BY <2>2, Zenon DEF Sees
  <2> QED BY <1>1, <1>4, <2>1, <2>3
<1>16. CASE i = 6
  <2>1. b.logsBloom # work.logs /\ LateError = "INVALID_LOG_BLOOM"
    BY <1>10, <1>13, <1>16
  <2>2. work.logs = BloomOfLast(b)
    <3>1. CASE b.txs = <<>>
      BY <1>1, <1>4, <1>6, <3>1 DEF BloomOfLast
    <3>2. CASE b.txs # <<>>
      <4>1. L # 0
        BY <1>1, <1>4, <3>2
      <4>2. Last(b.txs) = b.txs[next - 1]
        BY <1>1, <1>4 DEF Last
      <4> QED BY <1>4, <1>6, <3>2, <4>1, <4>2 DEF BloomOfLast
    <3> QED BY <3>1, <3>2
  <2> QED BY <1>1, <2>1, <2>2
<1> QED BY <1>14, <1>15, <1>16

CatchOK == phase = "catch" => OnlyBloom(raised)

OInv == HInv /\ CatchOK

(* What the block was refused for stays what it was refused for. *)
LEMMA RefusalKept ==
  ASSUME NEW e, OnlyBloom(e), UNCHANGED <<headers, blocks, acc, current>>
  PROVE  OnlyBloom(e)'
<1>1. Block' = Block
  BY DEF Block
<1>2. Accepted' = Accepted
  BY DEF Accepted
<1>3. BloomOfLast(Block)' = BloomOfLast(Block)
  BY <1>1 DEF BloomOfLast
<1>4. \A v, n : BlockHash(v, n)' = BlockHash(v, n)
  BY DEF BlockHash
<1> QED BY <1>1, <1>2, <1>3, <1>4 DEF OnlyBloom

LEMMA ThrowKept ==
  ASSUME NEW e, OnlyBloom(e), Throw(e)
  PROVE  CatchOK'
<1>1. UNCHANGED <<headers, blocks, acc, current>> /\ raised' = e
  BY DEF Throw
<1> QED BY <1>1, RefusalKept DEF CatchOK, OnlyBloom

LEMMA OInvStep == OInv /\ [Next]_chainVars => OInv'
<1> SUFFICES ASSUME OInv, [Next]_chainVars PROVE OInv'
  OBVIOUS
<1>0. HInv /\ HInv'
  BY HInvStep DEF OInv
<1>1. ASSUME phase' # "catch" PROVE OInv'
  BY <1>0, <1>1 DEF OInv, CatchOK
<1>2. ASSUME NEW p \in DOMAIN headers, NEW draft \in Drafts,
             NEW expects \in Expectations, TakeNewBlock(p, draft, expects)
      PROVE  OInv'
  BY <1>1, <1>2 DEF TakeNewBlock, Take
<1>3. ASSUME NEW h \in DOMAIN headers, NEW expects \in Expectations,
             TakeOldBlock(h, expects)
      PROVE  OInv'
  BY <1>1, <1>3 DEF TakeOldBlock, Take
<1>4. ASSUME NEW last, NEW kind, EndTest(last, kind)
      PROVE  OInv'
  <2>1. phase' \in {"passed", "failed"}
    BY <1>4 DEF EndTest
  <2> QED BY <1>1, <2>1
<1>5. CASE \/ BeginBlock \/ ExecuteTransaction \/ Withdraw
           \/ CatchExpected \/ CatchUnexpected \/ AcceptBlock
  <2>1. phase' \in {"transactions", "validate", "idle", "failed"}
    BY <1>5 DEF BeginBlock, ExecuteTransaction, Withdraw, CatchExpected, CatchUnexpected,
       AcceptBlock, Idle
  <2> QED BY <1>1, <2>1
<1>6. CASE RefuseHeader
  <2>1. OnlyBloom(EarlyError) /\ Throw(EarlyError)
    BY <1>0, <1>6, HeaderRefusal DEF RefuseHeader
  <2> QED BY <1>0, <2>1, ThrowKept DEF OInv
<1>7. CASE RefuseTransaction
  <2>1. PICK e : e = TransactionError(work, Block, Transaction)
    OBVIOUS
  <2>2. OnlyBloom(e) /\ Throw(e)
    BY <1>0, <1>7, <2>1, TransactionRefusal DEF RefuseTransaction
  <2> QED BY <1>0, <2>2, ThrowKept DEF OInv
<1>8. CASE RefuseBlock
  <2>1. OnlyBloom(LateError) /\ Throw(LateError)
    BY <1>0, <1>8, BlockRefusal DEF RefuseBlock
  <2> QED BY <1>0, <2>1, ThrowKept DEF OInv
<1>9. CASE UNCHANGED chainVars
  <2>1. UNCHANGED <<headers, blocks, acc, current>> /\ raised' = raised /\ phase' = phase
    BY <1>9 DEF chainVars
  <2>2. CASE phase = "catch"
    <3>1. PICK e : e = raised
      OBVIOUS
    <3>2. OnlyBloom(e)'
      BY <2>1, <2>2, <3>1, RefusalKept DEF OInv, CatchOK
    <3> QED BY <1>0, <2>1, <3>1, <3>2 DEF OInv, CatchOK, OnlyBloom
  <2> QED BY <1>1, <2>1, <2>2
<1> QED BY <1>2, <1>3, <1>4, <1>5, <1>6, <1>7, <1>8, <1>9 DEF Next, Author, Runner

(* A block that obeys the rules is refused for its bloom alone, or because *)
(* a fork made BLOCKHASH answer something else (processBlocks).            *)
THEOREM OnlyBloomIsRefused == Spec => []OnlyBloomRejects
<1>1. Init => OInv
  BY HInvInit DEF OInv, CatchOK, Init
<1>2. OInv => OnlyBloomRejects
  <2> SUFFICES ASSUME OInv, phase = "catch" PROVE OnlyBloomRejects
    BY DEF OnlyBloomRejects
  <2> QED BY OnlyBloomIs DEF OInv, CatchOK
<1> QED BY <1>1, <1>2, OInvStep, PTL DEF Spec
=============================================================================
