-------------------------- MODULE FrameValueProofs --------------------------
(***************************************************************************)
(* Proofs about Frames: the refund counter and the ether.                  *)
(*                                                                         *)
(* The inductive invariant RInv says that the counter pays for every slot  *)
(* that the transaction has cleared, in the running state and in every     *)
(* state that an open frame would return on failure.  It also bounds the   *)
(* counter from above, by what the instructions executed so far can have   *)
(* added: a counter that wrapped would pay for nothing.                    *)
(*                                                                         *)
(* The inductive invariant EInv says of each open frame how the state that *)
(* it may be handed can differ from the one it would return on failure,    *)
(* Carries, and of every map that can become the result that its ether,    *)
(* with the gas that the transaction has paid for, was there in genesis.   *)
(* Both are needed at once: a credit can only wrap when the ether of all   *)
(* accounts does not fit a word.  Whatever is called, created, destroyed   *)
(* or fails, no ether is made, and no empty account is left behind.        *)
(***************************************************************************)
EXTENDS FramesProofs

(* The slots that had a value at the checkpoint sig0 and have none. *)
Cleared(sig0, sigma) ==
  {p \in Addr \X Slots : /\ AccountAt(sig0, p[1]).storage[p[2]] # 0
                         /\ AccountAt(sigma, p[1]).storage[p[2]] = 0}

(* After n instructions. *)
Covered(sig0, n, sigma, A) ==
  /\ A.refundBalance >= Rsclear * Cardinality(Cleared(sig0, sigma))
  /\ A.refundBalance <= n * (Rsclear + Gsset)

RefundInv(sig0, n, sigma, A, fs) ==
  /\ Covered(sig0, n, sigma, A)
  /\ \A i \in 1..Len(fs) : Covered(sig0, n, fs[i].sigma, fs[i].A)

RInv ==
  /\ IInv
  /\ tx # NoTx =>
       RefundInv(sigma0, MaxOps - ops, accountMap, substate, frames)

-----------------------------------------------------------------------------
(* Cleared slots *)

LEMMA ClearedFinite ==
  ASSUME NEW sig0, NEW sigma
  PROVE  /\ IsFiniteSet(Cleared(sig0, sigma))
         /\ Cardinality(Cleared(sig0, sigma)) \in Nat
<1>1. IsFiniteSet(Addr \X Slots)
  BY FiniteAssumption, FS_Product
<1>2. Cleared(sig0, sigma) \in SUBSET (Addr \X Slots)
  BY DEF Cleared
<1>3. IsFiniteSet(Cleared(sig0, sigma))
  BY <1>1, <1>2, FS_Subset
<1> QED BY <1>3, FS_CardinalityType

LEMMA ClearedSame ==
  ASSUME NEW sig0, NEW sigma, NEW tau, SameStorage(sigma, tau)
  PROVE  Cleared(sig0, tau) = Cleared(sig0, sigma)
<1>1. \A p \in Addr \X Slots : p[1] \in Addr
  OBVIOUS
<1>2. \A p \in Addr \X Slots :
        AccountAt(tau, p[1]).storage = AccountAt(sigma, p[1]).storage
  BY <1>1 DEF SameStorage
<1> QED BY <1>2 DEF Cleared

(* No slot is cleared at the checkpoint. *)
LEMMA ClearedNone ==
  ASSUME NEW sig0
  PROVE  Cardinality(Cleared(sig0, sig0)) = 0
<1>1. Cleared(sig0, sig0) = {}
  BY DEF Cleared
<1> QED BY <1>1, FS_EmptySet

(* A step that writes no storage and leaves the counter alone. *)
LEMMA CoveredSame ==
  ASSUME NEW sig0, NEW n, NEW sigma, NEW A, NEW tau, NEW B,
         Covered(sig0, n, sigma, A), SameStorage(sigma, tau),
         B.refundBalance = A.refundBalance
  PROVE  Covered(sig0, n, tau, B)
BY ClearedSame DEF Covered

LEMMA CoveredMore ==
  ASSUME NEW sig0, NEW n \in Nat, NEW sigma, NEW A \in Substate,
         Covered(sig0, n, sigma, A)
  PROVE  Covered(sig0, n + 1, sigma, A)
<1> DEFINE most == Rsclear + Gsset
<1>1. most \in Nat /\ A.refundBalance \in Nat
  BY RefundAssumption DEF Substate, Word
<1>2. A.refundBalance <= n * most
  BY DEF Covered
<1> HIDE DEF most
<1>3. n * most \in Nat /\ (n + 1) * most = n * most + most
  BY <1>1
<1>4. A.refundBalance <= (n + 1) * most
  BY <1>1, <1>2, <1>3
<1> QED BY <1>4 DEF Covered, most

(* From sigma to tau the key k of the storage of a has become new. *)
Stored(sig0, sigma, tau, a, k, new) ==
  LET v0 == AccountAt(sig0, a).storage[k]
      v  == AccountAt(sigma, a).storage[k]
      C  == Cleared(sig0, sigma)
      D  == Cleared(sig0, tau)
  IN  /\ <<a, k>> \in C <=> v0 # 0 /\ v = 0
      /\ v0 # 0 /\ new = 0 => D = C \cup {<<a, k>>}
      /\ ~(v0 # 0 /\ new = 0) => D = C \ {<<a, k>>}

LEMMA StoreClears ==
  ASSUME NEW sig0, NEW sigma \in AccountMap, NEW a \in Addr, Exists(sigma, a),
         NEW k \in Slots, NEW new \in Values
  PROVE  Stored(sig0, sigma, [sigma EXCEPT ![a].storage[k] = new], a, k, new)
<1> DEFINE old == sigma[a]
           acc == [old EXCEPT !.storage[k] = new]
           tau == [sigma EXCEPT ![a] = acc]
           v0 == AccountAt(sig0, a).storage[k]
           v  == AccountAt(sigma, a).storage[k]
           C  == Cleared(sig0, sigma)
           D  == Cleared(sig0, tau)
<1>1. [sigma EXCEPT ![a].storage[k] = new] = tau
  OBVIOUS
<1>2. old \in Account /\ AccountAt(sigma, a) = old
  BY LookupType DEF AccountAt
<1> HIDE DEF old
<1>3. /\ acc \in Account
      /\ \A l \in Slots : acc.storage[l] = IF l = k THEN new ELSE old.storage[l]
  BY <1>2 DEF Account, Storage
<1> HIDE DEF acc
<1>4. tau[a] = acc /\ acc # NoAccount /\ \A b \in Addr : b # a => tau[b] = sigma[b]
  BY <1>3, NoAccountAssumption DEF AccountMap
<1> HIDE DEF tau
<1>5. /\ AccountAt(tau, a) = acc
      /\ \A b \in Addr : b # a => AccountAt(tau, b) = AccountAt(sigma, b)
  BY <1>4 DEF AccountAt, Exists
<1>6. ASSUME NEW p \in Addr \X Slots
      PROVE  AccountAt(tau, p[1]).storage[p[2]] =
               IF p = <<a, k>> THEN new ELSE AccountAt(sigma, p[1]).storage[p[2]]
  <2>1. p[1] \in Addr /\ p[2] \in Slots /\ p = <<p[1], p[2]>>
    OBVIOUS
  <2>2. CASE p[1] = a
    BY <1>2, <1>3, <1>5, <2>1, <2>2
  <2>3. CASE p[1] # a
    BY <1>5, <2>1, <2>3
  <2> QED BY <2>2, <2>3
<1>7. <<a, k>> \in Addr \X Slots
  OBVIOUS
<1>8. <<a, k>> \in C <=> v0 # 0 /\ v = 0
  BY <1>7 DEF Cleared
<1>9. ASSUME NEW p
      PROVE  p \in D <=> IF p = <<a, k>> THEN v0 # 0 /\ new = 0 ELSE p \in C
  BY <1>6, <1>7 DEF Cleared
<1> HIDE DEF C, D, v0, v
<1>10. v0 # 0 /\ new = 0 => D = C \cup {<<a, k>>}
  BY <1>9
<1>11. ~(v0 # 0 /\ new = 0) => D = C \ {<<a, k>>}
  BY <1>9
<1>12. Stored(sig0, sigma, tau, a, k, new)
  BY <1>8, <1>10, <1>11 DEF C, D, v0, v, Stored
<1> QED BY <1>1, <1>12

(* What SSTORE adds to the counter is worth the slots that it clears and   *)
(* sets again.                                                             *)
LEMMA RefundDeltaPays ==
  ASSUME NEW v0, NEW v, NEW new
  PROVE  LET delta == RefundDelta(v0, v, new)
             before == v0 # 0 /\ v = 0
             after  == v0 # 0 /\ new = 0
         IN  /\ delta \in Int /\ delta <= Rsclear + Gsset
             /\ delta >= -Rsclear
             /\ ~before => delta >= 0
             /\ before /\ after => delta >= 0
             /\ ~before /\ after => delta >= Rsclear
BY RefundAssumption DEF RefundDelta

(* SSTORE, the one instruction that changes storage and counter. *)
LEMMA StoreCovered ==
  ASSUME NEW sig0, NEW n \in Nat, n < MaxOps,
         NEW sigma \in AccountMap, NEW A \in Substate, Covered(sig0, n, sigma, A),
         NEW a \in Addr, Exists(sigma, a), NEW k \in Slots, NEW new \in Values,
         NEW B,
         LET v0 == AccountAt(sig0, a).storage[k]
             v  == AccountAt(sigma, a).storage[k]
         IN  B.refundBalance = AddRefund(A.refundBalance, RefundDelta(v0, v, new))
  PROVE  Covered(sig0, n + 1, [sigma EXCEPT ![a].storage[k] = new], B)
<1> DEFINE v0 == AccountAt(sig0, a).storage[k]
           v  == AccountAt(sigma, a).storage[k]
           delta == RefundDelta(v0, v, new)
           before == v0 # 0 /\ v = 0
           after  == v0 # 0 /\ new = 0
           tau == [sigma EXCEPT ![a].storage[k] = new]
           C  == Cleared(sig0, sigma)
           D  == Cleared(sig0, tau)
           c  == Cardinality(C)
           d  == Cardinality(D)
           most == Rsclear + Gsset
           refund == A.refundBalance
<1>1. /\ <<a, k>> \in C <=> before
      /\ after => D = C \cup {<<a, k>>}
      /\ ~after => D = C \ {<<a, k>>}
  <2>1. Stored(sig0, sigma, tau, a, k, new)
    BY StoreClears
  <2> HIDE DEF tau
  <2> QED BY <2>1 DEF Stored
<1>2. IsFiniteSet(C) /\ c \in Nat /\ d \in Nat
  BY ClearedFinite
<1>3. /\ delta \in Int /\ delta <= most /\ delta >= -Rsclear
      /\ ~before => delta >= 0
      /\ before /\ after => delta >= 0
      /\ ~before /\ after => delta >= Rsclear
  BY RefundDeltaPays
<1>4. /\ refund \in Nat /\ refund >= Rsclear * c /\ refund <= n * most
      /\ B.refundBalance = AddRefund(refund, delta)
  BY DEF Covered, Substate, Word
<1> HIDE DEF C, D, before, after, delta, tau
<1>5. /\ after /\ before => d = c
      /\ after /\ ~before => d = c + 1
      /\ ~after /\ before => d = c - 1
      /\ ~after /\ ~before => d = c
  <2>1. CASE after
    BY <1>1, <1>2, <2>1, FS_AddElement
  <2>2. CASE ~after
    BY <1>1, <1>2, <2>2, FS_RemoveElement
  <2> QED BY <2>1, <2>2
<1> HIDE DEF c, d, refund, v0, v
<1>6. /\ Rsclear \in Nat /\ most \in Nat /\ WordSize \in Nat /\ MaxOps \in Nat
      /\ MaxOps * most < WordSize
  BY RefundAssumption, WordAssumption, AddressAssumption
<1> HIDE DEF most
<1>7. /\ Rsclear * (c + 1) = Rsclear * c + Rsclear
      /\ Rsclear * (c - 1) = Rsclear * c - Rsclear
      /\ Rsclear * c \in Nat /\ Rsclear * d \in Nat
  BY <1>2, <1>6
<1>8. refund + delta >= Rsclear * d
  <2>1. CASE after /\ before
    BY <1>3, <1>4, <1>5, <1>7, <2>1
  <2>2. CASE after /\ ~before
    BY <1>3, <1>4, <1>5, <1>6, <1>7, <2>2
  <2>3. CASE ~after /\ before
    BY <1>3, <1>4, <1>5, <1>6, <1>7, <2>3
  <2>4. CASE ~after /\ ~before
    BY <1>3, <1>4, <1>5, <1>7, <2>4
  <2> QED BY <2>1, <2>2, <2>3, <2>4
<1>9. /\ n * most \in Nat /\ (n + 1) * most = n * most + most
      /\ (n + 1) * most <= MaxOps * most
  <2>1. n * most \in Nat /\ (n + 1) * most = n * most + most
    BY <1>6
  <2> DEFINE rest == MaxOps - (n + 1)
  <2>2. rest \in Nat /\ MaxOps = (n + 1) + rest
    BY <1>6
  <2> HIDE DEF rest
  <2>3. rest * most \in Nat /\ ((n + 1) + rest) * most = (n + 1) * most + rest * most
    BY <1>6, <2>2
  <2>4. MaxOps * most = (n + 1) * most + rest * most
    BY <2>2, <2>3
  <2> QED BY <1>6, <2>1, <2>3, <2>4
<1>10. refund + delta \in Nat /\ refund + delta < WordSize
       /\ refund + delta <= (n + 1) * most
  BY <1>3, <1>4, <1>6, <1>7, <1>8, <1>9
<1>11. AddRefund(refund, delta) = refund + delta
  BY <1>3, <1>4, <1>6, <1>10 DEF AddRefund, WordAdd, WordSub
<1>12. B.refundBalance >= Rsclear * d /\ B.refundBalance <= (n + 1) * most
  BY <1>4, <1>8, <1>10, <1>11
<1> QED BY <1>12 DEF Covered, d, D, tau, most

-----------------------------------------------------------------------------
(* The stack of open frames *)

LEMMA RefundPush ==
  ASSUME NEW fs \in Seq(Frame), NEW f, NEW sig0, NEW n, NEW sigma, NEW A,
         RefundInv(sig0, n, sigma, A, fs), Covered(sig0, n, f.sigma, f.A)
  PROVE  RefundInv(sig0, n, sigma, A, Append(fs, f))
<1> DEFINE S == Frame \cup {f}
           gs == Append(fs, f)
<1>1. fs \in Seq(S) /\ f \in S
  OBVIOUS
<1> HIDE DEF S
<1>2. /\ Len(gs) = Len(fs) + 1 /\ Len(fs) \in Nat
      /\ \A i \in 1..Len(fs) : gs[i] = fs[i]
      /\ gs[Len(fs) + 1] = f
  BY <1>1, AppendProperties
<1> HIDE DEF gs
<1>3. \A i \in 1..Len(gs) : i \in 1..Len(fs) \/ i = Len(fs) + 1
  BY <1>2
<1>4. RefundInv(sig0, n, sigma, A, gs)
  BY <1>2, <1>3 DEF RefundInv
<1> QED BY <1>4 DEF gs

LEMMA RefundPop ==
  ASSUME NEW fs \in Seq(Frame), fs # <<>>, NEW sig0, NEW n, NEW sigma, NEW A,
         RefundInv(sig0, n, sigma, A, fs)
  PROVE  LET gs   == SubSeq(fs, 1, Len(fs) - 1)
             last == fs[Len(fs)]
         IN  /\ RefundInv(sig0, n, sigma, A, gs)
             /\ RefundInv(sig0, n, last.sigma, last.A, gs)
<1> DEFINE gs == SubSeq(fs, 1, Len(fs) - 1)
<1>1. Len(gs) = Len(fs) - 1 /\ \A i \in 1..Len(gs) : gs[i] = fs[i]
  BY HeadPart
<1>2. Len(fs) \in Nat /\ Len(fs) \in 1..Len(fs)
  BY EmptySeq
<1> HIDE DEF gs
<1>3. \A i \in 1..Len(gs) : i \in 1..Len(fs)
  BY <1>1, <1>2
<1>4. RefundInv(sig0, n, sigma, A, gs)
  BY <1>1, <1>3 DEF RefundInv
<1>5. RefundInv(sig0, n, fs[Len(fs)].sigma, fs[Len(fs)].A, gs)
  BY <1>1, <1>2, <1>3 DEF RefundInv
<1> QED BY <1>4, <1>5 DEF gs

LEMMA RefundMore ==
  ASSUME NEW fs \in Seq(Frame), NEW sig0, NEW n \in Nat, NEW sigma,
         NEW A \in Substate, RefundInv(sig0, n, sigma, A, fs)
  PROVE  RefundInv(sig0, n + 1, sigma, A, fs)
<1>1. ASSUME NEW i \in 1..Len(fs)
      PROVE  Covered(sig0, n + 1, fs[i].sigma, fs[i].A)
  <2>1. fs[i] \in Frame
    OBVIOUS
  <2>2. fs[i].A \in Substate
    BY <2>1 DEF Frame
  <2> QED BY <2>2, CoveredMore DEF RefundInv
<1>2. Covered(sig0, n + 1, sigma, A)
  BY CoveredMore DEF RefundInv
<1> QED BY <1>1, <1>2 DEF RefundInv

(* The running frame writes no storage and leaves the counter alone. *)
LEMMA RefundSame ==
  ASSUME NEW fs, NEW sig0, NEW n, NEW sigma, NEW A, NEW tau, NEW B,
         RefundInv(sig0, n, sigma, A, fs), SameStorage(sigma, tau),
         B.refundBalance = A.refundBalance
  PROVE  RefundInv(sig0, n, tau, B, fs)
BY CoveredSame DEF RefundInv

-----------------------------------------------------------------------------
(* Entering and leaving frames *)

LEMMA MessageCallRefund ==
  ASSUME frames \in Seq(Frame), NEW sig0, NEW n,
         NEW sigma \in AccountMap, NEW A, NEW cA, RefundInv(sig0, n, sigma, A, frames),
         NEW s \in Addr, NEW r \in Addr, NEW t, NEW v \in Word, NEW w,
         MessageCall(sigma, A, cA, s, r, t, v, w)
  PROVE  RefundInv(sig0, n, accountMap', substate', frames')
<1> DEFINE tau == Transfer(sigma, s, r, v)
<1>1. SameStorage(sigma, tau)
  BY TransferStorage
<1>2. RefundInv(sig0, n, tau, A, frames)
  BY <1>1, RefundSame
<1>3. CASE t \in Precompiles
  <2>1. /\ accountMap' = tau \/ accountMap' = sigma
        /\ substate' = A /\ frames' = frames
    BY <1>3 DEF MessageCall, ApplyPrecompile
  <2> HIDE DEF tau
  <2> QED BY <1>2, <2>1
<1>4. CASE t \notin Precompiles
  <2> DEFINE f == [kind |-> "call", codeOwner |-> r, source |-> s, perm |-> w,
                   code |-> AccountAt(sigma, t).code,
                   sigma |-> sigma, A |-> A, cA |-> cA]
  <2>1. accountMap' = tau /\ substate' = A /\ frames' = Append(frames, f)
    BY <1>4 DEF MessageCall
  <2>2. f.sigma = sigma /\ f.A = A
    OBVIOUS
  <2>3. Covered(sig0, n, sigma, A)
    BY DEF RefundInv
  <2> HIDE DEF f, tau
  <2> QED BY <1>2, <2>1, <2>2, <2>3, RefundPush
<1> QED BY <1>3, <1>4

LEMMA ContractCreationRefund ==
  ASSUME frames \in Seq(Frame), NEW sig0, NEW n,
         NEW sigma \in AccountMap, NEW A \in Substate, NEW cA,
         RefundInv(sig0, n, sigma, A, frames),
         NEW s \in Addr, NEW a \in Addr, NEW v \in Word, NEW w,
         ContractCreation(sigma, A, cA, s, a, v, w)
  PROVE  RefundInv(sig0, n, accountMap', substate', frames')
<1> DEFINE AStar == [A EXCEPT !.accessedAccounts = @ \cup {a}]
           cA1   == IF Collides(sigma, a) THEN cA ELSE cA \cup {a}
           code  == IF Collides(sigma, a) THEN InvalidCode ELSE InitCode
           tau   == Endow(sigma, s, a, v)
           f == [kind |-> "create", codeOwner |-> a, source |-> s, perm |-> w,
                 code |-> code, sigma |-> sigma, A |-> AStar, cA |-> cA1]
<1>1. accountMap' = tau /\ substate' = AStar /\ frames' = Append(frames, f)
  BY DEF ContractCreation
<1>2. AStar.refundBalance = A.refundBalance
  BY DEF Substate
<1>3. f.sigma = sigma /\ f.A = AStar
  OBVIOUS
<1>4. SameStorage(sigma, tau) /\ SameStorage(sigma, sigma)
  BY EndowStorage DEF SameStorage
<1> HIDE DEF f, tau, AStar
<1>5. RefundInv(sig0, n, tau, AStar, frames)
  BY <1>2, <1>4, RefundSame
<1>6. Covered(sig0, n, sigma, AStar)
  BY <1>2, <1>4, CoveredSame DEF RefundInv
<1> QED BY <1>1, <1>3, <1>5, <1>6, RefundPush

LEMMA ReturnSuccessRefund ==
  ASSUME frames \in Seq(Frame), frames # <<>>, NEW sig0, NEW n,
         NEW sigma \in AccountMap, NEW A, RefundInv(sig0, n, sigma, A, frames),
         NEW data \in Codes \cup {NoCode}, NEW refused,
         ReturnSuccess(sigma, A, data, refused)
  PROVE  RefundInv(sig0, n, accountMap', substate', frames')
<1>1. frames' = Pop
  BY DEF ReturnSuccess
<1>2. RefundInv(sig0, n, sigma, A, Pop) /\ RefundInv(sig0, n, Top.sigma, Top.A, Pop)
  BY RefundPop DEF Pop, Top
<1>3. CASE accountMap' = Top.sigma /\ substate' = Top.A
  BY <1>1, <1>2, <1>3
<1>4. CASE accountMap' = sigma /\ substate' = A
  BY <1>1, <1>2, <1>4
<1>5. CASE accountMap' = SetCode(sigma, Self, data) /\ substate' = A
  <2>1. Len(frames) \in 1..Len(frames) /\ Top \in Frame
    BY EmptySeq DEF Top
  <2>2. Self \in Addr
    BY <2>1 DEF Self, Frame
  <2>3. SameStorage(sigma, SetCode(sigma, Self, data))
    BY <2>2, SetCodeStorage
  <2> QED BY <1>1, <1>2, <1>5, <2>3, RefundSame
<1> QED BY <1>3, <1>4, <1>5 DEF ReturnSuccess

-----------------------------------------------------------------------------
(* The steps *)

(* What the invariant says to a frame that executes an instruction, which  *)
(* is one more.                                                            *)
LEMMA RunnerRefund ==
  ASSUME RInv, Instruction
  PROVE  /\ frames \in Seq(Frame) /\ frames # <<>>
         /\ sigma0 \in AccountMap /\ accountMap \in AccountMap
         /\ substate \in Substate /\ createdAccounts \in SUBSET Addr
         /\ Self \in Addr /\ Top.source \in Addr /\ sigma0' = sigma0
         /\ MaxOps - ops \in Nat /\ MaxOps - ops < MaxOps
         /\ MaxOps - ops' = (MaxOps - ops) + 1
         /\ RefundInv(sigma0, MaxOps - ops, accountMap, substate, frames)
         /\ RefundInv(sigma0, MaxOps - ops', accountMap, substate, frames)
<1>1. /\ frames # <<>> /\ sigma0' = sigma0 /\ sigma0 \in AccountMap
      /\ Sound(sigma0, MaxNonce, accountMap, substate, createdAccounts)
  BY InstructionCounts DEF RInv, IInv
<1>2. Self \in Addr /\ Top.source \in Addr /\ FramesSound(sigma0, frames)
  BY <1>1, RunningFrame DEF RInv
<1>3. /\ MaxOps - ops \in Nat /\ MaxOps - ops < MaxOps
      /\ MaxOps - ops' = (MaxOps - ops) + 1
  BY AddressAssumption DEF RInv, IInv, Instruction
<1>4. RefundInv(sigma0, MaxOps - ops, accountMap, substate, frames)
  BY <1>1 DEF RInv, IInv
<1>5. /\ frames \in Seq(Frame) /\ accountMap \in AccountMap
      /\ substate \in Substate /\ createdAccounts \in SUBSET Addr
  BY <1>1, <1>2 DEF Sound, FramesSound
<1>6. RefundInv(sigma0, (MaxOps - ops) + 1, accountMap, substate, frames)
  BY <1>3, <1>4, <1>5, RefundMore
<1> QED BY <1>1, <1>2, <1>3, <1>4, <1>5, <1>6

LEMMA CallRefund ==
  ASSUME RInv, NEW s \in Addr, NEW r \in Addr, NEW t \in Addr, NEW v \in Word,
         NEW w, CallFrom(s, r, t, v, w)
  PROVE  RefundInv(sigma0', MaxOps - ops', accountMap', substate', frames')
<1> DEFINE A1 == [substate EXCEPT !.accessedAccounts = @ \cup {t}]
<1>1. Instruction
  BY DEF CallFrom
<1>2. /\ frames \in Seq(Frame) /\ accountMap \in AccountMap
      /\ substate \in Substate /\ sigma0' = sigma0
      /\ RefundInv(sigma0, MaxOps - ops', accountMap, substate, frames)
  BY <1>1, RunnerRefund
<1>3. A1.refundBalance = substate.refundBalance
  BY <1>2 DEF Substate
<1>4. SameStorage(accountMap, accountMap)
  BY <1>2 DEF SameStorage
<1>5. CASE v <= BalanceOf(accountMap, Self) /\ Len(frames) - 1 < MaxDepth
  <2>1. MessageCall(accountMap, A1, createdAccounts, s, r, t, v, w)
    BY <1>5 DEF CallFrom
  <2> HIDE DEF A1
  <2>2. RefundInv(sigma0, MaxOps - ops', accountMap, A1, frames)
    BY <1>2, <1>3, <1>4, RefundSame
  <2> QED BY <1>2, <2>1, <2>2, MessageCallRefund
<1>6. CASE ~(v <= BalanceOf(accountMap, Self) /\ Len(frames) - 1 < MaxDepth)
  <2>1. substate' = A1 /\ UNCHANGED <<accountMap, frames>>
    BY <1>6 DEF CallFrom
  <2> HIDE DEF A1
  <2> QED BY <1>2, <1>3, <1>4, <2>1, RefundSame
<1> QED BY <1>5, <1>6

LEMMA CreateRefund ==
  ASSUME RInv, NEW a \in Addr, NEW v \in Word, Create(a, v)
  PROVE  RefundInv(sigma0', MaxOps - ops', accountMap', substate', frames')
<1> DEFINE sigma == IncrementNonce(accountMap, Self)
<1>1. Instruction
  BY DEF Create, Write
<1>2. /\ frames \in Seq(Frame) /\ accountMap \in AccountMap /\ Self \in Addr
      /\ substate \in Substate /\ sigma0' = sigma0
      /\ RefundInv(sigma0, MaxOps - ops', accountMap, substate, frames)
  BY <1>1, RunnerRefund
<1>3. CASE UNCHANGED <<accountMap, substate, createdAccounts, frames>>
  BY <1>2, <1>3
<1>4. CASE ContractCreation(sigma, substate, createdAccounts, Self, a, v, Top.perm)
  <2>1. SameStorage(accountMap, sigma)
    BY <1>2, IncrementNonceStorage
  <2> HIDE DEF sigma
  <2>2. RefundInv(sigma0, MaxOps - ops', sigma, substate, frames)
    BY <1>2, <2>1, RefundSame
  <2>3. sigma \in AccountMap
    BY <2>1 DEF SameStorage
  <2> QED BY <1>2, <1>4, <2>2, <2>3, ContractCreationRefund
<1> QED BY <1>3, <1>4 DEF Create

LEMMA SelfDestructRefund ==
  ASSUME RInv, NEW heir \in Addr, SelfDestruct(heir)
  PROVE  RefundInv(sigma0', MaxOps - ops', accountMap', substate', frames')
<1> DEFINE isNew == Self \in createdAccounts
           dead  == IF isNew THEN substate.selfDestructSet \cup {Self}
                             ELSE substate.selfDestructSet
           warm  == substate.accessedAccounts \cup {heir}
           A1 == [substate EXCEPT !.selfDestructSet = dead, !.accessedAccounts = warm]
           sigma == Bequeath(accountMap, Self, heir, isNew)
<1>1. Instruction
  BY DEF SelfDestruct, Write
<1>2. /\ frames \in Seq(Frame) /\ frames # <<>> /\ accountMap \in AccountMap
      /\ substate \in Substate /\ Self \in Addr /\ sigma0' = sigma0
      /\ RefundInv(sigma0, MaxOps - ops', accountMap, substate, frames)
  BY <1>1, RunnerRefund
<1>3. PICK refused \in BOOLEAN : ReturnSuccess(sigma, A1, NoCode, refused)
  BY DEF SelfDestruct
<1>4. SameStorage(accountMap, sigma)
  <2>1. isNew \in BOOLEAN
    OBVIOUS
  <2> QED BY <1>2, <2>1, BequeathStorage
<1> HIDE DEF dead, warm, isNew
<1>5. A1.refundBalance = substate.refundBalance
  BY <1>2 DEF Substate
<1> HIDE DEF A1, sigma
<1>6. RefundInv(sigma0, MaxOps - ops', sigma, A1, frames)
  BY <1>2, <1>4, <1>5, RefundSame
<1>7. sigma \in AccountMap
  BY <1>4 DEF SameStorage
<1> QED BY <1>2, <1>3, <1>6, <1>7, ReturnSuccessRefund

LEMMA SStoreRefund ==
  ASSUME RInv, NEW k \in Slots, NEW new \in Values, SStore(k, new)
  PROVE  RefundInv(sigma0', MaxOps - ops', accountMap', substate', frames')
<1> DEFINE v0 == AccountAt(sigma0, Self).storage[k]
           v  == AccountAt(accountMap, Self).storage[k]
           n  == MaxOps - ops
           tau == [accountMap EXCEPT ![Self].storage[k] = new]
           keys   == substate.accessedStorageKeys \cup {<<Self, k>>}
           refund == AddRefund(substate.refundBalance, RefundDelta(v0, v, new))
           A1 == [substate EXCEPT !.accessedStorageKeys = keys, !.refundBalance = refund]
<1>1. Instruction /\ UNCHANGED frames
  BY DEF SStore, Write
<1>2. /\ accountMap \in AccountMap /\ substate \in Substate /\ Self \in Addr
      /\ sigma0' = sigma0 /\ n \in Nat /\ n < MaxOps /\ MaxOps - ops' = n + 1
      /\ RefundInv(sigma0, n, accountMap, substate, frames)
      /\ RefundInv(sigma0, n + 1, accountMap, substate, frames)
  BY <1>1, RunnerRefund
<1>3. CASE Exists(accountMap, Self)
  <2>1. accountMap' = tau /\ substate' = A1
    BY <1>3 DEF SStore
  <2> HIDE DEF refund
  <2>2. A1.refundBalance = refund
    BY <1>2 DEF Substate
  <2> HIDE DEF A1, n
  <2>3. Covered(sigma0, n, accountMap, substate)
    BY <1>2 DEF RefundInv
  <2>4. Covered(sigma0, n + 1, tau, A1)
    BY <1>2, <1>3, <2>2, <2>3, StoreCovered DEF refund
  <2> HIDE DEF tau
  <2>5. RefundInv(sigma0, n + 1, tau, A1, frames)
    BY <1>2, <2>4 DEF RefundInv
  <2> QED BY <1>1, <1>2, <2>1, <2>5
<1>4. CASE ~Exists(accountMap, Self)
  <2>1. UNCHANGED <<accountMap, substate>>
    BY <1>4 DEF SStore
  <2> QED BY <1>1, <1>2, <2>1
<1> QED BY <1>3, <1>4

(* An instruction that stays in its frame and writes no storage. *)
LEMMA LocalRefund ==
  ASSUME RInv, Instruction, UNCHANGED frames, SameStorage(accountMap, accountMap'),
         substate'.refundBalance = substate.refundBalance
  PROVE  RefundInv(sigma0', MaxOps - ops', accountMap', substate', frames')
<1>1. /\ sigma0' = sigma0
      /\ RefundInv(sigma0, MaxOps - ops', accountMap, substate, frames)
  BY RunnerRefund
<1> QED BY <1>1, RefundSame

LEMMA TStoreRefund ==
  ASSUME RInv, NEW k \in Slots, NEW new \in Values, TStore(k, new)
  PROVE  RefundInv(sigma0', MaxOps - ops', accountMap', substate', frames')
<1>1. Instruction /\ UNCHANGED <<substate, frames>>
  BY DEF TStore, Write
<1>2. accountMap \in AccountMap /\ Self \in Addr
  BY <1>1, RunnerRefund
<1>3. SameStorage(accountMap, accountMap')
  <2>1. CASE ~Exists(accountMap, Self)
    BY <1>2, <2>1 DEF TStore, SameStorage
  <2>2. CASE Exists(accountMap, Self)
    <3> DEFINE old == accountMap[Self]
               acc == [old EXCEPT !.tstorage[k] = new]
    <3>1. accountMap' = [accountMap EXCEPT ![Self] = acc]
      BY <2>2 DEF TStore
    <3>2. old \in Account /\ AccountAt(accountMap, Self) = old
      BY <1>2, <2>2, LookupType DEF AccountAt
    <3> HIDE DEF old
    <3>3. acc \in Account /\ acc.storage = old.storage
      BY <3>2 DEF Account, Storage
    <3> HIDE DEF acc
    <3> QED BY <1>2, <3>1, <3>2, <3>3, WriteStorage
  <2> QED BY <2>1, <2>2
<1> QED BY <1>1, <1>3, LocalRefund

LEMMA AccrueRefund ==
  ASSUME RInv, Log \/ (\E k \in Slots : SLoad(k)) \/ (\E a \in Probes : Probe(a))
  PROVE  RefundInv(sigma0', MaxOps - ops', accountMap', substate', frames')
<1>1. Instruction /\ UNCHANGED <<accountMap, frames>>
  BY DEF Log, SLoad, Probe, Write
<1>2. accountMap \in AccountMap /\ substate \in Substate
  BY <1>1, RunnerRefund
<1>3. substate'.refundBalance = substate.refundBalance
  <2>1. CASE Log
    BY <1>2, <2>1 DEF Log, Substate
  <2>2. ASSUME NEW k \in Slots, SLoad(k)
        PROVE  substate'.refundBalance = substate.refundBalance
    BY <1>2, <2>2 DEF SLoad, Substate
  <2>3. ASSUME NEW a \in Probes, Probe(a)
        PROVE  substate'.refundBalance = substate.refundBalance
    BY <1>2, <2>3 DEF Probe, Substate
  <2> QED BY <2>1, <2>2, <2>3
<1>4. SameStorage(accountMap, accountMap')
  BY <1>1, <1>2 DEF SameStorage
<1> QED BY <1>1, <1>3, <1>4, LocalRefund

(* The ends of a frame are no instructions: nothing is counted. *)
LEMMA EndRefund ==
  ASSUME RInv,
         \/ \E data \in Codes \cup {NoCode}, refused \in BOOLEAN : Halt(data, refused)
         \/ Revert \/ ExceptionalHalt
  PROVE  RefundInv(sigma0', MaxOps - ops', accountMap', substate', frames')
<1>1. frames # <<>> /\ UNCHANGED <<sigma0, ops>>
  BY DEF Halt, Revert, ExceptionalHalt
<1>2. /\ frames \in Seq(Frame) /\ accountMap \in AccountMap
      /\ RefundInv(sigma0, MaxOps - ops, accountMap, substate, frames)
  BY <1>1, RunningFrame DEF RInv, IInv, FramesSound
<1>3. ASSUME NEW data \in Codes \cup {NoCode}, NEW refused \in BOOLEAN,
             Halt(data, refused)
      PROVE  RefundInv(sigma0', MaxOps - ops', accountMap', substate', frames')
  <2>1. ReturnSuccess(accountMap, substate, data, refused)
    BY <1>3 DEF Halt
  <2>2. RefundInv(sigma0, MaxOps - ops, accountMap', substate', frames')
    BY <1>1, <1>2, <2>1, ReturnSuccessRefund
  <2> QED BY <1>1, <2>2
<1>4. CASE Revert \/ ExceptionalHalt
  <2>1. ReturnFailure
    BY <1>4 DEF Revert, ExceptionalHalt
  <2>2. RefundInv(sigma0, MaxOps - ops, Top.sigma, Top.A, Pop)
    BY <1>1, <1>2, RefundPop DEF Pop, Top
  <2> QED BY <1>1, <2>1, <2>2 DEF ReturnFailure
<1> QED BY <1>3, <1>4

(* A transaction begins with an empty counter, at its own checkpoint. *)
LEMMA BeginRefund ==
  ASSUME RInv, NEW s \in Senders, NEW shape \in TxShapes, NEW v \in Amounts,
         \/ \E t \in CallTargets : BeginCall(s, shape, v, t)
         \/ \E a \in CreateTargets : BeginCreate(s, shape, v, a)
  PROVE  RefundInv(sigma0', MaxOps - ops', accountMap', substate', frames')
<1> DEFINE sigma == Checkpoint(s, shape)
           n == MaxOps - ops'
<1>1. BeginTx(s, shape, v)
  BY DEF BeginCall, BeginCreate
<1>2. /\ sigma \in AccountMap /\ sigma0' = sigma /\ frames = <<>>
      /\ \A recipients \in SUBSET Addr :
           InitialSubstate(s, shape, recipients) \in Substate
  BY <1>1, BeginTxSound DEF RInv, Sound
<1>3. \A recipients : InitialSubstate(s, shape, recipients).refundBalance = 0
  BY DEF InitialSubstate, A0
<1>4. s \in Addr /\ v \in Word
  BY AddressAssumption
<1>5. frames \in Seq(Frame) /\ Len(frames) = 0
  BY <1>2, EmptySeq
<1>6. n \in Nat
  BY <1>1, AddressAssumption DEF BeginTx, RInv, IInv
<1> HIDE DEF sigma, n
<1>7. ASSUME NEW A, A.refundBalance = 0
      PROVE  RefundInv(sigma, n, sigma, A, frames)
  <2>1. Cardinality(Cleared(sigma, sigma)) = 0
    BY ClearedNone
  <2>2. Covered(sigma, n, sigma, A)
    BY <1>6, <1>7, <2>1, RefundAssumption DEF Covered
  <2> QED BY <1>5, <2>2 DEF RefundInv
<1>8. ASSUME NEW t \in CallTargets, BeginCall(s, shape, v, t)
      PROVE  RefundInv(sigma, n, accountMap', substate', frames')
  <2> DEFINE A == InitialSubstate(s, shape, {t})
  <2>1. MessageCall(sigma, A, {}, s, t, t, v, TRUE)
    BY <1>8 DEF BeginCall, sigma
  <2>2. t \in Addr
    BY AddressAssumption
  <2>3. A.refundBalance = 0
    BY <1>3
  <2> HIDE DEF A
  <2>4. RefundInv(sigma, n, sigma, A, frames)
    BY <1>7, <2>3
  <2> QED BY <1>2, <1>4, <1>5, <2>1, <2>2, <2>4, MessageCallRefund
<1>9. ASSUME NEW a \in CreateTargets, BeginCreate(s, shape, v, a)
      PROVE  RefundInv(sigma, n, accountMap', substate', frames')
  <2> DEFINE A == InitialSubstate(s, shape, {})
  <2>1. ContractCreation(sigma, A, {}, s, a, v, TRUE)
    BY <1>9 DEF BeginCreate, sigma
  <2>2. a \in Addr /\ A \in Substate
    BY <1>2, AddressAssumption
  <2>3. A.refundBalance = 0
    BY <1>3
  <2> HIDE DEF A
  <2>4. RefundInv(sigma, n, sigma, A, frames)
    BY <1>7, <2>3
  <2> QED BY <1>2, <1>4, <1>5, <2>1, <2>2, <2>4, ContractCreationRefund
<1> QED BY <1>2, <1>8, <1>9 DEF n

-----------------------------------------------------------------------------
(* The invariant is inductive *)

LEMMA InitRefund == Init => RInv
BY InitSound DEF Init, RInv

LEMMA NextRefund == RInv /\ [Next]_vars => RInv'
<1> DEFINE Goal == RefundInv(sigma0', MaxOps - ops', accountMap', substate', frames')
<1> SUFFICES ASSUME RInv, [Next]_vars
             PROVE  tx' # NoTx => Goal
  BY NextSound DEF RInv
<1> HIDE DEF Goal
<1>1. ASSUME NEW s \in Senders, NEW shape \in TxShapes, NEW v \in Amounts,
             \/ \E t \in CallTargets : BeginCall(s, shape, v, t)
             \/ \E a \in CreateTargets : BeginCreate(s, shape, v, a)
      PROVE  Goal
  BY <1>1, BeginRefund DEF Goal
<1>2. ASSUME NEW gasLeft, FinishTx(gasLeft)
      PROVE  tx' = NoTx
  BY <1>2 DEF FinishTx
<1>3. ASSUME NEW t \in CallTargets,
             \/ \E v \in Amounts : Call(t, v) \/ CallCode(t, v)
             \/ DelegateCall(t)
             \/ StaticCall(t)
      PROVE  Goal
  <2>1. frames # <<>> /\ t \in Addr /\ 0 \in Word /\ Amounts \subseteq Word
    BY <1>3, AddressAssumption, SmallWords DEF Call, CallCode, DelegateCall,
       StaticCall, CallFrom, Instruction
  <2>2. Self \in Addr /\ Top.source \in Addr
    BY <2>1, RunningFrame DEF RInv
  <2>3. ASSUME NEW v \in Amounts, Call(t, v) \/ CallCode(t, v)
        PROVE  Goal
    BY <2>1, <2>2, <2>3, CallRefund DEF Call, CallCode, Goal
  <2>4. CASE DelegateCall(t)
    BY <2>1, <2>2, <2>4, CallRefund DEF DelegateCall, Goal
  <2>5. CASE StaticCall(t)
    BY <2>1, <2>2, <2>5, CallRefund DEF StaticCall, Goal
  <2> QED BY <1>3, <2>3, <2>4, <2>5
<1>4. ASSUME NEW a \in CreateTargets, NEW v \in Amounts, Create(a, v)
      PROVE  Goal
  BY <1>4, CreateRefund, AddressAssumption DEF Goal
<1>5. ASSUME NEW heir \in Heirs, SelfDestruct(heir)
      PROVE  Goal
  BY <1>5, SelfDestructRefund, AddressAssumption DEF Goal
<1>6. ASSUME NEW k \in Slots, NEW new \in Values, SStore(k, new) \/ TStore(k, new)
      PROVE  Goal
  BY <1>6, SStoreRefund, TStoreRefund DEF Goal
<1>7. ASSUME Log \/ (\E k \in Slots : SLoad(k)) \/ (\E a \in Probes : Probe(a))
      PROVE  Goal
  BY <1>7, AccrueRefund DEF Goal
<1>8. ASSUME \/ \E data \in Codes \cup {NoCode}, refused \in BOOLEAN :
                  Halt(data, refused)
             \/ Revert \/ ExceptionalHalt
      PROVE  Goal
  BY <1>8, EndRefund DEF Goal
<1>9. ASSUME UNCHANGED vars, tx' # NoTx
      PROVE  Goal
  BY <1>9 DEF vars, RInv, Goal
<1> QED BY <1>1, <1>2, <1>3, <1>4, <1>5, <1>6, <1>7, <1>8, <1>9 DEF Next

(* RInv holds in every state of every behaviour. *)
THEOREM RefundInvariance == Spec => []RInv
<1> QED BY InitRefund, NextRefund, PTL DEF Spec

(* However frames nest and fail, the counter of every state that can still *)
(* become the result pays for the slots cleared in that state: SSTORE      *)
(* takes back what it granted, and a rollback restores both together.      *)
THEOREM RefundsAreCovered == Spec => []RefundCoversClears
<1>1. RInv => RefundCoversClears
  <2> SUFFICES ASSUME RInv, tx # NoTx
               PROVE  /\ RefundCovers(accountMap, substate)
                      /\ \A i \in DOMAIN frames :
                           RefundCovers(frames[i].sigma, frames[i].A)
    BY DEF RefundCoversClears
  <2>1. ASSUME NEW sigma, NEW A, Covered(sigma0, MaxOps - ops, sigma, A)
        PROVE  RefundCovers(sigma, A)
    BY <2>1 DEF Covered, Cleared, RefundCovers
  <2>2. RefundInv(sigma0, MaxOps - ops, accountMap, substate, frames)
    BY DEF RInv
  <2>3. DOMAIN frames = 1..Len(frames)
    BY DEF RInv, IInv, StateSound, FramesSound
  <2> QED BY <2>1, <2>2, <2>3 DEF RefundInv
<1> QED BY <1>1, RefundInvariance, PTL

-----------------------------------------------------------------------------
(* The ether *)

(* What the transaction t has paid and may get back. *)
Owed(t) == IF t = NoTx THEN 0 ELSE GasCost(t)

Solvent(t, sigma) == TotalBalance(sigma) + Owed(t) <= TotalBalance(Genesis)

(* The frame f runs for an account that keeps its code or its nonce; the   *)
(* one that a creation makes has no code yet, and has a nonce.             *)
Anchored(f, sigma) ==
  /\ Runnable(f) => Deployed(sigma, f.codeOwner)
  /\ f.code = InitCode => sigma[f.codeOwner].nonce # 0

(* From sigma to tau, ether moves and none is made; some may be burnt once *)
(* the substate B names an account to erase.                               *)
Flows(sigma, tau, B) ==
  \/ TotalBalance(tau) = TotalBalance(sigma)
  \/ /\ TotalBalance(tau) < TotalBalance(sigma)
     /\ B.selfDestructSet # {}

Carries(f, sigma, A) == Anchored(f, sigma) /\ Flows(f.sigma, sigma, A)

(* The open frames. *)
Ledger(t, fs) ==
  \A j \in 1..Len(fs) :
    /\ fs[j].kind = "create" => fs[j].code \in {InitCode, InvalidCode}
    /\ NoneEmpty(fs[j].sigma)
    /\ Solvent(t, fs[j].sigma)
    /\ \A i \in 1..(j - 1) : Carries(fs[i], fs[j].sigma, fs[j].A)

(* The running frame. *)
Balanced(t, sigma, A, fs) ==
  /\ NoneEmpty(sigma)
  /\ Solvent(t, sigma)
  /\ \A i \in 1..Len(fs) : Carries(fs[i], sigma, A)

(* The gas and the value that a transaction pays for can be summed in a    *)
(* word.  validateTransaction tests this only of the gas, and only of the  *)
(* first two types of transactions.                                        *)
Fits(shape, v) ==
  /\ shape.tip + shape.baseFee < WordSize
  /\ shape.gasLimit * (shape.tip + shape.baseFee) + v + shape.blobFee < WordSize

FeesFit ==
  \A s \in Senders, shape \in TxShapes, v \in Amounts :
    BeginTx(s, shape, v) => Fits(shape, v)

(* What the settlement relies on. *)
Payable(t, sig0) ==
  t # NoTx =>
    /\ t.tip + t.baseFee < WordSize
    /\ t.gasLimit * (t.tip + t.baseFee) < WordSize
    /\ Deployed(sig0, t.sender)

EtherInv(t, sigma, A, fs) ==
  /\ Ledger(t, fs)
  /\ NoneEmpty(sigma)
  /\ ~(fs # <<>> /\ fs[Len(fs)].code = InvalidCode) => Balanced(t, sigma, A, fs)

EInv ==
  /\ SInv
  /\ Payable(tx, sigma0)
  /\ EtherInv(tx, accountMap, substate, frames)

-----------------------------------------------------------------------------
(* Steps of the running frame *)

(* A step from sigma, A to tau, B that makes no ether. *)
Pays(sigma, A, tau, B) ==
  /\ tau \in AccountMap
  /\ \A a \in Addr : Deployed(sigma, a) => Deployed(tau, a)
  /\ \A a \in Addr : Exists(sigma, a) /\ sigma[a].nonce # 0 => tau[a].nonce # 0
  /\ NoneEmpty(sigma) => NoneEmpty(tau)
  /\ Flows(sigma, tau, B)
  /\ A.selfDestructSet \subseteq B.selfDestructSet

(* What an operator does to the accounts, and what to the ether. *)
LEMMA ExtendsPays ==
  ASSUME NEW sigma \in AccountMap, NEW tau, NEW n, Extends(sigma, tau, n),
         NEW A, NEW B, A.selfDestructSet \subseteq B.selfDestructSet,
         NoneEmpty(sigma) => NoneEmpty(tau), Flows(sigma, tau, B)
  PROVE  Pays(sigma, A, tau, B)
<1>1. tau \in AccountMap
  BY DEF Extends
<1>2. ASSUME NEW a \in Addr, Exists(sigma, a)
      PROVE  /\ Exists(tau, a)
             /\ tau[a].code = sigma[a].code
             /\ sigma[a].nonce # 0 => tau[a].nonce # 0
  <2>1. /\ Exists(tau, a)
        /\ tau[a].code = sigma[a].code
        /\ tau[a].nonce >= sigma[a].nonce
    BY <1>2 DEF Extends, Preserves
  <2>2. sigma[a].nonce \in Nat /\ tau[a].nonce \in Nat
    BY <1>1, <1>2, <2>1, LookupType, AccountFields DEF Word
  <2> QED BY <2>1, <2>2
<1> QED BY <1>1, <1>2 DEF Pays, Deployed

LEMMA FlowsTransitive ==
  ASSUME NEW sigma \in AccountMap, NEW tau \in AccountMap, NEW rho \in AccountMap,
         NEW B, NEW C, Flows(sigma, tau, B), Flows(tau, rho, C),
         B.selfDestructSet \subseteq C.selfDestructSet
  PROVE  Flows(sigma, rho, C)
<1>1. /\ TotalBalance(sigma) \in Nat /\ TotalBalance(tau) \in Nat
      /\ TotalBalance(rho) \in Nat
  BY TotalBounds
<1> QED BY <1>1 DEF Flows

LEMMA CarriesPays ==
  ASSUME NEW f \in Frame, NEW sigma \in AccountMap, NEW A, NEW tau, NEW B,
         Carries(f, sigma, A), Pays(sigma, A, tau, B)
  PROVE  Carries(f, tau, B)
<1>1. f.codeOwner \in Addr /\ f.sigma \in AccountMap /\ tau \in AccountMap
  BY DEF Frame, Pays
<1>2. f.code = InitCode => Runnable(f) /\ Exists(sigma, f.codeOwner)
  BY DEF Runnable, Carries, Anchored, Deployed
<1>3. Anchored(f, tau)
  BY <1>1, <1>2 DEF Carries, Anchored, Pays
<1>4. Flows(f.sigma, tau, B)
  BY <1>1, FlowsTransitive DEF Carries, Pays
<1> QED BY <1>3, <1>4 DEF Carries

LEMMA SolventFlows ==
  ASSUME NEW sigma \in AccountMap, NEW tau \in AccountMap, NEW t, NEW B,
         Owed(t) \in Nat, Solvent(t, sigma), Flows(sigma, tau, B)
  PROVE  Solvent(t, tau)
<1>1. /\ TotalBalance(sigma) \in Nat /\ TotalBalance(tau) \in Nat
      /\ TotalBalance(Genesis) \in Nat
  BY TotalBounds, GenesisAssumption
<1> QED BY <1>1 DEF Flows, Solvent

(* The running frame moves. *)
LEMMA BalancedPays ==
  ASSUME NEW fs \in Seq(Frame), NEW t, Owed(t) \in Nat,
         NEW sigma \in AccountMap, NEW A, NEW tau, NEW B,
         Balanced(t, sigma, A, fs), Pays(sigma, A, tau, B)
  PROVE  Balanced(t, tau, B, fs)
<1>1. ASSUME NEW i \in 1..Len(fs)
      PROVE  Carries(fs[i], tau, B)
  BY CarriesPays DEF Balanced
<1>2. Solvent(t, tau)
  BY SolventFlows DEF Balanced, Pays
<1> QED BY <1>1, <1>2 DEF Balanced, Pays

(* The ether of a map that is solvent fits a word. *)
LEMMA SolventFits ==
  ASSUME NEW sigma \in AccountMap, NEW t, Owed(t) \in Nat, Solvent(t, sigma)
  PROVE  /\ TotalBalance(sigma) < WordSize
         /\ TotalBalance(sigma) + Owed(t) < WordSize
<1>1. TotalBalance(sigma) \in Nat /\ TotalBalance(Genesis) \in Nat
  BY TotalBounds, GenesisAssumption
<1> QED BY <1>1, SupplyAssumption, WordAssumption DEF Solvent

LEMMA OwedType ==
  ASSUME NEW t \in TxType
  PROVE  Owed(t) \in Nat
<1>1. CASE t = NoTx
  BY <1>1 DEF Owed
<1>2. CASE t # NoTx
  <2>1. t.gasLimit \in Word /\ t.baseFee \in Word /\ t.tip \in Word
    BY <1>2 DEF TxType
  <2>2. Price(t) \in Word
    BY <2>1, WordAddType DEF Price
  <2>3. GasCost(t) \in Word
    <3>1. t.gasLimit \in Int /\ Price(t) \in Int
      BY <2>1, <2>2 DEF Word
    <3> QED BY <3>1, WordMulType DEF GasCost
  <2> QED BY <1>2, <2>3 DEF Owed, Word
<1> QED BY <1>1, <1>2

-----------------------------------------------------------------------------
(* The stack of open frames *)

(* A frame begins: should it fail, its caller goes on with f.sigma, f.A.   *)
LEMMA LedgerPush ==
  ASSUME NEW fs \in Seq(Frame), NEW t, NEW f \in Frame,
         Ledger(t, fs), Balanced(t, f.sigma, f.A, fs),
         f.kind = "create" => f.code \in {InitCode, InvalidCode}
  PROVE  Ledger(t, Append(fs, f))
<1> DEFINE gs == Append(fs, f)
<1>1. /\ Len(gs) = Len(fs) + 1 /\ Len(fs) \in Nat
      /\ \A i \in 1..Len(fs) : gs[i] = fs[i]
      /\ gs[Len(fs) + 1] = f
  BY AppendProperties
<1> HIDE DEF gs
<1>2. ASSUME NEW j \in 1..Len(gs)
      PROVE  /\ gs[j].kind = "create" => gs[j].code \in {InitCode, InvalidCode}
             /\ NoneEmpty(gs[j].sigma)
             /\ Solvent(t, gs[j].sigma)
             /\ \A i \in 1..(j - 1) : Carries(gs[i], gs[j].sigma, gs[j].A)
  <2>1. \A i \in 1..(j - 1) : i \in 1..Len(fs) /\ gs[i] = fs[i]
    BY <1>1
  <2>2. CASE j \in 1..Len(fs)
    BY <1>1, <2>1, <2>2 DEF Ledger
  <2>3. CASE j = Len(fs) + 1
    BY <1>1, <2>1, <2>3 DEF Balanced
  <2> QED BY <1>1, <2>2, <2>3
<1>3. Ledger(t, gs)
  BY <1>2 DEF Ledger
<1> QED BY <1>3 DEF gs

LEMMA BalancedPush ==
  ASSUME NEW fs \in Seq(Frame), NEW t, NEW f \in Frame, NEW sigma, NEW A,
         Balanced(t, sigma, A, fs), Carries(f, sigma, A)
  PROVE  Balanced(t, sigma, A, Append(fs, f))
<1> DEFINE gs == Append(fs, f)
<1>1. /\ Len(gs) = Len(fs) + 1 /\ Len(fs) \in Nat
      /\ \A i \in 1..Len(fs) : gs[i] = fs[i]
      /\ gs[Len(fs) + 1] = f
  BY AppendProperties
<1> HIDE DEF gs
<1>2. \A i \in 1..Len(gs) : i \in 1..Len(fs) \/ i = Len(fs) + 1
  BY <1>1
<1>3. Balanced(t, sigma, A, gs)
  BY <1>1, <1>2 DEF Balanced
<1> QED BY <1>3 DEF gs

(* A frame ends: it hands on its state, or what it was given. *)
LEMMA LedgerPop ==
  ASSUME NEW fs \in Seq(Frame), fs # <<>>, NEW t, Ledger(t, fs)
  PROVE  LET gs   == SubSeq(fs, 1, Len(fs) - 1)
             last == fs[Len(fs)]
         IN  /\ gs \in Seq(Frame)
             /\ Ledger(t, gs)
             /\ Balanced(t, last.sigma, last.A, gs)
             /\ \A sigma, A : Balanced(t, sigma, A, fs) => Balanced(t, sigma, A, gs)
<1> DEFINE gs == SubSeq(fs, 1, Len(fs) - 1)
<1>1. /\ gs \in Seq(Frame) /\ Len(gs) = Len(fs) - 1
      /\ \A i \in 1..Len(gs) : gs[i] = fs[i]
  BY HeadPart
<1>2. Len(fs) \in Nat /\ Len(fs) \in 1..Len(fs)
  BY EmptySeq
<1> HIDE DEF gs
<1>3. \A i \in 1..Len(gs) : i \in 1..Len(fs) /\ i \in 1..(Len(fs) - 1)
  BY <1>1, <1>2
<1>4. \A j \in 1..Len(gs) : \A i \in 1..(j - 1) :
        i \in 1..Len(gs) /\ gs[i] = fs[i] /\ gs[j] = fs[j] /\ j \in 1..Len(fs)
  BY <1>1, <1>2
<1>5. Ledger(t, gs)
  BY <1>1, <1>3, <1>4 DEF Ledger
<1>6. Balanced(t, fs[Len(fs)].sigma, fs[Len(fs)].A, gs)
  BY <1>1, <1>2, <1>3 DEF Ledger, Balanced
<1>7. \A sigma, A : Balanced(t, sigma, A, fs) => Balanced(t, sigma, A, gs)
  BY <1>1, <1>3 DEF Balanced
<1> QED BY <1>1, <1>5, <1>6, <1>7 DEF gs

-----------------------------------------------------------------------------
(* Entering and leaving frames *)

(* A state that is balanced over its frames is a good one. *)
LEMMA BalancedEther ==
  ASSUME NEW t, NEW sigma, NEW A, NEW fs, Ledger(t, fs), Balanced(t, sigma, A, fs)
  PROVE  EtherInv(t, sigma, A, fs)
BY DEF EtherInv, Balanced

(* A call by s, which can pay for it, of the code of t. *)
LEMMA MessageCallEther ==
  ASSUME frames \in Seq(Frame), NEW b, Owed(b) \in Nat,
         NEW sigma \in AccountMap, NoncesUpTo(sigma, MaxNonce),
         NEW A \in Substate, NEW cA \in SUBSET Addr,
         Ledger(b, frames), Balanced(b, sigma, A, frames),
         NEW s \in Addr, NEW r \in Addr, NEW t \in Addr, NEW v \in Word,
         NEW w \in BOOLEAN,
         v <= BalanceOf(sigma, s), v = 0 \/ Deployed(sigma, s),
         r = t \/ Deployed(sigma, r),
         MessageCall(sigma, A, cA, s, r, t, v, w)
  PROVE  EtherInv(b, accountMap', substate', frames')
<1> DEFINE tau == Transfer(sigma, s, r, v)
<1>1. TotalBalance(sigma) < WordSize
  BY SolventFits DEF Balanced
<1>2. TotalBalance(tau) = TotalBalance(sigma) /\ (NoneEmpty(sigma) => NoneEmpty(tau))
  BY <1>1, TransferTotal
<1>3. Extends(sigma, tau, MaxNonce)
  BY TransferExtends, NonceAssumption
<1> HIDE DEF tau
<1>4. Pays(sigma, A, tau, A)
  BY <1>2, <1>3, ExtendsPays DEF Flows
<1>5. Balanced(b, tau, A, frames)
  BY <1>4, BalancedPays
<1>6. CASE t \in Precompiles
  <2>1. /\ accountMap' = tau \/ accountMap' = sigma
        /\ substate' = A /\ frames' = frames
    BY <1>6 DEF MessageCall, ApplyPrecompile, tau
  <2> QED BY <1>5, <2>1, BalancedEther
<1>7. CASE t \notin Precompiles
  <2> DEFINE f == [kind |-> "call", codeOwner |-> r, source |-> s, perm |-> w,
                   code |-> AccountAt(sigma, t).code,
                   sigma |-> sigma, A |-> A, cA |-> cA]
  <2>1. accountMap' = tau /\ substate' = A /\ frames' = Append(frames, f)
    BY <1>7 DEF MessageCall, tau
  <2>2. AccountAt(sigma, t).code \in Codes \cup {NoCode}
    BY AccountAtType, AccountFields
  <2>3. f \in Frame
    BY <2>2 DEF Frame
  <2>4. f.code # InitCode /\ (Runnable(f) => Deployed(sigma, t))
    BY <2>2, FrameCodeAssumption, CodeAssumption
       DEF Runnable, AccountAt, DefaultAccount, Deployed
  <2>5. f.sigma = sigma /\ f.A = A /\ f.codeOwner = r /\ f.kind = "call"
    OBVIOUS
  <2> HIDE DEF f
  <2>6. Anchored(f, tau)
    BY <1>4, <2>4, <2>5 DEF Anchored, Pays
  <2>7. Carries(f, tau, A)
    BY <1>4, <2>5, <2>6 DEF Carries, Pays
  <2>8. Ledger(b, Append(frames, f))
    BY <2>3, <2>5, LedgerPush
  <2>9. Balanced(b, tau, A, Append(frames, f))
    BY <1>5, <2>3, <2>7, BalancedPush
  <2> QED BY <2>1, <2>8, <2>9, BalancedEther
<1> QED BY <1>6, <1>7

(* A creation by s, which can pay for it.  When the address is in use the  *)
(* map may be nonsense, and the frame that holds it can only fail.         *)
LEMMA ContractCreationEther ==
  ASSUME frames \in Seq(Frame), NEW b, Owed(b) \in Nat,
         NEW sigma \in AccountMap, NoncesUpTo(sigma, MaxNonce),
         NEW A \in Substate, NEW cA \in SUBSET Addr,
         Ledger(b, frames), Balanced(b, sigma, A, frames),
         NEW s \in Addr, NEW a \in Addr, NEW v \in Word, NEW w \in BOOLEAN,
         v <= BalanceOf(sigma, s), Deployed(sigma, s),
         ContractCreation(sigma, A, cA, s, a, v, w)
  PROVE  EtherInv(b, accountMap', substate', frames')
<1> DEFINE AStar == [A EXCEPT !.accessedAccounts = @ \cup {a}]
           cA1   == IF Collides(sigma, a) THEN cA ELSE cA \cup {a}
           code  == IF Collides(sigma, a) THEN InvalidCode ELSE InitCode
           tau   == Endow(sigma, s, a, v)
           f == [kind |-> "create", codeOwner |-> a, source |-> s, perm |-> w,
                 code |-> code, sigma |-> sigma, A |-> AStar, cA |-> cA1]
<1>1. accountMap' = tau /\ substate' = AStar /\ frames' = Append(frames, f)
  BY DEF ContractCreation
<1>2. AStar \in Substate /\ AStar.selfDestructSet = A.selfDestructSet
  BY DEF Substate
<1>3. cA1 \in SUBSET Addr
  OBVIOUS
<1>4. TotalBalance(sigma) < WordSize
  BY SolventFits DEF Balanced
<1>5. /\ s # a => TotalBalance(tau) = TotalBalance(sigma)
      /\ NoneEmpty(sigma) => NoneEmpty(tau)
      /\ Exists(tau, a) /\ tau[a].nonce # 0
  BY <1>4, EndowTotal
<1>6. ~Collides(sigma, a) => Extends(sigma, tau, MaxNonce)
  BY NonceAssumption, EndowExtends
<1> HIDE DEF AStar, cA1, tau
<1>7. code \in {InitCode, InvalidCode} /\ (code = InitCode <=> ~Collides(sigma, a))
  BY FrameCodeAssumption
<1> HIDE DEF code
<1>8. f \in Frame
  BY <1>2, <1>3, <1>7 DEF Frame
<1>9. /\ f.sigma = sigma /\ f.A = AStar /\ f.codeOwner = a
      /\ f.kind = "create" /\ f.code = code
  OBVIOUS
<1> HIDE DEF f
<1>10. Flows(sigma, sigma, AStar)
  BY DEF Flows
<1>11. Extends(sigma, sigma, MaxNonce)
  BY ExtendsReflexive
<1>12. Pays(sigma, A, sigma, AStar)
  BY <1>2, <1>10, <1>11, ExtendsPays
<1>13. Balanced(b, sigma, AStar, frames)
  BY <1>12, BalancedPays
<1>14. Ledger(b, Append(frames, f))
  BY <1>7, <1>8, <1>9, <1>13, LedgerPush
<1>15. CASE Collides(sigma, a)
  <2>1. LET fs == Append(frames, f)
        IN  fs # <<>> /\ fs[Len(fs)] = f
    BY <1>8, AppendProperties
  <2>2. f.code = InvalidCode
    BY <1>7, <1>9, <1>15
  <2> QED BY <1>1, <1>5, <1>14, <2>1, <2>2 DEF EtherInv, Balanced
<1>16. CASE ~Collides(sigma, a)
  <2>1. s # a
    BY <1>16, DeployedCollides
  <2>2. Flows(sigma, tau, AStar)
    BY <1>5, <2>1 DEF Flows
  <2>3. Pays(sigma, AStar, tau, AStar)
    BY <1>5, <1>6, <1>16, <2>2, ExtendsPays
  <2>4. Balanced(b, tau, AStar, frames)
    BY <1>13, <2>3, BalancedPays
  <2>5. Carries(f, tau, AStar)
    BY <1>5, <1>9, <2>2 DEF Carries, Anchored, Deployed
  <2>6. Balanced(b, tau, AStar, Append(frames, f))
    BY <1>8, <2>4, <2>5, BalancedPush
  <2> QED BY <1>1, <1>14, <2>6, BalancedEther
<1> QED BY <1>15, <1>16

(* The code, the nonce or the storage of an account is written. *)
LEMMA RewritePays ==
  ASSUME NEW sigma \in AccountMap, NEW a \in Addr, NEW acc \in Account,
         Exists(sigma, a), acc.balance = sigma[a].balance,
         sigma[a].nonce # 0 => acc.nonce # 0,
         sigma[a].code # NoCode => acc.code # NoCode \/ acc.nonce # 0,
         NEW A, NEW B, A.selfDestructSet \subseteq B.selfDestructSet
  PROVE  Pays(sigma, A, [sigma EXCEPT ![a] = acc], B)
<1> DEFINE tau == [sigma EXCEPT ![a] = acc]
<1>1. BalanceOf(sigma, a) = sigma[a].balance
  BY DEF BalanceOf, AccountAt
<1>2. TotalBalance(tau) = TotalBalance(sigma)
  BY <1>1, WriteKeepsTotal
<1>3. NoneEmpty(sigma) => ~IsEmpty(acc)
  BY DEF NoneEmpty, IsEmpty
<1>4. /\ tau \in AccountMap
      /\ tau[a] = acc /\ Exists(tau, a)
      /\ \A b \in Addr : b # a => tau[b] = sigma[b]
      /\ NoneEmpty(sigma) => NoneEmpty(tau)
  BY <1>3, WriteBalance
<1> HIDE DEF tau
<1>5. ASSUME NEW b \in Addr
      PROVE  /\ Deployed(sigma, b) => Deployed(tau, b)
             /\ Exists(sigma, b) /\ sigma[b].nonce # 0 => tau[b].nonce # 0
  <2>1. CASE b = a
    BY <1>4, <2>1 DEF Deployed
  <2>2. CASE b # a
    BY <1>4, <2>2 DEF Deployed, Exists
  <2> QED BY <2>1, <2>2
<1>6. Pays(sigma, A, tau, B)
  BY <1>2, <1>4, <1>5 DEF Pays, Flows
<1> QED BY <1>6 DEF tau

(* The code of an account that has a nonce is written. *)
LEMMA SetCodePays ==
  ASSUME NEW sigma \in AccountMap, NEW a \in Addr, NEW c \in Codes \cup {NoCode},
         Exists(sigma, a), sigma[a].nonce # 0, NEW A
  PROVE  Pays(sigma, A, SetCode(sigma, a, c), A)
<1> DEFINE acc == [sigma[a] EXCEPT !.code = c]
<1>1. SetCode(sigma, a, c) = [sigma EXCEPT ![a] = acc]
  BY DEF SetCode, AccountAt
<1>2. sigma[a] \in Account
  BY LookupType
<1>3. acc \in Account /\ acc.nonce # 0 /\ acc.balance = sigma[a].balance
  BY <1>2 DEF Account
<1> HIDE DEF acc
<1>4. A.selfDestructSet \subseteq A.selfDestructSet
  OBVIOUS
<1>5. Pays(sigma, A, [sigma EXCEPT ![a] = acc], A)
  BY <1>3, <1>4, RewritePays
<1> QED BY <1>1, <1>5

(* The running frame fails. *)
LEMMA ReturnFailureEther ==
  ASSUME frames \in Seq(Frame), frames # <<>>, NEW b, Ledger(b, frames),
         ReturnFailure
  PROVE  EtherInv(b, accountMap', substate', frames')
BY LedgerPop, BalancedEther DEF ReturnFailure, Pop, Top

(* The running frame, which may be a creation, ends in sigma, A. *)
LEMMA ReturnSuccessEther ==
  ASSUME frames \in Seq(Frame), frames # <<>>, Top.code # InvalidCode,
         NEW b, Owed(b) \in Nat, Ledger(b, frames),
         NEW sigma \in AccountMap, NEW A, Balanced(b, sigma, A, frames),
         NEW data \in Codes \cup {NoCode}, NEW refused \in BOOLEAN,
         ReturnSuccess(sigma, A, data, refused)
  PROVE  EtherInv(b, accountMap', substate', frames')
<1>1. frames' = Pop
  BY DEF ReturnSuccess
<1>2. /\ Pop \in Seq(Frame) /\ Ledger(b, Pop)
      /\ Balanced(b, Top.sigma, Top.A, Pop)
      /\ \A tau : Balanced(b, tau, A, frames) => Balanced(b, tau, A, Pop)
  BY LedgerPop DEF Pop, Top
<1>3. CASE accountMap' = Top.sigma /\ substate' = Top.A
  BY <1>1, <1>2, <1>3, BalancedEther
<1>4. CASE accountMap' = sigma /\ substate' = A
  BY <1>1, <1>2, <1>4, BalancedEther
<1>5. CASE /\ Top.kind = "create"
           /\ accountMap' = SetCode(sigma, Self, data) /\ substate' = A
  <2> DEFINE tau == SetCode(sigma, Self, data)
  <2>1. Len(frames) \in 1..Len(frames) /\ Top \in Frame
    BY EmptySeq DEF Top
  <2>2. Self \in Addr
    BY <2>1 DEF Self, Frame
  <2>3. Top.code = InitCode /\ Runnable(Top)
    BY <1>5, <2>1 DEF Ledger, Top, Runnable
  <2>4. Exists(sigma, Self) /\ sigma[Self].nonce # 0
    BY <2>1, <2>3 DEF Balanced, Carries, Anchored, Deployed, Top, Self
  <2>5. Pays(sigma, A, tau, A)
    BY <2>2, <2>4, SetCodePays
  <2> HIDE DEF tau
  <2>6. Balanced(b, tau, A, frames)
    BY <2>5, BalancedPays
  <2> QED BY <1>1, <1>2, <1>5, <2>6, BalancedEther DEF tau
<1> QED BY <1>3, <1>4, <1>5 DEF ReturnSuccess

-----------------------------------------------------------------------------
(* The steps *)

(* What a frame owns when it executes an instruction. *)
LEMMA RunnerOwns ==
  ASSUME EInv, Instruction
  PROVE  /\ Owed(tx) \in Nat
         /\ Ledger(tx, frames) /\ Balanced(tx, accountMap, substate, frames)
         /\ Deployed(accountMap, Self) /\ Top.code # InvalidCode
         /\ TotalBalance(accountMap) < WordSize
<1>1. /\ frames \in Seq(Frame) /\ frames # <<>> /\ accountMap \in AccountMap
  BY RunnerKnows DEF EInv
<1>2. Runnable(Top) /\ Top.code # InvalidCode
  BY RunnableFrame DEF Instruction
<1>3. Ledger(tx, frames) /\ Balanced(tx, accountMap, substate, frames)
  BY <1>2 DEF EInv, EtherInv, Top
<1>4. Owed(tx) \in Nat
  BY OwedType DEF EInv, SInv, IInv
<1>5. Deployed(accountMap, Self)
  <2>1. Len(frames) \in 1..Len(frames)
    BY <1>1, EmptySeq
  <2> QED BY <1>2, <1>3, <2>1 DEF Balanced, Carries, Anchored, Top, Self
<1> QED BY <1>1, <1>2, <1>3, <1>4, <1>5, SolventFits DEF Balanced

LEMMA CallEther ==
  ASSUME EInv, NEW s \in Addr, NEW r \in Addr, NEW t \in Addr, NEW v \in Word,
         NEW w \in BOOLEAN, v = 0 \/ s = Self, r = t \/ r = Self,
         CallFrom(s, r, t, v, w)
  PROVE  EtherInv(tx, accountMap', substate', frames')
<1> DEFINE A1 == [substate EXCEPT !.accessedAccounts = @ \cup {t}]
<1>1. Instruction
  BY DEF CallFrom
<1>2. /\ frames \in Seq(Frame)
      /\ accountMap \in AccountMap /\ NoncesUpTo(accountMap, MaxNonce)
      /\ substate \in Substate /\ createdAccounts \in SUBSET Addr
  BY <1>1, RunnerKnows DEF EInv
<1>3. /\ Owed(tx) \in Nat /\ Ledger(tx, frames)
      /\ Balanced(tx, accountMap, substate, frames)
      /\ Deployed(accountMap, Self)
  BY <1>1, RunnerOwns
<1>4. A1 \in Substate /\ A1.selfDestructSet = substate.selfDestructSet
  BY <1>2, WarmAccount
<1>5. Balanced(tx, accountMap, A1, frames)
  <2>1. Flows(accountMap, accountMap, A1)
    BY DEF Flows
  <2>2. Extends(accountMap, accountMap, MaxNonce)
    BY <1>2, ExtendsReflexive
  <2> HIDE DEF A1
  <2>3. Pays(accountMap, substate, accountMap, A1)
    BY <1>2, <1>4, <2>1, <2>2, ExtendsPays
  <2> QED BY <1>2, <1>3, <2>3, BalancedPays
<1>6. CASE v <= BalanceOf(accountMap, Self) /\ Len(frames) - 1 < MaxDepth
  <2>1. MessageCall(accountMap, A1, createdAccounts, s, r, t, v, w)
    BY <1>6 DEF CallFrom
  <2>2. v <= BalanceOf(accountMap, s) /\ (v = 0 \/ Deployed(accountMap, s))
    <3>1. BalanceOf(accountMap, s) \in Nat
      BY <1>2, TotalBounds
    <3> QED BY <1>3, <1>6, <3>1
  <2>3. r = t \/ Deployed(accountMap, r)
    BY <1>3
  <2> HIDE DEF A1
  <2> QED BY <1>2, <1>3, <1>4, <1>5, <2>1, <2>2, <2>3, MessageCallEther
<1>7. CASE ~(v <= BalanceOf(accountMap, Self) /\ Len(frames) - 1 < MaxDepth)
  <2>1. substate' = A1 /\ UNCHANGED <<accountMap, frames>>
    BY <1>7 DEF CallFrom
  <2> HIDE DEF A1
  <2> QED BY <1>3, <1>5, <2>1, BalancedEther
<1> QED BY <1>6, <1>7

LEMMA CreateEther ==
  ASSUME EInv, NEW a \in Addr, NEW v \in Word, Create(a, v)
  PROVE  EtherInv(tx, accountMap', substate', frames')
<1> DEFINE acc   == [accountMap[Self] EXCEPT !.nonce = WordAdd(@, 1)]
           sigma == IncrementNonce(accountMap, Self)
<1>1. Instruction
  BY DEF Create, Write
<1>2. /\ frames \in Seq(Frame) /\ Top.perm \in BOOLEAN
      /\ accountMap \in AccountMap /\ NoncesUpTo(accountMap, MaxNonce)
      /\ substate \in Substate /\ createdAccounts \in SUBSET Addr
      /\ Self \in Addr /\ Exists(accountMap, Self)
  BY <1>1, RunnerKnows DEF EInv
<1>3. /\ Owed(tx) \in Nat /\ Ledger(tx, frames)
      /\ Balanced(tx, accountMap, substate, frames)
      /\ Deployed(accountMap, Self)
  BY <1>1, RunnerOwns
<1>4. CASE /\ AccountAt(accountMap, Self).nonce < MaxNonce
           /\ v <= BalanceOf(accountMap, Self)
           /\ Len(frames) - 1 < MaxDepth
  <2>1. ContractCreation(sigma, substate, createdAccounts, Self, a, v, Top.perm)
    BY <1>4 DEF Create
  <2>2. /\ accountMap[Self] \in Account /\ accountMap[Self].nonce < MaxNonce
        /\ accountMap[Self].nonce \in Nat
    BY <1>2, <1>4, LookupType, AccountFields DEF AccountAt, Word
  <2>3. WordAdd(accountMap[Self].nonce, 1) = accountMap[Self].nonce + 1
        /\ WordAdd(accountMap[Self].nonce, 1) \in Word
    BY <2>2, WordAssumption, NonceAssumption DEF WordAdd, Word
  <2>4. /\ acc \in Account /\ acc.balance = accountMap[Self].balance
        /\ acc.nonce = accountMap[Self].nonce + 1 /\ acc.nonce # 0
    BY <2>2, <2>3 DEF Account
  <2>5. sigma = [accountMap EXCEPT ![Self] = acc]
    BY <1>2 DEF IncrementNonce, AccountAt
  <2> HIDE DEF acc, sigma
  <2>6. Pays(accountMap, substate, sigma, substate)
    BY <1>2, <2>4, <2>5, RewritePays
  <2>7. Extends(accountMap, sigma, MaxNonce)
    BY <1>2, <1>4, IncrementNonceExtends DEF sigma
  <2>8. sigma \in AccountMap /\ NoncesUpTo(sigma, MaxNonce) /\ Deployed(sigma, Self)
    BY <1>2, <1>3, <2>6, <2>7 DEF Extends, Pays
  <2>9. v <= BalanceOf(sigma, Self)
    <3>1. BalanceOf(sigma, Self) = acc.balance
      <4>1. BalanceOf([accountMap EXCEPT ![Self] = acc], Self) = acc.balance
        BY <1>2, <2>4, WriteBalance
      <4> QED BY <2>5, <4>1
    <3>2. BalanceOf(accountMap, Self) = accountMap[Self].balance
      BY <1>2 DEF BalanceOf, AccountAt
    <3> QED BY <1>4, <2>4, <3>1, <3>2
  <2>10. Balanced(tx, sigma, substate, frames)
    BY <1>2, <1>3, <2>6, BalancedPays
  <2> QED BY <1>2, <1>3, <2>1, <2>8, <2>9, <2>10, ContractCreationEther
<1>5. CASE ~(/\ AccountAt(accountMap, Self).nonce < MaxNonce
             /\ v <= BalanceOf(accountMap, Self)
             /\ Len(frames) - 1 < MaxDepth)
  <2>1. UNCHANGED <<accountMap, substate, frames>>
    BY <1>5 DEF Create
  <2> QED BY <1>3, <2>1, BalancedEther
<1> QED BY <1>4, <1>5

LEMMA SelfDestructEther ==
  ASSUME EInv, NEW heir \in Addr, SelfDestruct(heir)
  PROVE  EtherInv(tx, accountMap', substate', frames')
<1> DEFINE isNew == Self \in createdAccounts
           dead  == IF isNew THEN substate.selfDestructSet \cup {Self}
                             ELSE substate.selfDestructSet
           A1 == [substate EXCEPT !.selfDestructSet = dead,
                                  !.accessedAccounts = @ \cup {heir}]
           sigma == Bequeath(accountMap, Self, heir, isNew)
<1>1. Instruction
  BY DEF SelfDestruct, Write
<1>2. /\ frames \in Seq(Frame) /\ frames # <<>>
      /\ accountMap \in AccountMap /\ NoncesUpTo(accountMap, MaxNonce)
      /\ substate \in Substate /\ Self \in Addr
  BY <1>1, RunnerKnows DEF EInv
<1>3. /\ Owed(tx) \in Nat /\ Ledger(tx, frames)
      /\ Balanced(tx, accountMap, substate, frames)
      /\ Deployed(accountMap, Self) /\ Top.code # InvalidCode
      /\ TotalBalance(accountMap) < WordSize
  BY <1>1, RunnerOwns
<1>4. PICK refused \in BOOLEAN : ReturnSuccess(sigma, A1, NoCode, refused)
  BY DEF SelfDestruct
<1>5. substate.selfDestructSet \subseteq dead /\ (isNew => dead # {})
  OBVIOUS
<1>6. isNew \in BOOLEAN
  OBVIOUS
<1> HIDE DEF isNew, dead
<1>7. A1.selfDestructSet = dead
  BY <1>2 DEF Substate
<1>8. /\ \/ TotalBalance(sigma) = TotalBalance(accountMap)
         \/ isNew /\ TotalBalance(sigma) < TotalBalance(accountMap)
      /\ NoneEmpty(accountMap) => NoneEmpty(sigma)
  BY <1>2, <1>3, <1>6, BequeathTotal
<1>9. Extends(accountMap, sigma, MaxNonce)
  BY <1>2, <1>6, BequeathExtends, NonceAssumption
<1> HIDE DEF A1, sigma
<1>10. Flows(accountMap, sigma, A1)
  BY <1>5, <1>7, <1>8 DEF Flows
<1>11. Pays(accountMap, substate, sigma, A1)
  BY <1>2, <1>5, <1>7, <1>8, <1>9, <1>10, ExtendsPays
<1>12. Balanced(tx, sigma, A1, frames) /\ sigma \in AccountMap
  BY <1>2, <1>3, <1>11, BalancedPays DEF Pays
<1>13. NoCode \in Codes \cup {NoCode}
  OBVIOUS
<1> QED BY <1>2, <1>3, <1>4, <1>12, <1>13, ReturnSuccessEther

(* An instruction that stays in its frame. *)
LEMMA LocalEther ==
  ASSUME EInv, Instruction, UNCHANGED frames,
         Pays(accountMap, substate, accountMap', substate')
  PROVE  EtherInv(tx, accountMap', substate', frames')
<1>1. frames \in Seq(Frame) /\ accountMap \in AccountMap
  BY RunnerKnows DEF EInv
<1>2. /\ Owed(tx) \in Nat /\ Ledger(tx, frames)
      /\ Balanced(tx, accountMap, substate, frames)
  BY RunnerOwns
<1>3. Balanced(tx, accountMap', substate', frames)
  BY <1>1, <1>2, BalancedPays
<1> QED BY <1>2, <1>3, BalancedEther

(* SStore and TStore write one key of one storage. *)
LEMMA StoreEther ==
  ASSUME EInv, NEW k \in Slots, NEW new \in Values, SStore(k, new) \/ TStore(k, new)
  PROVE  EtherInv(tx, accountMap', substate', frames')
<1> DEFINE old == accountMap[Self]
<1>1. Instruction /\ UNCHANGED frames
  BY DEF SStore, TStore, Write
<1>2. /\ accountMap \in AccountMap /\ substate \in Substate
      /\ Self \in Addr /\ Exists(accountMap, Self)
  BY <1>1, RunnerKnows DEF EInv
<1>3. old \in Account
  BY <1>2, LookupType
<1>4. PICK acc : /\ accountMap' = [accountMap EXCEPT ![Self] = acc]
                 /\ acc \in Account /\ acc.balance = old.balance
                 /\ acc.nonce = old.nonce /\ acc.code = old.code
  <2>1. CASE SStore(k, new)
    <3> DEFINE acc == [old EXCEPT !.storage[k] = new]
    <3>1. accountMap' = [accountMap EXCEPT ![Self] = acc]
      BY <1>2, <2>1 DEF SStore
    <3> HIDE DEF old
    <3>2. /\ acc \in Account /\ acc.balance = old.balance
          /\ acc.nonce = old.nonce /\ acc.code = old.code
      BY <1>3 DEF Account, Storage
    <3> HIDE DEF acc
    <3> QED BY <3>1, <3>2
  <2>2. CASE TStore(k, new)
    <3> DEFINE acc == [old EXCEPT !.tstorage[k] = new]
    <3>1. accountMap' = [accountMap EXCEPT ![Self] = acc]
      BY <1>2, <2>2 DEF TStore
    <3> HIDE DEF old
    <3>2. /\ acc \in Account /\ acc.balance = old.balance
          /\ acc.nonce = old.nonce /\ acc.code = old.code
      BY <1>3 DEF Account, Storage
    <3> HIDE DEF acc
    <3> QED BY <3>1, <3>2
  <2> QED BY <2>1, <2>2
<1>5. substate'.selfDestructSet = substate.selfDestructSet
  BY <1>2 DEF SStore, TStore, Substate
<1>6. substate.selfDestructSet \subseteq substate'.selfDestructSet
  BY <1>5
<1>7. Pays(accountMap, substate, [accountMap EXCEPT ![Self] = acc], substate')
  BY <1>2, <1>4, <1>6, RewritePays DEF old
<1>8. Pays(accountMap, substate, accountMap', substate')
  BY <1>4, <1>7
<1> QED BY <1>1, <1>8, LocalEther

LEMMA AccrueEther ==
  ASSUME EInv, Log \/ (\E k \in Slots : SLoad(k)) \/ (\E a \in Probes : Probe(a))
  PROVE  EtherInv(tx, accountMap', substate', frames')
<1>1. Instruction /\ UNCHANGED <<accountMap, frames>>
  BY DEF Log, SLoad, Probe, Write
<1>2. /\ accountMap \in AccountMap /\ NoncesUpTo(accountMap, MaxNonce)
      /\ substate \in Substate
  BY <1>1, RunnerKnows DEF EInv
<1>3. substate.selfDestructSet \subseteq substate'.selfDestructSet
  BY <1>2 DEF Log, SLoad, Probe, Substate
<1>4. Extends(accountMap, accountMap, MaxNonce) /\ Flows(accountMap, accountMap, substate')
  BY <1>2, ExtendsReflexive DEF Flows
<1>5. Pays(accountMap, substate, accountMap', substate')
  BY <1>1, <1>2, <1>3, <1>4, ExtendsPays
<1> QED BY <1>1, <1>5, LocalEther

LEMMA EndEther ==
  ASSUME EInv,
         \/ \E data \in Codes \cup {NoCode}, refused \in BOOLEAN : Halt(data, refused)
         \/ Revert \/ ExceptionalHalt
  PROVE  EtherInv(tx, accountMap', substate', frames')
<1>1. frames # <<>>
  BY DEF Halt, Revert, ExceptionalHalt
<1>2. /\ frames \in Seq(Frame) /\ accountMap \in AccountMap
      /\ Owed(tx) \in Nat /\ Ledger(tx, frames)
  BY <1>1, RunningFrame, OwedType DEF EInv, EtherInv, SInv, IInv, FramesSound
<1>3. ASSUME NEW data \in Codes \cup {NoCode}, NEW refused \in BOOLEAN,
             Halt(data, refused)
      PROVE  EtherInv(tx, accountMap', substate', frames')
  <2>1. ReturnSuccess(accountMap, substate, data, refused) /\ Top.code # InvalidCode
    BY <1>3 DEF Halt
  <2>2. Balanced(tx, accountMap, substate, frames)
    BY <2>1 DEF EInv, EtherInv, Top
  <2> QED BY <1>1, <1>2, <2>1, <2>2, ReturnSuccessEther
<1>4. CASE Revert \/ ExceptionalHalt
  <2>1. ReturnFailure
    BY <1>4 DEF Revert, ExceptionalHalt
  <2> QED BY <1>1, <1>2, <2>1, ReturnFailureEther
<1> QED BY <1>3, <1>4

(* The checkpoint takes from the sender what the gas and the blobs cost,   *)
(* and the sender can still pay the value.                                 *)
LEMMA CheckpointEther ==
  ASSUME accountMap \in AccountMap, NoncesUpTo(accountMap, MaxNonce),
         TotalBalance(accountMap) < WordSize,
         NEW s \in Addr, NEW shape \in TxShapes, NEW v \in Word,
         Valid(s, shape, v), Fits(shape, v)
  PROVE  LET sigma == Checkpoint(s, shape)
         IN  /\ GasCost(shape) = shape.gasLimit * (shape.tip + shape.baseFee)
             /\ GasCost(shape) \in Nat
             /\ TotalBalance(sigma) + GasCost(shape) <= TotalBalance(accountMap)
             /\ NoneEmpty(accountMap) => NoneEmpty(sigma)
             /\ Deployed(sigma, s)
             /\ v <= BalanceOf(sigma, s)
<1> DEFINE acc  == accountMap[s]
           cost == GasCost(shape)
           left == WordSub(WordSub(acc.balance, cost), shape.blobFee)
           new  == [acc EXCEPT !.balance = left, !.nonce = WordAdd(@, 1)]
<1>1. /\ Exists(accountMap, s) /\ acc \in Account /\ acc.nonce < MaxNonce
      /\ WordAdd(WordAdd(cost, v), shape.blobFee) <= acc.balance
      /\ BalanceOf(accountMap, s) = acc.balance
  BY LookupType DEF Valid, BalanceOf, AccountAt
<1>2. /\ shape.gasLimit \in Nat /\ shape.tip \in Nat /\ shape.baseFee \in Nat
      /\ shape.blobFee \in Nat /\ v \in Nat /\ WordSize \in Nat
  BY ShapeFields, WordAssumption DEF Word
<1>3. cost = shape.gasLimit * (shape.tip + shape.baseFee) /\ cost \in Nat
  <2>1. Price(shape) = shape.tip + shape.baseFee
    BY <1>2 DEF Price, WordAdd, Fits
  <2> DEFINE product == shape.gasLimit * (shape.tip + shape.baseFee)
  <2>2. product \in Nat
    BY <1>2
  <2>3. product + v + shape.blobFee < WordSize
    BY DEF Fits
  <2>4. cost = product % WordSize
    BY <2>1 DEF GasCost, WordMul
  <2> HIDE DEF product, cost
  <2>5. product < WordSize
    BY <1>2, <2>2, <2>3
  <2>6. product % WordSize = product
    BY <1>2, <2>2, <2>5
  <2> QED BY <2>2, <2>4, <2>6 DEF product
<1>4. cost + v + shape.blobFee < WordSize
  BY <1>3 DEF Fits
<1>5. acc.balance \in Nat /\ acc.balance < WordSize /\ acc.nonce \in Nat
  BY <1>1, <1>2, AccountFields DEF Word
<1>6. Checkpoint(s, shape) = [accountMap EXCEPT ![s] = new]
  BY DEF Checkpoint
<1> HIDE DEF acc, cost
<1>7. cost + v + shape.blobFee <= acc.balance
  <2>1. WordAdd(cost, v) = cost + v
    BY <1>2, <1>3, <1>4 DEF WordAdd
  <2>2. WordAdd(cost + v, shape.blobFee) = cost + v + shape.blobFee
    BY <1>2, <1>3, <1>4 DEF WordAdd
  <2> QED BY <1>1, <2>1, <2>2
<1>8. left = acc.balance - cost - shape.blobFee /\ left \in Word
  <2>1. WordSub(acc.balance, cost) = acc.balance - cost
    BY <1>2, <1>3, <1>5, <1>7 DEF WordSub
  <2>2. WordSub(acc.balance - cost, shape.blobFee) = acc.balance - cost - shape.blobFee
    BY <1>2, <1>3, <1>5, <1>7 DEF WordSub
  <2>3. acc.balance - cost - shape.blobFee \in Word
    BY <1>2, <1>3, <1>5, <1>7 DEF Word
  <2> QED BY <2>1, <2>2, <2>3
<1>9. WordAdd(acc.nonce, 1) = acc.nonce + 1 /\ WordAdd(acc.nonce, 1) \in Word
  BY <1>1, <1>5, WordAssumption, NonceAssumption DEF WordAdd, Word
<1> HIDE DEF left
<1>10. new \in Account /\ new.balance = left /\ new.nonce = acc.nonce + 1
  BY <1>1, <1>8, <1>9 DEF Account
<1> HIDE DEF new
<1>11. ~IsEmpty(new) /\ new.nonce # 0
  BY <1>5, <1>10 DEF IsEmpty
<1> DEFINE sigma == [accountMap EXCEPT ![s] = new]
<1>12. /\ sigma[s] = new /\ Exists(sigma, s) /\ BalanceOf(sigma, s) = new.balance
       /\ TotalBalance(sigma) =
            TotalBalance(accountMap) + (new.balance - BalanceOf(accountMap, s))
       /\ NoneEmpty(accountMap) => NoneEmpty(sigma)
  BY <1>10, <1>11, WriteBalance
<1> HIDE DEF sigma
<1>13. Deployed(sigma, s)
  BY <1>11, <1>12 DEF Deployed
<1>14. v <= BalanceOf(sigma, s)
  BY <1>2, <1>3, <1>5, <1>7, <1>8, <1>10, <1>12
<1>15. TotalBalance(sigma) + cost <= TotalBalance(accountMap)
  <2>1. TotalBalance(accountMap) \in Nat
    BY TotalBounds
  <2> QED BY <1>1, <1>2, <1>3, <1>5, <1>8, <1>10, <1>12, <2>1
<1> QED BY <1>3, <1>6, <1>12, <1>13, <1>14, <1>15 DEF sigma, cost

LEMMA BeginEther ==
  ASSUME EInv, NEW s \in Senders, NEW shape \in TxShapes, NEW v \in Amounts,
         Fits(shape, v),
         \/ \E t \in CallTargets : BeginCall(s, shape, v, t)
         \/ \E a \in CreateTargets : BeginCreate(s, shape, v, a)
  PROVE  /\ Payable(tx', sigma0')
         /\ EtherInv(tx', accountMap', substate', frames')
<1> DEFINE sigma == Checkpoint(s, shape)
<1>1. BeginTx(s, shape, v) /\ tx = NoTx
  BY DEF BeginCall, BeginCreate, BeginTx
<1>2. /\ sigma \in AccountMap /\ NoncesUpTo(sigma, MaxNonce)
      /\ sigma0' = sigma /\ frames = <<>> /\ tx' # NoTx
      /\ \A recipients \in SUBSET Addr :
           InitialSubstate(s, shape, recipients) \in Substate
  BY <1>1, BeginTxSound DEF EInv, SInv, Sound
<1>3. s \in Addr /\ v \in Word
  BY AddressAssumption
<1>4. /\ accountMap \in AccountMap /\ NoncesUpTo(accountMap, MaxNonce)
      /\ NoneEmpty(accountMap) /\ Solvent(tx, accountMap)
  BY <1>2 DEF EInv, SInv, IInv, StateSound, Sound, NonceBound, EtherInv, Balanced
<1>5. Owed(tx) = 0
  BY <1>1 DEF Owed
<1>6. TotalBalance(accountMap) < WordSize
  BY <1>4, <1>5, SolventFits
<1>7. /\ GasCost(shape) = shape.gasLimit * (shape.tip + shape.baseFee)
      /\ GasCost(shape) \in Nat
      /\ TotalBalance(sigma) + GasCost(shape) <= TotalBalance(accountMap)
      /\ NoneEmpty(sigma) /\ Deployed(sigma, s) /\ v <= BalanceOf(sigma, s)
  BY <1>1, <1>3, <1>4, <1>6, CheckpointEther DEF BeginTx
<1> HIDE DEF sigma
<1>8. /\ tx'.sender = s /\ tx'.gasLimit = shape.gasLimit
      /\ tx'.baseFee = shape.baseFee /\ tx'.tip = shape.tip
  BY <1>1 DEF BeginTx
<1> DEFINE b == tx'
<1>9. Owed(b) = GasCost(shape) /\ Owed(b) \in Nat
  BY <1>2, <1>7, <1>8 DEF Owed, GasCost, Price
<1>10. Payable(b, sigma)
  <2>1. shape.gasLimit * (shape.tip + shape.baseFee) < WordSize
    <3>1. TotalBalance(sigma) \in Nat /\ TotalBalance(accountMap) \in Nat
          /\ WordSize \in Nat
      BY <1>2, <1>4, TotalBounds, WordAssumption
    <3> DEFINE product == shape.gasLimit * (shape.tip + shape.baseFee)
    <3>2. product \in Nat /\ TotalBalance(sigma) + product <= TotalBalance(accountMap)
      BY <1>7
    <3> HIDE DEF product
    <3>3. product < WordSize
      BY <1>6, <3>1, <3>2
    <3> QED BY <3>3 DEF product
  <2> QED BY <1>7, <1>8, <2>1 DEF Payable, Fits
<1>11. Solvent(b, sigma)
  <2>1. TotalBalance(sigma) \in Nat /\ TotalBalance(accountMap) \in Nat
        /\ TotalBalance(Genesis) \in Nat
    BY <1>2, <1>4, TotalBounds, GenesisAssumption
  <2>2. TotalBalance(accountMap) <= TotalBalance(Genesis)
    BY <1>4, <1>5, <2>1 DEF Solvent
  <2> QED BY <1>7, <1>9, <2>1, <2>2 DEF Solvent
<1> HIDE DEF b
<1>12. /\ frames \in Seq(Frame) /\ Ledger(b, frames)
       /\ \A A : Balanced(b, sigma, A, frames)
  BY <1>2, <1>7, <1>11, EmptySeq DEF Ledger, Balanced
<1>13. ASSUME NEW t \in CallTargets, BeginCall(s, shape, v, t)
       PROVE  EtherInv(b, accountMap', substate', frames')
  <2>1. MessageCall(sigma, InitialSubstate(s, shape, {t}), {}, s, t, t, v, TRUE)
    BY <1>13 DEF BeginCall, sigma
  <2>2. t \in Addr /\ InitialSubstate(s, shape, {t}) \in Substate
    BY <1>2, AddressAssumption
  <2> QED BY <1>2, <1>3, <1>7, <1>9, <1>12, <2>1, <2>2, MessageCallEther
<1>14. ASSUME NEW a \in CreateTargets, BeginCreate(s, shape, v, a)
       PROVE  EtherInv(b, accountMap', substate', frames')
  <2>1. ContractCreation(sigma, InitialSubstate(s, shape, {}), {}, s, a, v, TRUE)
    BY <1>14 DEF BeginCreate, sigma
  <2>2. a \in Addr /\ InitialSubstate(s, shape, {}) \in Substate
    BY <1>2, AddressAssumption
  <2> QED BY <1>2, <1>3, <1>7, <1>9, <1>12, <2>1, <2>2, ContractCreationEther
<1> QED BY <1>2, <1>10, <1>13, <1>14 DEF b

(* Gas that is given back and gas that is paid for do not cost more than   *)
(* all of it did.                                                          *)
LEMMA ShareOfGas ==
  ASSUME NEW limit \in Nat, NEW part \in 0..limit, NEW tip \in Nat, NEW base \in Nat
  PROVE  /\ part * (tip + base) \in Nat /\ (limit - part) * tip \in Nat
         /\ part * (tip + base) + (limit - part) * tip <= limit * (tip + base)
<1> DEFINE rest == limit - part
<1>1. part \in Nat /\ rest \in Nat /\ limit = part + rest
  OBVIOUS
<1> HIDE DEF rest
<1>2. part * (tip + base) \in Nat /\ rest * tip \in Nat /\ rest * base \in Nat
  BY <1>1
<1>3. (part + rest) * (tip + base) = part * (tip + base) + rest * tip + rest * base
  BY <1>1
<1>4. limit * (tip + base) = part * (tip + base) + rest * tip + rest * base
  BY <1>1, <1>3
<1>5. part * (tip + base) + rest * tip <= limit * (tip + base)
  BY <1>2, <1>4
<1> QED BY <1>2, <1>5 DEF rest

(* g*: no more than the limit. *)
LEMMA RefundedGasBounds ==
  ASSUME tx.gasLimit \in Nat, substate.refundBalance \in Nat,
         NEW gasLeft \in 0..tx.gasLimit
  PROVE  RefundedGas(gasLeft) \in 0..tx.gasLimit
<1> DEFINE used == tx.gasLimit - gasLeft
<1>1. used \in Nat /\ gasLeft \in Nat /\ gasLeft + used = tx.gasLimit
  OBVIOUS
<1>2. RefundedGas(gasLeft) = gasLeft + (IF used \div 5 <= substate.refundBalance
                                          THEN used \div 5 ELSE substate.refundBalance)
  BY DEF RefundedGas
<1> HIDE DEF used
<1>3. used \div 5 \in Nat /\ used \div 5 <= used
  BY <1>1
<1> QED BY <1>1, <1>2, <1>3

(* The settlement gives back and pays out no more than the gas cost. *)
LEMMA SettledEther ==
  ASSUME EInv, tx # NoTx, frames = <<>>, NEW gasLeft \in 0..tx.gasLimit
  PROVE  /\ NoneEmpty(Settled(gasLeft))
         /\ Solvent(NoTx, Settled(gasLeft))
<1> DEFINE gStar  == RefundedGas(gasLeft)
           back   == WordMul(gStar, Price(tx))
           fee    == WordMul(tx.gasLimit - gStar, tx.tip)
           repaid == IncreaseBalance(accountMap, tx.sender, back)
           paid   == IF fee # 0 THEN IncreaseBalance(repaid, Beneficiary, fee)
                                ELSE repaid
           total  == TotalBalance(accountMap)
<1>1. /\ tx.sender \in Addr /\ tx.gasLimit \in Nat /\ tx.tip \in Nat
      /\ tx.baseFee \in Nat /\ WordSize \in Nat /\ Owed(tx) \in Nat
  <2>1. tx \in TxType
    BY DEF EInv, SInv, IInv
  <2> QED BY <2>1, OwedType, WordAssumption DEF TxType, Word
<1>2. /\ Sound(sigma0, MaxNonce, accountMap, substate, createdAccounts)
      /\ sigma0 \in AccountMap
  BY DEF EInv, SInv, IInv, StateSound, NonceBound
<1>3. /\ accountMap \in AccountMap /\ substate.refundBalance \in Nat
      /\ Deployed(accountMap, tx.sender)
  BY <1>1, <1>2, KeptDeployed DEF Sound, Substate, Word, EInv, Payable
<1>4. NoneEmpty(accountMap) /\ Solvent(tx, accountMap)
  BY DEF EInv, EtherInv, Balanced
<1>5. total \in Nat /\ total + Owed(tx) < WordSize
  BY <1>1, <1>3, <1>4, SolventFits, TotalBounds
<1>6. gStar \in 0..tx.gasLimit
  BY <1>1, <1>3, RefundedGasBounds
<1> HIDE DEF gStar
<1>7. /\ back \in Nat /\ fee \in Nat /\ back + fee <= Owed(tx)
  <2> DEFINE x == gStar * (tx.tip + tx.baseFee)
             y == (tx.gasLimit - gStar) * tx.tip
             z == tx.gasLimit * (tx.tip + tx.baseFee)
  <2>1. x \in Nat /\ y \in Nat /\ x + y <= z
    BY <1>1, <1>6, ShareOfGas
  <2>2. z \in Nat /\ z < WordSize /\ tx.tip + tx.baseFee < WordSize
    BY <1>1 DEF EInv, Payable
  <2>3. Price(tx) = tx.tip + tx.baseFee
    BY <1>1, <2>2 DEF Price, WordAdd
  <2>4. back = x % WordSize /\ fee = y % WordSize /\ Owed(tx) = z % WordSize
    BY <2>3 DEF WordMul, Owed, GasCost
  <2> HIDE DEF x, y, z, back, fee
  <2>5. x < WordSize /\ y < WordSize
    BY <1>1, <2>1, <2>2
  <2>6. x % WordSize = x /\ y % WordSize = y /\ z % WordSize = z
    BY <1>1, <2>1, <2>2, <2>5
  <2> QED BY <2>1, <2>4, <2>6
<1> HIDE DEF back, fee
<1>8. /\ repaid \in AccountMap /\ TotalBalance(repaid) = total + back
      /\ NoneEmpty(repaid)
  <2>1. BalanceOf(accountMap, tx.sender) \in Nat
        /\ BalanceOf(accountMap, tx.sender) <= total
    BY <1>1, <1>3, TotalBounds
  <2>2. BalanceOf(accountMap, tx.sender) + back < WordSize
    BY <1>1, <1>5, <1>7, <2>1
  <2>3. Exists(accountMap, tx.sender)
    BY <1>3 DEF Deployed
  <2> QED BY <1>1, <1>3, <1>4, <1>7, <2>2, <2>3, IncreaseBalanceTotal
<1> HIDE DEF repaid
<1>9. /\ paid \in AccountMap /\ TotalBalance(paid) = total + back + fee
      /\ NoneEmpty(paid)
  <2>1. CASE fee = 0
    BY <1>5, <1>7, <1>8, <2>1
  <2>2. CASE fee # 0
    <3>1. Beneficiary \in Addr
      BY AddressAssumption
    <3>2. BalanceOf(repaid, Beneficiary) \in Nat
          /\ BalanceOf(repaid, Beneficiary) <= TotalBalance(repaid)
      BY <1>8, <3>1, TotalBounds
    <3>3. BalanceOf(repaid, Beneficiary) + fee < WordSize
      BY <1>1, <1>5, <1>7, <1>8, <3>2
    <3>4. paid = IncreaseBalance(repaid, Beneficiary, fee)
      BY <2>2
    <3> HIDE DEF paid
    <3>5. /\ IncreaseBalance(repaid, Beneficiary, fee) \in AccountMap
          /\ TotalBalance(IncreaseBalance(repaid, Beneficiary, fee)) =
               TotalBalance(repaid) + fee
          /\ NoneEmpty(IncreaseBalance(repaid, Beneficiary, fee))
      BY <1>7, <1>8, <2>2, <3>1, <3>3, IncreaseBalanceTotal
    <3> QED BY <1>8, <3>4, <3>5
  <2> QED BY <2>1, <2>2
<1>10. Settled(gasLeft) = ClearTransient(EraseAll(paid, substate.selfDestructSet))
  BY DEF Settled, paid, repaid, back, fee, gStar
<1> HIDE DEF paid
<1>11. /\ Settled(gasLeft) \in AccountMap
       /\ TotalBalance(Settled(gasLeft)) <= total + back + fee
       /\ NoneEmpty(Settled(gasLeft))
  BY <1>9, <1>10, EraseAndClearTotal
<1>12. Solvent(NoTx, Settled(gasLeft))
  <2>1. TotalBalance(Settled(gasLeft)) \in Nat /\ TotalBalance(Genesis) \in Nat
    BY <1>11, TotalBounds, GenesisAssumption
  <2>2. total + Owed(tx) <= TotalBalance(Genesis)
    BY <1>4 DEF Solvent
  <2>3. Owed(NoTx) = 0
    BY DEF Owed
  <2> HIDE DEF total
  <2> QED BY <1>1, <1>5, <1>7, <1>11, <2>1, <2>2, <2>3 DEF Solvent
<1> QED BY <1>11, <1>12

-----------------------------------------------------------------------------
(* The inductive invariant *)

LEMMA InitEther == Init => EInv
<1> SUFFICES ASSUME Init
             PROVE  EInv
  OBVIOUS
<1>1. /\ frames = <<>> /\ tx = NoTx /\ accountMap = Genesis
      /\ Genesis \in AccountMap /\ Len(frames) = 0
  BY GenesisAssumption, EmptySeq DEF Init
<1>2. NoneEmpty(accountMap)
  BY <1>1, SupplyAssumption DEF NoneEmpty
<1>3. Solvent(tx, accountMap)
  <2>1. TotalBalance(Genesis) \in Nat
    BY <1>1, TotalBounds
  <2> QED BY <1>1, <2>1 DEF Solvent, Owed
<1>4. EtherInv(tx, accountMap, substate, frames)
  BY <1>1, <1>2, <1>3 DEF EtherInv, Ledger, Balanced
<1> QED BY <1>1, <1>4, InitStack DEF EInv, Payable

LEMMA NextEther == EInv /\ [Next]_vars /\ [FeesFit]_vars => EInv'
<1> SUFFICES ASSUME EInv, [Next]_vars, [FeesFit]_vars
             PROVE  /\ Payable(tx', sigma0')
                    /\ EtherInv(tx', accountMap', substate', frames')
  BY NextStack DEF EInv
<1> DEFINE Good == /\ Payable(tx', sigma0')
                   /\ EtherInv(tx', accountMap', substate', frames')
<1>1. ASSUME UNCHANGED <<sigma0, tx>>,
             EtherInv(tx, accountMap', substate', frames')
      PROVE  Good
  BY <1>1 DEF EInv
<1>2. Instruction => UNCHANGED <<sigma0, tx>>
  BY DEF Instruction
<1>3. ASSUME NEW s \in Senders, NEW shape \in TxShapes, NEW v \in Amounts,
             \/ \E t \in CallTargets : BeginCall(s, shape, v, t)
             \/ \E a \in CreateTargets : BeginCreate(s, shape, v, a)
      PROVE  Good
  <2>1. BeginTx(s, shape, v)
    BY <1>3 DEF BeginCall, BeginCreate
  <2>2. txs' # txs
    BY <2>1 DEF BeginTx, EInv, SInv, IInv
  <2>3. Fits(shape, v)
    BY <2>1, <2>2 DEF FeesFit, vars
  <2> QED BY <1>3, <2>3, BeginEther
<1>4. ASSUME tx # NoTx, NEW gasLeft \in 0..tx.gasLimit, FinishTx(gasLeft)
      PROVE  Good
  <2>1. /\ frames = <<>> /\ frames' = <<>> /\ tx' = NoTx
        /\ accountMap' = Settled(gasLeft)
    BY <1>4 DEF FinishTx
  <2>2. NoneEmpty(accountMap') /\ Solvent(NoTx, accountMap')
    BY <1>4, <2>1, SettledEther
  <2>3. Len(frames') = 0
    BY <2>1, EmptySeq
  <2> QED BY <2>1, <2>2, <2>3 DEF Payable, EtherInv, Ledger, Balanced
<1>5. ASSUME NEW t \in CallTargets,
             \/ \E v \in Amounts : Call(t, v) \/ CallCode(t, v)
             \/ DelegateCall(t)
             \/ StaticCall(t)
      PROVE  Good
  <2>1. /\ Instruction /\ frames # <<>> /\ t \in Addr
        /\ 0 \in Word /\ Amounts \subseteq Word
    BY <1>5, AddressAssumption, SmallWords DEF Call, CallCode, DelegateCall,
       StaticCall, CallFrom, Instruction
  <2>2. Self \in Addr /\ Top.source \in Addr /\ Top.perm \in BOOLEAN
    BY <2>1, RunningFrame DEF EInv, SInv
  <2>3. ASSUME NEW v \in Amounts, Call(t, v)
        PROVE  EtherInv(tx, accountMap', substate', frames')
    BY <2>1, <2>2, <2>3, CallEther DEF Call
  <2>4. ASSUME NEW v \in Amounts, CallCode(t, v)
        PROVE  EtherInv(tx, accountMap', substate', frames')
    BY <2>1, <2>2, <2>4, CallEther DEF CallCode
  <2>5. ASSUME DelegateCall(t)
        PROVE  EtherInv(tx, accountMap', substate', frames')
    BY <2>1, <2>2, <2>5, CallEther DEF DelegateCall
  <2>6. ASSUME StaticCall(t)
        PROVE  EtherInv(tx, accountMap', substate', frames')
    BY <2>1, <2>2, <2>6, CallEther DEF StaticCall
  <2> QED BY <1>1, <1>2, <1>5, <2>1, <2>3, <2>4, <2>5, <2>6
<1>6. ASSUME NEW a \in CreateTargets, NEW v \in Amounts, Create(a, v)
      PROVE  Good
  BY <1>1, <1>2, <1>6, CreateEther, AddressAssumption DEF Create, Write
<1>7. ASSUME NEW heir \in Heirs, SelfDestruct(heir)
      PROVE  Good
  BY <1>1, <1>2, <1>7, SelfDestructEther, AddressAssumption DEF SelfDestruct, Write
<1>8. ASSUME NEW k \in Slots, NEW new \in Values, SStore(k, new) \/ TStore(k, new)
      PROVE  Good
  BY <1>1, <1>2, <1>8, StoreEther DEF SStore, TStore, Write
<1>9. ASSUME Log \/ (\E k \in Slots : SLoad(k)) \/ (\E a \in Probes : Probe(a))
      PROVE  Good
  BY <1>1, <1>2, <1>9, AccrueEther DEF Log, SLoad, Probe, Write
<1>10. ASSUME \/ \E data \in Codes \cup {NoCode}, refused \in BOOLEAN :
                   Halt(data, refused)
              \/ Revert \/ ExceptionalHalt
       PROVE  Good
  <2>1. UNCHANGED <<sigma0, tx>>
    BY <1>10 DEF Halt, Revert, ExceptionalHalt
  <2> QED BY <1>1, <1>10, <2>1, EndEther
<1>11. CASE UNCHANGED vars
  BY <1>11 DEF vars, EInv
<1> QED BY <1>3, <1>4, <1>5, <1>6, <1>7, <1>8, <1>9, <1>10, <1>11 DEF Next

(* EInv holds in every state of every behaviour whose transactions have    *)
(* fees that fit a word.                                                   *)
THEOREM EtherInvariance == Spec /\ [][FeesFit]_vars => []EInv
<1> QED BY InitEther, NextEther, PTL DEF Spec

-----------------------------------------------------------------------------
(* What the invariant says of the code *)

LEMMA EtherOfFrames ==
  ASSUME EInv
  PROVE  /\ DOMAIN frames = 1..Len(frames)
         /\ Ledger(tx, frames) /\ NoneEmpty(accountMap)
         /\ ~CollisionPending => Balanced(tx, accountMap, substate, frames)
<1>1. frames \in Seq(Frame)
  BY DEF EInv, SInv, IInv, StateSound, FramesSound
<1> QED BY <1>1 DEF EInv, EtherInv, CollisionPending, Top

(* Calls, creations, self-destructions and their failures make no ether:   *)
(* compared with what a frame was given, the running state has the same    *)
(* total, or less once an account is about to be erased.                   *)
THEOREM EtherIsConserved == Spec /\ [][FeesFit]_vars => []EtherConserved
<1>1. EInv => EtherConserved
  BY EtherOfFrames DEF EtherConserved, Balanced, Carries, Flows
<1> QED BY <1>1, EtherInvariance, PTL

(* Transactions, with the gas they buy and get back and the fees they pay, *)
(* make no ether.                                                          *)
THEOREM NoEtherIsMinted == Spec /\ [][FeesFit]_vars => []NoMint
<1>1. EInv => NoMint
  BY EtherOfFrames DEF NoMint, Balanced, Solvent, Owed
<1> QED BY <1>1, EtherInvariance, PTL

(* No empty account is ever left in a map that can become the result, so   *)
(* that the touched accounts, which nothing records, need no erasing.      *)
THEOREM NoAccountIsEmpty == Spec /\ [][FeesFit]_vars => []NoEmptyAccount
<1>1. EInv => NoEmptyAccount
  BY EtherOfFrames DEF NoEmptyAccount, LiveMaps, Ledger, NoneEmpty
<1> QED BY <1>1, EtherInvariance, PTL
===============================================================================
