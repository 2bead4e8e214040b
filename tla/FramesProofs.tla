---------------------------- MODULE FramesProofs ----------------------------
(***************************************************************************)
(* Proofs about Frames, for every set of addresses and codes, every depth  *)
(* and every number of transactions and instructions.                      *)
(*                                                                         *)
(* The inductive invariant IInv says the same thing, Sound, of every       *)
(* triple of an account map, a substate and a set of created accounts that *)
(* can still become the result of the transaction: the one of the running  *)
(* frame and those that the open frames return if they fail.               *)
(*                                                                         *)
(* The inductive invariant StackInv, in the second half, says what an open *)
(* frame can rely on while the frames above it run, return and fail:       *)
(* Within, of the frame and every state that can still be handed to it:    *)
(* the state of the running frame, and what each frame above it returns    *)
(* when it fails.                                                          *)
(***************************************************************************)
EXTENDS Frames, AccountsProofs, SequenceTheorems

(* No account of S was deployed at the checkpoint sig0. *)
Fresh(sig0, S) == \A a \in S : ~Deployed(sig0, a)

(* sigma has every account that was deployed at the checkpoint sig0, with  *)
(* its code and at least its nonce.                                        *)
Keeps(sig0, sigma) ==
  \A a \in Addr :
    Deployed(sig0, a) =>
      /\ Exists(sigma, a)
      /\ sigma[a].code = sig0[a].code
      /\ sigma[a].nonce >= sig0[a].nonce

Sound(sig0, n, sigma, A, cA) ==
  /\ sigma \in AccountMap
  /\ NoncesUpTo(sigma, n)
  /\ Keeps(sig0, sigma)
  /\ A \in Substate
  /\ Fresh(sig0, A.selfDestructSet)
  /\ cA \in SUBSET Addr
  /\ Fresh(sig0, cA)

FramesSound(sig0, fs) ==
  /\ fs \in Seq(Frame)
  /\ Len(fs) <= MaxDepth + 1
  /\ \A i \in 1..Len(fs) : Sound(sig0, MaxNonce, fs[i].sigma, fs[i].A, fs[i].cA)

(* While a colliding creation waits for its exception, the nonce of the    *)
(* account in its way may be one too high.                                 *)
NonceBound(fs) ==
  IF fs # <<>> /\ fs[Len(fs)].code = InvalidCode THEN MaxNonce + 1 ELSE MaxNonce

StateSound(sig0, sigma, A, cA, fs) ==
  /\ Sound(sig0, NonceBound(fs), sigma, A, cA)
  /\ FramesSound(sig0, fs)

TxType == [sender : Addr, gasLimit : Word, baseFee : Word, tip : Word] \cup {NoTx}

IInv ==
  /\ sigma0 \in AccountMap
  /\ StateSound(sigma0, accountMap, substate, createdAccounts, frames)
  /\ tx \in TxType
  /\ txs \in 0..MaxTxs
  /\ ops \in 0..MaxOps
  /\ tx = NoTx => frames = <<>>

-----------------------------------------------------------------------------
(* Facts about single triples and frames *)

LEMMA KeepsExtends ==
  ASSUME NEW sig0 \in AccountMap, NEW sigma \in AccountMap, NEW tau, NEW n,
         Keeps(sig0, sigma), Extends(sigma, tau, n)
  PROVE  Keeps(sig0, tau)
<1> SUFFICES ASSUME NEW a \in Addr, Deployed(sig0, a)
             PROVE  /\ Exists(tau, a)
                    /\ tau[a].code = sig0[a].code
                    /\ tau[a].nonce >= sig0[a].nonce
  BY DEF Keeps
<1>1. /\ Exists(sigma, a)
      /\ sigma[a].code = sig0[a].code
      /\ sigma[a].nonce >= sig0[a].nonce
  BY DEF Keeps
<1>2. /\ Exists(tau, a)
      /\ tau[a].code = sigma[a].code
      /\ tau[a].nonce >= sigma[a].nonce
  BY <1>1 DEF Extends, Preserves
<1>3. /\ sig0[a].nonce \in Int /\ sigma[a].nonce \in Int /\ tau[a].nonce \in Int
  BY <1>1, <1>2, LookupType, AccountFields DEF Deployed, Extends
<1> QED BY <1>1, <1>2, <1>3

LEMMA SoundExtends ==
  ASSUME NEW sig0 \in AccountMap, NEW sigma, NEW A, NEW cA, NEW m, NEW n, NEW tau,
         Sound(sig0, m, sigma, A, cA), Extends(sigma, tau, n)
  PROVE  Sound(sig0, n, tau, A, cA)
BY KeepsExtends DEF Sound, Extends

(* An account that is deployed at the checkpoint is deployed in every map  *)
(* that keeps it.                                                          *)
LEMMA KeptDeployed ==
  ASSUME NEW sig0 \in AccountMap, NEW sigma \in AccountMap, Keeps(sig0, sigma),
         NEW a \in Addr, Deployed(sig0, a)
  PROVE  Deployed(sigma, a)
<1>1. /\ Exists(sigma, a) /\ Exists(sig0, a)
      /\ sigma[a].code = sig0[a].code
      /\ sigma[a].nonce >= sig0[a].nonce
  BY DEF Keeps, Deployed
<1>2. /\ sigma[a].nonce \in Int /\ sig0[a].nonce \in Int /\ sig0[a].nonce >= 0
  BY <1>1, LookupType, AccountFields DEF Word
<1> QED BY <1>1, <1>2 DEF Deployed

LEMMA DeployedCollides ==
  ASSUME NEW sigma \in AccountMap, NEW a \in Addr, Deployed(sigma, a)
  PROVE  Collides(sigma, a)
BY DEF Deployed, Collides, AccountAt

LEMMA PushSound ==
  ASSUME NEW sig0, NEW fs, FramesSound(sig0, fs), Len(fs) <= MaxDepth,
         NEW f \in Frame, Sound(sig0, MaxNonce, f.sigma, f.A, f.cA)
  PROVE  /\ FramesSound(sig0, Append(fs, f))
         /\ NonceBound(Append(fs, f)) =
              IF f.code = InvalidCode THEN MaxNonce + 1 ELSE MaxNonce
<1> DEFINE gs == Append(fs, f)
<1>1. /\ gs \in Seq(Frame) /\ Len(gs) = Len(fs) + 1 /\ gs # <<>>
      /\ gs[Len(gs)] = f
      /\ \A i \in 1..Len(fs) : gs[i] = fs[i]
  <2>1. fs \in Seq(Frame) /\ Len(fs) \in Nat
    BY DEF FramesSound
  <2>2. gs \in Seq(Frame) /\ Len(gs) = Len(fs) + 1
    BY <2>1
  <2>3. gs[Len(fs) + 1] = f
    BY <2>1
  <2>4. \A i \in 1..Len(fs) : gs[i] = fs[i]
    BY <2>1
  <2>5. gs # <<>>
    BY <2>1, AppendProperties
  <2> QED BY <2>2, <2>3, <2>4, <2>5
<1>2. Len(fs) \in Nat /\ MaxDepth \in Nat
  BY AddressAssumption DEF FramesSound
<1> HIDE DEF gs
<1>3. \A i \in 1..Len(gs) : i \in 1..Len(fs) \/ i = Len(gs)
  BY <1>1, <1>2
<1>4. FramesSound(sig0, gs)
  BY <1>1, <1>2, <1>3 DEF FramesSound
<1> QED BY <1>1, <1>4 DEF NonceBound, gs

(* All but the last element of a sequence. *)
LEMMA HeadPart ==
  ASSUME NEW S, NEW s \in Seq(S), s # <<>>
  PROVE  LET r == SubSeq(s, 1, Len(s) - 1)
         IN  /\ r \in Seq(S) /\ Len(r) = Len(s) - 1
             /\ \A i \in 1..Len(r) : r[i] = s[i]
<1> DEFINE r == SubSeq(s, 1, Len(s) - 1)
<1>1. Len(s) \in Nat /\ Len(s) > 0
  BY EmptySeq
<1>2. \A i \in 1..(Len(s) - 1) : s[i] \in S
  BY <1>1
<1>3. r \in Seq(S)
  BY <1>1, <1>2, SubSeqProperties
<1>4. Len(r) = Len(s) - 1
  <2>1. Len(r) = IF 1 <= Len(s) - 1 THEN (Len(s) - 1) - 1 + 1 ELSE 0
    BY <1>1, <1>2, SubSeqProperties
  <2>2. \A n \in Nat : n > 0 => (IF 1 <= n - 1 THEN (n - 1) - 1 + 1 ELSE 0) = n - 1
    OBVIOUS
  <2> HIDE DEF r
  <2> QED BY <1>1, <2>1, <2>2
<1>5. \A i \in 1..Len(r) : r[i] = s[i]
  <2>1. \A i \in 1..((Len(s) - 1) - 1 + 1) : r[i] = s[1 + i - 1]
    BY <1>1, <1>2, SubSeqProperties
  <2> HIDE DEF r
  <2> QED BY <1>1, <1>4, <2>1
<1> QED BY <1>3, <1>4, <1>5 DEF r

LEMMA PopSound ==
  ASSUME NEW sig0, NEW fs, FramesSound(sig0, fs), fs # <<>>
  PROVE  /\ FramesSound(sig0, SubSeq(fs, 1, Len(fs) - 1))
         /\ fs[Len(fs)] \in Frame
         /\ Sound(sig0, MaxNonce, fs[Len(fs)].sigma, fs[Len(fs)].A, fs[Len(fs)].cA)
<1> DEFINE gs == SubSeq(fs, 1, Len(fs) - 1)
<1>1. Len(fs) \in Nat /\ Len(fs) > 0 /\ MaxDepth \in Nat
  BY AddressAssumption DEF FramesSound
<1>2. /\ gs \in Seq(Frame) /\ Len(gs) = Len(fs) - 1
      /\ \A i \in 1..Len(gs) : gs[i] = fs[i]
  <2>1. fs \in Seq(Frame)
    BY DEF FramesSound
  <2>2. \A i \in 1..(Len(fs) - 1) : fs[i] \in Frame
    BY <2>1, <1>1
  <2>3. Len(fs) - 1 \in 0..Len(fs)
    BY <1>1
  <2> QED BY <2>1, <2>3, HeadPart
<1> HIDE DEF gs
<1>3. \A i \in 1..Len(gs) : i \in 1..Len(fs)
  BY <1>1, <1>2
<1>4. FramesSound(sig0, gs)
  BY <1>1, <1>2, <1>3 DEF FramesSound
<1>5. Len(fs) \in 1..Len(fs)
  BY <1>1
<1> QED BY <1>4, <1>5 DEF FramesSound, gs

(* Any map whose nonces are below MaxNonce satisfies the bound of any      *)
(* frames.                                                                 *)
LEMMA SoundBelow ==
  ASSUME NEW sig0, NEW sigma, NEW A, NEW cA, NEW fs,
         Sound(sig0, MaxNonce, sigma, A, cA)
  PROVE  Sound(sig0, NonceBound(fs), sigma, A, cA)
<1>1. NonceBound(fs) = MaxNonce \/ NonceBound(fs) = MaxNonce + 1
  BY DEF NonceBound
<1>2. NoncesUpTo(sigma, MaxNonce + 1)
  BY LookupType, AccountFields, NonceAssumption DEF Sound, NoncesUpTo
<1> QED BY <1>1, <1>2 DEF Sound

(* Only the set of self-destructed accounts of a substate matters. *)
LEMMA SoundSubstate ==
  ASSUME NEW sig0, NEW n, NEW sigma, NEW A, NEW cA, NEW B \in Substate,
         Sound(sig0, n, sigma, A, cA), B.selfDestructSet = A.selfDestructSet
  PROVE  Sound(sig0, n, sigma, B, cA)
BY DEF Sound

-----------------------------------------------------------------------------
(* Entering and leaving frames *)

(* A message call on a sound triple, at a depth the code allows. *)
LEMMA MessageCallSound ==
  ASSUME NEW sig0 \in AccountMap, NEW sigma, NEW A, NEW cA,
         Sound(sig0, MaxNonce, sigma, A, cA),
         FramesSound(sig0, frames), Len(frames) <= MaxDepth,
         NEW s \in Addr, NEW r \in Addr, NEW t \in Addr,
         NEW v \in Word, NEW w \in BOOLEAN,
         MessageCall(sigma, A, cA, s, r, t, v, w)
  PROVE  StateSound(sig0, accountMap', substate', createdAccounts', frames')
<1> DEFINE sigma1 == Transfer(sigma, s, r, v)
<1>1. sigma \in AccountMap /\ NoncesUpTo(sigma, MaxNonce) /\ MaxNonce \in Nat
  BY NonceAssumption DEF Sound
<1>2. Sound(sig0, MaxNonce, sigma1, A, cA)
  BY <1>1, TransferExtends, SoundExtends
<1> HIDE DEF sigma1
<1>3. CASE t \in Precompiles
  <2>1. /\ accountMap' = sigma1 \/ accountMap' = sigma
        /\ substate' = A /\ createdAccounts' = {} /\ frames' = frames
    BY <1>3 DEF MessageCall, ApplyPrecompile, sigma1
  <2>2. Sound(sig0, MaxNonce, accountMap', substate', createdAccounts')
    BY <2>1, <1>2 DEF Sound, Fresh
  <2> QED BY <2>1, <2>2, SoundBelow DEF StateSound
<1>4. CASE t \notin Precompiles
  <2> DEFINE f == [kind |-> "call", codeOwner |-> r, source |-> s, perm |-> w,
                   code |-> AccountAt(sigma, t).code,
                   sigma |-> sigma, A |-> A, cA |-> cA]
  <2>1. /\ accountMap' = sigma1 /\ substate' = A /\ createdAccounts' = cA
        /\ frames' = Append(frames, f)
    BY <1>4 DEF MessageCall, sigma1
  <2>2. AccountAt(sigma, t).code \in Codes \cup {NoCode}
    BY <1>1, AccountAtType, AccountFields
  <2>3. f \in Frame
    BY <2>2 DEF Frame, Sound
  <2>4. f.code # InvalidCode /\ f.sigma = sigma /\ f.A = A /\ f.cA = cA
    BY <2>2, FrameCodeAssumption
  <2> HIDE DEF f
  <2> QED BY <2>1, <2>3, <2>4, <1>2, PushSound DEF StateSound
<1> QED BY <1>3, <1>4

(* A contract creation on a sound triple.  An address that does not        *)
(* collide is fresh at the checkpoint: it may count as created.            *)
LEMMA ContractCreationSound ==
  ASSUME NEW sig0 \in AccountMap, NEW sigma, NEW A, NEW cA,
         Sound(sig0, MaxNonce, sigma, A, cA),
         FramesSound(sig0, frames), Len(frames) <= MaxDepth,
         NEW s \in Addr, NEW a \in Addr, NEW v \in Word, NEW w \in BOOLEAN,
         ContractCreation(sigma, A, cA, s, a, v, w)
  PROVE  StateSound(sig0, accountMap', substate', createdAccounts', frames')
<1> DEFINE AStar    == [A EXCEPT !.accessedAccounts = @ \cup {a}]
           collides == Collides(sigma, a)
           cA1      == IF collides THEN cA ELSE cA \cup {a}
           code     == IF collides THEN InvalidCode ELSE InitCode
           bound    == IF collides THEN MaxNonce + 1 ELSE MaxNonce
           f == [kind |-> "create", codeOwner |-> a, source |-> s, perm |-> w,
                 code |-> code, sigma |-> sigma, A |-> AStar, cA |-> cA1]
<1>1. sigma \in AccountMap /\ NoncesUpTo(sigma, MaxNonce) /\ A \in Substate
  BY DEF Sound
<1>2. AStar \in Substate /\ AStar.selfDestructSet = A.selfDestructSet
  BY <1>1 DEF Substate
<1>3. ~collides => ~Deployed(sig0, a)
  BY <1>1, KeptDeployed, DeployedCollides DEF Sound
<1>4. cA1 \in SUBSET Addr /\ Fresh(sig0, cA1)
  BY <1>3 DEF Sound, Fresh
<1>5. Sound(sig0, MaxNonce, sigma, AStar, cA1)
  BY <1>2, <1>4 DEF Sound
<1>6. /\ bound \in Nat /\ bound >= MaxNonce /\ bound <= MaxNonce + 1
      /\ collides => bound = MaxNonce + 1
  BY NonceAssumption
<1>7. accountMap' = Endow(sigma, s, a, v) /\ substate' = AStar
      /\ createdAccounts' = cA1 /\ frames' = Append(frames, f)
  BY DEF ContractCreation
<1>8. f \in Frame
  BY <1>1, <1>2, <1>4 DEF Frame
<1>9. f.sigma = sigma /\ f.A = AStar /\ f.cA = cA1 /\ f.code = code
  OBVIOUS
<1>10. bound = IF code = InvalidCode THEN MaxNonce + 1 ELSE MaxNonce
  BY FrameCodeAssumption
<1> HIDE DEF AStar, cA1, f, code, bound
<1>11. Sound(sig0, bound, accountMap', AStar, cA1)
  <2>1. Extends(sigma, Endow(sigma, s, a, v), bound)
    BY <1>1, <1>6, EndowExtends
  <2> QED BY <2>1, <1>5, <1>7, SoundExtends
<1>12. FramesSound(sig0, Append(frames, f)) /\ NonceBound(Append(frames, f)) = bound
  BY <1>5, <1>8, <1>9, <1>10, PushSound
<1> QED BY <1>7, <1>11, <1>12 DEF StateSound

(* A frame that fails hands back what its caller gave it. *)
LEMMA ReturnFailureSound ==
  ASSUME NEW sig0, FramesSound(sig0, frames), frames # <<>>, ReturnFailure
  PROVE  StateSound(sig0, accountMap', substate', createdAccounts', frames')
<1>1. /\ FramesSound(sig0, frames')
      /\ Sound(sig0, MaxNonce, accountMap', substate', createdAccounts')
  BY PopSound DEF ReturnFailure, Pop, Top
<1> QED BY <1>1, SoundBelow DEF StateSound

(* A frame that succeeds hands on its own triple; a creation writes the    *)
(* code of an account that was not deployed at the checkpoint.             *)
LEMMA ReturnSuccessSound ==
  ASSUME NEW sig0 \in AccountMap, FramesSound(sig0, frames), frames # <<>>,
         NEW sigma, NEW A, NEW data \in Codes \cup {NoCode}, NEW refused \in BOOLEAN,
         Sound(sig0, MaxNonce, sigma, A, createdAccounts),
         ReturnSuccess(sigma, A, data, refused)
  PROVE  StateSound(sig0, accountMap', substate', createdAccounts', frames')
<1>1. /\ FramesSound(sig0, Pop) /\ Top \in Frame
      /\ Sound(sig0, MaxNonce, Top.sigma, Top.A, Top.cA)
  BY PopSound DEF Pop, Top
<1>2. Self \in Addr
  BY <1>1 DEF Self, Frame
<1>3. frames' = Pop /\ createdAccounts' = createdAccounts
  BY DEF ReturnSuccess
<1>4. Sound(sig0, MaxNonce, accountMap', substate', createdAccounts')
  <2>1. CASE accountMap' = Top.sigma /\ substate' = Top.A
    BY <2>1, <1>1, <1>3 DEF Sound
  <2>2. CASE accountMap' = sigma /\ substate' = A
    BY <2>2, <1>3
  <2>3. CASE /\ ~Deployed(Top.sigma, Self)
             /\ accountMap' = SetCode(sigma, Self, data) /\ substate' = A
    <3> DEFINE tau == SetCode(sigma, Self, data)
    <3>1. ~Deployed(sig0, Self)
      BY <2>3, <1>1, <1>2, KeptDeployed DEF Sound
    <3>2. /\ tau \in AccountMap
          /\ NoncesUpTo(tau, MaxNonce)
          /\ \A b \in Addr : b # Self => tau[b] = sigma[b]
      BY <1>2, NonceAssumption, SetCodeWrites DEF Sound
    <3> HIDE DEF tau
    <3>3. Keeps(sig0, tau)
      BY <3>1, <3>2 DEF Keeps, Sound, Exists
    <3> QED BY <2>3, <1>3, <3>2, <3>3 DEF Sound, tau
  <2> QED BY <2>1, <2>2, <2>3 DEF ReturnSuccess
<1> QED BY <1>1, <1>3, <1>4, SoundBelow DEF StateSound

-----------------------------------------------------------------------------
(* The transaction *)

LEMMA ShapeFields ==
  ASSUME NEW shape \in TxShapes
  PROVE  /\ shape.gasLimit \in Word /\ shape.baseFee \in Word
         /\ shape.tip \in Word /\ shape.blobFee \in Word
         /\ shape.accessList.addresses \in SUBSET Addr
         /\ shape.accessList.keys \in SUBSET (Addr \X Slots)
BY TxAssumption

(* The checkpoint charges the sender and raises its nonce by one. *)
LEMMA CheckpointExtends ==
  ASSUME accountMap \in AccountMap, NoncesUpTo(accountMap, MaxNonce),
         NEW s \in Addr, NEW shape \in TxShapes, NEW v, Valid(s, shape, v)
  PROVE  Extends(accountMap, Checkpoint(s, shape), MaxNonce)
<1> DEFINE acc     == accountMap[s]
           balance == WordSub(WordSub(acc.balance, GasCost(shape)), shape.blobFee)
           new == [acc EXCEPT !.balance = balance, !.nonce = WordAdd(@, 1)]
<1>1. acc \in Account /\ acc = AccountAt(accountMap, s) /\ acc.nonce < MaxNonce
  BY LookupType DEF Valid, AccountAt
<1>2. balance \in Word
  <2>1. Price(shape) \in Word
    BY ShapeFields, WordAddType DEF Price
  <2>2. Price(shape) \in Int /\ shape.gasLimit \in Int
    BY <2>1, ShapeFields DEF Word
  <2>3. GasCost(shape) \in Word
    BY <2>2, WordMulType DEF GasCost
  <2> QED BY <1>1, <2>3, ShapeFields, WordSubType, AccountFields
<1>3. WordAdd(acc.nonce, 1) = acc.nonce + 1 /\ WordAdd(acc.nonce, 1) \in Word
  BY <1>1, AccountFields, SmallWords, WordAddType, WordAssumption, NonceAssumption
     DEF WordAdd
<1> HIDE DEF balance
<1>4. new \in Account /\ new.code = acc.code /\ new.nonce = acc.nonce + 1
  <2> HIDE DEF acc
  <2> QED BY <1>1, <1>2, <1>3 DEF Account
<1>5. new.nonce >= acc.nonce /\ new.nonce <= MaxNonce
  BY <1>1, <1>4, AccountFields, NonceAssumption
<1>6. Checkpoint(s, shape) = [accountMap EXCEPT ![s] = new]
  BY DEF Checkpoint, balance
<1> HIDE DEF new
<1> QED BY <1>1, <1>4, <1>5, <1>6, UpdateExtends

(* A transaction begins: the checkpoint becomes sigma0, and the first      *)
(* frame, or the precompiled contract, starts from it.                     *)
LEMMA BeginTxSound ==
  ASSUME IInv, NEW s \in Senders, NEW shape \in TxShapes, NEW v,
         BeginTx(s, shape, v)
  PROVE  /\ Extends(accountMap, Checkpoint(s, shape), MaxNonce)
         /\ Checkpoint(s, shape) \in AccountMap
         /\ \A recipients \in SUBSET Addr :
              Sound(sigma0', MaxNonce, Checkpoint(s, shape),
                    InitialSubstate(s, shape, recipients), {})
         /\ sigma0' = Checkpoint(s, shape)
         /\ frames = <<>> /\ FramesSound(sigma0', frames) /\ Len(frames) <= MaxDepth
         /\ tx' \in TxType \ {NoTx} /\ txs' \in 0..MaxTxs /\ ops' \in 0..MaxOps
<1>1. frames = <<>> /\ sigma0' = Checkpoint(s, shape) /\ s \in Addr
  BY AddressAssumption DEF BeginTx, IInv
<1>2. accountMap \in AccountMap /\ NoncesUpTo(accountMap, MaxNonce)
  BY <1>1 DEF IInv, StateSound, Sound, NonceBound
<1>3. Extends(accountMap, Checkpoint(s, shape), MaxNonce)
  BY <1>1, <1>2, CheckpointExtends DEF BeginTx
<1>4. Checkpoint(s, shape) \in AccountMap /\ NoncesUpTo(Checkpoint(s, shape), MaxNonce)
  BY <1>3 DEF Extends
<1>5. Keeps(sigma0', Checkpoint(s, shape))
  BY <1>1, <1>4, LookupType, AccountFields DEF Keeps, Deployed
<1>6. ASSUME NEW recipients \in SUBSET Addr
      PROVE  /\ InitialSubstate(s, shape, recipients) \in Substate
             /\ InitialSubstate(s, shape, recipients).selfDestructSet = {}
  <2> DEFINE warm == Precompiles \cup {s, Beneficiary}
                       \cup shape.accessList.addresses \cup recipients
  <2>1. warm \in SUBSET Addr /\ shape.accessList.keys \in SUBSET (Addr \X Slots)
    BY <1>1, ShapeFields, AddressAssumption
  <2>2. 0 \in Word /\ {} \in SUBSET Addr /\ <<>> \in Seq(Addr)
    BY SmallWords
  <2>3. A0 \in Substate /\ A0.selfDestructSet = {} /\ A0.accessedAccounts = Precompiles
    BY <2>2, AddressAssumption DEF A0, Substate
  <2>4. InitialSubstate(s, shape, recipients) =
          [A0 EXCEPT !.accessedAccounts = warm,
                     !.accessedStorageKeys = shape.accessList.keys]
    BY <2>3 DEF InitialSubstate
  <2> HIDE DEF warm
  <2> QED BY <2>1, <2>3, <2>4 DEF Substate
<1>7. tx' \in TxType \ {NoTx}
  <2>1. tx' \in [sender : Addr, gasLimit : Word, baseFee : Word, tip : Word]
    BY <1>1, ShapeFields DEF BeginTx
  <2> QED BY <2>1, TxAssumption DEF TxType
<1>8. txs' \in 0..MaxTxs /\ ops' \in 0..MaxOps
  BY AddressAssumption DEF IInv, BeginTx
<1>9. FramesSound(sigma0', frames) /\ Len(frames) <= MaxDepth
  BY <1>1, AddressAssumption, EmptySeq DEF FramesSound
<1>10. \A recipients \in SUBSET Addr :
         Sound(sigma0', MaxNonce, Checkpoint(s, shape),
               InitialSubstate(s, shape, recipients), {})
  BY <1>4, <1>5, <1>6 DEF Sound, Fresh
<1> QED BY <1>1, <1>3, <1>4, <1>7, <1>8, <1>9, <1>10

(* The settlement of a transaction removes the accounts that destroyed     *)
(* themselves, and no other.                                               *)
LEMMA SettledSound ==
  ASSUME IInv, tx # NoTx, frames = <<>>, NEW gasLeft \in 0..tx.gasLimit
  PROVE  /\ Settled(gasLeft) \in AccountMap
         /\ NoncesUpTo(Settled(gasLeft), MaxNonce)
         /\ \A a \in Addr : Deployed(sigma0, a) => Exists(Settled(gasLeft), a)
         /\ substate \in Substate
         /\ Fresh(Settled(gasLeft), substate.selfDestructSet)
<1> DEFINE gStar  == RefundedGas(gasLeft)
           back   == WordMul(gStar, Price(tx))
           fee    == WordMul(tx.gasLimit - gStar, tx.tip)
           repaid == IncreaseBalance(accountMap, tx.sender, back)
           paid   == IF fee # 0 THEN IncreaseBalance(repaid, Beneficiary, fee)
                                ELSE repaid
<1>1. /\ tx.sender \in Addr /\ tx.gasLimit \in Word
      /\ tx.tip \in Word /\ tx.baseFee \in Word
  BY DEF IInv, TxType
<1>2. Sound(sigma0, MaxNonce, accountMap, substate, createdAccounts)
  BY DEF IInv, StateSound, NonceBound
<1>3. gStar \in Int
  <2>1. substate.refundBalance \in Int /\ gasLeft \in Int /\ tx.gasLimit \in Int
    BY <1>1, <1>2 DEF Sound, Substate, Word
  <2> QED BY <2>1 DEF RefundedGas
<1>4. back \in Word /\ fee \in Word
  <2>1. Price(tx) \in Int
    BY <1>1, WordAddType DEF Price, Word
  <2>2. tx.gasLimit - gStar \in Int /\ tx.tip \in Int
    BY <1>1, <1>3 DEF Word
  <2> HIDE DEF gStar
  <2> QED BY <1>3, <2>1, <2>2, WordMulType
<1> HIDE DEF back, fee
<1>5. accountMap \in AccountMap /\ NoncesUpTo(accountMap, MaxNonce) /\ MaxNonce \in Nat
  BY <1>2, NonceAssumption DEF Sound
<1>6. Extends(accountMap, repaid, MaxNonce)
  BY <1>1, <1>4, <1>5, IncreaseBalanceExtends
<1>7. repaid \in AccountMap /\ NoncesUpTo(repaid, MaxNonce)
  BY <1>6 DEF Extends
<1> HIDE DEF repaid
<1>8. Extends(repaid, paid, MaxNonce)
  BY <1>4, <1>5, <1>7, AddressAssumption, IncreaseBalanceExtends, ExtendsReflexive
<1>9. Extends(accountMap, paid, MaxNonce) /\ paid \in AccountMap
  BY <1>5, <1>6, <1>7, <1>8, ExtendsTransitive DEF Extends
<1>10. NoncesUpTo(paid, MaxNonce) /\ Preserves(accountMap, paid)
  BY <1>9 DEF Extends
<1>11. Settled(gasLeft) = ClearTransient(EraseAll(paid, substate.selfDestructSet))
  BY DEF Settled, paid, repaid, fee, back
<1> HIDE DEF paid
<1>12. /\ Settled(gasLeft) \in AccountMap
       /\ NoncesUpTo(Settled(gasLeft), MaxNonce)
       /\ \A a \in Addr : Exists(Settled(gasLeft), a)
            <=> Exists(paid, a) /\ a \notin substate.selfDestructSet
  BY <1>9, <1>10, <1>11, EraseAndClear
<1>13. \A a \in Addr : Deployed(sigma0, a) =>
         Exists(paid, a) /\ a \notin substate.selfDestructSet
  BY <1>2, <1>10 DEF Sound, Keeps, Fresh, Preserves
<1>14. substate \in Substate /\ substate.selfDestructSet \subseteq Addr
  BY <1>2 DEF Sound, Substate
<1> QED BY <1>12, <1>13, <1>14 DEF Fresh, Deployed

-----------------------------------------------------------------------------
(* The instructions *)

(* What the invariant says of the frame that executes an instruction. *)
LEMMA RunningFrame ==
  ASSUME IInv, frames # <<>>
  PROVE  /\ sigma0 \in AccountMap
         /\ Top \in Frame /\ Self \in Addr /\ Top.source \in Addr
         /\ Top.perm \in BOOLEAN
         /\ FramesSound(sigma0, frames) /\ Len(frames) \in Nat
         /\ accountMap \in AccountMap /\ substate \in Substate
         /\ Top.code # InvalidCode =>
              Sound(sigma0, MaxNonce, accountMap, substate, createdAccounts)
<1>1. FramesSound(sigma0, frames) /\ Len(frames) \in Nat
  BY DEF IInv, StateSound, FramesSound
<1>2. Top \in Frame
  BY <1>1, PopSound DEF Top
<1> QED BY <1>1, <1>2 DEF IInv, StateSound, NonceBound, Sound, Top, Self, Frame

LEMMA RunnableFrame ==
  ASSUME NEW f, Runnable(f) PROVE f.code # InvalidCode
BY FrameCodeAssumption DEF Runnable

(* A step inside a transaction keeps the invariant when it keeps its part  *)
(* about the state. *)
LEMMA StepInside ==
  ASSUME IInv, frames # <<>>, ops' \in 0..MaxOps, UNCHANGED <<sigma0, tx, txs>>,
         StateSound(sigma0, accountMap', substate', createdAccounts', frames')
  PROVE  IInv'
BY DEF IInv

LEMMA InstructionCounts ==
  ASSUME IInv, Instruction
  PROVE  /\ frames # <<>> /\ ops' \in 0..MaxOps /\ UNCHANGED <<sigma0, tx, txs>>
         /\ Sound(sigma0, MaxNonce, accountMap, substate, createdAccounts)
<1>1. ops' \in 0..MaxOps
  BY AddressAssumption DEF IInv, Instruction
<1> QED BY <1>1, RunningFrame, RunnableFrame DEF Instruction

(* An instruction that stays in its frame: the map that it leaves extends  *)
(* the one it found, and it destroys nothing.                              *)
LEMMA LocalStep ==
  ASSUME IInv, Instruction, UNCHANGED <<createdAccounts, frames>>,
         Extends(accountMap, accountMap', MaxNonce),
         substate' \in Substate, substate'.selfDestructSet = substate.selfDestructSet
  PROVE  IInv'
<1>1. /\ frames # <<>> /\ ops' \in 0..MaxOps /\ UNCHANGED <<sigma0, tx, txs>>
      /\ Sound(sigma0, MaxNonce, accountMap, substate, createdAccounts)
  BY InstructionCounts
<1>2. sigma0 \in AccountMap /\ FramesSound(sigma0, frames)
  BY <1>1, RunningFrame
<1>3. Sound(sigma0, MaxNonce, accountMap', substate, createdAccounts)
  BY <1>1, <1>2, SoundExtends
<1>4. Sound(sigma0, MaxNonce, accountMap', substate', createdAccounts')
  BY <1>3, SoundSubstate
<1>5. StateSound(sigma0, accountMap', substate', createdAccounts', frames')
  BY <1>2, <1>4, SoundBelow DEF StateSound
<1> QED BY <1>1, <1>5, StepInside

(* An address that an instruction names becomes warm. *)
LEMMA WarmAccount ==
  ASSUME NEW A \in Substate, NEW a \in Addr
  PROVE  LET B == [A EXCEPT !.accessedAccounts = @ \cup {a}]
         IN  B \in Substate /\ B.selfDestructSet = A.selfDestructSet
BY DEF Substate

LEMMA UnchangedMap ==
  ASSUME IInv, Instruction
  PROVE  Extends(accountMap, accountMap, MaxNonce)
BY InstructionCounts, ExtendsReflexive DEF Sound

LEMMA CallSound ==
  ASSUME IInv, NEW s \in Addr, NEW r \in Addr, NEW t \in Addr,
         NEW v \in Word, NEW w \in BOOLEAN, CallFrom(s, r, t, v, w)
  PROVE  IInv'
<1> DEFINE A1 == [substate EXCEPT !.accessedAccounts = @ \cup {t}]
<1>1. Instruction
  BY DEF CallFrom
<1>2. /\ frames # <<>> /\ ops' \in 0..MaxOps /\ UNCHANGED <<sigma0, tx, txs>>
      /\ Sound(sigma0, MaxNonce, accountMap, substate, createdAccounts)
      /\ sigma0 \in AccountMap /\ FramesSound(sigma0, frames)
      /\ substate \in Substate /\ Len(frames) \in Nat
  BY <1>1, InstructionCounts, RunningFrame
<1>3. A1 \in Substate /\ A1.selfDestructSet = substate.selfDestructSet
  BY <1>2, WarmAccount
<1>4. CASE v <= BalanceOf(accountMap, Self) /\ Len(frames) - 1 < MaxDepth
  <2>1. MessageCall(accountMap, A1, createdAccounts, s, r, t, v, w)
    BY <1>4 DEF CallFrom
  <2>2. Len(frames) <= MaxDepth
    BY <1>2, <1>4, AddressAssumption
  <2> HIDE DEF A1
  <2>3. Sound(sigma0, MaxNonce, accountMap, A1, createdAccounts)
    BY <1>2, <1>3, SoundSubstate
  <2>4. StateSound(sigma0, accountMap', substate', createdAccounts', frames')
    BY <1>2, <2>1, <2>2, <2>3, MessageCallSound
  <2> QED BY <1>2, <2>4, StepInside
<1>5. CASE ~(v <= BalanceOf(accountMap, Self) /\ Len(frames) - 1 < MaxDepth)
  <2>1. substate' = A1 /\ UNCHANGED <<accountMap, createdAccounts, frames>>
    BY <1>5 DEF CallFrom
  <2> HIDE DEF A1
  <2> QED BY <1>1, <1>3, <2>1, UnchangedMap, LocalStep
<1> QED BY <1>4, <1>5

LEMMA CreateSound ==
  ASSUME IInv, NEW a \in Addr, NEW v \in Word, Create(a, v)
  PROVE  IInv'
<1> DEFINE sigma == IncrementNonce(accountMap, Self)
<1>1. Instruction
  BY DEF Create, Write
<1>2. /\ frames # <<>> /\ ops' \in 0..MaxOps /\ UNCHANGED <<sigma0, tx, txs>>
      /\ Sound(sigma0, MaxNonce, accountMap, substate, createdAccounts)
      /\ sigma0 \in AccountMap /\ FramesSound(sigma0, frames) /\ Len(frames) \in Nat
      /\ substate \in Substate /\ Self \in Addr /\ Top.perm \in BOOLEAN
  BY <1>1, InstructionCounts, RunningFrame
<1>3. CASE /\ AccountAt(accountMap, Self).nonce < MaxNonce
           /\ v <= BalanceOf(accountMap, Self)
           /\ Len(frames) - 1 < MaxDepth
  <2>1. ContractCreation(sigma, substate, createdAccounts, Self, a, v, Top.perm)
    BY <1>3 DEF Create
  <2>2. Len(frames) <= MaxDepth
    BY <1>2, <1>3, AddressAssumption
  <2>3. Extends(accountMap, sigma, MaxNonce)
    BY <1>2, <1>3, IncrementNonceExtends DEF Sound
  <2> HIDE DEF sigma
  <2>4. Sound(sigma0, MaxNonce, sigma, substate, createdAccounts)
    BY <1>2, <2>3, SoundExtends
  <2>5. StateSound(sigma0, accountMap', substate', createdAccounts', frames')
    BY <1>2, <2>1, <2>2, <2>4, ContractCreationSound
  <2> QED BY <1>2, <2>5, StepInside
<1>4. CASE ~(/\ AccountAt(accountMap, Self).nonce < MaxNonce
             /\ v <= BalanceOf(accountMap, Self)
             /\ Len(frames) - 1 < MaxDepth)
  <2>1. UNCHANGED <<accountMap, substate, createdAccounts, frames>>
    BY <1>4 DEF Create
  <2> QED BY <1>1, <1>2, <2>1, UnchangedMap, LocalStep
<1> QED BY <1>3, <1>4

(* SELFDESTRUCT adds its account to the set of the destroyed only when it  *)
(* is among the created ones, which are fresh.                             *)
LEMMA SelfDestructSound ==
  ASSUME IInv, NEW heir \in Addr, SelfDestruct(heir)
  PROVE  IInv'
<1> DEFINE isNew == Self \in createdAccounts
           dead  == IF isNew THEN substate.selfDestructSet \cup {Self}
                             ELSE substate.selfDestructSet
           warm  == substate.accessedAccounts \cup {heir}
           A1 == [substate EXCEPT !.selfDestructSet = dead, !.accessedAccounts = warm]
           sigma == Bequeath(accountMap, Self, heir, isNew)
<1>1. Instruction
  BY DEF SelfDestruct, Write
<1>2. /\ frames # <<>> /\ ops' \in 0..MaxOps /\ UNCHANGED <<sigma0, tx, txs>>
      /\ Sound(sigma0, MaxNonce, accountMap, substate, createdAccounts)
      /\ sigma0 \in AccountMap /\ FramesSound(sigma0, frames)
      /\ substate \in Substate /\ Self \in Addr
  BY <1>1, InstructionCounts, RunningFrame
<1>3. PICK refused \in BOOLEAN : ReturnSuccess(sigma, A1, NoCode, refused)
  BY DEF SelfDestruct
<1>4. dead \in SUBSET Addr /\ warm \in SUBSET Addr /\ Fresh(sigma0, dead)
  BY <1>2 DEF Sound, Fresh, Substate
<1>5. Extends(accountMap, sigma, MaxNonce)
  <2>1. isNew \in BOOLEAN
    OBVIOUS
  <2> QED BY <1>2, <2>1, BequeathExtends, NonceAssumption DEF Sound
<1> HIDE DEF dead, warm, isNew
<1>6. A1 \in Substate /\ A1.selfDestructSet = dead
  BY <1>2, <1>4 DEF Substate
<1> HIDE DEF A1, sigma
<1>7. Sound(sigma0, MaxNonce, sigma, substate, createdAccounts)
  BY <1>2, <1>5, SoundExtends
<1>8. Sound(sigma0, MaxNonce, sigma, A1, createdAccounts)
  BY <1>4, <1>6, <1>7 DEF Sound
<1>9. StateSound(sigma0, accountMap', substate', createdAccounts', frames')
  BY <1>2, <1>3, <1>8, ReturnSuccessSound
<1> QED BY <1>2, <1>9, StepInside

(* The refund counter stays a word. *)
LEMMA AddRefundType ==
  ASSUME NEW refund \in Word, NEW v0, NEW v, NEW new
  PROVE  AddRefund(refund, RefundDelta(v0, v, new)) \in Word
<1> DEFINE delta == RefundDelta(v0, v, new)
<1>1. delta \in -(Rsclear + Gsset)..(Rsclear + Gsset)
  BY RefundAssumption DEF RefundDelta
<1> HIDE DEF delta
<1>2. CASE delta >= 0
  <2>1. delta \in Word
    BY <1>1, <1>2, RefundAssumption, WordAssumption DEF Word
  <2>2. AddRefund(refund, delta) \in Word
    BY <1>2, <2>1, WordAddType DEF AddRefund
  <2> QED BY <2>2 DEF delta
<1>3. CASE ~(delta >= 0)
  <2>1. -delta \in Word
    BY <1>1, <1>3, RefundAssumption, WordAssumption DEF Word
  <2>2. AddRefund(refund, delta) \in Word
    BY <1>3, <2>1, WordSubType DEF AddRefund
  <2> QED BY <2>2 DEF delta
<1> QED BY <1>2, <1>3

(* A write to the permanent or the transient storage of an account. *)
LEMMA StorageWriteExtends ==
  ASSUME NEW sigma \in AccountMap, NEW a \in Addr, Exists(sigma, a),
         NEW k \in Slots, NEW new \in Values, NoncesUpTo(sigma, MaxNonce)
  PROVE  /\ Extends(sigma, [sigma EXCEPT ![a].storage[k] = new], MaxNonce)
         /\ Extends(sigma, [sigma EXCEPT ![a].tstorage[k] = new], MaxNonce)
<1> DEFINE acc == sigma[a]
           stored    == [acc EXCEPT !.storage[k] = new]
           transient == [acc EXCEPT !.tstorage[k] = new]
<1>1. acc \in Account /\ acc = AccountAt(sigma, a) /\ acc.nonce <= MaxNonce
  BY LookupType DEF AccountAt, NoncesUpTo
<1>2. /\ [sigma EXCEPT ![a].storage[k] = new] = [sigma EXCEPT ![a] = stored]
      /\ [sigma EXCEPT ![a].tstorage[k] = new] = [sigma EXCEPT ![a] = transient]
  OBVIOUS
<1> HIDE DEF acc
<1>3. /\ stored \in Account /\ stored.code = acc.code /\ stored.nonce = acc.nonce
      /\ transient \in Account /\ transient.code = acc.code
      /\ transient.nonce = acc.nonce
  BY <1>1 DEF Account, Storage
<1>4. acc.nonce >= acc.nonce
  BY <1>1, AccountFields
<1> HIDE DEF stored, transient
<1> QED BY <1>1, <1>2, <1>3, <1>4, UpdateExtends

LEMMA SStoreSound ==
  ASSUME IInv, NEW k \in Slots, NEW new \in Values, SStore(k, new)
  PROVE  IInv'
<1> DEFINE v0 == AccountAt(sigma0, Self).storage[k]
           v  == AccountAt(accountMap, Self).storage[k]
           keys   == substate.accessedStorageKeys \cup {<<Self, k>>}
           refund == AddRefund(substate.refundBalance, RefundDelta(v0, v, new))
           A1 == [substate EXCEPT !.accessedStorageKeys = keys, !.refundBalance = refund]
<1>1. Instruction /\ UNCHANGED <<createdAccounts, frames>>
  BY DEF SStore, Write
<1>2. /\ Sound(sigma0, MaxNonce, accountMap, substate, createdAccounts)
      /\ substate \in Substate /\ Self \in Addr
  BY <1>1, InstructionCounts, RunningFrame
<1>3. accountMap \in AccountMap /\ NoncesUpTo(accountMap, MaxNonce)
  BY <1>2 DEF Sound
<1>4. CASE Exists(accountMap, Self)
  <2>1. /\ accountMap' = [accountMap EXCEPT ![Self].storage[k] = new]
        /\ substate' = A1
    BY <1>4 DEF SStore
  <2>2. keys \in SUBSET (Addr \X Slots)
    BY <1>2 DEF Substate
  <2>3. refund \in Word
    BY <1>2, AddRefundType DEF Substate
  <2> HIDE DEF keys, refund
  <2>4. A1 \in Substate /\ A1.selfDestructSet = substate.selfDestructSet
    BY <1>2, <2>2, <2>3 DEF Substate
  <2> HIDE DEF A1
  <2>5. Extends(accountMap, accountMap', MaxNonce)
    BY <1>2, <1>3, <1>4, <2>1, StorageWriteExtends
  <2> QED BY <1>1, <2>1, <2>4, <2>5, LocalStep
<1>5. CASE ~Exists(accountMap, Self)
  <2>1. UNCHANGED <<accountMap, substate>>
    BY <1>5 DEF SStore
  <2> QED BY <1>1, <1>2, <2>1, UnchangedMap, LocalStep
<1> QED BY <1>4, <1>5

LEMMA TStoreSound ==
  ASSUME IInv, NEW k \in Slots, NEW new \in Values, TStore(k, new)
  PROVE  IInv'
<1>1. Instruction /\ UNCHANGED <<substate, createdAccounts, frames>>
  BY DEF TStore, Write
<1>2. /\ Sound(sigma0, MaxNonce, accountMap, substate, createdAccounts)
      /\ substate \in Substate /\ Self \in Addr
  BY <1>1, InstructionCounts, RunningFrame
<1>3. accountMap \in AccountMap /\ NoncesUpTo(accountMap, MaxNonce)
  BY <1>2 DEF Sound
<1>4. Extends(accountMap, accountMap', MaxNonce)
  <2>1. CASE Exists(accountMap, Self)
    <3>1. accountMap' = [accountMap EXCEPT ![Self].tstorage[k] = new]
      BY <2>1 DEF TStore
    <3> QED BY <1>2, <1>3, <2>1, <3>1, StorageWriteExtends
  <2>2. CASE ~Exists(accountMap, Self)
    <3>1. accountMap' = accountMap
      BY <2>2 DEF TStore
    <3> QED BY <1>1, <3>1, UnchangedMap
  <2> QED BY <2>1, <2>2
<1> QED BY <1>1, <1>2, <1>4, LocalStep

(* Log, SLoad and Probe write to the substate alone. *)
LEMMA AccrueSound ==
  ASSUME IInv, Log \/ (\E k \in Slots : SLoad(k)) \/ (\E a \in Probes : Probe(a))
  PROVE  IInv'
<1>1. Instruction /\ UNCHANGED <<accountMap, createdAccounts, frames>>
  BY DEF Log, SLoad, Probe, Write
<1>2. substate \in Substate /\ Self \in Addr
  BY <1>1, InstructionCounts, RunningFrame
<1>3. substate' \in Substate /\ substate'.selfDestructSet = substate.selfDestructSet
  <2>1. CASE Log
    <3>1. Append(substate.logSeries, Self) \in Seq(Addr)
      BY <1>2 DEF Substate
    <3> QED BY <2>1, <1>2, <3>1 DEF Log, Substate
  <2>2. ASSUME NEW k \in Slots, SLoad(k)
        PROVE  substate' \in Substate /\ substate'.selfDestructSet = substate.selfDestructSet
    BY <2>2, <1>2 DEF SLoad, Substate
  <2>3. ASSUME NEW a \in Probes, Probe(a)
        PROVE  substate' \in Substate /\ substate'.selfDestructSet = substate.selfDestructSet
    BY <2>3, <1>2, WarmAccount, AddressAssumption DEF Probe
  <2> QED BY <2>1, <2>2, <2>3
<1> QED BY <1>1, <1>3, UnchangedMap, LocalStep

LEMMA HaltSound ==
  ASSUME IInv, NEW data \in Codes \cup {NoCode}, NEW refused \in BOOLEAN,
         Halt(data, refused)
  PROVE  IInv'
<1>1. /\ frames # <<>> /\ Top.code # InvalidCode
      /\ ReturnSuccess(accountMap, substate, data, refused)
      /\ UNCHANGED <<sigma0, tx, txs, ops>>
  BY DEF Halt
<1>2. /\ Sound(sigma0, MaxNonce, accountMap, substate, createdAccounts)
      /\ sigma0 \in AccountMap /\ FramesSound(sigma0, frames)
  BY <1>1, RunningFrame
<1>3. StateSound(sigma0, accountMap', substate', createdAccounts', frames')
  BY <1>1, <1>2, ReturnSuccessSound
<1>4. ops' \in 0..MaxOps
  BY <1>1 DEF IInv
<1> QED BY <1>1, <1>3, <1>4, StepInside

LEMMA FailSound ==
  ASSUME IInv, Revert \/ ExceptionalHalt
  PROVE  IInv'
<1>1. frames # <<>> /\ ReturnFailure /\ UNCHANGED <<sigma0, tx, txs, ops>>
  BY DEF Revert, ExceptionalHalt
<1>2. StateSound(sigma0, accountMap', substate', createdAccounts', frames')
  BY <1>1, RunningFrame, ReturnFailureSound
<1>3. ops' \in 0..MaxOps
  BY <1>1 DEF IInv
<1> QED BY <1>1, <1>2, <1>3, StepInside

-----------------------------------------------------------------------------
(* The invariant is inductive *)

LEMMA InitSound == Init => IInv
<1> SUFFICES ASSUME Init PROVE IInv
  OBVIOUS
<1>1. Genesis \in AccountMap /\ NoncesUpTo(Genesis, MaxNonce)
  BY GenesisAssumption DEF NoncesUpTo
<1>2. Keeps(Genesis, Genesis)
  BY <1>1, LookupType, AccountFields DEF Keeps, Deployed
<1>3. A0 \in Substate /\ A0.selfDestructSet = {}
  <2>1. Precompiles \in SUBSET Addr /\ 0 \in Word /\ <<>> \in Seq(Addr)
    BY AddressAssumption, SmallWords
  <2> QED BY <2>1 DEF A0, Substate
<1>4. FramesSound(Genesis, <<>>) /\ NonceBound(<<>>) = MaxNonce
  BY AddressAssumption, EmptySeq DEF FramesSound, NonceBound
<1>5. Sound(Genesis, MaxNonce, Genesis, A0, {})
  BY <1>1, <1>2, <1>3 DEF Sound, Fresh
<1>6. StateSound(Genesis, Genesis, A0, {}, <<>>)
  BY <1>4, <1>5 DEF StateSound
<1> QED BY <1>1, <1>6, AddressAssumption DEF Init, IInv, TxType

LEMMA BeginTxStep ==
  ASSUME IInv, NEW s \in Senders, NEW shape \in TxShapes, NEW v \in Amounts,
         \/ \E t \in CallTargets : BeginCall(s, shape, v, t)
         \/ \E a \in CreateTargets : BeginCreate(s, shape, v, a)
  PROVE  IInv'
<1> DEFINE sigma == Checkpoint(s, shape)
<1>1. BeginTx(s, shape, v)
  BY DEF BeginCall, BeginCreate
<1>2. /\ sigma \in AccountMap /\ sigma0' = sigma
      /\ \A recipients \in SUBSET Addr :
           Sound(sigma0', MaxNonce, sigma, InitialSubstate(s, shape, recipients), {})
      /\ FramesSound(sigma0', frames) /\ Len(frames) <= MaxDepth
      /\ tx' \in TxType \ {NoTx} /\ txs' \in 0..MaxTxs /\ ops' \in 0..MaxOps
  BY <1>1, BeginTxSound
<1>3. s \in Addr /\ v \in Word
  BY AddressAssumption
<1> HIDE DEF sigma
<1>4. StateSound(sigma0', accountMap', substate', createdAccounts', frames')
  <2>1. ASSUME NEW t \in CallTargets, BeginCall(s, shape, v, t)
        PROVE  StateSound(sigma0', accountMap', substate', createdAccounts', frames')
    <3>1. t \in Addr
      BY AddressAssumption
    <3>2. MessageCall(sigma, InitialSubstate(s, shape, {t}), {}, s, t, t, v, TRUE)
      BY <2>1 DEF BeginCall, sigma
    <3>3. Sound(sigma0', MaxNonce, sigma, InitialSubstate(s, shape, {t}), {})
      BY <1>2, <3>1
    <3> QED BY <1>2, <1>3, <3>1, <3>2, <3>3, MessageCallSound
  <2>2. ASSUME NEW a \in CreateTargets, BeginCreate(s, shape, v, a)
        PROVE  StateSound(sigma0', accountMap', substate', createdAccounts', frames')
    <3>1. a \in Addr
      BY AddressAssumption
    <3>2. ContractCreation(sigma, InitialSubstate(s, shape, {}), {}, s, a, v, TRUE)
      BY <2>2 DEF BeginCreate, sigma
    <3>3. Sound(sigma0', MaxNonce, sigma, InitialSubstate(s, shape, {}), {})
      BY <1>2
    <3> QED BY <1>2, <1>3, <3>1, <3>2, <3>3, ContractCreationSound
  <2> QED BY <2>1, <2>2
<1> QED BY <1>2, <1>4 DEF IInv

LEMMA FinishTxStep ==
  ASSUME IInv, tx # NoTx, NEW gasLeft \in 0..tx.gasLimit, FinishTx(gasLeft)
  PROVE  IInv'
<1> DEFINE tau == Settled(gasLeft)
<1>1. /\ frames = <<>> /\ frames' = <<>> /\ accountMap' = tau /\ sigma0' = tau
      /\ createdAccounts' = {} /\ tx' = NoTx /\ UNCHANGED <<substate, txs, ops>>
  BY DEF FinishTx
<1>2. tau \in AccountMap /\ NoncesUpTo(tau, MaxNonce)
  BY <1>1, SettledSound
<1> HIDE DEF tau
<1>3. Keeps(tau, tau)
  BY <1>2, LookupType, AccountFields DEF Keeps, Deployed
<1>4. Sound(tau, MaxNonce, tau, substate, {})
  BY <1>1, <1>2, <1>3, SettledSound DEF Sound, Fresh, tau
<1>5. FramesSound(tau, <<>>) /\ NonceBound(<<>>) = MaxNonce
  BY AddressAssumption, EmptySeq DEF FramesSound, NonceBound
<1>6. StateSound(sigma0', accountMap', substate', createdAccounts', frames')
  BY <1>1, <1>4, <1>5 DEF StateSound
<1> QED BY <1>1, <1>2, <1>6 DEF IInv, TxType

LEMMA NextSound == IInv /\ [Next]_vars => IInv'
<1> SUFFICES ASSUME IInv, [Next]_vars PROVE IInv'
  OBVIOUS
<1>1. ASSUME NEW s \in Senders, NEW shape \in TxShapes, NEW v \in Amounts,
             \/ \E t \in CallTargets : BeginCall(s, shape, v, t)
             \/ \E a \in CreateTargets : BeginCreate(s, shape, v, a)
      PROVE  IInv'
  BY <1>1, BeginTxStep
<1>2. ASSUME tx # NoTx, NEW gasLeft \in 0..tx.gasLimit, FinishTx(gasLeft)
      PROVE  IInv'
  BY <1>2, FinishTxStep
<1>3. ASSUME NEW t \in CallTargets,
             \/ \E v \in Amounts : Call(t, v) \/ CallCode(t, v)
             \/ DelegateCall(t)
             \/ StaticCall(t)
      PROVE  IInv'
  <2>1. frames # <<>> /\ t \in Addr /\ 0 \in Word /\ Amounts \subseteq Word
    BY <1>3, AddressAssumption, SmallWords DEF Call, CallCode, DelegateCall,
       StaticCall, CallFrom, Instruction
  <2>2. Self \in Addr /\ Top.source \in Addr /\ Top.perm \in BOOLEAN
    BY <2>1, RunningFrame
  <2>3. \/ \E v \in Amounts : CallFrom(Self, t, t, v, Top.perm)
        \/ \E v \in Amounts : CallFrom(Self, Self, t, v, Top.perm)
        \/ CallFrom(Top.source, Self, t, 0, Top.perm)
        \/ CallFrom(Self, t, t, 0, FALSE)
    BY <1>3 DEF Call, CallCode, DelegateCall, StaticCall
  <2> QED BY <2>1, <2>2, <2>3, CallSound
<1>4. ASSUME NEW a \in CreateTargets, NEW v \in Amounts, Create(a, v)
      PROVE  IInv'
  <2>1. a \in Addr /\ v \in Word
    BY AddressAssumption
  <2> QED BY <1>4, <2>1, CreateSound
<1>5. ASSUME NEW heir \in Heirs, SelfDestruct(heir)
      PROVE  IInv'
  <2>1. heir \in Addr
    BY AddressAssumption
  <2> QED BY <1>5, <2>1, SelfDestructSound
<1>6. ASSUME NEW k \in Slots, NEW new \in Values, SStore(k, new)
      PROVE  IInv'
  BY <1>6, SStoreSound
<1>7. ASSUME NEW k \in Slots, NEW new \in Values, TStore(k, new)
      PROVE  IInv'
  BY <1>7, TStoreSound
<1>8. ASSUME Log \/ (\E k \in Slots : SLoad(k)) \/ (\E a \in Probes : Probe(a))
      PROVE  IInv'
  BY <1>8, AccrueSound
<1>9. ASSUME NEW data \in Codes \cup {NoCode}, NEW refused \in BOOLEAN,
             Halt(data, refused)
      PROVE  IInv'
  BY <1>9, HaltSound
<1>10. ASSUME Revert \/ ExceptionalHalt
       PROVE  IInv'
  BY <1>10, FailSound
<1>11. CASE UNCHANGED vars
  BY <1>11 DEF vars, IInv
<1> QED BY <1>1, <1>2, <1>3, <1>4, <1>5, <1>6, <1>7, <1>8, <1>9, <1>10, <1>11
        DEF Next

(* IInv holds in every state of every behaviour. *)
THEOREM Invariance == Spec => []IInv
<1> QED BY InitSound, NextSound, PTL DEF Spec

-----------------------------------------------------------------------------
(* What the invariant says of the code *)

(* Every state has its types, and the test of the call depth before every  *)
(* call and creation keeps the open frames within MaxDepth + 1.            *)
THEOREM TypeCorrect == Spec => []TypeOK
<1>1. IInv => TypeOK
  BY DEF IInv, StateSound, Sound, FramesSound, TypeOK, TxType
<1> QED BY <1>1, Invariance, PTL

LEMMA LiveSound ==
  ASSUME IInv
  PROVE  /\ \A sigma \in LiveMaps : Keeps(sigma0, sigma)
         /\ \A A \in LiveSubstates : Fresh(sigma0, A.selfDestructSet)
<1>1. Keeps(sigma0, accountMap) /\ Fresh(sigma0, substate.selfDestructSet)
  BY DEF IInv, StateSound, Sound
<1>2. /\ DOMAIN frames = 1..Len(frames)
      /\ \A i \in 1..Len(frames) :
           Keeps(sigma0, frames[i].sigma) /\ Fresh(sigma0, frames[i].A.selfDestructSet)
  BY DEF IInv, StateSound, FramesSound, Sound
<1> QED BY <1>1, <1>2 DEF LiveMaps, LiveSubstates

(* However calls, creations and failures are nested, an account that was   *)
(* deployed when the transaction began keeps its code and its nonce in     *)
(* every map that can become the result.                                   *)
THEOREM DeployedAreKept == Spec => []DeployedKept
<1>1. IInv => DeployedKept
  BY LiveSound DEF DeployedKept, Keeps
<1> QED BY <1>1, Invariance, PTL

(* EIP-6780: whatever is marked for erasure was not deployed before the    *)
(* transaction.                                                            *)
THEOREM OnlyNewAreDestroyed == Spec => []OnlyNewDestroyed
<1>1. IInv => OnlyNewDestroyed
  BY LiveSound DEF OnlyNewDestroyed, Fresh
<1> QED BY <1>1, Invariance, PTL

(* No step of a transaction, its settlement included, removes an account   *)
(* that was deployed before it.                                            *)
THEOREM DeployedAccountsSurvive == Spec => DeployedSurvive
<1>1. IInv /\ IInv' /\ [Next]_vars =>
        [\A a \in Addr : Deployed(sigma0, a) => Exists(accountMap', a)]_vars
  <2> SUFFICES ASSUME IInv, IInv', Next, NEW a \in Addr, Deployed(sigma0, a)
               PROVE  Exists(accountMap', a)
    OBVIOUS
  <2>1. Deployed(sigma0', a) => Exists(accountMap', a)
    BY DEF IInv, StateSound, Sound, Keeps
  <2>2. CASE sigma0' = sigma0
    BY <2>1, <2>2
  <2>3. ASSUME NEW s \in Senders, NEW shape \in TxShapes, NEW v \in Amounts,
               BeginTx(s, shape, v)
        PROVE  Exists(accountMap', a)
    <3>1. /\ sigma0' = Checkpoint(s, shape) /\ Checkpoint(s, shape) \in AccountMap
          /\ Preserves(accountMap, Checkpoint(s, shape))
      BY <2>3, BeginTxSound DEF Extends
    <3>2. Deployed(accountMap, a)
      BY KeptDeployed DEF IInv, StateSound, Sound
    <3>3. Exists(accountMap, a) /\ accountMap \in AccountMap
      BY <3>2 DEF Deployed, IInv, StateSound, Sound
    <3>4. Keeps(accountMap, sigma0')
      BY <3>1, <3>3 DEF Keeps, Preserves, Deployed
    <3>5. Deployed(sigma0', a)
      BY <3>1, <3>2, <3>3, <3>4, KeptDeployed
    <3> QED BY <3>5, <2>1
  <2>4. ASSUME tx # NoTx, NEW gasLeft \in 0..tx.gasLimit, FinishTx(gasLeft)
        PROVE  Exists(accountMap', a)
    BY <2>4, SettledSound DEF FinishTx
  <2> QED BY <2>2, <2>3, <2>4 DEF Next, BeginCall, BeginCreate, Call, CallCode,
        DelegateCall, StaticCall, CallFrom, Create, SelfDestruct, SLoad, SStore,
        TStore, Log, Probe, Write, Instruction, Halt, Revert, ExceptionalHalt
<1> QED BY <1>1, Invariance, PTL DEF Spec, DeployedSurvive

-----------------------------------------------------------------------------
(* What an open frame can rely on *)

(* A has all that B has accrued. *)
Grows(B, A) ==
  /\ B.selfDestructSet \subseteq A.selfDestructSet
  /\ B.accessedAccounts \subseteq A.accessedAccounts
  /\ B.accessedStorageKeys \subseteq A.accessedStorageKeys
  /\ IsPrefix(B.logSeries, A.logSeries)

(* A differs from B in what is warm, and in nothing else. *)
OnlyWarmer(B, A) ==
  /\ A.selfDestructSet = B.selfDestructSet
  /\ A.refundBalance = B.refundBalance
  /\ A.logSeries = B.logSeries

(* No nonce of sigma is higher than in tau. *)
NoncesKept(sigma, tau) ==
  \A a \in Addr :
    /\ NonceOf(sigma, a) \in Int /\ NonceOf(tau, a) \in Int
    /\ NonceOf(sigma, a) <= NonceOf(tau, a)

(* What the open frame f expects of a state that it may be handed. *)
Within(f, sigma, A) ==
  /\ NoncesKept(f.sigma, sigma)
  /\ Runnable(f) => Exists(sigma, f.codeOwner)
  /\ Grows(f.A, A)
  /\ ~f.perm => sigma = f.sigma /\ OnlyWarmer(f.A, A)

(* A step of a frame with the permission p, from sigma, A to tau, B. *)
Moves(p, sigma, A, tau, B) ==
  /\ NoncesKept(sigma, tau)
  /\ \A a \in Addr : Exists(sigma, a) => Exists(tau, a)
  /\ Grows(A, B)
  /\ ~p => tau = sigma /\ OnlyWarmer(A, B)

(* The frame of a creation has permission, and will have warmed its        *)
(* address even if it fails.                                               *)
Creation(f) ==
  f.kind = "create" => f.perm /\ f.codeOwner \in f.A.accessedAccounts

(* The frame f above the frame e keeps that it grew the nonce of e.        *)
Grown(e, f) ==
  f.kind = "create" => NonceOf(f.sigma, f.source) > NonceOf(e.sigma, f.source)

StackInv(sigma, A, fs) ==
  /\ \A i \in 1..Len(fs) : Within(fs[i], sigma, A) /\ Creation(fs[i])
  /\ \A i \in 2..Len(fs) : Grown(fs[i - 1], fs[i])
  /\ \A j \in 1..Len(fs) : \A i \in 1..(j - 1) :
       /\ Within(fs[i], fs[j].sigma, fs[j].A)
       /\ fs[j].perm => fs[i].perm

SInv == IInv /\ StackInv(accountMap, substate, frames)

-----------------------------------------------------------------------------
(* Growing substates *)

LEMMA PrefixPoints ==
  ASSUME NEW S, NEW s \in Seq(S), NEW t \in Seq(S)
  PROVE  IsPrefix(s, t) <=>
           Len(s) <= Len(t) /\ \A i \in 1..Len(s) : s[i] = t[i]
<1>1. Len(s) \in Nat /\ Len(t) \in Nat
  OBVIOUS
<1> SUFFICES ASSUME Len(s) <= Len(t)
             PROVE  SubSeq(s, 1, Len(s)) = SubSeq(t, 1, Len(s))
                      <=> \A i \in 1..Len(s) : s[i] = t[i]
  BY DEF IsPrefix
<1> DEFINE u == SubSeq(s, 1, Len(s))
           v == SubSeq(t, 1, Len(s))
<1>2. u = s
  BY <1>1
<1>3. v \in Seq(S) /\ Len(v) = Len(s) /\ \A i \in 1..Len(s) : v[i] = t[i]
  BY <1>1
<1> HIDE DEF u, v
<1>4. (\A i \in 1..Len(s) : s[i] = v[i]) => s = v
  BY <1>1, <1>3, SeqEqual
<1> QED BY <1>2, <1>3, <1>4 DEF u, v

LEMMA GrowsReflexive ==
  ASSUME NEW A \in Substate
  PROVE  Grows(A, A)
<1>1. A.logSeries \in Seq(Addr)
  BY DEF Substate
<1>2. IsPrefix(A.logSeries, A.logSeries)
  BY <1>1, PrefixPoints
<1> QED BY <1>2 DEF Grows

LEMMA GrowsTransitive ==
  ASSUME NEW A \in Substate, NEW B \in Substate, NEW C \in Substate,
         Grows(A, B), Grows(B, C)
  PROVE  Grows(A, C)
<1> DEFINE s == A.logSeries
           t == B.logSeries
           u == C.logSeries
<1>1. s \in Seq(Addr) /\ t \in Seq(Addr) /\ u \in Seq(Addr)
  BY DEF Substate
<1>2. IsPrefix(s, t) /\ IsPrefix(t, u)
  BY DEF Grows
<1> HIDE DEF s, t, u
<1>3. /\ Len(s) <= Len(t) /\ \A i \in 1..Len(s) : s[i] = t[i]
      /\ Len(t) <= Len(u) /\ \A i \in 1..Len(t) : t[i] = u[i]
  BY <1>1, <1>2, PrefixPoints
<1>4. Len(s) \in Nat /\ Len(t) \in Nat /\ Len(u) \in Nat
  BY <1>1
<1>5. Len(s) <= Len(u) /\ \A i \in 1..Len(s) : s[i] = u[i]
  BY <1>3, <1>4
<1>6. IsPrefix(s, u)
  BY <1>1, <1>5, PrefixPoints
<1> QED BY <1>6 DEF Grows, s, t, u

LEMMA NoncesKeptReflexive ==
  ASSUME NEW sigma \in AccountMap
  PROVE  NoncesKept(sigma, sigma)
BY AccountAtType, AccountFields DEF NoncesKept, NonceOf

LEMMA ExtendsKeepsNonces ==
  ASSUME NEW sigma \in AccountMap, NEW tau, NEW n, Extends(sigma, tau, n)
  PROVE  NoncesKept(sigma, tau)
<1> SUFFICES ASSUME NEW a \in Addr
             PROVE  /\ NonceOf(sigma, a) \in Int /\ NonceOf(tau, a) \in Int
                    /\ NonceOf(sigma, a) <= NonceOf(tau, a)
  BY DEF NoncesKept
<1>1. NonceOf(sigma, a) \in Int /\ NonceOf(tau, a) \in Int /\ NonceOf(tau, a) >= 0
  BY AccountAtType, AccountFields DEF Extends, NonceOf, Word
<1>2. CASE Exists(sigma, a)
  BY <1>1, <1>2 DEF Extends, Preserves, NonceOf, AccountAt
<1>3. CASE ~Exists(sigma, a)
  BY <1>1, <1>3 DEF NonceOf, AccountAt, DefaultAccount
<1> QED BY <1>1, <1>2, <1>3

LEMMA NoncesKeptTransitive ==
  ASSUME NEW sigma, NEW tau, NEW rho, NoncesKept(sigma, tau), NoncesKept(tau, rho)
  PROVE  NoncesKept(sigma, rho)
<1> SUFFICES ASSUME NEW a \in Addr
             PROVE  /\ NonceOf(sigma, a) \in Int /\ NonceOf(rho, a) \in Int
                    /\ NonceOf(sigma, a) <= NonceOf(rho, a)
  BY DEF NoncesKept
<1>1. /\ NonceOf(sigma, a) \in Int /\ NonceOf(tau, a) \in Int /\ NonceOf(rho, a) \in Int
      /\ NonceOf(sigma, a) <= NonceOf(tau, a) /\ NonceOf(tau, a) <= NonceOf(rho, a)
  BY DEF NoncesKept
<1> QED BY <1>1

LEMMA MovesTransitive ==
  ASSUME NEW p, NEW sigma, NEW tau, NEW rho,
         NEW A \in Substate, NEW B \in Substate, NEW C \in Substate,
         Moves(p, sigma, A, tau, B), Moves(p, tau, B, rho, C)
  PROVE  Moves(p, sigma, A, rho, C)
BY GrowsTransitive, NoncesKeptTransitive DEF Moves, OnlyWarmer

(* An open frame accepts a further state of a frame above it, whose        *)
(* permission is no wider than its own.                                    *)
LEMMA WithinMoves ==
  ASSUME NEW f \in Frame, NEW p \in BOOLEAN, p => f.perm,
         NEW sigma, NEW tau, NEW A \in Substate, NEW B \in Substate,
         Within(f, sigma, A), Moves(p, sigma, A, tau, B)
  PROVE  Within(f, tau, B)
<1>1. f.codeOwner \in Addr /\ f.A \in Substate
  BY DEF Frame
<1>2. Grows(f.A, B)
  BY <1>1, GrowsTransitive DEF Within, Moves
<1>3. Runnable(f) => Exists(tau, f.codeOwner)
  BY <1>1 DEF Within, Moves
<1>4. ~f.perm => tau = f.sigma /\ OnlyWarmer(f.A, B)
  BY DEF Within, Moves, OnlyWarmer
<1>5. NoncesKept(f.sigma, tau)
  BY NoncesKeptTransitive DEF Within, Moves
<1> QED BY <1>2, <1>3, <1>4, <1>5 DEF Within

-----------------------------------------------------------------------------
(* A creation *)

(* A creator that exists gives life to the account it endows. *)
LEMMA EndowExists ==
  ASSUME NEW sigma \in AccountMap, NEW s \in Addr, NEW a \in Addr, NEW v \in Word,
         Exists(sigma, s)
  PROVE  Exists(Endow(sigma, s, a, v), a)
<1> DEFINE existent == AccountAt(sigma, a)
           created  == [existent EXCEPT !.nonce = WordAdd(@, 1),
                                        !.balance = WordAdd(v, @)]
           left     == Debit(sigma, s, v)
<1>1. existent \in Account
  BY AccountAtType
<1>2. existent.nonce \in Word /\ existent.balance \in Word /\ 1 \in Word
  BY <1>1, AccountFields, SmallWords
<1>3. WordAdd(existent.nonce, 1) \in Word /\ WordAdd(v, existent.balance) \in Word
  BY <1>2, WordAddType
<1>4. created \in Account
  BY <1>1, <1>3 DEF Account
<1>5. DOMAIN left = Addr
  BY DEF Debit, AccountMap
<1>6. Endow(sigma, s, a, v) = [left EXCEPT ![a] = created]
  BY DEF Endow
<1> HIDE DEF created, left
<1>7. Endow(sigma, s, a, v)[a] = created
  BY <1>5, <1>6
<1> QED BY <1>4, <1>7, AccountFields DEF Exists

-----------------------------------------------------------------------------
(* The stack of open frames *)

(* p is a permission that no open frame exceeds. *)
Bounds(p, fs) == p \in BOOLEAN /\ \A i \in 1..Len(fs) : p => fs[i].perm

LEMMA TopBounds ==
  ASSUME NEW sigma, NEW A, NEW fs \in Seq(Frame), StackInv(sigma, A, fs), fs # <<>>
  PROVE  Bounds(fs[Len(fs)].perm, fs)
<1>1. Len(fs) \in Nat /\ Len(fs) \in 1..Len(fs)
  BY EmptySeq
<1>2. fs[Len(fs)] \in Frame
  BY <1>1
<1>3. ASSUME NEW i \in 1..Len(fs), fs[Len(fs)].perm
      PROVE  fs[i].perm
  <2>1. i = Len(fs) \/ i \in 1..(Len(fs) - 1)
    BY <1>1
  <2> QED BY <1>1, <1>3, <2>1 DEF StackInv
<1> QED BY <1>2, <1>3 DEF Bounds, Frame

(* The running frame moves. *)
LEMMA StackMoves ==
  ASSUME NEW fs \in Seq(Frame), NEW p, Bounds(p, fs),
         NEW sigma, NEW tau, NEW A \in Substate, NEW B \in Substate,
         StackInv(sigma, A, fs), Moves(p, sigma, A, tau, B)
  PROVE  StackInv(tau, B, fs)
<1>1. ASSUME NEW i \in 1..Len(fs)
      PROVE  Within(fs[i], tau, B)
  <2>1. fs[i] \in Frame /\ p \in BOOLEAN /\ (p => fs[i].perm)
    BY DEF Bounds
  <2>2. Within(fs[i], sigma, A)
    BY DEF StackInv
  <2> QED BY <2>1, <2>2, WithinMoves
<1> QED BY <1>1 DEF StackInv

(* A frame begins in tau; should it fail it returns f.sigma, to which its  *)
(* caller has moved.                                                       *)
LEMMA StackPush ==
  ASSUME NEW fs \in Seq(Frame), NEW p, Bounds(p, fs), NEW f \in Frame,
         NEW sigma, NEW tau, NEW A \in Substate,
         StackInv(sigma, A, fs), Moves(p, sigma, A, f.sigma, f.A),
         Moves(p, f.sigma, f.A, tau, f.A),
         f.perm => p, Within(f, tau, f.A), Creation(f),
         fs # <<>> => Grown(fs[Len(fs)], f)
  PROVE  StackInv(tau, f.A, Append(fs, f))
<1> DEFINE gs == Append(fs, f)
<1>1. /\ gs \in Seq(Frame) /\ Len(gs) = Len(fs) + 1 /\ Len(fs) \in Nat
      /\ \A i \in 1..Len(fs) : gs[i] = fs[i]
      /\ gs[Len(fs) + 1] = f
  BY AppendProperties
<1>2. f.A \in Substate
  BY DEF Frame
<1>3. StackInv(f.sigma, f.A, fs)
  BY <1>2, StackMoves
<1>4. StackInv(tau, f.A, fs)
  BY <1>2, <1>3, StackMoves
<1> HIDE DEF gs
<1>5. \A i \in 1..Len(gs) : i \in 1..Len(fs) \/ i = Len(fs) + 1
  BY <1>1
<1>6. ASSUME NEW i \in 1..Len(gs)
      PROVE  Within(gs[i], tau, f.A) /\ Creation(gs[i])
  <2>1. CASE i \in 1..Len(fs)
    BY <2>1, <1>1, <1>4 DEF StackInv
  <2>2. CASE i = Len(fs) + 1
    BY <2>2, <1>1
  <2> QED BY <1>5, <2>1, <2>2
<1>7. ASSUME NEW j \in 1..Len(gs), NEW i \in 1..(j - 1)
      PROVE  /\ Within(gs[i], gs[j].sigma, gs[j].A)
             /\ gs[j].perm => gs[i].perm
  <2>1. i \in 1..Len(fs) /\ gs[i] = fs[i]
    BY <1>1
  <2>2. CASE j \in 1..Len(fs)
    BY <2>1, <2>2, <1>1 DEF StackInv
  <2>3. CASE j = Len(fs) + 1
    BY <2>1, <2>3, <1>1, <1>3 DEF StackInv, Bounds
  <2> QED BY <1>5, <2>2, <2>3
<1>8. ASSUME NEW i \in 2..Len(gs)
      PROVE  Grown(gs[i - 1], gs[i])
  <2>1. i - 1 \in 1..Len(fs) /\ gs[i - 1] = fs[i - 1]
    BY <1>1
  <2>2. CASE i \in 1..Len(fs)
    BY <2>1, <2>2, <1>1 DEF StackInv
  <2>3. CASE i = Len(fs) + 1
    <3>1. i - 1 = Len(fs) /\ fs # <<>>
      BY <2>1, <2>3, <1>1
    <3> QED BY <3>1, <2>1, <2>3, <1>1
  <2> QED BY <1>1, <2>2, <2>3
<1>9. StackInv(tau, f.A, gs)
  BY <1>6, <1>7, <1>8 DEF StackInv
<1> QED BY <1>9 DEF gs

(* A frame ends: it hands on its state, or what it was given. *)
LEMMA StackPop ==
  ASSUME NEW fs \in Seq(Frame), fs # <<>>, NEW sigma, NEW A, StackInv(sigma, A, fs)
  PROVE  LET gs   == SubSeq(fs, 1, Len(fs) - 1)
             last == fs[Len(fs)]
         IN  /\ gs \in Seq(Frame)
             /\ StackInv(sigma, A, gs)
             /\ StackInv(last.sigma, last.A, gs)
<1> DEFINE gs == SubSeq(fs, 1, Len(fs) - 1)
<1>1. /\ gs \in Seq(Frame) /\ Len(gs) = Len(fs) - 1
      /\ \A i \in 1..Len(gs) : gs[i] = fs[i]
  BY HeadPart
<1>2. Len(fs) \in Nat /\ Len(fs) \in 1..Len(fs)
  BY EmptySeq
<1> HIDE DEF gs
<1>3. \A i \in 1..Len(gs) : i \in 1..Len(fs) /\ i \in 1..(Len(fs) - 1)
  BY <1>1, <1>2
<1>4. \A j \in 1..Len(gs) : \A i \in 1..(j - 1) :
        i \in 1..Len(gs) /\ gs[i] = fs[i] /\ gs[j] = fs[j] /\ j \in 1..Len(fs)
  BY <1>1, <1>2
<1>5. /\ \A i \in 1..Len(gs) : Creation(gs[i])
      /\ \A j \in 1..Len(gs) : \A i \in 1..(j - 1) :
           /\ Within(gs[i], gs[j].sigma, gs[j].A)
           /\ gs[j].perm => gs[i].perm
  BY <1>1, <1>3, <1>4 DEF StackInv
<1>6. \A i \in 1..Len(gs) : Within(gs[i], sigma, A)
  BY <1>1, <1>3 DEF StackInv
<1>7. \A i \in 1..Len(gs) : Within(gs[i], fs[Len(fs)].sigma, fs[Len(fs)].A)
  BY <1>1, <1>2, <1>3 DEF StackInv
<1>8. ASSUME NEW i \in 2..Len(gs)
      PROVE  Grown(gs[i - 1], gs[i])
  <2>1. i \in 2..Len(fs) /\ gs[i] = fs[i] /\ gs[i - 1] = fs[i - 1]
    BY <1>1, <1>2
  <2> QED BY <2>1 DEF StackInv
<1> QED BY <1>1, <1>5, <1>6, <1>7, <1>8 DEF StackInv, gs

-----------------------------------------------------------------------------
(* Entering and leaving frames *)

LEMMA WarmGrows ==
  ASSUME NEW A \in Substate, NEW a \in Addr
  PROVE  LET B == [A EXCEPT !.accessedAccounts = @ \cup {a}]
         IN  B \in Substate /\ Grows(A, B) /\ OnlyWarmer(A, B)
<1>1. Grows(A, A)
  BY GrowsReflexive
<1> QED BY <1>1 DEF Grows, OnlyWarmer, Substate

(* A call of the frame with the permission p. *)
LEMMA MessageCallStack ==
  ASSUME frames \in Seq(Frame), NEW p, Bounds(p, frames),
         NEW sigma \in AccountMap, NoncesUpTo(sigma, MaxNonce),
         NEW A \in Substate, NEW cA \in SUBSET Addr, StackInv(sigma, A, frames),
         NEW s \in Addr, NEW r \in Addr, NEW t \in Addr, NEW v \in Word,
         NEW w \in BOOLEAN, w => p,
         ~w => v = 0 \/ (s = r /\ v <= BalanceOf(sigma, s)),
         r = t \/ Exists(sigma, r),
         MessageCall(sigma, A, cA, s, r, t, v, w)
  PROVE  StackInv(accountMap', substate', frames')
<1> DEFINE tau == Transfer(sigma, s, r, v)
<1>1. /\ \A a \in Addr : Exists(sigma, a) => Exists(tau, a)
      /\ NoncesKept(sigma, tau) /\ NoncesKept(sigma, sigma)
  <2>1. Extends(sigma, tau, MaxNonce)
    BY TransferExtends, NonceAssumption
  <2> HIDE DEF tau
  <2> QED BY <2>1, ExtendsKeepsNonces, NoncesKeptReflexive DEF Extends, Preserves
<1>2. ~w => tau = sigma
  BY TransferPure
<1>3. Grows(A, A) /\ OnlyWarmer(A, A)
  BY GrowsReflexive DEF OnlyWarmer
<1>4. Moves(p, sigma, A, tau, A) /\ Moves(p, sigma, A, sigma, A)
  BY <1>1, <1>2, <1>3 DEF Moves
<1>5. CASE t \in Precompiles
  <2>1. /\ accountMap' = tau \/ accountMap' = sigma
        /\ substate' = A /\ frames' = frames
    BY <1>5 DEF MessageCall, ApplyPrecompile
  <2> HIDE DEF tau
  <2> QED BY <1>4, <2>1, StackMoves
<1>6. CASE t \notin Precompiles
  <2> DEFINE f == [kind |-> "call", codeOwner |-> r, source |-> s, perm |-> w,
                   code |-> AccountAt(sigma, t).code,
                   sigma |-> sigma, A |-> A, cA |-> cA]
  <2>1. accountMap' = tau /\ substate' = A /\ frames' = Append(frames, f)
    BY <1>6 DEF MessageCall
  <2>2. AccountAt(sigma, t).code \in Codes \cup {NoCode}
    BY AccountAtType, AccountFields
  <2>3. f \in Frame
    BY <2>2 DEF Frame
  <2>4. Runnable(f) => Exists(sigma, t)
    BY <2>2, FrameCodeAssumption, CodeAssumption
       DEF Runnable, AccountAt, DefaultAccount
  <2>5. /\ f.sigma = sigma /\ f.A = A /\ f.perm = w /\ f.codeOwner = r
        /\ f.kind = "call"
    OBVIOUS
  <2> HIDE DEF f, tau
  <2>6. Within(f, tau, A)
    BY <1>1, <1>2, <1>3, <2>4, <2>5 DEF Within
  <2>7. Creation(f) /\ (frames # <<>> => Grown(frames[Len(frames)], f))
    BY <2>5 DEF Creation, Grown
  <2>8. StackInv(tau, f.A, Append(frames, f))
    BY <1>4, <2>3, <2>5, <2>6, <2>7, StackPush
  <2> QED BY <2>1, <2>5, <2>8
<1> QED BY <1>5, <1>6

(* A creation, with permission, by an account that exists and whose nonce  *)
(* has grown since its frame began.                                        *)
LEMMA ContractCreationStack ==
  ASSUME frames \in Seq(Frame), Bounds(TRUE, frames),
         NEW sigma \in AccountMap, NoncesUpTo(sigma, MaxNonce),
         NEW A \in Substate, NEW cA \in SUBSET Addr, StackInv(sigma, A, frames),
         NEW s \in Addr, NEW a \in Addr, NEW v \in Word, Exists(sigma, s),
         frames # <<>> => NonceOf(sigma, s) > NonceOf(Top.sigma, s),
         ContractCreation(sigma, A, cA, s, a, v, TRUE)
  PROVE  StackInv(accountMap', substate', frames')
<1> DEFINE AStar == [A EXCEPT !.accessedAccounts = @ \cup {a}]
           cA1   == IF Collides(sigma, a) THEN cA ELSE cA \cup {a}
           code  == IF Collides(sigma, a) THEN InvalidCode ELSE InitCode
           tau   == Endow(sigma, s, a, v)
           f == [kind |-> "create", codeOwner |-> a, source |-> s, perm |-> TRUE,
                 code |-> code, sigma |-> sigma, A |-> AStar, cA |-> cA1]
<1>1. accountMap' = tau /\ substate' = AStar /\ frames' = Append(frames, f)
  BY DEF ContractCreation
<1>2. AStar \in Substate /\ Grows(A, AStar) /\ a \in AStar.accessedAccounts
  BY WarmGrows DEF Substate
<1>3. /\ \A b \in Addr : Exists(sigma, b) => Exists(tau, b)
      /\ NoncesKept(sigma, tau) /\ NoncesKept(sigma, sigma)
  <2>1. MaxNonce + 1 \in Nat /\ MaxNonce + 1 >= MaxNonce
    BY NonceAssumption
  <2>2. Extends(sigma, tau, MaxNonce + 1)
    BY <2>1, EndowExtends
  <2> HIDE DEF tau
  <2> QED BY <2>2, ExtendsKeepsNonces, NoncesKeptReflexive DEF Extends, Preserves
<1>4. Exists(tau, a)
  BY EndowExists
<1>5. cA1 \in SUBSET Addr
  OBVIOUS
<1> HIDE DEF AStar, cA1, code, tau
<1>6. code \in Codes \cup {NoCode, InitCode, InvalidCode}
  BY DEF code
<1>7. f \in Frame
  BY <1>2, <1>5, <1>6 DEF Frame
<1>8. /\ f.sigma = sigma /\ f.A = AStar /\ f.perm = TRUE /\ f.codeOwner = a
      /\ f.source = s
  OBVIOUS
<1> HIDE DEF f
<1>9. Grows(AStar, AStar)
  BY <1>2, GrowsReflexive
<1>10. Moves(TRUE, sigma, A, f.sigma, f.A) /\ Moves(TRUE, f.sigma, f.A, tau, f.A)
  BY <1>2, <1>3, <1>8, <1>9 DEF Moves
<1>11. Within(f, tau, f.A)
  BY <1>3, <1>4, <1>8, <1>9 DEF Within
<1>12. Creation(f) /\ (frames # <<>> => Grown(frames[Len(frames)], f))
  BY <1>2, <1>8 DEF Creation, Grown, Top
<1>13. StackInv(tau, f.A, Append(frames, f))
  BY <1>7, <1>8, <1>10, <1>11, <1>12, StackPush
<1> QED BY <1>1, <1>8, <1>13

(* The running frame, which may be a creation, ends in sigma, A. *)
LEMMA ReturnSuccessStack ==
  ASSUME frames \in Seq(Frame), frames # <<>>,
         NEW sigma \in AccountMap, NoncesUpTo(sigma, MaxNonce),
         NEW A \in Substate, StackInv(sigma, A, frames),
         NEW data \in Codes \cup {NoCode}, NEW refused \in BOOLEAN,
         ReturnSuccess(sigma, A, data, refused)
  PROVE  StackInv(accountMap', substate', frames')
<1>1. frames' = Pop
  BY DEF ReturnSuccess
<1>2. StackInv(sigma, A, Pop) /\ StackInv(Top.sigma, Top.A, Pop) /\ Pop \in Seq(Frame)
  BY StackPop DEF Pop, Top
<1>3. CASE accountMap' = Top.sigma /\ substate' = Top.A
  BY <1>1, <1>2, <1>3
<1>4. CASE accountMap' = sigma /\ substate' = A
  BY <1>1, <1>2, <1>4
<1>5. CASE /\ Top.kind = "create"
           /\ accountMap' = SetCode(sigma, Self, data) /\ substate' = A
  <2> DEFINE tau == SetCode(sigma, Self, data)
  <2>1. Len(frames) \in 1..Len(frames) /\ Top \in Frame
    BY EmptySeq DEF Top
  <2>2. Self \in Addr
    BY <2>1 DEF Self, Frame
  <2>3. Bounds(Top.perm, frames) /\ Top.perm
    BY <1>5, <2>1, TopBounds DEF Top, StackInv, Creation
  <2>4. \A a \in Addr : Exists(sigma, a) => Exists(tau, a)
    BY <2>2, SetCodeWrites, NonceAssumption DEF Exists
  <2>8. NoncesKept(sigma, tau)
    <3>1. \A a \in Addr : NonceOf(tau, a) = NonceOf(sigma, a)
      BY <2>2, SetCodeWrites, NonceAssumption DEF NonceOf, AccountAt, Exists
    <3> HIDE DEF tau
    <3> QED BY <3>1, NoncesKeptReflexive DEF NoncesKept
  <2>5. Moves(Top.perm, sigma, A, tau, A)
    BY <2>3, <2>4, <2>8, GrowsReflexive DEF Moves
  <2> HIDE DEF tau
  <2>6. StackInv(tau, A, frames)
    BY <2>3, <2>5, StackMoves
  <2>7. StackInv(tau, A, Pop)
    BY <2>6, StackPop DEF Pop
  <2> QED BY <1>1, <1>5, <2>7 DEF tau
<1> QED BY <1>3, <1>4, <1>5 DEF ReturnSuccess

-----------------------------------------------------------------------------
(* The steps *)

(* What a frame knows when it executes an instruction. *)
LEMMA RunnerKnows ==
  ASSUME SInv, Instruction
  PROVE  /\ frames \in Seq(Frame) /\ frames # <<>>
         /\ Bounds(Top.perm, frames) /\ Top.perm \in BOOLEAN
         /\ accountMap \in AccountMap /\ NoncesUpTo(accountMap, MaxNonce)
         /\ substate \in Substate /\ createdAccounts \in SUBSET Addr
         /\ StackInv(accountMap, substate, frames)
         /\ Self \in Addr /\ Top.source \in Addr /\ Exists(accountMap, Self)
<1>1. /\ frames # <<>> /\ Runnable(Top)
      /\ Sound(sigma0, MaxNonce, accountMap, substate, createdAccounts)
  BY InstructionCounts DEF SInv, Instruction
<1>2. /\ Self \in Addr /\ Top.source \in Addr /\ Top.perm \in BOOLEAN
      /\ frames \in Seq(Frame)
  BY <1>1, RunningFrame DEF SInv, FramesSound
<1>3. Len(frames) \in 1..Len(frames)
  BY <1>1, <1>2, EmptySeq
<1>4. Exists(accountMap, Self)
  BY <1>1, <1>3 DEF SInv, StackInv, Within, Top, Self
<1>5. Bounds(Top.perm, frames)
  BY <1>1, <1>2, TopBounds DEF SInv, Top
<1> QED BY <1>1, <1>2, <1>4, <1>5 DEF Sound, SInv

LEMMA CallStack ==
  ASSUME SInv, NEW s \in Addr, NEW r \in Addr, NEW t \in Addr, NEW v \in Word,
         NEW w \in BOOLEAN, w => Top.perm,
         w \/ v = 0 \/ (s = Self /\ r = Self), r = t \/ r = Self,
         CallFrom(s, r, t, v, w)
  PROVE  StackInv(accountMap', substate', frames')
<1> DEFINE A1 == [substate EXCEPT !.accessedAccounts = @ \cup {t}]
<1>1. Instruction
  BY DEF CallFrom
<1>2. /\ frames \in Seq(Frame) /\ frames # <<>> /\ Bounds(Top.perm, frames)
      /\ Top.perm \in BOOLEAN
      /\ accountMap \in AccountMap /\ NoncesUpTo(accountMap, MaxNonce)
      /\ substate \in Substate /\ createdAccounts \in SUBSET Addr
      /\ StackInv(accountMap, substate, frames)
      /\ Exists(accountMap, Self)
  BY <1>1, RunnerKnows
<1>3. A1 \in Substate /\ Grows(substate, A1) /\ OnlyWarmer(substate, A1)
  BY <1>2, WarmGrows
<1>4. Moves(Top.perm, accountMap, substate, accountMap, A1)
  BY <1>2, <1>3, NoncesKeptReflexive DEF Moves
<1>5. CASE v <= BalanceOf(accountMap, Self) /\ Len(frames) - 1 < MaxDepth
  <2>1. MessageCall(accountMap, A1, createdAccounts, s, r, t, v, w)
    BY <1>5 DEF CallFrom
  <2> HIDE DEF A1
  <2>2. StackInv(accountMap, A1, frames)
    BY <1>2, <1>3, <1>4, StackMoves
  <2>3. ~w => v = 0 \/ (s = r /\ v <= BalanceOf(accountMap, s))
    BY <1>5
  <2>4. r = t \/ Exists(accountMap, r)
    BY <1>2
  <2> QED BY <1>2, <1>3, <2>1, <2>2, <2>3, <2>4, MessageCallStack
<1>6. CASE ~(v <= BalanceOf(accountMap, Self) /\ Len(frames) - 1 < MaxDepth)
  <2>1. substate' = A1 /\ UNCHANGED <<accountMap, frames>>
    BY <1>6 DEF CallFrom
  <2> HIDE DEF A1
  <2>2. StackInv(accountMap, A1, frames)
    BY <1>2, <1>3, <1>4, StackMoves
  <2> QED BY <2>1, <2>2
<1> QED BY <1>5, <1>6

LEMMA CreateStack ==
  ASSUME SInv, NEW a \in Addr, NEW v \in Word, Create(a, v)
  PROVE  StackInv(accountMap', substate', frames')
<1> DEFINE sigma == IncrementNonce(accountMap, Self)
<1>1. Instruction /\ Top.perm
  BY DEF Create, Write
<1>2. /\ frames \in Seq(Frame) /\ frames # <<>>
      /\ Bounds(TRUE, frames) /\ Top.perm = TRUE
      /\ accountMap \in AccountMap /\ NoncesUpTo(accountMap, MaxNonce)
      /\ substate \in Substate /\ createdAccounts \in SUBSET Addr
      /\ StackInv(accountMap, substate, frames)
      /\ Self \in Addr /\ Exists(accountMap, Self)
  BY <1>1, RunnerKnows DEF Bounds
<1>3. CASE /\ AccountAt(accountMap, Self).nonce < MaxNonce
           /\ v <= BalanceOf(accountMap, Self)
           /\ Len(frames) - 1 < MaxDepth
  <2>1. ContractCreation(sigma, substate, createdAccounts, Self, a, v, TRUE)
    BY <1>2, <1>3 DEF Create
  <2>2. Extends(accountMap, sigma, MaxNonce)
    BY <1>2, <1>3, IncrementNonceExtends
  <2> HIDE DEF sigma
  <2>3. /\ sigma \in AccountMap /\ NoncesUpTo(sigma, MaxNonce)
        /\ \A b \in Addr : Exists(accountMap, b) => Exists(sigma, b)
    BY <2>2 DEF Extends, Preserves
  <2>4. Moves(TRUE, accountMap, substate, sigma, substate)
    BY <1>2, <2>2, <2>3, GrowsReflexive, ExtendsKeepsNonces DEF Moves
  <2>5. StackInv(sigma, substate, frames)
    BY <1>2, <2>4, StackMoves
  <2>6. NonceOf(sigma, Self) > NonceOf(Top.sigma, Self)
    <3>1. Len(frames) \in 1..Len(frames)
      BY <1>2, EmptySeq
    <3>2. /\ NonceOf(Top.sigma, Self) \in Int /\ NonceOf(accountMap, Self) \in Int
          /\ NonceOf(Top.sigma, Self) <= NonceOf(accountMap, Self)
      BY <1>2, <3>1 DEF StackInv, Within, NoncesKept, Top
    <3>3. NonceOf(IncrementNonce(accountMap, Self), Self) = NonceOf(accountMap, Self) + 1
      BY <1>2, <1>3, IncrementNonceGrows DEF NonceOf
    <3> QED BY <3>2, <3>3 DEF sigma
  <2> QED BY <1>2, <2>1, <2>3, <2>5, <2>6, ContractCreationStack
<1>4. CASE ~(/\ AccountAt(accountMap, Self).nonce < MaxNonce
             /\ v <= BalanceOf(accountMap, Self)
             /\ Len(frames) - 1 < MaxDepth)
  BY <1>2, <1>4 DEF Create
<1> QED BY <1>3, <1>4

LEMMA SelfDestructStack ==
  ASSUME SInv, NEW heir \in Addr, SelfDestruct(heir)
  PROVE  StackInv(accountMap', substate', frames')
<1> DEFINE isNew == Self \in createdAccounts
           dead  == IF isNew THEN substate.selfDestructSet \cup {Self}
                             ELSE substate.selfDestructSet
           warm  == substate.accessedAccounts \cup {heir}
           A1 == [substate EXCEPT !.selfDestructSet = dead, !.accessedAccounts = warm]
           sigma == Bequeath(accountMap, Self, heir, isNew)
<1>1. Instruction /\ Top.perm
  BY DEF SelfDestruct, Write
<1>2. /\ frames \in Seq(Frame) /\ frames # <<>>
      /\ Bounds(Top.perm, frames)
      /\ accountMap \in AccountMap /\ NoncesUpTo(accountMap, MaxNonce)
      /\ substate \in Substate /\ StackInv(accountMap, substate, frames)
      /\ Self \in Addr
  BY <1>1, RunnerKnows
<1>3. PICK refused \in BOOLEAN : ReturnSuccess(sigma, A1, NoCode, refused)
  BY DEF SelfDestruct
<1>4. dead \in SUBSET Addr /\ warm \in SUBSET Addr
      /\ substate.selfDestructSet \subseteq dead /\ substate.accessedAccounts \subseteq warm
  BY <1>2 DEF Substate
<1>5. Extends(accountMap, sigma, MaxNonce)
  <2>1. isNew \in BOOLEAN
    OBVIOUS
  <2> QED BY <1>2, <2>1, BequeathExtends, NonceAssumption
<1> HIDE DEF dead, warm, isNew
<1>6. A1 \in Substate /\ Grows(substate, A1)
  <2>1. Grows(substate, substate)
    BY <1>2, GrowsReflexive
  <2> QED BY <1>2, <1>4, <2>1 DEF Substate, Grows
<1> HIDE DEF A1, sigma
<1>7. /\ sigma \in AccountMap /\ NoncesUpTo(sigma, MaxNonce)
      /\ \A b \in Addr : Exists(accountMap, b) => Exists(sigma, b)
  BY <1>5 DEF Extends, Preserves
<1>8. Moves(Top.perm, accountMap, substate, sigma, A1)
  BY <1>1, <1>2, <1>5, <1>6, <1>7, ExtendsKeepsNonces DEF Moves
<1>9. StackInv(sigma, A1, frames)
  BY <1>2, <1>6, <1>8, StackMoves
<1> QED BY <1>2, <1>3, <1>6, <1>7, <1>9, ReturnSuccessStack

(* An instruction that stays in its frame. *)
LEMMA LocalStack ==
  ASSUME SInv, Instruction, UNCHANGED frames,
         substate' \in Substate, Grows(substate, substate'),
         Extends(accountMap, accountMap', MaxNonce),
         ~Top.perm => UNCHANGED accountMap /\ OnlyWarmer(substate, substate')
  PROVE  StackInv(accountMap', substate', frames')
<1>1. /\ frames \in Seq(Frame) /\ Bounds(Top.perm, frames)
      /\ accountMap \in AccountMap
      /\ substate \in Substate /\ StackInv(accountMap, substate, frames)
  BY RunnerKnows
<1>2. Moves(Top.perm, accountMap, substate, accountMap', substate')
  BY <1>1, ExtendsKeepsNonces DEF Moves, Extends, Preserves
<1>3. StackInv(accountMap', substate', frames)
  BY <1>1, <1>2, StackMoves
<1> QED BY <1>3

LEMMA SStoreStack ==
  ASSUME SInv, NEW k \in Slots, NEW new \in Values, SStore(k, new)
  PROVE  StackInv(accountMap', substate', frames')
<1> DEFINE v0 == AccountAt(sigma0, Self).storage[k]
           v  == AccountAt(accountMap, Self).storage[k]
           keys   == substate.accessedStorageKeys \cup {<<Self, k>>}
           refund == AddRefund(substate.refundBalance, RefundDelta(v0, v, new))
           A1 == [substate EXCEPT !.accessedStorageKeys = keys, !.refundBalance = refund]
<1>1. Instruction /\ Top.perm /\ UNCHANGED frames
  BY DEF SStore, Write
<1>2. /\ accountMap \in AccountMap /\ NoncesUpTo(accountMap, MaxNonce)
      /\ substate \in Substate /\ Self \in Addr /\ Exists(accountMap, Self)
  BY <1>1, RunnerKnows
<1>3. accountMap' = [accountMap EXCEPT ![Self].storage[k] = new] /\ substate' = A1
  BY <1>2 DEF SStore
<1>4. keys \in SUBSET (Addr \X Slots) /\ substate.accessedStorageKeys \subseteq keys
  BY <1>2 DEF Substate
<1>5. refund \in Word
  BY <1>2, AddRefundType DEF Substate
<1> HIDE DEF keys, refund
<1>6. A1 \in Substate /\ Grows(substate, A1)
  <2>1. Grows(substate, substate)
    BY <1>2, GrowsReflexive
  <2> QED BY <1>2, <1>4, <1>5, <2>1 DEF Substate, Grows
<1> HIDE DEF A1
<1>7. Extends(accountMap, accountMap', MaxNonce)
  BY <1>2, <1>3, StorageWriteExtends
<1> QED BY <1>1, <1>3, <1>6, <1>7, LocalStack

LEMMA TStoreStack ==
  ASSUME SInv, NEW k \in Slots, NEW new \in Values, TStore(k, new)
  PROVE  StackInv(accountMap', substate', frames')
<1>1. Instruction /\ Top.perm /\ UNCHANGED <<substate, frames>>
  BY DEF TStore, Write
<1>2. /\ accountMap \in AccountMap /\ NoncesUpTo(accountMap, MaxNonce)
      /\ substate \in Substate /\ Self \in Addr /\ Exists(accountMap, Self)
  BY <1>1, RunnerKnows
<1>3. accountMap' = [accountMap EXCEPT ![Self].tstorage[k] = new]
  BY <1>2 DEF TStore
<1>4. Extends(accountMap, accountMap', MaxNonce)
  BY <1>2, <1>3, StorageWriteExtends
<1> QED BY <1>1, <1>2, <1>4, GrowsReflexive, LocalStack

(* Log writes a log, with permission; SLoad and Probe warm something. *)
LEMMA AccrueStack ==
  ASSUME SInv, Log \/ (\E k \in Slots : SLoad(k)) \/ (\E a \in Probes : Probe(a))
  PROVE  StackInv(accountMap', substate', frames')
<1>1. Instruction /\ UNCHANGED <<accountMap, frames>>
  BY DEF Log, SLoad, Probe, Write
<1>2. /\ accountMap \in AccountMap /\ NoncesUpTo(accountMap, MaxNonce)
      /\ substate \in Substate /\ Self \in Addr
  BY <1>1, RunnerKnows
<1>3. Grows(substate, substate)
  BY <1>2, GrowsReflexive
<1>4. /\ substate' \in Substate /\ Grows(substate, substate')
      /\ ~Top.perm => OnlyWarmer(substate, substate')
  <2>1. CASE Log
    <3> DEFINE logs  == substate.logSeries
               logs1 == Append(logs, Self)
    <3>1. logs \in Seq(Addr) /\ logs1 \in Seq(Addr)
      BY <1>2 DEF Substate
    <3>2. Len(logs1) = Len(logs) + 1 /\ \A i \in 1..Len(logs) : logs1[i] = logs[i]
      BY <1>2, <3>1, AppendProperties
    <3>3. Len(logs) \in Nat
      BY <3>1
    <3>4. substate' = [substate EXCEPT !.logSeries = logs1] /\ Top.perm
      BY <2>1 DEF Log, Write
    <3> HIDE DEF logs1
    <3>5. IsPrefix(logs, logs1)
      BY <3>1, <3>2, <3>3, PrefixPoints
    <3> QED BY <1>2, <1>3, <3>1, <3>4, <3>5 DEF Substate, Grows
  <2>2. ASSUME NEW k \in Slots, SLoad(k)
        PROVE  /\ substate' \in Substate /\ Grows(substate, substate')
               /\ OnlyWarmer(substate, substate')
    BY <2>2, <1>2, <1>3 DEF SLoad, Substate, Grows, OnlyWarmer
  <2>3. ASSUME NEW a \in Probes, Probe(a)
        PROVE  /\ substate' \in Substate /\ Grows(substate, substate')
               /\ OnlyWarmer(substate, substate')
    BY <2>3, <1>2, WarmGrows, AddressAssumption DEF Probe
  <2> QED BY <2>1, <2>2, <2>3
<1>5. Extends(accountMap, accountMap', MaxNonce)
  BY <1>1, <1>2, ExtendsReflexive
<1> QED BY <1>1, <1>4, <1>5, LocalStack

LEMMA EndStack ==
  ASSUME SInv,
         \/ \E data \in Codes \cup {NoCode}, refused \in BOOLEAN : Halt(data, refused)
         \/ Revert \/ ExceptionalHalt
  PROVE  StackInv(accountMap', substate', frames')
<1>1. frames # <<>>
  BY DEF Halt, Revert, ExceptionalHalt
<1>2. frames \in Seq(Frame) /\ StackInv(accountMap, substate, frames)
  BY <1>1, RunningFrame DEF SInv, FramesSound
<1>3. ASSUME NEW data \in Codes \cup {NoCode}, NEW refused \in BOOLEAN,
             Halt(data, refused)
      PROVE  StackInv(accountMap', substate', frames')
  <2>1. ReturnSuccess(accountMap, substate, data, refused) /\ Top.code # InvalidCode
    BY <1>3 DEF Halt
  <2>2. Sound(sigma0, MaxNonce, accountMap, substate, createdAccounts)
    BY <1>1, <2>1, RunningFrame DEF SInv
  <2> QED BY <1>1, <1>2, <2>1, <2>2, ReturnSuccessStack DEF Sound
<1>4. CASE Revert \/ ExceptionalHalt
  <2>1. ReturnFailure
    BY <1>4 DEF Revert, ExceptionalHalt
  <2> QED BY <1>1, <1>2, <2>1, StackPop DEF ReturnFailure, Pop, Top
<1> QED BY <1>3, <1>4

LEMMA BeginStack ==
  ASSUME SInv, NEW s \in Senders, NEW shape \in TxShapes, NEW v \in Amounts,
         \/ \E t \in CallTargets : BeginCall(s, shape, v, t)
         \/ \E a \in CreateTargets : BeginCreate(s, shape, v, a)
  PROVE  StackInv(accountMap', substate', frames')
<1> DEFINE sigma == Checkpoint(s, shape)
<1>1. BeginTx(s, shape, v)
  BY DEF BeginCall, BeginCreate
<1>2. /\ sigma \in AccountMap /\ NoncesUpTo(sigma, MaxNonce)
      /\ Extends(accountMap, sigma, MaxNonce) /\ frames = <<>>
      /\ \A recipients \in SUBSET Addr :
           InitialSubstate(s, shape, recipients) \in Substate
  BY <1>1, BeginTxSound DEF SInv, Sound
<1>3. s \in Addr /\ v \in Word
  BY AddressAssumption
<1>4. Exists(sigma, s)
  BY <1>1, <1>2, <1>3 DEF BeginTx, Valid, Extends, Preserves
<1>5. /\ frames \in Seq(Frame) /\ Bounds(TRUE, frames)
      /\ \A A : StackInv(sigma, A, frames)
  BY <1>2, EmptySeq DEF Bounds, StackInv
<1> HIDE DEF sigma
<1>6. ASSUME NEW t \in CallTargets, BeginCall(s, shape, v, t)
      PROVE  StackInv(accountMap', substate', frames')
  <2>1. MessageCall(sigma, InitialSubstate(s, shape, {t}), {}, s, t, t, v, TRUE)
    BY <1>6 DEF BeginCall, sigma
  <2>2. t \in Addr /\ InitialSubstate(s, shape, {t}) \in Substate
    BY <1>2, AddressAssumption
  <2> QED BY <1>2, <1>3, <1>5, <2>1, <2>2, MessageCallStack
<1>7. ASSUME NEW a \in CreateTargets, BeginCreate(s, shape, v, a)
      PROVE  StackInv(accountMap', substate', frames')
  <2>1. ContractCreation(sigma, InitialSubstate(s, shape, {}), {}, s, a, v, TRUE)
    BY <1>7 DEF BeginCreate, sigma
  <2>2. a \in Addr /\ InitialSubstate(s, shape, {}) \in Substate
    BY <1>2, AddressAssumption
  <2> QED BY <1>2, <1>3, <1>4, <1>5, <2>1, <2>2, ContractCreationStack
<1> QED BY <1>6, <1>7

LEMMA InitStack == Init => SInv
<1>1. Init => frames = <<>>
  BY DEF Init
<1> QED BY <1>1, InitSound, EmptySeq DEF SInv, StackInv

LEMMA NextStack == SInv /\ [Next]_vars => SInv'
<1> SUFFICES ASSUME SInv, [Next]_vars
             PROVE  StackInv(accountMap', substate', frames')
  BY NextSound DEF SInv
<1>1. ASSUME NEW s \in Senders, NEW shape \in TxShapes, NEW v \in Amounts,
             \/ \E t \in CallTargets : BeginCall(s, shape, v, t)
             \/ \E a \in CreateTargets : BeginCreate(s, shape, v, a)
      PROVE  StackInv(accountMap', substate', frames')
  BY <1>1, BeginStack
<1>2. ASSUME NEW gasLeft, FinishTx(gasLeft)
      PROVE  StackInv(accountMap', substate', frames')
  <2>1. frames' = <<>>
    BY <1>2 DEF FinishTx
  <2> QED BY <2>1, EmptySeq DEF StackInv
<1>3. ASSUME NEW t \in CallTargets,
             \/ \E v \in Amounts : Call(t, v) \/ CallCode(t, v)
             \/ DelegateCall(t)
             \/ StaticCall(t)
      PROVE  StackInv(accountMap', substate', frames')
  <2>1. frames # <<>> /\ t \in Addr /\ 0 \in Word /\ Amounts \subseteq Word
    BY <1>3, AddressAssumption, SmallWords DEF Call, CallCode, DelegateCall,
       StaticCall, CallFrom, Instruction
  <2>2. Self \in Addr /\ Top.source \in Addr /\ Top.perm \in BOOLEAN
    BY <2>1, RunningFrame DEF SInv
  <2>3. ASSUME NEW v \in Amounts, Call(t, v)
        PROVE  StackInv(accountMap', substate', frames')
    BY <2>1, <2>2, <2>3, CallStack DEF Call
  <2>4. ASSUME NEW v \in Amounts, CallCode(t, v)
        PROVE  StackInv(accountMap', substate', frames')
    BY <2>1, <2>2, <2>4, CallStack DEF CallCode
  <2>5. CASE DelegateCall(t)
    BY <2>1, <2>2, <2>5, CallStack DEF DelegateCall
  <2>6. CASE StaticCall(t)
    BY <2>1, <2>2, <2>6, CallStack DEF StaticCall
  <2> QED BY <1>3, <2>3, <2>4, <2>5, <2>6
<1>4. ASSUME NEW a \in CreateTargets, NEW v \in Amounts, Create(a, v)
      PROVE  StackInv(accountMap', substate', frames')
  BY <1>4, CreateStack, AddressAssumption
<1>5. ASSUME NEW heir \in Heirs, SelfDestruct(heir)
      PROVE  StackInv(accountMap', substate', frames')
  BY <1>5, SelfDestructStack, AddressAssumption
<1>6. ASSUME NEW k \in Slots, NEW new \in Values, SStore(k, new) \/ TStore(k, new)
      PROVE  StackInv(accountMap', substate', frames')
  BY <1>6, SStoreStack, TStoreStack
<1>7. ASSUME Log \/ (\E k \in Slots : SLoad(k)) \/ (\E a \in Probes : Probe(a))
      PROVE  StackInv(accountMap', substate', frames')
  BY <1>7, AccrueStack
<1>8. ASSUME \/ \E data \in Codes \cup {NoCode}, refused \in BOOLEAN :
                  Halt(data, refused)
             \/ Revert \/ ExceptionalHalt
      PROVE  StackInv(accountMap', substate', frames')
  BY <1>8, EndStack
<1>9. CASE UNCHANGED vars
  BY <1>9 DEF vars, SInv
<1> QED BY <1>1, <1>2, <1>3, <1>4, <1>5, <1>6, <1>7, <1>8, <1>9 DEF Next

(* SInv holds in every state of every behaviour. *)
THEOREM StackInvariance == Spec => []SInv
<1> QED BY InitStack, NextStack, PTL DEF Spec

-----------------------------------------------------------------------------
(* What the invariant says of the code *)

LEMMA OpenFrames ==
  ASSUME SInv
  PROVE  /\ DOMAIN frames = 1..Len(frames) /\ Len(frames) \in Nat
         /\ \A i \in DOMAIN frames :
              Within(frames[i], accountMap, substate) /\ Creation(frames[i])
         /\ \A i \in DOMAIN frames : i > 1 => Grown(frames[i - 1], frames[i])
         /\ \A i \in DOMAIN frames : \A j \in DOMAIN frames :
              j > i => Within(frames[i], frames[j].sigma, frames[j].A)
<1>1. frames \in Seq(Frame)
  BY DEF SInv, IInv, StateSound, FramesSound
<1>2. DOMAIN frames = 1..Len(frames) /\ Len(frames) \in Nat
  BY <1>1
<1>3. \A j \in 1..Len(frames) : \A i \in 1..Len(frames) : j > i => i \in 1..(j - 1)
  BY <1>2
<1>4. \A i \in 1..Len(frames) : i > 1 => i \in 2..Len(frames)
  BY <1>2
<1> QED BY <1>2, <1>3, <1>4 DEF SInv, StackInv

(* The frame of a STATICCALL, with all that it calls and whatever fails    *)
(* there, hands back the world that it was given: the permission is only   *)
(* ever narrowed, and W refuses every write without it.                    *)
THEOREM StaticCallsArePure == Spec => []StaticPure
<1>1. SInv => StaticPure
  BY OpenFrames DEF StaticPure, Within, OnlyWarmer
<1> QED BY <1>1, StackInvariance, PTL

(* The account for which a frame runs is in every map that can become the  *)
(* map of that frame: SSTORE's panic and the case of SELFDESTRUCT that     *)
(* "should not happen" do not happen.                                      *)
THEOREM RunningAccountsExist == Spec => []SelfExists
<1>1. SInv => SelfExists
  BY OpenFrames DEF SelfExists, Within
<1> QED BY <1>1, StackInvariance, PTL

(* A failure deeper down gives a frame back no less than it had accrued,   *)
(* and a failing creation the warm address and the grown nonce.            *)
THEOREM AccruedIsKept == Spec => []AccruedKept
<1>1. SInv => AccruedKept
  BY OpenFrames DEF AccruedKept, Within, Grows, NoncesKept, Creation, Grown
<1> QED BY <1>1, StackInvariance, PTL
===============================================================================
