----------------------------- MODULE ChainProofs -----------------------------
(***************************************************************************)
(* The accepted blocks of Chain: they implement the abstract tree, and the *)
(* test is judged by the state of the block that it names, whatever a      *)
(* transaction does, however blocks fork, repeat, fail and are expected to *)
(* fail.  Then what the blocks use up: receipts count the gas from 0 in    *)
(* every block, no accepted block has used more than its limit, the fee of *)
(* an accepted block is near that of its parent, and no transaction uses   *)
(* the nonce of another one on the same chain.                             *)
(***************************************************************************)
EXTENDS Chain, AccountsProofs, SequenceTheorems

(* Blocks are never changed once they are made, and their numbers and      *)
(* times can be compared.                                                  *)
HeadersOK ==
  /\ \E S : headers \in Seq(S)
  /\ Len(headers) >= 1
  /\ \A h \in DOMAIN headers :
       headers[h].number \in Int /\ headers[h].timestamp \in Int

BlocksOK ==
  /\ \E S : blocks \in Seq(S)
  /\ \A i \in DOMAIN blocks : blocks[i].hash \in DOMAIN headers

(* The block in hand exists, and past the header its parent is accepted. *)
InHandOK ==
  phase \in {"header", "transactions", "validate"} =>
    /\ current.hash \in DOMAIN headers
    /\ phase # "header" => Block.parent \in Accepted

CInv == HeadersOK /\ BlocksOK /\ InHandOK

(* Appending keeps what is there and adds one element. *)
LEMMA AppendFacts ==
  ASSUME NEW s, NEW e, \E S : s \in Seq(S)
  PROVE  /\ \E S : Append(s, e) \in Seq(S)
         /\ Len(s) \in Nat
         /\ Len(Append(s, e)) = Len(s) + 1
         /\ DOMAIN s = 1..Len(s)
         /\ DOMAIN Append(s, e) = 1..(Len(s) + 1)
         /\ \A i \in DOMAIN s : Append(s, e)[i] = s[i]
         /\ Append(s, e)[Len(s) + 1] = e
<1>1. PICK S : s \in Seq(S)
  OBVIOUS
<1>2. s \in Seq(S \cup {e}) /\ e \in S \cup {e}
  BY <1>1
<1>3. Append(s, e) \in Seq(S \cup {e})
  BY <1>2
<1> QED
  BY <1>2, <1>3

(* No check fails when none is reported. *)
LEMMA NoError ==
  ASSUME NEW checks, DOMAIN checks \subseteq Nat,
         \A i \in DOMAIN checks : checks[i].error # NoException,
         FirstError(checks) = NoException
  PROVE  \A i \in DOMAIN checks : ~checks[i].bad
<1> DEFINE first(i) == checks[i].bad /\ \A j \in DOMAIN checks : j < i => ~checks[j].bad
           S == {i \in DOMAIN checks : checks[i].bad}
<1> SUFFICES ASSUME S # {} PROVE FALSE
  OBVIOUS
<1>1. PICK m \in S : \A n \in S : m <= n
  <2>1. S \subseteq Nat
    OBVIOUS
  <2> HIDE DEF S
  <2> QED BY <2>1, LeastNumber
<1>2. m \in DOMAIN checks /\ first(m)
  BY <1>1
<1>3. (CHOOSE i \in DOMAIN checks : first(i)) \in DOMAIN checks
  <2> HIDE DEF first
  <2> QED BY <1>2
<1>4. FirstError(checks) = checks[CHOOSE i \in DOMAIN checks : first(i)].error
  BY <1>2 DEF FirstError
<1> QED BY <1>3, <1>4

(* A block without a late error links to its parent, and its header        *)
(* commits to the state, the receipts and the gas that were computed.      *)
LEMMA LateErrorNone ==
  ASSUME LateError = NoException
  PROVE  /\ Block.number = headers[Block.parent].number + 1
         /\ ~(Block.timestamp <= headers[Block.parent].timestamp)
         /\ Block.stateRoot = work.accountMap
         /\ Block.gasUsed = work.gasUsed
         /\ Block.receiptRoot = work.receipts
         /\ ~(~Block.sealed)
<1> DEFINE b == Block
           parent == headers[Block.parent]
           checks ==
             << Check(work.gasUsed # b.gasUsed, "INVALID_GAS_USED"),
                Check(b.timestamp <= parent.timestamp,
                      "INVALID_BLOCK_TIMESTAMP_OLDER_THAN_PARENT"),
                Check(b.number # parent.number + 1, "INVALID_BLOCK_NUMBER"),
                Check(~b.sealed, "EXTRA_DATA_TOO_BIG"),
                Check(b.stateRoot # work.accountMap, "INVALID_STATE_ROOT"),
                Check(b.logsBloom # work.logs, "INVALID_LOG_BLOOM"),
                Check(b.receiptRoot # work.receipts, "INVALID_RECEIPTS_ROOT") >>
<1>1. BlockError(work, parent, b) = NoException
  BY DEF LateError, NoException
<1>2. FirstError(checks) = NoException
  BY <1>1 DEF BlockError
<1>3. DOMAIN checks = 1..7 /\ DOMAIN checks \subseteq Nat
  OBVIOUS
<1>4. \A i \in DOMAIN checks : checks[i].error # NoException
  BY DEF Check, NoException
<1> HIDE DEF checks
<1>5. \A i \in DOMAIN checks : ~checks[i].bad
  BY <1>2, <1>3, <1>4, NoError
<1>6. /\ ~checks[1].bad /\ ~checks[2].bad /\ ~checks[3].bad /\ ~checks[5].bad
      /\ ~checks[4].bad /\ ~checks[7].bad
  BY <1>3, <1>5
<1> QED
  BY <1>6 DEF checks, Check

HeaderFields ==
  {"parent", "number", "timestamp", "gasLimit", "baseFee", "txs", "withdrawals",
   "wellFormed", "sealed", "gasUsed", "receiptRoot", "logsBloom", "stateRoot"}

(* A flaw changes one field of a block, and never what the block does. *)
LEMMA SpoiledFields ==
  ASSUME NEW b, NEW flaw \in FlawNames, DOMAIN b = HeaderFields
  PROVE  /\ Spoiled(b, flaw).parent \in {b.parent, NoHash}
         /\ Spoiled(b, flaw).number \in {b.number, b.number + 1}
         /\ Spoiled(b, flaw).timestamp \in {b.timestamp, b.timestamp - 1}
         /\ Spoiled(b, flaw).gasLimit \in {b.gasLimit, b.gasLimit * 2}
         /\ Spoiled(b, flaw).txs = b.txs
         /\ Spoiled(b, flaw).withdrawals = b.withdrawals
<1>1. CASE flaw = "none"
  BY <1>1 DEF Spoiled, HeaderFields
<1>2. CASE flaw = "encoding"
  BY <1>2 DEF Spoiled, HeaderFields
<1>3. CASE flaw = "parent"
  BY <1>3 DEF Spoiled, HeaderFields
<1>4. CASE flaw = "number"
  BY <1>4 DEF Spoiled, HeaderFields
<1>5. CASE flaw = "timestamp"
  BY <1>5 DEF Spoiled, HeaderFields
<1>6. CASE flaw = "gasLimit"
  BY <1>6 DEF Spoiled, HeaderFields
<1>7. CASE flaw = "baseFee"
  BY <1>7 DEF Spoiled, HeaderFields
<1>8. CASE flaw = "sealed"
  BY <1>8 DEF Spoiled, HeaderFields
<1>9. CASE flaw = "gasUsed"
  BY <1>9 DEF Spoiled, HeaderFields
<1>10. CASE flaw = "stateRoot"
  BY <1>10 DEF Spoiled, HeaderFields
<1>11. CASE flaw = "bloom"
  BY <1>11 DEF Spoiled, HeaderFields
<1>12. CASE flaw = "receipts"
  BY <1>12 DEF Spoiled, HeaderFields
<1> QED BY <1>1, <1>2, <1>3, <1>4, <1>5, <1>6, <1>7, <1>8, <1>9, <1>10, <1>11, <1>12
        DEF FlawNames

(* What a new block on top of p does is what its draft says, flawed or not. *)
LEMMA NewBlockFields ==
  ASSUME NEW p, NEW draft \in Drafts
  PROVE  LET b == Spoiled(HonestBlock(p, draft.txs, draft.withdrawals), draft.flaw)
         IN  /\ b.parent \in {p, NoHash}
             /\ b.number \in {headers[p].number + 1, (headers[p].number + 1) + 1}
             /\ b.timestamp \in {headers[p].timestamp + 1, (headers[p].timestamp + 1) - 1}
             /\ b.gasLimit \in {headers[p].gasLimit, headers[p].gasLimit * 2}
             /\ b.txs = draft.txs /\ b.withdrawals = draft.withdrawals
<1> DEFINE honest == HonestBlock(p, draft.txs, draft.withdrawals)
<1>1. /\ honest.parent = p
      /\ honest.number = headers[p].number + 1
      /\ honest.timestamp = headers[p].timestamp + 1
      /\ honest.gasLimit = headers[p].gasLimit
      /\ honest.txs = draft.txs /\ honest.withdrawals = draft.withdrawals
      /\ DOMAIN honest = HeaderFields
  BY DEF HonestBlock, HeaderFields
<1> HIDE DEF honest
<1>2. draft.flaw \in FlawNames
  BY DraftAssumption
<1>3. /\ Spoiled(honest, draft.flaw).parent \in {honest.parent, NoHash}
      /\ Spoiled(honest, draft.flaw).number \in {honest.number, honest.number + 1}
      /\ Spoiled(honest, draft.flaw).timestamp \in {honest.timestamp, honest.timestamp - 1}
      /\ Spoiled(honest, draft.flaw).gasLimit \in {honest.gasLimit, honest.gasLimit * 2}
      /\ Spoiled(honest, draft.flaw).txs = honest.txs
      /\ Spoiled(honest, draft.flaw).withdrawals = honest.withdrawals
  BY <1>1, <1>2, SpoiledFields
<1> QED BY <1>1, <1>3 DEF honest

-----------------------------------------------------------------------------
(* The invariant *)

LEMMA CInvInit == Init => CInv
<1> SUFFICES ASSUME Init PROVE CInv
  OBVIOUS
<1>1. headers = <<GenesisHeader>> /\ blocks = <<[hash |-> 1, sigma |-> Genesis]>>
      /\ phase = "idle"
  BY DEF Init
<1>2. headers \in Seq({GenesisHeader}) /\ Len(headers) = 1 /\ headers[1] = GenesisHeader
      /\ DOMAIN headers = 1..1
  BY <1>1
<1>3. HeadersOK
  <2>1. GenesisHeader.number \in Int /\ GenesisHeader.timestamp \in Int
    BY ChainAssumption
  <2> QED
    BY <1>2, <2>1 DEF HeadersOK
<1>4. BlocksOK
  <2>1. blocks \in Seq({[hash |-> 1, sigma |-> Genesis]}) /\ DOMAIN blocks = 1..1
        /\ blocks[1].hash = 1
    BY <1>1
  <2> QED
    BY <2>1, <1>2 DEF BlocksOK
<1>5. InHandOK
  BY <1>1 DEF InHandOK
<1> QED
  BY <1>3, <1>4, <1>5 DEF CInv

(* What every step of the runner but AcceptBlock leaves as it is. *)
LEMMA RunnerKeeps ==
  ASSUME CInv, UNCHANGED <<headers, blocks>>,
         phase' \in {"header", "transactions", "validate"} =>
           /\ phase \in {"header", "transactions", "validate"}
           /\ current' = current
           /\ phase' # "header" => phase # "header" \/ Block.parent \in Accepted
  PROVE  CInv'
<1>1. HeadersOK' /\ BlocksOK'
  BY DEF CInv, HeadersOK, BlocksOK
<1>2. InHandOK'
  BY DEF CInv, InHandOK, Block, Accepted
<1> QED
  BY <1>1, <1>2 DEF CInv

(* A block without an early error has an accepted parent. *)
LEMMA EarlyErrorNone ==
  ASSUME EarlyError = NoException
  PROVE  Block.parent \in Accepted
BY DEF EarlyError, NoException

(* Taking a new block adds it to the headers and changes no other. *)
LEMMA TakeNewBlockStep ==
  ASSUME CInv, NEW p \in DOMAIN headers, NEW draft \in Drafts,
         NEW expects \in Expectations, TakeNewBlock(p, draft, expects)
  PROVE  CInv' /\ Tree!Make
<1> DEFINE b == Spoiled(HonestBlock(p, draft.txs, draft.withdrawals), draft.flaw)
<1>1. /\ headers' = Append(headers, b)
      /\ blocks' = blocks
      /\ current'.hash = Len(headers) + 1
      /\ phase' = "header"
  BY DEF TakeNewBlock, Take
<1>2. b.number \in Int /\ b.timestamp \in Int
  <2>1. headers[p].number \in Int /\ headers[p].timestamp \in Int
    BY DEF CInv, HeadersOK
  <2> QED BY <2>1, NewBlockFields
<1> HIDE DEF b
<1>3. /\ \E S : headers' \in Seq(S)
      /\ Len(headers) \in Nat
      /\ Len(headers') = Len(headers) + 1
      /\ DOMAIN headers = 1..Len(headers)
      /\ DOMAIN headers' = 1..(Len(headers) + 1)
      /\ \A h \in DOMAIN headers : headers'[h] = headers[h]
      /\ headers'[Len(headers) + 1] = b
  BY <1>1, AppendFacts DEF CInv, HeadersOK
<1>4. HeadersOK'
  <2>1. \A h \in DOMAIN headers' : headers'[h].number \in Int /\ headers'[h].timestamp \in Int
    BY <1>2, <1>3 DEF CInv, HeadersOK
  <2> QED
    BY <1>3, <2>1 DEF CInv, HeadersOK
<1>5. BlocksOK'
  BY <1>1, <1>3 DEF CInv, BlocksOK
<1>6. InHandOK'
  BY <1>1, <1>3 DEF InHandOK
<1>7. Tree!Make
  BY <1>1, <1>3 DEF Tree!Make
<1> QED
  BY <1>4, <1>5, <1>6, <1>7 DEF CInv

(* Appending to the accepted blocks, likewise. *)
LEMMA AppendToBlocks ==
  ASSUME BlocksOK, NEW e, blocks' = Append(blocks, e)
  PROVE  /\ \E S : blocks' \in Seq(S)
         /\ DOMAIN blocks = 1..Len(blocks)
         /\ Len(blocks) \in Nat
         /\ DOMAIN blocks' = 1..(Len(blocks) + 1)
         /\ \A i \in DOMAIN blocks : blocks'[i] = blocks[i]
         /\ blocks'[Len(blocks) + 1] = e
<1>1. \E S : blocks \in Seq(S)
  BY DEF BlocksOK
<1>2. \E S : blocks' \in Seq(S)
  BY <1>1, AppendFacts
<1>3. DOMAIN blocks = 1..Len(blocks) /\ Len(blocks) \in Nat
  BY <1>1, AppendFacts
<1>4. DOMAIN blocks' = 1..(Len(blocks) + 1)
  BY <1>1, AppendFacts
<1>5. \A i \in DOMAIN blocks : blocks'[i] = blocks[i]
  BY <1>1, AppendFacts
<1>6. blocks'[Len(blocks) + 1] = e
  BY <1>1, AppendFacts
<1> QED
  BY <1>2, <1>3, <1>4, <1>5, <1>6

(* Accepting a block adds it to the tree, under a parent that is there. *)
LEMMA AcceptBlockStep ==
  ASSUME CInv, AcceptBlock
  PROVE  CInv' /\ \E h \in DOMAIN headers : Tree!Accept(h)
<1> PICK c : c = current.hash
  OBVIOUS
<1> PICK sigma : sigma = work.accountMap
  OBVIOUS
<1> PICK entry : entry = [hash |-> c, sigma |-> sigma]
  OBVIOUS
<1>1. /\ blocks' = Append(blocks, entry)
      /\ headers' = headers
      /\ phase = "validate" /\ phase' = "idle"
      /\ LateError = NoException
  BY DEF AcceptBlock, Idle
<1>2. c \in DOMAIN headers /\ Block = headers[c] /\ Block.parent \in Accepted
  BY <1>1 DEF CInv, InHandOK, Block
<1>3. /\ \E S : blocks' \in Seq(S)
      /\ DOMAIN blocks = 1..Len(blocks)
      /\ Len(blocks) \in Nat
      /\ DOMAIN blocks' = 1..(Len(blocks) + 1)
      /\ \A i \in DOMAIN blocks : blocks'[i] = blocks[i]
      /\ blocks'[Len(blocks) + 1] = entry
  BY <1>1, AppendToBlocks DEF CInv
<1>4. CInv'
  <2>1. HeadersOK'
    BY <1>1 DEF CInv, HeadersOK
  <2>2. \A i \in DOMAIN blocks' : blocks'[i].hash \in DOMAIN headers
    BY <1>2, <1>3 DEF CInv, BlocksOK
  <2>3. BlocksOK'
    BY <1>1, <1>3, <2>2 DEF BlocksOK
  <2>4. InHandOK'
    BY <1>1 DEF InHandOK
  <2> QED
    BY <2>1, <2>3, <2>4 DEF CInv
<1>5. PICK i \in DOMAIN blocks : blocks[i].hash = Block.parent
  BY <1>2 DEF Accepted
<1>6. Block.parent \in DOMAIN headers
  BY <1>5 DEF CInv, BlocksOK
<1>7. Tree!LinksTo(Block, headers[Block.parent])
  <2>1. Block.timestamp \in Int /\ headers[Block.parent].timestamp \in Int
    BY <1>2, <1>6 DEF CInv, HeadersOK
  <2>2. Block.timestamp > headers[Block.parent].timestamp
    BY <1>1, <2>1, LateErrorNone
  <2> QED
    BY <1>1, <2>2, LateErrorNone DEF Tree!LinksTo
<1>8. {blocks'[j] : j \in DOMAIN blocks'}
        = {blocks[j] : j \in DOMAIN blocks} \cup {[hash |-> c, sigma |-> Block.stateRoot]}
  <2>1. entry = [hash |-> c, sigma |-> Block.stateRoot]
    BY <1>1, LateErrorNone
  <2>2. DOMAIN blocks' = DOMAIN blocks \cup {Len(blocks) + 1}
    BY <1>3
  <2> QED
    BY <1>3, <2>1, <2>2
<1>9. Tree!Accept(c)
  <2>1. \E node \in {blocks[j] : j \in DOMAIN blocks} : node.hash = Block.parent
    BY <1>5
  <2> QED
    BY <1>1, <1>2, <1>7, <1>8, <2>1 DEF Tree!Accept
<1> QED
  BY <1>2, <1>4, <1>9

(* Every step keeps the invariant, and is a step of the tree or none. *)
LEMMA ChainStep ==
  ASSUME CInv, [Next]_chainVars
  PROVE  CInv' /\ [Tree!Next]_<<headers, {blocks[i] : i \in DOMAIN blocks}>>
<1> DEFINE quiet == UNCHANGED <<headers, blocks>>
<1>1. ASSUME NEW p \in DOMAIN headers, NEW draft \in Drafts,
             NEW expects \in Expectations, TakeNewBlock(p, draft, expects)
      PROVE  CInv' /\ Tree!Next
  BY <1>1, TakeNewBlockStep DEF Tree!Next
<1>2. ASSUME NEW h \in DOMAIN headers, NEW expects \in Expectations,
             TakeOldBlock(h, expects)
      PROVE  CInv' /\ quiet
  <2>1. quiet /\ current'.hash = h /\ phase' = "header"
    BY <1>2 DEF TakeOldBlock, Take
  <2> QED
    BY <2>1 DEF CInv, HeadersOK, BlocksOK, InHandOK
<1>3. ASSUME NEW h, NEW kind, EndTest(h, kind)
      PROVE  CInv' /\ quiet
  <2>1. quiet /\ phase' \in {"passed", "failed"}
    BY <1>3 DEF EndTest
  <2> QED
    BY <2>1, RunnerKeeps
<1>4. CASE RefuseHeader \/ RefuseTransaction \/ RefuseBlock
  <2>1. quiet /\ phase' = "catch"
    BY <1>4 DEF RefuseHeader, RefuseTransaction, RefuseBlock, Throw
  <2> QED
    BY <2>1, RunnerKeeps
<1>5. CASE BeginBlock
  <2>1. quiet /\ phase = "header" /\ phase' = "transactions" /\ current' = current
        /\ EarlyError = NoException
    BY <1>5 DEF BeginBlock
  <2> QED
    BY <2>1, EarlyErrorNone, RunnerKeeps
<1>6. CASE ExecuteTransaction
  <2>1. quiet /\ phase = "transactions" /\ phase' = phase /\ current' = current
    BY <1>6 DEF ExecuteTransaction
  <2> QED
    BY <2>1, RunnerKeeps
<1>7. CASE Withdraw
  <2>1. quiet /\ phase = "transactions" /\ phase' = "validate" /\ current' = current
    BY <1>7 DEF Withdraw
  <2> QED
    BY <2>1, RunnerKeeps
<1>8. CASE AcceptBlock
  BY <1>8, AcceptBlockStep DEF Tree!Next
<1>9. CASE CatchExpected \/ CatchUnexpected
  <2>1. quiet /\ phase' \in {"idle", "failed"}
    BY <1>9 DEF CatchExpected, CatchUnexpected, Idle
  <2> QED
    BY <2>1, RunnerKeeps
<1>10. CASE UNCHANGED chainVars
  <2>1. quiet /\ phase' = phase /\ current' = current
    BY <1>10 DEF chainVars
  <2> QED
    BY <2>1, RunnerKeeps
<1> QED
  BY <1>1, <1>2, <1>3, <1>4, <1>5, <1>6, <1>7, <1>8, <1>9, <1>10
     DEF Next, Author, Runner

(* The inductive invariant of the fold: every block in hand and every      *)
(* accepted block exists, and what is executed stands on an accepted       *)
(* parent (processBlocks).                                                 *)
THEOREM ChainInvariance == Spec => []CInv
<1>1. Init => CInv
  BY CInvInit
<1>2. CInv /\ [Next]_chainVars => CInv'
  BY ChainStep
<1> QED
  BY <1>1, <1>2, PTL DEF Spec

(* processBlocks only ever extends a tree: a block is accepted under an    *)
(* accepted parent, one number above it and later, with the state that its *)
(* header commits to, and nothing accepted is ever changed or dropped.     *)
THEOREM ChainImplementsTree == Spec => ImplementsTree
<1>1. Init => Tree!Init
  <2> SUFFICES ASSUME Init PROVE Tree!Init
    OBVIOUS
  <2>1. headers = <<GenesisHeader>> /\ blocks = <<[hash |-> 1, sigma |-> Genesis]>>
    BY DEF Init
  <2>2. DOMAIN blocks = {1} /\ blocks[1] = [hash |-> 1, sigma |-> Genesis]
    BY <2>1
  <2>3. {blocks[i] : i \in DOMAIN blocks} = {[hash |-> 1, sigma |-> Genesis]}
    BY <2>2
  <2>4. Len(headers) = 1 /\ headers[1].stateRoot = Genesis
    BY <2>1, ChainAssumption
  <2> QED
    BY <2>3, <2>4 DEF Tree!Init
<1>2. CInv /\ [Next]_chainVars
        => [Tree!Next]_<<headers, {blocks[i] : i \in DOMAIN blocks}>>
  BY ChainStep
<1> QED
  BY <1>1, <1>2, ChainInvariance, PTL DEF Spec, ImplementsTree, Tree!Spec
-----------------------------------------------------------------------------
(* The verdict of a test: preImpliesPost compares with the state of the    *)
(* block that the test names.                                              *)

(* Every accepted block is kept with the state of its header, and the fold *)
(* carries the state of the last of them.                                  *)
StatesOK ==
  /\ \A i \in DOMAIN blocks : blocks[i].sigma = headers[blocks[i].hash].stateRoot
  /\ Len(blocks) >= 1
  /\ acc.accountMap = blocks[Len(blocks)].sigma

(* A test that has ended is not taken up again. *)
EndedOK == test.kind # "none" => phase \in {"passed", "failed"}

(* No later accepted block has the hash of blocks[m]. *)
Latest(m) == \A i \in DOMAIN blocks : blocks[i].hash = blocks[m].hash => i <= m

(* Among the accepted blocks of one hash there is a last one. *)
LatestOK ==
  \A j \in DOMAIN blocks :
    \E m \in DOMAIN blocks : Latest(m) /\ blocks[m].hash = blocks[j].hash

VInv == CInv /\ StatesOK /\ LatestOK /\ EndedOK /\ VerdictRight

(* findRev? of the hash of an accepted block finds a block of that hash. *)
LEMMA FoundHasHash ==
  ASSUME LatestOK, BlocksOK, NEW h \in Accepted
  PROVE  \E i \in DOMAIN blocks : Found(h) = blocks[i] /\ blocks[i].hash = h
<1> DEFINE S == {i \in DOMAIN blocks : blocks[i].hash = h}
<1>1. PICK j \in DOMAIN blocks : blocks[j].hash = h
  BY DEF Accepted
<1>2. \E m \in DOMAIN blocks : Latest(m) /\ blocks[m].hash = blocks[j].hash
  BY <1>1 DEF LatestOK
<1>3. DOMAIN blocks = 1..Len(blocks) /\ Len(blocks) \in Nat
  BY DEF BlocksOK
<1>4. \E x \in S : \A y \in S : x >= y
  BY <1>1, <1>2, <1>3 DEF Latest
<1>5. Max(S) \in S
  BY <1>4 DEF Max
<1> QED BY <1>5 DEF Found

LEMMA VInvInit == Init => VInv
<1> SUFFICES ASSUME Init PROVE VInv
  OBVIOUS
<1>1. headers = <<GenesisHeader>> /\ blocks = <<[hash |-> 1, sigma |-> Genesis]>>
      /\ acc.accountMap = Genesis /\ test.kind = "none"
  BY DEF Init
<1>2. StatesOK
  BY <1>1, ChainAssumption DEF StatesOK
<1>3. LatestOK
  BY <1>1 DEF LatestOK, Latest
<1> QED BY <1>1, <1>2, <1>3, CInvInit DEF VInv, EndedOK, VerdictRight

(* A step that neither ends the test nor accepts a block. *)
LEMMA QuietStep ==
  ASSUME VInv, CInv', UNCHANGED <<blocks, acc, test>>,
         \A h \in DOMAIN headers : headers'[h] = headers[h],
         phase \notin {"passed", "failed"}
  PROVE  VInv'
<1>1. test.kind = "none"
  BY DEF VInv, EndedOK
<1>2. StatesOK'
  BY DEF VInv, StatesOK, CInv, BlocksOK
<1>3. LatestOK'
  BY DEF VInv, LatestOK, Latest
<1> QED BY <1>1, <1>2, <1>3 DEF VInv, EndedOK, VerdictRight

(* An accepted block brings the state that its header commits to. *)
LEMMA AcceptStates ==
  ASSUME VInv, CInv', AcceptBlock
  PROVE  VInv'
<1> PICK entry : entry = [hash |-> current.hash, sigma |-> work.accountMap]
  OBVIOUS
<1>1. /\ blocks' = Append(blocks, entry) /\ headers' = headers
      /\ acc' = work /\ test' = test /\ phase = "validate" /\ LateError = NoException
  BY DEF AcceptBlock, Idle
<1>2. test.kind = "none"
  BY <1>1 DEF VInv, EndedOK
<1>3. entry.sigma = headers[entry.hash].stateRoot
  BY <1>1, LateErrorNone DEF Block
<1>4. /\ DOMAIN blocks = 1..Len(blocks) /\ Len(blocks) \in Nat
      /\ DOMAIN blocks' = 1..(Len(blocks) + 1)
      /\ \A i \in DOMAIN blocks : blocks'[i] = blocks[i]
      /\ blocks'[Len(blocks) + 1] = entry
      /\ Len(blocks') = Len(blocks) + 1
  <2>1. \E S : blocks \in Seq(S)
    BY DEF VInv, CInv, BlocksOK
  <2> QED BY <1>1, <2>1, AppendFacts
<1>5. StatesOK'
  <2>1. \A i \in DOMAIN blocks' : i \in DOMAIN blocks \/ i = Len(blocks) + 1
    BY <1>4
  <2>2. \A i \in DOMAIN blocks : blocks[i].sigma = headers[blocks[i].hash].stateRoot
    BY DEF VInv, StatesOK
  <2>3. \A i \in DOMAIN blocks' : blocks'[i].sigma = headers'[blocks'[i].hash].stateRoot
    BY <1>1, <1>3, <1>4, <2>1, <2>2
  <2>4. acc'.accountMap = blocks'[Len(blocks')].sigma
    BY <1>1, <1>4
  <2> QED BY <1>4, <2>3, <2>4 DEF StatesOK
<1>6. LatestOK'
  <2> SUFFICES ASSUME NEW j \in DOMAIN blocks'
               PROVE  \E m \in DOMAIN blocks' :
                        Latest(m)' /\ blocks'[m].hash = blocks'[j].hash
    BY DEF LatestOK
  <2>1. CASE blocks'[j].hash = entry.hash
    <3> PICK top : top = Len(blocks) + 1
      OBVIOUS
    <3>1. Latest(top)'
      BY <1>4 DEF Latest
    <3>2. top \in DOMAIN blocks' /\ blocks'[top] = entry
      BY <1>4
    <3> QED BY <2>1, <3>1, <3>2
  <2>2. CASE blocks'[j].hash # entry.hash
    <3>1. j \in DOMAIN blocks /\ blocks'[j] = blocks[j]
      BY <1>4, <2>2
    <3>2. PICK m \in DOMAIN blocks : Latest(m) /\ blocks[m].hash = blocks[j].hash
      BY <3>1 DEF VInv, LatestOK
    <3>3. m \in DOMAIN blocks' /\ blocks'[m] = blocks[m]
      BY <1>4
    <3>4. Latest(m)'
      <4> SUFFICES ASSUME NEW i \in DOMAIN blocks', blocks'[i].hash = blocks'[m].hash
                   PROVE  i <= m
        BY DEF Latest
      <4>1. blocks'[i].hash # entry.hash
        BY <2>2, <3>1, <3>2, <3>3
      <4>2. i \in DOMAIN blocks /\ blocks'[i] = blocks[i]
        BY <1>4, <4>1
      <4> QED BY <3>2, <3>3, <4>2 DEF Latest
    <3> QED BY <3>1, <3>2, <3>3, <3>4
  <2> QED BY <2>1, <2>2
<1> QED BY <1>1, <1>2, <1>5, <1>6 DEF VInv, EndedOK, VerdictRight

(* The end of a test: what it is compared with is what its header says. *)
LEMMA EndStates ==
  ASSUME VInv, CInv', NEW last \in DOMAIN headers, NEW kind \in {"Map", "Hash"},
         EndTest(last, kind)
  PROVE  VInv'
<1>1. /\ UNCHANGED <<headers, blocks, acc>>
      /\ test'.last = last /\ test'.kind = kind
      /\ phase' = IF PostOf(last, kind) = headers[last].stateRoot
                    THEN "passed" ELSE "failed"
  BY DEF EndTest
<1>2. StatesOK'
  BY <1>1 DEF VInv, StatesOK
<1>3. EndedOK' /\ LatestOK'
  BY <1>1 DEF EndedOK, VInv, LatestOK, Latest
<1>4. ASSUME last \in Accepted, kind = "Map" \/ blocks[Len(blocks)].hash = last
      PROVE  PostOf(last, kind) = headers[last].stateRoot
  <2>1. CASE kind = "Map"
    <3>1. PICK i \in DOMAIN blocks : Found(last) = blocks[i] /\ blocks[i].hash = last
      BY <1>4, FoundHasHash DEF VInv, CInv
    <3> QED BY <1>4, <2>1, <3>1 DEF PostOf, VInv, StatesOK
  <2>2. CASE kind = "Hash" /\ blocks[Len(blocks)].hash = last
    <3>1. Len(blocks) \in DOMAIN blocks
      BY DEF VInv, StatesOK, CInv, BlocksOK
    <3> QED BY <2>2, <3>1 DEF PostOf, VInv, StatesOK
  <2> QED BY <1>4, <2>1, <2>2
<1>5. VerdictRight'
  BY <1>1, <1>4 DEF VerdictRight, Accepted, Last
<1> QED BY <1>2, <1>3, <1>5 DEF VInv

LEMMA VInvStep == VInv /\ [Next]_chainVars => VInv'
<1> SUFFICES ASSUME VInv, [Next]_chainVars PROVE VInv'
  OBVIOUS
<1>0. CInv'
  BY ChainStep DEF VInv
<1>1. ASSUME NEW p \in DOMAIN headers, NEW draft \in Drafts,
             NEW expects \in Expectations, TakeNewBlock(p, draft, expects)
      PROVE  VInv'
  <2>1. /\ phase = "idle" /\ UNCHANGED <<blocks, acc, test>>
        /\ \E b : headers' = Append(headers, b)
    BY <1>1 DEF TakeNewBlock, Take
  <2>2. \A h \in DOMAIN headers : headers'[h] = headers[h]
    BY <2>1, AppendFacts DEF VInv, CInv, HeadersOK
  <2> QED BY <1>0, <2>1, <2>2, QuietStep
<1>2. ASSUME NEW h \in DOMAIN headers, NEW expects \in Expectations,
             TakeOldBlock(h, expects)
      PROVE  VInv'
  BY <1>0, <1>2, QuietStep DEF TakeOldBlock, Take
<1>3. ASSUME NEW last \in DOMAIN headers, NEW kind \in {"Map", "Hash"},
             EndTest(last, kind)
      PROVE  VInv'
  BY <1>0, <1>3, EndStates
<1>4. CASE \/ RefuseHeader \/ RefuseTransaction \/ RefuseBlock
           \/ BeginBlock \/ ExecuteTransaction \/ Withdraw
           \/ CatchExpected \/ CatchUnexpected
  <2>1. /\ UNCHANGED <<headers, blocks, acc, test>>
        /\ phase \in {"header", "transactions", "validate", "catch"}
    BY <1>4 DEF RefuseHeader, RefuseTransaction, RefuseBlock, Throw, BeginBlock,
       ExecuteTransaction, Withdraw, CatchExpected, CatchUnexpected, Idle
  <2> QED BY <1>0, <2>1, QuietStep
<1>5. CASE AcceptBlock
  BY <1>0, <1>5, AcceptStates
<1>6. CASE UNCHANGED chainVars
  <2>1. UNCHANGED <<headers, blocks, acc, test, phase>>
    BY <1>6 DEF chainVars
  <2>2. StatesOK' /\ EndedOK' /\ LatestOK'
    BY <2>1 DEF VInv, StatesOK, EndedOK, LatestOK, Latest
  <2>3. VerdictRight'
    BY <2>1 DEF VInv, VerdictRight, Accepted, Last
  <2> QED BY <1>0, <2>2, <2>3 DEF VInv
<1> QED BY <1>1, <1>2, <1>3, <1>4, <1>5, <1>6 DEF Next, Author, Runner

(* A test that names an accepted block and its state passes: given as a    *)
(* map always, as a hash when the block is the last one accepted           *)
(* (preImpliesPost).                                                       *)
THEOREM VerdictIsRight == Spec => []VerdictRight
<1>1. VInv => VerdictRight
  BY DEF VInv
<1> QED BY <1>1, VInvInit, VInvStep, PTL DEF Spec

-----------------------------------------------------------------------------
(* The lineage of a block: what BLOCKHASH is asked about.                  *)

(* Every block but the first is on top of an older one or of none, and     *)
(* does what some draft says.                                              *)
HeadersMade ==
  /\ Len(headers) <= MaxBlocks + 1
  /\ headers[1] = GenesisHeader
  /\ \A h \in DOMAIN headers :
       /\ headers[h].parent \in 0..(h - 1)
       /\ headers[h].number \in 0..(2 * (h - 1))
       /\ h # 1 => \E draft \in Drafts : /\ headers[h].txs = draft.txs
                                       /\ headers[h].withdrawals = draft.withdrawals

(* The accepted blocks start at the genesis block and are linked. *)
LinksOK ==
  /\ Len(blocks) >= 1 /\ blocks[1].hash = 1
  /\ \A i \in 2..Len(blocks) :
       LET b == headers[blocks[i].hash]
       IN  b.parent \in Accepted /\ b.number = headers[b.parent].number + 1

LInv == CInv /\ HeadersMade /\ LinksOK

LEMMA LInvInit == Init => LInv
<1> SUFFICES ASSUME Init PROVE LInv
  OBVIOUS
<1>1. headers = <<GenesisHeader>> /\ blocks = <<[hash |-> 1, sigma |-> Genesis]>>
  BY DEF Init
<1>2. HeadersMade
  BY <1>1, ChainAssumption DEF HeadersMade, NoHash
<1>3. LinksOK
  BY <1>1 DEF LinksOK
<1> QED BY <1>2, <1>3, CInvInit DEF LInv

LEMMA AcceptedIn ==
  ASSUME BlocksOK
  PROVE  \A h \in Accepted : h \in DOMAIN headers
BY DEF BlocksOK, Accepted

LEMMA TakeNewLineage ==
  ASSUME LInv, CInv', NEW p \in DOMAIN headers, NEW draft \in Drafts,
         NEW expects \in Expectations, TakeNewBlock(p, draft, expects)
  PROVE  LInv'
<1>1. PICK b : b = Spoiled(HonestBlock(p, draft.txs, draft.withdrawals), draft.flaw)
  OBVIOUS
<1>2. headers' = Append(headers, b) /\ blocks' = blocks /\ Len(headers) <= MaxBlocks
  BY <1>1 DEF TakeNewBlock, Take
<1>3. /\ Len(headers) \in Nat /\ Len(headers') = Len(headers) + 1
      /\ DOMAIN headers = 1..Len(headers) /\ DOMAIN headers' = 1..(Len(headers) + 1)
      /\ \A h \in DOMAIN headers : headers'[h] = headers[h]
      /\ headers'[Len(headers) + 1] = b
  BY <1>2, AppendFacts DEF LInv, CInv, HeadersOK
<1>4. /\ b.parent \in {p, NoHash}
      /\ b.number \in {headers[p].number + 1, (headers[p].number + 1) + 1}
      /\ b.txs = draft.txs /\ b.withdrawals = draft.withdrawals
  BY <1>1, NewBlockFields
<1>5. p \in 1..Len(headers) /\ headers[p].number \in 0..(2 * (p - 1))
  BY <1>3 DEF LInv, HeadersMade
<1>6. b.parent \in 0..Len(headers) /\ b.number \in 0..(2 * Len(headers))
  BY <1>3, <1>4, <1>5 DEF NoHash
<1>7. HeadersMade'
  <2>1. Len(headers') <= MaxBlocks + 1 /\ headers'[1] = GenesisHeader
    BY <1>2, <1>3, ChainAssumption DEF LInv, HeadersMade, CInv, HeadersOK
  <2>2. ASSUME NEW h \in DOMAIN headers'
        PROVE  /\ headers'[h].parent \in 0..(h - 1)
               /\ headers'[h].number \in 0..(2 * (h - 1))
               /\ h # 1 => \E d \in Drafts : /\ headers'[h].txs = d.txs
                                           /\ headers'[h].withdrawals = d.withdrawals
    <3>1. CASE h \in DOMAIN headers
      BY <1>3, <3>1 DEF LInv, HeadersMade
    <3>2. CASE h = Len(headers) + 1
      BY <1>3, <1>4, <1>6, <3>2
    <3> QED BY <1>3, <3>1, <3>2
  <2> QED BY <2>1, <2>2 DEF HeadersMade
<1>8. LinksOK'
  <2>1. \A h \in Accepted : h \in DOMAIN headers /\ headers'[h] = headers[h]
    BY <1>3, AcceptedIn DEF LInv, CInv
  <2>2. Accepted' = Accepted /\ \A i \in 2..Len(blocks) : blocks[i].hash \in Accepted
    <3>1. DOMAIN blocks = 1..Len(blocks)
      BY DEF LInv, CInv, BlocksOK
    <3> QED BY <1>2, <3>1 DEF Accepted
  <2> QED BY <1>2, <2>1, <2>2 DEF LInv, LinksOK
<1> QED BY <1>7, <1>8 DEF LInv

LEMMA AcceptLineage ==
  ASSUME LInv, CInv', AcceptBlock
  PROVE  LInv'
<1>1. PICK entry : entry = [hash |-> current.hash, sigma |-> work.accountMap]
  OBVIOUS
<1>2. /\ blocks' = Append(blocks, entry) /\ headers' = headers
      /\ phase = "validate" /\ LateError = NoException
  BY <1>1 DEF AcceptBlock
<1>3. /\ Len(blocks) \in Nat /\ DOMAIN blocks = 1..Len(blocks)
      /\ DOMAIN blocks' = 1..(Len(blocks) + 1) /\ Len(blocks') = Len(blocks) + 1
      /\ \A i \in 1..Len(blocks) : blocks'[i] = blocks[i]
      /\ blocks'[Len(blocks) + 1] = entry
  <2>1. \E S : blocks \in Seq(S)
    BY DEF LInv, CInv, BlocksOK
  <2> QED BY <1>2, <2>1, AppendFacts
<1>4. headers[entry.hash] = Block
  BY <1>1 DEF Block
<1>5. Block.parent \in Accepted /\ Block.number = headers[Block.parent].number + 1
  BY <1>2, LateErrorNone DEF LInv, CInv, InHandOK
<1>6. Accepted \subseteq Accepted'
  BY <1>3 DEF Accepted
<1>7. LinksOK'
  <2>1. Len(blocks') >= 1 /\ blocks'[1].hash = 1
    BY <1>3 DEF LInv, LinksOK
  <2>2. ASSUME NEW i \in 2..Len(blocks')
        PROVE  /\ headers[blocks'[i].hash].parent \in Accepted'
               /\ headers[blocks'[i].hash].number
                    = headers[headers[blocks'[i].hash].parent].number + 1
    <3>1. CASE i \in 2..Len(blocks)
      BY <1>3, <1>6, <3>1 DEF LInv, LinksOK
    <3>2. CASE i = Len(blocks) + 1
      BY <1>3, <1>4, <1>5, <1>6, <3>2
    <3> QED BY <1>3, <3>1, <3>2
  <2> QED BY <1>2, <2>1, <2>2 DEF LinksOK
<1> QED BY <1>2, <1>7 DEF LInv, HeadersMade

(* Only these two steps change the headers or the accepted blocks. *)
LEMMA OtherSteps ==
  ASSUME [Next]_chainVars,
         ~\E p \in DOMAIN headers, draft \in Drafts, expects \in Expectations :
            TakeNewBlock(p, draft, expects),
         ~AcceptBlock
  PROVE  UNCHANGED <<headers, blocks>>
<1>1. ASSUME NEW h \in DOMAIN headers, NEW expects \in Expectations,
             TakeOldBlock(h, expects)
      PROVE  UNCHANGED <<headers, blocks>>
  BY <1>1 DEF TakeOldBlock, Take
<1>2. ASSUME NEW last, NEW kind, EndTest(last, kind)
      PROVE  UNCHANGED <<headers, blocks>>
  BY <1>2 DEF EndTest
<1>3. CASE RefuseHeader \/ RefuseTransaction \/ RefuseBlock
  BY <1>3 DEF RefuseHeader, RefuseTransaction, RefuseBlock, Throw
<1>4. CASE \/ BeginBlock \/ ExecuteTransaction \/ Withdraw
           \/ CatchExpected \/ CatchUnexpected \/ UNCHANGED chainVars
  BY <1>4 DEF BeginBlock, ExecuteTransaction, Withdraw, CatchExpected,
     CatchUnexpected, chainVars
<1> QED BY <1>1, <1>2, <1>3, <1>4 DEF Next, Author, Runner

LEMMA LInvStep == LInv /\ [Next]_chainVars => LInv'
<1> SUFFICES ASSUME LInv, [Next]_chainVars PROVE LInv'
  OBVIOUS
<1>1. CInv'
  BY ChainStep DEF LInv
<1>2. ASSUME UNCHANGED <<headers, blocks>> PROVE LInv'
  BY <1>1, <1>2 DEF LInv, HeadersMade, LinksOK, Accepted
<1> QED BY <1>1, <1>2, OtherSteps, TakeNewLineage, AcceptLineage

(* The ancestors of number n of the headers hs, as AncestorAt walks them. *)
AncestorsOf(hs, n) ==
  CHOOSE walk :
    walk = [g \in DOMAIN hs |-> IF hs[g].number <= n \/ hs[g].parent = NoHash
                                   THEN g ELSE walk[hs[g].parent]]

(* Parents are older. *)
Older(hs) ==
  /\ Len(hs) \in Nat /\ DOMAIN hs = 1..Len(hs)
  /\ \A g \in DOMAIN hs : hs[g].parent \in 0..(g - 1)

LEMMA HeadersOlder == LInv => Older(headers)
BY AppendFacts DEF LInv, CInv, HeadersOK, HeadersMade, Older

LEMMA AncestorAtIs ==
  ASSUME NEW g, NEW n
  PROVE  AncestorAt(g, n) = AncestorsOf(headers, n)[g]
BY DEF AncestorAt, AncestorsOf

(* The walk to an ancestor is what its recursion says, and ends at a block. *)
LEMMA AncestorWalk ==
  ASSUME NEW hs, Older(hs), NEW n, NEW g \in DOMAIN hs
  PROVE  /\ AncestorsOf(hs, n)[g] \in DOMAIN hs
         /\ AncestorsOf(hs, n)[g] =
              IF hs[g].number <= n \/ hs[g].parent = NoHash
                THEN g ELSE AncestorsOf(hs, n)[hs[g].parent]
<1> DEFINE I == DOMAIN hs
           Walks(w) == w = [h \in I |->
             IF hs[h].number <= n \/ hs[h].parent = NoHash
               THEN h ELSE w[hs[h].parent]]
           stops == {h \in I : hs[h].number <= n \/ hs[h].parent = NoHash}
           up    == [h \in I |-> hs[h].parent]
           id    == [h \in I |-> h]
           step  == [q \in I \X I |-> q[2]]
<1>1. I = 1..Len(hs) /\ Len(hs) \in Nat
  BY DEF Older
<1>2. \A h \in I : h \notin stops => up[h] \in I /\ up[h] < h
  <2> SUFFICES ASSUME NEW h \in I, h \notin stops
               PROVE  hs[h].parent \in I /\ hs[h].parent < h
    OBVIOUS
  <2>1. hs[h].parent \in 0..(h - 1) /\ hs[h].parent # NoHash
    BY DEF Older
  <2> HIDE DEF I
  <2> QED BY <1>1, <2>1 DEF NoHash
<1>3. id \in [I -> 0..Len(hs)] /\ id \in [I -> I] /\ step \in [I \X I -> I]
  BY <1>1
<1>4. Descends(I, stops, up, id)
  BY <1>1, <1>2 DEF Descends
<1>5. \E f \in [I -> I] : Recurses(f, I, stops, id, up, step)
  <2> HIDE DEF I, stops, up, id, step
  <2> QED BY <1>1, <1>3, <1>4, Recursion
<1>6. PICK f \in [I -> I] : Recurses(f, I, stops, id, up, step)
  BY <1>5
<1>7. \A h \in I : f[h] = IF hs[h].number <= n \/ hs[h].parent = NoHash
                           THEN h ELSE f[hs[h].parent]
  <2> SUFFICES ASSUME NEW h \in I
               PROVE  f[h] = IF hs[h].number <= n \/ hs[h].parent = NoHash
                               THEN h ELSE f[hs[h].parent]
    OBVIOUS
  <2>1. f[h] = IF h \in stops THEN id[h] ELSE step[<<h, f[up[h]]>>]
    BY <1>6 DEF Recurses
  <2>2. CASE h \in stops
    BY <2>1, <2>2
  <2>3. CASE h \notin stops
    <3>1. up[h] \in I /\ f[up[h]] \in I
      BY <1>2, <2>3
    <3>2. step[<<h, f[up[h]]>>] = f[up[h]]
      BY <3>1
    <3> QED BY <2>1, <2>3, <3>2
  <2> QED BY <2>2, <2>3
<1>8. Walks(f)
  <2>1. f = [h \in I |-> f[h]]
    OBVIOUS
  <2> QED BY <1>7, <2>1
<1>9. PICK w : w = CHOOSE v : Walks(v)
  OBVIOUS
<1>10. Walks(w)
  BY <1>8, <1>9
<1>11. AncestorsOf(hs, n) = w
  BY <1>9 DEF AncestorsOf
<1>12. w[g] = IF hs[g].number <= n \/ hs[g].parent = NoHash THEN g ELSE w[hs[g].parent]
  BY <1>10
<1>13. \A h \in I : w[h] \in I
  <2> DEFINE Bad == {h \in I : w[h] \notin I}
  <2> SUFFICES ASSUME Bad # {} PROVE FALSE
    OBVIOUS
  <2>1. PICK h \in Bad : \A m \in Bad : h <= m
    <3>1. Bad \subseteq Nat
      BY <1>1
    <3> HIDE DEF Bad
    <3> QED BY <3>1, LeastNumber
  <2>2. h \in I /\ w[h] \notin I
    OBVIOUS
  <2>3. w[h] = IF hs[h].number <= n \/ hs[h].parent = NoHash THEN h ELSE w[hs[h].parent]
    BY <1>10, <2>2
  <2>4. h \notin stops
    BY <2>2, <2>3
  <2>5. hs[h].parent \in I /\ hs[h].parent < h
    BY <1>2, <2>2, <2>4
  <2>6. hs[h].parent \notin Bad
    <3>1. h \in Nat /\ hs[h].parent \in Nat
      BY <1>1, <2>2, <2>5
    <3> HIDE DEF Bad
    <3> QED BY <2>1, <2>5, <3>1
  <2> QED BY <2>2, <2>3, <2>5, <2>6
<1> QED BY <1>11, <1>12, <1>13

(* On a line of accepted blocks the position of a block is its number. *)
LEMMA LineNumbers ==
  ASSUME LInv, LinearChain
  PROVE  \A i \in 1..Len(blocks) : headers[blocks[i].hash].number = i - 1
<1> DEFINE Bad == {i \in 1..Len(blocks) : headers[blocks[i].hash].number # i - 1}
<1> SUFFICES ASSUME Bad # {} PROVE FALSE
  OBVIOUS
<1>1. PICK i \in Bad : \A j \in Bad : i <= j
  <2>1. Bad \subseteq Nat
    OBVIOUS
  <2> HIDE DEF Bad
  <2> QED BY <2>1, LeastNumber
<1>2. i # 1
  BY ChainAssumption DEF LInv, LinksOK, HeadersMade
<1>3. i \in 2..Len(blocks) /\ i - 1 \in 1..Len(blocks) /\ i - 1 \notin Bad
  BY <1>1, <1>2
<1>4. headers[blocks[i].hash].number = headers[blocks[i - 1].hash].number + 1
  BY <1>3 DEF LinearChain, LInv, LinksOK
<1>5. headers[blocks[i - 1].hash].number = (i - 1) - 1
  BY <1>3
<1> QED BY <1>3, <1>4, <1>5

(* There the walk from the last block passes every block of the line. *)
LEMMA LineAncestors ==
  ASSUME LInv, LinearChain, NEW n \in Nat, n < Len(blocks)
  PROVE  AncestorAt(blocks[Len(blocks)].hash, n) = blocks[n + 1].hash
<1>1. PICK w : \A g \in DOMAIN headers :
        /\ AncestorAt(g, n) = w[g]
        /\ w[g] = IF headers[g].number <= n \/ headers[g].parent = NoHash
                    THEN g ELSE w[headers[g].parent]
  BY HeadersOlder, AncestorWalk, AncestorAtIs
<1>2. DOMAIN blocks = 1..Len(blocks) /\ Len(blocks) \in Nat
      /\ \A i \in 1..Len(blocks) : blocks[i].hash \in DOMAIN headers
  BY AppendFacts DEF LInv, CInv, BlocksOK
<1> DEFINE Bad == {i \in (n + 1)..Len(blocks) : w[blocks[i].hash] # blocks[n + 1].hash}
<1>3. Bad = {}
  <2> SUFFICES ASSUME Bad # {} PROVE FALSE
    OBVIOUS
  <2>1. PICK i \in Bad : \A j \in Bad : i <= j
    <3>1. Bad \subseteq Nat
      BY <1>2
    <3> HIDE DEF Bad
    <3> QED BY <3>1, LeastNumber
  <2>2. i \in 1..Len(blocks) /\ headers[blocks[i].hash].number = i - 1
    BY <1>2, LineNumbers
  <2>3. i # n + 1
    <3> SUFFICES ASSUME i = n + 1 PROVE FALSE
      OBVIOUS
    <3>1. headers[blocks[i].hash].number <= n
      BY <2>2
    <3>2. w[blocks[i].hash] = blocks[i].hash
      BY <1>1, <1>2, <2>2, <3>1
    <3> QED BY <3>2
  <2>4. i \in 2..Len(blocks) /\ i - 1 \in (n + 1)..Len(blocks) /\ i - 1 \in 1..Len(blocks)
    BY <1>2, <2>3
  <2>5. headers[blocks[i].hash].parent = blocks[i - 1].hash
    BY <2>4 DEF LinearChain
  <2>6. ~(headers[blocks[i].hash].number <= n) /\ blocks[i - 1].hash # NoHash
    <3>1. blocks[i - 1].hash \in DOMAIN headers /\ DOMAIN headers = 1..Len(headers)
      BY <1>2, <2>4, AppendFacts DEF LInv, CInv, HeadersOK
    <3> QED BY <2>2, <2>3, <3>1 DEF NoHash
  <2>7. w[blocks[i].hash] = w[blocks[i - 1].hash]
    BY <1>1, <1>2, <2>2, <2>5, <2>6
  <2>8. i - 1 \notin Bad
    BY <2>1, <2>4
  <2> QED BY <2>4, <2>7, <2>8
<1>4. Len(blocks) \in (n + 1)..Len(blocks)
  BY <1>2
<1> QED BY <1>1, <1>2, <1>3, <1>4

(* BLOCKHASH is right while there is neither a fork nor a repetition among *)
(* the accepted blocks: the positions it looks up are block numbers then.  *)
THEOREM HashIsAncestor == Spec => []HashOnLinearChain
<1>1. LInv => HashOnLinearChain
  <2> SUFFICES ASSUME LInv, LinearChain, NEW n \in 0..MaxBlocks,
                      Block.parent = Last(blocks).hash,
                      Block.number = headers[Block.parent].number + 1
               PROVE  BlockHash(Block.number, n) = AncestorHash(Block, n)
    BY DEF HashOnLinearChain
  <2>1. DOMAIN blocks = 1..Len(blocks) /\ Len(blocks) \in Nat /\ Len(blocks) >= 1
    BY AppendFacts DEF LInv, CInv, BlocksOK, LinksOK
  <2>2. Block.parent = blocks[Len(blocks)].hash
    BY DEF Last
  <2>3. headers[Block.parent].number = Len(blocks) - 1
    BY <2>1, <2>2, LineNumbers
  <2>4. Block.number = Len(blocks) /\ n \in Nat
    BY <2>1, <2>3
  <2>5. CASE Len(blocks) <= n \/ n + HashWindow < Len(blocks)
    BY <2>4, <2>5 DEF BlockHash, AncestorHash
  <2>6. CASE ~(Len(blocks) <= n \/ n + HashWindow < Len(blocks))
    <3>1. n < Len(blocks) /\ ~(n >= Len(blocks))
      BY <2>1, <2>4, <2>6
    <3>2. AncestorAt(Block.parent, n) = blocks[n + 1].hash
      BY <2>2, <2>4, <3>1, LineAncestors
    <3> QED BY <2>4, <2>6, <3>1, <3>2 DEF BlockHash, AncestorHash
  <2> QED BY <2>5, <2>6
<1> QED BY <1>1, LInvInit, LInvStep, PTL DEF Spec

-----------------------------------------------------------------------------
(* The gas of a block *)

GasOfTxs(txs) ==
  /\ txs \in Seq(TxRecord)
  /\ Len(txs) \in Nat /\ DOMAIN txs = 1..Len(txs)
  /\ \A n \in DOMAIN txs :
       /\ txs[n].gasUsed \in Nat /\ txs[n].gasLimit \in Nat
       /\ txs[n].gasUsed <= txs[n].gasLimit

GasTyped ==
  \A h \in DOMAIN headers : headers[h].gasLimit \in Int /\ GasOfTxs(headers[h].txs)

StateFields == {"accountMap", "gasUsed", "receipts", "logs"}

FieldsOK == DOMAIN acc = StateFields /\ DOMAIN work = StateFields

(* The gas of the block in hand so far, and its receipts. *)
GasSoFar ==
  /\ \E S : work.receipts \in Seq(S)
  /\ next \in Nat /\ Len(work.receipts) = next - 1
  /\ next >= 1 /\ next <= Len(Block.txs) + 1
  /\ \A n \in 1..(next - 1) :
       /\ work.receipts[n].gas \in Nat
       /\ work.receipts[n].gas =
            Block.txs[n].gasUsed + (IF n = 1 THEN 0 ELSE work.receipts[n - 1].gas)
  /\ work.gasUsed = IF next = 1 THEN 0 ELSE work.receipts[next - 1].gas
  /\ work.gasUsed <= Block.gasLimit

InHandGas ==
  /\ phase = "header" => next = 1
  /\ phase \in {"transactions", "validate"} => GasSoFar

AcceptedGas ==
  \A i \in 2..Len(blocks) :
    headers[blocks[i].hash].gasUsed <= headers[blocks[i].hash].gasLimit

GInv == CInv /\ GasTyped /\ FieldsOK /\ InHandGas /\ AcceptedGas

-----------------------------------------------------------------------------
(* What the checks of the code say of gas and fees, when they pass *)

LEMMA HeaderChecks ==
  ASSUME NEW parent, NEW b, HeaderError(parent, b) = NoException
  PROVE  /\ ~(b.gasLimit < 5000)
         /\ ~(b.gasLimit >= parent.gasLimit + parent.gasLimit \div 1024)
         /\ b.baseFee = ExpectedBaseFee(parent)
<1> DEFINE slack  == parent.gasLimit \div 1024
           checks ==
             << Check(\/ b.gasLimit < 5000
                      \/ b.gasLimit >= parent.gasLimit + slack
                      \/ b.gasLimit <= parent.gasLimit - slack, "INVALID_GASLIMIT"),
                Check(b.baseFee # ExpectedBaseFee(parent), "INVALID_BASEFEE_PER_GAS")>>
<1>1. FirstError(checks) = NoException
  BY DEF HeaderError
<1>2. DOMAIN checks = 1..2 /\ DOMAIN checks \subseteq Nat
  OBVIOUS
<1>3. \A i \in DOMAIN checks : checks[i].error # NoException
  BY DEF Check, NoException
<1> HIDE DEF checks
<1>4. ~checks[1].bad /\ ~checks[2].bad
  BY <1>1, <1>2, <1>3, NoError
<1>5. checks[2].bad <=> b.baseFee # ExpectedBaseFee(parent)
  BY DEF checks, Check
<1>6. checks[1].bad <=> (\/ b.gasLimit < 5000
                         \/ b.gasLimit >= parent.gasLimit + slack
                         \/ b.gasLimit <= parent.gasLimit - slack)
  BY DEF checks, Check
<1> QED BY <1>4, <1>5, <1>6

LEMMA EarlyChecks ==
  ASSUME EarlyError = NoException
  PROVE  HeaderError(headers[Block.parent], Block) = NoException
BY DEF EarlyError, NoException

LEMMA TransactionChecks ==
  ASSUME NEW s, NEW b, NEW T, TransactionError(s, b, T) = NoException
  PROVE  LET sender == AccountAt(s.accountMap, T.sender)
         IN  /\ ~(T.gasLimit + s.gasUsed > b.gasLimit)
             /\ ~(b.baseFee > T.price)
             /\ sender.code = NoCode
             /\ ~(T.nonce < sender.nonce) /\ ~(T.nonce > sender.nonce)
             /\ ~(WordAdd(WordMul(T.gasLimit, T.price), T.value) > sender.balance)
<1> DEFINE sender == AccountAt(s.accountMap, T.sender)
           checks == <<
             Check(T.gasLimit + s.gasUsed > b.gasLimit, "GAS_ALLOWANCE_EXCEEDED"),
             Check(b.baseFee > T.price, "INSUFFICIENT_MAX_FEE_PER_GAS"),
             Check(sender.code # NoCode, "SENDER_NOT_EOA"),
             Check(T.nonce < sender.nonce, "NONCE_MISMATCH_TOO_LOW"),
             Check(T.nonce > sender.nonce, "NONCE_MISMATCH_TOO_HIGH"),
             Check(WordAdd(WordMul(T.gasLimit, T.price), T.value) > sender.balance,
                   "INSUFFICIENT_ACCOUNT_FUNDS")>>
<1>1. FirstError(checks) = NoException
  BY DEF TransactionError
<1>2. DOMAIN checks = 1..6 /\ DOMAIN checks \subseteq Nat
  OBVIOUS
<1>3. \A i \in DOMAIN checks : checks[i].error # NoException
  BY DEF Check, NoException
<1> HIDE DEF checks
<1>4. \A i \in 1..6 : ~checks[i].bad
  BY <1>1, <1>2, <1>3, NoError
<1>5. /\ ~checks[1].bad /\ ~checks[2].bad /\ ~checks[3].bad
      /\ ~checks[4].bad /\ ~checks[5].bad /\ ~checks[6].bad
  BY <1>4
<1> QED BY <1>5 DEF checks, Check

LEMMA GasOfRecords ==
  ASSUME NEW txs \in Seq(TxRecord), \A n \in DOMAIN txs : txs[n].gasUsed <= txs[n].gasLimit
  PROVE  GasOfTxs(txs)
<1>1. \A n \in DOMAIN txs : txs[n] \in TxRecord
  OBVIOUS
<1>2. \A n \in DOMAIN txs : txs[n].gasUsed \in Nat /\ txs[n].gasLimit \in Nat
  BY <1>1 DEF TxRecord
<1> QED BY <1>2 DEF GasOfTxs

-----------------------------------------------------------------------------
(* The invariant is inductive *)

LEMMA GInvInit == Init => GInv
<1> SUFFICES ASSUME Init PROVE GInv
  OBVIOUS
<1>1. /\ headers = <<GenesisHeader>> /\ blocks = <<[hash |-> 1, sigma |-> Genesis]>>
      /\ acc = [accountMap |-> Genesis, gasUsed |-> 0, receipts |-> <<>>, logs |-> {}]
      /\ work = acc /\ phase = "idle"
  BY DEF Init
<1>2. GasTyped
  <2>1. GasOfTxs(GenesisHeader.txs) /\ GenesisHeader.gasLimit \in Int
    BY GasAssumption, ChainAssumption, GasOfRecords
  <2>2. \A h \in DOMAIN headers : headers[h] = GenesisHeader
    BY <1>1
  <2> QED BY <2>1, <2>2 DEF GasTyped
<1>3. FieldsOK
  BY <1>1 DEF FieldsOK, StateFields
<1>4. AcceptedGas
  BY <1>1 DEF AcceptedGas
<1> QED BY <1>1, <1>2, <1>3, <1>4, CInvInit DEF GInv, InHandGas

(* A block that is taken in hand. *)
LEMMA TakenGas ==
  ASSUME GInv, CInv', phase' = "header", next' = 1, UNCHANGED <<blocks, acc, work>>,
         GasTyped', \A h \in DOMAIN headers : headers'[h] = headers[h]
  PROVE  GInv'
<1>1. AcceptedGas'
  <2>1. \A i \in 2..Len(blocks) : blocks[i].hash \in DOMAIN headers
    BY DEF GInv, CInv, BlocksOK
  <2> QED BY <2>1 DEF GInv, AcceptedGas
<1> QED BY <1>1 DEF GInv, FieldsOK, InHandGas

(* A step of the runner that accepts no block. *)
LEMMA WorkGas ==
  ASSUME GInv, CInv', UNCHANGED <<headers, blocks>>, FieldsOK',
         phase' # "header",
         phase' \in {"transactions", "validate"} => GasSoFar'
  PROVE  GInv'
BY DEF GInv, GasTyped, InHandGas, AcceptedGas

LEMMA BeginGas ==
  ASSUME GInv, CInv', BeginBlock
  PROVE  GInv'
<1>1. /\ UNCHANGED <<headers, blocks, acc, current, next>>
      /\ phase = "header" /\ phase' = "transactions" /\ EarlyError = NoException
      /\ work' = [acc EXCEPT !.accountMap = BeaconCall(Found(Block.parent).sigma, Block),
                             !.gasUsed = 0,
                             !.receipts = <<>>]
  BY DEF BeginBlock
<1>2. /\ DOMAIN work' = StateFields /\ work'.gasUsed = 0 /\ work'.receipts = <<>>
  BY <1>1 DEF GInv, FieldsOK, StateFields
<1>3. Block.gasLimit \in Int /\ Block.gasLimit >= 0 /\ GasOfTxs(Block.txs)
  BY <1>1, EarlyChecks, HeaderChecks DEF GInv, GasTyped, CInv, InHandOK, Block
<1>4. Block' = Block
  BY <1>1 DEF Block
<1>5. next = 1
  BY <1>1 DEF GInv, InHandGas
<1> QED BY <1>1, <1>2, <1>3, <1>4, <1>5, WorkGas DEF GasSoFar, FieldsOK, GInv, GasOfTxs

(* The n-th element is appended to a sequence. *)
LEMMA AppendNth ==
  ASSUME NEW rs, NEW e, NEW rs1, rs1 = Append(rs, e),
         NEW n \in Nat, n >= 1, \E S : rs \in Seq(S), Len(rs) = n - 1
  PROVE  /\ \E S : rs1 \in Seq(S)
         /\ Len(rs1) = n
         /\ \A i \in 1..(n - 1) : rs1[i] = rs[i]
         /\ rs1[n] = e
<1>1. \E S : rs1 \in Seq(S)
  BY AppendFacts
<1>2. Len(rs1) = Len(rs) + 1
  BY AppendFacts
<1>3. DOMAIN rs = 1..Len(rs)
  BY AppendFacts
<1>4. \A i \in DOMAIN rs : rs1[i] = rs[i]
  BY AppendFacts
<1>5. rs1[Len(rs) + 1] = e
  BY AppendFacts
<1>6. Len(rs) + 1 = n
  OBVIOUS
<1> QED BY <1>1, <1>2, <1>3, <1>4, <1>5, <1>6

(* A transaction fits in what the block has left, and uses no more. *)
LEMMA ExecuteGas ==
  ASSUME GInv, CInv', ExecuteTransaction
  PROVE  GInv'
<1> DEFINE T     == Block.txs[next]
           seen  == BlockHash(Block.number, T.asks)
           total == work.gasUsed + T.gasUsed
           entry == [ok |-> ~T.fails, gas |-> total, logs |-> LogsOf(T)]
<1>1. /\ UNCHANGED <<headers, blocks, acc, current, phase>>
      /\ phase = "transactions" /\ next <= Len(Block.txs) /\ next' = next + 1
      /\ TransactionError(work, Block, T) = NoException
      /\ work' = [accountMap |-> Upsilon(work.accountMap, Block, T, seen),
                  gasUsed    |-> total,
                  receipts   |-> Append(work.receipts, entry),
                  logs       |-> LogsOf(T)]
  BY DEF ExecuteTransaction, Transaction, Executed
<1>2. GasSoFar /\ Block.gasLimit \in Int /\ GasOfTxs(Block.txs)
  BY <1>1 DEF GInv, InHandGas, GasTyped, CInv, InHandOK, Block
<1>3. FieldsOK'
  BY <1>1 DEF GInv, FieldsOK, StateFields
<1>4. next \in DOMAIN Block.txs /\ next \in Nat /\ next >= 1
  BY <1>1, <1>2 DEF GasSoFar, GasOfTxs
<1>5. T.gasUsed \in Nat /\ T.gasLimit \in Nat /\ T.gasUsed <= T.gasLimit
  BY <1>2, <1>4 DEF GasOfTxs
<1>6. ~(T.gasLimit + work.gasUsed > Block.gasLimit)
  BY <1>1, TransactionChecks
<1>7. work.gasUsed \in Nat
  BY <1>2, <1>4 DEF GasSoFar
<1> HIDE DEF T, seen
<1>8. total \in Nat /\ total <= Block.gasLimit
  BY <1>2, <1>5, <1>6, <1>7
<1>9. total = T.gasUsed + (IF next = 1 THEN 0 ELSE work.receipts[next - 1].gas)
  BY <1>2, <1>5, <1>7 DEF GasSoFar
<1>10. entry.gas = total
  OBVIOUS
<1> HIDE DEF total, entry
<1>11. PICK rs, rs1, e :
         rs = work.receipts /\ e = entry /\ rs1 = Append(rs, e)
  OBVIOUS
<1>12. work'.receipts = rs1 /\ work'.gasUsed = total /\ e.gas = total
  BY <1>1, <1>10, <1>11
<1>13. /\ \E S : rs1 \in Seq(S)
       /\ Len(rs1) = next
       /\ \A i \in 1..(next - 1) : rs1[i] = rs[i]
       /\ rs1[next] = e
  <2>1. (\E S : rs \in Seq(S)) /\ Len(rs) = next - 1
    BY <1>2, <1>11 DEF GasSoFar
  <2>2. rs1 = Append(rs, e)
    BY <1>11
  <2> QED BY <2>1, <2>2, <1>4, AppendNth
<1>14. Block' = Block
  BY <1>1 DEF Block
<1>15. ASSUME NEW n \in 1..next
       PROVE  /\ rs1[n].gas \in Nat
              /\ rs1[n].gas =
                   Block.txs[n].gasUsed + (IF n = 1 THEN 0 ELSE rs1[n - 1].gas)
  <2>1. n # 1 => rs1[n - 1] = rs[n - 1]
    BY <1>4, <1>13
  <2>2. CASE n \in 1..(next - 1)
    <3>1. rs1[n] = rs[n]
      BY <1>13, <2>2
    <3>2. /\ rs[n].gas \in Nat
          /\ rs[n].gas = Block.txs[n].gasUsed + (IF n = 1 THEN 0 ELSE rs[n - 1].gas)
      BY <2>2, <1>2, <1>11 DEF GasSoFar
    <3> QED BY <2>1, <3>1, <3>2
  <2>3. CASE n = next
    <3>1. rs1[n].gas = total
      BY <2>3, <1>12, <1>13
    <3>2. n # 1 => rs1[n - 1] = work.receipts[next - 1]
      BY <2>1, <2>3, <1>11
    <3>3. Block.txs[n].gasUsed = T.gasUsed
      BY <2>3 DEF T
    <3>4. total = T.gasUsed + (IF n = 1 THEN 0 ELSE rs1[n - 1].gas)
      BY <1>9, <2>3, <3>2
    <3> QED BY <1>8, <3>1, <3>3, <3>4
  <2> QED BY <1>4, <2>2, <2>3
<1>16. GasSoFar'
  <2>1. next' - 1 = next /\ next' # 1 /\ next' \in Nat /\ next' >= 1
    BY <1>1, <1>4
  <2>2. next' <= Len(Block.txs) + 1
    BY <1>1, <1>2, <1>4 DEF GasOfTxs
  <2>3. work'.gasUsed = work'.receipts[next' - 1].gas /\ work'.gasUsed <= Block.gasLimit
    BY <1>8, <1>12, <1>13, <2>1
  <2> QED BY <1>12, <1>13, <1>14, <1>15, <2>1, <2>2, <2>3 DEF GasSoFar
<1> QED BY <1>1, <1>3, <1>16, WorkGas

LEMMA WithdrawGas ==
  ASSUME GInv, CInv', Withdraw
  PROVE  GInv'
<1>1. /\ UNCHANGED <<headers, blocks, acc, current, next>>
      /\ phase = "transactions" /\ phase' = "validate"
      /\ work' = [work EXCEPT !.accountMap = ApplyWithdrawals(@, Block.withdrawals)]
  BY DEF Withdraw
<1>2. /\ DOMAIN work' = StateFields
      /\ work'.gasUsed = work.gasUsed /\ work'.receipts = work.receipts
  BY <1>1 DEF GInv, FieldsOK, StateFields
<1>3. GasSoFar /\ Block' = Block
  BY <1>1 DEF GInv, InHandGas, Block
<1>4. GasSoFar'
  BY <1>1, <1>2, <1>3 DEF GasSoFar
<1> QED BY <1>1, <1>2, <1>4, WorkGas DEF FieldsOK, GInv

(* An accepted block has used what its header says, within its limit. *)
LEMMA AcceptGas ==
  ASSUME GInv, CInv', AcceptBlock
  PROVE  GInv'
<1> PICK entry : entry = [hash |-> current.hash, sigma |-> work.accountMap]
  OBVIOUS
<1>1. /\ blocks' = Append(blocks, entry) /\ headers' = headers
      /\ acc' = work /\ work' = work
      /\ phase = "validate" /\ phase' = "idle" /\ LateError = NoException
  BY DEF AcceptBlock, Idle
<1>2. headers[entry.hash].gasUsed <= headers[entry.hash].gasLimit
  <2>1. work.gasUsed <= Block.gasLimit
    BY <1>1 DEF GInv, InHandGas, GasSoFar
  <2> QED BY <1>1, <2>1, LateErrorNone DEF Block
<1>3. /\ Len(blocks) \in Nat /\ DOMAIN blocks = 1..Len(blocks)
      /\ Len(blocks') = Len(blocks) + 1
      /\ \A i \in 1..Len(blocks) : blocks'[i] = blocks[i]
      /\ blocks'[Len(blocks) + 1] = entry
  <2>1. \E S : blocks \in Seq(S)
    BY DEF GInv, CInv, BlocksOK
  <2> QED BY <1>1, <2>1, AppendFacts
<1>4. AcceptedGas'
  <2> SUFFICES ASSUME NEW i \in 2..(Len(blocks) + 1)
               PROVE  headers[blocks'[i].hash].gasUsed <= headers[blocks'[i].hash].gasLimit
    BY <1>1, <1>3 DEF AcceptedGas
  <2>1. CASE i \in 2..Len(blocks)
    BY <2>1, <1>3 DEF GInv, AcceptedGas
  <2>2. CASE i = Len(blocks) + 1
    BY <2>2, <1>2, <1>3
  <2> QED BY <1>3, <2>1, <2>2
<1> QED BY <1>1, <1>4 DEF GInv, GasTyped, FieldsOK, InHandGas

LEMMA GInvStep == GInv /\ [Next]_chainVars => GInv'
<1> SUFFICES ASSUME GInv, [Next]_chainVars PROVE GInv'
  OBVIOUS
<1>0. CInv'
  BY ChainStep DEF GInv
<1>1. ASSUME NEW p \in DOMAIN headers, NEW draft \in Drafts,
             NEW expects \in Expectations, TakeNewBlock(p, draft, expects)
      PROVE  GInv'
  <2> DEFINE b == Spoiled(HonestBlock(p, draft.txs, draft.withdrawals), draft.flaw)
  <2>1. /\ phase' = "header" /\ next' = 1 /\ UNCHANGED <<blocks, acc, work>>
        /\ headers' = Append(headers, b)
    BY <1>1 DEF TakeNewBlock, Take
  <2>2. b.gasLimit \in Int /\ GasOfTxs(b.txs)
    <3>1. headers[p].gasLimit \in Int
      BY DEF GInv, GasTyped
    <3>2. b.gasLimit \in Int /\ b.txs = draft.txs
      BY <3>1, NewBlockFields
    <3>3. GasOfTxs(draft.txs)
      BY GasAssumption, DraftAssumption, GasOfRecords
    <3> QED BY <3>2, <3>3
  <2> HIDE DEF b
  <2>3. /\ DOMAIN headers = 1..Len(headers) /\ Len(headers) \in Nat
        /\ DOMAIN headers' = 1..(Len(headers) + 1)
        /\ \A h \in DOMAIN headers : headers'[h] = headers[h]
        /\ headers'[Len(headers) + 1] = b
    BY <2>1, AppendFacts DEF GInv, CInv, HeadersOK
  <2>4. GasTyped'
    BY <2>2, <2>3 DEF GInv, GasTyped
  <2> QED BY <1>0, <2>1, <2>3, <2>4, TakenGas
<1>2. ASSUME NEW h \in DOMAIN headers, NEW expects \in Expectations,
             TakeOldBlock(h, expects)
      PROVE  GInv'
  <2>1. /\ phase' = "header" /\ next' = 1 /\ UNCHANGED <<headers, blocks, acc, work>>
    BY <1>2 DEF TakeOldBlock, Take
  <2>2. GasTyped'
    BY <2>1 DEF GInv, GasTyped
  <2> QED BY <1>0, <2>1, <2>2, TakenGas
<1>3. ASSUME NEW last, NEW kind, EndTest(last, kind)
      PROVE  GInv'
  <2>1. UNCHANGED <<headers, blocks, acc, work>> /\ phase' \in {"passed", "failed"}
    BY <1>3 DEF EndTest
  <2> QED BY <1>0, <2>1, WorkGas DEF FieldsOK, GInv
<1>4. CASE RefuseHeader \/ RefuseTransaction \/ RefuseBlock
  <2>1. UNCHANGED <<headers, blocks, acc, work>> /\ phase' = "catch"
    BY <1>4 DEF RefuseHeader, RefuseTransaction, RefuseBlock, Throw
  <2> QED BY <1>0, <2>1, WorkGas DEF FieldsOK, GInv
<1>5. CASE CatchExpected \/ CatchUnexpected
  <2>1. /\ UNCHANGED <<headers, blocks, acc>> /\ phase' \in {"idle", "failed"}
        /\ work' = acc \/ work' = work
    BY <1>5 DEF CatchExpected, CatchUnexpected, Idle
  <2> QED BY <1>0, <2>1, WorkGas DEF FieldsOK, GInv
<1>6. CASE UNCHANGED chainVars
  <2>1. UNCHANGED <<headers, blocks, acc, work, current, next, phase>>
    BY <1>6 DEF chainVars
  <2>2. GasSoFar' = GasSoFar
    BY <2>1 DEF GasSoFar, Block
  <2> QED BY <1>0, <2>1, <2>2 DEF GInv, GasTyped, FieldsOK, InHandGas, AcceptedGas
<1> QED BY <1>0, <1>1, <1>2, <1>3, <1>4, <1>5, <1>6, BeginGas, ExecuteGas,
          WithdrawGas, AcceptGas DEF Next, Author, Runner

(* Whatever the fold has executed before, receipts count the gas of their  *)
(* own block, and an accepted block keeps to its limit (processBlock,      *)
(* validateTransaction and validateBlock together).                        *)
THEOREM GasIsOfBlock == Spec => []GasOfBlock
<1>1. GInv => GasOfBlock
  BY DEF GInv, AcceptedGas, InHandGas, GasSoFar, GasOfBlock
<1> QED BY <1>1, GInvInit, GInvStep, PTL DEF Spec

-----------------------------------------------------------------------------
(* The base fee *)

LEMMA Quotient ==
  ASSUME NEW n \in Nat, NEW t \in Nat, t > 0
  PROVE  n \div t \in Nat /\ t * (n \div t) <= n /\ n < t * (n \div t) + t
OBVIOUS

LEMMA ProductOrder ==
  ASSUME NEW a \in Nat, NEW b \in Nat, NEW t \in Nat, t > 0, t * a < t * b
  PROVE  a < b
<1> SUFFICES ASSUME b <= a PROVE t * b <= t * a
  OBVIOUS
<1> PICK c \in Nat : a = b + c
  OBVIOUS
<1>1. t * a = t * b + t * c /\ t * c >= 0
  OBVIOUS
<1> QED BY <1>1

(* A share of a by at most the whole, and by one part more than the whole. *)
LEMMA ShareBelow ==
  ASSUME NEW a \in Nat, NEW d \in Nat, NEW t \in Nat, t > 0, d <= t
  PROVE  (a * d) \div t \in 0..a
<1> DEFINE q == (a * d) \div t
<1>1. a * d \in Nat /\ a * d <= t * a
  <2> PICK c \in Nat : t = d + c
    OBVIOUS
  <2>1. t * a = a * d + a * c /\ a * c >= 0
    OBVIOUS
  <2> QED BY <2>1
<1>2. q \in Nat /\ t * q <= a * d
  BY <1>1, Quotient
<1> HIDE DEF q
<1>3. t * q < t * (a + 1)
  BY <1>1, <1>2
<1>4. q < a + 1
  BY <1>2, <1>3, ProductOrder
<1> QED BY <1>2, <1>4 DEF q

LEMMA ShareAbove ==
  ASSUME NEW a \in Nat, NEW t \in Nat, t > 0
  PROVE  (a * (t + 1)) \div t = a + a \div t
<1> DEFINE q == (a * (t + 1)) \div t
           p == a \div t
<1>1. p \in Nat /\ t * p <= a /\ a < t * p + t
  BY Quotient
<1>2. a * (t + 1) \in Nat /\ a * (t + 1) = t * a + a
  OBVIOUS
<1>3. q \in Nat /\ t * q <= a * (t + 1) /\ a * (t + 1) < t * q + t
  BY <1>2, Quotient
<1> HIDE DEF q, p
<1>4. t * q < t * (a + p + 1)
  BY <1>1, <1>2, <1>3
<1>5. t * (a + p) < t * (q + 1)
  BY <1>1, <1>2, <1>3
<1>6. q < a + p + 1 /\ a + p < q + 1
  BY <1>1, <1>3, <1>4, <1>5, ProductOrder
<1> QED BY <1>1, <1>3, <1>6 DEF q, p

(* The fee that is expected after a block that kept to its gas limit. *)
LEMMA FeeStep ==
  ASSUME NEW parent, parent.gasLimit \in Nat, parent.gasLimit >= 4,
         parent.gasUsed \in 0..parent.gasLimit, parent.baseFee \in Nat
  PROVE  LET fee  == ExpectedBaseFee(parent)
             last == parent.baseFee
             full == last + (parent.gasLimit % 2) * (last \div (parent.gasLimit \div 2))
             rise == IF full \div 8 > 1 THEN full \div 8 ELSE 1
         IN  /\ fee \in Nat
             /\ fee \in (last - last \div 8)..(last + rise)
             /\ last >= 7 => fee >= 7
<1>1. PICK fee, last, tau, used, odd :
        /\ fee = ExpectedBaseFee(parent) /\ last = parent.baseFee
        /\ tau = parent.gasLimit \div 2 /\ used = parent.gasUsed
        /\ odd = parent.gasLimit % 2
  OBVIOUS
<1>2. last \in Nat /\ tau \in Nat /\ tau > 0 /\ used \in Nat
      /\ odd \in {0, 1} /\ used <= 2 * tau + odd
  BY <1>1
<1>3. PICK full : full = last + odd * (last \div tau)
  OBVIOUS
<1>4. PICK rise : rise = IF full \div 8 > 1 THEN full \div 8 ELSE 1
  OBVIOUS
<1>5. /\ last \div tau \in Nat /\ full \in Nat /\ full >= last
      /\ odd = 1 => full = last + last \div tau
  BY <1>2, <1>3, Quotient
<1>6. ASSUME used = tau
      PROVE  fee \in (last - last \div 8)..(last + rise) /\ (last >= 7 => fee >= 7)
  <2>1. fee = last
    BY <1>1, <1>6 DEF ExpectedBaseFee
  <2> QED BY <1>2, <1>4, <1>5, <2>1
<1>7. ASSUME used < tau
      PROVE  fee \in (last - last \div 8)..(last + rise) /\ (last >= 7 => fee >= 7)
  <2>1. PICK delta : delta = tau - used
    OBVIOUS
  <2>2. PICK share : share = (last * delta) \div tau
    OBVIOUS
  <2>3. share \in 0..last
    BY <1>2, <1>7, <2>1, <2>2, ShareBelow
  <2>4. fee = last - share \div 8
    BY <1>1, <1>7, <2>1, <2>2 DEF ExpectedBaseFee
  <2>5. fee \in (last - last \div 8)..last
    BY <1>2, <2>3, <2>4
  <2>6. last >= 7 => last - last \div 8 >= 7
    BY <1>2
  <2> QED BY <1>2, <1>4, <1>5, <2>5, <2>6
<1>8. ASSUME used > tau
      PROVE  fee \in (last - last \div 8)..(last + rise) /\ (last >= 7 => fee >= 7)
  <2>1. PICK delta : delta = used - tau
    OBVIOUS
  <2>2. PICK share : share = (last * delta) \div tau
    OBVIOUS
  <2>3. delta \in Nat /\ delta <= tau + odd
    BY <1>2, <1>8, <2>1
  <2>4. share \in Nat /\ share <= full
    <3>1. CASE delta <= tau
      <4>1. share \in 0..last
        BY <1>2, <2>2, <2>3, <3>1, ShareBelow
      <4> QED BY <1>2, <1>5, <4>1
    <3>2. CASE delta > tau
      <4>1. odd = 1 /\ delta = tau + 1
        BY <1>2, <2>3, <3>2
      <4>2. share = last + last \div tau
        BY <1>2, <2>2, <4>1, ShareAbove
      <4> QED BY <1>5, <4>1, <4>2
    <3> QED BY <1>2, <2>3, <3>1, <3>2
  <2>5. fee = last + IF share \div 8 > 1 THEN share \div 8 ELSE 1
    <3>1. PICK nu : nu = share \div 8
      OBVIOUS
    <3>2. nu = ((parent.baseFee * (parent.gasUsed - tau)) \div tau) \div 8
      BY <1>1, <2>1, <2>2, <3>1
    <3>3. ~(parent.gasUsed < tau) /\ parent.gasUsed # tau /\ parent.gasUsed > tau
      <4>1. ~(used < tau) /\ used # tau
        BY <1>2, <1>8
      <4> QED BY <1>1, <1>8, <4>1, Zenon
    <3>4. ExpectedBaseFee(parent) = parent.baseFee + IF nu > 1 THEN nu ELSE 1
      BY <1>1, <3>2, <3>3, Zenon DEF ExpectedBaseFee
    <3> QED BY <1>1, <3>1, <3>4
  <2>6. share \div 8 <= full \div 8
    BY <1>5, <2>4
  <2>7. fee >= last /\ fee <= last + rise /\ fee \in Int
    BY <1>2, <1>4, <1>5, <2>4, <2>5, <2>6
  <2> QED BY <1>2, <2>7
<1>9. fee \in (last - last \div 8)..(last + rise) /\ (last >= 7 => fee >= 7)
  BY <1>2, <1>6, <1>7, <1>8
<1>10. fee \in Nat
  <2>1. last - last \div 8 >= 0
    BY <1>2
  <2> QED BY <1>2, <1>9, <2>1
<1> QED BY <1>1, <1>3, <1>4, <1>9, <1>10

(* Every accepted block has a fee and a use of gas from which the next fee *)
(* can be computed.                                                        *)
FeesOK ==
  \A i \in DOMAIN blocks :
    LET b == headers[blocks[i].hash]
    IN  /\ b.baseFee \in Nat /\ b.gasUsed \in 0..b.gasLimit
        /\ GenesisHeader.baseFee >= 7 => b.baseFee >= 7
        /\ i > 1 => b.parent \in DOMAIN headers

(* The fee of b, a child of parent. *)
FeeBounded(parent, b) ==
  LET last == parent.baseFee
      full == last + (parent.gasLimit % 2) * (last \div (parent.gasLimit \div 2))
      rise == IF full \div 8 > 1 THEN full \div 8 ELSE 1
  IN  /\ b.baseFee \in (last - last \div 8)..(last + rise)
      /\ GenesisHeader.baseFee >= 7 => b.baseFee >= 7

LEMMA BlocksFeeBounded ==
  ASSUME NEW i \in 2..Len(blocks), BaseFeeBounded
  PROVE  FeeBounded(headers[headers[blocks[i].hash].parent], headers[blocks[i].hash])
BY Zenon DEF BaseFeeBounded, FeeBounded

(* What the header was found to be still holds when the block is accepted. *)
HeaderOK ==
  phase \in {"transactions", "validate"} =>
    HeaderError(headers[Block.parent], Block) = NoException

FInv == GInv /\ FeesOK /\ HeaderOK /\ BaseFeeBounded

LEMMA FInvInit == Init => FInv
<1> SUFFICES ASSUME Init PROVE FInv
  OBVIOUS
<1>1. /\ headers = <<GenesisHeader>> /\ blocks = <<[hash |-> 1, sigma |-> Genesis]>>
      /\ phase = "idle"
  BY DEF Init
<1>2. Len(blocks) = 1 /\ \A i \in DOMAIN blocks : i = 1 /\ headers[blocks[i].hash] = GenesisHeader
  BY <1>1
<1>3. FeesOK
  BY <1>2, GasAssumption DEF FeesOK
<1>4. BaseFeeBounded
  <2>1. 2..Len(blocks) = {}
    BY <1>2
  <2> QED BY <2>1, Zenon DEF BaseFeeBounded
<1> QED BY <1>1, <1>3, <1>4, GInvInit DEF FInv, HeaderOK

(* The headers that are there stay, and no block is accepted. *)
LEMMA FeesKept ==
  ASSUME FInv, GInv', blocks' = blocks, HeaderOK',
         \A h \in DOMAIN headers : headers'[h] = headers[h],
         DOMAIN headers \subseteq DOMAIN headers'
  PROVE  FInv'
<1>1. \A i \in DOMAIN blocks : headers'[blocks[i].hash] = headers[blocks[i].hash]
  BY DEF FInv, GInv, CInv, BlocksOK
<1>2. FeesOK'
  BY <1>1 DEF FInv, FeesOK
<1>3. DOMAIN blocks = 1..Len(blocks)
  BY DEF FInv, GInv, CInv, BlocksOK
<1>4. \A i \in 2..Len(blocks) :
        headers'[headers[blocks[i].hash].parent] = headers[headers[blocks[i].hash].parent]
  BY <1>3 DEF FInv, FeesOK
<1>5. \A i \in 2..Len(blocks) : headers'[blocks[i].hash] = headers[blocks[i].hash]
  BY <1>1, <1>3
<1>6. BaseFeeBounded'
  <2>1. ASSUME NEW i \in 2..Len(blocks)
        PROVE  FeeBounded(headers'[headers'[blocks[i].hash].parent], headers'[blocks[i].hash])
    BY <1>4, <1>5, BlocksFeeBounded DEF FInv
  <2>2. \A i \in 2..Len(blocks') :
          FeeBounded(headers'[headers'[blocks'[i].hash].parent], headers'[blocks'[i].hash])
    BY <2>1
  <2> QED BY <2>2, Zenon DEF BaseFeeBounded, FeeBounded
<1> QED BY <1>2, <1>6 DEF FInv

(* The fee of a block whose header is good follows from that of its parent. *)
LEMMA HeaderFee ==
  ASSUME FInv, current.hash \in DOMAIN headers, Block.parent \in Accepted,
         HeaderError(headers[Block.parent], Block) = NoException
  PROVE  LET parent == headers[Block.parent]
         IN  /\ Block.parent \in DOMAIN headers
             /\ parent.baseFee \in Nat /\ parent.gasUsed \in 0..parent.gasLimit
             /\ GenesisHeader.baseFee >= 7 => parent.baseFee >= 7
             /\ parent.gasLimit \in Nat /\ parent.gasLimit >= 4 /\ Block.gasLimit \in Nat
             /\ Block.baseFee = ExpectedBaseFee(parent) /\ Block.baseFee \in Nat
<1>1. PICK b, parent : b = Block /\ b = headers[current.hash] /\ parent = headers[b.parent]
  BY DEF Block
<1>2. /\ current.hash \in DOMAIN headers /\ b.parent \in Accepted
      /\ HeaderError(parent, b) = NoException
  BY <1>1
<1>3. PICK j \in DOMAIN blocks : blocks[j].hash = b.parent
  BY <1>2 DEF Accepted
<1>4. b.parent \in DOMAIN headers
  BY <1>3 DEF FInv, GInv, CInv, BlocksOK
<1>5. /\ parent.baseFee \in Nat /\ parent.gasUsed \in 0..parent.gasLimit
      /\ GenesisHeader.baseFee >= 7 => parent.baseFee >= 7
  BY <1>1, <1>3 DEF FInv, FeesOK
<1>6. parent.gasLimit \in Nat /\ parent.gasLimit >= 4 /\ b.gasLimit \in Nat
  <2>1. parent.gasLimit \in Int /\ b.gasLimit \in Int
    BY <1>1, <1>2, <1>4 DEF FInv, GInv, GasTyped
  <2>2. ~(b.gasLimit < 5000)
        /\ ~(b.gasLimit >= parent.gasLimit + parent.gasLimit \div 1024)
    BY <1>2, HeaderChecks
  <2> QED BY <2>1, <2>2
<1>7. b.baseFee = ExpectedBaseFee(parent)
  BY <1>2, HeaderChecks
<1>8. b.baseFee \in Nat
  BY <1>5, <1>6, <1>7, FeeStep
<1> QED BY <1>1, <1>4, <1>5, <1>6, <1>7, <1>8

LEMMA InHandFee ==
  ASSUME FInv, phase \in {"transactions", "validate"}
  PROVE  LET parent == headers[Block.parent]
         IN  /\ Block.parent \in DOMAIN headers
             /\ parent.baseFee \in Nat /\ parent.gasUsed \in 0..parent.gasLimit
             /\ GenesisHeader.baseFee >= 7 => parent.baseFee >= 7
             /\ parent.gasLimit \in Nat /\ parent.gasLimit >= 4 /\ Block.gasLimit \in Nat
             /\ Block.baseFee = ExpectedBaseFee(parent) /\ Block.baseFee \in Nat
BY HeaderFee DEF FInv, GInv, CInv, InHandOK, HeaderOK

LEMMA GasSoFarNat ==
  ASSUME GasSoFar
  PROVE  work.gasUsed \in Nat
<1>1. CASE next = 1
  BY <1>1 DEF GasSoFar
<1>2. CASE next # 1
  <2>1. next - 1 \in 1..(next - 1)
    BY <1>2 DEF GasSoFar
  <2> QED BY <1>2, <2>1 DEF GasSoFar
<1> QED BY <1>1, <1>2

LEMMA AcceptFees ==
  ASSUME FInv, GInv', AcceptBlock
  PROVE  FInv'
<1>1. PICK entry : entry = [hash |-> current.hash, sigma |-> work.accountMap]
  OBVIOUS
<1>2. /\ blocks' = Append(blocks, entry) /\ headers' = headers
      /\ phase = "validate" /\ phase' = "idle" /\ LateError = NoException
  BY <1>1 DEF AcceptBlock, Idle
<1>3. /\ Len(blocks) \in Nat /\ DOMAIN blocks = 1..Len(blocks)
      /\ DOMAIN blocks' = 1..(Len(blocks) + 1) /\ Len(blocks') = Len(blocks) + 1
      /\ \A i \in 1..Len(blocks) : blocks'[i] = blocks[i]
      /\ blocks'[Len(blocks) + 1] = entry
  <2>1. \E S : blocks \in Seq(S)
    BY DEF FInv, GInv, CInv, BlocksOK
  <2> QED BY <1>2, <2>1, AppendFacts
<1>4. PICK b : b = Block /\ b = headers[entry.hash]
  BY <1>1 DEF Block
<1>5. PICK parent : parent = headers[b.parent]
  OBVIOUS
<1>6. /\ b.parent \in DOMAIN headers
      /\ parent.baseFee \in Nat /\ parent.gasUsed \in 0..parent.gasLimit
      /\ GenesisHeader.baseFee >= 7 => parent.baseFee >= 7
      /\ parent.gasLimit \in Nat /\ parent.gasLimit >= 4 /\ b.gasLimit \in Nat
      /\ b.baseFee = ExpectedBaseFee(parent) /\ b.baseFee \in Nat
  BY <1>2, <1>4, <1>5, InHandFee
<1>7. b.gasUsed \in 0..b.gasLimit
  <2>1. GasSoFar
    BY <1>2 DEF FInv, GInv, InHandGas
  <2>2. work.gasUsed \in Nat
    BY <2>1, GasSoFarNat
  <2>3. work.gasUsed <= b.gasLimit
    BY <1>4, <2>1 DEF GasSoFar
  <2>4. b.gasUsed = work.gasUsed
    BY <1>2, <1>4, LateErrorNone
  <2> QED BY <1>6, <2>2, <2>3, <2>4
<1>8. FeesOK'
  <2> SUFFICES ASSUME NEW i \in DOMAIN blocks'
               PROVE  LET c == headers[blocks'[i].hash]
                      IN  /\ c.baseFee \in Nat /\ c.gasUsed \in 0..c.gasLimit
                          /\ GenesisHeader.baseFee >= 7 => c.baseFee >= 7
                          /\ i > 1 => c.parent \in DOMAIN headers
    BY <1>2 DEF FeesOK
  <2>1. CASE i \in DOMAIN blocks
    BY <1>3, <2>1 DEF FInv, FeesOK
  <2>2. CASE i = Len(blocks) + 1
    <3>1. headers[blocks'[i].hash] = b
      BY <1>3, <1>4, <2>2
    <3>2. b.baseFee \in Nat /\ (GenesisHeader.baseFee >= 7 => b.baseFee >= 7)
      BY <1>6, FeeStep
    <3> QED BY <1>6, <1>7, <3>1, <3>2
  <2> QED BY <1>3, <2>1, <2>2
<1>9. FeeBounded(parent, b)
  BY <1>6, FeeStep DEF FeeBounded
<1>10. ASSUME NEW i \in 2..Len(blocks')
       PROVE  FeeBounded(headers[headers[blocks'[i].hash].parent], headers[blocks'[i].hash])
  <2>1. CASE i \in 2..Len(blocks)
    BY <1>3, <2>1, BlocksFeeBounded DEF FInv
  <2>2. CASE i = Len(blocks) + 1
    BY <1>3, <1>4, <1>5, <1>9, <2>2
  <2> QED BY <1>3, <2>1, <2>2
<1>11. BaseFeeBounded'
  BY <1>2, <1>10, Zenon DEF BaseFeeBounded, FeeBounded
<1> QED BY <1>2, <1>8, <1>11 DEF FInv, HeaderOK

LEMMA FInvStep == FInv /\ [Next]_chainVars => FInv'
<1> SUFFICES ASSUME FInv, [Next]_chainVars PROVE FInv'
  OBVIOUS
<1>0. GInv'
  BY GInvStep DEF FInv
<1>1. ASSUME NEW p \in DOMAIN headers, NEW draft \in Drafts,
             NEW expects \in Expectations, TakeNewBlock(p, draft, expects)
      PROVE  FInv'
  <2>1. /\ phase' = "header" /\ blocks' = blocks
        /\ \E b : headers' = Append(headers, b)
    BY <1>1 DEF TakeNewBlock, Take
  <2>2. /\ \A h \in DOMAIN headers : headers'[h] = headers[h]
        /\ DOMAIN headers = 1..Len(headers) /\ Len(headers) \in Nat
        /\ DOMAIN headers' = 1..(Len(headers) + 1)
    BY <2>1, AppendFacts DEF FInv, GInv, CInv, HeadersOK
  <2>3. DOMAIN headers \subseteq DOMAIN headers'
    BY <2>2
  <2> QED BY <1>0, <2>1, <2>2, <2>3, FeesKept DEF HeaderOK
<1>2. ASSUME UNCHANGED <<headers, blocks>>, HeaderOK'
      PROVE  FInv'
  BY <1>0, <1>2, FeesKept
<1>3. ASSUME NEW h \in DOMAIN headers, NEW expects \in Expectations,
             TakeOldBlock(h, expects)
      PROVE  FInv'
  BY <1>2, <1>3 DEF TakeOldBlock, Take, HeaderOK
<1>4. ASSUME NEW last, NEW kind, EndTest(last, kind)
      PROVE  FInv'
  <2>1. UNCHANGED <<headers, blocks>> /\ phase' \in {"passed", "failed"}
    BY <1>4 DEF EndTest
  <2> QED BY <1>2, <2>1 DEF HeaderOK
<1>5. CASE \/ RefuseHeader \/ RefuseTransaction \/ RefuseBlock
           \/ CatchExpected \/ CatchUnexpected
  <2>1. UNCHANGED <<headers, blocks>> /\ phase' \in {"catch", "idle", "failed"}
    BY <1>5 DEF RefuseHeader, RefuseTransaction, RefuseBlock, Throw,
       CatchExpected, CatchUnexpected, Idle
  <2> QED BY <1>2, <2>1 DEF HeaderOK
<1>6. CASE BeginBlock
  <2>1. UNCHANGED <<headers, blocks, current>> /\ EarlyError = NoException
    BY <1>6 DEF BeginBlock
  <2> QED BY <1>2, <2>1, EarlyChecks DEF HeaderOK, Block
<1>7. CASE ExecuteTransaction \/ Withdraw \/ UNCHANGED chainVars
  <2>1. /\ UNCHANGED <<headers, blocks, current>>
        /\ phase' \in {"transactions", "validate"} => phase \in {"transactions", "validate"}
    BY <1>7 DEF ExecuteTransaction, Withdraw, chainVars
  <2> QED BY <1>2, <2>1 DEF FInv, HeaderOK, Block
<1> QED BY <1>0, <1>1, <1>3, <1>4, <1>5, <1>6, <1>7, AcceptFees DEF Next, Author, Runner

(* From a block to the next the base fee moves by an eighth at most, but   *)
(* for the one unit that a small fee or an odd gas limit adds, and it does *)
(* not fall below 7 (validateHeaderBeforeTransactions).                    *)
THEOREM BaseFeeIsBounded == Spec => []BaseFeeBounded
<1>1. FInv => BaseFeeBounded
  BY DEF FInv
<1> QED BY <1>1, FInvInit, FInvStep, PTL DEF Spec

-----------------------------------------------------------------------------
(* The transactions of a chain, and the nonces that they have used         *)

(* The histories of the headers hs, as History recurs over them. *)
Histories(hs) ==
  CHOOSE back :
    back = [g \in DOMAIN hs |->
              IF hs[g].parent = NoHash THEN <<>>
                                       ELSE back[hs[g].parent] \o hs[g].txs]

(* Parents come first, and what a block does are transactions. *)
Lineage(hs) ==
  /\ Len(hs) \in Nat /\ DOMAIN hs = 1..Len(hs)
  /\ \A g \in DOMAIN hs : hs[g].parent \in 0..(g - 1) /\ hs[g].txs \in Seq(TxRecord)

LEMMA HistoryWalk ==
  ASSUME NEW hs, Lineage(hs), NEW g \in DOMAIN hs
  PROVE  /\ Histories(hs)[g] \in Seq(TxRecord)
         /\ Histories(hs)[g] =
              IF hs[g].parent = NoHash THEN <<>>
                                       ELSE Histories(hs)[hs[g].parent] \o hs[g].txs
<1> DEFINE I == DOMAIN hs
           D == Seq(TxRecord)
           Walks(w) == w = [h \in I |->
             IF hs[h].parent = NoHash THEN <<>> ELSE w[hs[h].parent] \o hs[h].txs]
           stops == {h \in I : hs[h].parent = NoHash}
           up    == [h \in I |-> hs[h].parent]
           id    == [h \in I |-> h]
           leaf  == [h \in I |-> <<>>]
           step  == [q \in I \X D |-> q[2] \o hs[q[1]].txs]
<1>1. I = 1..Len(hs) /\ Len(hs) \in Nat /\ \A h \in I : hs[h].txs \in D
  BY DEF Lineage
<1>2. \A h \in I : h \notin stops => up[h] \in I /\ up[h] < h
  <2> SUFFICES ASSUME NEW h \in I, h \notin stops
               PROVE  hs[h].parent \in I /\ hs[h].parent < h
    OBVIOUS
  <2>1. hs[h].parent \in 0..(h - 1) /\ hs[h].parent # NoHash
    BY DEF Lineage
  <2> HIDE DEF I
  <2> QED BY <1>1, <2>1 DEF NoHash
<1>3. id \in [I -> 0..Len(hs)] /\ leaf \in [I -> D]
  BY <1>1
<1>4. step \in [I \X D -> D]
  <2>1. \A q \in I \X D : q[2] \o hs[q[1]].txs \in D
    <3> SUFFICES ASSUME NEW h \in I, NEW s \in D PROVE s \o hs[h].txs \in D
      OBVIOUS
    <3>1. hs[h].txs \in D
      BY <1>1
    <3> QED BY <3>1
  <2> HIDE DEF D
  <2> QED BY <2>1
<1>5. Descends(I, stops, up, id)
  BY <1>1, <1>2 DEF Descends
<1>6. \E f \in [I -> D] : Recurses(f, I, stops, leaf, up, step)
  <2> HIDE DEF I, D, stops, up, id, leaf, step
  <2> QED BY <1>1, <1>3, <1>4, <1>5, Recursion
<1>7. PICK f \in [I -> D] : Recurses(f, I, stops, leaf, up, step)
  BY <1>6
<1>8. \A h \in I : f[h] = IF hs[h].parent = NoHash THEN <<>> ELSE f[hs[h].parent] \o hs[h].txs
  <2> SUFFICES ASSUME NEW h \in I
               PROVE  f[h] = IF hs[h].parent = NoHash THEN <<>>
                                                      ELSE f[hs[h].parent] \o hs[h].txs
    OBVIOUS
  <2>1. f[h] = IF h \in stops THEN leaf[h] ELSE step[<<h, f[up[h]]>>]
    BY <1>7 DEF Recurses
  <2>2. CASE h \in stops
    BY <2>1, <2>2
  <2>3. CASE h \notin stops
    <3>1. up[h] \in I /\ f[up[h]] \in D /\ hs[h].parent = up[h]
      BY <1>2, <2>3
    <3>2. step[<<h, f[up[h]]>>] = f[up[h]] \o hs[h].txs
      <4> HIDE DEF D, up
      <4> QED BY <3>1
    <3>3. hs[h].parent # NoHash
      BY <2>3
    <3> HIDE DEF step, up, stops
    <3> QED BY <2>1, <2>3, <3>1, <3>2, <3>3
  <2> QED BY <2>2, <2>3
<1>9. Walks(f)
  <2>1. f = [h \in I |-> f[h]]
    OBVIOUS
  <2> QED BY <1>8, <2>1
<1>10. PICK w : w = CHOOSE v : Walks(v)
  OBVIOUS
<1>11. Walks(w)
  BY <1>9, <1>10
<1>12. Histories(hs) = w
  BY <1>10 DEF Histories
<1>13. w[g] = IF hs[g].parent = NoHash THEN <<>> ELSE w[hs[g].parent] \o hs[g].txs
  BY <1>11
<1>14. \A h \in I : w[h] \in D
  <2> DEFINE Bad == {h \in I : w[h] \notin D}
  <2> SUFFICES ASSUME Bad # {} PROVE FALSE
    OBVIOUS
  <2>1. PICK h \in Bad : \A n \in Bad : h <= n
    <3>1. Bad \subseteq Nat
      BY <1>1
    <3> HIDE DEF Bad
    <3> QED BY <3>1, LeastNumber
  <2>2. w[h] = IF hs[h].parent = NoHash THEN <<>> ELSE w[hs[h].parent] \o hs[h].txs
    BY <1>11
  <2>3. h \in I /\ w[h] \notin D
    OBVIOUS
  <2>4. CASE hs[h].parent = NoHash
    BY <2>2, <2>3, <2>4
  <2>5. CASE hs[h].parent # NoHash
    <3>1. hs[h].parent \in I /\ hs[h].parent < h
      BY <1>2, <2>3, <2>5
    <3>2. hs[h].parent \notin Bad
      <4>1. h \in Nat /\ hs[h].parent \in Nat
        BY <1>1, <2>3, <3>1
      <4> HIDE DEF Bad
      <4> QED BY <2>1, <3>1, <4>1
    <3>3. w[hs[h].parent] \in D /\ hs[h].txs \in D
      BY <1>1, <2>3, <3>1, <3>2
    <3>4. w[hs[h].parent] \o hs[h].txs \in D
      BY <3>3
    <3> QED BY <2>2, <2>3, <2>5, <3>4
  <2> QED BY <2>4, <2>5
<1> QED BY <1>12, <1>13, <1>14

(* New blocks change no history. *)
LEMMA HistoryKept ==
  ASSUME NEW hs, Lineage(hs), NEW gs, Lineage(gs), DOMAIN hs \subseteq DOMAIN gs,
         \A h \in DOMAIN hs : gs[h] = hs[h]
  PROVE  \A h \in DOMAIN hs : Histories(gs)[h] = Histories(hs)[h]
<1> DEFINE Bad == {h \in DOMAIN hs : Histories(gs)[h] # Histories(hs)[h]}
<1> SUFFICES ASSUME Bad # {} PROVE FALSE
  OBVIOUS
<1>1. PICK h \in Bad : \A n \in Bad : h <= n
  <2>1. Bad \subseteq Nat
    BY DEF Lineage
  <2> HIDE DEF Bad
  <2> QED BY <2>1, LeastNumber
<1>2. h \in DOMAIN hs /\ h \in DOMAIN gs /\ gs[h] = hs[h]
  OBVIOUS
<1>3. Histories(hs)[h] = IF hs[h].parent = NoHash THEN <<>>
                                                  ELSE Histories(hs)[hs[h].parent] \o hs[h].txs
  BY <1>2, HistoryWalk
<1>4. Histories(gs)[h] = IF hs[h].parent = NoHash THEN <<>>
                                                  ELSE Histories(gs)[hs[h].parent] \o hs[h].txs
  BY <1>2, HistoryWalk
<1>5. CASE hs[h].parent = NoHash
  BY <1>3, <1>4, <1>5
<1>6. CASE hs[h].parent # NoHash
  <2>1. hs[h].parent \in DOMAIN hs /\ hs[h].parent < h /\ h \in Nat /\ hs[h].parent \in Nat
    BY <1>2, <1>6 DEF Lineage, NoHash
  <2>2. hs[h].parent \notin Bad
    BY <1>1, <2>1
  <2> QED BY <1>3, <1>4, <1>6, <2>1, <2>2
<1> QED BY <1>5, <1>6

(* tau is an account map in which no account has a lower nonce. *)
Ages(sigma, tau) ==
  /\ tau \in AccountMap
  /\ \A a \in Addr : AccountAt(tau, a).nonce >= AccountAt(sigma, a).nonce

LEMMA WordNonces ==
  ASSUME NEW sigma \in AccountMap
  PROVE  NoncesUpTo(sigma, WordSize) /\ WordSize \in Nat
<1> SUFFICES ASSUME NEW a \in Addr, Exists(sigma, a)
             PROVE  sigma[a].nonce <= WordSize
  BY WordAssumption DEF NoncesUpTo
<1> QED BY LookupType, AccountFields, WordAssumption DEF Word

LEMMA NonceAt ==
  ASSUME NEW sigma \in AccountMap, NEW a \in Addr
  PROVE  AccountAt(sigma, a).nonce \in Nat
BY AccountAtType, AccountFields, WordAssumption DEF Word

LEMMA AgesReflexive ==
  ASSUME NEW sigma \in AccountMap
  PROVE  Ages(sigma, sigma)
<1> SUFFICES ASSUME NEW a \in Addr
             PROVE  AccountAt(sigma, a).nonce >= AccountAt(sigma, a).nonce
  BY DEF Ages
<1> QED BY NonceAt

LEMMA ExtendsAges ==
  ASSUME NEW sigma \in AccountMap, NEW tau, NEW n, Extends(sigma, tau, n)
  PROVE  Ages(sigma, tau)
<1>1. tau \in AccountMap /\ Preserves(sigma, tau)
  BY DEF Extends
<1>2. ASSUME NEW a \in Addr
      PROVE  AccountAt(tau, a).nonce >= AccountAt(sigma, a).nonce
  <2>1. CASE Exists(sigma, a)
    BY <1>1, <2>1 DEF Preserves, AccountAt
  <2>2. CASE ~Exists(sigma, a)
    <3>1. AccountAt(sigma, a).nonce = 0
      BY <2>2 DEF AccountAt, DefaultAccount
    <3> QED BY <1>1, <3>1, NonceAt
  <2> QED BY <2>1, <2>2
<1> QED BY <1>1, <1>2 DEF Ages

LEMMA AgesTransitive ==
  ASSUME NEW sigma \in AccountMap, NEW tau, NEW rho, Ages(sigma, tau), Ages(tau, rho)
  PROVE  Ages(sigma, rho)
<1> SUFFICES ASSUME NEW a \in Addr
             PROVE  AccountAt(rho, a).nonce >= AccountAt(sigma, a).nonce
  BY DEF Ages
<1>1. /\ AccountAt(sigma, a).nonce \in Nat /\ AccountAt(tau, a).nonce \in Nat
      /\ AccountAt(rho, a).nonce \in Nat
  BY NonceAt DEF Ages
<1>2. /\ AccountAt(tau, a).nonce >= AccountAt(sigma, a).nonce
      /\ AccountAt(rho, a).nonce >= AccountAt(tau, a).nonce
  BY DEF Ages
<1> QED BY <1>1, <1>2

(* Writing an account that keeps the code and does not lower the nonce. *)
LEMMA WriteAges ==
  ASSUME NEW sigma \in AccountMap, NEW a \in Addr, NEW acc0 \in Account,
         acc0.nonce >= AccountAt(sigma, a).nonce
  PROVE  Ages(sigma, [sigma EXCEPT ![a] = acc0])
<1> DEFINE tau == [sigma EXCEPT ![a] = acc0]
<1>1. tau \in AccountMap
  BY UpdateType
<1>2. tau[a] = acc0 /\ \A b \in Addr : b # a => tau[b] = sigma[b]
  BY DEF AccountMap
<1>3. acc0 # NoAccount
  BY AccountFields
<1> HIDE DEF tau
<1>4. AccountAt(tau, a) = acc0
  BY <1>2, <1>3 DEF AccountAt, Exists
<1>5. ASSUME NEW b \in Addr PROVE AccountAt(tau, b).nonce >= AccountAt(sigma, b).nonce
  <2>1. CASE b = a
    BY <1>4, <2>1
  <2>2. CASE b # a
    <3>1. AccountAt(tau, b) = AccountAt(sigma, b)
      BY <1>2, <2>2 DEF AccountAt, Exists
    <3> QED BY <3>1, NonceAt
  <2> QED BY <2>1, <2>2
<1> QED BY <1>1, <1>5 DEF Ages, tau

LEMMA StoreAllAges ==
  ASSUME NEW sigma \in AccountMap, NEW a \in Addr, NEW x \in Values
  PROVE  Ages(sigma, StoreAll(sigma, a, x))
<1>1. CASE ~Exists(sigma, a)
  BY <1>1, AgesReflexive DEF StoreAll
<1>2. CASE Exists(sigma, a)
  <2> DEFINE all == [k \in Slots |-> x]
             new == [sigma[a] EXCEPT !.storage = all]
  <2>1. StoreAll(sigma, a, x) = [sigma EXCEPT ![a] = new]
    BY <1>2 DEF StoreAll
  <2>2. sigma[a] \in Account /\ all \in Storage
    BY <1>2, LookupType DEF Storage
  <2>3. new \in Account /\ new.nonce = sigma[a].nonce
    BY <2>2 DEF Account
  <2>4. AccountAt(sigma, a) = sigma[a]
    BY <1>2 DEF AccountAt
  <2>5. new.nonce >= AccountAt(sigma, a).nonce
    BY <2>3, <2>4, NonceAt
  <2> HIDE DEF new
  <2> QED BY <2>1, <2>3, <2>5, WriteAges
<1> QED BY <1>1, <1>2

LEMMA IncreaseBalanceAges ==
  ASSUME NEW sigma \in AccountMap, NEW a \in Addr, NEW v \in Word
  PROVE  Ages(sigma, IncreaseBalance(sigma, a, v))
BY WordNonces, IncreaseBalanceExtends, ExtendsAges

(* A transaction raises the nonce of its sender, whatever becomes of its   *)
(* call, and lowers no other.                                              *)
LEMMA UpsilonAges ==
  ASSUME NEW sigma \in AccountMap, NEW b, b.baseFee \in Int, NEW T \in TxRecord,
         NEW seen, T.asks # NoNumber => seen \in Values,
         T.nonce = AccountAt(sigma, T.sender).nonce
  PROVE  LET tau == Upsilon(sigma, b, T, seen)
         IN  Ages(sigma, tau) /\ AccountAt(tau, T.sender).nonce > T.nonce
<1>1. /\ T.sender \in Addr /\ T.recipient \in Addr /\ T.nonce \in 0..(MaxNonce - 1)
      /\ T.value \in Word /\ T.gasUsed \in Nat /\ T.price \in Nat
      /\ T.fails \in BOOLEAN
  BY DEF TxRecord
<1>2. PICK old, cost, new, charged, moved, called, fee, tau :
        /\ old = AccountAt(sigma, T.sender)
        /\ cost = WordMul(T.gasUsed, T.price)
        /\ new = [old EXCEPT !.balance = WordSub(@, cost), !.nonce = WordAdd(@, 1)]
        /\ charged = [sigma EXCEPT ![T.sender] = new]
        /\ moved = Transfer(charged, T.sender, T.recipient, T.value)
        /\ called = CASE T.fails                        -> charged
                      [] ~T.fails /\ T.asks = NoNumber  -> moved
                      [] ~T.fails /\ T.asks # NoNumber  -> StoreAll(moved, T.recipient, seen)
        /\ fee = WordMul(T.gasUsed, T.price - b.baseFee)
        /\ tau = IF fee # 0 THEN IncreaseBalance(called, Beneficiary, fee) ELSE called
  OBVIOUS
<1>3. Upsilon(sigma, b, T, seen) = tau
  BY <1>2 DEF Upsilon
<1>4. cost \in Word /\ fee \in Word
  BY <1>1, <1>2, WordMulType
<1>5. old \in Account /\ old.nonce = T.nonce /\ old.balance \in Word
  BY <1>1, <1>2, AccountAtType, AccountFields
<1>6. new \in Account /\ new.nonce = T.nonce + 1
  <2>1. WordSub(old.balance, cost) \in Word
    BY <1>4, <1>5, WordSubType
  <2>2. WordAdd(old.nonce, 1) = T.nonce + 1 /\ T.nonce + 1 \in Word
    BY <1>1, <1>5, WordAssumption, NonceAssumption DEF WordAdd, Word
  <2>3. /\ [old EXCEPT !.balance = WordSub(@, cost), !.nonce = WordAdd(@, 1)].nonce
             = WordAdd(old.nonce, 1)
        /\ [old EXCEPT !.balance = WordSub(@, cost), !.nonce = WordAdd(@, 1)] \in Account
    BY <1>5, <2>1, <2>2 DEF Account
  <2> QED BY <1>2, <2>2, <2>3
<1>7. Ages(sigma, charged) /\ charged \in AccountMap
  <2>1. new.nonce >= AccountAt(sigma, T.sender).nonce
    BY <1>1, <1>6
  <2> QED BY <1>1, <1>2, <1>6, <2>1, WriteAges DEF Ages
<1>8. AccountAt(charged, T.sender).nonce = T.nonce + 1
  <2>1. charged[T.sender] = new /\ new # NoAccount
    BY <1>1, <1>2, <1>6, AccountFields DEF AccountMap
  <2> QED BY <1>6, <2>1 DEF AccountAt, Exists
<1>9. Ages(charged, moved)
  BY <1>1, <1>2, <1>7, WordNonces, TransferExtends, ExtendsAges
<1>10. Ages(charged, called) /\ called \in AccountMap
  <2>1. CASE T.fails
    <3>1. called = charged
      BY <1>2, <2>1
    <3> QED BY <1>7, <3>1, AgesReflexive
  <2>2. CASE ~T.fails /\ T.asks = NoNumber
    <3>1. called = moved
      BY <1>2, <2>2, Zenon
    <3> QED BY <1>9, <3>1 DEF Ages
  <2>3. CASE ~T.fails /\ T.asks # NoNumber
    <3>1. called = StoreAll(moved, T.recipient, seen)
      BY <1>2, <2>3
    <3>2. moved \in AccountMap
      BY <1>9 DEF Ages
    <3>3. Ages(moved, called)
      BY <1>1, <2>3, <3>1, <3>2, StoreAllAges
    <3> QED BY <1>7, <1>9, <3>3, AgesTransitive DEF Ages
  <2> QED BY <1>1, <2>1, <2>2, <2>3
<1>11. Ages(called, tau)
  <2>1. CASE fee # 0
    <3>1. tau = IncreaseBalance(called, Beneficiary, fee) /\ Beneficiary \in Addr
      BY <1>2, <2>1, ChainAssumption
    <3> QED BY <1>4, <1>10, <3>1, IncreaseBalanceAges
  <2>2. CASE fee = 0
    <3>1. tau = called
      BY <1>2, <2>2
    <3> QED BY <1>10, <3>1, AgesReflexive
  <2> QED BY <2>1, <2>2
<1>12. Ages(charged, tau) /\ Ages(sigma, tau)
  BY <1>7, <1>10, <1>11, AgesTransitive
<1>13. AccountAt(tau, T.sender).nonce > T.nonce
  <2>1. AccountAt(tau, T.sender).nonce >= T.nonce + 1 /\ AccountAt(tau, T.sender).nonce \in Nat
    BY <1>1, <1>8, <1>12, NonceAt DEF Ages
  <2> QED BY <1>1, <2>1
<1> QED BY <1>3, <1>12, <1>13

(* Withdrawals are applied one after the other. *)
LEMMA WithdrawalSteps ==
  ASSUME NEW sigma \in AccountMap, NEW ws \in Seq(WithdrawalRecord)
  PROVE  \E F :
           /\ F[0] = sigma /\ F[Len(ws)] = ApplyWithdrawals(sigma, ws)
           /\ \A k \in 0..Len(ws) : F[k] \in AccountMap
           /\ \A k \in 1..Len(ws) : F[k] = ApplyWithdrawal(F[k - 1], ws[k])
<1> DEFINE L == Len(ws)
           g == [p \in AccountMap \X (1..L) |-> ApplyWithdrawal(p[1], ws[p[2]])]
           Iterates(iter) == iter = [s \in SUBSET (1..L) |->
             IF s = {} THEN sigma
             ELSE ApplyWithdrawal(iter[s \ {Max(s)}], ws[Max(s)])]
<1>1. L \in Nat /\ DOMAIN ws = 1..L
      /\ \A k \in 1..L : ws[k].address \in Addr /\ ws[k].amount \in Word
  <2>1. \A k \in 1..L : ws[k] \in WithdrawalRecord
    OBVIOUS
  <2>2. \A k \in 1..L : ws[k].address \in Addr /\ ws[k].amount \in Word
    BY <2>1 DEF WithdrawalRecord
  <2> QED BY <2>2
<1>2. \A tau \in AccountMap, k \in 1..L : ApplyWithdrawal(tau, ws[k]) \in AccountMap
  BY <1>1, IncreaseBalanceAges DEF ApplyWithdrawal, Ages
<1>3. g \in [AccountMap \X (1..L) -> AccountMap]
  BY <1>2
<1>4. PICK f \in [SUBSET (1..L) -> AccountMap] : FoldsUp(f, L, sigma, g)
  <2> HIDE DEF g, L
  <2> QED BY <1>1, <1>3, FoldExists
<1>5. Iterates(f)
  <2>1. ASSUME NEW s \in SUBSET (1..L), s # {}
        PROVE  g[<<f[s \ {Max(s)}], Max(s)>>] = ApplyWithdrawal(f[s \ {Max(s)}], ws[Max(s)])
    <3>1. Max(s) \in 1..L /\ s \ {Max(s)} \in SUBSET (1..L)
      BY <1>1, <2>1, MaxOfRange
    <3>2. f[s \ {Max(s)}] \in AccountMap
      BY <1>4, <3>1
    <3> QED BY <3>1, <3>2
  <2> HIDE DEF g
  <2>2. f = [s \in SUBSET (1..L) |-> f[s]]
    BY <1>4
  <2> QED BY <1>4, <2>1, <2>2 DEF FoldsUp
<1>6. PICK h : h = CHOOSE iter : Iterates(iter)
  OBVIOUS
<1>7. Iterates(h)
  BY <1>5, <1>6
<1>8. ApplyWithdrawals(sigma, ws) = h[1..L]
  BY <1>1, <1>6 DEF ApplyWithdrawals, FoldLeft, MapThenFoldSet
<1> DEFINE F == [k \in 0..L |-> h[1..k]]
<1>9. F[0] = sigma /\ F[L] = ApplyWithdrawals(sigma, ws)
  <2>1. 1..0 = {} /\ {} \in SUBSET (1..L)
    OBVIOUS
  <2>2. h[{}] = sigma
    BY <1>7, <2>1
  <2> QED BY <1>1, <1>8, <2>1, <2>2
<1>10. ASSUME NEW k \in 1..L PROVE F[k] = ApplyWithdrawal(F[k - 1], ws[k])
  <2>1. 1..k \in SUBSET (1..L) /\ Max(1..k) = k /\ (1..k) \ {k} = 1..(k - 1) /\ 1..k # {}
    BY <1>1, MaxOfPrefix
  <2>2. h[1..k] = ApplyWithdrawal(h[1..(k - 1)], ws[k])
    <3> HIDE DEF L
    <3> QED BY <1>7, <2>1
  <2>3. F[k] = h[1..k] /\ F[k - 1] = h[1..(k - 1)]
    BY <1>1
  <2> QED BY <2>2, <2>3
<1> HIDE DEF F, Iterates
<1>11. \A k \in 0..L : F[k] \in AccountMap
  <2> DEFINE Bad == {k \in 0..L : F[k] \notin AccountMap}
  <2> SUFFICES ASSUME Bad # {} PROVE FALSE
    OBVIOUS
  <2>1. PICK k \in Bad : \A n \in Bad : k <= n
    <3>1. Bad \subseteq Nat
      BY <1>1
    <3> HIDE DEF Bad
    <3> QED BY <3>1, LeastNumber
  <2>2. k # 0
    BY <1>9
  <2>3. k \in 1..L /\ k - 1 \in 0..L /\ k - 1 \notin Bad
    BY <1>1, <2>1, <2>2
  <2> QED BY <1>2, <1>10, <2>3
<1> QED BY <1>9, <1>10, <1>11

LEMMA WithdrawalsAge ==
  ASSUME NEW sigma \in AccountMap, NEW ws \in Seq(WithdrawalRecord)
  PROVE  Ages(sigma, ApplyWithdrawals(sigma, ws))
<1>1. PICK F :
        /\ F[0] = sigma /\ F[Len(ws)] = ApplyWithdrawals(sigma, ws)
        /\ \A k \in 0..Len(ws) : F[k] \in AccountMap
        /\ \A k \in 1..Len(ws) : F[k] = ApplyWithdrawal(F[k - 1], ws[k])
  BY WithdrawalSteps
<1>2. Len(ws) \in Nat /\ \A k \in 1..Len(ws) : ws[k] \in WithdrawalRecord
  OBVIOUS
<1> DEFINE Bad == {k \in 0..Len(ws) : ~Ages(sigma, F[k])}
<1>3. ASSUME Bad # {} PROVE FALSE
  <2>1. PICK k \in Bad : \A n \in Bad : k <= n
    <3>1. Bad \subseteq Nat
      BY <1>2
    <3> HIDE DEF Bad
    <3> QED BY <1>3, <3>1, LeastNumber
  <2>2. k # 0
    BY <1>1, AgesReflexive
  <2>3. k \in 1..Len(ws) /\ k - 1 \in 0..Len(ws) /\ k - 1 \notin Bad
    BY <1>2, <2>1, <2>2
  <2>4. Ages(sigma, F[k - 1]) /\ F[k - 1] \in AccountMap
    BY <1>1, <2>3
  <2>5. ws[k].address \in Addr /\ ws[k].amount \in Word
    BY <1>2, <2>3 DEF WithdrawalRecord
  <2>6. Ages(F[k - 1], F[k])
    BY <1>1, <2>3, <2>4, <2>5, AgesReflexive, IncreaseBalanceAges DEF ApplyWithdrawal
  <2> QED BY <2>1, <2>4, <2>6, AgesTransitive
<1>4. Len(ws) \in 0..Len(ws)
  BY <1>2
<1> QED BY <1>1, <1>3, <1>4

(* The transactions of past have all used their nonces, each its own. *)
Spent(past, sigma) ==
  /\ past \in Seq(TxRecord)
  /\ \A m \in DOMAIN past : past[m].nonce < AccountAt(sigma, past[m].sender).nonce
  /\ \A m, n \in DOMAIN past :
       m # n => <<past[m].sender, past[m].nonce>> # <<past[n].sender, past[n].nonce>>

LEMMA SpentStays ==
  ASSUME NEW sigma \in AccountMap, NEW tau, Ages(sigma, tau), NEW past, Spent(past, sigma)
  PROVE  Spent(past, tau)
<1> SUFFICES ASSUME NEW m \in DOMAIN past
             PROVE  past[m].nonce < AccountAt(tau, past[m].sender).nonce
  BY DEF Spent
<1>1. past[m].sender \in Addr /\ past[m].nonce \in Nat
  <2>1. past[m] \in TxRecord
    BY DEF Spent
  <2> QED BY <2>1 DEF TxRecord
<1>2. /\ AccountAt(sigma, past[m].sender).nonce \in Nat
      /\ AccountAt(tau, past[m].sender).nonce \in Nat
      /\ AccountAt(tau, past[m].sender).nonce >= AccountAt(sigma, past[m].sender).nonce
      /\ past[m].nonce < AccountAt(sigma, past[m].sender).nonce
  BY <1>1, NonceAt DEF Ages, Spent
<1> QED BY <1>1, <1>2

(* A transaction with the nonce of its sender has not been in the past. *)
LEMMA SpentAppend ==
  ASSUME NEW sigma \in AccountMap, NEW tau, Ages(sigma, tau), NEW past, Spent(past, sigma),
         NEW T \in TxRecord, T.nonce = AccountAt(sigma, T.sender).nonce,
         AccountAt(tau, T.sender).nonce > T.nonce
  PROVE  Spent(Append(past, T), tau)
<1>1. PICK now : now = Append(past, T)
  OBVIOUS
<1>2. /\ past \in Seq(TxRecord) /\ now \in Seq(TxRecord)
      /\ Len(past) \in Nat /\ DOMAIN past = 1..Len(past)
      /\ DOMAIN now = 1..(Len(past) + 1)
      /\ \A m \in DOMAIN past : now[m] = past[m]
      /\ now[Len(past) + 1] = T
  <2>1. past \in Seq(TxRecord)
    BY DEF Spent
  <2> QED BY <1>1, <2>1
<1>3. Spent(past, tau)
  BY SpentStays
<1>4. ASSUME NEW m \in DOMAIN now PROVE now[m].nonce < AccountAt(tau, now[m].sender).nonce
  <2>1. CASE m \in DOMAIN past
    BY <1>2, <1>3, <2>1 DEF Spent
  <2>2. CASE m = Len(past) + 1
    <3>1. T.sender \in Addr /\ T.nonce \in Nat /\ AccountAt(tau, T.sender).nonce \in Nat
      BY NonceAt DEF TxRecord, Ages
    <3> QED BY <1>2, <2>2, <3>1
  <2> QED BY <1>2, <2>1, <2>2
<1>5. ASSUME NEW m \in DOMAIN past
      PROVE  <<past[m].sender, past[m].nonce>> # <<T.sender, T.nonce>>
  <2>1. past[m].nonce < AccountAt(sigma, past[m].sender).nonce
    BY DEF Spent
  <2>2. past[m].nonce \in Nat /\ past[m].sender \in Addr
    <3>1. past[m] \in TxRecord
      BY <1>2
    <3> QED BY <3>1 DEF TxRecord
  <2>3. AccountAt(sigma, past[m].sender).nonce \in Nat
    BY <2>2, NonceAt
  <2> QED BY <2>1, <2>2, <2>3
<1>6. ASSUME NEW m \in DOMAIN now, NEW n \in DOMAIN now, m # n
      PROVE  <<now[m].sender, now[m].nonce>> # <<now[n].sender, now[n].nonce>>
  <2>1. CASE m \in DOMAIN past /\ n \in DOMAIN past
    BY <1>2, <1>3, <1>6, <2>1 DEF Spent
  <2>2. CASE m \in DOMAIN past /\ n = Len(past) + 1
    BY <1>2, <1>5, <2>2
  <2>3. CASE m = Len(past) + 1 /\ n \in DOMAIN past
    BY <1>2, <1>5, <2>3
  <2> QED BY <1>2, <1>6, <2>1, <2>2, <2>3
<1> QED BY <1>1, <1>2, <1>4, <1>6 DEF Spent

(* The first transactions of a block, one by one. *)
LEMMA FirstTransactions ==
  ASSUME NEW past \in Seq(TxRecord), NEW txs \in Seq(TxRecord)
  PROVE  /\ past \o SubSeq(txs, 1, 0) = past
         /\ past \o SubSeq(txs, 1, Len(txs)) = past \o txs
         /\ \A n \in 1..Len(txs) :
              past \o SubSeq(txs, 1, n) = Append(past \o SubSeq(txs, 1, n - 1), txs[n])
<1>1. SubSeq(txs, 1, 0) = <<>> /\ past \o <<>> = past
  BY SubSeqEmpty, ConcatEmptySeq
<1>2. SubSeq(txs, 1, Len(txs)) = txs
  BY SubSeqFull
<1>3. ASSUME NEW n \in 1..Len(txs)
      PROVE  past \o SubSeq(txs, 1, n) = Append(past \o SubSeq(txs, 1, n - 1), txs[n])
  <2>1. SubSeq(txs, 1, n) = SubSeq(txs, 1, n - 1) \o <<txs[n]>>
    <3>1. 1 \in 1..Len(txs) /\ n \in 1..Len(txs)
      OBVIOUS
    <3> QED BY <3>1, SubSeqRecursiveSecond
  <2>2. SubSeq(txs, 1, n - 1) \in Seq(TxRecord) /\ <<txs[n]>> \in Seq(TxRecord)
        /\ txs[n] \in TxRecord
    <3>1. n - 1 \in Int /\ \A i \in 1..(n - 1) : txs[i] \in TxRecord
      OBVIOUS
    <3>2. SubSeq(txs, 1, n - 1) \in Seq(TxRecord)
      BY <3>1, SubSeqProperties
    <3> QED BY <3>2
  <2>3. PICK t, u, S : t = SubSeq(txs, 1, n - 1) /\ u = txs[n] /\ S = TxRecord
    OBVIOUS
  <2>4. past \in Seq(S) /\ t \in Seq(S) /\ u \in S /\ <<u>> \in Seq(S)
    BY <2>2, <2>3
  <2>5. (past \o t) \o <<u>> = past \o (t \o <<u>>)
    BY <2>4, ConcatAssociative
  <2>6. Append(past \o t, u) = (past \o t) \o <<u>>
    <3>1. past \o t \in Seq(S)
      BY <2>4
    <3> QED BY <2>4, <3>1, AppendIsConcat
  <2> QED BY <2>1, <2>3, <2>5, <2>6
<1> QED BY <1>1, <1>2, <1>3

LEMMA HistoryIs ==
  \A h : History(h) = Histories(headers)[h]
BY DEF History, Histories

(* What is accepted or in hand has the nonces of its history behind it. *)
StatesUsed ==
  \A i \in DOMAIN blocks :
    /\ blocks[i].sigma \in AccountMap
    /\ Spent(Histories(headers)[blocks[i].hash], blocks[i].sigma)

WorkUsed ==
  phase \in {"transactions", "validate"} =>
    /\ work.accountMap \in AccountMap
    /\ phase = "validate" => next = Len(Block.txs) + 1
    /\ Spent(Histories(headers)[Block.parent] \o SubSeq(Block.txs, 1, next - 1),
             work.accountMap)

NInv == FInv /\ LInv /\ VInv /\ StatesUsed /\ WorkUsed

LEMMA HeadersLineage ==
  ASSUME GInv, LInv
  PROVE  Lineage(headers)
<1>1. Len(headers) \in Nat /\ DOMAIN headers = 1..Len(headers)
  BY AppendFacts DEF LInv, CInv, HeadersOK
<1>2. \A g \in DOMAIN headers : headers[g].parent \in 0..(g - 1)
  BY DEF LInv, HeadersMade
<1>3. \A g \in DOMAIN headers : headers[g].txs \in Seq(TxRecord)
  BY DEF GInv, GasTyped, GasOfTxs
<1> QED BY <1>1, <1>2, <1>3 DEF Lineage

LEMMA NInvInit == Init => NInv
<1> SUFFICES ASSUME Init PROVE NInv
  OBVIOUS
<1>0. FInv /\ LInv /\ VInv
  BY FInvInit, LInvInit, VInvInit
<1>1. headers = <<GenesisHeader>> /\ blocks = <<[hash |-> 1, sigma |-> Genesis]>>
      /\ phase = "idle"
  BY DEF Init
<1>2. /\ DOMAIN blocks = {1} /\ blocks[1].hash = 1 /\ blocks[1].sigma = Genesis
      /\ 1 \in DOMAIN headers /\ headers[1] = GenesisHeader
  BY <1>1
<1>3. Lineage(headers)
  BY <1>0, HeadersLineage DEF FInv
<1>4. Histories(headers)[1] = <<>>
  BY <1>2, <1>3, HistoryWalk, ChainAssumption
<1>5. Spent(<<>>, Genesis)
  BY DEF Spent
<1>6. StatesUsed
  BY <1>2, <1>4, <1>5, ChainAssumption DEF StatesUsed
<1> QED BY <1>0, <1>1, <1>6 DEF NInv, WorkUsed

(* The headers that are there stay, and no block is accepted. *)
LEMMA UsedKept ==
  ASSUME NInv, FInv', LInv', VInv', blocks' = blocks, WorkUsed',
         \A h \in DOMAIN headers : headers'[h] = headers[h],
         DOMAIN headers \subseteq DOMAIN headers'
  PROVE  NInv'
<1>1. PICK hs : hs = headers'
  OBVIOUS
<1>2. Lineage(headers) /\ Lineage(hs)
  <2>1. Lineage(headers)
    BY HeadersLineage DEF NInv, FInv
  <2>2. /\ Len(hs) \in Nat /\ DOMAIN hs = 1..Len(hs)
    <3>1. \E S : hs \in Seq(S)
      BY <1>1 DEF LInv, CInv, HeadersOK
    <3> QED BY <3>1
  <2>3. \A g \in DOMAIN hs : hs[g].parent \in 0..(g - 1)
    BY <1>1 DEF LInv, HeadersMade
  <2>4. \A g \in DOMAIN hs : hs[g].txs \in Seq(TxRecord)
    BY <1>1 DEF FInv, GInv, GasTyped, GasOfTxs
  <2> QED BY <2>1, <2>2, <2>3, <2>4 DEF Lineage
<1>3. \A h \in DOMAIN headers : Histories(hs)[h] = Histories(headers)[h]
  BY <1>1, <1>2, HistoryKept
<1>4. \A i \in DOMAIN blocks : blocks[i].hash \in DOMAIN headers
  BY DEF NInv, LInv, CInv, BlocksOK
<1>5. \A i \in DOMAIN blocks :
        /\ blocks[i].sigma \in AccountMap
        /\ Spent(Histories(hs)[blocks[i].hash], blocks[i].sigma)
  BY <1>3, <1>4 DEF NInv, StatesUsed
<1>6. \A i \in DOMAIN blocks' :
        /\ blocks'[i].sigma \in AccountMap
        /\ Spent(Histories(headers')[blocks'[i].hash], blocks'[i].sigma)
  BY <1>1, <1>5
<1>7. StatesUsed'
  BY <1>6, Zenon DEF StatesUsed
<1> QED BY <1>7 DEF NInv

(* The header, the transactions and the withdrawals of the block in hand.  *)
LEMMA InHandTyped ==
  ASSUME NInv, current.hash \in DOMAIN headers
  PROVE  /\ Block.txs \in Seq(TxRecord)
         /\ Block.number \in 0..(2 * MaxBlocks)
<1>1. Block.txs \in Seq(TxRecord)
  BY DEF NInv, FInv, GInv, GasTyped, GasOfTxs, Block
<1>2. Len(headers) <= MaxBlocks + 1 /\ Len(headers) \in Nat /\ DOMAIN headers = 1..Len(headers)
  BY AppendFacts DEF NInv, LInv, CInv, HeadersOK, HeadersMade
<1>3. Block.number \in 0..(2 * (current.hash - 1))
  BY DEF NInv, LInv, HeadersMade, Block
<1>4. current.hash - 1 <= MaxBlocks /\ current.hash \in Nat /\ MaxBlocks \in Nat
  BY <1>2, ChainAssumption
<1> QED BY <1>1, <1>3, <1>4

(* The block in hand is not the genesis block: it has a parent. *)
LEMMA InHandDrafted ==
  ASSUME NInv, phase \in {"transactions", "validate"}
  PROVE  /\ current.hash \in DOMAIN headers
         /\ Block.parent \in DOMAIN headers /\ Block.parent # NoHash
         /\ Block.withdrawals \in Seq(WithdrawalRecord)
         /\ \E draft \in Drafts : /\ Block.txs = draft.txs
                                 /\ Block.withdrawals = draft.withdrawals
         /\ \E i \in DOMAIN blocks : blocks[i].hash = Block.parent
<1>1. current.hash \in DOMAIN headers /\ Block.parent \in Accepted
  BY DEF NInv, LInv, CInv, InHandOK
<1>2. PICK i \in DOMAIN blocks : blocks[i].hash = Block.parent
  BY <1>1 DEF Accepted
<1>3. Block.parent \in DOMAIN headers
  BY <1>2 DEF NInv, LInv, CInv, BlocksOK
<1>4. Block.parent # NoHash
  <2>1. DOMAIN headers = 1..Len(headers)
    BY AppendFacts DEF NInv, LInv, CInv, HeadersOK
  <2> QED BY <1>3, <2>1 DEF NoHash
<1>5. current.hash # 1
  <2>1. headers[1].parent = NoHash
    BY ChainAssumption DEF NInv, LInv, HeadersMade
  <2> QED BY <1>4, <2>1 DEF Block
<1>6. PICK draft \in Drafts : Block.txs = draft.txs /\ Block.withdrawals = draft.withdrawals
  BY <1>1, <1>5 DEF NInv, LInv, HeadersMade, Block
<1> QED BY <1>1, <1>2, <1>3, <1>4, <1>6, DraftAssumption

(* The numbers of blocks, and the hashes that BLOCKHASH answers, are values. *)
LEMMA HashesAreValues ==
  ASSUME NInv, NEW v \in 0..(2 * MaxBlocks), NEW n \in Nat
  PROVE  v \in Values /\ BlockHash(v, n) \in Values
<1>1. MaxBlocks \in Nat
  BY ChainAssumption
<1>2. v \in Values /\ NoHash \in Values
  BY <1>1, HashAssumption DEF NoHash
<1>3. Len(headers) <= MaxBlocks + 1 /\ Len(headers) \in Nat /\ DOMAIN headers = 1..Len(headers)
  BY AppendFacts DEF NInv, LInv, CInv, HeadersOK, HeadersMade
<1>4. DOMAIN blocks = 1..Len(blocks) /\ Len(blocks) \in Nat
  BY AppendFacts DEF NInv, LInv, CInv, BlocksOK
<1>5. CASE n < Len(blocks)
  <2>1. blocks[n + 1].hash \in DOMAIN headers
    BY <1>4, <1>5 DEF NInv, LInv, CInv, BlocksOK
  <2>2. blocks[n + 1].hash \in 0..(2 * MaxBlocks + 1)
    BY <1>1, <1>3, <2>1
  <2> QED BY <1>2, <2>2, HashAssumption DEF BlockHash
<1>6. CASE ~(n < Len(blocks))
  BY <1>2, <1>4, <1>6 DEF BlockHash
<1> QED BY <1>5, <1>6

LEMMA BeginUsed ==
  ASSUME NInv, FInv', LInv', VInv', BeginBlock
  PROVE  NInv'
<1>1. /\ UNCHANGED <<headers, blocks, acc, current, next>>
      /\ phase = "header" /\ phase' = "transactions" /\ EarlyError = NoException
      /\ work' = [acc EXCEPT !.accountMap = BeaconCall(Found(Block.parent).sigma, Block),
                             !.gasUsed = 0,
                             !.receipts = <<>>]
  BY DEF BeginBlock
<1>2. next = 1 /\ current.hash \in DOMAIN headers
  BY <1>1 DEF NInv, FInv, GInv, CInv, InHandGas, InHandOK
<1>3. Block.parent \in Accepted
  BY <1>1, EarlyErrorNone
<1>4. PICK i \in DOMAIN blocks : Found(Block.parent) = blocks[i] /\ blocks[i].hash = Block.parent
  BY <1>3, FoundHasHash DEF NInv, VInv, CInv
<1>5. PICK sigma, tau : sigma = blocks[i].sigma /\ tau = BeaconCall(sigma, Block)
  OBVIOUS
<1>6. work'.accountMap = tau
  <2>1. "accountMap" \in DOMAIN acc
    BY DEF NInv, FInv, GInv, FieldsOK, StateFields
  <2> QED BY <1>1, <1>4, <1>5, <2>1
<1>7. sigma \in AccountMap /\ Spent(Histories(headers)[Block.parent], sigma)
  BY <1>4, <1>5 DEF NInv, StatesUsed
<1>8. Block.txs \in Seq(TxRecord) /\ Block.number \in Values
  <2>1. Block.txs \in Seq(TxRecord) /\ Block.number \in 0..(2 * MaxBlocks)
    BY <1>2, InHandTyped
  <2> QED BY <2>1, ChainAssumption, HashAssumption
<1>9. Ages(sigma, tau)
  BY <1>5, <1>7, <1>8, ChainAssumption, StoreAllAges DEF BeaconCall
<1>10. Spent(Histories(headers)[Block.parent], tau) /\ tau \in AccountMap
  BY <1>7, <1>9, SpentStays DEF Ages
<1>11. Histories(headers)[Block.parent] \o SubSeq(Block.txs, 1, 1 - 1) = Histories(headers)[Block.parent]
  BY <1>8, <1>10, FirstTransactions DEF Spent
<1>12. WorkUsed'
  <2>1. Block' = Block /\ headers' = headers /\ next' = 1
    BY <1>1, <1>2 DEF Block
  <2>2. Spent(Histories(headers)[Block.parent] \o SubSeq(Block.txs, 1, next' - 1), work'.accountMap)
    BY <1>6, <1>10, <1>11, <2>1
  <2> QED BY <1>1, <1>6, <1>10, <2>1, <2>2, Zenon DEF WorkUsed
<1> QED BY <1>1, <1>12, UsedKept

(* The transaction has the nonce of its sender, who used no such before. *)
LEMMA ExecuteUsed ==
  ASSUME NInv, FInv', LInv', VInv', ExecuteTransaction
  PROVE  NInv'
<1>1. PICK T, seen, sigma, tau, past :
        /\ T = Block.txs[next] /\ seen = BlockHash(Block.number, T.asks)
        /\ sigma = work.accountMap /\ tau = Upsilon(sigma, Block, T, seen)
        /\ past = Histories(headers)[Block.parent] \o SubSeq(Block.txs, 1, next - 1)
  OBVIOUS
<1>2. /\ UNCHANGED <<headers, blocks, acc, current, phase>>
      /\ phase = "transactions" /\ next <= Len(Block.txs) /\ next' = next + 1
      /\ TransactionError(work, Block, T) = NoException
      /\ work'.accountMap = tau
  BY <1>1 DEF ExecuteTransaction, Transaction, Executed
<1>3. sigma \in AccountMap /\ Spent(past, sigma)
  BY <1>1, <1>2 DEF NInv, WorkUsed
<1>4. /\ current.hash \in DOMAIN headers /\ Block.parent \in DOMAIN headers
      /\ Block.txs \in Seq(TxRecord) /\ Block.number \in 0..(2 * MaxBlocks)
  BY <1>2, InHandDrafted, InHandTyped
<1>5. next \in Nat /\ next >= 1 /\ next \in 1..Len(Block.txs) /\ T \in TxRecord
  <2>1. next \in Nat /\ next >= 1
    BY <1>2 DEF NInv, FInv, GInv, InHandGas, GasSoFar
  <2>2. next \in 1..Len(Block.txs)
    BY <1>2, <1>4, <2>1
  <2> QED BY <1>1, <1>4, <2>1, <2>2
<1>6. T.nonce = AccountAt(sigma, T.sender).nonce
  <2>1. ~(T.nonce < AccountAt(sigma, T.sender).nonce) /\ ~(T.nonce > AccountAt(sigma, T.sender).nonce)
    BY <1>1, <1>2, TransactionChecks
  <2>2. T.nonce \in Nat /\ T.sender \in Addr
    BY <1>5 DEF TxRecord
  <2>3. AccountAt(sigma, T.sender).nonce \in Nat
    BY <1>3, <2>2, NonceAt
  <2> QED BY <2>1, <2>2, <2>3
<1>7. T.asks # NoNumber => seen \in Values
  <2> SUFFICES ASSUME T.asks # NoNumber PROVE seen \in Values
    OBVIOUS
  <2>1. T.asks \in Nat
    BY <1>5 DEF TxRecord
  <2> QED BY <1>1, <1>4, <2>1, HashesAreValues
<1>8. Block.baseFee \in Int
  BY <1>2, InHandFee DEF NInv
<1>9. Ages(sigma, tau) /\ AccountAt(tau, T.sender).nonce > T.nonce
  BY <1>1, <1>3, <1>5, <1>6, <1>7, <1>8, UpsilonAges
<1>10. Spent(Append(past, T), tau) /\ tau \in AccountMap
  BY <1>3, <1>5, <1>6, <1>9, SpentAppend DEF Ages
<1>11. Append(past, T) = Histories(headers)[Block.parent] \o SubSeq(Block.txs, 1, next)
  <2>1. Histories(headers)[Block.parent] \in Seq(TxRecord)
    BY <1>4, HeadersLineage, HistoryWalk DEF NInv, FInv
  <2> QED BY <1>1, <1>4, <1>5, <2>1, FirstTransactions
<1>12. WorkUsed'
  <2>1. Block' = Block /\ headers' = headers /\ next' - 1 = next /\ phase' = "transactions"
    BY <1>2, <1>5 DEF Block
  <2>2. Spent(Histories(headers)[Block.parent] \o SubSeq(Block.txs, 1, next' - 1), work'.accountMap)
    BY <1>2, <1>10, <1>11, <2>1
  <2> QED BY <1>2, <1>10, <2>1, <2>2, Zenon DEF WorkUsed
<1> QED BY <1>2, <1>12, UsedKept

LEMMA WithdrawUsed ==
  ASSUME NInv, FInv', LInv', VInv', Withdraw
  PROVE  NInv'
<1>1. PICK sigma, tau, past :
        /\ sigma = work.accountMap /\ tau = ApplyWithdrawals(sigma, Block.withdrawals)
        /\ past = Histories(headers)[Block.parent] \o SubSeq(Block.txs, 1, next - 1)
  OBVIOUS
<1>2. /\ UNCHANGED <<headers, blocks, acc, current, next>>
      /\ phase = "transactions" /\ phase' = "validate" /\ next > Len(Block.txs)
      /\ work' = [work EXCEPT !.accountMap = ApplyWithdrawals(@, Block.withdrawals)]
  BY DEF Withdraw
<1>3. work'.accountMap = tau
  <2>1. "accountMap" \in DOMAIN work
    BY DEF NInv, FInv, GInv, FieldsOK, StateFields
  <2> QED BY <1>1, <1>2, <2>1
<1>4. sigma \in AccountMap /\ Spent(past, sigma)
  BY <1>1, <1>2 DEF NInv, WorkUsed
<1>5. Ages(sigma, tau)
  BY <1>1, <1>2, <1>4, InHandDrafted, WithdrawalsAge
<1>6. Spent(past, tau) /\ tau \in AccountMap
  BY <1>4, <1>5, SpentStays DEF Ages
<1>7. next = Len(Block.txs) + 1
  <2>1. GasSoFar /\ Block.txs \in Seq(TxRecord)
    BY <1>2, InHandDrafted, InHandTyped DEF NInv, FInv, GInv, InHandGas
  <2>2. Len(Block.txs) \in Nat
    BY <2>1
  <2> QED BY <1>2, <2>1, <2>2 DEF GasSoFar
<1>8. WorkUsed'
  <2>1. Block' = Block /\ headers' = headers /\ next' = next
    BY <1>2 DEF Block
  <2>2. Spent(Histories(headers)[Block.parent] \o SubSeq(Block.txs, 1, next - 1), work'.accountMap)
    BY <1>1, <1>3, <1>6
  <2> QED BY <1>3, <1>6, <1>7, <2>1, <2>2, Zenon DEF WorkUsed
<1> QED BY <1>2, <1>8, UsedKept

LEMMA AcceptUsed ==
  ASSUME NInv, FInv', LInv', VInv', AcceptBlock
  PROVE  NInv'
<1>1. PICK entry : entry = [hash |-> current.hash, sigma |-> work.accountMap]
  OBVIOUS
<1>2. /\ blocks' = Append(blocks, entry) /\ headers' = headers
      /\ phase = "validate" /\ phase' = "idle"
  BY <1>1 DEF AcceptBlock, Idle
<1>3. /\ DOMAIN blocks = 1..Len(blocks)
      /\ DOMAIN blocks' = 1..(Len(blocks) + 1)
      /\ \A i \in DOMAIN blocks : blocks'[i] = blocks[i]
      /\ blocks'[Len(blocks) + 1] = entry
  BY <1>2, AppendToBlocks DEF NInv, LInv, CInv
<1>4. /\ current.hash \in DOMAIN headers /\ Block.txs \in Seq(TxRecord)
      /\ Block.parent \in DOMAIN headers /\ Block.parent # NoHash
  BY <1>2, InHandDrafted, InHandTyped
<1>5. Lineage(headers)
  BY HeadersLineage DEF NInv, FInv
<1>6. /\ Histories(headers)[Block.parent] \in Seq(TxRecord)
      /\ Histories(headers)[entry.hash] = Histories(headers)[Block.parent] \o Block.txs
  BY <1>1, <1>4, <1>5, HistoryWalk DEF Block
<1>7. /\ work.accountMap \in AccountMap /\ next = Len(Block.txs) + 1
      /\ Spent(Histories(headers)[Block.parent] \o SubSeq(Block.txs, 1, next - 1),
               work.accountMap)
  BY <1>2 DEF NInv, WorkUsed
<1>8. Histories(headers)[Block.parent] \o SubSeq(Block.txs, 1, next - 1)
        = Histories(headers)[entry.hash]
  <2>1. next - 1 = Len(Block.txs)
    BY <1>4, <1>7
  <2>2. PICK past, txs : past = Histories(headers)[Block.parent] /\ txs = Block.txs
    OBVIOUS
  <2>3. past \in Seq(TxRecord) /\ txs \in Seq(TxRecord)
    BY <1>4, <1>6, <2>2
  <2>4. past \o SubSeq(txs, 1, Len(txs)) = past \o txs
    BY <2>3, FirstTransactions
  <2> QED BY <1>6, <2>1, <2>2, <2>4
<1>9. entry.sigma \in AccountMap /\ Spent(Histories(headers)[entry.hash], entry.sigma)
  BY <1>1, <1>7, <1>8
<1>10. \A i \in DOMAIN blocks' :
        /\ blocks'[i].sigma \in AccountMap
        /\ Spent(Histories(headers)[blocks'[i].hash], blocks'[i].sigma)
  <2> SUFFICES ASSUME NEW i \in DOMAIN blocks'
               PROVE  /\ blocks'[i].sigma \in AccountMap
                      /\ Spent(Histories(headers)[blocks'[i].hash], blocks'[i].sigma)
    OBVIOUS
  <2>1. CASE i \in DOMAIN blocks
    BY <1>3, <2>1 DEF NInv, StatesUsed
  <2>2. CASE i = Len(blocks) + 1
    BY <1>3, <1>9, <2>2
  <2> QED BY <1>3, <2>1, <2>2
<1>11. StatesUsed'
  BY <1>2, <1>10, Zenon DEF StatesUsed
<1> QED BY <1>2, <1>11 DEF NInv, WorkUsed

LEMMA NInvStep == NInv /\ [Next]_chainVars => NInv'
<1> SUFFICES ASSUME NInv, [Next]_chainVars PROVE NInv'
  OBVIOUS
<1>0. FInv' /\ LInv' /\ VInv'
  BY FInvStep, LInvStep, VInvStep DEF NInv
<1>1. ASSUME NEW p \in DOMAIN headers, NEW draft \in Drafts,
             NEW expects \in Expectations, TakeNewBlock(p, draft, expects)
      PROVE  NInv'
  <2>1. /\ phase' = "header" /\ blocks' = blocks
        /\ \E b : headers' = Append(headers, b)
    BY <1>1 DEF TakeNewBlock, Take
  <2>2. /\ \A h \in DOMAIN headers : headers'[h] = headers[h]
        /\ DOMAIN headers = 1..Len(headers) /\ Len(headers) \in Nat
        /\ DOMAIN headers' = 1..(Len(headers) + 1)
    BY <2>1, AppendFacts DEF NInv, LInv, CInv, HeadersOK
  <2>3. DOMAIN headers \subseteq DOMAIN headers'
    BY <2>2
  <2> QED BY <1>0, <2>1, <2>2, <2>3, UsedKept DEF WorkUsed
<1>2. ASSUME UNCHANGED <<headers, blocks>>, WorkUsed'
      PROVE  NInv'
  BY <1>0, <1>2, UsedKept
<1>3. ASSUME NEW h \in DOMAIN headers, NEW expects \in Expectations,
             TakeOldBlock(h, expects)
      PROVE  NInv'
  BY <1>2, <1>3 DEF TakeOldBlock, Take, WorkUsed
<1>4. ASSUME NEW last, NEW kind, EndTest(last, kind)
      PROVE  NInv'
  <2>1. UNCHANGED <<headers, blocks>> /\ phase' \in {"passed", "failed"}
    BY <1>4 DEF EndTest
  <2> QED BY <1>2, <2>1 DEF WorkUsed
<1>5. CASE \/ RefuseHeader \/ RefuseTransaction \/ RefuseBlock
           \/ CatchExpected \/ CatchUnexpected
  <2>1. UNCHANGED <<headers, blocks>> /\ phase' \in {"catch", "idle", "failed"}
    BY <1>5 DEF RefuseHeader, RefuseTransaction, RefuseBlock, Throw,
       CatchExpected, CatchUnexpected, Idle
  <2> QED BY <1>2, <2>1 DEF WorkUsed
<1>6. CASE UNCHANGED chainVars
  BY <1>2, <1>6 DEF NInv, WorkUsed, Block, chainVars
<1> QED BY <1>0, <1>1, <1>3, <1>4, <1>5, <1>6, BeginUsed, ExecuteUsed, WithdrawUsed, AcceptUsed
        DEF Next, Author, Runner

(* On one chain no transaction takes effect twice (validateTransaction).   *)
THEOREM NoTransactionReplays == Spec => []NoReplay
<1>1. NInv => NoReplay
  <2> SUFFICES ASSUME NInv, NEW i \in DOMAIN blocks,
                      NEW m \in DOMAIN History(blocks[i].hash),
                      NEW n \in DOMAIN History(blocks[i].hash), m # n
               PROVE  LET past == History(blocks[i].hash)
                      IN  <<past[m].sender, past[m].nonce>> # <<past[n].sender, past[n].nonce>>
    BY DEF NoReplay
  <2>1. PICK past : past = History(blocks[i].hash)
    OBVIOUS
  <2>2. past = Histories(headers)[blocks[i].hash]
    BY <2>1, HistoryIs
  <2>3. Spent(past, blocks[i].sigma)
    BY <2>2 DEF NInv, StatesUsed
  <2> QED BY <2>1, <2>3 DEF Spent
<1> QED BY <1>1, NInvInit, NInvStep, PTL DEF Spec
=============================================================================
