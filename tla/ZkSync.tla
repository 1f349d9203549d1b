------------------------------- MODULE ZkSync -------------------------------
(***************************************************************************)
(* The rollup contract on Ethereum (ZkSync.sol and the half of it that     *)
(* lives behind a delegatecall, AdditionalZkSync.sol): the priority queue, *)
(* the life of a block (commit, prove, execute, revert), the pending       *)
(* balances paid out to owners, and exodus mode.                           *)
(*                                                                         *)
(* A hash stands for what is hashed: storedBlockHashes holds the block     *)
(* itself, stateHash the balances of the rollup, a commitment the data it  *)
(* commits to.  The arguments a caller has to supply as a preimage are     *)
(* therefore read from storage.  One fungible token stands for all of      *)
(* them; an NFT is a token of which one unit exists, held by the special   *)
(* account until it is minted.  Every Ethereum transaction is one action.  *)
(***************************************************************************)
EXTENDS Integers, Sequences, FiniteSets

LOCAL INSTANCE Folds

CONSTANTS
    Owners,                 \* addresses; each owns the account of its name
    SPECIAL_ACCOUNT,        \* the NFT storage account
    Token,                  \* the fungible token
    NFTs,                   \* the NFTs
    Amounts,                \* amounts deposited and moved by one operation
    OpTypes,                \* the kinds of operation that blocks contain
    HonestRoots,            \* BOOLEAN, or {TRUE}: every submitted root is right
    NoOwner,                \* the empty slot of pendingWithdrawnNFTs
    InvalidRoot,            \* a state hash that no valid transition produces
    PRIORITY_EXPIRATION,
    COMMIT_TIMESTAMP_NOT_OLDER,
    COMMIT_TIMESTAMP_APPROXIMATION_DELTA,
    MaxBlocks,              \* bound: blocks ever committed at one time
    MaxRequests,            \* bound: priority requests ever made
    MaxOps,                 \* bound: operations in a block
    MaxBatch,               \* bound: blocks in one call
    MaxEthBlock,            \* bound: block.number
    MaxTime,                \* bound: block.timestamp
    Timestamps              \* timestamps that submitted blocks carry

ASSUME BoundsAssumption ==
    /\ MaxBlocks \in Nat
    /\ MaxRequests \in Nat
    /\ MaxOps \in Nat
    /\ MaxBatch \in Nat
    /\ MaxEthBlock \in Nat
    /\ MaxTime \in Nat
    /\ PRIORITY_EXPIRATION \in Nat \ {0}
    /\ COMMIT_TIMESTAMP_NOT_OLDER \in Nat
    /\ COMMIT_TIMESTAMP_APPROXIMATION_DELTA \in Nat
    /\ Timestamps \subseteq Nat
    /\ Amounts \subseteq Nat \ {0}

VARIABLES
    blockNumber,                    \* block.number
    now,                            \* block.timestamp
    reserve,                        \* tokens held by the contract
    firstPriorityRequestId,
    totalOpenPriorityRequests,
    totalCommittedPriorityRequests,
    priorityRequests,
    totalBlocksCommitted,
    totalBlocksProven,
    totalBlocksExecuted,
    storedBlockHashes,
    pendingBalances,
    pendingWithdrawnNFTs,
    mintedNFTs,                     \* how often the factory minted an NFT
    exodusMode,
    performedExodus

chainVars == <<blockNumber, now>>
queueVars == <<firstPriorityRequestId, totalOpenPriorityRequests,
               totalCommittedPriorityRequests, priorityRequests>>
blockVars == <<totalBlocksCommitted, totalBlocksProven, totalBlocksExecuted,
               storedBlockHashes>>
fundVars == <<reserve, pendingBalances, pendingWithdrawnNFTs, mintedNFTs>>
exodusVars == <<exodusMode, performedExodus>>
vars == <<chainVars, queueVars, blockVars, fundVars, exodusVars>>

BlockNumbers == 0..MaxBlocks
RequestIds == 0..MaxRequests
Accounts == Owners \cup {SPECIAL_ACCOUNT}
Tokens == {Token} \cup NFTs
MinU(m, n) == IF m <= n THEN m ELSE n
SumOver(f(_), S) ==
    MapThenFoldSet(LAMBDA m, n : m + n, 0, f, LAMBDA s : CHOOSE x \in s : TRUE, S)

(* Slots of a mapping that were never written: no block hashes to zero, and *)
(* an empty priority request has operation type 0 and expires at block 0.   *)
NoBlock == [blockNumber |-> -1]
NoRequest == [pubData |-> [type |-> "Noop"], expirationBlock |-> 0]

-----------------------------------------------------------------------------
(* Operations of the rollup.  `account' is the account charged, `to' the    *)
(* address or account credited.                                             *)

Op(type, account, to, token, amount) ==
    [type |-> type, account |-> account, to |-> to, token |-> token,
     amount |-> amount]

DepositOp(o, amount) == Op("Deposit", o, o, Token, amount)
FullExitOp(a, o, token, amount) == Op("FullExit", a, o, token, amount)

(* The operations a validator may put in a block. *)
L2Ops ==
    {op \in
        {DepositOp(o, n) : o \in Owners, n \in Amounts}
        \cup {FullExitOp(a, o, Token, n) :
                a \in Owners, o \in Owners, n \in Amounts \cup {0}}
        \cup {FullExitOp(a, o, t, n) :
                a \in Owners, o \in Owners, t \in NFTs, n \in {0, 1}}
        \cup {Op("PartialExit", a, o, Token, n) :
                a \in Owners, o \in Owners, n \in Amounts}
        \cup {Op("ForcedExit", a, a, Token, n) : a \in Owners, n \in Amounts}
        \cup {Op("WithdrawNFT", a, o, t, 1) :
                a \in Owners, o \in Owners, t \in NFTs}
        \cup {Op("Transfer", a, b, Token, n) :
                a \in Owners, b \in Owners, n \in Amounts}
        \cup {Op("Transfer", a, b, t, 1) :
                a \in Owners, b \in Owners, t \in NFTs}
        \cup {Op("MintNFT", SPECIAL_ACCOUNT, o, t, 1) :
                o \in Owners, t \in NFTs} :
     op.type \in OpTypes}

PriorityOpTypes == {"Deposit", "FullExit"}
ExitOpTypes == {"PartialExit", "ForcedExit", "WithdrawNFT", "FullExit"}
OnchainOpTypes == PriorityOpTypes \cup ExitOpTypes

(* What the circuit accepts, given the balances `root'. *)
CoveredByBalance(root, op) == root[op.account][op.token] >= op.amount

FullExitValid(root, op) ==
    op.amount = IF op.to = op.account THEN root[op.account][op.token] ELSE 0

ForcedExitValid(root, op) == op.amount = root[op.account][op.token]

OpValid(root, op) ==
    CASE op.type = "Deposit" -> TRUE
      [] op.type = "FullExit" -> FullExitValid(root, op)
      [] op.type = "ForcedExit" -> ForcedExitValid(root, op)
      [] OTHER -> CoveredByBalance(root, op)

ApplyOp(root, op) ==
    LET debited == IF op.type = "Deposit" THEN root
                   ELSE [root EXCEPT ![op.account][op.token] = @ - op.amount]
    IN  IF op.type \in {"Deposit", "Transfer", "MintNFT"}
          THEN [debited EXCEPT ![op.to][op.token] = @ + op.amount]
          ELSE debited

(* The root that the circuit derives from a block's operations. *)
ResultRoot(root, ops) ==
    LET after[k \in 0..Len(ops)] ==
          IF k = 0 THEN root
          ELSE IF after[k - 1] # InvalidRoot /\ OpValid(after[k - 1], ops[k])
            THEN ApplyOp(after[k - 1], ops[k])
            ELSE InvalidRoot
    IN  after[Len(ops)]

GenesisRoot == [a \in Accounts |-> [t \in Tokens |->
                    IF a = SPECIAL_ACCOUNT /\ t \in NFTs THEN 1 ELSE 0]]

-----------------------------------------------------------------------------
(* Priority queue. *)

(* The pubdata the queue remembers: the amount of a full exit is unknown    *)
(* when it is requested and written as zero.                                *)
QueuePubdata(op) == IF op.type = "FullExit" THEN [op EXCEPT !.amount = 0]
                                            ELSE op

(* A storage slot of the queue; one never written reads as empty. *)
Request(id) == IF id \in RequestIds THEN priorityRequests[id] ELSE NoRequest

CheckPriorityOperation(op, id) == Request(id).pubData = QueuePubdata(op)

NextPriorityRequestId == firstPriorityRequestId + totalOpenPriorityRequests

AddPriorityRequest(op) ==
    /\ NextPriorityRequestId < MaxRequests
    /\ blockNumber + PRIORITY_EXPIRATION <= MaxEthBlock
    /\ priorityRequests' = [priorityRequests EXCEPT ![NextPriorityRequestId] =
            [pubData |-> QueuePubdata(op),
             expirationBlock |-> blockNumber + PRIORITY_EXPIRATION]]
    /\ totalOpenPriorityRequests' = totalOpenPriorityRequests + 1
    /\ UNCHANGED <<firstPriorityRequestId, totalCommittedPriorityRequests>>

-----------------------------------------------------------------------------
(* Stored blocks.  onchainOps lists the on-chain operations in the order in *)
(* which the validator submitted them; the contract keeps the number of     *)
(* priority operations among them and the hash of the exits among them.     *)

PriorityPositions(block) ==
    {j \in DOMAIN block.onchainOps :
        block.onchainOps[j].type \in PriorityOpTypes}

(* The priority operations of the blocks lo..hi, each as <<block, position>>. *)
PrioritySlots(stored, lo, hi) ==
    {s \in (lo..hi) \X (1..MaxOps) : s[2] \in PriorityPositions(stored[s[1]])}

PriorityOperations(stored, lo, hi) == Cardinality(PrioritySlots(stored, lo, hi))

SlotsBefore(stored, lo, b, j) ==
    {s \in PrioritySlots(stored, lo, b) : s[1] < b \/ s[2] < j}

(* The exits of the blocks lo..hi. *)
ExitSlots(stored, lo, hi) ==
    {s \in (lo..hi) \X (1..MaxOps) :
        /\ s[2] \in DOMAIN stored[s[1]].onchainOps
        /\ stored[s[1]].onchainOps[s[2]].type \in ExitOpTypes}

(* The circuit's verdict on a commitment: the new root follows from the old *)
(* one, and the on-chain operations are exactly the ones that were listed.  *)
ProofExists(c) ==
    /\ c.newStateHash # InvalidRoot
    /\ c.newStateHash = ResultRoot(c.oldStateHash, c.publicData)
    /\ c.onchainOffsets = {k \in DOMAIN c.publicData :
                              c.publicData[k].type \in OnchainOpTypes}

GenesisBlock ==
    [blockNumber |-> 0, onchainOps |-> <<>>, timestamp |-> 0,
     stateHash |-> GenesisRoot, commitment |-> <<>>]

ExecutedRoot == storedBlockHashes[totalBlocksExecuted].stateHash

-----------------------------------------------------------------------------
Init ==
    /\ blockNumber = 0
    /\ now = COMMIT_TIMESTAMP_NOT_OLDER
    /\ reserve = 0
    /\ firstPriorityRequestId = 0
    /\ totalOpenPriorityRequests = 0
    /\ totalCommittedPriorityRequests = 0
    /\ priorityRequests = [id \in RequestIds |-> NoRequest]
    /\ totalBlocksCommitted = 0
    /\ totalBlocksProven = 0
    /\ totalBlocksExecuted = 0
    /\ storedBlockHashes =
            [b \in BlockNumbers |-> IF b = 0 THEN GenesisBlock ELSE NoBlock]
    /\ pendingBalances = [o \in Owners |-> 0]
    /\ pendingWithdrawnNFTs = [t \in NFTs |-> NoOwner]
    /\ mintedNFTs = [t \in NFTs |-> 0]
    /\ exodusMode = FALSE
    /\ performedExodus = {}

(* Ethereum mines a block. *)
MineBlock ==
    /\ blockNumber < MaxEthBlock
    /\ blockNumber' = blockNumber + 1
    /\ now' \in now..MaxTime
    /\ UNCHANGED <<queueVars, blockVars, fundVars, exodusVars>>

RequireActive_Always == TRUE
RequireActive == ~exodusMode

(* depositETH and depositERC20. *)
Deposit(o, amount) ==
    /\ RequireActive
    /\ amount > 0
    /\ AddPriorityRequest(DepositOp(o, amount))
    /\ reserve' = reserve + amount
    /\ UNCHANGED <<chainVars, blockVars, pendingBalances,
                   pendingWithdrawnNFTs, mintedNFTs, exodusVars>>

(* requestFullExit, and requestFullExitNFT when the token is an NFT. *)
RequestFullExit(account, sender, token) ==
    /\ RequireActive
    /\ account # SPECIAL_ACCOUNT
    /\ AddPriorityRequest(FullExitOp(account, sender, token, 0))
    /\ UNCHANGED <<chainVars, blockVars, fundVars, exodusVars>>

(* Blocks as the caller submits them: publicData, the order in which the    *)
(* on-chain operations are listed, whether the new root is the right one,   *)
(* and the timestamp.                                                       *)
BlockData == UNION {[1..k -> L2Ops] : k \in 0..MaxOps}

Listings(ops) ==
    {l \in UNION {[1..k -> DOMAIN ops] : k \in 0..Len(ops)} :
        \A i, j \in DOMAIN l : /\ l[i] = l[j] => i = j
                               /\ ops[l[i]].type \in OnchainOpTypes}

CommitBlockInfo ==
    UNION {[publicData : {ops}, onchainOperations : Listings(ops),
            honestRoot : HonestRoots, timestamp : Timestamps] :
           ops \in BlockData}

(* The block that commitOneBlock makes of `info' after the root `oldRoot'. *)
NewStateHash(oldRoot, info) ==
    IF info.honestRoot THEN ResultRoot(oldRoot, info.publicData)
                       ELSE InvalidRoot

NewBlock(number, oldRoot, info) ==
    [blockNumber |-> number,
     onchainOps |-> [j \in DOMAIN info.onchainOperations |->
                        info.publicData[info.onchainOperations[j]]],
     timestamp |-> info.timestamp,
     stateHash |-> NewStateHash(oldRoot, info),
     commitment |-> [oldStateHash |-> oldRoot,
                     newStateHash |-> NewStateHash(oldRoot, info),
                     publicData |-> info.publicData,
                     onchainOffsets |->
                        {info.onchainOperations[j] :
                            j \in DOMAIN info.onchainOperations}]]

UncommittedPriorityRequestsOffset_FromFirst == firstPriorityRequestId
UncommittedPriorityRequestsOffset ==
    firstPriorityRequestId + totalCommittedPriorityRequests

TimestampAcceptable_NoUpperBound(t) == now - COMMIT_TIMESTAMP_NOT_OLDER <= t
TimestampAcceptable(t) ==
    /\ now - COMMIT_TIMESTAMP_NOT_OLDER <= t
    /\ t <= now + COMMIT_TIMESTAMP_APPROXIMATION_DELTA

(* commitOneBlock's checks on block b, already placed in `stored' after its *)
(* predecessor, whose root its commitment contains.                         *)
CommitOneBlock(stored, b) ==
    /\ stored[b].blockNumber = stored[b - 1].blockNumber + 1
    /\ stored[b].commitment.oldStateHash = stored[b - 1].stateHash
    /\ stored[b].timestamp >= stored[b - 1].timestamp
    /\ TimestampAcceptable(stored[b].timestamp)
    /\ \A j \in PriorityPositions(stored[b]) :
          CheckPriorityOperation(
              stored[b].onchainOps[j],
              UncommittedPriorityRequestsOffset
                + Cardinality(SlotsBefore(stored, totalBlocksCommitted + 1, b, j)))

CommitBlocks(infos) ==
    LET last == totalBlocksCommitted + Len(infos)
        root[b \in totalBlocksCommitted..last] ==
            IF b = totalBlocksCommitted
              THEN storedBlockHashes[b].stateHash
              ELSE NewStateHash(root[b - 1], infos[b - totalBlocksCommitted])
        stored == [b \in BlockNumbers |->
                      IF b \in (totalBlocksCommitted + 1)..last
                        THEN NewBlock(b, root[b - 1],
                                      infos[b - totalBlocksCommitted])
                        ELSE storedBlockHashes[b]]
    IN  /\ RequireActive
        /\ last <= MaxBlocks
        /\ \A b \in (totalBlocksCommitted + 1)..last : CommitOneBlock(stored, b)
        /\ totalCommittedPriorityRequests' =
              totalCommittedPriorityRequests
                + PriorityOperations(stored, totalBlocksCommitted + 1, last)
        /\ totalCommittedPriorityRequests' <= totalOpenPriorityRequests
        /\ storedBlockHashes' = stored
        /\ totalBlocksCommitted' = last
        /\ UNCHANGED <<chainVars, firstPriorityRequestId,
                       totalOpenPriorityRequests, priorityRequests,
                       totalBlocksProven, totalBlocksExecuted, fundVars,
                       exodusVars>>

(* proveBlocks with n blocks that are not proven yet. *)
ProveBlocks(n) ==
    LET proven == totalBlocksProven + n
    IN  /\ RequireActive
        /\ proven <= MaxBlocks
        /\ \A b \in (totalBlocksProven + 1)..proven :
              /\ storedBlockHashes[b] # NoBlock
              /\ ProofExists(storedBlockHashes[b].commitment)
        /\ proven <= totalBlocksCommitted
        /\ totalBlocksProven' = proven
        /\ UNCHANGED <<chainVars, queueVars, totalBlocksCommitted,
                       totalBlocksExecuted, storedBlockHashes, fundVars,
                       exodusVars>>

(* What executeOneBlock credits to owner o for the exits in `slots'. *)
Credited(slots, o) ==
    SumOver(
        LAMBDA s : storedBlockHashes[s[1]].onchainOps[s[2]].amount,
        {s \in slots :
            LET op == storedBlockHashes[s[1]].onchainOps[s[2]]
            IN  op.to = o /\ op.token = Token})

(* The receiver that storePendingNFT records last, if it is called for t. *)
PendingNFT(slots, t) ==
    LET exits == {s \in slots :
                    LET op == storedBlockHashes[s[1]].onchainOps[s[2]]
                    IN  op.token = t /\ op.amount = 1}
        latest == CHOOSE s \in exits : \A r \in exits :
                    r[1] < s[1] \/ (r[1] = s[1] /\ r[2] <= s[2])
    IN  IF exits = {} THEN pendingWithdrawnNFTs[t]
        ELSE storedBlockHashes[latest[1]].onchainOps[latest[2]].to

ExecuteBlocks(n) ==
    LET executed == totalBlocksExecuted + n
        requests == PriorityOperations(storedBlockHashes,
                                       totalBlocksExecuted + 1, executed)
        exits == ExitSlots(storedBlockHashes, totalBlocksExecuted + 1, executed)
    IN  /\ RequireActive
        /\ executed <= MaxBlocks
        /\ \A b \in (totalBlocksExecuted + 1)..executed :
              storedBlockHashes[b] # NoBlock
        /\ executed <= totalBlocksProven
        /\ pendingBalances' =
              [o \in Owners |-> pendingBalances[o] + Credited(exits, o)]
        /\ pendingWithdrawnNFTs' = [t \in NFTs |-> PendingNFT(exits, t)]
        /\ firstPriorityRequestId' = firstPriorityRequestId + requests
        /\ totalCommittedPriorityRequests' =
              totalCommittedPriorityRequests - requests
        /\ totalOpenPriorityRequests' = totalOpenPriorityRequests - requests
        /\ totalBlocksExecuted' = executed
        /\ UNCHANGED <<chainVars, priorityRequests, totalBlocksCommitted,
                       totalBlocksProven, storedBlockHashes, reserve,
                       mintedNFTs, exodusVars>>

RevertableBlocks_Unchecked == totalBlocksCommitted
RevertableBlocks == totalBlocksCommitted - totalBlocksExecuted

RevertedPriorityRequests_None(committed) == 0
RevertedPriorityRequests(committed) ==
    PriorityOperations(storedBlockHashes, committed + 1, totalBlocksCommitted)

ProvenAfterRevert_Kept(committed) == totalBlocksProven
ProvenAfterRevert(committed) == MinU(totalBlocksProven, committed)

(* revertBlocks with n blocks: at most the blocks not executed go. *)
RevertBlocks(n) ==
    LET reverted == MinU(n, RevertableBlocks)
        committed == totalBlocksCommitted - reverted
    IN  /\ RequireActive
        /\ \A b \in (committed + 1)..totalBlocksCommitted :
              storedBlockHashes[b] # NoBlock
        /\ storedBlockHashes' =
              [b \in BlockNumbers |->
                  IF b \in (committed + 1)..totalBlocksCommitted
                    THEN NoBlock ELSE storedBlockHashes[b]]
        /\ totalBlocksCommitted' = committed
        /\ totalCommittedPriorityRequests' =
              totalCommittedPriorityRequests - RevertedPriorityRequests(committed)
        /\ totalBlocksProven' = ProvenAfterRevert(committed)
        /\ UNCHANGED <<chainVars, firstPriorityRequestId,
                       totalOpenPriorityRequests, priorityRequests,
                       totalBlocksExecuted, fundVars, exodusVars>>

(* The request whose expiration lets anyone raise exodus mode. *)
OldestRequest_Uncommitted == Request(UncommittedPriorityRequestsOffset)
OldestRequest == Request(firstPriorityRequestId)

ActivateExodusMode ==
    /\ ~exodusMode
    /\ blockNumber >= OldestRequest.expirationBlock
    /\ OldestRequest.expirationBlock # 0
    /\ exodusMode' = TRUE
    /\ UNCHANGED <<chainVars, queueVars, blockVars, fundVars, performedExodus>>

AlreadyExited_Never(account, token) == FALSE
AlreadyExited(account, token) == <<account, token>> \in performedExodus

(* The exit proof ties owner and amount to the last executed root. *)
PerformExodus(account, token) ==
    LET amount == ExecutedRoot[account][token]
    IN  /\ exodusMode
        /\ account # SPECIAL_ACCOUNT
        /\ ~AlreadyExited(account, token)
        /\ \/ /\ token = Token
              /\ pendingBalances' =
                    [pendingBalances EXCEPT ![account] = @ + amount]
              /\ UNCHANGED pendingWithdrawnNFTs
           \/ /\ token \in NFTs
              /\ amount # 0
              /\ pendingWithdrawnNFTs' =
                    [pendingWithdrawnNFTs EXCEPT ![token] = account]
              /\ UNCHANGED pendingBalances
        /\ performedExodus' = performedExodus \cup {<<account, token>>}
        /\ UNCHANGED <<chainVars, queueVars, blockVars, reserve, mintedNFTs,
                       exodusMode>>

OutstandingRequests_Uncommitted ==
    totalOpenPriorityRequests - totalCommittedPriorityRequests
OutstandingRequests == totalOpenPriorityRequests

CancelOutstandingDepositsForExodusMode(n) ==
    LET toProcess == MinU(OutstandingRequests, n)
        ids == firstPriorityRequestId..(firstPriorityRequestId + toProcess - 1)
        deposits(o) == {id \in ids :
                          /\ priorityRequests[id].pubData.type = "Deposit"
                          /\ priorityRequests[id].pubData.to = o}
    IN  /\ exodusMode
        /\ toProcess > 0
        /\ pendingBalances' =
              [o \in Owners |-> pendingBalances[o] +
                  SumOver(LAMBDA id : priorityRequests[id].pubData.amount,
                          deposits(o))]
        /\ priorityRequests' = [id \in RequestIds |->
              IF id \in ids THEN NoRequest ELSE priorityRequests[id]]
        /\ firstPriorityRequestId' = firstPriorityRequestId + toProcess
        /\ totalOpenPriorityRequests' = totalOpenPriorityRequests - toProcess
        /\ UNCHANGED <<chainVars, totalCommittedPriorityRequests, blockVars,
                       reserve, pendingWithdrawnNFTs, mintedNFTs, exodusVars>>

(* The token may take more than was asked for, up to the owner's balance. *)
WithdrawPendingBalance(o, taken) ==
    /\ taken \in 1..pendingBalances[o]
    /\ pendingBalances' = [pendingBalances EXCEPT ![o] = @ - taken]
    /\ reserve' = reserve - taken
    /\ UNCHANGED <<chainVars, queueVars, blockVars, pendingWithdrawnNFTs,
                   mintedNFTs, exodusVars>>

NFTAfterWithdrawal_Kept(t) == pendingWithdrawnNFTs[t]
NFTAfterWithdrawal(t) == NoOwner

WithdrawPendingNFTBalance(t) ==
    /\ pendingWithdrawnNFTs[t] # NoOwner
    /\ pendingWithdrawnNFTs' =
          [pendingWithdrawnNFTs EXCEPT ![t] = NFTAfterWithdrawal(t)]
    /\ mintedNFTs' = [mintedNFTs EXCEPT ![t] = @ + 1]
    /\ UNCHANGED <<chainVars, queueVars, blockVars, reserve, pendingBalances,
                   exodusVars>>

Next ==
    \/ MineBlock
    \/ \E o \in Owners, n \in Amounts : Deposit(o, n)
    \/ \E a \in Owners, o \in Owners, t \in Tokens : RequestFullExit(a, o, t)
    \/ /\ RequireActive
       /\ \E n \in 1..MaxBatch :
             /\ totalBlocksCommitted + n <= MaxBlocks
             /\ \E infos \in [1..n -> CommitBlockInfo] : CommitBlocks(infos)
    \/ \E n \in 1..MaxBatch : ProveBlocks(n)
    \/ \E n \in 1..MaxBatch : ExecuteBlocks(n)
    \/ \E n \in 1..MaxBatch : RevertBlocks(n)
    \/ ActivateExodusMode
    \/ \E a \in Owners, t \in Tokens : PerformExodus(a, t)
    \/ \E n \in 1..MaxRequests : CancelOutstandingDepositsForExodusMode(n)
    \/ \E o \in Owners : \E n \in 1..pendingBalances[o] :
          WithdrawPendingBalance(o, n)
    \/ \E t \in NFTs : WithdrawPendingNFTBalance(t)

Spec == Init /\ [][Next]_vars

(* Ethereum keeps mining, and anyone may call activateExodusMode; in exodus *)
(* mode every owner claims what is theirs and anyone cancels the deposits.  *)
(* Nothing is assumed of the validator.                                     *)
Fairness ==
    /\ WF_vars(MineBlock)
    /\ WF_vars(ActivateExodusMode)
    /\ \A a \in Owners, t \in Tokens : WF_vars(PerformExodus(a, t))
    /\ WF_vars(\E n \in 1..MaxRequests :
                    CancelOutstandingDepositsForExodusMode(n))
    /\ \A o \in Owners :
          WF_vars(\E n \in 1..pendingBalances[o] : WithdrawPendingBalance(o, n))

FairSpec == Spec /\ Fairness

-----------------------------------------------------------------------------
CountersOK ==
    /\ firstPriorityRequestId \in Nat
    /\ totalOpenPriorityRequests \in Nat
    /\ NextPriorityRequestId <= MaxRequests
    /\ totalCommittedPriorityRequests \in Nat
    /\ totalBlocksCommitted \in BlockNumbers
    /\ totalBlocksProven \in BlockNumbers
    /\ totalBlocksExecuted \in BlockNumbers

PriorityPubdata ==
    {DepositOp(o, n) : o \in Owners, n \in Amounts}
    \cup {FullExitOp(a, o, t, 0) : a \in Owners, o \in Owners, t \in Tokens}

Requests ==
    {NoRequest}
    \cup [pubData : PriorityPubdata, expirationBlock : Nat \ {0}]

StorageOK ==
    /\ priorityRequests \in [RequestIds -> Requests]
    /\ \A b \in BlockNumbers : storedBlockHashes[b] # NoBlock =>
          /\ storedBlockHashes[b].blockNumber = b
          /\ storedBlockHashes[b].onchainOps \in BlockData
          /\ storedBlockHashes[b].timestamp \in Nat

FlagsOK ==
    /\ blockNumber \in Nat
    /\ now \in Nat
    /\ exodusMode \in BOOLEAN
    /\ mintedNFTs \in [NFTs -> Nat]
    /\ performedExodus \subseteq Owners \X Tokens

(* Every counter stays within its bounds: no subtraction of executeBlocks,  *)
(* revertBlocks or cancelOutstandingDepositsForExodusMode goes below zero.  *)
(* Every slot of the storage holds a value of its kind.                     *)
TypeOK ==
    /\ FlagsOK
    /\ CountersOK
    /\ StorageOK

(* The contract executes only what is proven and proves only what is        *)
(* committed, and storedBlockHashes has an entry for exactly the blocks up  *)
(* to totalBlocksCommitted: revertBlocks leaves no stale entry that         *)
(* proveBlocks, executeBlocks or performExodus could match.                 *)
BlocksInOrder ==
    /\ totalBlocksExecuted <= totalBlocksProven
    /\ totalBlocksProven <= totalBlocksCommitted
    /\ \A b \in BlockNumbers :
          storedBlockHashes[b] # NoBlock <=> b <= totalBlocksCommitted

(* Until exodus, totalCommittedPriorityRequests counts the priority         *)
(* operations of the blocks committed and not executed, whatever sequence   *)
(* of commits, executions and reverts led here, and those are open requests.*)
PriorityAccounting ==
    ~exodusMode =>
        /\ totalCommittedPriorityRequests =
              PriorityOperations(storedBlockHashes, totalBlocksExecuted + 1,
                                 totalBlocksCommitted)
        /\ totalCommittedPriorityRequests <= totalOpenPriorityRequests

(* Until exodus, the priority operations of the blocks not executed yet,    *)
(* taken in order, are the requests at the head of the queue: executing the *)
(* blocks takes from the queue exactly the requests that the blocks         *)
(* process, also after a revert and a commit of other blocks.               *)
QueueMatchesBlocks ==
    ~exodusMode =>
        \A b \in (totalBlocksExecuted + 1)..totalBlocksCommitted :
            \A j \in PriorityPositions(storedBlockHashes[b]) :
                CheckPriorityOperation(
                    storedBlockHashes[b].onchainOps[j],
                    firstPriorityRequestId + Cardinality(
                        SlotsBefore(storedBlockHashes, totalBlocksExecuted + 1,
                                    b, j)))

(* Every block that counts as proven is a valid transition from the root of *)
(* the block before it: lowering totalBlocksProven in revertBlocks keeps a  *)
(* block committed in place of a proven one from inheriting its proof.      *)
ProvenChainValid ==
    \A b \in 1..totalBlocksProven : storedBlockHashes[b] # NoBlock =>
        LET c == storedBlockHashes[b].commitment
        IN  /\ ProofExists(c)
            /\ c.oldStateHash = storedBlockHashes[b - 1].stateHash
            /\ c.newStateHash = storedBlockHashes[b].stateHash

OpenDeposits ==
    {id \in firstPriorityRequestId..(NextPriorityRequestId - 1) :
        priorityRequests[id].pubData.type = "Deposit"}

Liabilities ==
    SumOver(LAMBDA o : pendingBalances[o], Owners)
    + SumOver(LAMBDA a : ExecutedRoot[a][Token],
              {a \in Owners : <<a, Token>> \notin performedExodus})
    + SumOver(LAMBDA id : priorityRequests[id].pubData.amount,
              OpenDeposits)

(* The tokens the contract holds are exactly what it owes: the pending      *)
(* balances, the balances in the last executed state of the accounts that   *)
(* did not leave through performExodus, and the deposits still in the       *)
(* queue.  No deposit is paid out twice by an executed block, performExodus *)
(* and cancelOutstandingDepositsForExodusMode together, none is lost, and   *)
(* no withdrawal takes a pending balance below zero.                        *)
Solvency ==
    /\ pendingBalances \in [Owners -> Nat]
    /\ reserve = Liabilities

(* Of every NFT there is one: held in the executed state by an account that *)
(* did not leave with it, or pending, or minted once on Ethereum.           *)
NFTUnique ==
    \A t \in NFTs :
        SumOver(LAMBDA a : ExecutedRoot[a][t],
                {a \in Accounts : <<a, t>> \notin performedExodus})
        + (IF pendingWithdrawnNFTs[t] = NoOwner THEN 0 ELSE 1)
        + mintedNFTs[t] = 1

(* A timestamp acceptable for the next block always exists: the bounds of   *)
(* commitOneBlock never leave the last committed block so far in the future *)
(* that its successor has to wait.                                          *)
NextTimestampExists ==
    \E t \in (now - COMMIT_TIMESTAMP_NOT_OLDER)
                ..(now + COMMIT_TIMESTAMP_APPROXIMATION_DELTA) :
        t >= storedBlockHashes[totalBlocksCommitted].timestamp

(* An executed block is final: no call removes or replaces it.              *)
ExecutedBlocksFinal ==
    [][/\ totalBlocksExecuted' >= totalBlocksExecuted
       /\ \A b \in 0..totalBlocksExecuted :
             storedBlockHashes'[b] = storedBlockHashes[b]]_vars

(* "Once it was raised, it can not be cleared again" (Storage.sol): in      *)
(* exodus mode the flag stays, no block changes and nobody deposits.        *)
ExodusIsFinal ==
    [][exodusMode => /\ exodusMode'
                     /\ UNCHANGED blockVars
                     /\ reserve' <= reserve]_vars

(* Every priority request is executed, or exodus mode is raised: committing *)
(* or proving a request, or reverting and committing it again, does not let *)
(* the validator keep it waiting past its expiration.                       *)
RequestsServedOrExodus ==
    \A id \in RequestIds :
        (Request(id) # NoRequest) ~> (firstPriorityRequestId > id \/ exodusMode)

(* In exodus mode everything can be taken out: the owners' claims and the   *)
(* cancelled deposits empty the contract, whatever was committed, proven    *)
(* and not executed when the mode was raised.                               *)
ExodusPaysEverything == exodusMode ~> (reserve = 0)

(* "Priority operations must be committed in the same order as they are in  *)
(* the priority queue" (ZkSync.sol:687), for the order in which the block   *)
(* applies them: in a proven block, the priority operations in publicData   *)
(* order are the ones checked against the queue in queue order.             *)
PriorityOpsInQueueOrder ==
    \A b \in 1..totalBlocksProven :
        LET IsPriority(op) == op.type \in PriorityOpTypes
        IN  SelectSeq(storedBlockHashes[b].commitment.publicData, IsPriority)
              = SelectSeq(storedBlockHashes[b].onchainOps, IsPriority)
=============================================================================
