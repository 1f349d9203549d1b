---------------------------- MODULE ZkSyncProofs ----------------------------
(***************************************************************************)
(* Proofs about the rollup contract, for every number of owners, blocks,   *)
(* requests and operations per block.  The inductive invariant IInv joins  *)
(* the types of the counters and of the storage with the three facts about *)
(* blocks and requests; they need each other: the queue is matched at an   *)
(* offset that totalCommittedPriorityRequests provides, and that counter   *)
(* is exact only because storedBlockHashes has no stale entries.           *)
(***************************************************************************)
EXTENDS ZkSync, FiniteSetTheorems, TLAPS

(* The priority operations of an interval of blocks are finitely many. *)
LEMMA SlotsFinite ==
    ASSUME NEW stored, NEW lo \in Int, NEW hi \in Int
    PROVE  /\ IsFiniteSet(PrioritySlots(stored, lo, hi))
           /\ PriorityOperations(stored, lo, hi) \in Nat
<1>1. IsFiniteSet(lo..hi) /\ IsFiniteSet(1..MaxOps)
  BY FS_Interval, BoundsAssumption
<1>2. IsFiniteSet((lo..hi) \X (1..MaxOps))
  BY <1>1, FS_Product
<1>3. PrioritySlots(stored, lo, hi) \subseteq (lo..hi) \X (1..MaxOps)
  BY DEF PrioritySlots
<1>4. IsFiniteSet(PrioritySlots(stored, lo, hi))
  BY <1>2, <1>3, FS_Subset
<1> QED
  BY <1>4, FS_CardinalityType DEF PriorityOperations

(* Only the blocks of the interval matter. *)
LEMMA SlotsSame ==
    ASSUME NEW s, NEW t, NEW lo \in Int, NEW hi \in Int,
           \A b \in lo..hi : s[b] = t[b]
    PROVE  /\ PrioritySlots(s, lo, hi) = PrioritySlots(t, lo, hi)
           /\ PriorityOperations(s, lo, hi) = PriorityOperations(t, lo, hi)
<1>1. ASSUME NEW p \in (lo..hi) \X (1..MaxOps)
      PROVE  s[p[1]] = t[p[1]]
  OBVIOUS
<1>2. PrioritySlots(s, lo, hi) = PrioritySlots(t, lo, hi)
  BY <1>1 DEF PrioritySlots
<1> QED
  BY <1>2 DEF PriorityOperations

(* The count of an interval is the sum of the counts of its two parts. *)
LEMMA SlotsSplit ==
    ASSUME NEW stored, NEW lo \in Int, NEW mid \in Int, NEW hi \in Int,
           lo <= mid + 1, mid <= hi
    PROVE  PriorityOperations(stored, lo, hi) =
             PriorityOperations(stored, lo, mid)
               + PriorityOperations(stored, mid + 1, hi)
<1> DEFINE A == PrioritySlots(stored, lo, mid)
           B == PrioritySlots(stored, mid + 1, hi)
<1>1. PrioritySlots(stored, lo, hi) = A \cup B
  BY DEF PrioritySlots
<1>2. A \cap B = {}
  BY DEF PrioritySlots
<1>3. IsFiniteSet(A) /\ IsFiniteSet(B)
  BY SlotsFinite
<1>4. Cardinality(A) \in Nat /\ Cardinality(B) \in Nat
  BY <1>3, FS_CardinalityType
<1>5. Cardinality(A \cup B) = Cardinality(A) + Cardinality(B) - Cardinality({})
  BY <1>2, <1>3, FS_Union
<1>6. Cardinality({}) = 0
  BY FS_EmptySet
<1> QED
  BY <1>1, <1>4, <1>5, <1>6 DEF PriorityOperations

(* The priority operations before one of block b, counted from lo, are the  *)
(* ones up to an earlier block and the ones counted from the next block.    *)
LEMMA SlotsBeforeSplit ==
    ASSUME NEW stored, NEW lo \in Int, NEW mid \in Int, NEW b \in Int,
           NEW j, lo <= mid + 1, mid < b
    PROVE  Cardinality(SlotsBefore(stored, lo, b, j)) =
             PriorityOperations(stored, lo, mid)
               + Cardinality(SlotsBefore(stored, mid + 1, b, j))
<1> DEFINE A == PrioritySlots(stored, lo, mid)
           B == SlotsBefore(stored, mid + 1, b, j)
<1>1. SlotsBefore(stored, lo, b, j) = A \cup B
  BY DEF PrioritySlots, SlotsBefore
<1>2. A \cap B = {}
  BY DEF PrioritySlots, SlotsBefore
<1>3. IsFiniteSet(A) /\ IsFiniteSet(PrioritySlots(stored, mid + 1, b))
  BY SlotsFinite
<1>4. B \subseteq PrioritySlots(stored, mid + 1, b)
  BY DEF SlotsBefore
<1>5. IsFiniteSet(B)
  BY <1>3, <1>4, FS_Subset
<1>6. Cardinality(A) \in Nat /\ Cardinality(B) \in Nat
  BY <1>3, <1>5, FS_CardinalityType
<1>7. Cardinality(A \cup B) = Cardinality(A) + Cardinality(B) - Cardinality({})
  BY <1>2, <1>3, <1>5, FS_Union
<1>8. Cardinality({}) = 0
  BY FS_EmptySet
<1> QED
  BY <1>1, <1>6, <1>7, <1>8 DEF PriorityOperations

(* The priority operations before a given one are finitely many. *)
LEMMA SlotsBeforeNat ==
    ASSUME NEW stored, NEW lo \in Int, NEW b \in Int, NEW j
    PROVE  Cardinality(SlotsBefore(stored, lo, b, j)) \in Nat
<1>1. SlotsBefore(stored, lo, b, j) \subseteq PrioritySlots(stored, lo, b)
  BY DEF SlotsBefore
<1>2. IsFiniteSet(PrioritySlots(stored, lo, b))
  BY SlotsFinite
<1>3. IsFiniteSet(SlotsBefore(stored, lo, b, j))
  BY <1>1, <1>2, FS_Subset
<1> QED
  BY <1>3, FS_CardinalityType

(* A priority operation of a block comes before the end of its interval. *)
LEMMA SlotsBeforeBound ==
    ASSUME NEW stored, NEW lo \in Int, NEW hi \in Int, NEW b \in lo..hi,
           NEW j \in 1..MaxOps, j \in PriorityPositions(stored[b])
    PROVE  /\ Cardinality(SlotsBefore(stored, lo, b, j)) \in Nat
           /\ Cardinality(SlotsBefore(stored, lo, b, j))
                < PriorityOperations(stored, lo, hi)
<1> DEFINE A == SlotsBefore(stored, lo, b, j)
           S == PrioritySlots(stored, lo, hi)
<1>1. A \subseteq S
  BY DEF PrioritySlots, SlotsBefore
<1>2. <<b, j>> \in S /\ <<b, j>> \notin A
  BY BoundsAssumption DEF PrioritySlots, SlotsBefore
<1>3. IsFiniteSet(S)
  BY SlotsFinite
<1>4. IsFiniteSet(A) /\ Cardinality(A) <= Cardinality(S)
        /\ (Cardinality(A) = Cardinality(S) => A = S)
  BY <1>1, <1>3, FS_Subset
<1>5. Cardinality(A) \in Nat /\ Cardinality(S) \in Nat
  BY <1>3, <1>4, FS_CardinalityType
<1> QED
  BY <1>2, <1>4, <1>5 DEF PriorityOperations

(* The queue positions depend on the blocks of the interval only. *)
LEMMA SlotsBeforeSame ==
    ASSUME NEW s, NEW t, NEW lo \in Int, NEW b \in Int, NEW j,
           \A c \in lo..b : s[c] = t[c]
    PROVE  SlotsBefore(s, lo, b, j) = SlotsBefore(t, lo, b, j)
  BY SlotsSame DEF SlotsBefore

-----------------------------------------------------------------------------
IInv ==
    /\ CountersOK
    /\ StorageOK
    /\ BlocksInOrder
    /\ PriorityAccounting
    /\ QueueMatchesBlocks

(* Positions of a stored block are within the bound on its operations. *)
LEMMA PositionsBounded ==
    ASSUME NEW block, block.onchainOps \in BlockData
    PROVE  PriorityPositions(block) \subseteq 1..MaxOps
<1>1. PICK k \in 0..MaxOps : block.onchainOps \in [1..k -> L2Ops]
  BY DEF BlockData
<1> QED
  BY <1>1, BoundsAssumption DEF PriorityPositions

LEMMA InitIInv == Init => IInv
<1> SUFFICES ASSUME Init PROVE IInv
  OBVIOUS
<1>1. PriorityOperations(storedBlockHashes, 1, 0) = 0
  <2>1. PrioritySlots(storedBlockHashes, 1, 0) = {}
    BY DEF PrioritySlots
  <2> QED
    BY <2>1, FS_EmptySet DEF PriorityOperations
<1>2. CountersOK
  BY BoundsAssumption
  DEF Init, CountersOK, NextPriorityRequestId, BlockNumbers
<1>3. StorageOK
  <2>1. <<>> \in BlockData
    <3>1. <<>> \in [1..0 -> L2Ops]
      OBVIOUS
    <3> QED
      BY <3>1, BoundsAssumption DEF BlockData
  <2>2. NoRequest \in Requests
    BY DEF Requests
  <2> QED
    BY <2>1, <2>2 DEF Init, StorageOK, GenesisBlock
<1>4. BlocksInOrder
  <2>1. GenesisBlock.blockNumber # NoBlock.blockNumber
    BY DEF GenesisBlock, NoBlock
  <2> QED
    BY <2>1, BoundsAssumption DEF Init, BlocksInOrder, BlockNumbers
<1>5. PriorityAccounting /\ QueueMatchesBlocks
  BY <1>1 DEF Init, PriorityAccounting, QueueMatchesBlocks
<1> QED
  BY <1>2, <1>3, <1>4, <1>5 DEF IInv

(* A new request leaves the requests that blocks refer to in place. *)
LEMMA AddPriorityRequestIInv ==
    ASSUME IInv, NEW op, AddPriorityRequest(op), RequireActive,
           op \in PriorityPubdata, blockNumber \in Nat, UNCHANGED <<blockVars, exodusVars>>
    PROVE  IInv'
<1> USE DEF IInv
<1>1. CountersOK'
  BY BoundsAssumption DEF CountersOK, AddPriorityRequest,
     NextPriorityRequestId, blockVars, exodusVars
<1>2. StorageOK'
  <2>1. QueuePubdata(op) = op
    BY DEF QueuePubdata, PriorityPubdata, DepositOp, FullExitOp, Op
  <2> DEFINE request == [pubData |-> op,
                         expirationBlock |-> blockNumber + PRIORITY_EXPIRATION]
  <2>2. request.expirationBlock \in Nat \ {0}
    BY BoundsAssumption
  <2>3. priorityRequests' =
          [priorityRequests EXCEPT ![NextPriorityRequestId] = request]
    BY <2>1 DEF AddPriorityRequest
  <2> HIDE DEF request
  <2>4. request \in Requests
    BY <2>2 DEF request, Requests
  <2> QED
    BY <2>3, <2>4 DEF StorageOK, blockVars
<1>3. BlocksInOrder'
  BY DEF BlocksInOrder, blockVars
<1>4. PriorityAccounting'
  BY DEF PriorityAccounting, AddPriorityRequest, blockVars, exodusVars,
     RequireActive, CountersOK
<1>5. QueueMatchesBlocks'
  <2> SUFFICES ASSUME ~exodusMode,
                 NEW b \in (totalBlocksExecuted + 1)..totalBlocksCommitted,
                 NEW j \in PriorityPositions(storedBlockHashes[b])
               PROVE CheckPriorityOperation(
                    storedBlockHashes[b].onchainOps[j],
                    firstPriorityRequestId + Cardinality(
                        SlotsBefore(storedBlockHashes, totalBlocksExecuted + 1,
                                    b, j)))'
    BY DEF QueueMatchesBlocks, AddPriorityRequest, blockVars, exodusVars
  <2> DEFINE n == Cardinality(SlotsBefore(storedBlockHashes,
                                          totalBlocksExecuted + 1, b, j))
  <2>1. b \in BlockNumbers /\ storedBlockHashes[b] # NoBlock
    BY BoundsAssumption DEF CountersOK, BlocksInOrder, BlockNumbers
  <2>2. j \in 1..MaxOps
    BY <2>1, PositionsBounded DEF StorageOK
  <2>3. n \in Nat /\ n < totalCommittedPriorityRequests
    <3>1. totalBlocksExecuted + 1 \in Int /\ totalBlocksCommitted \in Int
      BY DEF CountersOK, BlockNumbers
    <3>2. /\ n \in Nat
          /\ n < PriorityOperations(storedBlockHashes, totalBlocksExecuted + 1,
                                    totalBlocksCommitted)
      BY <2>2, <3>1, SlotsBeforeBound
    <3> QED
      BY <3>2 DEF PriorityAccounting
  <2>4. firstPriorityRequestId + n < NextPriorityRequestId
    BY <2>3 DEF CountersOK, NextPriorityRequestId, PriorityAccounting
  <2>5. Request(firstPriorityRequestId + n)' = Request(firstPriorityRequestId + n)
    BY <2>3, <2>4 DEF Request, AddPriorityRequest, StorageOK, CountersOK,
       blockVars
  <2>6. CheckPriorityOperation(storedBlockHashes[b].onchainOps[j],
                               firstPriorityRequestId + n)
    BY DEF QueueMatchesBlocks
  <2> QED
    BY <2>5, <2>6 DEF CheckPriorityOperation, AddPriorityRequest, blockVars
<1> QED
  BY <1>1, <1>2, <1>3, <1>4, <1>5

(* What a caller submits becomes blocks with operations within the bound. *)
LEMMA NewBlockType ==
    ASSUME NEW info \in CommitBlockInfo, NEW number, NEW oldRoot
    PROVE  /\ NewBlock(number, oldRoot, info).blockNumber = number
           /\ NewBlock(number, oldRoot, info).onchainOps \in BlockData
           /\ NewBlock(number, oldRoot, info).timestamp \in Nat
<1>1. PICK ops \in BlockData :
        /\ info.publicData = ops
        /\ info.onchainOperations \in Listings(ops)
        /\ info.timestamp \in Timestamps
  BY DEF CommitBlockInfo
<1>2. PICK k \in 0..MaxOps : ops \in [1..k -> L2Ops]
  BY DEF BlockData
<1>3. Len(ops) = k /\ DOMAIN ops = 1..k
  BY <1>2, BoundsAssumption
<1>4. PICK m \in 0..k : info.onchainOperations \in [1..m -> 1..k]
  BY <1>1, <1>3 DEF Listings
<1> DEFINE listed == [j \in DOMAIN info.onchainOperations |->
                         info.publicData[info.onchainOperations[j]]]
<1>5. listed \in [1..m -> L2Ops]
  BY <1>1, <1>2, <1>4
<1>6. m \in 0..MaxOps
  BY BoundsAssumption
<1>7. listed \in BlockData
  BY <1>5, <1>6 DEF BlockData
<1> QED
  BY <1>1, <1>7, BoundsAssumption DEF NewBlock

(* Committing blocks: the new blocks are matched after the ones committed. *)
LEMMA CommitBlocksIInv ==
    ASSUME IInv, NEW n \in 1..MaxBatch, NEW infos \in [1..n -> CommitBlockInfo],
           CommitBlocks(infos)
    PROVE  IInv'
<1> USE DEF IInv
<1> DEFINE c == totalBlocksCommitted
           e == totalBlocksExecuted
           last == c + n
           S == storedBlockHashes'
<1>1. /\ c \in Nat /\ e \in Nat /\ e <= c /\ last \in Nat /\ c < last
      /\ n \in Nat
  BY BoundsAssumption DEF CountersOK, BlockNumbers, BlocksInOrder
<1>2. Len(infos) = n
  BY <1>1
<1>3. /\ RequireActive
      /\ last <= MaxBlocks
      /\ totalBlocksCommitted' = last
      /\ \A b \in (c + 1)..last : CommitOneBlock(S, b)
      /\ totalCommittedPriorityRequests' =
            totalCommittedPriorityRequests + PriorityOperations(S, c + 1, last)
      /\ totalCommittedPriorityRequests' <= totalOpenPriorityRequests
      /\ UNCHANGED <<chainVars, firstPriorityRequestId,
                     totalOpenPriorityRequests, priorityRequests,
                     totalBlocksProven, totalBlocksExecuted, fundVars,
                     exodusVars>>
  BY <1>2 DEF CommitBlocks
<1>4. \A b \in BlockNumbers :
        IF b \in (c + 1)..last
          THEN \E r : S[b] = NewBlock(b, r, infos[b - c])
          ELSE S[b] = storedBlockHashes[b]
  BY <1>2 DEF CommitBlocks
<1> HIDE DEF S
<1>5. \A b \in (c + 1)..last :
        /\ b \in BlockNumbers
        /\ S[b].blockNumber = b
        /\ S[b].onchainOps \in BlockData
        /\ S[b].timestamp \in Nat
  <2> SUFFICES ASSUME NEW b \in (c + 1)..last
               PROVE  /\ b \in BlockNumbers
                      /\ S[b].blockNumber = b
                      /\ S[b].onchainOps \in BlockData
                      /\ S[b].timestamp \in Nat
    OBVIOUS
  <2>1. b \in BlockNumbers
    BY <1>1, <1>3, BoundsAssumption DEF BlockNumbers
  <2>2. b - c \in 1..n
    BY <1>1
  <2>3. infos[b - c] \in CommitBlockInfo
    BY <2>2
  <2>4. PICK r : S[b] = NewBlock(b, r, infos[b - c])
    BY <1>4, <2>1
  <2> QED
    BY <2>1, <2>3, <2>4, NewBlockType
<1>6. PriorityOperations(S, e + 1, c) =
        PriorityOperations(storedBlockHashes, e + 1, c)
  <2>1. \A b \in (e + 1)..c : S[b] = storedBlockHashes[b]
    BY <1>1, <1>3, <1>4, BoundsAssumption DEF BlockNumbers
  <2> QED
    BY <1>1, <2>1, SlotsSame
<1>7. PriorityOperations(S, c + 1, last) \in Nat
  BY <1>1, SlotsFinite
<1>8. CountersOK'
  BY <1>1, <1>3, <1>7, BoundsAssumption
  DEF CountersOK, BlockNumbers, NextPriorityRequestId
<1>9. StorageOK'
  BY <1>3, <1>4, <1>5 DEF StorageOK, S
<1>10. BlocksInOrder'
  <2>1. ASSUME NEW b \in BlockNumbers
        PROVE  S[b] # NoBlock <=> b <= last
    <3>1. CASE b \in (c + 1)..last
      <4>1. S[b].blockNumber # NoBlock.blockNumber
        BY <1>1, <1>5, <3>1 DEF NoBlock
      <4>2. b <= last
        BY <1>1, <3>1
      <4> QED
        BY <4>1, <4>2
    <3>2. CASE b \notin (c + 1)..last
      <4>1. S[b] = storedBlockHashes[b]
        BY <1>4, <3>2
      <4>2. b <= c <=> b <= last
        BY <1>1, <3>2 DEF BlockNumbers
      <4> QED
        BY <4>1, <4>2 DEF BlocksInOrder
    <3> QED
      BY <3>1, <3>2
  <2> QED
    BY <1>1, <1>3, <2>1 DEF BlocksInOrder, S, CountersOK, BlockNumbers
<1>11. PriorityAccounting'
  <2>1. PriorityOperations(S, e + 1, last) =
          PriorityOperations(S, e + 1, c) + PriorityOperations(S, c + 1, last)
    BY <1>1, SlotsSplit
  <2> QED
    BY <1>3, <1>6, <2>1 DEF PriorityAccounting, RequireActive, S
<1>12. QueueMatchesBlocks'
  <2> SUFFICES ASSUME NEW b \in (e + 1)..last,
                      NEW j \in PriorityPositions(S[b])
               PROVE  CheckPriorityOperation(S[b].onchainOps[j],
                        firstPriorityRequestId
                          + Cardinality(SlotsBefore(S, e + 1, b, j)))
    BY <1>3 DEF QueueMatchesBlocks, CheckPriorityOperation, Request, S
  <2>1. CASE b <= c
    <3>1. ASSUME NEW x \in (e + 1)..b
          PROVE  S[x] = storedBlockHashes[x]
      <4>1. x \in BlockNumbers /\ x \notin (c + 1)..last
        BY <1>1, <1>3, <2>1, BoundsAssumption DEF BlockNumbers
      <4> QED
        BY <1>4, <4>1
    <3>2. SlotsBefore(S, e + 1, b, j) =
            SlotsBefore(storedBlockHashes, e + 1, b, j)
      BY <1>1, <3>1, SlotsBeforeSame
    <3>3. S[b] = storedBlockHashes[b]
      <4>1. b \in (e + 1)..b
        BY <1>1
      <4> QED
        BY <3>1, <4>1
    <3>4. b \in (e + 1)..c /\ ~exodusMode
      BY <1>1, <1>3, <2>1 DEF RequireActive
    <3> QED
      BY <3>2, <3>3, <3>4 DEF QueueMatchesBlocks
  <2>2. CASE b > c
    <3>1. b \in (c + 1)..last
      BY <1>1, <2>2
    <3>2. CheckPriorityOperation(S[b].onchainOps[j],
            UncommittedPriorityRequestsOffset
              + Cardinality(SlotsBefore(S, c + 1, b, j)))
      BY <1>3, <3>1 DEF CommitOneBlock
    <3>3. Cardinality(SlotsBefore(S, e + 1, b, j)) =
            PriorityOperations(S, e + 1, c)
              + Cardinality(SlotsBefore(S, c + 1, b, j))
      BY <1>1, <2>2, SlotsBeforeSplit
    <3>4. PriorityOperations(S, e + 1, c) = totalCommittedPriorityRequests
      BY <1>3, <1>6 DEF PriorityAccounting, RequireActive
    <3>5. Cardinality(SlotsBefore(S, c + 1, b, j)) \in Nat
      BY <1>1, SlotsBeforeNat
    <3>6. UncommittedPriorityRequestsOffset
            + Cardinality(SlotsBefore(S, c + 1, b, j))
          = firstPriorityRequestId + Cardinality(SlotsBefore(S, e + 1, b, j))
      BY <3>3, <3>4, <3>5
      DEF UncommittedPriorityRequestsOffset, CountersOK
    <3> QED
      BY <3>2, <3>6
  <2> QED
    BY <1>1, <2>1, <2>2
<1> QED
  BY <1>8, <1>9, <1>10, <1>11, <1>12

(* Proving blocks changes nothing that blocks and requests depend on. *)
LEMMA ProveBlocksIInv ==
    ASSUME IInv, NEW n \in 1..MaxBatch, ProveBlocks(n)
    PROVE  IInv'
<1> USE DEF IInv
<1>1. /\ totalBlocksProven' = totalBlocksProven + n
      /\ totalBlocksProven + n <= totalBlocksCommitted
      /\ UNCHANGED <<totalBlocksCommitted, totalBlocksExecuted,
                     storedBlockHashes, exodusMode>>
      /\ UNCHANGED <<firstPriorityRequestId, totalOpenPriorityRequests,
                     totalCommittedPriorityRequests, priorityRequests>>
  BY DEF ProveBlocks, queueVars, exodusVars
<1>2. CountersOK'
  BY <1>1, BoundsAssumption DEF CountersOK, BlockNumbers, NextPriorityRequestId
<1>3. StorageOK'
  BY <1>1 DEF StorageOK
<1>4. BlocksInOrder'
  BY <1>1, BoundsAssumption DEF BlocksInOrder, CountersOK, BlockNumbers
<1>5. PriorityAccounting'
  BY <1>1 DEF PriorityAccounting
<1>6. QueueMatchesBlocks'
  BY <1>1 DEF QueueMatchesBlocks, CheckPriorityOperation, Request
<1> QED
  BY <1>2, <1>3, <1>4, <1>5, <1>6

(* Executing blocks moves the head of the queue past their requests. *)
LEMMA ExecuteBlocksIInv ==
    ASSUME IInv, NEW n \in 1..MaxBatch, ExecuteBlocks(n)
    PROVE  IInv'
<1> USE DEF IInv
<1> DEFINE c == totalBlocksCommitted
           e == totalBlocksExecuted
           x == e + n
           S == storedBlockHashes
           requests == PriorityOperations(S, e + 1, x)
<1>1. /\ ~exodusMode
      /\ x <= totalBlocksProven
      /\ totalBlocksExecuted' = x
      /\ firstPriorityRequestId' = firstPriorityRequestId + requests
      /\ totalCommittedPriorityRequests' =
            totalCommittedPriorityRequests - requests
      /\ totalOpenPriorityRequests' = totalOpenPriorityRequests - requests
      /\ UNCHANGED <<totalBlocksCommitted, totalBlocksProven,
                     storedBlockHashes, priorityRequests, exodusMode>>
  BY DEF ExecuteBlocks, RequireActive, exodusVars
<1>2. /\ c \in Nat /\ e \in Nat /\ x \in Nat /\ x <= c /\ n \in Nat
      /\ e + 1 \in Int /\ x + 1 \in Int
  BY <1>1, BoundsAssumption DEF CountersOK, BlockNumbers, BlocksInOrder
<1>3. PriorityOperations(S, e + 1, c) =
        requests + PriorityOperations(S, x + 1, c)
  BY <1>2, SlotsSplit
<1>4. requests \in Nat /\ PriorityOperations(S, x + 1, c) \in Nat
  BY <1>2, SlotsFinite
<1>5. /\ totalCommittedPriorityRequests = PriorityOperations(S, e + 1, c)
      /\ totalCommittedPriorityRequests <= totalOpenPriorityRequests
  BY <1>1 DEF PriorityAccounting
<1> HIDE DEF requests
<1>6. CountersOK'
  BY <1>1, <1>2, <1>3, <1>4, <1>5, BoundsAssumption
  DEF CountersOK, BlockNumbers, NextPriorityRequestId
<1>7. StorageOK'
  BY <1>1 DEF StorageOK
<1>8. BlocksInOrder'
  BY <1>1 DEF BlocksInOrder
<1>9. PriorityAccounting'
  BY <1>1, <1>3, <1>4, <1>5 DEF PriorityAccounting, CountersOK
<1>10. QueueMatchesBlocks'
  <2> SUFFICES ASSUME NEW b \in (x + 1)..c,
                      NEW j \in PriorityPositions(S[b])
               PROVE  CheckPriorityOperation(S[b].onchainOps[j],
                        firstPriorityRequestId + requests
                          + Cardinality(SlotsBefore(S, x + 1, b, j)))
    BY <1>1 DEF QueueMatchesBlocks, CheckPriorityOperation, Request
  <2>1. b \in (e + 1)..c /\ b \in Int /\ x < b
    BY <1>2
  <2>2. CheckPriorityOperation(S[b].onchainOps[j],
          firstPriorityRequestId + Cardinality(SlotsBefore(S, e + 1, b, j)))
    BY <1>1, <2>1 DEF QueueMatchesBlocks
  <2>3. Cardinality(SlotsBefore(S, e + 1, b, j)) =
          requests + Cardinality(SlotsBefore(S, x + 1, b, j))
    BY <1>2, <2>1, SlotsBeforeSplit DEF requests
  <2>4. Cardinality(SlotsBefore(S, x + 1, b, j)) \in Nat
    <3>1. x + 1 \in Int /\ b \in Int
      BY <1>2
    <3> QED
      BY <3>1, SlotsBeforeNat
  <2>5. firstPriorityRequestId + requests
          + Cardinality(SlotsBefore(S, x + 1, b, j))
        = firstPriorityRequestId + Cardinality(SlotsBefore(S, e + 1, b, j))
    BY <1>4, <2>3, <2>4 DEF CountersOK
  <2> QED
    BY <2>2, <2>5
<1> QED
  BY <1>6, <1>7, <1>8, <1>9, <1>10

(* Reverting blocks returns their requests to the uncommitted ones. *)
LEMMA RevertBlocksIInv ==
    ASSUME IInv, NEW n \in 1..MaxBatch, RevertBlocks(n)
    PROVE  IInv'
<1> USE DEF IInv
<1> DEFINE c == totalBlocksCommitted
           e == totalBlocksExecuted
           d == c - MinU(n, RevertableBlocks)
           S == storedBlockHashes'
<1>1. /\ ~exodusMode
      /\ totalBlocksCommitted' = d
      /\ totalBlocksProven' = MinU(totalBlocksProven, d)
      /\ totalCommittedPriorityRequests' = totalCommittedPriorityRequests
            - PriorityOperations(storedBlockHashes, d + 1, c)
      /\ UNCHANGED <<totalBlocksExecuted, firstPriorityRequestId,
                     totalOpenPriorityRequests, priorityRequests, exodusMode>>
  BY DEF RevertBlocks, RequireActive, ProvenAfterRevert,
     RevertedPriorityRequests, exodusVars
<1>2. \A b \in BlockNumbers :
        S[b] = IF b \in (d + 1)..c THEN NoBlock ELSE storedBlockHashes[b]
  BY DEF RevertBlocks
<1>3. /\ c \in Nat /\ e \in Nat /\ d \in Nat /\ e <= d /\ d <= c
      /\ c <= MaxBlocks
  BY BoundsAssumption
  DEF CountersOK, BlockNumbers, BlocksInOrder, MinU, RevertableBlocks
<1> HIDE DEF d, S
<1>4. ASSUME NEW hi \in Int, hi <= d
      PROVE  \A b \in (e + 1)..hi : S[b] = storedBlockHashes[b]
  <2> SUFFICES ASSUME NEW b \in (e + 1)..hi
               PROVE  S[b] = storedBlockHashes[b]
    OBVIOUS
  <2>1. b \in BlockNumbers /\ b \notin (d + 1)..c
    BY <1>3, <1>4, BoundsAssumption DEF BlockNumbers
  <2> QED
    BY <1>2, <2>1
<1>5. PriorityOperations(S, e + 1, d) =
        PriorityOperations(storedBlockHashes, e + 1, d)
  BY <1>3, <1>4, SlotsSame
<1>6. PriorityOperations(storedBlockHashes, e + 1, c) =
        PriorityOperations(storedBlockHashes, e + 1, d)
          + PriorityOperations(storedBlockHashes, d + 1, c)
  BY <1>3, SlotsSplit
<1>7. /\ PriorityOperations(storedBlockHashes, e + 1, d) \in Nat
      /\ PriorityOperations(storedBlockHashes, d + 1, c) \in Nat
  BY <1>3, SlotsFinite
<1>8. /\ totalCommittedPriorityRequests =
            PriorityOperations(storedBlockHashes, e + 1, c)
      /\ totalCommittedPriorityRequests <= totalOpenPriorityRequests
  BY <1>1 DEF PriorityAccounting
<1>9. CountersOK'
  BY <1>1, <1>3, <1>6, <1>7, <1>8, BoundsAssumption
  DEF CountersOK, BlockNumbers, NextPriorityRequestId, MinU
<1>10. StorageOK'
  BY <1>1, <1>2 DEF StorageOK, S
<1>11. BlocksInOrder'
  <2>1. ASSUME NEW b \in BlockNumbers
        PROVE  S[b] # NoBlock <=> b <= d
    BY <1>2, <1>3 DEF BlocksInOrder, BlockNumbers
  <2>2. /\ totalBlocksExecuted' <= totalBlocksProven'
        /\ totalBlocksProven' <= totalBlocksCommitted'
    BY <1>1, <1>3 DEF BlocksInOrder, MinU, CountersOK, BlockNumbers
  <2> QED
    BY <1>1, <2>1, <2>2 DEF BlocksInOrder, S
<1>12. PriorityAccounting'
  BY <1>1, <1>5, <1>6, <1>7, <1>8 DEF PriorityAccounting, S, CountersOK
<1>13. QueueMatchesBlocks'
  <2> SUFFICES ASSUME NEW b \in (e + 1)..d,
                      NEW j \in PriorityPositions(S[b])
               PROVE  CheckPriorityOperation(S[b].onchainOps[j],
                        firstPriorityRequestId
                          + Cardinality(SlotsBefore(S, e + 1, b, j)))
    BY <1>1 DEF QueueMatchesBlocks, CheckPriorityOperation, Request, S
  <2>1. b \in Int /\ b <= d /\ b \in (e + 1)..c /\ b \in (e + 1)..b
    BY <1>3
  <2>2. \A a \in (e + 1)..b : S[a] = storedBlockHashes[a]
    BY <1>4, <2>1
  <2>3. SlotsBefore(S, e + 1, b, j) =
          SlotsBefore(storedBlockHashes, e + 1, b, j)
    BY <1>3, <2>1, <2>2, SlotsBeforeSame
  <2>4. S[b] = storedBlockHashes[b]
    BY <2>1, <2>2
  <2> QED
    BY <1>1, <2>1, <2>3, <2>4 DEF QueueMatchesBlocks
<1> QED
  BY <1>9, <1>10, <1>11, <1>12, <1>13

(* In exodus mode the queue shrinks; nothing is asked of the blocks. *)
LEMMA CancelIInv ==
    ASSUME IInv, NEW n \in 1..MaxRequests,
           CancelOutstandingDepositsForExodusMode(n)
    PROVE  IInv'
<1> USE DEF IInv
<1> DEFINE k == MinU(OutstandingRequests, n)
           ids == firstPriorityRequestId..(firstPriorityRequestId + k - 1)
<1>1. /\ exodusMode' /\ k > 0
      /\ priorityRequests' = [id \in RequestIds |->
            IF id \in ids THEN NoRequest ELSE priorityRequests[id]]
      /\ firstPriorityRequestId' = firstPriorityRequestId + k
      /\ totalOpenPriorityRequests' = totalOpenPriorityRequests - k
      /\ UNCHANGED <<totalCommittedPriorityRequests, totalBlocksCommitted,
                     totalBlocksProven, totalBlocksExecuted,
                     storedBlockHashes>>
  BY DEF CancelOutstandingDepositsForExodusMode, exodusVars, blockVars
<1>2. k \in Nat /\ k <= totalOpenPriorityRequests
  BY <1>1, BoundsAssumption DEF CountersOK, MinU, OutstandingRequests
<1> HIDE DEF k
<1>3. CountersOK'
  BY <1>1, <1>2, BoundsAssumption DEF CountersOK, NextPriorityRequestId
<1>4. StorageOK'
  <2>1. NoRequest \in Requests
    BY DEF Requests
  <2> HIDE DEF ids
  <2> QED
    BY <1>1, <2>1 DEF StorageOK
<1>5. BlocksInOrder' /\ PriorityAccounting' /\ QueueMatchesBlocks'
  BY <1>1 DEF BlocksInOrder, PriorityAccounting, QueueMatchesBlocks
<1> QED
  BY <1>3, <1>4, <1>5

(* Steps that touch neither the queue nor the blocks. *)
LEMMA UnchangedIInv ==
    ASSUME IInv, UNCHANGED <<queueVars, blockVars>>, exodusMode => exodusMode'
    PROVE  IInv'
  BY DEF IInv, queueVars, blockVars, CountersOK, NextPriorityRequestId,
     StorageOK, BlocksInOrder, PriorityAccounting, QueueMatchesBlocks,
     CheckPriorityOperation, Request

LEMMA NextIInv ==
    ASSUME IInv, FlagsOK, [Next]_vars
    PROVE  IInv'
<1>1. CASE MineBlock
  BY <1>1, UnchangedIInv DEF MineBlock, exodusVars
<1>2. ASSUME NEW o \in Owners, NEW n \in Amounts, Deposit(o, n)
      PROVE  IInv'
  <2>1. DepositOp(o, n) \in PriorityPubdata
    BY DEF PriorityPubdata
  <2> QED
    BY <1>2, <2>1, AddPriorityRequestIInv DEF Deposit, FlagsOK
<1>3. ASSUME NEW a \in Owners, NEW o \in Owners, NEW t \in Tokens,
             RequestFullExit(a, o, t)
      PROVE  IInv'
  <2>1. FullExitOp(a, o, t, 0) \in PriorityPubdata
    BY DEF PriorityPubdata
  <2> QED
    BY <1>3, <2>1, AddPriorityRequestIInv DEF RequestFullExit, FlagsOK
<1>4. ASSUME NEW n \in 1..MaxBatch, NEW infos \in [1..n -> CommitBlockInfo],
             CommitBlocks(infos)
      PROVE  IInv'
  BY <1>4, CommitBlocksIInv
<1>5. ASSUME NEW n \in 1..MaxBatch, ProveBlocks(n)
      PROVE  IInv'
  BY <1>5, ProveBlocksIInv
<1>6. ASSUME NEW n \in 1..MaxBatch, ExecuteBlocks(n)
      PROVE  IInv'
  BY <1>6, ExecuteBlocksIInv
<1>7. ASSUME NEW n \in 1..MaxBatch, RevertBlocks(n)
      PROVE  IInv'
  BY <1>7, RevertBlocksIInv
<1>8. CASE ActivateExodusMode
  BY <1>8, UnchangedIInv DEF ActivateExodusMode
<1>9. ASSUME NEW a \in Owners, NEW t \in Tokens, PerformExodus(a, t)
      PROVE  IInv'
  BY <1>9, UnchangedIInv DEF PerformExodus
<1>10. ASSUME NEW n \in 1..MaxRequests,
              CancelOutstandingDepositsForExodusMode(n)
       PROVE  IInv'
  BY <1>10, CancelIInv
<1>11. ASSUME NEW o \in Owners, NEW n, WithdrawPendingBalance(o, n)
       PROVE  IInv'
  BY <1>11, UnchangedIInv DEF WithdrawPendingBalance, exodusVars
<1>12. ASSUME NEW t \in NFTs, WithdrawPendingNFTBalance(t)
       PROVE  IInv'
  BY <1>12, UnchangedIInv DEF WithdrawPendingNFTBalance, exodusVars
<1>13. CASE UNCHANGED vars
  BY <1>13, UnchangedIInv DEF vars, exodusVars
<1> QED
  BY <1>1, <1>2, <1>3, <1>4, <1>5, <1>6, <1>7, <1>8, <1>9, <1>10, <1>11,
     <1>12, <1>13 DEF Next

LEMMA NextFlagsOK ==
    ASSUME FlagsOK, [Next]_vars
    PROVE  FlagsOK'
<1> USE DEF FlagsOK
<1>1. CASE MineBlock
  BY <1>1, BoundsAssumption DEF MineBlock, fundVars, exodusVars
<1>2. ASSUME NEW o, NEW n, Deposit(o, n)
      PROVE  FlagsOK'
  BY <1>2 DEF Deposit, chainVars, exodusVars
<1>3. ASSUME NEW a, NEW o, NEW t, RequestFullExit(a, o, t)
      PROVE  FlagsOK'
  BY <1>3 DEF RequestFullExit, chainVars, fundVars, exodusVars
<1>4. ASSUME NEW infos, CommitBlocks(infos)
      PROVE  FlagsOK'
  BY <1>4 DEF CommitBlocks, chainVars, fundVars, exodusVars
<1>5. ASSUME NEW n, ProveBlocks(n)
      PROVE  FlagsOK'
  BY <1>5 DEF ProveBlocks, chainVars, fundVars, exodusVars
<1>6. ASSUME NEW n, ExecuteBlocks(n)
      PROVE  FlagsOK'
  BY <1>6 DEF ExecuteBlocks, chainVars, exodusVars
<1>7. ASSUME NEW n, RevertBlocks(n)
      PROVE  FlagsOK'
  BY <1>7 DEF RevertBlocks, chainVars, fundVars, exodusVars
<1>8. CASE ActivateExodusMode
  BY <1>8 DEF ActivateExodusMode, chainVars, fundVars
<1>9. ASSUME NEW a \in Owners, NEW t \in Tokens, PerformExodus(a, t)
      PROVE  FlagsOK'
  BY <1>9 DEF PerformExodus, chainVars
<1>10. ASSUME NEW n, CancelOutstandingDepositsForExodusMode(n)
       PROVE  FlagsOK'
  BY <1>10 DEF CancelOutstandingDepositsForExodusMode, chainVars, exodusVars
<1>11. ASSUME NEW o, NEW n, WithdrawPendingBalance(o, n)
       PROVE  FlagsOK'
  BY <1>11 DEF WithdrawPendingBalance, chainVars, exodusVars
<1>12. ASSUME NEW t \in NFTs, WithdrawPendingNFTBalance(t)
       PROVE  FlagsOK'
  BY <1>12 DEF WithdrawPendingNFTBalance, chainVars, exodusVars
<1>13. CASE UNCHANGED vars
  BY <1>13 DEF vars, chainVars, fundVars, exodusVars
<1> QED
  BY <1>1, <1>2, <1>3, <1>4, <1>5, <1>6, <1>7, <1>8, <1>9, <1>10, <1>11,
     <1>12, <1>13 DEF Next

-----------------------------------------------------------------------------
(* The contract's types, and the inductive invariant. *)
THEOREM SpecIInv == Spec => [](FlagsOK /\ IInv)
<1>1. Init => FlagsOK /\ IInv
  <2>1. Init => FlagsOK
    <3>1. Init => blockNumber \in Nat /\ now \in Nat
      BY BoundsAssumption DEF Init
    <3>2. Init => mintedNFTs \in [NFTs -> Nat]
      BY DEF Init
    <3>3. Init => exodusMode \in BOOLEAN /\ performedExodus \subseteq Owners \X Tokens
      BY Zenon DEF Init
    <3> QED
      BY <3>1, <3>2, <3>3 DEF FlagsOK
  <2> QED
    BY <2>1, InitIInv
<1>2. FlagsOK /\ IInv /\ [Next]_vars => (FlagsOK /\ IInv)'
  BY NextFlagsOK, NextIInv
<1> QED
  BY <1>1, <1>2, PTL DEF Spec

(* The counters of queue and blocks never leave their ranges: every         *)
(* subtraction in executeBlocks, revertBlocks and                           *)
(* cancelOutstandingDepositsForExodusMode stays at zero or above.           *)
THEOREM TypeCorrect == Spec => []TypeOK
<1>1. FlagsOK /\ IInv => TypeOK
  BY DEF IInv, TypeOK
<1> QED
  BY <1>1, SpecIInv, PTL

(* executed <= proven <= committed, and storedBlockHashes holds exactly the *)
(* committed blocks, after any sequence of commits, proofs, executions and  *)
(* reverts.                                                                 *)
THEOREM BlocksStayInOrder == Spec => []BlocksInOrder
<1>1. FlagsOK /\ IInv => BlocksInOrder
  BY DEF IInv
<1> QED
  BY <1>1, SpecIInv, PTL

(* totalCommittedPriorityRequests is exact until exodus mode is raised.     *)
THEOREM AccountingIsExact == Spec => []PriorityAccounting
<1>1. FlagsOK /\ IInv => PriorityAccounting
  BY DEF IInv
<1> QED
  BY <1>1, SpecIInv, PTL

(* executeBlocks removes from the queue exactly the requests that the       *)
(* executed blocks process.                                                 *)
THEOREM BlocksMatchQueue == Spec => []QueueMatchesBlocks
<1>1. FlagsOK /\ IInv => QueueMatchesBlocks
  BY DEF IInv
<1> QED
  BY <1>1, SpecIInv, PTL
=============================================================================
