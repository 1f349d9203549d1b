----------------------------- MODULE Aggregator -----------------------------
(***************************************************************************)
(* The committer's polling task (aggregated_committer.rs): it joins        *)
(* finished blocks into operations to commit, to prove together, to        *)
(* publish the proof of, and to execute on the contract.  Every function   *)
(* is one database transaction.  Blocks and proofs are added meanwhile by  *)
(* the state keeper and by the prover server.                              *)
(***************************************************************************)
EXTENDS Integers, Sequences, FiniteSets

CONSTANTS
    MaxBlock,                           \* bound: blocks ever made
    MaxAggregatedBlocksToCommit,
    MaxAggregatedBlocksToExecute,
    MaxAggregateSize                    \* the last of aggregated_proof_sizes

ASSUME AggregatorAssumption ==
    /\ MaxBlock \in Nat
    /\ MaxAggregatedBlocksToCommit \in Nat \ {0}
    /\ MaxAggregatedBlocksToExecute \in Nat \ {0}
    /\ MaxAggregateSize \in Nat \ {0}

VARIABLES
    blocks,             \* the number of blocks with a root hash in the database
    proofs,             \* blocks that have a proof of their own
    aggregatedProofs,   \* ranges <<first, last>> that have a joint proof
    aggregateOps        \* the table aggregate_operations, in order of id

vars == <<blocks, proofs, aggregatedProofs, aggregateOps>>

Log == INSTANCE OperationLog
         WITH log <- SelectSeq(aggregateOps,
                               LAMBDA op : op.type # "CreateProofBlocks")

Operation(type, first, last) == Log!Operation(type, first, last)
LastAffectedBlock(type) == Log!LastAffectedBlock(aggregateOps, type)
Smaller(m, n) == IF m <= n THEN m ELSE n

StoreAggregatedAction(type, first, last) ==
    aggregateOps' = Append(aggregateOps, Operation(type, first, last))

Init ==
    /\ blocks = 0
    /\ proofs = {}
    /\ aggregatedProofs = {}
    /\ aggregateOps = <<>>

(* The committer completes the next block. *)
FinishBlock ==
    /\ blocks < MaxBlock
    /\ blocks' = blocks + 1
    /\ UNCHANGED <<proofs, aggregatedProofs, aggregateOps>>

(* Provers work on any block, and finish in any order. *)
StoreProof ==
    /\ \E b \in 1..blocks : b \notin proofs /\ proofs' = proofs \cup {b}
    /\ UNCHANGED <<blocks, aggregatedProofs, aggregateOps>>

StoreAggregatedProof ==
    /\ \E i \in DOMAIN aggregateOps :
          LET range == <<aggregateOps[i].first, aggregateOps[i].last>>
          IN  /\ aggregateOps[i].type = "CreateProofBlocks"
              /\ range \notin aggregatedProofs
              /\ aggregatedProofs' = aggregatedProofs \cup {range}
    /\ UNCHANGED <<blocks, proofs, aggregateOps>>

NewBlocks_OneMore(last) == blocks - last + 1
NewBlocks(last) == blocks - last

(* A prefix of the new blocks, as long as the gas limit allows, once a      *)
(* deadline, the gas, the number of blocks or a fast withdrawal asks for it.*)
CreateAggregatedCommits ==
    LET last == LastAffectedBlock("CommitBlocks")
    IN  /\ \E n \in 1..Smaller(NewBlocks(last), MaxAggregatedBlocksToCommit) :
              StoreAggregatedAction("CommitBlocks", last + 1, last + n)
        /\ UNCHANGED <<blocks, proofs, aggregatedProofs>>

(* The committed blocks after the last joint proof, up to the first without *)
(* a proof of its own.                                                      *)
BlocksWithProofs_AnyBlock(last) ==
    {b \in (last + 1)..LastAffectedBlock("CommitBlocks") : b \in proofs}
BlocksWithProofs(last) ==
    {b \in (last + 1)..LastAffectedBlock("CommitBlocks") :
        \A c \in (last + 1)..b : c \in proofs}

(* Fewer blocks than the size are padded. *)
ProvenTogether_NoPadding(ready) ==
    IF ready >= MaxAggregateSize THEN MaxAggregateSize ELSE 0
ProvenTogether(ready) == Smaller(ready, MaxAggregateSize)

CreateAggregatedProverTask ==
    LET last == LastAffectedBlock("CreateProofBlocks")
        n == ProvenTogether(Cardinality(BlocksWithProofs(last)))
    IN  /\ n > 0
        /\ StoreAggregatedAction("CreateProofBlocks", last + 1, last + n)
        /\ UNCHANGED <<blocks, proofs, aggregatedProofs>>

(* The joint proof that covers the first unpublished block, if it is there. *)
CreateAggregatedPublishProofOperation ==
    LET next == LastAffectedBlock("PublishProofBlocksOnchain") + 1
    IN  /\ next <= LastAffectedBlock("CreateProofBlocks")
        /\ \E i \in DOMAIN aggregateOps :
              LET op == aggregateOps[i]
              IN  /\ op.type = "CreateProofBlocks"
                  /\ op.first <= next /\ next <= op.last
                  /\ <<op.first, op.last>> \in aggregatedProofs
                  /\ StoreAggregatedAction("PublishProofBlocksOnchain",
                                           op.first, op.last)
        /\ UNCHANGED <<blocks, proofs, aggregatedProofs>>

ExecutableBlocks_Committed == LastAffectedBlock("CommitBlocks")
ExecutableBlocks == LastAffectedBlock("PublishProofBlocksOnchain")

CreateAggregatedExecuteOperation ==
    LET last == LastAffectedBlock("ExecuteBlocks")
    IN  /\ \E n \in 1..Smaller(ExecutableBlocks - last,
                               MaxAggregatedBlocksToExecute) :
              StoreAggregatedAction("ExecuteBlocks", last + 1, last + n)
        /\ UNCHANGED <<blocks, proofs, aggregatedProofs>>

CreateAggregatedOperations ==
    \/ CreateAggregatedCommits
    \/ CreateAggregatedProverTask
    \/ CreateAggregatedPublishProofOperation
    \/ CreateAggregatedExecuteOperation

Next ==
    \/ FinishBlock
    \/ StoreProof
    \/ StoreAggregatedProof
    \/ CreateAggregatedOperations

Spec == Init /\ [][Next]_vars

(* The committer's task polls for ever, and provers finish what they start. *)
FairSpec ==
    /\ Spec
    /\ WF_vars(StoreProof)
    /\ WF_vars(StoreAggregatedProof)
    /\ WF_vars(CreateAggregatedCommits)
    /\ WF_vars(CreateAggregatedProverTask)
    /\ WF_vars(CreateAggregatedPublishProofOperation)
    /\ WF_vars(CreateAggregatedExecuteOperation)

-----------------------------------------------------------------------------
(* The table holds operations over ranges of existing blocks. *)
TypeOK ==
    /\ blocks \in 0..MaxBlock
    /\ proofs \subseteq 1..blocks
    /\ \A i \in DOMAIN aggregateOps :
          /\ aggregateOps[i].type \in Log!ActionTypes \cup {"CreateProofBlocks"}
          /\ 1 <= aggregateOps[i].first
          /\ aggregateOps[i].first <= aggregateOps[i].last
          /\ aggregateOps[i].last <= blocks

(* A proof is published for the very range it was made for, and every block *)
(* in a joint proof had a proof of its own: the contract would refuse a     *)
(* proof over another range, and the prover cannot join a missing proof.    *)
PublishedAsProven ==
    \A i \in DOMAIN aggregateOps :
        LET op == aggregateOps[i]
        IN  /\ op.type = "CreateProofBlocks" => (op.first..op.last) \subseteq proofs
            /\ op.type = "PublishProofBlocksOnchain" =>
                  /\ <<op.first, op.last>> \in aggregatedProofs
                  /\ \E j \in 1..(i - 1) : aggregateOps[j] =
                        Operation("CreateProofBlocks", op.first, op.last)

(* The operations meant for the contract come as OperationLog says: ranges  *)
(* of a type follow each other, and none overtakes the type before it.      *)
ImplementsOperationLog == Log!LogSpec

(* Every finished block is eventually part of an execute operation, unless  *)
(* it is reverted.                                                          *)
EveryBlockExecuted ==
    \A b \in 1..MaxBlock :
        (blocks >= b) ~> (LastAffectedBlock("ExecuteBlocks") >= b \/ blocks < b)
=============================================================================
