---------------------------- MODULE OperationLog ----------------------------
(***************************************************************************)
(* What the table of aggregated operations promises to the Ethereum        *)
(* sender: operations of three types, each type covering the blocks one    *)
(* range after the other, a range never ahead of the type that has to      *)
(* precede it on the contract.                                             *)
(***************************************************************************)
EXTENDS Integers, Sequences

CONSTANT MaxBlock           \* bound: blocks ever made

VARIABLE log

ActionTypes == {"CommitBlocks", "PublishProofBlocksOnchain", "ExecuteBlocks"}

Operation(type, first, last) == [type |-> type, first |-> first, last |-> last]

(* get_last_affected_block_by_aggregated_action: 0 before the first one. *)
LastAffectedBlock(ops, type) ==
    LET ends == {0} \cup {ops[i].last : i \in {j \in DOMAIN ops :
                                                  ops[j].type = type}}
    IN  CHOOSE b \in ends : \A c \in ends : c <= b

(* The last block that an operation of this type may cover. *)
Limit(ops, type) ==
    CASE type = "CommitBlocks" -> MaxBlock
      [] type = "PublishProofBlocksOnchain" ->
            LastAffectedBlock(ops, "CommitBlocks")
      [] type = "ExecuteBlocks" ->
            LastAffectedBlock(ops, "PublishProofBlocksOnchain")

MayFollow(ops, op) ==
    /\ op.first = LastAffectedBlock(ops, op.type) + 1
    /\ op.first <= op.last
    /\ op.last <= Limit(ops, op.type)

LogInit == log = <<>>

LogNext ==
    \E type \in ActionTypes, first, last \in 1..MaxBlock :
        /\ MayFollow(log, Operation(type, first, last))
        /\ log' = Append(log, Operation(type, first, last))

(* remove_aggregate_operations_and_bindings: the operations over blocks     *)
(* after the last correct one are removed, one that reaches beyond it is    *)
(* cut.                                                                     *)
Remaining(ops, last) ==
    LET kept == SelectSeq(ops, LAMBDA op : op.first <= last)
    IN  [i \in DOMAIN kept |->
            [kept[i] EXCEPT !.last = IF @ > last THEN last ELSE @]]

(* The block revert tool, run for a block that ends every range it is in. *)
LogRevert ==
    \E last \in 0..MaxBlock :
        /\ \A i \in DOMAIN log : ~(log[i].first <= last /\ last < log[i].last)
        /\ log' = Remaining(log, last)

LogSpec == LogInit /\ [][LogNext \/ LogRevert]_log
=============================================================================
