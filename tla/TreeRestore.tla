---------------------------- MODULE TreeRestore ----------------------------
(***************************************************************************)
(* Rebuilding the rollup state from the public data of its blocks          *)
(* (core/bin/data_restore/src/tree_state.rs).  Priority operations are     *)
(* executed again.  For the others, the fields that are not public are     *)
(* filled in from the state rebuilt so far, and only the second half of    *)
(* the handler (apply_op) runs: no signature, nonce or time is known.      *)
(***************************************************************************)
EXTENDS L2Ops
LOCAL INSTANCE SequencesExt

(* The accounts an operation needs; the restore fails when one is missing. *)
Needed(op) ==
    CASE op.type = "Transfer" -> {op.from_id, op.to_id}
      [] op.type = "TransferToNew" -> {op.from_id}
      [] op.type = "Withdraw" -> {op.account}
      [] op.type = "ForcedExit" -> {op.initiator}
      [] op.type = "ChangePubKey" -> {op.account_id}
      [] op.type = "MintNFT" -> {op.creator, op.recipient_id}
      [] op.type = "WithdrawNFT" -> {op.account}
      [] op.type = "Swap" -> {op.submitter} \cup {op.accounts[i]: i \in 1 .. 2}
                                            \cup {op.recipients[i]: i \in 1 .. 2}

FillTransfer(s, op) ==
    LET from == s.tree[op.from_id]
        known == [op EXCEPT !.from = from.address, !.nonce = from.nonce]
    IN IF op.type = "Transfer" THEN [known EXCEPT !.to = s.tree[op.to_id].address] ELSE known
FillSender(s, op) ==
    [op EXCEPT !.from = s.tree[op.account].address, !.nonce = s.tree[op.account].nonce]
FillForcedExit(s, op) == [op EXCEPT !.nonce = s.tree[op.initiator].nonce]
FillChangePubKey(s, op) ==
    [op EXCEPT !.account = s.tree[op.account_id].address,
               !.nonce = s.tree[op.account_id].nonce]
FillMintNFT(s, op) ==
    [op EXCEPT !.creator_address = s.tree[op.creator].address,
               !.recipient = s.tree[op.recipient_id].address,
               !.nonce = s.tree[op.creator].nonce]
FillSwap(s, op) ==
    [op EXCEPT !.submitter_address = s.tree[op.submitter].address,
               !.nonce = s.tree[op.submitter].nonce,
               !.orders = [i \in 1 .. 2 |->
                   [@[i] EXCEPT !.nonce = s.tree[op.accounts[i]].nonce,
                                !.recipient = s.tree[op.recipients[i]].address]]]

Filled(s, op) ==
    CASE op.type \in {"Transfer", "TransferToNew"} -> FillTransfer(s, op)
      [] op.type \in {"Withdraw", "WithdrawNFT"} -> FillSender(s, op)
      [] op.type = "ForcedExit" -> FillForcedExit(s, op)
      [] op.type = "ChangePubKey" -> FillChangePubKey(s, op)
      [] op.type = "MintNFT" -> FillMintNFT(s, op)
      [] op.type = "Swap" -> FillSwap(s, op)

RestoreOp(s, pd) ==
    LET op == FromPublicData(pd)
    IN IF op.type \in Priority THEN ApplyOp(s, CreateOp(s, op))
       ELSE IF \A id \in Needed(op): Exists(s, id) THEN ApplyOp(s, Filled(s, op))
       ELSE Failed(s)

(* update_tree_states_from_ops_block *)
RestoreBlock(s, pubdata, account) ==
    LET Add(r, next) == [ok |-> r.ok /\ next.ok, s |-> next.s,
                         fees |-> Append(r.fees, next.fee)]
        Paid(r) == [ok |-> r.ok, s |-> CollectFee(r.s, r.fees, account).s]
    IN Paid(FoldLeft(LAMBDA r, pd: Add(r, RestoreOp(r.s, pd)),
                     [ok |-> TRUE, s |-> s, fees |-> << >>], pubdata))
=============================================================================
