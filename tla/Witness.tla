------------------------------ MODULE Witness ------------------------------
(***************************************************************************)
(* The witness generator of the circuit (core/lib/circuit/src/witness).    *)
(* It keeps the same account tree as the state keeper, but knows nothing   *)
(* of handlers: for every operation of a block it changes the leaves of    *)
(* the tree again, takes a picture of them before and after each change,   *)
(* and cuts the operation into the chunks the circuit is to check.         *)
(*                                                                         *)
(* A root hash is the tree itself, an audit path with the leaf it leads to *)
(* is a branch of the tree.                                                *)
(***************************************************************************)
EXTENDS L2Ops
LOCAL INSTANCE SequencesExt

CONSTANT MaxTime   \* u32::MAX, the end of a range without an end

(* OperationBranch: one account, one of its balances. *)
Branch(tree, id, token) ==
    [id |-> id, token |-> token, address |-> tree[id].address, key |-> tree[id].key,
     nonce |-> tree[id].nonce, balance |-> tree[id].bal[token]]

ApplyLeaf(tree, id, token, delta, nonces) ==
    [tree EXCEPT ![id].bal[token] = @ + delta, ![id].nonce = @ + nonces]

(* OperationArguments::default; special_... as in the code. *)
NoArgs ==
    [a |-> 0, b |-> 0, full_amount |-> 0, fee |-> 0, eth_address |-> ZeroAddress,
     new_key |-> Locked, pub_nonce |-> 0,
     valid |-> << 0, MaxTime >>, second_valid |-> << 0, MaxTime >>,
     accounts |-> << 0, 0, 0, 0, 0 >>, tokens |-> << 0, 0, 0 >>, amounts |-> << 0, 0 >>,
     nonces |-> << 0, 0, 0 >>, prices |-> << << 0, 0 >>, << 0, 0 >> >>,
     order_amounts |-> << 0, 0 >>, eth_addresses |-> << ZeroAddress, ZeroAddress >>,
     content |-> 0, serial |-> 0]

(* SigDataInput: whose key, over which message. *)
NoSig == [key |-> Locked, msg |-> << >>]
SigData(tx) == [key |-> tx.signer, msg |-> SignBytes(tx)]
OrderSigData(order) == [key |-> order.signer, msg |-> OrderMessage(order)]

ChunksOf == [Noop |-> 1, Deposit |-> 6, Transfer |-> 2, TransferToNew |-> 6, Withdraw |-> 6,
             FullExit |-> 11, ChangePubKey |-> 6, ForcedExit |-> 6, MintNFT |-> 5,
             WithdrawNFT |-> 10, Swap |-> 5]

(* What is shown to the circuit in one chunk. *)
Picture(lhs, rhs, args, sig) == [lhs |-> lhs, rhs |-> rhs, args |-> args, sig |-> sig]

(* For each type ...Witness is apply_data: the tree after the operation,   *)
(* the branches met on the way, the arguments and the signature; sound is  *)
(* what apply_data asserts.  ...Operations is get_pubdata and              *)
(* calculate_operations; the last picture fills the chunks that only carry *)
(* public data.                                                            *)
Witnessed(type, w, pubdata, pictures) ==
    [sound |-> w.sound, tree |-> w.tree, pubdata |-> pubdata,
     chunks |-> [i \in 1 .. ChunksOf[type] |->
                   [type |-> type, chunk |-> i - 1, pubdata |-> pubdata,
                    shown |-> pictures[IF i <= Len(pictures) THEN i ELSE Len(pictures)]]]]

NoopWitness(tree, account) ==
    LET fees == Branch(tree, account, 0)
    IN Witnessed("Noop", [sound |-> TRUE, tree |-> tree], << "Noop" >>,
                 << Picture(fees, fees, NoArgs, NoSig) >>)

DepositWitness(tree, op) ==
    LET before == Branch(tree, op.account, op.token)
        fits == tree[op.account].address \in {op.to, ZeroAddress}
        after == ApplyLeaf([tree EXCEPT ![op.account].address = op.to],
                           op.account, op.token, op.amount, 0)
        last == Branch(after, op.account, op.token)
        args == [NoArgs EXCEPT !.eth_address = op.to, !.full_amount = op.amount,
                               !.a = op.amount]
    IN [sound |-> fits, tree |-> after, args |-> args,
        sig |-> NoSig, before |-> before, last |-> last]

DepositOperations(w) ==
    Witnessed("Deposit", w,
              << "Deposit", w.before.id, w.before.token, w.args.full_amount, w.args.eth_address >>,
              << Picture(w.before, w.before, w.args, w.sig), Picture(w.last, w.last, w.args, w.sig) >>)

FullExitWitness(tree, op) ==
    LET before == Branch(tree, op.account, op.token)
        after == IF op.withdraw = -1 THEN tree
                 ELSE [tree EXCEPT ![op.account].bal[op.token] = 0]
        last == Branch(after, op.account, op.token)
        stored == Branch(after, NftStorage, op.token)
        creator == Branch(after, op.nft.creator, op.token)
        args == [NoArgs EXCEPT !.eth_address = op.eth_address,
                               !.full_amount = Withdrawn(op),
                               !.eth_addresses = << op.nft.address, ZeroAddress >>,
                               !.accounts = << op.nft.creator, op.account, 0, 0, 0 >>,
                               !.content = op.nft.content, !.serial = op.nft.serial]
    IN [sound |-> TRUE, tree |-> after, args |-> args,
        sig |-> NoSig, before |-> before, last |-> last, stored |-> stored,
        creator |-> creator]

FullExitOperations(w) ==
    LET Show(branch) == Picture(branch, branch, w.args, w.sig)
    IN Witnessed("FullExit", w,
                 << "FullExit", w.before.id, w.args.eth_address, w.before.token, w.args.full_amount,
                    w.args.accounts[1], w.args.eth_addresses[1], w.args.serial, w.args.content >>,
                 << Show(w.before), Show(w.stored), Show(w.creator), Show(w.last) >>)

(* Both parts of a transfer: the sender's leaf, then the recipient's. *)
TransferArgs(op, from, address) ==
    [NoArgs EXCEPT !.full_amount = op.amount, !.fee = op.fee, !.eth_address = address,
                   !.a = from.balance, !.b = op.amount + op.fee, !.valid = op.valid]

TransferWitness(tree, op) ==
    LET from == Branch(tree, op.from_id, op.token)
        middle == ApplyLeaf(tree, op.from_id, op.token, -(op.amount + op.fee), 1)
        fromMiddle == Branch(middle, op.from_id, op.token)
        to == Branch(middle, op.to_id, op.token)
        after == ApplyLeaf(middle, op.to_id, op.token, op.amount, 0)
        args == TransferArgs(op, from, after[op.to_id].address)
    IN [sound |-> TRUE, tree |-> after, args |-> args,
        sig |-> SigData(op), from |-> from, fromMiddle |-> fromMiddle, to |-> to]

TransferOperations(w) ==
    Witnessed("Transfer", w,
              << "Transfer", w.from.id, w.from.token, w.to.id, w.args.full_amount, w.args.fee >>,
              << Picture(w.from, w.to, w.args, w.sig),
                 Picture(w.fromMiddle, w.to, w.args, w.sig) >>)

TransferToNewWitness(tree, op) ==
    LET from == Branch(tree, op.from_id, op.token)
        toBefore == Branch(tree, op.to_id, op.token)
        middle == ApplyLeaf(tree, op.from_id, op.token, -(op.amount + op.fee), 1)
        fromMiddle == Branch(middle, op.from_id, op.token)
        to == Branch(middle, op.to_id, op.token)
        after == ApplyLeaf([middle EXCEPT ![op.to_id].address = op.to],
                           op.to_id, op.token, op.amount, 0)
        toAfter == Branch(after, op.to_id, op.token)
        args == TransferArgs(op, from, op.to)
    IN [sound |-> to.address = ZeroAddress, tree |-> after, args |-> args,
        sig |-> SigData(op), from |-> from, toBefore |-> toBefore, fromMiddle |-> fromMiddle,
        to |-> to, toAfter |-> toAfter]

TransferToNewOperations(w) ==
    Witnessed("TransferToNew", w,
              << "TransferToNew", w.from.id, w.from.token, w.args.full_amount,
                 w.args.eth_address, w.to.id, w.args.fee >>,
              << Picture(w.from, w.toBefore, w.args, w.sig),
                 Picture(w.fromMiddle, w.to, w.args, w.sig),
                 Picture(w.fromMiddle, w.toAfter, w.args, w.sig) >>)

WithdrawWitness(tree, op) ==
    LET before == Branch(tree, op.account, op.token)
        after == ApplyLeaf(tree, op.account, op.token, -(op.amount + op.fee), 1)
        last == Branch(after, op.account, op.token)
        args == [NoArgs EXCEPT !.full_amount = op.amount, !.fee = op.fee,
                               !.eth_address = op.to, !.a = before.balance,
                               !.b = op.amount + op.fee, !.valid = op.valid]
    IN [sound |-> TRUE, tree |-> after, args |-> args,
        sig |-> SigData(op), before |-> before, last |-> last]

WithdrawOperations(w) ==
    Witnessed("Withdraw", w,
              << "Withdraw", w.before.id, w.before.token, w.args.full_amount, w.args.fee,
                 w.args.eth_address >>,
              << Picture(w.before, w.before, w.args, w.sig),
                 Picture(w.last, w.last, w.args, w.sig) >>)

ForcedExitWitness(tree, op) ==
    LET payer == Branch(tree, op.initiator, op.token)
        targetBefore == Branch(tree, op.target_id, op.token)
        middle == ApplyLeaf(tree, op.initiator, op.token, -op.fee, 1)
        payerMiddle == Branch(middle, op.initiator, op.token)
        target == Branch(middle, op.target_id, op.token)
        after == ApplyLeaf(middle, op.target_id, op.token, -op.withdraw, 0)
        targetAfter == Branch(after, op.target_id, op.token)
        args == [NoArgs EXCEPT !.full_amount = op.withdraw, !.fee = op.fee,
                               !.eth_address = op.target, !.a = payer.balance,
                               !.b = op.fee, !.valid = op.valid]
    IN [sound |-> TRUE, tree |-> after, args |-> args,
        sig |-> SigData(op), payer |-> payer, targetBefore |-> targetBefore,
        payerMiddle |-> payerMiddle, target |-> target, targetAfter |-> targetAfter]

ForcedExitOperations(w) ==
    Witnessed("ForcedExit", w,
              << "ForcedExit", w.payer.id, w.target.id, w.payer.token, w.args.full_amount,
                 w.args.fee, w.args.eth_address >>,
              << Picture(w.payer, w.targetBefore, w.args, w.sig),
                 Picture(w.payerMiddle, w.target, w.args, w.sig),
                 Picture(w.payerMiddle, w.targetAfter, w.args, w.sig) >>)

ChangePubKeyWitness(tree, op) ==
    LET before == Branch(tree, op.account_id, op.fee_token)
        after == ApplyLeaf([tree EXCEPT ![op.account_id].key = op.new_key],
                           op.account_id, op.fee_token, -op.fee, 1)
        args == [NoArgs EXCEPT !.eth_address = op.account, !.new_key = op.new_key,
                               !.fee = op.fee, !.pub_nonce = op.nonce,
                               !.a = before.balance, !.b = op.fee, !.valid = op.valid]
        last == Branch(after, op.account_id, op.fee_token)
    IN [sound |-> before.address = op.account, tree |-> after, args |-> args,
        sig |-> SigData(op), before |-> before, last |-> last]

ChangePubKeyOperations(w) ==
    Witnessed("ChangePubKey", w,
              << "ChangePubKey", w.before.id, w.args.new_key, w.args.eth_address, w.before.nonce,
                 w.before.token, w.args.fee >>,
              << Picture(w.before, w.last, w.args, w.sig) >>)

MintNFTWitness(tree, op) ==
    LET first == Branch(tree, op.creator, op.fee_token)
        tree2 == ApplyLeaf(tree, op.creator, op.fee_token, -op.fee, 1)
        second == Branch(tree2, op.creator, NftToken)
        serial == second.balance
        tree3 == ApplyLeaf(tree2, op.creator, NftToken, 1, 0)
        third == Branch(tree3, NftStorage, NftToken)
        token == third.balance
        tree4 == ApplyLeaf(tree3, NftStorage, NftToken, 1, 0)
        fourth == Branch(tree4, NftStorage, token)
        tree5 == ApplyLeaf(tree4, NftStorage, token,
                           ContentHash(op.creator, serial, op.content), 0)
        fifth == Branch(tree5, op.recipient_id, token)
        args == [NoArgs EXCEPT !.fee = op.fee, !.a = first.balance, !.b = op.fee,
                               !.eth_addresses = << fifth.address, ZeroAddress >>,
                               !.tokens = << op.fee_token, token, 0 >>,
                               !.accounts = << op.creator, op.recipient_id, 0, 0, 0 >>,
                               !.content = op.content, !.serial = serial]
    IN [sound |-> TRUE, tree |-> ApplyLeaf(tree5, op.recipient_id, token, 1, 0), args |-> args,
        sig |-> SigData(op), first |-> first, second |-> second, third |-> third,
        fourth |-> fourth, fifth |-> fifth]

MintNFTOperations(w) ==
    LET Show(branch) == Picture(branch, branch, w.args, w.sig)
    IN Witnessed("MintNFT", w,
                 << "MintNFT", w.first.id, w.fifth.id, w.args.content, w.first.token, w.args.fee >>,
                 << Show(w.first), Show(w.second), Show(w.third), Show(w.fourth), Show(w.fifth) >>)

WithdrawNFTWitness(tree, op) ==
    LET first == Branch(tree, op.account, op.fee_token)
        tree2 == ApplyLeaf(tree, op.account, op.fee_token, -op.fee, 1)
        second == Branch(tree2, op.account, op.token)
        after == ApplyLeaf(tree2, op.account, op.token, -1, 0)
        third == Branch(after, NftStorage, op.token)
        fourth == Branch(after, op.creator_id, 0)
        args == [NoArgs EXCEPT !.eth_address = op.to, !.fee = op.fee, !.a = first.balance,
                               !.b = op.fee, !.valid = op.valid,
                               !.eth_addresses = << fourth.address, ZeroAddress >>,
                               !.tokens = << op.fee_token, op.token, 0 >>,
                               !.accounts = << op.creator_id, op.account, 0, 0, 0 >>,
                               !.content = op.content, !.serial = op.serial]
    IN [sound |-> TRUE, tree |-> after, args |-> args,
        sig |-> SigData(op), first |-> first, second |-> second, third |-> third,
        fourth |-> fourth]

WithdrawNFTOperations(w) ==
    LET Show(branch) == Picture(branch, branch, w.args, w.sig)
    IN Witnessed("WithdrawNFT", w,
                 << "WithdrawNFT", w.args.accounts[2], w.args.accounts[1], w.args.eth_addresses[1],
                    w.args.serial, w.args.content, w.args.eth_address, w.args.tokens[2],
                    w.args.tokens[1], w.args.fee >>,
                 << Show(w.first), Show(w.second), Show(w.third), Show(w.fourth) >>)

(* nonce_mask: which of the orders are for a fixed amount. *)
Mask(args) == [i \in 1 .. 2 |-> IF args.order_amounts[i] # 0 THEN 1 ELSE 0]

(* Five leaves: what each order pays and who receives it, then the fee. *)
SwapWitness(tree, op) ==
    LET o == op.orders
        sold == [i \in 1 .. 2 |-> o[i].token_sell]
        up == [i \in 1 .. 2 |->
                 IF op.accounts[i] # op.submitter /\ o[i].amount # 0 THEN 1 ELSE 0]
        tree2 == ApplyLeaf(tree, op.accounts[1], sold[1], -op.amounts[1], up[1])
        tree3 == ApplyLeaf(tree2, op.recipients[2], sold[1], op.amounts[1], 0)
        tree4 == ApplyLeaf(tree3, op.accounts[2], sold[2], -op.amounts[2], up[2])
        tree5 == ApplyLeaf(tree4, op.recipients[1], sold[2], op.amounts[2], 0)
        pays1 == Branch(tree, op.accounts[1], sold[1])
        gets2 == Branch(tree2, op.recipients[2], sold[1])
        pays2 == Branch(tree3, op.accounts[2], sold[2])
        gets1 == Branch(tree4, op.recipients[1], sold[2])
        payer == Branch(tree5, op.submitter, op.fee_token)
        args == [NoArgs EXCEPT !.fee = op.fee, !.eth_address = payer.address,
                    !.amounts = op.amounts, !.order_amounts = << o[1].amount, o[2].amount >>,
                    !.accounts = << op.accounts[1], op.recipients[1], op.accounts[2],
                                    op.recipients[2], op.submitter >>,
                    !.tokens = << sold[1], sold[2], op.fee_token >>,
                    !.nonces = << o[1].nonce, o[2].nonce, op.nonce >>,
                    !.prices = << o[1].price, o[2].price >>,
                    !.eth_addresses = << gets1.address, gets2.address >>,
                    !.valid = o[1].valid, !.second_valid = o[2].valid]
    IN [sound |-> TRUE, tree |-> ApplyLeaf(tree5, op.submitter, op.fee_token, -op.fee, 1),
        args |-> args, sig |-> SigData(op),
        sigs |-> << OrderSigData(o[1]), OrderSigData(o[2]) >>,
        pays1 |-> pays1, paid1 |-> Branch(tree2, op.accounts[1], sold[1]), gets2 |-> gets2,
        pays2 |-> pays2, paid2 |-> Branch(tree4, op.accounts[2], sold[2]), gets1 |-> gets1,
        payer |-> payer]

SwapOperations(w) ==
    LET args == w.args
        Paying(branch, amount) == [args EXCEPT !.a = branch.balance, !.b = amount]
        args1 == Paying(w.pays1, args.amounts[1])
        args2 == Paying(w.pays2, args.amounts[2])
    IN Witnessed("Swap", w,
                 << "Swap", args.accounts, args.tokens, args.amounts, args.fee, Mask(args) >>,
                 << Picture(w.pays1, w.gets2, args1, w.sigs[1]),
                    Picture(w.paid1, w.gets2, args1, w.sigs[1]),
                    Picture(w.pays2, w.gets1, args2, w.sigs[2]),
                    Picture(w.paid2, w.gets1, args2, w.sigs[2]),
                    Picture(w.payer, w.payer, Paying(w.payer, args.fee), w.sig) >>)

OpWitness(tree, op) ==
    CASE op.type = "Deposit" -> DepositOperations(DepositWitness(tree, op))
      [] op.type = "FullExit" -> FullExitOperations(FullExitWitness(tree, op))
      [] op.type = "Transfer" -> TransferOperations(TransferWitness(tree, op))
      [] op.type = "TransferToNew" -> TransferToNewOperations(TransferToNewWitness(tree, op))
      [] op.type = "Withdraw" -> WithdrawOperations(WithdrawWitness(tree, op))
      [] op.type = "ForcedExit" -> ForcedExitOperations(ForcedExitWitness(tree, op))
      [] op.type = "ChangePubKey" -> ChangePubKeyOperations(ChangePubKeyWitness(tree, op))
      [] op.type = "MintNFT" -> MintNFTOperations(MintNFTWitness(tree, op))
      [] op.type = "WithdrawNFT" -> WithdrawNFTOperations(WithdrawNFTWitness(tree, op))
      [] op.type = "Swap" -> SwapOperations(SwapWitness(tree, op))

(***************************************************************************)
(* The witness of a block: the operations, one noop for the padding, and   *)
(* the fees, which the builder adds up by token.                           *)
(***************************************************************************)
CollectFees(tree, fees, account) ==
    FoldLeft(LAMBDA t, f: ApplyLeaf(t, account, f.token, f.amount, 0), tree, fees)

AddOperation(w, next) ==
    [sound |-> w.sound /\ next.sound, tree |-> next.tree,
     pubdata |-> Append(w.pubdata, next.pubdata), chunks |-> w.chunks \o next.chunks]

(* extend_pubdata_with_noops, collect_fees and calculate_pubdata_commitment *)
Completed(w, fees, account) ==
    [sound |-> w.sound, pubdata |-> w.pubdata,
     chunks |-> w.chunks \o NoopWitness(w.tree, account).chunks,
     validator |-> w.tree[account],
     tree |-> CollectFees(w.tree, fees, account)]

BlockWitness(tree, ops, fees, account) ==
    Completed(FoldLeft(LAMBDA w, op: AddOperation(w, OpWitness(w.tree, op)),
                       [sound |-> TRUE, tree |-> tree, pubdata |-> << >>, chunks |-> << >>],
                       ops),
              fees, account)
=============================================================================
