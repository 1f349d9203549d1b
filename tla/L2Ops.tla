------------------------------- MODULE L2Ops -------------------------------
(***************************************************************************)
(* The two encodings of an operation (core/lib/types): the public data     *)
(* that goes to Ethereum, and the message that its author signs.  Both are *)
(* tuples that start with the operation's code.  FromPublicData reads what *)
(* the public data carry and leaves the other fields at their defaults.    *)
(***************************************************************************)
EXTENDS L2State
LOCAL INSTANCE TLC

Withdrawn(op) == IF op.withdraw = -1 THEN 0 ELSE op.withdraw
NonceMask(op) == [i \in 1 .. 2 |-> IF op.orders[i].amount # 0 THEN 1 ELSE 0]

PublicData(op) ==
    CASE op.type = "Deposit" ->
            << "Deposit", op.account, op.token, op.amount, op.to >>
      [] op.type = "FullExit" ->
            << "FullExit", op.account, op.eth_address, op.token, Withdrawn(op),
               op.nft.creator, op.nft.address, op.nft.serial, op.nft.content >>
      [] op.type = "Transfer" ->
            << "Transfer", op.from_id, op.token, op.to_id, op.amount, op.fee >>
      [] op.type = "TransferToNew" ->
            << "TransferToNew", op.from_id, op.token, op.amount, op.to, op.to_id, op.fee >>
      [] op.type = "Withdraw" ->
            << "Withdraw", op.account, op.token, op.amount, op.fee, op.to >>
      [] op.type = "ForcedExit" ->
            << "ForcedExit", op.initiator, op.target_id, op.token, Withdrawn(op),
               op.fee, op.target >>
      [] op.type = "ChangePubKey" ->
            << "ChangePubKey", op.account_id, op.new_key, op.account, op.nonce,
               op.fee_token, op.fee >>
      [] op.type = "MintNFT" ->
            << "MintNFT", op.creator, op.recipient_id, op.content, op.fee_token, op.fee >>
      [] op.type = "WithdrawNFT" ->
            << "WithdrawNFT", op.account, op.creator_id, op.creator_address, op.serial,
               op.content, op.to, op.token, op.fee_token, op.fee >>
      [] op.type = "Swap" ->
            << "Swap", << op.accounts[1], op.recipients[1], op.accounts[2],
                          op.recipients[2], op.submitter >>,
               << op.orders[1].token_sell, op.orders[2].token_sell, op.fee_token >>,
               op.amounts, op.fee, NonceMask(op) >>

(***************************************************************************)
(* Messages.                                                               *)
(***************************************************************************)
OrderMessage(o) ==
    << "Order", o.account, o.recipient, o.nonce, o.token_sell, o.token_buy, o.price,
       o.amount, o.valid >>

(* get_sign_bytes; a transfer signs the same bytes whether or not the      *)
(* recipient's account exists.                                             *)
SignBytes(tx) ==
    CASE tx.type \in {"Transfer", "TransferToNew"} ->
            << "Transfer", tx.account, tx.from, tx.to, tx.token, tx.amount, tx.fee,
               tx.nonce, tx.valid >>
      [] tx.type = "Withdraw" ->
            << "Withdraw", tx.account, tx.from, tx.to, tx.token, tx.amount, tx.fee,
               tx.nonce, tx.valid >>
      [] tx.type = "ForcedExit" ->
            << "ForcedExit", tx.initiator, tx.target, tx.token, tx.fee, tx.nonce, tx.valid >>
      [] tx.type = "ChangePubKey" ->
            << "ChangePubKey", tx.account_id, tx.account, tx.new_key, tx.fee_token,
               tx.fee, tx.nonce, tx.valid >>
      [] tx.type = "MintNFT" ->
            << "MintNFT", tx.creator, tx.creator_address, tx.content, tx.recipient,
               tx.fee_token, tx.fee, tx.nonce >>
      [] tx.type = "WithdrawNFT" ->
            << "WithdrawNFT", tx.account, tx.from, tx.to, tx.token, tx.fee_token, tx.fee,
               tx.nonce, tx.valid >>
      [] tx.type = "Swap" ->
            << "Swap", tx.submitter, tx.submitter_address, tx.nonce,
               OrderMessage(tx.orders[1]), OrderMessage(tx.orders[2]),
               tx.fee_token, tx.fee, tx.amounts >>

(***************************************************************************)
(* Reading public data.                                                    *)
(***************************************************************************)
FromDeposit(pd) ==
    [type |-> "Deposit", token |-> pd[3], amount |-> pd[4], to |-> pd[5]]
FromFullExit(pd) ==
    [type |-> "FullExit", account |-> pd[2], eth_address |-> pd[3], token |-> pd[4]]
FromTransfer(pd) ==
    [type |-> "Transfer", account |-> pd[2], from_id |-> pd[2], token |-> pd[3],
     to_id |-> pd[4], amount |-> pd[5], fee |-> pd[6],
     from |-> ZeroAddress, to |-> ZeroAddress, nonce |-> 0]
FromTransferToNew(pd) ==
    [type |-> "TransferToNew", account |-> pd[2], from_id |-> pd[2], token |-> pd[3],
     amount |-> pd[4], to |-> pd[5], to_id |-> pd[6], fee |-> pd[7],
     from |-> ZeroAddress, nonce |-> 0]
FromWithdraw(pd) ==
    [type |-> "Withdraw", account |-> pd[2], token |-> pd[3], amount |-> pd[4],
     fee |-> pd[5], to |-> pd[6], from |-> ZeroAddress, nonce |-> 0]
FromForcedExit(pd) ==
    [type |-> "ForcedExit", initiator |-> pd[2], target_id |-> pd[3], token |-> pd[4],
     withdraw |-> pd[5], fee |-> pd[6], target |-> pd[7], nonce |-> 0]
FromChangePubKey(pd) ==
    [type |-> "ChangePubKey", account_id |-> pd[2], new_key |-> pd[3], account |-> pd[4],
     nonce |-> pd[5], fee_token |-> pd[6], fee |-> pd[7], auth |-> "none"]
FromMintNFT(pd) ==
    [type |-> "MintNFT", creator |-> pd[2], recipient_id |-> pd[3], content |-> pd[4],
     fee_token |-> pd[5], fee |-> pd[6],
     creator_address |-> ZeroAddress, recipient |-> ZeroAddress, nonce |-> 0]
FromWithdrawNFT(pd) ==
    [type |-> "WithdrawNFT", account |-> pd[2], creator_id |-> pd[3],
     creator_address |-> pd[4], serial |-> pd[5], content |-> pd[6], to |-> pd[7],
     token |-> pd[8], fee_token |-> pd[9], fee |-> pd[10],
     from |-> ZeroAddress, nonce |-> 0]

(* The prices of the orders are not public: the ratio of the amounts does. *)
(* The nonce mask tells which of them were for a fixed amount.             *)
OrderAmount_Always(pd, i) == pd[4][i]
OrderAmount(pd, i) == pd[4][i] * pd[6][i]

FromSwap(pd) ==
    LET Order(i) == [account |-> pd[2][2 * i - 1], recipient |-> ZeroAddress, nonce |-> 0,
                     token_sell |-> pd[3][i], token_buy |-> pd[3][3 - i],
                     price |-> << pd[4][i], pd[4][3 - i] >>,
                     amount |-> OrderAmount(pd, i)]
    IN [type |-> "Swap", submitter |-> pd[2][5], submitter_address |-> ZeroAddress,
        nonce |-> 0, orders |-> << Order(1), Order(2) >>, amounts |-> pd[4],
        fee |-> pd[5], fee_token |-> pd[3][3],
        accounts |-> << pd[2][1], pd[2][3] >>, recipients |-> << pd[2][2], pd[2][4] >>]

FromPublicData(pd) ==
    CASE pd[1] = "Deposit" -> FromDeposit(pd)
      [] pd[1] = "FullExit" -> FromFullExit(pd)
      [] pd[1] = "Transfer" -> FromTransfer(pd)
      [] pd[1] = "TransferToNew" -> FromTransferToNew(pd)
      [] pd[1] = "Withdraw" -> FromWithdraw(pd)
      [] pd[1] = "ForcedExit" -> FromForcedExit(pd)
      [] pd[1] = "ChangePubKey" -> FromChangePubKey(pd)
      [] pd[1] = "MintNFT" -> FromMintNFT(pd)
      [] pd[1] = "WithdrawNFT" -> FromWithdrawNFT(pd)
      [] pd[1] = "Swap" -> FromSwap(pd)
=============================================================================
