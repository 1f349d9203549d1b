------------------------------ MODULE L2State ------------------------------
(***************************************************************************)
(* The rollup state (core/lib/state): the account tree, the index of       *)
(* accounts by address, the minted NFTs, and one handler per transaction.  *)
(*                                                                         *)
(* A handler has two halves in the code.  create_op checks a transaction   *)
(* against the state and resolves addresses to account ids; apply_op       *)
(* checks what is left, changes the state and lists the account updates.   *)
(* Here Create...(s, tx) is the operation, or NoOp, and Apply...(s, op) is *)
(* a record with ok, the new state, the updates and the fee.  Block        *)
(* execution uses both halves, data restore only the second.               *)
(*                                                                         *)
(* A transaction is a record of the fields of its Rust type.  A signature  *)
(* is the key that made it ("signer").  Amounts are packable, as           *)
(* check_correctness makes them before a transaction gets here.            *)
(***************************************************************************)
EXTENDS Integers, Sequences, FiniteSets
LOCAL INSTANCE TLC
LOCAL INSTANCE SequencesExt

CONSTANTS
    MaxFungible,   \* params::max_fungible_token_id = max_processable_token
    MinNft,        \* params::MIN_NFT_TOKEN_ID
    MaxToken,      \* params::max_token_id
    MaxAccount,    \* params::max_account_id
    Addresses,     \* Ethereum addresses, without 0 and the NFT storage's
    Keys           \* public key hashes, without 0

NftToken == MaxToken + 1       \* params::NFT_TOKEN_ID
NftStorage == MaxAccount + 1   \* params::NFT_STORAGE_ACCOUNT_ID
ZeroAddress == 0               \* also the address of an absent account
StorageAddress == -1           \* params::NFT_STORAGE_ACCOUNT_ADDRESS
Locked == 0                    \* PubKeyHash::default
NoId == -1

Fungible == 0 .. MaxFungible
Nfts == MinNft .. MaxToken
Tokens == Fungible \cup Nfts \cup {NftToken}
AccountIds == 0 .. NftStorage
AllAddresses == Addresses \cup {ZeroAddress, StorageAddress}

(***************************************************************************)
(* State.                                                                  *)
(***************************************************************************)
EmptyAccount == [address |-> ZeroAddress, key |-> Locked, nonce |-> 0,
                 bal |-> [t \in Tokens |-> 0]]
DefaultAccount(address) == [EmptyAccount EXCEPT !.address = address]
NoNft == [creator |-> 0, address |-> ZeroAddress, serial |-> 0, content |-> 0]

EmptyState == [tree |-> [i \in AccountIds |-> EmptyAccount],
               ids  |-> [a \in AllAddresses |-> NoId],
               next |-> 0,
               nfts |-> [t \in Nfts |-> NoNft]]

Exists(s, id) == id \in AccountIds /\ s.tree[id] # EmptyAccount
Known(s, address) == s.ids[address] # NoId
ByAddress(s, address) == s.tree[s.ids[address]]

InsertAccount(s, id, acc) ==
    [s EXCEPT !.tree[id] = acc, !.ids[acc.address] = id,
              !.next = IF id # NftStorage /\ id >= @ THEN id + 1 ELSE @]

RemoveAccount_StillIndexed(s, id) ==
    [s EXCEPT !.tree[id] = EmptyAccount, !.next = @ - 1]
RemoveAccount(s, id) ==
    [s EXCEPT !.tree[id] = EmptyAccount, !.ids[s.tree[id].address] = NoId,
              !.next = @ - 1]

Plus(acc, token, amount) == [acc EXCEPT !.bal[token] = @ + amount]
Minus(acc, token, amount) == [acc EXCEPT !.bal[token] = @ - amount]
NonceUp(acc) == [acc EXCEPT !.nonce = @ + 1]

(* What the storage account keeps for an NFT: a hash of these three. *)
ContentHash(creator, serial, content) ==
    1 + content + 10 * serial + 100 * creator

(***************************************************************************)
(* Account updates: what a block stores, and what undoes a failed batch.   *)
(***************************************************************************)
CreateUpdate(id, address) ==
    [kind |-> "Create", id |-> id, address |-> address, nonce |-> 0]
BalanceUpdate(id, token, old, new) ==
    [kind |-> "UpdateBalance", id |-> id, token |-> token,
     old |-> old.bal[token], new |-> new.bal[token],
     oldNonce |-> old.nonce, newNonce |-> new.nonce]
KeyUpdate(id, old, new) ==
    [kind |-> "ChangePubKeyHash", id |-> id, old |-> old.key, new |-> new.key,
     oldNonce |-> old.nonce, newNonce |-> new.nonce]
MintUpdate(id, token, nft) ==
    [kind |-> "MintNFT", id |-> id, token |-> token, nft |-> nft]

Reversed(u) ==
    CASE u.kind = "Create" -> [u EXCEPT !.kind = "Delete"]
      [] u.kind = "Delete" -> [u EXCEPT !.kind = "Create"]
      [] u.kind \in {"UpdateBalance", "ChangePubKeyHash"} ->
            [u EXCEPT !.old = u.new, !.new = u.old,
                      !.oldNonce = u.newNonce, !.newNonce = u.oldNonce]
      [] u.kind = "MintNFT" -> [u EXCEPT !.kind = "RemoveNFT"]
      [] u.kind = "RemoveNFT" -> [u EXCEPT !.kind = "MintNFT"]

ReverseUpdates(updates) == [i \in DOMAIN updates |-> Reversed(Reverse(updates)[i])]

(* The assertions of apply_account_updates (and of remove_account). *)
UpdateFits(s, u) ==
    CASE u.kind = "Create" -> ~Known(s, u.address)
      [] u.kind = "Delete" -> /\ Exists(s, u.id)
                              /\ s.tree[u.id].address = u.address
                              /\ s.tree[u.id].nonce = u.nonce
                              /\ u.id = s.next - 1
      [] u.kind = "UpdateBalance" -> /\ Exists(s, u.id)
                                     /\ s.tree[u.id].bal[u.token] = u.old
                                     /\ s.tree[u.id].nonce = u.oldNonce
      [] u.kind = "ChangePubKeyHash" -> /\ Exists(s, u.id)
                                        /\ s.tree[u.id].key = u.old
                                        /\ s.tree[u.id].nonce = u.oldNonce
      [] OTHER -> TRUE

ApplyUpdate(s, u) ==
    CASE u.kind = "Create" -> InsertAccount(s, u.id, DefaultAccount(u.address))
      [] u.kind = "Delete" -> RemoveAccount(s, u.id)
      [] u.kind = "UpdateBalance" ->
            InsertAccount(s, u.id, [s.tree[u.id] EXCEPT !.bal[u.token] = u.new,
                                                        !.nonce = u.newNonce])
      [] u.kind = "ChangePubKeyHash" ->
            InsertAccount(s, u.id, [s.tree[u.id] EXCEPT !.key = u.new,
                                                        !.nonce = u.newNonce])
      [] u.kind = "MintNFT" -> [s EXCEPT !.nfts[u.token] = u.nft]
      [] u.kind = "RemoveNFT" -> [s EXCEPT !.nfts[u.token] = NoNft]

(* r.ok turns FALSE where the code would panic. *)
ApplyAccountUpdates(s, updates) ==
    FoldLeft(LAMBDA r, u: IF r.ok /\ UpdateFits(r.s, u)
                          THEN [ok |-> TRUE, s |-> ApplyUpdate(r.s, u)]
                          ELSE [r EXCEPT !.ok = FALSE],
             [ok |-> TRUE, s |-> s], updates)

(***************************************************************************)
(* Results of the handlers.                                                *)
(***************************************************************************)
NoOp == [type |-> "None"]
Fee(token, amount) == [token |-> token, amount |-> amount]
NoFee == Fee(0, 0)
(* A handler that fails leaves the state alone (but see ApplyMintNFT). *)
Applied(ok, s, after, updates, fee) ==
    [ok |-> ok, s |-> IF ok THEN after ELSE s, updates |-> updates, fee |-> fee]

(* The checks create_op makes of the account a transaction is sent from. *)
SentFrom(s, tx, id, address) ==
    /\ Known(s, address)
    /\ ByAddress(s, address).key # Locked
    /\ ByAddress(s, address).key = tx.signer
    /\ s.ids[address] = id

(***************************************************************************)
(* Deposit and full exit: priority operations, which cannot fail.          *)
(***************************************************************************)
CreateDeposit(s, tx) ==
    IF tx.token \in Fungible
    THEN tx @@ [account |-> IF Known(s, tx.to) THEN s.ids[tx.to] ELSE s.next]
    ELSE NoOp

ApplyDeposit(s, op) ==
    LET new == ~Exists(s, op.account)
        old == IF new THEN DefaultAccount(op.to) ELSE s.tree[op.account]
        acc == Plus(old, op.token, op.amount)
    IN Applied(TRUE, s, InsertAccount(s, op.account, acc),
               (IF new THEN << CreateUpdate(op.account, op.to) >> ELSE << >>)
                   \o << BalanceUpdate(op.account, op.token, old, acc) >>,
               NoFee)

(* withdraw is withdraw_amount: -1 stands for None. *)
CreateFullExit(s, tx) ==
    LET mine == Exists(s, tx.account) /\ s.tree[tx.account].address = tx.eth_address
    IN tx @@ [withdraw |-> IF mine THEN s.tree[tx.account].bal[tx.token] ELSE -1,
              nft |-> IF tx.token \in Nfts THEN s.nfts[tx.token] ELSE NoNft]

ApplyFullExit(s, op) ==
    LET old == s.tree[op.account]
        acc == Minus(old, op.token, op.withdraw)
    IN IF op.withdraw = -1
       THEN Applied(TRUE, s, s, << >>, NoFee)
       ELSE Applied(acc.bal[op.token] = 0, s, InsertAccount(s, op.account, acc),
                    << BalanceUpdate(op.account, op.token, old, acc) >>, NoFee)

(***************************************************************************)
(* Transfer, to an account that exists or to a new one.                    *)
(***************************************************************************)
CreateTransfer(s, tx) ==
    IF /\ tx.token \in Tokens \ {NftToken}
       /\ tx.fee # 0 => tx.token \in Fungible
       /\ tx.to # ZeroAddress
       /\ SentFrom(s, tx, tx.account, tx.from)
    THEN IF Known(s, tx.to)
         THEN tx @@ [from_id |-> tx.account, to_id |-> s.ids[tx.to]]
         ELSE [tx EXCEPT !.type = "TransferToNew"]
                  @@ [from_id |-> tx.account, to_id |-> s.next]
    ELSE NoOp

TransferPossible(s, op) ==
    /\ op.from_id <= MaxAccount
    /\ op.to_id <= MaxAccount
    /\ op.nonce = s.tree[op.from_id].nonce
    /\ s.tree[op.from_id].bal[op.token] >= op.amount + op.fee

ApplyTransferToSelf(s, op) ==
    LET old == s.tree[op.from_id]
        acc == NonceUp(Minus(old, op.token, op.fee))
    IN Applied(TransferPossible(s, op), s, InsertAccount(s, op.from_id, acc),
               << BalanceUpdate(op.from_id, op.token, old, acc) >>,
               Fee(op.token, op.fee))

ApplyTransfer(s, op) ==
    LET from == s.tree[op.from_id]
        paid == NonceUp(Minus(from, op.token, op.amount + op.fee))
        to == s.tree[op.to_id]
        got == Plus(to, op.token, op.amount)
    IN IF op.from_id = op.to_id
       THEN ApplyTransferToSelf(s, op)
       ELSE Applied(TransferPossible(s, op), s,
                    InsertAccount(InsertAccount(s, op.from_id, paid), op.to_id, got),
                    << BalanceUpdate(op.from_id, op.token, from, paid),
                       BalanceUpdate(op.to_id, op.token, to, got) >>,
                    Fee(op.token, op.fee))

ApplyTransferToNew(s, op) ==
    LET from == s.tree[op.from_id]
        paid == NonceUp(Minus(from, op.token, op.amount + op.fee))
        to == DefaultAccount(op.to)
        got == Plus(to, op.token, op.amount)
    IN Applied(TransferPossible(s, op) /\ ~Exists(s, op.to_id), s,
               InsertAccount(InsertAccount(s, op.from_id, paid), op.to_id, got),
               << CreateUpdate(op.to_id, op.to),
                  BalanceUpdate(op.from_id, op.token, from, paid),
                  BalanceUpdate(op.to_id, op.token, to, got) >>,
               Fee(op.token, op.fee))

(***************************************************************************)
(* Withdraw, forced exit, change of the signing key.                       *)
(***************************************************************************)
CreateWithdraw(s, tx) ==
    IF tx.token \in Fungible /\ SentFrom(s, tx, tx.account, tx.from)
    THEN tx ELSE NoOp

ApplyWithdraw(s, op) ==
    LET old == s.tree[op.account]
        acc == NonceUp(Minus(old, op.token, op.amount + op.fee))
    IN Applied(/\ op.account <= MaxAccount
               /\ op.nonce = old.nonce
               /\ old.bal[op.token] >= op.amount + op.fee,
               s, InsertAccount(s, op.account, acc),
               << BalanceUpdate(op.account, op.token, old, acc) >>,
               Fee(op.token, op.fee))

CreateForcedExit_AnyTarget(s, tx) ==
    IF /\ Exists(s, tx.initiator)
       /\ tx.signer = s.tree[tx.initiator].key
       /\ tx.token \in Fungible
       /\ Known(s, tx.target)
    THEN tx @@ [target_id |-> s.ids[tx.target],
                withdraw |-> ByAddress(s, tx.target).bal[tx.token]]
    ELSE NoOp
CreateForcedExit(s, tx) ==
    IF /\ Exists(s, tx.initiator)
       /\ tx.signer = s.tree[tx.initiator].key
       /\ tx.token \in Fungible
       /\ Known(s, tx.target)
       /\ s.ids[tx.target] # NftStorage
       /\ ByAddress(s, tx.target).key = Locked
       /\ tx.target # ZeroAddress
    THEN tx @@ [target_id |-> s.ids[tx.target],
                withdraw |-> ByAddress(s, tx.target).bal[tx.token]]
    ELSE NoOp

ApplyForcedExit(s, op) ==
    LET payer == s.tree[op.initiator]
        paid == NonceUp(Minus(payer, op.token, op.fee))
        target == s.tree[op.target_id]
        left == Minus(target, op.token, op.withdraw)
    IN Applied(/\ op.initiator <= MaxAccount
               /\ op.nonce = payer.nonce
               /\ payer.bal[op.token] >= op.fee
               /\ target.bal[op.token] = op.withdraw,
               s, InsertAccount(InsertAccount(s, op.initiator, paid), op.target_id, left),
               << BalanceUpdate(op.initiator, op.token, payer, paid),
                  BalanceUpdate(op.target_id, op.token, target, left) >>,
               Fee(op.token, op.fee))

(* auth is is_eth_auth_data_valid; the signature is by the new key. *)
CreateChangePubKey(s, tx) ==
    IF /\ Known(s, tx.account)
       /\ tx.fee_token \in Fungible
       /\ tx.auth # "invalid"
       /\ tx.signer = tx.new_key
       /\ s.ids[tx.account] = tx.account_id
       /\ tx.account_id <= MaxAccount
    THEN tx ELSE NoOp

ApplyChangePubKey(s, op) ==
    LET old == s.tree[op.account_id]
        changed == NonceUp([old EXCEPT !.key = op.new_key])
        acc == Minus(changed, op.fee_token, op.fee)
    IN Applied(/\ op.auth = "CREATE2" => op.nonce = 0
               /\ op.nonce = old.nonce
               /\ old.bal[op.fee_token] >= op.fee,
               s, InsertAccount(s, op.account_id, acc),
               << KeyUpdate(op.account_id, old, changed),
                  BalanceUpdate(op.account_id, op.fee_token, changed, acc) >>,
               Fee(op.fee_token, op.fee))

(***************************************************************************)
(* NFTs.  The counter of a creator, and of all tokens, is the balance of   *)
(* NftToken of the creator, and of the storage account.                    *)
(***************************************************************************)
CreateMintNFT(s, tx) ==
    IF /\ tx.fee_token \in Fungible
       /\ tx.recipient # ZeroAddress
       /\ Exists(s, tx.creator)
       /\ s.tree[tx.creator].key # Locked
       /\ s.tree[tx.creator].key = tx.signer
       /\ Known(s, tx.recipient)
    THEN tx @@ [recipient_id |-> s.ids[tx.recipient]]
    ELSE NoOp

(* get_or_create_nft_account_token_id *)
StorageAccount(s) ==
    IF Exists(s, NftStorage) THEN s.tree[NftStorage]
    ELSE Plus(DefaultAccount(StorageAddress), NftToken, MinNft)
StorageUpdates(s) ==
    IF Exists(s, NftStorage) THEN << >>
    ELSE << CreateUpdate(NftStorage, StorageAddress),
            BalanceUpdate(NftStorage, NftToken, DefaultAccount(StorageAddress),
                          StorageAccount(s)) >>

(* The creator's counter is the serial number of its next NFT. *)
Counted_Kept(creator) == creator
Counted(creator) == Plus(creator, NftToken, 1)

(* The recipient's balance is checked last, when the rest is already done. *)
ApplyMintNFT(s, op) ==
    LET creator == s.tree[op.creator]
        paid == NonceUp(Minus(creator, op.fee_token, op.fee))
        counted == Counted(paid)
        serial == paid.bal[NftToken]
        storage == StorageAccount(s)
        token == storage.bal[NftToken]
        next == Plus(storage, NftToken, 1)
        kept == Plus(next, token, ContentHash(op.creator, serial, op.content))
        nft == [creator |-> op.creator, address |-> creator.address,
                serial |-> serial, content |-> op.content]
        minted == [InsertAccount(InsertAccount(s, op.creator, counted), NftStorage, kept)
                       EXCEPT !.nfts[token] = nft]
        to == minted.tree[op.recipient_id]
        got == Plus(to, token, 1)
    IN IF ~(/\ op.nonce = creator.nonce
            /\ creator.bal[op.fee_token] >= op.fee
            /\ token \in Nfts)
       THEN Applied(FALSE, s, s, << >>, NoFee)
       ELSE Applied(/\ next.bal[token] = 0
                    /\ to.bal[token] = 0,
                    minted, InsertAccount(minted, op.recipient_id, got),
                    << BalanceUpdate(op.creator, op.fee_token, creator, paid),
                       BalanceUpdate(op.creator, NftToken, paid, counted) >>
                      \o StorageUpdates(s) \o
                    << BalanceUpdate(NftStorage, NftToken, storage, next),
                       MintUpdate(op.creator, token, nft),
                       BalanceUpdate(NftStorage, token, next, kept),
                       BalanceUpdate(op.recipient_id, token, to, got) >>,
                    Fee(op.fee_token, op.fee))

CreateWithdrawNFT(s, tx) ==
    IF /\ tx.token \in Nfts
       /\ SentFrom(s, tx, tx.account, tx.from)
       /\ tx.fee_token \in Fungible
       /\ s.nfts[tx.token] # NoNft
       /\ Known(s, s.nfts[tx.token].address)
    THEN tx @@ [creator_id |-> s.ids[s.nfts[tx.token].address],
                creator_address |-> s.nfts[tx.token].address,
                serial |-> s.nfts[tx.token].serial,
                content |-> s.nfts[tx.token].content]
    ELSE NoOp

ApplyWithdrawNFT(s, op) ==
    LET old == s.tree[op.account]
        gone == NonceUp(Minus(old, op.token, old.bal[op.token]))
        acc == Minus(gone, op.fee_token, op.fee)
    IN Applied(/\ op.account <= MaxAccount
               /\ op.creator_id <= MaxAccount
               /\ op.nonce = old.nonce
               /\ old.bal[op.token] = 1
               /\ gone.bal[op.fee_token] >= op.fee,
               s, InsertAccount(s, op.account, acc),
               << BalanceUpdate(op.account, op.token, old, gone),
                  BalanceUpdate(op.account, op.fee_token, gone, acc) >>,
               Fee(op.fee_token, op.fee))

(***************************************************************************)
(* Swap: two signed orders, settled by a third account (or one of the two).*)
(***************************************************************************)
VerifyOrder(s, order) ==
    /\ {order.token_buy, order.token_sell} \subseteq Tokens \ {NftToken}
    /\ order.account <= MaxAccount
    /\ Exists(s, order.account)
    /\ Known(s, order.recipient)
    /\ s.tree[order.account].key # Locked
    /\ s.tree[order.account].key = order.signer

CreateSwap(s, tx) ==
    IF /\ \A i \in 1 .. 2: VerifyOrder(s, tx.orders[i])
       /\ tx.submitter <= MaxAccount
       /\ tx.fee_token \in Fungible
       /\ SentFrom(s, tx, tx.submitter, tx.submitter_address)
    THEN tx @@ [accounts |-> [i \in 1 .. 2 |-> tx.orders[i].account],
                recipients |-> [i \in 1 .. 2 |-> s.ids[tx.orders[i].recipient]]]
    ELSE NoOp

VerifySwap(op) ==
    LET o == op.orders
        a == op.amounts
    IN /\ o[1].token_buy = o[2].token_sell
       /\ o[2].token_buy = o[1].token_sell
       /\ o[1].token_sell # o[2].token_sell
       /\ \A i \in 1 .. 2: o[i].amount \in {0, a[i]}
       /\ o[1].account # o[2].account
       /\ \A i \in 1 .. 2: a[i] * o[i].price[2] <= a[3 - i] * o[i].price[1]

VerifySwapAccounts(s, op) ==
    LET submitter == s.tree[op.submitter]
        balance == submitter.bal[op.fee_token]
        Receives(i) == /\ op.submitter = op.recipients[i]
                       /\ op.fee_token = op.orders[i].token_buy
        future == IF Receives(1) THEN balance + op.amounts[2]
                  ELSE IF Receives(2) THEN balance + op.amounts[1]
                  ELSE balance
    IN /\ op.nonce = submitter.nonce
       /\ future >= op.fee
       /\ \A i \in 1 .. 2:
            LET order == op.orders[i]
                account == s.tree[order.account]
                fee == IF /\ op.submitter = order.account
                          /\ op.fee_token = order.token_sell
                       THEN op.fee ELSE 0
            IN /\ order.nonce = account.nonce
               /\ account.bal[order.token_sell] >= op.amounts[i] + fee

(* update_account, applied to a state and the updates made so far. *)
UpdateAccount(r, id, token, delta, nonces) ==
    LET old == r.s.tree[id]
        acc == [Plus(old, token, delta) EXCEPT !.nonce = @ + nonces]
    IN [s |-> InsertAccount(r.s, id, acc),
        updates |-> Append(r.updates, BalanceUpdate(id, token, old, acc))]

(* An order for a fixed amount uses up the nonce of its account; the one of *)
(* the submitter goes up with the fee.                                      *)
OrderNonces_Kept(op) == << 0, 0 >>
OrderNonces_SubmitterToo(op) ==
    [i \in 1 .. 2 |-> IF op.orders[i].amount # 0 THEN 1 ELSE 0]
OrderNonces(op) ==
    [i \in 1 .. 2 |->
        IF op.orders[i].amount # 0 /\ op.accounts[i] # op.submitter THEN 1 ELSE 0]

ApplySwap(s, op) ==
    LET a == op.amounts
        sold == [i \in 1 .. 2 |-> op.orders[i].token_sell]
        up == OrderNonces(op)
        r1 == UpdateAccount([s |-> s, updates |-> << >>],
                            op.accounts[1], sold[1], -a[1], up[1])
        r2 == UpdateAccount(r1, op.recipients[2], sold[1], a[1], 0)
        r3 == UpdateAccount(r2, op.accounts[2], sold[2], -a[2], up[2])
        r4 == UpdateAccount(r3, op.recipients[1], sold[2], a[2], 0)
        r5 == UpdateAccount(r4, op.submitter, op.fee_token, -op.fee, 1)
    IN Applied(VerifySwap(op) /\ VerifySwapAccounts(s, op), s, r5.s, r5.updates,
               Fee(op.fee_token, op.fee))

(***************************************************************************)
(* Execution of a transaction, of a batch, and of the block's fees.        *)
(***************************************************************************)
CreateOp(s, tx) ==
    CASE tx.type = "Deposit" -> CreateDeposit(s, tx)
      [] tx.type = "FullExit" -> CreateFullExit(s, tx)
      [] tx.type = "Transfer" -> CreateTransfer(s, tx)
      [] tx.type = "Withdraw" -> CreateWithdraw(s, tx)
      [] tx.type = "ForcedExit" -> CreateForcedExit(s, tx)
      [] tx.type = "ChangePubKey" -> CreateChangePubKey(s, tx)
      [] tx.type = "MintNFT" -> CreateMintNFT(s, tx)
      [] tx.type = "WithdrawNFT" -> CreateWithdrawNFT(s, tx)
      [] tx.type = "Swap" -> CreateSwap(s, tx)

ApplyOp(s, op) ==
    CASE op.type = "Deposit" -> ApplyDeposit(s, op)
      [] op.type = "FullExit" -> ApplyFullExit(s, op)
      [] op.type = "Transfer" -> ApplyTransfer(s, op)
      [] op.type = "TransferToNew" -> ApplyTransferToNew(s, op)
      [] op.type = "Withdraw" -> ApplyWithdraw(s, op)
      [] op.type = "ForcedExit" -> ApplyForcedExit(s, op)
      [] op.type = "ChangePubKey" -> ApplyChangePubKey(s, op)
      [] op.type = "MintNFT" -> ApplyMintNFT(s, op)
      [] op.type = "WithdrawNFT" -> ApplyWithdrawNFT(s, op)
      [] op.type = "Swap" -> ApplySwap(s, op)

Priority == {"Deposit", "FullExit"}
Within(range, time) == range[1] <= time /\ time <= range[2]

CheckTimestamp(tx, time) ==
    CASE tx.type \in Priority \cup {"MintNFT"} -> TRUE
      [] tx.type = "Swap" -> \A i \in 1 .. 2: Within(tx.orders[i].valid, time)
      [] OTHER -> Within(tx.valid, time)

Failed(s) == Applied(FALSE, s, s, << >>, NoFee) @@ [op |-> NoOp]

ExecuteTx(s, tx, time) ==
    LET op == CreateOp(s, tx)
        Done(r) == IF r.ok THEN r @@ [op |-> op] ELSE Failed(r.s)
    IN IF ~CheckTimestamp(tx, time) \/ op = NoOp THEN Failed(s) ELSE Done(ApplyOp(s, op))

(* Undo the executed part of a batch, the last transaction first. *)
Rollback_FirstFirst(s, done) ==
    FoldLeft(LAMBDA r, d: IF r.ok THEN ApplyAccountUpdates(r.s, ReverseUpdates(d.updates))
                                  ELSE r,
             [ok |-> TRUE, s |-> s], done)
Rollback(s, done) ==
    FoldLeft(LAMBDA r, d: IF r.ok THEN ApplyAccountUpdates(r.s, ReverseUpdates(d.updates))
                                  ELSE r,
             [ok |-> TRUE, s |-> s], Reverse(done))

(* sound is FALSE where the rollback would panic. *)
ExecuteTxsBatch(s, txs, time) ==
    LET Add(r, e) == IF e.ok THEN [r EXCEPT !.s = e.s, !.done = Append(@, e)]
                             ELSE [r EXCEPT !.s = e.s, !.ok = FALSE]
        Undone(r) == [ok |-> FALSE, s |-> r.s, done |-> << >>, sound |-> r.ok]
        End(r) == IF r.ok THEN r @@ [sound |-> TRUE] ELSE Undone(Rollback(r.s, r.done))
    IN End(FoldLeft(LAMBDA r, tx: IF r.ok THEN Add(r, ExecuteTx(r.s, tx, time)) ELSE r,
                    [ok |-> TRUE, s |-> s, done |-> << >>], txs))

CollectFee_NoUpdates(s, fees, account) ==
    [s |-> FoldLeft(LAMBDA r, f: UpdateAccount(r, account, f.token, f.amount, 0),
                    [s |-> s, updates |-> << >>], fees).s,
     updates |-> << >>]
CollectFee(s, fees, account) ==
    FoldLeft(LAMBDA r, f: IF f.amount = 0 THEN r
                          ELSE UpdateAccount(r, account, f.token, f.amount, 0),
             [s |-> s, updates |-> << >>], fees)

GenesisState(feeAddress) ==
    InsertAccount(InsertAccount(EmptyState, 0, DefaultAccount(feeAddress)), NftStorage,
                  Plus(DefaultAccount(StorageAddress), NftToken, MinNft))
=============================================================================
