------------------------------ MODULE Circuit ------------------------------
(***************************************************************************)
(* The zkSync circuit (core/lib/circuit/src/circuit.rs).  It walks over    *)
(* the chunks of a block with a rolling root; in each chunk it checks one  *)
(* branch against the root, checks what the operation demands of it, and   *)
(* changes it.  The circuit knows no operation: everything it compares is  *)
(* computed from the branch (cur) and the arguments shown to it.           *)
(*                                                                         *)
(* For each type there is a record of the circuit's own public data, and a *)
(* condition and an update per chunk: Checked(ok, cur).  The signed        *)
(* message is rebuilt from the same values and compared with what was      *)
(* signed; its older formats are left out, and so is the overflow of a     *)
(* 32-bit nonce.                                                           *)
(***************************************************************************)
EXTENDS Witness
LOCAL INSTANCE SequencesExt

Checked(ok, cur) == [ok |-> ok, cur |-> cur]

IsFungible(cur) == cur.token < MinNft
IsStorage(cur) == cur.id = NftStorage
IsNftToken(cur) == cur.token = NftToken
IsEmpty(cur, tree) == tree[cur.id] = EmptyAccount

SelectBranch(o) ==
    LET left == CASE o.type = "Deposit" -> TRUE
                  [] o.type = "Swap" -> o.chunk % 2 = 0
                  [] OTHER -> o.chunk = 0
    IN IF left THEN o.shown.lhs ELSE o.shown.rhs

VerifyTimestamp(args, time) == Within(args.valid, time) /\ Within(args.second_valid, time)

Signed(o, key, msg) == o.shown.sig.key = key /\ o.shown.sig.msg = msg

(* a and b are what is compared, but only if they are what they should be. *)
Covers(args, balance, cost) == args.a = balance /\ args.b = cost /\ args.a >= args.b

Pay(cur, cost) == [cur EXCEPT !.balance = @ - cost, !.nonce = @ + 1]
Receive(cur, amount) == [cur EXCEPT !.balance = @ + amount]

CheckNoop(o, cur) ==
    Checked(o.pubdata = << "Noop" >> /\ o.shown.args.fee = 0, cur)

CheckDeposit(o, cur, tree) ==
    LET args == o.shown.args
        ok == /\ o.pubdata = << "Deposit", cur.id, cur.token, args.full_amount,
                                args.eth_address >>
              /\ args.fee = 0
              /\ args.a = args.full_amount
              /\ cur.address = args.eth_address \/ IsEmpty(cur, tree)
    IN Checked(ok, IF o.chunk = 0
                   THEN [Receive(cur, args.full_amount) EXCEPT !.address = args.eth_address]
                   ELSE cur)

FullExitPubdata(args, cur) ==
    << "FullExit", args.accounts[2], args.eth_address, cur.token, args.full_amount,
       args.accounts[1], args.eth_addresses[1], args.serial, args.content >>

CheckFullExit(o, cur) ==
    LET args == o.shown.args
        common == o.pubdata = FullExitPubdata(args, cur) /\ args.fee = 0
        mine == IF args.eth_address = cur.address THEN cur.balance ELSE 0
        stored == ContentHash(args.accounts[1], args.serial, args.content)
        Needless == args.full_amount = 0 \/ IsFungible(cur)
        here == CASE o.chunk = 0 -> cur.id = args.accounts[2] /\ mine = args.full_amount
                  [] o.chunk = 1 -> IsStorage(cur) /\ (Needless \/ stored = cur.balance)
                  [] o.chunk = 2 -> /\ cur.id = args.accounts[1]
                                    /\ Needless \/ args.eth_addresses[1] = cur.address
                  [] OTHER -> TRUE
    IN Checked(common /\ here, IF o.chunk = 0 THEN Receive(cur, -args.full_amount) ELSE cur)

(* The message of both transfers: who signs does not know whether the      *)
(* recipient has an account.                                               *)
TransferMessage(o, cur) ==
    << "Transfer", o.shown.lhs.id, o.shown.lhs.address, o.shown.args.eth_address, cur.token,
       o.shown.args.full_amount, o.shown.args.fee, cur.nonce, o.shown.args.valid >>

(* The sending half of both transfers. *)
SenderOk(o, cur) ==
    /\ Covers(o.shown.args, cur.balance, o.shown.args.full_amount + o.shown.args.fee)
    /\ Signed(o, o.shown.lhs.key, TransferMessage(o, cur))

TransferPubdata(o, cur) ==
    << "Transfer", o.shown.lhs.id, cur.token, o.shown.rhs.id, o.shown.args.full_amount,
       o.shown.args.fee >>

CheckTransfer(o, cur, tree, time) ==
    LET args == o.shown.args
        common == o.pubdata = TransferPubdata(o, cur) /\ VerifyTimestamp(args, time)
        receiver == /\ ~IsEmpty(cur, tree)
                    /\ ~IsStorage(cur)
                    /\ ~IsNftToken(cur)
                    /\ o.shown.rhs.address = args.eth_address
    IN IF o.chunk = 0
       THEN Checked(common /\ SenderOk(o, cur), Pay(cur, args.full_amount + args.fee))
       ELSE Checked(common /\ receiver, Receive(cur, args.full_amount))

TransferToNewPubdata(o, cur) ==
    << "TransferToNew", o.shown.lhs.id, cur.token, o.shown.args.full_amount,
       o.shown.args.eth_address, o.shown.rhs.id, o.shown.args.fee >>

NewReceiver(args, cur, tree) ==
    Checked(IsEmpty(cur, tree) /\ ~IsStorage(cur) /\ ~IsNftToken(cur),
            [cur EXCEPT !.balance = args.full_amount, !.address = args.eth_address])

CheckTransferToNew(o, cur, tree, time) ==
    LET args == o.shown.args
        common == o.pubdata = TransferToNewPubdata(o, cur) /\ VerifyTimestamp(args, time)
        created == NewReceiver(args, cur, tree)
    IN CASE o.chunk = 0 ->
              Checked(common /\ SenderOk(o, cur), Pay(cur, args.full_amount + args.fee))
         [] o.chunk = 1 -> Checked(common /\ created.ok, created.cur)
         [] OTHER -> Checked(common, cur)

WithdrawPubdata(args, cur) ==
    << "Withdraw", cur.id, cur.token, args.full_amount, args.fee, args.eth_address >>

WithdrawMessage(args, cur) ==
    << "Withdraw", cur.id, cur.address, args.eth_address, cur.token, args.full_amount,
       args.fee, cur.nonce, args.valid >>

CheckWithdraw(o, cur, time) ==
    LET args == o.shown.args
        cost == args.full_amount + args.fee
        common == /\ o.pubdata = WithdrawPubdata(args, cur)
                  /\ VerifyTimestamp(args, time)
                  /\ o.shown.sig.key = cur.key
                  /\ IsFungible(cur)
        first == /\ ~IsNftToken(cur)
                 /\ Covers(args, cur.balance, cost)
                 /\ Signed(o, cur.key, WithdrawMessage(args, cur))
    IN IF o.chunk = 0 THEN Checked(common /\ first, Pay(cur, cost))
                      ELSE Checked(common, cur)

ForcedExitPubdata(o, cur) ==
    << "ForcedExit", o.shown.lhs.id, o.shown.rhs.id, cur.token, o.shown.args.full_amount,
       o.shown.args.fee, o.shown.args.eth_address >>

ForcedExitMessage(o, cur) ==
    << "ForcedExit", o.shown.lhs.id, o.shown.args.eth_address, cur.token, o.shown.args.fee,
       o.shown.lhs.nonce, o.shown.args.valid >>

(* The account that is emptied has no key. *)
ForcedExitTarget(o, cur, tree) ==
    /\ ~IsStorage(cur)
    /\ ~IsNftToken(cur)
    /\ ~IsEmpty(cur, tree)
    /\ cur.balance = o.shown.args.full_amount
    /\ o.shown.rhs.address = o.shown.args.eth_address
    /\ o.shown.rhs.key = Locked

CheckForcedExit(o, cur, tree, time) ==
    LET args == o.shown.args
        common == /\ o.pubdata = ForcedExitPubdata(o, cur)
                  /\ VerifyTimestamp(args, time)
                  /\ IsFungible(cur)
        payer == /\ ~IsNftToken(cur)
                 /\ Covers(args, cur.balance, args.fee)
                 /\ Signed(o, o.shown.lhs.key, ForcedExitMessage(o, cur))
    IN CASE o.chunk = 0 -> Checked(common /\ payer, Pay(cur, args.fee))
         [] o.chunk = 1 -> Checked(common /\ ForcedExitTarget(o, cur, tree),
                                   Receive(cur, -args.full_amount))
         [] OTHER -> Checked(common, cur)

ChangePubKeyPubdata(args, cur) ==
    << "ChangePubKey", cur.id, args.new_key, args.eth_address, args.pub_nonce, cur.token,
       args.fee >>

ChangePubKeyMessage(args, cur) ==
    << "ChangePubKey", cur.id, args.eth_address, args.new_key, cur.token, args.fee, cur.nonce,
       args.valid >>

CheckChangePubKey(o, cur, time) ==
    LET args == o.shown.args
        common == /\ o.pubdata = ChangePubKeyPubdata(args, cur)
                  /\ VerifyTimestamp(args, time)
                  /\ Covers(args, o.shown.lhs.balance, args.fee)
                  /\ cur.address = args.eth_address
        first == /\ Signed(o, args.new_key, ChangePubKeyMessage(args, cur))
                 /\ args.pub_nonce = cur.nonce
                 /\ ~IsNftToken(cur)
    IN IF o.chunk = 0
       THEN Checked(common /\ first, [Pay(cur, args.fee) EXCEPT !.key = args.new_key])
       ELSE Checked(common, cur)

MintNFTPubdata(args) ==
    << "MintNFT", args.accounts[1], args.accounts[2], args.content, args.tokens[1], args.fee >>

(* The first chunk: the creator pays the fee and signs. *)
MintNFTFee(o, cur) ==
    LET args == o.shown.args
    IN /\ cur.id = args.accounts[1]
       /\ cur.token = args.tokens[1]
       /\ ~IsNftToken(cur)
       /\ Covers(args, cur.balance, args.fee)
       /\ Signed(o, cur.key,
                 << "MintNFT", args.accounts[1], cur.address, args.content,
                    args.eth_addresses[1], cur.token, args.fee, cur.nonce >>)

CheckMintNFT(o, cur, tree) ==
    LET args == o.shown.args
        common == o.pubdata = MintNFTPubdata(args)
        stored == ContentHash(args.accounts[1], args.serial, args.content)
    IN CASE o.chunk = 0 -> Checked(common /\ MintNFTFee(o, cur), Pay(cur, args.fee))
         [] o.chunk = 1 ->
              Checked(/\ common
                      /\ cur.id = args.accounts[1]
                      /\ IsNftToken(cur)
                      /\ cur.balance = args.serial,
                      Receive(cur, 1))
         [] o.chunk = 2 ->
              Checked(/\ common
                      /\ IsStorage(cur)
                      /\ IsNftToken(cur)
                      /\ cur.balance = args.tokens[2],
                      Receive(cur, 1))
         [] o.chunk = 3 ->
              Checked(/\ common
                      /\ IsStorage(cur)
                      /\ ~IsNftToken(cur)
                      /\ cur.token = args.tokens[2],
                      [cur EXCEPT !.balance = stored])
         [] o.chunk = 4 ->
              Checked(/\ common
                      /\ ~IsStorage(cur)
                      /\ ~IsEmpty(cur, tree)
                      /\ cur.id = args.accounts[2]
                      /\ cur.address = args.eth_addresses[1]
                      /\ cur.token = args.tokens[2],
                      Receive(cur, 1))

WithdrawNFTPubdata(args) ==
    << "WithdrawNFT", args.accounts[2], args.accounts[1], args.eth_addresses[1], args.serial,
       args.content, args.eth_address, args.tokens[2], args.tokens[1], args.fee >>

WithdrawNFTFee(o, cur) ==
    LET args == o.shown.args
    IN /\ cur.id = args.accounts[2]
       /\ cur.token = args.tokens[1]
       /\ ~IsNftToken(cur)
       /\ Covers(args, cur.balance, args.fee)
       /\ Signed(o, cur.key,
                 << "WithdrawNFT", args.accounts[2], cur.address, args.eth_address,
                    args.tokens[2], cur.token, args.fee, cur.nonce, args.valid >>)

CheckWithdrawNFT(o, cur, time) ==
    LET args == o.shown.args
        common == o.pubdata = WithdrawNFTPubdata(args) /\ VerifyTimestamp(args, time)
        stored == ContentHash(args.accounts[1], args.serial, args.content)
    IN CASE o.chunk = 0 -> Checked(common /\ WithdrawNFTFee(o, cur), Pay(cur, args.fee))
         [] o.chunk = 1 ->
              Checked(/\ common
                      /\ cur.id = args.accounts[2]
                      /\ cur.token = args.tokens[2]
                      /\ cur.balance = 1,
                      Receive(cur, -1))
         [] o.chunk = 2 ->
              Checked(/\ common
                      /\ IsStorage(cur)
                      /\ cur.token = args.tokens[2]
                      /\ cur.balance = stored, cur)
         [] o.chunk = 3 ->
              Checked(/\ common
                      /\ cur.id = args.accounts[1]
                      /\ cur.address = args.eth_addresses[1], cur)
         [] OTHER -> Checked(common, cur)

(* The accounts in the order of the chunks, and the messages of a swap. *)
SwapSlot == << 1, 4, 3, 2, 5 >>
SwapMessage(args, part) ==
    LET Order(i) == << "Order", args.accounts[2 * i - 1], args.eth_addresses[i],
                       args.nonces[i], args.tokens[i], args.tokens[3 - i], args.prices[i],
                       args.order_amounts[i],
                       IF i = 1 THEN args.valid ELSE args.second_valid >>
    IN IF part < 3 THEN Order(part)
       ELSE << "Swap", args.accounts[5], args.eth_address, args.nonces[3], Order(1), Order(2),
               args.tokens[3], args.fee, args.amounts >>

SwapPubdata(args) ==
    << "Swap", args.accounts, args.tokens, args.amounts, args.fee, Mask(args) >>

(* The account and the token of each chunk are those of the arguments. *)
SwapBranch(o, cur, part) ==
    LET args == o.shown.args
    IN /\ cur.id = args.accounts[SwapSlot[o.chunk + 1]]
       /\ cur.token = args.tokens[part]
       /\ o.chunk = 4 => cur.address = args.eth_address
       /\ o.chunk = 3 => cur.address = args.eth_addresses[1]
       /\ o.chunk = 1 => cur.address = args.eth_addresses[2]
       /\ args.tokens[1] # args.tokens[2]
       /\ args.accounts[1] # args.accounts[3]

(* The amounts are those of the orders, at a price both accept. *)
SwapPrices(args) ==
    \A i \in 1 .. 2:
        /\ args.order_amounts[i] \in {0, args.amounts[i]}
        /\ args.amounts[3 - i] * args.prices[i][1] >= args.amounts[i] * args.prices[i][2]

SwapPaying(o, cur, part, amount) ==
    /\ Covers(o.shown.args, cur.balance, amount)
    /\ cur.nonce = o.shown.args.nonces[part]
    /\ Signed(o, cur.key, SwapMessage(o.shown.args, part))

SwapNonceUp(o, cur, part) ==
    CASE o.chunk = 4 -> 1
      [] cur.id = o.shown.args.accounts[5] -> 0
      [] OTHER -> Mask(o.shown.args)[part]

CheckSwap(o, cur, tree, time) ==
    LET args == o.shown.args
        part == o.chunk \div 2 + 1
        amount == IF o.chunk = 4 THEN args.fee ELSE args.amounts[part]
        common == /\ o.pubdata = SwapPubdata(args)
                  /\ VerifyTimestamp(args, time)
                  /\ SwapBranch(o, cur, part)
                  /\ SwapPrices(args)
                  /\ ~IsNftToken(cur)
    IN IF o.chunk % 2 = 0
       THEN Checked(common /\ SwapPaying(o, cur, part, amount),
                    [cur EXCEPT !.balance = @ - amount, !.nonce = @ + SwapNonceUp(o, cur, part)])
       ELSE Checked(common /\ ~IsEmpty(cur, tree) /\ ~IsStorage(cur), Receive(cur, amount))

CheckOp(o, cur, tree, time) ==
    CASE o.type = "Noop" -> CheckNoop(o, cur)
      [] o.type = "Deposit" -> CheckDeposit(o, cur, tree)
      [] o.type = "FullExit" -> CheckFullExit(o, cur)
      [] o.type = "Transfer" -> CheckTransfer(o, cur, tree, time)
      [] o.type = "TransferToNew" -> CheckTransferToNew(o, cur, tree, time)
      [] o.type = "Withdraw" -> CheckWithdraw(o, cur, time)
      [] o.type = "ForcedExit" -> CheckForcedExit(o, cur, tree, time)
      [] o.type = "ChangePubKey" -> CheckChangePubKey(o, cur, time)
      [] o.type = "MintNFT" -> CheckMintNFT(o, cur, tree)
      [] o.type = "WithdrawNFT" -> CheckWithdrawNFT(o, cur, time)
      [] o.type = "Swap" -> CheckSwap(o, cur, tree, time)

(***************************************************************************)
(* One chunk: chunking, the arguments' continuity, the branch against the  *)
(* rolling root, the operation, and the fee of its last chunk.             *)
(***************************************************************************)
IsLast(o) == o.chunk + 1 = ChunksOf[o.type]

SameArgs(o, prev) ==
    LET args == o.shown.args
    IN \/ o.chunk = 0
       \/ args = prev
       \/ o.type = "Swap" /\ [args EXCEPT !.a = prev.a, !.b = prev.b] = prev

FeeToken(c, o, cur) ==
    IF o.chunk = 0 \/ (o.type = "Swap" /\ IsLast(o)) THEN cur.token ELSE c.feeToken

WithBranch(tree, b) ==
    [tree EXCEPT ![b.id].address = b.address, ![b.id].key = b.key, ![b.id].nonce = b.nonce,
                 ![b.id].bal[b.token] = b.balance]

ChunkFits(c, o, cur) ==
    /\ o.chunk = c.next
    /\ o.shown.lhs.token = o.shown.rhs.token
    /\ SameArgs(o, c.args)
    /\ Branch(c.tree, cur.id, cur.token) = cur

(* The next root, and the fee of the operation's last chunk. *)
Advance(c, o, token, checked) ==
    IF ~checked.ok THEN [c EXCEPT !.ok = FALSE]
    ELSE [ok |-> TRUE,
          tree |-> WithBranch(c.tree, checked.cur),
          next |-> IF IsLast(o) THEN 0 ELSE o.chunk + 1,
          args |-> o.shown.args,
          feeToken |-> token,
          fees |-> IF IsLast(o) /\ token \in Fungible
                   THEN [c.fees EXCEPT ![token] = @ + o.shown.args.fee] ELSE c.fees]

ExecuteChunk(c, o, time) ==
    LET cur == SelectBranch(o)
    IN IF ~c.ok \/ ~ChunkFits(c, o, cur) THEN [c EXCEPT !.ok = FALSE]
       ELSE Advance(c, o, FeeToken(c, o, cur), CheckOp(o, cur, c.tree, time))

(***************************************************************************)
(* A block: synthesize.  The fee account as it was before the fees must    *)
(* be under the rolling root; the sums are added to its fungible balances. *)
(***************************************************************************)
PayValidator(c, account, validator) ==
    LET paid == [validator EXCEPT !.bal = [t \in Tokens |->
                    IF t \in Fungible THEN @[t] + c.fees[t] ELSE @[t]]]
    IN [ok |-> c.ok /\ c.next = 0 /\ c.tree[account] = validator,
        tree |-> [c.tree EXCEPT ![account] = paid]]

Synthesize(tree, witness, account, time) ==
    PayValidator(FoldLeft(LAMBDA c, o: ExecuteChunk(c, o, time),
                          [ok |-> TRUE, tree |-> tree, next |-> 0, args |-> NoArgs,
                           feeToken |-> 0, fees |-> [t \in Fungible |-> 0]],
                          witness.chunks),
                 account, witness.validator)
=============================================================================
