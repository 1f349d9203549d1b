-------------------------------- MODULE MCL2 --------------------------------
(***************************************************************************)
(* A small rollup: two users with keys (accounts 1 and 2, addresses 2 and  *)
(* 3), one account that never set a key (account 3, address 4), and an     *)
(* address without account (5).  Two fungible tokens; ids for two NFTs, of *)
(* which one is minted before the first block here.                        *)
(***************************************************************************)
EXTENDS L2
LOCAL INSTANCE TLC

Always == << 0, MaxTime >>
Expired == << 0, 0 >>

Key(s, id) == s.tree[id].key
Nonce(s, id) == s.tree[id].nonce

Deposit(to, token, amount) ==
    [type |-> "Deposit", to |-> to, token |-> token, amount |-> amount]
FullExit(account, eth_address, token) ==
    [type |-> "FullExit", account |-> account, eth_address |-> eth_address, token |-> token]
Transfer(s, id, nonce, to, token, fee) ==
    [type |-> "Transfer", account |-> id, from |-> s.tree[id].address, to |-> to,
     token |-> token, amount |-> 1, fee |-> fee, nonce |-> nonce,
     signer |-> Key(s, id), valid |-> Always]
WithdrawTx(s, id, token, amount) ==
    [type |-> "Withdraw", account |-> id, from |-> s.tree[id].address,
     to |-> s.tree[id].address, token |-> token, amount |-> amount, fee |-> 1,
     nonce |-> Nonce(s, id), signer |-> Key(s, id), valid |-> Always]
ForcedExit(s, id, target) ==
    [type |-> "ForcedExit", initiator |-> id, target |-> target, token |-> 0, fee |-> 1,
     nonce |-> Nonce(s, id), signer |-> Key(s, id), valid |-> Always]
ChangePubKey(id, address, nonce, key, fee, auth) ==
    [type |-> "ChangePubKey", account_id |-> id, account |-> address, new_key |-> key,
     fee_token |-> 0, fee |-> fee, nonce |-> nonce, signer |-> key, auth |-> auth,
     valid |-> Always]
MintNFT(s, id, nonce, recipient, content) ==
    [type |-> "MintNFT", creator |-> id, creator_address |-> s.tree[id].address,
     content |-> content, recipient |-> recipient, fee_token |-> 0, fee |-> 1,
     nonce |-> nonce, signer |-> Key(s, id)]
WithdrawNFT(s, id, token, fee_token) ==
    [type |-> "WithdrawNFT", account |-> id, from |-> s.tree[id].address,
     to |-> s.tree[id].address, token |-> token, fee_token |-> fee_token, fee |-> 1,
     nonce |-> Nonce(s, id), signer |-> Key(s, id), valid |-> Always]
Order(s, id, recipient, sell, buy, price, amount) ==
    [account |-> id, recipient |-> recipient, nonce |-> Nonce(s, id), token_buy |-> buy,
     token_sell |-> sell, price |-> price, amount |-> amount, signer |-> Key(s, id),
     valid |-> Always]
(* Account 1 sells one of token t for two of token 1 of account 2. *)
Swap(s, submitter, t, recipients, prices, fixed, fee_token) ==
    [type |-> "Swap", submitter |-> submitter,
     submitter_address |-> s.tree[submitter].address, nonce |-> Nonce(s, submitter),
     orders |-> << Order(s, 1, recipients[1], t, 1, prices[1], fixed[1]),
                   Order(s, 2, recipients[2], 1, t, prices[2], fixed[2]) >>,
     amounts |-> << 1, 2 >>, fee |-> 1, fee_token |-> fee_token, signer |-> Key(s, submitter)]

MCSetup ==
    << Deposit(2, 0, 5), Deposit(3, 1, 3), Deposit(4, 0, 1),
       ChangePubKey(1, 2, 0, 7, 0, "CREATE2"), ChangePubKey(2, 3, 0, 8, 0, "ECDSA"),
       [type |-> "MintNFT", creator |-> 1, creator_address |-> 2, content |-> 1,
        recipient |-> 2, fee_token |-> 0, fee |-> 1, nonce |-> 1, signer |-> 7] >>

Good == << << 1, 2 >>, << 2, 1 >> >>
Poor == << << 1, 3 >>, << 2, 1 >> >>

MCOffered(s) ==
    LET n == Nonce(s, 1)
        pay == Transfer(s, 1, n, 3, 0, 1)
    IN {Deposit(2, 0, 1), Deposit(5, 1, 1)}
       \cup {FullExit(id, 2, t): id \in {1, 2}, t \in {0, 10}}
       \cup {FullExit(5, 5, 1)}
       \cup {Transfer(s, 1, n, to, t, 0): to \in {2, 3, 5}, t \in {0, 10}}
       \cup {pay, [pay EXCEPT !.signer = 8], [pay EXCEPT !.valid = Expired],
             [pay EXCEPT !.nonce = n + 1], [pay EXCEPT !.nonce = 0],
             [pay EXCEPT !.token = 10], [pay EXCEPT !.to = 1]}
       \cup {Transfer(s, 2, Nonce(s, 2), to, 1, 1): to \in {2, 5}}
       \cup {WithdrawTx(s, 1, 0, amount): amount \in {1, 9}}
       \cup {ForcedExit(s, 1, to): to \in {3, 4}}
       \cup {ChangePubKey(1, 2, n, 9, 1, auth): auth \in {"ECDSA", "CREATE2"}}
       \cup {ChangePubKey(3, 4, 0, 9, 0, "Onchain"), ChangePubKey(1, 2, n, 9, 0, "invalid")}
       \cup {MintNFT(s, 1, n, to, 2): to \in {2, 3}}
       \cup {WithdrawNFT(s, id, 10, id - 1): id \in {1, 2}}
       \cup {Swap(s, by, 0, << 2, 3 >>, Good, << 1, 2 >>, 0): by \in {1, 2}}
       \cup {Swap(s, 2, t, << 2, 3 >>, Good, << 1, 0 >>, 1): t \in {0, 10}}
       \cup {Swap(s, 1, 0, to, Good, << 0, 0 >>, 1): to \in {<< 2, 3 >>, << 3, 2 >>}}
       \cup {Swap(s, 1, 0, << 4, 3 >>, Poor, << 1, 2 >>, 0)}

MCBatches(s) ==
    LET n == Nonce(s, 1)
        first == Transfer(s, 1, n, 5, 0, 1)
        mint == MintNFT(s, 1, n + 1, 5, 2)
        again == Transfer(s, 1, n + 1, 3, 0, 0)
    IN {<< tx, [again EXCEPT !.valid = Expired] >>: tx \in MCOffered(s)}
       \cup {<< first, again >>, << first, mint, again >>, << first, mint >>}
=============================================================================
