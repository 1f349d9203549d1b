--------------------------------- MODULE L2 ---------------------------------
(***************************************************************************)
(* The four programs that compute the rollup state, side by side:          *)
(*   - the state keeper executes transactions and seals blocks (state);    *)
(*   - the database keeps the account updates of every block (stored);     *)
(*   - the witness generator executes the blocks again on the circuit's    *)
(*     tree, and the circuit checks them chunk by chunk (tree, proven);    *)
(*   - the restore tool rebuilds the state from the public data that the   *)
(*     contract received (restored, restores).                             *)
(* Each follows the state keeper at its own pace.  They have no code in    *)
(* common but the handlers, which the last one uses in part.               *)
(***************************************************************************)
EXTENDS Circuit, TreeRestore
LOCAL INSTANCE SequencesExt
LOCAL INSTANCE FiniteSetsExt

CONSTANTS
    FeeAccount,     \* the fee account of every block
    FeeAddress,
    Setup,          \* transactions of the blocks before the first one here
    Offered(_),     \* transactions offered to the state keeper in a state
    Batches(_),     \* batches of transactions offered to it
    MaxOps,         \* bound: operations
    MaxBlocks       \* bound: blocks

VARIABLES
    state,     \* ZkSyncState of the state keeper
    pending,   \* executed operations of the block in progress
    blocks,    \* sealed blocks
    stored,    \* [ok, s]: what the stored account updates add up to
    tree,      \* the circuit's account tree, after the proven blocks
    proven,    \* number of blocks proven
    verdict,   \* FALSE once a block could not be proven
    restored,  \* [ok, s]: the state rebuilt from public data
    restores,  \* number of blocks restored
    vault,     \* what the contract holds: deposited and not withdrawn
    crashed    \* TRUE when the state keeper has panicked

vars == << state, pending, blocks, stored, tree, proven, verdict, restored, restores,
           vault, crashed >>

Time == Len(blocks) + 1   \* timestamp of the block in progress

(***************************************************************************)
(* The contract's side of an operation.                                    *)
(***************************************************************************)
Moved(op) ==
    CASE op.type = "Deposit" -> op.amount
      [] op.type = "Withdraw" -> -op.amount
      [] op.type \in {"FullExit", "ForcedExit"} -> -Withdrawn(op)
      [] OTHER -> 0
VaultAfter(v, op) ==
    IF op.type \in {"Deposit", "Withdraw", "FullExit", "ForcedExit"} /\ op.token \in Fungible
    THEN [v EXCEPT ![op.token] = @ + Moved(op)] ELSE v

SetupState == FoldLeft(LAMBDA s, tx: ExecuteTx(s, tx, 0).s, GenesisState(FeeAddress), Setup)
Total(s, t) == MapThenSumSet(LAMBDA id: s.tree[id].bal[t], AccountIds)

Init ==
    /\ state = SetupState
    /\ pending = << >>
    /\ blocks = << >>
    /\ stored = [ok |-> TRUE, s |-> SetupState]
    /\ tree = SetupState.tree
    /\ proven = 0
    /\ verdict = TRUE
    /\ restored = [ok |-> TRUE, s |-> SetupState]
    /\ restores = 0
    /\ vault = [t \in Fungible |-> Total(SetupState, t)]
    /\ crashed = FALSE

(***************************************************************************)
(* The state keeper.                                                       *)
(***************************************************************************)
Executed == FoldLeft(LAMBDA n, b: n + Len(b.ops), Len(pending), blocks)

Entry(r) == [op |-> r.op, fee |-> r.fee, updates |-> r.updates]

Execute(tx) ==
    /\ ~crashed
    /\ Executed < MaxOps /\ Len(blocks) < MaxBlocks
    /\ \E r \in {ExecuteTx(state, tx, Time)}:
          /\ state' = r.s
          /\ pending' = IF r.ok THEN Append(pending, Entry(r)) ELSE pending
          /\ vault' = IF r.ok THEN VaultAfter(vault, r.op) ELSE vault
    /\ UNCHANGED << blocks, stored, tree, proven, verdict, restored, restores, crashed >>

ExecuteBatch(txs) ==
    /\ ~crashed
    /\ Executed < MaxOps /\ Len(blocks) < MaxBlocks
    /\ \E r \in {ExecuteTxsBatch(state, txs, Time)}:
          /\ state' = r.s
          /\ pending' = pending \o [i \in DOMAIN r.done |-> Entry(r.done[i])]
          /\ vault' = FoldLeft(LAMBDA v, d: VaultAfter(v, d.op), vault, r.done)
          /\ crashed' = ~r.sound
    /\ UNCHANGED << blocks, stored, tree, proven, verdict, restored, restores >>

(* Collect the fees, and store the updates of the whole block. *)
SealBlock ==
    /\ ~crashed
    /\ pending # << >>
    /\ LET fees == [i \in DOMAIN pending |-> pending[i].fee]
           paid == CollectFee(state, fees, FeeAccount)
           updates == FoldLeft(LAMBDA u, p: u \o p.updates, << >>, pending) \o paid.updates
       IN /\ state' = paid.s
          /\ blocks' = Append(blocks, [ops |-> [i \in DOMAIN pending |-> pending[i].op],
                                       fees |-> fees, time |-> Time, after |-> paid.s])
          /\ stored' = LET r == ApplyAccountUpdates(stored.s, updates)
                       IN [ok |-> stored.ok /\ r.ok, s |-> r.s]
    /\ pending' = << >>
    /\ UNCHANGED << tree, proven, verdict, restored, restores, vault, crashed >>

(***************************************************************************)
(* The witness generator and the circuit: build_block_witness asserts that *)
(* its root and commitment are those of the block.                         *)
(***************************************************************************)
ProveBlock ==
    /\ proven < Len(blocks)
    /\ \E b \in {blocks[proven + 1]}:
       \E w \in {BlockWitness(tree, b.ops, b.fees, FeeAccount)}:
       \E c \in {Synthesize(tree, w, FeeAccount, b.time)}:
          /\ verdict' = /\ w.sound
                        /\ w.tree = b.after.tree
                        /\ w.pubdata = [i \in DOMAIN b.ops |-> PublicData(b.ops[i])]
                        /\ c.ok
                        /\ c.tree = b.after.tree
          /\ tree' = w.tree
    /\ proven' = proven + 1
    /\ UNCHANGED << state, pending, blocks, stored, restored, restores, vault, crashed >>

Restore ==
    /\ restores < Len(blocks)
    /\ \E b \in {blocks[restores + 1]}:
       \E r \in {RestoreBlock(restored.s, [i \in DOMAIN b.ops |-> PublicData(b.ops[i])],
                             FeeAccount)}:
          restored' = [ok |-> restored.ok /\ r.ok, s |-> r.s]
    /\ restores' = restores + 1
    /\ UNCHANGED << state, pending, blocks, stored, tree, proven, verdict, vault, crashed >>

Next ==
    \/ \E tx \in Offered(state): Execute(tx)
    \/ \E txs \in Batches(state): ExecuteBatch(txs)
    \/ SealBlock
    \/ ProveBlock
    \/ Restore

Spec == Init /\ [][Next]_vars

(***************************************************************************)
(* Properties.                                                             *)
(***************************************************************************)
Sealed == pending = << >>

AllOps == FoldLeft(LAMBDA ops, b: ops \o b.ops, << >>, blocks)
              \o [i \in DOMAIN pending |-> pending[i].op]

(* Balances and nonces are numbers, never below zero (BigUint would panic), *)
(* and the index by address agrees with the tree: every account that exists *)
(* is found under its address, nothing else is, and the ids in use are the  *)
(* ones below next_free_id.                                                 *)
TypeOK ==
    /\ \A id \in AccountIds: /\ state.tree[id].nonce >= 0
                             /\ \A t \in Tokens: state.tree[id].bal[t] >= 0
    /\ \A id \in AccountIds: Exists(state, id) <=> (id < state.next \/ id = NftStorage)
    /\ \A id \in AccountIds:
          Exists(state, id) => state.ids[state.tree[id].address] = id
    /\ \A a \in AllAddresses: Known(state, a) => state.tree[state.ids[a]].address = a

(* The account updates stored with the blocks (what a restart loads and a   *)
(* revert undoes) fit one after the other, and add up to the state that the *)
(* state keeper had when it sealed the last block.                          *)
UpdatesAddUp ==
    /\ stored.ok
    /\ Sealed => stored.s = state

(* Every sealed block can be proven: the witness generator's own execution  *)
(* ends in the block's root and public data, and the circuit accepts every  *)
(* chunk of it and ends in the same root.                                   *)
BlocksProvable == verdict

(* The restore tool, which sees only public data, never fails and arrives   *)
(* at the state the state keeper had after the same block, NFTs included.   *)
RestoredFromPublicData ==
    /\ restored.ok
    /\ restores > 0 => restored.s = blocks[restores].after


(* An NFT has at most one owner, is known to the state exactly when its id  *)
(* was given out, and the storage account keeps the hash of its content;    *)
(* no two have the same creator and serial number.                          *)
NftsUnique ==
    /\ \A t \in Nfts:
          LET held == MapThenSumSet(LAMBDA id: state.tree[id].bal[t], 0 .. MaxAccount)
              nft == state.nfts[t]
          IN /\ held <= 1
             /\ (nft # NoNft) <=> (t < state.tree[NftStorage].bal[NftToken])
             /\ nft = NoNft => held = 0
             /\ nft # NoNft => state.tree[NftStorage].bal[t]
                                 = ContentHash(nft.creator, nft.serial, nft.content)
    /\ \A t, u \in Nfts:
          /\ t # u
          /\ state.nfts[t] # NoNft
          /\ state.nfts[u] # NoNft
          => << state.nfts[t].creator, state.nfts[t].serial >>
               # << state.nfts[u].creator, state.nfts[u].serial >>

(* A failed batch is undone without a panic, and nothing of it remains: a   *)
(* step that adds no operation to the block leaves the state as it was, the *)
(* index, the free id and the NFTs included.                                *)
BatchAllOrNothing ==
    [][/\ ~crashed'
       /\ pending' = pending /\ blocks' = blocks => state' = state]_vars

(* The accounts whose nonce an operation uses up, with that nonce. *)
Spent(op) ==
    CASE op.type \in {"Transfer", "TransferToNew", "Withdraw", "WithdrawNFT"} ->
            {<< op.account, op.nonce >>}
      [] op.type = "ForcedExit" -> {<< op.initiator, op.nonce >>}
      [] op.type = "ChangePubKey" -> {<< op.account_id, op.nonce >>}
      [] op.type = "MintNFT" -> {<< op.creator, op.nonce >>}
      [] op.type = "Swap" ->
            {<< op.submitter, op.nonce >>}
              \cup {<< op.accounts[i], op.orders[i].nonce >>:
                       i \in {j \in 1 .. 2: op.orders[j].amount # 0}}
      [] OTHER -> {}

(* No signed transaction, and no order for a fixed amount, is executed      *)
(* twice: an account's nonce is used at most once.                          *)
NonceUsedOnce ==
    \A i, j \in DOMAIN AllOps: i < j => Spent(AllOps[i]) \cap Spent(AllOps[j]) = {}

(* Who may lower the balances of account id: the holder of its key, the     *)
(* owner of its address through the contract, anyone when it has no key.    *)
Permits(op, id, key, address) ==
    CASE op.type \in {"Transfer", "TransferToNew", "Withdraw", "WithdrawNFT"} ->
            op.account = id /\ op.signer = key
      [] op.type = "MintNFT" -> op.creator = id /\ op.signer = key
      [] op.type = "ChangePubKey" -> op.account_id = id /\ op.auth # "invalid"
      [] op.type = "ForcedExit" -> \/ op.initiator = id /\ op.signer = key
                                   \/ op.target_id = id /\ key = Locked
      [] op.type = "FullExit" -> op.account = id /\ op.eth_address = address
      [] op.type = "Swap" -> \/ op.submitter = id /\ op.signer = key
                             \/ \E i \in 1 .. 2: /\ op.orders[i].account = id
                                                  /\ op.orders[i].signer = key
      [] OTHER -> FALSE

(* A balance of an account other than the NFT storage goes down only by an  *)
(* operation its owner agreed to.  (A batch may change the key on the way,  *)
(* so this looks at single transactions.)                                   *)
OnlyByConsent ==
    [][Len(pending') = Len(pending) + 1 =>
         \A id \in 0 .. MaxAccount:
             (\E t \in Tokens: state'.tree[id].bal[t] < state.tree[id].bal[t])
               => Permits(Last(pending').op, id, state.tree[id].key,
                          state.tree[id].address)]_vars
=============================================================================
