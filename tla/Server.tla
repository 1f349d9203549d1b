------------------------------- MODULE Server -------------------------------
(***************************************************************************)
(* The block production pipeline of the server: the mempool, the state     *)
(* keeper, the root hash calculator and the committer, which share a       *)
(* database and talk over channels, and the block revert tool, which edits *)
(* the database while the server is stopped.                               *)
(*                                                                         *)
(* The rollup state is one user account and the fee account.  A priority   *)
(* operation is a deposit of 1 to the user.  A transaction is sent by the  *)
(* user, carries a nonce and pays a fee; it is executed if the nonce is    *)
(* the account's and the balance covers the fee.  Every operation takes    *)
(* one chunk of a block.  Timestamps, gas and signatures are left out.     *)
(*                                                                         *)
(* A crash loses everything but "db".  A handler of the committer is one   *)
(* database transaction, hence one step.                                   *)
(***************************************************************************)
EXTENDS Integers, Sequences, FiniteSets

LOCAL INSTANCE SequencesExt
LOCAL INSTANCE FiniteSetsExt
LOCAL INSTANCE TLC

CONSTANTS
    Txs,             \* transactions
    Nonce,           \* the nonce of each transaction
    Fee,             \* the fee of each transaction
    FastTxs,         \* the transactions that are fast withdrawals
    Submissions,     \* what users send: a transaction <<t>> or a batch <<t, u, ..>>
    NumOps,          \* priority requests made on L1
    BlockChunks,     \* the largest block size
    MaxIterations,   \* miniblock_iterations of a block
    FastIterations,  \* fast_block_miniblock_iterations
    LoadLimit,       \* the LIMIT of the query that loads the mempool
    MaxBlock,        \* bound: block numbers
    MaxLag,          \* bound: requests the committer may be behind at a proposal
    MaxSubmits,      \* bound: times one submission is sent
    MaxCrashes,      \* bound: crashes of the server
    MaxReverts,      \* bound: uses of the block revert tool
    CrashInReplay    \* whether a crash may hit the replay of reverted blocks

VARIABLES
    db,       \* the database
    sk,       \* the state keeper
    channel,  \* CommitRequests on their way to the committer
    jobs,     \* the root hash job queue
    rhc,      \* the root hash calculator
    env       \* what has been submitted, crashed and reverted so far

vars == <<db, sk, channel, jobs, rhc, env>>

Row(block, index, success, batch) ==
    [block |-> block, index |-> index, success |-> success, batch |-> batch]
NoRow == Row(0, 0, FALSE, 0)
Serials == 0..(NumOps - 1)
Blocks == 1..MaxBlock
L1(s) == <<"L1", s>>
L2(t) == <<"L2", t>>

-----------------------------------------------------------------------------
(* The L2 state.  An update holds the new values of an account. *)

GenesisState ==
    [a \in {"user", "fee"} |-> [nonce |-> 0, balance |-> 0]]

ApplyUpdate(state, u) ==
    [state EXCEPT ![u.account] = [nonce |-> u.nonce, balance |-> u.balance]]

ApplyUpdates(state, updates) == FoldLeft(ApplyUpdate, state, updates)

Executable(state, t) ==
    /\ state["user"].nonce = Nonce[t]
    /\ state["user"].balance >= Fee[t]

TxUpdate(state, t) ==
    [account |-> "user", nonce |-> state["user"].nonce + 1,
     balance |-> state["user"].balance - Fee[t]]

DepositUpdate(state) ==
    [account |-> "user", nonce |-> state["user"].nonce,
     balance |-> state["user"].balance + 1]

(* No update is made for a zero fee. *)
CollectFee(state, fees) ==
    IF fees = 0
    THEN <<>>
    ELSE <<[account |-> "fee", nonce |-> state["fee"].nonce,
            balance |-> state["fee"].balance + fees]>>

(* A batch that fails half way is rolled back as a whole. *)
ExecuteTxsBatch(state, txs) ==
    LET Step(r, t) ==
            IF r.ok /\ Executable(r.state, t)
            THEN LET u == TxUpdate(r.state, t)
                 IN  [ok |-> TRUE, state |-> ApplyUpdate(r.state, u),
                      updates |-> Append(r.updates, u)]
            ELSE [ok |-> FALSE, state |-> state, updates |-> <<>>]
    IN  FoldLeft(Step, [ok |-> TRUE, state |-> state, updates |-> <<>>], txs)

-----------------------------------------------------------------------------
(* The state keeper's pending block.  The index of an operation in the     *)
(* block is its place in "ops".  A keeper k is the state, the pending      *)
(* block, the requests sent and the jobs pushed.                           *)

NewPendingBlock(number, before) ==
    [number |-> number, before |-> before, current |-> before,
     ops |-> <<>>, failed |-> <<>>, updates |-> <<>>, fees |-> 0,
     iteration |-> 0, fast |-> FALSE,
     storedOps |-> 0, storedFailed |-> 0, storedUpdates |-> 0]

ChunksLeft(p) == BlockChunks - Len(p.ops)
ShouldSeal(p) ==
    \/ ChunksLeft(p) = 0
    \/ p.iteration >= (IF p.fast THEN FastIterations ELSE MaxIterations)

AddSuccessfulExecution(p, ops, updates, fees) ==
    [p EXCEPT !.ops = @ \o ops, !.updates = @ \o updates, !.fees = @ + fees]

ApplyPriorityOp(k, s) ==
    LET u == DepositUpdate(k.state)
    IN  [k EXCEPT
          !.state = ApplyUpdate(@, u),
          !.pending = [AddSuccessfulExecution(@, <<[op |-> L1(s), batch |-> 0]>>,
                                              <<u>>, 0)
                       EXCEPT !.current = @ + 1]]

ApplyTxs(k, txs, batch) ==
    LET r == ExecuteTxsBatch(k.state, txs)
        ops == [i \in DOMAIN txs |-> [op |-> L2(txs[i]), batch |-> batch]]
        fees == FoldLeft(LAMBDA sum, t : sum + Fee[t], 0, txs)
    IN  IF r.ok
        THEN [k EXCEPT !.state = r.state,
                       !.pending = AddSuccessfulExecution(@, ops, r.updates, fees)]
        ELSE [k EXCEPT !.pending.failed = @ \o ops]

(* Only a transaction on its own makes its block a fast one. *)
ApplyTx(k, t) ==
    ApplyTxs([k EXCEPT !.pending.fast = @ \/ t \in FastTxs], <<t>>, 0)

ApplyBatch(k, txs, batch) == ApplyTxs(k, txs, batch)

(* What has appeared since the pending block was last stored. *)
StorePendingBlock(k) ==
    LET p == k.pending
        ops == [i \in (p.storedOps + 1)..Len(p.ops) |->
                  [op |-> p.ops[i].op, batch |-> p.ops[i].batch, index |-> i]]
    IN  [k EXCEPT
          !.pending = [p EXCEPT !.storedOps = Len(p.ops),
                                !.storedFailed = Len(p.failed),
                                !.storedUpdates = Len(p.updates)],
          !.out = Append(@,
              [type |-> "PendingBlock", number |-> p.number, before |-> p.before,
               ops |-> [i \in 1..(Len(p.ops) - p.storedOps) |-> ops[p.storedOps + i]],
               failed |-> SubSeq(p.failed, p.storedFailed + 1, Len(p.failed)),
               updates |-> SubSeq(p.updates, p.storedUpdates + 1, Len(p.updates))])]

SealPendingBlock_FeesNotStored(k) ==
    LET stored == StorePendingBlock(k)
        p == stored.pending
        feeUpdates == CollectFee(k.state, p.fees)
    IN  [state |-> ApplyUpdates(k.state, feeUpdates),
         pending |-> NewPendingBlock(p.number + 1, p.current),
         out |-> Append(stored.out,
                   [type |-> "SealIncompleteBlock", number |-> p.number,
                    before |-> p.before, after |-> p.current, updates |-> <<>>]),
         jobs |-> Append(k.jobs, [number |-> p.number,
                                  updates |-> p.updates \o feeUpdates])]

(* The pending block is stored, then the fees are collected, the block is  *)
(* sealed with the updates not stored yet, and a job is pushed with all.   *)
SealPendingBlock(k) ==
    LET stored == StorePendingBlock(k)
        p == stored.pending
        feeUpdates == CollectFee(k.state, p.fees)
        updates == p.updates \o feeUpdates
    IN  [state |-> ApplyUpdates(k.state, feeUpdates),
         pending |-> NewPendingBlock(p.number + 1, p.current),
         out |-> Append(stored.out,
                   [type |-> "SealIncompleteBlock", number |-> p.number,
                    before |-> p.before, after |-> p.current,
                    updates |-> SubSeq(updates, p.storedUpdates + 1, Len(updates))]),
         jobs |-> Append(k.jobs, [number |-> p.number, updates |-> updates])]

-----------------------------------------------------------------------------
(* The database.  Each operator maps a database to the one after a query.  *)

EmptyDb ==
    [txs |-> <<>>,                              \* mempool_txs, by id
     ops |-> [s \in Serials |-> "absent"],      \* mempool_priority_operations
     executedTxs |-> [t \in Txs |-> NoRow],     \* executed_transactions
     executedOps |-> [s \in Serials |-> NoRow], \* executed_priority_operations
     updates |-> [n \in Blocks |-> <<>>],       \* account_*_updates
     nonce |-> [block |-> 0, value |-> 0],      \* committed_nonce
     pending |-> {},                            \* pending_block
     incomplete |-> {},                         \* incomplete_blocks
     blocks |-> (0 :> [before |-> 0, after |-> 0, root |-> GenesisState]),
     reverted |-> {},                           \* reverted_block
     meta |-> {}]                               \* mempool_reverted_txs_meta

LastSavedBlock(d) == Max(DOMAIN d.blocks)

WithoutTx(rows, t) == SelectSeq(rows, LAMBDA r : r.tx # t)

(* A later success replaces a row of the same transaction. *)
StoreExecutedTx(d, number, o) ==
    LET t == o.op[2]
    IN  [d EXCEPT !.txs = WithoutTx(@, t),
                  !.executedTxs[t] = Row(number, o.index, TRUE, o.batch)]
(* Mutant: a failure replaces the row. *)
StoreFailedTx_Overwrites(d, number, o) ==
    [d EXCEPT !.txs = WithoutTx(@, o.op[2]),
              !.executedTxs[o.op[2]] = Row(number, 0, FALSE, o.batch)]

(* A failure never replaces a row. *)
StoreFailedTx(d, number, o) ==
    LET t == o.op[2]
    IN  [d EXCEPT !.txs = WithoutTx(@, t),
                  !.executedTxs[t] = IF @ # NoRow THEN @
                                     ELSE Row(number, 0, FALSE, o.batch)]

StoreExecutedPriorityOp(d, number, o) ==
    LET s == o.op[2]
    IN  [d EXCEPT !.ops[s] = "absent",
                  !.executedOps[s] = IF @ # NoRow THEN @
                                     ELSE Row(number, o.index, TRUE, 0)]
(* Mutant: the rejected transactions are not saved. *)
SaveBlockTransactions_SuccessesOnly(d, number, ops, failed) ==
    FoldLeft(LAMBDA e, o : IF o.op[1] = "L1" THEN StoreExecutedPriorityOp(e, number, o)
                           ELSE StoreExecutedTx(e, number, o), d, ops)

SaveBlockTransactions(d, number, ops, failed) ==
    LET Save(e, o) == IF o.op[1] = "L1"
                      THEN StoreExecutedPriorityOp(e, number, o)
                      ELSE StoreExecutedTx(e, number, o)
        Fail(e, o) == StoreFailedTx(e, number, o)
    IN  FoldLeft(Fail, FoldLeft(Save, d, ops), failed)

CommitStateUpdate(d, number, updates) ==
    LET mine == SelectSeq(updates, LAMBDA u : u.account = "user")
    IN  [d EXCEPT !.updates[number] = @ \o updates,
                  !.nonce = IF mine = <<>> THEN @
                            ELSE [block |-> number, value |-> Last(mine).nonce]]

SavePendingBlock(d, r) ==
    LET e == SaveBlockTransactions(d, r.number, r.ops, r.failed)
    IN  CommitStateUpdate(
          [e EXCEPT !.pending = {p \in @ : p.number # r.number}
                                  \union {[number |-> r.number, before |-> r.before]}],
          r.number, r.updates)

SealIncompleteBlock(d, r) ==
    LET e == CommitStateUpdate(d, r.number, r.updates)
    IN  [e EXCEPT !.pending = {p \in @ : p.number # r.number},
                  !.incomplete = @ \union {[number |-> r.number, before |-> r.before,
                                            after |-> r.after]}]

IncompleteBlock(d, n) == CHOOSE i \in d.incomplete : i.number = n

FinishBlock(d, r) ==
    LET i == IncompleteBlock(d, r.number)
    IN  [d EXCEPT !.incomplete = @ \ {i},
                  !.blocks = @ @@ (r.number :> [before |-> i.before, after |-> i.after,
                                                root |-> r.root])]

RemoveRevertedBlock(d, r) ==
    [d EXCEPT !.reverted = {b \in @ : b.number # r.number},
              !.meta = {m \in @ : m.block # r.number}]

(* The database accepts the request: no block is sealed twice, and a block *)
(* is finished once, after it is sealed and after the block before it.     *)
Accepted(d, r) ==
    CASE r.type = "SealIncompleteBlock" ->
            /\ \A i \in d.incomplete : i.number # r.number
            /\ r.number \notin DOMAIN d.blocks
      [] r.type = "FinishBlock" ->
            /\ \E i \in d.incomplete : i.number = r.number
            /\ r.number - 1 \in DOMAIN d.blocks
            /\ r.number \notin DOMAIN d.blocks
      [] OTHER -> TRUE

Handled(d, r) ==
    CASE r.type = "PendingBlock" -> SavePendingBlock(d, r)
      [] r.type = "SealIncompleteBlock" -> SealIncompleteBlock(d, r)
      [] r.type = "FinishBlock" -> FinishBlock(d, r)
      [] r.type = "RemoveRevertedBlock" -> RemoveRevertedBlock(d, r)

-----------------------------------------------------------------------------

(* Rows of one batch that follow each other make one batch. *)
GroupByBatch(rows) ==
    LET Add(vs, r) ==
            IF r.batch # 0 /\ vs # <<>> /\ Last(vs).batch = r.batch
            THEN [vs EXCEPT ![Len(vs)].txs = Append(@, r.tx)]
            ELSE Append(vs, [batch |-> r.batch, txs |-> <<r.tx>>])
    IN  FoldLeft(Add, <<>>, rows)

LoadTxs(d, excluded) ==
    LET rows == SelectSeq(d.txs, LAMBDA r : ~r.reverted /\ r.tx \notin excluded)
    IN  GroupByBatch(SubSeq(rows, 1, Min({Len(rows), LoadLimit})))

(* Transactions go out by nonce, a batch by its last one.  Equal nonces    *)
(* keep the order of the table.                                            *)
ByNonce(variants) ==
    SortSeq(variants, LAMBDA v, w : Nonce[Last(v.txs)] < Nonce[Last(w.txs)])

ChunksFor(variants) == FoldLeft(LAMBDA sum, v : sum + Len(v.txs), 0, variants)

SelectL2(variants, chunks) ==
    LET Fits(n) == ChunksFor(SubSeq(variants, 1, n)) <= chunks
    IN  SubSeq(variants, 1, Max({n \in 0..Len(variants) : Fits(n)}))

Queued(d) == {s \in Serials : d.ops[s] = "queued"}
(* Mutant: what was executed already is not skipped. *)
SelectL1_NothingSkipped(d, current) ==
    LET s == SetToSortSeq(Queued(d), <)
    IN  SubSeq(s, 1, Min({Len(s), BlockChunks}))

SelectL1(d, current) ==
    LET Run(n) == current..(current + n - 1) \subseteq Queued(d)
        n == Max({i \in 0..BlockChunks : Run(i)})
    IN  [i \in 1..n |-> current + i - 1]

(* The assertion of the selection: the operations it looks at, one more    *)
(* than fit, have no gap.                                                  *)
PriorityOpsInQueueOrder(d, current) ==
    \A s \in Queued(d) :
        LET before == Cardinality({q \in Queued(d) : current <= q /\ q < s})
        IN  s >= current /\ before <= BlockChunks => s = current + before

EstimateNonce(d) == d.nonce.value

MaxExecutedSerial(d) ==
    Max({-1} \union {s \in Serials : d.executedOps[s] # NoRow})

(* What has a row among the executed transactions, failed ones included,   *)
(* leaves the mempool; a batch is judged by its first transaction.         *)
CollectedGarbage(d) ==
    LET done == {v \in Range(LoadTxs(d, {})) : d.executedTxs[v.txs[1]] # NoRow}
        gone == UNION {Range(v.txs) : v \in done}
    IN  [d EXCEPT !.txs = SelectSeq(@, LAMBDA r : r.tx \notin gone),
                  !.ops = [s \in Serials |->
                             IF @[s] = "queued" /\ d.executedOps[s] # NoRow
                             THEN "absent" ELSE @[s]]]

-----------------------------------------------------------------------------
(* What a starting server reads from the database. *)

LoadAccountTree(d) ==
    LET Upto(n) == FoldLeft(LAMBDA st, i : ApplyUpdates(st, d.updates[i]),
                            GenesisState, [i \in 1..n |-> i])
    IN  Upto(LastSavedBlock(d))
(* Mutant: the blocks without a root are forgotten. *)
UnprocessedPriorityOp_FinishedOnly(d) ==
    Max({d.blocks[n].after : n \in DOMAIN d.blocks})

UnprocessedPriorityOp(d) ==
    Max({d.blocks[n].after : n \in DOMAIN d.blocks}
          \union {i.after : i \in d.incomplete})

LoadRootHashJobs(d) ==
    LET numbers == {i.number : i \in d.incomplete}
        first == Min(numbers)
    IN  IF numbers = {}
        THEN <<>>
        ELSE [i \in 1..(Max(numbers) - first + 1) |->
                [number |-> first + i - 1, updates |-> d.updates[first + i - 1]]]

(* The pending block is the row with the largest number, if it is above    *)
(* the last block.                                                         *)
LoadPendingBlock(d) ==
    {p \in d.pending : /\ p.number > LastSavedBlock(d)
                       /\ \A q \in d.pending : q.number <= p.number}

(* The successful operations of a block by index, and its failed ones. *)
ExecutedOps(d, n) ==
    LET rows == {[op |-> L1(s), index |-> d.executedOps[s].index] :
                   s \in {s \in Serials : d.executedOps[s].block = n}}
                \union
                {[op |-> L2(t), index |-> d.executedTxs[t].index] :
                   t \in {t \in Txs : d.executedTxs[t].block = n
                                      /\ d.executedTxs[t].success}}
    IN  SetToSortSeq(rows, LAMBDA r, q : r.index < q.index)

FailedTxs(d, n) ==
    {t \in Txs : d.executedTxs[t].block = n /\ ~d.executedTxs[t].success}

(* The operations of a reverted block that are still in the mempool. *)
RevertedOps(d, n) ==
    LET Present(op) == IF op[1] = "L1" THEN d.ops[op[2]] # "absent"
                       ELSE \E i \in DOMAIN d.txs : d.txs[i].tx = op[2]
    IN  SetToSortSeq({m \in d.meta : m.block = n /\ Present(m.op)},
                     LAMBDA m, l : m.index < l.index)

Reapply(k, ops) ==
    FoldLeft(LAMBDA h, o : IF o.op[1] = "L1" THEN ApplyPriorityOp(h, o.op[2])
                           ELSE ApplyTx(h, o.op[2]), k, ops)
(* Mutants: the updates of the blocks without a root are not applied; the  *)
(* jobs for their roots are not queued again.                              *)
NewKeeper_WithoutJobs(d) ==
    LET js == LoadRootHashJobs(d)
    IN  [state |-> LoadAccountTree(d),
         pending |-> NewPendingBlock(LastSavedBlock(d) + Len(js) + 1,
                                     UnprocessedPriorityOp(d)),
         out |-> <<>>,
         jobs |-> js]

NewKeeper_QueueNotFilled(d) ==
    LET js == LoadRootHashJobs(d)
    IN  [state |-> FoldLeft(LAMBDA st, j : ApplyUpdates(st, j.updates),
                            LoadAccountTree(d), js),
         pending |-> NewPendingBlock(LastSavedBlock(d) + Len(js) + 1,
                                     UnprocessedPriorityOp(d)),
         out |-> <<>>,
         jobs |-> <<>>]

(* The keeper made by "new" from what was loaded. *)
NewKeeper(d) ==
    LET js == LoadRootHashJobs(d)
    IN  [state |-> FoldLeft(LAMBDA st, j : ApplyUpdates(st, j.updates),
                            LoadAccountTree(d), js),
         pending |-> NewPendingBlock(LastSavedBlock(d) + Len(js) + 1,
                                     UnprocessedPriorityOp(d)),
         out |-> <<>>,
         jobs |-> js]

(* "initialize": the stored pending block is executed again; its updates   *)
(* count as stored, its operations do not.                                 *)
InitializedKeeper(d) ==
    LET k == NewKeeper(d)
        p == CHOOSE p \in LoadPendingBlock(d) : TRUE
        failed == SetToSeq(FailedTxs(d, p.number))
        loaded == [k EXCEPT !.pending.failed =
                     [i \in DOMAIN failed |->
                        [op |-> L2(failed[i]), batch |-> d.executedTxs[failed[i]].batch]]]
        h == Reapply(loaded, ExecutedOps(d, p.number))
    IN  IF LoadPendingBlock(d) = {}
        THEN k
        ELSE [h EXCEPT !.pending.storedUpdates = Len(h.pending.updates)]

(* "execute_reverted_blocks": each is executed in a new pending block with *)
(* its own number, sealed, and its rows are removed.                       *)
ReplayRevertedBlock(d, k, b) ==
    LET h == SealPendingBlock(
               Reapply([k EXCEPT !.pending = NewPendingBlock(b.number, b.before)],
                       RevertedOps(d, b.number)))
    IN  [h EXCEPT !.out = Append(@, [type |-> "RemoveRevertedBlock",
                                     number |-> b.number])]

RevertedBlocks(d) ==
    SetToSortSeq(d.reverted, LAMBDA b, c : b.number < c.number)

RestartedKeeper(d) ==
    FoldLeft(LAMBDA k, b : ReplayRevertedBlock(d, k, b),
             InitializedKeeper(d), RevertedBlocks(d))

(* The assertions on the way: the state has the root of the last block,    *)
(* the jobs follow it, the pending block follows them, its operations      *)
(* succeed again, and a reverted block holds its priority operations.      *)
RestartAssertions(d) ==
    /\ LoadAccountTree(d) = d.blocks[LastSavedBlock(d)].root
    /\ \A i \in DOMAIN LoadRootHashJobs(d) :
          LoadRootHashJobs(d)[i].number = LastSavedBlock(d) + i
    /\ \A p \in LoadPendingBlock(d) :
          /\ p.number = LastSavedBlock(d) + Len(LoadRootHashJobs(d)) + 1
          /\ LET h == InitializedKeeper(d)
             IN  Len(h.pending.ops) = Len(ExecutedOps(d, p.number))
    /\ \A b \in d.reverted :
          Cardinality({i \in DOMAIN RevertedOps(d, b.number) :
                         RevertedOps(d, b.number)[i].op[1] = "L1"}) = b.after - b.before

-----------------------------------------------------------------------------
Stopped == [pc |-> "down", state |-> GenesisState,
            pending |-> NewPendingBlock(0, 0), queue |-> <<>>, empty |-> TRUE]

StoppedRhc == [state |-> GenesisState, last |-> 0, job |-> <<>>]

Init ==
    /\ db = EmptyDb
    /\ sk = Stopped
    /\ channel = <<>>
    /\ jobs = <<>>
    /\ rhc = StoppedRhc
    /\ env = [submits |-> [s \in Submissions |-> 0], crashes |-> 0, reverts |-> 0]

Keeper == [state |-> sk.state, pending |-> sk.pending, out |-> <<>>, jobs |-> <<>>]

(* The state keeper takes over keeper k, with what it sent and pushed. *)
Become(k, pc, queue) ==
    /\ sk' = [sk EXCEPT !.pc = pc, !.state = k.state, !.pending = k.pending,
                        !.queue = queue]
    /\ channel' = channel \o k.out
    /\ jobs' = jobs \o k.jobs

(* The nonces of a submission are not used yet. *)
NoncesAllowed(s) == \A i \in DOMAIN s : Nonce[s[i]] >= EstimateNonce(db)

(* add_tx, add_batch: a user's transactions enter the mempool, whatever    *)
(* the state of the server, unless a nonce is already used.                *)
Submit(s) ==
    LET id == IF Len(s) = 1 THEN 0
              ELSE 1 + MapThenSumSet(LAMBDA b : env.submits[b], Submissions)
    IN  /\ env.submits[s] < MaxSubmits
        /\ NoncesAllowed(s)
        /\ Len(s) <= BlockChunks
        /\ db' = [db EXCEPT !.txs = @ \o [i \in DOMAIN s |->
                    [tx |-> s[i], batch |-> id, reverted |-> FALSE]]]
        /\ env' = [env EXCEPT !.submits[s] = @ + 1]
        /\ UNCHANGED <<sk, channel, jobs, rhc>>

(* add_priority_ops: the Ethereum watcher sends the confirmed operations   *)
(* up to n.  Executed ones are dropped; a row that is there stays reverted *)
(* if it is.                                                               *)
AddPriorityOps(n) ==
    LET new == {s \in 0..n : s > MaxExecutedSerial(db) /\ db.ops[s] = "absent"}
    IN  /\ sk.pc # "down"
        /\ new # {}
        /\ db' = [db EXCEPT !.ops = [s \in Serials |->
                    IF s \in new THEN "queued" ELSE @[s]]]
        /\ UNCHANGED <<sk, channel, jobs, rhc, env>>

(* restore_from_db, new, initialize and execute_reverted_blocks, all       *)
(* before any other task of the server is started.                         *)
Restart ==
    LET k == RestartedKeeper(db)
    IN  /\ sk.pc = "down"
        /\ RestartAssertions(db)
        /\ Become(k, "starting", <<>>)
        /\ rhc' = [state |-> LoadAccountTree(db), last |-> LastSavedBlock(db),
                   job |-> <<>>]
        /\ UNCHANGED <<db, env>>

(* The mempool cleans its tables before it serves the first block. *)
CollectGarbage ==
    /\ sk.pc = "starting"
    /\ db' = CollectedGarbage(db)
    /\ sk' = [sk EXCEPT !.pc = "idle"]
    /\ UNCHANGED <<channel, jobs, rhc, env>>

ShouldThrottle == Len(jobs) >= 2

(* What the mempool must not return: the transactions of this block. *)
ExecutedInPendingBlock ==
    LET p == sk.pending
    IN  {o.op[2] : o \in {o \in Range(p.ops) \union Range(p.failed) : o.op[1] = "L2"}}

(* One turn of the loop: unless the root hash calculator lags behind, the  *)
(* mempool proposes priority operations and, in the chunks they leave,     *)
(* transactions.                                                           *)
ProposeNewBlock ==
    LET current == sk.pending.current
        l1 == SelectL1(db, current)
        l2 == SelectL2(ByNonce(LoadTxs(db, ExecutedInPendingBlock)),
                       BlockChunks - Len(l1))
    IN  /\ sk.pc = "idle"
        /\ ~ShouldThrottle
        /\ Len(channel) <= MaxLag
        /\ PriorityOpsInQueueOrder(db, current)
        /\ sk' = [sk EXCEPT !.pc = "executing",
                            !.queue = [i \in DOMAIN l1 |-> [serial |-> l1[i], txs |-> <<>>]]
                                      \o l2,
                            !.empty = l1 = <<>> /\ l2 = <<>>]
        /\ UNCHANGED <<db, channel, jobs, rhc, env>>

IsPriority(v) == v.txs = <<>>

Applied(k, v) ==
    CASE IsPriority(v) -> ApplyPriorityOp(k, v.serial)
      [] ~IsPriority(v) /\ v.batch = 0 -> ApplyTx(k, v.txs[1])
      [] ~IsPriority(v) /\ v.batch # 0 -> ApplyBatch(k, v.txs, v.batch)
(* Mutant: a batch is counted as one operation. *)
Chunks_BatchAsOne(v) == 1

Chunks(v) == IF IsPriority(v) THEN 1 ELSE Len(v.txs)

(* The operations of the proposed block are executed in order, by the      *)
(* state keeper alone, until one does not fit in the pending block.        *)
RunOne(r, v) ==
    IF r.left = <<>> /\ Chunks(v) <= ChunksLeft(r.k.pending)
    THEN [r EXCEPT !.k = Applied(r.k, v)]
    ELSE [r EXCEPT !.left = Append(@, v)]

Run == FoldLeft(RunOne, [k |-> Keeper, left |-> <<>>], sk.queue)

(* The one that does not fit has the block sealed, and goes into the next. *)
SealFullBlock ==
    /\ sk.pc = "executing"
    /\ Run.left # <<>>
    /\ Become(SealPendingBlock(Run.k), "executing", Run.left)
    /\ UNCHANGED <<db, rhc, env>>

(* The end of a turn: the block is sealed if it is full or old enough, and *)
(* otherwise stored if anything was proposed.                              *)
FinishMiniblock ==
    LET k == [Run.k EXCEPT !.pending.iteration =
                IF Run.k.pending.ops = <<>> THEN @ ELSE @ + 1]
    IN  /\ sk.pc = "executing"
        /\ Run.left = <<>>
        /\ Become(CASE ShouldSeal(k.pending) -> SealPendingBlock(k)
                    [] ~ShouldSeal(k.pending) /\ ~sk.empty -> StorePendingBlock(k)
                    [] ~ShouldSeal(k.pending) /\ sk.empty -> k,
                  "idle", <<>>)
        /\ UNCHANGED <<db, rhc, env>>

TakeRootHashJob ==
    /\ sk.pc # "down"
    /\ rhc.job = <<>>
    /\ jobs # <<>>
    /\ rhc' = [rhc EXCEPT !.job = <<Head(jobs)>>]
    /\ jobs' = Tail(jobs)
    /\ UNCHANGED <<db, sk, channel, env>>
(* Mutant: the number of the last block is not advanced. *)
ProcessRootHashJob_LastKept ==
    /\ rhc.job # <<>>
    /\ rhc.job[1].number = rhc.last + 1
    /\ LET state == ApplyUpdates(rhc.state, rhc.job[1].updates)
       IN  /\ rhc' = [rhc EXCEPT !.state = state, !.job = <<>>]
           /\ channel' = Append(channel, [type |-> "FinishBlock",
                                          number |-> rhc.last + 1, root |-> state])
    /\ UNCHANGED <<db, sk, jobs, env>>

ProcessRootHashJob ==
    /\ rhc.job # <<>>
    /\ rhc.job[1].number = rhc.last + 1
    /\ LET state == ApplyUpdates(rhc.state, rhc.job[1].updates)
       IN  /\ rhc' = [state |-> state, last |-> rhc.last + 1, job |-> <<>>]
           /\ channel' = Append(channel, [type |-> "FinishBlock",
                                          number |-> rhc.last + 1, root |-> state])
    /\ UNCHANGED <<db, sk, jobs, env>>

HandleCommitRequest ==
    /\ channel # <<>>
    /\ sk.pc # "down"
    /\ Accepted(db, Head(channel))
    /\ db' = Handled(db, Head(channel))
    /\ channel' = Tail(channel)
    /\ UNCHANGED <<sk, jobs, rhc, env>>

Crash ==
    /\ sk.pc # "down"
    /\ env.crashes < MaxCrashes
    /\ db.reverted = {} \/ CrashInReplay
    /\ sk' = Stopped
    /\ channel' = <<>>
    /\ jobs' = <<>>
    /\ rhc' = StoppedRhc
    /\ env' = [env EXCEPT !.crashes = @ + 1]
    /\ UNCHANGED db

(* The blocks above "last" up to the first one without any operation. *)
HasOps(d, n) == ExecutedOps(d, n) # <<>> \/ FailedTxs(d, n) # {}

(* Mutant: the pending block is forgotten. *)
BlocksToRevert_SealedOnly(d, last) ==
    {n \in Blocks : /\ n > last
                    /\ n \in DOMAIN d.blocks \/ \E i \in d.incomplete : i.number = n}

BlocksToRevert(d, last) ==
    {n \in Blocks : n > last /\ \A i \in (last + 1)..n : HasOps(d, i)}

(* The priority operations of a block to revert: a block, a block without  *)
(* a root, or the pending block.                                           *)
RevertedSpan(d, n) ==
    IF n \in DOMAIN d.blocks
    THEN [number |-> n, before |-> d.blocks[n].before, after |-> d.blocks[n].after]
    ELSE IF \E i \in d.incomplete : i.number = n
    THEN IncompleteBlock(d, n)
    ELSE LET p == CHOOSE p \in LoadPendingBlock(d) : TRUE
             l1 == {r \in Range(ExecutedOps(d, n)) : r.op[1] = "L1"}
         IN  [number |-> p.number, before |-> p.before, after |-> p.before + Cardinality(l1)]

(* mempool_reverted_txs_meta: the successful operations with their places. *)
RevertedMeta(d, last) ==
    UNION {{[op |-> r.op, index |-> r.index, block |-> n] : r \in Range(ExecutedOps(d, n))} :
             n \in BlocksToRevert(d, last)}

ReturnedTxs(d, meta) ==
    LET back == SetToSeq({m.op[2] : m \in {m \in meta : m.op[1] = "L2"}})
    IN  [i \in DOMAIN back |->
           [tx |-> back[i], batch |-> d.executedTxs[back[i]].batch, reverted |-> TRUE]]

ReturnedPriorityOps(d, meta) ==
    [s \in Serials |-> IF \E m \in meta : m.op = L1(s) THEN "reverted" ELSE d.ops[s]]

(* return_executed_txs_to_mempool: the successful operations of the blocks *)
(* to revert go back to the mempool, marked.                               *)
ReturnedToMempool(d, last) ==
    LET meta == RevertedMeta(d, last)
        Keep(row) == IF row.block > last THEN NoRow ELSE row
    IN  [d EXCEPT
          !.txs = @ \o ReturnedTxs(d, meta),
          !.ops = ReturnedPriorityOps(d, meta),
          !.reverted = @ \union {RevertedSpan(d, n) : n \in BlocksToRevert(d, last)},
          !.meta = @ \union meta,
          !.executedTxs = [t \in Txs |-> Keep(@[t])],
          !.executedOps = [s \in Serials |-> Keep(@[s])]]

(* The block revert tool, in one database transaction.  A row of a         *)
(* priority operation that is already in the mempool makes it fail.        *)
RevertBlocks(last) ==
    LET d == ReturnedToMempool(db, last)
    IN  /\ sk.pc = "down"
        /\ env.reverts < MaxReverts
        /\ last \in DOMAIN db.blocks
        /\ d # db
        /\ \A m \in d.meta : m.op[1] = "L1" => db.ops[m.op[2]] = "absent"
        /\ db' = [d EXCEPT
                   !.nonce = IF @.block > last THEN [block |-> 0, value |-> 0] ELSE @,
                   !.incomplete = {i \in @ : i.number <= last},
                   !.blocks = [n \in 0..last |-> @[n]],
                   !.pending = {},
                   !.updates = [n \in Blocks |-> IF n > last THEN <<>> ELSE @[n]]]
        /\ env' = [env EXCEPT !.reverts = @ + 1]
        /\ UNCHANGED <<sk, channel, jobs, rhc>>

Next ==
    \/ \E s \in Submissions : Submit(s)
    \/ \E n \in Serials : AddPriorityOps(n)
    \/ Restart
    \/ CollectGarbage
    \/ ProposeNewBlock
    \/ SealFullBlock
    \/ FinishMiniblock
    \/ TakeRootHashJob
    \/ ProcessRootHashJob
    \/ HandleCommitRequest
    \/ Crash
    \/ \E last \in 0..MaxBlock : RevertBlocks(last)

Spec == Init /\ [][Next]_vars

(* Each task of the server runs as long as it has work, and a server that  *)
(* stopped is started again: weak fairness of each task, with the          *)
(* condition under which it can take a step written out.                   *)
KeeperHasWork ==
    CASE sk.pc = "down" -> RestartAssertions(db)
      [] sk.pc = "idle" -> /\ ~ShouldThrottle
                           /\ Len(channel) <= MaxLag
                           /\ PriorityOpsInQueueOrder(db, sk.pending.current)
      [] OTHER -> TRUE

KeeperStep ==
    Restart \/ CollectGarbage \/ ProposeNewBlock \/ SealFullBlock \/ FinishMiniblock

CalculatorHasWork ==
    sk.pc # "down" /\ (rhc.job # <<>> \/ jobs # <<>>)

CalculatorStep == TakeRootHashJob \/ ProcessRootHashJob

CommitterHasWork ==
    channel # <<>> /\ Accepted(db, Head(channel))

Fairness ==
    /\ []<>~KeeperHasWork \/ []<><<KeeperStep>>_vars
    /\ []<>~CalculatorHasWork \/ []<><<CalculatorStep>>_vars
    /\ []<>~CommitterHasWork \/ []<><<HandleCommitRequest>>_vars

FairSpec == Spec /\ Fairness

-----------------------------------------------------------------------------
InMempool(d, t) == \E i \in DOMAIN d.txs : d.txs[i].tx = t

Sealed(d) ==
    {[number |-> n, before |-> d.blocks[n].before, after |-> d.blocks[n].after] :
       n \in DOMAIN d.blocks \ {0}} \union d.incomplete

TypeOK ==
    /\ \A i \in DOMAIN db.txs : db.txs[i].tx \in Txs
    /\ db.ops \in [Serials -> {"absent", "queued", "reverted"}]
    /\ \A b \in Sealed(db) : b.number \in Blocks /\ 0 <= b.before /\ b.before <= b.after
    /\ sk.pc \in {"down", "starting", "idle", "executing"}
    /\ sk.pending.storedOps <= Len(sk.pending.ops)
    /\ sk.pending.storedUpdates <= Len(sk.pending.updates)
    /\ ChunksLeft(sk.pending) >= 0


(* The committer never gets a request the database refuses (it panics on   *)
(* an error), and the root hash calculator never gets a job out of order:  *)
(* the two tasks race to the committer, yet a block is sealed before it is *)
(* finished.                                                               *)
RequestsAccepted ==
    /\ channel # <<>> => Accepted(db, Head(channel))
    /\ rhc.job # <<>> => rhc.job[1].number = rhc.last + 1

(* The assertion "Wrong order for priority ops" of the mempool holds       *)
(* whenever the state keeper may ask for a block.                          *)
PriorityQueueHasNoGap ==
    sk.pc = "idle" => PriorityOpsInQueueOrder(db, sk.pending.current)

(* Across crashes and reverts, each block takes up the priority operations *)
(* where the block before it stopped, and the operations recorded for it   *)
(* are those.                                                              *)
PriorityOpsInBlocks ==
    \A b \in Sealed(db) :
        /\ b.before = (IF b.number = 1 THEN 0
                       ELSE (CHOOSE c \in Sealed(db) : c.number = b.number - 1).after)
        /\ {s \in Serials : db.executedOps[s].block = b.number} = b.before..(b.after - 1)

(* The root of every finished block is the root of the state that the      *)
(* stored updates up to that block lead to, although root and updates are  *)
(* computed by different tasks and stored by different requests.           *)
RootsMatchUpdates ==
    \A n \in DOMAIN db.blocks :
        db.blocks[n].root =
            FoldLeft(LAMBDA st, i : ApplyUpdates(st, db.updates[i]),
                     GenesisState, [i \in 1..n |-> i])

(* The deposits executed so far are what the accounts and the fees of the  *)
(* pending block hold, also in the state a restarted state keeper rebuilds.*)
FundsConserved ==
    sk.pc # "down" =>
        sk.state["user"].balance + sk.state["fee"].balance + sk.pending.fees
            = sk.pending.current


(* Only the block revert tool takes back the recorded success of an        *)
(* operation or moves it to another block: a transaction that is proposed  *)
(* and executed again, because the committer lags behind, changes nothing. *)
SuccessIsFinal ==
    [][env'.reverts = env.reverts =>
         /\ \A t \in Txs : db.executedTxs[t].success =>
               /\ db'.executedTxs[t].success
               /\ db'.executedTxs[t].block = db.executedTxs[t].block
         /\ \A s \in Serials : db.executedOps[s].success =>
               db'.executedOps[s] = db.executedOps[s]]_vars

(* No step loses an operation: what is in the mempool or was executed      *)
(* successfully is after the step in the mempool or recorded.              *)
NothingVanishes ==
    [][/\ \A t \in Txs : InMempool(db, t) \/ db.executedTxs[t].success =>
             InMempool(db', t) \/ db'.executedTxs[t] # NoRow
       /\ \A s \in Serials : db.ops[s] # "absent" \/ db.executedOps[s] # NoRow =>
             db'.ops[s] # "absent" \/ db'.executedOps[s] # NoRow]_vars

(* Every priority operation in the queue gets into a finished block, with  *)
(* a root, despite throttling, crashes and reverts.                        *)
PriorityOpsServed ==
    \A s \in Serials : db.ops[s] = "queued" ~>
        \E n \in DOMAIN db.blocks : db.blocks[n].before <= s /\ s < db.blocks[n].after

(* Every transaction in the mempool is executed or rejected. *)
TxsProcessed ==
    \A t \in Txs : InMempool(db, t) ~> db.executedTxs[t] # NoRow
=============================================================================
