----------------------------- MODULE EthSender ------------------------------
(***************************************************************************)
(* The Ethereum sender (zksync_eth_sender): it takes aggregated operations *)
(* from the database, sends one Ethereum transaction for each, replaces    *)
(* transactions that got stuck and marks operations as confirmed.  The     *)
(* module models the process, its tables, the Ethereum chain it talks to   *)
(* and the faults between them.  A transaction hash stands for what is     *)
(* signed: the nonce, the operation and the gas price.  Block numbers are  *)
(* left out: whether a transaction is past its deadline is a choice.       *)
(***************************************************************************)
EXTENDS Integers, Sequences, FiniteSets

CONSTANTS
    MaxBlock,           \* bound: blocks covered by operations
    MaxOperations,      \* bound: aggregated operations ever stored
    MaxTxsInFlight,     \* max_txs_in_flight of the configuration
    Prices,             \* gas prices the adjuster may suggest
    MaxHashes,          \* bound: transactions made for one operation
    Faults,             \* the kinds of fault that may happen
    MaxFaults,          \* bound: faults in a behaviour
    MaxEthIds           \* bound: ids given out by the database

ASSUME EthSenderAssumption ==
    /\ MaxBlock \in Nat /\ MaxOperations \in Nat /\ MaxHashes \in Nat
    /\ MaxTxsInFlight \in Nat \ {0}
    /\ Prices \subseteq Nat /\ Prices # {}
    /\ Faults \subseteq {"crash", "rpc", "send", "reply", "initialize", "commit"}
    /\ MaxFaults \in Nat /\ MaxEthIds \in Nat

VARIABLES
    aggregateOps,   \* table aggregate_operations, in order of id
    unprocessed,    \* table eth_unprocessed_aggregated_ops
    confirmedOps,   \* ids of the aggregated operations marked as confirmed
    appliedBlocks,  \* blocks whose updates were applied to the stored state
    eth,            \* tables eth_operations, eth_tx_hashes and eth_parameters
    open,           \* the same tables inside the sender's open transaction
    ids,            \* sequences of the tables' ids: a rollback keeps them
    pc,             \* where the sender is
    queue,          \* TxQueue: an OperationQueue for each type
    sentPending,    \* TxQueue: sent_pending_txs
    ongoing,        \* ongoing_ops
    kept,           \* new_ongoing_ops
    pass,           \* the chain as current_block of this round shows it
    mempool,        \* transactions Ethereum may still mine
    mined,          \* the account's mined transactions: one for each nonce
    final,          \* how many of them have wait_confirmations
    newBlock,       \* the block number differs from last_used_block
    faults          \* the kinds of fault that happened

database == <<unprocessed, confirmedOps, appliedBlocks, eth, open, ids>>
memory == <<queue, sentPending, ongoing, kept, pass>>
ethereum == <<mempool, mined, final, newBlock>>
vars == <<aggregateOps, database, pc, memory, ethereum, faults>>

Log == INSTANCE OperationLog WITH log <- aggregateOps

Commit == "CommitBlocks"
Verify == "PublishProofBlocksOnchain"
Execute == "ExecuteBlocks"
Types == {Commit, Verify, Execute}

ToSet(s) == {s[i] : i \in DOMAIN s}
Fault(kind) ==
    /\ kind \in Faults
    /\ Len(faults) < MaxFaults
    /\ faults' = Append(faults, kind)

-----------------------------------------------------------------------------
(* The queues. *)

OperationQueue(last) == [elements |-> <<>>, last |-> last]
EmptyQueues(lasts) == [t \in Types |-> OperationQueue(lasts[t])]

(* The block after which the next pushed element must start. *)
QueueEnd(q) == IF q.elements = <<>> THEN q.last
               ELSE aggregateOps[q.elements[Len(q.elements)]].last

OfType_NoExecute(new, t) ==
    SelectSeq([i \in 1..Len(aggregateOps) |-> i],
              LAMBDA i : /\ i \in new
                         /\ aggregateOps[i].type = t
                         /\ t # Execute)
(* The operations of one type among new, in the order of their ids. *)
OfType(new, t) ==
    SelectSeq([i \in 1..Len(aggregateOps) |-> i],
              LAMBDA i : i \in new /\ aggregateOps[i].type = t)

(* push_back accepts all of them, one after the other. *)
Subsequent(q, ops) ==
    \A k \in DOMAIN ops :
        aggregateOps[ops[k]].first =
            1 + IF k = 1 THEN QueueEnd(q) ELSE aggregateOps[ops[k - 1]].last

PushBack(q, ops) == [q EXCEPT !.elements = @ \o ops]
PopFront(q) == [elements |-> Tail(q.elements),
                last |-> aggregateOps[Head(q.elements)].last]
ReturnPopped(q, op) == [elements |-> <<op>> \o q.elements,
                        last |-> aggregateOps[op].first - 1]

(* The front element of t ends no later than what was taken of another type.*)
Covered(t, other) ==
    /\ queue[t].elements # <<>>
    /\ aggregateOps[Head(queue[t].elements)].last <= queue[other].last

NextType_VerifyUnchecked ==
    IF Covered(Execute, Verify) THEN {Execute}
    ELSE IF queue[Verify].elements # <<>> THEN {Verify}
    ELSE {t \in {Commit} : queue[t].elements # <<>>}

(* get_next_operation: at most one type has its turn. *)
NextType ==
    IF Covered(Execute, Verify) THEN {Execute}
    ELSE IF Covered(Verify, Commit) THEN {Verify}
    ELSE {t \in {Commit} : queue[t].elements # <<>>}

MayPop_Unlimited == NextType # {}
MayPop == sentPending < MaxTxsInFlight /\ NextType # {}

-----------------------------------------------------------------------------
(* The chain: transactions of one account, mined in the order of nonces. *)

Hash(nonce, op, price) == [nonce |-> nonce, op |-> op, price |-> price]

(* The node refuses a used nonce and a replacement that pays no more. *)
Accepts(tx) ==
    /\ tx.nonce >= Len(mined)
    /\ \A other \in mempool : other.nonce = tx.nonce => other.price < tx.price

(* The operations the contract carried out. *)
Performed ==
    LET done == SelectSeq(mined, LAMBDA m : m.success)
    IN  [i \in DOMAIN done |-> aggregateOps[done[i].tx.op]]

MineTx ==
    /\ \E tx \in mempool :
          /\ tx.nonce = Len(mined)
          /\ mined' = Append(mined,
                [tx |-> tx,
                 success |-> Log!MayFollow(Performed, aggregateOps[tx.op])])
          /\ mempool' = {other \in mempool : other.nonce # tx.nonce}
    /\ newBlock' = TRUE
    /\ UNCHANGED <<aggregateOps, database, pc, memory, final, faults>>

MineBlock ==
    /\ newBlock' = TRUE
    /\ final' \in final..Len(mined)
    /\ UNCHANGED <<aggregateOps, database, pc, memory, mempool, mined, faults>>

-----------------------------------------------------------------------------
Init ==
    /\ aggregateOps = <<>>
    /\ unprocessed = {} /\ confirmedOps = {} /\ appliedBlocks = <<>>
    /\ eth = [ops |-> <<>>, nonce |-> 0, last |-> [t \in Types |-> 0]]
    /\ open = eth
    /\ ids = [eth |-> 0, binding |-> 0]
    /\ pc = "down"
    /\ queue = EmptyQueues(eth.last)
    /\ sentPending = 0 /\ ongoing = <<>> /\ kept = <<>>
    /\ pass = [due |-> FALSE, final |-> 0]
    /\ mempool = {} /\ mined = <<>> /\ final = 0 /\ newBlock = TRUE
    /\ faults = <<>>

(* store_aggregated_action, called by the committer.  The rows of joint     *)
(* proofs, which the sender never sees, are left out of the table.          *)
StoreAggregatedAction ==
    /\ Len(aggregateOps) < MaxOperations
    /\ Log!LogNext
    /\ unprocessed' = unprocessed \cup {Len(aggregateOps')}
    /\ UNCHANGED <<confirmedOps, appliedBlocks, eth, open, ids, pc, memory,
                   ethereum, faults>>

(* The process ends: its memory is lost and its transaction rolled back. *)
Stop ==
    /\ pc' = "down"
    /\ open' = eth'
    /\ queue' = EmptyQueues([t \in Types |-> 0])
    /\ sentPending' = 0 /\ ongoing' = <<>> /\ kept' = <<>>
    /\ pass' = [due |-> FALSE, final |-> 0]

Crash ==
    /\ pc # "down"
    /\ Fault("crash")
    /\ UNCHANGED <<aggregateOps, unprocessed, confirmedOps, appliedBlocks, eth,
                   ids, ethereum>>
    /\ Stop

-----------------------------------------------------------------------------
(* Restart and loading. *)

Rows == ToSet(eth.ops)
Unconfirmed == SelectSeq(eth.ops, LAMBDA row : ~row.confirmed)

(* The query compares the id of the operation with the ids of the bindings: *)
(* it is true as soon as some binding has another id.                       *)
RestoreUnprocessedOperations ==
    {i \in DOMAIN aggregateOps :
        i \notin confirmedOps /\ \E row \in Rows : row.binding # i}

SentPendingTxs_Zero == 0
SentPendingTxs == Len(Unconfirmed)

(* ETHSender::new: one database transaction. *)
Start ==
    /\ pc = "down"
    /\ unprocessed' = (unprocessed \cup RestoreUnprocessedOperations)
                          \ {row.op : row \in ToSet(Unconfirmed)}
    /\ ongoing' = [k \in DOMAIN Unconfirmed |->
                      [id |-> Unconfirmed[k].id, op |-> Unconfirmed[k].op,
                       nonce |-> Unconfirmed[k].nonce,
                       hashes |-> Unconfirmed[k].hashes]]
    /\ sentPending' = SentPendingTxs
    /\ queue' = EmptyQueues(eth.last)
    /\ newBlock' = TRUE
    /\ pc' = "load"
    /\ UNCHANGED <<aggregateOps, confirmedOps, appliedBlocks, eth, open, ids,
                   kept, pass, mempool, mined, final, faults>>

(* The rows are removed from the table before they are queued; a queue that *)
(* refuses one stops the process.                                           *)
LoadNewOperations ==
    /\ pc = "load"
    /\ unprocessed' = {}
    /\ UNCHANGED <<aggregateOps, confirmedOps, appliedBlocks, eth, ids, ethereum,
                   faults>>
    /\ LET new(t) == OfType(unprocessed, t)
       IN  \/ /\ \A t \in Types : Subsequent(queue[t], new(t))
              /\ queue' = [t \in Types |-> PushBack(queue[t], new(t))]
              /\ pc' = "proceed"
              /\ UNCHANGED <<open, sentPending, ongoing, kept, pass>>
           \/ (\E t \in Types : ~Subsequent(queue[t], new(t))) /\ Stop

(* proceed_next_operations reads the block number... *)
ReadBlockNumber ==
    /\ pc = "proceed"
    /\ pass' = [due |-> newBlock, final |-> final]
    /\ newBlock' = FALSE
    /\ pc' = "send"
    /\ UNCHANGED <<aggregateOps, database, queue, sentPending, ongoing, kept,
                   mempool, mined, final, faults>>

BlockNumberFails ==
    /\ pc = "proceed"
    /\ Fault("rpc")
    /\ pc' = "load"
    /\ UNCHANGED <<aggregateOps, database, memory, ethereum>>

-----------------------------------------------------------------------------
(* ... and sends what the queue yields. *)

TakeIds(n, m) ==
    /\ ids.eth < MaxEthIds
    /\ ids' = [eth |-> ids.eth + n, binding |-> ids.binding + m]

(* report_created_operation *)
InAscendingOrder(op) ==
    aggregateOps[op].first = eth.last[aggregateOps[op].type] + 1

(* save_new_eth_tx and add_hash_entry *)
SaveNewEthTx(op, tx) ==
    [ops |-> Append(eth.ops, [id |-> ids'.eth, binding |-> ids'.binding,
                              op |-> op, nonce |-> eth.nonce,
                              hashes |-> <<tx>>, confirmed |-> FALSE]),
     nonce |-> eth.nonce + 1,
     last |-> [eth.last EXCEPT ![aggregateOps[op].type] = aggregateOps[op].last]]

(* initialize_operation up to the point where the transaction is sent; an   *)
(* error of send_raw_tx is ignored.                                         *)
InitializeOperation ==
    /\ pc = "send" /\ MayPop
    /\ \E t \in NextType, price \in Prices :
          LET op == Head(queue[t].elements)
              tx == Hash(eth.nonce, op, price)
          IN  /\ InAscendingOrder(op)
              /\ TakeIds(1, 1)
              /\ open' = SaveNewEthTx(op, tx)
              /\ queue' = [queue EXCEPT ![t] = PopFront(@)]
              /\ ongoing' = Append(ongoing, [id |-> ids'.eth, op |-> op,
                                             nonce |-> eth.nonce,
                                             hashes |-> <<tx>>])
              /\ \/ /\ mempool' = IF Accepts(tx) THEN mempool \cup {tx}
                                   ELSE mempool
                    /\ UNCHANGED faults
                 \/ Fault("send") /\ UNCHANGED mempool
    /\ sentPending' = sentPending + 1
    /\ pc' = "initialized"
    /\ UNCHANGED <<aggregateOps, unprocessed, confirmedOps, appliedBlocks, eth,
                   kept, pass, mined, final, newBlock>>

(* It fails earlier: the popped operation goes back to where it was. *)
InitializeFails ==
    /\ pc = "send" /\ MayPop
    /\ \/ Fault("initialize")
       \/ /\ \E t \in NextType : ~InAscendingOrder(Head(queue[t].elements))
          /\ UNCHANGED faults
    /\ \E n, m \in {0, 1} : m <= n /\ TakeIds(n, m)
    /\ UNCHANGED <<aggregateOps, unprocessed, confirmedOps, appliedBlocks, eth,
                   open, pc, memory, ethereum>>

CommitInitialized ==
    /\ pc = "initialized"
    /\ eth' = open
    /\ pc' = "send"
    /\ UNCHANGED <<aggregateOps, unprocessed, confirmedOps, appliedBlocks, open,
                   ids, memory, ethereum, faults>>

(* The commit reports an error, whether or not the database carried it out. *)
(* The operation returns to the queue and stays among the ongoing ones.     *)
CommitInitializedFails ==
    /\ pc = "initialized"
    /\ Fault("commit")
    /\ eth' \in {eth, open}
    /\ open' = eth'
    /\ LET op == ongoing[Len(ongoing)].op
       IN  queue' = [queue EXCEPT ![aggregateOps[op].type] = ReturnPopped(@, op)]
    /\ sentPending' = sentPending - 1
    /\ pc' = "send"
    /\ UNCHANGED <<aggregateOps, unprocessed, confirmedOps, appliedBlocks, ids,
                   ongoing, kept, pass, ethereum>>

QueueDrained ==
    /\ pc = "send" /\ ~MayPop
    /\ pc' = IF pass.due THEN "check" ELSE "load"
    /\ UNCHANGED <<aggregateOps, database, memory, ethereum, faults>>

-----------------------------------------------------------------------------
(* perform_commitment_step for the first of the ongoing operations. *)

Checked == Head(ongoing)
MinedHash(o) == {i \in DOMAIN mined : mined[i].tx \in ToSet(o.hashes)}
IsConfirmedDeep(o) == \E i \in MinedHash(o) : i <= pass.final
IsCommitted_NotDeep(o) == \E i \in MinedHash(o) : mined[i].success
IsCommitted(o) == \E i \in MinedHash(o) : i <= pass.final /\ mined[i].success

IsPreviousOperationConfirmed_Unchecked(id) == TRUE
(* The row with the greatest id below this one is confirmed; an operation   *)
(* without such a row passes only if its id is 1.                           *)
IsPreviousOperationConfirmed(id) ==
    \/ id = 1
    \/ \E row \in Rows :
          /\ row.id < id /\ row.confirmed
          /\ \A other \in Rows : other.id < id => other.id <= row.id

(* get_eth_op_id: rows that the mined hash of o was stored for. *)
StoredRows(o) ==
    {k \in DOMAIN eth.ops :
        \E i \in MinedHash(o) : mined[i].tx \in ToSet(eth.ops[k].hashes)}

KeepPending(o) ==
    /\ ongoing' = Tail(ongoing)
    /\ kept' = Append(kept, o)
    /\ UNCHANGED <<queue, sentPending, pass>>

(* Not deep enough, not past the deadline, ahead of its turn, or mined by a *)
(* transaction whose hash is not stored, which is an error.                 *)
CheckPending ==
    /\ pc = "check" /\ ongoing # <<>>
    /\ ~IsConfirmedDeep(Checked)
          \/ /\ IsCommitted(Checked)
             /\ \/ ~IsPreviousOperationConfirmed(Checked.id)
                \/ StoredRows(Checked) = {}
    /\ KeepPending(Checked)
    /\ UNCHANGED <<aggregateOps, database, pc, ethereum, faults>>

CheckFails ==
    /\ pc = "check" /\ ongoing # <<>>
    /\ Fault("rpc")
    /\ KeepPending(Checked)
    /\ UNCHANGED <<aggregateOps, database, pc, ethereum>>

(* confirm_aggregated_operations: every operation of this type in the range *)
InRangeOf(op) ==
    {i \in DOMAIN aggregateOps :
        /\ aggregateOps[i].type = aggregateOps[op].type
        /\ aggregateOps[i].first >= aggregateOps[op].first
        /\ aggregateOps[i].last <= aggregateOps[op].last}

BlocksOf(op) ==
    [k \in 1..(aggregateOps[op].last - aggregateOps[op].first + 1) |->
        aggregateOps[op].first + k - 1]

ReportCommitment_SlotKept ==
    /\ ongoing' = Tail(ongoing)
    /\ open' = eth'
    /\ UNCHANGED <<pc, queue, sentPending, kept, pass>>
(* report_commitment asserts that a slot is taken. *)
ReportCommitment ==
    \/ /\ sentPending > 0
       /\ sentPending' = sentPending - 1
       /\ ongoing' = Tail(ongoing)
       /\ open' = eth'
       /\ UNCHANGED <<pc, queue, kept, pass>>
    \/ sentPending = 0 /\ Stop

ConfirmOperation ==
    /\ pc = "check" /\ ongoing # <<>>
    /\ IsCommitted(Checked)
    /\ IsPreviousOperationConfirmed(Checked.id)
    /\ \E k \in StoredRows(Checked) :
          /\ eth' = [eth EXCEPT !.ops[k].confirmed = TRUE]
          /\ confirmedOps' = confirmedOps \cup InRangeOf(Checked.op)
                                          \cup InRangeOf(eth.ops[k].op)
    /\ appliedBlocks' = IF aggregateOps[Checked.op].type = Execute
                        THEN appliedBlocks \o BlocksOf(Checked.op)
                        ELSE appliedBlocks
    /\ ReportCommitment
    /\ UNCHANGED <<aggregateOps, unprocessed, ids, ethereum, faults>>

(* failure_handler: the process stops when a transaction failed. *)
FailedTransaction ==
    /\ pc = "check" /\ ongoing # <<>>
    /\ IsConfirmedDeep(Checked) /\ ~IsCommitted(Checked)
    /\ UNCHANGED <<aggregateOps, unprocessed, confirmedOps, appliedBlocks, eth,
                   ids, ethereum, faults>>
    /\ Stop

-----------------------------------------------------------------------------
(* The replacement of a stuck transaction. *)

(* create_supplement_tx adds the hash to the operation in memory first. *)
WithHash(o, tx) == [o EXCEPT !.hashes = Append(@, tx)]

AddHashEntry(id, tx) ==
    [eth EXCEPT !.ops = [k \in DOMAIN @ |->
        IF @[k].id = id THEN [@[k] EXCEPT !.hashes = Append(@, tx)] ELSE @[k]]]

IsStored(id) == \E row \in Rows : row.id = id

Stuck(o) == MinedHash(o) = {} /\ Len(o.hashes) < MaxHashes

SendSupplement ==
    /\ pc = "check" /\ ongoing # <<>>
    /\ Stuck(Checked) /\ IsStored(Checked.id)
    /\ \E price \in Prices :
          LET tx == Hash(Checked.nonce, Checked.op, price)
          IN  /\ Accepts(tx)
              /\ mempool' = mempool \cup {tx}
              /\ open' = AddHashEntry(Checked.id, tx)
              /\ ongoing' = <<WithHash(Checked, tx)>> \o Tail(ongoing)
    /\ pc' = "supplemented"
    /\ UNCHANGED <<aggregateOps, unprocessed, confirmedOps, appliedBlocks, eth,
                   ids, queue, sentPending, kept, pass, mined, final, newBlock,
                   faults>>

(* No row to add the hash to, the node refuses, the request or its answer   *)
(* is lost: the hash stays in memory and the database forgets it.           *)
SupplementFails ==
    /\ pc = "check" /\ ongoing # <<>>
    /\ Stuck(Checked)
    /\ \E price \in Prices :
          LET tx == Hash(Checked.nonce, Checked.op, price)
          IN  /\ \/ /\ ~IsStored(Checked.id) \/ ~Accepts(tx)
                    /\ UNCHANGED <<mempool, faults>>
                 \/ /\ IsStored(Checked.id) /\ Accepts(tx)
                    /\ \/ Fault("send") /\ UNCHANGED mempool
                       \/ Fault("reply") /\ mempool' = mempool \cup {tx}
              /\ KeepPending(WithHash(Checked, tx))
    /\ UNCHANGED <<aggregateOps, database, pc, mined, final, newBlock>>

CommitSupplement ==
    /\ pc = "supplemented"
    /\ \/ eth' = open /\ UNCHANGED faults
       \/ eth' \in {eth, open} /\ Fault("commit")
    /\ open' = eth'
    /\ KeepPending(Checked)
    /\ pc' = "check"
    /\ UNCHANGED <<aggregateOps, unprocessed, confirmedOps, appliedBlocks, ids,
                   ethereum>>

AllChecked ==
    /\ pc = "check" /\ ongoing = <<>>
    /\ ongoing' = kept
    /\ kept' = <<>>
    /\ pc' = "load"
    /\ UNCHANGED <<aggregateOps, database, queue, sentPending, pass, ethereum,
                   faults>>

-----------------------------------------------------------------------------
PerformCommitmentStep ==
    \/ CheckPending \/ CheckFails \/ ConfirmOperation \/ FailedTransaction
    \/ SendSupplement \/ SupplementFails \/ CommitSupplement

ProceedNextOperations ==
    \/ ReadBlockNumber \/ BlockNumberFails
    \/ InitializeOperation \/ InitializeFails
    \/ CommitInitialized \/ CommitInitializedFails \/ QueueDrained
    \/ PerformCommitmentStep \/ AllChecked

Sender == Start \/ LoadNewOperations \/ ProceedNextOperations

Next ==
    \/ StoreAggregatedAction
    \/ MineTx \/ MineBlock
    \/ Sender
    \/ Crash

Spec == Init /\ [][Next]_vars

(* The loop of run never ends; Ethereum makes blocks, mines what it accepted*)
(* and every deadline passes, so that a transaction that is never mined is  *)
(* replaced some day.                                                       *)
FairSpec ==
    /\ Spec
    /\ WF_vars(Sender)
    /\ WF_vars(MineTx)
    /\ WF_vars(MineBlock /\ final' = Len(mined))
    /\ SF_vars(SendSupplement)

-----------------------------------------------------------------------------
Hashes == [nonce : 0..MaxEthIds, op : 1..MaxOperations, price : Prices]

(* The variables have the shapes of the tables and structures they model. *)
TypeOK ==
    /\ \A i \in DOMAIN aggregateOps : aggregateOps[i].type \in Types
    /\ unprocessed \subseteq DOMAIN aggregateOps
    /\ confirmedOps \subseteq DOMAIN aggregateOps
    /\ \A row \in Rows : row.op \in DOMAIN aggregateOps /\ row.id <= ids.eth
    /\ pc \in {"down", "load", "proceed", "send", "initialized", "check",
               "supplemented"}
    /\ pc \notin {"initialized", "supplemented"} => open = eth
    /\ sentPending \in 0..MaxTxsInFlight
    /\ mempool \subseteq Hashes
    /\ \A i \in DOMAIN mined : mined[i].tx \in Hashes
    /\ pass.final <= final /\ final <= Len(mined)

(* The stored transactions have consecutive nonces in the order of their    *)
(* ids, and each one is for an operation the contract can carry out once    *)
(* those before it are: what TxQueue's priorities and                       *)
(* report_created_operation are for, across restarts too.                   *)
SentInOrder ==
    \A k \in DOMAIN eth.ops :
        /\ eth.ops[k].nonce = k - 1
        /\ k > 1 => eth.ops[k - 1].id < eth.ops[k].id
        /\ Log!MayFollow([j \in 1..(k - 1) |-> aggregateOps[eth.ops[j].op]],
                         aggregateOps[eth.ops[k].op])

(* Operations are confirmed in the order they were sent, and each marks its *)
(* own aggregated operation (is_previous_operation_confirmed,               *)
(* confirm_operation), whatever fails in between.                           *)
ConfirmedInOrder ==
    /\ \A k \in 2..Len(eth.ops) :
          eth.ops[k].confirmed => eth.ops[k - 1].confirmed
    /\ confirmedOps = {row.op : row \in {r \in Rows : r.confirmed}}

(* No transaction of the database failed to commit.  When one does, the     *)
(* operation is queued again while its entry stays in ongoing_ops.          *)
CommitsSucceeded == "commit" \notin ToSet(faults)


(* What the database calls confirmed was carried out by the contract and    *)
(* has enough confirmations (check_transaction_state).                      *)
ConfirmedIsOnChain ==
    \A row \in Rows : row.confirmed =>
        \E i \in 1..final : mined[i].success /\ mined[i].tx.op = row.op

(* Every slot of the queue belongs to an ongoing operation: none leaks, and *)
(* report_commitment never finds the counter at zero; as long as no         *)
(* transaction of the database fails to commit.                             *)
SlotsMatchOngoing ==
    pc # "down" /\ CommitsSucceeded =>
        sentPending = Len(ongoing) + Len(kept)

(* No operation is forgotten: while the sender runs, an operation waits in  *)
(* the table, waits in a queue, or has a transaction.                       *)
NothingForgotten ==
    pc # "down" =>
        \A i \in DOMAIN aggregateOps :
            \/ i \in unprocessed
            \/ i \in ToSet(queue[aggregateOps[i].type].elements)
            \/ \E row \in ToSet(open.ops) : row.op = i


(* The contract refuses none of the sender's transactions, as the failure     *)
(* policy of ETHSender expects.                                             *)
NoTransactionFails == \A i \in DOMAIN mined : mined[i].success

(* report_commitment is called only when a transaction is in flight, as its *)
(* assertion says, as long as no transaction of the database fails to       *)
(* commit.                                                                  *)
CommitmentIsExpected ==
    [][ConfirmOperation /\ CommitsSucceeded => sentPending > 0]_vars

(* Every stored operation is eventually confirmed. *)
OperationsConfirmed ==
    \A i \in 1..MaxOperations :
        (Len(aggregateOps) >= i) ~> (i \in confirmedOps)
=============================================================================
