------------------------------ MODULE EthWatch ------------------------------
(***************************************************************************)
(* The Ethereum watcher, the part of the mempool and of the state keeper   *)
(* that takes in priority operations, and the token handler.               *)
(*                                                                         *)
(* The chain and the node are the environment: blocks hold at most one     *)
(* priority request or one new token, blocks without enough confirmations  *)
(* may be replaced, a node may lag behind and fail a call, and its logs    *)
(* may lack events if PartialLogs is set.  The backoff mode only delays    *)
(* the next poll, which may come at any time here.                         *)
(***************************************************************************)
EXTENDS Integers, Sequences, FiniteSets

LOCAL INSTANCE SequencesExt
LOCAL INSTANCE FiniteSetsExt
LOCAL INSTANCE Functions

CONSTANTS
    Confirmations,  \* number_of_confirmations_for_event
    LookBack,       \* PRIORITY_EXPIRATION, in blocks
    PartialLogs,    \* whether a node may leave events out of its logs
    NodeLag,        \* how far behind a node may be
    MaxBlock,       \* bound: height of the chain
    MaxRequests,    \* bound: priority requests
    MaxTokens,      \* bound: tokens
    MaxFaults       \* bound: reorganisations, failed polls and crashes

VARIABLES
    chain,   \* the height of the chain and its events
    w,       \* the watcher
    rows,    \* mempool_priority_operations, by serial id
    keeper,  \* the operations executed, and how many of them are stored
    tokens,  \* the tokens table and the last block of the token handler
    faults   \* how often something went wrong so far

vars == <<chain, w, rows, keeper, tokens, faults>>

Minus(a, b) == IF a > b THEN a - b ELSE 0

-----------------------------------------------------------------------------
(* The chain.  The serial id of a request is its place less one; "id"      *)
(* tells a request from one that replaces it.                              *)

Mine(kind) ==
    /\ chain.head < MaxBlock
    /\ kind = "request" => Len(chain.requests) < MaxRequests
    /\ kind = "token" => Len(chain.tokens) < MaxTokens
    /\ chain' = [head |-> chain.head + 1,
                 requests |-> IF kind = "request"
                              THEN Append(chain.requests, [id |-> chain.nextId,
                                                           block |-> chain.head + 1])
                              ELSE chain.requests,
                 tokens |-> IF kind = "token" THEN Append(chain.tokens, chain.head + 1)
                            ELSE chain.tokens,
                 nextId |-> IF kind = "request" THEN chain.nextId + 1 ELSE chain.nextId]
    /\ UNCHANGED <<w, rows, keeper, tokens, faults>>

(* The last blocks are replaced by blocks without events. *)
Reorg ==
    LET last == Minus(chain.head, Confirmations)
    IN  /\ faults < MaxFaults
        /\ chain' = [chain EXCEPT
                      !.requests = SelectSeq(@, LAMBDA r : r.block <= last),
                      !.tokens = SelectSeq(@, LAMBDA b : b <= last)]
        /\ chain' # chain
        /\ faults' = faults + 1
        /\ UNCHANGED <<w, rows, keeper, tokens>>

(* get_priority_op_events, get_new_tokens_events: a range that has too     *)
(* many events is halved until it has not, so the range is covered.        *)
PriorityOpEvents(from, to) ==
    {s \in 0..(Len(chain.requests) - 1) :
        from <= chain.requests[s + 1].block /\ chain.requests[s + 1].block <= to}

NewTokensEvents(from, to) ==
    {t \in DOMAIN chain.tokens : from <= chain.tokens[t] /\ chain.tokens[t] <= to}

WithIds(serials) == [s \in serials |-> chain.requests[s + 1].id]

-----------------------------------------------------------------------------
(* The watcher.  "unconfirmed", "confirmed" and "newTokens" are what the   *)
(* queries of the poll under way returned, "block" is its block number and *)
(* "sending" what the mempool has left to insert.                          *)

NoPoll == [pc |-> "idle", block |-> 0, unconfirmed |-> <<>>, confirmed |-> <<>>,
           newTokens |-> {}, sending |-> <<>>]

NoState == [restored |-> FALSE, last |-> 0, backup |-> 0, next |-> 0,
            queue |-> {}, tokens |-> {}]

Init ==
    /\ chain = [head |-> 0, requests |-> <<>>, tokens |-> <<>>, nextId |-> 1]
    /\ w = NoPoll @@ NoState
    /\ rows = <<>>
    /\ keeper = [done |-> <<>>, stored |-> 0]
    /\ tokens = [stored |-> {}, last |-> 0]
    /\ faults = 0

(* Mutant: events count as confirmed one block early. *)
AcceptedBlock_OneEarly(current) == Minus(current, Confirmations) + 1

AcceptedBlock(current) == Minus(current, Confirmations)

(* Mutant: the blocks that were seen without confirmations are not read    *)
(* again.                                                                  *)
FirstBlock_AfterLast(current) ==
    IF w.restored THEN w.last + 1 ELSE Minus(AcceptedBlock(current), LookBack)

(* As many blocks as are new, or, at the start, as a request may wait. *)
FirstBlock(current) ==
    Minus(AcceptedBlock(current), IF w.restored THEN current - w.last ELSE LookBack)

(* get_unconfirmed_ops: up to the latest block of the node. *)
Unconfirmed(current) ==
    WithIds(PriorityOpEvents(AcceptedBlock(current) + 1, chain.head))

(* A poll that finds no new block does nothing; a watcher without a state  *)
(* is restored with the first block number it is told.                     *)
Due(current) == w.restored => current > w.last

(* poll_eth_node, or restore_from_eth_using_latest_block_number when the   *)
(* watcher has no state yet, up to the results of the queries.             *)
Poll(current, missing) ==
    LET accepted == AcceptedBlock(current)
        from == FirstBlock(current)
    IN  /\ w.pc = "idle"
        /\ Due(current)
        /\ missing \subseteq PriorityOpEvents(from, accepted)
        /\ w' = [w EXCEPT
                  !.pc = "filter unconfirmed",
                  !.block = current,
                  !.unconfirmed = Unconfirmed(current),
                  !.confirmed = WithIds(PriorityOpEvents(from, accepted) \ missing),
                  !.newTokens = NewTokensEvents(from, accepted)]
        /\ UNCHANGED <<chain, rows, keeper, tokens, faults>>

(* Mutant: the state is replaced although the mempool has not answered. *)
PollFails_StateKept ==
    /\ w.pc # "idle"
    /\ w.restored
    /\ faults < MaxFaults
    /\ w' = NoPoll @@ [w EXCEPT !.last = w.block, !.queue = @ \union DOMAIN w.confirmed,
                       !.next = Max({-1} \union w.queue \union DOMAIN w.confirmed) + 1]
    /\ faults' = faults + 1
    /\ UNCHANGED <<chain, rows, keeper, tokens>>

(* A query, or an insertion into the mempool, fails and the poll ends.     *)
(* While the watcher is being restored this takes the server down, see     *)
(* Crash.                                                                  *)
PollFails ==
    /\ w.pc # "idle"
    /\ w.restored
    /\ faults < MaxFaults
    /\ w' = NoPoll @@ w
    /\ faults' = faults + 1
    /\ UNCHANGED <<chain, rows, keeper, tokens>>

(* add_priority_ops, first query: what is executed is not inserted. *)
NotExecuted(ops) == Restrict(ops, {s \in DOMAIN ops : s >= keeper.stored})

FilterUnconfirmed ==
    /\ w.pc = "filter unconfirmed"
    /\ w' = [w EXCEPT !.pc = "insert unconfirmed", !.sending = NotExecuted(w.unconfirmed)]
    /\ UNCHANGED <<chain, rows, keeper, tokens, faults>>

FilterConfirmed ==
    /\ w.pc = "filter confirmed"
    /\ w' = [w EXCEPT !.pc = "insert confirmed", !.sending = NotExecuted(w.confirmed)]
    /\ UNCHANGED <<chain, rows, keeper, tokens, faults>>

(* insert_priority_ops: a row with the same serial id is replaced. *)
Upserted(confirmed) ==
    [s \in DOMAIN w.sending |-> [id |-> w.sending[s], confirmed |-> confirmed]] @@ rows

InsertUnconfirmed ==
    /\ w.pc = "insert unconfirmed"
    /\ rows' = Upserted(FALSE)
    /\ w' = [w EXCEPT !.pc = "filter confirmed", !.sending = <<>>]
    /\ UNCHANGED <<chain, keeper, tokens, faults>>

InsertConfirmed ==
    /\ w.pc = "insert confirmed"
    /\ rows' = Upserted(TRUE)
    /\ w' = [w EXCEPT !.pc = "finish", !.sending = <<>>]
    /\ UNCHANGED <<chain, keeper, tokens, faults>>

(* A new serial id follows neither the known ones nor other new ones. *)
MissingPriorityOp ==
    \E s \in DOMAIN w.confirmed :
        s > w.next /\ ~(w.next..(s - 1) \subseteq DOMAIN w.confirmed)

(* The rest of process_new_blocks and restore_state_from_eth: the new      *)
(* state, or, if an operation is missing, the old one with the block       *)
(* number of the poll before.                                              *)
FinishPoll ==
    LET queue == DOMAIN w.confirmed \union (IF w.restored THEN w.queue ELSE {})
        state == [restored |-> TRUE,
                  last |-> w.block,
                  backup |-> IF w.restored THEN w.last ELSE w.block,
                  next |-> Max({-1} \union queue) + 1,
                  queue |-> queue,
                  tokens |-> w.newTokens \union w.tokens]
    IN  /\ w.pc = "finish"
        /\ w' = NoPoll @@ (IF w.restored /\ MissingPriorityOp
                           THEN [w EXCEPT !.last = w.backup]
                           ELSE state)
        /\ UNCHANGED <<chain, rows, keeper, tokens, faults>>

-----------------------------------------------------------------------------
(* The state keeper.  Its memory runs ahead of the database. *)

Current == Len(keeper.done)

Confirmed == {s \in DOMAIN rows : rows[s].confirmed}

(* The assertion of the mempool when it selects priority operations. *)
NoGap == \A s \in Confirmed : s >= Current => Current..s \subseteq Confirmed

ExecuteOp ==
    /\ NoGap
    /\ Current \in Confirmed
    /\ keeper' = [keeper EXCEPT !.done = Append(@, rows[Current].id)]
    /\ UNCHANGED <<chain, w, rows, tokens, faults>>

(* store_executed_priority_op *)
StoreOp ==
    /\ keeper.stored < Current
    /\ keeper' = [keeper EXCEPT !.stored = @ + 1]
    /\ rows' = Restrict(rows, DOMAIN rows \ {keeper.stored})
    /\ UNCHANGED <<chain, w, tokens, faults>>

(* Mutant: the handler remembers the block of the watcher. *)
SaveNewTokens_WatchersBlock ==
    LET new == {t \in w.tokens : chain.tokens[t] > tokens.last}
    IN  /\ w.restored
        /\ tokens' = [stored |-> tokens.stored \union new, last |-> w.last]
        /\ UNCHANGED <<chain, w, rows, keeper, faults>>

(* One turn of the token handler: it asks for the tokens of later blocks   *)
(* and stores those above the largest token id.                            *)
SaveNewTokens ==
    LET new == {t \in w.tokens : chain.tokens[t] > tokens.last}
    IN  /\ w.restored
        /\ new # {}
        /\ tokens' = [stored |-> tokens.stored
                                   \union {t \in new : t > Max({0} \union tokens.stored)},
                      last |-> Max({chain.tokens[t] : t \in new})]
        /\ UNCHANGED <<chain, w, rows, keeper, faults>>

(* Mutant: the state keeper starts from the first operation. *)
Crash_FromTheFirst ==
    /\ faults < MaxFaults
    /\ w' = NoPoll @@ NoState
    /\ keeper' = [keeper EXCEPT !.done = <<>>]
    /\ tokens' = [tokens EXCEPT !.last = 0]
    /\ faults' = faults + 1
    /\ UNCHANGED <<chain, rows>>

(* The server stops and starts again; the mempool removes the rows of      *)
(* executed operations.                                                    *)
Crash ==
    /\ faults < MaxFaults
    /\ w' = NoPoll @@ NoState
    /\ keeper' = [keeper EXCEPT !.done = SubSeq(@, 1, keeper.stored)]
    /\ rows' = Restrict(rows, {s \in DOMAIN rows : ~(rows[s].confirmed /\ s < keeper.stored)})
    /\ tokens' = [tokens EXCEPT !.last = 0]
    /\ faults' = faults + 1
    /\ UNCHANGED chain

SomePoll ==
    \E current \in Minus(chain.head, NodeLag)..chain.head :
        \E missing \in IF PartialLogs THEN SUBSET (0..(MaxRequests - 1)) ELSE {{}} :
            Poll(current, missing)

Next ==
    \/ \E kind \in {"empty", "request", "token"} : Mine(kind)
    \/ Reorg
    \/ SomePoll
    \/ PollFails
    \/ FilterUnconfirmed
    \/ InsertUnconfirmed
    \/ FilterConfirmed
    \/ InsertConfirmed
    \/ FinishPoll
    \/ ExecuteOp
    \/ StoreOp
    \/ SaveNewTokens
    \/ Crash

Spec == Init /\ [][Next]_vars

(* The watcher is polled on a timer, by a node that is up to date again    *)
(* and again; the server's tasks run.  New blocks and faults need not come.*)
FairSpec ==
    /\ Spec
    /\ WF_vars(Poll(chain.head, {}))
    /\ WF_vars(FilterUnconfirmed \/ InsertUnconfirmed \/ FilterConfirmed
                 \/ InsertConfirmed \/ FinishPoll)
    /\ WF_vars(ExecuteOp)
    /\ WF_vars(StoreOp)
    /\ WF_vars(SaveNewTokens)

-----------------------------------------------------------------------------
TypeOK ==
    /\ chain.head \in 0..MaxBlock
    /\ w.last \in 0..MaxBlock /\ w.backup \in 0..w.last
    /\ w.queue \subseteq 0..(MaxRequests - 1)
    /\ DOMAIN rows \subseteq 0..(MaxRequests - 1)
    /\ keeper.stored \in 0..Len(keeper.done)

(* The state keeper executes the requests of the contract, each once and   *)
(* in order, whatever was reorganised, re-sent, or inserted twice.         *)
ExecutedAsRequested ==
    \A i \in DOMAIN keeper.done :
        i <= Len(chain.requests) /\ keeper.done[i] = chain.requests[i].id

(* The mempool never finds a gap among the confirmed operations: its       *)
(* assertion "Wrong order for priority ops" holds at every request.        *)
QueueHasNoGap == NoGap

(* What the watcher counts as processed has reached the mempool: a poll    *)
(* that fails half way is polled for again.                                *)
ProcessedReachedMempool ==
    w.restored => \A s \in 0..(w.next - 1) : s \in Confirmed \/ s < keeper.stored

(* A request with enough confirmations is executed in the end. *)
RequestsExecuted ==
    \A s \in 1..MaxRequests :
        (/\ s <= Len(chain.requests)
         /\ chain.requests[s].block <= chain.head - Confirmations)
            ~> keeper.stored >= s

(* A new token with enough confirmations is stored in the end. *)
TokensStored ==
    \A t \in 1..MaxTokens :
        (t <= Len(chain.tokens) /\ chain.tokens[t] <= chain.head - Confirmations)
            ~> t \in tokens.stored
=============================================================================
