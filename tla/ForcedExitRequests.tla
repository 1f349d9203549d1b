------------------------- MODULE ForcedExitRequests -------------------------
(***************************************************************************)
(* Forced exits paid for on Ethereum (bin/zksync_forced_exit_requests, the *)
(* API that registers requests, the forced_exit_requests table and the     *)
(* ForcedExit contract).  A user registers a request and gets an id; pays  *)
(* the price plus the id to the contract while the request is valid; the   *)
(* watcher sees the payment once it is confirmed, sends a batch of         *)
(* ForcedExit transactions and marks the request fulfilled.                *)
(*                                                                         *)
(* The watcher remembers nothing across a restart: where to read from is   *)
(* estimated from the age of the oldest unfulfilled request.  Time passes  *)
(* in units of the shortest time between two Ethereum blocks.              *)
(***************************************************************************)
EXTENDS Integers, Sequences, FiniteSets
LOCAL INSTANCE FiniteSetsExt

CONSTANTS
  WaitConfirmations, BlocksCheckAmount, MaxTxInterval, ExpirationPeriod,
  BlockTimeUpper,         \* MILLIS_PER_BLOCK_UPPER, in units of the lower one
  ProcessingAttempts,     \* PROCESSING_ATTEMPTS
  IdSpace,                \* 10^digits_in_id
  Price,                  \* a multiple of IdSpace
  Amounts,                \* what may be paid to the contract
  MaxRequests, MaxPayments, MaxBlocks, MaxNow, MaxFaults   \* bounds

VARIABLES
  now,
  chain,      \* per Ethereum block [time, paid], paid: 0 or an amount
  requests,   \* the table: by id [created, validUntil, by, at]
  lastId,     \* the last id given to a request
  eligible,   \* the target account exists long enough and has nonce 0
  nonce,      \* committed nonce of the account that sends the exits
  mempool,    \* hashes of batches: [request, nonce]
  receipts,   \* of executed batches: by hash, whether it succeeded
  watcher,    \* [pc, lastViewed, toView, events, attempts, batch]
  faults

tables == <<requests, lastId, eligible, nonce, mempool, receipts>>
vars == <<now, chain, tables, watcher, faults>>

NoTime == -1    \* no fulfilled_at
NoBatch == [request |-> 0, nonce |-> 0]
Stopped == [pc |-> "down", lastViewed |-> 0, toView |-> 0, events |-> <<>>,
            attempts |-> 0, batch |-> NoBatch]

Init ==
  /\ now = 0
  /\ chain = <<[time |-> 0, paid |-> 0]>>
  /\ requests = <<>> /\ lastId = 0
  /\ eligible = TRUE /\ nonce = 0
  /\ mempool = {} /\ receipts = <<>>
  /\ watcher = Stopped
  /\ faults = 0

-----------------------------------------------------------------------------
(* The surroundings.                                                       *)

\* external: blocks are at most BlockTimeUpper apart
Tick ==
  /\ now < MaxNow
  /\ now + 1 - chain[Len(chain)].time <= BlockTimeUpper
  /\ now' = now + 1
  /\ UNCHANGED <<chain, tables, watcher, faults>>

\* the contract's fallback emits FundsReceived with the amount
Mine ==
  /\ Len(chain) < MaxBlocks
  /\ now > chain[Len(chain)].time
  /\ \E paid \in Amounts \cup {0} :
       /\ paid # 0 => Cardinality({i \in DOMAIN chain : chain[i].paid # 0}) < MaxPayments
       /\ chain' = Append(chain, [time |-> now, paid |-> paid])
  /\ UNCHANGED <<now, tables, watcher, faults>>

\* external: the last block is replaced; payments deeper than that are final
Reorganise ==
  /\ faults < MaxFaults
  /\ Len(chain) > 1 /\ chain[Len(chain)].paid # 0
  /\ chain' = [chain EXCEPT ![Len(chain)].paid = 0]
  /\ faults' = faults + 1
  /\ UNCHANGED <<now, tables, watcher>>

\* submit_request, for one token at its price
SubmitRequest ==
  /\ lastId < MaxRequests
  /\ eligible
  /\ lastId' = lastId + 1
  /\ requests' = [id \in DOMAIN requests \cup {lastId'} |->
                    IF id = lastId'
                      THEN [created |-> now, validUntil |-> now + MaxTxInterval,
                            by |-> NoBatch, at |-> NoTime]
                      ELSE requests[id]]
  /\ UNCHANGED <<now, chain, eligible, nonce, mempool, receipts, watcher, faults>>

\* external: the target's owner uses the account
TargetUsed ==
  /\ eligible
  /\ eligible' = FALSE
  /\ UNCHANGED <<now, chain, requests, lastId, nonce, mempool, receipts, watcher, faults>>

\* external: the state keeper executes a batch; it fails when its nonce is used
\* and may when the target has nothing to exit.  A success is not overwritten.
ExecuteBatch ==
  /\ \E batch \in mempool, ok \in BOOLEAN :
       /\ ok => batch.nonce = nonce
       /\ mempool' = mempool \ {batch}
       /\ nonce' = IF ok THEN nonce + 1 ELSE nonce
       /\ receipts' = [b \in DOMAIN receipts \cup {batch} |->
                         IF b = batch THEN ok \/ (b \in DOMAIN receipts /\ receipts[b])
                                      ELSE receipts[b]]
  /\ UNCHANGED <<now, chain, requests, lastId, eligible, watcher, faults>>

-----------------------------------------------------------------------------
(* Starting (run_forced_exit_contract_watcher).  The sender's account is   *)
(* prepared already.                                                       *)

Start ==
  /\ watcher.pc = "down"
  /\ watcher' = [watcher EXCEPT !.pc = "await"]
  /\ UNCHANGED <<now, chain, tables, faults>>

Crash ==
  /\ watcher.pc # "down"
  /\ faults < MaxFaults
  /\ faults' = faults + 1
  /\ watcher' = Stopped
  /\ UNCHANGED <<now, chain, tables>>

Unconfirmed == {id \in DOMAIN requests : requests[id].at = NoTime /\ requests[id].by # NoBatch}
Unfulfilled == {id \in DOMAIN requests : requests[id].at = NoTime}

\* await_unconfirmed: whether the batch succeeded does not matter
AwaitUnconfirmed ==
  /\ watcher.pc = "await"
  /\ \E id \in Unconfirmed :
       /\ requests[id].by \in DOMAIN receipts
       /\ requests' = [requests EXCEPT ![id].at = now]
  /\ UNCHANGED <<now, chain, lastId, eligible, nonce, mempool, receipts, watcher, faults>>

\* the database fails: the batch is forgotten and sent again
CancelUnconfirmed ==
  /\ watcher.pc = "await"
  /\ faults < MaxFaults
  /\ faults' = faults + 1
  /\ \E id \in Unconfirmed : requests' = [requests EXCEPT ![id].by = NoBatch]
  /\ UNCHANGED <<now, chain, lastId, eligible, nonce, mempool, receipts, watcher>>

\* upper bound on the blocks created since then
TimeRangeToBlockDiff(from, to) == Max({to - from, 0})

\* lower bound on the time a block was created
LowerBoundBlockTime(block, current) == now - Max({current - block, 0}) * BlockTimeUpper

\* mutant: only what is confirmed from now on is read
FirstViewed_Latest(block) == block - WaitConfirmations

\* block numbers are relative to the first block of the instance, the real ones
\* are large enough for these differences
FirstViewed(block) ==
  IF Unfulfilled = {} THEN block - WaitConfirmations
  ELSE Min({block - WaitConfirmations} \cup
           {block - TimeRangeToBlockDiff(requests[id].created, now) : id \in Unfulfilled})

RestoreStateFromEth ==
  /\ watcher.pc = "await"
  /\ Unconfirmed = {}
  /\ watcher' = [watcher EXCEPT !.pc = "idle", !.lastViewed = FirstViewed(Len(chain))]
  /\ UNCHANGED <<now, chain, tables, faults>>

-----------------------------------------------------------------------------
(* Polling (eth_watch.rs).                                                 *)

\* mutant: the last block counts as confirmed
LastConfirmed_Latest(block) == block

LastConfirmed(block) == block - WaitConfirmations

\* numbers of the blocks with a payment
PaidBlocks(from, to) ==
  SelectSeq([i \in 1..Max({to, 0}) |-> i], LAMBDA i : i >= from /\ chain[i].paid # 0)

HasNewBlocks == LastConfirmed(Len(chain)) > watcher.lastViewed

Poll ==
  /\ watcher.pc = "idle"
  /\ HasNewBlocks
  /\ watcher' = [watcher EXCEPT
       !.pc = "process",
       !.toView = LastConfirmed(Len(chain)),
       !.events = PaidBlocks(watcher.lastViewed - BlocksCheckAmount,
                             LastConfirmed(Len(chain)))]
  /\ UNCHANGED <<now, chain, tables, faults>>

\* delete_old_unfulfilled_requests
Undeleted == {id \in DOMAIN requests :
                requests[id].by # NoBatch \/ requests[id].validUntil >= now - ExpirationPeriod}

\* the end of a poll; expired requests are deleted now and then
FinishPoll ==
  /\ watcher.pc = "process"
  /\ watcher.events = <<>>
  /\ watcher' = [watcher EXCEPT !.pc = "idle", !.lastViewed = watcher.toView]
  /\ \/ UNCHANGED requests
     \/ requests' = [id \in Undeleted |-> requests[id]]
  /\ UNCHANGED <<now, chain, lastId, eligible, nonce, mempool, receipts, faults>>

-----------------------------------------------------------------------------
(* One payment (forced_exit_sender.rs).  The steps are database accesses   *)
(* and answers of the mempool, between which others may act.               *)

\* extract_id_from_amount
IdOf(amount) == amount % IdSpace
AmountWithoutId(amount) == amount - IdOf(amount)

CheckRequest(id, amount, submitted) ==
  /\ id \in DOMAIN requests
  /\ requests[id].at = NoTime
  /\ requests[id].validUntil > submitted
  /\ amount = Price

\* the event is dealt with
EventDone == [watcher EXCEPT !.pc = "process", !.events = Tail(@), !.attempts = 0,
                             !.batch = NoBatch]

\* an attempt that failed is repeated, a few times
AttemptFailed ==
  IF watcher.attempts + 1 >= ProcessingAttempts THEN EventDone
    ELSE [watcher EXCEPT !.pc = "process", !.attempts = @ + 1, !.batch = NoBatch]

\* check_request and build_transactions
TryProcessRequest ==
  /\ watcher.pc = "process"
  /\ watcher.events # <<>>
  /\ LET block == Head(watcher.events)
         paid == chain[block].paid
         submitted == LowerBoundBlockTime(block, watcher.toView + WaitConfirmations)
     IN  watcher' =
           IF CheckRequest(IdOf(paid), AmountWithoutId(paid), submitted)
             THEN [watcher EXCEPT !.pc = "send",
                                  !.batch = [request |-> IdOf(paid), nonce |-> nonce]]
             ELSE EventDone
  /\ UNCHANGED <<now, chain, tables, faults>>

\* check_forced_exit_request, and the batch goes to the mempool, which refuses
\* a nonce that is used
SendBatch ==
  /\ watcher.pc = "send"
  /\ IF ~eligible THEN watcher' = EventDone /\ UNCHANGED mempool
     ELSE IF watcher.batch.nonce < nonce
            THEN watcher' = AttemptFailed /\ UNCHANGED mempool
     ELSE /\ mempool' = mempool \cup {watcher.batch}
          /\ watcher' = [watcher EXCEPT !.pc = "save"]
  /\ UNCHANGED <<now, chain, requests, lastId, eligible, nonce, receipts, faults>>


\* an update of a row that was deleted changes nothing
SaveBatch ==
  /\ watcher.pc = "save"
  /\ requests' = [id \in DOMAIN requests |->
                    IF id = watcher.batch.request
                      THEN [requests[id] EXCEPT !.by = watcher.batch] ELSE requests[id]]
  /\ watcher' = [watcher EXCEPT !.pc = "wait"]
  /\ UNCHANGED <<now, chain, lastId, eligible, nonce, mempool, receipts, faults>>

\* mutant: the request is fulfilled once the batch is sent
IsCommitted_Sent(batch) == batch \in DOMAIN receipts \cup mempool

\* wait_until_comitted: a failed batch counts as well
IsCommitted(batch) == batch \in DOMAIN receipts

SetFulfilled ==
  /\ watcher.pc = "wait"
  /\ IsCommitted(watcher.batch)
  /\ requests' = [id \in DOMAIN requests |->
                    IF id = watcher.batch.request
                      THEN [requests[id] EXCEPT !.at = now] ELSE requests[id]]
  /\ watcher' = EventDone
  /\ UNCHANGED <<now, chain, lastId, eligible, nonce, mempool, receipts, faults>>

\* a database access fails
AttemptFails ==
  /\ watcher.pc \in {"process", "send", "save", "wait"}
  /\ watcher.events # <<>>
  /\ faults < MaxFaults
  /\ faults' = faults + 1
  /\ watcher' = AttemptFailed
  /\ UNCHANGED <<now, chain, tables>>

WatcherStep ==
  \/ Start \/ AwaitUnconfirmed \/ RestoreStateFromEth
  \/ Poll \/ FinishPoll
  \/ TryProcessRequest \/ SendBatch \/ SaveBatch \/ SetFulfilled

Next ==
  \/ Tick \/ Mine \/ Reorganise
  \/ SubmitRequest \/ TargetUsed \/ ExecuteBatch
  \/ WatcherStep
  \/ Crash \/ CancelUnconfirmed \/ AttemptFails

Spec == Init /\ [][Next]_vars

\* The process is started again and polls on, and the state keeper executes
\* what is in the mempool.
WatcherHasWork ==
  CASE watcher.pc = "await" -> \A id \in Unconfirmed : requests[id].by \in DOMAIN receipts
    [] watcher.pc = "idle" -> HasNewBlocks
    [] watcher.pc = "wait" -> IsCommitted(watcher.batch)
    [] OTHER -> TRUE

Fairness ==
  /\ []<>~WatcherHasWork \/ []<><<WatcherStep>>_vars
  /\ []<>(mempool = {}) \/ []<><<ExecuteBatch>>_vars

FairSpec == Spec /\ Fairness

-----------------------------------------------------------------------------
(* Properties.                                                             *)

TypeOK ==
  /\ watcher.pc \in {"down", "await", "idle", "process", "send", "save", "wait"}
  /\ watcher.attempts \in 0..(ProcessingAttempts - 1)
  /\ (watcher.pc \in {"send", "save", "wait"}) = (watcher.batch # NoBatch)
  /\ DOMAIN requests \subseteq 1..lastId

Batches == mempool \cup DOMAIN receipts

\* Exits are sent only for a request whose price and id were paid to the
\* contract, in a block that stays: a payment that a reorganisation removes
\* has not been acted upon.
NoExitWithoutPayment ==
  \A batch \in Batches :
    \E i \in DOMAIN chain : chain[i].paid = Price + batch.request

\* A request is marked fulfilled only when a batch for it was executed, also
\* after the process was stopped between sending, saving and waiting.
FulfilledMeansExecuted ==
  \A id \in DOMAIN requests :
    requests[id].at # NoTime => \E batch \in DOMAIN receipts : batch.request = id

\* paid while the request was valid, in a block that is confirmed and not the
\* last confirmed one: a watcher that starts there waits for the next
PaidInTime(id) ==
  /\ id \in DOMAIN requests
  /\ \E i \in 1..(Len(chain) - WaitConfirmations - 1) :
       /\ chain[i].paid = Price + id
       /\ chain[i].time \in requests[id].created..(requests[id].validUntil - 1)

\* A batch is executed for a request that was paid for in time, although the
\* watcher starts anew after a crash and estimates where to read from: unless
\* the target's owner used the account, or the watcher was so late that the
\* request was deleted as expired.
PaidInTimeIsServed ==
  \A id \in 1..MaxRequests :
    PaidInTime(id) ~>
      \/ id \notin DOMAIN requests
      \/ \E batch \in DOMAIN receipts : batch.request = id
      \/ ~eligible
=============================================================================
