----------------------------- MODULE DataRestore -----------------------------
(***************************************************************************)
(* Restoring the server's database from the logs of the contract           *)
(* (bin/data_restore and the data_restore tables of lib/storage).  The     *)
(* driver reads a range of Ethereum blocks, saves the events, fetches the  *)
(* operations of the executed blocks, saves them, applies them to its tree *)
(* and saves the result: three database transactions, after each of which  *)
(* the process may stop.  A flag in the database says from where to go on. *)
(*                                                                         *)
(* What a block does to the accounts is module TreeRestore's subject; here *)
(* a block is its number, the transaction that committed it and how many   *)
(* priority operations it executes.  Tokens, withdrawals, the tree cache   *)
(* and finite mode are left out.                                           *)
(***************************************************************************)
EXTENDS Integers, Sequences, FiniteSets
LOCAL INSTANCE SequencesExt
LOCAL INSTANCE TLC

CONSTANTS
  EthBlocksStep,       \* eth_blocks_step
  EndEthBlocksOffset,  \* end_eth_blocks_offset
  NodeLag,             \* how far behind an answer of the node may be
  MaxEth, MaxAhead, MaxBlocks, MaxOps, MaxFaults   \* bounds of the checked instance

VARIABLES
  eth,      \* the Ethereum chain: per block the logs of the contract
  pc,       \* "down", or what the driver does next
  driver,   \* its memory: [watched, committed, verified, tree, serial]
  newOps,   \* operations blocks between fetching and applying them
  db,       \* [state, watched, committed, verified, ops, blocks, executed]
  faults    \* crashes, lagging answers and reorganisations so far

vars == <<eth, pc, driver, newOps, db, faults>>

-----------------------------------------------------------------------------
(* The contract, by the logs it emits.  A commit log carries what its      *)
(* transaction's calldata says of the block.                               *)

Logs(chain) == FlattenSeq(chain)

NoLog == [kind |-> "none", block |-> 0, tx |-> 0, ops |-> 0]
CommitLog(block, tx, ops) ==
  [kind |-> "commit", block |-> block, tx |-> tx, ops |-> ops]
VerifyLog(block) == [NoLog EXCEPT !.kind = "verify", !.block = block]
RevertLog(committed) == [NoLog EXCEPT !.kind = "revert", !.block = committed]

\* blocks committed and not reverted after the logs, in order
Committed(logs) ==
  FoldLeft(LAMBDA blocks, l :
             CASE l.kind = "commit" -> Append(blocks, l)
               [] l.kind = "revert" -> SubSeq(blocks, 1, l.block)
               [] OTHER -> blocks,
           <<>>, logs)

Count(logs, kind) == Cardinality({i \in DOMAIN logs : logs[i].kind = kind})
Executed(logs) == SubSeq(Committed(logs), 1, Count(logs, "verify"))

OpsIn(blocks) == FoldLeft(LAMBDA n, b : n + b.ops, 0, blocks)

\* external: the next Ethereum block has a commitment of one or two blocks, an
\* execution, a revert of what is not executed, or nothing
NewLogs(logs, tx) ==
  LET committed == Committed(logs)
      next == Len(committed) + 1
      open == MaxOps - OpsIn(committed)
      executed == Count(logs, "verify")
  IN  {<<>>}
      \cup {[i \in 1..k |-> CommitLog(next + i - 1, tx, IF i = 1 THEN n ELSE 0)] :
              k \in {1, 2} \cap 1..(MaxBlocks - Len(committed)),
              n \in {0, 1} \cap 0..open}
      \cup {[i \in 1..n |-> VerifyLog(executed + i)] :
              n \in 1..(Len(committed) - executed)}
      \cup {<<RevertLog(n)>> : n \in executed..(Len(committed) - 1)}

Mine ==
  /\ Len(eth) < MaxEth /\ Len(eth) < db.watched + MaxAhead
  /\ \E logs \in NewLogs(Logs(eth), Len(eth) + 1) : eth' = Append(eth, logs)
  /\ UNCHANGED <<pc, driver, newOps, db, faults>>

\* external: the last blocks, fewer than the driver stays behind, are replaced
Reorganise ==
  /\ faults < MaxFaults
  /\ EndEthBlocksOffset > 0 /\ Len(eth) > 0
  /\ \E logs \in NewLogs(Logs(Front(eth)), Len(eth)) :
       eth' = Append(Front(eth), logs)
  /\ faults' = faults + 1
  /\ UNCHANGED <<pc, driver, newOps, db>>

-----------------------------------------------------------------------------
(* Events (events_state.rs).                                               *)

MaxVerified(d) == IF d.verified = {} THEN 0
                    ELSE CHOOSE n \in d.verified : \A m \in d.verified : m <= n

RemoveVerifiedEvents(d) ==
  [d EXCEPT !.committed = SelectSeq(@, LAMBDA e : e.block > MaxVerified(d)),
            !.verified = {}]

\* mutant: reverted blocks stay
UpdateBlocksState_RevertIgnored(d, logs) ==
  FoldLeft(LAMBDA s, l :
             CASE l.kind = "commit" -> [s EXCEPT !.committed = Append(@, l)]
               [] l.kind = "verify" -> [s EXCEPT !.verified = @ \cup {l.block}]
               [] OTHER -> s,
           d, logs)

\* a revert drops the committed events above what is left; executed blocks
\* are never reverted
UpdateBlocksState(d, logs) ==
  FoldLeft(LAMBDA s, l :
             CASE l.kind = "commit" -> [s EXCEPT !.committed = Append(@, l)]
               [] l.kind = "verify" -> [s EXCEPT !.verified = @ \cup {l.block}]
               [] l.kind = "revert" ->
                    [s EXCEPT !.committed =
                                SelectSeq(@, LAMBDA e : e.block <= l.block)]
               [] OTHER -> s,
           d, logs)

\* the last block of the range read next; it is before the first one when the
\* node's answer is behind what was read already
LastToRead(watched, latest) ==
  IF watched + 1 + EthBlocksStep > latest - EndEthBlocksOffset
    THEN latest - EndEthBlocksOffset ELSE watched + 1 + EthBlocksStep

\* update_events_state with the node's `latest'
ReadEvents(d, latest) ==
  LET cleaned == RemoveVerifiedEvents(d)
      last == LastToRead(d.watched, latest)
  IN  IF latest - EndEthBlocksOffset = d.watched THEN cleaned
        ELSE UpdateBlocksState([cleaned EXCEPT !.watched = last],
                               Logs(SubSeq(eth, d.watched + 1, last)))

OnlyVerifiedCommitted(d) ==
  SelectSeq(d.committed, LAMBDA e : e.block <= MaxVerified(d))

\* get_new_operation_blocks_from_events: the executed blocks above the tree's,
\* each once
NewOperationBlocks(d) ==
  FoldLeft(LAMBDA blocks, e :
             IF e.block <= (IF blocks = <<>> THEN d.tree ELSE Last(blocks).block)
               THEN blocks ELSE Append(blocks, e),
           <<>>, OnlyVerifiedCommitted(d))

-----------------------------------------------------------------------------
(* The tree and the tables.                                                *)

\* rows of executed priority operations: a serial id that is taken is kept
InsertOps(rows, block, serial) ==
  LET new == {serial + k - 1 : k \in 1..block.ops} \ DOMAIN rows
  IN  [s \in DOMAIN rows \cup new |->
         IF s \in DOMAIN rows THEN rows[s] ELSE block.block]

\* update_tree_state: the serial id is used, then incremented; all blocks are
\* saved in one transaction, and each save sets the flag
ApplyBlocks(d, base, blocks) ==
  FoldLeft(LAMBDA r, b :
             [driver |-> [r.driver EXCEPT !.tree = b.block,
                                          !.serial = @ + b.ops],
              db |-> [r.db EXCEPT !.state = "None",
                                  !.blocks = Append(@, b),
                                  !.executed = InsertOps(@, b, r.driver.serial)]],
           [driver |-> d, db |-> base], blocks)

EmptyDriver ==
  [watched |-> 0, committed |-> <<>>, verified |-> {}, tree |-> 0, serial |-> 0]
EmptyDb ==
  [state |-> "Events", watched |-> 0, committed |-> <<>>, verified |-> {},
   ops |-> <<>>, blocks |-> <<>>, executed |-> <<>>]

Init ==
  /\ eth = <<>>
  /\ pc = "down"
  /\ driver = EmptyDriver
  /\ newOps = <<>>
  /\ db = EmptyDb
  /\ faults = 0

-----------------------------------------------------------------------------
(* The driver (data_restore_driver.rs).                                    *)

\* set_genesis_state, into an empty database: a driver that stopped before it
\* had restored a block cannot go on and is started anew
StartFromGenesis ==
  /\ pc = "down"
  /\ db.blocks = <<>>
  /\ driver' = EmptyDriver
  /\ db' = EmptyDb
  /\ pc' = "events"
  /\ UNCHANGED <<eth, newOps, faults>>

\* save_events_state, with the flag "Events"
UpdateEventsState(latest) ==
  /\ pc = "events"
  /\ latest >= EndEthBlocksOffset
  /\ \E d \in {ReadEvents(driver, latest)} :
       /\ driver' = d
       /\ db' = [db EXCEPT !.state = "Events", !.watched = d.watched,
                           !.committed = d.committed, !.verified = d.verified]
       /\ pc' = IF d.committed = <<>> /\ d.verified = {} THEN "events" ELSE "ops"
  /\ UNCHANGED <<eth, newOps>>

\* save_rollup_ops, with the flag "Operations"
UpdateOperationsState ==
  /\ pc = "ops"
  /\ newOps' = NewOperationBlocks(driver)
  /\ db' = [db EXCEPT !.state = "Operations", !.ops = newOps']
  /\ pc' = IF newOps' = <<>> THEN "events" ELSE "tree"
  /\ UNCHANGED <<eth, driver, faults>>

UpdateTreeState ==
  /\ pc = "tree"
  /\ \E r \in {ApplyBlocks(driver, db, newOps)} : driver' = r.driver /\ db' = r.db
  /\ newOps' = <<>>
  /\ pc' = "events"
  /\ UNCHANGED <<eth, faults>>

MaxSerialId(rows) ==
  IF DOMAIN rows = {} THEN 0
    ELSE CHOOSE s \in DOMAIN rows : \A t \in DOMAIN rows : t <= s

\* events are loaded in the order of their block numbers
LoadedDriver ==
  [watched |-> db.watched,
   committed |-> SortSeq(db.committed, LAMBDA a, b : a.block < b.block),
   verified |-> db.verified,
   tree |-> Last(db.blocks).block,
   serial |-> 0]

\* mutant: the saved operations are forgotten
Replayed_FromEvents(loaded) ==
  CASE db.state = "Events" -> [blocks |-> NewOperationBlocks(loaded), ops |-> <<>>]
    [] OTHER -> [blocks |-> <<>>, ops |-> <<>>]

\* what is applied first, by the flag, and the operations saved by then
Replayed(loaded) ==
  CASE db.state = "Events" ->
         [blocks |-> NewOperationBlocks(loaded), ops |-> NewOperationBlocks(loaded)]
    [] db.state = "Operations" -> [blocks |-> db.ops, ops |-> db.ops]
    [] db.state = "None" -> [blocks |-> <<>>, ops |-> db.ops]

\* load_state_from_storage: one transaction.  The serial id is loaded after the
\* replay, and is the greatest one in the table.
LoadStateFromStorage ==
  /\ pc = "down"
  /\ db.blocks # <<>>
  /\ \E replay \in {Replayed(LoadedDriver)} :
     \E r \in {ApplyBlocks(LoadedDriver,
                 [db EXCEPT !.state = IF @ = "Events" THEN "Operations" ELSE @,
                            !.ops = replay.ops],
                 replay.blocks)} :
       /\ driver' = [r.driver EXCEPT !.serial = MaxSerialId(r.db.executed)]
       /\ db' = r.db
  /\ pc' = "events"
  /\ UNCHANGED <<eth, newOps, faults>>

\* the process stops, or an answer of the node is an error
Crash ==
  /\ pc # "down"
  /\ faults < MaxFaults
  /\ faults' = faults + 1
  /\ pc' = "down"
  /\ driver' = EmptyDriver
  /\ newOps' = <<>>
  /\ UNCHANGED <<eth, db>>

DriverStep ==
  \/ StartFromGenesis
  \/ LoadStateFromStorage
  \/ UpdateEventsState(Len(eth)) /\ UNCHANGED faults
  \/ UpdateOperationsState
  \/ UpdateTreeState

Next ==
  \/ Mine
  \/ Reorganise
  \/ DriverStep
  \/ \E latest \in (Len(eth) - NodeLag)..(Len(eth) - 1) :
       /\ faults < MaxFaults
       /\ faults' = faults + 1
       /\ UpdateEventsState(latest)
  \/ Crash

Spec == Init /\ [][Next]_vars

\* The driver's loop runs on and is started again when it stopped: while its
\* steps change something they are taken.
HasWork ==
  \/ pc \in {"down", "ops", "tree"}
  \/ Len(eth) - EndEthBlocksOffset > driver.watched

Fairness == []<>~HasWork \/ []<><<DriverStep>>_vars

FairSpec == Spec /\ Fairness

-----------------------------------------------------------------------------
(* Properties.                                                             *)

\* the part of the chain that is not reorganised any more
Final == SubSeq(eth, 1, Len(eth) - EndEthBlocksOffset)

TypeOK ==
  /\ pc \in {"down", "events", "ops", "tree"}
  /\ db.state \in {"None", "Events", "Operations"}
  /\ db.watched \in 0..MaxEth
  /\ driver.watched \in 0..MaxEth
  /\ pc = "tree" => newOps # <<>>

\* The blocks in the database are those the contract executed, in their order
\* and each as the transaction committed it that was not reverted: whatever
\* was committed and reverted in between, wherever the driver was stopped,
\* and although the node's answers may make it read the same logs twice.
RestoredAsExecuted == IsPrefix(db.blocks, Executed(Logs(Final)))

\* Every block the contract executed is restored in the end.
EveryBlockRestored ==
  \A n \in 1..MaxBlocks :
    Len(Executed(Logs(Final))) >= n ~> Len(db.blocks) >= n

\* the block in which the contract executes each priority request
ExecutedIn(blocks) ==
  [s \in 0..(OpsIn(blocks) - 1) |->
     (CHOOSE i \in DOMAIN blocks :
        /\ OpsIn(SubSeq(blocks, 1, i - 1)) <= s
        /\ s < OpsIn(SubSeq(blocks, 1, i)))]

\* "Serial id of the last priority operation processed by the driver": the
\* restored operations carry the serial ids under which they were requested.
SerialIdsAsQueued == db.executed = ExecutedIn(db.blocks)
=============================================================================
