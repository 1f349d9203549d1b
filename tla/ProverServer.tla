---------------------------- MODULE ProverServer ----------------------------
(***************************************************************************)
(* The prover server (zksync_witness_generator), its table of jobs and the *)
(* provers that work for it, beside the committer's task of Aggregator:    *)
(* witness generators, the loop that adds jobs, provers that take a job,   *)
(* prove and publish, and the tools that remove proofs (remove_proofs) and *)
(* blocks (block_revert) while the server is down.                         *)
(***************************************************************************)
EXTENDS Aggregator

CONSTANTS
    Generators,         \* the number of witness generators
    Provers,
    RemoveJoined,       \* whether proofs already joined may be removed
    MaxFaults           \* bound: restarts, lost answers, stopped or slow
                        \* provers, uses of a tool

VARIABLES
    versions,       \* for every block, the uses of a tool before it was made
    witnesses,      \* the blocks in block_witness
    generators,     \* the next block of every witness generator
    jobs,           \* prover_job_queue; the position is the id
    provers,        \* the job every prover works on
    proofRows,      \* the rows of proofs and aggregated_proofs
    loopAlive,      \* the task that adds jobs has not panicked
    faults, tools

serverVars == <<versions, witnesses, generators, jobs, provers, proofRows,
                loopAlive>>
counters == <<faults, tools>>
allVars == <<vars, serverVars, counters>>

Job(type, first, last, status) ==
    [type |-> type, first |-> first, last |-> last, status |-> status,
     version |-> versions[last]]

NoJob == [id |-> 0, type |-> "SingleProof", first |-> 0, last |-> 0, version |-> 0]

JobIds(type, statuses) ==
    {i \in DOMAIN jobs : jobs[i].type = type /\ jobs[i].status \in statuses}

Rows == {"Idle", "InProgress", "Done"}

StartBlocks == [g \in 1..Generators |-> LastAffectedBlock("ExecuteBlocks") + g]

ServerInit ==
    /\ Init
    /\ versions = <<>>
    /\ witnesses = {}
    /\ generators = [g \in 1..Generators |-> g]
    /\ jobs = <<>>
    /\ provers = [p \in Provers |-> NoJob]
    /\ proofRows = {}
    /\ loopAlive = TRUE
    /\ faults = 0
    /\ tools = 0

CompleteBlock ==
    /\ FinishBlock
    /\ versions' = Append(versions, tools)
    /\ UNCHANGED <<witnesses, generators, jobs, provers, proofRows, loopAlive, counters>>

-----------------------------------------------------------------------------
(* should_work_on_block: anything but NotReadyBlock. *)
ReadyBlock(b) == b <= blocks

(* Witness generator g looks at its next block: makes the witness unless it *)
(* is there, and goes on by the number of generators.                       *)
Maintain(g) ==
    /\ ReadyBlock(generators[g])
    /\ witnesses' = witnesses \cup {generators[g]}
    /\ generators' = [generators EXCEPT ![g] = @ + Generators]
    /\ UNCHANGED <<vars, versions, jobs, provers, proofRows, loopAlive, counters>>

(* get_last_block_prover_job_queue; an empty queue starts after the         *)
(* operations that are already there.                                       *)
LastBlockInQueue(type) ==
    LET ids == JobIds(type, Rows)
    IN  IF ids = {}
        THEN LastAffectedBlock(IF type = "SingleProof" THEN "CreateProofBlocks"
                               ELSE "PublishProofBlocksOnchain")
        ELSE CHOOSE b \in {jobs[i].last : i \in ids} :
                 \A i \in ids : jobs[i].last <= b

AddJob(type, first, last) ==
    jobs' = IF \E i \in JobIds(type, Rows) : jobs[i].first = first /\ jobs[i].last = last
            THEN jobs
            ELSE Append(jobs, Job(type, first, last, "Idle"))

(* The three parts of a turn of update_prover_job_queue: every statement    *)
(* reads the tables anew.                                                   *)
AddSingleProofJob ==
    LET next == LastBlockInQueue("SingleProof") + 1
    IN  /\ loopAlive
        /\ next \in witnesses
        /\ AddJob("SingleProof", next, next)
        /\ UNCHANGED <<vars, versions, witnesses, generators, provers, proofRows,
                       loopAlive, counters>>

(* The proofs of the blocks have to be there: the task panics otherwise. *)
AddAggregatedProofJob ==
    LET next == LastBlockInQueue("AggregatedProof") + 1
    IN  /\ loopAlive
        /\ \E i \in DOMAIN aggregateOps :
              LET op == aggregateOps[i]
              IN  /\ op.type = "CreateProofBlocks"
                  /\ op.first <= next /\ next <= op.last
                  /\ IF (op.first..op.last) \subseteq proofs
                     THEN AddJob("AggregatedProof", op.first, op.last) /\ UNCHANGED loopAlive
                     ELSE loopAlive' = FALSE /\ UNCHANGED jobs
        /\ UNCHANGED <<vars, versions, witnesses, generators, provers, proofRows, counters>>

Held(i) == \E p \in Provers : provers[p].id = i

(* A job without a heartbeat for two minutes is idle again: one whose       *)
(* prover is gone, or, as a fault, one whose prover is slow.                *)
MarkStaleJob(i) ==
    /\ loopAlive
    /\ jobs[i].status = "InProgress"
    /\ jobs' = [jobs EXCEPT ![i].status = "Idle"]
    /\ IF Held(i) THEN faults + tools < MaxFaults /\ faults' = faults + 1 ELSE UNCHANGED faults
    /\ UNCHANGED <<vars, versions, witnesses, generators, provers, proofRows,
                   loopAlive, tools>>

-----------------------------------------------------------------------------
(* Joint proofs come first, then the oldest job. *)
NextJob ==
    LET aggregated == JobIds("AggregatedProof", {"Idle"})
        ids == IF aggregated # {} THEN aggregated ELSE JobIds("SingleProof", {"Idle"})
    IN  {i \in ids : \A j \in ids : i <= j}

(* get_job; when the answer is lost, the job stays in progress. *)
GetJob(p) ==
    /\ provers[p] = NoJob
    /\ \E i \in NextJob :
          /\ jobs' = [jobs EXCEPT ![i].status = "InProgress"]
          /\ \/ /\ provers' = [provers EXCEPT ![p] =
                      [id |-> i, type |-> jobs[i].type, first |-> jobs[i].first,
                       last |-> jobs[i].last, version |-> jobs[i].version]]
                /\ UNCHANGED faults
             \/ /\ faults + tools < MaxFaults
                /\ faults' = faults + 1
                /\ UNCHANGED provers
    /\ UNCHANGED <<vars, versions, witnesses, generators, proofRows, loopAlive, tools>>

ProofRow(job) ==
    [type |-> job.type, first |-> job.first, last |-> job.last, version |-> job.version]

(* Mutant: nobody looks whether the job is still in the table. *)
StoreResult_NoJobCheck(job) ==
    IF \E r \in proofRows : /\ r.type = job.type
                            /\ r.first = job.first /\ r.last = job.last
    THEN UNCHANGED <<jobs, proofRows, proofs, aggregatedProofs>>
    ELSE /\ jobs' = [jobs EXCEPT ![job.id].status = "Done"]
         /\ proofRows' = proofRows \cup {ProofRow(job)}
         /\ IF job.type = "SingleProof"
            THEN proofs' = proofs \cup {job.first} /\ UNCHANGED aggregatedProofs
            ELSE /\ aggregatedProofs' = aggregatedProofs \cup {<<job.first, job.last>>}
                 /\ UNCHANGED proofs

(* store_proof, store_aggregated_proof: the job has to be in the table, and *)
(* a second proof of the same blocks violates the primary key; either error *)
(* rolls back.                                                              *)
StoreResult(job) ==
    IF \/ jobs[job.id].status = "Removed"
       \/ \E r \in proofRows : /\ r.type = job.type
                               /\ r.first = job.first /\ r.last = job.last
    THEN UNCHANGED <<jobs, proofRows, proofs, aggregatedProofs>>
    ELSE /\ jobs' = [jobs EXCEPT ![job.id].status = "Done"]
         /\ proofRows' = proofRows \cup {ProofRow(job)}
         /\ IF job.type = "SingleProof"
            THEN proofs' = proofs \cup {job.first} /\ UNCHANGED aggregatedProofs
            ELSE /\ aggregatedProofs' = aggregatedProofs \cup {<<job.first, job.last>>}
                 /\ UNCHANGED proofs

(* The proof is done; when the answer is lost, the client sends it again. *)
Publish(p) ==
    /\ provers[p] # NoJob
    /\ StoreResult(provers[p])
    /\ \/ /\ provers' = [provers EXCEPT ![p] = NoJob]
          /\ UNCHANGED faults
       \/ /\ faults + tools < MaxFaults
          /\ faults' = faults + 1
          /\ UNCHANGED provers
    /\ UNCHANGED <<blocks, aggregateOps, versions, witnesses, generators, loopAlive, tools>>

(* The prover dies, or cannot reach the server any more: its proof is lost. *)
ProverFails(p) ==
    /\ provers[p] # NoJob
    /\ faults + tools < MaxFaults
    /\ faults' = faults + 1
    /\ provers' = [provers EXCEPT ![p] = NoJob]
    /\ UNCHANGED <<vars, versions, witnesses, generators, jobs, proofRows, loopAlive, tools>>

(* The server starts again: the generators after the last executed block. *)
RestartServer ==
    /\ faults + tools < MaxFaults
    /\ faults' = faults + 1
    /\ generators' = StartBlocks
    /\ loopAlive' = TRUE
    /\ UNCHANGED <<vars, versions, witnesses, jobs, provers, proofRows, tools>>

-----------------------------------------------------------------------------
(* Mutant: the jobs stay when the proofs are removed. *)
RemainingJobs_All(last) == jobs

(* remove_prover_jobs: jobs after the last correct block are removed, and   *)
(* one that reaches beyond it is cut.                                       *)
RemainingJobs(last) ==
    [i \in DOMAIN jobs |->
        IF jobs[i].first > last THEN [jobs[i] EXCEPT !.status = "Removed"]
        ELSE IF jobs[i].last > last THEN [jobs[i] EXCEPT !.last = last]
        ELSE jobs[i]]

(* remove_witnesses, remove_proofs, remove_aggregated_proofs,               *)
(* remove_prover_jobs; the server is down and starts again afterwards.      *)
RemoveProverData(last) ==
    /\ witnesses' = witnesses \cap 1..last
    /\ proofs' = proofs \cap 1..last
    /\ aggregatedProofs' = {r \in aggregatedProofs : r[2] <= last}
    /\ proofRows' = {r \in proofRows : r.last <= last}
    /\ jobs' = RemainingJobs(last)
    /\ loopAlive' = TRUE
    /\ faults + tools < MaxFaults
    /\ tools' = tools + 1

CutsRange(last) ==
    \E i \in DOMAIN aggregateOps :
        aggregateOps[i].first <= last /\ last < aggregateOps[i].last

(* The remove_proofs tool.  remove_aggregate_operations never commits the   *)
(* transaction in which it deletes, so the operations stay.                 *)
RemoveProofs ==
    \E last \in 0..blocks :
        /\ RemoveJoined \/ LastAffectedBlock("CreateProofBlocks") <= last
        /\ RemoveProverData(last)
        /\ generators' = StartBlocks
        /\ UNCHANGED <<blocks, aggregateOps, versions, provers, faults>>

(* The storage part of the block_revert tool, as far as it is about proofs  *)
(* and aggregated operations, for a last block that cuts none of them.      *)
RevertBlocks ==
    \E last \in 0..(blocks - 1) :
        /\ ~CutsRange(last)
        /\ RemoveProverData(last)
        /\ blocks' = last
        /\ versions' = SubSeq(versions, 1, last)
        /\ aggregateOps' = Log!Remaining(aggregateOps, last)
        /\ generators' = [g \in 1..Generators |->
                             Smaller(LastAffectedBlock("ExecuteBlocks"), last) + g]
        /\ UNCHANGED <<provers, faults>>

ServerNext ==
    \/ CompleteBlock
    \/ CreateAggregatedOperations /\ UNCHANGED <<serverVars, counters>>
    \/ \E g \in 1..Generators : Maintain(g)
    \/ AddSingleProofJob
    \/ AddAggregatedProofJob
    \/ \E i \in DOMAIN jobs : MarkStaleJob(i)
    \/ \E p \in Provers : GetJob(p) \/ Publish(p) \/ ProverFails(p)
    \/ RestartServer
    \/ RemoveProofs
    \/ RevertBlocks

ServerSpec == ServerInit /\ [][ServerNext]_allVars

(* A step of the server or of a prover, with nothing going wrong. *)
Step ==
    /\ \/ CreateAggregatedOperations /\ UNCHANGED serverVars
       \/ \E g \in 1..Generators : Maintain(g)
       \/ AddSingleProofJob
       \/ AddAggregatedProofJob
       \/ \E i \in DOMAIN jobs : MarkStaleJob(i)
       \/ \E p \in Provers : GetJob(p) \/ Publish(p)
    /\ UNCHANGED counters

HasWork ==
    \/ \E g \in 1..Generators : ReadyBlock(generators[g])
    \/ \E p \in Provers : provers[p] # NoJob \/ NextJob # {}
    \/ /\ loopAlive
       /\ \/ LastBlockInQueue("SingleProof") + 1 \in witnesses
          \/ LastBlockInQueue("AggregatedProof") < LastAffectedBlock("CreateProofBlocks")
          \/ \E i \in DOMAIN jobs : jobs[i].status = "InProgress"
    \/ LastAffectedBlock("CommitBlocks") < blocks
    \/ ProvenTogether(Cardinality(BlocksWithProofs(LastAffectedBlock("CreateProofBlocks")))) > 0
    \/ \E r \in aggregatedProofs : LastAffectedBlock("PublishProofBlocksOnchain") < r[2]
    \/ LastAffectedBlock("ExecuteBlocks") < ExecutableBlocks

(* Every task polls for ever, provers finish what they start, and a job     *)
(* that nobody works on becomes stale: as long as one of them has something *)
(* to do, something is done.  (The weak fairness of Step, with the          *)
(* condition under which it is enabled written out.)                        *)
ServerFairSpec == ServerSpec /\ ([]<>~HasWork \/ []<><<Step>>_allVars)

-----------------------------------------------------------------------------
(* A proof in the database is a proof of the block that is there now: a     *)
(* prover that still works on a reverted block cannot store its proof.      *)
ProofsOfCurrentBlocks ==
    \A r \in proofRows : r.last <= blocks /\ r.version = versions[r.last]

(* A job is done exactly when its proof is stored: one without the other    *)
(* would be proved for ever, or never (publish, store_proof).               *)
DoneMeansProven ==
    /\ \A i \in DOMAIN jobs : jobs[i].status = "Done" => ProofRow(jobs[i]) \in proofRows
    /\ \A r \in proofRows : \E i \in DOMAIN jobs :
          jobs[i].status = "Done" /\ ProofRow(jobs[i]) = r

(* The task that adds jobs finds every proof it wants to join ("Single      *)
(* proof should exist", update_prover_job_queue).                           *)
SingleProofsExist == loopAlive

(* Between two uses of a tool the prover server is what Aggregator assumes  *)
(* of it: it only adds proofs, each once, of blocks and ranges that exist.  *)
ImplementsAggregator == [][tools' = tools => Next]_vars
=============================================================================
