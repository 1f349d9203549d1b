------------------------------ MODULE MCServices -----------------------------
(***************************************************************************)
(* One instance of each of the components that run by themselves: upgrades *)
(* of the contracts, the approval of a regenesis, the registry of tokens   *)
(* and factories, the Merkle tree and its cache, the data restore driver,  *)
(* the forced exit requests and the gas adjuster.  The initial state       *)
(* chooses one, which then takes all the steps.                            *)
(***************************************************************************)
EXTENDS Upgrade

CONSTANTS t1, t2     \* targets

AnnouncementsDef == {<<t2, NoTarget, t2>>, <<t2, t2, t1, t2>>}

VARIABLES
  active,              \* the component that takes the steps
  accepted, candidate, hashApproves, hashApprovals, sent,
  networkGovernor, tokenGovernance, totalTokens, tokenAddresses, tokenIds,
  validators, pausedTokens, nftFactories, defaultFactory, listingCap, destroyed,
  tree, saved,
  eth, pc, driver, newOps, db, restoreFaults,
  exitNow, chain, requests, lastId, eligible, nonce, mempool, receipts,
  watcher, exitFaults,
  samples, currentSum, currentMaxPrice, storedLimit, lastUsedPrice, startLimit

regenesis == <<accepted, candidate, hashApproves, hashApprovals, sent>>
registry == <<networkGovernor, tokenGovernance, totalTokens, tokenAddresses,
              tokenIds, validators, pausedTokens, nftFactories, defaultFactory,
              listingCap, destroyed>>
merkle == <<tree, saved>>
restore == <<eth, pc, driver, newOps, db, restoreFaults>>
exits == <<exitNow, chain, requests, lastId, eligible, nonce, mempool, receipts,
           watcher, exitFaults>>
gas == <<samples, currentSum, currentMaxPrice, storedLimit, lastUsedPrice, startLimit>>

\* two pairs of hashes, a council of three of which two decide
R == INSTANCE Regenesis WITH
       Outsider <- "outsider", Pairs <- {"p1", "p2"}, ZeroPair <- "zero",
       securityCouncilApproves <- hashApproves, numberOfApprovals <- hashApprovals

\* room for two tokens, and as many to add; a default and two other factories
G == INSTANCE Governance WITH
       Addresses <- {"a1", "a2"}, TokenGov <- "tg", Tokens <- {"k1", "k2"},
       NoToken <- "zero", Factories <- {"none", "f1", "f2"}, NoFactory <- "none",
       Creators <- {"creator"}, MaxTokens <- 2, Caps <- {0, 2}

\* three of eight leaves, two of them siblings
T == INSTANCE SparseMerkleTree WITH TreeDepth <- 3, Indices <- {0, 1, 3}, Items <- {1}

\* a block can be committed, reverted, committed again and executed, and the
\* driver be stopped or misled twice meanwhile
D == INSTANCE DataRestore WITH
       EthBlocksStep <- 1, EndEthBlocksOffset <- 1, NodeLag <- 1,
       MaxEth <- 5, MaxAhead <- 2, MaxBlocks <- 2, MaxOps <- 0, MaxFaults <- 2,
       faults <- restoreFaults

\* one request, paid rightly or wrongly; it can expire and be deleted
F == INSTANCE ForcedExitRequests WITH
       WaitConfirmations <- 1, BlocksCheckAmount <- 0, MaxTxInterval <- 2,
       ExpirationPeriod <- 1, BlockTimeUpper <- 2, ProcessingAttempts <- 3,
       IdSpace <- 10, Price <- 10, Amounts <- {11, 21},
       MaxRequests <- 1, MaxPayments <- 1, MaxBlocks <- 4, MaxNow <- 4,
       MaxFaults <- 2, now <- exitNow, faults <- exitFaults

A == INSTANCE GasAdjuster WITH
       SamplesAmount <- 3, NetworkPrices <- {9, 10}, InitialLimit <- 11,
       ScalePercent <- 150, MaxPrice <- 18

ServicesInit ==
  /\ active \in {"upgrade", "regenesis", "governance", "tree", "restore", "exits", "gas"}
  /\ Init /\ R!Init /\ G!Init /\ T!Init /\ D!Init /\ F!Init /\ A!Init
  \* choices of a component that is not active make no difference
  /\ active # "upgrade" => master = CHOOSE m \in Masters : TRUE
  /\ active # "governance" => networkGovernor = "a1" /\ listingCap = 0

\* the components that are not active
Rest(c) ==
  /\ UNCHANGED active
  /\ IF c = "upgrade" THEN TRUE ELSE UNCHANGED vars
  /\ IF c = "regenesis" THEN TRUE ELSE UNCHANGED regenesis
  /\ IF c = "governance" THEN TRUE ELSE UNCHANGED registry
  /\ IF c = "tree" THEN TRUE ELSE UNCHANGED merkle
  /\ IF c = "restore" THEN TRUE ELSE UNCHANGED restore
  /\ IF c = "exits" THEN TRUE ELSE UNCHANGED exits
  /\ IF c = "gas" THEN TRUE ELSE UNCHANGED gas

ServicesNext ==
  \/ active = "upgrade" /\ Next /\ Rest("upgrade")
  \/ active = "regenesis" /\ R!Next /\ Rest("regenesis")
  \/ active = "governance" /\ G!Next /\ Rest("governance")
  \/ active = "tree" /\ T!Next /\ Rest("tree")
  \/ active = "restore" /\ D!Next /\ Rest("restore")
  \/ active = "exits" /\ F!Next /\ Rest("exits")
  \/ active = "gas" /\ A!Next /\ Rest("gas")

allVars == <<active, vars, regenesis, registry, merkle, restore, exits, gas>>

ServicesSpec == ServicesInit /\ [][ServicesNext]_allVars

\* the fairness of DataRestore and of ForcedExitRequests: who can go on does
HasWork ==
  \/ active = "restore" /\ D!HasWork
  \/ active = "exits" /\ (F!WatcherHasWork \/ mempool # {})

Work == D!DriverStep \/ F!WatcherStep \/ F!ExecuteBatch

ServicesFairSpec ==
  ServicesSpec /\ ([]<>~HasWork \/ []<><<Work>>_allVars)

-----------------------------------------------------------------------------
\* Every component keeps its state within its types.
ServicesTyped ==
  /\ active = "upgrade" => TypeOK
  /\ active = "regenesis" => R!TypeOK
  /\ active = "governance" => G!TypeOK
  /\ active = "tree" => T!TypeOK
  /\ active = "restore" => D!TypeOK
  /\ active = "exits" => F!TypeOK
  /\ active = "gas" => A!TypeOK

\* RegenesisMultisig: what is accepted is what a threshold of the council approved.
AcceptedAsApproved == active = "regenesis" => R!AcceptedAsApproved

\* Governance: ids of tokens and factories of NFTs are permanent.
RegistryOnlyGrows == G!RegistryOnlyGrows

\* SparseMerkleTree: the root hash is that of the items, whatever was cached.
RootHashIsOfItems == active = "tree" => T!RootHashIsOfItems

\* SparseMerkleTree: Merkle paths lead to the root hash.
PathsVerify == active = "tree" => T!PathsVerify

\* DataRestore: what is restored is what the contract executed.
RestoredAsExecuted == active = "restore" => D!RestoredAsExecuted

\* DataRestore: every executed block is restored in the end.
EveryBlockRestored == D!EveryBlockRestored

\* ForcedExitRequests: no exit is sent unless it was paid for.
NoExitWithoutPayment == active = "exits" => F!NoExitWithoutPayment

\* ForcedExitRequests: fulfilled requests were executed.
FulfilledMeansExecuted == active = "exits" => F!FulfilledMeansExecuted

\* ForcedExitRequests: who pays in time is served.
PaidInTimeIsServed == F!PaidInTimeIsServed

\* GasAdjuster: the limit on gas prices follows the network's.
LimitFollowsNetwork == active = "gas" => A!LimitFollowsNetwork
=============================================================================
