------------------------------- MODULE Upgrade -------------------------------
(***************************************************************************)
(* Upgrades of the deployed contracts.  The gatekeeper announces new       *)
(* targets, waits, and installs them in the proxies it manages.  How long  *)
(* it must wait is decided by the main contract, the ZkSync proxy, which   *)
(* keeps its own upgrade state and lets the security council cut the       *)
(* notice period to zero for the announced targets.                        *)
(*                                                                         *)
(* UpgradeGatekeeper.sol, Proxy.sol, Ownable.sol, and the upgrade part of  *)
(* ZkSync.sol and AdditionalZkSync.sol.  Every action is one transaction;  *)
(* a transaction whose require fails changes nothing and is no step.       *)
(***************************************************************************)
EXTENDS Integers, Sequences, FiniteSets

CONSTANTS
  Council,        \* SECURITY_COUNCIL_MEMBERS
  Threshold,      \* SECURITY_COUNCIL_THRESHOLD
  NoticePeriod,   \* UPGRADE_NOTICE_PERIOD
  Masters,        \* addresses that may own the gatekeeper
  Targets, FirstTarget,   \* addresses of implementations, the deployed one
  NoTarget,       \* address(0): this contract is not upgraded
  Announcements,  \* the sequences of new targets the master may announce
  MaxNow, MaxVersion, MaxManaged   \* bounds of the checked instance

ASSUME UpgradeAssumption ==
  /\ IsFiniteSet(Council)
  /\ Threshold \in Nat \ {0}
  /\ NoticePeriod \in Nat
  /\ FirstTarget \in Targets
  /\ Announcements \subseteq Seq(Targets \cup {NoTarget})

VARIABLES
  master,                         \* owner of the gatekeeper
  upgradeStatus, noticePeriodFinishTimestamp, nextTargets, versionId,
  installed,                      \* target of every managed proxy
  upgradeStartTimestamp, approvedUpgradeNoticePeriod,
  upgradePreparationActive, upgradePreparationActivationTime,
  securityCouncilApproves, numberOfApprovals,
  now,                            \* block.timestamp
  consents,                       \* <<member, targets>> a member has agreed to
  announced                       \* last announcement: [targets, at]

gatekeeper == <<master, upgradeStatus, noticePeriodFinishTimestamp,
                nextTargets, versionId, installed>>
mainContract == <<upgradeStartTimestamp, approvedUpgradeNoticePeriod,
                  upgradePreparationActive, upgradePreparationActivationTime,
                  securityCouncilApproves, numberOfApprovals>>
vars == <<gatekeeper, mainContract, now, consents, announced>>

Proxies == 1..3      \* governance, verifier and the main contract, as deployed
MainProxy == 3

-----------------------------------------------------------------------------
(* The main contract.                                                      *)

\* mutant: the approvals and what they approved outlive the upgrade
ClearUpgradeStatus_ApprovalsKept ==
  /\ upgradePreparationActive' = FALSE
  /\ upgradePreparationActivationTime' = 0
  /\ upgradeStartTimestamp' = 0
  /\ UNCHANGED <<approvedUpgradeNoticePeriod, securityCouncilApproves,
                 numberOfApprovals>>

\* upgrade-related state is cleaned when an upgrade ends either way
ClearUpgradeStatus ==
  /\ upgradePreparationActive' = FALSE
  /\ upgradePreparationActivationTime' = 0
  /\ approvedUpgradeNoticePeriod' = NoticePeriod
  /\ upgradeStartTimestamp' = 0
  /\ securityCouncilApproves' = {}
  /\ numberOfApprovals' = 0

UpgradeNoticePeriodStarted ==
  /\ upgradeStartTimestamp' = now
  /\ UNCHANGED <<approvedUpgradeNoticePeriod, upgradePreparationActive,
                 upgradePreparationActivationTime, securityCouncilApproves,
                 numberOfApprovals>>

UpgradePreparationStarted ==
  /\ now >= upgradeStartTimestamp + approvedUpgradeNoticePeriod
  /\ upgradePreparationActive' = TRUE
  /\ upgradePreparationActivationTime' = now
  /\ UNCHANGED <<upgradeStartTimestamp, approvedUpgradeNoticePeriod,
                 securityCouncilApproves, numberOfApprovals>>

\* the targets the council approves: the first three announced ones
TargetsHash(targets) == [i \in Proxies |-> targets[i]]
Hashes ==
  {TargetsHash(a) : a \in {t \in Announcements : Proxies \subseteq DOMAIN t}}

\* getUpgradeTargetsHash() = hash; it reverts unless an upgrade with at least
\* three targets is announced
IsUpgradeTargetsHash(hash) ==
  /\ Proxies \subseteq DOMAIN nextTargets
  /\ hash = TargetsHash(nextTargets)

\* approveCutUpgradeNoticePeriod, for each of `members': who has approved
\* already, or is not of the council, adds nothing
ApproveCutUpgradeNoticePeriod(members) ==
  LET new == (members \cap Council) \ securityCouncilApproves
      number == numberOfApprovals + Cardinality(new)
  IN  /\ securityCouncilApproves' = securityCouncilApproves \cup new
      /\ numberOfApprovals' = number
      /\ approvedUpgradeNoticePeriod' =
           IF new # {} /\ number >= Threshold
             THEN 0 ELSE approvedUpgradeNoticePeriod
      /\ UNCHANGED <<upgradeStartTimestamp, upgradePreparationActive,
                     upgradePreparationActivationTime>>

-----------------------------------------------------------------------------
(* Deployment: three proxies, no upgrade under way.                        *)

Init ==
  /\ master \in Masters
  /\ upgradeStatus = "Idle"
  /\ noticePeriodFinishTimestamp = 0
  /\ nextTargets = <<>>
  /\ versionId = 0
  /\ installed = [i \in Proxies |-> FirstTarget]
  /\ upgradeStartTimestamp = 0
  /\ approvedUpgradeNoticePeriod = NoticePeriod
  /\ upgradePreparationActive = FALSE
  /\ upgradePreparationActivationTime = 0
  /\ securityCouncilApproves = {}
  /\ numberOfApprovals = 0
  /\ now = 1
  /\ consents = {}
  /\ announced = [targets |-> <<>>, at |-> 0]

(* The gatekeeper's transactions, all of them the master's.                *)

TransferMastership(caller, newMaster) ==
  /\ caller = master
  /\ master' = newMaster
  /\ UNCHANGED <<upgradeStatus, noticePeriodFinishTimestamp, nextTargets,
                 versionId, installed, mainContract, now, consents, announced>>

AddUpgradeable(caller, target) ==
  /\ caller = master
  /\ upgradeStatus = "Idle"
  /\ Len(installed) < MaxManaged
  /\ installed' = Append(installed, target)
  /\ UNCHANGED <<master, upgradeStatus, noticePeriodFinishTimestamp,
                 nextTargets, versionId, mainContract, now, consents, announced>>

\* the gatekeeper's own notice period is the main contract's
\* getNoticePeriod(), zero: the wait is left to upgradePreparationStarted
StartUpgrade(caller, newTargets) ==
  /\ caller = master
  /\ upgradeStatus = "Idle"
  /\ Len(newTargets) = Len(installed)
  /\ UpgradeNoticePeriodStarted
  /\ upgradeStatus' = "NoticePeriod"
  /\ noticePeriodFinishTimestamp' = now
  /\ nextTargets' = newTargets
  /\ announced' = [targets |-> newTargets, at |-> now]
  /\ UNCHANGED <<master, versionId, installed, now, consents>>

\* mutant: the main contract is not told
CancelUpgrade_ContractNotTold(caller) ==
  /\ caller = master
  /\ upgradeStatus # "Idle"
  /\ upgradeStatus' = "Idle"
  /\ noticePeriodFinishTimestamp' = 0
  /\ nextTargets' = <<>>
  /\ UNCHANGED <<master, versionId, installed, mainContract, now, consents,
                 announced>>

CancelUpgrade(caller) ==
  /\ caller = master
  /\ upgradeStatus # "Idle"
  /\ ClearUpgradeStatus
  /\ upgradeStatus' = "Idle"
  /\ noticePeriodFinishTimestamp' = 0
  /\ nextTargets' = <<>>
  /\ UNCHANGED <<master, versionId, installed, now, consents, announced>>

StartPreparation(caller) ==
  /\ caller = master
  /\ upgradeStatus = "NoticePeriod"
  /\ now >= noticePeriodFinishTimestamp
  /\ upgradeStatus' = "Preparation"
  /\ UpgradePreparationStarted
  /\ UNCHANGED <<master, noticePeriodFinishTimestamp, nextTargets, versionId,
                 installed, now, consents, announced>>

\* Proxy.upgradeTarget for every target that is set; the new main contract's
\* upgrade() sets the approved period once more, to what clearing set it to
UpgradeTargets(targets) ==
  installed' = [i \in DOMAIN installed |->
                  IF targets[i] = NoTarget THEN installed[i] ELSE targets[i]]

FinishUpgrade(caller) ==
  /\ caller = master
  /\ upgradeStatus = "Preparation"
  /\ versionId < MaxVersion
  /\ ClearUpgradeStatus
  /\ UpgradeTargets(nextTargets)
  /\ versionId' = versionId + 1
  /\ upgradeStatus' = "Idle"
  /\ noticePeriodFinishTimestamp' = 0
  /\ nextTargets' = <<>>
  /\ UNCHANGED <<master, now, consents, announced>>

(* The security council.                                                   *)

\* a member signs a message for some targets, or sends a transaction that
\* names them: neither has reached the contract yet, both may do so any time
Consent(member, hash) ==
  /\ consents' = consents \cup {<<member, hash>>}
  /\ UNCHANGED <<gatekeeper, mainContract, now, announced>>

CutUpgradeNoticePeriod(member, hash) ==
  /\ <<member, hash>> \in consents
  /\ upgradeStartTimestamp # 0
  /\ IsUpgradeTargetsHash(hash)
  /\ ApproveCutUpgradeNoticePeriod({member})
  /\ UNCHANGED <<gatekeeper, now, consents, announced>>

\* a signature of other targets recovers to an address of no member
CutUpgradeNoticePeriodBySignature(signatures) ==
  /\ upgradeStartTimestamp # 0
  /\ Proxies \subseteq DOMAIN nextTargets
  /\ ApproveCutUpgradeNoticePeriod(
       {s[1] : s \in {t \in signatures : IsUpgradeTargetsHash(t[2])}})
  /\ UNCHANGED <<gatekeeper, now, consents, announced>>

Tick ==
  /\ now < MaxNow
  /\ now' = now + 1
  /\ UNCHANGED <<gatekeeper, mainContract, consents, announced>>

Next ==
  \/ \E caller, new \in Masters : TransferMastership(caller, new)
  \/ \E caller \in Masters :
       \/ \E t \in Targets : AddUpgradeable(caller, t)
       \/ \E targets \in Announcements : StartUpgrade(caller, targets)
       \/ CancelUpgrade(caller)
       \/ StartPreparation(caller)
       \/ FinishUpgrade(caller)
  \/ \E member \in Council, hash \in Hashes :
       \/ Consent(member, hash)
       \/ CutUpgradeNoticePeriod(member, hash)
  \/ \E signatures \in SUBSET consents :
       CutUpgradeNoticePeriodBySignature(signatures)
  \/ Tick

Spec == Init /\ [][Next]_vars

-----------------------------------------------------------------------------
(* Properties.                                                             *)

TypeOK ==
  /\ master \in Masters
  /\ upgradeStatus \in {"Idle", "NoticePeriod", "Preparation"}
  /\ noticePeriodFinishTimestamp \in Nat
  /\ nextTargets \in Announcements \cup {<<>>}
  /\ versionId \in Nat
  /\ installed \in Seq(Targets)
  /\ upgradeStartTimestamp \in Nat
  /\ approvedUpgradeNoticePeriod \in {0, NoticePeriod}
  /\ upgradePreparationActive \in BOOLEAN
  /\ upgradePreparationActivationTime \in Nat
  /\ securityCouncilApproves \subseteq Council
  /\ numberOfApprovals \in Nat
  /\ now \in Nat \ {0}
  /\ consents \subseteq Council \X Hashes
  /\ announced.at \in Nat
  /\ announced.targets \in Announcements \cup {<<>>}

\* The gatekeeper and the main contract agree about the upgrade under way:
\* while the gatekeeper is idle nothing of an earlier upgrade is left in the
\* main contract, exodus preparation is on exactly in the preparation phase,
\* and the counted approvals are those that are recorded.  A leftover
\* approval would count towards targets nobody approved.
UpgradeStateAgrees ==
  /\ upgradeStatus = "Idle" =>
       /\ upgradeStartTimestamp = 0
       /\ approvedUpgradeNoticePeriod = NoticePeriod
       /\ securityCouncilApproves = {}
  /\ upgradePreparationActive <=> upgradeStatus = "Preparation"
  /\ numberOfApprovals = Cardinality(securityCouncilApproves)
  /\ upgradeStatus # "Idle" => upgradeStartTimestamp = announced.at

\* the members who have agreed to exactly these targets
Consenting(targets) ==
  {m \in Council : <<m, TargetsHash(targets)>> \in consents}

\* Users are promised the notice period: a proxy's target changes only to
\* the target last announced for it, and only when the announcement is at
\* least a notice period old or a threshold of the council has agreed to its
\* first three targets (cancelled and restarted upgrades, old signatures and
\* transactions that arrive during a later upgrade included).
InstalledAsAnnounced ==
  [][\A i \in DOMAIN installed :
       installed'[i] # installed[i] =>
         /\ installed'[i] = announced.targets[i]
         /\ \/ now >= announced.at + NoticePeriod
            \/ Cardinality(Consenting(announced.targets)) >= Threshold]_vars
=============================================================================
