---------------------------- MODULE UpgradeProofs ----------------------------
(***************************************************************************)
(* For every council, threshold, notice period and set of announcements:   *)
(* the gatekeeper and the main contract agree about the upgrade under way, *)
(* and a proxy's target changes only as announced, after the notice period *)
(* or with a threshold of the council agreeing to it.                      *)
(***************************************************************************)
EXTENDS Upgrade, FiniteSetTheorems, TLAPS

\* What makes the two properties inductive.  The approvals recorded in the
\* main contract are of members who agreed to the targets now announced; the
\* notice period is cut only when they reach the threshold; and once the
\* preparation has begun, either reason for it stays true.
IInv ==
  /\ TypeOK
  /\ UpgradeStateAgrees
  /\ upgradeStatus # "Idle" =>
       /\ nextTargets = announced.targets
       /\ Len(nextTargets) = Len(installed)
       /\ securityCouncilApproves # {} => Proxies \subseteq DOMAIN nextTargets
       /\ securityCouncilApproves \subseteq Consenting(announced.targets)
  /\ \/ approvedUpgradeNoticePeriod = NoticePeriod
     \/ Cardinality(securityCouncilApproves) >= Threshold
  /\ upgradeStatus = "Preparation" =>
       \/ now >= announced.at + NoticePeriod
       \/ Cardinality(securityCouncilApproves) >= Threshold

\* Approvals are of council members, so there are finitely many of them.
LEMMA ApprovesFinite ==
  ASSUME TypeOK
  PROVE  /\ IsFiniteSet(securityCouncilApproves)
         /\ Cardinality(securityCouncilApproves) \in Nat
BY UpgradeAssumption, FS_Subset, FS_CardinalityType DEF TypeOK

\* The empty council approves nothing.
LEMMA NoApproves == Cardinality({}) = 0
BY FS_EmptySet

\* Deployment: no upgrade is under way.
LEMMA InitIInv == Init => IInv
<1> SUFFICES ASSUME Init PROVE IInv
  OBVIOUS
<1>1. installed \in Seq(Targets)
  <2>1. installed = [i \in 1..3 |-> FirstTarget]
    BY DEF Init, Proxies
  <2> QED BY <2>1, UpgradeAssumption, 3 \in Nat
<1>2. TypeOK
  <2>1. upgradePreparationActive \in BOOLEAN
    BY Zenon DEF Init
  <2>2. announced.at = 0 /\ announced.targets = <<>>
    BY DEF Init
  <2> QED BY <1>1, <2>1, <2>2, UpgradeAssumption DEF Init, TypeOK
<1>3. UpgradeStateAgrees
  BY NoApproves DEF Init, UpgradeStateAgrees
<1> QED BY <1>2, <1>3 DEF IInv, Init

\* An approval keeps the invariant when those who approve have agreed to the
\* announced targets.
LEMMA ApproveIInv ==
  ASSUME IInv, upgradeStatus # "Idle", Proxies \subseteq DOMAIN nextTargets,
         NEW members, members \subseteq Consenting(announced.targets),
         ApproveCutUpgradeNoticePeriod(members),
         UNCHANGED <<gatekeeper, now, consents, announced>>
  PROVE  IInv'
<1> DEFINE new == (members \cap Council) \ securityCouncilApproves
<1>1. /\ IsFiniteSet(securityCouncilApproves)
      /\ Cardinality(securityCouncilApproves) \in Nat
  BY ApprovesFinite DEF IInv
<1>2. IsFiniteSet(new) /\ Cardinality(new) \in Nat
  BY UpgradeAssumption, FS_Subset, FS_CardinalityType
<1>3. /\ securityCouncilApproves' = securityCouncilApproves \cup new
      /\ numberOfApprovals' = numberOfApprovals + Cardinality(new)
      /\ approvedUpgradeNoticePeriod' =
           IF new # {} /\ numberOfApprovals + Cardinality(new) >= Threshold
             THEN 0 ELSE approvedUpgradeNoticePeriod
      /\ UNCHANGED <<upgradeStartTimestamp, upgradePreparationActive,
                     upgradePreparationActivationTime>>
  BY Zenon DEF ApproveCutUpgradeNoticePeriod
<1>4. Cardinality(securityCouncilApproves')
        = Cardinality(securityCouncilApproves) + Cardinality(new)
  <2>1. securityCouncilApproves \cap new = {}
    OBVIOUS
  <2> HIDE DEF new
  <2>2. Cardinality(securityCouncilApproves \cup new)
          = Cardinality(securityCouncilApproves) + Cardinality(new)
              - Cardinality(securityCouncilApproves \cap new)
    BY <1>1, <1>2, FS_Union
  <2>3. Cardinality(securityCouncilApproves \cap new) = 0
    BY <2>1, NoApproves, Zenon
  <2>4. Cardinality(securityCouncilApproves \cup new)
          = Cardinality(securityCouncilApproves) + Cardinality(new)
    BY <1>1, <1>2, <2>2, <2>3
  <2> QED BY <1>3, <2>4, Zenon
<1>5. securityCouncilApproves' \subseteq Consenting(announced.targets)
  BY <1>3 DEF IInv
<1>6. numberOfApprovals = Cardinality(securityCouncilApproves)
  BY DEF IInv, UpgradeStateAgrees
<1>7. UNCHANGED <<master, upgradeStatus, noticePeriodFinishTimestamp,
                  nextTargets, versionId, installed, now, consents, announced>>
  BY DEF gatekeeper
<1>8. securityCouncilApproves' \subseteq Council
  BY <1>3 DEF IInv, TypeOK
<1> HIDE DEF new
<1>9. TypeOK'
  <2>1. approvedUpgradeNoticePeriod' \in {0, NoticePeriod}
    BY <1>3 DEF IInv, TypeOK
  <2>2. numberOfApprovals' \in Nat
    BY <1>1, <1>2, <1>3, <1>6
  <2> QED BY <1>3, <1>7, <1>8, <2>1, <2>2 DEF IInv, TypeOK
<1>10. UpgradeStateAgrees'
  <2>1. upgradePreparationActive' <=> upgradeStatus' = "Preparation"
    BY <1>3, <1>7, Zenon DEF IInv, UpgradeStateAgrees
  <2> QED BY <1>3, <1>4, <1>6, <1>7, <2>1 DEF IInv, UpgradeStateAgrees
<1>11. Consenting(announced.targets)' = Consenting(announced.targets)
  BY <1>7 DEF Consenting
<1>12. Cardinality(securityCouncilApproves')
         >= Cardinality(securityCouncilApproves)
  BY <1>1, <1>2, <1>4
<1>13. \/ approvedUpgradeNoticePeriod' = NoticePeriod
       \/ Cardinality(securityCouncilApproves') >= Threshold
  BY <1>1, <1>2, <1>3, <1>4, <1>6, <1>12, UpgradeAssumption DEF IInv
<1>14. upgradeStatus' = "Preparation" =>
         \/ now' >= announced'.at + NoticePeriod
         \/ Cardinality(securityCouncilApproves') >= Threshold
  BY <1>1, <1>2, <1>4, <1>7, <1>12, UpgradeAssumption DEF IInv
<1> QED BY <1>5, <1>7, <1>9, <1>10, <1>11, <1>13, <1>14 DEF IInv

\* When an upgrade ends, nothing of it is left.
LEMMA ClearIInv ==
  ASSUME IInv, ClearUpgradeStatus, upgradeStatus' = "Idle",
         noticePeriodFinishTimestamp' = 0, nextTargets' = <<>>,
         installed' \in Seq(Targets), versionId' \in Nat,
         UNCHANGED <<master, now, consents, announced>>
  PROVE  IInv'
<1>1. upgradePreparationActive' \in BOOLEAN
  BY Zenon DEF ClearUpgradeStatus
<1>2. /\ upgradePreparationActivationTime' = 0
      /\ approvedUpgradeNoticePeriod' = NoticePeriod
      /\ upgradeStartTimestamp' = 0
      /\ securityCouncilApproves' = {}
      /\ numberOfApprovals' = 0
  BY DEF ClearUpgradeStatus
<1>3. TypeOK'
  BY <1>1, <1>2 DEF IInv, TypeOK
<1>4. upgradePreparationActive' <=> upgradeStatus' = "Preparation"
  <2>1. upgradeStatus' # "Preparation"
    OBVIOUS
  <2> QED BY <2>1, Zenon DEF ClearUpgradeStatus
<1>5. UpgradeStateAgrees'
  BY <1>2, <1>4, NoApproves DEF UpgradeStateAgrees
<1> QED BY <1>2, <1>3, <1>5 DEF IInv

\* Every transaction, every decision of a council member and the passing of
\* time keep the invariant.
LEMMA NextIInv == IInv /\ [Next]_vars => IInv'
<1> SUFFICES ASSUME IInv, [Next]_vars PROVE IInv'
  OBVIOUS
<1>t. TypeOK /\ UpgradeStateAgrees
  BY DEF IInv
<1>f. /\ IsFiniteSet(securityCouncilApproves)
      /\ Cardinality(securityCouncilApproves) \in Nat
  BY <1>t, ApprovesFinite
<1>1. CASE UNCHANGED vars
  BY <1>1 DEF vars, gatekeeper, mainContract, IInv, TypeOK,
              UpgradeStateAgrees, Consenting
<1>2. ASSUME NEW caller \in Masters, NEW new \in Masters,
             TransferMastership(caller, new)
      PROVE  IInv'
  BY <1>2 DEF TransferMastership, mainContract, IInv, TypeOK,
              UpgradeStateAgrees, Consenting
<1>3. ASSUME NEW caller \in Masters, NEW t \in Targets,
             AddUpgradeable(caller, t)
      PROVE  IInv'
  <2>1. installed' \in Seq(Targets)
    BY <1>t, <1>3 DEF AddUpgradeable, TypeOK
  <2> QED BY <1>3, <2>1 DEF AddUpgradeable, mainContract, IInv, TypeOK,
                            UpgradeStateAgrees, Consenting
<1>4. ASSUME NEW caller \in Masters, NEW targets \in Announcements,
             StartUpgrade(caller, targets)
      PROVE  IInv'
  <2>1. /\ upgradeStatus = "Idle" /\ upgradeStatus' = "NoticePeriod"
        /\ Len(targets) = Len(installed)
        /\ upgradeStartTimestamp' = now
        /\ noticePeriodFinishTimestamp' = now
        /\ nextTargets' = targets
        /\ announced'.targets = targets /\ announced'.at = now
        /\ UNCHANGED <<master, versionId, installed, now, consents>>
        /\ UNCHANGED <<approvedUpgradeNoticePeriod, upgradePreparationActive,
                       upgradePreparationActivationTime,
                       securityCouncilApproves, numberOfApprovals>>
    BY <1>4 DEF StartUpgrade, UpgradeNoticePeriodStarted
  <2>2. /\ securityCouncilApproves = {}
        /\ approvedUpgradeNoticePeriod = NoticePeriod
    BY <1>t, <2>1 DEF UpgradeStateAgrees
  <2>3. TypeOK'
    BY <1>t, <2>1 DEF TypeOK
  <2>4. upgradePreparationActive' <=> upgradeStatus' = "Preparation"
    <3>1. upgradeStatus # "Preparation" /\ upgradeStatus' # "Preparation"
      BY <2>1
    <3> QED BY <1>t, <2>1, <3>1, Zenon DEF UpgradeStateAgrees
  <2>5. UpgradeStateAgrees'
    BY <1>t, <2>1, <2>2, <2>4 DEF UpgradeStateAgrees
  <2> QED BY <2>1, <2>2, <2>3, <2>5 DEF IInv
<1>5. ASSUME NEW caller \in Masters, CancelUpgrade(caller)
      PROVE  IInv'
  BY <1>t, <1>5, ClearIInv DEF CancelUpgrade, TypeOK
<1>6. ASSUME NEW caller \in Masters, StartPreparation(caller)
      PROVE  IInv'
  <2>1. /\ upgradeStatus = "NoticePeriod" /\ upgradeStatus' = "Preparation"
        /\ now >= upgradeStartTimestamp + approvedUpgradeNoticePeriod
        /\ upgradePreparationActivationTime' = now
        /\ UNCHANGED <<upgradeStartTimestamp, approvedUpgradeNoticePeriod,
                       securityCouncilApproves, numberOfApprovals>>
        /\ UNCHANGED <<master, noticePeriodFinishTimestamp, nextTargets,
                       versionId, installed, now, consents, announced>>
    BY <1>6 DEF StartPreparation, UpgradePreparationStarted
  <2>2. /\ upgradePreparationActive' \in BOOLEAN
        /\ upgradePreparationActive' <=> upgradeStatus' = "Preparation"
    BY <1>6, Zenon DEF StartPreparation, UpgradePreparationStarted
  <2>3. TypeOK'
    BY <1>t, <2>1, <2>2 DEF TypeOK
  <2>4. UpgradeStateAgrees'
    BY <1>t, <2>1, <2>2 DEF UpgradeStateAgrees
  <2>5. \/ now >= announced.at + NoticePeriod
        \/ Cardinality(securityCouncilApproves) >= Threshold
    BY <1>t, <2>1 DEF IInv, UpgradeStateAgrees
  <2> QED BY <2>1, <2>3, <2>4, <2>5 DEF IInv, Consenting
<1>7. ASSUME NEW caller \in Masters, FinishUpgrade(caller)
      PROVE  IInv'
  <2>1. /\ upgradeStatus = "Preparation"
        /\ installed' = [i \in DOMAIN installed |->
                           IF nextTargets[i] = NoTarget
                             THEN installed[i] ELSE nextTargets[i]]
    BY <1>7 DEF FinishUpgrade, UpgradeTargets
  <2>2. /\ installed \in Seq(Targets)
        /\ nextTargets \in Seq(Targets \cup {NoTarget})
        /\ DOMAIN nextTargets = DOMAIN installed
    <3>1. nextTargets \in Seq(Targets \cup {NoTarget})
      <4>1. CASE nextTargets = <<>>
        BY <4>1
      <4>2. CASE nextTargets \in Announcements
        BY <4>2, UpgradeAssumption
      <4> QED BY <1>t, <4>1, <4>2 DEF TypeOK
    <3>2. installed \in Seq(Targets) /\ Len(nextTargets) = Len(installed)
      BY <1>t, <2>1 DEF IInv, TypeOK
    <3> QED BY <3>1, <3>2
  <2>3. installed' \in Seq(Targets)
    BY <2>1, <2>2
  <2> QED BY <1>t, <1>7, <2>3, ClearIInv DEF FinishUpgrade, TypeOK
<1>8. ASSUME NEW member \in Council, NEW hash \in Hashes,
             Consent(member, hash)
      PROVE  IInv'
  <2>1. Consenting(announced.targets) \subseteq Consenting(announced.targets)'
    BY <1>8 DEF Consent, Consenting
  <2>2. consents' \subseteq Council \X Hashes
    BY <1>t, <1>8 DEF Consent, TypeOK
  <2> QED BY <1>8, <2>1, <2>2 DEF Consent, gatekeeper, mainContract, IInv, TypeOK,
                            UpgradeStateAgrees
<1>9. ASSUME NEW member \in Council, NEW hash \in Hashes,
             CutUpgradeNoticePeriod(member, hash)
      PROVE  IInv'
  <2>1. upgradeStatus # "Idle"
    BY <1>t, <1>9 DEF CutUpgradeNoticePeriod, UpgradeStateAgrees
  <2>2. /\ nextTargets = announced.targets
        /\ Proxies \subseteq DOMAIN nextTargets
        /\ hash = TargetsHash(nextTargets)
    BY <1>9, <2>1 DEF CutUpgradeNoticePeriod, IsUpgradeTargetsHash, IInv
  <2>3. {member} \subseteq Consenting(announced.targets)
    BY <1>9, <2>2 DEF CutUpgradeNoticePeriod, Consenting
  <2> QED BY <1>9, <2>1, <2>2, <2>3, ApproveIInv DEF CutUpgradeNoticePeriod
<1>10. ASSUME NEW signatures \in SUBSET consents,
              CutUpgradeNoticePeriodBySignature(signatures)
       PROVE  IInv'
  <2> DEFINE members ==
        {s[1] : s \in {t \in signatures : IsUpgradeTargetsHash(t[2])}}
  <2>1. upgradeStatus # "Idle"
    BY <1>t, <1>10 DEF CutUpgradeNoticePeriodBySignature, UpgradeStateAgrees
  <2>2. /\ nextTargets = announced.targets
        /\ Proxies \subseteq DOMAIN nextTargets
    BY <1>10, <2>1 DEF CutUpgradeNoticePeriodBySignature, IInv
  <2>3. ASSUME NEW s \in signatures, IsUpgradeTargetsHash(s[2])
        PROVE  s[1] \in Consenting(announced.targets)
    <3>1. s \in consents /\ s[1] \in Council /\ s = <<s[1], s[2]>>
      BY <1>t DEF TypeOK
    <3>2. s[2] = TargetsHash(announced.targets)
      BY <2>2, <2>3 DEF IsUpgradeTargetsHash
    <3> QED BY <3>1, <3>2 DEF Consenting
  <2>4. members \subseteq Consenting(announced.targets)
    BY <2>3
  <2>5. /\ ApproveCutUpgradeNoticePeriod(members)
        /\ UNCHANGED <<gatekeeper, now, consents, announced>>
    BY <1>10 DEF CutUpgradeNoticePeriodBySignature
  <2> HIDE DEF members
  <2> QED BY <2>1, <2>2, <2>4, <2>5, ApproveIInv
<1>11. CASE Tick
  <2>1. now' >= now /\ now' \in Nat \ {0}
    BY <1>t, <1>11 DEF Tick, TypeOK
  <2>2. /\ UNCHANGED <<gatekeeper, mainContract, consents, announced>>
        /\ UNCHANGED Consenting(announced.targets)
    BY <1>11 DEF Tick, Consenting
  <2>3. TypeOK' /\ UpgradeStateAgrees'
    BY <1>t, <2>1, <2>2 DEF gatekeeper, mainContract, TypeOK,
                            UpgradeStateAgrees
  <2>4. upgradeStatus' = "Preparation" =>
          \/ now' >= announced'.at + NoticePeriod
          \/ Cardinality(securityCouncilApproves') >= Threshold
    BY <1>t, <2>1, <2>2, UpgradeAssumption
    DEF gatekeeper, mainContract, IInv, TypeOK
  <2> QED BY <2>2, <2>3, <2>4 DEF gatekeeper, mainContract, IInv
<1> QED BY <1>1, <1>2, <1>3, <1>4, <1>5, <1>6, <1>7, <1>8, <1>9, <1>10, <1>11
     DEF Next

\* The gatekeeper and the main contract always agree about the upgrade under
\* way: nothing of an upgrade that ended is left for the next one.
THEOREM UpgradeStateAlwaysAgrees == Spec => []UpgradeStateAgrees
<1>1. Init => IInv
  BY InitIInv
<1>2. IInv /\ [Next]_vars => IInv'
  BY NextIInv
<1>3. IInv => UpgradeStateAgrees
  BY DEF IInv
<1> QED BY <1>1, <1>2, <1>3, PTL DEF Spec

\* Only finishUpgrade changes an installed target, and then the announced
\* targets are installed for one of the two reasons the invariant keeps.
LEMMA InstallStep ==
  ASSUME IInv, Next, NEW i \in DOMAIN installed, installed'[i] # installed[i]
  PROVE  /\ installed'[i] = announced.targets[i]
         /\ \/ now >= announced.at + NoticePeriod
            \/ Cardinality(Consenting(announced.targets)) >= Threshold
<1>1. ASSUME NEW t \in Targets, installed' = Append(installed, t)
      PROVE  FALSE
  BY <1>1 DEF IInv, TypeOK
<1>2. PICK caller \in Masters : FinishUpgrade(caller)
  BY <1>1 DEF Next, TransferMastership, AddUpgradeable, StartUpgrade,
       CancelUpgrade, StartPreparation, Consent, CutUpgradeNoticePeriod,
       CutUpgradeNoticePeriodBySignature, Tick, gatekeeper
<1>3. /\ upgradeStatus = "Preparation"
      /\ installed' = [j \in DOMAIN installed |->
                         IF nextTargets[j] = NoTarget
                           THEN installed[j] ELSE nextTargets[j]]
  BY <1>2 DEF FinishUpgrade, UpgradeTargets
<1>4. /\ nextTargets = announced.targets
      /\ securityCouncilApproves \subseteq Consenting(announced.targets)
      /\ \/ now >= announced.at + NoticePeriod
         \/ Cardinality(securityCouncilApproves) >= Threshold
  BY <1>3 DEF IInv
<1>5. installed'[i] = announced.targets[i]
  BY <1>3, <1>4
<1>6. IsFiniteSet(Consenting(announced.targets))
  BY UpgradeAssumption, FS_Subset DEF Consenting
<1>7. Cardinality(securityCouncilApproves)
        <= Cardinality(Consenting(announced.targets))
  BY <1>4, <1>6, FS_Subset
<1>8. /\ Cardinality(securityCouncilApproves) \in Nat
      /\ Cardinality(Consenting(announced.targets)) \in Nat
  BY <1>6, ApprovesFinite, FS_CardinalityType DEF IInv
<1> QED BY <1>4, <1>5, <1>7, <1>8, UpgradeAssumption

\* A proxy's target changes only to the one last announced for it, and only
\* after the notice period or with a threshold of the council agreeing to
\* the announced targets, whatever was cancelled, restarted or signed before.
THEOREM InstalledOnlyAsAnnounced == Spec => InstalledAsAnnounced
<1>1. Init => IInv
  BY InitIInv
<1>2. IInv /\ [Next]_vars => IInv'
  BY NextIInv
<1>3. IInv /\ [Next]_vars =>
        [\A i \in DOMAIN installed :
           installed'[i] # installed[i] =>
             /\ installed'[i] = announced.targets[i]
             /\ \/ now >= announced.at + NoticePeriod
                \/ Cardinality(Consenting(announced.targets)) >= Threshold]_vars
  BY InstallStep
<1> QED BY <1>1, <1>2, <1>3, PTL DEF Spec, InstalledAsAnnounced
=============================================================================
