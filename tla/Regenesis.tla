------------------------------ MODULE Regenesis ------------------------------
(***************************************************************************)
(* The multisignature that fixes the state root of a regenesis: the master *)
(* submits a pair of root hashes, members of the security council approve  *)
(* it, and the pair is accepted at the threshold (RegenesisMultisig.sol).  *)
(* A member's transaction names the pair it approves and may be executed   *)
(* after the master has submitted another one.                             *)
(***************************************************************************)
EXTENDS Integers, FiniteSets

CONSTANTS
  Council,     \* SECURITY_COUNCIL_MEMBERS
  Threshold,   \* securityCouncilThreshold
  Outsider,    \* an address of no member
  Pairs,       \* pairs (old root hash, new root hash) that may be submitted
  ZeroPair     \* bytes32(0) twice, the initial value

VARIABLES
  accepted,    \* oldRootHash, newRootHash
  candidate,   \* candidateOldRootHash, candidateNewRootHash
  securityCouncilApproves, numberOfApprovals,
  sent         \* <<sender, pair>>: approvals sent, executed or not

vars == <<accepted, candidate, securityCouncilApproves, numberOfApprovals, sent>>

Init ==
  /\ accepted = ZeroPair
  /\ candidate = ZeroPair
  /\ securityCouncilApproves = {}
  /\ numberOfApprovals = 0
  /\ sent = {}

SubmitHash(pair) ==
  /\ candidate' = pair
  /\ accepted' = ZeroPair
  /\ securityCouncilApproves' = {}
  /\ numberOfApprovals' = 0
  /\ UNCHANGED sent

SendApproval(sender, pair) ==
  /\ sent' = sent \cup {<<sender, pair>>}
  /\ UNCHANGED <<accepted, candidate, securityCouncilApproves, numberOfApprovals>>

\* mutant: the approval counts for whatever is the candidate by now
ApproveHash_AnyCandidate(sender, pair) ==
  /\ <<sender, pair>> \in sent
  /\ sender \in Council \ securityCouncilApproves
  /\ securityCouncilApproves' = securityCouncilApproves \cup {sender}
  /\ numberOfApprovals' = numberOfApprovals + 1
  /\ accepted' = IF numberOfApprovals + 1 = Threshold
                   THEN candidate ELSE accepted
  /\ UNCHANGED <<candidate, sent>>

\* a second approval of a member reverts, an outsider's changes nothing
ApproveHash(sender, pair) ==
  /\ <<sender, pair>> \in sent
  /\ pair = candidate
  /\ sender \in Council \ securityCouncilApproves
  /\ securityCouncilApproves' = securityCouncilApproves \cup {sender}
  /\ numberOfApprovals' = numberOfApprovals + 1
  /\ accepted' = IF numberOfApprovals + 1 = Threshold
                   THEN candidate ELSE accepted
  /\ UNCHANGED <<candidate, sent>>

Next ==
  \/ \E pair \in Pairs : SubmitHash(pair)
  \/ \E sender \in Council \cup {Outsider}, pair \in Pairs :
       SendApproval(sender, pair) \/ ApproveHash(sender, pair)

-----------------------------------------------------------------------------
TypeOK ==
  /\ accepted \in Pairs \cup {ZeroPair}
  /\ candidate \in Pairs \cup {ZeroPair}
  /\ securityCouncilApproves \subseteq Council
  /\ numberOfApprovals \in 0..Cardinality(Council)

\* An accepted pair is the one last submitted and at least a threshold of
\* the council approved exactly this pair, although approvals of earlier
\* candidates may be executed late; and a pair that was approved by enough
\* members since it was submitted is accepted.
AcceptedAsApproved ==
  /\ accepted # ZeroPair =>
       /\ accepted = candidate
       /\ Cardinality({m \in Council : <<m, accepted>> \in sent}) >= Threshold
  /\ candidate # ZeroPair
       => (accepted = candidate
             <=> Cardinality(securityCouncilApproves) >= Threshold)
=============================================================================
