------------------------------ MODULE MCZkSync ------------------------------
(* Instances of ZkSync for TLC. *)
EXTENDS ZkSync, TLC

OwnerSymmetry == Permutations(Owners)

FungibleOpTypes ==
    {"Deposit", "FullExit", "PartialExit", "ForcedExit", "Transfer"}
AllOpTypes == FungibleOpTypes \cup {"WithdrawNFT", "MintNFT"}
QueueOpTypes == {"Deposit", "FullExit"}
None == {}
One == {1}
Zero == {0}
UpToFive == 0..5
AllHonest == {TRUE}

(* A bound: blocks that can never be proven are not followed further. *)
RootsValid ==
    \A b \in 1..totalBlocksCommitted :
        storedBlockHashes[b].stateHash # InvalidRoot
=============================================================================
