-------------------------- MODULE SparseMerkleTree --------------------------
(***************************************************************************)
(* The sparse Merkle tree of accounts (parallel_smt.rs).  It keeps only    *)
(* the leaves that were ever written and the inner nodes where their paths *)
(* part, computes the hashes in the gaps from precomputed ones, and caches *)
(* every hash it has computed; writing a leaf invalidates the cached       *)
(* hashes above it.  Nodes and cache are saved to the database and put     *)
(* back, with the accounts of that block, when the server restarts.        *)
(*                                                                         *)
(* A hash is the tuple of what was hashed.  A node is known by its index   *)
(* (the root is 1, the children of n are 2n and 2n+1), which no two nodes  *)
(* of the vector `nodes' share.                                            *)
(***************************************************************************)
EXTENDS Integers, Sequences, FiniteSets
LOCAL INSTANCE Functions
LOCAL INSTANCE TLC

CONSTANTS
  TreeDepth,   \* tree_depth
  Indices,     \* item indices that are written, of 0..2^TreeDepth - 1
  Items        \* items, naturals other than 0, which is T::default()

VARIABLES
  tree,        \* [items, nodes, cache]
  saved        \* what is in the database: a set of at most one such tree

vars == <<tree, saved>>

None == 0
Depth(index) == CHOOSE d \in 0..TreeDepth : 2^d <= index /\ index < 2^(d + 1)
LeafIndex(item) == 2^TreeDepth + item

\* hasher.hash_bits, hasher.compress with the level calculate_level gives
HashItem(item) == <<item>>
CalculateHash(depth, lhs, rhs) == <<lhs, rhs, TreeDepth - depth - 1>>

\* the hash of an empty subtree, by the depth of its root
Prehashed[depth \in 0..TreeDepth] ==
  IF depth = TreeDepth THEN HashItem(0)
    ELSE CalculateHash(depth, Prehashed[depth + 1], Prehashed[depth + 1])

NewTree ==
  [items |-> <<>>, nodes |-> (1 :> <<None, None>>), cache |-> <<>>]

Without(f, keys) == Restrict(f, DOMAIN f \ keys)

-----------------------------------------------------------------------------
(* Writing.                                                                *)

\* mutant: the hashes above are kept
WipeCache_ChildOnly(cache, child, parent) == Without(cache, {child})

\* the hash of `child' and, if it was cached, those between it and `parent'
WipeCache(cache, child, parent) ==
  IF child \in DOMAIN cache
    THEN Without(cache, {child} \cup
           {i \in {child \div 2^k : k \in 1..Depth(child)} : i > parent})
    ELSE cache

CommonParent(first, second) ==
  LET ups == {k \in 0..Depth(first) : first \div 2^k = second \div 2^k}
  IN  first \div 2^(CHOOSE k \in ups : \A j \in ups : k <= j)

\* direction of the leaf below the node: 1 left, 2 right
Direction(node, leaf) == 
  1 + ((leaf \div 2^(TreeDepth - Depth(node) - 1)) % 2)
OrderElements(dir, primary, secondary) ==
  IF dir = 1 THEN <<primary, secondary>> ELSE <<secondary, primary>>

\* the loop of insert, from node `current' down
RECURSIVE InsertBelow(_, _, _)
InsertBelow(t, leaf, current) ==
  LET dir == Direction(current, leaf)
      next == t.nodes[current][dir]
      normalized == leaf \div 2^(TreeDepth - Depth(next))
      split == CommonParent(normalized, next)
  IN  CASE next = None ->
             [t EXCEPT !.nodes = (leaf :> <<None, None>>) @@
                                 [@ EXCEPT ![current][dir] = leaf]]
        [] next # None /\ normalized = next ->
             LET wiped == [t EXCEPT !.cache = WipeCache(@, next, current)]
             IN  IF next = leaf THEN wiped ELSE InsertBelow(wiped, leaf, next)
        [] OTHER ->
             [t EXCEPT
                !.cache = WipeCache(@, split, current),
                !.nodes = (leaf :> <<None, None>>) @@
                          (split :> OrderElements(
                             IF normalized > next THEN 2 ELSE 1, leaf, next)) @@
                          [@ EXCEPT ![current][dir] = split]]

Insert(t, index, item) ==
  InsertBelow([t EXCEPT !.items = (index :> item) @@ @,
                        !.cache = Without(@, {1})],
              LeafIndex(index), 1)

-----------------------------------------------------------------------------
(* Hashing: get_hash returns a hash and the hashes found on the way.       *)

\* from the hash of `child' up the gap to the layer below `parent'
RECURSIVE FillGap(_, _, _, _)
FillGap(index, hash, updates, parent) ==
  IF Depth(index) = Depth(parent) + 1 THEN [hash |-> hash, updates |-> updates]
    ELSE LET pair == OrderElements(1 + (index % 2), hash, Prehashed[Depth(index)])
             up == CalculateHash(Depth(index) - 1, pair[1], pair[2])
         IN  FillGap(index \div 2, up, ((index \div 2) :> up) @@ updates, parent)

Missing == <<>>   \* the item of a leaf that has none: the code panics

RECURSIVE GetHash(_, _)

\* get_child_hash and calculate_child_hash
GetChildHash(t, parent, dir) ==
  LET index == 2 * parent + dir - 1
      child == t.nodes[parent][dir]
  IN  CASE index \in DOMAIN t.cache ->
             [hash |-> t.cache[index], updates |-> <<>>]
        [] index \notin DOMAIN t.cache /\ child = None ->
             [hash |-> Prehashed[Depth(parent) + 1], updates |-> <<>>]
        [] OTHER ->
             LET below == GetHash(t, child)
             IN  FillGap(child, below.hash, below.updates, parent)

GetHash(t, node) ==
  IF Depth(node) = TreeDepth
    THEN LET item == node - 2^TreeDepth
             hash == IF item \in DOMAIN t.items THEN HashItem(t.items[item])
                                                ELSE Missing
         IN  [hash |-> hash, updates |-> (node :> hash)]
    ELSE LET lhs == GetChildHash(t, node, 1)
             rhs == GetChildHash(t, node, 2)
             hash == CalculateHash(Depth(node), lhs.hash, rhs.hash)
         IN  [hash |-> hash,
              updates |-> (node :> hash) @@ rhs.updates @@ lhs.updates]

\* the tree after root_hash
Hashed(t) == [t EXCEPT !.cache = GetHash(t, 1).updates @@ @]

\* mutant: the root hash is not computed first
MerklePath_CacheAsIs(t, index) ==
  [k \in 1..TreeDepth |->
     LET node == LeafIndex(index) \div 2^(k - 1)
         neighbor == IF node % 2 = 0 THEN node + 1 ELSE node - 1
     IN  <<IF neighbor \in DOMAIN t.cache THEN t.cache[neighbor]
             ELSE Prehashed[TreeDepth + 1 - k],
           node % 2>>]

\* merkle_path: what is not cached after the root hash is an empty subtree
MerklePath(t, index) ==
  LET cache == Hashed(t).cache
  IN  [k \in 1..TreeDepth |->
         LET node == LeafIndex(index) \div 2^(k - 1)
             neighbor == IF node % 2 = 0 THEN node + 1 ELSE node - 1
         IN  <<IF neighbor \in DOMAIN cache THEN cache[neighbor]
                 ELSE Prehashed[TreeDepth + 1 - k],
               node % 2>>]

\* verify_proof: the hash and the index a path leads to, from level k up
RECURSIVE Aggregated(_, _, _, _)
Aggregated(proof, k, hash, index) ==
  IF k > Len(proof) THEN <<hash, index>>
    ELSE LET pair == OrderElements(1 + proof[k][2], hash, proof[k][1])
         IN  Aggregated(proof, k + 1, <<pair[1], pair[2], k - 1>>,
                        index + proof[k][2] * 2^(k - 1))

VerifyProof(t, index, item, proof) ==
  Aggregated(proof, 1, HashItem(item), 0) = <<GetHash(t, 1).hash, index>>

-----------------------------------------------------------------------------
(* Operations on the account tree.                                         *)

Init == tree = NewTree /\ saved = {}

InsertItem(index, item) ==
  /\ tree' = Insert(tree, index, item)
  /\ UNCHANGED saved

\* remove writes the default item
RemoveItem(index) ==
  /\ tree' = Insert(tree, index, 0)
  /\ UNCHANGED saved

RootHash ==
  /\ tree' = Hashed(tree)
  /\ UNCHANGED saved

\* the accounts of a block are those that were not removed; the tree cache is
\* stored after the root hash of the block was computed (get_internals)
Committed(items) == Restrict(items, {i \in DOMAIN items : items[i] # 0})

StoreCache ==
  /\ tree' = Hashed(tree)
  /\ saved' = {[tree' EXCEPT !.items = Committed(@)]}

\* init_tree_with_cache (set_internals): the accounts of the cached block, its
\* nodes and its hashes; the later changes are written like any others
RestoreFromCache ==
  /\ \E s \in saved : tree' = s
  /\ UNCHANGED saved

\* init_tree_without_cache: every account is written into a new tree
RestoreWithoutCache ==
  /\ tree' = LET RECURSIVE Fill(_, _)
                 Fill(t, rest) ==
                   IF rest = {} THEN t
                     ELSE LET i == CHOOSE i \in rest : TRUE
                          IN  Fill(Insert(t, i, tree.items[i]), rest \ {i})
             IN  Fill(NewTree, DOMAIN Committed(tree.items))
  /\ UNCHANGED saved

Next ==
  \/ \E index \in Indices :
       RemoveItem(index) \/ \E item \in Items : InsertItem(index, item)
  \/ RootHash
  \/ StoreCache
  \/ RestoreFromCache
  \/ RestoreWithoutCache

-----------------------------------------------------------------------------
(* Properties.                                                             *)

TypeOK ==
  /\ DOMAIN tree.items \subseteq Indices
  /\ DOMAIN tree.nodes \subseteq 1..(2^(TreeDepth + 1) - 1)
  /\ DOMAIN tree.cache \subseteq 1..(2^(TreeDepth + 1) - 1)
  /\ \A n \in DOMAIN tree.nodes : \A dir \in 1..2 :
       tree.nodes[n][dir] \in DOMAIN tree.nodes \cup {None}

ItemAt(index) == IF index \in DOMAIN tree.items THEN tree.items[index] ELSE 0

\* the reference: hash of the full tree below a node
RECURSIVE FullHash(_)
FullHash(node) ==
  IF Depth(node) = TreeDepth THEN HashItem(ItemAt(node - 2^TreeDepth))
    ELSE CalculateHash(Depth(node), FullHash(2 * node), FullHash(2 * node + 1))

\* Whatever was written, removed, hashed, saved and restored before, in any
\* order, root_hash returns the root of the full Merkle tree over the current
\* items, and every hash it would take from the cache is up to date.
RootHashIsOfItems ==
  /\ GetHash(tree, 1).hash = FullHash(1)
  /\ \A n \in DOMAIN tree.cache : tree.cache[n] = FullHash(n)

\* merkle_path of every index, written or not, is accepted by verify_proof
\* for the item there and for no other item: a missing cache entry always
\* stands for an empty subtree by then.
PathsVerify ==
  \A index \in Indices : \A item \in Items \cup {0} :
    VerifyProof(tree, index, item, MerklePath(tree, index))
      <=> item = ItemAt(index)
=============================================================================
