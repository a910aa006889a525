----------------------------- MODULE MerkleNodes -----------------------------
(***************************************************************************)
(* Nodes, proofs and whole trees: lib/concurrent-merkle-tree/src/utils.rs  *)
(* and lib/merkle-tree-reference/src/lib.rs.                               *)
(*                                                                         *)
(* keccak is modelled as a free constructor: the hash of two nodes is the  *)
(* pair of them, so equal hashes have equal preimages.  The 32 zero bytes  *)
(* EMPTY, a leaf hash and the hash of two nodes are sequences of lengths   *)
(* 0, 1 and 2, so no two of them coincide.                                 *)
(***************************************************************************)
EXTENDS Integers, Sequences

CONSTANTS MAX_DEPTH,    \* levels of the tree above its leaves
          Leaf          \* leaf hashes other than EMPTY that clients write

\* check_bounds asserts MAX_DEPTH < 31; a tree has at least one level.
ASSUME DepthAssumption == MAX_DEPTH \in 1..30

Levels == 0 .. MAX_DEPTH-1

\* Indices of the leaves of a tree.
LeafIndices == 0 .. 2^MAX_DEPTH - 1

EMPTY == <<>>

LeafNodes == {<<v>> : v \in Leaf}

\* (index >> k) & 1
Bit(index, k) == (index \div 2^k) % 2

hash_to_parent(node, sibling, is_left) ==
  IF is_left THEN <<node, sibling>> ELSE <<sibling, node>>

empty_node[level \in 0..MAX_DEPTH] ==
  IF level = 0 THEN EMPTY
  ELSE hash_to_parent(empty_node[level-1], empty_node[level-1], TRUE)

\* The nodes above leaf, one for each level, as the hashing loops compute them:
\* left[k] says whether the node of level k is its parent's left child.
Climb(leaf, proof, left) ==
  LET node[k \in 0..MAX_DEPTH] ==
        IF k = 0 THEN leaf ELSE hash_to_parent(node[k-1], proof[k-1], left[k-1])
  IN  node

\* Which nodes on the path of the leaf at index are left children.
IsLeft(index) == [k \in Levels |-> Bit(index, k) = 0]

recompute(leaf, proof, index) == Climb(leaf, proof, IsLeft(index))[MAX_DEPTH]

\* A proof whose upper nodes were left out is completed with empty subtrees.
fill_in_proof(proof_vec) ==
  [k \in Levels |-> IF k < Len(proof_vec) THEN proof_vec[k+1] ELSE empty_node[k]]

-----------------------------------------------------------------------------
(* The off-chain reference tree: an array of leaves and every node above it. *)

MerkleTree(leaves) ==
  LET nodes[k \in 0..MAX_DEPTH] ==
        IF k = 0 THEN leaves
        ELSE LET below == nodes[k-1]
             IN [p \in 0 .. 2^(MAX_DEPTH-k) - 1 |-> <<below[2*p], below[2*p+1]>>]
  IN  [k \in 0..MAX_DEPTH |-> nodes[k]]

build_root(leaves) == MerkleTree(leaves)[MAX_DEPTH][0]

\* The node beside that of index i on the way up.
Sibling(i) == IF i % 2 = 0 THEN i + 1 ELSE i - 1

get_proof_of_leaf(leaves, idx) ==
  LET tree == MerkleTree(leaves)
  IN  [k \in 1..MAX_DEPTH |-> tree[k-1][Sibling(idx \div 2^(k-1))]]

add_leaf(leaves, leaf, idx) == [leaves EXCEPT ![idx] = leaf]

\* The leaf that a root commits to at idx: each bit of idx picks a child.
LeafOf(root, idx) ==
  LET node[k \in 0..MAX_DEPTH] ==
        IF k = MAX_DEPTH THEN root ELSE node[k+1][1 + Bit(idx, k)]
  IN  node[0]
=============================================================================
