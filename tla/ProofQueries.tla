----------------------------- MODULE ProofQueries -----------------------------
(***************************************************************************)
(* The proofs that the two APIs assemble from the rows of cl_items:        *)
(* get_proof_and_root of nft_api and get_proof_for_asset of                *)
(* digital_asset_types, which das_api serves.                              *)
(*                                                                         *)
(* cl_items is a function from the node indices that have a row (the table *)
(* has a unique index on tree and node_idx) to its hash, seq and level.    *)
(***************************************************************************)
EXTENDS MerkleNodes, FiniteSets, SequencesExt

\* The hash, no bytes at all, of a default SimpleChangeLog: unlike any node.
NoHash == <<0, 0, 0>>

leaf_idx_to_node_idx(index, tree_height) == index + 2^tree_height

node_idx_to_leaf_idx(node_idx, tree_height) == node_idx - 2^tree_height

\* The level and the hash of the root's row.
get_height(cl_items) == cl_items[1].level

get_root(cl_items) == cl_items[1].hash

\* The nodes beside the path from node index up, and the root.
get_required_nodes_for_proof(index) ==
  LET height == Cardinality({k \in 0..MAX_DEPTH : index \div 2^k > 1})
  IN  [k \in 1..height |-> Sibling(index \div 2^(k-1))] \o <<1>>

make_empty_node(lvl) == empty_node[lvl]

\* A list of size nodes, each row found in the place of its level and the hash
\* of an empty subtree where there is none.
PlacedByLevel(cl_items, found, size) ==
  [k \in 1..size |->
     IF \E n \in found : cl_items[n].level = k-1
     THEN cl_items[CHOOSE n \in found : cl_items[n].level = k-1].hash
     ELSE make_empty_node(k-1)]

\* Rows not newer than the root's: none without a root.
RowsUpToRoot(cl_items, nodes) ==
  {n \in ToSet(nodes) \cap DOMAIN cl_items :
     1 \in DOMAIN cl_items /\ cl_items[n].seq <= cl_items[1].seq}

\* Mutant: the rows found are listed from the root down.
Ordered_FromRoot(found) ==
  CHOOSE s \in [1..Cardinality(found) -> found] : \A j, k \in DOMAIN s : j < k => s[j] < s[k]

\* `order by node_idx desc`
Ordered(found) ==
  CHOOSE s \in [1..Cardinality(found) -> found] : \A j, k \in DOMAIN s : j < k => s[j] > s[k]

\* The proof of the node, the root last.
get_proof_and_root(cl_items, index) ==
  LET nodes == get_required_nodes_for_proof(index)
      found == RowsUpToRoot(cl_items, nodes)
      rows  == Ordered(found)
  IN  IF Cardinality(found) # Len(nodes)
      THEN PlacedByLevel(cl_items, found, Len(nodes))
      ELSE [k \in 1..Len(nodes) |-> cl_items[rows[k]].hash]

\* The proof alone.
handle_get_proof(cl_items, index) == Front(get_proof_and_root(cl_items, index))

\* The rows of app_specific with the leaf: nothing in the repository creates that
\* table or writes to it, so that the query fails.
get_asset(cl_items, node_idx) == <<>>

\* Mutant: the index of the leaf is taken for that of a node.
handle_get_asset_proof_NodeIdx(cl_items, leaf_idx) ==
  LET list == get_proof_and_root(cl_items, leaf_idx)
  IN  [hash |-> make_empty_node(0), root |-> Last(list), proof |-> Front(list)]

\* Takes the index of the leaf, made into that of its node by the height of the
\* tree, and serves the hash of an empty leaf when there is no asset.
handle_get_asset_proof(cl_items, leaf_idx) ==
  LET node_idx == leaf_idx_to_node_idx(leaf_idx, get_height(cl_items))
      list == get_proof_and_root(cl_items, node_idx)
      result == get_asset(cl_items, node_idx)
  IN  [hash  |-> IF result = <<>> THEN make_empty_node(0) ELSE Head(result),
       root  |-> Last(list),
       proof |-> Front(list)]

\* The list for the node of an asset's leaf, filled only when a row is missing.
get_proof_for_asset(cl_items, node_idx) ==
  LET nodes == get_required_nodes_for_proof(node_idx)
      found == ToSet(nodes) \cap DOMAIN cl_items
  IN  IF Cardinality(found) # Len(nodes)
      THEN PlacedByLevel(cl_items, found, Len(nodes))
      ELSE [k \in 1..Len(nodes) |-> NoHash]

\* das_api: a proof without nodes counts as not found.
get_asset_proof(cl_items, node_idx) ==
  LET list == get_proof_for_asset(cl_items, node_idx)
  IN  IF Len(list) = 1 THEN <<>> ELSE list

\* The nodes of a list, the root last, prove that leaf is at index.
Proves(list, leaf, index) ==
  /\ Len(list) = MAX_DEPTH + 1
  /\ recompute(leaf, [k \in Levels |-> list[k+1]], index) = list[MAX_DEPTH + 1]
=============================================================================
