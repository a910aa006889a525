------------------------------ MODULE MerkleRoll ------------------------------
(***************************************************************************)
(* A concurrent merkle tree in use: clients whose proofs come from any     *)
(* earlier version of the tree race their writes.  versions[t] is the      *)
(* array of leaves an off-chain tree (lib/merkle-tree-reference) holds     *)
(* after the t-th change log; a client's proof is read from one of them.   *)
(* Since every action may pick any version, a proof may be arbitrarily     *)
(* late, and two clients may have read the same version.                   *)
(***************************************************************************)
EXTENDS ConcurrentMerkleTree

CONSTANTS MaxVersions,   \* bound on the number of change logs written
          Prefills       \* sizes of the off-chain trees a roll may start from

ASSUME BoundsAssumption ==
  /\ MaxVersions \in Nat \ {0}
  /\ Prefills \subseteq 1 .. 2^MAX_DEPTH

VARIABLES roll,      \* the MerkleRoll
          versions   \* leaves of the off-chain tree, one array per root

vars == <<roll, versions>>

Nodes == LeafNodes \cup {EMPTY}

EmptyLeaves == [i \in LeafIndices |-> EMPTY]

Current == versions[Len(versions)]

Initialized == roll.buffer_size > 0

\* The first n leaves of the off-chain tree that the on-chain one starts from.
Prefilled(n) ==
  {leaves \in [LeafIndices -> Nodes] :
     \A i \in LeafIndices : leaves[i] # EMPTY <=> i < n}

\* The first m nodes of the proof of the leaf at index in version t.
ProofVec(t, index, m) == SubSeq(get_proof_of_leaf(versions[t], index), 1, m)

\* A call that returns outcome.  One that fails has no effect; after one that
\* succeeds the off-chain tree follows the change log.
Returns(outcome) ==
  /\ roll' = outcome.roll
  /\ versions' = IF outcome.res = "Ok"
                 THEN LET log == get_change_log(outcome.roll)
                      IN  Append(versions, add_leaf(Current, get_leaf(log), log.index))
                 ELSE versions

-----------------------------------------------------------------------------

Init ==
  /\ roll = new
  /\ versions = <<>>

Initialize ==
  /\ ~Initialized
  /\ roll' = initialize(roll)
  /\ versions' = <<EmptyLeaves>>

\* The caller vouches that the leaf is the last one of the off-chain tree; that
\* it hashes to the root is asserted, so another leaf aborts the call.
InitializeWithRoot(n, leaves, leaf) ==
  LET outcome == initialize_with_root(roll, build_root(leaves), leaf,
                                      get_proof_of_leaf(leaves, n-1), n-1)
  IN  /\ ~Initialized
      /\ roll' = outcome.roll
      /\ versions' = IF outcome.res = "Ok" THEN <<leaves>> ELSE versions

DoAppend(node) ==
  /\ Initialized
  /\ Len(versions) < MaxVersions \/ node = EMPTY
  /\ Returns(append(roll, node))

SetLeaf(t, index, previous_leaf, new_leaf, m) ==
  /\ Initialized
  /\ Len(versions) < MaxVersions
  /\ Returns(set_leaf(roll, build_root(versions[t]), previous_leaf, new_leaf,
                      ProofVec(t, index, m), index))

FillEmptyOrAppend(t, index, leaf, m) ==
  /\ Initialized
  /\ Len(versions) < MaxVersions
  /\ Returns(fill_empty_or_append(roll, build_root(versions[t]), leaf,
                                  ProofVec(t, index, m), index))

Next ==
  \/ Initialize
  \/ \E n \in Prefills, leaf \in LeafNodes :
       \E leaves \in Prefilled(n) : InitializeWithRoot(n, leaves, leaf)
  \/ \E node \in Nodes : DoAppend(node)
  \/ \E t \in 1..Len(versions), index \in LeafIndices, m \in 0..MAX_DEPTH :
       \/ \E previous_leaf, new_leaf \in Nodes :
            SetLeaf(t, index, previous_leaf, new_leaf, m)
       \/ \E leaf \in Nodes : FillEmptyOrAppend(t, index, leaf, m)

Spec == Init /\ [][Next]_vars

-----------------------------------------------------------------------------

\* The change log written with version t, for the versions still in the buffer.
LogOfVersion(t) == roll.change_logs[SlotBefore(roll.active_index, Len(versions) - t)]

LiveVersions == {t \in 1..Len(versions) : Len(versions) - t < roll.buffer_size}

\* Fields have the ranges that the Rust types and the arrays' lengths give them.
ChangeLogOK(log) ==
  /\ DOMAIN log = {"root", "path", "index"}
  /\ DOMAIN log.path = Levels
  /\ log.index \in LeafIndices

RollOK(r) ==
  /\ DOMAIN r = {"sequence_number", "active_index", "buffer_size",
                 "change_logs", "rightmost_proof"}
  /\ r.sequence_number \in Nat
  /\ r.active_index \in Slots
  /\ r.buffer_size \in 0..MAX_BUFFER_SIZE
  /\ DOMAIN r.change_logs = Slots
  /\ \A j \in Slots : ChangeLogOK(r.change_logs[j])
  /\ DOMAIN r.rightmost_proof = {"proof", "leaf", "index"}
  /\ DOMAIN r.rightmost_proof.proof = Levels
  /\ r.rightmost_proof.index \in 0 .. 2^MAX_DEPTH

TypeOK ==
  /\ RollOK(roll)
  /\ versions \in Seq([LeafIndices -> Nodes])

\* The live change logs, read backwards from active_index, undo the history of
\* the tree one write at a time: none is overwritten while it counts as live,
\* and the counters never take a dead slot for a live one.
LogsReplayHistory ==
  \A t \in LiveVersions :
    t > 1 => versions[t] = add_leaf(versions[t-1], get_leaf(LogOfVersion(t)),
                                    LogOfVersion(t).index)

\* The ring buffer is the recent history: the change log n places behind
\* active_index carries the root of the off-chain tree n versions ago, and the
\* path of the leaf that version wrote, node for node.
ChangeLogsAreHistory ==
  \A t \in LiveVersions :
    LET log == LogOfVersion(t)
        tree == MerkleTree(versions[t])
    IN  /\ log.root = tree[MAX_DEPTH][0]
        /\ t > 1 => \A k \in Levels : log.path[k] = tree[k][log.index \div 2^k]

\* rightmost_proof, which append hashes from without being given a proof, is
\* the proof of the last leaf in the current tree, and only empty leaves follow.
RightmostProofIsCurrent ==
  Initialized =>
    LET rm == roll.rightmost_proof
        last == IF rm.index = 0 THEN 0 ELSE rm.index - 1
    IN  /\ \A i \in LeafIndices : i >= rm.index => Current[i] = EMPTY
        /\ rm.index < 2^MAX_DEPTH =>
             /\ rm.leaf = Current[last]
             /\ rm.proof = fill_in_proof(get_proof_of_leaf(Current, last))

\* A proof read fewer than MAX_BUFFER_SIZE updates ago still decides the write
\* correctly whatever was written in between: it is accepted exactly when the
\* leaf that the client believes to replace is the one now in the tree.
FreshProofsDecide ==
  \A t \in LiveVersions, index \in LeafIndices, previous_leaf \in Nodes :
    index <= roll.rightmost_proof.index =>
      LET call == set_leaf(roll, build_root(versions[t]), previous_leaf, EMPTY,
                           get_proof_of_leaf(versions[t], index), index)
      IN  call.res = "Ok" <=> previous_leaf = Current[index]

\* However old or truncated the proof, a leaf is only ever replaced or proved
\* when it is the leaf that the current root commits to: no lost update.
OnlyCurrentLeavesAccepted ==
  \A t \in 1..Len(versions), index \in LeafIndices, m \in 0..MAX_DEPTH, leaf \in Nodes :
    prove_leaf(roll, build_root(versions[t]), leaf, ProofVec(t, index, m), index).res = "Ok"
      => LeafOf(get_change_log(roll).root, index) = leaf

\* A proof of an empty leaf read fewer than MAX_BUFFER_SIZE updates ago: the
\* fill takes that leaf if it is still empty, and otherwise the conflict turns
\* it into an append, so it never overwrites what another client wrote.
FillTakesEmptyLeafOrAppends ==
  \A t \in LiveVersions, index \in LeafIndices, leaf \in LeafNodes :
    LET call == fill_empty_or_append(roll, build_root(versions[t]), leaf,
                                     get_proof_of_leaf(versions[t], index), index)
        next == roll.rightmost_proof.index
        conflict == Current[index] # EMPTY
    IN  versions[t][index] = EMPTY /\ index <= next =>
          /\ call.res = IF conflict /\ next = 2^MAX_DEPTH THEN "TreeFull" ELSE "Ok"
          /\ call.res = "Ok" =>
               get_change_log(call.roll).index = IF conflict THEN next ELSE index

-----------------------------------------------------------------------------

\* The leaves that the current root commits to.
CommittedLeaves ==
  IF Initialized
  THEN [i \in LeafIndices |-> LeafOf(get_change_log(roll).root, i)]
  ELSE EmptyLeaves

Array == INSTANCE LeafArray WITH
           Size <- 2^MAX_DEPTH, Node <- Nodes, Empty <- EMPTY,
           leaves <- CommittedLeaves, next <- roll.rightmost_proof.index

\* The root and the rightmost index are an array of leaves: every call that
\* succeeds, whatever the age of its proof, writes one leaf and no other.
ImplementsLeafArray == Array!ArraySpec
=============================================================================
