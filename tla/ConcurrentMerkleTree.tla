------------------------ MODULE ConcurrentMerkleTree ------------------------
(***************************************************************************)
(* lib/concurrent-merkle-tree: ChangeLog (state.rs) and the methods of     *)
(* MerkleRoll (merkle_roll.rs) as operators from a roll to an outcome      *)
(* [res, roll].  res is "Ok", the CMTError returned, or "Panic" where an   *)
(* assert or a checked subtraction aborts the call.  Every error is        *)
(* returned before the roll is written, and a panic aborts the transaction *)
(* that made the call, so in both cases the roll is the one before it.     *)
(***************************************************************************)
EXTENDS MerkleNodes

CONSTANT MAX_BUFFER_SIZE   \* change logs kept

\* check_bounds: the buffer size is a power of two, so `& mask` is a modulo.
ASSUME BufferAssumption == MAX_BUFFER_SIZE \in Nat \ {0}
ASSUME PowerOfTwoAssumption == \E k \in 0..30 : MAX_BUFFER_SIZE = 2^k

Slots == 0 .. MAX_BUFFER_SIZE - 1

Outcome(res, roll) == [res |-> res, roll |-> roll]

DefaultChangeLog ==
  [root |-> EMPTY, path |-> [k \in Levels |-> EMPTY], index |-> 0]

DefaultPath == [proof |-> [k \in Levels |-> EMPTY], leaf |-> EMPTY, index |-> 0]

new ==
  [ sequence_number |-> 0,
    active_index    |-> 0,
    buffer_size     |-> 0,
    change_logs     |-> [j \in Slots |-> DefaultChangeLog],
    rightmost_proof |-> DefaultPath ]

get_change_log(r) == r.change_logs[r.active_index]

initialize(r) ==
  LET empties == [k \in Levels |-> empty_node[k]]
  IN  [r EXCEPT !.change_logs[0].root = empty_node[MAX_DEPTH],
                !.change_logs[0].path = empties,
                !.sequence_number = 0,
                !.active_index = 0,
                !.buffer_size = 1,
                !.rightmost_proof = [DefaultPath EXCEPT !.proof = empties]]

\* Mutant: the rightmost index is that of the last leaf, not the one after it.
initialize_with_root_OffByOne(r, root, rightmost_leaf, proof_vec, index) ==
  Outcome("Ok", [r EXCEPT !.change_logs[0].root = root,
                          !.sequence_number = 1,
                          !.active_index = 0,
                          !.buffer_size = 1,
                          !.rightmost_proof = [proof |-> [k \in Levels |-> proof_vec[k+1]],
                                               leaf  |-> rightmost_leaf,
                                               index |-> index]])

initialize_with_root(r, root, rightmost_leaf, proof_vec, index) ==
  LET proof == [k \in Levels |-> proof_vec[k+1]]
  IN  IF root = recompute(rightmost_leaf, proof, index)
      THEN Outcome("Ok",
             [r EXCEPT !.change_logs[0].root = root,
                       !.sequence_number = 1,
                       !.active_index = 0,
                       !.buffer_size = 1,
                       !.rightmost_proof = [proof |-> proof,
                                            leaf  |-> rightmost_leaf,
                                            index |-> index + 1]])
      ELSE Outcome("Panic", r)

-----------------------------------------------------------------------------
(* ChangeLog *)

\* A leaf written at index: the nodes on its way up, the root above them.
ChangeLog(index, node, proof, left) ==
  LET nodes == Climb(node, proof, left)
  IN  [root  |-> nodes[MAX_DEPTH],
       path  |-> [k \in Levels |-> IF k = 0 THEN node ELSE nodes[k]],
       index |-> index]

replace_and_recompute_path(index, node, proof) == ChangeLog(index, node, proof, IsLeft(index))

get_leaf(log) == log.path[0]

DifferingLevels(i, j) == {k \in Levels : Bit(i, k) # Bit(j, k)}

\* Mutant: the lowest level at which the indices differ.
CritbitIndex_Lowest(i, j) ==
  CHOOSE k \in DifferingLevels(i, j) : \A m \in DifferingLevels(i, j) : k <= m

\* The highest level at which the paths of i and j are still apart.
CritbitIndex(i, j) ==
  CHOOSE k \in DifferingLevels(i, j) : \A m \in DifferingLevels(i, j) : m <= k

\* Indices that differ only above the tree: the critbit subtraction underflows.
CritbitUnderflows(i, j) == i # j /\ DifferingLevels(i, j) = {}

\* lp is a leaf and its proof, both of them brought past the change log.
update_proof_or_leaf(log, leaf_index, lp) ==
  IF leaf_index # log.index
  THEN LET critbit_index == CritbitIndex(leaf_index, log.index)
       IN  [lp EXCEPT !.proof[critbit_index] = log.path[critbit_index]]
  ELSE [lp EXCEPT !.leaf = get_leaf(log)]

-----------------------------------------------------------------------------
(* Bringing a proof up to date *)

\* Mutant: the active slot itself is skipped.
SlotBefore_OffByOne(j, n) == (j + 2 * MAX_BUFFER_SIZE - n - 1) % MAX_BUFFER_SIZE

\* The slot n places before slot j (wrapping_sub, then & mask).
SlotBefore(j, n) == (j + MAX_BUFFER_SIZE - n) % MAX_BUFFER_SIZE

SlotAfter(j, n) == (j + n) % MAX_BUFFER_SIZE

\* How far back the slots holding current_root are, among the live ones.
AgesOfRoot(r, current_root) ==
  {n \in 0 .. r.buffer_size - 1 :
     r.change_logs[SlotBefore(r.active_index, n)].root = current_root}

\* Mutant: a root that was found counts as the current one.
find_root_in_changelog_Active(r, current_root) == r.active_index

\* The slot of the most recent change log with that root.
find_root_in_changelog(r, current_root) ==
  SlotBefore(r.active_index,
             CHOOSE n \in AgesOfRoot(r, current_root) :
                \A m \in AgesOfRoot(r, current_root) : n <= m)

RootFound(r, current_root) == AgesOfRoot(r, current_root) # {}

\* Where the replay starts: behind the root's own change log, or behind the
\* oldest live one when the root is no longer (or never was) in the buffer.
ReplayStart(r, current_root) ==
  IF RootFound(r, current_root)
  THEN find_root_in_changelog(r, current_root)
  ELSE SlotBefore(r.active_index, r.buffer_size - 1)

\* Mutant: the replay stops before the active change log.
ReplayedLogs_Short(r, current_root) ==
  LET start    == ReplayStart(r, current_root)
      distance == SlotBefore(r.active_index, start)
      steps    == IF distance = 0 THEN 0 ELSE distance - 1
  IN  [n \in 1..steps |-> r.change_logs[SlotAfter(start, n)]]

\* The change logs that the loop of fast_forward_proof visits, in order: up to
\* the active one, and once around when a full replay starts at the active one.
ReplayedLogs(r, current_root) ==
  LET start    == ReplayStart(r, current_root)
      distance == SlotBefore(r.active_index, start)
      steps    == IF ~RootFound(r, current_root) /\ distance = 0
                  THEN MAX_BUFFER_SIZE ELSE distance
  IN  [n \in 1..steps |-> r.change_logs[SlotAfter(start, n)]]

\* The leaf and its proof as the given change logs leave them.
fast_forward_proof(logs, leaf, proof, leaf_index) ==
  LET after[n \in 0..Len(logs)] ==
        IF n = 0 THEN [leaf |-> leaf, proof |-> proof]
        ELSE update_proof_or_leaf(logs[n], leaf_index, after[n-1])
  IN  after[Len(logs)]

\* Mutant: a root found in the buffer is trusted without recomputing the root.
check_valid_leaf_NoRecompute(r, current_root, leaf, proof, leaf_index, allow_inferred_proof) ==
  LET ff == fast_forward_proof(ReplayedLogs(r, current_root), leaf, proof, leaf_index)
  IN  IF ~RootFound(r, current_root) /\ ~allow_inferred_proof THEN "RootNotFound"
      ELSE IF ff.leaf # leaf THEN "LeafContentsModified" ELSE "Ok"

\* The verdict on a leaf and its proof against the current root.
check_valid_leaf(r, current_root, leaf, proof, leaf_index, allow_inferred_proof) ==
  LET logs == ReplayedLogs(r, current_root)
      ff   == fast_forward_proof(logs, leaf, proof, leaf_index)
  IN  IF ~RootFound(r, current_root) /\ ~allow_inferred_proof THEN "RootNotFound"
      ELSE IF \E n \in DOMAIN logs : CritbitUnderflows(leaf_index, logs[n].index)
      THEN "Panic"
      ELSE IF ff.leaf # leaf THEN "LeafContentsModified"
      ELSE IF recompute(ff.leaf, ff.proof, leaf_index) # get_change_log(r).root
      THEN "InvalidProof"
      ELSE "Ok"

-----------------------------------------------------------------------------
(* Writing *)

\* Mutant: the number of live change logs is not capped.
update_internal_counters_Uncapped(r) ==
  [r EXCEPT !.active_index = SlotAfter(r.active_index, 1),
            !.buffer_size = @ + 1,
            !.sequence_number = @ + 1]

update_internal_counters(r) ==
  [r EXCEPT !.active_index = SlotAfter(r.active_index, 1),
            !.buffer_size = IF @ < MAX_BUFFER_SIZE THEN @ + 1 ELSE @,
            !.sequence_number = @ + 1]

\* Mutant: a write left of the rightmost leaf does not reach its proof.
RightmostAfter_NotUpdated(rightmost, log, proof) ==
  IF log.index < rightmost.index THEN rightmost
  ELSE [proof |-> [k \in Levels |-> proof[k]],
        leaf  |-> get_leaf(log),
        index |-> log.index + 1]

\* The rightmost path after the write of log, while the tree is not full.
RightmostAfter(rightmost, log, proof) ==
  IF log.index < rightmost.index
  THEN LET lp == update_proof_or_leaf(log, rightmost.index - 1,
                   [leaf |-> rightmost.leaf, proof |-> rightmost.proof])
       IN  [rightmost EXCEPT !.leaf = lp.leaf, !.proof = lp.proof]
  ELSE [proof |-> [k \in Levels |-> proof[k]],
        leaf  |-> get_leaf(log),
        index |-> log.index + 1]

update_buffers_from_proof(r, start, proof, index) ==
  LET log == replace_and_recompute_path(index, start, proof)
      written == [r EXCEPT !.change_logs[r.active_index] = log]
  IN  IF r.rightmost_proof.index < 2^MAX_DEPTH
      THEN [written EXCEPT !.rightmost_proof = RightmostAfter(@, log, proof)]
      ELSE written

try_apply_proof(r, current_root, leaf, new_leaf, proof, leaf_index, allow_inferred_proof) ==
  LET verdict == check_valid_leaf(r, current_root, leaf, proof, leaf_index,
                                  allow_inferred_proof)
      ff == fast_forward_proof(ReplayedLogs(r, current_root), leaf, proof, leaf_index)
      \* assert!(index == self.rightmost_proof.index) in update_buffers_from_proof
      past_the_end == /\ r.rightmost_proof.index < 2^MAX_DEPTH
                      /\ leaf_index > r.rightmost_proof.index
  IN  IF verdict # "Ok" THEN Outcome(verdict, r)
      ELSE IF past_the_end THEN Outcome("Panic", r)
      ELSE Outcome("Ok", update_buffers_from_proof(update_internal_counters(r),
                                                   new_leaf, ff.proof, leaf_index))

set_leaf(r, current_root, previous_leaf, new_leaf, proof_vec, index) ==
  IF index > r.rightmost_proof.index
  THEN Outcome("LeafIndexOutOfBounds", r)
  ELSE try_apply_proof(r, current_root, previous_leaf, new_leaf,
                       fill_in_proof(proof_vec), index, TRUE)

prove_leaf(r, current_root, leaf, proof_vec, leaf_index) ==
  IF leaf_index > r.rightmost_proof.index
  THEN Outcome("LeafIndexOutOfBounds", r)
  ELSE Outcome(check_valid_leaf(r, current_root, leaf, fill_in_proof(proof_vec),
                                leaf_index, TRUE), r)

initialize_tree_from_append(r, leaf, proof) ==
  LET old_root == recompute(EMPTY, proof, 0)
  IN  IF old_root = empty_node[MAX_DEPTH]
      THEN try_apply_proof(r, old_root, EMPTY, leaf, proof, 0, FALSE)
      ELSE Outcome("TreeAlreadyInitialized", r)

\* Mutant: the appended leaf always meets the tree at the lowest level.
trailing_zeros_Zero(i) == 0

\* The lowest bit that is set in i, for i > 0.
trailing_zeros(i) == CHOOSE k \in 0..31 : Bit(i, k) = 1 /\ \A m \in 0..k-1 : Bit(i, m) = 0

\* The rightmost path is moved one leaf to the right without any proof given:
\* below the intersection the new leaf's siblings are empty, at it the sibling
\* is the subtree that was just completed, above it nothing changes.
AppendedAt(r, node) ==
  LET rm == r.rightmost_proof
      intersection == trailing_zeros(rm.index)
      intersection_node == Climb(rm.leaf, rm.proof, IsLeft(rm.index - 1))[intersection]
      proof == [k \in Levels |-> CASE k < intersection -> empty_node[k]
                                   [] k = intersection -> intersection_node
                                   [] OTHER -> rm.proof[k]]
      left == [k \in Levels |-> \/ k < intersection
                                \/ k > intersection /\ IsLeft(rm.index - 1)[k]]
      counted == update_internal_counters(r)
  IN  [counted EXCEPT
         !.change_logs[counted.active_index] = ChangeLog(rm.index, node, proof, left),
         !.rightmost_proof = [proof |-> proof, leaf |-> node, index |-> rm.index + 1]]

append(r, node) ==
  IF node = EMPTY THEN Outcome("CannotAppendEmptyNode", r)
  ELSE IF r.rightmost_proof.index >= 2^MAX_DEPTH THEN Outcome("TreeFull", r)
  ELSE IF r.rightmost_proof.index = 0
  THEN initialize_tree_from_append(r, node, r.rightmost_proof.proof)
  ELSE Outcome("Ok", AppendedAt(r, node))

\* Mutant: a conflict is reported instead of turned into an append.
fill_empty_or_append_NoAppend(r, current_root, leaf, proof_vec, index) ==
  try_apply_proof(r, current_root, EMPTY, leaf, fill_in_proof(proof_vec), index, FALSE)

fill_empty_or_append(r, current_root, leaf, proof_vec, index) ==
  LET tried == try_apply_proof(r, current_root, EMPTY, leaf,
                               fill_in_proof(proof_vec), index, FALSE)
  IN  IF tried.res = "LeafContentsModified" THEN append(r, leaf) ELSE tried
=============================================================================
