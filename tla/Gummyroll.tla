------------------------------ MODULE Gummyroll ------------------------------
(***************************************************************************)
(* contracts/programs/gummyroll: the on-chain program around one merkle    *)
(* roll.  An account holds a header with two authorities, the roll and a   *)
(* canopy, the top levels of the current tree, from which the nodes that   *)
(* clients leave out of their proofs are taken.  Every write emits its     *)
(* change log for indexers.  An instruction that returns an error or       *)
(* panics is rolled back by the runtime as a whole.                        *)
(***************************************************************************)
EXTENDS MerkleRoll

CONSTANTS CANOPY_DEPTH,   \* levels below the root that the canopy holds
          Key,            \* public keys that sign
          DefaultKey      \* Pubkey::default(), the bytes of a zeroed header

\* get_cached_path_length accepts canopies of 2^(n+1) - 2 nodes, n <= max_depth.
ASSUME CanopyAssumption == CANOPY_DEPTH \in 0..MAX_DEPTH
ASSUME KeyAssumption == DefaultKey \notin Key

VARIABLES header,   \* authority and append_authority
          canopy,   \* node index -> node; index 1 is the root, which is not held
          events    \* the ChangeLogEvents emitted, in order

gummyrollVars == <<roll, versions, header, canopy, events>>

CanopyIndices == 2 .. 2^(CANOPY_DEPTH + 1) - 1

\* u32 indices that instructions are called with: those of the leaves, and
\* one past the last leaf.
IndexArgs == 0 .. 2^MAX_DEPTH

\* Mutant: the leaf index is not shifted to the node's level.
NodeIndex_Unshifted(index, lvl) == 2^(MAX_DEPTH - lvl) + (index % 2^(MAX_DEPTH - lvl))

\* Index of the node at level lvl over the leaf at index, the root having 1.
NodeIndex(index, lvl) == 2^(MAX_DEPTH - lvl) + index \div 2^lvl

\* The levels whose nodes the canopy holds.
CanopyLevels == MAX_DEPTH - CANOPY_DEPTH .. MAX_DEPTH - 1

ChangeLogEvent(r) ==
  LET log == get_change_log(r)
  IN  [seq   |-> r.sequence_number,
       index |-> log.index,
       path  |-> [lvl \in 0..MAX_DEPTH |->
                    IF lvl = MAX_DEPTH THEN [node |-> log.root, index |-> 1]
                    ELSE [node |-> log.path[lvl], index |-> NodeIndex(log.index, lvl)]]]

\* Mutant: the root is not skipped, so the lowest canopy level is never reached.
update_canopy_RootNotSkipped(c, event) ==
  [i \in CanopyIndices |->
     IF \E lvl \in CanopyLevels \ {MAX_DEPTH - CANOPY_DEPTH} : event.path[lvl].index = i
     THEN event.path[CHOOSE lvl \in CanopyLevels : event.path[lvl].index = i].node
     ELSE c[i]]

update_canopy(c, event) ==
  [i \in CanopyIndices |->
     IF \E lvl \in CanopyLevels : event.path[lvl].index = i
     THEN event.path[CHOOSE lvl \in CanopyLevels : event.path[lvl].index = i].node
     ELSE c[i]]

\* Mutant: the node on the path itself instead of the one beside it.
CachedIndex_NotSibling(index, lvl) == NodeIndex(index, lvl)

\* Index of the canopy node that the proof of the leaf at index needs at lvl.
CachedIndex(index, lvl) == Sibling(NodeIndex(index, lvl))

\* Mutant: an index past the last leaf goes unnoticed.
OutOfCanopy_Never(index) == FALSE

\* The canopy lookup runs out of bounds: `canopy[cached_idx]` panics.
OutOfCanopy(index) == index >= 2^MAX_DEPTH

\* A canopy node that was never written stands for an empty subtree, and is
\* set to its hash when it is first read.
CanopyAfterRead(c, index) ==
  [i \in CanopyIndices |->
     IF c[i] = EMPTY /\ \E lvl \in CanopyLevels : CachedIndex(index, lvl) = i
     THEN empty_node[CHOOSE lvl \in CanopyLevels : CachedIndex(index, lvl) = i]
     ELSE c[i]]

fill_in_proof_from_canopy(c, index, proof) ==
  proof \o [n \in 1..CANOPY_DEPTH |->
              CanopyAfterRead(c, index)[CachedIndex(index, MAX_DEPTH - CANOPY_DEPTH + n - 1)]]

\* The proof a method is called with: m nodes that the client read in version t
\* of the off-chain tree, then those of the canopy.
FullProof(t, index, m) ==
  fill_in_proof_from_canopy(canopy, index, ProofVec(t, index % 2^MAX_DEPTH, m))

\* A method given too long a proof panics when it copies it.
ProofFits(m) == m + CANOPY_DEPTH <= MAX_DEPTH

-----------------------------------------------------------------------------

GummyrollInit ==
  /\ Init
  /\ header = [authority |-> DefaultKey, append_authority |-> DefaultKey]
  /\ canopy = [i \in CanopyIndices |-> EMPTY]
  /\ events = <<>>

\* merkle_roll_apply_fn: the method's outcome on the roll, the event emitted and
\* the canopy, c after the proof was completed from it, updated with the event.
Applies(outcome, c) ==
  IF outcome.res = "Ok"
  THEN /\ Len(versions) < MaxVersions
       /\ Returns(outcome)
       /\ events' = Append(events, ChangeLogEvent(outcome.roll))
       /\ canopy' = update_canopy(c, ChangeLogEvent(outcome.roll))
  ELSE UNCHANGED <<roll, versions, events, canopy>>

\* MerkleRollHeader::initialize asserts that the header is zeroed, as it is
\* until the roll behind it is initialized.
InitializeHeader(authority, append_authority) ==
  /\ ~Initialized
  /\ header' = [authority |-> authority, append_authority |-> append_authority]

init_empty_gummyroll(authority, append_authority) ==
  /\ InitializeHeader(authority, append_authority)
  /\ Initialize
  /\ events' = <<ChangeLogEvent(roll')>>
  /\ UNCHANGED canopy

init_gummyroll_with_root(authority, append_authority, n, leaves, leaf) ==
  LET proof == SubSeq(get_proof_of_leaf(leaves, n-1), 1, MAX_DEPTH - CANOPY_DEPTH)
      outcome == initialize_with_root(roll, build_root(leaves), leaf,
                   fill_in_proof_from_canopy(canopy, n-1, proof), n-1)
      event == ChangeLogEvent(outcome.roll)
  IN  /\ outcome.res = "Ok"
      /\ InitializeHeader(authority, append_authority)
      /\ roll' = outcome.roll
      /\ versions' = <<leaves>>
      /\ events' = <<event>>
      /\ canopy' = update_canopy(CanopyAfterRead(canopy, n-1), event)

replace_leaf(authority, t, previous_leaf, new_leaf, index, m) ==
  /\ header.authority = authority
  /\ ~OutOfCanopy(index) /\ ProofFits(m)
  /\ Applies(set_leaf(roll, build_root(versions[t]), previous_leaf, new_leaf,
                      FullProof(t, index, m), index),
             CanopyAfterRead(canopy, index))
  /\ UNCHANGED header

insert_or_append(authority, t, leaf, index, m) ==
  /\ header.authority = authority
  /\ ~OutOfCanopy(index) /\ ProofFits(m)
  /\ Applies(fill_empty_or_append(roll, build_root(versions[t]), leaf,
                                  FullProof(t, index, m), index),
             CanopyAfterRead(canopy, index))
  /\ UNCHANGED header

append_leaf(authority, append_authority, leaf) ==
  /\ header.authority = authority
  /\ header.append_authority = append_authority
  /\ Applies(append(roll, leaf), canopy)
  /\ UNCHANGED header

\* An Option<Pubkey>: the empty set is None, which keeps the authority.
OptionKey == {{}} \cup {{k} : k \in Key \cup {DefaultKey}}

Unless(option, key) == IF option = {} THEN key ELSE CHOOSE k \in option : TRUE

\* The default key never signs, so an authority moved there is gone for good.
transfer_authority(authority, new_authority, new_append_authority) ==
  /\ header.authority = authority
  /\ header' = [authority        |-> Unless(new_authority, header.authority),
                append_authority |-> Unless(new_append_authority, header.append_authority)]
  /\ UNCHANGED <<roll, versions, canopy, events>>

\* Completing the proof writes to the canopy although VerifyLeaf does not mark
\* the account mutable: only a caller who passes it as writable gets through.
verify_leaf(writable, t, leaf, index, m) ==
  /\ Initialized
  /\ ~OutOfCanopy(index) /\ ProofFits(m)
  /\ prove_leaf(roll, build_root(versions[t]), leaf, FullProof(t, index, m), index).res = "Ok"
  /\ writable \/ CanopyAfterRead(canopy, index) = canopy
  /\ canopy' = CanopyAfterRead(canopy, index)
  /\ UNCHANGED <<roll, versions, header, events>>

GummyrollNext ==
  \/ \E authority \in Key, append_authority \in Key :
       \/ init_empty_gummyroll(authority, append_authority)
       \/ \E n \in Prefills, leaf \in LeafNodes : \E leaves \in Prefilled(n) :
            init_gummyroll_with_root(authority, append_authority, n, leaves, leaf)
       \/ \E leaf \in Nodes : append_leaf(authority, append_authority, leaf)
  \/ \E authority \in Key, new_authority, new_append_authority \in OptionKey :
       transfer_authority(authority, new_authority, new_append_authority)
  \/ \E t \in 1..Len(versions), index \in IndexArgs, leaf \in Nodes, m \in 0..MAX_DEPTH :
       \/ \E authority \in Key :
            \/ \E new_leaf \in Nodes : replace_leaf(authority, t, leaf, new_leaf, index, m)
            \/ insert_or_append(authority, t, leaf, index, m)
       \/ \E writable \in BOOLEAN : verify_leaf(writable, t, leaf, index, m)

GummyrollSpec == GummyrollInit /\ [][GummyrollNext]_gummyrollVars

-----------------------------------------------------------------------------

\* Fields have their ranges; in particular no change log has an index outside
\* the tree, which set_leaf alone would allow on a full tree.
GummyrollTypeOK ==
  /\ TypeOK
  /\ header \in [authority : Key \cup {DefaultKey}, append_authority : Key \cup {DefaultKey}]
  /\ DOMAIN canopy = CanopyIndices

\* The canopy is the top of the current tree: what it holds for a subtree is
\* the subtree's hash, or EMPTY if the subtree is empty.
CanopyIsCurrent ==
  Initialized =>
    \A lvl \in CanopyLevels : \A p \in 0 .. 2^(MAX_DEPTH - lvl) - 1 :
      LET held == canopy[2^(MAX_DEPTH - lvl) + p]
          node == MerkleTree(Current)[lvl][p]
      IN  held = node \/ (held = EMPTY /\ node = empty_node[lvl])

\* "Concurrency limit represents the # of replace instructions that can be
\* successfully executed with proofs dated for the same root": the lower part of
\* a proof up to MAX_BUFFER_SIZE - 1 updates old, completed with nodes that the
\* canopy holds now, decides the replace by the leaf that is now in the tree.
CanopyProofsDecide ==
  \A t \in LiveVersions, index \in LeafIndices, previous_leaf \in Nodes :
    index <= roll.rightmost_proof.index =>
      LET call == set_leaf(roll, build_root(versions[t]), previous_leaf, EMPTY,
                           FullProof(t, index, MAX_DEPTH - CANOPY_DEPTH), index)
      IN  call.res = "Ok" <=> previous_leaf = Current[index]

\* The node that an indexer holds at a node index after the first n events:
\* that of the last event with this index on its path.
Indexed(i, n) ==
  LET seen == {e \in 1..n : \E lvl \in 0..MAX_DEPTH : events[e].path[lvl].index = i}
      last == CHOOSE e \in seen : \A f \in seen : f <= e
      lvl  == CHOOSE l \in 0..MAX_DEPTH : events[last].path[l].index = i
  IN  IF seen = {} THEN EMPTY ELSE events[last].path[lvl].node

\* An indexer that sees every event, and takes a node it never saw for an empty
\* subtree, holds the whole current tree, and a gap in the sequence numbers is
\* exactly a missed event.
EventsRebuildTree ==
  Initialized =>
    /\ \A lvl \in 0..MAX_DEPTH : \A p \in 0 .. 2^(MAX_DEPTH - lvl) - 1 :
         LET held == Indexed(2^(MAX_DEPTH - lvl) + p, Len(events))
             node == MerkleTree(Current)[lvl][p]
         IN  held = node \/ (held = EMPTY /\ node = empty_node[lvl])
    /\ \A e \in 2..Len(events) : events[e].seq = events[e-1].seq + 1
=============================================================================
