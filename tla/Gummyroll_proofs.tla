--------------------------- MODULE Gummyroll_proofs ---------------------------
(***************************************************************************)
(* For every depth, buffer, canopy and set of keys: the instructions of    *)
(* the program keep what the roll promises on its own, whatever proofs and *)
(* canopy nodes they are given; the canopy stays the top of the tree; and  *)
(* the events are enough to rebuild the tree.                              *)
(***************************************************************************)
EXTENDS Gummyroll, MerkleRoll_proofs

HeaderOK ==
  header \in [authority : Key \cup {DefaultKey}, append_authority : Key \cup {DefaultKey}]

CanopyOK == DOMAIN canopy = CanopyIndices

GInv == IInv /\ HeaderOK /\ CanopyOK

\* A method applied to the roll, given what it does to a roll.
LEMMA AppliesGInv ==
  ASSUME GInv, Initialized, NEW outcome, NEW c, Effect(roll, outcome), Applies(outcome, c)
  PROVE  IInv' /\ CanopyOK'
<1>1. CASE outcome.res = "Ok"
  <2>1. Returns(outcome) /\ canopy' = update_canopy(c, ChangeLogEvent(outcome.roll))
    BY <1>1 DEF Applies
  <2>2. IInv'
    BY <2>1, ReturnsIInv DEF GInv
  <2> QED
    BY <2>1, <2>2 DEF CanopyOK, update_canopy
<1>2. CASE outcome.res # "Ok"
  <2>1. UNCHANGED <<roll, versions, canopy>>
    BY <1>2 DEF Applies
  <2> QED
    BY <2>1 DEF GInv, CanopyOK, IInv, TypeOK, LiveCount, LogsReplayHistory, LiveVersions,
                LogOfVersion
<1> QED
  BY <1>1, <1>2

\* The default key never signs, so an authority that signs belongs to a header
\* that was initialized together with the roll.
HeaderFollowsRoll == header.authority # DefaultKey => Initialized

\* No instruction un-initializes a roll.
LEMMA StaysInitialized ==
  ASSUME GInv, Initialized, NEW outcome, NEW c, Effect(roll, outcome), Applies(outcome, c)
  PROVE  Initialized'
<1>1. roll.buffer_size \in Nat /\ roll.buffer_size > 0
  BY BufferAssumption DEF GInv, IInv, TypeOK, RollOK, Initialized
<1> QED
  BY <1>1 DEF Applies, Returns, Effect, Advances, Initialized

GInvAll == GInv /\ HeaderFollowsRoll

\* The zeroed account.
LEMMA InitGInv == GummyrollInit => GInvAll
BY InitIInv DEF GummyrollInit, GInvAll, GInv, HeaderOK, CanopyOK, HeaderFollowsRoll

\* Every instruction keeps the invariant.
LEMMA NextGInv == GInvAll /\ [GummyrollNext]_gummyrollVars => GInvAll'
<1> SUFFICES ASSUME GInvAll, [GummyrollNext]_gummyrollVars PROVE GInvAll'
  OBVIOUS
<1>0. /\ GInv /\ IInv /\ RollOK(roll) /\ HeaderOK /\ CanopyOK
      /\ \A k \in Key : header.authority = k => Initialized
  BY KeyAssumption DEF GInvAll, GInv, IInv, TypeOK, HeaderFollowsRoll
<1>1. ASSUME NEW authority \in Key, NEW append_authority \in Key,
             init_empty_gummyroll(authority, append_authority)
      PROVE  GInvAll'
  <2>1. Initialize /\ header' = [authority |-> authority, append_authority |-> append_authority]
        /\ UNCHANGED canopy
    BY <1>1 DEF init_empty_gummyroll, InitializeHeader
  <2>2. IInv'
    BY <1>0, <2>1, NextIInv DEF Next
  <2>3. Initialized'
    BY <1>0, <2>1, InitializeOK DEF Initialize, Initialized
  <2> QED
    BY <1>0, <2>1, <2>2, <2>3 DEF GInvAll, GInv, HeaderOK, CanopyOK, HeaderFollowsRoll
<1>2. ASSUME NEW authority \in Key, NEW append_authority \in Key, NEW n \in Prefills,
             NEW leaf \in LeafNodes, NEW leaves \in Prefilled(n),
             init_gummyroll_with_root(authority, append_authority, n, leaves, leaf)
      PROVE  GInvAll'
  <2> DEFINE proof == fill_in_proof_from_canopy(canopy, n-1,
                        SubSeq(get_proof_of_leaf(leaves, n-1), 1, MAX_DEPTH - CANOPY_DEPTH))
             o == initialize_with_root(roll, build_root(leaves), leaf, proof, n-1)
  <2>1. /\ o.res = "Ok" /\ roll' = o.roll /\ versions' = <<leaves>>
        /\ header' = [authority |-> authority, append_authority |-> append_authority]
        /\ canopy' = update_canopy(CanopyAfterRead(canopy, n-1), ChangeLogEvent(o.roll))
    BY <1>2 DEF init_gummyroll_with_root, InitializeHeader
  <2>2. n - 1 \in LeafIndices
    BY BoundsAssumption, Capacity DEF LeafIndices
  <2>3. RollOK(roll') /\ roll'.buffer_size = 1
    BY <1>0, <2>1, <2>2, InitializeWithRootOK
  <2>4. leaves \in [LeafIndices -> Nodes]
    BY DEF Prefilled
  <2>5. IInv'
    BY <2>1, <2>3, <2>4, StartIInv
  <2>6. HeaderOK' /\ CanopyOK' /\ Initialized'
    BY <2>1, <2>3 DEF HeaderOK, CanopyOK, update_canopy, Initialized
  <2> QED
    BY <2>5, <2>6 DEF GInvAll, GInv, HeaderFollowsRoll
<1>3. ASSUME NEW outcome, NEW c, Effect(roll, outcome), Initialized, Applies(outcome, c),
             UNCHANGED header
      PROVE  GInvAll'
  <2>1. IInv' /\ CanopyOK' /\ Initialized'
    BY <1>0, <1>3, AppliesGInv, StaysInitialized
  <2> QED
    BY <1>0, <1>3, <2>1 DEF GInvAll, GInv, HeaderOK, HeaderFollowsRoll
<1>4. ASSUME NEW authority \in Key, NEW append_authority \in Key, NEW leaf \in Nodes,
             append_leaf(authority, append_authority, leaf)
      PROVE  GInvAll'
  BY <1>0, <1>3, <1>4, AppendEffect DEF append_leaf
<1>5. ASSUME NEW index \in IndexArgs, ~OutOfCanopy(index)
      PROVE  index \in LeafIndices
  BY <1>5, Capacity DEF IndexArgs, OutOfCanopy, LeafIndices
<1>6. ASSUME NEW authority \in Key, NEW t, NEW leaf, NEW new_leaf \in Nodes,
             NEW index \in IndexArgs, NEW m,
             replace_leaf(authority, t, leaf, new_leaf, index, m)
      PROVE  GInvAll'
  <2>1. /\ index \in LeafIndices /\ Initialized /\ UNCHANGED header
        /\ Applies(set_leaf(roll, build_root(versions[t]), leaf, new_leaf,
                            FullProof(t, index, m), index), CanopyAfterRead(canopy, index))
    BY <1>0, <1>5, <1>6 DEF replace_leaf
  <2> QED
    BY <1>0, <1>3, <2>1, SetLeafEffect
<1>7. ASSUME NEW authority \in Key, NEW t, NEW leaf \in Nodes, NEW index \in IndexArgs, NEW m,
             insert_or_append(authority, t, leaf, index, m)
      PROVE  GInvAll'
  <2>1. /\ index \in LeafIndices /\ Initialized /\ UNCHANGED header
        /\ Applies(fill_empty_or_append(roll, build_root(versions[t]), leaf,
                                        FullProof(t, index, m), index),
                   CanopyAfterRead(canopy, index))
    BY <1>0, <1>5, <1>7 DEF insert_or_append
  <2> QED
    BY <1>0, <1>3, <2>1, FillEffect
<1>8. ASSUME UNCHANGED <<roll, versions>>, HeaderOK', CanopyOK',
             header'.authority # DefaultKey => Initialized
      PROVE  GInvAll'
  BY <1>0, <1>8
     DEF GInvAll, GInv, IInv, TypeOK, LiveCount, LogsReplayHistory, LiveVersions,
         LogOfVersion, HeaderFollowsRoll, Initialized
<1>9. ASSUME NEW authority \in Key, NEW new_authority \in OptionKey,
             NEW new_append_authority \in OptionKey,
             transfer_authority(authority, new_authority, new_append_authority)
      PROVE  GInvAll'
  <2>1. \A k \in Key \cup {DefaultKey}, o \in OptionKey : Unless(o, k) \in Key \cup {DefaultKey}
    BY DEF OptionKey, Unless
  <2>2. /\ Initialized /\ UNCHANGED <<roll, versions, canopy>>
        /\ header' = [authority        |-> Unless(new_authority, header.authority),
                      append_authority |-> Unless(new_append_authority,
                                                  header.append_authority)]
    BY <1>0, <1>9 DEF transfer_authority
  <2>3. HeaderOK' /\ CanopyOK'
    BY <1>0, <2>1, <2>2 DEF HeaderOK, CanopyOK
  <2> QED
    BY <1>8, <2>2, <2>3
<1>10. ASSUME NEW writable \in BOOLEAN, NEW t, NEW leaf, NEW index, NEW m,
              verify_leaf(writable, t, leaf, index, m)
       PROVE  GInvAll'
  <2>1. /\ Initialized /\ UNCHANGED <<roll, versions, header>>
        /\ canopy' = CanopyAfterRead(canopy, index)
    BY <1>10 DEF verify_leaf
  <2>2. HeaderOK' /\ CanopyOK'
    BY <1>0, <2>1 DEF HeaderOK, CanopyOK, CanopyAfterRead
  <2> QED
    BY <1>8, <2>1, <2>2
<1>11. CASE UNCHANGED gummyrollVars
  <2>1. UNCHANGED <<roll, versions, header, canopy>>
    BY <1>11 DEF gummyrollVars
  <2> QED
    BY <1>0, <1>8, <2>1 DEF HeaderOK, CanopyOK, GInvAll, HeaderFollowsRoll
<1> QED
  BY <1>1, <1>2, <1>4, <1>6, <1>7, <1>9, <1>10, <1>11 DEF GummyrollNext

\* Whatever the constants and the instructions sent, the account is well formed;
\* in particular every change log has an index inside the tree, which the canopy
\* lookup guarantees and set_leaf on its own does not.
THEOREM GummyrollTypeCorrect == GummyrollSpec => []GummyrollTypeOK
<1>1. GInvAll => GummyrollTypeOK
  BY DEF GInvAll, GInv, IInv, HeaderOK, CanopyOK, GummyrollTypeOK
<1> QED
  BY <1>1, InitGInv, NextGInv, PTL DEF GummyrollSpec

\* The instructions preserve what the roll promises on its own: its live change
\* logs replay the history of the tree.
THEOREM GummyrollReplaysHistory == GummyrollSpec => []LogsReplayHistory
<1>1. GInvAll => LogsReplayHistory
  BY DEF GInvAll, GInv, IInv
<1> QED
  BY <1>1, InitGInv, NextGInv, PTL DEF GummyrollSpec

-----------------------------------------------------------------------------
(* What an instruction does to the roll, the canopy and the events. *)

\* c is the canopy, after a proof may have been completed from it.
ReadFrom(c) == c = canopy \/ \E index \in LeafIndices : c = CanopyAfterRead(canopy, index)

\* An instruction that writes a leaf.
Wrote(outcome, c) ==
  /\ Initialized /\ ReadFrom(c)
  /\ outcome.res = "Ok" /\ Effect(roll, outcome) /\ Writes(roll, outcome.roll, Current)
  /\ Returns(outcome)
  /\ events' = Append(events, ChangeLogEvent(outcome.roll))
  /\ canopy' = update_canopy(c, ChangeLogEvent(outcome.roll))

\* One that only reads.
OnlyRead ==
  /\ Initialized
  /\ \E index \in LeafIndices : canopy' = CanopyAfterRead(canopy, index)
  /\ UNCHANGED <<roll, versions, events>>

\* The steps there are, but for those that leave the roll and all that follows
\* it alone.
GummyrollStep ==
  \/ \E authority, append_authority \in Key : init_empty_gummyroll(authority, append_authority)
  \/ \E authority, append_authority \in Key, n \in Prefills, leaf \in LeafNodes :
       \E leaves \in Prefilled(n) :
         init_gummyroll_with_root(authority, append_authority, n, leaves, leaf)
  \/ \E outcome, c : Wrote(outcome, c)
  \/ OnlyRead

\* A method applied, given what it writes.
LEMMA AppliesStep ==
  ASSUME Initialized, NEW outcome, NEW c, ReadFrom(c), Effect(roll, outcome), Applies(outcome, c),
         outcome.res = "Ok" => Writes(roll, outcome.roll, Current)
  PROVE  GummyrollStep \/ UNCHANGED <<roll, versions, events, canopy>>
<1>1. CASE outcome.res = "Ok"
  <2>1. Wrote(outcome, c)
    BY <1>1 DEF Applies, Wrote
  <2> QED
    BY <2>1 DEF GummyrollStep
<1> QED
  BY <1>1 DEF Applies

\* Every instruction is one of these steps.
LEMMA InstructionSteps ==
  ASSUME GInvAll, Hashed, [GummyrollNext]_gummyrollVars
  PROVE  GummyrollStep \/ UNCHANGED <<roll, versions, events, canopy>>
<1> DEFINE Goal == GummyrollStep \/ UNCHANGED <<roll, versions, events, canopy>>
<1>0. /\ RollOK(roll) /\ (Initialized => Matches(roll, Current))
      /\ \A k \in Key : header.authority = k => Initialized
  BY KeyAssumption DEF GInvAll, GInv, IInv, TypeOK, HeaderFollowsRoll, Hashed
<1>1. ASSUME NEW authority \in Key, NEW append_authority \in Key, NEW leaf \in Nodes,
             append_leaf(authority, append_authority, leaf)
      PROVE  Goal
  <2>1. Initialized /\ Applies(append(roll, leaf), canopy) /\ ReadFrom(canopy) /\ Matches(roll, Current)
    BY <1>0, <1>1 DEF append_leaf, ReadFrom
  <2>2. Effect(roll, append(roll, leaf))
    BY <1>0, AppendEffect
  <2>3. append(roll, leaf).res = "Ok" => Writes(roll, append(roll, leaf).roll, Current)
    BY <2>1, AppendWrites
  <2> QED
    BY <2>1, <2>2, <2>3, AppliesStep
<1>2. ASSUME NEW index \in IndexArgs, ~OutOfCanopy(index)
      PROVE  index \in LeafIndices /\ ReadFrom(CanopyAfterRead(canopy, index))
  <2>1. index \in LeafIndices
    BY <1>2, Capacity DEF IndexArgs, OutOfCanopy, LeafIndices
  <2> QED
    BY <2>1 DEF ReadFrom
<1>3. ASSUME NEW authority \in Key, NEW t \in 1..Len(versions), NEW leaf \in Nodes, NEW new_leaf \in Nodes,
             NEW index \in IndexArgs, NEW m \in 0..MAX_DEPTH,
             replace_leaf(authority, t, leaf, new_leaf, index, m)
      PROVE  Goal
  <2> DEFINE o == set_leaf(roll, build_root(versions[t]), leaf, new_leaf, FullProof(t, index, m), index)
             c == CanopyAfterRead(canopy, index)
  <2>1. index \in LeafIndices /\ Initialized /\ Applies(o, c) /\ ReadFrom(c) /\ Matches(roll, Current)
    BY <1>0, <1>2, <1>3 DEF replace_leaf
  <2>2. Effect(roll, o)
    BY <1>0, <2>1, SetLeafEffect
  <2>3. o.res = "Ok" => Writes(roll, o.roll, Current)
    BY <2>1, SetLeafWrites
  <2> QED
    BY <2>1, <2>2, <2>3, AppliesStep
<1>4. ASSUME NEW authority \in Key, NEW t \in 1..Len(versions), NEW leaf \in Nodes, NEW index \in IndexArgs,
             NEW m \in 0..MAX_DEPTH,
             insert_or_append(authority, t, leaf, index, m)
      PROVE  Goal
  <2> DEFINE o == fill_empty_or_append(roll, build_root(versions[t]), leaf, FullProof(t, index, m), index)
             c == CanopyAfterRead(canopy, index)
  <2>1. index \in LeafIndices /\ Initialized /\ Applies(o, c) /\ ReadFrom(c) /\ Matches(roll, Current)
    BY <1>0, <1>2, <1>4 DEF insert_or_append
  <2>2. Effect(roll, o)
    BY <1>0, <2>1, FillEffect
  <2>3. o.res = "Ok" => Writes(roll, o.roll, Current)
    BY <2>1, FillWrites
  <2> QED
    BY <2>1, <2>2, <2>3, AppliesStep
<1>5. ASSUME NEW authority \in Key, NEW new_authority \in OptionKey, NEW new_append_authority \in OptionKey,
             transfer_authority(authority, new_authority, new_append_authority)
      PROVE  Goal
  BY <1>5 DEF transfer_authority
<1>6. ASSUME NEW writable \in BOOLEAN, NEW t \in 1..Len(versions), NEW leaf \in Nodes, NEW index \in IndexArgs,
             NEW m \in 0..MAX_DEPTH,
             verify_leaf(writable, t, leaf, index, m)
      PROVE  Goal
  <2>1. index \in LeafIndices
    BY <1>2, <1>6 DEF verify_leaf
  <2> QED
    BY <1>6, <2>1 DEF verify_leaf, OnlyRead, GummyrollStep
<1>7. CASE UNCHANGED gummyrollVars
  BY <1>7 DEF gummyrollVars
<1>8. ASSUME NEW authority \in Key, NEW append_authority \in Key,
             init_empty_gummyroll(authority, append_authority)
      PROVE  Goal
  BY <1>8 DEF GummyrollStep
<1>9. ASSUME NEW authority \in Key, NEW append_authority \in Key, NEW n \in Prefills,
             NEW leaf \in LeafNodes, NEW leaves \in Prefilled(n),
             init_gummyroll_with_root(authority, append_authority, n, leaves, leaf)
      PROVE  Goal
  BY <1>9 DEF GummyrollStep
<1>10. CASE \E authority \in Key, append_authority \in Key :
               \/ init_empty_gummyroll(authority, append_authority)
               \/ \E n \in Prefills, leaf \in LeafNodes : \E leaves \in Prefilled(n) :
                    init_gummyroll_with_root(authority, append_authority, n, leaves, leaf)
               \/ \E leaf \in Nodes : append_leaf(authority, append_authority, leaf)
  BY <1>1, <1>8, <1>9, <1>10
<1>11. CASE \E authority \in Key, new_authority, new_append_authority \in OptionKey :
              transfer_authority(authority, new_authority, new_append_authority)
  BY <1>5, <1>11
<1>12. CASE \E t \in 1..Len(versions), index \in IndexArgs, leaf \in Nodes, m \in 0..MAX_DEPTH :
              \/ \E authority \in Key :
                   \/ \E new_leaf \in Nodes : replace_leaf(authority, t, leaf, new_leaf, index, m)
                   \/ insert_or_append(authority, t, leaf, index, m)
              \/ \E writable \in BOOLEAN : verify_leaf(writable, t, leaf, index, m)
  BY <1>3, <1>4, <1>6, <1>12
<1> QED
  BY <1>7, <1>10, <1>11, <1>12 DEF GummyrollNext

-----------------------------------------------------------------------------
(* The roll inside the account keeps what it promises on its own. *)

\* init_gummyroll_with_root, whatever the canopy adds to the proof.
LEMMA CreatedWithRoot ==
  ASSUME GInvAll, NEW authority, NEW append_authority, NEW n \in Prefills, NEW leaf,
         NEW leaves \in Prefilled(n),
         init_gummyroll_with_root(authority, append_authority, n, leaves, leaf)
  PROVE  \E given :
           LET o == initialize_with_root(roll, build_root(leaves), leaf, given, n-1)
           IN  /\ o.res = "Ok" /\ Loads(o, leaves)
               /\ events' = <<ChangeLogEvent(roll')>>
BY DEF init_gummyroll_with_root, InitializeHeader, Loads

\* Every instruction keeps roots, paths and the rightmost proof.
LEMMA NextGHashed ==
  ASSUME GInvAll, Hashed, [GummyrollNext]_gummyrollVars
  PROVE  Hashed'
<1>0. IInv /\ RollOK(roll)
  BY DEF GInvAll, GInv, IInv, TypeOK
<1>1. ASSUME NEW authority, NEW append_authority, init_empty_gummyroll(authority, append_authority)
      PROVE  Hashed'
  <2>1. Next
    BY <1>1 DEF init_empty_gummyroll, Next
  <2> QED
    BY <1>0, <2>1, NextHashed
<1>2. ASSUME NEW authority, NEW append_authority, NEW n \in Prefills, NEW leaf, NEW leaves \in Prefilled(n),
             init_gummyroll_with_root(authority, append_authority, n, leaves, leaf)
      PROVE  Hashed'
  <2>1. PICK given :
          LET o == initialize_with_root(roll, build_root(leaves), leaf, given, n-1)
          IN  /\ o.res = "Ok" /\ Loads(o, leaves)
              /\ events' = <<ChangeLogEvent(roll')>>
    BY <1>2, CreatedWithRoot
  <2> DEFINE o == initialize_with_root(roll, build_root(leaves), leaf, given, n-1)
  <2>2. o.res = "Ok" /\ roll' = o.roll /\ versions' = <<leaves>>
    BY <2>1 DEF Loads
  <2>3. n \in 1 .. 2^MAX_DEPTH /\ n - 1 \in LeafIndices /\ leaves \in [LeafIndices -> Nodes]
    BY BoundsAssumption, Capacity DEF LeafIndices, Prefilled
  <2>4. RollOK(o.roll) /\ o.roll.buffer_size = 1
    BY <1>0, <2>2, <2>3, InitializeWithRootOK
  <2>5. /\ o.roll.active_index = 0 /\ o.roll.change_logs[0].root = build_root(leaves)
        /\ RightmostMatches(o.roll.rightmost_proof, leaves)
    BY <1>0, <2>2, <2>3, InitializeWithRootMatches
  <2> HIDE DEF o
  <2> QED
    BY <2>2, <2>3, <2>4, <2>5, StartHashed
<1>3. ASSUME NEW outcome, NEW c, Wrote(outcome, c) PROVE Hashed'
  BY <1>0, <1>3, ReturnsHashed DEF Wrote
<1>4. CASE UNCHANGED <<roll, versions>>
  BY <1>4 DEF Hashed, Initialized, Current, ChangeLogsAreHistory, LiveVersions, LogOfVersion
<1> QED
  BY <1>1, <1>2, <1>3, <1>4, InstructionSteps DEF GummyrollStep, OnlyRead

\* So both invariants of the roll hold whatever instructions are sent.
LEMMA GHashedInvariant == GummyrollSpec => [](GInvAll /\ Hashed)
<1>1. GummyrollInit => Hashed
  BY InitHashed DEF GummyrollInit
<1>2. GInvAll /\ Hashed /\ [GummyrollNext]_gummyrollVars => Hashed'
  BY NextGHashed
<1> QED
  BY <1>1, <1>2, InitGInv, NextGInv, PTL DEF GummyrollSpec

\* The account implements the array of leaves: no instruction, whoever signs it
\* and whatever the canopy adds to its proof, writes a leaf other than the one it
\* reports, and no instruction but these writes any.
THEOREM AccountIsArray == GummyrollSpec => ImplementsLeafArray
<1>1. GummyrollInit => Array!ArrayInit
  <2> SUFFICES ASSUME GummyrollInit PROVE Array!ArrayInit
    OBVIOUS
  <2>1. ~Initialized /\ roll.rightmost_proof.index = 0
    BY DEF GummyrollInit, Init, new, DefaultPath, Initialized
  <2>2. Array!Indices = LeafIndices
    BY DEF Array!Indices, LeafIndices
  <2> QED
    BY <2>1, <2>2 DEF Array!ArrayInit, Array!Unwritten, CommittedLeaves, EmptyLeaves
<1>2. GInvAll /\ Hashed /\ Hashed' /\ [GummyrollNext]_gummyrollVars => [Array!ArrayNext]_(Array!arrayVars)
  <2> SUFFICES ASSUME GInvAll, Hashed, Hashed', [GummyrollNext]_gummyrollVars
               PROVE  [Array!ArrayNext]_(Array!arrayVars)
    OBVIOUS
  <2>0. IInv
    BY DEF GInvAll, GInv
  <2>1. ASSUME NEW authority, NEW append_authority, init_empty_gummyroll(authority, append_authority)
        PROVE  [Array!ArrayNext]_(Array!arrayVars)
    <3>1. Next
      BY <2>1 DEF init_empty_gummyroll, Next
    <3> QED
      BY <2>0, <3>1, NextIsArrayStep
  <2>2. ASSUME NEW authority, NEW append_authority, NEW n \in Prefills, NEW leaf \in LeafNodes,
               NEW leaves \in Prefilled(n),
               init_gummyroll_with_root(authority, append_authority, n, leaves, leaf)
        PROVE  [Array!ArrayNext]_(Array!arrayVars)
    <3>1. PICK given : Loads(initialize_with_root(roll, build_root(leaves), leaf, given, n-1), leaves)
      BY <2>2, CreatedWithRoot
    <3> QED
      BY <2>0, <3>1, InitializeWithRootIsLoad
  <2>3. ASSUME NEW outcome, NEW c, Wrote(outcome, c) PROVE [Array!ArrayNext]_(Array!arrayVars)
    BY <2>0, <2>3, ReturnsIsWrite DEF Wrote
  <2>4. CASE UNCHANGED <<roll, versions>>
    BY <2>4 DEF Array!arrayVars, CommittedLeaves, Initialized
  <2> QED
    BY <2>1, <2>2, <2>3, <2>4, InstructionSteps DEF GummyrollStep, OnlyRead
<1> QED
  BY <1>1, <1>2, GHashedInvariant, PTL DEF GummyrollSpec, ImplementsLeafArray, Array!ArraySpec

-----------------------------------------------------------------------------
(* Node indices: the root is 1, the children of n are 2n and 2n + 1. *)

\* The index of the node at position p of level k.
NodeAt(k, p) == Width(k) + p

\* No level is empty.
LEMMA WidthPositive == \A k \in 0..MAX_DEPTH : Width(k) \in Nat \ {0}
<1>1. 0 \in Levels
  BY DepthAssumption DEF Levels
<1>2. Width(MAX_DEPTH) = 1
  BY <1>1, WidthStep
<1>3. \A k \in Levels : Width(k) \in Nat \ {0}
  BY WidthStep
<1> QED
  BY <1>2, <1>3, DepthAssumption DEF Levels

\* A lower level has at least twice as many nodes.
LEMMA WidthOrder ==
  ASSUME NEW k \in 0..MAX_DEPTH, NEW l \in 0..MAX_DEPTH, k < l
  PROVE  2 * Width(l) <= Width(k)
<1> DEFINE S == {j \in 0..l : j = l \/ 2 * Width(l) <= Width(j)}
<1>1. l \in S /\ l \in Nat
  BY DepthAssumption
<1>2. ASSUME NEW j \in 0..l-1, j + 1 \in S PROVE j \in S
  <2>1. j \in Levels
    BY DepthAssumption DEF Levels
  <2>2. Width(j) = 2 * Width(j + 1) /\ Width(j + 1) \in Nat
    BY <2>1, WidthStep
  <2>3. Width(l) \in Nat
    BY WidthPositive
  <2>4. 2 * Width(l) <= Width(j)
    <3>1. CASE j + 1 = l
      BY <2>2, <2>3, <3>1
    <3>2. CASE j + 1 # l
      BY <1>2, <2>2, <2>3, <3>2
    <3> QED
      BY <3>1, <3>2
  <2> QED
    BY <2>4
<1>3. \A j \in 0..l : j \in S
  <2> HIDE DEF S
  <2> QED
    BY <1>1, <1>2, Downwards
<1> QED
  BY <1>3

\* No two nodes share an index.
LEMMA NodeAtUnique ==
  ASSUME NEW k \in 0..MAX_DEPTH, NEW l \in 0..MAX_DEPTH, NEW p \in Positions(k), NEW q \in Positions(l),
         NodeAt(k, p) = NodeAt(l, q)
  PROVE  k = l /\ p = q
<1>1. /\ Width(k) \in Nat /\ Width(l) \in Nat /\ k \in Nat /\ l \in Nat
      /\ p \in Nat /\ p < Width(k) /\ q \in Nat /\ q < Width(l) /\ Width(k) + p = Width(l) + q
  BY WidthPositive DEF Positions, NodeAt
<1>2. ~(k < l)
  <2> SUFFICES ASSUME k < l PROVE FALSE
    OBVIOUS
  <2>1. 2 * Width(l) <= Width(k)
    BY WidthOrder
  <2> QED
    BY <1>1, <2>1
<1>3. ~(l < k)
  <2> SUFFICES ASSUME l < k PROVE FALSE
    OBVIOUS
  <2>1. 2 * Width(k) <= Width(l)
    BY WidthOrder
  <2> QED
    BY <1>1, <2>1
<1>4. k = l
  BY <1>1, <1>2, <1>3
<1> QED
  BY <1>1, <1>4

\* The nodes of the canopy's levels are those that the canopy has room for.
LEMMA InCanopy ==
  ASSUME NEW lvl \in CanopyLevels, NEW p \in Positions(lvl)
  PROVE  lvl \in Levels /\ NodeAt(lvl, p) \in CanopyIndices
<1> DEFINE low == MAX_DEPTH - CANOPY_DEPTH
<1>1. /\ lvl \in Levels /\ lvl \in 0..MAX_DEPTH /\ low \in 0..MAX_DEPTH /\ lvl >= low
      /\ CANOPY_DEPTH \in 0..30 /\ MAX_DEPTH - low = CANOPY_DEPTH
  BY DepthAssumption, CanopyAssumption DEF CanopyLevels, Levels
<1>2. 2^(CANOPY_DEPTH + 1) = 2 * 2^CANOPY_DEPTH
  BY <1>1, PowersOfTwo, Zenon
<1>3. Width(low) = 2^CANOPY_DEPTH
  <2> HIDE DEF low
  <2> QED
    BY <1>1, Zenon DEF Width
<1>4. Width(low) \in Nat /\ Width(lvl) \in Nat /\ Width(lvl) >= 2
  <2>1. Width(lvl) = 2 * Width(lvl + 1) /\ Width(lvl + 1) \in Nat \ {0}
    BY <1>1, WidthStep
  <2>2. Width(low) \in Nat
    BY <1>1, WidthPositive
  <2> QED
    BY <2>1, <2>2
<1> HIDE DEF low
<1>5. Width(lvl) <= Width(low)
  <2>1. CASE lvl = low
    BY <1>4, <2>1
  <2>2. CASE low < lvl
    <3>1. 2 * Width(lvl) <= Width(low)
      BY <1>1, <2>2, WidthOrder
    <3> QED
      BY <1>4, <3>1
  <2> QED
    BY <1>1, <2>1, <2>2
<1>6. p \in Nat /\ p < Width(lvl)
  BY <1>4 DEF Positions
<1> DEFINE top == 2^(CANOPY_DEPTH + 1)
<1>7. top = 2 * Width(low)
  BY <1>2, <1>3
<1>8. CanopyIndices = 2 .. top - 1
  BY DEF CanopyIndices
<1> HIDE DEF top
<1>9. Width(lvl) + p \in 2 .. top - 1
  BY <1>4, <1>5, <1>6, <1>7
<1> QED
  BY <1>1, <1>8, <1>9 DEF NodeAt

\* The index that an event gives to a node on its path, and that of the canopy
\* node beside it.
LEMMA IndexOfNode ==
  ASSUME NEW i \in LeafIndices, NEW k \in Levels
  PROVE  /\ NodeIndex(i, k) = NodeAt(k, Ancestor(i, k))
         /\ CachedIndex(i, k) = NodeAt(k, Sibling(Ancestor(i, k)))
<1> DEFINE a == Ancestor(i, k)
<1>1. NodeIndex(i, k) = NodeAt(k, a)
  BY DEF NodeIndex, NodeAt, Width, Ancestor
<1>2. a \in Nat
  BY PathStep
<1>3. Width(k) = 2 * Width(k + 1) /\ Width(k + 1) \in Nat
  BY WidthStep
<1> HIDE DEF a
<1>4. \A w \in Nat : Sibling(2 * w + a) = 2 * w + Sibling(a)
  BY <1>2 DEF Sibling
<1>5. Sibling(Width(k) + a) = Width(k) + Sibling(a)
  BY <1>3, <1>4
<1> QED
  BY <1>1, <1>5 DEF CachedIndex, NodeAt, a

-----------------------------------------------------------------------------
(* The canopy. *)

\* What stands for a node: the node, or EMPTY for the root of an empty subtree.
StandsFor(held, node, lvl) == held = node \/ (held = EMPTY /\ node = empty_node[lvl])

\* The canopy c is the top of the tree over leaves.
CanopyHolds(c, leaves) ==
  \A lvl \in CanopyLevels : \A p \in Positions(lvl) :
    StandsFor(c[NodeAt(lvl, p)], MerkleTree(leaves)[lvl][p], lvl)

\* CanopyIsCurrent, in these terms.
LEMMA CanopyIsHeld == CanopyIsCurrent <=> (Initialized => CanopyHolds(canopy, Current))
BY DEF CanopyIsCurrent, CanopyHolds, StandsFor, NodeAt, Positions, Width

\* What EMPTY may stand for hashes as the empty subtree.
LEMMA EmptyStandsFor ==
  ASSUME NEW leaves, NEW lvl \in Levels, NEW p \in Positions(lvl),
         StandsFor(EMPTY, MerkleTree(leaves)[lvl][p], lvl)
  PROVE  MerkleTree(leaves)[lvl][p] = empty_node[lvl]
<1> DEFINE node == MerkleTree(leaves)[lvl][p]
<1> SUFFICES ASSUME node = EMPTY PROVE node = empty_node[lvl]
  BY DEF StandsFor
<1>1. CASE lvl = 0
  BY <1>1, EmptyStep
<1>2. CASE lvl # 0
  <2> DEFINE k == lvl - 1
  <2>1. k \in Levels /\ lvl = k + 1
    BY <1>2, DepthAssumption DEF Levels
  <2> HIDE DEF k
  <2>2. node = <<MerkleTree(leaves)[k][2*p], MerkleTree(leaves)[k][2*p + 1]>>
    BY <2>1, TreeStep
  <2>3. \A a, b : <<a, b>> # <<>>
    OBVIOUS
  <2> QED
    BY <2>2, <2>3 DEF EMPTY
<1> QED
  BY <1>1, <1>2

\* update_canopy: the nodes on the written leaf's way up, and no others.
LEMMA CanopyAfterWrite ==
  ASSUME NEW c, NEW leaves, DOMAIN leaves = LeafIndices, CanopyHolds(c, leaves), NEW r,
         NEW j \in LeafIndices, NEW v, get_change_log(r).index = j,
         \A k \in Levels : get_change_log(r).path[k] = MerkleTree(add_leaf(leaves, v, j))[k][Ancestor(j, k)]
  PROVE  CanopyHolds(update_canopy(c, ChangeLogEvent(r)), add_leaf(leaves, v, j))
<1> DEFINE event == ChangeLogEvent(r)
           log == get_change_log(r)
           after == add_leaf(leaves, v, j)
<1>1. ASSUME NEW lvl \in Levels
      PROVE  event.path[lvl].index = NodeAt(lvl, Ancestor(j, lvl)) /\ event.path[lvl].node = log.path[lvl]
  <2>1. lvl \in 0..MAX_DEPTH /\ lvl # MAX_DEPTH
    BY DepthAssumption DEF Levels
  <2>2. event.path[lvl] = [node |-> log.path[lvl], index |-> NodeIndex(log.index, lvl)]
    BY <2>1 DEF ChangeLogEvent
  <2> HIDE DEF event, log
  <2> QED
    BY <2>2, IndexOfNode DEF log
<1> SUFFICES ASSUME NEW lvl \in CanopyLevels, NEW p \in Positions(lvl)
             PROVE  StandsFor(update_canopy(c, event)[NodeAt(lvl, p)], MerkleTree(after)[lvl][p], lvl)
  BY DEF CanopyHolds
<1> DEFINE i == NodeAt(lvl, p)
           On(l) == event.path[l].index = i
<1>2. lvl \in Levels /\ lvl \in 0..MAX_DEPTH /\ i \in CanopyIndices
  BY InCanopy, DepthAssumption DEF Levels
<1> HIDE DEF event, after
<1>3. ASSUME NEW l \in CanopyLevels, On(l) PROVE l = lvl /\ p = Ancestor(j, lvl)
  <2>1. l \in Levels /\ l \in 0..MAX_DEPTH
    BY CanopyAssumption, DepthAssumption DEF CanopyLevels, Levels
  <2>2. NodeAt(l, Ancestor(j, l)) = NodeAt(lvl, p) /\ Ancestor(j, l) \in Positions(l)
    BY <1>1, <1>3, <2>1, AncestorInTree
  <2> QED
    BY <1>2, <2>1, <2>2, NodeAtUnique
<1>4. update_canopy(c, event)[i] = IF \E l \in CanopyLevels : On(l)
                                   THEN event.path[CHOOSE l \in CanopyLevels : On(l)].node
                                   ELSE c[i]
  BY <1>2 DEF update_canopy
<1>5. CASE p = Ancestor(j, lvl)
  <2>1. On(lvl)
    BY <1>1, <1>2, <1>5
  <2> HIDE DEF On
  <2>2. (CHOOSE l \in CanopyLevels : On(l)) = lvl
    BY <1>3, <2>1
  <2>3. update_canopy(c, event)[i] = event.path[lvl].node
    BY <1>4, <2>1, <2>2
  <2>4. event.path[lvl].node = MerkleTree(after)[lvl][p]
    BY <1>1, <1>2, <1>5 DEF after
  <2> QED
    BY <2>3, <2>4 DEF StandsFor
<1>6. CASE p # Ancestor(j, lvl)
  <2>1. update_canopy(c, event)[i] = c[i]
    <3> HIDE DEF On
    <3> QED
      BY <1>3, <1>4, <1>6
  <2>2. MerkleTree(after)[lvl][p] = MerkleTree(leaves)[lvl][p]
    BY <1>2, <1>6, WriteInTree DEF after
  <2>3. StandsFor(c[i], MerkleTree(leaves)[lvl][p], lvl)
    BY DEF CanopyHolds
  <2> QED
    BY <2>1, <2>2, <2>3
<1> QED
  BY <1>5, <1>6

\* Reading the canopy for the proof of a leaf: it still holds the top of the
\* tree, and the nodes that were read are those of the leaf's proof.
LEMMA CanopyAfterReading ==
  ASSUME NEW c, NEW leaves, CanopyHolds(c, leaves), NEW index \in LeafIndices
  PROVE  /\ CanopyHolds(CanopyAfterRead(c, index), leaves)
         /\ \A lvl \in CanopyLevels :
              CanopyAfterRead(c, index)[CachedIndex(index, lvl)] = WholeProof(leaves, index)[lvl]
<1> DEFINE d == CanopyAfterRead(c, index)
           beside(lvl) == Sibling(Ancestor(index, lvl))
<1>1. ASSUME NEW lvl \in CanopyLevels, NEW p \in Positions(lvl)
      PROVE  /\ StandsFor(d[NodeAt(lvl, p)], MerkleTree(leaves)[lvl][p], lvl)
             /\ p = beside(lvl) => d[NodeAt(lvl, p)] = MerkleTree(leaves)[lvl][p]
  <2> DEFINE i == NodeAt(lvl, p)
             Reads(l) == CachedIndex(index, l) = i
             node == MerkleTree(leaves)[lvl][p]
  <2>1. lvl \in Levels /\ lvl \in 0..MAX_DEPTH /\ i \in CanopyIndices
    BY InCanopy, DepthAssumption DEF Levels
  <2>2. ASSUME NEW l \in CanopyLevels, Reads(l) PROVE l = lvl
    <3>1. l \in Levels /\ l \in 0..MAX_DEPTH
      BY CanopyAssumption, DepthAssumption DEF CanopyLevels, Levels
    <3>2. NodeAt(l, beside(l)) = NodeAt(lvl, p)
      BY <2>2, <3>1, IndexOfNode
    <3>3. beside(l) \in Positions(l)
      BY <3>1, PathStep
    <3> QED
      BY <2>1, <3>1, <3>2, <3>3, NodeAtUnique
  <2>3. d[i] = IF c[i] = EMPTY /\ \E l \in CanopyLevels : Reads(l)
               THEN empty_node[CHOOSE l \in CanopyLevels : Reads(l)] ELSE c[i]
    BY <2>1 DEF CanopyAfterRead
  <2>4. p = beside(lvl) => Reads(lvl)
    BY <2>1, IndexOfNode
  <2>5. StandsFor(c[i], node, lvl)
    BY DEF CanopyHolds
  <2>6. c[i] = EMPTY => node = empty_node[lvl]
    BY <2>1, <2>5, EmptyStandsFor
  <2> HIDE DEF Reads, d, i, node, beside
  <2>7. CASE c[i] = EMPTY /\ \E l \in CanopyLevels : Reads(l)
    <3>1. (CHOOSE l \in CanopyLevels : Reads(l)) = lvl
      BY <2>2, <2>7
    <3>2. d[i] = node
      BY <2>3, <2>6, <2>7, <3>1
    <3> QED
      BY <3>2 DEF StandsFor, i, node
  <2>8. CASE ~(c[i] = EMPTY /\ \E l \in CanopyLevels : Reads(l))
    <3>1. d[i] = c[i]
      BY <2>3, <2>8
    <3>2. p = beside(lvl) => c[i] # EMPTY
      BY <2>4, <2>8
    <3> QED
      BY <2>5, <3>1, <3>2 DEF StandsFor, i, node
  <2> QED
    BY <2>7, <2>8
<1>2. ASSUME NEW lvl \in CanopyLevels PROVE d[CachedIndex(index, lvl)] = WholeProof(leaves, index)[lvl]
  <2>1. lvl \in Levels
    BY CanopyAssumption, DepthAssumption DEF CanopyLevels, Levels
  <2>2. beside(lvl) \in Positions(lvl) /\ CachedIndex(index, lvl) = NodeAt(lvl, beside(lvl))
    BY <2>1, PathStep, IndexOfNode
  <2>3. WholeProof(leaves, index)[lvl] = MerkleTree(leaves)[lvl][beside(lvl)]
    BY <2>1 DEF WholeProof
  <2> HIDE DEF d, beside
  <2> QED
    BY <1>1, <2>2, <2>3
<1> QED
  BY <1>1, <1>2 DEF CanopyHolds

\* What a write does to the tree, and what its change log tells of it.
TreeFollows(log) ==
  /\ Initialized' /\ log.index \in LeafIndices
  /\ Current \in [LeafIndices -> Nodes]
  /\ Current' = add_leaf(Current, get_leaf(log), log.index)
  /\ \A k \in Levels : log.path[k] = MerkleTree(add_leaf(Current, get_leaf(log), log.index))[k][Ancestor(log.index, k)]
  /\ log.root = build_root(Current')
  /\ roll'.sequence_number = roll.sequence_number + 1

\* The tree follows every write that is accepted.
LEMMA WroteTree ==
  ASSUME GInvAll, Hashed, NEW outcome, NEW c, Wrote(outcome, c)
  PROVE  roll' = outcome.roll /\ TreeFollows(get_change_log(roll'))
<1> DEFINE log == get_change_log(roll')
           grown == add_leaf(Current, get_leaf(log), log.index)
<1>1. roll' = outcome.roll /\ versions' = Append(versions, grown)
  BY DEF Wrote, Returns
<1>2. Initialized /\ Advances(roll, roll') /\ Writes(roll, roll', Current)
  BY <1>1 DEF Wrote, Effect
<1>3. /\ Matches(roll, Current) /\ RollOK(roll') /\ RollOK(roll)
      /\ versions \in Seq([LeafIndices -> Nodes])
  BY <1>2 DEF Hashed, Advances, GInvAll, GInv, IInv, TypeOK
<1>4. /\ Matches(roll', grown) /\ log.index \in LeafIndices
      /\ \A k \in Levels : log.path[k] = MerkleTree(grown)[k][Ancestor(log.index, k)]
  BY <1>2, <1>3, WritesMatch
<1>5. grown \in [LeafIndices -> Nodes] /\ log.root = build_root(grown) /\ Current \in [LeafIndices -> Nodes]
  BY <1>3, <1>4 DEF Matches
<1>6. Current' = grown
  <2> HIDE DEF grown
  <2>1. Len(versions') = Len(versions) + 1 /\ versions'[Len(versions) + 1] = grown
    BY <1>1, <1>3, <1>5
  <2> QED
    BY <2>1 DEF Current
<1>7. Initialized' /\ roll'.sequence_number = roll.sequence_number + 1
  BY <1>2, <1>3, BufferAssumption DEF Initialized, Advances, RollOK
<1> HIDE DEF log
<1>8. TreeFollows(log)
  BY <1>4, <1>5, <1>6, <1>7 DEF TreeFollows
<1> QED
  BY <1>1, <1>8 DEF log

\* The canopy before the tree is created, and from then on.
CInv ==
  /\ ~Initialized => canopy = [i \in CanopyIndices |-> EMPTY]
  /\ Initialized => CanopyHolds(canopy, Current)

\* The empty canopy is the top of the empty tree.
LEMMA EmptyCanopyHolds == CanopyHolds([i \in CanopyIndices |-> EMPTY], EmptyLeaves)
<1> SUFFICES ASSUME NEW lvl \in CanopyLevels, NEW p \in Positions(lvl)
             PROVE  StandsFor([i \in CanopyIndices |-> EMPTY][NodeAt(lvl, p)], MerkleTree(EmptyLeaves)[lvl][p], lvl)
  BY DEF CanopyHolds
<1>1. lvl \in 0..MAX_DEPTH /\ NodeAt(lvl, p) \in CanopyIndices
  BY InCanopy, DepthAssumption DEF Levels
<1>2. MerkleTree(EmptyLeaves)[lvl][p] = empty_node[lvl]
  BY <1>1, EmptyTree
<1> QED
  BY <1>1, <1>2 DEF StandsFor

\* A tree created from a root while the canopy has nodes leaves them empty; any
\* other instruction keeps the canopy.
LEMMA NextCInv ==
  ASSUME Prefills = {} \/ CANOPY_DEPTH = 0, GInvAll, Hashed, CInv, [GummyrollNext]_gummyrollVars
  PROVE  CInv'
<1>0. CanopyHolds(canopy, Current) \/ ~Initialized
  BY DEF CInv
<1>1. ASSUME NEW authority, NEW append_authority, init_empty_gummyroll(authority, append_authority)
      PROVE  CInv'
  <2>1. ~Initialized /\ canopy' = canopy /\ roll' = initialize(roll) /\ versions' = <<EmptyLeaves>>
    BY <1>1 DEF init_empty_gummyroll, Initialize
  <2>2. canopy' = [i \in CanopyIndices |-> EMPTY]
    BY <2>1 DEF CInv
  <2>3. Initialized'
    BY <2>1, InitializeOK DEF Initialized, GInvAll, GInv, IInv, TypeOK
  <2>4. Current' = EmptyLeaves
    BY <2>1 DEF Current
  <2>5. CanopyHolds(canopy', Current')
    BY <2>2, <2>4, EmptyCanopyHolds
  <2> QED
    BY <2>3, <2>5 DEF CInv, CanopyHolds
<1>2. ASSUME NEW authority, NEW append_authority, NEW n \in Prefills, NEW leaf, NEW leaves \in Prefilled(n),
             init_gummyroll_with_root(authority, append_authority, n, leaves, leaf)
      PROVE  CInv'
  <2>1. CanopyLevels = {}
    BY DepthAssumption DEF CanopyLevels
  <2>2. PICK given :
          LET o == initialize_with_root(roll, build_root(leaves), leaf, given, n-1)
          IN  /\ o.res = "Ok" /\ Loads(o, leaves)
              /\ events' = <<ChangeLogEvent(roll')>>
    BY <1>2, CreatedWithRoot
  <2>3. n - 1 \in LeafIndices /\ RollOK(roll)
    BY BoundsAssumption, Capacity DEF LeafIndices, GInvAll, GInv, IInv, TypeOK
  <2>4. roll'.buffer_size = 1
    BY <2>2, <2>3, InitializeWithRootOK DEF Loads
  <2> QED
    BY <2>1, <2>4 DEF CInv, CanopyHolds, Initialized
<1>3. ASSUME NEW outcome, NEW c, Wrote(outcome, c) PROVE CInv'
  <2> DEFINE log == get_change_log(roll')
             j == log.index
             v == get_leaf(log)
  <2>1. Initialized /\ ReadFrom(c) /\ roll' = outcome.roll /\ canopy' = update_canopy(c, ChangeLogEvent(roll'))
    BY <1>3, WroteTree DEF Wrote
  <2>2. TreeFollows(log)
    BY <1>3, WroteTree
  <2>3. CanopyHolds(c, Current)
    BY <1>0, <2>1, CanopyAfterReading DEF ReadFrom
  <2>4. /\ Initialized' /\ j \in LeafIndices /\ Current' = add_leaf(Current, v, j) /\ DOMAIN Current = LeafIndices
    BY <2>2 DEF TreeFollows
  <2>5. \A k \in Levels : log.path[k] = MerkleTree(add_leaf(Current, v, j))[k][Ancestor(j, k)]
    BY <2>2 DEF TreeFollows
  <2>6. CanopyHolds(update_canopy(c, ChangeLogEvent(roll')), add_leaf(Current, v, j))
    BY <2>3, <2>4, <2>5, CanopyAfterWrite
  <2> HIDE DEF log, j, v
  <2>7. CanopyHolds(canopy', Current')
    BY <2>1, <2>4, <2>6
  <2> QED
    BY <2>4, <2>7 DEF CInv, CanopyHolds
<1>4. CASE OnlyRead
  <2>1. PICK index \in LeafIndices : canopy' = CanopyAfterRead(canopy, index)
    BY <1>4 DEF OnlyRead
  <2>2. Initialized /\ Current' = Current /\ Initialized'
    BY <1>4 DEF OnlyRead, Current, Initialized
  <2>3. CanopyHolds(canopy', Current')
    BY <1>0, <2>1, <2>2, CanopyAfterReading
  <2> QED
    BY <2>2, <2>3 DEF CInv, CanopyHolds
<1>5. CASE UNCHANGED <<roll, versions, events, canopy>>
  BY <1>5 DEF CInv, CanopyHolds, Initialized, Current
<1> QED
  BY <1>1, <1>2, <1>3, <1>4, <1>5, InstructionSteps DEF GummyrollStep

\* With a tree that starts empty, or without a canopy, all three invariants hold
\* at once.
LEMMA CanopyInvariant ==
  ASSUME Prefills = {} \/ CANOPY_DEPTH = 0
  PROVE  GummyrollSpec => [](GInvAll /\ Hashed /\ CInv)
<1>1. GummyrollInit => CInv
  BY DEF GummyrollInit, Init, new, CInv, Initialized
<1>2. GInvAll /\ Hashed /\ CInv /\ [GummyrollNext]_gummyrollVars => CInv'
  BY NextCInv
<1> QED
  BY <1>1, <1>2, GHashedInvariant, PTL DEF GummyrollSpec

\* The canopy of a tree that starts empty is the top of the current tree, node
\* for node, whatever its depth and whatever was written and read.
THEOREM CanopyFollowsTree ==
  ASSUME Prefills = {} \/ CANOPY_DEPTH = 0
  PROVE  GummyrollSpec => []CanopyIsCurrent
<1>1. GInvAll /\ Hashed /\ CInv => CanopyIsCurrent
  BY CanopyIsHeld DEF CInv
<1> QED
  BY <1>1, CanopyInvariant, PTL

-----------------------------------------------------------------------------
(* Proofs completed from the canopy. *)

\* The first d - c of d nodes, and c others after them.
LEMMA Completed ==
  ASSUME NEW d \in Nat, NEW c \in 0..d, NEW f, NEW g
  PROVE  LET all == SubSeq([k \in 1..d |-> f[k]], 1, d - c) \o [n \in 1..c |-> g[n]]
         IN  Len(all) = d /\ \A k \in 1..d : all[k] = IF k <= d - c THEN f[k] ELSE g[k - (d - c)]
<1> DEFINE S == {f[k] : k \in 1..d} \cup {g[n] : n \in 1..c}
           whole == [k \in 1..d |-> f[k]]
           low == SubSeq(whole, 1, d - c)
           top == [n \in 1..c |-> g[n]]
<1>1. whole \in Seq(S) /\ Len(whole) = d
  <2>1. whole \in [1..d -> S]
    OBVIOUS
  <2> HIDE DEF S
  <2> QED
    BY <2>1
<1>2. top \in Seq(S) /\ Len(top) = c
  <2>1. top \in [1..c -> S]
    OBVIOUS
  <2> HIDE DEF S
  <2> QED
    BY <2>1
<1>3. \A k \in 1..d : whole[k] = f[k]
  OBVIOUS
<1>4. \A n \in 1..c : top[n] = g[n]
  OBVIOUS
<1> HIDE DEF S, whole, top
<1>5. low \in Seq(S) /\ Len(low) = d - c /\ \A k \in 1..d-c : low[k] = whole[k]
  BY <1>1
<1> HIDE DEF low
<1> DEFINE all == low \o top
<1>6. /\ Len(all) = Len(low) + Len(top)
      /\ \A k \in 1..Len(low) + Len(top) : all[k] = IF k <= Len(low) THEN low[k] ELSE top[k - Len(low)]
  BY <1>2, <1>5
<1> HIDE DEF all
<1>7. Len(all) = d
  BY <1>2, <1>5, <1>6
<1>8. ASSUME NEW k \in 1..d PROVE all[k] = IF k <= d - c THEN f[k] ELSE g[k - (d - c)]
  <2>1. all[k] = IF k <= d - c THEN low[k] ELSE top[k - (d - c)]
    BY <1>2, <1>5, <1>6
  <2>2. CASE k <= d - c
    BY <1>3, <1>5, <2>1, <2>2
  <2>3. CASE ~(k <= d - c)
    <3>1. k - (d - c) \in 1..c
      BY <2>3
    <3> QED
      BY <1>4, <2>1, <2>3, <3>1
  <2> QED
    BY <2>2, <2>3
<1> QED
  BY <1>7, <1>8 DEF all, low, whole, top

\* The lower nodes of a proof read from any version, completed from the canopy:
\* each of its nodes is that of the version or the current one.
LEMMA FullProofReadable ==
  ASSUME NEW t, NEW index \in LeafIndices, CanopyHolds(canopy, Current)
  PROVE  Readable(t, index, fill_in_proof(FullProof(t, index, MAX_DEPTH - CANOPY_DEPTH)))
<1> DEFINE low == MAX_DEPTH - CANOPY_DEPTH
           s == get_proof_of_leaf(versions[t], index)
           N(k) == MerkleTree(versions[t])[k][Sibling(index \div 2^k)]
           f == [k \in 1..MAX_DEPTH |-> N(k-1)]
           d == CanopyAfterRead(canopy, index)
           g == [n \in 1..CANOPY_DEPTH |-> d[CachedIndex(index, low + n - 1)]]
           full == FullProof(t, index, low)
           filled == fill_in_proof(full)
<1>1. index % 2^MAX_DEPTH = index
  <2> DEFINE cap == 2^MAX_DEPTH
  <2>1. cap \in Nat \ {0} /\ LeafIndices = 0 .. cap - 1
    BY Capacity DEF LeafIndices
  <2> HIDE DEF cap
  <2>2. index % cap = index
    BY <2>1
  <2> QED
    BY <2>2 DEF cap
<1>2. s = f
  BY DEF get_proof_of_leaf
<1>3. full = SubSeq(f, 1, low) \o g
  BY <1>1, <1>2 DEF FullProof, ProofVec, fill_in_proof_from_canopy
<1>4. MAX_DEPTH \in Nat /\ CANOPY_DEPTH \in 0..MAX_DEPTH
  BY DepthAssumption, CanopyAssumption
<1>5. f = [k \in 1..MAX_DEPTH |-> f[k]] /\ g = [n \in 1..CANOPY_DEPTH |-> g[n]]
  OBVIOUS
<1> HIDE DEF f, g
<1>6. /\ Len(full) = MAX_DEPTH
      /\ \A k \in 1..MAX_DEPTH : full[k] = IF k <= low THEN f[k] ELSE g[k - low]
  <2> DEFINE all == SubSeq([k \in 1..MAX_DEPTH |-> f[k]], 1, MAX_DEPTH - CANOPY_DEPTH)
                      \o [n \in 1..CANOPY_DEPTH |-> g[n]]
  <2>1. /\ Len(all) = MAX_DEPTH
        /\ \A k \in 1..MAX_DEPTH : all[k] = IF k <= MAX_DEPTH - CANOPY_DEPTH THEN f[k]
                                            ELSE g[k - (MAX_DEPTH - CANOPY_DEPTH)]
    BY <1>4, Completed
  <2>2. full = all
    BY <1>3, <1>5, Zenon
  <2> HIDE DEF all, full
  <2> QED
    BY <2>1, <2>2
<1> HIDE DEF full
<1>7. ASSUME NEW k \in Levels
      PROVE  \/ filled[k] = WholeProof(versions[t], index)[k]
             \/ filled[k] = WholeProof(Current, index)[k]
  <2>1. k + 1 \in 1..MAX_DEPTH /\ k < MAX_DEPTH /\ (k + 1) - 1 = k /\ k \in Nat
    BY <1>4 DEF Levels
  <2>2. filled[k] = full[k + 1]
    BY <1>6, <2>1 DEF fill_in_proof
  <2>3. CASE k < low
    <3>1. filled[k] = f[k + 1]
      BY <1>4, <1>6, <2>1, <2>2, <2>3
    <3>2. f[k + 1] = WholeProof(versions[t], index)[k]
      BY <1>2, FilledProof
    <3> QED
      BY <3>1, <3>2
  <2>4. CASE ~(k < low)
    <3> DEFINE n == k + 1 - low
    <3>1. n \in 1..CANOPY_DEPTH /\ low + n - 1 = k /\ k \in CanopyLevels /\ ~(k + 1 <= low)
      BY <1>4, <2>1, <2>4 DEF CanopyLevels
    <3>2. filled[k] = g[n]
      BY <1>4, <1>6, <2>1, <2>2, <3>1
    <3>3. g[n] = d[CachedIndex(index, k)]
      BY <3>1 DEF g
    <3>4. d[CachedIndex(index, k)] = WholeProof(Current, index)[k]
      BY <3>1, CanopyAfterReading
    <3> QED
      BY <3>2, <3>3, <3>4
  <2> QED
    BY <2>3, <2>4
<1>8. IsProof(filled)
  BY DEF fill_in_proof, IsProof
<1> QED
  BY <1>7, <1>8 DEF Readable, full, filled

\* A client that sends no more of a proof than the canopy lacks, read at most
\* MAX_BUFFER_SIZE - 1 writes ago, is decided by the leaf that is in the tree
\* now: the older lower nodes and the newer canopy nodes never disagree.
THEOREM CanopyProofsAreDecisive ==
  ASSUME Prefills = {} \/ CANOPY_DEPTH = 0
  PROVE  GummyrollSpec => []CanopyProofsDecide
<1>1. GInvAll /\ Hashed /\ CInv => CanopyProofsDecide
  <2> SUFFICES ASSUME GInvAll, Hashed, CInv, NEW t \in LiveVersions, NEW index \in LeafIndices,
                      NEW previous_leaf \in Nodes, index <= roll.rightmost_proof.index
               PROVE  set_leaf(roll, build_root(versions[t]), previous_leaf, EMPTY,
                               FullProof(t, index, MAX_DEPTH - CANOPY_DEPTH), index).res = "Ok"
                        <=> previous_leaf = Current[index]
    BY DEF CanopyProofsDecide
  <2> DEFINE root == build_root(versions[t])
             given == FullProof(t, index, MAX_DEPTH - CANOPY_DEPTH)
             filled == fill_in_proof(given)
             verdict == check_valid_leaf(roll, root, previous_leaf, filled, index, TRUE)
             call == set_leaf(roll, root, previous_leaf, EMPTY, given, index)
             tried == try_apply_proof(roll, root, previous_leaf, EMPTY, filled, index, TRUE)
  <2>1. IInv /\ RollOK(roll) /\ EMPTY \in Nodes
    BY DEF GInvAll, GInv, IInv, TypeOK, Nodes
  <2>2. ~(index > roll.rightmost_proof.index)
    BY <2>1, Capacity DEF RollOK, LeafIndices
  <2>3. CanopyHolds(canopy, Current)
    BY <2>1 DEF CInv, LiveVersions, Initialized, RollOK, IInv, TypeOK
  <2>4. Readable(t, index, filled)
    BY <2>3, FullProofReadable
  <2> HIDE DEF given, root, filled
  <2>5. CurrentLeafDecides(t, index, previous_leaf, filled, TRUE)
    BY <2>1, <2>4, FreshVerdict
  <2>6. verdict = "Ok" <=> previous_leaf = Current[index]
    BY <2>5 DEF CurrentLeafDecides, root
  <2>7. call = tried
    BY <2>2 DEF set_leaf, filled
  <2>8. VerdictDecides(roll, root, previous_leaf, EMPTY, filled, index, TRUE)
    BY <2>1, TryApplyProofResult
  <2>9. tried.res = verdict
    BY <2>8 DEF VerdictDecides
  <2> HIDE DEF verdict, call, tried
  <2>10. call.res = "Ok" <=> previous_leaf = Current[index]
    BY <2>6, <2>7, <2>9
  <2> QED
    BY <2>10 DEF call, root, given
<1> QED
  BY <1>1, CanopyInvariant, PTL

-----------------------------------------------------------------------------
(* What an indexer makes of the events. *)

IsSequence(s) == \E S : s \in Seq(S)

\* Appending to a sequence, whatever its elements.
LEMMA Appended ==
  ASSUME NEW s, IsSequence(s), NEW e
  PROVE  /\ IsSequence(Append(s, e)) /\ Len(s) \in Nat /\ Len(Append(s, e)) = Len(s) + 1
         /\ Append(s, e)[Len(s) + 1] = e
         /\ \A n \in 1..Len(s) : Append(s, e)[n] = s[n]
<1>1. PICK S : s \in Seq(S)
  BY DEF IsSequence
<1> DEFINE U == S \cup {e}
<1>2. s \in Seq(U)
  <2>1. Len(s) \in Nat /\ s \in [1..Len(s) -> S]
    BY <1>1
  <2>2. s \in [1..Len(s) -> U]
    BY <2>1
  <2> HIDE DEF U
  <2> QED
    BY <2>1, <2>2
<1>3. e \in U
  OBVIOUS
<1> HIDE DEF U
<1>4. Append(s, e) \in Seq(U)
  BY <1>2, <1>3
<1> QED
  BY <1>2, <1>3, <1>4 DEF IsSequence

\* The events, among the first n of evs, whose path has the node index i; and
\* Indexed for any sequence of events.
Seen(evs, i, n) == {e \in 1..n : \E lvl \in 0..MAX_DEPTH : evs[e].path[lvl].index = i}

IndexedIn(evs, i, n) ==
  LET seen == Seen(evs, i, n)
      last == CHOOSE e \in seen : \A f \in seen : f <= e
      lvl  == CHOOSE l \in 0..MAX_DEPTH : evs[last].path[l].index = i
  IN  IF seen = {} THEN EMPTY ELSE evs[last].path[lvl].node

\* One more event replaces the nodes on its path.
LEMMA IndexedNext ==
  ASSUME NEW evs, IsSequence(evs), NEW e, NEW i
  PROVE  IndexedIn(Append(evs, e), i, Len(evs) + 1)
           = IF \E l \in 0..MAX_DEPTH : e.path[l].index = i
             THEN e.path[CHOOSE l \in 0..MAX_DEPTH : e.path[l].index = i].node
             ELSE IndexedIn(evs, i, Len(evs))
<1> DEFINE N == Len(evs)
           more == Append(evs, e)
           seen == Seen(evs, i, N)
           now == Seen(more, i, N + 1)
           Max(T) == CHOOSE x \in T : \A f \in T : f <= x
           On(ev, l) == ev.path[l].index = i
           Node(ev) == ev.path[CHOOSE l \in 0..MAX_DEPTH : On(ev, l)].node
<1>1. N \in Nat /\ more[N + 1] = e /\ \A n \in 1..N : more[n] = evs[n]
  BY Appended
<1>2. /\ IndexedIn(evs, i, N) = IF seen = {} THEN EMPTY ELSE Node(evs[Max(seen)])
      /\ IndexedIn(more, i, N + 1) = IF now = {} THEN EMPTY ELSE Node(more[Max(now)])
  BY DEF IndexedIn
<1>3. /\ seen = {n \in 1..N : \E l \in 0..MAX_DEPTH : On(evs[n], l)}
      /\ now = {n \in 1..N+1 : \E l \in 0..MAX_DEPTH : On(more[n], l)}
  BY DEF Seen
<1> HIDE DEF N, more, seen, now, On, Node
<1>4. CASE \E l \in 0..MAX_DEPTH : On(e, l)
  <2>1. N + 1 \in now /\ \A n \in now : n <= N + 1 /\ n \in Nat
    BY <1>1, <1>3, <1>4
  <2>2. Max(now) = N + 1
    BY <1>1, <2>1
  <2>3. IndexedIn(more, i, N + 1) = Node(e)
    BY <1>1, <1>2, <2>1, <2>2
  <2> QED
    BY <1>4, <2>3 DEF N, more, Node, On
<1>5. CASE ~\E l \in 0..MAX_DEPTH : On(e, l)
  <2>1. now = seen
    BY <1>1, <1>3, <1>5
  <2>2. CASE seen = {}
    BY <1>2, <1>5, <2>1, <2>2 DEF N, more, On
  <2>3. CASE seen # {}
    <3> DEFINE below == {N - n : n \in seen}
    <3>1. below \in SUBSET Nat /\ below # {}
      BY <1>1, <1>3, <2>3
    <3>2. PICK m \in below : \A x \in below : m <= x
      <4> HIDE DEF below
      <4> QED
        BY <3>1, LeastNumber
    <3>3. PICK top \in seen : m = N - top
      OBVIOUS
    <3>4. top \in seen /\ \A f \in seen : f <= top
      BY <1>1, <1>3, <3>2, <3>3
    <3>5. Max(seen) \in seen
      BY <3>4
    <3>6. more[Max(seen)] = evs[Max(seen)]
      BY <1>1, <1>3, <3>5
    <3>7. IndexedIn(more, i, N + 1) = IndexedIn(evs, i, N)
      BY <1>2, <2>1, <3>6
    <3> QED
      BY <1>5, <3>7 DEF N, more, On
  <2> QED
    BY <2>2, <2>3
<1> QED
  BY <1>4, <1>5

\* The nodes that an indexer holds after all events of evs are the tree's.
Rebuilds(evs, leaves) ==
  \A lvl \in 0..MAX_DEPTH : \A p \in Positions(lvl) :
    StandsFor(IndexedIn(evs, NodeAt(lvl, p), Len(evs)), MerkleTree(leaves)[lvl][p], lvl)

\* The event tells of the nodes on the way up from the leaf at j.
Tells(event, leaves, j) ==
  \A l \in 0..MAX_DEPTH : /\ event.path[l].index = NodeAt(l, Ancestor(j, l))
                          /\ event.path[l].node = MerkleTree(leaves)[l][Ancestor(j, l)]

\* An event that tells of all that changed brings the indexer up to date.
LEMMA RebuildsNext ==
  ASSUME NEW evs, IsSequence(evs), NEW leaves, Rebuilds(evs, leaves), NEW after, NEW e,
         NEW j \in LeafIndices, Tells(e, after, j),
         \A l \in 0..MAX_DEPTH : \A p \in Positions(l) :
           p # Ancestor(j, l) => MerkleTree(after)[l][p] = MerkleTree(leaves)[l][p]
  PROVE  Rebuilds(Append(evs, e), after)
<1>1. Len(Append(evs, e)) = Len(evs) + 1
  BY Appended
<1> SUFFICES ASSUME NEW lvl \in 0..MAX_DEPTH, NEW p \in Positions(lvl)
             PROVE  StandsFor(IndexedIn(Append(evs, e), NodeAt(lvl, p), Len(evs) + 1),
                              MerkleTree(after)[lvl][p], lvl)
  BY <1>1 DEF Rebuilds
<1> DEFINE i == NodeAt(lvl, p)
           On(l) == e.path[l].index = i
           held == IndexedIn(Append(evs, e), i, Len(evs) + 1)
<1>2. ASSUME NEW l \in 0..MAX_DEPTH, On(l) PROVE l = lvl /\ p = Ancestor(j, lvl)
  <2>1. NodeAt(l, Ancestor(j, l)) = NodeAt(lvl, p) /\ Ancestor(j, l) \in Positions(l)
    BY <1>2, AncestorInTree DEF Tells
  <2> QED
    BY <2>1, NodeAtUnique
<1>3. held = IF \E l \in 0..MAX_DEPTH : On(l) THEN e.path[CHOOSE l \in 0..MAX_DEPTH : On(l)].node
             ELSE IndexedIn(evs, i, Len(evs))
  BY IndexedNext
<1>4. p = Ancestor(j, lvl) => On(lvl)
  BY DEF Tells
<1> HIDE DEF On, held
<1>5. CASE p = Ancestor(j, lvl)
  <2>1. (CHOOSE l \in 0..MAX_DEPTH : On(l)) = lvl
    BY <1>2, <1>4, <1>5
  <2>2. held = e.path[lvl].node
    BY <1>3, <1>4, <1>5, <2>1
  <2>3. held = MerkleTree(after)[lvl][p]
    BY <1>5, <2>2 DEF Tells
  <2> QED
    BY <2>3 DEF StandsFor, held
<1>6. CASE p # Ancestor(j, lvl)
  <2>1. held = IndexedIn(evs, i, Len(evs))
    BY <1>2, <1>3, <1>6
  <2>2. StandsFor(IndexedIn(evs, i, Len(evs)), MerkleTree(leaves)[lvl][p], lvl)
    BY DEF Rebuilds
  <2>3. MerkleTree(after)[lvl][p] = MerkleTree(leaves)[lvl][p]
    BY <1>6
  <2> QED
    BY <2>1, <2>2, <2>3 DEF held
<1> QED
  BY <1>5, <1>6

\* The event of a roll tells of the path in its change log and of its root.
LEMMA EventTells ==
  ASSUME NEW r, NEW leaves, NEW j \in LeafIndices, get_change_log(r).index = j,
         get_change_log(r).root = build_root(leaves),
         \A k \in Levels : get_change_log(r).path[k] = MerkleTree(leaves)[k][Ancestor(j, k)]
  PROVE  Tells(ChangeLogEvent(r), leaves, j) /\ ChangeLogEvent(r).seq = r.sequence_number
<1> DEFINE event == ChangeLogEvent(r)
           log == get_change_log(r)
<1>1. event.path = [lvl \in 0..MAX_DEPTH |->
                      IF lvl = MAX_DEPTH THEN [node |-> log.root, index |-> 1]
                      ELSE [node |-> log.path[lvl], index |-> NodeIndex(log.index, lvl)]]
  BY DEF ChangeLogEvent
<1>2. event.seq = r.sequence_number
  BY DEF ChangeLogEvent
<1> HIDE DEF event
<1>3. ASSUME NEW l \in 0..MAX_DEPTH
      PROVE  /\ event.path[l].index = NodeAt(l, Ancestor(j, l))
             /\ event.path[l].node = MerkleTree(leaves)[l][Ancestor(j, l)]
  <2>1. CASE l = MAX_DEPTH
    <3>1. event.path[l] = [node |-> log.root, index |-> 1]
      BY <1>1, <2>1
    <3>2. Ancestor(j, l) = 0
      BY <2>1, AncestorInTree
    <3>3. Width(l) = 1
      <4>1. 0 \in Levels
        BY DepthAssumption DEF Levels
      <4> QED
        BY <2>1, <4>1, WidthStep
    <3>4. log.root = MerkleTree(leaves)[l][0]
      BY <2>1 DEF build_root
    <3> HIDE DEF log
    <3> QED
      BY <3>1, <3>2, <3>3, <3>4 DEF NodeAt
  <2>2. CASE l # MAX_DEPTH
    <3>1. l \in Levels
      BY <2>2, DepthAssumption DEF Levels
    <3>2. event.path[l] = [node |-> log.path[l], index |-> NodeIndex(j, l)]
      BY <1>1, <2>2
    <3>3. log.path[l] = MerkleTree(leaves)[l][Ancestor(j, l)]
      BY <3>1
    <3> HIDE DEF log
    <3> QED
      BY <3>1, <3>2, <3>3, IndexOfNode
  <2> QED
    BY <2>1, <2>2
<1> QED
  BY <1>2, <1>3 DEF Tells, event

\* The indexer is up to date after the last event, whose sequence number is the
\* roll's.
EInv ==
  /\ IsSequence(events)
  /\ Initialized =>
       /\ Rebuilds(events, Current)
       /\ Len(events) > 0 /\ events[Len(events)].seq = roll.sequence_number
       /\ \A e \in 2..Len(events) : events[e].seq = events[e-1].seq + 1

\* An indexer that has seen nothing holds the empty tree.
LEMMA NothingSeen == IsSequence(<<>>) /\ Rebuilds(<<>>, EmptyLeaves)
<1>1. IsSequence(<<>>) /\ Len(<<>>) = 0
  <2>1. <<>> \in Seq({})
    OBVIOUS
  <2> QED
    BY <2>1 DEF IsSequence
<1>2. ASSUME NEW i PROVE IndexedIn(<<>>, i, 0) = EMPTY
  <2>1. Seen(<<>>, i, 0) = {}
    BY DEF Seen
  <2> QED
    BY <2>1 DEF IndexedIn
<1> QED
  BY <1>1, <1>2, EmptyTree DEF Rebuilds, StandsFor

\* The event of a tree created empty tells of empty nodes only.
LEMMA CreatedTells ==
  ASSUME RollOK(roll)
  PROVE  \E j \in LeafIndices :
           /\ Tells(ChangeLogEvent(initialize(roll)), EmptyLeaves, j)
           /\ ChangeLogEvent(initialize(roll)).seq = initialize(roll).sequence_number
<1> DEFINE r == initialize(roll)
           log == get_change_log(r)
<1>1. 0 \in Slots /\ DOMAIN roll.change_logs = Slots
  BY BufferAssumption DEF Slots, RollOK
<1>2. /\ r.active_index = 0
      /\ r.change_logs[0].root = empty_node[MAX_DEPTH]
      /\ r.change_logs[0].path = [k \in Levels |-> empty_node[k]]
  BY <1>1 DEF initialize, RollOK, ChangeLogOK
<1>3. RollOK(r)
  BY InitializeOK
<1>4. log = r.change_logs[0] /\ log.index \in LeafIndices
  BY <1>1, <1>2, <1>3 DEF get_change_log, RollOK, ChangeLogOK
<1> HIDE DEF r
<1>5. PICK j \in LeafIndices : log.index = j
  BY <1>4
<1>6. MAX_DEPTH \in 0..MAX_DEPTH /\ \A k \in Levels : k \in 0..MAX_DEPTH
  BY DepthAssumption DEF Levels
<1>7. ASSUME NEW k \in 0..MAX_DEPTH
      PROVE  MerkleTree(EmptyLeaves)[k][Ancestor(j, k)] = empty_node[k]
  BY AncestorInTree, EmptyTree
<1>8. log.root = build_root(EmptyLeaves)
  <2>1. log.root = empty_node[MAX_DEPTH] /\ Ancestor(j, MAX_DEPTH) = 0
    BY <1>2, <1>4, <1>6, AncestorInTree
  <2> QED
    BY <1>6, <1>7, <2>1 DEF build_root
<1>9. \A k \in Levels : log.path[k] = MerkleTree(EmptyLeaves)[k][Ancestor(j, k)]
  BY <1>2, <1>4, <1>6, <1>7
<1>10. Tells(ChangeLogEvent(r), EmptyLeaves, j) /\ ChangeLogEvent(r).seq = r.sequence_number
  BY <1>5, <1>8, <1>9, EventTells
<1> QED
  BY <1>10 DEF r

\* Every instruction on a tree that was created empty keeps the indexer up to
\* date.
LEMMA NextEInv ==
  ASSUME Prefills = {}, GInvAll, Hashed, EInv, [GummyrollNext]_gummyrollVars
  PROVE  EInv'
<1>0. RollOK(roll) /\ IsSequence(events)
  BY DEF EInv, GInvAll, GInv, IInv, TypeOK
<1>1. ASSUME NEW authority, NEW append_authority, init_empty_gummyroll(authority, append_authority)
      PROVE  EInv'
  <2> DEFINE event == ChangeLogEvent(initialize(roll))
  <2>1. /\ roll' = initialize(roll) /\ versions' = <<EmptyLeaves>>
        /\ events' = <<event>>
    BY <1>1 DEF init_empty_gummyroll, Initialize
  <2>2. PICK j \in LeafIndices : Tells(event, EmptyLeaves, j) /\ event.seq = initialize(roll).sequence_number
    BY <1>0, CreatedTells
  <2> HIDE DEF event
  <2>3. Rebuilds(Append(<<>>, event), EmptyLeaves)
    BY <2>2, NothingSeen, RebuildsNext
  <2>4. events' = Append(<<>>, event) /\ Current' = EmptyLeaves
    BY <2>1 DEF Current
  <2>5. IsSequence(events')
    BY <2>4, NothingSeen, Appended
  <2>6. Len(events') = 1 /\ events'[1] = event
    BY <2>1
  <2>7. Rebuilds(events', Current')
    BY <2>3, <2>4
  <2> QED
    BY <2>1, <2>2, <2>5, <2>6, <2>7 DEF EInv, Rebuilds, IsSequence
<1>2. ASSUME NEW outcome, NEW c, Wrote(outcome, c) PROVE EInv'
  <2> DEFINE log == get_change_log(roll')
             j == log.index
             v == get_leaf(log)
             event == ChangeLogEvent(roll')
             N == Len(events)
             more == Append(events, event)
  <2>1. Initialized /\ roll' = outcome.roll /\ events' = more
    BY <1>2, WroteTree DEF Wrote
  <2>2. TreeFollows(log)
    BY <1>2, WroteTree
  <2>3. /\ j \in LeafIndices /\ Current' = add_leaf(Current, v, j) /\ DOMAIN Current = LeafIndices
        /\ log.root = build_root(add_leaf(Current, v, j))
        /\ roll'.sequence_number = roll.sequence_number + 1
    BY <2>2 DEF TreeFollows
  <2>4. \A k \in Levels : log.path[k] = MerkleTree(add_leaf(Current, v, j))[k][Ancestor(j, k)]
    BY <2>2 DEF TreeFollows
  <2>5. Tells(event, add_leaf(Current, v, j), j) /\ event.seq = roll'.sequence_number
    BY <2>3, <2>4, EventTells
  <2>6. \A l \in 0..MAX_DEPTH : \A p \in Positions(l) :
          p # Ancestor(j, l) => MerkleTree(add_leaf(Current, v, j))[l][p] = MerkleTree(Current)[l][p]
    BY <2>3, WriteInTree
  <2>7. Rebuilds(events, Current) /\ N > 0 /\ events[N].seq = roll.sequence_number
        /\ \A e \in 2..N : events[e].seq = events[e-1].seq + 1
    BY <2>1 DEF EInv
  <2> HIDE DEF log, j, v, event
  <2>8. Rebuilds(more, add_leaf(Current, v, j))
    BY <1>0, <2>3, <2>5, <2>6, <2>7, RebuildsNext
  <2>9. /\ IsSequence(more) /\ N \in Nat /\ Len(more) = N + 1 /\ more[N + 1] = event
        /\ \A n \in 1..N : more[n] = events[n]
    BY <1>0, Appended
  <2>10. IsSequence(events') /\ Rebuilds(events', Current')
    BY <2>1, <2>3, <2>8, <2>9
  <2> HIDE DEF N, more
  <2>11. Len(events') > 0 /\ events'[Len(events')].seq = roll'.sequence_number
    BY <2>1, <2>5, <2>9
  <2>12. ASSUME NEW e \in 2..Len(events') PROVE events'[e].seq = events'[e-1].seq + 1
    <3>1. CASE e = N + 1
      <4>1. events'[e] = event /\ events'[e-1] = events[N]
        BY <2>1, <2>7, <2>9, <3>1
      <4> QED
        BY <2>3, <2>5, <2>7, <4>1
    <3>2. CASE e # N + 1
      <4>1. e \in 2..N /\ e \in 1..N /\ e - 1 \in 1..N
        BY <2>1, <2>9, <3>2
      <4>2. events'[e] = events[e] /\ events'[e-1] = events[e-1]
        BY <2>1, <2>9, <4>1
      <4> QED
        BY <2>7, <4>1, <4>2
    <3> QED
      BY <3>1, <3>2
  <2> QED
    BY <2>10, <2>11, <2>12 DEF EInv, Rebuilds, IsSequence
<1>3. CASE UNCHANGED <<roll, versions, events>>
  BY <1>3 DEF EInv, Rebuilds, IsSequence, Initialized, Current
<1> QED
  BY <1>1, <1>2, <1>3, InstructionSteps DEF GummyrollStep, OnlyRead

\* An indexer that applies every event holds, for every node of the tree, what
\* is now in the tree, and sequence numbers without a gap, if the tree was
\* created empty.  One created from a root emits a single path of it, and the
\* nodes beside that path are never told.
THEOREM EventsRebuild ==
  ASSUME Prefills = {}
  PROVE  GummyrollSpec => []EventsRebuildTree
<1>1. GummyrollInit => EInv
  <2> SUFFICES ASSUME GummyrollInit PROVE EInv
    OBVIOUS
  <2>1. events = <<>> /\ ~Initialized
    BY DEF GummyrollInit, Init, new, Initialized
  <2> QED
    BY <2>1, NothingSeen DEF EInv
<1>2. GInvAll /\ Hashed /\ EInv /\ [GummyrollNext]_gummyrollVars => EInv'
  BY NextEInv
<1>3. EInv => EventsRebuildTree
  <2> SUFFICES ASSUME EInv, Initialized PROVE EventsRebuildTree
    BY DEF EventsRebuildTree
  <2>1. ASSUME NEW i, NEW n PROVE Indexed(i, n) = IndexedIn(events, i, n)
    BY DEF Indexed, IndexedIn, Seen
  <2>2. ASSUME NEW lvl \in 0..MAX_DEPTH, NEW p \in 0 .. 2^(MAX_DEPTH - lvl) - 1
        PROVE  LET held == Indexed(2^(MAX_DEPTH - lvl) + p, Len(events))
                   node == MerkleTree(Current)[lvl][p]
               IN  held = node \/ (held = EMPTY /\ node = empty_node[lvl])
    BY <2>1 DEF EInv, Rebuilds, Positions, Width, NodeAt, StandsFor
  <2> QED
    BY <2>2 DEF EventsRebuildTree, EInv
<1> QED
  BY <1>1, <1>2, <1>3, GHashedInvariant, PTL DEF GummyrollSpec
=============================================================================
