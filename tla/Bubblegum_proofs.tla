--------------------------- MODULE Bubblegum_proofs ---------------------------
(***************************************************************************)
(* Proofs about Bubblegum for any number of trees, leaves and keys.  The   *)
(* inductive invariant says where the parts of an asset are: everything    *)
(* about nonce n of a slab is at leaf n of its tree, at the voucher        *)
(* address of (slab, n) and in the mint of (slab, n), one of them at most. *)
(***************************************************************************)
EXTENDS Bubblegum, TLAPS

\* The Nonce account counts the leaves of its tree.
CountIsNext == \A s \in Slab : count[s] = next[s]

\* A leaf is at the index of its nonce, in the tree of its id.
LeavesInPlace ==
  \A s \in Slab, i \in Indices :
    leaves[s][i] # EMPTY =>
      /\ leaves[s][i][1].id = <<s, i>> /\ leaves[s][i][1].nonce = i
      /\ i < next[s]
      /\ vouchers[s][i] = NoVoucher /\ supply[s][i] = 0 /\ <<s, i>> \notin burnt

\* A voucher is at the address of its nonce, and remembers the index it is for.
VouchersInPlace ==
  \A s \in Slab, n \in Indices :
    vouchers[s][n] # NoVoucher =>
      /\ vouchers[s][n].leaf_schema.id = <<s, n>> /\ vouchers[s][n].leaf_schema.nonce = n
      /\ vouchers[s][n].index = n /\ vouchers[s][n].merkle_slab = s
      /\ n < next[s]
      /\ leaves[s][n] = EMPTY /\ supply[s][n] = 0 /\ <<s, n>> \notin burnt

\* What is neither leaf nor voucher is a token, burnt, or not minted yet.
RestInPlace ==
  \A s \in Slab, n \in Indices :
    leaves[s][n] = EMPTY /\ vouchers[s][n] = NoVoucher =>
      IF n < next[s] THEN supply[s][n] = 0 <=> <<s, n>> \in burnt
                     ELSE supply[s][n] = 0 /\ <<s, n>> \notin burnt

Placed == CountIsNext /\ LeavesInPlace /\ VouchersInPlace /\ RestInPlace

IInv == TypeOK /\ Placed

-----------------------------------------------------------------------------

\* A leaf built from arguments of the right types is a leaf schema, with the
\* id and the nonce it was built for.
LEMMA NewLeaf ==
  ASSUME NEW slab \in Slab, NEW owner \in Key, NEW del \in Key, NEW nonce \in Indices,
         NEW data_hash \in DataHash, NEW creator_hash \in CreatorHash
  PROVE  LET leaf == new_v0(slab, owner, del, nonce, data_hash, creator_hash)
         IN  /\ leaf \in LeafSchema
             /\ leaf.id = <<slab, nonce>> /\ leaf.nonce = nonce
             /\ leaf.owner = owner /\ leaf.delegate = del
             /\ leaf.data_hash = data_hash /\ leaf.creator_hash = creator_hash
  BY DEF new_v0, LeafSchema, get_asset_id

\* Nodes of leaves are nodes, and differ from the empty one.
LEMMA LeafNode ==
  ASSUME NEW leaf \in LeafSchema
  PROVE  to_node(leaf) \in Node /\ to_node(leaf) # EMPTY /\ to_node(leaf)[1] = leaf
  BY DEF to_node, Node, EMPTY

\* A node that is not empty is that of a leaf.
LEMMA NodeLeaf ==
  ASSUME NEW node \in Node, node # EMPTY
  PROVE  node[1] \in LeafSchema /\ node = to_node(node[1])
  BY DEF to_node, Node, EMPTY

\* An account that holds a voucher differs from one that does not exist.
LEMMA VoucherExists ==
  ASSUME NEW voucher \in Voucher
  PROVE  voucher # NoVoucher
  BY DEF Voucher, NoVoucher, EMPTY, LeafSchema

\* The initial state satisfies the invariant.
LEMMA InitPlaced == Init => IInv
  <1> SUFFICES ASSUME Init PROVE IInv
    OBVIOUS
  <1>1. TypeOK
    BY SizeAssumption DEF Init, TypeOK, Node, Indices, Event
  <1>2. Placed
    BY SizeAssumption DEF Init, Placed, CountIsNext, LeavesInPlace, VouchersInPlace,
       RestInPlace, Indices
  <1> QED
    BY <1>1, <1>2 DEF IInv

-----------------------------------------------------------------------------

\* A leaf that an instruction names and the tree accepts is the one that the
\* invariant puts there, so index and nonce agree.
LEMMA NamedLeaf ==
  ASSUME IInv, NEW slab \in Slab, NEW leaf \in LeafSchema, NEW index \in Indices,
         leaves[slab][index] = to_node(leaf)
  PROVE  /\ leaf.nonce = index /\ leaf.id = <<slab, index>> /\ index < next[slab]
         /\ vouchers[slab][index] = NoVoucher /\ supply[slab][index] = 0
         /\ <<slab, index>> \notin burnt
  BY LeafNode DEF IInv, Placed, LeavesInPlace

\* create_tree changes nothing that the invariant is about.
LEMMA CreateTreePlaced ==
  ASSUME IInv, NEW slab \in Slab, NEW key \in Key, create_tree(slab, key)
  PROVE  IInv'
  BY DEF create_tree, IInv, TypeOK, Placed, CountIsNext, LeavesInPlace, VouchersInPlace, RestInPlace

\* Neither does compress.
LEMMA CompressPlaced ==
  ASSUME IInv, NEW slab \in Slab, NEW owner \in Key, NEW payer \in Key,
         compress(slab, owner, payer)
  PROVE  IInv'
  BY DEF compress, IInv, TypeOK, Placed, CountIsNext, LeavesInPlace, VouchersInPlace, RestInPlace

\* mint_v1 puts the leaf with the next nonce at the next index.
LEMMA MintPlaced ==
  ASSUME IInv, NEW slab \in Slab, NEW mint_authority \in Key, NEW owner \in Key,
         NEW del \in Key, NEW message \in Metadata,
         mint_v1(slab, mint_authority, owner, del, message)
  PROVE  IInv'
  <1> DEFINE nonce == count[slab]
             leaf == new_v0(slab, owner, del, nonce, hash_metadata(message), hash_creators(message))
  <1>1. nonce = next[slab] /\ nonce \in Indices /\ nonce + 1 \in 0..Size
    BY SizeAssumption DEF mint_v1, append_leaf, IInv, Placed, CountIsNext, TypeOK, Indices
  <1>2. leaf \in LeafSchema /\ leaf.id = <<slab, nonce>> /\ leaf.nonce = nonce
    <2>1. hash_metadata(message) \in DataHash /\ hash_creators(message) \in CreatorHash
      BY DEF DataHash, CreatorHash
    <2> QED
      BY <1>1, <2>1, NewLeaf
  <1>3. to_node(leaf) \in Node /\ to_node(leaf) # EMPTY /\ to_node(leaf)[1] = leaf
    BY <1>2, LeafNode
  <1> HIDE DEF leaf
  <1>4. /\ leaves' = [leaves EXCEPT ![slab][nonce] = to_node(leaf)]
        /\ next' = [next EXCEPT ![slab] = nonce + 1]
        /\ count' = [count EXCEPT ![slab] = nonce + 1]
        /\ event' = [event EXCEPT ![slab][nonce] = LeafSchemaEvent(leaf)]
        /\ signers' = {mint_authority}
        /\ UNCHANGED <<creator, vouchers, supply, burnt>>
    BY <1>1 DEF mint_v1, append_leaf, Emit, IInv, TypeOK, leaf
  <1> HIDE DEF nonce
  <1>5. TypeOK'
    BY <1>1, <1>2, <1>3, <1>4 DEF IInv, TypeOK, Event
  <1>6. /\ leaves[slab][nonce] = EMPTY /\ vouchers[slab][nonce] = NoVoucher
        /\ supply[slab][nonce] = 0 /\ <<slab, nonce>> \notin burnt
    BY <1>1 DEF IInv, Placed, LeavesInPlace, VouchersInPlace, RestInPlace, TypeOK
  <1>7. Placed'
    <2>1. CountIsNext'
      BY <1>4 DEF IInv, TypeOK, Placed, CountIsNext
    <2>2. LeavesInPlace'
      <3> SUFFICES ASSUME NEW s \in Slab, NEW i \in Indices, leaves'[s][i] # EMPTY
                   PROVE  /\ leaves'[s][i][1].id = <<s, i>> /\ leaves'[s][i][1].nonce = i
                          /\ i < next'[s]
                          /\ vouchers[s][i] = NoVoucher /\ supply[s][i] = 0 /\ <<s, i>> \notin burnt
        BY <1>4 DEF LeavesInPlace
      <3>1. CASE s = slab /\ i = nonce
        <4>1. leaves'[s][i] = to_node(leaf) /\ next'[s] = nonce + 1
          BY <3>1, <1>4 DEF IInv, TypeOK
        <4>2. i < next'[s]
          BY <4>1, <3>1, <1>1 DEF Indices
        <4> QED
          BY <4>1, <4>2, <3>1, <1>2, <1>3, <1>6
      <3>2. CASE ~(s = slab /\ i = nonce)
        <4>1. leaves'[s][i] = leaves[s][i] /\ next[s] <= next'[s] /\ next'[s] \in Nat
          BY <3>2, <1>1, <1>4 DEF IInv, TypeOK
        <4>2. next[s] \in Nat /\ i \in Nat
          BY DEF IInv, TypeOK, Indices
        <4> QED
          BY <4>1, <4>2 DEF IInv, Placed, LeavesInPlace
      <3> QED
        BY <3>1, <3>2
    <2>3. VouchersInPlace'
      BY <1>1, <1>4, <1>6 DEF IInv, TypeOK, Placed, VouchersInPlace, Indices
    <2>4. RestInPlace'
      <3> SUFFICES ASSUME NEW s \in Slab, NEW n \in Indices,
                          leaves'[s][n] = EMPTY, vouchers[s][n] = NoVoucher
                   PROVE  IF n < next'[s] THEN supply[s][n] = 0 <=> <<s, n>> \in burnt
                                          ELSE supply[s][n] = 0 /\ <<s, n>> \notin burnt
        BY <1>4 DEF RestInPlace
      <3>1. ~(s = slab /\ n = nonce)
        BY <1>1, <1>3, <1>4 DEF IInv, TypeOK
      <3>2. leaves'[s][n] = leaves[s][n]
        BY <3>1, <1>4 DEF IInv, TypeOK
      <3>3. n < next'[s] <=> n < next[s]
        BY <3>1, <1>1, <1>4 DEF IInv, TypeOK, Indices
      <3> QED
        BY <3>2, <3>3 DEF IInv, Placed, RestInPlace
    <2> QED
      BY <2>1, <2>2, <2>3, <2>4 DEF Placed
  <1> QED
    BY <1>5, <1>7 DEF IInv

\* Replacing a leaf by another of the same asset keeps everything in place.
LEMMA RewritePlaced ==
  ASSUME IInv, NEW slab \in Slab, NEW leaf \in LeafSchema, NEW new_leaf \in LeafSchema,
         NEW index \in Indices,
         new_leaf.id = leaf.id, new_leaf.nonce = leaf.nonce,
         replace_leaf(slab, to_node(leaf), to_node(new_leaf), index),
         Emit(slab, leaf.nonce, LeafSchemaEvent(new_leaf)),
         signers' \in SUBSET Key,
         UNCHANGED <<creator, count, vouchers, supply, burnt>>
  PROVE  IInv'
  <1>1. /\ leaf.nonce = index /\ leaf.id = <<slab, index>> /\ index < next[slab]
        /\ vouchers[slab][index] = NoVoucher /\ supply[slab][index] = 0
        /\ <<slab, index>> \notin burnt
    BY NamedLeaf DEF replace_leaf
  <1>2. to_node(new_leaf) \in Node /\ to_node(new_leaf) # EMPTY /\ to_node(new_leaf)[1] = new_leaf
    BY LeafNode
  <1>3. /\ leaves' = [leaves EXCEPT ![slab][index] = to_node(new_leaf)]
        /\ next' = next
        /\ event' = [event EXCEPT ![slab][index] = LeafSchemaEvent(new_leaf)]
    BY <1>1 DEF replace_leaf, Emit, IInv, TypeOK
  <1>4. TypeOK'
    BY <1>2, <1>3 DEF IInv, TypeOK, Event
  <1>5. Placed'
    BY <1>1, <1>2, <1>3
    DEF IInv, TypeOK, Placed, CountIsNext, LeavesInPlace, VouchersInPlace, RestInPlace
  <1> QED
    BY <1>4, <1>5 DEF IInv

\* transfer rewrites the leaf for the new owner.
LEMMA TransferPlaced ==
  ASSUME IInv, NEW slab \in Slab, NEW leaf \in LeafSchema, leaf.id = <<slab, leaf.nonce>>,
         NEW new_owner \in Key, NEW index \in Indices, NEW signed \in SUBSET Key,
         transfer(slab, leaf, new_owner, index, signed)
  PROVE  IInv'
  <1> DEFINE new_leaf == TransferredLeaf(slab, leaf, new_owner)
  <1>1. new_leaf \in LeafSchema /\ new_leaf.id = leaf.id /\ new_leaf.nonce = leaf.nonce
    <2>1. /\ leaf.nonce \in Indices /\ leaf.data_hash \in DataHash
          /\ leaf.creator_hash \in CreatorHash
      BY DEF LeafSchema
    <2> QED
      BY <2>1, NewLeaf DEF TransferredLeaf
  <1> HIDE DEF new_leaf
  <1>2. /\ replace_leaf(slab, to_node(leaf), to_node(new_leaf), index)
        /\ Emit(slab, leaf.nonce, LeafSchemaEvent(new_leaf))
        /\ signers' \in SUBSET Key
        /\ UNCHANGED <<creator, count, vouchers, supply, burnt>>
    BY DEF transfer, new_leaf
  <1> QED
    BY <1>1, <1>2, RewritePlaced

\* delegate rewrites it for the new delegate.
LEMMA DelegatePlaced ==
  ASSUME IInv, NEW slab \in Slab, NEW leaf \in LeafSchema, leaf.id = <<slab, leaf.nonce>>,
         NEW new_delegate \in Key, NEW index \in Indices,
         delegate(slab, leaf, new_delegate, index)
  PROVE  IInv'
  <1> DEFINE new_leaf == new_v0(slab, leaf.owner, new_delegate, leaf.nonce,
                                leaf.data_hash, leaf.creator_hash)
  <1>1. /\ leaf.owner \in Key /\ leaf.nonce \in Indices /\ leaf.data_hash \in DataHash
        /\ leaf.creator_hash \in CreatorHash
    BY DEF LeafSchema
  <1>2. new_leaf \in LeafSchema /\ new_leaf.id = leaf.id /\ new_leaf.nonce = leaf.nonce
    BY <1>1, NewLeaf
  <1>3. /\ replace_leaf(slab, to_node(leaf), to_node(new_leaf), index)
        /\ Emit(slab, leaf.nonce, LeafSchemaEvent(new_leaf))
        /\ signers' \in SUBSET Key
        /\ UNCHANGED <<creator, count, vouchers, supply, burnt>>
    BY <1>1 DEF delegate, DelegateEvent
  <1> HIDE DEF new_leaf
  <1> QED
    BY <1>2, <1>3, RewritePlaced

\* What burn and redeem have in common: the leaf becomes empty.
LEMMA Emptied ==
  ASSUME IInv, NEW slab \in Slab, NEW leaf \in LeafSchema, NEW index \in Indices,
         replace_leaf(slab, to_node(leaf), EMPTY, index),
         Emit(slab, leaf.nonce, LeafSchemaEvent(leaf))
  PROVE  /\ leaf.nonce = index /\ leaf.id = <<slab, index>> /\ index < next[slab]
         /\ vouchers[slab][index] = NoVoucher /\ supply[slab][index] = 0
         /\ <<slab, index>> \notin burnt
         /\ leaves' = [leaves EXCEPT ![slab][index] = EMPTY]
         /\ next' = next
         /\ event' = [event EXCEPT ![slab][index] = LeafSchemaEvent(leaf)]
         /\ EMPTY \in Node /\ LeafSchemaEvent(leaf) \in Event
  <1>1. /\ leaf.nonce = index /\ leaf.id = <<slab, index>> /\ index < next[slab]
        /\ vouchers[slab][index] = NoVoucher /\ supply[slab][index] = 0
        /\ <<slab, index>> \notin burnt
    BY NamedLeaf DEF replace_leaf
  <1>2. next' = next
    BY <1>1 DEF replace_leaf, IInv, TypeOK
  <1>3. EMPTY \in Node /\ LeafSchemaEvent(leaf) \in Event
    BY DEF Node, Event
  <1> QED
    BY <1>1, <1>2, <1>3 DEF replace_leaf, Emit

\* burn leaves the asset without a home, and on record.
LEMMA BurnPlaced ==
  ASSUME IInv, NEW slab \in Slab, NEW leaf \in LeafSchema, NEW index \in Indices,
         NEW signed \in SUBSET Key, burn(slab, leaf, index, signed)
  PROVE  IInv'
  <1>1. /\ leaf.nonce = index /\ leaf.id = <<slab, index>> /\ index < next[slab]
        /\ vouchers[slab][index] = NoVoucher /\ supply[slab][index] = 0
        /\ <<slab, index>> \notin burnt
        /\ leaves' = [leaves EXCEPT ![slab][index] = EMPTY]
        /\ next' = next
        /\ event' = [event EXCEPT ![slab][index] = LeafSchemaEvent(leaf)]
        /\ EMPTY \in Node /\ LeafSchemaEvent(leaf) \in Event
    <2>1. /\ replace_leaf(slab, to_node(leaf), EMPTY, index)
          /\ Emit(slab, leaf.nonce, LeafSchemaEvent(leaf))
      BY DEF burn
    <2> QED
      BY <2>1, Emptied
  <1>2. /\ burnt' = burnt \cup {<<slab, index>>}
        /\ signers' \in SUBSET Key
        /\ UNCHANGED <<creator, count, vouchers, supply>>
    BY <1>1 DEF burn
  <1>3. TypeOK'
    BY <1>1, <1>2 DEF IInv, TypeOK
  <1>4. CountIsNext' /\ LeavesInPlace'
    BY <1>1, <1>2 DEF IInv, TypeOK, Placed, CountIsNext, LeavesInPlace
  <1>5. VouchersInPlace'
    BY <1>1, <1>2 DEF IInv, TypeOK, Placed, VouchersInPlace
  <1>6. RestInPlace'
    BY <1>1, <1>2 DEF IInv, TypeOK, Placed, RestInPlace
  <1> QED
    BY <1>3, <1>4, <1>5, <1>6 DEF IInv, Placed

\* redeem moves the leaf to the voucher of its nonce.
LEMMA RedeemPlaced ==
  ASSUME IInv, NEW slab \in Slab, NEW leaf \in LeafSchema, NEW index \in Indices,
         redeem(slab, leaf, index)
  PROVE  IInv'
  <1> DEFINE voucher == [leaf_schema |-> leaf, index |-> index, merkle_slab |-> slab]
  <1>1. /\ leaf.nonce = index /\ leaf.id = <<slab, index>> /\ index < next[slab]
        /\ supply[slab][index] = 0 /\ <<slab, index>> \notin burnt
        /\ leaves' = [leaves EXCEPT ![slab][index] = EMPTY]
        /\ next' = next
        /\ event' = [event EXCEPT ![slab][index] = LeafSchemaEvent(leaf)]
        /\ EMPTY \in Node /\ LeafSchemaEvent(leaf) \in Event
    BY Emptied DEF redeem
  <1>2. /\ voucher \in Voucher /\ voucher.leaf_schema = leaf
        /\ voucher.index = index /\ voucher.merkle_slab = slab
    BY DEF Voucher
  <1>3. voucher # NoVoucher
    BY <1>2, VoucherExists
  <1>4. /\ vouchers' = [vouchers EXCEPT ![slab][index] = voucher]
        /\ signers' \in SUBSET Key
        /\ UNCHANGED <<creator, count, supply, burnt>>
    BY <1>1 DEF redeem, LeafSchema
  <1> HIDE DEF voucher
  <1>5. TypeOK'
    BY <1>1, <1>2, <1>4 DEF IInv, TypeOK
  <1>6. CountIsNext' /\ LeavesInPlace'
    BY <1>1, <1>4 DEF IInv, TypeOK, Placed, CountIsNext, LeavesInPlace
  <1>7. VouchersInPlace'
    <2> SUFFICES ASSUME NEW s \in Slab, NEW n \in Indices, vouchers'[s][n] # NoVoucher
                 PROVE  /\ vouchers'[s][n].leaf_schema.id = <<s, n>>
                        /\ vouchers'[s][n].leaf_schema.nonce = n
                        /\ vouchers'[s][n].index = n /\ vouchers'[s][n].merkle_slab = s
                        /\ n < next[s]
                        /\ leaves'[s][n] = EMPTY /\ supply[s][n] = 0 /\ <<s, n>> \notin burnt
      BY <1>1, <1>4 DEF VouchersInPlace
    <2>1. CASE s = slab /\ n = index
      <3>1. vouchers'[s][n] = voucher /\ leaves'[s][n] = EMPTY
        BY <2>1, <1>1, <1>4 DEF IInv, TypeOK
      <3> QED
        BY <3>1, <2>1, <1>1, <1>2
    <2>2. CASE ~(s = slab /\ n = index)
      <3>1. vouchers'[s][n] = vouchers[s][n] /\ leaves'[s][n] = leaves[s][n]
        BY <2>2, <1>1, <1>4 DEF IInv, TypeOK
      <3> QED
        BY <3>1 DEF IInv, Placed, VouchersInPlace
    <2> QED
      BY <2>1, <2>2
  <1>8. RestInPlace'
    BY <1>1, <1>3, <1>4 DEF IInv, TypeOK, Placed, RestInPlace
  <1> QED
    BY <1>5, <1>6, <1>7, <1>8 DEF IInv, Placed

\* cancel_redeem moves it back to the same leaf, which the voucher kept free.
LEMMA CancelPlaced ==
  ASSUME IInv, NEW merkle_slab \in Slab, NEW slab \in Slab, NEW nonce \in Indices,
         NEW owner \in Key, cancel_redeem(merkle_slab, slab, nonce, owner)
  PROVE  IInv'
  <1> DEFINE leaf == vouchers[slab][nonce].leaf_schema
  <1>1. /\ merkle_slab = slab /\ vouchers[slab][nonce] # NoVoucher
        /\ vouchers[slab][nonce].index = nonce
        /\ leaf.id = <<slab, nonce>> /\ leaf.nonce = nonce /\ nonce < next[slab]
        /\ leaves[slab][nonce] = EMPTY /\ supply[slab][nonce] = 0
        /\ <<slab, nonce>> \notin burnt
    BY DEF cancel_redeem, VoucherFor, IInv, Placed, VouchersInPlace
  <1>2. leaf \in LeafSchema
    BY <1>1 DEF IInv, TypeOK, Voucher
  <1>3. to_node(leaf) \in Node /\ to_node(leaf) # EMPTY /\ to_node(leaf)[1] = leaf
    BY <1>2, LeafNode
  <1>4. /\ leaves' = [leaves EXCEPT ![slab][nonce] = to_node(leaf)]
        /\ vouchers' = [vouchers EXCEPT ![slab][nonce] = NoVoucher]
        /\ event' = [event EXCEPT ![slab][nonce] = LeafSchemaEvent(leaf)]
        /\ signers' \in SUBSET Key
        /\ UNCHANGED <<creator, count, supply, burnt>>
    BY <1>1 DEF cancel_redeem, replace_leaf, Close, Emit
  <1>5. next' = next
    BY <1>1 DEF cancel_redeem, replace_leaf, IInv, TypeOK
  <1> HIDE DEF leaf
  <1>6. TypeOK'
    BY <1>2, <1>3, <1>4, <1>5 DEF IInv, TypeOK, Event
  <1>7. CountIsNext' /\ VouchersInPlace'
    BY <1>4, <1>5 DEF IInv, TypeOK, Placed, CountIsNext, VouchersInPlace
  <1>8. LeavesInPlace'
    <2> SUFFICES ASSUME NEW s \in Slab, NEW i \in Indices, leaves'[s][i] # EMPTY
                 PROVE  /\ leaves'[s][i][1].id = <<s, i>> /\ leaves'[s][i][1].nonce = i
                        /\ i < next[s]
                        /\ vouchers'[s][i] = NoVoucher /\ supply[s][i] = 0 /\ <<s, i>> \notin burnt
      BY <1>4, <1>5 DEF LeavesInPlace
    <2>1. CASE s = slab /\ i = nonce
      <3>1. leaves'[s][i] = to_node(leaf) /\ vouchers'[s][i] = NoVoucher
        BY <2>1, <1>4 DEF IInv, TypeOK
      <3> QED
        BY <3>1, <2>1, <1>1, <1>3 DEF leaf
    <2>2. CASE ~(s = slab /\ i = nonce)
      <3>1. leaves'[s][i] = leaves[s][i] /\ vouchers'[s][i] = vouchers[s][i]
        BY <2>2, <1>4 DEF IInv, TypeOK
      <3> QED
        BY <3>1 DEF IInv, Placed, LeavesInPlace
    <2> QED
      BY <2>1, <2>2
  <1>9. RestInPlace'
    BY <1>3, <1>4, <1>5 DEF IInv, TypeOK, Placed, RestInPlace
  <1> QED
    BY <1>6, <1>7, <1>8, <1>9 DEF IInv, Placed

\* decompress_v1 turns the voucher into a token.
LEMMA DecompressPlaced ==
  ASSUME IInv, NEW slab \in Slab, NEW nonce \in Indices, NEW owner \in Key,
         NEW metadata \in Metadata, decompress_v1(slab, nonce, owner, metadata)
  PROVE  IInv'
  <1>1. /\ vouchers[slab][nonce] # NoVoucher /\ nonce < next[slab]
        /\ leaves[slab][nonce] = EMPTY /\ supply[slab][nonce] = 0
        /\ <<slab, nonce>> \notin burnt
    BY DEF decompress_v1, IInv, Placed, VouchersInPlace
  <1>2. /\ supply' = [supply EXCEPT ![slab][nonce] = 1]
        /\ vouchers' = [vouchers EXCEPT ![slab][nonce] = NoVoucher]
        /\ event' = [event EXCEPT ![slab][nonce] = NFTDecompressionEvent]
        /\ signers' \in SUBSET Key
        /\ UNCHANGED <<creator, count, leaves, next, burnt>>
    BY <1>1 DEF decompress_v1, Close, Emit, IInv, TypeOK
  <1>3. TypeOK'
    BY <1>2 DEF IInv, TypeOK, Event
  <1>4. CountIsNext' /\ LeavesInPlace' /\ VouchersInPlace'
    BY <1>1, <1>2 DEF IInv, TypeOK, Placed, CountIsNext, LeavesInPlace, VouchersInPlace
  <1>5. RestInPlace'
    <2> SUFFICES ASSUME NEW s \in Slab, NEW n \in Indices,
                        leaves[s][n] = EMPTY, vouchers'[s][n] = NoVoucher
                 PROVE  IF n < next[s] THEN supply'[s][n] = 0 <=> <<s, n>> \in burnt
                                       ELSE supply'[s][n] = 0 /\ <<s, n>> \notin burnt
      BY <1>2 DEF RestInPlace
    <2>1. CASE s = slab /\ n = nonce
      <3>1. supply'[s][n] = 1
        BY <2>1, <1>2 DEF IInv, TypeOK
      <3> QED
        BY <3>1, <2>1, <1>1
    <2>2. CASE ~(s = slab /\ n = nonce)
      <3>1. supply'[s][n] = supply[s][n] /\ vouchers'[s][n] = vouchers[s][n]
        BY <2>2, <1>2 DEF IInv, TypeOK
      <3> QED
        BY <3>1 DEF IInv, Placed, RestInPlace
    <2> QED
      BY <2>1, <2>2
  <1> QED
    BY <1>3, <1>4, <1>5 DEF IInv, Placed

\* Every instruction, or none, preserves the invariant.
LEMMA StepPlaced == IInv /\ [Next]_vars => IInv'
  <1> SUFFICES ASSUME IInv, [Next]_vars PROVE IInv'
    OBVIOUS
  <1>1. CASE UNCHANGED vars
    BY <1>1 DEF vars, IInv, TypeOK, Placed, CountIsNext, LeavesInPlace, VouchersInPlace, RestInPlace
  <1>2. ASSUME NEW slab \in Slab, NEW key \in Key, create_tree(slab, key) PROVE IInv'
    BY <1>2, CreateTreePlaced
  <1>3. ASSUME NEW slab \in Slab, NEW mint_authority \in Key, NEW owner \in Key,
               NEW del \in Key, NEW message \in Metadata,
               mint_v1(slab, mint_authority, owner, del, message)
        PROVE  IInv'
    BY <1>3, MintPlaced
  <1>4. ASSUME NEW slab \in Slab, NEW owner \in Key, NEW del \in Key, NEW nonce \in Indices,
               NEW index \in Indices, NEW data_hash \in DataHash,
               NEW creator_hash \in CreatorHash, NEW leaf,
               leaf = new_v0(slab, owner, del, nonce, data_hash, creator_hash),
               \/ \E new_owner \in Key, signed \in SUBSET Key :
                    transfer(slab, leaf, new_owner, index, signed)
               \/ \E new_delegate \in Key : delegate(slab, leaf, new_delegate, index)
               \/ \E signed \in SUBSET Key : burn(slab, leaf, index, signed)
               \/ redeem(slab, leaf, index)
        PROVE  IInv'
    <2>1. leaf \in LeafSchema /\ leaf.id = <<slab, leaf.nonce>>
      BY <1>4, NewLeaf
    <2> QED
      BY <1>4, <2>1, TransferPlaced, DelegatePlaced, BurnPlaced, RedeemPlaced
  <1>5. ASSUME NEW slab \in Slab, NEW merkle_slab \in Slab, NEW nonce \in Indices,
               NEW owner \in Key, cancel_redeem(merkle_slab, slab, nonce, owner)
        PROVE  IInv'
    BY <1>5, CancelPlaced
  <1>6. ASSUME NEW slab \in Slab, NEW nonce \in Indices, NEW owner \in Key,
               NEW metadata \in Metadata, decompress_v1(slab, nonce, owner, metadata)
        PROVE  IInv'
    BY <1>6, DecompressPlaced
  <1>7. ASSUME NEW slab \in Slab, NEW owner \in Key, NEW payer \in Key,
               compress(slab, owner, payer)
        PROVE  IInv'
    BY <1>7, CompressPlaced
  <1> QED
    BY <1>1, <1>2, <1>3, <1>4, <1>5, <1>6, <1>7 DEF Next

-----------------------------------------------------------------------------

\* Everything about an asset stays in place, and accounts keep their types, for
\* any number of trees, leaves, keys and metadata.
THEOREM TypeCorrect == Spec => []TypeOK
  <1>1. IInv => TypeOK
    BY DEF IInv
  <1> QED
    BY InitPlaced, StepPlaced, <1>1, PTL DEF Spec

\* A minted NFT that was not burnt is in exactly one place, whatever mints,
\* transfers, delegations, burns, redemptions, cancellations and decompressions
\* come in whatever order.
THEOREM NftsConserved == Spec => []EveryNftHasOneHome
  <1>1. ASSUME IInv PROVE EveryNftHasOneHome
    <2> SUFFICES ASSUME NEW slab \in Slab, NEW nonce \in Indices
                 PROVE  LET homes == Homes(<<slab, nonce>>)
                        IN  IF nonce < count[slab] /\ <<slab, nonce>> \notin burnt
                            THEN \E kind \in HomeKinds : homes = {<<kind, slab, nonce>>}
                            ELSE homes = {}
      BY DEF EveryNftHasOneHome, get_asset_id
    <2>0. \A s \in Slab, n \in Indices :
            /\ leaves[s][n] # EMPTY => leaves[s][n][1].id = <<s, n>>
            /\ vouchers[s][n] # NoVoucher => vouchers[s][n].leaf_schema.id = <<s, n>>
      <3>1. LeavesInPlace /\ VouchersInPlace
        BY <1>1 DEF IInv, Placed
      <3>2. \A s \in Slab, n \in Indices : leaves[s][n] # EMPTY => leaves[s][n][1].id = <<s, n>>
        BY <3>1, Zenon DEF LeavesInPlace
      <3>3. \A s \in Slab, n \in Indices :
              vouchers[s][n] # NoVoucher => vouchers[s][n].leaf_schema.id = <<s, n>>
        BY <3>1, Zenon DEF VouchersInPlace
      <3> QED
        BY <3>2, <3>3, Zenon
    <2> DEFINE homes == Homes(<<slab, nonce>>)
    <2>1. count[slab] = next[slab]
      BY <1>1 DEF IInv, Placed, CountIsNext
    <2>2. ASSUME NEW h \in homes
          PROVE  \/ h = <<"leaf", slab, nonce>> /\ leaves[slab][nonce] # EMPTY
                 \/ h = <<"voucher", slab, nonce>> /\ vouchers[slab][nonce] # NoVoucher
                 \/ h = <<"token", slab, nonce>> /\ supply[slab][nonce] # 0
      <3>0. /\ h \in {"leaf", "voucher", "token"} \X Slab \X Indices
            /\ IsHome(h[1], h[2], h[3], <<slab, nonce>>)
        BY <2>2 DEF Homes, HomeKinds
      <3>1. PICK kind \in {"leaf", "voucher", "token"}, s \in Slab, n \in Indices :
              h = <<kind, s, n>>
        BY <3>0
      <3>2. IsHome(kind, s, n, <<slab, nonce>>)
        BY <3>0, <3>1
      <3>3. <<s, n>> = <<slab, nonce>>
        BY <2>0, <3>1, <3>2 DEF IsHome, get_asset_id
      <3>4. s = slab /\ n = nonce
        BY <3>3
      <3> QED
        BY <3>1, <3>2, <3>4 DEF IsHome
    <2>3. /\ leaves[slab][nonce] # EMPTY => <<"leaf", slab, nonce>> \in homes
          /\ vouchers[slab][nonce] # NoVoucher => <<"voucher", slab, nonce>> \in homes
          /\ supply[slab][nonce] # 0 => <<"token", slab, nonce>> \in homes
      BY <1>1 DEF Homes, HomeKinds, IsHome, IInv, Placed, LeavesInPlace, VouchersInPlace, get_asset_id
    <2> HIDE DEF homes
    <2>4. CASE leaves[slab][nonce] # EMPTY
      BY <1>1, <2>1, <2>2, <2>3, <2>4 DEF IInv, Placed, LeavesInPlace, HomeKinds, homes
    <2>5. CASE vouchers[slab][nonce] # NoVoucher
      BY <1>1, <2>1, <2>2, <2>3, <2>5 DEF IInv, Placed, VouchersInPlace, HomeKinds, homes
    <2>6. CASE leaves[slab][nonce] = EMPTY /\ vouchers[slab][nonce] = NoVoucher
      BY <1>1, <2>1, <2>2, <2>3, <2>6 DEF IInv, Placed, RestInPlace, HomeKinds, homes
    <2> QED
      BY <2>4, <2>5, <2>6
  <1> QED
    BY InitPlaced, StepPlaced, <1>1, PTL DEF Spec

\* The leaf that a voucher came from stays empty while the voucher exists, so
\* that cancel_redeem can always put it back.
THEOREM VouchersCancellable == Spec => []VoucherSlotKept
  <1>1. ASSUME IInv PROVE VoucherSlotKept
    <2> SUFFICES ASSUME NEW slab \in Slab, NEW nonce \in Indices,
                        vouchers[slab][nonce] # NoVoucher
                 PROVE  /\ vouchers[slab][nonce].merkle_slab = slab
                        /\ vouchers[slab][nonce].index < next[slab]
                        /\ leaves[slab][vouchers[slab][nonce].index] = EMPTY
      BY DEF VoucherSlotKept
    <2>1. /\ vouchers[slab][nonce].index = nonce /\ vouchers[slab][nonce].merkle_slab = slab
          /\ nonce < next[slab] /\ leaves[slab][nonce] = EMPTY
      BY <1>1 DEF IInv, Placed, VouchersInPlace
    <2> QED
      BY <2>1
  <1> QED
    BY InitPlaced, StepPlaced, <1>1, PTL DEF Spec

-----------------------------------------------------------------------------
(* Events and consent. *)

\* A leaf that is written and emitted in the same place is what its event tells.
LEMMA LeafAndEvent ==
  ASSUME TypeOK, EventsTellLeaves, NEW slab \in Slab, NEW index \in Indices,
         NEW leaf \in LeafSchema,
         leaves' = [leaves EXCEPT ![slab][index] = to_node(leaf)],
         event' = [event EXCEPT ![slab][index] = LeafSchemaEvent(leaf)]
  PROVE  EventsTellLeaves'
  <1> SUFFICES ASSUME NEW s \in Slab, NEW i \in Indices, leaves'[s][i] # EMPTY
               PROVE  event'[s][i] = LeafSchemaEvent(leaves'[s][i][1])
    BY DEF EventsTellLeaves
  <1>1. to_node(leaf)[1] = leaf
    BY LeafNode
  <1>2. CASE s = slab /\ i = index
    BY <1>1, <1>2 DEF TypeOK
  <1>3. CASE ~(s = slab /\ i = index)
    <2>1. leaves'[s][i] = leaves[s][i] /\ event'[s][i] = event[s][i]
      BY <1>3 DEF TypeOK
    <2> QED
      BY <2>1 DEF EventsTellLeaves
  <1> QED
    BY <1>2, <1>3

\* Whatever is emitted about an empty leaf.
LEMMA EmptyAndEvent ==
  ASSUME TypeOK, EventsTellLeaves, NEW slab \in Slab, NEW index \in Indices, NEW e,
         leaves' = [leaves EXCEPT ![slab][index] = EMPTY],
         event' = [event EXCEPT ![slab][index] = e]
  PROVE  EventsTellLeaves'
  <1> SUFFICES ASSUME NEW s \in Slab, NEW i \in Indices, leaves'[s][i] # EMPTY
               PROVE  event'[s][i] = LeafSchemaEvent(leaves'[s][i][1])
    BY DEF EventsTellLeaves
  <1>1. ~(s = slab /\ i = index)
    BY DEF TypeOK
  <1>2. leaves'[s][i] = leaves[s][i] /\ event'[s][i] = event[s][i]
    BY <1>1 DEF TypeOK
  <1> QED
    BY <1>2 DEF EventsTellLeaves

\* Rewriting the leaf of an asset: what transfer and delegate do to the tree.
LEMMA Rewritten ==
  ASSUME IInv, NEW slab \in Slab, NEW leaf \in LeafSchema, NEW new_leaf, NEW index \in Indices,
         replace_leaf(slab, to_node(leaf), to_node(new_leaf), index)
  PROVE  /\ leaf.nonce = index /\ leaves[slab][index] = to_node(leaf)
         /\ leaves' = [leaves EXCEPT ![slab][index] = to_node(new_leaf)]
  BY NamedLeaf DEF replace_leaf

\* The leaf that transfer writes belongs to the new owner alone.
LEMMA NewOwnersLeaf ==
  ASSUME NEW slab \in Slab, NEW leaf \in LeafSchema, NEW new_owner \in Key
  PROVE  LET new_leaf == TransferredLeaf(slab, leaf, new_owner)
         IN  new_leaf \in LeafSchema /\ new_leaf.owner = new_owner /\ new_leaf.delegate = new_owner
  <1>1. leaf.nonce \in Indices /\ leaf.data_hash \in DataHash /\ leaf.creator_hash \in CreatorHash
    BY DEF LeafSchema
  <1> QED
    BY <1>1, NewLeaf DEF TransferredLeaf

\* What the instructions on a leaf do to events and consent.
LEMMA LeafInstruction ==
  ASSUME IInv, EventsTellLeaves, NEW slab \in Slab, NEW leaf \in LeafSchema, NEW index \in Indices,
         leaf.id = <<slab, leaf.nonce>>,
         \/ \E new_owner \in Key, signed \in SUBSET Key :
              transfer(slab, leaf, new_owner, index, signed)
         \/ \E new_delegate \in Key : delegate(slab, leaf, new_delegate, index)
         \/ \E signed \in SUBSET Key : burn(slab, leaf, index, signed)
         \/ redeem(slab, leaf, index)
  PROVE  EventsTellLeaves' /\ Consented
  <1>0. TypeOK
    BY DEF IInv
  <1>1. to_node(leaf)[1] = leaf
    BY LeafNode
  <1>2. ASSUME NEW new_owner \in Key, NEW signed \in SUBSET Key,
               transfer(slab, leaf, new_owner, index, signed)
        PROVE  EventsTellLeaves' /\ Consented
    <2> DEFINE new_leaf == TransferredLeaf(slab, leaf, new_owner)
    <2>1. new_leaf \in LeafSchema /\ new_leaf.owner = new_leaf.delegate
      BY NewOwnersLeaf
    <2>2. /\ leaf.nonce = index /\ leaves[slab][index] = to_node(leaf)
          /\ leaves' = [leaves EXCEPT ![slab][index] = to_node(new_leaf)]
      BY <1>2, Rewritten DEF transfer
    <2>3. /\ event' = [event EXCEPT ![slab][index] = LeafSchemaEvent(new_leaf)]
          /\ leaf.owner \in signers' \/ leaf.delegate \in signers'
          /\ vouchers' = vouchers
      BY <1>2, <2>2 DEF transfer, Emit, HolderSigned
    <2> HIDE DEF new_leaf
    <2>4. EventsTellLeaves'
      BY <1>0, <2>1, <2>2, <2>3, LeafAndEvent
    <2>5. to_node(new_leaf)[1] = new_leaf
      BY <2>1, LeafNode
    <2>6. Consented
      BY <1>0, <1>1, <2>1, <2>2, <2>3, <2>5 DEF Consented, TypeOK
    <2> QED
      BY <2>4, <2>6
  <1>3. ASSUME NEW new_delegate \in Key, delegate(slab, leaf, new_delegate, index)
        PROVE  EventsTellLeaves' /\ Consented
    <2> DEFINE new_leaf == new_v0(slab, leaf.owner, new_delegate, leaf.nonce,
                                  leaf.data_hash, leaf.creator_hash)
    <2>1. new_leaf \in LeafSchema
      <3>1. /\ leaf.owner \in Key /\ leaf.nonce \in Indices /\ leaf.data_hash \in DataHash
            /\ leaf.creator_hash \in CreatorHash
        BY DEF LeafSchema
      <3> QED
        BY <3>1, NewLeaf
    <2>2. /\ leaf.nonce = index /\ leaves[slab][index] = to_node(leaf)
          /\ leaves' = [leaves EXCEPT ![slab][index] = to_node(new_leaf)]
      BY <1>3, Rewritten DEF delegate
    <2>3. /\ event' = [event EXCEPT ![slab][index] = LeafSchemaEvent(new_leaf)]
          /\ leaf.owner \in signers' /\ vouchers' = vouchers
      BY <1>3, <2>2 DEF delegate, DelegateEvent, Emit
    <2> HIDE DEF new_leaf
    <2>4. EventsTellLeaves'
      BY <1>0, <2>1, <2>2, <2>3, LeafAndEvent
    <2>5. Consented
      BY <1>0, <1>1, <2>2, <2>3 DEF Consented, TypeOK
    <2> QED
      BY <2>4, <2>5
  <1>4. ASSUME replace_leaf(slab, to_node(leaf), EMPTY, index),
               Emit(slab, leaf.nonce, LeafSchemaEvent(leaf))
        PROVE  /\ leaf.nonce = index /\ leaves[slab][index] = to_node(leaf)
               /\ leaves' = [leaves EXCEPT ![slab][index] = EMPTY]
               /\ vouchers[slab][index] = NoVoucher
               /\ EventsTellLeaves'
    <2>1. leaves[slab][index] = to_node(leaf)
      BY <1>4 DEF replace_leaf
    <2>2. /\ leaf.nonce = index /\ vouchers[slab][index] = NoVoucher
          /\ leaves' = [leaves EXCEPT ![slab][index] = EMPTY]
          /\ event' = [event EXCEPT ![slab][index] = LeafSchemaEvent(leaf)]
      BY <1>4, Emptied
    <2> QED
      BY <1>0, <2>1, <2>2, EmptyAndEvent
  <1>5. ASSUME NEW signed \in SUBSET Key, burn(slab, leaf, index, signed)
        PROVE  EventsTellLeaves' /\ Consented
    <2>1. /\ leaf.nonce = index /\ leaves[slab][index] = to_node(leaf)
          /\ leaves' = [leaves EXCEPT ![slab][index] = EMPTY]
          /\ EventsTellLeaves'
      BY <1>4, <1>5 DEF burn
    <2>2. (leaf.owner \in signers' \/ leaf.delegate \in signers') /\ vouchers' = vouchers
      BY <1>5 DEF burn, HolderSigned
    <2> QED
      BY <1>0, <1>1, <2>1, <2>2 DEF Consented, TypeOK
  <1>6. ASSUME redeem(slab, leaf, index)
        PROVE  EventsTellLeaves' /\ Consented
    <2>1. /\ leaf.nonce = index /\ leaves[slab][index] = to_node(leaf)
          /\ leaves' = [leaves EXCEPT ![slab][index] = EMPTY]
          /\ vouchers[slab][index] = NoVoucher
          /\ EventsTellLeaves'
      BY <1>4, <1>6 DEF redeem
    <2>2. /\ vouchers' = [vouchers EXCEPT ![slab][index] =
                            [leaf_schema |-> leaf, index |-> index, merkle_slab |-> slab]]
          /\ leaf.owner \in signers'
      BY <1>6, <2>1 DEF redeem
    <2> QED
      BY <1>0, <1>1, <2>1, <2>2 DEF Consented, TypeOK
  <1> QED
    BY <1>2, <1>3, <1>5, <1>6

\* What the instructions on a voucher do to them.
LEMMA VoucherInstruction ==
  ASSUME IInv, EventsTellLeaves, NEW slab \in Slab, NEW nonce \in Indices, NEW owner \in Key,
         \/ \E merkle_slab \in Slab : cancel_redeem(merkle_slab, slab, nonce, owner)
         \/ \E metadata \in Metadata : decompress_v1(slab, nonce, owner, metadata)
  PROVE  EventsTellLeaves' /\ Consented
  <1>0. TypeOK
    BY DEF IInv
  <1>1. ASSUME NEW merkle_slab \in Slab, cancel_redeem(merkle_slab, slab, nonce, owner)
        PROVE  EventsTellLeaves' /\ Consented
    <2> DEFINE leaf == vouchers[slab][nonce].leaf_schema
    <2>1. /\ merkle_slab = slab /\ vouchers[slab][nonce] # NoVoucher
          /\ vouchers[slab][nonce].index = nonce /\ leaves[slab][nonce] = EMPTY
      BY <1>1 DEF cancel_redeem, VoucherFor, IInv, Placed, VouchersInPlace
    <2>2. leaf \in LeafSchema
      BY <1>0, <2>1 DEF TypeOK, Voucher
    <2>3. /\ leaves' = [leaves EXCEPT ![slab][nonce] = to_node(leaf)]
          /\ vouchers' = [vouchers EXCEPT ![slab][nonce] = NoVoucher]
          /\ event' = [event EXCEPT ![slab][nonce] = LeafSchemaEvent(leaf)]
          /\ leaf.owner \in signers'
      BY <1>1, <2>1 DEF cancel_redeem, replace_leaf, Close, Emit
    <2>4. EventsTellLeaves'
      BY <1>0, <2>2, <2>3, LeafAndEvent
    <2>5. Consented
      BY <1>0, <2>1, <2>3 DEF Consented, TypeOK
    <2> QED
      BY <2>4, <2>5
  <1>2. ASSUME NEW metadata \in Metadata, decompress_v1(slab, nonce, owner, metadata)
        PROVE  EventsTellLeaves' /\ Consented
    <2>1. vouchers[slab][nonce] # NoVoucher /\ leaves[slab][nonce] = EMPTY
      BY <1>2 DEF decompress_v1, IInv, Placed, VouchersInPlace
    <2>2. /\ leaves' = leaves
          /\ vouchers' = [vouchers EXCEPT ![slab][nonce] = NoVoucher]
          /\ event' = [event EXCEPT ![slab][nonce] = NFTDecompressionEvent]
          /\ vouchers[slab][nonce].leaf_schema.owner \in signers'
      BY <1>2 DEF decompress_v1, Decompressible, Close, Emit
    <2>3. EventsTellLeaves'
      BY <1>0, <2>1, <2>2 DEF EventsTellLeaves, TypeOK
    <2>4. Consented
      BY <1>0, <2>2 DEF Consented, TypeOK
    <2> QED
      BY <2>3, <2>4
  <1> QED
    BY <1>1, <1>2

\* mint_v1 emits the leaf it appends, where there was none.
LEMMA MintInstruction ==
  ASSUME IInv, EventsTellLeaves, NEW slab \in Slab, NEW mint_authority \in Key, NEW owner \in Key,
         NEW del \in Key, NEW message \in Metadata,
         mint_v1(slab, mint_authority, owner, del, message)
  PROVE  EventsTellLeaves' /\ Consented
  <1> DEFINE nonce == count[slab]
             leaf == new_v0(slab, owner, del, nonce, hash_metadata(message), hash_creators(message))
  <1>0. TypeOK
    BY DEF IInv
  <1>1. nonce = next[slab] /\ nonce \in Indices
    BY SizeAssumption DEF mint_v1, append_leaf, IInv, Placed, CountIsNext, TypeOK, Indices
  <1>2. leaf \in LeafSchema
    <2>1. hash_metadata(message) \in DataHash /\ hash_creators(message) \in CreatorHash
      BY DEF DataHash, CreatorHash
    <2> QED
      BY <1>1, <2>1, NewLeaf
  <1>3. leaves[slab][nonce] = EMPTY
    <2>1. next[slab] \in Int /\ ~(next[slab] < next[slab])
      BY DEF IInv, TypeOK
    <2> QED
      BY <1>1, <2>1, Zenon DEF IInv, Placed, LeavesInPlace
  <1>4. /\ leaves' = [leaves EXCEPT ![slab][nonce] = to_node(leaf)]
        /\ event' = [event EXCEPT ![slab][nonce] = LeafSchemaEvent(leaf)]
        /\ vouchers' = vouchers
    BY <1>1 DEF mint_v1, append_leaf, Emit
  <1> HIDE DEF leaf, nonce
  <1>5. EventsTellLeaves'
    BY <1>0, <1>1, <1>2, <1>4, LeafAndEvent
  <1>6. Consented
    BY <1>0, <1>1, <1>3, <1>4 DEF Consented, TypeOK
  <1> QED
    BY <1>5, <1>6

\* Every instruction emits what it writes and has the consent that it needs.
LEMMA StepTold ==
  ASSUME IInv, EventsTellLeaves, [Next]_vars
  PROVE  EventsTellLeaves' /\ [Consented]_vars
  <1>1. CASE UNCHANGED vars
    BY <1>1 DEF vars, EventsTellLeaves
  <1>2. ASSUME NEW slab \in Slab, NEW key \in Key, create_tree(slab, key)
        PROVE  EventsTellLeaves' /\ Consented
    BY <1>2 DEF create_tree, EventsTellLeaves, Consented
  <1>3. ASSUME NEW slab \in Slab, NEW mint_authority \in Key, NEW owner \in Key,
               NEW del \in Key, NEW message \in Metadata,
               mint_v1(slab, mint_authority, owner, del, message)
        PROVE  EventsTellLeaves' /\ Consented
    BY <1>3, MintInstruction
  <1>4. ASSUME NEW slab \in Slab, NEW owner \in Key, NEW del \in Key, NEW nonce \in Indices,
               NEW index \in Indices, NEW data_hash \in DataHash,
               NEW creator_hash \in CreatorHash, NEW leaf,
               leaf = new_v0(slab, owner, del, nonce, data_hash, creator_hash),
               \/ \E new_owner \in Key, signed \in SUBSET Key :
                    transfer(slab, leaf, new_owner, index, signed)
               \/ \E new_delegate \in Key : delegate(slab, leaf, new_delegate, index)
               \/ \E signed \in SUBSET Key : burn(slab, leaf, index, signed)
               \/ redeem(slab, leaf, index)
        PROVE  EventsTellLeaves' /\ Consented
    <2>1. leaf \in LeafSchema /\ leaf.id = <<slab, leaf.nonce>>
      BY <1>4, NewLeaf
    <2> QED
      BY <1>4, <2>1, LeafInstruction
  <1>5. ASSUME NEW slab \in Slab, NEW merkle_slab \in Slab, NEW nonce \in Indices,
               NEW owner \in Key, cancel_redeem(merkle_slab, slab, nonce, owner)
        PROVE  EventsTellLeaves' /\ Consented
    BY <1>5, VoucherInstruction
  <1>6. ASSUME NEW slab \in Slab, NEW nonce \in Indices, NEW owner \in Key,
               NEW metadata \in Metadata, decompress_v1(slab, nonce, owner, metadata)
        PROVE  EventsTellLeaves' /\ Consented
    BY <1>6, VoucherInstruction
  <1>7. ASSUME NEW slab \in Slab, NEW owner \in Key, NEW payer \in Key,
               compress(slab, owner, payer)
        PROVE  EventsTellLeaves' /\ Consented
    BY <1>7 DEF compress, EventsTellLeaves, Consented
  <1> QED
    BY <1>1, <1>2, <1>3, <1>4, <1>5, <1>6, <1>7 DEF Next

\* An indexer that sees the events in order knows every leaf: the last event
\* about an asset that is a leaf is that leaf, for any trees, keys and metadata.
THEOREM EventsAreTrue == Spec => []EventsTellLeaves
  <1>1. Init => EventsTellLeaves
    BY DEF Init, EventsTellLeaves
  <1>2. IInv /\ EventsTellLeaves /\ [Next]_vars => EventsTellLeaves'
    BY StepTold
  <1> QED
    BY InitPlaced, StepPlaced, <1>1, <1>2, PTL DEF Spec

\* No instruction, in any state the program can be in, changes an NFT without
\* its owner, or its delegate who thereby loses his rights; and only the owner
\* takes it out of a voucher.
THEOREM ConsentNeeded == Spec => HolderConsents
  <1>1. Init => EventsTellLeaves
    BY DEF Init, EventsTellLeaves
  <1>2. IInv /\ EventsTellLeaves /\ [Next]_vars => EventsTellLeaves' /\ [Consented]_vars
    BY StepTold
  <1> QED
    BY InitPlaced, StepPlaced, <1>1, <1>2, PTL DEF Spec, HolderConsents
=============================================================================
