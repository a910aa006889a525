------------------------------ MODULE Bubblegum ------------------------------
(***************************************************************************)
(* contracts/programs/bubblegum: NFTs kept as leaves of merkle trees.  An  *)
(* NFT is minted into a tree, transferred, delegated and burnt there; it   *)
(* is redeemed into a voucher account, which is either cancelled, putting  *)
(* the leaf back, or decompressed into a token.                            *)
(*                                                                         *)
(* A tree is what MerkleRoll is shown to implement: an array of leaves     *)
(* (module LeafArray).  A replace that the tree accepts finds the previous *)
(* leaf in place; roots and proofs decide only whether it is accepted.     *)
(* An instruction that fails is rolled back by the runtime as a whole.     *)
(***************************************************************************)
EXTENDS Integers

CONSTANTS Slab,       \* accounts that trees are created in
          Size,       \* leaves of a tree, 1 << max_depth
          Key,        \* public keys of users
          NoKey,      \* the creator of a tree that does not exist
          Metadata    \* MetadataArgs: records with creators and token_program_version

ASSUME SizeAssumption == Size \in Nat \ {0}
ASSUME NoKeyAssumption == NoKey \notin Key

VARIABLES creator,    \* slab -> append_authority of its tree
          count,      \* slab -> count of its Nonce account, the tree's authority
          leaves,     \* slab -> index -> node
          next,       \* slab -> number of leaves the tree has appended
          vouchers,   \* slab -> nonce -> the voucher account at this address
          supply,     \* slab -> nonce -> tokens minted for the asset
          burnt,      \* asset ids whose leaf was burnt
          event,      \* slab -> nonce -> the last event emitted about the asset
          signers     \* keys that signed the last transaction

vars == <<creator, count, leaves, next, vouchers, supply, burnt, event, signers>>

Indices == 0 .. Size-1

-----------------------------------------------------------------------------
(* Leaves.  keccak is a free constructor: equal hashes have equal inputs.  *)

hash_metadata(metadata) == <<"data", metadata>>

hash_creators(metadata) == <<"creators", metadata.creators>>

get_asset_id(slab, nonce) == <<slab, nonce>>

DataHash == {hash_metadata(m) : m \in Metadata}

CreatorHash == {hash_creators(m) : m \in Metadata}

LeafSchema == [id : Slab \X Indices, owner : Key, delegate : Key, nonce : Indices,
               data_hash : DataHash, creator_hash : CreatorHash]

new_v0(slab, owner, delegate, nonce, data_hash, creator_hash) ==
  [id |-> get_asset_id(slab, nonce), owner |-> owner, delegate |-> delegate,
   nonce |-> nonce, data_hash |-> data_hash, creator_hash |-> creator_hash]

to_node(schema) == <<schema>>

EMPTY == <<>>

Node == {EMPTY} \cup {to_node(s) : s \in LeafSchema}

NoVoucher == [leaf_schema |-> EMPTY]

Voucher == [leaf_schema : LeafSchema, index : Indices, merkle_slab : Slab]

NoEvent == <<"none">>

LeafSchemaEvent(schema) == <<"leaf", schema>>

NFTDecompressionEvent == <<"decompressed">>

Event == {NoEvent, NFTDecompressionEvent} \cup {LeafSchemaEvent(s) : s \in LeafSchema}

Emit(slab, nonce, e) == event' = [event EXCEPT ![slab][nonce] = e]

-----------------------------------------------------------------------------
(* The two calls to gummyroll, with the slab's Nonce account as authority. *)

\* Mutant: a full tree takes another leaf.
append_leaf_NoRoom(slab, append_authority, node) ==
  /\ creator[slab] = append_authority
  /\ next[slab] <= Size
  /\ leaves' = [leaves EXCEPT ![slab][next[slab] % Size] = node]
  /\ next' = [next EXCEPT ![slab] = @ + 1]

\* The append authority signs too, and the tree has room.
append_leaf(slab, append_authority, node) ==
  /\ creator[slab] = append_authority
  /\ next[slab] < Size
  /\ leaves' = [leaves EXCEPT ![slab][next[slab]] = node]
  /\ next' = [next EXCEPT ![slab] = @ + 1]

\* Mutant: the previous leaf is not checked.
replace_leaf_Unchecked(slab, previous_leaf, new_leaf, index) ==
  /\ index < next[slab]
  /\ leaves' = [leaves EXCEPT ![slab][index] = new_leaf]
  /\ UNCHANGED next

\* set_leaf lets the first leaf that was not appended through as well.
replace_leaf(slab, previous_leaf, new_leaf, index) ==
  /\ creator[slab] # NoKey
  /\ index \in Indices /\ index <= next[slab]
  /\ leaves[slab][index] = previous_leaf
  /\ leaves' = [leaves EXCEPT ![slab][index] = new_leaf]
  /\ next' = [next EXCEPT ![slab] = IF index = @ THEN @ + 1 ELSE @]

-----------------------------------------------------------------------------

Init ==
  /\ creator = [s \in Slab |-> NoKey]
  /\ count = [s \in Slab |-> 0]
  /\ leaves = [s \in Slab |-> [i \in Indices |-> EMPTY]]
  /\ next = [s \in Slab |-> 0]
  /\ vouchers = [s \in Slab |-> [n \in Indices |-> NoVoucher]]
  /\ supply = [s \in Slab |-> [n \in Indices |-> 0]]
  /\ burnt = {}
  /\ event = [s \in Slab |-> [n \in Indices |-> NoEvent]]
  /\ signers = {}

\* `init` on the authority: a slab gets a Nonce account once.
create_tree(slab, tree_creator) ==
  /\ creator[slab] = NoKey
  /\ creator' = [creator EXCEPT ![slab] = tree_creator]
  /\ signers' = {tree_creator}
  /\ UNCHANGED <<count, leaves, next, vouchers, supply, burnt, event>>

mint_v1(slab, mint_authority, owner, delegate, message) ==
  LET nonce == count[slab]
      leaf  == new_v0(slab, owner, delegate, nonce, hash_metadata(message), hash_creators(message))
  IN  /\ append_leaf(slab, mint_authority, to_node(leaf))
      /\ count' = [count EXCEPT ![slab] = nonce + 1]
      /\ Emit(slab, nonce, LeafSchemaEvent(leaf))
      /\ signers' = {mint_authority}
      /\ UNCHANGED <<creator, vouchers, supply, burnt>>

\* "Transfers must be initiated either by the leaf owner or leaf delegate"
HolderSigned(owner, delegate, signed) == owner \in signed \/ delegate \in signed

\* Mutant: the delegate stays.
TransferredLeaf_DelegateKept(slab, leaf, new_owner) ==
  new_v0(slab, new_owner, leaf.delegate, leaf.nonce, leaf.data_hash, leaf.creator_hash)

\* "New leafs are instantiated with no delegate"
TransferredLeaf(slab, leaf, new_owner) ==
  new_v0(slab, new_owner, new_owner, leaf.nonce, leaf.data_hash, leaf.creator_hash)

\* leaf is built by new_v0 from the arguments, as in the instructions below.
transfer(slab, leaf, new_owner, index, signed) ==
  /\ HolderSigned(leaf.owner, leaf.delegate, signed)
  /\ replace_leaf(slab, to_node(leaf), to_node(TransferredLeaf(slab, leaf, new_owner)), index)
  /\ Emit(slab, leaf.nonce, LeafSchemaEvent(TransferredLeaf(slab, leaf, new_owner)))
  /\ signers' = signed
  /\ UNCHANGED <<creator, count, vouchers, supply, burnt>>

\* Mutant: the event holds the leaf as it was.
DelegateEvent_Previous(leaf, new_leaf) == LeafSchemaEvent(leaf)

DelegateEvent(leaf, new_leaf) == LeafSchemaEvent(new_leaf)

delegate(slab, leaf, new_delegate, index) ==
  LET new_leaf == new_v0(slab, leaf.owner, new_delegate, leaf.nonce,
                         leaf.data_hash, leaf.creator_hash)
  IN  /\ replace_leaf(slab, to_node(leaf), to_node(new_leaf), index)
      /\ Emit(slab, leaf.nonce, DelegateEvent(leaf, new_leaf))
      /\ signers' = {leaf.owner}
      /\ UNCHANGED <<creator, count, vouchers, supply, burnt>>

burn(slab, leaf, index, signed) ==
  /\ HolderSigned(leaf.owner, leaf.delegate, signed)
  /\ replace_leaf(slab, to_node(leaf), EMPTY, index)
  /\ Emit(slab, leaf.nonce, LeafSchemaEvent(leaf))
  /\ burnt' = burnt \cup {leaf.id}
  /\ signers' = signed
  /\ UNCHANGED <<creator, count, vouchers, supply>>

\* `init` on the voucher: its address is free.
redeem(slab, leaf, index) ==
  /\ vouchers[slab][leaf.nonce] = NoVoucher
  /\ replace_leaf(slab, to_node(leaf), EMPTY, index)
  /\ vouchers' = [vouchers EXCEPT ![slab][leaf.nonce] =
                    [leaf_schema |-> leaf, index |-> index, merkle_slab |-> slab]]
  /\ Emit(slab, leaf.nonce, LeafSchemaEvent(leaf))
  /\ signers' = {leaf.owner}
  /\ UNCHANGED <<creator, count, supply, burnt>>

\* The voucher account passed, at the address of slab and nonce, exists and its
\* address is derived from the merkle_slab account passed.
VoucherFor(merkle_slab, slab, nonce) == slab = merkle_slab /\ vouchers[slab][nonce] # NoVoucher

\* Mutant: the account is not closed.
Close_Not(slab, nonce) == UNCHANGED vouchers

\* `close = owner` on the voucher.
Close(slab, nonce) == vouchers' = [vouchers EXCEPT ![slab][nonce] = NoVoucher]

cancel_redeem(merkle_slab, slab, nonce, owner) ==
  LET voucher == vouchers[slab][nonce]
  IN  /\ VoucherFor(merkle_slab, slab, nonce)
      /\ voucher.leaf_schema.owner = owner
      /\ replace_leaf(merkle_slab, EMPTY, to_node(voucher.leaf_schema), voucher.index)
      /\ Close(slab, nonce)
      /\ Emit(slab, nonce, LeafSchemaEvent(voucher.leaf_schema))
      /\ signers' = {owner}
      /\ UNCHANGED <<creator, count, supply, burnt>>

\* What decompress_v1 demands of the voucher, its signer and its argument.
Decompressible(voucher, owner, metadata) ==
  /\ voucher.leaf_schema.data_hash = hash_metadata(metadata)
  /\ voucher.leaf_schema.owner = owner
  /\ metadata.token_program_version = "Original"

\* create_metadata_accounts_v2 fails if the mint has its metadata already.
create_metadata_accounts(slab, nonce) == supply[slab][nonce] = 0

decompress_v1(slab, nonce, owner, metadata) ==
  /\ vouchers[slab][nonce] # NoVoucher
  /\ Decompressible(vouchers[slab][nonce], owner, metadata)
  /\ create_metadata_accounts(slab, nonce)
  /\ supply' = [supply EXCEPT ![slab][nonce] = @ + 1]
  /\ Close(slab, nonce)
  /\ Emit(slab, nonce, NFTDecompressionEvent)
  /\ signers' = {owner}
  /\ UNCHANGED <<creator, count, leaves, next, burnt>>

\* Not implemented: the instruction checks its accounts and does nothing else.
compress(slab, owner, payer) ==
  /\ signers' = {owner, payer}
  /\ UNCHANGED <<creator, count, leaves, next, vouchers, supply, burnt, event>>

Next ==
  \E slab \in Slab :
    \/ \E key \in Key : create_tree(slab, key)
    \/ \E mint_authority, owner, del \in Key, message \in Metadata :
         mint_v1(slab, mint_authority, owner, del, message)
    \/ \E owner, del \in Key, nonce, index \in Indices,
          data_hash \in DataHash, creator_hash \in CreatorHash :
         LET leaf == new_v0(slab, owner, del, nonce, data_hash, creator_hash)
         IN  \/ \E new_owner \in Key, signed \in SUBSET Key :
                  transfer(slab, leaf, new_owner, index, signed)
             \/ \E new_delegate \in Key : delegate(slab, leaf, new_delegate, index)
             \/ \E signed \in SUBSET Key : burn(slab, leaf, index, signed)
             \/ redeem(slab, leaf, index)
    \/ \E merkle_slab \in Slab, nonce \in Indices, owner \in Key :
         cancel_redeem(merkle_slab, slab, nonce, owner)
    \/ \E nonce \in Indices, owner \in Key, metadata \in Metadata :
         decompress_v1(slab, nonce, owner, metadata)
    \/ \E owner, payer \in Key : compress(slab, owner, payer)

Spec == Init /\ [][Next]_vars

-----------------------------------------------------------------------------

\* Accounts have their types; a Nonce never counts more mints than leaves.
TypeOK ==
  /\ creator \in [Slab -> Key \cup {NoKey}]
  /\ count \in [Slab -> 0..Size]
  /\ leaves \in [Slab -> [Indices -> Node]]
  /\ next \in [Slab -> 0..Size]
  /\ vouchers \in [Slab -> [Indices -> Voucher \cup {NoVoucher}]]
  /\ supply \in [Slab -> [Indices -> {0, 1}]]
  /\ burnt \in SUBSET (Slab \X Indices)
  /\ event \in [Slab -> [Indices -> Event]]
  /\ signers \in SUBSET Key

\* The asset is a leaf of a tree, a voucher at an address, or a token.
IsHome(kind, slab, n, asset) ==
  \/ kind = "leaf" /\ leaves[slab][n] # EMPTY /\ leaves[slab][n][1].id = asset
  \/ kind = "voucher" /\ vouchers[slab][n] # NoVoucher /\ vouchers[slab][n].leaf_schema.id = asset
  \/ kind = "token" /\ supply[slab][n] # 0 /\ get_asset_id(slab, n) = asset

HomeKinds == {"leaf", "voucher", "token"}

Homes(asset) ==
  {home \in HomeKinds \X Slab \X Indices :
     IsHome(home[1], home[2], home[3], asset)}

\* Whatever order the instructions come in, an NFT that was minted and not burnt
\* is in exactly one place: a leaf, a voucher or a token of its own tree and nonce.
\* It is never lost and never there twice, and a burnt one does not come back.
EveryNftHasOneHome ==
  \A slab \in Slab, nonce \in Indices :
    LET homes == Homes(get_asset_id(slab, nonce))
    IN  IF nonce < count[slab] /\ get_asset_id(slab, nonce) \notin burnt
        THEN \E kind \in HomeKinds : homes = {<<kind, slab, nonce>>}
        ELSE homes = {}

\* A voucher can always be cancelled: the leaf it came from stays empty, in the
\* voucher's own tree, however many instructions come between.
VoucherSlotKept ==
  \A slab \in Slab, nonce \in Indices :
    vouchers[slab][nonce] # NoVoucher =>
      LET voucher == vouchers[slab][nonce]
      IN  /\ voucher.merkle_slab = slab
          /\ voucher.index < next[slab]
          /\ leaves[slab][voucher.index] = EMPTY

\* The last event about an asset that is a leaf is that leaf: an indexer that
\* sees the events in order knows its owner and delegate.
EventsTellLeaves ==
  \A slab \in Slab, i \in Indices :
    leaves[slab][i] # EMPTY => event[slab][i] = LeafSchemaEvent(leaves[slab][i][1])

\* A step changes a leaf, or takes a voucher away, with the consent that it needs.
Consented ==
  \A slab \in Slab, i \in Indices :
    /\ leaves[slab][i] # EMPTY /\ leaves'[slab][i] # leaves[slab][i] =>
         LET leaf == leaves[slab][i][1]
         IN  \/ leaf.owner \in signers'
             \/ /\ leaf.delegate \in signers'
                /\ vouchers'[slab] = vouchers[slab]
                /\ leaves'[slab][i] # EMPTY =>
                     leaves'[slab][i][1].delegate = leaves'[slab][i][1].owner
    /\ vouchers[slab][i] # NoVoucher /\ vouchers'[slab][i] # vouchers[slab][i] =>
         vouchers[slab][i].leaf_schema.owner \in signers'

\* Nothing happens to an NFT in a tree without its owner, except that a delegate
\* may burn it or transfer it, which ends his own rights; and only the owner
\* takes an NFT out of a voucher.
HolderConsents == [][Consented]_vars
=============================================================================
