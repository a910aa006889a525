# A TLA+ verification project for candyland

candyland keeps NFTs as leaves of Merkle trees on Solana ("compressed NFTs"): a
library for concurrent updates of a tree, on-chain programs around it, and
services that index what the programs emit. This directory holds TLA+ models of
it, TLC configurations that check them, and TLAPS proofs. `PROJECT.json` lists
components, runs, mutants, the lines each definition stands for, the hazards and
the theorems; this file explains them. Paths are relative to the repository.

## 1. Inventory

### The parts and how they interact

```
 cli, sdk ──► sugar-shack ─┐
          ──► gumball-machine ─► bubblegum ─► gummyroll ─► concurrent-merkle-tree
                                    │             │
                                    └─candy-wrapper (event bytes)
                                                  │
   validator ─► plerkle ─► messenger (Redis) ─► nft_ingester ─► Postgres ─► das_api, nft_api
   validator logs ─► sdk/indexer (ingester, backfiller) ─► SQLite ─► server.ts
```

| part | state | operations | what is hard | what makes it correct |
|---|---|---|---|---|
| concurrent merkle tree (`lib/concurrent-merkle-tree`) | ring buffer of change logs, counters, proof of the rightmost leaf | initialize, initialize_with_root, append, set_leaf, fill_empty_or_append, prove_leaf | writers race with proofs of older roots; logs are evicted; proofs may be shortened | a proof inside the window is accepted exactly if its leaf is current; nothing else is ever accepted; one leaf changes per write |
| reference tree (`lib/merkle-tree-reference`) | all nodes | add_leaf, get_proof_of_leaf | – | it is the specification of the roots above |
| gummyroll (`contracts/programs/gummyroll`) | header with two authorities, a roll, a canopy | init_empty, init_with_root, replace_leaf, append, insert_or_append, verify_leaf, transfer_authority | canopy nodes are newer than the proof they complete; a read writes to the canopy | canopy is the top of the current tree; events rebuild the tree |
| bubblegum (`contracts/programs/bubblegum`) | a nonce per tree, leaves, vouchers, mints | create_tree, mint_v1, transfer, delegate, burn, redeem, cancel_redeem, decompress_v1, compress | leaf hashes are rebuilt from arguments; the NFT moves between leaf, voucher and token; addresses are derived from slab and nonce | an NFT is in one place; its holder agreed to every change; vouchers can be cancelled |
| gumball machine (`contracts/programs/gumball-machine`) | header, array of indices, bytes of config lines | initialize, initialize_indices_chunk, add/update_config_lines, update_header_metadata, dispense_nft_sol/token, destroy | set-up over several transactions while it sells; several mints, then one payment | nothing sold twice out of the same stock, nothing lost; paid per NFT; lines stored where they are looked up |
| sugar shack (`contracts/programs/sugar-shack`) | marketplace share and authority, lamports; a listing is the leaf's delegate | initialize/update marketplace, create_or_modify_listing, remove_listing, purchase, withdraw_fees | rounding, share without bound, purchase racing a new price | a purchase moves exactly the listed price |
| candy wrapper | none | wrap (no-op) | – | – |
| plerkle (`plerkle`) | selectors, tasks, channel of 32 | on_load, on_unload, update_account, update_slot_status, notify_transaction, notify_block_metadata | tasks reorder; send errors are dropped; no reconnection | what was asked for sets out, once |
| messenger (`messenger`) | Redis streams, one consumer group | add_stream, set_buffer_size, send, recv | trimmed at 5000; never acknowledged nor read again; the group must exist before entries do | what is in a stream stays until it is read or trimmed; readers do not starve |
| ingester (`nft_ingester`) | tables cl_items, backfill_items, asset | handle_transaction, upsert of change logs, update of assets, background tasks | duplicates, reordering, gaps; a crash after recv | tables converge to the tree |
| backfiller (in `nft_ingester/src/main.rs`) | rows of backfill_items | find trees, clear force_chk, delete rows | races with inserts; waits for a notification | no gap is forgotten; it wakes up |
| TypeScript indexer (`contracts/sdk/indexer`) | tables merkle, leaf_schema, nft | change logs and leaves by sequence number; gap search, backfill; proofs | gaps while proofs are served; off-by-one in sequence ranges; pagination | synced means no gap; a proof served hashes to a root |
| das_api, nft_api (`digital_asset_types/src/dapi`) | none | proofs from the rows of cl_items | rows that are missing stand for empty subtrees | the proof served verifies against the root served |
| server.ts | none | read-only queries | – | – |
| cli, crud UI, generated SDK, flatbuffers, archive | none of the system's | – | – | – |

A transaction is atomic on Solana: it runs alone on the accounts it writes, and an
error or a panic takes all its effects back. So "concurrency" on chain is the order of
transactions and the age of the data they were built from, never a torn write. Off
chain it is tasks, streams and databases.

The hazards, each at its line, are in `PROJECT.json`.

## 2. Modules

| module | models | kind |
|---|---|---|
| `MerkleNodes` | `utils.rs`, the reference tree | operators, recursion as recursive functions |
| `ConcurrentMerkleTree` | `state.rs`, `merkle_roll.rs` | the library's methods as operators from a roll to `[res, roll]` |
| `MerkleRoll` | a roll and clients with proofs of any earlier version | state machine, properties |
| `LeafArray` | what a tree promises | abstract specification |
| `Gummyroll` | the gummyroll program, EXTENDS MerkleRoll | state machine |
| `Bubblegum` | the bubblegum program over trees that are leaf arrays | state machine |
| `SugarShack` | the sugar-shack program, EXTENDS Bubblegum | composition of the two programs |
| `GumballMachine` | the gumball-machine program | state machine |
| `Plerkle` | the geyser plugin, the messenger, the ingester's reading loop | state machine with faults and fairness |
| `Delivery` | what the way from validator to ingester promises | abstract specification |
| `Ingester` | the chain's instructions, handle_transaction, the two program handlers, background tasks | composition of a chain, an unreliable stream and the ingester |
| `ProofQueries` | the proof queries of nft_api and das_api | pure operators over cl_items, EXTENDED by Ingester |
| `Backfiller` | the backfiller and the inserts it races with | state machine with fairness |
| `*_proofs` | theorems | proofs |
| `MC*` | model values, symmetry | for TLC |

**MerkleNodes, ConcurrentMerkleTree.** keccak is a free constructor: the hash of two nodes
is the pair of them, so a root *is* its tree and equal roots mean equal trees. This is the
usual collision-free assumption. An empty node, a leaf and a hash are told apart by
length. Depth and buffer size are constants; the bit mask is a modulo, as the buffer
size is a power of two. Errors come in the code's order. `"Panic"` stands for a failed
assert or an underflow in `leading_zeros() - padding`. Indices that differ only above the
tree (index 2^depth on a full tree) make that underflow.

**MerkleRoll.** `versions[t]` is the array of leaves of an off-chain tree after the t-th
change log. Any action may take its root, its proof and the leaf it believes in from any
version, cut the proof after any number of nodes, and believe in a wrong leaf. This
covers every race of clients, since a transaction is atomic. `MaxVersions` bounds the
history, `Prefills` are the sizes of off-chain trees that the roll may start from.

**Gummyroll.** One account. The proof of a client is completed from the canopy of *now*,
although its root is old. `verify_leaf` writes to the canopy too: the code does so on an
account that need not be writable, so the action demands `writable` or no change. A transfer
of authority to the default key, which never signs, is allowed, as in the code.
Indices go up to 2^depth, one past the last leaf.

**Bubblegum.** A tree is an array of leaves with a fill count: what `MerkleRoll` is
proved to implement (`ImplementsLeafArray`), where a replace succeeds only if the
previous leaf is in place. Roots and proofs only decide whether a call is accepted, so
they are left out; the model accepts every call some proof would make acceptable.
An instruction rebuilds the leaf from its arguments with `new_v0` and lets the tree compare;
so does the action. A voucher's address is derived from slab and nonce; `cancel_redeem` and
`decompress_v1` take any slab and any voucher and keep the code's derivation check.
`signers` records who signed last, `event` what was emitted last about an asset. The token
programs are external, reduced to `supply` and to the failure of creating metadata twice.

**GumballMachine.** The header's fields that later steps read, the indices, the config
*bytes* (an offset in lines where bytes were meant shows up), and a dispensing transaction
cut into its draws and its payment. No other instruction runs in between. `Fail` takes
everything back to `tx.before`: when the tree is full, the buyer has too little, an assertion
fails or the compute budget ends. The entropy of the shuffle is any position. The length of a
line is chosen at initialization. Without lines the name of an NFT is its index: `Encodable` says
for which indices the little-endian bytes are UTF-8, as `from_utf8` decides. `lines` (what the
authority submitted), `owed` (the prices when NFTs were drawn) and `restocked` (how many NFTs were
sold when stock was last added) are history variables for the properties.

**SugarShack.** EXTENDS Bubblegum, so that the marketplace's instructions interleave with
everything wallets may do to the same leaves directly: a listing is only the leaf's delegate,
an address `ListingDelegate(price)` that nobody but this program can sign for. `mint_v1` takes any
key for the delegate, a listing address too, so that an NFT may be listed before its owner has seen
it. Balances are a
ledger over wallets, listing addresses and the marketplace's account; a purchase computes the
fees with the code's integer divisions, in its order, and fails as a whole if a balance does not
suffice. `MaxSales` bounds the purchases. A creator's share is any natural number: nothing in the
program bounds their sum, and `Payable` refuses what exceeds the price.

**Plerkle.** Configuration files are records; the selectors are built from them as in the
code, with "*", "all" and "all_votes". A callback that selects its notification spawns a task;
tasks enter the channel in any order, when there is room. One task connects, creates the groups
and forwards. A connection may fail while connecting, between two groups, before or after an
XADD, before or after an XREADGROUP; it is never opened again, since the code does not. A stream is
a sequence of entries and the number of them read; MAXLEN ~ may drop any surplus of old entries,
read or not. The validator may stop at any time, which drops tasks and channel, and notify of the
same things again after the next load; messages carry the notification and the number of the load,
which tell them apart. What a configuration asks for (`Wanted`) is taken from the comments on
`TransactionSelector::new` and in `notify_transaction`, not from their code. The ingester may start before or after, lose its connection, panic on a transaction without logs,
and be restarted. Only the stream of transactions has a reader; the other three fill up and are
trimmed. Serialization is a record of the fields that are written.

**Ingester.** The first part is an environment: a tree written by Bubblegum's or by Gummyroll's
instructions, whose sequence numbers, nodes and events follow those modules, and transactions that
hold one or several of these instructions. `Unusual` transactions have their instructions called
by another program, behind one of another program, behind one that logs nothing; their logs cut
off anywhere, or none; or bytes that do not parse. The second part is the ingester: any
transaction arrives any number of times in any order (as `Plerkle` allows), its logs are split by
`parse_logs` and zipped with its instructions, and each instruction is one action of the handler
of its program. A handler is one database transaction, so it is one step, which may fail and
leave nothing. `tasks` is the queue of downloads of one worker. `saved`, `synced` and `dropped`
are ghosts: `synced[i]` is the last instruction on asset i that was committed, as long as each was
committed once and in the order of the chain. `MaxOdd` bounds what goes wrong.

**ProofQueries.** Both services compute the siblings of a leaf, read the rows there are, and put
empty nodes where there are none; they differ in how. nft_api serves the list in two ways:
`handle_get_proof`, by the index of a node, the siblings alone; `handle_get_asset_proof`, by the index
of a leaf, with the root and with a hash for the leaf from `get_asset`, whose tables exist nowhere in
the repository, so that it always fails and the hash is that of an empty leaf. Hashes are the free constructor of
`MerkleNodes`, so "verifies" means that the proof hashes to the root served.

**Backfiller.** Rows have their serial id, since two may agree in everything else and the
duplicates are deleted by id. Every statement of the
loop is a step: the two queries for trees, the two stub gap fillers (a ghost records what they
were called for), clearing the flag, finding the maximum, deleting other numbers, finding and
deleting duplicates. Inserts by handlers come in between. The listener is part of it: when it cannot
connect or listen, or `recv` fails, the task ends for good (`pc = "ended"`), though the process goes
on; a notification of an insert reaches only a listener that listens, and a connection that is made
again in between (`Reconnect`) loses those under way (`missed`). Statements may fail,
the listener may fail or reconnect and the process may restart, `MaxError` times in all.

## 3. Runs

| run | instance | shows |
|---|---|---|
| merkle_roll | depth 2, 2 logs, 2 leaf values, 4 versions | all properties of MerkleRoll and `ImplementsLeafArray`. The third write evicts a log, so fresh, barely fresh and expired proofs all occur, with wrong leaves and truncated proofs |
| gummyroll_canopy | depth 3, 4 logs, canopy of 2 levels, 2 keys, 5 versions | proofs up to three writes old, replayed at three levels and completed from the canopy, still decide; the canopy is current; events rebuild the tree |
| gummyroll_prefilled | depth 2, no canopy, trees of 3 and 4 leaves | index past the end on a full tree, started with a root |
| bubblegum | 1 tree of 2 leaves, 3 users, both token versions | one home per NFT, consent, events, vouchers that can be cancelled |
| gumball | 3 items, lines of no or of two bytes, chunks of 2, funds for two | stock, payment and rollback, also when stock is added after a sale |
| gumball_lines | the same | **violation**: a second `add_config_lines` overwrites a byte of the first line |
| sugar_shack | 1 tree of 1 leaf, 2 wallets, two prices around a basis point unit, marketplace shares up to and beyond 10000, creators' shares below and above 100 | sales at the listed price only, to the lamport; with fair shares listings can be bought |
| plerkle | 4 configurations, 8 notifications of which 2 happen, channel and streams of 1, 2 loads, 2 faults | the refinement of `Delivery`, the reasons of losses, and liveness |
| ingester | depth 2, 3 writes after the creation, 3 messages, 1 unusual event | the tables against the chain, the lists of nodes that proofs are made from, and for which leaves the answers of nft_api verify |
| das_asset_proof | depth 1 | **violation**: das_api serves a wrong proof once every sibling has a row |
| backfiller | 2 trees, numbers up to 3, 3 rows, 2 failures | no tree loses its last row, gaps stay visible, and liveness |
| backfiller_flag | the same | **violation**: a flagged row is deleted before the tree was checked |

**Bounds.** Two change logs are the fewest for which a live log is not the active one and
eviction happens; depth 2 is the fewest levels for which a critical bit may be at the bottom
or the top; depth 3 adds one between. Three users are needed for a delegate who
moves an NFT to someone else; with two, `HolderConsents` has no way to fail. Two chunks, of
which the last is shorter, need three items; two bytes are the fewest that tell a byte from a line.
With a channel of one and two messages a task waits; with streams of one, an unread entry is
trimmed; with two faults a connection breaks and the ingester restarts. In the ingester three
messages allow a lost, a doubled and a reordered transaction (that of `create_tree`, which its bubblegum handler passes over,
is not counted); three rows allow a
duplicate, a gap or a flagged row of one tree beside a row of a second tree; with two failures the
listener fails or reconnects and a statement fails or the process restarts besides. Creators' shares of 56
and 45 percent are the least excess over the whole.

**Deadlock.** `CHECK_DEADLOCK FALSE` is set where a system may stop: a destroyed gumball machine
and the off-chain models, whose bounded environment falls silent.

**Symmetry.** Leaf values, keys, wallets and slabs are only compared for equality. Action
properties and the refinement of `LeafArray` are safety formulas, for which symmetry is sound;
the runs with liveness use none.

**Fairness.** Nothing on chain is obliged to happen, so the programs' specifications have none.
`Backfiller` assumes weak fairness of the loop's steps that do not fail
(`WF_vars(backfiller /\ UNCHANGED errors)`), never of inserts, failures, reconnections or restarts: it is
one tokio task that only waits for statements, which end, and for notifications. `Plerkle` assumes weak fairness
of connecting, of the tasks waiting for the channel, of forwarding, and of the ingester's start,
reads and handling: tokio polls a task that is ready again, and every await in them ends, one way
or the other. Nothing is assumed of notifications, of faults (the fairness of `recv` is that of a
read that does not fail), nor of restarts.

Every property has a mutant in `PROJECT.json`: a changed definition, such as an uncapped
counter or a sibling taken for the node, with which TLC finds the property violated.

### What the properties say

* `LogsReplayHistory`, `ChangeLogsAreHistory`: live logs are the recent history, value by
  value and node by node. `RightmostProofIsCurrent`: append needs no proof because this is
  one.
* `FreshProofsDecide`: *if and only if*: inside the window a write succeeds exactly when
  its leaf is still current. `OnlyCurrentLeavesAccepted`: outside the window too, nothing but
  a current leaf is accepted. `FillTakesEmptyLeafOrAppends`: what the callers of the third write
  rely on.
* `ImplementsLeafArray`: refinement of `LeafArray`; the array is read off the current root.
* `CanopyIsCurrent`, `CanopyProofsDecide`, `EventsRebuildTree`: see section 1.
* `EveryNftHasOneHome`, `VoucherSlotKept`, `EventsTellLeaves`, `HolderConsents`: see section 1.
* `StockConserved`: since stock was last added, no NFT was minted twice and none
  that was is still for sale; and unless it was added after a sale, what was minted and what is left *are*
  the stock. It holds through re-initialization, and says no more than the
  code gives: stock added after a sale does bring NFTs back that were sold (section 5). `LinesAreStored`,
  that lines are found where they were added, is a violation run. `PaidPerNft`: the receiver has what the NFTs drawn cost.
* `SoldAtListedPrice`: an NFT leaves an owner who did not sign, and whose delegate is no wallet that did, only
  at the price that its delegate in the leaf stands for at that moment, for the shares due. It does not
  say that the owner made the listing: whoever mints an NFT may have. `FairListingsAreSellable`: such a
  listing can be bought by whoever has the price, if the shares are parts of a whole or round to nothing.
  Nothing in the code makes them so; the run has other shares too, and section 5 says what happens then.
* `ImplementsDelivery`: only wanted transactions set out, each message
  is handled at most once, and what is lost does not come back. Not every wanted transaction sets out
  (votes under "all_votes", section 5). `LossesHaveCause`: a message
  vanishes only by a lost plugin or connection, a stream at its limit, or an ingester that stops
  with the message in hand; in particular no restart of the plugin touches what is in a stream.
  `TransactionsLeave`: no message waits for ever, unless the ingester is down.
* `NewestWins`: every node stored is the newest among the change logs committed, in any order of
  arrival. `ProofsVerify`: once no change log is missing, the nodes that `handle_get_proof` of nft_api
  serves for a leaf verify, with the hash in the leaf's row, against the chain's root. `OnlyEmptyLeavesVerify`:
  what `handle_get_asset_proof` serves in one answer, its hash of the leaf included, then verifies exactly for the
  leaves that are empty. `WholeTransactions`: a change log is stored only with all of its nodes and with
  the asset; not the other way round, since logs cut off before the change log store the asset
  alone. `AssetsFollowChain`: an asset's row is the chain's as long as that asset's own
  instructions were committed once and in order. `DownloadsNotForgotten`: metadata is done, queued,
  or was dropped by a failure or a restart.
* `TreeKeepsRow`, `GapsStayInRange`: deletions never take a tree's last row, nor hide a gap from
  the passes to come. `TreesAreTidied`: every tree with several rows or a flag is taken care of, unless the
  listener's failure ended the task, or it lost a notification and waits for the next.

## 4. Proofs

`tlapm` checks them for every value of the constants that the assumptions allow:
`DepthAssumption`, `BufferAssumption`, `PowerOfTwoAssumption`, `BoundsAssumption`,
`CanopyAssumption`, `KeyAssumption` (trees); `SizeAssumption`, `NoKeyAssumption` (bubblegum);
`WalletAssumption`, `ListingAssumption`, `LamportAssumption`, `CreatorAssumption` (marketplace: listing addresses are keys of no wallet, amounts are naturals, creators are a
sequence of addresses and shares); `ItemsAssumption`, `ChunkAssumption`, `MoneyAssumption`,
`LineAssumption` (gumball machine); `PipelineBounds` (plerkle); `BackfillBounds`;
`IngesterBounds` and, in `Ingester` too, a `WalletAssumption` (no wallet is the key that stands for NULL).
TLC evaluates each of them in a run.

| theorem | states |
|---|---|
| MerkleRoll_proofs `TypeCorrect`, `RingReplaysHistory` | `TypeOK`, `LogsReplayHistory` |
| `HistoryIsHashed`, `RightmostIsCurrent` | `ChangeLogsAreHistory`, `RightmostProofIsCurrent` |
| `FreshProofsAreDecisive`, `NoLostUpdate`, `FillsOrAppends` | `FreshProofsDecide`, `OnlyCurrentLeavesAccepted`, `FillTakesEmptyLeafOrAppends` |
| `ArrayIsImplemented` | the refinement `ImplementsLeafArray` |
| Gummyroll_proofs `GummyrollTypeCorrect`, `GummyrollReplaysHistory`, `AccountIsArray` | the same of the account, for any canopy |
| `CanopyFollowsTree`, `CanopyProofsAreDecisive` | `CanopyIsCurrent`, `CanopyProofsDecide`, if trees start empty or there is no canopy |
| `EventsRebuild` | `EventsRebuildTree`, if trees start empty |
| Bubblegum_proofs `TypeCorrect`, `NftsConserved`, `VouchersCancellable` | `TypeOK`, `EveryNftHasOneHome`, `VoucherSlotKept` |
| `EventsAreTrue`, `ConsentNeeded` | `EventsTellLeaves`, the action property `HolderConsents` |
| SugarShack_proofs `MarketIsBubblegum` | `MarketSpec => Spec`: the composition implements Bubblegum |
| `MarketTypeCorrect`, `SalesAreAsListed` | `MarketTypeOK`, the action property `SoldAtListedPrice` |
| GumballMachine_proofs `TypeCorrect`, `ReceiverIsPaid`, `StockIsConserved` | `TypeOK`, `PaidPerNft`, `StockConserved` |
| Plerkle_proofs `TypeCorrect`, `LossesAreCaused`, `DeliveryIsImplemented` | `TypeOK`, the action property `LossesHaveCause`, the refinement `ImplementsDelivery` |
| Backfiller_proofs `TypeCorrect`, `RowIsKept`, `GapsAreSeen` | `TypeOK`, `TreeKeepsRow`, `GapsStayInRange` |
| Ingester_proofs `InvariantHolds` | the inductive invariant `IInv` |
| `NewestWinsHolds`, `WholeTransactionsHolds`, `ProofsVerifyHolds` | `NewestWins`, `WholeTransactions`, `ProofsVerify` |
| `ServedHashIsEmpty` | `OnlyEmptyLeavesVerify` |
| `AssetsFollowChainHolds`, `DownloadsNotForgottenHolds` | `AssetsFollowChain`, `DownloadsNotForgotten` |

Induction over numbers and finite sets is not taken from the library, whose theorems have an
operator as parameter: it is derived where it is needed for *sets* of numbers (`LeastNumber`), of
subsets (`SubsetInduction`) or of steps up to a bound (`Upwards`), from the well-foundedness of the
strict subset ordering on finite sets. The set stands for the predicate.

**MerkleRoll.** Two invariants. `IInv` is `TypeOK /\ LiveCount /\ LogsReplayHistory`; `LiveCount` ties
`buffer_size` to the number of versions: without it a slot counted as live might belong to no
version. A successful call has an `Effect`, namely it advances the counters by one and writes the
active slot; the other slots keep their content and their distance from `active_index` grows by one
(modular arithmetic, done once in lemmas on `SlotBefore`), so they stand for the same versions as
before. `Hashed` says of every live log that its root and path are those of its version, and
of the rightmost proof that it is the proof of the last leaf of now. It needs how a tree changes
when one leaf does: the nodes on its path become those hashed from the new leaf and the old
siblings, and no other node changes (by induction over levels). The proof of a leaf at another
index thus differs in one sibling, at the level of the highest bit in which the two
indices differ: that is what `replay` replaces. So a proof of a live version, replayed over
the logs since, is the proof of now, which gives `FreshProofsDecide`; conversely what hashes to the current
root is in the tree, which gives `OnlyCurrentLeavesAccepted` for any proof whatever.
The refinement reads the array off the current root, which by `Hashed` is that of the last version.

**Gummyroll.** The same invariants with the header and the domain of the canopy. That no index
leaves the tree needs the canopy's bounds check: `set_leaf` alone lets 2^depth through on a full
tree. The canopy is the top of the tree node by node, since a change log holds every node that a
write changes; a proof completed from it is then an old proof below and a new one above, and replay
of the logs since leaves the new part as it is. The events rebuild the tree by an invariant on the table that
an indexer keeps of them. The theorems on canopy and events have the hypothesis that trees are
created empty (or have no canopy), and need it: see section 5 for a canopy over a tree created from a root.

**Bubblegum.** `EveryNftHasOneHome` speaks of all places at once and is not inductive.
`Placed` is: the nonce equals the fill count (`CountIsNext`); a leaf at i has id and nonce i,
and then there is neither voucher nor token (`LeavesInPlace`); a voucher at n came from leaf n,
which is empty (`VouchersInPlace`); tokens and burnt assets have neither (`RestInPlace`).
Equality of nonce and index is what the code never checks and relies on: it holds as only
`mint_v1` appends and a replace needs its leaf in place. Events and consent follow
instruction by instruction: the leaf named is the one in place.

**SugarShack.** Every step of the marketplace is a step of Bubblegum or leaves it alone, so that
`MarketSpec` implements `Spec` and `Placed` carries over. On top of it `MarketInv` has the types of
the ledger, which a purchase keeps as a sequence of transfers each of which finds its
lamports. `SoldAtListedPrice` uses `Consented`: a step that
takes a leaf without its owner has the delegate's signature, and a delegate that is no wallet
signs only in `purchase`. Then the marketplace and every creator who is listed once are
paid once (`PaidOnce`), a buyer who is no creator pays the sum of all transfers, which is the price
to the lamport (`BuyerPays`), and two lemmas bound what the division by 10000 before the
multiplication loses (`RoundedShare`, `RoundedPercentage`).

**GumballMachine.** A dispensing transaction is several steps, so that everything is stated of
the machine and of `tx.before`, to which `Fail` returns. `Stocked`: the indices are
a permutation of the items, in order before the first draw and beyond the stock at all times; what was
sold since stock was last added stands right behind what is left, the last drawn first. A draw swaps two
positions (`SwapPermutes`). Adding stock after a sale lengthens the part that is for sale over positions
whose NFTs were sold, and starts the count anew (`restocked`); adding lines extends the permutation by
indices that are still in order (`PermutedGrows`).

**Plerkle.** `Placed`: a message is in one place at a time, a task, the channel, a stream or the
handler. `Noticed`: each stands for a notification of its own at its own load. `Ready`: no stream
has entries before its group exists, so that none is skipped. With them each step moves
at most one message along, or loses it for one of the causes named, and that is a step of `Delivery`.

**Backfiller.** `TreeKeepsRow` is not inductive: between the query for the highest number and
the deletions rows come in. `Spared`: while rows of a tree are deleted there is one with the number
read whose id is not in the list of duplicates. `Filled`: no gap is left below that number. Rows
carry their serial id, since two rows may agree in everything else.

**Ingester.** None of the six properties is inductive, and they need one invariant, since they
rest on what the chain emits and on how a transaction's logs are taken apart.
`ChainOK`: every change log has a higher number than those before it (`SeqsGrow`); each leaf and
voucher is what the last instruction on it left, and that instruction hands on to the next what it
does not change (`LeavesOK`, `Continues`); and *after every instruction* the nodes read off the change
logs so far are those of a hashed tree, with empty subtrees where none has written (`PathsOK`). The last
needs how a tree changes when one leaf does (`NodesAgree`).
`MessageOK`: whatever a transaction looks like, either its first pair fails the assertion, or each
instruction of the program is paired with lines whose events are all its own. This is where
`parse_logs`, `order_instructions` and the pairing of the two are reasoned about: logs are laid out in blocks that start at
`invoke [1]` (`Laid`), the parser finds them (`ParseOK`), cutting lines off keeps the layout
(`CutOff`), and a transaction shifted by a silent instruction fails at once (`PairsDiffer`).
`TablesOK`: a row of cl_items is of the highest change log saved that touches its node (`Newest`),
which a guarded upsert keeps in any order (`SaveOne`, over all lines `SaveAll`); a row of asset has
the values of the last instruction followed (`Shows`), from which the next one
continues (`ShowsNext`).
`NewestWins` and `AssetsFollowChain` are then immediate. `WholeTransactions` follows as a change log
touches all nodes above its leaf and numbers grow. For `ProofsVerify`, without a gap the rows and the
empty nodes in place of missing ones are the tree after the last change log saved (`WithoutGap`);
`get_proof_and_root` lists the nodes beside the path, by level or, when all have rows, by the one
descending order of their indices (`OneOrder`, `ProofListed`); and `PathsOK` hashes them up to the root.
`OnlyEmptyLeavesVerify` adds that two leaves never lead to one root along the same siblings
(`ClimbInjective`), so that of all hashes only that of an empty leaf agrees with an answer that always has it.

**Only model-checked**: liveness (`TreesAreTidied`, `TransactionsLeave`), which needs fairness, and
`FairListingsAreSellable`, which speaks of ENABLED.

## 5. Observations

Findings, each with a violation run, are in `PROJECT.json`. Further ones met while modelling, without
a run of their own:

* merkle roll: the comment "so long as proof was generated at most MAX_SIZE updates since the tx
  was submitted" (`merkle_roll.rs:21`) is off by one. The buffer also holds the log of the proof's
  own root, so a proof MAX_BUFFER_SIZE updates old is refused.
* gummyroll: `verify_leaf` writes empty nodes into the canopy of an account that `VerifyLeaf`
  does not mark mutable (`lib.rs:153`).
* gummyroll: `init_gummyroll_with_root` leaves zeroes in the canopy of a tree that has leaves already, and
  `fill_in_proof_from_canopy` (`lib.rs:361`) takes zeroes for empty subtrees: current proofs that rely on the canopy
  are refused until writes have filled it in. `CanopyProofsDecide` therefore is checked for trees that start empty and for trees
  without a canopy.
* merkle roll: `state.rs:7` calls a change log's root "Historical root value before Path was applied",
  while every log is written with the root *after* its path (`ChangeLogsAreHistory`).
* gumball: without lines and with the default encoding, index 128 cannot be minted, as
  its bytes are not UTF-8 (`utils.rs:46`; `Encodable` models it, the machines checked are smaller).
* gumball: `initialize_indices_chunk` and `add_config_lines` may come after a sale and add to `remaining` again
  (`lib.rs:487`), while NFTs that were drawn stand right behind the stock: they are sold a second time. The program's
  README (line 7) has "duplicate `config_lines` are not minted twice".
* gumball: exactly five creators are refused although the message says "more than 5";
  `dispense_nft_token` does not reject wrapped SOL although its comment says so; `max_items` is
  not compared with the size of the tree.
* bubblegum: NFTs with token program version Token2022 can be minted and redeemed, never
  decompressed, although the repository's README promises it; gumball mints only those.
* overflow checks are set in the member crates' Cargo.toml, which cargo ignores in a
  workspace.
* `set_leaf` accepts an empty new leaf at the rightmost index, which uses up the index.
* sugar shack: the comment that an NFT "can be purchased for free" below 10,000 lamports
  (`lib.rs:310`) is wrong, as the whole price then goes to the seller and only the fees are zero.
  Whoever mints an NFT chooses its delegate, so that a minter can give it away listed at a price; the owner's first
  chance is to remove the listing.
* sugar shack: "Enables any user to purchase" (`lib.rs:296`) is not so if `update_marketplace_properties`, which has no
  upper bound (`lib.rs:232`), set a share above 10000, or if the creators' shares of the metadata, which nobody adds up, come to more than
  100: from 10,000 lamports on a `safe_sub` of `purchase` fails (`lib.rs:358` for the creators).
* plerkle: the comment of `transaction_selector.rs:23` has "all_votes" select vote transactions, but `notify_transaction` returns before it asks the
  selector when a transaction is a vote (`geyser_plugin_nft.rs:321`): none is sent.
* plerkle: addresses given beside "all_votes" are ignored.
* messenger: neither side reconnects. After one failed send the plugin drops everything until the
  validator restarts; an ingester that lost its connection loops on the error. Entries are never
  acknowledged, so the group's list of pending entries grows for ever, and the id handed on is made
  by removing "-", which is not unique (nothing uses it).
* ingester: a transaction without logs, or whose first instruction logs nothing, panics the task
  that reads the stream (`main.rs:386`, `main.rs:389`); the process goes on without it. Instructions called by other
  programs, gumball-machine and sugar-shack among them, are not indexed. Logs cut off between the
  leaf's event and the change log update the asset and not the tree. `update_asset` has no guard on the
  sequence number, so a reordered or repeated transfer leaves an old owner in the row.
* ingester: a tree created from a root (`initialize_with_root`) has no rows for its first leaves, so
  that no proof of them can be served. A download has no timeout and holds up all later ones.
* nft_api: `handle_get_asset_proof` asks `get_asset` for the leaf's hash and puts the empty node when that fails (`main.rs:254`). Its
  tables are created nowhere, so it always fails, and the check that `continuous_gummyroll-test.ts:140` makes of such an answer
  fails for every leaf that was written. This one a run does show, as `OnlyEmptyLeavesVerify`.
* nft_api: `handle_get_proof` takes a node index where `handle_get_asset_proof` takes a leaf index.
* backfiller: two ingesters would each delete the row the other keeps. When the listener cannot connect
  or listen, or `recv().await.unwrap()` panics, the backfiller has ended and nothing starts it again
  (`main.rs:146`, `:152`, `:162`), and a listener that reconnects loses notifications: these are the
  exceptions in `TreesAreTidied`.
* TypeScript backfiller and indexer (not modelled): `backfiller.ts:230` takes `maxSeq - 1` for
  synced and `:326` fills up to, not including, the last number; `:197` throws the pages read away when
  the last one is empty; `db.ts:605` assembles proofs from rows of different sequence numbers while a gap is open.

**Left out of the models**: saturation of the u64 sequence number and nonce; overflow
of `price * n` and of the u8 sum of creator shares; u32 indices beyond 2^depth (refused by the
same check as 2^depth, or by the rightmost index); names, URIs, royalties; rent and the
lamports of program accounts; reuse of a destroyed machine's address, which is a new machine.

## 6. Plan

Every invariant and action property that a run checks is proved, but for the three named at
the end of section 4.

Modelling that could follow: the TypeScript indexer; two ingesters on one database; a restart of
Redis that loses the streams.

## 7. Not modelled

candy-wrapper does nothing. server.ts reads tables and keeps no state. plerkle_serialization,
the SDK's `generated` directories and the entities of digital_asset_types are generated. The command
line tools send instructions which the programs' modules already take from anyone.
gummyroll-crud-ui is a demo; `archive` holds prototypes that nothing uses. The TypeScript indexer
and its backfillers are an earlier indexer for local use; the Rust services with the same task are
modelled. Of das_api and nft_api only the proof queries are: the others copy rows into responses.
Redis, Postgres, tokio and the Solana runtime are modelled by what the code uses of them.

## 8. Running it

```
tlc -workers 2 -config MCMerkleRoll.cfg MCMerkleRoll
tlapm MerkleRoll_proofs.tla
```
