------------------------------- MODULE Ingester -------------------------------
(***************************************************************************)
(* nft_ingester: transactions of the two programs, received in any order,  *)
(* any number of times or never, are turned into rows of cl_items,         *)
(* backfill_items and asset; a worker downloads the metadata of new assets.*)
(*                                                                         *)
(* One tree is followed, written either through Bubblegum or by calls to   *)
(* Gummyroll.  The chain below is the environment: what it emits is proved *)
(* and checked in the modules of those programs.  A transaction is the     *)
(* list of its outer instructions and its log lines.                       *)
(***************************************************************************)
EXTENDS ProofQueries, FiniteSetsExt, Bags

CONSTANTS Wallet,      \* keys of owners and delegates
          NoKey,       \* the delegate column when it is NULL
          MaxOps,      \* bound on the instructions on the chain
          MaxRecv,     \* bound on the messages received that a handler may take
          MaxOdd       \* bound on unusual transactions, failures and crashes together

ASSUME WalletAssumption == NoKey \notin Wallet
ASSUME IngesterBounds == MaxOps \in Nat \ {0} /\ MaxRecv \in Nat /\ MaxOdd \in Nat

VARIABLES
  program,     \* the program that the tree's instructions are sent to
  history,     \* the instructions executed on the chain, in order
  leaves,      \* leaf index -> node, on the chain
  vouchers,    \* leaf index -> the leaf that was redeemed there, EMPTY if none
  published,   \* the transactions executed, in order
  msg,         \* what is left of the message being handled: instructions with their logs
  running,     \* the task of service_transaction_stream has not panicked
  db,          \* the tables
  tasks,       \* the queue of the background worker
  saved,       \* ghost: numbers of the instructions whose change log was committed
  synced,      \* ghost: leaf index -> how far its asset's row has followed, see Progress
  dropped,     \* ghost: assets whose download failed or was forgotten in a crash
  received,    \* those messages
  odd          \* unusual events so far

chain == <<program, history, leaves, vouchers, published>>
ghosts == <<saved, synced, dropped>>
vars == <<chain, msg, running, db, tasks, ghosts, received, odd>>

Strange == odd < MaxOdd /\ odd' = odd + 1

-----------------------------------------------------------------------------
(* The chain: leaves, and the events each instruction writes into its logs. *)

Schema(owner, delegate, nonce) == [owner |-> owner, delegate |-> delegate, nonce |-> nonce]

to_node(schema) == <<schema>>

NoSchema == <<>>

minted == Cardinality({k \in DOMAIN history : history[k].ix \in {"MintV1", "append"}})

sequence_number == Cardinality({k \in DOMAIN history : history[k].ix # "DecompressV1"})

\* The nodes above the leaf at index, from the leaf to the root.
PathOf(tree, index) == [lvl \in 0..MAX_DEPTH |-> MerkleTree(tree)[lvl][index \div 2^lvl]]

\* One more instruction, whose change log holds the path of the leaf at index.
Executes(ix, index, node, schema) ==
  /\ leaves' = [leaves EXCEPT ![index] = node]
  /\ history' = Append(history, [ix |-> ix, index |-> index, seq |-> sequence_number,
                                 path |-> PathOf(leaves', index), schema |-> schema])
  /\ UNCHANGED <<program, published, msg, running, db, tasks, ghosts, received, odd>>

Mint(owner, delegate) ==
  LET schema == Schema(owner, delegate, minted)
  IN  /\ program = "bubblegum" /\ minted \in LeafIndices
      /\ Executes("MintV1", minted, to_node(schema), schema)
      /\ UNCHANGED vouchers

IsAsset(i) == program = "bubblegum" /\ leaves[i] # EMPTY

ChainTransfer(i, new_owner) ==
  LET schema == Schema(new_owner, new_owner, i)
  IN  /\ IsAsset(i)
      /\ Executes("Transfer", i, to_node(schema), schema)
      /\ UNCHANGED vouchers

ChainDelegate(i, new_delegate) ==
  /\ IsAsset(i)
  /\ LET schema == [leaves[i][1] EXCEPT !.delegate = new_delegate]
     IN  Executes("Delegate", i, to_node(schema), schema)
  /\ UNCHANGED vouchers

\* Burn and redeem emit the leaf they remove.
ChainBurn(i) ==
  /\ IsAsset(i)
  /\ Executes("Burn", i, EMPTY, leaves[i][1])
  /\ UNCHANGED vouchers

ChainRedeem(i) ==
  /\ IsAsset(i)
  /\ Executes("Redeem", i, EMPTY, leaves[i][1])
  /\ vouchers' = [vouchers EXCEPT ![i] = leaves[i]]

ChainCancelRedeem(i) ==
  /\ vouchers[i] # EMPTY
  /\ Executes("CancelRedeem", i, vouchers[i], vouchers[i][1])
  /\ vouchers' = [vouchers EXCEPT ![i] = EMPTY]

\* No change log: the tree stays as it is.
ChainDecompress(i) ==
  /\ vouchers[i] # EMPTY
  /\ Executes("DecompressV1", i, leaves[i], vouchers[i][1])
  /\ vouchers' = [vouchers EXCEPT ![i] = EMPTY]

\* A tree of Gummyroll's own: append and replace_leaf.
ChainWrite(ix, i, node) ==
  /\ program = "gummyroll" /\ i \in LeafIndices
  /\ IF ix = "append" THEN i = minted ELSE ix = "replace_leaf" /\ i < minted
  /\ Executes(ix, i, node, NoSchema)
  /\ UNCHANGED vouchers

\* What the instruction emits, in the order of the code: the change log is
\* emitted by Gummyroll, which Bubblegum calls last.
EventsOf(ix) ==
  CASE ix = "MintV1" -> <<"NewNFT", "Leaf", "ChangeLog">>
    [] ix = "DecompressV1" -> <<"Decompression">>
    [] ix \in {"create", "append", "replace_leaf"} -> <<"ChangeLog">>
    [] OTHER -> <<"Leaf", "ChangeLog">>

invoke(prog, level) == <<"invoke", prog, level>>

data(event, k) == <<"data", event, k>>

\* The log lines of instruction k, called at a level.
LogsOf(k, level) ==
  LET events == EventsOf(history[k].ix)
      lines == [e \in DOMAIN events |-> data(events[e], k)]
  IN  IF program = "bubblegum" /\ Last(events) = "ChangeLog"
      THEN <<invoke(program, level)>> \o Front(lines)
             \o <<invoke("gummyroll", level + 1), Last(lines)>>
      ELSE <<invoke(program, level)>> \o lines

LogsOfAll(ops, level) == FlattenSeq([n \in DOMAIN ops |-> LogsOf(ops[n], level)])

\* An instruction of another program has no number.
Outer(prog, k) == [program |-> prog, op |-> k]

\* log_messages is an Option: no lines at all, or a list of them.
NoLogs == <<>>

Unreadable == [outer |-> <<>>, logs |-> NoLogs, readable |-> FALSE]

Transaction(outer, logs) == [outer |-> outer, logs |-> <<logs>>, readable |-> TRUE]

Instructions(ops) == [n \in DOMAIN ops |-> Outer(program, ops[n])]

Plain(ops) == Transaction(Instructions(ops), LogsOfAll(ops, 1))

\* Where logs may be cut off.  Right before the line of an inner call is left out,
\* as it is no different from right after it: nobody reads that line.
Cuts(lines) == {n \in 1 .. Len(lines) - 1 : lines[n+1][1] = "invoke" => lines[n+1][3] = 1}

\* Transactions that hold the same instructions and look different: called by
\* another program; after one of another program; after one that logs nothing,
\* as a signature check does; with logs cut off; with none; not readable.
Unusual(ops) ==
  LET logs == LogsOfAll(ops, 1)
  IN  {Transaction(<<Outer("other", 0)>>, <<invoke("other", 1)>> \o LogsOfAll(ops, 2)),
       Transaction(<<Outer("other", 0)>> \o Instructions(ops), <<invoke("other", 1)>> \o logs),
       Transaction(<<Outer("silent", 0)>> \o Instructions(ops), logs),
       [Plain(ops) EXCEPT !.logs = NoLogs],
       Unreadable}
      \cup {Transaction(Instructions(ops), SubSeq(logs, 1, n)) : n \in Cuts(logs)}

\* The first instruction that is in no transaction yet.
Unpublished == 1 + Cardinality({k \in DOMAIN history :
                 \E t \in DOMAIN published : k \in published[t].ops})

\* A transaction ends: it holds every instruction since the last one.
Publish ==
  LET ops == [n \in 1 .. Len(history) - Unpublished + 1 |-> Unpublished + n - 1]
  IN  /\ ops # <<>>
      /\ \/ published' = Append(published, [ops |-> ToSet(ops), tx |-> Plain(ops)]) /\ UNCHANGED odd
         \/ /\ Strange
            /\ \E tx \in Unusual(ops) : published' = Append(published, [ops |-> ToSet(ops), tx |-> tx])
      /\ UNCHANGED <<program, history, leaves, vouchers, msg, running, db, tasks, ghosts, received>>

-----------------------------------------------------------------------------
(* Reading a transaction. *)

\* The outer instructions; no handler looks at the inner ones paired with them.
order_instructions(tx) == tx.outer

\* The log lines of each outer instruction, split at the lines `invoke [1]`.
parse_logs(logs) ==
  FoldLeft(LAMBDA parsed, line :
             IF line[1] = "invoke" /\ line[3] = 1
             THEN Append(parsed, [program |-> line[2], lines |-> <<>>])
             ELSE Append(Front(parsed), [Last(parsed) EXCEPT !.lines = Append(@, line)]),
           <<>>, logs)

\* The positions of the lines that hold an event.
filter_events_from_logs(lines) == {n \in DOMAIN lines : lines[n][1] = "data"}

\* Those of one type: handle_event fails on every other type.
EventsOfType(lines, event) == {n \in filter_events_from_logs(lines) : lines[n][2] = event}

\* Ok with the change logs found, none perhaps, unless there is no event at all.
EventsFound(lines) == filter_events_from_logs(lines) # {}

\* The numbers of the instructions whose change logs are among the lines.
get_gummy_roll_events(lines) == {lines[n][3] : n \in EventsOfType(lines, "ChangeLog")}

\* The last event of its type, if there is one.
HasBubblegumEvent(lines, event) == EventsOfType(lines, event) # {}

LastOfType(lines, event) == lines[Max(EventsOfType(lines, event))][3]

get_bubblegum_event(lines, event) == history[LastOfType(lines, event)]

\* Bubblegum's handler has no case for create_tree: that message changes nothing,
\* and does not count.
Counts(t) == program = "bubblegum" => published[t].ops # {1}

\* A message from the stream; the messages of a batch are handled one by one.
\* The transactions arrive in any order, again, or not at all.
handle_transaction ==
  /\ running /\ msg = <<>> /\ received < MaxRecv
  /\ \E t \in DOMAIN published :
       LET tx == published[t].tx
       IN  /\ received' = IF Counts(t) THEN received + 1 ELSE received
           /\ msg' = IF tx.readable /\ tx.logs # NoLogs
                     THEN Zip(order_instructions(tx), parse_logs(tx.logs[1])) ELSE <<>>
           /\ running' = (tx.readable => tx.logs # NoLogs)   \* parse_logs(..).unwrap()
  /\ UNCHANGED <<chain, db, tasks, ghosts, odd>>

-----------------------------------------------------------------------------
(* The tables. *)

\* Mutant: the order of the change logs is not looked at.
Upserted_Always(cl_items, n, seq) == TRUE

\* `WHERE excluded.seq > cl_items.seq`, when there is a row.
Upserted(cl_items, n, seq) == n \notin DOMAIN cl_items \/ seq > cl_items[n].seq

\* The row a node on the path is inserted as; an update sets hash and seq only.
gummyroll_change_log_event_to_database(d, k) ==
  LET op == history[k]
      NodeIdx(lvl) == 2^(MAX_DEPTH - lvl) + op.index \div 2^lvl
      rows == [n \in {NodeIdx(lvl) : lvl \in 0..MAX_DEPTH} |->
                 LET lvl == CHOOSE l \in 0..MAX_DEPTH : NodeIdx(l) = n
                 IN  [hash |-> op.path[lvl], seq |-> op.seq, level |-> lvl]]
      force_chk == d.backfill_items = EmptyBag /\ op.seq > 1
  IN  [d EXCEPT
         !.cl_items = [n \in DOMAIN @ \cup DOMAIN rows |->
                         IF n \in DOMAIN rows /\ Upserted(@, n, op.seq) THEN rows[n] ELSE @[n]],
         !.backfill_items = @ (+) SetToBag({[seq |-> op.seq, force_chk |-> force_chk]})]

\* The change logs among the lines are saved one after the other.
save_changelog_events(d, lines) ==
  FoldLeft(LAMBDA e, line : IF line[1] = "data" /\ line[2] = "ChangeLog"
                            THEN gummyroll_change_log_event_to_database(e, line[3]) ELSE e,
           d, lines)

-----------------------------------------------------------------------------
(* One instruction of the message.  A handler runs in one database          *)
(* transaction, which is committed or leaves no trace; its error is printed *)
(* and the next instruction is handled.                                    *)

\* The next instruction of the message and the lines logged for it.
Instruction == Head(msg)[1]
Lines == Head(msg)[2].lines

\* The instruction and the program of its logs are found to be the same.
Checked == running /\ msg # <<>> /\ Instruction.program = Head(msg)[2].program

Handling(ix) == Checked /\ Instruction.program = program /\ history[Instruction.op].ix = ix

\* A panic ends the task, and nothing starts it again.
AssertFails ==
  /\ running /\ msg # <<>> /\ Instruction.program # Head(msg)[2].program
  /\ running' = FALSE
  /\ msg' = <<>>
  /\ UNCHANGED <<chain, db, tasks, ghosts, received, odd>>

\* match_program finds no handler, or the handler has no case for create_tree.
NotHandled ==
  /\ Checked
  /\ \/ Instruction.program # program
     \/ Handling("create") /\ program = "bubblegum"
  /\ msg' = Tail(msg)
  /\ UNCHANGED <<chain, running, db, tasks, ghosts, received, odd>>

\* Mutant: the change logs are saved in a transaction of their own.
Fails_ChangeLogsSaved ==
  /\ msg' = Tail(msg)
  /\ db' = save_changelog_events(db, Lines)
  /\ UNCHANGED <<chain, running, tasks, ghosts, received>>

Fails ==
  /\ msg' = Tail(msg)
  /\ UNCHANGED <<chain, running, db, tasks, ghosts, received>>

\* The transaction is committed if it can be; the database may fail it.
Transacts(possible, commit) ==
  \/ possible /\ commit /\ UNCHANGED odd
  \/ ~possible /\ Fails /\ UNCHANGED odd
  \/ possible /\ Fails /\ Strange

OutOfOrder == -1

\* No instruction on the asset of instruction k, but the creation of the tree, is
\* between instruction j and it.
Follows(j, k) ==
  /\ j < k
  /\ \A between \in j+1 .. k-1 :
       history[between].index # history[k].index \/ history[between].ix = "create"

\* Ghost: the last instruction committed on an asset, as long as each was
\* committed once and in the order of the chain.
Progress(k) ==
  synced' = [synced EXCEPT ![history[k].index] =
               IF @ # OutOfOrder /\ Follows(@, k) THEN k ELSE OutOfOrder]

handle_gummyroll_instruction ==
  /\ Checked /\ Instruction.program = program /\ program = "gummyroll"
  /\ Transacts(EventsFound(Lines),
       /\ db' = save_changelog_events(db, Lines)
       /\ saved' = saved \cup get_gummy_roll_events(Lines)
       /\ msg' = Tail(msg)
       /\ UNCHANGED <<chain, running, tasks, synced, dropped, received>>)

\* update_asset finds the asset's row.
Updatable(schema) == schema.nonce \in DOMAIN db.asset

\* The tables after the change logs and the asset's row are written.
Updated(id, row) ==
  [save_changelog_events(db, Lines) EXCEPT
     !.asset = [i \in DOMAIN @ \cup {id} |-> IF i = id THEN row ELSE @[i]]]

\* The leaf an instruction emitted, in its leaf or its decompression event.
Emitted(event) == get_bubblegum_event(Lines, event).schema

\* The asset's row before it is updated.
RowOf(event) == db.asset[Emitted(event).nonce]

\* The handlers that update the row of an asset.
UpdatesAsset(ix, event, row) ==
  /\ Handling(ix)
  /\ Transacts(HasBubblegumEvent(Lines, event) /\ Updatable(Emitted(event)),
       /\ db' = Updated(Emitted(event).nonce, row)
       /\ saved' = saved \cup get_gummy_roll_events(Lines)
       /\ Progress(LastOfType(Lines, event))
       /\ msg' = Tail(msg)
       /\ UNCHANGED <<chain, running, tasks, dropped, received>>)

NULL == <<>>

\* Mutant: the delegate of the previous owner stays in the row.
Transferred_DelegateKept(row, schema) ==
  [row EXCEPT !.leaf = <<to_node(schema)>>, !.owner = schema.owner]

Transferred(row, schema) ==
  [row EXCEPT !.leaf = <<to_node(schema)>>, !.delegate = NoKey, !.owner = schema.owner]

Transfer == UpdatesAsset("Transfer", "Leaf", Transferred(RowOf("Leaf"), Emitted("Leaf")))

Burn == UpdatesAsset("Burn", "Leaf", [RowOf("Leaf") EXCEPT !.burnt = TRUE])

Delegated(row, schema) ==
  [row EXCEPT !.leaf = <<to_node(schema)>>, !.delegate = schema.delegate]

Delegate == UpdatesAsset("Delegate", "Leaf", Delegated(RowOf("Leaf"), Emitted("Leaf")))

\* vec![0; 32]
Redeem == UpdatesAsset("Redeem", "Leaf", [RowOf("Leaf") EXCEPT !.leaf = <<EMPTY>>])

CancelRedeem ==
  UpdatesAsset("CancelRedeem", "Leaf", [RowOf("Leaf") EXCEPT !.leaf = <<to_node(Emitted("Leaf"))>>])

DecompressV1 ==
  UpdatesAsset("DecompressV1", "Decompression",
               [RowOf("Decompression") EXCEPT !.leaf = NULL, !.compressed = FALSE])

\* The owner and the delegate are those of the instruction's accounts.
AssetRow(accounts, schema) ==
  [owner |-> accounts.owner,
   delegate |-> IF accounts.owner = accounts.delegate THEN NoKey ELSE accounts.delegate,
   leaf |-> <<to_node(schema)>>, burnt |-> FALSE, compressed |-> TRUE, metadata |-> "processing"]

\* The asset's id is a primary key; the download is queued after the commit.
MintV1 ==
  /\ Handling("MintV1")
  /\ LET schema == Emitted("Leaf")
     IN  Transacts(HasBubblegumEvent(Lines, "Leaf") /\ schema.nonce \notin DOMAIN db.asset,
           /\ db' = Updated(schema.nonce, AssetRow(history[Instruction.op].schema, schema))
           /\ tasks' = Append(tasks, schema.nonce)
           /\ saved' = saved \cup get_gummy_roll_events(Lines)
           /\ Progress(LastOfType(Lines, "Leaf"))
           /\ msg' = Tail(msg)
           /\ UNCHANGED <<chain, running, dropped, received>>)

handle_bubblegum_instruction ==
  Transfer \/ Burn \/ Delegate \/ MintV1 \/ Redeem \/ CancelRedeem \/ DecompressV1

-----------------------------------------------------------------------------
(* The worker of TaskManager, and the process. *)

\* Mutant: the loop ends at the first error, and the queue with it.
TaskErrored_LoopEnds == <<>>

\* What is left of the queue after a task that failed: the error is printed.
TaskErrored == Tail(tasks)

\* A download completes and its body is stored.
TaskCompletes ==
  /\ tasks # <<>>
  /\ db' = [db EXCEPT !.asset[Head(tasks)].metadata = "done"]
  /\ tasks' = Tail(tasks)
  /\ UNCHANGED <<chain, msg, running, ghosts, received, odd>>

\* The download or the update fails.  It is not tried again.
TaskFails ==
  /\ tasks # <<>>
  /\ Strange
  /\ tasks' = TaskErrored
  /\ dropped' = dropped \cup {Head(tasks)}
  /\ UNCHANGED <<chain, msg, running, db, saved, synced, received>>

\* The process dies and is started again: the message being handled and the
\* queue are gone, the tables are kept.  When there is neither, nothing changes.
Restart ==
  /\ ~running \/ msg # <<>> \/ tasks # <<>>
  /\ Strange
  /\ msg' = <<>>
  /\ running' = TRUE
  /\ tasks' = <<>>
  /\ dropped' = dropped \cup ToSet(tasks)
  /\ UNCHANGED <<chain, db, saved, synced, received>>

-----------------------------------------------------------------------------

Init ==
  /\ program \in {"bubblegum", "gummyroll"}
  /\ leaves = [i \in LeafIndices |-> EMPTY]
  /\ history = <<[ix |-> "create", index |-> 0, seq |-> 0, path |-> PathOf(leaves, 0),
                  schema |-> NoSchema]>>
  /\ vouchers = [i \in LeafIndices |-> EMPTY]
  /\ published = <<[ops |-> {1}, tx |-> Plain(<<1>>)]>>
  /\ msg = <<>>
  /\ running = TRUE
  /\ db = [cl_items |-> <<>>, backfill_items |-> EmptyBag, asset |-> <<>>]
  /\ tasks = <<>>
  /\ saved = {}
  /\ synced = [i \in LeafIndices |-> 0]
  /\ dropped = {}
  /\ received = 0
  /\ odd = 0

Execute ==
  /\ Len(history) < MaxOps
  /\ \/ \E owner, delegate \in Wallet : Mint(owner, delegate)
     \/ \E i \in LeafIndices :
          \/ \E key \in Wallet : ChainTransfer(i, key) \/ ChainDelegate(i, key)
          \/ ChainBurn(i)
          \/ ChainRedeem(i)
          \/ ChainCancelRedeem(i)
          \/ ChainDecompress(i)
          \/ \E node \in LeafNodes : ChainWrite("append", i, node) \/ ChainWrite("replace_leaf", i, node)

ChainNext == Execute \/ Publish

Next ==
  \/ ChainNext
  \/ handle_transaction
  \/ AssertFails
  \/ NotHandled
  \/ handle_gummyroll_instruction
  \/ handle_bubblegum_instruction
  \/ TaskCompletes
  \/ TaskFails
  \/ Restart

Spec == Init /\ [][Next]_vars

-----------------------------------------------------------------------------

\* The change logs committed that touch the node at a position of a level.
Touching(lvl, position) == {k \in saved : history[k].index \div 2^lvl = position}

\* Whatever order the change logs are committed in, and however often, a row of
\* cl_items is the node as the latest of them on the chain left it.
NewestWins ==
  \A lvl \in 0..MAX_DEPTH : \A position \in 0 .. 2^(MAX_DEPTH - lvl) - 1 :
    LET touching == Touching(lvl, position)
        last == history[Max(touching)]
        n == 2^(MAX_DEPTH - lvl) + position
    IN  IF touching = {} THEN n \notin DOMAIN db.cl_items
        ELSE /\ n \in DOMAIN db.cl_items
             /\ db.cl_items[n] = [hash |-> last.path[lvl], seq |-> last.seq, level |-> lvl]

\* The change logs committed are all those up to one on the chain.
NoGap == \A k \in DOMAIN history : history[k].seq > 0 /\ history[k].ix # "DecompressV1" =>
           (k \in saved \/ \A j \in saved : j < k)

LeafHash(i) ==
  LET n == leaf_idx_to_node_idx(i, MAX_DEPTH)
  IN  IF n \in DOMAIN db.cl_items THEN db.cl_items[n].hash ELSE EMPTY

\* Without a gap in the change logs, what handle_get_proof of nft_api serves for
\* the node of a leaf proves that the hash of its row is in the tree with the
\* root of handle_get_root, which is the one that the last of them left on the
\* chain.
ProofsVerify ==
  NoGap /\ saved # {} =>
    LET root == get_root(db.cl_items)
    IN  /\ root = history[Max(saved)].path[MAX_DEPTH]
        /\ \A i \in LeafIndices :
             LET node_idx == leaf_idx_to_node_idx(i, get_height(db.cl_items))
                 proof == handle_get_proof(db.cl_items, node_idx)
             IN  Proves(Append(proof, root), LeafHash(i), i)

\* Of the three parts that handle_get_asset_proof of nft_api serves together, and
\* the repository's client checks together (checkProof), the hash is always that
\* of an empty leaf: they verify for empty leaves and for no others, whichever
\* change logs were committed in whatever order, as long as there is no gap.
OnlyEmptyLeavesVerify ==
  NoGap /\ saved # {} =>
    \A i \in LeafIndices :
      LET served == handle_get_asset_proof(db.cl_items, i)
      IN  Proves(Append(served.proof, served.root), served.hash, i) <=> LeafHash(i) = EMPTY

\* "Get merkle proof for asset": get_asset_proof of das_api serves a proof of every
\* asset whose leaf has a row.
AssetProofsVerify ==
  NoGap =>
    \A i \in DOMAIN db.asset :
      LET n == leaf_idx_to_node_idx(i, MAX_DEPTH)
      IN  n \in DOMAIN db.cl_items =>
            Proves(get_asset_proof(db.cl_items, n), LeafHash(i), i)

\* A handler leaves all of its rows or none: every node has its parent, not older
\* than itself, and a leaf of Bubblegum has the row of its asset.
WholeTransactions ==
  \A n \in DOMAIN db.cl_items :
    IF n < 2^MAX_DEPTH
    THEN n = 1 \/ (n \div 2 \in DOMAIN db.cl_items /\ db.cl_items[n \div 2].seq >= db.cl_items[n].seq)
    ELSE program = "bubblegum" => node_idx_to_leaf_idx(n, MAX_DEPTH) \in DOMAIN db.asset

\* The row of an asset whose instructions were committed once each and in order,
\* with those of other assets in between, shows the holder, the leaf and the state
\* that the last of them left on the chain.
AssetsFollowChain ==
  \A i \in DOMAIN db.asset :
    synced[i] # OutOfOrder =>
      LET row == db.asset[i]
          op == history[synced[i]]
      IN  /\ row.owner = op.schema.owner
          /\ (IF row.delegate = NoKey THEN row.owner ELSE row.delegate) = op.schema.delegate
          /\ row.burnt = (op.ix = "Burn")
          /\ row.compressed = (op.ix # "DecompressV1")
          /\ op.ix # "Burn" => row.leaf = IF op.ix = "DecompressV1" THEN NULL ELSE <<op.path[0]>>

\* The download of an asset whose metadata is "processing" is in the queue, behind
\* others that may fail, unless it failed itself or the process died.
DownloadsNotForgotten ==
  \A i \in DOMAIN db.asset :
    db.asset[i].metadata = "processing" => i \in ToSet(tasks) \cup dropped
=============================================================================
