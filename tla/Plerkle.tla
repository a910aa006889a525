------------------------------- MODULE Plerkle -------------------------------
(***************************************************************************)
(* The path of a notification from the validator to the ingester: the      *)
(* geyser plugin plerkle, the messenger on Redis streams, and the loop of  *)
(* the ingester that reads one of the streams.                             *)
(*                                                                         *)
(* Every notification that is selected is sent by a task of its own into a *)
(* bounded channel; one task reads the channel and appends to the streams, *)
(* dropping what cannot be sent.  A connection that fails is never opened  *)
(* again.  The ingester reads as the only consumer of a group that the     *)
(* plugin creates, and acknowledges nothing.                               *)
(***************************************************************************)
EXTENDS Integers, Sequences, FiniteSets, SequencesExt

CONSTANTS Configs,       \* the configuration files the plugin may be loaded with
          Transactions, AccountUpdates, SlotUpdates, Blocks,  \* what the validator may notify of
          Capacity,      \* of the channel, 32 in the code
          MAXLEN,        \* buffer size of every stream, 5000 in the code
          MaxLoads,      \* bound on the loads of the plugin
          MaxNotices,    \* bound on the notifications
          MaxFaults      \* bound on failing connections and restarts of the ingester

ASSUME PipelineBounds ==
  /\ Capacity \in Nat \ {0} /\ MAXLEN \in Nat \ {0}
  /\ MaxLoads \in Nat /\ MaxNotices \in Nat /\ MaxFaults \in Nat

VARIABLES
  plugin,     \* <<the configuration and the selectors>>, <<>> while not loaded
  notified,   \* what the validator notified of, and at which load
  tasks,      \* spawned tasks, each waiting to send its message
  channel,    \* what was sent and not received yet
  messenger,  \* of the plugin: "none", "connecting", "ready", "broken" or "gone"
  streams,    \* of the plugin's messenger: stream -> its buffer size, if it is set
  redis,      \* stream -> its group, its entries, and how many of those are read
  ingester,   \* "starting", "serving" or "down"
  inhand,     \* <<the message being handled>>
  handled,    \* ghost: messages whose handling ended
  offered,    \* ghost: messages that tasks were ever spawned for
  loads,      \* how often the plugin was loaded
  faults      \* faults so far

sending == <<tasks, channel, messenger, streams>>
reading == <<ingester, inhand>>
ghosts == <<handled, offered>>
vars == <<plugin, notified, sending, redis, reading, ghosts, loads, faults>>

STREAMS == <<"ACC", "SLT", "TXN", "BLK">>

\* An Option, as a sequence of at most one.
Some(x) == <<x>>
None == <<>>

-----------------------------------------------------------------------------
(* The selectors. *)

AccountsSelector(accounts, owners) ==
  IF "*" \in accounts
  THEN [accounts |-> {}, owners |-> {}, select_all_accounts |-> TRUE]
  ELSE [accounts |-> accounts, owners |-> owners, select_all_accounts |-> FALSE]

create_accounts_selector_from_config(config) ==
  IF config.accounts_selector = None
  THEN [accounts |-> {}, owners |-> {}, select_all_accounts |-> TRUE]
  ELSE AccountsSelector(config.accounts_selector[1].accounts, config.accounts_selector[1].owners)

is_account_selected(selector, account, owner) ==
  selector.select_all_accounts \/ account \in selector.accounts \/ owner \in selector.owners

account_data_notifications_enabled(selector) ==
  selector.select_all_accounts \/ selector.accounts # {} \/ selector.owners # {}

TransactionSelector(mentions) ==
  LET all == mentions \cap {"*", "all"} # {}
      votes == all \/ "all_votes" \in mentions
  IN  [mentioned_addresses |-> IF votes THEN {} ELSE mentions,
       select_all_transactions |-> all,
       select_all_vote_transactions |-> votes]

create_transaction_selector_from_config(config) ==
  IF config.transaction_selector = None
  THEN [mentioned_addresses |-> {}, select_all_transactions |-> FALSE,
        select_all_vote_transactions |-> FALSE]
  ELSE TransactionSelector(config.transaction_selector[1])

transaction_notifications_enabled(selector) ==
  \/ selector.select_all_transactions \/ selector.select_all_vote_transactions
  \/ selector.mentioned_addresses # {}

is_transaction_selected(selector, is_vote, keys) ==
  /\ transaction_notifications_enabled(selector)
  /\ \/ selector.select_all_transactions
     \/ selector.select_all_vote_transactions /\ is_vote
     \/ ToSet(keys) \cap selector.mentioned_addresses # {}

-----------------------------------------------------------------------------
(* Serialization: what of a notification is written to a stream. *)

\* A vector is written only when it has elements.
NonEmpty(s) == IF s = <<>> THEN None ELSE Some(s)

serialize_account(account) ==
  [pubkey |-> account.pubkey, owner |-> account.owner, data |-> account.data,
   slot |-> account.slot, is_startup |-> account.is_startup]

serialize_slot_status(update) ==
  [slot |-> update.slot, parent |-> update.parent, status |-> update.status]

\* Neither the signature nor the status is written.
serialize_transaction(tx) ==
  [is_vote |-> tx.is_vote, account_keys |-> NonEmpty(tx.account_keys),
   log_messages |-> tx.log_messages, inner_instructions |-> tx.inner_instructions,
   outer_instructions |-> NonEmpty(tx.instructions), slot |-> tx.slot]

serialize_block(block) ==
  [slot |-> block.slot, blockhash |-> block.blockhash, rewards |-> NonEmpty(block.rewards)]

\* The notification and the load are not sent.  They tell a message from one that
\* reads the same, and from one sent before a restart.
SerializedData(stream, builder, notice, load) ==
  [stream |-> stream, builder |-> builder, notice |-> notice, load |-> load]

\* The task that sends the message is spawned.
Spawn(stream, builder, notice) ==
  LET data == SerializedData(stream, builder, notice, loads)
  IN  /\ tasks' = tasks \cup {data}
      /\ offered' = offered \cup {data}
      /\ UNCHANGED <<plugin, channel, messenger, streams, redis, reading, handled, loads, faults>>

Ignore == UNCHANGED <<plugin, sending, redis, reading, ghosts, loads, faults>>

-----------------------------------------------------------------------------
(* What the validator calls. *)

\* The messenger's task is spawned; its first step is to connect.
on_load ==
  /\ plugin = None /\ loads < MaxLoads
  /\ \E config \in Configs :
       plugin' = Some([config |-> config,
                       accounts_selector |-> create_accounts_selector_from_config(config),
                       transaction_selector |-> create_transaction_selector_from_config(config)])
  /\ loads' = loads + 1
  /\ messenger' = "connecting" /\ streams' = <<>>
  /\ UNCHANGED <<notified, tasks, channel, redis, reading, ghosts, faults>>

\* The validator stops, or is killed: the runtime is gone with all its tasks.
on_unload ==
  /\ plugin # None
  /\ plugin' = None /\ tasks' = {} /\ channel' = <<>>
  /\ messenger' = "none" /\ streams' = <<>>
  /\ UNCHANGED <<notified, redis, reading, ghosts, loads, faults>>

\* The validator tells the loaded plugin something for the first time.
Notify(notice) ==
  /\ plugin # None
  /\ <<notice, loads>> \notin notified /\ Cardinality(notified) < MaxNotices
  /\ notified' = notified \cup {<<notice, loads>>}

update_account ==
  \E account \in AccountUpdates :
    LET selector == plugin[1].accounts_selector
    IN  /\ Notify(account)
        /\ account_data_notifications_enabled(selector)
        /\ IF is_account_selected(selector, account.pubkey, account.owner)
           THEN Spawn("ACC", serialize_account(account), account)
           ELSE Ignore

update_slot_status ==
  \E update \in SlotUpdates :
    Notify(update) /\ Spawn("SLT", serialize_slot_status(update), update)

\* Mutant: whether the transaction failed is not looked at.
notify_transaction_Failed ==
  \E tx \in Transactions :
    LET selector == plugin[1].transaction_selector
    IN  /\ Notify(tx)
        /\ transaction_notifications_enabled(selector)
        /\ IF ~tx.is_vote /\ is_transaction_selected(selector, tx.is_vote, tx.account_keys)
           THEN Spawn("TXN", serialize_transaction(tx), tx)
           ELSE Ignore

notify_transaction ==
  \E tx \in Transactions :
    LET selector == plugin[1].transaction_selector
    IN  /\ Notify(tx)
        /\ transaction_notifications_enabled(selector)
        /\ IF /\ ~tx.is_vote /\ ~tx.is_err
              /\ is_transaction_selected(selector, tx.is_vote, tx.account_keys)
           THEN Spawn("TXN", serialize_transaction(tx), tx)
           ELSE Ignore

notify_block_metadata ==
  \E block \in Blocks :
    Notify(block) /\ Spawn("BLK", serialize_block(block), block)

-----------------------------------------------------------------------------
(* The messenger. *)

Fault == faults < MaxFaults /\ faults' = faults + 1

\* A fault, or none.
FaultIf(broken) == IF broken THEN Fault ELSE UNCHANGED faults

\* Mutant: without MKSTREAM there is no group for a stream without entries.
add_stream_NoMkstream(r) ==
  IF r.group \/ r.entries = <<>> THEN r ELSE [r EXCEPT !.group = TRUE, !.read = Len(r.entries)]

\* Mutant: a group that exists is set to the end of the stream.
add_stream_Reset(r) == [r EXCEPT !.group = TRUE, !.read = Len(r.entries)]

\* XGROUP CREATE .. $ MKSTREAM; a group that exists is left as it is.
add_stream(r) == IF r.group THEN r ELSE [r EXCEPT !.group = TRUE, !.read = Len(r.entries)]

\* set_buffer_size follows for each stream.  A connection that fails half way
\* leaves the groups made so far, and a messenger that never sends.
Connected ==
  /\ messenger = "connecting"
  /\ \E n \in 0..Len(STREAMS) :
       /\ redis' = [s \in DOMAIN redis |->
                      IF s \in ToSet(SubSeq(STREAMS, 1, n)) THEN add_stream(redis[s]) ELSE redis[s]]
       /\ messenger' = IF n = Len(STREAMS) THEN "ready" ELSE "broken"
       /\ FaultIf(n < Len(STREAMS))
  /\ streams' = [s \in ToSet(STREAMS) |-> Some(MAXLEN)]
  /\ UNCHANGED <<plugin, notified, tasks, channel, reading, ghosts, loads>>

\* T::new fails: the receiver is dropped, and the channel with it.
NotConnected ==
  /\ messenger = "connecting" /\ Fault
  /\ messenger' = "gone" /\ channel' = <<>>
  /\ UNCHANGED <<plugin, notified, tasks, streams, redis, reading, ghosts, loads>>

\* Mutant: an unbounded channel.
Send_Unbounded ==
  \E data \in tasks :
    /\ tasks' = tasks \ {data}
    /\ channel' = IF messenger = "gone" THEN channel ELSE Append(channel, data)
    /\ UNCHANGED <<plugin, notified, messenger, streams, redis, reading, ghosts, loads, faults>>

\* A task's `sender.send(data).await`; it fails when there is no receiver.
Send ==
  \E data \in tasks :
    /\ messenger # "gone" => Len(channel) < Capacity
    /\ tasks' = tasks \ {data}
    /\ channel' = IF messenger = "gone" THEN channel ELSE Append(channel, data)
    /\ UNCHANGED <<plugin, notified, messenger, streams, redis, reading, ghosts, loads, faults>>

\* MAXLEN ~: Redis drops old entries when it suits, read or not, down to the limit.
Trimmed(r) ==
  {[r EXCEPT !.entries = SubSeq(@, k + 1, Len(@)), !.read = IF @ > k THEN @ - k ELSE 0] :
     k \in {k \in 0..Len(r.entries) : k = 0 \/ k <= Len(r.entries) - MAXLEN}}

\* One message of the loop `while let Some(data) = receiver.recv()`: XADD, whose
\* result nobody looks at.  A connection that fails may do so before or after.
send ==
  /\ messenger \in {"ready", "broken"} /\ channel # <<>>
  /\ channel' = Tail(channel)
  /\ LET data == Head(channel)
         added == Trimmed([redis[data.stream] EXCEPT !.entries = Append(@, data)])
         configured == data.stream \in DOMAIN streams /\ streams[data.stream] # None
     IN  \/ /\ configured /\ messenger = "ready"
            /\ \E r \in added, broken \in BOOLEAN :
                 /\ redis' = [redis EXCEPT ![data.stream] = r]
                 /\ messenger' = IF broken THEN "broken" ELSE "ready"
                 /\ FaultIf(broken)
         \/ /\ configured /\ messenger = "ready"
            /\ messenger' = "broken" /\ Fault /\ UNCHANGED redis
         \/ /\ messenger = "broken" \/ ~configured
            /\ UNCHANGED <<redis, messenger, faults>>
  /\ UNCHANGED <<plugin, notified, tasks, streams, reading, ghosts, loads>>

-----------------------------------------------------------------------------
(* The ingester: service_transaction_stream. *)

Start ==
  /\ ingester = "starting"
  /\ \E ok \in BOOLEAN :
       ingester' = (IF ok THEN "serving" ELSE "down") /\ FaultIf(~ok)
  /\ UNCHANGED <<plugin, notified, sending, redis, inhand, ghosts, loads>>

Advance(r) == [r EXCEPT !.read = @ + 1]

\* XREADGROUP .. COUNT 1 BLOCK 0 ">": the next entry the group was not given
\* yet.  Without a group it is an error, and the loop tries again.  When the connection fails Redis may
\* have given the entry away; every later call fails too.
recv ==
  /\ ingester = "serving" /\ inhand = None
  /\ LET r == redis["TXN"]
         unread == r.group /\ r.read < Len(r.entries)
     IN  \/ /\ unread
            /\ redis' = [redis EXCEPT !["TXN"] = Advance(r)]
            /\ inhand' = Some(r.entries[r.read + 1])
            /\ UNCHANGED <<ingester, faults>>
         \/ /\ ~r.group /\ UNCHANGED <<ingester, redis, inhand, faults>>
         \/ /\ Fault /\ ingester' = "down" /\ UNCHANGED inhand
            /\ \/ UNCHANGED redis
               \/ unread /\ redis' = [redis EXCEPT !["TXN"] = Advance(r)]
  /\ UNCHANGED <<plugin, notified, sending, ghosts, loads>>

\* A message without keys is skipped; one without logs is a panic, which ends
\* the task and not the process.
handle_transaction ==
  /\ inhand # None
  /\ LET data == inhand[1].builder
     IN  IF data.account_keys # None /\ data.log_messages = None
         THEN ingester' = "down" /\ UNCHANGED handled
         ELSE handled' = handled \cup {inhand[1]} /\ UNCHANGED ingester
  /\ inhand' = None
  /\ UNCHANGED <<plugin, notified, sending, redis, offered, loads, faults>>

\* The process is started again, by hand or by its supervisor.
Restart ==
  /\ ingester # "starting" /\ Fault
  /\ ingester' = "starting" /\ inhand' = None
  /\ UNCHANGED <<plugin, notified, sending, redis, ghosts, loads>>

-----------------------------------------------------------------------------
Init ==
  /\ plugin = None /\ notified = {}
  /\ tasks = {} /\ channel = <<>> /\ messenger = "none" /\ streams = <<>>
  /\ redis = [s \in ToSet(STREAMS) |-> [group |-> FALSE, entries |-> <<>>, read |-> 0]]
  /\ ingester = "starting" /\ inhand = None
  /\ handled = {} /\ offered = {} /\ loads = 0 /\ faults = 0

Next ==
  \/ on_load \/ on_unload
  \/ update_account \/ update_slot_status \/ notify_transaction \/ notify_block_metadata
  \/ Connected \/ NotConnected \/ Send \/ send
  \/ Start \/ recv \/ handle_transaction \/ Restart

\* Connecting and starting end one way or the other, tasks that can run are
\* run, and the ingester's loop never waits for anything but an entry.
Fairness ==
  /\ WF_vars(Connected \/ NotConnected) /\ WF_vars(Send) /\ WF_vars(send)
  /\ WF_vars(Start) /\ WF_vars(recv /\ UNCHANGED faults) /\ WF_vars(handle_transaction)

Spec == Init /\ [][Next]_vars /\ Fairness

-----------------------------------------------------------------------------
(* Properties. *)

MessageOf(tx, load) == SerializedData("TXN", serialize_transaction(tx), tx, load)

TransactionMessage == {MessageOf(tx, n) : tx \in Transactions, n \in 1..MaxLoads}

Message ==
  TransactionMessage
  \cup {SerializedData("ACC", serialize_account(a), a, n) : a \in AccountUpdates, n \in 1..MaxLoads}
  \cup {SerializedData("SLT", serialize_slot_status(u), u, n) : u \in SlotUpdates, n \in 1..MaxLoads}
  \cup {SerializedData("BLK", serialize_block(b), b, n) : b \in Blocks, n \in 1..MaxLoads}

\* The entries of a stream that its group was not given yet.
Unread(r) == ToSet(SubSeq(r.entries, r.read + 1, Len(r.entries)))

UnreadEntries == UNION {Unread(redis[s]) : s \in DOMAIN redis}

\* On the way from a task of the plugin to the end of the handler.
InTransit == tasks \cup ToSet(channel) \cup UnreadEntries \cup ToSet(inhand)

\* Type correctness; the channel holds no more than its capacity.
TypeOK ==
  /\ plugin = None \/ plugin[1].config \in Configs
  /\ tasks \subseteq Message /\ ToSet(channel) \subseteq Message /\ Len(channel) <= Capacity
  /\ messenger \in {"none", "connecting", "ready", "broken", "gone"}
  /\ \A s \in DOMAIN redis : /\ ToSet(redis[s].entries) \subseteq Message
                             /\ redis[s].read \in 0..Len(redis[s].entries)
  /\ ingester \in {"starting", "serving", "down"}
  /\ ToSet(inhand) \subseteq TransactionMessage
  /\ handled \subseteq TransactionMessage /\ offered \subseteq Message
  /\ loads \in 0..MaxLoads /\ faults \in 0..MaxFaults

\* What a configuration asks for, by the comment on TransactionSelector::new: all
\* for "*" or "all", all votes for "all_votes", and those that mention an address
\* given; never a failed transaction, by the comment in notify_transaction.  The
\* plugin sends less: no votes, and no others if "all_votes" is given.
Wanted(config, tx) ==
  /\ ~tx.is_err /\ config.transaction_selector # None
  /\ LET mentions == config.transaction_selector[1]
     IN  \/ mentions \cap {"*", "all"} # {}
         \/ "all_votes" \in mentions /\ tx.is_vote
         \/ ToSet(tx.account_keys) \cap mentions # {}

WantedNow == IF plugin = None THEN {} ELSE {tx \in Transactions : Wanted(plugin[1].config, tx)}

\* The plugin, the streams and the ingester together implement the abstract
\* delivery of transactions: only wanted ones set out, each message is handled
\* at most once whatever fails and whoever restarts, and none returns once lost.
Promise == INSTANCE Delivery WITH
  Message <- TransactionMessage, wanted <- {MessageOf(tx, loads) : tx \in WantedNow},
  offered <- offered \cap TransactionMessage, transit <- InTransit \cap TransactionMessage

ImplementsDelivery == Promise!Spec

LossCaused ==
  \A m \in InTransit \ (InTransit' \cup handled') :
    \/ /\ m \in tasks \cup ToSet(channel)
       /\ messenger = "gone" \/ messenger' \in {"none", "gone", "broken"}
    \/ /\ m \in Unread(redis[m.stream])
       /\ messenger = "ready" /\ Len(redis[m.stream].entries) >= MAXLEN
    \/ m \in Unread(redis[m.stream]) /\ ingester' = "down"
    \/ m \in ToSet(inhand) /\ ingester' # "serving"

\* A message that disappears on the way has one of four reasons: the plugin's
\* process or connection was gone before it was in a stream; its stream was at
\* its buffer size when another entry was added; Redis gave it to an ingester
\* that lost the connection; or the ingester stopped while handling it.  In
\* particular a restart of the plugin loses nothing that is in a stream.
LossesHaveCause == [][LossCaused]_vars

\* A transaction that sets out is handled or lost in the end, unless the
\* ingester's task is down for good: neither the full channel nor an ingester
\* that started before the plugin ever leaves it waiting.
TransactionsLeave ==
  \A m \in TransactionMessage : m \in InTransit ~> (m \notin InTransit \/ ingester = "down")
=============================================================================
