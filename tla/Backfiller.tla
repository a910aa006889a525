------------------------------ MODULE Backfiller ------------------------------
(***************************************************************************)
(* nft_ingester: the backfiller, and the table backfill_items through      *)
(* which the handlers of change logs tell it where numbers may be missing. *)
(*                                                                         *)
(* A handler inserts a row with the sequence number of each change log,    *)
(* marked for a full check when the tree had no row.  The backfiller looks *)
(* for marked trees and for trees with several rows, fills their gaps and  *)
(* leaves each tree one row.  Its two gap fillers are stubs in the code;   *)
(* the ghost `examined` records the numbers that they are called for.      *)
(* Each statement of the backfiller is a step of its own: handlers insert  *)
(* rows between any two.                                                   *)
(***************************************************************************)
EXTENDS Integers, FiniteSets

CONSTANTS Tree,       \* trees that change logs are of
          MaxSeq,     \* highest sequence number
          MaxInsert,  \* bound on the rows inserted
          NoTree,     \* no tree is being done
          MaxError    \* bound on failing statements, lost connections and restarts together

ASSUME BackfillBounds == MaxSeq \in Nat /\ MaxInsert \in Nat /\ MaxError \in Nat

VARIABLES
  backfill_items,  \* the rows of the table
  pending,         \* notifications that the listener has queued
  pc,              \* where the backfiller's loop is
  force_trees,     \* trees with the flag set that are still to be done
  multi_trees,     \* trees with several rows that are still to be done
  tree,            \* the one being done
  max_seq,         \* what fetch_and_plug_gaps returned for it
  extra,           \* ids of rows found with that number, still to be deleted
  examined,        \* ghost: tree -> numbers that a gap filler was called for
  stored,          \* ghost: tree -> numbers whose change log was stored
  first,           \* ghost: tree -> the number stored first, 0 if none
  missed,          \* ghost: a notification was lost since the last pass began
  inserts,         \* rows inserted so far
  errors           \* failures and restarts so far

loop == <<pc, force_trees, multi_trees, tree, max_seq, extra>>
ghosts == <<examined, stored, first, missed>>
vars == <<backfill_items, pending, loop, ghosts, inserts, errors>>

\* The id is a serial number.
Row == [id : 1..MaxInsert, tree : Tree, seq : 1..MaxSeq, force_chk : BOOLEAN]

RowsOf(t) == {row \in backfill_items : row.tree = t}

Seqs(t) == {row.seq : row \in RowsOf(t)}

-----------------------------------------------------------------------------
(* The handlers' side. *)

\* The tree is not in the table, and the change log is not its first.
force_chk(t, seq) == RowsOf(t) = {} /\ seq > 1

\* The backfiller's task has a listener.
Listening == pc \notin {"start", "ended"}

\* Mutant: who does not wait is not told.
notify_new_backfill_item_Unqueued == pending' = IF pc = "wait" THEN pending + 1 ELSE pending

\* pg_notify: once it listens, the listener keeps what arrives while nobody waits.
notify_new_backfill_item == pending' = IF Listening THEN pending + 1 ELSE pending

\* A change log is stored, out of order or again perhaps: its row is inserted by
\* the same transaction, and the trigger on the table notifies the backfiller.
Insert(t, seq) ==
  /\ inserts < MaxInsert
  /\ inserts' = inserts + 1
  /\ backfill_items' = backfill_items \cup
       {[id |-> inserts', tree |-> t, seq |-> seq, force_chk |-> force_chk(t, seq)]}
  /\ stored' = [stored EXCEPT ![t] = @ \cup {seq}]
  /\ first' = [first EXCEPT ![t] = IF @ = 0 THEN seq ELSE @]
  /\ notify_new_backfill_item
  /\ UNCHANGED <<loop, examined, missed, errors>>

-----------------------------------------------------------------------------
(* The backfiller's loop. *)

Go(label) == pc' = label

\* A statement fails: the error is printed, and the loop goes on as after `label`.
FailsTo(label) == errors < MaxError /\ errors' = errors + 1 /\ Go(label)

\* The listener connects and listens before the first query.  When either fails
\* the task returns, and nothing starts it again.
listen ==
  /\ pc = "start"
  /\ \/ Go("query_force") /\ UNCHANGED errors
     \/ FailsTo("ended")
  /\ UNCHANGED <<backfill_items, pending, force_trees, multi_trees, tree, max_seq, extra, ghosts, inserts>>

\* get_trees_to_backfill: two queries, one after the other.
get_force_chk_trees ==
  /\ pc = "query_force"
  /\ \/ /\ force_trees' = {t \in Tree : \E row \in RowsOf(t) : row.force_chk}
        /\ Go("query_multi")
        /\ missed' = FALSE
        /\ UNCHANGED errors
     \/ FailsTo("query_force") /\ UNCHANGED <<force_trees, missed>>
  /\ UNCHANGED <<backfill_items, pending, multi_trees, tree, max_seq, extra, examined, stored, first, inserts>>

Idle(force, multi) == force = {} /\ multi = {}

get_multi_row_trees ==
  /\ pc = "query_multi"
  /\ \/ /\ multi_trees' = {t \in Tree : Cardinality(RowsOf(t)) > 1}
        /\ Go(IF Idle(force_trees, multi_trees') THEN "wait" ELSE "force")
        /\ UNCHANGED errors
     \/ FailsTo("query_force") /\ UNCHANGED multi_trees
  /\ UNCHANGED <<backfill_items, pending, force_trees, tree, max_seq, extra, ghosts, inserts>>

\* listener.recv().await.unwrap(): returns a queued notification, or waits for
\* one.  When the connection cannot be opened again, the task panics.
recv ==
  /\ pc = "wait"
  /\ \/ /\ pending > 0 /\ pending' = pending - 1
        /\ Go("query_force")
        /\ UNCHANGED errors
     \/ FailsTo("ended") /\ pending' = 0
  /\ UNCHANGED <<backfill_items, force_trees, multi_trees, tree, max_seq, extra, ghosts, inserts>>

\* The listener's connection is lost and opened again by itself: of the
\* notifications nobody has received yet some are gone.
Reconnect ==
  /\ Listening
  /\ errors < MaxError /\ errors' = errors + 1
  /\ pending' \in 0 .. pending - 1
  /\ missed' = TRUE
  /\ UNCHANGED <<backfill_items, loop, examined, stored, first, inserts>>

\* A stub: it stands for filling in what is missing up to the highest row.
backfill_tree_from_seq_1(t) ==
  /\ pc = "force" /\ t \in force_trees
  /\ force_trees' = force_trees \ {t}
  /\ tree' = t
  /\ examined' = [examined EXCEPT ![t] = @ \cup {n \in 1..MaxSeq : \E seq \in Seqs(t) : n <= seq}]
  /\ Go("clear")
  /\ UNCHANGED <<backfill_items, pending, multi_trees, max_seq, extra, stored, first, missed, inserts, errors>>

\* All of the tree's rows lose the flag.
clear_force_chk_flag ==
  /\ pc = "clear"
  /\ \/ /\ backfill_items' = {IF row.tree = tree THEN [row EXCEPT !.force_chk = FALSE] ELSE row :
                                 row \in backfill_items}
        /\ Go("force")
        /\ UNCHANGED errors
     \/ FailsTo("force") /\ UNCHANGED backfill_items
  /\ UNCHANGED <<pending, force_trees, multi_trees, tree, max_seq, extra, ghosts, inserts>>

\* The end of one of the two loops over trees.
LoopEnds ==
  /\ \/ pc = "force" /\ force_trees = {} /\ Go("multi")
     \/ pc = "multi" /\ multi_trees = {} /\ Go("query_force")
  /\ UNCHANGED <<backfill_items, pending, force_trees, multi_trees, tree, max_seq, extra, ghosts, inserts, errors>>

\* Mutant: one too high.
get_items_with_max_seq_Next(t) ==
  {[row EXCEPT !.seq = @ + 1] : row \in {r \in RowsOf(t) : \A other \in RowsOf(t) : other.seq <= r.seq}}

get_items_with_max_seq(t) == {row \in RowsOf(t) : \A other \in RowsOf(t) : other.seq <= row.seq}

\* The stub returns the number of the first of the items, 0 if there are none; it
\* stands for filling in what is missing between the lowest row and the highest.
fetch_and_plug_gaps(t) ==
  LET items == get_items_with_max_seq(t)
  IN  /\ pc = "multi" /\ t \in multi_trees
      /\ multi_trees' = multi_trees \ {t}
      /\ tree' = t
      /\ \/ /\ \/ items = {} /\ max_seq' = 0
               \/ \E item \in items : max_seq' = item.seq
            /\ examined' = [examined EXCEPT ![t] = @ \cup
                             {n \in 1..max_seq' : \E seq \in Seqs(t) : seq <= n}]
            /\ Go("delete")
            /\ UNCHANGED errors
         \/ FailsTo("multi") /\ UNCHANGED <<max_seq, examined>>
      /\ UNCHANGED <<backfill_items, pending, force_trees, extra, stored, first, missed, inserts>>

\* Mutant: the highest number is read again.
Remaining_Newest(row) == \A other \in RowsOf(tree) : other.seq <= row.seq

\* The rows with the number that was examined.
Remaining(row) == row.seq = max_seq

\* delete_extra_tree_rows, first statement: the rows with another number, those
\* inserted since the highest was read included.
DeleteOtherSeqs ==
  /\ pc = "delete"
  /\ \/ /\ backfill_items' = {row \in backfill_items : row.tree = tree => Remaining(row)}
        /\ Go("find")
        /\ UNCHANGED errors
     \/ FailsTo("multi") /\ UNCHANGED backfill_items
  /\ UNCHANGED <<pending, force_trees, multi_trees, tree, max_seq, extra, ghosts, inserts>>

\* Mutant: all the rows found are deleted.
Extra_All(rows) == {rows}

\* items.iter().skip(1): the query states no order, any of the rows comes first.
Extra(rows) == IF rows = {} THEN {{}} ELSE {rows \ {row} : row \in rows}

\* Second: which rows are duplicates.
FindDuplicates ==
  /\ pc = "find"
  /\ \/ /\ \E rows \in Extra({row \in RowsOf(tree) : row.seq = max_seq}) :
             extra' = {row.id : row \in rows}
        /\ Go("duplicates")
        /\ UNCHANGED errors
     \/ FailsTo("multi") /\ UNCHANGED extra
  /\ UNCHANGED <<backfill_items, pending, force_trees, multi_trees, tree, max_seq, ghosts, inserts>>

\* Third: they are deleted one at a time.
DeleteDuplicate ==
  /\ pc = "duplicates" /\ extra # {}
  /\ \/ \E id \in extra :
          /\ backfill_items' = {row \in backfill_items : row.id # id}
          /\ extra' = extra \ {id}
          /\ UNCHANGED <<pc, errors>>
     \/ FailsTo("multi") /\ extra' = {} /\ UNCHANGED backfill_items
  /\ UNCHANGED <<pending, force_trees, multi_trees, tree, max_seq, ghosts, inserts>>

DuplicatesEnd ==
  /\ pc = "duplicates" /\ extra = {}
  /\ Go("multi")
  /\ UNCHANGED <<backfill_items, pending, force_trees, multi_trees, tree, max_seq, extra, ghosts, inserts, errors>>

\* The process dies and is started again, with a new listener.
Restart ==
  /\ errors < MaxError
  /\ errors' = errors + 1
  /\ Go("start")
  /\ pending' = 0
  /\ force_trees' = {} /\ multi_trees' = {} /\ tree' = NoTree /\ max_seq' = 0 /\ extra' = {}
  /\ UNCHANGED <<backfill_items, ghosts, inserts>>

-----------------------------------------------------------------------------

Init ==
  /\ backfill_items = {}
  /\ pending = 0
  /\ pc = "start"
  /\ force_trees = {} /\ multi_trees = {} /\ tree = NoTree /\ max_seq = 0 /\ extra = {}
  /\ examined = [t \in Tree |-> {}]
  /\ stored = [t \in Tree |-> {}]
  /\ first = [t \in Tree |-> 0]
  /\ missed = FALSE
  /\ inserts = 0
  /\ errors = 0

backfiller ==
  \/ listen
  \/ get_force_chk_trees
  \/ get_multi_row_trees
  \/ recv
  \/ \E t \in Tree : backfill_tree_from_seq_1(t)
  \/ clear_force_chk_flag
  \/ LoopEnds
  \/ \E t \in Tree : fetch_and_plug_gaps(t)
  \/ DeleteOtherSeqs
  \/ FindDuplicates
  \/ DeleteDuplicate
  \/ DuplicatesEnd

Next ==
  \/ \E t \in Tree, seq \in 1..MaxSeq : Insert(t, seq)
  \/ backfiller
  \/ Reconnect
  \/ Restart

\* The backfiller's task is scheduled, and what it waits for ends, well if it does
\* not fail.  Nothing makes change logs arrive, statements fail or tasks restart.
Spec == Init /\ [][Next]_vars /\ WF_vars(backfiller /\ UNCHANGED errors)

-----------------------------------------------------------------------------

Labels == {"start", "ended", "query_force", "query_multi", "wait", "force", "clear", "multi",
           "delete", "find", "duplicates"}

\* The table and the loop's variables have their types.
TypeOK ==
  /\ backfill_items \subseteq Row
  /\ pending \in 0..MaxInsert
  /\ pc \in Labels
  /\ force_trees \subseteq Tree /\ multi_trees \subseteq Tree /\ tree \in Tree \cup {NoTree}
  /\ max_seq \in 0..MaxSeq
  /\ extra \subseteq 1..MaxInsert
  /\ missed \in BOOLEAN

\* "One row for each tree must remain so that gaps can be detected after
\* subsequent inserts": none of the deletions, with rows inserted in between,
\* takes a tree's last row.
TreeKeepsRow == \A t \in Tree : stored[t] # {} => RowsOf(t) # {}

\* A number above the first one stored that is missing below another stored one,
\* and was not examined, is above some row of the tree: a pass examines what is
\* above the lowest row, so that one which finds a higher number comes across it,
\* even if the row that showed it was deleted.
GapsStayInRange ==
  \A t \in Tree : \A seq \in 1..MaxSeq \ (stored[t] \cup examined[t]) :
    first[t] # 0 /\ first[t] < seq /\ (\E s \in stored[t] : seq < s)
      => \E s \in Seqs(t) : s < seq

\* "Trees with the `force_chk` flag must be backfilled from seq num 1": while
\* numbers before the first one stored were not examined, a row has the flag.
FlaggedUntilChecked ==
  \A t \in Tree : 1 .. first[t] - 1 \subseteq stored[t] \cup examined[t]
                    \/ \E row \in RowsOf(t) : row.force_chk

\* The backfiller comes to every tree with several rows or a flag, no matter when
\* the rows were inserted and which statements failed: the tree is left with one
\* row and no flag.  Otherwise the listener is to blame: its failure has ended the
\* task, which only a restart of the process brings back, or it lost a
\* notification and the task waits for the next one.
TreesAreTidied ==
  \A t \in Tree :
    (Cardinality(RowsOf(t)) > 1 \/ \E row \in RowsOf(t) : row.force_chk)
      ~> \/ Cardinality(RowsOf(t)) = 1 /\ \A row \in RowsOf(t) : ~row.force_chk
         \/ pc = "ended"
         \/ pc = "wait" /\ pending = 0 /\ missed
=============================================================================
