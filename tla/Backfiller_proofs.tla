-------------------------- MODULE Backfiller_proofs --------------------------
(***************************************************************************)
(* Proofs about Backfiller for any trees, sequence numbers and bounds.     *)
(* While the backfiller is inside delete_extra_tree_rows one row with the  *)
(* number it read is spared by every deletion to come, and every number    *)
(* below that one is stored or was examined.                               *)
(***************************************************************************)
EXTENDS Backfiller, FiniteSetTheorems, TLAPS

Deleting == pc \in {"delete", "find", "duplicates"}

Typed ==
  /\ backfill_items \subseteq Row
  /\ inserts \in 0..MaxInsert /\ pending \in 0..inserts
  /\ pc \in Labels
  /\ force_trees \subseteq Tree /\ multi_trees \subseteq Tree /\ tree \in Tree \cup {NoTree}
  /\ pc = "clear" \/ Deleting => tree \in Tree
  /\ max_seq \in 0..MaxSeq
  /\ extra \subseteq 1..inserts
  /\ stored \in [Tree -> SUBSET (1..MaxSeq)] /\ examined \in [Tree -> SUBSET (1..MaxSeq)]
  /\ first \in [Tree -> 0..MaxSeq] /\ missed \in BOOLEAN

\* Rows have ids of their own.
Serial ==
  /\ \A row \in backfill_items : row.id <= inserts
  /\ \A r1, r2 \in backfill_items : r1.id = r2.id => r1 = r2

\* Rows tell of stored change logs, and of each tree one row is left.
Told ==
  \A t \in Tree :
    /\ Seqs(t) \subseteq stored[t]
    /\ stored[t] = {} => first[t] = 0
    /\ stored[t] # {} => first[t] \in stored[t] /\ RowsOf(t) # {}
    /\ t \in multi_trees => stored[t] # {}

\* A row with the number that was read is spared.
Spared ==
  /\ Deleting => \E row \in RowsOf(tree) : row.seq = max_seq /\ (pc = "duplicates" => row.id \notin extra)
  /\ pc = "duplicates" => \A row \in backfill_items : row.id \in extra => row.tree = tree

\* No gap is left below the number that was read.
Filled ==
  Deleting => \A n \in 1..MaxSeq :
                first[tree] < n /\ n < max_seq => n \in stored[tree] \cup examined[tree]

IInv == Typed /\ Serial /\ Told /\ Spared /\ Filled /\ GapsStayInRange

-----------------------------------------------------------------------------

\* A set of numbers has a least one.
LEMMA LeastNumber ==
  ASSUME NEW S \in SUBSET Nat, S # {}
  PROVE  \E m \in S : \A k \in S : m <= k
  <1> DEFINE T == {0..n : n \in S}
             All == FiniteSubsetsOf(Nat)
  <1>1. T \subseteq All /\ T # {}
    <2>1. ASSUME NEW n \in S PROVE 0..n \in All
      <3>1. IsFiniteSet(0..n)
        BY FS_Interval
      <3>2. 0..n \in SUBSET Nat
        OBVIOUS
      <3> QED
        BY <3>1, <3>2 DEF FiniteSubsetsOf
    <2> HIDE DEF All
    <2> QED
      BY <2>1
  <1>2. IsWellFoundedOn(StrictSubsetOrdering(Nat), All)
    BY FS_StrictSubsetOrderingWellFounded
  <1> HIDE DEF T, All
  <1>3. PICK x \in T : \A y \in T : <<y, x>> \notin StrictSubsetOrdering(Nat)
    BY <1>1, <1>2, WFMin
  <1>4. PICK m \in S : x = 0..m
    BY DEF T
  <1>5. ASSUME NEW k \in S, k < m PROVE FALSE
    <2>1. 0..k \in T
      BY DEF T
    <2>2. 0..k \subseteq Nat /\ 0..m \subseteq Nat /\ 0..k \subseteq 0..m
      BY <1>5
    <2>3. m \in 0..m /\ m \notin 0..k
      BY <1>5
    <2> QED
      BY <1>3, <1>4, <2>1, <2>2, <2>3 DEF StrictSubsetOrdering
  <1> QED
    BY <1>5

\* A tree with rows has rows with the highest number.
LEMMA SomeRowIsHighest ==
  ASSUME Typed, NEW t, RowsOf(t) # {}
  PROVE  get_items_with_max_seq(t) # {}
  <1> DEFINE S == {MaxSeq - row.seq : row \in RowsOf(t)}
  <1>1. \A row \in RowsOf(t) : row.seq \in 1..MaxSeq
    BY DEF Typed, RowsOf, Row
  <1>2. S \in SUBSET Nat /\ S # {}
    BY <1>1, BackfillBounds
  <1>3. PICK m \in S : \A k \in S : m <= k
    BY <1>2, LeastNumber
  <1>4. PICK row \in RowsOf(t) : m = MaxSeq - row.seq
    OBVIOUS
  <1>5. ASSUME NEW other \in RowsOf(t) PROVE other.seq <= row.seq
    <2>1. MaxSeq - row.seq <= MaxSeq - other.seq
      BY <1>3, <1>4
    <2> QED
      BY <1>1, <2>1, BackfillBounds
  <1> QED
    BY <1>4, <1>5 DEF get_items_with_max_seq

-----------------------------------------------------------------------------

\* The empty table and a backfiller that has not started.
LEMMA InitIInv == Init => IInv
  <1> SUFFICES ASSUME Init PROVE IInv
    OBVIOUS
  <1>1. Typed
    <2>1. missed \in BOOLEAN /\ ~(pc = "clear" \/ Deleting) /\ pc \in Labels
      BY DEF Init, Labels, Deleting
    <2>2. 0 \in 0..MaxInsert /\ 0 \in 0..MaxSeq
      BY BackfillBounds
    <2> QED
      BY <2>1, <2>2 DEF Init, Typed
  <1>2. Serial /\ Told /\ Spared /\ Filled
    BY DEF Init, Serial, Told, Spared, Filled, Deleting, Seqs, RowsOf
  <1>3. GapsStayInRange
    BY DEF Init, GapsStayInRange
  <1> QED
    BY <1>1, <1>2, <1>3 DEF IInv

\* Steps that leave the table and the ghosts alone.
LEMMA LoopIInv ==
  ASSUME IInv, UNCHANGED <<backfill_items, stored, examined, first, inserts>>, pc' \in Labels, ~Deleting',
         pending' \in 0..inserts, missed' \in BOOLEAN, force_trees' \subseteq Tree, multi_trees' \subseteq Tree,
         tree' \in Tree \cup {NoTree}, pc' = "clear" => tree' \in Tree,
         max_seq' \in 0..MaxSeq, extra' \subseteq 1..inserts,
         \A t \in multi_trees' : stored[t] # {}
  PROVE  IInv'
  <1>1. Typed'
    BY DEF IInv, Typed, Deleting
  <1>2. Serial' /\ Told'
    BY DEF IInv, Serial, Told, Seqs, RowsOf
  <1>3. Spared' /\ Filled'
    BY DEF Spared, Filled, Deleting
  <1>4. GapsStayInRange'
    BY DEF IInv, GapsStayInRange, Seqs, RowsOf
  <1> QED
    BY <1>1, <1>2, <1>3, <1>4 DEF IInv

\* A handler inserts a row, at any point of the loop.
LEMMA InsertIInv ==
  ASSUME IInv, NEW t \in Tree, NEW seq \in 1..MaxSeq, Insert(t, seq)
  PROVE  IInv'
  <1> DEFINE new == [id |-> inserts', tree |-> t, seq |-> seq, force_chk |-> force_chk(t, seq)]
  <1>1. /\ backfill_items' = backfill_items \cup {new} /\ inserts' = inserts + 1
        /\ stored' = [stored EXCEPT ![t] = @ \cup {seq}]
        /\ first' = [first EXCEPT ![t] = IF @ = 0 THEN seq ELSE @]
        /\ UNCHANGED <<pc, force_trees, multi_trees, tree, max_seq, extra, examined, missed>>
    BY DEF Insert, loop
  <1>2. inserts \in 0..MaxInsert /\ inserts' \in 1..MaxInsert /\ inserts < inserts'
    BY BackfillBounds DEF Insert, IInv, Typed
  <1>3. new \in Row /\ new.tree = t /\ new.seq = seq /\ new.id = inserts'
    BY <1>2 DEF Row, force_chk
  <1> HIDE DEF new
  <1>4. /\ \A u \in Tree : u # t => RowsOf(u)' = RowsOf(u) /\ Seqs(u)' = Seqs(u)
        /\ RowsOf(t)' = RowsOf(t) \cup {new} /\ Seqs(t)' = Seqs(t) \cup {seq}
    <2>1. \A u \in Tree : u # t => RowsOf(u)' = RowsOf(u)
      BY <1>1, <1>3 DEF RowsOf
    <2>2. RowsOf(t)' = RowsOf(t) \cup {new}
      BY <1>1, <1>3 DEF RowsOf
    <2> QED
      BY <1>3, <2>1, <2>2 DEF Seqs
  <1>5. Typed'
    <2>1. pending' \in 0..inserts'
      BY <1>1, <1>2, BackfillBounds DEF IInv, Typed, Insert, notify_new_backfill_item
    <2>2. extra \subseteq 1..inserts'
      BY <1>1, <1>2 DEF IInv, Typed
    <2>3. stored' \in [Tree -> SUBSET (1..MaxSeq)] /\ first' \in [Tree -> 0..MaxSeq]
      BY <1>1, BackfillBounds DEF IInv, Typed
    <2> QED
      BY <1>1, <1>2, <1>3, <2>1, <2>2, <2>3 DEF IInv, Typed, Deleting
  <1>6. Serial'
    <2>1. \A row \in backfill_items : row.id <= inserts /\ row.id \in Nat
      BY BackfillBounds DEF IInv, Serial, Typed, Row
    <2>2. \A row \in backfill_items : row.id <= inserts' /\ row.id # new.id
      BY <1>1, <1>2, <1>3, <2>1
    <2> QED
      BY <1>1, <1>2, <1>3, <2>2 DEF IInv, Serial
  <1>7. /\ \A u \in Tree : u # t => stored'[u] = stored[u] /\ first'[u] = first[u]
        /\ stored'[t] = stored[t] \cup {seq} /\ first'[t] = IF first[t] = 0 THEN seq ELSE first[t]
    BY <1>1 DEF IInv, Typed
  <1>8. Told'
    BY <1>1, <1>4, <1>7 DEF IInv, Told
  <1>9. \A n \in stored[t] : n # 0
    BY DEF IInv, Typed
  <1>10. Spared'
    <2>1. new.id \notin extra
      BY <1>2, <1>3 DEF IInv, Typed
    <2> QED
      BY <1>1, <2>1 DEF IInv, Spared, Deleting, RowsOf
  <1>11. Filled'
    <2> SUFFICES ASSUME Deleting', NEW n \in 1..MaxSeq, first'[tree'] < n, n < max_seq'
                 PROVE  n \in stored'[tree'] \cup examined'[tree']
      BY DEF Filled
    <2>1. Deleting /\ tree \in Tree /\ tree' = tree /\ n < max_seq
      BY <1>1 DEF Deleting, IInv, Typed
    <2>2. RowsOf(tree) # {}
      BY <2>1 DEF IInv, Spared
    <2>3. stored[tree] # {} /\ first[tree] # 0
      <3>1. stored[tree] # {}
        BY <2>1, <2>2 DEF IInv, Told, Seqs
      <3>2. first[tree] \in stored[tree] /\ stored[tree] \subseteq 1..MaxSeq
        BY <2>1, <3>1 DEF IInv, Told, Typed
      <3> QED
        BY <3>1, <3>2
    <2>4. first'[tree] = first[tree] /\ stored[tree] \subseteq stored'[tree]
      BY <1>7, <2>1, <2>3
    <2> QED
      BY <1>1, <2>1, <2>4 DEF IInv, Filled
  <1>12. GapsStayInRange'
    <2> SUFFICES ASSUME NEW u \in Tree, NEW n \in 1..MaxSeq, n \notin stored'[u], n \notin examined'[u],
                        first'[u] # 0, first'[u] < n, NEW s \in stored'[u], n < s
                 PROVE  \E r \in Seqs(u)' : r < n
      BY DEF GapsStayInRange
    <2>1. stored \in [Tree -> SUBSET (1..MaxSeq)]
      BY DEF IInv, Typed
    <2>2. CASE u # t
      BY <1>1, <1>4, <1>7, <2>2 DEF IInv, GapsStayInRange
    <2>3. CASE u = t
      <3>1. n \notin stored[t] /\ n \notin examined[t] /\ n # seq
        BY <1>1, <1>7, <2>3
      <3>2. CASE seq < n
        BY <1>4, <2>3, <3>2
      <3>3. CASE first[t] = 0
        BY <1>7, <2>3, <3>2, <3>3
      <3>4. CASE first[t] # 0 /\ n < seq
        <4>1. first[t] < n
          BY <1>7, <2>3, <3>4
        <4>2. CASE \E k \in stored[t] : n < k
          BY <1>4, <2>3, <3>1, <3>4, <4>1, <4>2 DEF IInv, GapsStayInRange
        <4>3. CASE \A k \in stored[t] : ~(n < k)
          <5>1. stored[t] # {}
            BY <3>4 DEF IInv, Told
          <5>2. PICK row \in RowsOf(t) : TRUE
            BY <5>1 DEF IInv, Told
          <5>3. row.seq \in Seqs(t) /\ row.seq \in stored[t]
            BY <5>2 DEF Seqs, IInv, Told
          <5>4. row.seq \in 1..MaxSeq /\ ~(n < row.seq) /\ row.seq # n
            BY <2>1, <3>1, <4>3, <5>3
          <5>5. row.seq < n
            BY <5>4, BackfillBounds
          <5> QED
            BY <1>4, <2>3, <5>3, <5>5
        <4> QED
          BY <4>2, <4>3
      <3> QED
        BY <3>1, <3>2, <3>3, <3>4, BackfillBounds
    <2> QED
      BY <2>2, <2>3
  <1> QED
    BY <1>5, <1>6, <1>8, <1>10, <1>11, <1>12 DEF IInv

\* The queries for trees and the wait for a notification read only.
LEMMA QueryIInv ==
  ASSUME IInv, listen \/ get_force_chk_trees \/ get_multi_row_trees \/ recv
  PROVE  IInv'
  <1>1. CASE listen
    BY <1>1, LoopIInv DEF listen, FailsTo, Go, ghosts, IInv, Typed, Told, Labels, Deleting
  <1>2. CASE get_force_chk_trees
    <2>1. force_trees' \subseteq Tree
      BY <1>2 DEF get_force_chk_trees, IInv, Typed
    <2> QED
      BY <1>2, <2>1, LoopIInv DEF get_force_chk_trees, FailsTo, Go, ghosts, IInv, Typed, Told, Labels, Deleting
  <1>3. CASE get_multi_row_trees
    <2>1. ASSUME NEW t \in Tree, Cardinality(RowsOf(t)) > 1 PROVE stored[t] # {}
      <3>1. RowsOf(t) # {}
        BY <2>1, FS_EmptySet
      <3> QED
        BY <3>1 DEF IInv, Told, Seqs
    <2>2. multi_trees' \subseteq Tree /\ \A t \in multi_trees' : stored[t] # {}
      BY <1>3, <2>1 DEF get_multi_row_trees, IInv, Typed, Told
    <2>3. pc' \in {"wait", "force", "query_force"}
      BY <1>3 DEF get_multi_row_trees, FailsTo, Go
    <2> QED
      BY <1>3, <2>2, <2>3, LoopIInv DEF get_multi_row_trees, ghosts, IInv, Typed, Labels, Deleting
  <1>4. CASE recv
    <2>1. pending' \in 0..inserts
      BY <1>4, BackfillBounds DEF recv, IInv, Typed
    <2> QED
      BY <1>4, <2>1, LoopIInv DEF recv, FailsTo, Go, ghosts, IInv, Typed, Told, Labels, Deleting
  <1> QED
    BY <1>1, <1>2, <1>3, <1>4

\* A listener that connects again loses notifications and nothing else.
LEMMA ReconnectIInv ==
  ASSUME IInv, Reconnect
  PROVE  IInv'
  <1>1. /\ UNCHANGED <<backfill_items, pc, force_trees, multi_trees, tree, max_seq, extra,
                       examined, stored, first, inserts>>
        /\ missed' = TRUE
    BY DEF Reconnect, loop
  <1>2. pending' \in 0..inserts
    BY BackfillBounds DEF Reconnect, IInv, Typed
  <1>3. Typed'
    BY <1>1, <1>2 DEF IInv, Typed, Deleting
  <1>4. Serial' /\ Told' /\ Spared' /\ Filled' /\ GapsStayInRange'
    BY <1>1 DEF IInv, Serial, Told, Spared, Filled, GapsStayInRange, Deleting, Seqs, RowsOf
  <1> QED
    BY <1>3, <1>4 DEF IInv

\* The ends of the loops, and a restart, forget what was read.
LEMMA EndIInv ==
  ASSUME IInv, LoopEnds \/ DuplicatesEnd \/ Restart
  PROVE  IInv'
  <1>1. CASE LoopEnds
    BY <1>1, LoopIInv DEF LoopEnds, Go, ghosts, IInv, Typed, Told, Labels, Deleting
  <1>2. CASE DuplicatesEnd
    BY <1>2, LoopIInv DEF DuplicatesEnd, Go, ghosts, IInv, Typed, Told, Labels, Deleting
  <1>3. CASE Restart
    <2>1. 0 \in 0..inserts /\ 0 \in 0..MaxSeq
      BY BackfillBounds DEF IInv, Typed
    <2> QED
      BY <1>3, <2>1, LoopIInv DEF Restart, Go, ghosts, IInv, Typed, Labels, Deleting
  <1> QED
    BY <1>1, <1>2, <1>3

\* Filling from number 1 on examines every number up to the stored ones.
LEMMA ForceIInv ==
  ASSUME IInv, NEW t \in Tree, backfill_tree_from_seq_1(t)
  PROVE  IInv'
  <1> DEFINE new == {n \in 1..MaxSeq : \E seq \in Seqs(t) : n <= seq}
  <1>1. /\ examined' = [examined EXCEPT ![t] = @ \cup new]
        /\ pc' = "clear" /\ tree' = t /\ force_trees' \subseteq force_trees
        /\ UNCHANGED <<backfill_items, pending, multi_trees, max_seq, extra, stored, first, missed, inserts>>
    BY DEF backfill_tree_from_seq_1, Go
  <1>2. new \subseteq 1..MaxSeq
    OBVIOUS
  <1> HIDE DEF new
  <1>3. examined' \in [Tree -> SUBSET (1..MaxSeq)] /\ \A u \in Tree : examined[u] \subseteq examined'[u]
    BY <1>1, <1>2 DEF IInv, Typed
  <1>4. Typed'
    BY <1>1, <1>3 DEF IInv, Typed, Deleting, Labels
  <1>5. Serial' /\ Told'
    BY <1>1 DEF IInv, Serial, Told, Seqs, RowsOf
  <1>6. Spared' /\ Filled'
    BY <1>1 DEF Spared, Filled, Deleting
  <1>7. GapsStayInRange'
    BY <1>1, <1>3 DEF IInv, GapsStayInRange, Seqs, RowsOf
  <1> QED
    BY <1>4, <1>5, <1>6, <1>7 DEF IInv

\* Clearing the flags keeps ids, trees and numbers.
LEMMA ClearIInv ==
  ASSUME IInv, clear_force_chk_flag
  PROVE  IInv'
  <1> DEFINE Cleared(row) == IF row.tree = tree THEN [row EXCEPT !.force_chk = FALSE] ELSE row
  <1>1. CASE FailsTo("force") /\ UNCHANGED backfill_items
    BY <1>1, LoopIInv DEF clear_force_chk_flag, FailsTo, Go, ghosts, IInv, Typed, Told, Labels, Deleting
  <1>2. CASE backfill_items' = {Cleared(row) : row \in backfill_items} /\ pc' = "force"
    <2>1. \A row \in Row : /\ Cleared(row) \in Row /\ Cleared(row).id = row.id
                           /\ Cleared(row).tree = row.tree /\ Cleared(row).seq = row.seq
      BY DEF Row
    <2>2. UNCHANGED <<pending, force_trees, multi_trees, tree, max_seq, extra, examined, stored, first, missed, inserts>>
      BY DEF clear_force_chk_flag, ghosts
    <2>3. backfill_items \subseteq Row
      BY DEF IInv, Typed
    <2> HIDE DEF Cleared
    <2>4. backfill_items' \subseteq Row
      BY <1>2, <2>1, <2>3
    <2>5. \A u : Seqs(u)' = Seqs(u) /\ (RowsOf(u) # {} => RowsOf(u)' # {})
      BY <1>2, <2>1, <2>3 DEF Seqs, RowsOf
    <2>6. Typed'
      BY <1>2, <2>2, <2>4 DEF IInv, Typed, Deleting, Labels
    <2>7. Serial'
      BY <1>2, <2>1, <2>2, <2>3 DEF IInv, Serial
    <2>8. Told' /\ GapsStayInRange'
      BY <2>2, <2>5 DEF IInv, Told, GapsStayInRange
    <2>9. Spared' /\ Filled'
      BY <1>2 DEF Spared, Filled, Deleting
    <2> QED
      BY <2>6, <2>7, <2>8, <2>9 DEF IInv
  <1> QED
    BY <1>1, <1>2 DEF clear_force_chk_flag, Go

\* Plugging gaps examines what is missing below the number it goes on with.
LEMMA FetchIInv ==
  ASSUME IInv, NEW t \in Tree, fetch_and_plug_gaps(t)
  PROVE  IInv'
  <1>1. CASE FailsTo("multi") /\ UNCHANGED <<max_seq, examined>>
    BY <1>1, LoopIInv DEF fetch_and_plug_gaps, FailsTo, Go, IInv, Typed, Told, Labels, Deleting
  <1>2. CASE ~(FailsTo("multi") /\ UNCHANGED <<max_seq, examined>>)
    <2>1. /\ t \in multi_trees /\ multi_trees' \subseteq multi_trees /\ tree' = t /\ pc' = "delete"
          /\ examined' = [examined EXCEPT ![t] = @ \cup {n \in 1..max_seq' : \E seq \in Seqs(t) : seq <= n}]
          /\ UNCHANGED <<backfill_items, pending, force_trees, extra, stored, first, missed, inserts>>
      BY <1>2 DEF fetch_and_plug_gaps, Go
    <2>2. stored[t] # {} /\ RowsOf(t) # {} /\ first[t] \in stored[t]
      BY <2>1 DEF IInv, Told
    <2>3. PICK row \in get_items_with_max_seq(t) : max_seq' = row.seq
      BY <1>2, <2>2, SomeRowIsHighest DEF fetch_and_plug_gaps, IInv
    <2>4. row \in RowsOf(t) /\ row.seq \in Seqs(t) /\ max_seq' \in 1..MaxSeq /\ max_seq' \in stored[t]
      BY <2>3 DEF get_items_with_max_seq, RowsOf, Seqs, IInv, Typed, Row, Told
    <2>5. {n \in 1..max_seq' : \E seq \in Seqs(t) : seq <= n} \subseteq 1..MaxSeq
      BY <2>4, BackfillBounds
    <2>6. /\ examined' \in [Tree -> SUBSET (1..MaxSeq)]
          /\ \A u \in Tree : examined[u] \subseteq examined'[u]
      BY <2>1, <2>5 DEF IInv, Typed
    <2>7. Typed'
      BY <2>1, <2>4, <2>6 DEF IInv, Typed, Deleting, Labels
    <2>8. Serial' /\ Told'
      BY <2>1 DEF IInv, Serial, Told, Seqs, RowsOf
    <2>9. Spared'
      BY <2>1, <2>3, <2>4 DEF Spared, RowsOf
    <2>10. Filled'
      <3> SUFFICES ASSUME NEW n \in 1..MaxSeq, first[t] < n, n < max_seq', n \notin stored[t], n \notin examined[t]
                   PROVE  n \in examined'[t]
        BY <2>1, <2>6 DEF Filled
      <3>1. first[t] # 0
        BY <2>2 DEF IInv, Typed
      <3>2. PICK s \in Seqs(t) : s < n
        BY <2>4, <3>1 DEF IInv, GapsStayInRange
      <3>3. s \in 1..MaxSeq
        BY DEF Seqs, RowsOf, IInv, Typed, Row
      <3>4. s <= n /\ n \in 1..max_seq'
        BY <2>4, <3>2, <3>3, BackfillBounds
      <3> QED
        BY <2>1, <3>4 DEF IInv, Typed
    <2>11. GapsStayInRange'
      BY <2>1, <2>6 DEF IInv, GapsStayInRange, Seqs, RowsOf
    <2> QED
      BY <2>7, <2>8, <2>9, <2>10, <2>11 DEF IInv
  <1> QED
    BY <1>1, <1>2

\* Rows of the tree are deleted, but not the one that is spared: it is below
\* every gap, as there are none below its number.
LEMMA DeletionIInv ==
  ASSUME IInv, Deleting, Deleting', backfill_items' \subseteq backfill_items,
         \A row \in backfill_items : row.tree # tree => row \in backfill_items',
         NEW kept \in RowsOf(tree), kept \in backfill_items', kept.seq = max_seq,
         pc' = "duplicates" => kept.id \notin extra',
         pc' = "duplicates" => \A row \in backfill_items' : row.id \in extra' => row.tree = tree,
         extra' \subseteq 1..inserts,
         UNCHANGED <<pending, force_trees, multi_trees, tree, max_seq, examined, stored, first, missed, inserts>>
  PROVE  IInv'
  <1>1. tree \in Tree
    BY DEF IInv, Typed
  <1>2. kept \in RowsOf(tree)' /\ max_seq \in Seqs(tree) /\ max_seq \in Seqs(tree)'
    BY DEF RowsOf, Seqs
  <1>3. /\ \A u : RowsOf(u)' \subseteq RowsOf(u) /\ Seqs(u)' \subseteq Seqs(u)
        /\ \A u : u # tree => RowsOf(u)' = RowsOf(u) /\ Seqs(u)' = Seqs(u)
    BY DEF RowsOf, Seqs
  <1>4. Typed'
    BY DEF IInv, Typed, Deleting, Labels
  <1>5. Serial'
    BY DEF IInv, Serial
  <1>6. Told'
    BY <1>2, <1>3 DEF IInv, Told
  <1>7. Spared'
    BY <1>2 DEF Spared
  <1>8. Filled'
    BY DEF IInv, Filled
  <1>9. GapsStayInRange'
    <2> SUFFICES ASSUME NEW u \in Tree, NEW n \in 1..MaxSeq, n \notin stored[u], n \notin examined[u],
                        first[u] # 0, first[u] < n, NEW s \in stored[u], n < s
                 PROVE  \E r \in Seqs(u)' : r < n
      BY DEF GapsStayInRange
    <2>1. CASE u # tree
      BY <1>3, <2>1 DEF IInv, GapsStayInRange
    <2>2. CASE u = tree
      <3>1. ~(n < max_seq)
        BY <2>2 DEF IInv, Filled
      <3>2. n # max_seq
        BY <1>1, <1>2, <2>2 DEF IInv, Told
      <3>3. max_seq < n
        BY <3>1, <3>2, BackfillBounds DEF IInv, Typed
      <3> QED
        BY <1>2, <2>2, <3>3
    <2> QED
      BY <2>1, <2>2
  <1> QED
    BY <1>4, <1>5, <1>6, <1>7, <1>8, <1>9 DEF IInv

\* No deletion takes the spared row.
LEMMA DeleteIInv ==
  ASSUME IInv, DeleteOtherSeqs \/ FindDuplicates \/ DeleteDuplicate
  PROVE  IInv'
  <1>0. /\ Deleting
        /\ UNCHANGED <<pending, force_trees, multi_trees, tree, max_seq, examined, stored, first, missed, inserts>>
    BY DEF DeleteOtherSeqs, FindDuplicates, DeleteDuplicate, Deleting, ghosts
  <1>1. CASE FailsTo("multi")
    BY <1>0, <1>1, LoopIInv
      DEF DeleteOtherSeqs, FindDuplicates, DeleteDuplicate, FailsTo, Go, IInv, Typed, Told, Labels, Deleting
  <1>2. CASE DeleteOtherSeqs /\ ~FailsTo("multi")
    <2>1. /\ backfill_items' = {row \in backfill_items : row.tree = tree => row.seq = max_seq}
          /\ pc' = "find" /\ extra' = extra
      BY <1>2 DEF DeleteOtherSeqs, Remaining, Go
    <2>2. PICK kept \in RowsOf(tree) : kept.seq = max_seq
      BY <1>0 DEF IInv, Spared
    <2>3. kept \in backfill_items'
      BY <2>1, <2>2 DEF RowsOf
    <2>4. extra' \subseteq 1..inserts /\ Deleting'
      BY <2>1 DEF IInv, Typed, Deleting
    <2> QED
      BY <1>0, <2>1, <2>2, <2>3, <2>4, DeletionIInv
  <1>3. CASE FindDuplicates /\ ~FailsTo("multi")
    <2> DEFINE found == {row \in RowsOf(tree) : row.seq = max_seq}
    <2>1. PICK rows \in Extra(found) : extra' = {row.id : row \in rows}
      BY <1>3 DEF FindDuplicates
    <2>2. backfill_items' = backfill_items /\ pc' = "duplicates"
      BY <1>3 DEF FindDuplicates, Go
    <2>3. found # {}
      BY <1>0 DEF IInv, Spared
    <2>4. PICK kept \in found : rows = found \ {kept}
      BY <2>1, <2>3 DEF Extra
    <2>5. kept.id \notin extra'
      BY <2>1, <2>4 DEF RowsOf, IInv, Serial
    <2>6. \A row \in backfill_items : row.id \in extra' => row.tree = tree
      BY <2>1, <2>4 DEF RowsOf, IInv, Serial
    <2>7. extra' \subseteq 1..inserts
      <3>1. \A row \in backfill_items : row.id \in 1..MaxInsert /\ row.id <= inserts
        BY DEF IInv, Serial, Typed, Row
      <3>2. \A row \in backfill_items : row.id \in 1..inserts
        BY <3>1, BackfillBounds DEF IInv, Typed
      <3> QED
        BY <2>1, <2>4, <3>2 DEF RowsOf
    <2>8. Deleting' /\ kept \in RowsOf(tree) /\ kept.seq = max_seq /\ kept \in backfill_items'
      BY <2>2 DEF Deleting, RowsOf
    <2> QED
      BY <1>0, <2>2, <2>5, <2>6, <2>7, <2>8, DeletionIInv
  <1>4. CASE DeleteDuplicate /\ ~FailsTo("multi")
    <2>1. PICK id \in extra : /\ backfill_items' = {row \in backfill_items : row.id # id}
                              /\ extra' = extra \ {id} /\ pc' = pc /\ pc = "duplicates"
      BY <1>4 DEF DeleteDuplicate
    <2>2. PICK kept \in RowsOf(tree) : kept.seq = max_seq /\ kept.id \notin extra
      BY <1>0, <2>1 DEF IInv, Spared
    <2>3. kept \in backfill_items' /\ kept.id \notin extra'
      BY <2>1, <2>2 DEF RowsOf
    <2>4. \A row \in backfill_items : row.id \in extra => row.tree = tree
      BY <2>1 DEF IInv, Spared
    <2>5. extra' \subseteq 1..inserts /\ Deleting'
      BY <1>0, <2>1 DEF IInv, Typed, Deleting
    <2> QED
      BY <1>0, <2>1, <2>2, <2>3, <2>4, <2>5, DeletionIInv
  <1> QED
    BY <1>1, <1>2, <1>3, <1>4

\* Every step keeps the invariant.
LEMMA NextIInv == IInv /\ [Next]_vars => IInv'
  <1> SUFFICES ASSUME IInv, [Next]_vars PROVE IInv'
    OBVIOUS
  <1>1. CASE UNCHANGED vars
    <2>1. UNCHANGED <<backfill_items, pending, pc, force_trees, multi_trees, tree, max_seq, extra,
                      examined, stored, first, missed, inserts>>
      BY <1>1 DEF vars, loop, ghosts
    <2>2. Typed' /\ Serial' /\ Told'
      BY <2>1 DEF IInv, Typed, Serial, Told, Deleting, Seqs, RowsOf
    <2>3. Spared' /\ Filled' /\ GapsStayInRange'
      BY <2>1 DEF IInv, Spared, Filled, GapsStayInRange, Deleting, Seqs, RowsOf
    <2> QED
      BY <2>2, <2>3 DEF IInv
  <1>2. CASE \E t \in Tree, seq \in 1..MaxSeq : Insert(t, seq)
    BY <1>2, InsertIInv
  <1>3. CASE backfiller
    BY <1>3, QueryIInv, EndIInv, ForceIInv, ClearIInv, FetchIInv, DeleteIInv DEF backfiller
  <1>4. CASE Restart
    BY <1>4, EndIInv
  <1>5. CASE Reconnect
    BY <1>5, ReconnectIInv
  <1> QED
    BY <1>1, <1>2, <1>3, <1>4, <1>5 DEF Next

-----------------------------------------------------------------------------

\* The invariant holds of backfiller's loop however inserts, failures, lost
\* notifications and restarts interleave with it.
THEOREM Invariance == Spec => []IInv
  BY InitIInv, NextIInv, PTL DEF Spec

\* The table and the variables of backfiller's loop have their types.
THEOREM TypeCorrect == Spec => []TypeOK
  <1>1. IInv => TypeOK
    <2> SUFFICES ASSUME IInv PROVE TypeOK
      OBVIOUS
    <2>1. inserts \in Nat /\ inserts <= MaxInsert /\ MaxInsert \in Nat
      BY BackfillBounds DEF IInv, Typed
    <2>2. pending \in 0..MaxInsert /\ extra \subseteq 1..MaxInsert
      BY <2>1 DEF IInv, Typed
    <2> QED
      BY <2>2 DEF IInv, Typed, TypeOK
  <1> QED
    BY <1>1, Invariance, PTL

\* delete_extra_tree_rows never takes a tree's last row, no matter which rows
\* handlers insert between its statements and which of them fail.
THEOREM RowIsKept == Spec => []TreeKeepsRow
  <1>1. IInv => TreeKeepsRow
    BY DEF IInv, Told, TreeKeepsRow
  <1> QED
    BY <1>1, Invariance, PTL

\* A gap that no pass of fetch_and_plug_gaps examined stays above a row of its
\* tree, from which passes start, after the row that showed it is deleted.
THEOREM GapsAreSeen == Spec => []GapsStayInRange
  <1>1. IInv => GapsStayInRange
    BY DEF IInv
  <1> QED
    BY <1>1, Invariance, PTL
=============================================================================
