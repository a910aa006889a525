------------------------------ MODULE LeafArray ------------------------------
(***************************************************************************)
(* What a merkle tree account promises: an array of leaves filled from the *)
(* left.  A write replaces one leaf that was already written, or the first *)
(* one that was not; nothing else is ever touched.                         *)
(***************************************************************************)
EXTENDS Integers

CONSTANTS Size,    \* number of leaves
          Node,    \* what a leaf may hold
          Empty    \* what it holds before it is written

VARIABLES leaves,   \* the array
          next      \* leaves 0..next-1 were written

arrayVars == <<leaves, next>>

Indices == 0 .. Size-1

Unwritten == leaves = [i \in Indices |-> Empty] /\ next = 0

ArrayInit == Unwritten

\* The account is created from an off-chain tree with n leaves.
Load(n, contents) ==
  /\ Unwritten
  /\ contents \in [Indices -> Node]
  /\ \A i \in Indices : i >= n => contents[i] = Empty
  /\ leaves' = contents
  /\ next' = n

Overwrite(i, node) ==
  /\ i < next
  /\ leaves' = [leaves EXCEPT ![i] = node]
  /\ next' = next

WriteNext(node) ==
  /\ next < Size
  /\ leaves' = [leaves EXCEPT ![next] = node]
  /\ next' = next + 1

ArrayNext ==
  \/ \E n \in 1..Size : next' = n /\ Load(n, leaves')
  \/ \E i \in Indices, node \in Node : Overwrite(i, node)
  \/ \E node \in Node : WriteNext(node)

ArraySpec == ArrayInit /\ [][ArrayNext]_arrayVars

ArrayTypeOK == leaves \in [Indices -> Node] /\ next \in 0..Size

\* Leaves that were never written are empty.
NothingPastNext == \A i \in Indices : i >= next => leaves[i] = Empty
=============================================================================
