--------------------------- MODULE Ingester_proofs ---------------------------
(***************************************************************************)
(* Proofs about Ingester for any depth, wallets, leaves and bounds.        *)
(*                                                                         *)
(* The inductive invariant IInv has four parts and one of the properties:  *)
(*   ChainOK    the history on the chain: sequence numbers grow, each leaf *)
(*              is what the last instruction on it left, and the change    *)
(*              logs hold the nodes of a hashed tree at every time;        *)
(*   PublishedOK, MessageOK                                                *)
(*              the events in the lines that parse_logs pairs with an      *)
(*              instruction are its own, or the assertion fails first;     *)
(*   TablesOK   the rows of cl_items are of the latest change logs saved,  *)
(*              those of assets of the last instruction followed;          *)
(*   DownloadsNotForgotten.                                                *)
(* Strong induction is on sets of numbers: LeastNumber, Upwards, Downwards.*)
(***************************************************************************)
EXTENDS Ingester, SequenceTheorems, FiniteSetTheorems, TLAPS

-----------------------------------------------------------------------------
(* Numbers, and the nodes above a leaf. *)

\* A set of numbers has a least one.
LEMMA LeastNumber ==
  ASSUME NEW S \in SUBSET Nat, S # {}
  PROVE  \E m \in S : \A k \in S : m <= k
  <1> DEFINE T == {0..n : n \in S}
             All == FiniteSubsetsOf(Nat)
  <1>1. T \subseteq All /\ T # {}
    <2>1. ASSUME NEW n \in S PROVE 0..n \in All
      <3>1. IsFiniteSet(0..n)
        BY FS_Interval
      <3>2. 0..n \in SUBSET Nat
        OBVIOUS
      <3> QED
        BY <3>1, <3>2 DEF FiniteSubsetsOf
    <2> HIDE DEF All
    <2> QED
      BY <2>1
  <1>2. IsWellFoundedOn(StrictSubsetOrdering(Nat), All)
    BY FS_StrictSubsetOrderingWellFounded
  <1> HIDE DEF T, All
  <1>3. PICK x \in T : \A y \in T : <<y, x>> \notin StrictSubsetOrdering(Nat)
    BY <1>1, <1>2, WFMin
  <1>4. PICK m \in S : x = 0..m
    BY DEF T
  <1>5. ASSUME NEW k \in S, k < m PROVE FALSE
    <2>1. 0..k \in T
      BY DEF T
    <2>2. 0..k \subseteq Nat /\ 0..m \subseteq Nat /\ 0..k \subseteq 0..m
      BY <1>5
    <2>3. m \in 0..m /\ m \notin 0..k
      BY <1>5
    <2> QED
      BY <1>3, <1>4, <2>1, <2>2, <2>3 DEF StrictSubsetOrdering
  <1> QED
    BY <1>5

\* Induction over the levels of a tree, upwards.
LEMMA Upwards ==
  ASSUME NEW n \in Nat, NEW S, 0 \in S, \A k \in 0..n-1 : k \in S => k + 1 \in S
  PROVE  \A k \in 0..n : k \in S
  <1> SUFFICES ASSUME ~(\A k \in 0..n : k \in S) PROVE FALSE
    OBVIOUS
  <1> DEFINE Bad == {k \in 0..n : k \notin S}
  <1>1. Bad \in SUBSET Nat /\ Bad # {}
    OBVIOUS
  <1>2. PICK m \in Bad : \A k \in Bad : m <= k
    BY <1>1, LeastNumber
  <1>3. m # 0 /\ m - 1 \in 0..n-1 /\ m - 1 \notin Bad
    BY <1>2
  <1> QED
    BY <1>2, <1>3

\* The same, downwards.
LEMMA Downwards ==
  ASSUME NEW n \in Nat, NEW S, n \in S, \A k \in 0..n-1 : k + 1 \in S => k \in S
  PROVE  \A k \in 0..n : k \in S
  <1> DEFINE U == {j \in 0..n : n - j \in S}
  <1>1. 0 \in U
    OBVIOUS
  <1>2. ASSUME NEW j \in 0..n-1, j \in U PROVE j + 1 \in U
    <2>1. n - (j + 1) \in 0..n-1 /\ n - (j + 1) + 1 = n - j
      OBVIOUS
    <2> QED
      BY <1>2, <2>1
  <1>3. \A j \in 0..n : j \in U
    <2> HIDE DEF U
    <2> QED
      BY <1>1, <1>2, Upwards
  <1>4. ASSUME NEW k \in 0..n PROVE k \in S
    <2>1. n - k \in 0..n /\ n - (n - k) = k
      OBVIOUS
    <2> QED
      BY <1>3, <2>1
  <1> QED
    BY <1>4

\* check_bounds keeps the depth below 31, so the powers of two that occur can be
\* computed one by one.
LEMMA PowersOfTwo ==
  ASSUME NEW k \in 0..30
  PROVE  2^k \in Nat \ {0} /\ 2^(k+1) = 2 * 2^k
  <1> DEFINE Doubles(j) == 2^j \in Nat \ {0} /\ 2^(j+1) = 2 * 2^j
  <1>1. /\ Doubles(0) /\ Doubles(1) /\ Doubles(2) /\ Doubles(3) /\ Doubles(4) /\ Doubles(5)
        /\ Doubles(6) /\ Doubles(7) /\ Doubles(8) /\ Doubles(9) /\ Doubles(10) /\ Doubles(11)
        /\ Doubles(12) /\ Doubles(13) /\ Doubles(14) /\ Doubles(15)
    OBVIOUS
  <1>2. /\ Doubles(16) /\ Doubles(17) /\ Doubles(18) /\ Doubles(19) /\ Doubles(20)
        /\ Doubles(21) /\ Doubles(22) /\ Doubles(23) /\ Doubles(24) /\ Doubles(25)
        /\ Doubles(26) /\ Doubles(27) /\ Doubles(28) /\ Doubles(29) /\ Doubles(30)
    OBVIOUS
  <1>3. \/ k = 0 \/ k = 1 \/ k = 2 \/ k = 3 \/ k = 4 \/ k = 5 \/ k = 6 \/ k = 7 \/ k = 8
        \/ k = 9 \/ k = 10 \/ k = 11 \/ k = 12 \/ k = 13 \/ k = 14 \/ k = 15 \/ k = 16 \/ k = 17
        \/ k = 18 \/ k = 19 \/ k = 20 \/ k = 21 \/ k = 22 \/ k = 23 \/ k = 24 \/ k = 25
        \/ k = 26 \/ k = 27 \/ k = 28 \/ k = 29 \/ k = 30
    OBVIOUS
  <1> HIDE DEF Doubles
  <1>4. Doubles(k)
    BY <1>1, <1>2, <1>3, Zenon
  <1> QED
    BY <1>4, Zenon DEF Doubles

\* 1 << MAX_DEPTH, the number of leaves, is a positive integer.
LEMMA Capacity == 2^MAX_DEPTH \in Nat \ {0}
  <1>1. MAX_DEPTH \in 0..30
    BY DepthAssumption
  <1> QED
    BY <1>1, PowersOfTwo, Zenon

\* index >> k, the position of a leaf's ancestor at level k.
Ancestor(index, k) == index \div 2^k

\* An ancestor's parent is at half its position; the bit of the index tells on
\* which side.
LEMMA AncestorStep ==
  ASSUME NEW i \in Nat, NEW k \in Levels
  PROVE  /\ Ancestor(i, 0) = i
         /\ Ancestor(i, k) \in Nat
         /\ Ancestor(i, k + 1) = Ancestor(i, k) \div 2
         /\ Bit(i, k) = Ancestor(i, k) % 2
  <1>1. k \in 0..30
    BY DepthAssumption DEF Levels
  <1>2. 2^k \in Nat \ {0} /\ 2^(k+1) = 2 * 2^k
    BY <1>1, PowersOfTwo, Zenon
  <1>3. 2^0 = 1
    OBVIOUS
  <1>4. \A b \in Nat \ {0} : i \div (2 * b) = (i \div b) \div 2 /\ i \div b \in Nat
    OBVIOUS
  <1>5. i \div 1 = i
    OBVIOUS
  <1> QED
    BY <1>2, <1>3, <1>4, <1>5 DEF Ancestor, Bit

\* The positions of the nodes at a level.
Width(k) == 2^(MAX_DEPTH - k)
Positions(k) == 0 .. Width(k) - 1

\* A level has half the nodes of the level below it.
LEMMA WidthStep ==
  ASSUME NEW k \in Levels
  PROVE  /\ Width(k) = 2 * Width(k + 1)
         /\ Width(k + 1) \in Nat \ {0} /\ Width(k) \in Nat \ {0}
         /\ Width(0) = 2^MAX_DEPTH /\ Width(MAX_DEPTH) = 1
  <1> DEFINE j == MAX_DEPTH - (k + 1)
  <1>1. j \in 0..30 /\ MAX_DEPTH - k = j + 1 /\ MAX_DEPTH - 0 = MAX_DEPTH /\ MAX_DEPTH - MAX_DEPTH = 0
    BY DepthAssumption DEF Levels
  <1> HIDE DEF j
  <1>2. 2^j \in Nat \ {0} /\ 2^(j+1) = 2 * 2^j
    BY <1>1, PowersOfTwo, Zenon
  <1>3. Width(k + 1) = 2^j
    BY DEF Width, j
  <1>4. Width(k) = 2^(j+1) /\ Width(0) = 2^MAX_DEPTH /\ Width(MAX_DEPTH) = 2^0
    BY <1>1, Zenon DEF Width
  <1>5. 2^0 = 1
    OBVIOUS
  <1> QED
    BY <1>2, <1>3, <1>4, <1>5

\* Ancestors of a leaf are nodes of the tree, the last one is the root.
LEMMA AncestorInTree ==
  ASSUME NEW i \in LeafIndices, NEW k \in 0..MAX_DEPTH
  PROVE  /\ Ancestor(i, k) \in Positions(k)
         /\ k = MAX_DEPTH => Ancestor(i, k) = 0
  <1> DEFINE S == {j \in 0..MAX_DEPTH : Ancestor(i, j) \in Positions(j)}
  <1>1. 0 \in Levels /\ MAX_DEPTH \in Nat /\ i \in Nat
    BY DepthAssumption, Capacity DEF Levels, LeafIndices
  <1>2. 0 \in S
    <2>1. Ancestor(i, 0) = i /\ Width(0) = 2^MAX_DEPTH
      BY <1>1, AncestorStep, WidthStep
    <2> QED
      BY <1>1, <2>1 DEF Positions, LeafIndices
  <1>3. ASSUME NEW j \in 0..MAX_DEPTH-1, j \in S PROVE j + 1 \in S
    <2>1. j \in Levels /\ j + 1 \in 0..MAX_DEPTH
      BY DepthAssumption DEF Levels
    <2>2. Ancestor(i, j + 1) = Ancestor(i, j) \div 2 /\ Ancestor(i, j) \in Nat
      BY <1>1, <2>1, AncestorStep
    <2>3. Width(j) = 2 * Width(j + 1) /\ Width(j + 1) \in Nat \ {0}
      BY <2>1, WidthStep
    <2>4. Ancestor(i, j) < Width(j)
      BY <1>3, <2>2, <2>3 DEF Positions
    <2>5. Ancestor(i, j + 1) \in Positions(j + 1)
      BY <2>2, <2>3, <2>4 DEF Positions
    <2> QED
      BY <2>1, <2>5
  <1>4. \A j \in 0..MAX_DEPTH : j \in S
    <2> HIDE DEF S
    <2> QED
      BY <1>1, <1>2, <1>3, Upwards
  <1>5. Width(MAX_DEPTH) = 1
    BY <1>1, WidthStep
  <1> QED
    BY <1>4, <1>5 DEF Positions

\* The nodes above a leaf.
LEMMA ClimbStep ==
  ASSUME NEW leaf, NEW proof, NEW left
  PROVE  /\ Climb(leaf, proof, left)[0] = leaf
         /\ \A k \in Levels : Climb(leaf, proof, left)[k + 1]
                                = hash_to_parent(Climb(leaf, proof, left)[k], proof[k], left[k])
  <1> DEFINE F(g, n) == [k \in 0..n |-> IF k = 0 THEN leaf
                                        ELSE hash_to_parent(g[k-1], proof[k-1], left[k-1])]
             S == {n \in 0..MAX_DEPTH : \E g : g = F(g, n)}
             c == Climb(leaf, proof, left)
  <1>1. 0 \in S
    <2> DEFINE g == [k \in 0..0 |-> leaf]
    <2>1. g = F(g, 0)
      OBVIOUS
    <2> HIDE DEF g
    <2> QED
      BY <2>1, DepthAssumption
  <1>2. ASSUME NEW n \in 0..MAX_DEPTH-1, n \in S PROVE n + 1 \in S
    <2>1. PICK g : g = F(g, n)
      BY <1>2
    <2> DEFINE h == [k \in 0..n+1 |-> IF k = n + 1 THEN hash_to_parent(g[n], proof[n], left[n]) ELSE g[k]]
    <2>2. ASSUME NEW k \in 0..n+1 PROVE h[k] = F(h, n + 1)[k]
      BY <2>1
    <2>3. h = F(h, n + 1)
      BY <2>2
    <2> HIDE DEF h
    <2> QED
      BY <2>3, DepthAssumption
  <1>3. MAX_DEPTH \in S
    <2> HIDE DEF S
    <2> QED
      BY <1>1, <1>2, Upwards, DepthAssumption
  <1>4. c = F(c, MAX_DEPTH)
    BY <1>3 DEF Climb
  <1> HIDE DEF c
  <1>5. c[0] = leaf
    BY <1>4, DepthAssumption
  <1>6. ASSUME NEW k \in Levels PROVE c[k + 1] = hash_to_parent(c[k], proof[k], left[k])
    <2>1. k + 1 \in 0..MAX_DEPTH /\ k + 1 # 0 /\ (k + 1) - 1 = k
      BY DepthAssumption DEF Levels
    <2> QED
      BY <1>4, <2>1
  <1> QED
    BY <1>5, <1>6 DEF c

\* The roots of empty subtrees.
LEMMA EmptyStep ==
  /\ empty_node[0] = EMPTY
  /\ \A k \in Levels : empty_node[k + 1] = <<empty_node[k], empty_node[k]>>
  <1> DEFINE Pair(node) == hash_to_parent(node, node, TRUE)
             F(g, n) == [level \in 0..n |-> IF level = 0 THEN EMPTY ELSE Pair(g[level-1])]
             S == {n \in 0..MAX_DEPTH : \E g : g = F(g, n)}
  <1>0. empty_node = CHOOSE g : g = F(g, MAX_DEPTH)
    BY DEF empty_node
  <1> HIDE DEF Pair
  <1>1. 0 \in S
    <2> DEFINE g == [k \in 0..0 |-> EMPTY]
    <2>1. g = F(g, 0)
      OBVIOUS
    <2> HIDE DEF g
    <2> QED
      BY <2>1, DepthAssumption
  <1>2. ASSUME NEW n \in 0..MAX_DEPTH-1, n \in S PROVE n + 1 \in S
    <2>1. PICK g : g = F(g, n)
      BY <1>2
    <2> DEFINE h == [k \in 0..n+1 |-> IF k = n + 1 THEN Pair(g[n]) ELSE g[k]]
    <2>2. ASSUME NEW k \in 0..n+1 PROVE h[k] = F(h, n + 1)[k]
      BY <2>1
    <2>3. h = F(h, n + 1)
      BY <2>2
    <2> HIDE DEF h
    <2> QED
      BY <2>3, DepthAssumption
  <1>3. MAX_DEPTH \in S
    <2> HIDE DEF S
    <2> QED
      BY <1>1, <1>2, Upwards, DepthAssumption
  <1>4. empty_node = F(empty_node, MAX_DEPTH)
    BY <1>0, <1>3
  <1>5. empty_node[0] = EMPTY
    BY <1>4, DepthAssumption
  <1>6. ASSUME NEW k \in Levels PROVE empty_node[k + 1] = <<empty_node[k], empty_node[k]>>
    <2>1. k + 1 \in 0..MAX_DEPTH /\ k + 1 # 0 /\ (k + 1) - 1 = k
      BY DepthAssumption DEF Levels
    <2> QED
      BY <1>4, <2>1 DEF Pair, hash_to_parent
  <1> QED
    BY <1>5, <1>6

\* The reference tree.
LEMMA TreeStep ==
  ASSUME NEW array
  PROVE  /\ MerkleTree(array)[0] = array
         /\ \A k \in Levels : \A p \in Positions(k + 1) :
              MerkleTree(array)[k + 1][p] = <<MerkleTree(array)[k][2*p], MerkleTree(array)[k][2*p + 1]>>
  <1> DEFINE Above(below, k) == [p \in 0 .. 2^(MAX_DEPTH-k) - 1 |-> <<below[2*p], below[2*p + 1]>>]
             F(g, n) == [k \in 0..n |-> IF k = 0 THEN array ELSE Above(g[k-1], k)]
             S == {n \in 0..MAX_DEPTH : \E g : g = F(g, n)}
             nodes == CHOOSE g : g = F(g, MAX_DEPTH)
             T == MerkleTree(array)
  <1>0. T = [k \in 0..MAX_DEPTH |-> nodes[k]]
    BY DEF MerkleTree
  <1> HIDE DEF Above, T
  <1>1. 0 \in S
    <2> DEFINE g == [k \in 0..0 |-> array]
    <2>1. g = F(g, 0)
      OBVIOUS
    <2> HIDE DEF g
    <2> QED
      BY <2>1, DepthAssumption
  <1>2. ASSUME NEW n \in 0..MAX_DEPTH-1, n \in S PROVE n + 1 \in S
    <2>1. PICK g : g = F(g, n)
      BY <1>2
    <2> DEFINE h == [k \in 0..n+1 |-> IF k = n + 1 THEN Above(g[n], n + 1) ELSE g[k]]
    <2>2. ASSUME NEW k \in 0..n+1 PROVE h[k] = F(h, n + 1)[k]
      BY <2>1
    <2>3. h = F(h, n + 1)
      BY <2>2
    <2> HIDE DEF h
    <2> QED
      BY <2>3, DepthAssumption
  <1>3. MAX_DEPTH \in S
    <2> HIDE DEF S
    <2> QED
      BY <1>1, <1>2, Upwards, DepthAssumption
  <1>4. nodes = F(nodes, MAX_DEPTH)
    BY <1>3
  <1> HIDE DEF nodes
  <1>5. T[0] = array
    BY <1>0, <1>4, DepthAssumption
  <1>6. ASSUME NEW k \in Levels, NEW p \in Positions(k + 1)
        PROVE  T[k + 1][p] = <<T[k][2*p], T[k][2*p + 1]>>
    <2>1. k + 1 \in 0..MAX_DEPTH /\ k \in 0..MAX_DEPTH /\ k + 1 # 0 /\ (k + 1) - 1 = k
      BY DepthAssumption DEF Levels
    <2>2. T[k + 1] = Above(T[k], k + 1)
      BY <1>0, <1>4, <2>1
    <2>3. p \in 0 .. 2^(MAX_DEPTH-(k + 1)) - 1
      BY DEF Positions, Width
    <2> QED
      BY <2>2, <2>3, Zenon DEF Above
  <1> QED
    BY <1>5, <1>6 DEF T

\* A node of the tree is above the nodes at twice its position and one more.
LEMMA Children ==
  ASSUME NEW k \in Levels, NEW p \in Positions(k + 1)
  PROVE  2*p \in Positions(k) /\ 2*p + 1 \in Positions(k)
  BY WidthStep DEF Positions

\* A leaf's path: of the two nodes below the ancestor at level k + 1 one is the
\* ancestor at level k and the other its sibling.
LEMMA PathStep ==
  ASSUME NEW i \in LeafIndices, NEW k \in Levels
  PROVE  LET a == Ancestor(i, k)
             up == Ancestor(i, k + 1)
         IN  /\ a \in Positions(k) /\ up \in Positions(k + 1) /\ Sibling(a) \in Positions(k)
             /\ a \in Nat /\ up = a \div 2 /\ Sibling(a) # a /\ Sibling(a) \div 2 = up
             /\ IsLeft(i)[k] => a = 2*up /\ Sibling(a) = 2*up + 1
             /\ ~IsLeft(i)[k] => a = 2*up + 1 /\ Sibling(a) = 2*up
  <1> DEFINE a == Ancestor(i, k)
             up == Ancestor(i, k + 1)
  <1>1. i \in Nat /\ k \in 0..MAX_DEPTH /\ k + 1 \in 0..MAX_DEPTH
    BY Capacity, DepthAssumption DEF LeafIndices, Levels
  <1>2. a \in Nat /\ up = a \div 2 /\ Bit(i, k) = a % 2
    BY <1>1, AncestorStep
  <1>3. a \in Positions(k) /\ up \in Positions(k + 1)
    BY <1>1, AncestorInTree
  <1>4. 2*up \in Positions(k) /\ 2*up + 1 \in Positions(k)
    BY <1>3, Children
  <1>5. IsLeft(i)[k] <=> a % 2 = 0
    BY <1>2 DEF IsLeft
  <1> HIDE DEF a, up
  <1>6. CASE a % 2 = 0
    <2>1. a = 2*up /\ Sibling(a) = 2*up + 1 /\ Sibling(a) \div 2 = up
      BY <1>2, <1>6 DEF Sibling
    <2> QED
      BY <1>2, <1>3, <1>4, <1>5, <1>6, <2>1 DEF a, up
  <1>7. CASE a % 2 # 0
    <2>1. a = 2*up + 1 /\ Sibling(a) = 2*up /\ Sibling(a) \div 2 = up
      BY <1>2, <1>7 DEF Sibling
    <2> QED
      BY <1>2, <1>3, <1>4, <1>5, <1>7, <2>1 DEF a, up
  <1> QED
    BY <1>6, <1>7

\* The index of the node at position p of level k.
NodeAt(k, p) == Width(k) + p

\* No level is empty.
LEMMA WidthPositive == \A k \in 0..MAX_DEPTH : Width(k) \in Nat \ {0}
<1>1. 0 \in Levels
  BY DepthAssumption DEF Levels
<1>2. Width(MAX_DEPTH) = 1
  BY <1>1, WidthStep
<1>3. \A k \in Levels : Width(k) \in Nat \ {0}
  BY WidthStep
<1> QED
  BY <1>2, <1>3, DepthAssumption DEF Levels

\* A lower level has at least twice as many nodes.
LEMMA WidthOrder ==
  ASSUME NEW k \in 0..MAX_DEPTH, NEW l \in 0..MAX_DEPTH, k < l
  PROVE  2 * Width(l) <= Width(k)
<1> DEFINE S == {j \in 0..l : j = l \/ 2 * Width(l) <= Width(j)}
<1>1. l \in S /\ l \in Nat
  BY DepthAssumption
<1>2. ASSUME NEW j \in 0..l-1, j + 1 \in S PROVE j \in S
  <2>1. j \in Levels
    BY DepthAssumption DEF Levels
  <2>2. Width(j) = 2 * Width(j + 1) /\ Width(j + 1) \in Nat
    BY <2>1, WidthStep
  <2>3. Width(l) \in Nat
    BY WidthPositive
  <2>4. 2 * Width(l) <= Width(j)
    <3>1. CASE j + 1 = l
      BY <2>2, <2>3, <3>1
    <3>2. CASE j + 1 # l
      BY <1>2, <2>2, <2>3, <3>2
    <3> QED
      BY <3>1, <3>2
  <2> QED
    BY <2>4
<1>3. \A j \in 0..l : j \in S
  <2> HIDE DEF S
  <2> QED
    BY <1>1, <1>2, Downwards
<1> QED
  BY <1>3

\* No two nodes share an index.
LEMMA NodeAtUnique ==
  ASSUME NEW k \in 0..MAX_DEPTH, NEW l \in 0..MAX_DEPTH, NEW p \in Positions(k), NEW q \in Positions(l),
         NodeAt(k, p) = NodeAt(l, q)
  PROVE  k = l /\ p = q
<1>1. /\ Width(k) \in Nat /\ Width(l) \in Nat /\ k \in Nat /\ l \in Nat
      /\ p \in Nat /\ p < Width(k) /\ q \in Nat /\ q < Width(l) /\ Width(k) + p = Width(l) + q
  BY WidthPositive DEF Positions, NodeAt
<1>2. ~(k < l)
  <2> SUFFICES ASSUME k < l PROVE FALSE
    OBVIOUS
  <2>1. 2 * Width(l) <= Width(k)
    BY WidthOrder
  <2> QED
    BY <1>1, <2>1
<1>3. ~(l < k)
  <2> SUFFICES ASSUME l < k PROVE FALSE
    OBVIOUS
  <2>1. 2 * Width(k) <= Width(l)
    BY WidthOrder
  <2> QED
    BY <1>1, <2>1
<1>4. k = l
  BY <1>1, <1>2, <1>3
<1> QED
  BY <1>1, <1>4

\* The largest of some numbers up to n.
LEMMA MaxIs ==
  ASSUME NEW n \in Nat, NEW S \in SUBSET (0..n), S # {}
  PROVE  Max(S) \in S /\ Max(S) \in Nat /\ \A k \in S : k <= Max(S)
<1> DEFINE T == {n - k : k \in S}
<1>0. \A k \in S : k \in 0..n /\ n - k \in Nat
  OBVIOUS
<1>1. T \in SUBSET Nat /\ T # {}
  BY <1>0
<1>2. PICK m \in T : \A k \in T : m <= k
  BY <1>1, LeastNumber
<1>3. PICK x \in S : m = n - x
  OBVIOUS
<1>4. \A y \in S : x >= y
  <2> TAKE y \in S
  <2>1. m <= n - y
    BY <1>2
  <2> QED
    BY <1>0, <1>3, <2>1
<1> HIDE DEF T
<1>5. Max(S) \in S /\ \A y \in S : Max(S) >= y
  BY <1>4 DEF Max
<1> DEFINE top == Max(S)
<1>6. top \in S /\ \A y \in S : top >= y
  BY <1>5
<1> HIDE DEF top
<1>7. top \in Nat /\ \A k \in S : k <= top
  BY <1>0, <1>6
<1> QED
  BY <1>6, <1>7 DEF top

\* It is the one number among them that none exceeds.
LEMMA MaxUnique ==
  ASSUME NEW S \in SUBSET Nat, NEW m \in S, \A k \in S : k <= m
  PROVE  Max(S) = m
<1>1. m \in S /\ \A y \in S : m >= y
  OBVIOUS
<1>2. Max(S) \in S /\ \A y \in S : Max(S) >= y
  BY <1>1 DEF Max
<1>3. Max(S) \in Nat /\ m \in Nat /\ Max(S) >= m /\ Max(S) <= m
  BY <1>1, <1>2
<1> QED
  BY <1>3

-----------------------------------------------------------------------------
(* Sequences of anything. *)

IsSeq(s) == \E S : s \in Seq(S)

\* The places of a sequence.
LEMMA SeqFacts ==
  ASSUME NEW s, IsSeq(s)
  PROVE  Len(s) \in Nat /\ DOMAIN s = 1..Len(s) /\ (s # <<>> => Len(s) >= 1) /\ (s = <<>> => Len(s) = 0)
<1>1. PICK S : s \in Seq(S)
  BY DEF IsSeq
<1> QED
  BY <1>1, LenProperties, EmptySeq

\* Sequences of no and of one element.
LEMMA SmallSeqs ==
  /\ IsSeq(<<>>) /\ Len(<<>>) = 0
  /\ \A x : IsSeq(<<x>>) /\ Len(<<x>>) = 1 /\ <<x>>[1] = x
<1>1. \A x : <<x>> \in Seq({x}) /\ <<>> \in Seq({x})
  OBVIOUS
<1> QED
  BY <1>1 DEF IsSeq

\* A function on 1..n is a sequence.
LEMMA FunctionIsSeq ==
  ASSUME NEW n \in Nat, NEW f, DOMAIN f = 1..n, f = [i \in 1..n |-> f[i]]
  PROVE  IsSeq(f) /\ Len(f) = n
<1> DEFINE S == {f[i] : i \in 1..n}
<1>0. f \in [1..n -> S]
  <2>1. \A i \in 1..n : f[i] \in S
    OBVIOUS
  <2> HIDE DEF S
  <2> QED
    BY <2>1
<1> HIDE DEF S
<1>1. f \in Seq(S)
  <2>1. Seq(S) = UNION {[1..m -> S] : m \in Nat}
    BY SeqDef, Zenon
  <2>2. [1..n -> S] \in {[1..m -> S] : m \in Nat}
    OBVIOUS
  <2> QED
    BY <1>0, <2>1, <2>2
<1>2. Len(f) \in Nat /\ DOMAIN f = 1..Len(f)
  BY <1>1, LenProperties
<1>3. 1..n = 1..Len(f)
  BY <1>2
<1>4. Len(f) = n
  BY <1>2, <1>3
<1> QED
  BY <1>1, <1>4 DEF IsSeq

\* Appending.
LEMMA AppendFacts ==
  ASSUME NEW s, IsSeq(s), NEW x
  PROVE  /\ IsSeq(Append(s, x)) /\ Len(Append(s, x)) = Len(s) + 1
         /\ \A i \in 1..Len(s) : Append(s, x)[i] = s[i]
         /\ Append(s, x)[Len(s) + 1] = x
<1>1. PICK S : s \in Seq(S)
  BY DEF IsSeq
<1>2. s \in Seq(S \cup {x}) /\ x \in S \cup {x}
  BY <1>1, SeqMonotonic
<1>3. Append(s, x) \in Seq(S \cup {x})
  BY <1>2, AppendProperties
<1> DEFINE T == S \cup {x}
<1> HIDE DEF T
<1>4. /\ Len(Append(s, x)) = Len(s) + 1
      /\ \A i \in 1.. Len(s) : Append(s, x)[i] = s[i]
      /\ Append(s, x)[Len(s) + 1] = x
  BY <1>2, AppendProperties DEF T
<1> QED
  BY <1>3, <1>4 DEF IsSeq

\* One sequence after another.  A name for it lets facts be found by matching.
Joined(s, t) == s \o t

\* Concatenation.
LEMMA ConcatFacts ==
  ASSUME NEW s, IsSeq(s), NEW t, IsSeq(t)
  PROVE  /\ IsSeq(Joined(s, t)) /\ Len(Joined(s, t)) = Len(s) + Len(t)
         /\ \A i \in 1..Len(s) : Joined(s, t)[i] = s[i]
         /\ \A i \in 1..Len(t) : Joined(s, t)[Len(s) + i] = t[i]
<1>1. PICK S : s \in Seq(S)
  BY DEF IsSeq
<1>2. PICK T : t \in Seq(T)
  BY DEF IsSeq
<1>3. s \in Seq(S \cup T) /\ t \in Seq(S \cup T)
  <2>1. S \subseteq S \cup T /\ T \subseteq S \cup T
    OBVIOUS
  <2> QED
    BY <1>1, <1>2, <2>1, SeqMonotonic
<1> DEFINE U == S \cup T
<1> HIDE DEF U
<1>4. /\ Joined(s, t) \in Seq(U)
      /\ Len(Joined(s, t)) = Len(s) + Len(t)
      /\ \A i \in 1 .. Len(s) + Len(t) : Joined(s, t)[i] = IF i <= Len(s) THEN s[i] ELSE t[i - Len(s)]
  BY <1>3, ConcatProperties DEF U, Joined
<1>5. Len(s) \in Nat /\ Len(t) \in Nat
  BY SeqFacts
<1>6. \A i \in 1..Len(s) : Joined(s, t)[i] = s[i]
  BY <1>4, <1>5
<1>7. \A i \in 1..Len(t) : Joined(s, t)[Len(s) + i] = t[i]
  <2> TAKE i \in 1..Len(t)
  <2>1. Len(s) + i \in 1 .. Len(s) + Len(t) /\ ~(Len(s) + i <= Len(s)) /\ (Len(s) + i) - Len(s) = i
    BY <1>5
  <2> QED
    BY <1>4, <2>1
<1> QED
  BY <1>4, <1>6, <1>7 DEF IsSeq

\* The first n elements.
LEMMA PrefixFacts ==
  ASSUME NEW s, IsSeq(s), NEW n \in 0..Len(s)
  PROVE  /\ IsSeq(SubSeq(s, 1, n)) /\ Len(SubSeq(s, 1, n)) = n
         /\ \A i \in 1..n : SubSeq(s, 1, n)[i] = s[i]
<1>1. PICK S : s \in Seq(S)
  BY DEF IsSeq
<1>2. Len(s) \in Nat
  BY SeqFacts
<1>3. \A i \in 1..n : s[i] \in S
  BY <1>1, <1>2
<1>4. /\ SubSeq(s, 1, n) \in Seq(S)
      /\ Len(SubSeq(s, 1, n)) = IF 1 <= n THEN n - 1 + 1 ELSE 0
      /\ \A i \in 1 .. n - 1 + 1 : SubSeq(s, 1, n)[i] = s[1 + i - 1]
  BY <1>2, <1>3, SubSeqProperties
<1>5. n \in Nat /\ n - 1 + 1 = n /\ (~(1 <= n) => n = 0)
  BY <1>2
<1>6. \A i \in 1..n : 1 + i - 1 = i
  BY <1>5
<1> QED
  BY <1>4, <1>5, <1>6 DEF IsSeq

\* Taking the head away.
LEMMA TailFacts ==
  ASSUME NEW s, IsSeq(s), s # <<>>
  PROVE  /\ IsSeq(Tail(s)) /\ Len(Tail(s)) = Len(s) - 1
         /\ \A i \in 1..Len(s) - 1 : Tail(s)[i] = s[i + 1]
         /\ Head(s) = s[1]
<1>1. PICK S : s \in Seq(S)
  BY DEF IsSeq
<1> QED
  BY <1>1, HeadTailProperties DEF IsSeq

-----------------------------------------------------------------------------
(* The inductive invariant. *)

BubblegumOps == {"MintV1", "Transfer", "Delegate", "Burn", "Redeem", "CancelRedeem", "DecompressV1"}

Schemas == [owner : Wallet, delegate : Wallet, nonce : LeafIndices]

\* The chain: one tree is created, then written by instructions of one program.
HistoryOK ==
  /\ program \in {"bubblegum", "gummyroll"}
  /\ IsSeq(history) /\ Len(history) >= 1
  /\ history[1].ix = "create" /\ history[1].seq = 0
  /\ \A k \in DOMAIN history : history[k].index \in LeafIndices /\ history[k].seq \in Nat
  /\ \A k \in 2..Len(history) :
       history[k].ix \in IF program = "bubblegum" THEN BubblegumOps ELSE {"append", "replace_leaf"}

\* Every change log has a higher number than those before it.
SeqsGrow ==
  \A j \in DOMAIN history : history[j].ix # "DecompressV1" =>
    /\ history[j].seq < sequence_number
    /\ \A k \in DOMAIN history : j < k => history[j].seq < history[k].seq

\* What an instruction of Bubblegum leaves at its index.
LeafAfter(op) == IF op.ix \in {"Burn", "Redeem", "DecompressV1"} THEN EMPTY ELSE to_node(op.schema)
VoucherAfter(op) == IF op.ix = "Redeem" THEN to_node(op.schema) ELSE EMPTY

\* What an instruction takes over from the one before it on the same leaf.
Continues(a, b) ==
  /\ a.ix \notin {"Burn", "DecompressV1"}
  /\ b.ix = "Delegate" => b.schema.owner = a.schema.owner
  /\ b.ix \in {"Burn", "Redeem", "CancelRedeem", "DecompressV1"} => b.schema = a.schema

OnLeaf(i) == {k \in 2..Len(history) : history[k].index = i}

\* The instructions of Bubblegum tell the story of each leaf.
LeavesOK ==
  /\ DOMAIN leaves = LeafIndices /\ DOMAIN vouchers = LeafIndices
  /\ program = "gummyroll" => \A i \in LeafIndices : vouchers[i] = EMPTY
  /\ program = "bubblegum" =>
       /\ \A k \in 2..Len(history) :
            /\ history[k].schema \in Schemas /\ history[k].schema.nonce = history[k].index
            /\ history[k].index < minted
            /\ history[k].path[0] = LeafAfter(history[k])
            /\ history[k].ix = "Transfer" => history[k].schema.delegate = history[k].schema.owner
       /\ \A i \in LeafIndices :
            IF OnLeaf(i) = {} THEN leaves[i] = EMPTY /\ vouchers[i] = EMPTY
            ELSE LET last == history[Max(OnLeaf(i))]
                 IN  leaves[i] = LeafAfter(last) /\ vouchers[i] = VoucherAfter(last)
       /\ \A j, k \in 2..Len(history) :
            history[j].index = history[k].index /\ Follows(j, k) => Continues(history[j], history[k])

\* The instructions among the first n that wrote below the node at position p.
Over(n, lvl, p) ==
  {k \in 2..n : history[k].ix # "DecompressV1" /\ Ancestor(history[k].index, lvl) = p}

\* That node in the tree after instruction n, read off the change logs.
NodeAfter(n, lvl, p) ==
  IF Over(n, lvl, p) = {} THEN empty_node[lvl] ELSE history[Max(Over(n, lvl, p))].path[lvl]

\* The change logs hold the nodes of a hashed tree, at every time.
PathsOK ==
  /\ \A lvl \in 0..MAX_DEPTH : history[1].path[lvl] = empty_node[lvl]
  /\ \A lvl \in 0..MAX_DEPTH : \A p \in Positions(lvl) :
       MerkleTree(leaves)[lvl][p] = NodeAfter(Len(history), lvl, p)
  /\ \A n \in DOMAIN history : \A lvl \in Levels : \A p \in Positions(lvl + 1) :
       NodeAfter(n, lvl + 1, p) = <<NodeAfter(n, lvl, 2*p), NodeAfter(n, lvl, 2*p + 1)>>

\* An instruction of the program that the logs paired with it are of: all events
\* among them are its own.
PairOK(pair) ==
  pair[1].program = program =>
    /\ pair[1].op \in DOMAIN history
    /\ IsSeq(pair[2].lines)
    /\ \A n \in DOMAIN pair[2].lines : LET line == pair[2].lines[n] IN
         line[1] = "data" => line[3] = pair[1].op /\ line[2] \in ToSet(EventsOf(history[pair[1].op].ix))

\* A message: the assertion fails at once, or every pair matches.
MessageOK(m) ==
  /\ IsSeq(m)
  /\ m # <<>> => \/ m[1][1].program # m[1][2].program
                 \/ \A n \in DOMAIN m : PairOK(m[n])

\* What handle_transaction takes out of a transaction.
TransactionOK(tx) ==
  tx.readable /\ tx.logs # NoLogs => MessageOK(Zip(order_instructions(tx), parse_logs(tx.logs[1])))

PublishedOK == IsSeq(published) /\ \A t \in DOMAIN published : TransactionOK(published[t].tx)

\* Tables.
IsDb(d) == d = [cl_items |-> d.cl_items, backfill_items |-> d.backfill_items, asset |-> d.asset]

TouchingOf(ks, n) ==
  {k \in ks : \E lvl \in 0..MAX_DEPTH : n = NodeAt(lvl, Ancestor(history[k].index, lvl))}

ChangeLogNumbers == {k \in DOMAIN history : history[k].ix # "DecompressV1"}

Newest(d, ks) ==
  /\ IsDb(d)
  /\ ks \subseteq ChangeLogNumbers
  /\ \A n \in DOMAIN d.cl_items : TouchingOf(ks, n) # {}
  /\ \A lvl \in 0..MAX_DEPTH : \A p \in Positions(lvl) :
       TouchingOf(ks, NodeAt(lvl, p)) # {} =>
         LET last == history[Max(TouchingOf(ks, NodeAt(lvl, p)))]
         IN  /\ NodeAt(lvl, p) \in DOMAIN d.cl_items
             /\ d.cl_items[NodeAt(lvl, p)] = [hash |-> last.path[lvl], seq |-> last.seq, level |-> lvl]

Rows == [owner : Wallet, delegate : Wallet \cup {NoKey},
         leaf : {NULL, <<EMPTY>>} \cup {<<to_node(schema)>> : schema \in Schemas},
         burnt : BOOLEAN, compressed : BOOLEAN, metadata : {"processing", "done"}]

AssetsOK ==
  /\ DOMAIN db.asset \subseteq LeafIndices
  /\ db.asset \in [DOMAIN db.asset -> Rows]
  /\ tasks \in Seq(LeafIndices)
  /\ program = "gummyroll" => DOMAIN db.asset = {}
  /\ program = "bubblegum" => \A k \in saved : k # 1 /\ history[k].index \in DOMAIN db.asset

SyncedOK ==
  /\ DOMAIN synced = LeafIndices
  /\ \A i \in LeafIndices :
       /\ synced[i] \in {OutOfOrder, 0} \cup OnLeaf(i)
       /\ i \in DOMAIN db.asset => synced[i] # 0

-----------------------------------------------------------------------------
(* The chain. *)

\* How the history grows.
LEMMA HistoryGrows ==
  ASSUME HistoryOK, NEW ix, NEW index \in LeafIndices, NEW node, NEW schema,
         Executes(ix, index, node, schema)
  PROVE  LET n == Len(history)
         IN  /\ n \in Nat /\ n >= 1 /\ IsSeq(history') /\ Len(history') = n + 1
             /\ DOMAIN history = 1..n /\ DOMAIN history' = 1..n+1
             /\ \A k \in 1..n : history'[k] = history[k]
             /\ history'[n + 1].ix = ix /\ history'[n + 1].index = index
             /\ history'[n + 1].seq = sequence_number /\ history'[n + 1].schema = schema
             /\ history'[n + 1].path = PathOf(leaves', index)
             /\ \A k \in 1..n+1 : k \in 1..n \/ k = n + 1
             /\ n + 1 \in 1..n+1 /\ \A k \in 1..n : k \in 1..n+1 /\ k # n + 1
<1> DEFINE n == Len(history)
           op == [ix |-> ix, index |-> index, seq |-> sequence_number,
                  path |-> PathOf(leaves', index), schema |-> schema]
<1>1. history' = Append(history, op) /\ IsSeq(history) /\ n >= 1
  BY DEF Executes, HistoryOK
<1> HIDE DEF op
<1>2. n \in Nat /\ DOMAIN history = 1..n
  BY <1>1, SeqFacts
<1>3. /\ IsSeq(history') /\ Len(history') = n + 1
      /\ \A k \in 1..n : history'[k] = history[k]
      /\ history'[n + 1] = op
  BY <1>1, AppendFacts
<1>4. DOMAIN history' = 1..n+1
  BY <1>3, SeqFacts
<1>5. /\ \A k \in 1..n+1 : k \in 1..n \/ k = n + 1
      /\ n + 1 \in 1..n+1 /\ \A k \in 1..n : k \in 1..n+1 /\ k # n + 1
  BY <1>2
<1>6. /\ op.ix = ix /\ op.index = index /\ op.seq = sequence_number /\ op.schema = schema
      /\ op.path = PathOf(leaves', index)
  BY DEF op
<1> HIDE DEF n
<1>7. /\ history'[n + 1].ix = ix /\ history'[n + 1].index = index
      /\ history'[n + 1].seq = sequence_number /\ history'[n + 1].schema = schema
      /\ history'[n + 1].path = PathOf(leaves', index)
  BY <1>3, <1>6
<1> QED
  BY <1>1, <1>2, <1>3, <1>4, <1>5, <1>7, Zenon DEF n

\* Counting the instructions of a kind.
LEMMA CountOne ==
  ASSUME NEW n \in Nat, NEW S \in SUBSET (1..n)
  PROVE  Cardinality(S) \in Nat /\ Cardinality(S \cup {n + 1}) = Cardinality(S) + 1
<1>1. IsFiniteSet(1..n)
  BY FS_Interval
<1>2. IsFiniteSet(S)
  BY <1>1, FS_Subset
<1>3. n + 1 \notin S
  OBVIOUS
<1> QED
  BY <1>2, <1>3, FS_CardinalityType, FS_AddElement

\* sequence_number and minted after an instruction.
LEMMA Counted ==
  ASSUME HistoryOK, NEW ix, NEW index \in LeafIndices, NEW node, NEW schema,
         Executes(ix, index, node, schema)
  PROVE  /\ sequence_number \in Nat /\ minted \in Nat
         /\ sequence_number' = IF ix # "DecompressV1" THEN sequence_number + 1 ELSE sequence_number
         /\ minted' = IF ix \in {"MintV1", "append"} THEN minted + 1 ELSE minted
<1> DEFINE n == Len(history)
           A == {k \in DOMAIN history : history[k].ix # "DecompressV1"}
           B == {k \in DOMAIN history : history[k].ix \in {"MintV1", "append"}}
<1>1. /\ n \in Nat /\ DOMAIN history = 1..n /\ DOMAIN history' = 1..n+1
      /\ \A k \in 1..n : history'[k] = history[k]
      /\ history'[n + 1].ix = ix
      /\ \A k \in 1..n+1 : k \in 1..n \/ k = n + 1
      /\ n + 1 \in 1..n+1 /\ \A k \in 1..n : k \in 1..n+1 /\ k # n + 1
  BY HistoryGrows
<1>2. A \in SUBSET (1..n) /\ B \in SUBSET (1..n)
  BY <1>1
<1>3. A' = IF ix # "DecompressV1" THEN A \cup {n + 1} ELSE A
  BY <1>1
<1>4. B' = IF ix \in {"MintV1", "append"} THEN B \cup {n + 1} ELSE B
  BY <1>1
<1>5. sequence_number = Cardinality(A) /\ minted = Cardinality(B)
  BY DEF sequence_number, minted
<1>6. sequence_number' = Cardinality(A') /\ minted' = Cardinality(B')
  BY DEF sequence_number, minted
<1> HIDE DEF A, B, n
<1>7. /\ Cardinality(A) \in Nat /\ Cardinality(A \cup {n + 1}) = Cardinality(A) + 1
      /\ Cardinality(B) \in Nat /\ Cardinality(B \cup {n + 1}) = Cardinality(B) + 1
  BY <1>1, <1>2, CountOne
<1> QED
  BY <1>3, <1>4, <1>5, <1>6, <1>7

\* The instructions of the two programs.
ProgramOps == IF program = "bubblegum" THEN BubblegumOps ELSE {"append", "replace_leaf"}

\* Executing an instruction of the program.
LEMMA HistoryKept ==
  ASSUME HistoryOK, SeqsGrow, NEW ix \in ProgramOps, NEW index \in LeafIndices, NEW node, NEW schema,
         Executes(ix, index, node, schema)
  PROVE  HistoryOK' /\ SeqsGrow'
<1> DEFINE n == Len(history)
<1>1. /\ n \in Nat /\ n >= 1 /\ IsSeq(history') /\ Len(history') = n + 1
      /\ DOMAIN history = 1..n /\ DOMAIN history' = 1..n+1
      /\ \A k \in 1..n : history'[k] = history[k]
      /\ history'[n + 1].ix = ix /\ history'[n + 1].index = index /\ history'[n + 1].seq = sequence_number
      /\ \A k \in 1..n+1 : k \in 1..n \/ k = n + 1
  BY HistoryGrows
<1>2. /\ sequence_number \in Nat
      /\ sequence_number' = IF ix # "DecompressV1" THEN sequence_number + 1 ELSE sequence_number
  BY Counted
<1>3. program' = program /\ LeafIndices' = LeafIndices
  BY DEF Executes, LeafIndices
<1>4. HistoryOK'
  <2>1. \A k \in 1..n+1 : history'[k].index \in LeafIndices /\ history'[k].seq \in Nat
    BY <1>1, <1>2 DEF HistoryOK
  <2>2. \A k \in 2..n+1 : history'[k].ix \in ProgramOps
    BY <1>1 DEF HistoryOK, ProgramOps
  <2>3. 1 \in 1..n /\ history'[1] = history[1]
    BY <1>1
  <2> HIDE DEF n
  <2> QED
    BY <1>1, <1>3, <2>1, <2>2, <2>3 DEF HistoryOK, ProgramOps
<1>5. SeqsGrow'
  <2> SUFFICES ASSUME NEW j \in 1..n+1, history'[j].ix # "DecompressV1"
               PROVE  /\ history'[j].seq < sequence_number'
                      /\ \A k \in 1..n+1 : j < k => history'[j].seq < history'[k].seq
    BY <1>1 DEF SeqsGrow
  <2>1. CASE j \in 1..n
    <3>1. history[j].seq \in Nat /\ history[j].seq < sequence_number
      BY <1>1, <2>1 DEF HistoryOK, SeqsGrow
    <3>2. \A k \in 1..n : j < k => history[j].seq < history[k].seq
      BY <1>1, <2>1 DEF SeqsGrow
    <3>3. history[j].seq < sequence_number'
      BY <1>2, <3>1
    <3> QED
      BY <1>1, <2>1, <3>1, <3>2, <3>3
  <2>2. CASE j = n + 1
    BY <1>1, <1>2, <2>2
  <2> QED
    BY <1>1, <2>1, <2>2
<1> QED
  BY <1>4, <1>5

\* A path starts at the leaf.
LEMMA PathStarts ==
  ASSUME NEW array, NEW i \in LeafIndices
  PROVE  /\ PathOf(array, i)[0] = array[i]
         /\ \A lvl \in 0..MAX_DEPTH : PathOf(array, i)[lvl] = MerkleTree(array)[lvl][Ancestor(i, lvl)]
<1>1. 0 \in Levels /\ 0 \in 0..MAX_DEPTH /\ i \in Nat
  BY DepthAssumption, Capacity DEF Levels, LeafIndices
<1>2. Ancestor(i, 0) = i /\ MerkleTree(array)[0] = array
  BY <1>1, AncestorStep, TreeStep
<1>3. \A lvl \in 0..MAX_DEPTH : PathOf(array, i)[lvl] = MerkleTree(array)[lvl][Ancestor(i, lvl)]
  BY DEF PathOf, Ancestor
<1> QED
  BY <1>1, <1>2, <1>3

\* The last instruction on a leaf.
LEMMA LastOnLeaf ==
  ASSUME HistoryOK, NEW i, OnLeaf(i) # {}
  PROVE  /\ Max(OnLeaf(i)) \in 2..Len(history) /\ history[Max(OnLeaf(i))].index = i
         /\ \A k \in OnLeaf(i) : k <= Max(OnLeaf(i))
<1>1. Len(history) \in Nat
  BY SeqFacts DEF HistoryOK
<1>2. OnLeaf(i) \in SUBSET (0..Len(history))
  BY <1>1 DEF OnLeaf
<1>3. Max(OnLeaf(i)) \in OnLeaf(i) /\ \A k \in OnLeaf(i) : k <= Max(OnLeaf(i))
  BY <1>1, <1>2, MaxIs
<1> QED
  BY <1>3 DEF OnLeaf

\* What an instruction of Bubblegum must be like to continue the story.
LEMMA LeavesKept ==
  ASSUME HistoryOK, LeavesOK, program = "bubblegum",
         NEW ix \in BubblegumOps, NEW index \in LeafIndices, NEW node, NEW schema \in Schemas,
         Executes(ix, index, node, schema),
         schema.nonce = index, index < minted', ix = "Transfer" => schema.delegate = schema.owner,
         node = IF ix \in {"Burn", "Redeem", "DecompressV1"} THEN EMPTY ELSE to_node(schema),
         DOMAIN vouchers' = LeafIndices,
         \A i \in LeafIndices : vouchers'[i] = IF i # index THEN vouchers[i]
                                               ELSE IF ix = "Redeem" THEN to_node(schema) ELSE EMPTY,
         OnLeaf(index) # {} =>
           LET last == history[Max(OnLeaf(index))]
           IN  /\ last.ix \notin {"Burn", "DecompressV1"}
               /\ ix = "Delegate" => schema.owner = last.schema.owner
               /\ ix \in {"Burn", "Redeem", "CancelRedeem", "DecompressV1"} => schema = last.schema
  PROVE  LeavesOK'
<1> DEFINE n == Len(history)
           op == history'[n + 1]
<1>1. /\ n \in Nat /\ n >= 1 /\ IsSeq(history') /\ Len(history') = n + 1
      /\ DOMAIN history = 1..n /\ DOMAIN history' = 1..n+1
      /\ \A k \in 1..n : history'[k] = history[k]
      /\ op.ix = ix /\ op.index = index /\ op.schema = schema
      /\ op.path = PathOf(leaves', index)
  BY HistoryGrows
<1>2. /\ minted \in Nat /\ minted' \in Nat /\ minted <= minted'
  BY Counted
<1>3. program' = program /\ LeafIndices' = LeafIndices /\ Schemas' = Schemas
  BY DEF Executes, LeafIndices, Schemas
<1>4. DOMAIN leaves = LeafIndices /\ leaves' = [leaves EXCEPT ![index] = node]
  BY DEF LeavesOK, Executes
<1>5. DOMAIN leaves' = LeafIndices /\ \A i \in LeafIndices : leaves'[i] = IF i = index THEN node ELSE leaves[i]
  BY <1>4
<1>6. op.path[0] = node
  BY <1>1, <1>5, PathStarts
<1>7. LeafAfter(op) = node
  BY <1>1 DEF LeafAfter
<1>8. VoucherAfter(op) = IF ix = "Redeem" THEN to_node(schema) ELSE EMPTY
  BY <1>1 DEF VoucherAfter
<1> HIDE DEF n, op
<1>9. /\ \A k \in 2..n+1 : (k \in 2..n /\ history'[k] = history[k]) \/ k = n + 1
      /\ n + 1 \in 2..n+1 /\ \A k \in 2..n : k \in 1..n /\ k \in 2..n+1 /\ k # n + 1
  BY <1>1
<1>10. \A k \in 2..n+1 :
         /\ history'[k].schema \in Schemas /\ history'[k].schema.nonce = history'[k].index
         /\ history'[k].index < minted'
         /\ history'[k].path[0] = LeafAfter(history'[k])
         /\ history'[k].ix = "Transfer" => history'[k].schema.delegate = history'[k].schema.owner
  <2> SUFFICES ASSUME NEW k \in 2..n+1
               PROVE  /\ history'[k].schema \in Schemas /\ history'[k].schema.nonce = history'[k].index
                      /\ history'[k].index < minted'
                      /\ history'[k].path[0] = LeafAfter(history'[k])
                      /\ history'[k].ix = "Transfer" => history'[k].schema.delegate = history'[k].schema.owner
    OBVIOUS
  <2>1. CASE k = n + 1
    BY <1>1, <1>6, <1>7, <2>1 DEF op
  <2>2. CASE k \in 2..n
    <3>1. /\ history[k].schema \in Schemas /\ history[k].schema.nonce = history[k].index
          /\ history[k].index < minted
          /\ history[k].path[0] = LeafAfter(history[k])
          /\ history[k].ix = "Transfer" => history[k].schema.delegate = history[k].schema.owner
      BY <2>2 DEF LeavesOK, n
    <3>2. history[k].index \in Nat
      BY <1>1, <1>9, <2>2, Capacity DEF HistoryOK, LeafIndices
    <3>3. history[k].index < minted'
      BY <1>2, <3>1, <3>2
    <3> QED
      BY <1>1, <1>9, <2>2, <3>1, <3>3
  <2> QED
    BY <1>9, <2>1, <2>2
<1>11. /\ \A i \in LeafIndices \ {index} : OnLeaf(i)' = OnLeaf(i)
       /\ OnLeaf(index)' = OnLeaf(index) \cup {n + 1}
  <2>1. \A i : OnLeaf(i)' = {k \in 2..n+1 : history'[k].index = i}
    BY <1>1 DEF OnLeaf
  <2>2. \A i : OnLeaf(i) = {k \in 2..n : history[k].index = i}
    BY DEF OnLeaf, n
  <2>3. history'[n + 1].index = index
    BY <1>1 DEF op
  <2> QED
    BY <1>9, <2>1, <2>2, <2>3
<1>12. Max(OnLeaf(index)') = n + 1
  <2>1. OnLeaf(index) \subseteq 2..n
    BY DEF OnLeaf, n
  <2>2. OnLeaf(index)' \in SUBSET Nat /\ n + 1 \in OnLeaf(index)' /\ \A k \in OnLeaf(index)' : k <= n + 1
    BY <1>1, <1>11, <2>1
  <2> QED
    BY <2>2, MaxUnique
<1>13. \A i \in LeafIndices :
         IF OnLeaf(i)' = {} THEN leaves'[i] = EMPTY /\ vouchers'[i] = EMPTY
         ELSE LET last == history'[Max(OnLeaf(i)')]
              IN  leaves'[i] = LeafAfter(last) /\ vouchers'[i] = VoucherAfter(last)
  <2> TAKE i \in LeafIndices
  <2>1. CASE i = index
    <3>1. OnLeaf(i)' # {} /\ history'[Max(OnLeaf(i)')] = op
      BY <1>11, <1>12, <2>1 DEF op
    <3>2. leaves'[i] = node /\ vouchers'[i] = VoucherAfter(op)
      BY <1>5, <1>8, <2>1
    <3> QED
      BY <1>7, <3>1, <3>2
  <2>2. CASE i # index
    <3>1. OnLeaf(i)' = OnLeaf(i) /\ leaves'[i] = leaves[i] /\ vouchers'[i] = vouchers[i]
      BY <1>5, <1>11, <2>2
    <3>2. IF OnLeaf(i) = {} THEN leaves[i] = EMPTY /\ vouchers[i] = EMPTY
          ELSE LET last == history[Max(OnLeaf(i))]
               IN  leaves[i] = LeafAfter(last) /\ vouchers[i] = VoucherAfter(last)
      BY DEF LeavesOK
    <3>3. OnLeaf(i) # {} => history'[Max(OnLeaf(i))] = history[Max(OnLeaf(i))]
      BY <1>1, <1>9, LastOnLeaf DEF n
    <3> QED
      BY <3>1, <3>2, <3>3
  <2> QED
    BY <2>1, <2>2
<1>14. ASSUME NEW j \in 2..n+1, NEW k \in 2..n+1, history'[j].index = history'[k].index, Follows(j, k)'
       PROVE  Continues(history'[j], history'[k])
  <2>1. /\ j < k
        /\ \A b \in j+1 .. k-1 : history'[b].index # history'[k].index \/ history'[b].ix = "create"
    BY <1>14 DEF Follows
  <2>2. j \in 2..n /\ history'[j] = history[j]
    BY <1>1, <1>9, <2>1
  <2>3. CASE k \in 2..n
    <3>1. history'[k] = history[k] /\ \A b \in j+1 .. k-1 : history'[b] = history[b]
      BY <1>1, <1>9, <2>2, <2>3
    <3>2. Follows(j, k)
      BY <2>1, <3>1 DEF Follows
    <3>3. Continues(history[j], history[k])
      BY <1>14, <2>2, <2>3, <3>1, <3>2 DEF LeavesOK, n
    <3> QED
      BY <2>2, <3>1, <3>3
  <2>4. CASE k = n + 1
    <3>1. history'[k] = op /\ history[j].index = index
      BY <1>1, <1>14, <2>2, <2>4 DEF op
    <3>2. j \in OnLeaf(index)
      BY <2>2, <3>1 DEF OnLeaf, n
    <3>3. \A b \in OnLeaf(index) : b <= j
      <4> SUFFICES ASSUME NEW b \in OnLeaf(index), ~(b <= j) PROVE FALSE
        OBVIOUS
      <4>1. b \in 2..n /\ history[b].index = index
        BY DEF OnLeaf, n
      <4>2. b \in j+1 .. k-1 /\ history'[b] = history[b]
        BY <1>1, <1>9, <2>2, <2>4, <4>1
      <4>3. history[b].ix = "create"
        BY <1>1, <2>1, <3>1, <4>1, <4>2
      <4>4. history[b].ix \in BubblegumOps
        BY <4>1 DEF HistoryOK, n
      <4> QED
        BY <4>3, <4>4 DEF BubblegumOps
    <3>4. OnLeaf(index) \in SUBSET Nat
      BY <1>1 DEF OnLeaf, n
    <3>5. Max(OnLeaf(index)) = j
      BY <3>2, <3>3, <3>4, MaxUnique
    <3> QED
      BY <1>1, <2>2, <3>1, <3>2, <3>5 DEF Continues
  <2> QED
    BY <1>9, <2>3, <2>4
<1> QED
  BY <1>1, <1>3, <1>5, <1>10, <1>13, <1>14 DEF LeavesOK

\* A node depends on the leaves below it only.
LEMMA NodesAgree ==
  ASSUME NEW a, NEW b
  PROVE  \A lvl \in 0..MAX_DEPTH : \A p \in Positions(lvl) :
           (\A j \in LeafIndices : Ancestor(j, lvl) = p => a[j] = b[j])
             => MerkleTree(a)[lvl][p] = MerkleTree(b)[lvl][p]
<1> DEFINE Same(lvl, p) == \A j \in LeafIndices : Ancestor(j, lvl) = p => a[j] = b[j]
           A == MerkleTree(a)
           B == MerkleTree(b)
           S == {lvl \in 0..MAX_DEPTH : \A p \in Positions(lvl) : Same(lvl, p) => A[lvl][p] = B[lvl][p]}
<1>1. 0 \in Levels /\ MAX_DEPTH \in Nat /\ \A j \in LeafIndices : j \in Nat
  BY DepthAssumption, Capacity DEF Levels, LeafIndices
<1>2. 0 \in S
  <2>1. A[0] = a /\ B[0] = b
    BY TreeStep
  <2>2. Positions(0) = LeafIndices /\ \A j \in LeafIndices : Ancestor(j, 0) = j
    BY <1>1, AncestorStep, WidthStep DEF Positions, LeafIndices
  <2> HIDE DEF A, B
  <2> QED
    BY <1>1, <2>1, <2>2
<1>3. ASSUME NEW lvl \in 0..MAX_DEPTH-1, lvl \in S PROVE lvl + 1 \in S
  <2>1. lvl \in Levels /\ lvl + 1 \in 0..MAX_DEPTH
    BY DepthAssumption DEF Levels
  <2>2. ASSUME NEW p \in Positions(lvl + 1), Same(lvl + 1, p) PROVE A[lvl + 1][p] = B[lvl + 1][p]
    <3>1. /\ A[lvl + 1][p] = <<A[lvl][2*p], A[lvl][2*p + 1]>>
          /\ B[lvl + 1][p] = <<B[lvl][2*p], B[lvl][2*p + 1]>>
      BY <2>1, TreeStep
    <3>2. 2*p \in Positions(lvl) /\ 2*p + 1 \in Positions(lvl) /\ p \in Nat
      BY <2>1, Children, WidthStep DEF Positions
    <3>3. ASSUME NEW q, q = 2*p \/ q = 2*p + 1 PROVE Same(lvl, q)
      <4> SUFFICES ASSUME NEW j \in LeafIndices, Ancestor(j, lvl) = q PROVE a[j] = b[j]
        OBVIOUS
      <4>1. Ancestor(j, lvl + 1) = Ancestor(j, lvl) \div 2
        BY <1>1, <2>1, AncestorStep
      <4>2. Ancestor(j, lvl + 1) = p
        BY <3>2, <3>3, <4>1
      <4> QED
        BY <2>2, <4>2
    <3>4. Same(lvl, 2*p) /\ Same(lvl, 2*p + 1)
      BY <3>3
    <3> HIDE DEF A, B, Same
    <3>5. A[lvl][2*p] = B[lvl][2*p] /\ A[lvl][2*p + 1] = B[lvl][2*p + 1]
      BY <1>3, <3>2, <3>4
    <3> QED
      BY <3>1, <3>5
  <2> HIDE DEF A, B, Same
  <2> QED
    BY <2>1, <2>2
<1>4. \A lvl \in 0..MAX_DEPTH : lvl \in S
  <2> HIDE DEF S
  <2> QED
    BY <1>1, <1>2, <1>3, Upwards
<1> HIDE DEF A, B
<1> QED
  BY <1>4 DEF A, B

\* The nodes as they were after an earlier instruction stay what they were.
LEMMA NodeAfterStays ==
  ASSUME HistoryOK, NEW ix, NEW index \in LeafIndices, NEW node, NEW schema,
         Executes(ix, index, node, schema), NEW n \in DOMAIN history, NEW lvl, NEW p
  PROVE  NodeAfter(n, lvl, p)' = NodeAfter(n, lvl, p)
<1>1. /\ Len(history) \in Nat /\ DOMAIN history = 1..Len(history)
      /\ \A k \in 1..Len(history) : history'[k] = history[k]
  BY HistoryGrows
<1>2. \A k \in 2..n : k \in 1..Len(history)
  BY <1>1
<1>3. Over(n, lvl, p)' = Over(n, lvl, p)
  BY <1>1, <1>2 DEF Over, Ancestor
<1>4. Over(n, lvl, p) # {} => Max(Over(n, lvl, p)) \in Over(n, lvl, p)
  <2>1. n \in Nat /\ Over(n, lvl, p) \in SUBSET (0..n)
    BY <1>1 DEF Over
  <2> QED
    BY <2>1, MaxIs
<1>5. Over(n, lvl, p) # {} => history'[Max(Over(n, lvl, p))] = history[Max(Over(n, lvl, p))]
  BY <1>1, <1>2, <1>4 DEF Over
<1>6. empty_node' = empty_node
  BY DEF empty_node, hash_to_parent, EMPTY
<1> QED
  BY <1>3, <1>5, <1>6 DEF NodeAfter

\* The new change log holds the nodes on the way up from its leaf; the others, and
\* all nodes when nothing is written, are those of before.
LEMMA PathsKept ==
  ASSUME HistoryOK, LeavesOK, PathsOK, NEW ix, NEW index \in LeafIndices, NEW node, NEW schema,
         Executes(ix, index, node, schema), ix = "DecompressV1" => node = leaves[index]
  PROVE  PathsOK'
<1>0. PICK n : n = Len(history)
  OBVIOUS
<1>1. /\ n \in Nat /\ n >= 1 /\ Len(history') = n + 1
      /\ DOMAIN history = 1..n /\ DOMAIN history' = 1..n+1
      /\ \A k \in 1..n : history'[k] = history[k]
      /\ history'[n + 1].ix = ix /\ history'[n + 1].index = index
      /\ history'[n + 1].path = PathOf(leaves', index)
      /\ \A k \in 1..n+1 : k \in 1..n \/ k = n + 1
  BY <1>0, HistoryGrows
<1>2. DOMAIN leaves = LeafIndices /\ leaves' = [leaves EXCEPT ![index] = node]
  BY DEF LeavesOK, Executes
<1>3. \A i \in LeafIndices : i # index \/ ix = "DecompressV1" => leaves'[i] = leaves[i]
  BY <1>2
<1>4. empty_node' = empty_node /\ Levels' = Levels /\ \A lvl : Positions(lvl)' = Positions(lvl)
  BY DEF empty_node, hash_to_parent, EMPTY, Levels, Positions, Width
<1> DEFINE T == MerkleTree(leaves)
           W == MerkleTree(leaves')
<1>5. \A lvl \in 0..MAX_DEPTH : history'[1].path[lvl] = empty_node[lvl]
  BY <1>1 DEF PathsOK
<1>6. ASSUME NEW lvl \in 0..MAX_DEPTH, NEW p \in Positions(lvl)
      PROVE  W[lvl][p] = NodeAfter(n + 1, lvl, p)'
  <2>0. T[lvl][p] = NodeAfter(n, lvl, p)
    BY <1>0 DEF PathsOK
  <2>1. /\ Over(n + 1, lvl, p)' = {k \in 2..n+1 : history'[k].ix # "DecompressV1" /\ Ancestor(history'[k].index, lvl) = p}
        /\ Over(n, lvl, p) = {k \in 2..n : history[k].ix # "DecompressV1" /\ Ancestor(history[k].index, lvl) = p}
    BY DEF Over, Ancestor
  <2>2. /\ \A k \in 2..n+1 : (k \in 2..n /\ history'[k] = history[k]) \/ k = n + 1
        /\ n + 1 \in 2..n+1 /\ \A k \in 2..n : k \in 2..n+1
    BY <1>1
  <2>3. CASE ix # "DecompressV1" /\ Ancestor(index, lvl) = p
    <3>1. Over(n + 1, lvl, p)' = Over(n, lvl, p) \cup {n + 1}
      BY <1>1, <2>1, <2>2, <2>3
    <3>2. Max(Over(n + 1, lvl, p)') = n + 1
      <4>1. Over(n, lvl, p) \subseteq 2..n
        BY DEF Over
      <4>2. /\ Over(n + 1, lvl, p)' \in SUBSET Nat /\ n + 1 \in Over(n + 1, lvl, p)'
            /\ \A k \in Over(n + 1, lvl, p)' : k <= n + 1
        BY <1>1, <3>1, <4>1
      <4> QED
        BY <4>2, MaxUnique
    <3>3. NodeAfter(n + 1, lvl, p)' = history'[n + 1].path[lvl]
      BY <3>1, <3>2 DEF NodeAfter
    <3>4. PathOf(leaves', index)[lvl] = W[lvl][Ancestor(index, lvl)]
      BY PathStarts
    <3> QED
      BY <1>1, <2>3, <3>3, <3>4
  <2>4. CASE ~(ix # "DecompressV1" /\ Ancestor(index, lvl) = p)
    <3>1. Over(n + 1, lvl, p)' = Over(n, lvl, p)
      BY <1>1, <2>1, <2>2, <2>4
    <3>2. n \in DOMAIN history
      BY <1>1
    <3>3. NodeAfter(n, lvl, p)' = NodeAfter(n, lvl, p)
      BY <3>2, NodeAfterStays
    <3>4. Over(n, lvl, p)' = Over(n, lvl, p)
      BY <1>1 DEF Over, Ancestor
    <3>5. NodeAfter(n + 1, lvl, p)' = NodeAfter(n, lvl, p)'
      BY <3>1, <3>4 DEF NodeAfter
    <3>6. \A j \in LeafIndices : Ancestor(j, lvl) = p => leaves'[j] = leaves[j]
      BY <1>3, <2>4
    <3>7. W[lvl][p] = T[lvl][p]
      BY <3>6, NodesAgree
    <3> QED
      BY <2>0, <3>3, <3>5, <3>7
  <2> QED
    BY <2>3, <2>4
<1>7. ASSUME NEW m \in 1..n+1, NEW lvl \in Levels, NEW p \in Positions(lvl + 1)
      PROVE  NodeAfter(m, lvl + 1, p)' = <<NodeAfter(m, lvl, 2*p)', NodeAfter(m, lvl, 2*p + 1)'>>
  <2>1. CASE m \in 1..n
    <3>1. NodeAfter(m, lvl + 1, p) = <<NodeAfter(m, lvl, 2*p), NodeAfter(m, lvl, 2*p + 1)>>
      BY <1>1, <2>1 DEF PathsOK
    <3>2. \A l, q : NodeAfter(m, l, q)' = NodeAfter(m, l, q)
      BY <1>1, <2>1, NodeAfterStays
    <3> QED
      BY <3>1, <3>2
  <2>2. CASE m = n + 1
    <3>1. lvl + 1 \in 0..MAX_DEPTH /\ lvl \in 0..MAX_DEPTH
      BY DepthAssumption DEF Levels
    <3>2. 2*p \in Positions(lvl) /\ 2*p + 1 \in Positions(lvl)
      BY Children
    <3>3. W[lvl + 1][p] = <<W[lvl][2*p], W[lvl][2*p + 1]>>
      BY TreeStep
    <3> HIDE DEF W
    <3> QED
      BY <1>6, <2>2, <3>1, <3>2, <3>3
  <2> QED
    BY <1>1, <2>1, <2>2
<1> QED
  BY <1>1, <1>4, <1>5, <1>6, <1>7 DEF PathsOK

-----------------------------------------------------------------------------
(* Logs.  A fold over a sequence goes through a value for each prefix of it.  *)

IsStart(line) == line[1] = "invoke" /\ line[3] = 1

ParseStep(parsed, line) ==
  IF IsStart(line) THEN Append(parsed, [program |-> line[2], lines |-> <<>>])
  ELSE Append(Front(parsed), [Last(parsed) EXCEPT !.lines = Append(@, line)])

\* The largest of the first n numbers that include n.
LEMMA MaxOfPrefix ==
  ASSUME NEW n \in Nat, NEW s \in SUBSET (1..n+1)
  PROVE  /\ n + 1 \in s => Max(s) = n + 1
         /\ s # {} => Max(s) \in s /\ s \ {Max(s)} \in SUBSET (1..n)
         /\ n + 1 \notin s => s \in SUBSET (1..n)
<1>1. n + 1 \in Nat /\ s \in SUBSET (0..n+1) /\ s \in SUBSET Nat
  OBVIOUS
<1>2. s # {} => Max(s) \in s /\ \A k \in s : k <= Max(s)
  BY <1>1, MaxIs
<1>3. n + 1 \in s => Max(s) = n + 1
  BY <1>1, MaxUnique
<1>4. n + 1 \notin s => s \in SUBSET (1..n)
  OBVIOUS
<1>5. ASSUME s # {} PROVE s \ {Max(s)} \in SUBSET (1..n)
  <2>1. CASE n + 1 \in s
    <3>1. \A k \in s : k \in 1..n \/ k = n + 1
      OBVIOUS
    <3> QED
      BY <1>3, <2>1, <3>1
  <2>2. CASE n + 1 \notin s
    BY <1>4, <2>2
  <2> QED
    BY <2>1, <2>2
<1> QED
  BY <1>2, <1>3, <1>4, <1>5

\* parse_logs, line by line.
LEMMA ParseSteps ==
  ASSUME NEW logs, IsSeq(logs)
  PROVE  \E f : /\ f[0] = <<>> /\ f[Len(logs)] = parse_logs(logs)
                /\ \A n \in 0 .. Len(logs)-1 : f[n + 1] = ParseStep(f[n], logs[n + 1])
<1> DEFINE N == Len(logs)
           Body(g, s) == IF s = {} THEN <<>> ELSE ParseStep(g[s \ {Max(s)}], logs[Max(s)])
           S == {n \in 0..N : \E g : g = [s \in SUBSET (1..n) |-> Body(g, s)]}
           iter == CHOOSE g : g = [s \in SUBSET (1..N) |-> Body(g, s)]
<1>1. N \in Nat /\ DOMAIN logs = 1..N
  BY SeqFacts
<1>2. parse_logs(logs) = iter[1..N]
  BY <1>1 DEF parse_logs, FoldLeft, MapThenFoldSet, ParseStep, IsStart
<1> HIDE DEF N
<1>3. 0 \in S
  <2> DEFINE g == [s \in SUBSET (1..0) |-> <<>>]
  <2>1. SUBSET (1..0) = {{}}
    OBVIOUS
  <2>2. g = [s \in SUBSET (1..0) |-> Body(g, s)]
    BY <2>1
  <2> HIDE DEF g, Body
  <2> QED
    BY <1>1, <2>2
<1>4. ASSUME NEW n \in 0..N-1, n \in S PROVE n + 1 \in S
  <2>1. PICK g : g = [s \in SUBSET (1..n) |-> Body(g, s)]
    BY <1>4
  <2> DEFINE h == [s \in SUBSET (1..n+1) |-> Body(g, s)]
  <2>2. n \in Nat /\ n + 1 \in 0..N
    BY <1>1
  <2>3. ASSUME NEW s \in SUBSET (1..n) PROVE s \in SUBSET (1..n+1) /\ h[s] = g[s]
    <3>1. s \in SUBSET (1..n+1)
      BY <2>2
    <3> HIDE DEF Body
    <3> QED
      BY <2>1, <3>1
  <2>4. ASSUME NEW s \in SUBSET (1..n+1) PROVE Body(g, s) = Body(h, s)
    <3>1. CASE s # {}
      <4>1. s \ {Max(s)} \in SUBSET (1..n)
        BY <2>2, <3>1, MaxOfPrefix
      <4>2. h[s \ {Max(s)}] = g[s \ {Max(s)}]
        BY <2>3, <4>1
      <4> HIDE DEF h
      <4> QED
        BY <3>1, <4>2
    <3> QED
      BY <3>1
  <2> HIDE DEF Body
  <2>5. h = [s \in SUBSET (1..n+1) |-> Body(h, s)]
    BY <2>4
  <2> HIDE DEF h
  <2> QED
    BY <2>2, <2>5
<1>5. N \in S
  <2> HIDE DEF S
  <2>1. \A n \in 0..N : n \in S
    BY <1>1, <1>3, <1>4, Upwards
  <2> QED
    BY <1>1, <2>1
<1>6. iter = [s \in SUBSET (1..N) |-> Body(iter, s)]
  <2> HIDE DEF Body
  <2> QED
    BY <1>5
<1> HIDE DEF iter
<1> DEFINE f == [n \in 0..N |-> iter[1..n]]
<1>7. f[0] = <<>>
  <2>1. 1..0 = {} /\ 1..0 \in SUBSET (1..N) /\ 0 \in 0..N
    BY <1>1
  <2> QED
    BY <1>6, <2>1
<1>8. f[N] = parse_logs(logs)
  BY <1>1, <1>2
<1>9. ASSUME NEW n \in 0..N-1 PROVE f[n + 1] = ParseStep(f[n], logs[n + 1])
  <2>1. /\ n \in Nat /\ n \in 0..N /\ n + 1 \in 0..N
        /\ 1..n+1 \in SUBSET (1..N) /\ 1..n+1 # {} /\ n + 1 \in 1..n+1
        /\ (1..n+1) \ {n + 1} = 1..n
    BY <1>1
  <2>2. Max(1..n+1) = n + 1
    BY <2>1, MaxOfPrefix
  <2>3. iter[1..n+1] = Body(iter, 1..n+1)
    <3> HIDE DEF Body
    <3> QED
      BY <1>6, <2>1
  <2>4. iter[1..n+1] = ParseStep(iter[1..n], logs[n + 1])
    BY <2>1, <2>2, <2>3
  <2> QED
    BY <2>1, <2>4
<1> HIDE DEF f
<1> QED
  BY <1>7, <1>8, <1>9 DEF N

\* An event that an instruction of the program logged itself.
OwnLine(line, entry) ==
  entry.program = program /\ line[1] = "data" =>
    line[3] = entry.op /\ line[2] \in ToSet(EventsOf(history[entry.op].ix))

\* blk[n] is the number of the instruction that logged line n; a line `invoke [1]`
\* is the first one of the next.
Laid(blk, logs, entries) ==
  /\ blk[0] = 0
  /\ \A n \in 0..Len(logs) : blk[n] \in 0..Len(entries)
  /\ \A n \in 0..Len(logs)-1 :
       IF IsStart(logs[n + 1])
       THEN blk[n + 1] = blk[n] + 1 /\ logs[n + 1][2] = entries[blk[n + 1]].program
       ELSE blk[n + 1] = blk[n] /\ blk[n] >= 1 /\ OwnLine(logs[n + 1], entries[blk[n]])

LaidOut(logs, entries) == IsSeq(logs) /\ IsSeq(entries) /\ \E blk : Laid(blk, logs, entries)

\* What parse_logs found for the first instructions.
ParsedAs(parsed, entries, n) ==
  /\ IsSeq(parsed) /\ Len(parsed) = n
  /\ \A j \in 1..n :
       /\ parsed[j] = [program |-> parsed[j].program, lines |-> parsed[j].lines]
       /\ parsed[j].program = entries[j].program
       /\ IsSeq(parsed[j].lines)
       /\ \A m \in 1..Len(parsed[j].lines) : OwnLine(parsed[j].lines[m], entries[j])

\* One more line.
LEMMA ParseStepOK ==
  ASSUME NEW parsed, NEW entries, NEW n \in Nat, ParsedAs(parsed, entries, n), NEW line,
         NEW b, IF IsStart(line) THEN b = n + 1 /\ line[2] = entries[n + 1].program
                ELSE b = n /\ n >= 1 /\ OwnLine(line, entries[n])
  PROVE  ParsedAs(ParseStep(parsed, line), entries, b)
<1>0. IsSeq(parsed) /\ Len(parsed) = n
  BY DEF ParsedAs
<1>1. CASE IsStart(line)
  <2> DEFINE x == [program |-> line[2], lines |-> <<>>]
             q == Append(parsed, x)
  <2>1. ParseStep(parsed, line) = q
    BY <1>1 DEF ParseStep
  <2>2. x = [program |-> x.program, lines |-> x.lines] /\ x.program = entries[n + 1].program /\ x.lines = <<>>
    BY <1>1
  <2>3. IsSeq(x.lines) /\ Len(x.lines) = 0
    BY <2>2, SmallSeqs
  <2>4. IsSeq(q) /\ Len(q) = n + 1 /\ q[n + 1] = x /\ \A j \in 1..n : q[j] = parsed[j]
    <3> HIDE DEF x
    <3> QED
      BY <1>0, AppendFacts
  <2> HIDE DEF x, q
  <2>5. ASSUME NEW j \in 1..n+1
        PROVE  /\ q[j] = [program |-> q[j].program, lines |-> q[j].lines]
               /\ q[j].program = entries[j].program
               /\ IsSeq(q[j].lines)
               /\ \A m \in 1..Len(q[j].lines) : OwnLine(q[j].lines[m], entries[j])
    <3>1. CASE j = n + 1
      BY <2>2, <2>3, <2>4, <3>1
    <3>2. CASE j # n + 1
      <4>1. j \in 1..n
        BY <3>2
      <4> QED
        BY <2>4, <4>1 DEF ParsedAs
    <3> QED
      BY <3>1, <3>2
  <2> QED
    BY <1>1, <2>1, <2>4, <2>5 DEF ParsedAs
<1>2. CASE ~IsStart(line)
  <2> DEFINE front == Front(parsed)
             lines == parsed[n].lines
             x == [parsed[n] EXCEPT !.lines = Append(@, line)]
             q == Append(front, x)
  <2>0. n \in 1..n /\ n - 1 \in 0..Len(parsed) /\ n - 1 + 1 = n /\ n - 1 \in Nat
    BY <1>0, <1>2
  <2>1. ParseStep(parsed, line) = q
    BY <1>0, <1>2 DEF ParseStep, Last
  <2>2. IsSeq(front) /\ Len(front) = n - 1 /\ \A j \in 1..n-1 : front[j] = parsed[j]
    BY <1>0, <2>0, PrefixFacts DEF Front
  <2>3. /\ parsed[n] = [program |-> parsed[n].program, lines |-> lines]
        /\ parsed[n].program = entries[n].program
        /\ IsSeq(lines) /\ \A m \in 1..Len(lines) : OwnLine(lines[m], entries[n])
    BY <2>0 DEF ParsedAs
  <2>4. x = [program |-> parsed[n].program, lines |-> Append(lines, line)]
    BY <2>3
  <2>5. x.program = parsed[n].program /\ x.lines = Append(lines, line)
    BY <2>4
  <2> HIDE DEF front, lines, x
  <2>6. IsSeq(q) /\ Len(q) = n /\ q[n] = x /\ \A j \in 1..n-1 : q[j] = parsed[j]
    BY <2>0, <2>2, AppendFacts
  <2> DEFINE l == Append(lines, line)
  <2>7. /\ IsSeq(l) /\ Len(l) = Len(lines) + 1 /\ l[Len(lines) + 1] = line
        /\ \A m \in 1..Len(lines) : l[m] = lines[m]
        /\ Len(lines) \in Nat
    BY <2>3, AppendFacts, SeqFacts
  <2> HIDE DEF l, q
  <2>8. \A m \in 1..Len(l) : OwnLine(l[m], entries[n])
    <3> TAKE m \in 1..Len(l)
    <3>1. m \in 1..Len(lines) \/ m = Len(lines) + 1
      BY <2>7
    <3> QED
      BY <1>2, <2>3, <2>7, <3>1
  <2>9. ASSUME NEW j \in 1..n
        PROVE  /\ q[j] = [program |-> q[j].program, lines |-> q[j].lines]
               /\ q[j].program = entries[j].program
               /\ IsSeq(q[j].lines)
               /\ \A m \in 1..Len(q[j].lines) : OwnLine(q[j].lines[m], entries[j])
    <3>1. CASE j = n
      BY <2>3, <2>4, <2>5, <2>6, <2>7, <2>8, <3>1 DEF l
    <3>2. CASE j # n
      <4>1. j \in 1..n-1
        BY <3>2
      <4> QED
        BY <2>6, <4>1 DEF ParsedAs
    <3> QED
      BY <3>1, <3>2
  <2> QED
    BY <1>2, <2>1, <2>6, <2>9 DEF ParsedAs
<1> QED
  BY <1>1, <1>2

\* parse_logs gives each instruction its own lines.
LEMMA ParseOK ==
  ASSUME NEW logs, NEW entries, LaidOut(logs, entries)
  PROVE  \E n \in 0..Len(entries) : ParsedAs(parse_logs(logs), entries, n)
<1>1. PICK blk : Laid(blk, logs, entries)
  BY DEF LaidOut
<1>2. IsSeq(logs) /\ Len(logs) \in Nat /\ Len(entries) \in Nat
  BY SeqFacts DEF LaidOut
<1>3. PICK f : /\ f[0] = <<>> /\ f[Len(logs)] = parse_logs(logs)
               /\ \A n \in 0 .. Len(logs)-1 : f[n + 1] = ParseStep(f[n], logs[n + 1])
  BY <1>2, ParseSteps
<1> DEFINE S == {n \in 0..Len(logs) : ParsedAs(f[n], entries, blk[n])}
<1>4. 0 \in S
  <2>1. blk[0] = 0 /\ f[0] = <<>> /\ IsSeq(<<>>) /\ Len(<<>>) = 0
    BY <1>1, <1>3, SmallSeqs DEF Laid
  <2>2. ParsedAs(f[0], entries, 0)
    BY <2>1 DEF ParsedAs
  <2> QED
    BY <1>2, <2>1, <2>2
<1>5. ASSUME NEW n \in 0..Len(logs)-1, n \in S PROVE n + 1 \in S
  <2>1. n \in 0..Len(logs) /\ n + 1 \in 0..Len(logs)
    BY <1>2
  <2>2. blk[n] \in Nat /\ f[n + 1] = ParseStep(f[n], logs[n + 1]) /\ ParsedAs(f[n], entries, blk[n])
    BY <1>1, <1>3, <1>5, <2>1 DEF Laid
  <2>3. IF IsStart(logs[n + 1])
        THEN blk[n + 1] = blk[n] + 1 /\ logs[n + 1][2] = entries[blk[n] + 1].program
        ELSE blk[n + 1] = blk[n] /\ blk[n] >= 1 /\ OwnLine(logs[n + 1], entries[blk[n]])
    BY <1>1, <2>1 DEF Laid
  <2>4. ParsedAs(f[n + 1], entries, blk[n + 1])
    BY <2>2, <2>3, ParseStepOK
  <2> QED
    BY <2>1, <2>4
<1>6. \A n \in 0..Len(logs) : n \in S
  <2> HIDE DEF S
  <2> QED
    BY <1>2, <1>4, <1>5, Upwards
<1>7. Len(logs) \in S
  BY <1>2, <1>6
<1>8. blk[Len(logs)] \in 0..Len(entries)
  BY <1>1, <1>2 DEF Laid
<1> QED
  BY <1>3, <1>7, <1>8

\* FlattenSeq, element by element.
LEMMA FlattenSteps ==
  ASSUME NEW seqs, NEW N \in Nat, Len(seqs) = N, N >= 1
  PROVE  \E f : /\ f[1] = seqs[1] /\ f[N] = FlattenSeq(seqs)
                /\ \A n \in 1 .. N-1 : f[n + 1] = Joined(f[n], seqs[n + 1])
<1> DEFINE Body(g, i) == IF i = 1 THEN seqs[i] ELSE Joined(g[i - 1], seqs[i])
           S == {n \in 0..N : \E g : g = [i \in 1..n |-> Body(g, i)]}
           flatten == CHOOSE g : g = [i \in 1..N |-> Body(g, i)]
<1>2. FlattenSeq(seqs) = flatten[N]
  BY DEF FlattenSeq, Joined
<1>3. 0 \in S
  <2> DEFINE g == [i \in 1..0 |-> <<>>]
  <2>1. 1..0 = {}
    OBVIOUS
  <2>2. g = [i \in 1..0 |-> Body(g, i)]
    BY <2>1
  <2> HIDE DEF g, Body
  <2>3. \E x : x = [i \in 1..0 |-> Body(x, i)]
    BY <2>2
  <2>4. 0 \in 0..N
    OBVIOUS
  <2> QED
    BY <2>3, <2>4
<1>4. ASSUME NEW n \in 0..N-1, n \in S PROVE n + 1 \in S
  <2>1. PICK g : g = [i \in 1..n |-> Body(g, i)]
    BY <1>4
  <2> DEFINE h == [i \in 1..n+1 |-> Body(g, i)]
  <2>2. n \in Nat /\ n + 1 \in 0..N
    OBVIOUS
  <2>3. ASSUME NEW i \in 1..n PROVE i \in 1..n+1 /\ h[i] = g[i]
    <3>1. i \in 1..n+1
      BY <2>2
    <3> HIDE DEF Body
    <3> QED
      BY <2>1, <3>1
  <2>4. ASSUME NEW i \in 1..n+1 PROVE Body(g, i) = Body(h, i)
    <3>1. CASE i # 1
      <4>1. i - 1 \in 1..n
        BY <2>2, <3>1
      <4>2. h[i - 1] = g[i - 1]
        BY <2>3, <4>1
      <4> HIDE DEF h
      <4> QED
        BY <3>1, <4>2
    <3> QED
      BY <3>1
  <2> HIDE DEF Body
  <2>5. h = [i \in 1..n+1 |-> Body(h, i)]
    BY <2>4
  <2> HIDE DEF h
  <2> QED
    BY <2>2, <2>5
<1>5. N \in S
  <2> HIDE DEF S
  <2>1. \A n \in 0..N : n \in S
    BY <1>3, <1>4, Upwards
  <2> QED
    BY <2>1
<1>6. flatten = [i \in 1..N |-> Body(flatten, i)]
  <2> HIDE DEF Body
  <2> QED
    BY <1>5
<1> HIDE DEF flatten
<1>7. flatten[1] = seqs[1]
  <2>1. 1 \in 1..N
    OBVIOUS
  <2> QED
    BY <1>6, <2>1
<1>8. ASSUME NEW n \in 1..N-1 PROVE flatten[n + 1] = Joined(flatten[n], seqs[n + 1])
  <2>1. n + 1 \in 1..N /\ n + 1 # 1 /\ n + 1 - 1 = n
    OBVIOUS
  <2>2. flatten[n + 1] = Body(flatten, n + 1)
    <3> HIDE DEF Body
    <3> QED
      BY <1>6, <2>1
  <2> QED
    BY <2>1, <2>2
<1> QED
  BY <1>2, <1>7, <1>8

\* The events of an instruction.
LEMMA EventsFacts ==
  ASSUME NEW ix
  PROVE  /\ IsSeq(EventsOf(ix)) /\ Len(EventsOf(ix)) >= 1
         /\ "ChangeLog" \in ToSet(EventsOf(ix)) <=> ix # "DecompressV1"
         /\ "Leaf" \in ToSet(EventsOf(ix)) => ix \notin {"create", "append", "replace_leaf", "DecompressV1"}
         /\ "Decompression" \in ToSet(EventsOf(ix)) => ix = "DecompressV1"
<1> DEFINE Names == {"NewNFT", "Leaf", "ChangeLog", "Decompression"}
<1>1. CASE ix = "MintV1"
  <2>1. EventsOf(ix) = <<"NewNFT", "Leaf", "ChangeLog">>
    BY <1>1 DEF EventsOf
  <2>2. EventsOf(ix) \in Seq(Names) /\ Len(EventsOf(ix)) = 3 /\ ToSet(EventsOf(ix)) = {"NewNFT", "Leaf", "ChangeLog"}
    BY <2>1 DEF ToSet
  <2> QED
    BY <1>1, <2>2 DEF IsSeq
<1>2. CASE ix = "DecompressV1"
  <2>1. EventsOf(ix) = <<"Decompression">>
    BY <1>2 DEF EventsOf
  <2>2. EventsOf(ix) \in Seq(Names) /\ Len(EventsOf(ix)) = 1 /\ ToSet(EventsOf(ix)) = {"Decompression"}
    BY <2>1 DEF ToSet
  <2> QED
    BY <1>2, <2>2 DEF IsSeq
<1>3. CASE ix \in {"create", "append", "replace_leaf"}
  <2>1. EventsOf(ix) = <<"ChangeLog">>
    BY <1>3 DEF EventsOf
  <2>2. EventsOf(ix) \in Seq(Names) /\ Len(EventsOf(ix)) = 1 /\ ToSet(EventsOf(ix)) = {"ChangeLog"}
    BY <2>1 DEF ToSet
  <2> QED
    BY <1>3, <2>2 DEF IsSeq
<1>4. CASE ix \notin {"MintV1", "DecompressV1", "create", "append", "replace_leaf"}
  <2>1. EventsOf(ix) = <<"Leaf", "ChangeLog">>
    BY <1>4 DEF EventsOf
  <2>2. EventsOf(ix) \in Seq(Names) /\ Len(EventsOf(ix)) = 2 /\ ToSet(EventsOf(ix)) = {"Leaf", "ChangeLog"}
    BY <2>1 DEF ToSet
  <2> QED
    BY <1>4, <2>2 DEF IsSeq
<1> QED
  BY <1>1, <1>2, <1>3, <1>4

\* The lines of one instruction: it is called, and all that follows is its own.
LEMMA LogsOfFacts ==
  ASSUME NEW k \in DOMAIN history, NEW level \in {1, 2}
  PROVE  LET logs == LogsOf(k, level)
         IN  /\ IsSeq(logs) /\ Len(logs) >= 1 /\ logs[1] = invoke(program, level)
             /\ \A n \in 2..Len(logs) : ~IsStart(logs[n]) /\ OwnLine(logs[n], Outer(program, k))
<1> DEFINE events == EventsOf(history[k].ix)
           lines == [e \in DOMAIN events |-> data(events[e], k)]
           first == <<invoke(program, level)>>
           Own(line) == ~IsStart(line) /\ OwnLine(line, Outer(program, k))
<1>1. IsSeq(events) /\ Len(events) \in Nat /\ DOMAIN events = 1..Len(events) /\ Len(events) >= 1
  BY EventsFacts, SeqFacts
<1>2. ASSUME NEW e \in 1..Len(events) PROVE Own(data(events[e], k))
  <2>1. events[e] \in ToSet(events)
    BY <1>1 DEF ToSet
  <2>2. Outer(program, k).program = program /\ Outer(program, k).op = k
    BY DEF Outer
  <2>3. data(events[e], k)[1] = "data" /\ data(events[e], k)[2] = events[e] /\ data(events[e], k)[3] = k
    BY DEF data
  <2> QED
    BY <2>1, <2>2, <2>3 DEF OwnLine, IsStart
<1>3. Own(invoke("gummyroll", level + 1))
  <2>1. invoke("gummyroll", level + 1)[1] = "invoke" /\ invoke("gummyroll", level + 1)[3] = level + 1
    BY DEF invoke
  <2>2. level + 1 # 1
    OBVIOUS
  <2> QED
    BY <2>1, <2>2 DEF OwnLine, IsStart
<1> HIDE DEF events
<1>4. DOMAIN lines = 1..Len(events) /\ IsSeq(lines) /\ Len(lines) = Len(events)
  <2>1. DOMAIN lines = 1..Len(events) /\ lines = [e \in 1..Len(events) |-> lines[e]]
    BY <1>1
  <2> HIDE DEF lines
  <2> QED
    BY <1>1, <2>1, FunctionIsSeq
<1>5. \A e \in 1..Len(events) : Own(lines[e])
  BY <1>1, <1>2
<1>6. IsSeq(first) /\ Len(first) = 1 /\ first[1] = invoke(program, level)
  BY SmallSeqs
<1> DEFINE front == Front(lines)
           called == <<invoke("gummyroll", level + 1), Last(lines)>>
<1>7. IsSeq(front) /\ Len(front) = Len(events) - 1 /\ \A e \in 1..Len(events)-1 : front[e] = lines[e]
  <2>1. Len(events) - 1 \in 0..Len(lines)
    BY <1>1, <1>4
  <2> HIDE DEF lines
  <2> QED
    BY <1>4, <2>1, PrefixFacts DEF Front
<1>8. IsSeq(called) /\ Len(called) = 2 /\ \A n \in 1..2 : Own(called[n])
  <2>1. called \in Seq({invoke("gummyroll", level + 1), Last(lines)}) /\ Len(called) = 2
    <3> HIDE DEF lines
    <3> QED
      OBVIOUS
  <2>2. Own(Last(lines))
    <3>1. Len(lines) \in 1..Len(events)
      BY <1>1, <1>4
    <3> HIDE DEF lines, Own
    <3> QED
      BY <1>5, <3>1 DEF Last
  <2>3. called[1] = invoke("gummyroll", level + 1) /\ called[2] = Last(lines)
    OBVIOUS
  <2>4. \A n \in 1..2 : n = 1 \/ n = 2
    OBVIOUS
  <2>5. IsSeq(called)
    BY <2>1 DEF IsSeq
  <2> HIDE DEF called, Own
  <2> QED
    BY <1>3, <2>1, <2>2, <2>3, <2>4, <2>5
<1> HIDE DEF first, lines, front, called, Own
<1>9. CASE program = "bubblegum" /\ Last(events) = "ChangeLog"
  <2>a. PICK a : a = Joined(first, front)
    OBVIOUS
  <2>b. PICK logs : logs = Joined(a, called)
    OBVIOUS
  <2>1. LogsOf(k, level) = logs
    BY <1>9, <2>a, <2>b DEF LogsOf, events, lines, first, front, called, Joined
  <2>0. /\ IsSeq(a) /\ Len(a) = Len(first) + Len(front)
        /\ \A i \in 1..Len(first) : a[i] = first[i]
        /\ \A i \in 1..Len(front) : a[Len(first) + i] = front[i]
    <3>1. PICK s, t : s = first /\ t = front
      OBVIOUS
    <3>2. IsSeq(s) /\ IsSeq(t)
      BY <1>6, <1>7, <3>1
    <3>3. /\ IsSeq(Joined(s, t)) /\ Len(Joined(s, t)) = Len(s) + Len(t)
          /\ \A i \in 1..Len(s) : Joined(s, t)[i] = s[i]
          /\ \A i \in 1..Len(t) : Joined(s, t)[Len(s) + i] = t[i]
      BY <3>2, ConcatFacts
    <3> QED
      BY <2>a, <3>1, <3>3
  <2>00. /\ IsSeq(logs) /\ Len(logs) = Len(a) + Len(called)
         /\ \A i \in 1..Len(a) : logs[i] = a[i]
         /\ \A i \in 1..Len(called) : logs[Len(a) + i] = called[i]
    <3>1. PICK s, t : s = a /\ t = called
      OBVIOUS
    <3>2. IsSeq(s) /\ IsSeq(t)
      BY <1>8, <2>0, <3>1
    <3>3. /\ IsSeq(Joined(s, t)) /\ Len(Joined(s, t)) = Len(s) + Len(t)
          /\ \A i \in 1..Len(s) : Joined(s, t)[i] = s[i]
          /\ \A i \in 1..Len(t) : Joined(s, t)[Len(s) + i] = t[i]
      BY <3>2, ConcatFacts
    <3> QED
      BY <2>b, <3>1, <3>3
  <2>2. IsSeq(a) /\ Len(a) = Len(events) /\ a[1] = first[1]
    BY <1>1, <1>6, <1>7, <2>0
  <2>3. \A n \in 2..Len(events) : a[n] = lines[n - 1]
    <3> TAKE n \in 2..Len(events)
    <3>1. n - 1 \in 1..Len(events)-1 /\ 1 + (n - 1) = n
      BY <1>1
    <3>2. a[1 + (n - 1)] = front[n - 1]
      BY <1>6, <1>7, <2>0, <3>1
    <3> QED
      BY <1>7, <3>1, <3>2
  <2>4. IsSeq(logs) /\ Len(logs) = Len(events) + 2 /\ \A n \in 1..Len(events) : logs[n] = a[n]
    BY <1>1, <1>8, <2>00, <2>2
  <2>5. \A n \in 1..2 : logs[Len(events) + n] = called[n]
    BY <1>8, <2>00, <2>2
  <2>6. ASSUME NEW n \in 2..Len(logs) PROVE Own(logs[n])
    <3>1. CASE n \in 2..Len(events)
      <4>1. n \in 1..Len(events) /\ n - 1 \in 1..Len(events)
        BY <1>1, <3>1
      <4> QED
        BY <1>5, <2>3, <2>4, <3>1, <4>1
    <3>2. CASE n \notin 2..Len(events)
      <4>1. n - Len(events) \in 1..2 /\ Len(events) + (n - Len(events)) = n
        BY <1>1, <2>4, <3>2
      <4> QED
        BY <1>8, <2>5, <4>1
    <3> QED
      BY <3>1, <3>2
  <2>7. Len(logs) >= 1 /\ logs[1] = invoke(program, level)
    BY <1>1, <1>6, <2>2, <2>4
  <2> QED
    BY <2>1, <2>4, <2>6, <2>7 DEF Own
<1>10. CASE ~(program = "bubblegum" /\ Last(events) = "ChangeLog")
  <2>a. PICK logs : logs = Joined(first, lines)
    OBVIOUS
  <2>1. LogsOf(k, level) = logs
    BY <1>10, <2>a DEF LogsOf, events, lines, first, Joined
  <2>0. /\ IsSeq(logs) /\ Len(logs) = Len(first) + Len(lines)
        /\ \A i \in 1..Len(first) : logs[i] = first[i]
        /\ \A i \in 1..Len(lines) : logs[Len(first) + i] = lines[i]
    <3>1. PICK s, t : s = first /\ t = lines
      OBVIOUS
    <3>2. IsSeq(s) /\ IsSeq(t)
      BY <1>4, <1>6, <3>1
    <3>3. /\ IsSeq(Joined(s, t)) /\ Len(Joined(s, t)) = Len(s) + Len(t)
          /\ \A i \in 1..Len(s) : Joined(s, t)[i] = s[i]
          /\ \A i \in 1..Len(t) : Joined(s, t)[Len(s) + i] = t[i]
      BY <3>2, ConcatFacts
    <3> QED
      BY <2>a, <3>1, <3>3
  <2>2. IsSeq(logs) /\ Len(logs) = Len(events) + 1 /\ logs[1] = first[1]
    BY <1>1, <1>4, <1>6, <2>0
  <2>3. \A n \in 2..Len(events)+1 : logs[n] = lines[n - 1] /\ n - 1 \in 1..Len(events)
    <3> TAKE n \in 2..Len(events)+1
    <3>1. n - 1 \in 1..Len(events) /\ 1 + (n - 1) = n
      BY <1>1
    <3>2. logs[1 + (n - 1)] = lines[n - 1]
      BY <1>4, <1>6, <2>0, <3>1
    <3> QED
      BY <3>1, <3>2
  <2>4. ASSUME NEW n \in 2..Len(logs) PROVE Own(logs[n])
    BY <1>5, <2>2, <2>3
  <2>5. Len(logs) >= 1 /\ logs[1] = invoke(program, level)
    BY <1>1, <1>6, <2>2
  <2> QED
    BY <2>1, <2>2, <2>4, <2>5 DEF Own
<1> QED
  BY <1>9, <1>10

\* u is s followed by t.
Continued(u, s, t) ==
  /\ IsSeq(u) /\ Len(u) = Len(s) + Len(t)
  /\ \A n \in 1..Len(s) : u[n] = s[n]
  /\ \A n \in 1..Len(t) : u[Len(s) + n] = t[n]

\* The lines of one instruction.
Block(t, entry) ==
  /\ IsSeq(t) /\ Len(t) >= 1 /\ IsStart(t[1]) /\ t[1][2] = entry.program
  /\ \A m \in 2..Len(t) : ~IsStart(t[m]) /\ OwnLine(t[m], entry)

\* The logs u are the logs s, laid out for the first i instructions, and the lines t
\* of one more.
LEMMA LaidNext ==
  ASSUME NEW s, IsSeq(s), NEW t, NEW u, Continued(u, s, t), NEW entries, IsSeq(entries),
         NEW i \in 0..Len(entries)-1, NEW blk, Laid(blk, s, entries), blk[Len(s)] = i,
         Block(t, entries[i + 1])
  PROVE  \E b : Laid(b, u, entries) /\ b[Len(u)] = i + 1
<1>0. /\ IsSeq(t) /\ Len(t) >= 1 /\ IsStart(t[1]) /\ t[1][2] = entries[i + 1].program
      /\ \A m \in 2..Len(t) : ~IsStart(t[m]) /\ OwnLine(t[m], entries[i + 1])
      /\ Len(u) = Len(s) + Len(t)
      /\ \A n \in 1..Len(s) : u[n] = s[n]
      /\ \A n \in 1..Len(t) : u[Len(s) + n] = t[n]
  BY DEF Block, Continued
<1>1. Len(s) \in Nat /\ Len(t) \in Nat /\ Len(entries) \in Nat
  BY <1>0, SeqFacts
<1> DEFINE b == [n \in 0..Len(u) |-> IF n <= Len(s) THEN blk[n] ELSE i + 1]
<1>2. b[0] = 0 /\ b[Len(u)] = i + 1
  BY <1>0, <1>1 DEF Laid
<1>3. \A n \in 0..Len(s) : b[n] = blk[n] /\ blk[n] \in 0..Len(entries)
  BY <1>0, <1>1 DEF Laid
<1>4. \A n \in Len(s)+1 .. Len(u) : b[n] = i + 1
  BY <1>0, <1>1
<1> HIDE DEF b
<1>5. \A n \in 0..Len(u) : b[n] \in 0..Len(entries)
  <2> TAKE n \in 0..Len(u)
  <2>1. n \in 0..Len(s) \/ n \in Len(s)+1 .. Len(u)
    BY <1>0, <1>1
  <2> QED
    BY <1>0, <1>1, <1>3, <1>4, <2>1
<1>6. ASSUME NEW n \in 0..Len(u)-1
      PROVE  IF IsStart(u[n + 1])
             THEN b[n + 1] = b[n] + 1 /\ u[n + 1][2] = entries[b[n + 1]].program
             ELSE b[n + 1] = b[n] /\ b[n] >= 1 /\ OwnLine(u[n + 1], entries[b[n]])
  <2>1. CASE n < Len(s)
    <3>1. n \in 0..Len(s)-1 /\ n \in 0..Len(s) /\ n + 1 \in 0..Len(s) /\ n + 1 \in 1..Len(s)
      BY <1>0, <1>1, <2>1
    <3>2. u[n + 1] = s[n + 1] /\ b[n] = blk[n] /\ b[n + 1] = blk[n + 1]
      BY <1>0, <1>3, <3>1
    <3>3. IF IsStart(s[n + 1])
          THEN blk[n + 1] = blk[n] + 1 /\ s[n + 1][2] = entries[blk[n + 1]].program
          ELSE blk[n + 1] = blk[n] /\ blk[n] >= 1 /\ OwnLine(s[n + 1], entries[blk[n]])
      BY <3>1 DEF Laid
    <3> QED
      BY <3>2, <3>3
  <2>2. CASE n = Len(s)
    <3>1. n \in 0..Len(s) /\ n + 1 \in Len(s)+1 .. Len(u) /\ 1 \in 1..Len(t)
      BY <1>0, <1>1, <2>2
    <3>2. u[n + 1] = t[1] /\ b[n] = i /\ b[n + 1] = i + 1
      BY <1>0, <1>3, <1>4, <2>2, <3>1
    <3> QED
      BY <1>0, <3>2
  <2>3. CASE n > Len(s)
    <3>1. /\ n \in Len(s)+1 .. Len(u) /\ n + 1 \in Len(s)+1 .. Len(u)
          /\ n + 1 - Len(s) \in 2..Len(t) /\ n + 1 - Len(s) \in 1..Len(t) /\ Len(s) + (n + 1 - Len(s)) = n + 1
      BY <1>0, <1>1, <2>3
    <3>2. u[n + 1] = t[n + 1 - Len(s)] /\ b[n] = i + 1 /\ b[n + 1] = i + 1
      BY <1>0, <1>4, <3>1
    <3>3. ~IsStart(t[n + 1 - Len(s)]) /\ OwnLine(t[n + 1 - Len(s)], entries[i + 1])
      BY <1>0, <3>1
    <3>4. i + 1 >= 1
      OBVIOUS
    <3> QED
      BY <3>2, <3>3, <3>4
  <2> QED
    BY <1>0, <1>1, <2>1, <2>2, <2>3
<1>7. Laid(b, u, entries)
  BY <1>2, <1>5, <1>6 DEF Laid
<1> QED
  BY <1>2, <1>7

\* A list of the numbers of instructions.
IsOps(ops) == IsSeq(ops) /\ Len(ops) >= 1 /\ \A n \in 1..Len(ops) : ops[n] \in DOMAIN history

\* The lines of a list of instructions, put together one after the other.
LEMMA LogsOfAllSteps ==
  ASSUME NEW ops, IsOps(ops), NEW level
  PROVE  \E f : /\ f[1] = LogsOf(ops[1], level) /\ f[Len(ops)] = LogsOfAll(ops, level)
                /\ \A n \in 1 .. Len(ops)-1 : f[n + 1] = Joined(f[n], LogsOf(ops[n + 1], level))
<1> DEFINE seqs == [n \in 1..Len(ops) |-> LogsOf(ops[n], level)]
<1>1. Len(ops) \in Nat /\ DOMAIN ops = 1..Len(ops) /\ Len(ops) >= 1
  BY SeqFacts DEF IsOps
<1>2. LogsOfAll(ops, level) = FlattenSeq(seqs)
  BY <1>1 DEF LogsOfAll
<1>3. DOMAIN seqs = 1..Len(ops) /\ seqs = [n \in 1..Len(ops) |-> seqs[n]]
  OBVIOUS
<1>4. \A n \in 1..Len(ops) : seqs[n] = LogsOf(ops[n], level)
  OBVIOUS
<1> HIDE DEF seqs
<1>5. Len(seqs) = Len(ops)
  BY <1>1, <1>3, FunctionIsSeq
<1>6. PICK f : /\ f[1] = seqs[1] /\ f[Len(ops)] = FlattenSeq(seqs)
               /\ \A n \in 1 .. Len(ops)-1 : f[n + 1] = Joined(f[n], seqs[n + 1])
  BY <1>1, <1>5, FlattenSteps
<1>7. f[1] = LogsOf(ops[1], level) /\ f[Len(ops)] = LogsOfAll(ops, level)
  BY <1>1, <1>2, <1>4, <1>6
<1>8. ASSUME NEW n \in 1 .. Len(ops)-1 PROVE f[n + 1] = Joined(f[n], LogsOf(ops[n + 1], level))
  <2>1. n + 1 \in 1..Len(ops)
    BY <1>1
  <2>2. seqs[n + 1] = LogsOf(ops[n + 1], level)
    BY <1>4, <2>1
  <2> QED
    BY <1>6, <2>2
<1> QED
  BY <1>7, <1>8

\* Each instruction starts with a line `invoke [1]` of its own.
LEMMA AllLaid ==
  ASSUME NEW ops, IsOps(ops)
  PROVE  LaidOut(LogsOfAll(ops, 1), Instructions(ops))
<1>0. PICK entries : entries = Instructions(ops)
  OBVIOUS
<1>1. Len(ops) \in Nat /\ DOMAIN ops = 1..Len(ops) /\ Len(ops) >= 1 /\ \A n \in 1..Len(ops) : ops[n] \in DOMAIN history
  BY SeqFacts DEF IsOps
<1>2. /\ IsSeq(entries) /\ Len(entries) = Len(ops)
      /\ \A n \in 1..Len(ops) : entries[n] = Outer(program, ops[n])
  <2>1. /\ DOMAIN entries = 1..Len(ops) /\ entries = [n \in 1..Len(ops) |-> entries[n]]
        /\ \A n \in 1..Len(ops) : entries[n] = Outer(program, ops[n])
    BY <1>0, <1>1 DEF Instructions
  <2> QED
    BY <1>1, <2>1, FunctionIsSeq
<1>3. ASSUME NEW n \in 1..Len(ops)
      PROVE  Block(LogsOf(ops[n], 1), entries[n])
  <2>1. ops[n] \in DOMAIN history /\ 1 \in {1, 2} /\ entries[n] = Outer(program, ops[n])
    BY <1>1, <1>2
  <2>2. LET t == LogsOf(ops[n], 1)
        IN  /\ IsSeq(t) /\ Len(t) >= 1 /\ t[1] = invoke(program, 1)
            /\ \A m \in 2..Len(t) : ~IsStart(t[m]) /\ OwnLine(t[m], Outer(program, ops[n]))
    BY <2>1, LogsOfFacts
  <2>3. IsStart(invoke(program, 1)) /\ invoke(program, 1)[2] = program /\ entries[n].program = program
    BY <2>1 DEF IsStart, invoke, Outer
  <2> QED
    BY <2>1, <2>2, <2>3 DEF Block
<1>4. PICK f : /\ f[1] = LogsOf(ops[1], 1) /\ f[Len(ops)] = LogsOfAll(ops, 1)
               /\ \A n \in 1 .. Len(ops)-1 : f[n + 1] = Joined(f[n], LogsOf(ops[n + 1], 1))
  BY LogsOfAllSteps
<1> DEFINE S == {i \in 0..Len(ops) :
                   i = 0 \/ (IsSeq(f[i]) /\ \E b : Laid(b, f[i], entries) /\ b[Len(f[i])] = i)}
<1>5. 0 \in S
  BY <1>1
<1>6. ASSUME NEW i \in 0..Len(ops)-1, i \in S PROVE i + 1 \in S
  <2>1. i + 1 \in 1..Len(ops) /\ i + 1 \in 0..Len(ops) /\ i \in 0..Len(entries)-1
    BY <1>1, <1>2
  <2>2. PICK t : t = LogsOf(ops[i + 1], 1)
    OBVIOUS
  <2>3. Block(t, entries[i + 1])
    BY <1>3, <2>1, <2>2
  <2>4. IsSeq(t) /\ Len(t) \in Nat
    BY <2>3, SeqFacts DEF Block
  <2>5. CASE i = 0
    <3>1. IsSeq(<<>>) /\ Len(<<>>) = 0
      BY SmallSeqs
    <3>2. PICK s : s = <<>>
      OBVIOUS
    <3>3. IsSeq(s) /\ Len(s) = 0
      BY <3>1, <3>2
    <3> DEFINE blk == [n \in 0..0 |-> 0]
    <3>4. Laid(blk, s, entries) /\ blk[Len(s)] = i
      BY <1>1, <1>2, <2>5, <3>3 DEF Laid
    <3> HIDE DEF blk
    <3>5. Continued(t, s, t)
      BY <2>4, <3>3 DEF Continued
    <3>6. \E b : Laid(b, t, entries) /\ b[Len(t)] = i + 1
      BY <1>2, <2>1, <2>3, <3>3, <3>4, <3>5, LaidNext
    <3> QED
      BY <1>4, <2>1, <2>2, <2>4, <2>5, <3>6
  <2>6. CASE i # 0
    <3>1. PICK s : s = f[i]
      OBVIOUS
    <3>2. IsSeq(s) /\ \E b : Laid(b, s, entries) /\ b[Len(s)] = i
      BY <1>6, <2>6, <3>1
    <3>3. PICK b : Laid(b, s, entries) /\ b[Len(s)] = i
      BY <3>2
    <3>4. PICK u : u = Joined(s, t)
      OBVIOUS
    <3>5. i \in 1..Len(ops)-1 /\ f[i + 1] = u
      BY <1>1, <1>4, <2>2, <2>6, <3>1, <3>4
    <3>6. IsSeq(s) /\ IsSeq(t)
      BY <2>4, <3>2
    <3>7. /\ IsSeq(Joined(s, t)) /\ Len(Joined(s, t)) = Len(s) + Len(t)
          /\ \A n \in 1..Len(s) : Joined(s, t)[n] = s[n]
          /\ \A n \in 1..Len(t) : Joined(s, t)[Len(s) + n] = t[n]
      BY <3>6, ConcatFacts
    <3>8. IsSeq(u) /\ Continued(u, s, t)
      BY <3>4, <3>7 DEF Continued
    <3>9. \E c : Laid(c, u, entries) /\ c[Len(u)] = i + 1
      BY <1>2, <2>1, <2>3, <3>3, <3>6, <3>8, LaidNext
    <3> QED
      BY <2>1, <3>5, <3>8, <3>9
  <2> QED
    BY <2>5, <2>6
<1>7. Len(ops) \in S
  <2> HIDE DEF S
  <2>1. \A i \in 0..Len(ops) : i \in S
    BY <1>1, <1>5, <1>6, Upwards
  <2> QED
    BY <1>1, <2>1
<1>8. IsSeq(f[Len(ops)]) /\ \E b : Laid(b, f[Len(ops)], entries)
  BY <1>1, <1>7
<1> QED
  BY <1>0, <1>2, <1>4, <1>8 DEF LaidOut

\* Instructions called by another program have no such line.
LEMMA NoStarts ==
  ASSUME NEW ops, IsOps(ops)
  PROVE  IsSeq(LogsOfAll(ops, 2)) /\ \A n \in 1..Len(LogsOfAll(ops, 2)) : ~IsStart(LogsOfAll(ops, 2)[n])
<1>1. Len(ops) \in Nat /\ Len(ops) >= 1 /\ \A n \in 1..Len(ops) : ops[n] \in DOMAIN history
  BY SeqFacts DEF IsOps
<1> DEFINE Quiet(t) == IsSeq(t) /\ \A n \in 1..Len(t) : ~IsStart(t[n])
<1>2. ASSUME NEW n \in 1..Len(ops) PROVE Quiet(LogsOf(ops[n], 2))
  <2>1. ops[n] \in DOMAIN history /\ 2 \in {1, 2}
    BY <1>1
  <2>2. LET t == LogsOf(ops[n], 2)
        IN  /\ IsSeq(t) /\ Len(t) >= 1 /\ t[1] = invoke(program, 2)
            /\ \A m \in 2..Len(t) : ~IsStart(t[m]) /\ OwnLine(t[m], Outer(program, ops[n]))
    BY <2>1, LogsOfFacts
  <2>3. ~IsStart(invoke(program, 2))
    BY DEF IsStart, invoke
  <2>4. PICK t : t = LogsOf(ops[n], 2)
    OBVIOUS
  <2>5. Len(t) \in Nat
    BY <2>2, <2>4, SeqFacts
  <2>6. \A m \in 1..Len(t) : m = 1 \/ m \in 2..Len(t)
    BY <2>5
  <2> QED
    BY <2>2, <2>3, <2>4, <2>6
<1>3. PICK f : /\ f[1] = LogsOf(ops[1], 2) /\ f[Len(ops)] = LogsOfAll(ops, 2)
               /\ \A n \in 1 .. Len(ops)-1 : f[n + 1] = Joined(f[n], LogsOf(ops[n + 1], 2))
  BY LogsOfAllSteps
<1> DEFINE S == {i \in 0..Len(ops) : i = 0 \/ Quiet(f[i])}
<1>4. 0 \in S
  BY <1>1
<1>5. ASSUME NEW i \in 0..Len(ops)-1, i \in S PROVE i + 1 \in S
  <2>1. i + 1 \in 1..Len(ops) /\ i + 1 \in 0..Len(ops)
    BY <1>1
  <2>2. PICK t : t = LogsOf(ops[i + 1], 2)
    OBVIOUS
  <2>3. Quiet(t)
    BY <1>2, <2>1, <2>2
  <2>4. CASE i = 0
    <3> HIDE DEF Quiet
    <3> QED
      BY <1>3, <2>1, <2>2, <2>3, <2>4
  <2>5. CASE i # 0
    <3>1. PICK s : s = f[i]
      OBVIOUS
    <3>2. Quiet(s) /\ i \in 1..Len(ops)-1
      BY <1>1, <1>5, <2>5, <3>1
    <3>3. f[i + 1] = Joined(s, t)
      BY <1>3, <2>2, <3>1, <3>2
    <3>4. IsSeq(s) /\ IsSeq(t)
      BY <2>3, <3>2
    <3>5. /\ IsSeq(Joined(s, t)) /\ Len(Joined(s, t)) = Len(s) + Len(t)
          /\ \A n \in 1..Len(s) : Joined(s, t)[n] = s[n]
          /\ \A n \in 1..Len(t) : Joined(s, t)[Len(s) + n] = t[n]
      BY <3>4, ConcatFacts
    <3>6. Len(s) \in Nat /\ Len(t) \in Nat
      BY <3>4, SeqFacts
    <3>7. ASSUME NEW n \in 1..Len(Joined(s, t)) PROVE ~IsStart(Joined(s, t)[n])
      <4>1. CASE n \in 1..Len(s)
        BY <3>2, <3>5, <4>1
      <4>2. CASE n \notin 1..Len(s)
        <5>1. n - Len(s) \in 1..Len(t) /\ Len(s) + (n - Len(s)) = n
          BY <3>5, <3>6, <4>2
        <5>2. Joined(s, t)[n] = t[n - Len(s)]
          BY <3>5, <5>1
        <5> QED
          BY <2>3, <5>1, <5>2
      <4> QED
        BY <4>1, <4>2
    <3> QED
      BY <2>1, <3>3, <3>5, <3>7
  <2> QED
    BY <2>4, <2>5
<1>6. Len(ops) \in S
  <2> HIDE DEF S
  <2>1. \A i \in 0..Len(ops) : i \in S
    BY <1>1, <1>4, <1>5, Upwards
  <2> QED
    BY <1>1, <2>1
<1> QED
  BY <1>1, <1>3, <1>6

\* The calls of one instruction of another program.
LEMMA CalledByOther ==
  ASSUME HistoryOK, NEW ops, IsOps(ops)
  PROVE  LaidOut(<<invoke("other", 1)>> \o LogsOfAll(ops, 2), <<Outer("other", 0)>>)
<1>1. PICK s, t, u, entries : /\ s = <<invoke("other", 1)>> /\ t = LogsOfAll(ops, 2)
                              /\ u = s \o t /\ entries = <<Outer("other", 0)>>
  OBVIOUS
<1>2. /\ IsSeq(s) /\ Len(s) = 1 /\ s[1] = invoke("other", 1)
      /\ IsSeq(entries) /\ Len(entries) = 1 /\ entries[1] = Outer("other", 0)
  BY <1>1, SmallSeqs
<1>3. IsSeq(t) /\ \A n \in 1..Len(t) : ~IsStart(t[n])
  BY <1>1, NoStarts
<1>4. IsSeq(s) /\ IsSeq(t)
  BY <1>2, <1>3
<1>5. /\ IsSeq(Joined(s, t)) /\ Len(Joined(s, t)) = Len(s) + Len(t)
      /\ \A n \in 1..Len(s) : Joined(s, t)[n] = s[n]
      /\ \A n \in 1..Len(t) : Joined(s, t)[Len(s) + n] = t[n]
  BY <1>4, ConcatFacts
<1>6. u = Joined(s, t)
  BY <1>1 DEF Joined
<1>7. IsSeq(u) /\ Len(u) = 1 + Len(t) /\ u[1] = invoke("other", 1) /\ \A n \in 1..Len(t) : u[1 + n] = t[n]
  BY <1>2, <1>5, <1>6
<1>8. Len(t) \in Nat
  BY <1>4, SeqFacts
<1>9. IsStart(u[1]) /\ u[1][2] = "other" /\ entries[1].program = "other" /\ program # "other"
  BY <1>2, <1>7 DEF IsStart, invoke, Outer, HistoryOK
<1>10. \A n \in 2..Len(u) : ~IsStart(u[n])
  <2> TAKE n \in 2..Len(u)
  <2>1. n - 1 \in 1..Len(t) /\ 1 + (n - 1) = n
    BY <1>7, <1>8
  <2> QED
    BY <1>3, <1>7, <2>1
<1> DEFINE b == [n \in 0..Len(u) |-> IF n = 0 THEN 0 ELSE 1]
<1>11. /\ b[0] = 0 /\ b[1] = 1
       /\ \A n \in 0..Len(u) : b[n] \in 0..Len(entries)
       /\ \A n \in 1..Len(u) : b[n] = 1
  BY <1>2, <1>7, <1>8
<1> HIDE DEF b
<1>12. ASSUME NEW n \in 0..Len(u)-1
       PROVE  IF IsStart(u[n + 1])
              THEN b[n + 1] = b[n] + 1 /\ u[n + 1][2] = entries[b[n + 1]].program
              ELSE b[n + 1] = b[n] /\ b[n] >= 1 /\ OwnLine(u[n + 1], entries[b[n]])
  <2>1. CASE n = 0
    BY <1>9, <1>11, <2>1
  <2>2. CASE n # 0
    <3>1. n \in 1..Len(u) /\ n + 1 \in 1..Len(u) /\ n + 1 \in 2..Len(u)
      BY <1>7, <1>8, <2>2
    <3>2. b[n] = 1 /\ b[n + 1] = 1 /\ ~IsStart(u[n + 1])
      BY <1>10, <1>11, <3>1
    <3>3. OwnLine(u[n + 1], entries[b[n]])
      BY <1>9, <3>2 DEF OwnLine
    <3> QED
      BY <3>2, <3>3
  <2> QED
    BY <2>1, <2>2
<1>13. Laid(b, u, entries)
  BY <1>11, <1>12 DEF Laid
<1> QED
  BY <1>1, <1>2, <1>7, <1>13 DEF LaidOut

\* One instruction of another program before the others.
LEMMA AfterOther ==
  ASSUME NEW logs, NEW list, LaidOut(logs, list)
  PROVE  /\ LaidOut(<<invoke("other", 1)>> \o logs, <<Outer("other", 0)>> \o list)
         /\ \A n \in 1..Len(list) : (<<Outer("other", 0)>> \o list)[1 + n] = list[n]
         /\ Len(<<Outer("other", 0)>> \o list) = 1 + Len(list)
         /\ (<<Outer("other", 0)>> \o list)[1] = Outer("other", 0)
<1>1. PICK s, e, u, entries : /\ s = <<invoke("other", 1)>> /\ e = <<Outer("other", 0)>>
                              /\ u = s \o logs /\ entries = e \o list
  OBVIOUS
<1>2. /\ IsSeq(s) /\ Len(s) = 1 /\ s[1] = invoke("other", 1)
      /\ IsSeq(e) /\ Len(e) = 1 /\ e[1] = Outer("other", 0)
  BY <1>1, SmallSeqs
<1>3. IsSeq(s) /\ IsSeq(logs) /\ IsSeq(e) /\ IsSeq(list)
  BY <1>2 DEF LaidOut
<1>4. /\ IsSeq(Joined(s, logs)) /\ Len(Joined(s, logs)) = Len(s) + Len(logs)
      /\ \A n \in 1..Len(s) : Joined(s, logs)[n] = s[n]
      /\ \A n \in 1..Len(logs) : Joined(s, logs)[Len(s) + n] = logs[n]
  BY <1>3, ConcatFacts
<1>5. /\ IsSeq(Joined(e, list)) /\ Len(Joined(e, list)) = Len(e) + Len(list)
      /\ \A n \in 1..Len(e) : Joined(e, list)[n] = e[n]
      /\ \A n \in 1..Len(list) : Joined(e, list)[Len(e) + n] = list[n]
  BY <1>3, ConcatFacts
<1>6. u = Joined(s, logs) /\ entries = Joined(e, list)
  BY <1>1 DEF Joined
<1>7. IsSeq(u) /\ Len(u) = 1 + Len(logs) /\ u[1] = invoke("other", 1) /\ \A n \in 1..Len(logs) : u[1 + n] = logs[n]
  BY <1>2, <1>4, <1>6
<1>8. /\ IsSeq(entries) /\ Len(entries) = 1 + Len(list) /\ entries[1] = Outer("other", 0)
      /\ \A n \in 1..Len(list) : entries[1 + n] = list[n]
  BY <1>2, <1>5, <1>6
<1>9. Len(logs) \in Nat /\ Len(list) \in Nat
  BY <1>3, SeqFacts
<1>10. IsStart(u[1]) /\ u[1][2] = "other" /\ entries[1].program = "other"
  BY <1>7, <1>8 DEF IsStart, invoke, Outer
<1>11. PICK blk : Laid(blk, logs, list)
  BY DEF LaidOut
<1> DEFINE b == [n \in 0..Len(u) |-> IF n = 0 THEN 0 ELSE 1 + blk[n - 1]]
<1>12. /\ b[0] = 0 /\ b[1] = 1
       /\ \A n \in 0..Len(logs) : b[n + 1] = 1 + blk[n]
  BY <1>7, <1>9, <1>11 DEF Laid
<1>13. \A n \in 0..Len(u) : b[n] \in 0..Len(entries)
  <2> TAKE n \in 0..Len(u)
  <2>1. CASE n = 0
    BY <1>8, <1>9, <2>1
  <2>2. CASE n # 0
    <3>1. n - 1 \in 0..Len(logs)
      BY <1>7, <1>9, <2>2
    <3>2. blk[n - 1] \in 0..Len(list)
      BY <1>11, <3>1 DEF Laid
    <3> QED
      BY <1>8, <1>9, <2>2, <3>2
  <2> QED
    BY <2>1, <2>2
<1> HIDE DEF b
<1>14. ASSUME NEW n \in 0..Len(u)-1
       PROVE  IF IsStart(u[n + 1])
              THEN b[n + 1] = b[n] + 1 /\ u[n + 1][2] = entries[b[n + 1]].program
              ELSE b[n + 1] = b[n] /\ b[n] >= 1 /\ OwnLine(u[n + 1], entries[b[n]])
  <2>1. CASE n = 0
    BY <1>10, <1>12, <2>1
  <2>2. CASE n # 0
    <3>1. PICK m : m = n - 1
      OBVIOUS
    <3>2. m \in 0..Len(logs)-1 /\ m \in 0..Len(logs) /\ m + 1 \in 0..Len(logs) /\ n = m + 1 /\ n \in 1..Len(logs)
      BY <1>7, <1>9, <2>2, <3>1
    <3>3. u[n + 1] = logs[n] /\ b[n] = 1 + blk[m] /\ b[n + 1] = 1 + blk[n]
      BY <1>7, <1>12, <3>2
    <3>4. IF IsStart(logs[n])
          THEN blk[n] = blk[m] + 1 /\ logs[n][2] = list[blk[n]].program
          ELSE blk[n] = blk[m] /\ blk[m] >= 1 /\ OwnLine(logs[n], list[blk[m]])
      BY <1>11, <3>2 DEF Laid
    <3>5. blk[m] \in 0..Len(list) /\ blk[n] \in 0..Len(list)
      BY <1>11, <3>2 DEF Laid
    <3>6. \A j \in 1..Len(list) : entries[1 + j] = list[j]
      BY <1>8
    <3>7. CASE IsStart(logs[n])
      <4>1. blk[n] \in 1..Len(list)
        BY <1>9, <3>4, <3>5, <3>7
      <4> QED
        BY <3>3, <3>4, <3>5, <3>6, <3>7, <4>1
    <3>8. CASE ~IsStart(logs[n])
      <4>1. blk[m] \in 1..Len(list)
        BY <1>9, <3>4, <3>5, <3>8
      <4> QED
        BY <3>3, <3>4, <3>5, <3>6, <3>8, <4>1
    <3> QED
      BY <3>7, <3>8
  <2> QED
    BY <2>1, <2>2
<1>15. Laid(b, u, entries)
  BY <1>12, <1>13, <1>14 DEF Laid
<1>16. LaidOut(u, entries)
  BY <1>7, <1>8, <1>15 DEF LaidOut
<1> QED
  BY <1>1, <1>8, <1>16

\* Logs that are cut off.
LEMMA CutOff ==
  ASSUME NEW logs, NEW list, LaidOut(logs, list), NEW n \in 0..Len(logs)
  PROVE  LaidOut(SubSeq(logs, 1, n), list)
<1>1. IsSeq(logs) /\ IsSeq(list) /\ Len(logs) \in Nat
  BY SeqFacts DEF LaidOut
<1>2. PICK u : u = SubSeq(logs, 1, n)
  OBVIOUS
<1>3. IsSeq(u) /\ Len(u) = n /\ \A i \in 1..n : u[i] = logs[i]
  BY <1>1, <1>2, PrefixFacts
<1>4. PICK blk : Laid(blk, logs, list)
  BY DEF LaidOut
<1>5. \A i \in 0..n : i \in 0..Len(logs)
  BY <1>1
<1>6. \A i \in 0..n-1 : i \in 0..Len(logs)-1 /\ i + 1 \in 1..n
  BY <1>1
<1>7. Laid(blk, u, list)
  BY <1>3, <1>4, <1>5, <1>6 DEF Laid
<1> QED
  BY <1>1, <1>2, <1>3, <1>7 DEF LaidOut

\* The pairs that Zip makes.
LEMMA ZipFacts ==
  ASSUME NEW s, IsSeq(s), NEW t, IsSeq(t)
  PROVE  /\ IsSeq(Zip(s, t)) /\ Len(Zip(s, t)) <= Len(s) /\ Len(Zip(s, t)) <= Len(t)
         /\ \A n \in DOMAIN Zip(s, t) : Zip(s, t)[n][1] = s[n] /\ Zip(s, t)[n][2] = t[n]
         /\ DOMAIN Zip(s, t) = 1..Len(Zip(s, t)) /\ Len(Zip(s, t)) \in Nat
         /\ Zip(s, t) # <<>> => Len(Zip(s, t)) >= 1
<1>1. Len(s) \in Nat /\ Len(t) \in Nat
  BY SeqFacts
<1>2. PICK l : l = IF Len(s) <= Len(t) THEN Len(s) ELSE Len(t)
  OBVIOUS
<1>3. PICK z : z = Zip(s, t)
  OBVIOUS
<1>4. z = [n \in 1..l |-> <<s[n], t[n]>>]
  BY <1>2, <1>3, Zenon DEF Zip
<1>5. l \in Nat /\ l <= Len(s) /\ l <= Len(t)
  BY <1>1, <1>2
<1>6. DOMAIN z = 1..l /\ z = [n \in 1..l |-> z[n]] /\ \A n \in 1..l : z[n][1] = s[n] /\ z[n][2] = t[n]
  BY <1>4
<1>7. IsSeq(z) /\ Len(z) = l
  BY <1>5, <1>6, FunctionIsSeq
<1>8. z # <<>> => Len(z) >= 1
  BY <1>7, SeqFacts
<1> QED
  BY <1>3, <1>5, <1>6, <1>7, <1>8

\* The instructions of the program that a transaction lists are on the chain.
OpsKnown(entries) ==
  \A j \in 1..Len(entries) : entries[j].program = program => entries[j].op \in DOMAIN history

\* Every instruction is paired with its own logs.
LEMMA PairsMatch ==
  ASSUME NEW logs, NEW entries, LaidOut(logs, entries), OpsKnown(entries)
  PROVE  MessageOK(Zip(entries, parse_logs(logs)))
<1>1. PICK parsed, m : parsed = parse_logs(logs) /\ m = Zip(entries, parsed)
  OBVIOUS
<1>2. PICK n \in 0..Len(entries) : ParsedAs(parsed, entries, n)
  BY <1>1, ParseOK
<1>3. IsSeq(parsed) /\ Len(parsed) = n /\ IsSeq(entries) /\ Len(entries) \in Nat
  BY <1>2, SeqFacts DEF ParsedAs, LaidOut
<1>4. /\ IsSeq(m) /\ Len(m) <= Len(entries) /\ Len(m) <= Len(parsed)
      /\ \A j \in DOMAIN m : m[j][1] = entries[j] /\ m[j][2] = parsed[j]
      /\ DOMAIN m = 1..Len(m) /\ Len(m) \in Nat
  BY <1>1, <1>3, ZipFacts
<1>5. ASSUME NEW j \in DOMAIN m PROVE PairOK(m[j])
  <2>1. j \in 1..n /\ j \in 1..Len(entries) /\ m[j][1] = entries[j] /\ m[j][2] = parsed[j]
    BY <1>3, <1>4
  <2>2. IsSeq(parsed[j].lines) /\ \A i \in 1..Len(parsed[j].lines) : OwnLine(parsed[j].lines[i], entries[j])
    BY <1>2, <2>1 DEF ParsedAs
  <2>3. DOMAIN parsed[j].lines = 1..Len(parsed[j].lines)
    BY <2>2, SeqFacts
  <2>4. entries[j].program = program => entries[j].op \in DOMAIN history
    BY <2>1 DEF OpsKnown
  <2> QED
    BY <2>1, <2>2, <2>3, <2>4 DEF PairOK, OwnLine
<1> QED
  BY <1>1, <1>4, <1>5 DEF MessageOK

\* Behind an instruction that logs nothing, the first pair does not match.
LEMMA PairsDiffer ==
  ASSUME HistoryOK, NEW logs, NEW list, LaidOut(logs, list),
         \A j \in 1..Len(list) : list[j].program = program
  PROVE  MessageOK(Zip(<<Outer("silent", 0)>> \o list, parse_logs(logs)))
<1>1. PICK e, entries, parsed, m :
        /\ e = <<Outer("silent", 0)>> /\ entries = e \o list
        /\ parsed = parse_logs(logs) /\ m = Zip(entries, parsed)
  OBVIOUS
<1>2. PICK n \in 0..Len(list) : ParsedAs(parsed, list, n)
  BY <1>1, ParseOK
<1>3. IsSeq(parsed) /\ Len(parsed) = n /\ IsSeq(list) /\ Len(list) \in Nat
  BY <1>2, SeqFacts DEF ParsedAs, LaidOut
<1>4. IsSeq(e) /\ Len(e) = 1 /\ e[1] = Outer("silent", 0)
  BY <1>1, SmallSeqs
<1>5. IsSeq(e) /\ IsSeq(list)
  BY <1>3, <1>4
<1>6. IsSeq(Joined(e, list)) /\ \A i \in 1..Len(e) : Joined(e, list)[i] = e[i]
  BY <1>5, ConcatFacts
<1>7. entries = Joined(e, list)
  BY <1>1 DEF Joined
<1>8. IsSeq(entries) /\ entries[1] = Outer("silent", 0)
  BY <1>4, <1>6, <1>7
<1>9. /\ IsSeq(m) /\ Len(m) <= Len(parsed) /\ DOMAIN m = 1..Len(m) /\ Len(m) \in Nat
      /\ \A j \in DOMAIN m : m[j][1] = entries[j] /\ m[j][2] = parsed[j]
      /\ m # <<>> => Len(m) >= 1
  <2>1. IsSeq(entries) /\ IsSeq(parsed)
    BY <1>3, <1>8
  <2>2. m = Zip(entries, parsed)
    BY <1>1
  <2> QED
    BY <2>1, <2>2, ZipFacts
<1>10. ASSUME m # <<>> PROVE m[1][1].program # m[1][2].program
  <2>1. 1 \in DOMAIN m /\ 1 \in 1..n /\ 1 \in 1..Len(list)
    BY <1>3, <1>9, <1>10
  <2>2. m[1][1] = Outer("silent", 0) /\ m[1][2] = parsed[1]
    BY <1>8, <1>9, <2>1
  <2>3. parsed[1].program = program
    BY <1>2, <2>1 DEF ParsedAs
  <2>4. program # "silent" /\ Outer("silent", 0).program = "silent"
    BY DEF HistoryOK, Outer
  <2> QED
    BY <2>2, <2>3, <2>4
<1> QED
  BY <1>1, <1>9, <1>10 DEF MessageOK

\* A transaction that is made as usual.
LEMMA TransactionMade ==
  ASSUME NEW outer, NEW logs, MessageOK(Zip(outer, parse_logs(logs)))
  PROVE  TransactionOK(Transaction(outer, logs))
<1>1. Transaction(outer, logs).outer = outer /\ Transaction(outer, logs).logs = <<logs>>
  BY DEF Transaction
<1>2. Transaction(outer, logs).logs[1] = logs
  BY <1>1, SmallSeqs
<1> QED
  BY <1>1, <1>2 DEF TransactionOK, order_instructions

\* Whatever the transaction looks like.
LEMMA TransactionsOK ==
  ASSUME HistoryOK, NEW ops, IsOps(ops)
  PROVE  \A tx \in {Plain(ops)} \cup Unusual(ops) : TransactionOK(tx)
<1>1. PICK logs, list : logs = LogsOfAll(ops, 1) /\ list = Instructions(ops)
  OBVIOUS
<1>2. LaidOut(logs, list)
  BY <1>1, AllLaid
<1>3. Len(ops) \in Nat /\ DOMAIN ops = 1..Len(ops) /\ \A n \in 1..Len(ops) : ops[n] \in DOMAIN history
  BY SeqFacts DEF IsOps
<1>4. Len(list) = Len(ops) /\ \A j \in 1..Len(list) : list[j] = Outer(program, ops[j])
  <2>1. /\ DOMAIN list = 1..Len(ops) /\ list = [n \in 1..Len(ops) |-> list[n]]
        /\ \A n \in 1..Len(ops) : list[n] = Outer(program, ops[n])
    BY <1>1, <1>3 DEF Instructions
  <2>2. Len(list) = Len(ops)
    BY <1>3, <2>1, FunctionIsSeq
  <2> QED
    BY <2>1, <2>2
<1>5. \A j \in 1..Len(list) : list[j].program = program /\ list[j].op \in DOMAIN history
  <2> TAKE j \in 1..Len(list)
  <2>1. list[j] = Outer(program, ops[j]) /\ ops[j] \in DOMAIN history
    BY <1>3, <1>4
  <2>2. Outer(program, ops[j]).program = program /\ Outer(program, ops[j]).op = ops[j]
    BY DEF Outer
  <2> QED
    BY <2>1, <2>2
<1>6. OpsKnown(list)
  BY <1>5 DEF OpsKnown
<1>7. TransactionOK(Plain(ops))
  <2>1. MessageOK(Zip(list, parse_logs(logs)))
    BY <1>2, <1>6, PairsMatch
  <2> QED
    BY <1>1, <2>1, TransactionMade DEF Plain
<1>8. TransactionOK(Transaction(<<Outer("other", 0)>>, <<invoke("other", 1)>> \o LogsOfAll(ops, 2)))
  <2>1. PICK entries, u : entries = <<Outer("other", 0)>> /\ u = <<invoke("other", 1)>> \o LogsOfAll(ops, 2)
    OBVIOUS
  <2>2. LaidOut(u, entries)
    BY <2>1, CalledByOther
  <2>3. Len(entries) = 1 /\ entries[1] = Outer("other", 0)
    BY <2>1, SmallSeqs
  <2>4. OpsKnown(entries)
    BY <2>3 DEF OpsKnown, Outer, HistoryOK
  <2>5. MessageOK(Zip(entries, parse_logs(u)))
    BY <2>2, <2>4, PairsMatch
  <2>6. TransactionOK(Transaction(entries, u))
    BY <2>5, TransactionMade
  <2> QED
    BY <2>1, <2>6
<1>9. TransactionOK(Transaction(<<Outer("other", 0)>> \o list, <<invoke("other", 1)>> \o logs))
  <2>1. PICK entries, u : entries = <<Outer("other", 0)>> \o list /\ u = <<invoke("other", 1)>> \o logs
    OBVIOUS
  <2>2. /\ LaidOut(u, entries) /\ Len(entries) = 1 + Len(list) /\ entries[1] = Outer("other", 0)
        /\ \A n \in 1..Len(list) : entries[1 + n] = list[n]
    BY <1>2, <2>1, AfterOther
  <2>3. OpsKnown(entries)
    <3> SUFFICES ASSUME NEW j \in 1..Len(entries), entries[j].program = program
                 PROVE  entries[j].op \in DOMAIN history
      BY DEF OpsKnown
    <3>1. j # 1
      BY <2>2 DEF Outer, HistoryOK
    <3>2. j - 1 \in 1..Len(list) /\ 1 + (j - 1) = j
      BY <1>3, <1>4, <2>2, <3>1
    <3>3. entries[j] = list[j - 1]
      BY <2>2, <3>2
    <3> QED
      BY <1>5, <3>2, <3>3
  <2>4. MessageOK(Zip(entries, parse_logs(u)))
    BY <2>2, <2>3, PairsMatch
  <2>5. TransactionOK(Transaction(entries, u))
    BY <2>4, TransactionMade
  <2> QED
    BY <2>1, <2>5
<1>10. TransactionOK(Transaction(<<Outer("silent", 0)>> \o list, logs))
  <2>1. PICK entries : entries = <<Outer("silent", 0)>> \o list
    OBVIOUS
  <2>2. MessageOK(Zip(entries, parse_logs(logs)))
    BY <1>2, <1>5, <2>1, PairsDiffer
  <2>3. TransactionOK(Transaction(entries, logs))
    BY <2>2, TransactionMade
  <2> QED
    BY <2>1, <2>3
<1>11. TransactionOK([Plain(ops) EXCEPT !.logs = NoLogs])
  <2>1. [Plain(ops) EXCEPT !.logs = NoLogs].logs = NoLogs
    BY DEF Plain, Transaction
  <2> QED
    BY <2>1 DEF TransactionOK
<1>12. TransactionOK(Unreadable)
  BY DEF TransactionOK, Unreadable
<1>13. ASSUME NEW n \in Cuts(logs) PROVE TransactionOK(Transaction(list, SubSeq(logs, 1, n)))
  <2>1. PICK u : u = SubSeq(logs, 1, n)
    OBVIOUS
  <2>2. Len(logs) \in Nat
    BY <1>2, SeqFacts DEF LaidOut
  <2>3. n \in 0..Len(logs)
    BY <2>2 DEF Cuts
  <2>4. LaidOut(u, list)
    BY <1>2, <2>1, <2>3, CutOff
  <2>5. MessageOK(Zip(list, parse_logs(u)))
    BY <1>6, <2>4, PairsMatch
  <2>6. TransactionOK(Transaction(list, u))
    BY <2>5, TransactionMade
  <2> QED
    BY <2>1, <2>6
<1>14. Unusual(ops) =
         {Transaction(<<Outer("other", 0)>>, <<invoke("other", 1)>> \o LogsOfAll(ops, 2)),
          Transaction(<<Outer("other", 0)>> \o list, <<invoke("other", 1)>> \o logs),
          Transaction(<<Outer("silent", 0)>> \o list, logs),
          [Plain(ops) EXCEPT !.logs = NoLogs], Unreadable}
         \cup {Transaction(list, SubSeq(logs, 1, n)) : n \in Cuts(logs)}
  BY <1>1, Zenon DEF Unusual
<1> QED
  BY <1>7, <1>8, <1>9, <1>10, <1>11, <1>12, <1>13, <1>14, Zenon

-----------------------------------------------------------------------------
(* Messages. *)

\* The history is the same or longer.
HistoryLonger ==
  /\ program' = program
  /\ \A k \in DOMAIN history : k \in DOMAIN history' /\ history'[k] = history[k]

\* A message stays what it is when the chain goes on.
LEMMA MessageStays ==
  ASSUME HistoryLonger, NEW m, MessageOK(m)
  PROVE  MessageOK(m)'
<1>1. ASSUME NEW pair, PairOK(pair) PROVE PairOK(pair)'
  <2> SUFFICES ASSUME pair[1].program = program'
               PROVE  /\ pair[1].op \in DOMAIN history'
                      /\ IsSeq(pair[2].lines)
                      /\ \A n \in DOMAIN pair[2].lines : LET line == pair[2].lines[n] IN
                           line[1] = "data" =>
                             line[3] = pair[1].op /\ line[2] \in ToSet(EventsOf(history'[pair[1].op].ix))
    BY DEF PairOK
  <2>1. pair[1].program = program
    BY DEF HistoryLonger
  <2>2. /\ pair[1].op \in DOMAIN history /\ IsSeq(pair[2].lines)
        /\ \A n \in DOMAIN pair[2].lines : LET line == pair[2].lines[n] IN
             line[1] = "data" => line[3] = pair[1].op /\ line[2] \in ToSet(EventsOf(history[pair[1].op].ix))
    BY <1>1, <2>1 DEF PairOK
  <2>3. pair[1].op \in DOMAIN history' /\ history'[pair[1].op] = history[pair[1].op]
    BY <2>2 DEF HistoryLonger
  <2> QED
    BY <2>2, <2>3
<1> QED
  BY <1>1 DEF MessageOK

\* So does a transaction.
LEMMA TransactionStays ==
  ASSUME HistoryLonger, NEW tx, TransactionOK(tx)
  PROVE  TransactionOK(tx)'
BY MessageStays DEF TransactionOK

\* The message being handled, when the next one is handled or none.
LEMMA MessageKept ==
  ASSUME HistoryLonger, MessageOK(msg), UNCHANGED msg \/ msg' = <<>> \/ (msg' = Tail(msg) /\ Checked)
  PROVE  MessageOK(msg)'
<1>1. ASSUME NEW m, MessageOK(m), msg' = m PROVE MessageOK(msg)'
  <2>1. MessageOK(m)'
    BY <1>1, MessageStays
  <2> QED
    BY <1>1, <2>1 DEF MessageOK, PairOK
<1>2. CASE UNCHANGED msg
  BY <1>1, <1>2
<1>3. CASE msg' = <<>>
  <2>1. MessageOK(<<>>)
    BY SmallSeqs DEF MessageOK
  <2> QED
    BY <1>1, <1>3, <2>1
<1>4. CASE msg' = Tail(msg) /\ Checked
  <2>1. msg # <<>> /\ Head(msg)[1].program = Head(msg)[2].program /\ IsSeq(msg)
    BY <1>4 DEF Checked, Instruction, MessageOK
  <2>2. /\ IsSeq(Tail(msg)) /\ Len(Tail(msg)) = Len(msg) - 1 /\ Head(msg) = msg[1]
        /\ \A i \in 1..Len(msg) - 1 : Tail(msg)[i] = msg[i + 1]
    BY <2>1, TailFacts
  <2>3. \A n \in DOMAIN msg : PairOK(msg[n])
    BY <2>1, <2>2 DEF MessageOK
  <2>4. DOMAIN msg = 1..Len(msg) /\ Len(msg) \in Nat /\ DOMAIN Tail(msg) = 1..Len(Tail(msg))
    BY <2>1, <2>2, SeqFacts
  <2>5. \A n \in DOMAIN Tail(msg) : PairOK(Tail(msg)[n])
    <3> TAKE n \in DOMAIN Tail(msg)
    <3>1. n \in 1..Len(msg) - 1 /\ n + 1 \in DOMAIN msg
      BY <2>2, <2>4
    <3> QED
      BY <2>2, <2>3, <3>1
  <2>6. MessageOK(Tail(msg))
    BY <2>2, <2>5 DEF MessageOK
  <2> QED
    BY <1>1, <1>4, <2>6
<1> QED
  BY <1>2, <1>3, <1>4

\* The transactions on the chain, when there are no new ones.
LEMMA PublishedKept ==
  ASSUME HistoryLonger, PublishedOK, UNCHANGED published
  PROVE  PublishedOK'
<1>1. IsSeq(published')
  BY DEF PublishedOK
<1>2. ASSUME NEW t \in DOMAIN published' PROVE TransactionOK(published[t].tx)'
  <2>1. PICK tx : tx = published[t].tx
    OBVIOUS
  <2>2. TransactionOK(tx)
    BY <2>1 DEF PublishedOK
  <2>3. TransactionOK(tx)' /\ tx = published'[t].tx
    BY <2>1, <2>2, TransactionStays
  <2> QED
    BY <2>3 DEF TransactionOK
<1> QED
  BY <1>1, <1>2 DEF PublishedOK

\* A transaction that handle_transaction receives.
LEMMA MessageReceived ==
  ASSUME HistoryOK, PublishedOK, handle_transaction
  PROVE  MessageOK(msg)'
<1>1. PICK t \in DOMAIN published :
        msg' = IF published[t].tx.readable /\ published[t].tx.logs # NoLogs
               THEN Zip(order_instructions(published[t].tx), parse_logs(published[t].tx.logs[1])) ELSE <<>>
  BY DEF handle_transaction
<1>2. HistoryLonger
  BY DEF handle_transaction, chain, HistoryLonger
<1>3. PICK m : m = msg'
  OBVIOUS
<1>4. MessageOK(m)
  <2>1. MessageOK(<<>>)
    BY SmallSeqs DEF MessageOK
  <2>2. TransactionOK(published[t].tx)
    BY DEF PublishedOK
  <2> QED
    BY <1>1, <1>3, <2>1, <2>2 DEF TransactionOK
<1>5. MessageOK(m)'
  BY <1>2, <1>4, MessageStays
<1> QED
  BY <1>3, <1>5 DEF MessageOK, PairOK

\* A new transaction.
LEMMA PublishedGrows ==
  ASSUME HistoryOK, PublishedOK, Publish
  PROVE  PublishedOK'
<1>1. Len(history) \in Nat /\ DOMAIN history = 1..Len(history)
  BY SeqFacts DEF HistoryOK
<1>2. Unpublished \in Nat /\ Unpublished >= 1
  <2> DEFINE K == {k \in DOMAIN history : \E t \in DOMAIN published : k \in published[t].ops}
  <2>1. K \subseteq 1..Len(history)
    BY <1>1
  <2>2. Unpublished = 1 + Cardinality(K)
    BY DEF Unpublished
  <2> HIDE DEF K
  <2>3. Cardinality(K) \in Nat
    BY <1>1, <2>1, CountOne
  <2> QED
    BY <2>2, <2>3
<1>3. PICK N, ops : N = Len(history) - Unpublished + 1 /\ ops = [n \in 1..N |-> Unpublished + n - 1]
  OBVIOUS
<1>4. PICK rec : /\ rec.tx \in {Plain(ops)} \cup Unusual(ops)
                 /\ published' = Append(published, rec)
  <2>1. CASE published' = Append(published, [ops |-> ToSet(ops), tx |-> Plain(ops)])
    <3>1. [ops |-> ToSet(ops), tx |-> Plain(ops)].tx = Plain(ops)
      OBVIOUS
    <3> QED
      BY <2>1, <3>1
  <2>2. CASE \E tx \in Unusual(ops) : published' = Append(published, [ops |-> ToSet(ops), tx |-> tx])
    <3>1. PICK tx \in Unusual(ops) : published' = Append(published, [ops |-> ToSet(ops), tx |-> tx])
      BY <2>2
    <3>2. [ops |-> ToSet(ops), tx |-> tx].tx = tx
      OBVIOUS
    <3> QED
      BY <3>1, <3>2
  <2> QED
    BY <1>3, <2>1, <2>2, Zenon DEF Publish
<1>5. ops # <<>> /\ UNCHANGED <<program, history>>
  BY <1>3, Zenon DEF Publish
<1>6. N >= 1
  <2> SUFFICES ASSUME ~(N >= 1) PROVE FALSE
    OBVIOUS
  <2>1. 1..N = 1..0
    BY <1>1, <1>2, <1>3
  <2>2. DOMAIN ops = 1..0 /\ ops = [n \in 1..0 |-> ops[n]]
    BY <1>3, <2>1
  <2>3. IsSeq(ops) /\ Len(ops) = 0
    BY <2>2, FunctionIsSeq
  <2> QED
    BY <1>5, <2>3, SeqFacts
<1>7. IsOps(ops)
  <2>1. N \in Nat /\ DOMAIN ops = 1..N /\ ops = [n \in 1..N |-> ops[n]]
    BY <1>1, <1>2, <1>3, <1>6
  <2>2. IsSeq(ops) /\ Len(ops) = N
    BY <2>1, FunctionIsSeq
  <2>3. \A n \in 1..N : ops[n] \in DOMAIN history
    BY <1>1, <1>2, <1>3
  <2> QED
    BY <1>6, <2>2, <2>3 DEF IsOps
<1>8. TransactionOK(rec.tx)
  BY <1>4, <1>7, TransactionsOK
<1>9. IsSeq(published) /\ HistoryLonger
  BY <1>5 DEF PublishedOK, HistoryLonger
<1>10. /\ IsSeq(published') /\ Len(published') = Len(published) + 1
       /\ \A t \in 1..Len(published) : published'[t] = published[t]
       /\ published'[Len(published) + 1] = rec
  BY <1>4, <1>9, AppendFacts
<1>11. /\ Len(published) \in Nat /\ DOMAIN published = 1..Len(published)
       /\ DOMAIN published' = 1..Len(published')
  BY <1>9, <1>10, SeqFacts
<1>12. ASSUME NEW t \in DOMAIN published' PROVE TransactionOK(published[t].tx)'
  <2>1. PICK tx : tx = published'[t].tx
    OBVIOUS
  <2>2. TransactionOK(tx)
    <3>1. CASE t \in 1..Len(published)
      BY <1>10, <1>11, <2>1, <3>1 DEF PublishedOK
    <3>2. CASE t = Len(published) + 1
      BY <1>8, <1>10, <2>1, <3>2
    <3> QED
      BY <1>10, <1>11, <3>1, <3>2
  <2>3. TransactionOK(tx)'
    BY <1>9, <2>2, TransactionStays
  <2> QED
    BY <2>1, <2>3 DEF TransactionOK, MessageOK, PairOK
<1> QED
  BY <1>10, <1>12 DEF PublishedOK

-----------------------------------------------------------------------------
(* The tables. *)

SaveStep(d, line) ==
  IF line[1] = "data" /\ line[2] = "ChangeLog"
  THEN gummyroll_change_log_event_to_database(d, line[3]) ELSE d

\* save_changelog_events, line by line.
LEMMA SaveSteps ==
  ASSUME NEW d, NEW lines, IsSeq(lines)
  PROVE  \E f : /\ f[0] = d /\ f[Len(lines)] = save_changelog_events(d, lines)
                /\ \A n \in 0 .. Len(lines)-1 : f[n + 1] = SaveStep(f[n], lines[n + 1])
<1> DEFINE N == Len(lines)
           Body(g, s) == IF s = {} THEN d ELSE SaveStep(g[s \ {Max(s)}], lines[Max(s)])
           S == {n \in 0..N : \E g : g = [s \in SUBSET (1..n) |-> Body(g, s)]}
           iter == CHOOSE g : g = [s \in SUBSET (1..N) |-> Body(g, s)]
<1>1. N \in Nat /\ DOMAIN lines = 1..N
  BY SeqFacts
<1>2. save_changelog_events(d, lines) = iter[1..N]
  BY <1>1 DEF save_changelog_events, FoldLeft, MapThenFoldSet, SaveStep
<1> HIDE DEF N
<1>3. 0 \in S
  <2> DEFINE g == [s \in SUBSET (1..0) |-> d]
  <2>1. SUBSET (1..0) = {{}}
    OBVIOUS
  <2>2. g = [s \in SUBSET (1..0) |-> Body(g, s)]
    BY <2>1
  <2> HIDE DEF g, Body
  <2> QED
    BY <1>1, <2>2
<1>4. ASSUME NEW n \in 0..N-1, n \in S PROVE n + 1 \in S
  <2>1. PICK g : g = [s \in SUBSET (1..n) |-> Body(g, s)]
    BY <1>4
  <2> DEFINE h == [s \in SUBSET (1..n+1) |-> Body(g, s)]
  <2>2. n \in Nat /\ n + 1 \in 0..N
    BY <1>1
  <2>3. ASSUME NEW s \in SUBSET (1..n) PROVE s \in SUBSET (1..n+1) /\ h[s] = g[s]
    <3>1. s \in SUBSET (1..n+1)
      BY <2>2
    <3> HIDE DEF Body
    <3> QED
      BY <2>1, <3>1
  <2>4. ASSUME NEW s \in SUBSET (1..n+1) PROVE Body(g, s) = Body(h, s)
    <3>1. CASE s # {}
      <4>1. s \ {Max(s)} \in SUBSET (1..n)
        BY <2>2, <3>1, MaxOfPrefix
      <4>2. h[s \ {Max(s)}] = g[s \ {Max(s)}]
        BY <2>3, <4>1
      <4> HIDE DEF h
      <4> QED
        BY <3>1, <4>2
    <3> QED
      BY <3>1
  <2> HIDE DEF Body
  <2>5. h = [s \in SUBSET (1..n+1) |-> Body(h, s)]
    BY <2>4
  <2> HIDE DEF h
  <2> QED
    BY <2>2, <2>5
<1>5. N \in S
  <2> HIDE DEF S
  <2>1. \A n \in 0..N : n \in S
    BY <1>1, <1>3, <1>4, Upwards
  <2> QED
    BY <1>1, <2>1
<1>6. iter = [s \in SUBSET (1..N) |-> Body(iter, s)]
  <2> HIDE DEF Body
  <2> QED
    BY <1>5
<1> HIDE DEF iter
<1> DEFINE f == [n \in 0..N |-> iter[1..n]]
<1>7. f[0] = d
  <2>1. 1..0 = {} /\ 1..0 \in SUBSET (1..N) /\ 0 \in 0..N
    BY <1>1
  <2> QED
    BY <1>6, <2>1
<1>8. f[N] = save_changelog_events(d, lines)
  BY <1>1, <1>2
<1>9. ASSUME NEW n \in 0..N-1 PROVE f[n + 1] = SaveStep(f[n], lines[n + 1])
  <2>1. /\ n \in Nat /\ n \in 0..N /\ n + 1 \in 0..N
        /\ 1..n+1 \in SUBSET (1..N) /\ 1..n+1 # {} /\ n + 1 \in 1..n+1
        /\ (1..n+1) \ {n + 1} = 1..n
    BY <1>1
  <2>2. Max(1..n+1) = n + 1
    BY <2>1, MaxOfPrefix
  <2>3. iter[1..n+1] = Body(iter, 1..n+1)
    <3> HIDE DEF Body
    <3> QED
      BY <1>6, <2>1
  <2>4. iter[1..n+1] = SaveStep(iter[1..n], lines[n + 1])
    BY <2>1, <2>2, <2>3
  <2> QED
    BY <2>1, <2>4
<1> HIDE DEF f
<1> QED
  BY <1>7, <1>8, <1>9 DEF N

\* The nodes of the path of instruction k, and the row each has in its change log.
PathNode(k, lvl) == NodeAt(lvl, Ancestor(history[k].index, lvl))
PathNodes(k) == {PathNode(k, lvl) : lvl \in 0..MAX_DEPTH}
PathRow(k, lvl) == [hash |-> history[k].path[lvl], seq |-> history[k].seq, level |-> lvl]

\* Nodes at different places have different indices.
LEMMA PathNodeAt ==
  ASSUME HistoryOK, NEW k \in DOMAIN history, NEW lvl \in 0..MAX_DEPTH, NEW p \in Positions(lvl),
         NEW l \in 0..MAX_DEPTH, PathNode(k, l) = NodeAt(lvl, p)
  PROVE  l = lvl /\ Ancestor(history[k].index, lvl) = p
<1>1. history[k].index \in LeafIndices
  BY DEF HistoryOK
<1>2. Ancestor(history[k].index, l) \in Positions(l)
  BY <1>1, AncestorInTree
<1>3. NodeAt(l, Ancestor(history[k].index, l)) = NodeAt(lvl, p)
  BY DEF PathNode
<1> QED
  BY <1>2, <1>3, NodeAtUnique

\* One change log is saved.
LEMMA RowsSaved ==
  ASSUME HistoryOK, NEW d, IsDb(d), NEW k \in DOMAIN history
  PROVE  LET e == gummyroll_change_log_event_to_database(d, k)
         IN  /\ IsDb(e) /\ e.asset = d.asset
             /\ DOMAIN e.cl_items = DOMAIN d.cl_items \cup PathNodes(k)
             /\ \A n \in DOMAIN e.cl_items : n \notin PathNodes(k) => e.cl_items[n] = d.cl_items[n]
             /\ \A lvl \in 0..MAX_DEPTH :
                  e.cl_items[PathNode(k, lvl)] = IF Upserted(d.cl_items, PathNode(k, lvl), history[k].seq)
                                                 THEN PathRow(k, lvl) ELSE d.cl_items[PathNode(k, lvl)]
<1> DEFINE op == history[k]
           NodeIdx(lvl) == 2^(MAX_DEPTH - lvl) + op.index \div 2^lvl
           rows == [n \in {NodeIdx(lvl) : lvl \in 0..MAX_DEPTH} |->
                      LET lvl == CHOOSE l \in 0..MAX_DEPTH : NodeIdx(l) = n
                      IN  [hash |-> op.path[lvl], seq |-> op.seq, level |-> lvl]]
           force_chk == d.backfill_items = EmptyBag /\ op.seq > 1
           bag == d.backfill_items (+) SetToBag({[seq |-> op.seq, force_chk |-> force_chk]})
           items == [n \in DOMAIN d.cl_items \cup DOMAIN rows |->
                       IF n \in DOMAIN rows /\ Upserted(d.cl_items, n, op.seq) THEN rows[n] ELSE d.cl_items[n]]
           e == gummyroll_change_log_event_to_database(d, k)
<1>1. e = [d EXCEPT !.cl_items = items, !.backfill_items = bag]
  BY DEF gummyroll_change_log_event_to_database
<1>2. d = [cl_items |-> d.cl_items, backfill_items |-> d.backfill_items, asset |-> d.asset]
  BY DEF IsDb
<1> HIDE DEF items, bag, e
<1>3. e = [cl_items |-> items, backfill_items |-> bag, asset |-> d.asset]
  BY <1>1, <1>2
<1>4. e.cl_items = items /\ e.asset = d.asset /\ IsDb(e)
  BY <1>3 DEF IsDb
<1>5. \A lvl : NodeIdx(lvl) = PathNode(k, lvl)
  BY DEF PathNode, NodeAt, Width, Ancestor
<1>6. DOMAIN rows = PathNodes(k)
  BY <1>5 DEF PathNodes
<1>7. ASSUME NEW lvl \in 0..MAX_DEPTH PROVE rows[PathNode(k, lvl)] = PathRow(k, lvl)
  <2>1. PICK n : n = PathNode(k, lvl)
    OBVIOUS
  <2>2. Ancestor(history[k].index, lvl) \in Positions(lvl)
    BY AncestorInTree DEF HistoryOK
  <2>3. \A l \in 0..MAX_DEPTH : PathNode(k, l) = n => l = lvl
    BY <2>1, <2>2, PathNodeAt DEF PathNode
  <2> DEFINE at == CHOOSE l \in 0..MAX_DEPTH : NodeIdx(l) = n
  <2>4. at = lvl
    <3>1. at \in 0..MAX_DEPTH /\ NodeIdx(at) = n
      <4>1. \E l \in 0..MAX_DEPTH : NodeIdx(l) = n
        BY <1>5, <2>1
      <4> HIDE DEF NodeIdx
      <4> QED
        BY <4>1
    <3> HIDE DEF at
    <3> QED
      BY <1>5, <2>3, <3>1
  <2>5. n \in {NodeIdx(l) : l \in 0..MAX_DEPTH}
    BY <1>5, <2>1
  <2>6. rows[n] = [hash |-> op.path[at], seq |-> op.seq, level |-> at]
    <3> HIDE DEF NodeIdx
    <3> QED
      BY <2>5
  <2> HIDE DEF at, rows
  <2> QED
    BY <2>1, <2>4, <2>6 DEF PathRow
<1> HIDE DEF rows
<1>8. /\ DOMAIN items = DOMAIN d.cl_items \cup PathNodes(k)
      /\ \A n \in DOMAIN items : n \notin PathNodes(k) => items[n] = d.cl_items[n]
      /\ \A n \in PathNodes(k) : items[n] = IF Upserted(d.cl_items, n, op.seq) THEN rows[n] ELSE d.cl_items[n]
  BY <1>6 DEF items
<1>9. \A lvl \in 0..MAX_DEPTH : PathNode(k, lvl) \in PathNodes(k)
  BY DEF PathNodes
<1>10. \A lvl \in 0..MAX_DEPTH :
         items[PathNode(k, lvl)] = IF Upserted(d.cl_items, PathNode(k, lvl), op.seq)
                                   THEN PathRow(k, lvl) ELSE d.cl_items[PathNode(k, lvl)]
  BY <1>7, <1>8, <1>9
<1> QED
  BY <1>4, <1>8, <1>10 DEF e

\* Which of the instructions touch a node.
LEMMA TouchingFacts ==
  ASSUME HistoryOK, NEW ks, ks \subseteq ChangeLogNumbers
  PROVE  /\ \A n : TouchingOf(ks, n) = {k \in ks : n \in PathNodes(k)}
         /\ \A n : TouchingOf(ks, n) \subseteq 1..Len(history)
         /\ \A n : TouchingOf(ks, n) # {} =>
              /\ Max(TouchingOf(ks, n)) \in TouchingOf(ks, n)
              /\ \A k \in TouchingOf(ks, n) : k <= Max(TouchingOf(ks, n))
         /\ ks \subseteq 1..Len(history) /\ Len(history) \in Nat
<1>1. Len(history) \in Nat /\ DOMAIN history = 1..Len(history)
  BY SeqFacts DEF HistoryOK
<1>2. \A n : TouchingOf(ks, n) = {k \in ks : n \in PathNodes(k)}
  BY DEF TouchingOf, PathNodes, PathNode
<1>3. ks \subseteq 1..Len(history)
  BY <1>1 DEF ChangeLogNumbers
<1>4. ASSUME NEW n PROVE TouchingOf(ks, n) \subseteq 1..Len(history)
  BY <1>2, <1>3
<1>5. ASSUME NEW n, TouchingOf(ks, n) # {}
      PROVE  /\ Max(TouchingOf(ks, n)) \in TouchingOf(ks, n)
             /\ \A k \in TouchingOf(ks, n) : k <= Max(TouchingOf(ks, n))
  <2>1. TouchingOf(ks, n) \in SUBSET (0..Len(history))
    BY <1>1, <1>4
  <2> QED
    BY <1>1, <1>5, <2>1, MaxIs
<1> QED
  BY <1>1, <1>2, <1>3, <1>4, <1>5

\* The rows stay the newest when one more change log is saved, the number of which
\* may be lower than, the same as or higher than that of any saved before.
LEMMA SaveOne ==
  ASSUME HistoryOK, SeqsGrow, NEW d, NEW ks, Newest(d, ks), NEW k \in ChangeLogNumbers
  PROVE  LET e == gummyroll_change_log_event_to_database(d, k)
         IN  Newest(e, ks \cup {k}) /\ e.asset = d.asset
<1>1. PICK e, kt : e = gummyroll_change_log_event_to_database(d, k) /\ kt = ks \cup {k}
  OBVIOUS
<1>2. k \in DOMAIN history /\ IsDb(d) /\ ks \subseteq ChangeLogNumbers /\ kt \subseteq ChangeLogNumbers
  BY <1>1 DEF ChangeLogNumbers, Newest
<1>3. /\ IsDb(e) /\ e.asset = d.asset
      /\ DOMAIN e.cl_items = DOMAIN d.cl_items \cup PathNodes(k)
      /\ \A n \in DOMAIN e.cl_items : n \notin PathNodes(k) => e.cl_items[n] = d.cl_items[n]
      /\ \A lvl \in 0..MAX_DEPTH :
           e.cl_items[PathNode(k, lvl)] = IF Upserted(d.cl_items, PathNode(k, lvl), history[k].seq)
                                          THEN PathRow(k, lvl) ELSE d.cl_items[PathNode(k, lvl)]
  BY <1>1, <1>2, RowsSaved
<1>4. /\ \A n : TouchingOf(ks, n) = {j \in ks : n \in PathNodes(j)}
      /\ \A n : TouchingOf(ks, n) \subseteq 1..Len(history)
      /\ \A n : TouchingOf(ks, n) # {} =>
           /\ Max(TouchingOf(ks, n)) \in TouchingOf(ks, n)
           /\ \A j \in TouchingOf(ks, n) : j <= Max(TouchingOf(ks, n))
      /\ ks \subseteq 1..Len(history) /\ Len(history) \in Nat
  BY <1>2, TouchingFacts
<1>5. \A n : TouchingOf(kt, n) = {j \in kt : n \in PathNodes(j)}
  BY <1>2, TouchingFacts
<1>6. ASSUME NEW n PROVE TouchingOf(kt, n) = IF n \in PathNodes(k) THEN TouchingOf(ks, n) \cup {k} ELSE TouchingOf(ks, n)
  BY <1>1, <1>4, <1>5
<1>7. \A n \in DOMAIN e.cl_items : TouchingOf(kt, n) # {}
  BY <1>3, <1>6 DEF Newest
<1>8. DOMAIN history = 1..Len(history)
  BY SeqFacts DEF HistoryOK
<1>9. ASSUME NEW lvl \in 0..MAX_DEPTH, NEW p \in Positions(lvl), TouchingOf(kt, NodeAt(lvl, p)) # {}
      PROVE  /\ NodeAt(lvl, p) \in DOMAIN e.cl_items
             /\ e.cl_items[NodeAt(lvl, p)] = PathRow(Max(TouchingOf(kt, NodeAt(lvl, p))), lvl)
  <2>1. PICK n, T : n = NodeAt(lvl, p) /\ T = TouchingOf(ks, n)
    OBVIOUS
  <2>2. T # {} => n \in DOMAIN d.cl_items /\ d.cl_items[n] = PathRow(Max(T), lvl)
    BY <2>1 DEF Newest, PathRow
  <2>3. n \in DOMAIN d.cl_items => T # {}
    BY <2>1 DEF Newest
  <2>4. CASE n \notin PathNodes(k)
    <3>1. TouchingOf(kt, n) = T
      BY <1>6, <2>1, <2>4
    <3> QED
      BY <1>3, <1>9, <2>1, <2>2, <2>4, <3>1
  <2>5. CASE n \in PathNodes(k)
    <3>1. PICK l \in 0..MAX_DEPTH : n = PathNode(k, l)
      BY <2>5 DEF PathNodes
    <3>2. n = PathNode(k, lvl)
      BY <1>2, <2>1, <3>1, PathNodeAt
    <3>3. PICK U : U = T \cup {k}
      OBVIOUS
    <3>4. TouchingOf(kt, n) = U /\ n \in DOMAIN e.cl_items
      BY <1>3, <1>6, <2>1, <2>5, <3>3
    <3>5. e.cl_items[n] = IF Upserted(d.cl_items, n, history[k].seq) THEN PathRow(k, lvl) ELSE d.cl_items[n]
      BY <1>3, <3>2
    <3>6. T \subseteq 1..Len(history) /\ k \in 1..Len(history) /\ U \in SUBSET Nat
      BY <1>2, <1>4, <1>8, <2>1, <3>3
    <3>7. CASE T = {}
      <4>1. Upserted(d.cl_items, n, history[k].seq)
        BY <2>3, <3>7 DEF Upserted
      <4>2. Max(U) = k
        BY <3>3, <3>6, <3>7, MaxUnique
      <4> QED
        BY <2>1, <3>4, <3>5, <4>1, <4>2
    <3>8. CASE T # {}
      <4>1. PICK m : m = Max(T)
        OBVIOUS
      <4>2. m \in T /\ \A j \in T : j <= m
        BY <1>4, <2>1, <3>8, <4>1
      <4>3. d.cl_items[n] = PathRow(m, lvl) /\ n \in DOMAIN d.cl_items
        BY <2>2, <3>8, <4>1
      <4>4. d.cl_items[n].seq = history[m].seq
        BY <4>3 DEF PathRow
      <4>5. m \in ChangeLogNumbers /\ m \in DOMAIN history /\ k \in DOMAIN history
        BY <1>2, <1>4, <2>1, <4>2 DEF ChangeLogNumbers
      <4>6. history[m].seq \in Nat /\ history[k].seq \in Nat
        BY <4>5 DEF HistoryOK
      <4>7. CASE m < k
        <5>1. history[m].seq < history[k].seq
          BY <4>5, <4>7 DEF SeqsGrow, ChangeLogNumbers
        <5>2. Upserted(d.cl_items, n, history[k].seq)
          BY <4>4, <4>6, <5>1 DEF Upserted
        <5>3. k \in U /\ \A j \in U : j <= k
          BY <3>3, <3>6, <4>2, <4>7
        <5>4. Max(U) = k
          BY <3>6, <5>3, MaxUnique
        <5> QED
          BY <2>1, <3>4, <3>5, <5>2, <5>4
      <4>8. CASE ~(m < k)
        <5>1. history[k].seq <= history[m].seq
          <6>1. m = k \/ k < m
            BY <3>6, <4>2, <4>8
          <6>2. k < m => history[k].seq < history[m].seq
            BY <4>5 DEF SeqsGrow, ChangeLogNumbers
          <6> QED
            BY <4>6, <6>1, <6>2
        <5>2. ~Upserted(d.cl_items, n, history[k].seq)
          BY <4>3, <4>4, <4>6, <5>1 DEF Upserted
        <5>3. m \in U /\ \A j \in U : j <= m
          BY <3>3, <3>6, <4>2, <4>8
        <5>4. Max(U) = m
          BY <3>6, <5>3, MaxUnique
        <5> QED
          BY <2>1, <3>4, <3>5, <4>3, <5>2, <5>4
      <4> QED
        BY <4>7, <4>8
    <3> QED
      BY <3>7, <3>8
  <2> QED
    BY <2>4, <2>5
<1>10. Newest(e, kt)
  BY <1>2, <1>3, <1>7, <1>9 DEF Newest, PathRow
<1> QED
  BY <1>1, <1>3, <1>10

\* The change logs among the lines of an instruction.
LEMMA SaveAll ==
  ASSUME HistoryOK, SeqsGrow, NEW d, NEW ks, Newest(d, ks), NEW lines, IsSeq(lines),
         get_gummy_roll_events(lines) \subseteq ChangeLogNumbers
  PROVE  LET e == save_changelog_events(d, lines)
         IN  Newest(e, ks \cup get_gummy_roll_events(lines)) /\ e.asset = d.asset
<1>1. PICK f : /\ f[0] = d /\ f[Len(lines)] = save_changelog_events(d, lines)
               /\ \A n \in 0 .. Len(lines)-1 : f[n + 1] = SaveStep(f[n], lines[n + 1])
  BY SaveSteps
<1>2. Len(lines) \in Nat /\ DOMAIN lines = 1..Len(lines)
  BY SeqFacts
<1> DEFINE Logged(m) == lines[m][1] = "data" /\ lines[m][2] = "ChangeLog"
           First(n) == {lines[m][3] : m \in {i \in 1..n : Logged(i)}}
           S == {n \in 0..Len(lines) : Newest(f[n], ks \cup First(n)) /\ f[n].asset = d.asset}
<1>3. get_gummy_roll_events(lines) = First(Len(lines))
  BY <1>2 DEF get_gummy_roll_events, EventsOfType, filter_events_from_logs
<1>4. 0 \in S
  <2>1. ks \cup First(0) = ks
    OBVIOUS
  <2> HIDE DEF First
  <2>2. Newest(f[0], ks \cup First(0)) /\ f[0].asset = d.asset
    BY <1>1, <2>1
  <2>3. 0 \in 0..Len(lines)
    BY <1>2
  <2> QED
    BY <2>2, <2>3
<1>5. ASSUME NEW n \in 0..Len(lines)-1, n \in S PROVE n + 1 \in S
  <2>1. n + 1 \in 0..Len(lines) /\ f[n + 1] = SaveStep(f[n], lines[n + 1]) /\ n + 1 \in 1..Len(lines)
    BY <1>1, <1>2
  <2>2. Newest(f[n], ks \cup First(n)) /\ f[n].asset = d.asset
    BY <1>5
  <2>3. \A i : i \in 1..n+1 <=> (i \in 1..n \/ i = n + 1)
    BY <1>2
  <2>4. CASE Logged(n + 1)
    <3>1. PICK k : k = lines[n + 1][3]
      OBVIOUS
    <3>2. First(n + 1) = First(n) \cup {k}
      <4> HIDE DEF Logged
      <4> QED
        BY <2>3, <2>4, <3>1
    <3>3. k \in ChangeLogNumbers
      BY <1>3, <2>1, <2>4, <3>1
    <3>4. f[n + 1] = gummyroll_change_log_event_to_database(f[n], k)
      BY <2>1, <2>4, <3>1 DEF SaveStep
    <3> HIDE DEF First
    <3>5. PICK g, kt : g = f[n] /\ kt = ks \cup First(n)
      OBVIOUS
    <3>6. Newest(g, kt) /\ g.asset = d.asset
      BY <2>2, <3>5
    <3>7. Newest(f[n + 1], kt \cup {k}) /\ f[n + 1].asset = g.asset
      BY <3>3, <3>4, <3>5, <3>6, SaveOne
    <3>8. ks \cup First(n + 1) = kt \cup {k}
      BY <3>2, <3>5
    <3> QED
      BY <2>1, <3>6, <3>7, <3>8
  <2>5. CASE ~Logged(n + 1)
    <3>1. First(n + 1) = First(n)
      <4> HIDE DEF Logged
      <4> QED
        BY <2>3, <2>5
    <3>2. f[n + 1] = f[n]
      BY <2>1, <2>5 DEF SaveStep
    <3> HIDE DEF First
    <3> QED
      BY <2>1, <2>2, <3>1, <3>2
  <2> QED
    BY <2>4, <2>5
<1>6. Len(lines) \in S
  <2> HIDE DEF S
  <2>1. \A n \in 0..Len(lines) : n \in S
    BY <1>2, <1>4, <1>5, Upwards
  <2> QED
    BY <1>2, <2>1
<1> HIDE DEF First
<1> QED
  BY <1>1, <1>3, <1>6

\* The rows of before are still the newest when the chain goes on.
LEMMA NewestStays ==
  ASSUME HistoryOK, HistoryLonger, NEW d, NEW ks, Newest(d, ks)
  PROVE  Newest(d, ks)'
<1>1. \A k \in DOMAIN history : k \in DOMAIN history' /\ history'[k] = history[k]
  BY DEF HistoryLonger
<1>2. ks \subseteq ChangeLogNumbers /\ IsDb(d)
  BY DEF Newest
<1>3. \A k \in ks : k \in DOMAIN history /\ history'[k] = history[k]
  BY <1>1, <1>2 DEF ChangeLogNumbers
<1>4. (ks \subseteq ChangeLogNumbers)' /\ IsDb(d)'
  BY <1>1, <1>2, <1>3 DEF ChangeLogNumbers, IsDb
<1>5. \A n : TouchingOf(ks, n)' = TouchingOf(ks, n)
  BY <1>3 DEF TouchingOf, NodeAt, Width, Ancestor
<1>6. \A n : TouchingOf(ks, n) # {} => Max(TouchingOf(ks, n)) \in ks
  <2>1. \A n : TouchingOf(ks, n) \subseteq ks
    BY DEF TouchingOf
  <2>2. \A n : TouchingOf(ks, n) # {} => Max(TouchingOf(ks, n)) \in TouchingOf(ks, n)
    BY <1>2, TouchingFacts
  <2> QED
    BY <2>1, <2>2
<1>7. \A n : TouchingOf(ks, n) # {} => history'[Max(TouchingOf(ks, n))] = history[Max(TouchingOf(ks, n))]
  BY <1>3, <1>6
<1>8. \A lvl, p : NodeAt(lvl, p)' = NodeAt(lvl, p) /\ Positions(lvl)' = Positions(lvl)
  BY DEF NodeAt, Width, Positions
<1>9. \A n \in DOMAIN d.cl_items : TouchingOf(ks, n)' # {}
  BY <1>5 DEF Newest
<1>10. ASSUME NEW lvl \in 0..MAX_DEPTH, NEW p \in Positions(lvl), TouchingOf(ks, NodeAt(lvl, p)) # {}
       PROVE  LET last == history'[Max(TouchingOf(ks, NodeAt(lvl, p)))]
              IN  /\ NodeAt(lvl, p) \in DOMAIN d.cl_items
                  /\ d.cl_items[NodeAt(lvl, p)] = [hash |-> last.path[lvl], seq |-> last.seq, level |-> lvl]
  <2>1. history'[Max(TouchingOf(ks, NodeAt(lvl, p)))] = history[Max(TouchingOf(ks, NodeAt(lvl, p)))]
    BY <1>7, <1>10
  <2> QED
    BY <1>10, <2>1 DEF Newest
<1> QED
  BY <1>4, <1>5, <1>8, <1>9, <1>10 DEF Newest

-----------------------------------------------------------------------------
(* The handlers. *)

\* The instruction being handled, its logs checked to be of the same program, finds
\* no event but its own.
LEMMA OwnEvents ==
  ASSUME HistoryOK, MessageOK(msg), Checked, Instruction.program = program
  PROVE  /\ Instruction.op \in DOMAIN history /\ IsSeq(Lines)
         /\ get_gummy_roll_events(Lines) \subseteq {Instruction.op} \cap ChangeLogNumbers
         /\ \A event : HasBubblegumEvent(Lines, event) =>
              /\ LastOfType(Lines, event) = Instruction.op
              /\ event \in ToSet(EventsOf(history[Instruction.op].ix))
<1>1. msg # <<>> /\ Head(msg)[1].program = Head(msg)[2].program /\ IsSeq(msg)
  BY DEF Checked, Instruction, MessageOK
<1>2. Head(msg) = msg[1] /\ 1 \in DOMAIN msg
  BY <1>1, TailFacts, SeqFacts
<1>3. PairOK(msg[1])
  BY <1>1, <1>2 DEF MessageOK
<1>4. PICK k, lines : k = Instruction.op /\ lines = Lines
  OBVIOUS
<1>5. /\ k \in DOMAIN history /\ IsSeq(lines)
      /\ \A n \in DOMAIN lines :
           lines[n][1] = "data" => lines[n][3] = k /\ lines[n][2] \in ToSet(EventsOf(history[k].ix))
  BY <1>2, <1>3, <1>4 DEF PairOK, Instruction, Lines
<1>6. Len(lines) \in Nat /\ DOMAIN lines = 1..Len(lines)
  BY <1>5, SeqFacts
<1>7. \A event : \A n \in EventsOfType(lines, event) :
        n \in DOMAIN lines /\ lines[n][3] = k /\ event \in ToSet(EventsOf(history[k].ix))
  BY <1>5 DEF EventsOfType, filter_events_from_logs
<1>8. get_gummy_roll_events(lines) \subseteq {k} \cap ChangeLogNumbers
  <2> SUFFICES ASSUME NEW n \in EventsOfType(lines, "ChangeLog") PROVE lines[n][3] \in {k} \cap ChangeLogNumbers
    BY DEF get_gummy_roll_events
  <2>1. lines[n][3] = k /\ "ChangeLog" \in ToSet(EventsOf(history[k].ix))
    BY <1>7
  <2>2. history[k].ix # "DecompressV1"
    BY <2>1, EventsFacts
  <2> QED
    BY <1>5, <2>1, <2>2 DEF ChangeLogNumbers
<1>9. ASSUME NEW event, HasBubblegumEvent(lines, event)
      PROVE  LastOfType(lines, event) = k /\ event \in ToSet(EventsOf(history[k].ix))
  <2>1. EventsOfType(lines, event) # {}
    BY <1>9 DEF HasBubblegumEvent
  <2>2. EventsOfType(lines, event) \in SUBSET (0..Len(lines))
    BY <1>6, <1>7
  <2>3. Max(EventsOfType(lines, event)) \in EventsOfType(lines, event)
    BY <1>6, <2>1, <2>2, MaxIs
  <2> QED
    BY <1>7, <2>3 DEF LastOfType
<1> QED
  BY <1>4, <1>5, <1>8, <1>9

\* A handler for Bubblegum's instructions is called for one that is not the first.
LEMMA HandledOp ==
  ASSUME HistoryOK, LeavesOK, MessageOK(msg), NEW ix \in BubblegumOps, Handling(ix),
         NEW event, HasBubblegumEvent(Lines, event)
  PROVE  LET k == Instruction.op
         IN  /\ program = "bubblegum" /\ k \in 2..Len(history) /\ k \in DOMAIN history
             /\ history[k].ix = ix /\ k \in OnLeaf(history[k].index)
             /\ history[k].index \in LeafIndices
             /\ history[k].schema \in Schemas /\ history[k].schema.nonce = history[k].index
             /\ history[k].path[0] = LeafAfter(history[k])
             /\ history[k].ix = "Transfer" => history[k].schema.delegate = history[k].schema.owner
             /\ LastOfType(Lines, event) = k /\ Emitted(event) = history[k].schema
             /\ IsSeq(Lines) /\ get_gummy_roll_events(Lines) \subseteq {k} \cap ChangeLogNumbers
<1>1. Checked /\ Instruction.program = program /\ history[Instruction.op].ix = ix
  BY DEF Handling
<1>2. PICK k : k = Instruction.op
  OBVIOUS
<1>3. /\ k \in DOMAIN history /\ IsSeq(Lines) /\ LastOfType(Lines, event) = k
      /\ get_gummy_roll_events(Lines) \subseteq {k} \cap ChangeLogNumbers
  BY <1>1, <1>2, OwnEvents
<1>4. Len(history) \in Nat /\ DOMAIN history = 1..Len(history)
  BY SeqFacts DEF HistoryOK
<1>5. k # 1
  BY <1>1, <1>2 DEF HistoryOK, BubblegumOps
<1>6. k \in 2..Len(history)
  BY <1>3, <1>4, <1>5
<1>7. program = "bubblegum"
  BY <1>1, <1>2, <1>6 DEF HistoryOK, BubblegumOps
<1>8. k \in OnLeaf(history[k].index) /\ history[k].index \in LeafIndices
  BY <1>3, <1>6 DEF OnLeaf, HistoryOK
<1>9. /\ history[k].schema \in Schemas /\ history[k].schema.nonce = history[k].index
      /\ history[k].path[0] = LeafAfter(history[k])
      /\ history[k].ix = "Transfer" => history[k].schema.delegate = history[k].schema.owner
  BY <1>6, <1>7 DEF LeavesOK
<1>10. Emitted(event) = history[k].schema
  BY <1>3 DEF Emitted, get_bubblegum_event
<1> QED
  BY <1>1, <1>2, <1>3, <1>6, <1>7, <1>8, <1>9, <1>10

\* The tables that a committed handler leaves.
LEMMA UpdatedFacts ==
  ASSUME HistoryOK, SeqsGrow, Newest(db, saved), IsSeq(Lines),
         get_gummy_roll_events(Lines) \subseteq ChangeLogNumbers, NEW id, NEW row
  PROVE  /\ Newest(Updated(id, row), saved \cup get_gummy_roll_events(Lines))
         /\ DOMAIN Updated(id, row).asset = DOMAIN db.asset \cup {id}
         /\ \A i \in DOMAIN db.asset \cup {id} : Updated(id, row).asset[i] = IF i = id THEN row ELSE db.asset[i]
         /\ Updated(id, row).asset = [i \in DOMAIN Updated(id, row).asset |-> Updated(id, row).asset[i]]
<1>1. PICK e, ks : e = save_changelog_events(db, Lines) /\ ks = saved \cup get_gummy_roll_events(Lines)
  OBVIOUS
<1>2. Newest(e, ks) /\ e.asset = db.asset
  BY <1>1, SaveAll
<1>3. PICK asset : asset = [i \in DOMAIN db.asset \cup {id} |-> IF i = id THEN row ELSE db.asset[i]]
  OBVIOUS
<1>4. e = [cl_items |-> e.cl_items, backfill_items |-> e.backfill_items, asset |-> e.asset]
  BY <1>2 DEF Newest, IsDb
<1>5. PICK u : u = Updated(id, row)
  OBVIOUS
<1>6. u = [e EXCEPT !.asset = asset]
  BY <1>1, <1>2, <1>3, <1>5 DEF Updated
<1>7. u = [cl_items |-> e.cl_items, backfill_items |-> e.backfill_items, asset |-> asset]
  BY <1>4, <1>6
<1>8. u.cl_items = e.cl_items /\ u.asset = asset /\ IsDb(u)
  BY <1>7 DEF IsDb
<1>9. Newest(u, ks)
  BY <1>2, <1>8 DEF Newest
<1>10. /\ DOMAIN u.asset = DOMAIN db.asset \cup {id}
       /\ \A i \in DOMAIN db.asset \cup {id} : u.asset[i] = IF i = id THEN row ELSE db.asset[i]
       /\ u.asset = [i \in DOMAIN u.asset |-> u.asset[i]]
  BY <1>3, <1>8
<1> QED
  BY <1>1, <1>5, <1>9, <1>10

\* The row of an asset shows what an instruction left.
Shows(row, op) ==
  /\ row.owner = op.schema.owner
  /\ (IF row.delegate = NoKey THEN row.owner ELSE row.delegate) = op.schema.delegate
  /\ row.burnt = (op.ix = "Burn")
  /\ row.compressed = (op.ix # "DecompressV1")
  /\ op.ix # "Burn" => row.leaf = IF op.ix = "DecompressV1" THEN NULL ELSE <<op.path[0]>>

\* AssetsFollowChain says so of every asset that kept up.
LEMMA FollowingShows ==
  AssetsFollowChain <=> \A i \in DOMAIN db.asset : synced[i] # OutOfOrder => Shows(db.asset[i], history[synced[i]])
BY DEF AssetsFollowChain, Shows

\* The instruction that the row shows is the one before the instruction handled.
LEMMA RowContinued ==
  ASSUME HistoryOK, LeavesOK, AssetsOK, SyncedOK, AssetsFollowChain, program = "bubblegum",
         NEW k \in 2..Len(history), history[k].index \in DOMAIN db.asset,
         synced[history[k].index] # OutOfOrder, Follows(synced[history[k].index], k)
  PROVE  LET a == history[synced[history[k].index]]
         IN  Continues(a, history[k]) /\ Shows(db.asset[history[k].index], a)
<1>1. PICK i, j : i = history[k].index /\ j = synced[i]
  OBVIOUS
<1>2. i \in LeafIndices
  BY <1>1 DEF AssetsOK
<1>3. j \in {OutOfOrder, 0} \cup OnLeaf(i) /\ j # 0
  BY <1>1, <1>2 DEF SyncedOK
<1>4. j \in 2..Len(history) /\ history[j].index = i
  BY <1>1, <1>3 DEF OnLeaf
<1>5. Continues(history[j], history[k])
  BY <1>1, <1>4 DEF LeavesOK
<1>6. Shows(db.asset[i], history[j])
  BY <1>1, FollowingShows
<1> QED
  BY <1>1, <1>5, <1>6

TablesOK == Newest(db, saved) /\ AssetsOK /\ SyncedOK /\ AssetsFollowChain

\* A handler of Bubblegum's instructions commits.
LEMMA CommitKeeps ==
  ASSUME HistoryOK, SeqsGrow, LeavesOK, MessageOK(msg), TablesOK,
         NEW ix \in BubblegumOps, Handling(ix), NEW event, HasBubblegumEvent(Lines, event),
         NEW row \in Rows, UNCHANGED chain,
         db' = Updated(Emitted(event).nonce, row),
         saved' = saved \cup get_gummy_roll_events(Lines),
         Progress(LastOfType(Lines, event)),
         tasks' \in Seq(LeafIndices),
         LET k == Instruction.op
             i == history[k].index
         IN  synced[i] # OutOfOrder /\ Follows(synced[i], k) => Shows(row, history[k])
  PROVE  TablesOK'
<1>1. PICK k, i : k = Instruction.op /\ i = history[k].index
  OBVIOUS
<1>2. /\ program = "bubblegum" /\ k \in 2..Len(history) /\ k \in DOMAIN history
      /\ k \in OnLeaf(i) /\ i \in LeafIndices
      /\ history[k].schema.nonce = i
      /\ LastOfType(Lines, event) = k /\ Emitted(event) = history[k].schema
      /\ IsSeq(Lines) /\ get_gummy_roll_events(Lines) \subseteq {k} \cap ChangeLogNumbers
  BY <1>1, HandledOp
<1>3. program' = program /\ history' = history /\ LeafIndices' = LeafIndices
  BY DEF chain, LeafIndices
<1>4. PICK d, ks : d = Updated(i, row) /\ ks = saved \cup get_gummy_roll_events(Lines)
  OBVIOUS
<1>5. /\ Newest(d, ks)
      /\ DOMAIN d.asset = DOMAIN db.asset \cup {i}
      /\ \A j \in DOMAIN db.asset \cup {i} : d.asset[j] = IF j = i THEN row ELSE db.asset[j]
      /\ d.asset = [j \in DOMAIN d.asset |-> d.asset[j]]
  <2>1. IsSeq(Lines) /\ get_gummy_roll_events(Lines) \subseteq ChangeLogNumbers /\ Newest(db, saved)
    BY <1>2 DEF TablesOK
  <2>2. Newest(Updated(i, row), saved \cup get_gummy_roll_events(Lines))
    BY <2>1, UpdatedFacts
  <2>3. DOMAIN Updated(i, row).asset = DOMAIN db.asset \cup {i}
    BY <2>1, UpdatedFacts
  <2>4. \A j \in DOMAIN db.asset \cup {i} : Updated(i, row).asset[j] = IF j = i THEN row ELSE db.asset[j]
    BY <2>1, UpdatedFacts
  <2>5. Updated(i, row).asset = [j \in DOMAIN Updated(i, row).asset |-> Updated(i, row).asset[j]]
    BY <2>1, UpdatedFacts
  <2> QED
    BY <1>4, <2>2, <2>3, <2>4, <2>5
<1>6. db' = d /\ saved' = ks
  BY <1>2, <1>4
<1>7. Newest(db, saved)'
  <2>1. HistoryLonger
    BY <1>3 DEF HistoryLonger
  <2>2. Newest(d, ks)'
    BY <1>5, <2>1, NewestStays
  <2> QED
    BY <1>6, <2>2 DEF Newest, IsDb
<1>8. /\ DOMAIN db'.asset = DOMAIN db.asset \cup {i}
      /\ \A j \in DOMAIN db'.asset : db'.asset[j] = IF j = i THEN row ELSE db.asset[j]
      /\ db'.asset = [j \in DOMAIN db'.asset |-> db'.asset[j]]
  BY <1>5, <1>6
<1>9. AssetsOK'
  <2>1. DOMAIN db'.asset \subseteq LeafIndices
    BY <1>2, <1>8 DEF TablesOK, AssetsOK
  <2>2. Rows' = Rows /\ OutOfOrder' = OutOfOrder
    BY DEF Rows, Schemas, LeafIndices, OutOfOrder
  <2>3. \A j \in DOMAIN db.asset : db.asset[j] \in Rows
    BY DEF TablesOK, AssetsOK
  <2>4. \A j \in DOMAIN db'.asset : db'.asset[j] \in Rows
    BY <1>8, <2>3
  <2>5. db'.asset \in [DOMAIN db'.asset -> Rows]
    BY <1>8, <2>4
  <2>6. \A j \in saved' : j # 1 /\ history[j].index \in DOMAIN db'.asset
    <3> TAKE j \in saved'
    <3>1. CASE j \in saved
      BY <1>2, <1>8, <3>1 DEF TablesOK, AssetsOK
    <3>2. CASE j = k
      BY <1>1, <1>2, <1>8, <3>2
    <3> QED
      BY <1>2, <1>4, <1>6, <3>1, <3>2
  <2> QED
    BY <1>2, <1>3, <2>1, <2>2, <2>5, <2>6 DEF AssetsOK
<1>10. DOMAIN synced = LeafIndices
  BY DEF TablesOK, SyncedOK
<1>11. PICK at : at = IF synced[i] # OutOfOrder /\ Follows(synced[i], k) THEN k ELSE OutOfOrder
  OBVIOUS
<1>12. synced' = [synced EXCEPT ![i] = at]
  BY <1>1, <1>2, <1>11 DEF Progress
<1>13. DOMAIN synced' = LeafIndices /\ \A j \in LeafIndices : synced'[j] = IF j = i THEN at ELSE synced[j]
  BY <1>10, <1>12
<1>14. \A j : OnLeaf(j)' = OnLeaf(j)
  BY <1>3 DEF OnLeaf
<1>15. SyncedOK'
  <2>1. at \in {OutOfOrder} \cup OnLeaf(i) /\ at # 0
    BY <1>2, <1>11 DEF OutOfOrder
  <2>2. ASSUME NEW j \in LeafIndices
        PROVE  /\ synced'[j] \in {OutOfOrder, 0} \cup OnLeaf(j)
               /\ j \in DOMAIN db'.asset => synced'[j] # 0
    <3>1. CASE j = i
      BY <1>13, <2>1, <3>1
    <3>2. CASE j # i
      BY <1>8, <1>13, <3>2 DEF TablesOK, SyncedOK
    <3> QED
      BY <3>1, <3>2
  <2>3. OutOfOrder' = OutOfOrder
    BY DEF OutOfOrder
  <2> QED
    BY <1>3, <1>13, <1>14, <2>2, <2>3 DEF SyncedOK
<1>16. AssetsFollowChain'
  <2>1. ASSUME NEW j \in DOMAIN db'.asset, synced'[j] # OutOfOrder
        PROVE  Shows(db'.asset[j], history[synced'[j]])
    <3>0. j \in LeafIndices
      BY <1>2, <1>8 DEF TablesOK, AssetsOK
    <3>1. CASE j = i
      <4>1. synced'[j] = k /\ synced[i] # OutOfOrder /\ Follows(synced[i], k) /\ db'.asset[j] = row
        BY <1>8, <1>11, <1>13, <2>1, <3>0, <3>1
      <4>2. Shows(row, history[k])
        BY <1>1, <4>1
      <4> QED
        BY <4>1, <4>2
    <3>2. CASE j # i
      <4>1. j \in DOMAIN db.asset /\ db'.asset[j] = db.asset[j] /\ synced'[j] = synced[j]
        BY <1>8, <1>13, <3>0, <3>2
      <4>2. Shows(db.asset[j], history[synced[j]])
        BY <2>1, <4>1, FollowingShows DEF TablesOK
      <4> QED
        BY <4>1, <4>2
    <3> QED
      BY <3>1, <3>2
  <2>2. \A j \in DOMAIN db'.asset : synced'[j] # OutOfOrder => Shows(db'.asset[j], history'[synced'[j]])
    BY <1>3, <2>1
  <2> QED
    BY <2>2 DEF AssetsFollowChain, Shows, OutOfOrder, NULL
<1> QED
  BY <1>7, <1>9, <1>15, <1>16 DEF TablesOK

\* A step that leaves the tables as they are.
LEMMA TablesStay ==
  ASSUME HistoryOK, TablesOK, HistoryLonger, Len(history') \in Nat, Len(history') >= Len(history),
         UNCHANGED <<db, saved, synced>>, tasks' \in Seq(LeafIndices)
  PROVE  TablesOK'
<1>1. Newest(db, saved)'
  <2>1. PICK d, ks : d = db /\ ks = saved
    OBVIOUS
  <2>2. Newest(d, ks)
    BY <2>1 DEF TablesOK
  <2>3. Newest(d, ks)' /\ db' = d /\ saved' = ks
    BY <2>1, <2>2, NewestStays
  <2> QED
    BY <2>3 DEF Newest, IsDb
<1>2. /\ LeafIndices' = LeafIndices /\ Rows' = Rows /\ OutOfOrder' = OutOfOrder
      /\ program' = program /\ \A k \in DOMAIN history : history'[k] = history[k]
  BY DEF Rows, Schemas, LeafIndices, OutOfOrder, HistoryLonger
<1>3. saved \subseteq DOMAIN history
  BY DEF TablesOK, Newest, ChangeLogNumbers
<1>4. AssetsOK'
  BY <1>2, <1>3 DEF TablesOK, AssetsOK
<1>5. Len(history) \in Nat /\ DOMAIN history = 1..Len(history)
  BY SeqFacts DEF HistoryOK
<1>6. \A i : OnLeaf(i) \subseteq DOMAIN history /\ OnLeaf(i) \subseteq OnLeaf(i)'
  BY <1>2, <1>5 DEF OnLeaf
<1>7. SyncedOK'
  BY <1>2, <1>6 DEF TablesOK, SyncedOK
<1>8. AssetsFollowChain'
  <2>1. ASSUME NEW i \in DOMAIN db.asset, synced[i] # OutOfOrder PROVE Shows(db.asset[i], history'[synced[i]])
    <3>1. i \in LeafIndices
      BY DEF TablesOK, AssetsOK
    <3>2. synced[i] \in OnLeaf(i)
      BY <2>1, <3>1 DEF TablesOK, SyncedOK
    <3>3. Shows(db.asset[i], history[synced[i]])
      BY <2>1, FollowingShows DEF TablesOK
    <3> QED
      BY <1>2, <1>6, <3>2, <3>3
  <2> QED
    BY <2>1 DEF AssetsFollowChain, Shows, OutOfOrder, NULL
<1> QED
  BY <1>1, <1>4, <1>7, <1>8 DEF TablesOK

\* A failed handler.
LEMMA FailsKeeps ==
  ASSUME HistoryOK, TablesOK, Fails
  PROVE  TablesOK'
<1>1. HistoryLonger /\ history' = history /\ UNCHANGED <<db, saved, synced>> /\ tasks' = tasks
  BY DEF Fails, chain, ghosts, HistoryLonger
<1>2. Len(history) \in Nat /\ tasks \in Seq(LeafIndices)
  BY SeqFacts DEF HistoryOK, TablesOK, AssetsOK
<1>3. Len(history') \in Nat /\ Len(history') >= Len(history) /\ tasks' \in Seq(LeafIndices)
  BY <1>1, <1>2
<1> QED
  BY <1>1, <1>3, TablesStay

\* An update of an asset's row, whatever happens to the transaction.
LEMMA UpdatesKeep ==
  ASSUME HistoryOK, SeqsGrow, LeavesOK, MessageOK(msg), TablesOK,
         NEW ix \in BubblegumOps, NEW event, NEW row, UpdatesAsset(ix, event, row),
         HasBubblegumEvent(Lines, event) /\ Updatable(Emitted(event)) =>
           LET k == Instruction.op
               i == history[k].index
           IN  /\ row \in Rows
               /\ synced[i] # OutOfOrder /\ Follows(synced[i], k) => Shows(row, history[k])
  PROVE  TablesOK'
<1>1. CASE Fails
  BY <1>1, FailsKeeps
<1>2. CASE ~Fails
  <2>1. Handling(ix)
    BY DEF UpdatesAsset
  <2>2. /\ HasBubblegumEvent(Lines, event) /\ Updatable(Emitted(event))
        /\ db' = Updated(Emitted(event).nonce, row)
        /\ saved' = saved \cup get_gummy_roll_events(Lines)
        /\ Progress(LastOfType(Lines, event))
        /\ UNCHANGED chain /\ tasks' = tasks
    BY <1>2 DEF UpdatesAsset, Transacts
  <2>3. tasks' \in Seq(LeafIndices)
    BY <2>2 DEF TablesOK, AssetsOK
  <2>4. row \in Rows
    BY <2>2
  <2>5. LET k == Instruction.op
            i == history[k].index
        IN  synced[i] # OutOfOrder /\ Follows(synced[i], k) => Shows(row, history[k])
    BY <2>2
  <2> QED
    BY <2>1, <2>2, <2>3, <2>4, <2>5, CommitKeeps
<1> QED
  BY <1>1, <1>2

\* The rows that the handlers write.
LEMMA RowsWritten ==
  ASSUME NEW r \in Rows, NEW schema \in Schemas
  PROVE  /\ Transferred(r, schema) \in Rows /\ Delegated(r, schema) \in Rows
         /\ [r EXCEPT !.burnt = TRUE] \in Rows
         /\ [r EXCEPT !.leaf = <<EMPTY>>] \in Rows
         /\ [r EXCEPT !.leaf = <<to_node(schema)>>] \in Rows
         /\ [r EXCEPT !.leaf = NULL, !.compressed = FALSE] \in Rows
         /\ [r EXCEPT !.metadata = "done"] \in Rows
         /\ schema.owner \in Wallet /\ schema.delegate \in Wallet
<1> DEFINE Leaves == {NULL, <<EMPTY>>} \cup {<<to_node(s)>> : s \in Schemas}
<1>1. NULL \in Leaves /\ <<EMPTY>> \in Leaves /\ <<to_node(schema)>> \in Leaves
  OBVIOUS
<1>2. schema.owner \in Wallet /\ schema.delegate \in Wallet
  BY DEF Schemas
<1> HIDE DEF Leaves
<1>3. Rows = [owner : Wallet, delegate : Wallet \cup {NoKey}, leaf : Leaves,
              burnt : BOOLEAN, compressed : BOOLEAN, metadata : {"processing", "done"}]
  BY DEF Rows, Leaves
<1>4. PICK x, y, z : x = NULL /\ y = <<EMPTY>> /\ z = <<to_node(schema)>>
  OBVIOUS
<1>5. x \in Leaves /\ y \in Leaves /\ z \in Leaves
  BY <1>1, <1>4
<1>6. [r EXCEPT !.leaf = z, !.delegate = NoKey, !.owner = schema.owner] \in Rows
  BY <1>2, <1>3, <1>5
<1>7. [r EXCEPT !.leaf = z, !.delegate = schema.delegate] \in Rows
  BY <1>2, <1>3, <1>5
<1>8. [r EXCEPT !.burnt = TRUE] \in Rows /\ [r EXCEPT !.metadata = "done"] \in Rows
  BY <1>3
<1>9. [r EXCEPT !.leaf = y] \in Rows /\ [r EXCEPT !.leaf = z] \in Rows
  BY <1>3, <1>5
<1>10. [r EXCEPT !.leaf = x, !.compressed = FALSE] \in Rows
  BY <1>3, <1>5
<1> QED
  BY <1>2, <1>4, <1>6, <1>7, <1>8, <1>9, <1>10 DEF Transferred, Delegated

\* A row that shows the instruction before shows the next one after its update.
LEMMA ShowsNext ==
  ASSUME NEW r \in Rows, NEW a, NEW op, op.schema \in Schemas, op.path[0] = LeafAfter(op),
         Continues(a, op), Shows(r, a)
  PROVE  /\ op.ix = "Transfer" /\ op.schema.delegate = op.schema.owner => Shows(Transferred(r, op.schema), op)
         /\ op.ix = "Delegate" => Shows(Delegated(r, op.schema), op)
         /\ op.ix = "Burn" => Shows([r EXCEPT !.burnt = TRUE], op)
         /\ op.ix = "Redeem" => Shows([r EXCEPT !.leaf = <<EMPTY>>], op)
         /\ op.ix = "CancelRedeem" => Shows([r EXCEPT !.leaf = <<to_node(op.schema)>>], op)
         /\ op.ix = "DecompressV1" => Shows([r EXCEPT !.leaf = NULL, !.compressed = FALSE], op)
<1>1. PICK x, y, z, s : x = NULL /\ y = <<EMPTY>> /\ z = <<to_node(s)>> /\ s = op.schema
  OBVIOUS
<1>2. /\ r.owner = a.schema.owner
      /\ (IF r.delegate = NoKey THEN r.owner ELSE r.delegate) = a.schema.delegate
      /\ r.burnt = FALSE /\ r.compressed = TRUE
  BY DEF Shows, Continues
<1>3. s.owner \in Wallet /\ s.delegate \in Wallet /\ s.delegate # NoKey
  BY <1>1, WalletAssumption DEF Schemas
<1>4. PICK Leaves : Rows = [owner : Wallet, delegate : Wallet \cup {NoKey}, leaf : Leaves,
                            burnt : BOOLEAN, compressed : BOOLEAN, metadata : {"processing", "done"}]
  BY DEF Rows
<1>5. r = [owner |-> r.owner, delegate |-> r.delegate, leaf |-> r.leaf, burnt |-> r.burnt,
           compressed |-> r.compressed, metadata |-> r.metadata]
  BY <1>4
<1>6. ASSUME op.ix = "Transfer", s.delegate = s.owner PROVE Shows(Transferred(r, s), op)
  <2>1. <<op.path[0]>> = z
    BY <1>1, <1>6 DEF LeafAfter
  <2>2. PICK q : q = [r EXCEPT !.leaf = z, !.delegate = NoKey, !.owner = s.owner]
    OBVIOUS
  <2>3. q.owner = s.owner /\ q.delegate = NoKey /\ q.leaf = z /\ q.burnt = r.burnt /\ q.compressed = r.compressed
    BY <1>5, <2>2
  <2>4. Shows(q, op)
    BY <1>1, <1>2, <1>6, <2>1, <2>3 DEF Shows
  <2> QED
    BY <1>1, <2>2, <2>4 DEF Transferred
<1>7. ASSUME op.ix = "Delegate" PROVE Shows(Delegated(r, s), op)
  <2>1. <<op.path[0]>> = z /\ s.owner = a.schema.owner
    BY <1>1, <1>7 DEF LeafAfter, Continues
  <2>2. PICK q : q = [r EXCEPT !.leaf = z, !.delegate = s.delegate]
    OBVIOUS
  <2>3. q.owner = r.owner /\ q.delegate = s.delegate /\ q.leaf = z /\ q.burnt = r.burnt /\ q.compressed = r.compressed
    BY <1>5, <2>2
  <2>4. Shows(q, op)
    BY <1>1, <1>2, <1>3, <1>7, <2>1, <2>3 DEF Shows
  <2> QED
    BY <1>1, <2>2, <2>4 DEF Delegated
<1>8. ASSUME op.ix = "Burn" PROVE Shows([r EXCEPT !.burnt = TRUE], op)
  <2>1. op.schema = a.schema
    BY <1>8 DEF Continues
  <2>2. PICK q : q = [r EXCEPT !.burnt = TRUE]
    OBVIOUS
  <2>3. q.owner = r.owner /\ q.delegate = r.delegate /\ q.burnt = TRUE /\ q.compressed = r.compressed
    BY <1>5, <2>2
  <2> QED
    BY <1>2, <1>8, <2>1, <2>2, <2>3 DEF Shows
<1>9. ASSUME op.ix = "Redeem" PROVE Shows([r EXCEPT !.leaf = y], op)
  <2>1. op.schema = a.schema /\ <<op.path[0]>> = y
    BY <1>1, <1>9 DEF Continues, LeafAfter
  <2>2. PICK q : q = [r EXCEPT !.leaf = y]
    OBVIOUS
  <2>3. q.owner = r.owner /\ q.delegate = r.delegate /\ q.leaf = y /\ q.burnt = r.burnt /\ q.compressed = r.compressed
    BY <1>5, <2>2
  <2> QED
    BY <1>2, <1>9, <2>1, <2>2, <2>3 DEF Shows
<1>10. ASSUME op.ix = "CancelRedeem" PROVE Shows([r EXCEPT !.leaf = z], op)
  <2>1. op.schema = a.schema /\ <<op.path[0]>> = z
    BY <1>1, <1>10 DEF Continues, LeafAfter
  <2>2. PICK q : q = [r EXCEPT !.leaf = z]
    OBVIOUS
  <2>3. q.owner = r.owner /\ q.delegate = r.delegate /\ q.leaf = z /\ q.burnt = r.burnt /\ q.compressed = r.compressed
    BY <1>5, <2>2
  <2> QED
    BY <1>2, <1>10, <2>1, <2>2, <2>3 DEF Shows
<1>11. ASSUME op.ix = "DecompressV1" PROVE Shows([r EXCEPT !.leaf = x, !.compressed = FALSE], op)
  <2>1. op.schema = a.schema
    BY <1>11 DEF Continues
  <2>2. PICK q : q = [r EXCEPT !.leaf = x, !.compressed = FALSE]
    OBVIOUS
  <2>3. q.owner = r.owner /\ q.delegate = r.delegate /\ q.leaf = x /\ q.burnt = r.burnt /\ q.compressed = FALSE
    BY <1>5, <2>2
  <2> QED
    BY <1>1, <1>2, <1>11, <2>1, <2>2, <2>3 DEF Shows
<1> QED
  BY <1>1, <1>6, <1>7, <1>8, <1>9, <1>10, <1>11

\* What a handler that updates a row finds.
LEMMA BeforeUpdate ==
  ASSUME HistoryOK, LeavesOK, MessageOK(msg), TablesOK, NEW ix \in BubblegumOps, Handling(ix),
         NEW event, HasBubblegumEvent(Lines, event), Updatable(Emitted(event))
  PROVE  LET k == Instruction.op
             op == history[k]
             j == synced[op.index]
         IN  /\ RowOf(event) \in Rows /\ Emitted(event) = op.schema /\ op.ix = ix
             /\ op.schema \in Schemas /\ op.path[0] = LeafAfter(op)
             /\ op.ix = "Transfer" => op.schema.delegate = op.schema.owner
             /\ j # OutOfOrder /\ Follows(j, k) => Continues(history[j], op) /\ Shows(RowOf(event), history[j])
<1>1. PICK k, i : k = Instruction.op /\ i = history[k].index
  OBVIOUS
<1>2. /\ program = "bubblegum" /\ k \in 2..Len(history)
      /\ history[k].ix = ix /\ Emitted(event) = history[k].schema
      /\ history[k].schema \in Schemas /\ history[k].schema.nonce = i
      /\ history[k].path[0] = LeafAfter(history[k])
      /\ history[k].ix = "Transfer" => history[k].schema.delegate = history[k].schema.owner
  BY <1>1, HandledOp
<1>3. i \in DOMAIN db.asset /\ RowOf(event) = db.asset[i]
  BY <1>2 DEF Updatable, RowOf
<1>4. db.asset[i] \in Rows
  BY <1>3 DEF TablesOK, AssetsOK
<1>5. synced[i] # OutOfOrder /\ Follows(synced[i], k) =>
        Continues(history[synced[i]], history[k]) /\ Shows(db.asset[i], history[synced[i]])
  BY <1>1, <1>2, <1>3, RowContinued DEF TablesOK
<1> QED
  BY <1>1, <1>2, <1>3, <1>4, <1>5

\* The six handlers that update a row.
LEMMA UpdateHandlersKeep ==
  ASSUME HistoryOK, SeqsGrow, LeavesOK, MessageOK(msg), TablesOK,
         Transfer \/ Burn \/ Delegate \/ Redeem \/ CancelRedeem \/ DecompressV1
  PROVE  TablesOK'
<1>1. PICK op : op = history[Instruction.op]
  OBVIOUS
<1> DEFINE j == synced[op.index]
           Keeps(ix, event, row) ==
             HasBubblegumEvent(Lines, event) /\ Updatable(Emitted(event)) =>
               /\ row \in Rows
               /\ j # OutOfOrder /\ Follows(j, Instruction.op) => Shows(row, op)
<1>2. ASSUME NEW ix \in BubblegumOps, NEW event, NEW row, UpdatesAsset(ix, event, row), Keeps(ix, event, row)
      PROVE  TablesOK'
  BY <1>1, <1>2, UpdatesKeep
<1>3. ASSUME NEW ix \in BubblegumOps, NEW event, Handling(ix),
             HasBubblegumEvent(Lines, event), Updatable(Emitted(event))
      PROVE  /\ RowOf(event) \in Rows /\ Emitted(event) = op.schema /\ op.ix = ix
             /\ op.schema \in Schemas /\ op.path[0] = LeafAfter(op)
             /\ op.ix = "Transfer" => op.schema.delegate = op.schema.owner
             /\ j # OutOfOrder /\ Follows(j, Instruction.op) =>
                  Continues(history[j], op) /\ Shows(RowOf(event), history[j])
  BY <1>1, <1>3, BeforeUpdate
<1>4. \A ix, event, row : UpdatesAsset(ix, event, row) => Handling(ix)
  BY DEF UpdatesAsset
<1>5. /\ "Transfer" \in BubblegumOps /\ "Burn" \in BubblegumOps /\ "Delegate" \in BubblegumOps
      /\ "Redeem" \in BubblegumOps /\ "CancelRedeem" \in BubblegumOps /\ "DecompressV1" \in BubblegumOps
  BY DEF BubblegumOps
<1> HIDE DEF j
<1>6. CASE Transfer
  <2>1. PICK row : row = Transferred(RowOf("Leaf"), Emitted("Leaf"))
    OBVIOUS
  <2>2. UpdatesAsset("Transfer", "Leaf", row) /\ Handling("Transfer")
    BY <1>4, <1>6, <2>1 DEF Transfer
  <2>3. Keeps("Transfer", "Leaf", row)
    <3> SUFFICES ASSUME HasBubblegumEvent(Lines, "Leaf"), Updatable(Emitted("Leaf"))
                 PROVE  row \in Rows /\ (j # OutOfOrder /\ Follows(j, Instruction.op) => Shows(row, op))
      OBVIOUS
    <3>1. /\ RowOf("Leaf") \in Rows /\ Emitted("Leaf") = op.schema /\ op.ix = "Transfer"
          /\ op.schema \in Schemas /\ op.path[0] = LeafAfter(op) /\ op.schema.delegate = op.schema.owner
          /\ j # OutOfOrder /\ Follows(j, Instruction.op) =>
               Continues(history[j], op) /\ Shows(RowOf("Leaf"), history[j])
      BY <1>3, <1>5, <2>2
    <3> QED
      BY <2>1, <3>1, RowsWritten, ShowsNext
  <2> QED
    BY <1>2, <1>5, <2>2, <2>3
<1>7. CASE Burn
  <2>1. PICK row : row = [RowOf("Leaf") EXCEPT !.burnt = TRUE]
    OBVIOUS
  <2>2. UpdatesAsset("Burn", "Leaf", row) /\ Handling("Burn")
    BY <1>4, <1>7, <2>1 DEF Burn
  <2>3. Keeps("Burn", "Leaf", row)
    <3> SUFFICES ASSUME HasBubblegumEvent(Lines, "Leaf"), Updatable(Emitted("Leaf"))
                 PROVE  row \in Rows /\ (j # OutOfOrder /\ Follows(j, Instruction.op) => Shows(row, op))
      OBVIOUS
    <3>1. /\ RowOf("Leaf") \in Rows /\ Emitted("Leaf") = op.schema /\ op.ix = "Burn"
          /\ op.schema \in Schemas /\ op.path[0] = LeafAfter(op)
          /\ j # OutOfOrder /\ Follows(j, Instruction.op) =>
               Continues(history[j], op) /\ Shows(RowOf("Leaf"), history[j])
      BY <1>3, <1>5, <2>2
    <3> QED
      BY <2>1, <3>1, RowsWritten, ShowsNext
  <2> QED
    BY <1>2, <1>5, <2>2, <2>3
<1>8. CASE Delegate
  <2>1. PICK row : row = Delegated(RowOf("Leaf"), Emitted("Leaf"))
    OBVIOUS
  <2>2. UpdatesAsset("Delegate", "Leaf", row) /\ Handling("Delegate")
    BY <1>4, <1>8, <2>1 DEF Delegate
  <2>3. Keeps("Delegate", "Leaf", row)
    <3> SUFFICES ASSUME HasBubblegumEvent(Lines, "Leaf"), Updatable(Emitted("Leaf"))
                 PROVE  row \in Rows /\ (j # OutOfOrder /\ Follows(j, Instruction.op) => Shows(row, op))
      OBVIOUS
    <3>1. /\ RowOf("Leaf") \in Rows /\ Emitted("Leaf") = op.schema /\ op.ix = "Delegate"
          /\ op.schema \in Schemas /\ op.path[0] = LeafAfter(op)
          /\ j # OutOfOrder /\ Follows(j, Instruction.op) =>
               Continues(history[j], op) /\ Shows(RowOf("Leaf"), history[j])
      BY <1>3, <1>5, <2>2
    <3> QED
      BY <2>1, <3>1, RowsWritten, ShowsNext
  <2> QED
    BY <1>2, <1>5, <2>2, <2>3
<1>9. CASE Redeem
  <2>1. PICK row : row = [RowOf("Leaf") EXCEPT !.leaf = <<EMPTY>>]
    OBVIOUS
  <2>2. UpdatesAsset("Redeem", "Leaf", row) /\ Handling("Redeem")
    BY <1>4, <1>9, <2>1 DEF Redeem
  <2>3. Keeps("Redeem", "Leaf", row)
    <3> SUFFICES ASSUME HasBubblegumEvent(Lines, "Leaf"), Updatable(Emitted("Leaf"))
                 PROVE  row \in Rows /\ (j # OutOfOrder /\ Follows(j, Instruction.op) => Shows(row, op))
      OBVIOUS
    <3>1. /\ RowOf("Leaf") \in Rows /\ Emitted("Leaf") = op.schema /\ op.ix = "Redeem"
          /\ op.schema \in Schemas /\ op.path[0] = LeafAfter(op)
          /\ j # OutOfOrder /\ Follows(j, Instruction.op) =>
               Continues(history[j], op) /\ Shows(RowOf("Leaf"), history[j])
      BY <1>3, <1>5, <2>2
    <3> QED
      BY <2>1, <3>1, RowsWritten, ShowsNext
  <2> QED
    BY <1>2, <1>5, <2>2, <2>3
<1>10. CASE CancelRedeem
  <2>1. PICK row : row = [RowOf("Leaf") EXCEPT !.leaf = <<to_node(Emitted("Leaf"))>>]
    OBVIOUS
  <2>2. UpdatesAsset("CancelRedeem", "Leaf", row) /\ Handling("CancelRedeem")
    BY <1>4, <1>10, <2>1 DEF CancelRedeem
  <2>3. Keeps("CancelRedeem", "Leaf", row)
    <3> SUFFICES ASSUME HasBubblegumEvent(Lines, "Leaf"), Updatable(Emitted("Leaf"))
                 PROVE  row \in Rows /\ (j # OutOfOrder /\ Follows(j, Instruction.op) => Shows(row, op))
      OBVIOUS
    <3>1. /\ RowOf("Leaf") \in Rows /\ Emitted("Leaf") = op.schema /\ op.ix = "CancelRedeem"
          /\ op.schema \in Schemas /\ op.path[0] = LeafAfter(op)
          /\ j # OutOfOrder /\ Follows(j, Instruction.op) =>
               Continues(history[j], op) /\ Shows(RowOf("Leaf"), history[j])
      BY <1>3, <1>5, <2>2
    <3> QED
      BY <2>1, <3>1, RowsWritten, ShowsNext
  <2> QED
    BY <1>2, <1>5, <2>2, <2>3
<1>11. CASE DecompressV1
  <2>1. PICK row : row = [RowOf("Decompression") EXCEPT !.leaf = NULL, !.compressed = FALSE]
    OBVIOUS
  <2>2. UpdatesAsset("DecompressV1", "Decompression", row) /\ Handling("DecompressV1")
    BY <1>4, <1>11, <2>1 DEF DecompressV1
  <2>3. Keeps("DecompressV1", "Decompression", row)
    <3> SUFFICES ASSUME HasBubblegumEvent(Lines, "Decompression"), Updatable(Emitted("Decompression"))
                 PROVE  row \in Rows /\ (j # OutOfOrder /\ Follows(j, Instruction.op) => Shows(row, op))
      OBVIOUS
    <3>1. /\ RowOf("Decompression") \in Rows /\ Emitted("Decompression") = op.schema /\ op.ix = "DecompressV1"
          /\ op.schema \in Schemas /\ op.path[0] = LeafAfter(op)
          /\ j # OutOfOrder /\ Follows(j, Instruction.op) =>
               Continues(history[j], op) /\ Shows(RowOf("Decompression"), history[j])
      BY <1>3, <1>5, <2>2
    <3> QED
      BY <2>1, <3>1, RowsWritten, ShowsNext
  <2> QED
    BY <1>2, <1>5, <2>2, <2>3
<1> QED
  BY <1>6, <1>7, <1>8, <1>9, <1>10, <1>11

\* Minting: the row is new, and the download is queued.
LEMMA MintKeeps ==
  ASSUME HistoryOK, SeqsGrow, LeavesOK, MessageOK(msg), TablesOK, MintV1
  PROVE  TablesOK'
<1>1. CASE Fails
  BY <1>1, FailsKeeps
<1>2. CASE ~Fails
  <2>1. PICK k, s : k = Instruction.op /\ s = Emitted("Leaf")
    OBVIOUS
  <2>2. PICK row : row = AssetRow(history[k].schema, s)
    OBVIOUS
  <2>3. Handling("MintV1") /\ "MintV1" \in BubblegumOps
    BY DEF MintV1, BubblegumOps
  <2>4. /\ HasBubblegumEvent(Lines, "Leaf")
        /\ db' = Updated(s.nonce, row)
        /\ saved' = saved \cup get_gummy_roll_events(Lines)
        /\ Progress(LastOfType(Lines, "Leaf"))
        /\ UNCHANGED chain /\ tasks' = Append(tasks, s.nonce)
    BY <1>2, <2>1, <2>2 DEF MintV1, Transacts
  <2>5. /\ history[k].ix = "MintV1" /\ s = history[k].schema /\ s \in Schemas
        /\ history[k].path[0] = LeafAfter(history[k])
    BY <2>1, <2>3, <2>4, HandledOp
  <2>6. tasks' \in Seq(LeafIndices)
    <3>1. s.nonce \in LeafIndices /\ tasks \in Seq(LeafIndices)
      BY <2>5 DEF Schemas, TablesOK, AssetsOK
    <3> QED
      BY <2>4, <3>1, AppendProperties
  <2>7. s.owner \in Wallet /\ s.delegate \in Wallet /\ s.delegate # NoKey
    BY <2>5, WalletAssumption DEF Schemas
  <2>8. PICK z : z = <<to_node(s)>>
    OBVIOUS
  <2>9. row = [owner |-> s.owner, delegate |-> IF s.owner = s.delegate THEN NoKey ELSE s.delegate,
               leaf |-> z, burnt |-> FALSE, compressed |-> TRUE, metadata |-> "processing"]
    BY <2>2, <2>5, <2>8 DEF AssetRow
  <2>10. row \in Rows
    <3> DEFINE Leaves == {NULL, <<EMPTY>>} \cup {<<to_node(x)>> : x \in Schemas}
    <3>1. z \in Leaves
      BY <2>5, <2>8
    <3> HIDE DEF Leaves
    <3>2. Rows = [owner : Wallet, delegate : Wallet \cup {NoKey}, leaf : Leaves,
                  burnt : BOOLEAN, compressed : BOOLEAN, metadata : {"processing", "done"}]
      BY DEF Rows, Leaves
    <3> QED
      BY <2>7, <2>9, <3>1, <3>2
  <2>11. Shows(row, history[k])
    <3>1. <<history[k].path[0]>> = z
      BY <2>5, <2>8 DEF LeafAfter
    <3>2. /\ row.owner = s.owner /\ row.delegate = (IF s.owner = s.delegate THEN NoKey ELSE s.delegate)
          /\ row.leaf = z /\ row.burnt = FALSE /\ row.compressed = TRUE
      BY <2>9
    <3> QED
      BY <2>5, <2>7, <3>1, <3>2 DEF Shows
  <2>12. db' = Updated(Emitted("Leaf").nonce, row)
    BY <2>1, <2>4
  <2>13. LET m == Instruction.op
             i == history[m].index
         IN  synced[i] # OutOfOrder /\ Follows(synced[i], m) => Shows(row, history[m])
    BY <2>1, <2>11
  <2> QED
    BY <2>3, <2>4, <2>6, <2>10, <2>12, <2>13, CommitKeeps
<1> QED
  BY <1>1, <1>2

\* A tree of Gummyroll's own has change logs and no assets.
LEMMA GummyrollKeeps ==
  ASSUME HistoryOK, SeqsGrow, MessageOK(msg), TablesOK, handle_gummyroll_instruction
  PROVE  TablesOK'
<1>1. CASE Fails
  BY <1>1, FailsKeeps
<1>2. CASE ~Fails
  <2>1. Checked /\ Instruction.program = program /\ program = "gummyroll"
    BY DEF handle_gummyroll_instruction
  <2>2. /\ db' = save_changelog_events(db, Lines)
        /\ saved' = saved \cup get_gummy_roll_events(Lines)
        /\ UNCHANGED chain /\ tasks' = tasks /\ synced' = synced
    BY <1>2 DEF handle_gummyroll_instruction, Transacts
  <2>3. IsSeq(Lines) /\ get_gummy_roll_events(Lines) \subseteq ChangeLogNumbers /\ Newest(db, saved)
    BY <2>1, OwnEvents DEF TablesOK
  <2>4. PICK d, ks : d = save_changelog_events(db, Lines) /\ ks = saved \cup get_gummy_roll_events(Lines)
    OBVIOUS
  <2>5. Newest(d, ks) /\ d.asset = db.asset
    BY <2>3, <2>4, SaveAll
  <2>6. program' = program /\ history' = history /\ HistoryLonger /\ db' = d /\ saved' = ks
    BY <2>2, <2>4 DEF chain, HistoryLonger
  <2>7. Newest(d, ks)'
    BY <2>5, <2>6, NewestStays
  <2>8. Newest(db, saved)'
    BY <2>6, <2>7 DEF Newest, IsDb
  <2>9. LeafIndices' = LeafIndices /\ Rows' = Rows /\ OutOfOrder' = OutOfOrder
    BY DEF Rows, Schemas, LeafIndices, OutOfOrder
  <2>10. db'.asset = db.asset /\ program' # "bubblegum"
    BY <2>1, <2>5, <2>6
  <2>11. AssetsOK'
    BY <2>2, <2>6, <2>9, <2>10 DEF TablesOK, AssetsOK
  <2>12. SyncedOK'
    BY <2>2, <2>6, <2>9, <2>10 DEF TablesOK, SyncedOK, OnLeaf
  <2>13. AssetsFollowChain'
    BY <2>2, <2>6, <2>10 DEF TablesOK, AssetsFollowChain, OutOfOrder, NULL
  <2> QED
    BY <2>8, <2>11, <2>12, <2>13 DEF TablesOK
<1> QED
  BY <1>1, <1>2

\* A download is stored.
LEMMA StoredKeeps ==
  ASSUME HistoryOK, TablesOK, TaskCompletes
  PROVE  TablesOK'
<1>1. PICK t : t = Head(tasks)
  OBVIOUS
<1>2. /\ tasks # <<>> /\ db' = [db EXCEPT !.asset[t].metadata = "done"] /\ tasks' = Tail(tasks)
      /\ program' = program /\ history' = history /\ saved' = saved /\ synced' = synced
  BY <1>1 DEF TaskCompletes, chain, ghosts
<1>3. PICK asset : asset = [db.asset EXCEPT ![t].metadata = "done"]
  OBVIOUS
<1>4. db = [cl_items |-> db.cl_items, backfill_items |-> db.backfill_items, asset |-> db.asset]
  BY DEF TablesOK, Newest, IsDb
<1>5. db' = [db EXCEPT !.asset = asset]
  BY <1>2, <1>3
<1>6. db' = [cl_items |-> db.cl_items, backfill_items |-> db.backfill_items, asset |-> asset]
  BY <1>4, <1>5
<1>7. db'.cl_items = db.cl_items /\ db'.asset = asset /\ IsDb(db')
  BY <1>6 DEF IsDb
<1>8. db.asset \in [DOMAIN db.asset -> Rows]
  BY DEF TablesOK, AssetsOK
<1>9. /\ DOMAIN asset = DOMAIN db.asset
      /\ \A i \in DOMAIN db.asset : asset[i] = IF i = t THEN [db.asset[i] EXCEPT !.metadata = "done"] ELSE db.asset[i]
      /\ asset = [i \in DOMAIN asset |-> asset[i]]
  BY <1>3, <1>8
<1>10. \A r \in Rows : /\ [r EXCEPT !.metadata = "done"] \in Rows
                       /\ \A op : Shows(r, op) => Shows([r EXCEPT !.metadata = "done"], op)
  <2> TAKE r \in Rows
  <2>1. PICK Leaves : Rows = [owner : Wallet, delegate : Wallet \cup {NoKey}, leaf : Leaves,
                              burnt : BOOLEAN, compressed : BOOLEAN, metadata : {"processing", "done"}]
    BY DEF Rows
  <2>2. PICK q : q = [r EXCEPT !.metadata = "done"]
    OBVIOUS
  <2>3. /\ q \in Rows
        /\ q.owner = r.owner /\ q.delegate = r.delegate /\ q.leaf = r.leaf
        /\ q.burnt = r.burnt /\ q.compressed = r.compressed
    BY <2>1, <2>2
  <2> QED
    BY <2>2, <2>3 DEF Shows
<1>11. \A i \in DOMAIN db.asset : asset[i] \in Rows /\ \A op : Shows(db.asset[i], op) => Shows(asset[i], op)
  <2> TAKE i \in DOMAIN db.asset
  <2>1. PICK r : r = db.asset[i]
    OBVIOUS
  <2>2. r \in Rows
    BY <1>8, <2>1
  <2>3. asset[i] = r \/ asset[i] = [r EXCEPT !.metadata = "done"]
    BY <1>9, <2>1
  <2> QED
    BY <1>10, <2>1, <2>2, <2>3
<1>12. asset \in [DOMAIN asset -> Rows]
  BY <1>9, <1>11
<1>13. Newest(db, saved)'
  <2>1. PICK d, ks : d = db' /\ ks = saved
    OBVIOUS
  <2>2. Newest(d, ks)
    BY <1>7, <2>1 DEF TablesOK, Newest
  <2>3. HistoryLonger
    BY <1>2 DEF HistoryLonger
  <2>4. Newest(d, ks)'
    BY <2>2, <2>3, NewestStays
  <2> QED
    BY <1>2, <2>1, <2>4 DEF Newest, IsDb
<1>14. LeafIndices' = LeafIndices /\ Rows' = Rows /\ OutOfOrder' = OutOfOrder
  BY DEF Rows, Schemas, LeafIndices, OutOfOrder
<1>15. tasks' \in Seq(LeafIndices)
  BY <1>2, HeadTailProperties DEF TablesOK, AssetsOK
<1>16. AssetsOK'
  BY <1>2, <1>7, <1>9, <1>12, <1>14, <1>15 DEF TablesOK, AssetsOK
<1>17. SyncedOK'
  BY <1>2, <1>7, <1>9, <1>14 DEF TablesOK, SyncedOK, OnLeaf
<1>18. AssetsFollowChain'
  <2>1. \A i \in DOMAIN db'.asset : synced'[i] # OutOfOrder => Shows(db'.asset[i], history'[synced'[i]])
    BY <1>2, <1>7, <1>9, <1>11, FollowingShows DEF TablesOK
  <2> QED
    BY <2>1 DEF AssetsFollowChain, Shows, OutOfOrder, NULL
<1> QED
  BY <1>13, <1>16, <1>17, <1>18 DEF TablesOK

-----------------------------------------------------------------------------
(* The instructions on the chain. *)

ChainOK == HistoryOK /\ SeqsGrow /\ LeavesOK /\ PathsOK

\* The history after an instruction.
LEMMA ExecutesLonger ==
  ASSUME HistoryOK, NEW ix, NEW index \in LeafIndices, NEW node, NEW schema, Executes(ix, index, node, schema)
  PROVE  HistoryLonger /\ Len(history') \in Nat /\ Len(history') >= Len(history)
<1>1. /\ Len(history) \in Nat /\ Len(history') = Len(history) + 1
      /\ DOMAIN history = 1..Len(history) /\ DOMAIN history' = 1..Len(history)+1
      /\ \A k \in 1..Len(history) : history'[k] = history[k]
      /\ \A k \in 1..Len(history) : k \in 1..Len(history)+1
  BY HistoryGrows
<1>2. program' = program
  BY DEF Executes
<1> QED
  BY <1>1, <1>2 DEF HistoryLonger

\* A node of a leaf and the leaf it was made of.
LEMMA NodeOfLeaf == \A s : to_node(s) # EMPTY /\ to_node(s)[1] = s
BY SmallSeqs DEF to_node, EMPTY

\* What the last instruction on a leaf tells of it.
LEMMA LastTells ==
  ASSUME HistoryOK, LeavesOK, program = "bubblegum", NEW i \in LeafIndices,
         leaves[i] # EMPTY \/ vouchers[i] # EMPTY
  PROVE  LET last == history[Max(OnLeaf(i))]
         IN  /\ OnLeaf(i) # {} /\ last.schema \in Schemas /\ last.schema.nonce = i /\ i < minted /\ i \in Nat
             /\ leaves[i] # EMPTY => /\ last.ix \notin {"Burn", "Redeem", "DecompressV1"}
                                     /\ leaves[i] = to_node(last.schema) /\ leaves[i][1] = last.schema
                                     /\ vouchers[i] = EMPTY
             /\ vouchers[i] # EMPTY => /\ last.ix = "Redeem" /\ leaves[i] = EMPTY
                                       /\ vouchers[i] = to_node(last.schema) /\ vouchers[i][1] = last.schema
<1>1. OnLeaf(i) # {}
  BY DEF LeavesOK
<1>2. PICK m, last : m = Max(OnLeaf(i)) /\ last = history[m]
  OBVIOUS
<1>3. m \in 2..Len(history) /\ last.index = i
  BY <1>1, <1>2, LastOnLeaf
<1>4. last.schema \in Schemas /\ last.schema.nonce = i /\ i < minted
  BY <1>2, <1>3 DEF LeavesOK
<1>5. leaves[i] = LeafAfter(last) /\ vouchers[i] = VoucherAfter(last)
  BY <1>1, <1>2 DEF LeavesOK
<1>6. to_node(last.schema) # EMPTY /\ to_node(last.schema)[1] = last.schema
  BY NodeOfLeaf
<1>7. leaves[i] # EMPTY => /\ last.ix \notin {"Burn", "Redeem", "DecompressV1"}
                           /\ leaves[i] = to_node(last.schema) /\ leaves[i][1] = last.schema
                           /\ vouchers[i] = EMPTY
  BY <1>5, <1>6 DEF LeafAfter, VoucherAfter
<1>8. vouchers[i] # EMPTY => /\ last.ix = "Redeem" /\ leaves[i] = EMPTY
                             /\ vouchers[i] = to_node(last.schema) /\ vouchers[i][1] = last.schema
  BY <1>5, <1>6 DEF LeafAfter, VoucherAfter
<1>9. i \in Nat
  BY Capacity DEF LeafIndices
<1> QED
  BY <1>1, <1>2, <1>4, <1>7, <1>8, <1>9

\* An instruction of Bubblegum on the leaf at index.
BubblegumStep(ix, index, node, schema) ==
  /\ Executes(ix, index, node, schema)
  /\ schema \in Schemas /\ schema.nonce = index /\ index < minted'
  /\ ix = "Transfer" => schema.delegate = schema.owner
  /\ node = IF ix \in {"Burn", "Redeem", "DecompressV1"} THEN EMPTY ELSE to_node(schema)
  /\ ix = "DecompressV1" => node = leaves[index]
  /\ DOMAIN vouchers' = LeafIndices
  /\ \A i \in LeafIndices : vouchers'[i] = IF i # index THEN vouchers[i]
                                           ELSE IF ix = "Redeem" THEN to_node(schema) ELSE EMPTY
  /\ OnLeaf(index) # {} =>
       LET last == history[Max(OnLeaf(index))]
       IN  /\ last.ix \notin {"Burn", "DecompressV1"}
           /\ ix = "Delegate" => schema.owner = last.schema.owner
           /\ ix \in {"Burn", "Redeem", "CancelRedeem", "DecompressV1"} => schema = last.schema

\* It keeps the story of the leaves.
LEMMA BubblegumStepKeeps ==
  ASSUME ChainOK, program = "bubblegum", NEW ix \in BubblegumOps, NEW index \in LeafIndices,
         NEW node, NEW schema, BubblegumStep(ix, index, node, schema)
  PROVE  ChainOK'
<1>1. HistoryOK /\ SeqsGrow /\ LeavesOK /\ PathsOK /\ Executes(ix, index, node, schema)
  BY DEF ChainOK, BubblegumStep
<1>2. ix \in ProgramOps
  BY DEF ProgramOps
<1>3. HistoryOK' /\ SeqsGrow'
  BY <1>1, <1>2, HistoryKept
<1>4. PathsOK'
  <2>1. ix = "DecompressV1" => node = leaves[index]
    BY DEF BubblegumStep
  <2> QED
    BY <1>1, <2>1, PathsKept
<1>5. LeavesOK'
  <2>1. /\ schema \in Schemas /\ schema.nonce = index /\ index < minted'
        /\ ix = "Transfer" => schema.delegate = schema.owner
        /\ node = IF ix \in {"Burn", "Redeem", "DecompressV1"} THEN EMPTY ELSE to_node(schema)
    BY DEF BubblegumStep
  <2>2. /\ DOMAIN vouchers' = LeafIndices
        /\ \A i \in LeafIndices : vouchers'[i] = IF i # index THEN vouchers[i]
                                                 ELSE IF ix = "Redeem" THEN to_node(schema) ELSE EMPTY
    BY DEF BubblegumStep
  <2>3. OnLeaf(index) # {} =>
          LET last == history[Max(OnLeaf(index))]
          IN  /\ last.ix \notin {"Burn", "DecompressV1"}
              /\ ix = "Delegate" => schema.owner = last.schema.owner
              /\ ix \in {"Burn", "Redeem", "CancelRedeem", "DecompressV1"} => schema = last.schema
    BY DEF BubblegumStep
  <2> QED
    BY <1>1, <2>1, <2>2, <2>3, LeavesKept
<1> QED
  BY <1>3, <1>4, <1>5 DEF ChainOK

\* mint_v1
LEMMA MintStep ==
  ASSUME ChainOK, NEW owner \in Wallet, NEW delegate \in Wallet, Mint(owner, delegate)
  PROVE  /\ ChainOK'
         /\ \E index \in LeafIndices : \E ix, node, schema : Executes(ix, index, node, schema)
<1>1. PICK index, schema : index = minted /\ schema = Schema(owner, delegate, minted)
  OBVIOUS
<1>2. /\ program = "bubblegum" /\ index \in LeafIndices
      /\ Executes("MintV1", index, to_node(schema), schema) /\ vouchers' = vouchers
  BY <1>1 DEF Mint
<1>3. schema \in Schemas /\ schema.nonce = index
  BY <1>1, <1>2 DEF Schema, Schemas
<1>4. HistoryOK /\ LeavesOK
  BY DEF ChainOK
<1>5. minted \in Nat /\ minted' = minted + 1
  BY <1>2, <1>4, Counted
<1>6. index < minted'
  BY <1>1, <1>5
<1>7. OnLeaf(index) = {}
  <2> SUFFICES ASSUME NEW k \in OnLeaf(index) PROVE FALSE
    OBVIOUS
  <2>1. k \in 2..Len(history) /\ history[k].index = index
    BY DEF OnLeaf
  <2>2. history[k].index < minted
    BY <1>2, <1>4, <2>1 DEF LeavesOK
  <2> QED
    BY <1>1, <1>5, <2>1, <2>2
<1>8. vouchers[index] = EMPTY /\ DOMAIN vouchers = LeafIndices
  BY <1>2, <1>4, <1>7 DEF LeavesOK
<1>9. BubblegumStep("MintV1", index, to_node(schema), schema)
  BY <1>2, <1>3, <1>6, <1>7, <1>8 DEF BubblegumStep
<1>10. "MintV1" \in BubblegumOps
  BY DEF BubblegumOps
<1>11. ChainOK'
  BY <1>2, <1>9, <1>10, BubblegumStepKeeps
<1> QED
  BY <1>2, <1>11

\* The instructions on an asset that is there.
LEMMA AssetSteps ==
  ASSUME ChainOK, NEW i \in LeafIndices, NEW key,
         (key \in Wallet /\ (ChainTransfer(i, key) \/ ChainDelegate(i, key))) \/ ChainBurn(i) \/ ChainRedeem(i)
  PROVE  /\ ChainOK'
         /\ \E index \in LeafIndices : \E ix, node, schema : Executes(ix, index, node, schema)
<1>1. program = "bubblegum" /\ leaves[i] # EMPTY
  BY DEF ChainTransfer, ChainDelegate, ChainBurn, ChainRedeem, IsAsset
<1>2. HistoryOK /\ LeavesOK /\ DOMAIN vouchers = LeafIndices
  BY DEF ChainOK, LeavesOK
<1>3. PICK last : last = history[Max(OnLeaf(i))]
  OBVIOUS
<1>4. /\ last.schema \in Schemas /\ last.schema.nonce = i /\ i < minted /\ i \in Nat
      /\ last.ix \notin {"Burn", "Redeem", "DecompressV1"}
      /\ leaves[i] = to_node(last.schema) /\ leaves[i][1] = last.schema
      /\ vouchers[i] = EMPTY
  BY <1>1, <1>2, <1>3, LastTells
<1>5. ASSUME NEW ix \in BubblegumOps, NEW node, NEW schema, Executes(ix, i, node, schema) PROVE i < minted'
  <2>1. minted \in Nat /\ minted' \in Nat /\ minted <= minted'
    BY <1>2, <1>5, Counted
  <2> QED
    BY <1>4, <2>1
<1>6. "Transfer" \in BubblegumOps /\ "Delegate" \in BubblegumOps /\ "Burn" \in BubblegumOps /\ "Redeem" \in BubblegumOps
  BY DEF BubblegumOps
<1>7. CASE key \in Wallet /\ ChainTransfer(i, key)
  <2>1. PICK schema : schema = Schema(key, key, i)
    OBVIOUS
  <2>2. Executes("Transfer", i, to_node(schema), schema) /\ vouchers' = vouchers
    BY <1>7, <2>1 DEF ChainTransfer
  <2>3. schema \in Schemas /\ schema.nonce = i /\ schema.delegate = schema.owner
    BY <1>7, <2>1 DEF Schema, Schemas
  <2>4. i < minted'
    BY <1>5, <1>6, <2>2
  <2>5. BubblegumStep("Transfer", i, to_node(schema), schema)
    BY <1>2, <1>3, <1>4, <2>2, <2>3, <2>4 DEF BubblegumStep
  <2> QED
    BY <1>1, <1>6, <2>2, <2>5, BubblegumStepKeeps
<1>8. CASE key \in Wallet /\ ChainDelegate(i, key)
  <2>1. PICK schema : schema = [leaves[i][1] EXCEPT !.delegate = key]
    OBVIOUS
  <2>2. Executes("Delegate", i, to_node(schema), schema) /\ vouchers' = vouchers
    BY <1>8, <2>1 DEF ChainDelegate
  <2>3. schema \in Schemas /\ schema.nonce = i /\ schema.owner = last.schema.owner
    BY <1>4, <1>8, <2>1 DEF Schemas
  <2>4. i < minted'
    BY <1>5, <1>6, <2>2
  <2>5. BubblegumStep("Delegate", i, to_node(schema), schema)
    BY <1>2, <1>3, <1>4, <2>2, <2>3, <2>4 DEF BubblegumStep
  <2> QED
    BY <1>1, <1>6, <2>2, <2>5, BubblegumStepKeeps
<1>9. CASE ChainBurn(i)
  <2>1. PICK schema : schema = last.schema
    OBVIOUS
  <2>2. Executes("Burn", i, EMPTY, schema) /\ vouchers' = vouchers
    BY <1>4, <1>9, <2>1 DEF ChainBurn
  <2>3. schema \in Schemas /\ schema.nonce = i
    BY <1>4, <2>1
  <2>4. i < minted'
    BY <1>5, <1>6, <2>2
  <2>5. BubblegumStep("Burn", i, EMPTY, schema)
    BY <1>2, <1>3, <1>4, <2>1, <2>2, <2>3, <2>4 DEF BubblegumStep
  <2> QED
    BY <1>1, <1>6, <2>2, <2>5, BubblegumStepKeeps
<1>10. CASE ChainRedeem(i)
  <2>1. PICK schema : schema = last.schema
    OBVIOUS
  <2>2. Executes("Redeem", i, EMPTY, schema) /\ vouchers' = [vouchers EXCEPT ![i] = to_node(schema)]
    BY <1>4, <1>10, <2>1 DEF ChainRedeem
  <2>3. schema \in Schemas /\ schema.nonce = i
    BY <1>4, <2>1
  <2>4. i < minted'
    BY <1>5, <1>6, <2>2
  <2>5. DOMAIN vouchers' = LeafIndices /\ \A j \in LeafIndices : vouchers'[j] = IF j # i THEN vouchers[j] ELSE to_node(schema)
    BY <1>2, <2>2
  <2>6. BubblegumStep("Redeem", i, EMPTY, schema)
    BY <1>3, <1>4, <2>1, <2>2, <2>3, <2>4, <2>5 DEF BubblegumStep
  <2> QED
    BY <1>1, <1>6, <2>2, <2>6, BubblegumStepKeeps
<1> QED
  BY <1>7, <1>8, <1>9, <1>10

\* The instructions on a voucher.
LEMMA VoucherSteps ==
  ASSUME ChainOK, NEW i \in LeafIndices, ChainCancelRedeem(i) \/ ChainDecompress(i)
  PROVE  /\ ChainOK'
         /\ \E index \in LeafIndices : \E ix, node, schema : Executes(ix, index, node, schema)
<1>1. vouchers[i] # EMPTY
  BY DEF ChainCancelRedeem, ChainDecompress
<1>2. HistoryOK /\ LeavesOK /\ DOMAIN vouchers = LeafIndices
  BY DEF ChainOK, LeavesOK
<1>3. program = "bubblegum"
  BY <1>1, <1>2 DEF LeavesOK, HistoryOK
<1>4. PICK last : last = history[Max(OnLeaf(i))]
  OBVIOUS
<1>5. /\ last.schema \in Schemas /\ last.schema.nonce = i /\ i < minted /\ i \in Nat
      /\ last.ix = "Redeem" /\ leaves[i] = EMPTY
      /\ vouchers[i] = to_node(last.schema) /\ vouchers[i][1] = last.schema
  BY <1>1, <1>2, <1>3, <1>4, LastTells
<1>6. ASSUME NEW ix \in BubblegumOps, NEW node, NEW schema, Executes(ix, i, node, schema) PROVE i < minted'
  <2>1. minted \in Nat /\ minted' \in Nat /\ minted <= minted'
    BY <1>2, <1>6, Counted
  <2> QED
    BY <1>5, <2>1
<1>7. "CancelRedeem" \in BubblegumOps /\ "DecompressV1" \in BubblegumOps
  BY DEF BubblegumOps
<1>8. vouchers' = [vouchers EXCEPT ![i] = EMPTY]
  BY DEF ChainCancelRedeem, ChainDecompress
<1>9. DOMAIN vouchers' = LeafIndices /\ \A j \in LeafIndices : vouchers'[j] = IF j # i THEN vouchers[j] ELSE EMPTY
  BY <1>2, <1>8
<1>10. PICK schema : schema = last.schema
  OBVIOUS
<1>11. CASE ChainCancelRedeem(i)
  <2>1. Executes("CancelRedeem", i, to_node(schema), schema)
    BY <1>5, <1>10, <1>11 DEF ChainCancelRedeem
  <2>2. i < minted'
    BY <1>6, <1>7, <2>1
  <2>3. BubblegumStep("CancelRedeem", i, to_node(schema), schema)
    BY <1>4, <1>5, <1>9, <1>10, <2>1, <2>2 DEF BubblegumStep
  <2> QED
    BY <1>3, <1>7, <2>1, <2>3, BubblegumStepKeeps
<1>12. CASE ChainDecompress(i)
  <2>1. Executes("DecompressV1", i, EMPTY, schema)
    BY <1>5, <1>10, <1>12 DEF ChainDecompress
  <2>2. i < minted'
    BY <1>6, <1>7, <2>1
  <2>3. BubblegumStep("DecompressV1", i, EMPTY, schema)
    BY <1>4, <1>5, <1>9, <1>10, <2>1, <2>2 DEF BubblegumStep
  <2> QED
    BY <1>3, <1>7, <2>1, <2>3, BubblegumStepKeeps
<1> QED
  BY <1>11, <1>12

\* append and replace_leaf
LEMMA WriteStep ==
  ASSUME ChainOK, NEW ix \in {"append", "replace_leaf"}, NEW i \in LeafIndices, NEW node, ChainWrite(ix, i, node)
  PROVE  /\ ChainOK'
         /\ \E index \in LeafIndices : \E x, y, schema : Executes(x, index, y, schema)
<1>1. program = "gummyroll" /\ Executes(ix, i, node, NoSchema) /\ vouchers' = vouchers
  BY DEF ChainWrite
<1>2. HistoryOK /\ SeqsGrow /\ LeavesOK /\ PathsOK
  BY DEF ChainOK
<1>3. ix \in ProgramOps /\ ix # "DecompressV1"
  BY <1>1 DEF ProgramOps
<1>4. HistoryOK' /\ SeqsGrow'
  BY <1>1, <1>2, <1>3, HistoryKept
<1>5. PathsOK'
  BY <1>1, <1>2, <1>3, PathsKept
<1>6. program' = program /\ LeafIndices' = LeafIndices /\ EMPTY' = EMPTY
      /\ leaves' = [leaves EXCEPT ![i] = node]
  BY <1>1 DEF Executes, LeafIndices, EMPTY
<1>7. LeavesOK'
  BY <1>1, <1>2, <1>6 DEF LeavesOK
<1> QED
  BY <1>1, <1>4, <1>5, <1>7 DEF ChainOK

-----------------------------------------------------------------------------
(* The downloads. *)

\* The elements of a queue after a task joins or leaves it.
LEMMA QueueSteps ==
  ASSUME NEW q, IsSeq(q)
  PROVE  /\ \A x : ToSet(q) \subseteq ToSet(Append(q, x)) /\ x \in ToSet(Append(q, x))
         /\ q # <<>> => ToSet(q) \subseteq ToSet(Tail(q)) \cup {Head(q)}
<1>1. Len(q) \in Nat /\ DOMAIN q = 1..Len(q) /\ (q # <<>> => Len(q) >= 1)
  BY SeqFacts
<1>2. ASSUME NEW x
      PROVE  ToSet(q) \subseteq ToSet(Append(q, x)) /\ x \in ToSet(Append(q, x))
  <2>1. PICK r : r = Append(q, x)
    OBVIOUS
  <2>2. /\ IsSeq(r) /\ Len(r) = Len(q) + 1 /\ r[Len(q) + 1] = x
        /\ \A i \in 1..Len(q) : r[i] = q[i]
    BY <2>1, AppendFacts
  <2>3. DOMAIN r = 1..Len(q)+1
    BY <2>2, SeqFacts
  <2>4. \A i \in 1..Len(q) : i \in DOMAIN r
    BY <1>1, <2>3
  <2>5. Len(q) + 1 \in DOMAIN r
    BY <1>1, <2>3
  <2> QED
    BY <1>1, <2>1, <2>2, <2>4, <2>5 DEF ToSet
<1>3. ASSUME q # <<>>
      PROVE  ToSet(q) \subseteq ToSet(Tail(q)) \cup {Head(q)}
  <2>1. PICK r : r = Tail(q)
    OBVIOUS
  <2>2. /\ IsSeq(r) /\ Len(r) = Len(q) - 1 /\ Head(q) = q[1]
        /\ \A i \in 1..Len(q) - 1 : r[i] = q[i + 1]
    BY <1>3, <2>1, TailFacts
  <2>3. DOMAIN r = 1..Len(q)-1
    BY <2>2, SeqFacts
  <2>4. ASSUME NEW i \in DOMAIN q
        PROVE  i = 1 \/ (i - 1 \in DOMAIN r /\ r[i - 1] = q[i])
    <3>1. i = 1 \/ (i - 1 \in 1..Len(q)-1 /\ (i - 1) + 1 = i)
      BY <1>1
    <3> QED
      BY <2>2, <2>3, <3>1
  <2> QED
    BY <2>1, <2>2, <2>4 DEF ToSet
<1> QED
  BY <1>2, <1>3

\* Nothing is forgotten when the rows and the queue stay, or a row is kept with
\* its metadata.
LEMMA DownloadsStay ==
  ASSUME DownloadsNotForgotten, DOMAIN db'.asset = DOMAIN db.asset,
         \A i \in DOMAIN db.asset : db'.asset[i].metadata = db.asset[i].metadata,
         ToSet(tasks) \cup dropped \subseteq ToSet(tasks') \cup dropped'
  PROVE  DownloadsNotForgotten'
  BY DEF DownloadsNotForgotten

\* The handlers that update an asset leave its metadata alone.
LEMMA UpdatesKeepDownloads ==
  ASSUME HistoryOK, SeqsGrow, MessageOK(msg), TablesOK, DownloadsNotForgotten,
         NEW ix, NEW event, NEW row, UpdatesAsset(ix, event, row),
         HasBubblegumEvent(Lines, event) /\ Updatable(Emitted(event)) => row.metadata = RowOf(event).metadata
  PROVE  DownloadsNotForgotten'
<1>1. Handling(ix)
  BY DEF UpdatesAsset
<1>2. CASE Fails
  BY <1>2, DownloadsStay DEF Fails, ghosts
<1>3. CASE /\ HasBubblegumEvent(Lines, event) /\ Updatable(Emitted(event))
           /\ db' = Updated(Emitted(event).nonce, row) /\ UNCHANGED <<tasks, dropped>>
  <2>1. /\ IsSeq(Lines) /\ get_gummy_roll_events(Lines) \subseteq ChangeLogNumbers
    BY <1>1, OwnEvents DEF Handling
  <2>2. PICK id : id = Emitted(event).nonce
    OBVIOUS
  <2>3. id \in DOMAIN db.asset /\ row.metadata = db.asset[id].metadata
    BY <1>3, <2>2 DEF Updatable, RowOf
  <2>4. Newest(db, saved)
    BY DEF TablesOK
  <2>5. /\ DOMAIN Updated(id, row).asset = DOMAIN db.asset \cup {id}
        /\ \A i \in DOMAIN db.asset \cup {id} : Updated(id, row).asset[i] = IF i = id THEN row ELSE db.asset[i]
    BY <2>1, <2>4, UpdatedFacts
  <2>6. db' = Updated(id, row)
    BY <1>3, <2>2
  <2>7. DOMAIN db'.asset = DOMAIN db.asset
    BY <2>3, <2>5, <2>6
  <2>8. \A i \in DOMAIN db.asset : db'.asset[i].metadata = db.asset[i].metadata
    BY <2>3, <2>5, <2>6
  <2> QED
    BY <1>3, <2>7, <2>8, DownloadsStay
<1> QED
  BY <1>2, <1>3 DEF UpdatesAsset, Transacts

\* No update of a row touches its metadata.
LEMMA MetadataKept ==
  ASSUME NEW r \in Rows, NEW schema
  PROVE  /\ Transferred(r, schema).metadata = r.metadata /\ Delegated(r, schema).metadata = r.metadata
         /\ [r EXCEPT !.burnt = TRUE].metadata = r.metadata
         /\ \A leaf : [r EXCEPT !.leaf = leaf].metadata = r.metadata
         /\ [r EXCEPT !.leaf = NULL, !.compressed = FALSE].metadata = r.metadata
  BY DEF Rows, Transferred, Delegated

\* The handlers that update an asset forget no download.
LEMMA UpdateHandlersKeepDownloads ==
  ASSUME HistoryOK, SeqsGrow, LeavesOK, MessageOK(msg), TablesOK, DownloadsNotForgotten,
         Transfer \/ Burn \/ Delegate \/ Redeem \/ CancelRedeem \/ DecompressV1
  PROVE  DownloadsNotForgotten'
<1>1. ASSUME NEW event, Updatable(Emitted(event))
      PROVE  RowOf(event) \in Rows
  BY <1>1 DEF Updatable, RowOf, TablesOK, AssetsOK
<1>2. CASE Transfer
  BY <1>1, <1>2, UpdatesKeepDownloads, MetadataKept DEF Transfer
<1>3. CASE Burn
  BY <1>1, <1>3, UpdatesKeepDownloads, MetadataKept DEF Burn
<1>4. CASE Delegate
  BY <1>1, <1>4, UpdatesKeepDownloads, MetadataKept DEF Delegate
<1>5. CASE Redeem
  BY <1>1, <1>5, UpdatesKeepDownloads, MetadataKept DEF Redeem
<1>6. CASE CancelRedeem
  BY <1>1, <1>6, UpdatesKeepDownloads, MetadataKept DEF CancelRedeem
<1>7. CASE DecompressV1
  BY <1>1, <1>7, UpdatesKeepDownloads, MetadataKept DEF DecompressV1
<1> QED
  BY <1>2, <1>3, <1>4, <1>5, <1>6, <1>7

\* A new asset is queued when its row is committed.
LEMMA MintKeepsDownloads ==
  ASSUME HistoryOK, SeqsGrow, MessageOK(msg), TablesOK, DownloadsNotForgotten, MintV1
  PROVE  DownloadsNotForgotten'
<1>1. Handling("MintV1")
  BY DEF MintV1
<1>2. CASE Fails
  BY <1>2, DownloadsStay DEF Fails, ghosts
<1>3. CASE \E row : /\ db' = Updated(Emitted("Leaf").nonce, row)
                    /\ tasks' = Append(tasks, Emitted("Leaf").nonce) /\ UNCHANGED dropped
  <2>1. PICK id, row : db' = Updated(id, row) /\ tasks' = Append(tasks, id)
    BY <1>3
  <2>2. /\ IsSeq(Lines) /\ get_gummy_roll_events(Lines) \subseteq ChangeLogNumbers
    BY <1>1, OwnEvents DEF Handling
  <2>3. Newest(db, saved) /\ IsSeq(tasks)
    BY DEF TablesOK, AssetsOK, IsSeq
  <2>4. /\ DOMAIN Updated(id, row).asset = DOMAIN db.asset \cup {id}
        /\ \A i \in DOMAIN db.asset \cup {id} : Updated(id, row).asset[i] = IF i = id THEN row ELSE db.asset[i]
    BY <2>2, <2>3, UpdatedFacts
  <2>5. ToSet(tasks) \subseteq ToSet(tasks') /\ id \in ToSet(tasks')
    BY <2>1, <2>3, QueueSteps
  <2>6. ASSUME NEW i \in DOMAIN db'.asset, db'.asset[i].metadata = "processing"
        PROVE  i \in ToSet(tasks') \cup dropped'
    <3>1. i = id \/ (i \in DOMAIN db.asset /\ db.asset[i].metadata = "processing")
      BY <2>1, <2>4, <2>6
    <3> QED
      BY <1>3, <2>5, <3>1 DEF DownloadsNotForgotten
  <2> QED
    BY <2>6 DEF DownloadsNotForgotten
<1> QED
  BY <1>2, <1>3 DEF MintV1, Transacts

\* The worker and a restart.
LEMMA TasksKeepDownloads ==
  ASSUME TablesOK, DownloadsNotForgotten, TaskCompletes \/ TaskFails \/ Restart
  PROVE  DownloadsNotForgotten'
<1>1. IsSeq(tasks)
  BY DEF TablesOK, AssetsOK, IsSeq
<1>2. CASE TaskCompletes
  <2>1. tasks # <<>> /\ tasks' = Tail(tasks) /\ dropped' = dropped
    BY <1>2 DEF TaskCompletes, ghosts
  <2>2. ToSet(tasks) \subseteq ToSet(tasks') \cup {Head(tasks)}
    BY <1>1, <2>1, QueueSteps
  <2>3. PICK h : h = Head(tasks)
    OBVIOUS
  <2>4. IsDb(db) /\ db.asset \in [DOMAIN db.asset -> Rows]
    BY DEF TablesOK, AssetsOK, Newest
  <2>5. db' = [db EXCEPT !.asset[h].metadata = "done"]
    BY <1>2, <2>3 DEF TaskCompletes
  <2>6. db'.asset = [db.asset EXCEPT ![h].metadata = "done"]
    BY <2>4, <2>5 DEF IsDb
  <2>7. DOMAIN db'.asset = DOMAIN db.asset
    BY <2>6
  <2>8. \A i \in DOMAIN db.asset : i # h => db'.asset[i] = db.asset[i]
    BY <2>4, <2>6
  <2>9. h \in DOMAIN db.asset => db'.asset[h].metadata = "done"
    BY <2>4, <2>6 DEF Rows
  <2>10. ASSUME NEW i \in DOMAIN db'.asset, db'.asset[i].metadata = "processing"
         PROVE  i \in ToSet(tasks') \cup dropped'
    <3>1. i # h /\ i \in DOMAIN db.asset /\ db.asset[i].metadata = "processing"
      BY <2>7, <2>8, <2>9, <2>10
    <3> QED
      BY <2>1, <2>2, <2>3, <3>1 DEF DownloadsNotForgotten
  <2> QED
    BY <2>10 DEF DownloadsNotForgotten
<1>3. CASE TaskFails
  <2>1. tasks # <<>> /\ tasks' = Tail(tasks) /\ dropped' = dropped \cup {Head(tasks)} /\ db' = db
    BY <1>3 DEF TaskFails, TaskErrored
  <2>2. ToSet(tasks) \subseteq ToSet(tasks') \cup {Head(tasks)}
    BY <1>1, <2>1, QueueSteps
  <2> QED
    BY <2>1, <2>2, DownloadsStay
<1>4. CASE Restart
  BY <1>4, DownloadsStay DEF Restart
<1> QED
  BY <1>2, <1>3, <1>4

-----------------------------------------------------------------------------
(* The invariant holds. *)

IInv == ChainOK /\ PublishedOK /\ MessageOK(msg) /\ TablesOK /\ DownloadsNotForgotten

\* Nothing of the chain's state changes.
LEMMA ChainStays ==
  ASSUME ChainOK, UNCHANGED <<program, history, leaves, vouchers>>
  PROVE  /\ ChainOK' /\ HistoryLonger
         /\ Len(history') \in Nat /\ Len(history') >= Len(history)
<1>1. HistoryOK'
  BY DEF ChainOK, HistoryOK, IsSeq
<1>2. SeqsGrow'
  BY DEF ChainOK, SeqsGrow, sequence_number
<1>3. LeavesOK'
  BY DEF ChainOK, LeavesOK, OnLeaf, Follows, minted
<1>4. PathsOK'
  <2>1. \A n, lvl, p : Over(n, lvl, p)' = Over(n, lvl, p)
    BY DEF Over
  <2>2. \A n, lvl, p : NodeAfter(n, lvl, p)' = NodeAfter(n, lvl, p)
    BY <2>1 DEF NodeAfter
  <2>3. PICK n : n = Len(history)
    OBVIOUS
  <2>4. \A lvl \in 0..MAX_DEPTH : \A p \in Positions(lvl) :
          MerkleTree(leaves')[lvl][p] = NodeAfter(n, lvl, p)'
    BY <2>2, <2>3 DEF ChainOK, PathsOK
  <2>5. \A m \in DOMAIN history' : \A lvl \in Levels : \A p \in Positions(lvl + 1) :
          NodeAfter(m, lvl + 1, p)' = <<NodeAfter(m, lvl, 2*p)', NodeAfter(m, lvl, 2*p + 1)'>>
    BY <2>2 DEF ChainOK, PathsOK
  <2>6. \A lvl \in 0..MAX_DEPTH : history'[1].path[lvl] = empty_node[lvl]
    BY DEF ChainOK, PathsOK
  <2>7. n = Len(history')
    BY <2>3
  <2> QED
    BY <2>4, <2>5, <2>6, <2>7 DEF PathsOK
<1>5. Len(history) \in Nat
  BY SeqFacts DEF ChainOK, HistoryOK
<1> QED
  BY <1>1, <1>2, <1>3, <1>4, <1>5 DEF ChainOK, HistoryLonger

\* Instructions on the chain.
LEMMA ExecutesKeeps ==
  ASSUME IInv, ChainOK', NEW index \in LeafIndices, NEW ix, NEW node, NEW schema,
         Executes(ix, index, node, schema)
  PROVE  IInv'
<1>1. HistoryLonger /\ Len(history') \in Nat /\ Len(history') >= Len(history)
  BY ExecutesLonger DEF IInv, ChainOK
<1>2. UNCHANGED <<published, msg, db, tasks, saved, synced, dropped>>
  BY DEF Executes, ghosts
<1>3. PublishedOK' /\ MessageOK(msg)'
  BY <1>1, <1>2, PublishedKept, MessageKept DEF IInv
<1>4. tasks' \in Seq(LeafIndices)
  BY <1>2 DEF IInv, TablesOK, AssetsOK
<1>5. TablesOK'
  BY <1>1, <1>2, <1>4, TablesStay DEF IInv, ChainOK
<1>6. DownloadsNotForgotten'
  BY <1>2, DownloadsStay DEF IInv
<1> QED
  BY <1>3, <1>5, <1>6 DEF IInv

\* Every step of the chain but Publish.
LEMMA ChainKeeps ==
  ASSUME IInv, ChainNext
  PROVE  IInv' \/ Publish
<1> USE DEF IInv
<1>1. ASSUME NEW owner \in Wallet, NEW delegate \in Wallet, Mint(owner, delegate)
      PROVE  IInv'
  BY <1>1, MintStep, ExecutesKeeps
<1>2. ASSUME NEW i \in LeafIndices, NEW key \in Wallet, ChainTransfer(i, key) \/ ChainDelegate(i, key)
      PROVE  IInv'
  BY <1>2, AssetSteps, ExecutesKeeps
<1>3. ASSUME NEW i \in LeafIndices, ChainBurn(i) \/ ChainRedeem(i)
      PROVE  IInv'
  BY <1>3, AssetSteps, ExecutesKeeps
<1>4. ASSUME NEW i \in LeafIndices, ChainCancelRedeem(i) \/ ChainDecompress(i)
      PROVE  IInv'
  BY <1>4, VoucherSteps, ExecutesKeeps
<1>5. ASSUME NEW i \in LeafIndices, NEW node, ChainWrite("append", i, node) \/ ChainWrite("replace_leaf", i, node)
      PROVE  IInv'
  BY <1>5, WriteStep, ExecutesKeeps
<1> QED
  BY <1>1, <1>2, <1>3, <1>4, <1>5 DEF ChainNext, Execute

\* Steps of the ingester, one message or task at a time.
LEMMA StepKeeps ==
  ASSUME IInv, UNCHANGED <<program, history, leaves, vouchers>>,
         PublishedOK', MessageOK(msg)', TablesOK', DownloadsNotForgotten'
  PROVE  IInv'
  BY ChainStays DEF IInv

\* A transaction ends.
LEMMA PublishKeeps ==
  ASSUME IInv, Publish
  PROVE  IInv'
<1>1. UNCHANGED <<program, history, leaves, vouchers, msg, db, tasks, saved, synced, dropped>>
  BY DEF Publish, ghosts
<1>2. HistoryLonger /\ Len(history') \in Nat /\ Len(history') >= Len(history)
  BY <1>1, ChainStays DEF IInv
<1>3. PublishedOK'
  BY PublishedGrows DEF IInv, ChainOK
<1>4. MessageOK(msg)'
  BY <1>1, <1>2, MessageKept DEF IInv
<1>5. tasks' \in Seq(LeafIndices)
  BY <1>1 DEF IInv, TablesOK, AssetsOK
<1>6. TablesOK'
  BY <1>1, <1>2, <1>5, TablesStay DEF IInv, ChainOK
<1>7. DownloadsNotForgotten'
  BY <1>1, DownloadsStay DEF IInv
<1> QED
  BY <1>1, <1>3, <1>4, <1>6, <1>7, StepKeeps

\* A message is received or left; the tables stay.
LEMMA MessageSteps ==
  ASSUME IInv, handle_transaction \/ AssertFails \/ NotHandled \/ UNCHANGED vars
  PROVE  IInv'
<1>1. UNCHANGED <<program, history, leaves, vouchers, published, db, tasks, saved, synced, dropped>>
  BY DEF handle_transaction, AssertFails, NotHandled, vars, chain, ghosts
<1>2. HistoryLonger /\ Len(history') \in Nat /\ Len(history') >= Len(history)
  BY <1>1, ChainStays DEF IInv
<1>3. PublishedOK'
  BY <1>1, <1>2, PublishedKept DEF IInv
<1>4. MessageOK(msg)'
  <2>1. CASE handle_transaction
    BY <2>1, MessageReceived DEF IInv, ChainOK
  <2>2. CASE AssertFails
    BY <1>2, <2>2, MessageKept DEF IInv, AssertFails
  <2>3. CASE NotHandled
    BY <1>2, <2>3, MessageKept DEF IInv, NotHandled
  <2>4. CASE UNCHANGED vars
    BY <1>2, <2>4, MessageKept DEF IInv, vars
  <2> QED
    BY <2>1, <2>2, <2>3, <2>4
<1>5. tasks' \in Seq(LeafIndices)
  BY <1>1 DEF IInv, TablesOK, AssetsOK
<1>6. TablesOK'
  BY <1>1, <1>2, <1>5, TablesStay DEF IInv, ChainOK
<1>7. DownloadsNotForgotten'
  BY <1>1, DownloadsStay DEF IInv
<1> QED
  BY <1>1, <1>3, <1>4, <1>6, <1>7, StepKeeps

\* A handler takes the first instruction off the message, and the chain stays.
LEMMA HandlersMove ==
  ASSUME handle_gummyroll_instruction \/ handle_bubblegum_instruction
  PROVE  UNCHANGED chain /\ msg' = Tail(msg) /\ Checked
<1>1. ASSUME handle_gummyroll_instruction
      PROVE  UNCHANGED chain /\ msg' = Tail(msg) /\ Checked
  BY <1>1 DEF handle_gummyroll_instruction, Transacts, Fails
<1>2. ASSUME NEW ix, NEW event, NEW row, UpdatesAsset(ix, event, row)
      PROVE  UNCHANGED chain /\ msg' = Tail(msg) /\ Checked
  BY <1>2 DEF UpdatesAsset, Transacts, Fails, Handling
<1>3. ASSUME MintV1
      PROVE  UNCHANGED chain /\ msg' = Tail(msg) /\ Checked
  BY <1>3 DEF MintV1, Transacts, Fails, Handling
<1>4. ASSUME Transfer \/ Burn \/ Delegate \/ Redeem \/ CancelRedeem \/ DecompressV1
      PROVE  \E ix, event, row : UpdatesAsset(ix, event, row)
  BY <1>4 DEF Transfer, Burn, Delegate, Redeem, CancelRedeem, DecompressV1
<1> QED
  BY <1>1, <1>2, <1>3, <1>4 DEF handle_bubblegum_instruction

\* The two handlers.
LEMMA HandlersKeep ==
  ASSUME IInv, handle_gummyroll_instruction \/ handle_bubblegum_instruction
  PROVE  IInv'
<1>1. UNCHANGED <<program, history, leaves, vouchers, published>> /\ msg' = Tail(msg) /\ Checked
  BY HandlersMove DEF chain
<1>2. HistoryLonger
  BY <1>1, ChainStays DEF IInv
<1>3. PublishedOK' /\ MessageOK(msg)'
  BY <1>1, <1>2, PublishedKept, MessageKept DEF IInv
<1>4. HistoryOK /\ SeqsGrow /\ LeavesOK /\ MessageOK(msg) /\ TablesOK /\ DownloadsNotForgotten
  BY DEF IInv, ChainOK
<1>5. CASE handle_gummyroll_instruction
  <2>1. TablesOK'
    BY <1>4, <1>5, GummyrollKeeps
  <2>2. DownloadsNotForgotten'
    <3>1. CASE Fails
      BY <1>4, <3>1, DownloadsStay DEF Fails, ghosts
    <3>2. CASE db' = save_changelog_events(db, Lines) /\ UNCHANGED <<tasks, dropped>>
      <4>1. Newest(db, saved) /\ IsSeq(Lines) /\ get_gummy_roll_events(Lines) \subseteq ChangeLogNumbers
        BY <1>4, <1>5, OwnEvents DEF handle_gummyroll_instruction, TablesOK
      <4>2. db'.asset = db.asset
        BY <1>4, <3>2, <4>1, SaveAll
      <4> QED
        BY <1>4, <3>2, <4>2, DownloadsStay
    <3> QED
      BY <1>5, <3>1, <3>2 DEF handle_gummyroll_instruction, Transacts
  <2> QED
    BY <1>1, <1>3, <2>1, <2>2, StepKeeps
<1>6. CASE MintV1
  <2>1. TablesOK' /\ DownloadsNotForgotten'
    BY <1>4, <1>6, MintKeeps, MintKeepsDownloads
  <2> QED
    BY <1>1, <1>3, <2>1, StepKeeps
<1>7. CASE Transfer \/ Burn \/ Delegate \/ Redeem \/ CancelRedeem \/ DecompressV1
  <2>1. TablesOK' /\ DownloadsNotForgotten'
    BY <1>4, <1>7, UpdateHandlersKeep, UpdateHandlersKeepDownloads
  <2> QED
    BY <1>1, <1>3, <2>1, StepKeeps
<1> QED
  BY <1>5, <1>6, <1>7 DEF handle_bubblegum_instruction

\* The worker takes a task, or the process is started again.
LEMMA TaskSteps ==
  ASSUME IInv, TaskCompletes \/ TaskFails \/ Restart
  PROVE  IInv'
<1>1. UNCHANGED <<program, history, leaves, vouchers, published>> /\ (UNCHANGED msg \/ msg' = <<>>)
  BY DEF TaskCompletes, TaskFails, Restart, chain
<1>2. HistoryLonger /\ Len(history') \in Nat /\ Len(history') >= Len(history)
  BY <1>1, ChainStays DEF IInv
<1>3. PublishedOK' /\ MessageOK(msg)'
  BY <1>1, <1>2, PublishedKept, MessageKept DEF IInv
<1>4. HistoryOK /\ TablesOK /\ DownloadsNotForgotten /\ tasks \in Seq(LeafIndices)
  BY DEF IInv, ChainOK, TablesOK, AssetsOK
<1>5. DownloadsNotForgotten'
  BY <1>4, TasksKeepDownloads
<1>6. CASE TaskCompletes
  BY <1>1, <1>3, <1>4, <1>5, <1>6, StoredKeeps, StepKeeps
<1>7. CASE TaskFails \/ Restart
  <2>1. UNCHANGED <<db, saved, synced>>
    BY <1>7 DEF TaskFails, Restart
  <2>2. tasks' \in Seq(LeafIndices)
    <3>1. CASE TaskFails
      <4>1. tasks # <<>> /\ tasks' = Tail(tasks)
        BY <3>1 DEF TaskFails, TaskErrored
      <4> QED
        BY <1>4, <4>1
    <3>2. CASE Restart
      <4>1. tasks' = <<>>
        BY <3>2 DEF Restart
      <4> QED
        BY <4>1
    <3> QED
      BY <1>7, <3>1, <3>2
  <2>3. TablesOK'
    BY <1>2, <1>4, <2>1, <2>2, TablesStay
  <2> QED
    BY <1>1, <1>3, <1>5, <2>3, StepKeeps
<1> QED
  BY <1>6, <1>7

\* Every step keeps the invariant.
LEMMA NextKeeps == IInv /\ [Next]_vars => IInv'
<1> SUFFICES ASSUME IInv, [Next]_vars PROVE IInv'
  OBVIOUS
<1> QED
  BY ChainKeeps, PublishKeeps, MessageSteps, HandlersKeep, TaskSteps DEF Next

\* The tree without leaves.
LEMMA EmptyTree ==
  ASSUME NEW array, \A i \in LeafIndices : array[i] = EMPTY
  PROVE  \A lvl \in 0..MAX_DEPTH : \A p \in Positions(lvl) : MerkleTree(array)[lvl][p] = empty_node[lvl]
<1> DEFINE S == {lvl \in 0..MAX_DEPTH : \A p \in Positions(lvl) : MerkleTree(array)[lvl][p] = empty_node[lvl]}
<1>1. MAX_DEPTH \in Nat /\ MAX_DEPTH \in 1..30
  BY DepthAssumption
<1>2. 0 \in S
  <2>1. Positions(0) = LeafIndices
    BY <1>1 DEF Positions, Width, LeafIndices
  <2>2. MerkleTree(array)[0] = array /\ empty_node[0] = EMPTY
    BY TreeStep, EmptyStep
  <2> QED
    BY <1>1, <2>1, <2>2
<1>3. ASSUME NEW lvl \in 0..MAX_DEPTH-1, lvl \in S
      PROVE  lvl + 1 \in S
  <2>1. lvl \in Levels /\ lvl + 1 \in 0..MAX_DEPTH
    BY <1>1 DEF Levels
  <2>2. ASSUME NEW p \in Positions(lvl + 1)
        PROVE  MerkleTree(array)[lvl + 1][p] = empty_node[lvl + 1]
    <3>1. 2*p \in Positions(lvl) /\ 2*p + 1 \in Positions(lvl)
      BY <2>1, Children
    <3>2. MerkleTree(array)[lvl + 1][p] = <<MerkleTree(array)[lvl][2*p], MerkleTree(array)[lvl][2*p + 1]>>
      BY <2>1, TreeStep
    <3>3. empty_node[lvl + 1] = <<empty_node[lvl], empty_node[lvl]>>
      BY <2>1, EmptyStep
    <3> QED
      BY <1>3, <3>1, <3>2, <3>3
  <2> QED
    BY <2>1, <2>2
<1>4. \A lvl \in 0..MAX_DEPTH : lvl \in S
  <2> HIDE DEF S
  <2> QED
    BY <1>1, <1>2, <1>3, Upwards
<1> QED
  BY <1>4

\* The first instruction creates the tree.
LEMMA FirstInstruction ==
  ASSUME Init
  PROVE  /\ IsSeq(history) /\ Len(history) = 1 /\ DOMAIN history = {1} /\ 2..Len(history) = {}
         /\ history[1].ix = "create" /\ history[1].index = 0 /\ history[1].seq = 0
         /\ \A lvl \in 0..MAX_DEPTH : history[1].path[lvl] = empty_node[lvl]
         /\ minted = 0 /\ sequence_number = 1
<1>1. PICK op : op = [ix |-> "create", index |-> 0, seq |-> 0, path |-> PathOf(leaves, 0), schema |-> NoSchema]
  OBVIOUS
<1>2. history = <<op>>
  BY <1>1 DEF Init
<1>3. IsSeq(history) /\ Len(history) = 1 /\ history[1] = op
  BY <1>2, SmallSeqs
<1>4. DOMAIN history = {1}
  BY <1>3, SeqFacts
<1>5. op.ix = "create" /\ op.index = 0 /\ op.seq = 0 /\ op.path = PathOf(leaves, 0)
  BY <1>1
<1>6. ASSUME NEW lvl \in 0..MAX_DEPTH
      PROVE  op.path[lvl] = empty_node[lvl]
  <2>1. 0 \in LeafIndices
    BY Capacity DEF LeafIndices
  <2>2. Ancestor(0, lvl) \in Positions(lvl)
    BY <2>1, AncestorInTree
  <2>3. MerkleTree(leaves)[lvl][Ancestor(0, lvl)] = empty_node[lvl]
    BY <2>2, EmptyTree DEF Init
  <2> QED
    BY <1>5, <2>3 DEF PathOf, Ancestor
<1>7. minted = 0
  <2>1. {k \in DOMAIN history : history[k].ix \in {"MintV1", "append"}} = {}
    BY <1>3, <1>4, <1>5
  <2> QED
    BY <2>1, FS_EmptySet DEF minted
<1>8. sequence_number = 1
  <2>1. {k \in DOMAIN history : history[k].ix # "DecompressV1"} = {1}
    BY <1>3, <1>4, <1>5
  <2> QED
    BY <2>1, FS_Singleton DEF sequence_number
<1> QED
  BY <1>3, <1>4, <1>5, <1>6, <1>7, <1>8

\* The chain at first.
LEMMA InitChain ==
  ASSUME Init
  PROVE  ChainOK
<1>1. /\ IsSeq(history) /\ Len(history) = 1 /\ DOMAIN history = {1} /\ 2..Len(history) = {}
      /\ history[1].ix = "create" /\ history[1].index = 0 /\ history[1].seq = 0
      /\ \A lvl \in 0..MAX_DEPTH : history[1].path[lvl] = empty_node[lvl]
      /\ minted = 0 /\ sequence_number = 1
  BY FirstInstruction
<1>2. HistoryOK
  <2>1. 0 \in LeafIndices
    BY Capacity DEF LeafIndices
  <2> QED
    BY <1>1, <2>1 DEF HistoryOK, Init
<1>3. SeqsGrow
  BY <1>1 DEF SeqsGrow
<1>4. LeavesOK
  <2>1. \A i : OnLeaf(i) = {}
    BY <1>1 DEF OnLeaf
  <2>2. /\ DOMAIN leaves = LeafIndices /\ DOMAIN vouchers = LeafIndices
        /\ \A i \in LeafIndices : leaves[i] = EMPTY /\ vouchers[i] = EMPTY
    BY DEF Init
  <2> QED
    BY <1>1, <2>1, <2>2 DEF LeavesOK
<1>5. PathsOK
  <2>1. \A n \in DOMAIN history : \A lvl, p : Over(n, lvl, p) = {}
    BY <1>1 DEF Over
  <2>2. \A n \in DOMAIN history : \A lvl, p : NodeAfter(n, lvl, p) = empty_node[lvl]
    BY <2>1 DEF NodeAfter
  <2>3. \A lvl \in 0..MAX_DEPTH : \A p \in Positions(lvl) : MerkleTree(leaves)[lvl][p] = empty_node[lvl]
    BY EmptyTree DEF Init
  <2>4. \A lvl \in 0..MAX_DEPTH : \A p \in Positions(lvl) :
          MerkleTree(leaves)[lvl][p] = NodeAfter(Len(history), lvl, p)
    BY <1>1, <2>2, <2>3
  <2>5. \A n \in DOMAIN history : \A lvl \in Levels : \A p \in Positions(lvl + 1) :
          NodeAfter(n, lvl + 1, p) = <<NodeAfter(n, lvl, 2*p), NodeAfter(n, lvl, 2*p + 1)>>
    BY <2>2, EmptyStep
  <2> QED
    BY <1>1, <2>4, <2>5 DEF PathsOK
<1> QED
  BY <1>2, <1>3, <1>4, <1>5 DEF ChainOK

\* The first states satisfy the invariant.
LEMMA InitKeeps == Init => IInv
<1> SUFFICES ASSUME Init PROVE IInv
  OBVIOUS
<1>1. ChainOK
  BY InitChain
<1>2. PublishedOK
  <2>1. PICK ops : ops = <<1>>
    OBVIOUS
  <2>2. IsSeq(ops) /\ Len(ops) = 1 /\ ops[1] = 1
    BY <2>1, SmallSeqs
  <2>3. IsOps(ops)
    BY <2>2, FirstInstruction DEF IsOps
  <2>4. TransactionOK(Plain(ops))
    BY <1>1, <2>3, TransactionsOK DEF ChainOK
  <2>5. PICK pub : pub = [ops |-> {1}, tx |-> Plain(ops)]
    OBVIOUS
  <2>6. published = <<pub>> /\ pub.tx = Plain(ops)
    BY <2>1, <2>5 DEF Init
  <2>7. IsSeq(published) /\ Len(published) = 1 /\ published[1] = pub
    BY <2>6, SmallSeqs
  <2>8. DOMAIN published = {1}
    BY <2>7, SeqFacts
  <2> QED
    BY <2>4, <2>6, <2>7, <2>8 DEF PublishedOK
<1>3. MessageOK(msg)
  BY SmallSeqs DEF Init, MessageOK
<1>4. /\ db = [cl_items |-> <<>>, backfill_items |-> EmptyBag, asset |-> <<>>]
      /\ saved = {} /\ tasks = <<>> /\ synced = [i \in LeafIndices |-> 0]
  BY DEF Init
<1>5. DOMAIN db.asset = {} /\ DOMAIN db.cl_items = {}
  BY <1>4
<1>6. Newest(db, saved)
  <2>1. \A n : TouchingOf(saved, n) = {}
    BY <1>4 DEF TouchingOf
  <2>2. IsDb(db)
    BY <1>4 DEF IsDb
  <2> QED
    BY <1>4, <1>5, <2>1, <2>2 DEF Newest
<1>7. AssetsOK
  <2>1. db.asset \in [DOMAIN db.asset -> Rows]
    BY <1>4
  <2>2. tasks \in Seq(LeafIndices)
    BY <1>4
  <2> QED
    BY <1>4, <1>5, <2>1, <2>2 DEF AssetsOK
<1>8. SyncedOK
  BY <1>4, <1>5 DEF SyncedOK
<1>9. AssetsFollowChain /\ DownloadsNotForgotten
  BY <1>5 DEF AssetsFollowChain, DownloadsNotForgotten
<1> QED
  BY <1>1, <1>2, <1>3, <1>6, <1>7, <1>8, <1>9 DEF IInv, TablesOK

\* The inductive invariant holds in every state: the chain's history tells the
\* tree at every time, the logs of a message are those of its instructions, and
\* the rows of the tables are those of the instructions committed.
THEOREM InvariantHolds == Spec => []IInv
  BY InitKeeps, NextKeeps, PTL DEF Spec

\* A row of an asset whose instructions were committed in order shows what the
\* last of them left on the chain.
THEOREM AssetsFollowChainHolds == Spec => []AssetsFollowChain
<1>1. IInv => AssetsFollowChain
  BY DEF IInv, TablesOK
<1> QED
  BY <1>1, InvariantHolds, PTL

\* The download of an asset that waits for its metadata is queued or was dropped.
THEOREM DownloadsNotForgottenHolds == Spec => []DownloadsNotForgotten
<1>1. IInv => DownloadsNotForgotten
  BY DEF IInv
<1> QED
  BY <1>1, InvariantHolds, PTL

-----------------------------------------------------------------------------
(* The rows of cl_items. *)

\* The nodes that the properties speak of are those of the invariant.
LEMMA TouchingIs ==
  ASSUME HistoryOK, Newest(db, saved), NEW lvl \in 0..MAX_DEPTH, NEW p \in Positions(lvl)
  PROVE  Touching(lvl, p) = TouchingOf(saved, NodeAt(lvl, p))
<1>1. saved \subseteq DOMAIN history
  BY DEF Newest, ChangeLogNumbers
<1>2. ASSUME NEW k \in saved, history[k].index \div 2^lvl = p
      PROVE  NodeAt(lvl, p) = NodeAt(lvl, Ancestor(history[k].index, lvl))
  BY <1>2 DEF Ancestor
<1>3. ASSUME NEW k \in saved, NEW l \in 0..MAX_DEPTH,
             NodeAt(lvl, p) = NodeAt(l, Ancestor(history[k].index, l))
      PROVE  history[k].index \div 2^lvl = p
  <2>1. PathNode(k, l) = NodeAt(lvl, p)
    BY <1>3 DEF PathNode
  <2>2. l = lvl /\ Ancestor(history[k].index, lvl) = p
    BY <1>1, <2>1, PathNodeAt
  <2> QED
    BY <2>2 DEF Ancestor
<1> QED
  BY <1>2, <1>3 DEF Touching, TouchingOf

\* A node that a change log in the table touches is a node of the tree, and its
\* row is of the latest of them.
LEMMA RowIs ==
  ASSUME HistoryOK, Newest(db, saved), NEW n, TouchingOf(saved, n) # {}
  PROVE  LET k == Max(TouchingOf(saved, n))
         IN  /\ k \in saved /\ k \in DOMAIN history
             /\ \E lvl \in 0..MAX_DEPTH :
                  /\ n = NodeAt(lvl, Ancestor(history[k].index, lvl))
                  /\ Ancestor(history[k].index, lvl) \in Positions(lvl)
                  /\ n \in DOMAIN db.cl_items
                  /\ db.cl_items[n] = [hash |-> history[k].path[lvl], seq |-> history[k].seq, level |-> lvl]
<1>1. PICK k : k = Max(TouchingOf(saved, n))
  OBVIOUS
<1>2. saved \subseteq ChangeLogNumbers
  BY DEF Newest
<1>3. k \in TouchingOf(saved, n)
  BY <1>1, <1>2, TouchingFacts
<1>4. k \in saved /\ k \in DOMAIN history
  BY <1>2, <1>3 DEF TouchingOf, ChangeLogNumbers
<1>5. PICK lvl \in 0..MAX_DEPTH : n = NodeAt(lvl, Ancestor(history[k].index, lvl))
  BY <1>3 DEF TouchingOf
<1>6. PICK p : p = Ancestor(history[k].index, lvl)
  OBVIOUS
<1>7. p \in Positions(lvl)
  BY <1>4, <1>6, AncestorInTree DEF HistoryOK
<1>8. n = NodeAt(lvl, p)
  BY <1>5, <1>6
<1>9. /\ n \in DOMAIN db.cl_items
      /\ db.cl_items[n] = [hash |-> history[k].path[lvl], seq |-> history[k].seq, level |-> lvl]
  BY <1>1, <1>7, <1>8 DEF Newest
<1> QED
  BY <1>1, <1>4, <1>6, <1>7, <1>8, <1>9

\* Each row is of the latest change log that touches it.
LEMMA RowsAreNewest ==
  ASSUME HistoryOK, Newest(db, saved)
  PROVE  NewestWins
<1> SUFFICES ASSUME NEW lvl \in 0..MAX_DEPTH, NEW p \in 0 .. 2^(MAX_DEPTH - lvl) - 1
             PROVE  LET touching == Touching(lvl, p)
                        last == history[Max(touching)]
                        n == 2^(MAX_DEPTH - lvl) + p
                    IN  IF touching = {} THEN n \notin DOMAIN db.cl_items
                        ELSE /\ n \in DOMAIN db.cl_items
                             /\ db.cl_items[n] = [hash |-> last.path[lvl], seq |-> last.seq, level |-> lvl]
  BY DEF NewestWins
<1>1. p \in Positions(lvl) /\ 2^(MAX_DEPTH - lvl) + p = NodeAt(lvl, p)
  BY DEF Positions, NodeAt, Width
<1>2. PICK n : n = NodeAt(lvl, p)
  OBVIOUS
<1>3. Touching(lvl, p) = TouchingOf(saved, n)
  BY <1>1, <1>2, TouchingIs
<1>4. TouchingOf(saved, n) = {} => n \notin DOMAIN db.cl_items
  BY DEF Newest
<1>5. TouchingOf(saved, n) # {} =>
        LET last == history[Max(TouchingOf(saved, n))]
        IN  /\ n \in DOMAIN db.cl_items
            /\ db.cl_items[n] = [hash |-> last.path[lvl], seq |-> last.seq, level |-> lvl]
  BY <1>1, <1>2 DEF Newest
<1> QED
  BY <1>1, <1>2, <1>3, <1>4, <1>5

\* The later of two change logs has the higher number.
LEMMA LaterIsHigher ==
  ASSUME HistoryOK, SeqsGrow, NEW j \in ChangeLogNumbers, NEW k \in DOMAIN history, j <= k
  PROVE  history[j].seq <= history[k].seq /\ history[j].seq \in Nat /\ history[k].seq \in Nat
<1>1. /\ j \in DOMAIN history /\ history[j].ix # "DecompressV1"
      /\ history[j].seq \in Nat /\ history[k].seq \in Nat
  BY DEF ChangeLogNumbers, HistoryOK
<1>2. j \in Nat /\ k \in Nat
  BY <1>1, SeqFacts DEF HistoryOK
<1>3. CASE j = k
  BY <1>1, <1>3
<1>4. CASE j < k
  BY <1>1, <1>4 DEF SeqsGrow
<1> QED
  BY <1>2, <1>3, <1>4

\* The parent of a node.
LEMMA ParentNode ==
  ASSUME NEW i \in LeafIndices, NEW lvl \in Levels
  PROVE  /\ NodeAt(lvl, Ancestor(i, lvl)) \div 2 = NodeAt(lvl + 1, Ancestor(i, lvl + 1))
         /\ NodeAt(lvl, Ancestor(i, lvl)) \in Nat /\ NodeAt(lvl, Ancestor(i, lvl)) > 1
<1>1. i \in Nat
  BY DEF LeafIndices
<1>2. PICK a, b, w : a = Ancestor(i, lvl) /\ b = Ancestor(i, lvl + 1) /\ w = Width(lvl + 1)
  OBVIOUS
<1>3. a \in Nat /\ b = a \div 2
  BY <1>1, <1>2, AncestorStep
<1>4. w \in Nat \ {0} /\ Width(lvl) = 2 * w
  BY <1>2, WidthStep
<1>5. (2 * w + a) \div 2 = w + b /\ 2 * w + a > 1 /\ 2 * w + a \in Nat
  BY <1>3, <1>4
<1> QED
  BY <1>2, <1>4, <1>5 DEF NodeAt

\* The rows of a change log come together: it touches every node above its leaf.
LEMMA RowsAreWhole ==
  ASSUME HistoryOK, SeqsGrow, Newest(db, saved), AssetsOK
  PROVE  WholeTransactions
<1>1. SUFFICES ASSUME NEW n \in DOMAIN db.cl_items
               PROVE  IF n < 2^MAX_DEPTH
                      THEN n = 1 \/ (n \div 2 \in DOMAIN db.cl_items /\ db.cl_items[n \div 2].seq >= db.cl_items[n].seq)
                      ELSE program = "bubblegum" => node_idx_to_leaf_idx(n, MAX_DEPTH) \in DOMAIN db.asset
  BY DEF WholeTransactions
<1>2. TouchingOf(saved, n) # {} /\ saved \subseteq ChangeLogNumbers
  BY DEF Newest
<1>3. PICK k : k = Max(TouchingOf(saved, n))
  OBVIOUS
<1>4. k \in saved /\ k \in DOMAIN history
  BY <1>2, <1>3, RowIs
<1>5. PICK lvl \in 0..MAX_DEPTH :
        /\ n = NodeAt(lvl, Ancestor(history[k].index, lvl))
        /\ Ancestor(history[k].index, lvl) \in Positions(lvl)
        /\ db.cl_items[n] = [hash |-> history[k].path[lvl], seq |-> history[k].seq, level |-> lvl]
  BY <1>2, <1>3, RowIs
<1>6. PICK i \in LeafIndices : i = history[k].index
  BY <1>4 DEF HistoryOK
<1>7. db.cl_items[n].seq = history[k].seq
  BY <1>5
<1>8. MAX_DEPTH \in 1..30
  BY DepthAssumption
<1>9. CASE lvl = 0
  <2>1. 0 \in Levels /\ i \in Nat
    BY <1>8 DEF Levels, LeafIndices
  <2>2. Ancestor(i, 0) = i /\ Width(0) = 2^MAX_DEPTH /\ Width(0) \in Nat \ {0}
    BY <2>1, AncestorStep, WidthStep
  <2>3. n = 2^MAX_DEPTH + i
    BY <1>5, <1>6, <1>9, <2>2 DEF NodeAt
  <2>4. ~(n < 2^MAX_DEPTH) /\ n - 2^MAX_DEPTH = i
    BY <2>1, <2>2, <2>3
  <2>5. program = "bubblegum" => i \in DOMAIN db.asset
    BY <1>4, <1>6 DEF AssetsOK
  <2> QED
    BY <2>4, <2>5 DEF node_idx_to_leaf_idx
<1>10. CASE lvl # 0
  <2>1. 0 \in 0..MAX_DEPTH /\ 0 < lvl
    BY <1>8, <1>10
  <2>2. 2 * Width(lvl) <= Width(0)
    BY <2>1, WidthOrder
  <2>3. Width(lvl) \in Nat \ {0} /\ Width(0) \in Nat
    BY <2>1, WidthPositive
  <2>4. Width(0) = 2^MAX_DEPTH
    BY <1>8 DEF Width
  <2>5. n < 2^MAX_DEPTH
    BY <1>5, <2>2, <2>3, <2>4 DEF NodeAt, Positions
  <2>6. CASE lvl = MAX_DEPTH
    <3>1. Ancestor(i, lvl) = 0
      BY <2>6, AncestorInTree
    <3>2. 0 \in Levels
      BY <1>8 DEF Levels
    <3>3. Width(MAX_DEPTH) = 1
      BY <3>2, WidthStep
    <3>4. n = 1
      BY <1>5, <1>6, <2>6, <3>1, <3>3 DEF NodeAt
    <3> QED
      BY <2>5, <3>4
  <2>7. CASE lvl # MAX_DEPTH
    <3>1. lvl \in Levels /\ lvl + 1 \in 0..MAX_DEPTH
      BY <1>8, <2>7 DEF Levels
    <3>2. PICK m : m = n \div 2
      OBVIOUS
    <3>3. m = NodeAt(lvl + 1, Ancestor(history[k].index, lvl + 1))
      BY <1>5, <1>6, <3>1, <3>2, ParentNode
    <3>4. k \in TouchingOf(saved, m)
      BY <1>4, <3>1, <3>3 DEF TouchingOf
    <3>5. PICK j : j = Max(TouchingOf(saved, m))
      OBVIOUS
    <3>6. k <= j
      BY <1>2, <3>4, <3>5, TouchingFacts
    <3>7. j \in DOMAIN history /\ m \in DOMAIN db.cl_items /\ db.cl_items[m].seq = history[j].seq
      <4>1. TouchingOf(saved, m) # {}
        BY <3>4
      <4>2. /\ j \in DOMAIN history
            /\ \E l \in 0..MAX_DEPTH :
                 /\ m \in DOMAIN db.cl_items
                 /\ db.cl_items[m] = [hash |-> history[j].path[l], seq |-> history[j].seq, level |-> l]
        BY <3>5, <4>1, RowIs
      <4> QED
        BY <4>2
    <3>8. history[k].seq <= history[j].seq /\ history[k].seq \in Nat /\ history[j].seq \in Nat
      BY <1>2, <1>4, <3>6, <3>7, LaterIsHigher
    <3>9. db.cl_items[m].seq >= db.cl_items[n].seq
      BY <1>7, <3>7, <3>8
    <3> QED
      BY <2>5, <3>2, <3>7, <3>9
  <2> QED
    BY <2>6, <2>7
<1> QED
  BY <1>9, <1>10

\* Whatever order the change logs are committed in, the latest on the chain wins.
THEOREM NewestWinsHolds == Spec => []NewestWins
<1>1. IInv => NewestWins
  BY RowsAreNewest DEF IInv, ChainOK, TablesOK
<1> QED
  BY <1>1, InvariantHolds, PTL

\* All rows of a handler's transaction are there, or none is.
THEOREM WholeTransactionsHolds == Spec => []WholeTransactions
<1>1. IInv => WholeTransactions
  BY RowsAreWhole DEF IInv, ChainOK, TablesOK
<1> QED
  BY <1>1, InvariantHolds, PTL

-----------------------------------------------------------------------------
(* Proofs read from cl_items. *)

\* The node that the proof of leaf i has at a level, the root at the last.
Beside(i, lvl) == IF lvl = MAX_DEPTH THEN 0 ELSE Sibling(Ancestor(i, lvl))

\* Halving the index of a leaf's node climbs the tree.
LEMMA HalvingClimbs ==
  ASSUME NEW i \in LeafIndices
  PROVE  \A k \in 0..MAX_DEPTH : NodeAt(0, i) \div 2^k = NodeAt(k, Ancestor(i, k))
<1>1. MAX_DEPTH \in Nat /\ MAX_DEPTH \in 1..30 /\ i \in Nat
  BY DepthAssumption DEF LeafIndices
<1>2. PICK x : x = NodeAt(0, i)
  OBVIOUS
<1>3. 0 \in Levels /\ Width(0) \in Nat
  BY <1>1, WidthPositive DEF Levels
<1>4. x \in Nat
  BY <1>1, <1>2, <1>3 DEF NodeAt
<1> DEFINE S == {k \in 0..MAX_DEPTH : Ancestor(x, k) = NodeAt(k, Ancestor(i, k))}
<1>5. 0 \in S
  <2>1. Ancestor(x, 0) = x /\ Ancestor(i, 0) = i
    BY <1>1, <1>3, <1>4, AncestorStep
  <2> QED
    BY <1>1, <1>2, <2>1
<1>6. ASSUME NEW k \in 0..MAX_DEPTH-1, k \in S
      PROVE  k + 1 \in S
  <2>1. k \in Levels /\ k + 1 \in 0..MAX_DEPTH
    BY <1>1 DEF Levels
  <2>2. Ancestor(x, k + 1) = Ancestor(x, k) \div 2
    BY <1>4, <2>1, AncestorStep
  <2>3. NodeAt(k, Ancestor(i, k)) \div 2 = NodeAt(k + 1, Ancestor(i, k + 1))
    BY <2>1, ParentNode
  <2> QED
    BY <1>6, <2>1, <2>2, <2>3
<1>7. \A k \in 0..MAX_DEPTH : k \in S
  <2> HIDE DEF S
  <2> QED
    BY <1>1, <1>5, <1>6, Upwards
<1> QED
  BY <1>2, <1>7 DEF Ancestor

\* The nodes beside the path, in the tree.
LEMMA BesidePath ==
  ASSUME NEW i \in LeafIndices, NEW lvl \in 0..MAX_DEPTH
  PROVE  /\ Beside(i, lvl) \in Positions(lvl)
         /\ lvl \in Levels => Sibling(NodeAt(lvl, Ancestor(i, lvl))) = NodeAt(lvl, Beside(i, lvl))
         /\ NodeAt(MAX_DEPTH, Beside(i, MAX_DEPTH)) = 1
<1>1. MAX_DEPTH \in 1..30 /\ 0 \in Levels
  BY DepthAssumption DEF Levels
<1>2. Width(MAX_DEPTH) = 1
  BY <1>1, WidthStep
<1>3. CASE lvl = MAX_DEPTH
  BY <1>1, <1>2, <1>3 DEF Beside, NodeAt, Positions, Levels
<1>4. CASE lvl # MAX_DEPTH
  <2>1. lvl \in Levels
    BY <1>1, <1>4 DEF Levels
  <2>2. PICK a, w : a = Ancestor(i, lvl) /\ w = Width(lvl + 1)
    OBVIOUS
  <2>3. a \in Nat /\ Sibling(a) \in Positions(lvl)
    BY <2>1, <2>2, PathStep
  <2>4. w \in Nat \ {0} /\ Width(lvl) = 2 * w
    BY <2>1, <2>2, WidthStep
  <2>5. Sibling(2 * w + a) = 2 * w + Sibling(a)
    BY <2>3, <2>4 DEF Sibling
  <2> QED
    BY <1>2, <1>4, <2>2, <2>3, <2>4, <2>5 DEF Beside, NodeAt
<1> QED
  BY <1>3, <1>4

\* get_required_nodes_for_proof lists them.
LEMMA RequiredNodes ==
  ASSUME NEW i \in LeafIndices
  PROVE  LET nodes == get_required_nodes_for_proof(NodeAt(0, i))
         IN  /\ IsSeq(nodes) /\ Len(nodes) = MAX_DEPTH + 1
             /\ \A lvl \in 0..MAX_DEPTH : nodes[lvl + 1] = NodeAt(lvl, Beside(i, lvl))
<1>1. MAX_DEPTH \in 1..30 /\ MAX_DEPTH \in Nat
  BY DepthAssumption
<1>2. PICK x : x = NodeAt(0, i)
  OBVIOUS
<1>3. \A k \in 0..MAX_DEPTH : x \div 2^k = NodeAt(k, Ancestor(i, k))
  BY <1>2, HalvingClimbs
<1>4. {k \in 0..MAX_DEPTH : x \div 2^k > 1} = 0..MAX_DEPTH-1
  <2>1. \A k \in 0..MAX_DEPTH-1 : k \in 0..MAX_DEPTH /\ NodeAt(k, Ancestor(i, k)) > 1
    BY <1>1, ParentNode DEF Levels
  <2>2. NodeAt(MAX_DEPTH, Ancestor(i, MAX_DEPTH)) = 1
    <3>1. 0 \in Levels /\ MAX_DEPTH \in 0..MAX_DEPTH
      BY <1>1 DEF Levels
    <3>2. Width(MAX_DEPTH) = 1 /\ Ancestor(i, MAX_DEPTH) = 0
      BY <3>1, WidthStep, AncestorInTree
    <3> QED
      BY <3>2 DEF NodeAt
  <2>3. \A k \in 0..MAX_DEPTH : k \in 0..MAX_DEPTH-1 \/ k = MAX_DEPTH
    BY <1>1
  <2>4. ~(1 > 1)
    OBVIOUS
  <2>5. \A k \in 0..MAX_DEPTH : x \div 2^k > 1 => k \in 0..MAX_DEPTH-1
    BY <1>3, <2>2, <2>3, <2>4
  <2>6. \A k \in 0..MAX_DEPTH-1 : k \in 0..MAX_DEPTH /\ x \div 2^k > 1
    BY <1>3, <2>1
  <2> QED
    BY <2>5, <2>6
<1>5. Cardinality(0..MAX_DEPTH-1) = MAX_DEPTH
  <2>1. 0 \in Int /\ MAX_DEPTH-1 \in Int /\ ~(0 > MAX_DEPTH-1)
    BY <1>1
  <2>2. Cardinality(0..MAX_DEPTH-1) = MAX_DEPTH-1-0+1
    BY <2>1, FS_Interval
  <2> QED
    BY <1>1, <2>2
<1>6. PICK s : s = [k \in 1..MAX_DEPTH |-> Sibling(x \div 2^(k-1))]
  OBVIOUS
<1>7. IsSeq(s) /\ Len(s) = MAX_DEPTH
  BY <1>1, <1>6, FunctionIsSeq
<1>8. PICK t : t = <<1>>
  OBVIOUS
<1>9. IsSeq(t) /\ Len(t) = 1 /\ t[1] = 1
  BY <1>8, SmallSeqs
<1>10. PICK nodes : nodes = Joined(s, t)
  OBVIOUS
<1>11a. IsSeq(s) /\ IsSeq(t)
  BY <1>7, <1>9
<1>11b. /\ IsSeq(nodes) /\ Len(nodes) = Len(s) + Len(t)
        /\ \A k \in 1..Len(s) : nodes[k] = s[k]
        /\ \A k \in 1..Len(t) : nodes[Len(s) + k] = t[k]
  <2>1. /\ IsSeq(Joined(s, t)) /\ Len(Joined(s, t)) = Len(s) + Len(t)
        /\ \A k \in 1..Len(s) : Joined(s, t)[k] = s[k]
        /\ \A k \in 1..Len(t) : Joined(s, t)[Len(s) + k] = t[k]
    BY ONLY <1>11a, ConcatFacts
  <2> QED
    BY <1>10, <2>1
<1>11. IsSeq(nodes) /\ Len(nodes) = MAX_DEPTH + 1
  BY <1>7, <1>9, <1>11b
<1>12. \A k \in 1..MAX_DEPTH : nodes[k] = s[k]
  BY <1>7, <1>11b
<1>13. nodes[MAX_DEPTH + 1] = 1
  <2>1. 1 \in 1..Len(t)
    BY <1>9
  <2>2. nodes[Len(s) + 1] = t[1]
    BY <1>11b, <2>1
  <2> QED
    BY <1>7, <1>9, <2>2
<1>14. get_required_nodes_for_proof(NodeAt(0, i)) = nodes
  BY <1>2, <1>4, <1>5, <1>6, <1>8, <1>10 DEF get_required_nodes_for_proof, Joined
<1>15. ASSUME NEW lvl \in 0..MAX_DEPTH
       PROVE  nodes[lvl + 1] = NodeAt(lvl, Beside(i, lvl))
  <2>1. CASE lvl = MAX_DEPTH
    BY <1>13, <2>1, BesidePath
  <2>2. CASE lvl # MAX_DEPTH
    <3>1. lvl + 1 \in 1..MAX_DEPTH /\ (lvl + 1) - 1 = lvl /\ lvl \in Levels
      BY <1>1, <2>2 DEF Levels
    <3>2. s[lvl + 1] = Sibling(x \div 2^lvl)
      BY <1>6, <3>1
    <3>3. s[lvl + 1] = Sibling(NodeAt(lvl, Ancestor(i, lvl)))
      BY <1>3, <3>2
    <3> QED
      BY <1>12, <3>1, <3>3, BesidePath
  <2> QED
    BY <2>1, <2>2
<1> QED
  BY <1>11, <1>14, <1>15

\* Numbers in descending order can be listed in one way only.
LEMMA OneOrder ==
  ASSUME NEW n \in Nat, NEW T \in SUBSET Int, NEW s \in [1..n -> T], NEW t \in [1..n -> T],
         \A j, k \in 1..n : j < k => s[j] > s[k],
         \A j, k \in 1..n : j < k => t[j] > t[k],
         \A x \in T : \E k \in 1..n : t[k] = x
  PROVE  \A k \in 1..n : s[k] = t[k]
<1>1. PICK f : f = [k \in 1..n |-> CHOOSE j \in 1..n : t[j] = s[k]]
  OBVIOUS
<1>2. \A k \in 1..n : f[k] \in 1..n /\ t[f[k]] = s[k]
  BY <1>1
<1>3. ASSUME NEW j \in 1..n, NEW k \in 1..n, j < k
      PROVE  f[j] < f[k]
  <2>1. s[j] > s[k] /\ s[j] \in Int /\ s[k] \in Int
    BY <1>3
  <2>2. f[j] \in 1..n /\ f[k] \in 1..n /\ t[f[j]] > t[f[k]] /\ t[f[j]] \in Int /\ t[f[k]] \in Int
    BY <1>2, <2>1
  <2>3. ~(f[k] < f[j])
    <3>1. f[k] < f[j] => t[f[k]] > t[f[j]]
      BY <2>2
    <3> QED
      BY <2>2, <3>1
  <2>4. f[k] # f[j]
    <3>1. f[k] = f[j] => t[f[j]] = t[f[k]]
      OBVIOUS
    <3> QED
      BY <2>2, <3>1
  <2> QED
    BY <2>2, <2>3, <2>4
<1>4. \A k \in 1..n : f[k] >= k
  <2> DEFINE S == {k \in 0..n : k = 0 \/ f[k] >= k}
  <2>1. 0 \in S
    OBVIOUS
  <2>2. ASSUME NEW k \in 0..n-1, k \in S
        PROVE  k + 1 \in S
    <3>1. k + 1 \in 1..n /\ f[k + 1] \in 1..n
      BY <1>2
    <3>2. CASE k = 0
      BY <3>1, <3>2
    <3>3. CASE k # 0
      <4>1. k \in 1..n /\ k < k + 1 /\ f[k] >= k /\ f[k] \in 1..n
        BY <1>2, <2>2, <3>3
      <4>2. f[k] < f[k + 1]
        BY <1>3, <3>1, <4>1
      <4> QED
        BY <3>1, <4>1, <4>2
    <3> QED
      BY <3>2, <3>3
  <2>3. \A k \in 0..n : k \in S
    <3> HIDE DEF S
    <3> QED
      BY <2>1, <2>2, Upwards
  <2> QED
    BY <2>3
<1>5. \A k \in 1..n : f[k] <= k
  <2> DEFINE S == {k \in 0..n : k = 0 \/ f[k] <= k}
  <2>1. n \in S
    BY <1>2
  <2>2. ASSUME NEW k \in 0..n-1, k + 1 \in S
        PROVE  k \in S
    <3>1. k + 1 \in 1..n /\ f[k + 1] \in 1..n /\ f[k + 1] <= k + 1
      BY <1>2, <2>2
    <3>2. CASE k = 0
      BY <3>2
    <3>3. CASE k # 0
      <4>1. k \in 1..n /\ k < k + 1 /\ f[k] \in 1..n
        BY <1>2, <3>3
      <4>2. f[k] < f[k + 1]
        BY <1>3, <3>1, <4>1
      <4> QED
        BY <3>1, <4>1, <4>2
    <3> QED
      BY <3>2, <3>3
  <2>3. \A k \in 0..n : k \in S
    <3> HIDE DEF S
    <3> QED
      BY <2>1, <2>2, Downwards
  <2> QED
    BY <2>3
<1>6. ASSUME NEW k \in 1..n PROVE s[k] = t[k]
  <2>1. f[k] = k
    BY <1>2, <1>4, <1>5
  <2> QED
    BY <1>2, <2>1
<1> QED
  BY <1>6

\* The nodes of a proof go up the tree: their indices get smaller.
LEMMA NodesDescend ==
  ASSUME NEW k \in 0..MAX_DEPTH, NEW l \in 0..MAX_DEPTH, k < l,
         NEW p \in Positions(k), NEW q \in Positions(l)
  PROVE  NodeAt(k, p) > NodeAt(l, q) /\ NodeAt(k, p) \in Int /\ NodeAt(l, q) \in Int
<1>1. 2 * Width(l) <= Width(k) /\ Width(k) \in Nat \ {0} /\ Width(l) \in Nat \ {0}
  BY WidthOrder, WidthPositive
<1> QED
  BY <1>1 DEF NodeAt, Positions

\* As long as the change logs have no gap, the rows are the nodes of the tree that
\* the last of them left: missing rows are empty subtrees.
AtLast(lvl, p) == NodeAfter(Max(saved), lvl, p)

RowsAtLast ==
  /\ Max(saved) \in DOMAIN history
  /\ \A lvl \in 0..MAX_DEPTH : \A p \in Positions(lvl) :
       IF NodeAt(lvl, p) \in DOMAIN db.cl_items
       THEN /\ db.cl_items[NodeAt(lvl, p)].hash = AtLast(lvl, p)
            /\ db.cl_items[NodeAt(lvl, p)].level = lvl
            /\ db.cl_items[NodeAt(lvl, p)].seq <= history[Max(saved)].seq
       ELSE AtLast(lvl, p) = empty_node[lvl]
  /\ 1 \in DOMAIN db.cl_items
  /\ db.cl_items[1].hash = history[Max(saved)].path[MAX_DEPTH]
  /\ db.cl_items[1].level = MAX_DEPTH
  /\ db.cl_items[1].seq = history[Max(saved)].seq

\* Every write up to the last change log in the table is among them.
LEMMA WithoutGap ==
  ASSUME ChainOK, Newest(db, saved), NoGap, saved # {}
  PROVE  RowsAtLast
<1>0. HistoryOK /\ SeqsGrow /\ PathsOK /\ IsSeq(history)
  BY DEF ChainOK, HistoryOK
<1>1. saved \subseteq ChangeLogNumbers
  BY DEF Newest
<1>2. saved \subseteq 1..Len(history) /\ Len(history) \in Nat /\ DOMAIN history = 1..Len(history)
  BY <1>0, <1>1, TouchingFacts, SeqFacts
<1>3. PICK K : K = Max(saved)
  OBVIOUS
<1>4. K \in saved /\ \A k \in saved : k <= K
  <2>1. saved \in SUBSET (0..Len(history))
    BY <1>2
  <2> QED
    BY <1>2, <1>3, <2>1, MaxIs
<1>5. K \in DOMAIN history /\ K \in Nat /\ K \in 1..Len(history)
  BY <1>2, <1>4
<1>6. ASSUME NEW k \in 2..K, history[k].ix # "DecompressV1"
      PROVE  k \in saved
  <2>1. k \in DOMAIN history /\ 1 \in DOMAIN history /\ 1 < k
    BY <1>2, <1>5
  <2>2. history[1].seq < history[k].seq /\ history[1].seq = 0
    BY <1>0, <2>1 DEF SeqsGrow, HistoryOK
  <2>3. ~(K < k)
    BY <1>5
  <2>4. history[k].seq > 0
    <3>1. history[k].seq \in Nat
      BY <1>0, <2>1 DEF HistoryOK
    <3> QED
      BY <2>2, <3>1
  <2> QED
    BY <1>4, <1>6, <2>1, <2>3, <2>4 DEF NoGap
<1>7. ASSUME NEW lvl \in 0..MAX_DEPTH, NEW p \in Positions(lvl)
      PROVE  /\ Over(K, lvl, p) \subseteq TouchingOf(saved, NodeAt(lvl, p))
             /\ TouchingOf(saved, NodeAt(lvl, p)) \subseteq Over(K, lvl, p) \cup {1}
  <2>1. ASSUME NEW k \in Over(K, lvl, p)
        PROVE  k \in TouchingOf(saved, NodeAt(lvl, p))
    <3>1. k \in 2..K /\ history[k].ix # "DecompressV1" /\ Ancestor(history[k].index, lvl) = p
      BY <2>1 DEF Over
    <3> QED
      BY <1>6, <3>1 DEF TouchingOf
  <2>2. ASSUME NEW k \in TouchingOf(saved, NodeAt(lvl, p)), k # 1
        PROVE  k \in Over(K, lvl, p)
    <3>1. k \in saved
      BY <2>2 DEF TouchingOf
    <3>2. PICK l \in 0..MAX_DEPTH : NodeAt(lvl, p) = NodeAt(l, Ancestor(history[k].index, l))
      BY <2>2 DEF TouchingOf
    <3>3. k \in DOMAIN history /\ history[k].ix # "DecompressV1"
      BY <1>1, <3>1 DEF ChangeLogNumbers
    <3>4. PathNode(k, l) = NodeAt(lvl, p)
      BY <3>2 DEF PathNode
    <3>5. Ancestor(history[k].index, lvl) = p
      BY <1>0, <3>3, <3>4, PathNodeAt
    <3>6. k \in 2..K
      BY <1>2, <1>4, <1>5, <2>2, <3>1
    <3> QED
      BY <3>3, <3>5, <3>6 DEF Over
  <2> QED
    BY <2>1, <2>2
<1>8. ASSUME NEW lvl \in 0..MAX_DEPTH, NEW p \in Positions(lvl),
             NodeAt(lvl, p) \notin DOMAIN db.cl_items
      PROVE  NodeAfter(K, lvl, p) = empty_node[lvl]
  <2>1. TouchingOf(saved, NodeAt(lvl, p)) = {}
    BY <1>8 DEF Newest
  <2>2. Over(K, lvl, p) = {}
    BY <1>7, <2>1
  <2> QED
    BY <2>2 DEF NodeAfter
<1>9. ASSUME NEW lvl \in 0..MAX_DEPTH, NEW p \in Positions(lvl),
             TouchingOf(saved, NodeAt(lvl, p)) # {}
      PROVE  /\ NodeAt(lvl, p) \in DOMAIN db.cl_items
             /\ db.cl_items[NodeAt(lvl, p)].hash = NodeAfter(K, lvl, p)
             /\ db.cl_items[NodeAt(lvl, p)].level = lvl
             /\ db.cl_items[NodeAt(lvl, p)].seq <= history[K].seq
  <2>1. PICK ts : ts = TouchingOf(saved, NodeAt(lvl, p))
    OBVIOUS
  <2>2. PICK m : m = Max(ts)
    OBVIOUS
  <2>3. m \in ts /\ \A k \in ts : k <= m
    BY <1>0, <1>1, <1>9, <2>1, <2>2, TouchingFacts
  <2>4. m \in saved /\ m \in DOMAIN history /\ m <= K
    BY <1>2, <1>4, <2>1, <2>3 DEF TouchingOf
  <2>5. /\ NodeAt(lvl, p) \in DOMAIN db.cl_items
        /\ db.cl_items[NodeAt(lvl, p)] = [hash |-> history[m].path[lvl], seq |-> history[m].seq, level |-> lvl]
    BY <1>9, <2>1, <2>2 DEF Newest
  <2>6. history[m].seq <= history[K].seq
    BY <1>0, <1>1, <1>5, <2>4, LaterIsHigher
  <2>7. history[m].path[lvl] = NodeAfter(K, lvl, p)
    <3>1. Over(K, lvl, p) \subseteq ts /\ ts \subseteq Over(K, lvl, p) \cup {1}
      BY <1>7, <2>1
    <3>2. Over(K, lvl, p) \in SUBSET Nat
      <4>1. Over(K, lvl, p) \subseteq 2..K
        BY DEF Over
      <4> QED
        BY <1>5, <4>1
    <3>3. CASE m = 1
      <4>1. Over(K, lvl, p) = {}
        <5>1. \A k \in Over(K, lvl, p) : k \in 2..K /\ k <= 1
          BY <2>3, <3>1, <3>3 DEF Over
        <5> QED
          BY <1>5, <5>1
      <4> QED
        BY <1>0, <3>3, <4>1 DEF NodeAfter, PathsOK
    <3>4. CASE m # 1
      <4>1. m \in Over(K, lvl, p) /\ \A k \in Over(K, lvl, p) : k <= m
        BY <2>3, <3>1, <3>4
      <4>2. Max(Over(K, lvl, p)) = m
        BY <3>2, <4>1, MaxUnique
      <4> QED
        BY <4>1, <4>2 DEF NodeAfter
    <3> QED
      BY <3>3, <3>4
  <2> QED
    BY <2>5, <2>6, <2>7
<1>10. ASSUME NEW lvl \in 0..MAX_DEPTH, NEW p \in Positions(lvl),
              NodeAt(lvl, p) \in DOMAIN db.cl_items
       PROVE  TouchingOf(saved, NodeAt(lvl, p)) # {}
  BY <1>10 DEF Newest
<1>11. /\ 1 \in DOMAIN db.cl_items /\ db.cl_items[1].hash = history[K].path[MAX_DEPTH]
       /\ db.cl_items[1].level = MAX_DEPTH /\ db.cl_items[1].seq = history[K].seq
  <2>1. MAX_DEPTH \in 0..MAX_DEPTH /\ 0 \in Levels
    BY DepthAssumption DEF Levels
  <2>2. Width(MAX_DEPTH) = 1
    BY <2>1, WidthStep
  <2>3. NodeAt(MAX_DEPTH, 0) = 1 /\ 0 \in Positions(MAX_DEPTH)
    BY <2>2 DEF NodeAt, Positions
  <2>4. TouchingOf(saved, NodeAt(MAX_DEPTH, 0)) = saved
    <3>1. \A k \in saved : Ancestor(history[k].index, MAX_DEPTH) = 0
      BY <1>0, <1>2, <2>1, AncestorInTree DEF HistoryOK
    <3> QED
      BY <2>1, <3>1 DEF TouchingOf
  <2>5. /\ NodeAt(MAX_DEPTH, 0) \in DOMAIN db.cl_items
        /\ db.cl_items[NodeAt(MAX_DEPTH, 0)]
             = [hash |-> history[K].path[MAX_DEPTH], seq |-> history[K].seq, level |-> MAX_DEPTH]
    BY <1>3, <2>1, <2>3, <2>4 DEF Newest
  <2> QED
    BY <2>3, <2>5
<1> QED
  BY <1>3, <1>5, <1>8, <1>9, <1>10, <1>11 DEF RowsAtLast, AtLast

\* get_proof_and_root gives the nodes beside the path of the leaf, and the root,
\* of that tree.
LEMMA ProofListed ==
  ASSUME RowsAtLast, HistoryOK, NEW i \in LeafIndices
  PROVE  LET list == get_proof_and_root(db.cl_items, leaf_idx_to_node_idx(i, get_height(db.cl_items)))
         IN  /\ IsSeq(list) /\ Len(list) = MAX_DEPTH + 1
             /\ \A lvl \in 0..MAX_DEPTH : list[lvl + 1] = AtLast(lvl, Beside(i, lvl))
<1>1. MAX_DEPTH \in 1..30 /\ MAX_DEPTH \in Nat /\ MAX_DEPTH + 1 \in Nat
  BY DepthAssumption
<1>2. PICK cl : cl = db.cl_items
  OBVIOUS
<1>3. PICK nodes : nodes = get_required_nodes_for_proof(NodeAt(0, i))
  OBVIOUS
<1>4. IsSeq(nodes) /\ Len(nodes) = MAX_DEPTH + 1
  BY <1>3, RequiredNodes
<1>5. \A lvl \in 0..MAX_DEPTH : nodes[lvl + 1] = NodeAt(lvl, Beside(i, lvl))
  BY <1>3, RequiredNodes
<1>6. DOMAIN nodes = 1..MAX_DEPTH+1
  BY <1>4, SeqFacts
<1>7. \A k \in 1..MAX_DEPTH+1 : k - 1 \in 0..MAX_DEPTH /\ (k - 1) + 1 = k
  BY <1>1
<1>8. \A lvl \in 0..MAX_DEPTH : lvl + 1 \in 1..MAX_DEPTH+1 /\ (lvl + 1) - 1 = lvl
  BY <1>1
<1>9. ASSUME NEW k \in 1..MAX_DEPTH+1
      PROVE  /\ nodes[k] = NodeAt(k - 1, Beside(i, k - 1)) /\ k - 1 \in 0..MAX_DEPTH
             /\ Beside(i, k - 1) \in Positions(k - 1)
  <2>1. k - 1 \in 0..MAX_DEPTH /\ (k - 1) + 1 = k
    BY <1>7
  <2>2. nodes[(k - 1) + 1] = NodeAt(k - 1, Beside(i, k - 1)) /\ Beside(i, k - 1) \in Positions(k - 1)
    BY <1>5, <2>1, BesidePath
  <2> QED
    BY <2>1, <2>2
<1>10. ASSUME NEW k \in 1..MAX_DEPTH+1
       PROVE  IF nodes[k] \in DOMAIN cl
              THEN /\ cl[nodes[k]].hash = AtLast(k - 1, Beside(i, k - 1))
                   /\ cl[nodes[k]].level = k - 1
                   /\ cl[nodes[k]].seq <= cl[1].seq
              ELSE AtLast(k - 1, Beside(i, k - 1)) = empty_node[k - 1]
  BY <1>2, <1>9 DEF RowsAtLast
<1>11. 1 \in DOMAIN cl /\ cl[1].level = MAX_DEPTH
  BY <1>2 DEF RowsAtLast
<1>12. PICK found : found = RowsUpToRoot(cl, nodes)
  OBVIOUS
<1>13. /\ \A n \in found : \E k \in 1..MAX_DEPTH+1 : n = nodes[k] /\ n \in DOMAIN cl
       /\ \A k \in 1..MAX_DEPTH+1 : nodes[k] \in DOMAIN cl => nodes[k] \in found
  BY <1>6, <1>10, <1>11, <1>12 DEF RowsUpToRoot, ToSet
<1>14. PICK list : list = get_proof_and_root(db.cl_items, leaf_idx_to_node_idx(i, get_height(db.cl_items)))
  OBVIOUS
<1>15. list = IF Cardinality(found) # Len(nodes)
              THEN PlacedByLevel(cl, found, Len(nodes))
              ELSE [k \in 1..Len(nodes) |-> cl[Ordered(found)[k]].hash]
  <2>1. leaf_idx_to_node_idx(i, get_height(cl)) = NodeAt(0, i)
    <3>1. get_height(cl) = MAX_DEPTH
      BY <1>11 DEF get_height
    <3>2. 0 \in 0..MAX_DEPTH /\ MAX_DEPTH - 0 = MAX_DEPTH /\ i \in Nat
      BY <1>1 DEF LeafIndices
    <3>3. Width(0) = 2^MAX_DEPTH /\ Width(0) \in Nat
      BY <3>2, WidthPositive DEF Width
    <3> QED
      BY <3>1, <3>2, <3>3 DEF leaf_idx_to_node_idx, NodeAt
  <2> QED
    BY <1>2, <1>3, <1>12, <1>14, <2>1 DEF get_proof_and_root
<1>16. CASE Cardinality(found) # Len(nodes)
  <2>1. list = PlacedByLevel(cl, found, MAX_DEPTH + 1)
    BY <1>4, <1>15, <1>16
  <2>2. list = [k \in 1..MAX_DEPTH+1 |->
                  IF \E n \in found : cl[n].level = k-1
                  THEN cl[CHOOSE n \in found : cl[n].level = k-1].hash
                  ELSE empty_node[k-1]]
    BY <2>1 DEF PlacedByLevel, make_empty_node
  <2>3. IsSeq(list) /\ Len(list) = MAX_DEPTH + 1
    BY <1>1, <2>2, FunctionIsSeq
  <2>4. ASSUME NEW k \in 1..MAX_DEPTH+1
        PROVE  list[k] = AtLast(k - 1, Beside(i, k - 1))
    <3>1. ASSUME NEW n \in found, cl[n].level = k - 1
          PROVE  n = nodes[k]
      <4>1. PICK j \in 1..MAX_DEPTH+1 : n = nodes[j] /\ n \in DOMAIN cl
        BY <1>13
      <4>2. j - 1 = k - 1
        BY <1>10, <3>1, <4>1
      <4>3. j = k
        BY <4>2
      <4> QED
        BY <4>1, <4>3
    <3>2. CASE nodes[k] \in DOMAIN cl
      <4>1. nodes[k] \in found /\ cl[nodes[k]].level = k - 1
        BY <1>10, <1>13, <3>2
      <4>2. (CHOOSE n \in found : cl[n].level = k-1) = nodes[k]
        BY <3>1, <4>1
      <4>3. list[k] = cl[nodes[k]].hash
        BY <2>2, <4>1, <4>2
      <4> QED
        BY <1>10, <3>2, <4>3
    <3>3. CASE nodes[k] \notin DOMAIN cl
      <4>1. ~ \E n \in found : cl[n].level = k-1
        BY <1>13, <3>1, <3>3
      <4>2. list[k] = empty_node[k-1]
        BY <2>2, <4>1
      <4> QED
        BY <1>10, <3>3, <4>2
    <3> QED
      BY <3>2, <3>3
  <2>5. ASSUME NEW lvl \in 0..MAX_DEPTH PROVE list[lvl + 1] = AtLast(lvl, Beside(i, lvl))
    BY <1>8, <2>4
  <2> QED
    BY <1>14, <2>3, <2>5
<1>17. CASE Cardinality(found) = Len(nodes)
  <2>1. list = [k \in 1..MAX_DEPTH+1 |-> cl[Ordered(found)[k]].hash]
    BY <1>4, <1>15, <1>17
  <2>2. IsSeq(list) /\ Len(list) = MAX_DEPTH + 1
    BY <1>1, <2>1, FunctionIsSeq
  <2>3. PICK all : all = {nodes[k] : k \in 1..MAX_DEPTH+1}
    OBVIOUS
  <2>4. PICK f : f = [k \in 1..MAX_DEPTH+1 |-> nodes[k]]
    OBVIOUS
  <2>5. f \in Surjection(1..MAX_DEPTH+1, all)
    BY <2>3, <2>4 DEF Surjection
  <2>6. IsFiniteSet(1..MAX_DEPTH+1) /\ Cardinality(1..MAX_DEPTH+1) = MAX_DEPTH + 1
    <3>1. 1 \in Int /\ MAX_DEPTH + 1 \in Int /\ ~(1 > MAX_DEPTH + 1)
      BY <1>1
    <3>2. IsFiniteSet(1..MAX_DEPTH+1) /\ Cardinality(1..MAX_DEPTH+1) = (MAX_DEPTH + 1) - 1 + 1
      BY <3>1, FS_Interval
    <3> QED
      BY <1>1, <3>2
  <2>7. IsFiniteSet(all) /\ Cardinality(all) <= MAX_DEPTH + 1
    BY <2>5, <2>6, FS_Surjection
  <2>8. found \in SUBSET all
    BY <1>13, <2>3
  <2>9. Cardinality(found) <= Cardinality(all) /\ Cardinality(found) = MAX_DEPTH + 1
    BY <1>4, <1>17, <2>7, <2>8, FS_Subset
  <2>10. Cardinality(all) \in Nat
    BY <2>7, FS_CardinalityType
  <2>11. Cardinality(all) = Cardinality(found)
    BY <1>1, <2>7, <2>9, <2>10
  <2>12. found = all
    BY <2>7, <2>8, <2>11, FS_Subset
  <2>13. ASSUME NEW j \in 1..MAX_DEPTH+1, NEW k \in 1..MAX_DEPTH+1, j < k
         PROVE  nodes[j] > nodes[k]
    <3>1. j - 1 < k - 1
      BY <2>13
    <3> QED
      BY <1>9, <3>1, NodesDescend
  <2>14. found \in SUBSET Int
    <3>1. \A k \in 0..MAX_DEPTH : \A p \in Positions(k) : NodeAt(k, p) \in Int
      BY WidthPositive DEF NodeAt, Positions
    <3> QED
      BY <1>9, <2>3, <2>12, <3>1
  <2>15. f \in [1..MAX_DEPTH+1 -> found] /\ DOMAIN f = 1..MAX_DEPTH+1
    BY <2>3, <2>4, <2>12
  <2>16. \A j, k \in DOMAIN f : j < k => f[j] > f[k]
    BY <2>4, <2>13
  <2>17. PICK s : s = Ordered(found)
    OBVIOUS
  <2>18. s \in [1..MAX_DEPTH+1 -> found] /\ \A j, k \in DOMAIN s : j < k => s[j] > s[k]
    BY <2>9, <2>15, <2>16, <2>17 DEF Ordered
  <2>19. DOMAIN s = 1..MAX_DEPTH+1
    BY <2>18
  <2>20. \A x \in found : \E k \in 1..MAX_DEPTH+1 : f[k] = x
    BY <2>3, <2>4, <2>12
  <2>21. \A k \in 1..MAX_DEPTH+1 : s[k] = f[k]
    BY <1>1, <2>14, <2>15, <2>16, <2>18, <2>19, <2>20, OneOrder
  <2>22. ASSUME NEW k \in 1..MAX_DEPTH+1
         PROVE  list[k] = AtLast(k - 1, Beside(i, k - 1))
    <3>1. list[k] = cl[nodes[k]].hash
      BY <2>1, <2>4, <2>17, <2>21
    <3>2. nodes[k] \in DOMAIN cl
      BY <1>13, <2>3, <2>12
    <3> QED
      BY <1>10, <3>1, <3>2
  <2>23. ASSUME NEW lvl \in 0..MAX_DEPTH PROVE list[lvl + 1] = AtLast(lvl, Beside(i, lvl))
    BY <1>8, <2>22
  <2> QED
    BY <1>14, <2>2, <2>23
<1> QED
  BY <1>16, <1>17

\* The proof verifies.
LEMMA ProofsAreRight ==
  ASSUME ChainOK, Newest(db, saved)
  PROVE  ProofsVerify
<1> SUFFICES ASSUME NoGap, saved # {}, NEW i \in LeafIndices
             PROVE  LET root == get_root(db.cl_items)
                        node_idx == leaf_idx_to_node_idx(i, get_height(db.cl_items))
                        proof == handle_get_proof(db.cl_items, node_idx)
                    IN  /\ Proves(Append(proof, root), LeafHash(i), i)
                        /\ root = history[Max(saved)].path[MAX_DEPTH]
  <2>1. 0 \in LeafIndices
    <3>1. 2^MAX_DEPTH \in Nat /\ 2^MAX_DEPTH > 0
      BY WidthPositive, DepthAssumption DEF Width
    <3> QED
      BY <3>1 DEF LeafIndices
  <2> QED
    BY <2>1 DEF ProofsVerify
<1>1. RowsAtLast /\ HistoryOK /\ PathsOK
  BY WithoutGap DEF ChainOK
<1>2. MAX_DEPTH \in Nat /\ MAX_DEPTH \in 1..30 /\ i \in Nat /\ 0 \in Levels /\ MAX_DEPTH \in 0..MAX_DEPTH
  BY DepthAssumption DEF LeafIndices, Levels
<1>3. PICK node_idx : node_idx = leaf_idx_to_node_idx(i, get_height(db.cl_items))
  OBVIOUS
<1>4. AtLast(MAX_DEPTH, 0) = db.cl_items[1].hash /\ db.cl_items[1].hash = history[Max(saved)].path[MAX_DEPTH]
  <2>1. NodeAt(MAX_DEPTH, 0) = 1 /\ 0 \in Positions(MAX_DEPTH)
    BY <1>2, AncestorInTree, BesidePath DEF Beside
  <2> QED
    BY <1>1, <1>2, <2>1 DEF RowsAtLast
<1>5. PICK list : list = Append(handle_get_proof(db.cl_items, node_idx), get_root(db.cl_items))
  OBVIOUS
<1>6. /\ Len(list) = MAX_DEPTH + 1
      /\ \A lvl \in 0..MAX_DEPTH : list[lvl + 1] = AtLast(lvl, Beside(i, lvl))
  <2>1. PICK full : full = get_proof_and_root(db.cl_items, node_idx)
    OBVIOUS
  <2>2. /\ IsSeq(full) /\ Len(full) = MAX_DEPTH + 1
        /\ \A lvl \in 0..MAX_DEPTH : full[lvl + 1] = AtLast(lvl, Beside(i, lvl))
    BY <1>1, <1>3, <2>1, ProofListed
  <2>3. full[MAX_DEPTH + 1] = get_root(db.cl_items)
    BY <1>2, <1>4, <2>2, AncestorInTree DEF Beside, get_root
  <2>4. list = full
    <3>1. PICK S : full \in Seq(S)
      BY <2>2 DEF IsSeq
    <3>2. PICK front : front = SubSeq(full, 1, MAX_DEPTH)
      OBVIOUS
    <3>3. \A k \in 1..MAX_DEPTH+1 : full[k] \in S
      BY <2>2, <3>1, ElementOfSeq
    <3>4. front \in Seq(S) /\ Len(front) = MAX_DEPTH /\ \A k \in 1..MAX_DEPTH : front[k] = full[k]
      BY <1>2, <3>2, <3>3, SubSeqProperties
    <3>5. list = Append(front, full[MAX_DEPTH + 1])
      <4>1. Len(full) - 1 = MAX_DEPTH
        BY <1>2, <2>2
      <4> QED
        BY <1>5, <2>1, <2>3, <3>2, <4>1 DEF handle_get_proof, Front
    <3>6. full[MAX_DEPTH + 1] \in S
      BY <1>2, <3>3
    <3>7. /\ list \in Seq(S) /\ Len(list) = MAX_DEPTH + 1
          /\ \A k \in 1..MAX_DEPTH+1 : list[k] = full[k]
      BY <1>2, <3>4, <3>5, <3>6, AppendProperties
    <3> QED
      BY <2>2, <3>1, <3>7, SeqEqual
  <2> QED
    BY <2>2, <2>4
<1>7. PICK proof : proof = [k \in Levels |-> list[k+1]]
  OBVIOUS
<1>8. PICK left : left = IsLeft(i)
  OBVIOUS
<1>9. PICK leaf : leaf = LeafHash(i)
  OBVIOUS
<1>10. /\ Climb(leaf, proof, left)[0] = leaf
      /\ \A k \in Levels : Climb(leaf, proof, left)[k + 1]
                             = hash_to_parent(Climb(leaf, proof, left)[k], proof[k], left[k])
  BY ClimbStep
<1>11. PICK c : c = Climb(leaf, proof, left)
  OBVIOUS
<1> DEFINE S == {k \in 0..MAX_DEPTH : c[k] = AtLast(k, Ancestor(i, k))}
<1>12. 0 \in S
  <2>1. Ancestor(i, 0) = i /\ Ancestor(i, 0) \in Positions(0)
    BY <1>2, AncestorStep, AncestorInTree
  <2>2. Width(0) = 2^MAX_DEPTH /\ Width(0) \in Nat
    BY <1>2, WidthStep
  <2>3. NodeAt(0, i) = leaf_idx_to_node_idx(i, MAX_DEPTH)
    BY <1>2, <2>2 DEF NodeAt, leaf_idx_to_node_idx
  <2>4. IF NodeAt(0, i) \in DOMAIN db.cl_items
        THEN db.cl_items[NodeAt(0, i)].hash = AtLast(0, i)
        ELSE AtLast(0, i) = empty_node[0]
    BY <1>1, <1>2, <2>1 DEF RowsAtLast
  <2>5. leaf = AtLast(0, i)
    BY <1>9, <2>3, <2>4, EmptyStep DEF LeafHash
  <2> QED
    BY <1>2, <1>10, <1>11, <2>1, <2>5
<1>13. ASSUME NEW k \in 0..MAX_DEPTH-1, k \in S
       PROVE  k + 1 \in S
  <2>1. k \in Levels /\ k + 1 \in 0..MAX_DEPTH /\ k \in 0..MAX_DEPTH /\ k # MAX_DEPTH
    BY <1>2 DEF Levels
  <2>2. PICK a, up : a = Ancestor(i, k) /\ up = Ancestor(i, k + 1)
    OBVIOUS
  <2>3. /\ up \in Positions(k + 1)
        /\ left[k] => a = 2*up /\ Sibling(a) = 2*up + 1
        /\ ~left[k] => a = 2*up + 1 /\ Sibling(a) = 2*up
    BY <1>8, <2>1, <2>2, PathStep
  <2>4. AtLast(k + 1, up) = <<AtLast(k, 2*up), AtLast(k, 2*up + 1)>>
    BY <1>1, <2>1, <2>3 DEF PathsOK, RowsAtLast, AtLast
  <2>5. proof[k] = AtLast(k, Sibling(a))
    BY <1>6, <1>7, <2>1, <2>2 DEF Beside
  <2>6. c[k] = AtLast(k, a)
    BY <1>13, <2>2
  <2>7. c[k + 1] = hash_to_parent(c[k], proof[k], left[k])
    BY <1>10, <1>11, <2>1
  <2>8. c[k + 1] = AtLast(k + 1, up)
    BY <2>3, <2>4, <2>5, <2>6, <2>7 DEF hash_to_parent
  <2> QED
    BY <2>1, <2>2, <2>8
<1>14. c[MAX_DEPTH] = AtLast(MAX_DEPTH, Ancestor(i, MAX_DEPTH))
  <2>1. \A k \in 0..MAX_DEPTH : k \in S
    <3> HIDE DEF S
    <3> QED
      BY <1>2, <1>12, <1>13, Upwards
  <2> QED
    BY <1>2, <2>1
<1>15. Ancestor(i, MAX_DEPTH) = 0 /\ Beside(i, MAX_DEPTH) = 0
  BY <1>2, AncestorInTree DEF Beside
<1>16. list[MAX_DEPTH + 1] = AtLast(MAX_DEPTH, 0)
  BY <1>2, <1>6, <1>15
<1>17. Proves(list, LeafHash(i), i)
  BY <1>6, <1>7, <1>8, <1>9, <1>11, <1>14, <1>15, <1>16 DEF Proves, recompute
<1> QED
  BY <1>3, <1>17, <1>4, <1>5 DEF get_root

\* As long as the change logs committed have no gap, the nodes that
\* get_proof_and_root of nft_api lists for a leaf prove the hash of its row
\* against the root that the last of them left on the chain.
THEOREM ProofsVerifyHolds == Spec => []ProofsVerify
<1>1. IInv => ProofsVerify
  BY ProofsAreRight DEF IInv, TablesOK
<1> QED
  BY <1>1, InvariantHolds, PTL

\* A proof leads from different leaves to different roots.
LEMMA ClimbInjective ==
  ASSUME NEW a, NEW b, NEW proof, NEW left, a # b
  PROVE  Climb(a, proof, left)[MAX_DEPTH] # Climb(b, proof, left)[MAX_DEPTH]
<1>1. PICK ca, cb : ca = Climb(a, proof, left) /\ cb = Climb(b, proof, left)
  OBVIOUS
<1>2. /\ ca[0] = a
      /\ \A k \in Levels : ca[k + 1] = hash_to_parent(ca[k], proof[k], left[k])
  BY <1>1, ClimbStep
<1>3. /\ cb[0] = b
      /\ \A k \in Levels : cb[k + 1] = hash_to_parent(cb[k], proof[k], left[k])
  BY <1>1, ClimbStep
<1> DEFINE S == {k \in 0..MAX_DEPTH : ca[k] # cb[k]}
<1>4. 0 \in S
  BY <1>2, <1>3, DepthAssumption
<1>5. ASSUME NEW k \in 0..MAX_DEPTH-1, k \in S
      PROVE  k + 1 \in S
  <2>1. k \in Levels /\ k + 1 \in 0..MAX_DEPTH
    BY DepthAssumption DEF Levels
  <2>2. ca[k + 1] # cb[k + 1]
    <3>1. PICK x, y, z : x = ca[k] /\ y = cb[k] /\ z = proof[k]
      OBVIOUS
    <3>2. x # y
      BY <1>5, <3>1
    <3>3. <<x, z>> # <<y, z>> /\ <<z, x>> # <<z, y>>
      BY <3>2
    <3>4. ca[k + 1] = hash_to_parent(x, z, left[k]) /\ cb[k + 1] = hash_to_parent(y, z, left[k])
      BY <1>2, <1>3, <2>1, <3>1
    <3> QED
      BY <3>3, <3>4 DEF hash_to_parent
  <2> QED
    BY <2>1, <2>2
<1>6. MAX_DEPTH \in S
  <2> HIDE DEF S
  <2> QED
    BY <1>4, <1>5, Upwards, DepthAssumption
<1> QED
  BY <1>1, <1>6

\* What handle_get_asset_proof serves besides the hash is what handle_get_proof and
\* handle_get_root serve.
LEMMA ServedParts ==
  ASSUME ChainOK, Newest(db, saved), NoGap, saved # {}, NEW i \in LeafIndices
  PROVE  LET served == handle_get_asset_proof(db.cl_items, i)
         IN  /\ served.hash = EMPTY
             /\ served.root = get_root(db.cl_items)
             /\ served.proof = handle_get_proof(db.cl_items, leaf_idx_to_node_idx(i, get_height(db.cl_items)))
<1>1. RowsAtLast /\ HistoryOK
  BY WithoutGap DEF ChainOK
<1>2. MAX_DEPTH \in Nat /\ 0 \in Levels /\ MAX_DEPTH \in 0..MAX_DEPTH
  BY DepthAssumption DEF Levels
<1>3. PICK list : list = get_proof_and_root(db.cl_items, leaf_idx_to_node_idx(i, get_height(db.cl_items)))
  OBVIOUS
<1>4. /\ Len(list) = MAX_DEPTH + 1
      /\ \A lvl \in 0..MAX_DEPTH : list[lvl + 1] = AtLast(lvl, Beside(i, lvl))
  BY <1>1, <1>3, ProofListed
<1>5. Last(list) = get_root(db.cl_items)
  <2>1. Beside(i, MAX_DEPTH) = 0 /\ NodeAt(MAX_DEPTH, 0) = 1 /\ 0 \in Positions(MAX_DEPTH)
    BY <1>2, AncestorInTree, BesidePath DEF Beside
  <2>2. AtLast(MAX_DEPTH, 0) = db.cl_items[1].hash
    BY <1>1, <1>2, <2>1 DEF RowsAtLast
  <2> QED
    BY <1>2, <1>4, <2>1, <2>2 DEF Last, get_root
<1>6. make_empty_node(0) = EMPTY
  BY EmptyStep DEF make_empty_node
<1> QED
  BY <1>3, <1>5, <1>6 DEF handle_get_asset_proof, handle_get_proof, get_asset

\* As long as the change logs committed have no gap, what handle_get_asset_proof of
\* nft_api serves together verifies exactly for the leaves that are empty.
THEOREM ServedHashIsEmpty == Spec => []OnlyEmptyLeavesVerify
<1>1. IInv => OnlyEmptyLeavesVerify
  <2> SUFFICES ASSUME ChainOK, Newest(db, saved), NoGap, saved # {}, NEW i \in LeafIndices
               PROVE  LET served == handle_get_asset_proof(db.cl_items, i)
                      IN  Proves(Append(served.proof, served.root), served.hash, i) <=> LeafHash(i) = EMPTY
    BY DEF OnlyEmptyLeavesVerify, IInv, TablesOK
  <2>1. PICK list : list = Append(handle_get_proof(db.cl_items, leaf_idx_to_node_idx(i, get_height(db.cl_items))),
                                  get_root(db.cl_items))
    OBVIOUS
  <2>2. Proves(list, LeafHash(i), i)
    BY <2>1, ProofsAreRight DEF ProofsVerify
  <2>3. PICK proof : proof = [k \in Levels |-> list[k+1]]
    OBVIOUS
  <2>4. /\ Len(list) = MAX_DEPTH + 1
        /\ Climb(LeafHash(i), proof, IsLeft(i))[MAX_DEPTH] = list[MAX_DEPTH + 1]
    BY <2>2, <2>3 DEF Proves, recompute
  <2>5. Proves(list, EMPTY, i) <=> LeafHash(i) = EMPTY
    <3>1. Proves(list, EMPTY, i) <=> Climb(EMPTY, proof, IsLeft(i))[MAX_DEPTH] = list[MAX_DEPTH + 1]
      BY <2>3, <2>4 DEF Proves, recompute
    <3>2. CASE LeafHash(i) = EMPTY
      BY <2>4, <3>1, <3>2
    <3>3. CASE LeafHash(i) # EMPTY
      BY <2>4, <3>1, <3>3, ClimbInjective
    <3> QED
      BY <3>2, <3>3
  <2> QED
    BY <2>1, <2>5, ServedParts
<1> QED
  BY <1>1, InvariantHolds, PTL
=============================================================================
