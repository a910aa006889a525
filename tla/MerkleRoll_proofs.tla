-------------------------- MODULE MerkleRoll_proofs --------------------------
(***************************************************************************)
(* For every depth, buffer size and set of leaves, all properties of       *)
(* MerkleRoll.  Two invariants carry them.  IInv: the ring buffer replays  *)
(* the leaves of the tree's history.  Hashed: its roots, paths and the     *)
(* rightmost proof are those of the hashed trees.  With the second, a      *)
(* proof that was read in a version whose log is live, replayed over the   *)
(* logs since, is the proof in the tree of now, level by level.            *)
(***************************************************************************)
EXTENDS MerkleRoll, FiniteSetTheorems, TLAPS

-----------------------------------------------------------------------------
(* Numbers: induction, and the powers of two that indices are divided by. *)

\* A set of numbers has a least one.
LEMMA LeastNumber ==
  ASSUME NEW S \in SUBSET Nat, S # {}
  PROVE  \E m \in S : \A k \in S : m <= k
  <1> DEFINE T == {0..n : n \in S}
             All == FiniteSubsetsOf(Nat)
  <1>1. T \subseteq All /\ T # {}
    <2>1. ASSUME NEW n \in S PROVE 0..n \in All
      <3>1. IsFiniteSet(0..n)
        BY FS_Interval
      <3>2. 0..n \in SUBSET Nat
        OBVIOUS
      <3> QED
        BY <3>1, <3>2 DEF FiniteSubsetsOf
    <2> HIDE DEF All
    <2> QED
      BY <2>1
  <1>2. IsWellFoundedOn(StrictSubsetOrdering(Nat), All)
    BY FS_StrictSubsetOrderingWellFounded
  <1> HIDE DEF T, All
  <1>3. PICK x \in T : \A y \in T : <<y, x>> \notin StrictSubsetOrdering(Nat)
    BY <1>1, <1>2, WFMin
  <1>4. PICK m \in S : x = 0..m
    BY DEF T
  <1>5. ASSUME NEW k \in S, k < m PROVE FALSE
    <2>1. 0..k \in T
      BY DEF T
    <2>2. 0..k \subseteq Nat /\ 0..m \subseteq Nat /\ 0..k \subseteq 0..m
      BY <1>5
    <2>3. m \in 0..m /\ m \notin 0..k
      BY <1>5
    <2> QED
      BY <1>3, <1>4, <2>1, <2>2, <2>3 DEF StrictSubsetOrdering
  <1> QED
    BY <1>5

\* Induction over the levels of a tree, upwards.
LEMMA Upwards ==
  ASSUME NEW n \in Nat, NEW S, 0 \in S, \A k \in 0..n-1 : k \in S => k + 1 \in S
  PROVE  \A k \in 0..n : k \in S
  <1> SUFFICES ASSUME ~(\A k \in 0..n : k \in S) PROVE FALSE
    OBVIOUS
  <1> DEFINE Bad == {k \in 0..n : k \notin S}
  <1>1. Bad \in SUBSET Nat /\ Bad # {}
    OBVIOUS
  <1>2. PICK m \in Bad : \A k \in Bad : m <= k
    BY <1>1, LeastNumber
  <1>3. m # 0 /\ m - 1 \in 0..n-1 /\ m - 1 \notin Bad
    BY <1>2
  <1> QED
    BY <1>2, <1>3

\* The same, downwards.
LEMMA Downwards ==
  ASSUME NEW n \in Nat, NEW S, n \in S, \A k \in 0..n-1 : k + 1 \in S => k \in S
  PROVE  \A k \in 0..n : k \in S
  <1> DEFINE U == {j \in 0..n : n - j \in S}
  <1>1. 0 \in U
    OBVIOUS
  <1>2. ASSUME NEW j \in 0..n-1, j \in U PROVE j + 1 \in U
    <2>1. n - (j + 1) \in 0..n-1 /\ n - (j + 1) + 1 = n - j
      OBVIOUS
    <2> QED
      BY <1>2, <2>1
  <1>3. \A j \in 0..n : j \in U
    <2> HIDE DEF U
    <2> QED
      BY <1>1, <1>2, Upwards
  <1>4. ASSUME NEW k \in 0..n PROVE k \in S
    <2>1. n - k \in 0..n /\ n - (n - k) = k
      OBVIOUS
    <2> QED
      BY <1>3, <2>1
  <1> QED
    BY <1>4

\* check_bounds keeps the depth below 31, so the powers of two that occur can be
\* computed one by one.
LEMMA PowersOfTwo ==
  ASSUME NEW k \in 0..30
  PROVE  2^k \in Nat \ {0} /\ 2^(k+1) = 2 * 2^k
  <1> DEFINE Doubles(j) == 2^j \in Nat \ {0} /\ 2^(j+1) = 2 * 2^j
  <1>1. /\ Doubles(0) /\ Doubles(1) /\ Doubles(2) /\ Doubles(3) /\ Doubles(4) /\ Doubles(5)
        /\ Doubles(6) /\ Doubles(7) /\ Doubles(8) /\ Doubles(9) /\ Doubles(10) /\ Doubles(11)
        /\ Doubles(12) /\ Doubles(13) /\ Doubles(14) /\ Doubles(15)
    OBVIOUS
  <1>2. /\ Doubles(16) /\ Doubles(17) /\ Doubles(18) /\ Doubles(19) /\ Doubles(20)
        /\ Doubles(21) /\ Doubles(22) /\ Doubles(23) /\ Doubles(24) /\ Doubles(25)
        /\ Doubles(26) /\ Doubles(27) /\ Doubles(28) /\ Doubles(29) /\ Doubles(30)
    OBVIOUS
  <1>3. \/ k = 0 \/ k = 1 \/ k = 2 \/ k = 3 \/ k = 4 \/ k = 5 \/ k = 6 \/ k = 7 \/ k = 8
        \/ k = 9 \/ k = 10 \/ k = 11 \/ k = 12 \/ k = 13 \/ k = 14 \/ k = 15 \/ k = 16 \/ k = 17
        \/ k = 18 \/ k = 19 \/ k = 20 \/ k = 21 \/ k = 22 \/ k = 23 \/ k = 24 \/ k = 25
        \/ k = 26 \/ k = 27 \/ k = 28 \/ k = 29 \/ k = 30
    OBVIOUS
  <1> HIDE DEF Doubles
  <1>4. Doubles(k)
    BY <1>1, <1>2, <1>3, Zenon
  <1> QED
    BY <1>4, Zenon DEF Doubles

\* 1 << MAX_DEPTH, the number of leaves, is a positive integer.
LEMMA Capacity == 2^MAX_DEPTH \in Nat \ {0}
  <1>1. MAX_DEPTH \in 0..30
    BY DepthAssumption
  <1> QED
    BY <1>1, PowersOfTwo, Zenon

\* index >> k, the position of a leaf's ancestor at level k.
Ancestor(index, k) == index \div 2^k

\* An ancestor's parent is at half its position; the bit of the index tells on
\* which side.
LEMMA AncestorStep ==
  ASSUME NEW i \in Nat, NEW k \in Levels
  PROVE  /\ Ancestor(i, 0) = i
         /\ Ancestor(i, k) \in Nat
         /\ Ancestor(i, k + 1) = Ancestor(i, k) \div 2
         /\ Bit(i, k) = Ancestor(i, k) % 2
  <1>1. k \in 0..30
    BY DepthAssumption DEF Levels
  <1>2. 2^k \in Nat \ {0} /\ 2^(k+1) = 2 * 2^k
    BY <1>1, PowersOfTwo, Zenon
  <1>3. 2^0 = 1
    OBVIOUS
  <1>4. \A b \in Nat \ {0} : i \div (2 * b) = (i \div b) \div 2 /\ i \div b \in Nat
    OBVIOUS
  <1>5. i \div 1 = i
    OBVIOUS
  <1> QED
    BY <1>2, <1>3, <1>4, <1>5 DEF Ancestor, Bit

\* The positions of the nodes at a level.
Width(k) == 2^(MAX_DEPTH - k)
Positions(k) == 0 .. Width(k) - 1

\* A level has half the nodes of the level below it.
LEMMA WidthStep ==
  ASSUME NEW k \in Levels
  PROVE  /\ Width(k) = 2 * Width(k + 1)
         /\ Width(k + 1) \in Nat \ {0} /\ Width(k) \in Nat \ {0}
         /\ Width(0) = 2^MAX_DEPTH /\ Width(MAX_DEPTH) = 1
  <1> DEFINE j == MAX_DEPTH - (k + 1)
  <1>1. j \in 0..30 /\ MAX_DEPTH - k = j + 1 /\ MAX_DEPTH - 0 = MAX_DEPTH /\ MAX_DEPTH - MAX_DEPTH = 0
    BY DepthAssumption DEF Levels
  <1> HIDE DEF j
  <1>2. 2^j \in Nat \ {0} /\ 2^(j+1) = 2 * 2^j
    BY <1>1, PowersOfTwo, Zenon
  <1>3. Width(k + 1) = 2^j
    BY DEF Width, j
  <1>4. Width(k) = 2^(j+1) /\ Width(0) = 2^MAX_DEPTH /\ Width(MAX_DEPTH) = 2^0
    BY <1>1, Zenon DEF Width
  <1>5. 2^0 = 1
    OBVIOUS
  <1> QED
    BY <1>2, <1>3, <1>4, <1>5

\* Ancestors of a leaf are nodes of the tree, the last one is the root.
LEMMA AncestorInTree ==
  ASSUME NEW i \in LeafIndices, NEW k \in 0..MAX_DEPTH
  PROVE  /\ Ancestor(i, k) \in Positions(k)
         /\ k = MAX_DEPTH => Ancestor(i, k) = 0
  <1> DEFINE S == {j \in 0..MAX_DEPTH : Ancestor(i, j) \in Positions(j)}
  <1>1. 0 \in Levels /\ MAX_DEPTH \in Nat /\ i \in Nat
    BY DepthAssumption, Capacity DEF Levels, LeafIndices
  <1>2. 0 \in S
    <2>1. Ancestor(i, 0) = i /\ Width(0) = 2^MAX_DEPTH
      BY <1>1, AncestorStep, WidthStep
    <2> QED
      BY <1>1, <2>1 DEF Positions, LeafIndices
  <1>3. ASSUME NEW j \in 0..MAX_DEPTH-1, j \in S PROVE j + 1 \in S
    <2>1. j \in Levels /\ j + 1 \in 0..MAX_DEPTH
      BY DepthAssumption DEF Levels
    <2>2. Ancestor(i, j + 1) = Ancestor(i, j) \div 2 /\ Ancestor(i, j) \in Nat
      BY <1>1, <2>1, AncestorStep
    <2>3. Width(j) = 2 * Width(j + 1) /\ Width(j + 1) \in Nat \ {0}
      BY <2>1, WidthStep
    <2>4. Ancestor(i, j) < Width(j)
      BY <1>3, <2>2, <2>3 DEF Positions
    <2>5. Ancestor(i, j + 1) \in Positions(j + 1)
      BY <2>2, <2>3, <2>4 DEF Positions
    <2> QED
      BY <2>1, <2>5
  <1>4. \A j \in 0..MAX_DEPTH : j \in S
    <2> HIDE DEF S
    <2> QED
      BY <1>1, <1>2, <1>3, Upwards
  <1>5. Width(MAX_DEPTH) = 1
    BY <1>1, WidthStep
  <1> QED
    BY <1>4, <1>5 DEF Positions

-----------------------------------------------------------------------------
(* What the recursive functions compute: each exists, so it satisfies its    *)
(* defining equation.                                                        *)

\* The nodes above a leaf.
LEMMA ClimbStep ==
  ASSUME NEW leaf, NEW proof, NEW left
  PROVE  /\ Climb(leaf, proof, left)[0] = leaf
         /\ \A k \in Levels : Climb(leaf, proof, left)[k + 1]
                                = hash_to_parent(Climb(leaf, proof, left)[k], proof[k], left[k])
  <1> DEFINE F(g, n) == [k \in 0..n |-> IF k = 0 THEN leaf
                                        ELSE hash_to_parent(g[k-1], proof[k-1], left[k-1])]
             S == {n \in 0..MAX_DEPTH : \E g : g = F(g, n)}
             c == Climb(leaf, proof, left)
  <1>1. 0 \in S
    <2> DEFINE g == [k \in 0..0 |-> leaf]
    <2>1. g = F(g, 0)
      OBVIOUS
    <2> HIDE DEF g
    <2> QED
      BY <2>1, DepthAssumption
  <1>2. ASSUME NEW n \in 0..MAX_DEPTH-1, n \in S PROVE n + 1 \in S
    <2>1. PICK g : g = F(g, n)
      BY <1>2
    <2> DEFINE h == [k \in 0..n+1 |-> IF k = n + 1 THEN hash_to_parent(g[n], proof[n], left[n]) ELSE g[k]]
    <2>2. ASSUME NEW k \in 0..n+1 PROVE h[k] = F(h, n + 1)[k]
      BY <2>1
    <2>3. h = F(h, n + 1)
      BY <2>2
    <2> HIDE DEF h
    <2> QED
      BY <2>3, DepthAssumption
  <1>3. MAX_DEPTH \in S
    <2> HIDE DEF S
    <2> QED
      BY <1>1, <1>2, Upwards, DepthAssumption
  <1>4. c = F(c, MAX_DEPTH)
    BY <1>3 DEF Climb
  <1> HIDE DEF c
  <1>5. c[0] = leaf
    BY <1>4, DepthAssumption
  <1>6. ASSUME NEW k \in Levels PROVE c[k + 1] = hash_to_parent(c[k], proof[k], left[k])
    <2>1. k + 1 \in 0..MAX_DEPTH /\ k + 1 # 0 /\ (k + 1) - 1 = k
      BY DepthAssumption DEF Levels
    <2> QED
      BY <1>4, <2>1
  <1> QED
    BY <1>5, <1>6 DEF c

\* The roots of empty subtrees.
LEMMA EmptyStep ==
  /\ empty_node[0] = EMPTY
  /\ \A k \in Levels : empty_node[k + 1] = <<empty_node[k], empty_node[k]>>
  <1> DEFINE Pair(node) == hash_to_parent(node, node, TRUE)
             F(g, n) == [level \in 0..n |-> IF level = 0 THEN EMPTY ELSE Pair(g[level-1])]
             S == {n \in 0..MAX_DEPTH : \E g : g = F(g, n)}
  <1>0. empty_node = CHOOSE g : g = F(g, MAX_DEPTH)
    BY DEF empty_node
  <1> HIDE DEF Pair
  <1>1. 0 \in S
    <2> DEFINE g == [k \in 0..0 |-> EMPTY]
    <2>1. g = F(g, 0)
      OBVIOUS
    <2> HIDE DEF g
    <2> QED
      BY <2>1, DepthAssumption
  <1>2. ASSUME NEW n \in 0..MAX_DEPTH-1, n \in S PROVE n + 1 \in S
    <2>1. PICK g : g = F(g, n)
      BY <1>2
    <2> DEFINE h == [k \in 0..n+1 |-> IF k = n + 1 THEN Pair(g[n]) ELSE g[k]]
    <2>2. ASSUME NEW k \in 0..n+1 PROVE h[k] = F(h, n + 1)[k]
      BY <2>1
    <2>3. h = F(h, n + 1)
      BY <2>2
    <2> HIDE DEF h
    <2> QED
      BY <2>3, DepthAssumption
  <1>3. MAX_DEPTH \in S
    <2> HIDE DEF S
    <2> QED
      BY <1>1, <1>2, Upwards, DepthAssumption
  <1>4. empty_node = F(empty_node, MAX_DEPTH)
    BY <1>0, <1>3
  <1>5. empty_node[0] = EMPTY
    BY <1>4, DepthAssumption
  <1>6. ASSUME NEW k \in Levels PROVE empty_node[k + 1] = <<empty_node[k], empty_node[k]>>
    <2>1. k + 1 \in 0..MAX_DEPTH /\ k + 1 # 0 /\ (k + 1) - 1 = k
      BY DepthAssumption DEF Levels
    <2> QED
      BY <1>4, <2>1 DEF Pair, hash_to_parent
  <1> QED
    BY <1>5, <1>6

\* The reference tree.
LEMMA TreeStep ==
  ASSUME NEW leaves
  PROVE  /\ MerkleTree(leaves)[0] = leaves
         /\ \A k \in Levels : \A p \in Positions(k + 1) :
              MerkleTree(leaves)[k + 1][p] = <<MerkleTree(leaves)[k][2*p], MerkleTree(leaves)[k][2*p + 1]>>
  <1> DEFINE Above(below, k) == [p \in 0 .. 2^(MAX_DEPTH-k) - 1 |-> <<below[2*p], below[2*p + 1]>>]
             F(g, n) == [k \in 0..n |-> IF k = 0 THEN leaves ELSE Above(g[k-1], k)]
             S == {n \in 0..MAX_DEPTH : \E g : g = F(g, n)}
             nodes == CHOOSE g : g = F(g, MAX_DEPTH)
             T == MerkleTree(leaves)
  <1>0. T = [k \in 0..MAX_DEPTH |-> nodes[k]]
    BY DEF MerkleTree
  <1> HIDE DEF Above, T
  <1>1. 0 \in S
    <2> DEFINE g == [k \in 0..0 |-> leaves]
    <2>1. g = F(g, 0)
      OBVIOUS
    <2> HIDE DEF g
    <2> QED
      BY <2>1, DepthAssumption
  <1>2. ASSUME NEW n \in 0..MAX_DEPTH-1, n \in S PROVE n + 1 \in S
    <2>1. PICK g : g = F(g, n)
      BY <1>2
    <2> DEFINE h == [k \in 0..n+1 |-> IF k = n + 1 THEN Above(g[n], n + 1) ELSE g[k]]
    <2>2. ASSUME NEW k \in 0..n+1 PROVE h[k] = F(h, n + 1)[k]
      BY <2>1
    <2>3. h = F(h, n + 1)
      BY <2>2
    <2> HIDE DEF h
    <2> QED
      BY <2>3, DepthAssumption
  <1>3. MAX_DEPTH \in S
    <2> HIDE DEF S
    <2> QED
      BY <1>1, <1>2, Upwards, DepthAssumption
  <1>4. nodes = F(nodes, MAX_DEPTH)
    BY <1>3
  <1> HIDE DEF nodes
  <1>5. T[0] = leaves
    BY <1>0, <1>4, DepthAssumption
  <1>6. ASSUME NEW k \in Levels, NEW p \in Positions(k + 1)
        PROVE  T[k + 1][p] = <<T[k][2*p], T[k][2*p + 1]>>
    <2>1. k + 1 \in 0..MAX_DEPTH /\ k \in 0..MAX_DEPTH /\ k + 1 # 0 /\ (k + 1) - 1 = k
      BY DepthAssumption DEF Levels
    <2>2. T[k + 1] = Above(T[k], k + 1)
      BY <1>0, <1>4, <2>1
    <2>3. p \in 0 .. 2^(MAX_DEPTH-(k + 1)) - 1
      BY DEF Positions, Width
    <2> QED
      BY <2>2, <2>3, Zenon DEF Above
  <1> QED
    BY <1>5, <1>6 DEF T

\* The way down from a root to a leaf.
LEMMA LeafOfStep ==
  ASSUME NEW root, NEW idx
  PROVE  \E node : /\ node[MAX_DEPTH] = root
                   /\ \A k \in Levels : node[k] = node[k + 1][1 + Bit(idx, k)]
                   /\ LeafOf(root, idx) = node[0]
  <1> DEFINE F(g, n) == [k \in n..MAX_DEPTH |-> IF k = MAX_DEPTH THEN root ELSE g[k+1][1 + Bit(idx, k)]]
             S == {n \in 0..MAX_DEPTH : \E g : g = F(g, n)}
             node == CHOOSE g : g = F(g, 0)
  <1>0. LeafOf(root, idx) = node[0]
    BY DEF LeafOf
  <1>1. MAX_DEPTH \in S
    <2> DEFINE g == [k \in MAX_DEPTH..MAX_DEPTH |-> root]
    <2>1. g = F(g, MAX_DEPTH)
      BY DepthAssumption
    <2> HIDE DEF g
    <2> QED
      BY <2>1, DepthAssumption
  <1>2. ASSUME NEW n \in 0..MAX_DEPTH-1, n + 1 \in S PROVE n \in S
    <2>1. PICK g : g = F(g, n + 1)
      BY <1>2
    <2> DEFINE h == [k \in n..MAX_DEPTH |-> IF k = n THEN g[n+1][1 + Bit(idx, n)] ELSE g[k]]
    <2>2. ASSUME NEW k \in n..MAX_DEPTH PROVE h[k] = F(h, n)[k]
      <3>1. CASE k = n
        <4>1. n \in n..MAX_DEPTH /\ n # MAX_DEPTH /\ n + 1 \in n..MAX_DEPTH /\ n + 1 # n
          BY DepthAssumption
        <4>2. h[n] = g[n+1][1 + Bit(idx, n)] /\ h[n+1] = g[n+1]
          BY <4>1
        <4>3. F(h, n)[n] = h[n+1][1 + Bit(idx, n)]
          BY <4>1
        <4> HIDE DEF h, F
        <4> QED
          BY <3>1, <4>2, <4>3
      <3>2. CASE k # n
        <4>1. k \in n+1..MAX_DEPTH /\ (k # MAX_DEPTH => k + 1 \in n..MAX_DEPTH /\ k + 1 # n)
          BY <3>2, DepthAssumption
        <4>2. g[k] = IF k = MAX_DEPTH THEN root ELSE g[k+1][1 + Bit(idx, k)]
          BY <2>1, <4>1
        <4> QED
          BY <3>2, <4>1, <4>2
      <3> QED
        BY <3>1, <3>2
    <2>3. h = F(h, n)
      BY <2>2
    <2> HIDE DEF h
    <2> QED
      BY <2>3, DepthAssumption
  <1>3. 0 \in S
    <2> HIDE DEF S
    <2> QED
      BY <1>1, <1>2, Downwards, DepthAssumption
  <1>4. node = F(node, 0)
    BY <1>3
  <1> HIDE DEF node
  <1>5. node[MAX_DEPTH] = root
    BY <1>4, DepthAssumption
  <1>6. \A k \in Levels : node[k] = node[k + 1][1 + Bit(idx, k)]
    BY <1>4, DepthAssumption DEF Levels
  <1> QED
    BY <1>0, <1>5, <1>6

-----------------------------------------------------------------------------
(* Trees, and the proofs read from them. *)

\* The whole proof of the leaf at index.
WholeProof(leaves, index) == [k \in Levels |-> MerkleTree(leaves)[k][Sibling(Ancestor(index, k))]]

\* What get_proof_of_leaf returns is the whole proof, and needs no filling in.
LEMMA FilledProof ==
  ASSUME NEW leaves, NEW i
  PROVE  /\ fill_in_proof(get_proof_of_leaf(leaves, i)) = WholeProof(leaves, i)
         /\ \A k \in Levels : get_proof_of_leaf(leaves, i)[k + 1] = WholeProof(leaves, i)[k]
  <1> DEFINE s == get_proof_of_leaf(leaves, i)
             N(k) == MerkleTree(leaves)[k][Sibling(i \div 2^k)]
  <1>1. s = [k \in 1..MAX_DEPTH |-> N(k-1)]
    BY DEF get_proof_of_leaf
  <1>2. WholeProof(leaves, i) = [k \in Levels |-> N(k)]
    BY DEF WholeProof, Ancestor
  <1> HIDE DEF N, s
  <1>3. Len(s) = MAX_DEPTH
    BY <1>1, DepthAssumption
  <1>4. ASSUME NEW k \in Levels PROVE k < Len(s) /\ s[k + 1] = N(k)
    <2>1. k + 1 \in 1..MAX_DEPTH /\ (k + 1) - 1 = k /\ k < MAX_DEPTH
      BY DepthAssumption DEF Levels
    <2> QED
      BY <1>1, <1>3, <2>1
  <1>5. fill_in_proof(s) = [k \in Levels |-> N(k)]
    BY <1>4 DEF fill_in_proof
  <1> QED
    BY <1>2, <1>4, <1>5 DEF s

\* A node of the tree is above the nodes at twice its position and one more.
LEMMA Children ==
  ASSUME NEW k \in Levels, NEW p \in Positions(k + 1)
  PROVE  2*p \in Positions(k) /\ 2*p + 1 \in Positions(k)
  BY WidthStep DEF Positions

\* A leaf's path: of the two nodes below the ancestor at level k + 1 one is the
\* ancestor at level k and the other its sibling.
LEMMA PathStep ==
  ASSUME NEW i \in LeafIndices, NEW k \in Levels
  PROVE  LET a == Ancestor(i, k)
             up == Ancestor(i, k + 1)
         IN  /\ a \in Positions(k) /\ up \in Positions(k + 1) /\ Sibling(a) \in Positions(k)
             /\ a \in Nat /\ up = a \div 2 /\ Sibling(a) # a /\ Sibling(a) \div 2 = up
             /\ IsLeft(i)[k] => a = 2*up /\ Sibling(a) = 2*up + 1
             /\ ~IsLeft(i)[k] => a = 2*up + 1 /\ Sibling(a) = 2*up
  <1> DEFINE a == Ancestor(i, k)
             up == Ancestor(i, k + 1)
  <1>1. i \in Nat /\ k \in 0..MAX_DEPTH /\ k + 1 \in 0..MAX_DEPTH
    BY Capacity, DepthAssumption DEF LeafIndices, Levels
  <1>2. a \in Nat /\ up = a \div 2 /\ Bit(i, k) = a % 2
    BY <1>1, AncestorStep
  <1>3. a \in Positions(k) /\ up \in Positions(k + 1)
    BY <1>1, AncestorInTree
  <1>4. 2*up \in Positions(k) /\ 2*up + 1 \in Positions(k)
    BY <1>3, Children
  <1>5. IsLeft(i)[k] <=> a % 2 = 0
    BY <1>2 DEF IsLeft
  <1> HIDE DEF a, up
  <1>6. CASE a % 2 = 0
    <2>1. a = 2*up /\ Sibling(a) = 2*up + 1 /\ Sibling(a) \div 2 = up
      BY <1>2, <1>6 DEF Sibling
    <2> QED
      BY <1>2, <1>3, <1>4, <1>5, <1>6, <2>1 DEF a, up
  <1>7. CASE a % 2 # 0
    <2>1. a = 2*up + 1 /\ Sibling(a) = 2*up /\ Sibling(a) \div 2 = up
      BY <1>2, <1>7 DEF Sibling
    <2> QED
      BY <1>2, <1>3, <1>4, <1>5, <1>7, <2>1 DEF a, up
  <1> QED
    BY <1>6, <1>7

\* Hashing upwards from a leaf with its own proof gives the nodes of the tree.
LEMMA PathInTree ==
  ASSUME NEW leaves, NEW i \in LeafIndices
  PROVE  \A k \in 0..MAX_DEPTH :
           Climb(leaves[i], WholeProof(leaves, i), IsLeft(i))[k] = MerkleTree(leaves)[k][Ancestor(i, k)]
  <1> DEFINE c == Climb(leaves[i], WholeProof(leaves, i), IsLeft(i))
             T == MerkleTree(leaves)
             S == {k \in 0..MAX_DEPTH : c[k] = T[k][Ancestor(i, k)]}
  <1>1. 0 \in Levels /\ i \in Nat /\ MAX_DEPTH \in Nat
    BY DepthAssumption, Capacity DEF Levels, LeafIndices
  <1>2. 0 \in S
    <2>1. c[0] = leaves[i]
      BY ClimbStep
    <2>2. T[0] = leaves /\ Ancestor(i, 0) = i
      BY <1>1, TreeStep, AncestorStep
    <2> HIDE DEF c, T
    <2> QED
      BY <1>1, <2>1, <2>2
  <1>3. ASSUME NEW k \in 0..MAX_DEPTH-1, k \in S PROVE k + 1 \in S
    <2> DEFINE a == Ancestor(i, k)
               up == Ancestor(i, k + 1)
    <2>1. k \in Levels /\ k + 1 \in 0..MAX_DEPTH
      BY DepthAssumption DEF Levels
    <2>2. c[k + 1] = hash_to_parent(T[k][a], T[k][Sibling(a)], IsLeft(i)[k])
      BY <1>3, <2>1, ClimbStep DEF WholeProof
    <2>3. /\ up \in Positions(k + 1)
          /\ IsLeft(i)[k] => a = 2*up /\ Sibling(a) = 2*up + 1
          /\ ~IsLeft(i)[k] => a = 2*up + 1 /\ Sibling(a) = 2*up
      BY <2>1, PathStep
    <2>4. T[k + 1][up] = <<T[k][2*up], T[k][2*up + 1]>>
      BY <2>1, <2>3, TreeStep
    <2> HIDE DEF a, up, c, T
    <2>5. c[k + 1] = T[k + 1][up]
      BY <2>2, <2>3, <2>4 DEF hash_to_parent
    <2> QED
      BY <2>1, <2>5 DEF up
  <1>4. \A k \in 0..MAX_DEPTH : k \in S
    <2> HIDE DEF S
    <2> QED
      BY <1>1, <1>2, <1>3, Upwards
  <1> QED
    BY <1>4

\* A leaf's proof recomputes the root.
LEMMA ProofRecomputes ==
  ASSUME NEW leaves, NEW i \in LeafIndices
  PROVE  recompute(leaves[i], WholeProof(leaves, i), i) = build_root(leaves)
  <1>1. MAX_DEPTH \in 0..MAX_DEPTH
    BY DepthAssumption
  <1>2. Ancestor(i, MAX_DEPTH) = 0
    BY <1>1, AncestorInTree
  <1> QED
    BY <1>1, <1>2, PathInTree DEF recompute, build_root

\* Writing a leaf changes the nodes on its way up, to what hashing upwards with
\* the leaf's proof gives, and no other node.
LEMMA WriteInTree ==
  ASSUME NEW leaves, DOMAIN leaves = LeafIndices, NEW i \in LeafIndices, NEW v
  PROVE  \A k \in 0..MAX_DEPTH : \A p \in Positions(k) :
           MerkleTree(add_leaf(leaves, v, i))[k][p] =
             IF p = Ancestor(i, k) THEN Climb(v, WholeProof(leaves, i), IsLeft(i))[k]
                                   ELSE MerkleTree(leaves)[k][p]
  <1> DEFINE c == Climb(v, WholeProof(leaves, i), IsLeft(i))
             T == MerkleTree(leaves)
             W == MerkleTree(add_leaf(leaves, v, i))
             S == {k \in 0..MAX_DEPTH : \A p \in Positions(k) :
                     W[k][p] = IF p = Ancestor(i, k) THEN c[k] ELSE T[k][p]}
  <1>1. 0 \in Levels /\ i \in Nat /\ MAX_DEPTH \in Nat
    BY DepthAssumption, Capacity DEF Levels, LeafIndices
  <1>2. 0 \in S
    <2>1. W[0] = add_leaf(leaves, v, i) /\ T[0] = leaves /\ c[0] = v /\ Ancestor(i, 0) = i
      BY <1>1, ClimbStep, TreeStep, AncestorStep
    <2>2. Positions(0) = LeafIndices
      BY <1>1, WidthStep DEF Positions, LeafIndices
    <2> HIDE DEF W, T, c
    <2>3. ASSUME NEW p \in Positions(0)
          PROVE  W[0][p] = IF p = Ancestor(i, 0) THEN c[0] ELSE T[0][p]
      BY <2>1, <2>2 DEF add_leaf
    <2> QED
      BY <1>1, <2>3
  <1>3. ASSUME NEW k \in 0..MAX_DEPTH-1, k \in S PROVE k + 1 \in S
    <2> DEFINE a == Ancestor(i, k)
               up == Ancestor(i, k + 1)
    <2>1. k \in Levels /\ k + 1 \in 0..MAX_DEPTH
      BY DepthAssumption DEF Levels
    <2>2. c[k + 1] = hash_to_parent(c[k], T[k][Sibling(a)], IsLeft(i)[k])
      BY <2>1, ClimbStep DEF WholeProof
    <2>3. /\ up \in Positions(k + 1) /\ a \in Positions(k) /\ Sibling(a) \in Positions(k)
          /\ a \in Nat /\ up = a \div 2
          /\ IsLeft(i)[k] => a = 2*up /\ Sibling(a) = 2*up + 1
          /\ ~IsLeft(i)[k] => a = 2*up + 1 /\ Sibling(a) = 2*up
      BY <2>1, PathStep
    <2> HIDE DEF a, up, c, T, W
    <2>4. ASSUME NEW p \in Positions(k + 1)
          PROVE  W[k + 1][p] = IF p = up THEN c[k + 1] ELSE T[k + 1][p]
      <3>1. /\ W[k + 1][p] = <<W[k][2*p], W[k][2*p + 1]>>
            /\ T[k + 1][p] = <<T[k][2*p], T[k][2*p + 1]>>
        BY <2>1, TreeStep DEF W, T
      <3>2. 2*p \in Positions(k) /\ 2*p + 1 \in Positions(k) /\ p \in Nat
        BY <2>1, Children, WidthStep DEF Positions
      <3>3. /\ W[k][2*p] = IF 2*p = a THEN c[k] ELSE T[k][2*p]
            /\ W[k][2*p + 1] = IF 2*p + 1 = a THEN c[k] ELSE T[k][2*p + 1]
        BY <1>3, <3>2 DEF a
      <3>4. CASE p # up
        <4>1. 2*p # a /\ 2*p + 1 # a
          BY <2>3, <3>2, <3>4
        <4> QED
          BY <3>1, <3>3, <3>4, <4>1
      <3>5. CASE p = up /\ IsLeft(i)[k]
        <4>1. 2*p = a /\ 2*p + 1 # a /\ 2*p + 1 = Sibling(a)
          BY <2>3, <3>2, <3>5
        <4> QED
          BY <2>2, <3>1, <3>3, <3>5, <4>1 DEF hash_to_parent
      <3>6. CASE p = up /\ ~IsLeft(i)[k]
        <4>1. 2*p # a /\ 2*p + 1 = a /\ 2*p = Sibling(a)
          BY <2>3, <3>2, <3>6
        <4> QED
          BY <2>2, <3>1, <3>3, <3>6, <4>1 DEF hash_to_parent
      <3> QED
        BY <3>4, <3>5, <3>6
    <2> QED
      BY <2>1, <2>4 DEF up
  <1>4. \A k \in 0..MAX_DEPTH : k \in S
    <2> HIDE DEF S
    <2> QED
      BY <1>1, <1>2, <1>3, Upwards
  <1> QED
    BY <1>4

\* Hashes have one preimage: trees with the same root have the same leaves.
LEMMA RootDeterminesLeaves ==
  ASSUME NEW leaves1, NEW leaves2, DOMAIN leaves1 = LeafIndices, DOMAIN leaves2 = LeafIndices,
         leaves1 = [i \in LeafIndices |-> leaves1[i]], leaves2 = [i \in LeafIndices |-> leaves2[i]],
         build_root(leaves1) = build_root(leaves2)
  PROVE  leaves1 = leaves2
  <1> DEFINE T1 == MerkleTree(leaves1)
             T2 == MerkleTree(leaves2)
             S == {k \in 0..MAX_DEPTH : \A p \in Positions(k) : T1[k][p] = T2[k][p]}
  <1>1. 0 \in Levels /\ MAX_DEPTH \in Nat
    BY DepthAssumption DEF Levels
  <1>2. MAX_DEPTH \in S
    <2>1. \A p \in Positions(MAX_DEPTH) : p = 0
      BY <1>1, WidthStep DEF Positions
    <2>2. T1[MAX_DEPTH][0] = T2[MAX_DEPTH][0]
      BY DEF build_root
    <2> HIDE DEF T1, T2
    <2> QED
      BY <1>1, <2>1, <2>2
  <1>3. ASSUME NEW k \in 0..MAX_DEPTH-1, k + 1 \in S PROVE k \in S
    <2>1. k \in Levels /\ k \in 0..MAX_DEPTH
      BY DepthAssumption DEF Levels
    <2>2. ASSUME NEW p \in Positions(k) PROVE T1[k][p] = T2[k][p]
      <3> DEFINE up == p \div 2
      <3>1. up \in Positions(k + 1) /\ (p = 2*up \/ p = 2*up + 1)
        BY <2>1, WidthStep DEF Positions
      <3> HIDE DEF up
      <3>2. /\ T1[k + 1][up] = <<T1[k][2*up], T1[k][2*up + 1]>>
            /\ T2[k + 1][up] = <<T2[k][2*up], T2[k][2*up + 1]>>
        BY <2>1, <3>1, TreeStep
      <3> HIDE DEF T1, T2
      <3>3. <<T1[k][2*up], T1[k][2*up + 1]>> = <<T2[k][2*up], T2[k][2*up + 1]>>
        BY <1>3, <3>1, <3>2
      <3> QED
        BY <3>1, <3>3
    <2> QED
      BY <2>1, <2>2
  <1>4. \A k \in 0..MAX_DEPTH : k \in S
    <2> HIDE DEF S
    <2> QED
      BY <1>1, <1>2, <1>3, Downwards
  <1>5. \A p \in Positions(0) : T1[0][p] = T2[0][p]
    BY <1>1, <1>4
  <1>6. T1[0] = leaves1 /\ T2[0] = leaves2
    BY TreeStep
  <1>7. Positions(0) = LeafIndices
    BY <1>1, WidthStep DEF Positions, LeafIndices
  <1> HIDE DEF T1, T2
  <1>8. \A i \in LeafIndices : leaves1[i] = leaves2[i]
    BY <1>5, <1>6, <1>7
  <1> QED
    BY <1>8

\* And a root recomputed at an index determines the leaf and the proof.
LEMMA RootDeterminesProof ==
  ASSUME NEW i, NEW leaf1, NEW proof1, NEW leaf2, NEW proof2,
         recompute(leaf1, proof1, i) = recompute(leaf2, proof2, i)
  PROVE  leaf1 = leaf2 /\ \A k \in Levels : proof1[k] = proof2[k]
  <1> DEFINE c1 == Climb(leaf1, proof1, IsLeft(i))
             c2 == Climb(leaf2, proof2, IsLeft(i))
             S == {k \in 0..MAX_DEPTH : c1[k] = c2[k]}
  <1>0. /\ c1[0] = leaf1 /\ \A k \in Levels : c1[k + 1] = hash_to_parent(c1[k], proof1[k], IsLeft(i)[k])
        /\ c2[0] = leaf2 /\ \A k \in Levels : c2[k + 1] = hash_to_parent(c2[k], proof2[k], IsLeft(i)[k])
    BY ClimbStep
  <1>1. MAX_DEPTH \in S /\ MAX_DEPTH \in Nat
    BY DepthAssumption DEF recompute
  <1> HIDE DEF c1, c2
  <1>2. ASSUME NEW k \in Levels, c1[k + 1] = c2[k + 1] PROVE c1[k] = c2[k] /\ proof1[k] = proof2[k]
    <2>1. CASE IsLeft(i)[k]
      <3>1. <<c1[k], proof1[k]>> = <<c2[k], proof2[k]>>
        BY <1>0, <1>2, <2>1 DEF hash_to_parent
      <3> QED
        BY <3>1
    <2>2. CASE ~IsLeft(i)[k]
      <3>1. <<proof1[k], c1[k]>> = <<proof2[k], c2[k]>>
        BY <1>0, <1>2, <2>2 DEF hash_to_parent
      <3> QED
        BY <3>1
    <2> QED
      BY <2>1, <2>2
  <1>3. ASSUME NEW k \in 0..MAX_DEPTH-1, k + 1 \in S PROVE k \in S
    BY <1>2, <1>3, DepthAssumption DEF Levels
  <1>4. \A k \in 0..MAX_DEPTH : k \in S
    <2> HIDE DEF S
    <2> QED
      BY <1>1, <1>3, Downwards
  <1>5. leaf1 = leaf2
    BY <1>0, <1>4, DepthAssumption
  <1>6. ASSUME NEW k \in Levels PROVE proof1[k] = proof2[k]
    <2>1. k + 1 \in 0..MAX_DEPTH
      BY DepthAssumption DEF Levels
    <2> QED
      BY <1>2, <1>4, <2>1
  <1> QED
    BY <1>5, <1>6

\* The way down from a recomputed root leads to the leaf it was computed from.
LEMMA LeafOfRecomputed ==
  ASSUME NEW i \in LeafIndices, NEW leaf, NEW proof
  PROVE  LeafOf(recompute(leaf, proof, i), i) = leaf
  <1> DEFINE c == Climb(leaf, proof, IsLeft(i))
             root == recompute(leaf, proof, i)
  <1>1. PICK node : /\ node[MAX_DEPTH] = root
                    /\ \A k \in Levels : node[k] = node[k + 1][1 + Bit(i, k)]
                    /\ LeafOf(root, i) = node[0]
    BY LeafOfStep
  <1> DEFINE S == {k \in 0..MAX_DEPTH : node[k] = c[k]}
  <1>2. MAX_DEPTH \in S /\ MAX_DEPTH \in Nat
    BY <1>1, DepthAssumption DEF recompute
  <1>3. ASSUME NEW k \in 0..MAX_DEPTH-1, k + 1 \in S PROVE k \in S
    <2>1. k \in Levels /\ k \in 0..MAX_DEPTH
      BY DepthAssumption DEF Levels
    <2>2. c[k + 1] = hash_to_parent(c[k], proof[k], IsLeft(i)[k])
      BY <2>1, ClimbStep
    <2>3. Bit(i, k) \in {0, 1} /\ (IsLeft(i)[k] <=> Bit(i, k) = 0)
      <3>1. Bit(i, k) = Ancestor(i, k) % 2 /\ Ancestor(i, k) \in Nat
        BY <2>1, AncestorStep, Capacity DEF LeafIndices
      <3>2. Bit(i, k) \in {0, 1}
        BY <3>1
      <3>3. IsLeft(i)[k] = (Bit(i, k) = 0)
        BY <2>1 DEF IsLeft
      <3> QED
        BY <3>2, <3>3
    <2> HIDE DEF c
    <2>4. node[k] = c[k + 1][1 + Bit(i, k)]
      BY <1>1, <1>3, <2>1
    <2>5. CASE IsLeft(i)[k]
      <3>1. node[k] = <<c[k], proof[k]>>[1]
        BY <2>2, <2>3, <2>4, <2>5 DEF hash_to_parent
      <3> QED
        BY <2>1, <3>1
    <2>6. CASE ~IsLeft(i)[k]
      <3>1. node[k] = <<proof[k], c[k]>>[2]
        BY <2>2, <2>3, <2>4, <2>6 DEF hash_to_parent
      <3> QED
        BY <2>1, <3>1
    <2> QED
      BY <2>5, <2>6
  <1>4. \A k \in 0..MAX_DEPTH : k \in S
    <2> HIDE DEF S
    <2> QED
      BY <1>2, <1>3, Downwards
  <1>5. node[0] = c[0] /\ c[0] = leaf
    BY <1>4, ClimbStep, DepthAssumption
  <1> QED
    BY <1>1, <1>5

-----------------------------------------------------------------------------
(* Two paths in one tree. *)

\* Paths that are apart at a level are apart at every level below it.
LEMMA ApartBelow ==
  ASSUME NEW i \in LeafIndices, NEW j \in LeafIndices, NEW c \in Levels, Ancestor(i, c) # Ancestor(j, c)
  PROVE  \A k \in 0..c : Ancestor(i, k) # Ancestor(j, k)
  <1> DEFINE S == {k \in 0..c : Ancestor(i, k) # Ancestor(j, k)}
  <1>1. c \in Nat /\ c \in S
    BY DepthAssumption DEF Levels
  <1>2. ASSUME NEW k \in 0..c-1, k + 1 \in S PROVE k \in S
    <2>1. k \in Levels /\ k \in 0..c
      BY DepthAssumption DEF Levels
    <2>2. Ancestor(i, k + 1) = Ancestor(i, k) \div 2 /\ Ancestor(j, k + 1) = Ancestor(j, k) \div 2
      BY <2>1, PathStep
    <2> QED
      BY <1>2, <2>1, <2>2
  <1>3. \A k \in 0..c : k \in S
    <2> HIDE DEF S
    <2> QED
      BY <1>1, <1>2, Downwards
  <1> QED
    BY <1>3

\* Paths whose bits agree from a level on have met there.
LEMMA TogetherAbove ==
  ASSUME NEW i \in LeafIndices, NEW j \in LeafIndices, NEW c \in 0..MAX_DEPTH,
         \A k \in Levels : k >= c => Bit(i, k) = Bit(j, k)
  PROVE  \A k \in c..MAX_DEPTH : Ancestor(i, k) = Ancestor(j, k)
  <1> DEFINE S == {k \in 0..MAX_DEPTH : k >= c => Ancestor(i, k) = Ancestor(j, k)}
  <1>1. MAX_DEPTH \in Nat /\ MAX_DEPTH \in S
    <2>1. MAX_DEPTH \in 0..MAX_DEPTH /\ MAX_DEPTH \in Nat
      BY DepthAssumption
    <2>2. Ancestor(i, MAX_DEPTH) = 0 /\ Ancestor(j, MAX_DEPTH) = 0
      BY <2>1, AncestorInTree
    <2> QED
      BY <2>1, <2>2
  <1>2. ASSUME NEW k \in 0..MAX_DEPTH-1, k + 1 \in S PROVE k \in S
    <2> DEFINE a == Ancestor(i, k)
               b == Ancestor(j, k)
    <2>1. k \in Levels /\ k \in 0..MAX_DEPTH /\ i \in Nat /\ j \in Nat
      BY DepthAssumption, Capacity DEF Levels, LeafIndices
    <2>2. a \in Nat /\ b \in Nat /\ Bit(i, k) = a % 2 /\ Bit(j, k) = b % 2
      BY <2>1, AncestorStep
    <2>3. Ancestor(i, k + 1) = a \div 2 /\ Ancestor(j, k + 1) = b \div 2
      BY <2>1, AncestorStep
    <2> HIDE DEF a, b
    <2>4. k >= c => a = b
      <3> SUFFICES ASSUME k >= c PROVE a = b
        OBVIOUS
      <3>1. a \div 2 = b \div 2
        BY <1>2, <2>3, DepthAssumption
      <3>2. a % 2 = b % 2
        BY <2>1, <2>2
      <3> QED
        BY <2>2, <3>1, <3>2
    <2> QED
      BY <2>1, <2>4 DEF a, b
  <1>3. \A k \in 0..MAX_DEPTH : k \in S
    <2> HIDE DEF S
    <2> QED
      BY <1>1, <1>2, Downwards
  <1>4. \A k \in c..MAX_DEPTH : k \in 0..MAX_DEPTH /\ k >= c
    BY DepthAssumption
  <1> QED
    BY <1>3, <1>4

\* The paths of two leaves meet in siblings, at one level: the critbit.
LEMMA PathsMeet ==
  ASSUME NEW i \in LeafIndices, NEW j \in LeafIndices, i # j
  PROVE  /\ CritbitIndex(i, j) \in Levels
         /\ \A k \in Levels : Ancestor(j, k) = Sibling(Ancestor(i, k)) <=> k = CritbitIndex(i, j)
         /\ ~CritbitUnderflows(i, j)
  <1> DEFINE D == DifferingLevels(i, j)
             U == {MAX_DEPTH - k : k \in D}
             c == CritbitIndex(i, j)
  <1>0. D \subseteq Levels /\ \A k \in Levels : k \in D <=> Bit(i, k) # Bit(j, k)
    BY DEF DifferingLevels
  <1>1. D # {}
    <2> SUFFICES ASSUME D = {} PROVE FALSE
      OBVIOUS
    <2>1. 0 \in 0..MAX_DEPTH /\ 0 \in Levels /\ i \in Nat /\ j \in Nat
      BY DepthAssumption, Capacity DEF Levels, LeafIndices
    <2>2. \A k \in 0..MAX_DEPTH : Ancestor(i, k) = Ancestor(j, k)
      BY <1>0, <2>1, TogetherAbove
    <2>3. Ancestor(i, 0) = i /\ Ancestor(j, 0) = j
      BY <2>1, AncestorStep
    <2> QED
      BY <2>1, <2>2, <2>3
  <1> HIDE DEF D
  <1>2. U \in SUBSET Nat /\ U # {}
    BY <1>0, <1>1, DepthAssumption DEF Levels
  <1>3. PICK m \in U : \A k \in U : m <= k
    BY <1>2, LeastNumber
  <1>4. PICK top \in D : m = MAX_DEPTH - top
    OBVIOUS
  <1>5. ASSUME NEW k \in D PROVE k <= top
    <2>1. MAX_DEPTH - top <= MAX_DEPTH - k
      BY <1>3, <1>4
    <2> QED
      BY <1>0, <2>1, DepthAssumption DEF Levels
  <1>6. c \in D /\ \A k \in D : k <= c
    <2>1. c = CHOOSE k \in D : \A n \in D : n <= k
      BY DEF CritbitIndex, D
    <2> HIDE DEF c
    <2> QED
      BY <1>4, <1>5, <2>1
  <1> HIDE DEF c, U
  <1>7. c \in Levels /\ c \in 0..MAX_DEPTH /\ c + 1 \in 0..MAX_DEPTH
    BY <1>0, <1>6, DepthAssumption DEF Levels
  <1>8. \A k \in c+1..MAX_DEPTH : Ancestor(i, k) = Ancestor(j, k)
    <2>1. \A k \in Levels : k >= c + 1 => Bit(i, k) = Bit(j, k)
      BY <1>0, <1>6, <1>7, DepthAssumption DEF Levels
    <2> QED
      BY <1>7, <2>1, TogetherAbove
  <1>9. Ancestor(i, c) # Ancestor(j, c)
    <2>1. i \in Nat /\ j \in Nat
      BY Capacity DEF LeafIndices
    <2> QED
      BY <1>0, <1>6, <1>7, <2>1, AncestorStep
  <1>10. \A k \in 0..c : Ancestor(i, k) # Ancestor(j, k)
    BY <1>7, <1>9, ApartBelow
  <1>11. ASSUME NEW k \in Levels PROVE Ancestor(j, k) = Sibling(Ancestor(i, k)) <=> k = c
    <2> DEFINE a == Ancestor(i, k)
               b == Ancestor(j, k)
    <2>1. /\ a \in Nat /\ Ancestor(i, k + 1) = a \div 2 /\ Sibling(a) # a
          /\ Sibling(a) \div 2 = Ancestor(i, k + 1)
          /\ b \in Nat /\ Ancestor(j, k + 1) = b \div 2
      BY PathStep
    <2> HIDE DEF a, b
    <2>2. CASE k = c
      <3>1. a \div 2 = b \div 2 /\ a # b
        BY <1>7, <1>8, <1>9, <2>1, <2>2, DepthAssumption DEF a, b
      <3>2. b = Sibling(a)
        BY <2>1, <3>1 DEF Sibling
      <3> QED
        BY <2>2, <3>2 DEF a, b
    <2>3. CASE k > c
      <3>1. a = b
        BY <1>7, <1>8, <2>3, DepthAssumption DEF a, b, Levels
      <3> QED
        BY <1>7, <2>1, <2>3, <3>1, DepthAssumption DEF a, b, Levels
    <2>4. CASE k < c
      <3>1. k + 1 \in 0..c
        BY <1>7, <2>4, DepthAssumption DEF Levels
      <3>2. a \div 2 # b \div 2
        BY <1>10, <2>1, <3>1
      <3> QED
        BY <1>7, <2>1, <2>4, <3>2, DepthAssumption DEF a, b, Levels
    <2> QED
      BY <1>7, <2>2, <2>3, <2>4, DepthAssumption DEF Levels
  <1>12. ~CritbitUnderflows(i, j)
    BY <1>1 DEF CritbitUnderflows, D
  <1> QED
    BY <1>7, <1>11, <1>12 DEF c

\* A write leaves a leaf's proof alone where the leaf's siblings are not above
\* the written leaf; so it leaves alone the proof of the written leaf.
LEMMA ProofAfterWrite ==
  ASSUME NEW leaves, DOMAIN leaves = LeafIndices, NEW i \in LeafIndices, NEW j \in LeafIndices, NEW v
  PROVE  /\ \A k \in Levels : Sibling(Ancestor(i, k)) # Ancestor(j, k) =>
              WholeProof(add_leaf(leaves, v, j), i)[k] = WholeProof(leaves, i)[k]
         /\ i = j => WholeProof(add_leaf(leaves, v, j), i) = WholeProof(leaves, i)
  <1> DEFINE T == MerkleTree(leaves)
             W == MerkleTree(add_leaf(leaves, v, j))
             old == WholeProof(leaves, i)
             now == WholeProof(add_leaf(leaves, v, j), i)
  <1>1. /\ old = [k \in Levels |-> T[k][Sibling(Ancestor(i, k))]]
        /\ now = [k \in Levels |-> W[k][Sibling(Ancestor(i, k))]]
    BY DEF WholeProof
  <1>2. ASSUME NEW k \in Levels, Sibling(Ancestor(i, k)) # Ancestor(j, k) PROVE now[k] = old[k]
    <2>1. Sibling(Ancestor(i, k)) \in Positions(k) /\ k \in 0..MAX_DEPTH
      BY PathStep, DepthAssumption DEF Levels
    <2>2. W[k][Sibling(Ancestor(i, k))] = T[k][Sibling(Ancestor(i, k))]
      BY <1>2, <2>1, WriteInTree
    <2> QED
      BY <1>1, <2>2
  <1>3. ASSUME i = j PROVE now = old
    <2>1. \A k \in Levels : now[k] = old[k]
      BY <1>2, <1>3, PathStep
    <2> QED
      BY <1>1, <2>1
  <1> QED
    BY <1>2, <1>3

\* A function from the levels, whatever its nodes.
IsProof(proof) == proof = [k \in Levels |-> proof[k]]

\* Some nodes of a proof brought past the change log of a write become those of
\* the tree after the write; the other ones stay, and had no need to change.
NodesFollow(leaves, i, j, v, given, new_proof) ==
  LET old == WholeProof(leaves, i)
      now == WholeProof(add_leaf(leaves, v, j), i)
  IN  /\ IsProof(new_proof)
      /\ \A k \in Levels : new_proof[k] = now[k] \/ (new_proof[k] = given[k] /\ now[k] = old[k])

BroughtPast(log, leaves, i, j, v, x, given) ==
  \E new_proof : /\ update_proof_or_leaf(log, i, [leaf |-> x, proof |-> given])
                       = [leaf |-> IF i = j THEN v ELSE x, proof |-> new_proof]
                  /\ NodesFollow(leaves, i, j, v, given, new_proof)

\* update_proof_or_leaf brings a proof past one change log, node by node.
LEMMA UpdatedNodes ==
  ASSUME NEW leaves, DOMAIN leaves = LeafIndices, NEW i \in LeafIndices, NEW j \in LeafIndices, NEW v,
         NEW log, log.index = j, NEW x, NEW given, IsProof(given),
         \A k \in Levels : log.path[k] = MerkleTree(add_leaf(leaves, v, j))[k][Ancestor(j, k)]
  PROVE  BroughtPast(log, leaves, i, j, v, x, given)
  <1> DEFINE T == MerkleTree(leaves)
             W == MerkleTree(add_leaf(leaves, v, j))
             c == CritbitIndex(i, j)
             old == WholeProof(leaves, i)
             now == WholeProof(add_leaf(leaves, v, j), i)
  <1>1. /\ old = [k \in Levels |-> T[k][Sibling(Ancestor(i, k))]]
        /\ now = [k \in Levels |-> W[k][Sibling(Ancestor(i, k))]]
    BY DEF WholeProof
  <1>2. /\ \A k \in Levels : Sibling(Ancestor(i, k)) # Ancestor(j, k) => now[k] = old[k]
        /\ i = j => now = old
    BY ProofAfterWrite
  <1>3. CASE i = j
    <2>1. 0 \in Levels /\ j \in Nat
      <3>1. 0 \in Levels
        BY DepthAssumption DEF Levels
      <3>2. j \in Nat
        BY Capacity DEF LeafIndices
      <3> QED
        BY <3>1, <3>2
    <2>2. log.path[0] = v
      <3>1. W[0] = add_leaf(leaves, v, j) /\ Ancestor(j, 0) = j
        BY <2>1, TreeStep, AncestorStep
      <3>2. log.path[0] = add_leaf(leaves, v, j)[j]
        BY <2>1, <3>1
      <3> QED
        BY <3>2 DEF add_leaf
    <2>4. now = old
      BY <1>2, <1>3
    <2> HIDE DEF old, now
    <2>5. update_proof_or_leaf(log, i, [leaf |-> x, proof |-> given])
            = [[leaf |-> x, proof |-> given] EXCEPT !.leaf = v]
      BY <1>3, <2>2 DEF update_proof_or_leaf, get_leaf
    <2>6. [[leaf |-> x, proof |-> given] EXCEPT !.leaf = v] = [leaf |-> v, proof |-> given]
      OBVIOUS
    <2>7. update_proof_or_leaf(log, i, [leaf |-> x, proof |-> given])
            = [leaf |-> IF i = j THEN v ELSE x, proof |-> given]
      BY <1>3, <2>5, <2>6
    <2>8. \A k \in Levels : given[k] = given[k] /\ now[k] = old[k]
      BY <2>4
    <2> QED
      BY <2>7, <2>8 DEF old, now, NodesFollow, BroughtPast
  <1>4. CASE i # j
    <2> DEFINE moved == [given EXCEPT ![c] = log.path[c]]
    <2>1. c \in Levels /\ \A k \in Levels : Ancestor(j, k) = Sibling(Ancestor(i, k)) <=> k = c
      BY <1>4, PathsMeet
    <2>2. now[c] = log.path[c]
      BY <1>1, <2>1
    <2>3. \A k \in Levels : k # c => now[k] = old[k]
      BY <1>2, <2>1
    <2> HIDE DEF old, now, c
    <2>4. /\ IsProof(moved)
          /\ \A k \in Levels : moved[k] = IF k = c THEN now[k] ELSE given[k]
      BY <2>1, <2>2 DEF IsProof
    <2>5. update_proof_or_leaf(log, i, [leaf |-> x, proof |-> given])
            = [[leaf |-> x, proof |-> given] EXCEPT !.proof = moved]
      BY <1>4 DEF update_proof_or_leaf, c
    <2> HIDE DEF moved
    <2>6. [[leaf |-> x, proof |-> given] EXCEPT !.proof = moved] = [leaf |-> x, proof |-> moved]
      OBVIOUS
    <2>7. update_proof_or_leaf(log, i, [leaf |-> x, proof |-> given])
            = [leaf |-> IF i = j THEN v ELSE x, proof |-> moved]
      BY <1>4, <2>5, <2>6
    <2>8. \A k \in Levels : moved[k] = now[k] \/ (moved[k] = given[k] /\ now[k] = old[k])
      BY <2>3, <2>4
    <2> QED
      BY <2>4, <2>7, <2>8 DEF old, now, NodesFollow, BroughtPast
  <1> QED
    BY <1>3, <1>4

\* A proof brought past the change log of a write is the proof in the tree after
\* the write; the leaf is the written one if it was written, or else as before.
LEMMA UpdatedProof ==
  ASSUME NEW leaves, DOMAIN leaves = LeafIndices, NEW i \in LeafIndices, NEW j \in LeafIndices, NEW v,
         NEW log, log.index = j, NEW x,
         \A k \in Levels : log.path[k] = MerkleTree(add_leaf(leaves, v, j))[k][Ancestor(j, k)]
  PROVE  update_proof_or_leaf(log, i, [leaf |-> x, proof |-> WholeProof(leaves, i)])
           = [leaf |-> IF i = j THEN v ELSE x, proof |-> WholeProof(add_leaf(leaves, v, j), i)]
  <1> DEFINE old == WholeProof(leaves, i)
             now == WholeProof(add_leaf(leaves, v, j), i)
  <1>1. IsProof(old) /\ IsProof(now)
    BY DEF WholeProof, IsProof
  <1>2. PICK new_proof :
          /\ update_proof_or_leaf(log, i, [leaf |-> x, proof |-> old])
               = [leaf |-> IF i = j THEN v ELSE x, proof |-> new_proof]
          /\ NodesFollow(leaves, i, j, v, old, new_proof)
    <2>1. IsProof(old)
      BY <1>1
    <2>2. BroughtPast(log, leaves, i, j, v, x, old)
      BY <2>1, UpdatedNodes
    <2> QED
      BY <2>2 DEF BroughtPast
  <1>3. IsProof(new_proof) /\ \A k \in Levels : new_proof[k] = now[k]
    BY <1>2 DEF NodesFollow
  <1> HIDE DEF old, now
  <1>4. new_proof = now
    BY <1>1, <1>3 DEF IsProof
  <1> QED
    BY <1>2, <1>4 DEF old, now

-----------------------------------------------------------------------------
(* The leaf after the last one. *)

\* Right of a position that is halved on every level, a tree whose leaves are
\* empty there has empty subtrees.
LEMMA EmptySubtree ==
  ASSUME NEW leaves, NEW a, \A k \in 0..MAX_DEPTH : a[k] \in Int,
         \A k \in Levels : a[k + 1] = a[k] \div 2,
         \A i \in LeafIndices : i > a[0] => leaves[i] = EMPTY
  PROVE  \A k \in 0..MAX_DEPTH : \A p \in Positions(k) : p > a[k] => MerkleTree(leaves)[k][p] = empty_node[k]
  <1> DEFINE T == MerkleTree(leaves)
             S == {k \in 0..MAX_DEPTH : \A p \in Positions(k) : p > a[k] => T[k][p] = empty_node[k]}
  <1>1. 0 \in Levels /\ MAX_DEPTH \in Nat
    BY DepthAssumption DEF Levels
  <1>2. 0 \in S
    <2>1. T[0] = leaves /\ empty_node[0] = EMPTY /\ Positions(0) = LeafIndices
      BY <1>1, TreeStep, EmptyStep, WidthStep DEF Positions, LeafIndices
    <2> HIDE DEF T
    <2> QED
      BY <1>1, <2>1
  <1>3. ASSUME NEW k \in 0..MAX_DEPTH-1, k \in S PROVE k + 1 \in S
    <2>1. k \in Levels /\ k \in 0..MAX_DEPTH /\ k + 1 \in 0..MAX_DEPTH
      BY DepthAssumption DEF Levels
    <2>2. ASSUME NEW p \in Positions(k + 1), p > a[k + 1] PROVE T[k + 1][p] = empty_node[k + 1]
      <3>1. T[k + 1][p] = <<T[k][2*p], T[k][2*p + 1]>> /\ empty_node[k + 1] = <<empty_node[k], empty_node[k]>>
        BY <2>1, TreeStep, EmptyStep
      <3>2. 2*p \in Positions(k) /\ 2*p + 1 \in Positions(k) /\ p \in Nat
        BY <2>1, Children, WidthStep DEF Positions
      <3>3. a[k] \in Int /\ a[k + 1] = a[k] \div 2
        BY <2>1
      <3>4. 2*p > a[k] /\ 2*p + 1 > a[k]
        BY <2>2, <3>2, <3>3
      <3> HIDE DEF T
      <3>5. T[k][2*p] = empty_node[k] /\ T[k][2*p + 1] = empty_node[k]
        BY <1>3, <3>2, <3>4
      <3> QED
        BY <3>1, <3>5
    <2> QED
      BY <2>1, <2>2
  <1>4. \A k \in 0..MAX_DEPTH : k \in S
    <2> HIDE DEF S
    <2> QED
      BY <1>1, <1>2, <1>3, Upwards
  <1> QED
    BY <1>4

\* The lowest bit of an index that is set.
LEMMA LowestBit ==
  ASSUME NEW n \in LeafIndices, n # 0
  PROVE  /\ trailing_zeros(n) \in Levels
         /\ Bit(n, trailing_zeros(n)) = 1
         /\ \A k \in 0..trailing_zeros(n)-1 : Bit(n, k) = 0
  <1> DEFINE Set == {k \in Levels : Bit(n, k) = 1}
             tz == trailing_zeros(n)
  <1>1. n \in Nat /\ 0 \in LeafIndices /\ 0 \in Levels /\ 0 \in 0..MAX_DEPTH
    BY Capacity, DepthAssumption DEF LeafIndices, Levels
  <1>2. \A k \in Levels : Bit(n, k) \in {0, 1}
    <2> SUFFICES ASSUME NEW k \in Levels PROVE Bit(n, k) \in {0, 1}
      OBVIOUS
    <2>1. Bit(n, k) = Ancestor(n, k) % 2 /\ Ancestor(n, k) \in Nat
      BY <1>1, AncestorStep
    <2> QED
      BY <2>1
  <1>3. Set # {}
    <2> SUFFICES ASSUME Set = {} PROVE FALSE
      OBVIOUS
    <2>1. \A k \in Levels : Bit(0, k) = 0
      <3> SUFFICES ASSUME NEW k \in Levels PROVE Bit(0, k) = 0
        OBVIOUS
      <3>1. k \in 0..30
        BY DepthAssumption DEF Levels
      <3>2. 2^k \in Nat \ {0}
        BY <3>1, PowersOfTwo, Zenon
      <3>3. \A b \in Nat \ {0} : (0 \div b) % 2 = 0
        OBVIOUS
      <3> QED
        BY <3>2, <3>3 DEF Bit
    <2>2. \A k \in Levels : Bit(n, k) = Bit(0, k)
      BY <1>2, <2>1
    <2>3. Ancestor(n, 0) = Ancestor(0, 0)
      BY <1>1, <2>2, TogetherAbove
    <2>4. Ancestor(n, 0) = n /\ Ancestor(0, 0) = 0
      BY <1>1, AncestorStep
    <2> QED
      BY <2>3, <2>4
  <1>4. PICK low \in Set : \A k \in Set : low <= k
    <2>1. Set \in SUBSET Nat
      BY DEF Levels
    <2> QED
      BY <1>3, <2>1, LeastNumber
  <1>5. low \in Levels /\ low \in 0..31 /\ Bit(n, low) = 1 /\ \A m \in 0..low-1 : Bit(n, m) = 0
    <2>1. low \in Levels /\ low \in 0..31 /\ Bit(n, low) = 1
      BY DepthAssumption DEF Levels
    <2>2. ASSUME NEW m \in 0..low-1 PROVE Bit(n, m) = 0
      <3>1. m \in Levels /\ ~(low <= m)
        BY <2>1, DepthAssumption DEF Levels
      <3> QED
        BY <1>2, <1>4, <3>1
    <2> QED
      BY <2>1, <2>2
  <1>6. tz \in 0..31 /\ Bit(n, tz) = 1 /\ \A m \in 0..tz-1 : Bit(n, m) = 0
    <2>1. tz = CHOOSE k \in 0..31 : Bit(n, k) = 1 /\ \A m \in 0..k-1 : Bit(n, m) = 0
      BY DEF trailing_zeros
    <2> HIDE DEF tz
    <2> QED
      BY <1>5, <2>1
  <1> HIDE DEF tz, Set
  <1>7. tz = low
    <2>1. ~(tz < low)
      BY <1>5, <1>6
    <2>2. ~(low < tz)
      BY <1>5, <1>6
    <2> QED
      BY <1>5, <1>6, <2>1, <2>2
  <1> QED
    BY <1>5, <1>7 DEF tz

\* How the paths of an index and of the one before it meet.
LEMMA NextPath ==
  ASSUME NEW n \in LeafIndices, n # 0
  PROVE  LET c == trailing_zeros(n)
         IN  /\ n - 1 \in LeafIndices /\ c \in Levels
             /\ \A k \in Levels : k < c => IsLeft(n)[k] /\ Sibling(Ancestor(n, k)) = Ancestor(n, k) + 1
             /\ ~IsLeft(n)[c] /\ Sibling(Ancestor(n, c)) = Ancestor(n - 1, c)
             /\ \A k \in Levels : k > c => IsLeft(n)[k] = IsLeft(n - 1)[k] /\ Ancestor(n, k) = Ancestor(n - 1, k)
  <1> DEFINE c == trailing_zeros(n)
             S == {k \in 0..c : Ancestor(n - 1, k) = Ancestor(n, k) - 1}
  <1>1. n \in Nat /\ n - 1 \in Nat /\ n - 1 \in LeafIndices
    BY Capacity DEF LeafIndices
  <1>2. c \in Levels /\ Bit(n, c) = 1 /\ \A k \in 0..c-1 : Bit(n, k) = 0
    BY LowestBit
  <1> HIDE DEF c
  <1>3. c \in Nat /\ 0 \in 0..c /\ 0 \in Levels
    BY <1>2, DepthAssumption DEF Levels
  <1>4. \A k \in Levels : /\ Ancestor(n, k) \in Nat /\ Bit(n, k) = Ancestor(n, k) % 2
                          /\ Ancestor(n, k + 1) = Ancestor(n, k) \div 2
                          /\ Ancestor(n - 1, k) \in Nat /\ Bit(n - 1, k) = Ancestor(n - 1, k) % 2
                          /\ Ancestor(n - 1, k + 1) = Ancestor(n - 1, k) \div 2
    BY <1>1, AncestorStep
  <1>5. 0 \in S
    BY <1>1, <1>3, AncestorStep
  <1>6. ASSUME NEW k \in 0..c-1, k \in S PROVE k + 1 \in S
    <2>1. k \in Levels /\ k + 1 \in 0..c
      BY <1>2, DepthAssumption DEF Levels
    <2>2. Ancestor(n, k) % 2 = 0 /\ Ancestor(n - 1, k) = Ancestor(n, k) - 1
      BY <1>2, <1>4, <1>6, <2>1
    <2>3. Ancestor(n, k) \in Nat /\ Ancestor(n - 1, k) \in Nat
      BY <1>4, <2>1
    <2>4. Ancestor(n - 1, k) \div 2 = (Ancestor(n, k) \div 2) - 1
      BY <2>2, <2>3
    <2> QED
      BY <1>4, <2>1, <2>4
  <1>7. \A k \in 0..c : k \in S
    <2> HIDE DEF S
    <2> QED
      BY <1>3, <1>5, <1>6, Upwards
  <1>8. ASSUME NEW k \in Levels, k < c PROVE IsLeft(n)[k] /\ Sibling(Ancestor(n, k)) = Ancestor(n, k) + 1
    <2>1. Bit(n, k) = 0
      BY <1>2, <1>8, DepthAssumption DEF Levels
    <2> QED
      BY <1>4, <2>1 DEF IsLeft, Sibling
  <1>9. ~IsLeft(n)[c] /\ Sibling(Ancestor(n, c)) = Ancestor(n - 1, c)
    <2>1. ~IsLeft(n)[c]
      <3>1. IsLeft(n)[c] <=> Bit(n, c) = 0
        BY <1>2 DEF IsLeft
      <3>2. ~(Bit(n, c) = 0)
        BY <1>2
      <3> QED
        BY <3>1, <3>2, Zenon
    <2>2. Sibling(Ancestor(n, c)) = Ancestor(n, c) - 1
      BY <1>2, <1>4 DEF Sibling
    <2>3. Ancestor(n - 1, c) = Ancestor(n, c) - 1
      BY <1>3, <1>7
    <2> QED
      BY <2>1, <2>2, <2>3
  <1>10. \A k \in c+1..MAX_DEPTH : Ancestor(n, k) = Ancestor(n - 1, k)
    <2> DEFINE U == {k \in Nat : c + 1 + k <= MAX_DEPTH => Ancestor(n, c + 1 + k) = Ancestor(n - 1, c + 1 + k)}
    <2>1. 0 \in U
      <3>1. Ancestor(n, c) % 2 = 1 /\ Ancestor(n, c) \in Nat /\ Ancestor(n - 1, c) = Ancestor(n, c) - 1
        BY <1>2, <1>3, <1>4, <1>7
      <3>2. Ancestor(n, c) \div 2 = Ancestor(n - 1, c) \div 2
        BY <3>1
      <3>3. c + 1 + 0 = c + 1
        BY <1>3
      <3> QED
        BY <1>2, <1>4, <3>2, <3>3
    <2>2. ASSUME NEW k \in 0..MAX_DEPTH-1, k \in U PROVE k + 1 \in U
      <3> SUFFICES ASSUME c + 1 + (k + 1) <= MAX_DEPTH
                   PROVE  Ancestor(n, c + 1 + (k + 1)) = Ancestor(n - 1, c + 1 + (k + 1))
        OBVIOUS
      <3>1. c + 1 + k \in Levels /\ c + 1 + (k + 1) = (c + 1 + k) + 1
        BY <1>3, DepthAssumption DEF Levels
      <3>2. Ancestor(n, c + 1 + k) = Ancestor(n - 1, c + 1 + k)
        BY <2>2, <1>3, DepthAssumption
      <3> QED
        BY <1>4, <3>1, <3>2
    <2>3. \A k \in 0..MAX_DEPTH : k \in U
      <3> HIDE DEF U
      <3> QED
        BY <2>1, <2>2, Upwards, DepthAssumption
    <2>4. ASSUME NEW k \in c+1..MAX_DEPTH PROVE Ancestor(n, k) = Ancestor(n - 1, k)
      <3>1. k - (c + 1) \in 0..MAX_DEPTH /\ c + 1 + (k - (c + 1)) = k
        BY <1>3, DepthAssumption
      <3> QED
        BY <2>3, <3>1, DepthAssumption
    <2> QED
      BY <2>4
  <1>11. ASSUME NEW k \in Levels, k > c
         PROVE  IsLeft(n)[k] = IsLeft(n - 1)[k] /\ Ancestor(n, k) = Ancestor(n - 1, k)
    <2>1. Ancestor(n, k) = Ancestor(n - 1, k)
      BY <1>3, <1>10, <1>11, DepthAssumption DEF Levels
    <2> QED
      BY <1>4, <2>1 DEF IsLeft
  <1> QED
    BY <1>1, <1>2, <1>8, <1>9, <1>11 DEF c

-----------------------------------------------------------------------------
(* The ring: moving one slot forwards or n slots backwards. *)

\* SlotAfter with one step wraps only at the last slot.
LEMMA SlotAfterOne ==
  ASSUME NEW a \in Slots
  PROVE  SlotAfter(a, 1) = IF a = MAX_BUFFER_SIZE - 1 THEN 0 ELSE a + 1
BY BufferAssumption DEF Slots, SlotAfter

\* SlotBefore wraps at slot 0.
LEMMA SlotBeforeWraps ==
  ASSUME NEW a \in Slots, NEW n \in Slots
  PROVE  SlotBefore(a, n) = IF n <= a THEN a - n ELSE a - n + MAX_BUFFER_SIZE
BY BufferAssumption DEF Slots, SlotBefore

\* A slot n places behind the active one is n+1 places behind the next active
\* one, and as long as n+1 is less than the buffer size it is not that one.
LEMMA SlotBeforeAdvance ==
  ASSUME NEW a \in Slots, NEW n \in Nat, n + 1 < MAX_BUFFER_SIZE
  PROVE  /\ SlotBefore(SlotAfter(a, 1), n + 1) = SlotBefore(a, n)
         /\ SlotBefore(a, n) # SlotAfter(a, 1)
         /\ SlotBefore(a, n) \in Slots
<1>1. n \in Slots /\ n + 1 \in Slots
  BY BufferAssumption DEF Slots
<1>2. SlotAfter(a, 1) \in Slots
  BY SlotAfterOne, BufferAssumption DEF Slots
<1>3. SlotBefore(SlotAfter(a, 1), n + 1) =
        IF n + 1 <= SlotAfter(a, 1) THEN SlotAfter(a, 1) - (n + 1)
        ELSE SlotAfter(a, 1) - (n + 1) + MAX_BUFFER_SIZE
  BY <1>1, <1>2, SlotBeforeWraps
<1>4. SlotBefore(a, n) = IF n <= a THEN a - n ELSE a - n + MAX_BUFFER_SIZE
  BY <1>1, SlotBeforeWraps
<1> QED
  BY <1>1, <1>3, <1>4, SlotAfterOne, BufferAssumption DEF Slots

\* The slot no places behind the active one is the active one.
LEMMA SlotBeforeZero ==
  ASSUME NEW a \in Slots
  PROVE  SlotBefore(a, 0) = a
<1>1. 0 \in Slots
  BY BufferAssumption DEF Slots
<1> QED
  BY <1>1, SlotBeforeWraps DEF Slots

-----------------------------------------------------------------------------
(* What the methods do to a roll. *)

\* r2 is r after one more change log: the counters moved, the log stands in the
\* new active slot and carries an index of the tree and a node at its leaf.
Advances(r, r2) ==
  /\ RollOK(r2)
  /\ r2.active_index = SlotAfter(r.active_index, 1)
  /\ r2.buffer_size = IF r.buffer_size < MAX_BUFFER_SIZE
                      THEN r.buffer_size + 1 ELSE r.buffer_size
  /\ r2.sequence_number = r.sequence_number + 1
  /\ \A j \in Slots \ {r2.active_index} : r2.change_logs[j] = r.change_logs[j]
  /\ get_leaf(get_change_log(r2)) \in Nodes

\* update_internal_counters keeps the roll well formed and its logs and
\* rightmost path as they were.
LEMMA CountersAdvance ==
  ASSUME NEW r, RollOK(r)
  PROVE  LET c == update_internal_counters(r)
         IN  /\ RollOK(c)
             /\ c.active_index = SlotAfter(r.active_index, 1)
             /\ c.buffer_size = IF r.buffer_size < MAX_BUFFER_SIZE
                                THEN r.buffer_size + 1 ELSE r.buffer_size
             /\ c.sequence_number = r.sequence_number + 1
             /\ c.sequence_number = r.sequence_number + 1
      /\ c.change_logs = r.change_logs
             /\ c.rightmost_proof = r.rightmost_proof
BY SlotAfterOne, BufferAssumption DEF RollOK, update_internal_counters, Slots

\* A change log built from a leaf and a proof is well formed and keeps its leaf.
LEMMA ChangeLogWellFormed ==
  ASSUME NEW index \in LeafIndices, NEW node, NEW proof, NEW left
  PROVE  /\ ChangeLogOK(ChangeLog(index, node, proof, left))
         /\ get_leaf(ChangeLog(index, node, proof, left)) = node
         /\ ChangeLog(index, node, proof, left).index = index
<1>1. 0 \in Levels
  BY DepthAssumption DEF Levels
<1> QED
  BY <1>1 DEF ChangeLogOK, ChangeLog, get_leaf

\* Writing a proved leaf at an index not past the rightmost one keeps the roll
\* well formed.
LEMMA WriteAdvances ==
  ASSUME NEW r, RollOK(r), NEW new_leaf \in Nodes, NEW proof,
         NEW index \in LeafIndices,
         \/ index <= r.rightmost_proof.index
         \/ r.rightmost_proof.index = 2^MAX_DEPTH
  PROVE  LET u == update_buffers_from_proof(update_internal_counters(r), new_leaf, proof, index)
             log == replace_and_recompute_path(index, new_leaf, proof)
         IN  /\ Advances(r, u)
             /\ get_change_log(u) = log
             /\ u.rightmost_proof = IF r.rightmost_proof.index < 2^MAX_DEPTH
                                    THEN RightmostAfter(r.rightmost_proof, log, proof)
                                    ELSE r.rightmost_proof
<1> DEFINE c == update_internal_counters(r)
           log == replace_and_recompute_path(index, new_leaf, proof)
           w == [c EXCEPT !.change_logs[c.active_index] = log]
           u == update_buffers_from_proof(c, new_leaf, proof, index)
<1>1. /\ RollOK(c)
      /\ c.active_index = SlotAfter(r.active_index, 1)
      /\ c.buffer_size = IF r.buffer_size < MAX_BUFFER_SIZE
                         THEN r.buffer_size + 1 ELSE r.buffer_size
      /\ c.sequence_number = r.sequence_number + 1
      /\ c.change_logs = r.change_logs
      /\ c.rightmost_proof = r.rightmost_proof
  BY CountersAdvance
<1>2. ChangeLogOK(log) /\ get_leaf(log) = new_leaf /\ log.index = index
  BY ChangeLogWellFormed DEF replace_and_recompute_path
<1> HIDE DEF c, log
<1>3. /\ RollOK(w)
      /\ w.active_index = c.active_index
      /\ w.buffer_size = c.buffer_size /\ w.sequence_number = c.sequence_number
      /\ w.change_logs = [c.change_logs EXCEPT ![c.active_index] = log]
      /\ w.rightmost_proof = c.rightmost_proof
  BY <1>1, <1>2 DEF RollOK
<1>4. /\ DOMAIN RightmostAfter(w.rightmost_proof, log, proof) = {"proof", "leaf", "index"}
      /\ DOMAIN RightmostAfter(w.rightmost_proof, log, proof).proof = Levels
      /\ w.rightmost_proof.index < 2^MAX_DEPTH =>
           RightmostAfter(w.rightmost_proof, log, proof).index \in 0 .. 2^MAX_DEPTH
  BY <1>1, <1>2, <1>3, Capacity
     DEF RollOK, RightmostAfter, update_proof_or_leaf, LeafIndices
<1>5. u = IF w.rightmost_proof.index < 2^MAX_DEPTH
          THEN [w EXCEPT !.rightmost_proof = RightmostAfter(w.rightmost_proof, log, proof)]
          ELSE w
  BY <1>3 DEF update_buffers_from_proof, log
<1> HIDE DEF w, u
<1>6. /\ RollOK(u)
      /\ u.active_index = w.active_index
      /\ u.buffer_size = w.buffer_size /\ u.sequence_number = w.sequence_number
      /\ u.change_logs = w.change_logs
      /\ u.rightmost_proof = IF w.rightmost_proof.index < 2^MAX_DEPTH
                             THEN RightmostAfter(w.rightmost_proof, log, proof)
                             ELSE w.rightmost_proof
  BY <1>3, <1>4, <1>5 DEF RollOK
<1>7. /\ \A j \in Slots \ {u.active_index} : u.change_logs[j] = r.change_logs[j]
      /\ get_change_log(u) = log
  BY <1>1, <1>3, <1>6 DEF RollOK, get_change_log
<1> QED
  BY <1>1, <1>2, <1>3, <1>6, <1>7 DEF Advances, c, u, log

\* The proof, and the sides, that append takes the new leaf to have.
MovedProof(rm) ==
  LET intersection == trailing_zeros(rm.index)
      intersection_node == Climb(rm.leaf, rm.proof, IsLeft(rm.index - 1))[intersection]
  IN  [k \in Levels |-> CASE k < intersection -> empty_node[k]
                          [] k = intersection -> intersection_node
                          [] OTHER -> rm.proof[k]]

MovedLeft(rm) ==
  LET intersection == trailing_zeros(rm.index)
  IN  [k \in Levels |-> \/ k < intersection
                        \/ k > intersection /\ IsLeft(rm.index - 1)[k]]

\* An append without a proof advances the roll as well.
LEMMA AppendedAtAdvances ==
  ASSUME NEW r, RollOK(r), NEW node \in Nodes,
         r.rightmost_proof.index > 0, r.rightmost_proof.index < 2^MAX_DEPTH
  PROVE  LET rm == r.rightmost_proof
             u == AppendedAt(r, node)
         IN  /\ Advances(r, u)
             /\ get_change_log(u) = ChangeLog(rm.index, node, MovedProof(rm), MovedLeft(rm))
             /\ u.rightmost_proof = [proof |-> MovedProof(rm), leaf |-> node, index |-> rm.index + 1]
<1> DEFINE c == update_internal_counters(r)
           rm == r.rightmost_proof
           proof == MovedProof(rm)
           left == MovedLeft(rm)
           log == ChangeLog(rm.index, node, proof, left)
           path == [proof |-> proof, leaf |-> node, index |-> rm.index + 1]
           u == AppendedAt(r, node)
<1>1. /\ RollOK(c)
      /\ c.active_index = SlotAfter(r.active_index, 1)
      /\ c.buffer_size = IF r.buffer_size < MAX_BUFFER_SIZE
                         THEN r.buffer_size + 1 ELSE r.buffer_size
      /\ c.sequence_number = r.sequence_number + 1
      /\ c.change_logs = r.change_logs
  BY CountersAdvance
<1>2. rm.index \in LeafIndices
  BY Capacity DEF RollOK, LeafIndices
<1>3. DOMAIN proof = Levels
  BY DEF MovedProof
<1>4. u = [c EXCEPT !.change_logs = [c.change_logs EXCEPT ![c.active_index] = log],
                    !.rightmost_proof = path]
  BY DEF AppendedAt, MovedProof, MovedLeft
<1> HIDE DEF c, proof, left, u
<1>5. ChangeLogOK(log) /\ get_leaf(log) = node
  BY <1>2, ChangeLogWellFormed
<1> HIDE DEF log
<1>6. /\ DOMAIN path = {"proof", "leaf", "index"}
      /\ DOMAIN path.proof = Levels
      /\ path.index \in 0 .. 2^MAX_DEPTH
  BY <1>2, <1>3, Capacity DEF LeafIndices
<1> HIDE DEF path
<1>7. /\ RollOK(u)
      /\ u.active_index = c.active_index
      /\ u.buffer_size = c.buffer_size /\ u.sequence_number = c.sequence_number
      /\ u.change_logs = [c.change_logs EXCEPT ![c.active_index] = log]
      /\ u.rightmost_proof = path
  BY <1>1, <1>4, <1>5, <1>6 DEF RollOK
<1>8. /\ \A j \in Slots \ {u.active_index} : u.change_logs[j] = r.change_logs[j]
      /\ get_change_log(u) = log
  BY <1>1, <1>7 DEF RollOK, get_change_log
<1> QED
  BY <1>1, <1>5, <1>7, <1>8 DEF Advances, u, log, path, proof, left

\* What a call does: it advances the roll when it returns Ok, and leaves it alone
\* otherwise.
Effect(r, outcome) ==
  /\ outcome.res = "Ok" => Advances(r, outcome.roll)
  /\ outcome.res # "Ok" => outcome.roll = r

\* try_apply_proof, on which all writes with a proof rest.
LEMMA TryApplyProofEffect ==
  ASSUME NEW r, RollOK(r), NEW current_root, NEW leaf, NEW new_leaf \in Nodes,
         NEW proof, NEW index \in LeafIndices, NEW allow
  PROVE  Effect(r, try_apply_proof(r, current_root, leaf, new_leaf, proof, index, allow))
<1> DEFINE verdict == check_valid_leaf(r, current_root, leaf, proof, index, allow)
           ff == fast_forward_proof(ReplayedLogs(r, current_root), leaf, proof, index)
           past_the_end == /\ r.rightmost_proof.index < 2^MAX_DEPTH
                           /\ index > r.rightmost_proof.index
           u == update_buffers_from_proof(update_internal_counters(r), new_leaf,
                                          ff.proof, index)
           call == try_apply_proof(r, current_root, leaf, new_leaf, proof, index, allow)
<1>1. call = IF verdict # "Ok" THEN Outcome(verdict, r)
             ELSE IF past_the_end THEN Outcome("Panic", r) ELSE Outcome("Ok", u)
  BY DEF try_apply_proof
<1> HIDE DEF verdict, ff, call
<1>2. ~past_the_end => Advances(r, u)
  <2> SUFFICES ASSUME ~past_the_end PROVE Advances(r, u)
    OBVIOUS
  <2>1. \/ index <= r.rightmost_proof.index
        \/ r.rightmost_proof.index = 2^MAX_DEPTH
    BY Capacity DEF RollOK, LeafIndices
  <2> QED
    BY <2>1, WriteAdvances
<1> HIDE DEF u, past_the_end
<1> QED
  BY <1>1, <1>2 DEF Effect, Outcome, call

\* append: any node, any roll that was initialized.
LEMMA AppendEffect ==
  ASSUME NEW r, RollOK(r), NEW node \in Nodes
  PROVE  Effect(r, append(r, node))
<1>1. 0 \in LeafIndices
  BY Capacity DEF LeafIndices
<1>2. Effect(r, initialize_tree_from_append(r, node, r.rightmost_proof.proof))
  <2>1. Effect(r, try_apply_proof(r, recompute(EMPTY, r.rightmost_proof.proof, 0), EMPTY,
                                  node, r.rightmost_proof.proof, 0, FALSE))
    BY <1>1, TryApplyProofEffect
  <2> QED
    BY <2>1 DEF initialize_tree_from_append, Effect, Outcome
<1>3. r.rightmost_proof.index > 0 /\ r.rightmost_proof.index < 2^MAX_DEPTH
        => Advances(r, AppendedAt(r, node))
  BY AppendedAtAdvances
<1>4. r.rightmost_proof.index \in Nat
  BY Capacity DEF RollOK
<1> QED
  BY <1>2, <1>3, <1>4, Capacity DEF append, Effect, Outcome

\* set_leaf.
LEMMA SetLeafEffect ==
  ASSUME NEW r, RollOK(r), NEW current_root, NEW previous_leaf,
         NEW new_leaf \in Nodes, NEW proof_vec, NEW index \in LeafIndices
  PROVE  Effect(r, set_leaf(r, current_root, previous_leaf, new_leaf, proof_vec, index))
<1>1. Effect(r, try_apply_proof(r, current_root, previous_leaf, new_leaf,
                                fill_in_proof(proof_vec), index, TRUE))
  BY TryApplyProofEffect
<1> QED
  BY <1>1 DEF set_leaf, Effect, Outcome

\* fill_empty_or_append, by either of the two ways it may take.
LEMMA FillEffect ==
  ASSUME NEW r, RollOK(r), NEW current_root, NEW leaf \in Nodes, NEW proof_vec,
         NEW index \in LeafIndices
  PROVE  Effect(r, fill_empty_or_append(r, current_root, leaf, proof_vec, index))
<1>1. Effect(r, try_apply_proof(r, current_root, EMPTY, leaf,
                                fill_in_proof(proof_vec), index, FALSE))
  BY TryApplyProofEffect
<1>2. Effect(r, append(r, leaf))
  BY AppendEffect
<1> QED
  BY <1>1, <1>2 DEF fill_empty_or_append

-----------------------------------------------------------------------------
(* What the methods write, hash for hash. *)

\* rightmost_proof is the last leaf of the tree, with its proof.
RightmostMatches(rm, leaves) ==
  /\ \A i \in LeafIndices : i >= rm.index => leaves[i] = EMPTY
  /\ rm.index < 2^MAX_DEPTH =>
       LET last == IF rm.index = 0 THEN 0 ELSE rm.index - 1
       IN  rm.leaf = leaves[last] /\ rm.proof = WholeProof(leaves, last)

\* The roll r has the root and the rightmost path of the tree over leaves.
Matches(r, leaves) ==
  /\ RollOK(r)
  /\ leaves \in [LeafIndices -> Nodes]
  /\ get_change_log(r).root = build_root(leaves)
  /\ RightmostMatches(r.rightmost_proof, leaves)

\* r2 is r after the write of one leaf, at an index not past the rightmost one,
\* with the proof that this leaf has in the tree.
Writes(r, r2, leaves) ==
  \E j \in LeafIndices, v \in Nodes :
    /\ j <= r.rightmost_proof.index
    /\ get_change_log(r2) = ChangeLog(j, v, WholeProof(leaves, j), IsLeft(j))
    /\ r2.rightmost_proof = IF r.rightmost_proof.index < 2^MAX_DEPTH
                            THEN RightmostAfter(r.rightmost_proof, get_change_log(r2), WholeProof(leaves, j))
                            ELSE r.rightmost_proof

\* A change log depends on no more of a proof than its nodes.
LEMMA SameLog ==
  ASSUME NEW j, NEW v, NEW proof1, NEW proof2, NEW left, \A k \in Levels : proof1[k] = proof2[k]
  PROVE  ChangeLog(j, v, proof1, left) = ChangeLog(j, v, proof2, left)
<1> DEFINE c1 == Climb(v, proof1, left)
           c2 == Climb(v, proof2, left)
           S == {k \in 0..MAX_DEPTH : c1[k] = c2[k]}
<1>1. /\ c1[0] = v /\ \A k \in Levels : c1[k + 1] = hash_to_parent(c1[k], proof1[k], left[k])
      /\ c2[0] = v /\ \A k \in Levels : c2[k + 1] = hash_to_parent(c2[k], proof2[k], left[k])
  BY ClimbStep
<1>2. ChangeLog(j, v, proof1, left) = [root |-> c1[MAX_DEPTH],
                                       path |-> [k \in Levels |-> IF k = 0 THEN v ELSE c1[k]], index |-> j]
  BY DEF ChangeLog
<1>3. ChangeLog(j, v, proof2, left) = [root |-> c2[MAX_DEPTH],
                                       path |-> [k \in Levels |-> IF k = 0 THEN v ELSE c2[k]], index |-> j]
  BY DEF ChangeLog
<1> HIDE DEF c1, c2
<1>4. 0 \in S /\ MAX_DEPTH \in Nat
  BY <1>1, DepthAssumption
<1>5. ASSUME NEW k \in 0..MAX_DEPTH-1, k \in S PROVE k + 1 \in S
  BY <1>1, <1>5, DepthAssumption DEF Levels
<1>6. \A k \in 0..MAX_DEPTH : k \in S
  <2> HIDE DEF S
  <2> QED
    BY <1>4, <1>5, Upwards
<1>7. c1[MAX_DEPTH] = c2[MAX_DEPTH] /\ \A k \in Levels : c1[k] = c2[k]
  BY <1>6, DepthAssumption DEF Levels
<1> QED
  BY <1>2, <1>3, <1>7

\* An accepted proof, however old the one that was given, is the leaf's proof in
\* the current tree, and the leaf is the current one.
LEMMA AcceptedIsCurrent ==
  ASSUME NEW r, NEW leaves, Matches(r, leaves), NEW current_root, NEW leaf, NEW proof,
         NEW index \in LeafIndices, NEW allow,
         check_valid_leaf(r, current_root, leaf, proof, index, allow) = "Ok"
  PROVE  LET ff == fast_forward_proof(ReplayedLogs(r, current_root), leaf, proof, index)
         IN  leaf = leaves[index] /\ \A k \in Levels : ff.proof[k] = WholeProof(leaves, index)[k]
<1> DEFINE ff == fast_forward_proof(ReplayedLogs(r, current_root), leaf, proof, index)
<1>1. ff.leaf = leaf /\ recompute(ff.leaf, ff.proof, index) = get_change_log(r).root
  BY DEF check_valid_leaf
<1> HIDE DEF ff
<1>2. recompute(leaf, ff.proof, index) = recompute(leaves[index], WholeProof(leaves, index), index)
  BY <1>1, ProofRecomputes DEF Matches
<1>3. leaf = leaves[index] /\ \A k \in Levels : ff.proof[k] = WholeProof(leaves, index)[k]
  BY <1>2, RootDeterminesProof
<1> QED
  BY <1>3 DEF ff

\* try_apply_proof.
LEMMA TryApplyProofWrites ==
  ASSUME NEW r, NEW leaves, Matches(r, leaves), NEW current_root, NEW leaf, NEW new_leaf \in Nodes,
         NEW proof, NEW index \in LeafIndices, NEW allow,
         try_apply_proof(r, current_root, leaf, new_leaf, proof, index, allow).res = "Ok"
  PROVE  Writes(r, try_apply_proof(r, current_root, leaf, new_leaf, proof, index, allow).roll, leaves)
<1> DEFINE verdict == check_valid_leaf(r, current_root, leaf, proof, index, allow)
           ff == fast_forward_proof(ReplayedLogs(r, current_root), leaf, proof, index)
           past_the_end == /\ r.rightmost_proof.index < 2^MAX_DEPTH
                           /\ index > r.rightmost_proof.index
           u == update_buffers_from_proof(update_internal_counters(r), new_leaf, ff.proof, index)
           log == replace_and_recompute_path(index, new_leaf, ff.proof)
           whole == WholeProof(leaves, index)
           call == try_apply_proof(r, current_root, leaf, new_leaf, proof, index, allow)
<1>1. call = IF verdict # "Ok" THEN Outcome(verdict, r)
             ELSE IF past_the_end THEN Outcome("Panic", r) ELSE Outcome("Ok", u)
  BY DEF try_apply_proof
<1> HIDE DEF verdict, call, ff
<1>2. verdict = "Ok" /\ ~past_the_end /\ call.roll = u
  <2> HIDE DEF u, past_the_end
  <2> QED
    BY <1>1 DEF Outcome, call
<1>3. \A k \in Levels : ff.proof[k] = whole[k]
  BY <1>2, AcceptedIsCurrent DEF verdict, ff
<1>4. RollOK(r) /\ r.rightmost_proof.index \in 0 .. 2^MAX_DEPTH
  BY DEF Matches, RollOK
<1>5. index <= r.rightmost_proof.index
  BY <1>2, <1>4, Capacity DEF LeafIndices
<1>6. /\ get_change_log(u) = log
      /\ u.rightmost_proof = IF r.rightmost_proof.index < 2^MAX_DEPTH
                             THEN RightmostAfter(r.rightmost_proof, log, ff.proof)
                             ELSE r.rightmost_proof
  BY <1>4, <1>5, WriteAdvances
<1>7. log = ChangeLog(index, new_leaf, whole, IsLeft(index))
  BY <1>3, SameLog DEF replace_and_recompute_path
<1>8. RightmostAfter(r.rightmost_proof, log, ff.proof) = RightmostAfter(r.rightmost_proof, log, whole)
  <2>1. [k \in Levels |-> ff.proof[k]] = [k \in Levels |-> whole[k]]
    BY <1>3
  <2> HIDE DEF log, whole
  <2> QED
    BY <2>1 DEF RightmostAfter
<1> HIDE DEF u, log, whole
<1>9. /\ get_change_log(u) = ChangeLog(index, new_leaf, whole, IsLeft(index))
      /\ u.rightmost_proof = IF r.rightmost_proof.index < 2^MAX_DEPTH
                             THEN RightmostAfter(r.rightmost_proof, get_change_log(u), whole)
                             ELSE r.rightmost_proof
  BY <1>6, <1>7, <1>8
<1> QED
  BY <1>2, <1>5, <1>9 DEF Writes, whole, call

\* append moves the rightmost path to the proof of the leaf after the last.
LEMMA MovedPath ==
  ASSUME NEW rm, NEW leaves, leaves \in [LeafIndices -> Nodes], RightmostMatches(rm, leaves),
         rm.index \in 1 .. 2^MAX_DEPTH - 1
  PROVE  MovedProof(rm) = WholeProof(leaves, rm.index) /\ MovedLeft(rm) = IsLeft(rm.index)
<1> DEFINE n == rm.index
           c == trailing_zeros(n)
           T == MerkleTree(leaves)
           a == [k \in 0..MAX_DEPTH |-> Ancestor(n, k)]
           meeting == Climb(rm.leaf, rm.proof, IsLeft(n - 1))[c]
<1>1. n \in LeafIndices /\ n # 0 /\ n < 2^MAX_DEPTH /\ n \in Nat /\ MAX_DEPTH \in Nat
  BY Capacity, DepthAssumption DEF LeafIndices
<1>2. rm.leaf = leaves[n - 1] /\ rm.proof = WholeProof(leaves, n - 1)
  BY <1>1 DEF RightmostMatches
<1>3. /\ n - 1 \in LeafIndices /\ c \in Levels
      /\ \A k \in Levels : k < c => IsLeft(n)[k] /\ Sibling(Ancestor(n, k)) = Ancestor(n, k) + 1
      /\ ~IsLeft(n)[c] /\ Sibling(Ancestor(n, c)) = Ancestor(n - 1, c)
      /\ \A k \in Levels : k > c => IsLeft(n)[k] = IsLeft(n - 1)[k] /\ Ancestor(n, k) = Ancestor(n - 1, k)
  BY <1>1, NextPath
<1>4. /\ MovedProof(rm) = [k \in Levels |-> IF k < c THEN empty_node[k]
                                            ELSE IF k = c THEN meeting ELSE rm.proof[k]]
      /\ MovedLeft(rm) = [k \in Levels |-> k < c \/ (k > c /\ IsLeft(n - 1)[k])]
  <2>1. MovedProof(rm) = [k \in Levels |-> CASE k < c -> empty_node[k]
                                             [] k = c -> meeting
                                             [] OTHER -> rm.proof[k]]
    BY DEF MovedProof
  <2>2. MovedLeft(rm) = [k \in Levels |-> k < c \/ (k > c /\ IsLeft(n - 1)[k])]
    BY DEF MovedLeft
  <2> HIDE DEF n, c, meeting
  <2>3. ASSUME NEW k \in Levels
        PROVE  (CASE k < c -> empty_node[k] [] k = c -> meeting [] OTHER -> rm.proof[k])
                 = IF k < c THEN empty_node[k] ELSE IF k = c THEN meeting ELSE rm.proof[k]
    <3>1. k \in Int /\ c \in Int /\ ~(k < c /\ k = c)
      BY <1>3, DepthAssumption DEF Levels
    <3> QED
      BY <3>1
  <2> QED
    BY <2>1, <2>2, <2>3
<1>5. meeting = T[c][Ancestor(n - 1, c)]
  <2>1. c \in 0..MAX_DEPTH
    BY <1>3, DepthAssumption DEF Levels
  <2> QED
    BY <1>2, <1>3, <2>1, PathInTree
<1>6. ASSUME NEW k \in Levels, k < c PROVE T[k][Sibling(Ancestor(n, k))] = empty_node[k]
  <2>1. \A j \in 0..MAX_DEPTH : a[j] \in Int
    BY <1>1, AncestorInTree DEF Positions
  <2>2. ASSUME NEW j \in Levels PROVE a[j + 1] = a[j] \div 2
    <3>1. j \in 0..MAX_DEPTH /\ j + 1 \in 0..MAX_DEPTH
      BY DepthAssumption DEF Levels
    <3>2. Ancestor(n, j + 1) = Ancestor(n, j) \div 2
      BY <1>1, AncestorStep
    <3> QED
      BY <3>1, <3>2
  <2>3. a[0] = n
    BY <1>1, AncestorStep, DepthAssumption DEF Levels
  <2>4. k \in 0..MAX_DEPTH /\ Sibling(Ancestor(n, k)) \in Positions(k)
    BY <1>1, PathStep, DepthAssumption DEF Levels
  <2>5. Sibling(Ancestor(n, k)) > a[k]
    BY <1>3, <1>6, <2>1, <2>4
  <2>6. \A i \in LeafIndices : i > a[0] => leaves[i] = EMPTY
    BY <1>1, <2>3 DEF RightmostMatches, LeafIndices
  <2> HIDE DEF a
  <2> QED
    BY <2>1, <2>2, <2>4, <2>5, <2>6, EmptySubtree
<1> HIDE DEF n, c, meeting, T
<1>7. MovedProof(rm) = WholeProof(leaves, n)
  <2>1. /\ WholeProof(leaves, n) = [k \in Levels |-> T[k][Sibling(Ancestor(n, k))]]
        /\ WholeProof(leaves, n - 1) = [k \in Levels |-> T[k][Sibling(Ancestor(n - 1, k))]]
    BY DEF WholeProof, T
  <2>2. ASSUME NEW k \in Levels PROVE MovedProof(rm)[k] = WholeProof(leaves, n)[k]
    <3>1. CASE k < c
      BY <1>4, <1>6, <2>1, <3>1
    <3>2. CASE k = c
      BY <1>3, <1>4, <1>5, <2>1, <3>2, DepthAssumption DEF Levels
    <3>3. CASE k > c
      BY <1>2, <1>3, <1>4, <2>1, <3>3, DepthAssumption DEF Levels
    <3> QED
      BY <1>3, <3>1, <3>2, <3>3, DepthAssumption DEF Levels
  <2> QED
    BY <1>4, <2>1, <2>2
<1>8. MovedLeft(rm) = IsLeft(n)
  <2>1. ASSUME NEW k \in Levels PROVE MovedLeft(rm)[k] = IsLeft(n)[k]
    <3>0. IsLeft(n)[k] \in BOOLEAN /\ MovedLeft(rm)[k] = (k < c \/ (k > c /\ IsLeft(n - 1)[k]))
      BY <1>4 DEF IsLeft
    <3>1. CASE k < c
      BY <1>3, <3>0, <3>1
    <3>2. CASE k = c
      BY <1>3, <3>0, <3>2, DepthAssumption DEF Levels
    <3>3. CASE k > c
      BY <1>3, <3>0, <3>3, DepthAssumption DEF Levels
    <3> QED
      BY <1>3, <3>1, <3>2, <3>3, DepthAssumption DEF Levels
  <2> QED
    BY <1>4, <2>1 DEF IsLeft
<1> QED
  BY <1>7, <1>8 DEF n

\* append.
LEMMA AppendWrites ==
  ASSUME NEW r, NEW leaves, Matches(r, leaves), NEW node \in Nodes, append(r, node).res = "Ok"
  PROVE  Writes(r, append(r, node).roll, leaves)
<1> DEFINE rm == r.rightmost_proof
           n == rm.index
<1>1. n \in 0 .. 2^MAX_DEPTH /\ RollOK(r)
  BY DEF Matches, RollOK
<1>2. CASE n = 0
  <2>1. append(r, node) = initialize_tree_from_append(r, node, rm.proof)
    BY <1>2, Capacity DEF append, Outcome
  <2> DEFINE tried == try_apply_proof(r, recompute(EMPTY, rm.proof, 0), EMPTY, node, rm.proof, 0, FALSE)
  <2>2. append(r, node) = tried
    <3>1. append(r, node) = IF recompute(EMPTY, rm.proof, 0) = empty_node[MAX_DEPTH]
                            THEN tried ELSE Outcome("TreeAlreadyInitialized", r)
      BY <2>1 DEF initialize_tree_from_append
    <3> HIDE DEF tried
    <3> QED
      BY <3>1 DEF Outcome
  <2>3. 0 \in LeafIndices
    BY Capacity DEF LeafIndices
  <2> QED
    BY <2>2, <2>3, TryApplyProofWrites
<1>3. CASE n # 0
  <2> DEFINE u == AppendedAt(r, node)
             whole == WholeProof(leaves, n)
             log == ChangeLog(n, node, whole, IsLeft(n))
  <2>1. n \in 1 .. 2^MAX_DEPTH - 1 /\ append(r, node).roll = u
    BY <1>1, <1>3, Capacity DEF append, Outcome
  <2>2. MovedProof(rm) = whole /\ MovedLeft(rm) = IsLeft(n)
    BY <2>1, MovedPath DEF Matches
  <2>3. n > 0 /\ n < 2^MAX_DEPTH /\ n \in LeafIndices /\ n <= n /\ ~(n < n)
    BY <2>1, Capacity DEF LeafIndices
  <2>4. /\ get_change_log(u) = log
        /\ u.rightmost_proof = [proof |-> whole, leaf |-> node, index |-> n + 1]
    BY <1>1, <2>2, <2>3, AppendedAtAdvances
  <2>5. get_leaf(log) = node /\ log.index = n
    BY <2>3, ChangeLogWellFormed
  <2>6. whole = [k \in Levels |-> whole[k]]
    BY DEF WholeProof
  <2> HIDE DEF whole, log, u
  <2>7. RightmostAfter(rm, log, whole) = [proof |-> whole, leaf |-> node, index |-> n + 1]
    BY <2>3, <2>5, <2>6 DEF RightmostAfter
  <2>8. u.rightmost_proof = IF n < 2^MAX_DEPTH THEN RightmostAfter(rm, get_change_log(u), whole) ELSE rm
    BY <2>3, <2>4, <2>7
  <2> QED
    BY <2>1, <2>3, <2>4, <2>8 DEF Writes, log, whole
<1> QED
  BY <1>2, <1>3

\* set_leaf.
LEMMA SetLeafWrites ==
  ASSUME NEW r, NEW leaves, Matches(r, leaves), NEW current_root, NEW previous_leaf,
         NEW new_leaf \in Nodes, NEW proof_vec, NEW index \in LeafIndices,
         set_leaf(r, current_root, previous_leaf, new_leaf, proof_vec, index).res = "Ok"
  PROVE  Writes(r, set_leaf(r, current_root, previous_leaf, new_leaf, proof_vec, index).roll, leaves)
<1>1. set_leaf(r, current_root, previous_leaf, new_leaf, proof_vec, index)
        = try_apply_proof(r, current_root, previous_leaf, new_leaf, fill_in_proof(proof_vec), index, TRUE)
  BY DEF set_leaf, Outcome
<1> QED
  BY <1>1, TryApplyProofWrites

\* fill_empty_or_append, by either of the two ways it may take.
LEMMA FillWrites ==
  ASSUME NEW r, NEW leaves, Matches(r, leaves), NEW current_root, NEW leaf \in Nodes, NEW proof_vec,
         NEW index \in LeafIndices,
         fill_empty_or_append(r, current_root, leaf, proof_vec, index).res = "Ok"
  PROVE  Writes(r, fill_empty_or_append(r, current_root, leaf, proof_vec, index).roll, leaves)
<1> DEFINE tried == try_apply_proof(r, current_root, EMPTY, leaf, fill_in_proof(proof_vec), index, FALSE)
           call == fill_empty_or_append(r, current_root, leaf, proof_vec, index)
<1>1. call = IF tried.res = "LeafContentsModified" THEN append(r, leaf) ELSE tried
  BY DEF fill_empty_or_append
<1>2. CASE tried.res = "LeafContentsModified"
  <2>1. call = append(r, leaf)
    BY <1>1, <1>2
  <2> QED
    BY <2>1, AppendWrites
<1>3. CASE tried.res # "LeafContentsModified"
  <2>1. call = tried
    BY <1>1, <1>3
  <2> QED
    BY <2>1, TryApplyProofWrites
<1> QED
  BY <1>2, <1>3

\* After a write the roll matches the tree with the leaf that its change log
\* tells of, and the change log holds that tree's nodes on the way up.
LEMMA WritesMatch ==
  ASSUME NEW r, NEW r2, NEW leaves, Matches(r, leaves), RollOK(r2), Writes(r, r2, leaves)
  PROVE  LET log == get_change_log(r2)
             after == add_leaf(leaves, get_leaf(log), log.index)
         IN  /\ Matches(r2, after)
             /\ \A k \in Levels : log.path[k] = MerkleTree(after)[k][Ancestor(log.index, k)]
             /\ log.index \in LeafIndices /\ get_leaf(log) \in Nodes
             /\ IF log.index < r.rightmost_proof.index
                THEN r2.rightmost_proof.index = r.rightmost_proof.index
                ELSE /\ log.index = r.rightmost_proof.index
                     /\ r2.rightmost_proof.index = r.rightmost_proof.index + 1
<1>1. PICK j \in LeafIndices, v \in Nodes :
        /\ j <= r.rightmost_proof.index
        /\ get_change_log(r2) = ChangeLog(j, v, WholeProof(leaves, j), IsLeft(j))
        /\ r2.rightmost_proof = IF r.rightmost_proof.index < 2^MAX_DEPTH
                                THEN RightmostAfter(r.rightmost_proof, get_change_log(r2), WholeProof(leaves, j))
                                ELSE r.rightmost_proof
  BY DEF Writes
<1> DEFINE log == get_change_log(r2)
           whole == WholeProof(leaves, j)
           c == Climb(v, whole, IsLeft(j))
           after == add_leaf(leaves, v, j)
           W == MerkleTree(after)
           rm == r.rightmost_proof
           n == rm.index
<1>2. /\ log.index = j /\ get_leaf(log) = v
      /\ log.root = c[MAX_DEPTH]
      /\ \A k \in Levels : log.path[k] = IF k = 0 THEN v ELSE c[k]
  <2>1. get_leaf(log) = v /\ log.index = j
    BY <1>1, ChangeLogWellFormed
  <2> QED
    BY <1>1, <2>1 DEF ChangeLog
<1>3. leaves \in [LeafIndices -> Nodes] /\ DOMAIN leaves = LeafIndices /\ after \in [LeafIndices -> Nodes]
  BY DEF Matches, add_leaf
<1>4. \A k \in 0..MAX_DEPTH : c[k] = W[k][Ancestor(j, k)]
  BY <1>3, AncestorInTree, WriteInTree
<1>5. \A k \in Levels : log.path[k] = W[k][Ancestor(j, k)]
  <2>1. c[0] = v
    BY ClimbStep
  <2> HIDE DEF log, c, W
  <2> QED
    BY <1>2, <1>4, <2>1, DepthAssumption DEF Levels
<1>6. log.root = build_root(after)
  <2>1. MAX_DEPTH \in 0..MAX_DEPTH
    BY DepthAssumption
  <2>2. Ancestor(j, MAX_DEPTH) = 0
    BY <2>1, AncestorInTree
  <2>3. log.root = W[MAX_DEPTH][0]
    BY <1>2, <1>4, <2>1, <2>2
  <2> QED
    BY <2>3 DEF build_root
<1>7. n \in 0 .. 2^MAX_DEPTH /\ j \in Nat /\ j < 2^MAX_DEPTH /\ j <= n
  BY <1>1, Capacity DEF Matches, RollOK, LeafIndices
<1>8. /\ after[j] = v
      /\ \A i \in LeafIndices : i # j => after[i] = leaves[i]
      /\ \A i \in LeafIndices : i >= n => leaves[i] = EMPTY
  BY <1>3 DEF add_leaf, Matches, RightmostMatches
<1> HIDE DEF log, c, after, W
<1>9. /\ RightmostMatches(r2.rightmost_proof, after)
      /\ IF j < n THEN r2.rightmost_proof.index = n ELSE j = n /\ r2.rightmost_proof.index = n + 1
  <2>1. CASE n = 2^MAX_DEPTH
    <3>1. r2.rightmost_proof = rm /\ ~(n < 2^MAX_DEPTH) /\ j < n
      BY <1>1, <1>7, <2>1
    <3>2. \A i \in LeafIndices : ~(i >= n)
      BY <2>1, Capacity DEF LeafIndices
    <3> QED
      BY <3>1, <3>2 DEF RightmostMatches
  <2>2. CASE n < 2^MAX_DEPTH /\ j < n
    <3> DEFINE last == n - 1
               lp == [leaf |-> rm.leaf, proof |-> rm.proof]
               moved == update_proof_or_leaf(log, last, lp)
    <3>1. n # 0 /\ last \in LeafIndices
      BY <1>7, <2>2, Capacity DEF LeafIndices
    <3>2. rm.leaf = leaves[last] /\ rm.proof = WholeProof(leaves, last)
      BY <2>2, <3>1 DEF Matches, RightmostMatches
    <3>3. moved = [leaf |-> IF last = j THEN v ELSE leaves[last], proof |-> WholeProof(after, last)]
      BY <1>2, <1>3, <1>5, <3>1, <3>2, UpdatedProof DEF W, after
    <3>4. r2.rightmost_proof = [rm EXCEPT !.leaf = moved.leaf, !.proof = moved.proof]
      BY <1>1, <1>2, <2>2 DEF RightmostAfter, log
    <3> HIDE DEF moved
    <3>5. DOMAIN rm = {"proof", "leaf", "index"}
      BY DEF Matches, RollOK
    <3>6. /\ r2.rightmost_proof.index = n /\ r2.rightmost_proof.leaf = after[last]
          /\ r2.rightmost_proof.proof = WholeProof(after, last)
      BY <1>8, <3>1, <3>3, <3>4, <3>5
    <3>7. \A i \in LeafIndices : i >= n => after[i] = EMPTY
      BY <1>7, <1>8, <2>2 DEF LeafIndices
    <3> QED
      BY <2>2, <3>1, <3>6, <3>7 DEF RightmostMatches
  <2>3. CASE n < 2^MAX_DEPTH /\ j = n
    <3>1. ~(j < n)
      BY <1>7, <2>3
    <3>2. whole = [k \in Levels |-> whole[k]] /\ WholeProof(after, j) = whole
      BY <1>3, ProofAfterWrite DEF WholeProof, after
    <3> HIDE DEF whole
    <3>3. r2.rightmost_proof = [proof |-> whole, leaf |-> v, index |-> j + 1]
      BY <1>1, <1>2, <2>3, <3>1, <3>2 DEF RightmostAfter, log, whole
    <3>4. /\ r2.rightmost_proof.index = j + 1 /\ r2.rightmost_proof.leaf = after[j]
          /\ r2.rightmost_proof.proof = WholeProof(after, j) /\ j + 1 # 0 /\ (j + 1) - 1 = j
      BY <1>7, <1>8, <3>2, <3>3
    <3>5. \A i \in LeafIndices : i >= j + 1 => after[i] = EMPTY
      BY <1>7, <1>8, <2>3 DEF LeafIndices
    <3> QED
      BY <2>3, <3>1, <3>4, <3>5 DEF RightmostMatches
  <2> QED
    BY <1>7, <2>1, <2>2, <2>3, Capacity
<1>10. Matches(r2, after)
  BY <1>3, <1>6, <1>9 DEF Matches, log
<1> QED
  BY <1>2, <1>5, <1>9, <1>10 DEF log, after, W

-----------------------------------------------------------------------------
(* The inductive invariant. *)

\* As many change logs are live as there are versions, up to the buffer size.
LiveCount ==
  roll.buffer_size = IF Len(versions) < MAX_BUFFER_SIZE THEN Len(versions)
                     ELSE MAX_BUFFER_SIZE

IInv == TypeOK /\ LiveCount /\ LogsReplayHistory

\* The roll of zeroes satisfies the invariant.
LEMMA InitIInv == Init => IInv
<1> SUFFICES ASSUME Init PROVE IInv
  OBVIOUS
<1>1. RollOK(roll)
  <2>1. 0 \in LeafIndices /\ 0 \in Slots /\ 0 \in 0 .. 2^MAX_DEPTH
    BY Capacity, BufferAssumption DEF LeafIndices, Slots
  <2>2. ChangeLogOK(DefaultChangeLog)
    BY <2>1 DEF ChangeLogOK, DefaultChangeLog
  <2> QED
    BY <2>1, <2>2, BufferAssumption DEF Init, new, RollOK, DefaultPath
<1>2. versions \in Seq([LeafIndices -> Nodes]) /\ Len(versions) = 0
  BY DEF Init
<1>3. roll.buffer_size = 0
  BY DEF Init, new
<1> QED
  BY <1>1, <1>2, <1>3, BufferAssumption
     DEF IInv, TypeOK, LiveCount, LogsReplayHistory, LiveVersions

\* A roll that starts with one version has nothing to replay.
LEMMA StartIInv ==
  ASSUME NEW leaves \in [LeafIndices -> Nodes], RollOK(roll'), roll'.buffer_size = 1,
         versions' = <<leaves>>
  PROVE  IInv'
<1>1. versions' \in Seq([LeafIndices -> Nodes]) /\ Len(versions') = 1
  OBVIOUS
<1> QED
  BY <1>1, BufferAssumption DEF IInv, TypeOK, LiveCount, LogsReplayHistory, LiveVersions

\* A step that writes a change log and appends a version: the logs of the other
\* live versions stay where they are looked for.
LEMMA LogsStay ==
  ASSUME IInv, Initialized, Advances(roll, roll'),
         NEW grown \in [LeafIndices -> Nodes], versions' = Append(versions, grown)
  PROVE  LET L == Len(versions)
         IN  /\ L \in Nat \ {0} /\ Len(versions') = L + 1
             /\ versions' \in Seq([LeafIndices -> Nodes])
             /\ versions'[L + 1] = grown /\ \A t \in 1..L : versions'[t] = versions[t]
             /\ LiveCount'
             /\ \A t \in LiveVersions' :
                  IF t = L + 1 THEN LogOfVersion(t)' = get_change_log(roll')
                  ELSE t \in 1..L /\ t \in LiveVersions /\ LogOfVersion(t)' = LogOfVersion(t)
<1> DEFINE L == Len(versions)
<1>1. L \in Nat \ {0} /\ roll.active_index \in Slots
  BY BufferAssumption DEF IInv, TypeOK, RollOK, LiveCount, Initialized
<1>2. /\ versions' \in Seq([LeafIndices -> Nodes])
      /\ Len(versions') = L + 1
      /\ versions'[L + 1] = grown
      /\ \A t \in 1..L : versions'[t] = versions[t]
  BY <1>1 DEF IInv, TypeOK
<1>3. roll'.buffer_size \in 0..MAX_BUFFER_SIZE /\ roll'.active_index \in Slots
  BY DEF Advances, RollOK
<1>4. LiveCount'
  BY <1>1, <1>2, BufferAssumption DEF IInv, LiveCount, Advances
<1>5. ASSUME NEW t, t = L + 1 PROVE LogOfVersion(t)' = get_change_log(roll')
  <2>1. Len(versions') - t = 0
    BY <1>1, <1>2, <1>5
  <2> QED
    BY <1>3, <2>1, SlotBeforeZero DEF LogOfVersion, get_change_log
<1>6. ASSUME NEW t \in LiveVersions', t # L + 1
      PROVE  t \in 1..L /\ t \in LiveVersions /\ LogOfVersion(t)' = LogOfVersion(t)
  <2> DEFINE n == L - t
  <2>1. t \in 1 .. L+1 /\ L + 1 - t < MAX_BUFFER_SIZE /\ L + 1 - t < roll'.buffer_size
    BY <1>1, <1>2, <1>3, BufferAssumption DEF LiveVersions
  <2>2. t \in 1..L /\ n \in Nat /\ n + 1 < MAX_BUFFER_SIZE /\ L + 1 - t = n + 1
    BY <1>1, <1>6, <2>1
  <2>3. t \in LiveVersions
    BY <1>1, <2>1, <2>2, BufferAssumption DEF LiveVersions, Advances, IInv, LiveCount
  <2>4. LogOfVersion(t)' = roll'.change_logs[SlotBefore(SlotAfter(roll.active_index, 1), n + 1)]
    BY <1>2, <2>2 DEF LogOfVersion, Advances
  <2>5. /\ SlotBefore(SlotAfter(roll.active_index, 1), n + 1) = SlotBefore(roll.active_index, n)
        /\ SlotBefore(roll.active_index, n) # SlotAfter(roll.active_index, 1)
        /\ SlotBefore(roll.active_index, n) \in Slots
    BY <1>1, <2>2, SlotBeforeAdvance
  <2> QED
    BY <2>2, <2>3, <2>4, <2>5 DEF Advances, LogOfVersion
<1> QED
  BY <1>1, <1>2, <1>4, <1>5, <1>6

\* Any call on an initialized roll, given what it does to the roll.
LEMMA ReturnsIInv ==
  ASSUME IInv, Initialized, NEW outcome, Effect(roll, outcome), Returns(outcome)
  PROVE  IInv'
<1>1. CASE outcome.res # "Ok"
  <2>1. roll' = roll /\ versions' = versions
    BY <1>1 DEF Effect, Returns
  <2> QED
    BY <2>1 DEF IInv, TypeOK, LiveCount, LogsReplayHistory, LiveVersions, LogOfVersion
<1>2. CASE outcome.res = "Ok"
  <2> DEFINE log == get_change_log(roll')
             L == Len(versions)
             grown == add_leaf(Current, get_leaf(log), log.index)
  <2>1. Advances(roll, roll') /\ versions' = Append(versions, grown)
    BY <1>2 DEF Effect, Returns
  <2>2. Current \in [LeafIndices -> Nodes]
    BY BufferAssumption DEF IInv, TypeOK, RollOK, LiveCount, Initialized, Current
  <2>3. grown \in [LeafIndices -> Nodes]
    BY <2>1, <2>2 DEF Advances, RollOK, ChangeLogOK, add_leaf, get_change_log
  <2> HIDE DEF grown, log
  <2>4. /\ L \in Nat \ {0} /\ Len(versions') = L + 1
        /\ versions' \in Seq([LeafIndices -> Nodes])
        /\ versions'[L + 1] = grown /\ \A t \in 1..L : versions'[t] = versions[t]
        /\ LiveCount'
        /\ \A t \in LiveVersions' :
             IF t = L + 1 THEN LogOfVersion(t)' = log
             ELSE t \in 1..L /\ t \in LiveVersions /\ LogOfVersion(t)' = LogOfVersion(t)
    BY <2>1, <2>3, LogsStay DEF log
  <2>5. TypeOK'
    BY <2>1, <2>4 DEF TypeOK, Advances
  <2>6. LogsReplayHistory'
    <3> SUFFICES ASSUME NEW t \in LiveVersions', t > 1
                 PROVE  versions'[t] = add_leaf(versions'[t-1], get_leaf(LogOfVersion(t)'),
                                                LogOfVersion(t)'.index)
      BY DEF LogsReplayHistory
    <3>1. CASE t = L + 1
      <4>1. versions'[t-1] = Current
        BY <3>1, <2>4 DEF Current
      <4> QED
        BY <3>1, <4>1, <2>4 DEF grown
    <3>2. CASE t # L + 1
      <4>1. t \in 1..L /\ t-1 \in 1..L /\ t \in LiveVersions /\ LogOfVersion(t)' = LogOfVersion(t)
        BY <3>2, <2>4
      <4>2. versions[t] = add_leaf(versions[t-1], get_leaf(LogOfVersion(t)), LogOfVersion(t).index)
        BY <4>1 DEF IInv, LogsReplayHistory
      <4>3. versions'[t] = versions[t] /\ versions'[t-1] = versions[t-1]
        BY <4>1, <2>4
      <4> QED
        BY <4>1, <4>2, <4>3
    <3> QED
      BY <3>1, <3>2
  <2> QED
    BY <2>4, <2>5, <2>6 DEF IInv
<1> QED
  BY <1>1, <1>2

\* initialize and initialize_with_root leave a well-formed roll with one live log.
LEMMA InitializeOK ==
  ASSUME RollOK(roll)
  PROVE  RollOK(initialize(roll)) /\ initialize(roll).buffer_size = 1
<1> DEFINE empties == [k \in Levels |-> empty_node[k]]
           log == [roll.change_logs[0] EXCEPT !.root = empty_node[MAX_DEPTH],
                                              !.path = empties]
           path == [DefaultPath EXCEPT !.proof = empties]
           u == initialize(roll)
<1>1. 0 \in Slots /\ 0 \in 0 .. 2^MAX_DEPTH /\ 1 \in 0..MAX_BUFFER_SIZE
  BY BufferAssumption, Capacity DEF Slots
<1>2. ChangeLogOK(log)
  BY <1>1 DEF RollOK, ChangeLogOK
<1>3. /\ DOMAIN path = {"proof", "leaf", "index"}
      /\ DOMAIN path.proof = Levels
      /\ path.index = 0
  BY DEF DefaultPath
<1>4. /\ DOMAIN u = DOMAIN roll
      /\ u.sequence_number = 0 /\ u.active_index = 0 /\ u.buffer_size = 1
      /\ u.rightmost_proof = path
  BY DEF initialize, RollOK
<1>5. u.change_logs = [roll.change_logs EXCEPT ![0] = log]
  BY <1>1 DEF initialize, RollOK, ChangeLogOK
<1> HIDE DEF log, path, u
<1> QED
  BY <1>1, <1>2, <1>3, <1>4, <1>5 DEF RollOK, u

\* The same of initialize_with_root, when its assertion holds; and when it does
\* not the roll is as before.
LEMMA InitializeWithRootOK ==
  ASSUME RollOK(roll), NEW root, NEW leaf, NEW proof_vec, NEW index \in LeafIndices
  PROVE  LET o == initialize_with_root(roll, root, leaf, proof_vec, index)
         IN  /\ o.res = "Ok" => RollOK(o.roll) /\ o.roll.buffer_size = 1
             /\ o.res # "Ok" => o.roll = roll
<1> DEFINE o == initialize_with_root(roll, root, leaf, proof_vec, index)
           proof == [k \in Levels |-> proof_vec[k+1]]
           log == [roll.change_logs[0] EXCEPT !.root = root]
           path == [proof |-> proof, leaf |-> leaf, index |-> index + 1]
           u == [roll EXCEPT !.change_logs[0].root = root,
                             !.sequence_number = 1,
                             !.active_index = 0,
                             !.buffer_size = 1,
                             !.rightmost_proof = path]
<1>1. 0 \in Slots /\ index + 1 \in 0 .. 2^MAX_DEPTH /\ 1 \in 0..MAX_BUFFER_SIZE
  BY BufferAssumption, Capacity DEF Slots, LeafIndices
<1>2. ChangeLogOK(log)
  BY <1>1 DEF RollOK, ChangeLogOK
<1>3. /\ DOMAIN path = {"proof", "leaf", "index"}
      /\ DOMAIN path.proof = Levels
      /\ path.index = index + 1
  OBVIOUS
<1>4. o = Outcome("Ok", u) \/ o = Outcome("Panic", roll)
  BY DEF initialize_with_root
<1> HIDE DEF path, o
<1>5. /\ DOMAIN u = DOMAIN roll
      /\ u.sequence_number = 1 /\ u.active_index = 0 /\ u.buffer_size = 1
      /\ u.rightmost_proof = path
      /\ u.change_logs = [roll.change_logs EXCEPT ![0] = log]
  BY <1>1 DEF RollOK, ChangeLogOK
<1> HIDE DEF log, u
<1>6. RollOK(u) /\ u.buffer_size = 1
  BY <1>1, <1>2, <1>3, <1>5 DEF RollOK
<1> QED
  BY <1>4, <1>6 DEF Outcome, o

\* Every step keeps the invariant: one step per action.
LEMMA NextIInv == IInv /\ [Next]_vars => IInv'
<1> SUFFICES ASSUME IInv, [Next]_vars PROVE IInv'
  OBVIOUS
<1>0. RollOK(roll)
  BY DEF IInv, TypeOK
<1>1. CASE Initialize
  <2>1. RollOK(roll') /\ roll'.buffer_size = 1
    BY <1>0, <1>1, InitializeOK DEF Initialize
  <2>2. EmptyLeaves \in [LeafIndices -> Nodes] /\ versions' = <<EmptyLeaves>>
    BY <1>1 DEF Initialize, EmptyLeaves, Nodes
  <2> QED
    BY <2>1, <2>2, StartIInv
<1>2. ASSUME NEW n \in Prefills, NEW leaf \in LeafNodes, NEW leaves \in Prefilled(n),
             InitializeWithRoot(n, leaves, leaf)
      PROVE  IInv'
  <2> DEFINE o == initialize_with_root(roll, build_root(leaves), leaf,
                                       get_proof_of_leaf(leaves, n-1), n-1)
  <2>1. n - 1 \in LeafIndices
    BY BoundsAssumption, Capacity DEF LeafIndices
  <2>2. /\ o.res = "Ok" => RollOK(o.roll) /\ o.roll.buffer_size = 1
        /\ o.res # "Ok" => o.roll = roll
    BY <1>0, <2>1, InitializeWithRootOK
  <2>3. /\ roll' = o.roll
        /\ versions' = IF o.res = "Ok" THEN <<leaves>> ELSE versions
    BY <1>2 DEF InitializeWithRoot
  <2>4. leaves \in [LeafIndices -> Nodes]
    BY DEF Prefilled
  <2> HIDE DEF o
  <2>5. CASE o.res = "Ok"
    BY <2>2, <2>3, <2>4, <2>5, StartIInv
  <2>6. CASE o.res # "Ok"
    BY <2>2, <2>3, <2>6
       DEF IInv, TypeOK, LiveCount, LogsReplayHistory, LiveVersions, LogOfVersion
  <2> QED
    BY <2>5, <2>6
<1>3. ASSUME NEW node \in Nodes, DoAppend(node)
      PROVE  IInv'
  BY <1>0, <1>3, AppendEffect, ReturnsIInv DEF DoAppend
<1>4. ASSUME NEW t \in 1..Len(versions), NEW index \in LeafIndices, NEW m \in 0..MAX_DEPTH,
             NEW previous_leaf \in Nodes, NEW new_leaf \in Nodes,
             SetLeaf(t, index, previous_leaf, new_leaf, m)
      PROVE  IInv'
  BY <1>0, <1>4, SetLeafEffect, ReturnsIInv DEF SetLeaf
<1>5. ASSUME NEW t \in 1..Len(versions), NEW index \in LeafIndices, NEW m \in 0..MAX_DEPTH,
             NEW leaf \in Nodes, FillEmptyOrAppend(t, index, leaf, m)
      PROVE  IInv'
  BY <1>0, <1>5, FillEffect, ReturnsIInv DEF FillEmptyOrAppend
<1>6. CASE UNCHANGED vars
  BY <1>6 DEF vars, IInv, TypeOK, LiveCount, LogsReplayHistory, LiveVersions, LogOfVersion
<1> QED
  BY <1>1, <1>2, <1>3, <1>4, <1>5, <1>6 DEF Next

\* Whatever the depth, the buffer size and the calls made, the roll keeps the
\* shape its Rust types give it: counters inside the buffer, indices inside the
\* tree, paths with one node per level.
THEOREM TypeCorrect == Spec => []TypeOK
<1>1. IInv => TypeOK
  BY DEF IInv
<1> QED
  BY <1>1, InitIInv, NextIInv, PTL DEF Spec

\* Whatever the depth and the buffer size, the live change logs replay the
\* history of the tree: no slot that counts as live was overwritten.
THEOREM RingReplaysHistory == Spec => []LogsReplayHistory
<1>1. IInv => LogsReplayHistory
  BY DEF IInv
<1> QED
  BY <1>1, InitIInv, NextIInv, PTL DEF Spec

-----------------------------------------------------------------------------
(* The second invariant: roots, paths and the rightmost proof. *)

Hashed ==
  /\ Initialized => Matches(roll, Current)
  /\ ~Initialized => roll.rightmost_proof.index = 0
  /\ ChangeLogsAreHistory

\* A change log of the ring holds a version's root and, but for the first
\* version, the nodes on the written leaf's way up.
HistoryLog(log, t, leaves) ==
  /\ log.root = build_root(leaves)
  /\ t > 1 => \A k \in Levels : log.path[k] = MerkleTree(leaves)[k][Ancestor(log.index, k)]

\* ChangeLogsAreHistory, in these terms.
LEMMA HistoryIsLogs ==
  ChangeLogsAreHistory <=> \A t \in LiveVersions : HistoryLog(LogOfVersion(t), t, versions[t])
BY DEF ChangeLogsAreHistory, HistoryLog, build_root, Ancestor

\* No version is live before the roll is initialized.
LEMMA InitHashed == Init => Hashed
<1> SUFFICES ASSUME Init PROVE Hashed
  OBVIOUS
<1>1. roll.buffer_size = 0 /\ roll.rightmost_proof.index = 0 /\ versions = <<>>
  BY DEF Init, new, DefaultPath
<1>2. LiveVersions = {}
  BY <1>1 DEF LiveVersions
<1> QED
  BY <1>1, <1>2 DEF Hashed, Initialized, ChangeLogsAreHistory

\* A roll with one version whose root and rightmost path match.
LEMMA StartHashed ==
  ASSUME NEW leaves \in [LeafIndices -> Nodes], versions' = <<leaves>>, RollOK(roll'),
         roll'.buffer_size = 1, roll'.active_index = 0, roll'.change_logs[0].root = build_root(leaves),
         RightmostMatches(roll'.rightmost_proof, leaves)
  PROVE  Hashed'
<1>1. Len(versions') = 1 /\ versions'[1] = leaves /\ Current' = leaves
  BY DEF Current
<1>2. Initialized'
  BY DEF Initialized
<1>3. Matches(roll, Current)'
  BY <1>1 DEF Matches, get_change_log
<1>4. ASSUME NEW t \in LiveVersions' PROVE HistoryLog(LogOfVersion(t), t, versions[t])'
  <2>1. t = 1
    BY <1>1, <1>4 DEF LiveVersions
  <2>2. 0 \in Slots /\ Len(versions') - t = 0
    BY <1>1, <2>1, BufferAssumption DEF Slots
  <2>3. LogOfVersion(t)' = roll'.change_logs[0]
    BY <2>2, SlotBeforeZero DEF LogOfVersion
  <2> QED
    BY <1>1, <2>1, <2>3 DEF HistoryLog
<1>5. ChangeLogsAreHistory'
  BY <1>4 DEF ChangeLogsAreHistory, HistoryLog, build_root, Ancestor
<1> QED
  BY <1>2, <1>3, <1>5 DEF Hashed

\* The nodes over empty leaves.
LEMMA EmptyTree ==
  \A k \in 0..MAX_DEPTH : \A p \in Positions(k) : MerkleTree(EmptyLeaves)[k][p] = empty_node[k]
<1> DEFINE a == [k \in 0..MAX_DEPTH |-> -1]
<1>1. \A k \in 0..MAX_DEPTH : a[k] \in Int
  OBVIOUS
<1>2. \A k \in Levels : a[k + 1] = a[k] \div 2
  BY DepthAssumption DEF Levels
<1>3. \A i \in LeafIndices : EmptyLeaves[i] = EMPTY
  BY DEF EmptyLeaves
<1>4. \A k \in 0..MAX_DEPTH : \A p \in Positions(k) : p > a[k]
  BY DEF Positions
<1> HIDE DEF a
<1> QED
  BY <1>1, <1>2, <1>3, <1>4, EmptySubtree

\* initialize: a tree of empty leaves.
LEMMA InitializeMatches ==
  ASSUME RollOK(roll)
  PROVE  LET r == initialize(roll)
         IN  /\ r.active_index = 0 /\ r.change_logs[0].root = build_root(EmptyLeaves)
             /\ RightmostMatches(r.rightmost_proof, EmptyLeaves)
<1> DEFINE r == initialize(roll)
           empties == [k \in Levels |-> empty_node[k]]
<1>1. 0 \in Slots /\ 0 \in Levels /\ 0 \in LeafIndices /\ MAX_DEPTH \in 0..MAX_DEPTH
  BY BufferAssumption, DepthAssumption, Capacity DEF Slots, Levels, LeafIndices
<1>2. \A k \in 0..MAX_DEPTH : \A p \in Positions(k) : MerkleTree(EmptyLeaves)[k][p] = empty_node[k]
  BY EmptyTree
<1>3. build_root(EmptyLeaves) = empty_node[MAX_DEPTH]
  <2>1. 0 \in Positions(MAX_DEPTH)
    BY <1>1, AncestorInTree
  <2> QED
    BY <1>1, <1>2, <2>1 DEF build_root
<1>4. WholeProof(EmptyLeaves, 0) = empties
  <2>1. \A k \in Levels : k \in 0..MAX_DEPTH /\ Sibling(Ancestor(0, k)) \in Positions(k)
    BY <1>1, PathStep, DepthAssumption DEF Levels
  <2> QED
    BY <1>2, <2>1 DEF WholeProof
<1>5. r.active_index = 0 /\ r.rightmost_proof = [DefaultPath EXCEPT !.proof = empties]
  BY DEF initialize, RollOK
<1>6. r.change_logs[0].root = empty_node[MAX_DEPTH]
  BY <1>1 DEF initialize, RollOK, ChangeLogOK
<1> HIDE DEF r, empties
<1>7. r.rightmost_proof.index = 0 /\ r.rightmost_proof.leaf = EMPTY /\ r.rightmost_proof.proof = empties
  BY <1>5 DEF DefaultPath
<1>8. RightmostMatches(r.rightmost_proof, EmptyLeaves)
  BY <1>1, <1>4, <1>7 DEF RightmostMatches, EmptyLeaves
<1> QED
  BY <1>3, <1>5, <1>6, <1>8 DEF r

\* initialize_with_root, when its assertion holds: the leaf and the proof that it
\* was given must be those of the last leaf of the off-chain tree.
LEMMA InitializeWithRootMatches ==
  ASSUME RollOK(roll), NEW n \in 1 .. 2^MAX_DEPTH, NEW leaves \in Prefilled(n), NEW leaf, NEW given,
         initialize_with_root(roll, build_root(leaves), leaf, given, n-1).res = "Ok"
  PROVE  LET r == initialize_with_root(roll, build_root(leaves), leaf, given, n-1).roll
         IN  /\ r.active_index = 0 /\ r.change_logs[0].root = build_root(leaves)
             /\ RightmostMatches(r.rightmost_proof, leaves)
             /\ r.rightmost_proof.index = n
<1> DEFINE root == build_root(leaves)
           call == initialize_with_root(roll, root, leaf, given, n-1)
           proof == [k \in Levels |-> given[k+1]]
           whole == WholeProof(leaves, n-1)
           path == [proof |-> proof, leaf |-> leaf, index |-> (n-1) + 1]
           u == [roll EXCEPT !.change_logs[0].root = root,
                             !.sequence_number = 1,
                             !.active_index = 0,
                             !.buffer_size = 1,
                             !.rightmost_proof = path]
<1>1. 0 \in Slots /\ n-1 \in LeafIndices /\ (n-1) + 1 = n /\ n \in Nat
  BY BufferAssumption, Capacity DEF Slots, LeafIndices
<1>2. IsProof(proof) /\ IsProof(whole)
  BY DEF WholeProof, IsProof
<1>3. call = IF root = recompute(leaf, proof, n-1) THEN Outcome("Ok", u) ELSE Outcome("Panic", roll)
  BY DEF initialize_with_root
<1> HIDE DEF proof, call, root
<1>4. root = recompute(leaf, proof, n-1) /\ call.roll = u
  <2> HIDE DEF u
  <2> QED
    BY <1>3 DEF Outcome, call, root
<1>5. leaf = leaves[n-1] /\ proof = whole
  <2>1. recompute(leaf, proof, n-1) = recompute(leaves[n-1], whole, n-1)
    BY <1>1, <1>4, ProofRecomputes DEF root
  <2>2. leaf = leaves[n-1] /\ \A k \in Levels : proof[k] = whole[k]
    BY <2>1, RootDeterminesProof
  <2> QED
    BY <1>2, <2>2 DEF IsProof
<1>6. u.active_index = 0 /\ u.rightmost_proof = path
  BY DEF RollOK
<1>7. u.change_logs[0].root = root
  BY <1>1 DEF RollOK, ChangeLogOK
<1> HIDE DEF u, whole
<1>8. u.rightmost_proof.index = n /\ u.rightmost_proof.leaf = leaves[n-1] /\ u.rightmost_proof.proof = whole
  BY <1>1, <1>5, <1>6
<1>9. \A i \in LeafIndices : i >= n => leaves[i] = EMPTY
  BY <1>1 DEF Prefilled, LeafIndices
<1>10. RightmostMatches(u.rightmost_proof, leaves)
  BY <1>1, <1>8, <1>9 DEF RightmostMatches, whole
<1> QED
  BY <1>4, <1>6, <1>7, <1>8, <1>10 DEF root, call

\* A call on an initialized roll that returns Ok.
LEMMA ReturnsHashed ==
  ASSUME IInv, Hashed, Initialized, NEW outcome, Effect(roll, outcome), Returns(outcome),
         outcome.res = "Ok" => Writes(roll, outcome.roll, Current)
  PROVE  Hashed'
<1>1. CASE outcome.res # "Ok"
  <2>1. roll' = roll /\ versions' = versions
    BY <1>1 DEF Effect, Returns
  <2> QED
    BY <2>1 DEF Hashed, Initialized, Current, ChangeLogsAreHistory, LiveVersions, LogOfVersion
<1>2. CASE outcome.res = "Ok"
  <2> DEFINE log == get_change_log(roll')
             L == Len(versions)
             grown == add_leaf(Current, get_leaf(log), log.index)
  <2>1. Advances(roll, roll') /\ versions' = Append(versions, grown) /\ Writes(roll, roll', Current)
    BY <1>2 DEF Effect, Returns
  <2>2. Matches(roll, Current) /\ RollOK(roll')
    BY <2>1 DEF Hashed, Advances
  <2>3. /\ Matches(roll', grown)
        /\ \A k \in Levels : log.path[k] = MerkleTree(grown)[k][Ancestor(log.index, k)]
    BY <2>1, <2>2, WritesMatch
  <2>4. grown \in [LeafIndices -> Nodes] /\ log.root = build_root(grown)
    BY <2>3 DEF Matches
  <2> HIDE DEF grown, log
  <2>5. /\ L \in Nat \ {0} /\ Len(versions') = L + 1
        /\ versions'[L + 1] = grown /\ \A t \in 1..L : versions'[t] = versions[t]
        /\ \A t \in LiveVersions' :
             IF t = L + 1 THEN LogOfVersion(t)' = log
             ELSE t \in 1..L /\ t \in LiveVersions /\ LogOfVersion(t)' = LogOfVersion(t)
    BY <2>1, <2>4, LogsStay DEF log
  <2>6. Current' = grown
    BY <2>5 DEF Current
  <2>7. Matches(roll, Current)'
    BY <2>3, <2>6
  <2>8. Initialized'
    BY <2>1, BufferAssumption DEF Initialized, Advances, IInv, TypeOK, RollOK
  <2>9. ASSUME NEW t \in LiveVersions' PROVE HistoryLog(LogOfVersion(t), t, versions[t])'
    <3>1. CASE t = L + 1
      BY <2>3, <2>4, <2>5, <3>1 DEF HistoryLog
    <3>2. CASE t # L + 1
      <4>1. HistoryLog(LogOfVersion(t), t, versions[t])
        BY <2>5, <3>2, HistoryIsLogs DEF Hashed
      <4>2. LogOfVersion(t)' = LogOfVersion(t) /\ versions'[t] = versions[t]
        BY <2>5, <3>2
      <4> QED
        BY <4>1, <4>2 DEF HistoryLog
    <3> QED
      BY <3>1, <3>2
  <2>10. ChangeLogsAreHistory'
    BY <2>9 DEF ChangeLogsAreHistory, HistoryLog, build_root, Ancestor
  <2> QED
    BY <2>7, <2>8, <2>10 DEF Hashed
<1> QED
  BY <1>1, <1>2

\* Every step keeps the second invariant.
LEMMA NextHashed == IInv /\ Hashed /\ [Next]_vars => Hashed'
<1> SUFFICES ASSUME IInv, Hashed, [Next]_vars PROVE Hashed'
  OBVIOUS
<1>0. RollOK(roll) /\ (Initialized => Matches(roll, Current))
  BY DEF IInv, TypeOK, Hashed
<1>1. CASE Initialize
  <2>1. EmptyLeaves \in [LeafIndices -> Nodes] /\ versions' = <<EmptyLeaves>> /\ roll' = initialize(roll)
    BY <1>1 DEF Initialize, EmptyLeaves, Nodes
  <2>2. RollOK(roll') /\ roll'.buffer_size = 1
    BY <1>0, <2>1, InitializeOK
  <2>3. /\ roll'.active_index = 0 /\ roll'.change_logs[0].root = build_root(EmptyLeaves)
        /\ RightmostMatches(roll'.rightmost_proof, EmptyLeaves)
    BY <1>0, <2>1, InitializeMatches
  <2> QED
    BY <2>1, <2>2, <2>3, StartHashed
<1>2. ASSUME NEW n \in Prefills, NEW leaf \in LeafNodes, NEW leaves \in Prefilled(n),
             InitializeWithRoot(n, leaves, leaf)
      PROVE  Hashed'
  <2> DEFINE o == initialize_with_root(roll, build_root(leaves), leaf,
                                       get_proof_of_leaf(leaves, n-1), n-1)
  <2>1. n \in 1 .. 2^MAX_DEPTH /\ n - 1 \in LeafIndices /\ leaves \in [LeafIndices -> Nodes]
    BY BoundsAssumption, Capacity DEF LeafIndices, Prefilled
  <2>2. roll' = o.roll /\ versions' = IF o.res = "Ok" THEN <<leaves>> ELSE versions
    BY <1>2 DEF InitializeWithRoot
  <2>3. /\ o.res = "Ok" => RollOK(o.roll) /\ o.roll.buffer_size = 1
        /\ o.res # "Ok" => o.roll = roll
    BY <1>0, <2>1, InitializeWithRootOK
  <2>4. o.res = "Ok" => /\ o.roll.active_index = 0 /\ o.roll.change_logs[0].root = build_root(leaves)
                        /\ RightmostMatches(o.roll.rightmost_proof, leaves)
    BY <1>0, <2>1, InitializeWithRootMatches
  <2> HIDE DEF o
  <2>5. CASE o.res = "Ok"
    BY <2>1, <2>2, <2>3, <2>4, <2>5, StartHashed
  <2>6. CASE o.res # "Ok"
    BY <2>2, <2>3, <2>6
       DEF Hashed, Initialized, Current, ChangeLogsAreHistory, LiveVersions, LogOfVersion
  <2> QED
    BY <2>5, <2>6
<1>3. ASSUME NEW node \in Nodes, DoAppend(node)
      PROVE  Hashed'
  <2>1. Initialized /\ Returns(append(roll, node)) /\ Matches(roll, Current)
    BY <1>0, <1>3 DEF DoAppend
  <2>2. Effect(roll, append(roll, node))
    BY <1>0, AppendEffect
  <2>3. append(roll, node).res = "Ok" => Writes(roll, append(roll, node).roll, Current)
    BY <2>1, AppendWrites
  <2> QED
    BY <2>1, <2>2, <2>3, ReturnsHashed
<1>4. ASSUME NEW t \in 1..Len(versions), NEW index \in LeafIndices, NEW m \in 0..MAX_DEPTH,
             NEW previous_leaf \in Nodes, NEW new_leaf \in Nodes,
             SetLeaf(t, index, previous_leaf, new_leaf, m)
      PROVE  Hashed'
  <2> DEFINE o == set_leaf(roll, build_root(versions[t]), previous_leaf, new_leaf,
                           ProofVec(t, index, m), index)
  <2>1. Initialized /\ Returns(o) /\ Matches(roll, Current)
    BY <1>0, <1>4 DEF SetLeaf
  <2>2. Effect(roll, o)
    BY <1>0, SetLeafEffect
  <2>3. o.res = "Ok" => Writes(roll, o.roll, Current)
    BY <2>1, SetLeafWrites
  <2> QED
    BY <2>1, <2>2, <2>3, ReturnsHashed
<1>5. ASSUME NEW t \in 1..Len(versions), NEW index \in LeafIndices, NEW m \in 0..MAX_DEPTH,
             NEW leaf \in Nodes, FillEmptyOrAppend(t, index, leaf, m)
      PROVE  Hashed'
  <2> DEFINE o == fill_empty_or_append(roll, build_root(versions[t]), leaf,
                                       ProofVec(t, index, m), index)
  <2>1. Initialized /\ Returns(o) /\ Matches(roll, Current)
    BY <1>0, <1>5 DEF FillEmptyOrAppend
  <2>2. Effect(roll, o)
    BY <1>0, FillEffect
  <2>3. o.res = "Ok" => Writes(roll, o.roll, Current)
    BY <2>1, FillWrites
  <2> QED
    BY <2>1, <2>2, <2>3, ReturnsHashed
<1>6. CASE UNCHANGED vars
  BY <1>6 DEF vars, Hashed, Initialized, Current, ChangeLogsAreHistory, LiveVersions, LogOfVersion
<1> QED
  BY <1>1, <1>2, <1>3, <1>4, <1>5, <1>6 DEF Next

\* Both invariants hold of every roll.
LEMMA HashedInvariant == Spec => [](IInv /\ Hashed)
BY InitIInv, NextIInv, InitHashed, NextHashed, PTL DEF Spec

-----------------------------------------------------------------------------
(* What the second invariant shows. *)

\* Every live change log holds the root of its version and the nodes on the way
\* up from the leaf it wrote: what replace_and_recompute_path and append hash
\* from a proof is what the off-chain tree hashes from all the leaves.
THEOREM HistoryIsHashed == Spec => []ChangeLogsAreHistory
<1>1. IInv /\ Hashed => ChangeLogsAreHistory
  BY DEF Hashed
<1> QED
  BY <1>1, HashedInvariant, PTL

\* rightmost_proof, moved by append and brought up to date by every other write,
\* is the proof of the last leaf in the current tree.
THEOREM RightmostIsCurrent == Spec => []RightmostProofIsCurrent
<1>1. IInv /\ Hashed => RightmostProofIsCurrent
  <2> SUFFICES ASSUME IInv, Hashed, Initialized PROVE RightmostProofIsCurrent
    BY DEF RightmostProofIsCurrent
  <2>1. RightmostMatches(roll.rightmost_proof, Current)
    BY DEF Hashed, Matches
  <2> QED
    BY <2>1, FilledProof DEF RightmostMatches, RightmostProofIsCurrent
<1> QED
  BY <1>1, HashedInvariant, PTL

\* prove_leaf, and with it every write that check_valid_leaf lets through, takes
\* a leaf only if the current root commits to it, whatever proof was given.
THEOREM NoLostUpdate == Spec => []OnlyCurrentLeavesAccepted
<1>1. OnlyCurrentLeavesAccepted
  <2> SUFFICES ASSUME NEW t \in 1..Len(versions), NEW index \in LeafIndices, NEW m \in 0..MAX_DEPTH,
                      NEW leaf \in Nodes,
                      prove_leaf(roll, build_root(versions[t]), leaf, ProofVec(t, index, m), index).res = "Ok"
               PROVE  LeafOf(get_change_log(roll).root, index) = leaf
    BY DEF OnlyCurrentLeavesAccepted
  <2> DEFINE root == build_root(versions[t])
             proof == fill_in_proof(ProofVec(t, index, m))
             ff == fast_forward_proof(ReplayedLogs(roll, root), leaf, proof, index)
  <2>1. check_valid_leaf(roll, root, leaf, proof, index, TRUE) = "Ok"
    BY DEF prove_leaf, Outcome
  <2>2. ff.leaf = leaf /\ recompute(ff.leaf, ff.proof, index) = get_change_log(roll).root
    BY <2>1 DEF check_valid_leaf
  <2> QED
    BY <2>2, LeafOfRecomputed
<1> QED
  BY <1>1, PTL

-----------------------------------------------------------------------------
(* Bringing a proof up to date. *)

\* Counting back n slots from a, and back again or forwards from there.
LEMMA SlotArithmetic ==
  ASSUME NEW a \in Slots, NEW n \in Slots, NEW m \in 0..n
  PROVE  /\ SlotBefore(a, n) \in Slots
         /\ SlotBefore(a, SlotBefore(a, n)) = n
         /\ SlotAfter(SlotBefore(a, n), m) = SlotBefore(a, n - m)
<1>1. SlotBefore(a, n) = IF n <= a THEN a - n ELSE a - n + MAX_BUFFER_SIZE
  BY SlotBeforeWraps
<1>2. SlotBefore(a, n) \in Slots
  BY <1>1, BufferAssumption DEF Slots
<1>3. SlotBefore(a, SlotBefore(a, n)) = IF SlotBefore(a, n) <= a THEN a - SlotBefore(a, n)
                                        ELSE a - SlotBefore(a, n) + MAX_BUFFER_SIZE
  BY <1>2, SlotBeforeWraps
<1>4. n - m \in Slots
  BY BufferAssumption DEF Slots
<1>5. SlotBefore(a, n - m) = IF n - m <= a THEN a - (n - m) ELSE a - (n - m) + MAX_BUFFER_SIZE
  BY <1>4, SlotBeforeWraps
<1>6. \A b \in Slots : SlotAfter(b, m) = IF b + m < MAX_BUFFER_SIZE THEN b + m ELSE b + m - MAX_BUFFER_SIZE
  BY BufferAssumption DEF Slots, SlotAfter
<1>7. SlotAfter(SlotBefore(a, n), m) = SlotBefore(a, n - m)
  BY <1>1, <1>2, <1>5, <1>6, BufferAssumption DEF Slots
<1>8. SlotBefore(a, SlotBefore(a, n)) = n
  BY <1>1, <1>3, BufferAssumption DEF Slots
<1> QED
  BY <1>2, <1>7, <1>8

\* The loop of fast_forward_proof, log after log: what it holds after each.
Forwards(after, logs, leaf, proof, i) ==
  /\ after[0] = [leaf |-> leaf, proof |-> proof]
  /\ \A n \in 0 .. Len(logs)-1 : after[n + 1] = update_proof_or_leaf(logs[n + 1], i, after[n])
  /\ fast_forward_proof(logs, leaf, proof, i) = after[Len(logs)]

\* fast_forward_proof applies the logs one after the other.
LEMMA FastForwardStep ==
  ASSUME NEW logs, Len(logs) \in Nat, NEW leaf, NEW proof, NEW i
  PROVE  \E after : Forwards(after, logs, leaf, proof, i)
<1> DEFINE N == Len(logs)
<1> DEFINE given == [leaf |-> leaf, proof |-> proof]
           Past(log, lp) == update_proof_or_leaf(log, i, lp)
           F(g, n) == [k \in 0..n |-> IF k = 0 THEN given ELSE Past(logs[k], g[k-1])]
           S == {n \in 0..N : \E g : g = F(g, n)}
           after == CHOOSE g : g = F(g, N)
<1>0. fast_forward_proof(logs, leaf, proof, i) = after[N]
  BY DEF fast_forward_proof
<1>n. N \in Nat
  OBVIOUS
<1> HIDE DEF given, Past, N
<1>1. 0 \in S
  <2> DEFINE g == [k \in 0..0 |-> given]
  <2>1. g = F(g, 0)
    OBVIOUS
  <2> HIDE DEF g
  <2> QED
    BY <1>n, <2>1
<1>2. ASSUME NEW n \in 0..N-1, n \in S PROVE n + 1 \in S
  <2>1. PICK g : g = F(g, n)
    BY <1>2
  <2> DEFINE h == [k \in 0..n+1 |-> IF k = n + 1 THEN Past(logs[n + 1], g[n]) ELSE g[k]]
  <2>2. ASSUME NEW k \in 0..n+1 PROVE h[k] = F(h, n + 1)[k]
    BY <1>n, <2>1
  <2>3. h = F(h, n + 1)
    BY <2>2
  <2> HIDE DEF h
  <2> QED
    BY <1>n, <2>3
<1>3. N \in S
  <2> HIDE DEF S
  <2>1. \A k \in 0..N : k \in S
    BY <1>1, <1>2, <1>n, Upwards
  <2> QED
    BY <1>n, <2>1
<1>4. after = F(after, N)
  BY <1>3
<1> HIDE DEF after
<1>5. after[0] = given
  BY <1>4, <1>n
<1>6. ASSUME NEW n \in 0..N-1 PROVE after[n + 1] = Past(logs[n + 1], after[n])
  <2>1. n + 1 \in 0..N /\ n + 1 # 0 /\ (n + 1) - 1 = n
    BY <1>n
  <2> QED
    BY <1>4, <2>1
<1> QED
  BY <1>0, <1>5, <1>6 DEF given, Past, N, Forwards

\* The logs replayed onto a proof read from a live version: those of the
\* versions after the last one with the same leaves.
LEMMA ReplayedVersions ==
  ASSUME IInv, Hashed, NEW t \in LiveVersions
  PROVE  LET root == build_root(versions[t])
             logs == ReplayedLogs(roll, root)
         IN  /\ RootFound(roll, root)
             /\ \E age \in Nat : /\ age < Len(versions) /\ Len(logs) = age /\ DOMAIN logs = 1..age
                                 /\ versions[Len(versions) - age] = versions[t]
                                 /\ \A n \in 1..age :
                                      /\ Len(versions) - age + n \in LiveVersions
                                      /\ logs[n] = LogOfVersion(Len(versions) - age + n)
<1> DEFINE root == build_root(versions[t])
           logs == ReplayedLogs(roll, root)
           L == Len(versions)
           a == roll.active_index
           size == roll.buffer_size
           Ages == AgesOfRoot(roll, root)
           age == CHOOSE n \in Ages : \A m \in Ages : n <= m
           start == SlotBefore(a, age)
<1>1. /\ L \in Nat /\ a \in Slots /\ size \in Nat /\ size <= L /\ size <= MAX_BUFFER_SIZE
      /\ t \in 1..L /\ L - t < size /\ versions \in Seq([LeafIndices -> Nodes])
  BY BufferAssumption DEF IInv, TypeOK, RollOK, LiveCount, LiveVersions
<1>2. ASSUME NEW n \in 0..size-1
      PROVE  /\ L - n \in LiveVersions
             /\ LogOfVersion(L - n) = roll.change_logs[SlotBefore(a, n)]
             /\ LogOfVersion(L - n).root = build_root(versions[L - n])
  <2>1. L - n \in 1..L /\ L - (L - n) = n /\ n < size
    BY <1>1
  <2>2. L - n \in LiveVersions /\ LogOfVersion(L - n) = roll.change_logs[SlotBefore(a, n)]
    BY <2>1 DEF LiveVersions, LogOfVersion
  <2>3. HistoryLog(LogOfVersion(L - n), L - n, versions[L - n])
    BY <2>2, HistoryIsLogs DEF Hashed
  <2> QED
    BY <2>2, <2>3 DEF HistoryLog
<1>3. Ages = {n \in 0..size-1 : roll.change_logs[SlotBefore(a, n)].root = root}
  BY DEF AgesOfRoot
<1> HIDE DEF Ages, root
<1>4. L - t \in Ages
  <2>1. L - t \in 0..size-1 /\ L - (L - t) = t
    BY <1>1
  <2> QED
    BY <1>2, <1>3, <2>1 DEF root
<1>5. age \in Ages /\ \A m \in Ages : age <= m
  <2>1. Ages \in SUBSET Nat
    BY <1>1, <1>3
  <2>2. \E n \in Ages : \A m \in Ages : n <= m
    BY <1>4, <2>1, LeastNumber
  <2> QED
    BY <2>2
<1> HIDE DEF age
<1>6. age \in 0..size-1 /\ age \in Nat /\ age < L /\ age \in Slots
  BY <1>1, <1>3, <1>5, BufferAssumption DEF Slots
<1>7. RootFound(roll, root)
  BY <1>4 DEF RootFound, Ages
<1>8. versions[L - age] = versions[t]
  <2>1. build_root(versions[L - age]) = build_root(versions[t])
    BY <1>2, <1>3, <1>5, <1>6 DEF root
  <2>2. L - age \in 1..L
    BY <1>1, <1>6
  <2>3. versions[L - age] \in [LeafIndices -> Nodes] /\ versions[t] \in [LeafIndices -> Nodes]
    BY <1>1, <2>2
  <2> QED
    BY <2>1, <2>3, RootDeterminesLeaves
<1>9. SlotBefore(a, start) = age /\ \A n \in 1..age : SlotAfter(start, n) = SlotBefore(a, age - n)
  <2>1. SlotBefore(a, start) = age
    <3>1. 0 \in 0..age
      BY <1>6
    <3> QED
      BY <1>1, <1>6, <3>1, SlotArithmetic
  <2>2. ASSUME NEW n \in 1..age PROVE SlotAfter(start, n) = SlotBefore(a, age - n)
    <3>1. n \in 0..age
      OBVIOUS
    <3> QED
      BY <1>1, <1>6, <3>1, SlotArithmetic
  <2> QED
    BY <2>1, <2>2
<1>10. logs = [n \in 1..age |-> roll.change_logs[SlotAfter(start, n)]]
  <2>1. ReplayStart(roll, root) = start
    BY <1>7 DEF ReplayStart, find_root_in_changelog, Ages, age
  <2> HIDE DEF start
  <2> QED
    BY <1>7, <1>9, <2>1 DEF ReplayedLogs
<1> HIDE DEF start
<1>11. Len(logs) = age /\ DOMAIN logs = 1..age
  BY <1>6, <1>10
<1>12. ASSUME NEW n \in 1..age PROVE L - age + n \in LiveVersions /\ logs[n] = LogOfVersion(L - age + n)
  <2>1. age - n \in 0..size-1 /\ L - (age - n) = L - age + n
    BY <1>1, <1>6
  <2>2. logs[n] = roll.change_logs[SlotBefore(a, age - n)]
    BY <1>9, <1>10
  <2> QED
    BY <1>2, <2>1, <2>2
<1> QED
  BY <1>6, <1>7, <1>8, <1>11, <1>12 DEF root

\* A proof each of whose nodes was read from version t or from the current tree.
Readable(t, i, given) ==
  /\ IsProof(given)
  /\ \A k \in Levels : \/ given[k] = WholeProof(versions[t], i)[k]
                       \/ given[k] = WholeProof(Current, i)[k]

\* Such a proof becomes the proof in the current tree, and the leaf the current
\* one unless nobody wrote it since.
BroughtUpToDate(t, i, leaf, given) ==
  LET root == build_root(versions[t])
      logs == ReplayedLogs(roll, root)
      ff == fast_forward_proof(logs, leaf, given, i)
  IN  /\ RootFound(roll, root)
      /\ \A n \in DOMAIN logs : ~CritbitUnderflows(i, logs[n].index)
      /\ ff.proof = WholeProof(Current, i)
      /\ ff.leaf = Current[i] \/ (ff.leaf = leaf /\ Current[i] = versions[t][i])

\* Replaying the live logs after version t brings a proof read in it up to date.
LEMMA ReplayIsCurrent ==
  ASSUME IInv, Hashed, NEW t \in LiveVersions, NEW i \in LeafIndices, NEW leaf,
         NEW given, Readable(t, i, given)
  PROVE  BroughtUpToDate(t, i, leaf, given)
<1> DEFINE root == build_root(versions[t])
           logs == ReplayedLogs(roll, root)
           ff == fast_forward_proof(logs, leaf, given, i)
           L == Len(versions)
<1>1. RootFound(roll, root)
  BY ReplayedVersions
<1>2. PICK age \in Nat : /\ age < L /\ Len(logs) = age /\ DOMAIN logs = 1..age
                         /\ versions[L - age] = versions[t]
                         /\ \A n \in 1..age : L - age + n \in LiveVersions /\ logs[n] = LogOfVersion(L - age + n)
  BY ReplayedVersions
<1> HIDE DEF logs, root
<1>3. L \in Nat /\ versions \in Seq([LeafIndices -> Nodes]) /\ RollOK(roll)
  BY DEF IInv, TypeOK
<1> DEFINE V(n) == versions[L - age + n]
<1>4. ASSUME NEW n \in 0..age PROVE V(n) \in [LeafIndices -> Nodes]
  <2>1. L - age + n \in 1..L
    BY <1>2, <1>3
  <2> QED
    BY <1>3, <2>1
<1>5. ASSUME NEW n \in 1..age
      PROVE  /\ logs[n].index \in LeafIndices
             /\ V(n) = add_leaf(V(n-1), get_leaf(logs[n]), logs[n].index)
             /\ \A k \in Levels : logs[n].path[k] = MerkleTree(V(n))[k][Ancestor(logs[n].index, k)]
  <2> DEFINE u == L - age + n
  <2>1. u \in LiveVersions /\ logs[n] = LogOfVersion(u)
    BY <1>2
  <2>2. u > 1 /\ u - 1 = L - age + (n - 1)
    BY <1>2, <1>3
  <2>3. versions[u] = add_leaf(versions[u-1], get_leaf(logs[n]), logs[n].index)
    BY <2>1, <2>2 DEF IInv, LogsReplayHistory
  <2>4. HistoryLog(logs[n], u, versions[u])
    BY <2>1, HistoryIsLogs DEF Hashed
  <2>5. logs[n].index \in LeafIndices
    <3>1. L - u \in Slots
      BY <1>3, <2>1, BufferAssumption DEF LiveVersions, RollOK, Slots
    <3>2. SlotBefore(roll.active_index, L - u) \in Slots
      <4>1. roll.active_index \in Slots /\ 0 \in 0..(L - u)
        BY <1>3, <3>1 DEF RollOK, Slots
      <4> QED
        BY <3>1, <4>1, SlotArithmetic
    <3> QED
      BY <1>3, <2>1, <3>2 DEF LogOfVersion, RollOK, ChangeLogOK
  <2> QED
    BY <2>2, <2>3, <2>4, <2>5 DEF HistoryLog
<1> HIDE DEF V
<1>6. PICK after : /\ after[0] = [leaf |-> leaf, proof |-> given]
                   /\ \A n \in 0..age-1 : after[n + 1] = update_proof_or_leaf(logs[n + 1], i, after[n])
                   /\ fast_forward_proof(logs, leaf, given, i) = after[age]
  <2>1. Len(logs) = age /\ Len(logs) \in Nat
    BY <1>2
  <2>2. PICK after : Forwards(after, logs, leaf, given, i)
    BY <2>1, FastForwardStep
  <2> QED
    BY <2>1, <2>2 DEF Forwards
<1> HIDE DEF ff
<1> DEFINE final == WholeProof(V(age), i)
           Good(x, n) == x = V(n)[i] \/ (x = leaf /\ V(n)[i] = V(0)[i])
           Fresh(g, n) == IsProof(g) /\ \A k \in Levels : g[k] = WholeProof(V(n), i)[k] \/ g[k] = final[k]
           S == {n \in 0..age : \E x, g : after[n] = [leaf |-> x, proof |-> g] /\ Good(x, n) /\ Fresh(g, n)}
<1>7. V(age) = Current /\ V(0) = versions[t]
  BY <1>2, <1>3 DEF V, Current
<1> HIDE DEF final
<1>8. 0 \in S
  <2>1. Fresh(given, 0)
    BY <1>7 DEF Readable, final
  <2>2. Good(leaf, 0)
    OBVIOUS
  <2> HIDE DEF Fresh, Good
  <2> QED
    BY <1>6, <2>1, <2>2
<1>9. ASSUME NEW n \in 0..age-1, n \in S PROVE n + 1 \in S
  <2> DEFINE log == logs[n + 1]
             j == log.index
             v == get_leaf(log)
  <2>1. PICK x, g : after[n] = [leaf |-> x, proof |-> g] /\ Good(x, n) /\ Fresh(g, n)
    <3> HIDE DEF Good, Fresh
    <3> QED
      BY <1>9
  <2>2. n \in 0..age /\ n + 1 \in 1..age /\ n + 1 \in 0..age /\ (n + 1) - 1 = n
    OBVIOUS
  <2>3. /\ j \in LeafIndices /\ V(n + 1) = add_leaf(V(n), v, j)
        /\ \A k \in Levels : log.path[k] = MerkleTree(V(n + 1))[k][Ancestor(j, k)]
    BY <1>5, <2>2
  <2>4. V(n) \in [LeafIndices -> Nodes] /\ DOMAIN V(n) = LeafIndices
    BY <1>4, <2>2
  <2>5. after[n + 1] = update_proof_or_leaf(log, i, [leaf |-> x, proof |-> g])
    BY <1>6, <2>1
  <2> DEFINE y == IF i = j THEN v ELSE x
  <2>6. PICK h : /\ after[n + 1] = [leaf |-> y, proof |-> h]
                 /\ NodesFollow(V(n), i, j, v, g, h)
    <3> HIDE DEF log, v, j
    <3>1. log.index = j
      BY DEF j
    <3>2. /\ j \in LeafIndices /\ DOMAIN V(n) = LeafIndices
          /\ \A k \in Levels : log.path[k] = MerkleTree(add_leaf(V(n), v, j))[k][Ancestor(j, k)]
      BY <2>3, <2>4
    <3>3. IsProof(g)
      BY <2>1
    <3>4. PICK h : /\ update_proof_or_leaf(log, i, [leaf |-> x, proof |-> g])
                        = [leaf |-> IF i = j THEN v ELSE x, proof |-> h]
                   /\ NodesFollow(V(n), i, j, v, g, h)
      <4>1. j \in LeafIndices
        BY <3>2
      <4>2. DOMAIN V(n) = LeafIndices
        BY <3>2
      <4>3. \A k \in Levels : log.path[k] = MerkleTree(add_leaf(V(n), v, j))[k][Ancestor(j, k)]
        BY <3>2
      <4>4. BroughtPast(log, V(n), i, j, v, x, g)
        BY <3>1, <3>3, <4>1, <4>2, <4>3, UpdatedNodes
      <4> QED
        BY <4>4 DEF BroughtPast
    <3> QED
      BY <2>5, <3>4
  <2>7. V(n + 1)[i] = IF i = j THEN v ELSE V(n)[i]
    BY <2>3, <2>4 DEF add_leaf
  <2>8. Good(y, n + 1)
    BY <2>1, <2>7
  <2>9. Fresh(h, n + 1)
    <3>1. /\ IsProof(h)
          /\ \A k \in Levels : \/ h[k] = WholeProof(V(n + 1), i)[k]
                               \/ h[k] = g[k] /\ WholeProof(V(n + 1), i)[k] = WholeProof(V(n), i)[k]
      BY <2>3, <2>6 DEF NodesFollow
    <3> QED
      BY <2>1, <3>1
  <2> HIDE DEF y, Good, Fresh
  <2> QED
    BY <2>2, <2>6, <2>8, <2>9
<1>10. age \in S
  <2> HIDE DEF S
  <2>1. \A k \in 0..age : k \in S
    BY <1>8, <1>9, Upwards
  <2> QED
    BY <2>1
<1>11. ff.proof = WholeProof(Current, i) /\ Good(ff.leaf, age)
  <2> HIDE DEF Good, Fresh
  <2>1. PICK x, g : after[age] = [leaf |-> x, proof |-> g] /\ Good(x, age) /\ Fresh(g, age)
    BY <1>10
  <2>2. IsProof(g) /\ \A k \in Levels : g[k] = final[k]
    BY <2>1 DEF Fresh, final
  <2>3. IsProof(final)
    BY DEF final, WholeProof, IsProof
  <2>4. g = final
    BY <2>2, <2>3 DEF IsProof
  <2>5. ff.proof = g /\ ff.leaf = x
    BY <1>6, <2>1 DEF ff
  <2> QED
    BY <1>7, <2>1, <2>4, <2>5 DEF final
<1>12. \A n \in DOMAIN logs : ~CritbitUnderflows(i, logs[n].index)
  <2> SUFFICES ASSUME NEW n \in 1..age PROVE ~CritbitUnderflows(i, logs[n].index)
    BY <1>2
  <2>1. logs[n].index \in LeafIndices
    BY <1>5
  <2>2. CASE i = logs[n].index
    BY <2>2 DEF CritbitUnderflows
  <2>3. CASE i # logs[n].index
    BY <2>1, <2>3, PathsMeet
  <2> QED
    BY <2>2, <2>3
<1> QED
  BY <1>1, <1>7, <1>11, <1>12 DEF ff, logs, root, BroughtUpToDate

\* The result of try_apply_proof at an index that is not past the end.
VerdictDecides(r, current_root, leaf, new_leaf, proof, index, allow) ==
  LET call == try_apply_proof(r, current_root, leaf, new_leaf, proof, index, allow)
  IN  /\ call.res = check_valid_leaf(r, current_root, leaf, proof, index, allow)
      /\ call.res = "Ok" => get_change_log(call.roll).index = index

\* try_apply_proof does what check_valid_leaf decides.
LEMMA TryApplyProofResult ==
  ASSUME NEW r, RollOK(r), NEW current_root, NEW leaf, NEW new_leaf \in Nodes, NEW proof,
         NEW index \in LeafIndices, NEW allow, index <= r.rightmost_proof.index
  PROVE  VerdictDecides(r, current_root, leaf, new_leaf, proof, index, allow)
<1> DEFINE verdict == check_valid_leaf(r, current_root, leaf, proof, index, allow)
           ff == fast_forward_proof(ReplayedLogs(r, current_root), leaf, proof, index)
           u == update_buffers_from_proof(update_internal_counters(r), new_leaf, ff.proof, index)
           call == try_apply_proof(r, current_root, leaf, new_leaf, proof, index, allow)
<1>0. ~(index > r.rightmost_proof.index)
  BY Capacity DEF RollOK, LeafIndices
<1>1. call = IF verdict # "Ok" THEN Outcome(verdict, r) ELSE Outcome("Ok", u)
  BY <1>0 DEF try_apply_proof
<1>2. get_change_log(u).index = index
  <2>1. get_change_log(u) = replace_and_recompute_path(index, new_leaf, ff.proof)
    BY WriteAdvances
  <2> QED
    BY <2>1, ChangeLogWellFormed DEF replace_and_recompute_path
<1> HIDE DEF verdict, u, call
<1>3. call.res = verdict /\ (call.res = "Ok" => get_change_log(call.roll).index = index)
  BY <1>1, <1>2 DEF Outcome
<1> QED
  BY <1>3 DEF verdict, call, VerdictDecides

\* check_valid_leaf, given a leaf and its proof in a live version: it accepts
\* the current leaf and no other, and a leaf replaced since is a conflict.
CurrentLeafDecides(t, i, leaf, given, allow) ==
  LET verdict == check_valid_leaf(roll, build_root(versions[t]), leaf, given, i, allow)
  IN  /\ verdict = "Ok" <=> leaf = Current[i]
      /\ leaf # Current[i] /\ leaf = versions[t][i] => verdict = "LeafContentsModified"
      /\ Matches(roll, Current)

\* Inside the window, check_valid_leaf looks for the leaf in the tree of now.
LEMMA FreshVerdict ==
  ASSUME IInv, Hashed, NEW t \in LiveVersions, NEW i \in LeafIndices, NEW leaf, NEW allow,
         NEW given, Readable(t, i, given)
  PROVE  CurrentLeafDecides(t, i, leaf, given, allow)
<1> DEFINE root == build_root(versions[t])
           logs == ReplayedLogs(roll, root)
           ff == fast_forward_proof(logs, leaf, given, i)
           verdict == check_valid_leaf(roll, root, leaf, given, i, allow)
           top == get_change_log(roll).root
<1>1. Matches(roll, Current)
  <2>1. Initialized
    BY DEF LiveVersions, Initialized, IInv, TypeOK, RollOK
  <2> QED
    BY <2>1 DEF Hashed
<1>2. top = build_root(Current)
  BY <1>1 DEF Matches
<1>3. /\ RootFound(roll, root)
      /\ \A n \in DOMAIN logs : ~CritbitUnderflows(i, logs[n].index)
      /\ ff.proof = WholeProof(Current, i)
      /\ ff.leaf = Current[i] \/ (ff.leaf = leaf /\ Current[i] = versions[t][i])
  <2>1. BroughtUpToDate(t, i, leaf, given)
    BY ReplayIsCurrent
  <2> QED
    BY <2>1 DEF BroughtUpToDate
<1>4. verdict = IF ~RootFound(roll, root) /\ ~allow THEN "RootNotFound"
                ELSE IF \E n \in DOMAIN logs : CritbitUnderflows(i, logs[n].index) THEN "Panic"
                ELSE IF ff.leaf # leaf THEN "LeafContentsModified"
                ELSE IF recompute(ff.leaf, ff.proof, i) # top THEN "InvalidProof"
                ELSE "Ok"
  BY DEF check_valid_leaf
<1> HIDE DEF root, logs, ff, verdict, top
<1>5. verdict = IF ff.leaf # leaf THEN "LeafContentsModified"
                ELSE IF recompute(ff.leaf, ff.proof, i) # top THEN "InvalidProof"
                ELSE "Ok"
  BY <1>3, <1>4
<1>6. CASE leaf = Current[i]
  <2>1. ff.leaf = leaf
    BY <1>3, <1>6
  <2>2. recompute(ff.leaf, ff.proof, i) = top
    BY <1>2, <1>3, <1>6, <2>1, ProofRecomputes
  <2>3. verdict = "Ok"
    BY <1>5, <2>1, <2>2
  <2> QED
    BY <1>1, <1>6, <2>3 DEF verdict, root, CurrentLeafDecides
<1>7. CASE leaf # Current[i]
  <2>1. ASSUME ff.leaf = leaf PROVE verdict = "InvalidProof" /\ leaf # versions[t][i]
    <3>1. recompute(leaf, WholeProof(Current, i), i) # recompute(Current[i], WholeProof(Current, i), i)
      BY <1>7, RootDeterminesProof
    <3>2. recompute(ff.leaf, ff.proof, i) # top
      BY <1>2, <1>3, <2>1, <3>1, ProofRecomputes
    <3> QED
      BY <1>3, <1>5, <1>7, <2>1, <3>2
  <2>2. ASSUME ff.leaf # leaf PROVE verdict = "LeafContentsModified"
    BY <1>5, <2>2
  <2>3. verdict # "Ok" /\ (leaf = versions[t][i] => verdict = "LeafContentsModified")
    BY <2>1, <2>2
  <2> QED
    BY <1>1, <1>7, <2>3 DEF verdict, root, CurrentLeafDecides
<1> QED
  BY <1>6, <1>7

\* The whole proof in a live version.
LEMMA WholeIsReadable ==
  ASSUME NEW t, NEW i
  PROVE  Readable(t, i, WholeProof(versions[t], i))
BY DEF Readable, IsProof, WholeProof

\* A proof that is at most MAX_BUFFER_SIZE - 1 writes old decides set_leaf as if
\* it had been read now, whatever those writes were.
THEOREM FreshProofsAreDecisive == Spec => []FreshProofsDecide
<1>1. IInv /\ Hashed => FreshProofsDecide
  <2> SUFFICES ASSUME IInv, Hashed, NEW t \in LiveVersions, NEW index \in LeafIndices,
                      NEW previous_leaf \in Nodes, index <= roll.rightmost_proof.index
               PROVE  set_leaf(roll, build_root(versions[t]), previous_leaf, EMPTY,
                               get_proof_of_leaf(versions[t], index), index).res = "Ok"
                        <=> previous_leaf = Current[index]
    BY DEF FreshProofsDecide
  <2> DEFINE root == build_root(versions[t])
             whole == WholeProof(versions[t], index)
             given == get_proof_of_leaf(versions[t], index)
             verdict == check_valid_leaf(roll, root, previous_leaf, whole, index, TRUE)
             call == set_leaf(roll, root, previous_leaf, EMPTY, given, index)
             tried == try_apply_proof(roll, root, previous_leaf, EMPTY, whole, index, TRUE)
  <2>1. fill_in_proof(given) = whole
    BY FilledProof
  <2>2. verdict = "Ok" <=> previous_leaf = Current[index]
    <3>1. CurrentLeafDecides(t, index, previous_leaf, whole, TRUE)
      BY WholeIsReadable, FreshVerdict
    <3> QED
      BY <3>1 DEF CurrentLeafDecides
  <2>3. ~(index > roll.rightmost_proof.index) /\ RollOK(roll) /\ EMPTY \in Nodes
    BY Capacity DEF IInv, TypeOK, RollOK, LeafIndices, Nodes
  <2> HIDE DEF root, whole, given
  <2>4. call = tried
    BY <2>1, <2>3 DEF set_leaf
  <2>5. tried.res = verdict
    <3>1. RollOK(roll)
      BY <2>3
    <3>2. EMPTY \in Nodes
      BY <2>3
    <3>3. VerdictDecides(roll, root, previous_leaf, EMPTY, whole, index, TRUE)
      BY <3>1, <3>2, TryApplyProofResult
    <3> QED
      BY <3>3 DEF VerdictDecides
  <2> QED
    BY <2>2, <2>4, <2>5 DEF root, whole, given
<1> QED
  BY <1>1, HashedInvariant, PTL

\* fill_empty_or_append with a proof that is at most MAX_BUFFER_SIZE - 1 writes
\* old: the empty leaf is filled, or the leaf is appended, and an append fails
\* only for want of room.
THEOREM FillsOrAppends == Spec => []FillTakesEmptyLeafOrAppends
<1>1. IInv /\ Hashed => FillTakesEmptyLeafOrAppends
  <2> SUFFICES ASSUME IInv, Hashed, NEW t \in LiveVersions, NEW index \in LeafIndices, NEW leaf \in LeafNodes,
                      versions[t][index] = EMPTY, index <= roll.rightmost_proof.index
               PROVE  LET call == fill_empty_or_append(roll, build_root(versions[t]), leaf,
                                                       get_proof_of_leaf(versions[t], index), index)
                          next == roll.rightmost_proof.index
                          conflict == Current[index] # EMPTY
                      IN  /\ call.res = IF conflict /\ next = 2^MAX_DEPTH THEN "TreeFull" ELSE "Ok"
                          /\ call.res = "Ok" =>
                               get_change_log(call.roll).index = IF conflict THEN next ELSE index
    BY DEF FillTakesEmptyLeafOrAppends
  <2> DEFINE root == build_root(versions[t])
             whole == WholeProof(versions[t], index)
             given == get_proof_of_leaf(versions[t], index)
             verdict == check_valid_leaf(roll, root, EMPTY, whole, index, FALSE)
             call == fill_empty_or_append(roll, root, leaf, given, index)
             tried == try_apply_proof(roll, root, EMPTY, leaf, whole, index, FALSE)
             next == roll.rightmost_proof.index
  <2>1. fill_in_proof(given) = whole
    BY FilledProof
  <2>2. /\ verdict = "Ok" <=> EMPTY = Current[index]
        /\ EMPTY # Current[index] => verdict = "LeafContentsModified"
        /\ Matches(roll, Current)
    <3>1. CurrentLeafDecides(t, index, EMPTY, whole, FALSE)
      BY WholeIsReadable, FreshVerdict
    <3> QED
      BY <3>1 DEF CurrentLeafDecides
  <2>3. RollOK(roll) /\ leaf \in Nodes /\ next \in 0 .. 2^MAX_DEPTH /\ index \in Nat
    BY Capacity DEF IInv, TypeOK, RollOK, LeafIndices, Nodes
  <2>4. leaf # EMPTY
    <3>1. PICK v \in Leaf : leaf = <<v>>
      BY DEF LeafNodes
    <3>2. <<v>> # <<>>
      OBVIOUS
    <3> QED
      BY <3>1, <3>2 DEF EMPTY
  <2> HIDE DEF root, whole, given, verdict, tried, call
  <2>5. call = IF tried.res = "LeafContentsModified" THEN append(roll, leaf) ELSE tried
    BY <2>1 DEF fill_empty_or_append, call, tried
  <2>6. tried.res = verdict /\ (tried.res = "Ok" => get_change_log(tried.roll).index = index)
    <3>1. RollOK(roll)
      BY <2>3
    <3>2. leaf \in Nodes
      BY <2>3
    <3>3. VerdictDecides(roll, root, EMPTY, leaf, whole, index, FALSE)
      BY <3>1, <3>2, TryApplyProofResult
    <3> QED
      BY <3>3 DEF VerdictDecides, tried, verdict
  <2>7. CASE Current[index] = EMPTY
    <3>1. call = tried /\ tried.res = "Ok"
      BY <2>2, <2>5, <2>6, <2>7
    <3> QED
      BY <2>6, <2>7, <3>1 DEF call, root, given
  <2>8. CASE Current[index] # EMPTY
    <3>1. call = append(roll, leaf)
      BY <2>2, <2>5, <2>6, <2>8
    <3>2. next > 0
      BY <2>2, <2>3, <2>8, Capacity DEF Matches, RightmostMatches
    <3>3. CASE next = 2^MAX_DEPTH
      <4>1. call.res = "TreeFull"
        BY <2>4, <3>1, <3>3, Capacity DEF append, Outcome
      <4> QED
        BY <2>8, <3>3, <4>1 DEF call, root, given
    <3>4. CASE next # 2^MAX_DEPTH
      <4>1. next < 2^MAX_DEPTH /\ next \in LeafIndices
        BY <2>3, <3>4, Capacity DEF LeafIndices
      <4>2. call = Outcome("Ok", AppendedAt(roll, leaf))
        BY <2>3, <2>4, <3>1, <3>2, <4>1, Capacity DEF append
      <4>3. get_change_log(AppendedAt(roll, leaf))
              = ChangeLog(next, leaf, MovedProof(roll.rightmost_proof), MovedLeft(roll.rightmost_proof))
        BY <2>3, <3>2, <4>1, AppendedAtAdvances
      <4>4. get_change_log(AppendedAt(roll, leaf)).index = next
        BY <4>1, <4>3, ChangeLogWellFormed
      <4>5. call.res = "Ok" /\ get_change_log(call.roll).index = next
        BY <4>2, <4>4 DEF Outcome
      <4> QED
        BY <2>8, <3>4, <4>5 DEF call, root, given
    <3> QED
      BY <3>3, <3>4
  <2> QED
    BY <2>7, <2>8
<1> QED
  BY <1>1, HashedInvariant, PTL

-----------------------------------------------------------------------------
(* The roll implements an array of leaves. *)

\* The leaves that the root of a tree commits to are the leaves of the tree.
LEMMA LeavesOfRoot ==
  ASSUME NEW leaves \in [LeafIndices -> Nodes]
  PROVE  [i \in LeafIndices |-> LeafOf(build_root(leaves), i)] = leaves
<1>1. ASSUME NEW i \in LeafIndices PROVE LeafOf(build_root(leaves), i) = leaves[i]
  <2>1. build_root(leaves) = recompute(leaves[i], WholeProof(leaves, i), i)
    BY ProofRecomputes
  <2> QED
    BY <2>1, LeafOfRecomputed
<1> QED
  BY <1>1

\* The array before the tree is created, and from then on.
LEMMA Committed ==
  ASSUME IInv, Hashed
  PROVE  CommittedLeaves = IF Initialized THEN Current ELSE EmptyLeaves
<1>1. CASE Initialized
  <2>1. get_change_log(roll).root = build_root(Current) /\ Current \in [LeafIndices -> Nodes]
    BY <1>1 DEF Hashed, Matches
  <2> QED
    BY <1>1, <2>1, LeavesOfRoot DEF CommittedLeaves
<1> QED
  BY <1>1 DEF CommittedLeaves

\* The leaves that the new root commits to are those of the new version.
LEMMA CommittedNext ==
  ASSUME Hashed', Initialized'
  PROVE  CommittedLeaves' = Current'
<1>1. get_change_log(roll').root = build_root(Current') /\ Current' \in [LeafIndices -> Nodes]
  BY DEF Hashed, Matches
<1>2. CommittedLeaves' = [i \in LeafIndices |-> LeafOf(get_change_log(roll').root, i)]
  BY DEF CommittedLeaves
<1> QED
  BY <1>1, <1>2, LeavesOfRoot

\* A write that the roll accepts is a write of the array.
LEMMA ReturnsIsWrite ==
  ASSUME IInv, Hashed, Hashed', Initialized, NEW outcome, Effect(roll, outcome), Returns(outcome),
         outcome.res = "Ok" => Writes(roll, outcome.roll, Current)
  PROVE  [Array!ArrayNext]_(Array!arrayVars)
<1> DEFINE n == roll.rightmost_proof.index
<1>1. CASE outcome.res # "Ok"
  <2>1. roll' = roll
    BY <1>1 DEF Effect, Returns
  <2>2. CommittedLeaves' = CommittedLeaves
    BY <2>1 DEF CommittedLeaves, Initialized
  <2> QED
    BY <2>1, <2>2 DEF Array!arrayVars
<1>2. CASE outcome.res = "Ok"
  <2> DEFINE log == get_change_log(roll')
             j == log.index
             v == get_leaf(log)
             grown == add_leaf(Current, v, j)
  <2>1. Advances(roll, roll') /\ versions' = Append(versions, grown) /\ Writes(roll, roll', Current)
    BY <1>2 DEF Effect, Returns
  <2>2. Matches(roll, Current) /\ RollOK(roll') /\ RollOK(roll) /\ versions \in Seq([LeafIndices -> Nodes])
    BY <2>1 DEF Hashed, Advances, IInv, TypeOK
  <2>3. /\ Matches(roll', grown) /\ j \in LeafIndices /\ v \in Nodes
        /\ IF j < n THEN roll'.rightmost_proof.index = n
           ELSE j = n /\ roll'.rightmost_proof.index = n + 1
    BY <2>1, <2>2, WritesMatch
  <2>4. grown \in [LeafIndices -> Nodes]
    BY <2>3 DEF Matches
  <2>5. Current' = grown
    <3> HIDE DEF grown
    <3>1. Len(versions') = Len(versions) + 1 /\ versions'[Len(versions) + 1] = grown
      BY <2>1, <2>2, <2>4
    <3> QED
      BY <3>1 DEF Current
  <2>6. Initialized'
    BY <2>1, <2>2, BufferAssumption DEF Initialized, Advances, RollOK
  <2>7. CommittedLeaves = Current
    BY Committed
  <2> HIDE DEF log, j, v
  <2>8. CommittedLeaves' = [CommittedLeaves EXCEPT ![j] = v]
    BY <2>5, <2>6, <2>7, CommittedNext DEF add_leaf
  <2>9. j \in Array!Indices /\ j < 2^MAX_DEPTH
    BY <2>3, Capacity DEF LeafIndices, Array!Indices
  <2>10. CASE j < n
    <3>1. Array!Overwrite(j, v)
      BY <2>3, <2>8, <2>10 DEF Array!Overwrite
    <3> QED
      BY <2>3, <2>9, <3>1 DEF Array!ArrayNext
  <2>11. CASE ~(j < n)
    <3>1. j = n /\ roll'.rightmost_proof.index = n + 1
      BY <2>3, <2>11
    <3>2. Array!WriteNext(v)
      BY <2>8, <2>9, <3>1 DEF Array!WriteNext
    <3> QED
      BY <2>3, <3>2 DEF Array!ArrayNext
  <2> QED
    BY <2>10, <2>11
<1> QED
  BY <1>1, <1>2

\* Creating the tree from an off-chain one loads the array.
Loads(outcome, leaves) ==
  /\ ~Initialized
  /\ roll' = outcome.roll
  /\ versions' = IF outcome.res = "Ok" THEN <<leaves>> ELSE versions

\* A roll that starts from a root loads an array.
LEMMA InitializeWithRootIsLoad ==
  ASSUME IInv, Hashed, Hashed', NEW n \in Prefills, NEW leaf \in LeafNodes, NEW leaves \in Prefilled(n),
         NEW given, Loads(initialize_with_root(roll, build_root(leaves), leaf, given, n-1), leaves)
  PROVE  [Array!ArrayNext]_(Array!arrayVars)
<1> DEFINE o == initialize_with_root(roll, build_root(leaves), leaf, given, n-1)
<1>1. n \in 1 .. 2^MAX_DEPTH /\ n - 1 \in LeafIndices /\ leaves \in [LeafIndices -> Nodes] /\ RollOK(roll)
  BY BoundsAssumption, Capacity DEF LeafIndices, Prefilled, IInv, TypeOK
<1>2. ~Initialized /\ roll' = o.roll /\ versions' = IF o.res = "Ok" THEN <<leaves>> ELSE versions
  BY DEF Loads
<1>3. /\ o.res = "Ok" => RollOK(o.roll) /\ o.roll.buffer_size = 1
      /\ o.res # "Ok" => o.roll = roll
  BY <1>1, InitializeWithRootOK
<1>4. o.res = "Ok" => o.roll.rightmost_proof.index = n
  BY <1>1, InitializeWithRootMatches
<1> HIDE DEF o
<1>5. CASE o.res # "Ok"
  <2>1. roll' = roll
    BY <1>2, <1>3, <1>5
  <2> QED
    BY <2>1 DEF Array!arrayVars, CommittedLeaves, Initialized
<1>6. CASE o.res = "Ok"
  <2>1. Initialized' /\ roll'.rightmost_proof.index = n /\ versions' = <<leaves>>
    BY <1>2, <1>3, <1>4, <1>6 DEF Initialized
  <2>2. Current' = leaves
    BY <2>1 DEF Current
  <2>3. CommittedLeaves' = leaves
    BY <2>1, <2>2, CommittedNext
  <2>4. CommittedLeaves = EmptyLeaves /\ roll.rightmost_proof.index = 0
    BY <1>2 DEF CommittedLeaves, Hashed
  <2>5. \A i \in LeafIndices : i >= n => leaves[i] = EMPTY
    BY <1>1 DEF Prefilled, LeafIndices
  <2>6. Array!Indices = LeafIndices
    BY DEF Array!Indices, LeafIndices
  <2>7. Array!Unwritten
    BY <2>4, <2>6 DEF Array!Unwritten, EmptyLeaves
  <2>8. Array!Load(n, CommittedLeaves')
    BY <1>1, <2>1, <2>3, <2>5, <2>6, <2>7 DEF Array!Load
  <2> QED
    BY <1>1, <2>1, <2>8 DEF Array!ArrayNext
<1> QED
  BY <1>5, <1>6

\* Every step of the roll is a step of the array, or leaves it alone.
LEMMA NextIsArrayStep ==
  IInv /\ Hashed /\ Hashed' /\ [Next]_vars => [Array!ArrayNext]_(Array!arrayVars)
<1> SUFFICES ASSUME IInv, Hashed, Hashed', [Next]_vars PROVE [Array!ArrayNext]_(Array!arrayVars)
  OBVIOUS
<1>0. RollOK(roll) /\ (Initialized => Matches(roll, Current))
  BY DEF IInv, TypeOK, Hashed
<1>1. CASE Initialize
  <2>1. ~Initialized /\ versions' = <<EmptyLeaves>> /\ roll' = initialize(roll)
    BY <1>1 DEF Initialize
  <2>2. roll'.buffer_size = 1
    BY <1>0, <2>1, InitializeOK
  <2>3. roll'.rightmost_proof.index = 0
    BY <1>0, <2>1 DEF initialize, RollOK, DefaultPath
  <2>4. Initialized' /\ Current' = EmptyLeaves
    BY <2>1, <2>2 DEF Initialized, Current
  <2>5. CommittedLeaves' = EmptyLeaves
    BY <2>4, CommittedNext
  <2>6. CommittedLeaves = EmptyLeaves /\ roll.rightmost_proof.index = 0
    BY <2>1 DEF CommittedLeaves, Hashed
  <2> QED
    BY <2>3, <2>5, <2>6 DEF Array!arrayVars
<1>2. ASSUME NEW n \in Prefills, NEW leaf \in LeafNodes, NEW leaves \in Prefilled(n),
             InitializeWithRoot(n, leaves, leaf)
      PROVE  [Array!ArrayNext]_(Array!arrayVars)
  BY <1>2, InitializeWithRootIsLoad DEF InitializeWithRoot, Loads
<1>3. ASSUME NEW node \in Nodes, DoAppend(node)
      PROVE  [Array!ArrayNext]_(Array!arrayVars)
  <2>1. Initialized /\ Returns(append(roll, node)) /\ Matches(roll, Current)
    BY <1>0, <1>3 DEF DoAppend
  <2>2. Effect(roll, append(roll, node))
    BY <1>0, AppendEffect
  <2>3. append(roll, node).res = "Ok" => Writes(roll, append(roll, node).roll, Current)
    BY <2>1, AppendWrites
  <2> QED
    BY <2>1, <2>2, <2>3, ReturnsIsWrite
<1>4. ASSUME NEW t \in 1..Len(versions), NEW index \in LeafIndices, NEW m \in 0..MAX_DEPTH,
             NEW previous_leaf \in Nodes, NEW new_leaf \in Nodes,
             SetLeaf(t, index, previous_leaf, new_leaf, m)
      PROVE  [Array!ArrayNext]_(Array!arrayVars)
  <2> DEFINE o == set_leaf(roll, build_root(versions[t]), previous_leaf, new_leaf,
                           ProofVec(t, index, m), index)
  <2>1. Initialized /\ Returns(o) /\ Matches(roll, Current)
    BY <1>0, <1>4 DEF SetLeaf
  <2>2. Effect(roll, o)
    BY <1>0, SetLeafEffect
  <2>3. o.res = "Ok" => Writes(roll, o.roll, Current)
    BY <2>1, SetLeafWrites
  <2> QED
    BY <2>1, <2>2, <2>3, ReturnsIsWrite
<1>5. ASSUME NEW t \in 1..Len(versions), NEW index \in LeafIndices, NEW m \in 0..MAX_DEPTH,
             NEW leaf \in Nodes, FillEmptyOrAppend(t, index, leaf, m)
      PROVE  [Array!ArrayNext]_(Array!arrayVars)
  <2> DEFINE o == fill_empty_or_append(roll, build_root(versions[t]), leaf,
                                       ProofVec(t, index, m), index)
  <2>1. Initialized /\ Returns(o) /\ Matches(roll, Current)
    BY <1>0, <1>5 DEF FillEmptyOrAppend
  <2>2. Effect(roll, o)
    BY <1>0, FillEffect
  <2>3. o.res = "Ok" => Writes(roll, o.roll, Current)
    BY <2>1, FillWrites
  <2> QED
    BY <2>1, <2>2, <2>3, ReturnsIsWrite
<1>6. CASE UNCHANGED vars
  BY <1>6 DEF vars, Array!arrayVars, CommittedLeaves, Initialized
<1> QED
  BY <1>1, <1>2, <1>3, <1>4, <1>5, <1>6 DEF Next

\* The concurrent tree is an array of leaves filled from the left: whatever the
\* age of the proofs, each call that succeeds changes one leaf that was written
\* before, or the next one, and the root commits to exactly that array.
THEOREM ArrayIsImplemented == Spec => ImplementsLeafArray
<1>1. Init => Array!ArrayInit
  <2> SUFFICES ASSUME Init PROVE Array!ArrayInit
    OBVIOUS
  <2>1. ~Initialized /\ roll.rightmost_proof.index = 0
    BY DEF Init, new, DefaultPath, Initialized
  <2>2. Array!Indices = LeafIndices
    BY DEF Array!Indices, LeafIndices
  <2> QED
    BY <2>1, <2>2 DEF Array!ArrayInit, Array!Unwritten, CommittedLeaves, EmptyLeaves
<1> QED
  BY <1>1, NextIsArrayStep, HashedInvariant, PTL DEF Spec, ImplementsLeafArray, Array!ArraySpec
=============================================================================
