----------------------------- MODULE MCMerkleRoll -----------------------------
EXTENDS MerkleRoll, TLC

Symmetry == Permutations(Leaf)
=============================================================================
