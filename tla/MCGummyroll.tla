----------------------------- MODULE MCGummyroll -----------------------------
EXTENDS Gummyroll, TLC

Symmetry == Permutations(Leaf) \cup Permutations(Key)
=============================================================================
