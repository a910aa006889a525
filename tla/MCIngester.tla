----------------------------- MODULE MCIngester -----------------------------
EXTENDS Ingester, TLC

CONSTANTS alice, bob, image

Symmetric == Permutations(Wallet)
=============================================================================
