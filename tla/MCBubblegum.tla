----------------------------- MODULE MCBubblegum -----------------------------
EXTENDS Bubblegum, TLC

CONSTANTS slab1, alice, bob, carol, art

Original == [creators |-> art, token_program_version |-> "Original"]

Token2022 == [creators |-> art, token_program_version |-> "Token2022"]

BothVersions == {Original, Token2022}

Symmetric == Permutations(Key)
=============================================================================
