--------------------------- MODULE MCGumballMachine ---------------------------
EXTENDS GumballMachine

TwoByteLines == {<<1, 2>>, <<3, 4>>}
=============================================================================
