----------------------------- MODULE MCSugarShack -----------------------------
EXTENDS SugarShack, TLC

CONSTANTS slab1, alice, bob, dana

\* Two creators, one of whom trades as well; the seller keeps the rest.
Original == [creators |-> <<[address |-> dana, share |-> 10], [address |-> bob, share |-> 45]>>,
             token_program_version |-> "Original"]

\* Creators who ask for more than there is.
Greedy == [Original EXCEPT !.creators = <<[address |-> dana, share |-> 56], [address |-> bob, share |-> 45]>>]

TwoMetadata == {Original, Greedy}

AllKeys == Wallet \cup {dana} \cup {ListingDelegate(price) : price \in Price}
=============================================================================
