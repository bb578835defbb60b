---------------------------- MODULE MCAffiliate ----------------------------
EXTENDS Affiliate

CONSTANTS q, r, alice, bob, index, contract

\* alice brings three of q; the called contract has receipts r to give; bob is
\* the affiliate that is paid.
MCSupply == [h \in Holders |->
                [c \in Coins |-> CASE h = alice /\ c = q -> 3
                                  [] h = index /\ c = r -> 1
                                  [] OTHER -> 0]]

\* Two coins at once, or one.
MCGifts == {x \in [Coins -> {0, 1, 3}] : x[r] <= 1 /\ x[q] + x[r] <= 3}

=============================================================================
