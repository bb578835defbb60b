----------------------------- MODULE MCBidPool -----------------------------
EXTENDS BidPool

CONSTANTS alice, bob

=============================================================================
