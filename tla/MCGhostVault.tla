---------------------------- MODULE MCGhostVault ----------------------------
EXTENDS GhostVault

CONSTANTS vault, l1, b1

\* Decimals of a quarter: a curve that charges at any utilization and steeply
\* beyond the target, and one that instantiate would refuse and sudo does not.
MCCurves == {[target |-> 2, base |-> 2, step1 |-> 4, step2 |-> 8],
             [target |-> 0, base |-> 1, step1 |-> 0, step2 |-> 0]}

=============================================================================
