------------------------------- MODULE MCBow -------------------------------
EXTENDS Bow

\* Decimals of a thousandth. Steps and fees are far above the code's, so that
\* small reserves have several quotes with fees above one unit; the last two
\* are refused.
MCStrategies == {[step |-> 250, minQuote |-> 2, fee |-> 300],
                 [step |-> 400, minQuote |-> 2, fee |-> 0],
                 [step |-> 100, minQuote |-> 1, fee |-> 0],
                 [step |-> 100, minQuote |-> 2, fee |-> 600]}

=============================================================================
