------------------------------- MODULE MCFin -------------------------------
EXTENDS Fin

CONSTANTS ann

\* With a tick of four digits the market maker's first quotes can be read and a
\* later one cannot.
MCConfigs ==
    {[tick |-> 2, feeTaker |-> 100, feeMaker |-> 50, maker |-> m] : m \in BOOLEAN}
    \cup {[tick |-> 4, feeTaker |-> 100, feeMaker |-> 50, maker |-> TRUE]}
MCStrategy == [step |-> 250, minQuote |-> 2, fee |-> 100]
MCProvisions == {<<20, 40>>}

\* At the bound there are no more transactions: with this, a deadlock is a
\* transaction that can go neither on nor back.
Rests == tx = Idle /\ txs = MaxTxs /\ UNCHANGED vars

MCSpec == Init /\ [][Next \/ Rests]_vars /\ Runs

=============================================================================
