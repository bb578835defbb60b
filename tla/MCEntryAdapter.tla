--------------------------- MODULE MCEntryAdapter ---------------------------
EXTENDS EntryAdapter

CONSTANTS a, b, q, alice, adapter

SomeFees == [management |-> 2, transaction |-> 1]
MCRates  == {SomeFees}

Entry(d, n, min) == [denom |-> d, amount |-> n, minReturn |-> min]

\* One coin of two, both, both with a limit, the same coin twice, and lists
\* that are refused: the quote itself, and nothing.
MCSwapLists == {<<Entry(a, 1, 0)>>, <<Entry(a, 1, 0), Entry(b, 1, 0)>>,
                <<Entry(a, 1, 1), Entry(b, 2, 1)>>, <<Entry(a, 1, 0), Entry(a, 1, 0)>>,
                <<Entry(q, 1, 0)>>, <<>>}

=============================================================================
