-------------------------------- MODULE Bow --------------------------------
(***************************************************************************)
(* rujira-bow with its one strategy, Xyk: liquidity providers deposit and  *)
(* withdraw two coins, and rujira-fin swaps one for the other at the       *)
(* quotes it was given. What the strategy counts and what the contract     *)
(* holds are kept apart here, as they are in the code.                     *)
(***************************************************************************)
EXTENDS Xyk

CONSTANTS
    Strategies,    \* what the strategy may be set to
    Amounts,       \* coins deposited, shares withdrawn
    Offers,        \* amounts swapped
    MinStep, MaxStep, MaxFee, MinMinQuote,   \* what validate accepts
    MaxMoves,      \* bound: executes
    MaxQuotes,     \* bound: quotes a caller asks for in a row
    MaxCoins,      \* bound: coins of each kind the contract holds
    MaxShares      \* bound: liquidity shares

ASSUME BowAssumptions ==
    /\ Amounts \subseteq Nat /\ Offers \subseteq Nat
    /\ MinStep \in Nat /\ MaxStep \in Nat /\ MaxFee \in 0 .. One
    /\ MinMinQuote \in Nat \ {0} /\ MaxQuotes \in Nat
    /\ \A s \in Strategies : s \in [step : Nat, minQuote : Nat, fee : Nat]

VARIABLES
    pool,        \* STORE of the strategy: x, y and shares
    bank,        \* the contract's balances of x and y
    supply,      \* bank supply of the liquidity token
    strategy,    \* Config::strategy
    drained,     \* history: what a withdrawal of all shares left in the state
    moves        \* history: executes so far

vars == <<pool, bank, supply, strategy, drained, moves>>

\* Xyk::validate
ValidStrategy(s) ==
    /\ MinStep <= s.step /\ s.step <= MaxStep
    /\ s.fee <= MaxFee
    /\ MinMinQuote <= s.minQuote

-----------------------------------------------------------------------------

Move == moves < MaxMoves /\ moves' = moves + 1

\* ExecuteMsg::Deposit. No token can be minted for nothing; a callback is sent
\* the same tokens.
Deposit(x, y) ==
    /\ x > 0 \/ y > 0
    /\ CanDeposit(pool)
    /\ \E minted \in {Minted(strategy, pool, x, y)} :
         /\ minted > 0 /\ pool.shares + minted <= MaxShares
         /\ supply' = supply + minted
    /\ bank.x + x <= MaxCoins /\ bank.y + y <= MaxCoins
    /\ bank' = [x |-> bank.x + x, y |-> bank.y + y]
    /\ pool' = Deposited(strategy, pool, x, y)
    /\ Move
    /\ UNCHANGED <<strategy, drained>>

\* ExecuteMsg::Withdraw. The bank has to have the coins, and sends at least one.
Withdraw(n) ==
    /\ n > 0 /\ n <= supply
    /\ \E paid \in {Withdrawn(pool, n)} :
         /\ paid.x > 0 \/ paid.y > 0
         /\ paid.x <= bank.x /\ paid.y <= bank.y
         /\ bank' = [x |-> bank.x - paid.x, y |-> bank.y - paid.y]
    /\ pool' = AfterWithdraw(pool, n)
    /\ supply' = supply - n
    /\ drained' = IF n = pool.shares THEN pool ELSE drained
    /\ Move
    /\ UNCHANGED strategy

\* ExecuteMsg::Swap as rujira-fin calls it, with coins of the pair: the caller
\* names what it wants, and gets that. The whole return leaves the state.
Turned(inverted, s) == IF inverted THEN Inverted(s) ELSE s

Swap(inverted, offer, ask) ==
    /\ offer > 0 /\ ask > 0
    /\ ValidSwap(strategy, Turned(inverted, pool), offer, ask)
    /\ pool' = Turned(inverted, Swapped(Turned(inverted, pool), offer))
    /\ LET from == IF inverted THEN bank.y ELSE bank.x
           to   == IF inverted THEN bank.x ELSE bank.y
       IN  /\ from + offer <= MaxCoins /\ ask <= to
           /\ bank' = IF inverted THEN [x |-> to - ask, y |-> from + offer]
                      ELSE [x |-> from + offer, y |-> to - ask]
    /\ Move
    /\ UNCHANGED <<supply, strategy, drained>>

\* SudoMsg::SetStrategy, for the same pair.
SetStrategy(s) ==
    /\ ValidStrategy(s)
    /\ strategy' = s
    /\ UNCHANGED <<pool, bank, supply, drained, moves>>

-----------------------------------------------------------------------------

Init ==
    /\ pool = EmptyState
    /\ bank = [x |-> 0, y |-> 0]
    /\ supply = 0
    /\ strategy \in {s \in Strategies : ValidStrategy(s)}
    /\ drained = EmptyState
    /\ moves = 0

\* The most a caller can ask for; asking for less leaves more in the bank.
Asked(inverted, offer) == Net(strategy, SwapReturn(Turned(inverted, pool), offer))

Next ==
    \/ \E x, y \in Amounts : Deposit(x, y)
    \/ \E n \in Amounts \cup {supply} : Withdraw(n)
    \/ \E inverted \in BOOLEAN, offer \in Offers :
         Swap(inverted, offer, Asked(inverted, offer))
    \/ \E s \in Strategies : SetStrategy(s)

Spec == Init /\ [][Next]_vars

-----------------------------------------------------------------------------
(* Quotes, and what rujira-fin makes of them                               *)
(* (testing/rujira-fin/src/market_maker.rs)                                *)

\* MarketMakerOffer::swap, for all of a quote and for a part of it.
WholeOffer(quote) == ToFloor(DecDiv(FromRatio(quote.size, 1), quote.price))

PartBought(quote, offer) == ToFloor(DecMul(FromRatio(offer, 1), quote.price))

\* n quotes in a row, each from the state the one before left, and what it
\* takes to fill all of them. A quote that is not given ends the row.
Quoted(from) ==
    LET row[n \in 0 .. MaxQuotes] ==
          IF n = 0
          THEN [state |-> from, offer |-> 0, ask |-> 0]
          ELSE LET last == row[n - 1]
               IN  IF HasQuote(strategy, last.state)
                   THEN LET q == Quote(strategy, last.state)
                        IN  [state |-> q.data,
                             offer |-> last.offer + WholeOffer(q),
                             ask   |-> last.ask + q.size]
                   ELSE last
    IN  row

-----------------------------------------------------------------------------
(* Properties                                                              *)

Reserves == [x : Nat, y : Nat, shares : Nat]

\* Every variable has its type; nothing ever goes below zero.
TypeOK ==
    /\ pool \in Reserves /\ drained \in Reserves
    /\ bank \in [x : Nat, y : Nat]
    /\ supply \in Nat /\ moves \in Nat
    /\ strategy \in Strategies /\ ValidStrategy(strategy)

\* What the strategy counts is there: the reserves are in the bank and the
\* shares are tokens, but for what the last withdrawal of all shares left
\* in the state. So until then every withdrawal and every swap can be paid.
Backed ==
    /\ pool.x <= bank.x + drained.x
    /\ pool.y <= bank.y + drained.y
    /\ pool.shares = supply + drained.shares

\* No step dilutes the liquidity shares: the root of k that belongs to a share
\* does not fall by a deposit of any shape, a withdrawal, a swap or a change
\* of the strategy, but for one unit of rounding.
SharesUndiluted ==
    [][pool.shares > 0 /\ pool'.shares > 0 =>
          (Isqrt(K(pool')) + 1) * pool.shares > Isqrt(K(pool)) * pool'.shares]_vars

\* Quotes are honoured: whoever takes any number of quotes in a row, and any
\* part of one more, can have all of it in one swap.
QuotesHonoured ==
    \A inverted \in BOOLEAN, n \in 0 .. MaxQuotes :
      \E row \in {Quoted(Turned(inverted, pool))[n]} :
        /\ ValidSwap(strategy, Turned(inverted, pool), row.offer, row.ask)
        /\ HasQuote(strategy, row.state) =>
             \E next \in {Quote(strategy, row.state)} :
               \A offer \in 0 .. QuoteOffer(strategy, row.state) :
                 ValidSwap(strategy, Turned(inverted, pool),
                           row.offer + offer, row.ask + PartBought(next, offer))

=============================================================================
