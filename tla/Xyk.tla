-------------------------------- MODULE Xyk --------------------------------
(***************************************************************************)
(* The constant-product strategy of rujira-bow                             *)
(* (packages/rujira-rs/src/interfaces/bow/xyk.rs), as operators. A state   *)
(* holds the reserves, turned so that x is offered and y asked for, and    *)
(* the liquidity shares; k is always x * y. A quote carries the state that *)
(* the next quote starts from.                                             *)
(***************************************************************************)
EXTENDS Decimals

States == [x : Nat, y : Nat, shares : Nat]

EmptyState == [x |-> 0, y |-> 0, shares |-> 0]

K(s) == s.x * s.y

\* XykState::invert
Inverted(s) == [x |-> s.y, y |-> s.x, shares |-> s.shares]

\* Uint256::isqrt
Isqrt(n) == CHOOSE r \in 0 .. n : r * r <= n /\ n < (r + 1) * (r + 1)

FractionOf(n, part) == (n * part) \div One

-----------------------------------------------------------------------------
(* XykState::swap                                                          *)

\* What is left of y: rounded up, in the digits of a Decimal256.
Left(s, offer) == ToCeil(FromRatio(K(s), s.x + offer))

SwapReturn(s, offer) == IF s.x = 0 THEN 0 ELSE s.y - Left(s, offer)

\* A mutant of Swapped: only what is paid out leaves the reserves.
SwappedNone(s, offer) == IF s.x = 0 THEN s ELSE [x |-> s.x + offer, y |-> s.y, shares |-> s.shares]

Swapped(s, offer) ==
    IF s.x = 0 THEN s
    ELSE [x |-> s.x + offer, y |-> Left(s, offer), shares |-> s.shares]

\* Its subtraction is defined and the product has not fallen (Underflow).
CanSwap(s, offer) == Left(s, offer) <= s.y /\ K(Swapped(s, offer)) >= K(s)

-----------------------------------------------------------------------------
(* Strategy for Xyk; a strategy is [step, minQuote, fee]                   *)

\* validate_swap: the fee is charged on the whole return.
Net(strategy, total) == total - FractionOf(total, strategy.fee)

ValidSwap(strategy, s, offer, ask) ==
    /\ s.x > 0 => CanSwap(s, offer)
    /\ Net(strategy, SwapReturn(s, offer)) >= ask

\* A mutant of QuoteFee: truncated like the fee of a swap.
QuoteFeeFloor(strategy, total) == FractionOf(total, strategy.fee)

\* One unit more than the truncated fee: several truncated fees may be less
\* than the fee of the sum.
QuoteFee(strategy, total) == FractionOf(total, strategy.fee) + 1

Price(s) == IF s.x = 0 THEN 0 ELSE FromRatio(s.y, s.x)

\* quote, which looks at no min_price: the part `step' of x is offered, at the
\* average price of all of it, less the fee.
QuoteOffer(strategy, s) == FractionOf(s.x, strategy.step)

QuoteTotal(strategy, s) == SwapReturn(s, QuoteOffer(strategy, s))

QuoteSize(strategy, s) == QuoteTotal(strategy, s) - QuoteFee(strategy, QuoteTotal(strategy, s))

QuotePrice(strategy, s) == FromRatio(QuoteSize(strategy, s), QuoteOffer(strategy, s))

HasQuote(strategy, s) ==
    /\ s.x > 0
    /\ CanSwap(s, QuoteOffer(strategy, s))
    /\ QuoteOffer(strategy, s) >= strategy.minQuote
    /\ QuoteTotal(strategy, s) >= strategy.minQuote
    /\ 0 < QuotePrice(strategy, s) /\ QuotePrice(strategy, s) < Price(s)

Quote(strategy, s) ==
    [price |-> QuotePrice(strategy, s),
     size  |-> QuoteSize(strategy, s),
     data  |-> Swapped(s, QuoteOffer(strategy, s))]

-----------------------------------------------------------------------------
(* deposit                                                                 *)

Added(s, x, y) == [x |-> s.x + x, y |-> s.y + y, shares |-> s.shares]

Smaller(a, b) == IF a <= b THEN a ELSE b

Balanced(s, x, y) == Smaller((x * s.shares) \div s.x, (y * s.shares) \div s.y)

\* A mutant of Issued: by what is brought of x alone.
IssuedByX(s, x, y) == (x * s.shares) \div s.x

\* Shares for the growth of the root of k.
Issued(s, x, y) == ((Isqrt(K(Added(s, x, y))) - Isqrt(K(s))) * s.shares) \div Isqrt(K(s))

\* Half the fee on what exceeds a balanced deposit.
ExcessFee(strategy, s, x, y) ==
    IF Issued(s, x, y) > Balanced(s, x, y)
    THEN FractionOf(Issued(s, x, y) - Balanced(s, x, y), strategy.fee) \div 2
    ELSE 0

Minted(strategy, s, x, y) ==
    IF s.shares = 0
    THEN Isqrt(x * y)
    ELSE Issued(s, x, y) - ExcessFee(strategy, s, x, y)

\* It divides by both reserves once there are shares.
CanDeposit(s) == s.shares > 0 => s.x > 0 /\ s.y > 0

Deposited(strategy, s, x, y) ==
    [x |-> s.x + x, y |-> s.y + y, shares |-> s.shares + Minted(strategy, s, x, y)]

-----------------------------------------------------------------------------
(* withdraw                                                                *)

PartOf(s, reserve, n) == (reserve * n) \div s.shares

Withdrawn(s, n) ==
    IF n = s.shares THEN [x |-> s.x, y |-> s.y]
    ELSE [x |-> PartOf(s, s.x, n), y |-> PartOf(s, s.y, n)]

\* A mutant of AfterWithdraw: the shares are taken off first.
AfterWithdrawShares(s, n) ==
    LET rest == s.shares - n
    IN  IF n = s.shares THEN s
        ELSE [x |-> s.x - (s.x * n) \div rest, y |-> s.y - (s.y * n) \div rest, shares |-> rest]

\* The last shares leave the state as it was.
AfterWithdraw(s, n) ==
    IF n = s.shares THEN s
    ELSE [x |-> s.x - PartOf(s, s.x, n), y |-> s.y - PartOf(s, s.y, n), shares |-> s.shares - n]

=============================================================================
