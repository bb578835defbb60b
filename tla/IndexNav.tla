------------------------------ MODULE IndexNav ------------------------------
(***************************************************************************)
(* The value-based index (contracts/nami-index-nav, with AssetAllocation   *)
(* of packages/nami-rs) at the grain of transactions. A receipt token      *)
(* stands for a share of the value of the vault at oracle prices: deposits *)
(* and withdrawals are in the quote denom, and Run trades the vault back   *)
(* towards its target weights. As in IndexFixed, an action is a whole      *)
(* transaction and a failing transaction is an action that is not enabled. *)
(***************************************************************************)
EXTENDS FeeManager, FiniteSets, FiniteSetsExt, Sequences

CONSTANTS
    N,            \* the number of denominations besides the quote denom
    Accounts,     \* holders of the receipt token
    Collectors,   \* the accounts that may be the fee collector
    Prices,       \* the prices the oracle of each coin may report, in atomics
    TargetLists,  \* target_allocation of instantiate and of UpdateAllocation
    Amounts,      \* amounts of quote that are deposited, or sent to the vault
    Slippages,    \* Withdraw::slippage, in atomics; One when there is none
    Returns,      \* amounts a FIN swap may return
    Leftovers,    \* parts of an offer a FIN swap may leave unfilled
    RateChoices,  \* fee rates that instantiate and UpdateFees may ask for
    MaxElapsed,   \* bound: seconds without an accrual
    MaxSupply,    \* bound: receipt tokens in circulation
    MaxBalance    \* bound: units of one coin in the vault

Quote  == 0        \* Config::quote_denom
Denoms == 1 .. N   \* in the order of the keys of ALLOCATIONS
Coins  == 0 .. N

\* AssetAllocation, but for the oracle and the swap contract: every denom has
\* one pair with the quote denom, and the quote denom has none.
Targets == [denom : Coins, weight : Nat, threshold : Nat, slippage : Nat]

ASSUME NavAssumptions ==
    /\ N \in Nat
    /\ Collectors \subseteq Accounts
    /\ Prices \in [Coins -> SUBSET Nat]
    /\ Amounts \subseteq Nat /\ Slippages \subseteq Nat
    /\ Returns \subseteq Nat /\ Leftovers \subseteq Nat
    /\ RateChoices \subseteq FeeRates
    /\ TargetLists \subseteq Seq(Targets)
    /\ MaxElapsed \in Nat /\ MaxSupply \in Nat /\ MaxBalance \in Nat

VARIABLES
    alloc,      \* ALLOCATIONS: the target of every listed coin
    vault,      \* bank balances of the contract, per coin
    price,      \* what the oracle of each coin reports
    supply,     \* bank supply of the receipt token
    shares,     \* bank balances of the receipt token, per account
    rates,      \* FeeManager::rates
    elapsed,    \* seconds between FeeManager::last_accrual_time and now
    collector   \* Config::fee_collector

vars == <<alloc, vault, price, supply, shares, rates, elapsed, collector>>

TypeOK ==
    /\ DOMAIN alloc \subseteq Coins /\ Quote \in DOMAIN alloc
    /\ \A c \in DOMAIN alloc : alloc[c] \in Targets /\ alloc[c].denom = c
    /\ vault \in [Coins -> Nat]
    /\ price \in [Coins -> Nat]
    /\ supply \in Nat
    /\ shares \in [Accounts -> Nat]
    /\ rates \in FeeRates
    /\ elapsed \in Nat
    /\ collector \in Accounts

-----------------------------------------------------------------------------
(* Values. They are Decimals: atomics of the currency the oracles quote.   *)

Others == DOMAIN alloc \ {Quote}

\* AssetAllocation::snapshot fails for a coin without a price, and every
\* execute but an empty one takes the snapshots of all listed coins.
Priced == \A c \in DOMAIN alloc : price[c] > 0

\* The parts f has for some of 0 .. n, added up in that order: the order of
\* the keys of ALLOCATIONS, or of a list of targets.
Upto(f, n) ==
    LET upto[c \in 0 .. n] == (IF c = 0 THEN 0 ELSE upto[c - 1])
                               + (IF c \in DOMAIN f THEN f[c] ELSE 0)
    IN  upto
Sum(f) == Upto(f, N)[N]

Value(c) == DecMul(FromRatio(vault[c], 1), price[c])
Total    == Sum([c \in DOMAIN alloc |-> Value(c)])

\* Vault::nav, on the balances as they were before any attached coins. The
\* AUM fee that is due is not in the supply yet.
Nav == IF supply = 0 THEN price[Quote] ELSE DecDiv(Total, FromRatio(supply, 1))

Units(value, unitPrice) == ToFloor(DecDiv(value, unitPrice))
Worth(amount, unitPrice) == ToFloor(DecMul(FromRatio(amount, 1), unitPrice))

AumDue == AumFee(rates.management, elapsed, supply)

Credit(f, a, n) == [f EXCEPT ![a] = @ + n]

Fits(balance) == \A c \in Coins : balance[c] <= MaxBalance

\* Every execute ends by minting the AUM fee, over the supply before it.
Accrue(minted, burned, holders) ==
    /\ supply + minted + AumDue <= MaxSupply
    /\ supply' = supply + minted - burned + AumDue
    /\ shares' = Credit(holders, collector, AumDue)
    /\ elapsed' = 0

-----------------------------------------------------------------------------
(* execute Deposit and Withdraw                                            *)

\* The shares x units of quote buy.
Minted(x) == Units(DecMul(FromRatio(x, 1), price[Quote]), Nav)

Deposit(u, x) ==
    /\ Priced
    /\ x > 0 /\ Nav > 0
    /\ Minted(x) > 0
    /\ vault' = Credit(vault, Quote, x)
    /\ Fits(vault')
    /\ Accrue(Minted(x), 0, Credit(shares, u, Minted(x)))
    /\ UNCHANGED <<alloc, price, rates, collector>>

\* What a withdrawal of s receipt tokens is worth, in currency and in quote.
NetShares(s)  == s - TxFee(rates.transaction, s)
ExitValue(s)  == Worth(NetShares(s), Nav)
ExitAmount(s) == Units(FromRatio(ExitValue(s), 1), price[Quote])

\* The least quote the user accepts: min_amount.
LeastAmount(s, slippage) == Worth(ExitAmount(s), One - slippage)

\* The quote that is there is sent at once.
SendQuote(s) == Min({ExitAmount(s), vault[Quote]})

\* A mutant of Remaining: what is sent at once is not taken off.
RemainingOfAll(s) == Worth(ExitAmount(s), price[Quote])

\* The rest, in currency, is to come from selling the others.
Remaining(s) == Worth(ExitAmount(s) - SendQuote(s), price[Quote])

OthersWeight == Sum([d \in Others |-> alloc[d].weight])
ShareOf(d)   == DecDiv(alloc[d].weight, OthersWeight)

\* try_fold over the others: each takes its share of what the ones before it
\* left. Rest(s)[d] is what is left after d.
Rest(s) ==
    LET rest[d \in Coins] ==
            IF d = 0 THEN Remaining(s)
            ELSE IF d \in Others THEN rest[d - 1] - Worth(rest[d - 1], ShareOf(d))
            ELSE rest[d - 1]
    IN  rest

\* The value d is to bring in, and the units of d to sell for it.
Part(s, d)     == Rest(s)[d - 1] - Rest(s)[d]
SellUnits(s, d) == Units(FromRatio(Part(s, d), 1), price[d])
Sellers(s)     == {d \in Others : Part(s, d) > 0}

\* min_return of the swap of d: its part, less its share of what the slippage
\* lets the whole withdrawal lose.
SwapMinReturn(s, slippage, d) ==
    LET inQuote == Units(FromRatio(Part(s, d), 1), price[Quote])
        maxLoss == Worth(ExitAmount(s) - LeastAmount(s, slippage), ShareOf(d))
    IN  Max({inQuote - maxLoss, 0})

\* A mutant of MayPay: a swap may offer more than there is.
MayOversell(s, slippage, returned) ==
    /\ slippage <= One
    /\ SendQuote(s) > 0
    /\ \A d \in Sellers(s) : 0 < SellUnits(s, d)

\* Vault::withdraw. FIN sends what each swap returns to the user. A bank send
\* of no quote at all is refused, and so is a swap of nothing.
MayPay(s, slippage, returned) ==
    /\ slippage <= One
    /\ SendQuote(s) > 0
    /\ IF Remaining(s) = 0
       THEN SendQuote(s) >= LeastAmount(s, slippage)
       ELSE /\ Others # {} => OthersWeight > 0
            /\ \A d \in Sellers(s) :
                   /\ 0 < SellUnits(s, d) /\ SellUnits(s, d) <= vault[d]
                   /\ returned[d] >= SwapMinReturn(s, slippage, d)

\* The coins that leave the vault.
PaidOut(s) ==
    [c \in Coins |->
        IF ExitValue(s) = 0 THEN 0
        ELSE IF c = Quote THEN SendQuote(s)
        ELSE IF Remaining(s) > 0 /\ c \in Sellers(s) THEN SellUnits(s, c)
        ELSE 0]

\* What a withdrawal of s receipt tokens asks of the state and of FIN.
MayLeave(u, s, slippage, returned) ==
    /\ Priced
    /\ s > 0 /\ s <= shares[u] /\ TxFee(rates.transaction, s) <= s
    /\ ExitValue(s) > 0 => MayPay(s, slippage, returned)
    /\ supply + AumDue <= MaxSupply

Withdraw(u, s, slippage, returned) ==
    /\ MayLeave(u, s, slippage, returned)
    /\ LET paid == PaidOut(s) IN vault' = [c \in Coins |-> vault[c] - paid[c]]
    /\ Accrue(0, NetShares(s),
              Credit([shares EXCEPT ![u] = @ - s], collector,
                     TxFee(rates.transaction, s)))
    /\ UNCHANGED <<alloc, price, rates, collector>>

-----------------------------------------------------------------------------
(* execute Run                                                             *)

TargetValue(d) == DecMul(Total, alloc[d].weight)
Above(d)       == Value(d) > TargetValue(d)
Gap(d)         == IF Above(d) THEN Value(d) - TargetValue(d) ELSE TargetValue(d) - Value(d)

\* A mutant of Offer: the price of the other leg.
OfferAtOtherPrice(d) == Units(Gap(d), IF Above(d) THEN price[Quote] ELSE price[d])

\* What AssetAllocation::rebalance_msg offers: units of d when there is too
\* much of it, of quote when there is too little.
Offer(d) == Units(Gap(d), IF Above(d) THEN price[d] ELSE price[Quote])

\* The others that are out of their band and whose offer the vault can make.
\* Every buy is held against all the quote there was before Run.
Trades ==
    {d \in Others :
        /\ Gap(d) > DecMul(TargetValue(d), alloc[d].threshold)
        /\ Offer(d) > 0
        /\ Offer(d) <= (IF Above(d) THEN vault[d] ELSE vault[Quote])}

\* A mutant of TradeMinReturn: FIN may return anything.
NoMinReturn(d) == 0

\* min_return of the trade in d, in the coin it buys.
TradeMinReturn(d) ==
    Units(DecMul(Gap(d), One - alloc[d].slippage),
          IF Above(d) THEN price[Quote] ELSE price[d])

\* The quote in the vault after the trades up to d: they run in key order.
QuoteAfter(trades, returned, unfilled) ==
    Upto([d \in {Quote} \cup trades |->
             IF d = Quote THEN vault[Quote]
             ELSE IF Above(d) THEN returned[d]
             ELSE unfilled[d] - Offer(d)], N)

\* FIN fills each offer as far as its book goes and gives back the rest.
MayTrade(d, returned, unfilled) ==
    /\ unfilled <= Offer(d)
    /\ unfilled = Offer(d) => returned = 0
    /\ returned >= TradeMinReturn(d)

Run(returned, unfilled) ==
    LET trades == Trades
        quote  == QuoteAfter(trades, returned, unfilled)
    IN  /\ Priced
        /\ \A d \in trades : /\ MayTrade(d, returned[d], unfilled[d])
                             /\ Above(d) \/ Offer(d) <= quote[d - 1]
        /\ vault' = [c \in Coins |->
                        IF c = Quote THEN quote[N]
                        ELSE IF c \notin trades THEN vault[c]
                        ELSE IF Above(c) THEN vault[c] - Offer(c) + unfilled[c]
                        ELSE vault[c] + returned[c]]
        /\ Fits(vault')
        /\ Accrue(0, 0, shares)
        /\ UNCHANGED <<alloc, price, rates, collector>>

-----------------------------------------------------------------------------
(* instantiate and sudo                                                    *)

\* The checks on a list as a whole, and on each entry: slippage is strictly
\* between zero and one. (An entry without a swap contract is the quote's.)
ValidList(list) ==
    /\ Upto([i \in DOMAIN list |-> list[i].weight], Len(list))[Len(list)] = One
    /\ Cardinality({i \in DOMAIN list : list[i].denom = Quote}) = 1
    /\ \A i \in DOMAIN list : 0 < list[i].slippage /\ list[i].slippage < One

\* ALLOCATIONS after the entries are saved one by one: of two for one denom
\* the last one stays.
Saved(list) ==
    [c \in {list[i].denom : i \in DOMAIN list} |->
        list[Max({i \in DOMAIN list : list[i].denom = c})]]

\* A mutant of NewAlloc: what is not in the list is left where it is.
NewAllocKeepsOld(list) ==
    [c \in DOMAIN alloc \cup DOMAIN Saved(list) |->
        IF c \in DOMAIN Saved(list) THEN Saved(list)[c] ELSE alloc[c]]

\* Vault::update_allocations removes what is not in the list, then saves it.
NewAlloc(list) == Saved(list)

\* Vault::remove_allocation
Removable(d) == vault[d] = 0

UpdateAllocation(list) ==
    /\ ValidList(list)
    /\ \A d \in Others \ DOMAIN Saved(list) : Removable(d)
    /\ alloc' = NewAlloc(list)
    /\ UNCHANGED <<vault, price, supply, shares, rates, elapsed, collector>>

UpdateFees(r, c) ==
    /\ ValidRates(r)
    /\ rates' = r
    /\ collector' = c
    /\ elapsed' = 0
    /\ UNCHANGED <<alloc, vault, price, supply, shares>>

Init ==
    /\ \E list \in TargetLists : ValidList(list) /\ alloc = Saved(list)
    /\ vault = [c \in Coins |-> 0]
    /\ price \in {p \in [Coins -> UNION {Prices[c] : c \in Coins}] :
                    \A c \in Coins : p[c] \in Prices[c]}
    /\ supply = 0
    /\ shares = [a \in Accounts |-> 0]
    /\ rates \in {r \in RateChoices : ValidRates(r)}
    /\ elapsed = 0
    /\ collector \in Collectors

-----------------------------------------------------------------------------
(* The environment                                                         *)

\* The price of a coin moves between two transactions.
PriceMoves(c, p) ==
    /\ price' = [price EXCEPT ![c] = p]
    /\ UNCHANGED <<alloc, vault, supply, shares, rates, elapsed, collector>>

\* Anyone may send coins to the contract's address.
Donate(c, x) ==
    /\ x > 0
    /\ vault' = Credit(vault, c, x)
    /\ Fits(vault')
    /\ UNCHANGED <<alloc, price, supply, shares, rates, elapsed, collector>>

Transfer(a, b, s) ==
    /\ s > 0 /\ s <= shares[a]
    /\ shares' = Credit([shares EXCEPT ![a] = @ - s], b, s)
    /\ UNCHANGED <<alloc, vault, price, supply, rates, elapsed, collector>>

Tick ==
    /\ elapsed < MaxElapsed
    /\ elapsed' = elapsed + 1
    /\ UNCHANGED <<alloc, vault, price, supply, shares, rates, collector>>

-----------------------------------------------------------------------------

UserStep ==
    \/ \E u \in Accounts, x \in Amounts : Deposit(u, x)
    \/ /\ Priced
       /\ \E u \in Accounts, s \in 1 .. MaxSupply, slippage \in Slippages :
              \E returned \in [Sellers(s) -> Returns] :
                  Withdraw(u, s, slippage, returned)
    \/ /\ Priced
       /\ \E returned \in [Trades -> Returns], unfilled \in [Trades -> Leftovers] :
              Run(returned, unfilled)

SudoStep ==
    \/ \E list \in TargetLists : UpdateAllocation(list)
    \/ \E r \in RateChoices, c \in Collectors : UpdateFees(r, c)

Next ==
    \/ UserStep
    \/ SudoStep
    \/ \E c \in Coins : \E p \in Prices[c] : PriceMoves(c, p)
    \/ \E c \in Coins, x \in Amounts : Donate(c, x)
    \/ \E a, b \in Accounts, s \in 1 .. MaxSupply : Transfer(a, b, s)
    \/ Tick

Spec == Init /\ [][Next]_vars

-----------------------------------------------------------------------------
(* Properties                                                              *)

\* What the trades of one Run may lose at the oracle's prices: the slippage of
\* each allocation on the gap it trades, and the last unit bought.
TradingLoss ==
    Sum([d \in Trades |-> DecMul(Gap(d), alloc[d].slippage) + 1
                          + (IF Above(d) THEN price[Quote] ELSE price[d])])

\* No transaction takes from the value per share of those who stay, whoever
\* acts: at unchanged prices the vault is worth Nav for every share but the
\* AUM fee of the step. Deposits do not buy below Nav, withdrawals are not
\* paid above it, and Run loses no more than the slippage it was given.
KeepsValueStep ==
    supply > 0 /\ price' = price /\ Priced =>
        LET burnsNothing == supply' = supply + AumDue
        IN  Total' + (IF burnsNothing THEN TradingLoss ELSE 0)
                >= (supply' - AumDue) * Nav

KeepsValue == [][KeepsValueStep]_vars

\* Run moves towards the targets and not past them: what it sells keeps its
\* target value, and the quote it spends is what the buys are short of.
TowardsTarget ==
    LET short == Sum([d \in Others |-> IF Above(d) THEN 0 ELSE Gap(d)])
    IN  vault' # vault /\ supply' = supply + AumDue /\ price' = price /\ alloc' = alloc =>
            /\ \A d \in Others :
                   vault'[d] < vault[d] => vault'[d] * price[d] >= TargetValue(d)
            /\ vault'[Quote] * price[Quote] + short >= Value(Quote)

RunsTowardsTarget == [][TowardsTarget]_vars

\* The targets can all be met: the weights add up to no more than one, so
\* that Run never asks for more value than there is.
TargetsAffordable == Sum([c \in DOMAIN alloc |-> alloc[c].weight]) <= One

\* A holder whose withdrawal is covered by the quote in the vault gets out,
\* whatever slippage up to all of it is asked for, and asks nothing of FIN.
ExitFromQuote ==
    \A u \in Accounts : \A s \in 1 .. shares[u] :
        /\ Priced /\ supply + AumDue <= MaxSupply
        /\ 0 < ExitAmount(s) /\ ExitAmount(s) <= vault[Quote]
        => \A slippage \in Slippages :
               slippage <= One => MayLeave(u, s, slippage, <<>>)

-----------------------------------------------------------------------------
(* What the documentation says of the contract and the code does not do.   *)

\* README.md:31 "Swaps underlying assets to `quote_denom` with the specified
\* slippage tolerance.": the user gets no less than that below the amount,
\* give or take a unit of rounding for each of the other coins.
ExitWithinSlippage ==
    [][\A u \in Accounts, s \in 1 .. MaxSupply, slippage \in Slippages :
           \A returned \in [Sellers(s) -> Returns] :
               Withdraw(u, s, slippage, returned) =>
                   PaidOut(s)[Quote] + Sum(returned)
                       + Cardinality(Others)
                       >= LeastAmount(s, slippage)]_vars

=============================================================================
