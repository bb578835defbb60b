# Formal models of the NAMI contracts

TLA+ models of the NAMI index protocol, the TLC runs that check them on small
instances and TLAPS proofs about them for every instance. Paths are relative to
the repository (`src/` is its root here).

## 1. The system

NAMI sells index tokens. A user hands coins to an index contract and is minted
receipt tokens; the receipt tokens are burned for a share of the vault. Prices,
swaps, lending and market making come from the Rujira contracts, of which the
repository carries a test build.

| Component | State it keeps | Operations |
|---|---|---|
| `nami-index-fixed` | `CONFIG` (quote denom, fee collector), `FEE_MANAGER`, `ALLOCATIONS` (denom -> units per share); its bank balances; the supply of its receipt token | instantiate, Deposit, Withdraw, Callback, Run; sudo Reallocate, UpdateFees, AddAllocation, RemoveAllocation |
| `nami-index-nav` | the same, with `ALLOCATIONS` (denom -> target weight, oracle, threshold, slippage) | instantiate, Deposit, Withdraw, Run; sudo UpdateFees, UpdateAllocation |
| `FeeManager` (`nami-rs`) | rates, time of last accrual, high-water mark | validate, aum_fee, tx_fee, perf_fee |
| `AssetAllocation` (`nami-rs`) | none | snapshot, rebalance_msg, swap_msg |
| `nami-index-entry-adapter` | registry of indexes and of swap contracts; nothing between transactions | Deposit (swap, deposit, send back), Withdraw (redeem, swap, send), sudo add/remove |
| `nami-affiliate` | registry, fee limits; nothing between transactions | Execute (fee split, call on), Send, sudo |
| `rujira-fin` | `CONFIG`; `POOLS`, `BID_POOLS`, `SNAPSHOTS` by side and price, fixed or relative to an oracle; `ORDERS` by owner, side and price; its bank balances | instantiate, Swap, Order, Arb, DoSwap; sudo UpdateConfig |
| `bid_pool`, `Swapper`, `Arber`, `OrderManager` | a pool's total, sum, product and epoch; trades not yet committed | create, increase, retract, claim, distribute; swap; arb; execute orders |
| `rujira-ghost-vault`, `SharePool` | deposit pool, debt pool, borrowers and their limits, last interest accrual | Deposit, Withdraw (both with or without callback), Borrow, Repay; sudo AddBorrower, UpdateBorrower, UpdateInterest |
| `rujira-bow`, `Xyk` | reserves, k and shares of the strategy | Deposit, Withdraw, Swap; quotes; sudo SetStrategy |
| `AccountPool` | accounts, distributed sum | join, leave, claim, distribute |
| token factory, bank, message dispatch | balances and supplies, message stack | mint, burn, send; depth-first execution, revert |

**How they interact.** A transaction runs one handler; the handler returns
messages, which run depth first and in order, each with the storage and bank
balances left by the one before it; a failing message undoes the transaction.
The indexes call the token factory (mint, burn), the bank (send) and FIN
(`Swap`, with an optional callback into the caller), and themselves (`Run`).
FIN calls itself (`Arb`, then `DoSwap`), its market makers, and the callback.
The adapter and the affiliate call whatever contract a user names, and
themselves. Contracts share no memory but read each other's balances and the
oracle price of the block.

**What is hard here.** Not threads: transactions are serial. It is (a) handlers
that decide on a snapshot of balances, supply or a simulated swap and emit
messages that act later, after other messages have changed what was read;
(b) callbacks that may not come; (c) rounding, in the favour of the vault or of
the user, repeated by every step of a long sequence; (d) fees accrued by every
execute, several times within one transaction; (e) whole-transaction reverts
that make one impossible step block an operation.

**What makes each component correct.**
- *fixed index*: the vault covers the stored weights of all shares; every
  holder can leave; no step of another holder lowers what a share stands for,
  but for the AUM fee; withdrawals are pro rata.
- *NAV index*: a deposit or a withdrawal does not lower the value per share of
  the others but by rounding; a withdrawal pays no more than the value burned.
- *fees*: what is minted over any split of the time into accruals stays within a
  unit per accrual of the annual rate; the performance fee is charged once per
  gain.
- *entry adapter, affiliate*: nothing is kept, whatever the swaps return;
  `min_return` holds at the end (but see section 5); the fee and the net amount add up.
- *order book*: bids and claims are backed in both coins after any swap,
  arbitrage or order; a pool trades at its price; the market maker accepts what
  is asked of it; every transaction ends.
- *ghost vault*: deposits are covered by coins and debt; tokens are covered by
  shares; no step costs those who stay more than rounding.
- *market maker*: reserves and shares are backed; nobody's step dilutes the
  others; whatever was quoted can be had.

`PROJECT.json` lists the hazards, line by line, with the properties that
catch them.

## 2. Modules

```
Decimals <- FeeManager <- IndexFixed <- IndexFixedProofs        (theorems)
                          IndexFixed <- IndexFixedMessages      (refines IndexFixed)
  IndexFixedMessages, IndexFixedProofs <- IndexFixedMessagesProofs  (theorems)
                          IndexFixed <- EntryAdapter            (composed with IndexFixed)
        EntryAdapter, IndexFixedProofs <- EntryAdapterProofs    (theorems)
                       <- IndexNav <- IndexNavProofs            (theorems)
         <- SharePool <- GhostVault <- GhostVaultProofs         (theorems)
         <- Xyk <- Bow <- BowProofs                             (theorems)
Decimals, ScaledDecimals <- BidPools <- BidPool
                  BidPools, Xyk <- Fin                          (the book with its market maker)
                                   Fin <- FinProofs             (theorems)
Affiliate <- AffiliateProofs                                    (theorems)
```

| Module | Models | Grain |
|---|---|---|
| `Decimals` | the roundings of `cosmwasm_std::Decimal` that the contracts use | operators |
| `FeeManager` | `nami-rs/src/fee_manager.rs`: rates, AUM fee, exit fee, performance fee | operators |
| `IndexFixed` | `nami-index-fixed`, every execute and sudo message | one action per transaction |
| `IndexFixedMessages` | the same contract, its messages delivered one by one, with reverts | one action per message |
| `IndexNav` | `nami-index-nav` and `AssetAllocation` | one action per transaction |
| `EntryAdapter` | `nami-index-entry-adapter` in front of a fixed index | one action per message of the adapter |
| `Affiliate` | `nami-affiliate` in front of any contract | one action per message |
| `ScaledDecimals` | `rujira-rs/src/decimal_scaled.rs`: numbers that keep digits and scale and lose digits when full | operators |
| `BidPools` | `rujira-rs/src/bid_pool`: pools, bids, their snapshots | operators |
| `BidPool` | one price of the order book over many swaps: FIN's `Pool`, `Order` and `OrderManager` | one action per order or swap |
| `Xyk` | `rujira-rs/src/interfaces/bow/xyk.rs`: the constant-product strategy and its quotes | operators |
| `Bow` | `rujira-bow`, every execute and sudo message, and what FIN makes of its quotes | one action per transaction |
| `Fin` | `rujira-fin`, every execute and sudo message, with `rujira-rs/src/exchange`, its market maker being a `Bow` | one action per order, per round of `Arber`, per trade of `Swapper`, with reverts |
| `SharePool` | `rujira-rs/src/share_pool.rs` | operators |
| `GhostVault` | `rujira-ghost-vault`, every execute and sudo message, on two `SharePool`s | one action per transaction |
| `*Proofs` | theorems about `IndexFixed`, `IndexFixedMessages`, `IndexNav`, `EntryAdapter`, `Affiliate`, `GhostVault`, `Bow` and `Fin` | |
| `MC*` | values of the constants for TLC | |

**A transaction is an action; a failure is no action.** A handler and all the
messages it emits commit together or not at all, and transactions do not
overlap. `IndexFixed` and `IndexNav` use this: an action holds the guards of
every message of the transaction (the bank refuses what is not there and what is
nothing, the token factory does not mint zero, FIN checks `min_return`), and a
transaction that fails is an action that is not enabled. That this is sound for
the fixed index is checked, not assumed: `IndexFixedMessages` takes each
transaction apart into handler, messages, callback, nested `Run` and revert, and
the property `ImplementsTransactions` (an `INSTANCE` of `IndexFixed` whose
variables are the committed state) says that what it commits are the actions of
`IndexFixed`. The check has found one difference in a bound of the coarse model,
which was corrected.

### How state and actions correspond to the code

| Variable | Code |
|---|---|
| `listed`, `weight` (fixed) | keys and weights of `ALLOCATIONS` (`vault.rs`) |
| `alloc` (NAV) | `ALLOCATIONS` of the NAV index, as `AssetAllocation` records |
| `vault` | bank balances of the contract |
| `supply`, `shares` | bank supply and balances of the receipt token |
| `rates`, `elapsed` | `FeeManager::rates`, and the seconds since `last_accrual_time` |
| `collector` | `Config::fee_collector` |
| `price` | what `Oracle::price` of a coin returns in this block |
| `stale` | history only: denoms sold by a reallocation that was never called back, and not rebalanced since |
| `stack`/`queue`, `saved`/`before` | the messages still to run, and what a revert restores |
| `held`, `wallet` | balances of the contract itself in the middle of a transaction |
| `registered` | keys of `swap_contracts` of the adapter |
| `whitelist` (affiliate) | `WHITELIST`, the contracts a fee may be charged for |
| `maxBps`, `bank` (affiliate) | the highest rate of `CONFIG`; the balances of the chain |
| `due`, `allowed`, `earned`, `calls` (affiliate) | history only: the share of what was attached that the rates asked for, the same at the highest rate, fees paid, number of calls |
| `pool`, `orders` (bid pool) | `BID_POOLS` with its `SNAPSHOTS`, and `ORDERS`, of FIN at one side and price |
| `offers` | coins of swaps that FIN holds for the owners of the orders |
| `put`, `got`, `swaps`, `visits` | history only: what owners brought and claimed, and how often pool and order were changed |

| `book`, `orders` (FIN) | `BID_POOLS` with `SNAPSHOTS`, and `ORDERS`, by side and price; `paid`: history, what takers paid a pool. `POOLS` is the set of keys whose pool has bids |
| `bank`, `maker`, `oracle`, `config` (FIN) | the contract's balances, named by the side a coin is bid on; the market maker's reserves; the price `oracles` gives; `CONFIG` |
| `tx`, `saved` (FIN) | the transaction under way: what `OrderManager`, `Arber` or `Swapper` hold, and what a revert restores |
| `pool`, `supply`, `bank`, `strategy` (market maker) | `XykState`, the supply of the share token, the balances, `STORE`'s strategy |
| `depositPool`, `debtPool`, `elapsed`, `interest` (ghost vault) | `State`; the time since the last accrual; the interest curve |
| `borrowers`, `coins`, `receipts`, `debts` (ghost vault) | `BORROWERS`; the vault's coins; who holds receipt and debt tokens, whose bank supplies are `supply` |

Actions have the names of the messages: `Deposit`, `Withdraw`, `Run`,
`Reallocate` (with its callback and second leg), `ReallocateUnanswered` (FIN has
nothing to give back and does not call back), `UpdateFees`, `AddAllocation`,
`RemoveAllocation`, `UpdateAllocation`; `ThenDeposit`, `ThenSwap` and `ThenSend`
are the adapter's calls to itself. In `Fin`, `BeginOrders`, `NewOrder`, `VisitOrder`
and `EndOrders` are the message `Order`; `BeginSwap`, the message `Swap`; `Round`
and `EndArb`, the message `Arb` that both send; `SwapNext` and `EndSwap`, the
`DoSwap` that follows. The environment moves prices and time,
transfers receipt tokens and sends coins to the vault. PROJECT.json maps every
definition to its lines.

### What is abstracted

- **FIN** is whatever its `DoSwap` can do as seen by the caller: it returns any
  of `Returns`, leaves any of `Leftovers` unfilled, returns nothing if it filled
  nothing, refuses below `min_return`, and calls back only when it has funds to
  give back. Its book is not in the models of the indexes and the adapter; it
  is the subject of `Fin`.
- **The contract the affiliate calls** keeps, gives back or refuses whatever it
  likes, in any coin, but does not call the affiliate again.
- **One price of the book.** `BidPool` has one side and one price, with a rate
  chosen at each swap from `Rates` (one rate: a fixed price; several: one that
  follows an oracle). The fees are in `Fin`, not here. `Fin` has all prices and
  both sides, for fewer swaps.
- **The rows of FIN.** `swap_iter` joins three iterators that are read as they are
  consumed; nothing they read changes while they are, so a row is computed at once.
  Trades change `book` when they are made, where the code changes copies and stores
  them at the end: no one reads storage in between, and a failure restores it.
  The market maker is asked at the end, as in the code.
- **The market maker of FIN** is a `Bow` that nobody else uses during the run of
  `Fin` (`Provisions`, in `Init`); `Bow` by itself has depositors, withdrawals and
  changes of strategy. Callbacks are left to the contracts that ask for them.
- **Prices with fewer digits than the tick**, for which `do_truncate` subtracts below
  zero: an order at such a price fails (the guard in `OnTick`), and a row breaks off at such
  a quote (`Broken`), which fails the transaction that reads on to it and no other, since
  the row is read item by item and one quote ahead (`MergeNext`).
- **Digits of a price**: `do_truncate` counts them, and a `Decimal` has at most 39
  (`PriceDigits`, 9 in the run). Powers of ten and the digits of a number are recursive
  functions up to such a bound, not recursive operators, so that one can prove about them.
- **The swap of `Bow`** compares amounts only, as FIN asks for the coin on the other
  side of the pair.
- **Digits.** `ScaledDecimals` has `Base`, `Places` and `Digits`: 10, 24 and 77 in
  the code, 10, 2 and 4 in `bid_pool`, 10, 3 and 4 in `fin`. It cuts digits where the code does.
- **Fixed point**: `One` is 10^18 in the code and 4 in the runs; `Year` is
  31 557 600 seconds and 2 in the runs. The formulas and their roundings are
  those of the code, the theorems hold for every `One` and `Year`.
- **Time** advances in whole seconds, as `aum_fee` counts them.
- **Users' wallets** of other coins are unlimited; what a user attaches is any
  value of `Amounts`.
- **Order of messages to different pairs** inside one NAV withdrawal does not
  matter (they spend different coins); in a NAV `Run` it does, and the quote is
  followed trade by trade in key order (`QuoteAfter`).
- Nobody sends receipt tokens to an index, or coins to the adapter, outside a
  call: what arrives that way is nobody's.
- 128-bit overflow is out of scope: amounts are bounded far below it, and an
  overflow fails the transaction.

## 3. Runs

Every passing run is exhaustive within its bounds. Every bound is a constant
that appears in a guard (`MaxElapsed`, `MaxSupply`, `MaxBalance`, `MaxCalls`,
`MaxSwaps`, `MaxVisits`, `MaxCoins`, `MaxSize`, `MaxShares`, `MaxMoves`, `MaxTxs`,
`MaxItems`, `MaxQuotes`); there is no state constraint.

| Run | Question |
|---|---|
| `fixed` | holders, fees, donations, rounding, reallocations in all their outcomes: is everything covered, can everyone leave, is nobody diluted? Weights of 2 and deposits of 2 and 3 make every rounding happen |
| `fixed_messages` | do whole transactions behave as the coarse model says; what can revert one; does each end; is anything left behind? |
| `nav` | deposits, withdrawals, `Run`, price moves and new allocations: is value per share kept, are targets not passed, can a holder get the quote that is there? Prices double and halve; weights are quarters |
| `adapter` | chains of messages over a fixed index whose other users and governance step between them, every swap partly filled, empty or refused; a registry that changes |
| `affiliate` | calls with and without a referrer, two coins at a time, with rates, whitelist and stray coins that change between calls: are fees fair over any sequence, is everything covered, is nothing left? |
| `bid_pool` | two owners and up to four swaps of one price, whole, partial or worth nothing: is every bid and every claim backed, can everyone get out, also of pools whose sum and product have no digits to spare? Does each swap pay each owner at the price, as far as the digits can note it? |
| `fin` | orders on both sides at a fixed and an oracle price, a market maker whose quotes fall on the same rates, swaps either way, an oracle and a configuration that change: does each transaction end, does none fail over a split, a quote or a payment; is each pool traded at its price and everything backed? |
| `bow` | deposits of any shape, withdrawals down to the last share, swaps both ways, strategies that change, rows of up to three quotes and a part: is the strategy backed, is nobody diluted, is what was quoted accepted? |
| `ghost_vault` | a lender and a borrower, with and without callbacks, two interest curves (one of them never validated): are deposits covered, do pools count all tokens, is anyone's share worth less for what others do? |
| `nav_slippage`, `bid_pool_incremented`, `ghost_utilization` | one statement of the documentation or of the code each, which TLC finds violated (section 5) |

*Why the bounds are enough.* Two denoms besides the quote are the least with
which a minimum over denoms, a share of a remainder and a reallocation from one
to another mean something; two accounts (a holder and the collector) are the
least for dilution and the fees' effect on others, and no handler looks at more
than one account besides the collector. Supplies of 2 to 4 and weights up to 5
make floors and ceilings differ from exact values at every place. `One` = 4 has
rates of a quarter (rounded up to whole tokens) and a half. The runs of the
message-level models keep one user; what they ask is about the messages of one
transaction. For the fixed index, the affiliate, the ghost vault and the market
maker the theorems remove the bounds.

`bid_pool` has two owners, the least that share a pool, and orders of seven, so
that shares do not come out even and two swaps of 13 leave one bid of seven. In the
code sums and products have 77 digits and a ratio 24 places, so that the fourth or
fifth partial swap of an epoch cuts digits off; with four digits and two places it is
the third, and the run's four swaps see pools with all their digits, pools that have
lost some, swaps that are refused, full swaps that pay
nothing, and orders locked in by them. An order can be partly filled, be used up and miss the next
epoch with fewer swaps. What the run may not change is that a ratio has more places
than orders have digits, and that claims fit in the digits left (below 10^53 in the
code, 100 in the run). It was also made with five swaps, with three
visits, with orders of three sizes, and at rates of 1, 1.25, 1.5, and 0.5 and 1.5 in
turn, up to some hundred thousand states: the properties hold there too.

`fin` has reserves of 20 and 40 and a tick of two digits, so that the market maker
quotes 1.4 on the quote side and 3.4 on the base side: with an oracle at 1.4 an
item of a row joins a fixed pool, an oracle pool and a quote, with one at 3.4 the
two sides cross and `Arber` runs several rounds. A third configuration has a tick of
four digits, at which the first quotes can be read and a later one cannot (`Broken`):
swaps that stop before it go through, and others fail when they come to it. Three transactions are an order
or two, a change of the oracle, and a swap that finds what arbitrage left.
One owner has the orders of all prices; owners share nothing but pools, and two
of them in one pool are the subject of `bid_pool`. The run was also made with a
second owner, and with a second fixed price: the properties hold there too (some
hundred thousand states), only more slowly.

`ghost_vault` counts in quarters and lets pools grow to five, which is enough for
shares worth more than a coin, fractions that are taken by the last to leave,
repayments above what is owed, and a utilization at and beyond the target. `bow`
has strategies whose step and fee are far above the code's limits (constants of
the model), so that reserves of 50 still have three quotes with fees.

*Symmetry* is used over the two denoms of the fixed index only: their names are
compared with nothing, and no liveness is checked in that run.

*Deadlock* is checked everywhere but in `bid_pool`, where `MaxSwaps` and
`MaxVisits` bound how long a history is: the code has no such limits, and a
behaviour of the model ends at them. `fin` has a bound like it; there `MCFin` lets
a behaviour rest at the bound between transactions (`Rests`), so that a deadlock
would be a transaction that can go neither on nor back.

*Fairness.* Safety runs need none. `TxSpec` and `AdapterSpec` have weak fairness
of `Deliver \/ Revert`: a node that has begun a transaction delivers its next
message or fails it, and does so without being scheduled by anyone; users,
governance, time and FIN's results get no fairness. `Settles` rests on it: the
contract's calls to itself (`Run`, `Then`) end. `Fin` has the same for the steps of
a transaction, `Proceed`, written out (`Runs`): one of them is enabled throughout a
transaction, as the check for deadlock shows, and TLC evaluates `ENABLED` of steps
with so much arithmetic too slowly. An owner who has begun a list of orders gets
no fairness for adding another; `EndOrders` ends it.

### What the properties say

*Fixed index.* `Covered`: the stored weights of all shares are in the vault.
`Redeemable`: any part of a holding whose net shares are worth a unit of
something can be withdrawn, in every reachable state: it passes every guard of the
handler and of the messages it sends (`MayWithdraw`, which is the guard of `Withdraw`).
`KeepsWeight`: no step lowers what a share stands for below the dilution by the
AUM fee of that step, but for the one denom of which a step that burns no share sold
some, no more than a reallocation may, and which keeps every target the sale did not
go below (`Sold`). `PaysProRata`: a withdrawal is paid its share
of each listed balance, never more, less by at most a unit per share.
`OnlySwapsFail`: a message finds what the handler
that sent it counted on. `NothingHeld`, `Settles`, `ImplementsTransactions`.

*NAV index.* `KeepsValue`: at unchanged prices the vault is worth at least the
old value per share for every share but the AUM fee of the step, less what the
slippage of the traded allocations allows. `RunsTowardsTarget`: what `Run` sells
keeps its target value and what it spends is what the buys are short of.
`TargetsAffordable`: targets never add up to more than the whole. `ExitFromQuote`:
a withdrawal that the quote covers passes every guard (`MayLeave`) whatever slippage
is asked for.

*Adapter.* `NothingKept`: no coin and no receipt token stays with the adapter.
`Affordable`: a message is covered when its turn comes, not only when it was
sent. `ExactDeposit`: the adapter's count of shares is the index's, and not a
unit of the deposit is left to the index. `Settles`.

*Affiliate.* `FairFees`: over any sequence of calls, however the amounts are split,
a referrer is paid the rates' share of what was attached, never more and less by
under a unit for each fee. `Covered`: fee and payment to the called contract are
there when their turn comes. `Emptied`: a call that commits leaves nothing behind.

*Bid pool.* `BidsBacked`, `ClaimsBacked`: what all owners would find if they came by
now, bids not used and claims together, is in the pool and was paid by swaps.
`NotLocked`: no step makes bringing an order up to date panic (a sum below the order's
own, a divisor that has lost its digits), however long its owner stayed away, but for a
swap that does not raise the sum. `PaidInFull` is about steps too: what a swap uses of an
owner's bid it pays at the price, to within a unit rounded off and one lost with the digits,
whoever came by before, and a visit changes nobody's bid and claim but
by what is claimed, retracted or added; this is what the order of snapshots and the
end of an epoch can get wrong. It has one exception, which it names: a swap that the
digits of the pool's sum and product do not note to within half a coin (`Noted`). Both
exceptions are real: `Incremented`, which they come from, is violated (section 5).

*FIN.* `Backed`: whatever owners could take back and claim is in the balance, in both
coins, after any transaction: the market maker, arbitrage, takers and fees have had
only theirs. `AtItsPrice`: every step of a swap or of arbitrage trades each pool it
touches at the pool's price or better for its owners, but for the last digit of the
division by the price on the quote side, and at most a unit of either coin away. `Honoured`: no split divides by zero, the market maker accepts what was
put together from rounds and parts of quotes, on both sides one after the other,
and no payment is short of coins. A transaction still fails for its own `min_return`,
where a bid pool has no digits left to note its part (`CanFill`), where an oracle price is so low that a pool of the base
side has a rate of zero (`pool.rs:187`), and where it reads a quote with fewer digits than
the tick (`tick.rs:34`). `Settles`: `Arber`'s rounds and `Swapper`'s trades end.

*Market maker.* `Backed`: reserves and shares of the strategy are coins and tokens,
but for what a withdrawal of all shares leaves in the state. `QuotesHonoured`: any
number of quotes in a row and any part of the next are accepted as one swap.
`SharesUndiluted`: no step takes more than a unit of the root of k from those who
stay.

*Ghost vault.* `Solvent`: what deposits are worth is in the vault or owed to it.
`TokensCovered`: a pool never counts fewer tokens than there are. `NotBelowPar`: a
token is never worth less than a coin, on which withdrawals with a callback rely.
`SharesKeepWorth`: no step costs those who stay more than one token's part.

Each property of a passing run has a mutant: an operator next to the definition
it replaces, whose comment says what bug it stands for (`RebalancedUp`,
`FullOfferFloor`, `BurnAndPayGross`, `NoMinReturn`, `ResidueAll`...). The
specifications do not use them.

## 4. Proofs

`IndexFixedProofs` proves, for every value of the constants that meets
`OneAssumption`, `YearAssumption` and `FixedAssumptions` (amounts and bounds are
natural numbers, the quote is no listed denom, the collector is an account):

| Theorem | Statement |
|---|---|
| `TypeCorrect` | `Spec => []TypeOK`: no balance, weight or supply goes below zero |
| `AlwaysCovered` | `Spec => []Covered` |
| `WeightsKept` | `Spec => KeepsWeight` |
| `WithdrawalsProRata` | `Spec => PaysProRata` |
| `HoldersCanLeave` | `Spec => []Redeemable` |

*The argument.* `IInv == TypeOK /\ Covered` is inductive: `TypeOK` alone is not,
since that a payout and a burn stay above zero needs the weights to be covered.
Every action that changes the supply or a listed balance ends in a rebalance over
the new supply, and floor division makes the result covered (`RebalanceCovers`);
the others leave weights and supply alone and balances no smaller, except
`ReallocateUnanswered`, which is why `Covered` excepts `stale`. `KeepsWeight`
then follows from two facts about floors: a diluted weight times the new supply is
at most the old weight times the old one (`DilutedBounds`), and a rebalance keeps
any number of units the balance covers (`RebalancedAtLeast`). A deposit adds at
least its shares times the weight, a withdrawal takes exactly the weight of the
shares it burns. The lemmas on `\div` are stated once and cited. `Redeemable` asks
more than coverage: the burn must find its tokens after the accrual has minted more,
so it needs what all accounts hold to be the supply (`Held`, counted token by
token as below), and a payout of each coin must be there and not all be nothing.

`IndexFixedMessagesProofs` proves of the same contract, its messages delivered one
by one, for every value of the constants that meets the same assumptions:

| Theorem | Statement |
|---|---|
| `Implements` | `TxSpec => ImplementsTransactions`: what is committed are the transactions of `IndexFixed` |
| `FailuresAreSwaps` | `TxSpec => []OnlySwapsFail` |
| `KeepsNoToken` | `TxSpec => []NothingHeld` |
| `TokensAccounted` | every receipt token in circulation has a holder: `TxSpec => []Accounted` |
| `TxInvariant` | `TxSpec => []TxInv` |

*The argument.* The abstract state is what a revert would restore: the current state
between transactions, `saved` within one. So every message but the last maps to a
stutter, a revert too, and it is the last message that has to be shown to be an action
of `IndexFixed`: for each kind of transaction, the state in front of each of its
messages is given as a function of `saved` (its stage), and a message takes a stage to the
next one. Why an execute does not fail unless a swap does is a matter of counting:
a burn must find its tokens, so what all accounts hold must add up to the supply.
A sum over accounts is recursive; `Accounted` counts the set of pairs of an account
and the number of one of its tokens instead, which set theory can reason about
(`CreditCounts`, `DebitCounts`).

`EntryAdapterProofs` proves of the adapter composed with the index, for every value of
the constants that meets those assumptions and `AdapterAssumptions` (there are finitely
many denoms, the fee collectors are users, and the adapter is not one):

| Theorem | Statement |
|---|---|
| `AdapterInvariant` | `AdapterSpec => []AdapterInv` |
| `IndexCovered` | `AdapterSpec => []Covered`: the index's invariant, with the adapter as a user |
| `KeepsNothing` | `AdapterSpec => []NothingKept` |
| `DepositsExact` | `AdapterSpec => []ExactDeposit` |
| `PaysItsWay` | `AdapterSpec => []Affordable` |

*The argument.* In the middle of a transaction the adapter's wallet is not empty, and
what is true of it depends on what is still to run. `AdapterInv` tells the stage of the
transaction from the queue: buying (the quote in the wallet covers the spending of all
swaps that remain), depositing (the wallet holds what the deposit asks for),
selling (every sale that remains is of a different denom and is covered by itself),
leaving (the index tokens have been received), paid. `Share` and `SetToSeq` are `CHOOSE`s;
that the least member exists and that the sequence lists each coin once is what needs
finitely many denoms. A failure restores `before`, so the invariant says of `before`
what it says of an idle adapter; the collector must be a user, since an accrual of the
index would leave fee tokens with an adapter that collects. The theorems of
`IndexFixedProofs` on single actions are cited for the calls of the index.

`IndexNavProofs` proves, for every value of the constants that meets `OneAssumption`,
`YearAssumption` and `NavAssumptions` (the denoms are numbered, the inputs are natural
numbers, a list of targets is a sequence of targets, a collector is an account):

| Theorem | Statement |
|---|---|
| `NavInvariant` | `Spec => []NavInv` |
| `TypeCorrect` | `Spec => []TypeOK` |
| `AlwaysAffordable` | `Spec => []TargetsAffordable` |
| `TokensAccounted` | every receipt token has a holder: `Spec => []Counts(shares, supply)` |
| `ValueKeptByAll` | `Spec => KeepsValue` |
| `TowardsByAll` | `Spec => RunsTowardsTarget` |
| `QuoteLetsOut` | `Spec => []ExitFromQuote` |

*The argument.* `NavInv` is the two invariants together with two facts that neither
states: the tokens of all holders are the supply, without which burning the shares of a
withdrawal could take the supply below zero, and no saved slippage is above one, without
which what a trade must return is no natural number. Tokens are counted as in
`IndexFixedMessagesProofs`. The values are sums over the listed coins in key order.
The lemmas `Recursion` and `UptoSteps` say that a sum grows from one coin to the next
by the part of that coin; what is needed of a whole sum is then said of a function of the
coin that is not negative at zero and stays so (`StaysUp`, which takes the least coin
where it would not): `TotalMoves` compares the value of the vault before and after a
step with an account of what the step takes, coin by coin. For a withdrawal that
account is what `Rest` has already handed out, never more than the whole as each
share is at most one (`SellBounds`), so that all that is paid is worth no more
than `ExitValue`. For a `Run` it is the quote between two trades at the oracle's
price together with the losses so far: a trade that closes a gap loses at most the
slippage of the gap, an atomic and a unit of what it buys (`TradeValue`). A list that
names a coin twice is summed by entry but saved by coin; the sum over
entries is no less than the sum over coins of all their entries (`WeightsAddUp`), of which
the saved entry is one (`SavedAffordable`). `TowardsTarget` is the
other side of the same bounds: an offer is worth no more than its gap (`OfferBounds`).
`ExitFromQuote` holds because `Rest` is taken from the quote first: what is left to
sell of the other coins is zero, so that no trade is asked for (`QuoteCovers`).

`AffiliateProofs` proves, for every value of the constants of `Affiliate`:

| Theorem | Statement |
|---|---|
| `TypeCorrect` | `Spec => []TypeOK` |
| `AlwaysCovered` | `Spec => []Covered` |
| `FeesFair` | `Spec => []FairFees` |
| `NothingLeft` | `Spec => Emptied` |

*The argument.* What is true of the balances depends on which messages are still to
run, so the inductive invariant `IInv` speaks of the queue: it is one of a few
shapes (payments first, then the call, then the contract's call to itself), the
payments still in it are covered by the balance all together, and the fees paid
so far and still pending are fair (`Fair` with `Pending`). A revert needs the
state it restores to be as good, which is the conjunct `Restorable`. That a fee
and its net amount make up what was attached, and that a fee is within a unit of its
share, are lemmas on `\div`.

`GhostVaultProofs` proves, for every value of the constants of `GhostVault`, with no
bound on a probe or a curve but that they are natural numbers:

| Theorem | Statement |
|---|---|
| `TypeCorrect` | `Spec => []TypeOK` |
| `LendersCovered` | `Spec => []Solvent` |
| `AllTokensCovered` | `Spec => []TokensCovered` |
| `NeverBelowPar` | `Spec => []NotBelowPar` |
| `WorthKept` | `Spec => SharesKeepWorth` |

*The argument.* Each pool goes through `Grown`, `Joined` and `Left`; for each of the
three there are lemmas that it keeps types, that tokens stay covered, that a pool
stays at par (what is issued is at most what is paid in, and what leaves is at most
its part), and that worth is kept. The invariant is the conjunction of the first
four, proved together: par is needed to show that a withdrawal with a callback leaves
the vault solvent, and types to subtract at all. Worth is proved of each step from that
invariant; it composes over the two steps of a transaction, interest first.

`BowProofs` proves, for every value of the constants of `Bow` that meets
`BowAssumptions` (the least `min_quote` that `validate` accepts is not zero; it is 1000 in
the code):

| Theorem | Statement |
|---|---|
| `TypeCorrect` | `Spec => []TypeOK` |
| `AlwaysBacked` | `Spec => []Backed` |
| `NeverDiluted` | `Spec => SharesUndiluted` |
| `Honours` | `Spec => [](QuotesCounted => QuotesHonoured)` |

*The argument.* A swap does not lower k (the ceiling in `Left`), a deposit issues at
most the growth of the truncated root, a withdrawal rounds each part down. The root is
a `CHOOSE`; that it exists and is the only one is what the lemmas on `Isqrt` take from
its definition. `Backed` needs, of a withdrawal of all shares, that what it leaves in
the state is no more than the history `drained` says.

A row of quotes is a recursive function, so what it amounts to is an invariant of the row
(`RowOf`, kept by one more quote in `RowGrows`, and by the least row that
breaks it in `QuotedRows`): whoever takes the quotes offers at least what their swaps
take (`WholeOfferEnough`), k has not fallen, and the sizes asked for are less than the
return after a fee that is charged once, since each quote's fee is rounded up by
one (`QuoteParts`). A part of the next quote is paid for because the return of a
constant product is concave: a part of the offer brings at least that part of the
return (`PartPaid`), less a unit that the same rounding covers. What is left for a swap is
that it finds the least reserve that keeps k (`LeftAtMost`, `LeftKeeps`), and this is
where `QuotesCounted` comes in: the reserve and all that is offered to it are at most
10^18. Above that, `Decimal256::from_ratio(k, x)` can lose the last fraction of a unit,
`to_uint_ceil` then leaves one coin too few, and the swap is refused though each of
its quotes was given. In the run `One` is 1000 and no reserve with its offers comes near.

`FinProofs` proves of the order book, for every value of the constants that meets
`OneAssumption`, `ScaledAssumptions` (a base above one, and more digits than decimal
places) and `FinAssumptions` (finitely many prices and premiums, premiums that do not take
off more than the oracle's whole price, a market maker as `validate` accepts it, and natural
numbers for whatever an order, a swap, an oracle or a configuration says):

| Theorem | Statement |
|---|---|
| `FinInvariant` | `Spec => []IInv` |
| `TypeCorrect` | `Spec => []TypeOK`: no balance, pool, order or reserve goes below zero |
| `TradesAtPrice` | `Spec => AtItsPrice` |
| `SplitsAreDefined` | `Spec => []SplitsDefined`: of `Honoured`, what it says of splits, but for one case on the base side |

*The argument.* Almost every number of the book is the result of a subtraction that is
only defined because of where the amounts came from, so `IInv` says where they came
from. Each pool is one on which a sync, a claim and a trade are defined: it has a
snapshot of every sum and product of every epoch it has closed (`GoodPools`); an item of
a row is made of distinct pools of the side it is on, or of quotes with the parts they
may be split in, at the item's rate; the transaction has what its phase needs; and what
a failure goes back to is as good as what there is. A scaled decimal that loses digits
stays one (`AddType` and the lemmas around it), whatever it loses. A row is a merge of
three sorted lists by a loop; what the loop keeps is said of every prefix
(`Throughout`), and that a recursive definition is what it says it is comes from
`Recursion`, for functions over an interval. A trade takes an item in full or in part.
In full, a pool is paid its total at the rate, rounded up (`WholePrice`), which is no more
than what was offered as the offer is worth the whole. In part, the offer is split over
the item's pools by their totals, and each gives what its part is worth, rounded down
(`PartPrice`); that this is less than the pool has is what keeps the pool's new product,
its old one times one less the part taken, defined (`RestDefined`, whatever digits
were cut). On the quote side a pool trades at its price, and what the division of its total
by the price cuts off is the last digit that `AtItsPrice` allows; on the base side it trades at
the inverse, and as a price times its inverse is at most one, the owners get the price in
full. A round of arbitrage is two trades, each of which changes pools of its own side only
(`RoundTrades`).

That no split divides by zero needs more than `IInv`: how long an item that was traded
before can be split. A row as it is read has no pool twice (`RowOffered`), so a trade
leaves every item but the first as it was (`Waiting`, `RowsInv`), and an item that nobody
traded has bids in all its pools (`FreshSplits`). The first may be traded again and again.
All its pools are at its rate, the offer is split by the totals, and what is split between
two amounts that are both used up was worth both (`BothUsedUp`); so the pools are not used
up before a quote that is no worse than their rate (`QuoteFirst`), and an item that has
anything left can be split (`KeepsSplit`). The quotes of the quote side are no worse: their
rate is the price, rounded down to a tick (`MakerRate`). On the base side a rate is the
inverse of a price, in digits, and the inverse of that rate may be above the price by what
was cut off (a price just under 2 is at a rate of 1/2, where pools trade at 2): there two
pools could be used up before the quote, of amounts large enough to tell the two apart, and
`SplitsDefined` leaves that item out.

*Only model-checked*:
- liveness (`Settles`), of which the provers installed show nothing;
- `BidsBacked`, `ClaimsBacked` and `PaidInFull` of `BidPool`, and `Backed` of `Fin`: each
  compares one pool with a sum over its owners, of numbers that are products of all
  swaps since each came, with digits cut off;
- `NotLocked`: it is not true of every value of the constants. A sum at the limit of its
  digits gives up a digit to hold the next one, and is less than the sum an order
  noted before if what is added is less than that digit;
- the rest of `Honoured`: what it says of payments rests on `Backed`, and what it says of
  the market maker on `QuotesCounted` (see `Bow`); of splits, the one case that
  `SplitsDefined` leaves out;
- `QuotesHonoured` for reserves above 10^18 of a coin's smallest unit, of which it is not
  true.

## 5. Where code and documentation differ

`PROJECT.json` lists three with their lines and the runs that show them: a
withdrawal from the NAV index that has to sell several coins leaves part of the
value unsold; a swap of a whole bid pool can take its bids and pay nothing for them; and a
ghost vault can lend more than its deposits are worth, after a repayment above what
was owed, which `Utilization` has no value for.

Of the second, `pool.rs:103` says that bids are not filled if the sum is not
incremented, and `distribute_partial` sees to it; `distribute_full` (lines 80 to 99) does
not look. It needs no pool that is worn out as the one of `test_scaling`. Once a product
has all its digits, four or five partial swaps into an epoch, it does not fit when it is
multiplied with an offer per bid of one digit; `Mul` then cuts a digit of both, and the
one digit is gone. Worked out with the code's own sizes: of ten million bids at a rate
of 1/8, swaps of 5, 8, 6, 5 and 9 million leave 5 875 000 bids; a swap of 47 million
takes them all, and their owners find nothing to claim for them. With two or three digits
they find too little. The sum can even become less, since `map_equalised` cuts it when it has
more than 77 places: of 389 142 550 bids at a rate of 50, after swaps of 228 582, 939 650,
316 700 and 181 363, a swap of the rest lowers the sum by its last digits, and an order
placed or brought up to date before that swap panics in `sync_bid` ever after, so that it can be
neither claimed nor retracted.

Others are in the models without a run of their own, each an action or an operator
that does what the code does:

- The first leg of a reallocation has no `min_return` (`FirstLeg`), of which the fixed
  index's README, line 52, says it has; one that returns nothing is never called back
  (`ReallocateUnanswered`, `stale`), where line 70 says it is finalized.
- `UpdateFees` restarts the accrual period without charging what is due; line 82 has
  the fee calculated on every interaction.
- A deposit of a fixed index need not match the proportions exactly (`DepositShare`;
  line 68 says so), the excess being left to the vault.
- A coin listed twice in a list of NAV allocations passes the check that weights add
  up to one and keeps its last weight.
- The adapter holds `min_return` against each balance by itself, and against none when no
  balance is left (`DoThenSend`), where line 44 of its README says that the amount returned
  meets it.
- A swap with `Bow` takes its whole return off the reserves and pays it less the fee:
  the fee stays in the balance and in no reserve (`Swapped`, `Backed`). The test at
  `xyk.rs:705`, named for a fee captured in k, compares with `>=` and passes without.
- After arbitrage the two sides of the book may still cross, by rates at which small
  amounts are rounded to no profit: `Arber` stops at the first such pair.

## 6. Plan

Done: the modules of section 2, with theorems about `IndexFixed`, its refinement
`IndexFixedMessages`, `IndexNav`, `EntryAdapter`, `Affiliate`, `GhostVault`, `Bow` and `Fin`. Next,
in this order:

1. Theorems: the rest of `Honoured`, from an account of what each owner has in a pool; bounds of
   `FeeManager`.
2. The swap that `IndexFixed`, `IndexNav` and `EntryAdapter` assume, shown to be one
   `Fin` can make.
3. `FeeAccrual`: an exact account of the AUM fee over any split of the time into
   accruals, as an abstract specification the fee manager is compared with.
4. `AccountPool`, once a contract of the repository uses it.

## 7. Not modelled

Queries (they change nothing); events, attributes and metadata of tokens;
migrations; generated protobuf code (a quarter of the lines), schemas, scripts and
test harnesses; message types and interfaces of contracts that are not in the
repository. Oracles are queries of the chain: their prices are inputs of `IndexNav`
and `Fin`. `AccountPool` is a library that no contract of the repository calls, so
that the order of its calls, on which its own comments make its results depend, is
not in the code. The performance fee is defined in `FeeManager` and charged by no
contract. A market maker's strategy for another pair than FIN's, and callbacks, whose
receivers may be any contract, are left out of `Bow` and `Fin`.
