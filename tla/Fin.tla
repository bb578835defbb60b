-------------------------------- MODULE Fin --------------------------------
(***************************************************************************)
(* rujira-fin: an order book of bid pools at fixed and at oracle prices,   *)
(* with rujira-bow as its market maker. A transaction changes orders or    *)
(* brings a swap; either way the contract then calls itself to trade its   *)
(* two sides against each other (Arber), and a swap goes last (Swapper).   *)
(* Each order, each round of Arber and each trade of Swapper is a step; a  *)
(* step that fails undoes the transaction.                                 *)
(*                                                                         *)
(* Coins are named by the side they are bid on: the base coin is bid on    *)
(* side "base" and asked for on side "quote".                              *)
(***************************************************************************)
EXTENDS BidPools, Sequences, FiniteSets

CONSTANTS
    Owners,         \* accounts with orders
    Fixed,          \* fixed prices, Decimals: quote for one base
    Premiums,       \* premiums on the oracle's price, in basis points
    OraclePrices,   \* what the oracle may say
    Targets,        \* order sizes
    Offers,         \* amounts swapped
    MinReturns,     \* least returns asked for
    Configs,        \* [tick, feeTaker, feeMaker, maker]
    Strategy,       \* the market maker's: [step, minQuote, fee]
    Provisions,     \* what the market maker is provided with: <<base, quote>>
    PriceDigits,    \* digits a price may have: 39 in the code (128 bits)
    MaxTxs,         \* bound: transactions and what changes between them
    MaxItems,       \* bound: orders in one transaction
    MaxQuotes       \* bound: quotes in a row

\* A premium does not take more than the whole price (Premiumable::adjust
\* would subtract below zero); validate has a least min_quote and no fee
\* above one.
ASSUME FinAssumptions ==
    /\ Fixed \subseteq Nat /\ IsFiniteSet(Fixed)
    /\ Premiums \subseteq Int /\ IsFiniteSet(Premiums)
    /\ \A b \in Premiums : 10000 + b \in Nat
    /\ OraclePrices \subseteq Nat
    /\ Targets \subseteq Nat /\ Offers \subseteq Nat /\ MinReturns \subseteq Nat
    /\ Configs \subseteq [tick : Nat, feeTaker : Nat, feeMaker : Nat, maker : BOOLEAN]
    /\ Strategy \in [step : Nat, minQuote : Nat \ {0}, fee : 0 .. One]
    /\ Provisions \subseteq Nat \X Nat
    /\ PriceDigits \in Nat \ {0} /\ MaxTxs \in Nat /\ MaxItems \in Nat /\ MaxQuotes \in Nat

VARIABLES
    book,     \* BID_POOLS, SNAPSHOTS and, as history, what takers paid
    orders,   \* ORDERS
    bank,     \* the contract's balances
    maker,    \* the market maker's reserves and shares, x being base
    oracle,   \* the oracle's price
    config,   \* CONFIG
    tx,       \* the transaction under way
    saved,    \* what it found, to go back to
    txs       \* transactions and changes so far (history)

chain == <<book, orders, bank, maker>>
vars  == <<book, orders, bank, maker, oracle, config, tx, saved, txs>>

XYK == INSTANCE Xyk

Sides == {"base", "quote"}

\* Denoms::ask
Ask(side) == IF side = "base" THEN "quote" ELSE "base"

Prices == [kind : {"fixed"}, value : Fixed] \cup [kind : {"oracle"}, value : Premiums]
Keys   == [side : Sides, price : Prices]

\* Premiumable::adjust
Adjusted(bps) == DecMul(oracle, FromRatio(10000 + bps, 10000))

\* Price::to_rate
Rate(price) == IF price.kind = "fixed" THEN price.value ELSE Adjusted(price.value)

\* Decimal::inv
Inv(rate) == DecDiv(One, rate)

\* Bids for one offered.
RateOn(side, rate) == IF side = "base" THEN Inv(rate) ELSE rate

\* The order of both sides: the best for a taker first.
Better(side, a, b) == IF side = "base" THEN a < b ELSE a > b

Idle == [phase |-> "idle"]

Found == [book |-> book, orders |-> orders, bank |-> bank, maker |-> maker]

-----------------------------------------------------------------------------
(* Tick: prices of so many digits                                          *)

\* The number of digits.
Length(v) == 1 + Turns({n \in 1 .. PriceDigits - 1 : Power(10, n) <= v})

\* The digits that are cut. Prices with fewer digits than the tick do not come
\* this far: OnTick refuses them, and with a quote the row breaks off.
Unused(v) == IF Length(v) > config.tick THEN Power(10, Length(v) - config.tick) ELSE 1

TruncateFloor(v) == v - (v % Unused(v))
TruncateCeil(v)  == TruncateFloor(v + Unused(v) - 1)

\* Tick::validate, which fails on a price of fewer digits.
OnTick(v) == Length(v) >= config.tick /\ TruncateFloor(v) = v

-----------------------------------------------------------------------------
(* What a side of the book offers: a row of items, each of up to two pools *)
(* and a quote of the market maker at one rate.                            *)

NoQuote == [price |-> 0, total |-> 0]

\* POOLS lists the pools with bids, in the order of their prices.
Listed(side, kind) ==
    LET keys     == {k \in Keys : /\ k.side = side /\ k.price.kind = kind
                                  /\ book[k].pool.total > 0}
        Ahead(k) == {j \in keys : Better(side, j.price.value, k.price.value)}
        Place(i) == CHOOSE k \in keys : Cardinality(Ahead(k)) = i - 1
    IN  [i \in 1 .. Cardinality(keys) |->
            [rate |-> Rate(Place(i).price), pools |-> <<Place(i)>>, quote |-> NoQuote]]

\* The market maker, from where its coins are offered.
Facing(side, s) == IF side = "base" THEN XYK!Inverted(s) ELSE s

\* Where the iterator panics: a quote with fewer digits than the tick, of which
\* Tick::do_truncate subtracts more than there are. It does so when the
\* transaction comes to read that item, and not before.
Broken == [rate |-> 0, pools |-> <<>>, quote |-> NoQuote]

Readable(row) == row # <<>> => Head(row) # Broken

\* MarketMaker::query_next: each quote starts from where the last one left.
Shown(side, price) == IF side = "base" THEN Inv(price) ELSE price

MakerRate(side, price) ==
    IF side = "base" THEN TruncateCeil(Inv(price)) ELSE TruncateFloor(price)

MakerOffer(side, q) ==
    IF Length(Shown(side, q.price)) < config.tick THEN Broken
    ELSE [rate |-> MakerRate(side, q.price), pools |-> <<>>,
          quote |-> [price |-> q.price, total |-> q.size]]

AskedNext(side, asked) ==
    IF ~XYK!HasQuote(Strategy, asked.state) THEN asked
    ELSE LET q == XYK!Quote(Strategy, asked.state)
         IN  [state |-> q.data, row |-> Append(asked.row, MakerOffer(side, q))]

Quotes(side, m) ==
    LET asked[n \in 0 .. MaxQuotes] ==
          IF n = 0 THEN [state |-> Facing(side, m), row |-> <<>>]
          ELSE AskedNext(side, asked[n - 1])
    IN  IF config.maker THEN asked[MaxQuotes].row ELSE <<>>

\* merge_join_by: two rows in one, items of equal rates together.
Joined(l, r) == [rate |-> l.rate, pools |-> l.pools \o r.pools,
                 quote |-> IF r.quote = NoQuote THEN l.quote ELSE r.quote]

TakeLeft(m)  == [m EXCEPT !.left = Tail(@), !.row = Append(@, Head(m.left))]
TakeRight(m) == [m EXCEPT !.right = Tail(@), !.row = Append(@, Head(m.right))]
TakeBoth(m)  == [left |-> Tail(m.left), right |-> Tail(m.right),
                 row |-> Append(m.row, Joined(Head(m.left), Head(m.right)))]

\* The next of both rows is read before either is taken.
BreakOff(m) == [left |-> <<>>, right |-> <<>>, row |-> Append(m.row, Head(m.right))]

MergeNext(side, m) ==
    IF m.left = <<>> /\ m.right = <<>> THEN m
    ELSE IF ~Readable(m.right) THEN BreakOff(m)
    ELSE IF m.right = <<>> THEN TakeLeft(m)
    ELSE IF m.left = <<>> THEN TakeRight(m)
    ELSE IF Head(m.left).rate = Head(m.right).rate THEN TakeBoth(m)
    ELSE IF Better(side, Head(m.left).rate, Head(m.right).rate) THEN TakeLeft(m)
    ELSE TakeRight(m)

Merged(side, left, right) ==
    LET merged[n \in 0 .. Len(left) + Len(right)] ==
          IF n = 0 THEN [left |-> left, right |-> right, row |-> <<>>]
          ELSE MergeNext(side, merged[n - 1])
    IN  merged[Len(left) + Len(right)].row

\* swap_iter
Row(side, m) ==
    Merged(side, Merged(side, Listed(side, "fixed"), Listed(side, "oracle")), Quotes(side, m))

-----------------------------------------------------------------------------
(* A trade with one item (Swappable)                                       *)

\* Swappable for Pool
Entered(entry, res) ==
    [offer |-> res.offer, bids |-> res.bids,
     entry |-> [pool |-> res.pool, paid |-> entry.paid + res.offer]]

PoolTrade(b, k, offer) ==
    IF offer = 0 \/ b[k].pool.total = 0
    THEN [offer |-> 0, bids |-> 0, entry |-> b[k]]
    ELSE Entered(b[k], Filled(b[k].pool, offer, RateOn(k.side, Rate(k.price))))

\* A rate of zero has no inverse, whatever is offered.
CanPoolTrade(b, k, offer) ==
    /\ k.side = "base" => Rate(k.price) > 0
    /\ offer > 0 /\ b[k].pool.total > 0 =>
           CanFill(b[k].pool, offer, RateOn(k.side, Rate(k.price)))

\* MarketMakerOffer::swap
QuoteTrade(q, offer) ==
    IF q = NoQuote THEN [offer |-> 0, bids |-> 0]
    ELSE LET worth == ToFloor(DecMul(FromRatio(offer, 1), q.price))
         IN  IF q.total > worth THEN [offer |-> offer, bids |-> worth]
             ELSE [offer |-> ToFloor(DecDiv(FromRatio(q.total, 1), q.price)), bids |-> q.total]

\* Swappable for EitherOrBoth: an offer is split by what each has to give.
PoolsTotal(b, item) ==
    LET Bids(i) == IF i \in DOMAIN item.pools THEN b[item.pools[i]].pool.total ELSE 0
    IN  Bids(1) + Bids(2)

Total(b, item) == PoolsTotal(b, item) + item.quote.total

Split(a, b, offer) == (a * offer) \div (a + b)

ForPools(b, item, offer) ==
    IF item.quote = NoQuote THEN offer
    ELSE IF item.pools = <<>> THEN 0
    ELSE Split(PoolsTotal(b, item), item.quote.total, offer)

\* A mutant of ForPool: each pool is offered what is for both.
ForPoolWhole(b, item, i, offer) == ForPools(b, item, offer)

ForPool(b, item, i, offer) ==
    LET all   == ForPools(b, item, offer)
        first == Split(b[item.pools[1]].pool.total, b[item.pools[2]].pool.total, all)
    IN  IF Len(item.pools) = 1 THEN all ELSE IF i = 1 THEN first ELSE all - first

\* A split divides by what there is.
CanSplit(b, item) ==
    /\ Len(item.pools) = 2 => PoolsTotal(b, item) > 0
    /\ item.pools # <<>> /\ item.quote # NoQuote => Total(b, item) > 0

CanTrade(b, item, offer) ==
    /\ item # Broken
    /\ CanSplit(b, item)
    /\ \A i \in DOMAIN item.pools : CanPoolTrade(b, item.pools[i], ForPool(b, item, i, offer))

\* What the pools and the quote of an item give, together.
Outcome(b, item, pools, quote) ==
    LET Offer(i) == IF i \in DOMAIN pools THEN pools[i].offer ELSE 0
        Bids(i)  == IF i \in DOMAIN pools THEN pools[i].bids ELSE 0
    IN  [offer |-> Offer(1) + Offer(2) + quote.offer,
         bids  |-> Bids(1) + Bids(2) + quote.bids,
         book  |-> [k \in DOMAIN b |->
                       IF \E i \in DOMAIN pools : item.pools[i] = k
                       THEN pools[CHOOSE i \in DOMAIN pools : item.pools[i] = k].entry
                       ELSE b[k]],
         item  |-> [item EXCEPT !.quote.total = @ - quote.bids],
         maker |-> quote]

Trade(b, item, offer) ==
    Outcome(b, item,
            [i \in DOMAIN item.pools |->
                PoolTrade(b, item.pools[i], ForPool(b, item, i, offer))],
            QuoteTrade(item.quote, offer - ForPools(b, item, offer)))

-----------------------------------------------------------------------------
(* A transaction                                                           *)

Coins(base, quote) == [s \in Sides |-> IF s = "base" THEN base ELSE quote]
None == Coins(0, 0)
NoRequest == [side |-> "none"]

Begin(next) ==
    /\ tx = Idle
    /\ txs < MaxTxs
    /\ tx' = next
    /\ saved' = Found
    /\ txs' = txs + 1
    /\ UNCHANGED <<oracle, config>>

Plus(coins, side, n) == [coins EXCEPT ![side] = @ + n]

\* OrderManager::new; the coins that are attached are counted at the end.
Managed(o) ==
    [phase |-> "orders", owner |-> o, items |-> 0, receive |-> None, send |-> None, fees |-> None]

\* ExecuteMsg::Order
BeginOrders(o) == Begin(Managed(o)) /\ UNCHANGED chain

MayVisit(k) ==
    /\ tx.phase = "orders" /\ tx.items < MaxItems
    /\ k.price.kind = "fixed" => OnTick(k.price.value)

\* execute_new_order
NewOrder(k, target) ==
    /\ MayVisit(k)
    /\ orders[tx.owner][k] = NoOrder
    /\ orders' = [orders EXCEPT ![tx.owner][k] = Stored(NewBid(book[k].pool, target))]
    /\ book' = [book EXCEPT ![k].pool = Resized(@, target)]
    /\ tx' = [tx EXCEPT !.items = @ + 1, !.send = Plus(@, k.side, target)]
    /\ UNCHANGED <<bank, maker, oracle, config, saved, txs>>

MakerFee(amount) == ToCeil(DecMul(FromRatio(amount, 1), config.feeMaker))

\* maybe_withdraw
Received(filled) == filled - MakerFee(filled)

\* execute_existing_order: what is filled is claimed, less the fee, and the
\* amount becomes target. An order that does not change is not saved.
Visited(k, bid, target) ==
    LET fee   == MakerFee(bid.filled)
        diff  == target - bid.amount
        claim == Plus(tx.receive, Ask(k.side), Received(bid.filled))
    IN  /\ bid.filled > 0 \/ diff # 0
        /\ -diff <= book[k].pool.total
        /\ orders' = [orders EXCEPT ![tx.owner][k] =
                         Stored([bid EXCEPT !.filled = 0, !.amount = target])]
        /\ book' = [book EXCEPT ![k].pool = Resized(@, diff)]
        /\ tx' = [tx EXCEPT !.items = @ + 1,
                            !.fees = Plus(@, Ask(k.side), fee),
                            !.send = IF diff > 0 THEN Plus(@, k.side, diff) ELSE @,
                            !.receive = IF diff < 0 THEN Plus(claim, k.side, -diff) ELSE claim]

\* Without a target the amount stays.
Unchanging(k) == Remaining(book[k].pool, orders[tx.owner][k])

VisitOrder(k, target) ==
    /\ MayVisit(k)
    /\ orders[tx.owner][k] # NoOrder
    /\ CanSync(book[k].pool, orders[tx.owner][k])
    /\ \E bid \in {Synced(book[k].pool, orders[tx.owner][k])} :
         Visited(k, bid, target)
    /\ UNCHANGED <<bank, maker, oracle, config, saved, txs>>

\* The two sides are traded against each other; a request comes after. A
\* round that changes nothing else changes odd, or it would be no step.
Arb(then, m) ==
    [phase |-> "arb", base |-> Row("base", m), quote |-> Row("quote", m), profit |-> None,
     takes |-> [s \in Sides |-> [offer |-> 0, bids |-> 0]], then |-> then, odd |-> FALSE]

\* ExecutionResult: what the contract sends to the owner and the collector of
\* fees, beyond what the owner attaches.
Owed(s) == tx.receive[s] + tx.fees[s] - tx.send[s]

\* The owner attaches what his orders need beyond what they release, and gets
\* the rest; the bank has to have it.
EndOrders ==
    /\ tx.phase = "orders"
    /\ \A s \in Sides : Owed(s) <= bank[s]
    /\ bank' = [s \in Sides |-> bank[s] - Owed(s)]
    /\ tx' = Arb(NoRequest, maker)
    /\ UNCHANGED <<book, orders, maker, oracle, config, saved, txs>>

\* ExecuteMsg::Swap: the coins come in, and the contract calls itself.
BeginSwap(side, offer, min) ==
    /\ Begin(Arb([side |-> side, offer |-> offer, min |-> min], maker))
    /\ bank' = Plus(bank, Ask(side), offer)
    /\ UNCHANGED <<book, orders, maker>>

-----------------------------------------------------------------------------
(* handle_commit: what was taken of the market maker is asked of it in one  *)
(* message, when it is anything.                                           *)

Asks(take) == IF take.bids = 0 THEN [offer |-> 0, bids |-> 0] ELSE take

Accepted(m, side, take) ==
    take.bids > 0 =>
        take.offer > 0 /\ XYK!ValidSwap(Strategy, Facing(side, m), take.offer, take.bids)

MakerAfter(m, side, take) ==
    IF take.bids = 0 THEN m ELSE Facing(side, XYK!Swapped(Facing(side, m), take.offer))

\* A mutant of Added: a commitment replaces the ones before.
AddedLast(take, more) == more

Added(take, more) == [offer |-> take.offer + more.offer, bids |-> take.bids + more.bids]

-----------------------------------------------------------------------------
(* Arber                                                                   *)

\* Arbitrage::arbitrage: what the best of the base side has is offered to the
\* best of the quote side, and what that returns is offered back.
Forth == Trade(book, Head(tx.quote), Total(book, Head(tx.base)))
Back(forth) == Trade(forth.book, Head(tx.base), forth.bids)

BothSides == tx.base # <<>> /\ tx.quote # <<>>

CanBack(forth) == CanTrade(forth.book, Head(tx.base), forth.bids)

CanArb ==
    /\ CanTrade(book, Head(tx.quote), Total(book, Head(tx.base)))
    /\ CanBack(Forth)

Gains(forth, back) == back.bids >= forth.offer /\ forth.bids >= back.offer

Profits(forth) == Gains(forth, Back(forth))

\* Arber::run has read the next of both sides, one of them empty or not.
BothRead == Readable(tx.base) /\ Readable(tx.quote)

Ended == BothRead /\ (BothSides => CanArb /\ ~Profits(Forth))

\* A mutant of Rest: an item that is used up stays.
RestKept(row, b, item) == <<item>> \o Tail(row)

\* An item that is used up makes room for the next.
Rest(row, b, item) == IF Total(b, item) = 0 THEN Tail(row) ELSE <<item>> \o Tail(row)

\* One round. The trades are committed when all rounds are over, which no
\* round can tell from now.
Round ==
    /\ tx.phase = "arb" /\ BothSides /\ CanArb
    /\ \E forth \in {Forth} : \E back \in {Back(forth)} :
         /\ Gains(forth, back)
         /\ book' = back.book
         /\ tx' = [tx EXCEPT
                !.odd    = ~@,
                !.base   = Rest(@, back.book, back.item),
                !.quote  = Rest(@, back.book, forth.item),
                !.profit = Coins(@["base"] + back.bids - forth.offer,
                                 @["quote"] + forth.bids - back.offer),
                !.takes  = [s \in Sides |->
                               Added(@[s], IF s = "base" THEN back.maker ELSE forth.maker)]]
    /\ UNCHANGED <<orders, bank, maker, oracle, config, saved, txs>>

\* The market maker is paid for the base side, then for the quote side, and
\* the profits are sent.
ArbPayable ==
    LET b == Asks(tx.takes["base"])
        q == Asks(tx.takes["quote"])
    IN  /\ Accepted(maker, "base", b)
        /\ Accepted(MakerAfter(maker, "base", b), "quote", q)
        /\ b.offer <= bank["quote"]
        /\ q.offer <= bank["base"] + b.bids
        /\ tx.profit["base"] <= bank["base"] + b.bids - q.offer
        /\ tx.profit["quote"] <= bank["quote"] + q.bids - b.offer

Swapping(request, m) ==
    [phase |-> "swap", side |-> request.side, offer |-> request.offer, min |-> request.min,
     returned |-> 0, row |-> Row(request.side, m), take |-> [offer |-> 0, bids |-> 0]]

EndArb ==
    /\ tx.phase = "arb" /\ Ended /\ ArbPayable
    /\ LET b == Asks(tx.takes["base"])
           q == Asks(tx.takes["quote"])
       IN  \E m \in {MakerAfter(MakerAfter(maker, "base", b), "quote", q)} :
             /\ maker' = m
             /\ bank' = Coins(bank["base"] + b.bids - q.offer - tx.profit["base"],
                              bank["quote"] + q.bids - b.offer - tx.profit["quote"])
             /\ tx' = IF tx.then = NoRequest THEN Idle ELSE Swapping(tx.then, m)
    /\ UNCHANGED <<book, orders, oracle, config, saved, txs>>

-----------------------------------------------------------------------------
(* Swapper                                                                 *)

Satisfied == tx.offer = 0 \/ tx.row = <<>>

\* One item after the other.
SwapNext ==
    /\ tx.phase = "swap" /\ ~Satisfied
    /\ CanTrade(book, Head(tx.row), tx.offer)
    /\ \E trade \in {Trade(book, Head(tx.row), tx.offer)} :
         /\ book' = trade.book
         /\ tx' = [tx EXCEPT !.offer = @ - trade.offer,
                             !.returned = @ + trade.bids,
                             !.row = Tail(@),
                             !.take = Added(@, trade.maker)]
    /\ UNCHANGED <<orders, bank, maker, oracle, config, saved, txs>>

TakerFee == ToCeil(DecMul(FromRatio(tx.returned, 1), config.feeTaker))

SwapPayable ==
    LET t == Asks(tx.take)
    IN  /\ Accepted(maker, tx.side, t)
        /\ t.offer + tx.offer <= bank[Ask(tx.side)]
        /\ tx.returned <= bank[tx.side] + t.bids

\* ExecuteMsg::DoSwap: the market maker, the taker and the fee are paid.
EndSwap ==
    /\ tx.phase = "swap" /\ Satisfied
    /\ tx.returned - TakerFee >= tx.min
    /\ SwapPayable
    /\ LET t == Asks(tx.take)
       IN  /\ maker' = MakerAfter(maker, tx.side, t)
           /\ bank' = [bank EXCEPT ![tx.side] = @ + t.bids - tx.returned,
                                   ![Ask(tx.side)] = @ - t.offer - tx.offer]
    /\ tx' = Idle
    /\ UNCHANGED <<book, orders, oracle, config, saved, txs>>

-----------------------------------------------------------------------------
(* A step that fails undoes the transaction.                               *)

Fails ==
    \/ tx.phase = "arb" /\ ~BothRead
    \/ tx.phase = "arb" /\ BothSides /\ ~CanArb
    \/ tx.phase = "arb" /\ Ended /\ ~ArbPayable
    \/ tx.phase = "swap" /\ ~Satisfied /\ ~CanTrade(book, Head(tx.row), tx.offer)
    \/ tx.phase = "swap" /\ Satisfied /\ ~(tx.returned - TakerFee >= tx.min /\ SwapPayable)

Revert ==
    /\ tx # Idle
    /\ Fails
    /\ book' = saved.book /\ orders' = saved.orders
    /\ bank' = saved.bank /\ maker' = saved.maker
    /\ tx' = Idle
    /\ UNCHANGED <<oracle, config, saved, txs>>

-----------------------------------------------------------------------------
(* Between transactions                                                    *)

\* Config::validate
ValidConfig(c) == c.feeMaker < One /\ c.feeTaker < One

Between == tx = Idle /\ txs < MaxTxs /\ txs' = txs + 1

\* Config::update: what is not given stays, so a market maker can be named, or
\* another named, and not removed.
MayBecome(c) == config.maker => c.maker

\* SudoMsg::UpdateConfig
UpdateConfig(c) ==
    /\ Between
    /\ MayBecome(c) /\ ValidConfig(c)
    /\ config' = c
    /\ UNCHANGED <<book, orders, bank, maker, oracle, tx, saved>>

OracleMoves(p) ==
    /\ Between
    /\ oracle' = p
    /\ UNCHANGED <<book, orders, bank, maker, config, tx, saved>>

-----------------------------------------------------------------------------

Init ==
    /\ book = [k \in Keys |-> [pool |-> EmptyPool, paid |-> 0]]
    /\ orders = [o \in Owners |-> [k \in Keys |-> NoOrder]]
    /\ bank = None
    /\ maker \in {XYK!Deposited(Strategy, XYK!EmptyState, p[1], p[2]) : p \in Provisions}
    /\ oracle \in OraclePrices
    /\ config \in {c \in Configs : ValidConfig(c)}
    /\ tx = Idle
    /\ saved = Found
    /\ txs = 0

Orders ==
    \/ \E o \in Owners : BeginOrders(o)
    \/ \E k \in Keys : \/ \E n \in Targets : NewOrder(k, n) \/ VisitOrder(k, n)
                       \/ VisitOrder(k, Unchanging(k))

Proceed == EndOrders \/ Round \/ EndArb \/ SwapNext \/ EndSwap \/ Revert

Next ==
    \/ Orders
    \/ \E s \in Sides, n \in Offers, min \in MinReturns : BeginSwap(s, n, min)
    \/ Proceed
    \/ \E c \in Configs : UpdateConfig(c)
    \/ \E p \in OraclePrices : OracleMoves(p)

\* A node that runs a transaction runs it to its end: the weak fairness of
\* Proceed, one of whose steps can always be taken in a transaction.
Runs == []<>(tx = Idle) \/ []<><<Proceed>>_vars

Spec == Init /\ [][Next]_vars /\ Runs

-----------------------------------------------------------------------------
(* Properties                                                              *)

\* Every variable has its type; no balance, pool or order goes below zero.
TypeOK ==
    /\ \A k \in Keys : book[k].pool.total \in Nat /\ book[k].paid \in Nat
    /\ \A o \in Owners, k \in Keys : orders[o][k].amount \in Nat /\ orders[o][k].filled \in Nat
    /\ bank \in [Sides -> Nat]
    /\ maker \in [x : Nat, y : Nat, shares : Nat]
    /\ tx.phase \in {"idle", "orders", "arb", "swap"}
    /\ tx.phase = "swap" => tx.offer \in Nat /\ tx.returned \in Nat

\* What owners can take back and claim is there, in both coins, after any
\* transaction: market maker, arbitrage, takers and fees have had only theirs.
Backed ==
    tx = Idle =>
        \A s \in Sides :
            bank[s] >= MapThenSumSet(
                LAMBDA k : MapThenSumSet(
                    LAMBDA o : LET bid == Synced(book[k].pool, orders[o][k])
                               IN  IF k.side = s THEN bid.amount ELSE bid.filled,
                    {o \in Owners : orders[o][k] # NoOrder}),
                Keys)

\* Who trades with a pool pays its price, at least, but for a last digit of
\* the quote side's division, and at most a unit of either coin more.
AtItsPrice ==
    [][tx.phase \in {"arb", "swap"} /\ tx' # Idle =>
          \A k \in Keys :
            LET given == book[k].pool.total - book'[k].pool.total
                paid  == book'[k].paid - book[k].paid
                rate  == Rate(k.price)
            IN  book'[k] # book[k] =>
                  /\ IF k.side = "base" THEN given * rate <= paid * One
                                        ELSE given * One * One <= (paid * One + 1) * rate
                  /\ (paid - 1) * RateOn(k.side, rate) <= (given + 1) * One]_vars

\* Of the ways a transaction can fail, these do not happen: no split divides by
\* zero, the market maker accepts what it quoted, from whatever rounds and parts
\* a commitment was put together, and no payment is short of coins. What it can
\* fail for is its own min_return, a bid pool without digits to note its part,
\* an oracle price so low that a base pool has no rate, and a quote with fewer
\* digits than the tick.
Honoured ==
    /\ tx.phase = "arb" /\ BothSides =>
         CanSplit(book, Head(tx.base)) /\ CanSplit(book, Head(tx.quote))
    /\ tx.phase = "arb" /\ Ended => ArbPayable
    /\ tx.phase = "swap" /\ ~Satisfied => CanSplit(book, Head(tx.row))
    /\ tx.phase = "swap" /\ Satisfied => SwapPayable

\* Every transaction ends: Arber's rounds and Swapper's trades run out.
Settles == tx # Idle ~> tx = Idle

=============================================================================
