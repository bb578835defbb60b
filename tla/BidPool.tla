------------------------------ MODULE BidPool ------------------------------
(***************************************************************************)
(* One price of the order book: rujira-fin's Pool and its orders, whose    *)
(* owners come and go between the swaps of all others.                     *)
(***************************************************************************)
EXTENDS BidPools

CONSTANTS
    Owners,      \* accounts with orders
    Rates,       \* rates swaps are made at, Decimals; one for a fixed price
    Amounts,     \* order sizes
    Offers,      \* amounts swapped
    MaxSwaps,    \* bound: swaps that reach the pool
    MaxVisits    \* bound: times an owner creates or updates his order

ASSUME BidPoolAssumptions ==
    /\ Rates \subseteq Nat \ {0}
    /\ Amounts \subseteq Nat
    /\ Offers \subseteq Nat \ {0}

VARIABLES
    pool,       \* BID_POOLS and SNAPSHOTS
    orders,     \* ORDERS: the bid of each owner, or NoOrder
    offers,     \* coins of swaps held for the owners' claims
    swaps,      \* swaps so far (history)
    put,        \* put[o]: bid coins o brought, less those he took back (history)
    got,        \* got[o]: offer coins o has claimed (history)
    visits      \* visits[o]: times he created or updated his order (for MaxVisits)

history == <<swaps, put, got, visits>>
vars == <<pool, orders, offers, history>>

-----------------------------------------------------------------------------
(* OrderManager, for one order                                             *)

Visit(o) == visits[o] < MaxVisits /\ visits' = [visits EXCEPT ![o] = @ + 1]

Save(o, bid) == orders' = [orders EXCEPT ![o] = Stored(bid)]

\* execute_new_order
Create(o, n) ==
    /\ orders[o] = NoOrder
    /\ Save(o, NewBid(pool, n))
    /\ pool' = Resized(pool, n)
    /\ put' = [put EXCEPT ![o] = @ + n]
    /\ Visit(o)
    /\ UNCHANGED <<offers, swaps, got>>

\* execute_existing_order: what is filled is claimed, and the amount becomes
\* target. An order of which neither changes is not saved.
Update(o, target) ==
    /\ orders[o] # NoOrder
    /\ CanSync(pool, orders[o])
    /\ \E bid \in {Synced(pool, orders[o])} :
        /\ bid.filled > 0 \/ target # bid.amount
        /\ bid.amount - target <= pool.total
        /\ Save(o, [bid EXCEPT !.filled = 0, !.amount = target])
        /\ pool' = Resized(pool, target - bid.amount)
        /\ offers' = offers - bid.filled
        /\ put' = [put EXCEPT ![o] = @ + target - bid.amount]
        /\ got' = [got EXCEPT ![o] = @ + bid.filled]
        /\ Visit(o)
        /\ UNCHANGED <<swaps>>

-----------------------------------------------------------------------------
(* A swap                                                                  *)

\* Swappable for Pool: distribute and commit. A pool without bids is not
\* listed in POOLS.
Swap(offer, rate) ==
    /\ swaps < MaxSwaps
    /\ pool.total > 0
    /\ CanFill(pool, offer, rate)
    /\ \E res \in {Filled(pool, offer, rate)} :
        /\ pool' = res.pool
        /\ offers' = offers + res.offer
        /\ swaps' = swaps + 1
        /\ UNCHANGED <<orders, put, got, visits>>

-----------------------------------------------------------------------------

Init ==
    /\ pool = EmptyPool
    /\ orders = [o \in Owners |-> NoOrder]
    /\ offers = 0
    /\ swaps = 0
    /\ put = [o \in Owners |-> 0]
    /\ got = [o \in Owners |-> 0]
    /\ visits = [o \in Owners |-> 0]

Orders ==
    \E o \in Owners :
        \/ \E n \in Amounts : Create(o, n) \/ Update(o, n)
        \/ Update(o, Synced(pool, orders[o]).amount)

Next == Orders \/ \E offer \in Offers, rate \in Rates : Swap(offer, rate)

Spec == Init /\ [][Next]_vars

-----------------------------------------------------------------------------
(* Properties                                                              *)

Live == {o \in Owners : orders[o] # NoOrder}

Exceeds(x, y) == \E e \in {Same(<<x, y>>)} : e.a > e.b

\* From pool p to pool q, the sum of p's epoch was raised.
Raised(p, q) == Exceeds(q.snapshots[p.epoch], p.sum)

\* Bids are used only by swaps that raise the sum, from which their owners
\* learn what they were paid (pool.rs:103: "If sum is not incremented, bids are
\* not filled").
Incremented ==
    [][swaps' # swaps /\ pool'.total < pool.total =>
           \E p \in {pool}, q \in {pool'} : Raised(p, q)]_vars

\* No order is locked in: bringing it up to date does not begin to fail,
\* whatever others do and however long its owner stays away. The one exception
\* is a swap that does not raise the sum of the order's epoch.
NotLocked ==
    [][\A o \in Live :
          \E p \in {pool}, q \in {pool'}, a \in {orders[o]}, b \in {orders'[o]} :
            \/ CanSync(p, a) /\ b # NoOrder => CanSync(q, b)
            \/ swaps' # swaps /\ ~Raised(p, q)]_vars

\* The bids that owners can still take back are in the pool, all of them
\* together.
BidsBacked ==
    MapThenSumSet(LAMBDA o : Synced(pool, orders[o]).amount, Live) <= pool.total

\* What owners can claim was paid by swaps, all of it together.
ClaimsBacked ==
    MapThenSumSet(LAMBDA o : Synced(pool, orders[o]).filled, Live) <= offers

\* The sum and product of pool p note a swap, each to within half a coin of
\* what the digits of the offer and of the bids come to. distribute_partial
\* refuses a swap that leaves the sum as it is; distribute_full asks nothing of
\* the kind.
Noted(p, offer, bids) ==
    \E s \in {Same(<<PartialSum(p, offer), p.sum>>)} :
    \E t \in {Same(<<Scaled(s.a - s.b, s.k), p.product>>)} :
    \E r \in {Same(<<PartialProduct(p, bids), p.product>>)} :
        /\ 2 * t.a * p.total > (2 * offer - 1) * t.b
        /\ 2 * r.a * p.total > (2 * (p.total - bids) - 1) * r.b

\* A bid as its owner would find it.
Reckoned(p, bid) == IF bid = NoOrder THEN bid ELSE Synced(p, bid)

\* At some rate, the bids given were earned, to within two units of each coin:
\* one rounded off, one that Noted lets the digits lose.
Paid(given, earned) ==
    \E rate \in Rates : given * One <= (earned + 2) * rate + 2 * One

\* Whatever a swap uses of an owner's bid it pays at the price, to within two
\* units, whoever else has bids in the pool, how often it was swapped before and
\* whether the owner came by since; between swaps, whoever visits, nobody's
\* bid and claim change. The one exception is a swap that the pool's digits do
\* not note: there the code may take bids and pay nothing for them.
PaidStep ==
    \A o \in Owners :
      \E p \in {pool}, q \in {pool'}, a \in {orders[o]}, b \in {orders'[o]} :
      \E x \in {Reckoned(p, a)}, y \in {Reckoned(q, b)} :
        LET given  == put'[o] - put[o] + x.amount - y.amount
            earned == got'[o] - got[o] + y.filled - x.filled
        IN  IF swaps' = swaps THEN given = 0 /\ earned = 0
            ELSE Noted(p, offers' - offers, p.total - q.total) => Paid(given, earned)

PaidInFull == [][PaidStep]_vars

=============================================================================
