------------------------------ MODULE BidPools ------------------------------
(***************************************************************************)
(* The bid pools of packages/rujira-rs/src/bid_pool, as operators. A swap  *)
(* is shared among all bids of a pool in one step; what each got of it is  *)
(* found out when its owner comes by, from the pool's sum and product then *)
(* and when he last came.                                                  *)
(***************************************************************************)
EXTENDS Decimals, ScaledDecimals

\* A pool with its snapshots: the sum of each epoch after its last swap.
EmptyPool == [total |-> 0, sum |-> Zero, product |-> Unit, epoch |-> 0, snapshots |-> <<>>]

NoOrder == [amount |-> 0, filled |-> 0]

-----------------------------------------------------------------------------
(* Pool                                                                    *)

\* Pool::new_bid, which adds n to the total as well.
NewBid(p, n) ==
    [amount |-> n, filled |-> 0, product |-> p.product, sum |-> p.sum, epoch |-> p.epoch]

\* Bid::increase, Bid::retract
Resized(p, diff) == [p EXCEPT !.total = @ + diff]

\* A mutant of FullOffer: rounded down.
FullOfferFloor(p, rate) == ToFloor(FromRatio(p.total * One, rate))

\* Pool::distribute_full: the whole pool for the least offer that is worth it.
FullOffer(p, rate) == ToCeil(FromRatio(p.total * One, rate))

\* A mutant of FullSum: the epoch is closed before the sum is raised.
FullSumLost(p, rate) == p.sum

FullSum(p, rate) == Add(p.sum, Times(p.product, Ratio(FullOffer(p, rate), p.total)))

\* Pool::increment_epoch
NextEpoch(p) == [p EXCEPT !.total = 0, !.sum = Zero, !.product = Unit, !.epoch = @ + 1]

\* The old epoch is closed with its last sum, the new one opened with none.
Full(p, rate) ==
    [offer |-> FullOffer(p, rate),
     bids  |-> p.total,
     pool  |-> [NextEpoch(p) EXCEPT !.snapshots =
                   [e \in 0 .. p.epoch + 1 |->
                       IF e < p.epoch THEN p.snapshots[e]
                       ELSE IF e = p.epoch THEN FullSum(p, rate) ELSE Zero]]]

\* Pool::distribute_partial: the whole offer for a part of the pool.
PartialSum(p, offer) == Add(p.sum, Times(p.product, Ratio(offer, p.total)))

PartialProduct(p, bids) == Times(p.product, Sub(Unit, Ratio(bids, p.total)))

Partial(p, offer, bids) ==
    [offer |-> offer,
     bids  |-> bids,
     pool  |-> [total |-> p.total - bids, sum |-> PartialSum(p, offer),
                product |-> PartialProduct(p, bids), epoch |-> p.epoch,
                snapshots |-> [e \in 0 .. p.epoch |->
                                  IF e < p.epoch THEN p.snapshots[e] ELSE PartialSum(p, offer)]]]

\* Too small a sum or product is an error, and with it the swap.
CanPartial(p, offer, bids) == PartialSum(p, offer) # p.sum /\ PartialProduct(p, bids) # Zero

\* offer.mul_floor(rate)
Worth(offer, rate) == (offer * rate) \div One

\* Pool::distribute, for an offer and a pool that are not zero.
Filled(p, offer, rate) ==
    IF Worth(offer, rate) >= p.total THEN Full(p, rate) ELSE Partial(p, offer, Worth(offer, rate))

CanFill(p, offer, rate) ==
    Worth(offer, rate) >= p.total \/ CanPartial(p, offer, Worth(offer, rate))

-----------------------------------------------------------------------------
(* Bids                                                                    *)

\* A mutant of Reference: the sum of the present epoch.
PresentSum(p, bid) == p.sum

\* Pool::sync_order: the sum the bid is compared with is that of its epoch;
\* its own when there was no swap since the epoch began.
Reference(p, bid) == IF bid.epoch \in DOMAIN p.snapshots THEN p.snapshots[bid.epoch] ELSE bid.sum

Growth(p, bid) == TimesInt(Sub(Reference(p, bid), bid.sum), bid.amount)

\* Pool::bid_filled_amount
NewlyFilled(p, bid) ==
    IF bid.product = Zero \/ bid.amount = 0
    THEN 0
    ELSE Floor(Quotient(Growth(p, bid), bid.product))

\* A mutant of Remaining: bids live on in the next epoch.
RemainingAlways(p, bid) ==
    IF bid.amount = 0 THEN 0 ELSE Floor(TimesInt(Quotient(p.product, bid.product), bid.amount))

\* Pool::bid_remaining_amount
Remaining(p, bid) ==
    IF bid.product = Zero \/ bid.amount = 0 THEN bid.amount
    ELSE IF p.epoch # bid.epoch THEN 0
    ELSE Floor(TimesInt(Quotient(p.product, bid.product), bid.amount))

\* A mutant of Synced: the sum of the first visit is kept.
SyncedOnce(p, bid) ==
    [amount |-> Remaining(p, bid), filled |-> bid.filled + NewlyFilled(p, bid),
     product |-> p.product, sum |-> bid.sum, epoch |-> p.epoch]

\* Pool::sync_bid, which reads amount before it is brought up to date.
Synced(p, bid) ==
    [amount |-> Remaining(p, bid), filled |-> bid.filled + NewlyFilled(p, bid),
     product |-> p.product, sum |-> p.sum, epoch |-> p.epoch]

\* Its subtractions and divisions are defined.
CanSync(p, bid) ==
    bid.product # Zero /\ bid.amount > 0 =>
        /\ CanSub(Reference(p, bid), bid.sum)
        /\ CanDiv(Growth(p, bid), bid.product)
        /\ p.epoch = bid.epoch => CanDiv(p.product, bid.product)

\* Order::save drops an empty bid.
Stored(bid) == IF bid.amount = 0 /\ bid.filled = 0 THEN NoOrder ELSE bid

=============================================================================
