----------------------------- MODULE IndexFixed -----------------------------
(***************************************************************************)
(* The fixed-unit index (contracts/nami-index-fixed) at the grain of       *)
(* transactions. A receipt token stands for a basket: `weight' units of    *)
(* every listed denomination. A transaction runs a handler and every       *)
(* message it emits, depth first, and is undone as a whole when any of     *)
(* them fails; so one action here is one whole transaction, its nested     *)
(* mints, burns, sends, swaps and Run included, and a transaction that     *)
(* fails is an action that is not enabled. The module IndexFixedMessages   *)
(* takes the same transactions apart, one message at a time.               *)
(***************************************************************************)
EXTENDS FeeManager, FiniteSets

CONSTANTS
    Denoms,       \* denominations that have a FIN pair with the quote denom
    Quote,        \* Config::quote_denom, the token both legs of a swap share
    Accounts,     \* holders of the receipt token
    Collectors,   \* the accounts that may be the fee collector
    Weights,      \* weights that instantiate and Reallocate may ask for
    Amounts,      \* amounts a user may attach or send, per denomination
    Returns,      \* amounts a FIN swap may return or simulate
    Leftovers,    \* parts of an offer a FIN swap may leave unfilled
    MinReturns,   \* the min_return of a reallocation; 0 when there is none
    RateChoices,  \* fee rates that instantiate and UpdateFees may ask for
    MaxElapsed,   \* bound: seconds without an accrual
    MaxSupply,    \* bound: receipt tokens in circulation
    MaxBalance    \* bound: units of one denomination in the vault

Coins == Denoms \cup {Quote}

ASSUME FixedAssumptions ==
    /\ Quote \notin Denoms
    /\ Collectors \subseteq Accounts
    /\ Weights \subseteq Nat
    /\ Amounts \subseteq Nat
    /\ Returns \subseteq Nat /\ Leftovers \subseteq Nat /\ MinReturns \subseteq Nat
    /\ RateChoices \subseteq FeeRates
    /\ MaxElapsed \in Nat /\ MaxSupply \in Nat /\ MaxBalance \in Nat

VARIABLES
    listed,     \* the keys of ALLOCATIONS
    weight,     \* the weights of ALLOCATIONS; 0 for a denom that is not listed
    vault,      \* bank balances of the contract, per coin
    supply,     \* bank supply of the receipt token
    shares,     \* bank balances of the receipt token, per account
    rates,      \* FeeManager::rates
    elapsed,    \* seconds between FeeManager::last_accrual_time and now
    collector,  \* Config::fee_collector
    stale       \* history: sold by a reallocation whose callback never came,
                \* and not rebalanced since

vars == <<listed, weight, vault, supply, shares, rates, elapsed, collector, stale>>

TypeOK ==
    /\ listed \subseteq Denoms
    /\ weight \in [Denoms -> Nat]
    /\ vault \in [Coins -> Nat]
    /\ supply \in Nat
    /\ shares \in [Accounts -> Nat]
    /\ rates \in FeeRates
    /\ elapsed \in Nat
    /\ collector \in Accounts
    /\ stale \subseteq Denoms

-----------------------------------------------------------------------------
(* Helpers of the handlers.                                                *)

\* A bank balance grows by n.
Credit(f, a, n) == [f EXCEPT ![a] = @ + n]

\* The AUM fee that the next execute will mint, whichever message it is.
AumDue == AumFee(rates.management, elapsed, supply)

\* A mutant of Rebalanced: rounding up.
RebalancedUp(L, w, balance, total) ==
    [d \in Denoms |-> IF d \in L /\ total > 0
                      THEN (balance[d] + total - 1) \div total ELSE w[d]]

\* Another: the AUM fee is counted twice.
RebalancedTwice(L, w, balance, total) ==
    [d \in Denoms |-> IF d \in L /\ total > 0 THEN balance[d] \div (total + AumDue) ELSE w[d]]

\* Vault::rebalance: every weight becomes the whole units that back one of
\* `total' shares. With no shares at all the stored weights stay.
Rebalanced(L, w, balance, total) ==
    [d \in Denoms |-> IF d \in L /\ total > 0 THEN balance[d] \div total ELSE w[d]]

\* Vault::deposit: n is the number of shares the funds pay for. Every listed
\* denom must be there, none may have weight zero (Decimal::from_ratio would
\* panic), and all must agree on n. Other coins are taken and not looked at.
DepositShare(funds, n) ==
    /\ listed # {}
    /\ \A d \in listed : /\ funds[d] > 0
                         /\ weight[d] > 0
                         /\ funds[d] \div weight[d] = n

\* A mutant of Payout: idle quote goes to whoever withdraws.
PayoutWithQuote(w, net) ==
    [c \in Coins |-> IF c \in listed THEN w[c] * net
                     ELSE IF c = Quote THEN vault[c] ELSE 0]

\* Another: paid at the stored weights, as if nothing had been rebalanced.
PayoutStored(w, net) == [c \in Coins |-> IF c \in listed THEN weight[c] * net ELSE 0]

\* Vault::withdraw: what `net' shares are paid, coin by coin.
Payout(w, net) == [c \in Coins |-> IF c \in listed THEN w[c] * net ELSE 0]

Fits(balance) == \A c \in Coins : balance[c] <= MaxBalance

-----------------------------------------------------------------------------
(* execute                                                                 *)

\* ExecuteMsg::Deposit: mints n > 0 shares to u (a mint of nothing fails) and
\* the AUM fee to the collector.
Deposit(u, funds) ==
    \E n \in 1 .. MaxSupply :
        LET fee     == AumDue
            balance == [c \in Coins |-> vault[c] + funds[c]]
            total   == supply + fee + n
        IN  /\ DepositShare(funds, n)
            /\ Fits(balance) /\ total <= MaxSupply
            /\ vault' = balance
            /\ weight' = Rebalanced(listed, weight, balance, total)
            /\ supply' = total
            /\ shares' = Credit(Credit(shares, u, n), collector, fee)
            /\ elapsed' = 0
            /\ stale' = {}
            /\ UNCHANGED <<listed, rates, collector>>

\* What a withdrawal of s receipt tokens asks of the state: the tokens, and
\* coins for all that it is paid. The bank drops zero coins from a send and
\* refuses an empty one; nobody burns more than the supply.
MayWithdraw(u, s) ==
    LET net   == s - TxFee(rates.transaction, s)
        total == supply + AumDue
        paid  == Payout(Rebalanced(listed, weight, vault, total), net)
    IN  /\ s > 0 /\ s <= shares[u]
        /\ TxFee(rates.transaction, s) <= s /\ net <= total
        /\ \A c \in Coins : paid[c] <= vault[c]
        /\ net > 0 /\ listed # {} => \E c \in Coins : paid[c] > 0
        /\ total - net <= MaxSupply

\* ExecuteMsg::Withdraw with s receipt tokens: rebalance, pay the net shares
\* at the new weights and burn them, pass the exit fee on, mint the AUM fee,
\* and rebalance once more in the Run that closes the transaction.
Withdraw(u, s) ==
    LET fee     == AumDue
        burnFee == TxFee(rates.transaction, s)
        net     == s - burnFee
        total   == supply + fee
        w       == Rebalanced(listed, weight, vault, total)
        paid    == Payout(w, net)
        balance == [c \in Coins |-> vault[c] - paid[c]]
    IN  /\ MayWithdraw(u, s)
        /\ vault' = balance
        /\ weight' = Rebalanced(listed, w, balance, total - net)
        /\ supply' = total - net
        /\ shares' = Credit([shares EXCEPT ![u] = @ - s], collector, burnFee + fee)
        /\ elapsed' = 0
        /\ stale' = {}
        /\ UNCHANGED <<listed, rates, collector>>

\* ExecuteMsg::Run, open to anyone: accrue and rebalance.
Run ==
    LET fee   == AumDue
        total == supply + fee
    IN  /\ total <= MaxSupply
        /\ weight' = Rebalanced(listed, weight, vault, total)
        /\ supply' = total
        /\ shares' = Credit(shares, collector, fee)
        /\ elapsed' = 0
        /\ stale' = IF total > 0 THEN {} ELSE stale
        /\ UNCHANGED <<listed, vault, rates, collector>>

-----------------------------------------------------------------------------
(* sudo                                                                    *)

\* Vault::reallocate: both denoms are listed, the weight of `from' is to fall,
\* and the sale, its excess weight over the supply, is in the vault. A sale of
\* nothing cannot be attached to a message.
Sale(from, target) == (weight[from] - target) * supply

\* A mutant of MayReallocate: the bank does not check the sale is there.
MayOversell(from, to, target) ==
    /\ from \in listed /\ to \in listed
    /\ weight[from] > target
    /\ Sale(from, target) > 0

MayReallocate(from, to, target) ==
    /\ from \in listed /\ to \in listed
    /\ weight[from] > target
    /\ Sale(from, target) > 0 /\ Sale(from, target) <= vault[from]

\* The vault after the first leg: the sale went to FIN, which returned some
\* quote and the part of the sale it could not fill.
FirstLeg(from, target, returned, unfilled) ==
    [vault EXCEPT ![from] = @ - Sale(from, target) + unfilled, ![Quote] = @ + returned]

\* SudoMsg::Reallocate when FIN has something to give back: it calls back with
\* it, the callback sells `simulated' units of quote for `to' (the simulation
\* made before the first leg ran), accrues the AUM fee, and Run rebalances.
\* FIN fills the offer as far as its book goes and checks minReturn at the end.
Reallocate(from, to, target, minReturn, simulated, returned, unfilled, bought, unspent) ==
    LET first   == FirstLeg(from, target, returned, unfilled)
        second  == [first EXCEPT ![Quote] = @ - simulated + unspent]
        balance == [second EXCEPT ![to] = @ + bought]
        fee     == AumDue
        total   == supply + fee
    IN  /\ MayReallocate(from, to, target)
        /\ unfilled <= Sale(from, target) /\ returned + unfilled > 0
        /\ unfilled = Sale(from, target) => returned = 0
        /\ simulated > 0 /\ simulated <= first[Quote]
        /\ unspent <= simulated
        /\ unspent = simulated => bought = 0
        /\ bought >= minReturn
        /\ Fits(balance) /\ total <= MaxSupply
        /\ vault' = balance
        /\ weight' = Rebalanced(listed, weight, balance, total)
        /\ supply' = total
        /\ shares' = Credit(shares, collector, fee)
        /\ elapsed' = 0
        /\ stale' = {}
        /\ UNCHANGED <<listed, rates, collector>>

\* SudoMsg::Reallocate when FIN takes all of a small offer and its floor makes
\* the return zero: there are no funds to call back with, so no second leg, no
\* accrual and no Run happen, and the transaction still succeeds.
ReallocateUnanswered(from, to, target) ==
    /\ MayReallocate(from, to, target)
    /\ vault' = FirstLeg(from, target, 0, 0)
    /\ stale' = stale \cup {from}
    /\ UNCHANGED <<listed, weight, supply, shares, rates, elapsed, collector>>

\* SudoMsg::UpdateFees: a new FeeManager, whose last accrual is now.
UpdateFees(r, c) ==
    /\ ValidRates(r)
    /\ rates' = r
    /\ collector' = c
    /\ elapsed' = 0
    /\ UNCHANGED <<listed, weight, vault, supply, shares, stale>>

\* SudoMsg::AddAllocation: listed at weight zero, then rebalanced over the
\* supply as it stands, without the AUM fee that is due.
AddAllocation(d) ==
    LET L == listed \cup {d}
    IN  /\ d \notin listed
        /\ listed' = L
        /\ weight' = Rebalanced(L, [weight EXCEPT ![d] = 0], vault, supply)
        /\ stale' = IF supply > 0 THEN {} ELSE stale
        /\ UNCHANGED <<vault, supply, shares, rates, elapsed, collector>>

\* SudoMsg::RemoveAllocation looks at the stored weight only.
RemoveAllocation(d) ==
    /\ d \in listed
    /\ weight[d] = 0
    /\ listed' = listed \ {d}
    /\ UNCHANGED <<weight, vault, supply, shares, rates, elapsed, collector, stale>>

-----------------------------------------------------------------------------
(* The environment                                                         *)

\* Anyone may send coins to the contract's address with a plain bank send.
Donate(c, x) ==
    /\ x > 0
    /\ vault' = Credit(vault, c, x)
    /\ Fits(vault')
    /\ UNCHANGED <<listed, weight, supply, shares, rates, elapsed, collector, stale>>

\* Receipt tokens move between accounts.
Transfer(a, b, s) ==
    /\ s > 0 /\ s <= shares[a]
    /\ shares' = Credit([shares EXCEPT ![a] = @ - s], b, s)
    /\ UNCHANGED <<listed, weight, vault, supply, rates, elapsed, collector, stale>>

\* Block time moves on.
Tick ==
    /\ elapsed < MaxElapsed
    /\ elapsed' = elapsed + 1
    /\ UNCHANGED <<listed, weight, vault, supply, shares, rates, collector, stale>>

-----------------------------------------------------------------------------

\* instantiate: no share is out and the vault is empty. Any weight is
\* accepted, zero too, and so is an empty list of allocations.
Init ==
    /\ listed \in SUBSET Denoms
    /\ \E w \in [listed -> Weights] :
           weight = [d \in Denoms |-> IF d \in listed THEN w[d] ELSE 0]
    /\ vault = [c \in Coins |-> 0]
    /\ supply = 0
    /\ shares = [a \in Accounts |-> 0]
    /\ rates \in {r \in RateChoices : ValidRates(r)}
    /\ elapsed = 0
    /\ collector \in Collectors
    /\ stale = {}

Funds == [Coins -> Amounts]

UserStep ==
    \/ \E u \in Accounts, funds \in Funds : Deposit(u, funds)
    \/ \E u \in Accounts, s \in 1 .. MaxSupply : Withdraw(u, s)
    \/ Run

ReallocateStep(from, to, target) ==
    /\ MayReallocate(from, to, target)
    /\ \E returned, simulated, bought \in Returns :
           \E unfilled, unspent \in Leftovers, minReturn \in MinReturns :
               Reallocate(from, to, target, minReturn, simulated, returned,
                          unfilled, bought, unspent)

SudoStep ==
    \/ \E from, to \in Denoms, target \in Weights :
           \/ ReallocateStep(from, to, target)
           \/ ReallocateUnanswered(from, to, target)
    \/ \E r \in RateChoices, c \in Collectors : UpdateFees(r, c)
    \/ \E d \in Denoms : AddAllocation(d) \/ RemoveAllocation(d)

Next ==
    \/ UserStep
    \/ SudoStep
    \/ \E c \in Coins, x \in Amounts : Donate(c, x)
    \/ \E a, b \in Accounts, s \in 1 .. MaxSupply : Transfer(a, b, s)
    \/ Tick

Spec == Init /\ [][Next]_vars

-----------------------------------------------------------------------------
(* Properties                                                              *)

\* The stored weights are covered: for every listed denom, what all shares
\* together stand for is in the vault, so that no order of withdrawals can
\* leave the last holder short. A denom sold by a reallocation that got no
\* callback is excepted until the next rebalance.
Covered == \A d \in listed \ stale : weight[d] * supply <= vault[d]

\* What s receipt tokens must be worth for a withdrawal to go through: net of
\* the exit fee, a unit of some denom for each share. The bound on the supply
\* is the model's.
WorthLeaving(s) ==
    LET total == supply + AumDue
        net   == s - TxFee(rates.transaction, s)
    IN  /\ total - net <= MaxSupply
        /\ net > 0 => \E d \in listed : vault[d] >= total

\* Every holder can leave: a Withdraw of any part of a holding succeeds
\* whenever its net shares are worth at least one unit of something. All that
\* a Withdraw asks for is MayWithdraw.
Redeemable ==
    \A u \in Accounts : \A s \in 1 .. shares[u] : WorthLeaving(s) => MayWithdraw(u, s)

\* A weight after an accrual of the AUM fee that is due, and nothing else.
Diluted(w) ==
    IF AumDue = 0 THEN w ELSE (w * supply) \div (supply + AumDue)

\* What a share stands for never falls below the dilution by the AUM fee of
\* that very step, whoever acts and in whichever order: a deposit that rounds
\* shares down, a withdrawal that rounds units down, a Run, a new allocation.
\* The one exception is the one denom of which some was sold, with no share
\* burned and nothing else gone, for no more than a sale down to some target
\* weight; and it keeps every target that the sale did not go below.
Sold(d, target) ==
    /\ target < weight[d]
    /\ supply' = supply + AumDue
    /\ vault'[d] < vault[d] /\ vault[d] - vault'[d] <= Sale(d, target)
    /\ \A e \in Denoms \ {d} : vault'[e] >= vault[e]

KeepsWeightStep ==
    \A d \in (listed \cap listed') \ (stale \cup stale') :
        \/ weight'[d] >= Diluted(weight[d])
        \/ /\ \E target \in Weights : Sold(d, target)
           /\ \A target \in Weights : Sold(d, target) => weight'[d] >= Diluted(target)

KeepsWeight == [][KeepsWeightStep]_vars

\* Burned shares are paid pro rata of the vault and of the supply with the
\* AUM fee: never more, and less by no more than one unit per share; coins
\* that are not listed stay.
ProRataStep ==
    \A u \in Accounts, s \in 1 .. MaxSupply :
        Withdraw(u, s) =>
            LET total   == supply + AumDue
                burned  == total - supply'
                paid(c) == vault[c] - vault'[c]
            IN  /\ \A d \in listed : /\ paid(d) * total <= vault[d] * burned
                                     /\ (paid(d) + burned) * total >= vault[d] * burned
                /\ \A c \in Coins \ listed : paid(c) = 0

PaysProRata == [][ProRataStep]_vars

=============================================================================
