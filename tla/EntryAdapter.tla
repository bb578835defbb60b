---------------------------- MODULE EntryAdapter ----------------------------
(***************************************************************************)
(* The entry adapter (contracts/nami-index-entry-adapter) in front of a    *)
(* fixed index: quote in, index tokens out, and back. One action is one    *)
(* message of the adapter's transaction, run to the end of what the called *)
(* contract does; the index is the module IndexFixed, whose transactions   *)
(* the adapter's messages are. Transactions do not overlap: the index and  *)
(* its other users step between them only.                                 *)
(***************************************************************************)
EXTENDS IndexFixed, SequencesExt

CONSTANTS
    Adapter,    \* the adapter's account
    SwapLists   \* ExecuteMsg::Deposit::swaps: for each swap the denom to buy,
                \* the quote to spend and the min_return, 0 when there is none

Users == Accounts \ {Adapter}

SwapEntries == [denom : Coins, amount : Nat, minReturn : Nat]

ASSUME AdapterAssumptions ==
    /\ Adapter \in Accounts
    /\ IsFiniteSet(Denoms)
    /\ Collectors \subseteq Users
    /\ SwapLists \subseteq Seq(SwapEntries)

VARIABLES
    registered,  \* the keys of swap_contracts: denoms the adapter can swap
    wallet,      \* bank balances of the adapter, but for the receipt token
    queue,       \* the messages of the transaction still to run
    before       \* what a failure restores; nothing between transactions

adapterVars == <<registered, wallet, queue, before>>
allVars == <<vars, adapterVars>>

Empty == [c \in Coins |-> 0]

Snapshot == [weight |-> weight, vault |-> vault, supply |-> supply, shares |-> shares,
             elapsed |-> elapsed, stale |-> stale]

-----------------------------------------------------------------------------
(* Messages                                                                *)

\* Status::swap_msg for the pair of d. FIN gives the result to `to'.
Swap(offer, ask, n, minReturn, to) ==
    [type |-> "swap", offer |-> offer, ask |-> ask, amount |-> n,
     minReturn |-> minReturn, to |-> to]

IndexDeposit(funds)  == [type |-> "index_deposit", funds |-> funds]
IndexWithdraw(n)     == [type |-> "index_withdraw", amount |-> n]
ThenDeposit(u)       == [type |-> "then_deposit", sender |-> u]
ThenSwap(u, min)     == [type |-> "then_swap", sender |-> u, minReturn |-> min]
ThenSend(u, min)     == [type |-> "then_send", sender |-> u, minReturn |-> min]

\* A mutant of Finish: the balances are swapped again.
SwapAgain(u, min) == ThenSwap(u, min)

\* The last message of every chain.
Finish(u, min) == ThenSend(u, min)

-----------------------------------------------------------------------------
(* execute: the start of a transaction                                     *)

Begin(messages) ==
    /\ queue = <<>>
    /\ queue' = messages
    /\ before' = Snapshot

\* What the first k swaps of a list spend together, for every k.
Spending(list) ==
    LET sum[k \in 0 .. Len(list)] == IF k = 0 THEN 0 ELSE sum[k - 1] + list[k].amount
    IN  sum

\* ExecuteMsg::Deposit: the swaps spend exactly what was attached.
BeginDeposit(u, list) ==
    LET x == Spending(list)[Len(list)]
    IN  /\ x > 0
        /\ \A i \in DOMAIN list : list[i].denom \in registered
        /\ wallet' = Credit(wallet, Quote, x)
        /\ Begin([i \in DOMAIN list |->
                     Swap(Quote, list[i].denom, list[i].amount, list[i].minReturn, Adapter)]
                 \o <<ThenDeposit(u)>>)
        /\ UNCHANGED <<vars, registered>>

\* ExecuteMsg::Withdraw of s receipt tokens.
BeginWithdraw(u, s, min) ==
    /\ s > 0 /\ s <= shares[u]
    /\ shares' = Credit([shares EXCEPT ![u] = @ - s], Adapter, s)
    /\ Begin(<<IndexWithdraw(s), ThenSwap(u, min)>>)
    /\ UNCHANGED <<listed, weight, vault, supply, rates, elapsed, collector, stale,
                   registered, wallet>>

-----------------------------------------------------------------------------
(* The next message                                                        *)

Upcoming(type) == queue # <<>> /\ Head(queue).type = type

\* A handler's messages run before what was waiting; the last one commits.
Reply(messages) ==
    /\ queue' = messages \o Tail(queue)
    /\ before' = IF queue' = <<>> THEN <<>> ELSE before

\* FIN: what it returns and what it leaves unfilled go to the swap's `to'.
DoSwap(returned, unfilled) ==
    LET swap == Head(queue)
        paid == [wallet EXCEPT ![swap.offer] = @ - swap.amount]
    IN  /\ Upcoming("swap")
        /\ swap.amount > 0 /\ swap.amount <= wallet[swap.offer]
        /\ unfilled <= swap.amount
        /\ unfilled = swap.amount => returned = 0
        /\ returned >= swap.minReturn
        /\ wallet' = IF swap.to = Adapter
                     THEN [paid EXCEPT ![swap.offer] = @ + unfilled, ![swap.ask] = @ + returned]
                     ELSE paid
        /\ Reply(<<>>)
        /\ UNCHANGED <<vars, registered>>

\* Index::deposit_msg: the shares the wallet pays for at the index's stored
\* weights. A weight of zero panics.
Share == Min({wallet[d] \div weight[d] : d \in listed})

CanDeposit == /\ listed # {}
              /\ \A d \in listed : wallet[d] > 0 /\ weight[d] > 0
              /\ Share > 0

\* A mutant of Used: all there is goes to the index.
UsedAll(d) == wallet[d]

\* What the deposit takes of d, and what is left of it.
Used(d)    == Share * weight[d]

\* A mutant of Residue: the deposit is not taken off.
ResidueAll(d) == wallet[d]

Residue(d) == wallet[d] - Used(d)

Residues == {d \in listed : Residue(d) > 0}

\* ThenType::Deposit: deposit in proportion, swap what is over for the user.
DoThenDeposit ==
    LET u     == Head(queue).sender
        funds == [c \in Coins |-> IF c \in listed THEN Used(c) ELSE 0]
        swaps == SetToSeq({Swap(d, Quote, Residue(d), 0, u) : d \in Residues})
    IN  /\ Upcoming("then_deposit")
        /\ CanDeposit
        /\ Residues \subseteq registered
        /\ Reply(<<IndexDeposit(funds)>> \o swaps \o <<Finish(u, 0)>>)
        /\ UNCHANGED <<vars, registered, wallet>>

\* ThenType::Swap: every coin but the receipt token is a balance to swap, and
\* each needs a swap contract. (The receipt token has none either.)
DoThenSwap ==
    LET u     == Head(queue).sender
        held  == {c \in Coins : wallet[c] > 0}
        swaps == SetToSeq({Swap(c, Quote, wallet[c], 0, Adapter) : c \in held})
    IN  /\ Upcoming("then_swap")
        /\ held \subseteq registered /\ shares[Adapter] = 0
        /\ Reply(swaps \o <<Finish(u, Head(queue).minReturn)>>)
        /\ UNCHANGED <<vars, registered, wallet>>

\* A mutant of SentBack: only quote is sent.
SentQuote == {Quote}

\* The coins that are sent to the user.
SentBack == Coins

\* ThenType::Send: every balance is held against min_return, each by itself.
MaySend ==
    LET min == Head(queue).minReturn
    IN  /\ \A c \in SentBack : wallet[c] > 0 => wallet[c] >= min
        /\ shares[Adapter] > 0 => shares[Adapter] >= min

DoThenSend ==
    LET u == Head(queue).sender
    IN  /\ Upcoming("then_send")
        /\ MaySend
        /\ wallet' = [c \in Coins |-> IF c \in SentBack THEN 0 ELSE wallet[c]]
        /\ shares' = Credit([shares EXCEPT ![Adapter] = 0], u, shares[Adapter])
        /\ Reply(<<>>)
        /\ UNCHANGED <<listed, weight, vault, supply, rates, elapsed, collector, stale,
                       registered>>

\* The calls of the index: its transactions, with the adapter for the user.
DoIndexDeposit ==
    LET funds == Head(queue).funds
    IN  /\ Upcoming("index_deposit")
        /\ \A c \in Coins : funds[c] <= wallet[c]
        /\ Deposit(Adapter, funds)
        /\ wallet' = [c \in Coins |-> wallet[c] - funds[c]]
        /\ Reply(<<>>)
        /\ UNCHANGED registered

DoIndexWithdraw ==
    /\ Upcoming("index_withdraw")
    /\ Withdraw(Adapter, Head(queue).amount)
    /\ wallet' = [c \in Coins |-> wallet[c] + vault[c] - vault'[c]]
    /\ Reply(<<>>)
    /\ UNCHANGED registered

Deliver ==
    \/ DoThenDeposit \/ DoThenSwap \/ DoThenSend
    \/ DoIndexDeposit \/ DoIndexWithdraw
    \/ \E returned \in Returns, unfilled \in Leftovers : DoSwap(returned, unfilled)

\* The adapter's own handlers fail as their guards say; FIN and the index may
\* refuse a call for reasons of their own.
MayFail ==
    CASE Head(queue).type = "then_deposit" -> ~(CanDeposit /\ Residues \subseteq registered)
      [] Head(queue).type = "then_swap" ->
             \/ \E c \in Coins : wallet[c] > 0 /\ c \notin registered
             \/ shares[Adapter] > 0
      [] Head(queue).type = "then_send" -> ~MaySend
      [] OTHER -> TRUE

\* A failure undoes the transaction: the adapter had nothing before it.
Revert ==
    /\ queue # <<>>
    /\ MayFail
    /\ weight' = before.weight /\ vault' = before.vault /\ supply' = before.supply
    /\ shares' = before.shares /\ elapsed' = before.elapsed /\ stale' = before.stale
    /\ wallet' = Empty
    /\ queue' = <<>>
    /\ before' = <<>>
    /\ UNCHANGED <<listed, rates, collector, registered>>

-----------------------------------------------------------------------------
(* sudo                                                                    *)

\* Status::add_contract: a pair of FIN has two denoms, one of them the quote.
PairsWithQuote(c) == c # Quote

AddSwapContract(c) ==
    /\ PairsWithQuote(c)
    /\ registered' = registered \cup {c}
    /\ UNCHANGED <<vars, wallet, queue, before>>

RemoveSwapContract(c) ==
    /\ registered' = registered \ {c}
    /\ UNCHANGED <<vars, wallet, queue, before>>

-----------------------------------------------------------------------------

AdapterInit ==
    /\ Init
    /\ registered \in SUBSET {c \in Coins : PairsWithQuote(c)}
    /\ wallet = Empty
    /\ queue = <<>>
    /\ before = <<>>

Begins ==
    \/ \E u \in Users, list \in SwapLists : BeginDeposit(u, list)
    \/ \E u \in Users, s \in 1 .. MaxSupply, min \in MinReturns : BeginWithdraw(u, s, min)

\* Between the adapter's transactions: its own sudo, and whatever the index
\* and its direct users do.
Between ==
    /\ queue = <<>>
    /\ \/ \E c \in Coins : AddSwapContract(c) \/ RemoveSwapContract(c)
       \/ /\ \/ \E u \in Users, funds \in Funds : Deposit(u, funds)
             \/ \E u \in Users, s \in 1 .. MaxSupply : Withdraw(u, s)
             \/ Run
             \/ SudoStep
             \/ \E c \in Coins, x \in Amounts : Donate(c, x)
             \/ \E a, b \in Users, s \in 1 .. MaxSupply : Transfer(a, b, s)
             \/ Tick
          /\ UNCHANGED adapterVars

AdapterNext == Begins \/ Deliver \/ Revert \/ Between

\* A node runs a transaction to its end.
AdapterSpec == AdapterInit /\ [][AdapterNext]_allVars /\ WF_allVars(Deliver \/ Revert)

-----------------------------------------------------------------------------
(* Properties                                                              *)

\* The adapter keeps nothing: whatever FIN returned, left unfilled or refused,
\* and whatever the index paid, no coin and no receipt token is left with it
\* when a transaction ends.
NothingKept == queue = <<>> => wallet = Empty /\ shares[Adapter] = 0

\* Every message is covered by what the adapter has when its turn comes, not
\* only when the handler that sent it looked.
Affordable ==
    /\ Upcoming("swap") => Head(queue).amount <= wallet[Head(queue).offer]
    /\ Upcoming("index_deposit") => \A c \in Coins : Head(queue).funds[c] <= wallet[c]
    /\ Upcoming("index_withdraw") => Head(queue).amount <= shares[Adapter]

\* The adapter's shares are the index's: its deposit buys a whole number of
\* shares by the index's own count, and not a unit is left to the index.
ExactDeposit ==
    Upcoming("index_deposit") =>
        LET funds == Head(queue).funds
        IN  \E n \in {funds[d] \div weight[d] : d \in listed} :
                n > 0 /\ DepositShare(funds, n) /\ \A d \in listed : funds[d] = n * weight[d]

\* A chain of messages ends: the user has the result or the transaction is
\* undone.
Settles == queue # <<>> ~> queue = <<>>

=============================================================================
