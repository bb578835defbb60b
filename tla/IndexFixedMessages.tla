------------------------- MODULE IndexFixedMessages -------------------------
(***************************************************************************)
(* The fixed-unit index at the grain of messages. A handler decides on the *)
(* state it finds and returns messages; they run one by one, depth first,  *)
(* each on the state its predecessors left, and any failure undoes the     *)
(* transaction. IndexFixed has whole transactions as its actions: here     *)
(* they are taken apart, and shown to be those actions.                    *)
(***************************************************************************)
EXTENDS IndexFixed, Sequences

VARIABLES
    stack,   \* the messages still to run, the next one first
    held,    \* receipt tokens in the contract's own account
    saved    \* the state a failure returns to: how the transaction found it;
             \* nothing between transactions

txvars == <<vars, stack, held, saved>>

\* What a transaction may change, and a failure undoes.
Snapshot == [weight |-> weight, vault |-> vault, supply |-> supply,
             shares |-> shares, elapsed |-> elapsed, stale |-> stale]

-----------------------------------------------------------------------------
(* Messages                                                                *)

Mint(account, n) == [type |-> "mint", to |-> account, amount |-> n]
Burn(n)          == [type |-> "burn", amount |-> n]
Send(coins)      == [type |-> "send", coins |-> coins]
PassOn(n)        == [type |-> "pass_on", amount |-> n]
RunAgain         == [type |-> "run"]

\* A FIN swap; its answer calls back when `then' holds a callback.
Swap(offer, ask, n, minReturn, then) ==
    [type |-> "swap", offer |-> offer, ask |-> ask, amount |-> n,
     minReturn |-> minReturn, then |-> then]

\* CallbackType::AfterReallocate.
AfterReallocate(to, n, minReturn) ==
    [type |-> "callback", to |-> to, amount |-> n, minReturn |-> minReturn]

MintFee(n) == IF n > 0 THEN <<Mint(collector, n)>> ELSE <<>>

\* A mutant of PassFee: the exit fee stays with the contract.
KeepFee(n) == <<>>

PassFee(n) == IF n > 0 THEN <<PassOn(n)>> ELSE <<>>

\* A mutant of AfterRun: Run is sent whatever the message was.
AfterRunAgain == MintFee(AumDue) \o <<RunAgain>>

\* Run sends nothing but the AUM fee.
AfterRun == MintFee(AumDue)

\* Vault::rebalance. The history forgets what it has brought up to date.
Rebalance(w, balance, total) ==
    /\ weight' = Rebalanced(listed, w, balance, total)
    /\ stale' = IF total > 0 THEN {} ELSE stale

-----------------------------------------------------------------------------
(* The start of a transaction: funds are attached and the handler runs. A   *)
(* handler that fails changes nothing and is not an action.                *)

Begin(messages) ==
    /\ stack = <<>>
    /\ stack' = messages
    /\ saved' = IF messages = <<>> THEN <<>> ELSE Snapshot

\* The shares of Vault::deposit: none when nothing is listed.
SharesFor(funds, n) == DepositShare(funds, n) \/ (listed = {} /\ n = 0)

BeginDeposit(u, funds) ==
    \E n \in 0 .. MaxSupply :
        LET balance == [c \in Coins |-> vault[c] + funds[c]]
        IN  /\ SharesFor(funds, n)
            /\ Fits(balance)
            /\ vault' = balance
            /\ Rebalance(weight, balance, supply + AumDue + n)
            /\ Begin(<<Mint(u, n)>> \o MintFee(AumDue))
            /\ elapsed' = 0
            /\ UNCHANGED <<listed, supply, shares, rates, collector, held>>

\* A mutant of BurnAndPay: the exit fee is burned with the rest.
BurnAndPayAll(s, w) == <<Burn(s), Send(Payout(w, s - TxFee(rates.transaction, s)))>>

\* Another: the exit fee is paid out as well.
BurnAndPayGross(s, w) ==
    LET net == s - TxFee(rates.transaction, s)
    IN  IF net = 0 THEN <<>>
        ELSE <<Burn(net)>> \o (IF listed = {} THEN <<>> ELSE <<Send(Payout(w, s))>>)

\* The messages of a withdrawal before the fee and Run.
BurnAndPay(s, w) ==
    LET net == s - TxFee(rates.transaction, s)
    IN  IF net = 0 THEN <<>>
        ELSE <<Burn(net)>> \o (IF listed = {} THEN <<>> ELSE <<Send(Payout(w, net))>>)

BeginWithdraw(u, s) ==
    LET exitFee == TxFee(rates.transaction, s)
        total   == supply + AumDue
        w       == Rebalanced(listed, weight, vault, total)
    IN  /\ s > 0 /\ s <= shares[u] /\ exitFee <= s
        /\ shares' = [shares EXCEPT ![u] = @ - s]
        /\ held' = held + s
        /\ Rebalance(weight, vault, total)
        /\ Begin(BurnAndPay(s, w)
                 \o PassFee(exitFee) \o MintFee(AumDue) \o <<RunAgain>>)
        /\ elapsed' = 0
        /\ UNCHANGED <<listed, vault, supply, rates, collector>>

BeginRun ==
    /\ Begin(AfterRun)
    /\ Rebalance(weight, vault, supply + AumDue)
    /\ elapsed' = 0
    /\ UNCHANGED <<listed, vault, supply, shares, rates, collector, held>>

\* The simulation is made by the handler, before the first leg runs.
BeginReallocate(from, to, target, minReturn, simulated) ==
    /\ from \in listed /\ to \in listed
    /\ weight[from] > target
    /\ Begin(<<Swap(from, Quote, Sale(from, target), 0,
                    <<AfterReallocate(to, simulated, minReturn)>>)>>)
    /\ UNCHANGED <<vars, held>>

\* Transactions of one handler and no message.
Single ==
    /\ stack = <<>>
    /\ \/ \E r \in RateChoices, c \in Collectors : UpdateFees(r, c)
       \/ \E d \in Denoms : AddAllocation(d) \/ RemoveAllocation(d)
       \/ \E c \in Coins, x \in Amounts : Donate(c, x)
       \/ \E a, b \in Accounts, s \in 1 .. MaxSupply : Transfer(a, b, s)
       \/ Tick
    /\ UNCHANGED <<stack, held, saved>>

-----------------------------------------------------------------------------
(* The next message                                                        *)

Upcoming(type) == stack # <<>> /\ Head(stack).type = type

\* The last message commits the transaction.
Continue(messages) ==
    /\ stack' = messages
    /\ saved' = IF messages = <<>> THEN <<>> ELSE saved

\* Depth first: what a message emits runs before what was waiting.
Reply(messages) == Continue(messages \o Tail(stack))

\* The token factory does not mint nothing.
DoMint ==
    /\ Upcoming("mint")
    /\ Head(stack).amount > 0 /\ supply + Head(stack).amount <= MaxSupply
    /\ supply' = supply + Head(stack).amount
    /\ shares' = Credit(shares, Head(stack).to, Head(stack).amount)
    /\ Reply(<<>>)
    /\ UNCHANGED <<listed, weight, vault, rates, elapsed, collector, stale, held>>

DoBurn ==
    /\ Upcoming("burn")
    /\ Head(stack).amount <= held
    /\ held' = held - Head(stack).amount
    /\ supply' = supply - Head(stack).amount
    /\ Reply(<<>>)
    /\ UNCHANGED <<listed, weight, vault, shares, rates, elapsed, collector, stale>>

\* The bank drops the zero coins of a send, and refuses an empty one.
DoSend ==
    LET coins == Head(stack).coins
    IN  /\ Upcoming("send")
        /\ \E c \in Coins : coins[c] > 0
        /\ \A c \in Coins : coins[c] <= vault[c]
        /\ vault' = [c \in Coins |-> vault[c] - coins[c]]
        /\ Reply(<<>>)
        /\ UNCHANGED <<listed, weight, supply, shares, rates, elapsed, collector, stale, held>>

\* The exit fee goes to the collector as it was received.
DoPassOn ==
    /\ Upcoming("pass_on")
    /\ Head(stack).amount <= held
    /\ held' = held - Head(stack).amount
    /\ shares' = Credit(shares, collector, Head(stack).amount)
    /\ Reply(<<>>)
    /\ UNCHANGED <<listed, weight, vault, supply, rates, elapsed, collector, stale>>

\* FIN takes the offer, returns what its book gives for it and what it could
\* not fill. With a callback, that comes back as the funds of a call; with no
\* funds at all there is no call.
DoSwap(returned, unfilled) ==
    LET swap    == Head(stack)
        balance == [vault EXCEPT ![swap.offer] = @ - swap.amount + unfilled,
                                 ![swap.ask] = @ + returned]
        answers == returned + unfilled > 0
    IN  /\ Upcoming("swap")
        /\ swap.amount > 0 /\ swap.amount <= vault[swap.offer]
        /\ unfilled <= swap.amount
        /\ unfilled = swap.amount => returned = 0
        /\ returned >= swap.minReturn
        /\ Fits(balance)
        /\ vault' = balance
        /\ Reply(IF answers THEN swap.then ELSE <<>>)
        /\ stale' = IF swap.then # <<>> /\ ~answers
                    THEN stale \cup {swap.offer} ELSE stale
        /\ UNCHANGED <<listed, weight, supply, shares, rates, elapsed, collector, held>>

\* ExecuteMsg::Callback: the second leg, the AUM fee, Run.
DoCallback ==
    LET message == Head(stack)
    IN  /\ Upcoming("callback")
        /\ Reply(<<Swap(Quote, message.to, message.amount, message.minReturn, <<>>)>>
                 \o MintFee(AumDue) \o <<RunAgain>>)
        /\ elapsed' = 0
        /\ UNCHANGED <<listed, weight, vault, supply, shares, rates, collector, stale, held>>

\* ExecuteMsg::Run, called by the contract itself.
DoRun ==
    /\ Upcoming("run")
    /\ Rebalance(weight, vault, supply + AumDue)
    /\ Reply(AfterRun)
    /\ elapsed' = 0
    /\ UNCHANGED <<listed, vault, supply, shares, rates, collector, held>>

Deliver ==
    \/ DoMint \/ DoBurn \/ DoSend \/ DoPassOn \/ DoCallback \/ DoRun
    \/ \E returned \in Returns, unfilled \in Leftovers : DoSwap(returned, unfilled)

\* The next message can run, whatever the other contracts do.
CanRun ==
    LET message == Head(stack)
    IN  CASE message.type = "mint" ->
                 message.amount > 0 /\ supply + message.amount <= MaxSupply
          [] message.type \in {"burn", "pass_on"} -> message.amount <= held
          [] message.type = "send" ->
                 /\ \E c \in Coins : message.coins[c] > 0
                 /\ \A c \in Coins : message.coins[c] <= vault[c]
          [] message.type = "swap" -> FALSE
          [] OTHER -> TRUE

\* A message that fails, or a swap that FIN refuses, undoes the transaction.
Revert ==
    /\ stack # <<>>
    /\ ~CanRun
    /\ weight' = saved.weight /\ vault' = saved.vault /\ supply' = saved.supply
    /\ shares' = saved.shares /\ elapsed' = saved.elapsed /\ stale' = saved.stale
    /\ stack' = <<>>
    /\ saved' = <<>>
    /\ held' = 0
    /\ UNCHANGED <<listed, rates, collector>>

-----------------------------------------------------------------------------

TxInit ==
    /\ Init
    /\ stack = <<>>
    /\ held = 0
    /\ saved = <<>>

Begins ==
    \/ \E u \in Accounts, funds \in Funds : BeginDeposit(u, funds)
    \/ \E u \in Accounts, s \in 1 .. MaxSupply : BeginWithdraw(u, s)
    \/ BeginRun
    \/ \E from, to \in Denoms, target \in Weights, minReturn \in MinReturns :
           \E simulated \in Returns : BeginReallocate(from, to, target, minReturn, simulated)

TxNext == Begins \/ Single \/ Deliver \/ Revert

\* A node runs a transaction to its end: the next message is delivered, or
\* fails, without fail.
TxSpec == TxInit /\ [][TxNext]_txvars /\ WF_txvars(Deliver \/ Revert)

-----------------------------------------------------------------------------
(* Properties                                                              *)

\* Whole transactions are the transactions of IndexFixed: seen as if nothing
\* had happened until its last message, every transaction is one of its
\* actions or, when it fails, no step at all.
Transactions ==
    INSTANCE IndexFixed WITH
        weight  <- IF stack = <<>> THEN weight ELSE saved.weight,
        vault   <- IF stack = <<>> THEN vault ELSE saved.vault,
        supply  <- IF stack = <<>> THEN supply ELSE saved.supply,
        shares  <- IF stack = <<>> THEN shares ELSE saved.shares,
        elapsed <- IF stack = <<>> THEN elapsed ELSE saved.elapsed,
        stale   <- IF stack = <<>> THEN stale ELSE saved.stale

ImplementsTransactions == Transactions!Spec

\* Every message finds what the handler that emitted it counted on: only FIN,
\* the bounds, and a mint or a send of nothing can undo a transaction.
OnlySwapsFail ==
    stack # <<>> /\ ~CanRun =>
        LET message == Head(stack)
        IN  \/ message.type = "swap"
            \/ message.type = "mint" /\ (message.amount = 0 \/ supply + message.amount > MaxSupply)
            \/ message.type = "send" /\ \A c \in Coins : message.coins[c] = 0

\* The contract keeps no receipt token: what a withdrawal attached has been
\* burned or passed on when its transaction ends.
NothingHeld == stack = <<>> => held = 0

\* Every transaction ends.
Settles == stack # <<>> ~> stack = <<>>

=============================================================================
