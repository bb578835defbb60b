------------------------------ MODULE Affiliate ------------------------------
(***************************************************************************)
(* The affiliate contract (contracts/nami-affiliate): it takes a fee for a *)
(* referrer out of the attached coins, calls a whitelisted contract with   *)
(* the rest and sends whatever it then holds to the caller. One action is  *)
(* one message of the transaction. Of the called contract nothing is       *)
(* assumed but that it does not call the affiliate contract in its turn.   *)
(***************************************************************************)
EXTENDS Integers, Sequences

CONSTANTS
    Coins,      \* denoms, those the called contracts mint included
    Holders,    \* every account of the bank
    Contract,   \* the affiliate contract's own account
    Targets,    \* contracts the whitelist may name
    Callers,    \* the users
    Payees,     \* the accounts users name as affiliate
    Rates,      \* the fee rates they name
    Full,       \* 10 000 basis points; small in TLC
    Gifts,      \* amounts by coin that users attach and called contracts give
    Supply,     \* Supply[h][c]: what h has of c to begin with
    MaxCalls    \* bound: calls with an affiliate

Funds == [Coins -> Nat]

ASSUME AffiliateAssumptions ==
    /\ Contract \in Holders
    /\ Targets \subseteq Holders \ {Contract}
    /\ Callers \subseteq Holders \ {Contract}
    /\ Payees \subseteq Holders
    /\ Rates \subseteq Nat
    /\ Full \in Nat \ {0}
    /\ Gifts \subseteq Funds
    /\ Supply \in [Holders -> Funds]
    /\ \A c \in Coins : Supply[Contract][c] = 0

VARIABLES
    maxBps,     \* CONFIG: the highest rate a caller may name
    whitelist,  \* WHITELIST
    bank,       \* bank[h][c]: the balances of the chain
    queue,      \* the messages of the transaction still to run
    before,     \* what a failure restores; nothing between transactions
    due,        \* due[c]: rates times amounts of the calls so far (history)
    allowed,    \* allowed[c]: the same at the highest rate of the time (history)
    earned,     \* earned[c]: fees paid so far (history)
    calls       \* calls with an affiliate so far (history)

history == <<due, allowed, earned, calls>>
vars == <<maxBps, whitelist, bank, queue, before, history>>

Nothing == [c \in Coins |-> 0]

Plus(x, y)  == [c \in Coins |-> x[c] + y[c]]
Minus(x, y) == [c \in Coins |-> x[c] - y[c]]
Leq(x, y)   == \A c \in Coins : x[c] <= y[c]

-----------------------------------------------------------------------------
(* The fee                                                                 *)

\* A mutant of Fee: rounded to the affiliate's favour.
FeeUp(bps, n) == (n * bps + Full - 1) \div Full

Fee(bps, n) == (n * bps) \div Full

\* A mutant of Net: the fee is not taken off.
Gross(bps, n) == n

Net(bps, n) == n - Fee(bps, n)

Fees(bps, x) == [c \in Coins |-> Fee(bps, x[c])]
Nets(bps, x) == [c \in Coins |-> Net(bps, x[c])]

MayCharge(bps) == bps <= maxBps

-----------------------------------------------------------------------------
(* Messages                                                                *)

PayFees(to, fees) == [type |-> "pay", to |-> to, funds |-> fees]

\* The coins of the call are those attached, with what is left of each.
Call(t, coins, net) == [type |-> "call", to |-> t, coins |-> coins, funds |-> net]

ThenSend(u) == [type |-> "send", to |-> u]

\* A mutant of Messages: what comes back is not sent on.
NoSend(fees, call, send) == Append(fees, call)

\* The order of the handler's messages.
Messages(fees, call, send) == fees \o <<call, send>>

-----------------------------------------------------------------------------
(* execute                                                                 *)

Start(u, x, messages) ==
    /\ queue = <<>>
    /\ x # Nothing /\ Leq(x, bank[u])
    /\ bank' = [bank EXCEPT ![u] = Minus(@, x), ![Contract] = Plus(@, x)]
    /\ queue' = messages
    /\ before' = [bank |-> bank, due |-> due, allowed |-> allowed,
                  earned |-> earned, calls |-> calls]
    /\ UNCHANGED <<maxBps, whitelist>>

Attached(x) == {c \in Coins : x[c] > 0}

\* ExecuteMsg::Execute without an affiliate.
Execute(u, t, x) ==
    /\ t \in whitelist
    /\ Start(u, x, Messages(<<>>, Call(t, Attached(x), x), ThenSend(u)))
    /\ UNCHANGED history

\* ExecuteMsg::Execute with an affiliate: fees of zero are not sent.
ExecuteFor(u, t, x, payee, bps) ==
    LET fees == Fees(bps, x)
        pay  == IF fees = Nothing THEN <<>> ELSE <<PayFees(payee, fees)>>
    IN  /\ calls < MaxCalls
        /\ t \in whitelist
        /\ MayCharge(bps)
        /\ Start(u, x, Messages(pay, Call(t, Attached(x), Nets(bps, x)), ThenSend(u)))
        /\ due' = [c \in Coins |-> due[c] + bps * x[c]]
        /\ allowed' = [c \in Coins |-> allowed[c] + maxBps * x[c]]
        /\ calls' = calls + 1
        /\ UNCHANGED earned

-----------------------------------------------------------------------------
(* The next message                                                        *)

Upcoming(type) == queue # <<>> /\ Head(queue).type = type

\* The next message is done; the last one commits.
Reply == /\ queue' = Tail(queue)
         /\ before' = IF queue' = <<>> THEN <<>> ELSE before

DoPayFees ==
    LET pay == Head(queue)
    IN  /\ Upcoming("pay")
        /\ Leq(pay.funds, bank[Contract])
        /\ bank' = [[bank EXCEPT ![Contract] = Minus(@, pay.funds)]
                        EXCEPT ![pay.to] = Plus(@, pay.funds)]
        /\ earned' = Plus(earned, pay.funds)
        /\ Reply
        /\ UNCHANGED <<maxBps, whitelist, due, allowed, calls>>

\* A coin of amount zero cannot be attached.
CanCall(call) == Leq(call.funds, bank[Contract]) /\ \A c \in call.coins : call.funds[c] > 0

\* The called contract keeps what it is given and gives what it likes of its
\* own to whom it likes: to the affiliate contract, which called it, or to
\* someone else.
DoCall(given, to) ==
    LET call == Head(queue)
        t    == call.to
        paid == [bank EXCEPT ![Contract] = Minus(@, call.funds), ![t] = Plus(@, call.funds)]
    IN  /\ Upcoming("call")
        /\ CanCall(call)
        /\ Leq(given, paid[t])
        /\ bank' = [[paid EXCEPT ![t] = Minus(@, given)] EXCEPT ![to] = Plus(@, given)]
        /\ Reply
        /\ UNCHANGED <<maxBps, whitelist, history>>

\* ExecuteMsg::Send: a call that gave nothing back is refused.
MaySend == bank[Contract] # Nothing

DoSend ==
    LET u == Head(queue).to
    IN  /\ Upcoming("send")
        /\ MaySend
        /\ bank' = [bank EXCEPT ![Contract] = Nothing, ![u] = Plus(@, bank[Contract])]
        /\ Reply
        /\ UNCHANGED <<maxBps, whitelist, history>>

Deliver ==
    \/ DoPayFees
    \/ \E given \in Gifts, to \in Holders : DoCall(given, to)
    \/ DoSend

MayFail == CASE Head(queue).type = "pay"  -> FALSE
             [] Head(queue).type = "call" -> TRUE
             [] Head(queue).type = "send" -> ~MaySend

\* A failure undoes the transaction, the fees with it.
Revert ==
    /\ queue # <<>>
    /\ MayFail
    /\ bank' = before.bank
    /\ due' = before.due /\ allowed' = before.allowed
    /\ earned' = before.earned /\ calls' = before.calls
    /\ queue' = <<>>
    /\ before' = <<>>
    /\ UNCHANGED <<maxBps, whitelist>>

-----------------------------------------------------------------------------
(* sudo, and what others do                                                *)

\* A mutant of ValidBps: the new rate is saved as it is.
AnyBps(bps) == TRUE

\* Config::validate
ValidBps(bps) == bps <= Full

UpdateConfig(bps) ==
    /\ ValidBps(bps)
    /\ maxBps' = bps
    /\ UNCHANGED <<whitelist, bank, queue, before, history>>

AddWhitelisted(t) ==
    /\ whitelist' = whitelist \cup {t}
    /\ UNCHANGED <<maxBps, bank, queue, before, history>>

RemoveWhitelisted(t) ==
    /\ whitelist' = whitelist \ {t}
    /\ UNCHANGED <<maxBps, bank, queue, before, history>>

\* Anyone can send coins to the contract without calling it.
Donate(u, x) ==
    /\ Leq(x, bank[u])
    /\ bank' = [bank EXCEPT ![u] = Minus(@, x), ![Contract] = Plus(@, x)]
    /\ UNCHANGED <<maxBps, whitelist, queue, before, history>>

\* What lies between two transactions of the contract.
Between ==
    /\ queue = <<>>
    /\ \/ \E bps \in Rates : UpdateConfig(bps)
       \/ \E t \in Targets : AddWhitelisted(t) \/ RemoveWhitelisted(t)
       \/ \E u \in Callers, x \in Gifts : Donate(u, x)

-----------------------------------------------------------------------------

Init ==
    /\ maxBps \in {bps \in Rates : ValidBps(bps)}
    /\ whitelist \in SUBSET Targets
    /\ bank = Supply
    /\ queue = <<>>
    /\ before = <<>>
    /\ due = Nothing /\ allowed = Nothing /\ earned = Nothing
    /\ calls = 0

Begins ==
    \E u \in Callers, t \in Targets, x \in Gifts :
        \/ Execute(u, t, x)
        \/ \E payee \in Payees, bps \in Rates : ExecuteFor(u, t, x, payee, bps)

Next == Begins \/ Deliver \/ Revert \/ Between

Spec == Init /\ [][Next]_vars

-----------------------------------------------------------------------------
(* Properties                                                              *)

PayMessage  == [type : {"pay"}, to : Payees, funds : Funds]
CallMessage == [type : {"call"}, to : Targets, coins : SUBSET Coins, funds : Funds]
SendMessage == [type : {"send"}, to : Callers]

\* Types; the highest rate is never above the whole.
TypeOK ==
    /\ maxBps \in 0 .. Full
    /\ whitelist \subseteq Targets
    /\ bank \in [Holders -> Funds]
    /\ queue \in Seq(PayMessage \cup CallMessage \cup SendMessage)
    /\ due \in Funds /\ allowed \in Funds /\ earned \in Funds
    /\ calls \in Nat

\* The fee and what is passed on never add up to more than was attached: when
\* the turn of a payment comes the contract has what it is to pay.
Covered == queue # <<>> /\ Head(queue).type # "send" => Leq(Head(queue).funds, bank[Contract])

\* A transaction that is not undone leaves nothing with the contract, neither
\* what the called contract gave back nor what was sent to it before.
Emptied == [][Deliver /\ queue' = <<>> => bank'[Contract] = Nothing]_vars

\* The fees e of n calls: short of what is due by less than a unit a call.
Fair(d, a, e, n) ==
    \A c \in Coins :
        /\ d[c] - n * (Full - 1) <= e[c] * Full
        /\ e[c] * Full <= d[c]
        /\ d[c] <= a[c]

\* Over any sequence of calls the fees paid in a coin are, but for less than a
\* unit a call and never above it, the rates named times the amounts attached,
\* and no more than the highest rates of the time allow; a call that is undone
\* costs no fee.
FairFees == queue = <<>> => Fair(due, allowed, earned, calls)

=============================================================================
