--------------------------- MODULE AffiliateProofs ---------------------------
(***************************************************************************)
(* What holds of the affiliate contract for every choice of its constants: *)
(* any coins, accounts, called contracts, amounts and rates.               *)
(***************************************************************************)
EXTENDS Affiliate, SequenceTheorems, TLAPS

-----------------------------------------------------------------------------
(* The fee of one call.                                                    *)

\* Rounding down loses less than a unit; at a rate within the whole the fee
\* and the net amount are parts of the amount.
LEMMA FeeParts ==
    ASSUME NEW n \in Nat, NEW bps \in Nat
    PROVE  /\ Fee(bps, n) \in Nat
           /\ Fee(bps, n) * Full <= bps * n
           /\ bps * n - (Full - 1) <= Fee(bps, n) * Full
           /\ bps <= Full => /\ Net(bps, n) \in Nat
                             /\ Fee(bps, n) + Net(bps, n) = n
<1>1. n * bps \in Nat /\ n * bps = bps * n
  OBVIOUS
<1>2. /\ Fee(bps, n) \in Nat
      /\ Fee(bps, n) * Full <= n * bps
      /\ n * bps < Fee(bps, n) * Full + Full
  BY <1>1, AffiliateAssumptions DEF Fee
<1>3. ASSUME bps <= Full PROVE Fee(bps, n) <= n
  <2>1. n * bps <= n * Full
    BY <1>3, AffiliateAssumptions
  <2>2. Fee(bps, n) * Full <= n * Full
    BY <1>1, <1>2, <2>1, AffiliateAssumptions
  <2> QED
    BY <1>2, <2>2, AffiliateAssumptions
<1> QED
  BY <1>1, <1>2, <1>3, AffiliateAssumptions DEF Net

\* Products of amounts keep their order.
LEMMA TimesMonotone ==
    ASSUME NEW i \in Nat, NEW j \in Nat, NEW n \in Nat, i <= j
    PROVE  i * n \in Nat /\ j * n \in Nat /\ i * n <= j * n
OBVIOUS

\* One more call: what is due and what is earned of a coin grow by rate times
\* amount (r) and by the fee (f), at most the highest rate's (h).
LEMMA FairStep ==
    ASSUME NEW d \in Nat, NEW a \in Nat, NEW e \in Nat, NEW n \in Nat,
           NEW r \in Nat, NEW h \in Nat, NEW f \in Nat,
           d - n * (Full - 1) <= e * Full, e * Full <= d, d <= a,
           r - (Full - 1) <= f * Full, f * Full <= r, r <= h
    PROVE  /\ (d + r) - (n + 1) * (Full - 1) <= (e + f) * Full
           /\ (e + f) * Full <= d + r
           /\ d + r <= a + h
<1>1. /\ (e + f) * Full = e * Full + f * Full
      /\ (n + 1) * (Full - 1) = n * (Full - 1) + (Full - 1)
      /\ e * Full \in Int /\ f * Full \in Int /\ n * (Full - 1) \in Int /\ Full \in Int
  BY AffiliateAssumptions
<1> QED
  BY <1>1

\* Amounts by coin add up and come apart coin by coin.
LEMMA FundsType ==
    ASSUME NEW x \in Funds, NEW y \in Funds
    PROVE  /\ Plus(x, y) \in Funds
           /\ Leq(y, x) => Minus(x, y) \in Funds
           /\ Nothing \in Funds
           /\ Plus(x, Nothing) = x
BY DEF Funds, Plus, Minus, Leq, Nothing

\* Two payments that a balance covers together: each is covered by itself, and
\* the second by what the first leaves.
LEMMA CoversParts ==
    ASSUME NEW x \in Funds, NEW y \in Funds, NEW b \in Funds, Leq(Plus(x, y), b)
    PROVE  Leq(x, b) /\ Leq(y, b) /\ Leq(y, Minus(b, x))
<1> SUFFICES ASSUME NEW c \in Coins
             PROVE  x[c] <= b[c] /\ y[c] <= b[c] /\ y[c] <= b[c] - x[c]
  BY DEF Leq, Minus
<1>1. x[c] \in Nat /\ y[c] \in Nat /\ b[c] \in Nat
  BY DEF Funds
<1>2. x[c] + y[c] <= b[c]
  BY DEF Leq, Plus
<1> QED
  BY <1>1, <1>2

\* What covers y covers x, when y covers x; and a balance that grows still does.
LEMMA CoversMore ==
    ASSUME NEW x \in Funds, NEW y \in Funds, NEW b \in Funds, Leq(x, y)
    PROVE  (Leq(y, b) => Leq(x, b)) /\ Leq(x, Plus(y, b)) /\ Leq(y, Plus(b, y))
<1>1. \A c \in Coins : x[c] \in Nat /\ y[c] \in Nat /\ b[c] \in Nat /\ x[c] <= y[c]
  BY DEF Funds, Leq
<1> QED
  BY <1>1 DEF Leq, Plus

\* The fees and the net amounts of a call are the amounts attached.
LEMMA FeesParts ==
    ASSUME NEW x \in Funds, NEW bps \in Nat, bps <= Full
    PROVE  /\ Fees(bps, x) \in Funds
           /\ Nets(bps, x) \in Funds
           /\ Leq(Nets(bps, x), Minus(x, Fees(bps, x)))
           /\ Leq(Plus(Fees(bps, x), Nets(bps, x)), x)
<1>1. \A c \in Coins : /\ Fee(bps, x[c]) \in Nat /\ Net(bps, x[c]) \in Nat
                       /\ Fee(bps, x[c]) + Net(bps, x[c]) = x[c]
  BY FeeParts DEF Funds
<1> QED
  BY <1>1 DEF Funds, Fees, Nets, Leq, Plus, Minus

\* A payment in front of the other two messages.
LEMMA InFront ==
    ASSUME NEW S, NEW pay \in S, NEW call \in S, NEW send \in S
    PROVE  <<pay>> \o <<call, send>> = <<pay, call, send>>
<1> DEFINE s == <<pay>> \o <<call, send>>
           m == <<pay, call, send>>
<1>1. <<pay>> \in Seq(S) /\ <<call, send>> \in Seq(S) /\ m \in Seq(S)
  OBVIOUS
<1>2. Len(<<pay>>) = 1 /\ Len(<<call, send>>) = 2 /\ Len(m) = 3
  OBVIOUS
<1>3. s \in Seq(S) /\ Len(s) = 3
  BY <1>1, <1>2, ConcatProperties
<1>4. \A i \in 1 .. 3 : s[i] = m[i]
  BY <1>1, <1>2, ConcatProperties
<1> QED
  BY <1>1, <1>2, <1>3, <1>4, SeqEqual

-----------------------------------------------------------------------------
(* The inductive invariant.                                                *)

\* The messages of a transaction stand in one of four shapes, and the payments
\* among them are covered together, not only the first.
Shape ==
    \/ queue = <<>>
    \/ \E send \in SendMessage : queue = <<send>>
    \/ \E call \in CallMessage, send \in SendMessage :
           /\ queue = <<call, send>>
           /\ Leq(call.funds, bank[Contract])
    \/ \E pay \in PayMessage, call \in CallMessage, send \in SendMessage :
           /\ queue = <<pay, call, send>>
           /\ Leq(Plus(pay.funds, call.funds), bank[Contract])

\* Fees of a transaction under way that are still to be paid.
Pending == IF Upcoming("pay") THEN Head(queue).funds ELSE Nothing

Types ==
    /\ maxBps \in 0 .. Full
    /\ whitelist \subseteq Targets
    /\ bank \in [Holders -> Funds]
    /\ due \in Funds /\ allowed \in Funds /\ earned \in Funds
    /\ calls \in Nat

\* What a failure restores is a state the invariant holds in.
Restorable ==
    queue # <<>> => /\ before.bank \in [Holders -> Funds]
                    /\ before.due \in Funds /\ before.allowed \in Funds
                    /\ before.earned \in Funds /\ before.calls \in Nat
                    /\ Fair(before.due, before.allowed, before.earned, before.calls)

IInv ==
    /\ Types
    /\ Shape
    /\ Fair(due, allowed, Plus(earned, Pending), calls)
    /\ Restorable

\* The first message of each shape, and what is left without it.
LEMMA ShapeHead ==
    ASSUME IInv, queue # <<>>
    PROVE  /\ Upcoming("pay") => /\ Head(queue) \in PayMessage
                                 /\ \E call \in CallMessage, send \in SendMessage :
                                        /\ Tail(queue) = <<call, send>>
                                        /\ Leq(Plus(Head(queue).funds, call.funds), bank[Contract])
           /\ Upcoming("call") => /\ Head(queue) \in CallMessage
                                  /\ Leq(Head(queue).funds, bank[Contract])
                                  /\ \E send \in SendMessage : Tail(queue) = <<send>>
           /\ Upcoming("send") => Head(queue) \in SendMessage /\ Tail(queue) = <<>>
           /\ Upcoming("pay") \/ Upcoming("call") \/ Upcoming("send")
<1>1. CASE \E send \in SendMessage : queue = <<send>>
  <2>1. PICK send \in SendMessage : queue = <<send>>
    BY <1>1
  <2>2. Head(queue) = send /\ Tail(queue) = <<>> /\ send.type = "send"
    BY <2>1 DEF SendMessage
  <2> QED
    BY <2>2 DEF Upcoming
<1>2. CASE \E call \in CallMessage, send \in SendMessage :
               queue = <<call, send>> /\ Leq(call.funds, bank[Contract])
  <2>1. PICK call \in CallMessage, send \in SendMessage :
               queue = <<call, send>> /\ Leq(call.funds, bank[Contract])
    BY <1>2
  <2>2. Head(queue) = call /\ Tail(queue) = <<send>> /\ call.type = "call"
    BY <2>1 DEF CallMessage
  <2> QED
    BY <2>1, <2>2 DEF Upcoming
<1>3. CASE \E pay \in PayMessage, call \in CallMessage, send \in SendMessage :
               /\ queue = <<pay, call, send>>
               /\ Leq(Plus(pay.funds, call.funds), bank[Contract])
  <2>1. PICK pay \in PayMessage, call \in CallMessage, send \in SendMessage :
               /\ queue = <<pay, call, send>>
               /\ Leq(Plus(pay.funds, call.funds), bank[Contract])
    BY <1>3
  <2>2. Head(queue) = pay /\ Tail(queue) = <<call, send>> /\ pay.type = "pay"
    BY <2>1 DEF PayMessage
  <2> QED
    BY <2>1, <2>2 DEF Upcoming
<1> QED
  BY <1>1, <1>2, <1>3 DEF IInv, Shape

\* What the invariant gives the properties: the messages' types, and the first
\* payment covered.
LEMMA IInvImplies ==
    ASSUME IInv
    PROVE  TypeOK /\ Covered /\ FairFees
<1>1. queue \in Seq(PayMessage \cup CallMessage \cup SendMessage)
  <2>1. CASE queue = <<>>
    BY <2>1
  <2>2. CASE \E send \in SendMessage : queue = <<send>>
    BY <2>2
  <2>3. CASE \E call \in CallMessage, send \in SendMessage : queue = <<call, send>>
    BY <2>3
  <2>4. CASE \E pay \in PayMessage, call \in CallMessage, send \in SendMessage :
                 queue = <<pay, call, send>>
    BY <2>4
  <2> QED
    BY <2>1, <2>2, <2>3, <2>4 DEF IInv, Shape
<1>2. Covered
  <2>1. SUFFICES ASSUME queue # <<>>, Head(queue).type # "send"
                 PROVE  Leq(Head(queue).funds, bank[Contract])
    BY DEF Covered
  <2>2. CASE Upcoming("call")
    BY <2>1, <2>2, ShapeHead
  <2>3. CASE Upcoming("pay")
    <3>1. PICK call \in CallMessage : Leq(Plus(Head(queue).funds, call.funds), bank[Contract])
      BY <2>1, <2>3, ShapeHead
    <3>2. Head(queue).funds \in Funds /\ call.funds \in Funds /\ bank[Contract] \in Funds
      BY <2>1, <2>3, ShapeHead, AffiliateAssumptions DEF PayMessage, CallMessage, IInv, Types
    <3> QED
      BY <3>1, <3>2, CoversParts
  <2> QED
    BY <2>1, <2>2, <2>3, ShapeHead DEF Upcoming
<1>3. FairFees
  <2>1. SUFFICES ASSUME queue = <<>> PROVE Fair(due, allowed, earned, calls)
    BY DEF FairFees
  <2>2. Plus(earned, Pending) = earned
    BY <2>1, FundsType DEF Pending, Upcoming, IInv, Types
  <2> QED
    BY <2>2 DEF IInv
<1> QED
  BY <1>1, <1>2, <1>3 DEF TypeOK, IInv, Types

-----------------------------------------------------------------------------
(* The steps.                                                              *)

\* The contract starts with nothing, nothing due and no message.
LEMMA InitHolds == Init => IInv
<1> SUFFICES ASSUME Init PROVE IInv
  OBVIOUS
<1>1. Nothing \in Funds /\ Plus(Nothing, Nothing) = Nothing
  BY FundsType DEF Nothing, Funds, Plus
<1>2. Types
  BY <1>1, AffiliateAssumptions DEF Init, Types, ValidBps
<1>3. Pending = Nothing /\ Shape /\ Restorable
  BY DEF Init, Pending, Upcoming, Shape, Restorable
<1>4. Fair(due, allowed, Plus(earned, Pending), calls)
  <2>1. due = Nothing /\ allowed = Nothing /\ Plus(earned, Pending) = Nothing /\ calls = 0
    BY <1>1, <1>3 DEF Init
  <2>2. Full \in Int
    BY AffiliateAssumptions
  <2>3. \A c \in Coins : Nothing[c] = 0
    BY DEF Nothing
  <2>4. Fair(Nothing, Nothing, Nothing, 0)
    <3>1. 0 * (Full - 1) = 0 /\ 0 * Full = 0 /\ 0 - 0 <= 0 /\ 0 <= 0
      BY <2>2
    <3>2. \A c \in Coins : /\ Nothing[c] - 0 * (Full - 1) <= Nothing[c] * Full
                           /\ Nothing[c] * Full <= Nothing[c]
                           /\ Nothing[c] <= Nothing[c]
      BY <2>3, <3>1
    <3> QED
      BY <3>2 DEF Fair
  <2> QED
    BY <2>1, <2>4
<1> QED
  BY <1>2, <1>3, <1>4 DEF IInv

\* A transaction starts from a state that may be restored; the caller's coins
\* are the contract's.
LEMMA Started ==
    ASSUME IInv, NEW u \in Callers, NEW x \in Gifts, NEW m, Start(u, x, m)
    PROVE  /\ x \in Funds
           /\ bank' \in [Holders -> Funds]
           /\ Leq(x, bank'[Contract])
           /\ maxBps' = maxBps /\ whitelist' = whitelist
           /\ Restorable'
<1>1. x \in Funds /\ bank[u] \in Funds /\ bank[Contract] \in Funds
      /\ u \in Holders /\ Contract \in Holders /\ u # Contract
  BY AffiliateAssumptions DEF IInv, Types
<1>2. Minus(bank[u], x) \in Funds /\ Plus(bank[Contract], x) \in Funds
  BY <1>1, FundsType DEF Start
<1>3. bank' \in [Holders -> Funds] /\ bank'[Contract] = Plus(bank[Contract], x)
  BY <1>1, <1>2 DEF Start, IInv, Types
<1>4. Leq(x, bank'[Contract])
  <2>1. Leq(x, x)
    BY <1>1 DEF Leq, Funds
  <2> QED
    BY <1>1, <1>3, <2>1, CoversMore
<1>5. queue = <<>> /\ Plus(earned, Pending) = earned
  BY FundsType DEF Start, Pending, Upcoming, IInv, Types
<1>6. Restorable'
  BY <1>5 DEF Start, IInv, Types, Restorable, Fair
<1> QED
  BY <1>1, <1>3, <1>4, <1>6 DEF Start

\* A call without an affiliate owes no fee.
LEMMA ExecuteKeeps ==
    ASSUME IInv, NEW u \in Callers, NEW t \in Targets, NEW x \in Gifts, Execute(u, t, x)
    PROVE  IInv'
<1> DEFINE call == Call(t, Attached(x), x)
           send == ThenSend(u)
<1>1. Start(u, x, <<call, send>>)
  BY DEF Execute, Messages
<1>2. /\ x \in Funds /\ bank' \in [Holders -> Funds] /\ Leq(x, bank'[Contract])
      /\ maxBps' = maxBps /\ whitelist' = whitelist /\ Restorable'
  BY <1>1, Started
<1>3. queue' = <<call, send>> /\ queue = <<>>
  BY <1>1 DEF Start
<1>4. call \in CallMessage /\ send \in SendMessage /\ call.funds = x /\ call.type = "call"
  BY <1>2 DEF Call, ThenSend, CallMessage, SendMessage, Attached
<1>5. Types'
  BY <1>2 DEF IInv, Types, Execute, history
<1>6. Shape'
  BY <1>2, <1>3, <1>4 DEF Shape
<1>7. Pending' = Nothing /\ Pending = Nothing
  BY <1>3, <1>4 DEF Pending, Upcoming
<1>8. Fair(due, allowed, Plus(earned, Pending), calls)'
  BY <1>7 DEF IInv, Fair, Plus, Nothing, Execute, history
<1> QED
  BY <1>2, <1>5, <1>6, <1>8 DEF IInv

\* A call with an affiliate adds its fees, rounded down, to what is pending.
LEMMA ChargedFair ==
    ASSUME IInv, queue = <<>>, NEW x \in Funds, NEW bps \in Nat, bps <= maxBps,
           due' = [c \in Coins |-> due[c] + bps * x[c]],
           allowed' = [c \in Coins |-> allowed[c] + maxBps * x[c]],
           calls' = calls + 1, earned' = earned
    PROVE  /\ due' \in Funds /\ allowed' \in Funds /\ calls' \in Nat
           /\ Fair(due', allowed', Plus(earned', Fees(bps, x)), calls')
<1>1. /\ due \in Funds /\ allowed \in Funds /\ earned \in Funds /\ calls \in Nat
      /\ maxBps \in Nat /\ maxBps <= Full /\ Full \in Nat /\ Full > 0
  BY AffiliateAssumptions DEF IInv, Types
<1>2. Fair(due, allowed, earned, calls)
  <2>1. Plus(earned, Pending) = earned
    BY <1>1, FundsType DEF Pending, Upcoming
  <2> QED
    BY <2>1 DEF IInv
<1>3. ASSUME NEW c \in Coins
      PROVE  /\ x[c] \in Nat /\ due[c] \in Nat /\ allowed[c] \in Nat /\ earned[c] \in Nat
             /\ bps * x[c] \in Nat /\ maxBps * x[c] \in Nat /\ bps * x[c] <= maxBps * x[c]
  <2>1. x[c] \in Nat /\ due[c] \in Nat /\ allowed[c] \in Nat /\ earned[c] \in Nat
    BY <1>1 DEF Funds
  <2> QED
    BY <1>1, <2>1, TimesMonotone
<1>4. due' \in Funds /\ allowed' \in Funds /\ calls' \in Nat
  BY <1>1, <1>3 DEF Funds
<1>5. ASSUME NEW c \in Coins
      PROVE  /\ due'[c] - calls' * (Full - 1) <= Plus(earned', Fees(bps, x))[c] * Full
             /\ Plus(earned', Fees(bps, x))[c] * Full <= due'[c]
             /\ due'[c] <= allowed'[c]
  <2>1. /\ Fee(bps, x[c]) \in Nat /\ Fee(bps, x[c]) * Full <= bps * x[c]
        /\ bps * x[c] - (Full - 1) <= Fee(bps, x[c]) * Full
    BY <1>3, FeeParts
  <2>2. /\ Plus(earned', Fees(bps, x))[c] = earned[c] + Fee(bps, x[c])
        /\ due'[c] = due[c] + bps * x[c] /\ allowed'[c] = allowed[c] + maxBps * x[c]
    BY DEF Plus, Fees
  <2>3. /\ due[c] - calls * (Full - 1) <= earned[c] * Full
        /\ earned[c] * Full <= due[c] /\ due[c] <= allowed[c]
    BY <1>2 DEF Fair
  <2>4. /\ (due[c] + bps * x[c]) - (calls + 1) * (Full - 1)
              <= (earned[c] + Fee(bps, x[c])) * Full
        /\ (earned[c] + Fee(bps, x[c])) * Full <= due[c] + bps * x[c]
        /\ due[c] + bps * x[c] <= allowed[c] + maxBps * x[c]
    BY <1>1, <1>3, <2>1, <2>3, FairStep
  <2> QED
    BY <2>2, <2>4
<1> QED
  BY <1>4, <1>5 DEF Fair

\* ... and splits the attached coins into the fees and the coins of the call.
LEMMA ExecuteForKeeps ==
    ASSUME IInv, NEW u \in Callers, NEW t \in Targets, NEW x \in Gifts,
           NEW payee \in Payees, NEW bps \in Rates, ExecuteFor(u, t, x, payee, bps)
    PROVE  IInv'
<1> DEFINE fees == Fees(bps, x)
           nets == Nets(bps, x)
           pay  == PayFees(payee, fees)
           call == Call(t, Attached(x), nets)
           send == ThenSend(u)
           m    == Messages(IF fees = Nothing THEN <<>> ELSE <<pay>>, call, send)
<1>1. Start(u, x, m) /\ bps <= maxBps
  BY DEF ExecuteFor, MayCharge
<1>2. /\ x \in Funds /\ bank' \in [Holders -> Funds] /\ Leq(x, bank'[Contract])
      /\ maxBps' = maxBps /\ whitelist' = whitelist /\ Restorable'
  BY <1>1, Started
<1>3. queue = <<>> /\ queue' = m /\ bps \in Nat /\ bps <= Full /\ bank'[Contract] \in Funds
  BY <1>1, <1>2, AffiliateAssumptions DEF Start, IInv, Types
<1>4. fees \in Funds /\ nets \in Funds /\ Leq(Plus(fees, nets), x)
  BY <1>2, <1>3, FeesParts
<1>5. /\ pay \in PayMessage /\ pay.type = "pay" /\ pay.funds = fees
      /\ call \in CallMessage /\ call.type = "call" /\ call.funds = nets
      /\ send \in SendMessage
  BY <1>4 DEF PayFees, Call, ThenSend, PayMessage, CallMessage, SendMessage, Attached
<1>6. Leq(Plus(fees, nets), bank'[Contract]) /\ Leq(nets, bank'[Contract])
  <2>1. Plus(fees, nets) \in Funds
    BY <1>4, FundsType
  <2>2. Leq(Plus(fees, nets), bank'[Contract])
    BY <1>2, <1>3, <1>4, <2>1, CoversMore
  <2> QED
    BY <1>3, <1>4, <2>2, CoversParts
<1>7. due' \in Funds /\ allowed' \in Funds /\ calls' \in Nat
      /\ Fair(due', allowed', Plus(earned', fees), calls') /\ earned' = earned
  BY <1>1, <1>2, <1>3, ChargedFair DEF ExecuteFor
<1>8. Types'
  BY <1>2, <1>7 DEF IInv, Types
<1>9. Shape' /\ Pending' = fees
  <2> HIDE DEF fees, nets, pay, call, send
  <2>1. CASE fees = Nothing
    <3>1. queue' = <<call, send>>
      BY <1>3, <2>1 DEF Messages
    <3> QED
      BY <1>5, <1>6, <2>1, <3>1 DEF Shape, Pending, Upcoming
  <2>2. CASE fees # Nothing
    <3>1. <<pay>> \o <<call, send>> = <<pay, call, send>>
      <4> DEFINE S == PayMessage \cup CallMessage \cup SendMessage
      <4>1. pay \in S /\ call \in S /\ send \in S
        BY <1>5
      <4> QED
        BY <4>1, InFront
    <3>2. queue' = <<pay, call, send>>
      BY <1>3, <2>2, <3>1 DEF Messages
    <3> QED
      BY <1>5, <1>6, <2>2, <3>2 DEF Shape, Pending, Upcoming
  <2> QED
    BY <2>1, <2>2
<1> QED
  BY <1>2, <1>7, <1>8, <1>9 DEF IInv

\* The fees are paid: they were pending, now they are earned.
LEMMA DoPayFeesKeeps ==
    ASSUME IInv, DoPayFees
    PROVE  IInv'
<1> DEFINE pay == Head(queue)
<1>1. /\ queue # <<>> /\ pay \in PayMessage /\ Pending = pay.funds
      /\ queue' = Tail(queue) /\ earned' = Plus(earned, pay.funds)
      /\ UNCHANGED <<maxBps, whitelist, due, allowed, calls>>
  BY ShapeHead DEF DoPayFees, Upcoming, Reply, Pending
<1>2. PICK call \in CallMessage, send \in SendMessage :
          Tail(queue) = <<call, send>> /\ Leq(Plus(pay.funds, call.funds), bank[Contract])
  BY <1>1, ShapeHead DEF DoPayFees
<1>3. /\ pay.funds \in Funds /\ pay.to \in Holders /\ call.funds \in Funds /\ call.type = "call"
      /\ bank[Contract] \in Funds /\ Contract \in Holders
  BY <1>1, AffiliateAssumptions DEF PayMessage, CallMessage, IInv, Types
<1>4. Minus(bank[Contract], pay.funds) \in Funds
  BY <1>3, FundsType DEF DoPayFees
<1> DEFINE paid == [bank EXCEPT ![Contract] = Minus(@, pay.funds)]
<1>5. paid \in [Holders -> Funds] /\ paid[Contract] = Minus(bank[Contract], pay.funds)
  BY <1>3, <1>4 DEF IInv, Types
<1>6. bank' = [paid EXCEPT ![pay.to] = Plus(@, pay.funds)]
  BY DEF DoPayFees
<1>7. bank' \in [Holders -> Funds]
  <2>1. Plus(paid[pay.to], pay.funds) \in Funds
    BY <1>3, <1>5, FundsType
  <2> QED
    BY <1>5, <1>6, <2>1
<1>8. Leq(call.funds, bank'[Contract])
  <2>1. Leq(call.funds, paid[Contract])
    BY <1>2, <1>3, <1>5, CoversParts
  <2>2. bank'[Contract] = paid[Contract] \/ bank'[Contract] = Plus(paid[Contract], pay.funds)
    BY <1>3, <1>5, <1>6
  <2>3. paid[Contract] \in Funds
    BY <1>3, <1>5
  <2> QED
    BY <1>3, <2>1, <2>2, <2>3, CoversMore
<1>9. Shape' /\ Pending' = Nothing
  <2>1. queue' = <<call, send>>
    BY <1>1, <1>2
  <2>2. ~Upcoming("pay")'
    BY <1>3, <2>1 DEF Upcoming
  <2> HIDE DEF pay, paid
  <2> QED
    BY <1>8, <2>1, <2>2 DEF Shape, Pending
<1>10. earned' \in Funds /\ Plus(earned', Nothing) = Plus(earned, Pending)
  BY <1>1, <1>3, FundsType DEF IInv, Types
<1>11. Types'
  BY <1>1, <1>7, <1>10 DEF IInv, Types
<1>12. Restorable'
  BY <1>1, <1>2 DEF IInv, Restorable, DoPayFees, Reply
<1> QED
  BY <1>1, <1>9, <1>10, <1>11, <1>12 DEF IInv

\* The called contract: whatever it gives, the message to send is what is left.
LEMMA DoCallKeeps ==
    ASSUME IInv, NEW given \in Gifts, NEW to \in Holders, DoCall(given, to)
    PROVE  IInv'
<1> DEFINE call == Head(queue)
           paid == [bank EXCEPT ![Contract] = Minus(@, call.funds),
                                ![call.to] = Plus(@, call.funds)]
<1>1. /\ queue # <<>> /\ call \in CallMessage /\ Pending = Nothing
      /\ Leq(call.funds, bank[Contract])
      /\ queue' = Tail(queue)
      /\ \E send \in SendMessage : Tail(queue) = <<send>>
      /\ UNCHANGED <<maxBps, whitelist, history>>
  BY ShapeHead DEF DoCall, Upcoming, Reply, Pending
<1>2. /\ call.funds \in Funds /\ call.to \in Holders /\ call.to # Contract
      /\ given \in Funds /\ Contract \in Holders
  BY <1>1, AffiliateAssumptions DEF CallMessage
<1>3. Minus(bank[Contract], call.funds) \in Funds /\ Plus(bank[call.to], call.funds) \in Funds
  BY <1>1, <1>2, FundsType DEF IInv, Types
<1>4. paid \in [Holders -> Funds]
  BY <1>2, <1>3 DEF IInv, Types
<1>5. /\ Leq(given, paid[call.to])
      /\ bank' = [[paid EXCEPT ![call.to] = Minus(@, given)] EXCEPT ![to] = Plus(@, given)]
  BY DEF DoCall
<1> HIDE DEF paid
<1>6. bank' \in [Holders -> Funds]
  <2> DEFINE gave == [paid EXCEPT ![call.to] = Minus(@, given)]
  <2>1. Minus(paid[call.to], given) \in Funds
    BY <1>2, <1>4, <1>5, FundsType
  <2>2. gave \in [Holders -> Funds]
    BY <1>2, <1>4, <2>1
  <2>3. bank' = [gave EXCEPT ![to] = Plus(@, given)]
    BY <1>5
  <2> HIDE DEF gave
  <2>4. Plus(gave[to], given) \in Funds
    BY <1>2, <2>2, FundsType
  <2> QED
    BY <2>2, <2>3, <2>4
<1>7. PICK send \in SendMessage : queue' = <<send>>
  BY <1>1
<1>8. Shape' /\ Pending' = Nothing
  BY <1>7 DEF Shape, Pending, Upcoming, SendMessage
<1>9. Types'
  BY <1>1, <1>6 DEF IInv, Types, history
<1>10. Restorable'
  BY <1>1, <1>7 DEF IInv, Restorable, DoCall, Reply
<1> QED
  BY <1>1, <1>8, <1>9, <1>10 DEF IInv, history

\* The last message: the contract's balances are the caller's.
LEMMA DoSendKeeps ==
    ASSUME IInv, DoSend
    PROVE  IInv' /\ bank'[Contract] = Nothing
<1> DEFINE u == Head(queue).to
<1>1. /\ Head(queue) \in SendMessage /\ queue' = <<>> /\ Pending = Nothing
      /\ UNCHANGED <<maxBps, whitelist, history>>
      /\ bank' = [bank EXCEPT ![Contract] = Nothing, ![u] = Plus(@, bank[Contract])]
  BY ShapeHead DEF DoSend, Upcoming, Reply, Pending
<1>2. u \in Holders /\ u # Contract /\ Contract \in Holders /\ u \in Callers
  BY <1>1, AffiliateAssumptions DEF SendMessage
<1>3. Plus(bank[u], bank[Contract]) \in Funds /\ Nothing \in Funds
  BY <1>2, FundsType DEF IInv, Types
<1>4. bank' \in [Holders -> Funds] /\ bank'[Contract] = Nothing
  BY <1>1, <1>2, <1>3 DEF IInv, Types
<1>5. Shape' /\ Pending' = Nothing /\ Restorable'
  BY <1>1 DEF Shape, Pending, Upcoming, Restorable
<1> QED
  BY <1>1, <1>4, <1>5 DEF IInv, Types, history

\* A transaction that is undone.
LEMMA RevertKeeps ==
    ASSUME IInv, Revert
    PROVE  IInv'
<1>1. /\ queue' = <<>> /\ Pending' = Nothing
      /\ bank' = before.bank /\ due' = before.due /\ allowed' = before.allowed
      /\ earned' = before.earned /\ calls' = before.calls
      /\ UNCHANGED <<maxBps, whitelist>>
  BY DEF Revert, Pending, Upcoming
<1>2. Types' /\ Fair(due', allowed', earned', calls')
  BY <1>1 DEF Revert, IInv, Types, Restorable
<1>3. Plus(earned', Pending') = earned'
  BY <1>1, <1>2, FundsType DEF Types
<1> QED
  BY <1>1, <1>2, <1>3 DEF IInv, Shape, Restorable

\* Governance and donations, between transactions.
LEMMA BetweenKeeps ==
    ASSUME IInv, Between
    PROVE  IInv'
<1>1. queue = <<>> /\ queue' = <<>> /\ UNCHANGED history
  BY DEF Between, UpdateConfig, AddWhitelisted, RemoveWhitelisted, Donate
<1>2. maxBps' \in 0 .. Full /\ whitelist' \subseteq Targets /\ bank' \in [Holders -> Funds]
  <2>1. CASE \E bps \in Rates : UpdateConfig(bps)
    BY <2>1, AffiliateAssumptions DEF UpdateConfig, ValidBps, IInv, Types
  <2>2. CASE \E t \in Targets : AddWhitelisted(t) \/ RemoveWhitelisted(t)
    BY <2>2 DEF AddWhitelisted, RemoveWhitelisted, IInv, Types
  <2>3. CASE \E u \in Callers, x \in Gifts : Donate(u, x)
    <3>1. PICK u \in Callers, x \in Gifts : Donate(u, x)
      BY <2>3
    <3>2. /\ x \in Funds /\ u \in Holders /\ Contract \in Holders
          /\ bank[u] \in Funds /\ bank[Contract] \in Funds
      BY AffiliateAssumptions DEF IInv, Types
    <3>3. Minus(bank[u], x) \in Funds /\ Plus(bank[Contract], x) \in Funds
      BY <3>1, <3>2, FundsType DEF Donate
    <3> QED
      BY <3>1, <3>2, <3>3 DEF Donate, IInv, Types
  <2> QED
    BY <2>1, <2>2, <2>3 DEF Between
<1>3. Shape' /\ Restorable' /\ Pending' = Nothing /\ Pending = Nothing
  BY <1>1 DEF Shape, Restorable, Pending, Upcoming
<1> QED
  BY <1>1, <1>2, <1>3 DEF IInv, Types, history

\* Every step keeps the invariant; a step that commits leaves nothing.
LEMMA NextKeeps ==
    ASSUME IInv, [Next]_vars
    PROVE  /\ IInv'
           /\ (Deliver /\ queue' = <<>>) => bank'[Contract] = Nothing
<1>1. IInv'
  <2>1. CASE Begins
    BY <2>1, ExecuteKeeps, ExecuteForKeeps DEF Begins
  <2>2. CASE Deliver
    BY <2>2, DoPayFeesKeeps, DoCallKeeps, DoSendKeeps DEF Deliver
  <2>3. CASE Revert
    BY <2>3, RevertKeeps
  <2>4. CASE Between
    BY <2>4, BetweenKeeps
  <2>5. CASE UNCHANGED vars
    BY <2>5 DEF vars, history, IInv, Types, Shape, Pending, Upcoming, Restorable, Fair
  <2> QED
    BY <2>1, <2>2, <2>3, <2>4, <2>5 DEF Next
<1>2. ASSUME Deliver, queue' = <<>> PROVE bank'[Contract] = Nothing
  <2>1. ~DoPayFees
    BY <1>2, ShapeHead DEF DoPayFees, Upcoming, Reply
  <2>2. ASSUME NEW given \in Gifts, NEW to \in Holders, DoCall(given, to) PROVE FALSE
    <3>1. queue # <<>> /\ Upcoming("call") /\ Tail(queue) = <<>>
      BY <1>2, <2>2 DEF DoCall, Upcoming, Reply
    <3> QED
      BY <3>1, ShapeHead
  <2> QED
    BY <1>2, <2>1, <2>2, DoSendKeeps DEF Deliver
<1> QED
  BY <1>1, <1>2

-----------------------------------------------------------------------------
(* The theorems.                                                           *)

\* The invariant holds in every reachable state.
LEMMA Invariant == Spec => []IInv
<1>1. IInv /\ [Next]_vars => IInv'
  BY NextKeeps
<1> QED
  BY <1>1, InitHolds, PTL DEF Spec

\* The state is of its type and the highest rate never above the whole.
THEOREM TypeCorrect == Spec => []TypeOK
<1>1. IInv => TypeOK
  BY IInvImplies
<1> QED
  BY <1>1, Invariant, PTL

\* Whatever is attached, at whatever rate: the contract has what its next
\* message pays.
THEOREM AlwaysCovered == Spec => []Covered
<1>1. IInv => Covered
  BY IInvImplies
<1> QED
  BY <1>1, Invariant, PTL

\* However the amounts are split into calls: the fees are the rates' share but
\* for less than a unit a call, never above it, and within the highest rates.
THEOREM FeesFair == Spec => []FairFees
<1>1. IInv => FairFees
  BY IInvImplies
<1> QED
  BY <1>1, Invariant, PTL

\* Whatever the called contract does: a transaction that commits leaves nothing
\* with the contract.
THEOREM NothingLeft == Spec => Emptied
<1>1. IInv /\ [Next]_vars => [Deliver /\ queue' = <<>> => bank'[Contract] = Nothing]_vars
  BY NextKeeps
<1> QED
  BY <1>1, Invariant, PTL DEF Spec, Emptied

=============================================================================
