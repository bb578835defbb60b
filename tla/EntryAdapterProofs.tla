------------------------- MODULE EntryAdapterProofs -------------------------
(***************************************************************************)
(* The entry adapter keeps nothing, can pay for every message it sends and *)
(* deposits whole shares, for every choice of its constants; and the index *)
(* behind it stays covered, whatever the adapter's transactions and their  *)
(* failures do to it.                                                      *)
(*                                                                         *)
(* The inductive invariant names the stage that a transaction is at by the *)
(* messages it has still to run, and says what the adapter holds for them. *)
(***************************************************************************)
EXTENDS EntryAdapter, IndexFixedProofs, SequenceTheorems, FiniteSetTheorems,
        WellFoundedInduction

-----------------------------------------------------------------------------
(* Numbers and finite sets                                                 *)

\* A set of natural numbers that is not empty has a least member.
LEMMA LeastMember ==
    ASSUME NEW S \in SUBSET Nat, S # {}
    PROVE  \E r \in S : \A q \in S : r <= q
<1> DEFINE R == OpToRel(<, Nat)
<1>1. IsWellFoundedOn(R, Nat)
  BY NatLessThanWellFounded, Zenon
<1>2. PICK r \in S : \A q \in S : ~ (<<q, r>> \in R)
  <2> HIDE DEF R
  <2> QED
    BY <1>1, WFMin, Zenon
<1>3. \A q \in S : ~ (q < r)
  BY <1>2 DEF OpToRel
<1> QED
  BY <1>3

\* Min of such a set is that member.
LEMMA MinLeast ==
    ASSUME NEW S \in SUBSET Nat, S # {}
    PROVE  Min(S) \in S /\ \A q \in S : Min(S) <= q
<1>1. \E r \in S : \A q \in S : r <= q
  BY LeastMember
<1> QED
  BY <1>1, Zenon DEF Min

\* SetToSeq lists every member of a finite set at most once, and nothing else.
LEMMA Enumerates ==
    ASSUME NEW S, IsFiniteSet(S)
    PROVE  /\ SetToSeq(S) \in Seq(S)
           /\ \A i, j \in 1 .. Len(SetToSeq(S)) :
                  SetToSeq(S)[i] = SetToSeq(S)[j] => i = j
<1> DEFINE n == Cardinality(S)
<1>1. n \in Nat /\ ExistsBijection(1 .. n, S)
  BY FS_CardinalityType
<1>2. \E f \in [1 .. n -> S] : IsInjective(f)
  BY <1>1, Zenon DEF ExistsBijection, Bijection, Injection, IsInjective
<1>3. SetToSeq(S) \in [1 .. n -> S] /\ IsInjective(SetToSeq(S))
  BY <1>2, Zenon DEF SetToSeq
<1>4. SetToSeq(S) \in Seq(S) /\ Len(SetToSeq(S)) = n
  <2> HIDE DEF n
  <2> QED
    BY <1>1, <1>3
<1> QED
  BY <1>3, <1>4 DEF IsInjective

\* What a list spends grows entry by entry, and no part of it more than all.
LEMMA SpendingGrows ==
    ASSUME NEW list \in Seq(SwapEntries)
    PROVE  LET sum == Spending(list)
           IN  /\ sum \in [0 .. Len(list) -> Nat]
               /\ sum[0] = 0
               /\ \A k \in 1 .. Len(list) : sum[k] = sum[k - 1] + list[k].amount
               /\ \A k \in 0 .. Len(list) : sum[k] <= sum[Len(list)]
<1> DEFINE N == Len(list)
           Upto(f, n) == /\ f \in [0 .. n -> Nat]
                         /\ f[0] = 0
                         /\ \A k \in 1 .. n : f[k] = f[k - 1] + list[k].amount
           Missing == {n \in 0 .. N : ~ \E f : Upto(f, n)}
<1>1. N \in Nat /\ \A k \in 1 .. N : list[k].amount \in Nat
  <2>1. N \in Nat /\ \A k \in 1 .. N : list[k] \in SwapEntries
    OBVIOUS
  <2> QED
    BY <2>1 DEF SwapEntries
<1>2. Upto([k \in 0 .. 0 |-> 0], 0)
  OBVIOUS
<1>3. ASSUME NEW n \in 1 .. N, NEW f, Upto(f, n - 1)
      PROVE  Upto([k \in 0 .. n |-> IF k = n THEN f[n - 1] + list[n].amount ELSE f[k]], n)
  <2> DEFINE g == [k \in 0 .. n |-> IF k = n THEN f[n - 1] + list[n].amount ELSE f[k]]
  <2>1. n - 1 \in 0 .. n - 1 /\ n # 0 /\ f[n - 1] \in Nat /\ list[n].amount \in Nat
    BY <1>1, <1>3
  <2>2. g \in [0 .. n -> Nat]
    <3> SUFFICES ASSUME NEW k \in 0 .. n
                 PROVE  (IF k = n THEN f[n - 1] + list[n].amount ELSE f[k]) \in Nat
      OBVIOUS
    <3>1. k # n => k \in 0 .. n - 1
      BY <1>1
    <3> QED
      BY <2>1, <3>1, <1>3
  <2>3. g[0] = 0
    BY <2>1, <1>3
  <2>4. ASSUME NEW k \in 1 .. n PROVE g[k] = g[k - 1] + list[k].amount
    <3>1. k - 1 \in 0 .. n /\ k - 1 # n /\ k \in 0 .. n
      BY <1>1
    <3>2. g[k - 1] = f[k - 1]
      BY <3>1
    <3>3. CASE k = n
      BY <3>1, <3>2, <3>3
    <3>4. CASE k # n
      <4>1. k \in 1 .. n - 1
        BY <3>4, <1>1
      <4> QED
        BY <3>1, <3>2, <3>4, <4>1, <1>3
    <3> QED
      BY <3>3, <3>4
  <2> QED
    BY <2>2, <2>3, <2>4
<1>4. Missing = {}
  <2> SUFFICES ASSUME Missing # {} PROVE FALSE
    OBVIOUS
  <2>1. PICK n \in Missing : \A m \in Missing : n <= m
    <3>1. Missing \in SUBSET Nat
      BY <1>1
    <3> HIDE DEF Missing
    <3> QED
      BY <3>1, LeastMember
  <2>2. n \in 0 .. N /\ n # 0
    BY <1>2
  <2>3. n \in 1 .. N /\ n - 1 \in 0 .. N /\ n - 1 \notin Missing
    <3>1. n \in 1 .. N /\ n - 1 \in 0 .. N /\ ~ (n <= n - 1)
      BY <1>1, <2>2
    <3> HIDE DEF Missing
    <3> QED
      BY <2>1, <3>1
  <2>4. PICK f : Upto(f, n - 1)
    BY <2>3, Zenon
  <2>5. \E g : Upto(g, n)
    <3> HIDE DEF Upto
    <3> QED
      BY <1>3, <2>3, <2>4, Zenon
  <2> QED
    BY <2>5, Zenon
<1>5. PICK f : Upto(f, N)
  <2>1. N \in 0 .. N
    BY <1>1
  <2> QED
    BY <1>4, <2>1, Zenon
<1> DEFINE Sum(g) == [k \in 0 .. Len(list) |-> IF k = 0 THEN 0 ELSE g[k - 1] + list[k].amount]
<1>6. f = Sum(f)
  <2>1. f = [k \in 0 .. N |-> f[k]]
    BY <1>5
  <2>2. ASSUME NEW k \in 0 .. N
        PROVE  f[k] = IF k = 0 THEN 0 ELSE f[k - 1] + list[k].amount
    <3>1. k = 0 \/ k \in 1 .. N
      BY <1>1
    <3> QED
      BY <1>5, <3>1
  <2> QED
    BY <2>1, <2>2
<1>7. Spending(list) = CHOOSE g : g = Sum(g)
  BY Zenon DEF Spending
<1>8. Spending(list) = Sum(Spending(list))
  <2> HIDE DEF Sum
  <2> QED
    BY <1>6, <1>7, Zenon
<1> DEFINE s == Spending(list)
<1>9. ASSUME NEW k \in 0 .. N
      PROVE  s[k] = IF k = 0 THEN 0 ELSE s[k - 1] + list[k].amount
  <2> HIDE DEF s
  <2>1. s = Sum(s)
    BY <1>8 DEF s
  <2> QED
    BY <2>1
<1>10. DOMAIN s = 0 .. N /\ s = [k \in 0 .. N |-> s[k]]
  <2> HIDE DEF s
  <2>1. s = Sum(s)
    BY <1>8 DEF s
  <2> QED
    BY <2>1
<1> HIDE DEF s
<1>11. \A k \in 0 .. N : s[k] \in Nat
  <2> DEFINE Bad == {k \in 0 .. N : s[k] \notin Nat}
  <2> SUFFICES ASSUME Bad # {} PROVE FALSE
    OBVIOUS
  <2>1. PICK k \in Bad : \A m \in Bad : k <= m
    <3>1. Bad \in SUBSET Nat
      BY <1>1
    <3> HIDE DEF Bad
    <3> QED
      BY <3>1, LeastMember
  <2>2. k # 0
    BY <1>9
  <2>3. k \in 1 .. N /\ k - 1 \in 0 .. N /\ s[k - 1] \in Nat
    BY <1>1, <2>1, <2>2
  <2>4. s[k] = s[k - 1] + list[k].amount
    BY <1>9, <2>2
  <2> QED
    BY <1>1, <2>3, <2>4
<1>12. \A k \in 1 .. N : s[k] = s[k - 1] + list[k].amount
  <2> TAKE k \in 1 .. N
  <2>1. k \in 0 .. N /\ k # 0
    BY <1>1
  <2> QED
    BY <2>1, <1>9
<1>13. \A k \in 0 .. N : s[k] <= s[N]
  <2> DEFINE Over == {j \in 0 .. N : s[N - j] > s[N]}
  <2>1. Over = {}
    <3> SUFFICES ASSUME Over # {} PROVE FALSE
      OBVIOUS
    <3>1. PICK j \in Over : \A m \in Over : j <= m
      <4>1. Over \in SUBSET Nat
        BY <1>1
      <4> HIDE DEF Over
      <4> QED
        BY <4>1, LeastMember
    <3>2. s[N] \in Nat /\ j \in 0 .. N /\ s[N - j] > s[N]
      BY <1>1, <1>11
    <3>3. j # 0
      BY <3>2, <1>1
    <3> DEFINE k == N - (j - 1)
    <3>4. j - 1 \in 0 .. N /\ k \in 1 .. N /\ k - 1 = N - j /\ k - 1 \in 0 .. N
      BY <1>1, <3>2, <3>3
    <3>5. ~ (s[k] > s[N])
      BY <3>1, <3>4
    <3>6. s[k] = s[k - 1] + list[k].amount /\ list[k].amount \in Nat
      BY <3>4, <1>12, <1>1
    <3>7. s[k - 1] \in Nat /\ s[k] \in Nat /\ s[k - 1] > s[N]
      BY <3>4, <3>2, <1>11, <1>1
    <3> HIDE DEF k
    <3> QED
      BY <3>5, <3>6, <3>7, <3>2
  <2> TAKE k \in 0 .. N
  <2>2. N - k \in 0 .. N /\ N - (N - k) = k
    BY <1>1
  <2>3. ~ (s[N - (N - k)] > s[N])
    BY <2>1, <2>2
  <2>4. s[k] \in Nat /\ s[N] \in Nat /\ ~ (s[k] > s[N])
    BY <2>2, <2>3, <1>1, <1>11
  <2> QED
    BY <2>4
<1>14. s \in [0 .. N -> Nat]
  BY <1>10, <1>11
<1>15. s[0] = 0
  BY <1>1, <1>9
<1> QED
  BY <1>12, <1>13, <1>14, <1>15 DEF s

-----------------------------------------------------------------------------
(* The messages of a transaction                                           *)

Purchases == {Swap(Quote, d, n, min, Adapter) : d \in Denoms, n \in Nat, min \in Nat}
Sales     == {Swap(d, Quote, n, 0, to) : d \in Denoms, n \in Nat, to \in Accounts}

Messages ==
    Purchases \cup Sales
        \cup {IndexDeposit(funds) : funds \in [Coins -> Nat]}
        \cup {IndexWithdraw(s) : s \in 1 .. MaxSupply}
        \cup {ThenDeposit(u) : u \in Users}
        \cup {ThenSwap(u, min) : u \in Users, min \in Nat}
        \cup {ThenSend(u, min) : u \in Users, min \in Nat}

-----------------------------------------------------------------------------
(* The stages of a transaction, by the messages still to run               *)

\* Quote is being swapped. need[i] is the quote that is spent from the i-th
\* message on, and all of it is still there.
Buying ==
    \E u \in Users, need \in [1 .. Len(queue) -> Nat] :
        /\ queue # <<>>
        /\ queue[Len(queue)] = ThenDeposit(u)
        /\ \A i \in 1 .. Len(queue) - 1 :
               queue[i] \in Purchases /\ need[i] = need[i + 1] + queue[i].amount
        /\ need[1] <= wallet[Quote]

\* The messages after the first k each sell another denom, of which the wallet
\* has enough beside what `taken' says of it; the result is sent to a user.
Ends(k, taken) ==
    /\ Len(queue) > k
    /\ \E u \in Users, min \in Nat : queue[Len(queue)] = ThenSend(u, min)
    /\ \A i \in k + 1 .. Len(queue) - 1 :
           /\ queue[i] \in Sales
           /\ taken[queue[i].offer] + queue[i].amount <= wallet[queue[i].offer]
    /\ \A i, j \in k + 1 .. Len(queue) - 1 : queue[i].offer = queue[j].offer => i = j

\* Funds for n whole shares at the stored weights.
WholeShares(funds, n) ==
    n > 0 /\ DepositShare(funds, n) /\ \A d \in listed : funds[d] = n * weight[d]

\* The deposit is next, then what is left of each denom is sold.
Depositing ==
    \E funds \in [Coins -> Nat], n \in Nat :
        /\ Ends(1, funds)
        /\ queue[1] = IndexDeposit(funds)
        /\ WholeShares(funds, n)
        /\ \A c \in Coins : funds[c] <= wallet[c]

Selling == Ends(0, Empty)

\* The index is to be paid back the tokens that the user sent.
Leaving ==
    \E u \in Users, s \in 1 .. MaxSupply, min \in Nat :
        queue = <<IndexWithdraw(s), ThenSwap(u, min)>> /\ s <= shares[Adapter]

Paid == \E u \in Users, min \in Nat : queue = <<ThenSwap(u, min)>>

Stages == Buying \/ Depositing \/ Selling \/ Leaving \/ Paid

Idle == queue = <<>> /\ wallet = Empty /\ shares[Adapter] = 0

\* What a failure would bring back was a state of the index that the invariant
\* allows, with none of its tokens with the adapter.
BeforeOK ==
    /\ before.weight \in [Denoms -> Nat]
    /\ before.vault \in [Coins -> Nat]
    /\ before.supply \in Nat
    /\ before.shares \in [Accounts -> Nat]
    /\ before.elapsed \in Nat
    /\ before.stale \in SUBSET Denoms
    /\ \A d \in listed \ before.stale : before.weight[d] * before.supply <= before.vault[d]
    /\ before.shares[Adapter] = 0

AdapterTypes ==
    /\ collector \in Users
    /\ registered \in SUBSET Denoms
    /\ wallet \in [Coins -> Nat]
    /\ queue \in Seq(Messages)

Running == Stages /\ BeforeOK

\* The index's invariant holds at every message, not only between transactions.
AdapterInv == IInv /\ AdapterTypes /\ (Idle \/ Running)

-----------------------------------------------------------------------------
(* The queue                                                               *)

\* What a purchase and a sale say.
LEMMA PurchaseFields ==
    ASSUME NEW m \in Purchases
    PROVE  /\ m.type = "swap" /\ m.offer = Quote /\ m.ask \in Denoms
           /\ m.amount \in Nat /\ m.minReturn \in Nat /\ m.to = Adapter
BY DEF Purchases, Swap

LEMMA SaleFields ==
    ASSUME NEW m \in Sales
    PROVE  /\ m.type = "swap" /\ m.offer \in Denoms /\ m.ask = Quote
           /\ m.amount \in Nat /\ m.to \in Accounts
BY DEF Sales, Swap

\* The kinds of message are told apart by their types.
LEMMA OtherTypes ==
    /\ \A funds : IndexDeposit(funds).type = "index_deposit" /\ IndexDeposit(funds).funds = funds
    /\ \A s : IndexWithdraw(s).type = "index_withdraw" /\ IndexWithdraw(s).amount = s
    /\ \A u : ThenDeposit(u).type = "then_deposit" /\ ThenDeposit(u).sender = u
    /\ \A u, min : /\ ThenSwap(u, min).type = "then_swap"
                   /\ ThenSwap(u, min).sender = u /\ ThenSwap(u, min).minReturn = min
    /\ \A u, min : /\ ThenSend(u, min).type = "then_send"
                   /\ ThenSend(u, min).sender = u /\ ThenSend(u, min).minReturn = min
BY DEF IndexDeposit, IndexWithdraw, ThenDeposit, ThenSwap, ThenSend

\* A length is zero, one or more.
LEMMA OneOrMore == \A n \in Nat \ {0} : n = 1 \/ n > 1
OBVIOUS

\* A queue that is not empty has a first message.
LEMMA FirstMessage ==
    ASSUME queue \in Seq(Messages), queue # <<>>
    PROVE  Len(queue) \in Nat \ {0} /\ Head(queue) = queue[1]
OBVIOUS

\* A handler that sends nothing leaves what was waiting.
LEMMA QuietReply ==
    ASSUME queue \in Seq(Messages), queue # <<>>, Reply(<<>>)
    PROVE  /\ queue' \in Seq(Messages)
           /\ Len(queue') = Len(queue) - 1
           /\ \A i \in 1 .. Len(queue) - 1 : queue'[i] = queue[i + 1]
           /\ Len(queue) = 1 => queue' = <<>>
           /\ Len(queue) > 1 => queue' # <<>> /\ before' = before
<1>1. Tail(queue) \in Seq(Messages) /\ Len(Tail(queue)) = Len(queue) - 1
  OBVIOUS
<1>2. queue' = Tail(queue)
  BY <1>1 DEF Reply
<1>3. \A i \in 1 .. Len(queue) - 1 : queue'[i] = queue[i + 1]
  BY <1>2
<1>4. Len(queue) = 1 => queue' = <<>>
  BY <1>1, <1>2
<1>5. Len(queue) > 1 => queue' # <<>>
  <2> DEFINE n == Len(queue)
  <2>1. Len(queue') = n - 1 /\ n \in Nat
    BY <1>1, <1>2
  <2>2. queue' = <<>> => Len(queue') = 0
    BY EmptySeq
  <2> HIDE DEF n
  <2>3. n > 1 => queue' # <<>>
    BY <2>1, <2>2
  <2> QED
    BY <2>3 DEF n
<1> QED
  BY <1>1, <1>2, <1>3, <1>4, <1>5 DEF Reply

\* The messages of a handler that was the last of the queue.
LEMMA LastReply ==
    ASSUME queue \in Seq(Messages), Len(queue) = 1,
           NEW messages \in Seq(Messages), messages # <<>>, Reply(messages)
    PROVE  queue' = messages /\ before' = before
<1>1. Tail(queue) \in Seq(Messages) /\ Len(Tail(queue)) = 0
  <2>1. queue # <<>>
    BY EmptySeq
  <2> QED
    BY <2>1
<1>2. Tail(queue) = <<>>
  BY <1>1, EmptySeq
<1>3. messages \o <<>> = messages
  OBVIOUS
<1>4. queue' = messages
  BY <1>2, <1>3, Zenon DEF Reply
<1> QED
  BY <1>4 DEF Reply

\* A first, a middle and a last part.
LEMMA Framed ==
    ASSUME NEW S, NEW a \in S, NEW s \in Seq(S), NEW b \in S
    PROVE  /\ <<a>> \o s \o <<b>> \in Seq(S)
           /\ <<a>> \o s \o <<b>> # <<>>
           /\ Len(<<a>> \o s \o <<b>>) = Len(s) + 2
           /\ (<<a>> \o s \o <<b>>)[1] = a
           /\ (<<a>> \o s \o <<b>>)[Len(s) + 2] = b
           /\ \A i \in 2 .. Len(s) + 1 : (<<a>> \o s \o <<b>>)[i] = s[i - 1]
OBVIOUS

LEMMA Closed ==
    ASSUME NEW S, NEW s \in Seq(S), NEW b \in S
    PROVE  /\ s \o <<b>> \in Seq(S)
           /\ s \o <<b>> # <<>>
           /\ Len(s \o <<b>>) = Len(s) + 1
           /\ (s \o <<b>>)[Len(s) + 1] = b
           /\ \A i \in 1 .. Len(s) : (s \o <<b>>)[i] = s[i]
OBVIOUS

-----------------------------------------------------------------------------
(* The stage that the first message tells                                  *)

\* Outside a transaction there is no first message; in one there is.
LEMMA RunningQueue ==
    ASSUME AdapterInv, queue # <<>>
    PROVE  Running /\ Len(queue) \in Nat \ {0} /\ Head(queue) = queue[1]
BY FirstMessage DEF AdapterInv, AdapterTypes, Idle

\* The first messages that each stage may have.
LEMMA BuyingHead ==
    ASSUME queue \in Seq(Messages), Buying
    PROVE  \/ Len(queue) > 1 /\ queue[1].type = "swap"
           \/ Len(queue) = 1 /\ queue[1].type = "then_deposit"
<1>1. PICK u \in Users :
        /\ queue # <<>>
        /\ queue[Len(queue)] = ThenDeposit(u)
        /\ \A i \in 1 .. Len(queue) - 1 : queue[i] \in Purchases
  BY DEF Buying
<1>2. Len(queue) \in Nat \ {0}
  BY <1>1, FirstMessage
<1>3. CASE Len(queue) = 1
  <2>1. queue[1].type = "then_deposit"
    BY <1>1, <1>3 DEF ThenDeposit
  <2> QED
    BY <1>3, <2>1
<1>4. CASE Len(queue) > 1
  <2>1. queue[1] \in Purchases
    BY <1>1, <1>2, <1>4
  <2> QED
    BY <2>1, <1>4, PurchaseFields
<1>5. Len(queue) = 1 \/ Len(queue) > 1
  BY <1>2, OneOrMore, Zenon
<1> QED
  BY <1>3, <1>4, <1>5, Zenon

LEMMA SellingHead ==
    ASSUME queue \in Seq(Messages), Selling
    PROVE  \/ Len(queue) > 1 /\ queue[1].type = "swap"
           \/ Len(queue) = 1 /\ queue[1].type = "then_send"
<1>1. PICK u \in Users, min \in Nat : queue[Len(queue)] = ThenSend(u, min)
  BY DEF Selling, Ends
<1>2. Len(queue) \in Nat \ {0} /\ \A i \in 1 .. Len(queue) - 1 : queue[i] \in Sales
  BY DEF Selling, Ends
<1>3. CASE Len(queue) = 1
  <2>1. queue[1].type = "then_send"
    BY <1>1, <1>3 DEF ThenSend
  <2> QED
    BY <1>3, <2>1
<1>4. CASE Len(queue) > 1
  <2>1. queue[1] \in Sales
    BY <1>2, <1>4
  <2> QED
    BY <2>1, <1>4, SaleFields
<1>5. Len(queue) = 1 \/ Len(queue) > 1
  BY <1>2, OneOrMore, Zenon
<1> QED
  BY <1>3, <1>4, <1>5, Zenon

LEMMA OtherHeads ==
    /\ Depositing => queue[1].type = "index_deposit"
    /\ Leaving => queue[1].type = "index_withdraw"
    /\ Paid => queue[1].type = "then_swap"
<1>1. ASSUME Depositing PROVE queue[1].type = "index_deposit"
  <2>1. PICK funds : queue[1] = IndexDeposit(funds)
    BY <1>1, Zenon DEF Depositing
  <2> QED
    BY <2>1 DEF IndexDeposit
<1>2. ASSUME Leaving PROVE queue[1].type = "index_withdraw"
  <2>1. PICK s, u, min : queue = <<IndexWithdraw(s), ThenSwap(u, min)>>
    BY <1>2, Zenon DEF Leaving
  <2>2. queue[1] = IndexWithdraw(s)
    BY <2>1
  <2> QED
    BY <2>2, OtherTypes
<1>3. ASSUME Paid PROVE queue[1].type = "then_swap"
  <2>1. PICK u, min : queue = <<ThenSwap(u, min)>>
    BY <1>3, Zenon DEF Paid
  <2>2. queue[1] = ThenSwap(u, min)
    BY <2>1
  <2> QED
    BY <2>2, OtherTypes
<1> QED
  BY <1>1, <1>2, <1>3

\* Every stage has messages to run.
LEMMA NoMessage ==
    ASSUME queue = <<>>
    PROVE  ~ Stages
<1>1. ~ Buying /\ ~ Leaving /\ ~ Paid
  BY DEF Buying, Leaving, Paid
<1>2. ~ (Len(queue) > 0) /\ ~ (Len(queue) > 1)
  BY EmptySeq
<1>3. ~ Depositing /\ ~ Selling
  BY <1>2, Zenon DEF Depositing, Selling, Ends
<1> QED
  BY <1>1, <1>3 DEF Stages

\* Which stage it is, by the type of the first message.
LEMMA StageOf ==
    ASSUME AdapterInv, queue # <<>>
    PROVE  /\ Upcoming("swap") => Len(queue) > 1 /\ (Buying \/ Selling)
           /\ Upcoming("then_deposit") => Len(queue) = 1 /\ Buying
           /\ Upcoming("then_swap") => Paid
           /\ Upcoming("then_send") => Len(queue) = 1 /\ Selling
           /\ Upcoming("index_deposit") => Depositing
           /\ Upcoming("index_withdraw") => Leaving
<1>1. Stages /\ Head(queue) = queue[1] /\ queue \in Seq(Messages)
  BY RunningQueue DEF Running, AdapterInv, AdapterTypes
<1>2. CASE Buying
  BY <1>1, <1>2, BuyingHead DEF Upcoming
<1>3. CASE Selling
  BY <1>1, <1>3, SellingHead DEF Upcoming
<1>4. CASE Depositing
  BY <1>1, <1>4, OtherHeads DEF Upcoming
<1>5. CASE Leaving
  BY <1>1, <1>5, OtherHeads DEF Upcoming
<1>6. CASE Paid
  BY <1>1, <1>6, OtherHeads DEF Upcoming
<1> QED
  BY <1>1, <1>2, <1>3, <1>4, <1>5, <1>6 DEF Stages

-----------------------------------------------------------------------------
(* A swap                                                                  *)

\* A swap takes its offer and nothing else.
LEMMA SwapWallet ==
    ASSUME wallet \in [Coins -> Nat], NEW returned \in Nat, NEW unfilled \in Nat,
           DoSwap(returned, unfilled),
           NEW offer \in Coins, NEW ask \in Coins, NEW n \in Nat, offer # ask,
           Head(queue).offer = offer, Head(queue).ask = ask, Head(queue).amount = n
    PROVE  /\ wallet' \in [Coins -> Nat]
           /\ n <= wallet[offer]
           /\ wallet'[offer] >= wallet[offer] - n
           /\ \A c \in Coins \ {offer} : wallet'[c] >= wallet[c]
<1> DEFINE paid == [wallet EXCEPT ![offer] = @ - n]
           back == [paid EXCEPT ![offer] = @ + unfilled, ![ask] = @ + returned]
<1>1. n <= wallet[offer] /\ wallet' \in {paid, back}
  BY Zenon DEF DoSwap
<1>2. wallet[offer] \in Nat /\ wallet[ask] \in Nat /\ wallet[offer] - n \in Nat
  BY <1>1
<1>3. /\ paid \in [Coins -> Nat]
      /\ paid[offer] = wallet[offer] - n
      /\ \A c \in Coins \ {offer} : paid[c] = wallet[c]
  BY <1>2
<1>4. CASE wallet' = paid
  BY <1>1, <1>3, <1>4
<1>5. CASE wallet' = back
  <2> HIDE DEF paid
  <2>1. /\ wallet' \in [Coins -> Nat]
        /\ wallet'[offer] = paid[offer] + unfilled
        /\ wallet'[ask] = paid[ask] + returned
        /\ \A c \in Coins \ {offer, ask} : wallet'[c] = paid[c]
    BY <1>3, <1>5
  <2>2. ASSUME NEW c \in Coins \ {offer} PROVE wallet'[c] >= wallet[c]
    <3>1. CASE c = ask
      BY <2>1, <3>1, <1>2, <1>3
    <3>2. CASE c # ask
      BY <2>1, <3>2, <1>3
    <3> QED
      BY <3>1, <3>2
  <2> QED
    BY <1>1, <1>2, <1>3, <2>1, <2>2
<1> QED
  BY <1>1, <1>4, <1>5

\* Quote that is spent was set aside for it.
LEMMA BuyingSwap ==
    ASSUME AdapterTypes, Buying, Len(queue) > 1,
           NEW returned \in Nat, NEW unfilled \in Nat, DoSwap(returned, unfilled)
    PROVE  Buying' /\ wallet' \in [Coins -> Nat]
<1>1. PICK u \in Users, need \in [1 .. Len(queue) -> Nat] :
        /\ queue # <<>>
        /\ queue[Len(queue)] = ThenDeposit(u)
        /\ \A i \in 1 .. Len(queue) - 1 :
               queue[i] \in Purchases /\ need[i] = need[i + 1] + queue[i].amount
        /\ need[1] <= wallet[Quote]
  BY DEF Buying
<1> DEFINE N == Len(queue)
<1>2. N \in Nat /\ Head(queue) = queue[1]
  BY <1>1, FirstMessage DEF AdapterTypes
<1>3. queue[1] \in Purchases /\ need[1] = need[2] + queue[1].amount
      /\ need[1] \in Nat /\ need[2] \in Nat
  BY <1>1, <1>2
<1> DEFINE n == queue[1].amount
           d == queue[1].ask
<1>4. /\ Head(queue).offer = Quote /\ Head(queue).ask = d /\ Head(queue).amount = n
      /\ d \in Coins /\ Quote \in Coins /\ Quote # d /\ n \in Nat
  BY <1>2, <1>3, PurchaseFields, FixedAssumptions DEF Coins
<1> HIDE DEF n, d
<1>5. wallet' \in [Coins -> Nat] /\ n <= wallet[Quote] /\ wallet'[Quote] >= wallet[Quote] - n
  BY <1>4, SwapWallet DEF AdapterTypes
<1>6. /\ queue' \in Seq(Messages)
      /\ Len(queue') = N - 1
      /\ \A i \in 1 .. N - 1 : queue'[i] = queue[i + 1]
      /\ N > 1 => queue' # <<>>
  BY <1>1, QuietReply DEF DoSwap, AdapterTypes
<1> DEFINE rest == [i \in 1 .. N - 1 |-> need[i + 1]]
<1>7. rest \in [1 .. Len(queue') -> Nat]
  BY <1>2, <1>6
<1>8. queue'[Len(queue')] = ThenDeposit(u)
  BY <1>1, <1>2, <1>6
<1>9. ASSUME NEW i \in 1 .. Len(queue') - 1
      PROVE  queue'[i] \in Purchases /\ rest[i] = rest[i + 1] + queue'[i].amount
  <2>1. i \in 1 .. N - 1 /\ i + 1 \in 1 .. N - 1
    BY <1>2, <1>6
  <2>2. queue'[i] = queue[i + 1] /\ rest[i] = need[i + 1] /\ rest[i + 1] = need[(i + 1) + 1]
    BY <2>1, <1>6
  <2> QED
    BY <2>1, <2>2, <1>1
<1>10. rest[1] <= wallet'[Quote]
  <2>1. rest[1] = need[2]
    BY <1>2
  <2>2. need[2] = need[1] - n /\ wallet[Quote] \in Nat /\ wallet'[Quote] \in Nat
    BY <1>3, <1>4, <1>5 DEF n, AdapterTypes
  <2> QED
    BY <2>1, <2>2, <1>1, <1>3, <1>4, <1>5
<1> HIDE DEF rest, N
<1>11. Buying'
  BY <1>6, <1>7, <1>8, <1>9, <1>10 DEF Buying, N
<1> QED
  BY <1>5, <1>11

\* A sale takes its own denom only.
LEMMA SellingSwap ==
    ASSUME AdapterTypes, Selling, Len(queue) > 1,
           NEW returned \in Nat, NEW unfilled \in Nat, DoSwap(returned, unfilled)
    PROVE  Selling' /\ wallet' \in [Coins -> Nat]
<1> DEFINE N == Len(queue)
<1>1. PICK u \in Users, min \in Nat : queue[N] = ThenSend(u, min)
  BY DEF Selling, Ends
<1>2. \A i \in 1 .. N - 1 :
        /\ queue[i] \in Sales
        /\ Empty[queue[i].offer] + queue[i].amount <= wallet[queue[i].offer]
  BY DEF Selling, Ends
<1>3. \A i, j \in 1 .. N - 1 : queue[i].offer = queue[j].offer => i = j
  BY DEF Selling, Ends
<1>4. N \in Nat /\ queue # <<>>
  BY EmptySeq DEF AdapterTypes
<1>5. Head(queue) = queue[1] /\ queue[1] \in Sales
  BY <1>2, <1>4 DEF AdapterTypes
<1> DEFINE n == queue[1].amount
           d == queue[1].offer
<1>6. /\ Head(queue).offer = d /\ Head(queue).ask = Quote /\ Head(queue).amount = n
      /\ d \in Coins /\ Quote \in Coins /\ Quote # d /\ n \in Nat
  BY <1>5, SaleFields, FixedAssumptions DEF Coins
<1>7. wallet' \in [Coins -> Nat] /\ \A c \in Coins \ {d} : wallet'[c] >= wallet[c]
  <2> HIDE DEF n, d
  <2> QED
    BY <1>6, SwapWallet DEF AdapterTypes
<1>8. /\ queue' \in Seq(Messages)
      /\ Len(queue') = N - 1
      /\ \A i \in 1 .. N - 1 : queue'[i] = queue[i + 1]
      /\ N > 1 => queue' # <<>>
  BY <1>4, QuietReply DEF DoSwap, AdapterTypes
<1>9. Len(queue') > 0
  BY <1>4, <1>8
<1>10. queue'[Len(queue')] = ThenSend(u, min)
  BY <1>1, <1>4, <1>8
<1>11. ASSUME NEW i \in 0 + 1 .. Len(queue') - 1
       PROVE  /\ queue'[i] \in Sales
              /\ Empty[queue'[i].offer] + queue'[i].amount <= wallet'[queue'[i].offer]
  <2>1. i \in 1 .. N - 1 /\ i + 1 \in 1 .. N - 1 /\ i + 1 # 1 /\ 1 \in 1 .. N - 1
    BY <1>4, <1>8
  <2>2. queue'[i] = queue[i + 1] /\ queue[i + 1] \in Sales
    BY <2>1, <1>8, <1>2
  <2> DEFINE e == queue[i + 1].offer
             m == queue[i + 1].amount
  <2>3. e # d
    BY <2>1, <1>3
  <2>4. e \in Coins /\ m \in Nat /\ Empty[e] = 0
    BY <2>2, SaleFields DEF Coins, Empty
  <2>5. Empty[e] + m <= wallet[e]
    BY <2>1, <1>2
  <2> HIDE DEF e, d, m
  <2>6. wallet'[e] >= wallet[e] /\ wallet[e] \in Nat /\ wallet'[e] \in Nat
    BY <2>3, <2>4, <1>7 DEF AdapterTypes
  <2>7. Empty[e] + m <= wallet'[e]
    BY <2>4, <2>5, <2>6
  <2> QED
    BY <2>2, <2>7 DEF e, m
<1>12. ASSUME NEW i \in 0 + 1 .. Len(queue') - 1, NEW j \in 0 + 1 .. Len(queue') - 1,
              queue'[i].offer = queue'[j].offer
       PROVE  i = j
  <2>1. /\ i \in 1 .. N - 1 /\ i + 1 \in 1 .. N - 1
        /\ j \in 1 .. N - 1 /\ j + 1 \in 1 .. N - 1
    BY <1>4, <1>8
  <2>2. queue'[i] = queue[i + 1] /\ queue'[j] = queue[j + 1]
    BY <2>1, <1>8, Zenon
  <2>3. queue[i + 1].offer = queue[j + 1].offer
    BY <2>2, <1>12, Zenon
  <2>4. i + 1 = j + 1
    BY <2>1, <2>3, <1>3, Zenon
  <2> QED
    BY <2>1, <2>4
<1>13. Empty' = Empty
  BY DEF Empty
<1> HIDE DEF N
<1>14. Selling'
  BY <1>9, <1>10, <1>11, <1>12, <1>13 DEF Selling, Ends
<1> QED
  BY <1>7, <1>14

-----------------------------------------------------------------------------
(* The deposit                                                             *)

\* A whole number of shares is found again by the division.
LEMMA ExactDivision ==
    ASSUME NEW k \in Nat, NEW w \in Nat, w > 0
    PROVE  (k * w) \div w = k
<1>1. k * w \in Nat /\ k * w <= k * w
  OBVIOUS
<1>2. k <= (k * w) \div w /\ (k * w) \div w \in Nat /\ ((k * w) \div w) * w <= k * w
  BY <1>1, FloorDivision, FloorLargest
<1> DEFINE q == (k * w) \div w
<1>3. ~ (k + 1 <= q)
  <2> SUFFICES ASSUME k + 1 <= q PROVE FALSE
    OBVIOUS
  <2>1. q \in Nat /\ q * w <= k * w
    BY <1>2
  <2> HIDE DEF q
  <2>2. (k + 1) * w <= q * w
    BY <2>1, TimesMonotone
  <2>3. (k + 1) * w = k * w + w /\ q * w \in Nat
    BY <2>1
  <2> QED
    BY <2>1, <2>2, <2>3, <1>1
<1> QED
  BY <1>2, <1>3

\* What the index finds of the adapter's deposit: a whole number of shares,
\* paid for by the wallet in every listed denom.
LEMMA ShareFound ==
    ASSUME TypeOK, wallet \in [Coins -> Nat], CanDeposit
    PROVE  /\ Share \in Nat /\ Share > 0
           /\ \A d \in listed : /\ Used(d) \in Nat /\ Used(d) > 0 /\ Used(d) <= wallet[d]
                                /\ Used(d) \div weight[d] = Share
                                /\ wallet[d] \in Nat /\ weight[d] \in Nat /\ weight[d] > 0
<1> DEFINE Quotients == {wallet[d] \div weight[d] : d \in listed}
<1>1. \A d \in listed : d \in Coins /\ wallet[d] \in Nat /\ weight[d] \in Nat /\ weight[d] > 0
  BY DEF CanDeposit, TypeOK, Coins
<1>2. Quotients \in SUBSET Nat /\ Quotients # {}
  <2>1. \A d \in listed : wallet[d] \div weight[d] \in Nat
    BY <1>1, FloorDivision
  <2> QED
    BY <2>1 DEF CanDeposit
<1>3. Min(Quotients) \in Quotients /\ \A q \in Quotients : Min(Quotients) <= q
  <2> HIDE DEF Quotients
  <2> QED
    BY <1>2, MinLeast
<1>4. Share \in Nat /\ \A d \in listed : Share <= wallet[d] \div weight[d]
  <2>1. Share = Min(Quotients)
    BY DEF Share
  <2>2. \A d \in listed : wallet[d] \div weight[d] \in Quotients
    OBVIOUS
  <2> HIDE DEF Quotients
  <2> QED
    BY <1>2, <1>3, <2>1, <2>2
<1>5. Share > 0
  BY DEF CanDeposit
<1>6. ASSUME NEW d \in listed
      PROVE  /\ Used(d) \in Nat /\ Used(d) > 0 /\ Used(d) <= wallet[d]
             /\ Used(d) \div weight[d] = Share
  <2> DEFINE s == Share
             w == weight[d]
             x == wallet[d]
             q == x \div w
  <2>1. s \in Nat /\ s > 0 /\ w \in Nat /\ w > 0 /\ x \in Nat
    BY <1>1, <1>4, <1>5
  <2>2. q \in Nat /\ q * w <= x /\ s <= q
    <3> HIDE DEF s, w, x
    <3>1. q \in Nat /\ q * w <= x
      BY <2>1, FloorDivision
    <3>2. s <= q
      BY <1>4 DEF s, w, x
    <3> QED
      BY <3>1, <3>2
  <2>3. Used(d) = s * w
    BY DEF Used
  <2> HIDE DEF s, w, x, q
  <2>4. s * w <= q * w /\ s * w \in Nat /\ q * w \in Nat
    BY <2>1, <2>2, TimesMonotone
  <2>5. s * w > 0
    BY <2>1
  <2>6. (s * w) \div w = s
    BY <2>1, ExactDivision
  <2>7. s * w <= x
    BY <2>1, <2>2, <2>4
  <2> QED
    BY <2>3, <2>4, <2>5, <2>6, <2>7 DEF s, w, x
<1> QED
  BY <1>1, <1>4, <1>5, <1>6

\* The sales of several denoms, in the order that SetToSeq gives them.
SalesOf(D, amount, to) == SetToSeq({Swap(d, Quote, amount[d], 0, to) : d \in D})

\* Each denom is sold once.
LEMMA SalesListed ==
    ASSUME NEW D \in SUBSET Denoms, NEW amount \in [D -> Nat],
           NEW to \in Accounts
    PROVE  LET swaps == SalesOf(D, amount, to)
           IN  /\ swaps \in Seq(Sales)
               /\ \A i \in 1 .. Len(swaps) :
                      /\ swaps[i].offer \in D
                      /\ swaps[i].amount = amount[swaps[i].offer]
               /\ \A i, j \in 1 .. Len(swaps) : swaps[i].offer = swaps[j].offer => i = j
<1> DEFINE T == {Swap(d, Quote, amount[d], 0, to) : d \in D}
           f == [d \in D |-> Swap(d, Quote, amount[d], 0, to)]
           swaps == SetToSeq(T)
<1>1. f \in Surjection(D, T)
  BY Zenon DEF Surjection
<1>2. IsFiniteSet(D)
  BY AdapterAssumptions, FS_Subset
<1>3. IsFiniteSet(T)
  <2> HIDE DEF T, f
  <2> QED
    BY <1>1, <1>2, FS_Surjection
<1>4. /\ swaps \in Seq(T)
      /\ \A i, j \in 1 .. Len(swaps) : swaps[i] = swaps[j] => i = j
  <2> HIDE DEF T
  <2> QED
    BY <1>3, Enumerates
<1>5. \A m \in T : /\ m \in Sales /\ m.offer \in D /\ m.amount = amount[m.offer]
                   /\ m = Swap(m.offer, Quote, amount[m.offer], 0, to)
  <2> TAKE m \in T
  <2>1. PICK d \in D : m = Swap(d, Quote, amount[d], 0, to)
    OBVIOUS
  <2>2. m.offer = d /\ m.amount = amount[d]
    BY <2>1 DEF Swap
  <2>3. m \in Sales
    BY <2>1 DEF Sales
  <2> QED
    BY <2>1, <2>2, <2>3
<1> HIDE DEF T, f
<1>6. swaps \in Seq(Sales) /\ Len(swaps) \in Nat /\ \A i \in 1 .. Len(swaps) : swaps[i] \in T
  <2>1. T \subseteq Sales
    BY <1>5
  <2> HIDE DEF swaps
  <2> QED
    BY <1>4, <2>1
<1> HIDE DEF swaps
<1>7. ASSUME NEW i \in 1 .. Len(swaps), NEW j \in 1 .. Len(swaps),
             swaps[i].offer = swaps[j].offer
      PROVE  i = j
  <2>1. swaps[i] = swaps[j]
    BY <1>5, <1>6, <1>7, Zenon
  <2> QED
    BY <1>4, <2>1
<1> QED
  BY <1>5, <1>6, <1>7 DEF swaps, T, SalesOf

\* Depositing what the swaps brought, and selling what is over.
LEMMA ThenDepositStage ==
    ASSUME IInv, AdapterTypes, Buying, Len(queue) = 1, DoThenDeposit
    PROVE  Depositing' /\ queue' \in Seq(Messages) /\ before' = before
<1>1. PICK u \in Users : queue[1] = ThenDeposit(u)
  BY DEF Buying
<1>2. Head(queue) = queue[1] /\ queue \in Seq(Messages)
  <2>1. queue # <<>>
    BY EmptySeq
  <2> QED
    BY <2>1 DEF AdapterTypes
<1>3. Head(queue).sender = u
  BY <1>1, <1>2 DEF ThenDeposit
<1> DEFINE funds == [c \in Coins |-> IF c \in listed THEN Used(c) ELSE 0]
           left  == [d \in Residues |-> Residue(d)]
           swaps == SalesOf(Residues, left, u)
           asked == SetToSeq({Swap(d, Quote, Residue(d), 0, u) : d \in Residues})
<1>4. /\ CanDeposit
      /\ Reply(<<IndexDeposit(funds)>> \o asked \o <<ThenSend(u, 0)>>)
      /\ UNCHANGED <<vars, wallet>>
  BY <1>3 DEF DoThenDeposit, Finish
<1>5. {Swap(d, Quote, left[d], 0, u) : d \in Residues}
          = {Swap(d, Quote, Residue(d), 0, u) : d \in Residues}
  OBVIOUS
<1>6. asked = swaps
  BY <1>5, Zenon DEF SalesOf
<1>7. /\ Share \in Nat /\ Share > 0
      /\ \A d \in listed : /\ Used(d) \in Nat /\ Used(d) > 0 /\ Used(d) <= wallet[d]
                           /\ Used(d) \div weight[d] = Share
                           /\ wallet[d] \in Nat /\ weight[d] \in Nat /\ weight[d] > 0
  BY <1>4, ShareFound DEF IInv, AdapterTypes
<1>8. listed \subseteq Denoms /\ listed # {} /\ Residues \subseteq listed
  BY <1>4 DEF IInv, TypeOK, CanDeposit, Residues
<1>9. left \in [Residues -> Nat]
  BY <1>7, <1>8 DEF Residue
<1>10. /\ swaps \in Seq(Sales)
       /\ \A i \in 1 .. Len(swaps) : /\ swaps[i].offer \in Residues
                                     /\ swaps[i].amount = left[swaps[i].offer]
       /\ \A i, j \in 1 .. Len(swaps) : swaps[i].offer = swaps[j].offer => i = j
  <2>1. u \in Accounts /\ Residues \in SUBSET Denoms
    BY <1>8 DEF Users
  <2> HIDE DEF left
  <2> QED
    BY <1>9, <2>1, SalesListed
<1>11. funds \in [Coins -> Nat] /\ \A d \in listed : funds[d] = Used(d)
  BY <1>7, <1>8 DEF Coins
<1> HIDE DEF swaps, asked
<1>12. swaps \in Seq(Messages) /\ IndexDeposit(funds) \in Messages /\ ThenSend(u, 0) \in Messages
  <2> HIDE DEF funds
  <2>1. Sales \subseteq Messages
    BY DEF Messages
  <2>2. swaps \in Seq(Messages)
    BY <1>10, <2>1
  <2>3. IndexDeposit(funds) \in Messages
    <3>1. IndexDeposit(funds) \in {IndexDeposit(f) : f \in [Coins -> Nat]}
      BY <1>11, Zenon
    <3> QED
      BY <3>1 DEF Messages
  <2>4. ThenSend(u, 0) \in Messages
    BY DEF Messages
  <2> QED
    BY <2>2, <2>3, <2>4
<1> HIDE DEF funds
<1> DEFINE all == <<IndexDeposit(funds)>> \o swaps \o <<ThenSend(u, 0)>>
           N   == Len(swaps)
<1>13. /\ all \in Seq(Messages)
       /\ all # <<>>
       /\ Len(all) = N + 2
       /\ all[1] = IndexDeposit(funds)
       /\ all[N + 2] = ThenSend(u, 0)
       /\ \A i \in 2 .. N + 1 : all[i] = swaps[i - 1]
  BY <1>12, Framed
<1>14. queue' = all /\ before' = before
  <2>1. Reply(all)
    BY <1>4, <1>6
  <2> HIDE DEF all
  <2> QED
    BY <1>13, <2>1, <1>2, LastReply
<1> HIDE DEF all
<1>15. N \in Nat
  BY <1>10
<1> HIDE DEF N
<1>16. Len(queue') = N + 2 /\ Len(queue') - 1 = N + 1
  BY <1>13, <1>14, <1>15
<1>17. ASSUME NEW i \in 2 .. N + 1
       PROVE  /\ i - 1 \in 1 .. Len(swaps) /\ queue'[i] = swaps[i - 1]
              /\ queue'[i] \in Sales
              /\ funds[queue'[i].offer] + queue'[i].amount <= wallet'[queue'[i].offer]
  <2>1. i - 1 \in 1 .. Len(swaps) /\ queue'[i] = swaps[i - 1]
    BY <1>13, <1>14, <1>15 DEF N
  <2> DEFINE m == swaps[i - 1]
             d == m.offer
  <2>2. m \in Sales /\ d \in Residues /\ m.amount = left[d]
    BY <2>1, <1>10
  <2>3. left[d] = wallet[d] - Used(d)
    BY <2>2 DEF Residue
  <2>4. funds[d] = Used(d) /\ Used(d) \in Nat /\ wallet[d] \in Nat /\ wallet'[d] = wallet[d]
    BY <2>2, <1>4, <1>7, <1>8, <1>11
  <2> HIDE DEF m, d, left
  <2>5. funds[d] + m.amount <= wallet'[d]
    BY <2>2, <2>3, <2>4
  <2> QED
    BY <2>1, <2>2, <2>5 DEF m, d
<1>18. Ends(1, funds)'
  <2>1. Len(queue') > 1 /\ queue'[Len(queue')] = ThenSend(u, 0)
    BY <1>13, <1>14, <1>15, <1>16
  <2>2. ASSUME NEW i \in 2 .. N + 1, NEW j \in 2 .. N + 1, queue'[i].offer = queue'[j].offer
        PROVE  i = j
    <3>1. i - 1 = j - 1
      BY <1>10, <1>17, <2>2
    <3> QED
      BY <3>1, <1>15
  <2>3. 1 + 1 .. Len(queue') - 1 = 2 .. N + 1
    BY <1>15, <1>16
  <2> DEFINE I == 1 + 1 .. Len(queue') - 1
  <2>4. /\ \A i \in I : /\ queue'[i] \in Sales
                        /\ funds[queue'[i].offer] + queue'[i].amount <= wallet'[queue'[i].offer]
        /\ \A i, j \in I : queue'[i].offer = queue'[j].offer => i = j
    BY <1>17, <2>2, <2>3
  <2>5. \E v \in Users, min \in Nat : queue'[Len(queue')] = ThenSend(v, min)
    BY <2>1
  <2>6. funds' = funds
    BY <1>4 DEF funds, Used, Share, vars
  <2> QED
    BY <2>1, <2>4, <2>5, <2>6, Zenon DEF Ends
<1>19. WholeShares(funds, Share)'
  <2>1. UNCHANGED <<listed, weight>> /\ UNCHANGED <<funds, Share>>
    BY <1>4 DEF funds, Used, Share, vars
  <2>2. DepositShare(funds, Share)
    BY <1>7, <1>8, <1>11 DEF DepositShare
  <2>3. \A d \in listed : funds[d] = Share * weight[d]
    BY <1>11 DEF Used
  <2> QED
    BY <2>1, <2>2, <2>3, <1>7 DEF WholeShares, DepositShare
<1>20. \A c \in Coins : funds[c] <= wallet'[c]
  <2> TAKE c \in Coins
  <2>1. wallet'[c] = wallet[c] /\ wallet[c] \in Nat
    BY <1>4 DEF AdapterTypes
  <2>2. CASE c \in listed
    BY <2>1, <2>2, <1>7, <1>11
  <2>3. CASE c \notin listed
    BY <2>1, <2>3 DEF funds
  <2> QED
    BY <2>2, <2>3
<1>21. UNCHANGED <<funds, Share>>
  BY <1>4 DEF funds, Used, Share, vars
<1>22. queue'[1] = IndexDeposit(funds)
  BY <1>13, <1>14
<1>23. Depositing'
  BY <1>7, <1>11, <1>18, <1>19, <1>20, <1>21, <1>22 DEF Depositing
<1> QED
  BY <1>13, <1>14, <1>23

-----------------------------------------------------------------------------
(* Selling what the index paid                                             *)

\* Every coin that is held is sold, for all there is of it.
LEMMA ThenSwapStage ==
    ASSUME AdapterTypes, Paid, DoThenSwap
    PROVE  Selling' /\ queue' \in Seq(Messages) /\ before' = before
<1>1. PICK u \in Users, min \in Nat : queue = <<ThenSwap(u, min)>>
  BY DEF Paid
<1>2. Len(queue) = 1 /\ Head(queue) = ThenSwap(u, min)
  BY <1>1
<1>3. Head(queue).sender = u /\ Head(queue).minReturn = min
  BY <1>2 DEF ThenSwap
<1> DEFINE held  == {c \in Coins : wallet[c] > 0}
           sold  == [c \in held |-> wallet[c]]
           swaps == SalesOf(held, sold, Adapter)
           asked == SetToSeq({Swap(c, Quote, wallet[c], 0, Adapter) : c \in held})
<1>4. /\ held \subseteq registered
      /\ Reply(asked \o <<ThenSend(u, min)>>)
      /\ UNCHANGED wallet
  BY <1>3 DEF DoThenSwap, Finish
<1>5. {Swap(c, Quote, sold[c], 0, Adapter) : c \in held}
          = {Swap(c, Quote, wallet[c], 0, Adapter) : c \in held}
  OBVIOUS
<1>6. asked = swaps
  BY <1>5, Zenon DEF SalesOf
<1>7. held \in SUBSET Denoms /\ Adapter \in Accounts /\ sold \in [held -> Nat]
  BY <1>4, AdapterAssumptions DEF AdapterTypes
<1>8. /\ swaps \in Seq(Sales)
      /\ \A i \in 1 .. Len(swaps) : /\ swaps[i].offer \in held
                                    /\ swaps[i].amount = sold[swaps[i].offer]
      /\ \A i, j \in 1 .. Len(swaps) : swaps[i].offer = swaps[j].offer => i = j
  <2> HIDE DEF sold, held
  <2> QED
    BY <1>7, SalesListed
<1> HIDE DEF swaps, asked
<1>9. swaps \in Seq(Messages) /\ ThenSend(u, min) \in Messages
  <2>1. Sales \subseteq Messages /\ ThenSend(u, min) \in Messages
    BY DEF Messages
  <2> QED
    BY <1>8, <2>1
<1> DEFINE all == swaps \o <<ThenSend(u, min)>>
           N   == Len(swaps)
<1>10. /\ all \in Seq(Messages)
       /\ all # <<>>
       /\ Len(all) = N + 1
       /\ all[N + 1] = ThenSend(u, min)
       /\ \A i \in 1 .. N : all[i] = swaps[i]
  BY <1>9, Closed
<1>11. queue' = all /\ before' = before
  <2>1. Reply(all)
    BY <1>4, <1>6
  <2> HIDE DEF all
  <2> QED
    BY <1>10, <2>1, <1>2, LastReply DEF AdapterTypes
<1> HIDE DEF all
<1>12. N \in Nat
  BY <1>8
<1> HIDE DEF N
<1>13. Len(queue') = N + 1 /\ 0 + 1 .. Len(queue') - 1 = 1 .. N
  BY <1>10, <1>11, <1>12
<1>14. ASSUME NEW i \in 1 .. N
       PROVE  /\ i \in 1 .. Len(swaps) /\ queue'[i] = swaps[i]
              /\ queue'[i] \in Sales
              /\ Empty[queue'[i].offer] + queue'[i].amount <= wallet'[queue'[i].offer]
  <2>1. i \in 1 .. Len(swaps) /\ queue'[i] = swaps[i]
    BY <1>10, <1>11, <1>12 DEF N
  <2> DEFINE m == swaps[i]
             d == m.offer
  <2>2. m \in Sales /\ d \in held /\ m.amount = sold[d]
    BY <2>1, <1>8
  <2>3. Empty[d] = 0 /\ sold[d] = wallet[d] /\ wallet[d] \in Nat /\ wallet'[d] = wallet[d]
    BY <2>2, <1>4 DEF Empty, AdapterTypes
  <2> HIDE DEF m, d, sold
  <2>4. Empty[d] + m.amount <= wallet'[d]
    BY <2>2, <2>3
  <2> QED
    BY <2>1, <2>2, <2>4 DEF m, d
<1>15. Selling'
  <2>1. Len(queue') > 0 /\ queue'[Len(queue')] = ThenSend(u, min)
    BY <1>10, <1>11, <1>12, <1>13
  <2>2. ASSUME NEW i \in 1 .. N, NEW j \in 1 .. N, queue'[i].offer = queue'[j].offer
        PROVE  i = j
    BY <1>8, <1>14, <2>2
  <2> DEFINE I == 0 + 1 .. Len(queue') - 1
  <2>3. /\ \A i \in I : /\ queue'[i] \in Sales
                        /\ Empty[queue'[i].offer] + queue'[i].amount <= wallet'[queue'[i].offer]
        /\ \A i, j \in I : queue'[i].offer = queue'[j].offer => i = j
    BY <1>13, <1>14, <2>2
  <2>4. \E v \in Users, m \in Nat : queue'[Len(queue')] = ThenSend(v, m)
    BY <2>1
  <2>5. Empty' = Empty
    BY DEF Empty
  <2> QED
    BY <2>1, <2>3, <2>4, <2>5, Zenon DEF Selling, Ends
<1> QED
  BY <1>10, <1>11, <1>15

-----------------------------------------------------------------------------
(* The last message                                                        *)

\* All that is left goes to the user, and the transaction is over.
LEMMA ThenSendStage ==
    ASSUME IInv, AdapterTypes, Selling, Len(queue) = 1, DoThenSend
    PROVE  Idle' /\ IInv' /\ AdapterTypes'
<1>1. PICK u \in Users, min \in Nat : queue[1] = ThenSend(u, min)
  BY DEF Selling, Ends
<1>2. queue # <<>> /\ Head(queue) = queue[1] /\ queue \in Seq(Messages)
  <2>1. queue \in Seq(Messages)
    BY DEF AdapterTypes
  <2>2. queue = <<>> => Len(queue) = 0
    BY EmptySeq, Zenon
  <2> QED
    BY <2>1, <2>2
<1>3. Head(queue).sender = u
  BY <1>1, <1>2 DEF ThenSend
<1>4. /\ wallet' = Empty
      /\ shares' = Credit([shares EXCEPT ![Adapter] = 0], u, shares[Adapter])
      /\ Reply(<<>>)
      /\ UNCHANGED <<listed, weight, vault, supply, rates, elapsed, collector, stale,
                     registered>>
  BY <1>3 DEF DoThenSend, SentBack, Empty
<1>5. queue' = <<>> /\ queue' \in Seq(Messages)
  BY <1>2, <1>4, QuietReply
<1>6. u \in Accounts /\ u # Adapter /\ Adapter \in Accounts
  BY AdapterAssumptions DEF Users
<1>7. shares' \in [Accounts -> Nat] /\ shares'[Adapter] = 0
  BY <1>4, <1>6 DEF Credit, IInv, TypeOK
<1>8. Idle'
  BY <1>4, <1>5, <1>7 DEF Idle, Empty
<1>9. IInv'
  BY <1>4, <1>7 DEF IInv, TypeOK, Covered
<1>10. AdapterTypes'
  BY <1>4, <1>5 DEF AdapterTypes, Empty
<1> QED
  BY <1>8, <1>9, <1>10

-----------------------------------------------------------------------------
(* The calls of the index                                                  *)

\* The deposit takes the funds it was sent, and the sales are covered by the rest.
LEMMA IndexDepositStage ==
    ASSUME IInv, AdapterTypes, Depositing, DoIndexDeposit
    PROVE  Selling' /\ IInv' /\ AdapterTypes' /\ before' = before
<1> DEFINE N == Len(queue)
<1>1. PICK funds \in [Coins -> Nat] :
        /\ Ends(1, funds)
        /\ queue[1] = IndexDeposit(funds)
        /\ \A c \in Coins : funds[c] <= wallet[c]
  BY DEF Depositing
<1>2. N \in Nat /\ N > 1 /\ queue # <<>> /\ Head(queue) = queue[1] /\ queue \in Seq(Messages)
  <2>1. N \in Nat /\ N > 1 /\ queue \in Seq(Messages)
    BY <1>1 DEF AdapterTypes, Ends
  <2>2. queue # <<>>
    BY <2>1, EmptySeq
  <2> QED
    BY <2>1, <2>2
<1>3. Head(queue).funds = funds
  BY <1>1, <1>2 DEF IndexDeposit
<1>4. /\ Deposit(Adapter, funds)
      /\ wallet' = [c \in Coins |-> wallet[c] - funds[c]]
      /\ Reply(<<>>)
      /\ UNCHANGED registered
  BY <1>3 DEF DoIndexDeposit
<1>5. IInv'
  BY <1>4, DepositInv, AdapterAssumptions
<1>6. UNCHANGED <<listed, rates, collector>>
  BY <1>4 DEF Deposit
<1>7. wallet' \in [Coins -> Nat]
  <2> SUFFICES ASSUME NEW c \in Coins PROVE wallet[c] - funds[c] \in Nat
    BY <1>4
  <2> QED
    BY <1>1 DEF AdapterTypes
<1>8. /\ queue' \in Seq(Messages)
      /\ Len(queue') = N - 1
      /\ \A i \in 1 .. N - 1 : queue'[i] = queue[i + 1]
      /\ before' = before
  BY <1>2, <1>4, QuietReply
<1>9. PICK u \in Users, min \in Nat : queue[N] = ThenSend(u, min)
  BY <1>1 DEF Ends
<1>10. \A i \in 1 + 1 .. N - 1 :
         /\ queue[i] \in Sales
         /\ funds[queue[i].offer] + queue[i].amount <= wallet[queue[i].offer]
  BY <1>1 DEF Ends
<1>11. \A i, j \in 1 + 1 .. N - 1 : queue[i].offer = queue[j].offer => i = j
  BY <1>1 DEF Ends
<1>12. Len(queue') > 0 /\ queue'[Len(queue')] = ThenSend(u, min)
  BY <1>2, <1>8, <1>9
<1>13. ASSUME NEW i \in 0 + 1 .. Len(queue') - 1
       PROVE  /\ queue'[i] \in Sales
              /\ Empty[queue'[i].offer] + queue'[i].amount <= wallet'[queue'[i].offer]
  <2>1. i \in 1 .. N - 1 /\ i + 1 \in 1 + 1 .. N - 1
    BY <1>2, <1>8
  <2> DEFINE m == queue[i + 1]
             d == m.offer
             n == m.amount
  <2>2. queue'[i] = m /\ m \in Sales /\ funds[d] + n <= wallet[d]
    BY <2>1, <1>8, <1>10
  <2>3. d \in Coins /\ n \in Nat /\ Empty[d] = 0
    BY <2>2, SaleFields DEF Coins, Empty
  <2> HIDE DEF m, d, n
  <2>4. wallet'[d] = wallet[d] - funds[d] /\ funds[d] \in Nat /\ wallet[d] \in Nat
    BY <2>3, <1>4 DEF AdapterTypes
  <2>5. Empty[d] + n <= wallet'[d]
    BY <2>2, <2>3, <2>4
  <2> QED
    BY <2>2, <2>5 DEF d, n
<1>14. ASSUME NEW i \in 0 + 1 .. Len(queue') - 1, NEW j \in 0 + 1 .. Len(queue') - 1,
              queue'[i].offer = queue'[j].offer
       PROVE  i = j
  <2>1. /\ i \in 1 .. N - 1 /\ i + 1 \in 1 + 1 .. N - 1
        /\ j \in 1 .. N - 1 /\ j + 1 \in 1 + 1 .. N - 1
    BY <1>2, <1>8
  <2>2. queue'[i] = queue[i + 1] /\ queue'[j] = queue[j + 1]
    BY <2>1, <1>8, Zenon
  <2>3. queue[i + 1].offer = queue[j + 1].offer
    BY <2>2, <1>14, Zenon
  <2>4. i + 1 = j + 1
    BY <2>1, <2>3, <1>11, Zenon
  <2> QED
    BY <2>1, <2>4
<1>15. Empty' = Empty
  BY DEF Empty
<1>16. Selling'
  <2> HIDE DEF N
  <2> QED
    BY <1>12, <1>13, <1>14, <1>15 DEF Selling, Ends
<1>17. AdapterTypes'
  BY <1>4, <1>6, <1>7, <1>8 DEF AdapterTypes
<1> QED
  BY <1>5, <1>8, <1>16, <1>17

\* A withdrawal takes coins out of the vault and puts none into it.
LEMMA WithdrawPays ==
    ASSUME TypeOK, NEW u \in Accounts, NEW s \in 1 .. MaxSupply, Withdraw(u, s)
    PROVE  /\ \A c \in Coins : vault'[c] \in Nat /\ vault'[c] <= vault[c]
           /\ UNCHANGED <<listed, rates, collector>>
<1> DEFINE net   == s - TxFee(rates.transaction, s)
           total == supply + AumDue
           w     == Rebalanced(listed, weight, vault, total)
<1>1. /\ TxFee(rates.transaction, s) <= s
      /\ \A c \in Coins : Payout(w, net)[c] <= vault[c]
      /\ vault' = [c \in Coins |-> vault[c] - Payout(w, net)[c]]
      /\ UNCHANGED <<listed, rates, collector>>
  BY DEF Withdraw, MayWithdraw
<1>2. s \in Nat /\ AumDue \in Nat /\ TxFee(rates.transaction, s) \in Nat
  <2>1. s \in Nat /\ rates.transaction \in Nat
    BY FixedAssumptions DEF TypeOK, FeeRates
  <2> QED
    BY <2>1, AumDueType, FeeType
<1>3. net \in Nat /\ total \in Nat
  BY <1>1, <1>2 DEF TypeOK
<1>4. w \in [Denoms -> Nat]
  BY <1>3, RebalancedType DEF TypeOK
<1> HIDE DEF w, net
<1>5. \A c \in Coins : Payout(w, net)[c] \in Nat
  <2> SUFFICES ASSUME NEW c \in Coins PROVE (IF c \in listed THEN w[c] * net ELSE 0) \in Nat
    BY DEF Payout
  <2>1. CASE c \in listed
    <3>1. w[c] \in Nat
      BY <1>4, <2>1 DEF TypeOK
    <3> QED
      BY <1>3, <2>1, <3>1
  <2>2. CASE c \notin listed
    BY <2>2
  <2> QED
    BY <2>1, <2>2
<1>6. ASSUME NEW c \in Coins PROVE vault'[c] \in Nat /\ vault'[c] <= vault[c]
  <2>1. vault'[c] = vault[c] - Payout(w, net)[c] /\ Payout(w, net)[c] <= vault[c]
    BY <1>1
  <2>2. vault[c] \in Nat /\ Payout(w, net)[c] \in Nat
    BY <1>5 DEF TypeOK
  <2> QED
    BY <2>1, <2>2
<1> QED
  BY <1>1, <1>6

\* The index pays the adapter for the tokens that the user sent.
LEMMA IndexWithdrawStage ==
    ASSUME IInv, AdapterTypes, Leaving, DoIndexWithdraw
    PROVE  Paid' /\ IInv' /\ AdapterTypes' /\ before' = before
<1>1. PICK u \in Users, s \in 1 .. MaxSupply, min \in Nat :
        queue = <<IndexWithdraw(s), ThenSwap(u, min)>>
  BY DEF Leaving
<1>2. /\ Head(queue) = IndexWithdraw(s) /\ Tail(queue) = <<ThenSwap(u, min)>>
      /\ <<>> \o <<ThenSwap(u, min)>> = <<ThenSwap(u, min)>>
      /\ <<ThenSwap(u, min)>> # <<>>
  BY <1>1
<1>3. Head(queue).amount = s
  BY <1>2 DEF IndexWithdraw
<1>4. /\ Withdraw(Adapter, s)
      /\ wallet' = [c \in Coins |-> wallet[c] + vault[c] - vault'[c]]
      /\ Reply(<<>>)
      /\ UNCHANGED registered
  BY <1>3 DEF DoIndexWithdraw
<1>5. IInv'
  BY <1>4, WithdrawInv, AdapterAssumptions
<1>6. /\ \A c \in Coins : vault'[c] \in Nat /\ vault'[c] <= vault[c]
      /\ UNCHANGED <<listed, rates, collector>>
  BY <1>4, WithdrawPays, AdapterAssumptions DEF IInv
<1>7. wallet' \in [Coins -> Nat]
  <2> SUFFICES ASSUME NEW c \in Coins PROVE wallet[c] + vault[c] - vault'[c] \in Nat
    BY <1>4
  <2>1. wallet[c] \in Nat /\ vault[c] \in Nat
    BY DEF AdapterTypes, IInv, TypeOK
  <2> QED
    BY <1>6, <2>1
<1>8. queue' = <<ThenSwap(u, min)>> /\ before' = before
  BY <1>2, <1>4 DEF Reply
<1>9. Paid'
  BY <1>8 DEF Paid
<1>10. ThenSwap(u, min) \in Messages
  BY DEF Messages
<1>11. AdapterTypes'
  BY <1>4, <1>6, <1>7, <1>8, <1>10 DEF AdapterTypes
<1> QED
  BY <1>5, <1>8, <1>9, <1>11

-----------------------------------------------------------------------------
(* The start of a transaction                                              *)

\* The state that a transaction finds is one that a failure may bring back.
LEMMA SnapshotOK ==
    ASSUME IInv, shares[Adapter] = 0, before' = Snapshot, UNCHANGED listed
    PROVE  BeforeOK'
BY DEF IInv, TypeOK, Covered, Snapshot, BeforeOK

\* The quote that was attached pays for every swap of the list.
LEMMA BeginDepositStage ==
    ASSUME IInv, AdapterTypes, Idle, NEW u \in Users, NEW list \in SwapLists,
           BeginDeposit(u, list)
    PROVE  IInv' /\ AdapterTypes' /\ Running'
<1> DEFINE N   == Len(list)
           sum == Spending(list)
           buy == [i \in DOMAIN list |->
                      Swap(Quote, list[i].denom, list[i].amount, list[i].minReturn, Adapter)]
<1>1. list \in Seq(SwapEntries)
  BY AdapterAssumptions
<1>2. N \in Nat /\ \A i \in 1 .. N : list[i] \in SwapEntries
  BY <1>1
<1>3. /\ \A i \in DOMAIN list : list[i].denom \in registered
      /\ wallet' = Credit(wallet, Quote, sum[N])
      /\ queue' = buy \o <<ThenDeposit(u)>>
      /\ before' = Snapshot
      /\ UNCHANGED <<vars, registered>>
  BY DEF BeginDeposit, Begin
<1>4. /\ sum \in [0 .. N -> Nat]
      /\ sum[0] = 0
      /\ \A k \in 1 .. N : sum[k] = sum[k - 1] + list[k].amount
      /\ \A k \in 0 .. N : sum[k] <= sum[N]
  BY <1>1, SpendingGrows
<1> HIDE DEF sum
<1>5. /\ buy \in Seq(Purchases) /\ Len(buy) = N
      /\ \A i \in 1 .. N : buy[i] \in Purchases /\ buy[i].amount = list[i].amount
  <2>1. DOMAIN list = 1 .. N
    BY <1>1
  <2>2. ASSUME NEW i \in 1 .. N
        PROVE  LET m == Swap(Quote, list[i].denom, list[i].amount, list[i].minReturn, Adapter)
               IN  m \in Purchases /\ m.amount = list[i].amount
    <3>1. list[i].denom \in Denoms /\ list[i].amount \in Nat /\ list[i].minReturn \in Nat
      BY <1>2, <1>3, <2>1 DEF AdapterTypes, SwapEntries
    <3> QED
      BY <3>1 DEF Purchases, Swap
  <2>3. buy \in [1 .. N -> Purchases]
    BY <2>1, <2>2
  <2> QED
    BY <1>2, <2>1, <2>2, <2>3
<1> HIDE DEF buy
<1>6. buy \in Seq(Messages) /\ ThenDeposit(u) \in Messages
  <2>1. Purchases \subseteq Messages /\ ThenDeposit(u) \in Messages
    BY DEF Messages
  <2> QED
    BY <1>5, <2>1
<1>7. /\ queue' \in Seq(Messages)
      /\ queue' # <<>>
      /\ Len(queue') = N + 1
      /\ queue'[N + 1] = ThenDeposit(u)
      /\ \A i \in 1 .. N : queue'[i] = buy[i]
  BY <1>3, <1>5, <1>6, Closed
<1> DEFINE need == [i \in 1 .. N + 1 |-> sum[N] - sum[i - 1]]
<1> HIDE DEF N
<1>8. need \in [1 .. Len(queue') -> Nat]
  <2> SUFFICES ASSUME NEW i \in 1 .. N + 1 PROVE sum[N] - sum[i - 1] \in Nat
    BY <1>7
  <2>1. i - 1 \in 0 .. N /\ N \in 0 .. N
    BY <1>2
  <2>2. sum[N] \in Nat /\ sum[i - 1] \in Nat /\ sum[i - 1] <= sum[N]
    BY <2>1, <1>4
  <2> QED
    BY <2>2
<1>9. ASSUME NEW i \in 1 .. Len(queue') - 1
      PROVE  queue'[i] \in Purchases /\ need[i] = need[i + 1] + queue'[i].amount
  <2>1. i \in 1 .. N /\ i - 1 \in 0 .. N /\ i \in 0 .. N /\ N \in 0 .. N
        /\ i + 1 \in 1 .. N + 1 /\ i \in 1 .. N + 1 /\ (i + 1) - 1 = i
    BY <1>2, <1>7
  <2>2. queue'[i] \in Purchases /\ queue'[i].amount = list[i].amount
    BY <2>1, <1>5, <1>7
  <2>3. need[i] = sum[N] - sum[i - 1] /\ need[i + 1] = sum[N] - sum[i]
    BY <2>1
  <2> DEFINE x == list[i].amount
  <2>4. sum[i] = sum[i - 1] + x /\ sum[i] \in Nat /\ sum[i - 1] \in Nat /\ sum[N] \in Nat
    BY <2>1, <1>4
  <2>5. x \in Nat
    BY <2>2, PurchaseFields
  <2> HIDE DEF need, x
  <2>6. need[i] = need[i + 1] + x
    BY <2>3, <2>4, <2>5
  <2> QED
    BY <2>2, <2>6 DEF x
<1>10. /\ wallet' \in [Coins -> Nat]
       /\ wallet'[Quote] = wallet[Quote] + sum[N]
       /\ wallet[Quote] \in Nat /\ sum[N] \in Nat
  <2>1. sum[N] \in Nat /\ Quote \in Coins
    BY <1>2, <1>4 DEF Coins
  <2> QED
    BY <2>1, <1>3 DEF Credit, AdapterTypes
<1>11. need[1] <= wallet'[Quote]
  <2>1. need[1] = sum[N] - sum[0]
    BY <1>2
  <2> HIDE DEF need
  <2> QED
    BY <2>1, <1>4, <1>10
<1>12. Buying'
  <2> HIDE DEF need
  <2>1. queue'[Len(queue')] = ThenDeposit(u)
    BY <1>7
  <2> QED
    BY <2>1, <1>7, <1>8, <1>9, <1>11 DEF Buying
<1>13. BeforeOK'
  BY <1>3, SnapshotOK DEF vars, Idle
<1>14. IInv'
  BY <1>3 DEF vars, IInv, TypeOK, Covered
<1>15. AdapterTypes'
  BY <1>3, <1>7, <1>10 DEF AdapterTypes, vars
<1> QED
  BY <1>12, <1>13, <1>14, <1>15 DEF Running, Stages

\* The tokens that the user sent pay for the withdrawal.
LEMMA BeginWithdrawStage ==
    ASSUME IInv, AdapterTypes, Idle, NEW u \in Users, NEW s \in 1 .. MaxSupply,
           NEW min \in MinReturns, BeginWithdraw(u, s, min)
    PROVE  IInv' /\ AdapterTypes' /\ Running'
<1>1. /\ s <= shares[u]
      /\ shares' = Credit([shares EXCEPT ![u] = @ - s], Adapter, s)
      /\ queue' = <<IndexWithdraw(s), ThenSwap(u, min)>>
      /\ before' = Snapshot
      /\ UNCHANGED <<listed, weight, vault, supply, rates, elapsed, collector, stale,
                     registered, wallet>>
  BY DEF BeginWithdraw, Begin
<1>2. s \in Nat /\ min \in Nat /\ u \in Accounts /\ u # Adapter /\ Adapter \in Accounts
  BY FixedAssumptions, AdapterAssumptions DEF Users
<1>3. shares[u] \in Nat /\ shares[Adapter] = 0 /\ shares \in [Accounts -> Nat]
  BY <1>2 DEF IInv, TypeOK, Idle
<1>4. shares' \in [Accounts -> Nat] /\ s <= shares'[Adapter]
  <2>1. shares[u] - s \in Nat
    BY <1>1, <1>2, <1>3
  <2> QED
    BY <2>1, <1>1, <1>2, <1>3 DEF Credit
<1>5. Leaving'
  BY <1>1, <1>2, <1>4 DEF Leaving
<1>6. BeforeOK'
  BY <1>1, SnapshotOK DEF Idle
<1>7. IInv'
  BY <1>1, <1>4 DEF IInv, TypeOK, Covered
<1>8. IndexWithdraw(s) \in Messages /\ ThenSwap(u, min) \in Messages
  BY <1>2 DEF Messages
<1>9. AdapterTypes'
  BY <1>1, <1>8 DEF AdapterTypes
<1> QED
  BY <1>5, <1>6, <1>7, <1>9 DEF Running, Stages

-----------------------------------------------------------------------------
(* A failure, and what happens between transactions                        *)

\* A failure brings back what the transaction found.
LEMMA RevertStage ==
    ASSUME AdapterInv, Revert
    PROVE  AdapterInv'
<1>1. BeforeOK
  BY RunningQueue DEF Revert, Running
<1>2. /\ weight' = before.weight /\ vault' = before.vault /\ supply' = before.supply
      /\ shares' = before.shares /\ elapsed' = before.elapsed /\ stale' = before.stale
      /\ wallet' = Empty /\ queue' = <<>>
      /\ UNCHANGED <<listed, rates, collector, registered>>
  BY DEF Revert
<1>3. IInv'
  BY <1>1, <1>2 DEF BeforeOK, AdapterInv, IInv, TypeOK, Covered
<1>4. Idle'
  BY <1>1, <1>2 DEF BeforeOK, Idle, Empty
<1>5. AdapterTypes'
  BY <1>2 DEF AdapterInv, AdapterTypes, Empty
<1> QED
  BY <1>3, <1>4, <1>5 DEF AdapterInv

\* The collector is a user of the index, never the adapter.
LEMMA CollectorUser ==
    ASSUME AdapterTypes
    PROVE  collector \in Accounts /\ collector # Adapter /\ Adapter \in Accounts
BY AdapterAssumptions DEF AdapterTypes, Users

\* Nobody but the adapter itself gives it index tokens, or takes them.
LEMMA OthersShares ==
    ASSUME IInv, AdapterTypes
    PROVE  /\ \A u \in Users, funds \in Funds :
                  Deposit(u, funds) => shares'[Adapter] = shares[Adapter]
           /\ \A u \in Users, s \in 1 .. MaxSupply :
                  Withdraw(u, s) => shares'[Adapter] = shares[Adapter]
           /\ Run => shares'[Adapter] = shares[Adapter]
           /\ \A x, y \in Users, s \in 1 .. MaxSupply :
                  Transfer(x, y, s) => shares'[Adapter] = shares[Adapter]
<1>1. /\ collector \in Accounts /\ collector # Adapter /\ Adapter \in Accounts
      /\ shares \in [Accounts -> Nat]
      /\ \A u \in Users : u \in Accounts /\ u # Adapter
  BY CollectorUser DEF IInv, TypeOK, Users
<1>2. ASSUME NEW u \in Users, NEW funds \in Funds, Deposit(u, funds)
      PROVE  shares'[Adapter] = shares[Adapter]
  <2>1. PICK n \in 1 .. MaxSupply : shares' = Credit(Credit(shares, u, n), collector, AumDue)
    BY <1>2 DEF Deposit
  <2> QED
    BY <1>1, <2>1 DEF Credit
<1>3. ASSUME NEW u \in Users, NEW s \in 1 .. MaxSupply, Withdraw(u, s)
      PROVE  shares'[Adapter] = shares[Adapter]
  <2>1. shares' = Credit([shares EXCEPT ![u] = @ - s], collector,
                         TxFee(rates.transaction, s) + AumDue)
    BY <1>3 DEF Withdraw, MayWithdraw
  <2> QED
    BY <1>1, <2>1 DEF Credit
<1>4. ASSUME Run PROVE shares'[Adapter] = shares[Adapter]
  BY <1>1, <1>4 DEF Run, Credit
<1>5. ASSUME NEW x \in Users, NEW y \in Users, NEW s \in 1 .. MaxSupply, Transfer(x, y, s)
      PROVE  shares'[Adapter] = shares[Adapter]
  <2>1. shares' = Credit([shares EXCEPT ![x] = @ - s], y, s)
    BY <1>5 DEF Transfer
  <2> QED
    BY <1>1, <2>1 DEF Credit
<1> QED
  BY <1>2, <1>3, <1>4, <1>5

\* What a reallocation and the rest of the index's governance leave alone.
LEMMA SudoShares ==
    ASSUME IInv, AdapterTypes, SudoStep
    PROVE  shares'[Adapter] = shares[Adapter] /\ collector' \in Users
<1>1. /\ collector \in Users /\ collector \in Accounts /\ collector # Adapter
      /\ Adapter \in Accounts /\ shares \in [Accounts -> Nat]
  BY CollectorUser DEF IInv, TypeOK, AdapterTypes
<1>2. ASSUME NEW from \in Denoms, NEW to \in Denoms, NEW target \in Weights,
             ReallocateStep(from, to, target)
      PROVE  shares'[Adapter] = shares[Adapter] /\ collector' = collector
  <2>1. shares' = Credit(shares, collector, AumDue) /\ collector' = collector
    BY <1>2 DEF ReallocateStep, Reallocate
  <2> QED
    BY <1>1, <2>1 DEF Credit
<1>3. ASSUME NEW from \in Denoms, NEW to \in Denoms, NEW target \in Weights,
             ReallocateUnanswered(from, to, target)
      PROVE  shares'[Adapter] = shares[Adapter] /\ collector' = collector
  BY <1>3 DEF ReallocateUnanswered
<1>4. ASSUME NEW r \in RateChoices, NEW c \in Collectors, UpdateFees(r, c)
      PROVE  shares'[Adapter] = shares[Adapter] /\ collector' \in Users
  BY <1>4, AdapterAssumptions DEF UpdateFees
<1>5. ASSUME NEW d \in Denoms, AddAllocation(d) \/ RemoveAllocation(d)
      PROVE  shares'[Adapter] = shares[Adapter] /\ collector' = collector
  BY <1>5 DEF AddAllocation, RemoveAllocation
<1> QED
  BY <1>1, <1>2, <1>3, <1>4, <1>5 DEF SudoStep

\* Between transactions the adapter has nothing, whatever others do.
LEMMA BetweenStage ==
    ASSUME AdapterInv, Between
    PROVE  AdapterInv'
<1>1. queue = <<>> /\ Idle /\ IInv /\ AdapterTypes
  <2>1. queue = <<>>
    BY DEF Between
  <2>2. ~ Running
    BY <2>1, NoMessage DEF Running
  <2> QED
    BY <2>1, <2>2 DEF AdapterInv
<1>2. CASE \E c \in Coins : AddSwapContract(c) \/ RemoveSwapContract(c)
  <2>1. PICK c \in Coins : AddSwapContract(c) \/ RemoveSwapContract(c)
    BY <1>2
  <2>2. UNCHANGED <<vars, wallet, queue>> /\ registered' \in SUBSET Denoms
    BY <1>1, <2>1 DEF AddSwapContract, RemoveSwapContract, PairsWithQuote, AdapterTypes, Coins
  <2> QED
    BY <1>1, <2>2 DEF AdapterInv, AdapterTypes, IInv, TypeOK, Covered, vars, Idle, Empty
<1>3. ASSUME [Next]_vars, UNCHANGED adapterVars, shares'[Adapter] = shares[Adapter],
             collector' \in Users
      PROVE  AdapterInv'
  <2>1. IInv'
    BY <1>1, <1>3, NextInv
  <2>2. UNCHANGED <<registered, wallet, queue>>
    BY <1>3 DEF adapterVars
  <2>3. AdapterTypes' /\ Idle'
    BY <1>1, <1>3, <2>2 DEF AdapterTypes, Idle, Empty
  <2> QED
    BY <2>1, <2>3 DEF AdapterInv
<1>4. \A u \in Users : u \in Accounts
  BY DEF Users
<1>5. collector \in Users
  BY <1>1 DEF AdapterTypes
<1>6. CASE UNCHANGED adapterVars /\ \E u \in Users, funds \in Funds : Deposit(u, funds)
  <2>1. UserStep /\ shares'[Adapter] = shares[Adapter] /\ collector' = collector
    BY <1>1, <1>4, <1>6, OthersShares DEF UserStep, Deposit
  <2> QED
    BY <1>3, <1>5, <1>6, <2>1 DEF Next
<1>7. CASE UNCHANGED adapterVars /\ \E u \in Users, s \in 1 .. MaxSupply : Withdraw(u, s)
  <2>1. UserStep /\ shares'[Adapter] = shares[Adapter] /\ collector' = collector
    BY <1>1, <1>4, <1>7, OthersShares DEF UserStep, Withdraw, MayWithdraw
  <2> QED
    BY <1>3, <1>5, <1>7, <2>1 DEF Next
<1>8. CASE UNCHANGED adapterVars /\ Run
  <2>1. UserStep /\ shares'[Adapter] = shares[Adapter] /\ collector' = collector
    BY <1>1, <1>8, OthersShares DEF UserStep, Run
  <2> QED
    BY <1>3, <1>5, <1>8, <2>1 DEF Next
<1>9. CASE UNCHANGED adapterVars /\ SudoStep
  BY <1>1, <1>3, <1>9, SudoShares DEF Next
<1>10. CASE UNCHANGED adapterVars /\ \E c \in Coins, x \in Amounts : Donate(c, x)
  <2>1. shares'[Adapter] = shares[Adapter] /\ collector' = collector
    BY <1>10 DEF Donate
  <2> QED
    BY <1>3, <1>5, <1>10, <2>1 DEF Next
<1>11. CASE UNCHANGED adapterVars /\ \E x, y \in Users, s \in 1 .. MaxSupply : Transfer(x, y, s)
  <2>1. shares'[Adapter] = shares[Adapter] /\ collector' = collector
    BY <1>1, <1>11, OthersShares DEF Transfer
  <2>2. \E x, y \in Accounts, s \in 1 .. MaxSupply : Transfer(x, y, s)
    BY <1>4, <1>11
  <2> QED
    BY <1>3, <1>5, <1>11, <2>1, <2>2 DEF Next
<1>12. CASE UNCHANGED adapterVars /\ Tick
  <2>1. shares'[Adapter] = shares[Adapter] /\ collector' = collector
    BY <1>12 DEF Tick
  <2> QED
    BY <1>3, <1>5, <1>12, <2>1 DEF Next
<1> QED
  BY <1>2, <1>6, <1>7, <1>8, <1>9, <1>10, <1>11, <1>12 DEF Between

-----------------------------------------------------------------------------
(* The invariant is inductive                                              *)

\* The adapter has nothing when it is instantiated.
LEMMA AdapterInitInv == AdapterInit => AdapterInv
<1> SUFFICES ASSUME AdapterInit PROVE AdapterInv
  OBVIOUS
<1>1. IInv
  BY InitInv DEF AdapterInit
<1>2. AdapterTypes
  BY AdapterAssumptions
  DEF AdapterInit, Init, AdapterTypes, Empty, PairsWithQuote, Coins
<1>3. Idle
  BY AdapterAssumptions DEF AdapterInit, Init, Idle
<1> QED
  BY <1>1, <1>2, <1>3 DEF AdapterInv

\* A message of a transaction leaves it at one of its stages, or at its end.
LEMMA DeliverInv ==
    ASSUME AdapterInv, Deliver
    PROVE  AdapterInv'
<1>1. queue # <<>>
  BY DEF Deliver, DoThenDeposit, DoThenSwap, DoThenSend, DoIndexDeposit,
         DoIndexWithdraw, DoSwap, Upcoming
<1>2. IInv /\ AdapterTypes /\ Running /\ BeforeOK /\ Len(queue) \in Nat \ {0}
  BY <1>1, RunningQueue DEF AdapterInv, Running
<1>3. ASSUME before' = before, UNCHANGED listed, Stages', IInv', AdapterTypes'
      PROVE  AdapterInv'
  <2>1. BeforeOK'
    BY <1>2, <1>3 DEF BeforeOK
  <2> QED
    BY <1>3, <2>1 DEF AdapterInv, Running
<1>4. ASSUME UNCHANGED vars PROVE IInv' /\ UNCHANGED <<listed, collector>>
  BY <1>2, <1>4, StutterInv DEF vars
<1>5. CASE DoThenDeposit
  <2>1. Len(queue) = 1 /\ Buying
    BY <1>1, <1>5, StageOf DEF DoThenDeposit
  <2>2. Depositing' /\ queue' \in Seq(Messages) /\ before' = before
    BY <1>2, <1>5, <2>1, ThenDepositStage
  <2>3. UNCHANGED vars /\ UNCHANGED <<registered, wallet>>
    BY <1>5 DEF DoThenDeposit
  <2>4. AdapterTypes'
    BY <1>2, <1>4, <2>2, <2>3 DEF AdapterTypes
  <2> QED
    BY <1>3, <1>4, <2>2, <2>3, <2>4 DEF Stages
<1>6. CASE DoThenSwap
  <2>1. Paid
    BY <1>1, <1>6, StageOf DEF DoThenSwap
  <2>2. Selling' /\ queue' \in Seq(Messages) /\ before' = before
    BY <1>2, <1>6, <2>1, ThenSwapStage
  <2>3. UNCHANGED vars /\ UNCHANGED <<registered, wallet>>
    BY <1>6 DEF DoThenSwap
  <2>4. AdapterTypes'
    BY <1>2, <1>4, <2>2, <2>3 DEF AdapterTypes
  <2> QED
    BY <1>3, <1>4, <2>2, <2>3, <2>4 DEF Stages
<1>7. CASE DoThenSend
  <2>1. Len(queue) = 1 /\ Selling
    BY <1>1, <1>7, StageOf DEF DoThenSend
  <2> QED
    BY <1>2, <1>7, <2>1, ThenSendStage DEF AdapterInv
<1>8. CASE DoIndexDeposit
  <2>1. Depositing
    BY <1>1, <1>8, StageOf DEF DoIndexDeposit
  <2>2. Selling' /\ IInv' /\ AdapterTypes' /\ before' = before
    BY <1>2, <1>8, <2>1, IndexDepositStage
  <2>3. UNCHANGED listed
    BY <1>8 DEF DoIndexDeposit, Deposit
  <2> QED
    BY <1>3, <2>2, <2>3 DEF Stages
<1>9. CASE DoIndexWithdraw
  <2>1. Leaving
    BY <1>1, <1>9, StageOf DEF DoIndexWithdraw
  <2>2. Paid' /\ IInv' /\ AdapterTypes' /\ before' = before
    BY <1>2, <1>9, <2>1, IndexWithdrawStage
  <2>3. UNCHANGED listed
    BY <1>9 DEF DoIndexWithdraw, Withdraw, MayWithdraw
  <2> QED
    BY <1>3, <2>2, <2>3 DEF Stages
<1>10. ASSUME NEW returned \in Returns, NEW unfilled \in Leftovers, DoSwap(returned, unfilled)
       PROVE  AdapterInv'
  <2>1. returned \in Nat /\ unfilled \in Nat
    BY FixedAssumptions
  <2>2. Len(queue) > 1 /\ (Buying \/ Selling)
    BY <1>1, <1>10, StageOf DEF DoSwap
  <2>3. Stages' /\ wallet' \in [Coins -> Nat]
    BY <1>2, <1>10, <2>1, <2>2, BuyingSwap, SellingSwap DEF Stages
  <2>4. queue' \in Seq(Messages) /\ before' = before
    BY <1>1, <1>2, <1>10, <2>2, QuietReply DEF DoSwap, AdapterTypes
  <2>5. UNCHANGED vars /\ UNCHANGED registered
    BY <1>10 DEF DoSwap
  <2>6. AdapterTypes'
    BY <1>2, <1>4, <2>3, <2>4, <2>5 DEF AdapterTypes
  <2> QED
    BY <1>3, <1>4, <2>3, <2>4, <2>5, <2>6
<1> QED
  BY <1>5, <1>6, <1>7, <1>8, <1>9, <1>10 DEF Deliver

\* A transaction begins where nothing is under way.
LEMMA BeginsInv ==
    ASSUME AdapterInv, Begins
    PROVE  AdapterInv'
<1>1. queue = <<>>
  BY DEF Begins, BeginDeposit, BeginWithdraw, Begin
<1>2. IInv /\ AdapterTypes /\ Idle
  <2>1. ~ Stages
    BY <1>1, NoMessage
  <2> QED
    BY <2>1 DEF AdapterInv, Running
<1> QED
  BY <1>2, BeginDepositStage, BeginWithdrawStage DEF Begins, AdapterInv

LEMMA AdapterNextInv == ASSUME AdapterInv, [AdapterNext]_allVars PROVE AdapterInv'
<1>1. CASE UNCHANGED allVars
  <2>1. /\ UNCHANGED vars /\ UNCHANGED <<listed, weight, shares, collector>>
        /\ UNCHANGED <<registered, wallet, queue, before>>
    BY <1>1 DEF allVars, adapterVars, vars
  <2>2. IInv'
    BY <2>1, StutterInv DEF AdapterInv
  <2>3. AdapterTypes = AdapterTypes' /\ Idle = Idle'
    BY <2>1 DEF AdapterTypes, Idle, Empty
  <2>4. BeforeOK = BeforeOK'
    BY <2>1 DEF BeforeOK
  <2>5. Buying = Buying' /\ Leaving = Leaving' /\ Paid = Paid'
    BY <2>1, Zenon DEF Buying, Leaving, Paid
  <2>6. \A k : \A taken : Ends(k, taken) => Ends(k, taken)'
    BY <2>1 DEF Ends
  <2>7. \A funds : \A n : WholeShares(funds, n) => WholeShares(funds, n)'
    BY <2>1 DEF WholeShares, DepositShare
  <2>8. Selling => Selling'
    BY <2>6, Zenon DEF Selling, Empty
  <2>9. Depositing => Depositing'
    BY <2>1, <2>6, <2>7, Zenon DEF Depositing
  <2> QED
    BY <2>2, <2>3, <2>4, <2>5, <2>8, <2>9 DEF AdapterInv, Running, Stages
<1> QED
  BY <1>1, BeginsInv, DeliverInv, RevertStage, BetweenStage DEF AdapterNext

\* The queue tells what the adapter and the index hold, at every message.
THEOREM AdapterInvariant == AdapterSpec => []AdapterInv
<1>1. AdapterInit => AdapterInv
  BY AdapterInitInv
<1>2. AdapterInv /\ [AdapterNext]_allVars => AdapterInv'
  BY AdapterNextInv
<1> QED
  BY <1>1, <1>2, PTL DEF AdapterSpec

-----------------------------------------------------------------------------
(* What follows                                                            *)

\* The index's stored weights stay covered at every message of the adapter's
\* transactions, and after each of their failures.
THEOREM IndexCovered == AdapterSpec => []Covered
<1>1. AdapterInv => Covered
  BY DEF AdapterInv, IInv
<1> QED
  BY <1>1, AdapterInvariant, PTL

\* No transaction leaves a coin or a receipt token with the adapter: not what
\* FIN left unfilled, not what the index paid, not what a failure undid.
THEOREM KeepsNothing == AdapterSpec => []NothingKept
<1>1. AdapterInv => NothingKept
  <2> SUFFICES ASSUME AdapterInv, queue = <<>> PROVE Idle
    BY DEF NothingKept, Idle
  <2>1. ~ Stages
    BY NoMessage
  <2> QED
    BY <2>1 DEF AdapterInv, Running
<1> QED
  BY <1>1, AdapterInvariant, PTL

\* What the adapter deposits is a whole number of shares by the index's own
\* count, and the index keeps not a unit of it beside them.
THEOREM DepositsExact == AdapterSpec => []ExactDeposit
<1>1. AdapterInv => ExactDeposit
  <2> SUFFICES ASSUME AdapterInv, Upcoming("index_deposit")
               PROVE  LET funds == Head(queue).funds
                      IN  \E n \in {funds[d] \div weight[d] : d \in listed} :
                              /\ n > 0 /\ DepositShare(funds, n)
                              /\ \A d \in listed : funds[d] = n * weight[d]
    BY DEF ExactDeposit
  <2>1. queue # <<>> /\ Depositing /\ Head(queue) = queue[1]
    BY StageOf, RunningQueue DEF Upcoming
  <2>2. PICK funds \in [Coins -> Nat], n \in Nat :
          queue[1] = IndexDeposit(funds) /\ WholeShares(funds, n)
    BY <2>1 DEF Depositing
  <2>3. Head(queue).funds = funds
    BY <2>1, <2>2 DEF IndexDeposit
  <2>4. PICK d \in listed : funds[d] \div weight[d] = n
    BY <2>2 DEF WholeShares, DepositShare
  <2>5. n \in {funds[e] \div weight[e] : e \in listed}
    BY <2>4
  <2> QED
    BY <2>2, <2>3, <2>5 DEF WholeShares
<1> QED
  BY <1>1, AdapterInvariant, PTL

\* No message asks for more than the adapter has when its turn comes.
THEOREM PaysItsWay == AdapterSpec => []Affordable
<1>1. AdapterInv => Affordable
  <2> SUFFICES ASSUME AdapterInv, queue # <<>> PROVE Affordable
    BY DEF Affordable, Upcoming
  <2>1. AdapterTypes /\ Head(queue) = queue[1] /\ Len(queue) \in Nat \ {0}
    BY RunningQueue DEF AdapterInv
  <2>2. ASSUME Upcoming("swap")
        PROVE  Head(queue).amount <= wallet[Head(queue).offer]
    <3>1. Len(queue) > 1 /\ (Buying \/ Selling)
      BY <2>2, StageOf
    <3>2. CASE Buying
      <4>1. PICK need \in [1 .. Len(queue) -> Nat] :
              /\ \A i \in 1 .. Len(queue) - 1 :
                     queue[i] \in Purchases /\ need[i] = need[i + 1] + queue[i].amount
              /\ need[1] <= wallet[Quote]
        BY <3>2 DEF Buying
      <4>2. /\ queue[1] \in Purchases /\ need[1] = need[2] + queue[1].amount
            /\ need[2] \in Nat /\ need[1] \in Nat
        BY <2>1, <3>1, <4>1
      <4>3. queue[1].offer = Quote /\ queue[1].amount \in Nat /\ wallet[Quote] \in Nat
        BY <2>1, <4>2, PurchaseFields DEF AdapterTypes, Coins
      <4> QED
        BY <2>1, <4>1, <4>2, <4>3
    <3>3. CASE Selling
      <4>1. /\ queue[1] \in Sales
            /\ Empty[queue[1].offer] + queue[1].amount <= wallet[queue[1].offer]
        BY <2>1, <3>1, <3>3 DEF Selling, Ends
      <4>2. Empty[queue[1].offer] = 0 /\ queue[1].amount \in Nat
        BY <4>1, SaleFields DEF Empty, Coins
      <4> QED
        BY <2>1, <4>1, <4>2
    <3> QED
      BY <3>1, <3>2, <3>3
  <2>3. ASSUME Upcoming("index_deposit")
        PROVE  \A c \in Coins : Head(queue).funds[c] <= wallet[c]
    <3>1. PICK funds \in [Coins -> Nat] :
            queue[1] = IndexDeposit(funds) /\ \A c \in Coins : funds[c] <= wallet[c]
      BY <2>3, StageOf DEF Depositing
    <3>2. Head(queue).funds = funds
      BY <2>1, <3>1 DEF IndexDeposit
    <3> QED
      BY <3>1, <3>2
  <2>4. ASSUME Upcoming("index_withdraw")
        PROVE  Head(queue).amount <= shares[Adapter]
    <3>1. PICK u \in Users, s \in 1 .. MaxSupply, min \in Nat :
            queue = <<IndexWithdraw(s), ThenSwap(u, min)>> /\ s <= shares[Adapter]
      BY <2>4, StageOf DEF Leaving
    <3>2. Head(queue) = IndexWithdraw(s)
      BY <3>1
    <3> QED
      BY <3>1, <3>2 DEF IndexWithdraw
  <2> QED
    BY <2>2, <2>3, <2>4 DEF Affordable
<1> QED
  BY <1>1, AdapterInvariant, PTL
=============================================================================
