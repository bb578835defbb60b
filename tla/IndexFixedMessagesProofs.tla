---------------------- MODULE IndexFixedMessagesProofs ----------------------
(***************************************************************************)
(* Message by message, the fixed index does what its transactions say, for *)
(* every choice of its constants: the safety of the refinement that        *)
(* IndexFixedMessages claims of IndexFixed, and its invariants.            *)
(*                                                                         *)
(* The inductive invariant says, for each kind of transaction and each     *)
(* message still to run, what every variable is as a function of `saved',  *)
(* the state that the transaction found.                                   *)
(***************************************************************************)
EXTENDS IndexFixedMessages, IndexFixedProofs, SequenceTheorems, FiniteSetTheorems

-----------------------------------------------------------------------------
\* Every receipt token is with an account or in the contract's own.
Accounted == Counts(shares, supply - held) /\ supply <= MaxSupply

-----------------------------------------------------------------------------
(* What the transaction found, and what it owes.                           *)

SavedOK ==
    /\ saved.weight \in [Denoms -> Nat]
    /\ saved.vault \in [Coins -> Nat]
    /\ saved.supply \in Nat
    /\ saved.shares \in [Accounts -> Nat]
    /\ saved.elapsed \in Nat
    /\ saved.stale \in SUBSET Denoms
    /\ Counts(saved.shares, saved.supply)
    /\ saved.supply <= MaxSupply

\* The AUM fee of the transaction under way, and the weights with it.
Due       == AumFee(rates.management, saved.elapsed, saved.supply)
NewWeight == Rebalanced(listed, saved.weight, saved.vault, saved.supply + Due)

\* What the transaction has left so far: the messages, the vault, the supply,
\* the accounts and the contract's own receipt tokens.
Left(messages, v, n, f, h) ==
    /\ stack = messages
    /\ vault = v
    /\ supply = n
    /\ shares = f
    /\ held = h

ToRun  == <<RunAgain>>
ToMint == MintFee(Due) \o ToRun

-----------------------------------------------------------------------------
(* Deposit: the shares are minted, then the fee.                           *)

Deposited(funds) == [c \in Coins |-> saved.vault[c] + funds[c]]

Depositing(funds, n) ==
    LET total == saved.supply + Due + n
    IN  /\ n > 0 => /\ listed # {}
                    /\ \A d \in listed : /\ funds[d] > 0
                                         /\ saved.weight[d] > 0
                                         /\ funds[d] \div saved.weight[d] = n
        /\ Fits(Deposited(funds))
        /\ weight = Rebalanced(listed, saved.weight, Deposited(funds), total)
        /\ stale = IF total > 0 THEN {} ELSE saved.stale
        /\ elapsed = 0

AtShares(u, funds, n) ==
    Left(<<Mint(u, n)>> \o MintFee(Due), Deposited(funds), saved.supply, saved.shares, 0)

AtDepositFee(u, funds, n) ==
    /\ n > 0 /\ Due > 0
    /\ Left(<<Mint(collector, Due)>>, Deposited(funds),
            saved.supply + n, Credit(saved.shares, u, n), 0)

DepositStage(u, funds, n) ==
    Depositing(funds, n) /\ (AtShares(u, funds, n) \/ AtDepositFee(u, funds, n))

-----------------------------------------------------------------------------
(* Withdraw: burn, pay, pass the exit fee on, mint the AUM fee, run.       *)

ExitFee(s)   == TxFee(rates.transaction, s)
Net(s)       == s - ExitFee(s)
Paid(s)      == Payout(NewWeight, Net(s))
Rest(s)      == [c \in Coins |-> saved.vault[c] - Paid(s)[c]]
Taken(u, s)  == [saved.shares EXCEPT ![u] = @ - s]
Passed(u, s) == Credit(Taken(u, s), collector, ExitFee(s))

ToPass(s) == PassFee(ExitFee(s)) \o ToMint
ToSend(s) == (IF listed = {} THEN <<>> ELSE <<Send(Paid(s))>>) \o ToPass(s)

\* The payout was made, or there was none to make.
PaidOut(s) ==
    /\ \A c \in Coins : Paid(s)[c] <= saved.vault[c]
    /\ Net(s) > 0 /\ listed # {} => \E c \in Coins : Paid(s)[c] > 0

Withdrawing(u, s) ==
    /\ s <= saved.shares[u]
    /\ ExitFee(s) <= s
    /\ weight = NewWeight
    /\ stale = {}
    /\ elapsed = 0

AtBurn(u, s) ==
    /\ Net(s) > 0
    /\ Left(<<Burn(Net(s))>> \o ToSend(s), saved.vault, saved.supply, Taken(u, s), s)

AtSend(u, s) ==
    /\ Net(s) > 0 /\ listed # {}
    /\ Left(<<Send(Paid(s))>> \o ToPass(s), saved.vault,
            saved.supply - Net(s), Taken(u, s), ExitFee(s))

AtPass(u, s) ==
    /\ ExitFee(s) > 0 /\ PaidOut(s)
    /\ Left(<<PassOn(ExitFee(s))>> \o ToMint, Rest(s),
            saved.supply - Net(s), Taken(u, s), ExitFee(s))

AtMint(u, s) ==
    /\ Due > 0 /\ PaidOut(s)
    /\ Left(<<Mint(collector, Due)>> \o ToRun, Rest(s),
            saved.supply - Net(s), Passed(u, s), 0)

AtRun(u, s) ==
    /\ saved.supply - Net(s) + Due <= MaxSupply /\ PaidOut(s)
    /\ Left(ToRun, Rest(s),
            saved.supply - Net(s) + Due, Credit(Passed(u, s), collector, Due), 0)

WithdrawStage(u, s) ==
    /\ Withdrawing(u, s)
    /\ AtBurn(u, s) \/ AtSend(u, s) \/ AtPass(u, s) \/ AtMint(u, s) \/ AtRun(u, s)

-----------------------------------------------------------------------------
(* Run, sent from outside: the fee is minted.                              *)

RunStage ==
    /\ Due > 0
    /\ weight = NewWeight
    /\ stale = {}
    /\ elapsed = 0
    /\ Left(<<Mint(collector, Due)>>, saved.vault, saved.supply, saved.shares, 0)

-----------------------------------------------------------------------------
(* Reallocate: sell, call back, buy, mint the fee, run. The parameters of  *)
(* the transaction are p, the answers of the two swaps x and y.            *)

Orders  == [from : Denoms, to : Denoms, target : Weights, minReturn : MinReturns,
            simulated : Returns]
Answers == [returned : Returns, unfilled : Leftovers]

SaleOf(p) == (saved.weight[p.from] - p.target) * saved.supply

\* The vault after a swap of n units of `offer' for `ask'.
Swapped(v, offer, ask, n, x) ==
    [v EXCEPT ![offer] = @ - n + x.unfilled, ![ask] = @ + x.returned]

Filled(v, offer, n, x) ==
    /\ n > 0 /\ n <= v[offer]
    /\ x.unfilled <= n
    /\ x.unfilled = n => x.returned = 0

SoldVault(p, x)      == Swapped(saved.vault, p.from, Quote, SaleOf(p), x)
BoughtVault(p, x, y) == Swapped(SoldVault(p, x), Quote, p.to, p.simulated, y)

Callback(p) == AfterReallocate(p.to, p.simulated, p.minReturn)

Reallocating(p) ==
    /\ p.from \in listed /\ p.to \in listed
    /\ saved.weight[p.from] > p.target
    /\ weight = saved.weight
    /\ stale = saved.stale

Sold1(p, x) ==
    /\ Filled(saved.vault, p.from, SaleOf(p), x)
    /\ x.returned + x.unfilled > 0

Bought(p, x, y) ==
    /\ Sold1(p, x)
    /\ Filled(SoldVault(p, x), Quote, p.simulated, y)
    /\ y.returned >= p.minReturn
    /\ Fits(BoughtVault(p, x, y))
    /\ elapsed = 0

AtFirst(p) ==
    /\ elapsed = saved.elapsed
    /\ Left(<<Swap(p.from, Quote, SaleOf(p), 0, <<Callback(p)>>)>>,
            saved.vault, saved.supply, saved.shares, 0)

AtCallback(p, x) ==
    /\ Sold1(p, x)
    /\ elapsed = saved.elapsed
    /\ Left(<<Callback(p)>>, SoldVault(p, x), saved.supply, saved.shares, 0)

AtSecond(p, x) ==
    /\ Sold1(p, x)
    /\ elapsed = 0
    /\ Left(<<Swap(Quote, p.to, p.simulated, p.minReturn, <<>>)>> \o ToMint,
            SoldVault(p, x), saved.supply, saved.shares, 0)

AtFee(p, x, y) ==
    /\ Bought(p, x, y)
    /\ Due > 0
    /\ Left(<<Mint(collector, Due)>> \o ToRun,
            BoughtVault(p, x, y), saved.supply, saved.shares, 0)

AtLast(p, x, y) ==
    /\ Bought(p, x, y)
    /\ saved.supply + Due <= MaxSupply
    /\ Left(ToRun, BoughtVault(p, x, y),
            saved.supply + Due, Credit(saved.shares, collector, Due), 0)

ReallocateStage(p) ==
    /\ Reallocating(p)
    /\ \/ AtFirst(p)
       \/ \E x \in Answers : AtCallback(p, x) \/ AtSecond(p, x)
       \/ \E x, y \in Answers : AtFee(p, x, y) \/ AtLast(p, x, y)

-----------------------------------------------------------------------------
(* The inductive invariant.                                                *)

Stage ==
    \/ \E u \in Accounts, funds \in Funds, n \in 0 .. MaxSupply : DepositStage(u, funds, n)
    \/ \E u \in Accounts, s \in 1 .. MaxSupply : WithdrawStage(u, s)
    \/ RunStage
    \/ \E p \in Orders : ReallocateStage(p)

Sound == TypeOK /\ held \in Nat /\ Accounted

TxInv ==
    /\ Sound
    /\ stack = <<>> => held = 0
    /\ stack # <<>> => SavedOK /\ Stage

-----------------------------------------------------------------------------
(* Sequences of messages, and tokens counted.                              *)

Sequence(s) == \E S : s \in Seq(S)

\* What associativity says of three sequences.
Associates(s, t, u) == (s \o t) \o u = s \o (t \o u)

\* Sequences concatenate, whatever their elements are.
LEMMA Concat ==
    ASSUME NEW s, Sequence(s), NEW t, Sequence(t), NEW u, Sequence(u)
    PROVE  /\ Sequence(s \o t)
           /\ Associates(s, t, u)
           /\ <<>> \o s = s /\ s \o <<>> = s
<1>1. PICK S, T, U : s \in Seq(S) /\ t \in Seq(T) /\ u \in Seq(U)
  BY DEF Sequence
<1> DEFINE V == S \cup T \cup U
<1>2. S \subseteq V /\ T \subseteq V /\ U \subseteq V
  OBVIOUS
<1> HIDE DEF V
<1>3. s \in Seq(V) /\ t \in Seq(V) /\ u \in Seq(V)
  BY <1>1, <1>2, SeqMonotonic
<1>4. s \o t \in Seq(V)
  BY <1>3, ConcatProperties
<1> QED
  BY <1>3, <1>4, ConcatEmptySeq, ConcatAssociative DEF Sequence, Associates

\* One message in front of others.
LEMMA InFront ==
    ASSUME NEW a, NEW s, Sequence(s)
    PROVE  /\ Sequence(<<a>>) /\ Sequence(<<a>> \o s)
           /\ <<a>> \o s # <<>>
           /\ Head(<<a>> \o s) = a
           /\ Tail(<<a>> \o s) = s
<1>1. PICK S : s \in Seq(S)
  BY DEF Sequence
<1> DEFINE V == S \cup {a}
           m == <<a>> \o s
<1>2. s \in Seq(V) /\ <<a>> \in Seq(V) /\ Len(<<a>>) = 1
  BY <1>1, SeqMonotonic
<1>3. /\ m \in Seq(V)
      /\ Len(m) = 1 + Len(s)
      /\ \A i \in 1 .. 1 + Len(s) : m[i] = IF i <= 1 THEN <<a>>[i] ELSE s[i - 1]
  BY <1>2, ConcatProperties
<1> HIDE DEF m, V
<1>4. Len(s) \in Nat
  BY <1>2, LenProperties
<1>5. m # <<>> /\ m[1] = a
  BY <1>3, <1>4
<1>6. /\ Tail(m) \in Seq(V)
      /\ Len(Tail(m)) = Len(s)
      /\ \A i \in 1 .. Len(s) : Tail(m)[i] = s[i]
  BY <1>3, <1>4, <1>5, HeadTailProperties
<1>7. Tail(m) = s
  BY <1>2, <1>6, SeqEqual
<1> QED
  BY <1>2, <1>3, <1>5, <1>7 DEF m, Sequence

\* No message at all.
LEMMA NoMessage == Sequence(<<>>)
<1>1. <<>> \in Seq({})
  OBVIOUS
<1> QED
  BY <1>1, Zenon DEF Sequence

\* One message on its own.
LEMMA Alone ==
    ASSUME NEW a
    PROVE  /\ Sequence(<<a>>)
           /\ <<a>> # <<>> /\ Head(<<a>>) = a /\ Tail(<<a>>) = <<>>
<1>1. <<a>> \in Seq({a})
  OBVIOUS
<1>2. Sequence(<<a>>)
  BY <1>1, Zenon DEF Sequence
<1>3. <<a>> # <<>> /\ Head(<<a>>) = a /\ Tail(<<a>>) = <<>>
  OBVIOUS
<1> QED
  BY <1>2, <1>3


-----------------------------------------------------------------------------
(* What every stage of a transaction shares.                               *)

\* Crediting adds up, and crediting nothing changes nothing.
LEMMA CreditTwice ==
    ASSUME NEW f \in [Accounts -> Nat], NEW a \in Accounts, NEW m \in Nat, NEW n \in Nat
    PROVE  /\ Credit(f, a, n) \in [Accounts -> Nat]
           /\ Credit(Credit(f, a, m), a, n) = Credit(f, a, m + n)
           /\ Credit(f, a, 0) = f
<1>1. \A k \in Nat : Credit(f, a, k) = [b \in Accounts |-> IF b = a THEN f[b] + k ELSE f[b]]
  BY DEF Credit
<1>2. \A k \in Nat : Credit(f, a, k) \in [Accounts -> Nat]
  BY <1>1
<1>3. Credit(f, a, 0) = f
  BY <1>1
<1> DEFINE g == Credit(f, a, m)
<1>4. g \in [Accounts -> Nat] /\ g = [b \in Accounts |-> IF b = a THEN f[b] + m ELSE f[b]]
  BY <1>1, <1>2
<1> HIDE DEF g
<1>5. Credit(g, a, n) = [b \in Accounts |-> IF b = a THEN g[b] + n ELSE g[b]]
  BY <1>4 DEF Credit
<1>6. Credit(f, a, m + n) = [b \in Accounts |-> IF b = a THEN f[b] + (m + n) ELSE f[b]]
  BY <1>1
<1>7. \A b \in Accounts : (IF b = a THEN g[b] + n ELSE g[b])
                             = IF b = a THEN f[b] + (m + n) ELSE f[b]
  BY <1>4
<1>8. Credit(g, a, n) = Credit(f, a, m + n)
  BY <1>5, <1>6, <1>7
<1> QED
  BY <1>2, <1>3, <1>8 DEF g

\* The fee of the transaction is a natural number, and the fee that is due is
\* that one until the handler accrues, none after it.
LEMMA DueType ==
    ASSUME TypeOK, SavedOK
    PROVE  /\ Due \in Nat
           /\ elapsed = saved.elapsed /\ supply = saved.supply => AumDue = Due
BY FeeType DEF TypeOK, FeeRates, SavedOK, Due, AumDue

\* Nothing more is due right after an accrual.
LEMMA NothingDue == elapsed = 0 => AumDue = 0 /\ AfterRun = <<>>
BY DEF AumDue, AumFee, AfterRun, MintFee

\* The rest of a transaction, with its optional messages there or not.
LEMMA Rests ==
    ASSUME Due \in Nat
    PROVE  /\ Sequence(ToRun) /\ Sequence(ToMint) /\ Sequence(MintFee(Due))
           /\ ToRun # <<>> /\ ToMint # <<>>
           /\ Head(ToRun) = RunAgain /\ Tail(ToRun) = <<>>
           /\ Due = 0 => ToMint = ToRun /\ MintFee(Due) = <<>>
           /\ Due > 0 => /\ ToMint = <<Mint(collector, Due)>> \o ToRun
                         /\ MintFee(Due) = <<Mint(collector, Due)>>
<1>1. Sequence(ToRun) /\ ToRun # <<>> /\ Head(ToRun) = RunAgain /\ Tail(ToRun) = <<>>
  BY Alone DEF ToRun
<1>2. CASE Due = 0
  <2>1. MintFee(Due) = <<>>
    BY <1>2 DEF MintFee
  <2>2. <<>> \o ToRun = ToRun
    BY <1>1, Concat
  <2>3. ToMint = ToRun
    BY <2>1, <2>2 DEF ToMint
  <2> QED
    BY <1>1, <1>2, <2>1, <2>3, NoMessage
<1>3. CASE Due > 0
  <2>1. MintFee(Due) = <<Mint(collector, Due)>>
    BY <1>3 DEF MintFee
  <2>2. /\ Sequence(<<Mint(collector, Due)>> \o ToRun)
        /\ <<Mint(collector, Due)>> \o ToRun # <<>>
    BY <1>1, InFront
  <2>3. ToMint = <<Mint(collector, Due)>> \o ToRun
    BY <2>1 DEF ToMint
  <2> QED
    BY <1>1, <1>3, <2>1, <2>2, <2>3, Alone
<1> QED
  BY <1>2, <1>3

\* What the stages are made of does not move while the transaction runs.
LEMMA Frozen ==
    ASSUME UNCHANGED <<saved, listed, rates, collector>>
    PROVE  /\ Due' = Due /\ NewWeight' = NewWeight
           /\ ToRun' = ToRun /\ ToMint' = ToMint
           /\ SavedOK => SavedOK'
<1>1. Due' = Due
  BY DEF Due
<1>2. NewWeight' = NewWeight
  BY <1>1 DEF NewWeight, Rebalanced
<1>3. ToRun' = ToRun
  BY DEF ToRun, RunAgain
<1>4. ToMint' = ToMint
  BY <1>1, <1>3 DEF ToMint, MintFee, Mint
<1>5. SavedOK => SavedOK'
  BY DEF SavedOK, Counts, Tokens
<1> QED
  BY <1>1, <1>2, <1>3, <1>4, <1>5

\* A message leaves the others, and the saved state while there are any.
LEMMA Replied ==
    ASSUME NEW m, NEW messages, NEW rest, Sequence(messages), Sequence(rest),
           stack = <<m>> \o rest, Reply(messages)
    PROVE  /\ Head(stack) = m /\ stack # <<>>
           /\ stack' = messages \o rest
           /\ stack' # <<>> => saved' = saved
BY InFront DEF Reply, Continue

\* A message that sends nothing leaves the others.
LEMMA Popped ==
    ASSUME NEW m, NEW rest, Sequence(rest), stack = <<m>> \o rest, Reply(<<>>)
    PROVE  /\ Head(stack) = m /\ stack # <<>>
           /\ stack' = rest
           /\ stack' # <<>> => saved' = saved
<1>1. Sequence(<<>>) /\ <<>> \o rest = rest
  BY Concat, NoMessage, Alone
<1> QED
  BY <1>1, Replied

\* The last message leaves the transaction done.
LEMMA LastPopped ==
    ASSUME NEW m, stack = <<m>>, Reply(<<>>)
    PROVE  Head(stack) = m /\ stack # <<>> /\ stack' = <<>>
<1>1. Sequence(<<>>) /\ <<>> \o <<>> = <<>> /\ Tail(<<m>>) = <<>>
  BY Concat, NoMessage, Alone
<1> QED
  BY <1>1, Alone DEF Reply, Continue

\* The kind of the next message is the kind of the step.
LEMMA Kinds ==
    ASSUME Deliver
    PROVE  /\ stack # <<>>
           /\ Head(stack).type = "mint" => DoMint
           /\ Head(stack).type = "burn" => DoBurn
           /\ Head(stack).type = "send" => DoSend
           /\ Head(stack).type = "pass_on" => DoPassOn
           /\ Head(stack).type = "callback" => DoCallback
           /\ Head(stack).type = "run" => DoRun
           /\ Head(stack).type = "swap" =>
                  \E returned \in Returns, unfilled \in Leftovers : DoSwap(returned, unfilled)
BY DEF Deliver, Upcoming, DoMint, DoBurn, DoSend, DoPassOn, DoCallback, DoRun, DoSwap

-----------------------------------------------------------------------------
(* Each message keeps the types and loses no receipt token.                *)

\* What is counted: nobody holds more than the supply.
LEMMA SoundBounds ==
    ASSUME Sound
    PROVE  /\ supply \in Nat /\ held \in Nat /\ held <= supply /\ supply <= MaxSupply
           /\ \A u \in Accounts : shares[u] \in Nat /\ shares[u] <= supply - held
<1>1. supply - held \in Nat
  BY FS_CardinalityType DEF Sound, Accounted, Counts
<1>2. \A u \in Accounts : shares[u] \in Nat /\ shares[u] <= supply - held
  BY CountsBound DEF Sound, Accounted, TypeOK
<1> QED
  BY <1>1, <1>2 DEF Sound, Accounted, TypeOK

\* A rebalance keeps the types.
LEMMA RebalanceType ==
    ASSUME TypeOK, vault' \in [Coins -> Nat], NEW balance \in [Coins -> Nat],
           NEW total \in Nat, Rebalance(weight, balance, total)
    PROVE  weight' \in [Denoms -> Nat] /\ stale' \in SUBSET Denoms
BY RebalancedType DEF TypeOK, Rebalance

\* A mint to some account is counted.
LEMMA MintSound ==
    ASSUME Sound, DoMint, Head(stack).to \in Accounts, Head(stack).amount \in Nat
    PROVE  Sound'
<1> DEFINE u == Head(stack).to
           n == Head(stack).amount
<1>1. /\ supply + n <= MaxSupply
      /\ supply' = supply + n
      /\ shares' = Credit(shares, u, n)
      /\ UNCHANGED <<listed, weight, vault, rates, elapsed, collector, stale, held>>
  BY DEF DoMint
<1>2. u \in Accounts /\ n \in Nat
  OBVIOUS
<1> HIDE DEF u, n
<1>3. Counts(Credit(shares, u, n), (supply - held) + n)
  <2>1. shares \in [Accounts -> Nat] /\ Counts(shares, supply - held)
    BY DEF Sound, Accounted, TypeOK
  <2> QED
    BY <1>2, <2>1, CreditCounts
<1>4. TypeOK'
  <2>1. shares' \in [Accounts -> Nat]
    BY <1>1, <1>2, CreditType DEF Sound, TypeOK
  <2>2. supply' \in Nat
    BY <1>1, <1>2 DEF Sound, TypeOK
  <2> QED
    BY <1>1, <2>1, <2>2 DEF Sound, TypeOK
<1>5. (supply - held) + n = supply' - held' /\ supply' <= MaxSupply
  BY <1>1, <1>2 DEF Sound, TypeOK
<1>6. Counts(shares', supply' - held')
  BY <1>1, <1>3, <1>5
<1>7. Accounted'
  BY <1>5, <1>6 DEF Accounted, Counts, Tokens
<1> QED
  BY <1>1, <1>4, <1>7 DEF Sound

\* A burn of what the contract holds is counted.
LEMMA BurnSound ==
    ASSUME Sound, DoBurn, Head(stack).amount \in Nat
    PROVE  Sound'
<1> DEFINE n == Head(stack).amount
<1>1. /\ n <= held
      /\ held' = held - n
      /\ supply' = supply - n
      /\ UNCHANGED <<listed, weight, vault, shares, rates, elapsed, collector, stale>>
  BY DEF DoBurn
<1>2. n \in Nat
  OBVIOUS
<1> HIDE DEF n
<1>3. held' \in Nat /\ supply' \in Nat /\ supply' - held' = supply - held /\ supply' <= MaxSupply
  BY <1>1, <1>2, SoundBounds, FixedAssumptions
<1>4. TypeOK'
  BY <1>1, <1>3 DEF Sound, TypeOK
<1>5. Accounted'
  BY <1>1, <1>3 DEF Sound, Accounted, Counts, Tokens
<1> QED
  BY <1>3, <1>4, <1>5 DEF Sound

\* A send moves no receipt token.
LEMMA SendSound ==
    ASSUME Sound, DoSend, Head(stack).coins \in [Coins -> Nat]
    PROVE  Sound'
<1>1. /\ \A c \in Coins : Head(stack).coins[c] <= vault[c]
      /\ vault' = [c \in Coins |-> vault[c] - Head(stack).coins[c]]
      /\ UNCHANGED <<listed, weight, supply, shares, rates, elapsed, collector, stale, held>>
  BY DEF DoSend
<1>2. \A c \in Coins : vault[c] - Head(stack).coins[c] \in Nat
  BY <1>1 DEF Sound, TypeOK
<1>3. vault' \in [Coins -> Nat]
  BY <1>1, <1>2
<1> QED
  BY <1>1, <1>3 DEF Sound, TypeOK, Accounted, Counts, Tokens

\* The exit fee goes from the contract to the collector.
LEMMA PassOnSound ==
    ASSUME Sound, DoPassOn, Head(stack).amount \in Nat
    PROVE  Sound'
<1> DEFINE n == Head(stack).amount
<1>1. /\ n <= held
      /\ held' = held - n
      /\ shares' = Credit(shares, collector, n)
      /\ UNCHANGED <<listed, weight, vault, supply, rates, elapsed, collector, stale>>
  BY DEF DoPassOn
<1>2. n \in Nat /\ collector \in Accounts
  BY DEF Sound, TypeOK
<1> HIDE DEF n
<1>3. Counts(Credit(shares, collector, n), (supply - held) + n)
  <2>1. shares \in [Accounts -> Nat] /\ Counts(shares, supply - held)
    BY DEF Sound, Accounted, TypeOK
  <2> QED
    BY <1>2, <2>1, CreditCounts
<1>4. held' \in Nat /\ (supply - held) + n = supply' - held' /\ supply' <= MaxSupply
  BY <1>1, <1>2, SoundBounds
<1>5. TypeOK'
  BY <1>1, <1>2, CreditType DEF Sound, TypeOK
<1>6. Counts(shares', supply' - held')
  BY <1>1, <1>3, <1>4
<1>7. Accounted'
  BY <1>4, <1>6 DEF Accounted, Counts, Tokens
<1> QED
  BY <1>4, <1>5, <1>7 DEF Sound

\* A swap of what the vault has gives natural numbers.
LEMMA SwappedType ==
    ASSUME NEW v \in [Coins -> Nat], NEW offer \in Coins, NEW ask \in Coins,
           NEW n \in Nat, NEW x \in [returned : Nat, unfilled : Nat], Filled(v, offer, n, x)
    PROVE  Swapped(v, offer, ask, n, x) \in [Coins -> Nat]
<1>1. v[offer] \in Nat /\ n <= v[offer] /\ x.unfilled \in Nat /\ x.returned \in Nat
  BY DEF Filled
<1> DEFINE w == [v EXCEPT ![offer] = @ - n + x.unfilled]
<1>2. w \in [Coins -> Nat]
  BY <1>1
<1> HIDE DEF w
<1>3. [w EXCEPT ![ask] = @ + x.returned] \in [Coins -> Nat]
  BY <1>1, <1>2
<1> QED
  BY <1>3 DEF Swapped, w

\* A swap moves no receipt token.
LEMMA SwapSound ==
    ASSUME Sound, NEW returned \in Returns, NEW unfilled \in Leftovers,
           DoSwap(returned, unfilled),
           Head(stack).offer \in Coins, Head(stack).ask \in Coins,
           Head(stack).amount \in Nat,
           Head(stack).then # <<>> => Head(stack).offer \in Denoms
    PROVE  Sound'
<1> DEFINE x == [returned |-> returned, unfilled |-> unfilled]
<1>1. x \in [returned : Nat, unfilled : Nat]
  BY FixedAssumptions
<1>2. /\ Filled(vault, Head(stack).offer, Head(stack).amount, x)
      /\ vault' = Swapped(vault, Head(stack).offer, Head(stack).ask, Head(stack).amount, x)
      /\ stale' \in SUBSET Denoms
      /\ UNCHANGED <<listed, weight, supply, shares, rates, elapsed, collector, held>>
  BY DEF DoSwap, Filled, Swapped, Sound, TypeOK
<1> HIDE DEF x
<1>3. vault' \in [Coins -> Nat]
  BY <1>1, <1>2, SwappedType DEF Sound, TypeOK
<1> QED
  BY <1>2, <1>3 DEF Sound, TypeOK, Accounted, Counts, Tokens

\* The callback and Run move neither coins nor receipt tokens.
LEMMA CallSound ==
    ASSUME Sound, DoCallback \/ DoRun
    PROVE  Sound'
<1>1. CASE DoCallback
  BY <1>1 DEF DoCallback, Sound, TypeOK, Accounted, Counts, Tokens
<1>2. CASE DoRun
  <2>1. /\ Rebalance(weight, vault, supply + AumDue) /\ elapsed' = 0
        /\ UNCHANGED <<listed, vault, supply, shares, rates, collector, held>>
    BY <1>2 DEF DoRun
  <2>2. supply + AumDue \in Nat
    BY AumDueType DEF Sound, TypeOK
  <2>3. weight' \in [Denoms -> Nat] /\ stale' \in SUBSET Denoms
    BY <2>1, <2>2, RebalanceType DEF Sound, TypeOK
  <2> QED
    BY <2>1, <2>3 DEF Sound, TypeOK, Accounted, Counts, Tokens
<1> QED
  BY <1>1, <1>2

-----------------------------------------------------------------------------
(* The transactions of the abstract specification, seen from here.         *)

\* What the refinement asks of one step.
Simulates == [Transactions!Next]_(Transactions!vars)

\* The operators of the instance are those of IndexFixed.
LEMMA SameOperators ==
    /\ Transactions!Coins = Coins
    /\ Transactions!Funds = Funds
    /\ \A rate, n : Transactions!TxFee(rate, n) = TxFee(rate, n)
    /\ \A rate, t, n : Transactions!AumFee(rate, t, n) = AumFee(rate, t, n)
    /\ \A L, w, v, n : Transactions!Rebalanced(L, w, v, n) = Rebalanced(L, w, v, n)
    /\ \A f, a, n : Transactions!Credit(f, a, n) = Credit(f, a, n)
    /\ \A w, n : Transactions!Payout(w, n) = Payout(w, n)
    /\ \A v : Transactions!Fits(v) = Fits(v)
<1>1. Transactions!Coins = Coins
  BY DEF Transactions!Coins, Coins
<1>2. Transactions!Funds = Funds
  BY <1>1 DEF Transactions!Funds, Funds
<1>3. \A rate, n : Transactions!TxFee(rate, n) = TxFee(rate, n)
  BY DEF Transactions!TxFee, TxFee, Transactions!ToCeil, ToCeil, Transactions!DecMul, DecMul,
         Transactions!FromRatio, FromRatio
<1>4. \A rate, t, n : Transactions!AumFee(rate, t, n) = AumFee(rate, t, n)
  BY DEF Transactions!AumFee, AumFee, Transactions!ToCeil, ToCeil, Transactions!DecMul, DecMul,
         Transactions!FromRatio, FromRatio, Transactions!EffectiveRate, EffectiveRate,
         Transactions!YearFraction, YearFraction
<1>5. \A L, w, v, n : Transactions!Rebalanced(L, w, v, n) = Rebalanced(L, w, v, n)
  BY DEF Transactions!Rebalanced, Rebalanced
<1>6. \A f, a, n : Transactions!Credit(f, a, n) = Credit(f, a, n)
  BY DEF Transactions!Credit, Credit
<1>7. \A w, n : Transactions!Payout(w, n) = Payout(w, n)
  BY <1>1 DEF Transactions!Payout, Payout
<1>8. \A v : Transactions!Fits(v) = Fits(v)
  BY <1>1 DEF Transactions!Fits, Fits
<1> QED
  BY <1>1, <1>2, <1>3, <1>4, <1>5, <1>6, <1>7, <1>8

\* Seen from the abstract specification, a transaction under way has not begun.
LEMMA UnderWay ==
    ASSUME UNCHANGED <<listed, rates, collector>>, stack' # <<>>,
           \/ stack # <<>> /\ saved' = saved
           \/ stack = <<>> /\ saved' = Snapshot
    PROVE  Simulates
BY DEF Simulates, Transactions!vars, Snapshot

\* The fee of the abstract transaction is the fee of the transaction.
LEMMA AbstractDue ==
    /\ stack # <<>> => Transactions!AumDue = Due
    /\ stack = <<>> => Transactions!AumDue = AumDue
BY SameOperators DEF Transactions!AumDue, Due, AumDue

\* The last message of a deposit makes it a Deposit.
LEMMA DepositDone ==
    ASSUME stack # <<>>, stack' = <<>>, Due \in Nat, saved.supply \in Nat,
           NEW u \in Accounts, NEW funds \in Funds, NEW n \in 1 .. MaxSupply,
           Depositing(funds, n),
           supply' = saved.supply + Due + n, supply' <= MaxSupply,
           shares' = Credit(Credit(saved.shares, u, n), collector, Due),
           vault' = Deposited(funds),
           UNCHANGED <<weight, stale, elapsed, listed, rates, collector>>
    PROVE  Simulates
<1>1. n \in Nat /\ n > 0 /\ saved.supply + Due + n > 0
  BY FixedAssumptions
<1>2. Transactions!DepositShare(funds, n)
  BY <1>1 DEF Transactions!DepositShare, Depositing
<1>3. /\ Fits(Deposited(funds))
      /\ weight' = Rebalanced(listed, saved.weight, Deposited(funds), saved.supply + Due + n)
      /\ stale' = {} /\ elapsed' = 0
  BY <1>1 DEF Depositing
<1>4. Transactions!Deposit(u, funds)
  BY <1>2, <1>3, SameOperators, AbstractDue DEF Transactions!Deposit, Deposited
<1>5. Transactions!UserStep
  BY <1>4, SameOperators DEF Transactions!UserStep
<1> QED
  BY <1>5 DEF Simulates, Transactions!Next

\* The Run that closes a withdrawal makes it a Withdraw.
LEMMA WithdrawDone ==
    ASSUME stack # <<>>, stack' = <<>>, TypeOK, SavedOK,
           NEW u \in Accounts, NEW s \in 1 .. MaxSupply,
           Withdrawing(u, s), AtRun(u, s),
           weight' = Rebalanced(listed, weight, vault, supply), stale' = {}, elapsed' = 0,
           UNCHANGED <<vault, supply, shares, listed, rates, collector>>
    PROVE  Simulates
<1>1. Due \in Nat /\ s \in Nat /\ s > 0
  BY DueType, FixedAssumptions
<1>2. ExitFee(s) \in Nat
  BY <1>1, FeeType DEF TypeOK, FeeRates, ExitFee
<1>3. /\ s <= saved.shares[u] /\ ExitFee(s) <= s /\ weight = NewWeight
      /\ saved.supply - Net(s) + Due <= MaxSupply /\ PaidOut(s)
      /\ vault = Rest(s) /\ supply = saved.supply - Net(s) + Due
      /\ shares = Credit(Passed(u, s), collector, Due)
  BY DEF Withdrawing, AtRun, Left
<1>4. s <= saved.supply
  BY <1>1, <1>3, CountsBound DEF SavedOK
<1>5. /\ Net(s) \in Nat /\ Net(s) <= saved.supply + Due
      /\ saved.supply - Net(s) + Due = saved.supply + Due - Net(s)
  BY <1>1, <1>2, <1>3, <1>4 DEF Net, SavedOK
<1>6. shares = Credit(Taken(u, s), collector, ExitFee(s) + Due)
  <2>1. Taken(u, s) \in [Accounts -> Nat] /\ collector \in Accounts
    BY <1>1, <1>3, DebitCounts DEF SavedOK, Taken, TypeOK
  <2> QED
    BY <1>1, <1>2, <1>3, <2>1, CreditTwice DEF Passed
<1> HIDE DEF Net
<1>7. Transactions!Withdraw(u, s)
  <2> DEFINE fee  == Transactions!AumDue
             burn == Transactions!TxFee(rates.transaction, s)
             total == saved.supply + fee
             w    == Transactions!Rebalanced(listed, saved.weight, saved.vault, total)
             paid == Transactions!Payout(w, s - burn)
  <2>1. fee = Due /\ burn = ExitFee(s) /\ s - burn = Net(s)
    BY SameOperators, AbstractDue DEF ExitFee, Net
  <2>2. w = NewWeight /\ paid = Paid(s)
    BY <2>1, SameOperators DEF NewWeight, Paid
  <2> HIDE DEF fee, burn, total, w, paid
  <2>3. total = saved.supply + Due
    BY <2>1 DEF total
  <2>4. /\ [c \in Transactions!Coins |-> saved.vault[c] - paid[c]] = vault'
        /\ weight' = Transactions!Rebalanced(listed, w, vault', total - (s - burn))
    <3>1. [c \in Transactions!Coins |-> saved.vault[c] - paid[c]] = Rest(s)
      BY <2>2, SameOperators DEF Rest
    <3>2. supply = total - (s - burn)
      BY <1>1, <1>3, <1>5, <2>1, <2>3 DEF SavedOK
    <3>3. weight' = Rebalanced(listed, w, vault', total - (s - burn))
      BY <1>3, <2>2, <3>2
    <3> QED
      BY <1>3, <3>1, <3>3, SameOperators
  <2>5. shares' = Transactions!Credit([saved.shares EXCEPT ![u] = @ - s], collector, burn + fee)
    BY <1>6, <2>1, SameOperators DEF Taken
  <2>6. /\ \A c \in Transactions!Coins : paid[c] <= saved.vault[c]
        /\ s - burn > 0 /\ listed # {} => \E c \in Transactions!Coins : paid[c] > 0
    BY <1>3, <2>1, <2>2, SameOperators DEF PaidOut
  <2>7. /\ s > 0 /\ s <= saved.shares[u] /\ burn <= s /\ s - burn <= total
        /\ total - (s - burn) <= MaxSupply /\ supply' = total - (s - burn)
    BY <1>1, <1>3, <1>5, <2>1, <2>3 DEF SavedOK
  <2> QED
    BY <2>4, <2>5, <2>6, <2>7 DEF Transactions!Withdraw, Transactions!MayWithdraw,
        fee, burn, total, w, paid
<1>8. Transactions!UserStep
  BY <1>7 DEF Transactions!UserStep
<1> QED
  BY <1>8 DEF Simulates, Transactions!Next

\* The mint that closes a Run makes it one.
LEMMA RunDone ==
    ASSUME stack # <<>>, stack' = <<>>, RunStage, Due \in Nat, saved.supply \in Nat,
           supply' = saved.supply + Due, supply' <= MaxSupply,
           shares' = Credit(saved.shares, collector, Due),
           UNCHANGED <<weight, vault, stale, elapsed, listed, rates, collector>>
    PROVE  Simulates
<1>1. /\ weight' = NewWeight /\ stale' = {} /\ elapsed' = 0 /\ vault' = saved.vault
      /\ saved.supply + Due > 0
  BY DEF RunStage, Left
<1>2. Transactions!Run
  BY <1>1, SameOperators, AbstractDue DEF Transactions!Run, NewWeight
<1>3. Transactions!UserStep
  BY <1>2 DEF Transactions!UserStep
<1> QED
  BY <1>3 DEF Simulates, Transactions!Next

\* A Run that owes no fee is over when it has begun.
LEMMA RunAtOnce ==
    ASSUME stack = <<>>, stack' = <<>>, Sound, BeginRun
    PROVE  Simulates
<1>1. AumDue = 0
  <2>1. MintFee(AumDue) = <<>>
    BY DEF BeginRun, Begin, AfterRun
  <2>2. AumDue \in Nat
    BY AumDueType DEF Sound
  <2> QED
    BY <2>1, <2>2, Alone DEF MintFee
<1>2. supply \in Nat /\ supply <= MaxSupply /\ Credit(shares, collector, 0) = shares
  BY SoundBounds, CreditTwice DEF Sound, TypeOK
<1>3. Transactions!Run
  BY <1>1, <1>2, SameOperators, AbstractDue DEF Transactions!Run, BeginRun, Rebalance
<1>4. Transactions!UserStep
  BY <1>3 DEF Transactions!UserStep
<1> QED
  BY <1>4 DEF Simulates, Transactions!Next

\* The sale of the abstract reallocation, and the vault after its first leg.
LEMMA AbstractSale ==
    ASSUME stack # <<>>, NEW p \in Orders, NEW returned, NEW unfilled
    PROVE  /\ Transactions!Sale(p.from, p.target) = SaleOf(p)
           /\ Transactions!FirstLeg(p.from, p.target, returned, unfilled)
                  = SoldVault(p, [returned |-> returned, unfilled |-> unfilled])
           /\ (/\ p.from \in listed /\ p.to \in listed /\ saved.weight[p.from] > p.target
               /\ SaleOf(p) > 0 /\ SaleOf(p) <= saved.vault[p.from])
                  => Transactions!MayReallocate(p.from, p.to, p.target)
<1>1. Transactions!Sale(p.from, p.target) = SaleOf(p)
  BY DEF Transactions!Sale, SaleOf
<1>2. Transactions!FirstLeg(p.from, p.target, returned, unfilled)
          = SoldVault(p, [returned |-> returned, unfilled |-> unfilled])
  BY <1>1 DEF Transactions!FirstLeg, SoldVault, Swapped
<1> QED
  BY <1>1, <1>2 DEF Transactions!MayReallocate

\* After the first leg the vault has natural numbers, and the second leg swaps
\* two coins.
LEMMA SoldVaultType ==
    ASSUME SavedOK, NEW p \in Orders, NEW x \in Answers, Sold1(p, x),
           saved.weight[p.from] > p.target
    PROVE  /\ SoldVault(p, x) \in [Coins -> Nat]
           /\ Quote \in Coins /\ p.from \in Coins /\ p.to \in Coins
           /\ p.to # Quote /\ p.from # Quote
           /\ SaleOf(p) \in Nat /\ p.simulated \in Nat
           /\ saved.supply > 0
<1>1. /\ p.from \in Denoms /\ p.to \in Denoms /\ p.target \in Nat /\ p.simulated \in Nat
      /\ x \in [returned : Nat, unfilled : Nat]
  BY FixedAssumptions DEF Orders, Answers
<1>2. Quote \in Coins /\ p.from \in Coins /\ p.to \in Coins /\ p.to # Quote /\ p.from # Quote
  BY <1>1, FixedAssumptions DEF Coins
<1>3. SaleOf(p) \in Nat /\ SaleOf(p) > 0 /\ saved.supply > 0
  <2>1. saved.weight[p.from] \in Nat /\ saved.supply \in Nat
    BY <1>1 DEF SavedOK
  <2>2. saved.weight[p.from] - p.target \in Nat
    BY <1>1, <2>1
  <2>3. SaleOf(p) > 0
    BY DEF Sold1, Filled
  <2> QED
    BY <2>1, <2>2, <2>3 DEF SaleOf
<1>4. SoldVault(p, x) \in [Coins -> Nat]
  BY <1>1, <1>2, <1>3, SwappedType DEF SoldVault, Sold1, SavedOK
<1> QED
  BY <1>1, <1>2, <1>3, <1>4

\* The Run that closes a reallocation makes it a Reallocate.
LEMMA ReallocateDone ==
    ASSUME stack # <<>>, stack' = <<>>, SavedOK,
           NEW p \in Orders, NEW x \in Answers, NEW y \in Answers,
           Reallocating(p), AtLast(p, x, y),
           weight' = Rebalanced(listed, weight, vault, supply), stale' = {}, elapsed' = 0,
           UNCHANGED <<vault, supply, shares, listed, rates, collector>>
    PROVE  Simulates
<1>1. /\ p.from \in Denoms /\ p.to \in Denoms /\ p.target \in Weights
      /\ p.minReturn \in MinReturns /\ p.simulated \in Returns
      /\ x.returned \in Returns /\ x.unfilled \in Leftovers
      /\ y.returned \in Returns /\ y.unfilled \in Leftovers
      /\ x = [returned |-> x.returned, unfilled |-> x.unfilled]
  BY DEF Orders, Answers
<1>2. /\ p.from \in listed /\ p.to \in listed /\ saved.weight[p.from] > p.target
      /\ weight = saved.weight /\ saved.supply + Due <= MaxSupply
      /\ Sold1(p, x)
      /\ Filled(SoldVault(p, x), Quote, p.simulated, y)
      /\ y.returned >= p.minReturn /\ Fits(BoughtVault(p, x, y))
      /\ vault = BoughtVault(p, x, y) /\ supply = saved.supply + Due
      /\ shares = Credit(saved.shares, collector, Due)
  BY DEF Reallocating, AtLast, Bought, Left
<1>3. Transactions!MayReallocate(p.from, p.to, p.target)
  BY <1>2, AbstractSale DEF Sold1, Filled
<1>4. Transactions!Reallocate(p.from, p.to, p.target, p.minReturn, p.simulated,
                              x.returned, x.unfilled, y.returned, y.unfilled)
  <2> DEFINE first   == Transactions!FirstLeg(p.from, p.target, x.returned, x.unfilled)
             second  == [first EXCEPT ![Quote] = @ - p.simulated + y.unfilled]
             balance == [second EXCEPT ![p.to] = @ + y.returned]
  <2>1. first = SoldVault(p, x)
    BY <1>1, AbstractSale
  <2>2. balance = BoughtVault(p, x, y)
    <3>1. first \in [Coins -> Nat] /\ Quote \in Coins /\ p.to \in Coins /\ p.to # Quote
      BY <1>1, <1>2, <2>1, SoldVaultType
    <3> HIDE DEF first
    <3>2. second[p.to] = first[p.to]
      BY <3>1
    <3>3. balance = [first EXCEPT ![Quote] = @ - p.simulated + y.unfilled,
                                  ![p.to] = @ + y.returned]
      BY <3>1, <3>2
    <3> QED
      BY <2>1, <3>3 DEF BoughtVault, Swapped
  <2>3. /\ x.unfilled <= Transactions!Sale(p.from, p.target)
        /\ x.returned + x.unfilled > 0
        /\ x.unfilled = Transactions!Sale(p.from, p.target) => x.returned = 0
    BY <1>2, AbstractSale DEF Sold1, Filled
  <2>4. /\ p.simulated > 0 /\ p.simulated <= first[Quote]
        /\ y.unfilled <= p.simulated
        /\ y.unfilled = p.simulated => y.returned = 0
        /\ y.returned >= p.minReturn
    BY <1>2, <2>1 DEF Filled
  <2> HIDE DEF first
  <2>5. /\ Transactions!Fits(balance)
        /\ vault' = balance
        /\ weight' = Transactions!Rebalanced(listed, saved.weight, balance, saved.supply + Due)
        /\ supply' = saved.supply + Due /\ saved.supply + Due <= MaxSupply
        /\ shares' = Transactions!Credit(saved.shares, collector, Due)
    BY <1>2, <2>2, SameOperators
  <2> QED
    BY <1>3, <2>3, <2>4, <2>5, AbstractDue DEF Transactions!Reallocate, first
<1>5. Transactions!ReallocateStep(p.from, p.to, p.target)
  BY <1>1, <1>3, <1>4 DEF Transactions!ReallocateStep
<1>6. Transactions!SudoStep
  BY <1>1, <1>5 DEF Transactions!SudoStep
<1> QED
  BY <1>6 DEF Simulates, Transactions!Next

\* A first leg that gives nothing back is a ReallocateUnanswered.
LEMMA UnansweredDone ==
    ASSUME stack # <<>>, stack' = <<>>, NEW p \in Orders, Reallocating(p), AtFirst(p),
           NEW x \in Answers, x.returned = 0, x.unfilled = 0,
           Filled(saved.vault, p.from, SaleOf(p), x),
           vault' = SoldVault(p, x), stale' = stale \cup {p.from},
           UNCHANGED <<weight, supply, shares, elapsed, listed, rates, collector>>
    PROVE  Simulates
<1>1. /\ p.from \in Denoms /\ p.to \in Denoms /\ p.target \in Weights
      /\ x = [returned |-> 0, unfilled |-> 0]
  BY DEF Orders, Answers
<1>2. /\ p.from \in listed /\ p.to \in listed /\ saved.weight[p.from] > p.target
      /\ weight = saved.weight /\ stale = saved.stale /\ elapsed = saved.elapsed
      /\ supply = saved.supply /\ shares = saved.shares
  BY DEF Reallocating, AtFirst, Left
<1>3. Transactions!MayReallocate(p.from, p.to, p.target)
  BY <1>2, AbstractSale DEF Filled
<1>4. vault' = Transactions!FirstLeg(p.from, p.target, 0, 0)
  BY <1>1, AbstractSale
<1>5. Transactions!ReallocateUnanswered(p.from, p.to, p.target)
  BY <1>2, <1>3, <1>4 DEF Transactions!ReallocateUnanswered
<1>6. Transactions!SudoStep
  BY <1>1, <1>5 DEF Transactions!SudoStep
<1> QED
  BY <1>6 DEF Simulates, Transactions!Next

-----------------------------------------------------------------------------
(* The first step of a transaction.                                        *)

\* What a transaction finds is sound, and what it owes is what was due.
LEMMA Started ==
    ASSUME Sound, held = 0, saved' = Snapshot, UNCHANGED <<listed, rates, collector>>
    PROVE  /\ SavedOK'
           /\ Due' = AumDue
           /\ NewWeight' = Rebalanced(listed, weight, vault, supply + AumDue)
           /\ saved'.weight = weight /\ saved'.vault = vault /\ saved'.supply = supply
           /\ saved'.shares = shares /\ saved'.elapsed = elapsed /\ saved'.stale = stale
<1>1. /\ saved'.weight = weight /\ saved'.vault = vault /\ saved'.supply = supply
      /\ saved'.shares = shares /\ saved'.elapsed = elapsed /\ saved'.stale = stale
  BY DEF Snapshot
<1>2. Due' = AumDue
  BY <1>1 DEF Due, AumDue
<1>3. NewWeight' = Rebalanced(listed, weight, vault, supply + AumDue)
  BY <1>1, <1>2 DEF NewWeight, Rebalanced
<1>4. Counts(shares, supply) /\ supply <= MaxSupply
  BY SoundBounds DEF Sound, Accounted
<1>5. SavedOK'
  BY <1>1, <1>4 DEF SavedOK, Sound, TypeOK, Counts, Tokens
<1> QED
  BY <1>1, <1>2, <1>3, <1>5

\* Every transaction starts where the last one ended.
LEMMA BeginsAt ==
    ASSUME TxInv, NEW messages, messages # <<>>, Begin(messages)
    PROVE  stack = <<>> /\ held = 0 /\ stack' = messages /\ stack' # <<>> /\ saved' = Snapshot
BY DEF TxInv, Begin

\* A handler that only takes coins and rebalances leaves the receipt tokens.
LEMMA HandlerSound ==
    ASSUME Sound, NEW balance \in [Coins -> Nat], NEW total \in Nat,
           vault' = balance, Rebalance(weight, balance, total), elapsed' = 0,
           UNCHANGED <<listed, supply, shares, rates, collector, held>>
    PROVE  Sound'
<1>1. weight' \in [Denoms -> Nat] /\ stale' \in SUBSET Denoms
  BY RebalanceType DEF Sound
<1> QED
  BY <1>1 DEF Sound, TypeOK, Accounted, Counts, Tokens

\* A deposit begins.
LEMMA DepositBegins ==
    ASSUME TxInv, NEW u \in Accounts, NEW funds \in Funds, BeginDeposit(u, funds)
    PROVE  TxInv' /\ Simulates
<1> DEFINE balance == [c \in Coins |-> vault[c] + funds[c]]
<1>1. PICK n \in 0 .. MaxSupply :
        /\ SharesFor(funds, n)
        /\ Fits(balance)
        /\ vault' = balance
        /\ Rebalance(weight, balance, supply + AumDue + n)
        /\ Begin(<<Mint(u, n)>> \o MintFee(AumDue))
        /\ elapsed' = 0
        /\ UNCHANGED <<listed, supply, shares, rates, collector, held>>
  BY DEF BeginDeposit
<1>2. AumDue \in Nat /\ n \in Nat /\ supply \in Nat
  BY AumDueType, FixedAssumptions DEF TxInv, Sound, TypeOK
<1>3. balance \in [Coins -> Nat]
  BY FundsType DEF TxInv, Sound, TypeOK
<1>4. Sequence(MintFee(AumDue))
  BY NoMessage, Alone DEF MintFee
<1>5. <<Mint(u, n)>> \o MintFee(AumDue) # <<>>
  BY <1>4, InFront
<1>6. /\ stack = <<>> /\ held = 0 /\ saved' = Snapshot
      /\ stack' = <<Mint(u, n)>> \o MintFee(AumDue) /\ stack' # <<>>
  BY <1>1, <1>5, BeginsAt
<1>7. /\ SavedOK' /\ Due' = AumDue
      /\ saved'.weight = weight /\ saved'.vault = vault /\ saved'.supply = supply
      /\ saved'.shares = shares /\ saved'.stale = stale
  BY <1>1, <1>6, Started DEF TxInv
<1>8. Deposited(funds)' = balance
  BY <1>7 DEF Deposited
<1> HIDE DEF balance
<1>9. Sound'
  BY <1>1, <1>2, <1>3, HandlerSound DEF TxInv
<1>10. Depositing(funds, n)'
  BY <1>1, <1>2, <1>7, <1>8
     DEF Depositing, SharesFor, DepositShare, Rebalance, Rebalanced, Fits
<1>11. AtShares(u, funds, n)'
  BY <1>1, <1>6, <1>7, <1>8 DEF AtShares, Left, MintFee, Mint
<1>12. Stage'
  BY <1>10, <1>11 DEF Stage, DepositStage
<1> QED
  BY <1>1, <1>6, <1>7, <1>9, <1>12, UnderWay DEF TxInv

\* Where a withdrawal stands once a message has run, whichever of the optional
\* messages is next: before the send, before the exit fee, before the AUM fee.
BeforeSend(u, s) ==
    /\ Net(s) > 0
    /\ Left(ToSend(s), saved.vault, saved.supply - Net(s), Taken(u, s), ExitFee(s))

BeforePass(u, s) ==
    /\ PaidOut(s)
    /\ Left(ToPass(s), Rest(s), saved.supply - Net(s), Taken(u, s), ExitFee(s))

BeforeMint(u, s) ==
    /\ PaidOut(s)
    /\ Left(ToMint, Rest(s), saved.supply - Net(s), Passed(u, s), 0)

Reaches(u, s) ==
    Sound /\ SavedOK /\ Withdrawing(u, s)
        /\ (BeforeSend(u, s) \/ BeforePass(u, s) \/ BeforeMint(u, s))
    => stack # <<>> /\ WithdrawStage(u, s)

\* What a withdrawal computes has the types it should.
LEMMA WithdrawTypes ==
    ASSUME TypeOK, SavedOK, NEW u \in Accounts, NEW s \in 1 .. MaxSupply, Withdrawing(u, s)
    PROVE  /\ s \in Nat /\ s > 0 /\ Due \in Nat
           /\ ExitFee(s) \in Nat /\ Net(s) \in Nat /\ s = Net(s) + ExitFee(s)
           /\ Net(s) <= saved.supply
           /\ NewWeight \in [Denoms -> Nat]
           /\ Paid(s) \in [Coins -> Nat]
           /\ listed = {} \/ Net(s) = 0 => \A c \in Coins : Paid(s)[c] = 0
           /\ \A c \in Coins : Paid(s)[c] <= saved.vault[c]
           /\ Taken(u, s) \in [Accounts -> Nat]
<1>1. Due \in Nat /\ s \in Nat /\ s > 0 /\ saved.supply + Due \in Nat
  BY DueType, FixedAssumptions DEF SavedOK
<1>2. ExitFee(s) \in Nat
  BY <1>1, FeeType DEF TypeOK, FeeRates, ExitFee
<1>3. s <= saved.shares[u] /\ ExitFee(s) <= s
  BY DEF Withdrawing
<1>4. s <= saved.supply
  BY <1>1, <1>3, CountsBound DEF SavedOK
<1>5. Net(s) \in Nat /\ s = Net(s) + ExitFee(s) /\ Net(s) <= saved.supply
  BY <1>1, <1>2, <1>3, <1>4 DEF Net, SavedOK
<1>6. NewWeight \in [Denoms -> Nat]
  BY <1>1, RebalancedType DEF TypeOK, SavedOK, NewWeight
<1>7. \A c \in Coins : Paid(s)[c] = IF c \in listed THEN NewWeight[c] * Net(s) ELSE 0
  BY DEF Paid, Payout
<1>8. \A d \in listed : d \in Denoms /\ d \in Coins /\ NewWeight[d] \in Nat
  BY <1>6 DEF TypeOK, Coins
<1>9. Paid(s) \in [Coins -> Nat]
  <2>1. \A c \in Coins : (IF c \in listed THEN NewWeight[c] * Net(s) ELSE 0) \in Nat
    BY <1>5, <1>8
  <2> QED
    BY <2>1 DEF Paid, Payout
<1>10. listed = {} \/ Net(s) = 0 => \A c \in Coins : Paid(s)[c] = 0
  BY <1>7, <1>8
<1>11. ASSUME NEW c \in Coins PROVE Paid(s)[c] <= saved.vault[c]
  <2>1. saved.vault[c] \in Nat
    BY DEF SavedOK
  <2>2. CASE c \in listed
    <3>1. NewWeight[c] * (saved.supply + Due) <= saved.vault[c]
      BY <1>1, <2>2, RebalancedCovered DEF TypeOK, SavedOK, NewWeight
    <3>2. NewWeight[c] * Net(s) <= NewWeight[c] * (saved.supply + Due)
      <4>1. Net(s) <= saved.supply + Due
        BY <1>1, <1>5 DEF SavedOK
      <4>2. Net(s) * NewWeight[c] <= (saved.supply + Due) * NewWeight[c]
        BY <1>1, <1>5, <1>8, <2>2, <4>1, TimesMonotone
      <4> QED
        BY <1>1, <1>5, <1>8, <2>2, <4>2
    <3>3. NewWeight[c] * Net(s) \in Nat /\ NewWeight[c] * (saved.supply + Due) \in Nat
      BY <1>1, <1>5, <1>8, <2>2
    <3> QED
      BY <1>7, <2>1, <2>2, <3>1, <3>2, <3>3
  <2>3. CASE c \notin listed
    BY <1>7, <2>1, <2>3
  <2> QED
    BY <2>2, <2>3
<1>12. Taken(u, s) \in [Accounts -> Nat]
  BY <1>1, <1>3, DebitCounts DEF SavedOK, Taken
<1> QED
  BY <1>1, <1>2, <1>5, <1>6, <1>9, <1>10, <1>11, <1>12

\* Whichever of the optional messages are there, the withdrawal is at one of
\* its stages.
LEMMA Reached == \A u \in Accounts, s \in 1 .. MaxSupply : Reaches(u, s)
<1> SUFFICES ASSUME NEW u \in Accounts, NEW s \in 1 .. MaxSupply,
                    Sound, SavedOK, Withdrawing(u, s),
                    BeforeSend(u, s) \/ BeforePass(u, s) \/ BeforeMint(u, s)
             PROVE  stack # <<>> /\ WithdrawStage(u, s)
  BY DEF Reaches
<1>1. /\ s \in Nat /\ Due \in Nat /\ ExitFee(s) \in Nat /\ Net(s) \in Nat
      /\ Taken(u, s) \in [Accounts -> Nat] /\ collector \in Accounts
      /\ saved.supply \in Nat
      /\ listed = {} \/ Net(s) = 0 => \A c \in Coins : Paid(s)[c] = 0
      /\ \A c \in Coins : Paid(s)[c] <= saved.vault[c]
      /\ saved.vault \in [Coins -> Nat]
  BY WithdrawTypes DEF Sound, TypeOK, SavedOK
<1>2. /\ Sequence(ToRun) /\ Sequence(ToMint) /\ ToRun # <<>> /\ ToMint # <<>>
      /\ Due = 0 => ToMint = ToRun
      /\ Due > 0 => ToMint = <<Mint(collector, Due)>> \o ToRun
  BY <1>1, Rests
<1>3. /\ Sequence(ToPass(s)) /\ ToPass(s) # <<>>
      /\ ExitFee(s) = 0 => ToPass(s) = ToMint
      /\ ExitFee(s) > 0 => ToPass(s) = <<PassOn(ExitFee(s))>> \o ToMint
  <2>1. CASE ExitFee(s) = 0
    <3>1. ToPass(s) = <<>> \o ToMint
      BY <2>1 DEF ToPass, PassFee
    <3>2. ToPass(s) = ToMint
      BY <1>2, <3>1, Concat
    <3> QED
      BY <1>2, <2>1, <3>2
  <2>2. CASE ExitFee(s) > 0
    <3>1. ToPass(s) = <<PassOn(ExitFee(s))>> \o ToMint
      BY <2>2 DEF ToPass, PassFee
    <3> QED
      BY <1>2, <2>2, <3>1, InFront
  <2> QED
    BY <1>1, <2>1, <2>2
<1>4. CASE BeforeMint(u, s)
  <2>1. CASE Due > 0
    BY <1>2, <1>4, <2>1 DEF BeforeMint, WithdrawStage, AtMint, Left
  <2>2. CASE Due = 0
    <3>1. Passed(u, s) \in [Accounts -> Nat]
      BY <1>1, CreditTwice DEF Passed
    <3>2. Credit(Passed(u, s), collector, Due) = Passed(u, s)
      BY <1>1, <2>2, <3>1, CreditTwice
    <3>3. saved.supply - Net(s) + Due = saved.supply - Net(s)
      BY <1>1, <2>2
    <3>4. supply <= MaxSupply
      BY DEF Sound, Accounted
    <3>5. AtRun(u, s)
      BY <1>2, <1>4, <2>2, <3>2, <3>3, <3>4 DEF BeforeMint, AtRun, Left
    <3> QED
      BY <1>2, <3>5 DEF WithdrawStage, AtRun, Left
  <2> QED
    BY <1>1, <2>1, <2>2
<1>5. ASSUME BeforePass(u, s) PROVE stack # <<>> /\ WithdrawStage(u, s)
  <2>1. CASE ExitFee(s) > 0
    BY <1>3, <1>5, <2>1 DEF BeforePass, WithdrawStage, AtPass, Left
  <2>2. CASE ExitFee(s) = 0
    <3>1. Passed(u, s) = Taken(u, s)
      BY <1>1, <2>2, CreditTwice DEF Passed
    <3>2. BeforeMint(u, s)
      BY <1>3, <1>5, <2>2, <3>1 DEF BeforePass, BeforeMint, Left
    <3> QED
      BY <1>4, <3>2
  <2> QED
    BY <1>1, <2>1, <2>2
<1>6. ASSUME BeforeSend(u, s) PROVE stack # <<>> /\ WithdrawStage(u, s)
  <2>1. CASE listed = {}
    <3>1. ToSend(s) = ToPass(s)
      BY <1>3, <2>1, Concat DEF ToSend
    <3>2. Rest(s) = saved.vault
      BY <1>1, <2>1 DEF Rest
    <3>3. PaidOut(s)
      BY <1>1, <2>1 DEF PaidOut
    <3>4. BeforePass(u, s)
      BY <1>6, <3>1, <3>2, <3>3 DEF BeforeSend, BeforePass, Left
    <3> QED
      BY <1>5, <3>4
  <2>2. CASE listed # {}
    <3>1. ToSend(s) = <<Send(Paid(s))>> \o ToPass(s) /\ ToSend(s) # <<>>
      BY <1>3, <2>2, InFront DEF ToSend
    <3> QED
      BY <1>6, <2>2, <3>1 DEF BeforeSend, WithdrawStage, AtSend, Left
  <2> QED
    BY <2>1, <2>2
<1> QED
  BY <1>4, <1>5, <1>6

\* The same of the next state.
LEMMA ReachedNext == (\A u \in Accounts, s \in 1 .. MaxSupply : Reaches(u, s))'
BY Reached, PTL

\* A withdrawal begins: the tokens attached are the contract's.
LEMMA WithdrawBegins ==
    ASSUME TxInv, NEW u \in Accounts, NEW s \in 1 .. MaxSupply, BeginWithdraw(u, s)
    PROVE  TxInv' /\ Simulates
<1> DEFINE fee   == TxFee(rates.transaction, s)
           net   == s - fee
           total == supply + AumDue
           w     == Rebalanced(listed, weight, vault, total)
           send  == IF listed = {} THEN <<>> ELSE <<Send(Payout(w, net))>>
           rest  == MintFee(AumDue) \o <<RunAgain>>
           pass  == PassFee(fee) \o rest
           messages == BurnAndPay(s, w) \o PassFee(fee) \o MintFee(AumDue) \o <<RunAgain>>
<1>1. /\ s <= shares[u] /\ fee <= s
      /\ shares' = [shares EXCEPT ![u] = @ - s]
      /\ held' = held + s
      /\ Rebalance(weight, vault, total)
      /\ Begin(messages)
      /\ elapsed' = 0
      /\ UNCHANGED <<listed, vault, supply, rates, collector>>
  BY DEF BeginWithdraw
<1>2. /\ AumDue \in Nat /\ s \in Nat /\ s > 0 /\ supply \in Nat /\ total \in Nat
      /\ shares \in [Accounts -> Nat] /\ vault \in [Coins -> Nat]
      /\ listed \in SUBSET Denoms /\ collector \in Accounts
  BY AumDueType, FixedAssumptions DEF TxInv, Sound, TypeOK
<1>3. fee \in Nat /\ net \in Nat
  <2>1. rates.transaction \in Nat
    BY DEF TxInv, Sound, TypeOK, FeeRates
  <2>2. fee \in Nat
    BY <1>2, <2>1, FeeType
  <2> QED
    BY <1>1, <1>2, <2>2
<1>4. w \in [Denoms -> Nat]
  BY <1>2, RebalancedType DEF TxInv, Sound, TypeOK
<1>5. /\ Sequence(send) /\ Sequence(PassFee(fee)) /\ Sequence(MintFee(AumDue))
      /\ Sequence(<<RunAgain>>) /\ Sequence(<<Burn(net)>>)
  BY NoMessage, Alone DEF PassFee, MintFee
<1> HIDE DEF w, send, fee, net, total
<1>6. /\ Sequence(rest) /\ rest # <<>>
      /\ Sequence(pass) /\ pass # <<>>
      /\ Sequence(send \o pass)
  <2>1. Sequence(rest) /\ Sequence(pass) /\ Sequence(send \o pass)
    BY <1>5, Concat
  <2>2. rest # <<>>
    BY <1>5, InFront, Concat, Alone DEF MintFee
  <2>3. pass # <<>>
    <3>1. CASE PassFee(fee) = <<>>
      BY <2>1, <2>2, <3>1, Concat
    <3>2. CASE PassFee(fee) = <<PassOn(fee)>>
      BY <2>1, <3>2, InFront
    <3> QED
      BY <3>1, <3>2 DEF PassFee
  <2> QED
    BY <2>1, <2>2, <2>3
<1>7. /\ Sequence(BurnAndPay(s, w))
      /\ BurnAndPay(s, w) = IF net = 0 THEN <<>> ELSE <<Burn(net)>> \o send
  BY <1>5, NoMessage, Concat DEF BurnAndPay, net, fee, send
<1>8. messages = BurnAndPay(s, w) \o pass
  <2> DEFINE first  == BurnAndPay(s, w)
             second == PassFee(fee)
             third  == MintFee(AumDue)
             fourth == <<RunAgain>>
  <2>1. Sequence(first) /\ Sequence(second) /\ Sequence(third) /\ Sequence(fourth)
    BY <1>5, <1>7
  <2> HIDE DEF first, second, third, fourth
  <2>2. Sequence(first \o second) /\ Sequence(third \o fourth)
    BY <2>1, Concat
  <2>3. /\ Associates(first, second, third \o fourth)
        /\ Associates(first \o second, third, fourth)
    BY <2>1, <2>2, Concat
  <2>4. first \o second \o third \o fourth = first \o (second \o (third \o fourth))
    BY <2>3, Zenon DEF Associates
  <2> QED
    BY <2>4 DEF first, second, third, fourth
<1>9. /\ net = 0 => messages = pass
      /\ net # 0 => messages = <<Burn(net)>> \o (send \o pass)
  <2> HIDE DEF messages, pass
  <2>1. CASE net = 0
    BY <1>6, <1>7, <1>8, <2>1, Concat
  <2>2. CASE net # 0
    <3> DEFINE burn == <<Burn(net)>>
    <3>1. Sequence(burn)
      BY <1>5
    <3> HIDE DEF burn
    <3>2. Associates(burn, send, pass)
      BY <1>5, <1>6, <3>1, Concat
    <3> QED
      BY <1>7, <1>8, <2>2, <3>2, Zenon DEF burn, Associates
  <2> QED
    BY <2>1, <2>2
<1>10. messages # <<>>
  BY <1>6, <1>9, InFront
<1> HIDE DEF messages
<1>11. stack = <<>> /\ held = 0 /\ stack' = messages /\ stack' # <<>> /\ saved' = Snapshot
  BY <1>1, <1>10, BeginsAt
<1>12. /\ SavedOK' /\ Due' = AumDue /\ NewWeight' = w
       /\ saved'.weight = weight /\ saved'.vault = vault /\ saved'.supply = supply
       /\ saved'.shares = shares /\ saved'.stale = stale
  BY <1>1, <1>11, Started DEF TxInv, w, total
<1>13. /\ ExitFee(s)' = fee /\ Net(s)' = net
       /\ ToMint' = rest /\ ToPass(s)' = pass
       /\ Taken(u, s)' = shares'
  BY <1>1, <1>12 DEF ExitFee, Net, ToMint, ToRun, RunAgain, ToPass, MintFee, Mint, PassFee, PassOn,
                     Taken, fee, net
<1>14. Paid(s)' = Payout(w, net) /\ ToSend(s)' = send \o pass
  BY <1>1, <1>12, <1>13 DEF Paid, Payout, ToSend, Send, send
<1>15. Sound'
  <2>1. Counts(shares, supply - held)
    BY DEF TxInv, Sound, Accounted
  <2>2. shares' \in [Accounts -> Nat] /\ Counts(shares', (supply - held) - s)
    BY <1>1, <1>2, <2>1, DebitCounts
  <2>3. (supply - held) - s = supply' - held' /\ held' \in Nat
    BY <1>1, <1>2, <1>11
  <2>4. weight' \in [Denoms -> Nat] /\ stale' \in SUBSET Denoms
    BY <1>1, <1>2, RebalanceType DEF TxInv, Sound
  <2>5. Accounted'
    BY <1>1, <2>2, <2>3 DEF TxInv, Sound, Accounted, Counts, Tokens
  <2> QED
    BY <1>1, <2>2, <2>3, <2>4, <2>5 DEF TxInv, Sound, TypeOK
<1>16. Withdrawing(u, s)'
  <2>1. s <= supply
    BY <1>1, <1>2, <1>11, SoundBounds DEF TxInv
  <2>2. total > 0
    BY <1>2, <2>1 DEF total
  <2>3. weight' = w /\ stale' = {}
    BY <1>1, <2>2 DEF Rebalance, w
  <2> QED
    BY <1>1, <1>12, <1>13, <2>3 DEF Withdrawing
<1>17. WithdrawStage(u, s)'
  <2>1. CASE net = 0
    <3>1. \A c \in Coins : Payout(w, net)[c] = 0
      BY <1>2, <1>4, <2>1 DEF Payout
    <3>2. [c \in Coins |-> vault[c] - Payout(w, net)[c]] = vault
      BY <1>2, <3>1
    <3>3. Rest(s)' = vault
      BY <1>12, <1>14, <3>2 DEF Rest
    <3>4. PaidOut(s)'
      BY <1>2, <1>12, <1>13, <1>14, <2>1, <3>1 DEF PaidOut
    <3>5. held' = fee /\ supply = supply - net
      BY <1>1, <1>2, <1>3, <1>11, <2>1 DEF net
    <3>6. BeforePass(u, s)'
      BY <1>1, <1>9, <1>11, <1>12, <1>13, <2>1, <3>3, <3>4, <3>5 DEF BeforePass, Left
    <3> QED
      BY <1>12, <1>15, <1>16, <3>6, ReachedNext DEF Reaches
  <2>2. CASE net # 0
    <3>1. net > 0 /\ held' = s
      BY <1>1, <1>2, <1>3, <1>11, <2>2
    <3>2. AtBurn(u, s)'
      BY <1>1, <1>9, <1>11, <1>12, <1>13, <1>14, <2>2, <3>1 DEF AtBurn, Left, Burn
    <3> QED
      BY <1>16, <3>2 DEF WithdrawStage
  <2> QED
    BY <2>1, <2>2
<1>18. Stage'
  BY <1>17 DEF Stage
<1> QED
  BY <1>1, <1>11, <1>12, <1>15, <1>18, UnderWay DEF TxInv

\* Run from outside begins, or is over at once.
LEMMA RunBegins == ASSUME TxInv, BeginRun PROVE TxInv' /\ Simulates
<1>1. /\ Begin(AfterRun) /\ Rebalance(weight, vault, supply + AumDue) /\ elapsed' = 0
      /\ UNCHANGED <<listed, vault, supply, shares, rates, collector, held>>
  BY DEF BeginRun
<1>2. AumDue \in Nat /\ supply + AumDue \in Nat /\ vault \in [Coins -> Nat] /\ supply \in Nat
  BY AumDueType DEF TxInv, Sound, TypeOK
<1>3. Sound'
  BY <1>1, <1>2, HandlerSound DEF TxInv
<1>4. stack = <<>> /\ held = 0 /\ stack' = AfterRun
  BY <1>1 DEF TxInv, Begin
<1>5. CASE AumDue = 0
  <2>1. stack' = <<>>
    BY <1>4, <1>5 DEF AfterRun, MintFee
  <2> QED
    BY <1>1, <1>3, <1>4, <2>1, RunAtOnce DEF TxInv
<1>6. CASE AumDue > 0
  <2>1. AfterRun = <<Mint(collector, AumDue)>> /\ AfterRun # <<>>
    BY <1>6, Alone DEF AfterRun, MintFee
  <2>2. saved' = Snapshot /\ stack' # <<>>
    BY <1>1, <2>1, BeginsAt
  <2>3. /\ SavedOK' /\ Due' = AumDue
        /\ NewWeight' = Rebalanced(listed, weight, vault, supply + AumDue)
        /\ saved'.vault = vault /\ saved'.supply = supply /\ saved'.shares = shares
    BY <1>1, <1>4, <2>2, Started DEF TxInv
  <2>4. supply + AumDue > 0
    BY <1>2, <1>6
  <2>5. RunStage'
    BY <1>1, <1>4, <1>6, <2>1, <2>3, <2>4 DEF RunStage, Left, Rebalance, Mint
  <2> QED
    BY <1>1, <1>3, <1>4, <2>2, <2>3, <2>5, UnderWay DEF TxInv, Stage
<1> QED
  BY <1>2, <1>5, <1>6

\* A reallocation begins: nothing has moved.
LEMMA ReallocateBegins ==
    ASSUME TxInv, NEW from \in Denoms, NEW to \in Denoms, NEW target \in Weights,
           NEW minReturn \in MinReturns, NEW simulated \in Returns,
           BeginReallocate(from, to, target, minReturn, simulated)
    PROVE  TxInv' /\ Simulates
<1> DEFINE p == [from |-> from, to |-> to, target |-> target, minReturn |-> minReturn,
                 simulated |-> simulated]
           m == Swap(from, Quote, Sale(from, target), 0,
                     <<AfterReallocate(to, simulated, minReturn)>>)
<1>1. p \in Orders
  BY DEF Orders
<1>2. /\ from \in listed /\ to \in listed /\ weight[from] > target
      /\ Begin(<<m>>)
      /\ UNCHANGED <<vars, held>>
  BY DEF BeginReallocate
<1>3. stack = <<>> /\ held = 0 /\ stack' = <<m>> /\ stack' # <<>> /\ saved' = Snapshot
  BY <1>2, Alone, BeginsAt
<1>4. /\ SavedOK'
      /\ saved'.weight = weight /\ saved'.vault = vault /\ saved'.supply = supply
      /\ saved'.shares = shares /\ saved'.elapsed = elapsed /\ saved'.stale = stale
  BY <1>2, <1>3, Started DEF TxInv, vars
<1>5. Sound'
  BY <1>2 DEF TxInv, Sound, TypeOK, Accounted, Counts, Tokens, vars
<1>6. p.from = from /\ p.to = to /\ p.target = target /\ p.minReturn = minReturn
      /\ p.simulated = simulated
  OBVIOUS
<1> HIDE DEF p
<1>7. Reallocating(p)'
  BY <1>2, <1>4, <1>6 DEF Reallocating, vars
<1>8. SaleOf(p)' = Sale(from, target)
  BY <1>4, <1>6 DEF SaleOf, Sale
<1>9. AtFirst(p)'
  BY <1>2, <1>3, <1>4, <1>6, <1>8 DEF AtFirst, Left, Callback, Swap, AfterReallocate, vars
<1>10. Stage'
  BY <1>1, <1>7, <1>9 DEF Stage, ReallocateStage
<1> QED
  BY <1>2, <1>3, <1>4, <1>5, <1>10, UnderWay DEF TxInv, vars


-----------------------------------------------------------------------------
(* The messages of a deposit.                                              *)

\* A transaction that is not over goes on to its next stage.
LEMMA Onward ==
    ASSUME TxInv, stack # <<>>, stack' # <<>>, Sound', Stage',
           UNCHANGED <<saved, listed, rates, collector>>
    PROVE  TxInv' /\ Simulates
<1>1. SavedOK'
  BY Frozen DEF TxInv
<1> QED
  BY <1>1, UnderWay DEF TxInv

\* A mint that is next, and what it leaves.
LEMMA MintStep ==
    ASSUME Sound, Deliver, NEW a \in Accounts, NEW k \in Nat, NEW rest, Sequence(rest),
           stack = <<Mint(a, k)>> \o rest
    PROVE  /\ k > 0 /\ supply + k <= MaxSupply
           /\ supply' = supply + k
           /\ shares' = Credit(shares, a, k)
           /\ stack' = rest
           /\ rest # <<>> => saved' = saved
           /\ UNCHANGED <<listed, weight, vault, rates, elapsed, collector, stale, held>>
           /\ Sound'
<1>1. Head(stack) = Mint(a, k) /\ stack # <<>>
  BY InFront
<1>2. Mint(a, k).type = "mint" /\ Mint(a, k).to = a /\ Mint(a, k).amount = k
  BY DEF Mint
<1>3. DoMint
  BY <1>1, <1>2, Kinds
<1>4. stack' = rest /\ (rest # <<>> => saved' = saved)
  BY <1>3, Popped DEF DoMint
<1> QED
  BY <1>1, <1>2, <1>3, <1>4, MintSound DEF DoMint

\* A mint that is the last message.
LEMMA LastMint ==
    ASSUME Sound, Deliver, NEW a \in Accounts, NEW k \in Nat, stack = <<Mint(a, k)>>
    PROVE  /\ supply + k <= MaxSupply
           /\ supply' = supply + k
           /\ shares' = Credit(shares, a, k)
           /\ stack' = <<>>
           /\ UNCHANGED <<listed, weight, vault, rates, elapsed, collector, stale, held>>
           /\ Sound'
<1>1. Sequence(<<Mint(a, k)>>) /\ Sequence(<<>>)
  BY Alone, NoMessage
<1>2. stack = <<Mint(a, k)>> \o <<>>
  BY <1>1, Concat
<1> QED
  BY <1>1, <1>2, MintStep

\* A deposit goes on: the shares are there, or the fee too and it is over.
LEMMA DepositMessage ==
    ASSUME TxInv, stack # <<>>, Deliver,
           NEW u \in Accounts, NEW funds \in Funds, NEW n \in 0 .. MaxSupply,
           DepositStage(u, funds, n)
    PROVE  TxInv' /\ Simulates
<1>1. /\ Sound /\ SavedOK /\ Depositing(funds, n)
      /\ n \in Nat /\ Due \in Nat /\ collector \in Accounts
      /\ saved.supply \in Nat /\ saved.shares \in [Accounts -> Nat]
  <2>1. Sound /\ SavedOK /\ Depositing(funds, n)
    BY DEF TxInv, DepositStage
  <2>2. TypeOK /\ n \in Nat
    BY <2>1, FixedAssumptions DEF Sound
  <2>3. saved.supply \in Nat /\ saved.shares \in [Accounts -> Nat] /\ collector \in Accounts
    BY <2>1, <2>2 DEF TypeOK, SavedOK
  <2> QED
    BY <2>1, <2>2, <2>3, DueType
<1>2. /\ Sequence(MintFee(Due))
      /\ Due = 0 => MintFee(Due) = <<>>
      /\ Due > 0 => MintFee(Due) = <<Mint(collector, Due)>>
  BY <1>1, Rests
<1>3. Credit(saved.shares, u, n) \in [Accounts -> Nat]
  BY <1>1, CreditTwice
<1>4. CASE AtShares(u, funds, n)
  <2>1. /\ stack = <<Mint(u, n)>> \o MintFee(Due)
        /\ vault = Deposited(funds) /\ supply = saved.supply
        /\ shares = saved.shares /\ held = 0
    BY <1>4 DEF AtShares, Left
  <2>2. /\ n > 0 /\ supply + n <= MaxSupply
        /\ supply' = saved.supply + n
        /\ shares' = Credit(saved.shares, u, n)
        /\ stack' = MintFee(Due)
        /\ MintFee(Due) # <<>> => saved' = saved
        /\ UNCHANGED <<listed, weight, vault, rates, elapsed, collector, stale, held>>
        /\ Sound'
    BY <1>1, <1>2, <2>1, MintStep
  <2>3. CASE Due = 0
    <3>1. stack' = <<>>
      BY <1>2, <2>2, <2>3
    <3>2. supply' = saved.supply + Due + n /\ supply' <= MaxSupply /\ n \in 1 .. MaxSupply
      BY <1>1, <2>1, <2>2, <2>3
    <3>3. shares' = Credit(Credit(saved.shares, u, n), collector, Due)
      BY <1>1, <1>3, <2>2, <2>3, CreditTwice
    <3>4. Simulates
      BY <1>1, <2>1, <2>2, <3>1, <3>2, <3>3, DepositDone
    <3> QED
      BY <2>1, <2>2, <3>1, <3>4 DEF TxInv
  <2>4. CASE Due > 0
    <3>1. stack' = <<Mint(collector, Due)>> /\ stack' # <<>> /\ saved' = saved
      BY <1>2, <2>2, <2>4, Alone
    <3>2. Due' = Due
      BY <2>2, <3>1, Frozen
    <3>3. Depositing(funds, n)'
      BY <1>1, <2>2, <3>1, <3>2 DEF Depositing, Deposited, Rebalanced, Fits
    <3>4. AtDepositFee(u, funds, n)'
      BY <2>1, <2>2, <2>4, <3>1, <3>2 DEF AtDepositFee, Left, Deposited, Credit, Mint
    <3>5. Stage'
      BY <3>3, <3>4 DEF Stage, DepositStage
    <3> QED
      BY <2>2, <3>1, <3>5, Onward
  <2> QED
    BY <1>1, <2>3, <2>4
<1>5. CASE AtDepositFee(u, funds, n)
  <2>1. /\ stack = <<Mint(collector, Due)>>
        /\ vault = Deposited(funds) /\ supply = saved.supply + n
        /\ shares = Credit(saved.shares, u, n) /\ held = 0 /\ n > 0
    BY <1>5 DEF AtDepositFee, Left
  <2>2. /\ supply + Due <= MaxSupply
        /\ supply' = saved.supply + n + Due
        /\ shares' = Credit(Credit(saved.shares, u, n), collector, Due)
        /\ stack' = <<>>
        /\ UNCHANGED <<listed, weight, vault, rates, elapsed, collector, stale, held>>
        /\ Sound'
    BY <1>1, <2>1, LastMint
  <2>3. supply' = saved.supply + Due + n /\ supply' <= MaxSupply /\ n \in 1 .. MaxSupply
    BY <1>1, <2>1, <2>2
  <2>4. Simulates
    BY <1>1, <2>1, <2>2, <2>3, DepositDone
  <2> QED
    BY <2>1, <2>2, <2>4 DEF TxInv
<1> QED
  BY <1>4, <1>5 DEF DepositStage

\* The fee that Run owes is minted, and that is all.
LEMMA RunMessage ==
    ASSUME TxInv, stack # <<>>, Deliver, RunStage
    PROVE  TxInv' /\ Simulates
<1>1. Sound /\ Due \in Nat /\ collector \in Accounts /\ saved.supply \in Nat
  BY DueType DEF TxInv, Sound, TypeOK, SavedOK
<1>2. /\ stack = <<Mint(collector, Due)>>
      /\ supply = saved.supply /\ shares = saved.shares /\ held = 0
  BY DEF RunStage, Left
<1>3. /\ supply + Due <= MaxSupply
      /\ supply' = saved.supply + Due
      /\ shares' = Credit(saved.shares, collector, Due)
      /\ stack' = <<>>
      /\ UNCHANGED <<listed, weight, vault, rates, elapsed, collector, stale, held>>
      /\ Sound'
  BY <1>1, <1>2, LastMint
<1>4. Simulates
  BY <1>1, <1>2, <1>3, RunDone
<1> QED
  BY <1>2, <1>3, <1>4 DEF TxInv

-----------------------------------------------------------------------------
(* The messages of a withdrawal.                                           *)

\* Nothing moves in what a withdrawal computes while its messages run.
LEMMA WithdrawFrozen ==
    ASSUME NEW u, NEW s, UNCHANGED <<saved, listed, rates, collector>>
    PROVE  /\ ExitFee(s)' = ExitFee(s) /\ Net(s)' = Net(s)
           /\ Paid(s)' = Paid(s) /\ Rest(s)' = Rest(s)
           /\ Taken(u, s)' = Taken(u, s) /\ Passed(u, s)' = Passed(u, s)
           /\ ToPass(s)' = ToPass(s) /\ ToSend(s)' = ToSend(s)
           /\ PaidOut(s)' = PaidOut(s)
           /\ Withdrawing(u, s) /\ UNCHANGED <<weight, stale, elapsed>> => Withdrawing(u, s)'
<1>1. Due' = Due /\ NewWeight' = NewWeight /\ ToMint' = ToMint
  BY Frozen
<1>2. ExitFee(s)' = ExitFee(s)
  BY DEF ExitFee
<1>3. Net(s)' = Net(s)
  BY <1>2 DEF Net
<1>4. Paid(s)' = Paid(s)
  BY <1>1, <1>3 DEF Paid, Payout
<1>5. Rest(s)' = Rest(s)
  BY <1>4 DEF Rest
<1>6. Taken(u, s)' = Taken(u, s)
  BY DEF Taken
<1>7. Passed(u, s)' = Passed(u, s)
  BY <1>2, <1>6 DEF Passed, Credit
<1>8. ToPass(s)' = ToPass(s)
  BY <1>1, <1>2 DEF ToPass, PassFee, PassOn
<1>9. ToSend(s)' = ToSend(s)
  BY <1>4, <1>8 DEF ToSend, Send
<1>10. PaidOut(s)' = PaidOut(s)
  BY <1>3, <1>4 DEF PaidOut
<1>11. Withdrawing(u, s) /\ UNCHANGED <<weight, stale, elapsed>> => Withdrawing(u, s)'
  BY <1>1, <1>2 DEF Withdrawing
<1> QED
  BY <1>2, <1>3, <1>4, <1>5, <1>6, <1>7, <1>8, <1>9, <1>10, <1>11

\* The messages of a withdrawal are sequences.
LEMMA WithdrawSequences ==
    ASSUME TypeOK, SavedOK, NEW u \in Accounts, NEW s \in 1 .. MaxSupply, Withdrawing(u, s)
    PROVE  /\ Sequence(ToRun) /\ Sequence(ToMint) /\ Sequence(ToPass(s)) /\ Sequence(ToSend(s))
           /\ ToRun # <<>> /\ ToMint # <<>> /\ ToPass(s) # <<>> /\ ToSend(s) # <<>>
<1>1. Sequence(ToRun) /\ Sequence(ToMint) /\ ToRun # <<>> /\ ToMint # <<>>
  BY WithdrawTypes, Rests
<1>2. Sequence(ToPass(s)) /\ ToPass(s) # <<>>
  <2>1. CASE PassFee(ExitFee(s)) = <<>>
    BY <1>1, <2>1, Concat DEF ToPass
  <2>2. CASE PassFee(ExitFee(s)) = <<PassOn(ExitFee(s))>>
    BY <1>1, <2>2, InFront DEF ToPass
  <2> QED
    BY <2>1, <2>2 DEF PassFee
<1>3. Sequence(ToSend(s)) /\ ToSend(s) # <<>>
  <2>1. CASE listed = {}
    BY <1>2, <2>1, Concat DEF ToSend
  <2>2. CASE listed # {}
    BY <1>2, <2>2, InFront DEF ToSend
  <2> QED
    BY <2>1, <2>2
<1> QED
  BY <1>1, <1>2, <1>3

\* A withdrawal that is at the message it should be goes on.
LEMMA WithdrawOnward ==
    ASSUME TxInv, stack # <<>>, Sound',
           NEW u \in Accounts, NEW s \in 1 .. MaxSupply,
           Withdrawing(u, s), UNCHANGED <<saved, listed, rates, collector, weight, stale, elapsed>>,
           BeforeSend(u, s)' \/ BeforePass(u, s)' \/ BeforeMint(u, s)'
    PROVE  TxInv' /\ Simulates
<1>1. SavedOK'
  BY Frozen DEF TxInv
<1>2. Withdrawing(u, s)'
  BY WithdrawFrozen
<1>3. stack' # <<>> /\ WithdrawStage(u, s)'
  BY <1>1, <1>2, ReachedNext DEF Reaches
<1>4. Stage'
  BY <1>3 DEF Stage
<1> QED
  BY <1>3, <1>4, Onward

\* The net shares are burned.
LEMMA BurnStep ==
    ASSUME TxInv, stack # <<>>, Deliver, NEW u \in Accounts, NEW s \in 1 .. MaxSupply,
           Withdrawing(u, s), AtBurn(u, s)
    PROVE  TxInv' /\ Simulates
<1> DEFINE m == Burn(Net(s))
<1>1. Sound /\ SavedOK /\ TypeOK
  BY DEF TxInv, Sound
<1>2. /\ Sequence(ToSend(s)) /\ ToSend(s) # <<>>
      /\ Net(s) \in Nat /\ ExitFee(s) \in Nat /\ s = Net(s) + ExitFee(s)
  BY <1>1, WithdrawSequences, WithdrawTypes
<1>3. /\ Net(s) > 0 /\ stack = <<m>> \o ToSend(s)
      /\ vault = saved.vault /\ supply = saved.supply /\ shares = Taken(u, s) /\ held = s
  BY DEF AtBurn, Left
<1>4. m.type = "burn" /\ m.amount = Net(s)
  BY DEF Burn
<1> HIDE DEF m
<1>5. Head(stack) = m
  BY <1>2, <1>3, InFront
<1>6. DoBurn
  BY <1>4, <1>5, Kinds
<1>7. /\ stack' = ToSend(s) /\ saved' = saved
      /\ held' = held - Net(s) /\ supply' = supply - Net(s)
      /\ UNCHANGED <<listed, weight, vault, shares, rates, elapsed, collector, stale>>
  BY <1>2, <1>3, <1>4, <1>5, <1>6, Popped DEF DoBurn
<1>8. Sound'
  BY <1>1, <1>2, <1>4, <1>5, <1>6, BurnSound
<1>9. /\ ExitFee(s)' = ExitFee(s) /\ Net(s)' = Net(s)
      /\ Taken(u, s)' = Taken(u, s) /\ ToSend(s)' = ToSend(s)
  BY <1>7, WithdrawFrozen
<1>10. held' = ExitFee(s)
  BY <1>2, <1>3, <1>7
<1>11. BeforeSend(u, s)'
  BY <1>3, <1>7, <1>9, <1>10 DEF BeforeSend, Left
<1> QED
  BY <1>7, <1>8, <1>11, WithdrawOnward

\* The basket is paid.
LEMMA SendStep ==
    ASSUME TxInv, stack # <<>>, Deliver, NEW u \in Accounts, NEW s \in 1 .. MaxSupply,
           Withdrawing(u, s), AtSend(u, s)
    PROVE  TxInv' /\ Simulates
<1> DEFINE m == Send(Paid(s))
<1>1. Sound /\ SavedOK /\ TypeOK
  BY DEF TxInv, Sound
<1>2. Sequence(ToPass(s)) /\ ToPass(s) # <<>> /\ Paid(s) \in [Coins -> Nat]
  BY <1>1, WithdrawSequences, WithdrawTypes
<1>3. /\ stack = <<m>> \o ToPass(s)
      /\ vault = saved.vault /\ supply = saved.supply - Net(s)
      /\ shares = Taken(u, s) /\ held = ExitFee(s)
  BY DEF AtSend, Left
<1>4. m.type = "send" /\ m.coins = Paid(s)
  BY DEF Send
<1> HIDE DEF m
<1>5. Head(stack) = m
  BY <1>2, <1>3, InFront
<1>6. DoSend
  BY <1>4, <1>5, Kinds
<1>7. /\ stack' = ToPass(s) /\ saved' = saved
      /\ \E c \in Coins : Paid(s)[c] > 0
      /\ \A c \in Coins : Paid(s)[c] <= vault[c]
      /\ vault' = [c \in Coins |-> vault[c] - Paid(s)[c]]
      /\ UNCHANGED <<listed, weight, supply, shares, rates, elapsed, collector, stale, held>>
  BY <1>2, <1>3, <1>4, <1>5, <1>6, Popped DEF DoSend
<1>8. Sound'
  BY <1>1, <1>2, <1>4, <1>5, <1>6, SendSound
<1>9. /\ ExitFee(s)' = ExitFee(s) /\ Net(s)' = Net(s) /\ Rest(s)' = Rest(s)
      /\ Taken(u, s)' = Taken(u, s) /\ ToPass(s)' = ToPass(s) /\ PaidOut(s)' = PaidOut(s)
  BY <1>7, WithdrawFrozen
<1>10. vault' = Rest(s) /\ PaidOut(s)
  BY <1>3, <1>7 DEF Rest, PaidOut
<1>11. BeforePass(u, s)'
  BY <1>3, <1>7, <1>9, <1>10 DEF BeforePass, Left
<1> QED
  BY <1>7, <1>8, <1>11, WithdrawOnward

\* The exit fee goes to the collector.
LEMMA PassStep ==
    ASSUME TxInv, stack # <<>>, Deliver, NEW u \in Accounts, NEW s \in 1 .. MaxSupply,
           Withdrawing(u, s), AtPass(u, s)
    PROVE  TxInv' /\ Simulates
<1> DEFINE m == PassOn(ExitFee(s))
<1>1. Sound /\ SavedOK /\ TypeOK
  BY DEF TxInv, Sound
<1>2. Sequence(ToMint) /\ ToMint # <<>> /\ ExitFee(s) \in Nat
  BY <1>1, WithdrawSequences, WithdrawTypes
<1>3. /\ stack = <<m>> \o ToMint /\ PaidOut(s)
      /\ vault = Rest(s) /\ supply = saved.supply - Net(s)
      /\ shares = Taken(u, s) /\ held = ExitFee(s)
  BY DEF AtPass, Left
<1>4. m.type = "pass_on" /\ m.amount = ExitFee(s)
  BY DEF PassOn
<1> HIDE DEF m
<1>5. Head(stack) = m
  BY <1>2, <1>3, InFront
<1>6. DoPassOn
  BY <1>4, <1>5, Kinds
<1>7. /\ stack' = ToMint /\ saved' = saved
      /\ held' = held - ExitFee(s)
      /\ shares' = Credit(shares, collector, ExitFee(s))
      /\ UNCHANGED <<listed, weight, vault, supply, rates, elapsed, collector, stale>>
  BY <1>2, <1>3, <1>4, <1>5, <1>6, Popped DEF DoPassOn
<1>8. Sound'
  BY <1>1, <1>2, <1>4, <1>5, <1>6, PassOnSound
<1>9. /\ Net(s)' = Net(s) /\ Rest(s)' = Rest(s) /\ Passed(u, s)' = Passed(u, s)
      /\ ToMint' = ToMint /\ PaidOut(s)' = PaidOut(s)
  BY <1>7, WithdrawFrozen, Frozen
<1>10. held' = 0 /\ shares' = Passed(u, s)
  BY <1>2, <1>3, <1>7 DEF Passed
<1>11. BeforeMint(u, s)'
  BY <1>3, <1>7, <1>9, <1>10 DEF BeforeMint, Left
<1> QED
  BY <1>7, <1>8, <1>11, WithdrawOnward

\* The AUM fee is minted.
LEMMA FeeStep ==
    ASSUME TxInv, stack # <<>>, Deliver, NEW u \in Accounts, NEW s \in 1 .. MaxSupply,
           Withdrawing(u, s), AtMint(u, s)
    PROVE  TxInv' /\ Simulates
<1>1. Sound /\ SavedOK /\ TypeOK /\ collector \in Accounts
  BY DEF TxInv, Sound, TypeOK
<1>2. Sequence(ToRun) /\ ToRun # <<>> /\ Due \in Nat
  BY <1>1, WithdrawSequences, WithdrawTypes
<1>3. /\ stack = <<Mint(collector, Due)>> \o ToRun /\ PaidOut(s)
      /\ vault = Rest(s) /\ supply = saved.supply - Net(s)
      /\ shares = Passed(u, s) /\ held = 0
  BY DEF AtMint, Left
<1>4. /\ supply + Due <= MaxSupply
      /\ supply' = supply + Due
      /\ shares' = Credit(shares, collector, Due)
      /\ stack' = ToRun /\ saved' = saved
      /\ UNCHANGED <<listed, weight, vault, rates, elapsed, collector, stale, held>>
      /\ Sound'
  BY <1>1, <1>2, <1>3, MintStep
<1>5. /\ Net(s)' = Net(s) /\ Rest(s)' = Rest(s) /\ Passed(u, s)' = Passed(u, s)
      /\ ToRun' = ToRun /\ Due' = Due /\ PaidOut(s)' = PaidOut(s) /\ Withdrawing(u, s)'
  BY <1>4, WithdrawFrozen, Frozen
<1>6. AtRun(u, s)'
  BY <1>3, <1>4, <1>5 DEF AtRun, Left, Credit
<1>7. Stage'
  BY <1>5, <1>6 DEF Stage, WithdrawStage
<1> QED
  BY <1>1, <1>2, <1>4, <1>7, Onward

\* Run closes the transaction: there is no fee left to mint.
LEMMA LastRun ==
    ASSUME Sound, Deliver, elapsed = 0, supply > 0 \/ stale = {}, stack = ToRun
    PROVE  /\ stack' = <<>> /\ elapsed' = 0 /\ stale' = {}
           /\ weight' = Rebalanced(listed, weight, vault, supply)
           /\ UNCHANGED <<listed, vault, supply, shares, rates, collector, held>>
           /\ Sound'
<1>1. Head(stack) = RunAgain /\ RunAgain.type = "run"
  BY Alone DEF ToRun, RunAgain
<1>2. DoRun
  BY <1>1, Kinds
<1>3. AumDue = 0 /\ AfterRun = <<>> /\ supply \in Nat
  BY NothingDue DEF Sound, TypeOK
<1>4. Reply(<<>>) /\ stack = <<RunAgain>>
  BY <1>2, <1>3 DEF DoRun, ToRun
<1>5. stack' = <<>>
  BY <1>4, LastPopped
<1>6. supply + AumDue = supply
  BY <1>3
<1> QED
  BY <1>2, <1>5, <1>6, CallSound DEF DoRun, Rebalance

\* Run closes a withdrawal.
LEMMA WithdrawCloses ==
    ASSUME TxInv, stack # <<>>, Deliver, NEW u \in Accounts, NEW s \in 1 .. MaxSupply,
           Withdrawing(u, s), AtRun(u, s)
    PROVE  TxInv' /\ Simulates
<1>1. Sound /\ SavedOK /\ TypeOK
  BY DEF TxInv, Sound
<1>2. stack = ToRun /\ elapsed = 0 /\ stale = {} /\ held = 0
  BY DEF AtRun, Left, Withdrawing
<1>3. /\ stack' = <<>> /\ elapsed' = 0 /\ stale' = {}
      /\ weight' = Rebalanced(listed, weight, vault, supply)
      /\ UNCHANGED <<listed, vault, supply, shares, rates, collector, held>>
      /\ Sound'
  BY <1>1, <1>2, LastRun
<1>4. Simulates
  BY <1>1, <1>3, WithdrawDone
<1> QED
  BY <1>2, <1>3, <1>4 DEF TxInv

\* Every message of a withdrawal.
LEMMA WithdrawMessage ==
    ASSUME TxInv, stack # <<>>, Deliver, NEW u \in Accounts, NEW s \in 1 .. MaxSupply,
           WithdrawStage(u, s)
    PROVE  TxInv' /\ Simulates
BY BurnStep, SendStep, PassStep, FeeStep, WithdrawCloses DEF WithdrawStage

-----------------------------------------------------------------------------
(* The messages of a reallocation.                                         *)

\* The coins of a reallocation, and the size of its sale.
LEMMA OrderType ==
    ASSUME SavedOK, NEW p \in Orders, Reallocating(p)
    PROVE  /\ Quote \in Coins /\ p.from \in Coins /\ p.to \in Coins /\ p.from \in Denoms
           /\ SaleOf(p) \in Nat /\ p.simulated \in Nat
<1>1. p.from \in Denoms /\ p.to \in Denoms /\ p.target \in Nat /\ p.simulated \in Nat
  BY FixedAssumptions DEF Orders
<1>2. saved.weight[p.from] - p.target \in Nat /\ saved.supply \in Nat
  BY <1>1 DEF SavedOK, Reallocating
<1>3. SaleOf(p) \in Nat
  BY <1>2 DEF SaleOf
<1> QED
  BY <1>1, <1>3 DEF Coins

\* Nothing moves in what a reallocation computes while its messages run.
LEMMA ReallocateFrozen ==
    ASSUME NEW p, NEW x, NEW y, UNCHANGED <<saved, listed, rates, collector>>
    PROVE  /\ SaleOf(p)' = SaleOf(p) /\ Callback(p)' = Callback(p)
           /\ SoldVault(p, x)' = SoldVault(p, x)
           /\ BoughtVault(p, x, y)' = BoughtVault(p, x, y)
           /\ Sold1(p, x)' = Sold1(p, x)
           /\ Bought(p, x, y) /\ elapsed' = 0 => Bought(p, x, y)'
           /\ Reallocating(p) /\ UNCHANGED <<weight, stale>> => Reallocating(p)'
<1>1. SaleOf(p)' = SaleOf(p) /\ Callback(p)' = Callback(p)
  BY DEF SaleOf, Callback, AfterReallocate
<1>2. SoldVault(p, x)' = SoldVault(p, x)
  BY <1>1 DEF SoldVault, Swapped
<1>3. BoughtVault(p, x, y)' = BoughtVault(p, x, y)
  BY <1>2 DEF BoughtVault, Swapped
<1>4. Sold1(p, x)' = Sold1(p, x)
  BY <1>1 DEF Sold1, Filled
<1>5. Bought(p, x, y) /\ elapsed' = 0 => Bought(p, x, y)'
  BY <1>2, <1>3, <1>4 DEF Bought, Filled, Fits
<1>6. Reallocating(p) /\ UNCHANGED <<weight, stale>> => Reallocating(p)'
  BY DEF Reallocating
<1> QED
  BY <1>1, <1>2, <1>3, <1>4, <1>5, <1>6

\* What a swap leaves when FIN answers it with x.
Answered(offer, ask, n, minReturn, then, rest, x) ==
    /\ Filled(vault, offer, n, x)
    /\ x.returned >= minReturn
    /\ Fits(Swapped(vault, offer, ask, n, x))
    /\ vault' = Swapped(vault, offer, ask, n, x)
    /\ stack' = (IF x.returned + x.unfilled > 0 THEN then ELSE <<>>) \o rest
    /\ stack' # <<>> => saved' = saved
    /\ stale' = IF then # <<>> /\ ~ (x.returned + x.unfilled > 0)
                THEN stale \cup {offer} ELSE stale
    /\ UNCHANGED <<listed, weight, supply, shares, rates, elapsed, collector, held>>

\* A swap that is next, and what FIN may answer.
LEMMA SwapStep ==
    ASSUME Sound, Deliver, NEW offer \in Coins, NEW ask \in Coins, NEW n \in Nat,
           NEW minReturn, NEW then, Sequence(then), NEW rest, Sequence(rest),
           then # <<>> => offer \in Denoms,
           stack = <<Swap(offer, ask, n, minReturn, then)>> \o rest
    PROVE  Sound' /\ \E x \in Answers : Answered(offer, ask, n, minReturn, then, rest, x)
<1> DEFINE m == Swap(offer, ask, n, minReturn, then)
<1>1. Head(stack) = m
  BY InFront
<1>2. /\ m.type = "swap" /\ m.offer = offer /\ m.ask = ask /\ m.amount = n
      /\ m.minReturn = minReturn /\ m.then = then
  BY DEF Swap
<1> HIDE DEF m
<1>3. PICK returned \in Returns, unfilled \in Leftovers : DoSwap(returned, unfilled)
  BY <1>1, <1>2, Kinds
<1> DEFINE x       == [returned |-> returned, unfilled |-> unfilled]
           answer == IF returned + unfilled > 0 THEN then ELSE <<>>
<1>4. x \in Answers /\ x.returned = returned /\ x.unfilled = unfilled
  BY DEF Answers
<1>5. /\ n > 0 /\ n <= vault[offer] /\ unfilled <= n
      /\ unfilled = n => returned = 0
      /\ returned >= minReturn
      /\ Fits([vault EXCEPT ![offer] = @ - n + unfilled, ![ask] = @ + returned])
      /\ vault' = [vault EXCEPT ![offer] = @ - n + unfilled, ![ask] = @ + returned]
      /\ Reply(answer)
      /\ stale' = IF then # <<>> /\ ~ (returned + unfilled > 0)
                  THEN stale \cup {offer} ELSE stale
      /\ UNCHANGED <<listed, weight, supply, shares, rates, elapsed, collector, held>>
  BY <1>1, <1>2, <1>3 DEF DoSwap
<1>6. Sequence(answer)
  BY NoMessage
<1>7. stack' = answer \o rest /\ (stack' # <<>> => saved' = saved)
  <2> HIDE DEF answer
  <2>1. Head(stack) = m /\ Tail(stack) = rest
    BY InFront DEF m
  <2> QED
    BY <1>5, <2>1 DEF Reply, Continue
<1>8. Sound'
  BY <1>1, <1>2, <1>3, SwapSound
<1>9. Swapped(vault, offer, ask, n, x)
        = [vault EXCEPT ![offer] = @ - n + unfilled, ![ask] = @ + returned]
  BY <1>4 DEF Swapped
<1>10. Filled(vault, offer, n, x)
  BY <1>4, <1>5 DEF Filled
<1> HIDE DEF x, answer
<1>11. Answered(offer, ask, n, minReturn, then, rest, x)
  BY <1>4, <1>5, <1>7, <1>9, <1>10 DEF Answered, answer
<1> QED
  BY <1>4, <1>8, <1>11

\* The first leg: sold, or sold for nothing at all.
LEMMA FirstStep ==
    ASSUME TxInv, stack # <<>>, Deliver, NEW p \in Orders, Reallocating(p), AtFirst(p)
    PROVE  TxInv' /\ Simulates
<1>1. Sound /\ SavedOK
  BY DEF TxInv
<1>2. /\ Quote \in Coins /\ p.from \in Coins /\ p.from \in Denoms /\ SaleOf(p) \in Nat
  BY <1>1, OrderType
<1> DEFINE then == <<Callback(p)>>
           m    == Swap(p.from, Quote, SaleOf(p), 0, then)
<1>3. /\ stack = <<m>>
      /\ vault = saved.vault /\ supply = saved.supply /\ shares = saved.shares
      /\ held = 0 /\ elapsed = saved.elapsed
  BY DEF AtFirst, Left
<1>4. Sequence(then) /\ then # <<>> /\ Sequence(<<>>) /\ stack = <<m>> \o <<>>
  <2> HIDE DEF m
  <2>1. Sequence(then) /\ then # <<>> /\ Sequence(<<>>) /\ Sequence(<<m>>)
    BY Alone, NoMessage
  <2> QED
    BY <1>3, <2>1, Concat
<1> HIDE DEF then
<1>5. Sound' /\ \E x \in Answers : Answered(p.from, Quote, SaleOf(p), 0, then, <<>>, x)
  BY <1>1, <1>2, <1>4, SwapStep
<1>6. PICK x \in Answers : Answered(p.from, Quote, SaleOf(p), 0, then, <<>>, x)
  BY <1>5
<1>7. /\ Filled(vault, p.from, SaleOf(p), x)
      /\ vault' = Swapped(vault, p.from, Quote, SaleOf(p), x)
      /\ stack' = (IF x.returned + x.unfilled > 0 THEN then ELSE <<>>) \o <<>>
      /\ stack' # <<>> => saved' = saved
      /\ stale' = IF then # <<>> /\ ~ (x.returned + x.unfilled > 0)
                  THEN stale \cup {p.from} ELSE stale
      /\ UNCHANGED <<listed, weight, supply, shares, rates, elapsed, collector, held>>
  BY <1>6 DEF Answered
<1>8. vault' = SoldVault(p, x)
  BY <1>3, <1>5, <1>7 DEF SoldVault
<1>9. CASE x.returned + x.unfilled > 0
  <2>1. stack' = then
    BY <1>4, <1>5, <1>7, <1>9, Concat
  <2>2. stack' # <<>> /\ saved' = saved /\ stale' = stale
    BY <1>4, <1>5, <1>7, <1>9, <2>1
  <2>3. Sold1(p, x)
    BY <1>3, <1>5, <1>7, <1>9 DEF Sold1
  <2>4. /\ Callback(p)' = Callback(p) /\ SoldVault(p, x)' = SoldVault(p, x)
        /\ Sold1(p, x)' = Sold1(p, x) /\ Reallocating(p)'
    BY <1>5, <1>7, <2>2, ReallocateFrozen
  <2>5. AtCallback(p, x)'
    BY <1>3, <1>5, <1>7, <1>8, <2>1, <2>2, <2>3, <2>4 DEF AtCallback, Left, then
  <2>6. Stage'
    BY <2>4, <2>5 DEF Stage, ReallocateStage
  <2> QED
    BY <1>5, <1>7, <2>2, <2>6, Onward
<1>10. CASE ~ (x.returned + x.unfilled > 0)
  <2>1. x.returned = 0 /\ x.unfilled = 0
    <3>1. x.returned \in Nat /\ x.unfilled \in Nat
      BY FixedAssumptions DEF Answers
    <3> QED
      BY <1>10, <3>1
  <2>2. stack' = <<>> /\ stale' = stale \cup {p.from}
    BY <1>4, <1>5, <1>7, <1>10, Concat
  <2>3. Simulates
    BY <1>3, <1>5, <1>7, <1>8, <2>1, <2>2, UnansweredDone
  <2> QED
    BY <1>3, <1>5, <1>7, <2>2, <2>3 DEF TxInv
<1> QED
  BY <1>9, <1>10

\* The callback asks for the second leg, the AUM fee and Run.
LEMMA CallbackStep ==
    ASSUME TxInv, stack # <<>>, Deliver, NEW p \in Orders, NEW x \in Answers,
           Reallocating(p), AtCallback(p, x)
    PROVE  TxInv' /\ Simulates
<1> DEFINE swap == Swap(Quote, p.to, p.simulated, p.minReturn, <<>>)
<1>1. Sound /\ SavedOK /\ TypeOK
  BY DEF TxInv, Sound
<1>2. /\ Sold1(p, x) /\ stack = <<Callback(p)>>
      /\ vault = SoldVault(p, x) /\ supply = saved.supply /\ shares = saved.shares
      /\ held = 0 /\ elapsed = saved.elapsed
  BY DEF AtCallback, Left
<1>3. /\ Head(stack) = Callback(p) /\ Tail(stack) = <<>>
      /\ Callback(p).type = "callback" /\ Callback(p).to = p.to
      /\ Callback(p).amount = p.simulated /\ Callback(p).minReturn = p.minReturn
  BY <1>2, Alone DEF Callback, AfterReallocate
<1>4. DoCallback
  BY <1>3, Kinds
<1>5. Due \in Nat /\ AumDue = Due
  BY <1>1, <1>2, DueType
<1>6. /\ stack' = (<<swap>> \o MintFee(Due) \o ToRun) \o <<>>
      /\ stack' # <<>> => saved' = saved
      /\ elapsed' = 0
      /\ UNCHANGED <<listed, weight, vault, supply, shares, rates, collector, stale, held>>
  BY <1>3, <1>4, <1>5 DEF DoCallback, Reply, Continue, ToRun
<1> HIDE DEF swap
<1>7. stack' = <<swap>> \o ToMint /\ stack' # <<>>
  <2> DEFINE one  == <<swap>>
             fee  == MintFee(Due)
             all  == one \o fee \o ToRun
  <2>1. Sequence(one) /\ Sequence(fee) /\ Sequence(ToRun) /\ Sequence(ToMint)
    BY <1>5, Alone, Rests
  <2> HIDE DEF one, fee
  <2>2. Sequence(one \o fee)
    BY <2>1, Concat
  <2>3. Sequence(all) /\ Associates(one, fee, ToRun)
    BY <2>1, <2>2, Concat
  <2>4. all = one \o ToMint
    BY <2>3, Zenon DEF Associates, ToMint, fee
  <2>5. stack' = all
    <3>1. all \o <<>> = all
      <4> HIDE DEF all
      <4> QED
        BY <2>3, Concat
    <3> QED
      BY <1>6, <3>1, Zenon DEF one, fee
  <2> HIDE DEF all
  <2> QED
    BY <2>1, <2>4, <2>5, InFront DEF one
<1>8. saved' = saved
  BY <1>6, <1>7
<1>9. /\ SoldVault(p, x)' = SoldVault(p, x) /\ Sold1(p, x)' = Sold1(p, x)
      /\ Reallocating(p)' /\ ToMint' = ToMint
  BY <1>6, <1>8, ReallocateFrozen, Frozen
<1>10. AtSecond(p, x)'
  BY <1>2, <1>6, <1>7, <1>8, <1>9 DEF AtSecond, Left, Swap, swap
<1>11. Stage' /\ Sound'
  BY <1>1, <1>4, <1>9, <1>10, CallSound DEF Stage, ReallocateStage
<1> QED
  BY <1>6, <1>7, <1>8, <1>11, Onward

\* The second leg: bought.
LEMMA SecondStep ==
    ASSUME TxInv, stack # <<>>, Deliver, NEW p \in Orders, NEW x \in Answers,
           Reallocating(p), AtSecond(p, x)
    PROVE  TxInv' /\ Simulates
<1>1. Sound /\ SavedOK /\ TypeOK /\ collector \in Accounts /\ saved.shares \in [Accounts -> Nat]
  BY DEF TxInv, Sound, TypeOK, SavedOK
<1>2. Quote \in Coins /\ p.to \in Coins /\ p.simulated \in Nat
  BY <1>1, OrderType
<1>3. /\ Sold1(p, x) /\ elapsed = 0
      /\ stack = <<Swap(Quote, p.to, p.simulated, p.minReturn, <<>>)>> \o ToMint
      /\ vault = SoldVault(p, x) /\ supply = saved.supply /\ shares = saved.shares /\ held = 0
  BY DEF AtSecond, Left
<1>4. /\ Due \in Nat /\ Sequence(ToMint) /\ ToMint # <<>> /\ Sequence(<<>>)
      /\ Due = 0 => ToMint = ToRun
      /\ Due > 0 => ToMint = <<Mint(collector, Due)>> \o ToRun
  BY <1>1, DueType, Rests, NoMessage
<1>5. /\ Sound'
      /\ \E y \in Answers : Answered(Quote, p.to, p.simulated, p.minReturn, <<>>, ToMint, y)
  BY <1>1, <1>2, <1>3, <1>4, SwapStep
<1>6. PICK y \in Answers : Answered(Quote, p.to, p.simulated, p.minReturn, <<>>, ToMint, y)
  BY <1>5
<1>7. /\ Filled(vault, Quote, p.simulated, y) /\ y.returned >= p.minReturn
      /\ Fits(Swapped(vault, Quote, p.to, p.simulated, y))
      /\ vault' = Swapped(vault, Quote, p.to, p.simulated, y)
      /\ stack' = <<>> \o ToMint
      /\ stack' # <<>> => saved' = saved
      /\ UNCHANGED <<listed, weight, supply, shares, rates, elapsed, collector, stale, held>>
  BY <1>6 DEF Answered
<1>8. stack' = ToMint /\ stack' # <<>> /\ saved' = saved
  BY <1>4, <1>7, Concat
<1>9. vault' = BoughtVault(p, x, y) /\ Bought(p, x, y)
  BY <1>3, <1>7 DEF BoughtVault, Bought
<1>10. /\ BoughtVault(p, x, y)' = BoughtVault(p, x, y) /\ Bought(p, x, y)' /\ Reallocating(p)'
       /\ Due' = Due /\ ToRun' = ToRun
  BY <1>3, <1>7, <1>8, <1>9, ReallocateFrozen, Frozen
<1>11. AtFee(p, x, y)' \/ AtLast(p, x, y)'
  <2>1. CASE Due > 0
    BY <1>3, <1>4, <1>7, <1>8, <1>9, <1>10, <2>1 DEF AtFee, Left, Mint
  <2>2. CASE Due = 0
    <3>1. saved.supply + Due = saved.supply /\ supply <= MaxSupply
      BY <1>1, <2>2 DEF Sound, Accounted, SavedOK
    <3>2. Credit(saved.shares, collector, Due) = saved.shares
      BY <1>1, <2>2, CreditTwice
    <3>3. Credit(saved.shares, collector, Due)' = saved.shares
      BY <1>7, <1>8, <1>10, <3>2 DEF Credit
    <3>4. (saved.supply + Due)' = saved.supply
      BY <1>8, <1>10, <3>1
    <3> QED
      BY <1>3, <1>4, <1>7, <1>8, <1>9, <1>10, <2>2, <3>1, <3>3, <3>4 DEF AtLast, Left
  <2> QED
    BY <1>4, <2>1, <2>2
<1>12. Stage'
  BY <1>10, <1>11 DEF Stage, ReallocateStage
<1> QED
  BY <1>5, <1>7, <1>8, <1>12, Onward

\* The AUM fee of a reallocation is minted.
LEMMA ReallocateFee ==
    ASSUME TxInv, stack # <<>>, Deliver, NEW p \in Orders, NEW x \in Answers, NEW y \in Answers,
           Reallocating(p), AtFee(p, x, y)
    PROVE  TxInv' /\ Simulates
<1>1. Sound /\ SavedOK /\ TypeOK /\ collector \in Accounts
  BY DEF TxInv, Sound, TypeOK
<1>2. Due \in Nat /\ Sequence(ToRun) /\ ToRun # <<>>
  BY <1>1, DueType, Rests
<1>3. /\ Bought(p, x, y) /\ stack = <<Mint(collector, Due)>> \o ToRun
      /\ vault = BoughtVault(p, x, y) /\ supply = saved.supply /\ shares = saved.shares
      /\ held = 0 /\ elapsed = 0
  BY DEF AtFee, Left, Bought
<1>4. /\ supply + Due <= MaxSupply
      /\ supply' = supply + Due
      /\ shares' = Credit(shares, collector, Due)
      /\ stack' = ToRun /\ saved' = saved
      /\ UNCHANGED <<listed, weight, vault, rates, elapsed, collector, stale, held>>
      /\ Sound'
  BY <1>1, <1>2, <1>3, MintStep
<1>5. /\ BoughtVault(p, x, y)' = BoughtVault(p, x, y) /\ Bought(p, x, y)' /\ Reallocating(p)'
      /\ Due' = Due /\ ToRun' = ToRun
  BY <1>3, <1>4, ReallocateFrozen, Frozen
<1>6. AtLast(p, x, y)'
  BY <1>3, <1>4, <1>5 DEF AtLast, Left, Credit
<1>7. Stage'
  BY <1>5, <1>6 DEF Stage, ReallocateStage
<1> QED
  BY <1>2, <1>4, <1>7, Onward

\* Run closes a reallocation.
LEMMA ReallocateCloses ==
    ASSUME TxInv, stack # <<>>, Deliver, NEW p \in Orders, NEW x \in Answers, NEW y \in Answers,
           Reallocating(p), AtLast(p, x, y)
    PROVE  TxInv' /\ Simulates
<1>1. Sound /\ SavedOK /\ TypeOK
  BY DEF TxInv, Sound
<1>2. stack = ToRun /\ elapsed = 0 /\ held = 0 /\ supply = saved.supply + Due
  BY DEF AtLast, Left, Bought
<1>3. supply > 0
  <2>1. saved.supply > 0 /\ saved.supply \in Nat
    BY <1>1, SoldVaultType DEF AtLast, Bought, Reallocating, SavedOK
  <2>2. Due \in Nat
    BY <1>1, DueType
  <2> QED
    BY <1>2, <2>1, <2>2
<1>4. /\ stack' = <<>> /\ elapsed' = 0 /\ stale' = {}
      /\ weight' = Rebalanced(listed, weight, vault, supply)
      /\ UNCHANGED <<listed, vault, supply, shares, rates, collector, held>>
      /\ Sound'
  BY <1>1, <1>2, <1>3, LastRun
<1>5. Simulates
  BY <1>1, <1>4, ReallocateDone
<1> QED
  BY <1>2, <1>4, <1>5 DEF TxInv

\* Every message of a reallocation.
LEMMA ReallocateMessage ==
    ASSUME TxInv, stack # <<>>, Deliver, NEW p \in Orders, ReallocateStage(p)
    PROVE  TxInv' /\ Simulates
BY FirstStep, CallbackStep, SecondStep, ReallocateFee, ReallocateCloses DEF ReallocateStage

\* Every message of every transaction.
LEMMA DeliverKeeps == ASSUME TxInv, Deliver PROVE TxInv' /\ Simulates
<1>1. stack # <<>>
  BY Kinds
<1>2. Stage
  BY <1>1 DEF TxInv
<1> QED
  BY <1>1, <1>2, DepositMessage, WithdrawMessage, RunMessage, ReallocateMessage DEF Stage

-----------------------------------------------------------------------------
(* Transactions of one handler, failures, and the proof put together.      *)

\* A transaction of one handler is that transaction.
LEMMA SingleKeeps == ASSUME TxInv, Single PROVE TxInv' /\ Simulates
<1>1. /\ stack = <<>> /\ held = 0 /\ Sound /\ TypeOK
      /\ stack' = <<>> /\ held' = held
      /\ shares \in [Accounts -> Nat] /\ supply \in Nat /\ vault \in [Coins -> Nat]
      /\ weight \in [Denoms -> Nat] /\ listed \in SUBSET Denoms
      /\ Counts(shares, supply - held)
  BY DEF TxInv, Sound, Single, TypeOK, Accounted
<1>2. ASSUME NEW r \in RateChoices, NEW c \in Collectors, UpdateFees(r, c)
      PROVE  Sound' /\ Simulates
  <2>1. Sound'
    BY <1>1, <1>2, FixedAssumptions DEF UpdateFees, Sound, TypeOK, Accounted, Counts, Tokens
  <2>2. Transactions!UpdateFees(r, c)
    BY <1>1, <1>2 DEF UpdateFees, Transactions!UpdateFees, ValidRates, Transactions!ValidRates
  <2>3. Transactions!SudoStep
    BY <2>2 DEF Transactions!SudoStep
  <2> QED
    BY <2>1, <2>3 DEF Simulates, Transactions!Next
<1>3. ASSUME NEW d \in Denoms, AddAllocation(d)
      PROVE  Sound' /\ Simulates
  <2> DEFINE L == listed \cup {d}
             w == [weight EXCEPT ![d] = 0]
  <2>1. Rebalanced(L, w, vault, supply) \in [Denoms -> Nat]
    BY <1>1, RebalancedType
  <2>2. Sound'
    BY <1>1, <1>3, <2>1 DEF AddAllocation, Sound, TypeOK, Accounted, Counts, Tokens
  <2>3. Transactions!AddAllocation(d)
    BY <1>1, <1>3, SameOperators DEF AddAllocation, Transactions!AddAllocation
  <2>4. Transactions!SudoStep
    BY <2>3 DEF Transactions!SudoStep
  <2> QED
    BY <2>2, <2>4 DEF Simulates, Transactions!Next
<1>4. ASSUME NEW d \in Denoms, RemoveAllocation(d)
      PROVE  Sound' /\ Simulates
  <2>1. Sound'
    BY <1>1, <1>4 DEF RemoveAllocation, Sound, TypeOK, Accounted, Counts, Tokens
  <2>2. Transactions!RemoveAllocation(d)
    BY <1>1, <1>4 DEF RemoveAllocation, Transactions!RemoveAllocation
  <2>3. Transactions!SudoStep
    BY <2>2 DEF Transactions!SudoStep
  <2> QED
    BY <2>1, <2>3 DEF Simulates, Transactions!Next
<1>5. ASSUME NEW c \in Coins, NEW x \in Amounts, Donate(c, x)
      PROVE  Sound' /\ Simulates
  <2>1. Credit(vault, c, x) \in [Coins -> Nat]
    BY <1>1, CreditType, FixedAssumptions
  <2>2. Sound'
    BY <1>1, <1>5, <2>1 DEF Donate, Sound, TypeOK, Accounted, Counts, Tokens
  <2>3. Transactions!Donate(c, x)
    BY <1>1, <1>5, SameOperators DEF Donate, Transactions!Donate, Fits, Transactions!Fits
  <2> QED
    BY <2>2, <2>3, SameOperators DEF Simulates, Transactions!Next
<1>6. ASSUME NEW a \in Accounts, NEW b \in Accounts, NEW s \in 1 .. MaxSupply, Transfer(a, b, s)
      PROVE  Sound' /\ Simulates
  <2> DEFINE g == [shares EXCEPT ![a] = @ - s]
  <2>1. /\ s \in Nat /\ s <= shares[a] /\ shares' = Credit(g, b, s)
        /\ UNCHANGED <<listed, weight, vault, supply, rates, elapsed, collector, stale>>
    BY <1>6, FixedAssumptions DEF Transfer
  <2>2. g \in [Accounts -> Nat] /\ Counts(g, (supply - held) - s) /\ supply - held \in Nat
    BY <1>1, <2>1, DebitCounts
  <2> HIDE DEF g
  <2>3. /\ Credit(g, b, s) \in [Accounts -> Nat]
        /\ Counts(Credit(g, b, s), ((supply - held) - s) + s)
    BY <2>1, <2>2, CreditTwice, CreditCounts
  <2>4. ((supply - held) - s) + s = supply' - held'
    BY <1>1, <2>1, <2>2
  <2>5. Accounted'
    BY <1>1, <2>1, <2>3, <2>4 DEF Sound, Accounted, Counts, Tokens
  <2>6. Sound'
    BY <1>1, <2>1, <2>3, <2>5 DEF Sound, TypeOK
  <2>7. Transactions!Transfer(a, b, s)
    BY <1>1, <1>6, SameOperators DEF Transfer, Transactions!Transfer
  <2> QED
    BY <2>6, <2>7 DEF Simulates, Transactions!Next
<1>7. ASSUME Tick PROVE Sound' /\ Simulates
  <2>1. Sound'
    BY <1>1, <1>7 DEF Tick, Sound, TypeOK, Accounted, Counts, Tokens
  <2>2. Transactions!Tick
    BY <1>1, <1>7 DEF Tick, Transactions!Tick
  <2> QED
    BY <2>1, <2>2 DEF Simulates, Transactions!Next
<1>8. Sound' /\ Simulates
  BY <1>2, <1>3, <1>4, <1>5, <1>6, <1>7 DEF Single
<1> QED
  BY <1>1, <1>8 DEF TxInv

\* A failure leaves what the transaction found, and the abstract specification
\* has seen nothing.
LEMMA RevertKeeps == ASSUME TxInv, Revert PROVE TxInv' /\ Simulates
<1>1. /\ Sound /\ SavedOK /\ stack # <<>>
      /\ stack' = <<>> /\ held' = 0
      /\ weight' = saved.weight /\ vault' = saved.vault /\ supply' = saved.supply
      /\ shares' = saved.shares /\ elapsed' = saved.elapsed /\ stale' = saved.stale
      /\ UNCHANGED <<listed, rates, collector>>
  BY DEF TxInv, Revert
<1>2. TypeOK'
  BY <1>1 DEF Sound, TypeOK, SavedOK
<1>3. saved.supply - 0 = saved.supply
  BY <1>1 DEF SavedOK
<1>4. Counts(saved.shares, saved.supply - 0) /\ saved.supply <= MaxSupply
  BY <1>1, <1>3 DEF SavedOK
<1>5. Accounted'
  BY <1>1, <1>4 DEF Accounted, Counts, Tokens
<1>6. Simulates
  BY <1>1 DEF Simulates, Transactions!vars
<1> QED
  BY <1>1, <1>2, <1>5, <1>6 DEF TxInv, Sound

\* A stage is what it was when nothing changes.
LEMMA StageStutter == ASSUME Stage, UNCHANGED txvars PROVE Stage'
<1>1. UNCHANGED <<listed, weight, vault, supply, shares, rates, elapsed, collector, stale,
                  stack, held, saved>>
  BY DEF txvars, vars
<1>2. Due' = Due /\ NewWeight' = NewWeight /\ ToRun' = ToRun /\ ToMint' = ToMint
  BY <1>1, Frozen
<1>3. ASSUME NEW u \in Accounts, NEW funds \in Funds, NEW n \in 0 .. MaxSupply,
             DepositStage(u, funds, n)
      PROVE  Stage'
  <2>1. Deposited(funds)' = Deposited(funds) /\ MintFee(Due)' = MintFee(Due)
    BY <1>1, <1>2 DEF Deposited, MintFee, Mint
  <2>2. Depositing(funds, n)'
    BY <1>1, <1>2, <1>3, <2>1 DEF DepositStage, Depositing, Rebalanced, Fits
  <2>3. AtShares(u, funds, n)' \/ AtDepositFee(u, funds, n)'
    BY <1>1, <1>2, <1>3, <2>1 DEF DepositStage, AtShares, AtDepositFee, Left, Mint, Credit
  <2> QED
    BY <2>2, <2>3 DEF Stage, DepositStage
<1>4. ASSUME NEW u \in Accounts, NEW s \in 1 .. MaxSupply, WithdrawStage(u, s)
      PROVE  Stage'
  <2>1. /\ ExitFee(s)' = ExitFee(s) /\ Net(s)' = Net(s)
        /\ Paid(s)' = Paid(s) /\ Rest(s)' = Rest(s)
        /\ Taken(u, s)' = Taken(u, s) /\ Passed(u, s)' = Passed(u, s)
        /\ ToPass(s)' = ToPass(s) /\ ToSend(s)' = ToSend(s)
        /\ PaidOut(s)' = PaidOut(s)
        /\ Withdrawing(u, s)'
    BY <1>1, <1>4, WithdrawFrozen DEF WithdrawStage
  <2>2. CASE AtBurn(u, s)
    BY <1>1, <2>1, <2>2 DEF Stage, WithdrawStage, AtBurn, Left, Burn
  <2>3. CASE AtSend(u, s)
    BY <1>1, <2>1, <2>3 DEF Stage, WithdrawStage, AtSend, Left, Send
  <2>4. CASE AtPass(u, s)
    BY <1>1, <1>2, <2>1, <2>4 DEF Stage, WithdrawStage, AtPass, Left, PassOn
  <2>5. CASE AtMint(u, s)
    BY <1>1, <1>2, <2>1, <2>5 DEF Stage, WithdrawStage, AtMint, Left, Mint
  <2>6. CASE AtRun(u, s)
    BY <1>1, <1>2, <2>1, <2>6 DEF Stage, WithdrawStage, AtRun, Left, Credit
  <2> QED
    BY <1>4, <2>2, <2>3, <2>4, <2>5, <2>6 DEF WithdrawStage
<1>5. CASE RunStage
  BY <1>1, <1>2, <1>5 DEF Stage, RunStage, Left, Mint
<1>6. ASSUME NEW p \in Orders, ReallocateStage(p)
      PROVE  Stage'
  <2>1. ASSUME NEW x, NEW y
        PROVE  /\ SaleOf(p)' = SaleOf(p) /\ Callback(p)' = Callback(p)
               /\ SoldVault(p, x)' = SoldVault(p, x)
               /\ BoughtVault(p, x, y)' = BoughtVault(p, x, y)
               /\ Sold1(p, x)' = Sold1(p, x)
               /\ Bought(p, x, y) => Bought(p, x, y)'
               /\ Reallocating(p)'
    BY <1>1, <1>6, ReallocateFrozen DEF ReallocateStage, Bought
  <2>2. CASE AtFirst(p)
    BY <1>1, <2>1, <2>2 DEF Stage, ReallocateStage, AtFirst, Left, Swap
  <2>3. ASSUME NEW x \in Answers, AtCallback(p, x) \/ AtSecond(p, x)
        PROVE  Stage'
    <3>1. AtCallback(p, x)' \/ AtSecond(p, x)'
      BY <1>1, <1>2, <2>1, <2>3 DEF AtCallback, AtSecond, Left, Swap
    <3> QED
      BY <2>1, <3>1 DEF Stage, ReallocateStage
  <2>4. ASSUME NEW x \in Answers, NEW y \in Answers, AtFee(p, x, y) \/ AtLast(p, x, y)
        PROVE  Stage'
    <3>1. AtFee(p, x, y)' \/ AtLast(p, x, y)'
      BY <1>1, <1>2, <2>1, <2>4 DEF AtFee, AtLast, Left, Mint, Credit
    <3> QED
      BY <2>1, <3>1 DEF Stage, ReallocateStage
  <2> QED
    BY <1>6, <2>2, <2>3, <2>4 DEF ReallocateStage
<1> QED
  BY <1>3, <1>4, <1>5, <1>6 DEF Stage

\* A step that changes nothing.
LEMMA StutterKeeps == ASSUME TxInv, UNCHANGED txvars PROVE TxInv' /\ Simulates
<1>1. UNCHANGED <<listed, weight, vault, supply, shares, rates, elapsed, collector, stale>>
      /\ UNCHANGED <<stack, held, saved>>
  BY DEF txvars, vars
<1>2. Simulates
  BY <1>1 DEF Simulates, Transactions!vars
<1>3. Sound'
  BY <1>1 DEF TxInv, Sound, TypeOK, Accounted, Counts, Tokens
<1>4. CASE stack = <<>>
  BY <1>1, <1>2, <1>3, <1>4 DEF TxInv
<1>5. CASE stack # <<>>
  <2>1. SavedOK /\ SavedOK'
    BY <1>1, <1>5, Frozen DEF TxInv
  <2>2. Stage'
    BY <1>5, StageStutter DEF TxInv
  <2> QED
    BY <1>1, <1>2, <1>3, <1>5, <2>1, <2>2 DEF TxInv
<1> QED
  BY <1>4, <1>5

\* Every step keeps the invariant and is a step, or none, of a whole transaction.
LEMMA TxKeeps == TxInv /\ [TxNext]_txvars => TxInv' /\ Simulates
<1> SUFFICES ASSUME TxInv, [TxNext]_txvars PROVE TxInv' /\ Simulates
  OBVIOUS
<1>1. CASE Begins
  BY <1>1, DepositBegins, WithdrawBegins, RunBegins, ReallocateBegins DEF Begins
<1>2. CASE Single
  BY <1>2, SingleKeeps
<1>3. CASE Deliver
  BY <1>3, DeliverKeeps
<1>4. CASE Revert
  BY <1>4, RevertKeeps
<1>5. CASE UNCHANGED txvars
  BY <1>5, StutterKeeps
<1> QED
  BY <1>1, <1>2, <1>3, <1>4, <1>5 DEF TxNext

\* At first there is no transaction and nobody holds anything.
LEMMA TxInitInv == TxInit => TxInv /\ Transactions!Init
<1> SUFFICES ASSUME TxInit PROVE TxInv /\ Transactions!Init
  OBVIOUS
<1>1. Init /\ stack = <<>> /\ held = 0
  BY DEF TxInit
<1>2. TypeOK
  BY <1>1, InitInv DEF IInv
<1>3. supply = 0 /\ shares = [a \in Accounts |-> 0]
  BY <1>1 DEF Init
<1>4. Accounted
  BY <1>1, <1>3, NoneCount, FixedAssumptions DEF Accounted
<1>5. Transactions!Init
  BY <1>1, SameOperators
     DEF Init, Transactions!Init, ValidRates, Transactions!ValidRates
<1> QED
  BY <1>1, <1>2, <1>4, <1>5 DEF TxInv, Sound

-----------------------------------------------------------------------------
(* The next message can run, unless FIN, a bound or nothing to mint or to  *)
(* send stands in its way.                                                 *)

\* A mint, which only fails for a bound or for nothing to mint.
LEMMA MintRuns ==
    ASSUME TypeOK, NEW a, NEW k \in Nat, Head(stack) = Mint(a, k)
    PROVE  OnlySwapsFail
<1>1. Head(stack).type = "mint" /\ Head(stack).amount = k
  BY DEF Mint
<1>2. CanRun <=> k > 0 /\ supply + k <= MaxSupply
  BY <1>1 DEF CanRun
<1>3. ~ CanRun => k = 0 \/ supply + k > MaxSupply
  BY <1>2, FixedAssumptions DEF TypeOK
<1> QED
  BY <1>1, <1>3 DEF OnlySwapsFail

\* Run and the callback always run.
LEMMA CallRuns ==
    ASSUME Head(stack).type \in {"run", "callback"}
    PROVE  OnlySwapsFail
BY DEF OnlySwapsFail, CanRun

\* A burn or a transfer of what the contract holds runs.
LEMMA HeldRuns ==
    ASSUME Head(stack).type \in {"burn", "pass_on"}, Head(stack).amount <= held
    PROVE  OnlySwapsFail
BY DEF OnlySwapsFail, CanRun

\* A send of what the vault has runs, unless it sends nothing.
LEMMA SendRuns ==
    ASSUME Head(stack).type = "send", Head(stack).coins \in [Coins -> Nat],
           \A c \in Coins : Head(stack).coins[c] <= vault[c]
    PROVE  OnlySwapsFail
<1>1. CanRun <=> \E c \in Coins : Head(stack).coins[c] > 0
  BY DEF CanRun
<1>2. ~ CanRun => \A c \in Coins : Head(stack).coins[c] = 0
  <2> SUFFICES ASSUME ~ CanRun, NEW c \in Coins PROVE Head(stack).coins[c] = 0
    OBVIOUS
  <2>1. Head(stack).coins[c] \in Nat /\ ~ (Head(stack).coins[c] > 0)
    BY <1>1
  <2> QED
    BY <2>1
<1>3. OnlySwapsFail <=> (stack # <<>> /\ ~ CanRun =>
          \/ Head(stack).type = "swap"
          \/ Head(stack).type = "mint"
                 /\ (Head(stack).amount = 0 \/ supply + Head(stack).amount > MaxSupply)
          \/ Head(stack).type = "send" /\ \A c \in Coins : Head(stack).coins[c] = 0)
  BY DEF OnlySwapsFail
<1> QED
  BY <1>2, <1>3, Zenon

\* Every message of a withdrawal finds what the handler counted on.
LEMMA WithdrawRuns ==
    ASSUME TypeOK, SavedOK, NEW u \in Accounts, NEW s \in 1 .. MaxSupply, WithdrawStage(u, s)
    PROVE  OnlySwapsFail
<1>1. Withdrawing(u, s)
  BY DEF WithdrawStage
<1>2. /\ Due \in Nat /\ Net(s) \in Nat /\ ExitFee(s) \in Nat /\ s = Net(s) + ExitFee(s)
      /\ Paid(s) \in [Coins -> Nat]
      /\ \A c \in Coins : Paid(s)[c] <= saved.vault[c]
      /\ Sequence(ToRun) /\ Sequence(ToMint) /\ Sequence(ToPass(s)) /\ Sequence(ToSend(s))
  BY <1>1, WithdrawTypes, WithdrawSequences
<1>3. CASE AtBurn(u, s)
  <2>1. Head(stack) = Burn(Net(s)) /\ held = s
    BY <1>2, <1>3, InFront DEF AtBurn, Left
  <2>2. Head(stack).type = "burn" /\ Head(stack).amount = Net(s)
    BY <2>1 DEF Burn
  <2> QED
    BY <1>2, <2>1, <2>2, HeldRuns
<1>4. CASE AtSend(u, s)
  <2>1. Head(stack) = Send(Paid(s)) /\ vault = saved.vault
    BY <1>2, <1>4, InFront DEF AtSend, Left
  <2>2. Head(stack).type = "send" /\ Head(stack).coins = Paid(s)
    BY <2>1 DEF Send
  <2> QED
    BY <1>2, <2>1, <2>2, SendRuns
<1>5. CASE AtPass(u, s)
  <2>1. Head(stack) = PassOn(ExitFee(s)) /\ held = ExitFee(s)
    BY <1>2, <1>5, InFront DEF AtPass, Left
  <2>2. Head(stack).type = "pass_on" /\ Head(stack).amount = ExitFee(s)
    BY <2>1 DEF PassOn
  <2> QED
    BY <1>2, <2>1, <2>2, HeldRuns
<1>6. CASE AtMint(u, s)
  BY <1>2, <1>6, InFront, MintRuns DEF AtMint, Left
<1>7. CASE AtRun(u, s)
  <2>1. Head(stack) = RunAgain
    BY <1>7, Alone DEF AtRun, Left, ToRun
  <2>2. Head(stack).type = "run"
    BY <2>1 DEF RunAgain
  <2> QED
    BY <2>2, CallRuns
<1> QED
  BY <1>3, <1>4, <1>5, <1>6, <1>7 DEF WithdrawStage

\* So do those of a reallocation, its swaps aside.
LEMMA ReallocateRuns ==
    ASSUME TypeOK, SavedOK, NEW p \in Orders, ReallocateStage(p)
    PROVE  OnlySwapsFail
<1>1. Due \in Nat /\ Sequence(ToRun) /\ Sequence(ToMint)
  BY DueType, Rests
<1>2. CASE Head(stack).type = "swap"
  BY <1>2 DEF OnlySwapsFail
<1>3. CASE AtFirst(p)
  <2>1. Head(stack).type = "swap"
    BY <1>3, Alone DEF AtFirst, Left, Swap
  <2> QED
    BY <1>2, <2>1
<1>4. ASSUME NEW x \in Answers, AtCallback(p, x) PROVE OnlySwapsFail
  <2>1. Head(stack).type = "callback"
    BY <1>4, Alone DEF AtCallback, Left, Callback, AfterReallocate
  <2> QED
    BY <2>1, CallRuns
<1>5. ASSUME NEW x \in Answers, AtSecond(p, x) PROVE OnlySwapsFail
  <2>1. Head(stack) = Swap(Quote, p.to, p.simulated, p.minReturn, <<>>)
    BY <1>1, <1>5, InFront DEF AtSecond, Left
  <2>2. Head(stack).type = "swap"
    BY <2>1 DEF Swap
  <2> QED
    BY <1>2, <2>2
<1>6. ASSUME NEW x \in Answers, NEW y \in Answers, AtFee(p, x, y) PROVE OnlySwapsFail
  BY <1>1, <1>6, InFront, MintRuns DEF AtFee, Left
<1>7. ASSUME NEW x \in Answers, NEW y \in Answers, AtLast(p, x, y) PROVE OnlySwapsFail
  <2>1. Head(stack) = RunAgain
    BY <1>7, Alone DEF AtLast, Left, ToRun
  <2>2. Head(stack).type = "run"
    BY <2>1 DEF RunAgain
  <2> QED
    BY <2>2, CallRuns
<1> QED
  BY <1>3, <1>4, <1>5, <1>6, <1>7 DEF ReallocateStage

\* The invariant says it of every transaction.
LEMMA InvRuns == TxInv => OnlySwapsFail /\ NothingHeld /\ Accounted
<1> SUFFICES ASSUME TxInv PROVE OnlySwapsFail /\ NothingHeld /\ Accounted
  OBVIOUS
<1>1. NothingHeld /\ Accounted
  BY DEF TxInv, Sound, NothingHeld
<1>2. ASSUME stack = <<>> PROVE OnlySwapsFail
  BY <1>2 DEF OnlySwapsFail
<1>3. ASSUME stack # <<>> PROVE OnlySwapsFail
  <2>1. TypeOK /\ SavedOK /\ Stage /\ Due \in Nat
    BY <1>3, DueType DEF TxInv, Sound
  <2>2. ASSUME NEW u \in Accounts, NEW funds \in Funds, NEW n \in 0 .. MaxSupply,
               DepositStage(u, funds, n)
        PROVE  OnlySwapsFail
    <3>1. Sequence(MintFee(Due)) /\ n \in Nat
      BY <2>1, Rests, FixedAssumptions
    <3>2. CASE AtShares(u, funds, n)
      BY <2>1, <3>1, <3>2, InFront, MintRuns DEF AtShares, Left
    <3>3. CASE AtDepositFee(u, funds, n)
      BY <2>1, <3>3, Alone, MintRuns DEF AtDepositFee, Left
    <3> QED
      BY <2>2, <3>2, <3>3 DEF DepositStage
  <2>3. CASE RunStage
    BY <2>1, <2>3, Alone, MintRuns DEF RunStage, Left
  <2> QED
    BY <2>1, <2>2, <2>3, WithdrawRuns, ReallocateRuns DEF Stage
<1>4. OnlySwapsFail
  BY <1>2, <1>3
<1> QED
  BY <1>1, <1>4

-----------------------------------------------------------------------------
(* The theorems.                                                           *)

\* The invariant holds: at every message, the state is the function of what
\* the transaction found that its stage says.
THEOREM TxInvariant == TxSpec => []TxInv
<1>1. TxInit => TxInv
  BY TxInitInv
<1>2. TxInv /\ [TxNext]_txvars => TxInv'
  BY TxKeeps
<1> QED
  BY <1>1, <1>2, PTL DEF TxSpec

\* Message by message, the contract does what its whole transactions do: a
\* transaction that ends is one of IndexFixed's, and one that fails is no
\* step at all.
THEOREM Implements == TxSpec => ImplementsTransactions
<1>1. TxInit => TxInv /\ Transactions!Init
  BY TxInitInv
<1>2. TxInv /\ [TxNext]_txvars => TxInv' /\ [Transactions!Next]_(Transactions!vars)
  BY TxKeeps DEF Simulates
<1> QED
  BY <1>1, <1>2, PTL DEF TxSpec, ImplementsTransactions, Transactions!Spec

\* Only FIN, the bounds, and a mint or a send of nothing undo a transaction.
THEOREM FailuresAreSwaps == TxSpec => []OnlySwapsFail
BY TxInvariant, InvRuns, PTL

\* Between transactions the contract keeps no receipt token.
THEOREM KeepsNoToken == TxSpec => []NothingHeld
BY TxInvariant, InvRuns, PTL

\* At every message, the receipt tokens that the accounts and the contract
\* have are the supply.
THEOREM TokensAccounted == TxSpec => []Accounted
BY TxInvariant, InvRuns, PTL

=============================================================================
