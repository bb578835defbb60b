-------------------------- MODULE IndexFixedProofs --------------------------
(***************************************************************************)
(* What holds of the fixed index for every choice of its constants: any    *)
(* denominations, accounts, weights, amounts, rates and bounds.            *)
(***************************************************************************)
EXTENDS IndexFixed, FiniteSetTheorems, TLAPS

-----------------------------------------------------------------------------
(* Rounding down: the facts about \div everything else rests on.           *)

\* The whole units per share, times the shares, are covered by the balance,
\* and one unit more per share would not be.
LEMMA FloorDivision ==
    ASSUME NEW x \in Nat, NEW t \in Nat, t > 0
    PROVE  /\ x \div t \in Nat
           /\ (x \div t) * t <= x
           /\ x < ((x \div t) + 1) * t
OBVIOUS

\* Rounding down finds the largest covered number.
LEMMA FloorLargest ==
    ASSUME NEW x \in Nat, NEW t \in Nat, t > 0, NEW k \in Nat, k * t <= x
    PROVE  k <= x \div t
OBVIOUS

\* Products of covered amounts keep their order.
LEMMA TimesMonotone ==
    ASSUME NEW x \in Nat, NEW y \in Nat, NEW t \in Nat, x <= y
    PROVE  x * t \in Nat /\ y * t \in Nat /\ x * t <= y * t
OBVIOUS

-----------------------------------------------------------------------------
(* The fee manager and the vault's helpers.                                *)

\* Fixed-point operations on natural numbers give natural numbers.
LEMMA DecimalType ==
    ASSUME NEW x \in Nat, NEW y \in Nat
    PROVE  /\ DecMul(x, y) \in Nat
           /\ FromRatio(x, 1) \in Nat
           /\ ToCeil(x) \in Nat
           /\ y > 0 => FromRatio(x, y) \in Nat
<1>1. x * y \in Nat /\ x * One \in Nat /\ x + One - 1 \in Nat
  BY OneAssumption
<1>2. DecMul(x, y) \in Nat
  BY <1>1, FloorDivision, OneAssumption DEF DecMul
<1>3. \A z \in Nat : z > 0 => FromRatio(x, z) \in Nat
  BY <1>1, FloorDivision DEF FromRatio
<1>4. ToCeil(x) \in Nat
  BY <1>1, FloorDivision, OneAssumption DEF ToCeil
<1> QED
  BY <1>2, <1>3, <1>4

\* The fees are natural numbers.
LEMMA FeeType ==
    ASSUME NEW rate \in Nat, NEW seconds \in Nat, NEW amount \in Nat
    PROVE  AumFee(rate, seconds, amount) \in Nat /\ TxFee(rate, amount) \in Nat
<1>1. FromRatio(amount, 1) \in Nat
  BY DecimalType
<1>2. YearFraction(seconds) \in Nat
  BY DecimalType, YearAssumption DEF YearFraction
<1>3. EffectiveRate(rate, seconds) \in Nat
  BY <1>2, DecimalType DEF EffectiveRate
<1>4. AumFee(rate, seconds, amount) \in Nat
  BY <1>1, <1>3, DecimalType DEF AumFee
<1>5. TxFee(rate, amount) \in Nat
  BY <1>1, DecimalType DEF TxFee
<1> QED
  BY <1>4, <1>5

\* The AUM fee that is due is a natural number.
LEMMA AumDueType == TypeOK => AumDue \in Nat
BY FeeType DEF TypeOK, AumDue, FeeRates

\* Crediting an account keeps a function of natural numbers one.
LEMMA CreditType ==
    ASSUME NEW S, NEW f \in [S -> Nat], NEW a \in S, NEW n \in Nat
    PROVE  Credit(f, a, n) \in [S -> Nat]
BY DEF Credit

\* The funds attached to a deposit are amounts of every coin.
LEMMA FundsType == \A funds \in Funds : funds \in [Coins -> Nat]
<1> SUFFICES ASSUME NEW funds \in Funds, NEW c \in Coins PROVE funds[c] \in Nat
  BY DEF Funds
<1> QED
  BY FixedAssumptions DEF Funds

\* A rebalance stores natural numbers for the listed denoms and no other.
LEMMA RebalancedType ==
    ASSUME NEW L \in SUBSET Denoms, NEW w \in [Denoms -> Nat],
           NEW balance \in [Coins -> Nat], NEW total \in Nat
    PROVE  Rebalanced(L, w, balance, total) \in [Denoms -> Nat]
<1> SUFFICES ASSUME NEW d \in Denoms
             PROVE  (IF d \in L /\ total > 0 THEN balance[d] \div total ELSE w[d]) \in Nat
  BY DEF Rebalanced
<1>1. balance[d] \in Nat
  BY DEF Coins
<1> QED
  BY <1>1, FloorDivision

\* After a rebalance the weight of a listed denom is covered.
LEMMA RebalancedCovered ==
    ASSUME NEW L \in SUBSET Denoms, NEW w \in [Denoms -> Nat],
           NEW balance \in [Coins -> Nat], NEW total \in Nat, NEW d \in L
    PROVE  Rebalanced(L, w, balance, total)[d] * total <= balance[d]
<1>1. balance[d] \in Nat /\ w[d] \in Nat
  BY DEF Coins
<1>2. Rebalanced(L, w, balance, total)[d] = IF total > 0 THEN balance[d] \div total ELSE w[d]
  BY DEF Rebalanced
<1>3. CASE total > 0
  BY <1>1, <1>2, <1>3, FloorDivision
<1>4. CASE total = 0
  BY <1>1, <1>2, <1>4
<1> QED
  BY <1>3, <1>4

\* A rebalance leaves at least any number of units the balance covers.
LEMMA RebalancedAtLeast ==
    ASSUME NEW L \in SUBSET Denoms, NEW w \in [Denoms -> Nat],
           NEW balance \in [Coins -> Nat], NEW total \in Nat, NEW d \in L,
           NEW k \in Nat, k * total <= balance[d], total = 0 => k <= w[d]
    PROVE  k <= Rebalanced(L, w, balance, total)[d]
<1>1. balance[d] \in Nat
  BY DEF Coins
<1>2. Rebalanced(L, w, balance, total)[d] = IF total > 0 THEN balance[d] \div total ELSE w[d]
  BY DEF Rebalanced
<1>3. CASE total > 0
  BY <1>1, <1>2, <1>3, FloorLargest
<1>4. CASE total = 0
  BY <1>2, <1>4
<1> QED
  BY <1>3, <1>4

-----------------------------------------------------------------------------
(* Types and cover. Covered is inductive once the types are known: every   *)
(* action that takes coins out or mints shares ends in a rebalance, over   *)
(* the supply it leaves.                                                   *)

IInv == TypeOK /\ Covered

\* A step that ends in a rebalance over the new supply covers every weight.
LEMMA RebalanceCovers ==
    ASSUME listed' \in SUBSET Denoms, NEW w \in [Denoms -> Nat],
           vault' \in [Coins -> Nat], supply' \in Nat,
           weight' = Rebalanced(listed', w, vault', supply')
    PROVE  Covered' /\ weight' \in [Denoms -> Nat]
<1>1. weight' \in [Denoms -> Nat]
  BY RebalancedType
<1>2. \A d \in listed' : weight'[d] * supply' <= vault'[d]
  BY RebalancedCovered
<1> QED
  BY <1>1, <1>2 DEF Covered

\* instantiate stores no weight and no balance: everything is covered.
LEMMA InitInv == Init => IInv
<1> SUFFICES ASSUME Init PROVE IInv
  OBVIOUS
<1>1. PICK w \in [listed -> Weights] :
        weight = [d \in Denoms |-> IF d \in listed THEN w[d] ELSE 0]
  BY DEF Init
<1>2. weight \in [Denoms -> Nat]
  BY <1>1, FixedAssumptions DEF Init
<1>3. vault \in [Coins -> Nat] /\ shares \in [Accounts -> Nat]
  BY DEF Init
<1>4. rates \in FeeRates /\ collector \in Accounts
  BY FixedAssumptions DEF Init
<1>5. TypeOK
  BY <1>2, <1>3, <1>4 DEF Init, TypeOK
<1>6. Covered
  <2> SUFFICES ASSUME NEW d \in listed PROVE weight[d] * supply <= vault[d]
    BY DEF Covered
  <2>1. supply = 0 /\ vault[d] = 0 /\ weight[d] \in Nat
    BY <1>2 DEF Init, Coins
  <2> QED
    BY <2>1
<1> QED
  BY <1>5, <1>6 DEF IInv

\* Deposit keeps the weights covered: it ends in a rebalance over the new supply.
LEMMA DepositInv ==
    ASSUME IInv, NEW u \in Accounts, NEW funds \in [Coins -> Nat], Deposit(u, funds)
    PROVE  IInv'
<1>1. PICK n \in 1 .. MaxSupply :
        /\ vault' = [c \in Coins |-> vault[c] + funds[c]]
        /\ supply' = supply + AumDue + n
        /\ weight' = Rebalanced(listed, weight, [c \in Coins |-> vault[c] + funds[c]],
                                supply + AumDue + n)
        /\ shares' = Credit(Credit(shares, u, n), collector, AumDue)
        /\ elapsed' = 0 /\ stale' = {}
        /\ UNCHANGED <<listed, rates, collector>>
  BY DEF Deposit
<1>2. AumDue \in Nat /\ n \in Nat
  BY AumDueType, FixedAssumptions DEF IInv
<1>3. vault' \in [Coins -> Nat] /\ supply' \in Nat
  <2>1. \A c \in Coins : vault[c] + funds[c] \in Nat
    BY DEF IInv, TypeOK
  <2> QED
    BY <1>1, <1>2, <2>1 DEF IInv, TypeOK
<1>4. weight' \in [Denoms -> Nat] /\ Covered'
  BY <1>1, <1>3, RebalanceCovers DEF IInv, TypeOK
<1>5. shares' \in [Accounts -> Nat]
  BY <1>1, <1>2, CreditType DEF IInv, TypeOK
<1> QED
  BY <1>1, <1>3, <1>4, <1>5 DEF IInv, TypeOK

\* Run keeps the weights covered: it ends in a rebalance over the new supply.
LEMMA RunInv == ASSUME IInv, Run PROVE IInv'
<1>1. AumDue \in Nat
  BY AumDueType DEF IInv
<1>2. /\ supply' = supply + AumDue
      /\ weight' = Rebalanced(listed, weight, vault, supply + AumDue)
      /\ shares' = Credit(shares, collector, AumDue)
      /\ elapsed' = 0 /\ stale' \subseteq stale
      /\ UNCHANGED <<listed, vault, rates, collector>>
  BY DEF Run
<1>3. vault' \in [Coins -> Nat] /\ supply' \in Nat
  BY <1>1, <1>2 DEF IInv, TypeOK
<1>4. weight' \in [Denoms -> Nat] /\ Covered'
  BY <1>2, <1>3, RebalanceCovers DEF IInv, TypeOK
<1>5. shares' \in [Accounts -> Nat]
  BY <1>1, <1>2, CreditType DEF IInv, TypeOK
<1> QED
  BY <1>2, <1>3, <1>4, <1>5 DEF IInv, TypeOK

\* The vault is left with natural numbers by a payout it can cover.
LEMMA PayoutType ==
    ASSUME TypeOK, NEW w \in [Denoms -> Nat], NEW net \in Nat,
           \A c \in Coins : Payout(w, net)[c] <= vault[c]
    PROVE  [c \in Coins |-> vault[c] - Payout(w, net)[c]] \in [Coins -> Nat]
<1> SUFFICES ASSUME NEW c \in Coins PROVE vault[c] - Payout(w, net)[c] \in Nat
  OBVIOUS
<1>1. Payout(w, net)[c] = IF c \in listed THEN w[c] * net ELSE 0
  BY DEF Payout
<1>2. Payout(w, net)[c] \in Nat
  <2>1. CASE c \in listed
    <3>1. w[c] \in Nat
      BY <2>1 DEF TypeOK
    <3> QED
      BY <1>1, <2>1, <3>1
  <2>2. CASE c \notin listed
    BY <1>1, <2>2
  <2> QED
    BY <2>1, <2>2
<1> QED
  BY <1>2 DEF TypeOK

\* Withdraw keeps the weights covered: what it pays is the weight of what it burns, and
\* Run rebalances over what is left.
LEMMA WithdrawInv ==
    ASSUME IInv, NEW u \in Accounts, NEW s \in 1 .. MaxSupply, Withdraw(u, s)
    PROVE  IInv'
<1> DEFINE fee     == AumDue
           burnFee == TxFee(rates.transaction, s)
           net     == s - burnFee
           total   == supply + fee
           w       == Rebalanced(listed, weight, vault, total)
           balance == [c \in Coins |-> vault[c] - Payout(w, net)[c]]
<1>1. /\ s <= shares[u]
      /\ burnFee <= s /\ net <= total
      /\ \A c \in Coins : Payout(w, net)[c] <= vault[c]
      /\ vault' = balance
      /\ weight' = Rebalanced(listed, w, balance, total - net)
      /\ supply' = total - net
      /\ shares' = Credit([shares EXCEPT ![u] = @ - s], collector, burnFee + fee)
      /\ elapsed' = 0 /\ stale' = {}
      /\ UNCHANGED <<listed, rates, collector>>
  BY DEF Withdraw, MayWithdraw
<1>2. fee \in Nat /\ s \in Nat
  BY AumDueType, FixedAssumptions DEF IInv
<1>3. burnFee \in Nat
  BY <1>2, FeeType DEF IInv, TypeOK, FeeRates
<1>4. net \in Nat /\ total \in Nat /\ total - net \in Nat
  BY <1>1, <1>2, <1>3 DEF IInv, TypeOK
<1>5. w \in [Denoms -> Nat]
  BY <1>4, RebalancedType DEF IInv, TypeOK
<1>6. balance \in [Coins -> Nat]
  BY <1>1, <1>4, <1>5, PayoutType DEF IInv
<1>7. [shares EXCEPT ![u] = @ - s] \in [Accounts -> Nat]
  BY <1>1, <1>2 DEF IInv, TypeOK
<1> HIDE DEF fee, burnFee, net, total, w, balance
<1>8. weight' \in [Denoms -> Nat] /\ Covered'
  BY <1>1, <1>4, <1>5, <1>6, RebalanceCovers DEF IInv, TypeOK
<1>9. shares' \in [Accounts -> Nat]
  <2>1. burnFee + fee \in Nat /\ collector \in Accounts
    BY <1>2, <1>3 DEF IInv, TypeOK
  <2> QED
    BY <1>1, <1>7, <2>1, CreditType
<1> QED
  BY <1>1, <1>4, <1>6, <1>8, <1>9 DEF IInv, TypeOK

\* The sale of a reallocation is a natural number the vault holds.
LEMMA SaleType ==
    ASSUME TypeOK, NEW from \in Denoms, NEW to \in Denoms, NEW target \in Nat,
           MayReallocate(from, to, target)
    PROVE  Sale(from, target) \in Nat /\ Sale(from, target) <= vault[from]
<1>1. weight[from] \in Nat /\ supply \in Nat /\ weight[from] > target
  BY DEF TypeOK, MayReallocate
<1>2. weight[from] - target \in Nat
  BY <1>1
<1> QED
  BY <1>1, <1>2 DEF Sale, MayReallocate

\* The vault after the first leg of a reallocation, coin by coin.
LEMMA FirstLegType ==
    ASSUME TypeOK, NEW from \in Denoms, NEW to \in Denoms, NEW target \in Nat,
           MayReallocate(from, to, target), NEW returned \in Nat, NEW unfilled \in Nat
    PROVE  /\ FirstLeg(from, target, returned, unfilled) \in [Coins -> Nat]
           /\ FirstLeg(from, target, returned, unfilled)[from]
                  = vault[from] - Sale(from, target) + unfilled
           /\ \A c \in Coins \ {from} : FirstLeg(from, target, returned, unfilled)[c] >= vault[c]
<1>1. Sale(from, target) \in Nat /\ Sale(from, target) <= vault[from]
  BY SaleType
<1>2. from \in Coins /\ Quote \in Coins /\ from # Quote
  BY FixedAssumptions DEF Coins
<1>3. vault[from] - Sale(from, target) + unfilled \in Nat /\ vault[Quote] + returned \in Nat
  BY <1>1, <1>2 DEF TypeOK
<1> QED
  BY <1>2, <1>3 DEF FirstLeg, TypeOK

\* The vault after both legs: only `from' may have lost coins, no more than
\* the sale; the quote may have lost what the second leg spent.
LEMMA BothLegs ==
    ASSUME TypeOK, NEW from \in Denoms, NEW to \in Denoms, NEW target \in Nat,
           NEW minReturn \in Nat, NEW simulated \in Nat, NEW returned \in Nat,
           NEW unfilled \in Nat, NEW bought \in Nat, NEW unspent \in Nat,
           Reallocate(from, to, target, minReturn, simulated, returned,
                      unfilled, bought, unspent)
    PROVE  /\ vault' \in [Coins -> Nat]
           /\ \A d \in Denoms \ {from} : vault'[d] >= vault[d]
           /\ vault'[from] >= vault[from] - Sale(from, target)
           /\ weight' = Rebalanced(listed, weight, vault', supply')
           /\ supply' = supply + AumDue
           /\ shares' = Credit(shares, collector, AumDue)
           /\ elapsed' = 0 /\ stale' = {}
           /\ UNCHANGED <<listed, rates, collector>>
<1> DEFINE first  == FirstLeg(from, target, returned, unfilled)
           second == [first EXCEPT ![Quote] = @ - simulated + unspent]
<1>1. /\ MayReallocate(from, to, target)
      /\ simulated <= first[Quote]
      /\ vault' = [second EXCEPT ![to] = @ + bought]
      /\ weight' = Rebalanced(listed, weight, vault', supply')
      /\ supply' = supply + AumDue
      /\ shares' = Credit(shares, collector, AumDue)
      /\ elapsed' = 0 /\ stale' = {}
      /\ UNCHANGED <<listed, rates, collector>>
  BY DEF Reallocate
<1>2. /\ first \in [Coins -> Nat]
      /\ first[from] = vault[from] - Sale(from, target) + unfilled
      /\ \A c \in Coins \ {from} : first[c] >= vault[c]
  BY <1>1, FirstLegType
<1>3. Quote \in Coins /\ to \in Coins /\ \A d \in Denoms : d \in Coins /\ d # Quote
  BY FixedAssumptions DEF Coins
<1> HIDE DEF first
<1>4. /\ second \in [Coins -> Nat]
      /\ \A d \in Denoms : second[d] = first[d]
  BY <1>1, <1>2, <1>3
<1> HIDE DEF second
<1>5. /\ vault' \in [Coins -> Nat]
      /\ \A d \in Denoms : vault'[d] >= second[d]
  BY <1>1, <1>3, <1>4
<1>6. Sale(from, target) \in Nat /\ Sale(from, target) <= vault[from]
  BY <1>1, SaleType
<1>7. vault'[from] >= vault[from] - Sale(from, target)
  BY <1>2, <1>3, <1>4, <1>5, <1>6 DEF TypeOK
<1>8. \A d \in Denoms \ {from} : vault'[d] >= vault[d]
  BY <1>2, <1>3, <1>4, <1>5 DEF TypeOK
<1> QED
  BY <1>1, <1>5, <1>7, <1>8

\* A finished reallocation keeps the weights covered: its callback ends in Run.
LEMMA ReallocateInv ==
    ASSUME IInv, NEW from \in Denoms, NEW to \in Denoms, NEW target \in Weights,
           ReallocateStep(from, to, target)
    PROVE  IInv'
<1>1. PICK returned \in Returns, simulated \in Returns, bought \in Returns,
           unfilled \in Leftovers, unspent \in Leftovers, minReturn \in MinReturns :
        Reallocate(from, to, target, minReturn, simulated, returned,
                   unfilled, bought, unspent)
  BY DEF ReallocateStep
<1>2. /\ target \in Nat /\ returned \in Nat /\ simulated \in Nat /\ bought \in Nat
      /\ unfilled \in Nat /\ unspent \in Nat /\ minReturn \in Nat
  BY FixedAssumptions
<1>3. /\ vault' \in [Coins -> Nat]
      /\ weight' = Rebalanced(listed, weight, vault', supply')
      /\ supply' = supply + AumDue
      /\ shares' = Credit(shares, collector, AumDue)
      /\ elapsed' = 0 /\ stale' = {}
      /\ UNCHANGED <<listed, rates, collector>>
  BY <1>1, <1>2, BothLegs DEF IInv
<1>4. AumDue \in Nat /\ supply' \in Nat
  BY <1>3, AumDueType DEF IInv, TypeOK
<1>5. weight' \in [Denoms -> Nat] /\ Covered'
  BY <1>3, <1>4, RebalanceCovers DEF IInv, TypeOK
<1>6. shares' \in [Accounts -> Nat]
  BY <1>3, <1>4, CreditType DEF IInv, TypeOK
<1> QED
  BY <1>3, <1>4, <1>5, <1>6 DEF IInv, TypeOK

\* A reallocation without a callback leaves one denom uncovered, and says which.
LEMMA ReallocateUnansweredInv ==
    ASSUME IInv, NEW from \in Denoms, NEW to \in Denoms, NEW target \in Weights,
           ReallocateUnanswered(from, to, target)
    PROVE  IInv'
<1>1. /\ MayReallocate(from, to, target)
      /\ vault' = FirstLeg(from, target, 0, 0)
      /\ stale' = stale \cup {from}
      /\ UNCHANGED <<listed, weight, supply, shares, rates, elapsed, collector>>
  BY DEF ReallocateUnanswered
<1>2. target \in Nat
  BY FixedAssumptions
<1>3. vault' \in [Coins -> Nat] /\ \A c \in Coins \ {from} : vault'[c] >= vault[c]
  BY <1>1, <1>2, FirstLegType DEF IInv
<1>4. Covered'
  <2> SUFFICES ASSUME NEW d \in listed' \ stale' PROVE weight'[d] * supply' <= vault'[d]
    BY DEF Covered
  <2>1. d \in listed \ stale /\ d \in Coins /\ d # from
    BY <1>1 DEF IInv, TypeOK, Coins
  <2>2. weight[d] * supply <= vault[d]
    BY <2>1 DEF IInv, Covered
  <2>3. weight[d] * supply \in Nat /\ vault[d] \in Nat /\ vault'[d] \in Nat
    BY <1>3, <2>1 DEF IInv, TypeOK
  <2> QED
    BY <1>1, <1>3, <2>1, <2>2, <2>3
<1> QED
  BY <1>1, <1>3, <1>4 DEF IInv, TypeOK

\* UpdateFees touches neither weights nor balances.
LEMMA UpdateFeesInv ==
    ASSUME IInv, NEW r \in RateChoices, NEW c \in Collectors, UpdateFees(r, c)
    PROVE  IInv'
<1>1. TypeOK'
  BY FixedAssumptions DEF IInv, TypeOK, UpdateFees
<1>2. Covered'
  BY DEF IInv, Covered, UpdateFees
<1> QED
  BY <1>1, <1>2 DEF IInv

\* A new allocation has no weight, which any balance covers.
LEMMA AddAllocationInv ==
    ASSUME IInv, NEW d \in Denoms, AddAllocation(d)
    PROVE  IInv'
<1> DEFINE w == [weight EXCEPT ![d] = 0]
<1>1. /\ listed' = listed \cup {d} /\ d \notin listed
      /\ weight' = Rebalanced(listed', w, vault', supply')
      /\ stale' \subseteq stale
      /\ UNCHANGED <<vault, supply, shares, rates, elapsed, collector>>
  BY DEF AddAllocation
<1>2. w \in [Denoms -> Nat]
  BY DEF IInv, TypeOK
<1> HIDE DEF w
<1>3. listed' \in SUBSET Denoms /\ vault' \in [Coins -> Nat] /\ supply' \in Nat
  BY <1>1 DEF IInv, TypeOK
<1>4. weight' \in [Denoms -> Nat] /\ Covered'
  BY <1>1, <1>2, <1>3, RebalanceCovers
<1> QED
  BY <1>1, <1>3, <1>4 DEF IInv, TypeOK

\* Removing an allocation takes its weight with it.
LEMMA RemoveAllocationInv ==
    ASSUME IInv, NEW d \in Denoms, RemoveAllocation(d)
    PROVE  IInv'
BY DEF IInv, TypeOK, Covered, RemoveAllocation

\* Coins sent to the vault leave the weights covered.
LEMMA DonateInv ==
    ASSUME IInv, NEW c \in Coins, NEW x \in Amounts, Donate(c, x)
    PROVE  IInv'
<1>1. /\ vault' = Credit(vault, c, x)
      /\ UNCHANGED <<listed, weight, supply, shares, rates, elapsed, collector, stale>>
  BY DEF Donate
<1>2. x \in Nat
  BY FixedAssumptions
<1>3. vault' \in [Coins -> Nat]
  BY <1>1, <1>2, CreditType DEF IInv, TypeOK
<1>4. Covered'
  <2> SUFFICES ASSUME NEW d \in listed \ stale PROVE weight[d] * supply <= vault'[d]
    BY <1>1 DEF Covered
  <2>1. d \in Coins /\ d \in Denoms
    BY DEF IInv, TypeOK, Coins
  <2>2. vault'[d] >= vault[d]
    BY <1>1, <1>2, <2>1 DEF IInv, TypeOK, Credit
  <2>3. weight[d] * supply <= vault[d] /\ weight[d] * supply \in Nat
    BY <2>1 DEF IInv, TypeOK, Covered
  <2> QED
    BY <1>3, <2>1, <2>2, <2>3 DEF IInv, TypeOK
<1> QED
  BY <1>1, <1>3, <1>4 DEF IInv, TypeOK

\* A transfer of receipt tokens changes no supply.
LEMMA TransferInv ==
    ASSUME IInv, NEW x \in Accounts, NEW y \in Accounts, NEW s \in 1 .. MaxSupply,
           Transfer(x, y, s)
    PROVE  IInv'
<1>1. /\ s <= shares[x] /\ s \in Nat
      /\ shares' = Credit([shares EXCEPT ![x] = @ - s], y, s)
      /\ UNCHANGED <<listed, weight, vault, supply, rates, elapsed, collector, stale>>
  BY FixedAssumptions DEF Transfer
<1>2. [shares EXCEPT ![x] = @ - s] \in [Accounts -> Nat]
  BY <1>1 DEF IInv, TypeOK
<1>3. shares' \in [Accounts -> Nat]
  BY <1>1, <1>2, CreditType
<1> QED
  BY <1>1, <1>3 DEF IInv, TypeOK, Covered

\* Time changes no balance and no weight.
LEMMA TickInv == ASSUME IInv, Tick PROVE IInv'
BY DEF IInv, TypeOK, Covered, Tick

\* A step that changes nothing keeps the invariant.
LEMMA StutterInv == ASSUME IInv, UNCHANGED vars PROVE IInv'
BY DEF IInv, TypeOK, Covered, vars

\* The invariant is inductive: one case per action.
LEMMA NextInv == ASSUME IInv, [Next]_vars PROVE IInv'
<1>1. CASE UserStep
  BY <1>1, DepositInv, FundsType, WithdrawInv, RunInv DEF UserStep
<1>2. CASE SudoStep
  BY <1>2, ReallocateInv, ReallocateUnansweredInv, UpdateFeesInv,
     AddAllocationInv, RemoveAllocationInv DEF SudoStep
<1>3. CASE \E c \in Coins, x \in Amounts : Donate(c, x)
  BY <1>3, DonateInv
<1>4. CASE \E x, y \in Accounts, s \in 1 .. MaxSupply : Transfer(x, y, s)
  BY <1>4, TransferInv
<1>5. CASE Tick
  BY <1>5, TickInv
<1>6. CASE UNCHANGED vars
  BY <1>6, StutterInv
<1> QED
  BY <1>1, <1>2, <1>3, <1>4, <1>5, <1>6 DEF Next

\* Every variable keeps its type in every behaviour: balances and the supply
\* never go below zero.
THEOREM TypeCorrect == Spec => []TypeOK
<1>1. Init => IInv
  BY InitInv
<1>2. IInv /\ [Next]_vars => IInv'
  BY NextInv
<1>3. IInv => TypeOK
  BY DEF IInv
<1> QED
  BY <1>1, <1>2, <1>3, PTL DEF Spec

\* In every behaviour the vault covers the weights of all shares: the basket
\* of the last holder is as good as that of the first.
THEOREM AlwaysCovered == Spec => []Covered
<1>1. Init => IInv
  BY InitInv
<1>2. IInv /\ [Next]_vars => IInv'
  BY NextInv
<1>3. IInv => Covered
  BY DEF IInv
<1> QED
  BY <1>1, <1>2, <1>3, PTL DEF Spec

-----------------------------------------------------------------------------
(* The weights that holders keep, step by step.                            *)

\* A diluted weight is no more than the weight, and the supply with the fee
\* that is due covers it whenever the supply covered the weight.
LEMMA DilutedBounds ==
    ASSUME TypeOK, NEW w \in Nat
    PROVE  /\ Diluted(w) \in Nat
           /\ Diluted(w) <= w
           /\ Diluted(w) * (supply + AumDue) <= w * supply
<1>1. AumDue \in Nat /\ supply \in Nat
  BY AumDueType DEF TypeOK
<1>2. CASE AumDue = 0
  BY <1>1, <1>2 DEF Diluted
<1>3. CASE AumDue > 0
  <2> DEFINE total == supply + AumDue
             q     == (w * supply) \div total
  <2>1. total \in Nat /\ total > 0 /\ w * supply \in Nat /\ supply <= total
    BY <1>1, <1>3
  <2>2. q \in Nat /\ q * total <= w * supply
    BY <2>1, FloorDivision
  <2>3. w * supply <= w * total
    BY <1>1, <2>1
  <2>4. q <= w
    <3> SUFFICES ASSUME q > w PROVE FALSE
      BY <2>2
    <3> HIDE DEF q, total
    <3>1. (w + 1) * total <= q * total
      BY <2>1, <2>2
    <3>2. (w + 1) * total = w * total + total
      BY <2>1
    <3>3. w * total \in Nat
      BY <2>1
    <3> QED
      BY <2>1, <2>2, <2>3, <3>1, <3>2, <3>3
  <2>5. Diluted(w) = q
    BY <1>1, <1>3 DEF Diluted
  <2> QED
    BY <2>2, <2>4, <2>5
<1> QED
  BY <1>1, <1>2, <1>3

\* What a fresh, listed denom brings to a step.
LEMMA CoveredDenom ==
    ASSUME IInv, NEW d \in listed \ stale
    PROVE  /\ d \in Denoms /\ d \in Coins
           /\ weight[d] \in Nat /\ vault[d] \in Nat /\ supply \in Nat
           /\ weight[d] * supply \in Nat
           /\ weight[d] * supply <= vault[d]
BY DEF IInv, TypeOK, Covered, Coins

\* A step that leaves the weight alone keeps it.
LEMMA SameWeight ==
    ASSUME IInv, NEW d \in listed \ stale, weight'[d] = weight[d]
    PROVE  weight'[d] >= Diluted(weight[d])
BY CoveredDenom, DilutedBounds DEF IInv

\* Deposit leaves the other holders the weight of their shares, but for the AUM fee.
LEMMA DepositKeeps ==
    ASSUME IInv, NEW u \in Accounts, NEW funds \in Funds, Deposit(u, funds),
           NEW d \in listed \ stale
    PROVE  weight'[d] >= Diluted(weight[d])
<1> DEFINE balance == [c \in Coins |-> vault[c] + funds[c]]
<1>1. PICK n \in 1 .. MaxSupply :
        /\ DepositShare(funds, n)
        /\ weight' = Rebalanced(listed, weight, balance, supply + AumDue + n)
  BY DEF Deposit
<1>2. n \in Nat /\ AumDue \in Nat /\ funds \in [Coins -> Nat]
  BY AumDueType, FundsType, FixedAssumptions DEF IInv
<1>3. /\ d \in Denoms /\ d \in Coins /\ weight[d] \in Nat /\ vault[d] \in Nat
      /\ supply \in Nat /\ weight[d] * supply \in Nat
      /\ weight[d] * supply <= vault[d]
  BY CoveredDenom
<1>4. funds[d] \in Nat /\ weight[d] > 0 /\ n * weight[d] <= funds[d]
  BY <1>1, <1>2, <1>3, FloorDivision DEF DepositShare
<1>5. /\ Diluted(weight[d]) \in Nat /\ Diluted(weight[d]) <= weight[d]
      /\ Diluted(weight[d]) * (supply + AumDue) <= weight[d] * supply
  BY <1>3, DilutedBounds DEF IInv
<1>6. Diluted(weight[d]) * (supply + AumDue + n) <= balance[d]
  <2> DEFINE k == Diluted(weight[d])
  <2> HIDE DEF k
  <2>1. k \in Nat /\ k <= weight[d] /\ k * (supply + AumDue) <= weight[d] * supply
    BY <1>5 DEF k
  <2>2. k * (supply + AumDue + n) = k * (supply + AumDue) + k * n
    BY <1>2, <1>3, <2>1
  <2>3. k * n <= n * weight[d] /\ k * n \in Nat /\ n * weight[d] \in Nat
    BY <1>2, <1>3, <2>1
  <2>4. k * (supply + AumDue) \in Nat
    BY <1>2, <1>3, <2>1
  <2>5. balance[d] = vault[d] + funds[d]
    BY <1>3
  <2>6. k * (supply + AumDue + n) <= balance[d]
    BY <1>3, <1>4, <2>1, <2>2, <2>3, <2>4, <2>5
  <2> QED
    BY <2>6 DEF k
<1>7. balance \in [Coins -> Nat] /\ supply + AumDue + n \in Nat
  <2>1. \A c \in Coins : vault[c] + funds[c] \in Nat
    BY <1>2 DEF IInv, TypeOK
  <2> QED
    BY <1>2, <1>3, <2>1
<1>8. listed \in SUBSET Denoms /\ weight \in [Denoms -> Nat]
  BY DEF IInv, TypeOK
<1> HIDE DEF balance
<1> QED
  BY <1>1, <1>5, <1>6, <1>7, <1>8, RebalancedAtLeast

\* A withdrawal's payout at weight w leaves w units for each share left.
LEMMA PayoutLeaves ==
    ASSUME NEW v \in Nat, NEW w \in Nat, NEW total \in Nat, NEW net \in Nat,
           net <= total, w * total <= v
    PROVE  w * (total - net) <= v - w * net
<1>1. w * (total - net) = w * total - w * net
  BY Z3
<1>2. w * total \in Nat /\ w * net \in Nat
  OBVIOUS
<1> QED
  BY <1>1, <1>2

\* Withdraw leaves those who stay the weight of their shares, but for the AUM fee.
LEMMA WithdrawKeeps ==
    ASSUME IInv, NEW u \in Accounts, NEW s \in 1 .. MaxSupply, Withdraw(u, s),
           NEW d \in listed \ stale
    PROVE  weight'[d] >= Diluted(weight[d])
<1> DEFINE fee     == AumDue
           net     == s - TxFee(rates.transaction, s)
           total   == supply + fee
           w       == Rebalanced(listed, weight, vault, total)
           balance == [c \in Coins |-> vault[c] - Payout(w, net)[c]]
<1>1. /\ TxFee(rates.transaction, s) <= s /\ net <= total
      /\ \A c \in Coins : Payout(w, net)[c] <= vault[c]
      /\ weight' = Rebalanced(listed, w, balance, total - net)
  BY DEF Withdraw, MayWithdraw
<1>2. fee \in Nat /\ s \in Nat
  BY AumDueType, FixedAssumptions DEF IInv
<1>3. TxFee(rates.transaction, s) \in Nat
  BY <1>2, FeeType DEF IInv, TypeOK, FeeRates
<1>4. net \in Nat /\ total \in Nat /\ total - net \in Nat
  BY <1>1, <1>2, <1>3 DEF IInv, TypeOK
<1>5. listed \in SUBSET Denoms /\ weight \in [Denoms -> Nat] /\ vault \in [Coins -> Nat]
  BY DEF IInv, TypeOK
<1>6. w \in [Denoms -> Nat] /\ w[d] * total <= vault[d] /\ w[d] \in Nat
  <2>1. w \in [Denoms -> Nat]
    BY <1>4, <1>5, RebalancedType
  <2>2. w[d] * total <= vault[d]
    BY <1>4, <1>5, RebalancedCovered
  <2>3. w[d] \in Nat
    BY <1>5, <2>1
  <2> QED
    BY <2>1, <2>2, <2>3
<1>7. balance \in [Coins -> Nat]
  BY <1>1, <1>4, <1>6, PayoutType DEF IInv
<1>8. /\ d \in Denoms /\ d \in Coins /\ weight[d] \in Nat /\ vault[d] \in Nat
      /\ weight[d] * supply <= vault[d] /\ weight[d] * supply \in Nat
  BY CoveredDenom
<1>9. /\ Diluted(weight[d]) \in Nat /\ Diluted(weight[d]) <= weight[d]
      /\ Diluted(weight[d]) * total <= weight[d] * supply
  BY <1>8, DilutedBounds DEF IInv
<1>10. Diluted(weight[d]) <= w[d]
  <2>1. Diluted(weight[d]) * total <= vault[d]
    BY <1>4, <1>8, <1>9
  <2> QED
    BY <1>4, <1>5, <1>9, <2>1, RebalancedAtLeast
<1>11. balance[d] = vault[d] - w[d] * net
  BY <1>8 DEF Payout
<1>12. w[d] * (total - net) <= balance[d]
  BY <1>1, <1>4, <1>6, <1>8, <1>11, PayoutLeaves
<1> HIDE DEF balance, w, net, total
<1>13. w[d] <= weight'[d]
  BY <1>1, <1>4, <1>5, <1>6, <1>7, <1>12, RebalancedAtLeast
<1>14. weight'[d] \in Nat
  BY <1>1, <1>4, <1>5, <1>6, <1>7, <1>8, RebalancedType
<1> QED
  BY <1>6, <1>9, <1>10, <1>13, <1>14

\* Run leaves every holder the weight of their shares, but for the AUM fee.
LEMMA RunKeeps ==
    ASSUME IInv, Run, NEW d \in listed \ stale
    PROVE  weight'[d] >= Diluted(weight[d])
<1>1. weight' = Rebalanced(listed, weight, vault, supply + AumDue)
  BY DEF Run
<1>2. AumDue \in Nat /\ supply + AumDue \in Nat
  BY AumDueType DEF IInv, TypeOK
<1>3. /\ d \in Denoms /\ weight[d] \in Nat /\ vault[d] \in Nat
      /\ weight[d] * supply <= vault[d] /\ weight[d] * supply \in Nat
  BY CoveredDenom
<1>4. /\ Diluted(weight[d]) \in Nat /\ Diluted(weight[d]) <= weight[d]
      /\ Diluted(weight[d]) * (supply + AumDue) <= weight[d] * supply
  BY <1>3, DilutedBounds DEF IInv
<1>5. Diluted(weight[d]) * (supply + AumDue) <= vault[d]
  BY <1>2, <1>3, <1>4
<1>6. listed \in SUBSET Denoms /\ weight \in [Denoms -> Nat] /\ vault \in [Coins -> Nat]
  BY DEF IInv, TypeOK
<1> QED
  BY <1>1, <1>2, <1>4, <1>5, <1>6, RebalancedAtLeast

\* A denom of which no more was sold than down to a target keeps that target.
LEMMA SoldKeeps ==
    ASSUME IInv, NEW d \in listed \ stale, NEW target \in Weights, Sold(d, target),
           vault' \in [Coins -> Nat], weight' = Rebalanced(listed, weight, vault', supply')
    PROVE  weight'[d] >= Diluted(target)
<1>1. target \in Nat /\ target < weight[d] /\ supply' = supply + AumDue
      /\ vault[d] - vault'[d] <= Sale(d, target)
  BY FixedAssumptions DEF Sold
<1>2. AumDue \in Nat /\ supply' \in Nat
  BY <1>1, AumDueType DEF IInv, TypeOK
<1>3. listed \in SUBSET Denoms /\ weight \in [Denoms -> Nat]
  BY DEF IInv, TypeOK
<1>4. /\ d \in Denoms /\ d \in Coins /\ weight[d] \in Nat /\ vault[d] \in Nat
      /\ supply \in Nat /\ weight[d] * supply <= vault[d]
      /\ weight[d] * supply \in Nat /\ vault'[d] \in Nat
  BY CoveredDenom
<1>5. Sale(d, target) = weight[d] * supply - target * supply
  <2>1. (weight[d] - target) * supply = weight[d] * supply - target * supply
    BY <1>1, <1>4, Z3
  <2> QED
    BY <2>1 DEF Sale
<1>6. target * supply \in Nat
  BY <1>1, <1>4
<1>7. target * supply <= vault'[d]
  BY <1>1, <1>4, <1>5, <1>6
<1>8. /\ Diluted(target) \in Nat /\ Diluted(target) <= target
      /\ Diluted(target) * supply' <= target * supply
  BY <1>1, DilutedBounds DEF IInv
<1>9. Diluted(target) * supply' <= vault'[d]
  BY <1>2, <1>4, <1>6, <1>7, <1>8
<1>10. supply' = 0 => Diluted(target) <= weight[d]
  BY <1>1, <1>4, <1>8
<1>11. Diluted(target) <= weight'[d]
  BY <1>2, <1>3, <1>8, <1>9, <1>10, RebalancedAtLeast
<1>12. weight'[d] \in Nat
  BY <1>2, <1>3, <1>4, RebalancedType
<1> QED
  BY <1>8, <1>11, <1>12

\* A reallocation keeps every other weight, and of the one it sells the target.
LEMMA ReallocateKeeps ==
    ASSUME IInv, NEW from \in Denoms, NEW to \in Denoms, NEW target \in Weights,
           ReallocateStep(from, to, target), NEW d \in listed \ stale
    PROVE  \/ weight'[d] >= Diluted(weight[d])
           \/ /\ Sold(d, target)
              /\ \A t \in Weights : Sold(d, t) => weight'[d] >= Diluted(t)
<1>1. PICK returned \in Returns, simulated \in Returns, bought \in Returns,
           unfilled \in Leftovers, unspent \in Leftovers, minReturn \in MinReturns :
        Reallocate(from, to, target, minReturn, simulated, returned,
                   unfilled, bought, unspent)
  BY DEF ReallocateStep
<1>2. /\ target \in Nat /\ returned \in Nat /\ simulated \in Nat /\ bought \in Nat
      /\ unfilled \in Nat /\ unspent \in Nat /\ minReturn \in Nat
  BY FixedAssumptions
<1>3. /\ vault' \in [Coins -> Nat]
      /\ \A e \in Denoms \ {from} : vault'[e] >= vault[e]
      /\ vault'[from] >= vault[from] - Sale(from, target)
      /\ weight' = Rebalanced(listed, weight, vault', supply')
      /\ supply' = supply + AumDue
  BY <1>1, <1>2, BothLegs DEF IInv
<1>4. AumDue \in Nat /\ supply' \in Nat
  BY <1>3, AumDueType DEF IInv, TypeOK
<1>5. listed \in SUBSET Denoms /\ weight \in [Denoms -> Nat]
  BY DEF IInv, TypeOK
<1>6. /\ d \in Denoms /\ d \in Coins /\ weight[d] \in Nat /\ vault[d] \in Nat
      /\ supply \in Nat /\ weight[d] * supply <= vault[d]
      /\ weight[d] * supply \in Nat /\ vault'[d] \in Nat
  BY <1>3, CoveredDenom
<1>7. CASE vault'[d] >= vault[d]
  <2>1. /\ Diluted(weight[d]) \in Nat /\ Diluted(weight[d]) <= weight[d]
        /\ Diluted(weight[d]) * supply' <= weight[d] * supply
    BY <1>3, <1>6, DilutedBounds DEF IInv
  <2>2. Diluted(weight[d]) * supply' <= vault'[d]
    BY <1>3, <1>4, <1>6, <1>7, <2>1
  <2>3. Diluted(weight[d]) <= weight'[d]
    BY <1>3, <1>4, <1>5, <2>1, <2>2, RebalancedAtLeast
  <2>4. weight'[d] \in Nat
    BY <1>3, <1>4, <1>5, <1>6, RebalancedType
  <2> QED
    BY <2>1, <2>3, <2>4
<1>8. CASE vault'[d] < vault[d]
  <2> d = from
    BY <1>3, <1>6, <1>8
  <2>1. target < weight[d]
    BY <1>1, <1>2, <1>6 DEF Reallocate, MayReallocate
  <2>2. Sale(d, target) = weight[d] * supply - target * supply
    <3>1. (weight[d] - target) * supply = weight[d] * supply - target * supply
      BY <1>2, <1>6, Z3
    <3> QED
      BY <3>1 DEF Sale
  <2>3. vault[d] - vault'[d] <= Sale(d, target)
    <3>1. target * supply \in Nat
      BY <1>2, <1>6
    <3> QED
      BY <1>2, <1>3, <1>6, <2>2, <3>1
  <2>4. Sold(d, target)
    BY <1>3, <1>8, <2>1, <2>3 DEF Sold
  <2>5. ASSUME NEW t \in Weights, Sold(d, t) PROVE weight'[d] >= Diluted(t)
    BY <1>3, <2>5, SoldKeeps
  <2> QED
    BY <2>4, <2>5
<1> QED
  BY <1>6, <1>7, <1>8

\* A new allocation rebalances the old ones over the supply as it stands.
LEMMA AddAllocationKeeps ==
    ASSUME IInv, NEW new \in Denoms, AddAllocation(new), NEW d \in listed \ stale
    PROVE  weight'[d] >= Diluted(weight[d])
<1> DEFINE w == [weight EXCEPT ![new] = 0]
<1>1. /\ new \notin listed
      /\ weight' = Rebalanced(listed \cup {new}, w, vault, supply)
  BY DEF AddAllocation
<1>2. /\ d \in Denoms /\ weight[d] \in Nat /\ supply \in Nat
      /\ weight[d] * supply <= vault[d]
  BY CoveredDenom
<1>3. w \in [Denoms -> Nat] /\ w[d] = weight[d]
  BY <1>1, <1>2 DEF IInv, TypeOK
<1>4. listed \cup {new} \in SUBSET Denoms /\ vault \in [Coins -> Nat]
  BY DEF IInv, TypeOK
<1> HIDE DEF w
<1>5. weight[d] <= weight'[d]
  BY <1>1, <1>2, <1>3, <1>4, RebalancedAtLeast
<1>6. weight'[d] \in Nat
  BY <1>1, <1>2, <1>3, <1>4, RebalancedType
<1>7. Diluted(weight[d]) \in Nat /\ Diluted(weight[d]) <= weight[d]
  BY <1>2, DilutedBounds DEF IInv
<1> QED
  BY <1>2, <1>5, <1>6, <1>7

\* Every step keeps the weights, by cases on the action.
LEMMA NextKeeps == ASSUME IInv, [Next]_vars PROVE KeepsWeightStep
<1> SUFFICES ASSUME NEW d \in (listed \cap listed') \ (stale \cup stale')
             PROVE  \/ weight'[d] >= Diluted(weight[d])
                    \/ /\ \E target \in Weights : Sold(d, target)
                       /\ \A target \in Weights :
                              Sold(d, target) => weight'[d] >= Diluted(target)
  BY DEF KeepsWeightStep
<1>1. d \in listed \ stale
  OBVIOUS
<1>2. CASE UserStep
  BY <1>1, <1>2, DepositKeeps, WithdrawKeeps, RunKeeps DEF UserStep
<1>3. CASE SudoStep
  <2>1. ASSUME NEW from \in Denoms, NEW to \in Denoms, NEW target \in Weights,
               ReallocateStep(from, to, target)
        PROVE  \/ weight'[d] >= Diluted(weight[d])
               \/ /\ \E t \in Weights : Sold(d, t)
                  /\ \A t \in Weights : Sold(d, t) => weight'[d] >= Diluted(t)
    BY <1>1, <2>1, ReallocateKeeps
  <2>2. ASSUME NEW from \in Denoms, NEW to \in Denoms, NEW target \in Weights,
               ReallocateUnanswered(from, to, target)
        PROVE  weight'[d] >= Diluted(weight[d])
    BY <1>1, <2>2, SameWeight DEF ReallocateUnanswered
  <2>3. ASSUME NEW r \in RateChoices, NEW c \in Collectors, UpdateFees(r, c)
        PROVE  weight'[d] >= Diluted(weight[d])
    BY <1>1, <2>3, SameWeight DEF UpdateFees
  <2>4. ASSUME NEW new \in Denoms, AddAllocation(new)
        PROVE  weight'[d] >= Diluted(weight[d])
    BY <1>1, <2>4, AddAllocationKeeps
  <2>5. ASSUME NEW old \in Denoms, RemoveAllocation(old)
        PROVE  weight'[d] >= Diluted(weight[d])
    BY <1>1, <2>5, SameWeight DEF RemoveAllocation
  <2> QED
    BY <1>3, <2>1, <2>2, <2>3, <2>4, <2>5 DEF SudoStep
<1>4. CASE \E c \in Coins, x \in Amounts : Donate(c, x)
  BY <1>1, <1>4, SameWeight DEF Donate
<1>5. CASE \E x, y \in Accounts, s \in 1 .. MaxSupply : Transfer(x, y, s)
  BY <1>1, <1>5, SameWeight DEF Transfer
<1>6. CASE Tick
  BY <1>1, <1>6, SameWeight DEF Tick
<1>7. CASE UNCHANGED vars
  BY <1>1, <1>7, SameWeight DEF vars
<1> QED
  BY <1>2, <1>3, <1>4, <1>5, <1>6, <1>7 DEF Next

\* No interleaving of deposits, withdrawals, runs and governance lowers what a
\* share stands for below the AUM dilution of the step itself, but for the one
\* denom of which a step that burns no share sold some, and which keeps every
\* target the sale did not go below.
THEOREM WeightsKept == Spec => KeepsWeight
<1>1. Init => IInv
  BY InitInv
<1>2. IInv /\ [Next]_vars => IInv'
  BY NextInv
<1>3. IInv /\ [Next]_vars => [KeepsWeightStep]_vars
  BY NextKeeps
<1> QED
  BY <1>1, <1>2, <1>3, PTL DEF Spec, KeepsWeight

-----------------------------------------------------------------------------
(* Withdrawals are paid pro rata.                                          *)

\* A payout of v \div total units for each of net shares, out of total.
LEMMA ProRataPayout ==
    ASSUME NEW v \in Nat, NEW total \in Nat, total > 0, NEW net \in Nat
    PROVE  /\ ((v \div total) * net) * total <= v * net
           /\ ((v \div total) * net + net) * total >= v * net
<1> DEFINE q == v \div total
<1>1. q \in Nat /\ q * total <= v /\ v < (q + 1) * total
  BY FloorDivision
<1> HIDE DEF q
<1>2. q * total \in Nat /\ (q + 1) * total \in Nat
  BY <1>1
<1>3. (q * total) * net <= v * net
  BY <1>1, <1>2, TimesMonotone
<1>4. v * net <= ((q + 1) * total) * net
  BY <1>1, <1>2, TimesMonotone
<1>5. (q * net) * total = (q * total) * net
  BY <1>1, Z3
<1>6. (q * net + net) * total = ((q + 1) * total) * net
  BY <1>1, Z3
<1>7. ((q * net) * total <= v * net) /\ ((q * net + net) * total >= v * net)
  BY <1>3, <1>4, <1>5, <1>6
<1> QED
  BY <1>7 DEF q

\* A withdrawal pays its share of every listed balance, short by the rounding of the weights.
LEMMA WithdrawProRata == ASSUME IInv PROVE ProRataStep
<1> SUFFICES ASSUME NEW u \in Accounts, NEW s \in 1 .. MaxSupply, Withdraw(u, s)
             PROVE  LET total   == supply + AumDue
                        burned  == total - supply'
                        paid(c) == vault[c] - vault'[c]
                    IN  /\ \A d \in listed : /\ paid(d) * total <= vault[d] * burned
                                             /\ (paid(d) + burned) * total >= vault[d] * burned
                        /\ \A c \in Coins \ listed : paid(c) = 0
  BY DEF ProRataStep
<1> DEFINE net   == s - TxFee(rates.transaction, s)
           total == supply + AumDue
           w     == Rebalanced(listed, weight, vault, total)
<1>1. /\ TxFee(rates.transaction, s) <= s /\ net <= total
      /\ vault' = [c \in Coins |-> vault[c] - Payout(w, net)[c]]
      /\ supply' = total - net
  BY DEF Withdraw, MayWithdraw
<1>2. AumDue \in Nat /\ s \in Nat
  BY AumDueType, FixedAssumptions DEF IInv
<1>3. TxFee(rates.transaction, s) \in Nat
  BY <1>2, FeeType DEF IInv, TypeOK, FeeRates
<1>4. net \in Nat /\ total \in Nat /\ total - supply' = net
  BY <1>1, <1>2, <1>3 DEF IInv, TypeOK
<1>5. ASSUME NEW d \in listed
      PROVE  /\ (vault[d] - vault'[d]) * total <= vault[d] * net
             /\ ((vault[d] - vault'[d]) + net) * total >= vault[d] * net
  <2>1. d \in Denoms /\ d \in Coins /\ vault[d] \in Nat /\ weight[d] \in Nat
    BY DEF IInv, TypeOK, Coins
  <2>2. vault[d] - vault'[d] = w[d] * net
    <3>1. Payout(w, net)[d] = w[d] * net
      BY <2>1 DEF Payout
    <3>2. w[d] \in Nat
      BY <1>4, <2>1, RebalancedType DEF IInv, TypeOK
    <3>3. w[d] * net \in Nat
      BY <1>4, <3>2
    <3> HIDE DEF w, net, total
    <3> QED
      BY <1>1, <2>1, <3>1, <3>3
  <2>3. CASE total > 0
    <3>1. w[d] = vault[d] \div total
      BY <2>1, <2>3 DEF Rebalanced
    <3> HIDE DEF w, net, total
    <3> QED
      BY <1>4, <2>1, <2>2, <2>3, <3>1, ProRataPayout
  <2>4. CASE total = 0
    <3>1. net = 0
      BY <1>1, <1>4, <2>4
    <3>2. vault[d] - vault'[d] = 0
      <4>1. w[d] \in Nat
        BY <1>4, <2>1, RebalancedType DEF IInv, TypeOK
      <4> HIDE DEF w, net, total
      <4> QED
        BY <2>2, <3>1, <4>1
    <3> HIDE DEF w, net, total
    <3> QED
      BY <2>1, <2>4, <3>1, <3>2
  <2> HIDE DEF total
  <2> QED
    BY <1>4, <2>3, <2>4
<1>6. ASSUME NEW c \in Coins \ listed PROVE vault[c] - vault'[c] = 0
  BY <1>1 DEF IInv, TypeOK, Payout
<1> HIDE DEF net, total, w
<1>7. total - supply' = net
  BY <1>4
<1> QED
  BY <1>5, <1>6, <1>7 DEF total

\* In every behaviour a withdrawal is paid its share of the vault, short of it
\* by no more than one unit per share.
THEOREM WithdrawalsProRata == Spec => PaysProRata
<1>1. Init => IInv
  BY InitInv
<1>2. IInv /\ [Next]_vars => IInv'
  BY NextInv
<1>3. IInv => [ProRataStep]_vars
  BY WithdrawProRata
<1> QED
  BY <1>1, <1>2, <1>3, PTL DEF Spec, PaysProRata

-----------------------------------------------------------------------------
(* Receipt tokens are counted as a set, since a sum over the accounts      *)
(* would be a recursive definition.                                        *)

Tokens(f) == UNION {{a} \X (1 .. f[a]) : a \in Accounts}

Counts(f, n) == IsFiniteSet(Tokens(f)) /\ Cardinality(Tokens(f)) = n

\* Tokens credited to an account are counted.
LEMMA CreditCounts ==
    ASSUME NEW f \in [Accounts -> Nat], NEW a \in Accounts, NEW n \in Nat, NEW k,
           Counts(f, k)
    PROVE  k \in Nat /\ Counts(Credit(f, a, n), k + n)
<1> DEFINE more == {a} \X (f[a] + 1 .. f[a] + n)
<1>1. k \in Nat
  BY FS_CardinalityType DEF Counts
<1>2. Tokens(Credit(f, a, n)) = Tokens(f) \cup more
  <2>1. ASSUME NEW t \in Tokens(Credit(f, a, n)) PROVE t \in Tokens(f) \cup more
    <3>1. PICK x \in Accounts : t \in {x} \X (1 .. Credit(f, a, n)[x])
      BY <2>1 DEF Tokens
    <3>2. CASE x = a
      BY <3>1, <3>2 DEF Tokens, Credit
    <3>3. CASE x # a
      BY <3>1, <3>3 DEF Tokens, Credit
    <3> QED
      BY <3>2, <3>3
  <2>2. ASSUME NEW t \in Tokens(f) PROVE t \in Tokens(Credit(f, a, n))
    <3>1. PICK x \in Accounts : t \in {x} \X (1 .. f[x])
      BY <2>2 DEF Tokens
    <3>2. f[x] \in Nat /\ Credit(f, a, n)[x] \in Nat /\ f[x] <= Credit(f, a, n)[x]
      BY DEF Credit
    <3>3. t \in {x} \X (1 .. Credit(f, a, n)[x])
      BY <3>1, <3>2
    <3> QED
      BY <3>3 DEF Tokens
  <2>3. ASSUME NEW t \in more PROVE t \in Tokens(Credit(f, a, n))
    <3>1. t \in {a} \X (1 .. Credit(f, a, n)[a])
      BY <2>3 DEF Credit
    <3> QED
      BY <3>1 DEF Tokens
  <2> HIDE DEF more
  <2> QED
    BY <2>1, <2>2, <2>3
<1>3. Tokens(f) \cap more = {}
  <2> SUFFICES ASSUME NEW t \in Tokens(f), t \in more PROVE FALSE
    OBVIOUS
  <2>1. PICK x \in Accounts : t \in {x} \X (1 .. f[x])
    BY DEF Tokens
  <2>2. t[1] = a /\ t[1] = x /\ t[2] >= f[a] + 1 /\ t[2] <= f[x] /\ t[2] \in Int
    BY <2>1
  <2> QED
    BY <2>2
<1>4. IsFiniteSet(more) /\ Cardinality(more) = n
  <2>1. IsFiniteSet({a}) /\ Cardinality({a}) = 1
    BY FS_Singleton
  <2>2. /\ IsFiniteSet(f[a] + 1 .. f[a] + n)
        /\ Cardinality(f[a] + 1 .. f[a] + n) = n
    <3>1. f[a] + 1 \in Int /\ f[a] + n \in Int
      OBVIOUS
    <3>2. /\ IsFiniteSet(f[a] + 1 .. f[a] + n)
          /\ Cardinality(f[a] + 1 .. f[a] + n)
                 = IF f[a] + 1 > f[a] + n THEN 0 ELSE (f[a] + n) - (f[a] + 1) + 1
      BY <3>1, FS_Interval
    <3> QED
      BY <3>2
  <2>3. IsFiniteSet(more) /\ Cardinality(more) = 1 * n
    BY <2>1, <2>2, FS_Product
  <2> QED
    BY <2>3
<1> HIDE DEF more
<1>5. /\ IsFiniteSet(Tokens(f) \cup more)
      /\ Cardinality(Tokens(f) \cup more)
             = Cardinality(Tokens(f)) + Cardinality(more) - Cardinality(Tokens(f) \cap more)
  BY <1>4, FS_Union DEF Counts
<1>6. Cardinality(Tokens(f) \cap more) = 0
  BY <1>3, FS_EmptySet
<1>7. Cardinality(Tokens(f)) = k
  BY DEF Counts
<1>8. Cardinality(Tokens(f) \cup more) = k + n
  BY <1>1, <1>4, <1>5, <1>6, <1>7
<1> QED
  BY <1>1, <1>2, <1>5, <1>8 DEF Counts

\* So are tokens that an account gives away.
LEMMA DebitCounts ==
    ASSUME NEW f \in [Accounts -> Nat], NEW a \in Accounts, NEW n \in Nat, n <= f[a],
           NEW k, Counts(f, k)
    PROVE  /\ k \in Nat
           /\ [f EXCEPT ![a] = @ - n] \in [Accounts -> Nat]
           /\ Counts([f EXCEPT ![a] = @ - n], k - n)
<1> DEFINE g == [f EXCEPT ![a] = @ - n]
<1>1. g \in [Accounts -> Nat] /\ Credit(g, a, n) = f
  <2>1. g \in [Accounts -> Nat] /\ g[a] = f[a] - n /\ \A x \in Accounts \ {a} : g[x] = f[x]
    OBVIOUS
  <2> HIDE DEF g
  <2>2. [g EXCEPT ![a] = @ + n] \in [Accounts -> Nat]
    BY <2>1
  <2>3. \A x \in Accounts : [g EXCEPT ![a] = @ + n][x] = f[x]
    BY <2>1
  <2>4. [g EXCEPT ![a] = @ + n] = f
    BY <2>2, <2>3
  <2> QED
    BY <2>1, <2>4 DEF Credit
<1>2. \A x \in Accounts : g[x] \in Nat /\ f[x] \in Nat /\ g[x] <= f[x]
  OBVIOUS
<1> HIDE DEF g
<1>3. Tokens(g) \subseteq Tokens(f)
  <2> SUFFICES ASSUME NEW t \in Tokens(g) PROVE t \in Tokens(f)
    OBVIOUS
  <2>1. PICK x \in Accounts : t \in {x} \X (1 .. g[x])
    BY DEF Tokens
  <2>2. t \in {x} \X (1 .. f[x])
    BY <1>2, <2>1
  <2> QED
    BY <2>2 DEF Tokens
<1>4. IsFiniteSet(Tokens(g))
  BY <1>3, FS_Subset DEF Counts
<1>5. PICK m \in Nat : Counts(g, m)
  BY <1>4, FS_CardinalityType DEF Counts
<1>6. Counts(f, m + n)
  BY <1>1, <1>5, CreditCounts
<1>7. k = m + n
  BY <1>6 DEF Counts
<1> QED
  BY <1>1, <1>5, <1>7 DEF g

\* No account holds more tokens than there are.
LEMMA CountsBound ==
    ASSUME NEW f \in [Accounts -> Nat], NEW a \in Accounts, NEW k, Counts(f, k)
    PROVE  k \in Nat /\ f[a] <= k
<1> DEFINE mine == {a} \X (1 .. f[a])
<1>1. k \in Nat
  BY FS_CardinalityType DEF Counts
<1>2. mine \in SUBSET Tokens(f)
  BY DEF Tokens
<1>3. Cardinality(mine) = f[a]
  <2>1. IsFiniteSet({a}) /\ Cardinality({a}) = 1
    BY FS_Singleton
  <2>2. IsFiniteSet(1 .. f[a]) /\ Cardinality(1 .. f[a]) = f[a]
    BY FS_Interval
  <2>3. IsFiniteSet(mine) /\ Cardinality(mine) = 1 * f[a]
    BY <2>1, <2>2, FS_Product
  <2> QED
    BY <2>3
<1> HIDE DEF mine
<1>4. Cardinality(mine) <= Cardinality(Tokens(f))
  BY <1>2, FS_Subset DEF Counts
<1> QED
  BY <1>1, <1>3, <1>4 DEF Counts

\* Nobody holds any token at first.
LEMMA NoneCount == Counts([a \in Accounts |-> 0], 0)
<1>1. Tokens([a \in Accounts |-> 0]) = {}
  BY DEF Tokens
<1> QED
  BY <1>1, FS_EmptySet DEF Counts

-----------------------------------------------------------------------------
(* Every holder can leave.                                                 *)

\* The receipt tokens held are the supply, and no fee is above one: what a
\* withdrawal needs beside IInv.
Held == Counts(shares, supply) /\ ValidRates(rates)

\* A rate of at most one never keeps more than the amount.
LEMMA FeeWithin ==
    ASSUME NEW rate \in Nat, rate <= One, NEW s \in Nat
    PROVE  TxFee(rate, s) \in Nat /\ TxFee(rate, s) <= s
<1> DEFINE x == s * One
           y == x * rate
           z == y \div One
           q == (z + One - 1) \div One
<1>1. One \in Nat /\ One > 0 /\ x \in Nat
  BY OneAssumption
<1>2. y \in Nat /\ x * One \in Nat /\ y <= x * One
  <2> HIDE DEF x
  <2>1. y \in Nat /\ x * One \in Nat
    BY <1>1
  <2>2. rate * x <= One * x
    BY <1>1, TimesMonotone
  <2> QED
    BY <1>1, <2>1, <2>2
<1>3. z \in Nat /\ z * One <= y
  <2> HIDE DEF y
  <2> QED
    BY <1>1, <1>2, FloorDivision
<1>4. z <= x
  <2> HIDE DEF x, y, z
  <2>1. SUFFICES ASSUME z > x PROVE FALSE
    BY <1>1, <1>3
  <2>2. (x + 1) * One <= z * One
    BY <1>1, <1>3, <2>1, TimesMonotone
  <2>3. (x + 1) * One = x * One + One
    BY <1>1
  <2> QED
    BY <1>1, <1>2, <1>3, <2>2, <2>3
<1>5. q \in Nat /\ q * One <= z + One - 1
  <2> HIDE DEF z
  <2>1. z + One - 1 \in Nat
    BY <1>1, <1>3
  <2> QED
    BY <1>1, <2>1, FloorDivision
<1>6. q <= s
  <2> HIDE DEF q, z
  <2>1. SUFFICES ASSUME q > s PROVE FALSE
    BY <1>5
  <2>2. (s + 1) * One <= q * One
    BY <1>1, <1>5, <2>1, TimesMonotone
  <2>3. (s + 1) * One = x + One
    BY <1>1
  <2> HIDE DEF x
  <2> QED
    BY <1>1, <1>3, <1>4, <1>5, <2>2, <2>3
<1>7. FromRatio(s, 1) = x
  <2>1. x \div 1 = x
    <3> HIDE DEF x
    <3> QED
      BY <1>1
  <2> QED
    BY <2>1 DEF FromRatio
<1>8. TxFee(rate, s) = q
  BY <1>7 DEF TxFee, DecMul, ToCeil
<1> QED
  BY <1>5, <1>6, <1>8

\* A mint is counted for the account that it credits.
LEMMA MintCounts ==
    ASSUME IInv, Held, NEW n \in Nat,
           shares' = Credit(shares, collector, n), supply' = supply + n
    PROVE  Counts(shares', supply')
BY CreditCounts DEF IInv, TypeOK, Held

LEMMA InitHeld == Init => Held
BY NoneCount DEF Init, Held

LEMMA DepositHeld ==
    ASSUME IInv, Held, NEW u \in Accounts, NEW funds \in Funds, Deposit(u, funds)
    PROVE  Held'
<1>1. PICK n \in 1 .. MaxSupply :
        /\ supply' = supply + AumDue + n
        /\ shares' = Credit(Credit(shares, u, n), collector, AumDue)
        /\ rates' = rates
  BY DEF Deposit
<1>2. n \in Nat /\ AumDue \in Nat
  BY AumDueType, FixedAssumptions DEF IInv
<1>3. supply \in Nat /\ shares \in [Accounts -> Nat] /\ collector \in Accounts
  BY DEF IInv, TypeOK
<1>4. Credit(shares, u, n) \in [Accounts -> Nat]
  BY <1>2, <1>3, CreditType
<1>5. Counts(Credit(shares, u, n), supply + n)
  BY <1>2, <1>3, CreditCounts DEF Held
<1>6. Counts(shares', supply + n + AumDue)
  BY <1>1, <1>2, <1>3, <1>4, <1>5, CreditCounts
<1>7. supply + n + AumDue = supply'
  BY <1>1, <1>2, <1>3
<1> QED
  BY <1>1, <1>6, <1>7 DEF Held, ValidRates

LEMMA WithdrawHeld ==
    ASSUME IInv, Held, NEW u \in Accounts, NEW s \in 1 .. MaxSupply, Withdraw(u, s)
    PROVE  Held'
<1> DEFINE fee   == AumDue
           burn  == TxFee(rates.transaction, s)
           net   == s - burn
           total == supply + fee
           rest  == [shares EXCEPT ![u] = @ - s]
<1>1. /\ s <= shares[u]
      /\ supply' = total - net
      /\ shares' = Credit([shares EXCEPT ![u] = @ - s], collector, burn + fee)
      /\ UNCHANGED <<listed, rates, collector>>
  BY DEF Withdraw, MayWithdraw
<1>2. s \in Nat /\ fee \in Nat
  BY AumDueType, FixedAssumptions DEF IInv
<1>3. supply \in Nat /\ shares \in [Accounts -> Nat] /\ collector \in Accounts
  BY DEF IInv, TypeOK
<1>4. burn \in Nat
  BY <1>2, FeeType DEF IInv, TypeOK, FeeRates
<1>5. rest \in [Accounts -> Nat] /\ Counts(rest, supply - s) /\ supply - s \in Nat
  <2>1. rest \in [Accounts -> Nat] /\ Counts(rest, supply - s)
    BY <1>1, <1>2, <1>3, DebitCounts DEF Held
  <2>2. s <= supply
    BY <1>1, <1>2, <1>3, CountsBound DEF Held
  <2> QED
    BY <1>2, <1>3, <2>1, <2>2
<1> HIDE DEF fee, burn, rest
<1>6. Counts(shares', supply - s + (burn + fee))
  <2>1. burn + fee \in Nat
    BY <1>2, <1>4
  <2> QED
    BY <1>1, <1>3, <1>5, <2>1, CreditCounts DEF rest
<1>7. supply - s + (burn + fee) = supply'
  BY <1>1, <1>2, <1>3, <1>4
<1> QED
  BY <1>1, <1>6, <1>7 DEF Held, ValidRates

LEMMA TransferHeld ==
    ASSUME IInv, Held, NEW a \in Accounts, NEW b \in Accounts, NEW s \in 1 .. MaxSupply,
           Transfer(a, b, s)
    PROVE  Held'
<1> DEFINE rest == [shares EXCEPT ![a] = @ - s]
<1>1. s <= shares[a] /\ shares' = Credit(rest, b, s) /\ supply' = supply /\ rates' = rates
  BY DEF Transfer
<1>2. s \in Nat
  BY FixedAssumptions
<1>3. supply \in Nat /\ shares \in [Accounts -> Nat]
  BY DEF IInv, TypeOK
<1>4. rest \in [Accounts -> Nat] /\ Counts(rest, supply - s)
  BY <1>1, <1>2, <1>3, DebitCounts DEF Held
<1> HIDE DEF rest
<1>5. Counts(shares', supply - s + s)
  BY <1>1, <1>2, <1>4, CreditCounts
<1>6. supply - s + s = supply'
  BY <1>1, <1>2, <1>3
<1> QED
  BY <1>1, <1>5, <1>6 DEF Held, ValidRates

LEMMA NextHeld == ASSUME IInv, Held, [Next]_vars PROVE Held'
<1> USE DEF Held, ValidRates
<1>1. ASSUME NEW u \in Accounts, NEW funds \in Funds, Deposit(u, funds) PROVE Held'
  BY <1>1, DepositHeld
<1>2. ASSUME NEW u \in Accounts, NEW s \in 1 .. MaxSupply, Withdraw(u, s) PROVE Held'
  BY <1>2, WithdrawHeld
<1>3. CASE Run
  BY <1>3, AumDueType, MintCounts DEF Run, IInv
<1>4. ASSUME NEW from \in Denoms, NEW to \in Denoms, NEW target \in Weights,
             ReallocateStep(from, to, target)
      PROVE  Held'
  <2>1. shares' = Credit(shares, collector, AumDue) /\ supply' = supply + AumDue
        /\ rates' = rates
    BY <1>4 DEF ReallocateStep, Reallocate
  <2> QED
    BY <2>1, AumDueType, MintCounts DEF IInv
<1>5. ASSUME NEW from \in Denoms, NEW to \in Denoms, NEW target \in Weights,
             ReallocateUnanswered(from, to, target)
      PROVE  Held'
  BY <1>5 DEF ReallocateUnanswered
<1>6. ASSUME NEW r \in RateChoices, NEW c \in Collectors, UpdateFees(r, c) PROVE Held'
  BY <1>6 DEF UpdateFees
<1>7. ASSUME NEW d \in Denoms, AddAllocation(d) \/ RemoveAllocation(d) PROVE Held'
  BY <1>7 DEF AddAllocation, RemoveAllocation
<1>8. ASSUME NEW c \in Coins, NEW x \in Amounts, Donate(c, x) PROVE Held'
  BY <1>8 DEF Donate
<1>9. ASSUME NEW a \in Accounts, NEW b \in Accounts, NEW s \in 1 .. MaxSupply,
             Transfer(a, b, s)
      PROVE  Held'
  BY <1>9, TransferHeld
<1>10. CASE Tick
  BY <1>10 DEF Tick
<1>11. CASE UNCHANGED vars
  BY <1>11 DEF vars
<1> QED
  BY <1>1, <1>2, <1>3, <1>4, <1>5, <1>6, <1>7, <1>8, <1>9, <1>10, <1>11
     DEF Next, UserStep, SudoStep

\* A holding can be withdrawn in any part: the fee is within it, its shares
\* within the supply, what they are paid within the vault, and one denom of
\* which there is a unit for each share pays something.
LEMMA CanLeave == ASSUME IInv, Held PROVE Redeemable
<1> SUFFICES ASSUME NEW u \in Accounts, NEW s \in 1 .. shares[u], WorthLeaving(s)
             PROVE  MayWithdraw(u, s)
  BY DEF Redeemable
<1> DEFINE burn  == TxFee(rates.transaction, s)
           net   == s - burn
           total == supply + AumDue
           w     == Rebalanced(listed, weight, vault, total)
           paid  == Payout(w, net)
<1>1. /\ listed \in SUBSET Denoms /\ weight \in [Denoms -> Nat] /\ vault \in [Coins -> Nat]
      /\ supply \in Nat /\ shares \in [Accounts -> Nat] /\ AumDue \in Nat
  BY AumDueType DEF IInv, TypeOK
<1>2. s \in Nat /\ s > 0 /\ s <= shares[u]
  BY <1>1
<1>3. s <= supply
  BY <1>1, <1>2, CountsBound DEF Held
<1>4. burn \in Nat /\ burn <= s
  BY <1>2, FeeWithin DEF Held, ValidRates, IInv, TypeOK, FeeRates
<1> HIDE DEF burn
<1>5. /\ net \in Nat /\ total \in Nat /\ net <= total /\ total > 0
      /\ total - net <= MaxSupply
      /\ net > 0 => \E d \in listed : vault[d] >= total
  BY <1>1, <1>2, <1>3, <1>4 DEF burn, WorthLeaving
<1> HIDE DEF net, total
<1>6. \A d \in listed : /\ d \in Coins /\ vault[d] \in Nat /\ w[d] = vault[d] \div total
                        /\ w[d] \in Nat /\ w[d] * total <= vault[d]
  <2> SUFFICES ASSUME NEW d \in listed
               PROVE  /\ d \in Coins /\ vault[d] \in Nat /\ w[d] = vault[d] \div total
                      /\ w[d] \in Nat /\ w[d] * total <= vault[d]
    OBVIOUS
  <2>1. d \in Denoms /\ d \in Coins /\ vault[d] \in Nat
    BY <1>1 DEF Coins
  <2>2. w[d] = vault[d] \div total
    BY <1>5, <2>1 DEF Rebalanced
  <2> QED
    BY <1>5, <2>1, <2>2, FloorDivision
<1> HIDE DEF w
<1>7. \A c \in Coins : paid[c] <= vault[c]
  <2> SUFFICES ASSUME NEW c \in Coins PROVE paid[c] <= vault[c]
    OBVIOUS
  <2>1. CASE c \in listed
    <3>1. paid[c] = w[c] * net
      BY <2>1 DEF Payout
    <3>2. net * w[c] <= total * w[c]
      BY <1>5, <1>6, <2>1, TimesMonotone
    <3> QED
      BY <1>5, <1>6, <2>1, <3>1, <3>2
  <2>2. CASE c \notin listed
    BY <1>1, <2>2 DEF Payout
  <2> QED
    BY <2>1, <2>2
<1>8. ASSUME net > 0 PROVE \E c \in Coins : paid[c] > 0
  <2>1. PICK d \in listed : vault[d] >= total
    BY <1>5, <1>8
  <2>2. w[d] >= 1
    <3>1. 1 * total <= vault[d]
      BY <1>5, <2>1
    <3> QED
      BY <1>5, <1>6, <3>1, FloorLargest
  <2>3. paid[d] = w[d] * net
    BY <1>6 DEF Payout
  <2>4. w[d] * net \in Nat /\ 1 * net <= w[d] * net
    BY <1>5, <1>6, <2>2, TimesMonotone
  <2>5. paid[d] > 0
    BY <1>5, <1>8, <2>3, <2>4
  <2> QED
    BY <1>6, <2>5
<1> HIDE DEF paid
<1> QED
  BY <1>2, <1>4, <1>5, <1>7, <1>8 DEF MayWithdraw, paid, w, net, burn, total

\* Redeemable: every holder can withdraw any part of a holding, whatever was
\* deposited, withdrawn, sold, listed or sent before.
THEOREM HoldersCanLeave == Spec => []Redeemable
<1>1. Init => IInv /\ Held
  BY InitInv, InitHeld
<1>2. IInv /\ Held /\ [Next]_vars => (IInv /\ Held)'
  BY NextInv, NextHeld
<1>3. IInv /\ Held => Redeemable
  BY CanLeave
<1> QED
  BY <1>1, <1>2, <1>3, PTL DEF Spec

=============================================================================
