--------------------------- MODULE IndexNavProofs ---------------------------
(***************************************************************************)
(* Theorems about IndexNav, for every value of its constants. The values   *)
(* are sums over the listed coins. What the proofs need of a sum is how it *)
(* grows from one coin to the next; everything else is said of a function  *)
(* of the coin that starts at zero or more and stays there (StaysUp).      *)
(***************************************************************************)
EXTENDS IndexNav, FiniteSetTheorems, NaturalsInduction, WellFoundedInduction, TLAPS

-----------------------------------------------------------------------------
(* Sums                                                                    *)

\* A set of natural numbers that is not empty has a least member.
LEMMA LeastMember ==
    ASSUME NEW S \in SUBSET Nat, S # {}
    PROVE  \E r \in S : \A q \in S : r <= q
<1> DEFINE R == OpToRel(<, Nat)
<1>1. IsWellFoundedOn(R, Nat)
  BY NatLessThanWellFounded, Zenon
<1>2. PICK r \in S : \A q \in S : ~ (<<q, r>> \in R)
  <2> HIDE DEF R
  <2> QED
    BY <1>1, WFMin, Zenon
<1>3. \A q \in S : ~ (q < r)
  BY <1>2 DEF OpToRel
<1> QED
  BY <1>3

\* What is not negative at first, and does not become so in a step, never is.
LEMMA StaysUp ==
    ASSUME NEW n \in Nat, NEW H, \A c \in 0 .. n : H[c] \in Int,
           H[0] >= 0, \A c \in 1 .. n : H[c - 1] >= 0 => H[c] >= 0
    PROVE  \A c \in 0 .. n : H[c] >= 0
<1> DEFINE Below == {c \in 0 .. n : H[c] < 0}
<1> SUFFICES ASSUME Below # {} PROVE FALSE
  OBVIOUS
<1>1. PICK c \in Below : \A b \in Below : c <= b
  <2>1. Below \in SUBSET Nat
    OBVIOUS
  <2> HIDE DEF Below
  <2> QED
    BY <2>1, LeastMember
<1>2. c \in 0 .. n /\ H[c] < 0
  BY <1>1
<1>3. c \in 1 .. n /\ c - 1 \in 0 .. n
  BY <1>2
<1>4. c - 1 \notin Below
  BY <1>1, <1>3
<1>5. H[c - 1] >= 0
  BY <1>3, <1>4
<1> QED
  BY <1>2, <1>3, <1>5

\* A function of 0 .. n can be defined by its steps.
LEMMA Recursion ==
    ASSUME NEW n \in Nat, NEW h \in [0 .. n -> [Int -> Int]]
    PROVE  \E g \in [0 .. n -> Int] :
               g = [c \in 0 .. n |-> h[c][IF c = 0 THEN 0 ELSE g[c - 1]]]
<1> DEFINE Follows(g, m) == /\ g \in [0 .. m -> Int]
                            /\ \A c \in 0 .. m : g[c] = h[c][IF c = 0 THEN 0 ELSE g[c - 1]]
           Missing == {m \in 0 .. n : ~ \E g : Follows(g, m)}
<1>1. \A c \in 0 .. n, x \in Int : h[c][x] \in Int
  OBVIOUS
<1>2. Follows([c \in 0 .. 0 |-> h[0][0]], 0)
  <2>1. h[0][0] \in Int
    BY <1>1
  <2> QED
    BY <2>1
<1>3. ASSUME NEW m \in 1 .. n, NEW f, Follows(f, m - 1)
      PROVE  Follows([c \in 0 .. m |-> IF c = m THEN h[m][f[m - 1]] ELSE f[c]], m)
  <2> DEFINE g == [c \in 0 .. m |-> IF c = m THEN h[m][f[m - 1]] ELSE f[c]]
  <2>1. f \in [0 .. m - 1 -> Int]
    BY <1>3
  <2>2. f[m - 1] \in Int /\ h[m][f[m - 1]] \in Int
    BY <1>1, <2>1
  <2>3. g \in [0 .. m -> Int]
    <3> SUFFICES ASSUME NEW c \in 0 .. m
                 PROVE  (IF c = m THEN h[m][f[m - 1]] ELSE f[c]) \in Int
      OBVIOUS
    <3>1. c # m => c \in 0 .. m - 1
      OBVIOUS
    <3> QED
      BY <2>1, <2>2, <3>1
  <2>4. ASSUME NEW c \in 0 .. m
        PROVE  g[c] = h[c][IF c = 0 THEN 0 ELSE g[c - 1]]
    <3>1. c # 0 => g[c - 1] = f[c - 1]
      OBVIOUS
    <3>2. CASE c = m
      <4>1. c # 0 /\ g[c] = h[m][f[m - 1]]
        BY <3>2
      <4> QED
        BY <3>1, <3>2, <4>1
    <3>3. CASE c # m
      <4>1. c \in 0 .. m - 1 /\ g[c] = f[c]
        BY <3>3
      <4>2. f[c] = h[c][IF c = 0 THEN 0 ELSE f[c - 1]]
        BY <1>3, <4>1
      <4> QED
        BY <3>1, <4>1, <4>2
    <3> QED
      BY <3>2, <3>3
  <2> QED
    BY <2>3, <2>4
<1>4. Missing = {}
  <2> SUFFICES ASSUME Missing # {} PROVE FALSE
    OBVIOUS
  <2>1. PICK m \in Missing : \A k \in Missing : m <= k
    <3>1. Missing \in SUBSET Nat
      OBVIOUS
    <3> HIDE DEF Missing
    <3> QED
      BY <3>1, LeastMember
  <2>2. m \in 0 .. n /\ m # 0
    BY <1>2
  <2>3. m \in 1 .. n /\ m - 1 \in 0 .. n /\ m - 1 \notin Missing
    <3>1. m \in 1 .. n /\ m - 1 \in 0 .. n /\ ~ (m <= m - 1)
      BY <2>2
    <3> HIDE DEF Missing
    <3> QED
      BY <2>1, <3>1
  <2>4. PICK f : Follows(f, m - 1)
    BY <2>3
  <2>5. \E g : Follows(g, m)
    <3> HIDE DEF Follows
    <3> QED
      BY <1>3, <2>3, <2>4
  <2> QED
    BY <2>5
<1>5. PICK g : Follows(g, n)
  <2>1. n \in 0 .. n
    OBVIOUS
  <2> HIDE DEF Follows
  <2> QED
    BY <1>4, <2>1
<1>6. g = [c \in 0 .. n |-> h[c][IF c = 0 THEN 0 ELSE g[c - 1]]]
  BY <1>5
<1> QED
  BY <1>5, <1>6

\* The part f has for c.
PartOf(f, c) == IF c \in DOMAIN f THEN f[c] ELSE 0

\* A sum grows from one coin to the next by the part of that coin.
LEMMA UptoSteps ==
    ASSUME NEW n \in Nat, NEW f, \A c \in DOMAIN f : f[c] \in Int
    PROVE  /\ Upto(f, n) \in [0 .. n -> Int]
           /\ Upto(f, n)[0] = PartOf(f, 0)
           /\ \A c \in 1 .. n : Upto(f, n)[c] = Upto(f, n)[c - 1] + PartOf(f, c)
<1> DEFINE h == [c \in 0 .. n |-> [x \in Int |-> x + PartOf(f, c)]]
           Next1(g) == [c \in 0 .. n |-> (IF c = 0 THEN 0 ELSE g[c - 1])
                                         + (IF c \in DOMAIN f THEN f[c] ELSE 0)]
           s == Upto(f, n)
<1>1. \A c : PartOf(f, c) \in Int
  BY DEF PartOf
<1>2. h \in [0 .. n -> [Int -> Int]]
  BY <1>1
<1>3. PICK g \in [0 .. n -> Int] :
        g = [c \in 0 .. n |-> h[c][IF c = 0 THEN 0 ELSE g[c - 1]]]
  <2> HIDE DEF h
  <2> QED
    BY <1>2, Recursion
<1>4. g = Next1(g)
  <2>1. ASSUME NEW c \in 0 .. n
        PROVE  h[c][IF c = 0 THEN 0 ELSE g[c - 1]]
                   = (IF c = 0 THEN 0 ELSE g[c - 1]) + (IF c \in DOMAIN f THEN f[c] ELSE 0)
    <3>1. (IF c = 0 THEN 0 ELSE g[c - 1]) \in Int
      BY <1>3
    <3> QED
      BY <3>1 DEF PartOf
  <2> HIDE DEF h
  <2> QED
    BY <1>3, <2>1
<1>5. s = CHOOSE u : u = Next1(u)
  BY Zenon DEF Upto
<1>6. s = Next1(s)
  <2> HIDE DEF Next1, s
  <2> QED
    BY <1>4, <1>5, Zenon
<1> HIDE DEF s
<1>7. DOMAIN s = 0 .. n
  BY <1>6
<1>8. \A c \in 0 .. n : s[c] = (IF c = 0 THEN 0 ELSE s[c - 1]) + PartOf(f, c)
  BY <1>6 DEF PartOf
<1>9. s[0] = PartOf(f, 0) /\ \A c \in 1 .. n : s[c] = s[c - 1] + PartOf(f, c)
  <2>1. s[0] = 0 + PartOf(f, 0)
    BY <1>8
  <2>2. \A c \in 1 .. n : s[c] = s[c - 1] + PartOf(f, c)
    BY <1>8
  <2> QED
    BY <1>1, <2>1, <2>2
<1>10. \A c \in 0 .. n : s[c] \in Int
  <2> DEFINE Odd == {c \in 0 .. n : s[c] \notin Int}
  <2> SUFFICES ASSUME Odd # {} PROVE FALSE
    OBVIOUS
  <2>1. PICK c \in Odd : \A b \in Odd : c <= b
    <3>1. Odd \in SUBSET Nat
      OBVIOUS
    <3> HIDE DEF Odd
    <3> QED
      BY <3>1, LeastMember
  <2>2. c \in 0 .. n /\ s[c] \notin Int
    BY <2>1
  <2>3. c \in 1 .. n
    BY <1>1, <1>9, <2>2
  <2>4. c - 1 \in 0 .. n /\ c - 1 \notin Odd
    BY <2>1, <2>3
  <2>5. s[c - 1] \in Int
    BY <2>4
  <2> QED
    BY <1>1, <1>9, <2>2, <2>3, <2>5
<1>11. s = [c \in 0 .. n |-> s[c]]
  BY <1>6
<1> QED
  BY <1>9, <1>10, <1>11 DEF s

\* A sum of natural numbers is one, is no less than any of them, and grows.
LEMMA SumOfNats ==
    ASSUME NEW n \in Nat, NEW f, \A c \in DOMAIN f : f[c] \in Nat
    PROVE  /\ Upto(f, n) \in [0 .. n -> Nat]
           /\ \A c \in 0 .. n : PartOf(f, c) <= Upto(f, n)[n]
<1> DEFINE s == Upto(f, n)
<1>1. /\ s \in [0 .. n -> Int]
      /\ s[0] = PartOf(f, 0)
      /\ \A c \in 1 .. n : s[c] = s[c - 1] + PartOf(f, c)
  <2>1. \A c \in DOMAIN f : f[c] \in Int
    OBVIOUS
  <2> QED
    BY <2>1, UptoSteps
<1>2. \A c : PartOf(f, c) \in Nat
  BY DEF PartOf
<1> HIDE DEF s
<1>3. \A c \in 0 .. n : s[c] >= 0
  <2>1. /\ \A c \in 0 .. n : s[c] \in Int
        /\ s[0] >= 0
        /\ \A c \in 1 .. n : s[c - 1] >= 0 => s[c] >= 0
    <3>1. ASSUME NEW c \in 1 .. n, s[c - 1] >= 0 PROVE s[c] >= 0
      <4>1. c - 1 \in 0 .. n /\ s[c] = s[c - 1] + PartOf(f, c) /\ PartOf(f, c) \in Nat
        BY <1>1, <1>2
      <4> QED
        BY <1>1, <3>1, <4>1
    <3>2. s[0] >= 0
      BY <1>1, <1>2
    <3>3. \A c \in 0 .. n : s[c] \in Int
      BY <1>1
    <3> QED
      BY <3>1, <3>2, <3>3
  <2> QED
    BY <2>1, StaysUp
<1>4. s \in [0 .. n -> Nat]
  <2>1. \A c \in 0 .. n : s[c] \in Nat
    BY <1>1, <1>3
  <2> QED
    BY <1>1, <2>1
<1>5. ASSUME NEW b \in 0 .. n PROVE PartOf(f, b) <= s[n]
  <2> DEFINE H == [c \in 0 .. n |-> IF c < b THEN 0 ELSE s[c] - PartOf(f, b)]
  <2>1. \A c \in 0 .. n : H[c] = IF c < b THEN 0 ELSE s[c] - PartOf(f, b)
    OBVIOUS
  <2> HIDE DEF H
  <2>2. \A c \in 0 .. n : H[c] \in Int
    BY <1>1, <1>2, <2>1
  <2>3. H[0] >= 0
    BY <1>1, <1>2, <2>1
  <2>4. ASSUME NEW c \in 1 .. n, H[c - 1] >= 0 PROVE H[c] >= 0
    <3>1. /\ c - 1 \in 0 .. n /\ c \in 0 .. n
          /\ s[c] = s[c - 1] + PartOf(f, c) /\ s[c - 1] \in Nat
          /\ PartOf(f, c) \in Nat /\ PartOf(f, b) \in Nat
      BY <1>1, <1>2, <1>4
    <3>2. /\ H[c - 1] = IF c - 1 < b THEN 0 ELSE s[c - 1] - PartOf(f, b)
          /\ H[c] = IF c < b THEN 0 ELSE s[c] - PartOf(f, b)
      BY <2>1, <3>1
    <3>3. CASE c < b
      BY <3>2, <3>3
    <3>4. CASE c = b
      BY <3>1, <3>2, <3>4
    <3>5. CASE c > b
      <4>1. ~ (c - 1 < b) /\ ~ (c < b)
        BY <3>5
      <4> QED
        BY <2>4, <3>1, <3>2, <4>1
    <3> QED
      BY <3>3, <3>4, <3>5
  <2>5. \A c \in 0 .. n : H[c] >= 0
    BY <2>2, <2>3, <2>4, StaysUp
  <2>6. H[n] = s[n] - PartOf(f, b) /\ H[n] >= 0
    BY <2>1, <2>5
  <2> QED
    BY <1>2, <1>4, <2>6
<1> QED
  BY <1>4, <1>5 DEF s

-----------------------------------------------------------------------------
(* Rounding                                                                *)

\* What a floor is.
LEMMA FloorDivision ==
    ASSUME NEW x \in Nat, NEW t \in Nat, t > 0
    PROVE  /\ x \div t \in Nat
           /\ (x \div t) * t <= x
           /\ x < ((x \div t) + 1) * t
OBVIOUS

\* A positive factor can be taken off both sides.
LEMMA Cancel ==
    ASSUME NEW x \in Int, NEW y \in Int, NEW t \in Nat, t > 0
    PROVE  /\ x * t <= y * t => x <= y
           /\ x * t < y * t => x < y
OBVIOUS

\* Products keep their order.
LEMMA TimesMonotone ==
    ASSUME NEW x \in Int, NEW y \in Int, NEW t \in Nat, x <= y
    PROVE  x * t <= y * t
OBVIOUS

\* A whole number of units times a price is not rounded.
LEMMA ExactProduct ==
    ASSUME NEW x \in Nat, NEW p \in Nat
    PROVE  /\ FromRatio(x, 1) = x * One
           /\ DecMul(FromRatio(x, 1), p) = x * p
           /\ x * p \in Nat
<1>1. x * One \in Nat /\ x * p \in Nat /\ One \in Nat /\ One > 0
  BY OneAssumption
<1>2. FromRatio(x, 1) = x * One
  BY <1>1 DEF FromRatio
<1>3. ((x * p) * One) \div One = x * p
  <2> DEFINE k == x * p
             q == (k * One) \div One
  <2>1. k \in Nat /\ k * One \in Nat
    BY <1>1
  <2> HIDE DEF k
  <2>2. q \in Nat /\ q * One <= k * One /\ k * One < (q + 1) * One
    BY <1>1, <2>1, FloorDivision
  <2> HIDE DEF q
  <2>3. q <= k /\ k < q + 1
    BY <1>1, <2>1, <2>2, Cancel
  <2> QED
    BY <2>1, <2>2, <2>3 DEF k, q
<1>4. (x * One) * p = (x * p) * One
  BY <1>1
<1> QED
  BY <1>1, <1>2, <1>3, <1>4 DEF DecMul

\* The units of a value are those the price goes into.
LEMMA UnitsBounds ==
    ASSUME NEW v \in Nat, NEW p \in Nat, p > 0
    PROVE  /\ Units(v, p) \in Nat
           /\ Units(v, p) * p <= v
           /\ v < (Units(v, p) + 1) * p
<1> DEFINE q == (v * One) \div p
           u == q \div One
<1>1. One \in Nat /\ One > 0 /\ v * One \in Nat
  BY OneAssumption
<1>2. q \in Nat /\ q * p <= v * One /\ v * One < (q + 1) * p
  BY <1>1, FloorDivision
<1> HIDE DEF q
<1>3. u \in Nat /\ u * One <= q /\ q < (u + 1) * One
  BY <1>1, <1>2, FloorDivision
<1> HIDE DEF u
<1>4. u * p <= v
  <2>1. (u * One) * p <= q * p
    BY <1>1, <1>2, <1>3, TimesMonotone
  <2>2. (u * One) * p = (u * p) * One /\ u * p \in Nat
    BY <1>1, <1>3
  <2>3. (u * p) * One <= v * One
    <3>1. q * p \in Nat
      BY <1>2
    <3> QED
      BY <1>1, <1>2, <2>1, <2>2, <3>1
  <2> QED
    BY <1>1, <2>2, <2>3, Cancel
<1>5. v < (u + 1) * p
  <2>1. (q + 1) * p <= ((u + 1) * One) * p
    <3>1. q + 1 \in Int /\ (u + 1) * One \in Int /\ q + 1 <= (u + 1) * One
      BY <1>1, <1>2, <1>3
    <3> QED
      BY <3>1, TimesMonotone
  <2>2. ((u + 1) * One) * p = ((u + 1) * p) * One /\ (u + 1) * p \in Nat
    BY <1>1, <1>3
  <2>3. v * One < ((u + 1) * p) * One
    <3>1. (q + 1) * p \in Nat /\ ((u + 1) * p) * One \in Nat
      BY <1>1, <1>2, <2>2
    <3> QED
      BY <1>1, <1>2, <2>1, <2>2, <3>1
  <2> QED
    BY <1>1, <2>2, <2>3, Cancel
<1>6. Units(v, p) = u
  BY DEF Units, DecDiv, ToFloor, u, q
<1> QED
  BY <1>3, <1>4, <1>5, <1>6

\* The worth of an amount is no more than its price times the amount.
LEMMA WorthBounds ==
    ASSUME NEW a \in Nat, NEW p \in Nat
    PROVE  /\ Worth(a, p) \in Nat
           /\ Worth(a, p) * One <= a * p
<1>1. Worth(a, p) = (a * p) \div One /\ a * p \in Nat
  BY ExactProduct DEF Worth, ToFloor
<1> QED
  BY <1>1, OneAssumption, FloorDivision

\* A part of no more than the whole of an amount.
LEMMA PartBounds ==
    ASSUME NEW a \in Nat, NEW p \in Nat, p <= One
    PROVE  Worth(a, p) <= a
<1>1. Worth(a, p) \in Nat /\ Worth(a, p) * One <= a * p
  BY WorthBounds
<1>2. p * a <= One * a
  BY OneAssumption, TimesMonotone
<1>3. Worth(a, p) * One <= a * One
  BY <1>1, <1>2, OneAssumption
<1> QED
  BY <1>1, <1>3, OneAssumption, Cancel

\* Decimals and fees are natural numbers.
LEMMA DecimalType ==
    ASSUME NEW x \in Nat, NEW y \in Nat
    PROVE  /\ DecMul(x, y) \in Nat
           /\ FromRatio(x, 1) \in Nat
           /\ ToCeil(x) \in Nat
           /\ y > 0 => FromRatio(x, y) \in Nat /\ DecDiv(x, y) \in Nat
<1>1. x * y \in Nat /\ x * One \in Nat /\ x + One - 1 \in Nat
  BY OneAssumption
<1>2. DecMul(x, y) \in Nat /\ ToCeil(x) \in Nat
  BY <1>1, OneAssumption, FloorDivision DEF DecMul, ToCeil
<1>3. FromRatio(x, 1) \in Nat
  BY <1>1, ExactProduct
<1>4. y > 0 => (x * One) \div y \in Nat
  BY <1>1, FloorDivision
<1> QED
  BY <1>2, <1>3, <1>4 DEF FromRatio, DecDiv

LEMMA FeeType ==
    ASSUME NEW rate \in Nat, NEW seconds \in Nat, NEW amount \in Nat
    PROVE  AumFee(rate, seconds, amount) \in Nat /\ TxFee(rate, amount) \in Nat
<1>1. FromRatio(amount, 1) \in Nat
  BY DecimalType
<1>2. YearFraction(seconds) \in Nat
  BY DecimalType, YearAssumption DEF YearFraction
<1>3. EffectiveRate(rate, seconds) \in Nat
  BY <1>2, DecimalType DEF EffectiveRate
<1>4. AumFee(rate, seconds, amount) \in Nat
  BY <1>1, <1>3, DecimalType DEF AumFee
<1>5. TxFee(rate, amount) \in Nat
  BY <1>1, DecimalType DEF TxFee
<1> QED
  BY <1>4, <1>5

-----------------------------------------------------------------------------
(* Receipt tokens are counted as a set of pairs of an account and a number,*)
(* since the accounts have no order to add them up in.                     *)

Tokens(f) == UNION {{a} \X (1 .. f[a]) : a \in Accounts}

Counts(f, n) == IsFiniteSet(Tokens(f)) /\ Cardinality(Tokens(f)) = n

\* Tokens credited to an account are counted.
LEMMA CreditCounts ==
    ASSUME NEW f \in [Accounts -> Nat], NEW a \in Accounts, NEW n \in Nat, NEW k,
           Counts(f, k)
    PROVE  k \in Nat /\ Counts(Credit(f, a, n), k + n)
<1> DEFINE more == {a} \X (f[a] + 1 .. f[a] + n)
<1>1. k \in Nat
  BY FS_CardinalityType DEF Counts
<1>2. Tokens(Credit(f, a, n)) = Tokens(f) \cup more
  <2>1. ASSUME NEW t \in Tokens(Credit(f, a, n)) PROVE t \in Tokens(f) \cup more
    <3>1. PICK x \in Accounts : t \in {x} \X (1 .. Credit(f, a, n)[x])
      BY <2>1 DEF Tokens
    <3>2. CASE x = a
      BY <3>1, <3>2 DEF Tokens, Credit
    <3>3. CASE x # a
      BY <3>1, <3>3 DEF Tokens, Credit
    <3> QED
      BY <3>2, <3>3
  <2>2. ASSUME NEW t \in Tokens(f) PROVE t \in Tokens(Credit(f, a, n))
    <3>1. PICK x \in Accounts : t \in {x} \X (1 .. f[x])
      BY <2>2 DEF Tokens
    <3>2. f[x] \in Nat /\ Credit(f, a, n)[x] \in Nat /\ f[x] <= Credit(f, a, n)[x]
      BY DEF Credit
    <3>3. t \in {x} \X (1 .. Credit(f, a, n)[x])
      BY <3>1, <3>2
    <3> QED
      BY <3>3 DEF Tokens
  <2>3. ASSUME NEW t \in more PROVE t \in Tokens(Credit(f, a, n))
    <3>1. t \in {a} \X (1 .. Credit(f, a, n)[a])
      BY <2>3 DEF Credit
    <3> QED
      BY <3>1 DEF Tokens
  <2> HIDE DEF more
  <2> QED
    BY <2>1, <2>2, <2>3
<1>3. Tokens(f) \cap more = {}
  <2> SUFFICES ASSUME NEW t \in Tokens(f), t \in more PROVE FALSE
    OBVIOUS
  <2>1. PICK x \in Accounts : t \in {x} \X (1 .. f[x])
    BY DEF Tokens
  <2>2. t[1] = a /\ t[1] = x /\ t[2] >= f[a] + 1 /\ t[2] <= f[x] /\ t[2] \in Int
    BY <2>1
  <2> QED
    BY <2>2
<1>4. IsFiniteSet(more) /\ Cardinality(more) = n
  <2>1. IsFiniteSet({a}) /\ Cardinality({a}) = 1
    BY FS_Singleton
  <2>2. /\ IsFiniteSet(f[a] + 1 .. f[a] + n)
        /\ Cardinality(f[a] + 1 .. f[a] + n) = n
    <3>1. f[a] + 1 \in Int /\ f[a] + n \in Int
      OBVIOUS
    <3>2. /\ IsFiniteSet(f[a] + 1 .. f[a] + n)
          /\ Cardinality(f[a] + 1 .. f[a] + n)
                 = IF f[a] + 1 > f[a] + n THEN 0 ELSE (f[a] + n) - (f[a] + 1) + 1
      BY <3>1, FS_Interval
    <3> QED
      BY <3>2
  <2>3. IsFiniteSet(more) /\ Cardinality(more) = 1 * n
    BY <2>1, <2>2, FS_Product
  <2> QED
    BY <2>3
<1> HIDE DEF more
<1>5. /\ IsFiniteSet(Tokens(f) \cup more)
      /\ Cardinality(Tokens(f) \cup more)
             = Cardinality(Tokens(f)) + Cardinality(more) - Cardinality(Tokens(f) \cap more)
  BY <1>4, FS_Union DEF Counts
<1>6. Cardinality(Tokens(f) \cap more) = 0
  BY <1>3, FS_EmptySet
<1>7. Cardinality(Tokens(f)) = k
  BY DEF Counts
<1>8. Cardinality(Tokens(f) \cup more) = k + n
  BY <1>1, <1>4, <1>5, <1>6, <1>7
<1> QED
  BY <1>1, <1>2, <1>5, <1>8 DEF Counts

\* So are tokens that an account gives away.
LEMMA DebitCounts ==
    ASSUME NEW f \in [Accounts -> Nat], NEW a \in Accounts, NEW n \in Nat, n <= f[a],
           NEW k, Counts(f, k)
    PROVE  /\ k \in Nat
           /\ [f EXCEPT ![a] = @ - n] \in [Accounts -> Nat]
           /\ Counts([f EXCEPT ![a] = @ - n], k - n)
<1> DEFINE g == [f EXCEPT ![a] = @ - n]
<1>1. g \in [Accounts -> Nat] /\ Credit(g, a, n) = f
  <2>1. g \in [Accounts -> Nat] /\ g[a] = f[a] - n /\ \A x \in Accounts \ {a} : g[x] = f[x]
    OBVIOUS
  <2> HIDE DEF g
  <2>2. [g EXCEPT ![a] = @ + n] \in [Accounts -> Nat]
    BY <2>1
  <2>3. \A x \in Accounts : [g EXCEPT ![a] = @ + n][x] = f[x]
    BY <2>1
  <2>4. [g EXCEPT ![a] = @ + n] = f
    BY <2>2, <2>3
  <2> QED
    BY <2>1, <2>4 DEF Credit
<1>2. \A x \in Accounts : g[x] \in Nat /\ f[x] \in Nat /\ g[x] <= f[x]
  OBVIOUS
<1> HIDE DEF g
<1>3. Tokens(g) \subseteq Tokens(f)
  <2> SUFFICES ASSUME NEW t \in Tokens(g) PROVE t \in Tokens(f)
    OBVIOUS
  <2>1. PICK x \in Accounts : t \in {x} \X (1 .. g[x])
    BY DEF Tokens
  <2>2. t \in {x} \X (1 .. f[x])
    BY <1>2, <2>1
  <2> QED
    BY <2>2 DEF Tokens
<1>4. IsFiniteSet(Tokens(g))
  BY <1>3, FS_Subset DEF Counts
<1>5. PICK m \in Nat : Counts(g, m)
  BY <1>4, FS_CardinalityType DEF Counts
<1>6. Counts(f, m + n)
  BY <1>1, <1>5, CreditCounts
<1>7. k = m + n
  BY <1>6 DEF Counts
<1> QED
  BY <1>1, <1>5, <1>7 DEF g

\* Nobody holds any token at first.
LEMMA NoneCount == Counts([a \in Accounts |-> 0], 0)
<1>1. Tokens([a \in Accounts |-> 0]) = {}
  BY DEF Tokens
<1> QED
  BY <1>1, FS_EmptySet DEF Counts

-----------------------------------------------------------------------------
(* The invariant                                                           *)

\* A withdrawal takes its shares off the supply, which is safe as every token
\* has a holder; a trade keeps its value as no slippage is above one.
NavInv ==
    /\ TypeOK
    /\ Counts(shares, supply)
    /\ TargetsAffordable
    /\ \A c \in DOMAIN alloc : alloc[c].slippage <= One

\* Sums over parts that are no more are no more.
LEMMA SumCompare ==
    ASSUME NEW n \in Nat, NEW f, NEW g,
           \A c \in DOMAIN f : f[c] \in Int, \A c \in DOMAIN g : g[c] \in Int,
           \A c \in 0 .. n : PartOf(f, c) <= PartOf(g, c)
    PROVE  Upto(f, n)[n] <= Upto(g, n)[n]
<1> DEFINE s == Upto(f, n)
           t == Upto(g, n)
           H == [c \in 0 .. n |-> t[c] - s[c]]
<1>1. /\ s \in [0 .. n -> Int] /\ s[0] = PartOf(f, 0)
      /\ \A c \in 1 .. n : s[c] = s[c - 1] + PartOf(f, c)
  BY UptoSteps
<1>2. /\ t \in [0 .. n -> Int] /\ t[0] = PartOf(g, 0)
      /\ \A c \in 1 .. n : t[c] = t[c - 1] + PartOf(g, c)
  BY UptoSteps
<1>3. \A c : PartOf(f, c) \in Int /\ PartOf(g, c) \in Int
  BY DEF PartOf
<1> HIDE DEF s, t
<1>4. \A c \in 0 .. n : H[c] = t[c] - s[c] /\ H[c] \in Int
  BY <1>1, <1>2
<1> HIDE DEF H
<1>5. H[0] >= 0
  BY <1>1, <1>2, <1>3, <1>4
<1>6. ASSUME NEW c \in 1 .. n, H[c - 1] >= 0 PROVE H[c] >= 0
  <2>1. /\ c \in 0 .. n /\ c - 1 \in 0 .. n
        /\ s[c - 1] \in Int /\ t[c - 1] \in Int
        /\ s[c] = s[c - 1] + PartOf(f, c) /\ t[c] = t[c - 1] + PartOf(g, c)
    BY <1>1, <1>2
  <2>2. H[c] = t[c] - s[c] /\ H[c - 1] = t[c - 1] - s[c - 1]
    BY <1>4, <2>1
  <2>3. PartOf(f, c) <= PartOf(g, c)
    BY <2>1
  <2> QED
    BY <1>3, <1>6, <2>1, <2>2, <2>3
<1>7. H[n] >= 0 /\ n \in 0 .. n
  BY <1>4, <1>5, <1>6, StaysUp
<1> QED
  BY <1>1, <1>2, <1>4, <1>7 DEF s, t

LEMMA CoinsAre == Coins = 0 .. N /\ N \in Nat /\ Quote \in Coins /\ Denoms = 1 .. N
BY NavAssumptions DEF Coins, Quote, Denoms

\* The value of a coin is not rounded.
LEMMA ValueIs ==
    ASSUME TypeOK, NEW c \in Coins
    PROVE  Value(c) = vault[c] * price[c] /\ Value(c) \in Nat
<1>1. vault[c] \in Nat /\ price[c] \in Nat
  BY DEF TypeOK
<1> QED
  BY <1>1, ExactProduct DEF Value

\* What the shares are worth at Nav is no more than what there is.
LEMMA NavBounds ==
    ASSUME TypeOK
    PROVE  /\ Total \in Nat
           /\ Nav \in Nat
           /\ supply > 0 => Nav * supply <= Total
<1>1. Total \in Nat
  <2> DEFINE f == [c \in DOMAIN alloc |-> Value(c)]
  <2>1. \A c \in DOMAIN f : f[c] \in Nat
    BY ValueIs DEF TypeOK
  <2>2. N \in 0 .. N /\ N \in Nat
    BY CoinsAre
  <2> HIDE DEF f
  <2>3. Upto(f, N)[N] \in Nat
    BY <2>1, <2>2, SumOfNats
  <2> QED
    BY <2>3 DEF Sum, Total, f
<1>2. CASE supply = 0
  <2>1. price[Quote] \in Nat
    BY CoinsAre DEF TypeOK
  <2> QED
    BY <1>1, <1>2, <2>1 DEF Nav
<1>3. CASE supply > 0
  <2> DEFINE t == Total
             q == (t * One) \div (supply * One)
  <2>1. supply \in Nat /\ One \in Nat /\ One > 0
    BY OneAssumption DEF TypeOK
  <2>2. Nav = q
    <3>1. FromRatio(supply, 1) = supply * One
      BY <2>1, ExactProduct
    <3>2. supply # 0
      BY <1>3, <2>1
    <3> QED
      BY <3>1, <3>2, Zenon DEF Nav, DecDiv
  <2>3. t \in Nat /\ t * One \in Nat /\ supply * One \in Nat /\ supply * One > 0
    BY <1>1, <1>3, <2>1
  <2> HIDE DEF t
  <2>4. q \in Nat /\ q * (supply * One) <= t * One
    BY <2>3, FloorDivision
  <2> HIDE DEF q
  <2>5. (q * supply) * One <= t * One /\ q * supply \in Int
    BY <2>1, <2>4
  <2>6. q * supply <= t
    BY <2>1, <2>3, <2>5, Cancel
  <2> QED
    BY <1>1, <2>2, <2>4, <2>6 DEF t
<1> QED
  BY <1>2, <1>3 DEF TypeOK

LEMMA AumDueType == ASSUME TypeOK PROVE AumDue \in Nat
BY FeeType DEF TypeOK, AumDue, FeeRates

\* The quote a deposit brings is worth no less than the shares it is given.
LEMMA MintedBounds ==
    ASSUME TypeOK, Nav > 0, NEW x \in Nat
    PROVE  Minted(x) \in Nat /\ Minted(x) * Nav <= x * price[Quote]
<1>1. price[Quote] \in Nat /\ Nav \in Nat
  BY CoinsAre, NavBounds DEF TypeOK
<1>2. Minted(x) = Units(x * price[Quote], Nav) /\ x * price[Quote] \in Nat
  BY <1>1, ExactProduct DEF Minted
<1> QED
  BY <1>1, <1>2, UnitsBounds

-----------------------------------------------------------------------------
(* Lists of targets                                                        *)

\* A set of positions that is not empty has a last one.
LEMMA MaxGreatest ==
    ASSUME NEW n \in Nat, NEW S \in SUBSET (1 .. n), S # {}
    PROVE  Max(S) \in S
<1> DEFINE D == {n - q : q \in S}
<1>1. D \in SUBSET Nat /\ D # {}
  <2>1. PICK q \in S : TRUE
    OBVIOUS
  <2>2. n - q \in D
    OBVIOUS
  <2>3. \A p \in S : n - p \in Nat
    OBVIOUS
  <2> QED
    BY <2>2, <2>3
<1>2. PICK r \in D : \A q \in D : r <= q
  <2> HIDE DEF D
  <2> QED
    BY <1>1, LeastMember
<1>3. PICK m \in S : r = n - m
  BY <1>2
<1>4. \A q \in S : m >= q
  <2> SUFFICES ASSUME NEW q \in S PROVE m >= q
    OBVIOUS
  <2>1. n - q \in D
    OBVIOUS
  <2>2. r <= n - q
    BY <1>2, <2>1
  <2> QED
    BY <1>3, <2>2
<1> QED
  BY <1>4, Zenon DEF Max

\* What is saved for a coin is an entry of the list for that coin.
LEMMA SavedEntries ==
    ASSUME NEW list \in Seq(Targets)
    PROVE  /\ DOMAIN Saved(list) = {list[i].denom : i \in DOMAIN list}
           /\ DOMAIN Saved(list) \subseteq Coins
           /\ \A c \in DOMAIN Saved(list) : \E i \in DOMAIN list :
                  Saved(list)[c] = list[i] /\ list[i].denom = c
           /\ \A i \in DOMAIN list : list[i] \in Targets
<1>1. DOMAIN list = 1 .. Len(list) /\ Len(list) \in Nat
  OBVIOUS
<1>2. \A i \in DOMAIN list : list[i] \in Targets
  OBVIOUS
<1>3. \A i \in DOMAIN list : list[i].denom \in Coins
  BY <1>2 DEF Targets
<1>4. DOMAIN Saved(list) = {list[i].denom : i \in DOMAIN list}
  BY Zenon DEF Saved
<1>5. ASSUME NEW c \in DOMAIN Saved(list)
      PROVE  \E i \in DOMAIN list : Saved(list)[c] = list[i] /\ list[i].denom = c
  <2> DEFINE S == {i \in DOMAIN list : list[i].denom = c}
  <2>1. PICK k \in DOMAIN list : list[k].denom = c
    BY <1>4, <1>5
  <2>2. S \in SUBSET (1 .. Len(list)) /\ S # {}
    BY <1>1, <2>1
  <2>3. Saved(list)[c] = list[Max(S)]
    BY <1>4, <1>5, Zenon DEF Saved
  <2> HIDE DEF S
  <2>4. Max(S) \in S
    BY <1>1, <2>2, MaxGreatest
  <2> QED
    BY <2>3, <2>4 DEF S
<1> QED
  BY <1>2, <1>3, <1>4, <1>5

\* The part of the weights up to i that is for the coin c.
WeightFor(list, i, c) ==
    Upto([j \in DOMAIN list |-> IF list[j].denom = c THEN list[j].weight ELSE 0], Len(list))[i]

\* The weights for one coin after the other, up to i of the list.
WeightsFor(list, i) == [c \in Coins |-> WeightFor(list, i, c)]

\* An entry adds its weight to its own coin's.
LEMMA WeightForSteps ==
    ASSUME NEW list \in Seq(Targets), NEW c
    PROVE  /\ \A i \in 0 .. Len(list) : WeightFor(list, i, c) \in Nat
           /\ WeightFor(list, 0, c) = 0
           /\ \A i \in 1 .. Len(list) :
                  WeightFor(list, i, c)
                      = WeightFor(list, i - 1, c)
                        + (IF list[i].denom = c THEN list[i].weight ELSE 0)
           /\ \A i \in 1 .. Len(list) :
                  list[i].denom = c => list[i].weight <= WeightFor(list, Len(list), c)
<1> DEFINE f == [j \in DOMAIN list |-> IF list[j].denom = c THEN list[j].weight ELSE 0]
<1>1. DOMAIN list = 1 .. Len(list) /\ Len(list) \in Nat
  OBVIOUS
<1>2. \A i \in DOMAIN list : list[i].weight \in Nat
  <2>1. \A i \in DOMAIN list : list[i] \in Targets
    OBVIOUS
  <2> QED
    BY <2>1 DEF Targets
<1>3. DOMAIN f = 1 .. Len(list) /\ \A j \in DOMAIN f : f[j] \in Nat
  BY <1>1, <1>2
<1>4. /\ PartOf(f, 0) = 0
      /\ \A i \in 1 .. Len(list) :
             PartOf(f, i) = IF list[i].denom = c THEN list[i].weight ELSE 0
  BY <1>1 DEF PartOf
<1> HIDE DEF f
<1>5. /\ Upto(f, Len(list)) \in [0 .. Len(list) -> Nat]
      /\ \A i \in 0 .. Len(list) : PartOf(f, i) <= Upto(f, Len(list))[Len(list)]
  BY <1>1, <1>3, SumOfNats
<1>6. /\ Upto(f, Len(list))[0] = PartOf(f, 0)
      /\ \A i \in 1 .. Len(list) :
             Upto(f, Len(list))[i] = Upto(f, Len(list))[i - 1] + PartOf(f, i)
  <2>1. \A j \in DOMAIN f : f[j] \in Int
    BY <1>3
  <2> QED
    BY <1>1, <2>1, UptoSteps
<1>7. \A i : WeightFor(list, i, c) = Upto(f, Len(list))[i]
  BY DEF WeightFor, f
<1>8. \A i \in 0 .. Len(list) : WeightFor(list, i, c) \in Nat
  BY <1>5, <1>7
<1>9. \A i \in 1 .. Len(list) :
          list[i].denom = c => list[i].weight <= WeightFor(list, Len(list), c)
  <2> SUFFICES ASSUME NEW i \in 1 .. Len(list), list[i].denom = c
               PROVE  list[i].weight <= Upto(f, Len(list))[Len(list)]
    BY <1>7
  <2>1. i \in 0 .. Len(list) /\ PartOf(f, i) = list[i].weight
    BY <1>4
  <2> QED
    BY <1>5, <2>1
<1>10. /\ WeightFor(list, 0, c) = 0
       /\ \A i \in 1 .. Len(list) :
              WeightFor(list, i, c)
                  = WeightFor(list, i - 1, c)
                    + (IF list[i].denom = c THEN list[i].weight ELSE 0)
  BY <1>4, <1>6, <1>7
<1> QED
  BY <1>8, <1>9, <1>10

\* So it adds no more than its weight to what all coins have.
LEMMA EntryAdds ==
    ASSUME NEW list \in Seq(Targets), NEW i \in 1 .. Len(list)
    PROVE  Upto(WeightsFor(list, i), N)[N]
               <= Upto(WeightsFor(list, i - 1), N)[N] + list[i].weight
<1> DEFINE d == list[i].denom
           w == list[i].weight
           f == WeightsFor(list, i - 1)
           g == WeightsFor(list, i)
           s == Upto(f, N)
           t == Upto(g, N)
           H == [c \in 0 .. N |-> s[c] + (IF c >= d THEN w ELSE 0) - t[c]]
<1>1. d \in 0 .. N /\ w \in Nat /\ N \in Nat
  <2>1. list[i] \in Targets
    OBVIOUS
  <2> QED
    BY <2>1, CoinsAre DEF Targets
<1>2. /\ DOMAIN f = 0 .. N /\ DOMAIN g = 0 .. N
      /\ \A c \in 0 .. N : f[c] \in Int /\ g[c] \in Int
      /\ \A c \in 0 .. N : g[c] = f[c] + (IF d = c THEN w ELSE 0)
  <2>1. i \in 0 .. Len(list) /\ i - 1 \in 0 .. Len(list)
    OBVIOUS
  <2>2. \A c \in Coins : f[c] = WeightFor(list, i - 1, c) /\ g[c] = WeightFor(list, i, c)
    BY DEF WeightsFor
  <2>3. \A c \in Coins : f[c] \in Int /\ g[c] \in Int
    <3>1. \A c : WeightFor(list, i, c) \in Nat /\ WeightFor(list, i - 1, c) \in Nat
      BY <2>1, WeightForSteps, Zenon
    <3> HIDE DEF f, g
    <3> QED
      BY <2>2, <3>1
  <2>4. \A c \in Coins : g[c] = f[c] + (IF d = c THEN w ELSE 0)
    <3>1. \A c : WeightFor(list, i, c) = WeightFor(list, i - 1, c)
                                          + (IF list[i].denom = c THEN list[i].weight ELSE 0)
      BY WeightForSteps, Zenon
    <3> HIDE DEF f, g
    <3> QED
      BY <2>2, <3>1, Zenon DEF d, w
  <2>5. DOMAIN f = Coins /\ DOMAIN g = Coins
    BY DEF WeightsFor
  <2> HIDE DEF f, g, d, w
  <2> QED
    BY <2>3, <2>4, <2>5, CoinsAre
<1> HIDE DEF f, g, d, w
<1>3. /\ s \in [0 .. N -> Int] /\ s[0] = PartOf(f, 0)
      /\ \A c \in 1 .. N : s[c] = s[c - 1] + PartOf(f, c)
  BY <1>1, <1>2, UptoSteps
<1>4. /\ t \in [0 .. N -> Int] /\ t[0] = PartOf(g, 0)
      /\ \A c \in 1 .. N : t[c] = t[c - 1] + PartOf(g, c)
  BY <1>1, <1>2, UptoSteps
<1>5. \A c \in 0 .. N : PartOf(f, c) = f[c] /\ PartOf(g, c) = g[c]
  BY <1>2 DEF PartOf
<1> HIDE DEF s, t
<1>6. \A c \in 0 .. N : /\ H[c] = s[c] + (IF c >= d THEN w ELSE 0) - t[c]
                        /\ H[c] \in Int
  BY <1>1, <1>3, <1>4
<1> HIDE DEF H
<1>7. H[0] >= 0
  <2>1. 0 \in 0 .. N /\ (0 >= d <=> d = 0)
    BY <1>1
  <2>2. H[0] = f[0] + (IF 0 >= d THEN w ELSE 0) - g[0] /\ f[0] \in Int
    BY <1>2, <1>3, <1>4, <1>5, <1>6, <2>1
  <2>3. g[0] = f[0] + (IF d = 0 THEN w ELSE 0)
    BY <1>2, <2>1
  <2> QED
    BY <1>1, <2>1, <2>2, <2>3
<1>8. ASSUME NEW c \in 1 .. N, H[c - 1] >= 0 PROVE H[c] >= 0
  <2>1. /\ c \in 0 .. N /\ c - 1 \in 0 .. N
        /\ s[c - 1] \in Int /\ t[c - 1] \in Int
        /\ s[c] = s[c - 1] + f[c] /\ t[c] = t[c - 1] + g[c] /\ f[c] \in Int
    <3>1. c \in 0 .. N /\ c - 1 \in 0 .. N
      BY <1>1
    <3>2. s[c - 1] \in Int /\ t[c - 1] \in Int /\ f[c] \in Int
      BY <1>2, <1>3, <1>4, <3>1
    <3>3. s[c] = s[c - 1] + PartOf(f, c) /\ t[c] = t[c - 1] + PartOf(g, c)
      BY <1>3, <1>4
    <3>4. PartOf(f, c) = f[c] /\ PartOf(g, c) = g[c]
      BY <1>5, <3>1
    <3> QED
      BY <3>1, <3>2, <3>3, <3>4
  <2>2. /\ H[c] = s[c] + (IF c >= d THEN w ELSE 0) - t[c]
        /\ H[c - 1] = s[c - 1] + (IF c - 1 >= d THEN w ELSE 0) - t[c - 1]
        /\ g[c] = f[c] + (IF d = c THEN w ELSE 0)
    BY <1>2, <1>6, <2>1
  <2>3. /\ (d = c => c >= d /\ ~ (c - 1 >= d))
        /\ (d # c => (c >= d <=> c - 1 >= d))
    BY <1>1
  <2> QED
    BY <1>1, <1>8, <2>1, <2>2, <2>3
<1>9. H[N] >= 0 /\ N \in 0 .. N
  <2>1. \A c \in 0 .. N : H[c] \in Int
    BY <1>6
  <2>2. \A c \in 0 .. N : H[c] >= 0
    BY <1>1, <1>7, <1>8, <2>1, StaysUp
  <2> QED
    BY <1>1, <2>2
<1>10. H[N] = s[N] + w - t[N] /\ s[N] \in Int /\ t[N] \in Int
  BY <1>1, <1>3, <1>4, <1>6, <1>9
<1> QED
  BY <1>1, <1>9, <1>10 DEF s, t, f, g, w

\* All coins together have no more than the weights of the list.
LEMMA WeightsAddUp ==
    ASSUME NEW list \in Seq(Targets)
    PROVE  Upto(WeightsFor(list, Len(list)), N)[N]
               <= Upto([i \in DOMAIN list |-> list[i].weight], Len(list))[Len(list)]
<1> DEFINE n == Len(list)
           f == [i \in DOMAIN list |-> list[i].weight]
           s == Upto(f, n)
           H == [i \in 0 .. n |-> s[i] - Upto(WeightsFor(list, i), N)[N]]
<1>1. DOMAIN list = 1 .. n /\ n \in Nat
  OBVIOUS
<1>2. \A i \in DOMAIN list : list[i].weight \in Nat
  <2>1. \A i \in DOMAIN list : list[i] \in Targets
    OBVIOUS
  <2> QED
    BY <2>1 DEF Targets
<1>3. DOMAIN f = 1 .. n /\ \A i \in 1 .. n : f[i] = list[i].weight /\ f[i] \in Int
  BY <1>1, <1>2
<1> HIDE DEF n, f
<1>4. /\ s \in [0 .. n -> Int] /\ s[0] = PartOf(f, 0)
      /\ \A i \in 1 .. n : s[i] = s[i - 1] + PartOf(f, i)
  BY <1>1, <1>3, UptoSteps
<1>5. PartOf(f, 0) = 0 /\ \A i \in 1 .. n : PartOf(f, i) = list[i].weight
  BY <1>3 DEF PartOf
<1>6. ASSUME NEW i \in 0 .. n
      PROVE  /\ DOMAIN WeightsFor(list, i) = 0 .. N
             /\ \A c \in 0 .. N : WeightsFor(list, i)[c] = WeightFor(list, i, c)
             /\ \A c \in 0 .. N : WeightsFor(list, i)[c] \in Nat
  <2>1. \A c \in Coins : WeightsFor(list, i)[c] = WeightFor(list, i, c)
    BY DEF WeightsFor
  <2>2. \A c \in Coins : WeightFor(list, i, c) \in Nat
    BY WeightForSteps DEF n
  <2> QED
    BY <2>1, <2>2, CoinsAre DEF WeightsFor
<1>7. \A i \in 0 .. n : Upto(WeightsFor(list, i), N)[N] \in Int
  <2> SUFFICES ASSUME NEW i \in 0 .. n PROVE Upto(WeightsFor(list, i), N)[N] \in Int
    OBVIOUS
  <2>1. Upto(WeightsFor(list, i), N) \in [0 .. N -> Nat]
    BY <1>6, CoinsAre, SumOfNats
  <2> QED
    BY <2>1, CoinsAre
<1> HIDE DEF s
<1>8. \A i \in 0 .. n : /\ H[i] = s[i] - Upto(WeightsFor(list, i), N)[N]
                        /\ H[i] \in Int
  BY <1>4, <1>7
<1> HIDE DEF H
<1>9. H[0] >= 0
  <2> DEFINE z == [c \in Coins |-> 0]
  <2>1. WeightsFor(list, 0) = z
    BY WeightForSteps DEF WeightsFor
  <2>2. \A c \in 0 .. N : PartOf(z, c) = 0
    BY DEF PartOf
  <2>3. \A c \in DOMAIN z : z[c] \in Int
    OBVIOUS
  <2>4. DOMAIN z = 0 .. N
    BY CoinsAre
  <2> HIDE DEF z
  <2>5. Upto(z, N)[N] <= 0
    <3> DEFINE Z == Upto(z, N)
    <3>1. /\ Z \in [0 .. N -> Int] /\ Z[0] = 0
          /\ \A c \in 1 .. N : Z[c] = Z[c - 1]
      <4>1. /\ Z \in [0 .. N -> Int] /\ Z[0] = PartOf(z, 0)
            /\ \A c \in 1 .. N : Z[c] = Z[c - 1] + PartOf(z, c)
        BY <2>3, CoinsAre, UptoSteps
      <4> HIDE DEF Z
      <4> QED
        BY <2>2, <4>1, CoinsAre
    <3> HIDE DEF Z
    <3> DEFINE G == [c \in 0 .. N |-> -Z[c]]
    <3>2. \A c \in 0 .. N : G[c] = -Z[c] /\ G[c] \in Int
      BY <3>1
    <3> HIDE DEF G
    <3>3. G[0] >= 0 /\ \A c \in 1 .. N : G[c - 1] >= 0 => G[c] >= 0
      BY <3>1, <3>2, CoinsAre
    <3>4. \A c \in 0 .. N : G[c] >= 0
      BY <3>2, <3>3, CoinsAre, StaysUp
    <3>5. G[N] >= 0 /\ G[N] = -Z[N] /\ Z[N] \in Int
      BY <3>1, <3>2, <3>4, CoinsAre
    <3> QED
      BY <3>5 DEF Z
  <2>6. s[0] = 0 /\ 0 \in 0 .. n
    BY <1>1, <1>4, <1>5
  <2> QED
    BY <1>7, <1>8, <2>1, <2>5, <2>6
<1>10. ASSUME NEW i \in 1 .. n, H[i - 1] >= 0 PROVE H[i] >= 0
  <2>1. /\ i \in 0 .. n /\ i - 1 \in 0 .. n
        /\ s[i] = s[i - 1] + list[i].weight /\ s[i - 1] \in Int
        /\ list[i].weight \in Nat
    BY <1>1, <1>2, <1>4, <1>5
  <2>2. Upto(WeightsFor(list, i), N)[N]
            <= Upto(WeightsFor(list, i - 1), N)[N] + list[i].weight
    BY EntryAdds DEF n
  <2>3. /\ H[i] = s[i] - Upto(WeightsFor(list, i), N)[N]
        /\ H[i - 1] = s[i - 1] - Upto(WeightsFor(list, i - 1), N)[N]
        /\ Upto(WeightsFor(list, i), N)[N] \in Int
        /\ Upto(WeightsFor(list, i - 1), N)[N] \in Int
    BY <1>7, <1>8, <2>1
  <2> QED
    BY <1>10, <2>1, <2>2, <2>3
<1>11. H[n] >= 0 /\ n \in 0 .. n
  <2>1. n \in Nat /\ \A i \in 0 .. n : H[i] \in Int
    BY <1>1, <1>8 DEF n
  <2>2. \A i \in 0 .. n : H[i] >= 0
    BY <1>9, <1>10, <2>1, StaysUp
  <2> QED
    BY <2>1, <2>2
<1>12. H[n] = s[n] - Upto(WeightsFor(list, n), N)[N]
  BY <1>8, <1>11
<1> QED
  BY <1>4, <1>7, <1>11, <1>12 DEF n, s, f

\* A list that is accepted can be met, whatever it says twice.
LEMMA SavedAffordable ==
    ASSUME NEW list \in Seq(Targets), ValidList(list)
    PROVE  Sum([c \in DOMAIN Saved(list) |-> Saved(list)[c].weight]) <= One
<1> DEFINE f == [c \in DOMAIN Saved(list) |-> Saved(list)[c].weight]
           g == WeightsFor(list, Len(list))
<1>1. ASSUME NEW c \in DOMAIN f
      PROVE  c \in 0 .. N /\ f[c] \in Nat /\ f[c] <= WeightFor(list, Len(list), c)
  <2>1. PICK i \in DOMAIN list : Saved(list)[c] = list[i] /\ list[i].denom = c
    BY SavedEntries
  <2>2. list[i] \in Targets /\ i \in 1 .. Len(list)
    OBVIOUS
  <2>3. f[c] = list[i].weight /\ c \in Coins
    BY <2>1, <2>2 DEF Targets
  <2>4. list[i].weight <= WeightFor(list, Len(list), c) /\ list[i].weight \in Nat
    BY <2>1, <2>2, WeightForSteps DEF Targets
  <2> QED
    BY <2>3, <2>4, CoinsAre
<1>2. /\ DOMAIN g = 0 .. N
      /\ \A c \in 0 .. N : g[c] = WeightFor(list, Len(list), c) /\ g[c] \in Nat
  <2>1. \A c : WeightFor(list, Len(list), c) \in Nat
    BY WeightForSteps
  <2> QED
    BY <2>1, CoinsAre DEF WeightsFor
<1> HIDE DEF f, g
<1>3. \A c \in 0 .. N : PartOf(f, c) <= PartOf(g, c)
  <2> SUFFICES ASSUME NEW c \in 0 .. N PROVE PartOf(f, c) <= PartOf(g, c)
    OBVIOUS
  <2>1. PartOf(g, c) = g[c] /\ g[c] \in Nat
    BY <1>2 DEF PartOf
  <2>2. CASE c \in DOMAIN f
    BY <1>1, <1>2, <2>1, <2>2 DEF PartOf
  <2>3. CASE c \notin DOMAIN f
    BY <2>1, <2>3 DEF PartOf
  <2> QED
    BY <2>2, <2>3
<1>4. Upto(f, N)[N] <= Upto(g, N)[N] /\ Upto(f, N)[N] \in Nat /\ Upto(g, N)[N] \in Nat
  <2>1. /\ \A c \in DOMAIN f : f[c] \in Nat /\ f[c] \in Int
        /\ \A c \in DOMAIN g : g[c] \in Nat /\ g[c] \in Int
    BY <1>1, <1>2
  <2>2. Upto(f, N) \in [0 .. N -> Nat] /\ Upto(g, N) \in [0 .. N -> Nat]
    BY <2>1, CoinsAre, SumOfNats
  <2>3. Upto(f, N)[N] <= Upto(g, N)[N]
    BY <1>3, <2>1, CoinsAre, SumCompare
  <2> QED
    BY <2>2, <2>3, CoinsAre
<1>5. Upto(g, N)[N] <= Upto([i \in DOMAIN list |-> list[i].weight], Len(list))[Len(list)]
  BY WeightsAddUp DEF g
<1>6. Upto([i \in DOMAIN list |-> list[i].weight], Len(list))[Len(list)] = One
  BY DEF ValidList
<1>7. Upto(f, N)[N] <= One
  BY <1>4, <1>5, <1>6, OneAssumption
<1> QED
  BY <1>7 DEF Sum, f

\* A list that is accepted makes targets of the right type, for the quote too.
LEMMA SavedTargets ==
    ASSUME NEW list \in TargetLists, ValidList(list), NEW a, a = Saved(list)
    PROVE  /\ DOMAIN a \subseteq Coins /\ Quote \in DOMAIN a
           /\ \A c \in DOMAIN a : a[c] \in Targets /\ a[c].denom = c /\ a[c].slippage <= One
           /\ Sum([c \in DOMAIN a |-> a[c].weight]) <= One
<1>1. list \in Seq(Targets)
  BY NavAssumptions
<1>2. \E i \in DOMAIN list : list[i].denom = Quote
  <2>1. Cardinality({i \in DOMAIN list : list[i].denom = Quote}) = 1
    BY DEF ValidList
  <2>2. {i \in DOMAIN list : list[i].denom = Quote} # {}
    BY <2>1, FS_EmptySet
  <2> QED
    BY <2>2
<1>3. \A i \in DOMAIN list : list[i].slippage < One /\ list[i].slippage \in Nat
  <2>1. \A i \in DOMAIN list : list[i] \in Targets
    BY <1>1
  <2> QED
    BY <2>1 DEF ValidList, Targets
<1>4. Quote \in DOMAIN Saved(list) /\ DOMAIN Saved(list) \subseteq Coins
  BY <1>1, <1>2, SavedEntries
<1>5. ASSUME NEW c \in DOMAIN Saved(list)
      PROVE  /\ Saved(list)[c] \in Targets /\ Saved(list)[c].denom = c
             /\ Saved(list)[c].slippage <= One
  <2>1. PICK i \in DOMAIN list : Saved(list)[c] = list[i] /\ list[i].denom = c
    BY <1>1, SavedEntries
  <2>2. list[i] \in Targets
    BY <1>1
  <2>3. list[i].slippage <= One
    BY <1>3, OneAssumption
  <2> QED
    BY <2>1, <2>2, <2>3
<1> QED
  BY <1>1, <1>4, <1>5, SavedAffordable

LEMMA NavInitInv == Init => NavInv
<1> SUFFICES ASSUME Init PROVE NavInv
  OBVIOUS
<1>1. PICK list \in TargetLists : ValidList(list) /\ alloc = Saved(list)
  BY DEF Init
<1>2. /\ DOMAIN alloc \subseteq Coins /\ Quote \in DOMAIN alloc
      /\ \A c \in DOMAIN alloc :
             alloc[c] \in Targets /\ alloc[c].denom = c /\ alloc[c].slippage <= One
      /\ TargetsAffordable
  BY <1>1, SavedTargets DEF TargetsAffordable
<1>3. price \in [Coins -> Nat]
  <2>1. price \in [Coins -> UNION {Prices[c] : c \in Coins}]
        /\ \A c \in Coins : price[c] \in Prices[c]
    BY DEF Init
  <2>2. \A c \in Coins : Prices[c] \subseteq Nat
    BY NavAssumptions
  <2> QED
    BY <2>1, <2>2
<1>4. vault \in [Coins -> Nat] /\ supply = 0 /\ elapsed = 0
      /\ shares = [a \in Accounts |-> 0] /\ shares \in [Accounts -> Nat]
  BY DEF Init
<1>5. rates \in FeeRates /\ collector \in Accounts
  BY NavAssumptions DEF Init
<1>6. Counts(shares, supply)
  BY <1>4, NoneCount
<1>7. TypeOK
  BY <1>2, <1>3, <1>4, <1>5 DEF TypeOK
<1> QED
  BY <1>2, <1>6, <1>7 DEF NavInv

LEMMA CreditType ==
    ASSUME NEW S, NEW f \in [S -> Nat], NEW a \in S, NEW n \in Nat
    PROVE  Credit(f, a, n) \in [S -> Nat]
BY DEF Credit

\* Shares are minted to one account and the AUM fee to the collector.
LEMMA MintInv ==
    ASSUME NavInv, NEW u \in Accounts, NEW n \in Nat,
           Accrue(n, 0, Credit(shares, u, n))
    PROVE  /\ supply' \in Nat /\ shares' \in [Accounts -> Nat] /\ elapsed' = 0
           /\ Counts(shares', supply')
<1>1. /\ supply \in Nat /\ shares \in [Accounts -> Nat] /\ collector \in Accounts
      /\ Counts(shares, supply) /\ AumDue \in Nat
  BY AumDueType DEF NavInv, TypeOK
<1>2. Credit(shares, u, n) \in [Accounts -> Nat] /\ Counts(Credit(shares, u, n), supply + n)
  BY <1>1, CreditType, CreditCounts
<1>3. /\ shares' = Credit(Credit(shares, u, n), collector, AumDue)
      /\ supply' = supply + n - 0 + AumDue /\ elapsed' = 0
  BY DEF Accrue
<1>4. supply' = (supply + n) + AumDue /\ supply' \in Nat
  BY <1>1, <1>3
<1>5. Counts(shares', (supply + n) + AumDue) /\ shares' \in [Accounts -> Nat]
  BY <1>1, <1>2, <1>3, CreditType, CreditCounts
<1> QED
  BY <1>3, <1>4, <1>5

\* An accrual mints the AUM fee alone.
LEMMA AccrueInv ==
    ASSUME NavInv, Accrue(0, 0, shares)
    PROVE  /\ supply' \in Nat /\ shares' \in [Accounts -> Nat] /\ elapsed' = 0
           /\ Counts(shares', supply')
<1>1. /\ supply \in Nat /\ shares \in [Accounts -> Nat] /\ collector \in Accounts
      /\ Counts(shares, supply) /\ AumDue \in Nat
  BY AumDueType DEF NavInv, TypeOK
<1>2. /\ shares' = Credit(shares, collector, AumDue)
      /\ supply' = supply + AumDue /\ supply' \in Nat /\ elapsed' = 0
  BY <1>1 DEF Accrue
<1> QED
  BY <1>1, <1>2, CreditType, CreditCounts

\* A withdrawal burns the shares but for the exit fee.
LEMMA BurnInv ==
    ASSUME NavInv, NEW u \in Accounts, NEW s \in Nat, s <= shares[u],
           TxFee(rates.transaction, s) <= s,
           Accrue(0, NetShares(s), Credit([shares EXCEPT ![u] = @ - s], collector,
                                          TxFee(rates.transaction, s)))
    PROVE  /\ supply' \in Nat /\ shares' \in [Accounts -> Nat] /\ elapsed' = 0
           /\ Counts(shares', supply')
<1> DEFINE fee == TxFee(rates.transaction, s)
           f   == [shares EXCEPT ![u] = @ - s]
           g   == Credit(f, collector, fee)
<1>1. /\ supply \in Nat /\ shares \in [Accounts -> Nat] /\ collector \in Accounts
      /\ Counts(shares, supply) /\ AumDue \in Nat /\ fee \in Nat
  <2>1. rates.transaction \in Nat
    BY DEF NavInv, TypeOK, FeeRates
  <2> QED
    BY <2>1, AumDueType, FeeType DEF NavInv, TypeOK
<1>2. /\ shares' = Credit(g, collector, AumDue) /\ elapsed' = 0
      /\ supply' = supply + 0 - (s - fee) + AumDue
  BY DEF Accrue, NetShares
<1> HIDE DEF fee
<1>3. f \in [Accounts -> Nat] /\ Counts(f, supply - s)
  BY <1>1, DebitCounts
<1> HIDE DEF f
<1>4. g \in [Accounts -> Nat] /\ Counts(g, (supply - s) + fee)
      /\ supply - s \in Nat
  BY <1>1, <1>3, CreditType, CreditCounts
<1> HIDE DEF g
<1>5. /\ shares' \in [Accounts -> Nat]
      /\ Counts(shares', ((supply - s) + fee) + AumDue)
  BY <1>1, <1>2, <1>4, CreditType, CreditCounts
<1>6. supply' = ((supply - s) + fee) + AumDue /\ supply' \in Nat
  BY <1>1, <1>2, <1>4
<1> QED
  BY <1>2, <1>5, <1>6

\* What else NavInv says is kept when targets are.
LEMMA SameTargets ==
    ASSUME NavInv, UNCHANGED <<alloc, price, rates, collector>>,
           vault' \in [Coins -> Nat], supply' \in Nat, shares' \in [Accounts -> Nat],
           elapsed' \in Nat, Counts(shares', supply')
    PROVE  NavInv'
<1>1. TypeOK'
  BY DEF NavInv, TypeOK
<1>2. TargetsAffordable'
  BY DEF NavInv, TargetsAffordable
<1>3. \A c \in DOMAIN alloc' : alloc'[c].slippage <= One
  BY DEF NavInv
<1> QED
  BY <1>1, <1>2, <1>3 DEF NavInv

LEMMA NavDepositInv ==
    ASSUME NavInv, NEW u \in Accounts, NEW x \in Nat, Deposit(u, x)
    PROVE  NavInv'
<1>1. Nav > 0 /\ TypeOK
  BY DEF Deposit, NavInv
<1>2. Minted(x) \in Nat
  BY <1>1, MintedBounds
<1>3. vault' \in [Coins -> Nat]
  BY <1>1, CoinsAre, CreditType DEF Deposit, TypeOK
<1>4. Accrue(Minted(x), 0, Credit(shares, u, Minted(x)))
      /\ UNCHANGED <<alloc, price, rates, collector>>
  BY DEF Deposit
<1>5. /\ supply' \in Nat /\ shares' \in [Accounts -> Nat] /\ elapsed' = 0
      /\ Counts(shares', supply')
  BY <1>2, <1>4, MintInv
<1> QED
  BY <1>3, <1>4, <1>5, SameTargets

-----------------------------------------------------------------------------
(* Withdrawals                                                             *)

LEMMA MinOfTwo ==
    ASSUME NEW x \in Nat, NEW y \in Nat
    PROVE  Min({x, y}) \in Nat /\ Min({x, y}) <= x /\ Min({x, y}) <= y
<1> DEFINE S == {x, y}
<1>1. PICK r \in S : \A q \in S : r <= q
  <2>1. S \in SUBSET Nat /\ S # {}
    OBVIOUS
  <2> HIDE DEF S
  <2> QED
    BY <2>1, LeastMember
<1>2. Min(S) \in S /\ \A q \in S : Min(S) <= q
  <2> HIDE DEF S
  <2> QED
    BY <1>1, Zenon DEF Min
<1> QED
  BY <1>2

\* What a withdrawal is worth in quote, the part that is there, and the rest.
LEMMA ExitBounds ==
    ASSUME TypeOK, Priced, NEW s \in Nat, TxFee(rates.transaction, s) <= s
    PROVE  /\ NetShares(s) \in Nat /\ ExitValue(s) \in Nat /\ ExitAmount(s) \in Nat
           /\ ExitAmount(s) * price[Quote] <= NetShares(s) * Nav
           /\ SendQuote(s) \in Nat
           /\ SendQuote(s) <= ExitAmount(s) /\ SendQuote(s) <= vault[Quote]
           /\ Remaining(s) \in Nat
           /\ Remaining(s) * One <= (ExitAmount(s) - SendQuote(s)) * price[Quote]
<1> DEFINE p == price[Quote]
<1>1. p \in Nat /\ p > 0 /\ vault[Quote] \in Nat
  BY CoinsAre DEF TypeOK, Priced
<1>2. NetShares(s) \in Nat
  <2>1. TxFee(rates.transaction, s) \in Nat
    BY FeeType DEF TypeOK, FeeRates
  <2> QED
    BY <2>1 DEF NetShares
<1>3. /\ ExitValue(s) \in Nat
      /\ ExitValue(s) * One <= NetShares(s) * Nav
  BY <1>2, NavBounds, WorthBounds DEF ExitValue
<1>4. FromRatio(ExitValue(s), 1) = ExitValue(s) * One /\ ExitValue(s) * One \in Nat
  BY <1>3, ExactProduct, OneAssumption
<1>5. /\ ExitAmount(s) \in Nat
      /\ ExitAmount(s) * p <= ExitValue(s) * One
  <2>1. ExitAmount(s) = Units(ExitValue(s) * One, p)
    BY <1>4 DEF ExitAmount
  <2> QED
    BY <1>1, <1>4, <2>1, UnitsBounds
<1>6. ExitAmount(s) * p <= NetShares(s) * Nav
  <2>1. Nav \in Nat
    BY NavBounds
  <2>2. ExitAmount(s) * p \in Nat /\ NetShares(s) * Nav \in Nat
    BY <1>1, <1>2, <1>5, <2>1
  <2> QED
    BY <1>3, <1>4, <1>5, <2>2
<1>7. /\ SendQuote(s) \in Nat /\ SendQuote(s) <= ExitAmount(s)
      /\ SendQuote(s) <= vault[Quote]
  BY <1>1, <1>5, MinOfTwo DEF SendQuote
<1>8. ExitAmount(s) - SendQuote(s) \in Nat
  BY <1>5, <1>7
<1>9. /\ Remaining(s) \in Nat
      /\ Remaining(s) * One <= (ExitAmount(s) - SendQuote(s)) * p
  BY <1>1, <1>8, WorthBounds DEF Remaining
<1> QED
  BY <1>2, <1>3, <1>5, <1>6, <1>7, <1>9

\* The share of a coin in the weights of all coins but the quote.
LEMMA ShareBounds ==
    ASSUME TypeOK, OthersWeight > 0, NEW d \in Others
    PROVE  ShareOf(d) \in Nat /\ ShareOf(d) <= One
<1> DEFINE f == [c \in Others |-> alloc[c].weight]
           w == alloc[d].weight
<1>1. \A c \in Others : f[c] \in Nat
  BY DEF TypeOK, Others, Targets
<1>2. d \in 0 .. N /\ N \in Nat /\ One \in Nat /\ DOMAIN f = Others
  BY CoinsAre, OneAssumption DEF TypeOK, Others
<1>3. f[d] = w /\ w \in Nat
  BY <1>1
<1> HIDE DEF f, w
<1>4. /\ Upto(f, N) \in [0 .. N -> Nat]
      /\ PartOf(f, d) <= Upto(f, N)[N]
  BY <1>1, <1>2, SumOfNats
<1>5. OthersWeight = Upto(f, N)[N] /\ OthersWeight \in Nat
  BY <1>2, <1>4 DEF OthersWeight, Sum, f
<1>6. w <= OthersWeight
  BY <1>2, <1>3, <1>4, <1>5 DEF PartOf
<1> DEFINE q == (w * One) \div OthersWeight
<1>7. /\ q \in Nat /\ q * OthersWeight <= w * One
      /\ w * One \in Nat
  BY <1>2, <1>3, <1>5, FloorDivision
<1> HIDE DEF q
<1>8. w * One <= OthersWeight * One
  BY <1>2, <1>3, <1>5, <1>6, TimesMonotone
<1>9. q * OthersWeight <= One * OthersWeight
  BY <1>2, <1>5, <1>7, <1>8
<1>10. q <= One
  BY <1>2, <1>5, <1>7, <1>9, Cancel
<1> QED
  BY <1>7, <1>10 DEF ShareOf, DecDiv, q, w

\* The others take their shares of the rest one after the other.
LEMMA RestSteps ==
    ASSUME TypeOK, NEW s, Remaining(s) \in Nat, Others # {} => OthersWeight > 0
    PROVE  /\ \A d \in 0 .. N : Rest(s)[d] \in Nat
           /\ Rest(s)[0] = Remaining(s)
           /\ \A d \in 1 .. N : Rest(s)[d] <= Rest(s)[d - 1]
           /\ \A d \in 1 .. N : d \notin Others => Rest(s)[d] = Rest(s)[d - 1]
<1> DEFINE h == [d \in 0 .. N |-> [x \in Int |->
                    IF d = 0 THEN Remaining(s)
                    ELSE IF d \in Others THEN x - Worth(x, ShareOf(d))
                    ELSE x]]
           Follows(g) == [d \in Coins |->
                    IF d = 0 THEN Remaining(s)
                    ELSE IF d \in Others THEN g[d - 1] - Worth(g[d - 1], ShareOf(d))
                    ELSE g[d - 1]]
           r == Rest(s)
<1>1. \A d \in Others : ShareOf(d) \in Nat /\ ShareOf(d) <= One
  BY ShareBounds
<1>2. h \in [0 .. N -> [Int -> Int]]
  <2> SUFFICES ASSUME NEW d \in 0 .. N, NEW x \in Int
               PROVE  (IF d = 0 THEN Remaining(s)
                       ELSE IF d \in Others THEN x - Worth(x, ShareOf(d))
                       ELSE x) \in Int
    OBVIOUS
  <2>1. d \in Others => Worth(x, ShareOf(d)) \in Int
    <3> SUFFICES ASSUME d \in Others PROVE Worth(x, ShareOf(d)) \in Int
      OBVIOUS
    <3> DEFINE a == (x * One) \div 1
               b == (a * ShareOf(d)) \div One
    <3>1. x * One \in Int /\ One \in Nat /\ One > 0
      BY OneAssumption
    <3>2. a \in Int
      BY <3>1
    <3> HIDE DEF a
    <3>3. a * ShareOf(d) \in Int
      BY <1>1, <3>2
    <3>4. b \in Int
      BY <3>1, <3>3
    <3> HIDE DEF b
    <3>5. b \div One \in Int
      BY <3>1, <3>4
    <3> QED
      BY <3>5 DEF Worth, ToFloor, DecMul, FromRatio, a, b
  <2> QED
    BY <2>1
<1>3. PICK g \in [0 .. N -> Int] :
        g = [d \in 0 .. N |-> h[d][IF d = 0 THEN 0 ELSE g[d - 1]]]
  <2> HIDE DEF h
  <2> QED
    BY <1>2, CoinsAre, Recursion
<1>4. g = Follows(g)
  <2>1. ASSUME NEW d \in 0 .. N
        PROVE  h[d][IF d = 0 THEN 0 ELSE g[d - 1]]
                   = IF d = 0 THEN Remaining(s)
                     ELSE IF d \in Others THEN g[d - 1] - Worth(g[d - 1], ShareOf(d))
                     ELSE g[d - 1]
    <3>1. (IF d = 0 THEN 0 ELSE g[d - 1]) \in Int
      <4>1. d # 0 => d - 1 \in 0 .. N
        BY CoinsAre
      <4>2. d # 0 => g[d - 1] \in Int
        <5> HIDE DEF h
        <5> QED
          BY <1>3, <4>1
      <4> QED
        BY <4>2
    <3>2. d = 0 \/ d # 0
      OBVIOUS
    <3> QED
      BY <3>1, <3>2
  <2>2. Coins = 0 .. N
    BY CoinsAre
  <2> HIDE DEF h
  <2> QED
    BY <1>3, <2>1, <2>2
<1>5. r = CHOOSE u : u = Follows(u)
  BY Zenon DEF Rest
<1>6. r = Follows(r)
  <2> HIDE DEF Follows, r
  <2> QED
    BY <1>4, <1>5, Zenon
<1> HIDE DEF r
<1>7. /\ r[0] = Remaining(s)
      /\ \A d \in 1 .. N : d \in Others => r[d] = r[d - 1] - Worth(r[d - 1], ShareOf(d))
      /\ \A d \in 1 .. N : d \notin Others => r[d] = r[d - 1]
  <2>1. Coins = 0 .. N /\ N \in Nat
    BY CoinsAre
  <2>2. \A d \in 0 .. N :
          r[d] = IF d = 0 THEN Remaining(s)
                 ELSE IF d \in Others THEN r[d - 1] - Worth(r[d - 1], ShareOf(d))
                 ELSE r[d - 1]
    BY <1>6, <2>1
  <2> QED
    BY <2>1, <2>2
<1>8. ASSUME NEW d \in 1 .. N, r[d - 1] \in Nat
      PROVE  r[d] \in Nat /\ r[d] <= r[d - 1]
  <2>1. CASE d \in Others
    <3>1. Worth(r[d - 1], ShareOf(d)) \in Nat /\ Worth(r[d - 1], ShareOf(d)) <= r[d - 1]
      BY <1>1, <1>8, <2>1, WorthBounds, PartBounds
    <3>2. r[d] = r[d - 1] - Worth(r[d - 1], ShareOf(d))
      BY <1>7, <2>1
    <3> QED
      BY <1>8, <3>1, <3>2
  <2>2. CASE d \notin Others
    BY <1>7, <1>8, <2>2
  <2> QED
    BY <2>1, <2>2
<1>9. \A d \in 0 .. N : r[d] \in Nat
  <2> DEFINE Odd == {d \in 0 .. N : r[d] \notin Nat}
  <2> SUFFICES ASSUME Odd # {} PROVE FALSE
    OBVIOUS
  <2>1. PICK d \in Odd : \A b \in Odd : d <= b
    <3>1. Odd \in SUBSET Nat
      OBVIOUS
    <3> HIDE DEF Odd
    <3> QED
      BY <3>1, LeastMember
  <2>2. d \in 0 .. N /\ r[d] \notin Nat
    BY <2>1
  <2>3. d \in 1 .. N
    BY <1>7, <2>2
  <2>4. d - 1 \in 0 .. N /\ d - 1 \notin Odd
    <3>1. d - 1 \in 0 .. N /\ ~ (d <= d - 1)
      BY <2>3, CoinsAre
    <3> HIDE DEF Odd
    <3> QED
      BY <2>1, <3>1
  <2>5. r[d - 1] \in Nat
    BY <2>4
  <2> QED
    BY <1>8, <2>2, <2>3, <2>5
<1>10. \A d \in 1 .. N : r[d - 1] \in Nat
  BY <1>9, CoinsAre
<1> QED
  BY <1>7, <1>8, <1>9, <1>10 DEF r

\* A coin that is sold brings no more than its part, and is there.
LEMMA SellBounds ==
    ASSUME TypeOK, Priced, NEW s, Remaining(s) \in Nat, Others # {} => OthersWeight > 0,
           NEW d \in Others
    PROVE  /\ Part(s, d) \in Nat
           /\ SellUnits(s, d) \in Nat
           /\ SellUnits(s, d) * price[d] <= Part(s, d) * One
<1>1. d \in 1 .. N /\ d - 1 \in 0 .. N /\ d \in 0 .. N
  BY CoinsAre DEF TypeOK, Others, Quote
<1>2. Part(s, d) \in Nat
  <2>1. Rest(s)[d - 1] \in Nat /\ Rest(s)[d] \in Nat /\ Rest(s)[d] <= Rest(s)[d - 1]
    BY <1>1, RestSteps
  <2> QED
    BY <2>1 DEF Part
<1>3. price[d] \in Nat /\ price[d] > 0
  BY DEF TypeOK, Priced, Others
<1>4. FromRatio(Part(s, d), 1) = Part(s, d) * One /\ Part(s, d) * One \in Nat
  BY <1>2, ExactProduct, OneAssumption
<1>5. SellUnits(s, d) = Units(Part(s, d) * One, price[d])
  BY <1>4 DEF SellUnits
<1> QED
  BY <1>2, <1>3, <1>4, <1>5, UnitsBounds

\* What a withdrawal takes out is there, and is of listed coins.
LEMMA PaidBounds ==
    ASSUME TypeOK, Priced, NEW s \in Nat, TxFee(rates.transaction, s) <= s,
           NEW slippage, NEW returned, ExitValue(s) > 0 => MayPay(s, slippage, returned),
           NEW c \in Coins
    PROVE  /\ PaidOut(s)[c] \in Nat /\ PaidOut(s)[c] <= vault[c]
           /\ c \notin DOMAIN alloc => PaidOut(s)[c] = 0
<1>1. PaidOut(s)[c] = IF ExitValue(s) = 0 THEN 0
                      ELSE IF c = Quote THEN SendQuote(s)
                      ELSE IF Remaining(s) > 0 /\ c \in Sellers(s) THEN SellUnits(s, c)
                      ELSE 0
  BY DEF PaidOut
<1>2. /\ ExitValue(s) \in Nat /\ SendQuote(s) \in Nat /\ SendQuote(s) <= vault[Quote]
      /\ Remaining(s) \in Nat
  BY ExitBounds
<1>3. vault[c] \in Nat /\ Quote \in DOMAIN alloc
  BY DEF TypeOK
<1>4. CASE ExitValue(s) > 0 /\ c # Quote /\ Remaining(s) > 0 /\ c \in Sellers(s)
  <2>1. c \in Others /\ c \in DOMAIN alloc
    BY <1>4 DEF Sellers, Others
  <2>2. Remaining(s) # 0
    BY <1>2, <1>4
  <2>3. (Others # {} => OthersWeight > 0) /\ SellUnits(s, c) <= vault[c]
    BY <1>4, <2>2 DEF MayPay
  <2>4. SellUnits(s, c) \in Nat
    BY <1>2, <2>1, <2>3, SellBounds
  <2>5. PaidOut(s)[c] = SellUnits(s, c)
    BY <1>1, <1>2, <1>4
  <2> QED
    BY <2>1, <2>3, <2>4, <2>5
<1>5. CASE ExitValue(s) > 0 /\ c = Quote
  BY <1>1, <1>2, <1>3, <1>5
<1>6. CASE ExitValue(s) = 0
  BY <1>1, <1>3, <1>6
<1>7. CASE ExitValue(s) > 0 /\ c # Quote /\ ~ (Remaining(s) > 0 /\ c \in Sellers(s))
  <2>1. PaidOut(s)[c] = 0
    BY <1>1, <1>2, <1>7
  <2> QED
    BY <1>3, <2>1
<1> QED
  BY <1>2, <1>4, <1>5, <1>6, <1>7

LEMMA NavWithdrawInv ==
    ASSUME NavInv, NEW u \in Accounts, NEW s \in Nat, NEW slippage, NEW returned,
           Withdraw(u, s, slippage, returned)
    PROVE  NavInv'
<1>1. /\ TypeOK /\ Priced /\ TxFee(rates.transaction, s) <= s
      /\ ExitValue(s) > 0 => MayPay(s, slippage, returned)
      /\ vault' = [c \in Coins |-> vault[c] - PaidOut(s)[c]]
      /\ s <= shares[u]
      /\ Accrue(0, NetShares(s), Credit([shares EXCEPT ![u] = @ - s], collector,
                                        TxFee(rates.transaction, s)))
      /\ UNCHANGED <<alloc, price, rates, collector>>
  BY DEF Withdraw, MayLeave, NavInv
<1>2. vault' \in [Coins -> Nat]
  <2> SUFFICES ASSUME NEW c \in Coins PROVE vault[c] - PaidOut(s)[c] \in Nat
    BY <1>1
  <2>1. PaidOut(s)[c] \in Nat /\ PaidOut(s)[c] <= vault[c] /\ vault[c] \in Nat
    BY <1>1, PaidBounds DEF TypeOK
  <2> QED
    BY <2>1
<1>3. /\ supply' \in Nat /\ shares' \in [Accounts -> Nat] /\ elapsed' = 0
      /\ Counts(shares', supply')
  BY <1>1, BurnInv
<1> QED
  BY <1>1, <1>2, <1>3, SameTargets

-----------------------------------------------------------------------------
(* Run                                                                     *)

\* The price of what a trade in d offers, and of what it buys.
OfferPrice(d) == IF Above(d) THEN price[d] ELSE price[Quote]
BuyPrice(d)   == IF Above(d) THEN price[Quote] ELSE price[d]

LEMMA OthersAre ==
    ASSUME TypeOK, NEW d \in Others
    PROVE  d \in 1 .. N /\ d \in Coins /\ d \in DOMAIN alloc /\ d # Quote
BY CoinsAre DEF TypeOK, Others, Quote

LEMMA GapBounds ==
    ASSUME TypeOK, NEW d \in Others
    PROVE  /\ TargetValue(d) \in Nat /\ Value(d) \in Nat /\ Gap(d) \in Nat
           /\ Above(d) => Value(d) = TargetValue(d) + Gap(d)
<1>1. alloc[d].weight \in Nat
  BY DEF TypeOK, Others, Targets
<1>2. TargetValue(d) \in Nat
  BY <1>1, NavBounds, DecimalType DEF TargetValue
<1>3. Value(d) \in Nat
  BY OthersAre, ValueIs
<1> QED
  BY <1>2, <1>3 DEF Gap, Above

\* An offer is worth no more than the gap it is to close.
LEMMA OfferBounds ==
    ASSUME TypeOK, Priced, NEW d \in Others
    PROVE  /\ OfferPrice(d) \in Nat /\ BuyPrice(d) \in Nat
           /\ OfferPrice(d) > 0 /\ BuyPrice(d) > 0
           /\ Offer(d) \in Nat
           /\ Offer(d) * OfferPrice(d) <= Gap(d)
<1>1. /\ price[d] \in Nat /\ price[d] > 0
      /\ price[Quote] \in Nat /\ price[Quote] > 0
  BY CoinsAre DEF TypeOK, Priced, Others
<1>2. /\ OfferPrice(d) \in Nat /\ BuyPrice(d) \in Nat
      /\ OfferPrice(d) > 0 /\ BuyPrice(d) > 0
  BY <1>1 DEF OfferPrice, BuyPrice
<1>3. Offer(d) = Units(Gap(d), OfferPrice(d))
  BY DEF Offer, OfferPrice
<1> QED
  BY <1>2, <1>3, GapBounds, UnitsBounds

\* What a trade must return is worth the gap, but for the slippage, the rounding of it
\* and the last unit.
LEMMA ReturnBounds ==
    ASSUME NavInv, Priced, NEW d \in Others
    PROVE  /\ TradeMinReturn(d) \in Nat
           /\ DecMul(Gap(d), alloc[d].slippage) \in Nat
           /\ Gap(d) <= TradeMinReturn(d) * BuyPrice(d)
                        + (DecMul(Gap(d), alloc[d].slippage) + 1 + BuyPrice(d))
<1> DEFINE g == Gap(d)
           s == alloc[d].slippage
           p == BuyPrice(d)
           a == DecMul(g, One - s)
           b == DecMul(g, s)
           m == Units(a, p)
<1>1. TypeOK
  BY DEF NavInv
<1>2. g \in Nat /\ p \in Nat /\ p > 0
  BY <1>1, GapBounds, OfferBounds
<1>3. s \in Nat /\ s <= One /\ One \in Nat /\ One > 0
  BY OneAssumption DEF NavInv, TypeOK, Others, Targets
<1>4. TradeMinReturn(d) = m
  BY DEF TradeMinReturn, BuyPrice
<1> HIDE DEF g, s, p
<1>5. One - s \in Nat /\ g * (One - s) \in Nat /\ g * s \in Nat
  BY <1>2, <1>3
<1>6. a \in Nat /\ g * (One - s) < (a + 1) * One
  BY <1>3, <1>5, FloorDivision DEF DecMul
<1>7. b \in Nat /\ g * s < (b + 1) * One
  BY <1>3, <1>5, FloorDivision DEF DecMul
<1> HIDE DEF a, b
<1>8. g < a + b + 2
  <2>1. g * (One - s) + g * s = g * One
    BY <1>2, <1>3
  <2>2. (a + 1) * One + (b + 1) * One = (a + b + 2) * One
    BY <1>3, <1>6, <1>7
  <2>3. (a + 1) * One \in Nat /\ (b + 1) * One \in Nat
    BY <1>3, <1>6, <1>7
  <2>4. g * One < (a + b + 2) * One
    BY <1>5, <1>6, <1>7, <2>1, <2>2, <2>3
  <2> QED
    BY <1>2, <1>3, <1>6, <1>7, <2>4, Cancel
<1>9. m \in Nat /\ a < (m + 1) * p
  BY <1>2, <1>6, UnitsBounds
<1> HIDE DEF m
<1>10. (m + 1) * p = m * p + p /\ m * p \in Nat
  BY <1>2, <1>9
<1>11. g <= m * p + (b + 1 + p)
  BY <1>2, <1>6, <1>7, <1>8, <1>9, <1>10
<1> QED
  BY <1>4, <1>7, <1>9, <1>11 DEF g, s, p, b

\* The quote that the trade in d moves.
Flow(returned, unfilled, d) ==
    IF d \notin Trades THEN 0
    ELSE IF Above(d) THEN returned[d]
    ELSE unfilled[d] - Offer(d)

\* The quote in the vault between the trades of a Run.
LEMMA QuoteSteps ==
    ASSUME TypeOK, Priced,
           NEW returned \in [Trades -> Nat], NEW unfilled \in [Trades -> Nat],
           Run(returned, unfilled)
    PROVE  LET quote == QuoteAfter(Trades, returned, unfilled)
           IN  /\ \A d \in 0 .. N : quote[d] \in Nat
               /\ quote[0] = vault[Quote]
               /\ \A d \in 1 .. N : /\ Flow(returned, unfilled, d) \in Int
                                    /\ quote[d] = quote[d - 1] + Flow(returned, unfilled, d)
<1> DEFINE q == QuoteAfter(Trades, returned, unfilled)
           f == [d \in {Quote} \cup Trades |->
                    IF d = Quote THEN vault[Quote]
                    ELSE IF Above(d) THEN returned[d]
                    ELSE unfilled[d] - Offer(d)]
<1>1. \A d \in Trades : d \in Others /\ d # Quote /\ d \in 1 .. N /\ Offer(d) \in Nat
  <2>1. \A d \in Trades : d \in Others
    BY DEF Trades
  <2> QED
    BY <2>1, OthersAre, OfferBounds
<1>2. vault[Quote] \in Nat /\ Quote = 0 /\ N \in Nat
  BY CoinsAre DEF TypeOK, Quote
<1>3. ASSUME NEW d \in 1 .. N
      PROVE  PartOf(f, d) = Flow(returned, unfilled, d) /\ Flow(returned, unfilled, d) \in Int
  <2>1. d # Quote
    BY <1>2
  <2>2. CASE d \in Trades
    <3>1. f[d] = IF Above(d) THEN returned[d] ELSE unfilled[d] - Offer(d)
      BY <2>1, <2>2
    <3>2. returned[d] \in Nat /\ unfilled[d] \in Nat /\ Offer(d) \in Nat
      BY <1>1, <2>2
    <3> QED
      BY <2>2, <3>1, <3>2 DEF PartOf, Flow
  <2>3. CASE d \notin Trades
    BY <2>1, <2>3 DEF PartOf, Flow
  <2> QED
    BY <2>2, <2>3
<1>4. PartOf(f, 0) = vault[Quote]
  BY <1>2 DEF PartOf
<1>5. \A d \in DOMAIN f : f[d] \in Int
  <2> SUFFICES ASSUME NEW d \in {Quote} \cup Trades PROVE f[d] \in Int
    OBVIOUS
  <2>1. CASE d = Quote
    BY <1>2, <2>1
  <2>2. CASE d # Quote
    <3>1. d \in Trades /\ d \in 1 .. N
      BY <1>1, <2>2
    <3>2. returned[d] \in Int /\ unfilled[d] - Offer(d) \in Int
      BY <1>1, <3>1
    <3> QED
      BY <2>2, <3>2
  <2> QED
    BY <2>1, <2>2
<1>6. q = Upto(f, N)
  BY DEF QuoteAfter
<1> HIDE DEF f, q
<1>7. /\ q \in [0 .. N -> Int] /\ q[0] = vault[Quote]
      /\ \A d \in 1 .. N : q[d] = q[d - 1] + Flow(returned, unfilled, d)
  <2>1. /\ q \in [0 .. N -> Int] /\ q[0] = PartOf(f, 0)
        /\ \A d \in 1 .. N : q[d] = q[d - 1] + PartOf(f, d)
    BY <1>2, <1>5, <1>6, UptoSteps
  <2> QED
    BY <1>3, <1>4, <2>1
<1>8. \A d \in Trades : /\ unfilled[d] \in Nat /\ returned[d] \in Nat
                        /\ Above(d) \/ Offer(d) <= q[d - 1]
  BY DEF Run, q
<1>9. \A d \in 1 .. N : q[d - 1] >= 0 => q[d] >= 0
  <2> SUFFICES ASSUME NEW d \in 1 .. N, q[d - 1] >= 0 PROVE q[d] >= 0
    OBVIOUS
  <2>1. q[d - 1] \in Int /\ q[d] = q[d - 1] + Flow(returned, unfilled, d)
    <3>1. d - 1 \in 0 .. N
      BY <1>2
    <3> QED
      BY <1>7, <3>1
  <2>2. CASE d \notin Trades
    BY <2>1, <2>2 DEF Flow
  <2>3. CASE d \in Trades /\ Above(d)
    BY <1>8, <2>1, <2>3 DEF Flow
  <2>4. CASE d \in Trades /\ ~Above(d)
    <3>1. /\ Flow(returned, unfilled, d) = unfilled[d] - Offer(d)
          /\ unfilled[d] \in Nat /\ Offer(d) \in Nat /\ Offer(d) <= q[d - 1]
      BY <1>1, <1>8, <2>4 DEF Flow
    <3> QED
      BY <2>1, <3>1
  <2> QED
    BY <2>2, <2>3, <2>4
<1>10. \A d \in 0 .. N : q[d] >= 0
  <2>1. N \in Nat /\ q[0] >= 0 /\ \A d \in 0 .. N : q[d] \in Int
    BY <1>2, <1>7
  <2> QED
    BY <1>9, <2>1, StaysUp, Zenon
<1>11. \A d \in 0 .. N : q[d] \in Nat
  BY <1>7, <1>10
<1> QED
  BY <1>3, <1>7, <1>11 DEF q

\* What Run leaves of a coin.
LEMMA RunVault ==
    ASSUME TypeOK, Priced,
           NEW returned \in [Trades -> Nat], NEW unfilled \in [Trades -> Nat],
           Run(returned, unfilled)
    PROVE  /\ vault' \in [Coins -> Nat]
           /\ vault'[Quote] = QuoteAfter(Trades, returned, unfilled)[N]
           /\ \A c \in Coins \ {Quote} :
                  vault'[c] = IF c \notin Trades THEN vault[c]
                              ELSE IF Above(c) THEN vault[c] - Offer(c) + unfilled[c]
                              ELSE vault[c] + returned[c]
<1> DEFINE q == QuoteAfter(Trades, returned, unfilled)
<1>1. vault' = [c \in Coins |->
                   IF c = Quote THEN q[N]
                   ELSE IF c \notin Trades THEN vault[c]
                   ELSE IF Above(c) THEN vault[c] - Offer(c) + unfilled[c]
                   ELSE vault[c] + returned[c]]
  BY DEF Run
<1>2. q[N] \in Nat
  BY QuoteSteps, CoinsAre
<1> HIDE DEF q
<1>3. \A c \in Coins \ {Quote} :
          vault'[c] = IF c \notin Trades THEN vault[c]
                      ELSE IF Above(c) THEN vault[c] - Offer(c) + unfilled[c]
                      ELSE vault[c] + returned[c]
  BY <1>1
<1>4. vault'[Quote] = q[N]
  BY <1>1, CoinsAre
<1>5. ASSUME NEW c \in Coins PROVE vault'[c] \in Nat
  <2>1. CASE c = Quote
    BY <1>2, <1>4, <2>1
  <2>2. CASE c # Quote /\ c \notin Trades
    BY <1>3, <2>2 DEF TypeOK
  <2>3. CASE c # Quote /\ c \in Trades
    <3>1. c \in Others /\ (Above(c) => Offer(c) <= vault[c])
      BY <2>3 DEF Trades
    <3>2. /\ Offer(c) \in Nat /\ vault[c] \in Nat
          /\ returned[c] \in Nat /\ unfilled[c] \in Nat
      BY <2>3, <3>1, OfferBounds DEF TypeOK
    <3>3. vault'[c] = IF Above(c) THEN vault[c] - Offer(c) + unfilled[c]
                      ELSE vault[c] + returned[c]
      BY <1>3, <2>3
    <3> QED
      BY <3>1, <3>2, <3>3
  <2> QED
    BY <2>1, <2>2, <2>3
<1>6. vault' \in [Coins -> Nat]
  BY <1>1, <1>5
<1> QED
  BY <1>3, <1>4, <1>6 DEF q

LEMMA NavRunInv ==
    ASSUME NavInv, Priced,
           NEW returned \in [Trades -> Nat], NEW unfilled \in [Trades -> Nat],
           Run(returned, unfilled)
    PROVE  NavInv'
<1>1. TypeOK
  BY DEF NavInv
<1>2. Accrue(0, 0, shares) /\ UNCHANGED <<alloc, price, rates, collector>>
  BY DEF Run
<1>3. vault' \in [Coins -> Nat]
  BY <1>1, RunVault
<1>4. /\ supply' \in Nat /\ shares' \in [Accounts -> Nat] /\ elapsed' = 0
      /\ Counts(shares', supply')
  BY <1>2, AccrueInv
<1> QED
  BY <1>2, <1>3, <1>4, SameTargets

-----------------------------------------------------------------------------
(* The other steps                                                         *)

LEMMA NavUpdateInv ==
    ASSUME NavInv, NEW list \in TargetLists, UpdateAllocation(list)
    PROVE  NavInv'
<1>1. /\ ValidList(list) /\ alloc' = Saved(list)
      /\ UNCHANGED <<vault, price, supply, shares, rates, elapsed, collector>>
  BY DEF UpdateAllocation, NewAlloc
<1>2. /\ DOMAIN alloc' \subseteq Coins /\ Quote \in DOMAIN alloc'
      /\ \A c \in DOMAIN alloc' :
             alloc'[c] \in Targets /\ alloc'[c].denom = c /\ alloc'[c].slippage <= One
      /\ Sum([c \in DOMAIN alloc' |-> alloc'[c].weight]) <= One
  BY <1>1, SavedTargets
<1>3. TypeOK'
  BY <1>1, <1>2 DEF NavInv, TypeOK
<1>4. Counts(shares', supply')
  BY <1>1 DEF NavInv
<1>5. TargetsAffordable'
  BY <1>2 DEF TargetsAffordable
<1> QED
  BY <1>2, <1>3, <1>4, <1>5 DEF NavInv

LEMMA NavFeesInv ==
    ASSUME NavInv, NEW r \in RateChoices, NEW c \in Collectors, UpdateFees(r, c)
    PROVE  NavInv'
<1>1. /\ rates' \in FeeRates /\ collector' \in Accounts /\ elapsed' = 0
      /\ UNCHANGED <<alloc, vault, price, supply, shares>>
  BY NavAssumptions DEF UpdateFees
<1>2. TypeOK'
  BY <1>1 DEF NavInv, TypeOK
<1>3. TargetsAffordable' /\ Counts(shares', supply')
  BY <1>1 DEF NavInv, TargetsAffordable
<1> QED
  BY <1>1, <1>2, <1>3 DEF NavInv

LEMMA NavPriceInv ==
    ASSUME NavInv, NEW c \in Coins, NEW p \in Prices[c], PriceMoves(c, p)
    PROVE  NavInv'
<1>1. /\ price' = [price EXCEPT ![c] = p] /\ p \in Nat
      /\ UNCHANGED <<alloc, vault, supply, shares, rates, elapsed, collector>>
  BY NavAssumptions DEF PriceMoves
<1>2. TypeOK'
  BY <1>1 DEF NavInv, TypeOK
<1>3. TargetsAffordable' /\ Counts(shares', supply')
  BY <1>1 DEF NavInv, TargetsAffordable
<1> QED
  BY <1>1, <1>2, <1>3 DEF NavInv

LEMMA NavDonateInv ==
    ASSUME NavInv, NEW c \in Coins, NEW x \in Nat, Donate(c, x)
    PROVE  NavInv'
<1>1. /\ vault' = Credit(vault, c, x)
      /\ UNCHANGED <<alloc, price, supply, shares, rates, elapsed, collector>>
  BY DEF Donate
<1>2. vault' \in [Coins -> Nat]
  BY <1>1, CreditType DEF NavInv, TypeOK
<1> QED
  BY <1>1, <1>2, SameTargets DEF NavInv, TypeOK

LEMMA NavTransferInv ==
    ASSUME NavInv, NEW a \in Accounts, NEW b \in Accounts, NEW s \in Nat, Transfer(a, b, s)
    PROVE  NavInv'
<1> DEFINE f == [shares EXCEPT ![a] = @ - s]
<1>1. /\ s <= shares[a] /\ shares' = Credit(f, b, s)
      /\ UNCHANGED <<alloc, vault, price, supply, rates, elapsed, collector>>
  BY DEF Transfer
<1>2. /\ shares \in [Accounts -> Nat] /\ Counts(shares, supply)
      /\ supply \in Nat /\ vault \in [Coins -> Nat] /\ elapsed \in Nat
  BY DEF NavInv, TypeOK
<1>3. f \in [Accounts -> Nat] /\ Counts(f, supply - s)
  BY <1>1, <1>2, DebitCounts
<1> HIDE DEF f
<1>4. shares' \in [Accounts -> Nat] /\ Counts(shares', (supply - s) + s)
  BY <1>1, <1>3, CreditType, CreditCounts
<1>5. (supply - s) + s = supply'
  BY <1>1, <1>2
<1> QED
  BY <1>1, <1>2, <1>4, <1>5, SameTargets

LEMMA NavStill ==
    ASSUME NavInv, UNCHANGED <<alloc, vault, price, supply, shares, rates, collector>>,
           elapsed' \in Nat
    PROVE  NavInv'
<1>1. vault' \in [Coins -> Nat] /\ supply' \in Nat /\ shares' \in [Accounts -> Nat]
  BY DEF NavInv, TypeOK
<1>2. Counts(shares', supply')
  BY DEF NavInv
<1> QED
  BY <1>1, <1>2, SameTargets

\* Every step is one of the ten, with inputs of the right type.
LEMMA Steps ==
    ASSUME [Next]_vars
    PROVE  \/ \E u \in Accounts, x \in Nat : Deposit(u, x)
           \/ \E u \in Accounts, s \in Nat, slippage \in Slippages :
                  \E returned \in [Sellers(s) -> Nat] : Withdraw(u, s, slippage, returned)
           \/ /\ Priced
              /\ \E returned \in [Trades -> Nat], unfilled \in [Trades -> Nat] :
                     Run(returned, unfilled)
           \/ \E list \in TargetLists : UpdateAllocation(list)
           \/ \E r \in RateChoices, c \in Collectors : UpdateFees(r, c)
           \/ \E c \in Coins : \E p \in Prices[c] : PriceMoves(c, p)
           \/ \E c \in Coins, x \in Nat : Donate(c, x)
           \/ \E a, b \in Accounts, s \in Nat : Transfer(a, b, s)
           \/ Tick
           \/ UNCHANGED vars
<1>1. /\ Amounts \subseteq Nat /\ 1 .. MaxSupply \subseteq Nat
      /\ \A S : [S -> Returns] \subseteq [S -> Nat]
      /\ \A S : [S -> Leftovers] \subseteq [S -> Nat]
  <2>1. Amounts \subseteq Nat /\ Returns \subseteq Nat /\ Leftovers \subseteq Nat
    BY NavAssumptions
  <2>2. 1 .. MaxSupply \subseteq Nat
    BY NavAssumptions
  <2>3. ASSUME NEW S PROVE [S -> Returns] \subseteq [S -> Nat]
    BY <2>1
  <2>4. ASSUME NEW S PROVE [S -> Leftovers] \subseteq [S -> Nat]
    BY <2>1
  <2> QED
    BY <2>1, <2>2, <2>3, <2>4
<1>2. ASSUME NEW u \in Accounts, NEW x \in Amounts, Deposit(u, x)
      PROVE  \E v \in Accounts, y \in Nat : Deposit(v, y)
  BY <1>1, <1>2
<1>3. ASSUME NEW u \in Accounts, NEW s \in 1 .. MaxSupply, NEW slippage \in Slippages,
             NEW returned \in [Sellers(s) -> Returns], Withdraw(u, s, slippage, returned)
      PROVE  \E v \in Accounts, t \in Nat, sl \in Slippages :
                 \E ret \in [Sellers(t) -> Nat] : Withdraw(v, t, sl, ret)
  <2>1. s \in Nat /\ returned \in [Sellers(s) -> Nat]
    BY <1>1
  <2> QED
    BY <1>3, <2>1
<1>4. ASSUME NEW returned \in [Trades -> Returns], NEW unfilled \in [Trades -> Leftovers],
             Run(returned, unfilled)
      PROVE  \E ret \in [Trades -> Nat], unf \in [Trades -> Nat] : Run(ret, unf)
  <2>1. returned \in [Trades -> Nat] /\ unfilled \in [Trades -> Nat]
    BY <1>1
  <2> QED
    BY <1>4, <2>1
<1>5. ASSUME NEW c \in Coins, NEW x \in Amounts, Donate(c, x)
      PROVE  \E b \in Coins, y \in Nat : Donate(b, y)
  BY <1>1, <1>5
<1>6. ASSUME NEW a \in Accounts, NEW b \in Accounts, NEW s \in 1 .. MaxSupply, Transfer(a, b, s)
      PROVE  \E x, y \in Accounts, t \in Nat : Transfer(x, y, t)
  BY <1>1, <1>6
<1>7. UserStep => \/ \E u \in Accounts, x \in Nat : Deposit(u, x)
                  \/ \E u \in Accounts, s \in Nat, slippage \in Slippages :
                         \E returned \in [Sellers(s) -> Nat] :
                             Withdraw(u, s, slippage, returned)
                  \/ /\ Priced
                     /\ \E returned \in [Trades -> Nat], unfilled \in [Trades -> Nat] :
                            Run(returned, unfilled)
  BY <1>2, <1>3, <1>4, Zenon DEF UserStep
<1>8. SudoStep => \/ \E list \in TargetLists : UpdateAllocation(list)
                  \/ \E r \in RateChoices, c \in Collectors : UpdateFees(r, c)
  BY Zenon DEF SudoStep
<1> QED
  BY <1>5, <1>6, <1>7, <1>8, Zenon DEF Next

LEMMA NavNextInv == ASSUME NavInv, [Next]_vars PROVE NavInv'
<1>1. ASSUME NEW u \in Accounts, NEW x \in Nat, Deposit(u, x) PROVE NavInv'
  BY <1>1, NavDepositInv
<1>2. ASSUME NEW u \in Accounts, NEW s \in Nat, NEW slippage \in Slippages,
             NEW returned \in [Sellers(s) -> Nat], Withdraw(u, s, slippage, returned)
      PROVE  NavInv'
  BY <1>2, NavWithdrawInv
<1>3. ASSUME Priced, NEW returned \in [Trades -> Nat], NEW unfilled \in [Trades -> Nat],
             Run(returned, unfilled)
      PROVE  NavInv'
  BY <1>3, NavRunInv
<1>4. ASSUME NEW list \in TargetLists, UpdateAllocation(list) PROVE NavInv'
  BY <1>4, NavUpdateInv
<1>5. ASSUME NEW r \in RateChoices, NEW c \in Collectors, UpdateFees(r, c) PROVE NavInv'
  BY <1>5, NavFeesInv
<1>6. ASSUME NEW c \in Coins, NEW p \in Prices[c], PriceMoves(c, p) PROVE NavInv'
  BY <1>6, NavPriceInv
<1>7. ASSUME NEW c \in Coins, NEW x \in Nat, Donate(c, x) PROVE NavInv'
  BY <1>7, NavDonateInv
<1>8. ASSUME NEW a \in Accounts, NEW b \in Accounts, NEW s \in Nat, Transfer(a, b, s)
      PROVE  NavInv'
  BY <1>8, NavTransferInv
<1>9. CASE Tick
  <2>1. elapsed' \in Nat /\ UNCHANGED <<alloc, vault, price, supply, shares, rates, collector>>
    BY <1>9 DEF Tick, NavInv, TypeOK
  <2> QED
    BY <2>1, NavStill
<1>10. CASE UNCHANGED vars
  <2>1. elapsed' \in Nat /\ UNCHANGED <<alloc, vault, price, supply, shares, rates, collector>>
    BY <1>10 DEF vars, NavInv, TypeOK
  <2> QED
    BY <2>1, NavStill
<1> QED
  BY Steps, <1>1, <1>2, <1>3, <1>4, <1>5, <1>6, <1>7, <1>8, <1>9, <1>10, Zenon

-----------------------------------------------------------------------------
(* Value                                                                   *)

\* What the vault has of a listed coin is worth.
VaultWorth(c) == IF c \in DOMAIN alloc THEN vault[c] * price[c] ELSE 0

\* The total as a sum that grows from coin to coin.
LEMMA TotalSteps ==
    ASSUME TypeOK
    PROVE  \E s \in [0 .. N -> Int] :
               /\ s[0] = VaultWorth(0)
               /\ \A c \in 1 .. N : s[c] = s[c - 1] + VaultWorth(c)
               /\ \A c \in 0 .. N : VaultWorth(c) \in Nat
               /\ Total = s[N]
<1> DEFINE f == [c \in DOMAIN alloc |-> Value(c)]
           s == Upto(f, N)
<1>1. \A c \in DOMAIN alloc : f[c] = vault[c] * price[c] /\ f[c] \in Nat
  BY ValueIs DEF TypeOK
<1>2. \A c : PartOf(f, c) = VaultWorth(c) /\ VaultWorth(c) \in Nat
  BY <1>1 DEF PartOf, VaultWorth
<1>3. DOMAIN f = DOMAIN alloc
  OBVIOUS
<1>4. Total = s[N]
  BY DEF Total, Sum
<1> HIDE DEF f
<1>5. /\ s \in [0 .. N -> Int] /\ s[0] = PartOf(f, 0)
      /\ \A c \in 1 .. N : s[c] = s[c - 1] + PartOf(f, c)
  <2>1. \A c \in DOMAIN f : f[c] \in Int
    BY <1>1, <1>3
  <2> QED
    BY <2>1, CoinsAre, UptoSteps
<1> HIDE DEF s
<1>6. /\ s \in [0 .. N -> Int]
      /\ s[0] = VaultWorth(0)
      /\ \A c \in 1 .. N : s[c] = s[c - 1] + VaultWorth(c)
      /\ \A c \in 0 .. N : VaultWorth(c) \in Nat
      /\ Total = s[N]
  BY <1>2, <1>4, <1>5
<1> QED
  BY <1>6, Zenon

LEMMA TotalStepsPrimed ==
    ASSUME TypeOK'
    PROVE  \E s \in [0 .. N -> Int] :
               /\ s[0] = VaultWorth(0)'
               /\ \A c \in 1 .. N : s[c] = s[c - 1] + VaultWorth(c)'
               /\ \A c \in 0 .. N : VaultWorth(c)' \in Nat
               /\ Total' = s[N]
<1> DEFINE f == [c \in DOMAIN alloc' |-> DecMul(FromRatio(vault'[c], 1), price'[c])]
           s == Upto(f, N)
<1>1. \A c \in DOMAIN alloc' : f[c] = vault'[c] * price'[c] /\ f[c] \in Nat
  <2> SUFFICES ASSUME NEW c \in DOMAIN alloc'
               PROVE  f[c] = vault'[c] * price'[c] /\ f[c] \in Nat
    OBVIOUS
  <2>1. vault'[c] \in Nat /\ price'[c] \in Nat
    BY DEF TypeOK
  <2> QED
    BY <2>1, ExactProduct
<1>2. \A c : PartOf(f, c) = VaultWorth(c)' /\ VaultWorth(c)' \in Nat
  BY <1>1 DEF PartOf, VaultWorth
<1>3. DOMAIN f = DOMAIN alloc'
  OBVIOUS
<1>4. Total' = s[N]
  BY DEF Total, Sum, Value
<1> HIDE DEF f
<1>5. /\ s \in [0 .. N -> Int] /\ s[0] = PartOf(f, 0)
      /\ \A c \in 1 .. N : s[c] = s[c - 1] + PartOf(f, c)
  <2>1. \A c \in DOMAIN f : f[c] \in Int
    BY <1>1, <1>3
  <2> QED
    BY <2>1, CoinsAre, UptoSteps
<1> HIDE DEF s
<1>6. /\ s \in [0 .. N -> Int]
      /\ s[0] = VaultWorth(0)'
      /\ \A c \in 1 .. N : s[c] = s[c - 1] + VaultWorth(c)'
      /\ \A c \in 0 .. N : VaultWorth(c)' \in Nat
      /\ Total' = s[N]
  BY <1>2, <1>4, <1>5
<1> QED
  BY <1>6, Zenon

\* The value after a step is a natural number too.
LEMMA NavBoundsPrimed == ASSUME TypeOK' PROVE Total' \in Nat
<1> DEFINE f == [c \in DOMAIN alloc' |-> DecMul(FromRatio(vault'[c], 1), price'[c])]
<1>1. \A c \in DOMAIN alloc' : f[c] \in Nat
  <2> SUFFICES ASSUME NEW c \in DOMAIN alloc' PROVE f[c] \in Nat
    OBVIOUS
  <2>1. vault'[c] \in Nat /\ price'[c] \in Nat
    BY DEF TypeOK
  <2> QED
    BY <2>1, ExactProduct
<1>2. DOMAIN f = DOMAIN alloc' /\ Total' = Upto(f, N)[N]
  BY DEF Total, Sum, Value
<1> HIDE DEF f
<1>3. Upto(f, N) \in [0 .. N -> Nat]
  BY <1>1, <1>2, CoinsAre, SumOfNats
<1> QED
  BY <1>2, <1>3, CoinsAre

LEMMA StepStaysUp ==
    ASSUME NEW s \in Int, NEW t \in Int, NEW f \in Int, NEW g \in Int,
           NEW v \in Int, NEW w \in Int,
           t + f - s >= 0, (g - f) + w - v >= 0
    PROVE  (t + w) + g - (s + v) >= 0
OBVIOUS

\* What a step takes from the value of each coin, taken together with what an
\* account F of it adds, is taken from the total.
LEMMA TotalMoves ==
    ASSUME TypeOK, TypeOK', NEW F, \A c \in 0 .. N : F[c] \in Int,
           F[0] + VaultWorth(0)' - VaultWorth(0) >= 0,
           \A c \in 1 .. N : (F[c] - F[c - 1]) + VaultWorth(c)' - VaultWorth(c) >= 0
    PROVE  Total' + F[N] >= Total
<1>1. PICK s \in [0 .. N -> Int] :
        /\ s[0] = VaultWorth(0)
        /\ \A c \in 1 .. N : s[c] = s[c - 1] + VaultWorth(c)
        /\ \A c \in 0 .. N : VaultWorth(c) \in Nat
        /\ Total = s[N]
  BY TotalSteps
<1>2. PICK t \in [0 .. N -> Int] :
        /\ t[0] = VaultWorth(0)'
        /\ \A c \in 1 .. N : t[c] = t[c - 1] + VaultWorth(c)'
        /\ \A c \in 0 .. N : VaultWorth(c)' \in Nat
        /\ Total' = t[N]
  BY TotalStepsPrimed
<1> DEFINE H == [c \in 0 .. N |-> t[c] + F[c] - s[c]]
<1>3. N \in Nat /\ 0 \in 0 .. N /\ N \in 0 .. N
  BY CoinsAre
<1>4. \A c \in 0 .. N : H[c] = t[c] + F[c] - s[c] /\ H[c] \in Int
  <2>1. \A c \in 0 .. N : t[c] \in Int /\ s[c] \in Int
    OBVIOUS
  <2> QED
    BY <2>1
<1> HIDE DEF H
<1>5. H[0] >= 0
  <2>1. H[0] = VaultWorth(0)' + F[0] - VaultWorth(0)
    BY <1>1, <1>2, <1>3, <1>4
  <2>2. F[0] \in Int /\ VaultWorth(0)' \in Nat /\ VaultWorth(0) \in Nat
    BY <1>1, <1>2, <1>3
  <2> QED
    BY <2>1, <2>2
<1>6. ASSUME NEW c \in 1 .. N, H[c - 1] >= 0 PROVE H[c] >= 0
  <2>1. c \in 0 .. N /\ c - 1 \in 0 .. N
    BY <1>3
  <2>2. /\ H[c] = t[c] + F[c] - s[c] /\ H[c - 1] = t[c - 1] + F[c - 1] - s[c - 1]
        /\ t[c - 1] \in Int /\ s[c - 1] \in Int /\ F[c] \in Int /\ F[c - 1] \in Int
    BY <1>4, <2>1
  <2>3. /\ t[c] = t[c - 1] + VaultWorth(c)' /\ VaultWorth(c)' \in Int
        /\ s[c] = s[c - 1] + VaultWorth(c) /\ VaultWorth(c) \in Int
    BY <1>1, <1>2, <2>1
  <2>4. (F[c] - F[c - 1]) + VaultWorth(c)' - VaultWorth(c) >= 0
    OBVIOUS
  <2> DEFINE v == VaultWorth(c)
             w == VaultWorth(c)'
  <2>5. /\ t[c] = t[c - 1] + w /\ w \in Int
        /\ s[c] = s[c - 1] + v /\ v \in Int
        /\ (F[c] - F[c - 1]) + w - v >= 0
    BY <2>3, <2>4
  <2>6. t[c - 1] + F[c - 1] - s[c - 1] >= 0
    BY <1>6, <2>2
  <2> HIDE DEF v, w
  <2>7. (t[c - 1] + w) + F[c] - (s[c - 1] + v) >= 0
    BY <2>2, <2>5, <2>6, StepStaysUp, Zenon
  <2> QED
    BY <2>2, <2>5, <2>7, Zenon
<1>7. H[N] >= 0
  <2>1. \A c \in 0 .. N : H[c] \in Int
    BY <1>4
  <2>2. \A c \in 0 .. N : H[c] >= 0
    BY <1>3, <1>5, <1>6, <2>1, StaysUp
  <2> QED
    BY <1>3, <2>2
<1>8. H[N] = Total' + F[N] - Total /\ Total' \in Int /\ Total \in Int /\ F[N] \in Int
  BY <1>1, <1>2, <1>3, <1>4
<1> QED
  BY <1>7, <1>8

\* A step that leaves every balance and unlists only what is not there.
LEMMA TotalKept ==
    ASSUME TypeOK, TypeOK', price' = price, \A c \in Coins : vault'[c] >= vault[c],
           \A c \in DOMAIN alloc \ DOMAIN alloc' : vault[c] = 0
    PROVE  Total' >= Total
<1> DEFINE F == [c \in 0 .. N |-> 0]
<1>1. \A c \in Coins : VaultWorth(c)' - VaultWorth(c) >= 0
  <2> SUFFICES ASSUME NEW c \in Coins PROVE VaultWorth(c)' - VaultWorth(c) >= 0
    OBVIOUS
  <2>1. /\ vault[c] \in Nat /\ vault'[c] \in Nat /\ price[c] \in Nat
        /\ vault'[c] >= vault[c] /\ price'[c] = price[c]
    BY DEF TypeOK
  <2>2. vault[c] * price[c] <= vault'[c] * price[c]
    BY <2>1, TimesMonotone
  <2>3. vault[c] * price[c] \in Nat /\ vault'[c] * price[c] \in Nat
    BY <2>1
  <2>4. CASE c \in DOMAIN alloc'
    BY <2>1, <2>2, <2>3, <2>4 DEF VaultWorth
  <2>5. CASE c \notin DOMAIN alloc'
    <3>1. VaultWorth(c)' = 0
      BY <2>5 DEF VaultWorth
    <3>2. VaultWorth(c) = 0
      BY <2>1, <2>5 DEF VaultWorth
    <3> QED
      BY <3>1, <3>2
  <2> QED
    BY <2>4, <2>5
<1>2. \A c \in 0 .. N : VaultWorth(c) \in Nat /\ VaultWorth(c)' \in Nat
  BY TotalSteps, TotalStepsPrimed
<1>3. \A c \in 0 .. N : F[c] = 0
  OBVIOUS
<1>4. N \in Nat /\ 0 \in 0 .. N /\ N \in 0 .. N /\ Coins = 0 .. N
  BY CoinsAre
<1> HIDE DEF F
<1>5. \A c \in 1 .. N : c \in 0 .. N /\ c - 1 \in 0 .. N
  BY <1>4
<1>6. F[0] + VaultWorth(0)' - VaultWorth(0) >= 0
  BY <1>1, <1>2, <1>3, <1>4
<1>7. \A c \in 1 .. N : (F[c] - F[c - 1]) + VaultWorth(c)' - VaultWorth(c) >= 0
  BY <1>1, <1>2, <1>3, <1>4, <1>5
<1>8. Total' + F[N] >= Total
  <2>1. \A c \in 0 .. N : F[c] \in Int
    BY <1>3
  <2> QED
    BY <1>6, <1>7, <2>1, TotalMoves
<1>9. Total' \in Int
  BY <1>4, TotalStepsPrimed
<1> QED
  BY <1>3, <1>4, <1>8, <1>9

\* What the trades in d may lose.
Losses == [d \in Trades |-> DecMul(Gap(d), alloc[d].slippage) + 1 + BuyPrice(d)]

LEMMA LossSteps ==
    ASSUME NavInv, Priced
    PROVE  /\ TradingLoss = Upto(Losses, N)[N] /\ TradingLoss \in Nat
           /\ Upto(Losses, N) \in [0 .. N -> Nat]
           /\ \A c \in 1 .. N : /\ PartOf(Losses, c) \in Nat
                                /\ Upto(Losses, N)[c] = Upto(Losses, N)[c - 1] + PartOf(Losses, c)
           /\ \A d \in Trades :
                  PartOf(Losses, d) = DecMul(Gap(d), alloc[d].slippage) + 1 + BuyPrice(d)
<1>1. TypeOK
  BY DEF NavInv
<1>2. \A d \in Trades : d \in Others
  BY DEF Trades
<1>3. \A d \in Trades : DecMul(Gap(d), alloc[d].slippage) + 1 + BuyPrice(d) \in Nat
  <2> SUFFICES ASSUME NEW d \in Trades
               PROVE  DecMul(Gap(d), alloc[d].slippage) + 1 + BuyPrice(d) \in Nat
    OBVIOUS
  <2>1. DecMul(Gap(d), alloc[d].slippage) \in Nat /\ BuyPrice(d) \in Nat
    BY <1>1, <1>2, ReturnBounds, OfferBounds
  <2> QED
    BY <2>1
<1>4. /\ DOMAIN Losses = Trades
      /\ \A d \in Trades : /\ Losses[d] = DecMul(Gap(d), alloc[d].slippage) + 1 + BuyPrice(d)
                           /\ Losses[d] \in Nat
  BY <1>3 DEF Losses
<1>5. \A c : PartOf(Losses, c) \in Nat
  BY <1>4 DEF PartOf
<1>6. \A d \in Trades :
          PartOf(Losses, d) = DecMul(Gap(d), alloc[d].slippage) + 1 + BuyPrice(d)
  BY <1>4 DEF PartOf
<1>7. TradingLoss = Upto(Losses, N)[N]
  BY DEF TradingLoss, Sum, Losses, BuyPrice
<1>8. Upto(Losses, N) \in [0 .. N -> Nat]
  BY <1>4, CoinsAre, SumOfNats
<1>9. \A c \in 1 .. N : Upto(Losses, N)[c] = Upto(Losses, N)[c - 1] + PartOf(Losses, c)
  <2>1. \A c \in DOMAIN Losses : Losses[c] \in Int
    BY <1>4
  <2> QED
    BY <2>1, CoinsAre, UptoSteps
<1>10. TradingLoss \in Nat
  BY <1>7, <1>8, CoinsAre
<1> QED
  BY <1>5, <1>6, <1>7, <1>8, <1>9, <1>10

\* What KeepsValueStep asks of a step.
ValueKept ==
    Total' + (IF supply' = supply + AumDue THEN TradingLoss ELSE 0) >= (supply' - AumDue) * Nav

LEMMA Difference ==
    ASSUME NEW x \in Int, NEW y \in Int, NEW z \in Int
    PROVE  /\ x <= y + z => x - z \in Int /\ x - z <= y
           /\ x + (-z) >= y => x >= y + z
OBVIOUS

\* A step that takes nothing and mints no more than the fee.
LEMMA StillWorth ==
    ASSUME NavInv, Priced, supply > 0, Total' \in Nat, Total' >= Total, supply' \in Nat,
           supply' <= supply + AumDue
    PROVE  ValueKept
<1>1. /\ Total \in Nat /\ Nav \in Nat /\ Nav * supply <= Total
      /\ supply \in Nat /\ AumDue \in Nat /\ TradingLoss \in Nat
  BY NavBounds, AumDueType, LossSteps DEF NavInv, TypeOK
<1> DEFINE k == supply' - AumDue
<1>2. k \in Int /\ k <= supply
  <2>1. supply \in Int /\ AumDue \in Int /\ supply' \in Int /\ supply' <= supply + AumDue
    BY <1>1
  <2> QED
    BY <2>1, Difference
<1> HIDE DEF k
<1>3. k * Nav <= supply * Nav /\ supply * Nav = Nav * supply
  BY <1>1, <1>2, TimesMonotone
<1>4. k * Nav \in Int /\ supply * Nav \in Int
  BY <1>1, <1>2
<1>5. Total' >= k * Nav
  BY <1>1, <1>3, <1>4
<1>6. Total' + TradingLoss >= k * Nav
  BY <1>1, <1>4, <1>5
<1> QED
  BY <1>5, <1>6 DEF ValueKept, k

\* A deposit brings the value of the shares it mints.
LEMMA DepositValue ==
    ASSUME NavInv, NavInv', supply > 0, NEW u \in Accounts, NEW x \in Nat, Deposit(u, x)
    PROVE  ValueKept
<1> DEFINE p == price[Quote]
           m == Minted(x)
           F == [c \in 0 .. N |-> -(x * p)]
<1>1. TypeOK /\ TypeOK' /\ Priced /\ Nav > 0
  BY DEF NavInv, Deposit
<1>2. /\ vault' = Credit(vault, Quote, x) /\ UNCHANGED <<alloc, price>>
      /\ supply' = supply + m - 0 + AumDue
  BY DEF Deposit, Accrue
<1>3. p \in Nat /\ m \in Nat /\ m * Nav <= x * p /\ x * p \in Nat
  <2>1. p \in Nat
    BY <1>1, CoinsAre DEF TypeOK
  <2> QED
    BY <1>1, <2>1, MintedBounds
<1>4. /\ N \in Nat /\ 0 \in 0 .. N /\ N \in 0 .. N /\ Coins = 0 .. N /\ Quote = 0
      /\ \A c \in 1 .. N : c \in 0 .. N /\ c - 1 \in 0 .. N
  BY CoinsAre DEF Quote
<1>5. /\ vault[0] \in Nat /\ vault'[0] = vault[0] + x
      /\ \A c \in 1 .. N : vault'[c] = vault[c]
      /\ 0 \in DOMAIN alloc /\ price'[0] = p
  BY <1>1, <1>2, <1>4 DEF Credit, TypeOK
<1>6. \A c \in 0 .. N : VaultWorth(c) \in Nat /\ VaultWorth(c)' \in Nat
  BY <1>1, TotalSteps, TotalStepsPrimed
<1>7. VaultWorth(0)' = VaultWorth(0) + x * p
  <2>1. VaultWorth(0) = vault[0] * p /\ VaultWorth(0)' = vault'[0] * p
    BY <1>2, <1>4, <1>5 DEF VaultWorth
  <2>2. (vault[0] + x) * p = vault[0] * p + x * p
    BY <1>3, <1>5
  <2> QED
    BY <1>5, <2>1, <2>2
<1>8. \A c \in 1 .. N : VaultWorth(c)' = VaultWorth(c)
  BY <1>2, <1>5 DEF VaultWorth
<1> HIDE DEF p, m
<1>9. Total' + F[N] >= Total
  <2>1. \A c \in 0 .. N : F[c] = -(x * p) /\ F[c] \in Int
    BY <1>3
  <2> HIDE DEF F
  <2>2. F[0] + VaultWorth(0)' - VaultWorth(0) >= 0
    <3>1. F[0] = -(x * p) /\ VaultWorth(0) \in Nat
      BY <1>4, <1>6, <2>1
    <3> QED
      BY <1>3, <1>7, <3>1
  <2>3. \A c \in 1 .. N : (F[c] - F[c - 1]) + VaultWorth(c)' - VaultWorth(c) >= 0
    <3> SUFFICES ASSUME NEW c \in 1 .. N
                 PROVE  (F[c] - F[c - 1]) + VaultWorth(c)' - VaultWorth(c) >= 0
      OBVIOUS
    <3>1. F[c] = -(x * p) /\ F[c - 1] = -(x * p) /\ VaultWorth(c) \in Nat
      BY <1>4, <1>6, <2>1
    <3> QED
      BY <1>3, <1>8, <3>1
  <2> QED
    BY <1>1, <2>1, <2>2, <2>3, TotalMoves
<1>10. /\ Total \in Nat /\ Nav \in Nat /\ Nav * supply <= Total
       /\ supply \in Nat /\ AumDue \in Nat /\ TradingLoss \in Nat
  BY <1>1, NavBounds, AumDueType, LossSteps DEF TypeOK
<1>11. Total' \in Int /\ F[N] = -(x * p)
  BY <1>1, <1>4, TotalStepsPrimed
<1>12. Total' >= Total + x * p
  <2> DEFINE d == x * p
             t == Total'
             o == Total
  <2> HIDE DEF F
  <2>1. d \in Int /\ t \in Int /\ o \in Int /\ t + (-d) >= o
    <3>1. t + F[N] >= o /\ F[N] = -d
      BY <1>9, <1>11
    <3>2. d \in Int /\ t \in Int /\ o \in Int
      BY <1>3, <1>10, <1>11
    <3> QED
      BY <3>1, <3>2
  <2> HIDE DEF d, t, o
  <2>2. t >= o + d
    BY <2>1, Difference
  <2> QED
    BY <2>2 DEF d, t, o
<1>13. /\ supply' - AumDue = supply + m
       /\ (supply + m) * Nav = Nav * supply + m * Nav
       /\ Nav * supply \in Nat /\ m * Nav \in Nat
  BY <1>2, <1>3, <1>10
<1>14. Total' >= (supply' - AumDue) * Nav /\ (supply' - AumDue) * Nav \in Int
  BY <1>3, <1>10, <1>11, <1>12, <1>13
<1>15. Total' + TradingLoss >= (supply' - AumDue) * Nav
  BY <1>10, <1>11, <1>14
<1> QED
  BY <1>11, <1>14, <1>15 DEF ValueKept

\* What the sold coins bring in is taken off what is still to be brought in.
LEMMA SellSteps ==
    ASSUME TypeOK, Priced, NEW s \in Nat, TxFee(rates.transaction, s) <= s,
           NEW slippage, NEW returned, ExitValue(s) > 0, MayPay(s, slippage, returned)
    PROVE  \E R \in [0 .. N -> Nat] :
               /\ R[0] = Remaining(s)
               /\ \A c \in 1 .. N : R[c] <= R[c - 1]
               /\ \A c \in 1 .. N : c \in DOMAIN alloc =>
                      PaidOut(s)[c] * price[c] <= (R[c - 1] - R[c]) * One
<1>1. /\ Remaining(s) \in Nat /\ N \in Nat /\ Coins = 0 .. N /\ Quote = 0
      /\ One \in Nat /\ One > 0
  BY ExitBounds, CoinsAre, OneAssumption DEF Quote
<1>2. \A c \in Coins :
        PaidOut(s)[c] = IF ExitValue(s) = 0 THEN 0
                        ELSE IF c = Quote THEN SendQuote(s)
                        ELSE IF Remaining(s) > 0 /\ c \in Sellers(s) THEN SellUnits(s, c)
                        ELSE 0
  BY DEF PaidOut
<1>3. \A c \in 1 .. N :
        /\ c \in Coins /\ c # Quote /\ c \in 0 .. N /\ c - 1 \in 0 .. N
        /\ c \in DOMAIN alloc => price[c] \in Nat
  BY <1>1 DEF TypeOK
<1>4. CASE Remaining(s) = 0
  <2> DEFINE R == [c \in 0 .. N |-> 0]
  <2>1. \A c \in 0 .. N : R[c] = 0
    OBVIOUS
  <2>2. R \in [0 .. N -> Nat]
    OBVIOUS
  <2> HIDE DEF R
  <2>3. ASSUME NEW c \in 1 .. N, c \in DOMAIN alloc
        PROVE  PaidOut(s)[c] * price[c] <= (R[c - 1] - R[c]) * One
    <3>1. PaidOut(s)[c] = 0 /\ price[c] \in Nat
      BY <1>2, <1>3, <1>4, <2>3
    <3>2. R[c - 1] = 0 /\ R[c] = 0
      BY <1>3, <2>1
    <3> QED
      BY <1>1, <3>1, <3>2
  <2>4. R[0] = Remaining(s) /\ \A c \in 1 .. N : R[c] <= R[c - 1]
    BY <1>1, <1>3, <1>4, <2>1
  <2> QED
    BY <2>2, <2>3, <2>4, Zenon
<1>5. CASE Remaining(s) # 0
  <2> DEFINE R == [c \in 0 .. N |-> Rest(s)[c]]
  <2>1. Others # {} => OthersWeight > 0
    BY <1>5 DEF MayPay
  <2>2. /\ \A c \in 0 .. N : Rest(s)[c] \in Nat
        /\ Rest(s)[0] = Remaining(s)
        /\ \A c \in 1 .. N : Rest(s)[c] <= Rest(s)[c - 1]
    BY <1>1, <2>1, RestSteps
  <2>3. \A c \in 0 .. N : R[c] = Rest(s)[c]
    OBVIOUS
  <2>4. R \in [0 .. N -> Nat]
    BY <2>2
  <2> HIDE DEF R
  <2>5. R[0] = Remaining(s) /\ \A c \in 1 .. N : R[c] <= R[c - 1]
    BY <1>1, <1>3, <2>2, <2>3
  <2>6. ASSUME NEW c \in 1 .. N, c \in DOMAIN alloc
        PROVE  PaidOut(s)[c] * price[c] <= (R[c - 1] - R[c]) * One
    <3>1. c \in Others /\ c \in Coins /\ price[c] \in Nat
      BY <1>3, <2>6 DEF Others
    <3>2. /\ Part(s, c) \in Nat /\ SellUnits(s, c) \in Nat
          /\ SellUnits(s, c) * price[c] <= Part(s, c) * One
      BY <1>1, <2>1, <3>1, SellBounds
    <3>3. Part(s, c) = R[c - 1] - R[c]
      BY <1>3, <2>3 DEF Part
    <3>4. Part(s, c) * One \in Nat
      BY <1>1, <3>2
    <3>5. PaidOut(s)[c] = 0 \/ PaidOut(s)[c] = SellUnits(s, c)
      BY <1>2, <1>3, <3>1
    <3>6. PaidOut(s)[c] * price[c] <= Part(s, c) * One
      BY <3>1, <3>2, <3>4, <3>5
    <3> QED
      BY <3>3, <3>6
  <2> QED
    BY <2>4, <2>5, <2>6, Zenon
<1> QED
  BY <1>4, <1>5

\* A withdrawal is paid no more than the shares it burns are worth.
LEMMA WithdrawValue ==
    ASSUME NavInv, NavInv', supply > 0, NEW u \in Accounts, NEW s \in Nat, NEW slippage,
           NEW returned, Withdraw(u, s, slippage, returned)
    PROVE  ValueKept
<1>1. /\ TypeOK /\ TypeOK' /\ Priced /\ TxFee(rates.transaction, s) <= s
      /\ ExitValue(s) > 0 => MayPay(s, slippage, returned)
      /\ vault' = [c \in Coins |-> vault[c] - PaidOut(s)[c]]
      /\ UNCHANGED <<alloc, price>>
      /\ supply' = supply + 0 - NetShares(s) + AumDue
  BY DEF Withdraw, MayLeave, NavInv, Accrue
<1>2. /\ Total \in Nat /\ Nav \in Nat /\ Nav * supply <= Total
      /\ supply \in Nat /\ AumDue \in Nat /\ TradingLoss \in Nat
  BY <1>1, NavBounds, AumDueType, LossSteps DEF TypeOK
<1>3. /\ NetShares(s) \in Nat /\ ExitValue(s) \in Nat /\ ExitAmount(s) \in Nat
      /\ ExitAmount(s) * price[Quote] <= NetShares(s) * Nav
      /\ SendQuote(s) \in Nat /\ SendQuote(s) <= ExitAmount(s)
      /\ Remaining(s) \in Nat
      /\ Remaining(s) * One <= (ExitAmount(s) - SendQuote(s)) * price[Quote]
  BY <1>1, ExitBounds
<1>4. /\ N \in Nat /\ 0 \in 0 .. N /\ N \in 0 .. N /\ Coins = 0 .. N /\ Quote = 0
      /\ \A c \in 1 .. N : c \in 0 .. N /\ c - 1 \in 0 .. N
      /\ One \in Nat /\ One > 0
  BY CoinsAre, OneAssumption DEF Quote
<1>5. Total' \in Nat
  BY <1>1, NavBoundsPrimed
<1>6. CASE ExitValue(s) = 0
  <2>1. \A c \in Coins : PaidOut(s)[c] = 0
    BY <1>6 DEF PaidOut
  <2>2. \A c \in Coins : vault'[c] >= vault[c]
    BY <1>1, <2>1 DEF TypeOK
  <2>3. Total' >= Total
    BY <1>1, <2>2, TotalKept
  <2>4. supply' \in Nat /\ supply' <= supply + AumDue
    BY <1>1, <1>2, <1>3 DEF TypeOK
  <2> QED
    BY <1>1, <1>5, <2>3, <2>4, StillWorth
<1>7. CASE ExitValue(s) > 0
  <2>1. PICK R \in [0 .. N -> Nat] :
          /\ R[0] = Remaining(s)
          /\ \A c \in 1 .. N : R[c] <= R[c - 1]
          /\ \A c \in 1 .. N : c \in DOMAIN alloc =>
                 PaidOut(s)[c] * price[c] <= (R[c - 1] - R[c]) * One
    BY <1>1, <1>7, SellSteps
  <2> DEFINE p == price[Quote]
             q == SendQuote(s)
             F == [c \in 0 .. N |-> q * p + (Remaining(s) - R[c]) * One]
  <2>2. p \in Nat /\ q \in Nat /\ q * p \in Nat /\ 0 \in DOMAIN alloc /\ p = price[0]
    <3>1. Quote \in DOMAIN alloc /\ Quote \in Coins /\ price \in [Coins -> Nat]
      BY <1>1, CoinsAre DEF TypeOK
    <3>2. p \in Nat
      BY <3>1
    <3>3. q \in Nat
      BY <1>3
    <3>4. 0 \in DOMAIN alloc /\ p = price[0]
      BY <1>4, <3>1
    <3> HIDE DEF p, q
    <3>5. q * p \in Nat
      BY <3>2, <3>3
    <3> QED
      BY <3>2, <3>3, <3>4, <3>5
  <2>3. \A c \in 0 .. N : R[c] \in Nat
    OBVIOUS
  <2>4. PaidOut(s)[0] = q
    BY <1>4, <1>7 DEF PaidOut
  <2> HIDE DEF p, q
  <2>5. \A c \in 0 .. N : /\ F[c] = q * p + (Remaining(s) - R[c]) * One
                          /\ F[c] \in Int
    <3>1. \A c \in 0 .. N : (Remaining(s) - R[c]) * One \in Int
      BY <1>3, <1>4, <2>3
    <3> QED
      BY <2>2, <3>1
  <2> HIDE DEF F
  <2>6. \A c \in 0 .. N : VaultWorth(c) \in Nat /\ VaultWorth(c)' \in Nat
    BY <1>1, TotalSteps, TotalStepsPrimed
  <2>7. F[0] + VaultWorth(0)' - VaultWorth(0) >= 0
    <3>1. F[0] = q * p
      <4>1. (Remaining(s) - R[0]) * One = 0
        BY <1>3, <1>4, <2>1
      <4> QED
        BY <1>4, <2>2, <2>5, <4>1
    <3>2. VaultWorth(0) = vault[0] * p /\ VaultWorth(0)' = vault'[0] * p
      BY <1>1, <2>2 DEF VaultWorth
    <3>3. vault'[0] = vault[0] - q /\ vault[0] \in Nat
      BY <1>1, <1>4, <2>4 DEF TypeOK
    <3>4. (vault[0] - q) * p = vault[0] * p - q * p /\ vault[0] * p \in Int
      BY <2>2, <3>3
    <3> DEFINE v == VaultWorth(0)
               w == VaultWorth(0)'
    <3>5. w = v - q * p /\ v \in Int
      BY <2>2, <3>2, <3>3, <3>4
    <3> HIDE DEF v, w
    <3>6. F[0] + w - v >= 0
      BY <2>2, <3>1, <3>5
    <3> QED
      BY <3>6 DEF v, w
  <2>8. ASSUME NEW c \in 1 .. N
        PROVE  (F[c] - F[c - 1]) + VaultWorth(c)' - VaultWorth(c) >= 0
    <3> DEFINE a == R[c - 1]
               b == R[c]
    <3>1. c \in 0 .. N /\ c - 1 \in 0 .. N /\ c \in Coins
      BY <1>4
    <3>2. a \in Nat /\ b \in Nat /\ b <= a
      BY <2>1, <2>3, <3>1
    <3>3. F[c] - F[c - 1] = (a - b) * One
      <4>1. /\ F[c] = q * p + (Remaining(s) - b) * One
            /\ F[c - 1] = q * p + (Remaining(s) - a) * One
        BY <2>5, <3>1
      <4> HIDE DEF a, b
      <4>2. (Remaining(s) - b) * One - (Remaining(s) - a) * One = (a - b) * One
        BY <1>3, <1>4, <3>2
      <4>3. (Remaining(s) - b) * One \in Int /\ (Remaining(s) - a) * One \in Int
        BY <1>3, <1>4, <3>2
      <4> QED
        BY <2>2, <4>1, <4>2, <4>3
    <3>4. (a - b) * One \in Nat
      BY <1>4, <3>2
    <3>5. CASE c \in DOMAIN alloc
      <4>1. PaidOut(s)[c] * price[c] <= (a - b) * One
        BY <2>1, <3>5
      <4>2. PaidOut(s)[c] \in Nat /\ price[c] \in Nat /\ vault[c] \in Nat
        BY <1>1, <3>1, PaidBounds DEF TypeOK
      <4>3. VaultWorth(c) = vault[c] * price[c] /\ VaultWorth(c)' = vault'[c] * price[c]
        BY <1>1, <3>5 DEF VaultWorth
      <4>4. vault'[c] = vault[c] - PaidOut(s)[c]
        BY <1>1, <3>1
      <4>5. /\ (vault[c] - PaidOut(s)[c]) * price[c]
                   = vault[c] * price[c] - PaidOut(s)[c] * price[c]
            /\ vault[c] * price[c] \in Int /\ PaidOut(s)[c] * price[c] \in Int
        BY <4>2
      <4> HIDE DEF a, b
      <4> QED
        BY <3>3, <3>4, <4>1, <4>3, <4>4, <4>5
    <3>6. CASE c \notin DOMAIN alloc
      <4>1. VaultWorth(c) = 0 /\ VaultWorth(c)' = 0
        BY <1>1, <3>6 DEF VaultWorth
      <4> HIDE DEF a, b
      <4> QED
        BY <3>3, <3>4, <4>1
    <3> QED
      BY <3>5, <3>6
  <2>9. Total' + F[N] >= Total
    BY <1>1, <2>5, <2>7, <2>8, TotalMoves
  <2>10. F[N] <= NetShares(s) * Nav /\ F[N] \in Int
    <3> DEFINE e == ExitAmount(s)
               r == Remaining(s)
    <3>1. F[N] = q * p + (r - R[N]) * One /\ F[N] \in Int /\ R[N] \in Nat
      BY <1>4, <2>3, <2>5
    <3>2. (r - R[N]) * One <= r * One
      <4>1. r - R[N] \in Int /\ r \in Int /\ r - R[N] <= r
        BY <1>3, <3>1
      <4> QED
        BY <1>4, <4>1, TimesMonotone
    <3>3. r * One <= (e - q) * p /\ e * p <= NetShares(s) * Nav /\ e \in Nat /\ r \in Nat
      BY <1>3 DEF p, q
    <3> HIDE DEF e, r
    <3>4. (e - q) * p = e * p - q * p /\ e * p \in Int
      BY <2>2, <3>3
    <3>5. r * One \in Int /\ (r - R[N]) * One \in Int
      BY <1>4, <3>1, <3>3
    <3>6. NetShares(s) * Nav \in Int
      BY <1>2, <1>3
    <3> DEFINE x == (r - R[N]) * One
               y == r * One
               z == NetShares(s) * Nav
               k == e * p
               l == q * p
    <3>7. /\ F[N] = l + x /\ x <= y /\ y <= k - l /\ k <= z
          /\ x \in Int /\ y \in Int /\ z \in Int /\ k \in Int /\ l \in Int
      BY <2>2, <3>1, <3>2, <3>3, <3>4, <3>5, <3>6
    <3> HIDE DEF x, y, z, k, l
    <3>8. F[N] <= z
      BY <3>7
    <3> QED
      BY <3>1, <3>8 DEF z
  <2>11. (supply' - AumDue) * Nav = Nav * supply - NetShares(s) * Nav
         /\ NetShares(s) * Nav \in Int /\ Nav * supply \in Int
    <3>1. supply' - AumDue = supply - NetShares(s)
      BY <1>1, <1>2, <1>3
    <3> QED
      BY <1>2, <1>3, <3>1
  <2>12. Total' >= (supply' - AumDue) * Nav /\ (supply' - AumDue) * Nav \in Int
    BY <1>2, <1>5, <2>9, <2>10, <2>11
  <2>13. Total' + TradingLoss >= (supply' - AumDue) * Nav
    BY <1>2, <1>5, <2>12
  <2> QED
    BY <1>2, <1>5, <2>12, <2>13 DEF ValueKept
<1> QED
  BY <1>3, <1>6, <1>7

\* A trade that returns what is asked of it, in units of two prices.
LEMMA TradeArithmetic ==
    ASSUME NEW o \in Nat, NEW r \in Nat, NEW f \in Nat, NEW g \in Nat, NEW loss \in Nat,
           NEW m \in Nat, NEW op \in Nat, NEW bp \in Nat,
           o * op <= g, g <= m * bp + loss, r >= m
    PROVE  /\ (f - o) * op \in Int /\ r * bp \in Nat
           /\ (f - o) * op + r * bp + loss >= 0
<1>1. (f - o) * op = f * op - o * op /\ f * op \in Nat /\ o * op \in Nat
  OBVIOUS
<1>2. m * bp <= r * bp /\ m * bp \in Nat /\ r * bp \in Nat
  BY TimesMonotone
<1> DEFINE a == (f - o) * op
           b == r * bp
           c == f * op
           d == o * op
           e == m * bp
<1>3. /\ a = c - d /\ e <= b /\ d <= g /\ g <= e + loss
      /\ c \in Nat /\ d \in Nat /\ e \in Nat /\ b \in Nat
  BY <1>1, <1>2
<1> HIDE DEF a, b, c, d, e
<1>4. a \in Int /\ b \in Nat /\ a + b + loss >= 0
  BY <1>3
<1> QED
  BY <1>4 DEF a, b

\* The quote and the coin a trade moves lose no more than it may.
LEMMA TradeValue ==
    ASSUME NavInv, NavInv', Priced,
           NEW returned \in [Trades -> Nat], NEW unfilled \in [Trades -> Nat],
           Run(returned, unfilled), NEW d \in Trades
    PROVE  /\ Flow(returned, unfilled, d) * price[Quote] \in Int
           /\ VaultWorth(d) \in Nat /\ VaultWorth(d)' \in Nat
           /\ Flow(returned, unfilled, d) * price[Quote] + PartOf(Losses, d)
                  + VaultWorth(d)' - VaultWorth(d) >= 0
<1> DEFINE o == Offer(d)
           r == returned[d]
           f == unfilled[d]
           g == Gap(d)
           m == TradeMinReturn(d)
           p == price[d]
           p0 == price[Quote]
           loss == PartOf(Losses, d)
           v == VaultWorth(d)
           w == VaultWorth(d)'
           n == Flow(returned, unfilled, d) * p0
<1>1. TypeOK /\ TypeOK' /\ d \in Others
  BY DEF NavInv, Trades
<1>2. d \in DOMAIN alloc /\ d \in Coins /\ d # Quote /\ d \in 1 .. N /\ d \in 0 .. N
  BY <1>1, OthersAre, CoinsAre
<1>3. /\ o \in Nat /\ g \in Nat /\ OfferPrice(d) \in Nat /\ BuyPrice(d) \in Nat
      /\ o * OfferPrice(d) <= g
  BY <1>1, OfferBounds, GapBounds
<1>4. /\ m \in Nat /\ loss \in Nat
      /\ g <= m * BuyPrice(d) + loss
  <2>1. /\ loss = DecMul(Gap(d), alloc[d].slippage) + 1 + BuyPrice(d)
        /\ loss \in Nat
    BY <1>2, LossSteps
  <2>2. /\ m \in Nat
        /\ g <= m * BuyPrice(d) + (DecMul(Gap(d), alloc[d].slippage) + 1 + BuyPrice(d))
    BY <1>1, ReturnBounds
  <2> HIDE DEF g, m, loss
  <2> QED
    BY <2>1, <2>2
<1>5. r \in Nat /\ f \in Nat /\ r >= m /\ UNCHANGED <<alloc, price>>
  BY DEF Run, MayTrade
<1>6. vault'[d] = IF Above(d) THEN vault[d] - o + f ELSE vault[d] + r
  BY <1>1, <1>2, RunVault
<1>7. /\ v = vault[d] * p /\ w = vault'[d] * p
      /\ vault[d] \in Nat /\ vault'[d] \in Nat /\ p \in Nat /\ p0 \in Nat
  <2>1. v = vault[d] * p /\ w = vault'[d] * p
    BY <1>2, <1>5 DEF VaultWorth
  <2> QED
    BY <1>1, <1>2, <2>1, CoinsAre DEF TypeOK
<1>8. Flow(returned, unfilled, d) = IF Above(d) THEN r ELSE f - o
  BY DEF Flow
<1>9. /\ (f - o) * OfferPrice(d) \in Int /\ r * BuyPrice(d) \in Nat
      /\ (f - o) * OfferPrice(d) + r * BuyPrice(d) + loss >= 0
  <2> HIDE DEF o, r, f, g, loss, m
  <2> QED
    BY <1>3, <1>4, <1>5, TradeArithmetic
<1>10. n \in Int /\ n + w - v = (f - o) * OfferPrice(d) + r * BuyPrice(d)
  <2>1. CASE Above(d)
    <3>1. OfferPrice(d) = p /\ BuyPrice(d) = p0 /\ n = r * p0 /\ vault'[d] = vault[d] - o + f
      BY <1>6, <1>8, <2>1 DEF OfferPrice, BuyPrice
    <3> HIDE DEF o, r, f, p, p0, v, w, n
    <3>2. w - v = (f - o) * p
      BY <1>3, <1>5, <1>7, <3>1
    <3>3. r * p0 \in Int /\ w \in Int /\ v \in Int /\ (f - o) * p \in Int
      BY <1>3, <1>5, <1>7
    <3> QED
      BY <3>1, <3>2, <3>3
  <2>2. CASE ~Above(d)
    <3>1. OfferPrice(d) = p0 /\ BuyPrice(d) = p /\ n = (f - o) * p0 /\ vault'[d] = vault[d] + r
      BY <1>6, <1>8, <2>2 DEF OfferPrice, BuyPrice
    <3> HIDE DEF o, r, f, p, p0, v, w, n
    <3>2. w - v = r * p
      BY <1>3, <1>5, <1>7, <3>1
    <3>3. r * p \in Int /\ w \in Int /\ v \in Int /\ (f - o) * p0 \in Int
      BY <1>3, <1>5, <1>7
    <3> QED
      BY <3>1, <3>2, <3>3
  <2> QED
    BY <2>1, <2>2
<1>11. v \in Nat /\ w \in Nat
  BY <1>7
<1> DEFINE a == (f - o) * OfferPrice(d)
           b == r * BuyPrice(d)
<1>12. a \in Int /\ b \in Int /\ a + b + loss >= 0 /\ n + w - v = a + b
  BY <1>9, <1>10
<1> HIDE DEF a, b, n, w, v, loss
<1>13. n + loss + w - v >= 0
  BY <1>4, <1>10, <1>11, <1>12
<1> QED
  BY <1>10, <1>11, <1>13 DEF n, w, v, loss

\* Run loses no more than its trades may.
LEMMA RunValue ==
    ASSUME NavInv, NavInv', Priced, supply > 0,
           NEW returned \in [Trades -> Nat], NEW unfilled \in [Trades -> Nat],
           Run(returned, unfilled)
    PROVE  ValueKept
<1> DEFINE q  == QuoteAfter(Trades, returned, unfilled)
           L  == Upto(Losses, N)
           p0 == price[Quote]
           F  == [c \in 0 .. N |-> (q[c] - q[N]) * p0 + L[c]]
<1>1. /\ TypeOK /\ TypeOK' /\ UNCHANGED <<alloc, price>>
      /\ supply' = supply + 0 - 0 + AumDue
  BY DEF NavInv, Run, Accrue
<1>2. /\ N \in Nat /\ 0 \in 0 .. N /\ N \in 0 .. N /\ Coins = 0 .. N /\ Quote = 0
      /\ \A c \in 1 .. N : c \in 0 .. N /\ c - 1 \in 0 .. N /\ c # Quote /\ c \in Coins
  BY CoinsAre DEF Quote
<1>3. /\ \A c \in 0 .. N : q[c] \in Nat
      /\ q[0] = vault[Quote]
      /\ \A c \in 1 .. N : /\ Flow(returned, unfilled, c) \in Int
                           /\ q[c] = q[c - 1] + Flow(returned, unfilled, c)
  BY <1>1, QuoteSteps
<1>4. /\ TradingLoss = L[N] /\ TradingLoss \in Nat
      /\ \A c \in 0 .. N : L[c] \in Nat
      /\ \A c \in 1 .. N : PartOf(Losses, c) \in Nat /\ L[c] = L[c - 1] + PartOf(Losses, c)
  <2>1. L \in [0 .. N -> Nat]
    BY LossSteps
  <2>2. \A c \in 0 .. N : L[c] \in Nat
    BY <2>1
  <2> QED
    BY <2>2, LossSteps
<1>5. p0 \in Nat /\ 0 \in DOMAIN alloc /\ p0 = price[0] /\ vault[0] \in Nat
  BY <1>1, <1>2 DEF TypeOK
<1>6. /\ vault'[0] = q[N]
      /\ \A c \in Coins \ {Quote} : c \notin Trades => vault'[c] = vault[c]
  <2>1. vault'[Quote] = q[N]
    BY <1>1, RunVault
  <2> QED
    BY <1>1, <1>2, <2>1, RunVault
<1> HIDE DEF q, L, p0
<1>7. \A c \in 0 .. N : /\ F[c] = (q[c] - q[N]) * p0 + L[c]
                        /\ F[c] \in Int
  <2>1. \A c \in 0 .. N : (q[c] - q[N]) * p0 \in Int
    BY <1>2, <1>3, <1>5
  <2> QED
    BY <1>4, <2>1
<1> HIDE DEF F
<1>8. F[0] + VaultWorth(0)' - VaultWorth(0) >= 0
  <2>1. VaultWorth(0) = vault[0] * p0 /\ VaultWorth(0)' = vault'[0] * p0
    BY <1>1, <1>5 DEF VaultWorth
  <2>2. VaultWorth(0) = q[0] * p0 /\ VaultWorth(0)' = q[N] * p0
    BY <1>2, <1>3, <1>6, <2>1
  <2>3. (q[0] - q[N]) * p0 = q[0] * p0 - q[N] * p0 /\ q[0] * p0 \in Int /\ q[N] * p0 \in Int
    BY <1>2, <1>3, <1>5
  <2>4. F[0] = (q[0] - q[N]) * p0 + L[0] /\ L[0] \in Nat
    BY <1>2, <1>4, <1>7
  <2> DEFINE v == VaultWorth(0)
             w == VaultWorth(0)'
             x == q[0] * p0
             y == q[N] * p0
  <2>5. v = x /\ w = y /\ x \in Int /\ y \in Int /\ F[0] = x - y + L[0]
    BY <2>2, <2>3, <2>4
  <2> HIDE DEF v, w, x, y
  <2>6. F[0] + w - v >= 0
    BY <2>4, <2>5
  <2> QED
    BY <2>6 DEF v, w
<1>9. ASSUME NEW c \in 1 .. N
      PROVE  (F[c] - F[c - 1]) + VaultWorth(c)' - VaultWorth(c) >= 0
  <2> DEFINE n == Flow(returned, unfilled, c)
             l == PartOf(Losses, c)
             v == VaultWorth(c)
             w == VaultWorth(c)'
  <2>1. F[c] - F[c - 1] = n * p0 + l /\ l \in Nat /\ n * p0 \in Int
    <3>1. /\ F[c] = (q[c] - q[N]) * p0 + L[c] /\ F[c - 1] = (q[c - 1] - q[N]) * p0 + L[c - 1]
          /\ q[c - 1] \in Nat /\ q[N] \in Nat /\ L[c - 1] \in Nat
      BY <1>2, <1>3, <1>4, <1>7
    <3>2. q[c] = q[c - 1] + n /\ n \in Int /\ L[c] = L[c - 1] + l /\ l \in Nat
      BY <1>3, <1>4
    <3> HIDE DEF n, l
    <3>3. (q[c] - q[N]) * p0 = (q[c - 1] - q[N]) * p0 + n * p0
      BY <1>5, <3>1, <3>2
    <3>4. (q[c - 1] - q[N]) * p0 \in Int /\ n * p0 \in Int
      BY <1>5, <3>1, <3>2
    <3> QED
      BY <3>1, <3>2, <3>3, <3>4
  <2>2. CASE c \in Trades
    <3>1. /\ n * p0 + l + w - v >= 0 /\ v \in Nat /\ w \in Nat
      BY <2>2, TradeValue DEF p0
    <3> DEFINE x == n * p0
    <3>2. F[c] - F[c - 1] = x + l /\ x \in Int /\ l \in Nat /\ x + l + w - v >= 0
      BY <2>1, <3>1
    <3> HIDE DEF n, l, v, w, x
    <3>3. (F[c] - F[c - 1]) + w - v >= 0
      BY <3>1, <3>2
    <3> QED
      BY <3>3 DEF v, w
  <2>3. CASE c \notin Trades
    <3>1. n = 0
      BY <2>3 DEF Flow
    <3>2. vault'[c] = vault[c]
      BY <1>2, <1>6, <2>3
    <3>3. w = v /\ v \in Nat
      <4>1. \A b \in 0 .. N : VaultWorth(b) \in Nat
        BY <1>1, TotalSteps
      <4> QED
        BY <1>1, <1>2, <3>2, <4>1 DEF VaultWorth
    <3> HIDE DEF n, l, v, w
    <3>4. n * p0 = 0
      BY <1>5, <3>1
    <3>5. (F[c] - F[c - 1]) + w - v >= 0
      BY <2>1, <3>3, <3>4
    <3> QED
      BY <3>5 DEF v, w
  <2> QED
    BY <2>2, <2>3
<1>10. Total' + F[N] >= Total
  BY <1>1, <1>7, <1>8, <1>9, TotalMoves
<1>11. F[N] = TradingLoss
  <2>1. F[N] = (q[N] - q[N]) * p0 + L[N]
    BY <1>2, <1>7
  <2>2. (q[N] - q[N]) * p0 = 0
    BY <1>2, <1>3, <1>5
  <2> QED
    BY <1>4, <2>1, <2>2
<1>12. /\ Total \in Nat /\ Nav \in Nat /\ Nav * supply <= Total
       /\ supply \in Nat /\ AumDue \in Nat /\ Total' \in Nat
  BY <1>1, NavBounds, NavBoundsPrimed, AumDueType DEF TypeOK
<1>13. supply' = supply + AumDue /\ (supply' - AumDue) * Nav = Nav * supply
  <2>1. supply' = supply + AumDue /\ supply' - AumDue = supply
    BY <1>1, <1>12
  <2> QED
    BY <1>12, <2>1
<1>14. Total' + TradingLoss >= (supply' - AumDue) * Nav
  <2>1. Nav * supply \in Nat
    BY <1>12
  <2> QED
    BY <1>4, <1>10, <1>11, <1>12, <1>13, <2>1
<1> QED
  BY <1>13, <1>14 DEF ValueKept

-----------------------------------------------------------------------------
(* The action properties                                                   *)

\* A step that mints nothing, pays nothing out and unlists only what is not there.
LEMMA OthersKeep ==
    ASSUME NavInv, NavInv', Priced, supply > 0, price' = price, supply' = supply,
           \A c \in Coins : vault'[c] >= vault[c],
           \A c \in DOMAIN alloc \ DOMAIN alloc' : vault[c] = 0
    PROVE  ValueKept
<1>1. TypeOK /\ TypeOK'
  BY DEF NavInv
<1>2. Total' >= Total /\ Total' \in Nat
  BY <1>1, TotalKept, NavBoundsPrimed
<1>3. supply' \in Nat /\ supply' <= supply + AumDue
  BY <1>1, AumDueType DEF TypeOK
<1> QED
  BY <1>2, <1>3, StillWorth

\* UpdateAllocation removes only coins the vault has nothing of.
LEMMA UpdateKeeps ==
    ASSUME NavInv, NavInv', Priced, supply > 0, NEW list \in TargetLists,
           UpdateAllocation(list)
    PROVE  ValueKept
<1>1. /\ \A d \in Others \ DOMAIN Saved(list) : vault[d] = 0
      /\ alloc' = Saved(list)
      /\ UNCHANGED <<vault, price, supply>>
  BY DEF UpdateAllocation, NewAlloc, Removable
<1>2. Quote \in DOMAIN alloc' /\ TypeOK
  BY DEF NavInv, TypeOK
<1>3. \A c \in DOMAIN alloc \ DOMAIN alloc' : vault[c] = 0
  BY <1>1, <1>2 DEF Others
<1>4. \A c \in Coins : vault'[c] >= vault[c]
  BY <1>1, <1>2 DEF TypeOK
<1> QED
  BY <1>1, <1>3, <1>4, OthersKeep

LEMMA DonateKeeps ==
    ASSUME NavInv, NavInv', Priced, supply > 0, NEW c \in Coins, NEW x \in Nat, Donate(c, x)
    PROVE  ValueKept
<1>1. vault' = Credit(vault, c, x) /\ UNCHANGED <<alloc, price, supply>>
  BY DEF Donate
<1>2. \A b \in Coins : vault'[b] >= vault[b]
  BY <1>1 DEF Credit, NavInv, TypeOK
<1> QED
  BY <1>1, <1>2, OthersKeep

\* Every other step leaves the vault, the list and the supply.
LEMMA StillKeeps ==
    ASSUME NavInv, NavInv', Priced, supply > 0, UNCHANGED <<alloc, vault, price, supply>>
    PROVE  ValueKept
<1>1. \A b \in Coins : vault'[b] >= vault[b]
  BY DEF NavInv, TypeOK
<1> QED
  BY <1>1, OthersKeep

LEMMA StepKeepsValue ==
    ASSUME NavInv, NavInv', [Next]_vars
    PROVE  KeepsValueStep
<1> SUFFICES ASSUME supply > 0, price' = price, Priced
             PROVE  ValueKept
  BY DEF KeepsValueStep, ValueKept
<1>1. ASSUME NEW u \in Accounts, NEW x \in Nat, Deposit(u, x) PROVE ValueKept
  BY <1>1, DepositValue
<1>2. ASSUME NEW u \in Accounts, NEW s \in Nat, NEW slippage \in Slippages,
             NEW returned \in [Sellers(s) -> Nat], Withdraw(u, s, slippage, returned)
      PROVE  ValueKept
  BY <1>2, WithdrawValue
<1>3. ASSUME Priced, NEW returned \in [Trades -> Nat], NEW unfilled \in [Trades -> Nat],
             Run(returned, unfilled)
      PROVE  ValueKept
  BY <1>3, RunValue
<1>4. ASSUME NEW list \in TargetLists, UpdateAllocation(list) PROVE ValueKept
  BY <1>4, UpdateKeeps
<1>5. ASSUME NEW r \in RateChoices, NEW c \in Collectors, UpdateFees(r, c) PROVE ValueKept
  <2>1. UNCHANGED <<alloc, vault, price, supply>>
    BY <1>5 DEF UpdateFees
  <2> QED
    BY <2>1, StillKeeps
<1>6. ASSUME NEW c \in Coins, NEW p \in Prices[c], PriceMoves(c, p) PROVE ValueKept
  <2>1. UNCHANGED <<alloc, vault, price, supply>>
    BY <1>6 DEF PriceMoves
  <2> QED
    BY <2>1, StillKeeps
<1>7. ASSUME NEW c \in Coins, NEW x \in Nat, Donate(c, x) PROVE ValueKept
  BY <1>7, DonateKeeps
<1>8. ASSUME NEW a \in Accounts, NEW b \in Accounts, NEW s \in Nat, Transfer(a, b, s)
      PROVE  ValueKept
  <2>1. UNCHANGED <<alloc, vault, price, supply>>
    BY <1>8 DEF Transfer
  <2> QED
    BY <2>1, StillKeeps
<1>9. CASE Tick
  <2>1. UNCHANGED <<alloc, vault, price, supply>>
    BY <1>9 DEF Tick
  <2> QED
    BY <2>1, StillKeeps
<1>10. CASE UNCHANGED vars
  <2>1. UNCHANGED <<alloc, vault, price, supply>>
    BY <1>10 DEF vars
  <2> QED
    BY <2>1, StillKeeps
<1> QED
  BY Steps, <1>1, <1>2, <1>3, <1>4, <1>5, <1>6, <1>7, <1>8, <1>9, <1>10, Zenon

\* What the coins below their targets are short of.
Shortage == [d \in Others |-> IF Above(d) THEN 0 ELSE Gap(d)]

LEMMA ShortageSteps ==
    ASSUME TypeOK
    PROVE  /\ \A c \in 0 .. N : Upto(Shortage, N)[c] \in Nat
           /\ \A c \in 1 .. N : /\ PartOf(Shortage, c) \in Nat
                                /\ Upto(Shortage, N)[c]
                                       = Upto(Shortage, N)[c - 1] + PartOf(Shortage, c)
           /\ \A d \in Others : ~Above(d) => PartOf(Shortage, d) = Gap(d)
           /\ Sum(Shortage) = Upto(Shortage, N)[N]
<1>1. /\ DOMAIN Shortage = Others
      /\ \A d \in Others : /\ Shortage[d] = IF Above(d) THEN 0 ELSE Gap(d)
                           /\ Shortage[d] \in Nat
  <2>1. \A d \in Others : Gap(d) \in Nat
    BY GapBounds
  <2> QED
    BY <2>1 DEF Shortage
<1>2. \A c : PartOf(Shortage, c) \in Nat
  BY <1>1 DEF PartOf
<1>3. \A d \in Others : ~Above(d) => PartOf(Shortage, d) = Gap(d)
  BY <1>1 DEF PartOf
<1>4. \A c \in 0 .. N : Upto(Shortage, N)[c] \in Nat
  <2>1. Upto(Shortage, N) \in [0 .. N -> Nat]
    BY <1>1, CoinsAre, SumOfNats
  <2> QED
    BY <2>1
<1>5. \A c \in 1 .. N :
          Upto(Shortage, N)[c] = Upto(Shortage, N)[c - 1] + PartOf(Shortage, c)
  <2>1. \A d \in DOMAIN Shortage : Shortage[d] \in Int
    BY <1>1
  <2> QED
    BY <2>1, CoinsAre, UptoSteps
<1> QED
  BY <1>2, <1>3, <1>4, <1>5 DEF Sum

\* What TowardsTarget asks of a step.
Towards ==
    /\ \A d \in Others : vault'[d] < vault[d] => vault'[d] * price[d] >= TargetValue(d)
    /\ vault'[Quote] * price[Quote] + Sum(Shortage) >= Value(Quote)

\* A step that takes nothing out of the vault.
LEMMA GrowsTowards ==
    ASSUME TypeOK, vault' \in [Coins -> Nat], \A c \in Coins : vault'[c] >= vault[c]
    PROVE  Towards
<1>1. \A d \in Others : ~(vault'[d] < vault[d])
  <2> SUFFICES ASSUME NEW d \in Others PROVE ~(vault'[d] < vault[d])
    OBVIOUS
  <2>1. vault'[d] \in Nat /\ vault[d] \in Nat /\ vault'[d] >= vault[d]
    BY OthersAre DEF TypeOK
  <2> QED
    BY <2>1
<1>2. vault'[Quote] * price[Quote] + Sum(Shortage) >= Value(Quote)
  <2> DEFINE a == vault[Quote]
             b == vault'[Quote]
             p == price[Quote]
             s == Sum(Shortage)
  <2>1. a \in Nat /\ b \in Nat /\ p \in Nat /\ a <= b /\ Value(Quote) = a * p
    BY CoinsAre, ValueIs DEF TypeOK
  <2>2. s \in Nat
    BY CoinsAre, ShortageSteps
  <2> HIDE DEF a, b, p, s
  <2>3. a * p <= b * p /\ a * p \in Nat /\ b * p \in Nat
    BY <2>1, TimesMonotone
  <2>4. b * p + s >= a * p
    BY <2>2, <2>3
  <2> QED
    BY <2>1, <2>4 DEF b, p, s
<1> QED
  BY <1>1, <1>2 DEF Towards

LEMMA SoldArithmetic ==
    ASSUME NEW v \in Nat, NEW o \in Nat, NEW f \in Nat, NEW p \in Nat,
           NEW t \in Nat, NEW g \in Nat, v * p = t + g, o * p <= g
    PROVE  (v - o + f) * p >= t
<1>1. (v - o + f) * p = v * p - o * p + f * p /\ f * p \in Nat /\ o * p \in Nat
  OBVIOUS
<1> DEFINE x == f * p
           y == o * p
<1>2. (v - o + f) * p = (t + g) - y + x /\ x \in Nat /\ y \in Nat /\ y <= g
  BY <1>1
<1> HIDE DEF x, y
<1> QED
  BY <1>2

LEMMA SpentArithmetic ==
    ASSUME NEW o \in Nat, NEW f \in Nat, NEW p \in Nat, NEW g \in Nat, o * p <= g
    PROVE  (f - o) * p + g >= 0
<1>1. (f - o) * p = f * p - o * p /\ f * p \in Nat /\ o * p \in Nat
  OBVIOUS
<1> DEFINE x == f * p
           y == o * p
<1>2. (f - o) * p = x - y /\ x \in Nat /\ y \in Nat /\ y <= g
  BY <1>1
<1> HIDE DEF x, y
<1> QED
  BY <1>2

\* Run sells no more of a coin than it is above its target.
LEMMA RunSells ==
    ASSUME NavInv, Priced,
           NEW returned \in [Trades -> Nat], NEW unfilled \in [Trades -> Nat],
           Run(returned, unfilled), NEW d \in Others, vault'[d] < vault[d]
    PROVE  vault'[d] * price[d] >= TargetValue(d)
<1>1. TypeOK
  BY DEF NavInv
<1>2. d \in Coins \ {Quote}
  BY <1>1, OthersAre
<1>3. vault'[d] = IF d \notin Trades THEN vault[d]
                  ELSE IF Above(d) THEN vault[d] - Offer(d) + unfilled[d]
                  ELSE vault[d] + returned[d]
  BY <1>1, <1>2, RunVault
<1>4. vault[d] \in Nat /\ price[d] \in Nat
  BY <1>1, <1>2 DEF TypeOK
<1>5. d \in Trades
  BY <1>3, <1>4
<1>6. returned[d] \in Nat /\ unfilled[d] \in Nat
  BY <1>5
<1>7. Above(d)
  BY <1>3, <1>4, <1>5, <1>6
<1>8. vault'[d] = vault[d] - Offer(d) + unfilled[d]
  BY <1>3, <1>5, <1>7
<1>9. Offer(d) \in Nat /\ Offer(d) * price[d] <= Gap(d)
  <2>1. OfferPrice(d) = price[d]
    BY <1>7 DEF OfferPrice
  <2> QED
    BY <1>1, <2>1, OfferBounds
<1>10. vault[d] * price[d] = TargetValue(d) + Gap(d) /\ TargetValue(d) \in Nat /\ Gap(d) \in Nat
  BY <1>1, <1>2, <1>7, GapBounds, ValueIs
<1> QED
  BY <1>4, <1>6, <1>8, <1>9, <1>10, SoldArithmetic

\* No trade spends more quote than its coin is short of.
LEMMA TradeSpends ==
    ASSUME NavInv, Priced,
           NEW returned \in [Trades -> Nat], NEW unfilled \in [Trades -> Nat],
           NEW c \in 1 .. N
    PROVE  /\ Flow(returned, unfilled, c) * price[Quote] \in Int
           /\ Flow(returned, unfilled, c) * price[Quote] + PartOf(Shortage, c) >= 0
<1> DEFINE p == price[Quote]
           n == Flow(returned, unfilled, c)
<1>1. TypeOK /\ p \in Nat
  BY CoinsAre DEF NavInv, TypeOK
<1>2. PartOf(Shortage, c) \in Nat
  BY <1>1, ShortageSteps
<1>3. CASE c \notin Trades
  <2>1. n = 0
    BY <1>3 DEF Flow
  <2> QED
    BY <1>1, <1>2, <2>1
<1>4. CASE c \in Trades /\ Above(c)
  <2>1. n = returned[c] /\ n \in Nat
    BY <1>4 DEF Flow
  <2> HIDE DEF n, p
  <2>2. n * p \in Nat
    BY <1>1, <2>1
  <2>3. n * p + PartOf(Shortage, c) >= 0
    BY <1>2, <2>2
  <2> QED
    BY <2>2, <2>3 DEF n, p
<1>5. CASE c \in Trades /\ ~Above(c)
  <2>1. n = unfilled[c] - Offer(c) /\ unfilled[c] \in Nat
    BY <1>5 DEF Flow
  <2>2. c \in Others
    BY <1>5 DEF Trades
  <2>3. Offer(c) \in Nat /\ Offer(c) * p <= Gap(c)
    <3>1. OfferPrice(c) = p
      BY <1>5 DEF OfferPrice
    <3> QED
      BY <1>1, <2>2, <3>1, OfferBounds
  <2>4. PartOf(Shortage, c) = Gap(c) /\ Gap(c) \in Nat
    BY <1>1, <1>5, <2>2, GapBounds, ShortageSteps
  <2> HIDE DEF n, p
  <2>5. n * p + Gap(c) >= 0
    BY <1>1, <2>1, <2>3, <2>4, SpentArithmetic
  <2>6. n * p \in Int
    BY <1>1, <2>1, <2>3
  <2> QED
    BY <2>4, <2>5, <2>6 DEF n, p
<1> QED
  BY <1>3, <1>4, <1>5

LEMMA SpentStep ==
    ASSUME NEW a \in Int, NEW n \in Int, NEW p \in Nat, NEW s \in Int, NEW t \in Int,
           NEW k \in Int, a * p + s - k >= 0, n * p + t >= 0
    PROVE  (a + n) * p + (s + t) - k >= 0
<1>1. (a + n) * p = a * p + n * p /\ a * p \in Int /\ n * p \in Int
  OBVIOUS
<1> DEFINE x == a * p
           y == n * p
<1>2. (a + n) * p = x + y /\ x \in Int /\ y \in Int /\ x + s - k >= 0 /\ y + t >= 0
  BY <1>1
<1> HIDE DEF x, y
<1> QED
  BY <1>2

\* All trades together spend no more quote than the buys are short of.
LEMMA RunSpends ==
    ASSUME NavInv, Priced,
           NEW returned \in [Trades -> Nat], NEW unfilled \in [Trades -> Nat],
           Run(returned, unfilled)
    PROVE  vault'[Quote] * price[Quote] + Sum(Shortage) >= Value(Quote)
<1> DEFINE q == QuoteAfter(Trades, returned, unfilled)
           S == Upto(Shortage, N)
           p == price[Quote]
           k == Value(Quote)
           H == [c \in 0 .. N |-> q[c] * p + S[c] - k]
<1>1. TypeOK /\ p \in Nat /\ k = vault[Quote] * p /\ k \in Nat
  BY CoinsAre, ValueIs DEF NavInv, TypeOK
<1>2. /\ N \in Nat /\ 0 \in 0 .. N /\ N \in 0 .. N
      /\ \A c \in 1 .. N : c \in 0 .. N /\ c - 1 \in 0 .. N
  BY CoinsAre
<1>3. /\ \A c \in 0 .. N : q[c] \in Nat
      /\ q[0] = vault[Quote]
      /\ \A c \in 1 .. N : /\ Flow(returned, unfilled, c) \in Int
                           /\ q[c] = q[c - 1] + Flow(returned, unfilled, c)
  BY <1>1, QuoteSteps
<1>4. /\ \A c \in 0 .. N : S[c] \in Nat
      /\ \A c \in 1 .. N : PartOf(Shortage, c) \in Nat /\ S[c] = S[c - 1] + PartOf(Shortage, c)
      /\ Sum(Shortage) = S[N]
  BY <1>1, ShortageSteps
<1>5. vault'[Quote] = q[N]
  BY <1>1, RunVault
<1>6. \A c \in 1 .. N : Flow(returned, unfilled, c) * p + PartOf(Shortage, c) >= 0
  BY TradeSpends
<1> HIDE DEF q, S, p, k
<1>7. \A c \in 0 .. N : H[c] = q[c] * p + S[c] - k /\ H[c] \in Int
  <2>1. \A c \in 0 .. N : q[c] * p \in Int
    BY <1>1, <1>3
  <2> QED
    BY <1>1, <1>4, <2>1
<1> HIDE DEF H
<1>8. H[0] >= 0
  <2>1. H[0] = q[0] * p + S[0] - k /\ S[0] \in Nat /\ q[0] * p = k
    BY <1>1, <1>2, <1>3, <1>4, <1>7
  <2> QED
    BY <1>1, <2>1
<1>9. ASSUME NEW c \in 1 .. N, H[c - 1] >= 0 PROVE H[c] >= 0
  <2> DEFINE n == Flow(returned, unfilled, c)
             t == PartOf(Shortage, c)
             a == q[c - 1]
             s == S[c - 1]
  <2>1. /\ n \in Int /\ t \in Int /\ a \in Int /\ s \in Int
        /\ q[c] = a + n /\ S[c] = s + t
    BY <1>2, <1>3, <1>4
  <2>2. H[c] = q[c] * p + S[c] - k /\ H[c - 1] = a * p + s - k
    BY <1>2, <1>7
  <2>3. n * p + t >= 0
    BY <1>6
  <2> HIDE DEF n, t, a, s
  <2>4. a * p + s - k >= 0
    BY <1>9, <2>2
  <2>5. (a + n) * p + (s + t) - k >= 0
    BY <1>1, <2>1, <2>3, <2>4, SpentStep
  <2> QED
    BY <2>1, <2>2, <2>5
<1>10. H[N] >= 0
  <2>1. \A c \in 0 .. N : H[c] \in Int
    BY <1>7
  <2>2. \A c \in 0 .. N : H[c] >= 0
    BY <1>2, <1>8, <1>9, <2>1, StaysUp
  <2> QED
    BY <1>2, <2>2
<1>11. q[N] * p + S[N] - k >= 0 /\ q[N] * p \in Int /\ S[N] \in Int /\ k \in Int
  BY <1>1, <1>2, <1>3, <1>4, <1>7, <1>10
<1>12. q[N] * p + S[N] >= k
  BY <1>11
<1> QED
  BY <1>4, <1>5, <1>12 DEF p, k

\* A withdrawal that burns nothing pays nothing.
LEMMA EmptyExit ==
    ASSUME NavInv, NEW u \in Accounts, NEW s \in Nat, NEW slippage, NEW returned,
           Withdraw(u, s, slippage, returned), supply' = supply + AumDue
    PROVE  vault' = vault
<1>1. /\ TypeOK /\ Priced /\ TxFee(rates.transaction, s) <= s
      /\ vault' = [c \in Coins |-> vault[c] - PaidOut(s)[c]]
      /\ supply' = supply + 0 - NetShares(s) + AumDue
  BY DEF NavInv, Withdraw, MayLeave, Accrue
<1>2. NetShares(s) \in Nat /\ supply \in Nat /\ AumDue \in Nat
  BY <1>1, ExitBounds, AumDueType DEF TypeOK
<1>3. NetShares(s) = 0
  BY <1>1, <1>2
<1>4. ExitValue(s) = 0
  <2>1. Nav \in Nat
    BY <1>1, NavBounds
  <2>2. Worth(0, Nav) \in Nat /\ Worth(0, Nav) * One <= 0 * Nav
    BY <2>1, WorthBounds
  <2>3. Worth(0, Nav) * One <= 0 /\ One \in Nat /\ One > 0
    BY <2>1, <2>2, OneAssumption
  <2> QED
    BY <1>3, <2>2, <2>3 DEF ExitValue
<1>5. \A c \in Coins : PaidOut(s)[c] = 0
  BY <1>4 DEF PaidOut
<1>6. vault \in [Coins -> Nat]
  BY <1>1 DEF TypeOK
<1>7. \A c \in Coins : vault[c] - PaidOut(s)[c] = vault[c]
  BY <1>5, <1>6
<1> QED
  BY <1>1, <1>6, <1>7

LEMMA StepRunsTowards ==
    ASSUME NavInv, NavInv', [Next]_vars
    PROVE  TowardsTarget
<1> SUFFICES ASSUME vault' # vault, supply' = supply + AumDue
             PROVE  Towards
  BY DEF TowardsTarget, Towards, Shortage
<1>1. /\ TypeOK /\ vault' \in [Coins -> Nat] /\ supply \in Nat /\ AumDue \in Nat
  BY AumDueType DEF NavInv, TypeOK
<1>2. ASSUME NEW u \in Accounts, NEW x \in Nat, Deposit(u, x) PROVE Towards
  <2>1. Minted(x) > 0 /\ Nav > 0 /\ supply' = supply + Minted(x) - 0 + AumDue
    BY <1>2 DEF Deposit, Accrue
  <2>2. Minted(x) \in Nat
    BY <1>1, <2>1, MintedBounds
  <2> QED
    BY <1>1, <2>1, <2>2
<1>3. ASSUME NEW u \in Accounts, NEW s \in Nat, NEW slippage \in Slippages,
             NEW returned \in [Sellers(s) -> Nat], Withdraw(u, s, slippage, returned)
      PROVE  Towards
  BY <1>3, EmptyExit
<1>4. ASSUME Priced, NEW returned \in [Trades -> Nat], NEW unfilled \in [Trades -> Nat],
             Run(returned, unfilled)
      PROVE  Towards
  BY <1>4, RunSells, RunSpends DEF Towards
<1>5. ASSUME NEW c \in Coins, NEW x \in Nat, Donate(c, x) PROVE Towards
  <2>1. \A b \in Coins : vault'[b] >= vault[b]
    BY <1>1, <1>5 DEF Donate, Credit, TypeOK
  <2> QED
    BY <1>1, <2>1, GrowsTowards
<1>6. ASSUME NEW list \in TargetLists, UpdateAllocation(list) PROVE Towards
  BY <1>6 DEF UpdateAllocation
<1>7. ASSUME NEW r \in RateChoices, NEW c \in Collectors, UpdateFees(r, c) PROVE Towards
  BY <1>7 DEF UpdateFees
<1>8. ASSUME NEW c \in Coins, NEW p \in Prices[c], PriceMoves(c, p) PROVE Towards
  BY <1>8 DEF PriceMoves
<1>9. ASSUME NEW a \in Accounts, NEW b \in Accounts, NEW s \in Nat, Transfer(a, b, s)
      PROVE  Towards
  BY <1>9 DEF Transfer
<1>10. CASE Tick
  BY <1>10 DEF Tick
<1>11. CASE UNCHANGED vars
  BY <1>11 DEF vars
<1> QED
  BY Steps, <1>2, <1>3, <1>4, <1>5, <1>6, <1>7, <1>8, <1>9, <1>10, <1>11, Zenon

-----------------------------------------------------------------------------
(* Who is covered by the quote in the vault can leave.                     *)

\* A rate of at most one never keeps more than the amount.
LEMMA FeeWithin ==
    ASSUME NEW rate \in Nat, rate <= One, NEW s \in Nat
    PROVE  TxFee(rate, s) \in Nat /\ TxFee(rate, s) <= s
<1> DEFINE x == s * rate
           q == (x + One - 1) \div One
<1>1. One \in Nat /\ One > 0 /\ x \in Nat /\ x <= s * One
  <2>1. One \in Nat /\ One > 0
    BY OneAssumption
  <2>2. rate * s <= One * s
    BY <2>1, TimesMonotone
  <2> QED
    BY <2>1, <2>2
<1>2. TxFee(rate, s) = q
  BY ExactProduct DEF TxFee, ToCeil
<1> HIDE DEF x
<1>3. q \in Nat /\ q * One <= x + One - 1
  <2>1. x + One - 1 \in Nat
    BY <1>1
  <2> QED
    BY <1>1, <2>1, FloorDivision
<1> HIDE DEF q
<1>4. q * One < (s + 1) * One
  <2>1. q * One \in Nat /\ s * One \in Nat /\ (s + 1) * One = s * One + One
    BY <1>1, <1>3
  <2> QED
    BY <1>1, <1>3, <2>1
<1>5. q < s + 1
  BY <1>1, <1>3, <1>4, Cancel
<1> QED
  BY <1>2, <1>3, <1>5

\* Only UpdateFees changes the rates, and it validates them.
LEMMA RatesStep == ASSUME ValidRates(rates), [Next]_vars PROVE ValidRates(rates)'
<1> USE DEF ValidRates
<1>1. ASSUME NEW u, NEW x, Deposit(u, x) PROVE ValidRates(rates)'
  BY <1>1 DEF Deposit
<1>2. ASSUME NEW u, NEW s, NEW slippage, NEW returned, Withdraw(u, s, slippage, returned)
      PROVE  ValidRates(rates)'
  BY <1>2 DEF Withdraw
<1>3. ASSUME NEW returned, NEW unfilled, Run(returned, unfilled) PROVE ValidRates(rates)'
  BY <1>3 DEF Run
<1>4. ASSUME NEW list, UpdateAllocation(list) PROVE ValidRates(rates)'
  BY <1>4 DEF UpdateAllocation
<1>5. ASSUME NEW r, NEW c, UpdateFees(r, c) PROVE ValidRates(rates)'
  BY <1>5 DEF UpdateFees
<1>6. ASSUME NEW c, NEW p, PriceMoves(c, p) PROVE ValidRates(rates)'
  BY <1>6 DEF PriceMoves
<1>7. ASSUME NEW c, NEW x, Donate(c, x) PROVE ValidRates(rates)'
  BY <1>7 DEF Donate
<1>8. ASSUME NEW a, NEW b, NEW s, Transfer(a, b, s) PROVE ValidRates(rates)'
  BY <1>8 DEF Transfer
<1>9. CASE Tick
  BY <1>9 DEF Tick
<1>10. CASE UNCHANGED vars
  BY <1>10 DEF vars
<1> QED
  BY <1>1, <1>2, <1>3, <1>4, <1>5, <1>6, <1>7, <1>8, <1>9, <1>10, Zenon
     DEF Next, UserStep, SudoStep

\* The whole amount is sent at once: nothing is left to sell for, and no
\* slippage asks for more than the amount.
LEMMA QuoteCovers ==
    ASSUME NavInv, Priced, NEW s \in Nat, TxFee(rates.transaction, s) <= s,
           0 < ExitAmount(s), ExitAmount(s) <= vault[Quote],
           NEW slippage \in Nat, slippage <= One, NEW returned
    PROVE  MayPay(s, slippage, returned)
<1> DEFINE x == ExitAmount(s)
           p == price[Quote]
<1>1. x \in Nat /\ vault[Quote] \in Nat /\ p \in Nat /\ One \in Nat
  BY ExitBounds, CoinsAre, OneAssumption DEF NavInv, TypeOK
<1>2. SendQuote(s) = x
  <2>1. Min({x, vault[Quote]}) \in {x, vault[Quote]} /\ Min({x, vault[Quote]}) <= x
        /\ Min({x, vault[Quote]}) <= vault[Quote]
        /\ x <= Min({x, vault[Quote]})
    <3> DEFINE S == {x, vault[Quote]}
    <3>1. x \in S /\ \A q \in S : x <= q
      BY <1>1
    <3> HIDE DEF S
    <3>2. Min(S) \in S /\ \A q \in S : Min(S) <= q
      BY <3>1, Zenon DEF Min
    <3> QED
      BY <3>1, <3>2 DEF S
  <2>2. Min({x, vault[Quote]}) = x
    BY <1>1, <2>1
  <2> QED
    BY <2>2 DEF SendQuote
<1>3. Remaining(s) = 0
  <2>1. Remaining(s) = Worth(0, p)
    BY <1>1, <1>2 DEF Remaining
  <2>2. Worth(0, p) \in Nat /\ Worth(0, p) * One <= 0 * p
    BY <1>1, WorthBounds
  <2>3. Worth(0, p) * One <= 0 * One
    BY <1>1, <2>2
  <2>4. Worth(0, p) <= 0
    BY <1>1, <2>2, <2>3, OneAssumption, Cancel
  <2> QED
    BY <2>1, <2>2, <2>4
<1>4. LeastAmount(s, slippage) <= x
  <2>1. One - slippage \in Nat /\ One - slippage <= One
    BY <1>1
  <2> QED
    BY <1>1, <2>1, PartBounds DEF LeastAmount
<1> QED
  BY <1>1, <1>2, <1>3, <1>4 DEF MayPay

\* ExitFromQuote: a withdrawal that the quote in the vault covers goes
\* through (Vault::withdraw), for any holding and any slippage.
LEMMA QuoteExits == ASSUME NavInv, ValidRates(rates) PROVE ExitFromQuote
<1> SUFFICES ASSUME NEW u \in Accounts, NEW s \in 1 .. shares[u],
                    Priced, supply + AumDue <= MaxSupply,
                    0 < ExitAmount(s), ExitAmount(s) <= vault[Quote],
                    NEW slippage \in Slippages, slippage <= One
             PROVE  MayLeave(u, s, slippage, <<>>)
  BY DEF ExitFromQuote
<1>1. s \in Nat /\ s > 0 /\ s <= shares[u]
  BY DEF NavInv, TypeOK
<1>2. rates.transaction \in Nat /\ rates.transaction <= One
  BY DEF NavInv, TypeOK, FeeRates, ValidRates
<1>3. TxFee(rates.transaction, s) <= s
  BY <1>1, <1>2, FeeWithin
<1>4. slippage \in Nat
  BY NavAssumptions
<1>5. MayPay(s, slippage, <<>>)
  BY <1>1, <1>3, <1>4, QuoteCovers
<1> QED
  BY <1>1, <1>3, <1>5 DEF MayLeave

-----------------------------------------------------------------------------
(* Theorems                                                                *)

\* NavInv holds in every state.
THEOREM NavInvariant == Spec => []NavInv
<1>1. Init => NavInv
  BY NavInitInv
<1>2. NavInv /\ [Next]_vars => NavInv'
  BY NavNextInv
<1> QED
  BY <1>1, <1>2, PTL DEF Spec

\* No balance, supply or weight goes below zero, and every target is one of its coin.
THEOREM TypeCorrect == Spec => []TypeOK
<1>1. NavInv => TypeOK
  BY DEF NavInv
<1> QED
  BY <1>1, NavInvariant, PTL

\* The targets that are saved of an accepted list (Vault::update_allocations) add up to
\* no more than one, also when the list names a coin several times.
THEOREM AlwaysAffordable == Spec => []TargetsAffordable
<1>1. NavInv => TargetsAffordable
  BY DEF NavInv
<1> QED
  BY <1>1, NavInvariant, PTL

\* The receipt tokens of all holders are exactly the supply, counted token by token: what
\* Deposit, Withdraw, Accrue and Transfer mint, burn and move stays in step with the supply.
THEOREM TokensAccounted == Spec => []Counts(shares, supply)
<1>1. NavInv => Counts(shares, supply)
  BY DEF NavInv
<1> QED
  BY <1>1, NavInvariant, PTL

\* No transaction takes from the value per share of those who stay (Vault::deposit,
\* Vault::withdraw, Vault::run): a deposit does not buy below Nav, a withdrawal is not paid
\* above it, and Run loses no more than the slippage it was given.
THEOREM ValueKeptByAll == Spec => KeepsValue
<1>1. NavInv /\ NavInv' /\ [Next]_vars => KeepsValueStep
  BY StepKeepsValue
<1>2. NavInv /\ NavInv' /\ [Next]_vars => [KeepsValueStep]_vars
  BY <1>1
<1> QED
  BY <1>2, NavInvariant, PTL DEF Spec, KeepsValue

\* Run moves towards the targets and not past them (AssetAllocation::rebalance_msg): what it
\* sells keeps its target value, and it spends no more quote than the buys are short of.
THEOREM TowardsByAll == Spec => RunsTowardsTarget
<1>1. NavInv /\ NavInv' /\ [Next]_vars => [TowardsTarget]_vars
  BY StepRunsTowards
<1> QED
  BY <1>1, NavInvariant, PTL DEF Spec, RunsTowardsTarget

\* Nobody whose withdrawal the quote in the vault covers is kept in: neither
\* FIN nor the other holders can make it fail.
THEOREM QuoteLetsOut == Spec => []ExitFromQuote
<1>1. Init => ValidRates(rates)
  BY DEF Init
<1>2. ValidRates(rates) /\ [Next]_vars => ValidRates(rates)'
  BY RatesStep
<1>3. NavInv /\ ValidRates(rates) => ExitFromQuote
  BY QuoteExits
<1>4. Spec => []ValidRates(rates)
  BY <1>1, <1>2, PTL DEF Spec
<1> QED
  BY <1>3, <1>4, NavInvariant, PTL
=============================================================================
