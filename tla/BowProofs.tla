----------------------------- MODULE BowProofs -----------------------------
(***************************************************************************)
(* What Bow's runs check on small pools, proved for all reserves, fees and *)
(* amounts: nothing goes below zero, what the strategy counts is backed,   *)
(* no step dilutes the liquidity shares, and quotes are honoured.          *)
(***************************************************************************)
EXTENDS Bow, WellFoundedInduction, TLAPS

-----------------------------------------------------------------------------
(* Roots                                                                   *)

\* The least number whose successor is too large is the root.
LEMMA RootExists ==
    ASSUME NEW n \in Nat
    PROVE  \E r \in 0 .. n : r * r <= n /\ n < (r + 1) * (r + 1)
<1> DEFINE S == {r \in Nat : n < (r + 1) * (r + 1)}
<1>1. n < (n + 1) * (n + 1)
  OBVIOUS
<1>2. n \in S
  BY <1>1
<1>3. IsWellFoundedOn(OpToRel(<, Nat), Nat)
  BY NatLessThanWellFounded, Zenon
<1>4. PICK r \in S : \A q \in S : ~ (<<q, r>> \in OpToRel(<, Nat))
  <2> HIDE DEF S
  <2> DEFINE R == OpToRel(<, Nat)
  <2>1. IsWellFoundedOn(R, Nat)
    BY <1>3, Zenon
  <2>2. S \subseteq Nat /\ S # {}
    BY <1>2 DEF S
  <2> HIDE DEF R
  <2>3. \E r \in S : \A q \in S : ~ (<<q, r>> \in R)
    BY <2>1, <2>2, WFMin, Zenon
  <2> QED
    BY <2>3, Zenon DEF R
<1>5. \A q \in Nat : q < r => q \notin S
  BY <1>4 DEF OpToRel
<1>6. r \in Nat /\ n < (r + 1) * (r + 1)
  OBVIOUS
<1>7. r * r <= n
  <2>1. CASE r = 0
    BY <2>1
  <2>2. CASE r > 0
    <3>1. r - 1 \in Nat /\ r - 1 \notin S
      BY <2>2, <1>5, <1>6
    <3> QED
      BY <3>1
  <2> QED
    BY <2>1, <2>2, <1>6
<1>8. r \in 0 .. n
  <2>1. r = 0 \/ r <= r * r
    BY <1>6
  <2> QED
    BY <2>1, <1>6, <1>7
<1> QED
  BY <1>6, <1>7, <1>8, Zenon

LEMMA Root ==
    ASSUME NEW n \in Nat
    PROVE  /\ Isqrt(n) \in Nat
           /\ Isqrt(n) * Isqrt(n) <= n
           /\ n < (Isqrt(n) + 1) * (Isqrt(n) + 1)
<1>1. /\ Isqrt(n) \in 0 .. n
      /\ Isqrt(n) * Isqrt(n) <= n /\ n < (Isqrt(n) + 1) * (Isqrt(n) + 1)
  BY RootExists, Zenon DEF Isqrt
<1> QED
  BY <1>1

\* A larger square has a larger root.
LEMMA RootLess ==
    ASSUME NEW a \in Nat, NEW b \in Nat, a * a < b * b
    PROVE  a < b
<1> SUFFICES ASSUME b <= a PROVE FALSE
  OBVIOUS
<1>1. b * b <= a * b
  OBVIOUS
<1>2. a * b <= a * a
  OBVIOUS
<1> QED
  BY <1>1, <1>2

LEMMA RootMonotone ==
    ASSUME NEW m \in Nat, NEW n \in Nat, m <= n
    PROVE  Isqrt(m) <= Isqrt(n)
<1> DEFINE a == Isqrt(m)
           b == Isqrt(n)
<1>1. a \in Nat /\ b \in Nat /\ a * a <= m /\ n < (b + 1) * (b + 1)
  BY Root
<1> HIDE DEF a, b
<1>2. a * a < (b + 1) * (b + 1)
  BY <1>1
<1>3. a < b + 1
  BY <1>1, <1>2, RootLess
<1> QED
  BY <1>1, <1>3 DEF a, b

-----------------------------------------------------------------------------
(* Roundings                                                               *)

LEMMA Divided ==
    ASSUME NEW a \in Nat, NEW b \in Nat \ {0}
    PROVE  /\ a \div b \in Nat
           /\ (a \div b) * b <= a
           /\ a < (a \div b) * b + b
OBVIOUS

\* A fraction of n is at most n.
LEMMA FractionAtMost ==
    ASSUME NEW n \in Nat, NEW part \in 0 .. One
    PROVE  FractionOf(n, part) \in 0 .. n
<1>1. One \in Nat \ {0}
  BY OneAssumption
<1> DEFINE f == (n * part) \div One
<1>2. n * part \in Nat /\ n * part <= n * One
  BY <1>1
<1>3. f \in Nat /\ f * One <= n * part
  BY <1>1, <1>2, Divided
<1> HIDE DEF f
<1>4. f * One <= n * One
  BY <1>1, <1>2, <1>3
<1>5. f <= n
  <2> SUFFICES ASSUME n + 1 <= f PROVE FALSE
    BY <1>3
  <2>1. (n + 1) * One <= f * One
    BY <1>1, <1>3
  <2>2. (n + 1) * One = n * One + One
    BY <1>1
  <2> QED
    BY <1>1, <1>3, <1>4, <2>1, <2>2
<1> QED
  BY <1>3, <1>5 DEF f, FractionOf

\* A part of a reserve is at most the reserve, and what stays is no less than
\* the part of those who stay.
LEMMA PartStays ==
    ASSUME NEW r \in Nat, NEW s \in Nat, NEW n \in Nat, n < s
    PROVE  /\ (r * n) \div s \in 0 .. r
           /\ r * (s - n) <= (r - (r * n) \div s) * s
<1> DEFINE p == (r * n) \div s
<1>1. r * n \in Nat /\ s \in Nat \ {0}
  OBVIOUS
<1>2. p \in Nat /\ p * s <= r * n
  BY <1>1, Divided
<1> HIDE DEF p
<1>3. r * n <= r * s
  OBVIOUS
<1>4. p <= r
  <2> SUFFICES ASSUME r + 1 <= p PROVE FALSE
    BY <1>2
  <2>1. (r + 1) * s <= p * s
    BY <1>2
  <2>2. (r + 1) * s = r * s + s
    OBVIOUS
  <2> QED
    BY <1>1, <1>2, <1>3, <2>1, <2>2
<1>5. r * (s - n) = r * s - r * n /\ (r - p) * s = r * s - p * s
  BY <1>2
<1> QED
  BY <1>2, <1>4, <1>5 DEF p

-----------------------------------------------------------------------------
(* The strategy                                                            *)

LEMMA ProductType ==
    ASSUME NEW s \in Reserves
    PROVE  K(s) \in Nat
<1>1. s.x \in Nat /\ s.y \in Nat
  BY DEF Reserves
<1> QED
  BY <1>1 DEF K

LEMMA StrategyType ==
    ASSUME TypeOK
    PROVE  strategy.fee \in 0 .. One
<1>1. strategy \in [step : Nat, minQuote : Nat, fee : Nat] /\ strategy.fee <= MaxFee
  BY BowAssumptions DEF TypeOK, ValidStrategy
<1> QED
  BY <1>1, BowAssumptions, OneAssumption

LEMMA LeftType ==
    ASSUME NEW s \in Reserves, NEW offer \in Nat, s.x > 0
    PROVE  Left(s, offer) \in Nat
<1> DEFINE d == FromRatio(K(s), s.x + offer)
<1>1. One \in Nat \ {0} /\ K(s) \in Nat /\ s.x + offer \in Nat \ {0}
  BY OneAssumption, ProductType DEF Reserves
<1>2. K(s) * One \in Nat
  BY <1>1
<1>3. d \in Nat
  BY <1>1, <1>2, Divided DEF FromRatio
<1> HIDE DEF d
<1>4. d + One - 1 \in Nat
  BY <1>1, <1>3
<1>5. (d + One - 1) \div One \in Nat
  BY <1>1, <1>4, Divided
<1> QED
  BY <1>5 DEF d, Left, ToCeil

\* A swap that pays something takes the offer in and at least the payment out
\* of the reserves, and their product does not fall.
LEMMA SwapKeeps ==
    ASSUME TypeOK, NEW s \in Reserves, NEW offer \in Nat, NEW ask \in Nat \ {0},
           ValidSwap(strategy, s, offer, ask)
    PROVE  /\ Swapped(s, offer) \in Reserves
           /\ Swapped(s, offer).x = s.x + offer
           /\ Swapped(s, offer).y + ask <= s.y
           /\ Swapped(s, offer).shares = s.shares
           /\ K(Swapped(s, offer)) >= K(s)
<1> DEFINE total == SwapReturn(s, offer)
<1>1. strategy.fee \in 0 .. One
  BY StrategyType
<1>2. s.x \in Nat /\ s.y \in Nat /\ s.shares \in Nat
  BY DEF Reserves
<1>3. \A n \in Nat : Net(strategy, n) \in Int /\ Net(strategy, n) <= n
  BY <1>1, FractionAtMost DEF Net
<1>4. s.x > 0
  <2> SUFFICES ASSUME s.x = 0 PROVE FALSE
    BY <1>2
  <2>1. total = 0
    BY DEF SwapReturn
  <2> QED
    BY <2>1, <1>3 DEF ValidSwap
<1>5. Left(s, offer) \in Nat
  BY <1>4, LeftType
<1>6. CanSwap(s, offer)
  BY <1>4 DEF ValidSwap
<1>7. Swapped(s, offer) = [x |-> s.x + offer, y |-> Left(s, offer), shares |-> s.shares]
  BY <1>2, <1>4 DEF Swapped, Reserves
<1>8. total = s.y - Left(s, offer) /\ total \in Nat
  BY <1>2, <1>4, <1>5, <1>6 DEF SwapReturn, CanSwap
<1>9. ask <= total
  BY <1>3, <1>8 DEF ValidSwap
<1>10. K(Swapped(s, offer)) >= K(s)
  BY <1>6 DEF CanSwap
<1>11. Swapped(s, offer) \in Reserves
  BY <1>2, <1>5, <1>7 DEF Reserves
<1> QED
  BY <1>2, <1>5, <1>7, <1>8, <1>9, <1>10, <1>11

\* What a deposit issues is whole, and no more than the growth of the root of
\* k pays for.
LEMMA IssuedAtMost ==
    ASSUME TypeOK, CanDeposit(pool), pool.shares > 0, NEW x \in Nat, NEW y \in Nat
    PROVE  /\ Minted(strategy, pool, x, y) \in Nat
           /\ Minted(strategy, pool, x, y) * Isqrt(K(pool))
                <= (Isqrt(K(Added(pool, x, y))) - Isqrt(K(pool))) * pool.shares
<1> DEFINE q  == Added(pool, x, y)
           a  == Isqrt(K(pool))
           b  == Isqrt(K(q))
           sh == pool.shares
           is == ((b - a) * sh) \div a
           bl == Balanced(pool, x, y)
<1>1. /\ pool \in Reserves /\ pool.x \in Nat \ {0} /\ pool.y \in Nat \ {0}
      /\ sh \in Nat \ {0}
  BY DEF TypeOK, CanDeposit, Reserves
<1>2. q = [x |-> pool.x + x, y |-> pool.y + y, shares |-> sh] /\ q \in Reserves
  BY <1>1 DEF Added, Reserves
<1>3. K(pool) \in Nat /\ K(q) \in Nat /\ K(pool) <= K(q) /\ K(pool) > 0
  <2>1. K(q) = (pool.x + x) * (pool.y + y)
    BY <1>2 DEF K
  <2>2. (pool.x + x) * (pool.y + y) = pool.x * pool.y + pool.x * y + x * (pool.y + y)
    BY <1>1
  <2>3. pool.x * y \in Nat /\ x * (pool.y + y) \in Nat
    BY <1>1
  <2>4. pool.x * pool.y \in Nat /\ pool.x * pool.y > 0
    BY <1>1
  <2> QED
    BY <2>1, <2>2, <2>3, <2>4 DEF K
<1>4. a \in Nat /\ b \in Nat /\ a <= b /\ a > 0
  <2>1. a \in Nat /\ b \in Nat /\ a <= b /\ K(pool) < (a + 1) * (a + 1)
    BY <1>3, Root, RootMonotone
  <2>2. a # 0
    BY <2>1, <1>3
  <2> QED
    BY <2>1, <2>2
<1>5. (b - a) * sh \in Nat /\ a \in Nat \ {0}
  BY <1>1, <1>4
<1>6. is \in Nat /\ is * a <= (b - a) * sh
  BY <1>5, Divided
<1>7. bl \in Nat
  <2>1. x * sh \in Nat /\ y * sh \in Nat
    BY <1>1
  <2>2. (x * sh) \div pool.x \in Nat /\ (y * sh) \div pool.y \in Nat
    BY <2>1, <1>1, Divided
  <2> QED
    BY <2>2 DEF Balanced, Smaller
<1>8. Issued(pool, x, y) = is
  BY DEF Issued
<1>9. strategy.fee \in 0 .. One
  BY StrategyType
<1> DEFINE fee == ExcessFee(strategy, pool, x, y)
<1> HIDE DEF a, b, is, bl, q
<1>10. fee \in 0 .. is
  <2>1. CASE is > bl
    <3>1. is - bl \in Nat
      BY <2>1, <1>6, <1>7
    <3> DEFINE f == FractionOf(is - bl, strategy.fee)
    <3>2. f \in 0 .. (is - bl)
      BY <3>1, <1>9, FractionAtMost
    <3>3. fee = f \div 2
      BY <2>1, <1>8 DEF ExcessFee, bl
    <3> HIDE DEF f, fee
    <3> QED
      BY <3>1, <3>2, <3>3, <1>6, <1>7
  <2>2. CASE ~ (is > bl)
    <3>1. fee = 0
      BY <2>2, <1>8 DEF ExcessFee, bl
    <3> QED
      BY <3>1, <1>6
  <2> QED
    BY <2>1, <2>2
<1>11. Minted(strategy, pool, x, y) = is - fee
  BY <1>1, <1>8 DEF Minted
<1> HIDE DEF fee
<1> DEFINE m == Minted(strategy, pool, x, y)
<1>12. m \in Nat /\ m <= is
  BY <1>6, <1>10, <1>11
<1> HIDE DEF m
<1>13. m * a <= is * a
  BY <1>4, <1>6, <1>12
<1>14. m * a \in Nat /\ is * a \in Nat
  BY <1>4, <1>6, <1>12
<1>15. m * a <= (b - a) * sh
  BY <1>5, <1>6, <1>13, <1>14
<1> QED
  BY <1>12, <1>15 DEF a, b, q, m

-----------------------------------------------------------------------------
(* Steps                                                                   *)

IInv == TypeOK /\ Backed

Undiluted ==
    pool.shares > 0 /\ pool'.shares > 0 =>
        (Isqrt(K(pool')) + 1) * pool.shares > Isqrt(K(pool)) * pool'.shares

\* A step that keeps the shares and does not lower k dilutes nobody.
LEMMA SameShares ==
    ASSUME NEW k \in Nat, NEW l \in Nat, k <= l, NEW n \in Nat \ {0}
    PROVE  (Isqrt(l) + 1) * n > Isqrt(k) * n
<1> DEFINE a == Isqrt(k)
           b == Isqrt(l)
<1>1. a \in Nat /\ b \in Nat /\ a <= b
  BY Root, RootMonotone
<1> HIDE DEF a, b
<1>2. (b + 1) * n = b * n + n /\ a * n <= b * n
  BY <1>1
<1>3. a * n \in Nat /\ b * n \in Nat
  BY <1>1
<1> QED
  BY <1>2, <1>3 DEF a, b

LEMMA DepositKeeps ==
    ASSUME IInv, NEW x \in Amounts, NEW y \in Amounts, Deposit(x, y)
    PROVE  IInv' /\ Undiluted
<1> DEFINE minted == Minted(strategy, pool, x, y)
<1>1. x \in Nat /\ y \in Nat
  BY BowAssumptions
<1>2. /\ pool \in Reserves /\ bank \in [x : Nat, y : Nat] /\ supply \in Nat
      /\ drained \in Reserves /\ moves \in Nat
  BY DEF IInv, TypeOK
<1>3. pool.x \in Nat /\ pool.y \in Nat /\ pool.shares \in Nat /\ bank.x \in Nat /\ bank.y \in Nat
  BY <1>2 DEF Reserves
<1>4. /\ CanDeposit(pool) /\ supply' = supply + minted
      /\ bank' = [x |-> bank.x + x, y |-> bank.y + y]
      /\ pool' = [x |-> pool.x + x, y |-> pool.y + y, shares |-> pool.shares + minted]
      /\ strategy' = strategy /\ drained' = drained /\ moves' = moves + 1
  BY DEF Deposit, Deposited, Move
<1>5. minted \in Nat
  <2>1. CASE pool.shares = 0
    <3>1. x * y \in Nat
      BY <1>1
    <3> QED
      BY <2>1, <3>1, Root DEF Minted
  <2>2. CASE pool.shares > 0
    BY <2>2, <1>1, <1>4, IssuedAtMost DEF IInv
  <2> QED
    BY <2>1, <2>2, <1>3
<1> HIDE DEF minted
<1>6. TypeOK'
  BY <1>1, <1>2, <1>3, <1>4, <1>5 DEF IInv, TypeOK, Reserves, ValidStrategy
<1>7. Backed'
  <2>1. drained.x \in Nat /\ drained.y \in Nat /\ drained.shares \in Nat
    BY <1>2 DEF Reserves
  <2> QED
    BY <2>1, <1>1, <1>2, <1>3, <1>4, <1>5 DEF IInv, Backed
<1>8. Undiluted
  <2> SUFFICES ASSUME pool.shares > 0
               PROVE  (Isqrt(K(pool')) + 1) * pool.shares > Isqrt(K(pool)) * pool'.shares
    BY DEF Undiluted
  <2> DEFINE q == Added(pool, x, y)
             a == Isqrt(K(pool))
             b == Isqrt(K(q))
             n == pool.shares
  <2>1. minted * a <= (b - a) * n
    BY <1>1, <1>4, IssuedAtMost DEF IInv, minted
  <2>2. q = [x |-> pool.x + x, y |-> pool.y + y, shares |-> pool.shares] /\ q \in Reserves
    BY <1>1, <1>3 DEF Added, Reserves
  <2>3. K(pool') = K(q)
    BY <2>2, <1>4 DEF K
  <2>4. a \in Nat /\ b \in Nat
    BY <2>2, <1>2, ProductType, Root
  <2> HIDE DEF q, a, b, n
  <2>5. n \in Nat \ {0}
    BY <1>3 DEF n
  <2>6. (b - a) * n = b * n - a * n /\ (b + 1) * n = b * n + n /\ a * (n + minted) = a * n + minted * a
    BY <2>4, <2>5, <1>5
  <2>7. b * n \in Nat /\ a * n \in Nat /\ minted * a \in Nat
    BY <2>4, <2>5, <1>5
  <2>8. (b + 1) * n > a * (n + minted)
    BY <2>1, <2>5, <2>6, <2>7
  <2>9. pool'.shares = n + minted
    BY <1>4 DEF n
  <2> QED
    BY <2>3, <2>8, <2>9 DEF a, b, n
<1> QED
  BY <1>6, <1>7, <1>8 DEF IInv

\* What a partial withdrawal leaves to those who stay.
LEMMA PartUndiluted ==
    ASSUME NEW s \in Reserves, NEW n \in Nat \ {0}, n < s.shares
    PROVE  (Isqrt(K(AfterWithdraw(s, n))) + 1) * s.shares > Isqrt(K(s)) * (s.shares - n)
<1> DEFINE x == s.x
           y == s.y
           sh == s.shares
           t == sh - n
           u == x - (x * n) \div sh
           v == y - (y * n) \div sh
           a == Isqrt(K(s))
           b == Isqrt(u * v)
<1>1. x \in Nat /\ y \in Nat /\ sh \in Nat /\ t \in Nat /\ n < sh
  BY DEF Reserves
<1>2. K(AfterWithdraw(s, n)) = u * v
  BY <1>1 DEF AfterWithdraw, PartOf, K
<1>3. u \in Nat /\ x * t <= u * sh
  <2> HIDE DEF x, y, sh
  <2>1. (x * n) \div sh \in 0 .. x /\ x * (sh - n) <= (x - (x * n) \div sh) * sh
    BY <1>1, PartStays
  <2> QED
    BY <2>1, <1>1
<1>4. v \in Nat /\ y * t <= v * sh
  <2> HIDE DEF x, y, sh
  <2>1. (y * n) \div sh \in 0 .. y /\ y * (sh - n) <= (y - (y * n) \div sh) * sh
    BY <1>1, PartStays
  <2> QED
    BY <2>1, <1>1
<1>5. K(s) = x * y /\ x * y \in Nat /\ u * v \in Nat
  BY <1>1, <1>3, <1>4 DEF K
<1>6. a \in Nat /\ a * a <= x * y /\ b \in Nat /\ u * v < (b + 1) * (b + 1)
  BY <1>5, Root
<1> HIDE DEF x, y, sh, t, u, v, a, b
<1>7. (x * t) * (y * t) <= (u * sh) * (v * sh)
  <2>1. x * t \in Nat /\ y * t \in Nat /\ u * sh \in Nat /\ v * sh \in Nat
    BY <1>1, <1>3, <1>4
  <2> DEFINE i == x * t
             j == y * t
             k == u * sh
             l == v * sh
  <2> HIDE DEF i, j, k, l
  <2>2. i \in Nat /\ j \in Nat /\ k \in Nat /\ l \in Nat /\ i <= k /\ j <= l
    BY <2>1, <1>3, <1>4 DEF i, j, k, l
  <2>3. i * j <= k * j /\ k * j <= k * l
    BY <2>2
  <2>4. i * j \in Nat /\ k * j \in Nat /\ k * l \in Nat
    BY <2>2
  <2>5. i * j <= k * l
    BY <2>3, <2>4
  <2> QED
    BY <2>5 DEF i, j, k, l
<1>8. (a * t) * (a * t) <= (x * t) * (y * t)
  <2>1. (a * t) * (a * t) = (a * a) * (t * t) /\ (x * t) * (y * t) = (x * y) * (t * t)
    BY <1>1, <1>6
  <2>2. a * a \in Nat /\ t * t \in Nat
    BY <1>1, <1>6
  <2>3. (a * a) * (t * t) <= (x * y) * (t * t)
    BY <2>2, <1>5, <1>6
  <2> QED
    BY <2>1, <2>3
<1>9. (u * sh) * (v * sh) < ((b + 1) * sh) * ((b + 1) * sh)
  <2>1. /\ (u * sh) * (v * sh) = (u * v) * (sh * sh)
        /\ ((b + 1) * sh) * ((b + 1) * sh) = ((b + 1) * (b + 1)) * (sh * sh)
    BY <1>1, <1>3, <1>4, <1>6
  <2>2. sh * sh \in Nat \ {0} /\ (b + 1) * (b + 1) \in Nat
    BY <1>1, <1>6
  <2>3. (u * v) * (sh * sh) < ((b + 1) * (b + 1)) * (sh * sh)
    BY <2>2, <1>5, <1>6
  <2> QED
    BY <2>1, <2>3
<1>10. a * t \in Nat /\ (b + 1) * sh \in Nat
  BY <1>1, <1>6
<1>11. (a * t) * (a * t) < ((b + 1) * sh) * ((b + 1) * sh)
  <2>1. (a * t) * (a * t) \in Nat /\ (x * t) * (y * t) \in Int /\ (u * sh) * (v * sh) \in Int
        /\ ((b + 1) * sh) * ((b + 1) * sh) \in Nat
    BY <1>1, <1>3, <1>4, <1>6
  <2> QED
    BY <2>1, <1>7, <1>8, <1>9
<1>12. a * t < (b + 1) * sh
  BY <1>10, <1>11, RootLess
<1> QED
  BY <1>2, <1>10, <1>12 DEF a, b, t, sh

LEMMA WithdrawKeeps ==
    ASSUME IInv, NEW n \in Nat, Withdraw(n)
    PROVE  IInv' /\ Undiluted
<1> DEFINE paid == Withdrawn(pool, n)
<1>1. /\ n > 0 /\ n <= supply
      /\ paid.x <= bank.x /\ paid.y <= bank.y
      /\ bank' = [x |-> bank.x - paid.x, y |-> bank.y - paid.y]
      /\ pool' = AfterWithdraw(pool, n)
      /\ supply' = supply - n
      /\ drained' = (IF n = pool.shares THEN pool ELSE drained)
      /\ strategy' = strategy /\ moves' = moves + 1
  BY DEF Withdraw, Move
<1>2. /\ pool \in Reserves /\ bank \in [x : Nat, y : Nat] /\ supply \in Nat
      /\ drained \in Reserves /\ moves \in Nat
  BY DEF IInv, TypeOK
<1>3. /\ pool.x \in Nat /\ pool.y \in Nat /\ pool.shares \in Nat
      /\ bank.x \in Nat /\ bank.y \in Nat
      /\ drained.x \in Nat /\ drained.y \in Nat /\ drained.shares \in Nat
  BY <1>2 DEF Reserves
<1>4. n <= pool.shares
  BY <1>1, <1>2, <1>3 DEF IInv, Backed
<1>5. CASE n = pool.shares
  <2>1. paid = [x |-> pool.x, y |-> pool.y] /\ pool' = pool /\ drained' = pool
    BY <1>1, <1>5 DEF Withdrawn, AfterWithdraw
  <2>2. TypeOK'
    BY <2>1, <1>1, <1>2, <1>3 DEF IInv, TypeOK, Reserves, ValidStrategy
  <2>3. supply' = 0
    BY <1>1, <1>2, <1>3, <1>5 DEF IInv, Backed
  <2>4. Backed'
    BY <2>1, <2>3, <1>1, <1>3 DEF Backed
  <2>5. Undiluted
    <3>1. K(pool) \in Nat /\ pool.shares \in Nat \ {0}
      BY <1>1, <1>2, <1>3, <1>5, ProductType
    <3>2. (Isqrt(K(pool)) + 1) * pool.shares > Isqrt(K(pool)) * pool.shares
      BY <3>1, SameShares
    <3> QED
      BY <3>2, <2>1 DEF Undiluted
  <2> QED
    BY <2>2, <2>4, <2>5 DEF IInv
<1>6. CASE n < pool.shares
  <2> DEFINE px == (pool.x * n) \div pool.shares
             py == (pool.y * n) \div pool.shares
  <2>1. px \in 0 .. pool.x /\ py \in 0 .. pool.y
    BY <1>3, <1>6, PartStays
  <2>2. /\ paid = [x |-> px, y |-> py]
        /\ pool' = [x |-> pool.x - px, y |-> pool.y - py, shares |-> pool.shares - n]
        /\ drained' = drained
    BY <1>1, <1>6, <1>3 DEF Withdrawn, AfterWithdraw, PartOf
  <2> HIDE DEF px, py
  <2>3. TypeOK'
    BY <2>1, <2>2, <1>1, <1>2, <1>3, <1>6 DEF IInv, TypeOK, Reserves, ValidStrategy
  <2>4. Backed'
    BY <2>1, <2>2, <1>1, <1>2, <1>3 DEF IInv, Backed
  <2>5. Undiluted
    <3>1. (Isqrt(K(AfterWithdraw(pool, n))) + 1) * pool.shares > Isqrt(K(pool)) * (pool.shares - n)
      BY <1>1, <1>2, <1>6, PartUndiluted
    <3> QED
      BY <3>1, <2>2, <1>1 DEF Undiluted
  <2> QED
    BY <2>3, <2>4, <2>5 DEF IInv
<1> QED
  BY <1>3, <1>4, <1>5, <1>6

LEMMA SwapKeepsAll ==
    ASSUME IInv, NEW inverted \in BOOLEAN, NEW offer \in Offers, NEW ask \in Int,
           Swap(inverted, offer, ask)
    PROVE  IInv' /\ Undiluted
<1> DEFINE s == Turned(inverted, pool)
           q == Swapped(s, offer)
<1>1. /\ offer \in Nat /\ ask \in Nat \ {0} /\ ValidSwap(strategy, s, offer, ask)
      /\ pool' = Turned(inverted, q)
      /\ supply' = supply /\ strategy' = strategy /\ drained' = drained /\ moves' = moves + 1
  BY BowAssumptions DEF Swap, Move
<1>2. /\ pool \in Reserves /\ bank \in [x : Nat, y : Nat] /\ supply \in Nat
      /\ drained \in Reserves /\ moves \in Nat
  BY DEF IInv, TypeOK
<1>3. /\ pool.x \in Nat /\ pool.y \in Nat /\ pool.shares \in Nat
      /\ bank.x \in Nat /\ bank.y \in Nat
      /\ drained.x \in Nat /\ drained.y \in Nat /\ drained.shares \in Nat
  BY <1>2 DEF Reserves
<1>4. s \in Reserves /\ s.shares = pool.shares /\ K(s) = K(pool)
  BY <1>2, <1>3 DEF Turned, Inverted, Reserves, K
<1> HIDE DEF s
<1>5. /\ q \in Reserves /\ q.x = s.x + offer /\ q.y + ask <= s.y /\ q.shares = s.shares
      /\ K(q) >= K(s)
  BY <1>1, <1>4, SwapKeeps DEF IInv
<1> HIDE DEF q
<1>6. q.x \in Nat /\ q.y \in Nat /\ q.shares \in Nat
  BY <1>5 DEF Reserves
<1>7. pool' \in Reserves /\ pool'.shares = pool.shares /\ K(pool') = K(q)
  BY <1>1, <1>4, <1>5, <1>6 DEF Turned, Inverted, Reserves, K
<1>8. /\ bank' \in [x : Nat, y : Nat]
      /\ pool'.x <= bank'.x + drained.x
      /\ pool'.y <= bank'.y + drained.y
  <2>1. CASE inverted
    <3>1. pool' = [x |-> q.y, y |-> q.x, shares |-> q.shares] /\ s.x = pool.y /\ s.y = pool.x
      BY <2>1, <1>1 DEF Turned, Inverted, s
    <3>2. bank' = [x |-> bank.x - ask, y |-> bank.y + offer] /\ ask <= bank.x
      BY <2>1 DEF Swap
    <3>3. bank'.x = bank.x - ask /\ bank'.y = bank.y + offer /\ pool'.x = q.y /\ pool'.y = q.x
      BY <3>1, <3>2
    <3>4. pool.x <= bank.x + drained.x /\ pool.y <= bank.y + drained.y
      BY DEF IInv, Backed
    <3>5. bank' \in [x : Nat, y : Nat]
      BY <3>2, <1>1, <1>3
    <3> QED
      BY <3>1, <3>2, <3>3, <3>4, <3>5, <1>1, <1>3, <1>5, <1>6
  <2>2. CASE ~ inverted
    <3>1. pool' = q /\ s.x = pool.x /\ s.y = pool.y
      BY <2>2, <1>1 DEF Turned, s
    <3>2. bank' = [x |-> bank.x + offer, y |-> bank.y - ask] /\ ask <= bank.y
      BY <2>2 DEF Swap
    <3>3. bank'.x = bank.x + offer /\ bank'.y = bank.y - ask /\ pool'.x = q.x /\ pool'.y = q.y
      BY <3>1, <3>2
    <3>4. pool.x <= bank.x + drained.x /\ pool.y <= bank.y + drained.y
      BY DEF IInv, Backed
    <3>5. bank' \in [x : Nat, y : Nat]
      BY <3>2, <1>1, <1>3
    <3>6. s.x = pool.x /\ s.y = pool.y
      BY <3>1
    <3>7. q.x <= bank'.x + drained.x
      BY <3>3, <3>4, <3>6, <1>1, <1>3, <1>5, <1>6
    <3>8. q.y <= bank'.y + drained.y
      BY <3>3, <3>4, <3>6, <1>1, <1>3, <1>5, <1>6
    <3> QED
      BY <3>3, <3>5, <3>7, <3>8, <1>6
  <2> QED
    BY <2>1, <2>2
<1>9. TypeOK'
  BY <1>1, <1>2, <1>7, <1>8 DEF IInv, TypeOK, ValidStrategy
<1>10. Backed'
  BY <1>1, <1>7, <1>8 DEF IInv, Backed
<1>11. Undiluted
  <2> SUFFICES ASSUME pool.shares > 0
               PROVE  (Isqrt(K(pool')) + 1) * pool.shares > Isqrt(K(pool)) * pool.shares
    BY <1>7 DEF Undiluted
  <2>1. K(pool) \in Nat /\ K(pool') \in Nat /\ K(pool) <= K(pool') /\ pool.shares \in Nat \ {0}
    BY <1>2, <1>3, <1>4, <1>5, <1>7, ProductType
  <2> QED
    BY <2>1, SameShares
<1> QED
  BY <1>9, <1>10, <1>11 DEF IInv

\* The most a caller can ask for is a number, of nothing or something.
LEMMA AskedType ==
    ASSUME IInv, NEW inverted \in BOOLEAN, NEW offer \in Offers
    PROVE  Asked(inverted, offer) \in Int
<1> DEFINE s == Turned(inverted, pool)
           total == SwapReturn(s, offer)
<1>1. pool \in Reserves /\ strategy.fee \in 0 .. One /\ offer \in Nat
  BY StrategyType, BowAssumptions DEF IInv, TypeOK
<1>2. s \in Reserves
  BY <1>1 DEF Turned, Inverted, Reserves
<1>3. s.x \in Nat /\ s.y \in Nat
  BY <1>2 DEF Reserves
<1> HIDE DEF s
<1>4. total \in Int
  <2>1. CASE s.x = 0
    BY <2>1 DEF SwapReturn
  <2>2. CASE s.x > 0
    <3>1. Left(s, offer) \in Nat
      BY <2>2, <1>1, <1>2, LeftType
    <3> QED
      BY <2>2, <3>1, <1>3 DEF SwapReturn
  <2> QED
    BY <2>1, <2>2, <1>3
<1> HIDE DEF total
<1>5. total * strategy.fee \in Int
  BY <1>1, <1>4
<1>6. (total * strategy.fee) \div One \in Int
  BY <1>5, OneAssumption
<1>7. Net(strategy, total) \in Int
  BY <1>4, <1>6 DEF Net, FractionOf
<1> QED
  BY <1>7 DEF Asked, total, s

\* No step changes the pool: nobody is diluted.
LEMMA SamePool ==
    ASSUME IInv, pool' = pool
    PROVE  Undiluted
<1> SUFFICES ASSUME pool.shares > 0
             PROVE  (Isqrt(K(pool)) + 1) * pool.shares > Isqrt(K(pool)) * pool.shares
  BY DEF Undiluted
<1>1. pool \in Reserves
  BY DEF IInv, TypeOK
<1>2. K(pool) \in Nat /\ pool.shares \in Nat \ {0}
  BY <1>1, ProductType DEF Reserves
<1> QED
  BY <1>2, SameShares

LEMMA InitIInv == Init => IInv
BY DEF Init, IInv, TypeOK, Backed, Reserves, EmptyState

LEMMA NextIInv == IInv /\ [Next]_vars => IInv' /\ Undiluted
<1> SUFFICES ASSUME IInv, [Next]_vars
             PROVE  IInv' /\ Undiluted
  OBVIOUS
<1>1. ASSUME NEW x \in Amounts, NEW y \in Amounts, Deposit(x, y)
      PROVE  IInv' /\ Undiluted
  BY <1>1, DepositKeeps
<1>2. ASSUME NEW n \in Amounts \cup {supply}, Withdraw(n)
      PROVE  IInv' /\ Undiluted
  <2>1. n \in Nat
    BY BowAssumptions DEF IInv, TypeOK
  <2> QED
    BY <2>1, <1>2, WithdrawKeeps
<1>3. ASSUME NEW inverted \in BOOLEAN, NEW offer \in Offers,
             Swap(inverted, offer, Asked(inverted, offer))
      PROVE  IInv' /\ Undiluted
  BY <1>3, AskedType, SwapKeepsAll
<1>4. ASSUME NEW s \in Strategies, SetStrategy(s)
      PROVE  IInv' /\ Undiluted
  <2>1. /\ ValidStrategy(s) /\ strategy' = s /\ pool' = pool /\ bank' = bank
        /\ supply' = supply /\ drained' = drained /\ moves' = moves
    BY <1>4 DEF SetStrategy
  <2>2. IInv'
    BY <2>1 DEF IInv, TypeOK, Backed, ValidStrategy
  <2> QED
    BY <2>1, <2>2, SamePool
<1>5. CASE UNCHANGED vars
  <2>1. IInv' /\ pool' = pool
    BY <1>5 DEF vars, IInv, TypeOK, Backed, ValidStrategy
  <2> QED
    BY <2>1, SamePool
<1> QED
  BY <1>1, <1>2, <1>3, <1>4, <1>5 DEF Next
-----------------------------------------------------------------------------
(* Quotes                                                                  *)

\* What is left of y is the least that keeps k, at most.
LEMMA LeftAtMost ==
    ASSUME NEW s \in Reserves, NEW offer \in Nat, s.x > 0,
           NEW m \in Nat, K(s) <= m * (s.x + offer)
    PROVE  Left(s, offer) <= m
<1> DEFINE k == K(s)
           x == s.x + offer
           d == (k * One) \div x
           l == (d + One - 1) \div One
<1>1. One \in Nat \ {0} /\ k \in Nat /\ x \in Nat \ {0} /\ k <= m * x
  BY OneAssumption, ProductType DEF Reserves
<1>2. Left(s, offer) = l
  BY DEF Left, ToCeil, FromRatio
<1> HIDE DEF k, x
<1>3. d \in Nat /\ d * x <= k * One
  BY <1>1, Divided
<1> HIDE DEF d
<1>4. k * One <= (m * x) * One
  BY <1>1
<1>5. (m * x) * One = (m * One) * x /\ m * One \in Nat
  BY <1>1
<1>6. d * x <= (m * One) * x
  BY <1>1, <1>3, <1>4, <1>5
<1>7. d <= m * One
  <2> SUFFICES ASSUME d >= m * One + 1 PROVE FALSE
    BY <1>3, <1>5
  <2>1. d * x >= (m * One + 1) * x
    BY <1>1, <1>3, <1>5
  <2>2. (m * One + 1) * x = (m * One) * x + x /\ (m * One) * x \in Nat
    BY <1>1, <1>5
  <2> QED
    BY <1>1, <1>3, <1>6, <2>1, <2>2
<1>8. l \in Nat /\ l * One <= d + One - 1
  BY <1>1, <1>3, Divided
<1> HIDE DEF l
<1>9. l * One < (m + 1) * One
  <2>1. (m + 1) * One = m * One + One
    BY <1>1
  <2> QED
    BY <1>1, <1>3, <1>5, <1>7, <1>8, <2>1
<1>10. l <= m
  <2> SUFFICES ASSUME l >= m + 1 PROVE FALSE
    BY <1>8
  <2>1. l * One >= (m + 1) * One
    BY <1>1, <1>8
  <2> QED
    BY <1>1, <1>8, <1>9, <2>1
<1> QED
  BY <1>2, <1>10

\* It does keep k, where the digits of a Decimal tell any part of a unit.
LEMMA LeftKeeps ==
    ASSUME NEW s \in Reserves, NEW offer \in Nat, s.x > 0, s.x + offer <= One
    PROVE  K(s) <= Left(s, offer) * (s.x + offer)
<1> DEFINE k == K(s)
           x == s.x + offer
           d == (k * One) \div x
           l == (d + One - 1) \div One
<1>1. One \in Nat \ {0} /\ k \in Nat /\ x \in Nat \ {0} /\ x <= One
  BY OneAssumption, ProductType DEF Reserves
<1>2. Left(s, offer) = l
  BY DEF Left, ToCeil, FromRatio
<1> HIDE DEF k, x
<1>3. d \in Nat /\ k * One < d * x + x
  BY <1>1, Divided
<1> HIDE DEF d
<1>4. l \in Nat /\ d + One - 1 < l * One + One
  BY <1>1, <1>3, Divided
<1> HIDE DEF l
<1>5. d <= l * One /\ l * One \in Nat
  BY <1>1, <1>3, <1>4
<1>6. d * x <= (l * One) * x /\ d * x \in Nat
  BY <1>1, <1>3, <1>5
<1>7. (l * One) * x = (l * x) * One /\ l * x \in Nat
  BY <1>1, <1>4
<1>8. k * One < (l * x + 1) * One
  <2>1. (l * x + 1) * One = (l * x) * One + One /\ (l * x) * One \in Nat
    BY <1>1, <1>7
  <2> QED
    BY <1>1, <1>3, <1>6, <1>7, <2>1
<1>9. k < l * x + 1
  <2> SUFFICES ASSUME k >= l * x + 1 PROVE FALSE
    BY <1>1, <1>7
  <2>1. k * One >= (l * x + 1) * One
    BY <1>1, <1>7
  <2> QED
    BY <1>1, <1>7, <1>8, <2>1
<1>10. k <= l * x
  BY <1>1, <1>7, <1>9
<1> QED
  BY <1>2, <1>10 DEF k, x

\* A swap that is offered enough for what is asked is accepted.
LEMMA SwapPays ==
    ASSUME TypeOK, NEW s \in Reserves, NEW offer \in Nat, s.x > 0, s.x + offer <= One,
           NEW m \in Nat, m <= s.y, K(s) <= m * (s.x + offer),
           NEW ask \in Nat, (ask - 1) * One < (s.y - m) * (One - strategy.fee)
    PROVE  ValidSwap(strategy, s, offer, ask)
<1> DEFINE l == Left(s, offer)
           r == s.y - l
           g == One - strategy.fee
           f == (r * strategy.fee) \div One
<1>1. /\ One \in Nat \ {0} /\ strategy.fee \in Nat /\ strategy.fee <= One
      /\ g \in Nat /\ s.x \in Nat /\ s.y \in Nat
  BY OneAssumption, StrategyType DEF Reserves
<1>2. l \in Nat /\ l <= m /\ K(s) <= l * (s.x + offer)
  BY LeftType, LeftAtMost, LeftKeeps
<1>3. r \in Nat /\ s.y - m \in Nat /\ s.y - m <= r
  BY <1>1, <1>2
<1>4. CanSwap(s, offer)
  <2>1. Swapped(s, offer).x = s.x + offer /\ Swapped(s, offer).y = l
    BY <1>1 DEF Swapped
  <2>2. K(Swapped(s, offer)) = l * (s.x + offer)
    <3> HIDE DEF l
    <3> QED
      BY <1>1, <1>2, <2>1 DEF K
  <2>3. l <= s.y /\ K(Swapped(s, offer)) >= K(s)
    <3>1. K(s) \in Nat /\ l * (s.x + offer) \in Nat
      BY <1>1, <1>2, ProductType
    <3> QED
      BY <1>1, <1>2, <2>2, <3>1
  <2> QED
    BY <2>3 DEF CanSwap
<1>5. SwapReturn(s, offer) = r
  BY <1>1 DEF SwapReturn
<1>6. Net(strategy, r) = r - f
  BY DEF Net, FractionOf
<1> HIDE DEF l, r
<1>7. f \in Nat /\ f * One <= r * strategy.fee
  <2>1. r * strategy.fee \in Nat
    BY <1>1, <1>3
  <2> QED
    BY <1>1, <2>1, Divided
<1> HIDE DEF f
<1>8. (r - f) * One >= r * g
  <2>1. /\ (r - f) * One = r * One - f * One /\ r * g = r * One - r * strategy.fee
        /\ r * One \in Nat /\ f * One \in Nat /\ r * strategy.fee \in Nat
    BY <1>1, <1>3, <1>7
  <2> HIDE DEF g
  <2> QED
    BY <1>7, <2>1
<1> DEFINE t == s.y - m
<1>9. t \in Nat /\ t <= r /\ (ask - 1) * One < t * g
  BY <1>3
<1> HIDE DEF g, t
<1>10. t * g <= r * g /\ t * g \in Nat /\ r * g \in Nat
  BY <1>1, <1>3, <1>9
<1>11. (ask - 1) * One < (r - f) * One
  <2>1. (ask - 1) * One \in Int /\ (r - f) * One \in Int
    BY <1>1, <1>3, <1>7
  <2> QED
    BY <1>8, <1>9, <1>10, <2>1
<1>12. ask <= r - f
  <2> SUFFICES ASSUME r - f <= ask - 1 PROVE FALSE
    BY <1>3, <1>7
  <2>1. (r - f) * One <= (ask - 1) * One
    BY <1>1, <1>3, <1>7
  <2>2. (ask - 1) * One \in Int /\ (r - f) * One \in Int
    BY <1>1, <1>3, <1>7
  <2> QED
    BY <1>11, <2>1, <2>2
<1> QED
  BY <1>4, <1>5, <1>6, <1>12 DEF ValidSwap

\* What a quote is made of, its offer and its return being whole.
LEMMA QuoteParts ==
    ASSUME TypeOK, NEW s \in Reserves, HasQuote(strategy, s)
    PROVE  LET o == QuoteOffer(strategy, s)
               t == QuoteTotal(strategy, s)
               z == QuoteSize(strategy, s)
               p == QuotePrice(strategy, s)
               q == Swapped(s, o)
           IN  /\ o \in Nat \ {0} /\ t \in Nat /\ z \in Nat \ {0} /\ p \in Nat \ {0}
               /\ q \in Reserves /\ q.x = s.x + o /\ t = s.y - q.y /\ K(s) <= K(q)
               /\ p * o <= z * One
               /\ z * One < t * (One - strategy.fee)
<1> DEFINE o == QuoteOffer(strategy, s)
           t == QuoteTotal(strategy, s)
           z == QuoteSize(strategy, s)
           p == QuotePrice(strategy, s)
           q == Swapped(s, o)
           f == (t * strategy.fee) \div One
<1>1. /\ One \in Nat \ {0} /\ strategy.fee \in Nat /\ strategy.fee <= One
      /\ strategy.step \in Nat /\ strategy.minQuote \in Nat \ {0}
      /\ s.x \in Nat /\ s.y \in Nat /\ s.shares \in Nat
  <2>1. strategy \in [step : Nat, minQuote : Nat, fee : Nat] /\ strategy.minQuote >= MinMinQuote
    BY BowAssumptions DEF TypeOK, ValidStrategy
  <2> QED
    BY <2>1, BowAssumptions, OneAssumption, StrategyType DEF Reserves
<1>2. /\ s.x > 0 /\ CanSwap(s, o)
      /\ o >= strategy.minQuote /\ t >= strategy.minQuote /\ p > 0
  BY DEF HasQuote
<1>3. o \in Nat \ {0}
  <2>1. s.x * strategy.step \in Nat
    BY <1>1
  <2>2. o \in Nat
    BY <1>1, <2>1, Divided DEF QuoteOffer, FractionOf
  <2> QED
    BY <1>1, <1>2, <2>2
<1> HIDE DEF o
<1>4. Left(s, o) \in Nat /\ Left(s, o) <= s.y /\ K(q) >= K(s)
  BY <1>2, <1>3, LeftType DEF CanSwap
<1>5. q \in Reserves /\ q.x = s.x + o /\ q.y = Left(s, o)
  <2>1. q = [x |-> s.x + o, y |-> Left(s, o), shares |-> s.shares]
    BY <1>1, <1>2 DEF Swapped
  <2> HIDE DEF q
  <2> QED
    BY <1>1, <1>3, <1>4, <2>1 DEF Reserves
<1>6. t = s.y - q.y /\ t \in Nat
  <2>1. t = s.y - Left(s, o)
    BY <1>1, <1>2 DEF QuoteTotal, SwapReturn, o
  <2> HIDE DEF t
  <2> QED
    BY <1>1, <1>4, <1>5, <2>1
<1>7. z = t - (f + 1)
  BY DEF QuoteSize, QuoteFee, FractionOf
<1> HIDE DEF q, t, z
<1>8. f \in Nat /\ t * strategy.fee < f * One + One
  <2>1. t * strategy.fee \in Nat
    BY <1>1, <1>6
  <2> QED
    BY <1>1, <2>1, Divided
<1> HIDE DEF f
<1>9. z \in Int /\ z * One < t * (One - strategy.fee)
  <2>1. z * One = t * One - f * One - One
    BY <1>1, <1>6, <1>7, <1>8
  <2>2. /\ t * (One - strategy.fee) = t * One - t * strategy.fee
        /\ t * One \in Nat /\ f * One \in Nat /\ t * strategy.fee \in Nat
    BY <1>1, <1>6, <1>8
  <2>3. z * One < t * (One - strategy.fee)
    BY <1>1, <1>8, <2>1, <2>2
  <2> QED
    BY <1>6, <1>7, <1>8, <2>3
<1>10. p \in Int /\ p * o <= z * One
  <2>1. p = (z * One) \div o
    BY DEF QuotePrice, FromRatio, o, z
  <2>2. z * One \in Int
    BY <1>1, <1>9
  <2> DEFINE n == z * One
  <2> HIDE DEF p, n
  <2>3. p \in Int /\ p * o <= n
    BY <1>3, <2>1, <2>2 DEF n
  <2> QED
    BY <2>3 DEF n
<1> HIDE DEF p
<1>11. p \in Nat \ {0} /\ z \in Nat \ {0}
  <2>1. p \in Nat \ {0}
    BY <1>2, <1>10 DEF p
  <2>2. p * o > 0 /\ p * o \in Int
    BY <1>3, <2>1
  <2>3. z * One > 0
    <3>1. z * One \in Int
      BY <1>1, <1>9
    <3> QED
      BY <1>10, <2>2, <3>1
  <2>4. z > 0
    BY <1>1, <1>9, <2>3
  <2> QED
    BY <1>9, <2>1, <2>4
<1> QED
  BY <1>3, <1>4, <1>5, <1>6, <1>9, <1>10, <1>11 DEF o, t, z, p, q

\* Who fills all of a quote offers no less than it was made for.
LEMMA WholeOfferEnough ==
    ASSUME TypeOK, NEW s \in Reserves, HasQuote(strategy, s)
    PROVE  /\ WholeOffer(Quote(strategy, s)) \in Nat
           /\ QuoteOffer(strategy, s) <= WholeOffer(Quote(strategy, s))
<1> DEFINE o == QuoteOffer(strategy, s)
           z == QuoteSize(strategy, s)
           p == QuotePrice(strategy, s)
           d == (z * One * One) \div p
           w == d \div One
<1>1. o \in Nat \ {0} /\ z \in Nat \ {0} /\ p \in Nat \ {0} /\ p * o <= z * One
  BY QuoteParts
<1>2. One \in Nat \ {0}
  BY OneAssumption
<1>3. WholeOffer(Quote(strategy, s)) = w
  <2>1. FromRatio(z, 1) = z * One
    <3> HIDE DEF z
    <3>1. z * One \in Int
      BY <1>1, <1>2
    <3> DEFINE n == z * One
    <3>2. n \div 1 = n
      <4> HIDE DEF n
      <4> QED
        BY <3>1 DEF n
    <3> QED
      BY <3>2 DEF FromRatio
  <2>2. Quote(strategy, s).size = z /\ Quote(strategy, s).price = p
    BY DEF Quote
  <2> QED
    BY <2>1, <2>2 DEF WholeOffer, ToFloor, DecDiv
<1> HIDE DEF o, z, p
<1>4. z * One * One \in Nat
  BY <1>1, <1>2
<1>5. d \in Nat /\ z * One * One < d * p + p
  BY <1>1, <1>4, Divided
<1> HIDE DEF d
<1>6. o * One <= d
  <2> SUFFICES ASSUME o * One >= d + 1 PROVE FALSE
    BY <1>1, <1>2, <1>5
  <2>1. o * One \in Nat
    BY <1>1, <1>2
  <2>2. (o * One) * p >= (d + 1) * p
    BY <1>1, <1>5, <2>1
  <2>3. (o * One) * p = (p * o) * One /\ (p * o) * One <= (z * One) * One
    <3>1. (o * One) * p = (p * o) * One
      BY <1>1, <1>2
    <3>2. p * o \in Nat /\ z * One \in Nat
      BY <1>1, <1>2
    <3>3. (p * o) * One <= (z * One) * One
      BY <1>1, <1>2, <3>2
    <3> QED
      BY <3>1, <3>3
  <2>4. (d + 1) * p = d * p + p /\ d * p \in Nat /\ (p * o) * One \in Nat
    BY <1>1, <1>2, <1>5
  <2> QED
    BY <1>1, <1>4, <1>5, <2>2, <2>3, <2>4
<1>7. w \in Nat /\ d < w * One + One
  BY <1>2, <1>5, Divided
<1> HIDE DEF w
<1>8. o <= w
  <2> SUFFICES ASSUME o >= w + 1 PROVE FALSE
    BY <1>1, <1>7
  <2>1. o * One >= (w + 1) * One /\ (w + 1) * One = w * One + One
    BY <1>1, <1>2, <1>7
  <2>2. o * One \in Nat /\ w * One \in Nat
    BY <1>1, <1>2, <1>7
  <2> QED
    BY <1>2, <1>5, <1>6, <1>7, <2>1, <2>2
<1> QED
  BY <1>3, <1>7, <1>8 DEF o

\* A part of a quote buys no more than its part of the size.
LEMMA PartBoughtAtMost ==
    ASSUME TypeOK, NEW s \in Reserves, HasQuote(strategy, s), NEW a \in Nat
    PROVE  /\ PartBought(Quote(strategy, s), a) \in Nat
           /\ PartBought(Quote(strategy, s), a) * QuoteOffer(strategy, s)
                <= a * QuoteSize(strategy, s)
<1> DEFINE o == QuoteOffer(strategy, s)
           z == QuoteSize(strategy, s)
           p == QuotePrice(strategy, s)
           b == (a * p) \div One
<1>1. o \in Nat \ {0} /\ z \in Nat \ {0} /\ p \in Nat \ {0} /\ p * o <= z * One
  BY QuoteParts
<1>2. One \in Nat \ {0}
  BY OneAssumption
<1>3. PartBought(Quote(strategy, s), a) = b
  <2>1. FromRatio(a, 1) = a * One
    <3> DEFINE n == a * One
    <3>1. n \in Int
      BY <1>2
    <3>2. n \div 1 = n
      <4> HIDE DEF n
      <4> QED
        BY <3>1
    <3> QED
      BY <3>2 DEF FromRatio
  <2>2. Quote(strategy, s).price = p
    BY DEF Quote
  <2> HIDE DEF p
  <2>3. DecMul(a * One, p) = a * p
    <3> DEFINE n == a * p
    <3>1. n \in Int /\ (a * One) * p = n * One
      BY <1>1, <1>2
    <3>2. (n * One) \div One = n
      <4> HIDE DEF n
      <4> QED
        BY <1>2, <3>1
    <3> QED
      BY <3>1, <3>2 DEF DecMul
  <2> QED
    BY <2>1, <2>2, <2>3 DEF PartBought, ToFloor
<1> HIDE DEF o, z, p
<1>4. b \in Nat /\ b * One <= a * p
  <2>1. a * p \in Nat
    BY <1>1
  <2> QED
    BY <1>2, <2>1, Divided
<1> HIDE DEF b
<1>5. (b * o) * One <= (a * z) * One
  <2>1. (b * One) * o <= (a * p) * o
    <3>1. b * One \in Nat /\ a * p \in Nat
      BY <1>1, <1>2, <1>4
    <3> QED
      BY <1>1, <1>4, <3>1
  <2>2. a * (p * o) <= a * (z * One)
    <3>1. p * o \in Nat /\ z * One \in Nat
      BY <1>1, <1>2
    <3> QED
      BY <1>1, <3>1
  <2>3. (b * One) * o = (b * o) * One /\ (a * p) * o = a * (p * o) /\ a * (z * One) = (a * z) * One
    BY <1>1, <1>2, <1>4
  <2>4. (b * o) * One \in Nat /\ a * (p * o) \in Nat /\ (a * z) * One \in Nat
    BY <1>1, <1>2, <1>4
  <2> QED
    BY <2>1, <2>2, <2>3, <2>4
<1>6. b * o <= a * z
  <2> SUFFICES ASSUME b * o >= a * z + 1 PROVE FALSE
    BY <1>1, <1>4
  <2>1. b * o \in Nat /\ a * z \in Nat
    BY <1>1, <1>4
  <2>2. (b * o) * One >= (a * z + 1) * One
    BY <1>2, <2>1
  <2>3. (a * z + 1) * One = (a * z) * One + One /\ (a * z) * One \in Nat /\ (b * o) * One \in Nat
    BY <1>2, <2>1
  <2> QED
    BY <1>2, <1>5, <2>2, <2>3
<1> QED
  BY <1>3, <1>4, <1>6 DEF o, z

\* A part of a quote is paid for by what the same part of its offer brings, though less
\* than a unit of that is lost.
LEMMA PartPaid ==
    ASSUME NEW x \in Nat \ {0}, NEW y \in Nat, NEW o \in Nat \ {0}, NEW a \in Nat, a <= o,
           NEW t \in Nat, NEW z \in Nat \ {0}, NEW g \in Nat, NEW r \in Nat, NEW b \in Nat,
           b * o <= a * z, z * One < t * g, t * (x + o) <= y * o,
           y * a < (r + 1) * (x + a)
    PROVE  b * One < (r + 1) * g
<1>1. One \in Nat \ {0}
  BY OneAssumption
<1>2. g > 0
  <2> SUFFICES ASSUME g = 0 PROVE FALSE
    OBVIOUS
  <2>1. t * g = 0 /\ z * One \in Nat
    BY <1>1
  <2> QED
    BY <2>1
<1>3. CASE a = 0
  <2>1. b * o <= 0
    BY <1>3
  <2>2. b = 0
    <3> SUFFICES ASSUME b >= 1 PROVE FALSE
      OBVIOUS
    <3>1. b * o >= 1 * o
      OBVIOUS
    <3> QED
      BY <2>1, <3>1
  <2>3. (r + 1) * g > 0
    BY <1>2
  <2>4. b * One = 0
    BY <1>1, <2>2
  <2> QED
    BY <2>3, <2>4
<1>4. CASE a > 0
  <2> DEFINE v == x + o
             c == (r + 1) * g
             d == b * One
  <2>1. v \in Nat \ {0} /\ c \in Nat /\ d \in Nat
    BY <1>1
  <2>2. d * o < a * (t * g)
    <3>1. d * o = (b * o) * One /\ (b * o) * One <= (a * z) * One
      <4>1. b * o \in Nat /\ a * z \in Nat
        OBVIOUS
      <4> QED
        BY <1>1, <4>1
    <3>2. (a * z) * One = a * (z * One) /\ a * (z * One) < a * (t * g)
      <4>1. z * One \in Nat /\ t * g \in Nat
        BY <1>1
      <4> QED
        BY <1>1, <1>4, <4>1
    <3>3. d * o \in Nat /\ (b * o) * One \in Nat /\ a * (z * One) \in Nat /\ a * (t * g) \in Nat
      BY <1>1, <2>1
    <3> HIDE DEF d
    <3> QED
      BY <3>1, <3>2, <3>3
  <2>3. (a * (t * g)) * v <= ((y * a) * g) * o
    <3>1. (a * (t * g)) * v = (a * g) * (t * v)
      OBVIOUS
    <3>2. (a * g) * (t * v) <= (a * g) * (y * o)
      <4>1. a * g \in Nat /\ t * v \in Nat /\ y * o \in Nat /\ t * v <= y * o
        OBVIOUS
      <4> DEFINE m == a * g
                 n == t * v
                 k == y * o
      <4> HIDE DEF m, n, k
      <4> QED
        BY <4>1 DEF m, n, k
    <3>3. (a * g) * (y * o) = ((y * a) * g) * o
      OBVIOUS
    <3> QED
      BY <3>1, <3>2, <3>3
  <2>4. (y * a) * g < c * v
    <3> DEFINE k == (r + 1) * (x + a)
               l == y * a
    <3>1. k \in Nat /\ l \in Nat /\ l < k
      OBVIOUS
    <3>2. k <= (r + 1) * v
      <4>1. x + a <= v /\ r + 1 \in Nat /\ x + a \in Nat
        OBVIOUS
      <4> HIDE DEF v
      <4> QED
        BY <2>1, <4>1
    <3>3. (r + 1) * v \in Nat
      BY <2>1
    <3> DEFINE m == (r + 1) * v
    <3>4. l < m /\ l \in Nat /\ m \in Nat
      BY <3>1, <3>2, <3>3
    <3>5. m * g = c * v
      <4> HIDE DEF v
      <4> QED
        BY <2>1
    <3> HIDE DEF k, l, m
    <3>6. l * g < m * g
      BY <1>2, <3>4
    <3> HIDE DEF c, v
    <3> QED
      BY <3>5, <3>6 DEF l
  <2> DEFINE n == (y * a) * g
             k == a * (t * g)
  <2>5. n \in Nat /\ k \in Nat /\ d * o < k /\ k * v <= n * o /\ n < c * v
    BY <2>2, <2>3, <2>4
  <2> HIDE DEF v, c, d, n, k
  <2>6. (d * o) * v < (c * v) * o
    <3>1. (d * o) * v < k * v
      <4>1. d * o \in Nat
        BY <2>1
      <4> QED
        BY <2>1, <2>5, <4>1
    <3>2. n * o < (c * v) * o
      <4>1. c * v \in Nat
        BY <2>1
      <4> QED
        BY <2>5, <4>1
    <3>3. (d * o) * v \in Nat /\ k * v \in Nat /\ n * o \in Nat /\ (c * v) * o \in Nat
      BY <2>1, <2>5
    <3> QED
      BY <2>5, <3>1, <3>2, <3>3
  <2>7. d < c
    <3> SUFFICES ASSUME c <= d PROVE FALSE
      BY <2>1
    <3>1. o * v \in Nat /\ (c * v) * o = c * (o * v) /\ (d * o) * v = d * (o * v)
      BY <2>1
    <3>2. c * (o * v) <= d * (o * v)
      BY <2>1, <3>1
    <3>3. c * (o * v) \in Nat /\ d * (o * v) \in Nat
      BY <2>1, <3>1
    <3> QED
      BY <2>6, <3>1, <3>2, <3>3
  <2> QED
    BY <2>7 DEF c, d
<1> QED
  BY <1>3, <1>4

-----------------------------------------------------------------------------
(* Rows of quotes                                                          *)

Rows == [state : Reserves, offer : Nat, ask : Nat]

\* A row with one quote more, if there is one.
Longer(r) ==
    IF HasQuote(strategy, r.state)
    THEN [state |-> Quote(strategy, r.state).data,
          offer |-> r.offer + WholeOffer(Quote(strategy, r.state)),
          ask   |-> r.ask + Quote(strategy, r.state).size]
    ELSE r

\* What a row of quotes has offered and asked for, against what it began from: the offer
\* makes up for the reserves it went through, and the ask is less than the return after
\* a fee that is charged once.
RowOf(from, r) ==
    /\ r \in Rows
    /\ r.state.x <= from.x + r.offer
    /\ r.state.y <= from.y
    /\ K(from) <= K(r.state)
    /\ r.ask * One <= (from.y - r.state.y) * (One - strategy.fee)
    /\ from.x = 0 => r.state = from

LEMMA RowBegins ==
    ASSUME TypeOK, NEW from \in Reserves
    PROVE  RowOf(from, [state |-> from, offer |-> 0, ask |-> 0])
<1>1. /\ from.x \in Nat /\ from.y \in Nat /\ K(from) \in Nat
      /\ One \in Nat /\ strategy.fee \in Nat
  BY OneAssumption, StrategyType, ProductType DEF Reserves
<1>2. 0 * One = 0 /\ (from.y - from.y) * (One - strategy.fee) = 0
  BY <1>1
<1>3. [state |-> from, offer |-> 0, ask |-> 0] \in Rows
  BY DEF Rows
<1> QED
  BY <1>1, <1>2, <1>3 DEF RowOf

LEMMA RowGrows ==
    ASSUME TypeOK, NEW from \in Reserves, NEW r, RowOf(from, r)
    PROVE  RowOf(from, Longer(r))
<1>1. CASE ~HasQuote(strategy, r.state)
  BY <1>1 DEF Longer
<1>2. CASE HasQuote(strategy, r.state)
  <2> DEFINE s == r.state
             o == QuoteOffer(strategy, s)
             t == QuoteTotal(strategy, s)
             z == QuoteSize(strategy, s)
             q == Swapped(s, o)
             w == WholeOffer(Quote(strategy, s))
             g == One - strategy.fee
  <2>1. s \in Reserves /\ r.offer \in Nat /\ r.ask \in Nat
    BY DEF RowOf, Rows
  <2>2. /\ o \in Nat /\ z \in Nat /\ q \in Reserves /\ q.x = s.x + o /\ t = s.y - q.y /\ t \in Nat
        /\ K(s) <= K(q) /\ z * One < t * g
    BY <1>2, <2>1, QuoteParts
  <2>3. w \in Nat /\ o <= w
    BY <1>2, <2>1, WholeOfferEnough
  <2>4. Longer(r) = [state |-> q, offer |-> r.offer + w, ask |-> r.ask + z]
    BY <1>2 DEF Longer, Quote
  <2>5. /\ s.x \in Nat /\ s.y \in Nat /\ q.x \in Nat /\ q.y \in Nat
        /\ from.x \in Nat /\ from.y \in Nat
        /\ K(s) \in Nat /\ K(q) \in Nat /\ K(from) \in Nat
        /\ One \in Nat /\ g \in Int
    <3>1. /\ s.x \in Nat /\ s.y \in Nat /\ q.x \in Nat /\ q.y \in Nat
          /\ from.x \in Nat /\ from.y \in Nat
      BY <2>1, <2>2 DEF Reserves
    <3>2. K(s) \in Nat /\ K(q) \in Nat /\ K(from) \in Nat
      BY <2>1, <2>2, ProductType
    <3>3. One \in Nat /\ g \in Int
      BY OneAssumption, StrategyType
    <3> QED
      BY <3>1, <3>2, <3>3
  <2>6. /\ s.x <= from.x + r.offer /\ s.y <= from.y /\ K(from) <= K(s)
        /\ r.ask * One <= (from.y - s.y) * g
        /\ from.x # 0
    <3>1. s.x > 0
      BY <1>2 DEF HasQuote
    <3> QED
      BY <2>5, <3>1 DEF RowOf
  <2> HIDE DEF s, o, t, z, q, w, g
  <2>7. (r.ask + z) * One <= (from.y - q.y) * g
    <3>1. (r.ask + z) * One = r.ask * One + z * One /\ r.ask * One \in Nat /\ z * One \in Nat
      BY <2>1, <2>2, <2>5
    <3>2. from.y - q.y = (from.y - s.y) + t
      BY <2>2, <2>5
    <3>3. (from.y - q.y) * g = (from.y - s.y) * g + t * g
      BY <2>2, <2>5, <3>2
    <3>4. (from.y - s.y) * g \in Int /\ t * g \in Int
      BY <2>2, <2>5
    <3> QED
      BY <2>2, <2>6, <3>1, <3>3, <3>4
  <2>8. q.x <= from.x + (r.offer + w) /\ q.y <= from.y /\ K(from) <= K(q)
    BY <2>1, <2>2, <2>3, <2>5, <2>6
  <2>9. Longer(r) \in Rows
    BY <2>1, <2>2, <2>3, <2>4 DEF Rows
  <2> QED
    BY <2>4, <2>6, <2>7, <2>8, <2>9 DEF RowOf, g
<1> QED
  BY <1>1, <1>2

\* A set of natural numbers that is not empty has a least member.
LEMMA LeastMember ==
    ASSUME NEW S \in SUBSET Nat, S # {}
    PROVE  \E r \in S : \A q \in S : r <= q
<1> DEFINE R == OpToRel(<, Nat)
<1>1. IsWellFoundedOn(R, Nat)
  BY NatLessThanWellFounded, Zenon
<1>2. PICK r \in S : \A q \in S : ~ (<<q, r>> \in R)
  <2> HIDE DEF R
  <2> QED
    BY <1>1, WFMin, Zenon
<1>3. \A q \in S : ~ (q < r)
  BY <1>2 DEF OpToRel
<1> QED
  BY <1>3

\* A function of 0 .. n can be defined by its first value and its step.
LEMMA Recursion ==
    ASSUME NEW n \in Nat, NEW V, NEW b \in V, NEW h \in [V -> V]
    PROVE  \E g \in [0 .. n -> V] : g = [c \in 0 .. n |-> IF c = 0 THEN b ELSE h[g[c - 1]]]
<1> DEFINE Follows(g, m) == /\ g \in [0 .. m -> V]
                            /\ \A c \in 0 .. m : g[c] = IF c = 0 THEN b ELSE h[g[c - 1]]
           Missing == {m \in 0 .. n : ~ \E g : Follows(g, m)}
<1>1. Follows([c \in 0 .. 0 |-> b], 0)
  OBVIOUS
<1>2. ASSUME NEW m \in 1 .. n, NEW f, Follows(f, m - 1)
      PROVE  Follows([c \in 0 .. m |-> IF c = m THEN h[f[m - 1]] ELSE f[c]], m)
  <2> DEFINE g == [c \in 0 .. m |-> IF c = m THEN h[f[m - 1]] ELSE f[c]]
  <2>1. f \in [0 .. m - 1 -> V]
    BY <1>2
  <2>2. f[m - 1] \in V /\ h[f[m - 1]] \in V
    BY <2>1
  <2>3. g \in [0 .. m -> V]
    <3> SUFFICES ASSUME NEW c \in 0 .. m
                 PROVE  (IF c = m THEN h[f[m - 1]] ELSE f[c]) \in V
      OBVIOUS
    <3>1. c # m => c \in 0 .. m - 1
      OBVIOUS
    <3> QED
      BY <2>1, <2>2, <3>1
  <2>4. ASSUME NEW c \in 0 .. m
        PROVE  g[c] = IF c = 0 THEN b ELSE h[g[c - 1]]
    <3>1. c # 0 => g[c - 1] = f[c - 1]
      OBVIOUS
    <3>2. CASE c = m
      BY <3>1, <3>2
    <3>3. CASE c # m
      <4>1. c \in 0 .. m - 1 /\ g[c] = f[c]
        BY <3>3
      <4>2. f[c] = IF c = 0 THEN b ELSE h[f[c - 1]]
        BY <1>2, <4>1
      <4> QED
        BY <3>1, <4>1, <4>2
    <3> QED
      BY <3>2, <3>3
  <2> QED
    BY <2>3, <2>4
<1>3. Missing = {}
  <2> SUFFICES ASSUME Missing # {} PROVE FALSE
    OBVIOUS
  <2>1. PICK m \in Missing : \A k \in Missing : m <= k
    <3>1. Missing \in SUBSET Nat
      OBVIOUS
    <3> HIDE DEF Missing
    <3> QED
      BY <3>1, LeastMember
  <2>2. m \in 0 .. n /\ m # 0
    BY <1>1
  <2>3. m \in 1 .. n /\ m - 1 \in 0 .. n /\ m - 1 \notin Missing
    <3>1. m \in 1 .. n /\ m - 1 \in 0 .. n /\ ~ (m <= m - 1)
      BY <2>2
    <3> HIDE DEF Missing
    <3> QED
      BY <2>1, <3>1
  <2>4. PICK f : Follows(f, m - 1)
    BY <2>3
  <2>5. \E g : Follows(g, m)
    <3> HIDE DEF Follows
    <3> QED
      BY <1>2, <2>3, <2>4
  <2> QED
    BY <2>5
<1>4. PICK g : Follows(g, n)
  <2>1. n \in 0 .. n
    OBVIOUS
  <2> HIDE DEF Follows
  <2> QED
    BY <1>3, <2>1
<1>5. g = [c \in 0 .. n |-> IF c = 0 THEN b ELSE h[g[c - 1]]]
  BY <1>4
<1> QED
  BY <1>4, <1>5

LEMMA LongerType ==
    ASSUME TypeOK, NEW r \in Rows
    PROVE  Longer(r) \in Rows
<1>1. r.state \in Reserves /\ r.offer \in Nat /\ r.ask \in Nat
  BY DEF Rows
<1>2. CASE HasQuote(strategy, r.state)
  <2> DEFINE s == r.state
             w == WholeOffer(Quote(strategy, s))
  <2>1. /\ Swapped(s, QuoteOffer(strategy, s)) \in Reserves
        /\ QuoteSize(strategy, s) \in Nat
    BY <1>1, <1>2, QuoteParts
  <2>2. w \in Nat
    BY <1>1, <1>2, WholeOfferEnough
  <2>3. Longer(r) = [state |-> Swapped(s, QuoteOffer(strategy, s)), offer |-> r.offer + w,
                     ask |-> r.ask + QuoteSize(strategy, s)]
    BY <1>2 DEF Longer, Quote
  <2> HIDE DEF s, w
  <2> QED
    BY <1>1, <2>1, <2>2, <2>3 DEF Rows
<1> QED
  BY <1>2 DEF Longer

\* Quoted is what it is defined by.
LEMMA QuotedSteps ==
    ASSUME TypeOK, NEW from \in Reserves
    PROVE  /\ Quoted(from)[0] = [state |-> from, offer |-> 0, ask |-> 0]
           /\ \A n \in 1 .. MaxQuotes : Quoted(from)[n] = Longer(Quoted(from)[n - 1])
<1> DEFINE b == [state |-> from, offer |-> 0, ask |-> 0]
           h == [r \in Rows |-> Longer(r)]
           Steps(g) == [n \in 0 .. MaxQuotes |-> IF n = 0 THEN b ELSE Longer(g[n - 1])]
<1>1. MaxQuotes \in Nat
  BY BowAssumptions
<1>2. b \in Rows
  BY DEF Rows
<1>3. h \in [Rows -> Rows] /\ \A r \in Rows : h[r] = Longer(r)
  BY LongerType
<1>4. \E g : g = Steps(g)
  <2> HIDE DEF b, h, Steps
  <2>1. PICK g \in [0 .. MaxQuotes -> Rows] :
            g = [c \in 0 .. MaxQuotes |-> IF c = 0 THEN b ELSE h[g[c - 1]]]
    <3> DEFINE V == Rows
    <3>1. h \in [V -> V] /\ b \in V /\ MaxQuotes \in Nat
      BY <1>1, <1>2, <1>3
    <3> HIDE DEF V
    <3>2. \E g \in [0 .. MaxQuotes -> V] :
              g = [c \in 0 .. MaxQuotes |-> IF c = 0 THEN b ELSE h[g[c - 1]]]
      BY <3>1, Recursion
    <3> QED
      BY <3>2 DEF V
  <2>2. ASSUME NEW c \in 0 .. MaxQuotes, c # 0 PROVE h[g[c - 1]] = Longer(g[c - 1])
    <3>1. c - 1 \in 0 .. MaxQuotes
      BY <1>1, <2>2
    <3> QED
      BY <1>3, <3>1
  <2>3. g = Steps(g)
    BY <2>1, <2>2 DEF Steps
  <2> QED
    BY <2>3, Zenon
<1>5. Quoted(from) = CHOOSE g : g = Steps(g)
  BY Zenon DEF Quoted, Longer
<1>6. Quoted(from) = Steps(Quoted(from))
  <2> HIDE DEF Steps
  <2> QED
    BY <1>4, <1>5, Zenon
<1> DEFINE g == Quoted(from)
<1>7. g = [n \in 0 .. MaxQuotes |-> IF n = 0 THEN b ELSE Longer(g[n - 1])]
  BY <1>6
<1> HIDE DEF g, b
<1>8. g[0] = b
  BY <1>1, <1>7
<1>9. ASSUME NEW n \in 1 .. MaxQuotes PROVE g[n] = Longer(g[n - 1])
  <2>1. n \in 0 .. MaxQuotes /\ n # 0
    BY <1>1
  <2> QED
    BY <1>7, <2>1
<1> QED
  BY <1>8, <1>9 DEF g, b

LEMMA QuotedRows ==
    ASSUME TypeOK, NEW from \in Reserves, NEW n \in 0 .. MaxQuotes
    PROVE  RowOf(from, Quoted(from)[n])
<1> DEFINE g == Quoted(from)
           Bad == {m \in 0 .. MaxQuotes : ~RowOf(from, g[m])}
<1>1. MaxQuotes \in Nat
  BY BowAssumptions
<1>2. /\ g[0] = [state |-> from, offer |-> 0, ask |-> 0]
      /\ \A m \in 1 .. MaxQuotes : g[m] = Longer(g[m - 1])
  BY QuotedSteps
<1> HIDE DEF g
<1>3. RowOf(from, g[0])
  BY <1>2, RowBegins
<1> SUFFICES ASSUME Bad # {} PROVE FALSE
  BY DEF g
<1>4. PICK m \in Bad : \A k \in Bad : m <= k
  <2>1. Bad \in SUBSET Nat
    OBVIOUS
  <2> HIDE DEF Bad
  <2> QED
    BY <2>1, LeastMember
<1>5. m \in 0 .. MaxQuotes /\ ~RowOf(from, g[m])
  OBVIOUS
<1>6. m \in 1 .. MaxQuotes /\ m - 1 \in 0 .. MaxQuotes /\ ~ (m <= m - 1)
  BY <1>1, <1>3, <1>5
<1>7. m - 1 \notin Bad
  <2> HIDE DEF Bad
  <2> QED
    BY <1>4, <1>6
<1>8. RowOf(from, g[m - 1])
  BY <1>6, <1>7
<1>9. RowOf(from, g[m])
  BY <1>2, <1>6, <1>8, RowGrows
<1> QED
  BY <1>5, <1>9

\* The rest of y that a part of the next quote leaves, if k is kept.
LEMMA RestOf ==
    ASSUME NEW x \in Nat \ {0}, NEW y \in Nat, NEW a \in Nat
    PROVE  \E m \in Nat : /\ m <= y /\ x * y <= m * (x + a)
                          /\ y * a < (y - m + 1) * (x + a)
<1> DEFINE v == x + a
           k == x * y
           m == (k + v - 1) \div v
<1>1. v \in Nat \ {0} /\ k \in Nat /\ x <= v
  OBVIOUS
<1>2. y * v = k + y * a /\ y * a \in Nat
  OBVIOUS
<1> HIDE DEF v, k
<1>3. k + v - 1 \in Nat
  BY <1>1
<1>4. m \in Nat /\ m * v <= k + v - 1 /\ k + v - 1 < m * v + v
  BY <1>1, <1>3, Divided
<1> HIDE DEF m
<1>5. m * v \in Nat /\ k <= m * v /\ m * v < k + v
  BY <1>1, <1>3, <1>4
<1>6. m <= y
  <2> SUFFICES ASSUME m >= y + 1 PROVE FALSE
    BY <1>4
  <2>1. m * v >= (y + 1) * v /\ (y + 1) * v = y * v + v /\ y * v \in Nat
    BY <1>1, <1>4
  <2> QED
    BY <1>1, <1>2, <1>5, <2>1
<1>7. y * a < (y - m + 1) * v
  <2>1. (y - m + 1) * v = y * v - m * v + v
    BY <1>1, <1>4
  <2> QED
    BY <1>1, <1>2, <1>5, <2>1
<1> QED
  BY <1>4, <1>5, <1>6, <1>7 DEF v, k

\* The reserves and what is offered to them are small enough for the digits of a Decimal to
\* tell any part of a unit: beyond that, a swap may round k down and be refused.
Counted(s, offer) == s.x + offer <= One

QuotesCounted ==
    \A inverted \in BOOLEAN, n \in 0 .. MaxQuotes :
        LET row == Quoted(Turned(inverted, pool))[n]
        IN  Counted(Turned(inverted, pool), row.offer + QuoteOffer(strategy, row.state))

\* A pool that has nothing of what is offered pays nothing.
LEMMA EmptyPays ==
    ASSUME TypeOK, NEW from \in Reserves, NEW r, RowOf(from, r), from.x = 0
    PROVE  ValidSwap(strategy, from, r.offer, r.ask) /\ ~HasQuote(strategy, r.state)
<1>1. One \in Nat \ {0} /\ strategy.fee \in Nat /\ from.y \in Nat
  BY OneAssumption, StrategyType DEF Reserves
<1>2. r.state = from /\ r.ask \in Nat /\ r.ask * One <= (from.y - from.y) * (One - strategy.fee)
  BY DEF RowOf, Rows
<1>3. r.ask = 0
  <2>1. (from.y - from.y) * (One - strategy.fee) = 0
    BY <1>1
  <2>2. r.ask * One <= 0
    BY <1>2, <2>1
  <2> QED
    BY <1>1, <1>2, <2>2
<1>4. SwapReturn(from, r.offer) = 0
  BY DEF SwapReturn
<1>5. Net(strategy, 0) = 0
  <2>1. 0 * strategy.fee = 0 /\ 0 \div One = 0
    BY <1>1
  <2> QED
    BY <2>1 DEF Net, FractionOf
<1>6. ValidSwap(strategy, from, r.offer, r.ask)
  BY <1>3, <1>4, <1>5 DEF ValidSwap
<1>7. ~HasQuote(strategy, r.state)
  BY <1>2 DEF HasQuote
<1> QED
  BY <1>6, <1>7

\* All quotes of a row can be had in one swap.
LEMMA RowPays ==
    ASSUME TypeOK, NEW from \in Reserves, NEW r, RowOf(from, r), from.x > 0,
           Counted(from, r.offer)
    PROVE  ValidSwap(strategy, from, r.offer, r.ask)
<1> DEFINE s == r.state
           g == One - strategy.fee
<1>1. /\ s \in Reserves /\ r.offer \in Nat /\ r.ask \in Nat
      /\ s.x <= from.x + r.offer /\ s.y <= from.y /\ K(from) <= K(s)
      /\ r.ask * One <= (from.y - s.y) * g
  BY DEF RowOf, Rows
<1>2. /\ One \in Nat \ {0} /\ g \in Int
      /\ s.x \in Nat /\ s.y \in Nat /\ from.x \in Nat /\ from.y \in Nat
      /\ K(from) \in Nat /\ K(s) = s.y * s.x
  <2>1. /\ One \in Nat \ {0} /\ g \in Int
    BY OneAssumption, StrategyType
  <2>2. s.x \in Nat /\ s.y \in Nat /\ from.x \in Nat /\ from.y \in Nat
    BY <1>1 DEF Reserves
  <2>3. K(s) = s.x * s.y
    BY DEF K
  <2>4. s.x * s.y = s.y * s.x
    BY <2>2
  <2>5. K(from) \in Nat
    BY ProductType
  <2> QED
    BY <2>1, <2>2, <2>3, <2>4, <2>5
<1> HIDE DEF s, g
<1>3. K(from) <= s.y * (from.x + r.offer)
  <2>1. s.y * s.x <= s.y * (from.x + r.offer)
    <3>1. from.x + r.offer \in Nat
      BY <1>1, <1>2
    <3> DEFINE v == from.x + r.offer
    <3>2. v \in Nat /\ s.x <= v
      BY <1>1, <3>1
    <3> HIDE DEF v
    <3> QED
      BY <1>2, <3>2 DEF v
  <2>2. s.y * s.x \in Nat /\ s.y * (from.x + r.offer) \in Nat
    BY <1>1, <1>2
  <2> QED
    BY <1>1, <1>2, <2>1, <2>2
<1>4. (r.ask - 1) * One < (from.y - s.y) * g
  <2>1. (r.ask - 1) * One = r.ask * One - One /\ r.ask * One \in Nat
    BY <1>1, <1>2
  <2>2. (from.y - s.y) * g \in Int
    BY <1>2
  <2> QED
    BY <1>1, <1>2, <2>1, <2>2
<1>5. from.x + r.offer <= One
  BY DEF Counted
<1> QED
  BY <1>1, <1>2, <1>3, <1>4, <1>5, SwapPays DEF g

\* And with them any part of the quote that would be next.
LEMMA MorePays ==
    ASSUME TypeOK, NEW from \in Reserves, NEW r, RowOf(from, r), from.x > 0,
           HasQuote(strategy, r.state),
           NEW a \in 0 .. QuoteOffer(strategy, r.state),
           Counted(from, r.offer + a)
    PROVE  ValidSwap(strategy, from, r.offer + a,
                     r.ask + PartBought(Quote(strategy, r.state), a))
<1> DEFINE s == r.state
           g == One - strategy.fee
           o == QuoteOffer(strategy, s)
           t == QuoteTotal(strategy, s)
           z == QuoteSize(strategy, s)
           q == Swapped(s, o)
           b == PartBought(Quote(strategy, s), a)
<1>1. /\ s \in Reserves /\ r.offer \in Nat /\ r.ask \in Nat
      /\ s.x <= from.x + r.offer /\ s.y <= from.y /\ K(from) <= K(s)
      /\ r.ask * One <= (from.y - s.y) * g
  BY DEF RowOf, Rows
<1>2. /\ One \in Nat \ {0} /\ g \in Nat /\ g <= One
      /\ s.x \in Nat \ {0} /\ s.y \in Nat /\ from.x \in Nat /\ from.y \in Nat
      /\ K(from) \in Nat /\ K(s) = s.x * s.y
  <2>1. /\ One \in Nat \ {0} /\ g \in Nat /\ g <= One
    BY OneAssumption, StrategyType
  <2>2. s.x \in Nat /\ s.y \in Nat /\ from.x \in Nat /\ from.y \in Nat
    BY <1>1 DEF Reserves
  <2>3. s.x > 0
    BY DEF HasQuote
  <2>4. K(from) \in Nat
    BY ProductType
  <2>5. K(s) = s.x * s.y
    BY DEF K
  <2> QED
    BY <2>1, <2>2, <2>3, <2>4, <2>5
<1>3. /\ o \in Nat \ {0} /\ t \in Nat /\ z \in Nat \ {0}
      /\ q \in Reserves /\ q.x = s.x + o /\ t = s.y - q.y /\ K(s) <= K(q)
      /\ z * One < t * g
  BY <1>1, QuoteParts
<1>4. b \in Nat /\ b * o <= a * z /\ a \in Nat /\ a <= o
  <2>1. o \in Nat /\ a \in 0 .. o
    BY <1>3
  <2>2. a \in Nat /\ a <= o
    BY <2>1
  <2> QED
    BY <1>1, <2>2, PartBoughtAtMost
<1>5. q.y \in Nat /\ K(q) = (s.x + o) * q.y
  <2>1. q.y \in Nat
    BY <1>3 DEF Reserves
  <2> QED
    BY <1>3, <2>1 DEF K
<1> HIDE DEF s, g, o, t, z, q, b
<1>6. t * (s.x + o) <= s.y * o
  <2>1. t * (s.x + o) = s.y * (s.x + o) - (s.x + o) * q.y
    BY <1>2, <1>3, <1>5
  <2>2. s.y * (s.x + o) = s.x * s.y + s.y * o
    BY <1>2, <1>3
  <2>3. s.x * s.y <= (s.x + o) * q.y
    BY <1>2, <1>3, <1>5
  <2>4. s.x * s.y \in Nat /\ s.y * o \in Nat /\ (s.x + o) * q.y \in Nat
    BY <1>2, <1>3, <1>5
  <2> QED
    BY <2>1, <2>2, <2>3, <2>4
<1>7. PICK m \in Nat : /\ m <= s.y /\ s.x * s.y <= m * (s.x + a)
                       /\ s.y * a < (s.y - m + 1) * (s.x + a)
  BY <1>2, <1>4, RestOf
<1>8. b * One < (s.y - m + 1) * g
  <2> DEFINE x == s.x
             y == s.y
             r0 == y - m
  <2>1. r0 \in Nat /\ x \in Nat \ {0} /\ y \in Nat
    BY <1>2, <1>7
  <2>2. /\ b * o <= a * z /\ z * One < t * g /\ t * (x + o) <= y * o
        /\ y * a < (r0 + 1) * (x + a)
    BY <1>3, <1>4, <1>6, <1>7
  <2> HIDE DEF x, y, r0
  <2>3. b * One < (r0 + 1) * g
    BY <1>2, <1>3, <1>4, <2>1, <2>2, PartPaid
  <2> QED
    BY <2>3 DEF r0, y
<1>9. (r.ask + b - 1) * One < (from.y - m) * g
  <2> DEFINE c == r.ask
             y == s.y
             w == from.y
  <2>1. /\ c \in Nat /\ y \in Nat /\ w \in Nat /\ b \in Nat /\ One \in Nat /\ g \in Nat /\ g <= One
        /\ c * One <= (w - y) * g /\ b * One < (y - m + 1) * g
    BY <1>1, <1>2, <1>4, <1>8
  <2> HIDE DEF c, y, w
  <2>2. (c + b - 1) * One < (w - m) * g
    <3>1. (c + b - 1) * One = c * One + b * One - One
      BY <2>1
    <3>2. (y - m + 1) * g = (y - m) * g + g
      BY <2>1
    <3>3. (w - m) * g = (w - y) * g + (y - m) * g
      BY <2>1
    <3>4. /\ c * One \in Nat /\ b * One \in Nat
          /\ (w - y) * g \in Int /\ (y - m) * g \in Int
      BY <2>1
    <3> QED
      BY <2>1, <3>1, <3>2, <3>3, <3>4
  <2> QED
    BY <2>2 DEF c, w
<1>10. K(from) <= m * (from.x + (r.offer + a))
  <2>1. s.x + a \in Nat /\ from.x + (r.offer + a) \in Nat /\ s.x + a <= from.x + (r.offer + a)
    BY <1>1, <1>2, <1>4
  <2> DEFINE v == s.x + a
             w == from.x + (r.offer + a)
  <2>2. v \in Nat /\ w \in Nat /\ v <= w /\ K(from) <= m * v
    <3>1. K(from) <= s.x * s.y /\ s.x * s.y \in Nat
      BY <1>1, <1>2
    <3>2. m * (s.x + a) \in Nat
      BY <2>1
    <3> QED
      BY <1>2, <1>7, <2>1, <3>1, <3>2
  <2> HIDE DEF v, w
  <2>3. m * v <= m * w /\ m * v \in Nat /\ m * w \in Nat
    BY <2>2
  <2>4. K(from) <= m * w
    BY <1>2, <2>2, <2>3
  <2> QED
    BY <2>4 DEF w
<1>11. from.x + (r.offer + a) <= One /\ r.offer + a \in Nat /\ r.ask + b \in Nat /\ m <= from.y
  BY <1>1, <1>2, <1>4, <1>7 DEF Counted
<1>12. ValidSwap(strategy, from, r.offer + a, r.ask + b)
  <2> DEFINE offer == r.offer + a
             ask == r.ask + b
  <2>1. offer \in Nat /\ ask \in Nat
    BY <1>11
  <2>2. from.x + offer <= One /\ m \in Nat /\ m <= from.y /\ K(from) <= m * (from.x + offer)
    BY <1>10, <1>11
  <2>3. (ask - 1) * One < (from.y - m) * g
    <3>1. ask - 1 = r.ask + b - 1
      BY <1>1, <1>4
    <3> HIDE DEF ask
    <3> QED
      BY <1>9, <3>1
  <2> HIDE DEF offer, ask
  <2>4. ValidSwap(strategy, from, offer, ask)
    BY <2>1, <2>2, <2>3, SwapPays DEF g
  <2> QED
    BY <2>4 DEF offer, ask
<1> QED
  BY <1>12 DEF b, s

\* Where the reserves are counted, quotes are honoured.
LEMMA CountedHonoured ==
    ASSUME TypeOK, QuotesCounted
    PROVE  QuotesHonoured
<1> SUFFICES ASSUME NEW inverted \in BOOLEAN, NEW n \in 0 .. MaxQuotes
             PROVE  LET from == Turned(inverted, pool)
                        row  == Quoted(from)[n]
                    IN  /\ ValidSwap(strategy, from, row.offer, row.ask)
                        /\ HasQuote(strategy, row.state) =>
                               \A offer \in 0 .. QuoteOffer(strategy, row.state) :
                                   ValidSwap(strategy, from, row.offer + offer,
                                             row.ask + PartBought(Quote(strategy, row.state),
                                                                  offer))
  BY Zenon DEF QuotesHonoured
<1> DEFINE from == Turned(inverted, pool)
           row  == Quoted(from)[n]
<1>1. from \in Reserves
  BY DEF TypeOK, Turned, Inverted, Reserves
<1>2. RowOf(from, row)
  BY <1>1, QuotedRows
<1>3. Counted(from, row.offer + QuoteOffer(strategy, row.state))
  BY DEF QuotesCounted
<1> HIDE DEF from, row
<1>4. from.x \in Nat /\ row.offer \in Nat /\ One \in Nat
  BY <1>1, <1>2, OneAssumption DEF RowOf, Rows, Reserves
<1>5. CASE from.x = 0
  BY <1>1, <1>2, <1>5, EmptyPays DEF from, row
<1>6. CASE from.x > 0
  <2>1. QuoteOffer(strategy, row.state) \in Nat
    <3> DEFINE s == row.state
    <3>1. s.x \in Nat /\ strategy.step \in Nat
      BY <1>2, BowAssumptions DEF RowOf, Rows, Reserves, TypeOK
    <3>2. s.x * strategy.step \in Nat
      BY <3>1
    <3> HIDE DEF s
    <3>3. QuoteOffer(strategy, s) \in Nat
      BY <3>2, OneAssumption, Divided DEF QuoteOffer, FractionOf
    <3> QED
      BY <3>3 DEF s
  <2>2. Counted(from, row.offer)
    BY <1>3, <1>4, <2>1 DEF Counted
  <2>3. ValidSwap(strategy, from, row.offer, row.ask)
    BY <1>1, <1>2, <1>6, <2>2, RowPays
  <2>4. ASSUME HasQuote(strategy, row.state),
               NEW offer \in 0 .. QuoteOffer(strategy, row.state)
        PROVE  ValidSwap(strategy, from, row.offer + offer,
                         row.ask + PartBought(Quote(strategy, row.state), offer))
    <3>1. Counted(from, row.offer + offer)
      BY <1>3, <1>4, <2>1 DEF Counted
    <3> QED
      BY <1>1, <1>2, <1>6, <2>4, <3>1, MorePays
  <2> QED
    BY <2>3, <2>4 DEF from, row
<1> QED
  BY <1>4, <1>5, <1>6


-----------------------------------------------------------------------------
(* Theorems                                                                *)

THEOREM Invariant == Spec => []IInv
<1>1. Init => IInv
  BY InitIInv
<1>2. IInv /\ [Next]_vars => IInv'
  BY NextIInv
<1> QED
  BY <1>1, <1>2, PTL DEF Spec

\* Nothing the contract or the strategy counts goes below zero, whatever is
\* deposited, withdrawn and swapped.
THEOREM TypeCorrect == Spec => []TypeOK
<1>1. IInv => TypeOK
  BY DEF IInv
<1> QED
  BY Invariant, <1>1, PTL

\* The reserves the strategy counts are in the bank and its shares are tokens,
\* but for what a withdrawal of all shares left in the state.
THEOREM AlwaysBacked == Spec => []Backed
<1>1. IInv => Backed
  BY DEF IInv
<1> QED
  BY Invariant, <1>1, PTL

\* No step dilutes the liquidity shares by more than a unit of the root of k.
THEOREM NeverDiluted == Spec => SharesUndiluted
<1>1. IInv /\ [Next]_vars => [Undiluted]_vars
  BY NextIInv
<1> QED
  BY Invariant, <1>1, PTL DEF Spec, SharesUndiluted, Undiluted

\* Quotes are honoured (Strategy::quote and validate_swap for Xyk): whoever takes any number
\* of quotes in a row, and any part of one more, can have all of it in one swap, though the
\* fee is charged on each quote by itself and once on the swap. That is so for reserves
\* Decimal256 can count in parts of a unit (QuotesCounted).
THEOREM Honours == Spec => [](QuotesCounted => QuotesHonoured)
<1>1. IInv => (QuotesCounted => QuotesHonoured)
  BY CountedHonoured DEF IInv
<1> QED
  BY Invariant, <1>1, PTL

=============================================================================
