----------------------------- MODULE FinProofs -----------------------------
(***************************************************************************)
(* What Fin's run checks on a small book, proved for all prices, orders,   *)
(* swaps and reserves: nothing goes below zero, and whoever trades with a  *)
(* pool pays its price.                                                    *)
(***************************************************************************)
EXTENDS Fin, FiniteSetTheorems, SequenceTheorems, WellFoundedInduction, TLAPS

-----------------------------------------------------------------------------
(* Recursion                                                               *)

\* A set of natural numbers that is not empty has a least member.
LEMMA LeastMember ==
    ASSUME NEW S \in SUBSET Nat, S # {}
    PROVE  \E r \in S : \A q \in S : r <= q
<1> DEFINE R == OpToRel(<, Nat)
<1>1. IsWellFoundedOn(R, Nat)
  BY NatLessThanWellFounded, Zenon
<1>2. PICK r \in S : \A q \in S : ~ (<<q, r>> \in R)
  <2> HIDE DEF R
  <2> QED
    BY <1>1, WFMin, Zenon
<1>3. \A q \in S : ~ (q < r)
  BY <1>2 DEF OpToRel
<1> QED
  BY <1>3

\* A function of 0 .. n can be defined by its first value and its step.
Definable(n, V, b, h) ==
    \E g \in [0 .. n -> V] : g = [c \in 0 .. n |-> IF c = 0 THEN b ELSE h[g[c - 1]]]

LEMMA Recursion ==
    ASSUME NEW n \in Nat, NEW V, NEW b \in V, NEW h \in [V -> V]
    PROVE  Definable(n, V, b, h)
<1> DEFINE Follows(g, m) == /\ g \in [0 .. m -> V]
                            /\ \A c \in 0 .. m : g[c] = IF c = 0 THEN b ELSE h[g[c - 1]]
           Missing == {m \in 0 .. n : ~ \E g : Follows(g, m)}
<1>1. Follows([c \in 0 .. 0 |-> b], 0)
  OBVIOUS
<1>2. ASSUME NEW m \in 1 .. n, NEW f, Follows(f, m - 1)
      PROVE  Follows([c \in 0 .. m |-> IF c = m THEN h[f[m - 1]] ELSE f[c]], m)
  <2> DEFINE g == [c \in 0 .. m |-> IF c = m THEN h[f[m - 1]] ELSE f[c]]
  <2>1. f \in [0 .. m - 1 -> V]
    BY <1>2
  <2>2. f[m - 1] \in V /\ h[f[m - 1]] \in V
    BY <2>1
  <2>3. g \in [0 .. m -> V]
    <3> SUFFICES ASSUME NEW c \in 0 .. m
                 PROVE  (IF c = m THEN h[f[m - 1]] ELSE f[c]) \in V
      OBVIOUS
    <3>1. c # m => c \in 0 .. m - 1
      OBVIOUS
    <3> QED
      BY <2>1, <2>2, <3>1
  <2>4. ASSUME NEW c \in 0 .. m
        PROVE  g[c] = IF c = 0 THEN b ELSE h[g[c - 1]]
    <3>1. c # 0 => g[c - 1] = f[c - 1]
      OBVIOUS
    <3>2. CASE c = m
      BY <3>1, <3>2
    <3>3. CASE c # m
      <4>1. c \in 0 .. m - 1 /\ g[c] = f[c]
        BY <3>3
      <4>2. f[c] = IF c = 0 THEN b ELSE h[f[c - 1]]
        BY <1>2, <4>1
      <4> QED
        BY <3>1, <4>1, <4>2
    <3> QED
      BY <3>2, <3>3
  <2> QED
    BY <2>3, <2>4
<1>3. Missing = {}
  <2> SUFFICES ASSUME Missing # {} PROVE FALSE
    OBVIOUS
  <2>1. PICK m \in Missing : \A k \in Missing : m <= k
    <3>1. Missing \in SUBSET Nat
      OBVIOUS
    <3> HIDE DEF Missing
    <3> QED
      BY <3>1, LeastMember
  <2>2. m \in 0 .. n /\ m # 0
    BY <1>1
  <2>3. m \in 1 .. n /\ m - 1 \in 0 .. n /\ m - 1 \notin Missing
    <3>1. m \in 1 .. n /\ m - 1 \in 0 .. n /\ ~ (m <= m - 1)
      BY <2>2
    <3> HIDE DEF Missing
    <3> QED
      BY <2>1, <3>1
  <2>4. PICK f : Follows(f, m - 1)
    BY <2>3
  <2>5. \E g : Follows(g, m)
    <3> HIDE DEF Follows
    <3> QED
      BY <1>2, <2>3, <2>4
  <2> QED
    BY <2>5
<1>4. PICK g : Follows(g, n)
  <2>1. n \in 0 .. n
    OBVIOUS
  <2> HIDE DEF Follows
  <2> QED
    BY <1>3, <2>1
<1>5. g = [c \in 0 .. n |-> IF c = 0 THEN b ELSE h[g[c - 1]]]
  BY <1>4
<1> QED
  BY <1>4, <1>5 DEF Definable

\* What holds at zero and is kept by each step holds throughout.
LEMMA Throughout ==
    ASSUME NEW n \in Nat, NEW V, NEW g, g[0] \in V,
           \A c \in 1 .. n : g[c - 1] \in V => g[c] \in V
    PROVE  \A c \in 0 .. n : g[c] \in V
<1> DEFINE Missing == {c \in 0 .. n : g[c] \notin V}
<1> SUFFICES ASSUME Missing # {} PROVE FALSE
  OBVIOUS
<1>1. PICK c \in Missing : \A k \in Missing : c <= k
  <2>1. Missing \in SUBSET Nat
    OBVIOUS
  <2> HIDE DEF Missing
  <2> QED
    BY <2>1, LeastMember
<1>2. c \in 1 .. n /\ c - 1 \in 0 .. n /\ ~ (c <= c - 1) /\ g[c] \notin V
  OBVIOUS
<1>3. c - 1 \notin Missing
  <2> HIDE DEF Missing
  <2> QED
    BY <1>1, <1>2
<1> QED
  BY <1>2, <1>3

-----------------------------------------------------------------------------
(* Roundings                                                               *)

LEMMA Divided ==
    ASSUME NEW a \in Nat, NEW b \in Nat \ {0}
    PROVE  /\ a \div b \in Nat
           /\ (a \div b) * b <= a
           /\ a < (a \div b) * b + b
OBVIOUS

LEMMA Cancel ==
    ASSUME NEW a \in Nat, NEW b \in Nat, NEW c \in Nat \ {0}, a * c <= b * c
    PROVE  a <= b
<1> SUFFICES ASSUME b + 1 <= a PROVE FALSE
  OBVIOUS
<1>1. (b + 1) * c <= a * c
  OBVIOUS
<1>2. (b + 1) * c = b * c + c
  OBVIOUS
<1> QED
  BY <1>1, <1>2

\* A number no less than a multiple of the divisor.
LEMMA DividedAtLeast ==
    ASSUME NEW a \in Nat, NEW b \in Nat \ {0}, NEW n \in Nat, n * b <= a
    PROVE  n <= a \div b
<1> DEFINE q == a \div b
<1>1. q \in Nat /\ a < q * b + b
  BY Divided
<1> HIDE DEF q
<1>2. n * b \in Nat /\ (q + 1) * b = q * b + b
  BY <1>1
<1> SUFFICES ASSUME q + 1 <= n PROVE FALSE
  BY <1>1 DEF q
<1>3. (q + 1) * b <= n * b
  BY <1>1
<1> QED
  BY <1>1, <1>2, <1>3

LEMMA DividedAtMost ==
    ASSUME NEW a \in Nat, NEW b \in Nat \ {0}, NEW n \in Nat, a <= n * b
    PROVE  a \div b <= n
<1> DEFINE q == a \div b
<1>1. q \in Nat /\ q * b <= a
  BY Divided
<1> HIDE DEF q
<1>2. n * b \in Nat /\ q * b \in Nat
  BY <1>1
<1>3. q * b <= n * b
  BY <1>1, <1>2
<1> QED
  BY <1>1, <1>3, Cancel DEF q

\* What is not nothing is divided to not nothing, if it is rounded up.
LEMMA CeilType ==
    ASSUME NEW x \in Nat
    PROVE  ToCeil(x) \in Nat /\ x <= ToCeil(x) * One /\ ToCeil(x) * One < x + One
<1> DEFINE q == (x + One - 1) \div One
<1>1. One \in Nat \ {0} /\ x + One - 1 \in Nat
  BY OneAssumption
<1>2. q \in Nat /\ q * One <= x + One - 1 /\ x + One - 1 < q * One + One
  BY <1>1, Divided
<1> HIDE DEF q
<1>3. q * One \in Nat
  BY <1>1, <1>2
<1>4. x <= q * One /\ q * One < x + One
  BY <1>1, <1>2, <1>3
<1> QED
  BY <1>2, <1>4 DEF q, ToCeil

-----------------------------------------------------------------------------
(* Powers and digits                                                       *)

LEMMA PowerSteps ==
    ASSUME NEW b \in Nat \ {0}, NEW n \in Nat
    PROVE  \E g : /\ Power(b, n) = g[n]
                  /\ g = [i \in 0 .. n |-> IF i = 0 THEN 1 ELSE b * g[i - 1]]
<1> DEFINE V == Nat \ {0}
           h == [x \in V |-> b * x]
           Steps(g) == [i \in 0 .. n |-> IF i = 0 THEN 1 ELSE b * g[i - 1]]
<1>1. 1 \in V /\ h \in [V -> V] /\ \A x \in V : h[x] = b * x
  OBVIOUS
<1>2. \E g : g = Steps(g)
  <2>1. PICK g \in [0 .. n -> V] :
            g = [c \in 0 .. n |-> IF c = 0 THEN 1 ELSE h[g[c - 1]]]
    <3> DEFINE o == 1
    <3>1. n \in Nat /\ o \in V /\ h \in [V -> V]
      BY <1>1
    <3> HIDE DEF V, h, o
    <3>2. \E g \in [0 .. n -> V] : g = [c \in 0 .. n |-> IF c = 0 THEN o ELSE h[g[c - 1]]]
      BY <3>1, Recursion DEF Definable
    <3> QED
      BY <3>2 DEF o
  <2> HIDE DEF V, h
  <2>2. ASSUME NEW c \in 0 .. n, c # 0 PROVE h[g[c - 1]] = b * g[c - 1]
    <3>1. c - 1 \in 0 .. n
      BY <2>2
    <3> QED
      BY <1>1, <2>1, <3>1
  <2>3. g = Steps(g)
    BY <2>1, <2>2
  <2> HIDE DEF Steps
  <2> QED
    BY <2>3, Zenon
<1> DEFINE p == CHOOSE g : g = Steps(g)
<1>3. Power(b, n) = p[n]
  BY Zenon DEF Power
<1>4. p = Steps(p)
  <2> HIDE DEF Steps
  <2> QED
    BY <1>2, Zenon
<1> HIDE DEF p
<1> QED
  BY <1>3, <1>4

LEMMA PowerType ==
    ASSUME NEW b \in Nat \ {0}, NEW n \in Nat
    PROVE  Power(b, n) \in Nat \ {0}
<1>1. PICK g : /\ Power(b, n) = g[n]
               /\ g = [i \in 0 .. n |-> IF i = 0 THEN 1 ELSE b * g[i - 1]]
  BY PowerSteps, Zenon
<1>2. g[0] = 1 /\ n \in 0 .. n
  BY <1>1
<1>3. ASSUME NEW c \in 1 .. n, g[c - 1] \in Nat \ {0} PROVE g[c] \in Nat \ {0}
  <2>1. g[c] = b * g[c - 1]
    BY <1>1, <1>3
  <2>2. b * g[c - 1] \in Nat /\ b * g[c - 1] # 0
    BY <1>3
  <2> QED
    BY <2>1, <2>2
<1> DEFINE V == Nat \ {0}
<1>4. g[0] \in V /\ \A c \in 1 .. n : g[c - 1] \in V => g[c] \in V
  BY <1>2, <1>3
<1>5. \A c \in 0 .. n : g[c] \in V
  <2> HIDE DEF V
  <2> QED
    BY <1>4, Throughout
<1> QED
  BY <1>1, <1>2, <1>5

LEMMA ShiftType ==
    ASSUME NEW n \in Nat
    PROVE  Shift(n) \in Nat \ {0} /\ Shift(n) = Power(Base, n)
<1>1. Base \in Nat \ {0} /\ Digits \in Nat
  BY ScaledAssumptions
<1>2. Power(Base, n) \in Nat \ {0}
  BY <1>1, PowerType
<1> QED
  BY <1>1, <1>2 DEF Shift, Powers

\* A loop of at most n turns.
LEMMA TurnsType ==
    ASSUME NEW n \in Nat, NEW S, S \subseteq 1 .. n
    PROVE  IsFiniteSet(S) /\ Turns(S) \in 0 .. n
<1>1. IsFiniteSet(1 .. n) /\ Cardinality(1 .. n) = n
  BY FS_Interval
<1>2. S \in SUBSET (1 .. n)
  OBVIOUS
<1>3. IsFiniteSet(S) /\ Cardinality(S) <= Cardinality(1 .. n)
  BY <1>1, <1>2, FS_Subset
<1>4. Cardinality(S) \in Nat
  BY <1>3, FS_CardinalityType
<1> QED
  BY <1>1, <1>3, <1>4 DEF Turns

LEMMA MoreTurnsType ==
    ASSUME NEW n \in Nat, NEW S, S \subseteq 0 .. n
    PROVE  Turns(S) \in Nat
<1>1. IsFiniteSet(0 .. n)
  BY FS_Interval
<1>2. S \in SUBSET (0 .. n)
  OBVIOUS
<1>3. IsFiniteSet(S)
  BY <1>1, <1>2, FS_Subset
<1> QED
  BY <1>3, FS_CardinalityType DEF Turns

-----------------------------------------------------------------------------
(* Scaled decimals: no operation leaves their type                         *)

SD == [n : Nat, k : Int]

LEMMA Constant ==
    Zero \in SD /\ Unit \in SD /\ Digits \in Nat \ {0} /\ Places \in Nat \ {0}
BY ScaledAssumptions DEF SD, Zero, Unit, Scaled

LEMMA DownType ==
    ASSUME NEW n \in Nat, NEW t \in Nat
    PROVE  n \div Shift(t) \in Nat
<1>1. Shift(t) \in Nat \ {0}
  BY ShiftType
<1> HIDE DEF Shift
<1> QED
  BY <1>1, Divided

LEMMA ZerosType ==
    ASSUME NEW n \in Nat
    PROVE  Zeros(n) \in 0 .. Digits
<1> DEFINE S == {i \in 1 .. Digits : n % Shift(i) = 0}
<1>1. Digits \in Nat /\ S \subseteq 1 .. Digits
  BY Constant
<1> HIDE DEF S
<1>2. Turns(S) \in 0 .. Digits
  BY <1>1, TurnsType
<1> QED
  BY <1>2 DEF S, Zeros

LEMMA NormalType ==
    ASSUME NEW n \in Nat, NEW k \in Int
    PROVE  Normal(Scaled(n, k)) \in SD
<1> DEFINE z == Zeros(n)
<1>1. z \in Nat
  BY ZerosType, Constant
<1>2. n \div Shift(z) \in Nat
  BY <1>1, DownType
<1>3. Normal(Scaled(n, k)) = IF n = 0 THEN Zero ELSE Scaled(n \div Shift(z), k - z)
  BY DEF Normal, Scaled
<1> HIDE DEF z
<1> DEFINE q == n \div Shift(z)
<1> HIDE DEF q
<1> QED
  BY <1>1, <1>2, <1>3, Constant DEF q, SD, Scaled

LEMMA LargerType ==
    ASSUME NEW d \in Int
    PROVE  Max({0, d}) \in Nat /\ Max({0, d}) = IF d > 0 THEN d ELSE 0
<1> DEFINE S == {0, d}
           m == IF d > 0 THEN d ELSE 0
<1>1. m \in S /\ \A y \in S : m >= y
  OBVIOUS
<1>2. \E x \in S : \A y \in S : x >= y
  BY <1>1
<1>3. Max(S) \in S /\ \A y \in S : Max(S) >= y
  <2> HIDE DEF S
  <2> QED
    BY <1>2, Zenon DEF Max
<1> QED
  BY <1>3

LEMMA TruncateType ==
    ASSUME NEW x \in SD, NEW t \in Nat
    PROVE  Truncate(x, t) \in SD /\ Truncate(x, t).k = x.k - t
<1>1. x.n \in Nat /\ x.k \in Int
  BY DEF SD
<1> DEFINE q == x.n \div Shift(t)
<1>2. q \in Nat
  BY <1>1, DownType
<1> HIDE DEF q
<1>3. Truncate(x, t) = [n |-> IF t >= Digits THEN 0 ELSE q, k |-> x.k - t]
  BY DEF q, Truncate, Scaled
<1> QED
  BY <1>1, <1>2, <1>3 DEF SD

LEMMA RoomType ==
    ASSUME NEW n \in Nat
    PROVE  Room(n) \in Nat
<1> DEFINE S == {j \in 1 .. Digits - 1 : n * Shift(j) < Limit}
<1>1. Digits - 1 \in Nat /\ S \subseteq 1 .. Digits - 1
  BY Constant
<1> HIDE DEF S
<1>2. Turns(S) \in 0 .. Digits - 1
  BY <1>1, TurnsType
<1> QED
  BY <1>1, <1>2 DEF S, Room

LEMMA CutType ==
    ASSUME NEW x \in SD, NEW y \in SD
    PROVE  /\ Cut(x, y)[1] \in SD /\ Cut(x, y)[2] \in SD
           /\ Cut(x, y) = <<Cut(x, y)[1], Cut(x, y)[2]>>
<1>1. x.n \in Nat /\ x.k \in Int /\ y.n \in Nat /\ y.k \in Int
  BY DEF SD
<1> DEFINE a == y.k - x.k - Room(x.n)
           b == x.k - y.k - Room(y.n)
<1>2. a \in Int /\ b \in Int
  BY <1>1, RoomType
<1> HIDE DEF a, b
<1>3. Max({0, a}) \in Nat /\ Max({0, b}) \in Nat
  BY <1>2, LargerType
<1>4. Truncate(y, Max({0, a})) \in SD /\ Truncate(x, Max({0, b})) \in SD
  BY <1>3, TruncateType
<1>5. Cut(x, y) = IF x.k <= y.k THEN <<x, Truncate(y, Max({0, a}))>>
                                ELSE <<Truncate(x, Max({0, b})), y>>
  BY DEF a, b, Cut
<1> DEFINE u == Truncate(y, Max({0, a}))
           v == Truncate(x, Max({0, b}))
<1> HIDE DEF u, v
<1>6. Cut(x, y) = <<x, u>> \/ Cut(x, y) = <<v, y>>
  BY <1>5 DEF u, v
<1> QED
  BY <1>4, <1>6 DEF u, v

LEMMA SameType ==
    ASSUME NEW x \in SD, NEW y \in SD
    PROVE  Same(<<x, y>>) \in [a : Nat, b : Nat, k : Int]
<1>1. x.n \in Nat /\ x.k \in Int /\ y.n \in Nat /\ y.k \in Int
  BY DEF SD
<1> DEFINE k == IF x.k > y.k THEN x.k ELSE y.k
<1>2. k \in Int /\ k - x.k \in Nat /\ k - y.k \in Nat
  BY <1>1
<1>3. Shift(k - x.k) \in Nat /\ Shift(k - y.k) \in Nat
  BY <1>2, ShiftType
<1>4. Same(<<x, y>>) = [a |-> x.n * Shift(k - x.k), b |-> y.n * Shift(k - y.k), k |-> k]
  BY DEF Same
<1> DEFINE s == Shift(k - x.k)
           t == Shift(k - y.k)
<1> HIDE DEF k, s, t
<1>5. x.n * s \in Nat /\ y.n * t \in Nat
  BY <1>1, <1>3 DEF s, t
<1> QED
  BY <1>2, <1>4, <1>5 DEF s, t

LEMMA SameCutType ==
    ASSUME NEW x \in SD, NEW y \in SD
    PROVE  Same(Cut(x, y)) \in [a : Nat, b : Nat, k : Int]
<1> DEFINE p == Cut(x, y)[1]
           q == Cut(x, y)[2]
<1>1. p \in SD /\ q \in SD /\ Cut(x, y) = <<p, q>>
  BY CutType
<1> HIDE DEF p, q
<1>2. Same(<<p, q>>) \in [a : Nat, b : Nat, k : Int]
  BY <1>1, SameType
<1> QED
  BY <1>1, <1>2

LEMMA AddType ==
    ASSUME NEW x \in SD, NEW y \in SD
    PROVE  Add(x, y) \in SD
<1> DEFINE p == Cut(x, y)
           e == Same(p)
           l == Truncate(p[1], 1)
           r == Truncate(p[2], 1)
           f == Same(<<l, r>>)
<1>1. e \in [a : Nat, b : Nat, k : Int]
  BY SameCutType
<1>2. p[1] \in SD /\ p[2] \in SD
  BY CutType
<1>3. l \in SD /\ r \in SD
  <2> HIDE DEF p
  <2> QED
    BY <1>2, TruncateType
<1>4. f \in [a : Nat, b : Nat, k : Int]
  <2> HIDE DEF l, r
  <2> QED
    BY <1>3, SameType
<1>5. Add(x, y) = IF e.a + e.b < Limit THEN Normal(Scaled(e.a + e.b, e.k))
                                       ELSE Normal(Scaled(f.a + f.b, f.k))
  BY DEF Add
<1> HIDE DEF e, f
<1>6. Normal(Scaled(e.a + e.b, e.k)) \in SD /\ Normal(Scaled(f.a + f.b, f.k)) \in SD
  <2>1. e.a + e.b \in Nat /\ e.k \in Int /\ f.a + f.b \in Nat /\ f.k \in Int
    BY <1>1, <1>4
  <2> QED
    BY <2>1, NormalType
<1> QED
  BY <1>5, <1>6, Zenon

LEMMA SubType ==
    ASSUME NEW x \in SD, NEW y \in SD, CanSub(x, y)
    PROVE  Sub(x, y) \in SD
<1> DEFINE e == Same(Cut(x, y))
<1>1. e \in [a : Nat, b : Nat, k : Int]
  BY SameCutType
<1>2. e.a >= e.b /\ Sub(x, y) = Normal(Scaled(e.a - e.b, e.k))
  BY DEF Sub, CanSub
<1> HIDE DEF e
<1>3. e.a - e.b \in Nat /\ e.k \in Int
  BY <1>1, <1>2
<1> QED
  BY <1>2, <1>3, NormalType

LEMMA RatioType ==
    ASSUME NEW a \in Nat, NEW b \in Nat \ {0}
    PROVE  Ratio(a, b) \in SD
<1> DEFINE s == Shift(Places)
           q == (a * s) \div b
<1>1. s \in Nat /\ Places \in Int
  BY ShiftType, Constant
<1> HIDE DEF s
<1>2. a * s \in Nat
  BY <1>1
<1>3. q \in Nat
  BY <1>2, Divided
<1> HIDE DEF q
<1>4. Normal(Scaled(q, Places)) \in SD
  BY <1>1, <1>3, NormalType
<1> QED
  BY <1>4 DEF q, s, Ratio

LEMMA TimesType ==
    ASSUME NEW x \in SD, NEW y \in SD
    PROVE  Times(x, y) \in SD
<1>1. x.n \in Nat /\ x.k \in Int /\ y.n \in Nat /\ y.k \in Int
  BY DEF SD
<1> DEFINE Product(t) == (x.n \div Shift(t)) * (y.n \div Shift(t))
           S == {i \in 0 .. Digits : Product(i) >= Limit}
           t == Turns(S)
<1>2. t \in Nat
  <2>1. S \subseteq 0 .. Digits /\ Digits \in Nat
    BY Constant
  <2> HIDE DEF S
  <2> QED
    BY <2>1, MoreTurnsType
<1>3. Times(x, y) = Normal(Scaled(Product(t), x.k + y.k - 2 * t))
  BY DEF Times
<1> HIDE DEF t
<1>4. x.n \div Shift(t) \in Nat /\ y.n \div Shift(t) \in Nat
  BY <1>1, <1>2, DownType
<1>5. Product(t) \in Nat
  BY <1>4
<1> HIDE DEF Product
<1>6. x.k + y.k - 2 * t \in Int
  BY <1>1, <1>2
<1> QED
  BY <1>3, <1>5, <1>6, NormalType

LEMMA TimesIntType ==
    ASSUME NEW x \in SD, NEW m \in Nat
    PROVE  TimesInt(x, m) \in SD
<1>1. x.n \in Nat /\ x.k \in Int
  BY DEF SD
<1> DEFINE S == {i \in 0 .. Digits : (x.n \div Shift(i)) * m >= Limit}
           t == Turns(S)
<1>2. t \in Nat
  <2>1. S \subseteq 0 .. Digits /\ Digits \in Nat
    BY Constant
  <2> HIDE DEF S
  <2> QED
    BY <2>1, MoreTurnsType
<1>3. TimesInt(x, m) = Normal(Scaled((x.n \div Shift(t)) * m, x.k - t))
  BY DEF TimesInt
<1> HIDE DEF t
<1> DEFINE q == x.n \div Shift(t)
<1>4. q \in Nat
  BY <1>1, <1>2, DownType
<1> HIDE DEF q
<1>5. q * m \in Nat /\ x.k - t \in Int
  BY <1>1, <1>2, <1>4
<1>6. Normal(Scaled(q * m, x.k - t)) \in SD
  BY <1>5, NormalType
<1> QED
  BY <1>3, <1>6 DEF q

LEMMA QuotientType ==
    ASSUME NEW x \in SD, NEW y \in SD, CanDiv(x, y)
    PROVE  Quotient(x, y) \in SD
<1> DEFINE e == Same(Cut(x, y))
           s == Shift(Places)
<1>1. e \in [a : Nat, b : Nat, k : Int]
  BY SameCutType
<1>2. s \in Nat /\ Places \in Int
  BY ShiftType, Constant
<1>3. CASE x.n = 0 \/ x = y
  BY <1>3, Constant DEF Quotient
<1>4. CASE ~ (x.n = 0 \/ x = y)
  <2>1. e.b > 0 /\ Quotient(x, y) = Normal(Scaled((s * e.a) \div e.b, Places))
    BY <1>4 DEF Quotient, CanDiv
  <2> HIDE DEF e, s
  <2>2. s * e.a \in Nat /\ e.b \in Nat \ {0}
    BY <1>1, <1>2, <2>1
  <2> DEFINE q == (s * e.a) \div e.b
  <2>3. q \in Nat
    BY <2>2, Divided
  <2> HIDE DEF q
  <2>4. Normal(Scaled(q, Places)) \in SD
    BY <1>2, <2>3, NormalType
  <2> QED
    BY <2>1, <2>4 DEF q
<1> QED
  BY <1>3, <1>4

LEMMA FloorType ==
    ASSUME NEW x \in SD
    PROVE  Floor(x) \in Nat
<1>1. x.n \in Nat /\ x.k \in Int
  BY DEF SD
<1>2. CASE x.k < 0
  <2>1. -x.k \in Nat
    BY <1>1, <1>2
  <2> DEFINE s == Shift(-x.k)
  <2>2. s \in Nat
    BY <2>1, ShiftType
  <2>3. Floor(x) = x.n * s
    BY <1>2 DEF Floor
  <2> HIDE DEF s
  <2> QED
    BY <1>1, <2>2, <2>3
<1>3. CASE ~ (x.k < 0)
  <2> DEFINE q == x.n \div Shift(x.k)
  <2>3. x.k \in Nat
    BY <1>1, <1>3
  <2>1. q \in Nat
    BY <1>1, <2>3, DownType
  <2>2. Floor(x) = IF x.k >= Digits THEN 0 ELSE q
    BY <1>3 DEF Floor
  <2> HIDE DEF q
  <2> QED
    BY <2>1, <2>2
<1> QED
  BY <1>2, <1>3

-----------------------------------------------------------------------------
(* What is left of a unit by a part of it                                  *)

LEMMA ShiftNext ==
    ASSUME NEW n \in Nat
    PROVE  Shift(n + 1) = Base * Shift(n) /\ Shift(0) = 1
<1>1. Base \in Nat \ {0} /\ n + 1 \in Nat
  BY ScaledAssumptions
<1>2. PICK g : /\ Power(Base, n) = g[n]
               /\ g = [i \in 0 .. n |-> IF i = 0 THEN 1 ELSE Base * g[i - 1]]
  BY <1>1, PowerSteps, Zenon
<1>3. PICK h : /\ Power(Base, n + 1) = h[n + 1]
               /\ h = [i \in 0 .. n + 1 |-> IF i = 0 THEN 1 ELSE Base * h[i - 1]]
  BY <1>1, PowerSteps, Zenon
<1>4. PICK o : /\ Power(Base, 0) = o[0]
               /\ o = [i \in 0 .. 0 |-> IF i = 0 THEN 1 ELSE Base * o[i - 1]]
  BY <1>1, PowerSteps, Zenon
<1> DEFINE d == [i \in 0 .. n |-> g[i] = h[i]]
<1>5. d[0] = TRUE
  <2>1. 0 \in 0 .. n /\ 0 \in 0 .. n + 1
    OBVIOUS
  <2>2. g[0] = 1
    BY <1>2, <2>1
  <2>3. h[0] = 1
    BY <1>3, <2>1
  <2> QED
    BY <2>1, <2>2, <2>3
<1>6. ASSUME NEW c \in 1 .. n, d[c - 1] = TRUE PROVE d[c] = TRUE
  <2>1. c \in 0 .. n /\ c - 1 \in 0 .. n /\ c \in 0 .. n + 1 /\ c # 0
    OBVIOUS
  <2>2. g[c - 1] = h[c - 1]
    BY <1>6, <2>1
  <2>3. g[c] = Base * g[c - 1]
    BY <1>2, <2>1
  <2>4. h[c] = Base * h[c - 1]
    BY <1>3, <2>1
  <2> QED
    BY <2>1, <2>2, <2>3, <2>4
<1>7. g[n] = h[n]
  <2> DEFINE V == {TRUE}
  <2>1. d[0] \in V /\ \A c \in 1 .. n : d[c - 1] \in V => d[c] \in V
    BY <1>5, <1>6
  <2>2. n \in 0 .. n
    OBVIOUS
  <2>3. d[n] = (g[n] = h[n])
    BY <2>2
  <2> HIDE DEF V, d
  <2>4. d[n] \in V
    BY <2>1, <2>2, Throughout
  <2> QED
    BY <2>3, <2>4 DEF V
<1>8. h[n + 1] = Base * h[n]
  <2>1. n + 1 \in 0 .. n + 1 /\ n + 1 # 0 /\ n + 1 - 1 = n
    OBVIOUS
  <2> QED
    BY <1>3, <2>1
<1>9. Power(Base, n + 1) = Base * Power(Base, n) /\ Power(Base, 0) = 1
  BY <1>2, <1>3, <1>4, <1>7, <1>8
<1> QED
  BY <1>1, <1>9, ShiftType

LEMMA ShiftSum ==
    ASSUME NEW a \in Nat, NEW b \in Nat
    PROVE  Shift(a + b) = Shift(a) * Shift(b)
<1> DEFINE d == [i \in 0 .. b |-> Shift(a + i) = Shift(a) * Shift(i)]
           V == {TRUE}
<1>1. d[0] \in V
  <2>1. Shift(0) = 1 /\ Shift(a) \in Nat /\ a + 0 = a
    BY ShiftNext, ShiftType
  <2>2. Shift(a + 0) = Shift(a) * Shift(0) /\ 0 \in 0 .. b
    BY <2>1
  <2> QED
    BY <2>2
<1>2. ASSUME NEW c \in 1 .. b, d[c - 1] \in V PROVE d[c] \in V
  <2>1. c \in 0 .. b /\ c - 1 \in 0 .. b /\ c - 1 \in Nat /\ a + (c - 1) \in Nat
    OBVIOUS
  <2>2. Shift(a + (c - 1)) = Shift(a) * Shift(c - 1)
    BY <1>2, <2>1
  <2>3. Shift(c) = Base * Shift(c - 1)
    <3>1. Shift(c - 1 + 1) = Base * Shift(c - 1) /\ c - 1 + 1 = c
      BY <2>1, ShiftNext
    <3> QED
      BY <3>1
  <2>4. Shift(a + c) = Base * Shift(a + (c - 1))
    <3>1. Shift(a + (c - 1) + 1) = Base * Shift(a + (c - 1)) /\ a + (c - 1) + 1 = a + c
      BY <2>1, ShiftNext
    <3> QED
      BY <3>1
  <2>5. Base \in Nat /\ Shift(a) \in Nat /\ Shift(c - 1) \in Nat
    BY <2>1, ShiftType, ScaledAssumptions
  <2> DEFINE s == Shift(a)
             t == Shift(c - 1)
  <2> HIDE DEF s, t
  <2>6. Base * (s * t) = s * (Base * t)
    BY <2>5 DEF s, t
  <2>7. Shift(a + c) = Shift(a) * Shift(c)
    BY <2>2, <2>3, <2>4, <2>6 DEF s, t
  <2> QED
    BY <2>1, <2>7
<1>3. b \in 0 .. b /\ d[b] = (Shift(a + b) = Shift(a) * Shift(b))
  OBVIOUS
<1> HIDE DEF d, V
<1>4. d[b] \in V
  BY <1>1, <1>2, <1>3, Throughout
<1> QED
  BY <1>3, <1>4 DEF V

LEMMA ShiftMonotone ==
    ASSUME NEW a \in Nat, NEW b \in Nat, a <= b
    PROVE  Shift(a) <= Shift(b) /\ (a < b => Shift(a) < Shift(b))
<1> DEFINE s == Shift(a)
           t == Shift(b - a)
<1>1. b - a \in Nat /\ a + (b - a) = b
  OBVIOUS
<1>2. s \in Nat \ {0} /\ t \in Nat \ {0}
  BY <1>1, ShiftType
<1>3. Shift(b) = s * t
  BY <1>1, ShiftSum
<1>4. ASSUME a < b PROVE t >= 2
  <2> DEFINE u == Shift(b - a - 1)
  <2>1. b - a - 1 \in Nat /\ b - a - 1 + 1 = b - a
    BY <1>4
  <2>2. u \in Nat \ {0}
    BY <2>1, ShiftType
  <2>3. t = Base * u
    <3>1. Shift(b - a - 1 + 1) = Base * u
      BY <2>1, ShiftNext
    <3> QED
      BY <2>1, <3>1
  <2> HIDE DEF t, u
  <2>4. Base \in Nat /\ Base >= 2
    BY ScaledAssumptions
  <2> QED
    BY <2>2, <2>3, <2>4
<1> HIDE DEF s, t
<1>5. s <= s * t /\ (t >= 2 => s < s * t)
  BY <1>2
<1> QED
  BY <1>3, <1>4, <1>5 DEF s

\* A part has no more zeros at its end than it has places.
LEMMA ZerosWithin ==
    ASSUME NEW m \in Nat \ {0}, m < Shift(Places)
    PROVE  Zeros(m) \in 0 .. Places - 1
<1> DEFINE S == {i \in 1 .. Digits : m % Shift(i) = 0}
<1>1. Digits \in Nat /\ Places \in Nat \ {0} /\ Places - 1 \in Nat
  BY Constant
<1>2. ASSUME NEW i \in S PROVE i \in 1 .. Places - 1
  <2>1. i \in 1 .. Digits /\ m % Shift(i) = 0
    OBVIOUS
  <2>2. ASSUME Places <= i PROVE FALSE
    <3> DEFINE s == Shift(i)
    <3>1. i \in Nat
      BY <1>1, <2>1
    <3>2. s \in Nat \ {0} /\ Shift(Places) <= s /\ Shift(Places) \in Nat
      BY <1>1, <2>2, <3>1, ShiftType, ShiftMonotone
    <3>3. m % s = 0
      BY <2>1
    <3> HIDE DEF s
    <3>4. m < s
      BY <3>2
    <3>5. m % s = m
      BY <3>2, <3>4
    <3> QED
      BY <3>3, <3>5
  <2> QED
    BY <1>1, <2>1, <2>2
<1>3. S \subseteq 1 .. Places - 1
  BY <1>2
<1> HIDE DEF S
<1>4. Turns(S) \in 0 .. Places - 1
  BY <1>1, <1>3, TurnsType
<1> QED
  BY <1>4 DEF S, Zeros

\* Normalizing a part below one keeps it below one.
LEMMA PartBelow ==
    ASSUME NEW m \in Nat \ {0}, m < Shift(Places)
    PROVE  LET y == Normal(Scaled(m, Places))
           IN  y \in SD /\ y.k \in 1 .. Places /\ y.n < Shift(y.k)
<1> DEFINE z == Zeros(m)
           s == Shift(z)
           q == m \div s
           r == Shift(Places - z)
<1>1. z \in 0 .. Places - 1 /\ Places \in Nat
  BY ZerosWithin, Constant
<1>2. z \in Nat /\ Places - z \in Nat /\ z + (Places - z) = Places /\ Places - z \in 1 .. Places
  BY <1>1
<1>3. s \in Nat \ {0} /\ r \in Nat \ {0}
  BY <1>2, ShiftType
<1>4. Shift(Places) = s * r
  <2>1. Shift(z + (Places - z)) = s * r
    BY <1>2, ShiftSum
  <2> QED
    BY <1>2, <2>1
<1>5. Normal(Scaled(m, Places)) = [n |-> q, k |-> Places - z]
  BY DEF Normal, Scaled
<1> HIDE DEF s
<1>6. q \in Nat /\ q * s <= m
  BY <1>3, Divided
<1> HIDE DEF q, r
<1>7. m < s * r
  BY <1>4
<1>8. q < r
  <2> SUFFICES ASSUME r <= q PROVE FALSE
    BY <1>3, <1>6
  <2>1. s * r <= q * s
    BY <1>3, <1>6
  <2>2. s * r \in Nat /\ q * s \in Nat
    BY <1>3, <1>6
  <2> QED
    BY <1>6, <1>7, <2>1, <2>2
<1> HIDE DEF z
<1>9. [n |-> q, k |-> Places - z] \in SD
  BY <1>2, <1>6 DEF SD
<1> QED
  BY <1>2, <1>5, <1>8, <1>9 DEF r

\* Raising one loses no digits.
LEMMA RoomOfUnit == Room(1) = Digits - 1
<1> DEFINE S == {j \in 1 .. Digits - 1 : 1 * Shift(j) < Limit}
<1>1. Digits \in Nat /\ Digits - 1 \in Nat
  BY Constant
<1>2. ASSUME NEW j \in 1 .. Digits - 1 PROVE 1 * Shift(j) < Limit
  <2>1. j \in Nat /\ j < Digits
    BY <1>1
  <2>2. Shift(j) < Shift(Digits) /\ Shift(j) \in Nat
    BY <1>1, <2>1, ShiftMonotone, ShiftType
  <2> QED
    BY <2>2 DEF Limit
<1>3. S = 1 .. Digits - 1
  BY <1>2
<1>4. Cardinality(1 .. Digits - 1) = Digits - 1
  BY <1>1, FS_Interval
<1> HIDE DEF S
<1>5. Turns(S) = Digits - 1
  BY <1>3, <1>4 DEF Turns
<1> QED
  BY <1>5 DEF S, Room

\* Taking a part of a pool from one never goes below zero.
LEMMA RestDefined ==
    ASSUME NEW a \in Nat, NEW b \in Nat \ {0}, a < b
    PROVE  CanSub(Unit, Ratio(a, b))
<1> DEFINE m == (a * Shift(Places)) \div b
           y == Ratio(a, b)
           e == Same(Cut(Unit, y))
<1>1. m \in Nat /\ m < Shift(Places)
  <2> DEFINE s == Shift(Places)
  <2>1. s \in Nat \ {0}
    BY Constant, ShiftType
  <2> HIDE DEF s
  <2>2. a * s \in Nat /\ a * s < b * s
    BY <2>1
  <2> DEFINE q == (a * s) \div b
  <2>3. q \in Nat /\ q * b <= a * s
    BY <2>2, Divided
  <2> HIDE DEF q
  <2>4. q < s
    <3> SUFFICES ASSUME s <= q PROVE FALSE
      BY <2>1, <2>3
    <3>1. b * s <= q * b
      BY <2>1, <2>3
    <3>2. b * s \in Nat /\ q * b \in Nat
      BY <2>1, <2>3
    <3> QED
      BY <2>2, <2>3, <3>1, <3>2
  <2> QED
    BY <2>3, <2>4 DEF q, s
<1>2. y = Normal(Scaled(m, Places))
  BY DEF Ratio
<1> HIDE DEF m, y
<1>3. Shift(0) = 1 /\ Room(1) = Digits - 1 /\ Digits \in Nat /\ Places < Digits /\ Places \in Nat
  BY ShiftNext, RoomOfUnit, ScaledAssumptions
<1>4. CASE m = 0
  <2>1. y = [n |-> 0, k |-> 0]
    BY <1>2, <1>4 DEF Normal, Scaled, Zero
  <2>2. Cut(Unit, y) = <<Unit, Truncate(y, Max({0, 0 - 0 - Room(1)}))>>
    BY <2>1 DEF Cut, Unit, Scaled
  <2>3. Max({0, 0 - 0 - Room(1)}) = 0
    <3>1. 0 - 0 - Room(1) \in Int /\ ~ (0 - 0 - Room(1) > 0)
      BY <1>3
    <3> QED
      BY <3>1, LargerType
  <2>4. Truncate(y, 0) = [n |-> 0, k |-> 0]
    BY <1>3, <2>1 DEF Truncate, Scaled
  <2>5. e = Same(<<[n |-> 1, k |-> 0], [n |-> 0, k |-> 0]>>)
    BY <2>2, <2>3, <2>4 DEF Unit, Scaled
  <2>6. e.a = 1 /\ e.b = 0
    BY <1>3, <2>5 DEF Same
  <2> QED
    BY <2>6 DEF CanSub, y
<1>5. CASE m # 0
  <2>1. y \in SD /\ y.k \in 1 .. Places /\ y.n < Shift(y.k)
    BY <1>1, <1>2, <1>5, PartBelow
  <2>2. y.n \in Nat /\ y.k \in Nat /\ y.k > 0 /\ Places \in Nat /\ y.k <= Places
    BY <2>1, Constant DEF SD
  <2>3. Cut(Unit, y) = <<Unit, Truncate(y, Max({0, y.k - 0 - Room(1)}))>>
    BY <2>2 DEF Cut, Unit, Scaled
  <2>4. Max({0, y.k - 0 - Room(1)}) = 0
    <3>1. y.k - 0 - Room(1) \in Int /\ ~ (y.k - 0 - Room(1) > 0)
      BY <1>3, <2>2
    <3> QED
      BY <3>1, LargerType
  <2>5. Truncate(y, 0) = [n |-> y.n, k |-> y.k]
    BY <1>3, <2>2 DEF Truncate, Scaled
  <2>6. e = Same(<<[n |-> 1, k |-> 0], [n |-> y.n, k |-> y.k]>>)
    BY <2>3, <2>4, <2>5 DEF Unit, Scaled
  <2>7. e.a = 1 * Shift(y.k - 0) /\ e.b = y.n * Shift(y.k - y.k)
    BY <2>2, <2>6 DEF Same
  <2>8. e.a = Shift(y.k) /\ e.b = y.n
    <3>1. y.k - 0 = y.k /\ y.k - y.k = 0 /\ Shift(y.k) \in Nat
      BY <2>2, ShiftType
    <3> QED
      BY <1>3, <2>2, <2>7, <3>1
  <2>9. e.a >= e.b
    <3>1. Shift(y.k) \in Nat
      BY <2>2, ShiftType
    <3> QED
      BY <2>1, <2>2, <2>8, <3>1
  <2> QED
    BY <2>9 DEF CanSub, y
<1> QED
  BY <1>4, <1>5

-----------------------------------------------------------------------------
(* The price of a trade with a pool                                        *)

\* A pool that is taken whole takes no more than was offered, and no less than
\* it is worth.
LEMMA WholePrice ==
    ASSUME NEW total \in Nat \ {0}, NEW offer \in Nat, NEW rate \in Nat,
           Worth(offer, rate) >= total
    PROVE  LET paid == ToCeil(FromRatio(total * One, rate))
           IN  /\ rate > 0
               /\ paid \in 0 .. offer
               /\ total * One * One <= (paid * One + 1) * rate
               /\ (paid - 1) * rate <= (total + 1) * One
               /\ \A q \in Nat : q * rate <= One * One => total * q <= paid * One
<1> DEFINE T == total * One * One
           F == T \div rate
           paid == ToCeil(F)
           w == (offer * rate) \div One
<1>1. One \in Nat \ {0}
  BY OneAssumption
<1>2. offer * rate \in Nat /\ total * One \in Nat
  BY <1>1
<1>3. w \in Nat /\ w * One <= offer * rate /\ w >= total
  BY <1>1, <1>2, Divided DEF Worth
<1> HIDE DEF w
<1>4. total * One <= offer * rate
  <2>1. total * One <= w * One
    BY <1>1, <1>3
  <2>2. w * One \in Nat
    BY <1>1, <1>3
  <2> QED
    BY <1>2, <1>3, <2>1, <2>2
<1>5. rate \in Nat \ {0}
  <2> SUFFICES ASSUME rate = 0 PROVE FALSE
    OBVIOUS
  <2>1. offer * rate = 0
    OBVIOUS
  <2>2. total * One \in Nat \ {0}
    BY <1>1
  <2> QED
    BY <1>4, <2>1, <2>2
<1>6. T \in Nat
  BY <1>1, <1>2
<1>7. T <= (offer * One) * rate
  <2> DEFINE a == total * One
             b == offer * rate
  <2>1. a \in Nat /\ b \in Nat /\ a <= b
    BY <1>2, <1>4
  <2> HIDE DEF a, b
  <2>2. a * One <= b * One
    BY <1>1, <2>1
  <2>3. a * One = T /\ b * One = (offer * One) * rate
    BY <1>1 DEF a, b
  <2> QED
    BY <2>2, <2>3
<1> HIDE DEF T
<1>8. F \in Nat /\ F * rate <= T /\ T < F * rate + rate
  BY <1>5, <1>6, Divided
<1>9. F <= offer * One
  <2>1. offer * One \in Nat
    BY <1>1
  <2> QED
    BY <1>5, <1>6, <1>7, <2>1, DividedAtMost
<1>10. ASSUME NEW q \in Nat, q * rate <= One * One PROVE total * q <= F
  <2>1. total * q \in Nat
    OBVIOUS
  <2>2. (total * q) * rate <= T
    <3> DEFINE a == q * rate
               b == One * One
    <3>1. a \in Nat /\ b \in Nat /\ a <= b
      BY <1>1, <1>10
    <3> HIDE DEF a, b
    <3>2. total * a <= total * b
      BY <3>1
    <3>3. total * a = (total * q) * rate /\ total * b = total * One * One
      BY <1>1 DEF a, b
    <3> QED
      BY <3>2, <3>3 DEF T
  <2> QED
    BY <1>5, <1>6, <2>1, <2>2, DividedAtLeast
<1> HIDE DEF F
<1>11. paid \in Nat /\ F <= paid * One /\ paid * One < F + One
  BY <1>8, CeilType
<1> HIDE DEF paid
<1>12. paid * One \in Nat
  BY <1>1, <1>11
<1>13. paid <= offer
  <2> SUFFICES ASSUME offer + 1 <= paid PROVE FALSE
    BY <1>11
  <2>1. (offer + 1) * One <= paid * One /\ (offer + 1) * One = offer * One + One
    BY <1>1, <1>11
  <2>2. offer * One \in Nat
    BY <1>1
  <2> QED
    BY <1>1, <1>8, <1>9, <1>11, <1>12, <2>1, <2>2
<1>14. T <= (paid * One + 1) * rate
  <2> DEFINE p == paid * One
  <2>1. p \in Nat /\ F <= p
    BY <1>11, <1>12
  <2> HIDE DEF p
  <2>2. F * rate <= p * rate /\ (p + 1) * rate = p * rate + rate
    BY <1>8, <2>1
  <2>3. F * rate \in Nat /\ p * rate \in Nat
    BY <1>8, <2>1
  <2> QED
    BY <1>6, <1>8, <2>2, <2>3 DEF p
<1>15. (paid - 1) * rate <= (total + 1) * One
  <2>1. CASE paid = 0
    <3>1. (paid - 1) * rate = -rate /\ (total + 1) * One \in Nat
      BY <1>1, <2>1
    <3> QED
      BY <3>1
  <2>2. CASE paid > 0
    <3> DEFINE p == paid - 1
    <3>1. p \in Nat /\ p * One = paid * One - One
      BY <1>1, <1>11, <2>2
    <3> HIDE DEF p
    <3>2. p * One <= F
      BY <1>1, <1>8, <1>11, <1>12, <3>1
    <3>3. (p * One) * rate <= F * rate
      <4>1. p * One \in Nat
        BY <1>1, <3>1
      <4> HIDE <3>1
      <4> QED
        BY <1>8, <3>2, <4>1
    <3>4. (p * rate) * One = (p * One) * rate
      BY <1>1, <3>1
    <3>5. (p * rate) * One <= (total * One) * One
      <4> DEFINE u == (p * One) * rate
                 v == F * rate
      <4>1. u \in Nat /\ v \in Nat /\ u <= v /\ v <= T /\ (p * rate) * One = u
        BY <1>1, <1>8, <3>1, <3>3, <3>4
      <4> HIDE DEF u, v
      <4>2. (p * rate) * One <= T
        BY <1>6, <4>1
      <4> QED
        BY <4>2 DEF T
    <3>6. p * rate <= total * One
      <4>1. p * rate \in Nat
        BY <3>1
      <4> QED
        BY <1>1, <1>2, <3>5, <4>1, Cancel
    <3>7. (total + 1) * One = total * One + One /\ p * rate \in Nat
      BY <1>1, <3>1
    <3> QED
      BY <1>1, <1>2, <3>6, <3>7 DEF p
  <2> QED
    BY <1>11, <2>1, <2>2
<1>16. ASSUME NEW q \in Nat, q * rate <= One * One PROVE total * q <= paid * One
  <2>1. total * q <= F /\ total * q \in Nat
    BY <1>10, <1>16
  <2> QED
    BY <1>8, <1>11, <1>12, <2>1
<1>17. ToCeil(FromRatio(total * One, rate)) = paid
  BY DEF FromRatio, paid, F, T
<1>18. /\ rate > 0 /\ paid \in 0 .. offer
       /\ total * One * One <= (paid * One + 1) * rate
  BY <1>5, <1>11, <1>13, <1>14 DEF T
<1> QED
  BY <1>15, <1>16, <1>17, <1>18

\* What is taken of a pool that is not taken whole is worth no more than was
\* offered, and not less but for a last unit.
LEMMA PartPrice ==
    ASSUME NEW paid \in Nat, NEW rate \in Nat
    PROVE  LET given == Worth(paid, rate)
           IN  /\ given \in Nat
               /\ given * One * One <= (paid * One + 1) * rate
               /\ (paid - 1) * rate <= (given + 1) * One
               /\ \A q \in Nat : q * rate <= One * One => given * q <= paid * One
<1> DEFINE given == (paid * rate) \div One
           a == given * One
           b == paid * rate
<1>1. One \in Nat \ {0} /\ b \in Nat
  BY OneAssumption
<1>2. given \in Nat /\ a <= b /\ b < a + One
  BY <1>1, Divided
<1>3. given = Worth(paid, rate)
  BY DEF Worth
<1> HIDE DEF given
<1>4. a \in Nat
  BY <1>1, <1>2
<1>5. given * One * One <= (paid * One + 1) * rate
  <2>1. given * One * One = a * One
    BY <1>1, <1>2
  <2>2. (paid * One + 1) * rate = b * One + rate
    BY <1>1
  <2> HIDE DEF a, b
  <2>3. a * One <= b * One /\ a * One \in Nat /\ b * One \in Nat
    BY <1>1, <1>2, <1>4
  <2> QED
    BY <2>1, <2>2, <2>3
<1>6. (paid - 1) * rate <= (given + 1) * One
  <2>1. (paid - 1) * rate = b - rate /\ (given + 1) * One = a + One
    BY <1>1, <1>2
  <2> HIDE DEF a, b
  <2> QED
    BY <1>1, <1>2, <1>4, <2>1
<1>7. ASSUME NEW q \in Nat, q * rate <= One * One PROVE given * q <= paid * One
  <2>1. a * q <= b * q
    <3> HIDE DEF a, b
    <3> QED
      BY <1>1, <1>2, <1>4
  <2>2. a * q = (given * q) * One
    BY <1>1, <1>2
  <2>3. b * q = paid * (q * rate)
    OBVIOUS
  <2>4. paid * (q * rate) <= paid * (One * One)
    <3> DEFINE c == q * rate
               d == One * One
    <3>1. c \in Nat /\ d \in Nat /\ c <= d
      BY <1>1, <1>7
    <3> HIDE DEF c, d
    <3>2. paid * c <= paid * d
      BY <3>1
    <3> QED
      BY <3>2 DEF c, d
  <2>5. paid * (One * One) = (paid * One) * One
    BY <1>1
  <2>6. given * q \in Nat /\ paid * One \in Nat
    BY <1>1, <1>2
  <2>7. (given * q) * One <= (paid * One) * One
    <3> DEFINE u == a * q
               v == b * q
               x == (paid * One) * One
    <3>1. u \in Int /\ v \in Int /\ x \in Int
      BY <1>1, <1>4
    <3>2. u <= v
      BY <2>1
    <3>3. v <= x
      BY <2>3, <2>4, <2>5
    <3>4. (given * q) * One = u
      BY <2>2
    <3> HIDE DEF u, v, x
    <3>5. u <= x
      BY <3>1, <3>2, <3>3
    <3> QED
      BY <3>4, <3>5 DEF x
  <2> QED
    BY <1>1, <2>6, <2>7, Cancel
<1> QED
  BY <1>2, <1>3, <1>5, <1>6, <1>7

-----------------------------------------------------------------------------
(* Pools and bids                                                          *)

Snapshots == UNION {[D -> SD] : D \in SUBSET Nat}

Pools == [total : Nat, sum : SD, product : SD, epoch : Nat, snapshots : Snapshots]

\* Every epoch that is over has a snapshot.
GoodPools == {p \in Pools : \A e \in Nat : e < p.epoch => e \in DOMAIN p.snapshots}

Bids == [amount : Nat, filled : Nat, product : SD, sum : SD, epoch : Nat]

LEMMA SnapshotType ==
    ASSUME NEW p \in GoodPools, NEW e \in DOMAIN p.snapshots
    PROVE  p.snapshots[e] \in SD
<1>1. p.snapshots \in Snapshots
  BY DEF GoodPools, Pools
<1>2. PICK D \in SUBSET Nat : p.snapshots \in [D -> SD]
  BY <1>1 DEF Snapshots
<1> QED
  BY <1>2

LEMMA MakesSnapshots ==
    ASSUME NEW n \in Nat, NEW f, f \in [0 .. n -> SD]
    PROVE  f \in Snapshots
<1>1. 0 .. n \in SUBSET Nat
  OBVIOUS
<1> QED
  BY <1>1 DEF Snapshots

LEMMA PoolParts ==
    ASSUME NEW p \in GoodPools
    PROVE  p.total \in Nat /\ p.sum \in SD /\ p.product \in SD /\ p.epoch \in Nat
BY DEF GoodPools, Pools

LEMMA EmptyPoolGood == EmptyPool \in GoodPools
<1>1. <<>> \in [{} -> SD]
  OBVIOUS
<1>2. <<>> \in Snapshots
  BY <1>1 DEF Snapshots
<1>3. EmptyPool \in Pools
  BY <1>2, Constant DEF EmptyPool, Pools
<1>4. EmptyPool.epoch = 0
  BY DEF EmptyPool
<1> QED
  BY <1>3, <1>4 DEF GoodPools

LEMMA ResizedGood ==
    ASSUME NEW p \in GoodPools, NEW diff \in Int, p.total + diff >= 0
    PROVE  Resized(p, diff) \in GoodPools /\ Resized(p, diff).total = p.total + diff
<1>1. p \in Pools /\ p.total + diff \in Nat
  BY PoolParts DEF GoodPools
<1>2. Resized(p, diff) = [p EXCEPT !.total = p.total + diff]
  BY DEF Resized
<1>3. /\ Resized(p, diff) \in Pools /\ Resized(p, diff).total = p.total + diff
      /\ Resized(p, diff).epoch = p.epoch /\ Resized(p, diff).snapshots = p.snapshots
  BY <1>1, <1>2 DEF Pools
<1> QED
  BY <1>3 DEF GoodPools

LEMMA FullGood ==
    ASSUME NEW p \in GoodPools, NEW rate \in Nat, p.total > 0, FullOffer(p, rate) \in Nat
    PROVE  Full(p, rate).pool \in GoodPools /\ Full(p, rate).pool.total = 0
<1> DEFINE s == FullSum(p, rate)
           f == [e \in 0 .. p.epoch + 1 |->
                    IF e < p.epoch THEN p.snapshots[e] ELSE IF e = p.epoch THEN s ELSE Zero]
           q == Full(p, rate).pool
<1>1. /\ p.total \in Nat \ {0} /\ p.sum \in SD /\ p.product \in SD /\ p.epoch \in Nat
      /\ p \in Pools
  BY PoolParts DEF GoodPools
<1>2. s \in SD
  <2>1. Ratio(FullOffer(p, rate), p.total) \in SD
    BY <1>1, RatioType
  <2>2. Times(p.product, Ratio(FullOffer(p, rate), p.total)) \in SD
    BY <1>1, <2>1, TimesType
  <2> QED
    BY <1>1, <2>2, AddType DEF FullSum
<1> HIDE DEF s
<1>3. f \in Snapshots
  <2>1. ASSUME NEW e \in 0 .. p.epoch + 1, e < p.epoch PROVE p.snapshots[e] \in SD
    <3>1. e \in DOMAIN p.snapshots
      BY <1>1, <2>1 DEF GoodPools
    <3> QED
      BY <3>1, SnapshotType
  <2>2. f \in [0 .. p.epoch + 1 -> SD]
    BY <1>2, <2>1, Constant
  <2>3. p.epoch + 1 \in Nat
    BY <1>1
  <2> HIDE DEF f
  <2> QED
    BY <2>2, <2>3, MakesSnapshots
<1>4. DOMAIN f = 0 .. p.epoch + 1
  OBVIOUS
<1>5. q = [total |-> 0, sum |-> Zero, product |-> Unit, epoch |-> p.epoch + 1, snapshots |-> f]
  BY <1>1 DEF Full, NextEpoch, Pools, s
<1> HIDE DEF f
<1>6. q \in Pools /\ q.epoch = p.epoch + 1 /\ q.snapshots = f /\ q.total = 0
  BY <1>1, <1>3, <1>5, Constant DEF Pools
<1>7. ASSUME NEW e \in Nat, e < p.epoch + 1 PROVE e \in 0 .. p.epoch + 1
  BY <1>1, <1>7
<1> QED
  BY <1>4, <1>6, <1>7 DEF GoodPools

LEMMA PartialGood ==
    ASSUME NEW p \in GoodPools, NEW offer \in Nat, NEW bids \in Nat, bids < p.total
    PROVE  Partial(p, offer, bids).pool \in GoodPools
<1> DEFINE s == PartialSum(p, offer)
           r == PartialProduct(p, bids)
           f == [e \in 0 .. p.epoch |-> IF e < p.epoch THEN p.snapshots[e] ELSE s]
           q == Partial(p, offer, bids).pool
<1>1. /\ p.total \in Nat \ {0} /\ p.sum \in SD /\ p.product \in SD /\ p.epoch \in Nat
      /\ p.total - bids \in Nat
  BY PoolParts
<1>2. s \in SD
  <2>1. Ratio(offer, p.total) \in SD
    BY <1>1, RatioType
  <2>2. Times(p.product, Ratio(offer, p.total)) \in SD
    BY <1>1, <2>1, TimesType
  <2> QED
    BY <1>1, <2>2, AddType DEF PartialSum
<1>3. r \in SD
  <2>1. Ratio(bids, p.total) \in SD /\ CanSub(Unit, Ratio(bids, p.total))
    BY <1>1, RatioType, RestDefined
  <2>2. Sub(Unit, Ratio(bids, p.total)) \in SD
    BY <2>1, Constant, SubType
  <2> QED
    BY <1>1, <2>2, TimesType DEF PartialProduct
<1> HIDE DEF s, r
<1>4. f \in Snapshots
  <2>1. ASSUME NEW e \in 0 .. p.epoch, e < p.epoch PROVE p.snapshots[e] \in SD
    <3>1. e \in DOMAIN p.snapshots
      BY <1>1, <2>1 DEF GoodPools
    <3> QED
      BY <3>1, SnapshotType
  <2>2. f \in [0 .. p.epoch -> SD]
    BY <1>2, <2>1
  <2> HIDE DEF f
  <2> QED
    BY <1>1, <2>2, MakesSnapshots
<1>5. DOMAIN f = 0 .. p.epoch
  OBVIOUS
<1>6. q = [total |-> p.total - bids, sum |-> s, product |-> r, epoch |-> p.epoch,
           snapshots |-> f]
  BY DEF Partial, s, r
<1> HIDE DEF f
<1>7. q \in Pools /\ q.epoch = p.epoch /\ q.snapshots = f
  BY <1>1, <1>2, <1>3, <1>4, <1>6 DEF Pools
<1>8. ASSUME NEW e \in Nat, e < p.epoch PROVE e \in 0 .. p.epoch
  BY <1>1, <1>8
<1> QED
  BY <1>5, <1>7, <1>8 DEF GoodPools

\* A pool after a trade, and the price of the trade.
LEMMA FilledGood ==
    ASSUME NEW p \in GoodPools, p.total > 0, NEW offer \in Nat, NEW rate \in Nat
    PROVE  LET res == Filled(p, offer, rate)
           IN  /\ res.pool \in GoodPools
               /\ res.offer \in 0 .. offer
               /\ res.bids \in 0 .. p.total
               /\ res.pool.total = p.total - res.bids
               /\ res.bids * One * One <= (res.offer * One + 1) * rate
               /\ (res.offer - 1) * rate <= (res.bids + 1) * One
               /\ \A q \in Nat : q * rate <= One * One => res.bids * q <= res.offer * One
<1>1. p.total \in Nat \ {0}
  BY PoolParts
<1>2. CASE Worth(offer, rate) >= p.total
  <2> DEFINE paid == FullOffer(p, rate)
  <2>1. /\ paid \in 0 .. offer
        /\ p.total * One * One <= (paid * One + 1) * rate
        /\ (paid - 1) * rate <= (p.total + 1) * One
        /\ \A q \in Nat : q * rate <= One * One => p.total * q <= paid * One
    BY <1>1, <1>2, WholePrice DEF FullOffer
  <2>2. Filled(p, offer, rate) = Full(p, rate)
    BY <1>2 DEF Filled
  <2>3. paid \in Nat
    BY <2>1
  <2>4. Full(p, rate).pool \in GoodPools /\ Full(p, rate).pool.total = 0
    BY <2>3, FullGood
  <2>5. Full(p, rate).offer = paid /\ Full(p, rate).bids = p.total
    BY DEF Full
  <2> HIDE DEF paid
  <2>6. p.total \in 0 .. p.total /\ 0 = p.total - p.total
    BY <1>1
  <2> QED
    BY <2>1, <2>2, <2>4, <2>5, <2>6
<1>3. CASE ~ (Worth(offer, rate) >= p.total)
  <2> DEFINE given == Worth(offer, rate)
  <2>1. /\ given \in Nat
        /\ given * One * One <= (offer * One + 1) * rate
        /\ (offer - 1) * rate <= (given + 1) * One
        /\ \A q \in Nat : q * rate <= One * One => given * q <= offer * One
    BY PartPrice
  <2>2. Filled(p, offer, rate) = Partial(p, offer, given)
    BY <1>3 DEF Filled
  <2>3. given < p.total
    <3> HIDE DEF given
    <3> QED
      BY <1>1, <1>3, <2>1 DEF given
  <2>4. Partial(p, offer, given).pool \in GoodPools
    BY <2>1, <2>3, PartialGood
  <2>5. /\ Partial(p, offer, given).offer = offer /\ Partial(p, offer, given).bids = given
        /\ Partial(p, offer, given).pool.total = p.total - given
    BY DEF Partial
  <2> HIDE DEF given
  <2>6. given \in 0 .. p.total /\ offer \in 0 .. offer
    BY <1>1, <2>1, <2>3
  <2> QED
    BY <2>1, <2>2, <2>4, <2>5, <2>6
<1> QED
  BY <1>2, <1>3

LEMMA NewBidType ==
    ASSUME NEW p \in GoodPools, NEW n \in Nat
    PROVE  NewBid(p, n) \in Bids
BY PoolParts DEF NewBid, Bids

\* An order that is brought up to date.
LEMMA SyncedType ==
    ASSUME NEW p \in GoodPools, NEW bid \in Bids, CanSync(p, bid)
    PROVE  Synced(p, bid) \in Bids
<1>1. /\ p.sum \in SD /\ p.product \in SD /\ p.epoch \in Nat
      /\ bid.amount \in Nat /\ bid.filled \in Nat /\ bid.product \in SD /\ bid.sum \in SD
  BY PoolParts DEF Bids
<1>2. CASE bid.product = Zero \/ bid.amount = 0
  <2>1. NewlyFilled(p, bid) = 0 /\ Remaining(p, bid) = bid.amount
    BY <1>2 DEF NewlyFilled, Remaining
  <2>2. bid.filled + 0 \in Nat
    BY <1>1
  <2> QED
    BY <1>1, <2>1, <2>2 DEF Synced, Bids
<1>3. CASE ~ (bid.product = Zero \/ bid.amount = 0)
  <2>1. /\ CanSub(Reference(p, bid), bid.sum)
        /\ CanDiv(Growth(p, bid), bid.product)
        /\ p.epoch = bid.epoch => CanDiv(p.product, bid.product)
    BY <1>1, <1>3 DEF CanSync
  <2>2. Reference(p, bid) \in SD
    BY <1>1, SnapshotType DEF Reference
  <2>3. Sub(Reference(p, bid), bid.sum) \in SD
    BY <1>1, <2>1, <2>2, SubType
  <2>4. Growth(p, bid) \in SD
    BY <1>1, <2>3, TimesIntType DEF Growth
  <2>5. Quotient(Growth(p, bid), bid.product) \in SD
    BY <1>1, <2>1, <2>4, QuotientType
  <2>6. NewlyFilled(p, bid) \in Nat
    BY <1>3, <2>5, FloorType DEF NewlyFilled
  <2>7. Remaining(p, bid) \in Nat
    <3>1. CASE p.epoch # bid.epoch
      BY <1>3, <3>1 DEF Remaining
    <3>2. CASE p.epoch = bid.epoch
      <4>1. Quotient(p.product, bid.product) \in SD
        BY <1>1, <2>1, <3>2, QuotientType
      <4>2. TimesInt(Quotient(p.product, bid.product), bid.amount) \in SD
        BY <1>1, <4>1, TimesIntType
      <4> QED
        BY <1>3, <3>2, <4>2, FloorType DEF Remaining
    <3> QED
      BY <3>1, <3>2
  <2>8. bid.filled + NewlyFilled(p, bid) \in Nat
    BY <1>1, <2>6
  <2> QED
    BY <1>1, <2>7, <2>8 DEF Synced, Bids
<1> QED
  BY <1>2, <1>3

-----------------------------------------------------------------------------
(* Rates                                                                   *)

Books == [Keys -> [pool : GoodPools, paid : Nat]]

LEMMA RateType ==
    ASSUME oracle \in Nat, NEW price \in Prices
    PROVE  Rate(price) \in Nat
<1>1. One \in Nat \ {0}
  BY OneAssumption
<1>2. CASE price \in [kind : {"fixed"}, value : Fixed]
  <2>1. price.kind = "fixed" /\ price.value \in Fixed
    BY <1>2
  <2>2. Fixed \subseteq Nat
    BY FinAssumptions
  <2> QED
    BY <2>1, <2>2 DEF Rate
<1>3. CASE price \in [kind : {"oracle"}, value : Premiums]
  <2> DEFINE bps == price.value
             f == ((10000 + bps) * One) \div 10000
  <2>5. price.kind = "oracle" /\ price.value \in Premiums
    BY <1>3
  <2>1. 10000 + bps \in Nat
    <3>1. \A b \in Premiums : 10000 + b \in Nat
      BY FinAssumptions
    <3> QED
      BY <2>5, <3>1
  <2>2. (10000 + bps) * One \in Nat
    BY <1>1, <2>1
  <2>3. f \in Nat
    <3> HIDE DEF bps
    <3> QED
      BY <2>2, Divided
  <2>4. Rate(price) = (oracle * f) \div One
    BY <2>5 DEF Rate, Adjusted, DecMul, FromRatio
  <2> HIDE DEF f
  <2>7. oracle * f \in Nat
    BY <2>3
  <2> QED
    BY <1>1, <2>4, <2>7, Divided
<1> QED
  BY <1>2, <1>3 DEF Prices

LEMMA InvType ==
    ASSUME NEW rate \in Nat \ {0}
    PROVE  Inv(rate) \in Nat /\ rate * Inv(rate) <= One * One
<1>1. One * One \in Nat
  BY OneAssumption
<1> DEFINE q == (One * One) \div rate
<1>2. q \in Nat /\ q * rate <= One * One
  BY <1>1, Divided
<1>3. Inv(rate) = q
  BY DEF Inv, DecDiv
<1> HIDE DEF q
<1>4. rate * q = q * rate
  BY <1>2
<1> QED
  BY <1>2, <1>3, <1>4

LEMMA UnusedType ==
    ASSUME config \in Configs, NEW v
    PROVE  Unused(v) \in Nat \ {0}
<1> DEFINE S == {n \in 1 .. PriceDigits - 1 : Power(10, n) <= v}
<1>1. PriceDigits - 1 \in Nat /\ config.tick \in Nat
  BY FinAssumptions
<1>2. Turns(S) \in Nat
  <2>1. S \subseteq 1 .. PriceDigits - 1
    OBVIOUS
  <2> HIDE DEF S
  <2>2. Turns(S) \in 0 .. PriceDigits - 1
    BY <1>1, <2>1, TurnsType
  <2> QED
    BY <2>2
<1>3. Length(v) \in Nat
  <2> HIDE DEF S
  <2>1. 1 + Turns(S) \in Nat
    BY <1>2
  <2> QED
    BY <2>1 DEF S, Length
<1>4. CASE Length(v) > config.tick
  <2>1. Length(v) - config.tick \in Nat /\ 10 \in Nat \ {0}
    BY <1>1, <1>3, <1>4
  <2>2. Power(10, Length(v) - config.tick) \in Nat \ {0}
    BY <2>1, PowerType
  <2> QED
    BY <1>4, <2>2 DEF Unused
<1> QED
  BY <1>4 DEF Unused

LEMMA TruncateFloorType ==
    ASSUME config \in Configs, NEW v \in Int
    PROVE  TruncateFloor(v) \in Int
<1> DEFINE u == Unused(v)
<1>1. u \in Nat \ {0}
  BY UnusedType
<1> HIDE DEF u
<1>2. v - (v % u) \in Int
  BY <1>1
<1> QED
  BY <1>2 DEF u, TruncateFloor

LEMMA MakerRateType ==
    ASSUME config \in Configs, NEW side, NEW price \in Nat \ {0}
    PROVE  MakerRate(side, price) \in Int
<1>1. Inv(price) \in Nat
  BY InvType
<1>2. Unused(Inv(price)) \in Nat
  BY UnusedType
<1>3. Inv(price) + Unused(Inv(price)) - 1 \in Int
  BY <1>1, <1>2
<1>4. TruncateCeil(Inv(price)) \in Int
  BY <1>3, TruncateFloorType DEF TruncateCeil
<1>5. TruncateFloor(price) \in Int
  BY TruncateFloorType
<1> QED
  BY <1>4, <1>5 DEF MakerRate

-----------------------------------------------------------------------------
(* The market maker's quotes                                               *)

LEMMA FacingType ==
    ASSUME NEW side, NEW s \in XYK!States
    PROVE  Facing(side, s) \in XYK!States
BY DEF Facing, XYK!Inverted, XYK!States

LEMMA LeftType ==
    ASSUME NEW s \in XYK!States, NEW offer \in Nat, s.x > 0
    PROVE  XYK!Left(s, offer) \in Nat
<1> DEFINE k == s.x * s.y
           d == (k * One) \div (s.x + offer)
<1>1. One \in Nat /\ s.x \in Nat /\ s.y \in Nat /\ s.x + offer \in Nat \ {0}
  BY OneAssumption DEF XYK!States
<1>2. k \in Nat
  BY <1>1
<1> HIDE DEF k
<1>3. k * One \in Nat
  BY <1>1, <1>2
<1>4. d \in Nat
  BY <1>1, <1>3, Divided
<1>5. XYK!Left(s, offer) = ToCeil(d)
  BY DEF k, XYK!Left, XYK!K, XYK!FromRatio, XYK!ToCeil, ToCeil
<1> HIDE DEF d
<1> QED
  BY <1>4, <1>5, CeilType

LEMMA SwappedType ==
    ASSUME NEW s \in XYK!States, NEW offer \in Nat
    PROVE  XYK!Swapped(s, offer) \in XYK!States
<1>1. CASE s.x = 0
  BY <1>1 DEF XYK!Swapped
<1>2. CASE s.x # 0
  <2>1. s.x \in Nat /\ s.shares \in Nat /\ s.x > 0 /\ s.x + offer \in Nat
    BY <1>2 DEF XYK!States
  <2>2. XYK!Left(s, offer) \in Nat
    BY <2>1, LeftType
  <2>3. XYK!Swapped(s, offer) = [x |-> s.x + offer, y |-> XYK!Left(s, offer), shares |-> s.shares]
    BY <1>2 DEF XYK!Swapped
  <2> QED
    BY <2>1, <2>2, <2>3 DEF XYK!States
<1> QED
  BY <1>1, <1>2

\* A quote has a price and a size, and leaves a state to go on from.
LEMMA QuoteType ==
    ASSUME NEW s \in XYK!States, XYK!HasQuote(Strategy, s)
    PROVE  LET q == XYK!Quote(Strategy, s)
           IN  q.price \in Nat \ {0} /\ q.size \in Nat /\ q.data \in XYK!States
<1> DEFINE offer == XYK!QuoteOffer(Strategy, s)
           total == XYK!QuoteTotal(Strategy, s)
           size == XYK!QuoteSize(Strategy, s)
           price == XYK!QuotePrice(Strategy, s)
<1>1. /\ One \in Nat \ {0}
      /\ Strategy.step \in Nat /\ Strategy.minQuote \in Nat \ {0} /\ Strategy.fee \in Nat
  BY OneAssumption, FinAssumptions
<1>2. s.x \in Nat /\ s.y \in Nat /\ s.x > 0
  BY DEF XYK!HasQuote, XYK!States
<1>3. offer \in Nat
  <2>1. s.x * Strategy.step \in Nat
    BY <1>1, <1>2
  <2> QED
    BY <1>1, <2>1, Divided DEF XYK!QuoteOffer, XYK!FractionOf
<1>4. offer \in Nat \ {0}
  <2>1. offer >= Strategy.minQuote
    BY DEF XYK!HasQuote
  <2> HIDE DEF offer
  <2> QED
    BY <1>1, <1>3, <2>1
<1>5. XYK!Left(s, offer) \in Nat /\ XYK!Left(s, offer) <= s.y
  <2>1. XYK!Left(s, offer) \in Nat
    BY <1>2, <1>3, LeftType
  <2>2. XYK!CanSwap(s, offer)
    BY DEF XYK!HasQuote
  <2> QED
    BY <2>1, <2>2 DEF XYK!CanSwap
<1>6. XYK!Swapped(s, offer) \in XYK!States
  BY <1>3, SwappedType
<1>7. total \in Nat
  <2>1. total = s.y - XYK!Left(s, offer)
    BY <1>2 DEF XYK!QuoteTotal, XYK!SwapReturn
  <2> QED
    BY <1>2, <1>5, <2>1
<1>8. size \in Int
  <2> DEFINE fee == (total * Strategy.fee) \div One
  <2>1. size = total - (fee + 1)
    BY DEF XYK!QuoteSize, XYK!QuoteFee, XYK!FractionOf
  <2> HIDE DEF total
  <2>2. total * Strategy.fee \in Nat
    BY <1>1, <1>7
  <2>3. fee \in Nat
    BY <1>1, <2>2, Divided
  <2> HIDE DEF fee
  <2> QED
    BY <1>7, <2>1, <2>3
<1>9. price = (size * One) \div offer /\ price > 0
  BY DEF XYK!QuotePrice, XYK!FromRatio, XYK!HasQuote
<1>10. XYK!Quote(Strategy, s) = [price |-> price, size |-> size, data |-> XYK!Swapped(s, offer)]
  BY DEF XYK!Quote
<1> HIDE DEF offer, size, price, total
<1> DEFINE a == size * One
<1>11. a \in Int
  BY <1>1, <1>8
<1>12. price \in Int /\ price * offer <= a
  <2> HIDE DEF a
  <2>1. a \div offer \in Int /\ (a \div offer) * offer <= a
    BY <1>4, <1>11
  <2> QED
    BY <1>9, <2>1 DEF a
<1>13. size > 0
  <2>1. price * offer > 0
    BY <1>4, <1>9, <1>12
  <2>2. a > 0
    <3> DEFINE b == price * offer
    <3>1. b \in Int
      BY <1>4, <1>12
    <3> HIDE DEF a, b
    <3> QED
      BY <1>11, <1>12, <2>1, <3>1 DEF b
  <2> SUFFICES ASSUME size <= 0 PROVE FALSE
    BY <1>8
  <2>3. size * One <= 0
    BY <1>1, <1>8
  <2> QED
    BY <2>2, <2>3, <1>11
<1> QED
  BY <1>6, <1>8, <1>9, <1>10, <1>12, <1>13

-----------------------------------------------------------------------------
(* Rows                                                                    *)

KeysOf(side, kind) == {k \in Keys : k.side = side /\ k.price.kind = kind}

ItemsWith(lists, quotes) == [rate : Int, pools : lists, quote : quotes]

Singles(side, kind) == {<<k>> : k \in KeysOf(side, kind)}

Pairs(side) == {<<j, k>> : j \in KeysOf(side, "fixed"), k \in KeysOf(side, "oracle")}

Filleds(side) == Singles(side, "fixed") \cup Singles(side, "oracle") \cup Pairs(side)

PoolLists(side) == {<<>>} \cup Filleds(side)

QuoteOffers == {NoQuote} \cup [price : Nat \ {0}, total : Nat]

\* What a row of one side consists of: no pool comes twice, and every quote
\* has a price.
ItemsOf(side) == ItemsWith(PoolLists(side), QuoteOffers)

\* The pools of an item, and rows in which no pool comes twice.
Uses(item) == {item.pools[i] : i \in DOMAIN item.pools}

Off(item, row) == \A i \in DOMAIN row : Uses(item) \cap Uses(row[i]) = {}

Apart(row) == \A i, j \in DOMAIN row : i # j => Uses(row[i]) \cap Uses(row[j]) = {}

Across(left, right) == \A i \in DOMAIN left : Off(left[i], right)

\* An item that no trade has changed: all its pools have bids.
Fresh(b, item) == \A k \in Uses(item) : b[k].pool.total > 0

\* The pools of an item trade at its rate; on the quote side its quote is no worse.
Fits(side, item) ==
    /\ \A k \in Uses(item) : Rate(k.price) = item.rate
    /\ side = "quote" /\ item.quote # NoQuote => item.rate <= item.quote.price

\* What swap_iter yields.
Offered(side, lists, quotes) ==
    {item \in ItemsWith(lists, quotes) : Fits(side, item) /\ Fresh(book, item)}

LEMMA UsesOne ==
    ASSUME NEW k, NEW rate, NEW q
    PROVE  Uses([rate |-> rate, pools |-> <<k>>, quote |-> q]) = {k}
<1> DEFINE p == <<k>>
<1>1. DOMAIN p = {1} /\ p[1] = k
  OBVIOUS
<1> HIDE DEF p
<1>2. {p[i] : i \in DOMAIN p} = {k}
  BY <1>1
<1> QED
  BY <1>2 DEF Uses, p

LEMMA UsesNone ==
    ASSUME NEW item, item.pools = <<>>
    PROVE  Uses(item) = {}
BY DEF Uses

LEMMA TailIndex ==
    ASSUME NEW I, NEW row \in Seq(I), row # <<>>
    PROVE  /\ DOMAIN row = 1 .. Len(row) /\ Head(row) = row[1] /\ 1 \in DOMAIN row
           /\ \A i \in DOMAIN Tail(row) :
                  i + 1 \in DOMAIN row /\ i + 1 # 1 /\ Tail(row)[i] = row[i + 1]
           /\ \A i, j \in DOMAIN Tail(row) : i # j => i + 1 # j + 1
<1> DEFINE n == Len(row)
           s == Tail(row)
<1>1. n \in Nat \ {0} /\ DOMAIN row = 1 .. n
  OBVIOUS
<1>2. Len(s) = n - 1 /\ DOMAIN s = 1 .. Len(s) /\ \A i \in 1 .. n - 1 : s[i] = row[i + 1]
  OBVIOUS
<1>3. Head(row) = row[1]
  OBVIOUS
<1> HIDE DEF n, s
<1>4. \A i \in 1 .. n - 1 : i + 1 \in 1 .. n /\ i + 1 # 1
  BY <1>1
<1>5. \A i, j \in 1 .. n - 1 : i # j => i + 1 # j + 1
  BY <1>1
<1>6. 1 \in 1 .. n
  BY <1>1
<1> QED
  BY <1>1, <1>2, <1>3, <1>4, <1>5, <1>6 DEF n, s

LEMMA OffTail ==
    ASSUME NEW I, NEW row \in Seq(I), row # <<>>, NEW item, Off(item, row)
    PROVE  Off(item, Tail(row)) /\ Uses(item) \cap Uses(Head(row)) = {}
BY TailIndex DEF Off

LEMMA ApartTail ==
    ASSUME NEW I, NEW row \in Seq(I), row # <<>>, Apart(row)
    PROVE  Apart(Tail(row)) /\ Off(Head(row), Tail(row))
BY TailIndex DEF Apart, Off

LEMMA AcrossTail ==
    ASSUME NEW I, NEW left \in Seq(I), left # <<>>, NEW right, Across(left, right)
    PROVE  Across(Tail(left), right) /\ Off(Head(left), right)
BY TailIndex DEF Across

LEMMA AcrossOther ==
    ASSUME NEW left, NEW right, Across(left, right)
    PROVE  Across(right, left)
BY DEF Across, Off

LEMMA AppendIndex ==
    ASSUME NEW I, NEW row \in Seq(I), NEW item \in I
    PROVE  \A i \in DOMAIN Append(row, item) :
               \/ i \in DOMAIN row /\ Append(row, item)[i] = row[i]
               \/ i = Len(row) + 1 /\ Append(row, item)[i] = item
OBVIOUS

LEMMA OffAppend ==
    ASSUME NEW I, NEW row \in Seq(I), NEW item \in I, NEW other, Off(other, row),
           Uses(other) \cap Uses(item) = {}
    PROVE  Off(other, Append(row, item))
BY AppendIndex DEF Off

LEMMA ApartAppend ==
    ASSUME NEW I, NEW row \in Seq(I), NEW item \in I, Apart(row), Off(item, row)
    PROVE  Apart(Append(row, item))
<1> SUFFICES ASSUME NEW i \in DOMAIN Append(row, item), NEW j \in DOMAIN Append(row, item), i # j
             PROVE  Uses(Append(row, item)[i]) \cap Uses(Append(row, item)[j]) = {}
  BY DEF Apart
<1> DEFINE s == Append(row, item)
<1>1. /\ (i \in DOMAIN row /\ s[i] = row[i]) \/ (i = Len(row) + 1 /\ s[i] = item)
      /\ (j \in DOMAIN row /\ s[j] = row[j]) \/ (j = Len(row) + 1 /\ s[j] = item)
  BY AppendIndex
<1> HIDE DEF s
<1>2. Uses(s[i]) \cap Uses(s[j]) = {}
  BY <1>1 DEF Apart, Off
<1> QED
  BY <1>2 DEF s

LEMMA AcrossAppend ==
    ASSUME NEW I, NEW row \in Seq(I), NEW item \in I, NEW left, Across(left, row),
           Off(item, left)
    PROVE  Across(left, Append(row, item))
<1> SUFFICES ASSUME NEW i \in DOMAIN left PROVE Off(left[i], Append(row, item))
  BY DEF Across
<1>1. Off(left[i], row) /\ Uses(left[i]) \cap Uses(item) = {}
  BY DEF Across, Off
<1> QED
  BY <1>1, OffAppend

LEMMA JoinedUses ==
    ASSUME NEW S, NEW l, NEW r, l.pools \in Seq(S), r.pools \in Seq(S)
    PROVE  Uses(Joined(l, r)) \subseteq Uses(l) \cup Uses(r)
<1> DEFINE a == l.pools
           b == r.pools
           c == a \o b
           m == Len(a)
           n == Len(b)
<1>1. Joined(l, r).pools = c
  BY DEF Joined
<1>2. m \in Nat /\ n \in Nat /\ DOMAIN a = 1 .. m /\ DOMAIN b = 1 .. n
  OBVIOUS
<1>3. /\ c \in Seq(S) /\ Len(c) = m + n
      /\ \A i \in 1 .. m + n : c[i] = IF i <= m THEN a[i] ELSE b[i - m]
  BY ConcatProperties
<1> HIDE DEF c
<1>4. DOMAIN c = 1 .. m + n
  BY <1>3
<1>5. Uses(Joined(l, r)) = {c[i] : i \in DOMAIN c}
  BY <1>1 DEF Uses
<1>6. Uses(l) = {a[i] : i \in DOMAIN a} /\ Uses(r) = {b[i] : i \in DOMAIN b}
  BY DEF Uses
<1> HIDE DEF a, b, m, n
<1> SUFFICES ASSUME NEW i \in 1 .. m + n PROVE c[i] \in Uses(l) \cup Uses(r)
  BY <1>4, <1>5
<1>7. CASE i <= m
  <2>1. i \in DOMAIN a
    BY <1>2, <1>7
  <2>2. c[i] = a[i]
    BY <1>3, <1>7
  <2> QED
    BY <1>6, <2>1, <2>2
<1>8. CASE ~ (i <= m)
  <2>1. i - m \in DOMAIN b
    BY <1>2, <1>8
  <2>2. c[i] = b[i - m]
    BY <1>3, <1>8
  <2> QED
    BY <1>6, <2>1, <2>2
<1> QED
  BY <1>7, <1>8

\* In a finite set of numbers some number has so many before it, for each
\* number that is less than the size of the set.
LEMMA Ranked ==
    ASSUME NEW side, NEW S, IsFiniteSet(S), NEW val \in [S -> Int],
           \A j, k \in S : val[j] = val[k] => j = k,
           NEW ahead \in [S -> SUBSET S],
           \A j, k \in S : j \in ahead[k] <=> Better(side, val[j], val[k]),
           NEW i \in 1 .. Cardinality(S)
    PROVE  \E k \in S : Cardinality(ahead[k]) = i - 1
<1> DEFINE A(k) == ahead[k]
           n == Cardinality(S)
           T == (0 .. n - 1) \ {i - 1}
           rank == [k \in S |-> Cardinality(A(k))]
<1>1. n \in Nat
  BY FS_CardinalityType
<1>2. i \in 1 .. n /\ i \in Nat
  BY <1>1
<1> HIDE DEF n
<1>3. ASSUME NEW k \in S PROVE IsFiniteSet(A(k)) /\ Cardinality(A(k)) \in 0 .. n - 1
  <2>1. A(k) \in SUBSET S /\ k \notin A(k)
    BY DEF Better
  <2>2. IsFiniteSet(S \ {k}) /\ Cardinality(S \ {k}) = n - 1
    BY FS_RemoveElement DEF n
  <2>3. A(k) \in SUBSET (S \ {k})
    BY <2>1
  <2> HIDE DEF A
  <2>4. IsFiniteSet(A(k)) /\ Cardinality(A(k)) <= Cardinality(S \ {k})
    BY <2>2, <2>3, FS_Subset
  <2>5. Cardinality(A(k)) \in Nat
    BY <2>4, FS_CardinalityType
  <2> QED
    BY <1>1, <2>2, <2>4, <2>5
<1>4. ASSUME NEW j \in S, NEW k \in S, Better(side, val[j], val[k])
      PROVE  Cardinality(A(j)) # Cardinality(A(k))
  <2>1. j \in A(k) /\ j \notin A(j)
    BY <1>4 DEF Better
  <2>2. A(j) \in SUBSET A(k)
    <3> SUFFICES ASSUME NEW l \in A(j) PROVE l \in A(k)
      OBVIOUS
    <3>1. l \in S /\ Better(side, val[l], val[j])
      <4>1. l \in S
        OBVIOUS
      <4> QED
        BY <4>1
    <3>2. val[l] \in Int /\ val[j] \in Int /\ val[k] \in Int
      BY <3>1
    <3>3. Better(side, val[l], val[k])
      BY <1>4, <3>1, <3>2 DEF Better
    <3> QED
      BY <3>1, <3>3
  <2>3. IsFiniteSet(A(k))
    BY <1>3
  <2> HIDE DEF A
  <2>4. Cardinality(A(j)) = Cardinality(A(k)) => A(j) = A(k)
    BY <2>2, <2>3, FS_Subset
  <2> QED
    BY <2>1, <2>4
<1> SUFFICES ASSUME \A k \in S : Cardinality(A(k)) # i - 1 PROVE FALSE
  OBVIOUS
<1>5. IsFiniteSet(T) /\ Cardinality(T) < Cardinality(S)
  <2> DEFINE U == 0 .. n - 1
  <2>1. IsFiniteSet(U) /\ Cardinality(U) = n
    <3>1. 0 \in Int /\ n - 1 \in Int
      BY <1>1
    <3>2. IsFiniteSet(0 .. n - 1)
          /\ Cardinality(0 .. n - 1) = IF 0 > n - 1 THEN 0 ELSE n - 1 - 0 + 1
      BY <3>1, FS_Interval
    <3> QED
      BY <1>1, <1>2, <3>2
  <2>2. i - 1 \in U
    BY <1>1, <1>2
  <2> HIDE DEF U
  <2>3. IsFiniteSet(U \ {i - 1}) /\ Cardinality(U \ {i - 1}) = n - 1
    BY <2>1, <2>2, FS_RemoveElement
  <2> QED
    BY <1>1, <2>3 DEF U, n
<1>6. rank \in [S -> T]
  <2> SUFFICES ASSUME NEW k \in S PROVE Cardinality(A(k)) \in T
    OBVIOUS
  <2>1. Cardinality(A(k)) \in 0 .. n - 1 /\ Cardinality(A(k)) # i - 1
    BY <1>3
  <2> HIDE DEF A
  <2> QED
    BY <2>1
<1>7. \E j, k \in S : j # k /\ rank[j] = rank[k]
  <2> HIDE DEF T, rank
  <2> QED
    BY <1>5, <1>6, FS_PigeonHole
<1>8. PICK j \in S, k \in S : j # k /\ Cardinality(A(j)) = Cardinality(A(k))
  BY <1>7
<1>9. val[j] # val[k] /\ val[j] \in Int /\ val[k] \in Int
  BY <1>8
<1>10. Better(side, val[j], val[k]) \/ Better(side, val[k], val[j])
  BY <1>9 DEF Better
<1> HIDE DEF A
<1> QED
  BY <1>4, <1>8, <1>10

\* The pools of a kind: each item is one pool of the side.
LEMMA ListedType ==
    ASSUME oracle \in Nat, NEW side \in Sides, NEW kind \in {"fixed", "oracle"}
    PROVE  /\ Listed(side, kind) \in Seq(Offered(side, Singles(side, kind), {NoQuote}))
           /\ Apart(Listed(side, kind))
<1> DEFINE keys == {k \in Keys : /\ k.side = side /\ k.price.kind = kind
                                 /\ book[k].pool.total > 0}
           Ahead(k) == {j \in keys : Better(side, j.price.value, k.price.value)}
           Place(i) == CHOOSE k \in keys : Cardinality(Ahead(k)) = i - 1
           val == [k \in keys |-> k.price.value]
           N == Cardinality(keys)
<1>1. Fixed \subseteq Int /\ IsFiniteSet(Fixed) /\ Premiums \subseteq Int /\ IsFiniteSet(Premiums)
  BY FinAssumptions
<1>2. ASSUME NEW k \in keys
      PROVE  /\ k \in KeysOf(side, kind) /\ k.price \in Prices
             /\ k = [side |-> side, price |-> [kind |-> kind, value |-> k.price.value]]
             /\ k.price.value \in Fixed \cup Premiums
             /\ book[k].pool.total > 0
  <2>1. k \in [side : Sides, price : Prices] /\ k.side = side /\ k.price.kind = kind
    BY DEF Keys
  <2>2. k.price \in Prices /\ k = [side |-> side, price |-> k.price]
    BY <2>1
  <2>3. k.price = [kind |-> kind, value |-> k.price.value]
        /\ k.price.value \in Fixed \cup Premiums
    BY <2>1, <2>2 DEF Prices
  <2>4. k \in KeysOf(side, kind)
    BY <2>1 DEF KeysOf, Keys
  <2> QED
    BY <2>2, <2>3, <2>4
<1>3. /\ val \in [keys -> Fixed \cup Premiums] /\ val \in [keys -> Int]
      /\ \A j, k \in keys : val[j] = val[k] => j = k
  <2> HIDE DEF keys
  <2>1. val \in [keys -> Fixed \cup Premiums] /\ val \in [keys -> Int]
    BY <1>1, <1>2
  <2>2. ASSUME NEW j \in keys, NEW k \in keys, val[j] = val[k] PROVE j = k
    <3>1. j.price.value = k.price.value
      BY <2>2
    <3> QED
      BY <1>2, <3>1
  <2> QED
    BY <2>1, <2>2
<1> HIDE DEF keys
<1>4. IsFiniteSet(keys)
  <2> DEFINE T == Fixed \cup Premiums
  <2>1. IsFiniteSet(T)
    BY <1>1, FS_Union
  <2>2. val \in Injection(keys, T)
    <3>1. DOMAIN val = keys
      OBVIOUS
    <3> HIDE DEF val
    <3> QED
      BY <1>3, <3>1 DEF Injection, IsInjective
  <2> HIDE DEF T, val
  <2> QED
    BY <2>1, <2>2, FS_Injection
<1>5. N \in Nat
  BY <1>4, FS_CardinalityType
<1>6. ASSUME NEW i \in 1 .. N
      PROVE  Place(i) \in keys /\ Cardinality(Ahead(Place(i))) = i - 1
  <2> DEFINE ahead == [k \in keys |-> Ahead(k)]
  <2>1. /\ ahead \in [keys -> SUBSET keys]
        /\ \A j, k \in keys : j \in ahead[k] <=> Better(side, val[j], val[k])
    OBVIOUS
  <2>2. \E k \in keys : Cardinality(ahead[k]) = i - 1
    <3>1. i \in 1 .. Cardinality(keys)
      OBVIOUS
    <3>2. \A j, k \in keys : val[j] = val[k] => j = k
      BY <1>3
    <3>3. val \in [keys -> Int]
      BY <1>3
    <3> HIDE DEF val, N, ahead
    <3> QED
      BY <1>4, <2>1, <3>1, <3>2, <3>3, Ranked
  <2>3. \E k \in keys : Cardinality(Ahead(k)) = i - 1
    <3> HIDE DEF Ahead
    <3> QED
      BY <2>2
  <2> HIDE DEF Ahead
  <2> QED
    BY <2>3, Zenon
<1> DEFINE row == [i \in 1 .. N |->
                      [rate |-> Rate(Place(i).price), pools |-> <<Place(i)>>, quote |-> NoQuote]]
<1>7. Listed(side, kind) = row
  BY DEF Listed, keys
<1>8. ASSUME NEW i \in 1 .. N, NEW j \in 1 .. N, i # j
      PROVE  Place(i) # Place(j)
  <2> HIDE DEF Place, N, Ahead
  <2> SUFFICES ASSUME Place(i) = Place(j) PROVE FALSE
    OBVIOUS
  <2>1. i - 1 = j - 1
    BY <1>6
  <2> QED
    BY <1>5, <1>8, <2>1
<1> HIDE DEF Place, N
<1> DEFINE I == Offered(side, Singles(side, kind), {NoQuote})
<1>9. ASSUME NEW i \in 1 .. N PROVE row[i] \in I /\ Uses(row[i]) = {Place(i)}
  <2> DEFINE k == Place(i)
             x == [rate |-> Rate(k.price), pools |-> <<k>>, quote |-> NoQuote]
  <2>1. k \in KeysOf(side, kind) /\ k.price \in Prices /\ book[k].pool.total > 0
    BY <1>2, <1>6
  <2>2. row[i] = x
    OBVIOUS
  <2> HIDE DEF k, row
  <2>3. Rate(k.price) \in Int
    BY <2>1, RateType
  <2>4. <<k>> \in Singles(side, kind)
    BY <2>1 DEF Singles
  <2>5. x \in ItemsWith(Singles(side, kind), {NoQuote})
    BY <2>3, <2>4 DEF ItemsWith
  <2>6. x.rate = Rate(k.price) /\ x.quote = NoQuote /\ Uses(x) = {k}
    BY UsesOne
  <2> HIDE DEF x
  <2>7. Fits(side, x) /\ Fresh(book, x)
    BY <2>1, <2>6 DEF Fits, Fresh
  <2>8. x \in I
    BY <2>5, <2>7 DEF Offered
  <2> QED
    BY <2>2, <2>6, <2>8 DEF k
<1>10. row \in [1 .. N -> I] /\ DOMAIN row = 1 .. N
  <2>1. DOMAIN row = 1 .. N /\ row = [i \in 1 .. N |-> row[i]]
    OBVIOUS
  <2> HIDE DEF row, I
  <2> QED
    BY <1>9, <2>1
<1> HIDE DEF row, I
<1>11. row \in Seq(I)
  BY <1>5, <1>10
<1>12. Apart(row)
  BY <1>8, <1>9, <1>10 DEF Apart
<1> QED
  BY <1>7, <1>11, <1>12 DEF I

\* The market maker's offers: no pools, and a quote with a price.
QuoteItems(side) == Offered(side, {<<>>}, QuoteOffers)

LEMMA BrokenType ==
    ASSUME NEW side
    PROVE  Broken \in QuoteItems(side)
<1>1. Broken \in ItemsWith({<<>>}, QuoteOffers)
  BY DEF Broken, ItemsWith, QuoteOffers
<1>2. Uses(Broken) = {}
  BY UsesNone DEF Broken
<1>3. Fits(side, Broken)
  BY <1>2 DEF Broken, Fits
<1>4. Fresh(book, Broken)
  BY <1>2 DEF Fresh
<1> QED
  BY <1>1, <1>3, <1>4 DEF QuoteItems, Offered

LEMMA MakerOfferType ==
    ASSUME config \in Configs, NEW side, NEW s \in XYK!States, XYK!HasQuote(Strategy, s)
    PROVE  MakerOffer(side, XYK!Quote(Strategy, s)) \in QuoteItems(side)
<1> DEFINE q == XYK!Quote(Strategy, s)
<1>1. q.price \in Nat \ {0} /\ q.size \in Nat
  BY QuoteType
<1> HIDE DEF q
<1>2. MakerRate(side, q.price) \in Int
  BY <1>1, MakerRateType
<1>3. [price |-> q.price, total |-> q.size] \in QuoteOffers
  BY <1>1 DEF QuoteOffers
<1> DEFINE x == [rate |-> MakerRate(side, q.price), pools |-> <<>>,
                 quote |-> [price |-> q.price, total |-> q.size]]
<1>4. MakerOffer(side, q) \in {Broken, x}
  BY DEF MakerOffer
<1>5. x \in ItemsWith({<<>>}, QuoteOffers)
  BY <1>2, <1>3 DEF ItemsWith
<1>6. x.pools = <<>> /\ x.rate = MakerRate(side, q.price) /\ x.quote.price = q.price
  OBVIOUS
<1>7. side = "quote" => MakerRate(side, q.price) <= q.price
  <2>1. q.price % Unused(q.price) \in Nat
    <3>1. Unused(q.price) \in Nat \ {0}
      BY <1>1, UnusedType
    <3> DEFINE u == Unused(q.price)
    <3> HIDE DEF u
    <3> QED
      BY <1>1, <3>1 DEF u
  <2>2. TruncateFloor(q.price) <= q.price
    <3> DEFINE m == q.price % Unused(q.price)
    <3> HIDE DEF m
    <3>1. TruncateFloor(q.price) = q.price - m
      BY DEF TruncateFloor, m
    <3> QED
      BY <1>1, <2>1, <3>1 DEF m
  <2> QED
    BY <2>2 DEF MakerRate
<1> HIDE DEF x
<1>8. Uses(x) = {}
  BY <1>6, UsesNone
<1>9. Fits(side, x) /\ Fresh(book, x)
  BY <1>6, <1>7, <1>8 DEF Fits, Fresh
<1>10. x \in QuoteItems(side)
  BY <1>5, <1>9 DEF QuoteItems, Offered
<1> QED
  BY <1>4, <1>10, BrokenType DEF q

Askeds(side) == [state : XYK!States, row : Seq(QuoteItems(side))]

LEMMA AskedNextType ==
    ASSUME config \in Configs, NEW side, NEW a \in Askeds(side)
    PROVE  AskedNext(side, a) \in Askeds(side)
<1>1. a.state \in XYK!States /\ a.row \in Seq(QuoteItems(side))
  BY DEF Askeds
<1>2. CASE XYK!HasQuote(Strategy, a.state)
  <2> DEFINE q == XYK!Quote(Strategy, a.state)
  <2>1. MakerOffer(side, q) \in QuoteItems(side)
    BY <1>1, <1>2, MakerOfferType
  <2>2. q.data \in XYK!States
    BY <1>1, <1>2, QuoteType
  <2>3. AskedNext(side, a) = [state |-> q.data, row |-> Append(a.row, MakerOffer(side, q))]
    BY <1>2 DEF AskedNext
  <2> HIDE DEF q
  <2> DEFINE o == MakerOffer(side, q)
             I == QuoteItems(side)
  <2> HIDE DEF o, I
  <2>4. Append(a.row, o) \in Seq(I)
    BY <1>1, <2>1 DEF o, I
  <2> QED
    BY <2>2, <2>3, <2>4 DEF o, I, Askeds
<1>3. CASE ~ XYK!HasQuote(Strategy, a.state)
  BY <1>3 DEF AskedNext
<1> QED
  BY <1>2, <1>3

LEMMA QuotesType ==
    ASSUME config \in Configs, NEW side, NEW m \in XYK!States
    PROVE  Quotes(side, m) \in Seq(QuoteItems(side))
<1> DEFINE b == [state |-> Facing(side, m), row |-> <<>>]
           h == [a \in Askeds(side) |-> AskedNext(side, a)]
           Steps(g) == [n \in 0 .. MaxQuotes |-> IF n = 0 THEN b ELSE AskedNext(side, g[n - 1])]
           asked == CHOOSE g : g = Steps(g)
<1>1. MaxQuotes \in Nat
  BY FinAssumptions
<1>2. b \in Askeds(side)
  <2>1. Facing(side, m) \in XYK!States
    BY FacingType
  <2> QED
    BY <2>1 DEF Askeds
<1>3. h \in [Askeds(side) -> Askeds(side)] /\ \A a \in Askeds(side) : h[a] = AskedNext(side, a)
  BY AskedNextType
<1>4. Quotes(side, m) = IF config.maker THEN asked[MaxQuotes].row ELSE <<>>
  BY Zenon DEF Quotes
<1> HIDE DEF b, h
<1>5. \E g : g = Steps(g)
  <2>1. PICK g \in [0 .. MaxQuotes -> Askeds(side)] :
            g = [c \in 0 .. MaxQuotes |-> IF c = 0 THEN b ELSE h[g[c - 1]]]
    <3> DEFINE V == Askeds(side)
    <3>1. h \in [V -> V] /\ b \in V /\ MaxQuotes \in Nat
      BY <1>1, <1>2, <1>3
    <3> HIDE DEF V, Steps, asked
    <3>2. Definable(MaxQuotes, V, b, h)
      BY <3>1, Recursion
    <3> QED
      BY <3>2, Zenon DEF Definable, V
  <2>2. ASSUME NEW c \in 0 .. MaxQuotes, c # 0 PROVE h[g[c - 1]] = AskedNext(side, g[c - 1])
    <3>1. c - 1 \in 0 .. MaxQuotes
      BY <1>1, <2>2
    <3> QED
      BY <1>3, <2>1, <3>1
  <2>3. g = Steps(g)
    BY <2>1, <2>2
  <2> HIDE DEF Steps
  <2> QED
    BY <2>3, Zenon
<1>6. asked = Steps(asked)
  <2> HIDE DEF Steps
  <2> QED
    BY <1>5, Zenon
<1> HIDE DEF asked
<1>7. asked[0] = b /\ \A n \in 1 .. MaxQuotes : asked[n] = AskedNext(side, asked[n - 1])
  <2>1. ASSUME NEW n \in 1 .. MaxQuotes PROVE n \in 0 .. MaxQuotes /\ n # 0
    BY <1>1
  <2>2. 0 \in 0 .. MaxQuotes
    BY <1>1
  <2> QED
    BY <1>6, <2>1, <2>2
<1>8. asked[MaxQuotes] \in Askeds(side)
  <2> DEFINE V == Askeds(side)
  <2>1. asked[0] \in V
    BY <1>2, <1>7
  <2>2. \A n \in 1 .. MaxQuotes : asked[n - 1] \in V => asked[n] \in V
    BY <1>7, AskedNextType
  <2>3. MaxQuotes \in 0 .. MaxQuotes
    BY <1>1
  <2> HIDE DEF V
  <2>4. \A n \in 0 .. MaxQuotes : asked[n] \in V
    BY <1>1, <2>1, <2>2, Throughout
  <2> QED
    BY <2>3, <2>4 DEF V
<1>9. asked[MaxQuotes].row \in Seq(QuoteItems(side))
  BY <1>8 DEF Askeds
<1>10. <<>> \in Seq(QuoteItems(side))
  OBVIOUS
<1> QED
  BY <1>4, <1>9, <1>10

LEMMA OffJoined ==
    ASSUME NEW l, NEW r, NEW j, Uses(j) \subseteq Uses(l) \cup Uses(r), NEW row,
           Off(l, row), Off(r, row)
    PROVE  Off(j, row)
BY DEF Off

LEMMA TakenApart ==
    ASSUME NEW L, NEW R, NEW J, L \subseteq J, NEW left \in Seq(L), left # <<>>,
           NEW right \in Seq(R), NEW row \in Seq(J), Apart(left), Apart(right), Apart(row),
           Across(left, right), Across(left, row), Across(right, row)
    PROVE  /\ Apart(Tail(left)) /\ Across(Tail(left), right)
           /\ Apart(Append(row, Head(left)))
           /\ Across(Tail(left), Append(row, Head(left)))
           /\ Across(right, Append(row, Head(left)))
<1> DEFINE h == Head(left)
           t == Tail(left)
<1>1. Apart(t) /\ Off(h, t)
  BY ApartTail
<1>2. Across(t, right) /\ Off(h, right) /\ Across(t, row) /\ Off(h, row)
  BY AcrossTail
<1>3. h \in J
  OBVIOUS
<1> HIDE DEF h, t
<1>4. Apart(Append(row, h)) /\ Across(t, Append(row, h)) /\ Across(right, Append(row, h))
  BY <1>1, <1>2, <1>3, ApartAppend, AcrossAppend
<1> QED
  BY <1>1, <1>2, <1>4 DEF h, t

\* What is left of two rows, and what they have been merged to.
Merging(L, R, J) ==
    {m \in [left : Seq(L), right : Seq(R), row : Seq(J)] :
        /\ Apart(m.left) /\ Apart(m.right) /\ Apart(m.row)
        /\ Across(m.left, m.right) /\ Across(m.left, m.row) /\ Across(m.right, m.row)}

Mergeable(L, R, J) ==
    /\ L \subseteq J /\ R \subseteq J
    /\ \A l \in L, r \in R :
          l.rate = r.rate =>
              Joined(l, r) \in J /\ Uses(Joined(l, r)) \subseteq Uses(l) \cup Uses(r)

LEMMA MergeNextType ==
    ASSUME NEW side, NEW L, NEW R, NEW J, Mergeable(L, R, J), NEW m \in Merging(L, R, J)
    PROVE  MergeNext(side, m) \in Merging(L, R, J)
<1>1. /\ m.left \in Seq(L) /\ m.right \in Seq(R) /\ m.row \in Seq(J)
      /\ m = [left |-> m.left, right |-> m.right, row |-> m.row]
      /\ Apart(m.left) /\ Apart(m.right) /\ Apart(m.row)
      /\ Across(m.left, m.right) /\ Across(m.left, m.row) /\ Across(m.right, m.row)
      /\ Across(m.right, m.left)
  BY AcrossOther DEF Merging
<1>2. L \subseteq J /\ R \subseteq J
  BY DEF Mergeable
<1> DEFINE l == m.left
           r == m.right
           w == m.row
<1>3. ASSUME l # <<>> PROVE TakeLeft(m) \in Merging(L, R, J)
  <2> DEFINE t == Tail(l)
             a == Append(w, Head(l))
  <2>1. TakeLeft(m) = [left |-> t, right |-> r, row |-> a]
    <3>1. TakeLeft(m) = [m EXCEPT !.left = t, !.row = a]
      BY DEF TakeLeft
    <3>2. m \in [left : Seq(L), right : Seq(R), row : Seq(J)]
      BY DEF Merging
    <3> HIDE DEF t, a
    <3> QED
      BY <3>1, <3>2
  <2>2. t \in Seq(L) /\ a \in Seq(J)
    <3>1. Head(l) \in J /\ t \in Seq(L)
      BY <1>1, <1>2, <1>3
    <3> QED
      BY <1>1, <3>1
  <2>3. Apart(t) /\ Across(t, r) /\ Apart(a) /\ Across(t, a) /\ Across(r, a)
    BY <1>1, <1>2, <1>3, TakenApart
  <2> HIDE DEF t, a
  <2> QED
    BY <1>1, <2>1, <2>2, <2>3 DEF Merging
<1>4. ASSUME r # <<>> PROVE TakeRight(m) \in Merging(L, R, J)
  <2> DEFINE t == Tail(r)
             a == Append(w, Head(r))
  <2>1. TakeRight(m) = [left |-> l, right |-> t, row |-> a]
    <3>1. TakeRight(m) = [m EXCEPT !.right = t, !.row = a]
      BY DEF TakeRight
    <3>2. m \in [left : Seq(L), right : Seq(R), row : Seq(J)]
      BY DEF Merging
    <3> HIDE DEF t, a
    <3> QED
      BY <3>1, <3>2
  <2>2. t \in Seq(R) /\ a \in Seq(J)
    <3>1. Head(r) \in J /\ t \in Seq(R)
      BY <1>1, <1>2, <1>4
    <3> QED
      BY <1>1, <3>1
  <2>3. Apart(t) /\ Across(t, l) /\ Apart(a) /\ Across(t, a) /\ Across(l, a)
    BY <1>1, <1>2, <1>4, TakenApart
  <2> HIDE DEF t, a
  <2>4. Across(l, t)
    BY <2>3, AcrossOther
  <2> QED
    BY <1>1, <2>1, <2>2, <2>3, <2>4 DEF Merging
<1>5. ASSUME l # <<>>, r # <<>>, Head(l).rate = Head(r).rate
      PROVE  TakeBoth(m) \in Merging(L, R, J)
  <2> DEFINE g == Head(l)
             h == Head(r)
             s == Tail(l)
             t == Tail(r)
             j == Joined(g, h)
             a == Append(w, j)
  <2>1. TakeBoth(m) = [left |-> s, right |-> t, row |-> a]
    BY DEF TakeBoth
  <2>2. g \in L /\ h \in R /\ s \in Seq(L) /\ t \in Seq(R)
    BY <1>1, <1>5
  <2>3. j \in J /\ Uses(j) \subseteq Uses(g) \cup Uses(h)
    <3> HIDE DEF g, h
    <3> QED
      BY <1>5, <2>2 DEF Mergeable, g, h
  <2>4. Apart(s) /\ Off(g, s) /\ Apart(t) /\ Off(h, t)
    BY <1>1, <1>5, ApartTail
  <2>5. Across(s, r) /\ Off(g, r) /\ Across(t, l) /\ Off(h, l)
    BY <1>1, <1>5, AcrossTail
  <2>6. Across(s, w) /\ Off(g, w) /\ Across(t, w) /\ Off(h, w)
    BY <1>1, <1>5, AcrossTail
  <2>7. Off(g, t) /\ Off(h, s)
    BY <1>1, <1>5, <2>5, OffTail
  <2>8. Across(r, s)
    BY <2>5, AcrossOther
  <2>9. Across(t, s)
    BY <1>1, <1>5, <2>8, AcrossTail
  <2> HIDE DEF g, h, s, t, j
  <2>10. Across(s, t)
    BY <2>9, AcrossOther
  <2>11. Off(j, w) /\ Off(j, s) /\ Off(j, t)
    BY <2>3, <2>4, <2>6, <2>7, OffJoined
  <2>12. Apart(a) /\ Across(s, a) /\ Across(t, a)
    BY <1>1, <2>3, <2>6, <2>11, ApartAppend, AcrossAppend
  <2>13. a \in Seq(J)
    BY <1>1, <2>3
  <2> HIDE DEF a
  <2> QED
    BY <2>1, <2>2, <2>4, <2>10, <2>12, <2>13 DEF Merging
<1>6. ASSUME r # <<>> PROVE BreakOff(m) \in Merging(L, R, J)
  <2> DEFINE a == Append(w, Head(r))
  <2>1. BreakOff(m) = [left |-> <<>>, right |-> <<>>, row |-> a]
    BY DEF BreakOff
  <2>2. Apart(a)
    BY <1>1, <1>2, <1>6, TakenApart
  <2>3. a \in Seq(J)
    <3>1. Head(r) \in J
      BY <1>1, <1>2, <1>6
    <3> QED
      BY <1>1, <3>1
  <2> HIDE DEF a
  <2>4. /\ Apart(<<>>) /\ Across(<<>>, <<>>) /\ Across(<<>>, a)
    BY DEF Apart, Across
  <2> QED
    BY <2>1, <2>2, <2>3, <2>4 DEF Merging
<1>7. ~Readable(r) => r # <<>>
  BY DEF Readable
<1> QED
  BY <1>3, <1>4, <1>5, <1>6, <1>7 DEF MergeNext

\* A merge of two rows has items of either and of both, and no pool twice.
LEMMA MergedType ==
    ASSUME NEW side, NEW L, NEW R, NEW J, Mergeable(L, R, J),
           NEW left \in Seq(L), NEW right \in Seq(R),
           Apart(left), Apart(right), Across(left, right)
    PROVE  Merged(side, left, right) \in Seq(J) /\ Apart(Merged(side, left, right))
<1> DEFINE V == Merging(L, R, J)
           b == [left |-> left, right |-> right, row |-> <<>>]
           N == Len(left) + Len(right)
           h == [m \in V |-> MergeNext(side, m)]
           Steps(g) == [n \in 0 .. N |-> IF n = 0 THEN b ELSE MergeNext(side, g[n - 1])]
           merged == CHOOSE g : g = Steps(g)
<1>1. N \in Nat
  OBVIOUS
<1>2. b \in V
  <2> DEFINE e == <<>>
  <2>1. e \in Seq(J) /\ DOMAIN e = {}
    OBVIOUS
  <2> HIDE DEF e
  <2>2. Apart(e) /\ Across(left, e) /\ Across(right, e)
    BY <2>1 DEF Apart, Across, Off
  <2>3. b = [left |-> left, right |-> right, row |-> e]
    BY DEF e
  <2> HIDE DEF b
  <2> QED
    BY <2>1, <2>2, <2>3 DEF Merging
<1>3. ASSUME NEW m \in V PROVE MergeNext(side, m) \in V
  BY MergeNextType
<1>4. h \in [V -> V] /\ \A m \in V : h[m] = MergeNext(side, m)
  <2> HIDE DEF V
  <2> QED
    BY <1>3
<1>5. Merged(side, left, right) = merged[N].row
  BY Zenon DEF Merged
<1> HIDE DEF b, h, N
<1>6. \E g : g = Steps(g)
  <2> HIDE DEF V
  <2>1. PICK g \in [0 .. N -> V] : g = [c \in 0 .. N |-> IF c = 0 THEN b ELSE h[g[c - 1]]]
    <3> HIDE DEF Steps, merged
    <3>1. h \in [V -> V] /\ b \in V /\ N \in Nat
      BY <1>1, <1>2, <1>4
    <3>2. Definable(N, V, b, h)
      BY <3>1, Recursion
    <3> QED
      BY <3>2, Zenon DEF Definable
  <2>2. ASSUME NEW c \in 0 .. N, c # 0 PROVE h[g[c - 1]] = MergeNext(side, g[c - 1])
    <3>1. c - 1 \in 0 .. N
      BY <1>1, <2>2
    <3> QED
      BY <1>4, <2>1, <3>1
  <2>3. g = Steps(g)
    BY <2>1, <2>2
  <2> HIDE DEF Steps
  <2> QED
    BY <2>3, Zenon
<1>7. merged = Steps(merged)
  <2> HIDE DEF Steps
  <2> QED
    BY <1>6, Zenon
<1> HIDE DEF merged
<1>8. merged[0] = b /\ \A n \in 1 .. N : merged[n] = MergeNext(side, merged[n - 1])
  <2>1. ASSUME NEW n \in 1 .. N PROVE n \in 0 .. N /\ n # 0
    BY <1>1
  <2>2. 0 \in 0 .. N
    BY <1>1
  <2> QED
    BY <1>7, <2>1, <2>2
<1>9. merged[N] \in V
  <2> HIDE DEF V
  <2>1. merged[0] \in V
    BY <1>2, <1>8
  <2>2. \A n \in 1 .. N : merged[n - 1] \in V => merged[n] \in V
    BY <1>3, <1>8
  <2>3. N \in 0 .. N
    BY <1>1
  <2>4. \A n \in 0 .. N : merged[n] \in V
    BY <1>1, <2>1, <2>2, Throughout
  <2> QED
    BY <2>3, <2>4
<1>10. merged[N].row \in Seq(J) /\ Apart(merged[N].row)
  BY <1>9 DEF Merging
<1> QED
  BY <1>5, <1>10

LEMMA OneAndOne ==
    ASSUME NEW S, NEW j \in S, NEW k \in S
    PROVE  <<j>> \o <<k>> = <<j, k>>
<1> DEFINE s == <<j>>
           t == <<k>>
           u == s \o t
           w == <<j, k>>
<1>1. s \in Seq(S) /\ Len(s) = 1 /\ s[1] = j
  OBVIOUS
<1>2. t \in Seq(S) /\ Len(t) = 1 /\ t[1] = k
  OBVIOUS
<1>3. w \in Seq(S) /\ Len(w) = 2 /\ w[1] = j /\ w[2] = k
  OBVIOUS
<1> HIDE DEF s, t, w
<1>4. u \in Seq(S) /\ Len(u) = 2 /\ u[1] = s[1] /\ u[2] = t[1]
  <2>1. u \in Seq(S) /\ Len(u) = Len(s) + Len(t)
    BY <1>1, <1>2, ConcatProperties
  <2>2. ASSUME NEW i \in 1 .. Len(s) + Len(t)
        PROVE  u[i] = IF i <= Len(s) THEN s[i] ELSE t[i - Len(s)]
    BY <1>1, <1>2, ConcatProperties
  <2>3. 1 \in 1 .. Len(s) + Len(t) /\ 2 \in 1 .. Len(s) + Len(t)
    BY <1>1, <1>2
  <2> HIDE DEF u
  <2>4. u[1] = s[1]
    BY <1>1, <2>2, <2>3
  <2>5. u[2] = t[2 - 1]
    BY <1>1, <2>2, <2>3
  <2> QED
    BY <1>1, <1>2, <2>1, <2>4, <2>5
<1> HIDE DEF u
<1>5. \A i \in 1 .. 2 : u[i] = w[i]
  BY <1>1, <1>2, <1>3, <1>4
<1>6. u = w
  BY <1>3, <1>4, <1>5
<1> QED
  BY <1>6 DEF u, s, t, w

LEMMA JoinedFits ==
    ASSUME NEW side, NEW l, NEW r, Fits(side, l), Fresh(book, l), Fits(side, r), Fresh(book, r),
           l.rate = r.rate, l.quote = NoQuote,
           Uses(Joined(l, r)) \subseteq Uses(l) \cup Uses(r)
    PROVE  Fits(side, Joined(l, r)) /\ Fresh(book, Joined(l, r))
<1>1. /\ Joined(l, r).rate = l.rate
      /\ Joined(l, r).quote = IF r.quote = NoQuote THEN NoQuote ELSE r.quote
  BY DEF Joined
<1> QED
  BY <1>1 DEF Fits, Fresh

LEMMA UsesSingle ==
    ASSUME NEW side, NEW kind, NEW item, item.pools \in Singles(side, kind)
    PROVE  Uses(item) \subseteq KeysOf(side, kind)
<1>1. PICK k \in KeysOf(side, kind) : item.pools = <<k>>
  BY DEF Singles
<1>2. DOMAIN item.pools = {1} /\ item.pools[1] = k
  BY <1>1
<1> QED
  BY <1>2 DEF Uses

LEMMA QuotesApart ==
    ASSUME NEW side, NEW q \in Seq(QuoteItems(side)), NEW row
    PROVE  Apart(q) /\ Across(row, q)
<1>1. ASSUME NEW i \in DOMAIN q PROVE Uses(q[i]) = {}
  <2>1. q[i] \in QuoteItems(side)
    OBVIOUS
  <2>2. q[i].pools = <<>>
    BY <2>1 DEF QuoteItems, Offered, ItemsWith
  <2> QED
    BY <2>2, UsesNone
<1> QED
  BY <1>1 DEF Apart, Across, Off

LEMMA ListsApart ==
    ASSUME NEW side, NEW f \in Seq(Offered(side, Singles(side, "fixed"), {NoQuote})),
           NEW o \in Seq(Offered(side, Singles(side, "oracle"), {NoQuote}))
    PROVE  Across(f, o)
<1> SUFFICES ASSUME NEW i \in DOMAIN f, NEW j \in DOMAIN o
             PROVE  Uses(f[i]) \cap Uses(o[j]) = {}
  BY DEF Across, Off
<1>1. f[i] \in Offered(side, Singles(side, "fixed"), {NoQuote})
      /\ o[j] \in Offered(side, Singles(side, "oracle"), {NoQuote})
  OBVIOUS
<1>2. f[i].pools \in Singles(side, "fixed") /\ o[j].pools \in Singles(side, "oracle")
  BY <1>1 DEF Offered, ItemsWith
<1> DEFINE x == f[i]
           y == o[j]
<1> HIDE DEF x, y
<1>3. Uses(x) \subseteq KeysOf(side, "fixed") /\ Uses(y) \subseteq KeysOf(side, "oracle")
  BY <1>2, UsesSingle DEF x, y
<1>4. KeysOf(side, "fixed") \cap KeysOf(side, "oracle") = {}
  BY DEF KeysOf
<1>5. Uses(x) \cap Uses(y) = {}
  BY <1>3, <1>4
<1> QED
  BY <1>5 DEF x, y

\* The items that swap_iter yields for a side.
OfferedOn(side) == Offered(side, PoolLists(side), QuoteOffers)

\* A row as it is read: no pool comes twice, and all are as they were.
LEMMA RowOffered ==
    ASSUME oracle \in Nat, config \in Configs, NEW side \in Sides, NEW m \in XYK!States
    PROVE  Row(side, m) \in Seq(OfferedOn(side)) /\ Apart(Row(side, m))
<1> DEFINE F == Offered(side, Singles(side, "fixed"), {NoQuote})
           O == Offered(side, Singles(side, "oracle"), {NoQuote})
           B == Offered(side, Filleds(side), {NoQuote})
           Q == QuoteItems(side)
           I == OfferedOn(side)
           f == Listed(side, "fixed")
           o == Listed(side, "oracle")
           q == Quotes(side, m)
           b == Merged(side, f, o)
<1>1. f \in Seq(F) /\ o \in Seq(O) /\ q \in Seq(Q) /\ Apart(f) /\ Apart(o)
  BY ListedType, QuotesType
<1>2. Row(side, m) = Merged(side, b, q)
  BY DEF Row
<1>3. F \subseteq B /\ O \subseteq B
  BY DEF Offered, ItemsWith, Filleds
<1>4. ASSUME NEW l \in F, NEW r \in O, l.rate = r.rate
      PROVE  Joined(l, r) \in B /\ Uses(Joined(l, r)) \subseteq Uses(l) \cup Uses(r)
  <2>1. /\ l.rate \in Int /\ l.pools \in Singles(side, "fixed") /\ l.quote = NoQuote
        /\ r.pools \in Singles(side, "oracle") /\ r.quote = NoQuote
        /\ Fits(side, l) /\ Fresh(book, l) /\ Fits(side, r) /\ Fresh(book, r)
    BY DEF Offered, ItemsWith
  <2>2. PICK j \in KeysOf(side, "fixed"), k \in KeysOf(side, "oracle") :
            l.pools = <<j>> /\ r.pools = <<k>>
    BY <2>1 DEF Singles
  <2>3. j \in Keys /\ k \in Keys
    BY DEF KeysOf
  <2>4. l.pools \o r.pools = <<j, k>>
    <3> HIDE DEF F, O, B, Q, I, f, o, q, b
    <3>1. <<j>> \o <<k>> = <<j, k>>
      BY <2>3, OneAndOne
    <3> QED
      BY <2>2, <3>1, Zenon
  <2>5. <<j, k>> \in Filleds(side)
    BY DEF Filleds, Pairs
  <2>6. Joined(l, r) = [rate |-> l.rate, pools |-> <<j, k>>, quote |-> NoQuote]
    BY <2>1, <2>4 DEF Joined
  <2>7. Joined(l, r) \in ItemsWith(Filleds(side), {NoQuote})
    BY <2>1, <2>5, <2>6 DEF ItemsWith
  <2>8. Uses(Joined(l, r)) \subseteq Uses(l) \cup Uses(r)
    <3>1. l.pools \in Seq(Keys) /\ r.pools \in Seq(Keys)
      BY <2>2, <2>3
    <3> QED
      BY <3>1, JoinedUses
  <2>9. Fits(side, Joined(l, r)) /\ Fresh(book, Joined(l, r))
    BY <1>4, <2>1, <2>8, JoinedFits
  <2> QED
    BY <2>7, <2>8, <2>9 DEF Offered
<1>5. B \subseteq I /\ Q \subseteq I
  BY DEF Offered, ItemsWith, OfferedOn, QuoteItems, PoolLists, QuoteOffers
<1>6. ASSUME NEW l \in B, NEW r \in Q, l.rate = r.rate
      PROVE  Joined(l, r) \in I /\ Uses(Joined(l, r)) \subseteq Uses(l) \cup Uses(r)
  <2>1. /\ l.rate \in Int /\ l.pools \in Filleds(side) /\ l.quote = NoQuote
        /\ r.pools = <<>> /\ r.quote \in QuoteOffers
        /\ Fits(side, l) /\ Fresh(book, l) /\ Fits(side, r) /\ Fresh(book, r)
    BY DEF Offered, ItemsWith, QuoteItems
  <2>2. l.pools \o <<>> = l.pools
    <3>1. ASSUME NEW k \in Keys PROVE <<k>> \o <<>> = <<k>>
      OBVIOUS
    <3>2. ASSUME NEW j \in Keys, NEW k \in Keys PROVE <<j, k>> \o <<>> = <<j, k>>
      OBVIOUS
    <3> HIDE DEF F, O, B, Q, I, f, o, q, b
    <3>3. \/ \E k \in Keys : l.pools = <<k>>
          \/ \E j \in Keys, k \in Keys : l.pools = <<j, k>>
      <4>1. CASE l.pools \in Pairs(side)
        <5>1. PICK j \in KeysOf(side, "fixed"), k \in KeysOf(side, "oracle") :
                  l.pools = <<j, k>>
          BY <4>1 DEF Pairs
        <5> QED
          BY <5>1 DEF KeysOf
      <4>2. CASE \E kind : l.pools \in Singles(side, kind)
        <5>1. PICK kind : l.pools \in Singles(side, kind)
          BY <4>2
        <5>2. PICK k \in KeysOf(side, kind) : l.pools = <<k>>
          BY <5>1 DEF Singles
        <5> QED
          BY <5>2 DEF KeysOf
      <4> QED
        BY <2>1, <4>1, <4>2 DEF Filleds
    <3> QED
      BY <3>1, <3>2, <3>3, Zenon
  <2>3. Joined(l, r) = [rate |-> l.rate, pools |-> l.pools,
                        quote |-> IF r.quote = NoQuote THEN NoQuote ELSE r.quote]
    BY <2>1, <2>2 DEF Joined
  <2>4. (IF r.quote = NoQuote THEN NoQuote ELSE r.quote) = r.quote
    OBVIOUS
  <2>5. l.pools \in PoolLists(side)
    BY <2>1 DEF PoolLists
  <2>6. Joined(l, r) \in ItemsWith(PoolLists(side), QuoteOffers)
    BY <2>1, <2>3, <2>4, <2>5 DEF ItemsWith
  <2>7. Joined(l, r).pools = l.pools
    BY <2>3
  <2>8. Uses(Joined(l, r)) = Uses(l)
    BY <2>7 DEF Uses
  <2>9. Fits(side, Joined(l, r)) /\ Fresh(book, Joined(l, r))
    BY <1>6, <2>1, <2>8, JoinedFits
  <2> QED
    BY <2>6, <2>8, <2>9 DEF OfferedOn, Offered
<1>7. Across(f, o) /\ Apart(q) /\ Across(b, q)
  BY <1>1, ListsApart, QuotesApart
<1> HIDE DEF F, O, B, Q, I, f, o, q
<1>8. b \in Seq(B) /\ Apart(b)
  <2>1. Mergeable(F, O, B)
    BY <1>3, <1>4 DEF Mergeable
  <2> QED
    BY <1>1, <1>7, <2>1, MergedType
<1> HIDE DEF b
<1>9. Merged(side, b, q) \in Seq(I) /\ Apart(Merged(side, b, q))
  <2>1. Mergeable(B, Q, I)
    BY <1>5, <1>6 DEF Mergeable
  <2> QED
    BY <1>1, <1>7, <1>8, <2>1, MergedType
<1> QED
  BY <1>2, <1>9 DEF I

LEMMA RowType ==
    ASSUME oracle \in Nat, config \in Configs, NEW side \in Sides, NEW m \in XYK!States
    PROVE  Row(side, m) \in Seq(ItemsOf(side))
<1> DEFINE I == OfferedOn(side)
           J == ItemsOf(side)
           row == Row(side, m)
<1>1. row \in Seq(I)
  BY RowOffered
<1>2. I \subseteq J
  BY DEF OfferedOn, Offered, ItemsOf
<1> HIDE DEF I, J, row
<1>3. row \in Seq(J)
  BY <1>1, <1>2
<1> QED
  BY <1>3 DEF J, row

-----------------------------------------------------------------------------
(* Trades                                                                  *)

\* An entry of the book.
Entries == [pool : GoodPools, paid : Nat]

\* What AtItsPrice says of an entry that changes.
Priced(k, e, f) ==
    LET given == e.pool.total - f.pool.total
        paid  == f.paid - e.paid
        rate  == Rate(k.price)
    IN  /\ IF k.side = "base" THEN given * rate <= paid * One
                              ELSE given * One * One <= (paid * One + 1) * rate
        /\ (paid - 1) * RateOn(k.side, rate) <= (given + 1) * One

Amounts == [offer : Nat, bids : Nat]

LEMMA PoolTradeType ==
    ASSUME oracle \in Nat, NEW b \in Books, NEW k \in Keys, NEW offer \in Nat,
           CanPoolTrade(b, k, offer)
    PROVE  LET t == PoolTrade(b, k, offer)
           IN  /\ t.offer \in 0 .. offer
               /\ t.bids \in Nat
               /\ t.entry \in Entries
               /\ t.entry # b[k] => Priced(k, b[k], t.entry)
<1> DEFINE e == b[k]
           p == e.pool
<1>1. e \in Entries /\ p \in GoodPools /\ e.paid \in Nat /\ p.total \in Nat
  BY PoolParts DEF Books, Entries
<1>2. CASE offer = 0 \/ p.total = 0
  <2>1. PoolTrade(b, k, offer) = [offer |-> 0, bids |-> 0, entry |-> e]
    BY <1>2 DEF PoolTrade
  <2>2. 0 \in 0 .. offer /\ 0 \in Nat
    OBVIOUS
  <2> HIDE DEF p, e
  <2> QED
    BY <1>1, <2>1, <2>2 DEF e
<1>3. CASE ~ (offer = 0 \/ p.total = 0)
  <2> DEFINE rate == Rate(k.price)
             price == RateOn(k.side, rate)
             res == Filled(p, offer, price)
             f == [pool |-> res.pool, paid |-> e.paid + res.offer]
  <2>1. p.total > 0 /\ offer > 0
    BY <1>1, <1>3
  <2>2. rate \in Nat /\ (k.side = "base" => rate > 0)
    BY <2>1, RateType DEF CanPoolTrade, Keys
  <2>3. price \in Nat /\ (k.side = "base" => rate * price <= One * One)
    <3> HIDE DEF rate
    <3>1. CASE k.side = "base"
      <4>1. rate \in Nat \ {0}
        BY <2>2, <3>1
      <4>2. price = Inv(rate)
        BY <3>1 DEF RateOn
      <4> HIDE DEF price
      <4> QED
        BY <4>1, <4>2, InvType
    <3>2. CASE k.side # "base"
      BY <2>2, <3>2 DEF RateOn
    <3> QED
      BY <3>1, <3>2
  <2>4. PoolTrade(b, k, offer) = [offer |-> res.offer, bids |-> res.bids, entry |-> f]
    BY <1>3 DEF PoolTrade, Entered
  <2> HIDE DEF rate, price, p
  <2>5. /\ res.pool \in GoodPools
        /\ res.offer \in 0 .. offer
        /\ res.bids \in 0 .. p.total
        /\ res.pool.total = p.total - res.bids
        /\ res.bids * One * One <= (res.offer * One + 1) * price
        /\ (res.offer - 1) * price <= (res.bids + 1) * One
        /\ \A q \in Nat : q * price <= One * One => res.bids * q <= res.offer * One
    BY <1>1, <2>1, <2>3, FilledGood
  <2> HIDE DEF res
  <2>6. e.paid + res.offer \in Nat /\ res.bids \in Nat
    BY <1>1, <2>5
  <2>7. f \in Entries
    BY <2>5, <2>6 DEF Entries
  <2>8. f.paid - e.paid = res.offer /\ p.total - f.pool.total = res.bids
    BY <1>1, <2>5
  <2>9. k.side = "base" => res.bids * rate <= res.offer * One
    BY <2>2, <2>3, <2>5
  <2>10. k.side # "base" => price = rate
    BY DEF price, RateOn
  <2>11. Priced(k, e, f)
    <3> HIDE DEF f, e
    <3>1. /\ p = e.pool
          /\ price = RateOn(k.side, rate)
          /\ rate = Rate(k.price)
      BY DEF p, price, rate
    <3> QED
      BY <2>5, <2>8, <2>9, <2>10, <3>1 DEF Priced
  <2> HIDE DEF f
  <2> QED
    BY <2>4, <2>5, <2>6, <2>7, <2>11
<1> QED
  BY <1>2, <1>3

\* The market maker is offered no more than there is, for what it has.
LEMMA QuoteTradeType ==
    ASSUME NEW q \in QuoteOffers, NEW offer \in Nat
    PROVE  LET t == QuoteTrade(q, offer)
           IN  /\ t \in Amounts /\ t.offer <= offer /\ t.bids <= q.total
               /\ q = NoQuote => t.bids = 0
<1> DEFINE worth == ToFloor(DecMul(FromRatio(offer, 1), q.price))
           part == ToFloor(DecDiv(FromRatio(q.total, 1), q.price))
<1>1. CASE q = NoQuote
  BY <1>1 DEF QuoteTrade, Amounts, NoQuote
<1>2. CASE q # NoQuote
  <2>1. q.price \in Nat \ {0} /\ q.total \in Nat /\ One \in Nat \ {0}
    BY <1>2, OneAssumption DEF QuoteOffers
  <2>2. QuoteTrade(q, offer) = IF q.total > worth THEN [offer |-> offer, bids |-> worth]
                               ELSE [offer |-> part, bids |-> q.total]
    BY <1>2 DEF QuoteTrade
  <2> DEFINE whole == offer * One
             x == whole * q.price
             y == x \div One
             owned == q.total * One
             z == (owned * One) \div q.price
  <2>3. whole \in Nat /\ owned \in Nat /\ whole \div 1 = whole /\ owned \div 1 = owned
    BY <2>1
  <2>4. worth = y \div One /\ part = z \div One
    BY <2>3 DEF ToFloor, DecMul, DecDiv, FromRatio
  <2> HIDE DEF worth, part, whole, owned
  <2>5. x \in Nat /\ owned * One \in Nat
    BY <2>1, <2>3
  <2> HIDE DEF x
  <2>6. y \in Nat /\ y * One <= x
    BY <2>1, <2>5, Divided
  <2> HIDE DEF y
  <2>7. worth \in Nat /\ worth * One <= y
    BY <2>1, <2>4, <2>6, Divided
  <2>8. z \in Nat
    BY <2>1, <2>5, Divided
  <2>9. part \in Nat
    <3> HIDE DEF z
    <3> QED
      BY <2>1, <2>4, <2>8, Divided
  <2>10. ASSUME q.total <= worth PROVE part <= offer
    <3>1. owned <= y
      <4>1. q.total * One <= worth * One
        BY <2>1, <2>7, <2>10
      <4>2. worth * One \in Nat /\ q.total * One \in Nat
        BY <2>1, <2>7
      <4> QED
        BY <2>6, <2>7, <4>1, <4>2 DEF owned
    <3>2. owned * One <= y * One
      BY <2>1, <2>3, <2>6, <3>1
    <3>3. owned * One <= whole * q.price
      <4>1. y * One \in Nat
        BY <2>1, <2>6
      <4> QED
        BY <2>5, <2>6, <3>2, <4>1 DEF x
    <3>4. z <= whole
      BY <2>1, <2>3, <2>5, <3>3, DividedAtMost
    <3> HIDE DEF z
    <3> QED
      BY <2>1, <2>4, <2>8, <3>4, DividedAtMost DEF whole
  <2> QED
    BY <2>1, <2>2, <2>7, <2>9, <2>10, <1>2 DEF Amounts
<1> QED
  BY <1>1, <1>2

LEMMA SplitType ==
    ASSUME NEW a \in Nat, NEW b \in Nat, a + b > 0, NEW offer \in Nat
    PROVE  Split(a, b, offer) \in 0 .. offer
<1>1. a + b \in Nat \ {0} /\ a * offer \in Nat
  OBVIOUS
<1>2. a * offer <= offer * (a + b)
  <2>1. offer * (a + b) = a * offer + offer * b /\ offer * b \in Nat
    OBVIOUS
  <2> QED
    BY <1>1, <2>1
<1> DEFINE n == a * offer
           c == a + b
<1> HIDE DEF n, c
<1>3. n \div c \in Nat
  BY <1>1, Divided DEF n, c
<1>4. n \div c <= offer
  BY <1>1, <1>2, DividedAtMost DEF n, c
<1> QED
  BY <1>3, <1>4 DEF Split, n, c

LEMMA KeysOfSide ==
    ASSUME NEW side, NEW kind, NEW k \in KeysOf(side, kind)
    PROVE  k \in Keys /\ k.side = side /\ k.price.kind = kind
BY DEF KeysOf

\* An item has up to two pools, of its side and not the same.
LEMMA PoolListFacts ==
    ASSUME NEW side, NEW p \in PoolLists(side)
    PROVE  /\ Len(p) \in 0 .. 2 /\ DOMAIN p = 1 .. Len(p)
           /\ Len(p) = 0 <=> p = <<>>
           /\ \A i \in DOMAIN p : p[i] \in Keys /\ p[i].side = side
           /\ \A i, j \in DOMAIN p : p[i] = p[j] => i = j
<1>1. CASE p = <<>>
  BY <1>1
<1>2. ASSUME NEW kind, p \in Singles(side, kind)
      PROVE  \E k \in Keys : k.side = side /\ p = <<k>>
  BY <1>2, KeysOfSide DEF Singles
<1>3. ASSUME p \in Pairs(side)
      PROVE  \E j, k \in Keys : j.side = side /\ k.side = side /\ j # k /\ p = <<j, k>>
  <2>1. PICK j \in KeysOf(side, "fixed"), k \in KeysOf(side, "oracle") : p = <<j, k>>
    BY <1>3 DEF Pairs
  <2>2. j \in Keys /\ k \in Keys /\ j.side = side /\ k.side = side /\ j # k
    BY KeysOfSide
  <2> QED
    BY <2>1, <2>2
<1>4. CASE \E k \in Keys : k.side = side /\ p = <<k>>
  <2>1. PICK k \in Keys : k.side = side /\ p = <<k>>
    BY <1>4
  <2>2. Len(p) = 1 /\ DOMAIN p = 1 .. 1 /\ p[1] = k /\ p # <<>>
    BY <2>1
  <2> QED
    BY <2>1, <2>2
<1>5. CASE \E j, k \in Keys : j.side = side /\ k.side = side /\ j # k /\ p = <<j, k>>
  <2>1. PICK j, k \in Keys : j.side = side /\ k.side = side /\ j # k /\ p = <<j, k>>
    BY <1>5
  <2>2. Len(p) = 2 /\ DOMAIN p = 1 .. 2 /\ p[1] = j /\ p[2] = k /\ p # <<>>
    BY <2>1
  <2>3. \A i \in 1 .. 2 : i = 1 \/ i = 2
    OBVIOUS
  <2> QED
    BY <2>1, <2>2, <2>3
<1>6. p = <<>> \/ (\E kind : p \in Singles(side, kind)) \/ p \in Pairs(side)
  BY DEF PoolLists, Filleds
<1> QED
  BY <1>1, <1>2, <1>3, <1>4, <1>5, <1>6

LEMMA ItemParts ==
    ASSUME NEW side, NEW item \in ItemsOf(side)
    PROVE  /\ item.rate \in Int /\ item.pools \in PoolLists(side)
           /\ item.quote \in QuoteOffers /\ item.quote.total \in Nat
           /\ item = [rate |-> item.rate, pools |-> item.pools, quote |-> item.quote]
<1>1. /\ item.rate \in Int /\ item.pools \in PoolLists(side) /\ item.quote \in QuoteOffers
      /\ item = [rate |-> item.rate, pools |-> item.pools, quote |-> item.quote]
  BY DEF ItemsOf, ItemsWith
<1>2. item.quote.total \in Nat
  BY <1>1 DEF QuoteOffers, NoQuote
<1> QED
  BY <1>1, <1>2

LEMMA TotalType ==
    ASSUME NEW b \in Books, NEW side, NEW item \in ItemsOf(side)
    PROVE  PoolsTotal(b, item) \in Nat /\ Total(b, item) \in Nat
<1> DEFINE p == item.pools
           Held(i) == IF i \in DOMAIN p THEN b[p[i]].pool.total ELSE 0
<1>1. ASSUME NEW i \in {1, 2} PROVE Held(i) \in Nat
  <2>1. CASE i \in DOMAIN p
    <3>1. p[i] \in Keys
      BY <2>1, ItemParts, PoolListFacts
    <3>2. b[p[i]].pool \in GoodPools
      BY <3>1 DEF Books
    <3> QED
      BY <2>1, <3>2, PoolParts
  <2> QED
    BY <2>1
<1>2. PoolsTotal(b, item) = Held(1) + Held(2)
  BY DEF PoolsTotal
<1>3. Held(1) \in Nat /\ Held(2) \in Nat
  <2> HIDE DEF Held
  <2> QED
    BY <1>1
<1> HIDE DEF Held
<1>4. PoolsTotal(b, item) \in Nat
  BY <1>2, <1>3
<1> QED
  BY <1>4, ItemParts DEF Total

LEMMA ForPoolsType ==
    ASSUME NEW b \in Books, NEW side, NEW item \in ItemsOf(side), NEW offer \in Nat,
           CanSplit(b, item)
    PROVE  ForPools(b, item, offer) \in 0 .. offer
<1>1. PoolsTotal(b, item) \in Nat /\ item.quote.total \in Nat
  BY TotalType, ItemParts
<1>2. CASE item.quote = NoQuote
  BY <1>2 DEF ForPools
<1>3. CASE item.quote # NoQuote /\ item.pools = <<>>
  BY <1>3 DEF ForPools
<1>4. CASE item.quote # NoQuote /\ item.pools # <<>>
  <2>1. PoolsTotal(b, item) + item.quote.total > 0
    BY <1>4 DEF CanSplit, Total
  <2>2. ForPools(b, item, offer) = Split(PoolsTotal(b, item), item.quote.total, offer)
    BY <1>4 DEF ForPools
  <2> QED
    BY <1>1, <2>1, <2>2, SplitType
<1> QED
  BY <1>2, <1>3, <1>4

\* The pools are offered what is for them, together.
LEMMA ForPoolType ==
    ASSUME NEW b \in Books, NEW side, NEW item \in ItemsOf(side), NEW offer \in Nat,
           CanSplit(b, item)
    PROVE  LET Part(i) == IF i \in DOMAIN item.pools THEN ForPool(b, item, i, offer) ELSE 0
           IN  /\ Part(1) \in Nat /\ Part(2) \in Nat
               /\ Part(1) + Part(2) <= ForPools(b, item, offer)
<1> DEFINE p == item.pools
           all == ForPools(b, item, offer)
           first == Split(b[p[1]].pool.total, b[p[2]].pool.total, all)
           Part(i) == IF i \in DOMAIN p THEN ForPool(b, item, i, offer) ELSE 0
<1>1. all \in Nat
  BY ForPoolsType
<1>2. /\ Len(p) \in 0 .. 2 /\ DOMAIN p = 1 .. Len(p)
      /\ \A i \in DOMAIN p : p[i] \in Keys
  BY ItemParts, PoolListFacts
<1>3. CASE Len(p) = 0
  <2>1. 1 \notin DOMAIN p /\ 2 \notin DOMAIN p
    BY <1>2, <1>3
  <2>2. Part(1) = 0 /\ Part(2) = 0
    BY <2>1
  <2> HIDE DEF Part
  <2> QED
    BY <1>1, <2>2 DEF Part
<1>4. CASE Len(p) = 1
  <2>1. 1 \in DOMAIN p /\ 2 \notin DOMAIN p
    BY <1>2, <1>4
  <2>2. ForPool(b, item, 1, offer) = all
    BY <1>4 DEF ForPool
  <2>3. Part(1) = all /\ Part(2) = 0
    BY <2>1, <2>2
  <2> HIDE DEF Part, all
  <2> QED
    BY <1>1, <2>3 DEF Part, all
<1>5. CASE Len(p) = 2
  <2>1. 1 \in DOMAIN p /\ 2 \in DOMAIN p
    BY <1>2, <1>5
  <2>2. ForPool(b, item, 1, offer) = first /\ ForPool(b, item, 2, offer) = all - first
    BY <1>5 DEF ForPool
  <2>3. b[p[1]].pool.total \in Nat /\ b[p[2]].pool.total \in Nat
    <3>1. b[p[1]].pool \in GoodPools /\ b[p[2]].pool \in GoodPools
      BY <1>2, <2>1 DEF Books
    <3> QED
      BY <3>1, PoolParts
  <2>4. b[p[1]].pool.total + b[p[2]].pool.total > 0
    BY <1>5, <2>1 DEF CanSplit, PoolsTotal
  <2>5. first \in 0 .. all
    <3> HIDE DEF all
    <3> QED
      BY <1>1, <2>3, <2>4, SplitType
  <2>6. Part(1) = first /\ Part(2) = all - first
    BY <2>1, <2>2
  <2> HIDE DEF first, Part, all
  <2>7. Part(1) \in Nat /\ Part(2) \in Nat /\ Part(1) + Part(2) <= all
    BY <1>1, <2>5, <2>6
  <2> QED
    BY <2>7 DEF Part, all
<1>6. Len(p) = 0 \/ Len(p) = 1 \/ Len(p) = 2
  BY <1>2
<1> QED
  BY <1>3, <1>4, <1>5, <1>6

\* What Outcome makes of trades with an item's pools and its quote.
LEMMA OutcomeType ==
    ASSUME oracle \in Nat, NEW b \in Books, NEW side, NEW item \in ItemsOf(side),
           NEW pools, DOMAIN pools = DOMAIN item.pools,
           \A i \in DOMAIN pools :
               /\ pools[i].offer \in Nat /\ pools[i].bids \in Nat /\ pools[i].entry \in Entries
               /\ pools[i].entry # b[item.pools[i]] =>
                      Priced(item.pools[i], b[item.pools[i]], pools[i].entry),
           NEW quote \in Amounts, quote.bids <= item.quote.total,
           item.quote = NoQuote => quote.bids = 0
    PROVE  LET t == Outcome(b, item, pools, quote)
           IN  /\ t.bids \in Nat
               /\ t.book \in Books
               /\ t.item \in ItemsOf(side)
               /\ t.maker = quote
               /\ \A k \in Keys : t.book[k] # b[k] =>
                      k.side = side /\ Priced(k, b[k], t.book[k])
<1> DEFINE p == item.pools
           t == Outcome(b, item, pools, quote)
           At(k) == CHOOSE i \in DOMAIN pools : p[i] = k
           Given(i) == IF i \in DOMAIN pools THEN pools[i].bids ELSE 0
           Kept(k) == ~ \E i \in DOMAIN pools : p[i] = k
           after == [k \in DOMAIN b |->
                        IF \E i \in DOMAIN pools : p[i] = k THEN pools[At(k)].entry ELSE b[k]]
           left == [item EXCEPT !.quote.total = @ - quote.bids]
<1>1. t.bids = Given(1) + Given(2) + quote.bids /\ t.book = after /\ t.item = left
      /\ t.maker = quote
  BY DEF Outcome
<1>2. DOMAIN b = Keys /\ (\A k \in Keys : b[k] \in Entries)
  BY DEF Books, Entries
<1>3. \A i \in DOMAIN p : p[i] \in Keys /\ p[i].side = side
  BY ItemParts, PoolListFacts
<1>4. t.bids \in Nat
  <2>1. ASSUME NEW i PROVE Given(i) \in Nat
    OBVIOUS
  <2>2. Given(1) \in Nat /\ Given(2) \in Nat /\ quote.bids \in Nat
    <3> HIDE DEF Given
    <3> QED
      BY <2>1 DEF Amounts
  <2> HIDE DEF Given, t
  <2>3. Given(1) + Given(2) + quote.bids \in Nat
    BY <2>2
  <2> QED
    BY <1>1, <2>3
<1>5. ASSUME NEW k \in Keys
      PROVE  /\ after[k] \in Entries
             /\ after[k] # b[k] => k.side = side /\ Priced(k, b[k], after[k])
  <2>1. CASE Kept(k)
    <3>1. after[k] = b[k]
      BY <1>2, <2>1
    <3> HIDE DEF after
    <3> QED
      BY <1>2, <3>1
  <2>2. CASE ~ Kept(k)
    <3> DEFINE i == At(k)
    <3>1. i \in DOMAIN pools /\ p[i] = k
      BY <2>2
    <3>2. after[k] = pools[i].entry
      BY <1>2, <2>2
    <3> HIDE DEF i, after
    <3>3. /\ pools[i].entry \in Entries
          /\ pools[i].entry # b[k] => Priced(k, b[k], pools[i].entry)
      BY <3>1
    <3>4. k.side = side
      BY <1>3, <3>1
    <3> QED
      BY <3>2, <3>3, <3>4
  <2> QED
    BY <2>1, <2>2
<1>6. after \in Books
  <2> DEFINE R(k) == IF \E i \in DOMAIN pools : p[i] = k THEN pools[At(k)].entry ELSE b[k]
  <2>1. after = [k \in Keys |-> R(k)]
    BY <1>2
  <2>2. ASSUME NEW k \in Keys PROVE R(k) \in Entries
    <3>1. after[k] = R(k)
      BY <2>1
    <3> HIDE DEF R, after
    <3> QED
      BY <1>5, <3>1
  <2> HIDE DEF R, after
  <2> QED
    BY <2>1, <2>2 DEF Books, Entries
<1>7. left \in ItemsOf(side)
  <2> DEFINE q == item.quote
             r == [q EXCEPT !.total = @ - quote.bids]
  <2>1. /\ item.rate \in Int /\ p \in PoolLists(side) /\ q \in QuoteOffers /\ q.total \in Nat
        /\ item = [rate |-> item.rate, pools |-> p, quote |-> q]
    BY ItemParts
  <2>2. left = [rate |-> item.rate, pools |-> p, quote |-> r]
    BY <2>1
  <2>3. quote.bids \in Nat
    BY DEF Amounts
  <2>4. r \in QuoteOffers
    <3>1. CASE q = NoQuote
      <4>1. r = NoQuote
        BY <2>3, <3>1 DEF NoQuote
      <4> QED
        BY <4>1 DEF QuoteOffers
    <3>2. CASE q # NoQuote
      <4>1. q \in [price : Nat \ {0}, total : Nat]
        BY <2>1, <3>2 DEF QuoteOffers
      <4>2. q.total - quote.bids \in Nat
        BY <2>1, <2>3
      <4> HIDE DEF q
      <4>3. r \in [price : Nat \ {0}, total : Nat]
        BY <4>1, <4>2
      <4> HIDE DEF r
      <4> QED
        BY <4>3 DEF QuoteOffers
    <3> QED
      BY <3>1, <3>2
  <2> HIDE DEF p, r, left
  <2> QED
    BY <2>1, <2>2, <2>4 DEF ItemsOf, ItemsWith, p
<1> HIDE DEF t, after, left
<1>8. \A k \in Keys : t.book[k] # b[k] => k.side = side /\ Priced(k, b[k], t.book[k])
  BY <1>1, <1>5
<1> QED
  BY <1>1, <1>4, <1>6, <1>7, <1>8 DEF t

\* A trade with an item, whatever is offered.
LEMMA TradeType ==
    ASSUME oracle \in Nat, NEW b \in Books, NEW side, NEW item \in ItemsOf(side),
           NEW offer \in Nat, CanTrade(b, item, offer)
    PROVE  LET t == Trade(b, item, offer)
           IN  /\ t.offer \in 0 .. offer
               /\ t.bids \in Nat
               /\ t.book \in Books
               /\ t.item \in ItemsOf(side)
               /\ t.maker \in Amounts
               /\ \A k \in Keys : t.book[k] # b[k] =>
                      k.side = side /\ Priced(k, b[k], t.book[k])
<1> DEFINE p == item.pools
           all == ForPools(b, item, offer)
           pools == [i \in DOMAIN p |-> PoolTrade(b, p[i], ForPool(b, item, i, offer))]
           quote == QuoteTrade(item.quote, offer - all)
           Part(i) == IF i \in DOMAIN p THEN ForPool(b, item, i, offer) ELSE 0
           Paid(i) == IF i \in DOMAIN pools THEN pools[i].offer ELSE 0
           t == Outcome(b, item, pools, quote)
<1>1. CanSplit(b, item) /\ \A i \in DOMAIN p : CanPoolTrade(b, p[i], ForPool(b, item, i, offer))
  BY DEF CanTrade
<1>2. all \in 0 .. offer
  BY <1>1, ForPoolsType
<1>3. Part(1) \in Nat /\ Part(2) \in Nat /\ Part(1) + Part(2) <= all
  BY <1>1, ForPoolType
<1>4. /\ Len(p) \in 0 .. 2 /\ DOMAIN p = 1 .. Len(p)
      /\ \A i \in DOMAIN p : p[i] \in Keys
  BY ItemParts, PoolListFacts
<1>5. ASSUME NEW i \in DOMAIN p
      PROVE  /\ pools[i].offer \in 0 .. Part(i)
             /\ pools[i].bids \in Nat /\ pools[i].entry \in Entries
             /\ pools[i].entry # b[p[i]] => Priced(p[i], b[p[i]], pools[i].entry)
  <2> DEFINE n == ForPool(b, item, i, offer)
             k == p[i]
  <2>1. pools[i] = PoolTrade(b, k, n) /\ Part(i) = n
    OBVIOUS
  <2>2. i = 1 \/ i = 2
    BY <1>4
  <2>3. Part(i) \in Nat
    <3> HIDE DEF Part
    <3> QED
      BY <1>3, <2>2
  <2>4. k \in Keys /\ CanPoolTrade(b, k, n)
    BY <1>1, <1>4
  <2> HIDE DEF pools, Part, n, k
  <2>5. n \in Nat
    BY <2>1, <2>3
  <2> DEFINE u == PoolTrade(b, k, n)
  <2>6. /\ u.offer \in 0 .. n /\ u.bids \in Nat /\ u.entry \in Entries
        /\ u.entry # b[k] => Priced(k, b[k], u.entry)
    BY <2>4, <2>5, PoolTradeType
  <2> HIDE DEF u
  <2> QED
    BY <2>1, <2>6 DEF u, k
<1>6. item.quote \in QuoteOffers
  BY ItemParts
<1>7. /\ quote \in Amounts /\ quote.offer <= offer - all /\ quote.bids <= item.quote.total
      /\ item.quote = NoQuote => quote.bids = 0
  <2> DEFINE n == offer - all
  <2>1. n \in Nat
    BY <1>2
  <2> HIDE DEF n
  <2> QED
    BY <1>6, <2>1, QuoteTradeType DEF n
<1>8. Trade(b, item, offer) = t
  BY DEF Trade
<1>9. DOMAIN pools = DOMAIN p
  OBVIOUS
<1>10. t.offer = Paid(1) + Paid(2) + quote.offer
  BY DEF Outcome
<1>11. ASSUME NEW i \in {1, 2} PROVE Paid(i) \in 0 .. Part(i)
  <2>1. CASE i \in DOMAIN p
    <3>1. Paid(i) = pools[i].offer
      BY <2>1
    <3> HIDE DEF Paid, pools, Part
    <3> QED
      BY <1>5, <2>1, <3>1
  <2>2. CASE i \notin DOMAIN p
    BY <2>2
  <2> QED
    BY <2>1, <2>2
<1> HIDE DEF t, pools, quote, Part, Paid, all
<1>12. t.offer \in 0 .. offer
  <2>1. quote.offer \in Nat
    BY <1>7 DEF Amounts
  <2>2. Paid(1) \in 0 .. Part(1) /\ Paid(2) \in 0 .. Part(2)
    BY <1>11
  <2> QED
    BY <1>2, <1>3, <1>7, <1>10, <2>1, <2>2
<1>13. \A i \in DOMAIN pools : pools[i].offer \in Nat
  <2> SUFFICES ASSUME NEW i \in DOMAIN pools PROVE pools[i].offer \in Nat
    OBVIOUS
  <2>1. pools[i].offer \in 0 .. Part(i)
    BY <1>5, <1>9
  <2>2. Part(i) \in Nat
    <3>1. i = 1 \/ i = 2
      BY <1>4, <1>9
    <3> QED
      BY <1>3, <3>1
  <2> QED
    BY <2>1, <2>2
<1>14. \A i \in DOMAIN pools :
           /\ pools[i].offer \in Nat /\ pools[i].bids \in Nat /\ pools[i].entry \in Entries
           /\ pools[i].entry # b[item.pools[i]] =>
                  Priced(item.pools[i], b[item.pools[i]], pools[i].entry)
  BY <1>5, <1>9, <1>13
<1>15. DOMAIN pools = DOMAIN item.pools
  BY <1>9
<1>16. /\ t.bids \in Nat
       /\ t.book \in Books
       /\ t.item \in ItemsOf(side)
       /\ t.maker = quote
       /\ \A k \in Keys : t.book[k] # b[k] =>
              k.side = side /\ Priced(k, b[k], t.book[k])
  BY <1>7, <1>14, <1>15, OutcomeType DEF t
<1> QED
  BY <1>7, <1>8, <1>12, <1>16

-----------------------------------------------------------------------------
(* What a trade leaves of an item                                          *)

\* The quote of an item is no worse than what its pools give.
QuoteAtRate(side, item) ==
    item.quote # NoQuote => RateOn(side, item.rate) <= item.quote.price

\* A pool that is used up was offered what it is worth.
LEMMA UsedUp ==
    ASSUME NEW p \in GoodPools, p.total > 0, NEW offer \in Nat, NEW rate \in Nat,
           Filled(p, offer, rate).pool.total = 0
    PROVE  p.total * One <= offer * rate
<1> DEFINE w == (offer * rate) \div One
<1>1. One \in Nat \ {0} /\ offer * rate \in Nat /\ p.total \in Nat
  BY OneAssumption, PoolParts
<1>2. w \in Nat /\ w * One <= offer * rate
  BY <1>1, Divided
<1>3. Worth(offer, rate) = w
  BY DEF Worth
<1> HIDE DEF w
<1>4. w >= p.total
  <2> SUFFICES ASSUME ~ (w >= p.total) PROVE FALSE
    OBVIOUS
  <2>1. Filled(p, offer, rate) = Partial(p, offer, w)
    BY <1>3 DEF Filled
  <2>2. Filled(p, offer, rate).pool.total = p.total - w
    BY <2>1 DEF Partial
  <2> QED
    BY <1>1, <1>2, <2>2
<1>5. p.total * One <= w * One
  BY <1>1, <1>2, <1>4
<1> DEFINE a == p.total * One
           c == w * One
           d == offer * rate
<1>6. a \in Nat /\ c \in Nat /\ d \in Nat
  BY <1>1, <1>2
<1>7. a <= c /\ c <= d
  BY <1>2, <1>5
<1> HIDE DEF a, c, d
<1>8. a <= d
  BY <1>6, <1>7
<1> QED
  BY <1>8 DEF a, d

LEMMA PoolUsedUp ==
    ASSUME oracle \in Nat, NEW b \in Books, NEW k \in Keys, NEW offer \in Nat,
           CanPoolTrade(b, k, offer), NEW rate \in Nat, rate = RateOn(k.side, Rate(k.price)),
           PoolTrade(b, k, offer).entry.pool.total = 0
    PROVE  b[k].pool.total * One <= offer * rate
<1> DEFINE p == b[k].pool
<1>1. p \in GoodPools /\ p.total \in Nat /\ One \in Nat
  BY PoolParts, OneAssumption DEF Books
<1>2. CASE p.total = 0
  <2>1. 0 * One = 0 /\ offer * rate >= 0
    BY <1>1
  <2> QED
    BY <1>2, <2>1
<1>3. CASE p.total # 0 /\ offer = 0
  BY <1>3 DEF PoolTrade
<1>4. CASE p.total # 0 /\ offer # 0
  <2>1. PoolTrade(b, k, offer).entry.pool = Filled(p, offer, rate).pool
    BY <1>4 DEF PoolTrade, Entered
  <2> HIDE DEF p
  <2> QED
    BY <1>1, <1>4, <2>1, UsedUp DEF p
<1> QED
  BY <1>2, <1>3, <1>4

\* When what is for the pools is worth all of them, what is for the quote is
\* worth the quote.
LEMMA BothUsedUp ==
    ASSUME NEW total \in Nat \ {0}, NEW quote \in Nat, NEW offer \in Nat, NEW rate \in Nat,
           NEW all \in Nat, all = Split(total, quote, offer), total * One <= all * rate,
           NEW price \in Nat, rate <= price
    PROVE  (offer - all) * price >= quote * One
<1> DEFINE s == total + quote
           a == total * offer
           rest == offer - all
<1>1. s \in Nat \ {0} /\ a \in Nat /\ One \in Nat \ {0}
  BY OneAssumption
<1>2. all * s <= a
  <2> HIDE DEF s, a
  <2>1. all = a \div s
    BY DEF Split, a, s
  <2> QED
    BY <1>1, <2>1, Divided
<1>3. all \in 0 .. offer /\ rest \in Nat
  <2>1. all \in 0 .. offer
    BY SplitType
  <2> QED
    BY <2>1
<1>4. rest * s >= quote * offer
  <2> DEFINE x == offer * s
             y == all * s
             z == quote * offer
  <2>1. rest * s = x - y /\ x = a + z
    BY <1>1
  <2>2. x \in Nat /\ y \in Nat /\ z \in Nat
    BY <1>1
  <2>3. y <= a
    BY <1>2
  <2> HIDE DEF rest, s, x, y, z, a
  <2>4. x - y >= z
    BY <1>1, <2>1, <2>2, <2>3
  <2> QED
    BY <2>1, <2>4 DEF z
<1>5. s * One <= offer * rate
  <2> SUFFICES ASSUME offer * rate < s * One PROVE FALSE
    <3> DEFINE x == offer * rate
               y == s * One
    <3>1. x \in Nat /\ y \in Nat
      BY <1>1
    <3> HIDE DEF x, y
    <3>2. ~ (x < y) => y <= x
      BY <3>1
    <3> QED
      BY <3>2 DEF x, y
  <2> DEFINE x == offer * rate
             y == s * One
             c == total * One
             d == all * rate
  <2>1. x \in Nat /\ y \in Nat /\ c \in Nat /\ d \in Nat
    BY <1>1
  <2>2. total * x < total * y
    <3>1. x < y
      OBVIOUS
    <3> HIDE DEF x, y
    <3> QED
      BY <2>1, <3>1
  <2>3. c * s <= d * s
    <3>1. c <= d
      OBVIOUS
    <3> HIDE DEF c, d, s
    <3> QED
      BY <1>1, <2>1, <3>1
  <2>4. (all * s) * rate <= a * rate
    <3> DEFINE u == all * s
    <3>1. u \in Nat /\ u <= a
      BY <1>1, <1>2
    <3> HIDE DEF u, a
    <3>2. u * rate <= a * rate
      BY <1>1, <3>1
    <3> QED
      BY <3>2 DEF u, a
  <2>5. c * s = total * y /\ d * s = (all * s) * rate /\ a * rate = total * x
    BY <1>1
  <2> DEFINE u == total * x
             v == total * y
             m == (all * s) * rate
  <2>6. u \in Nat /\ v \in Nat /\ m \in Nat
    BY <1>1, <2>1
  <2>7. u < v /\ v <= m /\ m <= u
    BY <2>2, <2>3, <2>4, <2>5
  <2> HIDE DEF u, v, m
  <2> QED
    BY <2>6, <2>7
<1>6. rest * rate >= quote * One
  <2> SUFFICES ASSUME rest * rate < quote * One PROVE FALSE
    <3> DEFINE x == rest * rate
               y == quote * One
    <3>1. x \in Nat /\ y \in Nat
      BY <1>1, <1>3
    <3> HIDE DEF x, y, rest
    <3>2. ~ (x < y) => x >= y
      BY <3>1
    <3> QED
      BY <3>2 DEF x, y
  <2> HIDE DEF rest, s
  <2> DEFINE x == rest * rate
             y == quote * One
             c == rest * s
             d == quote * offer
             e == s * One
             f == offer * rate
  <2>1. /\ x \in Nat /\ y \in Nat /\ c \in Nat /\ d \in Nat /\ e \in Nat /\ f \in Nat
    BY <1>1, <1>3
  <2>2. x * s < y * s
    <3>1. x < y
      OBVIOUS
    <3> HIDE DEF x, y
    <3> QED
      BY <1>1, <2>1, <3>1
  <2>3. d * rate <= c * rate
    <3>1. d <= c
      BY <1>4
    <3> HIDE DEF c, d
    <3> QED
      BY <2>1, <3>1
  <2>4. quote * e <= quote * f
    <3>1. e <= f
      BY <1>5
    <3> HIDE DEF e, f
    <3> QED
      BY <2>1, <3>1
  <2>5. x * s = c * rate /\ y * s = quote * e /\ d * rate = quote * f
    BY <1>1, <1>3
  <2> DEFINE u == c * rate
             v == quote * e
             m == quote * f
  <2>6. u \in Nat /\ v \in Nat /\ m \in Nat
    BY <2>1
  <2>7. u < v /\ m <= u /\ v <= m
    BY <2>2, <2>3, <2>4, <2>5
  <2> HIDE DEF u, v, m
  <2> QED
    BY <2>6, <2>7
<1>7. rest * price >= rest * rate
  <2> HIDE DEF rest
  <2> QED
    BY <1>3
<1> DEFINE x == rest * price
           y == rest * rate
           z == quote * One
<1>8. x \in Nat /\ y \in Nat /\ z \in Nat
  BY <1>1, <1>3
<1>9. x >= y /\ y >= z
  BY <1>6, <1>7
<1> HIDE DEF x, y, z, rest
<1>10. x >= z
  BY <1>8, <1>9
<1> QED
  BY <1>10 DEF x, z, rest

\* A quote that is offered what it is worth is used up.
LEMMA QuoteUsedUp ==
    ASSUME NEW q \in QuoteOffers, q # NoQuote, NEW offer \in Nat,
           offer * q.price >= q.total * One
    PROVE  QuoteTrade(q, offer).bids = q.total
<1> DEFINE worth == ToFloor(DecMul(FromRatio(offer, 1), q.price))
           x == offer * q.price
           whole == offer * One
<1>1. q.price \in Nat \ {0} /\ q.total \in Nat /\ One \in Nat \ {0}
  BY OneAssumption DEF QuoteOffers
<1>2. x \in Nat /\ whole \in Nat /\ whole \div 1 = whole
  BY <1>1
<1>3. worth = ((whole * q.price) \div One) \div One
  BY <1>2 DEF ToFloor, DecMul, FromRatio
<1>4. (whole * q.price) \div One = x
  <2>1. whole * q.price = x * One
    BY <1>1
  <2> HIDE DEF whole, x
  <2>2. (x * One) \div One = x
    BY <1>1, <1>2
  <2> QED
    BY <2>1, <2>2
<1>5. worth = x \div One
  BY <1>3, <1>4
<1> HIDE DEF worth, x, whole
<1>6. q.total * One <= x
  BY DEF x
<1>7. q.total <= worth
  BY <1>1, <1>2, <1>5, <1>6, DividedAtLeast
<1>8. worth \in Nat
  BY <1>1, <1>2, <1>5, Divided
<1>9. QuoteTrade(q, offer) =
          IF q.total > worth THEN [offer |-> offer, bids |-> worth]
          ELSE [offer |-> ToFloor(DecDiv(FromRatio(q.total, 1), q.price)), bids |-> q.total]
  BY DEF QuoteTrade, worth
<1> QED
  BY <1>1, <1>7, <1>8, <1>9

\* A trade changes the item's pools and takes from its quote.
LEMMA TradeParts ==
    ASSUME NEW b \in Books, NEW side, NEW item \in ItemsOf(side), NEW offer \in Nat
    PROVE  LET t == Trade(b, item, offer)
               q == QuoteTrade(item.quote, offer - ForPools(b, item, offer))
           IN  /\ \A k \in Keys : t.book[k] # b[k] => k \in Uses(item)
               /\ \A i \in DOMAIN item.pools :
                      t.book[item.pools[i]] =
                          PoolTrade(b, item.pools[i], ForPool(b, item, i, offer)).entry
               /\ t.item.rate = item.rate /\ t.item.pools = item.pools
               /\ t.item.quote.price = item.quote.price
               /\ t.item.quote.total = item.quote.total - q.bids
<1> DEFINE p == item.pools
           pools == [i \in DOMAIN p |-> PoolTrade(b, p[i], ForPool(b, item, i, offer))]
           q == QuoteTrade(item.quote, offer - ForPools(b, item, offer))
           t == Trade(b, item, offer)
           At(k) == CHOOSE i \in DOMAIN pools : p[i] = k
           after == [k \in DOMAIN b |->
                        IF \E i \in DOMAIN pools : p[i] = k THEN pools[At(k)].entry ELSE b[k]]
<1>1. t.book = after /\ t.item = [item EXCEPT !.quote.total = @ - q.bids]
  BY DEF Trade, Outcome
<1>2. DOMAIN pools = DOMAIN p /\ DOMAIN b = Keys
  BY DEF Books
<1>3. ASSUME NEW k \in Keys, after[k] # b[k] PROVE k \in Uses(item)
  BY <1>2, <1>3 DEF Uses
<1>4. ASSUME NEW i \in DOMAIN p
      PROVE  after[p[i]] = PoolTrade(b, p[i], ForPool(b, item, i, offer)).entry
  <2> DEFINE k == p[i]
  <2>1. k \in Keys /\ \A j \in DOMAIN p : p[j] = k => j = i
    BY ItemParts, PoolListFacts
  <2>2. At(k) = i
    <3> HIDE DEF pools
    <3> QED
      BY <1>2, <2>1
  <2>3. after[k] = pools[At(k)].entry
    <3> HIDE DEF At
    <3> QED
      BY <1>2, <2>1
  <2> HIDE DEF At, after
  <2>4. after[k] = pools[i].entry
    BY <2>2, <2>3
  <2> QED
    BY <2>4
<1>5. /\ t.item.rate = item.rate /\ t.item.pools = item.pools
      /\ t.item.quote.price = item.quote.price
      /\ t.item.quote.total = item.quote.total - q.bids
  <2> DEFINE v == item.quote
             w == [v EXCEPT !.total = @ - q.bids]
  <2>1. /\ item = [rate |-> item.rate, pools |-> p, quote |-> v]
        /\ v \in QuoteOffers
    BY ItemParts
  <2>2. t.item = [item EXCEPT !.quote = w]
    BY <1>1
  <2>3. v = [price |-> v.price, total |-> v.total]
    BY <2>1 DEF QuoteOffers, NoQuote
  <2> HIDE DEF q, v, t, p
  <2>4. w.price = v.price /\ w.total = v.total - q.bids
    BY <2>3
  <2> HIDE DEF w
  <2>5. t.item.rate = item.rate /\ t.item.pools = p /\ t.item.quote = w
    BY <2>1, <2>2
  <2> QED
    BY <2>4, <2>5 DEF v, p
<1> HIDE DEF t, after
<1> QED
  BY <1>1, <1>3, <1>4, <1>5 DEF t

LEMMA TradeKeeps ==
    ASSUME NEW b \in Books, NEW side, NEW item \in ItemsOf(side), NEW offer \in Nat,
           CanSplit(b, item)
    PROVE  LET left == Trade(b, item, offer).item
           IN  /\ Uses(left) = Uses(item)
               /\ left.quote = NoQuote <=> item.quote = NoQuote
               /\ QuoteAtRate(side, left) => QuoteAtRate(side, item)
               /\ Fits(side, item) => Fits(side, left)
<1> DEFINE left == Trade(b, item, offer).item
           n == offer - ForPools(b, item, offer)
           q == QuoteTrade(item.quote, n)
<1>1. /\ left.rate = item.rate /\ left.pools = item.pools
      /\ left.quote.price = item.quote.price
      /\ left.quote.total = item.quote.total - q.bids
  BY TradeParts
<1>2. n \in Nat
  <2>1. ForPools(b, item, offer) \in 0 .. offer
    BY ForPoolsType
  <2> QED
    BY <2>1
<1>3. item.quote \in QuoteOffers /\ (item.quote = NoQuote => q.bids = 0)
  <2> HIDE DEF n
  <2> QED
    BY <1>2, ItemParts, QuoteTradeType
<1>4. left.quote = [item.quote EXCEPT !.total = @ - q.bids]
  <2>1. left = [item EXCEPT !.quote.total = @ - q.bids]
    BY DEF Trade, Outcome
  <2>2. item = [rate |-> item.rate, pools |-> item.pools, quote |-> item.quote]
    BY ItemParts
  <2> HIDE DEF left, q
  <2> QED
    BY <2>1, <2>2
<1> HIDE DEF left, q
<1>5. left.quote = NoQuote <=> item.quote = NoQuote
  <2>1. CASE item.quote = NoQuote
    BY <1>3, <1>4, <2>1 DEF NoQuote
  <2>2. CASE item.quote # NoQuote
    <3>1. item.quote.price # 0
      BY <1>3, <2>2 DEF QuoteOffers
    <3>2. NoQuote.price = 0
      BY DEF NoQuote
    <3> QED
      BY <1>1, <2>2, <3>1, <3>2
  <2> QED
    BY <2>1, <2>2
<1>6. Uses(left) = Uses(item)
  BY <1>1 DEF Uses
<1>7. QuoteAtRate(side, left) => QuoteAtRate(side, item)
  BY <1>1, <1>5 DEF QuoteAtRate
<1>8. Fits(side, item) => Fits(side, left)
  BY <1>1, <1>5, <1>6 DEF Fits
<1> QED
  BY <1>5, <1>6, <1>7, <1>8 DEF left

LEMMA UsedRate ==
    ASSUME oracle \in Nat, NEW b \in Books, NEW k \in Keys, NEW offer \in Nat,
           CanPoolTrade(b, k, offer), b[k].pool.total > 0,
           PoolTrade(b, k, offer).entry.pool.total = 0
    PROVE  RateOn(k.side, Rate(k.price)) \in Nat
<1>1. offer > 0
  <2>1. b[k].pool.total \in Nat
    BY PoolParts DEF Books
  <2>2. offer # 0
    BY <2>1 DEF PoolTrade
  <2> QED
    BY <2>2
<1>2. Rate(k.price) \in Nat
  BY RateType DEF Keys
<1>3. CASE k.side = "base"
  <2>1. Rate(k.price) > 0
    BY <1>1, <1>3 DEF CanPoolTrade
  <2> DEFINE rate == Rate(k.price)
  <2> HIDE DEF rate
  <2>2. rate \in Nat \ {0}
    BY <1>2, <2>1 DEF rate
  <2> QED
    BY <1>3, <2>2, InvType DEF RateOn, rate
<1>4. CASE k.side # "base"
  BY <1>2, <1>4 DEF RateOn
<1> QED
  BY <1>3, <1>4

LEMMA PairTotal ==
    ASSUME NEW b \in Books, NEW side, NEW item \in ItemsOf(side), Len(item.pools) = 2
    PROVE  LET j == item.pools[1]
               k == item.pools[2]
           IN  /\ 1 \in DOMAIN item.pools /\ 2 \in DOMAIN item.pools
               /\ j \in Keys /\ k \in Keys /\ j.side = side /\ k.side = side
               /\ b[j].pool.total \in Nat /\ b[k].pool.total \in Nat
               /\ PoolsTotal(b, item) = b[j].pool.total + b[k].pool.total
<1> DEFINE j == item.pools[1]
           k == item.pools[2]
<1>1. DOMAIN item.pools = 1 .. 2
      /\ \A i \in DOMAIN item.pools : item.pools[i] \in Keys /\ item.pools[i].side = side
  BY ItemParts, PoolListFacts
<1>2. 1 \in DOMAIN item.pools /\ 2 \in DOMAIN item.pools
  BY <1>1
<1>3. j \in Keys /\ k \in Keys /\ j.side = side /\ k.side = side
  BY <1>1, <1>2
<1>4. PoolsTotal(b, item) = b[j].pool.total + b[k].pool.total
  BY <1>2 DEF PoolsTotal
<1> HIDE DEF j, k
<1>5. b[j].pool \in GoodPools /\ b[k].pool \in GoodPools
  BY <1>3 DEF Books
<1> QED
  BY <1>2, <1>3, <1>4, <1>5, PoolParts DEF j, k

\* The pools of an item are not used up before its quote.
LEMMA QuoteFirst ==
    ASSUME oracle \in Nat, NEW b \in Books, NEW side, NEW item \in ItemsOf(side),
           NEW offer \in Nat, CanTrade(b, item, offer), Len(item.pools) = 2,
           Fits(side, item), QuoteAtRate(side, item), item.quote # NoQuote,
           PoolsTotal(Trade(b, item, offer).book, item) = 0
    PROVE  Trade(b, item, offer).item.quote.total = 0
<1> DEFINE j == item.pools[1]
           k == item.pools[2]
           t == Trade(b, item, offer)
           all == ForPools(b, item, offer)
           x == ForPool(b, item, 1, offer)
           y == ForPool(b, item, 2, offer)
           r == RateOn(side, item.rate)
           v == b[j].pool.total
           w == b[k].pool.total
           q == item.quote
<1>1. CanSplit(b, item) /\ CanPoolTrade(b, j, x) /\ CanPoolTrade(b, k, y)
  BY PairTotal DEF CanTrade
<1>2. /\ j \in Keys /\ k \in Keys /\ j.side = side /\ k.side = side
      /\ 1 \in DOMAIN item.pools /\ 2 \in DOMAIN item.pools
      /\ v \in Nat /\ w \in Nat /\ PoolsTotal(b, item) = v + w
  BY PairTotal
<1>3. v + w > 0
  BY <1>1, <1>2 DEF CanSplit
<1>4. all \in 0 .. offer /\ all \in Nat
  <2>1. all \in 0 .. offer
    BY <1>1, ForPoolsType
  <2> QED
    BY <2>1
<1>5. x \in Nat /\ y \in Nat /\ x + y = all
  <2> DEFINE first == Split(v, w, all)
  <2>1. x = first /\ y = all - first
    BY DEF ForPool
  <2>2. first \in 0 .. all
    <3> HIDE DEF v, w, all
    <3> QED
      BY <1>2, <1>3, <1>4, SplitType
  <2> HIDE DEF first, x, y, all
  <2> QED
    BY <1>4, <2>1, <2>2
<1>6. RateOn(j.side, Rate(j.price)) = r /\ RateOn(k.side, Rate(k.price)) = r
  BY <1>2 DEF Fits, Uses
<1>7. PoolTrade(b, j, x).entry.pool.total = 0 /\ PoolTrade(b, k, y).entry.pool.total = 0
  <2>1. t.book \in Books
    BY TradeType
  <2>2. t.book[j] = PoolTrade(b, j, x).entry /\ t.book[k] = PoolTrade(b, k, y).entry
    BY <1>2, TradeParts
  <2> HIDE DEF t
  <2>3. /\ t.book[j].pool.total \in Nat /\ t.book[k].pool.total \in Nat
        /\ PoolsTotal(t.book, item) = t.book[j].pool.total + t.book[k].pool.total
    BY <2>1, PairTotal
  <2> HIDE DEF j, k
  <2>4. t.book[j].pool.total = 0 /\ t.book[k].pool.total = 0
    BY <2>3 DEF t
  <2> HIDE DEF x, y
  <2> QED
    BY <2>2, <2>4
<1> HIDE DEF x, y, r
<1>8. r \in Nat
  <2>1. CASE v > 0
    BY <1>1, <1>2, <1>5, <1>6, <1>7, <2>1, UsedRate
  <2>2. CASE w > 0
    BY <1>1, <1>2, <1>5, <1>6, <1>7, <2>2, UsedRate
  <2> HIDE DEF v, w
  <2>3. v > 0 \/ w > 0
    BY <1>2, <1>3
  <2> QED
    BY <2>1, <2>2, <2>3
<1>9. v * One <= x * r /\ w * One <= y * r
  BY <1>1, <1>2, <1>5, <1>6, <1>7, <1>8, PoolUsedUp
<1>10. q \in QuoteOffers /\ q.price \in Nat /\ q.total \in Nat /\ r <= q.price
  <2>1. q \in QuoteOffers /\ q.total \in Nat
    BY ItemParts
  <2> QED
    BY <2>1 DEF QuoteOffers, QuoteAtRate, r
<1>11. all = Split(v + w, q.total, offer)
  <2>1. item.pools # <<>>
    BY <1>2
  <2> QED
    BY <1>2, <2>1 DEF ForPools
<1> HIDE DEF v, w, all, q, j, k, t
<1>12. (v + w) * One <= all * r
  <2> DEFINE c == v * One
             d == w * One
             e == x * r
             f == y * r
  <2>1. c \in Nat /\ d \in Nat /\ e \in Nat /\ f \in Nat
    BY <1>2, <1>5, <1>8, OneAssumption
  <2>2. c <= e /\ d <= f
    BY <1>9
  <2>3. (v + w) * One = c + d /\ all * r = e + f
    BY <1>2, <1>5, <1>8, OneAssumption
  <2> HIDE DEF c, d, e, f
  <2>4. c + d <= e + f
    BY <2>1, <2>2
  <2> QED
    BY <2>3, <2>4
<1>13. v + w \in Nat \ {0}
  BY <1>2, <1>3
<1>14. (offer - all) * q.price >= q.total * One
  BY <1>4, <1>8, <1>10, <1>11, <1>12, <1>13, BothUsedUp
<1>15. QuoteTrade(q, offer - all).bids = q.total
  <2>1. offer - all \in Nat /\ q # NoQuote
    BY <1>4 DEF q
  <2> QED
    BY <1>10, <1>14, <2>1, QuoteUsedUp
<1>16. t.item.quote.total = q.total - QuoteTrade(q, offer - all).bids
  BY TradeParts DEF t, q, all
<1>17. t.item.quote.total = 0
  BY <1>10, <1>15, <1>16
<1> QED
  BY <1>17 DEF t

\* What is left of an item can be split, if anything is left.
LEMMA KeepsSplit ==
    ASSUME oracle \in Nat, NEW b \in Books, NEW side, NEW item \in ItemsOf(side),
           NEW offer \in Nat, CanTrade(b, item, offer), Fits(side, item),
           QuoteAtRate(side, Trade(b, item, offer).item),
           Total(Trade(b, item, offer).book, Trade(b, item, offer).item) # 0
    PROVE  CanSplit(Trade(b, item, offer).book, Trade(b, item, offer).item)
<1> DEFINE t == Trade(b, item, offer)
           c == t.book
           left == t.item
<1>1. CanSplit(b, item)
  BY DEF CanTrade
<1>2. c \in Books /\ left \in ItemsOf(side)
  BY TradeType
<1>3. left.pools = item.pools
  BY TradeParts
<1>4. (left.quote = NoQuote <=> item.quote = NoQuote) /\ QuoteAtRate(side, item)
  BY <1>1, TradeKeeps
<1>5. PoolsTotal(c, left) = PoolsTotal(c, item)
  <2> HIDE DEF c, left
  <2> QED
    BY <1>3 DEF PoolsTotal
<1>6. Total(c, left) = PoolsTotal(c, left) + left.quote.total /\ Total(c, left) # 0
  BY DEF Total
<1>7. ASSUME Len(item.pools) = 2, item.quote # NoQuote, PoolsTotal(c, item) = 0
      PROVE  left.quote.total = 0
  BY <1>4, <1>7, QuoteFirst
<1> HIDE DEF t, c, left
<1>8. PoolsTotal(c, left) \in Nat /\ Total(c, left) \in Nat /\ left.quote.total \in Nat
  BY <1>2, TotalType, ItemParts
<1>9. ASSUME Len(left.pools) = 2 PROVE PoolsTotal(c, left) > 0
  <2> SUFFICES ASSUME PoolsTotal(c, left) = 0 PROVE FALSE
    BY <1>8
  <2>1. left.quote.total # 0
    BY <1>6, <1>8
  <2>2. left.quote # NoQuote
    BY <2>1 DEF NoQuote
  <2> QED
    BY <1>3, <1>4, <1>5, <1>7, <1>9, <2>1, <2>2
<1>10. Total(c, left) > 0
  BY <1>6, <1>8
<1>11. CanSplit(c, left)
  BY <1>9, <1>10 DEF CanSplit
<1> QED
  BY <1>11 DEF t, c, left

\* An item that no trade has changed can be split.
LEMMA FreshSplits ==
    ASSUME NEW b \in Books, NEW side, NEW item \in ItemsOf(side), Fresh(b, item)
    PROVE  CanSplit(b, item)
<1>1. PoolsTotal(b, item) \in Nat /\ item.quote.total \in Nat
  BY TotalType, ItemParts
<1>2. Total(b, item) = PoolsTotal(b, item) + item.quote.total
  BY DEF Total
<1>3. Len(item.pools) \in 0 .. 2 /\ (item.pools # <<>> => Len(item.pools) # 0)
  BY ItemParts, PoolListFacts
<1>4. ASSUME Len(item.pools) = 2 PROVE PoolsTotal(b, item) > 0
  <2> DEFINE v == b[item.pools[1]].pool.total
             w == b[item.pools[2]].pool.total
  <2>1. /\ 1 \in DOMAIN item.pools /\ v \in Nat /\ w \in Nat
        /\ PoolsTotal(b, item) = v + w
    BY <1>4, PairTotal
  <2>2. v > 0
    BY <2>1 DEF Fresh, Uses
  <2> HIDE DEF v, w
  <2> QED
    BY <2>1, <2>2
<1>5. ASSUME Len(item.pools) = 1 PROVE PoolsTotal(b, item) > 0
  <2> DEFINE v == b[item.pools[1]].pool.total
  <2>1. DOMAIN item.pools = 1 .. 1 /\ \A i \in DOMAIN item.pools : item.pools[i] \in Keys
    BY <1>5, ItemParts, PoolListFacts
  <2>2. 1 \in DOMAIN item.pools /\ 2 \notin DOMAIN item.pools /\ item.pools[1] \in Keys
    BY <2>1
  <2>3. v > 0
    BY <2>2 DEF Fresh, Uses
  <2>4. v \in Nat
    <3>1. b[item.pools[1]].pool \in GoodPools
      BY <2>2 DEF Books
    <3> QED
      BY <3>1, PoolParts
  <2>5. PoolsTotal(b, item) = v + 0
    BY <2>2 DEF PoolsTotal
  <2> HIDE DEF v
  <2> QED
    BY <2>3, <2>4, <2>5
<1>6. ASSUME item.pools # <<>> PROVE Total(b, item) > 0
  <2>1. Len(item.pools) = 1 \/ Len(item.pools) = 2
    BY <1>3, <1>6
  <2>2. PoolsTotal(b, item) > 0
    BY <1>4, <1>5, <2>1
  <2> QED
    BY <1>1, <1>2, <2>2
<1> QED
  BY <1>4, <1>6 DEF CanSplit

\* What comes after the first item of a row is as it was.
Waiting(b, row) == \A i \in DOMAIN row : i # 1 => Fresh(b, row[i])

\* A side's pools change for one item alone.
Changes(b, c, side, item) ==
    \A k \in Keys : c[k] # b[k] /\ k.side = side => k \in Uses(item)

\* A row while its first item is traded again and again, which can be split
\* unless its quote is worse than its rate.
Ready(side, b, row) ==
    /\ Apart(row)
    /\ \A i \in DOMAIN row : Fits(side, row[i])
    /\ Waiting(b, row)
    /\ row # <<>> /\ QuoteAtRate(side, Head(row)) => CanSplit(b, Head(row))

\* A row whose items are traded once each.
Untouched(b, row) == Apart(row) /\ \A i \in DOMAIN row : Fresh(b, row[i])

LEMMA RowReady ==
    ASSUME oracle \in Nat, config \in Configs, book \in Books, NEW side \in Sides,
           NEW m \in XYK!States
    PROVE  Ready(side, book, Row(side, m)) /\ Untouched(book, Row(side, m))
<1> DEFINE row == Row(side, m)
<1>1. row \in Seq(OfferedOn(side)) /\ Apart(row) /\ row \in Seq(ItemsOf(side))
  BY RowOffered, RowType
<1> HIDE DEF row
<1>2. ASSUME NEW i \in DOMAIN row
      PROVE  row[i] \in ItemsOf(side) /\ Fits(side, row[i]) /\ Fresh(book, row[i])
  <2>1. row[i] \in OfferedOn(side) /\ row[i] \in ItemsOf(side)
    BY <1>1
  <2> QED
    BY <2>1 DEF OfferedOn, Offered
<1>3. row # <<>> => Head(row) = row[1] /\ 1 \in DOMAIN row
  BY <1>1
<1>4. row # <<>> => CanSplit(book, Head(row))
  BY <1>2, <1>3, FreshSplits
<1> QED
  BY <1>1, <1>2, <1>4 DEF Ready, Waiting, Untouched, row

LEMMA UsesOfSide ==
    ASSUME NEW side, NEW item \in ItemsOf(side)
    PROVE  \A k \in Uses(item) : k \in Keys /\ k.side = side
<1>1. \A i \in DOMAIN item.pools : item.pools[i] \in Keys /\ item.pools[i].side = side
  BY ItemParts, PoolListFacts
<1> QED
  BY <1>1 DEF Uses

\* Trades of other pools leave an item as it was.
LEMMA FreshAfter ==
    ASSUME NEW b, NEW c, NEW side, NEW item, NEW other \in ItemsOf(side),
           Uses(item) \cap Uses(other) = {}, Fresh(b, other), Changes(b, c, side, item)
    PROVE  Fresh(c, other)
BY UsesOfSide DEF Fresh, Changes

LEMMA ConsIndex ==
    ASSUME NEW I, NEW row \in Seq(I), NEW item \in I
    PROVE  LET s == <<item>> \o row
           IN  /\ s # <<>> /\ Head(s) = item /\ 1 \in DOMAIN s /\ s[1] = item
               /\ \A i \in DOMAIN s : i # 1 => i - 1 \in DOMAIN row /\ s[i] = row[i - 1]
               /\ \A i, j \in DOMAIN s : i # j => i - 1 # j - 1
<1> DEFINE a == <<item>>
           s == a \o row
           n == Len(row)
<1>1. a \in Seq(I) /\ Len(a) = 1 /\ a[1] = item
  OBVIOUS
<1>2. n \in Nat /\ DOMAIN row = 1 .. n
  OBVIOUS
<1> HIDE DEF a
<1>3. /\ s \in Seq(I) /\ Len(s) = Len(a) + Len(row)
      /\ \A i \in 1 .. Len(a) + Len(row) : s[i] = IF i <= Len(a) THEN a[i] ELSE row[i - Len(a)]
  BY <1>1, ConcatProperties
<1> HIDE DEF s, n
<1>4. Len(s) = 1 + n /\ \A i \in 1 .. 1 + n : s[i] = IF i <= 1 THEN a[i] ELSE row[i - 1]
  BY <1>1, <1>3 DEF n
<1>5. DOMAIN s = 1 .. 1 + n /\ s # <<>> /\ Head(s) = s[1]
  BY <1>2, <1>3, <1>4
<1>6. 1 \in 1 .. 1 + n /\ \A i \in 1 .. 1 + n : i # 1 => i - 1 \in 1 .. n /\ ~ (i <= 1)
  BY <1>2
<1>7. \A i, j \in 1 .. 1 + n : i # j => i - 1 # j - 1
  BY <1>2
<1>8. s[1] = item
  BY <1>1, <1>4, <1>6
<1> QED
  BY <1>2, <1>4, <1>5, <1>6, <1>7, <1>8 DEF s, a

LEMMA TailFresh ==
    ASSUME NEW b, NEW c, NEW side, NEW row \in Seq(ItemsOf(side)), row # <<>>,
           Apart(row), Waiting(b, row), Changes(b, c, side, Head(row))
    PROVE  /\ Apart(Tail(row)) /\ Off(Head(row), Tail(row))
           /\ \A i \in DOMAIN Tail(row) :
                  Tail(row)[i] \in ItemsOf(side) /\ Fresh(c, Tail(row)[i])
<1> DEFINE h == Head(row)
           t == Tail(row)
<1>1. Apart(t) /\ Off(h, t)
  BY ApartTail
<1>2. /\ \A i \in DOMAIN t : i + 1 \in DOMAIN row /\ i + 1 # 1 /\ t[i] = row[i + 1]
  BY TailIndex
<1> HIDE DEF h, t
<1>3. ASSUME NEW i \in DOMAIN t PROVE t[i] \in ItemsOf(side) /\ Fresh(c, t[i])
  <2> DEFINE o == t[i]
  <2>1. o \in ItemsOf(side) /\ Fresh(b, o)
    BY <1>2 DEF Waiting
  <2>2. Uses(h) \cap Uses(o) = {}
    BY <1>1 DEF Off
  <2>3. Changes(b, c, side, h)
    BY DEF h
  <2> HIDE DEF o
  <2>4. Fresh(c, o)
    BY <2>1, <2>2, <2>3, FreshAfter
  <2> QED
    BY <2>1, <2>4 DEF o
<1> QED
  BY <1>1, <1>3 DEF h, t

LEMMA RestReady ==
    ASSUME NEW b, NEW c \in Books, NEW side, NEW row \in Seq(ItemsOf(side)), row # <<>>,
           Ready(side, b, row), NEW item \in ItemsOf(side), Uses(item) = Uses(Head(row)),
           Fits(side, item),
           QuoteAtRate(side, item) /\ Total(c, item) # 0 => CanSplit(c, item),
           Changes(b, c, side, Head(row))
    PROVE  Ready(side, c, Rest(row, c, item))
<1> DEFINE t == Tail(row)
           s == <<item>> \o t
<1>1. /\ Apart(t) /\ Off(Head(row), t)
      /\ \A i \in DOMAIN t : t[i] \in ItemsOf(side) /\ Fresh(c, t[i])
  <2>1. Apart(row) /\ Waiting(b, row)
    BY DEF Ready
  <2> QED
    BY <2>1, TailFresh
<1>2. \A i \in DOMAIN t : Fits(side, t[i])
  BY TailIndex DEF Ready
<1>3. t \in Seq(ItemsOf(side))
  OBVIOUS
<1>4. Off(item, t)
  BY <1>1 DEF Off
<1>5. CASE Total(c, item) = 0
  <2> HIDE DEF t
  <2>1. Rest(row, c, item) = t
    BY <1>5 DEF Rest, t
  <2>2. t # <<>> => Head(t) = t[1] /\ 1 \in DOMAIN t
    BY <1>3
  <2>3. t # <<>> => CanSplit(c, Head(t))
    BY <1>1, <2>2, FreshSplits
  <2> QED
    BY <1>1, <1>2, <2>1, <2>3 DEF Ready, Waiting
<1>6. CASE Total(c, item) # 0
  <2>1. Rest(row, c, item) = s
    BY <1>6 DEF Rest
  <2>2. /\ s # <<>> /\ Head(s) = item /\ 1 \in DOMAIN s /\ s[1] = item
        /\ \A i \in DOMAIN s : i # 1 => i - 1 \in DOMAIN t /\ s[i] = t[i - 1]
        /\ \A i, j \in DOMAIN s : i # j => i - 1 # j - 1
    <3> HIDE DEF t
    <3> QED
      BY <1>3, ConsIndex
  <2> HIDE DEF s, t
  <2>3. \A i \in DOMAIN s : Fits(side, s[i]) /\ (i # 1 => Fresh(c, s[i]))
    BY <1>1, <1>2, <2>2
  <2>4. Apart(s)
    <3> SUFFICES ASSUME NEW i \in DOMAIN s, NEW j \in DOMAIN s, i # j
                 PROVE  Uses(s[i]) \cap Uses(s[j]) = {}
      BY DEF Apart
    <3>1. CASE i = 1
      <4>1. j - 1 \in DOMAIN t /\ s[j] = t[j - 1] /\ s[i] = item
        BY <2>2, <3>1
      <4> QED
        BY <1>4, <4>1 DEF Off
    <3>2. CASE j = 1
      <4>1. i - 1 \in DOMAIN t /\ s[i] = t[i - 1] /\ s[j] = item
        BY <2>2, <3>2
      <4> QED
        BY <1>4, <4>1 DEF Off
    <3>3. CASE i # 1 /\ j # 1
      <4>1. i - 1 \in DOMAIN t /\ s[i] = t[i - 1] /\ j - 1 \in DOMAIN t /\ s[j] = t[j - 1]
        BY <2>2, <3>3
      <4>2. i - 1 # j - 1
        BY <2>2
      <4> QED
        BY <1>1, <4>1, <4>2 DEF Apart
    <3> QED
      BY <3>1, <3>2, <3>3
  <2> QED
    BY <1>6, <2>1, <2>2, <2>3, <2>4 DEF Ready, Waiting
<1> QED
  BY <1>5, <1>6

\* Items of one side do not see what is traded on the other.
LEMMA SameTotals ==
    ASSUME NEW b, NEW c, NEW side, NEW item \in ItemsOf(side),
           \A k \in Keys : c[k] # b[k] => k.side # side
    PROVE  /\ Total(c, item) = Total(b, item)
           /\ CanSplit(c, item) <=> CanSplit(b, item)
<1> DEFINE p == item.pools
           Held(x, i) == IF i \in DOMAIN p THEN x[p[i]].pool.total ELSE 0
<1>1. \A i \in DOMAIN p : p[i] \in Keys /\ p[i].side = side
  BY ItemParts, PoolListFacts
<1>2. ASSUME NEW i PROVE Held(c, i) = Held(b, i)
  <2>1. CASE i \in DOMAIN p
    <3>1. c[p[i]] = b[p[i]]
      BY <1>1, <2>1
    <3> QED
      BY <3>1
  <2> QED
    BY <2>1
<1>3. /\ PoolsTotal(b, item) = Held(b, 1) + Held(b, 2)
      /\ PoolsTotal(c, item) = Held(c, 1) + Held(c, 2)
  BY DEF PoolsTotal
<1> HIDE DEF Held
<1>4. PoolsTotal(c, item) = PoolsTotal(b, item)
  BY <1>2, <1>3
<1> QED
  BY <1>4 DEF Total, CanSplit

-----------------------------------------------------------------------------
(* The invariant                                                           *)

Ledgers == [Owners -> [Keys -> Bids \cup {NoOrder}]]

Balances == [Sides -> Nat]

Sums == [Sides -> Int]

Founds == [book : Books, orders : Ledgers, bank : Balances, maker : XYK!States]

Requests == [side : Sides, offer : Nat, min : Nat]

OrderTxs ==
    [phase : {"orders"}, owner : Owners, items : Nat, receive : Sums, send : Sums, fees : Sums]

ArbTxs ==
    [phase : {"arb"}, base : Seq(ItemsOf("base")), quote : Seq(ItemsOf("quote")),
     profit : Sums, takes : [Sides -> Amounts], then : Requests \cup {NoRequest}, odd : BOOLEAN]

SwapTxs(side) ==
    [phase : {"swap"}, side : {side}, offer : Nat, min : Nat, returned : Nat,
     row : Seq(ItemsOf(side)), take : Amounts]

\* What a transaction is in each of its phases.
Transaction(t) ==
    \/ t = Idle
    \/ t \in OrderTxs
    \/ t \in ArbTxs
    \/ \E side \in Sides : t \in SwapTxs(side)

\* Pools that trades, orders and syncs are defined on, and rows of items that
\* trades are defined on, now and where a failed transaction goes back to.
IInv ==
    /\ book \in Books
    /\ orders \in Ledgers
    /\ bank \in Balances
    /\ maker \in XYK!States
    /\ oracle \in Nat
    /\ config \in Configs
    /\ saved \in Founds
    /\ Transaction(tx)

LEMMA ByPhase ==
    ASSUME NEW t, Transaction(t)
    PROVE  /\ t.phase \in {"idle", "orders", "arb", "swap"}
           /\ t.phase = "orders" => t \in OrderTxs
           /\ t.phase = "arb" => t \in ArbTxs
           /\ t.phase = "swap" => \E side \in Sides : t \in SwapTxs(side)
<1>1. CASE t = Idle
  BY <1>1 DEF Idle
<1>2. CASE t \in OrderTxs
  BY <1>2 DEF OrderTxs
<1>3. CASE t \in ArbTxs
  BY <1>3 DEF ArbTxs
<1>4. CASE \E side \in Sides : t \in SwapTxs(side)
  BY <1>4 DEF SwapTxs
<1> QED
  BY <1>1, <1>2, <1>3, <1>4 DEF Transaction

LEMMA CoinsType ==
    ASSUME NEW S, NEW base \in S, NEW quote \in S
    PROVE  /\ Coins(base, quote) \in [Sides -> S]
           /\ Coins(base, quote)["base"] = base /\ Coins(base, quote)["quote"] = quote
BY DEF Coins, Sides

LEMMA NoneType == None \in Balances /\ None \in Sums
BY DEF None, Coins, Sides, Balances, Sums

LEMMA AskType ==
    ASSUME NEW side \in Sides
    PROVE  Ask(side) \in Sides /\ Ask(side) # side
BY DEF Ask, Sides

LEMMA PlusType ==
    ASSUME NEW coins \in Sums, NEW side \in Sides, NEW n \in Int
    PROVE  Plus(coins, side, n) \in Sums
<1>1. coins[side] + n \in Int
  BY DEF Sums
<1> QED
  BY <1>1 DEF Plus, Sums

LEMMA RootType ==
    ASSUME NEW n \in Nat
    PROVE  XYK!Isqrt(n) \in Nat
<1> DEFINE S == {r \in Nat : n < (r + 1) * (r + 1)}
<1>1. n < (n + 1) * (n + 1)
  OBVIOUS
<1>2. S \in SUBSET Nat /\ S # {}
  BY <1>1
<1>3. PICK r \in S : \A q \in S : r <= q
  <2> HIDE DEF S
  <2> QED
    BY <1>2, LeastMember
<1>4. r \in Nat /\ n < (r + 1) * (r + 1)
  OBVIOUS
<1>5. r * r <= n
  <2>1. CASE r = 0
    BY <2>1
  <2>2. CASE r > 0
    <3>1. r - 1 \in Nat /\ r - 1 \notin S
      BY <2>2, <1>3, <1>4
    <3> QED
      BY <3>1
  <2> QED
    BY <2>1, <2>2, <1>4
<1>6. r \in 0 .. n
  <2>1. r = 0 \/ r <= r * r
    BY <1>4
  <2> QED
    BY <2>1, <1>4, <1>5
<1>7. \E c \in 0 .. n : c * c <= n /\ n < (c + 1) * (c + 1)
  BY <1>4, <1>5, <1>6, Zenon
<1>8. XYK!Isqrt(n) \in 0 .. n
  BY <1>7, Zenon DEF XYK!Isqrt
<1> QED
  BY <1>8

LEMMA InitInv == Init => IInv
<1> SUFFICES ASSUME Init PROVE IInv
  OBVIOUS
<1>1. book \in Books
  BY EmptyPoolGood DEF Init, Books
<1>2. orders \in Ledgers
  BY DEF Init, Ledgers
<1>3. bank \in Balances
  BY NoneType DEF Init
<1>4. maker \in XYK!States
  <2>1. PICK p \in Provisions :
            maker = XYK!Deposited(Strategy, XYK!EmptyState, p[1], p[2])
    BY DEF Init
  <2>2. p[1] \in Nat /\ p[2] \in Nat
    BY FinAssumptions
  <2> DEFINE n == p[1] * p[2]
  <2>3. n \in Nat
    BY <2>2
  <2> HIDE DEF n
  <2>4. XYK!Isqrt(n) \in Nat
    BY <2>3, RootType
  <2>5. XYK!Minted(Strategy, XYK!EmptyState, p[1], p[2]) = XYK!Isqrt(n)
    BY DEF XYK!Minted, XYK!EmptyState, n
  <2>6. maker = [x |-> 0 + p[1], y |-> 0 + p[2], shares |-> 0 + XYK!Isqrt(n)]
    BY <2>1, <2>5 DEF XYK!Deposited, XYK!EmptyState
  <2> QED
    BY <2>2, <2>4, <2>6 DEF XYK!States
<1>5. oracle \in Nat
  BY FinAssumptions DEF Init
<1>6. config \in Configs
  BY DEF Init
<1>7. saved \in Founds
  BY <1>1, <1>2, <1>3, <1>4 DEF Init, Found, Founds
<1>8. Transaction(tx)
  BY DEF Init, Transaction
<1> QED
  BY <1>1, <1>2, <1>3, <1>4, <1>5, <1>6, <1>7, <1>8 DEF IInv

-----------------------------------------------------------------------------
(* The steps                                                               *)

LEMMA MakerFeeType ==
    ASSUME config \in Configs, NEW n \in Nat
    PROVE  MakerFee(n) \in Nat /\ Received(n) \in Int
<1>1. config.feeMaker \in Nat /\ One \in Nat \ {0}
  BY FinAssumptions, OneAssumption
<1> DEFINE w == (n * One) \div 1
           x == w * config.feeMaker
           y == x \div One
<1>2. w \in Nat
  BY <1>1
<1> HIDE DEF w
<1>3. x \in Nat
  BY <1>1, <1>2
<1> HIDE DEF x
<1>4. y \in Nat
  BY <1>1, <1>3
<1>5. MakerFee(n) = ToCeil(y)
  BY DEF MakerFee, DecMul, FromRatio, w, x
<1> HIDE DEF y
<1>6. MakerFee(n) \in Nat
  BY <1>4, <1>5, CeilType
<1> QED
  BY <1>6 DEF Received

LEMMA ArbType ==
    ASSUME oracle \in Nat, config \in Configs, NEW then \in Requests \cup {NoRequest},
           NEW m \in XYK!States
    PROVE  Arb(then, m) \in ArbTxs
<1> DEFINE b == Row("base", m)
           q == Row("quote", m)
           takes == [s \in Sides |-> [offer |-> 0, bids |-> 0]]
           B == Seq(ItemsOf("base"))
           Q == Seq(ItemsOf("quote"))
<1>1. b \in B /\ q \in Q
  BY RowType DEF Sides
<1>2. takes \in [Sides -> Amounts]
  BY DEF Amounts
<1>3. Arb(then, m) = [phase |-> "arb", base |-> b, quote |-> q, profit |-> None,
                      takes |-> takes, then |-> then, odd |-> FALSE]
  BY DEF Arb
<1>4. ArbTxs = [phase : {"arb"}, base : B, quote : Q, profit : Sums,
                takes : [Sides -> Amounts], then : Requests \cup {NoRequest}, odd : BOOLEAN]
  BY DEF ArbTxs
<1> HIDE DEF b, q, takes, B, Q
<1> QED
  BY <1>1, <1>2, <1>3, <1>4, NoneType

LEMMA SwappingType ==
    ASSUME oracle \in Nat, config \in Configs, NEW request \in Requests, NEW m \in XYK!States
    PROVE  Transaction(Swapping(request, m))
<1> DEFINE side == request.side
           r == Row(side, m)
           R == Seq(ItemsOf(side))
           take == [offer |-> 0, bids |-> 0]
           t == Swapping(request, m)
<1>1. side \in Sides /\ request.offer \in Nat /\ request.min \in Nat
  BY DEF Requests
<1>2. r \in R /\ take \in Amounts
  BY <1>1, RowType DEF Amounts
<1>3. t = [phase |-> "swap", side |-> side, offer |-> request.offer, min |-> request.min,
           returned |-> 0, row |-> r, take |-> take]
  BY DEF Swapping
<1>4. SwapTxs(side) = [phase : {"swap"}, side : {side}, offer : Nat, min : Nat,
                       returned : Nat, row : R, take : Amounts]
  BY DEF SwapTxs
<1> HIDE DEF side, r, R, take, t
<1>5. t \in SwapTxs(side)
  BY <1>1, <1>2, <1>3, <1>4
<1> QED
  BY <1>1, <1>5 DEF Transaction, t

LEMMA BeginOrdersInv ==
    ASSUME IInv, NEW o \in Owners, BeginOrders(o)
    PROVE  IInv'
<1>1. Managed(o) \in OrderTxs
  BY NoneType DEF Managed, OrderTxs
<1>2. Transaction(tx)'
  BY <1>1 DEF BeginOrders, Begin, Transaction
<1>3. saved' \in Founds
  BY DEF IInv, BeginOrders, Begin, Found, Founds
<1> QED
  BY <1>2, <1>3 DEF IInv, BeginOrders, Begin, chain

LEMMA BeginSwapInv ==
    ASSUME IInv, NEW side \in Sides, NEW offer \in Offers, NEW min \in MinReturns,
           BeginSwap(side, offer, min)
    PROVE  IInv'
<1> DEFINE request == [side |-> side, offer |-> offer, min |-> min]
<1>1. offer \in Nat /\ min \in Nat
  BY FinAssumptions
<1>2. request \in Requests
  BY <1>1 DEF Requests
<1>3. tx' = Arb(request, maker)
  BY DEF BeginSwap, Begin
<1> HIDE DEF request
<1>4. Arb(request, maker) \in ArbTxs
  BY <1>2, ArbType DEF IInv
<1>5. Transaction(tx)'
  BY <1>3, <1>4 DEF Transaction
<1>6. saved' \in Founds
  BY DEF IInv, BeginSwap, Begin, Found, Founds
<1>7. bank' \in Balances
  <2>1. bank[Ask(side)] + offer \in Nat
    BY <1>1, AskType DEF IInv, Balances
  <2> QED
    BY <2>1 DEF IInv, BeginSwap, Plus, Balances
<1> QED
  BY <1>5, <1>6, <1>7 DEF IInv, BeginSwap, Begin

LEMMA StoredType ==
    ASSUME NEW bid \in Bids
    PROVE  Stored(bid) \in Bids \cup {NoOrder}
BY DEF Stored

\* An order that is written, and its pool resized.
LEMMA WrittenType ==
    ASSUME IInv, NEW o \in Owners, NEW k \in Keys, NEW bid \in Bids \cup {NoOrder},
           NEW diff \in Int, -diff <= book[k].pool.total
    PROVE  /\ [orders EXCEPT ![o][k] = bid] \in Ledgers
           /\ [book EXCEPT ![k].pool = Resized(@, diff)] \in Books
<1>1. [orders EXCEPT ![o][k] = bid] \in Ledgers
  BY DEF IInv, Ledgers
<1>2. book[k].pool \in GoodPools /\ book[k].paid \in Nat
  BY DEF IInv, Books
<1>3. book[k].pool.total \in Nat
  BY <1>2, PoolParts
<1>4. book[k].pool.total + diff >= 0
  BY <1>3
<1> DEFINE p == Resized(book[k].pool, diff)
<1>5. p \in GoodPools
  BY <1>2, <1>4, ResizedGood
<1>6. [book EXCEPT ![k].pool = Resized(@, diff)] = [book EXCEPT ![k].pool = p]
  OBVIOUS
<1> HIDE DEF p
<1>7. [book EXCEPT ![k].pool = p] \in Books
  BY <1>2, <1>5 DEF IInv, Books
<1> QED
  BY <1>1, <1>6, <1>7

LEMMA NewOrderInv ==
    ASSUME IInv, NEW k \in Keys, NEW target \in Targets, NewOrder(k, target)
    PROVE  IInv'
<1>1. target \in Nat
  BY FinAssumptions
<1>2. tx \in OrderTxs
  BY ByPhase DEF IInv, NewOrder, MayVisit
<1>3. k.side \in Sides
  BY DEF Keys
<1> DEFINE bid == Stored(NewBid(book[k].pool, target))
<1>4. book[k].pool \in GoodPools
  BY DEF IInv, Books
<1>5. bid \in Bids \cup {NoOrder}
  BY <1>1, <1>4, NewBidType, StoredType
<1>6. target \in Int /\ -target <= book[k].pool.total
  BY <1>1, <1>4, PoolParts
<1>7. tx.owner \in Owners
  BY <1>2 DEF OrderTxs
<1>8. /\ orders' = [orders EXCEPT ![tx.owner][k] = bid]
      /\ book' = [book EXCEPT ![k].pool = Resized(@, target)]
  BY DEF NewOrder
<1> HIDE DEF bid
<1>9. orders' \in Ledgers /\ book' \in Books
  BY <1>5, <1>6, <1>7, <1>8, WrittenType
<1>10. tx' \in OrderTxs
  <2>1. Plus(tx.send, k.side, target) \in Sums
    BY <1>2, <1>3, <1>6, PlusType DEF OrderTxs
  <2>2. tx.items + 1 \in Nat
    BY <1>2 DEF OrderTxs
  <2>3. tx' = [tx EXCEPT !.items = tx.items + 1, !.send = Plus(tx.send, k.side, target)]
    BY DEF NewOrder
  <2> QED
    BY <1>2, <2>1, <2>2, <2>3 DEF OrderTxs
<1> QED
  BY <1>9, <1>10 DEF IInv, NewOrder, Transaction

\* What a visit writes, with the order brought up to date.
LEMMA VisitedInv ==
    ASSUME IInv, NEW k \in Keys, tx \in OrderTxs, NEW bid \in Bids, NEW target \in Nat,
           Visited(k, bid, target)
    PROVE  orders' \in Ledgers /\ book' \in Books /\ tx' \in OrderTxs
<1> DEFINE fee == MakerFee(bid.filled)
           diff == target - bid.amount
           ask == Ask(k.side)
           claim == Plus(tx.receive, ask, Received(bid.filled))
           kept == [bid EXCEPT !.filled = 0, !.amount = target]
           send == IF diff > 0 THEN Plus(tx.send, k.side, diff) ELSE tx.send
           receive == IF diff < 0 THEN Plus(claim, k.side, -diff) ELSE claim
           fees == Plus(tx.fees, ask, fee)
<1>1. /\ tx.owner \in Owners /\ tx.items + 1 \in Nat
      /\ tx.receive \in Sums /\ tx.send \in Sums /\ tx.fees \in Sums
  BY DEF OrderTxs
<1>2. k.side \in Sides /\ ask \in Sides
  BY AskType DEF Keys
<1>3. bid.amount \in Nat /\ bid.filled \in Nat
  BY DEF Bids
<1>4. diff \in Int /\ -diff \in Int
  BY <1>3
<1>5. fee \in Int /\ Received(bid.filled) \in Int
  BY <1>3, MakerFeeType DEF IInv
<1>6. Stored(kept) \in Bids \cup {NoOrder}
  <2>1. kept \in Bids
    BY DEF Bids
  <2> HIDE DEF kept
  <2> QED
    BY <2>1, StoredType
<1>7. /\ -diff <= book[k].pool.total
      /\ orders' = [orders EXCEPT ![tx.owner][k] = Stored(kept)]
      /\ book' = [book EXCEPT ![k].pool = Resized(@, diff)]
      /\ tx' = [tx EXCEPT !.items = tx.items + 1, !.fees = fees, !.send = send,
                          !.receive = receive]
  BY DEF Visited
<1> HIDE DEF kept, diff, fee, ask
<1>8. claim \in Sums /\ fees \in Sums
  BY <1>1, <1>2, <1>5, PlusType
<1> HIDE DEF claim, fees
<1>9. send \in Sums /\ receive \in Sums
  BY <1>1, <1>2, <1>4, <1>8, PlusType
<1> HIDE DEF send, receive
<1>10. tx' \in OrderTxs
  BY <1>1, <1>7, <1>8, <1>9 DEF OrderTxs
<1> DEFINE stored == Stored(kept)
<1> HIDE DEF stored
<1>11. stored \in Bids \cup {NoOrder} /\ orders' = [orders EXCEPT ![tx.owner][k] = stored]
  BY <1>6, <1>7 DEF stored
<1> DEFINE o == tx.owner
<1>12. /\ orders' = [orders EXCEPT ![o][k] = stored] /\ o \in Owners
       /\ book' = [book EXCEPT ![k].pool = Resized(@, diff)]
       /\ diff \in Int /\ -diff <= book[k].pool.total
  BY <1>1, <1>4, <1>7, <1>11
<1> HIDE DEF o
<1>13. /\ [orders EXCEPT ![o][k] = stored] \in Ledgers
       /\ [book EXCEPT ![k].pool = Resized(@, diff)] \in Books
  BY <1>11, <1>12, WrittenType
<1> QED
  BY <1>10, <1>12, <1>13

LEMMA VisitOrderInv ==
    ASSUME IInv, NEW k \in Keys, NEW target,
           target \in Targets \/ target = Unchanging(k), VisitOrder(k, target)
    PROVE  IInv'
<1> DEFINE p == book[k].pool
           order == orders[tx.owner][k]
           bid == Synced(p, order)
<1>1. tx \in OrderTxs
  BY ByPhase DEF IInv, VisitOrder, MayVisit
<1>2. p \in GoodPools
  BY DEF IInv, Books
<1>3. order \in Bids
  <2>1. tx.owner \in Owners
    BY <1>1 DEF OrderTxs
  <2> QED
    BY <2>1 DEF IInv, Ledgers, VisitOrder
<1>4. CanSync(p, order)
  BY DEF VisitOrder
<1>5. bid \in Bids
  <2> HIDE DEF p, order
  <2> QED
    BY <1>2, <1>3, <1>4, SyncedType
<1>6. target \in Nat
  <2>1. Unchanging(k) = bid.amount
    BY DEF Unchanging, Synced
  <2>2. bid.amount \in Nat
    <3> HIDE DEF bid
    <3> QED
      BY <1>5 DEF Bids
  <2> HIDE DEF bid
  <2>3. Targets \subseteq Nat
    BY FinAssumptions
  <2> QED
    BY <2>1, <2>2, <2>3
<1>7. Visited(k, bid, target)
  BY DEF VisitOrder
<1> HIDE DEF bid
<1>8. orders' \in Ledgers /\ book' \in Books /\ tx' \in OrderTxs
  BY <1>1, <1>5, <1>6, <1>7, VisitedInv
<1> QED
  BY <1>8 DEF IInv, VisitOrder, Transaction

LEMMA EndOrdersInv ==
    ASSUME IInv, EndOrders
    PROVE  IInv'
<1>1. tx \in OrderTxs
  BY ByPhase DEF IInv, EndOrders
<1>2. bank' \in Balances
  <2> SUFFICES ASSUME NEW s \in Sides PROVE bank[s] - Owed(s) \in Nat
    BY DEF EndOrders, Balances
  <2>1. tx.receive[s] \in Int /\ tx.fees[s] \in Int /\ tx.send[s] \in Int
    BY <1>1 DEF OrderTxs, Sums
  <2>2. Owed(s) \in Int
    BY <2>1 DEF Owed
  <2> QED
    BY <2>2 DEF EndOrders, IInv, Balances
<1>3. Arb(NoRequest, maker) \in ArbTxs
  BY ArbType DEF IInv
<1>4. Transaction(tx)'
  BY <1>3 DEF EndOrders, Transaction
<1> QED
  BY <1>2, <1>4 DEF IInv, EndOrders

LEMMA AsksType ==
    ASSUME NEW take \in Amounts
    PROVE  Asks(take) \in Amounts
BY DEF Asks, Amounts

LEMMA MakerAfterType ==
    ASSUME NEW m \in XYK!States, NEW side, NEW take \in Amounts
    PROVE  MakerAfter(m, side, take) \in XYK!States
<1> DEFINE f == Facing(side, m)
           g == XYK!Swapped(f, take.offer)
<1>1. f \in XYK!States /\ take.offer \in Nat
  BY FacingType DEF Amounts
<1>2. g \in XYK!States
  BY <1>1, SwappedType
<1>3. Facing(side, g) \in XYK!States
  <2> HIDE DEF g
  <2> QED
    BY <1>2, FacingType
<1> QED
  BY <1>3 DEF MakerAfter

LEMMA AddedType ==
    ASSUME NEW a \in Amounts, NEW b \in Amounts
    PROVE  Added(a, b) \in Amounts
BY DEF Added, Amounts

\* The rows that are left when items are used up, or not.
LEMMA RestType ==
    ASSUME NEW I, NEW row \in Seq(I), row # <<>>, NEW b, NEW item \in I
    PROVE  Rest(row, b, item) \in Seq(I)
<1>1. Tail(row) \in Seq(I)
  OBVIOUS
<1>2. <<item>> \o Tail(row) \in Seq(I)
  <2> DEFINE s == <<item>>
             t == Tail(row)
  <2>1. s \in Seq(I) /\ t \in Seq(I)
    BY <1>1
  <2> HIDE DEF s, t
  <2>2. s \o t \in Seq(I)
    BY <2>1, ConcatProperties
  <2> QED
    BY <2>2 DEF s, t
<1> QED
  BY <1>1, <1>2 DEF Rest

LEMMA HeadAndTail ==
    ASSUME NEW I, NEW row \in Seq(I), row # <<>>
    PROVE  Head(row) \in I /\ Tail(row) \in Seq(I)
OBVIOUS

\* A round's two trades: each changes pools of its own side alone.
LEMMA RoundTrades ==
    ASSUME IInv, tx \in ArbTxs, BothSides, CanArb
    PROVE  LET forth == Forth
               back  == Back(forth)
           IN  /\ forth.offer \in Nat /\ forth.bids \in Nat
               /\ back.offer \in Nat /\ back.bids \in Nat
               /\ forth.item \in ItemsOf("quote") /\ back.item \in ItemsOf("base")
               /\ forth.maker \in Amounts /\ back.maker \in Amounts
               /\ back.book \in Books
               /\ \A k \in Keys : back.book[k] # book[k] => Priced(k, book[k], back.book[k])
<1> DEFINE b == Head(tx.base)
           q == Head(tx.quote)
           n == Total(book, b)
           forth == Trade(book, q, n)
           back == Trade(forth.book, b, forth.bids)
<1>1. Forth = forth /\ Back(forth) = back
  BY DEF Forth, Back
<1>2. b \in ItemsOf("base") /\ q \in ItemsOf("quote")
  <2>1. tx.base \in Seq(ItemsOf("base")) /\ tx.quote \in Seq(ItemsOf("quote"))
    BY DEF ArbTxs
  <2>2. tx.base # <<>> /\ tx.quote # <<>>
    BY DEF BothSides
  <2> QED
    BY <2>1, <2>2, HeadAndTail
<1>3. oracle \in Nat /\ book \in Books
  BY DEF IInv
<1>4. CanTrade(book, q, n) /\ CanTrade(forth.book, b, forth.bids)
  BY <1>1 DEF CanArb, CanBack
<1> HIDE DEF b, q
<1>5. n \in Nat
  BY <1>2, <1>3, TotalType
<1> HIDE DEF n
<1>6. /\ forth.offer \in 0 .. n /\ forth.bids \in Nat /\ forth.book \in Books
      /\ forth.item \in ItemsOf("quote") /\ forth.maker \in Amounts
      /\ \A k \in Keys : forth.book[k] # book[k] =>
             k.side = "quote" /\ Priced(k, book[k], forth.book[k])
  BY <1>2, <1>3, <1>4, <1>5, TradeType
<1>7. forth.offer \in Nat
  BY <1>5, <1>6
<1> HIDE DEF forth
<1> DEFINE middle == forth.book
           m == forth.bids
<1>8. middle \in Books /\ m \in Nat /\ CanTrade(middle, b, m) /\ back = Trade(middle, b, m)
  BY <1>4, <1>6
<1> HIDE DEF middle, m, back
<1>9. /\ back.offer \in 0 .. m /\ back.bids \in Nat /\ back.book \in Books
      /\ back.item \in ItemsOf("base") /\ back.maker \in Amounts
      /\ \A k \in Keys : back.book[k] # middle[k] =>
             k.side = "base" /\ Priced(k, middle[k], back.book[k])
  BY <1>2, <1>3, <1>8, TradeType
<1>10. back.offer \in Nat
  BY <1>8, <1>9
<1>11. ASSUME NEW k \in Keys, back.book[k] # book[k]
       PROVE  Priced(k, book[k], back.book[k])
  <2>1. CASE middle[k] = book[k]
    BY <1>9, <1>11, <2>1
  <2>2. CASE middle[k] # book[k]
    <3>1. k.side = "quote" /\ Priced(k, book[k], middle[k])
      BY <1>6, <2>2 DEF middle
    <3>2. back.book[k] = middle[k]
      BY <1>9, <3>1
    <3> QED
      BY <3>1, <3>2
  <2> QED
    BY <2>1, <2>2
<1> QED
  BY <1>1, <1>6, <1>7, <1>9, <1>10, <1>11

LEMMA RoundInv ==
    ASSUME IInv, Round
    PROVE  /\ IInv'
           /\ \A k \in Keys : book'[k] # book[k] => Priced(k, book[k], book'[k])
<1> DEFINE forth == Forth
           back == Back(forth)
           base == Rest(tx.base, back.book, back.item)
           quote == Rest(tx.quote, back.book, forth.item)
           profit == Coins(tx.profit["base"] + back.bids - forth.offer,
                           tx.profit["quote"] + forth.bids - back.offer)
           takes == [s \in Sides |-> Added(tx.takes[s], IF s = "base" THEN back.maker
                                                                      ELSE forth.maker)]
<1>1. tx \in ArbTxs /\ BothSides /\ CanArb
  BY ByPhase DEF IInv, Round
<1>2. /\ book' = back.book
      /\ tx' = [tx EXCEPT !.odd = ~ tx.odd, !.base = base, !.quote = quote,
                          !.profit = profit, !.takes = takes]
      /\ UNCHANGED <<orders, bank, maker, oracle, config, saved, txs>>
  BY DEF Round
<1>3. /\ forth.offer \in Nat /\ forth.bids \in Nat
      /\ back.offer \in Nat /\ back.bids \in Nat
      /\ forth.item \in ItemsOf("quote") /\ back.item \in ItemsOf("base")
      /\ forth.maker \in Amounts /\ back.maker \in Amounts
      /\ back.book \in Books
      /\ \A k \in Keys : back.book[k] # book[k] => Priced(k, book[k], back.book[k])
  BY <1>1, RoundTrades
<1>4. /\ tx.base \in Seq(ItemsOf("base")) /\ tx.quote \in Seq(ItemsOf("quote"))
      /\ tx.profit \in Sums /\ tx.takes \in [Sides -> Amounts]
      /\ tx.base # <<>> /\ tx.quote # <<>>
  BY <1>1 DEF ArbTxs, BothSides
<1> HIDE DEF back, forth
<1>5. base \in Seq(ItemsOf("base")) /\ quote \in Seq(ItemsOf("quote"))
  BY <1>3, <1>4, RestType
<1>6. profit \in Sums
  <2>1. tx.profit["base"] \in Int /\ tx.profit["quote"] \in Int
    BY <1>4 DEF Sums, Sides
  <2>2. /\ tx.profit["base"] + back.bids - forth.offer \in Int
        /\ tx.profit["quote"] + forth.bids - back.offer \in Int
    BY <1>3, <2>1
  <2> QED
    BY <2>2, CoinsType DEF Sums
<1>7. takes \in [Sides -> Amounts]
  <2> SUFFICES ASSUME NEW s \in Sides
               PROVE  Added(tx.takes[s], IF s = "base" THEN back.maker ELSE forth.maker)
                          \in Amounts
    OBVIOUS
  <2> DEFINE more == IF s = "base" THEN back.maker ELSE forth.maker
             take == tx.takes[s]
  <2>1. more \in Amounts /\ take \in Amounts
    BY <1>3, <1>4
  <2> HIDE DEF more, take
  <2>2. Added(take, more) \in Amounts
    BY <2>1, AddedType
  <2> QED
    BY <2>2 DEF take, more
<1> HIDE DEF base, quote, profit, takes
<1>8. tx' \in ArbTxs
  <2> DEFINE B == Seq(ItemsOf("base"))
             Q == Seq(ItemsOf("quote"))
  <2>1. ArbTxs = [phase : {"arb"}, base : B, quote : Q, profit : Sums,
                  takes : [Sides -> Amounts], then : Requests \cup {NoRequest}, odd : BOOLEAN]
    BY DEF ArbTxs
  <2>2. base \in B /\ quote \in Q
    BY <1>5
  <2> HIDE DEF B, Q
  <2> QED
    BY <1>1, <1>2, <1>6, <1>7, <2>1, <2>2
<1>9. IInv'
  BY <1>2, <1>3, <1>8 DEF IInv, Transaction
<1>10. \A k \in Keys : book'[k] # book[k] => Priced(k, book[k], book'[k])
  BY <1>2, <1>3
<1> QED
  BY <1>9, <1>10

LEMMA EndArbInv ==
    ASSUME IInv, EndArb
    PROVE  IInv'
<1> DEFINE b == Asks(tx.takes["base"])
           q == Asks(tx.takes["quote"])
           m == MakerAfter(maker, "base", b)
           n == MakerAfter(m, "quote", q)
           base == bank["base"] + b.bids - q.offer - tx.profit["base"]
           quote == bank["quote"] + q.bids - b.offer - tx.profit["quote"]
<1>1. tx \in ArbTxs
  BY ByPhase DEF IInv, EndArb
<1>2. /\ b \in Amounts /\ q \in Amounts
      /\ tx.profit["base"] \in Int /\ tx.profit["quote"] \in Int
      /\ tx.then \in Requests \cup {NoRequest}
  <2>1. tx.takes["base"] \in Amounts /\ tx.takes["quote"] \in Amounts
    BY <1>1 DEF ArbTxs, Sides
  <2>2. /\ tx.profit["base"] \in Int /\ tx.profit["quote"] \in Int
        /\ tx.then \in Requests \cup {NoRequest}
    BY <1>1 DEF ArbTxs, Sums, Sides
  <2> QED
    BY <2>1, <2>2, AsksType
<1>3. /\ maker' = n
      /\ bank' = Coins(base, quote)
      /\ tx' = IF tx.then = NoRequest THEN Idle ELSE Swapping(tx.then, n)
      /\ UNCHANGED <<book, orders, oracle, config, saved, txs>>
  BY DEF EndArb
<1>4. /\ tx.profit["base"] <= bank["base"] + b.bids - q.offer
      /\ tx.profit["quote"] <= bank["quote"] + q.bids - b.offer
  BY DEF EndArb, ArbPayable
<1> HIDE DEF b, q
<1>5. n \in XYK!States
  <2>1. m \in XYK!States
    BY <1>2, MakerAfterType DEF IInv
  <2> HIDE DEF m
  <2> QED
    BY <1>2, <2>1, MakerAfterType
<1>6. bank' \in Balances
  <2>1. bank["base"] \in Nat /\ bank["quote"] \in Nat
    BY DEF IInv, Balances, Sides
  <2>2. b.offer \in Nat /\ b.bids \in Nat /\ q.offer \in Nat /\ q.bids \in Nat
    BY <1>2 DEF Amounts
  <2>3. base \in Nat /\ quote \in Nat
    BY <1>2, <1>4, <2>1, <2>2
  <2> HIDE DEF base, quote
  <2> QED
    BY <1>3, <2>3, CoinsType DEF Balances
<1> HIDE DEF n
<1>7. Transaction(tx)'
  <2>1. CASE tx.then = NoRequest
    BY <1>3, <2>1 DEF Transaction
  <2>2. CASE tx.then # NoRequest
    <3>1. Transaction(Swapping(tx.then, n))
      BY <1>2, <1>5, <2>2, SwappingType DEF IInv
    <3> QED
      BY <1>3, <2>2, <3>1 DEF Transaction
  <2> QED
    BY <2>1, <2>2
<1> QED
  BY <1>3, <1>5, <1>6, <1>7 DEF IInv

LEMMA SwapNextInv ==
    ASSUME IInv, SwapNext
    PROVE  /\ IInv'
           /\ \A k \in Keys : book'[k] # book[k] => Priced(k, book[k], book'[k])
<1>1. PICK side \in Sides : tx \in SwapTxs(side)
  BY ByPhase DEF IInv, SwapNext
<1>2. /\ tx.offer \in Nat /\ tx.returned \in Nat /\ tx.row \in Seq(ItemsOf(side))
      /\ tx.take \in Amounts
  BY <1>1 DEF SwapTxs
<1>3. tx.row # <<>>
  BY DEF SwapNext, Satisfied
<1> DEFINE item == Head(tx.row)
           rest == Tail(tx.row)
           offer == tx.offer
           trade == Trade(book, item, offer)
<1>4. item \in ItemsOf(side) /\ rest \in Seq(ItemsOf(side))
  BY <1>2, <1>3, HeadAndTail
<1>5. /\ CanTrade(book, item, offer)
      /\ book' = trade.book
      /\ tx' = [tx EXCEPT !.offer = offer - trade.offer, !.returned = tx.returned + trade.bids,
                          !.row = rest, !.take = Added(tx.take, trade.maker)]
      /\ UNCHANGED <<orders, bank, maker, oracle, config, saved, txs>>
  BY DEF SwapNext
<1>6. oracle \in Nat /\ book \in Books /\ offer \in Nat
  BY <1>2 DEF IInv
<1> HIDE DEF item, rest, offer
<1>7. /\ trade.offer \in 0 .. offer /\ trade.bids \in Nat /\ trade.book \in Books
      /\ trade.maker \in Amounts
      /\ \A k \in Keys : trade.book[k] # book[k] =>
             k.side = side /\ Priced(k, book[k], trade.book[k])
  BY <1>4, <1>5, <1>6, TradeType
<1> HIDE DEF trade
<1>8. tx' \in SwapTxs(side)
  <2> DEFINE R == Seq(ItemsOf(side))
             taken == Added(tx.take, trade.maker)
             left == offer - trade.offer
             returned == tx.returned + trade.bids
  <2>1. SwapTxs(side) = [phase : {"swap"}, side : {side}, offer : Nat, min : Nat,
                         returned : Nat, row : R, take : Amounts]
    BY DEF SwapTxs
  <2>2. rest \in R /\ taken \in Amounts
    BY <1>2, <1>4, <1>7, AddedType
  <2>3. left \in Nat /\ returned \in Nat
    BY <1>2, <1>6, <1>7
  <2>4. tx' = [tx EXCEPT !.offer = left, !.returned = returned, !.row = rest, !.take = taken]
    BY <1>5
  <2> HIDE DEF R, taken, left, returned
  <2>5. /\ tx \in [phase : {"swap"}, side : {side}, offer : Nat, min : Nat,
                   returned : Nat, row : R, take : Amounts]
        /\ tx.min \in Nat
    BY <1>1, <2>1
  <2>6. tx' = [phase |-> "swap", side |-> side, offer |-> left, min |-> tx.min,
               returned |-> returned, row |-> rest, take |-> taken]
    BY <2>4, <2>5
  <2> QED
    BY <2>1, <2>2, <2>3, <2>5, <2>6
<1>9. IInv'
  BY <1>5, <1>7, <1>8 DEF IInv, Transaction
<1> QED
  BY <1>5, <1>7, <1>9

LEMMA EndSwapInv ==
    ASSUME IInv, EndSwap
    PROVE  IInv'
<1>1. PICK side \in Sides : tx \in SwapTxs(side)
  BY ByPhase DEF IInv, EndSwap
<1> DEFINE t == Asks(tx.take)
           got == bank[side] + t.bids - tx.returned
           kept == bank[Ask(side)] - t.offer - tx.offer
<1>2. tx.side = side /\ tx.offer \in Nat /\ tx.returned \in Nat /\ tx.take \in Amounts
  BY <1>1 DEF SwapTxs
<1>3. t \in Amounts
  BY <1>2, AsksType
<1>4. /\ maker' = MakerAfter(maker, side, t)
      /\ bank' = [bank EXCEPT ![side] = got, ![Ask(side)] = kept]
      /\ t.offer + tx.offer <= bank[Ask(side)]
      /\ tx.returned <= bank[side] + t.bids
      /\ tx' = Idle
      /\ UNCHANGED <<book, orders, oracle, config, saved, txs>>
  <2>1. /\ maker' = MakerAfter(maker, tx.side, t)
        /\ bank' = [bank EXCEPT ![tx.side] = bank[tx.side] + t.bids - tx.returned,
                                ![Ask(tx.side)] = @ - t.offer - tx.offer]
        /\ t.offer + tx.offer <= bank[Ask(tx.side)]
        /\ tx.returned <= bank[tx.side] + t.bids
        /\ tx' = Idle
        /\ UNCHANGED <<book, orders, oracle, config, saved, txs>>
    BY DEF EndSwap, SwapPayable
  <2>2. Ask(side) # side /\ side \in DOMAIN bank /\ Ask(side) \in DOMAIN bank
    BY AskType DEF IInv, Balances
  <2> HIDE DEF t
  <2>3. bank' = [bank EXCEPT ![side] = got, ![Ask(side)] = kept]
    BY <1>2, <2>1, <2>2
  <2> HIDE DEF got, kept
  <2> QED
    BY <1>2, <2>1, <2>3
<1> HIDE DEF t
<1>5. maker' \in XYK!States
  BY <1>3, <1>4, MakerAfterType DEF IInv
<1>6. bank' \in Balances
  <2>1. bank[side] \in Nat /\ bank[Ask(side)] \in Nat
    BY AskType DEF IInv, Balances
  <2>2. t.offer \in Nat /\ t.bids \in Nat
    BY <1>3 DEF Amounts
  <2>3. got \in Nat /\ kept \in Nat
    BY <1>2, <1>4, <2>1, <2>2
  <2> HIDE DEF got, kept
  <2> QED
    BY <1>4, <2>3 DEF IInv, Balances
<1> QED
  BY <1>4, <1>5, <1>6 DEF IInv, Transaction

LEMMA RevertInv ==
    ASSUME IInv, Revert
    PROVE  IInv'
BY DEF IInv, Revert, Founds, Transaction

LEMMA BetweenInv ==
    ASSUME IInv
    PROVE  /\ \A c \in Configs : UpdateConfig(c) => IInv'
           /\ \A p \in OraclePrices : OracleMoves(p) => IInv'
<1>1. OraclePrices \subseteq Nat
  BY FinAssumptions
<1> QED
  BY <1>1 DEF IInv, UpdateConfig, OracleMoves, Between

LEMMA NextInv == IInv /\ [Next]_vars => IInv'
<1> SUFFICES ASSUME IInv, [Next]_vars PROVE IInv'
  OBVIOUS
<1>1. CASE UNCHANGED vars
  BY <1>1 DEF vars, IInv
<1>2. ASSUME NEW o \in Owners, BeginOrders(o) PROVE IInv'
  BY <1>2, BeginOrdersInv
<1>3. ASSUME NEW k \in Keys, NEW n \in Targets, NewOrder(k, n) PROVE IInv'
  BY <1>3, NewOrderInv
<1>4. ASSUME NEW k \in Keys, NEW n, n \in Targets \/ n = Unchanging(k), VisitOrder(k, n)
      PROVE  IInv'
  BY <1>4, VisitOrderInv
<1>5. CASE Orders
  BY <1>2, <1>3, <1>4, <1>5 DEF Orders
<1>6. ASSUME NEW s \in Sides, NEW n \in Offers, NEW min \in MinReturns, BeginSwap(s, n, min)
      PROVE  IInv'
  BY <1>6, BeginSwapInv
<1>7. CASE Proceed
  BY <1>7, EndOrdersInv, RoundInv, EndArbInv, SwapNextInv, EndSwapInv, RevertInv DEF Proceed
<1> QED
  BY <1>1, <1>5, <1>6, <1>7, BetweenInv DEF Next

\* A step of a transaction that is not its end trades at the pools' prices.
LEMMA NextPriced ==
    ASSUME IInv, Next, tx.phase \in {"arb", "swap"}, tx' # Idle
    PROVE  \A k \in Keys : book'[k] # book[k] => Priced(k, book[k], book'[k])
<1>1. ~ Orders
  <2>1. \A o \in Owners : ~ BeginOrders(o)
    BY DEF BeginOrders, Begin, Idle
  <2>2. \A k \in Keys : ~ MayVisit(k)
    BY DEF MayVisit
  <2>3. \A k \in Keys : \A n : ~ NewOrder(k, n) /\ ~ VisitOrder(k, n)
    BY <2>2 DEF NewOrder, VisitOrder
  <2> QED
    BY <2>1, <2>3 DEF Orders
<1>2. \A s \in Sides, n \in Offers, min \in MinReturns : ~ BeginSwap(s, n, min)
  BY DEF BeginSwap, Begin, Idle
<1>3. /\ \A c \in Configs : ~ UpdateConfig(c)
      /\ \A p \in OraclePrices : ~ OracleMoves(p)
  BY DEF UpdateConfig, OracleMoves, Between, Idle
<1>4. CASE EndOrders
  BY <1>4 DEF EndOrders
<1>5. CASE Round
  BY <1>5, RoundInv
<1>6. CASE EndArb
  BY <1>6 DEF EndArb
<1>7. CASE SwapNext
  BY <1>7, SwapNextInv
<1>8. CASE EndSwap \/ Revert
  BY <1>8 DEF EndSwap, Revert
<1> QED
  BY <1>1, <1>2, <1>3, <1>4, <1>5, <1>6, <1>7, <1>8 DEF Next, Proceed

-----------------------------------------------------------------------------
(* What is left of the rows                                                *)

\* The rows of a transaction: their items share no pools, and what was not yet
\* traded is as it was read.
RowsInv ==
    /\ tx.phase = "arb" => Ready("base", book, tx.base) /\ Ready("quote", book, tx.quote)
    /\ tx.phase = "swap" => Untouched(book, tx.row)

LEMMA RowsLater ==
    ASSUME oracle' = oracle,
           tx'.phase = "arb" => /\ Ready("base", book', tx'.base)
                                /\ Ready("quote", book', tx'.quote),
           tx'.phase = "swap" => Untouched(book', tx'.row)
    PROVE  RowsInv'
BY DEF RowsInv, Ready, Fits, Rate, Adjusted

\* A phase that trades starts from what the rows read.
LEMMA ArbRows ==
    ASSUME IInv, oracle' = oracle, book' = book, NEW then, tx' = Arb(then, maker)
    PROVE  RowsInv'
<1>1. /\ Ready("base", book, Row("base", maker))
      /\ Ready("quote", book, Row("quote", maker))
  BY RowReady DEF IInv, Sides
<1>2. /\ tx'.phase = "arb"
      /\ tx'.base = Row("base", maker) /\ tx'.quote = Row("quote", maker)
  BY DEF Arb
<1> QED
  BY <1>1, <1>2, RowsLater

LEMMA EndArbRows ==
    ASSUME IInv, EndArb
    PROVE  RowsInv'
<1>1. IInv' /\ book' = book /\ oracle' = oracle /\ config' = config
  BY EndArbInv DEF EndArb
<1>2. tx' = Idle \/ (tx' = Swapping(tx.then, maker') /\ tx.then \in Requests)
  <2>1. tx.then \in Requests \cup {NoRequest}
    BY ByPhase DEF IInv, EndArb, ArbTxs
  <2> QED
    BY <2>1 DEF EndArb
<1>3. CASE tx' = Idle
  <2>1. tx'.phase = "idle"
    BY <1>3 DEF Idle
  <2> QED
    BY <1>1, <2>1, RowsLater
<1>4. CASE tx' = Swapping(tx.then, maker') /\ tx.then \in Requests
  <2>1. tx.then.side \in Sides /\ maker' \in XYK!States
    BY <1>1, <1>4 DEF Requests, IInv
  <2>2. Untouched(book, Row(tx.then.side, maker'))
    BY <2>1, RowReady DEF IInv
  <2>3. tx'.phase = "swap" /\ tx'.row = Row(tx.then.side, maker')
    BY <1>4 DEF Swapping
  <2> QED
    BY <1>1, <2>2, <2>3, RowsLater
<1> QED
  BY <1>2, <1>3, <1>4

LEMMA RoundRows ==
    ASSUME IInv, RowsInv, Round
    PROVE  RowsInv'
<1> DEFINE b == Head(tx.base)
           q == Head(tx.quote)
           n == Total(book, b)
           forth == Trade(book, q, n)
           back == Trade(forth.book, b, forth.bids)
<1>1. /\ tx \in ArbTxs /\ BothSides /\ CanArb
      /\ Forth = forth /\ Back(forth) = back
  BY ByPhase DEF IInv, Round, Forth, Back
<1>2. /\ tx.base \in Seq(ItemsOf("base")) /\ tx.quote \in Seq(ItemsOf("quote"))
      /\ tx.base # <<>> /\ tx.quote # <<>>
      /\ b \in ItemsOf("base") /\ q \in ItemsOf("quote")
  <2>1. tx.base \in Seq(ItemsOf("base")) /\ tx.quote \in Seq(ItemsOf("quote"))
    BY <1>1 DEF ArbTxs
  <2>2. tx.base # <<>> /\ tx.quote # <<>>
    BY <1>1 DEF BothSides
  <2> QED
    BY <2>1, <2>2, HeadAndTail
<1>3. oracle \in Nat /\ book \in Books
  BY DEF IInv
<1>4. CanTrade(book, q, n) /\ CanTrade(forth.book, b, forth.bids)
  BY <1>1 DEF CanArb, CanBack
<1>5. /\ book' = back.book /\ oracle' = oracle
      /\ tx'.phase = "arb"
      /\ tx'.base = Rest(tx.base, back.book, back.item)
      /\ tx'.quote = Rest(tx.quote, back.book, forth.item)
  <2> DEFINE f == Forth
             g == Back(f)
             base == Rest(tx.base, g.book, g.item)
             quote == Rest(tx.quote, g.book, f.item)
             profit == Coins(tx.profit["base"] + g.bids - f.offer,
                             tx.profit["quote"] + f.bids - g.offer)
             takes == [s \in Sides |-> Added(tx.takes[s], IF s = "base" THEN g.maker
                                                                       ELSE f.maker)]
  <2>1. /\ book' = g.book /\ oracle' = oracle
        /\ tx' = [tx EXCEPT !.odd = ~ tx.odd, !.base = base, !.quote = quote,
                            !.profit = profit, !.takes = takes]
    BY DEF Round
  <2> HIDE DEF base, quote, profit, takes, f, g, forth, back
  <2>2. tx'.phase = "arb" /\ tx'.base = base /\ tx'.quote = quote
    BY <1>1, <2>1 DEF ArbTxs
  <2>3. f = forth /\ g = back
    BY <1>1 DEF f, g
  <2> QED
    BY <2>1, <2>2, <2>3 DEF base, quote
<1>6. Ready("base", book, tx.base) /\ Ready("quote", book, tx.quote)
  BY <1>1 DEF RowsInv, ArbTxs
<1>7. Fits("base", b) /\ Fits("quote", q)
  <2>1. b = tx.base[1] /\ 1 \in DOMAIN tx.base /\ q = tx.quote[1] /\ 1 \in DOMAIN tx.quote
    BY <1>2
  <2> QED
    BY <1>6, <2>1 DEF Ready
<1> HIDE DEF b, q
<1>8. n \in Nat
  BY <1>2, <1>3, TotalType
<1> HIDE DEF n
<1>9. /\ forth.bids \in Nat /\ forth.book \in Books /\ forth.item \in ItemsOf("quote")
      /\ \A k \in Keys : forth.book[k] # book[k] => k.side = "quote" /\ k \in Uses(q)
  BY <1>2, <1>3, <1>4, <1>8, TradeType, TradeParts
<1>10. /\ Uses(forth.item) = Uses(q) /\ Fits("quote", forth.item)
       /\ QuoteAtRate("quote", forth.item) /\ Total(forth.book, forth.item) # 0
              => CanSplit(forth.book, forth.item)
  <2>1. CanSplit(book, q)
    BY <1>4 DEF CanTrade
  <2>2. Uses(forth.item) = Uses(q) /\ Fits("quote", forth.item)
    BY <1>2, <1>3, <1>7, <1>8, <2>1, TradeKeeps
  <2> QED
    BY <1>2, <1>3, <1>4, <1>7, <1>8, <2>2, KeepsSplit
<1> DEFINE middle == forth.book
           m == forth.bids
           left == forth.item
<1>11. /\ middle \in Books /\ m \in Nat /\ CanTrade(middle, b, m)
       /\ back = Trade(middle, b, m)
       /\ \A k \in Keys : middle[k] # book[k] => k.side = "quote" /\ k \in Uses(q)
  BY <1>4, <1>9
<1>12. /\ left \in ItemsOf("quote") /\ Uses(left) = Uses(q) /\ Fits("quote", left)
       /\ QuoteAtRate("quote", left) /\ Total(middle, left) # 0 => CanSplit(middle, left)
  BY <1>9, <1>10
<1>13. /\ book' = back.book
       /\ tx'.base = Rest(tx.base, back.book, back.item)
       /\ tx'.quote = Rest(tx.quote, back.book, left)
  BY <1>5
<1> HIDE DEF forth, middle, m, left, back
<1> DEFINE c == back.book
           item == back.item
<1>14. /\ c \in Books /\ item \in ItemsOf("base")
       /\ \A k \in Keys : c[k] # middle[k] => k.side = "base" /\ k \in Uses(b)
  BY <1>2, <1>3, <1>11, TradeType, TradeParts
<1>15. /\ Uses(item) = Uses(b) /\ Fits("base", item)
       /\ QuoteAtRate("base", item) /\ Total(c, item) # 0 => CanSplit(c, item)
  <2>1. CanSplit(middle, b)
    BY <1>11 DEF CanTrade
  <2>2. Uses(item) = Uses(b) /\ Fits("base", item)
    BY <1>2, <1>7, <1>11, <2>1, TradeKeeps
  <2> QED
    BY <1>2, <1>3, <1>7, <1>11, <2>2, KeepsSplit
<1> HIDE DEF c, item
<1>16. Changes(book, c, "base", b) /\ Changes(book, c, "quote", q)
  BY <1>11, <1>14 DEF Changes
<1>17. QuoteAtRate("quote", left) /\ Total(c, left) # 0 => CanSplit(c, left)
  <2>1. \A k \in Keys : c[k] # middle[k] => k.side # "quote"
    BY <1>14
  <2>2. Total(c, left) = Total(middle, left) /\ (CanSplit(c, left) <=> CanSplit(middle, left))
    BY <1>12, <2>1, SameTotals
  <2> QED
    BY <1>12, <2>2
<1>18. Ready("base", c, Rest(tx.base, c, item))
  BY <1>2, <1>6, <1>14, <1>15, <1>16, RestReady DEF b
<1>19. Ready("quote", c, Rest(tx.quote, c, left))
  BY <1>2, <1>6, <1>12, <1>14, <1>16, <1>17, RestReady DEF q
<1>20. Ready("base", book', tx'.base) /\ Ready("quote", book', tx'.quote)
  BY <1>13, <1>18, <1>19 DEF c, item
<1> QED
  BY <1>5, <1>20, RowsLater

LEMMA SwapNextRows ==
    ASSUME IInv, RowsInv, SwapNext
    PROVE  RowsInv'
<1>1. PICK side \in Sides : tx \in SwapTxs(side)
  BY ByPhase DEF IInv, SwapNext
<1> DEFINE row == tx.row
           item == Head(row)
           n == tx.offer
           trade == Trade(book, item, n)
           c == trade.book
<1>2. n \in Nat /\ row \in Seq(ItemsOf(side)) /\ row # <<>> /\ Untouched(book, row)
  BY <1>1 DEF SwapTxs, SwapNext, Satisfied, RowsInv
<1>3. oracle \in Nat /\ book \in Books /\ CanTrade(book, item, n)
  BY DEF IInv, SwapNext
<1>4. /\ book' = c /\ oracle' = oracle /\ tx'.phase = "swap" /\ tx'.row = Tail(row)
  <2>1. /\ book' = c /\ oracle' = oracle
        /\ tx' = [tx EXCEPT !.offer = tx.offer - trade.offer,
                            !.returned = tx.returned + trade.bids,
                            !.row = Tail(row), !.take = Added(tx.take, trade.maker)]
    BY DEF SwapNext
  <2> HIDE DEF trade, c
  <2> QED
    BY <1>1, <2>1 DEF SwapTxs
<1> HIDE DEF row, n
<1>5. item \in ItemsOf(side)
  BY <1>2, HeadAndTail
<1>6. \A k \in Keys : c[k] # book[k] => k \in Uses(item)
  <2> HIDE DEF item
  <2> QED
    BY <1>2, <1>3, <1>5, TradeParts
<1> HIDE DEF trade, c
<1>7. Changes(book, c, side, Head(row)) /\ Waiting(book, row) /\ Apart(row)
  BY <1>2, <1>6 DEF Changes, Waiting, Untouched
<1>8. Untouched(c, Tail(row))
  BY <1>2, <1>7, TailFresh DEF Untouched
<1> QED
  BY <1>4, <1>8, RowsLater

LEMMA NextRows == IInv /\ RowsInv /\ [Next]_vars => RowsInv'
<1> SUFFICES ASSUME IInv, RowsInv, [Next]_vars PROVE RowsInv'
  OBVIOUS
<1>1. CASE UNCHANGED vars
  BY <1>1, RowsLater DEF vars, RowsInv
<1>2. ASSUME NEW o \in Owners, BeginOrders(o) PROVE RowsInv'
  <2>1. tx'.phase = "orders" /\ oracle' = oracle
    BY <1>2 DEF BeginOrders, Begin, Managed
  <2> QED
    BY <2>1, RowsLater
<1>3. ASSUME NEW k, NEW n, NewOrder(k, n) \/ VisitOrder(k, n) PROVE RowsInv'
  <2>1. tx \in OrderTxs
    BY <1>3, ByPhase DEF IInv, NewOrder, VisitOrder, MayVisit
  <2>2. tx'.phase = "orders" /\ oracle' = oracle
    BY <1>3, <2>1 DEF OrderTxs, NewOrder, VisitOrder, Visited
  <2> QED
    BY <2>2, RowsLater
<1>4. CASE Orders
  BY <1>2, <1>3, <1>4 DEF Orders
<1>5. ASSUME NEW s \in Sides, NEW n \in Offers, NEW min \in MinReturns, BeginSwap(s, n, min)
      PROVE  RowsInv'
  <2>1. /\ tx' = Arb([side |-> s, offer |-> n, min |-> min], maker)
        /\ book' = book /\ oracle' = oracle
    BY <1>5 DEF BeginSwap, Begin
  <2> QED
    BY <2>1, ArbRows
<1>6. CASE EndOrders
  BY <1>6, ArbRows DEF EndOrders
<1>7. CASE EndSwap \/ Revert \/ (\E c \in Configs : UpdateConfig(c))
            \/ (\E p \in OraclePrices : OracleMoves(p))
  <2>1. tx' = Idle
    BY <1>7 DEF EndSwap, Revert, UpdateConfig, OracleMoves, Between
  <2>2. ~ (tx'.phase = "arb") /\ ~ (tx'.phase = "swap")
    BY <2>1 DEF Idle
  <2> QED
    BY <2>2 DEF RowsInv
<1>8. CASE Round
  BY <1>8, RoundRows
<1>9. CASE EndArb
  BY <1>9, EndArbRows
<1>10. CASE SwapNext
  BY <1>10, SwapNextRows
<1> QED
  BY <1>1, <1>4, <1>5, <1>6, <1>7, <1>8, <1>9, <1>10 DEF Next, Proceed

LEMMA InitRows == Init => RowsInv
BY DEF Init, RowsInv, Idle

\* No split divides by zero, but for a base side whose quote is worse than the
\* rate of its item: the parts of Honoured that are about splits.
SplitsDefined ==
    /\ tx.phase = "arb" /\ BothSides =>
         /\ CanSplit(book, Head(tx.quote))
         /\ QuoteAtRate("base", Head(tx.base)) => CanSplit(book, Head(tx.base))
    /\ tx.phase = "swap" /\ ~ Satisfied => CanSplit(book, Head(tx.row))

LEMMA RowsSplit == IInv /\ RowsInv => SplitsDefined
<1> SUFFICES ASSUME IInv, RowsInv PROVE SplitsDefined
  OBVIOUS
<1>1. ASSUME tx.phase = "arb", BothSides
      PROVE  /\ CanSplit(book, Head(tx.quote))
             /\ QuoteAtRate("base", Head(tx.base)) => CanSplit(book, Head(tx.base))
  <2>1. /\ Ready("base", book, tx.base) /\ Ready("quote", book, tx.quote)
        /\ tx.base # <<>> /\ tx.quote # <<>>
    BY <1>1 DEF RowsInv, BothSides
  <2>2. tx.quote \in Seq(ItemsOf("quote"))
    BY <1>1, ByPhase DEF IInv, ArbTxs
  <2>3. Head(tx.quote) = tx.quote[1] /\ 1 \in DOMAIN tx.quote
    BY <2>1, <2>2
  <2>4. QuoteAtRate("quote", Head(tx.quote))
    BY <2>1, <2>3 DEF Ready, Fits, QuoteAtRate, RateOn
  <2> QED
    BY <2>1, <2>4 DEF Ready
<1>2. ASSUME tx.phase = "swap", ~ Satisfied
      PROVE  CanSplit(book, Head(tx.row))
  <2>1. PICK side \in Sides : tx \in SwapTxs(side)
    BY <1>2, ByPhase DEF IInv
  <2>2. /\ tx.row \in Seq(ItemsOf(side)) /\ tx.row # <<>>
        /\ Untouched(book, tx.row) /\ book \in Books
    BY <1>2, <2>1 DEF SwapTxs, Satisfied, RowsInv, IInv
  <2>3. Head(tx.row) = tx.row[1] /\ 1 \in DOMAIN tx.row /\ Head(tx.row) \in ItemsOf(side)
    BY <2>2
  <2>4. Fresh(book, Head(tx.row))
    BY <2>2, <2>3 DEF Untouched
  <2> QED
    BY <2>2, <2>3, <2>4, FreshSplits
<1> QED
  BY <1>1, <1>2 DEF SplitsDefined

-----------------------------------------------------------------------------
(* The theorems                                                            *)

\* In every state the pools are pools that trades, orders and syncs are
\* defined on, and the transaction under way is what its phase needs.
THEOREM FinInvariant == Spec => []IInv
<1> QED
  BY InitInv, NextInv, PTL DEF Spec

\* No balance, pool, order or share goes below zero, whatever is ordered,
\* swapped, traded or failed.
THEOREM TypeCorrect == Spec => []TypeOK
<1>1. IInv => TypeOK
  <2> SUFFICES ASSUME IInv PROVE TypeOK
    OBVIOUS
  <2>1. \A k \in Keys : book[k].pool.total \in Nat /\ book[k].paid \in Nat
    <3> SUFFICES ASSUME NEW k \in Keys
                 PROVE  book[k].pool.total \in Nat /\ book[k].paid \in Nat
      OBVIOUS
    <3>1. book[k].pool \in GoodPools /\ book[k].paid \in Nat
      BY DEF IInv, Books
    <3> QED
      BY <3>1, PoolParts
  <2>2. \A o \in Owners, k \in Keys :
            orders[o][k].amount \in Nat /\ orders[o][k].filled \in Nat
    <3> SUFFICES ASSUME NEW o \in Owners, NEW k \in Keys
                 PROVE  orders[o][k].amount \in Nat /\ orders[o][k].filled \in Nat
      OBVIOUS
    <3>1. orders[o][k] \in Bids \cup {NoOrder}
      BY DEF IInv, Ledgers
    <3> QED
      BY <3>1 DEF Bids, NoOrder
  <2>3. bank \in [Sides -> Nat] /\ maker \in [x : Nat, y : Nat, shares : Nat]
    BY DEF IInv, Balances, XYK!States
  <2>4. tx.phase \in {"idle", "orders", "arb", "swap"}
    BY ByPhase DEF IInv
  <2>5. tx.phase = "swap" => tx.offer \in Nat /\ tx.returned \in Nat
    BY ByPhase DEF IInv, SwapTxs
  <2> QED
    BY <2>1, <2>2, <2>3, <2>4, <2>5 DEF TypeOK
<1> QED
  BY <1>1, FinInvariant, PTL

\* Whoever trades with a pool, in a swap or when the two sides are traded
\* against each other, pays its price.
THEOREM TradesAtPrice == Spec => AtItsPrice
<1>1. IInv /\ [Next]_vars =>
          [tx.phase \in {"arb", "swap"} /\ tx' # Idle =>
              \A k \in Keys : book'[k] # book[k] => Priced(k, book[k], book'[k])]_vars
  BY NextPriced
<1>2. ASSUME tx.phase \in {"arb", "swap"} /\ tx' # Idle =>
                 \A k \in Keys : book'[k] # book[k] => Priced(k, book[k], book'[k])
      PROVE  tx.phase \in {"arb", "swap"} /\ tx' # Idle =>
                 \A k \in Keys :
                   LET given == book[k].pool.total - book'[k].pool.total
                       paid  == book'[k].paid - book[k].paid
                       rate  == Rate(k.price)
                   IN  book'[k] # book[k] =>
                         /\ IF k.side = "base" THEN given * rate <= paid * One
                            ELSE given * One * One <= (paid * One + 1) * rate
                         /\ (paid - 1) * RateOn(k.side, rate) <= (given + 1) * One
  BY <1>2, Zenon DEF Priced
<1> QED
  BY <1>1, <1>2, FinInvariant, PTL DEF Spec, AtItsPrice

\* An offer is split between pools and the quote of the market maker, and
\* between two pools, only where there is something to split by, however often
\* an item was traded before: on the quote side and in a swap without
\* exception, on the base side while the item's quote is no worse than its rate.
THEOREM SplitsAreDefined == Spec => []SplitsDefined
<1>1. Init => IInv /\ RowsInv
  BY InitInv, InitRows
<1>2. (IInv /\ RowsInv) /\ [Next]_vars => (IInv /\ RowsInv)'
  BY NextInv, NextRows
<1>3. IInv /\ RowsInv => SplitsDefined
  BY RowsSplit
<1> QED
  BY <1>1, <1>2, <1>3, PTL DEF Spec

=============================================================================
