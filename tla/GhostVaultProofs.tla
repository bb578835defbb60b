-------------------------- MODULE GhostVaultProofs --------------------------
(***************************************************************************)
(* What holds of the lending vault for any accounts, amounts, curves and   *)
(* number of digits, and of the share pool it is built from.               *)
(***************************************************************************)
EXTENDS GhostVault, TLAPS

-----------------------------------------------------------------------------
(* Arithmetic                                                              *)

LEMMA FloorOf ==
    ASSUME NEW a \in Nat
    PROVE  /\ ToFloor(a) \in Nat
           /\ ToFloor(a) * One <= a
           /\ a < (ToFloor(a) + 1) * One
BY OneAssumption DEF ToFloor

LEMMA FloorAdd ==
    ASSUME NEW a \in Nat, NEW b \in Nat
    PROVE  ToFloor(a) + ToFloor(b) <= ToFloor(a + b)
BY OneAssumption DEF ToFloor

LEMMA FloorLess ==
    ASSUME NEW a \in Nat, NEW n \in Nat, n <= ToFloor(a)
    PROVE  /\ a - n * One \in Nat
           /\ ToFloor(a - n * One) = ToFloor(a) - n
<1> DEFINE f == ToFloor(a)
<1>1. f \in Nat /\ f * One <= a /\ n <= f
  BY FloorOf
<1> HIDE DEF f
<1>2. n * One <= f * One
  BY <1>1, OneAssumption
<1>3. a - n * One \in Nat
  BY <1>1, <1>2, OneAssumption
<1> QED
  BY <1>3, OneAssumption DEF ToFloor

LEMMA WholeDecimal == ASSUME NEW n \in Nat PROVE FromRatio(n, 1) = n * One /\ n * One \in Nat
BY OneAssumption DEF FromRatio

\* What is issued for a deposit is at most its part of the shares.
LEMMA IssuedAtMost ==
    ASSUME NEW s \in Nat \ {0}, NEW a \in Nat, NEW t \in Nat
    PROVE  LET r == (a * One) \div s
               i == (t * r) \div One
           IN  i \in Nat /\ i * s <= t * a
<1> DEFINE r == (a * One) \div s
           i == (t * r) \div One
<1>1. r \in Nat /\ r * s <= a * One
  BY OneAssumption
<1>2. i \in Nat /\ i * One <= t * r
  BY <1>1, OneAssumption
<1> HIDE DEF r, i
<1>3. (i * One) * s <= (t * r) * s
  BY <1>1, <1>2, OneAssumption
<1>4. (t * r) * s = t * (r * s) /\ t * (r * s) <= t * (a * One)
  BY <1>1, OneAssumption
<1>5. (i * s) * One <= (t * a) * One
  BY <1>1, <1>2, <1>3, <1>4, OneAssumption
<1>6. i * s \in Nat /\ t * a \in Nat
  BY <1>2
<1>7. i * s <= t * a
  BY <1>5, <1>6, OneAssumption
<1> QED
  BY <1>2, <1>7 DEF r, i

\* A deposit of a adds a to the size s and i to the shares t, of which f and g
\* are whole before and after.
LEMMA JoinWorth ==
    ASSUME NEW s \in Nat, NEW a \in Nat, NEW t \in Nat, NEW i \in Nat,
           NEW f \in Nat, NEW g \in Nat,
           i * s <= t * a, t < (f + 1) * One, g * One <= t + i
    PROVE  s * g <= (s + a) * (f + 1)
<1>1. s * (g * One) <= s * (t + i)
  BY OneAssumption
<1>2. s * (t + i) <= t * (s + a)
  BY OneAssumption
<1>3. t * (s + a) <= ((f + 1) * One) * (s + a)
  BY OneAssumption
<1>4. (s * g) * One <= ((s + a) * (f + 1)) * One
  BY <1>1, <1>2, <1>3, OneAssumption
<1>5. s * g \in Nat /\ (s + a) * (f + 1) \in Nat
  OBVIOUS
<1> QED
  BY <1>4, <1>5, OneAssumption

\* n of f tokens take c of the size s.
LEMMA LeaveWorth ==
    ASSUME NEW s \in Nat, NEW f \in Nat \ {0}, NEW n \in Nat, n < f
    PROVE  LET c == (s * n) \div f
           IN  /\ c \in Nat /\ c <= s
               /\ s * (f - n) <= (s - c) * (f + 1)
               /\ f <= s => n <= c /\ c - n <= s - f
               /\ f < s => c - n < s - f
<1> DEFINE c == (s * n) \div f
<1>1. c \in Nat /\ c * f <= s * n /\ s * n < (c + 1) * f
  OBVIOUS
<1> HIDE DEF c
<1>2. s * n <= s * f /\ c * f <= s * f
  BY <1>1
<1>3. c <= s
  BY <1>1, <1>2
<1>4. (s - c) * (f + 1) = s * f - c * f + (s - c) /\ s * (f - n) = s * f - s * n
  BY <1>1
<1>5. s * (f - n) <= (s - c) * (f + 1)
  BY <1>1, <1>3, <1>4
<1>6. ASSUME f <= s PROVE n <= c
  <2>1. f * n <= s * n
    BY <1>6
  <2>2. n * f < (c + 1) * f
    BY <1>1, <2>1
  <2>3. n < c + 1
    BY <1>1, <2>2
  <2> QED
    BY <1>1, <2>3
<1>7. ASSUME f < s PROVE c - n < s - f
  <2> DEFINE g == s - f
  <2>1. g \in Nat /\ g > 0 /\ s = f + g
    BY <1>7
  <2> HIDE DEF g
  <2>2. s * n = f * n + g * n
    BY <2>1
  <2>3. g * n < g * f
    BY <2>1
  <2>4. c * f < (n + g) * f
    BY <1>1, <2>1, <2>2, <2>3
  <2>5. c < n + g
    BY <1>1, <2>1, <2>4
  <2> QED
    BY <1>1, <2>1, <2>5
<1>8. ASSUME f = s PROVE c = n
  BY <1>1, <1>8
<1> QED
  BY <1>1, <1>3, <1>5, <1>6, <1>7, <1>8 DEF c

-----------------------------------------------------------------------------
(* The share pool                                                          *)

\* A pool in which a token is worth a coin at least.
Par(p) == p \in SharePools /\ p.shares <= p.size * One

LEMMA GrownPool ==
    ASSUME NEW p, Par(p), NEW n \in Nat
    PROVE  /\ Par(Grown(p, n))
           /\ Grown(p, n).size = p.size + n
           /\ Tokens(Grown(p, n)) = Tokens(p)
           /\ KeepsWorth(p, Grown(p, n))
<1>1. p.size \in Nat /\ p.shares \in Nat /\ p.shares <= p.size * One
  BY DEF Par, SharePools
<1>2. Grown(p, n) = [size |-> p.size + n, shares |-> p.shares]
  BY DEF Grown, Par, SharePools
<1>3. p.size * One <= (p.size + n) * One
  BY <1>1, OneAssumption
<1>4. Par(Grown(p, n))
  BY <1>1, <1>2, <1>3, OneAssumption DEF Par, SharePools
<1>5. Tokens(p) \in Nat
  BY <1>1, FloorOf DEF Tokens
<1>6. p.size * Tokens(p) <= (p.size + n) * (Tokens(p) + 1)
  BY <1>1, <1>5
<1> QED
  BY <1>2, <1>4, <1>6 DEF Tokens, KeepsWorth

\* Who joins is handed no more tokens than the pool counts for him, and costs
\* no other member more than the part of one token.
LEMMA JoinedPool ==
    ASSUME NEW p, Par(p), NEW n \in Nat, CanJoin(p, n)
    PROVE  /\ Par(Joined(p, n))
           /\ Joined(p, n).size = p.size + n
           /\ Minted(p, n) \in Nat
           /\ Tokens(p) + Minted(p, n) <= Tokens(Joined(p, n))
           /\ KeepsWorth(p, Joined(p, n))
<1> DEFINE s == p.size
           t == p.shares
           i == Issuance(p, n)
           f == Tokens(p)
           g == Tokens(Joined(p, n))
<1>1. s \in Nat /\ t \in Nat /\ t <= s * One /\ n > 0 /\ (t # 0 => s > 0)
  BY DEF Par, SharePools, CanJoin
<1>2. i \in Nat /\ (t # 0 => i * s <= t * n) /\ i <= n * One
  <2>1. CASE t = 0
    BY <1>1, <2>1, WholeDecimal DEF Issuance
  <2>2. CASE t # 0
    <3>1. i = (t * ((n * One) \div s)) \div One
      BY <2>2 DEF Issuance, DecMul, FromRatio
    <3> HIDE DEF i, s, t
    <3>2. i \in Nat /\ i * s <= t * n
      BY <1>1, <2>2, <3>1, IssuedAtMost
    <3>3. t * n <= (s * One) * n
      BY <1>1, OneAssumption
    <3>4. i * s <= (n * One) * s
      BY <1>1, <3>2, <3>3, OneAssumption
    <3>5. i <= n * One
      BY <1>1, <2>2, <3>2, <3>4, OneAssumption
    <3> QED
      BY <3>2, <3>5
  <2> QED
    BY <2>1, <2>2
<1>3. Joined(p, n) = [size |-> s + n, shares |-> t + i]
  BY DEF Joined
<1>4. Par(Joined(p, n))
  <2>1. t + i <= (s + n) * One
    BY <1>1, <1>2, OneAssumption
  <2> QED
    BY <1>1, <1>2, <1>3, <2>1 DEF Par, SharePools
<1>5. /\ f \in Nat /\ t < (f + 1) * One /\ f * One <= t
      /\ g \in Nat /\ g * One <= t + i
  BY <1>1, <1>2, <1>3, FloorOf DEF Tokens
<1>6. Minted(p, n) \in Nat /\ f + Minted(p, n) <= g
  <2>1. f = ToFloor(t) /\ Minted(p, n) = ToFloor(i) /\ g = ToFloor(t + i)
    BY <1>3 DEF Tokens, Minted
  <2> HIDE DEF f, g, i, t
  <2> QED
    BY <1>1, <1>2, <2>1, FloorAdd, FloorOf
<1>7. ASSUME f > 0 PROVE s * g <= (s + n) * (f + 1)
  <2> HIDE DEF f, g, i, s, t
  <2>1. t # 0
    BY <1>1, <1>5, <1>7, OneAssumption
  <2> QED
    BY <1>1, <1>2, <1>5, <2>1, JoinWorth
<1> QED
  BY <1>3, <1>4, <1>6, <1>7 DEF KeepsWorth

\* Who leaves takes whole tokens with him and at least a coin for each, and no
\* part of what the others hold.
LEMMA LeftPool ==
    ASSUME NEW p, Par(p), NEW n \in Nat, CanLeave(p, n)
    PROVE  /\ Par(Left(p, n))
           /\ Claim(p, n) \in Nat /\ Claim(p, n) <= p.size /\ n <= Claim(p, n)
           /\ Left(p, n).size = p.size - Claim(p, n)
           /\ Tokens(Left(p, n)) = Tokens(p) - n
           /\ KeepsWorth(p, Left(p, n))
<1> DEFINE s == p.size
           t == p.shares
           f == Tokens(p)
           c == (s * n) \div f
<1>1. s \in Nat /\ t \in Nat /\ t <= s * One
  BY DEF Par, SharePools
<1>2. f \in Nat /\ f * One <= t /\ t < (f + 1) * One /\ f = ToFloor(t)
  BY <1>1, FloorOf DEF Tokens
<1>3. n > 0 /\ n <= f
  BY DEF CanLeave
<1>4. f <= s
  <2> HIDE DEF f, s, t
  <2>1. f * One <= s * One
    BY <1>1, <1>2, OneAssumption
  <2> QED
    BY <1>1, <1>2, <2>1, OneAssumption
<1>5. CASE n = f
  <2>1. Left(p, n) = [size |-> 0, shares |-> 0] /\ Claim(p, n) = s
    BY <1>5 DEF Left, Claim, EmptyShares
  <2>2. ToFloor(0) = 0
    BY OneAssumption DEF ToFloor
  <2>3. Par(Left(p, n))
    BY <2>1, OneAssumption DEF Par, SharePools
  <2>4. Tokens(Left(p, n)) = 0
    BY <2>1, <2>2 DEF Tokens
  <2>5. KeepsWorth(p, Left(p, n))
    BY <2>4 DEF KeepsWorth
  <2> QED
    BY <1>1, <1>2, <1>4, <1>5, <2>1, <2>3, <2>4, <2>5
<1>6. CASE n # f
  <2>1. n < f /\ f \in Nat \ {0}
    BY <1>2, <1>3, <1>6
  <2>2. /\ c \in Nat /\ c <= s /\ n <= c /\ c - n <= s - f
        /\ s * (f - n) <= (s - c) * (f + 1)
        /\ f < s => c - n < s - f
    <3> HIDE DEF f, s
    <3> QED
      BY <1>1, <1>4, <2>1, LeaveWorth
  <2>3. Claim(p, n) = c /\ Ownership(p, n) = c
    BY <1>3, <2>1 DEF Claim, Ownership
  <2>4. Left(p, n) = [size |-> s - c, shares |-> t - n * One]
    BY <2>1, <2>3, WholeDecimal DEF Left
  <2>5. t - n * One \in Nat /\ ToFloor(t - n * One) = f - n
    BY <1>1, <1>2, <1>3, FloorLess
  <2>6. t - n * One <= (s - c) * One
    <3> HIDE DEF f, s, t, c
    <3>1. CASE f < s
      <4>1. f + 1 - n <= s - c
        BY <1>1, <1>2, <2>2, <3>1
      <4>2. (f + 1 - n) * One <= (s - c) * One
        BY <1>1, <1>2, <2>2, <4>1, OneAssumption
      <4>3. (f + 1 - n) * One = (f + 1) * One - n * One
        BY <1>2, OneAssumption
      <4>4. t - n * One <= (f + 1) * One - n * One
        BY <1>1, <1>2, OneAssumption
      <4>5. n * One \in Nat /\ (f + 1) * One \in Nat /\ (s - c) * One \in Nat
        BY <1>1, <1>2, <2>2, OneAssumption
      <4> QED
        BY <1>1, <4>2, <4>3, <4>4, <4>5
    <3>2. CASE f = s
      <4>1. t = s * One /\ c = n
        BY <1>1, <1>2, <2>2, <3>2, OneAssumption
      <4> QED
        BY <1>1, <4>1, OneAssumption
    <3> QED
      BY <1>1, <1>2, <1>4, <3>1, <3>2
  <2>7. Par(Left(p, n))
    BY <1>1, <2>2, <2>4, <2>5, <2>6 DEF Par, SharePools
  <2>8. Tokens(Left(p, n)) = f - n
    BY <2>4, <2>5 DEF Tokens
  <2>9. KeepsWorth(p, Left(p, n))
    BY <2>2, <2>4, <2>8 DEF KeepsWorth
  <2> QED
    BY <2>2, <2>3, <2>4, <2>7, <2>8, <2>9
<1> QED
  BY <1>5, <1>6

\* Interest that comes in before a step does not cost the members anything.
LEMMA GrownFirst ==
    ASSUME NEW p, Par(p), NEW n \in Nat, NEW q, Par(q), KeepsWorth(Grown(p, n), q)
    PROVE  KeepsWorth(p, q)
<1> SUFFICES ASSUME Tokens(p) > 0, Tokens(q) > 0
             PROVE  q.size * (Tokens(p) + 1) >= p.size * Tokens(q)
  BY DEF KeepsWorth
<1>1. Tokens(p) \in Nat /\ Tokens(q) \in Nat /\ p.size \in Nat /\ q.size \in Nat
  BY FloorOf DEF Tokens, Par, SharePools
<1>2. q.size * (Tokens(p) + 1) >= (p.size + n) * Tokens(q)
  BY GrownPool DEF KeepsWorth
<1>3. (p.size + n) * Tokens(q) >= p.size * Tokens(q)
  BY <1>1
<1>4. q.size * (Tokens(p) + 1) \in Nat /\ (p.size + n) * Tokens(q) \in Nat /\ p.size * Tokens(q) \in Nat
  BY <1>1
<1> QED
  BY <1>2, <1>3, <1>4

-----------------------------------------------------------------------------
(* The vault                                                               *)

\* Inductive: a withdrawal with a callback is covered because no token is worth
\* less than a coin, and a pool can pay its tokens because it counts them all.
IInv == TypeOK /\ NotBelowPar /\ Solvent /\ TokensCovered

Worths == KeepsWorth(depositPool, depositPool') /\ KeepsWorth(debtPool, debtPool')

\* When interest can be accrued there is no negative number on the way to it.
LEMMA InterestType == ASSUME TypeOK, CanAccrue PROVE Interest \in Nat
<1>1. /\ depositPool.size \in Nat /\ debtPool.size \in Nat /\ elapsed \in Nat
      /\ interest \in [target : Nat, base : Nat, step1 : Nat, step2 : Nat]
  BY GhostVaultAssumptions DEF TypeOK, SharePools
<1>2. /\ interest.target \in Nat \ {0} /\ interest.target <= One
      /\ interest.base \in Nat /\ interest.step1 \in Nat /\ interest.step2 \in Nat
  BY <1>1 DEF CanAccrue
<1>3. Utilization \in Nat
  <2> DEFINE d == depositPool.size
             r == (d - debtPool.size) * One
  <2>1. CASE d = 0
    BY <2>1 DEF Utilization
  <2>2. CASE d # 0
    <3>1. d \in Nat \ {0} /\ d - debtPool.size \in Nat /\ d - debtPool.size <= d
      BY <1>1, <2>2 DEF CanAccrue
    <3>2. Utilization = One - r \div d
      BY <2>2 DEF Utilization, FromRatio
    <3>3. r \in Nat /\ r <= d * One
      BY <3>1, OneAssumption
    <3> HIDE DEF d, r
    <3>4. r \div d \in Nat /\ r \div d <= One
      BY <3>1, <3>3, OneAssumption
    <3> QED
      BY <3>2, <3>4, OneAssumption
  <2> QED
    BY <2>1, <2>2
<1>4. \A x \in Nat, y \in Nat : DecMul(x, y) \in Nat
  BY OneAssumption DEF DecMul
<1>5. \A x \in Nat, y \in Nat \ {0} : DecDiv(x, y) \in Nat
  BY OneAssumption DEF DecDiv
<1>6. Rate(Utilization) \in Nat
  <2> DEFINE u    == Utilization
             low  == Least(u, interest.target)
             rest == One - interest.target
             a    == DecMul(DecDiv(low, interest.target), interest.step1)
             b    == DecMul(DecDiv(u - low, rest), interest.step2)
  <2>1. low \in Nat /\ u - low \in Nat /\ rest \in Nat
    BY <1>2, <1>3, OneAssumption DEF Least
  <2>2. a \in Nat
    BY <1>2, <1>4, <1>5, <2>1
  <2>3. ASSUME rest # 0 PROVE b \in Nat
    BY <1>2, <1>4, <1>5, <2>1, <2>3
  <2>4. Rate(Utilization) = interest.base + a + (IF rest = 0 THEN 0 ELSE b)
    BY DEF Rate
  <2> HIDE DEF a, b, rest
  <2> QED
    BY <1>2, <2>2, <2>3, <2>4
<1>7. FromRatio(debtPool.size, 1) \in Nat /\ FromRatio(elapsed, Year) \in Nat
  BY <1>1, WholeDecimal, OneAssumption, GhostVaultAssumptions DEF FromRatio
<1>8. DecMul(DecMul(FromRatio(debtPool.size, 1), Rate(Utilization)), FromRatio(elapsed, Year)) \in Nat
  BY <1>4, <1>6, <1>7
<1> QED
  BY <1>8, FloorOf DEF Interest

\* The pools of a reachable state, before and after the interest.
LEMMA Accrued ==
    ASSUME IInv, CanAccrue
    PROVE  /\ Interest \in Nat
           /\ Par(depositPool) /\ Par(debtPool)
           /\ Par(Grown(depositPool, Interest)) /\ Par(Grown(debtPool, Interest))
           /\ Grown(depositPool, Interest).size = depositPool.size + Interest
           /\ Grown(debtPool, Interest).size = debtPool.size + Interest
           /\ Tokens(Grown(depositPool, Interest)) = Tokens(depositPool)
           /\ Tokens(Grown(debtPool, Interest)) = Tokens(debtPool)
           /\ KeepsWorth(depositPool, Grown(depositPool, Interest))
           /\ KeepsWorth(debtPool, Grown(debtPool, Interest))
<1>1. Interest \in Nat
  BY InterestType DEF IInv
<1>2. Par(depositPool) /\ Par(debtPool)
  BY DEF IInv, TypeOK, NotBelowPar, Par
<1> QED
  BY <1>1, <1>2, GrownPool

\* The numbers a state consists of.
LEMMA Numbers ==
    ASSUME IInv
    PROVE  /\ depositPool.size \in Nat /\ debtPool.size \in Nat /\ coins \in Nat
           /\ supply.receipts \in Nat /\ supply.debts \in Nat
           /\ supply = [receipts |-> supply.receipts, debts |-> supply.debts]
           /\ Tokens(depositPool) \in Nat /\ Tokens(debtPool) \in Nat
           /\ depositPool.size <= coins + debtPool.size
           /\ supply.receipts <= Tokens(depositPool) /\ supply.debts <= Tokens(debtPool)
BY FloorOf DEF IInv, TypeOK, SharePools, Tokens, Solvent, TokensCovered

LEMMA DepositKeeps ==
    ASSUME IInv, NEW u \in Lenders, NEW n \in Amounts, NEW called \in BOOLEAN,
           Deposit(u, n, called)
    PROVE  IInv' /\ Worths
<1> DEFINE grown  == Grown(depositPool, Interest)
           minted == Minted(grown, n)
<1>1. n \in Nat /\ u \in Holders /\ Vault \in Holders /\ u # Vault
  BY GhostVaultAssumptions DEF Holders
<1>2. /\ CanAccrue /\ CanJoin(grown, n)
      /\ called => n <= receipts[Vault] + minted
      /\ receipts' = Moved([receipts EXCEPT ![Vault] = @ + minted], Vault, u,
                           Handed(called, n, minted))
      /\ supply' = [supply EXCEPT !.receipts = @ + minted]
      /\ depositPool' = Joined(grown, n)
      /\ coins' = coins + n /\ debtPool' = Grown(debtPool, Interest)
      /\ elapsed' = 0
      /\ UNCHANGED <<interest, borrowers, debts>>
  BY DEF Deposit
<1> HIDE DEF grown
<1>3. /\ Par(grown) /\ grown.size = depositPool.size + Interest /\ Interest \in Nat
      /\ Tokens(grown) = Tokens(depositPool) /\ Par(depositPool)
      /\ Par(debtPool') /\ debtPool'.size = debtPool.size + Interest
      /\ Tokens(debtPool') = Tokens(debtPool) /\ KeepsWorth(debtPool, debtPool')
  BY <1>2, Accrued DEF grown
<1>4. /\ Par(depositPool') /\ depositPool'.size = grown.size + n
      /\ minted \in Nat /\ Tokens(grown) + minted <= Tokens(depositPool')
      /\ KeepsWorth(grown, depositPool')
  BY <1>1, <1>2, <1>3, JoinedPool
<1> HIDE DEF minted
<1>5. receipts' \in [Holders -> Nat]
  <2> DEFINE r == [receipts EXCEPT ![Vault] = @ + minted]
             m == Handed(called, n, minted)
  <2>1. receipts \in [Holders -> Nat]
    BY DEF IInv, TypeOK
  <2>2. r \in [Holders -> Nat] /\ r[Vault] = receipts[Vault] + minted
    BY <1>1, <1>4, <2>1
  <2>3. m \in Nat /\ m <= r[Vault]
    BY <1>1, <1>2, <1>4, <2>1, <2>2 DEF Handed
  <2> HIDE DEF r, m
  <2>4. receipts' = [h \in Holders |-> r[h] - (IF h = Vault THEN m ELSE 0) + (IF h = u THEN m ELSE 0)]
    BY <1>2, <2>2 DEF Moved, r, m
  <2> QED
    BY <1>1, <2>2, <2>3, <2>4
<1>6. /\ supply' \in [receipts : Nat, debts : Nat]
      /\ supply'.receipts = supply.receipts + minted /\ supply'.debts = supply.debts
  BY <1>2, <1>4, Numbers
<1>7. TypeOK'
  <2>1. depositPool' \in SharePools /\ debtPool' \in SharePools
    BY <1>3, <1>4 DEF Par
  <2>2. coins' \in Nat /\ elapsed' \in Nat
    BY <1>1, <1>2, Numbers
  <2> QED
    BY <1>2, <1>5, <1>6, <2>1, <2>2 DEF IInv, TypeOK
<1>8. NotBelowPar'
  BY <1>3, <1>4 DEF NotBelowPar, Par
<1>9. Solvent'
  BY <1>1, <1>2, <1>3, <1>4, Numbers DEF Solvent
<1>10. TokensCovered'
  <2>1. Tokens(depositPool') \in Nat
    BY <1>4, FloorOf DEF Par, SharePools, Tokens
  <2>2. supply.receipts + minted <= Tokens(depositPool')
    BY <1>3, <1>4, <2>1, Numbers
  <2>3. supply'.debts <= Tokens(debtPool')
    BY <1>3, <1>6, Numbers
  <2> QED
    BY <1>6, <2>2, <2>3 DEF TokensCovered
<1>11. Worths
  BY <1>3, <1>4, GrownFirst DEF Worths, grown
<1> QED
  BY <1>7, <1>8, <1>9, <1>10, <1>11 DEF IInv

LEMMA WithdrawKeeps ==
    ASSUME IInv, NEW u \in Lenders, NEW n \in Amounts, NEW called \in BOOLEAN,
           Withdraw(u, n, called)
    PROVE  IInv' /\ Worths
<1> DEFINE grown == Grown(depositPool, Interest)
           paid  == Handed(called, n, Claim(grown, n))
<1>1. n \in Nat /\ u \in Holders
  BY GhostVaultAssumptions DEF Holders
<1>2. /\ CanAccrue /\ n <= receipts[u] /\ n <= supply.receipts
      /\ CanLeave(grown, n) /\ paid <= coins
      /\ coins' = coins - paid
      /\ depositPool' = Left(grown, n)
      /\ receipts' = [receipts EXCEPT ![u] = @ - n]
      /\ supply' = [supply EXCEPT !.receipts = @ - n]
      /\ debtPool' = Grown(debtPool, Interest)
      /\ elapsed' = 0
      /\ UNCHANGED <<interest, borrowers, debts>>
  BY DEF Withdraw
<1>3. paid = IF called THEN n ELSE Claim(grown, n)
  BY DEF Handed
<1> HIDE DEF grown, paid
<1>4. /\ Par(grown) /\ grown.size = depositPool.size + Interest /\ Interest \in Nat
      /\ Tokens(grown) = Tokens(depositPool) /\ Par(depositPool)
      /\ Par(debtPool') /\ debtPool'.size = debtPool.size + Interest
      /\ Tokens(debtPool') = Tokens(debtPool) /\ KeepsWorth(debtPool, debtPool')
  BY <1>2, Accrued DEF grown
<1>5. /\ Par(depositPool')
      /\ Claim(grown, n) \in Nat /\ Claim(grown, n) <= grown.size /\ n <= Claim(grown, n)
      /\ depositPool'.size = grown.size - Claim(grown, n)
      /\ Tokens(depositPool') = Tokens(grown) - n
      /\ KeepsWorth(grown, depositPool')
  BY <1>1, <1>2, <1>4, LeftPool
<1>6. paid \in Nat /\ paid <= Claim(grown, n)
  BY <1>1, <1>3, <1>5
<1>7. /\ supply' \in [receipts : Nat, debts : Nat]
      /\ supply'.receipts = supply.receipts - n /\ supply'.debts = supply.debts
  BY <1>1, <1>2, Numbers
<1>8. TypeOK'
  <2>1. depositPool' \in SharePools /\ debtPool' \in SharePools
    BY <1>4, <1>5 DEF Par
  <2>2. coins' \in Nat /\ elapsed' \in Nat
    BY <1>2, <1>6, Numbers
  <2>3. receipts' \in [Holders -> Nat]
    BY <1>1, <1>2 DEF IInv, TypeOK
  <2> QED
    BY <1>2, <1>7, <2>1, <2>2, <2>3 DEF IInv, TypeOK
<1>9. NotBelowPar'
  BY <1>4, <1>5 DEF NotBelowPar, Par
<1>10. Solvent'
  BY <1>2, <1>4, <1>5, <1>6, Numbers DEF Solvent
<1>11. TokensCovered'
  BY <1>1, <1>4, <1>5, <1>7, Numbers DEF TokensCovered
<1>12. Worths
  BY <1>4, <1>5, GrownFirst DEF Worths, grown
<1> QED
  BY <1>8, <1>9, <1>10, <1>11, <1>12 DEF IInv

\* A borrower stays a borrower with natural limit and count.
LEMMA BorrowerType ==
    ASSUME TypeOK, NEW b \in DOMAIN borrowers, NEW n \in Nat,
           borrowers' = [borrowers EXCEPT ![b].current = n]
    PROVE  /\ DOMAIN borrowers' \subseteq Borrowers
           /\ borrowers' \in [DOMAIN borrowers' -> Borrower]
BY DEF TypeOK, Borrower

LEMMA BorrowKeeps ==
    ASSUME IInv, NEW b \in Borrowers, NEW n \in Amounts, Borrow(b, n)
    PROVE  IInv' /\ Worths
<1> DEFINE grown == Grown(debtPool, Interest)
           minted == Minted(grown, n)
<1>1. n \in Nat
  BY GhostVaultAssumptions
<1>2. /\ CanAccrue /\ b \in DOMAIN borrowers /\ n <= coins /\ CanJoin(grown, n)
      /\ debts' = [debts EXCEPT ![b] = @ + minted]
      /\ supply' = [supply EXCEPT !.debts = @ + minted]
      /\ debtPool' = Joined(grown, n)
      /\ borrowers' = [borrowers EXCEPT ![b].current = @ + n]
      /\ coins' = coins - n
      /\ depositPool' = Grown(depositPool, Interest)
      /\ elapsed' = 0
      /\ UNCHANGED <<interest, receipts>>
  BY DEF Borrow, Listed, WithinLimit
<1> HIDE DEF grown
<1>3. /\ Par(grown) /\ grown.size = debtPool.size + Interest /\ Interest \in Nat
      /\ Tokens(grown) = Tokens(debtPool) /\ Par(debtPool)
      /\ Par(depositPool') /\ depositPool'.size = depositPool.size + Interest
      /\ Tokens(depositPool') = Tokens(depositPool) /\ KeepsWorth(depositPool, depositPool')
  BY <1>2, Accrued DEF grown
<1>4. /\ Par(debtPool') /\ debtPool'.size = grown.size + n
      /\ minted \in Nat /\ Tokens(grown) + minted <= Tokens(debtPool')
      /\ KeepsWorth(grown, debtPool')
  BY <1>1, <1>2, <1>3, JoinedPool
<1> HIDE DEF minted
<1>5. /\ supply' \in [receipts : Nat, debts : Nat]
      /\ supply'.debts = supply.debts + minted /\ supply'.receipts = supply.receipts
  BY <1>2, <1>4, Numbers
<1>6. TypeOK'
  <2>1. depositPool' \in SharePools /\ debtPool' \in SharePools
    BY <1>3, <1>4 DEF Par
  <2>2. coins' \in Nat /\ elapsed' \in Nat
    BY <1>1, <1>2, Numbers
  <2>3. debts' \in [Borrowers -> Nat]
    BY <1>2, <1>4 DEF IInv, TypeOK
  <2>4. borrowers[b].current \in Nat
    BY <1>2 DEF IInv, TypeOK, Borrower
  <2>5. /\ borrowers[b].current + n \in Nat
        /\ borrowers' = [borrowers EXCEPT ![b].current = borrowers[b].current + n]
    BY <1>1, <1>2, <2>4
  <2>6. /\ DOMAIN borrowers' \subseteq Borrowers
        /\ borrowers' \in [DOMAIN borrowers' -> Borrower]
    BY <1>2, <2>5, BorrowerType DEF IInv
  <2> QED
    BY <1>2, <1>5, <2>1, <2>2, <2>3, <2>6 DEF IInv, TypeOK
<1>7. NotBelowPar'
  BY <1>3, <1>4 DEF NotBelowPar, Par
<1>8. Solvent'
  BY <1>1, <1>2, <1>3, <1>4, Numbers DEF Solvent
<1>9. TokensCovered'
  <2>1. Tokens(debtPool') \in Nat
    BY <1>4, FloorOf DEF Par, SharePools, Tokens
  <2> QED
    BY <1>3, <1>4, <1>5, <2>1, Numbers DEF TokensCovered
<1>10. Worths
  BY <1>3, <1>4, GrownFirst DEF Worths, grown
<1> QED
  BY <1>6, <1>7, <1>8, <1>9, <1>10 DEF IInv

LEMMA RepayKeeps ==
    ASSUME IInv, NEW b \in Borrowers, NEW n \in Amounts, NEW t \in Amounts, Repay(b, n, t)
    PROVE  IInv' /\ Worths
<1> DEFINE grown == Grown(debtPool, Interest)
<1>1. n \in Nat /\ t \in Nat
  BY GhostVaultAssumptions
<1>2. /\ CanAccrue /\ b \in DOMAIN borrowers /\ t <= debts[b] /\ t <= supply.debts
      /\ CanLeave(grown, t) /\ Claim(grown, t) <= n
      /\ debtPool' = Left(grown, t)
      /\ debts' = [debts EXCEPT ![b] = @ - t]
      /\ supply' = [supply EXCEPT !.debts = @ - t]
      /\ borrowers' = [borrowers EXCEPT ![b].current = @ - Repaid(b, n)]
      /\ coins' = coins + n
      /\ depositPool' = Grown(depositPool, Interest)
      /\ elapsed' = 0
      /\ UNCHANGED <<interest, receipts>>
  BY DEF Repay, Listed, Due
<1> HIDE DEF grown
<1>3. /\ Par(grown) /\ grown.size = debtPool.size + Interest /\ Interest \in Nat
      /\ Tokens(grown) = Tokens(debtPool) /\ Par(debtPool)
      /\ Par(depositPool') /\ depositPool'.size = depositPool.size + Interest
      /\ Tokens(depositPool') = Tokens(depositPool) /\ KeepsWorth(depositPool, depositPool')
  BY <1>2, Accrued DEF grown
<1>4. /\ Par(debtPool')
      /\ Claim(grown, t) \in Nat /\ Claim(grown, t) <= grown.size
      /\ debtPool'.size = grown.size - Claim(grown, t)
      /\ Tokens(debtPool') = Tokens(grown) - t
      /\ KeepsWorth(grown, debtPool')
  BY <1>1, <1>2, <1>3, LeftPool
<1>5. /\ supply' \in [receipts : Nat, debts : Nat]
      /\ supply'.debts = supply.debts - t /\ supply'.receipts = supply.receipts
  BY <1>1, <1>2, Numbers
<1>6. TypeOK'
  <2>1. depositPool' \in SharePools /\ debtPool' \in SharePools
    BY <1>3, <1>4 DEF Par
  <2>2. coins' \in Nat /\ elapsed' \in Nat
    BY <1>1, <1>2, Numbers
  <2>3. debts' \in [Borrowers -> Nat]
    BY <1>1, <1>2 DEF IInv, TypeOK
  <2>4. borrowers[b].current \in Nat
    BY <1>2 DEF IInv, TypeOK, Borrower
  <2>5. borrowers[b].current - Repaid(b, n) \in Nat
    BY <1>1, <2>4 DEF Repaid, Least
  <2>6. /\ DOMAIN borrowers' \subseteq Borrowers
        /\ borrowers' \in [DOMAIN borrowers' -> Borrower]
    BY <1>2, <2>5, BorrowerType DEF IInv
  <2> QED
    BY <1>2, <1>5, <2>1, <2>2, <2>3, <2>6 DEF IInv, TypeOK
<1>7. NotBelowPar'
  BY <1>3, <1>4 DEF NotBelowPar, Par
<1>8. Solvent'
  BY <1>1, <1>2, <1>3, <1>4, Numbers DEF Solvent
<1>9. TokensCovered'
  BY <1>1, <1>3, <1>4, <1>5, Numbers DEF TokensCovered
<1>10. Worths
  BY <1>3, <1>4, GrownFirst DEF Worths, grown
<1> QED
  BY <1>6, <1>7, <1>8, <1>9, <1>10 DEF IInv

\* Steps that leave pools, coins and supplies as they are.
LEMMA NoMoneyMoves ==
    ASSUME IInv, UNCHANGED <<depositPool, debtPool, coins, supply>>
    PROVE  TypeOK' => IInv' /\ Worths
<1>1. Par(depositPool) /\ Par(debtPool)
  BY DEF IInv, TypeOK, NotBelowPar, Par
<1>2. \A p : Par(p) => KeepsWorth(p, p)
  <2> SUFFICES ASSUME NEW p, Par(p) PROVE KeepsWorth(p, p)
    OBVIOUS
  <2>1. p.size \in Nat /\ Tokens(p) \in Nat
    BY FloorOf DEF Tokens, Par, SharePools
  <2>2. p.size * (Tokens(p) + 1) >= p.size * Tokens(p)
    BY <2>1
  <2> QED
    BY <2>2 DEF KeepsWorth
<1>3. Worths
  BY <1>1, <1>2 DEF Worths
<1> QED
  BY <1>3 DEF IInv, NotBelowPar, Solvent, TokensCovered

LEMMA SudoKeeps ==
    ASSUME IInv, Limits \subseteq Nat,
           \/ \E b \in Borrowers, limit \in Limits : AddBorrower(b, limit) \/ UpdateBorrower(b, limit)
           \/ \E curve \in Curves : UpdateInterest(curve)
           \/ Tick
    PROVE  IInv' /\ Worths
<1>1. CASE \E b \in Borrowers, limit \in Limits : AddBorrower(b, limit) \/ UpdateBorrower(b, limit)
  <2>1. PICK b \in Borrowers, limit \in Limits : AddBorrower(b, limit)
    BY <1>1 DEF UpdateBorrower
  <2>2. limit \in Nat /\ Counted(b) \in Nat
    BY DEF Counted, IInv, TypeOK, Borrower
  <2>3. /\ DOMAIN borrowers' \subseteq Borrowers
        /\ borrowers' \in [DOMAIN borrowers' -> Borrower]
    <3> DEFINE new(c) == IF c = b THEN [limit |-> limit, current |-> Counted(b)] ELSE borrowers[c]
    <3>1. borrowers' = [c \in DOMAIN borrowers \cup {b} |-> new(c)]
      BY <2>1 DEF AddBorrower, SetLimit
    <3>2. DOMAIN borrowers \subseteq Borrowers /\ \A c \in DOMAIN borrowers : borrowers[c] \in Borrower
      BY DEF IInv, TypeOK
    <3>3. [limit |-> limit, current |-> Counted(b)] \in Borrower
      BY <2>2 DEF Borrower
    <3>4. \A c \in DOMAIN borrowers \cup {b} : new(c) \in Borrower
      BY <3>2, <3>3
    <3> HIDE DEF new
    <3> QED
      BY <3>1, <3>2, <3>4
  <2>4. TypeOK'
    BY <2>1, <2>3 DEF AddBorrower, IInv, TypeOK
  <2> QED
    BY <2>1, <2>4, NoMoneyMoves DEF AddBorrower
<1>2. CASE \E curve \in Curves : UpdateInterest(curve)
  <2>1. PICK curve \in Curves : UpdateInterest(curve)
    BY <1>2
  <2>2. TypeOK'
    BY <2>1 DEF UpdateInterest, IInv, TypeOK
  <2> QED
    BY <2>1, <2>2, NoMoneyMoves DEF UpdateInterest
<1>3. CASE Tick
  <2>1. TypeOK'
    BY <1>3 DEF Tick, IInv, TypeOK
  <2> QED
    BY <1>3, <2>1, NoMoneyMoves DEF Tick
<1> QED
  BY <1>1, <1>2, <1>3

LEMMA InitIInv == Init => IInv
<1> SUFFICES ASSUME Init PROVE IInv
  OBVIOUS
<1>1. ToFloor(0) = 0
  BY OneAssumption DEF ToFloor
<1>2. TypeOK
  BY DEF Init, TypeOK, EmptyShares, SharePools, Borrower
<1> QED
  BY <1>1, <1>2, OneAssumption DEF Init, IInv, EmptyShares, NotBelowPar, Solvent, TokensCovered, Tokens

LEMMA NextIInv == IInv /\ [Next]_vars => IInv' /\ Worths
<1> SUFFICES ASSUME IInv, [Next]_vars PROVE IInv' /\ Worths
  OBVIOUS
<1>1. CASE \E u \in Lenders, n \in Amounts, called \in BOOLEAN : Deposit(u, n, called) \/ Withdraw(u, n, called)
  BY <1>1, DepositKeeps, WithdrawKeeps
<1>2. CASE \E b \in Borrowers, n \in Amounts : Borrow(b, n) \/ \E t \in Amounts : Repay(b, n, t)
  BY <1>2, BorrowKeeps, RepayKeeps
<1>3. CASE \/ \E b \in Borrowers, limit \in Limits : AddBorrower(b, limit) \/ UpdateBorrower(b, limit)
           \/ \E curve \in Curves : UpdateInterest(curve)
           \/ Tick
  BY <1>3, SudoKeeps, GhostVaultAssumptions
<1>4. CASE UNCHANGED vars
  <2>1. TypeOK'
    BY <1>4 DEF vars, IInv, TypeOK
  <2> QED
    BY <1>4, <2>1, NoMoneyMoves DEF vars
<1> QED
  BY <1>1, <1>2, <1>3, <1>4 DEF Next

THEOREM Invariant == Spec => []IInv
<1> QED
  BY InitIInv, NextIInv, PTL DEF Spec

\* Types hold in every reachable state: no amount, count or share goes below
\* zero in any handler.
THEOREM TypeCorrect == Spec => []TypeOK
<1>1. IInv => TypeOK
  BY DEF IInv
<1> QED
  BY <1>1, Invariant, PTL

\* Lenders are covered by coins and debts, with and without callbacks, after any
\* interest, rounding and overpayment.
THEOREM LendersCovered == Spec => []Solvent
<1>1. IInv => Solvent
  BY DEF IInv
<1> QED
  BY <1>1, Invariant, PTL

\* Each pool counts at least as many tokens as the token factory has minted.
THEOREM AllTokensCovered == Spec => []TokensCovered
<1>1. IInv => TokensCovered
  BY DEF IInv
<1> QED
  BY <1>1, Invariant, PTL

\* No token is ever worth less than a coin.
THEOREM NeverBelowPar == Spec => []NotBelowPar
<1>1. IInv => NotBelowPar
  BY DEF IInv
<1> QED
  BY <1>1, Invariant, PTL

\* Others' deposits, withdrawals, loans and repayments cost a member of a pool
\* at most the part of one token.
THEOREM WorthKept == Spec => SharesKeepWorth
<1>1. IInv /\ [Next]_vars => [KeepsWorth(depositPool, depositPool') /\ KeepsWorth(debtPool, debtPool')]_vars
  BY NextIInv DEF Worths
<1> QED
  BY <1>1, Invariant, PTL DEF Spec, SharesKeepWorth

=============================================================================
