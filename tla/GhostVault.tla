----------------------------- MODULE GhostVault -----------------------------
(***************************************************************************)
(* rujira-ghost-vault: lenders deposit a coin and get receipt tokens;      *)
(* listed borrowers draw it and get debt tokens, up to a limit. Interest   *)
(* is charged to the pool of debts and given to the pool of deposits by    *)
(* whatever is executed next.                                              *)
(***************************************************************************)
EXTENDS SharePool, FiniteSets

CONSTANTS
    Lenders,       \* accounts with receipt tokens
    Borrowers,     \* accounts that may be listed, with debt tokens
    Vault,         \* the contract itself, as a holder of receipt tokens
    Curves,        \* interest curves governance sets
    Amounts,       \* coins attached or asked for
    Limits,        \* debt limits
    Year,          \* seconds of a year: 31 536 000 in the code
    MaxElapsed,    \* bound: seconds between two executes
    MaxCoins,      \* bound: coins the vault holds
    MaxSize        \* bound: size of either pool

ASSUME GhostVaultAssumptions ==
    /\ Vault \notin Lenders
    /\ IsFiniteSet(Lenders) /\ IsFiniteSet(Borrowers)
    /\ Amounts \subseteq Nat /\ Limits \subseteq Nat
    /\ Year \in Nat \ {0}
    /\ \A c \in Curves : c \in [target : Nat, base : Nat, step1 : Nat, step2 : Nat]

VARIABLES
    depositPool,   \* State::deposit_pool
    debtPool,      \* State::debt_pool
    elapsed,       \* seconds since State::last_updated
    interest,      \* Config::interest
    borrowers,     \* BORROWERS: limit and current of each listed borrower
    coins,         \* the vault's balance of the coin
    receipts,      \* balances of the receipt token
    debts,         \* balances of the debt token
    supply         \* bank supplies of both

vars == <<depositPool, debtPool, elapsed, interest, borrowers, coins, receipts, debts, supply>>

Holders == Lenders \cup {Vault}

Least(a, b) == IF a <= b THEN a ELSE b

-----------------------------------------------------------------------------
(* Interest                                                                *)

\* State::utilization
Utilization ==
    IF depositPool.size = 0 THEN 0
    ELSE One - FromRatio(depositPool.size - debtPool.size, depositPool.size)

\* Interest::rate: step1 on the way to the target, step2 from there to one.
Rate(u) ==
    LET low  == Least(u, interest.target)
        rest == One - interest.target
    IN  interest.base
        + DecMul(DecDiv(low, interest.target), interest.step1)
        + IF rest = 0 THEN 0 ELSE DecMul(DecDiv(u - low, rest), interest.step2)

\* State::calculate_interest
Interest ==
    ToFloor(DecMul(DecMul(FromRatio(debtPool.size, 1), Rate(Utilization)),
                   FromRatio(elapsed, Year)))

\* State::distribute_interest, the first thing every execute does: it fails,
\* and the execute with it, when more is owed than deposited, when the curve
\* has no target and when a pool refuses the interest.
CanAccrue ==
    /\ depositPool.size > 0 => debtPool.size <= depositPool.size
    /\ 0 < interest.target /\ interest.target <= One
    /\ CanGrow(depositPool, Interest)
    /\ CanGrow(debtPool, Interest)

-----------------------------------------------------------------------------
(* Execute                                                                 *)

\* The coins the contract sends with a callback are counted by the amount that
\* came in, not by what was minted or withdrawn.
Handed(called, amount, counted) == IF called THEN amount ELSE counted

Moved(tokens, from, to, n) ==
    [h \in DOMAIN tokens |-> tokens[h] - (IF h = from THEN n ELSE 0) + (IF h = to THEN n ELSE 0)]

\* Deposit. Without a callback the tokens are minted to the sender; with one
\* they are minted to the contract, which must have what it sends on.
Deposit(u, n, called) ==
    /\ CanAccrue
    /\ \E grown \in {Grown(depositPool, Interest)} :
         /\ CanJoin(grown, n) /\ Minted(grown, n) > 0
         /\ grown.size + n <= MaxSize
         /\ \E minted \in {Minted(grown, n)} :
              /\ called => n <= receipts[Vault] + minted
              /\ receipts' = Moved([receipts EXCEPT ![Vault] = @ + minted], Vault, u,
                                   Handed(called, n, minted))
              /\ supply' = [supply EXCEPT !.receipts = @ + minted]
         /\ depositPool' = Joined(grown, n)
    /\ coins + n <= MaxCoins
    /\ coins' = coins + n
    /\ debtPool' = Grown(debtPool, Interest)
    /\ elapsed' = 0
    /\ UNCHANGED <<interest, borrowers, debts>>

\* Withdraw: the tokens are burned, and the coins must be there.
Withdraw(u, n, called) ==
    /\ CanAccrue
    /\ n <= receipts[u] /\ n <= supply.receipts
    /\ \E grown \in {Grown(depositPool, Interest)} :
         /\ CanLeave(grown, n)
         /\ \E paid \in {Handed(called, n, Claim(grown, n))} :
              /\ paid > 0 /\ paid <= coins
              /\ coins' = coins - paid
         /\ depositPool' = Left(grown, n)
    /\ receipts' = [receipts EXCEPT ![u] = @ - n]
    /\ supply' = [supply EXCEPT !.receipts = @ - n]
    /\ debtPool' = Grown(debtPool, Interest)
    /\ elapsed' = 0
    /\ UNCHANGED <<interest, borrowers, debts>>

\* Borrower::load, of Borrow and Repay: only who is listed has a limit.
Listed(b) == b \in DOMAIN borrowers

\* Borrower::borrow
WithinLimit(b, n) == borrowers[b].current + n <= borrowers[b].limit

\* Borrow. A callback is sent the same coins.
Borrow(b, n) ==
    /\ CanAccrue
    /\ Listed(b) /\ WithinLimit(b, n)
    /\ n <= coins
    /\ \E grown \in {Grown(debtPool, Interest)} :
         /\ CanJoin(grown, n) /\ Minted(grown, n) > 0
         /\ grown.size + n <= MaxSize
         /\ debts' = [debts EXCEPT ![b] = @ + Minted(grown, n)]
         /\ supply' = [supply EXCEPT !.debts = @ + Minted(grown, n)]
         /\ debtPool' = Joined(grown, n)
    /\ borrowers' = [borrowers EXCEPT ![b].current = @ + n]
    /\ coins' = coins - n
    /\ depositPool' = Grown(depositPool, Interest)
    /\ elapsed' = 0
    /\ UNCHANGED <<interest, receipts>>

\* A mutant of Due: a token is repaid with a coin.
DueAtPar(pool, t) == t

\* State::repay: what the debt tokens are worth.
Due(pool, t) == Claim(pool, t)

\* A mutant of Repaid: all of a repayment is counted.
RepaidAll(b, n) == n

\* Borrower::repay: what exceeds the borrower's count is not counted.
Repaid(b, n) == Least(n, borrowers[b].current)

\* Repay, with n coins and t debt tokens; what is too much is kept.
Repay(b, n, t) ==
    /\ CanAccrue
    /\ Listed(b)
    /\ n > 0 /\ t <= debts[b] /\ t <= supply.debts
    /\ coins + n <= MaxCoins
    /\ \E grown \in {Grown(debtPool, Interest)} :
         /\ CanLeave(grown, t) /\ Due(grown, t) <= n
         /\ debtPool' = Left(grown, t)
    /\ debts' = [debts EXCEPT ![b] = @ - t]
    /\ supply' = [supply EXCEPT !.debts = @ - t]
    /\ borrowers' = [borrowers EXCEPT ![b].current = @ - Repaid(b, n)]
    /\ coins' = coins + n
    /\ depositPool' = Grown(depositPool, Interest)
    /\ elapsed' = 0
    /\ UNCHANGED <<interest, receipts>>

-----------------------------------------------------------------------------
(* Sudo: by the chain, or by the registry through execute, which then must  *)
(* be able to accrue but saves no accrual.                                  *)

SetLimit(b, limit, current) ==
    borrowers' = [c \in DOMAIN borrowers \cup {b} |->
                     IF c = b THEN [limit |-> limit, current |-> current] ELSE borrowers[c]]

\* Borrower::set keeps the count of a borrower that is listed already.
Counted(b) == IF b \in DOMAIN borrowers THEN borrowers[b].current ELSE 0

AddBorrower(b, limit) ==
    /\ SetLimit(b, limit, Counted(b))
    /\ UNCHANGED <<depositPool, debtPool, elapsed, interest, coins, receipts, debts, supply>>

UpdateBorrower(b, limit) == Listed(b) /\ AddBorrower(b, limit)

\* The new curve is not validated, and applies to the time already elapsed.
UpdateInterest(curve) ==
    /\ interest' = curve
    /\ UNCHANGED <<depositPool, debtPool, elapsed, borrowers, coins, receipts, debts, supply>>

\* Time passes.
Tick ==
    /\ elapsed < MaxElapsed
    /\ elapsed' = elapsed + 1
    /\ UNCHANGED <<depositPool, debtPool, interest, borrowers, coins, receipts, debts, supply>>

-----------------------------------------------------------------------------

\* instantiate, which does validate the curve.
ValidCurve(c) == c.step1 < c.step2 /\ 0 < c.target /\ c.target < One

Init ==
    /\ depositPool = EmptyShares /\ debtPool = EmptyShares
    /\ elapsed = 0
    /\ interest \in {c \in Curves : ValidCurve(c)}
    /\ borrowers = << >>
    /\ coins = 0
    /\ receipts = [h \in Holders |-> 0]
    /\ debts = [b \in Borrowers |-> 0]
    /\ supply = [receipts |-> 0, debts |-> 0]

Next ==
    \/ \E u \in Lenders, n \in Amounts, called \in BOOLEAN :
         Deposit(u, n, called) \/ Withdraw(u, n, called)
    \/ \E b \in Borrowers, n \in Amounts : Borrow(b, n) \/ \E t \in Amounts : Repay(b, n, t)
    \/ \E b \in Borrowers, limit \in Limits : AddBorrower(b, limit) \/ UpdateBorrower(b, limit)
    \/ \E curve \in Curves : UpdateInterest(curve)
    \/ Tick

Spec == Init /\ [][Next]_vars

-----------------------------------------------------------------------------
(* Properties                                                              *)

SharePools == [size : Nat, shares : Nat]

Borrower == [limit : Nat, current : Nat]

\* Every variable has its type; nothing ever goes below zero.
TypeOK ==
    /\ depositPool \in SharePools /\ debtPool \in SharePools
    /\ elapsed \in Nat
    /\ interest \in Curves
    /\ DOMAIN borrowers \subseteq Borrowers
    /\ borrowers \in [DOMAIN borrowers -> Borrower]
    /\ coins \in Nat
    /\ receipts \in [Holders -> Nat]
    /\ debts \in [Borrowers -> Nat]
    /\ supply \in [receipts : Nat, debts : Nat]

\* Lenders are covered: what the deposits are worth is in the vault or owed to
\* it, after any accruals, roundings and overpayments.
Solvent == depositPool.size <= coins + debtPool.size

\* Everyone can get out: a pool never counts fewer tokens than there are, though
\* it adds what it issues with its fractions and hands out whole tokens, and
\* though the one who leaves last takes all fractions.
TokensCovered ==
    /\ supply.receipts <= Tokens(depositPool)
    /\ supply.debts <= Tokens(debtPool)

\* A token is never worth less than a coin: a pool has as much in it as it
\* counts shares, fractions included, after any roundings. Without it a
\* withdrawal with a callback, which is sent a coin for each token, could take
\* more out than is deducted.
NotBelowPar ==
    /\ depositPool.shares <= depositPool.size * One
    /\ debtPool.shares <= debtPool.size * One

\* No step costs those who stay more than one token's part of the pool: what a
\* token is worth falls at most from size / tokens to size / (tokens + 1), by
\* rounding, and never by what others deposit, withdraw, borrow or repay.
KeepsWorth(p, q) ==
    Tokens(p) > 0 /\ Tokens(q) > 0 => q.size * (Tokens(p) + 1) >= p.size * Tokens(q)

SharesKeepWorth ==
    [][KeepsWorth(depositPool, depositPool') /\ KeepsWorth(debtPool, debtPool')]_vars

\* interfaces/ghost_vault/interest.rs:41 says of every rate it is asked for:
\* "utilization must be <= 1". A repayment above what the tokens are worth
\* stays in the vault and can be lent, and then it is not.
UtilizationAtMostOne == depositPool.size > 0 => debtPool.size <= depositPool.size

=============================================================================
