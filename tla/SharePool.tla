----------------------------- MODULE SharePool -----------------------------
(***************************************************************************)
(* A pool whose members own shares of it                                   *)
(* (packages/rujira-rs/src/share_pool.rs). The pool counts shares as a     *)
(* Decimal and hands them out in whole tokens, rounded down.               *)
(***************************************************************************)
EXTENDS Decimals

CONSTANTS
    Probe,      \* the deposit that InvalidDeposit is tried with: 1000 in the code
    KeptOf100   \* hundredths of it that must be kept: 99 in the code

ASSUME SharePoolAssumptions == Probe \in Nat \ {0} /\ KeptOf100 \in Nat

EmptyShares == [size |-> 0, shares |-> 0]

\* SharePool::shares: the whole tokens there can be.
Tokens(p) == ToFloor(p.shares)

\* SharePool::join. It divides by the size of a pool that has shares.
CanJoin(p, n) == n > 0 /\ (p.shares # 0 => p.size > 0)

Issuance(p, n) ==
    IF p.shares = 0 THEN FromRatio(n, 1) ELSE DecMul(p.shares, FromRatio(n, p.size))

Joined(p, n) == [size |-> p.size + n, shares |-> p.shares + Issuance(p, n)]

\* A mutant of Minted: rounded up.
MintedCeil(p, n) == ToCeil(Issuance(p, n))

Minted(p, n) == ToFloor(Issuance(p, n))

\* A mutant of Ownership: rounded up.
OwnershipCeil(p, n) == IF n = 0 THEN 0 ELSE (p.size * n + Tokens(p) - 1) \div Tokens(p)

\* SharePool::ownership
Ownership(p, n) == IF n = 0 THEN 0 ELSE (p.size * n) \div Tokens(p)

\* SharePool::leave: the last tokens take the pool with all its fractions.
CanLeave(p, n) == n > 0 /\ n <= Tokens(p)

Claim(p, n) == IF n = Tokens(p) THEN p.size ELSE Ownership(p, n)

Left(p, n) ==
    IF n = Tokens(p)
    THEN EmptyShares
    ELSE [size |-> p.size - Ownership(p, n), shares |-> p.shares - FromRatio(n, 1)]

\* SharePool::deposit: the members share it, unless whoever joins next would
\* lose too much by rounding.
Grown(p, n) == [p EXCEPT !.size = @ + n]

CanGrow(p, n) ==
    LET q == Grown(p, n)
    IN  /\ CanJoin(q, Probe)
        /\ Ownership(Joined(q, Probe), Minted(q, Probe)) * 100 >= KeptOf100 * Probe

=============================================================================
