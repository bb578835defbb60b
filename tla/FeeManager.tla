----------------------------- MODULE FeeManager -----------------------------
(***************************************************************************)
(* The fee calculator shared by the index contracts                        *)
(* (packages/nami-rs/src/fee_manager.rs). An optional rate is the Decimal  *)
(* zero when it is absent, which is what unwrap_or_default makes of it.    *)
(***************************************************************************)
EXTENDS Decimals

CONSTANT Year   \* SECS_PER_YEAR: 31 557 600 in the code, small in TLC

ASSUME YearAssumption == Year \in Nat \ {0}

FeeRates == [management : Nat, transaction : Nat]

\* FeeRates::validate; the performance rate is validated too and then read
\* by no contract.
ValidRates(r) == r.management <= One /\ r.transaction <= One

\* The share of a year that has elapsed, and the rate owed for it: both are
\* rounded down.
YearFraction(elapsed)        == FromRatio(elapsed, Year)
EffectiveRate(rate, elapsed) == DecMul(rate, YearFraction(elapsed))

\* FeeManager::aum_fee: the receipt tokens to mint for the seconds elapsed
\* since the last accrual, rounded up.
AumFee(rate, elapsed, supply) ==
    IF elapsed = 0
    THEN 0
    ELSE ToCeil(DecMul(FromRatio(supply, 1), EffectiveRate(rate, elapsed)))

\* FeeManager::tx_fee: the part of amount that is kept, rounded up. The net
\* amount is amount - TxFee, computed with checked_sub.
TxFee(rate, amount) == ToCeil(DecMul(FromRatio(amount, 1), rate))

\* FeeManager::perf_fee on a gain above the high-water mark.
PerfFee(rate, value, highWaterMark) ==
    IF value > highWaterMark
    THEN ToCeil(DecMul(FromRatio(value - highWaterMark, 1), rate))
    ELSE 0

=============================================================================
