-------------------------------- MODULE Fees ----------------------------------
(***************************************************************************)
(* The arithmetic of fees (src/src/report/fee_calc.rs): what a resource    *)
(* costs at the network's rates, how the total an endpoint reports is      *)
(* split, the shares that are printed, and amounts in XLM.  i64 saturates; *)
(* nothing done here leaves the i128 it is done in, so that the            *)
(* intermediate results are plain integers (CostReport's deviation is not  *)
(* so lucky).                                                              *)
(***************************************************************************)
EXTENDS Integers, Sequences, FiniteSetsExt

CONSTANTS I64Max,     \* the largest i64, 2^63 - 1 in the code
          Decimals    \* digits of a stroop, 7 in the code

I64Min == -I64Max - 1

ASSUME FeesAssumption == I64Max \in Nat /\ Decimals \in Nat /\ I64Max > 5000

Saturate(x) == IF x > I64Max THEN I64Max ELSE IF x < I64Min THEN I64Min ELSE x

InRange(x) == I64Min <= x /\ x <= I64Max

\* Rust's division truncates
Quotient(n, d) == IF n >= 0 THEN n \div d ELSE -((-n) \div d)

\* scaled_fee
Scaled(units, rate, divisor) == Saturate(Quotient(units * rate, divisor))

AtLeastZero(x) == IF x < 0 THEN 0 ELSE x

SumOf(values) == MapThenSumSet(LAMBDA i : values[i], DOMAIN values)

TenTo[n \in Nat] == IF n = 0 THEN 1 ELSE 10 * TenTo[n - 1]

-----------------------------------------------------------------------------
BaseFee(total) == IF total > 0 THEN 100 ELSE 0

CpuFee(use, rates) == Scaled(use.cpu, rates.per_10k_insns, 10000)
BandwidthFee(use, rates) == Scaled(use.tx_size, rates.per_1kb, 1024)
StorageFee(use, rates) ==
    Saturate(Saturate(Scaled(use.read_entries, rates.per_read_entry, 1)
                      + Scaled(use.write_entries, rates.per_write_entry, 1))
             + Scaled(use.read_bytes, rates.per_read_1kb, 1024))

\* The sum is taken one fee at a time, and saturates at each.
NonRefundable(use, rates) ==
    LET entries == Saturate(Saturate(CpuFee(use, rates) + Scaled(use.read_entries, rates.per_read_entry, 1))
                            + Scaled(use.write_entries, rates.per_write_entry, 1))
        reads == Saturate(entries + Scaled(use.read_bytes, rates.per_read_1kb, 1024))
    IN Saturate(reads + BandwidthFee(use, rates))

Refundable(total, use, rates) == AtLeastZero(Saturate(total - NonRefundable(use, rates)))

\* In the order of the shares: CPU, storage, bandwidth, base fee, rent
Parts(total, use, rates) ==
    << CpuFee(use, rates), StorageFee(use, rates), BandwidthFee(use, rates),
       BaseFee(total), Refundable(total, use, rates) >>

TotalStroops(total) == Saturate(total + BaseFee(total))

\* One share in tenths of a percent, rounded half away from zero
Permille(part, total) ==
    LET num == part * 1000
        half == total \div 2
    IN Saturate(IF num >= 0 THEN (num + half) \div total ELSE Quotient(num - half, total))

\* The last of the largest parts takes what the rounding has left over.
Largest(parts) == CHOOSE i \in 1..5 : /\ \A j \in 1..5 : parts[j] <= parts[i]
                                      /\ \A j \in i+1..5 : parts[j] < parts[i]

Sum5(s) == s[1] + s[2] + s[3] + s[4] + s[5]

\* Mutant: each share is rounded for itself.
SharesRounded(parts, total) ==
    [i \in 1..5 |-> IF total <= 0 THEN 0 ELSE Permille(parts[i], total)]

Shares(parts, total) ==
    LET rounded == [i \in 1..5 |-> Permille(parts[i], total)]
    IN IF total <= 0 THEN [i \in 1..5 |-> 0]
       ELSE IF ~InRange(Sum5(rounded)) THEN rounded
       ELSE [rounded EXCEPT ![Largest(parts)] = Saturate(@ + Saturate(1000 - Sum5(rounded)))]

\* compute_fee_breakdown
Breakdown(total, use, rates) ==
    [non_refundable |-> NonRefundable(use, rates),
     parts |-> Parts(total, use, rates),
     total |-> TotalStroops(total),
     shares |-> Shares(Parts(total, use, rates), TotalStroops(total))]

-----------------------------------------------------------------------------
\* stroops_to_xlm: the fraction is rounded half up to the precision, and may carry
Xlm(stroops, precision) ==
    LET abs == IF stroops < 0 THEN -stroops ELSE stroops
        fraction == abs % TenTo[Decimals]
        div == TenTo[Decimals - precision]
        scaled == IF precision > Decimals THEN fraction * TenTo[precision - Decimals]
                  ELSE fraction \div div + (IF (fraction % div) * 2 >= div THEN 1 ELSE 0)
        total == (abs \div TenTo[Decimals]) * TenTo[precision] + scaled
    IN [negative |-> stroops < 0, whole |-> total \div TenTo[precision],
        fraction |-> [i \in 1..precision |-> (total \div TenTo[precision - i]) % 10]]

\* What the digits of a fraction are worth, up to the stroop
FractionOf(text) ==
    SumOf([i \in 1..Decimals |-> IF i <= Len(text.fraction) THEN text.fraction[i] * TenTo[Decimals - i] ELSE 0])

\* Mutant: the sign is that of the whole part only.
StroopsOfSignedWhole(text) ==
    LET signed == (IF text.negative THEN -text.whole ELSE text.whole) * TenTo[Decimals] + FractionOf(text)
    IN IF InRange(signed) THEN {signed} ELSE {}

\* xlm_to_stroops, of a plain decimal number: the digits past the stroop are dropped, and what
\* an i64 does not hold is refused, that is, there is no amount
Stroops(text) ==
    LET magnitude == text.whole * TenTo[Decimals] + FractionOf(text)
        signed == IF text.negative THEN -magnitude ELSE magnitude
    IN IF InRange(signed) THEN {signed} ELSE {}

\* fee_range, of at least one fee
FeeRange(fees) ==
    [count |-> Len(fees),
     min |-> Min({fees[i] : i \in DOMAIN fees}),
     max |-> Max({fees[i] : i \in DOMAIN fees}),
     avg |-> Quotient(SumOf(fees), Len(fees))]
=============================================================================
