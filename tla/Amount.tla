------------------------------- MODULE Amount -------------------------------
(***************************************************************************)
(* bitcoin-payment-instructions/src/amount.rs: amounts in milli-satoshis,  *)
(* held in an unsigned integer of a fixed width, and their decimal form in *)
(* whole bitcoin.  Arithmetic that is not checked wraps, as it does in a   *)
(* release build.                                                          *)
(***************************************************************************)
EXTENDS Naturals

CONSTANTS MsatsPerSat,      \* 1000
          Decimals,         \* 8: digits of a satoshi amount below one bitcoin
          MAX_MSATS,        \* 21 million bitcoin
          U64               \* 2^64

ASSUME AmountAssumption ==
    /\ MsatsPerSat \in Nat \ {0}
    /\ Decimals \in Nat
    /\ MAX_MSATS \in Nat \ {0}
    /\ U64 \in Nat
    /\ MAX_MSATS + MsatsPerSat <= U64

\* Powers of ten, of which the provers know nothing, are positive.
ASSUME PowersAssumption == 10^0 = 1 /\ \A z \in 0..Decimals : 10^z \in Nat \ {0}

from_sats(sats) == (sats * MsatsPerSat) % U64

sats_rounding_up(msats) == ((msats + (MsatsPerSat - 1)) % U64) \div MsatsPerSat

-----------------------------------------------------------------------------
(* Decimal amounts: the bitcoin before the point, and the number made by   *)
(* that many digits after it.                                              *)

TrailingZeros(n) ==
    CHOOSE z \in 0..Decimals : n % 10^z = 0 /\ (z = Decimals \/ n % 10^(z + 1) # 0)

\* A mutant of FormattedAmount: the digits are not counted down with the zeros.
FormattedUnshortened(msats) ==
    LET total == sats_rounding_up(msats)
        sats == total % 10^Decimals
    IN [whole |-> total \div 10^Decimals, digits |-> Decimals,
        fraction |-> sats \div 10^TrailingZeros(sats)]

\* btc_decimal_rounding_up_to_sats: zeros at the end of the fraction are left
\* out, and the point with them when nothing remains.
FormattedAmount(msats) ==
    LET total == sats_rounding_up(msats)
        sats == total % 10^Decimals
    IN [whole |-> total \div 10^Decimals, digits |-> Decimals - TrailingZeros(sats),
        fraction |-> sats \div 10^TrailingZeros(sats)]

\* bitcoin::Amount::from_str_in, of what FormattedAmount writes.
from_str_in(decimal) ==
    decimal.whole * 10^Decimals + decimal.fraction * 10^(Decimals - decimal.digits)

=============================================================================
