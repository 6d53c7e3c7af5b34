---------------------------- MODULE LiveAmounts ----------------------------
(***************************************************************************)
(* How the live caps read an order (live/trading.go): decimals parsed to   *)
(* hundredths and multiplied as int64, wrapping where they overflow.       *)
(***************************************************************************)
EXTENDS FixedPoint

CONSTANT IntBits    \* 64 in the code

ASSUME IntBitsAssumption == IntBits \in Nat \ {0}

(* The value an integer of IntBits bits holds after the exact result n.    *)
Wrapped(n) == ((n + 2^(IntBits - 1)) % 2^IntBits) - 2^(IntBits - 1)

FitsInt(n) == Wrapped(n) = n

(* Go's division truncates toward zero.                                    *)
Quo(a, b) == IF a >= 0 THEN a \div b ELSE -((-a) \div b)

(* dollarsToCents refuses more than two decimals, and an integer part that *)
(* is no int64.                                                            *)
Parses(lit) == lit.places <= 2 /\ FitsInt(lit.digits \div 10^lit.places)

(* Mutant: one decimal is taken for hundredths.                            *)
DollarsToCents_NoPadding(lit) ==
    LET intPart == lit.digits \div 10^lit.places
        fracPart == lit.digits % 10^lit.places
    IN  Wrapped(intPart * 100 + fracPart)

(* dollarsToCents, countContracts: the decimals are padded to two.         *)
DollarsToCents(lit) ==
    LET intPart == lit.digits \div 10^lit.places
        fracPart == (lit.digits % 10^lit.places) * 10^(2 - lit.places)
    IN  Wrapped(intPart * 100 + fracPart)

(* Mutant: the fraction of a contract is forgotten.                        *)
OrderCents_WholeContracts(count, price) == Quo(count, 100) * price

(* The notional checkOrder holds against the caps.                         *)
OrderCents(count, price) == Quo(Wrapped(count * price), 100)
=============================================================================
