---------------------------- MODULE OrderAmounts ----------------------------
(***************************************************************************)
(* What paper and live mode make of the price and the count of an order,   *)
(* against what the documentation says of them: one order after another,   *)
(* with a price and a count as an agent writes them (specs/mcp-tools.yaml: *)
(* a count has up to two decimals, or none).                               *)
(***************************************************************************)
EXTENDS LiveAmounts

CONSTANTS Prices,   \* at scale 4
          Digits    \* the digits of a count

ASSUME AmountsAssumption == Prices \subseteq 1..(One - 1) /\ Digits \subseteq Nat

VARIABLES price, written

vars == <<price, written>>

Counts == [digits : Digits, places : 0..2]

Init == price \in Prices /\ written \in Counts

(* The next order: another price, or a count written with other digits.    *)
NextPrice == \E p \in Prices : price' = p /\ UNCHANGED written
NextCount == \E n \in Digits :
               written' = [written EXCEPT !.digits = n] /\ UNCHANGED price
NextPlaces == \E d \in 0..2 :
                written' = [written EXCEPT !.places = d] /\ UNCHANGED price

Next == NextPrice \/ NextCount \/ NextPlaces

Spec == Init /\ [][Next]_vars

-----------------------------------------------------------------------------
count == Worth(written, 2)

WholeCents == price % 100 = 0

(* The published 0.07 * C * P * (1-P), exact until one rounding half-up to *)
(* cents.  (P * (1-P) is split in two, so that TLC's integers hold it.)    *)
PublishedFee ==
    LET spread == price * (One - price)
        exact == 7 * count * (spread \div 10000)
                   + (7 * count * (spread % 10000)) \div 10000   \* millionths of a cent
    IN  (exact + 500000) \div 1000000

(* At prices in whole cents the fee is the published one (Fee; ledger.go,  *)
(* "using exact rational arithmetic").  At finer prices, where P * (1-P)   *)
(* is cut off before it meets the count, it is no more, and less by at     *)
(* most a cent and 7 more for every 10000 contracts.                       *)
FeeMatchesFormula ==
    /\ WholeCents => Fee(price, count) = PublishedFee
    /\ Fee(price, count) <= PublishedFee
    /\ PublishedFee <= Fee(price, count) + (7 * count) \div 1000000 + 1

(* Selling never costs money: the fee is no more than the proceeds,        *)
(* however small the order and whatever both roundings do (Execute).       *)
AskNeverCosts == Fee(price, count) <= Notional(price, count)

(* The live parser reads a count or a dollar amount for what it is worth,  *)
(* "10", "10.0" and "10.00" alike (dollarsToCents), unless it overflows.   *)
LiveReadsTheCount ==
    Parses(written) /\ FitsInt(count) => DollarsToCents(written) = count

(* What checkOrder holds against the caps is what the order is worth, less *)
(* a fraction of a cent, for every product that fits its integers.         *)
CapMissesLessThanACent ==
    WholeCents /\ Parses(written) =>
        LET p == price \div 100
            counted == 100 * OrderCents(DollarsToCents(written), p)
        IN  FitsInt(count * p) => counted <= count * p /\ count * p < counted + 100

(* The paper book reads a count for what it is worth (mcp-tools.yaml:      *)
(* "Fixed-point contract quantity encoded as a decimal string").           *)
PaperReadsTheCount == NewMoney(written) = count
=============================================================================
