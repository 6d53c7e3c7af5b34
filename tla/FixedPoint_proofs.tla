------------------------- MODULE FixedPoint_proofs -------------------------
(***************************************************************************)
(* What the roundings of FixedPoint guarantee, for every price and count.  *)
(***************************************************************************)
EXTENDS FixedPoint, TLAPS

(* Division of natural numbers, as the bounds the arguments below use.     *)
LEMMA DivBounds ==
    ASSUME NEW a \in Nat, NEW b \in Nat \ {0}
    PROVE  /\ a \div b \in Nat
           /\ b * (a \div b) <= a
           /\ a < b * (a \div b) + b
  OBVIOUS

(* P * (1-P), cut off, is a natural number no larger than P.               *)
LEMMA SpreadBound ==
    ASSUME NEW price \in 1..(One - 1)
    PROVE  /\ (price * (One - price)) \div 10000 \in Nat
           /\ (price * (One - price)) \div 10000 <= price
<1>1. price * (One - price) \in Nat /\ price * (One - price) <= 10000 * price
  <2>1. price \in Nat /\ One - price \in Nat /\ One - price <= 10000
    BY DEF One
  <2>2. price * (One - price) <= price * 10000
    BY <2>1
  <2> QED  BY <2>1, <2>2
<1> DEFINE a == price * (One - price)
<1>2. /\ a \div 10000 \in Nat
      /\ 10000 * (a \div 10000) <= a
  BY <1>1, DivBounds
<1> HIDE DEF a
<1>3. a <= 10000 * price
  BY <1>1 DEF a
<1>4. a \div 10000 <= price
  <2>1. price \in Nat /\ a \in Int
    BY <1>1 DEF One, a
  <2> QED  BY <2>1, <1>2, <1>3
<1> QED  BY <1>2, <1>4 DEF a

(* A fill moves whole, non-negative cents.                                 *)
LEMMA FeeAndNotionalTypes ==
    ASSUME NEW price \in 1..(One - 1), NEW count \in Nat
    PROVE  Fee(price, count) \in Nat /\ Notional(price, count) \in Nat
<1> DEFINE spread == (price * (One - price)) \div 10000
           tenths == (7 * spread * count) \div 100000
<1>1. spread \in Nat
  BY SpreadBound
<1> HIDE DEF spread
<1>2. 7 * spread * count \in Nat
  BY <1>1
<1>3. tenths \in Nat
  BY <1>2, DivBounds
<1> HIDE DEF tenths
<1>4. (tenths + 5) \div 10 \in Nat
  BY <1>3, DivBounds
<1>5. Fee(price, count) \in Nat
  BY <1>4 DEF Fee, HalfUp, tenths, spread
<1>6. price * count \in Nat
  BY DEF One
<1>7. Notional(price, count) \in Nat
  BY <1>6, DivBounds DEF Notional
<1> QED  BY <1>5, <1>7

(* Selling never costs money: whatever both roundings do, the fee of an    *)
(* order is no more than what it is worth in whole cents (Execute on an    *)
(* ask, Fee).                                                              *)
THEOREM FeeAtMostNotional ==
    ASSUME NEW price \in 1..(One - 1), NEW count \in Nat
    PROVE  Fee(price, count) <= Notional(price, count)
<1> DEFINE spread == (price * (One - price)) \div 10000
           value == price * count
           cents == value \div 10000
           weighted == spread * count
           tenths == (7 * weighted) \div 100000
<1>1. spread \in Nat /\ spread <= price /\ price \in Nat
  <2>1. spread \in Nat /\ spread <= price
    BY SpreadBound
  <2>2. price \in Nat
    BY DEF One
  <2> QED  BY <2>1, <2>2
<1> HIDE DEF spread
<1>2. weighted \in Nat /\ value \in Nat /\ weighted <= value
  BY <1>1
<1> HIDE DEF weighted, value
<1>3. cents \in Nat /\ value < 10000 * cents + 10000
  BY <1>2, DivBounds
<1>4. 7 * weighted \in Nat
  BY <1>2
<1>5. tenths \in Nat /\ 100000 * tenths <= 7 * weighted
  BY <1>4, DivBounds
<1> HIDE DEF cents, tenths
<1>6. 10 * tenths < 7 * cents + 7
  BY <1>2, <1>3, <1>5
<1>7. (tenths + 5) \div 10 \in Nat /\ 10 * ((tenths + 5) \div 10) <= tenths + 5
  BY <1>5, DivBounds
<1> DEFINE fee == (tenths + 5) \div 10
<1> HIDE DEF fee
<1>8. fee \in Nat /\ 10 * fee <= tenths + 5
  BY <1>7 DEF fee
<1>9. fee <= cents
  BY <1>3, <1>5, <1>6, <1>8
<1>10. Notional(price, count) = cents
  BY DEF Notional, cents, value
<1>11. 7 * spread * count = 7 * weighted
  BY <1>1 DEF weighted
<1>12. Fee(price, count) = fee
  BY <1>11 DEF Fee, HalfUp, fee, tenths, spread
<1> QED  BY <1>9, <1>10, <1>12
=============================================================================
