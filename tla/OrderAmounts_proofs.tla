------------------------ MODULE OrderAmounts_proofs ------------------------
(***************************************************************************)
(* What paper and live mode make of an order's price and count, for every  *)
(* price, every number of digits and every width of the integers.  The     *)
(* rounding arguments state each division by its bounds (DivBounds); the   *)
(* wrapping ones show that what a product overflows by, reduced before or  *)
(* after it is multiplied, comes to the same.                              *)
(***************************************************************************)
EXTENDS OrderAmounts, FixedPoint_proofs, FiniteSetTheorems

(* A count is a natural number of hundredths, however many decimals it was *)
(* written with.                                                           *)
LEMMA CountType ==
    ASSUME written \in Counts
    PROVE  /\ written.digits \in Nat
           /\ written.places \in 0..2
           /\ count \in Nat
           /\ written.places = 0 => count = 100 * written.digits
           /\ written.places = 1 => count = 10 * written.digits
           /\ written.places = 2 => count = written.digits
<1>1. written.digits \in Nat /\ written.places \in 0..2
  BY AmountsAssumption DEF Counts
<1>2. CASE written.places = 0
  <2>1. 10^(2 - 0) = 100
    OBVIOUS
  <2> QED  BY <1>1, <1>2, <2>1 DEF count, Worth
<1>3. CASE written.places = 1
  <2>1. 10^(2 - 1) = 10
    OBVIOUS
  <2> QED  BY <1>1, <1>3, <2>1 DEF count, Worth
<1>4. CASE written.places = 2
  <2>1. 10^(2 - 2) = 1
    OBVIOUS
  <2> QED  BY <1>1, <1>4, <2>1 DEF count, Worth
<1> QED  BY <1>1, <1>2, <1>3, <1>4

(* The harness stays within the prices and counts it was given.            *)
LEMMA Given == Spec => [](price \in Prices /\ written \in Counts)
<1>1. Init => price \in Prices /\ written \in Counts
  BY DEF Init
<1>2. price \in Prices /\ written \in Counts /\ [Next]_vars
        => (price \in Prices /\ written \in Counts)'
  BY DEF Next, NextPrice, NextCount, NextPlaces, Counts, vars
<1> QED  BY <1>1, <1>2, PTL DEF Spec

(* A price in whole cents is a hundred times its cents.                    *)
LEMMA Cents ==
    ASSUME price \in 1..(One - 1), WholeCents
    PROVE  price \div 100 \in 1..99 /\ price = 100 * (price \div 100)
  BY DEF WholeCents, One

-----------------------------------------------------------------------------
(* Cutting off twice and rounding half-up is one rounding half-up.         *)
LEMMA OneRounding ==
    ASSUME NEW e \in Nat
    PROVE  (e \div 100000 + 5) \div 10 = (e + 500000) \div 1000000
<1> DEFINE t == e \div 100000
           f == (t + 5) \div 10
           g == (e + 500000) \div 1000000
<1>1. t \in Nat /\ 100000 * t <= e /\ e < 100000 * t + 100000
  BY DivBounds
<1> HIDE DEF t
<1>2. f \in Nat /\ 10 * f <= t + 5 /\ t + 5 < 10 * f + 10
  <2>1. t + 5 \in Nat
    BY <1>1
  <2> QED  BY <2>1, DivBounds
<1>3. /\ g \in Nat
      /\ 1000000 * g <= e + 500000
      /\ e + 500000 < 1000000 * g + 1000000
  <2>1. e + 500000 \in Nat
    OBVIOUS
  <2> QED  BY <2>1, DivBounds
<1> HIDE DEF f, g
<1>4. f = g
  BY <1>1, <1>2, <1>3
<1> QED  BY <1>4 DEF f, g, t

(* Rounding half-up what is larger by d, at most n, gives no less and      *)
(* little more.                                                            *)
LEMMA RoundingMore ==
    ASSUME NEW e \in Nat, NEW d \in Nat, NEW n \in Nat, d <= n
    PROVE  /\ (e + 500000) \div 1000000 <= (e + d + 500000) \div 1000000
           /\ (e + d + 500000) \div 1000000
                <= (e + 500000) \div 1000000 + n \div 1000000 + 1
<1> DEFINE f == (e + 500000) \div 1000000
           g == (e + d + 500000) \div 1000000
           k == n \div 1000000
<1>1. f \in Nat /\ 1000000 * f <= e + 500000 /\ e + 500000 < 1000000 * f + 1000000
  <2>1. e + 500000 \in Nat
    OBVIOUS
  <2> QED  BY <2>1, DivBounds
<1>2. /\ g \in Nat
      /\ 1000000 * g <= e + d + 500000
      /\ e + d + 500000 < 1000000 * g + 1000000
  <2>1. e + d + 500000 \in Nat
    OBVIOUS
  <2> QED  BY <2>1, DivBounds
<1>3. k \in Nat /\ n < 1000000 * k + 1000000
  BY DivBounds
<1> HIDE DEF f, g, k
<1>4. f <= g /\ g <= f + k + 1
  BY <1>1, <1>2, <1>3
<1> QED  BY <1>4 DEF f, g, k

(* In whole cents the fee is the published formula with one rounding at    *)
(* the end, and at finer prices it is short of it by no more than what the *)
(* cut of P * (1-P) comes to, whatever the order (Fee).                    *)
THEOREM FeeIsTheFormula == Spec => []FeeMatchesFormula
<1>1. ASSUME price \in Prices, written \in Counts
      PROVE  FeeMatchesFormula
  <2> DEFINE product == price * (One - price)
             s == product \div 10000
             r == product % 10000
             n == 7 * count
             d == (n * r) \div 10000
             e == 7 * s * count
  <2>1. count \in Nat /\ price \in 1..(One - 1)
    BY <1>1, CountType, AmountsAssumption
  <2>2. product \in Nat
    BY <2>1 DEF One
  <2>3. WholeCents => r = 0
    <3> SUFFICES ASSUME WholeCents PROVE r = 0
      OBVIOUS
    <3> DEFINE p == price \div 100
               q == p * (100 - p)
    <3>1. p \in 1..99 /\ price = 100 * p
      BY <2>1, Cents
    <3> HIDE DEF p
    <3>2. q \in Nat
      BY <3>1
    <3>3. product = 10000 * q
      BY <3>1 DEF One
    <3> HIDE DEF q, product
    <3> QED  BY <3>2, <3>3
  <2> HIDE DEF product
  <2>4. s \in Nat /\ r \in 0..9999
    BY <2>2
  <2> HIDE DEF s, r
  <2>5. n \in Nat /\ e \in Nat /\ n * s = e
    BY <2>1, <2>4
  <2> HIDE DEF n
  <2>6. n * r \in Nat /\ n * r <= 10000 * n
    BY <2>4, <2>5
  <2>7. d \in Nat /\ d <= n /\ (r = 0 => d = 0)
    <3>1. d \in Nat /\ 10000 * d <= n * r
      BY <2>6, DivBounds
    <3>2. d <= n
      <4> HIDE DEF d
      <4> QED  BY <3>1, <2>5, <2>6
    <3>3. r = 0 => d = 0
      BY <2>5
    <3> QED  BY <3>1, <3>2, <3>3
  <2>8. Fee(price, count) = (e \div 100000 + 5) \div 10
    BY DEF Fee, HalfUp, s, product
  <2>9. PublishedFee = (n * s + d + 500000) \div 1000000
    BY DEF PublishedFee, n, s, r, product
  <2> HIDE DEF e, d
  <2>10. Fee(price, count) = (e + 500000) \div 1000000
    BY <2>5, <2>8, OneRounding
  <2>11. PublishedFee = (e + d + 500000) \div 1000000
    BY <2>5, <2>9
  <2>12. WholeCents => Fee(price, count) = PublishedFee
    BY <2>3, <2>5, <2>7, <2>10, <2>11
  <2>13. /\ Fee(price, count) <= PublishedFee
         /\ PublishedFee <= Fee(price, count) + n \div 1000000 + 1
    BY <2>5, <2>7, <2>10, <2>11, RoundingMore
  <2> QED  BY <2>12, <2>13 DEF FeeMatchesFormula, n
<1> QED  BY <1>1, Given, PTL

(* Whatever the order, an ask is never charged more than its proceeds      *)
(* (Execute, Fee).                                                         *)
THEOREM AsksNeverCost == Spec => []AskNeverCosts
<1>1. ASSUME price \in Prices, written \in Counts
      PROVE  AskNeverCosts
  <2>1. price \in 1..(One - 1) /\ count \in Nat
    BY <1>1, CountType, AmountsAssumption
  <2> QED  BY <2>1, FeeAtMostNotional DEF AskNeverCosts
<1> QED  BY <1>1, Given, PTL

-----------------------------------------------------------------------------
(* An integer of n bits takes 2^n values: one at least.  (A set of n       *)
(* elements has that many subsets.)                                        *)
LEMMA PowerOfTwo ==
    ASSUME NEW n \in Nat
    PROVE  2^n \in Nat \ {0}
<1> DEFINE S == 1..n
<1>1. IsFiniteSet(S) /\ Cardinality(S) = n
  BY FS_Interval
<1> HIDE DEF S
<1>2. IsFiniteSet(SUBSET S) /\ Cardinality(SUBSET S) = 2^n
  BY <1>1, FS_SUBSET
<1>3. Cardinality(SUBSET S) \in Nat
  BY <1>2, FS_CardinalityType
<1>4. Cardinality(SUBSET S) # 0
  BY <1>2, FS_EmptySet
<1> QED  BY <1>2, <1>3, <1>4

(* Adding a multiple of m changes no remainder.                            *)
LEMMA SameRemainder ==
    ASSUME NEW a \in Int, NEW k \in Int, NEW m \in Nat \ {0}
    PROVE  (a + m * k) % m = a % m
<1> DEFINE b == a + m * k
<1>1. b \in Int
  OBVIOUS
<1>2. a \div m \in Int /\ a = m * (a \div m) + (a % m) /\ a % m \in 0..(m - 1)
  OBVIOUS
<1> HIDE DEF b
<1>3. b \div m \in Int /\ b = m * (b \div m) + (b % m) /\ b % m \in 0..(m - 1)
  BY <1>1
<1> DEFINE d == (a \div m) + k - (b \div m)
<1>4. d \in Int
  BY <1>2, <1>3
<1>5. (b % m) - (a % m) = m * d
  <2>1. ASSUME NEW x \in Int, NEW y \in Int
        PROVE  m * (x + k - y) = m * x + m * k - m * y
    OBVIOUS
  <2>2. m * d = m * (a \div m) + m * k - m * (b \div m)
    BY <1>2, <1>3, <2>1
  <2> QED  BY <2>2, <1>2, <1>3 DEF b
<1> HIDE DEF d
<1>6. -m < m * d /\ m * d < m
  BY <1>2, <1>3, <1>5
<1>7. d = 0
  <2>1. d >= 1 => m * d >= m
    BY <1>4
  <2>2. d <= -1 => m * d <= -m
    BY <1>4
  <2> QED  BY <1>4, <1>6, <2>1, <2>2
<1>8. (b % m) - (a % m) = 0
  BY <1>5, <1>7
<1> QED  BY <1>2, <1>3, <1>8 DEF b

(* What an integer holds is its value but for a multiple of 2^IntBits, and *)
(* two values that differ by such a multiple are held as the same.         *)
LEMMA Wraps ==
    ASSUME NEW n \in Int
    PROVE  /\ \E k \in Int : Wrapped(n) = n + 2^IntBits * k
           /\ \A k \in Int : Wrapped(n + 2^IntBits * k) = Wrapped(n)
<1> DEFINE m == 2^IntBits
           h == 2^(IntBits - 1)
<1>1. m \in Nat \ {0}
  BY PowerOfTwo, IntBitsAssumption
<1>2. h \in Int
  <2>1. IntBits - 1 \in Nat
    BY IntBitsAssumption
  <2> QED  BY <2>1, PowerOfTwo
<1>3. \A x : Wrapped(x) = ((x + h) % m) - h
  BY DEF Wrapped
<1> HIDE DEF m, h
<1>4. \E k \in Int : Wrapped(n) = n + m * k
  <2> DEFINE a == n + h
             q == a \div m
  <2>1. a \in Int
    BY <1>2
  <2> HIDE DEF a
  <2>2. q \in Int /\ a = m * q + (a % m) /\ a % m \in Int
    BY <2>1, <1>1
  <2> HIDE DEF q
  <2>3. -q \in Int /\ m * q \in Int /\ m * (-q) = -(m * q)
    BY <2>2, <1>1
  <2>4. Wrapped(n) = (a % m) - h
    BY <1>3 DEF a
  <2>5. Wrapped(n) = n + m * (-q)
    BY <1>2, <2>2, <2>3, <2>4 DEF a
  <2> QED  BY <2>3, <2>5
<1>5. ASSUME NEW k \in Int
      PROVE  Wrapped(n + m * k) = Wrapped(n)
  <2>1. m * k \in Int
    BY <1>1
  <2>2. (n + m * k) + h = (n + h) + m * k
    BY <1>2, <2>1
  <2>3. n + h \in Int
    BY <1>2
  <2>4. ((n + h) + m * k) % m = (n + h) % m
    BY <1>1, <2>3, SameRemainder
  <2> QED  BY <1>3, <2>2, <2>4
<1> QED  BY <1>4, <1>5 DEF m

(* A count of up to two decimals is read in hundredths, whichever way it   *)
(* is padded, and held in an integer (dollarsToCents).                     *)
LEMMA ReadInHundredths ==
    ASSUME written \in Counts
    PROVE  DollarsToCents(written) = Wrapped(count)
<1> DEFINE n == written.digits
<1>1. n \in Nat /\ written.places \in 0..2
  BY CountType
<1> DEFINE read(d) == (n \div 10^d) * 100 + (n % 10^d) * 10^(2 - d)
<1>2. DollarsToCents(written) = Wrapped(read(written.places))
  BY DEF DollarsToCents
<1>3. CASE written.places = 0
  <2>1. 10^0 = 1 /\ 10^(2 - 0) = 100
    OBVIOUS
  <2>2. (n \div 1) * 100 + (n % 1) * 100 = 100 * n
    BY <1>1
  <2>3. read(written.places) = 100 * n
    BY <1>3, <2>1, <2>2
  <2> QED  BY <1>2, <1>3, <2>3, CountType
<1>4. CASE written.places = 1
  <2>1. 10^1 = 10 /\ 10^(2 - 1) = 10
    OBVIOUS
  <2>2. (n \div 10) * 100 + (n % 10) * 10 = 10 * n
    BY <1>1
  <2>3. read(written.places) = 10 * n
    BY <1>4, <2>1, <2>2
  <2> QED  BY <1>2, <1>4, <2>3, CountType
<1>5. CASE written.places = 2
  <2>1. 10^2 = 100 /\ 10^(2 - 2) = 1
    OBVIOUS
  <2>2. (n \div 100) * 100 + (n % 100) * 1 = n
    BY <1>1
  <2>3. read(written.places) = n
    BY <1>5, <2>1, <2>2
  <2> QED  BY <1>2, <1>5, <2>3, CountType
<1> QED  BY <1>1, <1>3, <1>4, <1>5

(* Every count that an integer holds is read for what it is worth, however *)
(* it was written (dollarsToCents).                                        *)
THEOREM LiveReadsCounts == Spec => []LiveReadsTheCount
<1>1. ASSUME price \in Prices, written \in Counts
      PROVE  LiveReadsTheCount
  BY <1>1, ReadInHundredths DEF LiveReadsTheCount, FitsInt
<1> QED  BY <1>1, Given, PTL

(* If the product of count and price fits an integer the caps are held     *)
(* against it, less a fraction of a cent; and that even where the count    *)
(* alone did not fit: the product of the wrapped count wraps back (the     *)
(* multiplication of checkOrder).                                          *)
THEOREM CapsMissLessThanACent == Spec => []CapMissesLessThanACent
<1>1. ASSUME price \in Prices, written \in Counts
      PROVE  CapMissesLessThanACent
  <2> DEFINE p == price \div 100
             c == DollarsToCents(written)
  <2> SUFFICES ASSUME WholeCents, FitsInt(count * p)
               PROVE  /\ 100 * OrderCents(c, p) <= count * p
                      /\ count * p < 100 * OrderCents(c, p) + 100
    BY DEF CapMissesLessThanACent
  <2>1. p \in 1..99
    BY <1>1, Cents, AmountsAssumption
  <2>2. count \in Nat
    BY <1>1, CountType
  <2>3. c = Wrapped(count)
    BY <1>1, ReadInHundredths
  <2> DEFINE m == 2^IntBits
  <2>4. m \in Nat
    BY PowerOfTwo, IntBitsAssumption
  <2>5. PICK k \in Int : Wrapped(count) = count + m * k
    BY <2>2, Wraps
  <2>6. \A n \in Int, j \in Int : Wrapped(n + m * j) = Wrapped(n)
    BY Wraps
  <2> HIDE DEF p, c, m
  <2>7. c * p = count * p + m * (k * p) /\ k * p \in Int /\ count * p \in Nat
    BY <2>1, <2>2, <2>3, <2>4, <2>5
  <2>8. Wrapped(c * p) = count * p
    BY <2>6, <2>7 DEF FitsInt
  <2>9. OrderCents(c, p) = (count * p) \div 100
    BY <2>7, <2>8 DEF OrderCents, Quo
  <2> HIDE DEF OrderCents
  <2> DEFINE v == count * p
  <2> HIDE DEF v
  <2>10. v \in Nat /\ OrderCents(c, p) = v \div 100
    BY <2>7, <2>9 DEF v
  <2>11. 100 * (v \div 100) <= v /\ v < 100 * (v \div 100) + 100
    BY <2>10, DivBounds
  <2> QED  BY <2>10, <2>11 DEF v
<1> QED  BY <1>1, Given, PTL
=============================================================================
