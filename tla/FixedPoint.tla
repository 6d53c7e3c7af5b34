----------------------------- MODULE FixedPoint -----------------------------
(***************************************************************************)
(* The decimal arithmetic of the paper book (ledger/ledger.go, Money, over *)
(* unbounded big.Int).  A Money of a known scale is its integer value:     *)
(*     a price      ten-thousandths of a dollar        (scale 4)           *)
(*     a count      hundredths of a contract           (scale 2)           *)
(*     an amount    cents                              (scale 2)           *)
(* A decimal as written is its digits and how many follow the point:       *)
(* "10" is <<10, 0>>, "10.00" is <<1000, 2>>.                              *)
(*                                                                         *)
(* big.Int.Quo truncates toward zero.  The operands here are natural       *)
(* numbers (the tool schema allows no sign), where that is \div.           *)
(***************************************************************************)
EXTENDS Integers

One == 10000    \* a price of one dollar

Literals == [digits : Nat, places : 0..6]

(* What a decimal is worth at a scale that is no less than its places.     *)
Worth(lit, scale) == lit.digits * 10^(scale - lit.places)

(* NewMoney drops the point and takes the digits at the scale asked for.   *)
NewMoney(lit) == lit.digits

(* price.Mul(count, 2): scale 6 brought back to cents.                     *)
Notional(price, count) == (price * count) \div 10000

(* Mutant: cents are cut off, not rounded.                                 *)
HalfUp_Truncates(tenths) == tenths \div 10

(* halfUp: tenths of a cent to cents.                                      *)
HalfUp(tenths) == (tenths + 5) \div 10

(* Mutant: the fee rate is 70 per cent.                                    *)
Fee_TenthRate(price, count) ==
    LET spread == (price * (One - price)) \div 10000
    IN  HalfUp((7 * spread * count) \div 10000)

(* The fee of 0.07 * P * (1-P) a contract.  P * (1-P) is cut off at scale  *)
(* 4; the product with the count is cut off at scale 3, then rounded.      *)
(* (100 * 10 / (10^6 * 100) of the code is 1 / 10^5.)                      *)
Fee(price, count) ==
    LET spread == (price * (One - price)) \div 10000
    IN  HalfUp((7 * spread * count) \div 100000)

(* yesAskFromNoBid: who bids p for NO asks 1 - p for YES.  Its argument is *)
(* the digits of the bid without the point, ten-thousandths of a dollar,   *)
(* as the exchange writes a price with four decimals.                      *)
YesAskFromNoBid(noBid) == One - noBid
=============================================================================
