--------------------------- MODULE MCLiveTrading ---------------------------
(***************************************************************************)
(* Model-checking instance of LiveTrading.                                 *)
(***************************************************************************)
EXTENDS LiveTrading, TLC

Symmetry == Permutations(Calls) \cup Permutations(Orders)

-----------------------------------------------------------------------------
(* The exchange never accepts more in a UTC day than the daily caps allow  *)
(* (README: place and amend requests beyond them "are rejected before      *)
(* submission").                                                           *)
AcceptedWithinDailyCaps ==
    /\ Cardinality(AcceptedToday) <= MaxDailyOrders
    /\ AcceptedCents <= MaxDailyCents
=============================================================================
