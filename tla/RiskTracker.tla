---------------------------- MODULE RiskTracker ----------------------------
(***************************************************************************)
(* The in-process risk caps of the live kernel (live/trading.go,           *)
(* RiskTracker).  The tracker is one mutex-protected record; each operator *)
(* below is one critical section, as a function of the tracker and of the  *)
(* UTC day on the clock.  Amounts are whole cents.                         *)
(***************************************************************************)
EXTENDS Integers, FiniteSets

CONSTANTS MaxOrderCents,   \* per-order cap
          MaxDailyCents,   \* UTC-day notional cap
          MaxDailyOrders   \* UTC-day order-count cap

(* NewRiskTracker refuses a non-positive order count.  It accepts negative *)
(* dollar caps, under which every order is refused; they are left out.     *)
ASSUME CapsAssumption ==
    /\ MaxOrderCents \in Nat
    /\ MaxDailyCents \in Nat
    /\ MaxDailyOrders \in Nat \ {0}

(* Day 0 is the tracker's initial empty day string. *)
Trackers == [day : Nat, orders : Nat, notional : Nat]

NewRiskTracker == [day |-> 0, orders |-> 0, notional |-> 0]

(* A day other than the tracker's own opens an empty window. *)
RollDay(t, today) ==
    IF t.day = today THEN t ELSE [day |-> today, orders |-> 0, notional |-> 0]

(* Mutant: the per-order cap is forgotten.                                 *)
WithinCaps_NoOrderCap(t, today, cents) ==
    LET window == RollDay(t, today) IN
    /\ window.orders + 1 <= MaxDailyOrders
    /\ window.notional + cents <= MaxDailyCents

(* Mutant: the day's notional is compared without the order asked for.     *)
WithinCaps_WithoutThisOrder(t, today, cents) ==
    LET window == RollDay(t, today) IN
    /\ cents <= MaxOrderCents
    /\ window.orders + 1 <= MaxDailyOrders
    /\ window.notional <= MaxDailyCents

(* Mutant: the order asked for is not counted against the day's number.    *)
WithinCaps_OneMore(t, today, cents) ==
    LET window == RollDay(t, today) IN
    /\ cents <= MaxOrderCents
    /\ window.orders <= MaxDailyOrders
    /\ window.notional + cents <= MaxDailyCents

(* The three caps, against the window of today.  Nothing is reserved. *)
WithinCaps(t, today, cents) ==
    LET window == RollDay(t, today) IN
    /\ cents <= MaxOrderCents
    /\ window.orders + 1 <= MaxDailyOrders
    /\ window.notional + cents <= MaxDailyCents

(* Mutant: recording does not roll the day.                                *)
Record_StaleWindow(t, today, cents) ==
    [t EXCEPT !.orders = @ + 1, !.notional = @ + cents]

(* One accepted order is committed to the window of today. *)
Record(t, today, cents) ==
    LET window == RollDay(t, today) IN
    [window EXCEPT !.orders = @ + 1, !.notional = @ + cents]

(* What all x in DOMAIN f come to at f[x] each: one pair for every unit.   *)
Total(f) == Cardinality(UNION {{x} \X (1..f[x]) : x \in DOMAIN f})
=============================================================================
