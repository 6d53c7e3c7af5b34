------------------------ MODULE LiveTrading_proofs -------------------------
(***************************************************************************)
(* Theorems about the live write path, for every set of goroutines, orders *)
(* and notionals, every value of the caps and every choice of faults.      *)
(***************************************************************************)
EXTENDS LiveTrading, FiniteSetTheorems, TLAPS

-----------------------------------------------------------------------------
(* The tracker's operators.                                                *)

(* Rolling the day, creating a tracker and recording an order keep the     *)
(* tracker's type (RiskTracker.rollDay, record).                           *)
LEMMA TrackerTypes ==
    ASSUME NEW t \in Trackers, NEW d \in Nat, NEW n \in Nat
    PROVE  /\ NewRiskTracker \in Trackers
           /\ RollDay(t, d) \in Trackers
           /\ Record(t, d, n) \in Trackers
<1>1. NewRiskTracker \in Trackers
  BY DEF Trackers, NewRiskTracker
<1>2. RollDay(t, d) \in Trackers
  BY DEF Trackers, RollDay
<1>3. Record(t, d, n) \in Trackers
  <2> DEFINE w == RollDay(t, d)
  <2>1. /\ w.day \in Nat /\ w.orders + 1 \in Nat /\ w.notional + n \in Nat
        /\ w \in Trackers
    BY <1>2 DEF Trackers
  <2> HIDE DEF w
  <2>2. [w EXCEPT !.orders = @ + 1, !.notional = @ + n] \in Trackers
    BY <2>1 DEF Trackers
  <2> QED BY <2>2 DEF Record, w
<1> QED BY <1>1, <1>2, <1>3

(* Amounts are natural numbers.                                            *)
LEMMA AmountsAreNat == ASSUME NEW n \in Amounts PROVE n \in Nat
<1>1. Cents \subseteq Nat
  BY LiveAssumption
<1> QED BY <1>1 DEF Amounts

(* The steps of a call that is under way keep it a call under way.         *)
LEMMA CallTypes ==
    ASSUME TypeOK, NEW c \in Calls, calls[c].pc # "idle"
    PROVE  /\ calls[c] \in ActiveCalls
           /\ \A label \in Pcs \ {"idle"} :
                Goto(c, label) => calls' \in [Calls -> {Idle} \cup ActiveCalls]
           /\ \A result \in Outcomes :
                Finish(c, result) => calls' \in [Calls -> {Idle} \cup ActiveCalls]
<1>1. calls[c] \in ActiveCalls
  BY DEF TypeOK, Idle
<1>2. ASSUME NEW label \in Pcs \ {"idle"}, Goto(c, label)
      PROVE  calls' \in [Calls -> {Idle} \cup ActiveCalls]
  <2>1. [calls[c] EXCEPT !.pc = label] \in ActiveCalls
    BY <1>1, <1>2 DEF ActiveCalls
  <2> QED BY <2>1, <1>2 DEF TypeOK, Goto
<1>3. ASSUME NEW result \in Outcomes, Finish(c, result)
      PROVE  calls' \in [Calls -> {Idle} \cup ActiveCalls]
  <2>1. [calls[c] EXCEPT !.pc = "done", !.outcome = result] \in ActiveCalls
    BY <1>1, <1>3 DEF ActiveCalls, Pcs
  <2> QED BY <2>1, <1>3 DEF TypeOK, Finish
<1> QED BY <1>1, <1>2, <1>3

(* What a step says of its own call and leaves alone of it and the others. *)
SameRequest(c) ==
    /\ calls'[c].kind = calls[c].kind
    /\ calls'[c].cents = calls[c].cents
    /\ calls'[c].order = calls[c].order

(* Going on or finishing changes one call, and not what it asks for.       *)
LEMMA CallMoves ==
    ASSUME TypeOK, NEW c \in Calls, calls[c].pc # "idle"
    PROVE  /\ \A label : Goto(c, label) =>
                /\ calls'[c].pc = label /\ SameRequest(c)
                /\ \A d \in Calls \ {c} : calls'[d] = calls[d]
           /\ \A result : Finish(c, result) =>
                /\ calls'[c].pc = "done" /\ SameRequest(c)
                /\ \A d \in Calls \ {c} : calls'[d] = calls[d]
<1>1. calls[c] \in ActiveCalls
  BY CallTypes
<1>2. ASSUME NEW label, Goto(c, label)
      PROVE  /\ calls'[c].pc = label /\ SameRequest(c)
             /\ \A d \in Calls \ {c} : calls'[d] = calls[d]
  <2>1. calls'[c] = [calls[c] EXCEPT !.pc = label]
    BY <1>2 DEF Goto, TypeOK
  <2> QED BY <2>1, <1>1, <1>2 DEF ActiveCalls, SameRequest, Goto, TypeOK
<1>3. ASSUME NEW result, Finish(c, result)
      PROVE  /\ calls'[c].pc = "done" /\ SameRequest(c)
             /\ \A d \in Calls \ {c} : calls'[d] = calls[d]
  <2>1. calls'[c] = [calls[c] EXCEPT !.pc = "done", !.outcome = result]
    BY <1>3 DEF Finish, TypeOK
  <2> QED BY <2>1, <1>1, <1>3 DEF ActiveCalls, SameRequest, Finish, TypeOK
<1> QED BY <1>2, <1>3

-----------------------------------------------------------------------------
(* Type correctness.                                                       *)

(* Only a call waiting for its answer has a request on the wire.           *)
WireInv == \A c \in Calls : wire[c] # "none" => calls[c].pc = "wait"

(* Where the write of a call under way is one the exchange may be sent.    *)
LEMMA WriteTypes ==
    ASSUME TypeOK, NEW c \in Calls, calls[c].pc # "idle"
    PROVE  Write(c) \in Writes
BY CallTypes DEF Write, Writes, ActiveCalls

(* What the exchange makes of a write is an order (AfterWrite).            *)
LEMMA AfterWriteTypes ==
    ASSUME TypeOK, NEW kind \in Kinds, NEW o \in Orders, NEW n \in Amounts, NEW w,
           w.kind = kind, w.order = o, w.cents = n,
           NEW record \in AfterWrite(w)
    PROVE  /\ record \in [status : Statuses, cents : Nat, day : Nat]
           /\ [exchange EXCEPT ![o] = record]
                 \in [Orders -> [status : Statuses, cents : Nat, day : Nat]]
<1> USE LiveAssumption
<1>0. /\ n \in Nat /\ today \in Nat
      /\ exchange[o] \in [status : Statuses, cents : Nat, day : Nat]
  BY DEF TypeOK, Amounts
<1>1. record \in [status : Statuses, cents : Nat, day : Nat]
  <2>1. CASE kind = "place"
    BY <2>1, <1>0 DEF AfterWrite, Statuses
  <2>2. CASE kind = "amend"
    BY <2>2, <1>0 DEF AfterWrite, Statuses
  <2>3. CASE kind = "cancel"
    <3>1. record = [exchange[o] EXCEPT !.status = "canceled"]
      BY <2>3 DEF AfterWrite
    <3> QED BY <3>1, <1>0 DEF Statuses
  <2> QED BY <2>1, <2>2, <2>3
<1> QED BY <1>1 DEF TypeOK

(* A goroutine's own step keeps every variable in its type.                *)
LEMMA StepKeepsTypes ==
    ASSUME TypeOK, NEW c \in Calls, Step(c)
    PROVE  TypeOK'
<1> USE LiveAssumption
<1>0. /\ calls[c].pc # "idle" /\ calls[c] \in ActiveCalls
      /\ calls[c].cents \in Nat /\ today \in Nat
  <2>1. calls[c].pc # "idle"
    BY DEF Step, At, Gate, Interlock, RiskCheck, StateGate, Submit, Answered,
           Unreachable, Recheck, ConcludePlace, ConcludeAmend, ConcludeCancel, Return
  <2>2. calls[c] \in ActiveCalls
    BY <2>1, CallTypes
  <2>3. calls[c].cents \in Nat
    <3>1. calls[c].cents \in Amounts
      BY <2>2 DEF ActiveCalls
    <3> QED BY <3>1, AmountsAreNat
  <2>4. today \in Nat
    BY DEF TypeOK
  <2> QED BY <2>1, <2>2, <2>3, <2>4
<1> DEFINE CallsOK == calls' \in [Calls -> {Idle} \cup ActiveCalls]
<1>1. /\ \A label \in Pcs \ {"idle"} : Goto(c, label) => CallsOK
      /\ \A result \in Outcomes : Finish(c, result) => CallsOK
  BY <1>0, CallTypes
<1>2. /\ RollDay(tracker, today) \in Trackers
      /\ Record(tracker, today, calls[c].cents) \in Trackers
  BY <1>0, TrackerTypes DEF TypeOK
<1> HIDE DEF CallsOK
<1>a. CASE Gate(c)
  <2>1. CallsOK
    BY <1>a, <1>1 DEF Gate, Pcs, Outcomes, CleanFailures
  <2> QED BY <2>1, <1>a DEF CallsOK, Gate, TypeOK, Kernel, Network, Exchange
<1>b. CASE Interlock(c)
  <2>1. CallsOK
    BY <1>b, <1>1 DEF Interlock, Pcs, Outcomes, CleanFailures
  <2> QED BY <2>1, <1>b DEF CallsOK, Interlock, TypeOK, Kernel, Network, Exchange
<1>c. CASE RiskCheck(c)
  <2>1. CallsOK
    BY <1>c, <1>1 DEF RiskCheck, Pcs, Outcomes, CleanFailures
  <2> QED BY <2>1, <1>c, <1>2 DEF CallsOK, RiskCheck, TypeOK, Kernel, Network, Exchange
<1>d. CASE StateGate(c)
  <2>1. CallsOK
    BY <1>d, <1>1 DEF StateGate, GetOrder, Pcs, Outcomes, CleanFailures
  <2> QED BY <2>1, <1>d DEF CallsOK, StateGate, TypeOK, Kernel, Network, Exchange
<1>e. CASE Submit(c)
  <2>1. CallsOK
    BY <1>e, <1>1 DEF Submit, Pcs, Outcomes, CleanFailures
  <2> QED BY <2>1, <1>e DEF CallsOK, Submit, TypeOK, Kernel, Exchange
<1>f. CASE Answered(c)
  <2>1. CallsOK
    BY <1>f, <1>1 DEF Answered, Pcs, Outcomes, CleanFailures
  <2>2. tracker' \in Trackers
    BY <1>f, <1>2 DEF Answered, TypeOK
  <2> QED BY <2>1, <2>2, <1>f DEF CallsOK, Answered, TypeOK, Kernel, Exchange
<1>g. CASE Unreachable(c)
  <2>1. CallsOK
    BY <1>g, <1>1 DEF Unreachable, Pcs
  <2>2. late' \subseteq Writes
    BY <1>g, <1>0, WriteTypes DEF Unreachable, TypeOK
  <2> QED BY <2>1, <2>2, <1>g DEF CallsOK, Unreachable, TypeOK, Kernel, Exchange
<1>h. CASE Recheck(c)
  <2>1. PICK seen \in {"failed", "none", exchange[calls[c].order].status} :
             calls' = [calls EXCEPT ![c].pc = "conclude", ![c].seen = seen]
    BY <1>h DEF Recheck, FindOrderByClientID, GetOrder
  <2>2. seen \in Statuses \cup {"unseen", "failed"}
    BY <1>0 DEF TypeOK, ActiveCalls, Statuses
  <2>3. [calls[c] EXCEPT !.pc = "conclude", !.seen = seen] \in ActiveCalls
    BY <1>0, <2>2 DEF ActiveCalls, Pcs
  <2>4. CallsOK
    BY <2>1, <2>3 DEF CallsOK, TypeOK
  <2> QED BY <2>4, <1>h DEF CallsOK, Recheck, TypeOK, Kernel, Network, Exchange
<1>i. CASE ConcludePlace(c)
  <2>1. CallsOK
    BY <1>i, <1>1 DEF ConcludePlace, Outcomes
  <2>2. tracker' \in Trackers
    BY <1>i, <1>2 DEF ConcludePlace, TypeOK
  <2> QED BY <2>1, <2>2, <1>i DEF CallsOK, ConcludePlace, TypeOK, Kernel, Network, Exchange
<1>j. CASE ConcludeAmend(c) \/ ConcludeCancel(c)
  <2>1. CallsOK
    BY <1>j, <1>1 DEF ConcludeAmend, ConcludeCancel, Outcomes
  <2> QED BY <2>1, <1>j DEF CallsOK, ConcludeAmend, ConcludeCancel, TypeOK, Kernel, Network, Exchange
<1>k. CASE Return(c)
  BY <1>k DEF Return, TypeOK, Kernel, Network, Exchange
<1> QED BY <1>a, <1>b, <1>c, <1>d, <1>e, <1>f, <1>g, <1>h, <1>i, <1>j, <1>k DEF Step

(* A new call, the exchange, the process and the clock keep the types.     *)
LEMMA OthersKeepTypes ==
    ASSUME TypeOK, WireInv
    PROVE  /\ \A c \in Calls, k \in Kinds, o \in Orders, n \in Cents :
                Begin(c, k, o, n) => TypeOK'
           /\ \A c \in Calls : ExchangeAccepts(c) \/ ExchangeRefuses(c) => TypeOK'
           /\ \A w \in late : LateArrival(w) => TypeOK'
           /\ \A o \in Orders : OrderEnds(o) => TypeOK'
           /\ Arm \/ Disarm \/ Midnight \/ Restart => TypeOK'
<1> USE LiveAssumption
<1>1. ASSUME NEW c \in Calls, NEW k \in Kinds, NEW o \in Orders, NEW n \in Cents,
             Begin(c, k, o, n)
      PROVE  TypeOK'
  <2>1. [pc |-> IF k = "cancel" THEN "state" ELSE "gate", kind |-> k, order |-> o,
         cents |-> IF k = "cancel" THEN 0 ELSE n, seen |-> "unseen", outcome |-> "none"]
           \in ActiveCalls
    BY DEF ActiveCalls, Amounts, Pcs, Statuses, Outcomes
  <2> QED BY <2>1, <1>1 DEF Begin, TypeOK, Kernel, Exchange
<1>2. ASSUME NEW c \in Calls, ExchangeAccepts(c)
      PROVE  TypeOK'
  <2>1. calls[c] \in ActiveCalls
    BY <1>2, CallTypes DEF ExchangeAccepts, WireInv
  <2>2. PICK record \in AfterWrite(calls[c]) :
             exchange' = [exchange EXCEPT ![calls[c].order] = record]
    BY <1>2 DEF ExchangeAccepts
  <2>3. calls[c].kind \in Kinds /\ calls[c].order \in Orders /\ calls[c].cents \in Amounts
    BY <2>1 DEF ActiveCalls
  <2>4. exchange' \in [Orders -> [status : Statuses, cents : Nat, day : Nat]]
    BY <2>2, <2>3, AfterWriteTypes
  <2> QED BY <2>4, <1>2 DEF ExchangeAccepts, TypeOK, Kernel, Answers
<1>3. ASSUME NEW c \in Calls, ExchangeRefuses(c)
      PROVE  TypeOK'
  BY <1>3 DEF ExchangeRefuses, TypeOK, Kernel, Exchange, Answers
<1>4. ASSUME NEW w \in late, LateArrival(w)
      PROVE  TypeOK'
  <2>1. w.kind \in Kinds /\ w.order \in Orders /\ w.cents \in Amounts
    BY DEF TypeOK, Writes
  <2>2. exchange' \in [Orders -> [status : Statuses, cents : Nat, day : Nat]]
    <3>1. CASE UNCHANGED exchange
      BY <3>1 DEF TypeOK
    <3>2. ASSUME NEW record \in AfterWrite(w),
                 exchange' = [exchange EXCEPT ![w.order] = record]
          PROVE  exchange' \in [Orders -> [status : Statuses, cents : Nat, day : Nat]]
      BY <3>2, <2>1, AfterWriteTypes
    <3> QED BY <3>1, <3>2, <1>4 DEF LateArrival
  <2> QED BY <2>2, <1>4 DEF LateArrival, TypeOK, Kernel
<1>5. ASSUME NEW o \in Orders, OrderEnds(o)
      PROVE  TypeOK'
  <2>1. PICK status \in {"executed", "canceled"} :
             exchange' = [exchange EXCEPT ![o].status = status]
    BY <1>5 DEF OrderEnds
  <2>2. exchange' \in [Orders -> [status : Statuses, cents : Nat, day : Nat]]
    BY <2>1 DEF TypeOK, Statuses
  <2> QED BY <2>2, <1>5 DEF OrderEnds, TypeOK, Kernel, Network
<1>6. ASSUME Arm \/ Disarm
      PROVE  TypeOK'
  <2>1. RollDay(tracker, today) \in Trackers
    BY TrackerTypes DEF TypeOK
  <2> QED BY <2>1, <1>6 DEF Arm, Disarm, TypeOK, Network, Exchange
<1>7. ASSUME Midnight
      PROVE  TypeOK'
  BY <1>7 DEF Midnight, TypeOK, Kernel, Network
<1>8. ASSUME Restart
      PROVE  TypeOK'
  <2>1. PICK lost \in SUBSET {c \in Calls : wire[c] = "sent"} :
             late' = late \cup {Write(c) : c \in {d \in Calls : wire[d] = "sent"} \ lost}
    BY <1>8 DEF Restart
  <2>2. \A c \in Calls : wire[c] = "sent" => Write(c) \in Writes
    BY WriteTypes DEF WireInv
  <2>3. late' \subseteq Writes
    BY <2>1, <2>2 DEF TypeOK
  <2>4. NewRiskTracker \in Trackers
    BY DEF Trackers, NewRiskTracker
  <2> QED BY <2>3, <2>4, <1>8 DEF Restart, TypeOK, Exchange
<1>9. \A c \in Calls : ExchangeAccepts(c) \/ ExchangeRefuses(c) => TypeOK'
  BY <1>2, <1>3
<1>10. Arm \/ Disarm \/ Midnight \/ Restart => TypeOK'
  BY <1>6, <1>7, <1>8
<1> HIDE DEF TypeOK
<1> QED BY <1>1, <1>4, <1>5, <1>9, <1>10

(* Every step keeps requests on the wire to waiting calls.                 *)
LEMMA WireStep ==
    ASSUME TypeOK, TypeOK', WireInv, [Next]_vars
    PROVE  WireInv'
<1>1. ASSUME NEW c \in Calls, NEW k \in Kinds, NEW o \in Orders, NEW n \in Cents,
             Begin(c, k, o, n)
      PROVE  WireInv'
  BY <1>1 DEF Begin, At, WireInv, TypeOK
<1>2. ASSUME NEW c \in Calls, Step(c)
      PROVE  WireInv'
  <2>1. /\ \A d \in Calls \ {c} : calls'[d] = calls[d] /\ wire'[d] = wire[d]
        /\ wire'[c] # "none" => calls'[c].pc = "wait"
    <3>1. CASE Gate(c) \/ Interlock(c) \/ RiskCheck(c) \/ StateGate(c)
      BY <3>1 DEF Gate, Interlock, RiskCheck, StateGate, At, Goto, Finish, Network,
                  WireInv, TypeOK
    <3>2. CASE Submit(c)
      BY <3>2, CallMoves DEF Submit, At, WireInv, TypeOK
    <3>3. CASE Answered(c) \/ Unreachable(c)
      BY <3>3 DEF Answered, Unreachable, At, Goto, Finish, WireInv, TypeOK
    <3>4. CASE Recheck(c) \/ ConcludePlace(c) \/ ConcludeAmend(c) \/ ConcludeCancel(c) \/ Return(c)
      BY <3>4 DEF Recheck, ConcludePlace, ConcludeAmend, ConcludeCancel, Return, At, Finish, Network,
                  WireInv, TypeOK
    <3> QED BY <1>2, <3>1, <3>2, <3>3, <3>4 DEF Step
  <2> QED BY <2>1 DEF WireInv
<1>3. ASSUME NEW c \in Calls, ExchangeAccepts(c) \/ ExchangeRefuses(c)
      PROVE  WireInv'
  BY <1>3 DEF ExchangeAccepts, ExchangeRefuses, WireInv, TypeOK
<1>4. CASE \/ \E w \in late : LateArrival(w)
           \/ \E o \in Orders : OrderEnds(o)
           \/ Arm \/ Disarm \/ Midnight \/ UNCHANGED vars
  BY <1>4 DEF LateArrival, OrderEnds, Arm, Disarm, Midnight, Network, WireInv, vars
<1>5. CASE Restart
  BY <1>5 DEF Restart, WireInv
<1> QED BY <1>1, <1>2, <1>3, <1>4, <1>5 DEF Next

(* The program starts with every variable in its type (New, zero values).  *)
LEMMA InitTypes == Init => TypeOK /\ WireInv
<1> SUFFICES ASSUME Init PROVE TypeOK /\ WireInv
  OBVIOUS
<1>1. tracker \in Trackers
  BY DEF Init, NewRiskTracker, Trackers
<1>2. today \in 1..LastDay
  BY LiveAssumption DEF Init
<1>3. exchange \in [Orders -> [status : Statuses, cents : Nat, day : Nat]]
  BY DEF Init, NoOrder, Statuses
<1>4. WireInv
  BY DEF Init, WireInv
<1> QED BY <1>1, <1>2, <1>3, <1>4 DEF Init, TypeOK

(* Every step keeps the types.                                             *)
LEMMA NextTypes ==
    ASSUME TypeOK, WireInv, [Next]_vars
    PROVE  TypeOK'
<1>1. CASE UNCHANGED vars
  BY <1>1 DEF TypeOK, vars
<1>2. CASE Next
  BY <1>2, StepKeepsTypes, OthersKeepTypes DEF Next
<1> QED BY <1>1, <1>2

(* Type correctness of the live write path.                                *)
THEOREM TypeCorrect == Spec => [](TypeOK /\ WireInv)
<1>1. Init => TypeOK /\ WireInv
  BY InitTypes
<1>2. TypeOK /\ WireInv /\ [Next]_vars => (TypeOK /\ WireInv)'
  BY NextTypes, WireStep
<1> QED BY <1>1, <1>2, PTL DEF Spec

-----------------------------------------------------------------------------
(* How far the daily caps can be overrun.                                  *)

N == Cardinality(Calls)
Ceiling == MaxDailyCents + (N - 1) * MaxOrderCents

(* The account of a set P of calls that passed checkOrder and are not yet  *)
(* recorded, each owing owed[c]: an order slot for each, and one call of P *)
(* for which the money owed, counting the per-order cap for all the        *)
(* others, stays under the ceiling.                                        *)
Accounted(P, t, owed) ==
    /\ \A c \in P : owed[c] \in Nat /\ owed[c] <= MaxOrderCents /\ owed[c] <= MaxDailyCents
    /\ t.orders + Cardinality(P) <= MaxDailyOrders + N - 1
    /\ P = {} => t.notional <= Ceiling
    /\ P # {} => \E c \in P :
                   t.notional + owed[c] + (Cardinality(P) - 1) * MaxOrderCents <= Ceiling

(* Multiples of the per-order cap.                                         *)
LEMMA Multiples ==
    ASSUME NEW a \in Nat, NEW b \in Nat, a <= b
    PROVE  /\ a * MaxOrderCents \in Nat
           /\ a * MaxOrderCents <= b * MaxOrderCents
           /\ (a + 1) * MaxOrderCents = a * MaxOrderCents + MaxOrderCents
<1>1. MaxOrderCents \in Nat
  BY CapsAssumption
<1>2. PICK d \in Nat : b = a + d
  <2>1. b - a \in Nat /\ b = a + (b - a)
    OBVIOUS
  <2> QED BY <2>1
<1>3. b * MaxOrderCents = a * MaxOrderCents + d * MaxOrderCents
  BY <1>1, <1>2
<1>4. a * MaxOrderCents \in Nat /\ d * MaxOrderCents \in Nat
  BY <1>1
<1> QED BY <1>1, <1>3, <1>4

(* Facts about the set of pending calls and the ceiling, used throughout.  *)
LEMMA PendingCount ==
    ASSUME NEW P \in SUBSET Calls
    PROVE  /\ IsFiniteSet(P) /\ Cardinality(P) \in Nat /\ N \in Nat \ {0}
           /\ Cardinality(P) <= N
           /\ Cardinality(P) = 0 <=> P = {}
           /\ Ceiling \in Nat /\ MaxDailyCents <= Ceiling
           /\ \A c \in P : Cardinality(P \ {c}) = Cardinality(P) - 1
           /\ \A c \in Calls \ P : Cardinality(P \cup {c}) = Cardinality(P) + 1
<1>1. /\ IsFiniteSet(P) /\ Cardinality(P) \in Nat /\ N \in Nat
      /\ Cardinality(P) <= N
  BY LiveAssumption, FS_Subset, FS_CardinalityType DEF N
<1>2. N # 0 /\ (Cardinality(P) = 0 <=> P = {})
  BY <1>1, LiveAssumption, FS_EmptySet DEF N
<1>3. Ceiling \in Nat /\ MaxDailyCents <= Ceiling
  <2>1. N - 1 \in Nat
    BY <1>1, <1>2
  <2> QED BY <2>1, Multiples, CapsAssumption DEF Ceiling
<1> QED BY <1>1, <1>2, <1>3, FS_RemoveElement, FS_AddElement

(* A call leaves the account without being recorded: a failure, or an      *)
(* outcome that counts nothing.                                            *)
LEMMA DropKeepsAccount ==
    ASSUME NEW P \in SUBSET Calls, NEW t \in Trackers, NEW owed,
           Accounted(P, t, owed), NEW c \in P
    PROVE  Accounted(P \ {c}, t, owed)
<1> DEFINE Q == P \ {c}
           k == Cardinality(P)
<1>1. /\ Cardinality(Q) = k - 1 /\ k \in Nat \ {0} /\ N \in Nat \ {0}
      /\ Q = {} <=> k = 1
      /\ t.orders \in Nat /\ t.notional \in Nat /\ Ceiling \in Nat
      /\ MaxOrderCents \in Nat /\ MaxDailyOrders \in Nat
  BY PendingCount, CapsAssumption DEF Trackers
<1>2. PICK e \in P : t.notional + owed[e] + (k - 1) * MaxOrderCents <= Ceiling
  BY DEF Accounted
<1>3. \A d \in P : owed[d] \in Nat /\ owed[d] <= MaxOrderCents /\ owed[d] <= MaxDailyCents
  BY DEF Accounted
<1>4. t.orders + Cardinality(Q) <= MaxDailyOrders + N - 1
  BY <1>1 DEF Accounted
<1>5. ASSUME Q = {} PROVE t.notional <= Ceiling
  <2>1. (k - 1) * MaxOrderCents = 0
    BY <1>1, <1>5
  <2> QED BY <2>1, <1>1, <1>2, <1>3
<1>6. ASSUME Q # {}
      PROVE  \E d \in Q : t.notional + owed[d] + (k - 2) * MaxOrderCents <= Ceiling
  <2>1. PICK d \in Q : TRUE
    BY <1>6
  <2>2. /\ k - 2 \in Nat /\ (k - 2) * MaxOrderCents \in Nat
        /\ (k - 1) * MaxOrderCents = (k - 2) * MaxOrderCents + MaxOrderCents
    <3>1. k - 2 \in Nat
      BY <1>1, <1>6
    <3>2. (k - 2) + 1 = k - 1
      BY <1>1
    <3> HIDE DEF k
    <3> QED BY <3>1, <3>2, Multiples
  <2> QED BY <2>1, <2>2, <1>1, <1>2, <1>3
<1> HIDE DEF k
<1>7. Cardinality(Q) - 1 = k - 2
  BY <1>1
<1> QED BY <1>3, <1>4, <1>5, <1>6, <1>7 DEF Accounted

(* A day rolls over: the tracker starts from zero, what is owed stays owed *)
(* (RiskTracker.rollDay).                                                  *)
LEMMA RollKeepsAccount ==
    ASSUME NEW P \in SUBSET Calls, NEW t \in Trackers, NEW owed, NEW d \in Nat,
           Accounted(P, t, owed)
    PROVE  Accounted(P, RollDay(t, d), owed)
<1>1. CASE t.day = d
  BY <1>1 DEF RollDay
<1>2. CASE t.day # d
  <2> DEFINE k == Cardinality(P)
             w == RollDay(t, d)
  <2>1. w.orders = 0 /\ w.notional = 0
    BY <1>2 DEF RollDay
  <2>2. /\ k \in Nat /\ N \in Nat \ {0} /\ k <= N /\ (P = {} <=> k = 0)
        /\ Ceiling \in Nat /\ MaxOrderCents \in Nat /\ MaxDailyCents \in Nat
        /\ MaxDailyOrders \in Nat \ {0}
    BY PendingCount, CapsAssumption
  <2>3. \A c \in P : owed[c] \in Nat /\ owed[c] <= MaxOrderCents /\ owed[c] <= MaxDailyCents
    BY DEF Accounted
  <2>4. ASSUME P # {}
        PROVE  \E c \in P : 0 + owed[c] + (k - 1) * MaxOrderCents <= Ceiling
    <3>1. PICK c \in P : TRUE
      BY <2>4
    <3>2. k - 1 \in Nat /\ N - 1 \in Nat /\ k - 1 <= N - 1
      BY <2>2, <2>4
    <3> HIDE DEF k
    <3>3. /\ (k - 1) * MaxOrderCents \in Nat /\ (N - 1) * MaxOrderCents \in Nat
          /\ (k - 1) * MaxOrderCents <= (N - 1) * MaxOrderCents
      BY <3>2, Multiples
    <3> QED BY <3>1, <3>3, <2>2, <2>3 DEF Ceiling
  <2> HIDE DEF w
  <2>5. w.orders + k <= MaxDailyOrders + N - 1
    BY <2>1, <2>2
  <2> QED BY <2>1, <2>2, <2>3, <2>4, <2>5 DEF Accounted, w
<1> QED BY <1>1, <1>2

(* A call passes checkOrder and joins the account.                         *)
LEMMA AdmitKeepsAccount ==
    ASSUME NEW P \in SUBSET Calls, NEW t \in Trackers, NEW owed, NEW d \in Nat,
           Accounted(P, t, owed), NEW c \in Calls \ P, owed[c] \in Nat,
           WithinCaps(t, d, owed[c])
    PROVE  Accounted(P \cup {c}, RollDay(t, d), owed)
<1> DEFINE Q == P \cup {c}
           k == Cardinality(P)
           w == RollDay(t, d)
<1>1. /\ Cardinality(Q) = k + 1 /\ k \in Nat /\ N \in Nat \ {0} /\ k + 1 <= N
      /\ Ceiling \in Nat /\ MaxOrderCents \in Nat /\ MaxDailyCents \in Nat
      /\ MaxDailyOrders \in Nat
  <2>1. Cardinality(Q) = k + 1 /\ Q \in SUBSET Calls
    BY PendingCount
  <2>2. Cardinality(Q) <= N /\ k \in Nat /\ N \in Nat \ {0} /\ Ceiling \in Nat
    BY <2>1, PendingCount
  <2> QED BY <2>1, <2>2, CapsAssumption
<1>2. /\ w.orders \in Nat /\ w.notional \in Nat
      /\ owed[c] <= MaxOrderCents
      /\ w.orders + 1 <= MaxDailyOrders
      /\ w.notional + owed[c] <= MaxDailyCents
  <2>1. w \in Trackers
    BY TrackerTypes
  <2> QED BY <2>1 DEF WithinCaps, Trackers
<1> HIDE DEF w
<1>3. \A e \in Q : owed[e] \in Nat /\ owed[e] <= MaxOrderCents /\ owed[e] <= MaxDailyCents
  BY <1>1, <1>2 DEF Accounted
<1> HIDE DEF k
<1>4. w.orders + Cardinality(Q) <= MaxDailyOrders + N - 1
  BY <1>1, <1>2
<1>5. w.notional + owed[c] + (Cardinality(Q) - 1) * MaxOrderCents <= Ceiling
  <2>1. k \in Nat /\ N - 1 \in Nat /\ k <= N - 1 /\ Cardinality(Q) - 1 = k
    BY <1>1
  <2>2. /\ k * MaxOrderCents \in Nat /\ (N - 1) * MaxOrderCents \in Nat
        /\ k * MaxOrderCents <= (N - 1) * MaxOrderCents
    BY <2>1, Multiples
  <2> QED BY <2>1, <2>2, <1>1, <1>2 DEF Ceiling
<1> QED BY <1>3, <1>4, <1>5 DEF Accounted, w

(* A call is recorded and leaves the account (RiskTracker.record).         *)
LEMMA RecordKeepsAccount ==
    ASSUME NEW P \in SUBSET Calls, NEW t \in Trackers, NEW owed, NEW d \in Nat,
           Accounted(P, t, owed), NEW c \in P
    PROVE  Accounted(P \ {c}, Record(t, d, owed[c]), owed)
<1> DEFINE Q == P \ {c}
           k == Cardinality(P)
           w == RollDay(t, d)
           r == Record(t, d, owed[c])
<1>0. Accounted(P, w, owed) /\ w \in Trackers
  BY RollKeepsAccount, TrackerTypes
<1>1. /\ w.orders \in Nat /\ w.notional \in Nat
      /\ r.orders = w.orders + 1 /\ r.notional = w.notional + owed[c]
  BY <1>0 DEF Record, Trackers
<1> HIDE DEF w, r
<1>2. /\ Cardinality(Q) = k - 1 /\ k \in Nat \ {0} /\ N \in Nat \ {0}
      /\ Q = {} <=> k = 1
      /\ Ceiling \in Nat /\ MaxOrderCents \in Nat /\ MaxDailyOrders \in Nat
  <2>1. Cardinality(Q) = k - 1 /\ k \in Nat \ {0} /\ N \in Nat \ {0} /\ Ceiling \in Nat
    BY PendingCount
  <2>2. Cardinality(Q) = 0 <=> Q = {}
    BY PendingCount
  <2> QED BY <2>1, <2>2, CapsAssumption
<1>3. PICK e \in P : w.notional + owed[e] + (k - 1) * MaxOrderCents <= Ceiling
  BY <1>0 DEF Accounted
<1>4. \A f \in P : owed[f] \in Nat /\ owed[f] <= MaxOrderCents /\ owed[f] <= MaxDailyCents
  BY <1>0 DEF Accounted
<1>5. r.orders + Cardinality(Q) <= MaxDailyOrders + N - 1
  BY <1>0, <1>1, <1>2 DEF Accounted
<1>6. ASSUME Q = {} PROVE r.notional <= Ceiling
  <2>1. (k - 1) * MaxOrderCents = 0 /\ e = c
    BY <1>2, <1>6
  <2> QED BY <2>1, <1>1, <1>2, <1>3, <1>4
<1>7. ASSUME Q # {}
      PROVE  \E f \in Q : r.notional + owed[f] + (k - 2) * MaxOrderCents <= Ceiling
  <2>2. /\ k - 2 \in Nat /\ (k - 2) * MaxOrderCents \in Nat
        /\ (k - 1) * MaxOrderCents = (k - 2) * MaxOrderCents + MaxOrderCents
    <3>1. k - 2 \in Nat /\ (k - 2) + 1 = k - 1
      BY <1>2, <1>7
    <3> HIDE DEF k
    <3> QED BY <3>1, Multiples
  <2>3. CASE e = c
    <3>1. PICK f \in Q : TRUE
      BY <1>7
    <3> QED BY <3>1, <2>2, <2>3, <1>1, <1>2, <1>3, <1>4
  <2>4. CASE e # c
    BY <2>2, <2>4, <1>1, <1>2, <1>3, <1>4
  <2> QED BY <2>3, <2>4
<1> HIDE DEF k
<1>8. Cardinality(Q) - 1 = k - 2
  BY <1>2
<1> QED BY <1>4, <1>5, <1>6, <1>7, <1>8 DEF Accounted, r

(* The account only looks at what the calls in it owe.                     *)
LEMMA SameAccount ==
    ASSUME NEW P, NEW t, NEW owed, NEW owed2,
           \A c \in P : owed2[c] = owed[c],
           Accounted(P, t, owed)
    PROVE  Accounted(P, t, owed2)
BY DEF Accounted

(* The account of the running system.                                      *)
Owed == [c \in Calls |-> calls[c].cents]
Account == Accounted(Pending, tracker, Owed)

(* How a step of one call moves it in or out of the pending calls.         *)
LEMMA PendingMoves ==
    ASSUME NEW c \in Calls, SameRequest(c),
           \A d \in Calls \ {c} : calls'[d] = calls[d]
    PROVE  /\ calls'[c].pc \in Unaccountable => Pending' = Pending \ {c}
           /\ calls'[c].pc \notin Unaccountable /\ calls[c].kind # "cancel"
                => Pending' = Pending \cup {c}
           /\ calls'[c].pc \notin Unaccountable /\ calls[c].kind = "cancel"
                => Pending' = Pending \ {c}
           /\ \A d \in Calls : Owed'[d] = Owed[d]
BY DEF SameRequest, Pending, Owed

(* Staying, leaving and entering: the four ways a step of a call may touch *)
(* the account.                                                            *)
LEMMA AccountMoves ==
    ASSUME TypeOK, Account, NEW c \in Calls, calls[c].pc # "idle",
           \A d \in Calls : Owed'[d] = Owed[d]
    PROVE  /\ Pending' = Pending /\ tracker' = tracker => Account'
           /\ Pending' = Pending /\ tracker' = RollDay(tracker, today) => Account'
           /\ Pending' = Pending \ {c} /\ tracker' = tracker => Account'
           /\ Pending' = Pending \ {c} /\ c \in Pending
                /\ tracker' = Record(tracker, today, calls[c].cents) => Account'
           /\ Pending' = Pending \cup {c} /\ c \notin Pending
                /\ tracker' = RollDay(tracker, today)
                /\ WithinCaps(tracker, today, calls[c].cents) => Account'
<1> DEFINE P == Pending
           owed == Owed
<1>1. /\ P \in SUBSET Calls /\ tracker \in Trackers /\ today \in Nat
      /\ owed[c] = calls[c].cents
  BY LiveAssumption DEF TypeOK, Pending, Owed
<1>2. owed[c] \in Nat
  <2>1. calls[c] \in ActiveCalls
    BY CallTypes
  <2>2. calls[c].cents \in Amounts
    BY <2>1 DEF ActiveCalls
  <2> QED BY <2>2, <1>1, AmountsAreNat
<1>3. Accounted(P, tracker, owed)
  BY DEF Account
<1>4. ASSUME NEW Q \in SUBSET Calls, NEW t, Pending' = Q, tracker' = t, Accounted(Q, t, owed)
      PROVE  Account'
  <2>1. Accounted(Q, t, Owed')
    <3>1. \A d \in Q : Owed'[d] = owed[d]
      OBVIOUS
    <3> HIDE DEF owed
    <3> QED BY <3>1, <1>4, SameAccount
  <2> QED BY <2>1, <1>4 DEF Account
<1> HIDE DEF P, owed
<1>5. Accounted(P, RollDay(tracker, today), owed)
  BY <1>1, <1>3, RollKeepsAccount
<1>6. Accounted(P \ {c}, tracker, owed)
  <2>1. CASE c \in P
    BY <2>1, <1>1, <1>3, DropKeepsAccount
  <2>2. CASE c \notin P
    BY <2>2, <1>3, P \ {c} = P
  <2> QED BY <2>1, <2>2
<1>7. c \in P => Accounted(P \ {c}, Record(tracker, today, calls[c].cents), owed)
  BY <1>1, <1>3, RecordKeepsAccount
<1>8. c \notin P /\ WithinCaps(tracker, today, calls[c].cents)
        => Accounted(P \cup {c}, RollDay(tracker, today), owed)
  BY <1>1, <1>2, <1>3, AdmitKeepsAccount
<1>9. P \ {c} \in SUBSET Calls /\ P \cup {c} \in SUBSET Calls
  BY <1>1
<1> QED BY <1>1, <1>3, <1>4, <1>5, <1>6, <1>7, <1>8, <1>9 DEF P

(* A goroutine's own step keeps the account.                               *)
LEMMA StepKeepsAccount ==
    ASSUME TypeOK, Account, NEW c \in Calls, Step(c)
    PROVE  Account'
<1>1. calls[c].pc # "idle"
  BY DEF Step, At, Gate, Interlock, RiskCheck, StateGate, Submit, Answered,
         Unreachable, Recheck, ConcludePlace, ConcludeAmend, ConcludeCancel, Return
<1>2. /\ \A label : Goto(c, label) =>
              /\ calls'[c].pc = label /\ SameRequest(c)
              /\ \A d \in Calls \ {c} : calls'[d] = calls[d]
      /\ \A result : Finish(c, result) =>
              /\ calls'[c].pc = "done" /\ SameRequest(c)
              /\ \A d \in Calls \ {c} : calls'[d] = calls[d]
  BY <1>1, CallMoves
<1>3. ASSUME SameRequest(c), \A d \in Calls \ {c} : calls'[d] = calls[d]
      PROVE  /\ calls'[c].pc \in Unaccountable => Pending' = Pending \ {c}
             /\ calls'[c].pc \notin Unaccountable /\ calls[c].kind # "cancel"
                  => Pending' = Pending \cup {c}
             /\ calls'[c].pc \notin Unaccountable /\ calls[c].kind = "cancel"
                  => Pending' = Pending \ {c}
             /\ \A d \in Calls : Owed'[d] = Owed[d]
  BY <1>3, PendingMoves
<1>4. (c \notin Pending => Pending \ {c} = Pending) /\ (c \in Pending => Pending \cup {c} = Pending)
  OBVIOUS
<1>5. c \in Pending <=> calls[c].pc \notin Unaccountable /\ calls[c].kind # "cancel"
  BY DEF Pending
<1>6. ASSUME \A d \in Calls : Owed'[d] = Owed[d]
      PROVE  /\ Pending' = Pending /\ tracker' = tracker => Account'
             /\ Pending' = Pending /\ tracker' = RollDay(tracker, today) => Account'
             /\ Pending' = Pending \ {c} /\ tracker' = tracker => Account'
             /\ Pending' = Pending \ {c} /\ c \in Pending
                  /\ tracker' = Record(tracker, today, calls[c].cents) => Account'
             /\ Pending' = Pending \cup {c} /\ c \notin Pending
                  /\ tracker' = RollDay(tracker, today)
                  /\ WithinCaps(tracker, today, calls[c].cents) => Account'
  BY <1>1, <1>6, AccountMoves
<1> HIDE DEF Account
<1>a. CASE Gate(c) \/ Interlock(c)
  <2>1. Pending' = Pending /\ \A d \in Calls : Owed'[d] = Owed[d]
    BY <1>a, <1>2, <1>3, <1>4, <1>5 DEF Gate, Interlock, At, Unaccountable
  <2> QED BY <2>1, <1>6, <1>a DEF Gate, Interlock
<1>b. CASE RiskCheck(c)
  <2>1. c \notin Pending /\ tracker' = RollDay(tracker, today)
    BY <1>b, <1>5 DEF RiskCheck, At, Unaccountable
  <2>2. CASE \E result : Finish(c, result)
    BY <2>1, <2>2, <1>2, <1>3, <1>4, <1>6 DEF Unaccountable
  <2>3. CASE /\ \E label \in {"submit", "state"} : Goto(c, label)
             /\ calls[c].kind \in {"place", "amend"}
             /\ WithinCaps(tracker, today, calls[c].cents)
    <3>1. Pending' = Pending \cup {c} /\ \A d \in Calls : Owed'[d] = Owed[d]
      BY <2>3, <1>2, <1>3 DEF Unaccountable
    <3> QED BY <3>1, <2>1, <2>3, <1>6
  <2> QED BY <2>2, <2>3, <1>b DEF RiskCheck
<1>c. CASE StateGate(c)
  <2>1. tracker' = tracker /\ calls[c].pc = "state"
    BY <1>c DEF StateGate, GetOrder, At
  <2>2. CASE Goto(c, "submit")
    BY <2>1, <2>2, <1>2, <1>3, <1>4, <1>5, <1>6 DEF Unaccountable
  <2>3. CASE \E result : Finish(c, result)
    BY <2>1, <2>3, <1>2, <1>3, <1>6 DEF Unaccountable
  <2> QED BY <2>2, <2>3, <1>c DEF StateGate
<1>d. CASE Submit(c)
  <2>1. tracker' = tracker /\ calls[c].pc = "submit"
    BY <1>d DEF Submit, At
  <2>2. CASE Goto(c, "wait")
    BY <2>1, <2>2, <1>2, <1>3, <1>4, <1>5, <1>6 DEF Unaccountable
  <2>3. CASE \E result : Finish(c, result)
    BY <2>1, <2>3, <1>2, <1>3, <1>6 DEF Unaccountable
  <2> QED BY <2>2, <2>3, <1>d DEF Submit
<1>e. CASE Answered(c) \/ ConcludePlace(c) \/ ConcludeAmend(c) \/ ConcludeCancel(c)
  <2>1. PICK result : Finish(c, result)
    BY <1>e DEF Answered, ConcludePlace, ConcludeAmend, ConcludeCancel
  <2>2. Pending' = Pending \ {c} /\ \A d \in Calls : Owed'[d] = Owed[d]
    BY <2>1, <1>2, <1>3 DEF Unaccountable
  <2>3. CASE tracker' = tracker
    BY <2>2, <2>3, <1>6
  <2>4. CASE tracker' # tracker
    <3>1. tracker' = Record(tracker, today, calls[c].cents)
      BY <1>e, <2>4 DEF Answered, ConcludePlace, ConcludeAmend, ConcludeCancel
    <3>2. c \in Pending
      BY <1>e, <2>4, <1>5 DEF Answered, ConcludePlace, ConcludeAmend, ConcludeCancel, At, Unaccountable
    <3> QED BY <3>1, <3>2, <2>2, <1>6
  <2> QED BY <2>3, <2>4
<1>f. CASE Unreachable(c)
  <2>1. tracker' = tracker /\ calls[c].pc = "wait" /\ Goto(c, "recheck")
    BY <1>f DEF Unreachable, At
  <2> QED BY <2>1, <1>2, <1>3, <1>4, <1>5, <1>6 DEF Unaccountable
<1>g. CASE Recheck(c)
  <2>1. calls[c] \in ActiveCalls
    BY <1>1, CallTypes
  <2>2. PICK seen : calls' = [calls EXCEPT ![c].pc = "conclude", ![c].seen = seen]
    BY <1>g DEF Recheck
  <2>3. calls'[c] = [calls[c] EXCEPT !.pc = "conclude", !.seen = seen]
    BY <2>2 DEF TypeOK
  <2>4. calls'[c].pc = "conclude" /\ SameRequest(c)
    BY <2>1, <2>3 DEF ActiveCalls, SameRequest
  <2>5. \A d \in Calls \ {c} : calls'[d] = calls[d]
    BY <2>2 DEF TypeOK
  <2>6. tracker' = tracker /\ calls[c].pc = "recheck"
    BY <1>g DEF Recheck, At
  <2> QED BY <2>4, <2>5, <2>6, <1>3, <1>4, <1>5, <1>6 DEF Unaccountable
<1>h. CASE Return(c)
  <2>1. c \notin Pending /\ Pending' = Pending /\ tracker' = tracker
    BY <1>h DEF Return, At, Pending, Unaccountable, TypeOK, Idle
  <2>2. \A d \in Pending : Owed'[d] = Owed[d]
    BY <2>1, <1>h DEF Return, Owed, Pending, TypeOK
  <2> QED BY <2>1, <2>2, SameAccount DEF Account
<1> QED BY <1>a, <1>b, <1>c, <1>d, <1>e, <1>f, <1>g, <1>h DEF Step

(* Nobody has passed checkOrder and nothing is recorded: an empty account  *)
(* under a fresh tracker, at start-up and after every restart.             *)
LEMMA FreshAccount ==
    ASSUME NEW owed
    PROVE  Accounted({}, NewRiskTracker, owed)
<1>1. Cardinality({}) = 0 /\ N \in Nat \ {0} /\ Ceiling \in Nat
  BY PendingCount, FS_EmptySet
<1> QED BY <1>1, CapsAssumption DEF Accounted, NewRiskTracker

(* A new call, the exchange, the process and the clock keep the account.   *)
LEMMA OthersKeepAccount ==
    ASSUME TypeOK, Account
    PROVE  /\ \A c \in Calls, k \in Kinds, o \in Orders, n \in Cents :
                Begin(c, k, o, n) => Account'
           /\ \A c \in Calls : ExchangeAccepts(c) \/ ExchangeRefuses(c) => Account'
           /\ \A w \in late : LateArrival(w) => Account'
           /\ \A o \in Orders : OrderEnds(o) => Account'
           /\ Arm \/ Disarm \/ Midnight \/ Restart \/ UNCHANGED vars => Account'
<1>1. ASSUME NEW c \in Calls, NEW k \in Kinds, NEW o \in Orders, NEW n \in Cents,
             Begin(c, k, o, n)
      PROVE  Account'
  <2>1. /\ calls'[c].pc = (IF k = "cancel" THEN "state" ELSE "gate")
        /\ calls'[c].kind = k
        /\ \A d \in Calls \ {c} : calls'[d] = calls[d]
        /\ calls[c].pc = "idle" /\ tracker' = tracker
    BY <1>1 DEF Begin, TypeOK, At
  <2>2. c \notin Pending /\ Pending' = Pending
    BY <2>1 DEF Pending, Unaccountable
  <2>3. \A d \in Pending : Owed'[d] = Owed[d]
    BY <2>1, <2>2 DEF Owed, Pending
  <2> QED BY <2>1, <2>2, <2>3, SameAccount DEF Account
<1>2. ASSUME UNCHANGED <<calls, tracker>>
      PROVE  Account'
  BY <1>2 DEF Account, Pending, Owed
<1>3. ASSUME Arm \/ Disarm
      PROVE  Account'
  <2>1. calls' = calls /\ tracker' = RollDay(tracker, today)
    BY <1>3 DEF Arm, Disarm
  <2>2. Pending' = Pending /\ Owed' = Owed
    BY <2>1 DEF Pending, Owed
  <2>3. Pending \in SUBSET Calls /\ tracker \in Trackers /\ today \in Nat
    BY LiveAssumption DEF TypeOK, Pending
  <2>4. Accounted(Pending, RollDay(tracker, today), Owed)
    BY <2>3, RollKeepsAccount DEF Account
  <2> QED BY <2>1, <2>2, <2>4 DEF Account
<1>4. ASSUME Restart
      PROVE  Account'
  <2>1. Pending' = {} /\ tracker' = NewRiskTracker
    BY <1>4 DEF Restart, Pending, Idle, Unaccountable
  <2> QED BY <2>1, FreshAccount DEF Account
<1> HIDE DEF Account
<1>5. \A c \in Calls : ExchangeAccepts(c) \/ ExchangeRefuses(c) => Account'
  BY <1>2 DEF ExchangeAccepts, ExchangeRefuses
<1>6. \A w \in late : LateArrival(w) => Account'
  BY <1>2 DEF LateArrival
<1>7. \A o \in Orders : OrderEnds(o) => Account'
  BY <1>2 DEF OrderEnds
<1>8. Midnight \/ UNCHANGED vars => Account'
  BY <1>2 DEF Midnight, vars
<1> QED BY <1>1, <1>3, <1>4, <1>5, <1>6, <1>7, <1>8

(* The account of the calls in flight is kept by every behaviour.          *)
LEMMA AccountInvariant == Spec => []Account
<1>1. Init => Account
  <2>1. Init => Pending = {} /\ tracker = NewRiskTracker
    BY DEF Init, Pending, Idle, Unaccountable
  <2> QED BY <2>1, FreshAccount DEF Account
<1>2. TypeOK /\ Account /\ [Next]_vars => Account'
  BY StepKeepsAccount, OthersKeepAccount DEF Next
<1> QED BY <1>1, <1>2, TypeCorrect, PTL DEF Spec

(* The daily caps are overrun by less than one order for each goroutine    *)
(* that may be in flight: with one caller they hold exactly, and there is  *)
(* no interleaving of any number of place and amend calls, timeouts,       *)
(* midnights and restarts that gets further (checkOrder, record).          *)
THEOREM OverrunBounded == Spec => []OverrunIsBounded
<1>1. TypeOK /\ Account => OverrunIsBounded
  <2> SUFFICES ASSUME TypeOK, Account PROVE OverrunIsBounded
    OBVIOUS
  <2> DEFINE P == Pending
             k == Cardinality(P)
  <2>1. P \in SUBSET Calls /\ tracker.orders \in Nat /\ tracker.notional \in Nat
    BY DEF Pending, TypeOK, Trackers
  <2>2. Accounted(P, tracker, Owed)
    BY DEF Account
  <2> HIDE DEF P
  <2>3. k \in Nat /\ N \in Nat /\ Ceiling \in Nat /\ (k = 0 <=> P = {})
    BY <2>1, PendingCount
  <2>4. tracker.orders <= MaxDailyOrders + N - 1
    BY <2>1, <2>2, <2>3, CapsAssumption DEF Accounted
  <2>5. tracker.notional <= Ceiling
    <3>1. CASE P = {}
      BY <3>1, <2>2 DEF Accounted
    <3>2. CASE P # {}
      <4>1. PICK c \in P : tracker.notional + Owed[c] + (k - 1) * MaxOrderCents <= Ceiling
        BY <3>2, <2>2 DEF Accounted
      <4>2. Owed[c] \in Nat
        BY <2>2 DEF Accounted
      <4>3. k - 1 \in Nat
        BY <2>3, <3>2
      <4> HIDE DEF k
      <4>4. (k - 1) * MaxOrderCents \in Nat
        BY <4>3, Multiples
      <4> QED BY <4>1, <4>2, <4>4, <2>1, <2>3
    <3> QED BY <3>1, <3>2
  <2> QED BY <2>4, <2>5 DEF OverrunIsBounded, N, Ceiling
<1> QED BY <1>1, AccountInvariant, TypeCorrect, PTL

-----------------------------------------------------------------------------
(* Arming.                                                                 *)

(* Every place or amend beyond the handler's gate was let through by this  *)
(* process, and a process that is armed was armed here.                    *)
ArmInv ==
    /\ armed => armedHere
    /\ \A c \in Calls : calls[c].pc \in {"interlock", "risk", "state", "submit", "wait"}
                          => calls[c].kind = "cancel" \/ armedHere

(* A place or amend on its way out was let through by an arm step of this  *)
(* process: arming never survives a restart (ArmState, handler gate).      *)
THEOREM ArmedByThisProcess == Spec => []ArmingIsPerProcess
<1>1. Init => ArmInv
  BY DEF Init, ArmInv, Idle
<1>2. ASSUME TypeOK, ArmInv, [Next]_vars
      PROVE  ArmInv'
  <2>1. ASSUME NEW c \in Calls, NEW k \in Kinds, NEW o \in Orders, NEW n \in Cents,
               Begin(c, k, o, n)
        PROVE  ArmInv'
    <3>1. /\ calls'[c].pc = (IF k = "cancel" THEN "state" ELSE "gate")
          /\ calls'[c].kind = k
          /\ \A d \in Calls \ {c} : calls'[d] = calls[d]
      BY <1>2, <2>1 DEF Begin, TypeOK
    <3> QED BY <3>1, <1>2, <2>1 DEF Begin, ArmInv, Kernel
  <2>2. ASSUME NEW c \in Calls, Step(c)
        PROVE  ArmInv'
    <3>1. armed' = armed /\ armedHere' = armedHere
      BY <2>2 DEF Step, Gate, Interlock, RiskCheck, StateGate, Submit, Answered,
             Unreachable, Recheck, ConcludePlace, ConcludeAmend, ConcludeCancel, Return, Kernel
    <3>2. calls[c].pc # "idle"
      BY <2>2 DEF Step, At, Gate, Interlock, RiskCheck, StateGate, Submit, Answered,
             Unreachable, Recheck, ConcludePlace, ConcludeAmend, ConcludeCancel, Return
    <3>3. /\ \A label : Goto(c, label) =>
                /\ calls'[c].pc = label /\ SameRequest(c)
                /\ \A d \in Calls \ {c} : calls'[d] = calls[d]
          /\ \A result : Finish(c, result) =>
                /\ calls'[c].pc = "done" /\ SameRequest(c)
                /\ \A d \in Calls \ {c} : calls'[d] = calls[d]
      BY <1>2, <3>2, CallMoves
    <3>4. CASE \E result : Finish(c, result)
      BY <3>1, <3>3, <3>4, <1>2 DEF ArmInv, SameRequest
    <3>5. ASSUME NEW label, Goto(c, label),
                 label = "recheck" \/ calls[c].kind = "cancel" \/ armedHere
          PROVE  ArmInv'
      BY <3>1, <3>3, <3>5, <1>2 DEF ArmInv, SameRequest
    <3>6. CASE Recheck(c) \/ Return(c)
      <4>1. /\ calls'[c].pc \in {"conclude", "idle"}
            /\ \A d \in Calls \ {c} : calls'[d] = calls[d]
        <5>1. CASE Return(c)
          BY <5>1, <1>2 DEF Return, TypeOK, Idle
        <5>2. CASE Recheck(c)
          <6>1. PICK seen : calls' = [calls EXCEPT ![c].pc = "conclude", ![c].seen = seen]
            BY <5>2 DEF Recheck
          <6>2. calls'[c] = [calls[c] EXCEPT !.pc = "conclude", !.seen = seen]
            BY <6>1, <1>2 DEF TypeOK
          <6>3. calls[c] \in ActiveCalls
            BY <1>2, <3>2, CallTypes
          <6>4. calls'[c].pc = "conclude"
            BY <6>2, <6>3 DEF ActiveCalls
          <6> QED BY <6>1, <6>4, <1>2 DEF TypeOK
        <5> QED BY <3>6, <5>1, <5>2
      <4> QED BY <4>1, <3>1, <1>2 DEF ArmInv
    <3>7. calls[c].pc \in {"interlock", "risk", "state", "submit", "wait"}
            => calls[c].kind = "cancel" \/ armedHere
      BY <1>2 DEF ArmInv
    <3>8. armed => armedHere
      BY <1>2 DEF ArmInv
    <3> HIDE DEF ArmInv
    <3>9. CASE Gate(c) \/ Interlock(c)
      BY <3>4, <3>5, <3>8, <3>9 DEF Gate, Interlock, Armed
    <3>10. CASE RiskCheck(c)
      BY <3>4, <3>5, <3>7, <3>10 DEF RiskCheck, At
    <3>11. CASE StateGate(c) \/ Submit(c)
      BY <3>4, <3>5, <3>7, <3>11 DEF StateGate, Submit, At
    <3>12. CASE Unreachable(c)
      BY <3>5, <3>12 DEF Unreachable
    <3>13. CASE Answered(c) \/ ConcludePlace(c) \/ ConcludeAmend(c) \/ ConcludeCancel(c)
      BY <3>4, <3>13 DEF Answered, ConcludePlace, ConcludeAmend, ConcludeCancel
    <3> QED BY <2>2, <3>6, <3>9, <3>10, <3>11, <3>12, <3>13 DEF Step
  <2>3. ASSUME UNCHANGED <<Kernel, calls>>
        PROVE  ArmInv'
    BY <2>3, <1>2 DEF ArmInv, Kernel
  <2>4. CASE Arm \/ Disarm \/ Restart
    BY <2>4, <1>2 DEF Arm, Disarm, Restart, ArmInv, Idle
  <2> HIDE DEF ArmInv
  <2>5. ASSUME NEW c \in Calls, ExchangeAccepts(c) \/ ExchangeRefuses(c)
        PROVE  ArmInv'
    BY <2>3, <2>5 DEF ExchangeAccepts, ExchangeRefuses, Kernel
  <2>6. CASE (\E w \in late : LateArrival(w)) \/ (\E o \in Orders : OrderEnds(o))
             \/ Midnight \/ UNCHANGED vars
    BY <2>3, <2>6 DEF LateArrival, OrderEnds, Midnight, vars, Kernel
  <2> QED BY <1>2, <2>1, <2>2, <2>4, <2>5, <2>6 DEF Next
<1>3. ArmInv => ArmingIsPerProcess
  BY DEF ArmInv, ArmingIsPerProcess, At
<1> QED BY <1>1, <1>2, <1>3, TypeCorrect, PTL DEF Spec

-----------------------------------------------------------------------------
(* The per-order cap.                                                      *)

WithinOrderCap(w) == w.kind = "cancel" \/ w.cents <= MaxOrderCents

(* What is at the exchange, and what may still arrive there.               *)
OrderCapInv == OrderCapHolds /\ \A w \in late : WithinOrderCap(w)

(* A write within the cap leaves an order within the cap.                  *)
LEMMA AfterWriteKeepsCap ==
    ASSUME TypeOK, OrderCapHolds, NEW w, w.kind \in Kinds, w.order \in Orders,
           WithinOrderCap(w), NEW record \in AfterWrite(w),
           exchange' = [exchange EXCEPT ![w.order] = record]
    PROVE  OrderCapHolds'
<1>1. record.cents <= MaxOrderCents
  <2>1. CASE w.kind = "cancel"
    <3>1. record = [exchange[w.order] EXCEPT !.status = "canceled"]
      BY <2>1 DEF AfterWrite
    <3> QED BY <3>1 DEF TypeOK, OrderCapHolds
  <2>2. CASE w.kind = "place"
    BY <2>2 DEF AfterWrite, WithinOrderCap
  <2>3. CASE w.kind = "amend"
    BY <2>3 DEF AfterWrite, WithinOrderCap
  <2> QED BY <2>1, <2>2, <2>3, LiveAssumption
<1> QED BY <1>1 DEF OrderCapHolds, TypeOK

(* A request on the wire, or handed over by a waiting call, is one that    *)
(* checkOrder let through.                                                 *)
LEMMA WaitingWithinCap ==
    ASSUME TypeOK, Account, NEW c \in Calls, calls[c].pc = "wait"
    PROVE  WithinOrderCap(calls[c]) /\ WithinOrderCap(Write(c))
<1>1. calls[c].kind # "cancel" => c \in Pending
  BY DEF Pending, Unaccountable
<1>2. calls[c].kind # "cancel" => calls[c].cents <= MaxOrderCents
  BY <1>1 DEF Account, Accounted, Owed
<1> QED BY <1>2 DEF WithinOrderCap, Write

(* No order at the exchange is above the per-order cap, whatever arrives   *)
(* late and whichever process sent it (checkOrder).                        *)
THEOREM OrderCapKept == Spec => []OrderCapHolds
<1>1. Init => OrderCapInv
  BY CapsAssumption DEF Init, OrderCapInv, OrderCapHolds, NoOrder
<1>2. ASSUME TypeOK, WireInv, Account, OrderCapInv, [Next]_vars
      PROVE  OrderCapInv'
  <2>0. OrderCapHolds /\ \A w \in late : WithinOrderCap(w)
    BY <1>2 DEF OrderCapInv
  <2>1. ASSUME UNCHANGED <<exchange, late>>
        PROVE  OrderCapInv'
    BY <2>0, <2>1 DEF OrderCapInv, OrderCapHolds, WithinOrderCap
  <2>2. ASSUME NEW c \in Calls, Unreachable(c)
        PROVE  OrderCapInv'
    <3>1. exchange' = exchange /\ late' \subseteq late \cup {Write(c)}
      BY <2>2 DEF Unreachable, Exchange
    <3>2. WithinOrderCap(Write(c))
      BY <1>2, <2>2, WaitingWithinCap DEF Unreachable, At
    <3> QED BY <2>0, <3>1, <3>2 DEF OrderCapInv, OrderCapHolds, WithinOrderCap
  <2>3. ASSUME NEW c \in Calls, ExchangeAccepts(c)
        PROVE  OrderCapInv'
    <3>1. calls[c].pc = "wait" /\ late' = late
      BY <1>2, <2>3 DEF ExchangeAccepts, WireInv
    <3>2. calls[c] \in ActiveCalls
      BY <1>2, <3>1, CallTypes
    <3>3. calls[c].kind \in Kinds /\ calls[c].order \in Orders
      BY <3>2 DEF ActiveCalls
    <3>4. WithinOrderCap(calls[c])
      BY <1>2, <3>1, WaitingWithinCap
    <3>5. OrderCapHolds'
      BY <1>2, <2>0, <2>3, <3>3, <3>4, AfterWriteKeepsCap DEF ExchangeAccepts
    <3> QED BY <2>0, <3>1, <3>5 DEF OrderCapInv, WithinOrderCap
  <2>4. ASSUME NEW w \in late, LateArrival(w)
        PROVE  OrderCapInv'
    <3>1. w.kind \in Kinds /\ w.order \in Orders /\ late' \subseteq late
      BY <1>2, <2>4 DEF TypeOK, Writes, LateArrival
    <3>2. OrderCapHolds'
      <4>1. CASE UNCHANGED exchange
        BY <2>0, <4>1 DEF OrderCapHolds
      <4>2. CASE \E record \in AfterWrite(w) :
                   exchange' = [exchange EXCEPT ![w.order] = record]
        BY <1>2, <2>0, <3>1, <4>2, AfterWriteKeepsCap
      <4> QED BY <2>4, <4>1, <4>2 DEF LateArrival
    <3> QED BY <2>0, <3>1, <3>2 DEF OrderCapInv, WithinOrderCap
  <2>5. ASSUME NEW o \in Orders, OrderEnds(o)
        PROVE  OrderCapInv'
    BY <1>2, <2>0, <2>5 DEF OrderEnds, OrderCapInv, OrderCapHolds, WithinOrderCap,
                            TypeOK, Network
  <2>6. CASE Restart
    <3>1. exchange' = exchange
      BY <2>6 DEF Restart, Exchange
    <3>2. \A w \in late' : w \in late \/ \E c \in Calls : wire[c] = "sent" /\ w = Write(c)
      BY <2>6 DEF Restart
    <3>3. \A c \in Calls : wire[c] = "sent" => WithinOrderCap(Write(c))
      BY <1>2, WaitingWithinCap DEF WireInv
    <3> QED BY <2>0, <3>1, <3>2, <3>3 DEF OrderCapInv, OrderCapHolds, WithinOrderCap
  <2> HIDE DEF OrderCapInv
  <2>7. ASSUME NEW c \in Calls, Step(c), ~Unreachable(c)
        PROVE  OrderCapInv'
    BY <2>1, <2>7 DEF Step, Gate, Interlock, RiskCheck, StateGate, Submit, Answered,
         Recheck, ConcludePlace, ConcludeAmend, ConcludeCancel, Return, Network, Exchange
  <2>8. ASSUME NEW c \in Calls, \/ ExchangeRefuses(c)
                                \/ \E k \in Kinds, o \in Orders, n \in Cents : Begin(c, k, o, n)
        PROVE  OrderCapInv'
    BY <2>1, <2>8 DEF ExchangeRefuses, Begin, Exchange
  <2>9. CASE Arm \/ Disarm \/ Midnight \/ UNCHANGED vars
    BY <2>1, <2>9 DEF Arm, Disarm, Midnight, Network, Exchange, vars
  <2> QED BY <1>2, <2>2, <2>3, <2>4, <2>5, <2>6, <2>7, <2>8, <2>9 DEF Next
<1>3. OrderCapInv => OrderCapHolds
  BY DEF OrderCapInv
<1> QED BY <1>1, <1>2, <1>3, TypeCorrect, AccountInvariant, PTL DEF Spec
=============================================================================
