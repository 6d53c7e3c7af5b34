---------------------------- MODULE LiveTrading ----------------------------
(***************************************************************************)
(* The live write path: arm_live_trading, place_order, amend_order and     *)
(* cancel_order of one kernel process, from the handler gate               *)
(* (handler_live.go, handler_paper.go) through the signed client           *)
(* (live/trading.go, live/client.go) to the exchange.                      *)
(*                                                                         *)
(* The MCP SDK runs every tool call on a goroutine of its own, and all of  *)
(* them share one Handler: one ArmState, one RiskTracker, one http.Client. *)
(* A call is a member of Calls; a step of a call is what it does between   *)
(* two points where another goroutine may run: one critical section, or    *)
(* one HTTP round trip, or the local code after it.                        *)
(*                                                                         *)
(* The exchange is external: it is modelled from the answers the client    *)
(* distinguishes.  An order has one name, its client_order_id.             *)
(***************************************************************************)
EXTENDS RiskTracker

CONSTANTS Calls,    \* goroutines serving a tool call at the same time
          Orders,   \* client_order_ids
          Cents,    \* notionals an agent asks for
          Kinds,    \* the write tools in use
          Faults,   \* "late", "misleading", "crowded", "restart": see below
          LastDay   \* bound on the UTC clock

ASSUME LiveAssumption ==
    /\ IsFiniteSet(Calls) /\ Calls # {}
    /\ Cents \subseteq Nat
    /\ Kinds \subseteq {"place", "amend", "cancel"}
    /\ Faults \subseteq {"late", "misleading", "crowded", "restart"}
    /\ LastDay \in Nat \ {0}

VARIABLES armed,         \* ArmState.armed
          tracker,       \* Handler.tracker
          today,         \* the UTC day on the clock
          calls,         \* the goroutines
          wire,          \* the write request of each call, or the answer to it
          late,          \* writes whose caller gave up before they arrived
          exchange,      \* the orders at the exchange
          landed,        \* history: the write of this call took effect
          armedHere      \* history: this process was armed at some time

vars == <<armed, tracker, today, calls, wire, late, exchange, landed, armedHere>>

Statuses == {"none", "resting", "executed", "canceled"}

Pcs == {"idle", "gate", "interlock", "risk", "state", "submit", "wait",
        "recheck", "conclude", "done"}

(* "upstream_error" stands for every refusal or unreadable answer of the    *)
(* exchange, "invalid_input" for every local one before a request is made. *)
CleanFailures == {"invalid_input", "live_trading_not_armed", "risk_limit_exceeded",
                  "order_not_resting", "upstream_error", "duplicate_client_order_id"}

Outcomes == CleanFailures \cup {"none", "ok", "outcome_indeterminate"}

(* "misleading": the write took effect, and do reports an error all the    *)
(* same: the answer breaks off in its body, cannot be read, or has an      *)
(* error status, such as a gateway's 504.                                  *)
Answers == {"ok", "conflict", "refused", "misleading"}

(* A cancel carries no amount.                                             *)
Amounts == Cents \cup {0}

Writes == [kind : Kinds, order : Orders, cents : Amounts]

Idle == [pc |-> "idle"]

ActiveCalls == [pc : Pcs \ {"idle"}, kind : Kinds, order : Orders, cents : Amounts,
                seen : Statuses \cup {"unseen", "failed"}, outcome : Outcomes]

TypeOK ==
    /\ armed \in BOOLEAN
    /\ tracker \in Trackers
    /\ today \in 1..LastDay
    /\ calls \in [Calls -> {Idle} \cup ActiveCalls]
    /\ wire \in [Calls -> {"none", "sent"} \cup Answers]
    /\ late \subseteq Writes
    /\ exchange \in [Orders -> [status : Statuses, cents : Nat, day : Nat]]
    /\ landed \in [Calls -> BOOLEAN]
    /\ armedHere \in BOOLEAN

NoOrder == [status |-> "none", cents |-> 0, day |-> 0]

Init ==
    /\ armed = FALSE
    /\ tracker = NewRiskTracker
    /\ today = 1
    /\ calls = [c \in Calls |-> Idle]
    /\ wire = [c \in Calls |-> "none"]
    /\ late = {}
    /\ exchange = [o \in Orders |-> NoOrder]
    /\ landed = [c \in Calls |-> FALSE]
    /\ armedHere = FALSE

-----------------------------------------------------------------------------
(* Steps of one tool call.                                                 *)

At(c, label) == calls[c].pc = label
Goto(c, label) == calls' = [calls EXCEPT ![c].pc = label]
Finish(c, result) == calls' = [calls EXCEPT ![c].pc = "done", ![c].outcome = result]

(* The request do sends: what the exchange, not the kernel, knows of a call *)
Write(c) == [kind |-> calls[c].kind, order |-> calls[c].order, cents |-> calls[c].cents]

Kernel == <<armed, armedHere>>
Network == <<wire, late, landed>>
Exchange == <<exchange, today>>

(* A tool call arrives.  Placing and amending start at the handler's arm   *)
(* gate; cancelling is not subject to arming and starts at its state gate. *)
Begin(c, k, o, n) ==
    /\ At(c, "idle")
    /\ calls' = [calls EXCEPT ![c] =
                   [pc |-> IF k = "cancel" THEN "state" ELSE "gate",
                    kind |-> k, order |-> o, cents |-> IF k = "cancel" THEN 0 ELSE n,
                    seen |-> "unseen", outcome |-> "none"]]
    /\ landed' = [landed EXCEPT ![c] = FALSE]
    /\ UNCHANGED <<Kernel, tracker, wire, late, Exchange>>

(* Mutant: an arm step that is never revoked.                              *)
Armed_Ever == armedHere

(* ArmState.Armed, under its mutex.                                        *)
Armed == armed

(* The handler: unsupported input, the arm gate, then loading credentials, *)
(* which may fail as invalid too.                                          *)
Gate(c) ==
    /\ At(c, "gate")
    /\ \/ Finish(c, "invalid_input")
       \/ ~Armed /\ Finish(c, "live_trading_not_armed")
       \/ Armed /\ Goto(c, "interlock")
    /\ UNCHANGED <<Kernel, tracker, Network, Exchange>>

(* The client reads the arm state again, then checks fields, price, count. *)
Interlock(c) ==
    /\ At(c, "interlock")
    /\ \/ ~Armed /\ Finish(c, "live_trading_not_armed")
       \/ Armed /\ Finish(c, "invalid_input")
       \/ Armed /\ Goto(c, "risk")
    /\ UNCHANGED <<Kernel, tracker, Network, Exchange>>

(* checkOrder under the tracker's mutex.  It rolls the day and reserves    *)
(* nothing.  Placing then checks time_in_force; amending goes on to its    *)
(* state gate.                                                             *)
RiskCheck(c) ==
    /\ At(c, "risk")
    /\ tracker' = RollDay(tracker, today)
    /\ \/ /\ ~WithinCaps(tracker, today, calls[c].cents)
          /\ Finish(c, "risk_limit_exceeded")
       \/ /\ WithinCaps(tracker, today, calls[c].cents)
          /\ \/ calls[c].kind = "place" /\ Finish(c, "invalid_input")
             \/ calls[c].kind = "place" /\ Goto(c, "submit")
             \/ calls[c].kind = "amend" /\ Goto(c, "state")
    /\ UNCHANGED <<Kernel, Network, Exchange>>

(* What a query for an order may bring back: its status now, or nothing.   *)
GetOrder(o) == {"failed", exchange[o].status}

(* The query by client_order_id looks through one page of orders.  In a    *)
(* crowded account ("crowded" in Faults), where the exchange does not do   *)
(* the filtering, an order may be on another page.                         *)
FindOrderByClientID(o) ==
    GetOrder(o) \cup (IF "crowded" \in Faults THEN {"none"} ELSE {})

(* Only a resting order may be amended or cancelled.  An order unknown to  *)
(* the exchange is a failed query.                                         *)
StateGate(c) ==
    /\ At(c, "state")
    /\ \E status \in GetOrder(calls[c].order) :
         \/ status \in {"failed", "none"} /\ Finish(c, "upstream_error")
         \/ status = "resting" /\ Goto(c, "submit")
         \/ status \in {"executed", "canceled"} /\ Finish(c, "order_not_resting")
    /\ UNCHANGED <<Kernel, tracker, Network, Exchange>>

(* do: sign and hand the request to the transport.  Signing may fail.      *)
Submit(c) ==
    /\ At(c, "submit")
    /\ \/ Finish(c, "invalid_input") /\ wire' = wire
       \/ Goto(c, "wait") /\ wire' = [wire EXCEPT ![c] = "sent"]
    /\ UNCHANGED <<Kernel, tracker, late, landed, Exchange>>

(* The answer to the write arrives.  An accepted place or amend is         *)
(* committed to the tracker only now; a misleading answer is reported as a *)
(* plain failure, as any refusal is, and commits nothing.                  *)
Answered(c) ==
    /\ At(c, "wait")
    /\ wire[c] \in Answers
    /\ wire' = [wire EXCEPT ![c] = "none"]
    /\ \/ /\ wire[c] = "ok"
          /\ tracker' = IF calls[c].kind = "cancel" THEN tracker
                        ELSE Record(tracker, today, calls[c].cents)
          /\ Finish(c, "ok")
       \/ /\ wire[c] = "conflict"
          /\ Finish(c, "duplicate_client_order_id")
          /\ UNCHANGED tracker
       \/ /\ wire[c] \in {"refused", "misleading"}
          /\ Finish(c, "upstream_error")
          /\ UNCHANGED tracker
    /\ UNCHANGED <<Kernel, late, landed, Exchange>>

(* Mutant: a timeout is reported as a plain failure.                       *)
Unreachable_IsFailure(c) ==
    /\ At(c, "wait")
    /\ Finish(c, "upstream_error")
    /\ wire' = [wire EXCEPT ![c] = "none"]
    /\ UNCHANGED <<Kernel, tracker, late, landed, Exchange>>

(* Mutant: a client without a timeout.                                     *)
Unreachable_NoTimeout(c) ==
    /\ At(c, "wait") /\ wire[c] # "sent"
    /\ Goto(c, "recheck")
    /\ wire' = [wire EXCEPT ![c] = "none"]
    /\ UNCHANGED <<Kernel, tracker, late, landed, Exchange>>

(* http.Client.Do fails: the caller's context ends, the 10 s timeout       *)
(* expires or the connection breaks.  A request still under way may yet    *)
(* arrive ("late" in Faults) or be lost; an answer is dropped.             *)
Unreachable(c) ==
    /\ At(c, "wait")
    /\ Goto(c, "recheck")
    /\ wire' = [wire EXCEPT ![c] = "none"]
    /\ \/ UNCHANGED late
       \/ /\ wire[c] = "sent" /\ "late" \in Faults
          /\ late' = late \cup {Write(c)}
    /\ UNCHANGED <<Kernel, tracker, landed, Exchange>>

(* Reconciliation asks the exchange on a fresh context: by client_order_id *)
(* after a place, by order id after an amend or a cancel.                  *)
Recheck(c) ==
    /\ At(c, "recheck")
    /\ \E seen \in IF calls[c].kind = "place" THEN FindOrderByClientID(calls[c].order)
                                               ELSE GetOrder(calls[c].order) :
         calls' = [calls EXCEPT ![c].pc = "conclude", ![c].seen = seen]
    /\ UNCHANGED <<Kernel, tracker, Network, Exchange>>

(* Mutant: an absent order is submitted again.                             *)
ConcludePlace_Retries(c) ==
    /\ At(c, "conclude") /\ calls[c].kind = "place"
    /\ IF calls[c].seen \in {"failed", "none"} THEN Goto(c, "submit") ELSE Finish(c, "ok")
    /\ UNCHANGED <<Kernel, tracker, Network, Exchange>>

(* Mutant: the error of the query is returned as that of the place.        *)
ConcludePlace_QueryError(c) ==
    /\ At(c, "conclude") /\ calls[c].kind = "place"
    /\ Finish(c, IF calls[c].seen = "failed" THEN "upstream_error"
                 ELSE IF calls[c].seen = "none" THEN "outcome_indeterminate" ELSE "ok")
    /\ UNCHANGED <<Kernel, tracker, Network, Exchange>>

(* Mutant: only an order that was found is recorded.                       *)
ConcludePlace_Optimistic(c) ==
    /\ At(c, "conclude") /\ calls[c].kind = "place"
    /\ tracker' = IF calls[c].seen \in {"failed", "none"} THEN tracker
                  ELSE Record(tracker, today, calls[c].cents)
    /\ Finish(c, IF calls[c].seen \in {"failed", "none"} THEN "outcome_indeterminate"
                 ELSE "ok")
    /\ UNCHANGED <<Kernel, Network, Exchange>>

(* After a place: a found order is a success, a failed query is assumed to *)
(* have landed, an absent order is reported safe to resubmit.              *)
ConcludePlace(c) ==
    /\ At(c, "conclude") /\ calls[c].kind = "place"
    /\ tracker' = IF calls[c].seen = "none" THEN tracker
                  ELSE Record(tracker, today, calls[c].cents)
    /\ Finish(c, IF calls[c].seen \in {"failed", "none"} THEN "outcome_indeterminate"
                 ELSE "ok")
    /\ UNCHANGED <<Kernel, Network, Exchange>>

(* After an amend the outcome stays indeterminate whatever the query says, *)
(* and nothing is recorded.                                                *)
ConcludeAmend(c) ==
    /\ At(c, "conclude") /\ calls[c].kind = "amend"
    /\ Finish(c, "outcome_indeterminate")
    /\ UNCHANGED <<Kernel, tracker, Network, Exchange>>

(* Mutant: an order that is no longer resting counts as cancelled.         *)
ConcludeCancel_NotResting(c) ==
    /\ At(c, "conclude") /\ calls[c].kind = "cancel"
    /\ Finish(c, IF calls[c].seen # "resting" THEN "ok" ELSE "outcome_indeterminate")
    /\ UNCHANGED <<Kernel, tracker, Network, Exchange>>

(* After a cancel only an order seen canceled is a success.                *)
ConcludeCancel(c) ==
    /\ At(c, "conclude") /\ calls[c].kind = "cancel"
    /\ Finish(c, IF calls[c].seen = "canceled" THEN "ok" ELSE "outcome_indeterminate")
    /\ UNCHANGED <<Kernel, tracker, Network, Exchange>>

(* Mutant: the call keeps its request when it ends.                        *)
Return_KeepsRequest(c) ==
    /\ At(c, "done")
    /\ Goto(c, "idle")
    /\ UNCHANGED <<Kernel, tracker, Network, Exchange>>

(* The tool result is delivered and the goroutine ends.                    *)
Return(c) ==
    /\ At(c, "done")
    /\ calls' = [calls EXCEPT ![c] = Idle]
    /\ UNCHANGED <<Kernel, tracker, Network, Exchange>>

-----------------------------------------------------------------------------
(* The exchange.                                                           *)

(* A write takes effect on a fresh order (place) or a resting one.         *)
Applicable(w) ==
    exchange[w.order].status = IF w.kind = "place" THEN "none" ELSE "resting"

AfterWrite(w) ==
    CASE w.kind = "place" ->
           [status : {"resting", "executed", "canceled"}, cents : {w.cents}, day : {today}]
      [] w.kind = "amend" ->
           [status : {"resting", "executed"}, cents : {w.cents},
            day : {exchange[w.order].day}]
      [] w.kind = "cancel" -> {[exchange[w.order] EXCEPT !.status = "canceled"]}

(* A request that arrives in time takes effect or is refused; the answer   *)
(* to one that took effect may mislead ("misleading" in Faults).           *)
ExchangeAccepts(c) ==
    /\ wire[c] = "sent"
    /\ Applicable(calls[c])
    /\ \E record \in AfterWrite(calls[c]) :
         exchange' = [exchange EXCEPT ![calls[c].order] = record]
    /\ \E answer \in {"ok"} \cup (Faults \cap {"misleading"}) :
         wire' = [wire EXCEPT ![c] = answer]
    /\ landed' = [landed EXCEPT ![c] = TRUE]
    /\ UNCHANGED <<Kernel, tracker, today, calls, late>>

ExchangeRefuses(c) ==
    /\ wire[c] = "sent"
    /\ \/ wire' = [wire EXCEPT ![c] = "refused"]
       \/ /\ calls[c].kind = "place" /\ ~Applicable(calls[c])
          /\ wire' = [wire EXCEPT ![c] = "conflict"]
    /\ UNCHANGED <<Kernel, tracker, calls, late, landed, Exchange>>

(* An abandoned write arrives after all, or never does.                    *)
LateArrival(w) ==
    /\ late' = late \ {w}
    /\ \/ UNCHANGED exchange
       \/ /\ Applicable(w)
          /\ \E record \in AfterWrite(w) :
               exchange' = [exchange EXCEPT ![w.order] = record]
    /\ UNCHANGED <<Kernel, tracker, today, calls, wire, landed>>

(* A resting order is filled, expires or is canceled at the exchange.      *)
OrderEnds(o) ==
    /\ exchange[o].status = "resting"
    /\ \E status \in {"executed", "canceled"} :
         exchange' = [exchange EXCEPT ![o].status = status]
    /\ UNCHANGED <<Kernel, tracker, today, calls, Network>>

-----------------------------------------------------------------------------
(* The process.                                                            *)

(* arm_live_trading with arm = true and the literal acknowledgement.  The  *)
(* reply reports today's usage, which rolls the tracker's day.             *)
Arm ==
    /\ armed' = TRUE /\ armedHere' = TRUE
    /\ tracker' = RollDay(tracker, today)
    /\ UNCHANGED <<calls, Network, Exchange>>

(* arm_live_trading with arm = false: no acknowledgement is asked for.     *)
Disarm ==
    /\ armed' = FALSE
    /\ tracker' = RollDay(tracker, today)
    /\ UNCHANGED <<armedHere, calls, Network, Exchange>>

Midnight ==
    /\ today < LastDay
    /\ today' = today + 1
    /\ UNCHANGED <<Kernel, tracker, calls, Network, exchange>>

(* Mutant: the arm state is persisted.                                     *)
Restart_StaysArmed ==
    /\ "restart" \in Faults
    /\ armedHere' = FALSE
    /\ tracker' = NewRiskTracker
    /\ calls' = [c \in Calls |-> Idle]
    /\ wire' = [c \in Calls |-> "none"]
    /\ landed' = [c \in Calls |-> FALSE]
    /\ UNCHANGED <<armed, late, Exchange>>

(* The process dies and is started again: calls, arm state and tracker are *)
(* gone; each request under way may still arrive.                          *)
Restart ==
    /\ "restart" \in Faults
    /\ armed' = FALSE /\ armedHere' = FALSE
    /\ tracker' = NewRiskTracker
    /\ calls' = [c \in Calls |-> Idle]
    /\ wire' = [c \in Calls |-> "none"]
    /\ landed' = [c \in Calls |-> FALSE]
    /\ \E lost \in SUBSET {c \in Calls : wire[c] = "sent"} :
         late' = late \cup {Write(c) : c \in {d \in Calls : wire[d] = "sent"} \ lost}
    /\ UNCHANGED Exchange

-----------------------------------------------------------------------------
(* Everything a goroutine does by itself once its call has begun.          *)
Step(c) ==
    \/ Gate(c) \/ Interlock(c) \/ RiskCheck(c) \/ StateGate(c) \/ Submit(c)
    \/ Answered(c) \/ Unreachable(c) \/ Recheck(c)
    \/ ConcludePlace(c) \/ ConcludeAmend(c) \/ ConcludeCancel(c) \/ Return(c)

Next ==
    \/ \E c \in Calls, k \in Kinds, o \in Orders, n \in Cents : Begin(c, k, o, n)
    \/ \E c \in Calls : Step(c) \/ ExchangeAccepts(c) \/ ExchangeRefuses(c)
    \/ \E w \in late : LateArrival(w)
    \/ \E o \in Orders : OrderEnds(o)
    \/ Arm \/ Disarm \/ Midnight \/ Restart

(* No lock is held across a round trip and every round trip is bounded by  *)
(* the http.Client timeout, so each goroutine keeps taking steps.          *)
Fairness == \A c \in Calls : WF_vars(Step(c))

Spec == Init /\ [][Next]_vars /\ Fairness

-----------------------------------------------------------------------------
(* Properties.                                                             *)

Reports(c, kind, result) ==
    At(c, "done") /\ calls[c].kind = kind /\ calls[c].outcome = result

(* A success is true of the exchange, whichever path reported it: a placed *)
(* order exists, a cancelled one is canceled, an amendment took effect     *)
(* (PlaceOrder, AmendOrder, CancelOrder and their reconciliation).         *)
SuccessIsTrue ==
    \A c \in Calls :
        /\ Reports(c, "place", "ok") => exchange[calls[c].order].status # "none"
        /\ Reports(c, "cancel", "ok") => exchange[calls[c].order].status = "canceled"
        /\ Reports(c, "amend", "ok") => landed[c]

(* A failure that is not outcome_indeterminate is clean: the write of the  *)
(* call has had no effect (CancelOrder: "a network timeout is NEVER        *)
(* reported as a clean failure"; THREAT_MODEL.md, uncertain execution).    *)
CleanFailureIsClean ==
    \A c \in Calls : At(c, "done") /\ calls[c].outcome \in CleanFailures => ~landed[c]

(* Every order at the exchange passed the per-order cap, late arrivals and *)
(* orders of an earlier process included (checkOrder).                     *)
OrderCapHolds == \A o \in Orders : exchange[o].cents <= MaxOrderCents

(* Past checkOrder and not yet recorded: what the tracker does not know.   *)
Unaccountable == {"idle", "gate", "interlock", "risk", "done"}

Pending == {c \in Calls : calls[c].pc \notin Unaccountable /\ calls[c].kind # "cancel"}

(* checkOrder reserves nothing, so calls in flight together overrun the    *)
(* daily caps; by one order less than there are goroutines, no further.    *)
OverrunIsBounded ==
    /\ tracker.orders <= MaxDailyOrders + Cardinality(Calls) - 1
    /\ tracker.notional <= MaxDailyCents + (Cardinality(Calls) - 1) * MaxOrderCents

AcceptedToday == {o \in Orders : exchange[o].status # "none" /\ exchange[o].day = today}

AcceptedCents == Total([o \in AcceptedToday |-> exchange[o].cents])

Unrecorded == {c \in Pending : landed[c]}

(* What the tracker will say of today once every write that has landed is  *)
(* recorded is no less than what the exchange has accepted today, across   *)
(* midnight too: RiskTracker.record after the answer or reconciliation.    *)
(* Amendments, late requests, misleading answers, crowded accounts and     *)
(* restarts are not covered.                                               *)
TrackerCoversExchange ==
    /\ Cardinality(AcceptedToday) <=
         RollDay(tracker, today).orders + Cardinality(Unrecorded)
    /\ AcceptedCents <= RollDay(tracker, today).notional
                          + Total([c \in Unrecorded |-> calls[c].cents])

(* What the exchange accepts in a UTC day stays within the overrun that    *)
(* the calls in flight allow: the tracker's bound, seen at the exchange.   *)
AcceptedOverrunIsBounded ==
    /\ Cardinality(AcceptedToday) <= MaxDailyOrders + Cardinality(Calls) - 1
    /\ AcceptedCents <= MaxDailyCents + (Cardinality(Calls) - 1) * MaxOrderCents

(* A place or amend on its way to the exchange was let through by an arm   *)
(* step of this very process: arming does not survive a restart.           *)
ArmingIsPerProcess ==
    \A c \in Calls : At(c, "submit") \/ At(c, "wait") =>
        calls[c].kind = "cancel" \/ armedHere

(* The write path implements the outcome contract: what each call has been *)
(* told, against what its write did or may still do at the exchange.       *)
Phase(c) ==
    CASE At(c, "idle") -> "idle"
      [] At(c, "recheck") \/ At(c, "conclude") -> "doubt"
      [] At(c, "done") -> IF calls[c].outcome = "ok" THEN "ok"
                          ELSE IF calls[c].outcome = "outcome_indeterminate" THEN "unknown"
                          ELSE "failed"
      [] OTHER -> "open"

Promise == INSTANCE OutcomeContract WITH
    phase <- [c \in Calls |-> Phase(c)],
    intent <- [c \in Calls |-> IF At(c, "idle") THEN [kind |-> "none"]
                               ELSE Write(c)],
    Cents <- Amounts,
    effect <- landed,
    loose <- late,
    book <- [o \in Orders |-> exchange[o].status]

(* Every behaviour of the write path is one the contract allows, so long   *)
(* as no answer misleads ("misleading" not in Faults).                     *)
KeepsOutcomeContract == Promise!Contract

(* Once a call has waited for the answer to its write it never writes      *)
(* again: reconciliation asks, it does not retry (PlaceOrder step 5).      *)
NeverBlindRetry ==
    [][\A c \in Calls :
         calls[c].pc \in {"wait", "recheck", "conclude", "done"} =>
            calls'[c].pc \notin {"gate", "interlock", "risk", "state", "submit"}
            /\ (wire'[c] = "sent" => wire[c] = "sent")]_vars

(* Every tool call is answered: no path waits for ever on the exchange.    *)
EveryCallReturns == \A c \in Calls : At(c, "gate") \/ At(c, "state") ~> At(c, "idle")

(* If the process is disarmed for good, placing and amending stop for good *)
(* (ArmState.Disarm; calls already past the gates are let through).        *)
DisarmStopsWrites ==
    <>[]~armed => <>[](\A c \in Calls :
                         At(c, "submit") \/ At(c, "wait") => calls[c].kind = "cancel")
=============================================================================
