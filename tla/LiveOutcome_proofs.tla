------------------------- MODULE LiveOutcome_proofs -------------------------
(***************************************************************************)
(* What the callers of the live write tools are told is true, the write    *)
(* path implements OutcomeContract, and what the tracker is told covers    *)
(* what the exchange accepted: for every set of goroutines, orders and     *)
(* amounts, and the choices of faults each theorem names.                  *)
(*                                                                         *)
(* The invariant OutcomeInv relates three pieces of state of each call:    *)
(* where it is, what is on its wire, and whether its write has landed.     *)
(* Nothing of a call lands before it waits; an answer says whether it      *)
(* landed; and what a landed write did to its order is never undone.  A    *)
(* misleading answer is the one case in which a landed write is reported   *)
(* as a plain failure, so it is excluded where failures have to be clean.  *)
(*                                                                         *)
(* The invariant CoverInv adds the books: the orders of today against the  *)
(* tracker and the calls whose write landed and is not recorded yet.  Its  *)
(* sums are cardinalities of sets of cents.                                *)
(***************************************************************************)
EXTENDS LiveTrading_proofs

Before == {"gate", "interlock", "risk", "state", "submit"}

(* What the write of a call, once it has landed, leaves true of its order. *)
Took(c) ==
    /\ calls[c].kind = "place" => exchange[calls[c].order].status # "none"
    /\ calls[c].kind = "cancel" => exchange[calls[c].order].status = "canceled"

GoodOutcome(c) ==
    /\ calls[c].pc \in Before => ~landed[c]
    /\ wire[c] \in {"sent", "refused", "conflict"} => ~landed[c]
    /\ wire[c] \in {"ok", "misleading"} => landed[c]
    /\ wire[c] = "misleading" => "misleading" \in Faults
    /\ calls[c].pc # "idle" /\ landed[c] => Took(c)
    /\ calls[c].pc = "conclude" =>
         /\ calls[c].seen # "unseen"
         /\ calls[c].kind = "place" /\ calls[c].seen \notin {"failed", "none"} => Took(c)
         /\ calls[c].kind = "cancel" /\ calls[c].seen = "canceled" => Took(c)
    /\ calls[c].pc = "done" =>
         /\ calls[c].outcome # "none"
         /\ calls[c].outcome = "ok" => Took(c) /\ (calls[c].kind = "amend" => landed[c])
         /\ calls[c].outcome \in CleanFailures => ~landed[c] \/ "misleading" \in Faults

OutcomeInv == \A c \in Calls : GoodOutcome(c)

-----------------------------------------------------------------------------
(* Orders only move forward.                                               *)

(* An order that exists goes on existing, and a canceled one is final.     *)
Advances ==
    \A o \in Orders :
        /\ exchange[o].status # "none" => exchange'[o].status # "none"
        /\ exchange[o].status = "canceled" => exchange'[o].status = "canceled"

(* What the exchange makes of a write moves its order forward, to where    *)
(* the write wanted it (AfterWrite).                                       *)
LEMMA WriteAdvances ==
    ASSUME TypeOK, NEW w, w.kind \in Kinds, w.order \in Orders, w.cents \in Amounts,
           Applicable(w), NEW record \in AfterWrite(w),
           exchange' = [exchange EXCEPT ![w.order] = record]
    PROVE  /\ Advances
           /\ w.kind = "place" => exchange'[w.order].status \in {"resting", "executed", "canceled"}
           /\ w.kind = "amend" => exchange'[w.order].status \in {"resting", "executed"}
           /\ w.kind = "cancel" => exchange'[w.order].status = "canceled"
           /\ \A o \in Orders \ {w.order} : exchange'[o] = exchange[o]
<1>1. w.kind \in {"place", "amend", "cancel"}
  BY LiveAssumption
<1>2. /\ w.kind = "place" => record.status \in {"resting", "executed", "canceled"}
      /\ w.kind = "amend" => record.status \in {"resting", "executed"}
      /\ w.kind = "cancel" => record.status = "canceled"
  <2>1. w.kind = "place" \/ w.kind = "amend" => record.status \in {"resting", "executed", "canceled"}
    BY DEF AfterWrite
  <2>2. w.kind = "amend" => record.status \in {"resting", "executed"}
    BY DEF AfterWrite
  <2>3. w.kind = "cancel" => record.status = "canceled"
    <3> SUFFICES ASSUME w.kind = "cancel" PROVE record.status = "canceled"
      OBVIOUS
    <3>1. record = [exchange[w.order] EXCEPT !.status = "canceled"]
      BY DEF AfterWrite
    <3> QED  BY <3>1 DEF TypeOK
  <2> QED  BY <2>1, <2>2, <2>3
<1>3. exchange'[w.order] = record /\ \A o \in Orders \ {w.order} : exchange'[o] = exchange[o]
  BY DEF TypeOK
<1>4. Advances
  <2>1. exchange[w.order].status \in {"none", "resting"} /\ record.status # "none"
    BY <1>1, <1>2 DEF Applicable
  <2> QED  BY <1>3, <2>1 DEF Advances
<1> QED  BY <1>2, <1>3, <1>4

(* A call nobody touches stays as good, while orders move forward.         *)
LEMMA Untouched ==
    ASSUME TypeOK, Advances, NEW c \in Calls, GoodOutcome(c),
           calls'[c] = calls[c], wire'[c] = wire[c], landed'[c] = landed[c]
    PROVE  GoodOutcome(c)'
<1>1. calls[c].pc # "idle" => calls[c].order \in Orders
  BY CallTypes DEF ActiveCalls
<1>2. calls[c].pc # "idle" /\ Took(c) => Took(c)'
  BY <1>1 DEF Took, Advances
<1> QED  BY <1>2 DEF GoodOutcome

(* The orders stay as they are where the exchange does.                    *)
LEMMA StandsStill == exchange' = exchange => Advances
  BY DEF Advances

-----------------------------------------------------------------------------
(* The steps of a call.                                                    *)

(* A step of a goroutine changes neither the exchange nor what has landed, *)
(* and nothing of the other calls.                                         *)
LEMMA StepIsLocal ==
    ASSUME TypeOK, NEW c \in Calls, Step(c)
    PROVE  /\ exchange' = exchange /\ landed' = landed
           /\ calls[c].pc # "idle"
           /\ \A d \in Calls \ {c} : calls'[d] = calls[d] /\ wire'[d] = wire[d]
<1>1. exchange' = exchange /\ landed' = landed /\ calls[c].pc # "idle"
  BY DEF Step, At, Gate, Interlock, RiskCheck, StateGate, Submit, Answered, Unreachable,
         Recheck, ConcludePlace, ConcludeAmend, ConcludeCancel, Return, Exchange, Network
<1>2. CASE Gate(c) \/ Interlock(c) \/ RiskCheck(c) \/ StateGate(c)
  BY <1>1, <1>2 DEF Gate, Interlock, RiskCheck, StateGate, Goto, Finish, Network, TypeOK
<1>3. CASE Submit(c) \/ Answered(c) \/ Unreachable(c)
  BY <1>1, <1>3 DEF Submit, Answered, Unreachable, Goto, Finish, TypeOK
<1>4. CASE Recheck(c) \/ ConcludePlace(c) \/ ConcludeAmend(c) \/ ConcludeCancel(c) \/ Return(c)
  BY <1>1, <1>4 DEF Recheck, ConcludePlace, ConcludeAmend, ConcludeCancel, Return, Finish,
                    Network, TypeOK
<1> QED  BY <1>1, <1>2, <1>3, <1>4 DEF Step

(* The result of a call is what it finishes with.                          *)
LEMMA FinishSays ==
    ASSUME TypeOK, NEW c \in Calls, calls[c].pc # "idle", NEW result, Finish(c, result)
    PROVE  calls'[c].pc = "done" /\ calls'[c].outcome = result /\ SameRequest(c)
<1>1. calls[c] \in ActiveCalls
  BY CallTypes
<1>2. calls'[c] = [calls[c] EXCEPT !.pc = "done", !.outcome = result]
  BY DEF Finish, TypeOK
<1> QED  BY <1>1, <1>2 DEF ActiveCalls, SameRequest

(* What reconciliation has seen is kept for the conclusion.                *)
LEMMA RecheckSees ==
    ASSUME TypeOK, NEW c \in Calls, Recheck(c)
    PROVE  /\ calls'[c].pc = "conclude" /\ SameRequest(c)
           /\ \/ calls'[c].seen \in {"failed", exchange[calls[c].order].status}
              \/ /\ calls[c].kind = "place" /\ "crowded" \in Faults
                 /\ calls'[c].seen = "none"
<1>1. calls[c] \in ActiveCalls
  BY CallTypes DEF Recheck, At
<1>2. PICK seen :
        /\ calls' = [calls EXCEPT ![c].pc = "conclude", ![c].seen = seen]
        /\ \/ seen \in {"failed", exchange[calls[c].order].status}
           \/ calls[c].kind = "place" /\ "crowded" \in Faults /\ seen = "none"
  <2>1. \/ \E seen \in GetOrder(calls[c].order) :
             calls' = [calls EXCEPT ![c].pc = "conclude", ![c].seen = seen]
        \/ /\ calls[c].kind = "place" /\ "crowded" \in Faults
           /\ calls' = [calls EXCEPT ![c].pc = "conclude", ![c].seen = "none"]
    BY DEF Recheck, FindOrderByClientID
  <2> QED  BY <2>1 DEF GetOrder
<1>3. calls'[c] = [calls[c] EXCEPT !.pc = "conclude", !.seen = seen]
  BY <1>2 DEF TypeOK
<1>4. calls'[c].pc = "conclude" /\ calls'[c].seen = seen /\ SameRequest(c)
  BY <1>1, <1>3 DEF ActiveCalls, SameRequest
<1> QED  BY <1>2, <1>4

(* A goroutine's own step keeps what is said of its call.                  *)
LEMMA StepKeepsOutcome ==
    ASSUME TypeOK, WireInv, NEW c \in Calls, GoodOutcome(c), Step(c)
    PROVE  GoodOutcome(c)'
<1>1. exchange' = exchange /\ landed' = landed /\ calls[c].pc # "idle"
  BY StepIsLocal
<1>2. SameRequest(c) => (Took(c)' <=> Took(c))
  BY <1>1 DEF SameRequest, Took
<1>3. ASSUME NEW result, Finish(c, result), wire'[c] = "none", result # "none",
             result = "ok" => Took(c) /\ (calls[c].kind = "amend" => landed[c]),
             result \in CleanFailures => ~landed[c] \/ "misleading" \in Faults
      PROVE  GoodOutcome(c)'
  <2>1. calls'[c].pc = "done" /\ calls'[c].outcome = result /\ SameRequest(c)
    BY <1>1, <1>3, FinishSays
  <2> QED  BY <1>1, <1>2, <1>3, <2>1 DEF GoodOutcome, SameRequest, Before
<1>4. ASSUME NEW label \in Before \cup {"wait", "recheck"}, Goto(c, label),
             label \in Before => ~landed[c],
             wire'[c] \in {"none", "sent"}, wire'[c] = "sent" => ~landed[c]
      PROVE  GoodOutcome(c)'
  <2>1. calls'[c].pc = label /\ SameRequest(c)
    BY <1>1, <1>4, CallMoves
  <2> QED  BY <1>1, <1>2, <1>4, <2>1 DEF GoodOutcome, SameRequest, Before
<1>5. calls[c].pc # "wait" => wire[c] = "none"
  BY DEF WireInv
<1>6. calls[c].pc \in Before => ~landed[c]
  BY DEF GoodOutcome
<1>a. CASE Gate(c) \/ Interlock(c)
  <2>1. ~landed[c] /\ wire'[c] = "none"
    BY <1>a, <1>5, <1>6 DEF Gate, Interlock, At, Before, Network
  <2>2. \/ \E result \in CleanFailures : Finish(c, result)
        \/ \E label \in Before : Goto(c, label)
    BY <1>a DEF Gate, Interlock, CleanFailures, Before
  <2> QED  BY <1>3, <1>4, <2>1, <2>2 DEF CleanFailures
<1>b. CASE RiskCheck(c) \/ StateGate(c)
  <2>1. ~landed[c] /\ wire'[c] = "none"
    BY <1>b, <1>5, <1>6 DEF RiskCheck, StateGate, At, Before, Network
  <2>2. \/ \E result \in CleanFailures : Finish(c, result)
        \/ \E label \in Before : Goto(c, label)
    BY <1>b DEF RiskCheck, StateGate, CleanFailures, Before
  <2> QED  BY <1>3, <1>4, <2>1, <2>2 DEF CleanFailures
<1>c. CASE Submit(c)
  <2>1. ~landed[c] /\ wire[c] = "none"
    BY <1>c, <1>5, <1>6 DEF Submit, At, Before
  <2>2. \/ Finish(c, "invalid_input") /\ wire' = wire
        \/ Goto(c, "wait") /\ wire'[c] = "sent"
    BY <1>c DEF Submit, TypeOK
  <2> QED  BY <1>3, <1>4, <2>1, <2>2 DEF CleanFailures
<1>d. CASE Answered(c)
  <2>1. wire'[c] = "none"
    BY <1>d DEF Answered, TypeOK
  <2>2. CASE wire[c] = "ok"
    <3>1. Finish(c, "ok") /\ landed[c] /\ Took(c)
      BY <1>1, <1>d, <2>2 DEF Answered, GoodOutcome
    <3> QED  BY <1>3, <2>1, <3>1 DEF CleanFailures
  <2>3. CASE wire[c] = "conflict"
    <3>1. Finish(c, "duplicate_client_order_id") /\ ~landed[c]
      BY <1>d, <2>3 DEF Answered, GoodOutcome
    <3> QED  BY <1>3, <2>1, <3>1 DEF CleanFailures
  <2>4. CASE wire[c] \in {"refused", "misleading"}
    <3>1. Finish(c, "upstream_error") /\ (~landed[c] \/ "misleading" \in Faults)
      BY <1>d, <2>4 DEF Answered, GoodOutcome
    <3> QED  BY <1>3, <2>1, <3>1 DEF CleanFailures
  <2> QED  BY <1>d, <2>2, <2>3, <2>4 DEF Answered
<1>e. CASE Unreachable(c)
  <2>1. wire'[c] = "none" /\ Goto(c, "recheck")
    BY <1>e DEF Unreachable, TypeOK
  <2> QED  BY <1>4, <2>1 DEF Before
<1>f. CASE Recheck(c)
  <2>1. /\ calls'[c].pc = "conclude" /\ SameRequest(c)
        /\ \/ calls'[c].seen \in {"failed", exchange[calls[c].order].status}
           \/ calls[c].kind = "place" /\ calls'[c].seen = "none"
    BY <1>f, RecheckSees
  <2>2. wire'[c] = "none"
    BY <1>f, <1>5 DEF Recheck, At, Network
  <2>3. exchange[calls[c].order].status # "unseen"
    BY <1>1, CallTypes DEF TypeOK, ActiveCalls, Statuses
  <2>4. /\ calls[c].kind = "place" /\ calls'[c].seen \notin {"failed", "none"} => Took(c)
        /\ calls[c].kind = "cancel" /\ calls'[c].seen = "canceled" => Took(c)
    BY <2>1 DEF Took
  <2> QED  BY <1>1, <1>2, <2>1, <2>2, <2>3, <2>4 DEF GoodOutcome, SameRequest, Before
<1>g. CASE ConcludePlace(c)
  <2>1. /\ wire'[c] = "none" /\ calls[c].kind = "place"
        /\ calls[c].seen \notin {"failed", "none"} => Took(c)
    BY <1>g, <1>5 DEF ConcludePlace, At, Network, GoodOutcome
  <2>2. \/ Finish(c, "outcome_indeterminate")
        \/ calls[c].seen \notin {"failed", "none"} /\ Finish(c, "ok")
    BY <1>g DEF ConcludePlace
  <2> QED  BY <1>3, <2>1, <2>2 DEF CleanFailures
<1>h. CASE ConcludeAmend(c) \/ ConcludeCancel(c)
  <2>1. /\ wire'[c] = "none"
        /\ calls[c].kind = "cancel" /\ calls[c].seen = "canceled" => Took(c)
    BY <1>h, <1>5 DEF ConcludeAmend, ConcludeCancel, At, Network, GoodOutcome
  <2>2. \/ Finish(c, "outcome_indeterminate")
        \/ calls[c].kind = "cancel" /\ calls[c].seen = "canceled" /\ Finish(c, "ok")
    BY <1>h DEF ConcludeAmend, ConcludeCancel
  <2> QED  BY <1>3, <2>1, <2>2 DEF CleanFailures
<1>i. CASE Return(c)
  <2>1. calls'[c].pc = "idle" /\ wire'[c] = "none"
    BY <1>i, <1>5 DEF Return, At, Idle, Network, TypeOK
  <2> QED  BY <2>1 DEF GoodOutcome, Before
<1> QED  BY <1>a, <1>b, <1>c, <1>d, <1>e, <1>f, <1>g, <1>h, <1>i DEF Step

-----------------------------------------------------------------------------
(* The steps of the exchange and of the process.                           *)

(* A request that arrives and takes effect lands, and an answer says so.   *)
LEMMA AcceptKeepsOutcome ==
    ASSUME TypeOK, WireInv, OutcomeInv, NEW c \in Calls, ExchangeAccepts(c)
    PROVE  OutcomeInv'
<1>1. calls[c].pc = "wait"
  BY DEF ExchangeAccepts, WireInv
<1>2. calls[c].kind \in Kinds /\ calls[c].order \in Orders /\ calls[c].cents \in Amounts
  BY <1>1, CallTypes DEF ActiveCalls
<1>3. PICK record \in AfterWrite(calls[c]) :
        exchange' = [exchange EXCEPT ![calls[c].order] = record]
  BY DEF ExchangeAccepts
<1>4. /\ Advances
      /\ calls[c].kind = "place" =>
           exchange'[calls[c].order].status \in {"resting", "executed", "canceled"}
      /\ calls[c].kind = "cancel" => exchange'[calls[c].order].status = "canceled"
  BY <1>2, <1>3, WriteAdvances DEF ExchangeAccepts
<1>5. /\ calls' = calls /\ landed'[c] /\ wire'[c] \in {"ok"} \cup (Faults \cap {"misleading"})
      /\ \A d \in Calls \ {c} : wire'[d] = wire[d] /\ landed'[d] = landed[d]
  BY DEF ExchangeAccepts, TypeOK
<1>6. GoodOutcome(c)'
  BY <1>1, <1>4, <1>5 DEF GoodOutcome, Took, Before
<1>7. \A d \in Calls \ {c} : GoodOutcome(d)'
  BY <1>4, <1>5, Untouched DEF OutcomeInv
<1> QED  BY <1>6, <1>7 DEF OutcomeInv

(* A request is refused before it has landed.                              *)
LEMMA RefuseKeepsOutcome ==
    ASSUME TypeOK, WireInv, OutcomeInv, NEW c \in Calls, ExchangeRefuses(c)
    PROVE  OutcomeInv'
<1>1. calls[c].pc = "wait" /\ ~landed[c]
  BY DEF ExchangeRefuses, WireInv, OutcomeInv, GoodOutcome
<1>2. /\ calls' = calls /\ landed' = landed /\ exchange' = exchange
      /\ wire'[c] \in {"refused", "conflict"}
      /\ \A d \in Calls \ {c} : wire'[d] = wire[d]
  BY DEF ExchangeRefuses, Exchange, TypeOK
<1>3. GoodOutcome(c)'
  BY <1>1, <1>2 DEF GoodOutcome, Took, Before
<1>4. \A d \in Calls \ {c} : GoodOutcome(d)'
  BY <1>2, StandsStill, Untouched DEF OutcomeInv
<1> QED  BY <1>3, <1>4 DEF OutcomeInv

(* Late writes and orders that end move orders forward only.               *)
LEMMA ElsewhereAdvances ==
    ASSUME TypeOK, \/ \E w \in late : LateArrival(w)
                   \/ \E o \in Orders : OrderEnds(o)
                   \/ Arm \/ Disarm \/ Midnight \/ UNCHANGED vars
    PROVE  Advances /\ calls' = calls /\ wire' = wire /\ landed' = landed
<1>1. ASSUME NEW w \in late, LateArrival(w) PROVE Advances
  <2>1. w.kind \in Kinds /\ w.order \in Orders /\ w.cents \in Amounts
    BY DEF TypeOK, Writes
  <2> QED  BY <1>1, <2>1, StandsStill, WriteAdvances DEF LateArrival
<1>2. ASSUME NEW o \in Orders, OrderEnds(o) PROVE Advances
  <2>1. PICK status \in {"executed", "canceled"} :
          exchange' = [exchange EXCEPT ![o].status = status]
    BY <1>2 DEF OrderEnds
  <2>2. exchange'[o].status = status /\ \A x \in Orders \ {o} : exchange'[x] = exchange[x]
    BY <2>1 DEF TypeOK
  <2> QED  BY <1>2, <2>2 DEF Advances, OrderEnds
<1>3. Arm \/ Disarm \/ Midnight \/ UNCHANGED vars => Advances
  BY StandsStill DEF Arm, Disarm, Midnight, Exchange, vars
<1>4. calls' = calls /\ wire' = wire /\ landed' = landed
  BY DEF LateArrival, OrderEnds, Arm, Disarm, Midnight, Network, vars
<1> QED  BY <1>1, <1>2, <1>3, <1>4

(* Every step keeps what is said of every call.                            *)
LEMMA OutcomeStep ==
    TypeOK /\ WireInv /\ OutcomeInv /\ [Next]_vars => OutcomeInv'
<1> SUFFICES ASSUME TypeOK, WireInv, OutcomeInv, [Next]_vars PROVE OutcomeInv'
  OBVIOUS
<1>1. ASSUME NEW c \in Calls, Step(c) PROVE OutcomeInv'
  <2>1. GoodOutcome(c)'
    BY <1>1, StepKeepsOutcome DEF OutcomeInv
  <2>2. \A d \in Calls \ {c} : GoodOutcome(d)'
    BY <1>1, StepIsLocal, StandsStill, Untouched DEF OutcomeInv
  <2> QED  BY <2>1, <2>2 DEF OutcomeInv
<1>2. ASSUME NEW c \in Calls, NEW k \in Kinds, NEW o \in Orders, NEW n \in Cents,
             Begin(c, k, o, n)
      PROVE  OutcomeInv'
  <2>1. /\ calls'[c].pc \in {"state", "gate"} /\ ~landed'[c]
        /\ wire' = wire /\ exchange' = exchange
        /\ \A d \in Calls \ {c} : calls'[d] = calls[d] /\ landed'[d] = landed[d]
    BY <1>2 DEF Begin, Exchange, TypeOK
  <2>2. wire[c] = "none"
    BY <1>2 DEF Begin, At, WireInv
  <2>3. GoodOutcome(c)'
    BY <2>1, <2>2 DEF GoodOutcome
  <2>4. \A d \in Calls \ {c} : GoodOutcome(d)'
    BY <2>1, StandsStill, Untouched DEF OutcomeInv
  <2> QED  BY <2>3, <2>4 DEF OutcomeInv
<1>3. CASE \/ \E w \in late : LateArrival(w)
           \/ \E o \in Orders : OrderEnds(o)
           \/ Arm \/ Disarm \/ Midnight \/ UNCHANGED vars
  BY <1>3, ElsewhereAdvances, Untouched DEF OutcomeInv
<1>4. CASE Restart
  BY <1>4 DEF Restart, OutcomeInv, GoodOutcome, Idle, Before
<1> QED  BY <1>1, <1>2, <1>3, <1>4, AcceptKeepsOutcome, RefuseKeepsOutcome DEF Next

(* Nothing has been asked or told at first.                                *)
LEMMA OutcomeInit == Init => OutcomeInv
  BY DEF Init, OutcomeInv, GoodOutcome, Idle, Before

(* What is said of the calls holds in every state.                         *)
LEMMA OutcomeInvariant == Spec => []OutcomeInv
<1>1. Init => OutcomeInv
  BY OutcomeInit
<1>2. TypeOK /\ WireInv /\ OutcomeInv /\ [Next]_vars => OutcomeInv'
  BY OutcomeStep
<1> QED  BY <1>1, <1>2, TypeCorrect, PTL DEF Spec

(* A reported success is true of the exchange, whichever path reported it  *)
(* and whatever the network does (PlaceOrder, AmendOrder, CancelOrder).    *)
THEOREM SuccessesAreTrue == Spec => []SuccessIsTrue
<1>1. OutcomeInv => SuccessIsTrue
  BY DEF OutcomeInv, GoodOutcome, SuccessIsTrue, Reports, At, Took
<1> QED  BY <1>1, OutcomeInvariant, PTL

(* A failure other than outcome_indeterminate means that the write has had *)
(* no effect, unless answers are cut off in their body: reconciliation     *)
(* never reports one (CancelOrder, PlaceOrder).                            *)
THEOREM CleanFailuresAreClean == "misleading" \notin Faults => (Spec => []CleanFailureIsClean)
<1> SUFFICES ASSUME "misleading" \notin Faults PROVE Spec => []CleanFailureIsClean
  OBVIOUS
<1>1. OutcomeInv => CleanFailureIsClean
  BY DEF OutcomeInv, GoodOutcome, CleanFailureIsClean, At
<1> QED  BY <1>1, OutcomeInvariant, PTL

(* A call that has waited for its answer never writes again: it asks what  *)
(* became of its order and concludes (PlaceOrder step 5, reconcile).       *)
THEOREM WritesOnce == Spec => NeverBlindRetry
<1> DEFINE Once ==
      \A c \in Calls :
         calls[c].pc \in {"wait", "recheck", "conclude", "done"} =>
            calls'[c].pc \notin {"gate", "interlock", "risk", "state", "submit"}
            /\ (wire'[c] = "sent" => wire[c] = "sent")
<1>1. ASSUME TypeOK, NEW c \in Calls, Step(c),
             calls[c].pc \in {"wait", "recheck", "conclude", "done"}
      PROVE  /\ calls'[c].pc \in {"recheck", "conclude", "done", "idle"}
             /\ wire'[c] = "sent" => wire[c] = "sent"
  <2>1. CASE Answered(c) \/ Unreachable(c)
    <3>1. wire'[c] = "none"
      BY <1>1, <2>1 DEF Answered, Unreachable, TypeOK
    <3>2. Goto(c, "recheck") \/ \E result : Finish(c, result)
      BY <2>1 DEF Answered, Unreachable
    <3> QED  BY <1>1, <3>1, <3>2, CallMoves
  <2>2. CASE Recheck(c)
    BY <1>1, <2>2, RecheckSees DEF Recheck, Network
  <2>3. CASE ConcludePlace(c) \/ ConcludeAmend(c) \/ ConcludeCancel(c)
    <3>1. wire' = wire /\ \E result : Finish(c, result)
      BY <2>3 DEF ConcludePlace, ConcludeAmend, ConcludeCancel, Network
    <3> QED  BY <1>1, <3>1, CallMoves
  <2>4. CASE Return(c)
    BY <1>1, <2>4 DEF Return, Idle, Network, TypeOK
  <2> QED  BY <1>1, <2>1, <2>2, <2>3, <2>4
           DEF Step, Gate, Interlock, RiskCheck, StateGate, Submit, At
<1>2. TypeOK /\ WireInv /\ [Next]_vars => Once
  <2> SUFFICES ASSUME TypeOK, WireInv, [Next]_vars, NEW c \in Calls,
                      calls[c].pc \in {"wait", "recheck", "conclude", "done"}
               PROVE  /\ calls'[c].pc \notin {"gate", "interlock", "risk", "state", "submit"}
                      /\ wire'[c] = "sent" => wire[c] = "sent"
    OBVIOUS
  <2>1. ASSUME NEW d \in Calls, Step(d)
        PROVE  \/ d = c
               \/ calls'[c] = calls[c] /\ wire'[c] = wire[c]
    BY <2>1, StepIsLocal
  <2>2. ASSUME NEW d \in Calls, NEW k \in Kinds, NEW o \in Orders, NEW n \in Cents,
               Begin(d, k, o, n)
        PROVE  calls'[c] = calls[c] /\ wire'[c] = wire[c]
    BY <2>2 DEF Begin, At, TypeOK
  <2>3. ASSUME NEW d \in Calls, ExchangeAccepts(d) \/ ExchangeRefuses(d)
        PROVE  calls'[c] = calls[c] /\ (wire'[c] = "sent" => wire[c] = "sent")
    BY <2>3 DEF ExchangeAccepts, ExchangeRefuses, TypeOK
  <2>4. CASE Restart
    BY <2>4 DEF Restart, Idle
  <2>5. CASE \/ \E w \in late : LateArrival(w)
             \/ \E o \in Orders : OrderEnds(o)
             \/ Arm \/ Disarm \/ Midnight \/ UNCHANGED vars
    BY <2>5, ElsewhereAdvances
  <2> QED  BY <1>1, <2>1, <2>2, <2>3, <2>4, <2>5 DEF Next
<1>3. TypeOK /\ WireInv /\ [Next]_vars => [Once]_vars
  BY <1>2
<1> HIDE DEF Once
<1>4. Spec => [][Once]_vars
  BY <1>3, TypeCorrect, PTL DEF Spec
<1> QED  BY <1>4 DEF NeverBlindRetry, Once

-----------------------------------------------------------------------------
(* The refinement of OutcomeContract: the calls as the contract sees them. *)

PhaseBar == [c \in Calls |-> Phase(c)]

IntentBar == [c \in Calls |-> IF At(c, "idle") THEN [kind |-> "none"] ELSE Write(c)]

BookBar == [o \in Orders |-> exchange[o].status]

(* Where a call is decides what the contract says it has been told.        *)
LEMMA Phases ==
    ASSUME NEW c \in Calls
    PROVE  /\ calls[c].pc = "idle" => Phase(c) = "idle"
           /\ calls[c].pc \in Before \cup {"wait"} => Phase(c) = "open"
           /\ calls[c].pc \in {"recheck", "conclude"} => Phase(c) = "doubt"
           /\ calls[c].pc = "done" /\ calls[c].outcome = "ok" => Phase(c) = "ok"
           /\ calls[c].pc = "done" /\ calls[c].outcome = "outcome_indeterminate"
                => Phase(c) = "unknown"
           /\ calls[c].pc = "done" /\ calls[c].outcome \in CleanFailures
                => Phase(c) = "failed"
  BY DEF Phase, At, Before, CleanFailures

(* A step of one call changes its phase alone.                             *)
LEMMA OnePhaseMoves ==
    ASSUME NEW c \in Calls, \A d \in Calls \ {c} : calls'[d] = calls[d]
    PROVE  /\ PhaseBar' = [PhaseBar EXCEPT ![c] = Phase(c)']
           /\ IntentBar' = [IntentBar EXCEPT ![c] = IntentBar'[c]]
           /\ PhaseBar[c] = Phase(c)
<1>1. \A d \in Calls \ {c} : Phase(d)' = Phase(d)
  BY DEF Phase, At
<1>2. \A d \in Calls \ {c} : IntentBar'[d] = IntentBar[d]
  BY DEF IntentBar, At, Write
<1> QED  BY <1>1, <1>2 DEF PhaseBar, IntentBar

(* A call that goes on keeps its intent.                                   *)
LEMMA IntentStays ==
    ASSUME NEW c \in Calls, \A d \in Calls \ {c} : calls'[d] = calls[d],
           SameRequest(c), calls[c].pc # "idle", calls'[c].pc # "idle"
    PROVE  IntentBar' = IntentBar /\ IntentBar[c] = Write(c)
  BY DEF IntentBar, At, Write, SameRequest

(* Nothing moves for the contract where the calls do not.                  *)
LEMMA CallsStay == calls' = calls => PhaseBar' = PhaseBar /\ IntentBar' = IntentBar
  BY DEF PhaseBar, IntentBar, Phase, At, Write

(* What a call finishes with is what the contract lets it be told.         *)
LEMMA FinishTells ==
    ASSUME TypeOK, NEW c \in Calls, calls[c].pc # "idle", NEW result, Finish(c, result),
           UNCHANGED <<exchange, landed, late>>
    PROVE  /\ result \in CleanFailures /\ Phase(c) = "open" /\ ~landed[c]
                => Promise!SayFailed(c)
           /\ result = "ok" /\ Phase(c) \in {"open", "doubt"} /\ Took(c)
                 /\ (calls[c].kind = "amend" => landed[c])
                => Promise!SayOk(c)
           /\ result = "outcome_indeterminate" /\ Phase(c) = "doubt" => Promise!SayUnknown(c)
<1>1. /\ calls'[c].pc = "done" /\ calls'[c].outcome = result /\ SameRequest(c)
      /\ \A d \in Calls \ {c} : calls'[d] = calls[d]
  BY FinishSays, CallMoves
<1>2. /\ PhaseBar' = [PhaseBar EXCEPT ![c] = Phase(c)'] /\ PhaseBar[c] = Phase(c)
      /\ IntentBar' = IntentBar /\ IntentBar[c] = Write(c)
  BY <1>1, OnePhaseMoves, IntentStays
<1>3. BookBar' = BookBar
  BY DEF BookBar
<1>4. /\ result \in CleanFailures => Phase(c)' = "failed"
      /\ result = "ok" => Phase(c)' = "ok"
      /\ result = "outcome_indeterminate" => Phase(c)' = "unknown"
  BY <1>1 DEF Phase, At, CleanFailures
<1>5. ASSUME result \in CleanFailures, Phase(c) = "open", ~landed[c]
      PROVE  Promise!SayFailed(c)
  BY <1>2, <1>3, <1>4, <1>5 DEF Promise!SayFailed, Promise!Tell, PhaseBar, IntentBar, BookBar
<1>6. ASSUME result = "ok", Phase(c) \in {"open", "doubt"}, Took(c),
             calls[c].kind = "amend" => landed[c]
      PROVE  Promise!SayOk(c)
  <2>1. calls[c].kind \in {"place", "amend", "cancel"} /\ calls[c].order \in Orders
    BY CallTypes, LiveAssumption DEF ActiveCalls
  <2>2. BookBar[calls[c].order] = exchange[calls[c].order].status
    BY <2>1 DEF BookBar
  <2>3. Promise!HoldsTrue(c)
    BY <1>2, <1>6, <2>1, <2>2 DEF Promise!HoldsTrue, IntentBar, BookBar, Took, Write
  <2> QED  BY <1>2, <1>3, <1>4, <1>6, <2>3
           DEF Promise!SayOk, Promise!Tell, PhaseBar, IntentBar, BookBar
<1>7. ASSUME result = "outcome_indeterminate", Phase(c) = "doubt"
      PROVE  Promise!SayUnknown(c)
  BY <1>2, <1>3, <1>4, <1>7 DEF Promise!SayUnknown, Promise!Tell, PhaseBar, IntentBar, BookBar
<1> QED  BY <1>5, <1>6, <1>7

(* A call that goes on in its phase does nothing the contract speaks of.   *)
LEMMA GoesOn ==
    ASSUME NEW c \in Calls, \A d \in Calls \ {c} : calls'[d] = calls[d], SameRequest(c),
           calls[c].pc # "idle", calls'[c].pc # "idle", Phase(c)' = Phase(c),
           UNCHANGED <<exchange, landed, late>>
    PROVE  UNCHANGED Promise!contractVars
<1>1. PhaseBar' = [PhaseBar EXCEPT ![c] = Phase(c)] /\ PhaseBar[c] = Phase(c)
      /\ IntentBar' = IntentBar
  BY OnePhaseMoves, IntentStays
<1>2. PhaseBar' = PhaseBar
  BY <1>1 DEF PhaseBar
<1> QED  BY <1>1, <1>2 DEF Promise!contractVars, PhaseBar, IntentBar, BookBar

(* A call that begins asks; one that returns leaves.                       *)
LEMMA BeginAsks ==
    ASSUME TypeOK, NEW c \in Calls, NEW k \in Kinds, NEW o \in Orders, NEW n \in Cents,
           Begin(c, k, o, n)
    PROVE  \E w \in Promise!Intents : Promise!Ask(c, w)
<1> DEFINE x == [pc |-> IF k = "cancel" THEN "state" ELSE "gate",
                 kind |-> k, order |-> o, cents |-> IF k = "cancel" THEN 0 ELSE n,
                 seen |-> "unseen", outcome |-> "none"]
           w == [kind |-> k, order |-> o, cents |-> IF k = "cancel" THEN 0 ELSE n]
<1>1. calls' = [calls EXCEPT ![c] = x] /\ calls[c].pc = "idle"
  BY DEF Begin, At
<1>2. calls'[c] = x /\ \A d \in Calls \ {c} : calls'[d] = calls[d]
  BY <1>1 DEF TypeOK
<1>3. w \in Promise!Intents
  BY DEF Promise!Intents, Amounts
<1>4. Phase(c)' = "open" /\ Phase(c) = "idle"
  BY <1>1, <1>2 DEF Phase, At
<1>5. IntentBar'[c] = w
  BY <1>2 DEF IntentBar, At, Write
<1>6. landed' = [landed EXCEPT ![c] = FALSE] /\ UNCHANGED <<late, exchange>>
  BY DEF Begin, Exchange
<1> HIDE DEF w, x
<1>7. Promise!Ask(c, w)
  BY <1>2, <1>4, <1>5, <1>6, OnePhaseMoves
     DEF Promise!Ask, Promise!Tell, PhaseBar, IntentBar, BookBar
<1> QED  BY <1>3, <1>7

(* A call that is answered is gone.                                        *)
LEMMA ReturnLeaves ==
    ASSUME TypeOK, OutcomeInv, NEW c \in Calls, Return(c)
    PROVE  Promise!Leave(c)
<1>1. calls' = [calls EXCEPT ![c] = Idle] /\ calls[c].pc = "done"
  BY DEF Return, At
<1>2. calls'[c] = Idle /\ \A d \in Calls \ {c} : calls'[d] = calls[d]
  BY <1>1 DEF TypeOK
<1>3. Phase(c)' = "idle" /\ Phase(c) \in {"ok", "failed", "unknown"}
  BY <1>1, <1>2 DEF Phase, At, Idle
<1>4. IntentBar'[c] = [kind |-> "none"]
  BY <1>2 DEF IntentBar, At, Idle
<1>5. UNCHANGED <<late, landed, exchange>>
  BY DEF Return, Network, Exchange
<1>6. /\ PhaseBar' = [PhaseBar EXCEPT ![c] = "idle"]
      /\ PhaseBar[c] \in {"ok", "failed", "unknown"}
  BY <1>2, <1>3, OnePhaseMoves
<1>7. IntentBar' = [IntentBar EXCEPT ![c] = Promise!NoIntent]
  BY <1>2, <1>4, OnePhaseMoves DEF Promise!NoIntent
<1> QED  BY <1>5, <1>6, <1>7
         DEF Promise!Leave, Promise!Tell, PhaseBar, IntentBar, BookBar

(* A wait that is given up leaves its write loose or lost.                 *)
LEMMA UnreachableGivesUp ==
    ASSUME TypeOK, OutcomeInv, NEW c \in Calls, Unreachable(c)
    PROVE  Promise!GiveUp(c)
<1>1. calls[c].pc = "wait" /\ Goto(c, "recheck") /\ UNCHANGED <<landed, exchange>>
  BY DEF Unreachable, At, Exchange
<1>2. /\ calls'[c].pc = "recheck" /\ SameRequest(c)
      /\ \A d \in Calls \ {c} : calls'[d] = calls[d]
  BY <1>1, CallMoves
<1>3. Phase(c) = "open" /\ Phase(c)' = "doubt"
  BY <1>1, <1>2 DEF Phase, At
<1>4. /\ PhaseBar' = [PhaseBar EXCEPT ![c] = "doubt"] /\ PhaseBar[c] = "open"
      /\ IntentBar' = IntentBar /\ IntentBar[c] = Write(c)
  BY <1>1, <1>2, <1>3, OnePhaseMoves, IntentStays
<1>5. late' \in {late} \cup (IF landed[c] THEN {} ELSE {late \cup {IntentBar[c]}})
  BY <1>4 DEF Unreachable, OutcomeInv, GoodOutcome
<1> QED  BY <1>1, <1>4, <1>5 DEF Promise!GiveUp, Promise!Tell, PhaseBar, IntentBar, BookBar

(* Each step of a goroutine is a step of the contract or none.             *)
LEMMA StepKeepsContract ==
    ASSUME "misleading" \notin Faults, TypeOK, OutcomeInv, NEW c \in Calls, Step(c)
    PROVE  \/ Promise!SayFailed(c) \/ Promise!SayOk(c) \/ Promise!SayUnknown(c)
           \/ Promise!GiveUp(c) \/ Promise!Leave(c)
           \/ UNCHANGED Promise!contractVars
<1>1. /\ exchange' = exchange /\ landed' = landed /\ calls[c].pc # "idle"
      /\ \A d \in Calls \ {c} : calls'[d] = calls[d]
  BY StepIsLocal
<1>2. calls[c].pc \in Before => ~landed[c]
  BY DEF OutcomeInv, GoodOutcome
<1>3. ASSUME NEW label, Goto(c, label), late' = late,
             calls[c].pc \in Before, label \in Before \cup {"wait"}
      PROVE  UNCHANGED Promise!contractVars
  <2>1. calls'[c].pc = label /\ SameRequest(c)
    BY <1>1, <1>3, CallMoves
  <2>2. Phase(c)' = "open" /\ Phase(c) = "open"
    BY <1>3, <2>1 DEF Phase, At, Before
  <2> QED  BY <1>1, <1>3, <2>1, <2>2, GoesOn DEF Before
<1>4. ASSUME NEW result \in CleanFailures, Finish(c, result), late' = late,
             calls[c].pc \in Before \cup {"wait"}, ~landed[c]
      PROVE  Promise!SayFailed(c)
  BY <1>1, <1>4, FinishTells, Phases
<1>5. ASSUME Finish(c, "ok"), late' = late, calls[c].pc \in {"wait", "conclude"},
             Took(c), calls[c].kind = "amend" => landed[c]
      PROVE  Promise!SayOk(c)
  BY <1>1, <1>5, FinishTells, Phases
<1>6. ASSUME Finish(c, "outcome_indeterminate"), late' = late, calls[c].pc = "conclude"
      PROVE  Promise!SayUnknown(c)
  BY <1>1, <1>6, FinishTells, Phases
<1>a. CASE Gate(c) \/ Interlock(c) \/ RiskCheck(c) \/ StateGate(c) \/ Submit(c)
  <2>1. late' = late /\ calls[c].pc \in Before
    BY <1>a DEF Gate, Interlock, RiskCheck, StateGate, Submit, At, Before, Network
  <2>2. \/ \E result \in CleanFailures : Finish(c, result)
        \/ \E label \in Before \cup {"wait"} : Goto(c, label)
    BY <1>a DEF Gate, Interlock, RiskCheck, StateGate, Submit, CleanFailures, Before
  <2> QED  BY <1>2, <1>3, <1>4, <2>1, <2>2
<1>b. CASE Answered(c)
  <2>1. late' = late /\ calls[c].pc = "wait"
    BY <1>b DEF Answered, At
  <2>2. CASE wire[c] = "ok"
    <3>1. Finish(c, "ok") /\ landed[c] /\ Took(c)
      BY <1>1, <1>b, <2>2 DEF Answered, OutcomeInv, GoodOutcome
    <3> QED  BY <1>5, <2>1, <3>1
  <2>3. CASE wire[c] # "ok"
    <3>1. ~landed[c] /\ \E result \in CleanFailures : Finish(c, result)
      BY <1>b, <2>3 DEF Answered, CleanFailures, OutcomeInv, GoodOutcome
    <3> QED  BY <1>4, <2>1, <3>1
  <2> QED  BY <2>2, <2>3
<1>c. CASE Unreachable(c)
  BY <1>c, UnreachableGivesUp
<1>d. CASE Recheck(c)
  <2>1. calls'[c].pc = "conclude" /\ SameRequest(c) /\ calls[c].pc = "recheck" /\ late' = late
    BY <1>d, RecheckSees DEF Recheck, At, Network
  <2>2. Phase(c)' = "doubt" /\ Phase(c) = "doubt"
    BY <2>1 DEF Phase, At
  <2> QED  BY <1>1, <2>1, <2>2, GoesOn
<1>e. CASE ConcludePlace(c)
  <2>1. /\ late' = late /\ calls[c].pc = "conclude" /\ calls[c].kind = "place"
        /\ calls[c].seen \notin {"failed", "none"} => Took(c)
    BY <1>e DEF ConcludePlace, At, Network, OutcomeInv, GoodOutcome
  <2>2. \/ Finish(c, "outcome_indeterminate")
        \/ calls[c].seen \notin {"failed", "none"} /\ Finish(c, "ok")
    BY <1>e DEF ConcludePlace
  <2> QED  BY <1>5, <1>6, <2>1, <2>2
<1>f. CASE ConcludeAmend(c) \/ ConcludeCancel(c)
  <2>1. /\ late' = late /\ calls[c].pc = "conclude"
        /\ calls[c].kind = "cancel" /\ calls[c].seen = "canceled" => Took(c)
    BY <1>f DEF ConcludeAmend, ConcludeCancel, At, Network, OutcomeInv, GoodOutcome
  <2>2. \/ Finish(c, "outcome_indeterminate")
        \/ calls[c].kind = "cancel" /\ calls[c].seen = "canceled" /\ Finish(c, "ok")
    BY <1>f DEF ConcludeAmend, ConcludeCancel
  <2> QED  BY <1>5, <1>6, <2>1, <2>2
<1>g. CASE Return(c)
  BY <1>g, ReturnLeaves
<1> QED  BY <1>a, <1>b, <1>c, <1>d, <1>e, <1>f, <1>g DEF Step

(* The status of one order is one entry of the book.                       *)
LEMMA BookTurns ==
    ASSUME NEW o \in Orders, \A x \in Orders \ {o} : exchange'[x] = exchange[x]
    PROVE  BookBar' = [BookBar EXCEPT ![o] = exchange'[o].status]
  BY DEF BookBar

(* A write that takes effect applies to the book of the contract.          *)
LEMMA WriteApplies ==
    ASSUME TypeOK, NEW w, w.kind \in Kinds, w.order \in Orders, w.cents \in Amounts,
           Applicable(w), NEW record \in AfterWrite(w),
           exchange' = [exchange EXCEPT ![w.order] = record]
    PROVE  Promise!Apply(w)
<1>0. PICK o \in Orders : o = w.order
  OBVIOUS
<1>a. PICK status : status = exchange'[w.order].status
  OBVIOUS
<1>1. o = w.order /\ status = exchange'[w.order].status
  BY <1>0, <1>a
<1>2. /\ w.kind = "place" => status \in {"resting", "executed", "canceled"}
      /\ w.kind = "amend" => status \in {"resting", "executed"}
      /\ w.kind = "cancel" => status = "canceled"
      /\ \A x \in Orders \ {o} : exchange'[x] = exchange[x]
  BY <1>1, WriteAdvances
<1>3. status \in Promise!After(w)
  BY <1>2, LiveAssumption DEF Promise!After
<1>4. BookBar[o] = Promise!Before(w)
  BY <1>1 DEF BookBar, Applicable, Promise!Before
<1>5. BookBar' = [BookBar EXCEPT ![o] = status]
  BY <1>1, <1>2, BookTurns
<1> QED  BY <1>1, <1>3, <1>4, <1>5 DEF Promise!Apply, BookBar

(* Each step of the exchange is a step of the contract or none.            *)
LEMMA ExchangeKeepsContract ==
    ASSUME TypeOK, WireInv, OutcomeInv
    PROVE  /\ \A c \in Calls : ExchangeAccepts(c) => Promise!TakeEffect(c)
           /\ \A c \in Calls : ExchangeRefuses(c) => UNCHANGED Promise!contractVars
           /\ \A w \in late : LateArrival(w) => Promise!LateEffect(w)
           /\ \A o \in Orders : OrderEnds(o) => Promise!BookMoves(o)
<1>1. ASSUME NEW c \in Calls, ExchangeAccepts(c) PROVE Promise!TakeEffect(c)
  <2>1. /\ calls[c].pc = "wait" /\ ~landed[c] /\ calls' = calls /\ late' = late
        /\ landed' = [landed EXCEPT ![c] = TRUE]
    BY <1>1 DEF ExchangeAccepts, WireInv, OutcomeInv, GoodOutcome
  <2>2. calls[c].kind \in Kinds /\ calls[c].order \in Orders /\ calls[c].cents \in Amounts
    BY <2>1, CallTypes DEF ActiveCalls
  <2>3. PICK record \in AfterWrite(calls[c]) :
          exchange' = [exchange EXCEPT ![calls[c].order] = record]
    BY <1>1 DEF ExchangeAccepts
  <2>4. PICK w : w = Write(c)
    OBVIOUS
  <2>5. /\ IntentBar[c] = w /\ w.kind = calls[c].kind
        /\ w.order = calls[c].order /\ w.cents = calls[c].cents
    BY <2>1, <2>4 DEF IntentBar, At, Write
  <2>6. Promise!Apply(w)
    <3>1. Applicable(w) /\ record \in AfterWrite(w)
      BY <1>1, <2>5 DEF ExchangeAccepts, Applicable, AfterWrite
    <3> QED  BY <2>2, <2>3, <2>5, <3>1, WriteApplies
  <2>7. PhaseBar[c] = "open" /\ PhaseBar' = PhaseBar /\ IntentBar' = IntentBar
    BY <2>1, Phases, CallsStay DEF PhaseBar
  <2> QED  BY <2>1, <2>5, <2>6, <2>7
           DEF Promise!TakeEffect, Promise!Apply, PhaseBar, IntentBar
<1>2. ASSUME NEW c \in Calls, ExchangeRefuses(c) PROVE UNCHANGED Promise!contractVars
  BY <1>2, CallsStay
     DEF ExchangeRefuses, Exchange, Promise!contractVars, PhaseBar, IntentBar
<1>3. ASSUME NEW w \in late, LateArrival(w) PROVE Promise!LateEffect(w)
  <2>1. w.kind \in Kinds /\ w.order \in Orders /\ w.cents \in Amounts
    BY DEF TypeOK, Writes
  <2>2. PhaseBar' = PhaseBar /\ IntentBar' = IntentBar
    BY <1>3, CallsStay DEF LateArrival
  <2>3. exchange' = exchange \/ Promise!Apply(w)
    BY <1>3, <2>1, WriteApplies DEF LateArrival
  <2> QED  BY <1>3, <2>2, <2>3 DEF LateArrival, Promise!LateEffect, PhaseBar, IntentBar
<1>4. ASSUME NEW o \in Orders, OrderEnds(o) PROVE Promise!BookMoves(o)
  <2>1. PICK status \in {"executed", "canceled"} :
          exchange' = [exchange EXCEPT ![o].status = status]
    BY <1>4 DEF OrderEnds
  <2>2. BookBar' = [BookBar EXCEPT ![o] = status] /\ BookBar[o] = "resting"
    <3>1. exchange'[o].status = status /\ \A x \in Orders \ {o} : exchange'[x] = exchange[x]
      BY <2>1 DEF TypeOK
    <3> QED  BY <1>4, <3>1, BookTurns DEF BookBar, OrderEnds
  <2>3. PhaseBar' = PhaseBar /\ IntentBar' = IntentBar
    BY <1>4, CallsStay DEF OrderEnds
  <2> QED  BY <1>4, <2>2, <2>3
           DEF OrderEnds, Network, Promise!BookMoves, PhaseBar, IntentBar, BookBar
<1> QED  BY <1>1, <1>2, <1>3, <1>4

(* A restart is a crash of the contract: the requests on the wire are open *)
(* and without effect, and become loose or are lost.                       *)
LEMMA RestartCrashes ==
    ASSUME WireInv, OutcomeInv, Restart
    PROVE  Promise!Crash
<1>1. \A c \in Calls : calls'[c] = Idle /\ landed'[c] = FALSE
  BY DEF Restart
<1>2. /\ PhaseBar' = [c \in Calls |-> "idle"]
      /\ IntentBar' = [c \in Calls |-> [kind |-> "none"]]
  BY <1>1 DEF PhaseBar, IntentBar, Phase, At, Idle
<1>3. landed' = [c \in Calls |-> FALSE] /\ BookBar' = BookBar
  BY DEF Restart, Exchange, BookBar
<1>4. \A c \in Calls : wire[c] = "sent" =>
         PhaseBar[c] = "open" /\ ~landed[c] /\ IntentBar[c] = Write(c)
  BY Phases DEF WireInv, OutcomeInv, GoodOutcome, PhaseBar, IntentBar, At
<1>5. PICK lost \in SUBSET {c \in Calls : wire[c] = "sent"} :
        late' = late \cup {Write(c) : c \in {d \in Calls : wire[d] = "sent"} \ lost}
  BY DEF Restart
<1> DEFINE some == {d \in Calls : wire[d] = "sent"} \ lost
<1>6. some \in SUBSET {c \in Calls : PhaseBar[c] = "open" /\ ~landed[c]}
  BY <1>4
<1>7. late' = late \cup {IntentBar[c] : c \in some}
  BY <1>4, <1>5
<1> HIDE DEF some
<1> QED  BY <1>2, <1>3, <1>6, <1>7
         DEF Promise!Crash, Promise!NoIntent, PhaseBar, IntentBar, BookBar

(* Arming and the clock are not the contract's business.                   *)
LEMMA ProcessStutters ==
    Arm \/ Disarm \/ Midnight \/ UNCHANGED vars => UNCHANGED Promise!contractVars
  BY CallsStay DEF Arm, Disarm, Midnight, Network, Exchange, vars,
                   Promise!contractVars, PhaseBar, IntentBar

(* Nobody has asked for anything at first.                                 *)
LEMMA ContractStarts == Init => Promise!Start
<1> SUFFICES ASSUME Init PROVE Promise!Start
  OBVIOUS
<1>1. \A c \in Calls : Phase(c) = "idle" /\ At(c, "idle")
  BY DEF Init, Phase, At, Idle
<1>2. \A o \in Orders : exchange[o].status = "none"
  BY DEF Init, NoOrder
<1> QED  BY <1>1, <1>2 DEF Init, Promise!Start, Promise!NoIntent

(* Every step is one the contract allows, or none it speaks of.            *)
LEMMA ContractSteps ==
    ASSUME "misleading" \notin Faults, TypeOK, WireInv, OutcomeInv, [Next]_vars
    PROVE  [Promise!ContractNext]_(Promise!contractVars)
<1>1. ASSUME NEW c \in Calls, NEW k \in Kinds, NEW o \in Orders, NEW n \in Cents,
             Begin(c, k, o, n)
      PROVE  Promise!ContractNext
  BY <1>1, BeginAsks DEF Promise!ContractNext
<1>2. ASSUME NEW c \in Calls, Step(c)
      PROVE  [Promise!ContractNext]_(Promise!contractVars)
  BY <1>2, StepKeepsContract DEF Promise!ContractNext
<1>3. ASSUME NEW c \in Calls, ExchangeAccepts(c) \/ ExchangeRefuses(c)
      PROVE  [Promise!ContractNext]_(Promise!contractVars)
  BY <1>3, ExchangeKeepsContract DEF Promise!ContractNext
<1>4. ASSUME NEW w \in late, LateArrival(w)
      PROVE  Promise!ContractNext
  BY <1>4, ExchangeKeepsContract DEF Promise!ContractNext
<1>5. ASSUME NEW o \in Orders, OrderEnds(o)
      PROVE  Promise!ContractNext
  BY <1>5, ExchangeKeepsContract DEF Promise!ContractNext
<1>6. CASE Restart
  BY <1>6, RestartCrashes DEF Promise!ContractNext
<1> QED  BY <1>1, <1>2, <1>3, <1>4, <1>5, <1>6, ProcessStutters DEF Next

(* The live write path is an implementation of the outcome contract, while *)
(* goroutines interleave, requests are lost or arrive late and the process *)
(* restarts, as long as no answer is cut off in its body.                  *)
THEOREM ContractIsKept == "misleading" \notin Faults => (Spec => KeepsOutcomeContract)
<1> SUFFICES ASSUME "misleading" \notin Faults PROVE Spec => KeepsOutcomeContract
  OBVIOUS
<1>1. Init => Promise!Start
  BY ContractStarts
<1>2. TypeOK /\ WireInv /\ OutcomeInv /\ [Next]_vars
        => [Promise!ContractNext]_(Promise!contractVars)
  BY ContractSteps
<1> QED  BY <1>1, <1>2, TypeCorrect, OutcomeInvariant, PTL
         DEF Spec, KeepsOutcomeContract, Promise!Contract

-----------------------------------------------------------------------------
(* What the exchange accepted and what the tracker knows of it.            *)

(* The cents of all x in S, at f[x] each.                                  *)
Units(S, f) == UNION {{x} \X (1..f[x]) : x \in S}

(* What all x in S come to is counted over S whichever function says it.   *)
LEMMA TotalCounts ==
    ASSUME NEW S, NEW f, NEW g, \A x \in S : g[x] = f[x]
    PROVE  Total([x \in S |-> f[x]]) = Cardinality(Units(S, g))
<1>1. \A x \in S : {x} \X (1..f[x]) = {x} \X (1..g[x])
  OBVIOUS
<1>2. UNION {{x} \X (1..f[x]) : x \in S} = UNION {{x} \X (1..g[x]) : x \in S}
  BY <1>1
<1>3. UNION {{x} \X (1..[y \in S |-> f[y]][x]) : x \in DOMAIN [y \in S |-> f[y]]}
        = UNION {{x} \X (1..f[x]) : x \in S}
  OBVIOUS
<1> QED  BY <1>2, <1>3 DEF Total, Units

(* Sums of amounts with a common bound are numbers, and bounded by it.     *)
LEMMA UnitsFinite ==
    ASSUME NEW S, IsFiniteSet(S), NEW f, NEW m \in Nat,
           \A x \in S : f[x] \in Nat /\ f[x] <= m
    PROVE  /\ IsFiniteSet(Units(S, f)) /\ Cardinality(Units(S, f)) \in Nat
           /\ Cardinality(Units(S, f)) <= Cardinality(S) * m
<1>1. IsFiniteSet(1..m) /\ Cardinality(1..m) = m
  BY FS_Interval
<1>2. IsFiniteSet(S \X (1..m)) /\ Cardinality(S \X (1..m)) = Cardinality(S) * m
  BY <1>1, FS_Product
<1>3. Units(S, f) \subseteq S \X (1..m)
  BY DEF Units
<1> QED  BY <1>2, <1>3, FS_Subset, FS_CardinalityType

(* One more of them adds its own amount.                                   *)
LEMMA UnitsAdd ==
    ASSUME NEW S, IsFiniteSet(S), NEW f, NEW m \in Nat, NEW y, y \notin S,
           \A x \in S \cup {y} : f[x] \in Nat /\ f[x] <= m
    PROVE  Cardinality(Units(S \cup {y}, f)) = Cardinality(Units(S, f)) + f[y]
<1>1. IsFiniteSet({y}) /\ Cardinality({y}) = 1
  BY FS_Singleton
<1>2. PICK n \in Nat : n = f[y]
  OBVIOUS
<1>3. IsFiniteSet({y} \X (1..n)) /\ Cardinality({y} \X (1..n)) = n
  <2>1. IsFiniteSet(1..n) /\ Cardinality(1..n) = n
    BY FS_Interval
  <2>2. /\ IsFiniteSet({y} \X (1..n))
        /\ Cardinality({y} \X (1..n)) = Cardinality({y}) * Cardinality(1..n)
    BY <1>1, <2>1, FS_Product
  <2> QED  BY <1>1, <2>1, <2>2
<1>4. IsFiniteSet(Units(S, f)) /\ Cardinality(Units(S, f)) \in Nat
  BY UnitsFinite
<1>5. PICK A, B : A = Units(S, f) /\ B = {y} \X (1..n)
  OBVIOUS
<1>6. Units(S \cup {y}, f) = A \cup B /\ A \cap B = {}
  BY <1>2, <1>5 DEF Units
<1>7. Cardinality(A \cup B) = Cardinality(A) + Cardinality(B) - Cardinality(A \cap B)
  BY <1>3, <1>4, <1>5, FS_Union
<1>8. Cardinality(A \cap B) = 0
  BY <1>6, FS_EmptySet
<1>9. Cardinality(A) = Cardinality(Units(S, f)) /\ Cardinality(B) = n
  BY <1>3, <1>5
<1>10. Cardinality(A \cup B) = Cardinality(Units(S, f)) + n
  BY <1>4, <1>7, <1>8, <1>9
<1> QED  BY <1>2, <1>6, <1>10

(* One less of them takes its own amount away.                             *)
LEMMA UnitsRemove ==
    ASSUME NEW S, IsFiniteSet(S), NEW f, NEW m \in Nat, NEW y \in S,
           \A x \in S : f[x] \in Nat /\ f[x] <= m
    PROVE  Cardinality(Units(S, f)) = Cardinality(Units(S \ {y}, f)) + f[y]
<1>1. IsFiniteSet(S \ {y}) /\ y \notin S \ {y} /\ (S \ {y}) \cup {y} = S
  BY FS_RemoveElement
<1> QED  BY <1>1, UnitsAdd

(* Fewer of them come to no more.                                          *)
LEMMA UnitsFewer ==
    ASSUME NEW S, IsFiniteSet(S), NEW f, NEW m \in Nat, NEW R \in SUBSET S,
           \A x \in S : f[x] \in Nat /\ f[x] <= m
    PROVE  Cardinality(Units(R, f)) <= Cardinality(Units(S, f))
<1>1. Units(R, f) \subseteq Units(S, f)
  BY DEF Units
<1> QED  BY <1>1, UnitsFinite, FS_Subset

(* Only what each of them comes to counts.                                 *)
LEMMA UnitsSame ==
    ASSUME NEW S, NEW f, NEW g, \A x \in S : f[x] = g[x]
    PROVE  Units(S, f) = Units(S, g)
  BY DEF Units

(* What the tracker says today, and what each order is booked with.        *)
Window == RollDay(tracker, today)
Booked == [o \in Orders |-> exchange[o].cents]

(* A window w that misses the calls in U covers the accepted orders A, in  *)
(* number and in cents.                                                    *)
CoveredBy(A, U, w, booked, owed) ==
    /\ IsFiniteSet(A)
    /\ Cardinality(A) <= w.orders + Cardinality(U)
    /\ Cardinality(Units(A, booked)) <= w.notional + Cardinality(Units(U, owed))

(* The tracker covers the exchange; no order is of a day to come; nothing  *)
(* is under way without a call; and a place that landed was not overlooked *)
(* by its recheck.                                                         *)
Overlooked(c) == calls[c].pc = "conclude" /\ calls[c].kind = "place" /\ calls[c].seen = "none"

CoverInv ==
    /\ late = {}
    /\ \A o \in Orders : exchange[o].status # "none" => exchange[o].day <= today
    /\ \A c \in Calls : landed[c] => ~Overlooked(c)
    /\ CoveredBy(AcceptedToday, Unrecorded, Window, Booked, Owed)

(* The cases in which everything the exchange accepts gets recorded.       *)
AllRecorded == Faults = {} /\ "amend" \notin Kinds

(* Amounts are numbers under the per-order cap, and the calls are finite.  *)
LEMMA CoverTypes ==
    ASSUME TypeOK, Account, OrderCapHolds
    PROVE  /\ \A o \in Orders : Booked[o] \in Nat /\ Booked[o] <= MaxOrderCents
           /\ \A c \in Pending : Owed[c] \in Nat /\ Owed[c] <= MaxOrderCents
           /\ IsFiniteSet(Pending) /\ IsFiniteSet(Unrecorded)
           /\ Unrecorded \subseteq Pending /\ Pending \subseteq Calls
           /\ Cardinality(Unrecorded) \in Nat
           /\ Cardinality(Unrecorded) <= Cardinality(Pending)
           /\ today \in Nat /\ tracker \in Trackers /\ Window \in Trackers
           /\ MaxOrderCents \in Nat
<1>1. \A o \in Orders : Booked[o] \in Nat /\ Booked[o] <= MaxOrderCents
  BY DEF TypeOK, OrderCapHolds, Booked
<1>2. \A c \in Pending : Owed[c] \in Nat /\ Owed[c] <= MaxOrderCents
  BY DEF Account, Accounted
<1>3. Unrecorded \subseteq Pending /\ Pending \subseteq Calls
  BY DEF Unrecorded, Pending
<1>4. IsFiniteSet(Pending) /\ IsFiniteSet(Unrecorded)
      /\ Cardinality(Unrecorded) \in Nat /\ Cardinality(Unrecorded) <= Cardinality(Pending)
  BY <1>3, LiveAssumption, FS_Subset, FS_CardinalityType
<1>5. today \in Nat /\ tracker \in Trackers
  BY LiveAssumption DEF TypeOK
<1>6. Window \in Trackers
  BY <1>5, TrackerTypes DEF Window
<1> QED  BY <1>1, <1>2, <1>3, <1>4, <1>5, <1>6, CapsAssumption

(* What recording adds to the window of the day (RiskTracker.record).      *)
LEMMA RecordAdds ==
    ASSUME NEW t \in Trackers, NEW d \in Nat, NEW n \in Nat
    PROVE  /\ Record(t, d, n).day = d
           /\ Record(t, d, n).orders = RollDay(t, d).orders + 1
           /\ Record(t, d, n).notional = RollDay(t, d).notional + n
<1>1. RollDay(t, d) \in Trackers /\ RollDay(t, d).day = d
  BY TrackerTypes DEF RollDay
<1> QED  BY <1>1 DEF Record, Trackers

(* Rolling twice is rolling once, and recording rolls (rollDay).           *)
LEMMA WindowMoves ==
    ASSUME tracker \in Trackers, today \in Nat, today' = today
    PROVE  /\ tracker' = tracker => Window' = Window
           /\ tracker' = RollDay(tracker, today) => Window' = Window
           /\ \A n \in Nat : tracker' = Record(tracker, today, n) =>
                /\ Window'.orders = Window.orders + 1
                /\ Window'.notional = Window.notional + n
<1>1. RollDay(RollDay(tracker, today), today) = RollDay(tracker, today)
  BY DEF RollDay
<1>2. ASSUME NEW n \in Nat, tracker' = Record(tracker, today, n)
      PROVE  /\ Window'.orders = Window.orders + 1
             /\ Window'.notional = Window.notional + n
  <2>1. tracker'.day = today
    BY <1>2, RecordAdds
  <2>2. Window' = tracker'
    BY <2>1 DEF Window, RollDay
  <2> QED  BY <1>2, <2>2, RecordAdds DEF Window
<1> QED  BY <1>1, <1>2 DEF Window

(* The tracker goes on covering what it covers where neither the orders    *)
(* nor the unrecorded calls change.                                        *)
LEMMA CoverStays ==
    ASSUME CoveredBy(AcceptedToday, Unrecorded, Window, Booked, Owed),
           AcceptedToday' = AcceptedToday, \A o \in AcceptedToday : Booked'[o] = Booked[o],
           Unrecorded' = Unrecorded, \A c \in Unrecorded : Owed'[c] = Owed[c],
           Window' = Window
    PROVE  CoveredBy(AcceptedToday, Unrecorded, Window, Booked, Owed)'
<1>1. /\ Units(AcceptedToday, Booked') = Units(AcceptedToday, Booked)
      /\ Units(Unrecorded, Owed') = Units(Unrecorded, Owed)
  BY UnitsSame
<1> QED  BY <1>1 DEF CoveredBy

(* A call that is recorded is not missing any more.                        *)
LEMMA RecordCovers ==
    ASSUME TypeOK, Account, OrderCapHolds,
           CoveredBy(AcceptedToday, Unrecorded, Window, Booked, Owed),
           AcceptedToday' = AcceptedToday, Booked' = Booked,
           NEW c \in Pending, Unrecorded' = Unrecorded \ {c},
           \A d \in Calls : Owed'[d] = Owed[d], today' = today,
           tracker' = Record(tracker, today, Owed[c])
    PROVE  CoveredBy(AcceptedToday, Unrecorded, Window, Booked, Owed)'
<1>1. /\ Owed[c] \in Nat /\ Window'.orders = Window.orders + 1
      /\ Window'.notional = Window.notional + Owed[c]
      /\ Window.orders \in Nat /\ Window.notional \in Nat
  BY CoverTypes, WindowMoves DEF Trackers
<1>2. PICK U : U = Unrecorded
  OBVIOUS
<1>3. IsFiniteSet(U) /\ Cardinality(U) \in Nat /\ Cardinality(U \ {c}) + 1 >= Cardinality(U)
  BY <1>2, CoverTypes, FS_RemoveElement, FS_CardinalityType
<1>4. Cardinality(Units(U, Owed)) <= Cardinality(Units(U \ {c}, Owed)) + Owed[c]
  <2>1. /\ \A x \in U : Owed[x] \in Nat /\ Owed[x] <= MaxOrderCents
        /\ MaxOrderCents \in Nat
    BY <1>2, CoverTypes
  <2>2. Cardinality(Units(U, Owed)) \in Nat
    BY <1>3, <2>1, UnitsFinite
  <2>3. CASE c \in U
    <3>1. Cardinality(Units(U, Owed)) = Cardinality(Units(U \ {c}, Owed)) + Owed[c]
      BY <1>3, <2>1, <2>3, UnitsRemove
    <3> QED  BY <2>2, <3>1
  <2>4. CASE c \notin U
    BY <1>1, <2>2, <2>4, U \ {c} = U
  <2> QED  BY <2>3, <2>4
<1>5. Units(U \ {c}, Owed') = Units(U \ {c}, Owed)
  <2>1. \A x \in U \ {c} : Owed'[x] = Owed[x]
    BY <1>2, CoverTypes
  <2> QED  BY <2>1, UnitsSame
<1>6. Cardinality(U \ {c}) \in Nat /\ Cardinality(Units(U \ {c}, Owed)) \in Nat
      /\ Cardinality(Units(U, Owed)) \in Nat
  <2>1. /\ \A x \in U : Owed[x] \in Nat /\ Owed[x] <= MaxOrderCents
        /\ MaxOrderCents \in Nat /\ IsFiniteSet(U \ {c})
    BY <1>2, <1>3, CoverTypes, FS_RemoveElement
  <2> QED  BY <1>3, <2>1, UnitsFinite, FS_CardinalityType
<1>7. Cardinality(AcceptedToday) \in Nat /\ Cardinality(Units(AcceptedToday, Booked)) \in Nat
  <2>1. \A x \in AcceptedToday : Booked[x] \in Nat /\ Booked[x] <= MaxOrderCents
    BY CoverTypes DEF AcceptedToday
  <2>2. IsFiniteSet(AcceptedToday) /\ MaxOrderCents \in Nat
    BY CoverTypes DEF CoveredBy
  <2> QED  BY <2>1, <2>2, UnitsFinite, FS_CardinalityType
<1> QED  BY <1>1, <1>2, <1>3, <1>4, <1>5, <1>6, <1>7 DEF CoveredBy

(* An order that is accepted is missing in the tracker until its call is   *)
(* recorded.                                                               *)
LEMMA AcceptCovers ==
    ASSUME TypeOK, Account, OrderCapHolds,
           CoveredBy(AcceptedToday, Unrecorded, Window, Booked, Owed),
           NEW o \in Orders, o \notin AcceptedToday, NEW c \in Pending, c \notin Unrecorded,
           AcceptedToday' = AcceptedToday \cup {o}, Booked'[o] = Owed[c],
           \A x \in Orders \ {o} : Booked'[x] = Booked[x],
           Unrecorded' = Unrecorded \cup {c}, Owed' = Owed, Window' = Window
    PROVE  CoveredBy(AcceptedToday, Unrecorded, Window, Booked, Owed)'
<1>1. PICK A, U : A = AcceptedToday /\ U = Unrecorded
  OBVIOUS
<1>2. /\ IsFiniteSet(A) /\ Cardinality(A) \in Nat /\ IsFiniteSet(U) /\ Cardinality(U) \in Nat
      /\ MaxOrderCents \in Nat /\ Window.orders \in Nat /\ Window.notional \in Nat
      /\ A \subseteq Orders /\ U \subseteq Pending
  BY <1>1, CoverTypes, FS_CardinalityType DEF CoveredBy, Trackers, AcceptedToday
<1>3. /\ \A x \in Orders : Booked[x] \in Nat /\ Booked[x] <= MaxOrderCents
      /\ \A x \in Pending : Owed[x] \in Nat /\ Owed[x] <= MaxOrderCents
  BY CoverTypes
<1>4. /\ IsFiniteSet(A \cup {o}) /\ Cardinality(A \cup {o}) = Cardinality(A) + 1
      /\ Cardinality(U \cup {c}) = Cardinality(U) + 1
  BY <1>1, <1>2, FS_AddElement
<1>5. Cardinality(Units(U \cup {c}, Owed)) = Cardinality(Units(U, Owed)) + Owed[c]
  <2>1. \A x \in U \cup {c} : Owed[x] \in Nat /\ Owed[x] <= MaxOrderCents
    BY <1>2, <1>3
  <2> QED  BY <1>1, <1>2, <2>1, UnitsAdd
<1>6. Cardinality(Units(A \cup {o}, Booked')) = Cardinality(Units(A, Booked)) + Owed[c]
  <2>1. \A x \in A : Booked'[x] = Booked[x]
    BY <1>1, <1>2
  <2>2. Units(A, Booked') = Units(A, Booked)
    BY <2>1, UnitsSame
  <2>3. \A x \in A \cup {o} : Booked'[x] \in Nat /\ Booked'[x] <= MaxOrderCents
    BY <1>2, <1>3, <2>1
  <2>4. Cardinality(Units(A \cup {o}, Booked')) = Cardinality(Units(A, Booked')) + Booked'[o]
    BY <1>1, <1>2, <2>3, UnitsAdd
  <2> QED  BY <2>2, <2>4
<1>7. /\ Cardinality(Units(A, Booked)) \in Nat /\ Cardinality(Units(U, Owed)) \in Nat
      /\ Owed[c] \in Nat
  <2>1. /\ \A x \in A : Booked[x] \in Nat /\ Booked[x] <= MaxOrderCents
        /\ \A x \in U : Owed[x] \in Nat /\ Owed[x] <= MaxOrderCents
    BY <1>2, <1>3
  <2> QED  BY <1>2, <1>3, <2>1, UnitsFinite
<1> QED  BY <1>1, <1>2, <1>4, <1>5, <1>6, <1>7 DEF CoveredBy

-----------------------------------------------------------------------------
(* Only a recheck can overlook an order, and it does not when the order is *)
(* there and on the page it reads: what landed is seen or the query fails  *)
(* (findOrderByClientID).                                                  *)
LEMMA NothingOverlooked ==
    ASSUME AllRecorded, TypeOK, OutcomeInv, CoverInv, NEW c \in Calls, Step(c)
    PROVE  \A d \in Calls : landed'[d] => ~Overlooked(d)'
<1>1. /\ exchange' = exchange /\ landed' = landed /\ calls[c].pc # "idle"
      /\ \A d \in Calls \ {c} : calls'[d] = calls[d]
  BY StepIsLocal
<1>2. \A d \in Calls \ {c} : landed'[d] => ~Overlooked(d)'
  BY <1>1 DEF CoverInv, Overlooked
<1>3. landed[c] => ~Overlooked(c)'
  <2>1. CASE Recheck(c)
    <3>1. /\ calls'[c].seen \in {"failed", exchange[calls[c].order].status}
          /\ calls'[c].kind = calls[c].kind
      BY <2>1, RecheckSees DEF SameRequest, AllRecorded
    <3>2. landed[c] /\ calls[c].kind = "place" => exchange[calls[c].order].status # "none"
      BY <1>1 DEF OutcomeInv, GoodOutcome, Took
    <3> QED  BY <3>1, <3>2 DEF Overlooked
  <2>2. CASE Return(c)
    BY <2>2 DEF Return, Overlooked, Idle, TypeOK
  <2>3. CASE ~Recheck(c) /\ ~Return(c)
    <3>1. \/ \E result : Finish(c, result)
          \/ \E label : Goto(c, label) /\ label # "conclude"
      BY <2>3 DEF Step, Gate, Interlock, RiskCheck, StateGate, Submit, Answered,
                  Unreachable, ConcludePlace, ConcludeAmend, ConcludeCancel
    <3>2. calls'[c].pc # "conclude"
      BY <1>1, <3>1, CallMoves
    <3> QED  BY <3>2 DEF Overlooked
  <2> QED  BY <2>1, <2>2, <2>3
<1> QED  BY <1>1, <1>2, <1>3

(* What a step of a goroutine leaves of the unrecorded calls.              *)
LEMMA UnrecordedMoves ==
    ASSUME NEW c \in Calls, landed' = landed,
           \A d \in Calls \ {c} : calls'[d] = calls[d]
    PROVE  /\ \/ ~landed[c]
              \/ c \notin Pending /\ c \notin Pending'
              \/ SameRequest(c) /\ c \in Pending /\ c \in Pending'
             => Unrecorded' = Unrecorded /\ \A d \in Unrecorded : Owed'[d] = Owed[d]
           /\ c \notin Pending' => Unrecorded' = Unrecorded \ {c}
           /\ SameRequest(c) => \A d \in Calls : Owed'[d] = Owed[d]
<1>1. \A d \in Calls \ {c} : d \in Unrecorded' <=> d \in Unrecorded
  BY DEF Unrecorded, Pending
<1>2. Unrecorded \subseteq Calls /\ Unrecorded' \subseteq Calls
  BY DEF Unrecorded, Pending
<1>3. c \in Unrecorded <=> c \in Pending /\ landed[c]
  BY DEF Unrecorded
<1>4. c \in Unrecorded' <=> c \in Pending' /\ landed[c]
  BY DEF Unrecorded
<1>5. \A d \in Calls \ {c} : Owed'[d] = Owed[d]
  BY DEF Owed
<1>6. SameRequest(c) => Owed'[c] = Owed[c]
  BY DEF Owed, SameRequest
<1> QED  BY <1>1, <1>2, <1>3, <1>4, <1>5, <1>6

(* A goroutine's own step: what it takes out of the unrecorded calls it    *)
(* records, unless it never landed (Client.do, reconciliation).            *)
LEMMA StepKeepsCover ==
    ASSUME AllRecorded, TypeOK, WireInv, OutcomeInv, Account, OrderCapHolds, CoverInv,
           NEW c \in Calls, Step(c)
    PROVE  CoverInv'
<1>1. /\ exchange' = exchange /\ landed' = landed /\ calls[c].pc # "idle"
      /\ \A d \in Calls \ {c} : calls'[d] = calls[d]
  BY StepIsLocal
<1>2. today' = today /\ late' = late
  BY DEF AllRecorded, Step, Gate, Interlock, RiskCheck, StateGate, Submit, Answered,
         Unreachable, Recheck, ConcludePlace, ConcludeAmend, ConcludeCancel, Return,
         Exchange, Network
<1>3. AcceptedToday' = AcceptedToday /\ Booked' = Booked
  BY <1>1, <1>2 DEF AcceptedToday, Booked
<1> DEFINE Covers == CoveredBy(AcceptedToday, Unrecorded, Window, Booked, Owed)
<1>4. Covers /\ tracker \in Trackers /\ today \in Nat
  BY CoverTypes DEF CoverInv
<1>5. ASSUME tracker' = tracker \/ tracker' = RollDay(tracker, today),
             \/ ~landed[c]
             \/ c \notin Pending /\ c \notin Pending'
             \/ SameRequest(c) /\ c \in Pending /\ c \in Pending'
      PROVE  Covers'
  <2>1. Unrecorded' = Unrecorded /\ \A d \in Unrecorded : Owed'[d] = Owed[d]
    BY <1>1, <1>5, UnrecordedMoves
  <2>2. Window' = Window
    BY <1>2, <1>4, <1>5, WindowMoves
  <2> QED  BY <1>3, <1>4, <2>1, <2>2, CoverStays
<1>6. ASSUME tracker' = Record(tracker, today, calls[c].cents), SameRequest(c),
             c \in Pending, c \notin Pending'
      PROVE  Covers'
  <2>1. Unrecorded' = Unrecorded \ {c} /\ \A d \in Calls : Owed'[d] = Owed[d]
    BY <1>1, <1>6, UnrecordedMoves
  <2>2. Owed[c] = calls[c].cents
    BY DEF Owed
  <2> QED  BY <1>2, <1>3, <1>4, <1>6, <2>1, <2>2, RecordCovers
<1>7. /\ \A label : Goto(c, label) => calls'[c].pc = label /\ SameRequest(c)
      /\ \A result : Finish(c, result) =>
           SameRequest(c) /\ c \notin Pending'
  BY <1>1, CallMoves DEF Pending, Unaccountable
<1>8. c \in Pending <=> calls[c].pc \notin Unaccountable /\ calls[c].kind # "cancel"
  BY DEF Pending
<1>9. c \in Pending' <=> calls'[c].pc \notin Unaccountable /\ calls'[c].kind # "cancel"
  BY DEF Pending
<1> SUFFICES Covers'
  BY <1>1, <1>2, NothingOverlooked DEF CoverInv
<1> HIDE DEF Covers
<1>a. CASE Gate(c) \/ Interlock(c) \/ RiskCheck(c) \/ StateGate(c) \/ Submit(c)
  <2>1. ~landed[c]
    BY <1>a DEF Gate, Interlock, RiskCheck, StateGate, Submit, At, OutcomeInv, GoodOutcome,
                Before
  <2>2. tracker' = tracker \/ tracker' = RollDay(tracker, today)
    BY <1>a DEF Gate, Interlock, RiskCheck, StateGate, Submit
  <2> QED  BY <1>5, <2>1, <2>2
<1>b. CASE Answered(c)
  <2>1. calls[c].pc = "wait" /\ wire[c] \in Answers
    BY <1>b DEF Answered, At
  <2>2. CASE wire[c] = "ok"
    <3>1. Finish(c, "ok")
      BY <1>b, <2>2 DEF Answered
    <3>2. CASE calls[c].kind = "cancel"
      BY <1>5, <1>7, <1>8, <1>b, <2>2, <3>1, <3>2 DEF Answered
    <3>3. CASE calls[c].kind # "cancel"
      <4>1. tracker' = Record(tracker, today, calls[c].cents) /\ c \in Pending
        BY <1>8, <1>b, <2>1, <2>2, <3>3 DEF Answered, Unaccountable
      <4> QED  BY <1>6, <1>7, <3>1, <4>1
    <3> QED  BY <3>2, <3>3
  <2>3. CASE wire[c] # "ok"
    <3>1. ~landed[c] /\ tracker' = tracker
      BY <1>b, <2>1, <2>3 DEF Answered, Answers, OutcomeInv, GoodOutcome, AllRecorded
    <3> QED  BY <1>5, <3>1
  <2> QED  BY <2>2, <2>3
<1>c. CASE Unreachable(c)
  <2>1. /\ calls[c].pc = "wait" /\ calls'[c].pc = "recheck" /\ SameRequest(c)
        /\ tracker' = tracker
    BY <1>7, <1>c DEF Unreachable, At
  <2> QED  BY <1>5, <1>8, <1>9, <2>1 DEF Unaccountable, SameRequest
<1>d. CASE Recheck(c)
  <2>1. /\ calls[c].pc = "recheck" /\ calls'[c].pc = "conclude" /\ SameRequest(c)
        /\ tracker' = tracker
    BY <1>d, RecheckSees DEF Recheck, At
  <2> QED  BY <1>5, <1>8, <1>9, <2>1 DEF Unaccountable, SameRequest
<1>e. CASE ConcludePlace(c)
  <2>1. /\ calls[c].pc = "conclude" /\ calls[c].kind = "place"
        /\ \E result : Finish(c, result)
    BY <1>e DEF ConcludePlace, At
  <2>2. CASE calls[c].seen = "none"
    <3>1. ~landed[c] /\ tracker' = tracker
      BY <1>e, <2>1, <2>2 DEF ConcludePlace, CoverInv, Overlooked
    <3> QED  BY <1>5, <3>1
  <2>3. CASE calls[c].seen # "none"
    <3>1. tracker' = Record(tracker, today, calls[c].cents) /\ c \in Pending
      BY <1>8, <1>e, <2>1, <2>3 DEF ConcludePlace, Unaccountable
    <3> QED  BY <1>6, <1>7, <2>1, <3>1
  <2> QED  BY <2>2, <2>3
<1>f. CASE ConcludeAmend(c) \/ ConcludeCancel(c)
  <2>1. calls[c].kind # "amend"
    BY <1>1, CallTypes DEF AllRecorded, ActiveCalls
  <2>2. c \notin Pending /\ c \notin Pending' /\ tracker' = tracker
    BY <1>7, <1>8, <1>f, <2>1 DEF ConcludeAmend, ConcludeCancel
  <2> QED  BY <1>5, <2>2
<1>g. CASE Return(c)
  <2>1. c \notin Pending /\ c \notin Pending' /\ tracker' = tracker
    BY <1>8, <1>9, <1>g DEF Return, At, Idle, Unaccountable, TypeOK
  <2> QED  BY <1>5, <2>1
<1> QED  BY <1>a, <1>b, <1>c, <1>d, <1>e, <1>f, <1>g DEF Step

(* An accepted place is one more order of today, and one more call whose   *)
(* order the tracker does not know yet; an accepted cancel is neither.     *)
LEMMA AcceptKeepsCover ==
    ASSUME AllRecorded, TypeOK, WireInv, OutcomeInv, Account, OrderCapHolds, CoverInv,
           NEW c \in Calls, ExchangeAccepts(c)
    PROVE  CoverInv'
<1>1. /\ calls[c].pc = "wait" /\ ~landed[c] /\ calls' = calls
      /\ landed' = [landed EXCEPT ![c] = TRUE]
      /\ today' = today /\ tracker' = tracker /\ late' = late
  BY DEF ExchangeAccepts, WireInv, OutcomeInv, GoodOutcome
<1>2. calls[c] \in ActiveCalls
  BY <1>1, CallTypes
<1>3. PICK o \in Orders : o = calls[c].order
  BY <1>2 DEF ActiveCalls
<1>4. calls[c].kind \in {"place", "cancel"}
  BY <1>2, LiveAssumption DEF ActiveCalls, AllRecorded
<1>5. PICK record \in AfterWrite(calls[c]) : exchange' = [exchange EXCEPT ![o] = record]
  BY <1>3 DEF ExchangeAccepts
<1>6. exchange'[o] = record /\ \A x \in Orders \ {o} : exchange'[x] = exchange[x]
  BY <1>5 DEF TypeOK
<1>7. /\ CoveredBy(AcceptedToday, Unrecorded, Window, Booked, Owed)
      /\ Window' = Window /\ Owed' = Owed /\ Pending' = Pending
      /\ \A x \in Orders \ {o} : Booked'[x] = Booked[x]
      /\ \A x \in Orders \ {o} : x \in AcceptedToday' <=> x \in AcceptedToday
      /\ AcceptedToday \subseteq Orders /\ AcceptedToday' \subseteq Orders
  BY <1>1, <1>6 DEF CoverInv, Window, Owed, Pending, Booked, AcceptedToday
<1>8. \A d \in Calls : landed'[d] => ~Overlooked(d)'
  BY <1>1 DEF CoverInv, Overlooked, TypeOK
<1>9. CASE calls[c].kind = "place"
  <2>1. exchange[o].status = "none"
    BY <1>3, <1>9 DEF ExchangeAccepts, Applicable
  <2>2. /\ record.status # "none" /\ record.cents = calls[c].cents /\ record.day = today
    BY <1>5, <1>9 DEF AfterWrite
  <2>3. o \notin AcceptedToday /\ AcceptedToday' = AcceptedToday \cup {o}
    BY <1>1, <1>6, <1>7, <2>1, <2>2 DEF AcceptedToday
  <2>4. Booked'[o] = Owed[c]
    BY <1>6, <2>2 DEF Booked, Owed
  <2>5. c \in Pending /\ c \notin Unrecorded
    BY <1>1, <1>9 DEF Pending, Unrecorded, Unaccountable
  <2>6. Unrecorded' = Unrecorded \cup {c}
    BY <1>1, <1>7, <2>5 DEF Unrecorded, Pending, TypeOK
  <2>7. CoveredBy(AcceptedToday, Unrecorded, Window, Booked, Owed)'
    BY <1>7, <2>3, <2>4, <2>5, <2>6, AcceptCovers
  <2>8. \A x \in Orders : exchange'[x].status # "none" => exchange'[x].day <= today'
    BY <1>1, <1>6, <2>2, CoverTypes DEF CoverInv
  <2> QED  BY <1>1, <1>8, <2>7, <2>8 DEF CoverInv
<1>10. CASE calls[c].kind = "cancel"
  <2>1. record = [exchange[o] EXCEPT !.status = "canceled"]
    BY <1>3, <1>5, <1>10 DEF AfterWrite
  <2>2. /\ record.status = "canceled" /\ record.cents = exchange[o].cents
        /\ record.day = exchange[o].day
    BY <2>1 DEF TypeOK
  <2>3. exchange[o].status = "resting"
    BY <1>3, <1>10 DEF ExchangeAccepts, Applicable
  <2>4. AcceptedToday' = AcceptedToday /\ \A x \in AcceptedToday : Booked'[x] = Booked[x]
    BY <1>1, <1>6, <1>7, <2>2, <2>3 DEF AcceptedToday, Booked
  <2>5. Unrecorded' = Unrecorded
    BY <1>1, <1>7, <1>10 DEF Unrecorded, Pending, TypeOK
  <2>6. CoveredBy(AcceptedToday, Unrecorded, Window, Booked, Owed)'
    BY <1>7, <2>4, <2>5, CoverStays
  <2>7. \A x \in Orders : exchange'[x].status # "none" => exchange'[x].day <= today'
    BY <1>1, <1>6, <2>2, <2>3 DEF CoverInv
  <2> QED  BY <1>1, <1>8, <2>6, <2>7 DEF CoverInv
<1> QED  BY <1>4, <1>9, <1>10

(* A new call, a refusal, an order that ends, arming and the clock: what   *)
(* was accepted yesterday is not of today, and nothing else changes.       *)
LEMMA OthersKeepCover ==
    ASSUME AllRecorded, TypeOK, WireInv, Account, OrderCapHolds, CoverInv
    PROVE  /\ \A c \in Calls, k \in Kinds, o \in Orders, n \in Cents :
                Begin(c, k, o, n) => CoverInv'
           /\ \A c \in Calls : ExchangeRefuses(c) => CoverInv'
           /\ \A w \in late : LateArrival(w) => CoverInv'
           /\ \A o \in Orders : OrderEnds(o) => CoverInv'
           /\ Arm \/ Disarm \/ Midnight \/ Restart \/ UNCHANGED vars => CoverInv'
<1> DEFINE Covers == CoveredBy(AcceptedToday, Unrecorded, Window, Booked, Owed)
<1>1. Covers /\ tracker \in Trackers /\ today \in Nat
  BY CoverTypes DEF CoverInv
<1>2. ASSUME UNCHANGED <<calls, landed, late, exchange, today>>,
             tracker' = tracker \/ tracker' = RollDay(tracker, today)
      PROVE  CoverInv'
  <2>1. Window' = Window
    BY <1>1, <1>2, WindowMoves
  <2>2. /\ AcceptedToday' = AcceptedToday /\ Unrecorded' = Unrecorded
        /\ Booked' = Booked /\ Owed' = Owed
    BY <1>2 DEF AcceptedToday, Unrecorded, Pending, Booked, Owed
  <2>3. Covers'
    BY <1>1, <2>1, <2>2, CoverStays
  <2> QED  BY <1>2, <2>3 DEF CoverInv, Overlooked
<1>3. ASSUME NEW c \in Calls, NEW k \in Kinds, NEW o \in Orders, NEW n \in Cents,
             Begin(c, k, o, n)
      PROVE  CoverInv'
  <2>1. /\ calls[c].pc = "idle" /\ ~landed'[c]
        /\ \A d \in Calls \ {c} : calls'[d] = calls[d] /\ landed'[d] = landed[d]
        /\ UNCHANGED <<tracker, late, exchange, today>>
    BY <1>3 DEF Begin, At, Exchange, TypeOK
  <2>2. /\ Unrecorded' = Unrecorded /\ \A d \in Unrecorded : Owed'[d] = Owed[d]
    BY <2>1 DEF Unrecorded, Pending, Unaccountable, Owed
  <2>3. AcceptedToday' = AcceptedToday /\ Booked' = Booked /\ Window' = Window
    BY <2>1 DEF AcceptedToday, Booked, Window
  <2>4. Covers'
    BY <1>1, <2>2, <2>3, CoverStays
  <2>5. \A d \in Calls : landed'[d] => ~Overlooked(d)'
    BY <2>1 DEF CoverInv, Overlooked
  <2> QED  BY <2>1, <2>4, <2>5 DEF CoverInv
<1>4. ASSUME NEW o \in Orders, OrderEnds(o)
      PROVE  CoverInv'
  <2>1. PICK status \in {"executed", "canceled"} :
             exchange' = [exchange EXCEPT ![o].status = status]
    BY <1>4 DEF OrderEnds
  <2>2. /\ exchange'[o].status = status /\ exchange[o].status # "none"
        /\ exchange'[o].cents = exchange[o].cents /\ exchange'[o].day = exchange[o].day
        /\ \A x \in Orders \ {o} : exchange'[x] = exchange[x]
        /\ UNCHANGED <<tracker, today, calls, landed, late>>
    BY <1>4, <2>1 DEF OrderEnds, TypeOK, Network
  <2>3. /\ AcceptedToday' = AcceptedToday /\ Unrecorded' = Unrecorded
        /\ \A x \in AcceptedToday : Booked'[x] = Booked[x]
        /\ Owed' = Owed /\ Window' = Window
    BY <2>2 DEF AcceptedToday, Unrecorded, Pending, Booked, Owed, Window
  <2>4. Covers'
    BY <1>1, <2>3, CoverStays
  <2>5. \A x \in Orders : exchange'[x].status # "none" => exchange'[x].day <= today'
    BY <2>2 DEF CoverInv
  <2> QED  BY <2>2, <2>4, <2>5 DEF CoverInv, Overlooked
<1>5. ASSUME Midnight
      PROVE  CoverInv'
  <2>1. today' = today + 1 /\ UNCHANGED <<tracker, calls, landed, late, exchange>>
    BY <1>5 DEF Midnight, Network
  <2>2. \A x \in Orders : exchange'[x].status # "none" =>
           exchange'[x].day <= today' /\ exchange'[x].day # today'
    BY <1>1, <2>1 DEF CoverInv, TypeOK
  <2>3. AcceptedToday' = {}
    BY <2>2 DEF AcceptedToday
  <2>4. Unrecorded' = Unrecorded /\ Owed' = Owed /\ Window' \in Trackers
    BY <1>1, <2>1, TrackerTypes DEF Unrecorded, Pending, Owed, Window
  <2>5. Cardinality(Unrecorded) \in Nat /\ Cardinality(Units(Unrecorded, Owed)) \in Nat
    BY CoverTypes, UnitsFinite
  <2>6. IsFiniteSet({}) /\ Cardinality({}) = 0 /\ Cardinality(Units({}, Booked')) = 0
    BY FS_EmptySet DEF Units
  <2>7. Covers'
    BY <2>3, <2>4, <2>5, <2>6 DEF CoveredBy, Trackers
  <2> QED  BY <2>1, <2>2, <2>7 DEF CoverInv, Overlooked
<1> HIDE DEF Covers, CoverInv
<1>6. \A c \in Calls : ExchangeRefuses(c) => CoverInv'
  BY <1>2 DEF ExchangeRefuses, Exchange
<1>7. \A w \in late : LateArrival(w) => CoverInv'
  BY DEF CoverInv
<1>8. Arm \/ Disarm \/ UNCHANGED vars => CoverInv'
  BY <1>2 DEF Arm, Disarm, Network, Exchange, vars
<1>9. ~Restart
  BY DEF Restart, AllRecorded
<1> QED  BY <1>3, <1>4, <1>5, <1>6, <1>7, <1>8, <1>9

(* The tracker covers the exchange in every state.                         *)
LEMMA CoverInvariant == AllRecorded => (Spec => []CoverInv)
<1> SUFFICES ASSUME AllRecorded PROVE Spec => []CoverInv
  OBVIOUS
<1>1. Init => CoverInv
  <2> SUFFICES ASSUME Init PROVE CoverInv
    OBVIOUS
  <2>1. late = {} /\ \A o \in Orders : exchange[o].status = "none"
    BY DEF Init, NoOrder
  <2>2. \A c \in Calls : ~landed[c]
    BY DEF Init
  <2>3. AcceptedToday = {} /\ Unrecorded = {}
    BY <2>1, <2>2 DEF AcceptedToday, Unrecorded, Pending
  <2>4. /\ IsFiniteSet({}) /\ Cardinality({}) = 0
        /\ Cardinality(Units({}, Booked)) = 0 /\ Cardinality(Units({}, Owed)) = 0
    BY FS_EmptySet DEF Units
  <2>5. Window.orders = 0 /\ Window.notional = 0
    BY DEF Init, Window, RollDay, NewRiskTracker
  <2> QED  BY <2>1, <2>2, <2>3, <2>4, <2>5 DEF CoverInv, CoveredBy
<1>2. TypeOK /\ WireInv /\ OutcomeInv /\ Account /\ OrderCapHolds /\ CoverInv /\ [Next]_vars
        => CoverInv'
  BY StepKeepsCover, AcceptKeepsCover, OthersKeepCover DEF Next
<1> QED  BY <1>1, <1>2, TypeCorrect, OutcomeInvariant, AccountInvariant, OrderCapKept, PTL
         DEF Spec

(* Nothing the exchange accepted today is missing from both the tracker    *)
(* and the calls in flight, for any number of goroutines and orders, while *)
(* answers are lost and days end (RiskTracker.record, reconciliation).     *)
THEOREM ExchangeIsCovered ==
    Faults = {} /\ "amend" \notin Kinds => (Spec => []TrackerCoversExchange)
<1> SUFFICES ASSUME AllRecorded PROVE Spec => []TrackerCoversExchange
  BY DEF AllRecorded
<1>1. CoverInv => TrackerCoversExchange
  <2> SUFFICES ASSUME CoverInv PROVE TrackerCoversExchange
    OBVIOUS
  <2>1. AcceptedCents = Cardinality(Units(AcceptedToday, Booked))
    BY TotalCounts DEF AcceptedCents, Booked, AcceptedToday
  <2>2. Total([c \in Unrecorded |-> calls[c].cents]) = Cardinality(Units(Unrecorded, Owed))
    BY TotalCounts DEF Owed, Unrecorded, Pending
  <2> QED  BY <2>1, <2>2 DEF CoverInv, CoveredBy, TrackerCoversExchange, Window
<1> QED  BY <1>1, CoverInvariant, PTL

(* What the exchange accepts in a day stays within the daily caps but for  *)
(* one order for each goroutine but one, for every value of the caps.      *)
THEOREM AcceptedOverrunBounded ==
    Faults = {} /\ "amend" \notin Kinds => (Spec => []AcceptedOverrunIsBounded)
<1> SUFFICES ASSUME AllRecorded PROVE Spec => []AcceptedOverrunIsBounded
  BY DEF AllRecorded
<1>1. TypeOK /\ Account /\ OrderCapHolds /\ CoverInv => AcceptedOverrunIsBounded
  <2> SUFFICES ASSUME TypeOK, Account, OrderCapHolds, CoverInv
               PROVE  AcceptedOverrunIsBounded
    OBVIOUS
  <2>1. PICK P, U : P = Pending /\ U = Unrecorded
    OBVIOUS
  <2>2. /\ IsFiniteSet(P) /\ IsFiniteSet(U) /\ P \in SUBSET Calls /\ U \in SUBSET P
        /\ \A c \in P : Owed[c] \in Nat /\ Owed[c] <= MaxOrderCents
        /\ MaxOrderCents \in Nat /\ Window.orders \in Nat /\ Window.notional \in Nat
    BY <2>1, CoverTypes DEF Trackers
  <2>3. Accounted(P, Window, Owed)
    BY <2>1, <2>2, CoverTypes, RollKeepsAccount DEF Account, Window
  <2>4. /\ Cardinality(P) \in Nat /\ Cardinality(U) \in Nat
        /\ Cardinality(U) <= Cardinality(P) /\ N \in Nat \ {0} /\ Ceiling \in Nat
    BY <2>2, FS_CardinalityType, FS_Subset, PendingCount
  <2>5. /\ Cardinality(Units(U, Owed)) \in Nat /\ Cardinality(Units(P, Owed)) \in Nat
        /\ Cardinality(Units(U, Owed)) <= Cardinality(Units(P, Owed))
    <3>1. \A c \in U : Owed[c] \in Nat /\ Owed[c] <= MaxOrderCents
      BY <2>2
    <3> QED  BY <2>2, <3>1, UnitsFinite, UnitsFewer
  <2>6. Window.notional + Cardinality(Units(P, Owed)) <= Ceiling
    <3>1. CASE P = {}
      <4>1. Cardinality(Units({}, Owed)) = 0
        BY FS_EmptySet DEF Units
      <4> QED  BY <2>2, <2>3, <3>1, <4>1 DEF Accounted
    <3>2. CASE P # {}
      <4>1. PICK c \in P :
              Window.notional + Owed[c] + (Cardinality(P) - 1) * MaxOrderCents <= Ceiling
        BY <2>3, <3>2 DEF Accounted
      <4>2. /\ IsFiniteSet(P \ {c}) /\ Cardinality(P \ {c}) = Cardinality(P) - 1
            /\ Cardinality(P) - 1 \in Nat
        <5>1. Cardinality(P) # 0
          BY <2>2, <3>2, PendingCount
        <5> QED  BY <2>2, <2>4, <5>1, FS_RemoveElement
      <4>3. Cardinality(Units(P, Owed)) = Cardinality(Units(P \ {c}, Owed)) + Owed[c]
        BY <2>2, UnitsRemove
      <4>4. /\ Cardinality(Units(P \ {c}, Owed)) <= Cardinality(P \ {c}) * MaxOrderCents
            /\ Cardinality(Units(P \ {c}, Owed)) \in Nat
        BY <2>2, <4>2, UnitsFinite
      <4>5. PICK k \in Nat : k = Cardinality(P) - 1
        BY <4>2
      <4>6. k * MaxOrderCents \in Nat
        BY <4>5, Multiples
      <4> QED  BY <2>2, <2>4, <4>1, <4>2, <4>3, <4>4, <4>5, <4>6
    <3> QED  BY <3>1, <3>2
  <2>7. Cardinality(AcceptedToday) \in Nat /\ Cardinality(Units(AcceptedToday, Booked)) \in Nat
    <3>1. \A x \in AcceptedToday : Booked[x] \in Nat /\ Booked[x] <= MaxOrderCents
      BY CoverTypes DEF AcceptedToday
    <3> QED  BY <2>2, <3>1, UnitsFinite, FS_CardinalityType DEF CoverInv, CoveredBy
  <2>8. AcceptedCents = Cardinality(Units(AcceptedToday, Booked))
    BY TotalCounts DEF AcceptedCents, Booked, AcceptedToday
  <2>9. Cardinality(AcceptedToday) <= MaxDailyOrders + N - 1
    BY <2>1, <2>2, <2>3, <2>4, <2>7, CapsAssumption DEF CoverInv, CoveredBy, Accounted
  <2>10. AcceptedCents <= Ceiling
    BY <2>1, <2>2, <2>4, <2>5, <2>6, <2>7, <2>8 DEF CoverInv, CoveredBy
  <2> QED  BY <2>9, <2>10 DEF AcceptedOverrunIsBounded, N, Ceiling
<1> QED  BY <1>1, CoverInvariant, TypeCorrect, AccountInvariant, OrderCapKept, PTL
=============================================================================
