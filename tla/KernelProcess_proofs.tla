----------------------- MODULE KernelProcess_proofs -----------------------
(***************************************************************************)
(* Theorems about KernelProcess, for any number of goroutines and any caps.*)
(*                                                                         *)
(* Consent is carried by an invariant of the call's place: what a call has *)
(* passed.  That one tracker knows all needs a second layer, about agents  *)
(* that wait for arm_live_trading: while arming is under way nothing else  *)
(* is, and an armed process without a tracker is one whose arming call is  *)
(* still to build it.                                                      *)
(*                                                                         *)
(* How much trackers that replace each other record in all needs a third:  *)
(* RankInv gives each tracker a rank, which bounds the calls that can work *)
(* with it at once, and so what it records beyond its own cap.             *)
(***************************************************************************)
EXTENDS KernelProcess, FiniteSetTheorems, TLAPS

WithTracker == {"publish", "reread", "interlock", "risk", "sent"}

PastGate == {"credentials", "tracker"} \cup WithTracker

(* Which tools reach which place, and in which processes.                  *)
PlaceInv == \A c \in Calls :
    /\ ~At(c, "idle") => config # NoConfig
    /\ calls[c].pc \notin {"idle", "dispatch"} => config.mode = "live"
    /\ calls[c].pc \in {"gate", "risk"} => Is(c, {"place"})
    /\ calls[c].pc = "arm" => Is(c, Arming)
    /\ calls[c].pc \in {"credentials", "sent"} => Is(c, {"place", "read"})
    /\ calls[c].pc \in {"tracker", "publish", "reread", "interlock"} => ~Is(c, {"read"})

(* What the operator and the agent have agreed to.                         *)
ConsentInv ==
    /\ config # NoConfig => config = Load(env)
    /\ keyUsers # {} => config # NoConfig /\ config.mode = "live"
    /\ "place" \in keyUsers => agreed
    /\ armed => agreed /\ config # NoConfig
    /\ \A c \in Calls :
         /\ ~At(c, "idle") /\ Is(c, {"arm"}) /\ calls[c].literal => agreed
         /\ calls[c].pc \in PastGate /\ Is(c, {"place"}) => agreed

(* A call works with a tracker.                                            *)
Uses(c) == calls[c].pc \in {"interlock", "risk"} \/ (At(c, "sent") /\ Is(c, {"place"}))

TrackerInv ==
    /\ tracker # NoTracker => env.limits = "usable" /\ config # NoConfig
    /\ \A c \in Calls :
         /\ calls[c].pc \in {"publish", "reread"} \/ Uses(c) => env.limits = "usable"
         /\ At(c, "reread") => tracker # NoTracker
         /\ Uses(c) => calls[c].held \in Calls

Inv == TypeOK /\ PlaceInv /\ ConsentInv /\ TrackerInv

(* What arming, awaited, leaves behind.                                    *)
AloneInv == armsAlone =>
    /\ \A c, d \in Calls : Is(c, Arming) /\ ~At(c, "idle") /\ d # c => At(d, "idle")
    /\ armed /\ tracker = NoTracker /\ env.limits = "usable" =>
         \E c \in Calls : Is(c, Arming) /\ calls[c].pc \in {"tracker", "publish"}
    /\ \A c \in Calls :
         /\ Is(c, {"place"}) /\ calls[c].pc \in PastGate /\ env.limits = "usable" =>
              tracker # NoTracker
         /\ At(c, "publish") => Is(c, Arming) /\ tracker = NoTracker
         /\ Uses(c) => calls[c].held = tracker
         /\ c # tracker => trackers[c].orders = 0

-----------------------------------------------------------------------------
(* Pure functions.                                                         *)

(* The risk tracker's operators keep its type.                             *)
LEMMA TrackerTypes ==
    ASSUME NEW t \in Trackers
    PROVE  /\ NewRiskTracker \in Trackers
           /\ RollDay(t, Today) \in Trackers
           /\ Record(t, Today, OrderCents) \in Trackers
<1>1. NewRiskTracker \in Trackers
  BY DEF NewRiskTracker, Trackers
<1>2. RollDay(t, Today) \in Trackers
  BY DEF RollDay, Trackers, Today
<1>3. Record(t, Today, OrderCents) \in Trackers
  <2> DEFINE w == RollDay(t, Today)
  <2>1. OrderCents \in Nat
    BY ProcessAssumption DEF ProcessAssumption
  <2>2. w \in Trackers
    BY <1>2
  <2> HIDE DEF w
  <2>3. w.orders + 1 \in Nat /\ w.notional + OrderCents \in Nat
    BY <2>1, <2>2 DEF Trackers
  <2>4. QED
    BY <2>2, <2>3 DEF Record, Trackers, w
<1>4. QED
  BY <1>1, <1>2, <1>3

(* config.load gives a configuration or none, and a live one only with     *)
(* consent.                                                                *)
LEMMA LoadConfigures ==
    ASSUME NEW e \in Environments
    PROVE  /\ Load(e) \in Configs \cup {NoConfig}
           /\ Load(e) # NoConfig /\ Load(e).mode = "live" => Consented(e)
<1>1. e.id \in {"", "key id"} /\ e.path \in {"", "key path"}
  BY DEF Environments
<1>2. CASE Mode(e) = "paper"
  BY <1>2 DEF Load, Paper, Configs
<1>3. CASE Mode(e) # "paper"
  BY <1>1, <1>3 DEF Load, Mode, Configs, Consented
<1>4. QED
  BY <1>2, <1>3

(* Rolling the day of a tracker counted today or never used loses nothing. *)
LEMMA RollKeepsNone ==
    ASSUME NEW t \in Trackers, t.orders = 0
    PROVE  RollDay(t, Today).orders = 0
  BY DEF RollDay, Trackers

-----------------------------------------------------------------------------
(* What moving, ending and giving a tracker do to the calls.               *)

(* Going on changes the label of one call.                                 *)
LEMMA GotoMoves ==
    ASSUME TypeOK, NEW c \in Calls, NEW label \in Pcs, Goto(c, label)
    PROVE  /\ calls' \in [Calls -> CallRecords]
           /\ calls'[c].pc = label /\ calls'[c].kind = calls[c].kind
           /\ calls'[c].literal = calls[c].literal /\ calls'[c].held = calls[c].held
           /\ \A d \in Calls : d # c => calls'[d] = calls[d]
  BY DEF TypeOK, CallRecords, Goto

(* A call that finishes leaves its goroutine idle.                         *)
LEMMA FinishEnds ==
    ASSUME TypeOK, NEW c \in Calls, Finish(c)
    PROVE  /\ calls' \in [Calls -> CallRecords]
           /\ calls'[c] = NoCall /\ calls'[c].pc = "idle"
           /\ \A d \in Calls : d # c => calls'[d] = calls[d]
  BY DEF TypeOK, CallRecords, Finish, NoCall, Pcs, Kinds

(* A call takes the tracker of the handler.                                *)
LEMMA TakeTrackerHolds ==
    ASSUME TypeOK, NEW c \in Calls, TakeTracker(c)
    PROVE  /\ calls' \in [Calls -> CallRecords]
           /\ calls'[c].pc = "interlock" /\ calls'[c].kind = calls[c].kind
           /\ calls'[c].literal = calls[c].literal /\ calls'[c].held = tracker
           /\ \A d \in Calls : d # c => calls'[d] = calls[d]
  BY DEF TypeOK, CallRecords, TakeTracker, Pcs

(* A call begins with its dispatch and holds nothing.                      *)
LEMMA BeginCalls ==
    ASSUME TypeOK, NEW c \in Calls, NEW k \in Kinds, NEW literal \in BOOLEAN,
           Begin(c, k, literal)
    PROVE  /\ calls' \in [Calls -> CallRecords]
           /\ calls'[c].pc = "dispatch" /\ calls'[c].kind = k /\ calls'[c].literal = literal
           /\ \A d \in Calls : d # c => calls'[d] = calls[d]
  BY DEF TypeOK, CallRecords, Begin, Pcs

(* The outcomes of the steps that branch on the tool.                      *)
LEMMA CredentialsMoves ==
    ASSUME NEW c \in Calls, Credentials(c)
    PROVE  /\ At(c, "credentials")
           /\ \/ Is(c, {"place"}) /\ Goto(c, "tracker")
              \/ ~Is(c, {"place"}) /\ Goto(c, "sent")
              \/ Finish(c)
           /\ UNCHANGED <<Startup, Authority, tracker, trackers>>
           /\ client' \in BOOLEAN \/ client' = client
           /\ keyUsers' = keyUsers \/ keyUsers' = keyUsers \cup {calls[c].kind}
  BY DEF Credentials

(* The second arm check ends a call or lets a write go on.                 *)
LEMMA InterlockMoves ==
    ASSUME NEW c \in Calls, Interlock(c)
    PROVE  /\ At(c, "interlock")
           /\ Finish(c) \/ (~Is(c, Arming) /\ Goto(c, "risk"))
           /\ UNCHANGED <<Startup, Authority, client, tracker, keyUsers>>
  BY DEF Interlock

-----------------------------------------------------------------------------
(* Types.                                                                  *)

(* Every step keeps the types.                                             *)
LEMMA TypeStep == TypeOK /\ TrackerInv /\ [Next]_vars => TypeOK'
<1> SUFFICES ASSUME TypeOK, TrackerInv, [Next]_vars PROVE TypeOK'
  OBVIOUS
<1> USE GotoMoves, FinishEnds, TakeTrackerHolds DEF TypeOK, Pcs
<1>1. CASE Start
  BY <1>1, LoadConfigures DEF Start
<1>2. CASE Stop
  BY <1>2, TrackerTypes DEF Stop, NoCall, CallRecords, Kinds, NewRiskTracker, Trackers
<1>3. ASSUME NEW c \in Calls, NEW k \in Kinds, NEW literal \in BOOLEAN, Begin(c, k, literal)
      PROVE  TypeOK'
  BY <1>3, BeginCalls DEF Begin, Startup, Trading
<1>4. ASSUME NEW c \in Calls, Dispatch(c) PROVE TypeOK'
  BY <1>4 DEF Dispatch, Startup, Trading, Authority
<1>5. ASSUME NEW c \in Calls, Arm(c) PROVE TypeOK'
  BY <1>5 DEF Arm, Startup, Trading
<1>6. ASSUME NEW c \in Calls, Gate(c) PROVE TypeOK'
  BY <1>6 DEF Gate, Startup, Trading, Authority
<1>7. ASSUME NEW c \in Calls, Credentials(c) PROVE TypeOK'
  <2>1. calls[c].kind \in Kinds
    BY DEF CallRecords
  <2>2. QED
    BY <1>7, <2>1, GotoMoves, FinishEnds DEF Credentials, Startup, Authority
<1>8. ASSUME NEW c \in Calls, OpenTracker(c) PROVE TypeOK'
  BY <1>8, TrackerTypes DEF OpenTracker, Startup, Authority
<1>9. ASSUME NEW c \in Calls, PublishTracker(c) PROVE TypeOK'
  BY <1>9 DEF PublishTracker, Startup, Authority
<1>10. ASSUME NEW c \in Calls, RereadTracker(c) PROVE TypeOK'
  BY <1>10 DEF RereadTracker, Startup, Authority, Trading
<1>11. ASSUME NEW c \in Calls, Interlock(c) PROVE TypeOK'
  BY <1>11, TrackerTypes DEF Interlock, Startup, Authority
<1>12. ASSUME NEW c \in Calls, RiskCheck(c) PROVE TypeOK'
  BY <1>12, TrackerTypes DEF RiskCheck, Startup, Authority
<1>13. ASSUME NEW c \in Calls, Answered(c) PROVE TypeOK'
  BY <1>13, TrackerTypes DEF Answered, Startup, Authority
<1>14. CASE UNCHANGED vars
  BY <1>14 DEF vars
<1>15. QED
  BY <1>1, <1>2, <1>3, <1>4, <1>5, <1>6, <1>7, <1>8, <1>9, <1>10, <1>11, <1>12, <1>13, <1>14
     DEF Next, Step

-----------------------------------------------------------------------------
(* Where calls are, what was agreed to, and who holds a tracker.           *)

(* A call keeps to the path of its tool.                                    *)
LEMMA PlaceStep == TypeOK /\ PlaceInv /\ [Next]_vars => PlaceInv'
<1> SUFFICES ASSUME TypeOK /\ PlaceInv, [Next]_vars PROVE PlaceInv'
  OBVIOUS
<1> USE GotoMoves, FinishEnds, TakeTrackerHolds
    DEF TypeOK, PlaceInv, Is, At, Arming, Pcs
<1>1. CASE Start
  BY <1>1 DEF Start
<1>2. CASE Stop
  BY <1>2 DEF Stop, NoCall
<1>3. ASSUME NEW c \in Calls, NEW k \in Kinds, NEW literal \in BOOLEAN, Begin(c, k, literal)
      PROVE  PlaceInv'
  BY <1>3, BeginCalls DEF Begin, Startup, Trading
<1>4. ASSUME NEW c \in Calls, Dispatch(c) PROVE PlaceInv'
  BY <1>4 DEF Dispatch, NoCall, Startup, Trading, Authority
<1>5. ASSUME NEW c \in Calls, Arm(c) PROVE PlaceInv'
  BY <1>5 DEF Arm, NoCall, Startup, Trading
<1>6. ASSUME NEW c \in Calls, Gate(c) PROVE PlaceInv'
  BY <1>6 DEF Gate, NoCall, Startup, Trading, Authority
<1>7. ASSUME NEW c \in Calls, Credentials(c) PROVE PlaceInv'
  BY <1>7, CredentialsMoves DEF NoCall, Startup, Authority
<1>8. ASSUME NEW c \in Calls, OpenTracker(c) PROVE PlaceInv'
  BY <1>8 DEF OpenTracker, NoCall, Startup, Authority
<1>9. ASSUME NEW c \in Calls, PublishTracker(c) PROVE PlaceInv'
  BY <1>9 DEF PublishTracker, NoCall, Startup, Authority
<1>10. ASSUME NEW c \in Calls, RereadTracker(c) PROVE PlaceInv'
  BY <1>10 DEF RereadTracker, NoCall, Startup, Authority, Trading
<1>11. ASSUME NEW c \in Calls, Interlock(c) PROVE PlaceInv'
  <2>1. calls[c].kind \in Kinds
    BY DEF CallRecords
  <2>2. QED
    BY <1>11, <2>1, InterlockMoves DEF NoCall, Startup, Authority, Kinds
<1>12. ASSUME NEW c \in Calls, RiskCheck(c) PROVE PlaceInv'
  BY <1>12 DEF RiskCheck, NoCall, Startup, Authority
<1>13. ASSUME NEW c \in Calls, Answered(c) PROVE PlaceInv'
  BY <1>13 DEF Answered, NoCall, Startup, Authority
<1>14. CASE UNCHANGED vars
  BY <1>14 DEF vars
<1>15. QED
  BY <1>1, <1>2, <1>3, <1>4, <1>5, <1>6, <1>7, <1>8,
     <1>9, <1>10, <1>11, <1>12, <1>13, <1>14 DEF Next, Step

(* What was agreed to stays agreed until the process ends.                  *)
LEMMA ConsentStep == TypeOK /\ PlaceInv /\ ConsentInv /\ [Next]_vars => ConsentInv'
<1> SUFFICES ASSUME TypeOK /\ PlaceInv /\ ConsentInv, [Next]_vars PROVE ConsentInv'
  OBVIOUS
<1> USE GotoMoves, FinishEnds, TakeTrackerHolds
    DEF TypeOK, PlaceInv, ConsentInv, PastGate, WithTracker, Is, At, Arming, Pcs
<1>1. CASE Start
  BY <1>1 DEF Start
<1>2. CASE Stop
  BY <1>2 DEF Stop, NoCall
<1>3. ASSUME NEW c \in Calls, NEW k \in Kinds, NEW literal \in BOOLEAN, Begin(c, k, literal)
      PROVE  ConsentInv'
  BY <1>3, BeginCalls DEF Begin, Startup, Trading
<1>4. ASSUME NEW c \in Calls, Dispatch(c) PROVE ConsentInv'
  BY <1>4 DEF Dispatch, NoCall, Startup, Trading, Authority
<1>5. ASSUME NEW c \in Calls, Arm(c) PROVE ConsentInv'
  BY <1>5 DEF Arm, NoCall, Startup, Trading
<1>6. ASSUME NEW c \in Calls, Gate(c) PROVE ConsentInv'
  BY <1>6 DEF Gate, NoCall, Startup, Trading, Authority
<1>7. ASSUME NEW c \in Calls, Credentials(c) PROVE ConsentInv'
  BY <1>7, CredentialsMoves DEF NoCall, Startup, Authority
<1>8. ASSUME NEW c \in Calls, OpenTracker(c) PROVE ConsentInv'
  BY <1>8 DEF OpenTracker, NoCall, Startup, Authority
<1>9. ASSUME NEW c \in Calls, PublishTracker(c) PROVE ConsentInv'
  BY <1>9 DEF PublishTracker, NoCall, Startup, Authority
<1>10. ASSUME NEW c \in Calls, RereadTracker(c) PROVE ConsentInv'
  BY <1>10 DEF RereadTracker, NoCall, Startup, Authority, Trading
<1>11. ASSUME NEW c \in Calls, Interlock(c) PROVE ConsentInv'
  BY <1>11 DEF Interlock, NoCall, Startup, Authority
<1>12. ASSUME NEW c \in Calls, RiskCheck(c) PROVE ConsentInv'
  BY <1>12 DEF RiskCheck, NoCall, Startup, Authority
<1>13. ASSUME NEW c \in Calls, Answered(c) PROVE ConsentInv'
  BY <1>13 DEF Answered, NoCall, Startup, Authority
<1>14. CASE UNCHANGED vars
  BY <1>14 DEF vars
<1>15. QED
  BY <1>1, <1>2, <1>3, <1>4, <1>5, <1>6, <1>7, <1>8,
     <1>9, <1>10, <1>11, <1>12, <1>13, <1>14 DEF Next, Step

(* A tracker is built from usable variables, and held by those that use it. *)
LEMMA TrackerStep == TypeOK /\ PlaceInv /\ TrackerInv /\ [Next]_vars => TrackerInv'
<1> SUFFICES ASSUME TypeOK /\ PlaceInv /\ TrackerInv, [Next]_vars PROVE TrackerInv'
  OBVIOUS
<1> USE GotoMoves, FinishEnds, TakeTrackerHolds
    DEF TypeOK, PlaceInv, TrackerInv, Uses, Is, At, Arming, Pcs
<1>1. CASE Start
  BY <1>1 DEF Start
<1>2. CASE Stop
  BY <1>2 DEF Stop, NoCall
<1>3. ASSUME NEW c \in Calls, NEW k \in Kinds, NEW literal \in BOOLEAN, Begin(c, k, literal)
      PROVE  TrackerInv'
  BY <1>3, BeginCalls DEF Begin, Startup, Trading
<1>4. ASSUME NEW c \in Calls, Dispatch(c) PROVE TrackerInv'
  BY <1>4 DEF Dispatch, NoCall, Startup, Trading, Authority
<1>5. ASSUME NEW c \in Calls, Arm(c) PROVE TrackerInv'
  BY <1>5 DEF Arm, NoCall, Startup, Trading
<1>6. ASSUME NEW c \in Calls, Gate(c) PROVE TrackerInv'
  BY <1>6 DEF Gate, NoCall, Startup, Trading, Authority
<1>7. ASSUME NEW c \in Calls, Credentials(c) PROVE TrackerInv'
  BY <1>7, CredentialsMoves DEF NoCall, Startup, Authority
<1>8. ASSUME NEW c \in Calls, OpenTracker(c) PROVE TrackerInv'
  BY <1>8 DEF OpenTracker, NoCall, Startup, Authority
<1>9. ASSUME NEW c \in Calls, PublishTracker(c) PROVE TrackerInv'
  BY <1>9, ProcessAssumption DEF ProcessAssumption, PublishTracker, NoCall, Startup, Authority
<1>10. ASSUME NEW c \in Calls, RereadTracker(c) PROVE TrackerInv'
  BY <1>10 DEF RereadTracker, NoCall, Startup, Authority, Trading
<1>11. ASSUME NEW c \in Calls, Interlock(c) PROVE TrackerInv'
  BY <1>11 DEF Interlock, NoCall, Startup, Authority
<1>12. ASSUME NEW c \in Calls, RiskCheck(c) PROVE TrackerInv'
  BY <1>12 DEF RiskCheck, NoCall, Startup, Authority
<1>13. ASSUME NEW c \in Calls, Answered(c) PROVE TrackerInv'
  BY <1>13 DEF Answered, NoCall, Startup, Authority
<1>14. CASE UNCHANGED vars
  BY <1>14 DEF vars
<1>15. QED
  BY <1>1, <1>2, <1>3, <1>4, <1>5, <1>6, <1>7, <1>8,
     <1>9, <1>10, <1>11, <1>12, <1>13, <1>14 DEF Next, Step

-----------------------------------------------------------------------------
(* Arming, awaited.                                                        *)

(* An agent waits for arm_live_trading or does not.                         *)
LEMMA AgentStays == [Next]_vars => armsAlone' = armsAlone
<1> SUFFICES ASSUME [Next]_vars PROVE armsAlone' = armsAlone
  OBVIOUS
<1>1. ASSUME NEW c \in Calls, Step(c) PROVE armsAlone' = armsAlone
  <2> USE DEF Startup
  <2>1. CASE Dispatch(c)
    BY <2>1 DEF Dispatch
  <2>2. CASE Arm(c)
    BY <2>2 DEF Arm
  <2>3. CASE Gate(c)
    BY <2>3 DEF Gate
  <2>4. CASE Credentials(c)
    BY <2>4 DEF Credentials
  <2>5. CASE OpenTracker(c)
    BY <2>5 DEF OpenTracker
  <2>6. CASE PublishTracker(c)
    BY <2>6 DEF PublishTracker
  <2>7. CASE RereadTracker(c)
    BY <2>7 DEF RereadTracker
  <2>8. CASE Interlock(c)
    BY <2>8 DEF Interlock
  <2>9. CASE RiskCheck(c)
    BY <2>9 DEF RiskCheck
  <2>10. CASE Answered(c)
    BY <2>10 DEF Answered
  <2>11. QED
    BY <1>1, <2>1, <2>2, <2>3, <2>4, <2>5, <2>6, <2>7, <2>8, <2>9, <2>10 DEF Step
<1>2. ASSUME NEW c \in Calls, NEW k \in Kinds, NEW literal \in BOOLEAN,
             Begin(c, k, literal)
      PROVE  armsAlone' = armsAlone
  BY <1>2 DEF Begin, Startup
<1>3. CASE Start
  BY <1>3 DEF Start
<1>4. CASE Stop
  BY <1>4 DEF Stop
<1>5. CASE UNCHANGED vars
  BY <1>5 DEF vars
<1>6. QED
  BY <1>1, <1>2, <1>3, <1>4, <1>5 DEF Next

(* What AloneInv says of arming survives every step.                        *)
LEMMA AloneStep == Inv /\ AloneInv /\ [Next]_vars => AloneInv'
<1> SUFFICES ASSUME Inv, AloneInv, [Next]_vars, armsAlone PROVE AloneInv'
  BY AgentStays DEF AloneInv
<1> USE GotoMoves, FinishEnds, TakeTrackerHolds
    DEF Inv, TypeOK, AloneInv, Is, At, Arming, Pcs, PastGate, WithTracker, Uses
<1>1. CASE Start
  BY <1>1 DEF Start, PlaceInv, TrackerInv, ConsentInv
<1>2. CASE Stop
  BY <1>2 DEF Stop, NoCall, NewRiskTracker
<1>3. ASSUME NEW c \in Calls, NEW k \in Kinds, NEW literal \in BOOLEAN, Begin(c, k, literal)
      PROVE  AloneInv'
  BY <1>3, BeginCalls DEF Begin, MayCall, Startup, Trading
<1>4. ASSUME NEW c \in Calls, Dispatch(c) PROVE AloneInv'
  BY <1>4 DEF Dispatch, NoCall, Startup, Trading, Authority, PlaceInv
<1>5. ASSUME NEW c \in Calls, Arm(c) PROVE AloneInv'
  BY <1>5 DEF Arm, NoCall, Startup, Trading
<1>6. ASSUME NEW c \in Calls, Gate(c) PROVE AloneInv'
  BY <1>6 DEF Gate, NoCall, Startup, Trading, Authority, PlaceInv
<1>7. ASSUME NEW c \in Calls, Credentials(c) PROVE AloneInv'
  BY <1>7, CredentialsMoves DEF NoCall, Startup, Authority
<1>8. ASSUME NEW c \in Calls, OpenTracker(c) PROVE AloneInv'
  <2>1. CASE tracker # NoTracker
    BY <1>8, <2>1 DEF OpenTracker, Startup, Authority
  <2>2. CASE tracker = NoTracker /\ env.limits = "broken"
    BY <1>8, <2>2 DEF OpenTracker, NoCall, Startup, Authority
  <2>3. CASE tracker = NoTracker /\ env.limits = "usable"
    <3>1. Is(c, Arming)
      <4>1. calls[c].kind \in Kinds \ {"read", "place"}
        BY <1>8, <2>3 DEF OpenTracker, PlaceInv, CallRecords
      <4>2. QED
        BY <4>1 DEF Kinds
    <3>2. Goto(c, "publish") /\ trackers' = [trackers EXCEPT ![c] = NewRiskTracker]
          /\ UNCHANGED <<Startup, Authority, tracker>>
      BY <1>8, <2>3 DEF OpenTracker
    <3>3. /\ calls'[c].pc = "publish" /\ calls'[c].kind = calls[c].kind
          /\ \A d \in Calls : d # c => calls'[d] = calls[d] /\ At(d, "idle")
      BY <1>8, <3>1, <3>2 DEF OpenTracker
    <3>4. \A d \in Calls : trackers'[d].orders = 0
      BY <2>3, <3>2, ProcessAssumption DEF NewRiskTracker, ProcessAssumption
    <3>5. tracker' = NoTracker /\ armsAlone'
      BY <2>3, <3>2 DEF Startup
    <3>6. QED
      BY <3>1, <3>3, <3>4, <3>5
  <2>4. QED
    BY <2>1, <2>2, <2>3 DEF Environments
<1>9. ASSUME NEW c \in Calls, PublishTracker(c) PROVE AloneInv'
  BY <1>9, ProcessAssumption DEF ProcessAssumption, PublishTracker, Startup, Authority
<1>10. ASSUME NEW c \in Calls, RereadTracker(c) PROVE AloneInv'
  BY <1>10 DEF RereadTracker, Startup, Authority, Trading
<1>11. ASSUME NEW c \in Calls, Interlock(c) PROVE AloneInv'
  BY <1>11, RollKeepsNone DEF Interlock, NoCall, Startup, Authority, TrackerInv
<1>12. ASSUME NEW c \in Calls, RiskCheck(c) PROVE AloneInv'
  BY <1>12, RollKeepsNone DEF RiskCheck, NoCall, Startup, Authority, TrackerInv
<1>13. ASSUME NEW c \in Calls, Answered(c) PROVE AloneInv'
  BY <1>13 DEF Answered, NoCall, Startup, Authority
<1>14. CASE UNCHANGED vars
  BY <1>14 DEF vars
<1>15. QED
  BY <1>1, <1>2, <1>3, <1>4, <1>5, <1>6, <1>7, <1>8,
     <1>9, <1>10, <1>11, <1>12, <1>13, <1>14 DEF Next, Step

-----------------------------------------------------------------------------
(* How far each tracker may be overrun.                                    *)

(* The calls that work with a tracker, those whose order is under way, the *)
(* calls about to replace the handler's tracker, and the trackers that     *)
(* have ever been the handler's and matter still.                          *)
Users(t) == {c \in Calls : Uses(c) /\ calls[c].held = t}

InFlight(t) == {c \in Users(t) : At(c, "sent")}

Builders == {c \in Calls : At(c, "publish")}

Known == {t \in Calls : t = tracker \/ trackers[t].orders # 0 \/ Users(t) # {}}

(* The rank of a tracker is the number of calls, less one, that could ever *)
(* work with it at the same time: all but those that are about to replace  *)
(* it.  Later trackers have higher ranks.                                  *)
Ranks(rank) ==
    /\ \A s, t \in Known : rank[s] = rank[t] => s = t
    /\ tracker # NoTracker =>
         rank[tracker] + 1 + Cardinality(Builders) = Cardinality(Calls)
    /\ \A t \in Known :
         /\ tracker # NoTracker /\ ~At(t, "publish")
         /\ rank[t] <= rank[tracker]
         /\ Cardinality(Users(t)) <= rank[t] + 1
         /\ trackers[t].orders + Cardinality(InFlight(t)) <= MaxDailyOrders + rank[t]

RankInv == \E rank \in [Calls -> Nat] : Ranks(rank)

(* The sets of calls are finite.                                           *)
LEMMA CallSets ==
    ASSUME NEW S \in SUBSET Calls
    PROVE  /\ IsFiniteSet(S) /\ Cardinality(S) \in Nat
           /\ Cardinality(S) <= Cardinality(Calls) /\ Cardinality(Calls) \in Nat
  BY ProcessAssumption, FS_Subset, FS_CardinalityType DEF ProcessAssumption

(* Fewer calls are no more.                                                *)
LEMMA FewerCalls ==
    ASSUME NEW S \in SUBSET Calls, NEW R \in SUBSET S
    PROVE  Cardinality(R) <= Cardinality(S)
  BY CallSets, FS_Subset

(* Ranks remain if only the handler's tracker gains users, and an order is *)
(* let through only below the cap of its tracker.                          *)
LEMMA RanksRemain ==
    ASSUME TypeOK, TypeOK', NEW rank \in [Calls -> Nat], Ranks(rank),
           tracker' = tracker, Builders' = Builders, Known' \subseteq Known,
           \A t \in Known' :
             /\ Users(t)' \subseteq Users(t) \/ t = tracker
             /\ \/ trackers'[t].orders <= trackers[t].orders /\ InFlight(t)' \subseteq InFlight(t)
                \/ trackers'[t].orders < MaxDailyOrders
                \/ /\ trackers'[t].orders <= trackers[t].orders + 1
                   /\ \E c \in InFlight(t) : InFlight(t)' \subseteq InFlight(t) \ {c}
    PROVE  RankInv'
<1>1. tracker \in Calls => rank[tracker] + 1 + Cardinality(Builders) = Cardinality(Calls)
  BY ProcessAssumption DEF Ranks, ProcessAssumption
<1>2. ASSUME NEW t \in Known'
      PROVE  /\ tracker' # NoTracker /\ ~At(t, "publish")'
             /\ rank[t] <= rank[tracker]
             /\ Cardinality(Users(t)') <= rank[t] + 1
             /\ trackers'[t].orders + Cardinality(InFlight(t)') <= MaxDailyOrders + rank[t]
  <2>1. t \in Known /\ t \in Calls /\ tracker \in Calls
    BY DEF Known, Ranks, TypeOK
  <2>2. tracker # NoTracker /\ t \notin Builders /\ rank[t] <= rank[tracker]
    BY <2>1 DEF Ranks, Builders
  <2>3. ~At(t, "publish")'
    BY <2>1, <2>2 DEF Builders
  <2>4. /\ Users(t)' \in SUBSET Calls /\ Users(t) \in SUBSET Calls
        /\ InFlight(t)' \in SUBSET Users(t)' /\ InFlight(t) \in SUBSET Users(t)
        /\ Builders \in SUBSET Calls
    BY DEF Users, InFlight, Builders
  <2>5. Cardinality(Users(t)') <= rank[t] + 1
    <3>1. CASE Users(t)' \subseteq Users(t)
      <4>1. Cardinality(Users(t)') <= Cardinality(Users(t))
        BY <2>4, <3>1, FewerCalls
      <4> QED  BY <2>1, <2>4, <4>1, CallSets DEF Ranks
    <3>2. CASE t = tracker
      <4>1. Users(t)' \cap Builders = {}
        BY DEF Users, Builders, Uses, At
      <4>2. Cardinality(Calls \ Builders) = Cardinality(Calls) - Cardinality(Builders)
        <5>1. IsFiniteSet(Calls) /\ Calls \cap Builders = Builders
          BY <2>4, CallSets
        <5> QED  BY <5>1, FS_Difference
      <4>3. Users(t)' \in SUBSET (Calls \ Builders) /\ Calls \ Builders \in SUBSET Calls
        BY <2>4, <4>1
      <4>4. Cardinality(Users(t)') <= Cardinality(Calls \ Builders)
        BY <4>3, FewerCalls
      <4>5. rank[t] \in Nat /\ Cardinality(Builders) \in Nat /\ Cardinality(Calls) \in Nat
            /\ Cardinality(Users(t)') \in Nat
        BY <2>1, <2>4, CallSets
      <4> QED  BY <1>1, <2>1, <3>2, <4>2, <4>4, <4>5
    <3> QED  BY <3>1, <3>2
  <2>6. trackers'[t].orders + Cardinality(InFlight(t)') <= MaxDailyOrders + rank[t]
    <3>1. /\ trackers[t].orders \in Nat /\ trackers'[t].orders \in Nat /\ rank[t] \in Nat
          /\ Cardinality(InFlight(t)) \in Nat /\ Cardinality(InFlight(t)') \in Nat
          /\ Cardinality(Users(t)') \in Nat /\ MaxDailyOrders \in Nat
      <4>1. InFlight(t)' \in SUBSET Calls /\ InFlight(t) \in SUBSET Calls
        BY <2>4
      <4>2. trackers[t] \in Trackers /\ trackers'[t] \in Trackers
        BY <2>1 DEF TypeOK
      <4> QED  BY <2>1, <2>4, <4>1, <4>2, CallSets, CapsAssumption DEF CapsAssumption, Trackers
    <3>2. trackers[t].orders + Cardinality(InFlight(t)) <= MaxDailyOrders + rank[t]
      BY <2>1 DEF Ranks
    <3>3. CASE trackers'[t].orders <= trackers[t].orders /\ InFlight(t)' \subseteq InFlight(t)
      <4>1. Cardinality(InFlight(t)') <= Cardinality(InFlight(t))
        BY <2>4, <3>3, FewerCalls
      <4> QED  BY <3>1, <3>2, <3>3, <4>1
    <3>4. CASE trackers'[t].orders < MaxDailyOrders
      <4>1. Cardinality(InFlight(t)') <= Cardinality(Users(t)')
        BY <2>4, FewerCalls
      <4> QED  BY <2>5, <3>1, <3>4, <4>1
    <3>5. ASSUME trackers'[t].orders <= trackers[t].orders + 1,
                 NEW c \in InFlight(t), InFlight(t)' \subseteq InFlight(t) \ {c}
          PROVE  trackers'[t].orders + Cardinality(InFlight(t)') <= MaxDailyOrders + rank[t]
      <4>1. InFlight(t) \in SUBSET Calls /\ InFlight(t)' \in SUBSET (InFlight(t) \ {c})
            /\ InFlight(t) \ {c} \in SUBSET Calls
        BY <2>4, <3>5
      <4>2. Cardinality(InFlight(t)') <= Cardinality(InFlight(t) \ {c})
        BY <4>1, FewerCalls
      <4>3. Cardinality(InFlight(t) \ {c}) = Cardinality(InFlight(t)) - 1
        BY <4>1, CallSets, FS_RemoveElement
      <4> QED  BY <3>1, <3>2, <3>5, <4>2, <4>3
    <3> QED  BY <3>3, <3>4, <3>5
  <2> QED  BY <2>1, <2>2, <2>3, <2>5, <2>6
<1>3. \A s, t \in Known' : rank[s] = rank[t] => s = t
  BY DEF Ranks
<1>4. tracker' # NoTracker =>
        rank[tracker'] + 1 + Cardinality(Builders') = Cardinality(Calls)
  BY DEF Ranks
<1>5. Ranks(rank)'
  BY <1>2, <1>3, <1>4 DEF Ranks
<1> QED  BY <1>5 DEF RankInv

(* One call moves on, and no order is let through or recorded.             *)
LEMMA QuietMove ==
    ASSUME TypeOK, TypeOK', RankInv, NEW c \in Calls, tracker' = tracker,
           \A d \in Calls : d # c => calls'[d] = calls[d],
           calls[c].pc # "publish", calls'[c].pc # "publish",
           Uses(c)' => calls'[c].pc # "sent" /\
             ((Uses(c) /\ calls'[c].held = calls[c].held) \/ calls'[c].held = tracker),
           \A t \in Calls : trackers'[t].orders <= trackers[t].orders
    PROVE  RankInv'
<1>1. PICK rank \in [Calls -> Nat] : Ranks(rank)
  BY DEF RankInv
<1>2. Builders' = Builders
  BY DEF Builders, At
<1>3. ASSUME NEW t \in Calls
      PROVE  /\ Users(t)' \subseteq Users(t) \/ t = tracker
             /\ InFlight(t)' \subseteq InFlight(t)
  <2>1. \A d \in Calls : d # c => (Uses(d)' <=> Uses(d))
    BY DEF Uses, At, Is
  <2> QED  BY <2>1 DEF Users, InFlight, At
<1>4. Known' \subseteq Known
  <2> SUFFICES ASSUME NEW t \in Known' PROVE t \in Known
    OBVIOUS
  <2>1. t \in Calls /\ trackers[t] \in Trackers /\ trackers'[t] \in Trackers
    BY DEF Known, TypeOK
  <2>2. trackers'[t].orders # 0 => trackers[t].orders # 0
    BY <2>1 DEF Trackers
  <2> QED  BY <1>3, <2>1, <2>2 DEF Known
<1>5. Known' \subseteq Calls
  BY DEF Known
<1> QED  BY <1>1, <1>2, <1>3, <1>4, <1>5, RanksRemain

(* A call that ends works with no tracker.                                 *)
LEMMA EndIsQuiet ==
    ASSUME TypeOK, TypeOK', RankInv, NEW c \in Calls, tracker' = tracker, Finish(c),
           calls[c].pc # "publish",
           \A t \in Calls : trackers'[t].orders <= trackers[t].orders
    PROVE  RankInv'
<1>1. calls'[c].pc # "publish" /\ ~Uses(c)'
  BY FinishEnds DEF Uses, At
<1> QED  BY <1>1, FinishEnds, QuietMove

(* Rolling the day counts no order.                                        *)
LEMMA RollLowers ==
    ASSUME TypeOK, NEW own \in Calls,
           trackers' = [trackers EXCEPT ![own] = RollDay(@, Today)]
    PROVE  \A t \in Calls : trackers'[t].orders <= trackers[t].orders
<1> TAKE t \in Calls
<1>1. trackers[t] \in Trackers
  BY DEF TypeOK
<1>2. RollDay(trackers[t], Today).orders <= trackers[t].orders
  BY <1>1 DEF RollDay, Trackers
<1>3. trackers'[t] = IF t = own THEN RollDay(trackers[t], Today) ELSE trackers[t]
  BY DEF TypeOK
<1> QED  BY <1>1, <1>2, <1>3 DEF Trackers

(* Looking at the caps lets an order through below the cap only.           *)
LEMMA RiskCheckRanks ==
    ASSUME Inv, TypeOK', RankInv, NEW c \in Calls, RiskCheck(c)
    PROVE  RankInv'
<1> DEFINE own == calls[c].held
<1>1. /\ At(c, "risk") /\ Uses(c) /\ own \in Calls /\ TypeOK /\ tracker' = tracker
      /\ trackers' = [trackers EXCEPT ![own] = RollDay(@, Today)]
  BY DEF RiskCheck, Inv, TrackerInv, Uses, At
<1>2. \A t \in Calls : trackers'[t].orders <= trackers[t].orders
  BY <1>1, RollLowers
<1>3. CASE Finish(c)
  BY <1>1, <1>2, <1>3, EndIsQuiet DEF At
<1>4. CASE WithinCaps(trackers[own], Today, OrderCents) /\ Goto(c, "sent")
  <2>1. PICK rank \in [Calls -> Nat] : Ranks(rank)
    BY DEF RankInv
  <2>2. /\ calls'[c].pc = "sent" /\ calls'[c].kind = calls[c].kind /\ calls'[c].held = own
        /\ \A d \in Calls : d # c => calls'[d] = calls[d]
    BY <1>1, <1>4, GotoMoves DEF Pcs
  <2>3. trackers'[own].orders < MaxDailyOrders
    <3>1. trackers'[own] = RollDay(trackers[own], Today) /\ trackers'[own] \in Trackers
      BY <1>1 DEF TypeOK
    <3>2. RollDay(trackers[own], Today).orders + 1 <= MaxDailyOrders
      BY <1>4 DEF WithinCaps
    <3> QED  BY <3>1, <3>2, CapsAssumption DEF CapsAssumption, Trackers
  <2>4. Builders' = Builders
    BY <1>1, <2>2 DEF Builders, At
  <2>5. \A t \in Calls : Users(t)' \subseteq Users(t)
    BY <1>1, <2>2 DEF Users, Uses, At, Is
  <2>6. \A t \in Calls : t # own => InFlight(t)' \subseteq InFlight(t)
    BY <1>1, <2>2, <2>5 DEF InFlight, Users, At
  <2>7. Known' \subseteq Known /\ Known' \subseteq Calls
    <3> SUFFICES ASSUME NEW t \in Known' PROVE t \in Known
      BY DEF Known
    <3>1. t \in Calls /\ trackers[t] \in Trackers /\ trackers'[t] \in Trackers
      BY <1>1 DEF Known, TypeOK
    <3>2. trackers'[t].orders # 0 => trackers[t].orders # 0
      BY <1>2, <3>1 DEF Trackers
    <3> QED  BY <1>1, <2>5, <3>1, <3>2 DEF Known
  <2> QED  BY <1>1, <1>2, <2>1, <2>3, <2>4, <2>5, <2>6, <2>7, RanksRemain
<1> QED  BY <1>3, <1>4 DEF RiskCheck

(* Recording trades an order under way for one recorded.                   *)
LEMMA AnsweredRanks ==
    ASSUME Inv, TypeOK', RankInv, NEW c \in Calls, Answered(c)
    PROVE  RankInv'
<1>0. PICK own : own = calls[c].held
  OBVIOUS
<1>1. At(c, "sent") /\ TypeOK /\ tracker' = tracker /\ Finish(c)
  BY DEF Answered, Inv
<1>2. CASE UNCHANGED trackers
  <2>1. \A t \in Calls : trackers'[t].orders <= trackers[t].orders
    BY <1>1, <1>2 DEF TypeOK, Trackers
  <2> QED  BY <1>1, <2>1, EndIsQuiet DEF At
<1>3. CASE /\ Is(c, {"place"})
           /\ trackers' = [trackers EXCEPT ![own] = Record(@, Today, OrderCents)]
  <2>1. PICK rank \in [Calls -> Nat] : Ranks(rank)
    BY DEF RankInv
  <2>2. Uses(c) /\ own \in Calls /\ c \in InFlight(own)
    BY <1>0, <1>1, <1>3 DEF Inv, TrackerInv, InFlight, Users, Uses
  <2>3. /\ ~Uses(c)' /\ calls'[c].pc = "idle"
        /\ \A d \in Calls : d # c => calls'[d] = calls[d]
    BY <1>1, FinishEnds DEF Uses, At
  <2>4. Builders' = Builders
    BY <1>1, <2>3 DEF Builders, At
  <2>5. \A d \in Calls : d # c => (Uses(d)' <=> Uses(d))
    BY <2>3 DEF Uses, At, Is
  <2>6. \A t \in Calls : Users(t)' \subseteq Users(t) \ {c}
                         /\ InFlight(t)' \subseteq InFlight(t) \ {c}
    BY <2>3, <2>5 DEF Users, InFlight, At
  <2>7. \A t \in Calls : t # own => trackers'[t] = trackers[t]
    BY <1>1, <1>3 DEF TypeOK
  <2>8. trackers'[own].orders <= trackers[own].orders + 1
    <3>1. trackers'[own] = Record(trackers[own], Today, OrderCents)
          /\ trackers[own] \in Trackers
      BY <1>1, <1>3, <2>2 DEF TypeOK
    <3>2. RollDay(trackers[own], Today).orders <= trackers[own].orders
          /\ RollDay(trackers[own], Today) \in Trackers
      BY <3>1, TrackerTypes DEF RollDay, Trackers
    <3>3. Record(trackers[own], Today, OrderCents).orders
            = RollDay(trackers[own], Today).orders + 1
      BY <3>2 DEF Record, Trackers
    <3> QED  BY <3>1, <3>2, <3>3 DEF Trackers
  <2>9. Known' \subseteq Known /\ Known' \subseteq Calls
    <3> SUFFICES ASSUME NEW t \in Known' PROVE t \in Known
      BY DEF Known
    <3>1. t \in Calls
      BY DEF Known
    <3>2. own \in Known
      BY <2>2 DEF Known, InFlight
    <3> QED  BY <1>1, <2>6, <2>7, <3>1, <3>2 DEF Known
  <2>10. \A t \in Calls : t # own => trackers'[t].orders <= trackers[t].orders
    BY <1>1, <2>7 DEF TypeOK, Trackers
  <2>11. \A t \in Calls : InFlight(t)' \subseteq InFlight(t) /\ Users(t)' \subseteq Users(t)
    BY <2>6
  <2>12. \E d \in InFlight(own) : InFlight(own)' \subseteq InFlight(own) \ {d}
    BY <2>2, <2>6
  <2> QED  BY <1>1, <2>1, <2>2, <2>4, <2>8, <2>9, <2>10, <2>11, <2>12, RanksRemain
<1> QED  BY <1>0, <1>2, <1>3 DEF Answered

(* A new tracker ranks above the one it replaces.                          *)
LEMMA PublishRanks ==
    ASSUME Inv, TypeOK', RankInv, NEW c \in Calls, PublishTracker(c)
    PROVE  RankInv'
<1>1. /\ At(c, "publish") /\ TypeOK /\ tracker' = c /\ Goto(c, "reread")
      /\ trackers' = trackers
  BY DEF PublishTracker, Inv
<1>2. PICK rank \in [Calls -> Nat] : Ranks(rank)
  BY DEF RankInv
<1>3. /\ calls'[c].pc = "reread" /\ \A d \in Calls : d # c => calls'[d] = calls[d]
  BY <1>1, GotoMoves DEF Pcs
<1>4. ~Uses(c) /\ ~Uses(c)' /\ \A d \in Calls : Uses(d)' <=> Uses(d)
  BY <1>1, <1>3 DEF Uses, At, Is
<1>5. \A t \in Calls : Users(t)' = Users(t) /\ InFlight(t)' = InFlight(t)
  <2>1. \A t \in Calls : Users(t)' = Users(t)
    BY <1>3, <1>4 DEF Users
  <2> QED  BY <2>1, <1>3, <1>4 DEF InFlight, Users, At
<1>6. c \notin Known
  BY <1>1, <1>2 DEF Ranks
<1>7. trackers[c].orders = 0 /\ Users(c) = {} /\ InFlight(c) = {}
  BY <1>6 DEF Known, InFlight
<1>8. Known' = (Known \ {tracker}) \cup (Known' \cap {tracker}) \cup {c}
      /\ Known' \subseteq Known \cup {c}
  BY <1>1, <1>5 DEF Known
<1>9. Builders' = Builders \ {c} /\ c \in Builders /\ Builders \in SUBSET Calls
  BY <1>1, <1>3 DEF Builders, At
<1>10. /\ Cardinality(Builders') = Cardinality(Builders) - 1
       /\ Cardinality(Builders) \in Nat \ {0} /\ Cardinality(Calls) \in Nat
       /\ Cardinality(Builders) <= Cardinality(Calls)
  <2>1. IsFiniteSet(Builders) /\ Cardinality(Builders) \in Nat
        /\ Cardinality(Calls) \in Nat /\ Cardinality(Builders) <= Cardinality(Calls)
    BY <1>9, CallSets
  <2>2. Cardinality(Builders) # 0
    BY <1>9, <2>1, FS_EmptySet
  <2>3. Cardinality(Builders \ {c}) = Cardinality(Builders) - 1
    BY <1>9, <2>1, FS_RemoveElement
  <2> QED  BY <1>9, <2>1, <2>2, <2>3
<1>11. PICK top \in Nat, next \in [Calls -> Nat] :
          /\ top = Cardinality(Calls) - Cardinality(Builders)
          /\ next[c] = top /\ \A t \in Calls : t # c => next[t] = rank[t]
  <2> DEFINE up == [rank EXCEPT ![c] = Cardinality(Calls) - Cardinality(Builders)]
  <2>1. up \in [Calls -> Nat] /\ up[c] = Cardinality(Calls) - Cardinality(Builders)
        /\ \A t \in Calls : t # c => up[t] = rank[t]
    BY <1>10
  <2> QED  BY <1>10, <2>1
<1>12. \A t \in Known : rank[t] < top
  <2> SUFFICES ASSUME NEW t \in Known PROVE rank[t] < top
    OBVIOUS
  <2>1. tracker # NoTracker /\ rank[t] <= rank[tracker] /\ t \in Calls /\ tracker \in Calls
    BY <1>1, <1>2 DEF Ranks, Known, TypeOK
  <2>2. rank[tracker] + 1 + Cardinality(Builders) = Cardinality(Calls)
    BY <1>2, <2>1 DEF Ranks
  <2>3. rank[tracker] \in Nat /\ rank[t] \in Nat
    BY <2>1
  <2> QED  BY <1>10, <1>11, <2>1, <2>2, <2>3
<1>13. \A s, t \in Known' : next[s] = next[t] => s = t
  <2> TAKE s, t \in Known'
  <2>1. s \in Known \cup {c} /\ t \in Known \cup {c} /\ Known \subseteq Calls
    BY <1>8 DEF Known
  <2>2. \A u \in Known : u # c /\ rank[u] \in Nat /\ next[u] = rank[u] /\ rank[u] # top
    BY <1>6, <1>11, <1>12, <2>1
  <2> QED  BY <1>2, <1>11, <2>1, <2>2 DEF Ranks
<1>14. next[tracker'] + 1 + Cardinality(Builders') = Cardinality(Calls)
  BY <1>1, <1>10, <1>11
<1>15. ASSUME NEW t \in Known'
       PROVE  /\ tracker' # NoTracker /\ ~At(t, "publish")'
              /\ next[t] <= next[tracker']
              /\ Cardinality(Users(t)') <= next[t] + 1
              /\ trackers'[t].orders + Cardinality(InFlight(t)') <= MaxDailyOrders + next[t]
  <2>1. tracker' # NoTracker
    BY <1>1, ProcessAssumption DEF ProcessAssumption
  <2>2. CASE t = c
    <3>1. Cardinality({}) = 0
      BY FS_EmptySet
    <3>2. Cardinality(Users(t)') = 0 /\ Cardinality(InFlight(t)') = 0
      BY <1>5, <1>7, <2>2, <3>1
    <3>3. trackers'[t].orders = 0 /\ MaxDailyOrders \in Nat
      BY <1>1, <1>7, <2>2, CapsAssumption DEF CapsAssumption
    <3>4. ~At(t, "publish")'
      BY <1>3, <2>2 DEF At
    <3> QED  BY <1>1, <1>11, <2>1, <2>2, <3>2, <3>3, <3>4
  <2>3. CASE t # c
    <3>1. t \in Known /\ t \in Calls
      BY <1>8, <2>3 DEF Known
    <3>2. ~At(t, "publish")'
      BY <1>2, <1>3, <2>3, <3>1 DEF Ranks, At
    <3>3. next[t] = rank[t] /\ rank[t] < top /\ rank[t] \in Nat /\ next[tracker'] = top
      BY <1>1, <1>11, <1>12, <2>3, <3>1
    <3>4. Users(t)' = Users(t) /\ InFlight(t)' = InFlight(t) /\ trackers'[t] = trackers[t]
      BY <1>1, <1>5, <3>1
    <3>5. next[t] <= next[tracker']
      BY <1>11, <3>3
    <3> QED  BY <1>2, <2>1, <3>1, <3>2, <3>3, <3>4, <3>5 DEF Ranks
  <2> QED  BY <2>2, <2>3
<1>16. Ranks(next)'
  BY <1>13, <1>14, <1>15 DEF Ranks
<1> QED  BY <1>11, <1>16 DEF RankInv

(* Before the first tracker is the handler's there is none to rank.        *)
LEMMA NoneKnown ==
    ASSUME TypeOK, TypeOK', RankInv, tracker = NoTracker, tracker' = NoTracker,
           \A t \in Calls : trackers'[t].orders <= trackers[t].orders,
           \A t \in Calls : Users(t)' \subseteq Users(t)
    PROVE  RankInv'
<1>1. PICK rank \in [Calls -> Nat] : Ranks(rank)
  BY DEF RankInv
<1>2. Known = {}
  BY <1>1 DEF Ranks
<1>3. Known' = {}
  <2> SUFFICES ASSUME NEW t \in Calls PROVE t \notin Known'
    BY DEF Known
  <2>1. trackers[t].orders = 0 /\ Users(t) = {} /\ t # NoTracker
    BY <1>2, ProcessAssumption DEF Known, ProcessAssumption
  <2>2. trackers'[t].orders = 0 /\ Users(t)' = {}
    <3>1. trackers'[t] \in Trackers
      BY DEF TypeOK
    <3> QED  BY <2>1, <3>1 DEF Trackers
  <2> QED  BY <2>1, <2>2 DEF Known
<1>4. Ranks(rank)'
  BY <1>3 DEF Ranks
<1> QED  BY <1>4 DEF RankInv

(* Nothing happens to calls and trackers.                                  *)
LEMMA IdleRanks ==
    ASSUME TypeOK, TypeOK', RankInv, calls' = calls, tracker' = tracker, trackers' = trackers
    PROVE  RankInv'
<1>1. PICK rank \in [Calls -> Nat] : Ranks(rank)
  BY DEF RankInv
<1>2. Builders' = Builders /\ \A c \in Calls : Uses(c)' <=> Uses(c)
  BY DEF Builders, Uses, At, Is
<1>3. \A t \in Calls : Users(t)' = Users(t)
  BY <1>2 DEF Users
<1>4. \A t \in Calls : InFlight(t)' = InFlight(t) /\ trackers'[t].orders <= trackers[t].orders
  BY <1>2, <1>3 DEF InFlight, At, TypeOK, Trackers
<1>5. Known' = Known /\ Known \subseteq Calls
  BY <1>3 DEF Known
<1> QED  BY <1>1, <1>2, <1>3, <1>4, <1>5, RanksRemain

(* Every step keeps the trackers ranked.                                   *)
LEMMA RankStep == Inv /\ Inv' /\ RankInv /\ [Next]_vars => RankInv'
<1> SUFFICES ASSUME Inv, Inv', RankInv, [Next]_vars PROVE RankInv'
  OBVIOUS
<1>0. TypeOK /\ TypeOK'
  BY DEF Inv
<1> DEFINE Counts == \A t \in Calls : trackers'[t].orders <= trackers[t].orders
<1>a. trackers' = trackers => Counts
  BY <1>0 DEF TypeOK, Trackers
<1>b. ASSUME NEW c \in Calls, Finish(c), calls[c].pc # "publish", tracker' = tracker, Counts
      PROVE  RankInv'
  BY <1>0, <1>b, EndIsQuiet
<1>c. ASSUME NEW c \in Calls, NEW label \in Pcs \ {"publish", "sent", "interlock", "risk"},
             Goto(c, label), calls[c].pc # "publish", tracker' = tracker, Counts
      PROVE  RankInv'
  <2>1. calls'[c].pc = label /\ \A d \in Calls : d # c => calls'[d] = calls[d]
    BY <1>0, <1>c, GotoMoves
  <2>2. ~Uses(c)'
    BY <1>c, <2>1 DEF Uses, At
  <2> QED  BY <1>0, <1>c, <2>1, <2>2, QuietMove
<1>d. ASSUME NEW c \in Calls, TakeTracker(c), calls[c].pc # "publish", tracker' = tracker, Counts
      PROVE  RankInv'
  BY <1>0, <1>d, TakeTrackerHolds, QuietMove
<1>1. CASE Start
  <2>1. calls' = calls /\ tracker' = tracker /\ trackers' = trackers
    BY <1>1 DEF Start
  <2> QED  BY <1>0, <2>1, IdleRanks
<1>2. CASE Stop
  <2>1. /\ tracker' = NoTracker /\ \A t \in Calls : trackers'[t].orders = 0 /\ ~Uses(t)'
    BY <1>2 DEF Stop, NewRiskTracker, NoCall, Uses, At
  <2>2. Known' = {}
    BY <2>1, ProcessAssumption DEF Known, Users, ProcessAssumption
  <2>3. PICK rank \in [Calls -> Nat] : TRUE
    BY DEF RankInv
  <2>4. Ranks(rank)'
    BY <2>1, <2>2 DEF Ranks
  <2> QED  BY <2>4 DEF RankInv
<1>3. ASSUME NEW c \in Calls, NEW k \in Kinds, NEW literal \in BOOLEAN, Begin(c, k, literal)
      PROVE  RankInv'
  <2>1. calls[c].pc = "idle" /\ tracker' = tracker /\ trackers' = trackers
    BY <1>3 DEF Begin, Trading, At
  <2>2. calls'[c].pc = "dispatch" /\ \A d \in Calls : d # c => calls'[d] = calls[d]
    BY <1>0, <1>3, BeginCalls
  <2>3. ~Uses(c)'
    BY <2>2 DEF Uses, At
  <2> QED  BY <1>0, <1>a, <2>1, <2>2, <2>3, QuietMove
<1>4. ASSUME NEW c \in Calls, Dispatch(c) PROVE RankInv'
  <2>1. calls[c].pc = "dispatch" /\ tracker' = tracker /\ trackers' = trackers
        /\ (Finish(c) \/ Goto(c, "arm") \/ Goto(c, "gate") \/ Goto(c, "credentials"))
    BY <1>4 DEF Dispatch, Trading, At
  <2> QED  BY <1>a, <1>b, <1>c, <2>1 DEF Pcs
<1>5. ASSUME NEW c \in Calls, Arm(c) PROVE RankInv'
  <2>1. calls[c].pc = "arm" /\ tracker' = tracker /\ trackers' = trackers
        /\ (Finish(c) \/ Goto(c, "tracker"))
    BY <1>5 DEF Arm, Trading, At
  <2> QED  BY <1>a, <1>b, <1>c, <2>1 DEF Pcs
<1>6. ASSUME NEW c \in Calls, Gate(c) PROVE RankInv'
  <2>1. calls[c].pc = "gate" /\ tracker' = tracker /\ trackers' = trackers
        /\ (Finish(c) \/ Goto(c, "credentials"))
    BY <1>6 DEF Gate, Trading, At
  <2> QED  BY <1>a, <1>b, <1>c, <2>1 DEF Pcs
<1>7. ASSUME NEW c \in Calls, Credentials(c) PROVE RankInv'
  <2>1. calls[c].pc = "credentials" /\ tracker' = tracker /\ trackers' = trackers
    BY <1>7, CredentialsMoves DEF At
  <2>2. CASE ~Is(c, {"place"}) /\ Goto(c, "sent")
    <3>1. /\ calls'[c].pc = "sent" /\ calls'[c].kind = calls[c].kind
          /\ \A d \in Calls : d # c => calls'[d] = calls[d]
      BY <1>0, <2>2, GotoMoves DEF Pcs
    <3>2. ~Uses(c)'
      BY <2>2, <3>1 DEF Uses, At, Is
    <3> QED  BY <1>0, <1>a, <2>1, <3>1, <3>2, QuietMove
  <2>3. CASE Finish(c)
    BY <1>a, <1>b, <2>1, <2>3
  <2>4. CASE Goto(c, "tracker")
    BY <1>a, <1>c, <2>1, <2>4 DEF Pcs
  <2> QED  BY <1>7, <2>2, <2>3, <2>4, CredentialsMoves
<1>8. ASSUME NEW c \in Calls, OpenTracker(c) PROVE RankInv'
  <2>1. calls[c].pc = "tracker" /\ tracker' = tracker
    BY <1>8 DEF OpenTracker, At
  <2>2. CASE TakeTracker(c) /\ UNCHANGED trackers
    BY <1>a, <1>d, <2>1, <2>2
  <2>3. CASE Finish(c) /\ UNCHANGED trackers
    BY <1>a, <1>b, <2>1, <2>3
  <2>4. CASE tracker = NoTracker /\ Goto(c, "publish")
             /\ trackers' = [trackers EXCEPT ![c] = NewRiskTracker]
    <3>1. Counts
      BY <1>0, <2>4 DEF TypeOK, NewRiskTracker, Trackers
    <3>2. calls'[c].pc = "publish" /\ \A d \in Calls : d # c => calls'[d] = calls[d]
      BY <1>0, <2>4, GotoMoves DEF Pcs
    <3>3. \A t \in Calls : Users(t)' \subseteq Users(t)
      BY <3>2 DEF Users, Uses, At, Is
    <3> QED  BY <1>0, <2>1, <2>4, <3>1, <3>3, NoneKnown
  <2> QED  BY <1>8, <2>2, <2>3, <2>4 DEF OpenTracker
<1>9. ASSUME NEW c \in Calls, PublishTracker(c) PROVE RankInv'
  BY <1>0, <1>9, PublishRanks
<1>10. ASSUME NEW c \in Calls, RereadTracker(c) PROVE RankInv'
  BY <1>a, <1>d, <1>10 DEF RereadTracker, Trading, At
<1>11. ASSUME NEW c \in Calls, Interlock(c) PROVE RankInv'
  <2>1. calls[c].pc = "interlock" /\ tracker' = tracker /\ Uses(c)
    BY <1>11 DEF Interlock, Uses, At
  <2>2. Counts
    <3>1. calls[c].held \in Calls
      BY <2>1 DEF Inv, TrackerInv
    <3>2. CASE trackers' = [trackers EXCEPT ![calls[c].held] = RollDay(@, Today)]
      BY <1>0, <3>1, <3>2, RollLowers
    <3> QED  BY <1>a, <1>11, <3>2 DEF Interlock
  <2>3. CASE Finish(c)
    BY <1>b, <2>1, <2>2, <2>3
  <2>4. CASE Goto(c, "risk")
    <3>1. /\ calls'[c].pc = "risk" /\ calls'[c].held = calls[c].held
          /\ \A d \in Calls : d # c => calls'[d] = calls[d]
      BY <1>0, <2>4, GotoMoves DEF Pcs
    <3> QED  BY <1>0, <2>1, <2>2, <3>1, QuietMove
  <2> QED  BY <1>11, <2>3, <2>4, InterlockMoves
<1>12. ASSUME NEW c \in Calls, RiskCheck(c) PROVE RankInv'
  BY <1>0, <1>12, RiskCheckRanks
<1>13. ASSUME NEW c \in Calls, Answered(c) PROVE RankInv'
  BY <1>0, <1>13, AnsweredRanks
<1>14. CASE UNCHANGED vars
  BY <1>0, <1>14, IdleRanks DEF vars
<1>15. QED
  BY <1>1, <1>2, <1>3, <1>4, <1>5, <1>6, <1>7, <1>8,
     <1>9, <1>10, <1>11, <1>12, <1>13, <1>14 DEF Next, Step

(* No tracker is known at first.                                           *)
LEMMA RankInit == Init => RankInv
<1> SUFFICES ASSUME Init PROVE RankInv
  OBVIOUS
<1>1. tracker = NoTracker /\ \A t \in Calls : trackers[t].orders = 0 /\ ~Uses(t)
  BY DEF Init, NewRiskTracker, NoCall, Uses, At
<1>2. Known = {}
  BY <1>1, ProcessAssumption DEF Known, Users, ProcessAssumption
<1>3. Ranks([c \in Calls |-> 0])
  BY <1>1, <1>2 DEF Ranks
<1>4. [c \in Calls |-> 0] \in [Calls -> Nat]
  OBVIOUS
<1> QED  BY <1>3, <1>4 DEF RankInv

-----------------------------------------------------------------------------
(* What ranked trackers come to.  A sum is the number of its units.        *)

(* The cells at or below the diagonal of a square without its first column *)
(* are half of the cells that are left.                                    *)
Triangle(k) == {p \in (0 .. k - 1) \X (1 .. k - 1) : p[2] <= p[1]}

(* They and their mirror image make up the rectangle.                      *)
LEMMA TriangleCounts ==
    ASSUME NEW k \in Nat \ {0}
    PROVE  /\ IsFiniteSet(Triangle(k)) /\ Cardinality(Triangle(k)) \in Nat
           /\ 2 * Cardinality(Triangle(k)) = k * (k - 1)
<1> DEFINE Cells == (0 .. k - 1) \X (1 .. k - 1)
<1>1. IsFiniteSet(Cells) /\ Cardinality(Cells) = k * (k - 1)
  <2>1. IsFiniteSet(0 .. k - 1) /\ Cardinality(0 .. k - 1) = k
    BY FS_Interval
  <2>2. IsFiniteSet(1 .. k - 1) /\ Cardinality(1 .. k - 1) = k - 1
    BY FS_Interval
  <2>3. /\ IsFiniteSet(Cells)
        /\ Cardinality(Cells) = Cardinality(0 .. k - 1) * Cardinality(1 .. k - 1)
    BY <2>1, <2>2, FS_Product
  <2> QED  BY <2>1, <2>2, <2>3
<1>2. PICK C, T : C = Cells /\ T = Triangle(k)
  OBVIOUS
<1>3. T \in SUBSET C
  BY <1>2 DEF Triangle
<1>4. IsFiniteSet(C) /\ IsFiniteSet(T) /\ Cardinality(T) \in Nat
  BY <1>1, <1>2, <1>3, FS_Subset, FS_CardinalityType
<1>5. Cardinality(C \ T) = Cardinality(C) - Cardinality(T)
  <2>1. C \cap T = T
    BY <1>3
  <2> QED  BY <1>4, <2>1, FS_Difference
<1>6. Cardinality(C \ T) = Cardinality(T)
  <2> DEFINE mirror == [p \in T |-> <<k - 1 - p[1], k - p[2]>>]
  <2>1. \A p \in T : /\ p[1] \in 0 .. k - 1 /\ p[2] \in 1 .. k - 1 /\ p[2] <= p[1]
                     /\ p = <<p[1], p[2]>>
    BY <1>2 DEF Triangle
  <2>2. \A i \in 0 .. k - 1, j \in 1 .. k - 1 :
          /\ <<i, j>> \in C /\ (<<i, j>> \in T <=> j <= i)
    BY <1>2 DEF Triangle
  <2>3. mirror \in [T -> C \ T]
    <3> SUFFICES ASSUME NEW p \in T PROVE <<k - 1 - p[1], k - p[2]>> \in C \ T
      OBVIOUS
    <3>1. /\ k - 1 - p[1] \in 0 .. k - 1 /\ k - p[2] \in 1 .. k - 1
          /\ ~(k - p[2] <= k - 1 - p[1])
      BY <2>1
    <3> QED  BY <2>2, <3>1
  <2>4. \A p, q \in T : mirror[p] = mirror[q] => p = q
    BY <2>1
  <2>5. \A r \in C \ T : \E p \in T : mirror[p] = r
    <3> TAKE r \in C \ T
    <3>1. PICK i \in 0 .. k - 1, j \in 1 .. k - 1 : r = <<i, j>>
      BY <1>2
    <3>2. ~(j <= i)
      BY <2>2, <3>1
    <3>3. k - 1 - i \in 0 .. k - 1 /\ k - j \in 1 .. k - 1 /\ k - j <= k - 1 - i
      BY <3>2
    <3>4. <<k - 1 - i, k - j>> \in T
      BY <2>2, <3>3
    <3>5. mirror[<<k - 1 - i, k - j>>] = <<i, j>>
      BY <3>4
    <3> QED  BY <3>1, <3>4, <3>5
  <2>6. ExistsBijection(T, C \ T)
    BY <2>3, <2>4, <2>5 DEF ExistsBijection, Bijection, Injection, Surjection, IsInjective
  <2> QED  BY <1>4, <2>6, FS_Bijection
<1>7. Cardinality(C) = k * (k - 1)
  BY <1>1, <1>2
<1>8. 2 * Cardinality(T) = Cardinality(C)
  <2>1. Cardinality(C) \in Nat
    BY <1>4, FS_CardinalityType
  <2> QED  BY <1>4, <1>5, <1>6, <2>1
<1> QED  BY <1>2, <1>4, <1>7, <1>8

(* What each tracker holds below the cap is bounded by the cap, and what   *)
(* they hold above it falls into the triangle of their ranks.              *)
LEMMA RankedTotal ==
    ASSUME TypeOK, RankInv
    PROVE  RecordedIsBounded
<1> DEFINE f == [c \in Calls |-> trackers[c].orders]
           U == UNION {{x} \X (1 .. f[x]) : x \in Calls}
<1>1. PICK k, M \in Nat, rank \in [Calls -> Nat] :
        k = Cardinality(Calls) /\ M = MaxDailyOrders /\ Ranks(rank)
  <2>1. Cardinality(Calls) \in Nat /\ MaxDailyOrders \in Nat
    BY CallSets, CapsAssumption DEF CapsAssumption
  <2> QED  BY <2>1 DEF RankInv
<1>2. k \in Nat \ {0} /\ IsFiniteSet(Calls) /\ M \in Nat
  BY <1>1, ProcessAssumption, CapsAssumption, FS_CardinalityType, FS_EmptySet
     DEF ProcessAssumption, CapsAssumption
<1>3. \A x \in Calls : f[x] = trackers[x].orders /\ f[x] \in Nat
  BY DEF TypeOK, Trackers
<1>4. \A t \in Known : rank[t] \in Nat /\ rank[t] <= k - 1 /\ f[t] <= M + rank[t]
  <2> TAKE t \in Known
  <2>1. /\ t \in Calls /\ tracker \in Calls /\ rank[t] <= rank[tracker]
        /\ rank[tracker] + 1 + Cardinality(Builders) = k
        /\ trackers[t].orders + Cardinality(InFlight(t)) <= M + rank[t]
    BY <1>1 DEF Ranks, Known, TypeOK
  <2>2. Cardinality(Builders) \in Nat /\ Cardinality(InFlight(t)) \in Nat
    <3>1. Builders \in SUBSET Calls /\ InFlight(t) \in SUBSET Calls
      BY DEF Builders, InFlight, Users
    <3> QED  BY <3>1, CallSets
  <2>3. rank[t] \in Nat /\ rank[tracker] \in Nat
    BY <2>1
  <2> QED  BY <1>2, <1>3, <2>1, <2>2, <2>3
<1>5. \A u \in U : /\ u = <<u[1], u[2]>> /\ u[1] \in Calls /\ u[2] \in Nat \ {0}
                   /\ u[2] <= f[u[1]] /\ u[1] \in Known
  <2> TAKE u \in U
  <2>1. PICK x \in Calls : u \in {x} \X (1 .. f[x])
    OBVIOUS
  <2>2. u = <<u[1], u[2]>> /\ u[1] = x /\ u[2] \in 1 .. f[x]
    BY <2>1
  <2>3. u[2] \in Nat \ {0} /\ u[2] <= f[x] /\ f[x] # 0
    BY <1>3, <2>2
  <2>4. x \in Known
    BY <1>3, <2>3 DEF Known
  <2> QED  BY <2>2, <2>3, <2>4
<1> HIDE DEF f, U
<1>6. PICK Low : Low = {u \in U : u[2] <= M}
  OBVIOUS
<1>7. IsFiniteSet(Low) /\ Cardinality(Low) \in Nat /\ Cardinality(Low) <= k * M
  <2>1. IsFiniteSet(1 .. M) /\ Cardinality(1 .. M) = M
    BY <1>2, FS_Interval
  <2>2. /\ IsFiniteSet(Calls \X (1 .. M))
        /\ Cardinality(Calls \X (1 .. M)) = Cardinality(Calls) * Cardinality(1 .. M)
    BY <1>2, <2>1, FS_Product
  <2>3. Cardinality(Calls \X (1 .. M)) = k * M
    BY <1>1, <2>1, <2>2
  <2>4. Low \subseteq Calls \X (1 .. M)
    <3> SUFFICES ASSUME NEW u \in Low PROVE u \in Calls \X (1 .. M)
      OBVIOUS
    <3>1. u = <<u[1], u[2]>> /\ u[1] \in Calls /\ u[2] \in 1 .. M
      BY <1>2, <1>5, <1>6
    <3> QED  BY <3>1
  <2> QED  BY <2>2, <2>3, <2>4, FS_Subset, FS_CardinalityType
<1>8. PICK T : T = Triangle(k)
  OBVIOUS
<1>9. IsFiniteSet(T) /\ Cardinality(T) \in Nat /\ 2 * Cardinality(T) = k * (k - 1)
  BY <1>2, <1>8, TriangleCounts
<1>10. IsFiniteSet(U \ Low) /\ Cardinality(U \ Low) <= Cardinality(T)
  <2> DEFINE place == [u \in U \ Low |-> <<rank[u[1]], u[2] - M>>]
  <2>1. \A u \in U \ Low : /\ u = <<u[1], u[2]>> /\ u[1] \in Known
                           /\ rank[u[1]] \in 0 .. k - 1 /\ u[2] - M \in 1 .. k - 1
                           /\ u[2] - M <= rank[u[1]] /\ u[2] \in Nat
    <3> TAKE u \in U \ Low
    <3>1. u = <<u[1], u[2]>> /\ u[1] \in Known /\ u[2] \in Nat /\ u[2] <= f[u[1]] /\ ~(u[2] <= M)
      BY <1>5, <1>6
    <3>2. /\ rank[u[1]] \in Nat /\ rank[u[1]] <= k - 1 /\ f[u[1]] <= M + rank[u[1]]
          /\ f[u[1]] \in Nat
      BY <1>3, <1>4, <1>5, <3>1
    <3> QED  BY <1>2, <3>1, <3>2
  <2>2. place \in [U \ Low -> T]
    <3> SUFFICES ASSUME NEW u \in U \ Low PROVE <<rank[u[1]], u[2] - M>> \in T
      OBVIOUS
    <3> QED  BY <1>8, <2>1 DEF Triangle
  <2>3. \A u, v \in U \ Low : place[u] = place[v] => u = v
    <3> SUFFICES ASSUME NEW u \in U \ Low, NEW v \in U \ Low, place[u] = place[v] PROVE u = v
      OBVIOUS
    <3>1. rank[u[1]] = rank[v[1]] /\ u[2] - M = v[2] - M
      OBVIOUS
    <3>2. u[1] = v[1]
      BY <1>1, <2>1, <3>1 DEF Ranks
    <3>3. u[2] = v[2]
      BY <1>2, <2>1, <3>1
    <3> QED  BY <2>1, <3>2, <3>3
  <2>4. place \in Injection(U \ Low, T)
    BY <2>2, <2>3 DEF Injection, IsInjective
  <2> QED  BY <1>9, <2>4, FS_Injection
<1>11. Cardinality(U) <= k * M + Cardinality(T) /\ Cardinality(U) \in Nat
  <2>1. PICK H : H = U \ Low
    OBVIOUS
  <2>2. Low \cup H = U /\ Low \cap H = {}
    BY <1>6, <2>1
  <2>3. IsFiniteSet(Low \cup H)
        /\ Cardinality(Low \cup H) = Cardinality(Low) + Cardinality(H) - Cardinality(Low \cap H)
    BY <1>7, <1>10, <2>1, FS_Union
  <2>4. Cardinality(Low \cap H) = 0 /\ Cardinality(H) \in Nat /\ Cardinality(U) \in Nat
    BY <1>10, <2>1, <2>2, <2>3, FS_EmptySet, FS_CardinalityType
  <2>5. Cardinality(U) = Cardinality(Low) + Cardinality(H)
    <3>1. Cardinality(Low \cup H) = Cardinality(U)
      BY <2>2
    <3> QED  BY <1>7, <2>3, <2>4, <3>1
  <2>6. k * M \in Nat
    BY <1>2
  <2>7. Cardinality(H) <= Cardinality(T)
    BY <1>10, <2>1
  <2> QED  BY <1>7, <1>9, <2>4, <2>5, <2>6, <2>7
<1>12. Total(f) = Cardinality(U)
  BY DEF Total, f, U
<1>13. (k * (k - 1)) \div 2 = Cardinality(T)
  <2>1. PICK n, m \in Nat : n = k * (k - 1) /\ m = Cardinality(T) /\ 2 * m = n
    BY <1>9
  <2>2. n \div 2 = m
    BY <2>1
  <2> QED  BY <2>1, <2>2
<1> QED  BY <1>1, <1>11, <1>12, <1>13 DEF RecordedIsBounded, f

-----------------------------------------------------------------------------
(* The theorems.                                                           *)

(* No process runs at first.                                               *)
LEMMA InitHolds == Init => Inv /\ AloneInv
<1> SUFFICES ASSUME Init PROVE Inv /\ AloneInv
  OBVIOUS
<1>1. TypeOK
  BY TrackerTypes DEF Init, TypeOK, NoCall, CallRecords, Pcs, Kinds, NewRiskTracker, Trackers
<1>2. PlaceInv
  BY DEF Init, PlaceInv, At, NoCall
<1>3. ConsentInv /\ TrackerInv
  BY DEF Init, ConsentInv, TrackerInv, At, NoCall, Uses, PastGate, WithTracker
<1>4. AloneInv
  BY DEF Init, AloneInv, Is, At, Uses, NoCall, PastGate, WithTracker, NewRiskTracker
<1>5. QED
  BY <1>1, <1>2, <1>3, <1>4 DEF Inv

(* The inductive invariant holds throughout.                               *)
LEMMA Invariance == Spec => [](Inv /\ AloneInv)
<1>1. Inv /\ AloneInv /\ [Next]_vars => (Inv /\ AloneInv)'
  BY TypeStep, PlaceStep, ConsentStep, TrackerStep, AloneStep DEF Inv
<1>2. QED
  BY <1>1, InitHolds, PTL DEF Spec

(* Every variable of a process has its type, whatever the environment, the *)
(* number of goroutines and the caps (Handler, config.Config).             *)
THEOREM TypeCorrect == Spec => []TypeOK
  BY Invariance, PTL DEF Inv

(* A signed request is backed by the operator's startup consent, a placing *)
(* or amending one by this process's own arming too (config.load,          *)
(* livePlaceOrder, liveAmendOrder).                                        *)
THEOREM SignedOnlyWithConsent == Spec => []SignedWithConsent
<1>1. Inv => SignedWithConsent
  <2> SUFFICES ASSUME Inv, NEW c \in Calls, At(c, "sent")
               PROVE  Consented(env) /\ (Is(c, {"place"}) => agreed /\ env.limits = "usable")
    BY DEF SignedWithConsent
  <2>1. config # NoConfig /\ config.mode = "live" /\ config = Load(env)
    BY DEF Inv, PlaceInv, ConsentInv, At
  <2>2. Consented(env)
    BY <2>1, LoadConfigures DEF Inv, TypeOK
  <2>3. Is(c, {"place"}) => agreed /\ env.limits = "usable"
    BY DEF Inv, ConsentInv, TrackerInv, Uses, PastGate, WithTracker, At
  <2>4. QED
    BY <2>2, <2>3
<1>2. QED
  BY <1>1, Invariance, PTL

(* The private key stays unread until a process is started for live        *)
(* trading, and by placing and amending until it is armed (liveClient).    *)
THEOREM KeyStaysUntouched == Spec => []KeyUntouched
<1>1. Inv => KeyUntouched
  BY LoadConfigures DEF Inv, TypeOK, ConsentInv, KeyUntouched
<1>2. QED
  BY <1>1, Invariance, PTL

(* With an agent that waits for arm_live_trading, every order is recorded  *)
(* in the handler's one tracker, although it is built without a lock       *)
(* (liveTracker, trackerSnapshot).                                         *)
THEOREM AwaitedArmingIsSafe == Spec => []OneTrackerKnowsAll
<1>1. Inv /\ AloneInv => OneTrackerKnowsAll
  <2> SUFFICES ASSUME Inv, AloneInv, armsAlone, NEW c \in Calls
               PROVE  /\ c # tracker => trackers[c].orders = 0
                      /\ calls[c].pc \in {"risk", "sent"} /\ Is(c, {"place"}) =>
                           calls[c].held = tracker
    BY DEF OneTrackerKnowsAll
  <2>1. QED
    BY DEF AloneInv, Uses, At, Is
<1>2. QED
  BY <1>1, Invariance, PTL
(* Whatever the agent does, the trackers that one process builds without a *)
(* lock record together at most the daily cap each, and k(k-1)/2 orders    *)
(* more for k goroutines (liveTracker, checkOrder, RecordOrder).           *)
THEOREM RecordedBounded == Spec => []RecordedIsBounded
<1>1. Inv /\ RankInv => RecordedIsBounded
  BY RankedTotal DEF Inv
<1>2. Inv /\ RankInv /\ (Inv' /\ [Next]_vars) => RankInv'
  BY RankStep
<1>3. Spec => []Inv
  BY Invariance, PTL
<1>4. QED
  BY <1>1, <1>2, <1>3, RankInit, PTL DEF Spec
=============================================================================
