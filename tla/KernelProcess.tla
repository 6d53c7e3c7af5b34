--------------------------- MODULE KernelProcess ---------------------------
(***************************************************************************)
(* One kernel process after another, from the operator's environment       *)
(* (internal/config, cmd/kalshi-kernel) to what the live tools share: the  *)
(* arm flag, the signed client and the risk tracker, the last two built on *)
(* first use without a lock (handler_live.go, handler_paper.go).           *)
(*                                                                         *)
(* LiveTrading models a write in full and takes client and tracker as      *)
(* built.  Here a write is its gates, one round trip and its record, every *)
(* order has the same cost, and the UTC day does not change.  A tracker is *)
(* named by the goroutine that built it.                                   *)
(***************************************************************************)
EXTENDS RiskTracker

CONSTANTS Calls,       \* goroutines serving a tool call at the same time
          OrderCents,  \* notional of an order
          NoTracker,   \* Handler.tracker = nil
          NoConfig     \* no process is running

ASSUME ProcessAssumption ==
    /\ IsFiniteSet(Calls) /\ Calls # {}
    /\ OrderCents \in Nat
    /\ NoTracker \notin Calls

(* The environment of a process, fixed when it starts.  A value is a word  *)
(* and whether it is spelled plainly, without blanks around it and in the  *)
(* letter case of the documentation; "" is unset or blank.  Credentials    *)
(* are trimmed wherever they are read.  "usable" risk variables are those  *)
(* NewRiskTracker accepts: the caps of RiskTracker.                        *)
Spelled(words) == [word : words, plain : BOOLEAN]

Environments == [mode : Spelled({"", "paper", "live", "other"}),
                 ack : Spelled({"", "acknowledgement", "other"}),
                 id : {"", "key id"},
                 path : {"", "key path"},
                 limits : {"usable", "broken"}]

Configs == [mode : {"paper", "live"}, id : {"", "key id"}, path : {"", "key path"}]

ASSUME NoConfigAssumption == NoConfig \notin Configs

VARIABLES env,        \* the environment of the last process started
          config,     \* Handler.config, or NoConfig
          armed,      \* ArmState.armed
          client,     \* is Handler.live set?
          tracker,    \* Handler.tracker, by its builder
          trackers,   \* the tracker each goroutine has built
          calls,      \* the goroutines
          armsAlone,  \* does the agent wait for the answer of arm_live_trading?
          agreed,     \* history: this process was given the literal
          keyUsers    \* history: the tools that have loaded the private key

vars == <<env, config, armed, client, tracker, trackers, calls, armsAlone, agreed, keyUsers>>

(* "place" is place_order and amend_order, which pass the same gates,      *)
(* "read" is get_portfolio and cancel_order, which need no arming.         *)
Kinds == {"arm", "disarm", "place", "read"}

Arming == {"arm", "disarm"}

Pcs == {"idle", "dispatch", "arm", "gate", "credentials", "tracker", "publish",
        "reread", "interlock", "risk", "sent"}

(* literal: is the acknowledgement passed to the tool the exact phrase?    *)
NoCall == [pc |-> "idle", kind |-> "read", literal |-> FALSE, held |-> NoTracker]

CallRecords == [pc : Pcs, kind : Kinds, literal : BOOLEAN, held : Calls \cup {NoTracker}]

TypeOK ==
    /\ env \in Environments
    /\ config \in Configs \cup {NoConfig}
    /\ armed \in BOOLEAN
    /\ client \in BOOLEAN
    /\ tracker \in Calls \cup {NoTracker}
    /\ trackers \in [Calls -> Trackers]
    /\ calls \in [Calls -> CallRecords]
    /\ armsAlone \in BOOLEAN
    /\ agreed \in BOOLEAN
    /\ keyUsers \subseteq Kinds

-----------------------------------------------------------------------------
(* Startup.                                                                *)

Paper == [mode |-> "paper", id |-> "", path |-> ""]

Mode(e) == IF e.mode.word = "" THEN "paper" ELSE e.mode.word

(* Mutant: the acknowledgement is trimmed like the other variables.        *)
Load_TrimsAcknowledgement(e) ==
    IF Mode(e) = "paper" THEN Paper
    ELSE IF /\ Mode(e) = "live"
            /\ e.ack.word = "acknowledgement"
            /\ e.id # "" /\ e.path # ""
         THEN [mode |-> "live", id |-> e.id, path |-> e.path]
         ELSE NoConfig

(* Mutant: a mode that is neither is not refused.                          *)
Load_AnyMode(e) ==
    IF Mode(e) = "paper" THEN Paper
    ELSE IF /\ Mode(e) = "live"
            /\ \/ e.ack # [word |-> "acknowledgement", plain |-> TRUE]
               \/ e.id = "" \/ e.path = ""
         THEN NoConfig
         ELSE [mode |-> Mode(e), id |-> e.id, path |-> e.path]

(* config.load: mode and credentials are trimmed, the acknowledgement is   *)
(* compared as it stands.  Paper mode drops the credentials.  Anything     *)
(* else is an error and ends the process.                                  *)
Load(e) ==
    IF Mode(e) = "paper" THEN Paper
    ELSE IF /\ Mode(e) = "live"
            /\ e.ack = [word |-> "acknowledgement", plain |-> TRUE]
            /\ e.id # "" /\ e.path # ""
         THEN [mode |-> "live", id |-> e.id, path |-> e.path]
         ELSE NoConfig

Init ==
    /\ env \in Environments
    /\ config = NoConfig
    /\ armsAlone \in BOOLEAN
    /\ armed = FALSE
    /\ client = FALSE
    /\ tracker = NoTracker
    /\ trackers = [c \in Calls |-> NewRiskTracker]
    /\ calls = [c \in Calls |-> NoCall]
    /\ agreed = FALSE
    /\ keyUsers = {}

(* main starts a process in an environment of the operator's choice; one   *)
(* that Load refuses ends at once and leaves nothing.                      *)
Start ==
    /\ config = NoConfig
    /\ \E e \in Environments :
         /\ Load(e) # NoConfig
         /\ env' = e
         /\ config' = Load(e)
    /\ UNCHANGED <<armed, client, tracker, trackers, calls, armsAlone, agreed, keyUsers>>

(* The process ends, at any point of any call; nothing is kept.            *)
Stop ==
    /\ config # NoConfig
    /\ config' = NoConfig
    /\ armed' = FALSE
    /\ client' = FALSE
    /\ tracker' = NoTracker
    /\ trackers' = [c \in Calls |-> NewRiskTracker]
    /\ calls' = [c \in Calls |-> NoCall]
    /\ agreed' = FALSE
    /\ keyUsers' = {}
    /\ UNCHANGED <<env, armsAlone>>

-----------------------------------------------------------------------------
(* Tool calls.                                                             *)

At(c, label) == calls[c].pc = label
Is(c, kinds) == calls[c].kind \in kinds
Goto(c, label) == calls' = [calls EXCEPT ![c].pc = label]
Finish(c) == calls' = [calls EXCEPT ![c] = NoCall]
TakeTracker(c) == calls' = [calls EXCEPT ![c].pc = "interlock", ![c].held = tracker]

Startup == <<env, config, armsAlone>>
Trading == <<client, tracker, trackers, keyUsers>>
Authority == <<armed, agreed>>

(* An agent that waits for arm_live_trading has no other call under way.   *)
MayCall(k) ==
    armsAlone =>
      IF k \in Arming THEN \A d \in Calls : At(d, "idle")
                      ELSE \A d \in Calls : Is(d, Arming) => At(d, "idle")

Begin(c, k, literal) ==
    /\ config # NoConfig
    /\ At(c, "idle")
    /\ MayCall(k)
    /\ calls' = [calls EXCEPT ![c] = [pc |-> "dispatch", kind |-> k, literal |-> literal,
                                      held |-> NoTracker]]
    /\ agreed' = (agreed \/ (k = "arm" /\ literal))
    /\ UNCHANGED <<Startup, Trading, armed>>

(* Mutant: the arm check of writes is left to the client.                  *)
Dispatch_NoArmGate(c) ==
    /\ At(c, "dispatch")
    /\ \/ config.mode = "paper" /\ Finish(c)
       \/ config.mode = "live" /\ Is(c, Arming) /\ Goto(c, "arm")
       \/ config.mode = "live" /\ ~Is(c, Arming) /\ Goto(c, "credentials")
    /\ UNCHANGED <<Startup, Trading, Authority>>

(* Each handler looks at the mode first.  In paper mode arming is refused  *)
(* and the other tools work on the paper book (PaperTrading).  In live     *)
(* mode unsupported products and subaccounts are refused before any gate.  *)
Dispatch(c) ==
    /\ At(c, "dispatch")
    /\ \/ config.mode = "paper" /\ Finish(c)
       \/ config.mode = "live" /\ ~Is(c, Arming) /\ Finish(c)
       \/ config.mode = "live" /\ Is(c, Arming) /\ Goto(c, "arm")
       \/ config.mode = "live" /\ Is(c, {"place"}) /\ Goto(c, "gate")
       \/ config.mode = "live" /\ Is(c, {"read"}) /\ Goto(c, "credentials")
    /\ UNCHANGED <<Startup, Trading, Authority>>

(* Mutant: the reply to arming does not look at the tracker.               *)
Arm_NoSnapshot(c) ==
    /\ At(c, "arm")
    /\ Finish(c)
    /\ \/ Is(c, {"arm"}) /\ ~calls[c].literal /\ UNCHANGED armed
       \/ Is(c, {"arm"}) /\ calls[c].literal /\ armed' = TRUE
       \/ Is(c, {"disarm"}) /\ armed' = FALSE
    /\ UNCHANGED <<Startup, Trading, agreed>>

(* ArmState.Arm compares the literal, Disarm takes none; the reply then    *)
(* reports the tracker's totals.                                           *)
Arm(c) ==
    /\ At(c, "arm")
    /\ \/ Is(c, {"arm"}) /\ ~calls[c].literal /\ Finish(c) /\ UNCHANGED armed
       \/ Is(c, {"arm"}) /\ calls[c].literal /\ armed' = TRUE /\ Goto(c, "tracker")
       \/ Is(c, {"disarm"}) /\ armed' = FALSE /\ Goto(c, "tracker")
    /\ UNCHANGED <<Startup, Trading, agreed>>

(* The handler's arm gate stands before any credential use.                *)
Gate(c) ==
    /\ At(c, "gate")
    /\ \/ ~armed /\ Finish(c)
       \/ armed /\ Goto(c, "credentials")
    /\ UNCHANGED <<Startup, Trading, Authority>>

(* liveClient, whose failure is not kept: the next call tries again.  Two  *)
(* goroutines that both load the key get clients that do not differ, so    *)
(* reading nil, loading and assigning are one step.                        *)
Credentials(c) ==
    LET next == IF Is(c, {"place"}) THEN "tracker" ELSE "sent" IN
    /\ At(c, "credentials")
    /\ \/ client /\ Goto(c, next) /\ UNCHANGED <<client, keyUsers>>
       \/ /\ ~client /\ config.id # "" /\ config.path # ""
          /\ client' = TRUE
          /\ keyUsers' = keyUsers \cup {calls[c].kind}
          /\ Goto(c, next)
       \/ ~client /\ Finish(c) /\ UNCHANGED <<client, keyUsers>>
    /\ UNCHANGED <<Startup, Authority, tracker, trackers>>

(* liveTracker, on behalf of a reply to arming or of a write: the reply    *)
(* leaves its totals out on error, the write fails.                        *)
OpenTracker(c) ==
    /\ At(c, "tracker")
    /\ \/ tracker # NoTracker /\ TakeTracker(c) /\ UNCHANGED trackers
       \/ /\ tracker = NoTracker /\ env.limits = "broken"
          /\ Finish(c)
          /\ UNCHANGED trackers
       \/ /\ tracker = NoTracker /\ env.limits = "usable"
          /\ trackers' = [trackers EXCEPT ![c] = NewRiskTracker]
          /\ Goto(c, "publish")
    /\ UNCHANGED <<Startup, Authority, client, tracker, keyUsers>>

(* handler.tracker = tracker: an assignment without a lock.                *)
PublishTracker(c) ==
    /\ At(c, "publish")
    /\ tracker' = c
    /\ Goto(c, "reread")
    /\ UNCHANGED <<Startup, Authority, client, trackers, keyUsers>>

(* return handler.tracker: the field is read again.                        *)
RereadTracker(c) ==
    /\ At(c, "reread")
    /\ TakeTracker(c)
    /\ UNCHANGED <<Startup, Authority, Trading>>

Today == 1

(* With the tracker in hand, a reply to arming takes its Snapshot, which   *)
(* rolls the day, and ends; a write reads the arm state again.             *)
Interlock(c) ==
    LET own == calls[c].held IN
    /\ At(c, "interlock")
    /\ \/ /\ Is(c, Arming)
          /\ trackers' = [trackers EXCEPT ![own] = RollDay(@, Today)]
          /\ Finish(c)
       \/ ~Is(c, Arming) /\ ~armed /\ Finish(c) /\ UNCHANGED trackers
       \/ ~Is(c, Arming) /\ armed /\ Goto(c, "risk") /\ UNCHANGED trackers
    /\ UNCHANGED <<Startup, Authority, client, tracker, keyUsers>>

(* checkOrder on the tracker in hand, and the request is sent.             *)
RiskCheck(c) ==
    LET own == calls[c].held IN
    /\ At(c, "risk")
    /\ trackers' = [trackers EXCEPT ![own] = RollDay(@, Today)]
    /\ \/ Finish(c)
       \/ WithinCaps(trackers[own], Today, OrderCents) /\ Goto(c, "sent")
    /\ UNCHANGED <<Startup, Authority, client, tracker, keyUsers>>

(* The answer, or none: a write that succeeded is recorded on the tracker  *)
(* that let it through.                                                    *)
Answered(c) ==
    LET own == calls[c].held IN
    /\ At(c, "sent")
    /\ Finish(c)
    /\ \/ UNCHANGED trackers
       \/ /\ Is(c, {"place"})
          /\ trackers' = [trackers EXCEPT ![own] = Record(@, Today, OrderCents)]
    /\ UNCHANGED <<Startup, Authority, client, tracker, keyUsers>>

Step(c) ==
    \/ Dispatch(c) \/ Arm(c) \/ Gate(c) \/ Credentials(c)
    \/ OpenTracker(c) \/ PublishTracker(c) \/ RereadTracker(c)
    \/ Interlock(c) \/ RiskCheck(c) \/ Answered(c)

Next ==
    \/ Start
    \/ Stop
    \/ \E c \in Calls :
         \/ \E k \in Kinds, literal \in BOOLEAN : Begin(c, k, literal)
         \/ Step(c)

Spec == Init /\ [][Next]_vars

-----------------------------------------------------------------------------
(* Properties.                                                             *)

Consented(e) ==
    /\ e.mode.word = "live"
    /\ e.ack = [word |-> "acknowledgement", plain |-> TRUE]
    /\ e.id # "" /\ e.path # ""

(* A request leaves the process only if its operator asked for live mode,  *)
(* acknowledged it to the letter and gave credentials when it started, and *)
(* a placing or amending one only if moreover the risk variables could be  *)
(* read and this very process was given the literal a second time          *)
(* (config.load, the gates of handler_live.go).                            *)
SignedWithConsent ==
    \A c \in Calls : At(c, "sent") =>
        /\ Consented(env)
        /\ Is(c, {"place"}) => agreed /\ env.limits = "usable"

(* No placing or amending call makes a process that was never given the    *)
(* literal load its private key ("Arm gate BEFORE any credential use",     *)
(* handler_live.go), and a process not started for live trading never does.*)
KeyUntouched ==
    /\ "place" \in keyUsers => agreed
    /\ keyUsers # {} => Consented(env)

(* If the agent waits for the answer of arm_live_trading, that answer has  *)
(* built the one tracker before a first write needs it: every order is     *)
(* recorded in the tracker of the handler, and checked against it          *)
(* (liveTracker builds without a lock).                                    *)
OneTrackerKnowsAll ==
    armsAlone => \A c \in Calls :
        /\ c # tracker => trackers[c].orders = 0
        /\ calls[c].pc \in {"risk", "sent"} /\ Is(c, {"place"}) => calls[c].held = tracker

(* Whatever the agent does, one process records in a day at most the daily *)
(* cap on each tracker it may build, and the overrun that the calls in     *)
(* flight allow: one call fewer for each tracker still to come, since a    *)
(* call that is about to replace a tracker is not using one (liveTracker). *)
RecordedIsBounded ==
    LET k == Cardinality(Calls) IN
    Total([c \in Calls |-> trackers[c].orders])
        <= k * MaxDailyOrders + (k * (k - 1)) \div 2
=============================================================================
