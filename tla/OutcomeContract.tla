-------------------------- MODULE OutcomeContract --------------------------
(***************************************************************************)
(* What the live write tools promise an agent about the outcome of one     *)
(* call, whatever happens to the process and the network in between: the   *)
(* "duplicate or uncertain execution" section of docs/THREAT_MODEL.md as   *)
(* CancelOrder and PlaceOrder carry it out.                                *)
(*                                                                         *)
(*   - a call takes effect at most once, and none before it is made;       *)
(*   - "ok" is said only of something that is true at the exchange;        *)
(*   - "failed" is said only while the call has had no effect and, since   *)
(*     nobody has given up on it, never will have one;                     *)
(*   - once the answer has been given up, an effect may come at any time,  *)
(*     and the caller hears "ok" or "unknown", never "failed".             *)
(***************************************************************************)
CONSTANTS Calls, Orders, Cents, Kinds

VARIABLES phase,    \* what each call has been told
          intent,   \* the write each call asks for
          effect,   \* whether the write of the call has taken effect
          loose,    \* writes nobody waits for any more
          book      \* status of each order

contractVars == <<phase, intent, effect, loose, book>>

NoIntent == [kind |-> "none"]
Intents == [kind : Kinds, order : Orders, cents : Cents]

Start ==
    /\ phase = [c \in Calls |-> "idle"]
    /\ intent = [c \in Calls |-> NoIntent]
    /\ effect = [c \in Calls |-> FALSE]
    /\ loose = {}
    /\ book = [o \in Orders |-> "none"]

Tell(c, from, to) ==
    /\ phase[c] \in from
    /\ phase' = [phase EXCEPT ![c] = to]

(* A write turns a fresh order (place) or a resting one into one of these. *)
Before(w) == IF w.kind = "place" THEN "none" ELSE "resting"
After(w) == CASE w.kind = "place"  -> {"resting", "executed", "canceled"}
              [] w.kind = "amend"  -> {"resting", "executed"}
              [] w.kind = "cancel" -> {"canceled"}

Apply(w) ==
    /\ book[w.order] = Before(w)
    /\ \E status \in After(w) : book' = [book EXCEPT ![w.order] = status]

Ask(c, w) ==
    /\ Tell(c, {"idle"}, "open")
    /\ intent' = [intent EXCEPT ![c] = w]
    /\ effect' = [effect EXCEPT ![c] = FALSE]
    /\ UNCHANGED <<loose, book>>

TakeEffect(c) ==
    /\ phase[c] = "open" /\ ~effect[c]
    /\ Apply(intent[c])
    /\ effect' = [effect EXCEPT ![c] = TRUE]
    /\ UNCHANGED <<phase, intent, loose>>

GiveUp(c) ==
    /\ Tell(c, {"open"}, "doubt")
    /\ loose' \in {loose} \cup (IF effect[c] THEN {} ELSE {loose \cup {intent[c]}})
    /\ UNCHANGED <<intent, effect, book>>

LateEffect(w) ==
    /\ loose' = loose \ {w}
    /\ Apply(w) \/ UNCHANGED book
    /\ UNCHANGED <<phase, intent, effect>>

HoldsTrue(c) ==
    CASE intent[c].kind = "place"  -> book[intent[c].order] # "none"
      [] intent[c].kind = "amend"  -> effect[c]
      [] intent[c].kind = "cancel" -> book[intent[c].order] = "canceled"

SayOk(c) ==
    /\ Tell(c, {"open", "doubt"}, "ok")
    /\ HoldsTrue(c)
    /\ UNCHANGED <<intent, effect, loose, book>>

SayFailed(c) ==
    /\ Tell(c, {"open"}, "failed")
    /\ ~effect[c]
    /\ UNCHANGED <<intent, effect, loose, book>>

SayUnknown(c) ==
    /\ Tell(c, {"doubt"}, "unknown")
    /\ UNCHANGED <<intent, effect, loose, book>>

Leave(c) ==
    /\ Tell(c, {"ok", "failed", "unknown"}, "idle")
    /\ intent' = [intent EXCEPT ![c] = NoIntent]
    /\ UNCHANGED <<effect, loose, book>>

(* Orders rest until they are filled or end at the exchange.               *)
BookMoves(o) ==
    /\ book[o] = "resting"
    /\ \E status \in {"executed", "canceled"} : book' = [book EXCEPT ![o] = status]
    /\ UNCHANGED <<phase, intent, effect, loose>>

(* The kernel dies: nobody is told anything, and the writes that were open *)
(* without effect become loose or are lost.                                *)
Crash ==
    /\ phase' = [c \in Calls |-> "idle"]
    /\ intent' = [c \in Calls |-> NoIntent]
    /\ effect' = [c \in Calls |-> FALSE]
    /\ \E some \in SUBSET {c \in Calls : phase[c] = "open" /\ ~effect[c]} :
         loose' = loose \cup {intent[c] : c \in some}
    /\ UNCHANGED book

ContractNext ==
    \/ \E c \in Calls, w \in Intents : Ask(c, w)
    \/ \E c \in Calls : TakeEffect(c) \/ GiveUp(c) \/ SayOk(c) \/ SayFailed(c)
                          \/ SayUnknown(c) \/ Leave(c)
    \/ \E w \in loose : LateEffect(w)
    \/ \E o \in Orders : BookMoves(o)
    \/ Crash

Contract == Start /\ [][ContractNext]_contractVars
=============================================================================
