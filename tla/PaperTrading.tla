---------------------------- MODULE PaperTrading ----------------------------
(***************************************************************************)
(* Paper mode: place_order and get_portfolio of one kernel process, from   *)
(* the handler (handler_paper.go) through the public order book            *)
(* (marketdata) to the simulated ledger (PaperLedger).  Each tool call     *)
(* runs on a goroutine of its own, a member of Calls; amend_order and      *)
(* cancel_order change nothing and always fail, and are left out.          *)
(*                                                                         *)
(* The handler builds the process-wide ledger on first use and without a   *)
(* lock, so there may be several ledgers: one for each call that found     *)
(* none.  An omitted client_order_id is NoId.                              *)
(***************************************************************************)
EXTENDS PaperLedger

CONSTANTS Calls,      \* goroutines serving a tool call at the same time
          Ids,        \* client_order_ids of agents
          NoId,       \* client_order_id omitted
          Policies,   \* values of time_in_force
          Prices,     \* prices agents ask for
          Counts,     \* counts agents ask for
          Levels,     \* what either side of the market may display at best
          FirstAlone, \* agents wait for an answer before there is a ledger
          NoLedger    \* handler.paper = nil

ASSUME PaperAssumption ==
    /\ Keys = Tickers \X (Ids \cup Policies)
    /\ NoId \notin Ids /\ Ids \cap Policies = {}
    /\ Prices \subseteq Nat /\ Counts \subseteq Nat
    /\ Levels \subseteq [price : Nat, size : Nat]
    /\ FirstAlone \in BOOLEAN
    /\ NoLedger \notin Calls

VARIABLES paper,     \* Handler.paper: the call whose ledger is in use
          ledgers,   \* the ledger each call has built, if any
          calls,     \* the goroutines
          told,      \* history: the fills agents have been told of
          owed       \* history: what had been told when a call began

vars == <<paper, ledgers, calls, told, owed>>

(* An empty side of the book. *)
Nothing == [price |-> 0, size |-> 0]

Idle == [pc |-> "idle"]

Places == [pc : {"fetch", "open", "publish", "reread", "execute", "done"},
           kind : {"place"}, order : Orders, ledger : Calls \cup {NoLedger},
           reply : [code : {"none", "upstream_error", "internal_error", "journal_full",
                            "invalid_input", "insufficient_book",
                            "insufficient_paper_cash"}]
                   \cup [code : {"ok"}, replayed : BOOLEAN, fill : Fills]]

Reads == [pc : {"open", "publish", "reread", "execute", "done"},
          kind : {"portfolio"}, ledger : Calls \cup {NoLedger},
          reply : [code : {"none"}] \cup [code : {"ok"}, view : Ledgers]]

TypeOK ==
    /\ paper \in Calls \cup {NoLedger}
    /\ ledgers \in [Calls -> Ledgers]
    /\ calls \in [Calls -> {Idle} \cup Places \cup Reads]
    /\ told \subseteq Fills
    /\ owed \in [Calls -> SUBSET Fills]

Init ==
    /\ paper = NoLedger
    /\ ledgers = [o \in Calls |-> NewLedger]
    /\ calls = [c \in Calls |-> Idle]
    /\ told = {}
    /\ owed = [c \in Calls |-> {}]

-----------------------------------------------------------------------------
At(c, label) == calls[c].pc = label
Reply(c, reply) == calls' = [calls EXCEPT ![c].pc = "done", ![c].reply = reply]

Unanswered == [code |-> "none"]

(* FirstAlone is how an agent that waits for its first answer behaves; the *)
(* code does not ask for it.                                               *)
MayBegin(c) ==
    /\ At(c, "idle")
    /\ FirstAlone /\ paper = NoLedger => \A d \in Calls : At(d, "idle")

(* The key of an order: its market and the caller's id, or the time in     *)
(* force where there is none ("ticker:auto:fill_or_kill").                 *)
KeyOf(ticker, id, policy) == <<ticker, IF id = NoId THEN policy ELSE id>>

BeginPlace(c, ticker, id, policy, side, price, count) ==
    /\ MayBegin(c)
    /\ calls' = [calls EXCEPT ![c] =
         [pc |-> "fetch", kind |-> "place", ledger |-> NoLedger, reply |-> Unanswered,
          order |-> [key |-> KeyOf(ticker, id, policy), ticker |-> ticker, side |-> side,
                     price |-> price, count |-> count, bookPrice |-> 0, bookSize |-> 0]]]
    /\ owed' = [owed EXCEPT ![c] = told]
    /\ UNCHANGED <<paper, ledgers, told>>

BeginPortfolio(c) ==
    /\ MayBegin(c)
    /\ calls' = [calls EXCEPT ![c] =
         [pc |-> "open", kind |-> "portfolio", ledger |-> NoLedger, reply |-> Unanswered]]
    /\ owed' = [owed EXCEPT ![c] = told]
    /\ UNCHANGED <<paper, ledgers, told>>

(* The public order book of a market: best YES bid and best NO bid.  It    *)
(* moves at any time and only Fetch looks at it, which may find it to be   *)
(* any of these.                                                           *)
Orderbooks == [yes : Levels \cup {Nothing}, no : Levels \cup {Nothing}]

(* Where an order of this side trades: a seller hits the best YES bid, a   *)
(* buyer the best NO bid, converted.                                       *)
Touch(book, side) ==
    IF side = "ask" THEN book.yes
    ELSE [book.no EXCEPT !.price = YesAskFromNoBid(@)]

Displayed(book, side) ==
    IF side = "ask" THEN book.yes # Nothing ELSE book.no # Nothing

(* No order book: the exchange cannot be reached, refuses, or its answer   *)
(* cannot be read.                                                         *)
FetchFails(c) ==
    /\ At(c, "fetch")
    /\ Reply(c, [code |-> "upstream_error"])
    /\ UNCHANGED <<paper, ledgers, told, owed>>

(* The order book is fetched, then compared with the order: the price must *)
(* be the touch.                                                           *)
Fetch(c) ==
    /\ At(c, "fetch")
    /\ \E book \in Orderbooks :
       LET order == calls[c].order
           touch == Touch(book, order.side)
           crosses == Displayed(book, order.side) /\ order.price = touch.price
       IN  \/ ~crosses /\ Reply(c, [code |-> "internal_error"])
           \/ /\ crosses
              /\ calls' = [calls EXCEPT ![c].pc = "open",
                                        ![c].order.bookPrice = touch.price,
                                        ![c].order.bookSize = touch.size]
    /\ UNCHANGED <<paper, ledgers, told, owed>>

(* Mutant: every call builds a ledger.                                     *)
OpenLedger_Always(c) ==
    /\ At(c, "open")
    /\ ledgers' = [ledgers EXCEPT ![c] = NewLedger]
    /\ calls' = [calls EXCEPT ![c].pc = "publish"]
    /\ UNCHANGED <<paper, told, owed>>

(* paperLedger: look for the ledger, build one where there is none, make   *)
(* it the process-wide one, and return what is that by then.               *)
OpenLedger(c) ==
    /\ At(c, "open")
    /\ \/ /\ paper = NoLedger
          /\ ledgers' = [ledgers EXCEPT ![c] = NewLedger]
          /\ calls' = [calls EXCEPT ![c].pc = "publish"]
       \/ /\ paper # NoLedger
          /\ calls' = [calls EXCEPT ![c].pc = "reread"]
          /\ UNCHANGED ledgers
    /\ UNCHANGED <<paper, told, owed>>

Publish(c) ==
    /\ At(c, "publish")
    /\ paper' = c
    /\ calls' = [calls EXCEPT ![c].pc = "reread"]
    /\ UNCHANGED <<ledgers, told, owed>>

Reread(c) ==
    /\ At(c, "reread")
    /\ calls' = [calls EXCEPT ![c].pc = "execute", ![c].ledger = paper]
    /\ UNCHANGED <<paper, ledgers, told, owed>>

(* Ledger.Execute under the ledger's mutex.                                *)
Execute(c) ==
    /\ At(c, "execute") /\ calls[c].kind = "place"
    /\ LET ledger == ledgers[calls[c].ledger] IN
       /\ ledgers' = [ledgers EXCEPT ![calls[c].ledger] =
                        AfterExecute(ledger, calls[c].order)]
       /\ Reply(c, Answer(ledger, calls[c].order))
    /\ UNCHANGED <<paper, told, owed>>

(* Mutant: a portfolio read looks at the ledger the call may have built.   *)
Snapshot_OwnLedger(c) ==
    /\ At(c, "execute") /\ calls[c].kind = "portfolio"
    /\ Reply(c, [code |-> "ok", view |-> ledgers[c]])
    /\ UNCHANGED <<paper, ledgers, told, owed>>

(* Ledger.Snapshot under the ledger's mutex.                               *)
Snapshot(c) ==
    /\ At(c, "execute") /\ calls[c].kind = "portfolio"
    /\ Reply(c, [code |-> "ok", view |-> ledgers[calls[c].ledger]])
    /\ UNCHANGED <<paper, ledgers, told, owed>>

ReportsFill(c) == At(c, "done") /\ calls[c].kind = "place" /\ calls[c].reply.code = "ok"

(* Mutant: the call keeps its request when it ends.                        *)
Return_KeepsRequest(c) ==
    /\ At(c, "done")
    /\ told' = told \cup (IF ReportsFill(c) THEN {calls[c].reply.fill} ELSE {})
    /\ calls' = [calls EXCEPT ![c].pc = "idle"]
    /\ UNCHANGED <<paper, ledgers, owed>>

(* The tool result is delivered.                                           *)
Return(c) ==
    /\ At(c, "done")
    /\ told' = told \cup (IF ReportsFill(c) THEN {calls[c].reply.fill} ELSE {})
    /\ calls' = [calls EXCEPT ![c] = Idle]
    /\ UNCHANGED <<paper, ledgers, owed>>

Step(c) ==
    \/ Fetch(c) \/ FetchFails(c) \/ OpenLedger(c) \/ Publish(c) \/ Reread(c)
    \/ Execute(c) \/ Snapshot(c) \/ Return(c)

Next ==
    \/ \E c \in Calls, t \in Tickers, i \in Ids \cup {NoId}, p \in Policies, s \in Sides,
          price \in Prices, n \in Counts : BeginPlace(c, t, i, p, s, price, n)
    \/ \E c \in Calls : BeginPortfolio(c) \/ Step(c)

Spec == Init /\ [][Next]_vars

-----------------------------------------------------------------------------
(* Properties.                                                             *)

(* The ledger agents see: that of handler.paper, or a new one.             *)
Current == IF paper = NoLedger THEN NewLedger ELSE ledgers[paper]

FillsIn(l) == {l.journal[i] : i \in DOMAIN l.journal}

(* A purchase never leaves the account overdrawn, and neither does a sale  *)
(* by its fee, whatever is rounded on the way (Execute, Fee).              *)
CashNeverNegative == \A o \in Calls : ledgers[o].cash >= 0

(* Journal and index agree, so no key is ever filled twice, whoever races  *)
(* whom, and the journal stays within its cap (Execute; "a repeated        *)
(* client_order_id returns the original").                                 *)
Indexed(l) ==
    /\ \A i \in DOMAIN l.journal : l.index[l.journal[i].key] = i
    /\ \A k \in Keys : Filled(l, k) =>
          l.index[k] \in DOMAIN l.journal /\ FillOf(l, k).key = k
    /\ Len(l.journal) <= JournalCap

OneFillPerKey == \A o \in Calls : Indexed(ledgers[o])

(* What the first n of some amounts come to, added in their order.         *)
RunningTotal(amounts, n) ==
    LET sum[i \in 0..n] == IF i = 0 THEN 0 ELSE sum[i - 1] + amounts[i]
    IN  sum[n]

(* What each fill of a journal cost or earned, its fee, and what it put in *)
(* or took from a market's position.                                       *)
Costs(journal) ==
    [i \in DOMAIN journal |->
        LET value == Notional(journal[i].price, journal[i].count)
        IN  IF journal[i].side = "bid" THEN value ELSE -value]

Fees(journal) == [i \in DOMAIN journal |-> journal[i].fee]

Lots(journal, t) ==
    [i \in DOMAIN journal |->
        IF journal[i].ticker # t THEN 0
        ELSE IF journal[i].side = "bid" THEN journal[i].count ELSE -journal[i].count]

(* The books balance: each position is what was bought less what was sold, *)
(* and the cash is the start less purchases, plus sales, less every fee,   *)
(* as the journal has them, in the ledgers and in what agents are shown    *)
(* (Execute, Snapshot).                                                    *)
Balanced(l) ==
    LET n == Len(l.journal) IN
    /\ l.cash = StartCash - RunningTotal(Costs(l.journal), n)
                          - RunningTotal(Fees(l.journal), n)
    /\ \A t \in Tickers : l.positions[t] = RunningTotal(Lots(l.journal, t), n)

BooksBalance ==
    /\ \A o \in Calls : Balanced(ledgers[o])
    /\ \A c \in Calls : At(c, "done") /\ calls[c].kind = "portfolio" =>
         Balanced(calls[c].reply.view)

(* The fill an agent is told of is one in the market it asked for, and if  *)
(* it is new, the whole order at the touch and within the size displayed   *)
(* when the handler looked (PlaceOrder, Execute).                          *)
FillAnswersTheOrder ==
    \A c \in Calls : ReportsFill(c) =>
        LET f == calls[c].reply.fill
            r == calls[c].order
        IN  /\ f.ticker = r.ticker
            /\ ~calls[c].reply.replayed =>
                  /\ f.side = r.side /\ f.price = r.bookPrice
                  /\ f.count = r.count /\ f.count <= r.bookSize

(* Every fill an agent has been told of is and stays in the ledger it sees *)
(* (README: the ledger and journal reset "when the process exits").        *)
ToldFillsStay == told \subseteq FillsIn(Current)

(* An agent that was told of a fill and then asks for its portfolio sees   *)
(* the fill there (get_portfolio after place_order).                       *)
ReadsOwnFills ==
    \A c \in Calls : At(c, "done") /\ calls[c].kind = "portfolio" =>
        owed[c] \subseteq FillsIn(calls[c].reply.view)

(* The order of a fill among these, sent again.                            *)
Repeats(r, fills) ==
    \E f \in fills : f.key = r.key /\ f.side = r.side
                       /\ f.price = r.price /\ f.count = r.count

(* An order sent again after its fill was reported is answered with a fill *)
(* or stopped before the ledger, by an exchange that cannot be asked or a  *)
(* market that has moved.  The ledger never refuses it, for cash, size or  *)
(* a full journal ("a repeated client_order_id returns the original").     *)
RetryIsAnswered ==
    \A c \in Calls : At(c, "done") /\ calls[c].kind = "place" =>
        (Repeats(calls[c].order, owed[c]) =>
            calls[c].reply.code \in {"ok", "upstream_error", "internal_error"})

(* Paper trading implements the account: fills are whole, at most one a    *)
(* key, and nothing but a fill moves cash or positions, while goroutines   *)
(* and a moving market go on (Execute as the handler drives it).           *)
Simulated == INSTANCE PaperAccount WITH
    CashOf <- CashDelta,
    PositionOf <- PositionDelta,
    filled <- [k \in Keys |-> IF Filled(Current, k) THEN {FillOf(Current, k)} ELSE {}],
    cash <- Current.cash,
    positions <- Current.positions

KeepsAccount == Simulated!Account
=============================================================================
