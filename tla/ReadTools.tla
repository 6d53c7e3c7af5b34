----------------------------- MODULE ReadTools -----------------------------
(***************************************************************************)
(* The tools that only read: search_markets and get_trades, whose pages an *)
(* agent follows by cursor, get_portfolio in live mode, which joins four   *)
(* signed reads into one answer, and the tools that make a single read     *)
(* (marketdata/client.go, handler_marketdata.go, live/client.go).          *)
(*                                                                         *)
(* The kernel keeps nothing from one call to the next.  What can go wrong  *)
(* is in the sequence: listing and account change between one read and the *)
(* next, and any read may fail.                                            *)
(*                                                                         *)
(* The exchange is external.  A listing is a set of positions; a page is   *)
(* the next of them after a cursor, and a cursor the position a page ends  *)
(* at, or 0 for none.  An account is its executions, numbered as they      *)
(* happen; a section of a portfolio is the set of those it shows, and its  *)
(* lists are first pages, as GetPortfolio sends neither limit nor cursor.  *)
(***************************************************************************)
EXTENDS Integers, FiniteSets

CONSTANTS Calls,         \* goroutines, each serving the calls of one agent
          Last,          \* the positions of the listing are 1..Last
          Limits,        \* page limits an agent asks for; 0 is none
          DefaultLimit,  \* page limit of the exchange
          FillPage,      \* fills on a first page
          MaxExecutions  \* bound on the executions of the account

ASSUME ReadAssumption ==
    /\ Last \in Nat /\ MaxExecutions \in Nat
    /\ Limits \subseteq Nat
    /\ DefaultLimit \in Nat \ {0} /\ FillPage \in Nat \ {0}

VARIABLES listed,      \* the positions listed at the exchange
          executions,  \* the account has had the executions 1..executions
          calls,       \* the goroutines
          wire,        \* the read of each call at the exchange
          walks        \* history: what the agent of each goroutine has read

vars == <<listed, executions, calls, wire, walks>>

Positions == 1..Last

(* search_markets by product, get_trades, get_portfolio; "single" stands   *)
(* for get_market, get_orderbook, get_candles, get_weather_index, get_last.*)
Paging == {"event", "perp", "trades"}
Tools == Paging \cup {"portfolio", "single"}

(* The reads of a tool; those of GetPortfolio are balance, positions,      *)
(* orders and fills, in this order.                                        *)
Reads(tool) == IF tool = "portfolio" THEN 4 ELSE 1

Balance == 1
Fills == 4
Sections == 1..4

Executions == 1..MaxExecutions

Pages == [items : SUBSET Positions, cursor : 0..Last]

NoPage == [items |-> {}, cursor |-> 0]

(* sections: the executions each section of a portfolio shows.  asked      *)
(* counts the requests of a call.                                          *)
Unread == [s \in Sections |-> {}]

CallRecords == [pc : {"idle", "check", "send", "wait", "told", "failed"}, tool : Tools,
                cursor : 0..Last, limit : Limits \cup {0}, asked : 0..4,
                page : Pages, sections : [Sections -> SUBSET Executions]]

Wires == [state : {"none", "sent", "answered", "refused"},
          page : Pages, shown : SUBSET Executions]

(* throughout: positions listed all the time since a walk began.           *)
Walks == [seen : SUBSET Positions, twice : BOOLEAN, throughout : SUBSET Positions]

TypeOK ==
    /\ listed \subseteq Positions
    /\ executions \in 0..MaxExecutions
    /\ calls \in [Calls -> CallRecords]
    /\ wire \in [Calls -> Wires]
    /\ walks \in [Calls -> Walks]

NoCall == [pc |-> "idle", tool |-> "single", cursor |-> 0, limit |-> 0, asked |-> 0,
           page |-> NoPage, sections |-> Unread]

NoWire == [state |-> "none", page |-> NoPage, shown |-> {}]

NoWalk == [seen |-> {}, twice |-> FALSE, throughout |-> {}]

Init ==
    /\ listed \in SUBSET Positions
    /\ executions = 0
    /\ calls = [c \in Calls |-> NoCall]
    /\ wire = [c \in Calls |-> NoWire]
    /\ walks = [c \in Calls |-> NoWalk]

-----------------------------------------------------------------------------
(* The exchange.                                                           *)

Exchange == <<listed, executions>>

Between(after, last) == {m \in listed : after < m /\ m <= last}

(* The page after a cursor: as many rows as the limit, or all that are     *)
(* left.  A full page carries a cursor, even where nothing follows it.     *)
IsPageAfter(page, after, limit) ==
    LET size == IF limit = 0 THEN DefaultLimit ELSE limit IN
    \E last \in 0..Last :
      /\ page.items = Between(after, last)
      /\ \/ Cardinality(page.items) = size /\ last \in page.items /\ page.cursor = last
         \/ Cardinality(page.items) < size /\ last = Last /\ page.cursor = 0

(* What the first page of a section shows: a balance all that happened, a  *)
(* page of positions or of orders whatever is on it, a page of fills the   *)
(* newest.                                                                 *)
IsFirstPage(section, shown) ==
    \/ section = Balance /\ shown = 1..executions
    \/ section \notin {Balance, Fills} /\ shown \subseteq 1..executions
    \/ section = Fills /\ shown = {e \in 1..executions : e > executions - FillPage}

(* A market opens, a trade is made; a market closes and leaves the status  *)
(* asked for.                                                              *)
List(m) ==
    /\ m \notin listed
    /\ listed' = listed \cup {m}
    /\ UNCHANGED <<executions, calls, wire, walks>>

Delist(m) ==
    /\ m \in listed
    /\ listed' = listed \ {m}
    /\ walks' = [c \in Calls |-> [walks[c] EXCEPT !.throughout = @ \ {m}]]
    /\ UNCHANGED <<executions, calls, wire>>

(* An order of the account is executed.                                    *)
Execute ==
    /\ executions < MaxExecutions
    /\ executions' = executions + 1
    /\ UNCHANGED <<listed, calls, wire, walks>>

-----------------------------------------------------------------------------
(* One call.                                                               *)

At(c, label) == calls[c].pc = label
Goto(c, label) == calls' = [calls EXCEPT ![c].pc = label]
Tool(c) == calls[c].tool

(* Mutant: the cursor is not sent.                                         *)
Query_NoCursor(c) == [after |-> 0, limit |-> calls[c].limit]

(* SearchEventMarkets and GetEventTrades pass cursor and limit on,         *)
(* SearchMarginMarkets neither.                                            *)
Query(c) ==
    IF Tool(c) = "perp" THEN [after |-> 0, limit |-> 0]
                        ELSE [after |-> calls[c].cursor, limit |-> calls[c].limit]

(* A first call of a tool, which for a paging tool begins a walk.          *)
Ask(c, tool, limit) ==
    /\ At(c, "idle")
    /\ calls' = [calls EXCEPT ![c] = [NoCall EXCEPT !.pc = "check", !.tool = tool,
                                                    !.limit = limit]]
    /\ walks' = [walks EXCEPT ![c] =
                   IF tool \in Paging THEN [NoWalk EXCEPT !.throughout = listed] ELSE NoWalk]
    /\ UNCHANGED <<Exchange, wire>>

(* The agent asks for the page after the one it was given, or for the one  *)
(* it failed to get, perhaps with another limit.                           *)
AskOn(c, limit) ==
    /\ Tool(c) \in Paging
    /\ At(c, "failed") \/ (At(c, "told") /\ calls[c].page.cursor # 0)
    /\ calls' = [calls EXCEPT ![c].pc = "check", ![c].limit = limit, ![c].asked = 0,
                              ![c].page = NoPage,
                              ![c].cursor = IF At(c, "told") THEN calls[c].page.cursor ELSE @]
    /\ UNCHANGED <<Exchange, wire, walks>>

(* The agent is done.                                                      *)
Leave(c) ==
    /\ At(c, "told") \/ At(c, "failed")
    /\ calls' = [calls EXCEPT ![c] = NoCall]
    /\ walks' = [walks EXCEPT ![c] = NoWalk]
    /\ UNCHANGED <<Exchange, wire>>

(* Product, ticker and window are checked before anything is sent;         *)
(* get_portfolio loads its credentials.                                    *)
Check(c) ==
    /\ At(c, "check")
    /\ Goto(c, "send") \/ Goto(c, "failed")
    /\ UNCHANGED <<Exchange, wire, walks>>

Send(c) ==
    /\ At(c, "send")
    /\ calls' = [calls EXCEPT ![c].pc = "wait", ![c].asked = @ + 1]
    /\ wire' = [wire EXCEPT ![c] = [NoWire EXCEPT !.state = "sent"]]
    /\ UNCHANGED <<Exchange, walks>>

(* Mutant: fills are read before orders.                                   *)
Section_FillsEarly(c) == <<1, 2, 4, 3>>[calls[c].asked]

(* The section a portfolio call has just asked for.                        *)
Section(c) == calls[c].asked

Serves(c, page, shown) ==
    wire' = [wire EXCEPT ![c] = [state |-> "answered", page |-> page, shown |-> shown]]

(* The exchange serves a read at one moment, or refuses it: an error       *)
(* status, a limit on the rate, an answer that cannot be read.             *)
Serve(c) ==
    /\ wire[c].state = "sent"
    /\ \/ wire' = [wire EXCEPT ![c].state = "refused"]
       \/ /\ Tool(c) \in Paging
          /\ \E page \in Pages :
               IsPageAfter(page, Query(c).after, Query(c).limit) /\ Serves(c, page, {})
       \/ /\ Tool(c) = "portfolio"
          /\ \E shown \in SUBSET Executions :
               IsFirstPage(Section(c), shown) /\ Serves(c, NoPage, shown)
       \/ Tool(c) = "single" /\ Serves(c, NoPage, {})
    /\ UNCHANGED <<Exchange, calls, walks>>

(* Mutant: a page is cut to fit the agent's context, and keeps its cursor. *)
Page_Cut(c) == [wire[c].page EXCEPT !.items = {m \in @ : \A k \in @ : m <= k}]

(* Mutant: the cursor is moved past the last row.                          *)
Page_NextCursor(c) == [wire[c].page EXCEPT !.cursor = IF @ = 0 THEN 0 ELSE @ + 1]

(* The page an agent is given: every row, and the cursor as it came.       *)
Page(c) == wire[c].page

(* A page is told as it came; a portfolio goes on to its next section and  *)
(* is told when all were read.                                             *)
Answered(c) ==
    /\ At(c, "wait") /\ wire[c].state = "answered"
    /\ wire' = [wire EXCEPT ![c] = NoWire]
    /\ \/ /\ Tool(c) \in Paging
          /\ calls' = [calls EXCEPT ![c].pc = "told", ![c].page = Page(c)]
          /\ walks' = [walks EXCEPT ![c].seen = @ \cup Page(c).items,
                         ![c].twice = @ \/ Page(c).items \cap walks[c].seen # {}]
       \/ /\ Tool(c) = "portfolio"
          /\ calls' = [calls EXCEPT ![c].sections[Section(c)] = wire[c].shown,
                         ![c].pc = IF calls[c].asked < Reads(Tool(c)) THEN "send" ELSE "told"]
          /\ UNCHANGED walks
       \/ Tool(c) = "single" /\ Goto(c, "told") /\ UNCHANGED walks
    /\ UNCHANGED Exchange

(* The first read that is refused fails the call.  Nothing is retried.     *)
Refused(c) ==
    /\ At(c, "wait") /\ wire[c].state = "refused"
    /\ wire' = [wire EXCEPT ![c] = NoWire]
    /\ Goto(c, "failed")
    /\ UNCHANGED <<Exchange, walks>>

(* Mutant: the http.Client has no timeout.                                 *)
Unreachable_NoTimeout(c) ==
    /\ At(c, "wait") /\ wire[c].state = "refused"
    /\ wire' = [wire EXCEPT ![c] = NoWire]
    /\ Goto(c, "failed")
    /\ UNCHANGED <<Exchange, walks>>

(* The read cannot be made or its answer does not come in time.            *)
Unreachable(c) ==
    /\ At(c, "wait")
    /\ wire' = [wire EXCEPT ![c] = NoWire]
    /\ Goto(c, "failed")
    /\ UNCHANGED <<Exchange, walks>>

Step(c) == Check(c) \/ Send(c) \/ Answered(c) \/ Refused(c) \/ Unreachable(c)

Next ==
    \/ \E m \in Positions : List(m) \/ Delist(m)
    \/ Execute
    \/ \E c \in Calls :
         \/ \E tool \in Tools, limit \in Limits : Ask(c, tool, limit)
         \/ \E limit \in Limits : AskOn(c, limit)
         \/ Leave(c)
         \/ Serve(c)
         \/ Step(c)

(* The HTTP clients time out after 10 s, so a call is never stuck.         *)
Fairness == \A c \in Calls : WF_vars(Step(c))

Spec == Init /\ [][Next]_vars /\ Fairness

-----------------------------------------------------------------------------
(* Properties.                                                             *)

Follows(c) == Tool(c) \in {"event", "trades"}

(* An agent that follows the cursors of search_markets for events or of    *)
(* get_trades never reads a row twice, whatever is listed or delisted      *)
(* meanwhile, whatever limits it asks for and however often it asks again  *)
(* after an error.                                                         *)
NoRowTwice == \A c \in Calls : Follows(c) => ~walks[c].twice

(* When it is given no further cursor, it has read every row that was      *)
(* listed all the time.                                                    *)
WalkReadsAll ==
    \A c \in Calls : Follows(c) /\ At(c, "told") /\ calls[c].page.cursor = 0 =>
        walks[c].throughout \subseteq walks[c].seen

(* An execution that a section of a portfolio shows is among the fills     *)
(* told with it, or these are a full page of newer ones: fills are read    *)
(* last, so the account moving on between the four reads, or one of them   *)
(* failing, never leaves a recent execution out (GetPortfolio).            *)
FillsExplainRecent ==
    \A c \in Calls : At(c, "told") /\ Tool(c) = "portfolio" =>
        LET fills == calls[c].sections[Fills] IN
        \A s \in Sections : \A e \in calls[c].sections[s] :
            e \in fills \/ (Cardinality(fills) = FillPage /\ \A f \in fills : e < f)

(* Every read is answered, by an exchange that may fall silent.            *)
EveryReadReturns == \A c \in Calls : At(c, "check") ~> At(c, "told") \/ At(c, "failed")
=============================================================================
