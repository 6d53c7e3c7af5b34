---------------------------- MODULE PaperLedger ----------------------------
(***************************************************************************)
(* The simulated book of paper mode (ledger/ledger.go, Ledger): cash,      *)
(* positions and the fill journal with its index by client_order_id.       *)
(* Execute and Snapshot hold the ledger's mutex from first to last line,   *)
(* so each is one operator of the ledger.  Scales as in FixedPoint.        *)
(***************************************************************************)
EXTENDS FixedPoint, Sequences

CONSTANTS Keys,         \* client_order_ids as the handler builds them
          Tickers,
          StartCash,    \* cents; KALSHI_PAPER_CASH_DOLLARS
          JournalCap    \* 10000 in the code

(* New accepts a negative start; it is left out.                           *)
ASSUME LedgerAssumption == StartCash \in Nat /\ JournalCap \in Nat

Sides == {"bid", "ask"}

(* An order at the ledger: FillRequest, its decimals read by NewMoney.     *)
Orders == [key : Keys, ticker : Tickers, side : Sides, price : Int, count : Int,
           bookPrice : Int, bookSize : Int]

Fills == [key : Keys, ticker : Tickers, side : Sides, price : 1..(One - 1),
          count : Nat \ {0}, fee : Nat]

(* index gives the place of a key in the journal, 0 for an unknown one.    *)
Ledgers == [cash : Int, positions : [Tickers -> Int], journal : Seq(Fills),
            index : [Keys -> Nat]]

NewLedger == [cash |-> StartCash, positions |-> [t \in Tickers |-> 0],
              journal |-> <<>>, index |-> [k \in Keys |-> 0]]

(* What a fill does to the cash and to the position.                       *)
CashDelta(f) ==
    IF f.side = "bid" THEN -(Notional(f.price, f.count) + f.fee)
                      ELSE Notional(f.price, f.count) - f.fee

(* Mutant: asks add to the position too.                                   *)
PositionDelta_Unsigned(f) == f.count

PositionDelta(f) == IF f.side = "bid" THEN f.count ELSE -f.count

Filled(l, key) == l.index[key] # 0

FillOf(l, key) == l.journal[l.index[key]]

FillFor(r) == [key |-> r.key, ticker |-> r.ticker, side |-> r.side, price |-> r.price,
               count |-> r.count, fee |-> Fee(r.price, r.count)]

(* Mutant: cash is compared with the notional alone.                       *)
Refusal_WithoutFee(l, r) ==
    IF Len(l.journal) >= JournalCap THEN "journal_full"
    ELSE IF r.count <= 0 THEN "invalid_input"
    ELSE IF r.count > r.bookSize THEN "insufficient_book"
    ELSE IF r.price \notin 1..(One - 1) \/ r.bookPrice # r.price THEN "invalid_input"
    ELSE IF r.side = "bid" /\ l.cash < Notional(r.price, r.count)
         THEN "insufficient_paper_cash"
    ELSE "none"

(* Mutant: the displayed size is not looked at.                            *)
Refusal_AnySize(l, r) ==
    IF Len(l.journal) >= JournalCap THEN "journal_full"
    ELSE IF r.count <= 0 THEN "invalid_input"
    ELSE IF r.price \notin 1..(One - 1) \/ r.bookPrice # r.price THEN "invalid_input"
    ELSE IF r.side = "bid" /\ l.cash + CashDelta(FillFor(r)) < 0
         THEN "insufficient_paper_cash"
    ELSE "none"

(* Why Execute refuses an order it has not filled yet, in its order.  Only *)
(* a bid must be covered: an ask may sell what is not held.                *)
Refusal(l, r) ==
    IF Len(l.journal) >= JournalCap THEN "journal_full"
    ELSE IF r.count <= 0 THEN "invalid_input"
    ELSE IF r.count > r.bookSize THEN "insufficient_book"
    ELSE IF r.price \notin 1..(One - 1) \/ r.bookPrice # r.price THEN "invalid_input"
    ELSE IF r.side = "bid" /\ l.cash + CashDelta(FillFor(r)) < 0
         THEN "insufficient_paper_cash"
    ELSE "none"

(* Mutant: the index is not kept.                                          *)
Book_NoIndex(l, f) ==
    [l EXCEPT !.cash = @ + CashDelta(f),
              !.positions[f.ticker] = @ + PositionDelta(f),
              !.journal = Append(@, f)]

(* Mutant: the index is one short of the fill's place.                     *)
Book_IndexBeforeAppend(l, f) ==
    [cash |-> l.cash + CashDelta(f),
     positions |-> [l.positions EXCEPT ![f.ticker] = @ + PositionDelta(f)],
     journal |-> Append(l.journal, f),
     index |-> [l.index EXCEPT ![f.key] = Len(l.journal)]]

(* A fill is booked whole: cash, position, journal and index.              *)
Book(l, f) ==
    [cash |-> l.cash + CashDelta(f),
     positions |-> [l.positions EXCEPT ![f.ticker] = @ + PositionDelta(f)],
     journal |-> Append(l.journal, f),
     index |-> [l.index EXCEPT ![f.key] = Len(l.journal) + 1]]

(* Execute: the ledger after the call, and what it answers.  A key that is *)
(* filled is answered from the journal, before anything else is looked at. *)
AfterExecute(l, r) ==
    IF Filled(l, r.key) \/ Refusal(l, r) # "none" THEN l ELSE Book(l, FillFor(r))

(* Mutant: a repeated key is looked up after the checks.                   *)
Answer_RefusalFirst(l, r) ==
    IF Refusal(l, r) # "none" THEN [code |-> Refusal(l, r)]
    ELSE IF Filled(l, r.key)
    THEN [code |-> "ok", replayed |-> TRUE, fill |-> FillOf(l, r.key)]
    ELSE [code |-> "ok", replayed |-> FALSE, fill |-> FillFor(r)]

Answer(l, r) ==
    IF Filled(l, r.key)
    THEN [code |-> "ok", replayed |-> TRUE, fill |-> FillOf(l, r.key)]
    ELSE IF Refusal(l, r) # "none" THEN [code |-> Refusal(l, r)]
    ELSE [code |-> "ok", replayed |-> FALSE, fill |-> FillFor(r)]
=============================================================================
