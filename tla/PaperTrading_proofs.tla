------------------------ MODULE PaperTrading_proofs ------------------------
(***************************************************************************)
(* Theorems about PaperTrading, for any number of goroutines, markets,     *)
(* order ids, levels, any start and any journal cap.                       *)
(*                                                                         *)
(* The argument has layers.  The ledger: Execute keeps a ledger sound      *)
(* (well typed, indexed, not overdrawn, each fill in its key's market), as *)
(* a lemma about operators.  The process: which goroutine may hold which   *)
(* ledger.  Soundness and the balance of the books need nothing of the     *)
(* second layer; that no told fill is lost, and the refinement of          *)
(* PaperAccount, need that the first answer is awaited.                    *)
(***************************************************************************)
EXTENDS PaperTrading, FixedPoint_proofs

Sound(l) ==
    /\ l \in Ledgers
    /\ Indexed(l)
    /\ l.cash >= 0
    /\ \A i \in DOMAIN l.journal : l.journal[i].key[1] = l.journal[i].ticker

(* An order as the handler builds it: its key names its market.            *)
Keyed(r) == r \in Orders /\ r.key[1] = r.ticker

Answers == [code : {"journal_full", "invalid_input", "insufficient_book",
                    "insufficient_paper_cash"}]
           \cup [code : {"ok"}, replayed : BOOLEAN, fill : Fills]

-----------------------------------------------------------------------------
(* The ledger.                                                             *)

(* New gives a ledger that is sound and has no fills.                      *)
LEMMA NewLedgerSound == Sound(NewLedger) /\ FillsIn(NewLedger) = {}
  BY LedgerAssumption
  DEF Sound, NewLedger, Ledgers, Indexed, Filled, FillOf, FillsIn

(* What an order that is not refused would be filled as.                   *)
LEMMA FillTypes ==
    ASSUME NEW l, NEW r, Keyed(r), Refusal(l, r) = "none"
    PROVE  /\ FillFor(r) \in Fills
           /\ FillFor(r).key = r.key /\ FillFor(r).ticker = r.ticker
           /\ FillFor(r).side = r.side /\ FillFor(r).price = r.bookPrice
           /\ FillFor(r).count = r.count /\ r.count <= r.bookSize
           /\ CashDelta(FillFor(r)) \in Int
           /\ PositionDelta(FillFor(r)) \in Int
           /\ r.side = "ask" => CashDelta(FillFor(r)) >= 0
           /\ r.side = "bid" => ~(l.cash + CashDelta(FillFor(r)) < 0)
<1>1. /\ r.price \in 1..(One - 1) /\ r.count \in Nat \ {0}
      /\ r.bookPrice = r.price /\ ~(r.count > r.bookSize)
      /\ r.side = "bid" => ~(l.cash + CashDelta(FillFor(r)) < 0)
  BY DEF Refusal, Keyed, Orders
<1>2. /\ Fee(r.price, r.count) \in Nat /\ Notional(r.price, r.count) \in Nat
      /\ Fee(r.price, r.count) <= Notional(r.price, r.count)
  BY <1>1, FeeAndNotionalTypes, FeeAtMostNotional
<1>3. r.key \in Keys /\ r.ticker \in Tickers /\ r.side \in Sides /\ r.bookSize \in Int
  BY DEF Keyed, Orders
<1> DEFINE f == FillFor(r)
<1>4. /\ f.key = r.key /\ f.ticker = r.ticker /\ f.side = r.side /\ f.price = r.price
      /\ f.count = r.count /\ f.fee = Fee(r.price, r.count)
  BY DEF FillFor
<1>5. f \in Fills
  BY <1>1, <1>2, <1>3 DEF FillFor, Fills
<1>6. /\ CashDelta(f) \in Int
      /\ r.side = "ask" => CashDelta(f) >= 0
  <2>1. CashDelta(f) = IF r.side = "bid"
                       THEN -(Notional(r.price, r.count) + Fee(r.price, r.count))
                       ELSE Notional(r.price, r.count) - Fee(r.price, r.count)
    BY <1>4 DEF CashDelta
  <2> QED  BY <2>1, <1>2
<1>7. PositionDelta(f) \in Int
  BY <1>1, <1>4 DEF PositionDelta
<1> QED  BY <1>1, <1>3, <1>4, <1>5, <1>6, <1>7

(* Booking a fill under a key that has none keeps the ledger sound.        *)
LEMMA BookKeepsSound ==
    ASSUME NEW l, Sound(l), NEW r, Keyed(r), ~Filled(l, r.key), Refusal(l, r) = "none"
    PROVE  /\ Sound(Book(l, FillFor(r)))
           /\ FillsIn(Book(l, FillFor(r))) = FillsIn(l) \cup {FillFor(r)}
           /\ \A k \in Keys : Filled(Book(l, FillFor(r)), k)
                                <=> Filled(l, k) \/ k = r.key
           /\ \A k \in Keys \ {r.key} : Filled(l, k) =>
                FillOf(Book(l, FillFor(r)), k) = FillOf(l, k)
           /\ FillOf(Book(l, FillFor(r)), r.key) = FillFor(r)
<1> DEFINE f == FillFor(r)
           b == Book(l, f)
           n == Len(l.journal)
<1>1. /\ f \in Fills /\ f.key = r.key /\ f.ticker = r.ticker /\ f.side = r.side
      /\ CashDelta(f) \in Int /\ PositionDelta(f) \in Int
      /\ f.side = "ask" => CashDelta(f) >= 0
      /\ f.side = "bid" => ~(l.cash + CashDelta(f) < 0)
  BY FillTypes
<1>2. /\ l.cash \in Int /\ l.positions \in [Tickers -> Int]
      /\ l.journal \in Seq(Fills) /\ l.index \in [Keys -> Nat] /\ l.cash >= 0
  BY DEF Sound, Ledgers
<1>3. r.key \in Keys /\ r.ticker \in Tickers /\ r.side \in Sides /\ r.key[1] = r.ticker
  BY DEF Keyed, Orders
<1> HIDE DEF f
<1>4. /\ b.cash = l.cash + CashDelta(f)
      /\ b.positions = [l.positions EXCEPT ![f.ticker] = @ + PositionDelta(f)]
      /\ b.journal = Append(l.journal, f)
      /\ b.index = [l.index EXCEPT ![f.key] = n + 1]
  BY DEF Book
<1>5. /\ n \in Nat /\ DOMAIN l.journal = 1..n /\ DOMAIN b.journal = 1..(n + 1)
      /\ \A i \in 1..n : b.journal[i] = l.journal[i] /\ l.journal[i] \in Fills
      /\ b.journal[n + 1] = f
  BY <1>1, <1>2, <1>4
<1>6. /\ b.index[r.key] = n + 1
      /\ \A k \in Keys \ {r.key} : b.index[k] = l.index[k]
  BY <1>1, <1>2, <1>3, <1>4
<1>7. \A i \in 1..n : l.journal[i].key \in Keys \ {r.key} /\ l.index[l.journal[i].key] = i
  <2> SUFFICES ASSUME NEW i \in 1..n
               PROVE  l.journal[i].key \in Keys \ {r.key} /\ l.index[l.journal[i].key] = i
    OBVIOUS
  <2>1. l.journal[i].key \in Keys /\ l.index[l.journal[i].key] = i
    BY <1>5 DEF Fills, Sound, Indexed
  <2>2. l.index[r.key] = 0
    BY DEF Filled
  <2> QED  BY <2>1, <2>2, <1>5
<1>8. b \in Ledgers
  <2>1. b.cash \in Int /\ b.positions \in [Tickers -> Int]
    BY <1>1, <1>2, <1>3, <1>4
  <2>2. b.journal \in Seq(Fills) /\ b.index \in [Keys -> Nat]
    <3>1. b.journal \in Seq(Fills)
      BY <1>1, <1>2, <1>4
    <3>2. n + 1 \in Nat
      BY <1>5
    <3> HIDE DEF n
    <3>3. b.index \in [Keys -> Nat]
      BY <1>2, <1>4, <3>2
    <3> QED  BY <3>1, <3>3
  <2>3. b = [cash |-> b.cash, positions |-> b.positions, journal |-> b.journal,
             index |-> b.index]
    BY DEF Book
  <2> QED  BY <2>1, <2>2, <2>3 DEF Ledgers
<1>9. b.cash >= 0
  BY <1>1, <1>2, <1>3, <1>4 DEF Sides
<1>10. \A k \in Keys : Filled(l, k) => l.index[k] \in 1..n /\ FillOf(l, k).key = k
  BY <1>5 DEF Sound, Indexed
<1>11. /\ \A k \in Keys : Filled(b, k) <=> Filled(l, k) \/ k = r.key
       /\ \A k \in Keys \ {r.key} : Filled(l, k) => FillOf(b, k) = FillOf(l, k)
       /\ FillOf(b, r.key) = f
  <2>1. \A k \in Keys : Filled(b, k) <=> Filled(l, k) \/ k = r.key
    BY <1>5, <1>6 DEF Filled
  <2>2. \A k \in Keys \ {r.key} : Filled(l, k) => FillOf(b, k) = FillOf(l, k)
    BY <1>5, <1>6, <1>10 DEF FillOf
  <2>3. FillOf(b, r.key) = f
    BY <1>5, <1>6 DEF FillOf
  <2> QED  BY <2>1, <2>2, <2>3
<1>12. Indexed(b)
  <2>1. \A i \in 1..(n + 1) : b.index[b.journal[i].key] = i
    <3> SUFFICES ASSUME NEW i \in 1..(n + 1)
                 PROVE  b.index[b.journal[i].key] = i
      OBVIOUS
    <3>1. CASE i = n + 1
      BY <3>1, <1>1, <1>5, <1>6
    <3>2. CASE i \in 1..n
      BY <3>2, <1>5, <1>6, <1>7
    <3> QED  BY <3>1, <3>2, <1>5
  <2>2. \A k \in Keys : Filled(b, k) => b.index[k] \in 1..(n + 1) /\ FillOf(b, k).key = k
    <3> SUFFICES ASSUME NEW k \in Keys, Filled(b, k)
                 PROVE  b.index[k] \in 1..(n + 1) /\ FillOf(b, k).key = k
      OBVIOUS
    <3>1. CASE k = r.key
      BY <3>1, <1>1, <1>5, <1>6, <1>11
    <3>2. CASE k # r.key
      BY <3>2, <1>5, <1>6, <1>10, <1>11
    <3> QED  BY <3>1, <3>2
  <2>3. Len(b.journal) <= JournalCap
    <3>1. ~(n >= JournalCap)
      BY DEF Refusal
    <3>2. Len(b.journal) = n + 1
      BY <1>1, <1>2, <1>4
    <3> QED  BY <3>1, <3>2, <1>5, LedgerAssumption
  <2> QED  BY <2>1, <2>2, <2>3, <1>5 DEF Indexed
<1>13. \A i \in DOMAIN b.journal : b.journal[i].key[1] = b.journal[i].ticker
  <2> SUFFICES ASSUME NEW i \in 1..(n + 1)
               PROVE  b.journal[i].key[1] = b.journal[i].ticker
    BY <1>5
  <2>1. CASE i = n + 1
    BY <2>1, <1>1, <1>3, <1>5
  <2>2. CASE i \in 1..n
    BY <2>2, <1>5 DEF Sound
  <2> QED  BY <2>1, <2>2, <1>5
<1>14. FillsIn(b) = FillsIn(l) \cup {f}
  BY <1>5 DEF FillsIn
<1> QED  BY <1>8, <1>9, <1>11, <1>12, <1>13, <1>14 DEF Sound, f

(* Execute as a whole: the ledger stays sound, keeps every fill it has,    *)
(* gains none but the order's own, and answers with a fill it has.         *)
LEMMA ExecuteKeepsSound ==
    ASSUME NEW l, Sound(l), NEW r, Keyed(r)
    PROVE  /\ Sound(AfterExecute(l, r))
           /\ FillsIn(l) \subseteq FillsIn(AfterExecute(l, r))
           /\ Answer(l, r) \in Answers
           /\ Answer(l, r).code = "ok" =>
                 /\ Answer(l, r).fill \in FillsIn(AfterExecute(l, r))
                 /\ Answer(l, r).fill.ticker = r.ticker
                 /\ ~Answer(l, r).replayed => Answer(l, r).fill = FillFor(r)
                                                /\ Refusal(l, r) = "none"
<1>1. CASE Filled(l, r.key)
  <2>1. AfterExecute(l, r) = l
    BY <1>1 DEF AfterExecute
  <2>2. Answer(l, r) = [code |-> "ok", replayed |-> TRUE, fill |-> FillOf(l, r.key)]
    BY <1>1 DEF Answer
  <2>3. /\ l.index[r.key] \in DOMAIN l.journal
        /\ FillOf(l, r.key).key = r.key
        /\ FillOf(l, r.key) = l.journal[l.index[r.key]]
    BY <1>1 DEF Sound, Indexed, Keyed, Orders, FillOf
  <2>4. FillOf(l, r.key) \in FillsIn(l)
    BY <2>3 DEF FillsIn
  <2>5. FillOf(l, r.key) \in Fills
    <3>1. l.journal \in Seq(Fills)
      BY DEF Sound, Ledgers
    <3> QED  BY <3>1, <2>3
  <2>6. FillOf(l, r.key).ticker = r.ticker
    BY <2>3 DEF Sound, Keyed
  <2>7. Answer(l, r) \in Answers
    BY <2>2, <2>5 DEF Answers
  <2> QED  BY <2>1, <2>2, <2>4, <2>6, <2>7
<1>2. CASE ~Filled(l, r.key) /\ Refusal(l, r) # "none"
  <2>1. AfterExecute(l, r) = l /\ Answer(l, r) = [code |-> Refusal(l, r)]
    BY <1>2 DEF AfterExecute, Answer
  <2>2. Refusal(l, r) \in {"journal_full", "invalid_input", "insufficient_book",
                           "insufficient_paper_cash"}
    BY <1>2 DEF Refusal
  <2> QED  BY <2>1, <2>2 DEF Answers
<1>3. CASE ~Filled(l, r.key) /\ Refusal(l, r) = "none"
  <2>1. /\ AfterExecute(l, r) = Book(l, FillFor(r))
        /\ Answer(l, r) = [code |-> "ok", replayed |-> FALSE, fill |-> FillFor(r)]
    BY <1>3 DEF AfterExecute, Answer
  <2>2. FillFor(r) \in Fills /\ FillFor(r).ticker = r.ticker
    BY <1>3, FillTypes
  <2>3. /\ Sound(Book(l, FillFor(r)))
        /\ FillsIn(Book(l, FillFor(r))) = FillsIn(l) \cup {FillFor(r)}
    BY <1>3, BookKeepsSound
  <2> QED  BY <1>3, <2>1, <2>2, <2>3 DEF Answers
<1> QED  BY <1>1, <1>2, <1>3

-----------------------------------------------------------------------------
(* The process: every ledger is sound, whatever races.                     *)

(* A new fill is the whole order, at the touch and within the size seen.   *)
Matches(f, r) == /\ f.side = r.side /\ f.price = r.bookPrice
                 /\ f.count = r.count /\ f.count <= r.bookSize

(* What a goroutine may be, while p is the process-wide ledger.            *)
GoodCall(x, p) ==
    /\ x \in {Idle} \cup Places \cup Reads
    /\ x.pc = "reread" => p # NoLedger
    /\ x.pc = "execute" => x.ledger # NoLedger
    /\ x.pc # "idle" /\ x.kind = "place" => Keyed(x.order)
    /\ x.pc = "done" /\ x.kind = "place" /\ x.reply.code = "ok" =>
         /\ x.reply.fill \in Fills
         /\ x.reply.fill.ticker = x.order.ticker
         /\ ~x.reply.replayed => Matches(x.reply.fill, x.order)

SoundInv ==
    /\ paper \in Calls \cup {NoLedger}
    /\ ledgers \in [Calls -> Ledgers] /\ \A o \in Calls : Sound(ledgers[o])
    /\ calls \in [Calls -> {Idle} \cup Places \cup Reads]
    /\ \A c \in Calls : GoodCall(calls[c], paper)
    /\ told \subseteq Fills
    /\ owed \in [Calls -> SUBSET Fills]

(* The invariant says all that is claimed of the paper book.               *)
LEMMA SoundInvImplies ==
    SoundInv => TypeOK /\ CashNeverNegative /\ OneFillPerKey /\ FillAnswersTheOrder
<1> SUFFICES ASSUME SoundInv
             PROVE  TypeOK /\ CashNeverNegative /\ OneFillPerKey /\ FillAnswersTheOrder
  OBVIOUS
<1>1. TypeOK
  BY DEF SoundInv, TypeOK
<1>2. CashNeverNegative /\ OneFillPerKey
  BY DEF SoundInv, Sound, CashNeverNegative, OneFillPerKey
<1>3. FillAnswersTheOrder
  BY DEF SoundInv, GoodCall, FillAnswersTheOrder, ReportsFill, At, Matches
<1> QED  BY <1>1, <1>2, <1>3

(* There is no ledger at first.                                            *)
LEMMA SoundInit == Init => SoundInv
<1> SUFFICES ASSUME Init PROVE SoundInv
  OBVIOUS
<1>1. Sound(NewLedger) /\ NewLedger \in Ledgers
  BY NewLedgerSound DEF Sound
<1>2. \A c \in Calls : GoodCall(calls[c], paper)
  BY DEF Init, GoodCall, Idle
<1> QED  BY <1>1, <1>2 DEF Init, SoundInv

(* A step of one goroutine leaves the others what they were.               *)
LEMMA OneCallMoves ==
    ASSUME SoundInv, NEW c \in Calls, NEW x, calls' = [calls EXCEPT ![c] = x],
           GoodCall(x, paper'), paper # NoLedger => paper' # NoLedger
    PROVE  /\ calls' \in [Calls -> {Idle} \cup Places \cup Reads]
           /\ \A d \in Calls : GoodCall(calls'[d], paper')
<1>1. x \in {Idle} \cup Places \cup Reads
  BY DEF GoodCall
<1>2. calls' \in [Calls -> {Idle} \cup Places \cup Reads]
  BY <1>1 DEF SoundInv
<1>3. ASSUME NEW d \in Calls PROVE GoodCall(calls'[d], paper')
  <2>1. CASE d = c
    <3>1. calls'[d] = x
      BY <2>1 DEF SoundInv
    <3> QED  BY <3>1
  <2>2. CASE d # c
    <3>1. calls'[d] = calls[d]
      BY <2>2 DEF SoundInv
    <3>2. GoodCall(calls[d], paper)
      BY DEF SoundInv
    <3> QED  BY <3>1, <3>2 DEF GoodCall
  <2> QED  BY <2>1, <2>2
<1> QED  BY <1>2, <1>3

(* What the kinds of calls look like.                                      *)
LEMMA CallShapes ==
    ASSUME SoundInv, NEW c \in Calls
    PROVE  /\ calls[c] \in {Idle} \cup Places \cup Reads
           /\ calls[c].pc # "idle" /\ calls[c].kind = "place" => calls[c] \in Places
           /\ calls[c].pc # "idle" /\ calls[c].kind = "portfolio" => calls[c] \in Reads
           /\ calls[c].pc = "fetch" => calls[c] \in Places
           /\ calls[c].pc # "idle" => calls[c] \in Places \cup Reads
  BY DEF SoundInv, GoodCall, Places, Reads, Idle

(* A call begins with nothing in hand.                                     *)
LEMMA BeginsSound ==
    ASSUME SoundInv, NEW c \in Calls
    PROVE  /\ \A t \in Tickers, i \in Ids \cup {NoId}, p \in Policies, s \in Sides,
                 price \in Prices, n \in Counts :
                BeginPlace(c, t, i, p, s, price, n) => SoundInv'
           /\ BeginPortfolio(c) => SoundInv'
<1>1. ASSUME NEW t \in Tickers, NEW i \in Ids \cup {NoId}, NEW p \in Policies,
             NEW s \in Sides, NEW price \in Prices, NEW n \in Counts,
             BeginPlace(c, t, i, p, s, price, n)
      PROVE  SoundInv'
  <2> DEFINE r == [key |-> KeyOf(t, i, p), ticker |-> t, side |-> s, price |-> price,
                   count |-> n, bookPrice |-> 0, bookSize |-> 0]
             x == [pc |-> "fetch", kind |-> "place", ledger |-> NoLedger,
                   reply |-> Unanswered, order |-> r]
  <2>1. KeyOf(t, i, p) \in Keys /\ KeyOf(t, i, p)[1] = t
    BY PaperAssumption DEF KeyOf
  <2>2. price \in Int /\ n \in Int
    BY PaperAssumption
  <2>3. Keyed(r)
    BY <2>1, <2>2 DEF Keyed, Orders
  <2>4. x \in Places
    BY <2>3 DEF Places, Keyed, Unanswered
  <2>5. GoodCall(x, paper')
    BY <2>3, <2>4 DEF GoodCall
  <2>6. /\ calls' = [calls EXCEPT ![c] = x] /\ owed' = [owed EXCEPT ![c] = told]
        /\ UNCHANGED <<paper, ledgers, told>>
    BY <1>1 DEF BeginPlace
  <2>7. /\ calls' \in [Calls -> {Idle} \cup Places \cup Reads]
        /\ \A d \in Calls : GoodCall(calls'[d], paper')
    <3> HIDE DEF x
    <3> QED  BY <2>5, <2>6, OneCallMoves
  <2> QED  BY <2>6, <2>7 DEF SoundInv
<1>2. ASSUME BeginPortfolio(c)
      PROVE  SoundInv'
  <2> DEFINE x == [pc |-> "open", kind |-> "portfolio", ledger |-> NoLedger,
                   reply |-> Unanswered]
  <2>1. x \in Reads
    BY DEF Reads, Unanswered
  <2>2. GoodCall(x, paper')
    BY <2>1 DEF GoodCall
  <2>3. /\ calls' = [calls EXCEPT ![c] = x] /\ owed' = [owed EXCEPT ![c] = told]
        /\ UNCHANGED <<paper, ledgers, told>>
    BY <1>2 DEF BeginPortfolio
  <2>4. /\ calls' \in [Calls -> {Idle} \cup Places \cup Reads]
        /\ \A d \in Calls : GoodCall(calls'[d], paper')
    <3> HIDE DEF x
    <3> QED  BY <2>2, <2>3, OneCallMoves
  <2> QED  BY <2>3, <2>4 DEF SoundInv
<1> QED  BY <1>1, <1>2

(* Reading the order book ends a call or gives it the touch it met.        *)
LEMMA FetchSound ==
    ASSUME SoundInv, NEW c \in Calls, Fetch(c) \/ FetchFails(c)
    PROVE  SoundInv'
<1> DEFINE r == calls[c].order
<1>1. calls[c] \in Places /\ calls[c].pc = "fetch" /\ Keyed(r)
  BY CallShapes DEF Fetch, FetchFails, At, SoundInv, GoodCall, Places
<1>2. ASSUME NEW book \in Orderbooks
      PROVE  Touch(book, r.side).price \in Int /\ Touch(book, r.side).size \in Int
  <2>1. /\ book.yes \in [price : Nat, size : Nat]
        /\ book.no \in [price : Nat, size : Nat]
    BY PaperAssumption DEF Orderbooks, Nothing
  <2> QED  BY <2>1 DEF Touch, YesAskFromNoBid, One
<1>3. UNCHANGED <<paper, ledgers, told, owed>>
  BY DEF Fetch, FetchFails
<1>4. ASSUME NEW code \in {"upstream_error", "internal_error"}, Reply(c, [code |-> code])
      PROVE  SoundInv'
  <2> DEFINE x == [calls[c] EXCEPT !.pc = "done", !.reply = [code |-> code]]
  <2>1. x \in Places /\ x.order = r /\ x.reply.code = code
    BY <1>1 DEF Places
  <2>2. GoodCall(x, paper')
    BY <1>1, <2>1 DEF GoodCall, Places
  <2>3. calls' = [calls EXCEPT ![c] = x]
    BY <1>4 DEF Reply, SoundInv
  <2>4. /\ calls' \in [Calls -> {Idle} \cup Places \cup Reads]
        /\ \A d \in Calls : GoodCall(calls'[d], paper')
    <3> HIDE DEF x
    <3> QED  BY <1>3, <2>2, <2>3, OneCallMoves
  <2> QED  BY <1>3, <2>4 DEF SoundInv
<1>5. ASSUME NEW touch, touch.price \in Int, touch.size \in Int,
             calls' = [calls EXCEPT ![c].pc = "open",
                                    ![c].order.bookPrice = touch.price,
                                    ![c].order.bookSize = touch.size]
      PROVE  SoundInv'
  <2> DEFINE r2 == [r EXCEPT !.bookPrice = touch.price, !.bookSize = touch.size]
             x == [calls[c] EXCEPT !.pc = "open", !.order = r2]
  <2>1. Keyed(r2)
    BY <1>1, <1>5 DEF Keyed, Orders
  <2>2. x \in Places /\ x.order = r2 /\ x.pc = "open"
    BY <1>1, <2>1 DEF Places, Keyed
  <2>3. GoodCall(x, paper')
    <3> HIDE DEF r2
    <3> QED  BY <2>1, <2>2 DEF GoodCall
  <2>4. calls' = [calls EXCEPT ![c] = x]
    BY <1>1, <1>5 DEF SoundInv, Places, Orders
  <2>5. /\ calls' \in [Calls -> {Idle} \cup Places \cup Reads]
        /\ \A d \in Calls : GoodCall(calls'[d], paper')
    <3> HIDE DEF x
    <3> QED  BY <1>3, <2>3, <2>4, OneCallMoves
  <2> QED  BY <1>3, <2>5 DEF SoundInv
<1>6. CASE Fetch(c)
  <2> PICK book \in Orderbooks :
        \/ Reply(c, [code |-> "internal_error"])
        \/ calls' = [calls EXCEPT ![c].pc = "open",
                       ![c].order.bookPrice = Touch(book, r.side).price,
                       ![c].order.bookSize = Touch(book, r.side).size]
    BY <1>6 DEF Fetch
  <2> QED  BY <1>2, <1>4, <1>5
<1> QED  BY <1>4, <1>6 DEF FetchFails

(* The steps of paperLedger.                                               *)
LEMMA LedgerStepsSound ==
    ASSUME SoundInv, NEW c \in Calls, OpenLedger(c) \/ Publish(c) \/ Reread(c)
    PROVE  SoundInv'
<1>1. CASE OpenLedger(c)
  <2>1. calls[c] \in Places \cup Reads /\ calls[c].pc = "open"
    BY <1>1, CallShapes DEF OpenLedger, At
  <2>2. UNCHANGED <<paper, told, owed>>
    BY <1>1 DEF OpenLedger
  <2>3. PICK label \in {"publish", "reread"} :
          /\ calls' = [calls EXCEPT ![c].pc = label]
          /\ label = "reread" => paper # NoLedger
    BY <1>1 DEF OpenLedger
  <2>4. ledgers' \in [Calls -> Ledgers] /\ \A o \in Calls : Sound(ledgers'[o])
    <3>1. CASE ledgers' = [ledgers EXCEPT ![c] = NewLedger]
      BY <3>1, NewLedgerSound DEF SoundInv, Sound
    <3>2. CASE UNCHANGED ledgers
      BY <3>2 DEF SoundInv
    <3> QED  BY <1>1, <3>1, <3>2 DEF OpenLedger
  <2> DEFINE x == [calls[c] EXCEPT !.pc = label]
  <2>5. x \in Places \cup Reads /\ x.pc = label /\ x.kind = calls[c].kind
        /\ (x.kind = "place" => x.order = calls[c].order)
    BY <2>1 DEF Places, Reads
  <2>6. GoodCall(x, paper')
    <3>1. calls[c].kind = "place" => Keyed(calls[c].order)
      BY <2>1 DEF SoundInv, GoodCall
    <3> HIDE DEF x
    <3> QED  BY <2>2, <2>3, <2>5, <3>1 DEF GoodCall
  <2>7. calls' = [calls EXCEPT ![c] = x]
    BY <2>3 DEF SoundInv
  <2>8. /\ calls' \in [Calls -> {Idle} \cup Places \cup Reads]
        /\ \A d \in Calls : GoodCall(calls'[d], paper')
    <3> HIDE DEF x
    <3> QED  BY <2>2, <2>6, <2>7, OneCallMoves
  <2> QED  BY <2>2, <2>4, <2>8 DEF SoundInv
<1>2. CASE Publish(c)
  <2>1. calls[c] \in Places \cup Reads /\ calls[c].pc = "publish"
    BY <1>2, CallShapes DEF Publish, At
  <2>2. /\ calls' = [calls EXCEPT ![c].pc = "reread"] /\ paper' = c
        /\ UNCHANGED <<ledgers, told, owed>>
    BY <1>2 DEF Publish
  <2> DEFINE x == [calls[c] EXCEPT !.pc = "reread"]
  <2>3. x \in Places \cup Reads /\ x.pc = "reread" /\ x.kind = calls[c].kind
        /\ (x.kind = "place" => x.order = calls[c].order)
    BY <2>1 DEF Places, Reads
  <2>4. paper' # NoLedger
    BY <2>2, PaperAssumption
  <2>5. GoodCall(x, paper')
    <3>1. calls[c].kind = "place" => Keyed(calls[c].order)
      BY <2>1 DEF SoundInv, GoodCall
    <3> HIDE DEF x
    <3> QED  BY <2>3, <2>4, <3>1 DEF GoodCall
  <2>6. calls' = [calls EXCEPT ![c] = x]
    BY <2>2 DEF SoundInv
  <2>7. /\ calls' \in [Calls -> {Idle} \cup Places \cup Reads]
        /\ \A d \in Calls : GoodCall(calls'[d], paper')
    <3> HIDE DEF x
    <3> QED  BY <2>4, <2>5, <2>6, OneCallMoves
  <2> QED  BY <2>2, <2>7 DEF SoundInv
<1>3. CASE Reread(c)
  <2>1. /\ calls[c] \in Places \cup Reads /\ calls[c].pc = "reread"
        /\ paper \in Calls /\ paper # NoLedger
    BY <1>3, CallShapes DEF Reread, At, SoundInv, GoodCall
  <2>2. /\ calls' = [calls EXCEPT ![c].pc = "execute", ![c].ledger = paper]
        /\ UNCHANGED <<paper, ledgers, told, owed>>
    BY <1>3 DEF Reread
  <2> DEFINE x == [calls[c] EXCEPT !.pc = "execute", !.ledger = paper]
  <2>3. x \in Places \cup Reads /\ x.pc = "execute" /\ x.kind = calls[c].kind
        /\ x.ledger = paper /\ (x.kind = "place" => x.order = calls[c].order)
    BY <2>1 DEF Places, Reads
  <2>4. GoodCall(x, paper')
    <3>1. calls[c].kind = "place" => Keyed(calls[c].order)
      BY <2>1 DEF SoundInv, GoodCall
    <3> HIDE DEF x
    <3> QED  BY <2>1, <2>3, <3>1 DEF GoodCall
  <2>5. calls' = [calls EXCEPT ![c] = x]
    BY <2>2 DEF SoundInv
  <2>6. /\ calls' \in [Calls -> {Idle} \cup Places \cup Reads]
        /\ \A d \in Calls : GoodCall(calls'[d], paper')
    <3> HIDE DEF x
    <3> QED  BY <2>2, <2>4, <2>5, OneCallMoves
  <2> QED  BY <2>2, <2>6 DEF SoundInv
<1> QED  BY <1>1, <1>2, <1>3

(* Execute keeps its ledger sound and answers the order.                   *)
LEMMA ExecuteSound ==
    ASSUME SoundInv, NEW c \in Calls, Execute(c)
    PROVE  SoundInv'
<1> DEFINE r == calls[c].order
           o == calls[c].ledger
           l == ledgers[o]
           x == [calls[c] EXCEPT !.pc = "done", !.reply = Answer(l, r)]
<1>1. calls[c] \in Places /\ calls[c].pc = "execute" /\ calls[c].kind = "place"
      /\ Keyed(r) /\ o \in Calls
  BY CallShapes DEF Execute, At, SoundInv, GoodCall, Places
<1>2. /\ ledgers' = [ledgers EXCEPT ![o] = AfterExecute(l, r)]
      /\ calls' = [calls EXCEPT ![c].pc = "done", ![c].reply = Answer(l, r)]
      /\ UNCHANGED <<paper, told, owed>>
  BY DEF Execute, Reply
<1>3. Sound(l)
  BY <1>1 DEF SoundInv
<1>4. /\ Sound(AfterExecute(l, r))
      /\ Answer(l, r) \in Answers
      /\ Answer(l, r).code = "ok" =>
           /\ Answer(l, r).fill.ticker = r.ticker
           /\ ~Answer(l, r).replayed => Matches(Answer(l, r).fill, r)
  <2>1. /\ Sound(AfterExecute(l, r))
        /\ Answer(l, r) \in Answers
        /\ Answer(l, r).code = "ok" =>
             /\ Answer(l, r).fill.ticker = r.ticker
             /\ ~Answer(l, r).replayed => Answer(l, r).fill = FillFor(r)
                                            /\ Refusal(l, r) = "none"
    <3> HIDE DEF r, l
    <3> QED  BY <1>1, <1>3, ExecuteKeepsSound
  <2>2. Refusal(l, r) = "none" => Matches(FillFor(r), r)
    <3> HIDE DEF r, l
    <3> QED  BY <1>1, FillTypes DEF Matches
  <2> QED  BY <2>1, <2>2
<1>5. ledgers' \in [Calls -> Ledgers] /\ \A d \in Calls : Sound(ledgers'[d])
  <2>1. AfterExecute(l, r) \in Ledgers
    BY <1>4 DEF Sound
  <2> DEFINE after == AfterExecute(l, r)
  <2>2. Sound(after) /\ after \in Ledgers /\ ledgers' = [ledgers EXCEPT ![o] = after]
    BY <1>2, <1>4, <2>1
  <2> HIDE DEF after
  <2> QED  BY <1>1, <2>2 DEF SoundInv
<1> DEFINE a == Answer(l, r)
<1>6. /\ a \in Answers
      /\ a.code = "ok" => a.fill \in Fills
  BY <1>4 DEF Answers
<1>7. x \in Places /\ x.order = r /\ x.reply = a /\ x.pc = "done" /\ x.kind = "place"
  <2> HIDE DEF a
  <2>1. [calls[c] EXCEPT !.pc = "done", !.reply = a] \in Places
    BY <1>1, <1>6 DEF Places, Answers
  <2>2. x = [calls[c] EXCEPT !.pc = "done", !.reply = a]
    BY DEF a
  <2> QED  BY <1>1, <2>1, <2>2 DEF Places
<1>8. GoodCall(x, paper')
  <2> HIDE DEF x, r, l
  <2> QED  BY <1>1, <1>4, <1>6, <1>7 DEF GoodCall
<1>9. calls' = [calls EXCEPT ![c] = x]
  BY <1>2 DEF SoundInv
<1>10. /\ calls' \in [Calls -> {Idle} \cup Places \cup Reads]
       /\ \A d \in Calls : GoodCall(calls'[d], paper')
  <2> HIDE DEF x
  <2> QED  BY <1>2, <1>8, <1>9, OneCallMoves
<1> QED  BY <1>2, <1>5, <1>10 DEF SoundInv

(* Reading the portfolio changes no ledger.                                *)
LEMMA SnapshotSound ==
    ASSUME SoundInv, NEW c \in Calls, Snapshot(c)
    PROVE  SoundInv'
<1> DEFINE l == ledgers[calls[c].ledger]
           x == [calls[c] EXCEPT !.pc = "done", !.reply = [code |-> "ok", view |-> l]]
<1>1. calls[c] \in Reads /\ calls[c].pc = "execute" /\ calls[c].ledger \in Calls
      /\ calls[c].kind = "portfolio"
  BY CallShapes DEF Snapshot, At, SoundInv, GoodCall, Reads
<1>2. l \in Ledgers
  BY <1>1 DEF SoundInv
<1>3. UNCHANGED <<paper, ledgers, told, owed>>
  BY DEF Snapshot
<1>4. x \in Reads /\ x.kind = "portfolio" /\ x.pc = "done"
  <2> HIDE DEF l
  <2> QED  BY <1>1, <1>2 DEF Reads
<1>5. GoodCall(x, paper')
  BY <1>4 DEF GoodCall
<1>6. calls' = [calls EXCEPT ![c] = x]
  BY DEF Snapshot, Reply, SoundInv
<1>7. /\ calls' \in [Calls -> {Idle} \cup Places \cup Reads]
      /\ \A d \in Calls : GoodCall(calls'[d], paper')
  <2> HIDE DEF x
  <2> QED  BY <1>3, <1>5, <1>6, OneCallMoves
<1> QED  BY <1>3, <1>7 DEF SoundInv

(* Returning tells the fill of a ledger.                                   *)
LEMMA ReturnSound ==
    ASSUME SoundInv, NEW c \in Calls, Return(c)
    PROVE  SoundInv'
<1>1. /\ calls' = [calls EXCEPT ![c] = Idle]
      /\ told' = told \cup (IF ReportsFill(c) THEN {calls[c].reply.fill} ELSE {})
      /\ UNCHANGED <<paper, ledgers, owed>>
  BY DEF Return
<1>2. ReportsFill(c) => calls[c].reply.fill \in Fills
  BY DEF ReportsFill, At, SoundInv, GoodCall
<1>3. told' \subseteq Fills
  BY <1>1, <1>2 DEF SoundInv
<1>4. GoodCall(Idle, paper')
  BY DEF GoodCall, Idle
<1>5. /\ calls' \in [Calls -> {Idle} \cup Places \cup Reads]
      /\ \A d \in Calls : GoodCall(calls'[d], paper')
  BY <1>1, <1>4, OneCallMoves
<1> QED  BY <1>1, <1>3, <1>5 DEF SoundInv

(* Every step keeps the invariant.                                         *)
LEMMA SoundNext == SoundInv /\ [Next]_vars => SoundInv'
<1> SUFFICES ASSUME SoundInv, [Next]_vars PROVE SoundInv'
  OBVIOUS
<1>1. CASE UNCHANGED vars
  BY <1>1 DEF vars, SoundInv
<1>2. ASSUME NEW c \in Calls, NEW t \in Tickers, NEW i \in Ids \cup {NoId},
             NEW p \in Policies, NEW s \in Sides, NEW price \in Prices, NEW n \in Counts,
             BeginPlace(c, t, i, p, s, price, n)
      PROVE  SoundInv'
  BY <1>2, BeginsSound
<1>3. ASSUME NEW c \in Calls, BeginPortfolio(c) PROVE SoundInv'
  BY <1>3, BeginsSound
<1>4. ASSUME NEW c \in Calls, Step(c) PROVE SoundInv'
  BY <1>4, FetchSound, LedgerStepsSound, ExecuteSound, SnapshotSound, ReturnSound DEF Step
<1> QED  BY <1>1, <1>2, <1>3, <1>4 DEF Next

(* Every reachable ledger is sound, each is well typed and not overdrawn,  *)
(* and no order is filled twice under its key, however calls interleave    *)
(* and however many ledgers the first of them build (Execute, paperLedger).*)
THEOREM PaperSound == Spec => [](TypeOK /\ CashNeverNegative /\ OneFillPerKey
                                   /\ FillAnswersTheOrder)
<1>1. Init => SoundInv
  BY SoundInit
<1>2. SoundInv /\ [Next]_vars => SoundInv'
  BY SoundNext
<1>3. SoundInv => TypeOK /\ CashNeverNegative /\ OneFillPerKey /\ FillAnswersTheOrder
  BY SoundInvImplies
<1> QED  BY <1>1, <1>2, <1>3, PTL DEF Spec

(* Every state of handlers and ledger is well typed (Handler, Ledger).     *)
THEOREM PaperTypes == Spec => []TypeOK
  BY PaperSound, PTL

(* No ledger is overdrawn, by bids or by the fees of sales (Execute).      *)
THEOREM NeverOverdrawn == Spec => []CashNeverNegative
  BY PaperSound, PTL

(* A new fill that is reported is the order asked for, at the touch and    *)
(* within its size (PlaceOrder, Execute).                                  *)
THEOREM FillIsTheOrder == Spec => []FillAnswersTheOrder
  BY PaperSound, PTL

-----------------------------------------------------------------------------
(* What agents of the paper book may rely on when the answer of the first  *)
(* call is awaited.                                                        *)
(*                                                                         *)
(* The code does not ask for FirstAlone, so it is a hypothesis of each     *)
(* theorem: without it two first calls each build a ledger, and a fill     *)
(* that was reported is in the one that is replaced.  With it, AloneInv    *)
(* says there is at most one call while there is no ledger, and that every *)
(* call works on the ledger of the handler ever after.  So the ledger      *)
(* agents see changes only by Execute, and what KnownInv says of their     *)
(* knowledge follows from the lemmas about the ledger.                     *)

AloneInv ==
    /\ \A c \in Calls : At(c, "publish") => paper = NoLedger /\ ledgers[c] = NewLedger
    /\ \A c \in Calls : At(c, "execute") => calls[c].ledger = paper
    /\ paper = NoLedger =>
         /\ told = {}
         /\ \A c, d \in Calls : ~At(c, "idle") /\ ~At(d, "idle") => c = d
         /\ \A c \in Calls :
              /\ calls[c].pc \in {"idle", "fetch", "open", "publish", "done"}
              /\ At(c, "done") => calls[c].kind = "place" /\ ~ReportsFill(c)

KnownInv ==
    /\ told \subseteq FillsIn(Current)
    /\ \A c \in Calls : owed[c] \subseteq told
    /\ \A c \in Calls : ReportsFill(c) => calls[c].reply.fill \in FillsIn(Current)

-----------------------------------------------------------------------------
(* How the calls move, once and for all actions.                           *)

(* A step of one goroutine leaves the calls of the others alone.           *)
LEMMA OthersStay ==
    ASSUME SoundInv, NEW c \in Calls, Step(c)
    PROVE  /\ ~At(c, "idle")
           /\ \A d \in Calls \ {c} : calls'[d] = calls[d]
           /\ owed' = owed
           /\ calls' \in [Calls -> {Idle} \cup Places \cup Reads]
<1>1. ~At(c, "idle") /\ owed' = owed
  BY DEF Step, Fetch, FetchFails, OpenLedger, Publish, Reread, Execute, Snapshot, Return, At
<1>2. \A d \in Calls \ {c} : calls'[d] = calls[d]
  BY DEF SoundInv, Step, Fetch, FetchFails, OpenLedger, Publish, Reread, Execute, Snapshot,
         Return, Reply
<1>3. SoundInv'
  BY SoundNext DEF Next
<1> QED  BY <1>1, <1>2, <1>3 DEF SoundInv

(* A call that begins is the only one while there is no ledger, and finds  *)
(* its goroutine idle.                                                     *)
LEMMA BeginsAlone ==
    ASSUME SoundInv, FirstAlone, NEW c \in Calls,
           \/ \E t \in Tickers, i \in Ids \cup {NoId}, p \in Policies, s \in Sides,
                 price \in Prices, n \in Counts : BeginPlace(c, t, i, p, s, price, n)
           \/ BeginPortfolio(c)
    PROVE  /\ At(c, "idle") /\ calls'[c].pc \in {"fetch", "open"}
           /\ \A d \in Calls \ {c} : calls'[d] = calls[d]
           /\ paper = NoLedger => \A d \in Calls : At(d, "idle")
           /\ owed' = [owed EXCEPT ![c] = told]
           /\ UNCHANGED <<paper, ledgers, told>>
  BY DEF BeginPlace, BeginPortfolio, MayBegin, SoundInv

(* A goroutine that only goes on is at the next label with what it had.    *)
LEMMA Goes ==
    ASSUME SoundInv, NEW c \in Calls, ~At(c, "idle"), NEW label,
           calls' = [calls EXCEPT ![c].pc = label]
    PROVE  calls'[c].pc = label
<1>1. calls[c] \in Places \cup Reads
  BY CallShapes DEF At
<1>2. calls' = [calls EXCEPT ![c] = [calls[c] EXCEPT !.pc = label]]
  BY DEF SoundInv
<1>3. calls'[c] = [calls[c] EXCEPT !.pc = label]
  BY <1>2 DEF SoundInv
<1> QED  BY <1>1, <1>3 DEF Places, Reads

(* A goroutine that replies is done with its kind, order and reply.        *)
LEMMA Replies ==
    ASSUME SoundInv, NEW c \in Calls, ~At(c, "idle"), NEW reply, Reply(c, reply)
    PROVE  /\ calls'[c].pc = "done" /\ calls'[c].kind = calls[c].kind
           /\ calls'[c].reply = reply
           /\ calls[c].kind = "place" => calls'[c].order = calls[c].order
<1>1. calls[c] \in Places \cup Reads
  BY CallShapes DEF At
<1>2. calls'[c] = [calls[c] EXCEPT !.pc = "done", !.reply = reply]
  BY DEF SoundInv, Reply
<1> QED  BY <1>1, <1>2 DEF Places, Reads

-----------------------------------------------------------------------------
(* One ledger.                                                             *)

(* Every step of a goroutine keeps the others from building a ledger too.  *)
LEMMA AloneSteps ==
    ASSUME SoundInv, AloneInv, NEW c \in Calls, Step(c)
    PROVE  AloneInv'
<1>1. /\ ~At(c, "idle")
      /\ \A d \in Calls \ {c} : calls'[d] = calls[d]
  BY OthersStay
<1>2. calls \in [Calls -> {Idle} \cup Places \cup Reads]
  BY DEF SoundInv
<1>3. CASE Fetch(c) \/ FetchFails(c)
  <2>1. UNCHANGED <<paper, ledgers, told>> /\ At(c, "fetch") /\ calls[c] \in Places
    BY <1>3, CallShapes DEF Fetch, FetchFails, At
  <2>2. ASSUME NEW code \in {"upstream_error", "internal_error"}, Reply(c, [code |-> code])
        PROVE  AloneInv'
    <3>1. calls'[c].pc = "done" /\ calls'[c].kind = "place" /\ calls'[c].reply.code = code
      BY <1>1, <2>1, <2>2, Replies DEF Places
    <3> QED  BY <1>1, <2>1, <3>1 DEF AloneInv, At, ReportsFill
  <2>3. ASSUME NEW p, NEW n, calls' = [calls EXCEPT ![c].pc = "open", ![c].order.bookPrice = p,
                                                    ![c].order.bookSize = n]
        PROVE  AloneInv'
    <3>1. calls'[c].pc = "open"
      <4>1. calls'[c] = [calls[c] EXCEPT !.pc = "open", !.order.bookPrice = p,
                                         !.order.bookSize = n]
        BY <1>2, <2>3
      <4> QED  BY <2>1, <4>1 DEF Places
    <3> QED  BY <1>1, <2>1, <3>1 DEF AloneInv, At, ReportsFill
  <2> QED  BY <1>3, <2>2, <2>3 DEF Fetch, FetchFails
<1>4. CASE OpenLedger(c) /\ paper = NoLedger
  <2>1. /\ UNCHANGED <<paper, told>> /\ calls' = [calls EXCEPT ![c].pc = "publish"]
        /\ ledgers' = [ledgers EXCEPT ![c] = NewLedger]
    BY <1>4 DEF OpenLedger
  <2>2. ledgers'[c] = NewLedger /\ \A d \in Calls \ {c} : ledgers'[d] = ledgers[d]
    BY <2>1 DEF SoundInv
  <2>3. calls'[c].pc = "publish"
    BY <1>1, <2>1, Goes
  <2> QED  BY <1>1, <1>4, <2>1, <2>2, <2>3 DEF AloneInv, At, ReportsFill
<1>5. CASE OpenLedger(c) /\ paper # NoLedger
  <2>1. UNCHANGED <<paper, ledgers, told>> /\ calls' = [calls EXCEPT ![c].pc = "reread"]
    BY <1>5 DEF OpenLedger
  <2>2. calls'[c].pc = "reread"
    BY <1>1, <2>1, Goes
  <2> QED  BY <1>1, <1>5, <2>1, <2>2 DEF AloneInv, At, ReportsFill
<1>6. CASE Publish(c)
  <2>1. /\ UNCHANGED <<ledgers, told>> /\ paper' = c
        /\ calls' = [calls EXCEPT ![c].pc = "reread"]
    BY <1>6 DEF Publish
  <2>2. paper = NoLedger /\ c # NoLedger
    BY <1>6, PaperAssumption DEF Publish, AloneInv
  <2>3. \A d \in Calls \ {c} : At(d, "idle")
    BY <1>1, <2>2 DEF AloneInv
  <2>4. calls'[c].pc = "reread"
    BY <1>1, <2>1, Goes
  <2> QED  BY <1>1, <2>1, <2>2, <2>3, <2>4 DEF AloneInv, At, ReportsFill
<1>7. CASE Reread(c)
  <2>1. /\ UNCHANGED <<paper, ledgers, told>>
        /\ calls' = [calls EXCEPT ![c] = [calls[c] EXCEPT !.pc = "execute", !.ledger = paper]]
    BY <1>7 DEF Reread
  <2>2. calls'[c].pc = "execute" /\ calls'[c].ledger = paper
    <3>1. calls[c] \in Places \cup Reads
      BY <1>7, CallShapes DEF Reread, At
    <3> QED  BY <1>2, <2>1, <3>1 DEF Places, Reads
  <2>3. paper # NoLedger
    BY <1>7 DEF Reread, At, SoundInv, GoodCall
  <2> QED  BY <1>1, <2>1, <2>2, <2>3 DEF AloneInv, At, ReportsFill
<1>8. CASE Execute(c) \/ Snapshot(c)
  <2>1. UNCHANGED <<paper, told>> /\ \E reply : Reply(c, reply)
    BY <1>8 DEF Execute, Snapshot
  <2>2. calls'[c].pc = "done"
    BY <1>1, <2>1, Replies
  <2>3. paper # NoLedger
    BY <1>8 DEF Execute, Snapshot, At, SoundInv, GoodCall, AloneInv
  <2>4. \A d \in Calls : ~At(d, "publish")
    BY <2>3 DEF AloneInv
  <2> QED  BY <1>1, <2>1, <2>2, <2>3, <2>4 DEF AloneInv, At, ReportsFill
<1>9. CASE Return(c)
  <2>1. /\ UNCHANGED <<paper, ledgers>> /\ calls'[c].pc = "idle"
        /\ told' = told \cup (IF ReportsFill(c) THEN {calls[c].reply.fill} ELSE {})
    BY <1>2, <1>9 DEF Return, Idle
  <2>2. paper = NoLedger => told' = told
    BY <1>9, <2>1 DEF AloneInv, Return
  <2> QED  BY <1>1, <2>1, <2>2 DEF AloneInv, At, ReportsFill
<1> QED  BY <1>3, <1>4, <1>5, <1>6, <1>7, <1>8, <1>9 DEF Step

(* So does every other step, if first calls are made alone.                *)
LEMMA AloneStep ==
    FirstAlone /\ SoundInv /\ AloneInv /\ [Next]_vars => AloneInv'
<1> SUFFICES ASSUME FirstAlone, SoundInv, AloneInv, [Next]_vars PROVE AloneInv'
  OBVIOUS
<1>1. ASSUME NEW c \in Calls,
             \/ \E t \in Tickers, i \in Ids \cup {NoId}, p \in Policies, s \in Sides,
                   price \in Prices, n \in Counts : BeginPlace(c, t, i, p, s, price, n)
             \/ BeginPortfolio(c)
      PROVE  AloneInv'
  BY <1>1, BeginsAlone DEF AloneInv, At, ReportsFill
<1>2. CASE UNCHANGED vars
  BY <1>2 DEF vars, AloneInv, At, ReportsFill
<1> QED  BY <1>1, <1>2, AloneSteps DEF Next

(* The ledger agents see is sound.                                         *)
LEMMA CurrentSound == SoundInv => Sound(Current)
  BY NewLedgerSound DEF SoundInv, Current

(* Execute works on that ledger, and answers from it.                      *)
LEMMA ExecuteCurrent ==
    ASSUME SoundInv, AloneInv, NEW c \in Calls, Execute(c)
    PROVE  /\ Keyed(calls[c].order)
           /\ Current' = AfterExecute(Current, calls[c].order)
           /\ Reply(c, Answer(Current, calls[c].order))
<1>1. calls[c].ledger = paper /\ paper \in Calls /\ paper # NoLedger
  BY DEF Execute, At, SoundInv, GoodCall, AloneInv
<1>2. /\ ledgers' = [ledgers EXCEPT ![paper] = AfterExecute(ledgers[paper], calls[c].order)]
      /\ Reply(c, Answer(ledgers[paper], calls[c].order))
      /\ paper' = paper
  BY <1>1 DEF Execute
<1>3. Keyed(calls[c].order)
  BY DEF Execute, At, SoundInv, GoodCall
<1> QED  BY <1>1, <1>2, <1>3 DEF Current, SoundInv

(* Only Execute changes that ledger.                                       *)
LEMMA CurrentMoves ==
    ASSUME SoundInv, AloneInv, [Next]_vars
    PROVE  \/ Current' = Current
           \/ \E c \in Calls : /\ Keyed(calls[c].order)
                               /\ Current' = AfterExecute(Current, calls[c].order)
<1>1. ASSUME NEW c \in Calls, Execute(c)
      PROVE  Keyed(calls[c].order) /\ Current' = AfterExecute(Current, calls[c].order)
  BY <1>1, ExecuteCurrent
<1>2. ASSUME NEW c \in Calls, OpenLedger(c) PROVE Current' = Current
  <2>1. paper' = paper
    BY <1>2 DEF OpenLedger
  <2>2. paper # NoLedger => ledgers' = ledgers
    BY <1>2 DEF OpenLedger
  <2> QED  BY <2>1, <2>2 DEF Current
<1>3. ASSUME NEW c \in Calls, Publish(c) PROVE Current' = Current
  <2>1. paper = NoLedger /\ ledgers[c] = NewLedger /\ c # NoLedger
    BY <1>3, PaperAssumption DEF Publish, AloneInv
  <2> QED  BY <1>3, <2>1 DEF Publish, Current
<1>4. ASSUME UNCHANGED <<paper, ledgers>> PROVE Current' = Current
  BY <1>4 DEF Current
<1>5. ASSUME NEW c \in Calls, Step(c), ~Execute(c), ~OpenLedger(c), ~Publish(c)
      PROVE  UNCHANGED <<paper, ledgers>>
  BY <1>5 DEF Step, Fetch, FetchFails, Reread, Snapshot, Return
<1>6. ASSUME NEW c \in Calls, \/ \E t \in Tickers, i \in Ids \cup {NoId}, p \in Policies,
                                   s \in Sides, price \in Prices, n \in Counts :
                                   BeginPlace(c, t, i, p, s, price, n)
                              \/ BeginPortfolio(c)
      PROVE  UNCHANGED <<paper, ledgers>>
  BY <1>6 DEF BeginPlace, BeginPortfolio
<1>7. ASSUME UNCHANGED vars PROVE UNCHANGED <<paper, ledgers>>
  BY <1>7 DEF vars
<1> QED  BY <1>1, <1>2, <1>3, <1>4, <1>5, <1>6, <1>7 DEF Next

(* No fill ever leaves the ledger agents see.                              *)
LEMMA FillsStay ==
    ASSUME SoundInv, AloneInv, [Next]_vars
    PROVE  FillsIn(Current) \subseteq FillsIn(Current)'
<1>1. CASE Current' = Current
  BY <1>1 DEF FillsIn
<1>2. ASSUME NEW c \in Calls, Keyed(calls[c].order),
             Current' = AfterExecute(Current, calls[c].order)
      PROVE  FillsIn(Current) \subseteq FillsIn(Current)'
  <2>1. FillsIn(Current) \subseteq FillsIn(AfterExecute(Current, calls[c].order))
    BY <1>2, CurrentSound, ExecuteKeepsSound
  <2> QED  BY <1>2, <2>1 DEF FillsIn
<1> QED  BY <1>1, <1>2, CurrentMoves

-----------------------------------------------------------------------------
(* What agents know.                                                       *)

(* The order book was not there or not as the order says.                  *)
LEMMA FetchEnds ==
    ASSUME SoundInv, NEW c \in Calls, Fetch(c) \/ FetchFails(c), calls'[c].pc = "done"
    PROVE  calls'[c].kind = "place" /\ calls'[c].reply.code \in {"upstream_error", "internal_error"}
<1>1. At(c, "fetch") /\ calls[c] \in Places
  BY CallShapes DEF Fetch, FetchFails, At
<1>2. ASSUME NEW code \in {"upstream_error", "internal_error"}, Reply(c, [code |-> code])
      PROVE  calls'[c].kind = "place" /\ calls'[c].reply.code = code
  BY <1>1, <1>2, Replies DEF Places, At
<1>3. ASSUME NEW p, NEW n, calls' = [calls EXCEPT ![c].pc = "open", ![c].order.bookPrice = p,
                                                  ![c].order.bookSize = n]
      PROVE  FALSE
  <2>1. calls'[c] = [calls[c] EXCEPT !.pc = "open", !.order.bookPrice = p,
                                     !.order.bookSize = n]
    BY <1>3 DEF SoundInv
  <2>2. calls'[c].pc = "open"
    BY <1>1, <2>1 DEF Places
  <2> QED  BY <2>2
<1>4. \/ \E code \in {"upstream_error", "internal_error"} : Reply(c, [code |-> code])
      \/ \E p, n : calls' = [calls EXCEPT ![c].pc = "open", ![c].order.bookPrice = p,
                                          ![c].order.bookSize = n]
  BY DEF Fetch, FetchFails
<1>5. calls'[c].kind = "place" /\ calls'[c].reply.code \in {"upstream_error", "internal_error"}
  BY <1>2, <1>3, <1>4
<1> QED  BY <1>5

(* How a call comes to its reply: without the ledger, by Execute on the    *)
(* ledger agents see, or by a look at it.                                  *)
LEMMA DoneBy ==
    ASSUME SoundInv, AloneInv, NEW c \in Calls, Step(c), calls'[c].pc = "done"
    PROVE  \/ /\ calls'[c].kind = "place"
              /\ calls'[c].reply.code \in {"upstream_error", "internal_error"}
           \/ /\ calls'[c].kind = "place" /\ calls'[c].order = calls[c].order
              /\ Keyed(calls[c].order)
              /\ Current' = AfterExecute(Current, calls[c].order)
              /\ calls'[c].reply = Answer(Current, calls[c].order)
           \/ /\ calls'[c].kind = "portfolio"
              /\ calls'[c].reply.view = Current
<1>1. ~At(c, "idle")
  BY OthersStay
<1>2. CASE Fetch(c) \/ FetchFails(c)
  BY <1>2, FetchEnds
<1>3. CASE OpenLedger(c) \/ Publish(c)
  <2>1. \E label \in {"publish", "reread"} : calls' = [calls EXCEPT ![c].pc = label]
    BY <1>3 DEF OpenLedger, Publish
  <2> QED  BY <1>1, <2>1, Goes
<1>4. CASE Reread(c)
  <2>1. calls[c] \in Places \cup Reads
    BY <1>1, CallShapes DEF At
  <2>2. calls'[c] = [calls[c] EXCEPT !.pc = "execute", !.ledger = paper]
    BY <1>4 DEF Reread, SoundInv
  <2> QED  BY <2>1, <2>2 DEF Places, Reads
<1>5. CASE Execute(c)
  <2>1. /\ Keyed(calls[c].order)
        /\ Current' = AfterExecute(Current, calls[c].order)
        /\ Reply(c, Answer(Current, calls[c].order))
    BY <1>5, ExecuteCurrent
  <2>2. calls[c].kind = "place"
    BY <1>5 DEF Execute
  <2> QED  BY <1>1, <2>1, <2>2, Replies
<1>6. CASE Snapshot(c)
  <2>1. calls[c].ledger = paper /\ paper # NoLedger
    BY <1>6 DEF Snapshot, At, SoundInv, GoodCall, AloneInv
  <2>2. Reply(c, [code |-> "ok", view |-> Current]) /\ calls[c].kind = "portfolio"
    BY <1>6, <2>1 DEF Snapshot, Current
  <2> QED  BY <1>1, <2>2, Replies
<1>7. CASE Return(c)
  BY <1>7 DEF Return, SoundInv, Idle
<1> QED  BY <1>2, <1>3, <1>4, <1>5, <1>6, <1>7 DEF Step

(* What is told is the fill of a reply, and what is owed was told.         *)
LEMMA TellsReplies ==
    ASSUME SoundInv, [Next]_vars
    PROVE  /\ told \subseteq told'
           /\ \A f \in told' \ told : \E c \in Calls : ReportsFill(c) /\ f = calls[c].reply.fill
           /\ \A c \in Calls : owed'[c] = owed[c] \/ owed'[c] = told
           /\ \A c \in Calls : owed'[c] = owed[c] \/ calls'[c].pc \in {"fetch", "open"}
<1>1. ASSUME NEW c \in Calls, Step(c)
      PROVE  /\ owed' = owed
             /\ \/ told' = told
                \/ ReportsFill(c) /\ told' = told \cup {calls[c].reply.fill}
  BY <1>1 DEF Step, Fetch, FetchFails, OpenLedger, Publish, Reread, Execute, Snapshot, Return
<1>2. ASSUME NEW c \in Calls,
             \/ \E t \in Tickers, i \in Ids \cup {NoId}, p \in Policies, s \in Sides,
                   price \in Prices, n \in Counts : BeginPlace(c, t, i, p, s, price, n)
             \/ BeginPortfolio(c)
      PROVE  /\ told' = told /\ owed' = [owed EXCEPT ![c] = told]
             /\ calls'[c].pc \in {"fetch", "open"}
  BY <1>2 DEF BeginPlace, BeginPortfolio, SoundInv
<1>3. ASSUME UNCHANGED vars PROVE told' = told /\ owed' = owed
  BY <1>3 DEF vars
<1> QED  BY <1>1, <1>2, <1>3 DEF Next, SoundInv

(* A call that ends a step done, and did not begin it so, took the step.   *)
LEMMA DoneOwnStep ==
    ASSUME SoundInv, [Next]_vars, NEW c \in Calls, calls'[c].pc = "done"
    PROVE  calls'[c] = calls[c] \/ Step(c)
<1>1. ASSUME NEW d \in Calls, Step(d) PROVE calls'[c] = calls[c] \/ Step(c)
  BY <1>1, OthersStay
<1>2. ASSUME NEW d \in Calls,
             \/ \E t \in Tickers, i \in Ids \cup {NoId}, p \in Policies, s \in Sides,
                   price \in Prices, n \in Counts : BeginPlace(d, t, i, p, s, price, n)
             \/ BeginPortfolio(d)
      PROVE  calls'[c] = calls[c]
  BY <1>2 DEF BeginPlace, BeginPortfolio, SoundInv
<1>3. ASSUME UNCHANGED vars PROVE calls' = calls
  BY <1>3 DEF vars
<1> QED  BY <1>1, <1>2, <1>3 DEF Next

(* A fill of the ledger answers every order under its key.                 *)
LEMMA KnownFillAnswers ==
    ASSUME NEW l, Sound(l), NEW r, Keyed(r), NEW f \in FillsIn(l), f.key = r.key
    PROVE  Answer(l, r).code = "ok"
<1>1. PICK i \in DOMAIN l.journal : l.journal[i] = f
  BY DEF FillsIn
<1>2. l.journal \in Seq(Fills) /\ i \in Nat \ {0}
  BY <1>1 DEF Sound, Ledgers
<1>3. l.index[r.key] = i
  BY <1>1 DEF Sound, Indexed
<1> QED  BY <1>2, <1>3 DEF Filled, Answer

(* What agents know is so after every step.                                *)
LEMMA KnownStep ==
    ASSUME SoundInv, AloneInv, KnownInv, [Next]_vars
    PROVE  KnownInv'
<1>1. FillsIn(Current) \subseteq FillsIn(Current)'
  BY FillsStay
<1>2. (told \subseteq FillsIn(Current))'
  BY <1>1, TellsReplies DEF KnownInv
<1>3. \A c \in Calls : owed'[c] \subseteq told'
  BY TellsReplies DEF KnownInv
<1>4. ASSUME NEW c \in Calls, ReportsFill(c)'
      PROVE  calls'[c].reply.fill \in FillsIn(Current)'
  <2>1. CASE calls'[c] = calls[c]
    BY <1>1, <1>4, <2>1 DEF KnownInv, ReportsFill, At
  <2>2. CASE Step(c)
    <3>1. /\ Keyed(calls[c].order)
          /\ Current' = AfterExecute(Current, calls[c].order)
          /\ calls'[c].reply = Answer(Current, calls[c].order)
      BY <1>4, <2>2, DoneBy DEF ReportsFill, At
    <3>2. Answer(Current, calls[c].order).code = "ok"
      BY <1>4, <3>1 DEF ReportsFill
    <3>3. Answer(Current, calls[c].order).fill
            \in FillsIn(AfterExecute(Current, calls[c].order))
      BY <3>1, <3>2, CurrentSound, ExecuteKeepsSound
    <3> QED  BY <3>1, <3>3 DEF FillsIn
  <2> QED  BY <1>4, <2>1, <2>2, DoneOwnStep DEF ReportsFill, At
<1> QED  BY <1>2, <1>3, <1>4 DEF KnownInv

(* A portfolio shows what its reader was told of before it asked.          *)
LEMMA ReadsStep ==
    ASSUME SoundInv, AloneInv, KnownInv, ReadsOwnFills, [Next]_vars
    PROVE  ReadsOwnFills'
<1> SUFFICES ASSUME NEW c \in Calls, calls'[c].pc = "done", calls'[c].kind = "portfolio"
             PROVE  owed'[c] \subseteq FillsIn(calls'[c].reply.view)
  BY DEF ReadsOwnFills, At, FillsIn
<1>1. owed'[c] = owed[c]
  BY TellsReplies
<1>2. CASE calls'[c] = calls[c]
  BY <1>1, <1>2 DEF ReadsOwnFills, At, FillsIn
<1>3. CASE Step(c)
  <2>1. calls'[c].reply.view = Current
    BY <1>3, DoneBy
  <2> QED  BY <1>1, <2>1 DEF KnownInv
<1> QED  BY <1>2, <1>3, DoneOwnStep

(* An order sent again meets its own fill.                                 *)
LEMMA RetryStep ==
    ASSUME SoundInv, AloneInv, KnownInv, RetryIsAnswered, [Next]_vars
    PROVE  RetryIsAnswered'
<1> SUFFICES ASSUME NEW c \in Calls, calls'[c].pc = "done", calls'[c].kind = "place",
                    NEW f \in owed'[c], f.key = calls'[c].order.key,
                    f.side = calls'[c].order.side, f.price = calls'[c].order.price,
                    f.count = calls'[c].order.count
             PROVE  calls'[c].reply.code \in {"ok", "upstream_error", "internal_error"}
  BY DEF RetryIsAnswered, Repeats, At
<1>1. owed'[c] = owed[c]
  BY TellsReplies
<1>2. CASE calls'[c] = calls[c]
  BY <1>1, <1>2 DEF RetryIsAnswered, Repeats, At
<1>3. CASE Step(c)
  <2>1. CASE calls'[c].reply.code \in {"upstream_error", "internal_error"}
    BY <2>1
  <2>2. CASE /\ calls'[c].order = calls[c].order /\ Keyed(calls[c].order)
             /\ calls'[c].reply = Answer(Current, calls[c].order)
    <3>1. f \in FillsIn(Current)
      BY <1>1 DEF KnownInv
    <3> QED  BY <2>2, <3>1, CurrentSound, KnownFillAnswers
  <2> QED  BY <1>3, <2>1, <2>2, DoneBy
<1> QED  BY <1>2, <1>3, DoneOwnStep

(* There is nothing to lose and nobody to be told at first.                *)
LEMMA AccountInit ==
    Init => AloneInv /\ KnownInv /\ ReadsOwnFills /\ RetryIsAnswered
  BY DEF Init, Idle, AloneInv, KnownInv, ReadsOwnFills, RetryIsAnswered, At, ReportsFill

(* The whole invariant of a kernel whose first answer is awaited.          *)
AccountInv == SoundInv /\ AloneInv /\ KnownInv /\ ReadsOwnFills /\ RetryIsAnswered

(* It holds in every state of such a kernel.                               *)
THEOREM AccountHolds == FirstAlone => (Spec => []AccountInv)
<1> SUFFICES ASSUME FirstAlone PROVE Spec => []AccountInv
  OBVIOUS
<1>1. Init => AccountInv
  BY SoundInit, AccountInit DEF AccountInv
<1>2. AccountInv /\ [Next]_vars => AccountInv'
  BY SoundNext, AloneStep, KnownStep, ReadsStep, RetryStep DEF AccountInv
<1> QED  BY <1>1, <1>2, PTL DEF Spec

(* No fill that has been reported leaves the ledger agents see, once the   *)
(* first answer is awaited (paperLedger, Execute).                         *)
THEOREM ToldFillsAreKept == FirstAlone => (Spec => []ToldFillsStay)
<1>1. AccountInv => ToldFillsStay
  BY DEF AccountInv, KnownInv, ToldFillsStay
<1> QED  BY <1>1, AccountHolds, PTL

(* A portfolio shows every fill that was reported before it was asked for  *)
(* (Portfolio, Snapshot).                                                  *)
THEOREM ReadersSeeTheirFills == FirstAlone => (Spec => []ReadsOwnFills)
<1>1. AccountInv => ReadsOwnFills
  BY DEF AccountInv
<1> QED  BY <1>1, AccountHolds, PTL

(* The ledger answers an order that is sent again with its fill, whatever  *)
(* the cash, the displayed size and the journal are by then (Execute).     *)
THEOREM RetriesAreAnswered == FirstAlone => (Spec => []RetryIsAnswered)
<1>1. AccountInv => RetryIsAnswered
  BY DEF AccountInv
<1> QED  BY <1>1, AccountHolds, PTL

-----------------------------------------------------------------------------
(* The refinement of PaperAccount.                                         *)

FilledOf(l) == [k \in Keys |-> IF Filled(l, k) THEN {FillOf(l, k)} ELSE {}]

(* A new ledger is a new account.                                          *)
LEMMA AccountOpens == Init => Simulated!OpenAccount
<1> SUFFICES ASSUME Init PROVE Simulated!OpenAccount
  OBVIOUS
<1>1. Current = NewLedger
  BY DEF Init, Current
<1>2. \A k \in Keys : ~Filled(NewLedger, k)
  BY DEF NewLedger, Filled
<1> QED  BY <1>1, <1>2 DEF Simulated!OpenAccount, NewLedger

(* Booking is a fill of the account under a key that has none.             *)
LEMMA BookFillsOnce ==
    ASSUME Sound(Current), NEW r, Keyed(r), ~Filled(Current, r.key),
           Refusal(Current, r) = "none", Current' = Book(Current, FillFor(r))
    PROVE  Simulated!AccountNext
<1> DEFINE f == FillFor(r)
           l == Current
<1>1. /\ f \in Fills /\ f.key = r.key /\ f.ticker = r.ticker /\ f.side = r.side
      /\ CashDelta(f) \in Int /\ PositionDelta(f) \in Int
      /\ f.side = "bid" => ~(l.cash + CashDelta(f) < 0)
  BY FillTypes
<1>2. r.key \in Keys
  BY DEF Keyed, Orders
<1>3. /\ \A k \in Keys : Filled(Current', k) <=> Filled(l, k) \/ k = r.key
      /\ \A k \in Keys \ {r.key} : Filled(l, k) => FillOf(Current', k) = FillOf(l, k)
      /\ FillOf(Current', r.key) = f
  BY BookKeepsSound
<1>4. l.cash \in Int
  BY DEF Sound, Ledgers
<1> HIDE DEF f
<1>5. /\ (Current').cash = l.cash + CashDelta(f)
      /\ (Current').positions = [l.positions EXCEPT ![f.ticker] = @ + PositionDelta(f)]
  BY DEF Book, f
<1>6. FilledOf(Current') = [FilledOf(l) EXCEPT ![f.key] = {f}]
  BY <1>1, <1>2, <1>3 DEF FilledOf
<1>7. FilledOf(l)[f.key] = {} /\ FilledOf(Current')[f.key] = {f}
  BY <1>1, <1>2, <1>3 DEF FilledOf
<1>8. Simulated!FillOnce(f)
  BY <1>1, <1>4, <1>5, <1>6, <1>7 DEF Simulated!FillOnce, FilledOf, Filled, FillOf
<1> QED  BY <1>1, <1>2, <1>7, <1>8 DEF Simulated!AccountNext, FilledOf, Filled, FillOf

(* Every step fills one order or leaves the account alone.                 *)
LEMMA AccountSteps ==
    SoundInv /\ AloneInv /\ [Next]_vars => [Simulated!AccountNext]_(Simulated!accountVars)
<1> SUFFICES ASSUME SoundInv, AloneInv, [Next]_vars
             PROVE  [Simulated!AccountNext]_(Simulated!accountVars)
  OBVIOUS
<1>1. CASE Current' = Current
  BY <1>1 DEF Simulated!accountVars, Filled, FillOf
<1>2. ASSUME NEW c \in Calls, Keyed(calls[c].order),
             Current' = AfterExecute(Current, calls[c].order), Current' # Current
      PROVE  Simulated!AccountNext
  BY <1>2, CurrentSound, BookFillsOnce DEF AfterExecute
<1> QED  BY <1>1, <1>2, CurrentMoves

(* The paper book, its handlers and a moving market are an account: each   *)
(* key is filled at most once and whole, and only fills move cash and      *)
(* positions (PlaceOrder, Execute).                                        *)
THEOREM PaperIsAnAccount == FirstAlone => (Spec => KeepsAccount)
<1> SUFFICES ASSUME FirstAlone PROVE Spec => KeepsAccount
  OBVIOUS
<1>1. Init => Simulated!OpenAccount
  BY AccountOpens
<1>2. AccountInv /\ [Next]_vars => [Simulated!AccountNext]_(Simulated!accountVars)
  BY AccountSteps DEF AccountInv
<1>3. Spec => []AccountInv
  BY AccountHolds
<1> QED  BY <1>1, <1>2, <1>3, PTL DEF Spec, KeepsAccount, Simulated!Account

-----------------------------------------------------------------------------
(* The books.  A running total cannot be computed here for every journal,  *)
(* but it can be carried along: what a ledger has booked is what its       *)
(* journal comes to, and a fill adds its own amount to both.               *)

(* g runs through the totals of the first n amounts.                       *)
Runs(amounts, n, g) ==
    g = [i \in 0..n |-> IF i = 0 THEN 0 ELSE g[i - 1] + amounts[i]]

(* Such a g exists, and whichever it is it ends with v.                    *)
ComesTo(amounts, n, v) ==
    /\ \E g : Runs(amounts, n, g)
    /\ \A g : Runs(amounts, n, g) => g[n] = v

(* What amounts come to is their running total.                            *)
LEMMA TotalIs ==
    ASSUME NEW amounts, NEW n \in Nat, NEW v, ComesTo(amounts, n, v)
    PROVE  RunningTotal(amounts, n) = v
<1> DEFINE s == CHOOSE g : Runs(amounts, n, g)
<1>1. Runs(amounts, n, s)
  BY DEF ComesTo
<1>2. RunningTotal(amounts, n) = s[n]
  BY DEF RunningTotal, Runs
<1> QED  BY <1>1, <1>2 DEF ComesTo

(* No amounts come to nothing.                                             *)
LEMMA TotalOfNone ==
    ASSUME NEW amounts
    PROVE  ComesTo(amounts, 0, 0)
<1>1. Runs(amounts, 0, [i \in 0..0 |-> 0])
  BY DEF Runs
<1>2. ASSUME NEW g, Runs(amounts, 0, g) PROVE g[0] = 0
  BY <1>2 DEF Runs
<1> QED  BY <1>1, <1>2 DEF ComesTo

(* One more amount adds itself.                                            *)
LEMMA TotalWithOneMore ==
    ASSUME NEW amounts, NEW more, NEW n \in Nat, NEW v, ComesTo(amounts, n, v),
           \A i \in 1..n : more[i] = amounts[i]
    PROVE  ComesTo(more, n + 1, v + more[n + 1])
<1>1. ASSUME NEW g, Runs(more, n + 1, g) PROVE g[n + 1] = v + more[n + 1]
  <2> DEFINE before == [i \in 0..n |-> g[i]]
  <2>1. \A i \in 0..n + 1 : g[i] = IF i = 0 THEN 0 ELSE g[i - 1] + more[i]
    BY <1>1 DEF Runs
  <2>2. \A i \in 0..n : before[i] = IF i = 0 THEN 0 ELSE before[i - 1] + amounts[i]
    BY <2>1
  <2>3. Runs(amounts, n, before)
    BY <2>2 DEF Runs
  <2>4. before[n] = v
    BY <2>3 DEF ComesTo
  <2> QED  BY <2>1, <2>4
<1>2. \E g : Runs(more, n + 1, g)
  <2>1. PICK before : Runs(amounts, n, before)
    BY DEF ComesTo
  <2> DEFINE g == [i \in 0..n + 1 |-> IF i = n + 1 THEN before[n] + more[i] ELSE before[i]]
  <2>2. \A i \in 0..n : before[i] = IF i = 0 THEN 0 ELSE before[i - 1] + amounts[i]
    BY <2>1 DEF Runs
  <2>3. \A i \in 0..n + 1 : g[i] = IF i = 0 THEN 0 ELSE g[i - 1] + more[i]
    BY <2>2
  <2>4. Runs(more, n + 1, g)
    BY <2>3 DEF Runs
  <2> QED  BY <2>4
<1> QED  BY <1>1, <1>2 DEF ComesTo

(* What is booked is what the journal comes to.                            *)
Booked(l) ==
    /\ Len(l.journal) \in Nat
    /\ \E cost, fees \in Int :
         /\ ComesTo(Costs(l.journal), Len(l.journal), cost)
         /\ ComesTo(Fees(l.journal), Len(l.journal), fees)
         /\ l.cash = StartCash - cost - fees
    /\ \A t \in Tickers : ComesTo(Lots(l.journal, t), Len(l.journal), l.positions[t])

BooksInv ==
    /\ \A o \in Calls : Booked(ledgers[o])
    /\ \A c \in Calls : At(c, "done") /\ calls[c].kind = "portfolio" =>
         Booked(calls[c].reply.view)

(* Such a ledger is balanced.                                              *)
LEMMA BookedBalances ==
    ASSUME NEW l, Booked(l)
    PROVE  Balanced(l)
<1>1. PICK cost, fees \in Int :
        /\ ComesTo(Costs(l.journal), Len(l.journal), cost)
        /\ ComesTo(Fees(l.journal), Len(l.journal), fees)
        /\ l.cash = StartCash - cost - fees
  BY DEF Booked
<1>2. /\ RunningTotal(Costs(l.journal), Len(l.journal)) = cost
      /\ RunningTotal(Fees(l.journal), Len(l.journal)) = fees
  BY <1>1, TotalIs DEF Booked
<1>3. \A t \in Tickers : RunningTotal(Lots(l.journal, t), Len(l.journal)) = l.positions[t]
  BY TotalIs DEF Booked
<1> QED  BY <1>1, <1>2, <1>3 DEF Balanced

(* A new ledger has booked nothing.                                        *)
LEMMA NewLedgerBooked == Booked(NewLedger)
<1>1. NewLedger.journal = <<>> /\ Len(NewLedger.journal) = 0
      /\ NewLedger.cash = StartCash /\ \A t \in Tickers : NewLedger.positions[t] = 0
  BY DEF NewLedger
<1>2. \A amounts : ComesTo(amounts, 0, 0)
  BY TotalOfNone
<1>3. StartCash = StartCash - 0 - 0
  BY LedgerAssumption
<1> QED  BY <1>1, <1>2, <1>3 DEF Booked

(* A fill is booked and journalled alike.                                  *)
LEMMA BookKeepsBooked ==
    ASSUME NEW l, Sound(l), Booked(l), NEW f \in Fills
    PROVE  Booked(Book(l, f))
<1> DEFINE n == Len(l.journal)
           b == Book(l, f)
<1>1. /\ l.journal \in Seq(Fills) /\ n \in Nat /\ DOMAIN l.journal = 1..n
      /\ l.positions \in [Tickers -> Int] /\ l.cash \in Int
  BY DEF Sound, Ledgers
<1>2. /\ b.cash = l.cash + CashDelta(f) /\ b.journal = Append(l.journal, f)
      /\ b.positions = [l.positions EXCEPT ![f.ticker] = @ + PositionDelta(f)]
  BY DEF Book
<1>3. /\ Len(b.journal) = n + 1 /\ DOMAIN b.journal = 1..(n + 1)
      /\ b.journal[n + 1] = f /\ \A i \in 1..n : b.journal[i] = l.journal[i]
  BY <1>1, <1>2
<1>4. /\ f.price \in 1..(One - 1) /\ f.count \in Nat /\ f.fee \in Nat
      /\ f.ticker \in Tickers /\ f.side \in Sides
  BY DEF Fills
<1>5. PICK value \in Nat : value = Notional(f.price, f.count)
  BY <1>4, FeeAndNotionalTypes
<1> HIDE DEF n, b
<1>6. /\ \A i \in 1..n : Costs(b.journal)[i] = Costs(l.journal)[i]
      /\ Costs(b.journal)[n + 1] = IF f.side = "bid" THEN value ELSE -value
  BY <1>1, <1>3, <1>5 DEF Costs
<1>7. /\ \A i \in 1..n : Fees(b.journal)[i] = Fees(l.journal)[i]
      /\ Fees(b.journal)[n + 1] = f.fee
  <2>1. \A i \in 1..n : i \in 1..(n + 1)
    BY <1>1
  <2>2. n + 1 \in 1..(n + 1)
    BY <1>1
  <2>3. Fees(b.journal)[n + 1] = f.fee
    BY <1>3, <2>2 DEF Fees
  <2>4. \A i \in 1..n : Fees(b.journal)[i] = Fees(l.journal)[i]
    BY <1>1, <1>3, <2>1 DEF Fees
  <2> QED  BY <2>3, <2>4
<1>8. ASSUME NEW t \in Tickers
      PROVE  /\ \A i \in 1..n : Lots(b.journal, t)[i] = Lots(l.journal, t)[i]
             /\ Lots(b.journal, t)[n + 1] =
                  IF f.ticker # t THEN 0 ELSE IF f.side = "bid" THEN f.count ELSE -f.count
  BY <1>1, <1>3 DEF Lots
<1>9. PICK cost, fees \in Int :
        /\ ComesTo(Costs(l.journal), n, cost) /\ ComesTo(Fees(l.journal), n, fees)
        /\ l.cash = StartCash - cost - fees
  BY DEF Booked, n
<1>10. PICK spent \in Int : spent = IF f.side = "bid" THEN value ELSE -value
  OBVIOUS
<1>11. ComesTo(Costs(b.journal), n + 1, cost + spent)
  BY <1>1, <1>6, <1>9, <1>10, TotalWithOneMore
<1>12. ComesTo(Fees(b.journal), n + 1, fees + f.fee)
  BY <1>1, <1>7, <1>9, TotalWithOneMore
<1>13. b.cash = StartCash - (cost + spent) - (fees + f.fee)
  <2>1. CashDelta(f) = -spent - f.fee
    BY <1>4, <1>5, <1>10 DEF CashDelta
  <2>2. StartCash \in Int
    BY LedgerAssumption
  <2> QED  BY <1>2, <1>4, <1>9, <2>1, <2>2
<1>14. ASSUME NEW t \in Tickers
       PROVE  ComesTo(Lots(b.journal, t), n + 1, b.positions[t])
  <2>1. ComesTo(Lots(l.journal, t), n, l.positions[t])
    BY DEF Booked, n
  <2>2. ComesTo(Lots(b.journal, t), n + 1, l.positions[t] + Lots(b.journal, t)[n + 1])
    <3>1. \A i \in 1..n : Lots(b.journal, t)[i] = Lots(l.journal, t)[i]
      BY <1>8
    <3> QED  BY <1>1, <2>1, <3>1, TotalWithOneMore
  <2>3. b.positions[t] = l.positions[t] + Lots(b.journal, t)[n + 1]
    BY <1>1, <1>2, <1>4, <1>8 DEF PositionDelta
  <2> QED  BY <2>2, <2>3
<1>15. cost + spent \in Int /\ fees + f.fee \in Int
  BY <1>4, <1>9, <1>10
<1>16. Booked(b)
  BY <1>1, <1>3, <1>11, <1>12, <1>13, <1>14, <1>15 DEF Booked
<1> QED  BY <1>16 DEF b

(* What a portfolio shows is a ledger as it stands.                        *)
LEMMA ShownIsALedger ==
    ASSUME SoundInv, NEW c \in Calls, Step(c), calls'[c].pc = "done",
           calls'[c].kind = "portfolio"
    PROVE  \E o \in Calls : calls'[c].reply.view = ledgers[o]
<1>1. ~At(c, "idle")
  BY OthersStay
<1>2. CASE Fetch(c) \/ FetchFails(c)
  BY <1>2, FetchEnds
<1>3. CASE OpenLedger(c) \/ Publish(c)
  <2>1. \E label \in {"publish", "reread"} : calls' = [calls EXCEPT ![c].pc = label]
    BY <1>3 DEF OpenLedger, Publish
  <2> QED  BY <1>1, <2>1, Goes
<1>4. CASE Reread(c)
  <2>1. calls[c] \in Places \cup Reads
    BY <1>1, CallShapes DEF At
  <2>2. calls'[c] = [calls[c] EXCEPT !.pc = "execute", !.ledger = paper]
    BY <1>4 DEF Reread, SoundInv
  <2> QED  BY <2>1, <2>2 DEF Places, Reads
<1>5. CASE Execute(c)
  <2>1. calls[c].kind = "place" /\ \E reply : Reply(c, reply)
    BY <1>5 DEF Execute
  <2> QED  BY <1>1, <2>1, Replies
<1>6. CASE Snapshot(c)
  <2>1. calls[c].ledger \in Calls
    BY <1>6, CallShapes DEF Snapshot, At, SoundInv, GoodCall, Reads
  <2>2. Reply(c, [code |-> "ok", view |-> ledgers[calls[c].ledger]])
    BY <1>6 DEF Snapshot
  <2> QED  BY <1>1, <2>1, <2>2, Replies
<1>7. CASE Return(c)
  BY <1>7 DEF Return, SoundInv, Idle
<1> QED  BY <1>2, <1>3, <1>4, <1>5, <1>6, <1>7 DEF Step

(* Every step keeps what is booked.                                        *)
LEMMA BooksStep ==
    ASSUME SoundInv, BooksInv, [Next]_vars
    PROVE  BooksInv'
<1>1. ASSUME NEW o \in Calls PROVE Booked(ledgers'[o])
  <2>1. CASE ledgers' = ledgers
    BY <2>1 DEF BooksInv
  <2>2. ASSUME NEW c \in Calls, ledgers' = [ledgers EXCEPT ![c] = NewLedger]
        PROVE  Booked(ledgers'[o])
    BY <2>2, NewLedgerBooked DEF BooksInv, SoundInv
  <2>3. ASSUME NEW c \in Calls, Execute(c) PROVE Booked(ledgers'[o])
    <3> DEFINE r == calls[c].order
               own == calls[c].ledger
               l == ledgers[own]
    <3>1. Keyed(r) /\ own \in Calls /\ ledgers' = [ledgers EXCEPT ![own] = AfterExecute(l, r)]
      BY <2>3, CallShapes DEF Execute, At, SoundInv, GoodCall, Places
    <3>2. Sound(l) /\ Booked(l)
      BY <3>1 DEF SoundInv, BooksInv
    <3>3. ledgers'[o] = IF o = own THEN AfterExecute(l, r) ELSE ledgers[o]
      BY <3>1 DEF SoundInv
    <3> HIDE DEF r, own, l
    <3>4. Booked(AfterExecute(l, r))
      <4>1. Refusal(l, r) = "none" => FillFor(r) \in Fills
        BY <3>1, FillTypes
      <4> QED  BY <3>2, <4>1, BookKeepsBooked DEF AfterExecute
    <3> QED  BY <3>3, <3>4 DEF BooksInv
  <2> QED
    BY <2>1, <2>2, <2>3
    DEF Next, vars, BeginPlace, BeginPortfolio, Step, Fetch, FetchFails, OpenLedger,
        Publish, Reread, Snapshot, Return
<1>2. ASSUME NEW c \in Calls, calls'[c].pc = "done", calls'[c].kind = "portfolio"
      PROVE  Booked(calls'[c].reply.view)
  <2>1. CASE calls'[c] = calls[c]
    BY <1>2, <2>1 DEF BooksInv, At
  <2>2. CASE Step(c)
    <3>1. PICK o \in Calls : calls'[c].reply.view = ledgers[o]
      BY <1>2, <2>2, ShownIsALedger
    <3> QED  BY <3>1 DEF BooksInv
  <2> QED  BY <1>2, <2>1, <2>2, DoneOwnStep
<1> QED  BY <1>1, <1>2 DEF BooksInv, At

(* The books balance after any number of fills, in every ledger that       *)
(* racing calls build and in every portfolio shown (Execute, Snapshot).    *)
THEOREM BooksAlwaysBalance == Spec => []BooksBalance
<1>1. Init => SoundInv /\ BooksInv
  <2>1. Init => BooksInv
    BY NewLedgerBooked DEF Init, BooksInv, At, Idle
  <2> QED  BY <2>1, SoundInit
<1>2. SoundInv /\ BooksInv /\ [Next]_vars => (SoundInv /\ BooksInv)'
  BY SoundNext, BooksStep
<1>3. SoundInv /\ BooksInv => BooksBalance
  <2> SUFFICES ASSUME SoundInv, BooksInv PROVE BooksBalance
    OBVIOUS
  <2> QED  BY BookedBalances DEF BooksInv, BooksBalance
<1> QED  BY <1>1, <1>2, <1>3, PTL DEF Spec
=============================================================================
