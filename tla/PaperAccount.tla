---------------------------- MODULE PaperAccount ----------------------------
(***************************************************************************)
(* What paper trading promises, with no journal, no goroutines and no      *)
(* network: an account on which each order, known by its key, is filled at *)
(* most once, whole, and never again; cash and positions move by fills and *)
(* by nothing else; and a purchase is never made on credit (ledger.go, the *)
(* package comment; README.md, "Paper mode").                              *)
(***************************************************************************)
EXTENDS Integers

CONSTANTS Keys, Tickers, StartCash,
          CashOf(_),      \* what a fill does to the cash
          PositionOf(_)   \* and to the position in its market

VARIABLES filled,     \* the fill of each key, in a set of at most one
          cash,
          positions

accountVars == <<filled, cash, positions>>

OpenAccount ==
    /\ filled = [k \in Keys |-> {}]
    /\ cash = StartCash
    /\ positions = [t \in Tickers |-> 0]

FillOnce(f) ==
    /\ filled[f.key] = {}
    /\ filled' = [filled EXCEPT ![f.key] = {f}]
    /\ f.side = "bid" => cash + CashOf(f) >= 0
    /\ cash' = cash + CashOf(f)
    /\ positions' = [positions EXCEPT ![f.ticker] = @ + PositionOf(f)]

(* The fill is any at all that becomes known under its key.                *)
AccountNext == \E k \in Keys : \E f \in filled'[k] : FillOnce(f)

Account == OpenAccount /\ [][AccountNext]_accountVars
=============================================================================
