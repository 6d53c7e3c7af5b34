--------------------------- MODULE MCPaperTrading ---------------------------
(***************************************************************************)
(* Model-checking instance of PaperTrading.                                *)
(***************************************************************************)
EXTENDS PaperTrading, TLC

(* Values given to CONSTANTS in the configurations.                        *)
MCKeys == Tickers \X (Ids \cup Policies)
MCLevels == {[price |-> 5000, size |-> 100]}
Symmetry == Permutations(Calls) \cup Permutations(Policies)
=============================================================================
