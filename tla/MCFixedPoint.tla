---------------------------- MODULE MCFixedPoint ----------------------------
(***************************************************************************)
(* Model-checking instance of OrderAmounts.                                *)
(***************************************************************************)
EXTENDS OrderAmounts

(* Values given to CONSTANTS in the configurations.                        *)
MCPrices == {1, 50, 99, 101, 2500, 3333, 5001, 9949, 9999}
              \cup {100 * p : p \in {1, 2, 7, 33, 50, 54, 67, 90, 98, 99}}

MCDigits == 1..40 \cup {50, 99, 100, 101, 149, 250, 299, 300}
=============================================================================
