---------------------------- MODULE MCSpecFetch ----------------------------
(***************************************************************************)
(* Model-checking instance of SpecFetch: two contracts, two contents that  *)
(* pass validation and one that does not.  The reachable runs of the       *)
(* script show both verdicts, drift and no drift, a generator that refuses *)
(* and a promotion refused.                                                *)
(***************************************************************************)
EXTENDS SpecFetch, TLC

CONSTANTS v1, v2, broken

(* A tool names an operation of the first contract; v2 no longer has it.   *)
MCSources == {<<1, "operation">>}

MCOffers == v1 :> {"operation"} @@ v2 :> {} @@ broken :> {}
=============================================================================
