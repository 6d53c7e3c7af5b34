------------------------- MODULE SpecFetch_proofs -------------------------
(***************************************************************************)
(* Theorems about SpecFetch, for any number of contracts and any contents. *)
(*                                                                         *)
(* The invariant follows the script.  After the first fetch contracts and  *)
(* lock agree; generating ties the clients to the lock; the second fetch   *)
(* unties the contracts, and the audit ties them again.                    *)
(***************************************************************************)
EXTENDS SpecFetch, TLAPS

(* Where the counters start.                                               *)
LEMMA Bounds == 0 \in 0..N /\ 1 \in 1..2
<1>1. 0 \in 0..N
  BY FetchAssumption
<1>2. 1 \in 1..2
  OBVIOUS
<1> QED  BY <1>1, <1>2

(* A fetch that is being written has every result, and the contracts up to *)
(* the last one written are those results.                                 *)
WriteInv ==
    pc = "write" => /\ results \in [Contracts -> Valid]
                    /\ \A f \in 1..written : specs[f] = results[f]

(* Between the two fetches contracts, lock and results become one.         *)
FirstInv ==
    /\ pc = "lock" => results \in [Contracts -> Valid] /\ specs = results
    /\ pc \in {"compare", "generate"} => lock \in [Contracts -> Valid] /\ specs = lock
    /\ pc = "generate" => (drift <=> lock # repoLock)

(* From the second fetch on clients and lock agree, whatever it brings.    *)
Generated ==
    \/ pc \in {"fetch", "write"} /\ round = 2
    \/ pc \in {"test", "conformance", "promote", "verdict"}

SecondInv ==
    Generated => /\ lock \in [Contracts -> Valid] /\ ManifestHolds(lock)
                 /\ clients = lock
                 /\ (drift <=> lock # repoLock)

(* Past the audit all three agree; each later stage adds what led to it.   *)
AuditedInv ==
    /\ pc \in {"conformance", "promote", "verdict", "done"} =>
         "tests" \in passed /\ specs = lock /\ clients = lock
    /\ pc = "promote" => "conformance" \in passed /\ "promote" \in flags
    /\ pc = "verdict" => "promote" \notin flags
    /\ pc = "done" =>
         \/ "promote" \in flags /\ repoLock = lock
         \/ /\ "promote" \notin flags
            /\ (drift <=> lock # repoLock)
            /\ "require-current" \in flags => ~drift

FetchInv == TypeOK /\ WriteInv /\ FirstInv /\ SecondInv /\ AuditedInv

(* The script has not been run.                                            *)
LEMMA FetchInvInit == Init => FetchInv
<1> SUFFICES ASSUME Init PROVE FetchInv
  OBVIOUS
<1>1. Pending \in [Contracts -> Valid \cup {"pending", "error"}] /\ Stale \in Files
  BY DEF Pending, Stale, Files
<1>2. repoLock \in [Contracts -> Contents] /\ upstream \in [Contracts -> Contents]
  BY FetchAssumption DEF Init
<1>3. flags \in FlagSets /\ specs \in Files /\ clients \in Files
  BY <1>1 DEF Init, FlagSets
<1>4. written \in 0..N /\ round \in 1..2 /\ drift \in BOOLEAN /\ pc \in Pcs
  BY Bounds DEF Init, Pcs
<1>5. TypeOK
  BY <1>1, <1>2, <1>3, <1>4 DEF Init, TypeOK
<1> QED
  BY <1>5 DEF Init, FetchInv, WriteInv, FirstInv, SecondInv, Generated, AuditedInv

(* Collecting, writing and locking.                                        *)
LEMMA FetchSteps ==
    ASSUME FetchInv,
           \/ \E f \in Contracts : FetchOne(f)
           \/ Collect \/ WriteFile \/ WrittenAll \/ WriteLock
    PROVE  FetchInv'
<1> USE FetchAssumption DEF FetchInv, Contracts
<1>1. ASSUME NEW f \in Contracts, FetchOne(f) PROVE FetchInv'
  BY <1>1 DEF FetchOne, Validated, TypeOK, WriteInv, FirstInv, SecondInv, Generated, AuditedInv,
              Workspace, Outcome, Outside
<1>2. CASE Collect
  <2>1. TypeOK'
    BY <1>2 DEF Collect, TypeOK, Pcs, Workspace, Outcome, Outside
  <2>2. WriteInv'
    BY <1>2 DEF Collect, TypeOK, WriteInv, Workspace, Outcome, Outside
  <2>3. FirstInv' /\ SecondInv' /\ AuditedInv'
    BY <1>2 DEF Collect, FirstInv, SecondInv, Generated, AuditedInv,
                Workspace, Outcome, Outside
  <2> QED  BY <2>1, <2>2, <2>3
<1>3. CASE WriteFile
  <2>1. results \in [Contracts -> Valid] /\ written + 1 \in Contracts
    BY <1>3 DEF WriteFile, WriteInv, TypeOK
  <2>2. TypeOK'
    BY <1>3, <2>1 DEF WriteFile, TypeOK, Files, Pcs, Outcome, Outside
  <2>3. WriteInv'
    BY <1>3, <2>1 DEF WriteFile, WriteInv, TypeOK, Files
  <2>4. FirstInv' /\ SecondInv' /\ AuditedInv'
    BY <1>3 DEF WriteFile, FirstInv, SecondInv, Generated, AuditedInv, Outcome, Outside
  <2> QED  BY <2>2, <2>3, <2>4
<1>4. CASE WrittenAll
  <2>1. results \in [Contracts -> Valid] /\ specs = results
    BY <1>4 DEF WrittenAll, WriteInv, TypeOK, Files
  <2>2. TypeOK' /\ WriteInv'
    BY <1>4 DEF WrittenAll, TypeOK, Pcs, WriteInv, Fetching, Workspace, Outcome, Outside
  <2>3. FirstInv' /\ SecondInv' /\ AuditedInv'
    BY <1>4, <2>1 DEF WrittenAll, TypeOK, FirstInv, SecondInv, Generated, AuditedInv,
                      Fetching, Workspace, Outcome, Outside
  <2> QED  BY <2>2, <2>3
<1>5. CASE WriteLock
  <2>1. results \in [Contracts -> Contents]
    BY <1>5 DEF WriteLock, FirstInv
  <2> QED
    BY <1>5, <2>1 DEF WriteLock, TypeOK, Pcs, WriteInv, FirstInv, SecondInv, Generated,
                      AuditedInv, Fetching, Outcome, Outside
<1> QED  BY <1>1, <1>2, <1>3, <1>4, <1>5

(* From the comparison to the end of the script.                           *)
LEMMA CheckSteps ==
    ASSUME FetchInv,
           \/ Compare \/ Generate \/ Test \/ Conformance \/ Promote \/ Verdict
    PROVE  FetchInv'
<1> USE DEF FetchInv, WriteInv, FirstInv, SecondInv, Generated, AuditedInv,
            Fetching, Workspace, Outcome, Outside
<1>1. CASE Compare
  BY <1>1 DEF Compare, TypeOK, Pcs
<1>2. CASE Generate
  <2>1. lock \in [Contracts -> Valid] /\ specs = lock
    BY <1>2 DEF Generate
  <2>2. Pending \in [Contracts -> Valid \cup {"pending", "error"}]
    BY DEF Pending
  <2>3. TypeOK'
    BY <1>2, <2>2, FetchAssumption DEF Generate, TypeOK, Pcs
  <2> QED  BY <1>2, <2>1, <2>3 DEF Generate
<1>3. CASE Test
  BY <1>3 DEF Test, Audit, AfterTests, TypeOK, Pcs
<1>4. CASE Conformance
  BY <1>4 DEF Conformance, TypeOK, Pcs
<1>5. CASE Promote
  BY <1>5 DEF Promote, TypeOK, Pcs
<1>6. CASE Verdict
  BY <1>6 DEF Verdict, TypeOK, Pcs
<1> QED  BY <1>1, <1>2, <1>3, <1>4, <1>5, <1>6

(* Every step keeps the invariant.                                         *)
LEMMA FetchInvNext == FetchInv /\ [Next]_vars => FetchInv'
<1> SUFFICES ASSUME FetchInv, [Next]_vars PROVE FetchInv'
  OBVIOUS
<1> USE DEF FetchInv, WriteInv, FirstInv, SecondInv, Generated, AuditedInv,
            Fetching, Workspace, Outcome, Outside
<1>1. CASE UNCHANGED vars
  BY <1>1 DEF vars, TypeOK
<1>2. ASSUME NEW f \in Contracts, Publish(f) PROVE FetchInv'
  BY <1>2 DEF Publish, TypeOK
<1>3. ASSUME NEW F \in FlagSets, Start(F) PROVE FetchInv'
  <2>1. Pending \in [Contracts -> Valid \cup {"pending", "error"}] /\ Stale \in Files
    BY DEF Pending, Stale, Files
  <2>2. specs' \in Files /\ clients' \in Files /\ lock' \in [Contracts -> Contents]
    BY <1>3, <2>1 DEF Start, TypeOK
  <2>3. written' \in 0..N /\ round' \in 1..2 /\ drift' \in BOOLEAN /\ pc' \in Pcs
    BY <1>3, Bounds DEF Start, Pcs
  <2>4. TypeOK'
    BY <1>3, <2>1, <2>2, <2>3 DEF Start, TypeOK, Files
  <2> QED  BY <1>3, <2>4 DEF Start
<1>4. CASE Abort
  BY <1>4 DEF Abort, TypeOK, Pcs
<1>5. CASE \/ \E f \in Contracts : FetchOne(f)
           \/ Collect \/ WriteFile \/ WrittenAll \/ WriteLock
  BY <1>5, FetchSteps
<1>6. CASE Compare \/ Generate \/ Test \/ Conformance \/ Promote \/ Verdict
  BY <1>6, CheckSteps
<1> QED  BY <1>1, <1>2, <1>3, <1>4, <1>5, <1>6 DEF Next

(* The script that ends well leaves a lock of the contracts it tested,     *)
(* whatever upstream published meanwhile (test-upstream.sh).               *)
THEOREM ParityProved == Spec => [](TypeOK /\ SuccessMeansParity)
<1>1. FetchInv => TypeOK /\ SuccessMeansParity
  BY DEF FetchInv, AuditedInv, SuccessMeansParity
<1> QED  BY <1>1, FetchInvInit, FetchInvNext, PTL DEF Spec

(* Files, lock and results are well typed throughout (fetchAll).           *)
THEOREM FetchTypes == Spec => []TypeOK
  BY ParityProved, PTL

(* Only what passed the tests and the conformance run is promoted, with    *)
(* clients of the same contracts (README, make upstream-promote).          *)
THEOREM PromotionSound == Spec => PromotesWhatPassed
<1>1. FetchInv /\ [Next]_vars =>
        [repoLock' # repoLock =>
           /\ passed = {"tests", "conformance"}
           /\ repoLock' = specs /\ repoLock' = clients
           /\ repoLock' \in [Contracts -> Valid]
           /\ ManifestHolds(repoLock')]_vars
  <2> SUFFICES ASSUME FetchInv, Next, repoLock' # repoLock
               PROVE  /\ passed = {"tests", "conformance"}
                      /\ repoLock' = specs /\ repoLock' = clients
                      /\ repoLock' \in [Contracts -> Valid]
                      /\ ManifestHolds(repoLock')
    OBVIOUS
  <2>1. Promote
    BY DEF Next, Publish, Start, FetchOne, Collect, WriteFile, WrittenAll, WriteLock,
           Compare, Generate, Test, Conformance, Verdict, Abort, Outside
  <2>2. passed = {"tests", "conformance"}
    BY <2>1 DEF Promote, FetchInv, TypeOK, AuditedInv
  <2> QED
    BY <2>1, <2>2 DEF Promote, FetchInv, AuditedInv, SecondInv, Generated
<1> QED  BY <1>1, FetchInvInit, FetchInvNext, PTL DEF Spec, PromotesWhatPassed

(* A contract is replaced only when all were fetched and found valid       *)
(* (fetchAll, writeSnapshot).                                              *)
THEOREM ReplacementSound == Spec => ReplacesOnlyAfterAllValid
<1>1. FetchInv /\ [Next]_vars =>
        [specs' # specs /\ specs' # Stale => results \in [Contracts -> Valid]]_vars
  <2> SUFFICES ASSUME FetchInv, Next, specs' # specs, specs' # Stale
               PROVE  results \in [Contracts -> Valid]
    OBVIOUS
  <2>1. WriteFile
    BY DEF Next, Publish, Start, FetchOne, Collect, WrittenAll, WriteLock,
           Compare, Generate, Test, Conformance, Promote, Verdict, Abort, Workspace
  <2> QED  BY <2>1 DEF WriteFile, FetchInv, WriteInv
<1> QED  BY <1>1, FetchInvInit, FetchInvNext, PTL DEF Spec, ReplacesOnlyAfterAllValid
=============================================================================
