----------------------------- MODULE SpecFetch -----------------------------
(***************************************************************************)
(* Fetching the upstream API contracts (cmd/specfetch) and promoting their *)
(* provenance lock (scripts/test-upstream.sh, fetch-specs.sh,              *)
(* check-generated.sh).                                                    *)
(*                                                                         *)
(* The script works in a copy of the repository.  It fetches the contracts *)
(* twice: once to replace them and write the lock, once more, from         *)
(* check-generated.sh, to replace the contracts only.  Between and during  *)
(* the fetches upstream may publish.  Then it tests, and may promote.      *)
(*                                                                         *)
(* A content stands for its SHA-256 digest and for the operations or       *)
(* channels it offers.  The MCP registration file that is promoted with    *)
(* the lock is made from the curated overlay alone (cmd/mcpgen): upstream  *)
(* decides whether it can be made, never what is in it, so only that is    *)
(* modelled.                                                               *)
(***************************************************************************)
EXTENDS Naturals

CONSTANTS N,         \* the contracts are 1..N, in the order of sources
          Contents,  \* what upstream may publish
          Valid,     \* the contents fetchOne accepts
          Offers,    \* the operations or channels of each content
          Sources    \* <<contract, operation or channel>> named by a tool

ASSUME FetchAssumption ==
    /\ N \in Nat \ {0}
    /\ Valid \subseteq Contents
    /\ {"pending", "error", "stale"} \cap Contents = {}

Contracts == 1..N

ASSUME ManifestAssumption ==
    /\ \A s \in Sources : s[1] \in Contracts
    /\ DOMAIN Offers = Contents

VARIABLES upstream,   \* docs.kalshi.com
          repoLock,   \* specs/upstream.lock.json of the checkout
          pc, flags,  \* the script and its arguments
          round,      \* first or second fetch
          results,    \* fetchAll's results and errors by index
          written,    \* contracts replaced so far in this round
          specs,      \* the contracts in the workspace
          lock,       \* the lock in the workspace
          clients,    \* the contracts the generated clients come from
          drift,      \* a digest differed from the checkout's lock
          passed      \* history: the checks this run of the script passed

vars == <<upstream, repoLock, pc, flags, round, results, written, specs, lock,
          clients, drift, passed>>

Pcs == {"idle", "fetch", "write", "lock", "compare", "generate", "test",
        "conformance", "promote", "verdict", "done"}

(* --require-current and --promote are mutually exclusive.                 *)
FlagSets == {F \in SUBSET {"require-current", "promote", "conformance"} :
               ~({"require-current", "promote"} \subseteq F)}

Files == [Contracts -> Contents \cup {"stale"}]

TypeOK ==
    /\ upstream \in [Contracts -> Contents]
    /\ repoLock \in [Contracts -> Contents]
    /\ pc \in Pcs
    /\ flags \in FlagSets
    /\ round \in 1..2
    /\ results \in [Contracts -> Valid \cup {"pending", "error"}]
    /\ written \in 0..N
    /\ specs \in Files /\ clients \in Files
    /\ lock \in [Contracts -> Contents]
    /\ drift \in BOOLEAN
    /\ passed \subseteq {"tests", "conformance"}

Stale == [f \in Contracts |-> "stale"]
Pending == [f \in Contracts |-> "pending"]

Init ==
    /\ upstream \in [Contracts -> Valid]
    /\ repoLock \in [Contracts -> Valid]
    /\ pc = "idle"
    /\ flags = {}
    /\ round = 1
    /\ results = Pending
    /\ written = 0
    /\ specs = Stale /\ lock = repoLock /\ clients = Stale
    /\ drift = FALSE
    /\ passed = {}

Fetching == <<round, results, written>>
Workspace == <<specs, lock, clients>>
Outcome == <<drift, passed>>
Outside == <<upstream, repoLock, flags>>

(* Upstream publishes a contract, at any time.                             *)
Publish(f) ==
    /\ \E content \in Contents : upstream' = [upstream EXCEPT ![f] = content]
    /\ UNCHANGED <<repoLock, pc, flags, Fetching, Workspace, Outcome>>

(* The script copies the checkout, its lock included, and starts the first *)
(* fetch.  What untracked contracts and clients the copy holds is unknown. *)
Start(F) ==
    /\ pc \in {"idle", "done"}
    /\ pc' = "fetch"
    /\ flags' = F
    /\ round' = 1 /\ results' = Pending /\ written' = 0
    /\ specs' = Stale /\ lock' = repoLock /\ clients' = Stale
    /\ drift' = FALSE /\ passed' = {}
    /\ UNCHANGED <<upstream, repoLock>>

(* Mutant: a client without a timeout.                                     *)
FetchOne_NoTimeout(f) ==
    /\ pc = "fetch" /\ results[f] = "pending"
    /\ upstream[f] \in Valid
    /\ results' = [results EXCEPT ![f] = upstream[f]]
    /\ UNCHANGED <<pc, round, written, Workspace, Outcome, Outside>>

(* What the checks of origin, media type and dialect let through.          *)
Validated(content) == {content} \cap Valid

(* fetchOne, a goroutine for each contract: it may fail for the transport, *)
(* the status, the type or the size, and fails if the content is invalid.  *)
FetchOne(f) ==
    /\ pc = "fetch" /\ results[f] = "pending"
    /\ \E result \in {"error"} \cup Validated(upstream[f]) :
         results' = [results EXCEPT ![f] = result]
    /\ UNCHANGED <<pc, round, written, Workspace, Outcome, Outside>>

(* Mutant: one contract that arrived is enough to go on.                   *)
Collect_Some ==
    /\ pc = "fetch"
    /\ \A f \in Contracts : results[f] # "pending"
    /\ pc' = IF \E f \in Contracts : results[f] # "error" THEN "write" ELSE "idle"
    /\ written' = 0
    /\ UNCHANGED <<round, results, Workspace, Outcome, Outside>>

(* Mutant: contracts are written while others are still being fetched.     *)
Collect_Early ==
    /\ pc = "fetch"
    /\ \E f \in Contracts : results[f] # "pending"
    /\ \A f \in Contracts : results[f] # "error"
    /\ pc' = "write"
    /\ written' = 0
    /\ UNCHANGED <<round, results, Workspace, Outcome, Outside>>

(* fetchAll waits for every goroutine; any error ends the program.         *)
Collect ==
    /\ pc = "fetch"
    /\ \A f \in Contracts : results[f] # "pending"
    /\ pc' = IF \A f \in Contracts : results[f] # "error" THEN "write" ELSE "idle"
    /\ written' = 0
    /\ UNCHANGED <<round, results, Workspace, Outcome, Outside>>

(* writeSnapshot replaces the contracts one by one; the second time they   *)
(* are written aside and installed from there, one by one too.             *)
WriteFile ==
    /\ pc = "write" /\ written < N
    /\ written' = written + 1
    /\ specs' = [specs EXCEPT ![written + 1] = results[written + 1]]
    /\ UNCHANGED <<pc, round, results, lock, clients, Outcome, Outside>>

(* validateManifest of mcpgen: the contracts offer whatever a tool of the  *)
(* overlay names.  Its checks of the overlay itself always pass here.      *)
ManifestHolds(contracts) == \A s \in Sources : s[2] \in Offers[contracts[s[1]]]

(* Mutant: the second fetch writes its lock into the workspace too.        *)
WrittenAll_Lock ==
    /\ pc = "write" /\ written = N
    /\ round = 2 => ManifestHolds(specs)
    /\ pc' = IF round = 1 THEN "lock" ELSE "test"
    /\ lock' = specs
    /\ UNCHANGED <<Fetching, specs, clients, Outcome, Outside>>

(* All contracts are replaced.  The second time the lock is left alone and *)
(* check-generated.sh generates from the contracts once more.              *)
WrittenAll ==
    /\ pc = "write" /\ written = N
    /\ round = 2 => ManifestHolds(specs)
    /\ pc' = IF round = 1 THEN "lock" ELSE "test"
    /\ UNCHANGED <<Fetching, Workspace, Outcome, Outside>>

(* The lock, written last, records the digests of what was fetched.        *)
WriteLock ==
    /\ pc = "lock"
    /\ pc' = "compare"
    /\ lock' = results
    /\ UNCHANGED <<Fetching, specs, clients, Outcome, Outside>>

(* Mutant: the digests are compared with the lock just written.            *)
Compare_OwnLock ==
    /\ pc = "compare"
    /\ pc' = "generate"
    /\ drift' = (specs # lock)
    /\ UNCHANGED <<Fetching, Workspace, passed, Outside>>

(* Digests of the fetched contracts against the lock of the checkout.      *)
Compare ==
    /\ pc = "compare"
    /\ pc' = "generate"
    /\ drift' = (specs # repoLock)
    /\ UNCHANGED <<Fetching, Workspace, passed, Outside>>

(* go generate, mcpgen last, then check-generated.sh starts the second     *)
(* fetch.  A generator that refuses ends the script (Abort).               *)
Generate ==
    /\ pc = "generate" /\ ManifestHolds(specs)
    /\ clients' = specs
    /\ pc' = "fetch"
    /\ round' = 2 /\ results' = Pending /\ written' = 0
    /\ UNCHANGED <<specs, lock, Outcome, Outside>>

(* The contract audit of the test suite: every digest is the lock's.       *)
Audit == specs = lock

(* --promote implies --conformance.                                        *)
AfterTests ==
    IF {"promote", "conformance"} \cap flags # {} THEN "conformance" ELSE "verdict"

(* Build and tests pass only if the audit does.                            *)
Test ==
    /\ pc = "test" /\ Audit
    /\ passed' = passed \cup {"tests"}
    /\ pc' = AfterTests
    /\ UNCHANGED <<Fetching, Workspace, drift, Outside>>

(* conformance.sh: every scenario against a server built from here.        *)
Conformance ==
    /\ pc = "conformance"
    /\ passed' = passed \cup {"conformance"}
    /\ pc' = IF "promote" \in flags THEN "promote" ELSE "verdict"
    /\ UNCHANGED <<Fetching, Workspace, drift, Outside>>

(* --promote installs the workspace's lock in the checkout.  The generated *)
(* file, installed by the next command, holds nothing of the contracts.    *)
Promote ==
    /\ pc = "promote"
    /\ repoLock' = lock
    /\ pc' = "done"
    /\ UNCHANGED <<upstream, flags, Fetching, Workspace, Outcome>>

(* Without --promote: under --require-current drift is a failure.          *)
Verdict ==
    /\ pc = "verdict"
    /\ pc' = IF "require-current" \in flags /\ drift THEN "idle" ELSE "done"
    /\ UNCHANGED <<Fetching, Workspace, Outcome, Outside>>

(* Any command fails or the script is killed; the workspace is removed.    *)
Abort ==
    /\ pc \notin {"idle", "done"}
    /\ pc' = "idle"
    /\ UNCHANGED <<Fetching, Workspace, Outcome, Outside>>

-----------------------------------------------------------------------------
Next ==
    \/ \E f \in Contracts : Publish(f) \/ FetchOne(f)
    \/ \E F \in FlagSets : Start(F)
    \/ Collect \/ WriteFile \/ WrittenAll \/ WriteLock \/ Compare \/ Generate
    \/ Test \/ Conformance \/ Promote \/ Verdict \/ Abort

(* Each request is bounded by the client's and the context's timeout, and  *)
(* fetchAll goes on when all have ended.                                   *)
Fairness == (\A f \in Contracts : WF_vars(FetchOne(f))) /\ WF_vars(Collect)

Spec == Init /\ [][Next]_vars /\ Fairness

-----------------------------------------------------------------------------
(* Properties.                                                             *)

(* The checkout's lock only ever becomes that of valid contracts which     *)
(* passed the tests and the conformance run, with clients generated from   *)
(* the same contracts, which offer all that the tools name, although       *)
(* upstream may have published between the two fetches (README: "promote   *)
(* only the exact artifacts that passed").                                 *)
PromotesWhatPassed ==
    [][repoLock' # repoLock =>
         /\ passed = {"tests", "conformance"}
         /\ repoLock' = specs /\ repoLock' = clients
         /\ repoLock' \in [Contracts -> Valid]
         /\ ManifestHolds(repoLock')]_vars

(* A script that ends well without drift, or under --require-current, or   *)
(* by promoting, leaves a lock of the very contracts it tested.            *)
SuccessMeansParity ==
    pc = "done" /\ (~drift \/ {"require-current", "promote"} \cap flags # {}) =>
        "tests" \in passed /\ repoLock = specs /\ repoLock = clients

(* No contract is replaced unless all were fetched and found valid         *)
(* (specfetch: "writes no output until every source has passed             *)
(* validation").  A stop after that can leave some replaced.               *)
ReplacesOnlyAfterAllValid ==
    [][specs' # specs /\ specs' # Stale => results \in [Contracts -> Valid]]_vars

(* Every fetch ends, whatever upstream serves (newHTTPClient's timeout).   *)
FetchEnds == pc = "fetch" ~> pc # "fetch"
=============================================================================
