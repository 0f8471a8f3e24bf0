---------------------------- MODULE MCIngestion ----------------------------
(* Instances of Ingestion for TLC. *)
EXTENDS IngestionProperties, TLC

CONSTANTS j1, j2, v1, v2, d1, s1, s2

\* One job on its own.
OneJobVersions == j1 :> v1
OneVersionDocuments == v1 :> d1

\* Two versions of one document, each with its job.
TwoJobVersions == j1 :> v1 @@ j2 :> v2
TwoVersionDocuments == v1 :> d1 @@ v2 :> d1

\* Two jobs for one version.
SharedVersions == j1 :> v1 @@ j2 :> v1

\* A job with a version and one without.
OneOrphanVersions == j1 :> v1 @@ j2 :> NoVersion

\* Fault budgets.
AtMost(n, kinds) == [k \in FaultKinds |-> IF k \in kinds THEN n ELSE 0]
AllButStall ==
    [k \in FaultKinds |-> IF k = "stall" THEN 0 ELSE IF k \in {"database", "crash"} THEN 2 ELSE 1]
StallAndCrash == AtMost(1, {"stall", "crash"})
HandlerDatabaseCrash == AtMost(1, {"handler", "database", "crash"})
HandlerCrash == AtMost(1, {"handler", "crash"})
OneTimeout == AtMost(1, {"timeout"})
OneCrash == AtMost(1, {"crash"})
NoFault == AtMost(0, {})

\* Timeouts: wherever a run can be cancelled, or while a handler runs.
Anywhere == Live \union {"returned"}
InHandlers == {"exec"}

Symmetry == Permutations({s1, s2})
=============================================================================
