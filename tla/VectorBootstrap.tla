-------------------------- MODULE VectorBootstrap --------------------------
(***************************************************************************)
(* Start-up of the processes that share one Qdrant collection: every API   *)
(* process (lifespan) and every worker (arq's startup hook) runs           *)
(* Resources.bootstrap, which calls ensure_collection and then serves,     *)
(* whether that call returned or raised.                                   *)
(*                                                                         *)
(* One action per request to Qdrant. A request that raises may have been   *)
(* carried out (its answer was lost or came after the client's timeout).   *)
(*                                                                         *)
(* A definition under a comment in parentheses is a plausible bug of the   *)
(* definition after it; no specification uses it.                          *)
(***************************************************************************)
EXTENDS Naturals, Sequences

CONSTANTS
    Processes,  \* API processes and workers
    MaxFaults   \* bound on failed requests and crashes together

ASSUME BootstrapAssumption == MaxFaults \in Nat

\* The fields ensure_collection indexes, in its order: the tenant's, then PAYLOAD_INDEXES.
FIELDS == <<"tenant_id", "document_id", "version_id", "contract_type", "section", "clause",
            "chunk_type", "page">>

Fields == 1..8

VARIABLES
    collection,  \* the collection exists
    indexes,     \* its payload indexes
    process,     \* process -> where it is, the field it indexes next, how its start ended
    faults       \* failed requests and crashes so far

vars == <<collection, indexes, process, faults>>

ProcessState == [pc: {"down", "exists", "create", "index", "serving"}, field: Fields,
                 ensured: {"no", "found", "created", "raised", "crashed"}]

\* A process that is not at work on the indexes.
Fresh(pc, how) == [pc |-> pc, field |-> 1, ensured |-> how]

Init ==
    /\ collection = FALSE
    /\ indexes = {}
    /\ process = [p \in Processes |-> Fresh("down", "no")]
    /\ faults = 0

Fault == faults < MaxFaults /\ faults' = faults + 1

Go(p, pc) == process' = [process EXCEPT ![p].pc = pc]

\* (Without the except clause: what ensure_collection raises ends the process.)
ServeUnlessRaised(p, how) ==
    process' = [process EXCEPT ![p] =
                  IF how = "raised" THEN Fresh("down", how)
                  ELSE [@ EXCEPT !.pc = "serving", !.ensured = how]]

\* ensure_collection returned (found, created) or raised; bootstrap logs that and returns.
Serve(p, how) == process' = [process EXCEPT ![p].pc = "serving", ![p].ensured = how]

-----------------------------------------------------------------------------
Start(p) ==
    /\ process[p].pc = "down"
    /\ process' = [process EXCEPT ![p] = Fresh("exists", "no")]
    /\ UNCHANGED <<collection, indexes, faults>>

CollectionExists(p) ==
    /\ process[p].pc = "exists"
    /\ IF collection THEN Serve(p, "found") ELSE Go(p, "create")
    /\ UNCHANGED <<collection, indexes, faults>>

\* (The index that marks the tenant field is forgotten.)
CreateWithoutTenant(p) ==
    /\ process[p].pc = "create"
    /\ ~collection
    /\ collection' = TRUE
    /\ process' = [process EXCEPT ![p].pc = "index", ![p].field = 2]
    /\ UNCHANGED <<indexes, faults>>

\* Qdrant rejects the request if another process was faster.
CreateCollection(p) ==
    /\ process[p].pc = "create"
    /\ IF collection THEN Serve(p, "raised") ELSE Go(p, "index")
    /\ collection' = TRUE
    /\ UNCHANGED <<indexes, faults>>

\* (One index too many.)
CreateIndexPastLast(p) ==
    /\ process[p].pc = "index"
    /\ indexes' = indexes \union {FIELDS[process[p].field]}
    /\ IF process[p].field > Len(FIELDS)
       THEN Serve(p, "created")
       ELSE process' = [process EXCEPT ![p].field = @ + 1]
    /\ UNCHANGED <<collection, faults>>

CreatePayloadIndex(p) ==
    /\ process[p].pc = "index"
    /\ indexes' = indexes \union {FIELDS[process[p].field]}
    /\ IF process[p].field = Len(FIELDS)
       THEN Serve(p, "created")
       ELSE process' = [process EXCEPT ![p].field = @ + 1]
    /\ UNCHANGED <<collection, faults>>

\* A request raises, carried out or not.
RequestRaises(p) ==
    /\ Fault
    /\ \/ /\ process[p].pc = "exists"
          /\ UNCHANGED <<collection, indexes>>
       \/ /\ process[p].pc = "create"
          /\ collection' \in {collection, TRUE}
          /\ UNCHANGED indexes
       \/ /\ process[p].pc = "index"
          /\ indexes' \in {indexes, indexes \union {FIELDS[process[p].field]}}
          /\ UNCHANGED collection
    /\ Serve(p, "raised")

Crash(p) ==
    /\ process[p].pc # "down"
    /\ Fault
    /\ process' = [process EXCEPT ![p] = Fresh("down", "crashed")]
    /\ UNCHANGED <<collection, indexes>>

-----------------------------------------------------------------------------
\* The steps of a start-up in progress.
Bootstrap(p) == CollectionExists(p) \/ CreateCollection(p) \/ CreatePayloadIndex(p)

Next == \E p \in Processes : Start(p) \/ Bootstrap(p) \/ RequestRaises(p) \/ Crash(p)

\* Every request of a running process is answered or times out.
Spec == Init /\ [][Next]_vars /\ \A p \in Processes : WF_vars(Bootstrap(p))

-----------------------------------------------------------------------------
\* The types of Qdrant's state and of the processes.
TypeOK ==
    /\ collection \in BOOLEAN
    /\ indexes \subseteq {FIELDS[i] : i \in Fields}
    /\ process \in [Processes -> ProcessState]
    /\ faults \in 0..MaxFaults

Complete == collection /\ indexes = {FIELDS[i] : i \in Fields}

Starting(p) == process[p].pc \in {"exists", "create", "index"}

\* Processes that start together race for the creation. The race alone never
\* costs an index: once nobody is starting, a collection that lacks one had a
\* failed request or a crash.
GapHasCause ==
    collection /\ (\A p \in Processes : ~Starting(p)) /\ faults = 0 => Complete

Crashed(p) == process[p].pc = "down" /\ process[p].ensured = "crashed"

\* Whatever Qdrant does, a process that starts serves, one whose creation lost the
\* race or whose request failed too: nothing but its own crash keeps it from that.
StartAlwaysServes ==
    \A p \in Processes : Starting(p) ~> process[p].pc = "serving" \/ Crashed(p)

\* Without faults the first start leads to the complete collection.
FirstStartCompletes ==
    [](faults = 0) => ((\E p \in Processes : Starting(p)) ~> Complete)

\* "Create the chunk collection and payload indexes if missing. Idempotent."
\* (ensure_collection): a call that returned leaves nothing missing.
EnsuredIsComplete ==
    \A p \in Processes : process[p].ensured \in {"found", "created"} => Complete
=============================================================================
