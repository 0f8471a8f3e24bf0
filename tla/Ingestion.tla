----------------------------- MODULE Ingestion -----------------------------
(***************************************************************************)
(* Document ingestion: arq delivers job ids to worker slots, and each      *)
(* delivery runs process_document, which moves three PostgreSQL rows (the  *)
(* ProcessingJob, its DocumentVersion, the Document) through the pipeline, *)
(* one commit per transition.                                              *)
(*                                                                         *)
(* One action per await: a commit, a handler, or a reaction of the queue.  *)
(* Timestamps, log lines and the artifacts of a stage are left out, except *)
(* that finished records whether finished_at was ever set. The three reads *)
(* of a run are one step: unless two runs share a version, only the        *)
(* document row, which is read last, can change between them.              *)
(*                                                                         *)
(* A definition under a comment in parentheses is a plausible bug of the   *)
(* definition after it; no specification uses it.                          *)
(***************************************************************************)
EXTENDS Naturals, Sequences

CONSTANTS
    Jobs, Versions, Documents,  \* primary keys of the three tables
    Slots,                      \* concurrent task slots of all worker replicas
    VersionOf,                  \* job -> its document_version_id, or NoVersion
    DocumentOf,                 \* version -> its document_id
    MaxTries,                   \* WorkerSettings.max_tries
    MaxFaults,                  \* bound on the faults of each kind
    TimeoutsAt,                 \* bound: where job_timeout may find a run
    NoJob, NoVersion,           \* NULLs
    Unloaded                    \* an attribute the session has expired

\* What the environment may do to a run, each as often as MaxFaults allows.
FaultKinds == {"handler", "database", "timeout", "shutdown", "crash", "stall", "flush"}

ASSUME ConstantsAssumption ==
    /\ VersionOf \in [Jobs -> Versions \union {NoVersion}]
    /\ DocumentOf \in [Versions -> Documents]
    /\ MaxTries \in Nat
    /\ MaxFaults \in [FaultKinds -> Nat]
    /\ NoJob \notin Jobs
    /\ NoVersion \notin Versions

-----------------------------------------------------------------------------
(* Rows, stages and sessions *)

StageNames == {"parse", "ocr", "chunk", "embed", "index"}

PIPELINE == <<
    [name |-> "parse", status |-> "PROCESSING",     progress |-> 25],
    [name |-> "ocr",   status |-> "OCR_PROCESSING", progress |-> 45],
    [name |-> "chunk", status |-> "CHUNKING",       progress |-> 65],
    [name |-> "embed", status |-> "EMBEDDING",      progress |-> 85],
    [name |-> "index", status |-> "INDEXING",       progress |-> 100] >>

Stages == 1..5

InFlight == {"PROCESSING", "OCR_PROCESSING", "CHUNKING", "EMBEDDING", "INDEXING"}

DocumentStatus == {"UPLOADED", "QUEUED"} \union InFlight \union {"COMPLETED", "FAILED"}

JobStatus == {"PENDING", "RUNNING", "SUCCEEDED", "FAILED", "CANCELLED"}

Settled == {"SUCCEEDED", "FAILED"}

JobRow == [status: JobStatus, current_stage: StageNames \union {"none"},
           progress: 0..100, attempts: Nat,
           error: StageNames \union {"none"},   \* the stage error_message names
           timings: SUBSET StageNames,          \* the keys of stage_timings_ms
           finished: BOOLEAN]

VersionRow == [status: DocumentStatus, error: BOOLEAN]

DocumentRow == [status: DocumentStatus, current: Versions \union {NoVersion}]

\* Unloaded is no value of an attribute.
ASSUME UnloadedAssumption ==
    /\ Unloaded \notin JobStatus \union DocumentStatus \union StageNames \union {"none"}
    /\ \A T \in SUBSET StageNames : Unloaded # T
    /\ Unloaded \notin Versions \union {NoVersion}
    /\ Unloaded \notin Nat
    /\ Unloaded \notin BOOLEAN

\* No object loaded yet, or every object expired by a rollback.
Expired == [job |-> [status |-> Unloaded, current_stage |-> Unloaded, progress |-> Unloaded,
                     attempts |-> Unloaded, error |-> Unloaded, timings |-> Unloaded,
                     finished |-> Unloaded],
            version |-> [status |-> Unloaded, error |-> Unloaded],
            document |-> [status |-> Unloaded, current |-> Unloaded]]

\* Where a slot is: suspended at an await of process_document (Live), or back
\* in arq with its result or exception.
Live == {"load", "start", "enter", "exec", "leave", "fail", "complete", "promote"}
Pcs == Live \union {"idle", "returned", "raised"}

\* A slot before or after the session block of process_document.
Outside(pc, task) == [pc |-> pc, task |-> task, stage |-> 1, timings |-> {}, cache |-> Expired]

Idle == Outside("idle", NoJob)

VARIABLES
    job, version, document,  \* the committed rows
    submitted,               \* jobs whose id has been put on the queue
    queue,                   \* ids arq still has to run to an end
    leased,                  \* ids under arq's in-progress key
    tries,                   \* arq's delivery counter of an id
    run,                     \* what each slot is doing
    faults,                  \* faults of each kind so far
    indexed                  \* history: versions one attempt took through every handler

rows == <<job, version, document>>
arq == <<submitted, queue, leased, tries>>
vars == <<job, version, document, submitted, queue, leased, tries, run, faults, indexed>>

Init ==
    /\ job = [j \in Jobs |-> [status |-> "PENDING", current_stage |-> "none", progress |-> 0,
                              attempts |-> 0, error |-> "none", timings |-> {},
                              finished |-> FALSE]]
    /\ version = [v \in Versions |-> [status |-> "UPLOADED", error |-> FALSE]]
    /\ document = [d \in Documents |-> [status |-> "UPLOADED", current |-> NoVersion]]
    /\ submitted = {}
    /\ queue = {}
    /\ leased = {}
    /\ tries = [j \in Jobs |-> 0]
    /\ run = [s \in Slots |-> Idle]
    /\ faults = [k \in FaultKinds |-> 0]
    /\ indexed = {}

Fault(k) ==
    /\ faults[k] < MaxFaults[k]
    /\ faults' = [faults EXCEPT ![k] = @ + 1]

\* The slot s continues as r.
Become(s, r) == run' = [run EXCEPT ![s] = r]

VersionAt(s) == VersionOf[run[s].task]

DocumentAt(s) == DocumentOf[VersionAt(s)]

-----------------------------------------------------------------------------
(* The session: assignments change the cached objects, a commit flushes the *)
(* attributes that differ from what the session loaded or last wrote.       *)

\* (A session that wrote every attribute back, whether it knows its value or not.)
FlushEverything(row, old, new) == new

Flush(row, old, new) == [f \in DOMAIN row |-> IF new[f] = old[f] THEN row[f] ELSE new[f]]

\* The commit of the objects new by the session of slot s.
Commit(s, new) ==
    LET j == run[s].task
        v == VersionAt(s)
        d == DocumentAt(s)
        old == run[s].cache
    IN  /\ job' = [job EXCEPT ![j] = Flush(@, old.job, new.job)]
        /\ version' = [version EXCEPT ![v] = Flush(@, old.version, new.version)]
        /\ document' = [document EXCEPT ![d] = Flush(@, old.document, new.document)]

\* (A FAILED status that is not passed on to the document.)
SetStatusButFailed(c, status, jobFields) ==
    [job |-> jobFields,
     version |-> [c.version EXCEPT !.status = status],
     document |-> IF status = "FAILED" THEN c.document
                  ELSE [c.document EXCEPT !.status = status]]

\* _set_status on the cached objects c: both statuses, and the job fields jobFields.
SetStatus(c, status, jobFields) ==
    [job |-> jobFields,
     version |-> [c.version EXCEPT !.status = status],
     document |-> [c.document EXCEPT !.status = status]]

\* (A retry that keeps the error_message of the attempt before.)
StartedKeepingError(c) ==
    SetStatus(c, "PROCESSING", [c.job EXCEPT !.status = "RUNNING", !.attempts = @ + 1])

\* (A retry that keeps the statuses it found.)
StartedKeepingStatus(c) ==
    SetStatus(c, c.version.status, [c.job EXCEPT !.status = "RUNNING", !.attempts = @ + 1,
                                                 !.error = "none"])

Started(c) ==
    SetStatus(c, "PROCESSING", [c.job EXCEPT !.status = "RUNNING", !.attempts = @ + 1,
                                             !.error = "none"])

\* (A stage whose name is only recorded with its progress.)
EnteredUnnamed(c, stage) == SetStatus(c, stage.status, c.job)

Entered(c, stage) ==
    SetStatus(c, stage.status, [c.job EXCEPT !.current_stage = stage.name])

\* (A stage that records its own timing only.)
LeftAlone(c, stage, timings) ==
    SetStatus(c, stage.status, [c.job EXCEPT !.progress = stage.progress, !.timings = {stage.name}])

Left(c, stage, timings) ==
    SetStatus(c, stage.status, [c.job EXCEPT !.progress = stage.progress, !.timings = timings])

Failed(c, stage, timings) ==
    SetStatus([c EXCEPT !.version.error = TRUE], "FAILED",
              [c.job EXCEPT !.status = "FAILED", !.error = stage.name,
                            !.finished = TRUE, !.timings = timings])

Completed(c) ==
    SetStatus(c, "COMPLETED", [c.job EXCEPT !.status = "SUCCEEDED", !.current_stage = "none",
                                            !.progress = 100, !.finished = TRUE])

Promoted(c, v) == [c EXCEPT !.document.current = v]

\* (No rollback before the FAILED record is written.)
NotRolledBack(c) == c

\* The session after the rollback of an open transaction.
RolledBack(c) == Expired

\* (The success commits inside the try block.)
AllOfIt == {"enter", "leave", "complete", "promote"}

\* The commits inside the try block.
TryBlock == {"enter", "leave"}

\* What the commit that slot s is suspended at writes.
Written(s) ==
    LET c == run[s].cache
        stage == PIPELINE[run[s].stage]
    IN  CASE run[s].pc = "start"    -> Started(c)
          [] run[s].pc = "enter"    -> Entered(c, stage)
          [] run[s].pc = "leave"    -> Left(c, stage, run[s].timings)
          [] run[s].pc = "fail"     -> Failed(c, stage, run[s].timings)
          [] run[s].pc = "complete" -> Completed(c)
          [] run[s].pc = "promote"  -> Promoted(c, VersionAt(s))

\* process_document has left the session block; arq has its outcome.
EndRun(s, outcome) == Outside(outcome, run[s].task)

-----------------------------------------------------------------------------
(* process_document *)

\* The three session.get calls. A job without a version returns "missing".
Load(s) ==
    /\ run[s].pc = "load"
    /\ IF VersionAt(s) = NoVersion
       THEN Become(s, EndRun(s, "returned"))
       ELSE Become(s, [run[s] EXCEPT !.pc = "start",
                                     !.cache = [job |-> job[run[s].task],
                                                version |-> version[VersionAt(s)],
                                                document |-> document[DocumentAt(s)]]])
    /\ UNCHANGED <<rows, arq, faults, indexed>>

\* A commit that succeeds; the run goes on at pc, in the given stage.
CommitAndGo(s, pc, stage) ==
    /\ Commit(s, Written(s))
    /\ Become(s, [run[s] EXCEPT !.cache = Written(s), !.pc = pc, !.stage = stage])
    /\ UNCHANGED <<arq, faults, indexed>>

StartAttempt(s) ==
    /\ run[s].pc = "start"
    /\ CommitAndGo(s, "enter", 1)

EnterStage(s) ==
    /\ run[s].pc = "enter"
    /\ CommitAndGo(s, "exec", run[s].stage)

HandlerReturns(s) ==
    /\ run[s].pc = "exec"
    /\ LET timings == run[s].timings \union {PIPELINE[run[s].stage].name}
       IN  /\ Become(s, [run[s] EXCEPT !.pc = "leave", !.timings = timings])
           /\ indexed' = IF timings = StageNames THEN indexed \union {VersionAt(s)} ELSE indexed
    /\ UNCHANGED <<rows, arq, faults>>

\* (A handler whose exception the except clause does not cover.)
HandlerRaisesUncaught(s) ==
    /\ run[s].pc = "exec"
    /\ Fault("handler")
    /\ Become(s, EndRun(s, "raised"))
    /\ UNCHANGED <<rows, arq, indexed>>

\* No transaction is open while a handler runs, so the rollback expires nothing.
HandlerRaises(s) ==
    /\ run[s].pc = "exec"
    /\ Fault("handler")
    /\ Become(s, [run[s] EXCEPT !.pc = "fail"])
    /\ UNCHANGED <<rows, arq, indexed>>

\* (The last stage is skipped.)
LeaveStageEarly(s) ==
    /\ run[s].pc = "leave"
    /\ IF run[s].stage = Len(PIPELINE) - 1
       THEN CommitAndGo(s, "complete", run[s].stage)
       ELSE CommitAndGo(s, "enter", run[s].stage + 1)

LeaveStage(s) ==
    /\ run[s].pc = "leave"
    /\ IF run[s].stage = Len(PIPELINE)
       THEN CommitAndGo(s, "complete", run[s].stage)
       ELSE CommitAndGo(s, "enter", run[s].stage + 1)

RecordFailure(s) ==
    /\ run[s].pc = "fail"
    /\ Commit(s, Written(s))
    /\ Become(s, EndRun(s, "raised"))
    /\ UNCHANGED <<arq, faults, indexed>>

RecordSuccess(s) ==
    /\ run[s].pc = "complete"
    /\ CommitAndGo(s, "promote", run[s].stage)

\* (The second commit is forgotten.)
PromoteUncommitted(s) ==
    /\ run[s].pc = "promote"
    /\ Become(s, EndRun(s, "returned"))
    /\ UNCHANGED <<rows, arq, faults, indexed>>

PromoteVersion(s) ==
    /\ run[s].pc = "promote"
    /\ Commit(s, Written(s))
    /\ Become(s, EndRun(s, "returned"))
    /\ UNCHANGED <<arq, faults, indexed>>

\* A read or a commit raises: the transaction is rolled back, or was committed
\* and only its acknowledgement lost. Inside the try block the exception is
\* handled, with a rollback that expires the cached objects; elsewhere it
\* leaves process_document.
DatabaseRaises(s) ==
    /\ run[s].pc \in Live \ {"exec"}
    /\ Fault("database")
    /\ \/ UNCHANGED rows
       \/ run[s].pc # "load" /\ Commit(s, Written(s))
    /\ IF run[s].pc \in TryBlock
       THEN Become(s, [run[s] EXCEPT !.pc = "fail", !.cache = RolledBack(@)])
       ELSE Become(s, EndRun(s, "raised"))
    /\ UNCHANGED <<arq, indexed>>

-----------------------------------------------------------------------------
(* arq, as WorkerSettings configures it *)

\* The producer's enqueue_job; each job row is enqueued once.
Enqueue(j) ==
    /\ j \notin submitted
    /\ submitted' = submitted \union {j}
    /\ queue' = queue \union {j}
    /\ UNCHANGED <<rows, leased, tries, run, faults, indexed>>

\* (max_tries counts the retries, not the deliveries.)
DeliverOnceMore(s, j) ==
    /\ run[s].pc = "idle"
    /\ j \in queue \ leased
    /\ tries[j] <= MaxTries
    /\ leased' = leased \union {j}
    /\ tries' = [tries EXCEPT ![j] = @ + 1]
    /\ Become(s, Outside("load", j))
    /\ UNCHANGED <<rows, submitted, queue, faults, indexed>>

Deliver(s, j) ==
    /\ run[s].pc = "idle"
    /\ j \in queue \ leased
    /\ tries[j] < MaxTries
    /\ leased' = leased \union {j}
    /\ tries' = [tries EXCEPT ![j] = @ + 1]
    /\ Become(s, Outside("load", j))
    /\ UNCHANGED <<rows, submitted, queue, faults, indexed>>

\* arq forgets a job: result stored, queue entry and keys deleted.
Finish(j) ==
    /\ queue' = queue \ {j}
    /\ leased' = leased \ {j}
    /\ tries' = [tries EXCEPT ![j] = 0]
    /\ UNCHANGED submitted

\* The next delivery would exceed max_tries: the job ends without running.
GiveUp(j) ==
    /\ j \in queue \ leased
    /\ tries[j] >= MaxTries
    /\ Finish(j)
    /\ UNCHANGED <<rows, run, faults, indexed>>

AckReturned(s) ==
    /\ run[s].pc = "returned"
    /\ Finish(run[s].task)
    /\ Become(s, Idle)
    /\ UNCHANGED <<rows, faults, indexed>>

\* The retry policy: the job is finished, or stays queued for another delivery.
Requeue(j) == leased' = leased \ {j} /\ UNCHANGED <<submitted, queue, tries>>

AckRaised(s) ==
    /\ run[s].pc = "raised"
    /\ Finish(run[s].task) \/ Requeue(run[s].task)
    /\ Become(s, Idle)
    /\ UNCHANGED <<rows, faults, indexed>>

\* Where a cancellation can find a run: at any await. If it is a commit that the
\* database does carry out, the commit's own action comes first, the last included.
Cancellable(s) == run[s].pc \in Live \union {"returned"}

\* job_timeout cancels the coroutine; CancelledError is not an Exception, so no
\* handler of process_document sees it.
Timeout(s) ==
    /\ Cancellable(s)
    /\ run[s].pc \in TimeoutsAt
    /\ Fault("timeout")
    /\ Become(s, EndRun(s, "raised"))
    /\ UNCHANGED <<rows, arq, indexed>>

\* Worker shutdown cancels the coroutine too and leaves the job queued.
Shutdown(s) ==
    /\ Cancellable(s)
    /\ Fault("shutdown")
    /\ Requeue(run[s].task)
    /\ Become(s, Idle)
    /\ UNCHANGED <<rows, indexed>>

\* The worker process dies; its in-progress keys stay until they expire.
Crash(s) ==
    /\ run[s].pc # "idle"
    /\ Fault("crash")
    /\ Become(s, Idle)
    /\ UNCHANGED <<rows, arq, indexed>>

\* (A key that may expire while its holder runs.)
LeaseExpiresEarly(j) ==
    /\ j \in leased
    /\ leased' = leased \ {j}
    /\ UNCHANGED <<rows, submitted, queue, tries, run, faults, indexed>>

\* (A key without expiry.)
LeaseStays(j) == FALSE

\* The in-progress key expires after its holder is gone ...
LeaseExpires(j) ==
    /\ j \in leased
    /\ \A s \in Slots : run[s].task # j
    /\ leased' = leased \ {j}
    /\ UNCHANGED <<rows, submitted, queue, tries, run, faults, indexed>>

\* ... or under a holder whose event loop stalls past job_timeout.
LeaseLapses(j) ==
    /\ j \in leased
    /\ \E s \in Slots : run[s].task = j
    /\ Fault("stall")
    /\ leased' = leased \ {j}
    /\ UNCHANGED <<rows, submitted, queue, tries, run, indexed>>

RedisFlush ==
    /\ Fault("flush")
    /\ queue' = {}
    /\ leased' = {}
    /\ tries' = [j \in Jobs |-> 0]
    /\ UNCHANGED <<rows, submitted, run, indexed>>

-----------------------------------------------------------------------------
\* The steps a worker takes by itself.
Work(s) ==
    \/ Load(s) \/ StartAttempt(s) \/ EnterStage(s) \/ HandlerReturns(s) \/ LeaveStage(s)
    \/ RecordFailure(s) \/ RecordSuccess(s) \/ PromoteVersion(s)
    \/ AckReturned(s) \/ AckRaised(s)

Queueing(j) ==
    \/ GiveUp(j) \/ LeaseExpires(j)
    \/ \E s \in Slots : Deliver(s, j)

Disturbance ==
    \/ \E s \in Slots :
        HandlerRaises(s) \/ DatabaseRaises(s) \/ Timeout(s) \/ Shutdown(s) \/ Crash(s)
    \/ \E j \in Jobs : LeaseLapses(j)
    \/ RedisFlush

Next ==
    \/ \E s \in Slots : Work(s)
    \/ \E j \in Jobs : Enqueue(j) \/ Queueing(j)
    \/ Disturbance

Spec == Init /\ [][Next]_vars

\* Workers keep running and a handler returns or is disturbed; Redis serves idle
\* workers and expires keys. Nothing obliges a producer or a fault to happen.
Fairness ==
    /\ \A s \in Slots : WF_vars(Work(s))
    /\ \A j \in Jobs : WF_vars(Queueing(j))

FairSpec == Spec /\ Fairness
=============================================================================
