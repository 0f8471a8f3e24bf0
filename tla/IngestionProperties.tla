------------------------ MODULE IngestionProperties ------------------------
(***************************************************************************)
(* What process_document and its queue have to guarantee about the rows    *)
(* the UI reads. Two circumstances void most guarantees, and the           *)
(* properties name them: a lease that lapsed under a live run (two runs    *)
(* then share one job), and two jobs that share one document version.      *)
(***************************************************************************)
EXTENDS Ingestion

NoStall == faults["stall"] = 0

SoleJob(j) == \A k \in Jobs : VersionOf[k] = VersionOf[j] => k = j

HasRows(s) == run[s].pc \in Live \ {"load"}

\* Attributes as a session holds them: a value, or expired.
Cached(T) == T \union {Unloaded}

JobObject == [status: Cached(JobStatus), current_stage: Cached(StageNames \union {"none"}),
              progress: Cached(0..100), attempts: Cached(Nat),
              error: Cached(StageNames \union {"none"}),
              timings: Cached(SUBSET StageNames), finished: Cached(BOOLEAN)]

VersionObject == [status: Cached(DocumentStatus), error: Cached(BOOLEAN)]

DocumentObject == [status: Cached(DocumentStatus), current: Cached(Versions \union {NoVersion})]

SlotState ==
    [pc: Pcs, task: Jobs \union {NoJob}, stage: Stages, timings: SUBSET StageNames,
     cache: [job: JobObject, version: VersionObject, document: DocumentObject]]

\* The types of the rows, of arq's keys and of a slot's session.
TypeOK ==
    /\ job \in [Jobs -> JobRow]
    /\ version \in [Versions -> VersionRow]
    /\ document \in [Documents -> DocumentRow]
    /\ submitted \subseteq Jobs
    /\ queue \subseteq Jobs
    /\ leased \subseteq Jobs
    /\ tries \in [Jobs -> Nat]
    /\ run \in [Slots -> SlotState]
    /\ faults \in [FaultKinds -> Nat]
    /\ indexed \subseteq Versions

-----------------------------------------------------------------------------
(* Sessions and rows *)

\* A job id is in the hands of at most one slot: the in-progress key and its
\* expiry keep a redelivery from overlapping the run it replaces.
OneRunPerJob ==
    NoStall => \A s, t \in Slots : run[s].task = run[t].task /\ run[s].task # NoJob => s = t

\* The sessionmaker has expire_on_commit=False, so a session never reads a row
\* again after its first SELECT; its copies of the job and version row are
\* nevertheless current at every step, across failed and unacknowledged
\* commits. (Its copy of the document row need not be: another version's job
\* writes that row.)
Agrees(object, row) == \A f \in DOMAIN row : object[f] = row[f] \/ object[f] = Unloaded

SessionIsCurrent ==
    NoStall =>
        \A s \in Slots :
            HasRows(s) =>
                /\ Agrees(run[s].cache.job, job[run[s].task])
                /\ SoleJob(run[s].task) => Agrees(run[s].cache.version, version[VersionAt(s)])

\* "The status the user sees in the UI is exactly the stage the worker is
\* executing" (pipeline.py), for the version row and the job row.
ShownStageIsExecuting ==
    NoStall =>
        \A s \in Slots :
            run[s].pc = "exec" =>
                LET j == run[s].task
                    stage == PIPELINE[run[s].stage]
                IN  /\ job[j].status = "RUNNING"
                    /\ job[j].current_stage = stage.name
                    /\ SoleJob(j) => version[VersionOf[j]].status = stage.status

\* A SUCCEEDED job shows a whole run: 100 %, no stage, no error, five timings,
\* a COMPLETED version, and every handler did run for it in one attempt.
SuccessIsWhole ==
    NoStall =>
        \A j \in Jobs :
            job[j].status = "SUCCEEDED" =>
                /\ job[j].progress = 100 /\ job[j].finished
                /\ job[j].current_stage = "none" /\ job[j].error = "none"
                /\ job[j].timings = StageNames
                /\ VersionOf[j] \in indexed
                /\ SoleJob(j) => version[VersionOf[j]].status = "COMPLETED"

\* A job has an error_message exactly when it is FAILED; the message names a
\* stage whose predecessors, and no successor, have a timing.
FailureNamesStage ==
    NoStall =>
        \A j \in Jobs :
            /\ job[j].status = "FAILED" <=> job[j].error # "none"
            /\ job[j].status = "FAILED" =>
                \E i \in Stages :
                    LET before == {PIPELINE[k].name : k \in 1..(i - 1)}
                    IN  /\ job[j].error = PIPELINE[i].name
                        /\ job[j].timings \in {before, before \union {PIPELINE[i].name}}
                        /\ SoleJob(j) => version[VersionOf[j]].status = "FAILED"

\* Versions of one document are processed by sessions that do not see each
\* other's writes and flush only what they changed; even so the document row
\* never shows a status that none of its versions has.
DocumentShowsSomeVersion ==
    NoStall /\ (\A j \in Jobs : SoleJob(j)) =>
        \A d \in Documents :
            (\E v \in Versions : DocumentOf[v] = d) =>
                \E v \in Versions : DocumentOf[v] = d /\ document[d].status = version[v].status

\* A document's current version is one of its own and one attempt took it
\* through all five handlers, even when runs of the job overlap.
CurrentVersionIsIndexed ==
    \A d \in Documents :
        document[d].current # NoVersion =>
            document[d].current \in indexed /\ DocumentOf[document[d].current] = d

\* The attempts column never exceeds max_tries, although arq counts deliveries
\* in Redis, forgets them, redelivers runs that crashed or were shut down, and
\* overlapping runs each write the column from their own copy.
AttemptsWithinTries == \A j \in Jobs : job[j].attempts <= MaxTries

\* Once SUCCEEDED or FAILED, a job row changes its status only by the start of
\* another attempt: no late write of the attempt that settled it.
OnlyAnAttemptReopens ==
    [][\A j \in Jobs :
        NoStall /\ job[j].status \in Settled /\ job'[j].status # job[j].status =>
            job'[j].status = "RUNNING" /\ job'[j].attempts = job[j].attempts + 1]_vars

-----------------------------------------------------------------------------
(* The rows implement the lifecycle *)

Tracked == {j \in Jobs : VersionOf[j] # NoVersion}

Lifecycle == INSTANCE JobLifecycle WITH
    Jobs <- Tracked,
    ledger <- [j \in Tracked |-> [status |-> job[j].status,
                                  shown |-> version[VersionOf[j]].status,
                                  attempts |-> job[j].attempts]]

\* Every commit is one step of the documented lifecycle or invisible in it
\* (where no two jobs share a version and no lease lapses).
ImplementsLifecycle == Lifecycle!Spec

-----------------------------------------------------------------------------
(* The outcome *)

\* "The DB row always reflects the final outcome" (process_document): once arq
\* is done with a job that has a version, its row is SUCCEEDED or FAILED.
RowReflectsOutcome ==
    \A j \in submitted :
        (VersionOf[j] # NoVersion /\ j \notin queue /\ \A s \in Slots : run[s].task # j) =>
            job[j].status \in Settled

\* Every submitted job leaves the queue and the slots for good, whether or not
\* it has a version: crashed, retried and rejected deliveries all come to an end.
SubmittedJobEnds ==
    \A j \in Jobs : j \in submitted ~> [](j \notin queue /\ \A s \in Slots : run[s].task # j)

\* A submitted job that has a version is SUCCEEDED or FAILED for good, if it
\* meets fewer crashes and handler failures than max_tries.
SubmittedJobSettles ==
    \A j \in Tracked : j \in submitted ~> [](job[j].status \in Settled)

\* Success takes two commits. A version that shows COMPLETED becomes the current
\* version of its document even if the worker dies in between, unless the
\* redelivered run fails.
CompletedIsPromoted ==
    \A v \in Versions :
        version[v].status = "COMPLETED" ~>
            document[DocumentOf[v]].current = v \/ version[v].status = "FAILED"

\* "progress: % complete once this stage finishes" (pipeline.py): while a stage
\* executes, progress is the figure of the stage before it.
ProgressIsOfFinishedStages ==
    \A s \in Slots :
        run[s].pc = "exec" =>
            job[run[s].task].progress =
                IF run[s].stage = 1 THEN 0 ELSE PIPELINE[run[s].stage - 1].progress

\* "The status the user sees in the UI is exactly the stage the worker is
\* executing" (pipeline.py), for the document row the list view shows.
DocumentShowsExecutingStage ==
    \A s \in Slots :
        run[s].pc = "exec" => document[DocumentAt(s)].status = PIPELINE[run[s].stage].status
=============================================================================
