# ContractIQ: specification and verification

TLA+ models of ContractIQ's core logic, the TLC runs that check them on small
instances, and TLAPS proofs for every instance.

## 1. The system

ContractIQ ingests contracts and answers questions about them. At this commit
the ingestion path is implemented end to end (with stage handlers that are
still pass-throughs), and so is the frontend, against the API or, with the demo
switch, against fixtures; retrieval, agents and most endpoints are placeholders.

| Component | State it keeps | Operations | Talks to |
|---|---|---|---|
| Ingestion job, `workers/app/tasks/document_processing.py`, `services/pipeline.py` | one SQLAlchemy session per run: copies of a job, version and document row; timings | `process_document`: read three rows, commit one transition per step, run five handlers, record failure or success | PostgreSQL, arq |
| Worker and queue, `workers/app/main.py` | arq's Redis keys: queue, in-progress keys, delivery counters, results | deliver, retry, time out, shut down, expire | ingestion job, Redis |
| Rows, `backend/app/db/models`, `db/database.py` | `processing_jobs`, `document_versions`, `documents` | written by the ingestion job, polled by the UI | |
| Vector store bootstrap, `backend/app/vectorstore/collections.py`, `core/resources.py` | the Qdrant collection and its payload indexes | `ensure_collection` at every start of an API process or worker | Qdrant |
| Probes, `backend/app/services/health_service.py` | none; reads a heartbeat key | `/health`, `/ready` | all stores |
| API client, `frontend/lib/api-client.ts` | access token, abort timer of a request | request, parse the envelope | API |
| Hooks, `frontend/hooks` | data, error, loading and call number of each use; a timer | call, reload, settle; tick | services |
| Contracts page, `frontend/features/documents/documents-view.tsx`, `upload-dropzone.tsx` | list, documents shown, uploads, removal timers | poll, advance the demo, drop files, retry, filter | API, hooks |
| Assistant, `frontend/features/assistant` | turns of a conversation, calls in flight, active source, scope | ask, retry, animate, answer, fail, cite | API |
| Comparison, `frontend/features/compare`, `utils/diff.ts` | the selected pair, its rows | select, retry, mark words | API |
| Contract, risk review and overview, `contract-detail-view.tsx`, `features/risk`, `features/dashboard` | one answer each, a selected clause | fetch, retry, select, count | API |
| System page, `frontend/features/system` | the answers of two probes | probe every ten seconds or on demand | API, probes |
| Routing and sign-in, `frontend/components/layout`, `app`, `features/auth` | the mounted page, the sign-in form | follow a link, open an address, sign in | all pages |
| Values, `frontend/types`, `utils`, `lib/demo` | none | validation, statuses, fixtures | |
| `backend/app/evaluation/retrieval_metrics.py` | none | ranking metrics | |
| Repositories, schema, middleware, storage, configuration, security, providers | see PROJECT.json | | |

Where it is hard:

* **Ingestion.** A run is more than twenty awaits long (up to half an hour) and
  can be cancelled, killed, or lose a commit at each of them. arq then delivers
  the job again, while the rows still show what the previous run left. The
  session never re-reads (`expire_on_commit=False`), two versions of a document
  write one document row, and nothing but arq's expiring key keeps two runs of
  a job apart. What must hold: the rows show the stage that executes, an
  outcome is a whole outcome, a retry starts from clean ground, and every
  submitted job ends.
* **Bootstrap.** Several processes create one collection with nine requests
  and no lock. What must hold: the race costs nothing, a start always serves,
  and what was not created is created later.
* **Contracts page.** A poll every 1.5 seconds overtakes the answers of earlier
  polls; a list read before an upload is answered after it, or the other way
  round; uploads that run side by side know their entries by file name only.
  Each attempt of a job takes its document back to PROCESSING, which the list has
  to show, while an overtaken answer must not take it back to what was before.
  What must hold: answers are shown in the order in which they were read, no
  document spins for ever, an upload that is lost comes back, no bar is left behind.
* **Assistant.** Retries run beside other calls, and each call finds its turn by
  an index it took before its request. What must hold: an answer stands under
  its question, a settled turn stays as it is, the composer is never blocked
  for good.
* **Comparison.** Three selectors and a request that may be overtaken or fail.
  What must hold: rows belong to the labels above them, and what is marked as
  changed is exactly what changed.
* **System page and probes.** The stack changes under the probes, and an outage
  is reported by a reply that counts as a failure. What must hold: the page
  shows it.
* **Pages that fetch once.** What they count and group must add up.

PROJECT.json lists every component and, under `hazards`, the line at which each
of these can go wrong together with the properties that look for it.

## 2. Modules

| Module | Role |
|---|---|
| `Ingestion` | the detailed model: rows, sessions, slots, arq |
| `JobLifecycle` | abstract: what a job row and its version's status promise a reader |
| `IngestionProperties` | types, invariants, action and liveness properties, and the refinement mapping to `JobLifecycle` |
| `IngestionProofs` | TLAPS: type correctness and four safety invariants |
| `IngestionOutcomes` | TLAPS: outcomes, attempts, the refinement of `JobLifecycle`, shared documents, the outcome that remains |
| `MCIngestion` | instances for TLC |
| `VectorBootstrap`, `MCVectorBootstrap` | start-up of the processes that share the Qdrant collection; its instances |
| `BootstrapProofs` | TLAPS: types, and that the race is harmless |
| `ApiClient` | `lib/api-client.ts`: envelopes, outcomes, the token |
| `UseAsync` | `hooks/use-async.ts` as operators on a record, for every page |
| `Contracts` | statuses, validation, fixtures |
| `WordDiff` | `utils/diff.ts`, and what an exact diff is |
| `Documents`, `DocumentsProperties`, `MCDocuments` | the contracts page with its dropzone, over an external store; its properties; its instance |
| `Navigation` | what the other pages share: one of them is mounted |
| `AssistantPage`, `ComparePage`, `ReadingPages`, `SystemPage` | the other pages, each with its properties |
| `Workspace`, `MCWorkspace` | these pages behind one router, and the sign-in; its instance |
| `UseAsyncProofs` | TLAPS: what calling and settling do to a hook; the least number with a property |
| `DocumentsProofs` | TLAPS: the invariants of the contracts page, and that it shows its answers in the order of their reads |
| `AssistantProofs` | TLAPS: the conversation |
| `ContentProofs` | TLAPS: what is computed from an answer, for every answer: the word diff, the outline, the exposure card and the counts |
| `WorkspaceProofs` | TLAPS: the comparison, all pages behind the router, and what they show |

`Documents` EXTENDS `UseAsync` (and so `ApiClient`) and `Contracts`; `Workspace`
EXTENDS the four page modules, which EXTEND `Navigation`. `Documents` has a
state of its own because its page runs the most at once; `Workspace` keeps the
state of whichever page is mounted in one variable, since leaving a page drops it.

### Ingestion

| In the model | In the code |
|---|---|
| `job`, `version`, `document` | the committed rows; `finished`: whether `finished_at` was ever set; `error`: the stage `error_message` names |
| `run[s].pc` | the await a run is suspended at: `load` (the three `session.get`), `start`, `enter`, `leave`, `fail`, `complete`, `promote` (commits), `exec` (a handler); `returned`, `raised`: back in arq |
| `run[s].cache` | the session's copies of the three rows; `Unloaded` is an attribute expired by a rollback |
| `Flush` | SQLAlchemy's unit of work: only attributes that differ from what the session knows are in the UPDATE |
| `SetStatus`, `Started` ... `Promoted` | `_set_status` and the values each commit assigns |
| `DatabaseRaises` | a read or commit that raises, carried out or not; handled by the `except` inside the loop, leaving the function elsewhere |
| `Timeout`, `Shutdown`, `Crash` | `CancelledError` from `job_timeout`, from worker shutdown, and the death of the process |
| `queue`, `leased`, `tries` | arq's sorted set, in-progress keys and retry counters (external, modelled from how `WorkerSettings` configures them) |
| `indexed` | history only: versions that one attempt took through every handler |

Choices worth knowing:

* One action is one await. Between two awaits a coroutine is atomic.
* The three reads are one step. Unless two jobs share a version, only the
  document row, read last, can change between them.
* A handler either returns or raises. That is all the handlers of this commit
  do, and all `process_document` distinguishes.
* arq's answer to an exception is left open (`AckRaised`): it ends the job or
  queues it again. Which one depends on the exception and on arq's version.
* The in-progress key outlives `job_timeout`, so it expires only after its
  holder is gone (`LeaseExpires`), except when the event loop stalls so long
  that the timeout cannot fire (`LeaseLapses`, fault `stall`).
* `TimeoutsAt` bounds where `job_timeout` may find a run. It is anywhere, except in
  `outcome_after_timeout`, where it is a handler.
* No producer exists in this version (upload endpoints answer 501); `Enqueue`
  puts each job row on the queue once.

Two circumstances void most guarantees and the properties name them: a lapsed
lease (`NoStall`) and two jobs for one version (`SoleJob`).

### VectorBootstrap

One action per request to Qdrant. `CollectionExists` and `CreateCollection`
are the check and the creation, which Qdrant rejects if another process was
faster; `CreatePayloadIndex` creates one index at a time in the order of the
code. `RequestRaises` lets any request fail, carried out or not, and
`Resources.bootstrap` swallows it, so the process serves all the same. `Crash`
may hit a process anywhere; `ensured` remembers how a start ended, so that
`StartAlwaysServes` excuses a process that is down only if it crashed: an
exception that escaped the bootstrap and ended the process would violate it.
The collection's vector size and other settings are left out.

### The frontend

| In the model | In the code |
|---|---|
| `useDemoData` | `config.useDemoData`: every run covers both builds |
| a hook `[data, error, loading, open]` | the states of `useAsync`; `open` are its calls that have not settled |
| `stale` of a request | `id !== callId.current`; the numbers themselves are not kept, so that polling for ever is a finite state space |
| `read` of a request | external: what the server read for it, at some moment before it answers |
| `docs`, `uploads`, `batches`, `timers` (`Documents`) | `docs` of the view, `uploads` of the dropzone, the running calls of `handleFiles`, the pending `setTimeout`s |
| `store` (`Documents`) | external: the tenant's documents behind the API. Of `process_document` the list can tell two things: each attempt takes its document back to PROCESSING, from an outcome too (`AttemptStarts`), and then moves it on (`WorkerMoves`) |
| `changes`, `at` of an answer (`Documents`) | history: how often the store has changed, and how often it had when the answer was read |
| `view` (`Workspace`) | the state of the mounted page, tagged with its name |
| `turns`, `asks` (`AssistantPage`) | the `turns` state; the running calls of `ask` with the index and step each closure holds |
| `pair` of a comparison | what the page does not keep: the versions its rows were made for |
| `stack` (`SystemPage`) | external: what runs |

Choices worth knowing:

* One action is one callback of the event loop. React's render and effects follow
  it before the next one, except where the code leaves a gap (the effect that
  asks a link's question).
* A click on Retry inside a turn also reaches the turn (the event bubbles), and
  the model does both.
* Filters, the "only differences" box and open or closed panels change nothing
  but what is drawn; what is drawn is defined for all their values
  (`Visible`, `Rows`, `RiskBody`).
* Sizes are in quarters of the upload limit, questions are given by their length,
  texts are sequences of tokens.
* A probe says of a dependency that it is up or down; which dependencies are
  critical is a constant. The code has three critical ones and the worker.

### Mutation operators

A definition under a comment in parentheses is a plausible bug of the definition
after it. No specification uses it; it shows that the property PROJECT.json
pairs it with is able to fail.

## 3. Runs

The ingestion runs use two slots, which is the least that can overlap, and
symmetry over the slots only where no liveness property is checked.
`CHECK_DEADLOCK FALSE` where the system may stop: a queue that is empty, a
deployment that is up, a contracts page that shows only outcomes.

| Run | Instance | Shows |
|---|---|---|
| `recovery` | one job, three tries; two database errors, two crashes and one of every other fault but the stall | types; one run per job; sessions current; the rows show the executing stage; success is whole; failure names its stage; only an attempt reopens a settled row; the rows implement `JobLifecycle` |
| `two_versions` | two versions of one document, two tries each; a handler failure, a database error, a crash | the document shows the status of one of its versions; its current version is fully processed |
| `overlap` | two jobs for one version; a stalled event loop and a crash | current version and attempt count survive overlapping runs |
| `settles` | fair workers; a job with and a job without a version; a handler failure and a crash, three tries | every submitted job ends; a job with a version is settled for good; a COMPLETED version is promoted; the row has its outcome once arq is done |
| `bootstrap` | three processes, two faults | a missing index has a cause; a start serves unless its process crashes; without faults the first start leads to the complete collection |
| `documents` | two drops of three files, two of which are refused and two share a name; two uploads to the API; demo and API | the list spins as long as it waits; no bar is left behind; a duplicate row goes; the demo pipeline ends full; answers are shown in the order of their reads; the page's bars end; a lost upload returns; uploads end |
| `workspace` | three turns, one animated step, two comparisons at once, five versions, two contracts, three findings, a critical and another dependency | spinners are honest on every page; open turns have their call; answers fit their questions; settled turns stay; questions end; rows fit their labels; diffs are exact and shortest; the outline and the overview account for everything; an outage is shown |

The bounds of the ingestion runs are those at which the interesting cases happen: a job can fail, be
redelivered, crash and be redelivered again, the last time beyond `MaxTries`;
a lost acknowledgement can hit the commit and then the FAILED record of the same run. `MaxTries` is
3 in `WorkerSettings` and 2 where two jobs are in flight, which still lets each
of them be retried once. In `settles` the faults are fewer
than the tries; with more, a job may be given up with its row RUNNING.

Fairness (`settles`): a worker that can take its next step takes it (the event
loop runs, commits are answered, handlers return or are disturbed), and Redis
serves idle workers and expires keys. No fault and no enqueueing is fair.
In `bootstrap` every request is answered or fails by the client's timeout.

Bounds of `documents`: a second drop makes more than the four entries the
dropzone keeps, repeats every name and may run beside the first; two stored
uploads are the least that can be listed, lost and duplicated independently. A worker
moves a document straight to its outcome: intermediate statuses are one class
for the page (`isProcessing`), and the demo run goes through all of them. An
attempt may start after the fourth change of the store (`Starts`): after two uploads
and two outcomes, it reopens a document that is COMPLETED, whatever the
page shows or waits for by then. The start of a first attempt is not a step of this
instance, QUEUED and PROCESSING being of one class.
Bounds of `workspace`: three turns let two retries of one failed turn run at
once; two comparisons are the least that overtake each other; the texts of the
versions include a pair where a greedy diff is not shortest, an insertion at
the start, and topics one version lacks; the demo texts are compared too.

Fairness (`documents`): the interval fires, timers fire, uploads end, workers
work. Weak fairness of an answer would be worth nothing, because every poll
makes the call before it stale; the strong fairness of the newest request being read
and answered says that again and again an answer arrives within one period. That is
the assumption the 1.5-second interval makes of the API; without it the code
never updates the list, however many answers arrive. That workers work is as
much an assumption: `settles` shows when ingestion comes to an outcome and
`outcome_after_timeout` that a timeout can keep it from that, and a document
that stays PROCESSING in the store rightly spins on the page. Starting an attempt is not
fair, and `Starts` lets only finitely many begin. Polling stops when the page shows
outcomes only, so an attempt that starts later is not seen until the page is
opened again; `DocumentsSettle` promises no more than that bars end.
Fairness (`workspace`): a call of `ask` ends (it has a timeout of 60 seconds)
and the effect that asks a link's question runs; the system page's interval
fires, and a newest probe of a running API is answered again and again before
the next (the probes time out at 5 and 8 seconds, the interval is 10).
No user action is fair.

### Where the code and its documentation disagree

Each is a run that TLC refutes; PROJECT.json quotes the lines.

| Run | Promise | What happens |
|---|---|---|
| `outcome_after_timeout` | "the DB row always reflects the final outcome" | `job_timeout` cancels a handler with `CancelledError`, which `except Exception` does not catch: the job ends, its row stays RUNNING. (Cancelled before its first commit, outside the `try`, it would stay PENDING; this run has its timeout in a handler.) |
| `progress_on_retry` | progress is "% complete once this stage finishes" | a new attempt keeps the progress of the previous one |
| `list_during_two_versions` | the status in the UI "is exactly the stage the worker is executing" | two versions in flight overwrite each other's status in the document row |
| `system_truth` | "so the System page tells the truth about the running stack" | `useAsync` keeps the data of the last good answer, and `apiUp` is its presence: an API that is gone is shown as up, even after a probe of it has failed |
| `ensure_after_crash` | "Create the chunk collection and payload indexes if missing. Idempotent." | once the collection exists, missing indexes are never created |

`OutageShown` (the outage of a dependency, reported by a running API) holds in
`workspace`; `PageTellsTheTruth` (the outage of the API itself) fails.
`RowReflectsOutcome` holds in `settles`, where nothing cancels a run, and fails
in `outcome_after_timeout`; it is the cancellation that breaks it.

## 4. Proofs

| Module | Theorem | Statement |
|---|---|---|
| `IngestionProofs` | `TypeCorrect` | `Spec => []TypeOK` |
| | `OneRun` | `Spec => []OneRunPerJob` |
| | `SessionCurrent` | `Spec => []SessionIsCurrent` |
| | `StageShown` | `Spec => []ShownStageIsExecuting` |
| | `CurrentVersionSound` | `Spec => []CurrentVersionIsIndexed` |
| `IngestionOutcomes` | `SuccessWhole` | `Spec => []SuccessIsWhole` |
| | `FailureNamed` | `Spec => []FailureNamesStage` |
| | `SettledStays` | `Spec => OnlyAnAttemptReopens` |
| | `AttemptsBounded` | `Spec => []AttemptsWithinTries` |
| | `Refinement` | `Spec => ImplementsLifecycle`, if every job is the only one of its version and no event loop stalls |
| | `DocumentHonest` | `Spec => []DocumentShowsSomeVersion` |
| | `OutcomeReflected` | `Spec => []RowReflectsOutcome`, if only handlers, crashes and shutdowns disturb, less often than `MaxTries` |
| `BootstrapProofs` | `BootstrapTyped` | `Spec => []TypeOK` |
| | `RaceIsHarmless` | `Spec => []GapHasCause` |
| `DocumentsProofs` | `ListSpinsAlways` | `Spec => []ListSpins` |
| | `PageTyped` | `Spec => []TypeOK` |
| | `BarsAlwaysMove` | `Spec => []EveryBarIsMoving` |
| | `DuplicatesAlwaysTransient` | `Spec => []DuplicateIsTransient` |
| | `CompletedAlwaysFull` | `Spec => []CompletedIsFull` |
| | `AnswersAlwaysInReadOrder` | `Spec => AnswersInReadOrder` |
| `AssistantProofs` | `OneCallPerOpenTurn` | `AssistantSpec => []BusyMeansAsking` |
| | `AnswersFitQuestions` | `AssistantSpec => []AnswerAtItsQuestion` |
| | `SettledTurnsStay` | `AssistantSpec => SettledTurnIsFinal` |
| `ContentProofs` | `DiffExact` | `IsExactDiff(wordDiff(a, b), a, b)` for all texts `a`, `b` over any tokens |
| | `OutlineExact` | `IsOutline(groupBySection(clauses), clauses)` for all `clauses` |
| | `ExposureExact` | `IsExposure(RiskExposure(findings), findings)` for all `findings` |
| `WorkspaceProofs` | `RowsMatchLabels` | `CompareSpec => []MismatchIsFlagged` |
| | `WorkspaceTyped` | `Spec => []TypeOK` |
| | `SpinnersAlwaysHonest` | `Spec => []SpinnersAreHonest` |
| | `WorkspaceRowsMatch` | `Spec => []MismatchIsFlagged` |
| | `WorkspaceConversation` | `Spec => []BusyMeansAsking /\ []AnswerAtItsQuestion` |
| | `WorkspaceKeepsTurns` | `Spec => SettledTurnIsFinal` |
| | `WorkspaceDiffExact` | `Spec => []DiffIsExact` |
| | `WorkspaceOutline` | `Spec => []OutlineKeepsClauses` |
| | `WorkspaceOverview` | `Spec => []OverviewAddsUp` |

### Assumptions

The ingestion theorems hold for every set of jobs, versions, documents and
slots, every `MaxTries` and every fault budget, under the two assumptions of
`Ingestion` (the constants are of their types; `Unloaded` is no attribute value).
Most of them name `NoStall` or `SoleJob` in the property itself; `Refinement`
has two hypotheses of its own, without which it is false: two jobs
of one version overwrite each other's rows, and a run that lives on after its
lease lapsed writes beside its successor. `OutcomeReflected` assumes that there
are no failing commits or reads, no timeouts and no stalls, and in all fewer
handler failures, crashes and shutdowns than `MaxTries`, as in `settles`. The
bound is tight: with as many spoiled deliveries as tries, or a single timeout,
TLC finds a job that is given up with its row RUNNING. `BootstrapProofs` needs
`MaxFaults` to be a number.

The pages assume that `Null` is no error code (`ApiClient`), no answer
(`AnswerAssumption`) and no state of the stack (`StackAssumption`), that the
constants are of their types (`DocumentsAssumption`, `AssistantAssumption`), and
of the documents that no id is given out twice (`IdsAssumption`): the backend
draws UUIDs, the demo takes the time at which the upload ends, to the millisecond.
What the API answers is of the types in `types/index.ts` and about contracts of the
tenant (`TenantAssumption`), and two versions of one contract are aligned on the
same topics (`TextAssumption`), as each `ComparisonRow` has both its sides. The
theorems of `ContentProofs` need nothing of this: they are about every sequence.

### The ingestion job

Each invariant has to be strengthened before it is inductive:

1. *Types.* `TypeOK` alone is not inductive: a commit writes the session's
   copies back, so the rows stay typed only because a live run holds a job with
   a version and never writes back an attribute it has not loaded. `TypeInv` adds that (`SlotOK`).
2. *One run per job.* A slot with a job has that job's lease (`Owned`); delivery
   needs a free lease, and it expires only when no slot has the job.
3. *Sessions.* Given 2, no one else writes the job row, nor a version row with
   a sole job, while a run lives. A commit leaves row and copy
   agreeing on every loaded attribute (`CurrentCommitted`), a commit that was
   carried out but raised is followed by a rollback that forgets the copies, and
   everything else leaves rows and copies alone (`CurrentKept`).
4. *The stage shown.* `RunsProgressed` says of each program counter what the
   run has behind it: the timings it has collected and the statuses its last
   commit put into its copies. With 3 the rows show the same.
5. *The current version.* Only the last commit of a run assigns
   `current_version_id`, and by 4 it is reached only through all five handlers.
   This needs neither 2 nor 3, so it holds for overlapping runs too.
6. *Outcomes.* `OutcomeInv` adds to 3 and 4 that every row that shows an outcome
   shows all of it (`OutcomesShown`), and that a run between its first commit of
   a stage and its outcome has a RUNNING row without an error (`RunsReported`).
   `CommitShows` says attribute by attribute what each commit leaves in the
   rows: an UPDATE carries only the attributes that changed, so a row is
   whole only because the others were read from it and no one changed them.
7. *Attempts.* An attempt is counted from the session's copy, so the row alone
   says nothing. `AttemptsCounted` says that the row's count, and every copy a
   start will write back, leaves room for all slots that are about to start the
   job, within the deliveries arq has counted (`tries`, or `MaxTries` once it has
   forgotten the job). A delivery adds one slot and one try; a start takes its
   slot out and adds one to a count. The rest is arithmetic with cardinalities.
   It holds for overlapping runs too.
8. *The lifecycle.* `CommitMoves` maps each commit to a move of `JobLifecycle`;
   its guards follow from 6. No other action touches the rows, so it stutters.
   Fairness is no part of `ImplementsLifecycle`.
9. *Shared documents.* Sessions of two versions overwrite each other's status in
   the document row without seeing it, and an UPDATE leaves out a status that
   the session believes to be there. `DocumentsWitnessed` names a version whose
   status the row has, and whose run, if it is about to make its first commit,
   has the row's status in its copy. From then on a session holds one status for version and document
   (`Matched`), so every later commit writes both or neither, and the committed
   version becomes the witness. Promotion writes neither status anew.
10. *The outcome that remains.* arq forgets a job whose run returned, whose run
   raised, or whose deliveries are used up. `EndSound` says that in the first two cases the row
   already has its outcome. For the third, `DeliveriesAccounted` counts: every
   delivery of a job is either spoiled by a fault or in the hands of a slot.
   Since fewer are spoiled than arq delivers, one is left, and no job is given up.

### Bootstrap

`BootstrapInv` adds to the types that a process which has not created the
collection is at the first field, and that, while nothing has failed, a
collection that misses an index has a process at work on it which made every
index before its own. Only one creation succeeds, so only its process gets there.

### The pages

`UseAsyncProofs` says once what mounting, calling, reading and settling do to a
hook: at most its newest call is fresh, and it loads exactly while that one is
out. `ListSpinsAlways` follows for the contracts page because nothing else
touches its list. `CompareInv` adds that the fresh request of the comparison is
for the selected pair, so an answer that is shown fits the labels.
`AssistantInv` relates every call to its turn: the turn exists, is open and
holds the call's question, no two calls share a turn and every open turn has
one. Turns are only appended, so an index taken before an `await` still finds
its turn after it.

`PageInv` of the contracts page joins seven parts, each disturbed by few actions:

* `StoreInv`: the server gives ids out in their order, so a stored document is new to every list.
* `BatchesInv` and `UploadsInv`: the types of drops and entries, and that every
  entry without an error has a running upload or a due removal of its name. When
  an upload ends, its entries get an error or a removal in the step in which the
  drop goes on to its next file, whose entry that step adds; when a removal is
  made, every entry of the name goes with it.
* `ListTyped`: what was read and what is shown has each id once.
* `AddedInv`: the demo makes ids up in their order and never reads a store.
* `DocsInv`: a duplicate is there only while the page polls. A document of the demo is
  never further than its progress allows (`InStep`): a tick moves the progress by
  7 and the status only at every third tick, so `NEXT` alone never reaches
  COMPLETED before the progress is full.

`OrderInv` orders three moments: the answer on the screen was read no later than
the newest request, and that one no later than now (`changes`). Only the newest
request's answer is shown, and it was read after the one before it was shown.
What happens to the store, an upload, a start or a move of a worker, only raises
`changes`. In the demo every answer is of the same moment.

`WorkspaceInv` gives each page its shape and its own invariant: a sound hook
that spins for its newest call (`GoodHook`), `CompareInv` with a pair of one
contract, `AssistantInv` with its bounds. Every link, the sign-in and the sidebar lead to
a page as its component mounts it (`OpensWell`), which starts its invariant; a
step inside a page keeps it; and the steps of other pages are disabled, as they
are about the mounted one. So the theorems of the two pages hold of the whole
workspace, where a page is left with calls in flight and entered again.

`CompareSpec` and `AssistantSpec` start the page as the router mounts it and are
about the page alone; the theorems about `Workspace` rest on their steps.

### What the pages show

`ContentProofs` is about operators, without a state. A loop of the code is a function
over the rounds of the loop there; `LoopRuns` shows once, by an induction over a set of
numbers (`NatSteps`), that such a function exists and what its value in the next
round is. After that each has an argument of its own, for the loops an invariant:

* *The word diff.* The table is filled from its last corner: a set of common places in
  order has at most `dp[i, j]` members beyond `i` and `j`, since it begins with
  a match there, or misses one of the two tokens; a match can replace the
  first place. The walk (`Walking`) keeps that both sides read as the texts up to
  `i` and `j`, that neighbours differ in kind, that what is kept is the same on both
  sides, and that its length and `dp[i, j]` are together `dp[1, 1]`. Each round
  uses up a token while there is one, so after as many rounds as there are tokens both
  texts are used up. What is kept is then as long as the longest common subsequence.
* *The outline.* After `k` clauses each section has what `ClausesIn` collects from the first
  `k`, no section is there twice and none is empty (`OutlineUpTo`). A clause goes
  to the end of the one section of its name (`AddedToOld`) or begins one (`AddedAsNew`).
* *The exposure card.* `Before` is a total order of the lines: two lines of one weight have
  different first findings. Counting what comes before a line gives every line a place of its
  own and every place a line (`Ranked`), so the list has every line once. The findings
  of the first `k` lines are as many as these lines count, because the sets of
  findings of two contracts are disjoint.
* *The counts.* Every status is completed, failed or in between (`DocumentsCounted`), and a
  stepper has one step at which its document is (`StepperMarks`).

`DataInv` brings this to the pages: data that a page holds are what the services return, a
comparison of two versions of one contract, the contract of the page's own id, the findings, or
the documents, findings and dates together. For a contract this is not inductive without
its newest request: an answer that is shown is the contract of the request's
id, which must be the page's. A request that is stale shows nothing, as `UseAsyncProofs` says. With
`DataInv` each of the three invariants follows from what `ContentProofs` says of any
such data; the fixtures of the demo are shown to have the same types (`DemoTypes`).

### Model-checked only

All liveness: that of `settles`, `StartAlwaysServes`, `FirstStartCompletes`, and
that of the pages, with `OutageShown`. TLAPS has no rule for fairness here. Every
invariant and every action property of the passing runs is a theorem.

## 5. Not modelled

* **Retrieval metrics.** Logarithms and divisions of reals, which TLC has no
  numbers for; pure, and without a caller.
* **Schema and cascades.** Nothing in this version deletes a row, so a
  cascade cannot meet a running job. The deletion endpoints answer 501.
* **The probes' concurrency.** The four checks of `/ready` share nothing, and
  the report is made after all have ended. What a report says is in `SystemPage`.
* **Middleware, storage, Redis client, configuration, security, LLM providers,
  agents, repositories.** Stateless wrappers, or code no caller reaches: no step
  of theirs can be disturbed by a step of another component.
* **Placeholders.** Endpoints that answer 501 and tasks that raise
  `NotImplementedError` have no behaviour to model. Once uploads are
  implemented, the producer replaces `Enqueue`, and the order of its commit and
  its enqueueing becomes the next thing to check.
* **Of the frontend:** layout and top bar, the drawer of small screens, browser
  history, highlights, latencies, text as it is typed, dates, byte counts and
  labels as text.
