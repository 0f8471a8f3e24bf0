------------------------------ MODULE Documents ------------------------------
(*
The contracts page: features/documents/documents-view.tsx with the dropzone of
upload-dropzone.tsx, over services/document-service.ts and the hooks. The API is
external: a store of documents. Of the ingestion behind it, tasks/
document_processing.py, the model keeps what the list can tell: each attempt takes
its document back to PROCESSING, whatever it was, and then moves it on. A list
request is read by the server at some moment and answered at a later one. Each
drop of files runs handleFiles as a coroutine of its own.

Left out: the highlight while dragging, and the interval's exact period. The
filter is no state of the model: it changes nothing else, so what is shown is
defined for every filter.
*)
EXTENDS UseAsync, Contracts, FiniteSets

CONSTANTS
    Drops,       \* the sequences of files [name, pdf, type, size] a user may drop at once
    MaxDrops,    \* bound: how often files are dropped
    UploadIds,   \* bound: ids of uploaded documents, in the order they are given out
    Reported,    \* the statuses among which a worker moves a document on
    Starts,      \* bound: after how many changes of the store an attempt may start
    FirstStore   \* what the server has when the page opens

FileType == [name : STRING, pdf : BOOLEAN, type : STRING, size : Nat]
ids(documents) == {doc.id : doc \in ToSet(documents)}
EachIdOnce(documents) ==
    \A i, j \in DOMAIN documents : documents[i].id = documents[j].id => i = j

ASSUME DocumentsAssumption ==
    /\ Drops \subseteq Seq(FileType)
    /\ UploadIds \in Seq(STRING)
    /\ Reported \subseteq DocumentStatus
    /\ Starts \subseteq Nat
    /\ FirstStore \in Seq([id : STRING, status : DocumentStatus, progress : 0..100])

\* No id is given out twice: they are UUIDs.
ASSUME IdsAssumption ==
    /\ \A i, j \in DOMAIN UploadIds : UploadIds[i] = UploadIds[j] => i = j
    /\ EachIdOnce(FirstStore)
    /\ ToSet(UploadIds) \cap (ids(FirstStore) \cup demoIds) = {}

VARIABLES
    list,     \* useAsync of documentService.list
    docs,     \* the documents the page shows
    uploads,  \* the dropzone's entries: [name, pct, error]
    batches,  \* one per drop: [files left, head uploading; stage; pct; id]
    timers,   \* removals of entries that are due: [name, id]
    store,    \* external: the documents of the tenant, newest first
    changes,  \* history: how many changes the store has seen
    added     \* history: ids the page was handed by finished uploads

pageVars == <<list, docs, uploads, batches, timers, added>>
vars == <<clientVars, pageVars, store, changes>>

(***************************************************************************)
(* The list and its interval                                               *)
(***************************************************************************)

\* An answer is the documents the server read. History: after which change of the
\* store it read them.
Answer(moment, documents) == [at |-> moment, documents |-> documents]

\* `if (data) setDocs(data)` runs whenever the hook has new data.
ShowAnswer(hook, outcome, stale) ==
    /\ list' = hook
    /\ docs' = IF outcome.ok /\ ~stale THEN outcome.data.documents ELSE docs

ListRead(request) ==
    /\ ~useDemoData
    /\ ~request.stale
    /\ request.read = Null
    /\ list' = HasRead(list, request, Answer(changes, store))
    /\ UNCHANGED <<clientVars, docs, uploads, batches, timers, added, store, changes>>

ListSettles(request, outcome) ==
    /\ ShowAnswer(Settled(list, request, outcome), outcome, request.stale)
    /\ UNCHANGED <<clientVars, uploads, batches, timers, added, store, changes>>

ListAnswered(request) ==
    /\ ~useDemoData
    /\ request.read # Null \/ request.stale
    /\ ListSettles(request, Result(request.read))

\* Every failure looks the same to this page; the API client tells them apart.
ListFails(request) ==
    /\ ~useDemoData
    /\ ListSettles(request, ApiError("TIMEOUT"))

ListDemo(request) ==
    /\ useDemoData
    /\ ListSettles(request, Result(Answer(0, demoDocuments)))

inFlight == \E i \in DOMAIN docs : isProcessing(docs[i].status)

reload ==
    /\ list' = Called(list, "documents")
    /\ UNCHANGED <<clientVars, docs, uploads, batches, timers, added, store, changes>>

\* The button of the error banner.
Retry ==
    /\ list.error # Null
    /\ reload

\* One tick of the interval against the API. (Mutant: it stops after an error.)
PollUnlessFailed ==
    /\ ~useDemoData
    /\ inFlight
    /\ list.error = Null
    /\ reload
Poll ==
    /\ ~useDemoData
    /\ inFlight
    /\ reload

\* What a tick makes of a document in demo mode. (Mutant: the status moves at
\* every tick.)
AdvancedAlways(doc) ==
    LET progress == IF doc.progress + 7 > 100 THEN 100 ELSE doc.progress + 7
        status == IF progress >= 100 THEN "COMPLETED"
                  ELSE NEXT(doc.status)
    IN IF isProcessing(doc.status) THEN Doc(doc.id, status, progress) ELSE doc
Advanced(doc) ==
    LET progress == IF doc.progress + 7 > 100 THEN 100 ELSE doc.progress + 7
        status == IF progress >= 100 THEN "COMPLETED"
                  ELSE IF progress % 21 < 7 THEN NEXT(doc.status) ELSE doc.status
    IN IF isProcessing(doc.status) THEN Doc(doc.id, status, progress) ELSE doc

Tick ==
    /\ useDemoData
    /\ inFlight
    /\ docs' = [i \in DOMAIN docs |-> Advanced(docs[i])]
    /\ UNCHANGED <<clientVars, list, uploads, batches, timers, added, store, changes>>

(***************************************************************************)
(* The dropzone                                                            *)
(***************************************************************************)

\* Up to the first file that passes validation the loop does not wait.
Valid(files) == {i \in DOMAIN files : validateContractFile(files[i]) = ""}
FirstValid(files) == CHOOSE i \in Valid(files) : \A j \in Valid(files) : i <= j
Met(files) == IF Valid(files) = {} THEN files ELSE SubSeq(files, 1, FirstValid(files))
Left(files) == IF Valid(files) = {} THEN <<>> ELSE SubSeq(files, FirstValid(files), Len(files))

Entry(file) == [name |-> file.name, pct |-> 0, error |-> validateContractFile(file)]
\* setUploads for each file met: newest first, four at most. (Mutant: no limit.)
ListedUnbounded(entries, files) ==
    LET met == Met(files)
    IN Reverse([i \in DOMAIN met |-> Entry(met[i])]) \o entries
Listed(entries, files) ==
    LET met == Met(files)
        all == Reverse([i \in DOMAIN met |-> Entry(met[i])]) \o entries
    IN SubSeq(all, 1, IF Len(all) < 4 THEN Len(all) ELSE 4)

\* update(name, patch) reaches every entry of that name.
WithError(entries, name, error) ==
    [i \in DOMAIN entries |->
       IF entries[i].name = name THEN [entries[i] EXCEPT !.error = error] ELSE entries[i]]
WithPct(entries, name, pct) ==
    [i \in DOMAIN entries |->
       IF entries[i].name = name THEN [entries[i] EXCEPT !.pct = pct] ELSE entries[i]]
Without(entries, name) ==
    LET kept[n \in 0..Len(entries)] ==
          IF n = 0 THEN <<>>
          ELSE IF entries[n].name = name THEN kept[n - 1]
          ELSE Append(kept[n - 1], entries[n])
    IN kept[Len(entries)]

Batch(files) == [files |-> files, stage |-> "sent", pct |-> 0, id |-> Null]
Uploading(b) == batches[b].files # <<>>
CurrentName(b) == Head(batches[b].files).name

handleFiles(files) ==
    /\ Len(batches) < MaxDrops
    /\ batches' = Append(batches, Batch(Left(files)))
    /\ uploads' = Listed(uploads, files)
    /\ UNCHANGED <<clientVars, list, docs, timers, added, store, changes>>

\* The loop goes on with the files after the one that has ended.
Continue(b, entries) ==
    LET rest == Tail(batches[b].files)
    IN /\ uploads' = Listed(entries, rest)
       /\ batches' = [batches EXCEPT ![b] = Batch(Left(rest))]

\* upload resolved: onUploaded, and the entry's removal 1.2 seconds later.
Uploaded(b, doc, entries) ==
    /\ docs' = <<doc>> \o docs
    /\ added' = added \cup {doc.id}
    /\ timers' = timers \cup {[name |-> CurrentName(b), id |-> doc.id]}
    /\ Continue(b, entries)

\* External: the API stores the document and queues its ingestion. UploadIds bounds
\* the uploads.
UploadStored(b) ==
    LET given == Len(store) - Len(FirstStore)
        id == UploadIds[given + 1]
    IN /\ given < Len(UploadIds)
       /\ ~useDemoData
       /\ Uploading(b)
       /\ batches[b].stage = "sent"
       /\ store' = <<Doc(id, "QUEUED", 5)>> \o store
       /\ changes' = changes + 1
       /\ batches' = [batches EXCEPT ![b].stage = "stored", ![b].id = id]
       /\ UNCHANGED <<clientVars, list, docs, uploads, timers, added>>

\* The document is the one the API stored, as it was then. (Mutant: as it is now.)
UploadAnsweredLate(b) ==
    /\ Uploading(b)
    /\ batches[b].stage = "stored"
    /\ \E i \in DOMAIN store :
         store[i].id = batches[b].id /\ Uploaded(b, store[i], uploads)
    /\ UNCHANGED <<clientVars, list, store, changes>>
UploadAnswered(b) ==
    /\ Uploading(b)
    /\ batches[b].stage = "stored"
    /\ Uploaded(b, Doc(batches[b].id, "QUEUED", 5), uploads)
    /\ UNCHANGED <<clientVars, list, store, changes>>

\* A refusal, a lost connection or the timeout, before or after the document was
\* stored. (Mutant: the error is put on the entry of the next file.)
UploadFailsUnshown(b) ==
    /\ ~useDemoData
    /\ Uploading(b)
    /\ Continue(b, uploads)
    /\ UNCHANGED <<clientVars, list, docs, timers, added, store, changes>>
UploadFails(b) ==
    /\ ~useDemoData
    /\ Uploading(b)
    /\ Continue(b, WithError(uploads, CurrentName(b), "upload failed"))
    /\ UNCHANGED <<clientVars, list, docs, timers, added, store, changes>>

\* A tick of the simulated upload; the one that reaches 100 resolves it, long
\* after the demo list, which takes less than two such ticks.
UploadDemo(b) ==
    LET pct == IF batches[b].pct + 20 > 100 THEN 100 ELSE batches[b].pct + 20
        entries == WithPct(uploads, CurrentName(b), pct)
    IN /\ useDemoData
       /\ Uploading(b)
       /\ \/ /\ pct = 100
             /\ list.open = {} /\ Cardinality(added) < Len(UploadIds)
             /\ Uploaded(b, Doc(UploadIds[Cardinality(added) + 1], "QUEUED", 5), entries)
          \/ /\ pct < 100
             /\ batches' = [batches EXCEPT ![b].pct = pct]
             /\ uploads' = entries
             /\ UNCHANGED <<docs, added, timers>>
       /\ UNCHANGED <<clientVars, list, store, changes>>

\* (Mutant: the timer is never set off.)
RemoveNothing(timer) ==
    /\ FALSE
    /\ UNCHANGED vars
RemoveEntries(timer) ==
    /\ uploads' = Without(uploads, timer.name)
    /\ timers' = timers \ {timer}
    /\ UNCHANGED <<clientVars, list, docs, batches, added, store, changes>>

(***************************************************************************)
(* The ingestion behind the API                                            *)
(***************************************************************************)

\* An attempt starts, of a first or a redelivered job: its first commit says
\* PROCESSING of a document at any stage, one that has failed or is complete too.
\* The progress stays as it was. (One that starts over in PROCESSING changes nothing.)
AttemptStarts(i) ==
    /\ ~useDemoData
    /\ changes \in Starts
    /\ store[i].status # "PROCESSING"
    /\ store' = [store EXCEPT ![i].status = "PROCESSING"]
    /\ changes' = changes + 1
    /\ UNCHANGED <<clientVars, pageVars>>

\* The attempt goes on, by one stage or several, or to its outcome.
WorkerMoves(i, status) ==
    /\ ~useDemoData
    /\ isProcessing(store[i].status)
    /\ Rank(status) > Rank(store[i].status)
    /\ store' = [store EXCEPT ![i].status = status,
                              ![i].progress = IF status = "COMPLETED" THEN 100 ELSE @]
    /\ changes' = changes + 1
    /\ UNCHANGED <<clientVars, pageVars>>

(***************************************************************************)
(* The page                                                                *)
(***************************************************************************)

\* The rows of the table under the filter, and the number on each filter.
Visible(t) == LET Shown(doc) == Matches(t, doc.status) IN SelectSeq(docs, Shown)
counts == [t \in TABS |-> Len(Visible(t))]

DocumentsTable(rows) ==
    [i \in DOMAIN rows |->
       [id |-> rows[i].id, pill |-> StatusPill(rows[i].status, rows[i].progress)]]

\* What is below the dropzone and the banner.
Body(t) ==
    IF list.loading /\ docs = <<>> THEN "skeleton"
    ELSE IF Visible(t) # <<>> THEN "table"
    ELSE "empty"

Init ==
    /\ ClientInit
    /\ list = Mounted("documents")
    /\ docs = <<>> /\ uploads = <<>> /\ batches = <<>>
    /\ timers = {} /\ added = {}
    /\ store = FirstStore /\ changes = 0

ListStep ==
    \/ \E request \in list.open :
         ListRead(request) \/ ListAnswered(request) \/ ListFails(request) \/ ListDemo(request)
    \/ Retry \/ Poll \/ Tick

UploadStep ==
    \/ \E files \in Drops : handleFiles(files)
    \/ \E b \in DOMAIN batches :
         UploadStored(b) \/ UploadAnswered(b) \/ UploadFails(b) \/ UploadDemo(b)
    \/ \E timer \in timers : RemoveEntries(timer)

Next ==
    \/ ListStep
    \/ UploadStep
    \/ \E i \in DOMAIN store : AttemptStarts(i)
    \/ \E i \in DOMAIN store, status \in Reported : WorkerMoves(i, status)

\* Timers fire, uploads end and workers work. A list answer that is always
\* overtaken by the next poll never counts, so what is assumed of the network is
\* that again and again a newest request is read and answered before the next one,
\* and that it does not fail for ever.
Fairness ==
    /\ WF_vars(Poll \/ Tick)
    /\ SF_vars(\E request \in Fresh(list) : ListRead(request))
    /\ SF_vars(\E request \in Fresh(list) : ListAnswered(request) \/ ListDemo(request))
    /\ WF_vars(\E b \in DOMAIN batches : UploadAnswered(b) \/ UploadFails(b) \/ UploadDemo(b))
    /\ WF_vars(\E timer \in timers : RemoveEntries(timer))
    /\ WF_vars(\E i \in DOMAIN store, status \in Reported : WorkerMoves(i, status))

Spec == Init /\ [][Next]_vars
FairSpec == Spec /\ Fairness
=============================================================================
