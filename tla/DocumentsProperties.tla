-------------------------- MODULE DocumentsProperties --------------------------
(* What the contracts page of Documents keeps, and what it gets done. *)
EXTENDS Documents

Ids == ToSet(UploadIds) \cup ids(FirstStore) \cup demoIds
DocType == [id : Ids, status : DocumentStatus, progress : 0..100]
Names == UNION {{file.name : file \in ToSet(files)} : files \in Drops}

\* The types of the page's state; an entry's error is a verdict of validation, an
\* upload's failure or none.
TypeOK ==
    /\ list.error \in ErrorCodes \cup {Null} /\ list.loading \in BOOLEAN
    /\ \A value \in {list.data} \cup {request.read : request \in list.open} :
         value # Null => value.at \in 0..changes /\ ToSet(value.documents) \subseteq DocType
    /\ ToSet(docs) \subseteq DocType /\ ToSet(store) \subseteq DocType
    /\ Len(uploads) <= 4
    /\ \A i \in DOMAIN uploads :
         /\ uploads[i].name \in Names /\ uploads[i].pct \in 0..100
         /\ uploads[i].error \in {"", "not a PDF", "empty", "too large", "upload failed"}
    /\ \A b \in DOMAIN batches : batches[b].pct \in 0..99 /\ batches[b].stage \in {"sent", "stored"}
    /\ timers \subseteq [name : Names, id : ToSet(UploadIds)]
    /\ added \subseteq ToSet(UploadIds)

\* The page loads exactly while its newest list request is out, whatever order
\* polls, retries and answers come in.
ListSpins == LoadingIsAwaiting(list)

\* Entries are found by file name, and one upload's error and removal reach all
\* entries of that name. Still a progress bar always belongs to an upload that is
\* running or to a removal that is due; none is left behind.
EveryBarIsMoving ==
    \A i \in DOMAIN uploads :
      uploads[i].error = "" =>
        \/ \E b \in DOMAIN batches : Uploading(b) /\ CurrentName(b) = uploads[i].name
        \/ \E timer \in timers : timer.name = uploads[i].name

\* A document polled before its upload is answered is listed twice, with one key.
\* The copy the upload brought is in flight, so a poll is due that replaces both.
DuplicateIsTransient ==
    \A i, j \in DOMAIN docs : i # j /\ docs[i].id = docs[j].id => inFlight

\* The simulated pipeline moves the status at every third tick and the progress at
\* each; the two run out together for each demo document and each upload.
CompletedIsFull ==
    useDemoData =>
      \A i \in DOMAIN docs : docs[i].status = "COMPLETED" => docs[i].progress = 100

\* Answers replace each other in the order in which the server read them, although
\* polls and retries are answered in any order: the list never goes back to what the
\* store was before the list it shows. What the store itself takes back, at each new
\* attempt, the list then takes back too.
AnswersInReadOrder ==
    [][list.data # Null => list'.data.at >= list.data.at]_vars

Listing(id) == \E i \in DOMAIN docs : docs[i].id = id

\* No row of the table shows a progress bar for ever: the interval goes on until the
\* page shows the outcome of every document it lists, and then it stops.
Moving(row) == row.pill.bar > 0
DocumentsSettle ==
    SelectSeq(DocumentsTable(Visible("all")), Moving) # <<>>
      ~> SelectSeq(DocumentsTable(Visible("all")), Moving) = <<>>

\* An answer older than an upload drops the uploaded document from the page. While
\* the page still polls for another document it comes back.
LostUploadReturns ==
    \A id \in ToSet(UploadIds) :
      (id \in added /\ ~Listing(id) /\ inFlight) ~> Listing(id)

\* Every progress bar goes, or shows why its upload failed.
UploadsEnd ==
    \A name \in Names :
      (\E i \in DOMAIN uploads : uploads[i].name = name /\ uploads[i].error = "")
        ~> ~(\E i \in DOMAIN uploads : uploads[i].name = name /\ uploads[i].error = "")
=============================================================================
