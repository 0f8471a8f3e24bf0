------------------------------ MODULE Contracts ------------------------------
(*
The values the frontend works on: document statuses and what is derived from
them (types/index.ts, utils/format.ts), client-side validation
(utils/validation.ts) and the demo fixtures (lib/demo/fixtures.ts), reduced to
the fields some view tells apart. Titles, texts and dates of display are left
out; sizes are in units of the upload limit's quarter.
*)
EXTENDS Integers, Sequences, SequencesExt

DOCUMENT_STATUSES ==
    <<"UPLOADED", "QUEUED", "PROCESSING", "OCR_PROCESSING", "CHUNKING",
      "EMBEDDING", "INDEXING", "COMPLETED", "FAILED">>
DocumentStatus == ToSet(DOCUMENT_STATUSES)

isProcessing(status) == status \notin {"COMPLETED", "FAILED"}

\* How far a status is along the pipeline; the two outcomes come last.
Rank(status) ==
    IF isProcessing(status)
    THEN CHOOSE i \in 1..7 : DOCUMENT_STATUSES[i] = status
    ELSE 8

\* The demo pipeline's next status.
NEXT(status) == DOCUMENT_STATUSES[Rank(status) + 1]

\* The filters of the documents view.
TABS == {"all", "processing", "ready", "failed"}
Matches(tab, status) ==
    CASE tab = "all"        -> TRUE
      [] tab = "processing" -> isProcessing(status)
      [] tab = "ready"      -> status = "COMPLETED"
      [] tab = "failed"     -> status = "FAILED"

\* The percentage a status pill shows, with a bar never thinner than 4; none for
\* a document that is ready or has failed.
StatusPill(status, progress) ==
    IF isProcessing(status)
    THEN [label |-> status, percent |-> progress, bar |-> IF progress < 4 THEN 4 ELSE progress]
    ELSE [label |-> status, percent |-> -1, bar |-> 0]

\* What each of the seven steps of the stepper looks like. A failed document is
\* shown as failed at the step its caller names.
STEPS == SubSeq(DOCUMENT_STATUSES, 2, 8)
PipelineStepper(status, failedAt) ==
    LET current == CASE status = "FAILED"   -> failedAt
                     [] status = "UPLOADED" -> "QUEUED"
                     [] OTHER               -> status
        index == CHOOSE i \in 1..7 : STEPS[i] = current
    IN [i \in 1..7 |->
          CASE i < index \/ status = "COMPLETED" -> "done"
            [] i = index /\ status # "COMPLETED" ->
                 IF status = "FAILED" THEN "failed" ELSE "active"
            [] OTHER                             -> "todo"]

(***************************************************************************)
(* Validation                                                              *)
(***************************************************************************)

MaxUpload == 4
\* A file is its name, whether that ends in .pdf, the type the browser reports
\* ("" if none) and its size. The verdict is the reason to refuse it, or "".
validateContractFile(file) ==
    CASE ~file.pdf \/ file.type \notin {"", "application/pdf"} -> "not a PDF"
      [] file.size = 0                                         -> "empty"
      [] file.size > MaxUpload                                 -> "too large"
      [] OTHER                                                 -> ""

MaxQueryLength == 2000
\* A question is what remains after trim(), given by its length.
validateQuestion(length) ==
    CASE length < 3              -> "too short"
      [] length > MaxQueryLength -> "too long"
      [] OTHER                   -> ""

(***************************************************************************)
(* Demo fixtures                                                           *)
(***************************************************************************)

Doc(id, status, progress) == [id |-> id, status |-> status, progress |-> progress]

demoDocuments ==
    <<Doc("d-100", "COMPLETED", 100), Doc("d-101", "EMBEDDING", 72),
      Doc("d-102", "OCR_PROCESSING", 38), Doc("d-103", "COMPLETED", 100),
      Doc("d-104", "COMPLETED", 100), Doc("d-105", "COMPLETED", 100),
      Doc("d-106", "FAILED", 25), Doc("d-107", "QUEUED", 5)>>
\* Their places in this list, the one that was updated last first.
demoUpdates == <<8, 2, 3, 7, 1, 4, 5, 6>>
demoIds == {doc.id : doc \in ToSet(demoDocuments)}

\* The versions of each demo document, oldest first; an only version has the name
\* of its document here.
demoVersions ==
    [id \in demoIds |->
       CASE id = "d-100" -> <<"v-100-1", "v-100-2">>
         [] id = "d-104" -> <<"v-104-1", "v-104-2", "v-104-3">>
         [] OTHER        -> <<id>>]

Clause(id, section, risk) == [id |-> id, section |-> section, risk |-> risk]
demoClauses ==
    <<Clause("c-3-1", "Term", ""), Clause("c-3-2", "Term", "medium"),
      Clause("c-6-1", "Fees and Payment", ""), Clause("c-8-1", "Termination", ""),
      Clause("c-8-2", "Termination", ""), Clause("c-8-3", "Termination", "medium"),
      Clause("c-11-1", "Limitation of Liability", ""),
      Clause("c-11-2", "Limitation of Liability", "high"),
      Clause("c-12-1", "Indemnities", "high"), Clause("c-17-1", "General", "")>>

Finding(id, severity, document, status) ==
    [id |-> id, severity |-> severity, documentId |-> document, status |-> status]
demoRiskFindings ==
    <<Finding("r1", "high", "d-100", "open"), Finding("r2", "high", "d-100", "reviewing"),
      Finding("r3", "high", "d-104", "open"), Finding("r4", "medium", "d-100", "open"),
      Finding("r5", "medium", "d-103", "accepted"), Finding("r6", "medium", "d-104", "open"),
      Finding("r7", "low", "d-100", "accepted")>>

\* Days from 25 September 2026, when the fixtures are set, to each key date.
demoKeyDates == <<7, 66, 67, 97, 156>>

\* Aligned clauses of two versions; a text is its sequence of words.
Row(diff, left, right) == [diff |-> diff, left |-> left, right |-> right]
demoComparison ==
    <<Row("changed", <<"not less than", "thirty (30)", "days">>, <<"not less than", "sixty (60)", "days">>),
      Row("changed", <<"the greater of", "5 crore", "or the fees">>, <<"the fees">>),
      Row("changed", <<"within", "thirty (30)", "days">>, <<"within", "forty-five (45)", "days">>),
      Row("same", <<"automatically renew">>, <<"automatically renew">>),
      Row("missing", <<>>, <<"The Customer shall indemnify">>),
      Row("same", <<"governed by">>, <<"governed by">>)>>

\* The nodes of the agent graph, shown as the live steps of a question.
demoAgentSteps ==
    <<"understand", "select", "retrieve", "rerank", "extract", "validate", "answer">>

\* An answer cites sources by index; its text marks some of them.
demoAnswer == [citations |-> <<1, 2, 3>>, marks |-> {1, 2, 3}]
=============================================================================
