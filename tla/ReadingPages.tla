----------------------------- MODULE ReadingPages -----------------------------
(*
The pages that fetch once and show: a contract (contract-detail-view.tsx), the risk
review (risk-view.tsx) and the overview (features/dashboard), over
document-service.ts and analysis-service.ts.

Left out: key terms, versions, titles, dates and pages as shown. The filter of
the risk review changes nothing else and is no state of the model.
*)
EXTENDS Navigation, FiniteSets

CONSTANTS
    Library,       \* external: for the id of each contract of the tenant its clauses
    TenantDocs,    \* external: the answer of GET /documents, the last updated first
    TenantFindings \* external: the answer of POST /contracts/risk-analysis

Levels == {"high", "medium", "low"}

\* What the API answers is about contracts of the tenant, in the terms of
\* types/index.ts.
ASSUME TenantAssumption ==
    /\ \A id \in DOMAIN Library : Library[id] \in Seq([id : STRING, section : STRING, risk : STRING])
    /\ TenantDocs \in Seq([id : DOMAIN Library, status : DocumentStatus, progress : 0..100])
    /\ TenantFindings \in
         Seq([id : STRING, severity : Levels, documentId : DOMAIN Library, status : STRING])

(***************************************************************************)
(* A contract                                                              *)
(***************************************************************************)

ContractDetailView(id) ==
    [at |-> "contract", id |-> id, hook |-> Mounted(id), selected |-> "c-8-3"]

\* get: a demo id that is unknown falls back to the first demo document.
Contract(id) ==
    IF useDemoData
    THEN [id |-> IF id \in demoIds THEN id ELSE demoDocuments[1].id, clauses |-> demoClauses]
    ELSE [id |-> id, clauses |-> Library[id]]

ContractSettles(request) ==
    \E outcome \in Results(Contract(request.arg)) :
      Becomes([view EXCEPT !.hook = Settled(view.hook, request, outcome)])

\* The button of an error banner, on each of these pages.
RetryPage(arg) ==
    /\ view.hook.error # Null
    /\ Becomes([view EXCEPT !.hook = Called(view.hook, arg)])

\* A section and its clauses, the sections in the order of a JavaScript Map: a key
\* keeps the place of its first insertion. (Mutant: the clauses met before are lost.)
AddForgetful(sections, clause) ==
    IF \E k \in DOMAIN sections : sections[k].name = clause.section
    THEN [k \in DOMAIN sections |->
            IF sections[k].name = clause.section
            THEN [sections[k] EXCEPT !.clauses = <<clause>>] ELSE sections[k]]
    ELSE Append(sections, [name |-> clause.section, clauses |-> <<clause>>])
AddToSection(sections, clause) ==
    IF \E k \in DOMAIN sections : sections[k].name = clause.section
    THEN [k \in DOMAIN sections |->
            IF sections[k].name = clause.section
            THEN [sections[k] EXCEPT !.clauses = Append(@, clause)] ELSE sections[k]]
    ELSE Append(sections, [name |-> clause.section, clauses |-> <<clause>>])
groupBySection(clauses) ==
    LET grouped[k \in 0..Len(clauses)] ==
          IF k = 0 THEN <<>> ELSE AddToSection(grouped[k - 1], clauses[k])
    IN grouped[Len(clauses)]

\* An error hides the contract, even one that was shown before.
ContractBody ==
    IF view.hook.error # Null THEN "error"
    ELSE IF view.hook.loading \/ view.hook.data = Null THEN "skeleton"
    ELSE "contract"
sections == groupBySection(view.hook.data.clauses)

\* The outline, the text and the list of flagged clauses all select a clause.
Select(clause) ==
    /\ ContractBody = "contract"
    /\ Becomes([view EXCEPT !.selected = clause.id])

Flagged == LET Risky(clause) == clause.risk # "" IN SelectSeq(view.hook.data.clauses, Risky)

(***************************************************************************)
(* The risk review                                                         *)
(***************************************************************************)

RiskView == [at |-> "risk", hook |-> Mounted("risk")]

riskFindings == IF useDemoData THEN demoRiskFindings ELSE TenantFindings

RiskSettles(request) ==
    \E outcome \in Results(riskFindings) :
      Becomes([view EXCEPT !.hook = Settled(view.hook, request, outcome)])

\* The findings of a level, by their places, and how many there are of each.
OfLevel(findings, level) ==
    {i \in DOMAIN findings : level = "all" \/ findings[i].severity = level}
tiles(findings) == [level \in Levels \cup {"all"} |-> Cardinality(OfLevel(findings, level))]
RiskBody(level) ==
    IF view.hook.loading \/ view.hook.data = Null THEN {} ELSE OfLevel(view.hook.data, level)

(***************************************************************************)
(* The overview                                                            *)
(***************************************************************************)

DashboardView == [at |-> "dashboard", hook |-> Mounted("overview")]

documentList == IF useDemoData THEN demoDocuments ELSE TenantDocs

\* Promise.all: the first failure is the failure of all.
All(outcomes) ==
    IF \A i \in DOMAIN outcomes : outcomes[i].ok
    THEN Result([i \in DOMAIN outcomes |-> outcomes[i].data])
    ELSE outcomes[CHOOSE i \in DOMAIN outcomes : ~outcomes[i].ok]

\* The key dates are those of the fixtures in both modes.
DashboardSettles(request) ==
    \E listed \in Results(documentList), found \in Results(riskFindings) :
      LET outcome == All(<<listed, found, Result(demoKeyDates)>>)
      IN Becomes([view EXCEPT !.hook = Settled(view.hook, request, outcome)])

WithStatus(docs, statuses) == {i \in DOMAIN docs : docs[i].status \in statuses}
computeKpis(docs, findings, dates) ==
    [indexed    |-> Cardinality(WithStatus(docs, {"COMPLETED"})),
     processing |-> Cardinality({i \in DOMAIN docs : isProcessing(docs[i].status)}),
     openHigh   |-> Cardinality({i \in OfLevel(findings, "high") : findings[i].status # "accepted"}),
     deadlines  |-> Cardinality({i \in DOMAIN dates : 0 <= dates[i] /\ dates[i] <= 90})]

\* The line of a contract, and where its first finding is.
Counted(findings, id) ==
    LET Count(level) == Cardinality({i \in OfLevel(findings, level) : findings[i].documentId = id})
    IN [id |-> id, high |-> Count("high"), medium |-> Count("medium"), low |-> Count("low")]
FirstFinding(findings, id) ==
    CHOOSE i \in DOMAIN findings : /\ findings[i].documentId = id
                                  /\ \A j \in 1..i - 1 : findings[j].documentId # id

\* The lines of some contracts, the most exposed first; lines of one weight stay in
\* the order of their first finding. A line has its place by how many are before it.
Weight(row) == row.high * 3 + row.medium
Before(findings, r, s) ==
    \/ Weight(r) > Weight(s)
    \/ Weight(r) = Weight(s) /\ FirstFinding(findings, r.id) < FirstFinding(findings, s.id)
Lines(findings, ids) ==
    LET rows == {Counted(findings, id) : id \in ids}
    IN [i \in 1..Cardinality(rows) |->
          CHOOSE r \in rows : Cardinality({s \in rows : Before(findings, s, r)}) = i - 1]

\* One line per contract with findings. (Mutant: with findings of the high level.)
ExposureOfHigh(findings) ==
    Lines(findings, {findings[i].documentId : i \in OfLevel(findings, "high")})
RiskExposure(findings) ==
    Lines(findings, {findings[i].documentId : i \in DOMAIN findings})

\* The five documents that changed last, each with its stepper; a failure is drawn
\* at the parsing step whatever stage failed.
ProcessingQueue(docs) ==
    LET Recent(i) == docs[IF useDemoData THEN demoUpdates[i] ELSE i]
    IN [i \in 1..(IF Len(docs) < 5 THEN Len(docs) ELSE 5) |->
          [id |-> Recent(i).id, steps |-> PipelineStepper(Recent(i).status, "PROCESSING")]]
DashboardBody ==
    IF view.hook.loading \/ view.hook.data = Null THEN "skeleton" ELSE "overview"

\* A key date is urgent for two weeks, and "today" when it has passed.
KeyDates(dates) ==
    [i \in DOMAIN dates |-> [urgent |-> dates[i] <= 14, today |-> dates[i] <= 0]]

ReadingNext ==
    \/ /\ view.at = "contract"
       /\ \/ RetryPage(view.id)
          \/ \E request \in view.hook.open : ContractSettles(request)
          \/ view.hook.data # Null /\ \E clause \in ToSet(view.hook.data.clauses) : Select(clause)
    \/ /\ view.at = "risk"
       /\ RetryPage("risk") \/ \E request \in view.hook.open : RiskSettles(request)
    \/ /\ view.at = "dashboard"
       /\ RetryPage("overview") \/ \E request \in view.hook.open : DashboardSettles(request)

(***************************************************************************)
(* What these pages keep                                                   *)
(***************************************************************************)

\* The clauses of a section, in the contract's order.
ClausesIn(clauses, section) ==
    LET here[k \in 0..Len(clauses)] ==
          IF k = 0 THEN <<>>
          ELSE IF clauses[k].section = section THEN Append(here[k - 1], clauses[k])
          ELSE here[k - 1]
    IN here[Len(clauses)]

\* An outline has each clause once, in the contract's order within its section, and
\* each section once, even if the contract returns to it.
IsOutline(outline, clauses) ==
    /\ \A k \in DOMAIN outline :
         /\ outline[k].clauses = ClausesIn(clauses, outline[k].name)
         /\ outline[k].clauses # <<>>
    /\ \A k, l \in DOMAIN outline : outline[k].name = outline[l].name => k = l
    /\ {clauses[i].section : i \in DOMAIN clauses} = {outline[k].name : k \in DOMAIN outline}

\* The outline beside a contract is one of the clauses that are shown.
OutlineKeepsClauses ==
    view.at = "contract" /\ ContractBody = "contract" => IsOutline(sections, view.hook.data.clauses)

\* What the lines of the exposure card count together.
Exposed(rows) ==
    LET sum[k \in 0..Len(rows)] ==
          IF k = 0 THEN 0 ELSE sum[k - 1] + rows[k].high + rows[k].medium + rows[k].low
    IN sum[Len(rows)]

\* The lines of the exposure card, the most exposed first, add up to the findings.
IsExposure(rows, findings) ==
    /\ Exposed(rows) = tiles(findings)["all"]
    /\ \A i \in 1..Len(rows) - 1 : Weight(rows[i]) >= Weight(rows[i + 1])

\* The overview accounts for everything it was given: the cards and the filters of
\* the contracts page agree on the documents, the exposure card and the risk review
\* on the findings, and a stepper marks exactly one step unless all are done.
OverviewAddsUp ==
    view.at = "dashboard" /\ view.hook.data # Null =>
      LET docs == view.hook.data[1]
          findings == view.hook.data[2]
          kpis == computeKpis(docs, findings, view.hook.data[3])
          queue == ProcessingQueue(docs)
          Marked(steps) == {i \in DOMAIN steps : steps[i] \in {"active", "failed"}}
      IN /\ kpis.indexed + kpis.processing + Cardinality(WithStatus(docs, {"FAILED"})) = Len(docs)
         /\ IsExposure(RiskExposure(findings), findings)
         /\ \A i \in DOMAIN queue :
              Cardinality(Marked(queue[i].steps)) = IF queue[i].steps[7] = "done" THEN 0 ELSE 1
=============================================================================
