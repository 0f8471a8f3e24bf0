---------------------------- MODULE WorkspaceProofs ----------------------------
(*
The workspace, whichever page is open: what its pages keep by themselves survives
the links between them, and every page a link opens starts in a good state. The
invariant names the shape and the strengthening of each page; those of the compare
page come first, those of the assistant are in a module of their own.
*)
EXTENDS Workspace, AssistantProofs, ContentProofs

(***************************************************************************)
(* The compare page                                                        *)
(***************************************************************************)

\* What the newest call was made for is the pair that is selected.

CompareInv ==
    /\ view = [at |-> "compare", docId |-> view.docId, left |-> view.left,
               right |-> view.right, hook |-> view.hook]
    /\ IsHook(view.hook)
    /\ LoadingIsAwaiting(view.hook)
    /\ \A r \in Fresh(view.hook) : r.arg = <<view.left, view.right>>
    /\ MismatchIsFlagged

LEMMA CompareMounted == view = CompareView => CompareInv
<1> SUFFICES ASSUME view = CompareView
             PROVE  CompareInv
  OBVIOUS
<1> DEFINE pair == Pair("d-100")
           h == Mounted(<<pair[1], pair[2]>>)
<1>1. view = [at |-> "compare", docId |-> "d-100", left |-> pair[1], right |-> pair[2],
              hook |-> Mounted(pair)]
  BY DEF CompareView
<1>2. pair = <<pair[1], pair[2]>>
  BY DEF Pair
<1>3. /\ IsHook(Mounted(pair)) /\ LoadingIsAwaiting(Mounted(pair))
      /\ \A r \in Fresh(Mounted(pair)) : r.arg = pair
  BY MountedHook
<1>4. Mounted(pair).loading = TRUE
  BY DEF Mounted
<1> HIDE DEF pair
<1>5. QED
  BY <1>1, <1>2, <1>3, <1>4 DEF CompareInv, MismatchIsFlagged

\* A choice of versions, and the retry button.
LEMMA SelectedPage ==
    ASSUME CompareInv, NEW docId, NEW left, NEW right, Selected(docId, left, right)
    PROVE  view' = [at |-> "compare", docId |-> docId, left |-> left, right |-> right,
                    hook |-> Called(view.hook, <<left, right>>)]
<1> DEFINE h == Called(view.hook, <<left, right>>)
<1>1. view' = [view EXCEPT !.docId = docId, !.left = left, !.right = right, !.hook = h]
  BY DEF Selected, Becomes
<1>2. PICK i, l, r, k :
        view = [at |-> "compare", docId |-> i, left |-> l, right |-> r, hook |-> k]
  BY DEF CompareInv
<1> HIDE DEF h
<1>3. view' = [at |-> "compare", docId |-> docId, left |-> left, right |-> right, hook |-> h]
  BY <1>1, <1>2
<1>4. QED
  BY <1>3 DEF h

LEMMA CompareSelected ==
    ASSUME CompareInv, NEW docId, NEW left, NEW right, Selected(docId, left, right)
    PROVE  CompareInv'
<1> DEFINE h == Called(view.hook, <<left, right>>)
<1>1. view' = [at |-> "compare", docId |-> docId, left |-> left, right |-> right, hook |-> h]
  BY SelectedPage
<1>2. /\ IsHook(h) /\ LoadingIsAwaiting(h) /\ h.loading
      /\ Fresh(h) = {Request(<<left, right>>)}
  BY CalledHook DEF CompareInv
<1>3. Request(<<left, right>>).arg = <<left, right>>
  BY DEF Request
<1> HIDE DEF h
<1>4. QED
  BY <1>1, <1>2, <1>3 DEF CompareInv, MismatchIsFlagged

\* The answer to the newest call brings the rows of the pair that is selected, or
\* an error; any other answer changes nothing that is shown.
LEMMA CompareAnswered ==
    ASSUME CompareInv, NEW request \in view.hook.open, CompareSettles(request)
    PROVE  CompareInv'
<1> PICK outcome \in Results(Comparison(request.arg)) :
      Becomes([view EXCEPT !.hook = Settled(view.hook, request, outcome)])
  BY DEF CompareSettles
<1> DEFINE h == Settled(view.hook, request, outcome)
<1>1. view' = [at |-> "compare", docId |-> view.docId, left |-> view.left,
               right |-> view.right, hook |-> h]
  BY DEF CompareInv, Becomes
<1>2. IsHook(h) /\ LoadingIsAwaiting(h) /\ Fresh(h) \subseteq Fresh(view.hook)
  BY SettledHook DEF CompareInv
<1>3. ~h.loading /\ h.error = Null => h.data.pair = <<view.left, view.right>>
  <2>1. CASE request.stale
    <3>1. h.data = view.hook.data /\ h.error = view.hook.error /\ h.loading = view.hook.loading
      BY <2>1 DEF Settled, Closed, CompareInv, IsHook
    <3>2. view.at = "compare"
      BY DEF CompareInv
    <3>3. QED
      BY <3>1, <3>2 DEF CompareInv, MismatchIsFlagged
  <2>2. CASE ~request.stale
    <3>1. request.arg = <<view.left, view.right>>
      BY <2>2 DEF CompareInv, Fresh
    <3>2. CASE outcome = Result(Comparison(request.arg))
      <4>1. outcome.ok /\ outcome.data.pair = request.arg
        BY <3>2 DEF Result, Comparison
      <4>2. h.data = outcome.data
        BY <2>2, <4>1 DEF Settled, Closed, CompareInv, IsHook
      <4>3. QED
        BY <3>1, <4>1, <4>2
    <3>3. CASE outcome = ApiError("TIMEOUT")
      <4>1. ~outcome.ok /\ outcome.code = "TIMEOUT"
        BY <3>3 DEF ApiError
      <4>2. h.error = "TIMEOUT"
        BY <2>2, <4>1 DEF Settled, Closed, CompareInv, IsHook
      <4>3. QED
        BY <4>2, NullAssumption DEF ErrorCodes
    <3>4. QED
      BY <3>2, <3>3 DEF Results
  <2>3. QED
    BY <2>1, <2>2
<1> HIDE DEF h
<1>4. /\ view'.at = "compare" /\ view'.hook = h /\ view'.docId = view.docId
      /\ view'.left = view.left /\ view'.right = view.right
  BY <1>1
<1>5. \A r \in Fresh(h) : r.arg = <<view.left, view.right>>
  BY <1>2 DEF CompareInv
<1>6. QED
  BY <1>1, <1>2, <1>3, <1>4, <1>5 DEF CompareInv, MismatchIsFlagged

LEMMA CompareInvStep ==
    ASSUME CompareInv, [CompareNext]_<<clientVars, view>>
    PROVE  CompareInv'
<1>1. ASSUME NEW id, SelectDocument(id)
      PROVE  CompareInv'
  BY <1>1, CompareSelected DEF SelectDocument
<1>2. ASSUME NEW v, SelectLeft(v) \/ SelectRight(v)
      PROVE  CompareInv'
  BY <1>2, CompareSelected DEF SelectLeft, SelectRight
<1>3. CASE RetryCompare
  BY <1>3, CompareSelected DEF RetryCompare
<1>4. ASSUME NEW request \in view.hook.open, CompareSettles(request)
      PROVE  CompareInv'
  BY <1>4, CompareAnswered
<1>5. CASE UNCHANGED <<clientVars, view>>
  BY <1>5 DEF CompareInv, MismatchIsFlagged
<1>6. QED
  BY <1>1, <1>2, <1>3, <1>4, <1>5 DEF CompareNext

\* Rows drawn under the labels of two versions are the comparison of these two,
\* unless the error banner says that the newest request has failed.
THEOREM RowsMatchLabels == CompareSpec => []MismatchIsFlagged
<1>1. CompareInv => MismatchIsFlagged
  BY DEF CompareInv
<1>2. QED
  BY CompareMounted, CompareInvStep, <1>1, PTL DEF CompareSpec, CompareInit

(***************************************************************************)
(* Hooks of any page                                                       *)
(***************************************************************************)

GoodHook(h) == IsHook(h) /\ LoadingIsAwaiting(h) /\ h.error \in ErrorCodes \cup {Null}

LEMMA GoodMounted ==
    ASSUME NEW arg
    PROVE  GoodHook(Mounted(arg))
<1>1. Mounted(arg).error = Null
  BY DEF Mounted
<1>2. QED
  BY <1>1, MountedHook DEF GoodHook

LEMMA GoodCalled ==
    ASSUME NEW h, GoodHook(h), NEW arg
    PROVE  GoodHook(Called(h, arg))
BY CalledHook, HookWrites DEF GoodHook

LEMMA GoodRead ==
    ASSUME NEW h, GoodHook(h), NEW r \in h.open, ~r.stale, NEW data
    PROVE  GoodHook(HasRead(h, r, data))
BY HasReadHook, HookWrites DEF GoodHook

\* An outcome is a result or an error with one of the codes.
LEMMA GoodSettled ==
    ASSUME NEW h, GoodHook(h), NEW r \in h.open, NEW outcome,
           outcome.ok \/ (~outcome.ok /\ outcome.code \in ErrorCodes)
    PROVE  GoodHook(Settled(h, r, outcome))
<1>1. IsHook(h) /\ LoadingIsAwaiting(h) /\ h.error \in ErrorCodes \cup {Null} /\ IsRequest(r)
  BY DEF GoodHook, IsHook
<1>2. IsHook(Settled(h, r, outcome)) /\ LoadingIsAwaiting(Settled(h, r, outcome))
  BY <1>1, SettledHook
<1>3. Settled(h, r, outcome).error \in {h.error, Null, outcome.code}
      /\ (Settled(h, r, outcome).error = outcome.code /\ outcome.ok
            => Settled(h, r, outcome).error \in {h.error, Null})
  BY <1>1, HookWrites
<1>4. Settled(h, r, outcome).error \in ErrorCodes \cup {Null}
  BY <1>1, <1>3
<1>5. QED
  BY <1>2, <1>4 DEF GoodHook

LEMMA OutcomeOfResult ==
    ASSUME NEW data, NEW outcome \in Results(data)
    PROVE  outcome.ok \/ (~outcome.ok /\ outcome.code \in ErrorCodes)
BY DEF Results, Result, ApiError, ErrorCodes

\* Of several calls together the first failure counts.
LEMMA OutcomeOfAll ==
    ASSUME NEW outcomes, \A i \in DOMAIN outcomes :
             outcomes[i].ok \/ (~outcomes[i].ok /\ outcomes[i].code \in ErrorCodes)
    PROVE  All(outcomes).ok \/ (~All(outcomes).ok /\ All(outcomes).code \in ErrorCodes)
<1>1. CASE \A i \in DOMAIN outcomes : outcomes[i].ok
  BY <1>1 DEF All, Result
<1>2. CASE \E i \in DOMAIN outcomes : ~outcomes[i].ok
  <2> DEFINE i == CHOOSE i \in DOMAIN outcomes : ~outcomes[i].ok
  <2>1. i \in DOMAIN outcomes /\ ~outcomes[i].ok
    BY <1>2
  <2>2. All(outcomes) = outcomes[i]
    BY <1>2 DEF All
  <2> HIDE DEF i
  <2>3. QED
    BY <2>1, <2>2
<1>3. QED
  BY <1>1, <1>2

\* What apiRequest makes of the bodies the system page meets.
LEMMA OutcomeOfProbe ==
    /\ apiRequest("replied", Delivered([service |-> "up"]), FALSE).ok
    /\ \A report : report # Null => apiRequest("replied", ReadyBody(report), TRUE).ok
    /\ \A accept \in BOOLEAN :
         LET outcome == apiRequest("aborted", NotAnEnvelope, accept)
         IN ~outcome.ok /\ outcome.code \in ErrorCodes
<1>1. apiRequest("replied", Delivered([service |-> "up"]), FALSE).ok
  BY DEF apiRequest, parseEnvelope, Delivered, Envelope, Result
<1>2. ASSUME NEW report, report # Null
      PROVE  apiRequest("replied", ReadyBody(report), TRUE).ok
  <2> DEFINE success == report.status # "not_ready"
             body == Envelope(success, report, Null)
  <2>1. body.envelope /\ body.data = report
    BY DEF Envelope
  <2>2. apiRequest("replied", body, TRUE) = parseEnvelope(body, TRUE)
    BY DEF apiRequest
  <2> HIDE DEF body
  <2>3. parseEnvelope(body, TRUE).ok
    BY <1>2, <2>1 DEF parseEnvelope, Result
  <2>4. QED
    BY <2>2, <2>3 DEF ReadyBody, body
<1>3. ASSUME NEW accept \in BOOLEAN
      PROVE  LET outcome == apiRequest("aborted", NotAnEnvelope, accept)
             IN ~outcome.ok /\ outcome.code \in ErrorCodes
  BY DEF apiRequest, ApiError, ErrorCodes
<1>4. QED
  BY <1>1, <1>2, <1>3

(***************************************************************************)
(* The pages                                                               *)
(***************************************************************************)

OnLogin(v) == v = [at |-> "login", loading |-> v.loading, error |-> v.error]
OnDocuments(v) == v = [at |-> "documents"]
OnContract(v) ==
    /\ v = [at |-> "contract", id |-> v.id, hook |-> v.hook, selected |-> v.selected]
    /\ GoodHook(v.hook)
OnReview(v) ==
    /\ \E page \in {"risk", "dashboard"} : v = [at |-> page, hook |-> v.hook]
    /\ GoodHook(v.hook)
OnSystem(v) ==
    /\ v = [at |-> "system", live |-> v.live, ready |-> v.ready]
    /\ GoodHook(v.live) /\ GoodHook(v.ready)

\* On the compare page the pair is, besides, one of the selected contract.
OnCompare ==
    /\ CompareInv
    /\ view.hook.error \in ErrorCodes \cup {Null}
    /\ view.docId \in demoIds
    /\ PairOfOneContract

\* The assistant's bounds; the question of a link is asked before any other.
Bounded(v) ==
    /\ Len(v.turns) <= MaxTurns
    /\ v.focusTurn \in 1..MaxTurns
    /\ v.active \in 1..3 \cup {Null}
    /\ \A ask \in v.asks : ask.step \in 0..AgentSteps
    /\ v.q = Null \/ v.asked \/ v.turns = <<>>
OnAssistant == AssistantInv /\ Bounded(view)

PageInv ==
    \/ OnLogin(view) \/ OnDocuments(view) \/ OnContract(view) \/ OnReview(view)
    \/ OnSystem(view) \/ OnCompare \/ OnAssistant

WorkspaceInv ==
    /\ useDemoData \in BOOLEAN /\ accessToken \in {Null, Token}
    /\ stack \in Stacks \cup {Null} /\ (stack = Null <=> view.at # "system")
    /\ PageInv

\* The page an invariant is about.
LEMMA WhichPage ==
    ASSUME PageInv
    PROVE  /\ view.at = "login" <=> OnLogin(view)
           /\ view.at = "documents" <=> OnDocuments(view)
           /\ view.at = "contract" <=> OnContract(view)
           /\ view.at \in {"risk", "dashboard"} <=> OnReview(view)
           /\ view.at = "system" <=> OnSystem(view)
           /\ view.at = "compare" <=> OnCompare
           /\ view.at = "assistant" <=> OnAssistant
<1>1. /\ OnLogin(view) => view.at = "login"
      /\ OnDocuments(view) => view.at = "documents"
      /\ OnContract(view) => view.at = "contract"
      /\ OnReview(view) => view.at \in {"risk", "dashboard"}
      /\ OnSystem(view) => view.at = "system"
  <2>1. OnLogin(view) => view.at = "login"
    BY DEF OnLogin
  <2>2. OnDocuments(view) => view.at = "documents"
    BY DEF OnDocuments
  <2>3. OnContract(view) => view.at = "contract"
    BY DEF OnContract
  <2>4. OnReview(view) => view.at \in {"risk", "dashboard"}
    BY DEF OnReview
  <2>5. OnSystem(view) => view.at = "system"
    BY DEF OnSystem
  <2>6. QED
    BY <2>1, <2>2, <2>3, <2>4, <2>5
<1>2. OnCompare => view.at = "compare"
  BY DEF OnCompare, CompareInv
<1>3. OnAssistant => view.at = "assistant"
  BY DEF OnAssistant, AssistantInv, IsAssistant, Page
<1>4. QED
  BY <1>1, <1>2, <1>3 DEF PageInv

\* A page that was opened just now, by a link or an address.
Opened(page) ==
    \/ page \in {LoginForm, DashboardView, [at |-> "documents"], CompareView, RiskView, SystemView}
    \/ \E q \in Questions \cup {Null} : \E doc : page = AssistantView(q, doc)
    \/ \E id : page = ContractDetailView(id)

LEMMA VersionsOfDemo ==
    /\ "d-100" \in demoIds
    /\ \A id \in demoIds : demoVersions[id] # <<>>
         /\ Pair(id)[1] \in ToSet(demoVersions[id]) /\ Pair(id)[2] \in ToSet(demoVersions[id])
<1>1. "d-100" \in demoIds
  <2>1. demoDocuments[1] \in ToSet(demoDocuments) /\ demoDocuments[1].id = "d-100"
    BY DEF demoDocuments, Doc, ToSet
  <2>2. QED
    BY <2>1, Zenon DEF demoIds
<1>2. ASSUME NEW id \in demoIds
      PROVE  /\ demoVersions[id] # <<>>
             /\ Pair(id)[1] \in ToSet(demoVersions[id]) /\ Pair(id)[2] \in ToSet(demoVersions[id])
  <2> DEFINE names == demoVersions[id]
  <2>1. names = CASE id = "d-100" -> <<"v-100-1", "v-100-2">>
                  [] id = "d-104" -> <<"v-104-1", "v-104-2", "v-104-3">>
                  [] OTHER        -> <<id>>
    BY DEF demoVersions
  <2> HIDE DEF names
  <2>2. 1 \in DOMAIN names /\ Len(names) \in DOMAIN names
    <3>1. CASE id = "d-100"
      BY <2>1, <3>1
    <3>2. CASE id = "d-104"
      BY <2>1, <3>2
    <3>3. CASE id \notin {"d-100", "d-104"}
      <4>1. names = <<id>>
        BY <2>1, <3>3
      <4>2. QED
        BY <4>1
    <3>4. QED
      BY <3>1, <3>2, <3>3
  <2>3. names[1] \in ToSet(names) /\ names[Len(names)] \in ToSet(names) /\ names # <<>>
    BY <2>2 DEF ToSet
  <2>4. Pair(id)[1] = names[1] /\ Pair(id)[2] = names[Len(names)]
    BY DEF Pair, Last, names
  <2>5. QED
    BY <2>3, <2>4 DEF names
<1>3. QED
  BY <1>1, <1>2

\* A hook of a page that was opened has its first call out.
LEMMA MountedPages ==
    /\ OnReview(DashboardView) /\ OnReview(RiskView) /\ OnSystem(SystemView)
    /\ \A id : OnContract(ContractDetailView(id))
<1>1. ASSUME NEW page \in {"risk", "dashboard"}, NEW arg
      PROVE  OnReview([at |-> page, hook |-> Mounted(arg)])
  BY GoodMounted DEF OnReview
<1>2. OnSystem(SystemView)
  <2> DEFINE live == Mounted("health")
             ready == Mounted("ready")
  <2>1. GoodHook(live) /\ GoodHook(ready)
    BY GoodMounted
  <2>2. SystemView = [at |-> "system", live |-> live, ready |-> ready]
    BY DEF SystemView
  <2> HIDE DEF live, ready
  <2>3. SystemView.live = live /\ SystemView.ready = ready
    BY <2>2
  <2>4. QED
    BY <2>1, <2>2, <2>3 DEF OnSystem
<1>3. ASSUME NEW id
      PROVE  OnContract(ContractDetailView(id))
  <2> DEFINE hook == Mounted(id)
             v == ContractDetailView(id)
  <2>1. GoodHook(hook)
    BY GoodMounted
  <2>2. v = [at |-> "contract", id |-> id, hook |-> hook, selected |-> "c-8-3"]
    BY DEF ContractDetailView
  <2> HIDE DEF hook, v
  <2>3. v.id = id /\ v.hook = hook /\ v.selected = "c-8-3"
    BY <2>2
  <2>4. OnContract(v)
    BY <2>1, <2>2, <2>3 DEF OnContract
  <2>5. QED
    BY <2>4 DEF v
<1>4. QED
  BY <1>1, <1>2, <1>3 DEF DashboardView, RiskView

LEMMA CompareOpened == view = CompareView => OnCompare
<1> SUFFICES ASSUME view = CompareView
             PROVE  OnCompare
  OBVIOUS
<1>1. CompareInv
  BY CompareMounted
<1>2. view.docId = "d-100" /\ view.left = Pair("d-100")[1] /\ view.right = Pair("d-100")[2]
      /\ view.hook.error = Null
  BY DEF CompareView, Mounted
<1>3. QED
  BY <1>1, <1>2, VersionsOfDemo DEF OnCompare, PairOfOneContract

LEMMA AssistantOpened ==
    ASSUME NEW q \in Questions \cup {Null}, NEW doc, view = AssistantView(q, doc)
    PROVE  OnAssistant
<1>1. AssistantInv
  BY AssistantMounted
<1>2. view.turns = <<>> /\ view.asks = {} /\ view.focusTurn = 1 /\ view.active = Null
  BY DEF AssistantView
<1>3. Len(<<>>) = 0
  OBVIOUS
<1>4. Bounded(view)
  BY <1>2, <1>3, AssistantAssumption DEF Bounded
<1>5. QED
  BY <1>1, <1>4 DEF OnAssistant

\* Every page starts well.
LEMMA OpenedWell == Opened(view) => PageInv
<1> SUFFICES ASSUME Opened(view)
             PROVE  PageInv
  OBVIOUS
<1>1. CASE view = LoginForm
  BY <1>1 DEF LoginForm, OnLogin, PageInv
<1>2. CASE view = [at |-> "documents"]
  BY <1>2 DEF OnDocuments, PageInv
<1>3. CASE view \in {DashboardView, RiskView, SystemView} \/ \E id : view = ContractDetailView(id)
  BY <1>3, MountedPages DEF PageInv
<1>4. CASE view = CompareView
  BY <1>4, CompareOpened DEF PageInv
<1>5. CASE \E q \in Questions \cup {Null} : \E doc : view = AssistantView(q, doc)
  BY <1>5, AssistantOpened DEF PageInv
<1>6. QED
  BY <1>1, <1>2, <1>3, <1>4, <1>5 DEF Opened

LEMMA OpensWell == Opened(view)' => PageInv'
BY OpenedWell, PTL

(***************************************************************************)
(* A step of the open page                                                 *)
(***************************************************************************)

LEMMA LoginStep ==
    ASSUME OnLogin(view), LoginNext
    PROVE  PageInv' /\ (view'.at = "login" \/ view'.at = "dashboard")
<1>1. CASE SignIn \/ SignInFails
  <2>1. \E l, e : view' = [at |-> "login", loading |-> l, error |-> e]
    <3>1. PICK l, e : view = [at |-> "login", loading |-> l, error |-> e]
      BY DEF OnLogin
    <3>2. view' \in {[view EXCEPT !.loading = TRUE, !.error = Null],
                     [view EXCEPT !.loading = FALSE, !.error = "SERVER_ERROR"]}
      BY <1>1 DEF SignIn, SignInFails, Becomes
    <3>3. QED
      BY <3>1, <3>2
  <2>2. QED
    BY <2>1 DEF OnLogin, PageInv
<1>2. CASE SignedIn
  <2>1. view' = DashboardView
    BY <1>2 DEF SignedIn
  <2>2. QED
    BY <2>1, OpensWell DEF Opened, DashboardView
<1>3. QED
  BY <1>1, <1>2 DEF LoginNext

LEMMA ContractStep ==
    ASSUME OnContract(view), ReadingNext
    PROVE  OnContract(view')
<1>1. view.at = "contract" /\ GoodHook(view.hook)
  BY DEF OnContract
<1>2. ASSUME NEW hook, GoodHook(hook), view' = [view EXCEPT !.hook = hook]
      PROVE  OnContract(view')
  BY <1>2 DEF OnContract
<1>3. ASSUME NEW x, view' = [view EXCEPT !.selected = x]
      PROVE  OnContract(view')
  BY <1>3 DEF OnContract
<1>4. CASE RetryPage(view.id)
  BY <1>1, <1>2, <1>4, GoodCalled DEF RetryPage, Becomes
<1>5. ASSUME NEW request \in view.hook.open, ContractSettles(request)
      PROVE  OnContract(view')
  BY <1>1, <1>2, <1>5, GoodSettled, OutcomeOfResult DEF ContractSettles, Becomes
<1>6. ASSUME NEW clause, Select(clause)
      PROVE  OnContract(view')
  BY <1>3, <1>6 DEF Select, Becomes
<1>7. QED
  BY <1>1, <1>4, <1>5, <1>6 DEF ReadingNext

LEMMA ReviewStep ==
    ASSUME OnReview(view), ReadingNext
    PROVE  OnReview(view') /\ view'.at = view.at
<1>1. view.at \in {"risk", "dashboard"} /\ GoodHook(view.hook)
      /\ view = [at |-> view.at, hook |-> view.hook]
  BY DEF OnReview
<1>2. ASSUME NEW hook, GoodHook(hook), view' = [view EXCEPT !.hook = hook]
      PROVE  OnReview(view') /\ view'.at = view.at
  BY <1>1, <1>2 DEF OnReview
<1>3. ASSUME NEW arg, RetryPage(arg)
      PROVE  OnReview(view') /\ view'.at = view.at
  BY <1>1, <1>2, <1>3, GoodCalled DEF RetryPage, Becomes
<1>4. ASSUME NEW request \in view.hook.open, RiskSettles(request)
      PROVE  OnReview(view') /\ view'.at = view.at
  BY <1>1, <1>2, <1>4, GoodSettled, OutcomeOfResult DEF RiskSettles, Becomes
<1>5. ASSUME NEW request \in view.hook.open, DashboardSettles(request)
      PROVE  OnReview(view') /\ view'.at = view.at
  <2> PICK listed \in Results(documentList), found \in Results(riskFindings) :
        Becomes([view EXCEPT !.hook =
                   Settled(view.hook, request, All(<<listed, found, Result(demoKeyDates)>>))])
    BY <1>5 DEF DashboardSettles
  <2> DEFINE outcomes == <<listed, found, Result(demoKeyDates)>>
  <2>1. /\ listed.ok \/ (~listed.ok /\ listed.code \in ErrorCodes)
        /\ found.ok \/ (~found.ok /\ found.code \in ErrorCodes)
        /\ Result(demoKeyDates).ok
    BY OutcomeOfResult DEF Result
  <2>2. \A i \in DOMAIN outcomes :
          outcomes[i].ok \/ (~outcomes[i].ok /\ outcomes[i].code \in ErrorCodes)
    BY <2>1
  <2>3. All(outcomes).ok \/ (~All(outcomes).ok /\ All(outcomes).code \in ErrorCodes)
    <3> HIDE DEF outcomes
    <3>1. QED
      BY <2>2, OutcomeOfAll
  <2>4. view' = [view EXCEPT !.hook = Settled(view.hook, request, All(outcomes))]
    BY DEF Becomes
  <2> HIDE DEF outcomes
  <2>5. QED
    BY <1>1, <1>2, <2>3, <2>4, GoodSettled
<1>6. QED
  BY <1>1, <1>3, <1>4, <1>5 DEF ReadingNext

LEMMA SystemStep ==
    ASSUME OnSystem(view), SystemNext
    PROVE  OnSystem(view')
<1>1. GoodHook(view.live) /\ GoodHook(view.ready)
  BY DEF OnSystem
<1>2. ASSUME NEW live, NEW ready, GoodHook(live), GoodHook(ready),
             view' = [view EXCEPT !.live = live, !.ready = ready]
      PROVE  OnSystem(view')
  <2>1. PICK l, r : view = [at |-> "system", live |-> l, ready |-> r]
    BY DEF OnSystem
  <2>2. view' = [at |-> "system", live |-> live, ready |-> ready]
    BY <1>2, <2>1
  <2>3. view'.live = live /\ view'.ready = ready
    BY <2>2
  <2>4. QED
    BY <1>2, <2>2, <2>3 DEF OnSystem
<1>3. ASSUME NEW live, GoodHook(live), view' = [view EXCEPT !.live = live]
      PROVE  OnSystem(view')
  BY <1>3 DEF OnSystem
<1>4. ASSUME NEW ready, GoodHook(ready), view' = [view EXCEPT !.ready = ready]
      PROVE  OnSystem(view')
  BY <1>4 DEF OnSystem
<1>5. ASSUME NEW request \in view.live.open, LivenessReplied(request) \/ LivenessFails(request)
      PROVE  OnSystem(view')
  <2> DEFINE alive == apiRequest("replied", Delivered([service |-> "up"]), FALSE)
             dead == apiRequest("aborted", NotAnEnvelope, FALSE)
  <2>1. \/ view' = [view EXCEPT !.live = Settled(view.live, request, alive)]
        \/ view' = [view EXCEPT !.live = Settled(view.live, request, dead)]
    BY <1>5 DEF LivenessReplied, LivenessFails, Becomes
  <2>2. alive.ok /\ ~dead.ok /\ dead.code \in ErrorCodes
    BY OutcomeOfProbe
  <2> HIDE DEF alive, dead
  <2>3. QED
    BY <1>1, <1>3, <2>1, <2>2, GoodSettled
<1>6. ASSUME NEW request \in view.ready.open, ReadinessReplied(request) \/ ReadinessFails(request)
      PROVE  OnSystem(view')
  <2>1. CASE ReadinessReplied(request)
    <3> DEFINE outcome == apiRequest("replied", ReadyBody(request.read), TRUE)
    <3>1. view' = [view EXCEPT !.ready = Settled(view.ready, request, outcome)]
      BY <2>1 DEF ReadinessReplied, Becomes
    <3>2. outcome.ok
      BY <2>1, OutcomeOfProbe DEF ReadinessReplied
    <3> HIDE DEF outcome
    <3>3. QED
      BY <1>1, <1>4, <3>1, <3>2, GoodSettled
  <2>2. CASE ReadinessFails(request)
    <3> DEFINE outcome == apiRequest("aborted", NotAnEnvelope, TRUE)
    <3>1. view' = [view EXCEPT !.ready = Settled(view.ready, request, outcome)]
      BY <2>2 DEF ReadinessFails, Becomes
    <3>2. ~outcome.ok /\ outcome.code \in ErrorCodes
      BY OutcomeOfProbe
    <3> HIDE DEF outcome
    <3>3. QED
      BY <1>1, <1>4, <3>1, <3>2, GoodSettled
  <2>3. QED
    BY <1>6, <2>1, <2>2
<1>7. ASSUME NEW request \in view.ready.open, ReadinessRead(request)
      PROVE  OnSystem(view')
  BY <1>1, <1>4, <1>7, GoodRead DEF ReadinessRead, Becomes
<1>8. CASE Refresh
  BY <1>1, <1>2, <1>8, GoodCalled DEF Refresh, Becomes
<1>9. CASE StackMoves
  BY <1>9 DEF StackMoves, ApiMoves, DependencyMoves, OnSystem
<1>10. QED
  BY <1>5, <1>6, <1>7, <1>8, <1>9 DEF SystemNext, ProbeStep

LEMMA CompareStep ==
    ASSUME OnCompare, CompareNext
    PROVE  OnCompare'
<1>1. /\ CompareInv' /\ view.at = "compare" /\ IsHook(view.hook)
      /\ view.hook.error \in ErrorCodes \cup {Null} /\ view.docId \in demoIds
      /\ view.left \in ToSet(demoVersions[view.docId])
      /\ view.right \in ToSet(demoVersions[view.docId])
  BY CompareInvStep DEF OnCompare, CompareInv, PairOfOneContract
<1>2. ASSUME NEW id \in demoIds, NEW left \in ToSet(demoVersions[id]),
             NEW right \in ToSet(demoVersions[id]), Selected(id, left, right)
      PROVE  OnCompare'
  <2> DEFINE hook == Called(view.hook, <<left, right>>)
  <2>1. view' = [at |-> "compare", docId |-> id, left |-> left, right |-> right, hook |-> hook]
    BY <1>2, SelectedPage DEF OnCompare
  <2>2. hook.error = view.hook.error
    BY <1>1, HookWrites
  <2> HIDE DEF hook
  <2>3. view'.hook.error = view.hook.error /\ view'.docId = id
        /\ view'.left = left /\ view'.right = right
    BY <2>1, <2>2
  <2>4. QED
    BY <1>1, <2>3 DEF OnCompare, PairOfOneContract
<1>3. ASSUME NEW id \in versioned, SelectDocument(id)
      PROVE  OnCompare'
  BY <1>2, <1>3, VersionsOfDemo DEF SelectDocument, versioned
<1>4. ASSUME NEW v \in ToSet(demoVersions[view.docId]), SelectLeft(v) \/ SelectRight(v)
      PROVE  OnCompare'
  BY <1>1, <1>2, <1>4 DEF SelectLeft, SelectRight
<1>5. CASE RetryCompare
  BY <1>1, <1>2, <1>5 DEF RetryCompare
<1>6. ASSUME NEW request \in view.hook.open, CompareSettles(request)
      PROVE  OnCompare'
  <2> PICK outcome \in Results(Comparison(request.arg)) :
        Becomes([view EXCEPT !.hook = Settled(view.hook, request, outcome)])
    BY <1>6 DEF CompareSettles
  <2> DEFINE hook == Settled(view.hook, request, outcome)
  <2>1. GoodHook(view.hook)
    BY DEF OnCompare, CompareInv, GoodHook
  <2>2. hook.error \in ErrorCodes \cup {Null}
    BY <2>1, GoodSettled, OutcomeOfResult DEF GoodHook
  <2>3. view' = [view EXCEPT !.hook = hook]
    BY DEF Becomes
  <2> HIDE DEF hook
  <2>4. view'.hook = hook /\ view'.docId = view.docId
        /\ view'.left = view.left /\ view'.right = view.right
    BY <2>3 DEF OnCompare, CompareInv
  <2>5. QED
    BY <1>1, <2>2, <2>4 DEF OnCompare, PairOfOneContract
<1>7. QED
  BY <1>3, <1>4, <1>5, <1>6 DEF CompareNext

(***************************************************************************)
(* The bounds of the assistant                                             *)
(***************************************************************************)

LEMMA PageFields ==
    ASSUME NEW page, IsAssistant(page)
    PROVE  page = Page(page.q, page.asked, page.scope, page.hint, page.turns, page.asks,
                       page.active, page.focusTurn)
BY DEF IsAssistant, Page

\* The updates of the page that its steps make.
LEMMA PageUpdated ==
    ASSUME NEW page, IsAssistant(page), NEW x
    PROVE
      /\ [page EXCEPT !.q = x] =
           Page(x, page.asked, page.scope, page.hint, page.turns, page.asks, page.active,
                page.focusTurn)
      /\ [page EXCEPT !.asked = x] =
           Page(page.q, x, page.scope, page.hint, page.turns, page.asks, page.active,
                page.focusTurn)
      /\ [page EXCEPT !.scope = x] =
           Page(page.q, page.asked, x, page.hint, page.turns, page.asks, page.active,
                page.focusTurn)
      /\ [page EXCEPT !.hint = x] =
           Page(page.q, page.asked, page.scope, x, page.turns, page.asks, page.active,
                page.focusTurn)
      /\ [page EXCEPT !.turns = x] =
           Page(page.q, page.asked, page.scope, page.hint, x, page.asks, page.active,
                page.focusTurn)
      /\ [page EXCEPT !.asks = x] =
           Page(page.q, page.asked, page.scope, page.hint, page.turns, x, page.active,
                page.focusTurn)
      /\ [page EXCEPT !.active = x] =
           Page(page.q, page.asked, page.scope, page.hint, page.turns, page.asks, x, page.focusTurn)
      /\ [page EXCEPT !.focusTurn = x] =
           Page(page.q, page.asked, page.scope, page.hint, page.turns, page.asks, page.active, x)
<1>1. PICK q, asked, scope, hint, turns, asks, active, focusTurn :
        page = Page(q, asked, scope, hint, turns, asks, active, focusTurn)
  <2>1. PICK q \in Questions \cup {Null} :
          \E asked, scope, hint, ts, as, active, focusTurn :
            page = Page(q, asked, scope, hint, ts, as, active, focusTurn)
    BY DEF IsAssistant
  <2>2. QED
    BY <2>1
<1>2. /\ page.q = q /\ page.asked = asked /\ page.scope = scope /\ page.hint = hint
      /\ page.turns = turns /\ page.asks = asks /\ page.active = active
      /\ page.focusTurn = focusTurn
  BY <1>1 DEF Page
<1>3. [page EXCEPT !.q = x] = Page(x, asked, scope, hint, turns, asks, active, focusTurn)
  BY <1>1 DEF Page
<1>4. [page EXCEPT !.asked = x] = Page(q, x, scope, hint, turns, asks, active, focusTurn)
  BY <1>1 DEF Page
<1>5. [page EXCEPT !.scope = x] = Page(q, asked, x, hint, turns, asks, active, focusTurn)
  BY <1>1 DEF Page
<1>6. [page EXCEPT !.hint = x] = Page(q, asked, scope, x, turns, asks, active, focusTurn)
  BY <1>1 DEF Page
<1>7. [page EXCEPT !.turns = x] = Page(q, asked, scope, hint, x, asks, active, focusTurn)
  BY <1>1 DEF Page
<1>8. [page EXCEPT !.asks = x] = Page(q, asked, scope, hint, turns, x, active, focusTurn)
  BY <1>1 DEF Page
<1>9. [page EXCEPT !.active = x] = Page(q, asked, scope, hint, turns, asks, x, focusTurn)
  BY <1>1 DEF Page
<1>10. [page EXCEPT !.focusTurn = x] = Page(q, asked, scope, hint, turns, asks, active, x)
  BY <1>1 DEF Page
<1>11. QED
  BY <1>2, <1>3, <1>4, <1>5, <1>6, <1>7, <1>8, <1>9, <1>10

LEMMA PageMoved ==
    ASSUME NEW page, IsAssistant(page), NEW turns, NEW asks
    PROVE  [page EXCEPT !.turns = turns, !.asks = asks] =
             Page(page.q, page.asked, page.scope, page.hint, turns, asks, page.active,
                  page.focusTurn)
<1> DEFINE first == [page EXCEPT !.turns = turns]
<1>1. first = Page(page.q, page.asked, page.scope, page.hint, turns, page.asks, page.active,
                   page.focusTurn)
  BY PageUpdated, ZenonT(40)
<1> HIDE DEF first
<1>2. [first EXCEPT !.asks = asks] =
        Page(page.q, page.asked, page.scope, page.hint, turns, asks, page.active, page.focusTurn)
  BY <1>1 DEF Page
<1>3. QED
  BY <1>2 DEF first

LEMMA PageAnswered ==
    ASSUME NEW page, IsAssistant(page), NEW turns, NEW active, NEW asks
    PROVE  [page EXCEPT !.turns = turns, !.active = active, !.asks = asks] =
             Page(page.q, page.asked, page.scope, page.hint, turns, asks, active, page.focusTurn)
<1> DEFINE first == [page EXCEPT !.turns = turns]
           second == [first EXCEPT !.active = active]
<1>1. first = Page(page.q, page.asked, page.scope, page.hint, turns, page.asks, page.active,
                   page.focusTurn)
  BY PageUpdated, ZenonT(40)
<1> HIDE DEF first
<1>2. second = Page(page.q, page.asked, page.scope, page.hint, turns, page.asks, active,
                    page.focusTurn)
  BY <1>1 DEF Page
<1> HIDE DEF second
<1>3. [second EXCEPT !.asks = asks] =
        Page(page.q, page.asked, page.scope, page.hint, turns, asks, active, page.focusTurn)
  BY <1>2 DEF Page
<1>4. QED
  BY <1>3 DEF first, second

LEMMA PageCited ==
    ASSUME NEW page, IsAssistant(page), NEW focusTurn, NEW active
    PROVE  [page EXCEPT !.focusTurn = focusTurn, !.active = active] =
             Page(page.q, page.asked, page.scope, page.hint, page.turns, page.asks, active,
                  focusTurn)
<1> DEFINE first == [page EXCEPT !.focusTurn = focusTurn]
<1>1. first = Page(page.q, page.asked, page.scope, page.hint, page.turns, page.asks, page.active,
                   focusTurn)
  BY PageUpdated, ZenonT(40)
<1> HIDE DEF first
<1>2. [first EXCEPT !.active = active] =
        Page(page.q, page.asked, page.scope, page.hint, page.turns, page.asks, active, focusTurn)
  BY <1>1 DEF Page
<1>3. QED
  BY <1>2 DEF first

LEMMA BoundedPage ==
    ASSUME NEW q, NEW asked, NEW scope, NEW hint, NEW turns, NEW asks, NEW active, NEW focusTurn,
           Len(turns) <= MaxTurns, focusTurn \in 1..MaxTurns, active \in 1..3 \cup {Null},
           \A ask \in asks : ask.step \in 0..AgentSteps,
           q = Null \/ asked \/ turns = <<>>
    PROVE  Bounded(Page(q, asked, scope, hint, turns, asks, active, focusTurn))
BY DEF Bounded, Page

LEMMA AskedPage ==
    ASSUME NEW page, IsAssistant(page), NEW question
    PROVE  Asking(page, question) =
             Page(page.q, page.asked, page.scope, page.hint,
                  Append(page.turns, Turn(question)),
                  page.asks \cup {[index |-> Len(page.turns) + 1, question |-> question, step |-> 0]},
                  Null, Len(page.turns) + 1)
<1> DEFINE n == Len(page.turns) + 1
           turns == Append(page.turns, Turn(question))
           asks == page.asks \cup {[index |-> n, question |-> question, step |-> 0]}
<1>1. Asking(page, question) =
        [page EXCEPT !.turns = turns, !.asks = asks, !.focusTurn = n, !.active = Null]
  BY DEF Asking
<1> HIDE DEF n, turns, asks
<1> DEFINE first == [page EXCEPT !.turns = turns, !.asks = asks]
           second == [first EXCEPT !.focusTurn = n]
<1>2. first = Page(page.q, page.asked, page.scope, page.hint, turns, asks, page.active,
                   page.focusTurn)
  BY PageMoved, Zenon
<1>3. Asking(page, question) = [second EXCEPT !.active = Null]
  BY <1>1
<1> HIDE DEF first
<1>4. second = Page(page.q, page.asked, page.scope, page.hint, turns, asks, page.active, n)
  BY <1>2 DEF Page
<1> HIDE DEF second
<1>5. Asking(page, question) =
        Page(page.q, page.asked, page.scope, page.hint, turns, asks, Null, n)
  BY <1>3, <1>4 DEF Page
<1>6. QED
  BY <1>5 DEF n, turns, asks

\* One question more than before.
LEMMA AskedBounded ==
    ASSUME OnAssistant, Len(view.turns) < MaxTurns, NEW question,
           NEW asked, NEW hint, NEW focusTurn,
           focusTurn \in 1..MaxTurns \/ focusTurn = Len(view.turns) + 1,
           view.q = Null \/ asked
    PROVE  Bounded(Page(view.q, asked, view.scope, hint, Append(view.turns, Turn(question)),
                        view.asks \cup {[index |-> Len(view.turns) + 1, question |-> question,
                                         step |-> 0]},
                        Null, focusTurn))
<1> DEFINE turns == Append(view.turns, Turn(question))
           last == [index |-> Len(view.turns) + 1, question |-> question, step |-> 0]
<1>1. view.turns \in Seq(TurnType) /\ Bounded(view)
  BY DEF OnAssistant, AssistantInv, Conversation, ConversationType
<1>2. Len(turns) = Len(view.turns) + 1 /\ Len(view.turns) \in Nat
  BY <1>1
<1>3. Len(turns) <= MaxTurns /\ focusTurn \in 1..MaxTurns
  BY <1>2, AssistantAssumption
<1>4. \A ask \in view.asks \cup {last} : ask.step \in 0..AgentSteps
  BY <1>1, AssistantAssumption DEF Bounded
<1> HIDE DEF turns, last
<1>5. QED
  BY <1>3, <1>4, BoundedPage DEF turns, last

\* What ask makes of the page, with one field changed besides.
LEMMA AskedUpdated ==
    ASSUME IsAssistant(view), NEW question, NEW x
    PROVE  LET turns == Append(view.turns, Turn(question))
               n == Len(view.turns) + 1
               asks == view.asks \cup {[index |-> n, question |-> question, step |-> 0]}
           IN /\ [Asking(view, question) EXCEPT !.asked = x] =
                   Page(view.q, x, view.scope, view.hint, turns, asks, Null, n)
              /\ [Asking(view, question) EXCEPT !.hint = x] =
                   Page(view.q, view.asked, view.scope, x, turns, asks, Null, n)
              /\ [Asking(view, question) EXCEPT !.focusTurn = x] =
                   Page(view.q, view.asked, view.scope, view.hint, turns, asks, Null, x)
<1> DEFINE turns == Append(view.turns, Turn(question))
           n == Len(view.turns) + 1
           asks == view.asks \cup {[index |-> n, question |-> question, step |-> 0]}
           asked == Asking(view, question)
<1>1. asked = Page(view.q, view.asked, view.scope, view.hint, turns, asks, Null, n)
  BY AskedPage
<1> HIDE DEF turns, n, asks, asked
<1>2. [asked EXCEPT !.asked = x] = Page(view.q, x, view.scope, view.hint, turns, asks, Null, n)
  BY <1>1 DEF Page
<1>3. [asked EXCEPT !.hint = x] = Page(view.q, view.asked, view.scope, x, turns, asks, Null, n)
  BY <1>1 DEF Page
<1>4. [asked EXCEPT !.focusTurn = x] =
        Page(view.q, view.asked, view.scope, view.hint, turns, asks, Null, x)
  BY <1>1 DEF Page
<1>5. QED
  BY <1>2, <1>3, <1>4 DEF turns, n, asks, asked

LEMMA AskingBounded ==
    ASSUME OnAssistant, AskingNext
    PROVE  Bounded(view')
<1>1. /\ IsAssistant(view) /\ view.turns \in Seq(TurnType) /\ Bounded(view)
      /\ view.asks \subseteq AskType
      /\ \A ask \in view.asks : ask.index \in DOMAIN view.turns
  BY DEF OnAssistant, AssistantInv, Conversation, ConversationType, AskHasTurn
<1> DEFINE asked(question) == Asking(view, question)
<1>2. CASE AskFromLink
  <2>1. view.turns = <<>> /\ view' = [asked(view.q) EXCEPT !.asked = TRUE]
    BY <1>1, <1>2 DEF AskFromLink, rendered, Becomes, Bounded
  <2>2. Len(view.turns) = 0
    BY <2>1
  <2>3. view' = Page(view.q, TRUE, view.scope, view.hint, Append(view.turns, Turn(view.q)),
                     view.asks \cup {[index |-> Len(view.turns) + 1, question |-> view.q, step |-> 0]},
                     Null, Len(view.turns) + 1)
    BY <1>1, <2>1, AskedUpdated
  <2>4. Len(view.turns) < MaxTurns
    BY <2>2, AssistantAssumption
  <2> DEFINE yes == TRUE
  <2>5. yes
    OBVIOUS
  <2> HIDE DEF yes
  <2>6. Bounded(Page(view.q, yes, view.scope, view.hint, Append(view.turns, Turn(view.q)),
                     view.asks \cup {[index |-> Len(view.turns) + 1, question |-> view.q, step |-> 0]},
                     Null, Len(view.turns) + 1))
    BY <2>4, <2>5, AskedBounded
  <2>7. QED
    BY <2>3, <2>6 DEF yes
<1>3. ASSUME NEW question, MayAsk, view' = asked(question)
      PROVE  Bounded(view')
  <2>1. view' = Page(view.q, view.asked, view.scope, view.hint, Append(view.turns, Turn(question)),
                     view.asks \cup {[index |-> Len(view.turns) + 1, question |-> question, step |-> 0]},
                     Null, Len(view.turns) + 1)
    BY <1>1, <1>3, AskedPage
  <2>2. Len(view.turns) < MaxTurns /\ (view.q = Null \/ view.asked)
    BY <1>3 DEF MayAsk, rendered
  <2>3. QED
    BY <2>1, <2>2, AskedBounded
<1>4. ASSUME NEW typed \in Typed, Submit(typed)
      PROVE  Bounded(view')
  <2>1. MayAsk /\ Len(view.turns) < MaxTurns /\ (view.q = Null \/ view.asked)
    BY <1>4 DEF Submit, MayAsk, rendered
  <2>2. CASE view' = [asked(typed.text) EXCEPT !.hint = ""]
    <3>1. view' = Page(view.q, view.asked, view.scope, "", Append(view.turns, Turn(typed.text)),
                       view.asks \cup {[index |-> Len(view.turns) + 1, question |-> typed.text,
                                        step |-> 0]},
                       Null, Len(view.turns) + 1)
      BY <1>1, <2>2, AskedUpdated
    <3>2. QED
      BY <2>1, <3>1, AskedBounded
  <2>3. CASE view' = [view EXCEPT !.hint = validateQuestion(typed.length)]
    <3> DEFINE hint == validateQuestion(typed.length)
    <3> HIDE DEF hint
    <3>1. view' = Page(view.q, view.asked, view.scope, hint, view.turns, view.asks, view.active,
                       view.focusTurn)
      BY <1>1, <2>3, PageUpdated, ZenonT(40) DEF hint
    <3>2. QED
      BY <1>1, <3>1, BoundedPage DEF Bounded
  <2>4. QED
    BY <1>4, <2>2, <2>3 DEF Submit, Becomes
<1>5. ASSUME NEW i \in DOMAIN view.turns, RetryTurn(i)
      PROVE  Bounded(view')
  <2> DEFINE question == view.turns[i].question
  <2>1. MayAsk /\ view' = [asked(question) EXCEPT !.focusTurn = i]
    BY <1>5 DEF RetryTurn, Becomes
  <2> HIDE DEF question
  <2>2. view' = Page(view.q, view.asked, view.scope, view.hint, Append(view.turns, Turn(question)),
                     view.asks \cup {[index |-> Len(view.turns) + 1, question |-> question, step |-> 0]},
                     Null, i)
    BY <1>1, <2>1, AskedUpdated
  <2>3. i \in 1..MaxTurns
    BY <1>1, AssistantAssumption DEF Bounded
  <2>4. Len(view.turns) < MaxTurns /\ (view.q = Null \/ view.asked)
    BY <2>1 DEF MayAsk, rendered
  <2>5. QED
    BY <2>2, <2>3, <2>4, AskedBounded
<1>6. ASSUME NEW ask \in view.asks, TickSteps(ask)
      PROVE  Bounded(view')
  <2> DEFINE turn == [view.turns[ask.index] EXCEPT !.step = ask.step + 1]
             turns == [view.turns EXCEPT ![ask.index] = turn]
             next == [ask EXCEPT !.step = ask.step + 1]
             asks == (view.asks \ {ask}) \cup {next}
  <2>1. view' = [view EXCEPT !.turns = turns, !.asks = asks]
    BY <1>6 DEF TickSteps, Becomes
  <2>2. next.step \in 0..AgentSteps
    BY <1>1, <1>6, AssistantAssumption DEF TickSteps, AskType
  <2>3. \A a \in asks : a.step \in 0..AgentSteps
    BY <1>1, <2>2 DEF Bounded
  <2>4. DOMAIN turns = DOMAIN view.turns
    OBVIOUS
  <2> HIDE DEF turns, asks, turn, next
  <2>5. view' = Page(view.q, view.asked, view.scope, view.hint, turns, asks, view.active,
                     view.focusTurn)
    BY <1>1, <2>1, PageMoved
  <2>6. Len(turns) <= MaxTurns /\ (view.q = Null \/ view.asked)
    BY <1>1, <2>1, <2>4 DEF Bounded, turns
  <2>7. QED
    BY <1>1, <2>3, <2>5, <2>6, BoundedPage DEF Bounded
<1>7. QED
  BY <1>2, <1>3, <1>4, <1>5, <1>6 DEF AskingNext, AskSuggested, Becomes


\* What an answer makes the active source.
LEMMA FirstSource ==
    ASSUME NEW found \in Answers \cup {demoAnswer}
    PROVE  (IF found.citations = <<>> THEN Null ELSE Head(found.citations)) \in 1..3 \cup {Null}
<1>1. found.citations \in Seq(1..3)
  <2>1. demoAnswer.citations \in Seq(1..3)
    BY DEF demoAnswer
  <2>2. QED
    BY <2>1, AssistantAssumption
<1> DEFINE sources == found.citations
<1> HIDE DEF sources
<1>2. CASE sources = <<>>
  BY <1>2 DEF sources
<1>3. CASE sources # <<>>
  BY <1>1, <1>3 DEF sources
<1>4. QED
  BY <1>2, <1>3

LEMMA SettlingBounded ==
    ASSUME OnAssistant, Settling
    PROVE  Bounded(view')
<1>1. /\ IsAssistant(view) /\ view.turns \in Seq(TurnType) /\ Bounded(view)
      /\ \A ask \in view.asks : ask.index \in DOMAIN view.turns
  BY DEF OnAssistant, AssistantInv, Conversation, ConversationType, AskHasTurn
<1> PICK ask \in view.asks :
      \/ Failed(ask, "TIMEOUT")
      \/ \E found \in IF useDemoData THEN {demoAnswer} ELSE Answers : Answered(ask, found)
  BY DEF Settling
<1>2. view.turns # <<>>
  BY <1>1
<1>3. ASSUME NEW turn, NEW active \in 1..3 \cup {Null},
             view' = Page(view.q, view.asked, view.scope, view.hint,
                          [view.turns EXCEPT ![ask.index] = turn], view.asks \ {ask}, active,
                          view.focusTurn)
      PROVE  Bounded(view')
  <2> DEFINE turns == [view.turns EXCEPT ![ask.index] = turn]
  <2>1. Len(turns) <= MaxTurns
    BY <1>1 DEF Bounded
  <2>2. /\ view.focusTurn \in 1..MaxTurns /\ (view.q = Null \/ view.asked)
        /\ \A a \in view.asks \ {ask} : a.step \in 0..AgentSteps
    BY <1>1, <1>2 DEF Bounded
  <2> HIDE DEF turns
  <2>3. QED
    BY <1>3, <2>1, <2>2, BoundedPage DEF turns
<1>4. CASE Failed(ask, "TIMEOUT")
  <2> DEFINE turn == [view.turns[ask.index] EXCEPT !.error = "TIMEOUT"]
             turns == [view.turns EXCEPT ![ask.index] = turn]
             asks == view.asks \ {ask}
  <2>1. view' = [view EXCEPT !.turns = turns, !.asks = asks]
    BY <1>4 DEF Failed, Becomes
  <2> HIDE DEF turn, turns, asks
  <2>2. view' = Page(view.q, view.asked, view.scope, view.hint, turns, asks, view.active,
                     view.focusTurn)
    BY <1>1, <2>1, PageMoved
  <2>3. view.active \in 1..3 \cup {Null}
    BY <1>1 DEF Bounded
  <2>4. QED
    BY <1>3, <2>2, <2>3 DEF turns, asks
<1>5. ASSUME NEW found \in Answers \cup {demoAnswer}, Answered(ask, found)
      PROVE  Bounded(view')
  <2> DEFINE turn == [view.turns[ask.index] EXCEPT !.answer = AnswerOf(ask.question, found)]
             turns == [view.turns EXCEPT ![ask.index] = turn]
             active == IF found.citations = <<>> THEN Null ELSE Head(found.citations)
             asks == view.asks \ {ask}
  <2>1. view' = [view EXCEPT !.turns = turns, !.active = active, !.asks = asks]
    BY <1>5 DEF Answered, Becomes
  <2>2. active \in 1..3 \cup {Null}
    BY FirstSource
  <2> HIDE DEF turn, turns, active, asks
  <2>3. view' = Page(view.q, view.asked, view.scope, view.hint, turns, asks, active,
                     view.focusTurn)
    BY <1>1, <2>1, PageAnswered
  <2>4. QED
    BY <1>3, <2>2, <2>3 DEF turns, asks
<1>6. QED
  BY <1>4, <1>5

LEMMA ReadingBounded ==
    ASSUME OnAssistant, AnswerReadingNext
    PROVE  Bounded(view')
<1>1. IsAssistant(view) /\ view.turns \in Seq(TurnType) /\ Bounded(view)
  BY DEF OnAssistant, AssistantInv, Conversation, ConversationType
<1>2. ASSUME NEW focusTurn \in 1..MaxTurns, NEW active \in 1..3 \cup {Null}, NEW scope,
             view' = Page(view.q, view.asked, scope, view.hint, view.turns, view.asks, active,
                          focusTurn)
      PROVE  Bounded(view')
  BY <1>1, <1>2, BoundedPage DEF Bounded
<1>3. view.focusTurn \in 1..MaxTurns /\ view.active \in 1..3 \cup {Null}
  BY <1>1 DEF Bounded
<1>4. DOMAIN view.turns \subseteq 1..MaxTurns
  BY <1>1, AssistantAssumption DEF Bounded
<1>5. ASSUME NEW i \in DOMAIN view.turns, FocusTurn(i)
      PROVE  Bounded(view')
  <2>1. view' = [view EXCEPT !.focusTurn = i]
    BY <1>5 DEF FocusTurn, Becomes
  <2>2. view' = Page(view.q, view.asked, view.scope, view.hint, view.turns, view.asks,
                     view.active, i)
    BY <1>1, <2>1, PageUpdated, ZenonT(40)
  <2>3. QED
    BY <1>2, <1>3, <1>4, <2>2
<1>6. ASSUME NEW i \in DOMAIN view.turns, NEW n \in 1..3, Cite(i, n)
      PROVE  Bounded(view')
  <2>1. view' = [view EXCEPT !.focusTurn = i, !.active = n]
    BY <1>6 DEF Cite, Becomes
  <2>2. view' = Page(view.q, view.asked, view.scope, view.hint, view.turns, view.asks, n, i)
    BY <1>1, <2>1, PageCited
  <2>3. QED
    BY <1>2, <1>4, <2>2
<1>7. ASSUME NEW n \in 1..3, SelectEvidence(n)
      PROVE  Bounded(view')
  <2>1. view' = [view EXCEPT !.active = n]
    BY <1>7 DEF SelectEvidence, Becomes
  <2>2. view' = Page(view.q, view.asked, view.scope, view.hint, view.turns, view.asks, n,
                     view.focusTurn)
    BY <1>1, <2>1, PageUpdated, ZenonT(40)
  <2>3. QED
    BY <1>2, <1>3, <2>2
<1>8. ASSUME NEW doc \in view.scope, ClearScope(doc)
      PROVE  Bounded(view')
  <2> DEFINE scope == view.scope \ {doc}
  <2>1. view' = [view EXCEPT !.scope = scope]
    BY <1>8 DEF ClearScope, Becomes
  <2> HIDE DEF scope
  <2>2. view' = Page(view.q, view.asked, scope, view.hint, view.turns, view.asks, view.active,
                     view.focusTurn)
    BY <1>1, <2>1, PageUpdated, ZenonT(40)
  <2>3. QED
    BY <1>2, <1>3, <2>2
<1>9. QED
  BY <1>5, <1>6, <1>7, <1>8 DEF AnswerReadingNext

LEMMA BoundedPrimed == Bounded(view') => Bounded(view)'
BY DEF Bounded

LEMMA AssistantStep ==
    ASSUME OnAssistant, AssistantNext
    PROVE  OnAssistant' /\ TurnsKept
<1>1. AssistantInv' /\ TurnsKept
  BY AssistantInvStep DEF OnAssistant
<1>2. Bounded(view')
  BY AskingBounded, SettlingBounded, ReadingBounded DEF AssistantNext
<1>3. QED
  BY <1>1, <1>2, BoundedPrimed DEF OnAssistant

LEMMA StayStep ==
    ASSUME OnAssistant, StayWithAssistant
    PROVE  OnAssistant' /\ TurnsKept
<1>1. /\ IsAssistant(view) /\ view.turns \in Seq(TurnType) /\ Bounded(view)
      /\ Conversation(view.turns, view.asks)
  BY DEF OnAssistant, AssistantInv, Conversation, ConversationType
<1>2. view' = [view EXCEPT !.q = Null]
  BY DEF StayWithAssistant, Becomes
<1>3. view' = Page(Null, view.asked, view.scope, view.hint, view.turns, view.asks, view.active,
                   view.focusTurn)
  BY <1>1, <1>2, PageUpdated, ZenonT(40)
<1>4. IsAssistant(view')
  BY <1>3 DEF IsAssistant
<1>5. view'.turns = view.turns /\ view'.asks = view.asks
  BY <1>3 DEF Page
<1>6. Bounded(view')
  BY <1>1, <1>3, BoundedPage DEF Bounded
<1>7. TurnsKept
  BY <1>5 DEF TurnsKept
<1>8. QED
  BY <1>1, <1>4, <1>5, <1>6, <1>7, BoundedPrimed DEF OnAssistant, AssistantInv


(***************************************************************************)
(* Links                                                                   *)
(***************************************************************************)

LEMMA OpenedPages ==
    /\ \A page \in SidebarPages \cup {LoginForm} : Opened(page)
    /\ \A page \in Links : Opened(page)
<1>1. \A doc : \A q \in Questions \cup {Null} : Opened(AssistantView(q, doc))
  BY DEF Opened
<1>2. \A id : Opened(ContractDetailView(id))
  BY DEF Opened
<1>3. \A typed \in Typed : typed.text \in Questions
  BY DEF Questions
<1>4. \A page \in SidebarPages \cup {LoginForm} : Opened(page)
  BY <1>1 DEF SidebarPages, Opened
<1>5. ASSUME NEW page \in Links
      PROVE  Opened(page)
  <2>1. \/ \E typed \in Typed : page = AssistantView(typed.text, Null)
        \/ \E doc : page = AssistantView(Null, doc)
        \/ \E id : page = ContractDetailView(id)
    <3>1. CASE view.at = "dashboard"
      BY <1>5, <3>1, Zenon DEF Links
    <3>2. CASE view.at = "documents"
      BY <1>5, <3>2, Zenon DEF Links
    <3>3. CASE view.at = "contract"
      BY <1>5, <3>3, Zenon DEF Links
    <3>4. CASE view.at = "risk"
      BY <1>5, <3>4, Zenon DEF Links
    <3>5. CASE view.at = "assistant"
      BY <1>5, <3>5, Zenon DEF Links
    <3>6. CASE view.at \notin {"dashboard", "documents", "contract", "risk", "assistant"}
      BY <1>5, <3>6 DEF Links
    <3>7. QED
      BY <3>1, <3>2, <3>3, <3>4, <3>5, <3>6
  <2>2. QED
    BY <1>1, <1>2, <1>3, <2>1
<1>6. QED
  BY <1>4, <1>5

\* What a link or an address shows: a page that starts well, and a stack if it is
\* the one that asks about it.
LEMMA ShownWell ==
    ASSUME NEW page, Opened(page), Shows(page)
    PROVE  /\ PageInv'
           /\ stack' \in Stacks \cup {Null} /\ (stack' = Null <=> view'.at # "system")
<1>1. view' = page /\ Opened(view)'
  BY DEF Shows, Opened
<1>2. PageInv'
  BY <1>1, OpensWell
<1>3. stack' \in Stacks \cup {Null} /\ (stack' = Null <=> view'.at # "system")
  BY StackAssumption DEF Shows
<1>4. QED
  BY <1>2, <1>3

(***************************************************************************)
(* The workspace                                                           *)
(***************************************************************************)

LEMMA WorkspaceInitially == Init => WorkspaceInv
<1> SUFFICES ASSUME Init
             PROVE  WorkspaceInv
  OBVIOUS
<1>1. Opened(view)
  BY OpenedPages DEF Init
<1>2. QED
  BY <1>1, OpenedWell, StackAssumption DEF Init, ClientInit, WorkspaceInv

\* How the pages change what they share: the token when the user signs in or the
\* browser loads a page, the stack while its page is open.
LEMMA SharedStep ==
    ASSUME WorkspaceInv, [Next]_vars
    PROVE  useDemoData' \in BOOLEAN /\ accessToken' \in {Null, Token}
<1>1. ASSUME UNCHANGED clientVars
      PROVE  useDemoData' \in BOOLEAN /\ accessToken' \in {Null, Token}
  BY <1>1 DEF clientVars, WorkspaceInv
<1>2. CASE AssistantNext
  BY <1>1, <1>2 DEF AssistantNext, AskingNext, Settling, AnswerReadingNext, AskFromLink, Submit,
     AskSuggested, RetryTurn, TickSteps, Failed, Answered, FocusTurn, Cite, SelectEvidence,
     ClearScope, Becomes
<1>3. CASE CompareNext
  BY <1>1, <1>3 DEF CompareNext, SelectDocument, SelectLeft, SelectRight, RetryCompare, Selected,
     CompareSettles, Becomes
<1>4. CASE ReadingNext
  BY <1>1, <1>4 DEF ReadingNext, RetryPage, ContractSettles, Select, RiskSettles,
     DashboardSettles, Becomes
<1>5. CASE LoginNext
  <2>1. CASE SignIn \/ SignInFails
    BY <1>1, <2>1 DEF SignIn, SignInFails, Becomes
  <2>2. CASE SignedIn
    BY <2>2 DEF SignedIn, setAccessToken, WorkspaceInv
  <2>3. QED
    BY <1>5, <2>1, <2>2 DEF LoginNext
<1>6. CASE SystemNext
  BY <1>1, <1>6 DEF SystemNext, ProbeStep, StackMoves, LivenessReplied, LivenessFails,
     ReadinessRead, ReadinessReplied, ReadinessFails, Refresh, ApiMoves, DependencyMoves, Becomes
<1>7. CASE Routing
  <2>1. CASE (\E page \in SidebarPages \cup Links : Follow(page)) \/ StayWithAssistant
    BY <1>1, <2>1 DEF Follow, StayWithAssistant, Becomes
  <2>2. CASE \E page \in {DashboardView, LoginForm} : Load(page)
    BY <2>2 DEF Load, WorkspaceInv
  <2>3. QED
    BY <1>7, <2>1, <2>2 DEF Routing
<1>8. CASE UNCHANGED vars
  BY <1>1, <1>8 DEF vars
<1>9. QED
  BY <1>2, <1>3, <1>4, <1>5, <1>6, <1>7, <1>8 DEF Next

\* The stack moves and stays one.
LEMMA StackStep ==
    ASSUME stack \in Stacks, StackMoves
    PROVE  stack' \in Stacks
<1>1. stack.api \in BOOLEAN /\ stack.up \in SUBSET Probes
      /\ stack = [api |-> stack.api, up |-> stack.up]
  BY DEF Stacks
<1>2. CASE ApiMoves
  BY <1>1, <1>2 DEF ApiMoves, Stacks
<1>3. ASSUME NEW p \in Probes, DependencyMoves(p)
      PROVE  stack' \in Stacks
  <2> DEFINE up == IF p \in stack.up THEN stack.up \ {p} ELSE stack.up \cup {p}
  <2>1. stack' = [stack EXCEPT !.up = up]
    BY <1>3 DEF DependencyMoves
  <2>2. up \in SUBSET Probes
    BY <1>1
  <2> HIDE DEF up
  <2>3. QED
    BY <1>1, <2>1, <2>2 DEF Stacks
<1>4. QED
  BY <1>2, <1>3 DEF StackMoves

\* A step of the open page stays on the page, unless it signs the user in.
LEMMA OpenPageStep ==
    ASSUME WorkspaceInv,
           \/ (AssistantNext \/ CompareNext \/ ReadingNext \/ LoginNext) /\ UNCHANGED stack
           \/ SystemNext
    PROVE  /\ PageInv'
           /\ stack' \in Stacks \cup {Null} /\ (stack' = Null <=> view'.at # "system")
<1>1. PageInv /\ stack \in Stacks \cup {Null} /\ (stack = Null <=> view.at # "system")
  BY DEF WorkspaceInv
<1>2. ASSUME AssistantNext, UNCHANGED stack
      PROVE  PageInv' /\ view'.at # "system" /\ stack' = Null
  <2>1. OnAssistant /\ view.at # "system"
    BY <1>1, <1>2, WhichPage DEF AssistantNext
  <2>2. OnAssistant'
    BY <1>2, <2>1, AssistantStep
  <2>3. view'.at = "assistant"
    BY <2>2 DEF OnAssistant, AssistantInv, IsAssistant, Page
  <2>4. QED
    BY <1>1, <1>2, <2>1, <2>2, <2>3 DEF PageInv
<1>3. ASSUME CompareNext, UNCHANGED stack
      PROVE  PageInv' /\ view'.at # "system" /\ stack' = Null
  <2>1. OnCompare /\ view.at # "system"
    BY <1>1, <1>3, WhichPage DEF CompareNext
  <2>2. OnCompare'
    BY <1>3, <2>1, CompareStep
  <2>3. view'.at = "compare"
    BY <2>2 DEF OnCompare, CompareInv
  <2>4. QED
    BY <1>1, <1>3, <2>1, <2>2, <2>3 DEF PageInv
<1>4. ASSUME ReadingNext, UNCHANGED stack
      PROVE  PageInv' /\ view'.at # "system" /\ stack' = Null
  <2>1. CASE view.at = "contract"
    <3>1. OnContract(view')
      BY <1>1, <1>4, <2>1, WhichPage, ContractStep
    <3>2. view'.at = "contract"
      BY <3>1 DEF OnContract
    <3>3. QED
      BY <1>1, <1>4, <2>1, <3>1, <3>2 DEF PageInv, OnContract
  <2>2. CASE view.at \in {"risk", "dashboard"}
    <3>1. OnReview(view') /\ view'.at = view.at
      BY <1>1, <1>4, <2>2, WhichPage, ReviewStep
    <3>2. QED
      BY <1>1, <1>4, <2>2, <3>1 DEF PageInv, OnReview
  <2>3. QED
    BY <1>4, <2>1, <2>2 DEF ReadingNext
<1>5. ASSUME LoginNext, UNCHANGED stack
      PROVE  PageInv' /\ view'.at # "system" /\ stack' = Null
  <2>1. OnLogin(view) /\ view.at # "system"
    BY <1>1, <1>5, WhichPage DEF LoginNext
  <2>2. QED
    BY <1>1, <1>5, <2>1, LoginStep
<1>6. ASSUME SystemNext
      PROVE  PageInv' /\ view'.at = "system" /\ stack' \in Stacks
  <2>1. OnSystem(view) /\ stack \in Stacks
    BY <1>1, <1>6, WhichPage DEF SystemNext
  <2>2. OnSystem(view')
    BY <1>6, <2>1, SystemStep
  <2>3. view'.at = "system"
    BY <2>2 DEF OnSystem
  <2>4. stack' \in Stacks
    <3>1. CASE StackMoves
      BY <2>1, <3>1, StackStep
    <3>2. CASE ProbeStep
      BY <2>1, <3>2 DEF ProbeStep, LivenessReplied, LivenessFails, ReadinessRead,
         ReadinessReplied, ReadinessFails, Refresh
    <3>3. QED
      BY <1>6, <3>1, <3>2 DEF SystemNext
  <2>5. QED
    BY <2>2, <2>3, <2>4 DEF PageInv, OnSystem
<1>7. QED
  BY <1>2, <1>3, <1>4, <1>5, <1>6, StackAssumption

LEMMA RoutingStep ==
    ASSUME WorkspaceInv, Routing
    PROVE  /\ PageInv'
           /\ stack' \in Stacks \cup {Null} /\ (stack' = Null <=> view'.at # "system")
<1>1. ASSUME NEW page \in SidebarPages \cup Links, Follow(page)
      PROVE  /\ PageInv'
             /\ stack' \in Stacks \cup {Null} /\ (stack' = Null <=> view'.at # "system")
  BY <1>1, OpenedPages, ShownWell DEF Follow
<1>2. ASSUME NEW page \in {DashboardView, LoginForm}, Load(page)
      PROVE  /\ PageInv'
             /\ stack' \in Stacks \cup {Null} /\ (stack' = Null <=> view'.at # "system")
  <2>1. Opened(page)
    BY DEF Opened
  <2>2. QED
    BY <1>2, <2>1, ShownWell DEF Load
<1>3. CASE StayWithAssistant
  <2>1. OnAssistant
    BY <1>3, WhichPage DEF StayWithAssistant, WorkspaceInv
  <2>2. OnAssistant'
    BY <1>3, <2>1, StayStep
  <2>3. view'.at = "assistant"
    BY <2>2 DEF OnAssistant, AssistantInv, IsAssistant, Page
  <2>4. QED
    BY <1>3, <2>2, <2>3 DEF StayWithAssistant, PageInv, WorkspaceInv
<1>4. QED
  BY <1>1, <1>2, <1>3 DEF Routing

LEMMA WorkspaceInvStep == WorkspaceInv /\ [Next]_vars => WorkspaceInv'
<1> SUFFICES ASSUME WorkspaceInv, [Next]_vars
             PROVE  WorkspaceInv'
  OBVIOUS
<1>1. /\ PageInv'
      /\ stack' \in Stacks \cup {Null} /\ (stack' = Null <=> view'.at # "system")
  <2>1. CASE UNCHANGED vars
    BY <2>1 DEF vars, WorkspaceInv, PageInv, OnLogin, OnDocuments, OnContract, OnReview, OnSystem,
       OnCompare, CompareInv, MismatchIsFlagged, PairOfOneContract, OnAssistant, AssistantInv,
       Bounded
  <2>2. CASE Next
    BY <2>2, OpenPageStep, RoutingStep DEF Next
  <2>3. QED
    BY <2>1, <2>2
<1>2. QED
  BY <1>1, SharedStep DEF WorkspaceInv

LEMMA WorkspaceAlways == Spec => []WorkspaceInv
BY WorkspaceInitially, WorkspaceInvStep, PTL DEF Spec


(***************************************************************************)
(* Theorems                                                                *)
(***************************************************************************)

LEMMA HooksAreGood ==
    ASSUME WorkspaceInv
    PROVE  \A hook \in Hooks : GoodHook(hook)
<1>1. PageInv
  BY DEF WorkspaceInv
<1>2. CASE view.at \in {"dashboard", "risk"}
  <2>1. OnReview(view)
    BY <1>1, <1>2, WhichPage
  <2>2. QED
    BY <1>2, <2>1 DEF Hooks, OnReview
<1>3. CASE view.at = "contract"
  <2>1. OnContract(view)
    BY <1>1, <1>3, WhichPage
  <2>2. QED
    BY <1>3, <2>1 DEF Hooks, OnContract
<1>4. CASE view.at = "compare"
  <2>1. OnCompare
    BY <1>1, <1>4, WhichPage
  <2>2. QED
    BY <1>4, <2>1 DEF Hooks, OnCompare, CompareInv, GoodHook
<1>5. CASE view.at = "system"
  <2>1. OnSystem(view)
    BY <1>1, <1>5, WhichPage
  <2>2. QED
    BY <1>5, <2>1 DEF Hooks, OnSystem
<1>6. CASE view.at \notin {"dashboard", "risk", "contract", "compare", "system"}
  BY <1>6 DEF Hooks
<1>7. QED
  BY <1>2, <1>3, <1>4, <1>5, <1>6

LEMMA WorkspaceMeans ==
    ASSUME WorkspaceInv
    PROVE  /\ TypeOK /\ SpinnersAreHonest /\ MismatchIsFlagged
           /\ BusyMeansAsking /\ AnswerAtItsQuestion
<1>1. PageInv
  BY DEF WorkspaceInv
<1>2. \A hook \in Hooks : IsHook(hook) /\ LoadingIsAwaiting(hook) /\ hook.error \in ErrorCodes \cup {Null}
  BY HooksAreGood DEF GoodHook
<1>3. \A hook \in Hooks : hook.loading \in BOOLEAN
  BY <1>2 DEF IsHook
<1>4. view.at = "compare" => PairOfOneContract /\ MismatchIsFlagged
  BY <1>1, WhichPage DEF OnCompare, CompareInv
<1>5. PairOfOneContract /\ MismatchIsFlagged
  BY <1>4 DEF PairOfOneContract, MismatchIsFlagged
<1>6. ASSUME view.at = "assistant"
      PROVE  /\ view.focusTurn \in 1..MaxTurns /\ view.active \in 1..3 \cup {Null}
             /\ \A ask \in view.asks : ask.index \in DOMAIN view.turns /\ ask.step \in 0..AgentSteps
             /\ BusyMeansAsking /\ AnswerAtItsQuestion
  <2>1. OnAssistant
    BY <1>1, <1>6, WhichPage
  <2>2. QED
    BY <2>1, ConversationMeans DEF OnAssistant, Bounded, AssistantInv, Conversation, AskHasTurn
<1>7. BusyMeansAsking /\ AnswerAtItsQuestion
  BY <1>6 DEF BusyMeansAsking, AnswerAtItsQuestion
<1>8. TypeOK
  BY <1>2, <1>3, <1>5, <1>6 DEF TypeOK, WorkspaceInv
<1>9. QED
  BY <1>2, <1>5, <1>7, <1>8 DEF SpinnersAreHonest

\* What the pages share and what each of them adds has its type: the pair on the
\* compare page is of one contract, the assistant's calls and its focus stay in range.
THEOREM WorkspaceTyped == Spec => []TypeOK
BY WorkspaceAlways, WorkspaceMeans, PTL

\* On every page the spinner means that the newest call is out, whichever links the
\* user follows and in whatever order calls end.
THEOREM SpinnersAlwaysHonest == Spec => []SpinnersAreHonest
BY WorkspaceAlways, WorkspaceMeans, PTL

\* The compare page may be left and come back to: rows under labels they were not
\* made for are still marked as such.
THEOREM WorkspaceRowsMatch == Spec => []MismatchIsFlagged
BY WorkspaceAlways, WorkspaceMeans, PTL

\* Links to and from the assistant, and its own entry in the sidebar, leave no
\* question open without a call and no call without its question.
THEOREM WorkspaceConversation == Spec => []BusyMeansAsking /\ []AnswerAtItsQuestion
BY WorkspaceAlways, WorkspaceMeans, PTL

\* As long as the user stays, no step of the workspace touches a turn that has its
\* answer or its error.
THEOREM WorkspaceKeepsTurns == Spec => SettledTurnIsFinal
<1>1. ASSUME WorkspaceInv, [Next]_vars
      PROVE  [view.at = "assistant" /\ view'.at = "assistant" =>
                \A i \in DOMAIN view.turns \cap DOMAIN view'.turns :
                  ~isOpen(view.turns[i]) => view'.turns[i] = view.turns[i]]_<<view>>
  <2> SUFFICES ASSUME view.at = "assistant", view'.at = "assistant", view' # view
               PROVE  TurnsKept
    BY DEF TurnsKept
  <2>1. OnAssistant
    BY <1>1, WhichPage DEF WorkspaceInv
  <2>2. AssistantNext \/ StayWithAssistant
    <3>1. ~CompareNext /\ ~ReadingNext /\ ~LoginNext /\ ~SystemNext
      BY DEF CompareNext, ReadingNext, LoginNext, SystemNext
    <3>2. \A page : ~Follow(page)
      BY DEF Follow, Shows
    <3>3. \A page \in {DashboardView, LoginForm} : ~Load(page)
      BY DEF Load, Shows, DashboardView, LoginForm
    <3>4. QED
      BY <1>1, <3>1, <3>2, <3>3 DEF Next, Routing, vars
  <2>3. QED
    BY <2>1, <2>2, AssistantStep, StayStep
<1>2. QED
  BY <1>1, WorkspaceAlways, PTL DEF Spec, SettledTurnIsFinal

(***************************************************************************)
(* What the pages were answered                                            *)
(***************************************************************************)

\* The data a page shows is what it asked for: the comparison of two versions of
\* one contract, the contract of the address, the findings, the overview.
CompareData(v) ==
    /\ v.docId \in versioned
    /\ \/ v.hook.data = Null
       \/ \E id \in versioned : \E l, r \in ToSet(demoVersions[id]) :
            v.hook.data = Comparison(<<l, r>>)
ContractData(v) ==
    /\ useDemoData \/ v.id \in DOMAIN Library
    /\ \A r \in Fresh(v.hook) : r.arg = v.id
    /\ v.hook.data = Null \/ v.hook.data = Contract(v.id)
RiskData(v) == v.hook.data = Null \/ v.hook.data = riskFindings
DashboardData(v) ==
    v.hook.data = Null \/ v.hook.data = <<documentList, riskFindings, demoKeyDates>>

GoodData(v) ==
    /\ v.at = "compare"   => CompareData(v)
    /\ v.at = "contract"  => ContractData(v)
    /\ v.at = "risk"      => RiskData(v)
    /\ v.at = "dashboard" => DashboardData(v)
DataInv == GoodData(view)

\* Only the browser that loads the app chooses where its data come from.
LEMMA ModeKept ==
    ASSUME [Next]_vars
    PROVE  useDemoData' = useDemoData
<1>1. ASSUME UNCHANGED clientVars
      PROVE  useDemoData' = useDemoData
  BY <1>1 DEF clientVars
<1>2. CASE AssistantNext
  BY <1>1, <1>2 DEF AssistantNext, AskingNext, Settling, AnswerReadingNext, AskFromLink, Submit,
     AskSuggested, RetryTurn, TickSteps, Failed, Answered, FocusTurn, Cite, SelectEvidence,
     ClearScope, Becomes
<1>3. CASE CompareNext
  BY <1>1, <1>3 DEF CompareNext, SelectDocument, SelectLeft, SelectRight, RetryCompare, Selected,
     CompareSettles, Becomes
<1>4. CASE ReadingNext
  BY <1>1, <1>4 DEF ReadingNext, RetryPage, ContractSettles, Select, RiskSettles,
     DashboardSettles, Becomes
<1>5. CASE LoginNext
  BY <1>1, <1>5 DEF LoginNext, SignIn, SignInFails, SignedIn, Becomes
<1>6. CASE SystemNext
  BY <1>1, <1>6 DEF SystemNext, ProbeStep, StackMoves, LivenessReplied, LivenessFails,
     ReadinessRead, ReadinessReplied, ReadinessFails, Refresh, ApiMoves, DependencyMoves, Becomes
<1>7. CASE Routing
  BY <1>1, <1>7 DEF Routing, Follow, StayWithAssistant, Load, Becomes
<1>8. CASE UNCHANGED vars
  BY <1>1, <1>8 DEF vars
<1>9. QED
  BY <1>2, <1>3, <1>4, <1>5, <1>6, <1>7, <1>8 DEF Next

LEMMA DataPrimed ==
    ASSUME useDemoData' = useDemoData, GoodData(view')
    PROVE  DataInv'
<1>1. CompareData(view') => CompareData(view)'
  BY DEF CompareData, Comparison
<1>2. ContractData(view') => ContractData(view)'
  BY DEF ContractData, Contract
<1>3. RiskData(view') => RiskData(view)'
  BY DEF RiskData, riskFindings
<1>4. DashboardData(view') => DashboardData(view)'
  BY DEF DashboardData, riskFindings, documentList
<1>5. QED
  BY <1>1, <1>2, <1>3, <1>4 DEF GoodData, DataInv

\* What a page that was just opened was answered: nothing.
LEMMA MountedData ==
    ASSUME NEW arg
    PROVE  Mounted(arg).data = Null /\ \A r \in Fresh(Mounted(arg)) : r.arg = arg
BY MountedHook DEF Mounted

LEMMA AssistantData ==
    ASSUME NEW q, NEW doc
    PROVE  GoodData(AssistantView(q, doc))
<1>1. AssistantView(q, doc).at = "assistant"
  BY DEF AssistantView
<1>2. QED
  BY <1>1 DEF GoodData

LEMMA SidebarData ==
    ASSUME NEW page \in SidebarPages \cup {LoginForm}
    PROVE  GoodData(page)
<1>1. CASE page = CompareView
  <2>1. page.docId = "d-100" /\ page.hook.data = Null /\ page.at = "compare"
    BY <1>1, MountedData DEF CompareView
  <2>2. "d-100" \in versioned
    <3>1. "d-100" \in demoIds
      BY VersionsOfDemo
    <3>2. demoVersions["d-100"] = <<"v-100-1", "v-100-2">>
      BY <3>1 DEF demoVersions
    <3>3. Len(demoVersions["d-100"]) = 2
      BY <3>2
    <3>4. QED
      BY <3>1, <3>3 DEF versioned
  <2>3. QED
    BY <2>1, <2>2 DEF GoodData, CompareData
<1>2. CASE page \in {DashboardView, RiskView}
  <2>1. page.hook.data = Null /\ page.at \in {"risk", "dashboard"}
    BY <1>2, MountedData DEF DashboardView, RiskView
  <2>2. QED
    BY <2>1 DEF GoodData, RiskData, DashboardData
<1>3. CASE page \in {[at |-> "documents"], SystemView, LoginForm}
  <2>1. page.at \in {"documents", "system", "login"}
    BY <1>3 DEF SystemView, LoginForm
  <2>2. QED
    BY <2>1 DEF GoodData
<1>4. CASE page = AssistantView(Null, Null)
  BY <1>4, AssistantData
<1>5. QED
  BY <1>1, <1>2, <1>3, <1>4 DEF SidebarPages

LEMMA ContractOpened ==
    ASSUME NEW id, useDemoData \/ id \in DOMAIN Library
    PROVE  GoodData(ContractDetailView(id))
<1> DEFINE page == ContractDetailView(id)
<1>1. page.at = "contract" /\ page.id = id /\ page.hook = Mounted(id)
  BY DEF ContractDetailView
<1> HIDE DEF page
<1>2. GoodData(page)
  BY <1>1, MountedData DEF GoodData, ContractData
<1>3. QED
  BY <1>2 DEF page


LEMMA TenantTypes ==
    /\ \A id \in DOMAIN Library : Library[id] \in Seq(ClauseType(STRING))
    /\ TenantDocs \in Seq(DocumentType(DOMAIN Library))
    /\ TenantFindings \in Seq(FindingType(DOMAIN Library, STRING))
BY TenantAssumption, Zenon DEF ClauseType, DocumentType, FindingType

LEMMA FoundInLibrary ==
    /\ \A i \in DOMAIN TenantFindings : TenantFindings[i].documentId \in DOMAIN Library
    /\ \A i \in DOMAIN TenantDocs : TenantDocs[i].id \in DOMAIN Library
<1> DEFINE ids == DOMAIN Library
<1> HIDE DEF ids
<1>1. TenantFindings \in Seq(FindingType(ids, STRING)) /\ TenantDocs \in Seq(DocumentType(ids))
  BY TenantTypes DEF ids
<1>2. \A i \in DOMAIN TenantFindings : TenantFindings[i] \in FindingType(ids, STRING)
  BY <1>1
<1>3. \A i \in DOMAIN TenantDocs : TenantDocs[i] \in DocumentType(ids)
  BY <1>1
<1>4. \A i \in DOMAIN TenantFindings : TenantFindings[i].documentId \in ids
  BY <1>2 DEF FindingType
<1>5. \A i \in DOMAIN TenantDocs : TenantDocs[i].id \in ids
  BY <1>3 DEF DocumentType
<1>6. QED
  BY <1>4, <1>5 DEF ids

LEMMA QueueIds ==
    ASSUME ~useDemoData, NEW item \in ToSet(ProcessingQueue(TenantDocs))
    PROVE  item.id \in DOMAIN Library
<1> DEFINE n == IF Len(TenantDocs) < 5 THEN Len(TenantDocs) ELSE 5
           steps(i) == PipelineStepper(TenantDocs[i].status, "PROCESSING")
           queue == ProcessingQueue(TenantDocs)
<1>1. queue = [i \in 1..n |-> [id |-> TenantDocs[i].id, steps |-> steps(i)]]
  BY DEF ProcessingQueue
<1>2. Len(TenantDocs) \in Nat /\ DOMAIN TenantDocs = 1..Len(TenantDocs)
  BY TenantTypes
<1> HIDE DEF steps, queue
<1>3. PICK i \in 1..n : item = queue[i]
  BY <1>1 DEF ToSet, queue
<1>4. item.id = TenantDocs[i].id
  BY <1>1, <1>3
<1>5. i \in DOMAIN TenantDocs
  BY <1>2
<1>6. QED
  BY <1>4, <1>5, FoundInLibrary

\* A link leads to a contract there is.
LEMMA LinkData ==
    ASSUME DataInv, NEW page \in Links
    PROVE  GoodData(page)
<1>1. CASE view.at = "dashboard"
  <2>1. view.hook.data # Null
    BY <1>1, Zenon DEF Links, DashboardBody
  <2>2. view.hook.data = <<documentList, riskFindings, demoKeyDates>>
    BY <1>1, <2>1 DEF DataInv, GoodData, DashboardData
  <2>3. view.hook.data[1] = documentList
    BY <2>2
  <2>4. \/ \E q : page = AssistantView(q, Null)
        \/ \E item \in ToSet(ProcessingQueue(view.hook.data[1])) : page = ContractDetailView(item.id)
    BY <1>1, Zenon DEF Links
  <2>5. CASE \E q : page = AssistantView(q, Null)
    BY <2>5, AssistantData
  <2>6. ASSUME NEW item \in ToSet(ProcessingQueue(view.hook.data[1])), page = ContractDetailView(item.id)
        PROVE  GoodData(page)
    <3>1. ~useDemoData => documentList = TenantDocs
      BY DEF documentList
    <3>2. useDemoData \/ item.id \in DOMAIN Library
      BY <2>3, <2>6, <3>1, QueueIds
    <3>3. QED
      BY <2>6, <3>2, ContractOpened
  <2>7. QED
    BY <2>4, <2>5, <2>6
<1>2. CASE view.at \in {"documents", "assistant"}
  <2>1. \E id \in ContractIds : page = ContractDetailView(id)
    <3>1. CASE view.at = "documents"
      BY <3>1, Zenon DEF Links
    <3>2. CASE view.at = "assistant"
      BY <3>2, Zenon DEF Links
    <3>3. QED
      BY <1>2, <3>1, <3>2
  <2>2. QED
    BY <2>1, ContractOpened DEF ContractIds
<1>3. CASE view.at = "contract"
  <2>1. page = AssistantView(Null, view.hook.data.id)
    BY <1>3, Zenon DEF Links
  <2>2. QED
    BY <2>1, AssistantData
<1>4. CASE view.at = "risk"
  <2>1. PICK i \in RiskBody("all") : page = ContractDetailView(view.hook.data[i].documentId)
    BY <1>4, Zenon DEF Links
  <2>2. view.hook.data # Null /\ i \in DOMAIN view.hook.data
    BY <2>1 DEF RiskBody, OfLevel
  <2>3. view.hook.data = riskFindings
    BY <1>4, <2>2 DEF DataInv, GoodData, RiskData
  <2>4. useDemoData \/ view.hook.data[i].documentId \in DOMAIN Library
    BY <2>2, <2>3, FoundInLibrary DEF riskFindings
  <2>5. QED
    BY <2>1, <2>4, ContractOpened
<1>5. CASE view.at \notin {"dashboard", "documents", "contract", "risk", "assistant"}
  BY <1>5 DEF Links
<1>6. QED
  BY <1>1, <1>2, <1>3, <1>4, <1>5


\* What a hook holds after its page has called again, or an answer has settled.
LEMMA CalledData ==
    ASSUME NEW h, GoodHook(h), NEW arg
    PROVE  Called(h, arg).data = h.data /\ \A r \in Fresh(Called(h, arg)) : r.arg = arg
BY CalledHook, HookWrites DEF GoodHook, Request

LEMMA SettledData ==
    ASSUME NEW h, GoodHook(h), NEW r \in h.open, NEW data, NEW outcome \in Results(data)
    PROVE  /\ Fresh(Settled(h, r, outcome)) \subseteq Fresh(h)
           /\ \/ Settled(h, r, outcome).data = h.data
              \/ r \in Fresh(h) /\ Settled(h, r, outcome).data = data
<1>1. IsHook(h) /\ LoadingIsAwaiting(h)
  BY DEF GoodHook
<1>2. Fresh(Settled(h, r, outcome)) \subseteq Fresh(h)
  BY <1>1, SettledHook
<1>3. ~outcome.ok \/ (outcome.ok /\ outcome.data = data)
  BY DEF Results, Result, ApiError
<1>4. r.stale \in BOOLEAN
  BY <1>1 DEF IsHook, IsRequest
<1>5. /\ r.stale => Settled(h, r, outcome).data = h.data
      /\ ~r.stale /\ outcome.ok => Settled(h, r, outcome).data = outcome.data
      /\ ~r.stale /\ ~outcome.ok => Settled(h, r, outcome).data = h.data
  BY <1>1, HookWrites
<1>6. QED
  BY <1>2, <1>3, <1>4, <1>5 DEF Fresh

LEMMA ContractDataStep ==
    ASSUME OnContract(view), ContractData(view), ReadingNext
    PROVE  view'.at = "contract" /\ ContractData(view')
<1>1. view.at = "contract" /\ GoodHook(view.hook)
      /\ view = [at |-> "contract", id |-> view.id, hook |-> view.hook, selected |-> view.selected]
  BY DEF OnContract
<1>2. ASSUME NEW hook, view' = [view EXCEPT !.hook = hook],
             \A r \in Fresh(hook) : r.arg = view.id,
             hook.data \in {Null, Contract(view.id)}
      PROVE  view'.at = "contract" /\ ContractData(view')
  <2>1. view'.at = "contract" /\ view'.id = view.id /\ view'.hook = hook
    BY <1>1, <1>2
  <2>2. QED
    BY <1>2, <2>1 DEF ContractData
<1>3. view.hook.data \in {Null, Contract(view.id)} /\ \A r \in Fresh(view.hook) : r.arg = view.id
  BY DEF ContractData
<1>4. CASE RetryPage(view.id)
  <2>1. view' = [view EXCEPT !.hook = Called(view.hook, view.id)]
    BY <1>4 DEF RetryPage, Becomes
  <2>2. QED
    BY <1>1, <1>2, <1>3, <2>1, CalledData
<1>5. ASSUME NEW request \in view.hook.open, ContractSettles(request)
      PROVE  view'.at = "contract" /\ ContractData(view')
  <2>1. PICK outcome \in Results(Contract(request.arg)) :
          view' = [view EXCEPT !.hook = Settled(view.hook, request, outcome)]
    BY <1>5 DEF ContractSettles, Becomes
  <2> DEFINE hook == Settled(view.hook, request, outcome)
  <2>2. /\ Fresh(hook) \subseteq Fresh(view.hook)
        /\ \/ hook.data = view.hook.data
           \/ request \in Fresh(view.hook) /\ hook.data = Contract(request.arg)
    BY <1>1, SettledData
  <2> HIDE DEF hook
  <2>3. hook.data \in {Null, Contract(view.id)}
    BY <1>3, <2>2
  <2>4. view' = [view EXCEPT !.hook = hook]
    BY <2>1 DEF hook
  <2>5. QED
    BY <1>2, <1>3, <2>2, <2>3, <2>4
<1>6. ASSUME NEW clause, Select(clause)
      PROVE  view'.at = "contract" /\ ContractData(view')
  <2>1. view' = [view EXCEPT !.selected = clause.id]
    BY <1>6 DEF Select, Becomes
  <2>2. view'.at = "contract" /\ view'.id = view.id /\ view'.hook = view.hook
    BY <1>1, <2>1
  <2>3. QED
    BY <2>2 DEF ContractData
<1>7. QED
  BY <1>1, <1>4, <1>5, <1>6 DEF ReadingNext

LEMMA ReviewDataStep ==
    ASSUME OnReview(view), GoodData(view), ReadingNext
    PROVE  view'.at = view.at /\ GoodData(view')
<1> DEFINE data == IF view.at = "risk" THEN riskFindings
                   ELSE <<documentList, riskFindings, demoKeyDates>>
<1>1. view.at \in {"risk", "dashboard"} /\ GoodHook(view.hook)
      /\ view = [at |-> view.at, hook |-> view.hook]
  BY DEF OnReview
<1>2. view.hook.data \in {Null, data}
  BY <1>1 DEF GoodData, RiskData, DashboardData
<1>3. ASSUME NEW hook, view' = [view EXCEPT !.hook = hook], hook.data \in {Null, data}
      PROVE  view'.at = view.at /\ GoodData(view')
  <2>1. view'.at = view.at /\ view'.hook = hook
    BY <1>1, <1>3
  <2>2. QED
    BY <1>1, <1>3, <2>1 DEF GoodData, RiskData, DashboardData
<1>4. ASSUME NEW arg, RetryPage(arg)
      PROVE  view'.at = view.at /\ GoodData(view')
  <2>1. view' = [view EXCEPT !.hook = Called(view.hook, arg)]
    BY <1>4 DEF RetryPage, Becomes
  <2>2. QED
    BY <1>1, <1>2, <1>3, <2>1, CalledData
<1>5. ASSUME NEW request \in view.hook.open, NEW outcome \in Results(data),
             view' = [view EXCEPT !.hook = Settled(view.hook, request, outcome)]
      PROVE  view'.at = view.at /\ GoodData(view')
  <2> DEFINE hook == Settled(view.hook, request, outcome)
  <2> HIDE DEF data
  <2>1. hook.data = view.hook.data \/ hook.data = data
    BY <1>1, SettledData
  <2> HIDE DEF hook
  <2>2. hook.data \in {Null, data} /\ view' = [view EXCEPT !.hook = hook]
    BY <1>2, <1>5, <2>1 DEF hook
  <2>3. QED
    BY <1>3, <2>2
<1>6. ASSUME view.at = "risk", NEW request \in view.hook.open, RiskSettles(request)
      PROVE  view'.at = view.at /\ GoodData(view')
  <2>1. data = riskFindings
    BY <1>6
  <2> HIDE DEF data
  <2>2. QED
    BY <1>5, <1>6, <2>1 DEF RiskSettles, Becomes
<1>7. ASSUME view.at = "dashboard", NEW request \in view.hook.open, DashboardSettles(request)
      PROVE  view'.at = view.at /\ GoodData(view')
  <2> PICK listed \in Results(documentList), found \in Results(riskFindings) :
        Becomes([view EXCEPT !.hook =
                   Settled(view.hook, request, All(<<listed, found, Result(demoKeyDates)>>))])
    BY <1>7 DEF DashboardSettles
  <2> DEFINE outcomes == <<listed, found, Result(demoKeyDates)>>
  <2>1. data = <<documentList, riskFindings, demoKeyDates>>
    BY <1>7
  <2>2. All(outcomes) = Result(data) \/ ~All(outcomes).ok
    <3>1. DOMAIN outcomes = 1..3 /\ outcomes[1] = listed /\ outcomes[2] = found
          /\ outcomes[3] = Result(demoKeyDates)
      OBVIOUS
    <3> HIDE DEF outcomes
    <3>2. CASE \A i \in DOMAIN outcomes : outcomes[i].ok
      <4>1. listed.ok /\ found.ok
        BY <3>1, <3>2
      <4>2. listed.data = documentList /\ found.data = riskFindings
            /\ Result(demoKeyDates).data = demoKeyDates
        BY <4>1 DEF Results, Result, ApiError
      <4>3. [i \in DOMAIN outcomes |-> outcomes[i].data] = data
        BY <2>1, <3>1, <4>2
      <4>4. All(outcomes) = Result([i \in DOMAIN outcomes |-> outcomes[i].data])
        BY <3>2 DEF All
      <4>5. QED
        BY <4>3, <4>4, Zenon
    <3>3. CASE \E i \in DOMAIN outcomes : ~outcomes[i].ok
      <4> DEFINE i == CHOOSE i \in DOMAIN outcomes : ~outcomes[i].ok
      <4>1. ~outcomes[i].ok
        BY <3>3
      <4>2. All(outcomes) = outcomes[i]
        BY <3>3 DEF All
      <4> HIDE DEF i
      <4>3. QED
        BY <4>1, <4>2
    <3>4. QED
      BY <3>2, <3>3
  <2> DEFINE outcome == All(outcomes)
             hook == Settled(view.hook, request, outcome)
  <2>3. view' = [view EXCEPT !.hook = hook]
    BY DEF Becomes
  <2> HIDE DEF outcomes, data, outcome
  <2>4. hook.data = view.hook.data \/ hook.data = data
    <3>1. Result(data).ok /\ Result(data).data = data
      BY DEF Result
    <3>2. ~outcome.ok \/ (outcome.ok /\ outcome.data = data)
      BY <2>2, <3>1 DEF outcome
    <3>3. IsHook(view.hook) /\ LoadingIsAwaiting(view.hook) /\ request.stale \in BOOLEAN
      BY <1>1 DEF GoodHook, IsHook, IsRequest
    <3>4. /\ request.stale => hook.data = view.hook.data
          /\ ~request.stale /\ outcome.ok => hook.data = outcome.data
          /\ ~request.stale /\ ~outcome.ok => hook.data = view.hook.data
      BY <3>3, HookWrites
    <3>5. QED
      BY <3>2, <3>3, <3>4
  <2> HIDE DEF hook
  <2>5. hook.data \in {Null, data}
    BY <1>2, <2>4
  <2>6. QED
    BY <1>3, <2>3, <2>5
<1>8. QED
  BY <1>1, <1>4, <1>6, <1>7 DEF ReadingNext


LEMMA CompareDataStep ==
    ASSUME OnCompare, CompareData(view), CompareNext
    PROVE  view'.at = "compare" /\ CompareData(view')
<1>1. /\ view.at = "compare" /\ GoodHook(view.hook)
      /\ view.docId \in versioned
      /\ view.left \in ToSet(demoVersions[view.docId])
      /\ view.right \in ToSet(demoVersions[view.docId])
      /\ \A r \in Fresh(view.hook) : r.arg = <<view.left, view.right>>
  BY DEF OnCompare, CompareInv, PairOfOneContract, CompareData, GoodHook
<1>2. ASSUME NEW id \in versioned, NEW left, NEW right, Selected(id, left, right)
      PROVE  view'.at = "compare" /\ CompareData(view')
  <2> DEFINE hook == Called(view.hook, <<left, right>>)
  <2>1. view' = [at |-> "compare", docId |-> id, left |-> left, right |-> right, hook |-> hook]
    BY <1>2, SelectedPage DEF OnCompare
  <2>2. hook.data = view.hook.data
    BY <1>1, CalledData
  <2> HIDE DEF hook
  <2>3. view'.at = "compare" /\ view'.docId = id /\ view'.hook = hook
    BY <2>1
  <2>4. QED
    BY <2>2, <2>3 DEF CompareData
<1>3. ASSUME NEW id \in versioned, SelectDocument(id)
      PROVE  view'.at = "compare" /\ CompareData(view')
  BY <1>2, <1>3 DEF SelectDocument
<1>4. ASSUME NEW v, SelectLeft(v) \/ SelectRight(v)
      PROVE  view'.at = "compare" /\ CompareData(view')
  BY <1>1, <1>2, <1>4 DEF SelectLeft, SelectRight
<1>5. CASE RetryCompare
  BY <1>1, <1>2, <1>5 DEF RetryCompare
<1>6. ASSUME NEW request \in view.hook.open, CompareSettles(request)
      PROVE  view'.at = "compare" /\ CompareData(view')
  <2>1. PICK outcome \in Results(Comparison(request.arg)) :
          view' = [view EXCEPT !.hook = Settled(view.hook, request, outcome)]
    BY <1>6 DEF CompareSettles, Becomes
  <2> DEFINE hook == Settled(view.hook, request, outcome)
  <2>2. \/ hook.data = view.hook.data
        \/ request \in Fresh(view.hook) /\ hook.data = Comparison(request.arg)
    BY <1>1, SettledData
  <2>3. view' = [view EXCEPT !.hook = hook]
    BY <2>1
  <2> HIDE DEF hook
  <2>4. view'.at = "compare" /\ view'.docId = view.docId /\ view'.hook = hook
    BY <2>3 DEF OnCompare, CompareInv
  <2>5. CASE hook.data = view.hook.data
    BY <2>4, <2>5 DEF CompareData
  <2>6. CASE request \in Fresh(view.hook) /\ hook.data = Comparison(request.arg)
    <3>1. hook.data = Comparison(<<view.left, view.right>>)
      BY <1>1, <2>6
    <3>2. QED
      BY <1>1, <2>4, <3>1 DEF CompareData
  <2>7. QED
    BY <2>2, <2>5, <2>6
<1>7. QED
  BY <1>3, <1>4, <1>5, <1>6 DEF CompareNext

LEMMA DataInitially == Init => DataInv
BY SidebarData DEF Init, DataInv

LEMMA DataStep == WorkspaceInv /\ DataInv /\ [Next]_vars => DataInv'
<1> SUFFICES ASSUME WorkspaceInv, DataInv, [Next]_vars
             PROVE  GoodData(view')
  BY ModeKept, DataPrimed
<1>1. PageInv /\ PageInv'
  BY WorkspaceInvStep DEF WorkspaceInv
<1>2. CASE AssistantNext
  <2>1. OnAssistant
    BY <1>1, <1>2, WhichPage DEF AssistantNext
  <2>2. OnAssistant'
    BY <1>2, <2>1, AssistantStep
  <2>3. view'.at = "assistant"
    BY <2>2 DEF OnAssistant, AssistantInv, IsAssistant, Page
  <2>4. QED
    BY <2>3 DEF GoodData
<1>3. CASE CompareNext
  <2>1. OnCompare /\ CompareData(view)
    BY <1>1, <1>3, WhichPage DEF CompareNext, DataInv, GoodData
  <2>2. QED
    BY <1>3, <2>1, CompareDataStep DEF GoodData
<1>4. CASE ReadingNext
  <2>1. CASE view.at = "contract"
    <3>1. OnContract(view) /\ ContractData(view)
      BY <1>1, <2>1, WhichPage DEF DataInv, GoodData
    <3>2. QED
      BY <1>4, <3>1, ContractDataStep DEF GoodData
  <2>2. CASE view.at \in {"risk", "dashboard"}
    BY <1>1, <1>4, <2>2, WhichPage, ReviewDataStep DEF DataInv
  <2>3. QED
    BY <1>4, <2>1, <2>2 DEF ReadingNext
<1>5. CASE LoginNext
  <2>1. CASE SignedIn
    <3>1. view' = DashboardView
      BY <2>1 DEF SignedIn
    <3>2. QED
      BY <3>1, SidebarData DEF SidebarPages
  <2>2. CASE SignIn \/ SignInFails
    <3>1. PICK l, e : view = [at |-> "login", loading |-> l, error |-> e]
      BY <1>1, <1>5, WhichPage DEF LoginNext, OnLogin
    <3>2. view' \in {[view EXCEPT !.loading = TRUE, !.error = Null],
                     [view EXCEPT !.loading = FALSE, !.error = "SERVER_ERROR"]}
      BY <2>2 DEF SignIn, SignInFails, Becomes
    <3>3. view'.at = "login"
      BY <3>1, <3>2
    <3>4. QED
      BY <3>3 DEF GoodData
  <2>3. QED
    BY <1>5, <2>1, <2>2 DEF LoginNext
<1>6. CASE SystemNext
  <2>1. OnSystem(view)
    BY <1>1, <1>6, WhichPage DEF SystemNext
  <2>2. OnSystem(view')
    BY <1>6, <2>1, SystemStep
  <2>3. view'.at = "system"
    BY <2>2 DEF OnSystem
  <2>4. QED
    BY <2>3 DEF GoodData
<1>7. CASE Routing
  <2>1. ASSUME NEW page \in SidebarPages \cup Links, Follow(page)
        PROVE  GoodData(view')
    <3>1. view' = page
      BY <2>1 DEF Follow, Shows
    <3>2. QED
      BY <2>1, <3>1, SidebarData, LinkData
  <2>2. ASSUME NEW page \in {DashboardView, LoginForm}, Load(page)
        PROVE  GoodData(view')
    <3>1. view' = page
      BY <2>2 DEF Load, Shows
    <3>2. QED
      BY <3>1, SidebarData DEF SidebarPages
  <2>3. CASE StayWithAssistant
    <3>1. OnAssistant
      BY <1>1, <2>3, WhichPage DEF StayWithAssistant
    <3>2. OnAssistant'
      BY <2>3, <3>1, StayStep
    <3>3. view'.at = "assistant"
      BY <3>2 DEF OnAssistant, AssistantInv, IsAssistant, Page
    <3>4. QED
      BY <3>3 DEF GoodData
  <2>4. QED
    BY <1>7, <2>1, <2>2, <2>3 DEF Routing
<1>8. CASE UNCHANGED vars
  <2>1. view' = view
    BY <1>8 DEF vars
  <2>2. QED
    BY <2>1 DEF DataInv
<1>9. QED
  BY <1>2, <1>3, <1>4, <1>5, <1>6, <1>7, <1>8 DEF Next

LEMMA DataAlways == Spec => []DataInv
BY WorkspaceAlways, DataInitially, DataStep, PTL DEF Spec


(***************************************************************************)
(* What the pages show                                                     *)
(***************************************************************************)

\* Lists of the lengths the fixtures have.
LEMMA ListsOf ==
    ASSUME NEW T
    PROVE  /\ \A a, b, c, d, e, f, g, h, i, j \in T :
                <<a, b, c, d, e, f, g, h, i, j>> \in Seq(T)
           /\ \A a, b, c, d, e, f, g, h \in T : <<a, b, c, d, e, f, g, h>> \in Seq(T)
           /\ \A a, b, c, d, e, f, g \in T : <<a, b, c, d, e, f, g>> \in Seq(T)
OBVIOUS

\* The fixtures have the types of the answers.
LEMMA DemoTypes ==
    /\ \E T : demoClauses \in Seq(ClauseType(T))
    /\ \E D : demoDocuments \in Seq(DocumentType(D))
    /\ \E D, T : demoRiskFindings \in Seq(FindingType(D, T))
<1>1. \E T : demoClauses \in Seq(ClauseType(T))
  <2> DEFINE T == {"c-3-1", "c-3-2", "c-6-1", "c-8-1", "c-8-2", "c-8-3", "c-11-1", "c-11-2",
                   "c-12-1", "c-17-1", "Term", "Fees and Payment", "Termination",
                   "Limitation of Liability", "Indemnities", "General", "", "medium", "high"}
             C == ClauseType(T)
  <2>1. /\ Clause("c-3-1", "Term", "") \in C /\ Clause("c-3-2", "Term", "medium") \in C
        /\ Clause("c-6-1", "Fees and Payment", "") \in C
        /\ Clause("c-8-1", "Termination", "") \in C /\ Clause("c-8-2", "Termination", "") \in C
        /\ Clause("c-8-3", "Termination", "medium") \in C
        /\ Clause("c-11-1", "Limitation of Liability", "") \in C
        /\ Clause("c-11-2", "Limitation of Liability", "high") \in C
        /\ Clause("c-12-1", "Indemnities", "high") \in C
        /\ Clause("c-17-1", "General", "") \in C
    BY DEF Clause, ClauseType
  <2> HIDE DEF C
  <2>2. demoClauses \in Seq(C)
    BY <2>1, ListsOf, Zenon DEF demoClauses
  <2>3. demoClauses \in Seq(ClauseType(T))
    BY <2>2 DEF C
  <2> HIDE DEF T
  <2>4. QED
    BY <2>3
<1>2. \E D : demoDocuments \in Seq(DocumentType(D))
  <2> DEFINE D == {"d-100", "d-101", "d-102", "d-103", "d-104", "d-105", "d-106", "d-107"}
             C == DocumentType(D)
  <2>1. {"COMPLETED", "EMBEDDING", "OCR_PROCESSING", "FAILED", "QUEUED"} \subseteq DocumentStatus
    BY DEF DocumentStatus, ToSet, DOCUMENT_STATUSES
  <2>2. /\ Doc("d-100", "COMPLETED", 100) \in C /\ Doc("d-101", "EMBEDDING", 72) \in C
        /\ Doc("d-102", "OCR_PROCESSING", 38) \in C /\ Doc("d-103", "COMPLETED", 100) \in C
        /\ Doc("d-104", "COMPLETED", 100) \in C /\ Doc("d-105", "COMPLETED", 100) \in C
        /\ Doc("d-106", "FAILED", 25) \in C /\ Doc("d-107", "QUEUED", 5) \in C
    BY <2>1 DEF Doc, DocumentType
  <2> HIDE DEF C
  <2>3. demoDocuments \in Seq(C)
    BY <2>2, ListsOf, Zenon DEF demoDocuments
  <2>4. demoDocuments \in Seq(DocumentType(D))
    BY <2>3 DEF C
  <2> HIDE DEF D
  <2>5. QED
    BY <2>4
<1>3. \E D, T : demoRiskFindings \in Seq(FindingType(D, T))
  <2> DEFINE D == {"d-100", "d-103", "d-104"}
             T == {"r1", "r2", "r3", "r4", "r5", "r6", "r7", "open", "reviewing", "accepted"}
             C == FindingType(D, T)
  <2>1. /\ Finding("r1", "high", "d-100", "open") \in C
        /\ Finding("r2", "high", "d-100", "reviewing") \in C
        /\ Finding("r3", "high", "d-104", "open") \in C
        /\ Finding("r4", "medium", "d-100", "open") \in C
        /\ Finding("r5", "medium", "d-103", "accepted") \in C
        /\ Finding("r6", "medium", "d-104", "open") \in C
        /\ Finding("r7", "low", "d-100", "accepted") \in C
    BY DEF Finding, FindingType, Levels
  <2> HIDE DEF C
  <2>2. demoRiskFindings \in Seq(C)
    BY <2>1, ListsOf, Zenon DEF demoRiskFindings
  <2>3. demoRiskFindings \in Seq(FindingType(D, T))
    BY <2>2 DEF C
  <2> HIDE DEF D, T
  <2>4. QED
    BY <2>3
<1>4. QED
  BY <1>1, <1>2, <1>3

LEMMA OutlineMeans ==
    ASSUME DataInv
    PROVE  OutlineKeepsClauses
<1> SUFFICES ASSUME view.at = "contract", ContractBody = "contract"
             PROVE  IsOutline(sections, view.hook.data.clauses)
  BY DEF OutlineKeepsClauses
<1>1. view.hook.data # Null
  BY DEF ContractBody
<1>2. view.hook.data = Contract(view.id) /\ (useDemoData \/ view.id \in DOMAIN Library)
  BY <1>1 DEF DataInv, GoodData, ContractData
<1>3. view.hook.data.clauses = IF useDemoData THEN demoClauses ELSE Library[view.id]
  BY <1>2 DEF Contract
<1>4. \E T : view.hook.data.clauses \in Seq(ClauseType(T))
  <2>1. CASE useDemoData
    BY <1>3, <2>1, DemoTypes
  <2>2. CASE ~useDemoData
    BY <1>2, <1>3, <2>2, TenantTypes
  <2>3. QED
    BY <2>1, <2>2
<1>5. QED
  BY <1>4, OutlineExact DEF sections

LEMMA OverviewMeans ==
    ASSUME DataInv
    PROVE  OverviewAddsUp
<1> SUFFICES ASSUME view.at = "dashboard", view.hook.data # Null
             PROVE  OverviewAddsUp
  BY DEF OverviewAddsUp
<1> DEFINE docs == view.hook.data[1]
           findings == view.hook.data[2]
           dates == view.hook.data[3]
           n == IF Len(docs) < 5 THEN Len(docs) ELSE 5
           place(i) == IF useDemoData THEN demoUpdates[i] ELSE i
           steps(i) == PipelineStepper(docs[place(i)].status, "PROCESSING")
           queue == ProcessingQueue(docs)
<1>1. view.hook.data = <<documentList, riskFindings, demoKeyDates>>
  BY DEF DataInv, GoodData, DashboardData
<1>2. docs = documentList /\ findings = riskFindings
  BY <1>1
<1>3. PICK D, E, T : docs \in Seq(DocumentType(D)) /\ findings \in Seq(FindingType(E, T))
  <2>1. CASE useDemoData
    BY <1>2, <2>1, DemoTypes DEF documentList, riskFindings
  <2>2. CASE ~useDemoData
    BY <1>2, <2>2, TenantTypes DEF documentList, riskFindings
  <2>3. QED
    BY <2>1, <2>2
<1>4. queue = [i \in 1..n |-> [id |-> docs[place(i)].id, steps |-> steps(i)]]
  BY DEF ProcessingQueue
<1>5. Len(docs) \in Nat /\ DOMAIN docs = 1..Len(docs)
  BY <1>3
<1>6. useDemoData => docs = demoDocuments /\ Len(docs) = 8
  BY <1>2 DEF documentList, demoDocuments
<1> HIDE DEF docs, findings, dates, queue
<1>7. ASSUME NEW i \in 1..n
      PROVE  docs[place(i)].status \in DocumentStatus
  <2>1. i \in 1..5 /\ i \in 1..Len(docs)
    BY <1>5
  <2>2. place(i) \in DOMAIN docs
    <3>1. CASE useDemoData
      <4>1. demoUpdates[i] \in 1..8
        BY <2>1 DEF demoUpdates
      <4>2. QED
        BY <1>5, <1>6, <3>1, <4>1
    <3>2. CASE ~useDemoData
      BY <1>5, <2>1, <3>2
    <3>3. QED
      BY <3>1, <3>2
  <2> HIDE DEF place, n
  <2>3. docs[place(i)] \in DocumentType(D)
    BY <1>3, <2>2
  <2>4. QED
    BY <2>3 DEF DocumentType
<1>8. ASSUME NEW i \in DOMAIN queue
      PROVE  Cardinality({j \in DOMAIN queue[i].steps : queue[i].steps[j] \in {"active", "failed"}}) =
               IF queue[i].steps[7] = "done" THEN 0 ELSE 1
  <2>1. i \in 1..n
    BY <1>4
  <2> HIDE DEF steps, n
  <2>2. queue[i].steps = steps(i)
    BY <1>4, <2>1
  <2>3. LET s == steps(i)
        IN Cardinality({j \in DOMAIN s : s[j] \in {"active", "failed"}}) = IF s[7] = "done" THEN 0 ELSE 1
    BY <1>7, <2>1, StepperMarks DEF steps
  <2>4. QED
    BY <2>2, <2>3, Zenon
<1>9. LET kpis == computeKpis(docs, findings, dates)
      IN kpis.indexed + kpis.processing + Cardinality(WithStatus(docs, {"FAILED"})) = Len(docs)
  BY <1>3, DocumentsCounted
<1>10. IsExposure(RiskExposure(findings), findings)
  BY <1>3, ExposureExact
<1>11. QED
  BY <1>8, <1>9, <1>10, Zenon DEF OverviewAddsUp, docs, findings, dates, queue

\* What the page draws for a row whose two sides have the topic.
LEMMA SidesExact ==
    ASSUME NEW Tok, NEW row, row.left \in Seq(Tok), row.right \in Seq(Tok),
           row.diff = "changed" \/ (row.diff = "same" /\ row.left = row.right)
    PROVE  IsExactDiff(Sides(row), row.left, row.right)
<1>1. CASE row.diff = "changed"
  <2>1. Sides(row) = wordDiff(row.left, row.right)
    BY <1>1, Zenon DEF Sides
  <2>2. QED
    BY <2>1, DiffExact
<1>2. CASE row.diff = "same" /\ row.left = row.right
  <2> DEFINE t == row.left
             side == IF t = <<>> THEN <<>> ELSE <<[text |-> t, kind |-> "same"]>>
  <2>1. Sides(row) = [left |-> side, right |-> side]
    <3>1. row.diff # "changed"
      BY <1>2
    <3>2. QED
      BY <1>2, <3>1, Zenon DEF Sides
  <2>2. t \in Seq(Tok) /\ row.right = t
    BY <1>2
  <2> HIDE DEF t
  <2>3. IsExactDiff([left |-> side, right |-> side], t, t)
    BY <2>2, SameExact
  <2>4. QED
    BY <2>1, <2>2, <2>3, Zenon DEF t
<1>3. QED
  BY <1>1, <1>2

\* A row of a comparison: one of its sides lacks the topic, or its texts have the
\* same kind of tokens and are the same when the row says so.
Comparable(row) ==
    \/ row.diff = "missing"
    \/ /\ \E Tok : row.left \in Seq(Tok) /\ row.right \in Seq(Tok)
       /\ row.diff = "changed" \/ (row.diff = "same" /\ row.left = row.right)

LEMMA RowComparable ==
    ASSUME NEW Tok, NEW l \in Seq(Tok), NEW r \in Seq(Tok), NEW diff,
           \/ diff = "changed"
           \/ diff = "same" /\ l = r
           \/ diff = "missing"
    PROVE  Comparable(Row(diff, l, r))
<1>1. /\ Row(diff, l, r).diff = diff /\ Row(diff, l, r).left = l /\ Row(diff, l, r).right = r
  BY DEF Row
<1>2. QED
  BY <1>1 DEF Comparable

LEMMA DemoComparable ==
    ASSUME NEW i \in DOMAIN demoComparison
    PROVE  Comparable(demoComparison[i])
<1> DEFINE T == {"not less than", "thirty (30)", "days", "sixty (60)", "the greater of", "5 crore",
                 "or the fees", "the fees", "within", "forty-five (45)", "automatically renew",
                 "The Customer shall indemnify", "governed by"}
<1>1. i \in 1..6
  BY DEF demoComparison
<1>2. CASE i \in {1, 2, 3}
  <2>1. PICK l \in Seq(T), r \in Seq(T) : demoComparison[i] = Row("changed", l, r)
    <3>1. /\ demoComparison[1] = Row("changed", <<"not less than", "thirty (30)", "days">>,
                                     <<"not less than", "sixty (60)", "days">>)
          /\ demoComparison[2] = Row("changed", <<"the greater of", "5 crore", "or the fees">>,
                                     <<"the fees">>)
          /\ demoComparison[3] = Row("changed", <<"within", "thirty (30)", "days">>,
                                     <<"within", "forty-five (45)", "days">>)
      BY DEF demoComparison
    <3>2. /\ <<"not less than", "thirty (30)", "days">> \in Seq(T)
          /\ <<"not less than", "sixty (60)", "days">> \in Seq(T)
          /\ <<"the greater of", "5 crore", "or the fees">> \in Seq(T)
          /\ <<"the fees">> \in Seq(T)
          /\ <<"within", "thirty (30)", "days">> \in Seq(T)
          /\ <<"within", "forty-five (45)", "days">> \in Seq(T)
      OBVIOUS
    <3> HIDE DEF T
    <3>3. QED
      BY <1>2, <3>1, <3>2, Zenon
  <2> HIDE DEF T
  <2>2. QED
    BY <2>1, RowComparable
<1>3. CASE i \in {4, 6}
  <2>1. PICK l \in Seq(T) : demoComparison[i] = Row("same", l, l)
    <3>1. /\ demoComparison[4] = Row("same", <<"automatically renew">>, <<"automatically renew">>)
          /\ demoComparison[6] = Row("same", <<"governed by">>, <<"governed by">>)
      BY DEF demoComparison
    <3>2. <<"automatically renew">> \in Seq(T) /\ <<"governed by">> \in Seq(T)
      OBVIOUS
    <3> HIDE DEF T
    <3>3. QED
      BY <1>3, <3>1, <3>2, Zenon
  <2> HIDE DEF T
  <2>2. QED
    BY <2>1, RowComparable
<1>4. CASE i = 5
  <2>1. demoComparison[5].diff = "missing"
    BY DEF demoComparison, Row
  <2>2. QED
    BY <1>4, <2>1 DEF Comparable
<1>5. QED
  BY <1>1, <1>2, <1>3, <1>4

LEMMA AlignedComparable ==
    ASSUME NEW id \in versioned, NEW l \in ToSet(demoVersions[id]), NEW r \in ToSet(demoVersions[id]),
           NEW i \in DOMAIN Aligned(l, r)
    PROVE  Comparable(Aligned(l, r)[i])
<1>1. l \in versionsToCompare /\ r \in versionsToCompare
  BY DEF versionsToCompare
<1>2. TextOf[l] \in Seq(Seq(Words)) /\ TextOf[r] \in Seq(Seq(Words)) /\ DOMAIN TextOf[l] = DOMAIN TextOf[r]
  <2> HIDE DEF versioned, versionsToCompare
  <2>1. QED
    BY <1>1, TextAssumption
<1>3. i \in DOMAIN TextOf[l]
  BY DEF Aligned
<1> DEFINE T == Seq(Words)
           a == TextOf[l][i]
           b == TextOf[r][i]
           diff == IF a = b THEN "same" ELSE IF a = <<>> \/ b = <<>> THEN "missing" ELSE "changed"
<1> HIDE DEF T
<1>4. a \in T /\ b \in T
  BY <1>2, <1>3 DEF T
<1>5. Aligned(l, r)[i] = Row(diff, a, b)
  BY <1>3 DEF Aligned
<1> HIDE DEF a, b
<1>6. diff = "changed" \/ (diff = "same" /\ a = b) \/ diff = "missing"
  OBVIOUS
<1> HIDE DEF diff
<1>7. Comparable(Row(diff, a, b))
  BY <1>4, <1>6, RowComparable DEF T
<1>8. QED
  BY <1>5, <1>7

LEMMA DiffMeans ==
    ASSUME DataInv
    PROVE  DiffIsExact
<1> SUFFICES ASSUME view.at = "compare", ~view.hook.loading, NEW i \in Rows(FALSE)
             PROVE  LET row == view.hook.data.rows[i]
                    IN row.diff = "missing" \/ IsExactDiff(CompareBody(FALSE)[i], row.left, row.right)
  BY DEF DiffIsExact
<1> DEFINE rows == view.hook.data.rows
<1>1. view.hook.data # Null /\ i \in DOMAIN rows
  BY DEF Rows
<1>2. PICK id \in versioned :
        \E l, r \in ToSet(demoVersions[id]) : view.hook.data = Comparison(<<l, r>>)
  BY <1>1 DEF DataInv, GoodData, CompareData
<1>3. PICK l \in ToSet(demoVersions[id]), r \in ToSet(demoVersions[id]) :
        view.hook.data = Comparison(<<l, r>>)
  BY <1>2
<1>4. rows = IF useDemoData THEN demoComparison ELSE Aligned(l, r)
  BY <1>3 DEF Comparison
<1>5. CompareBody(FALSE)[i] = Sides(rows[i])
  BY DEF CompareBody
<1> HIDE DEF rows
<1>6. Comparable(rows[i])
  <2>1. CASE useDemoData
    BY <1>1, <1>4, <2>1, DemoComparable
  <2>2. CASE ~useDemoData
    <3>1. rows = Aligned(l, r)
      BY <1>4, <2>2
    <3>2. QED
      BY <1>1, <3>1, AlignedComparable, Zenon
  <2>3. QED
    BY <2>1, <2>2
<1>7. rows[i].diff = "missing" \/ IsExactDiff(Sides(rows[i]), rows[i].left, rows[i].right)
  BY <1>6, SidesExact DEF Comparable
<1>8. QED
  BY <1>5, <1>7, Zenon DEF rows

\* The words that are marked on the comparison page are an exact and shortest
\* difference, for all texts of the versions and any history of the page
\* (compare-view.tsx, diff.ts).
THEOREM WorkspaceDiffExact == Spec => []DiffIsExact
BY DataAlways, DiffMeans, PTL

\* The outline of a contract has every clause once, in its section and in order, for
\* every contract of the tenant (contract-detail-view.tsx).
THEOREM WorkspaceOutline == Spec => []OutlineKeepsClauses
BY DataAlways, OutlineMeans, PTL

\* The figures, the queue and the exposure card of the overview account for every
\* contract and every finding (features/dashboard).
THEOREM WorkspaceOverview == Spec => []OverviewAddsUp
BY DataAlways, OverviewMeans, PTL
=============================================================================
