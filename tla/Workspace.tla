------------------------------- MODULE Workspace -------------------------------
(*
The workspace: its pages behind one router (app/, components/layout) and the
sign-in form (features/auth/login-form.tsx). Every page the user follows a link
from drops its state and its pending calls; what survives is the access token,
until the browser loads a page anew. The contracts page has a module of its own,
Documents, and is here only a place to come from and to go to.

Left out: the history buttons, whose effect is that of a link, and the drawer of
small screens.
*)
EXTENDS AssistantPage, ComparePage, ReadingPages, SystemPage

vars == <<clientVars, view, stack>>

(***************************************************************************)
(* Signing in                                                              *)
(***************************************************************************)

LoginForm == [at |-> "login", loading |-> FALSE, error |-> Null]

\* The user submits; the button is disabled while a request is out.
SignIn ==
    /\ ~view.loading
    /\ Becomes([view EXCEPT !.loading = TRUE, !.error = Null])

\* The API returns a token, or the demo needs none; then the overview opens.
SignedIn ==
    /\ view.loading
    /\ IF useDemoData THEN UNCHANGED accessToken ELSE setAccessToken(Token)
    /\ view' = DashboardView
    /\ UNCHANGED useDemoData

SignInFails ==
    /\ ~useDemoData
    /\ view.loading
    /\ Becomes([view EXCEPT !.loading = FALSE, !.error = "SERVER_ERROR"])

LoginNext ==
    /\ view.at = "login"
    /\ SignIn \/ SignedIn \/ SignInFails

(***************************************************************************)
(* Links                                                                   *)
(***************************************************************************)

ContractIds == IF useDemoData THEN demoIds ELSE DOMAIN Library

\* The entries of the sidebar.
SidebarPages ==
    {DashboardView, [at |-> "documents"], AssistantView(Null, Null), CompareView, RiskView, SystemView}

\* What else a page links to.
Links ==
    CASE view.at = "dashboard" ->
           IF DashboardBody = "skeleton" THEN {}
           ELSE {AssistantView(typed.text, Null) : typed \in {t \in Typed : t.length > 0}}
                  \cup {ContractDetailView(item.id) : item \in ToSet(ProcessingQueue(view.hook.data[1]))}
      [] view.at = "documents" -> {ContractDetailView(id) : id \in ContractIds}
      [] view.at = "contract"  ->
           IF ContractBody = "contract" THEN {AssistantView(Null, view.hook.data.id)} ELSE {}
      [] view.at = "risk"      ->
           {ContractDetailView(view.hook.data[i].documentId) : i \in RiskBody("all")}
      [] view.at = "assistant" ->
           IF focused # Null /\ view.active # Null THEN {ContractDetailView(id) : id \in ContractIds} ELSE {}
      [] OTHER                 -> {}

Shows(page) ==
    /\ view' = page
    /\ stack' \in IF page.at = "system" THEN Stacks ELSE {Null}

\* Following a link to another page; the sidebar is on every page but the sign-in.
Follow(page) ==
    /\ view.at # "login"
    /\ page.at # view.at
    /\ Shows(page)
    /\ UNCHANGED clientVars

\* The assistant's own entry removes the question from the address, nothing else.
StayWithAssistant ==
    /\ view.at = "assistant" /\ rendered
    /\ Becomes([view EXCEPT !.q = Null])
    /\ UNCHANGED stack

\* The user opens an address: a new bundle without a token.
Load(page) ==
    /\ Shows(page)
    /\ accessToken' = Null
    /\ UNCHANGED useDemoData

Init ==
    /\ ClientInit
    /\ view \in SidebarPages \cup {LoginForm}
    /\ stack \in IF view.at = "system" THEN Stacks ELSE {Null}

Routing ==
    \/ \E page \in SidebarPages \cup Links : Follow(page)
    \/ StayWithAssistant
    \/ \E page \in {DashboardView, LoginForm} : Load(page)

Next ==
    \/ (AssistantNext \/ CompareNext \/ ReadingNext \/ LoginNext) /\ UNCHANGED stack
    \/ SystemNext
    \/ Routing

\* Requests end, and the effect of a page that was opened runs.
Fairness ==
    /\ WF_vars(view.at = "assistant" /\ (AskFromLink \/ Settling) /\ UNCHANGED stack)
    /\ SystemFairness

Spec == Init /\ [][Next]_vars
FairSpec == Spec /\ Fairness

(***************************************************************************)
(* What the workspace keeps                                                *)
(***************************************************************************)

Hooks ==
    CASE view.at \in {"dashboard", "contract", "risk", "compare"} -> {view.hook}
      [] view.at = "system"                                       -> {view.live, view.ready}
      [] OTHER                                                    -> {}

\* The types of what pages share, and of what each of them adds.
TypeOK ==
    /\ useDemoData \in BOOLEAN /\ accessToken \in {Null, Token}
    /\ stack \in Stacks \cup {Null} /\ (stack = Null <=> view.at # "system")
    /\ \A hook \in Hooks : hook.error \in ErrorCodes \cup {Null} /\ hook.loading \in BOOLEAN
    /\ view.at = "assistant" =>
         /\ view.focusTurn \in 1..MaxTurns /\ view.active \in 1..3 \cup {Null}
         /\ \A ask \in view.asks : ask.index \in DOMAIN view.turns /\ ask.step \in 0..AgentSteps
    /\ PairOfOneContract

\* On every page the spinner means that the newest call is out, and nothing else.
SpinnersAreHonest == \A hook \in Hooks : LoadingIsAwaiting(hook)

\* A question ends with its answer or its error, unless the user leaves the page.
QuestionsEnd ==
    (view.at = "assistant" /\ (busy \/ ~rendered)) ~> ~(view.at = "assistant" /\ busy)
=============================================================================
