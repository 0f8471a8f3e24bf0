---------------------------- MODULE AssistantPage ----------------------------
(*
The assistant: features/assistant (assistant-view.tsx and its parts) over
services/query-service.ts. A call of ask runs as a coroutine that knows the index
of its turn; the composer waits while a turn is open, the retry button of a
failed turn does not, so several calls may run at once. The page is rendered
between two events of the user, so that ask sees all turns.

Left out: the text in the composer before it is sent, scrolling and latencies.
Turns are counted from 1.
*)
EXTENDS Navigation, FiniteSets

CONSTANTS
    Typed,       \* what users submit: [text, length], the length after trim()
    Answers,     \* external: answers of the API, [citations, marks]
    AgentSteps,  \* the length of demoAgentSteps (less in the runs)
    MaxTurns     \* bound: questions asked on one visit

\* The page a link opens: /assistant, with a question q or a document to ask
\* about. Only a demo document becomes the scope.
AssistantView(q, doc) ==
    [at |-> "assistant", q |-> q, asked |-> FALSE,
     scope |-> {doc} \cap demoIds, hint |-> "",
     turns |-> <<>>, asks |-> {}, active |-> Null, focusTurn |-> 1]

Turn(question) == [question |-> question, answer |-> Null, error |-> Null, step |-> 0]
\* (Mutant: a turn that failed stays open.)
isOpenUntilAnswered(turn) == turn.answer = Null
isOpen(turn) == turn.answer = Null /\ turn.error = Null
busy == \E i \in DOMAIN view.turns : isOpen(view.turns[i])

\* An effect that is due runs before the next event of the user.
rendered == view.q = Null \/ view.asked

(***************************************************************************)
(* Asking                                                                  *)
(***************************************************************************)

\* The first part of ask, up to its request. (Mutant: it is memoised once, with
\* the turns of the first render.)
AskingFirst(page, question) ==
    [page EXCEPT !.turns = Append(@, Turn(question)),
                 !.asks = @ \cup {[index |-> 1, question |-> question, step |-> 0]},
                 !.focusTurn = 1, !.active = Null]
Asking(page, question) ==
    LET index == Len(page.turns) + 1
    IN [page EXCEPT !.turns = Append(@, Turn(question)),
                    !.asks = @ \cup {[index |-> index, question |-> question, step |-> 0]},
                    !.focusTurn = index, !.active = Null]

\* The effect that asks the question of the link, once.
AskFromLink ==
    /\ ~rendered
    /\ Becomes([Asking(view, view.q) EXCEPT !.asked = TRUE])

MayAsk == rendered /\ Len(view.turns) < MaxTurns

\* A suggestion, offered while there is no turn.
AskSuggested(question) ==
    /\ MayAsk
    /\ view.turns = <<>>
    /\ Becomes(Asking(view, question))

\* The composer's submit, by its button or the Enter key.
Submit(typed) ==
    /\ MayAsk
    /\ ~busy
    /\ LET reason == validateQuestion(typed.length)
       IN IF reason = ""
          THEN Becomes([Asking(view, typed.text) EXCEPT !.hint = ""])
          ELSE Becomes([view EXCEPT !.hint = reason])

\* The retry button of turn i. The click also reaches the turn it is drawn in,
\* which takes the focus back from the new turn.
RetryTurn(i) ==
    /\ MayAsk
    /\ view.turns[i].error # Null
    /\ Becomes([Asking(view, view.turns[i].question) EXCEPT !.focusTurn = i])

\* The interval that animates the steps of an open turn.
TickSteps(ask) ==
    /\ ask.step < AgentSteps
    /\ Becomes([view EXCEPT !.turns[ask.index].step = ask.step + 1,
                            !.asks = (@ \ {ask}) \cup {[ask EXCEPT !.step = @ + 1]}])

\* The request resolves. The first source becomes the active one, whichever turn
\* has the focus by then.
AnswerOf(question, found) ==
    [question |-> question, citations |-> found.citations, marks |-> found.marks]
Answered(ask, found) ==
    /\ Becomes([view EXCEPT !.turns[ask.index].answer = AnswerOf(ask.question, found),
                            !.active = IF found.citations = <<>> THEN Null
                                       ELSE Head(found.citations),
                            !.asks = @ \ {ask}])

\* The request fails. (Mutant: the interval is not cleared.)
FailedTicking(ask, code) ==
    /\ ~useDemoData
    /\ Becomes([view EXCEPT !.turns[ask.index].error = code])
Failed(ask, code) ==
    /\ ~useDemoData
    /\ Becomes([view EXCEPT !.turns[ask.index].error = code, !.asks = @ \ {ask}])

(***************************************************************************)
(* Reading                                                                 *)
(***************************************************************************)

FocusTurn(i) ==
    /\ rendered
    /\ Becomes([view EXCEPT !.focusTurn = i])

\* A chip in the text of turn i.
Cite(i, n) ==
    /\ rendered
    /\ view.turns[i].answer # Null
    /\ n \in view.turns[i].answer.marks
    /\ Becomes([view EXCEPT !.focusTurn = i, !.active = n])

focused ==
    IF view.focusTurn \in DOMAIN view.turns
    THEN view.turns[view.focusTurn].answer ELSE Null

\* A source in the evidence panel.
SelectEvidence(n) ==
    /\ rendered
    /\ focused # Null
    /\ n \in ToSet(focused.citations)
    /\ Becomes([view EXCEPT !.active = n])

ClearScope(doc) ==
    /\ rendered
    /\ Becomes([view EXCEPT !.scope = @ \ {doc}])

\* What a trace shows of each step: those of the answer, or those of the interval.
AgentTrace(turn) ==
    IF turn.answer # Null
    THEN [j \in DOMAIN demoAgentSteps |-> "done"]
    ELSE [j \in 1..AgentSteps |->
            CASE turn.step = 0     -> "pending"
              [] j <= turn.step    -> "done"
              [] j = turn.step + 1 -> "running"
              [] OTHER             -> "pending"]

\* The chips of a turn's text and the sources of the panel that are highlighted.
AnswerBody(i) ==
    [n \in view.turns[i].answer.marks |-> view.focusTurn = i /\ view.active = n]
EvidencePanel ==
    IF focused = Null THEN <<>>
    ELSE [k \in DOMAIN focused.citations |->
            [source |-> focused.citations[k], open |-> focused.citations[k] = view.active]]

AskingNext ==
    \/ AskFromLink
    \/ \E typed \in Typed : Submit(typed) \/ AskSuggested(typed.text)
    \/ \E i \in DOMAIN view.turns : RetryTurn(i)
    \/ \E ask \in view.asks : TickSteps(ask)

Settling ==
    \E ask \in view.asks :
      \/ Failed(ask, "TIMEOUT")
      \/ \E found \in IF useDemoData THEN {demoAnswer} ELSE Answers : Answered(ask, found)

AnswerReadingNext ==
    \/ \E i \in DOMAIN view.turns : FocusTurn(i) \/ \E n \in 1..3 : Cite(i, n)
    \/ \E n \in 1..3 : SelectEvidence(n)
    \/ \E doc \in view.scope : ClearScope(doc)

AssistantNext ==
    /\ view.at = "assistant"
    /\ AskingNext \/ Settling \/ AnswerReadingNext

Questions == {typed.text : typed \in Typed}

\* An answer is something.
ASSUME AnswerAssumption ==
    \A question \in Questions \cup {Null}, found \in Answers \cup {demoAnswer} :
      AnswerOf(question, found) # Null

\* The bounds of an instance; three sources are as many as the model tells apart.
ASSUME AssistantAssumption ==
    /\ AgentSteps \in Nat
    /\ MaxTurns \in Nat \ {0}
    /\ \A found \in Answers : found.citations \in Seq(1..3)

AssistantInit ==
    /\ ClientInit
    /\ \E q \in Questions \cup {Null}, doc \in demoIds \cup {Null} : view = AssistantView(q, doc)

AssistantSpec == AssistantInit /\ [][AssistantNext]_<<clientVars, view>>

(***************************************************************************)
(* What the page keeps                                                     *)
(***************************************************************************)

\* A turn is open exactly while one call works on it: the composer is never
\* blocked by a call that is gone, and no question waits without one, however
\* many retries run beside each other.
BusyMeansAsking ==
    view.at = "assistant" =>
      \A i \in DOMAIN view.turns :
        /\ isOpen(view.turns[i]) <=> \E ask \in view.asks : ask.index = i
        /\ \A a1, a2 \in view.asks : a1.index = i /\ a2.index = i => a1 = a2

\* Each answer stands under the question it was given to, although calls end in
\* any order and find their turn by an index taken before the request.
AnswerAtItsQuestion ==
    view.at = "assistant" =>
      \A i \in DOMAIN view.turns :
        view.turns[i].answer # Null => view.turns[i].answer.question = view.turns[i].question

\* Nothing touches a turn that has its answer or its error: no late answer, no
\* tick of an interval that outlives its call.
SettledTurnIsFinal ==
    [][view.at = "assistant" /\ view'.at = "assistant" =>
         \A i \in DOMAIN view.turns \cap DOMAIN view'.turns :
           ~isOpen(view.turns[i]) => view'.turns[i] = view.turns[i]]_<<view>>
=============================================================================
