---------------------------- MODULE AssistantProofs ----------------------------
(*
Questions and answers of the assistant, for any questions and answers, any number
of turns and any bound on the steps that are animated. The strengthening relates
every call to its turn: the turn exists, is open and holds the call's question.
*)
EXTENDS AssistantPage, TLAPS

AnswerType == {AnswerOf(question, found) : question \in Questions, found \in Answers \cup {demoAnswer}}
TurnType ==
    [question : Questions, answer : AnswerType \cup {Null}, error : ErrorCodes \cup {Null}, step : Nat]
AskType == [index : Nat, question : Questions, step : Nat]

\* What turns and the calls in flight have to do with each other.
ConversationType(turns, asks) == turns \in Seq(TurnType) /\ asks \subseteq AskType
AskHasTurn(turns, asks) ==
    \A ask \in asks :
      /\ ask.index \in DOMAIN turns
      /\ isOpen(turns[ask.index])
      /\ turns[ask.index].question = ask.question
OneAskPerTurn(asks) == \A a1, a2 \in asks : a1.index = a2.index => a1 = a2
OpenTurnHasAsk(turns, asks) ==
    \A i \in DOMAIN turns : isOpen(turns[i]) => \E ask \in asks : ask.index = i
AnswersFit(turns) ==
    \A i \in DOMAIN turns : turns[i].answer # Null => turns[i].answer.question = turns[i].question

Conversation(turns, asks) ==
    /\ ConversationType(turns, asks)
    /\ AskHasTurn(turns, asks)
    /\ OneAskPerTurn(asks)
    /\ OpenTurnHasAsk(turns, asks)
    /\ AnswersFit(turns)

\* The record of the page.
Page(q, asked, scope, hint, turns, asks, active, focusTurn) ==
    [at |-> "assistant", q |-> q, asked |-> asked, scope |-> scope, hint |-> hint,
     turns |-> turns, asks |-> asks, active |-> active, focusTurn |-> focusTurn]
IsAssistant(v) ==
    \E q \in Questions \cup {Null} : \E asked, scope, hint, turns, asks, active, focusTurn :
      v = Page(q, asked, scope, hint, turns, asks, active, focusTurn)

AssistantInv == IsAssistant(view) /\ Conversation(view.turns, view.asks)

(***************************************************************************)
(* Sequences of turns                                                      *)
(***************************************************************************)

\* A new question is one more turn with one more call.
LEMMA ConversationAsked ==
    ASSUME NEW turns, NEW asks, Conversation(turns, asks), NEW question \in Questions
    PROVE  Conversation(Append(turns, Turn(question)),
                        asks \cup {[index |-> Len(turns) + 1, question |-> question, step |-> 0]})
<1> DEFINE t == Turn(question)
           n == Len(turns) + 1
           a == [index |-> n, question |-> question, step |-> 0]
           more == Append(turns, t)
<1>1. turns \in Seq(TurnType) /\ asks \subseteq AskType
  BY DEF Conversation, ConversationType
<1>2. t \in TurnType /\ isOpen(t) /\ t.question = question /\ t.answer = Null
  BY DEF Turn, TurnType, isOpen
<1>3. n \in Nat /\ n \notin DOMAIN turns
  BY <1>1
<1>4. a \in AskType /\ a.index = n /\ a.question = question
  BY <1>3 DEF AskType
<1> HIDE DEF t
<1>5. /\ more \in Seq(TurnType)
      /\ DOMAIN more = DOMAIN turns \cup {n}
      /\ \A i \in DOMAIN turns : more[i] = turns[i]
      /\ more[n] = t
  BY <1>1, <1>2
<1> HIDE DEF n, a, more
<1>6. ConversationType(more, asks \cup {a})
  BY <1>1, <1>4, <1>5 DEF ConversationType
<1>7. AskHasTurn(more, asks \cup {a})
  BY <1>2, <1>4, <1>5 DEF Conversation, AskHasTurn
<1>8. OneAskPerTurn(asks \cup {a})
  BY <1>3, <1>4 DEF Conversation, AskHasTurn, OneAskPerTurn
<1>9. OpenTurnHasAsk(more, asks \cup {a})
  BY <1>4, <1>5 DEF Conversation, OpenTurnHasAsk
<1>10. AnswersFit(more)
  BY <1>2, <1>5 DEF Conversation, AnswersFit
<1>11. Conversation(more, asks \cup {a})
  BY <1>6, <1>7, <1>8, <1>9, <1>10 DEF Conversation
<1>12. QED
  BY <1>11 DEF more, t, a, n

\* A turn that its call has moved on, still open under the same question.
LEMMA ConversationTicked ==
    ASSUME NEW turns, NEW asks, Conversation(turns, asks), NEW ask \in asks,
           NEW turn \in TurnType, isOpen(turn), turn.question = ask.question,
           NEW next \in AskType, next.index = ask.index, next.question = ask.question
    PROVE  Conversation([turns EXCEPT ![ask.index] = turn], (asks \ {ask}) \cup {next})
<1> DEFINE moved == [turns EXCEPT ![ask.index] = turn]
           rest == (asks \ {ask}) \cup {next}
<1>1. /\ turns \in Seq(TurnType) /\ asks \subseteq AskType
      /\ ask.index \in DOMAIN turns
  BY DEF Conversation, ConversationType, AskHasTurn
<1>2. /\ moved \in Seq(TurnType)
      /\ DOMAIN moved = DOMAIN turns
      /\ \A i \in DOMAIN turns : moved[i] = IF i = ask.index THEN turn ELSE turns[i]
  BY <1>1
<1> HIDE DEF moved
<1>3. ConversationType(moved, rest)
  BY <1>1, <1>2 DEF ConversationType
<1>4. AskHasTurn(moved, rest)
  BY <1>1, <1>2 DEF Conversation, AskHasTurn
<1>5. OneAskPerTurn(rest)
  BY DEF Conversation, OneAskPerTurn
<1>6. OpenTurnHasAsk(moved, rest)
  BY <1>1, <1>2 DEF Conversation, OpenTurnHasAsk
<1>7. AnswersFit(moved)
  BY <1>1, <1>2 DEF Conversation, AnswersFit, isOpen
<1>8. QED
  BY <1>3, <1>4, <1>5, <1>6, <1>7 DEF Conversation, moved

\* A turn that its call has closed.
LEMMA ConversationSettled ==
    ASSUME NEW turns, NEW asks, Conversation(turns, asks), NEW ask \in asks,
           NEW turn \in TurnType, ~isOpen(turn),
           turn.answer # Null => turn.answer.question = turn.question
    PROVE  Conversation([turns EXCEPT ![ask.index] = turn], asks \ {ask})
<1> DEFINE moved == [turns EXCEPT ![ask.index] = turn]
           rest == asks \ {ask}
<1>1. /\ turns \in Seq(TurnType) /\ asks \subseteq AskType
      /\ ask.index \in DOMAIN turns
  BY DEF Conversation, ConversationType, AskHasTurn
<1>2. /\ moved \in Seq(TurnType)
      /\ DOMAIN moved = DOMAIN turns
      /\ \A i \in DOMAIN turns : moved[i] = IF i = ask.index THEN turn ELSE turns[i]
  BY <1>1
<1> HIDE DEF moved
<1>3. \A other \in rest : other.index # ask.index
  BY DEF Conversation, OneAskPerTurn
<1>4. ConversationType(moved, rest)
  BY <1>1, <1>2 DEF ConversationType
<1>5. AskHasTurn(moved, rest)
  BY <1>2, <1>3 DEF Conversation, AskHasTurn
<1>6. OneAskPerTurn(rest)
  BY DEF Conversation, OneAskPerTurn
<1>7. OpenTurnHasAsk(moved, rest)
  BY <1>1, <1>2 DEF Conversation, OpenTurnHasAsk
<1>8. AnswersFit(moved)
  BY <1>2 DEF Conversation, AnswersFit
<1>9. QED
  BY <1>4, <1>5, <1>6, <1>7, <1>8 DEF Conversation, moved

(***************************************************************************)
(* Steps                                                                   *)
(***************************************************************************)

LEMMA AssistantMounted ==
    ASSUME NEW q \in Questions \cup {Null}, NEW doc, view = AssistantView(q, doc)
    PROVE  AssistantInv
<1>1. IsAssistant(view) /\ view.turns = <<>> /\ view.asks = {}
  BY DEF AssistantView, IsAssistant, Page
<1>2. <<>> \in Seq(TurnType) /\ DOMAIN <<>> = {}
  OBVIOUS
<1>3. Conversation(<<>>, {})
  BY <1>2 DEF Conversation, ConversationType, AskHasTurn, OneAskPerTurn, OpenTurnHasAsk,
              AnswersFit
<1>4. QED
  BY <1>1, <1>3 DEF AssistantInv

LEMMA AssistantInitially == AssistantInit => AssistantInv
BY AssistantMounted DEF AssistantInit

\* What ask makes of the page.
LEMMA AskingPage ==
    ASSUME NEW page, IsAssistant(page), Conversation(page.turns, page.asks),
           NEW question \in Questions
    PROVE  /\ IsAssistant(Asking(page, question))
           /\ Conversation(Asking(page, question).turns, Asking(page, question).asks)
           /\ Asking(page, question).turns = Append(page.turns, Turn(question))
<1> DEFINE n == Len(page.turns) + 1
           turns == Append(page.turns, Turn(question))
           asks == page.asks \cup {[index |-> n, question |-> question, step |-> 0]}
           next == Asking(page, question)
<1>1. Conversation(turns, asks)
  BY ConversationAsked
<1>2. next = [page EXCEPT !.turns = turns, !.asks = asks, !.focusTurn = n, !.active = Null]
  BY DEF Asking
<1> HIDE DEF turns, asks, next, n
<1>3. /\ IsAssistant(next) /\ next.turns = turns /\ next.asks = asks
  <2>1. PICK q \in Questions \cup {Null} :
          \E asked, scope, hint, ts, as, active, focusTurn :
            page = Page(q, asked, scope, hint, ts, as, active, focusTurn)
    BY DEF IsAssistant
  <2>2. PICK asked, scope, hint, ts, as, active, focusTurn :
          page = Page(q, asked, scope, hint, ts, as, active, focusTurn)
    BY <2>1
  <2>3. next = Page(q, asked, scope, hint, turns, asks, Null, n)
    BY <1>2, <2>2 DEF Page
  <2>4. QED
    BY <2>3 DEF IsAssistant, Page
<1>4. QED
  BY <1>1, <1>3 DEF next, turns

\* Fields of the page beside its turns and its calls.
LEMMA PageKept ==
    ASSUME NEW page, NEW next, IsAssistant(page), Conversation(page.turns, page.asks),
           \/ \E x : next = [page EXCEPT !.asked = x] \/ next = [page EXCEPT !.hint = x]
                   \/ next = [page EXCEPT !.focusTurn = x] \/ next = [page EXCEPT !.active = x]
                   \/ next = [page EXCEPT !.scope = x]
           \/ \E x, y : next = [page EXCEPT !.focusTurn = x, !.active = y]
    PROVE  /\ IsAssistant(next) /\ Conversation(next.turns, next.asks)
           /\ next.turns = page.turns
<1>1. IsAssistant(next) /\ next.turns = page.turns /\ next.asks = page.asks
  <2>1. PICK q \in Questions \cup {Null} :
          \E asked, scope, hint, ts, as, active, focusTurn :
            page = Page(q, asked, scope, hint, ts, as, active, focusTurn)
    BY DEF IsAssistant
  <2>2. PICK asked, scope, hint, ts, as, active, focusTurn :
          page = Page(q, asked, scope, hint, ts, as, active, focusTurn)
    BY <2>1
  <2>3. PICK a, s, h, c, f : next = Page(q, a, s, h, ts, as, c, f)
    BY <2>2 DEF Page
  <2>4. IsAssistant(next)
    BY <2>3 DEF IsAssistant
  <2>5. QED
    BY <2>2, <2>3, <2>4 DEF Page
<1>2. QED
  BY <1>1

\* How a step may change the turns there are: a turn that is settled stays.
TurnsKept == \A i \in DOMAIN view.turns \cap DOMAIN view'.turns :
               ~isOpen(view.turns[i]) => view'.turns[i] = view.turns[i]

LEMMA AskingStep ==
    ASSUME AssistantInv, NEW question \in Questions, NEW next,
           \/ next = Asking(view, question)
           \/ \E x : next = [Asking(view, question) EXCEPT !.asked = x]
           \/ \E x : next = [Asking(view, question) EXCEPT !.hint = x]
           \/ \E x : next = [Asking(view, question) EXCEPT !.focusTurn = x],
           view' = next
    PROVE  AssistantInv' /\ TurnsKept
<1> DEFINE asked == Asking(view, question)
<1>1. /\ IsAssistant(asked) /\ Conversation(asked.turns, asked.asks)
      /\ asked.turns = Append(view.turns, Turn(question))
  BY AskingPage DEF AssistantInv
<1> HIDE DEF asked
<1>2. /\ IsAssistant(next) /\ Conversation(next.turns, next.asks)
      /\ next.turns = asked.turns
  BY <1>1, PageKept DEF asked
<1>3. view.turns \in Seq(TurnType)
  BY DEF AssistantInv, Conversation, ConversationType
<1>4. TurnsKept
  BY <1>1, <1>2, <1>3 DEF TurnsKept
<1>5. QED
  BY <1>2, <1>4 DEF AssistantInv

LEMMA TickStep ==
    ASSUME AssistantInv, NEW ask \in view.asks, TickSteps(ask)
    PROVE  AssistantInv' /\ TurnsKept
<1> DEFINE old == view.turns[ask.index]
           turn == [old EXCEPT !.step = ask.step + 1]
           next == [ask EXCEPT !.step = ask.step + 1]
           turns == [view.turns EXCEPT ![ask.index] = turn]
           asks == (view.asks \ {ask}) \cup {next}
<1>1. /\ view.turns \in Seq(TurnType) /\ ask \in AskType
      /\ ask.index \in DOMAIN view.turns /\ isOpen(old) /\ old.question = ask.question
  BY DEF AssistantInv, Conversation, ConversationType, AskHasTurn
<1>2. old \in TurnType
  BY <1>1
<1>3. ask.step + 1 \in Nat
  BY <1>1 DEF AskType
<1> HIDE DEF old
<1>4. turn \in TurnType /\ isOpen(turn) /\ turn.question = ask.question
  BY <1>1, <1>2, <1>3 DEF TurnType, isOpen
<1>5. next \in AskType /\ next.index = ask.index /\ next.question = ask.question
  BY <1>1, <1>3 DEF AskType
<1>6. Conversation(turns, asks)
  BY <1>4, <1>5, ConversationTicked DEF AssistantInv
<1>7. view' = [view EXCEPT !.turns = turns, !.asks = asks]
  BY DEF TickSteps, Becomes, old
<1> HIDE DEF turns, asks
<1>8. IsAssistant(view') /\ view'.turns = turns /\ view'.asks = asks
  <2>1. PICK q \in Questions \cup {Null} :
          \E asked, scope, hint, ts, as, active, focusTurn :
            view = Page(q, asked, scope, hint, ts, as, active, focusTurn)
    BY DEF IsAssistant, AssistantInv
  <2>2. PICK asked, scope, hint, ts, as, active, focusTurn :
          view = Page(q, asked, scope, hint, ts, as, active, focusTurn)
    BY <2>1
  <2>3. view' = Page(q, asked, scope, hint, turns, asks, active, focusTurn)
    BY <1>7, <2>2 DEF Page
  <2>4. QED
    BY <2>3 DEF IsAssistant, Page
<1>9. TurnsKept
  BY <1>1, <1>8 DEF TurnsKept, turns, old
<1>10. QED
  BY <1>6, <1>8, <1>9 DEF AssistantInv

\* An answer or an error closes the turn of its call.
LEMMA SettleStep ==
    ASSUME AssistantInv, NEW ask \in view.asks, NEW turn \in TurnType, ~isOpen(turn),
           turn.answer # Null => turn.answer.question = turn.question,
           NEW active,
           \/ view' = [view EXCEPT !.turns = [view.turns EXCEPT ![ask.index] = turn],
                                   !.asks = view.asks \ {ask}]
           \/ view' = [view EXCEPT !.turns = [view.turns EXCEPT ![ask.index] = turn],
                                   !.active = active, !.asks = view.asks \ {ask}]
    PROVE  AssistantInv' /\ TurnsKept
<1> DEFINE turns == [view.turns EXCEPT ![ask.index] = turn]
           asks == view.asks \ {ask}
<1>1. Conversation(turns, asks)
  BY ConversationSettled DEF AssistantInv
<1>2. /\ view.turns \in Seq(TurnType) /\ ask.index \in DOMAIN view.turns
      /\ isOpen(view.turns[ask.index])
  BY DEF AssistantInv, Conversation, ConversationType, AskHasTurn
<1> HIDE DEF turns, asks
<1>3. IsAssistant(view') /\ view'.turns = turns /\ view'.asks = asks
  <2>1. PICK q \in Questions \cup {Null} :
          \E asked, scope, hint, ts, as, act, focusTurn :
            view = Page(q, asked, scope, hint, ts, as, act, focusTurn)
    BY DEF IsAssistant, AssistantInv
  <2>2. PICK asked, scope, hint, ts, as, act, focusTurn :
          view = Page(q, asked, scope, hint, ts, as, act, focusTurn)
    BY <2>1
  <2>3. PICK c : view' = Page(q, asked, scope, hint, turns, asks, c, focusTurn)
    BY <2>2 DEF Page, turns, asks
  <2>4. IsAssistant(view')
    BY <2>3 DEF IsAssistant
  <2>5. QED
    BY <2>3, <2>4 DEF Page
<1>4. TurnsKept
  BY <1>2, <1>3 DEF TurnsKept, turns
<1>5. QED
  BY <1>1, <1>3, <1>4 DEF AssistantInv

LEMMA SettlingStep ==
    ASSUME AssistantInv, Settling
    PROVE  AssistantInv' /\ TurnsKept
<1> PICK ask \in view.asks :
      \/ Failed(ask, "TIMEOUT")
      \/ \E found \in IF useDemoData THEN {demoAnswer} ELSE Answers : Answered(ask, found)
  BY DEF Settling
<1> DEFINE old == view.turns[ask.index]
<1>1. /\ view.turns \in Seq(TurnType) /\ ask \in AskType
      /\ ask.index \in DOMAIN view.turns /\ isOpen(old) /\ old.question = ask.question
  BY DEF AssistantInv, Conversation, ConversationType, AskHasTurn
<1>2. old \in TurnType
  BY <1>1
<1>3. CASE Failed(ask, "TIMEOUT")
  <2> DEFINE turn == [old EXCEPT !.error = "TIMEOUT"]
  <2>1. view' = [view EXCEPT !.turns = [view.turns EXCEPT ![ask.index] = turn],
                             !.asks = view.asks \ {ask}]
    BY <1>3 DEF Failed, Becomes
  <2> HIDE DEF old
  <2>2. turn \in TurnType
    BY <1>2 DEF TurnType, ErrorCodes
  <2>3. turn.error = "TIMEOUT" /\ turn.answer = Null
    BY <1>1, <1>2 DEF TurnType, isOpen
  <2> HIDE DEF turn
  <2>4. ~isOpen(turn)
    BY <2>3, NullAssumption DEF isOpen, ErrorCodes
  <2>5. QED
    BY <2>1, <2>2, <2>3, <2>4, SettleStep
<1>4. ASSUME NEW found \in Answers \cup {demoAnswer}, Answered(ask, found)
      PROVE  AssistantInv' /\ TurnsKept
  <2> DEFINE answer == AnswerOf(ask.question, found)
             turn == [old EXCEPT !.answer = answer]
             active == IF found.citations = <<>> THEN Null ELSE Head(found.citations)
  <2>1. view' = [view EXCEPT !.turns = [view.turns EXCEPT ![ask.index] = turn],
                             !.active = active, !.asks = view.asks \ {ask}]
    BY <1>4 DEF Answered, Becomes
  <2>2. answer \in AnswerType /\ answer # Null /\ answer.question = ask.question
    BY <1>1, AnswerAssumption DEF AnswerType, AnswerOf, AskType
  <2> HIDE DEF old, answer, active
  <2>3. turn \in TurnType /\ turn.answer = answer /\ turn.question = ask.question
    BY <1>1, <1>2, <2>2 DEF TurnType
  <2> HIDE DEF turn
  <2>4. ~isOpen(turn)
    BY <2>2, <2>3 DEF isOpen
  <2>5. QED
    BY <2>1, <2>2, <2>3, <2>4, SettleStep
<1>5. QED
  BY <1>3, <1>4

LEMMA AskingNextStep ==
    ASSUME AssistantInv, AskingNext
    PROVE  AssistantInv' /\ TurnsKept
<1>1. view.turns \in Seq(TurnType)
  BY DEF AssistantInv, Conversation, ConversationType
<1>2. CASE AskFromLink
  <2>1. view.q \in Questions
    BY <1>2 DEF AskFromLink, rendered, AssistantInv, IsAssistant, Page
  <2>2. view' = [Asking(view, view.q) EXCEPT !.asked = TRUE]
    BY <1>2 DEF AskFromLink, Becomes
  <2>3. QED
    BY <2>1, <2>2, AskingStep
<1>3. ASSUME NEW typed \in Typed, AskSuggested(typed.text)
      PROVE  AssistantInv' /\ TurnsKept
  <2>1. typed.text \in Questions /\ view' = Asking(view, typed.text)
    BY <1>3 DEF AskSuggested, Becomes, Questions
  <2>2. QED
    BY <2>1, AskingStep
<1>4. ASSUME NEW typed \in Typed, Submit(typed)
      PROVE  AssistantInv' /\ TurnsKept
  <2>1. CASE view' = [Asking(view, typed.text) EXCEPT !.hint = ""]
    <3>1. typed.text \in Questions
      BY DEF Questions
    <3>2. QED
      BY <2>1, <3>1, AskingStep
  <2>2. CASE view' = [view EXCEPT !.hint = validateQuestion(typed.length)]
    <3>1. IsAssistant(view') /\ Conversation(view'.turns, view'.asks) /\ view'.turns = view.turns
      BY <2>2, PageKept DEF AssistantInv
    <3>2. QED
      BY <3>1 DEF AssistantInv, TurnsKept
  <2>3. QED
    BY <1>4, <2>1, <2>2 DEF Submit, Becomes
<1>5. ASSUME NEW i \in DOMAIN view.turns, RetryTurn(i)
      PROVE  AssistantInv' /\ TurnsKept
  <2>0. view.turns[i] \in TurnType
    BY <1>1
  <2>1. view.turns[i].question \in Questions
    BY <2>0 DEF TurnType
  <2>2. view' = [Asking(view, view.turns[i].question) EXCEPT !.focusTurn = i]
    BY <1>5 DEF RetryTurn, Becomes
  <2>3. QED
    BY <2>1, <2>2, AskingStep
<1>6. ASSUME NEW ask \in view.asks, TickSteps(ask)
      PROVE  AssistantInv' /\ TurnsKept
  BY <1>6, TickStep
<1>7. QED
  BY <1>2, <1>3, <1>4, <1>5, <1>6 DEF AskingNext

LEMMA ReadingStep ==
    ASSUME AssistantInv, AnswerReadingNext \/ UNCHANGED <<clientVars, view>>
    PROVE  AssistantInv' /\ TurnsKept
<1>1. \/ view' = view
      \/ \E x : \/ view' = [view EXCEPT !.focusTurn = x] \/ view' = [view EXCEPT !.active = x]
               \/ view' = [view EXCEPT !.scope = x]
      \/ \E x, y : view' = [view EXCEPT !.focusTurn = x, !.active = y]
  BY DEF AnswerReadingNext, FocusTurn, Cite, SelectEvidence, ClearScope, Becomes
<1>2. IsAssistant(view') /\ Conversation(view'.turns, view'.asks) /\ view'.turns = view.turns
  BY <1>1, PageKept DEF AssistantInv
<1>3. QED
  BY <1>2 DEF AssistantInv, TurnsKept

LEMMA AssistantInvStep ==
    ASSUME AssistantInv, [AssistantNext]_<<clientVars, view>>
    PROVE  AssistantInv' /\ TurnsKept
BY AskingNextStep, SettlingStep, ReadingStep DEF AssistantNext

(***************************************************************************)
(* Theorems                                                                *)
(***************************************************************************)

LEMMA ConversationMeans ==
    ASSUME AssistantInv
    PROVE  BusyMeansAsking /\ AnswerAtItsQuestion
BY DEF AssistantInv, Conversation, AskHasTurn, OneAskPerTurn, OpenTurnHasAsk, AnswersFit,
       BusyMeansAsking, AnswerAtItsQuestion

LEMMA AssistantAlways == AssistantSpec => []AssistantInv
BY AssistantInitially, AssistantInvStep, PTL DEF AssistantSpec

\* A turn is open exactly while one call works on it, however many retries run
\* beside each other.
THEOREM OneCallPerOpenTurn == AssistantSpec => []BusyMeansAsking
BY AssistantAlways, ConversationMeans, PTL

\* Each answer stands under the question it was given to, in whatever order the
\* calls end.
THEOREM AnswersFitQuestions == AssistantSpec => []AnswerAtItsQuestion
BY AssistantAlways, ConversationMeans, PTL

\* Nothing changes a turn that has its answer or its error.
THEOREM SettledTurnsStay == AssistantSpec => SettledTurnIsFinal
<1>1. ASSUME AssistantInv, [AssistantNext]_<<clientVars, view>>
      PROVE  [view.at = "assistant" /\ view'.at = "assistant" =>
                \A i \in DOMAIN view.turns \cap DOMAIN view'.turns :
                  ~isOpen(view.turns[i]) => view'.turns[i] = view.turns[i]]_<<view>>
  BY <1>1, AssistantInvStep DEF TurnsKept
<1>2. QED
  BY <1>1, AssistantAlways, PTL DEF AssistantSpec, SettledTurnIsFinal
=============================================================================
