------------------------- MODULE ConversationProofs -------------------------
(***************************************************************************)
(* Proofs about Conversation, for any messages, confirmations and number   *)
(* of deaths: first what holds however many turns overlap, then what holds *)
(* when they do not (OneAtATime).                                          *)
(***************************************************************************)
EXTENDS Conversation, FiniteSetTheorems, TLAPS

\* The two halves of TypeOK: the turns with the lock, and the rest.
TurnsTyped ==
  /\ turn \in [Messages -> Turn]
  /\ lock \in Messages \cup { NoMessage }
  /\ \A m \in Messages : turn[m].pc \in Agents <=> lock = m

DataTyped ==
  /\ consented \in BOOLEAN /\ noticeShown \in BOOLEAN
  /\ noticeSeen \in BOOLEAN /\ noticeLost \in BOOLEAN
  /\ flow \in BOOLEAN /\ mailbox \in BOOLEAN /\ dangling \in BOOLEAN
  /\ row \in [Requests -> Rows]
  /\ memory \subseteq Messages /\ transcript \subseteq Messages
  /\ erased \subseteq Messages /\ dropped \subseteq Messages
  /\ executed \in [Requests -> Nat]
  /\ deaths \in 0..MaxDeaths

LEMMA TypeHalves == TypeOK <=> TurnsTyped /\ DataTyped
  BY DEF TypeOK, TurnsTyped, DataTyped

-----------------------------------------------------------------------------
(***************************************************************************)
(* What a step does to the turns.                                          *)
(***************************************************************************)
\* Only m's turn moves, and it keeps what it read when it was sent.
Moved(m) ==
  /\ turn' \in [Messages -> Turn]
  /\ \A n \in Messages \ { m } : turn'[n] = turn[n]
  /\ turn'[m].text = turn[m].text /\ turn'[m].open = turn[m].open

LEMMA Replaced ==
  ASSUME TurnsTyped, NEW m \in Messages, NEW t \in Turn,
         turn' = [turn EXCEPT ![m] = t]
  PROVE  /\ turn' \in [Messages -> Turn]
         /\ \A n \in Messages \ { m } : turn'[n] = turn[n]
         /\ turn'[m] = t
  BY DEF TurnsTyped

LEMMA Going ==
  ASSUME TurnsTyped, NEW m \in Messages, NEW pc \in States, Goto(m, pc)
  PROVE  /\ Moved(m)
         /\ turn'[m].pc = pc
         /\ turn'[m].copy = turn[m].copy
         /\ turn'[m].retried = turn[m].retried
         /\ turn'[m].answer = turn[m].answer
<1> DEFINE t == [turn[m] EXCEPT !.pc = pc]
<1>1. turn[m] \in Turn
  BY DEF TurnsTyped
<1>2. /\ t \in Turn /\ t.pc = pc
      /\ t.text = turn[m].text /\ t.open = turn[m].open
      /\ t.copy = turn[m].copy /\ t.retried = turn[m].retried
      /\ t.answer = turn[m].answer
  BY <1>1 DEF Turn
<1>3. turn' = [turn EXCEPT ![m] = t]
  BY DEF Goto
<1> HIDE DEF t
<1> QED
  BY <1>2, <1>3, Replaced DEF Moved

\* A turn with its step and its answer replaced.
Answered(t, pc, answer) == [t EXCEPT !.pc = pc, !.answer = answer]

LEMMA Answering ==
  ASSUME TurnsTyped, NEW m \in Messages, NEW pc \in States, NEW answer \in Answers,
         turn' = [turn EXCEPT ![m] = Answered(turn[m], pc, answer)]
  PROVE  /\ Moved(m)
         /\ turn'[m].pc = pc
         /\ turn'[m].copy = turn[m].copy
         /\ turn'[m].retried = turn[m].retried
         /\ turn'[m].answer = answer
<1> DEFINE t == Answered(turn[m], pc, answer)
<1>1. turn[m] \in Turn
  BY DEF TurnsTyped
<1>2. /\ t \in Turn /\ t.pc = pc
      /\ t.text = turn[m].text /\ t.open = turn[m].open
      /\ t.copy = turn[m].copy /\ t.retried = turn[m].retried
      /\ t.answer = answer
  BY <1>1 DEF Turn, Answered
<1> QED
  BY <1>2, Replaced DEF Moved

USE DEF States, Active, Gates, Forgets, Agents, Answers

LEMMA AnswerEffect ==
  ASSUME TurnsTyped, NEW m \in Messages, NEW answer \in Answers, Answer(m, answer)
  PROVE  /\ Moved(m)
         /\ turn'[m].pc = "appends"
         /\ turn'[m].retried = turn[m].retried
         /\ turn'[m].answer = answer
<1>1. turn' = [turn EXCEPT ![m] = Answered(turn[m], "appends", answer)]
  BY DEF Answer, Answered
<1> QED
  BY <1>1, Answering

\* A step of the gates: it does not concern the agent.
GateEffect(m) ==
  /\ Moved(m)
  /\ turn'[m].retried = turn[m].retried
  /\ turn[m].pc \in Gates \cup Forgets \cup { "appends", "sends" }
  /\ turn'[m].pc \in Gates \cup Forgets \cup { "waits", "appends", "sends", "over" }
  /\ turn'[m].pc \in Gates \cup { "waits" } => turn[m].pc \in Gates
  /\ turn'[m].pc \in { "appends", "sends", "over" } =>
       \/ turn'[m].answer # "agent"
       \/ turn[m].pc \in { "appends", "sends" } /\ turn[m].answer = "agent"
  /\ turn'[m].pc = "waits" => Live = {}
  /\ row' = row \/ \E q \in Requests : row' = [row EXCEPT ![q].state = "resolved"]
  /\ UNCHANGED << memory, dangling, lock, erased, dropped, deaths >>

LEMMA ConsentEffect ==
  ASSUME TypeOK, NEW m \in Messages,
         HasConsented(m) \/ WasNoticeShown(m) \/ RecordConsent(m) \/ MarkNoticeShown(m)
  PROVE  GateEffect(m)
<1> TurnsTyped
  BY TypeHalves
<1>1. CASE HasConsented(m)
  <2> DEFINE t == [turn[m] EXCEPT !.pc = "consent", !.agreed = consented]
  <2>1. turn[m] \in Turn /\ consented \in BOOLEAN
    BY DEF TypeOK
  <2>2. /\ t \in Turn /\ t.pc = "consent"
        /\ t.text = turn[m].text /\ t.open = turn[m].open
        /\ t.retried = turn[m].retried
    BY <2>1 DEF Turn
  <2>3. turn' = [turn EXCEPT ![m] = t]
    BY <1>1 DEF HasConsented
  <2> HIDE DEF t
  <2> QED
    BY <1>1, <2>2, <2>3, Replaced
    DEF HasConsented, At, GateEffect, Moved, database, thread, history
<1>2. CASE WasNoticeShown(m)
  <2>1. DecideConsent(m) \in { "gate", "records", "notifies" }
    BY DEF DecideConsent
  <2> QED
    BY <1>2, <2>1, Going
    DEF WasNoticeShown, At, GateEffect, database, thread, history
<1>3. CASE RecordConsent(m)
  <2>1. Answer(m, "welcome")
    BY <1>3 DEF RecordConsent
  <2> QED
    BY <1>3, <2>1, AnswerEffect DEF RecordConsent, At, GateEffect, thread, history
<1>4. CASE MarkNoticeShown(m)
  <2>1. Answer(m, "notice")
    BY <1>4 DEF MarkNoticeShown
  <2> QED
    BY <1>4, <2>1, AnswerEffect DEF MarkNoticeShown, At, GateEffect, thread, history
<1> QED
  BY <1>1, <1>2, <1>3, <1>4

LEMMA ConfirmationEffect ==
  ASSUME TypeOK, NEW m \in Messages, FindActive(m) \/ Resolve(m) \/ Execute(m)
  PROVE  GateEffect(m)
<1> TurnsTyped
  BY TypeHalves
<1>1. ASSUME NEW q \in Live, At(m, "gate"), UNCHANGED << database, thread, history >>,
             turn' = [turn EXCEPT ![m] = [@ EXCEPT !.pc = "resolves", !.found = q]]
      PROVE  GateEffect(m)
  <2> DEFINE t == [turn[m] EXCEPT !.pc = "resolves", !.found = q]
  <2>1. turn[m] \in Turn /\ q \in Requests
    BY <1>1 DEF TypeOK, Live
  <2>2. /\ t \in Turn /\ t.pc = "resolves"
        /\ t.text = turn[m].text /\ t.open = turn[m].open
        /\ t.retried = turn[m].retried
    BY <2>1 DEF Turn
  <2>3. turn' = [turn EXCEPT ![m] = t]
    BY <1>1
  <2> HIDE DEF t
  <2> QED
    BY <1>1, <2>2, <2>3, Replaced DEF At, GateEffect, Moved, database, thread, history
<1>2. CASE FindActive(m)
  <2>1. CASE Live = {} /\ Goto(m, "waits")
    BY <1>2, <2>1, Going DEF FindActive, At, GateEffect, database, thread, history
  <2> QED
    BY <1>1, <1>2, <2>1 DEF FindActive
<1>3. CASE Resolve(m)
  <2>1. row' = row \/ \E q \in Requests : row' = [row EXCEPT ![q].state = "resolved"]
    <3>1. turn[m].found \in Requests \cup { NoRequest }
      BY DEF TypeOK, Turn
    <3>2. CASE turn[m].found \in Requests
      BY <1>3, <3>2 DEF Resolve
    <3>3. CASE turn[m].found = NoRequest
      BY <1>3, <3>3, NullsAssumption DEF Resolve, TypeOK
    <3> QED
      BY <3>1, <3>2, <3>3
  <2>2. At(m, "resolves") /\ UNCHANGED << memory, dangling, lock, erased, dropped, deaths >>
    BY <1>3 DEF Resolve, thread, history
  <2>3. CASE Goto(m, "executes")
    BY <2>1, <2>2, <2>3, Going DEF At, GateEffect
  <2>4. CASE Answer(m, "cancelled")
    BY <2>1, <2>2, <2>4, AnswerEffect DEF At, GateEffect
  <2> QED
    BY <1>3, <2>3, <2>4 DEF Resolve
<1>4. CASE Execute(m)
  <2>1. CASE Goto(m, "forgetsThread")
    BY <1>4, <2>1, Going DEF Execute, At, GateEffect, thread
  <2>2. CASE Answer(m, "done")
    BY <1>4, <2>2, AnswerEffect DEF Execute, At, GateEffect, thread
  <2> QED
    BY <1>4, <2>1, <2>2 DEF Execute
<1> QED
  BY <1>2, <1>3, <1>4

\* The answer is sent, or refused.
Sends(m) == SendMessage(m) \/ SendMessageFails(m)

LEMMA RecordEffect ==
  ASSUME TypeOK, NEW m \in Messages,
         ForgetTranscript(m) \/ ForgetConsent(m) \/ AppendTurn(m) \/ Sends(m)
  PROVE  GateEffect(m)
<1> TurnsTyped
  BY TypeHalves
<1>1. CASE ForgetTranscript(m)
  BY <1>1, Going DEF ForgetTranscript, At, GateEffect, database, history
<1>2. CASE ForgetConsent(m)
  <2>1. Answer(m, "done")
    BY <1>2 DEF ForgetConsent
  <2> QED
    BY <1>2, <2>1, AnswerEffect DEF ForgetConsent, At, GateEffect, thread
<1>3. CASE AppendTurn(m)
  BY <1>3, Going DEF AppendTurn, At, GateEffect, database, history
<1>4. CASE Sends(m)
  BY <1>4, Going DEF Sends, SendMessage, SendMessageFails, At, GateEffect, database, thread
<1> QED
  BY <1>1, <1>2, <1>3, <1>4

-----------------------------------------------------------------------------
(***************************************************************************)
(* Types.                                                                  *)
(***************************************************************************)
LEMMA InitTyped == ASSUME Init PROVE TypeOK
<1>1. Blank \in Turn /\ Blank.pc = "unsent"
  BY NullsAssumption DEF Blank, Turn
<1>2. TurnsTyped
  <2>1. turn \in [Messages -> Turn] /\ \A m \in Messages : turn[m].pc = "unsent"
    BY <1>1 DEF Init
  <2>2. lock = NoMessage
    BY DEF Init
  <2> QED
    BY <2>1, <2>2, NullsAssumption DEF TurnsTyped
<1>3. /\ consented \in BOOLEAN /\ noticeShown \in BOOLEAN
      /\ noticeSeen \in BOOLEAN /\ noticeLost \in BOOLEAN
  BY DEF Init
<1>4. flow \in BOOLEAN /\ mailbox \in BOOLEAN /\ dangling \in BOOLEAN
  BY <1>3 DEF Init
<1>5. /\ row \in [Requests -> Rows] /\ executed \in [Requests -> Nat]
      /\ deaths \in 0..MaxDeaths
  BY LimitsAssumption DEF Init, Rows
<1>6. /\ memory \subseteq Messages /\ transcript \subseteq Messages
      /\ erased \subseteq Messages /\ dropped \subseteq Messages
  BY DEF Init
<1> QED
  BY <1>2, <1>3, <1>4, <1>5, <1>6, TypeHalves DEF DataTyped

\* The turns and the lock, over the steps of the gates.
LEMMA GateTurns ==
  ASSUME TurnsTyped, NEW m \in Messages, GateEffect(m) PROVE TurnsTyped'
  BY DEF TurnsTyped, GateEffect, Moved

\* The rest, over every step of the gates.
LEMMA GateData ==
  ASSUME TypeOK, NEW m \in Messages, ConsentStep(m) \/ ConfirmationStep(m)
  PROVE  DataTyped'
<1> DataTyped
  BY TypeHalves
<1> USE DEF database, thread, history
<1>1. CASE Receive(m)
  BY <1>1 DEF DataTyped, Receive
<1>2. CASE HasConsented(m)
  BY <1>2 DEF DataTyped, HasConsented
<1>3. CASE WasNoticeShown(m)
  BY <1>3 DEF DataTyped, WasNoticeShown
<1>4. CASE RecordConsent(m)
  BY <1>4 DEF DataTyped, RecordConsent
<1>5. CASE MarkNoticeShown(m)
  BY <1>5 DEF DataTyped, MarkNoticeShown
<1>6. CASE FindActive(m)
  BY <1>6 DEF DataTyped, FindActive
<1>7. CASE Resolve(m)
  <2>1. row' = row \/ \E q \in Requests : row' = [row EXCEPT ![q].state = "resolved"]
    BY <1>7, ConfirmationEffect DEF GateEffect
  <2>2. ASSUME NEW q \in Requests, row' = [row EXCEPT ![q].state = "resolved"]
        PROVE  row' \in [Requests -> Rows]
    <3>1. row[q] \in Rows
      BY DEF DataTyped
    <3>2. [row[q] EXCEPT !.state = "resolved"] \in Rows
      BY <3>1 DEF Rows
    <3> QED
      BY <2>2, <3>2 DEF DataTyped
  <2>3. row' \in [Requests -> Rows]
    BY <2>1, <2>2 DEF DataTyped
  <2> QED
    BY <1>7, <2>3 DEF DataTyped, Resolve
<1>8. CASE Execute(m)
  <2>1. executed' \in [Requests -> Nat]
    <3>1. executed' = [executed EXCEPT ![turn[m].found] = @ + 1]
      BY <1>8 DEF Execute
    <3>2. CASE turn[m].found \in Requests
      BY <3>1, <3>2 DEF DataTyped
    <3>3. CASE turn[m].found \notin Requests
      <4>1. executed' = executed
        BY <3>1, <3>3 DEF DataTyped
      <4> QED
        BY <4>1 DEF DataTyped
    <3> QED
      BY <3>2, <3>3
  <2> QED
    BY <1>8, <2>1 DEF DataTyped, Execute
<1>9. CASE ForgetThread(m)
  BY <1>9 DEF DataTyped, ForgetThread
<1>10. CASE ForgetTranscript(m)
  BY <1>10 DEF DataTyped, ForgetTranscript
<1>11. CASE ForgetConsent(m)
  BY <1>11 DEF DataTyped, ForgetConsent
<1> QED
  BY <1>1, <1>2, <1>3, <1>4, <1>5, <1>6, <1>7, <1>8, <1>9, <1>10, <1>11
  DEF ConsentStep, ConfirmationStep

\* The rest, over every other step.
LEMMA AgentData ==
  ASSUME TypeOK, NEW m \in Messages,
         AgentStep(m) \/ Connected(m) \/ AppendTurn(m) \/ Sends(m) \/ Die(m)
  PROVE  DataTyped'
<1> DataTyped
  BY TypeHalves
<1>0. turn[m].copy \subseteq Messages
  BY DEF TypeOK, Turn
<1> USE DEF database, thread, history
<1>1. CASE TakeLock(m)
  BY <1>1 DEF DataTyped, TakeLock
<1>2. CASE Load(m)
  BY <1>2 DEF DataTyped, Load
<1>3. CASE Clear(m)
  BY <1>3 DEF DataTyped, Clear
<1>4. CASE CallTools(m)
  BY <1>0, <1>4 DEF DataTyped, CallTools
<1>5. CASE RequestConfirmation(m)
  <2>1. PICK q \in Requests, action \in Actions :
          row' = [row EXCEPT ![q] = [state |-> "live", action |-> action]]
    BY <1>5 DEF RequestConfirmation
  <2>2. row' \in [Requests -> Rows]
    BY <2>1, ActionsAssumption DEF DataTyped, Rows
  <2> QED
    BY <1>5, <2>2 DEF DataTyped, RequestConfirmation
<1>6. CASE ConnectEmail(m)
  BY <1>6 DEF DataTyped, ConnectEmail
<1>7. CASE ToolsReturn(m)
  BY <1>0, <1>7 DEF DataTyped, ToolsReturn
<1>8. CASE Respond(m)
  BY <1>0, <1>8 DEF DataTyped, Respond
<1>9. CASE ModelFails(m)
  BY <1>9 DEF DataTyped, ModelFails
<1>10. CASE Unlock(m)
  BY <1>10 DEF DataTyped, Unlock
<1>11. CASE Connected(m)
  BY <1>11 DEF DataTyped, Connected
<1>12. CASE AppendTurn(m)
  BY <1>12 DEF DataTyped, AppendTurn
<1>13. CASE Sends(m)
  BY <1>13 DEF DataTyped, Sends, SendMessage, SendMessageFails
<1>14. CASE Die(m)
  BY <1>14, LimitsAssumption DEF DataTyped, Die
<1> QED
  BY <1>1, <1>2, <1>3, <1>4, <1>5, <1>6, <1>7, <1>8, <1>9, <1>10, <1>11, <1>12, <1>13,
     <1>14
  DEF AgentStep

-----------------------------------------------------------------------------
(***************************************************************************)
(* The steps that are not of the gates, one fact each: what they need, and *)
(* what they do to the turn, the memory and the lock.                      *)
(***************************************************************************)
\* A turn begins, without having read or done anything.
Begins(m) ==
  /\ turn' \in [Messages -> Turn]
  /\ \A n \in Messages \ { m } : turn'[n] = turn[n]
  /\ turn[m].pc = "unsent"
  /\ \/ turn'[m].pc = "received"
     \/ turn'[m].pc = "waits" /\ turn'[m].text = "note"
  /\ turn'[m].open = Live /\ ~ turn'[m].retried
  /\ UNCHANGED << row, memory, dangling, lock, erased, dropped, deaths >>

LEMMA BeginsEffect ==
  ASSUME TypeOK, NEW m \in Messages, Receive(m) \/ Connected(m)
  PROVE  Begins(m)
<1> TurnsTyped
  BY TypeHalves
<1>1. ASSUME NEW text \in { "yes", "other", "note" }, NEW pc \in { "received", "waits" },
             turn' = [turn EXCEPT ![m] = [Sent(text) EXCEPT !.pc = pc]]
      PROVE  /\ turn' \in [Messages -> Turn]
             /\ \A n \in Messages \ { m } : turn'[n] = turn[n]
             /\ turn'[m].pc = pc /\ turn'[m].text = text
             /\ turn'[m].open = Live /\ ~ turn'[m].retried
  <2> DEFINE t == [Sent(text) EXCEPT !.pc = pc]
  <2>1. noticeSeen \in BOOLEAN /\ Live \subseteq Requests
    BY DEF TypeOK, Live
  <2>2. /\ t \in Turn /\ t.pc = pc /\ t.text = text
        /\ t.open = Live /\ t.retried = FALSE
    BY <2>1 DEF Sent, Blank, Turn
  <2>3. turn' = [turn EXCEPT ![m] = t]
    BY <1>1
  <2> HIDE DEF t
  <2> QED
    BY <2>2, <2>3, Replaced
<1>2. CASE Receive(m)
  <2>1. PICK text \in { "yes", "other" } :
          turn' = [turn EXCEPT ![m] = [Sent(text) EXCEPT !.pc = "received"]]
    BY <1>2 DEF Receive
  <2> QED
    BY <1>1, <1>2, <2>1 DEF Receive, At, Begins, database, thread, history
<1>3. CASE Connected(m)
  <2>1. turn' = [turn EXCEPT ![m] = [Sent("note") EXCEPT !.pc = "waits"]]
    BY <1>3 DEF Connected
  <2> QED
    BY <1>1, <1>3, <2>1 DEF Connected, At, Begins, thread, history
<1> QED
  BY <1>2, <1>3

TakesLock(m) ==
  /\ Moved(m)
  /\ turn[m].pc = "waits" /\ turn'[m].pc = "loads"
  /\ turn'[m].retried = turn[m].retried
  /\ lock = NoMessage /\ lock' = m
  /\ UNCHANGED << row, memory, dangling, erased, dropped, deaths >>

LEMMA TakeLockEffect ==
  ASSUME TypeOK, NEW m \in Messages, TakeLock(m) PROVE TakesLock(m)
  BY TypeHalves, Going DEF TakeLock, TakesLock, At, database, history

Loads(m) ==
  /\ Moved(m)
  /\ turn[m].pc = "loads" /\ turn'[m].pc \in { "thinks", "clears", "unlocks" }
  /\ turn'[m].pc = "unlocks" => turn'[m].answer = "error"
  /\ turn'[m].pc = "thinks" => turn'[m].copy = memory'
  /\ memory' = memory \cup { m }
  /\ UNCHANGED << row, dangling, lock, erased, dropped, deaths >>

LEMMA LoadEffect == ASSUME TypeOK, NEW m \in Messages, Load(m) PROVE Loads(m)
<1> DEFINE copy == memory \cup { m }
           thinks == [turn[m] EXCEPT !.pc = "thinks", !.copy = copy]
           fails  == [turn[m] EXCEPT !.pc = "unlocks", !.answer = "error"]
           clears == [turn[m] EXCEPT !.pc = "clears"]
           t == IF ~ dangling THEN thinks ELSE IF turn[m].retried THEN fails ELSE clears
<1>1. turn[m] \in Turn /\ copy \in SUBSET Messages
  BY DEF TypeOK
<1>2. turn' = [turn EXCEPT ![m] = t]
  BY DEF Load
<1> HIDE DEF copy
<1>3. /\ thinks \in Turn /\ thinks.pc = "thinks" /\ thinks.copy = copy
      /\ thinks.text = turn[m].text /\ thinks.open = turn[m].open
  BY <1>1 DEF Turn
<1>4. /\ fails \in Turn /\ fails.pc = "unlocks" /\ fails.answer = "error"
      /\ fails.text = turn[m].text /\ fails.open = turn[m].open
  BY <1>1 DEF Turn
<1>5. /\ clears \in Turn /\ clears.pc = "clears"
      /\ clears.text = turn[m].text /\ clears.open = turn[m].open
  BY <1>1 DEF Turn
<1> HIDE DEF thinks, fails, clears
<1>6. /\ t \in Turn /\ t.pc \in { "thinks", "clears", "unlocks" }
      /\ t.pc = "unlocks" => t.answer = "error"
      /\ t.pc = "thinks" => t.copy = copy
      /\ t.text = turn[m].text /\ t.open = turn[m].open
  BY <1>3, <1>4, <1>5
<1>7. /\ turn[m].pc = "loads" /\ memory' = copy
      /\ UNCHANGED << row, dangling, lock, erased, dropped, deaths >>
  BY DEF Load, At, database, history, copy
<1> HIDE DEF t
<1>8. /\ turn' \in [Messages -> Turn]
      /\ \A n \in Messages \ { m } : turn'[n] = turn[n]
      /\ turn'[m] = t
  BY <1>2, <1>6, Replaced, TypeHalves
<1> QED
  BY <1>6, <1>7, <1>8 DEF Moved, Loads, copy

Clears(m) ==
  /\ Moved(m)
  /\ turn[m].pc = "clears" /\ turn'[m].pc = "loads"
  /\ memory' = {} /\ ~ dangling' /\ dropped' = dropped \cup memory
  /\ UNCHANGED << row, lock, erased, deaths >>

LEMMA ClearEffect == ASSUME TypeOK, NEW m \in Messages, Clear(m) PROVE Clears(m)
<1> DEFINE t == [turn[m] EXCEPT !.pc = "loads", !.retried = TRUE]
<1>1. turn[m] \in Turn
  BY DEF TypeOK
<1>2. /\ t \in Turn /\ t.pc = "loads"
      /\ t.text = turn[m].text /\ t.open = turn[m].open
  BY <1>1 DEF Turn
<1>3. turn' = [turn EXCEPT ![m] = t]
  BY DEF Clear
<1>4. /\ turn[m].pc = "clears" /\ memory' = {} /\ dangling' = FALSE
      /\ dropped' = dropped \cup memory /\ UNCHANGED << row, lock, erased, deaths >>
  BY DEF Clear, At, database
<1> HIDE DEF t
<1> QED
  BY <1>2, <1>3, <1>4, Replaced, TypeHalves DEF Moved, Clears

\* A checkpoint of the invocation: the memory becomes its copy.
Checkpoints(m) ==
  /\ Moved(m)
  /\ turn[m].pc \in { "thinks", "tools" }
  /\ turn'[m].pc \in { "thinks", "tools", "unlocks" }
  /\ turn'[m].copy = turn[m].copy
  /\ memory' = turn[m].copy
  /\ dangling' <=> turn'[m].pc = "tools"
  /\ UNCHANGED << row, lock, erased, dropped, deaths >>

LEMMA CheckpointEffect ==
  ASSUME TypeOK, NEW m \in Messages, CallTools(m) \/ ToolsReturn(m) \/ Respond(m)
  PROVE  Checkpoints(m)
<1> TurnsTyped
  BY TypeHalves
<1> USE DEF At, Checkpoints, database, history
<1>1. CASE CallTools(m)
  BY <1>1, Going DEF CallTools
<1>2. CASE ToolsReturn(m)
  BY <1>2, Going DEF ToolsReturn
<1>3. CASE Respond(m)
  <2>1. turn' = [turn EXCEPT ![m] = Answered(turn[m], "unlocks", "agent")]
    BY <1>3 DEF Respond, Answered
  <2>2. Moved(m) /\ turn'[m].pc = "unlocks" /\ turn'[m].copy = turn[m].copy
    BY <2>1, Answering
  <2> QED
    BY <1>3, <2>2 DEF Respond
<1> QED
  BY <1>1, <1>2, <1>3

\* The invocation ends without a last checkpoint.
Fails(m) ==
  /\ Moved(m)
  /\ turn[m].pc = "thinks" /\ turn'[m].pc = "unlocks" /\ turn'[m].answer = "error"
  /\ UNCHANGED << row, memory, dangling, lock, erased, dropped, deaths >>

LEMMA ModelFailsEffect ==
  ASSUME TypeOK, NEW m \in Messages, ModelFails(m) PROVE Fails(m)
<1>1. turn' = [turn EXCEPT ![m] = Answered(turn[m], "unlocks", "error")]
  BY DEF ModelFails, Answered
<1> QED
  BY <1>1, Answering, TypeHalves DEF ModelFails, At, Fails, database, thread, history

Unlocks(m) ==
  /\ Moved(m)
  /\ turn[m].pc = "unlocks" /\ turn'[m].pc \in { "appends", "over" }
  /\ turn'[m].answer = turn[m].answer
  /\ lock' = NoMessage
  /\ UNCHANGED << row, memory, dangling, erased, dropped, deaths >>

LEMMA UnlockEffect == ASSUME TypeOK, NEW m \in Messages, Unlock(m) PROVE Unlocks(m)
<1>1. PICK pc \in { "appends", "over" } : Goto(m, pc)
  BY DEF Unlock
<1> QED
  BY <1>1, Going, TypeHalves DEF Unlock, At, Unlocks, database, history

\* The erasure empties the memory, whoever holds the lock.
Erases(m) ==
  /\ Moved(m)
  /\ turn[m].pc = "forgetsThread" /\ turn'[m].pc = "forgetsTranscript"
  /\ memory' = {} /\ ~ dangling' /\ erased' = erased \cup memory
  /\ UNCHANGED << row, lock, dropped, deaths >>

LEMMA ForgetThreadEffect ==
  ASSUME TypeOK, NEW m \in Messages, ForgetThread(m) PROVE Erases(m)
  BY Going, TypeHalves DEF ForgetThread, At, Erases, database

Dies(m) ==
  /\ Moved(m)
  /\ turn[m].pc \in Active /\ turn'[m].pc = "over" /\ turn'[m].answer = "none"
  /\ lock' = IF lock = m THEN NoMessage ELSE lock
  /\ deaths' > 0
  /\ UNCHANGED << row, memory, dangling, erased, dropped >>

LEMMA DieEffect == ASSUME TypeOK, NEW m \in Messages, Die(m) PROVE Dies(m)
<1>1. turn' = [turn EXCEPT ![m] = Answered(turn[m], "over", "none")]
  BY DEF Die, Answered
<1>2. deaths' > 0
  BY LimitsAssumption DEF Die, TypeOK
<1> QED
  BY <1>1, <1>2, Answering, TypeHalves DEF Die, Dies, database

\* No turn moves; a confirmation may be asked for under the lock, or expire.
Asks ==
  /\ UNCHANGED << turn, memory, dangling, lock, erased, dropped, deaths >>
  /\ \/ row' = row
     \/ \E q \in Requests, r \in Rows :
          row' = [row EXCEPT ![q] = r] /\ row[q].state = "none" /\ r.state # "none"
     \/ \E q \in Requests : row' = [row EXCEPT ![q].state = "expired"]

LEMMA AskEffect ==
  ASSUME TypeOK,
         \/ \E m \in Messages : RequestConfirmation(m) \/ ConnectEmail(m)
         \/ \E q \in Requests : Expire(q)
         \/ UNCHANGED vars
  PROVE  Asks
<1>1. ASSUME NEW m \in Messages, RequestConfirmation(m) PROVE Asks
  <2>1. PICK q \in Requests, action \in Actions :
          /\ row[q].state = "none"
          /\ row' = [row EXCEPT ![q] = [state |-> "live", action |-> action]]
    BY <1>1 DEF RequestConfirmation
  <2> DEFINE r == [state |-> "live", action |-> action]
  <2>2. r \in Rows /\ r.state # "none"
    BY ActionsAssumption DEF Rows
  <2>3. UNCHANGED << turn, memory, dangling, lock, erased, dropped, deaths >>
    BY <1>1 DEF RequestConfirmation, thread, history
  <2> QED
    BY <2>1, <2>2, <2>3 DEF Asks
<1>2. ASSUME NEW m \in Messages, ConnectEmail(m) PROVE Asks
  BY <1>2 DEF ConnectEmail, Asks, thread, history
<1>3. ASSUME NEW q \in Requests, Expire(q) PROVE Asks
  BY <1>3 DEF Expire, Asks, thread, history
<1>4. ASSUME UNCHANGED vars PROVE Asks
  BY <1>4 DEF vars, Asks, database, thread, history
<1> QED
  BY <1>1, <1>2, <1>3, <1>4

\* Every step has one of these effects.
Effect(m) ==
  \/ GateEffect(m) \/ Begins(m) \/ TakesLock(m) \/ Loads(m) \/ Clears(m)
  \/ Checkpoints(m) \/ Fails(m) \/ Unlocks(m) \/ Erases(m) \/ Dies(m)

LEMMA StepEffect ==
  ASSUME TypeOK, [Next]_vars PROVE Asks \/ \E m \in Messages : Effect(m)
<1>1. ASSUME NEW m \in Messages, ConsentStep(m) PROVE Effect(m)
  BY <1>1, BeginsEffect, ConsentEffect DEF ConsentStep, Effect
<1>2. ASSUME NEW m \in Messages, ConfirmationStep(m) PROVE Effect(m)
  BY <1>2, ConfirmationEffect, RecordEffect, ForgetThreadEffect
  DEF ConfirmationStep, Effect
<1>3. ASSUME NEW m \in Messages, AgentStep(m) PROVE Asks \/ Effect(m)
  BY <1>3, TakeLockEffect, LoadEffect, ClearEffect, CheckpointEffect, AskEffect,
     ModelFailsEffect, UnlockEffect
  DEF AgentStep, Effect
<1>4. ASSUME NEW m \in Messages, Connected(m) \/ AppendTurn(m) \/ Sends(m) \/ Die(m)
      PROVE  Effect(m)
  BY <1>4, BeginsEffect, RecordEffect, DieEffect DEF Effect
<1>5. ASSUME (\E q \in Requests : Expire(q)) \/ UNCHANGED vars PROVE Asks
  BY <1>5, AskEffect
<1> QED
  BY <1>1, <1>2, <1>3, <1>4, <1>5 DEF Next, Sends

-----------------------------------------------------------------------------
(***************************************************************************)
(* The invariants.                                                         *)
(***************************************************************************)
LEMMA TurnsStep ==
  ASSUME TurnsTyped, Asks \/ \E m \in Messages : Effect(m) PROVE TurnsTyped'
<1>1. CASE Asks
  BY <1>1 DEF Asks, TurnsTyped
<1>2. ASSUME NEW m \in Messages, Effect(m) PROVE TurnsTyped'
  <2>1. CASE GateEffect(m)
    BY <2>1, GateTurns
  <2>2. CASE Begins(m)
    BY <2>2 DEF TurnsTyped, Begins
  <2>3. CASE TakesLock(m)
    BY <2>3, NullsAssumption DEF TurnsTyped, TakesLock, Moved
  <2>4. CASE Loads(m) \/ Clears(m) \/ Checkpoints(m) \/ Fails(m)
    BY <2>4 DEF TurnsTyped, Loads, Clears, Checkpoints, Fails, Moved
  <2>5. CASE Unlocks(m)
    BY <2>5, NullsAssumption DEF TurnsTyped, Unlocks, Moved
  <2>6. CASE Erases(m)
    BY <2>6 DEF TurnsTyped, Erases, Moved
  <2>7. CASE Dies(m)
    BY <2>7, NullsAssumption DEF TurnsTyped, Dies, Moved
  <2> QED
    BY <1>2, <2>1, <2>2, <2>3, <2>4, <2>5, <2>6, <2>7 DEF Effect
<1> QED
  BY <1>1, <1>2

LEMMA TypeStep == ASSUME TypeOK, [Next]_vars PROVE TypeOK'
<1>1. TurnsTyped'
  BY StepEffect, TurnsStep, TypeHalves
<1>2. ASSUME NEW q \in Requests, Expire(q) PROVE DataTyped'
  <2>1. [row[q] EXCEPT !.state = "expired"] \in Rows
    BY DEF TypeOK, Rows
  <2>2. row' \in [Requests -> Rows]
    BY <1>2, <2>1 DEF Expire, TypeOK
  <2> QED
    BY <1>2, <2>2, TypeHalves DEF Expire, DataTyped, thread, history
<1>3. ASSUME UNCHANGED vars PROVE DataTyped'
  <2> DataTyped
    BY TypeHalves
  <2> QED
    BY <1>3 DEF DataTyped, vars, database, thread, history
<1>4. ASSUME NEW m \in Messages,
             \/ ConsentStep(m) \/ ConfirmationStep(m) \/ AgentStep(m)
             \/ Connected(m) \/ AppendTurn(m) \/ Sends(m) \/ Die(m)
      PROVE  DataTyped'
  BY <1>4, GateData, AgentData
<1>5. DataTyped'
  BY <1>2, <1>3, <1>4 DEF Next, Sends
<1> QED
  BY <1>1, <1>5, TypeHalves DEF TypeOK, TurnsTyped, DataTyped

\* The types of the variables of Conversation hold throughout, and the lock is
\* with the turn that runs the agent (withThreadLock in session.ts).
THEOREM TypeCorrect == Spec => []TypeOK
<1>1. Init => TypeOK
  BY InitTyped
<1>2. TypeOK /\ [Next]_vars => TypeOK'
  BY TypeStep
<1> QED
  BY <1>1, <1>2, PTL DEF Spec


\* A turn begins to run the agent only when no turn holds the lock, which is when
\* none runs it; no other step makes a turn run it.
LEMMA MutexStep ==
  ASSUME TypeOK, [Next]_vars
  PROVE  [Mutex!MutexNext]_({ m \in Messages : turn[m].pc \in Agents })
<1> DEFINE inside == { m \in Messages : turn[m].pc \in Agents }
<1> USE DEF Agents
<1>1. ASSUME \A m \in Messages : turn'[m].pc \in Agents => turn[m].pc \in Agents
      PROVE  Mutex!MutexNext
  <2>1. inside' = inside \ (inside \ inside') /\ (inside \ inside') \in SUBSET Messages
    BY <1>1
  <2> QED
    BY <2>1 DEF Mutex!Leave, Mutex!MutexNext
<1>2. ASSUME NEW m \in Messages, TakesLock(m) PROVE Mutex!MutexNext
  <2>1. inside = {}
    BY <1>2, NullsAssumption DEF TakesLock, TypeOK
  <2>2. inside' = inside \cup {m}
    BY <1>2, <2>1 DEF TakesLock, Moved
  <2> QED
    BY <2>1, <2>2 DEF Mutex!Enter, Mutex!MutexNext
<1>3. CASE Asks
  BY <1>1, <1>3 DEF Asks
<1>4. ASSUME NEW m \in Messages, Effect(m) PROVE Mutex!MutexNext
  <2>1. CASE TakesLock(m)
    BY <1>2, <2>1
  <2>2. CASE ~ TakesLock(m)
    <3>1. \A n \in Messages \ {m} : turn'[n] = turn[n]
      BY <1>4 DEF Effect, TakesLock, Moved, GateEffect, Begins, Loads, Clears, Checkpoints,
                  Fails, Unlocks, Erases, Dies
    <3>2. turn'[m].pc \in Agents => turn[m].pc \in Agents
      BY <1>4, <2>2 DEF Effect, GateEffect, Begins, Loads, Clears, Checkpoints, Fails,
                        Unlocks, Erases, Dies, Gates, Forgets
    <3> QED
      BY <1>1, <3>1, <3>2
  <2> QED
    BY <2>1, <2>2
<1>5. Asks \/ \E m \in Messages : Effect(m)
  BY StepEffect
<1>6. ASSUME \E m \in Messages : Effect(m) PROVE Mutex!MutexNext
  BY <1>4, <1>6
<1> QED
  BY <1>3, <1>5, <1>6

\* Whatever overlaps, dies or is erased, the turns of the chat run the agent one at a
\* time, as ThreadMutex has it: the specification that ThreadLock implements for any
\* number of chats (runAgentTurn in session.ts, thread-lock.ts).
THEOREM TurnsImplementMutex == Spec => ImplementsMutex
<1>1. Init => TypeOK /\ Mutex!MutexInit
  <2> SUFFICES ASSUME Init PROVE \A m \in Messages : turn[m].pc \notin Agents
    BY InitTyped DEF Mutex!MutexInit
  <2> QED
    BY DEF Init, Blank, Agents
<1>2. TypeOK /\ [Next]_vars => TypeOK'
  BY TypeStep
<1>3. TypeOK /\ [Next]_vars
        => [Mutex!MutexNext]_({ m \in Messages : turn[m].pc \in Agents })
  BY MutexStep
<1> QED
  BY <1>1, <1>2, <1>3, PTL DEF Spec, ImplementsMutex, Mutex!MutexSpec

-----------------------------------------------------------------------------
\* While an invocation runs, its copy holds its message and the whole memory: no
\* other invocation writes then, and what an erasure takes away only makes the
\* memory smaller.  So each checkpoint keeps what was remembered.
CopyHoldsMemory ==
  \A m \in Messages :
    turn[m].pc \in { "thinks", "tools" } => m \in turn[m].copy /\ memory \subseteq turn[m].copy

\* TurnsRemembered, from the moment the agent has answered.
AnsweredKept ==
  \A m \in Messages :
    turn[m].pc \in { "unlocks", "appends", "sends", "over" } /\ turn[m].answer = "agent"
      => m \in memory \cup erased \cup dropped

\* Only a repair sets retried, and it leaves no dangling tool calls.
RetriesClean ==
  \A m \in Messages :
    /\ turn[m].pc \in Gates \cup { "waits" } => ~ turn[m].retried
    /\ turn[m].pc = "loads" /\ turn[m].retried => ~ dangling

\* Tool calls dangle while a turn runs the tools, or after one died there.
DanglingExplained ==
  dangling => deaths > 0 \/ \E m \in Messages : turn[m].pc = "tools"

MemoryInv == TypeOK /\ CopyHoldsMemory /\ AnsweredKept /\ RetriesClean /\ DanglingExplained

LEMMA CopyStep ==
  ASSUME MemoryInv, Asks \/ \E m \in Messages : Effect(m) PROVE CopyHoldsMemory'
<1>1. CASE Asks
  BY <1>1 DEF Asks, MemoryInv, CopyHoldsMemory
<1>2. ASSUME NEW m \in Messages, Effect(m) PROVE CopyHoldsMemory'
  <2> USE DEF MemoryInv, CopyHoldsMemory
  <2>0. \A n \in Messages : turn[n].pc \in Agents <=> lock = n
    BY DEF TypeOK
  <2>1. CASE GateEffect(m)
    BY <2>1 DEF GateEffect, Moved
  <2>2. CASE Begins(m)
    BY <2>2 DEF Begins
  <2>3. CASE TakesLock(m)
    BY <2>3 DEF TakesLock, Moved
  <2>4. CASE Loads(m)
    BY <2>0, <2>4 DEF Loads, Moved
  <2>5. CASE Clears(m)
    BY <2>0, <2>5 DEF Clears, Moved
  <2>6. CASE Checkpoints(m)
    BY <2>0, <2>6 DEF Checkpoints, Moved
  <2>7. CASE Fails(m) \/ Unlocks(m) \/ Dies(m)
    BY <2>7 DEF Fails, Unlocks, Dies, Moved
  <2>8. CASE Erases(m)
    BY <2>8 DEF Erases, Moved
  <2> QED
    BY <1>2, <2>1, <2>2, <2>3, <2>4, <2>5, <2>6, <2>7, <2>8 DEF Effect
<1> QED
  BY <1>1, <1>2

LEMMA AnsweredStep ==
  ASSUME MemoryInv, Asks \/ \E m \in Messages : Effect(m) PROVE AnsweredKept'
<1>1. CASE Asks
  BY <1>1 DEF Asks, MemoryInv, AnsweredKept
<1>2. ASSUME NEW m \in Messages, Effect(m) PROVE AnsweredKept'
  <2> USE DEF MemoryInv, AnsweredKept
  <2>1. CASE GateEffect(m)
    BY <2>1 DEF GateEffect, Moved
  <2>2. CASE Begins(m)
    BY <2>2 DEF Begins
  <2>3. CASE TakesLock(m)
    BY <2>3 DEF TakesLock, Moved
  <2>4. CASE Loads(m)
    BY <2>4 DEF Loads, Moved
  <2>5. CASE Clears(m)
    BY <2>5 DEF Clears, Moved
  <2>6. CASE Checkpoints(m)
    BY <2>6 DEF Checkpoints, CopyHoldsMemory, Moved
  <2>7. CASE Fails(m) \/ Unlocks(m) \/ Dies(m)
    BY <2>7 DEF Fails, Unlocks, Dies, Moved
  <2>8. CASE Erases(m)
    BY <2>8 DEF Erases, Moved
  <2> QED
    BY <1>2, <2>1, <2>2, <2>3, <2>4, <2>5, <2>6, <2>7, <2>8 DEF Effect
<1> QED
  BY <1>1, <1>2

LEMMA RetriesStep ==
  ASSUME MemoryInv, Asks \/ \E m \in Messages : Effect(m) PROVE RetriesClean'
<1>1. CASE Asks
  BY <1>1 DEF Asks, MemoryInv, RetriesClean
<1>2. ASSUME NEW m \in Messages, Effect(m) PROVE RetriesClean'
  <2> USE DEF MemoryInv, RetriesClean
  <2>0. \A n \in Messages : turn[n].pc \in Agents <=> lock = n
    BY DEF TypeOK
  <2>1. CASE GateEffect(m)
    BY <2>1 DEF GateEffect, Moved
  <2>2. CASE Begins(m)
    BY <2>2 DEF Begins
  <2>3. CASE TakesLock(m)
    BY <2>3 DEF TakesLock, Moved
  <2>4. CASE Loads(m)
    BY <2>4 DEF Loads, Moved
  <2>5. CASE Clears(m)
    BY <2>5 DEF Clears, Moved
  <2>6. CASE Checkpoints(m)
    BY <2>0, <2>6 DEF Checkpoints, Moved
  <2>7. CASE Fails(m) \/ Unlocks(m) \/ Dies(m)
    BY <2>7 DEF Fails, Unlocks, Dies, Moved
  <2>8. CASE Erases(m)
    BY <2>8 DEF Erases, Moved
  <2> QED
    BY <1>2, <2>1, <2>2, <2>3, <2>4, <2>5, <2>6, <2>7, <2>8 DEF Effect
<1> QED
  BY <1>1, <1>2

LEMMA DanglingStep ==
  ASSUME MemoryInv, Asks \/ \E m \in Messages : Effect(m) PROVE DanglingExplained'
<1>1. CASE Asks
  BY <1>1 DEF Asks, MemoryInv, DanglingExplained
<1>2. ASSUME NEW m \in Messages, Effect(m) PROVE DanglingExplained'
  <2> USE DEF MemoryInv, DanglingExplained
  <2>1. CASE GateEffect(m)
    BY <2>1 DEF GateEffect, Moved
  <2>2. CASE Begins(m)
    BY <2>2 DEF Begins
  <2>3. CASE TakesLock(m) \/ Loads(m) \/ Fails(m) \/ Unlocks(m)
    BY <2>3 DEF TakesLock, Loads, Fails, Unlocks, Moved
  <2>4. CASE Clears(m) \/ Erases(m) \/ Dies(m)
    BY <2>4 DEF Clears, Erases, Dies
  <2>5. CASE Checkpoints(m)
    BY <2>5 DEF Checkpoints
  <2> QED
    BY <1>2, <2>1, <2>2, <2>3, <2>4, <2>5 DEF Effect
<1> QED
  BY <1>1, <1>2

LEMMA MemoryInvariant == Spec => []MemoryInv
<1>1. Init => MemoryInv
  <2> SUFFICES ASSUME Init PROVE MemoryInv
    OBVIOUS
  <2>1. \A m \in Messages : turn[m].pc = "unsent"
    BY DEF Init, Blank
  <2>2. ~ dangling
    BY DEF Init
  <2> QED
    BY <2>1, <2>2, InitTyped
    DEF MemoryInv, CopyHoldsMemory, AnsweredKept, RetriesClean, DanglingExplained
<1>2. MemoryInv /\ [Next]_vars => MemoryInv'
  <2> SUFFICES ASSUME MemoryInv, [Next]_vars PROVE MemoryInv'
    OBVIOUS
  <2>1. TypeOK'
    BY TypeStep DEF MemoryInv
  <2>2. Asks \/ \E m \in Messages : Effect(m)
    BY StepEffect DEF MemoryInv
  <2> QED
    BY <2>1, <2>2, CopyStep, AnsweredStep, RetriesStep, DanglingStep DEF MemoryInv
<1> QED
  BY <1>1, <1>2, PTL DEF Spec

\* What the agent answered it remembers, whatever turns overlap and whichever die:
\* the lock makes every checkpoint extend the one before (thread-lock.ts).
THEOREM AnswersAreRemembered == Spec => []TurnsRemembered
<1>1. MemoryInv => TurnsRemembered
  BY DEF MemoryInv, AnsweredKept, TurnsRemembered
<1> QED
  BY <1>1, MemoryInvariant, PTL

\* The retry after a repair never meets dangling tool calls (session.ts).
THEOREM RepairSuffices == Spec => []OneRetrySuffices
<1>1. MemoryInv => OneRetrySuffices
  BY DEF MemoryInv, RetriesClean, OneRetrySuffices, At
<1> QED
  BY <1>1, MemoryInvariant, PTL

\* Between invocations tool calls dangle only if a process died (session.ts).
THEOREM RacesLeaveNothingDangling == Spec => []DanglingByDeathOnly
<1>1. MemoryInv => DanglingByDeathOnly
  BY NullsAssumption DEF MemoryInv, DanglingExplained, DanglingByDeathOnly, TypeOK
<1> QED
  BY <1>1, MemoryInvariant, PTL

-----------------------------------------------------------------------------
\* A confirmation that was waiting when a message was sent has a row, so it never
\* is asked for again: it can only stop waiting.
OpenWasAsked ==
  \A m \in Messages : \A q \in turn[m].open : q \in Requests /\ row[q].state # "none"

ReplyInv == TypeOK /\ OpenWasAsked /\ RepliesStayOutOfTheModel

LEMMA ReplyStep ==
  ASSUME ReplyInv, Asks \/ \E m \in Messages : Effect(m)
  PROVE  OpenWasAsked' /\ RepliesStayOutOfTheModel'
<1> USE DEF ReplyInv, OpenWasAsked, RepliesStayOutOfTheModel
<1>0. row \in [Requests -> Rows]
  BY DEF TypeOK
<1>1. ASSUME row' = row \/ \E q \in Requests : \/ row' = [row EXCEPT ![q].state = "resolved"]
                                             \/ row' = [row EXCEPT ![q].state = "expired"]
      PROVE  /\ Live' \subseteq Live
             /\ \A q \in Requests : row[q].state # "none" => row'[q].state # "none"
  <2>1. CASE row' = row
    BY <2>1 DEF Live
  <2>2. ASSUME NEW q \in Requests, NEW state \in { "resolved", "expired" },
               row' = [row EXCEPT ![q].state = state]
        PROVE  /\ Live' \subseteq Live
               /\ \A p \in Requests : row[p].state # "none" => row'[p].state # "none"
    <3>1. row'[q].state = state /\ \A p \in Requests \ { q } : row'[p] = row[p]
      BY <1>0, <2>2 DEF Rows
    <3> QED
      BY <2>2, <3>1 DEF Live
  <2> QED
    BY <1>1, <2>1, <2>2
<1>2. CASE Asks
  <2>1. ASSUME NEW q \in Requests, NEW r \in Rows,
               row' = [row EXCEPT ![q] = r], row[q].state = "none", r.state # "none"
        PROVE  /\ Live' \subseteq Live \cup { p \in Requests : row[p].state = "none" }
               /\ \A p \in Requests : row[p].state # "none" => row'[p].state # "none"
    BY <1>0, <2>1 DEF Live
  <2>2. /\ Live' \subseteq Live \cup { p \in Requests : row[p].state = "none" }
        /\ \A p \in Requests : row[p].state # "none" => row'[p].state # "none"
    BY <1>1, <1>2, <2>1 DEF Asks
  <2>3. turn' = turn
    BY <1>2 DEF Asks
  <2> QED
    BY <2>2, <2>3
<1>3. ASSUME NEW m \in Messages, Begins(m)
      PROVE  OpenWasAsked' /\ RepliesStayOutOfTheModel'
  <2>1. Live' = Live /\ \A q \in Live : q \in Requests /\ row[q].state # "none"
    BY <1>3 DEF Begins, Live
  <2> QED
    BY <1>3, <2>1 DEF Begins
<1>4. ASSUME NEW m \in Messages, Effect(m), ~ Begins(m)
      PROVE  OpenWasAsked' /\ RepliesStayOutOfTheModel'
  <2>1. /\ Moved(m)
        /\ \/ row' = row
           \/ \E q \in Requests : row' = [row EXCEPT ![q].state = "resolved"]
        /\ turn'[m].pc \in Agents \cup { "waits" } =>
             turn[m].pc \in Agents \cup { "waits" } \/ Live = {}
    BY <1>4 DEF Effect, GateEffect, TakesLock, Loads, Clears, Checkpoints, Fails,
                Unlocks, Erases, Dies
  <2>2. /\ Live' \subseteq Live
        /\ \A q \in Requests : row[q].state # "none" => row'[q].state # "none"
    BY <1>1, <2>1
  <2> QED
    BY <2>1, <2>2 DEF Moved
<1> QED
  BY <1>2, <1>3, <1>4

\* No message that was sent while a confirmation was waiting gets to the agent
\* before that confirmation is answered or has expired, however turns overlap
\* (pending-confirmation-gate.test.ts).
THEOREM RepliesAreNotForTheModel == Spec => []RepliesStayOutOfTheModel
<1>1. Init => ReplyInv
  <2> SUFFICES ASSUME Init PROVE ReplyInv
    OBVIOUS
  <2>1. \A m \in Messages : turn[m].open = {}
    BY DEF Init, Blank
  <2> QED
    BY <2>1, InitTyped DEF ReplyInv, OpenWasAsked, RepliesStayOutOfTheModel
<1>2. ReplyInv /\ [Next]_vars => ReplyInv'
  BY TypeStep, StepEffect, ReplyStep DEF ReplyInv
<1>3. ReplyInv => RepliesStayOutOfTheModel
  BY DEF ReplyInv
<1> QED
  BY <1>1, <1>2, <1>3, PTL DEF Spec

-----------------------------------------------------------------------------
(***************************************************************************)
(* Turns that do not overlap.                                              *)
(***************************************************************************)
OneAtATime == IsFiniteSet(Messages) /\ MaxActive = 1

Alone ==
  \A m, n \in Messages : turn[m].pc \in Active /\ turn[n].pc \in Active => m = n

\* A step of m: the other turns are not in progress, and stay as they are.
Single(m) ==
  \A n \in Messages \ { m } : turn'[n] = turn[n] /\ turn[n].pc \notin Active

\* What a message does.
StepOf(m) ==
  \/ ConsentStep(m) \/ ConfirmationStep(m) \/ AgentStep(m)
  \/ Connected(m) \/ AppendTurn(m) \/ Sends(m) \/ Die(m)

LEMMA FreeMeansNone ==
  ASSUME OneAtATime, Free PROVE \A m \in Messages : turn[m].pc \notin Active
<1> DEFINE S == { m \in Messages : turn[m].pc \in Active }
<1>1. IsFiniteSet(S)
  BY FS_Subset DEF OneAtATime
<1>2. Cardinality(S) \in Nat /\ Cardinality(S) < 1
  BY <1>1, FS_CardinalityType DEF OneAtATime, Free
<1>3. S = {}
  <2> HIDE DEF S
  <2> QED
    BY <1>1, <1>2, FS_EmptySet
<1> QED
  BY <1>3

LEMMA StepsAlone ==
  ASSUME OneAtATime, TypeOK, Alone, NEW m \in Messages, StepOf(m)
  PROVE  Single(m) /\ Alone'
<1>1. CASE Receive(m) \/ Connected(m)
  <2>1. \A n \in Messages : turn[n].pc \notin Active
    BY <1>1, FreeMeansNone DEF Receive, Connected
  <2>2. \A n \in Messages \ { m } : turn'[n] = turn[n]
    BY <1>1, BeginsEffect DEF Begins
  <2> QED
    BY <2>1, <2>2 DEF Single, Alone
<1>2. CASE RequestConfirmation(m) \/ ConnectEmail(m)
  <2>1. turn[m].pc = "tools" /\ turn' = turn
    BY <1>2 DEF RequestConfirmation, ConnectEmail, At
  <2> QED
    BY <2>1 DEF Single, Alone
<1>3. CASE ~ (Receive(m) \/ Connected(m) \/ RequestConfirmation(m) \/ ConnectEmail(m))
  <2>1. Effect(m) /\ ~ Begins(m)
    <3>1. Effect(m)
      BY <1>3, ConsentEffect, ConfirmationEffect, RecordEffect, ForgetThreadEffect,
         TakeLockEffect, LoadEffect, ClearEffect, CheckpointEffect, ModelFailsEffect,
         UnlockEffect, DieEffect
      DEF StepOf, ConsentStep, ConfirmationStep, AgentStep, Effect
    <3>2. turn[m].pc # "unsent"
      BY <1>3
      DEF StepOf, ConsentStep, ConfirmationStep, AgentStep, HasConsented,
          WasNoticeShown, RecordConsent, MarkNoticeShown, FindActive, Resolve, Execute,
          ForgetThread, ForgetTranscript, ForgetConsent, TakeLock, Load, Clear,
          CallTools, ToolsReturn, Respond, ModelFails, Unlock, AppendTurn, Sends,
          SendMessage, SendMessageFails, Die, At
    <3> QED
      BY <3>1, <3>2 DEF Begins
  <2>2. Moved(m) /\ turn[m].pc \in Active
    BY <2>1
    DEF Effect, Begins, GateEffect, TakesLock, Loads, Clears, Checkpoints, Fails,
        Unlocks, Erases, Dies
  <2> QED
    BY <2>2 DEF Moved, Single, Alone
<1> QED
  BY <1>1, <1>2, <1>3

\* What a turn that only goes on, or answers, keeps.
Keeps(m) ==
  /\ turn'[m].text = turn[m].text /\ turn'[m].saw = turn[m].saw
  /\ turn'[m].found = turn[m].found /\ turn'[m].copy = turn[m].copy
  /\ turn'[m].agreed = turn[m].agreed

LEMMA GoingKeeps ==
  ASSUME TypeOK, NEW m \in Messages, NEW pc \in States, Goto(m, pc)
  PROVE  Keeps(m) /\ turn'[m].pc = pc /\ turn'[m].answer = turn[m].answer
<1> DEFINE t == [turn[m] EXCEPT !.pc = pc]
<1>1. turn[m] \in Turn
  BY DEF TypeOK
<1>2. /\ t \in Turn /\ t.pc = pc /\ t.answer = turn[m].answer
      /\ t.text = turn[m].text /\ t.saw = turn[m].saw /\ t.found = turn[m].found
      /\ t.copy = turn[m].copy /\ t.agreed = turn[m].agreed
  BY <1>1 DEF Turn
<1>3. turn' = [turn EXCEPT ![m] = t]
  BY DEF Goto
<1> HIDE DEF t
<1> QED
  BY <1>2, <1>3, Replaced, TypeHalves DEF Keeps

LEMMA AnsweringKeeps ==
  ASSUME TypeOK, NEW m \in Messages, NEW pc \in States, NEW answer \in Answers,
         turn' = [turn EXCEPT ![m] = Answered(turn[m], pc, answer)]
  PROVE  Keeps(m) /\ turn'[m].pc = pc /\ turn'[m].answer = answer
<1> DEFINE t == Answered(turn[m], pc, answer)
<1>1. turn[m] \in Turn
  BY DEF TypeOK
<1>2. turn'[m] = t /\ turn'[m].pc = pc /\ turn'[m].answer = answer
  BY Answering, TypeHalves DEF TypeOK
<1>3. /\ t.text = turn[m].text /\ t.saw = turn[m].saw /\ t.found = turn[m].found
      /\ t.copy = turn[m].copy /\ t.agreed = turn[m].agreed
  BY <1>1 DEF Turn, Answered
<1> HIDE DEF t
<1> QED
  BY <1>2, <1>3 DEF Keeps

LEMMA AnswerKeeps ==
  ASSUME TypeOK, NEW m \in Messages, NEW answer \in Answers, Answer(m, answer)
  PROVE  Keeps(m) /\ turn'[m].pc = "appends" /\ turn'[m].answer = answer
<1>1. turn' = [turn EXCEPT ![m] = Answered(turn[m], "appends", answer)]
  BY DEF Answer, Answered
<1> QED
  BY <1>1, AnsweringKeeps

-----------------------------------------------------------------------------
\* A confirmation is executed only after it was resolved, and is not found again.
Executions ==
  \A q \in Requests : executed[q] <= 1 /\ (executed[q] > 0 => row[q].state = "resolved")

\* What the turn in progress knows of the confirmation it found.
Confirming(m) ==
  /\ turn[m].pc = "resolves" =>
       turn[m].found \in Requests /\ row[turn[m].found].state \in { "live", "expired" }
  /\ turn[m].pc = "executes" =>
       /\ turn[m].found \in Requests /\ row[turn[m].found].state = "resolved"
       /\ executed[turn[m].found] = 0

ConfirmInv == TypeOK /\ Alone /\ Executions /\ \A m \in Messages : Confirming(m)

LEMMA AskingConfirms ==
  ASSUME ConfirmInv, turn' = turn, executed' = executed,
         \/ row' = row
         \/ \E q \in Requests, action \in Actions :
              /\ row[q].state = "none" /\ turn' = turn
              /\ row' = [row EXCEPT ![q] = [state |-> "live", action |-> action]]
              /\ \A m \in Messages : turn[m].pc \notin { "resolves", "executes" }
         \/ \E q \in Requests : Expire(q)
  PROVE  Executions' /\ (\A m \in Messages : Confirming(m)')
<1> USE DEF ConfirmInv
<1>0. row \in [Requests -> Rows] /\ executed \in [Requests -> Nat]
  BY DEF TypeOK
<1>1. CASE row' = row
  BY <1>1 DEF Executions, Confirming
<1>2. ASSUME NEW q \in Requests, NEW action \in Actions, row[q].state = "none",
             row' = [row EXCEPT ![q] = [state |-> "live", action |-> action]],
             \A m \in Messages : turn[m].pc \notin { "resolves", "executes" }
      PROVE  Executions' /\ (\A m \in Messages : Confirming(m)')
  <2>1. \A p \in Requests \ { q } : row'[p] = row[p]
    BY <1>0, <1>2
  <2>2. executed[q] = 0
    BY <1>0, <1>2 DEF Executions
  <2>3. Executions'
    BY <1>0, <2>1, <2>2 DEF Executions
  <2> QED
    BY <1>2, <2>3 DEF Confirming
<1>3. ASSUME NEW q \in Requests, Expire(q)
      PROVE  Executions' /\ (\A m \in Messages : Confirming(m)')
  <2>1. /\ \A p \in Requests \ { q } : row'[p] = row[p]
        /\ row[q].state = "live" /\ row'[q].state = "expired"
    BY <1>0, <1>3 DEF Expire, Rows
  <2>2. executed[q] = 0
    BY <1>0, <2>1 DEF Executions
  <2>3. Executions'
    BY <1>0, <2>1, <2>2 DEF Executions
  <2> QED
    BY <2>1, <2>3 DEF Confirming
<1> QED
  BY <1>1, <1>2, <1>3

\* The steps that have nothing to do with a confirmation.
Elsewhere(m) ==
  \/ Receive(m) \/ HasConsented(m) \/ WasNoticeShown(m) \/ RecordConsent(m)
  \/ MarkNoticeShown(m) \/ ForgetThread(m) \/ ForgetTranscript(m) \/ ForgetConsent(m)
  \/ TakeLock(m) \/ Load(m) \/ Clear(m) \/ CallTools(m) \/ ConnectEmail(m)
  \/ ToolsReturn(m) \/ Respond(m) \/ ModelFails(m) \/ Unlock(m) \/ Connected(m)
  \/ AppendTurn(m) \/ Sends(m) \/ Die(m)

LEMMA HasConsentedKeeps ==
  ASSUME TypeOK, NEW m \in Messages, HasConsented(m)
  PROVE  /\ turn'[m].pc = "consent" /\ turn'[m].agreed = consented
         /\ turn'[m].text = turn[m].text /\ turn'[m].saw = turn[m].saw
<1> DEFINE t == [turn[m] EXCEPT !.pc = "consent", !.agreed = consented]
<1>1. turn[m] \in Turn /\ turn \in [Messages -> Turn]
  BY DEF TypeOK
<1>2. turn'[m] = t
  BY <1>1 DEF HasConsented
<1>3. /\ t.pc = "consent" /\ t.agreed = consented
      /\ t.text = turn[m].text /\ t.saw = turn[m].saw
  BY <1>1 DEF Turn
<1> QED
  BY <1>2, <1>3

LEMMA ElsewhereEffect ==
  ASSUME TypeOK, NEW m \in Messages, Elsewhere(m)
  PROVE  /\ UNCHANGED << row, executed >>
         /\ turn'[m].pc \notin { "resolves", "executes" }
<1>1. CASE Receive(m) \/ Connected(m)
  BY <1>1, BeginsEffect DEF Receive, Connected, Begins, database, history
<1>2. CASE HasConsented(m)
  BY <1>2, HasConsentedKeeps DEF HasConsented, database, history
<1>3. CASE WasNoticeShown(m)
  <2>1. DecideConsent(m) \in { "gate", "records", "notifies" }
    BY DEF DecideConsent
  <2> QED
    BY <1>3, <2>1, GoingKeeps DEF WasNoticeShown, database, history
<1>4. CASE RecordConsent(m) \/ MarkNoticeShown(m) \/ ForgetConsent(m)
  <2>1. Answer(m, "welcome") \/ Answer(m, "notice") \/ Answer(m, "done")
    BY <1>4 DEF RecordConsent, MarkNoticeShown, ForgetConsent
  <2>2. turn'[m].pc = "appends"
    BY <2>1, AnswerKeeps
  <2> QED
    BY <1>4, <2>2 DEF RecordConsent, MarkNoticeShown, ForgetConsent, history
<1>5. CASE TakeLock(m) \/ Load(m) \/ Clear(m)
  BY <1>5, TakeLockEffect, LoadEffect, ClearEffect
  DEF TakeLock, Load, Clear, TakesLock, Loads, Clears, database, history
<1>6. CASE CallTools(m) \/ ToolsReturn(m) \/ Respond(m)
  BY <1>6, CheckpointEffect DEF CallTools, ToolsReturn, Respond, Checkpoints, database, history
<1>7. CASE ConnectEmail(m)
  BY <1>7 DEF ConnectEmail, At, history
<1>8. CASE ModelFails(m) \/ Unlock(m) \/ Die(m)
  BY <1>8, ModelFailsEffect, UnlockEffect, DieEffect
  DEF ModelFails, Unlock, Die, Fails, Unlocks, Dies, database, history
<1>9. CASE AppendTurn(m) \/ Sends(m)
  BY <1>9, GoingKeeps DEF AppendTurn, Sends, SendMessage, SendMessageFails, database, history
<1>10. CASE ForgetThread(m) \/ ForgetTranscript(m)
  <2>1. Goto(m, "forgetsTranscript") \/ Goto(m, "forgetsConsent")
    BY <1>10 DEF ForgetThread, ForgetTranscript
  <2> QED
    BY <1>10, <2>1, GoingKeeps DEF ForgetThread, ForgetTranscript, database, history
<1> QED
  BY <1>1, <1>2, <1>3, <1>4, <1>5, <1>6, <1>7, <1>8, <1>9, <1>10 DEF Elsewhere

LEMMA ElsewhereConfirms ==
  ASSUME ConfirmInv, NEW m \in Messages, Elsewhere(m), Single(m)
  PROVE  Executions' /\ (\A n \in Messages : Confirming(n)')
<1>1. UNCHANGED << row, executed >>
      /\ turn'[m].pc \notin { "resolves", "executes" }
  BY ElsewhereEffect DEF ConfirmInv
<1>2. Executions'
  BY <1>1 DEF ConfirmInv, Executions
<1>3. ASSUME NEW n \in Messages
      PROVE  turn'[n].pc \notin { "resolves", "executes" }
  BY <1>1 DEF Single
<1> QED
  BY <1>2, <1>3 DEF Confirming

\* A confirmation is found, resolved and executed.
LEMMA FindingConfirms ==
  ASSUME ConfirmInv, NEW m \in Messages, Single(m),
         FindActive(m) \/ Resolve(m) \/ Execute(m)
  PROVE  Executions' /\ (\A n \in Messages : Confirming(n)')
<1> USE DEF ConfirmInv
<1>0. /\ row \in [Requests -> Rows] /\ executed \in [Requests -> Nat]
      /\ turn \in [Messages -> Turn] /\ turn[m] \in Turn
  BY DEF TypeOK
<1>1. ASSUME NEW n \in Messages \ { m } PROVE Confirming(n)'
  BY DEF Single, Confirming
<1>2. CASE FindActive(m)
  <2>1. Executions' /\ UNCHANGED << row, executed >>
    BY <1>2 DEF FindActive, database, history, Executions
  <2>2. CASE Goto(m, "waits")
    <3>1. turn'[m].pc = "waits"
      BY <2>2, GoingKeeps
    <3> QED
      BY <1>1, <2>1, <3>1 DEF Confirming
  <2>3. ASSUME NEW q \in Live,
               turn' = [turn EXCEPT ![m] = [@ EXCEPT !.pc = "resolves", !.found = q]]
        PROVE  Confirming(m)'
    <3> DEFINE t == [turn[m] EXCEPT !.pc = "resolves", !.found = q]
    <3>1. turn'[m] = t
      BY <1>0, <2>3
    <3>2. t.pc = "resolves" /\ t.found = q
      BY <1>0 DEF Turn
    <3> HIDE DEF t
    <3> QED
      BY <2>1, <3>1, <3>2 DEF Confirming, Live
  <2> QED
    BY <1>1, <1>2, <2>1, <2>2, <2>3 DEF FindActive
<1>3. CASE Resolve(m)
  <2> DEFINE q == turn[m].found
  <2>1. q \in Requests /\ row[q].state \in { "live", "expired" }
    BY <1>3 DEF Resolve, At, Confirming
  <2>2. /\ row' = [row EXCEPT ![q].state = "resolved"] /\ executed' = executed
    BY <1>3 DEF Resolve, history
  <2>3. row'[q].state = "resolved" /\ \A p \in Requests \ { q } : row'[p] = row[p]
    BY <1>0, <2>1, <2>2 DEF Rows
  <2>4. executed[q] = 0
    BY <1>0, <2>1 DEF Executions
  <2>5. turn'[m].found = q /\ turn'[m].pc \in { "executes", "appends" }
    <3>1. CASE Goto(m, "executes")
      BY <3>1, GoingKeeps DEF Keeps
    <3>2. CASE Answer(m, "cancelled")
      BY <3>2, AnswerKeeps DEF Keeps
    <3> QED
      BY <1>3, <3>1, <3>2 DEF Resolve
  <2> HIDE DEF q
  <2>6. Executions'
    BY <1>0, <2>1, <2>2, <2>3, <2>4 DEF Executions
  <2>7. Confirming(m)'
    BY <2>1, <2>2, <2>3, <2>4, <2>5 DEF Confirming
  <2> QED
    BY <1>1, <2>6, <2>7
<1>4. CASE Execute(m)
  <2> DEFINE q == turn[m].found
  <2>1. q \in Requests /\ row[q].state = "resolved" /\ executed[q] = 0
    BY <1>4 DEF Execute, At, Confirming
  <2>2. executed' = [executed EXCEPT ![q] = @ + 1] /\ row' = row
    BY <1>4 DEF Execute
  <2>3. executed'[q] = 1 /\ \A p \in Requests \ { q } : executed'[p] = executed[p]
    BY <1>0, <2>1, <2>2
  <2>4. turn'[m].pc \in { "forgetsThread", "appends" }
    <3>1. CASE Goto(m, "forgetsThread")
      BY <3>1, GoingKeeps
    <3>2. CASE Answer(m, "done")
      BY <3>2, AnswerKeeps
    <3> QED
      BY <1>4, <3>1, <3>2 DEF Execute
  <2> HIDE DEF q
  <2>5. Executions'
    BY <1>0, <2>1, <2>2, <2>3 DEF Executions
  <2>6. Confirming(m)'
    BY <2>1, <2>2, <2>3, <2>4 DEF Confirming
  <2> QED
    BY <1>1, <2>5, <2>6
<1> QED
  BY <1>2, <1>3, <1>4

LEMMA ConfirmStep ==
  ASSUME OneAtATime
  PROVE  ConfirmInv /\ [Next]_vars => ConfirmInv'
<1> SUFFICES ASSUME ConfirmInv, [Next]_vars PROVE ConfirmInv'
  OBVIOUS
<1>0. TypeOK'
  BY TypeStep DEF ConfirmInv
<1>1. ASSUME NEW m \in Messages, StepOf(m)
      PROVE  ConfirmInv'
  <2>1. Single(m) /\ Alone'
    BY <1>1, StepsAlone DEF ConfirmInv
  <2>2. CASE Elsewhere(m)
    BY <1>0, <2>1, <2>2, ElsewhereConfirms DEF ConfirmInv
  <2>3. CASE RequestConfirmation(m)
    <3>1. turn' = turn /\ executed' = executed /\ turn[m].pc = "tools"
      BY <2>3 DEF RequestConfirmation, history, At
    <3>2. \A n \in Messages : turn[n].pc \notin { "resolves", "executes" }
      BY <2>1, <3>1 DEF Single
    <3>3. \E q \in Requests, action \in Actions :
            /\ row[q].state = "none"
            /\ row' = [row EXCEPT ![q] = [state |-> "live", action |-> action]]
      BY <2>3 DEF RequestConfirmation
    <3> QED
      BY <1>0, <2>1, <3>1, <3>2, <3>3, AskingConfirms DEF ConfirmInv
  <2>4. CASE FindActive(m) \/ Resolve(m) \/ Execute(m)
    BY <1>0, <2>1, <2>4, FindingConfirms DEF ConfirmInv
  <2> QED
    BY <1>1, <2>2, <2>3, <2>4
    DEF StepOf, Elsewhere, ConsentStep, ConfirmationStep, AgentStep
<1>2. CASE (\E q \in Requests : Expire(q)) \/ UNCHANGED vars
  <2>1. turn' = turn /\ executed' = executed
    BY <1>2 DEF Expire, vars, history
  <2>2. row' = row \/ \E q \in Requests : Expire(q)
    BY <1>2 DEF vars, database
  <2>3. Alone'
    BY <2>1 DEF ConfirmInv, Alone
  <2> QED
    BY <1>0, <2>1, <2>2, <2>3, AskingConfirms DEF ConfirmInv
<1> QED
  BY <1>1, <1>2 DEF Next, StepOf, Sends

LEMMA ConfirmInit == Init => ConfirmInv
<1> SUFFICES ASSUME Init PROVE ConfirmInv
  OBVIOUS
<1>1. \A m \in Messages : turn[m].pc = "unsent"
  BY DEF Init, Blank
<1>2. \A q \in Requests : executed[q] = 0
  BY DEF Init
<1> QED
  BY <1>1, <1>2, InitTyped DEF ConfirmInv, Alone, Executions, Confirming

\* While turns do not overlap, a confirmation is never acted on twice, whichever of
\* them dies half-way (pending-confirmation.repo.ts).
THEOREM NeverTwice ==
  ASSUME OneAtATime
  PROVE  Spec => []ActedOnOnce
<1>1. ConfirmInv => ActedOnOnce
  BY DEF ConfirmInv, Executions, ActedOnOnce
<1> QED
  BY <1>1, ConfirmInit, ConfirmStep, PTL DEF Spec

-----------------------------------------------------------------------------
\* A notice that was marked as shown has reached the user, is on its way, or was lost.
NoticeKnown ==
  noticeShown =>
    \/ noticeLost \/ noticeSeen
    \/ \E m \in Messages : turn[m].pc \in { "appends", "sends" } /\ turn[m].answer = "notice"

\* A turn that finds the notice marked was sent after it, unless it was lost.
Noticed(m) ==
  /\ turn[m].pc \in { "received", "consent" } /\ noticeShown => noticeLost \/ turn[m].saw
  /\ turn[m].pc = "records" => noticeLost \/ turn[m].saw

NoticeInv == TypeOK /\ Alone /\ NoticeKnown /\ \A m \in Messages : Noticed(m)

\* The steps after the consent gate and before the answer.
Beyond(m) ==
  \/ FindActive(m) \/ Resolve(m) \/ Execute(m) \/ ForgetThread(m) \/ ForgetTranscript(m)
  \/ AgentStep(m) \/ Connected(m)

LEMMA BeyondEffect ==
  ASSUME TypeOK, NEW m \in Messages, Beyond(m)
  PROVE  /\ UNCHANGED << noticeShown, noticeSeen, noticeLost >>
         /\ turn[m].pc \notin { "appends", "sends" }
         /\ turn'[m].pc \notin { "received", "consent", "records" }
<1>1. CASE FindActive(m) \/ Resolve(m) \/ Execute(m)
  <2>1. turn'[m].pc \in { "waits", "resolves", "executes", "appends", "forgetsThread" }
    <3>1. CASE Goto(m, "waits") \/ Goto(m, "executes") \/ Goto(m, "forgetsThread")
      BY <3>1, GoingKeeps
    <3>2. CASE Answer(m, "cancelled") \/ Answer(m, "done")
      BY <3>2, AnswerKeeps
    <3>3. ASSUME NEW q \in Live,
                 turn' = [turn EXCEPT ![m] = [@ EXCEPT !.pc = "resolves", !.found = q]]
          PROVE  turn'[m].pc = "resolves"
      <4> DEFINE t == [turn[m] EXCEPT !.pc = "resolves", !.found = q]
      <4>1. turn'[m] = t /\ turn[m] \in Turn
        BY <3>3 DEF TypeOK
      <4>2. t.pc = "resolves"
        BY <4>1 DEF Turn
      <4> QED
        BY <4>1, <4>2
    <3> QED
      BY <1>1, <3>1, <3>2, <3>3 DEF FindActive, Resolve, Execute
  <2> QED
    BY <1>1, <2>1 DEF FindActive, Resolve, Execute, At, database, history
<1>2. CASE ForgetThread(m) \/ ForgetTranscript(m)
  <2>1. Goto(m, "forgetsTranscript") \/ Goto(m, "forgetsConsent")
    BY <1>2 DEF ForgetThread, ForgetTranscript
  <2> QED
    BY <1>2, <2>1, GoingKeeps DEF ForgetThread, ForgetTranscript, At, database, history
<1>3. CASE RequestConfirmation(m) \/ ConnectEmail(m)
  BY <1>3 DEF RequestConfirmation, ConnectEmail, At, history
<1>4. CASE TakeLock(m) \/ Load(m) \/ Clear(m)
  BY <1>4, TakeLockEffect, LoadEffect, ClearEffect
  DEF TakeLock, Load, Clear, TakesLock, Loads, Clears, database, history
<1>5. CASE CallTools(m) \/ ToolsReturn(m) \/ Respond(m)
  BY <1>5, CheckpointEffect
  DEF CallTools, ToolsReturn, Respond, Checkpoints, database, history
<1>6. CASE ModelFails(m) \/ Unlock(m)
  BY <1>6, ModelFailsEffect, UnlockEffect
  DEF ModelFails, Unlock, Fails, Unlocks, database, history
<1>7. CASE Connected(m)
  <2>1. turn'[m].pc = "waits"
    <3> DEFINE t == [Sent("note") EXCEPT !.pc = "waits"]
    <3>1. turn' = [turn EXCEPT ![m] = t] /\ turn \in [Messages -> Turn]
      BY <1>7 DEF Connected, TypeOK
    <3>2. t.pc = "waits"
      BY DEF Sent, Blank
    <3> QED
      BY <3>1, <3>2
  <2> QED
    BY <1>7, <2>1 DEF Connected, At, history
<1> QED
  BY <1>1, <1>2, <1>3, <1>4, <1>5, <1>6, <1>7 DEF Beyond, AgentStep

LEMMA ReceiveSees ==
  ASSUME TypeOK, NEW m \in Messages, Receive(m)
  PROVE  turn'[m].pc = "received" /\ turn'[m].saw = noticeSeen
<1>1. PICK text \in { "yes", "other" } :
        turn' = [turn EXCEPT ![m] = [Sent(text) EXCEPT !.pc = "received"]]
  BY DEF Receive
<1> DEFINE t == [Sent(text) EXCEPT !.pc = "received"]
<1>2. turn'[m] = t
  BY <1>1 DEF TypeOK
<1>3. t.pc = "received" /\ t.saw = noticeSeen
  BY DEF Sent, Blank
<1> QED
  BY <1>2, <1>3

\* Only m's turn is in progress, so what the others know does not matter.
LEMMA NoticeStep ==
  ASSUME OneAtATime, NoticeInv, NEW m \in Messages, StepOf(m), Single(m)
  PROVE  NoticeKnown' /\ \A n \in Messages : Noticed(n)'
<1> TypeOK
  BY DEF NoticeInv
<1> USE DEF NoticeInv
<1>1. ASSUME NEW n \in Messages \ { m } PROVE Noticed(n)'
  BY <1>1 DEF Single, Noticed
<1>2. CASE Receive(m)
  <2>1. UNCHANGED << noticeShown, noticeSeen, noticeLost >>
    BY <1>2 DEF Receive, database, history
  <2>2. noticeShown => noticeLost \/ noticeSeen
    BY <1>2, FreeMeansNone DEF Receive, NoticeKnown
  <2>3. Noticed(m)'
    BY <2>1, <2>2, <1>2, ReceiveSees DEF Noticed
  <2> QED
    BY <1>1, <2>1, <2>2, <2>3 DEF NoticeKnown
<1>3. CASE HasConsented(m) \/ WasNoticeShown(m)
  <2>1. /\ UNCHANGED << noticeShown, noticeSeen, noticeLost >>
        /\ turn[m].pc \in { "received", "consent" }
    BY <1>3 DEF HasConsented, WasNoticeShown, At, database, history
  <2>2. NoticeKnown'
    BY <2>1 DEF NoticeKnown, Single
  <2>3. CASE HasConsented(m)
    BY <1>1, <2>1, <2>2, <2>3, HasConsentedKeeps DEF Noticed
  <2>4. CASE WasNoticeShown(m)
    <3>1. /\ DecideConsent(m) \in { "gate", "records", "notifies" }
          /\ DecideConsent(m) = "records" => noticeShown
      BY DEF DecideConsent
    <3>2. turn'[m].pc = DecideConsent(m) /\ turn'[m].saw = turn[m].saw
      BY <2>4, <3>1, GoingKeeps DEF WasNoticeShown, Keeps
    <3> QED
      BY <1>1, <2>1, <2>2, <3>1, <3>2 DEF Noticed
  <2> QED
    BY <1>3, <2>3, <2>4
<1>4. CASE RecordConsent(m)
  <2>1. UNCHANGED << noticeShown, noticeSeen, noticeLost >> /\ turn[m].pc = "records"
    BY <1>4 DEF RecordConsent, At, history
  <2>2. turn'[m].pc = "appends"
    BY <1>4, AnswerKeeps DEF RecordConsent
  <2> QED
    BY <1>1, <2>1, <2>2 DEF NoticeKnown, Single, Noticed
<1>5. CASE MarkNoticeShown(m)
  <2>1. turn'[m].pc = "appends" /\ turn'[m].answer = "notice"
    BY <1>5, AnswerKeeps DEF MarkNoticeShown
  <2> QED
    BY <1>1, <2>1 DEF NoticeKnown, Noticed
<1>6. CASE ForgetConsent(m)
  BY <1>6 DEF ForgetConsent, NoticeKnown, Noticed
<1>7. CASE AppendTurn(m)
  <2>1. UNCHANGED << noticeShown, noticeSeen, noticeLost >> /\ turn[m].pc = "appends"
    BY <1>7 DEF AppendTurn, At, database, history
  <2>2. turn'[m].pc = "sends" /\ turn'[m].answer = turn[m].answer
    BY <1>7, GoingKeeps DEF AppendTurn
  <2>3. NoticeKnown'
    BY <2>1, <2>2 DEF NoticeKnown, Single
  <2> QED
    BY <1>1, <2>2, <2>3 DEF Noticed
<1>8. CASE Sends(m) \/ Die(m)
  <2>1. /\ noticeShown' = noticeShown /\ turn[m].pc \in Active
        /\ IF SendMessage(m) /\ IsNotice(m) THEN noticeSeen'
           ELSE noticeSeen' = noticeSeen /\ noticeLost' = (noticeLost \/ IsNotice(m))
    BY <1>8 DEF Sends, SendMessage, SendMessageFails, Die, At, database, TypeOK
  <2>2. turn'[m].pc = "over"
    BY <1>8, GoingKeeps, DieEffect DEF Sends, SendMessage, SendMessageFails, Dies
  <2>3. NoticeKnown'
    BY <2>1 DEF NoticeKnown, Single, IsNotice
  <2> QED
    BY <1>1, <2>2, <2>3 DEF Noticed
<1>9. CASE Beyond(m)
  <2>1. /\ UNCHANGED << noticeShown, noticeSeen, noticeLost >>
        /\ turn[m].pc \notin { "appends", "sends" }
        /\ turn'[m].pc \notin { "received", "consent", "records" }
    BY <1>9, BeyondEffect
  <2>2. NoticeKnown'
    BY <2>1 DEF NoticeKnown, Single
  <2> QED
    BY <1>1, <2>1, <2>2 DEF Noticed
<1> QED
  BY <1>2, <1>3, <1>4, <1>5, <1>6, <1>7, <1>8, <1>9
  DEF StepOf, ConsentStep, ConfirmationStep, Beyond

\* While turns do not overlap, a consent is recorded only for a reply sent after the
\* notice arrived (consent.ts), wherever turns die, unless a notice was lost after its
\* mark or a consent was erased, and no notice has arrived since.
THEOREM ShownThenAgreed ==
  ASSUME OneAtATime
  PROVE  Spec => []ConsentAfterNotice
<1>1. Init => NoticeInv
  <2> SUFFICES ASSUME Init PROVE NoticeInv
    OBVIOUS
  <2>1. \A m \in Messages : turn[m].pc = "unsent"
    BY DEF Init, Blank
  <2>2. noticeShown => noticeSeen
    BY DEF Init
  <2> QED
    BY <2>1, <2>2, InitTyped DEF NoticeInv, Alone, NoticeKnown, Noticed
<1>2. NoticeInv /\ [Next]_vars => NoticeInv'
  <2> SUFFICES ASSUME NoticeInv, [Next]_vars PROVE NoticeInv'
    OBVIOUS
  <2>1. TypeOK /\ TypeOK' /\ Alone
    BY TypeStep DEF NoticeInv
  <2>2. ASSUME NEW m \in Messages, StepOf(m) PROVE NoticeInv'
    BY <2>1, <2>2, StepsAlone, NoticeStep DEF NoticeInv
  <2>3. CASE (\E q \in Requests : Expire(q)) \/ UNCHANGED vars
    <3>1. UNCHANGED << turn, noticeShown, noticeSeen, noticeLost >>
      BY <2>3 DEF Expire, vars, database, history
    <3> QED
      BY <2>1, <3>1 DEF NoticeInv, Alone, NoticeKnown, Noticed
  <2> QED
    BY <2>2, <2>3 DEF Next, StepOf, Sends
<1>3. NoticeInv => ConsentAfterNotice
  BY DEF NoticeInv, Noticed, ConsentAfterNotice, At
<1> QED
  BY <1>1, <1>2, <1>3, PTL DEF Spec

-----------------------------------------------------------------------------
\* The message may be kept: there is a consent, or it is none of the user's.
Covered(m) == consented \/ turn[m].text = "note"

Traced(m) == turn[m].text = "note" \/ turn[m].answer \in { "notice", "done" }

\* What is kept was covered when it came in, and an erasure leaves none of it.
Kept ==
  /\ \A n \in memory : turn[n].pc # "unsent" /\ Covered(n)
  /\ \A n \in transcript : turn[n].pc \in { "sends", "over" } /\ (consented \/ Traced(n))

\* The turn in progress adds only to what may be kept.
Covering(m) ==
  /\ turn[m].pc = "consent" /\ turn[m].agreed => consented
  /\ turn[m].pc \in { "gate", "resolves", "executes", "waits" } \cup Agents => Covered(m)
  /\ turn[m].pc \in { "forgetsTranscript", "forgetsConsent" } => memory = {}
  /\ turn[m].pc = "forgetsConsent" => transcript = {}
  /\ turn[m].pc \in { "thinks", "tools" } =>
       \A n \in turn[m].copy : turn[n].pc # "unsent" /\ Covered(n)
  /\ turn[m].pc = "appends" => consented \/ Traced(m)

KeptInv == TypeOK /\ Alone /\ Kept /\ \A m \in Messages : Covering(m)

\* A step of m keeps Kept if what it adds may be kept.
LEMMA KeptStep ==
  ASSUME KeptInv, TypeOK', NEW m \in Messages, Single(m),
         turn[m].pc \notin { "sends", "over" }, turn'[m].pc # "unsent",
         turn[m].pc = "unsent" \/ turn'[m].text = turn[m].text,
         (consented => consented') \/ (memory' = {} /\ transcript' = {}),
         memory' \subseteq memory \/ (memory' = memory \cup { m } /\ Covered(m)')
           \/ (memory' = turn[m].copy /\ turn[m].pc \in { "thinks", "tools" }),
         transcript' \subseteq transcript
           \/ (/\ transcript' = transcript \cup { m } /\ turn'[m].pc = "sends"
               /\ consented' \/ Traced(m)'),
         Covering(m)'
  PROVE  Kept' /\ \A n \in Messages : Covering(n)'
<1> USE DEF KeptInv
<1>1. /\ memory \subseteq Messages /\ transcript \subseteq Messages
      /\ memory' \subseteq Messages /\ transcript' \subseteq Messages
  BY DEF TypeOK
<1>2. ASSUME NEW n \in Messages \ { m } PROVE Covering(n)'
  BY DEF Single, Covering
<1>3. ASSUME NEW n \in Messages, turn[n].pc # "unsent", Covered(n), consented => consented'
      PROVE  turn'[n].pc # "unsent" /\ Covered(n)'
  BY <1>3 DEF Single, Covered
<1>4. ASSUME NEW n \in memory' PROVE turn'[n].pc # "unsent" /\ Covered(n)'
  <2>1. CASE n \in memory
    BY <1>1, <1>3, <1>4, <2>1 DEF Kept
  <2>2. CASE n = m /\ Covered(m)'
    BY <2>2
  <2>3. CASE n \in turn[m].copy /\ turn[m].pc \in { "thinks", "tools" }
    BY <1>1, <1>3, <1>4, <2>3 DEF Covering
  <2> QED
    BY <1>4, <2>1, <2>2, <2>3
<1>5. ASSUME NEW n \in transcript'
      PROVE  turn'[n].pc \in { "sends", "over" } /\ (consented' \/ Traced(n)')
  <2>1. CASE n \in transcript
    <3>1. n # m /\ turn[n].pc \in { "sends", "over" } /\ (consented \/ Traced(n))
      BY <2>1 DEF Kept
    <3>2. turn'[n] = turn[n] /\ (consented => consented')
      BY <1>1, <1>5, <3>1 DEF Single
    <3> QED
      BY <3>1, <3>2 DEF Traced
  <2>2. CASE n = m /\ turn'[m].pc = "sends" /\ (consented' \/ Traced(m)')
    BY <2>2
  <2> QED
    BY <1>5, <2>1, <2>2
<1> QED
  BY <1>2, <1>4, <1>5 DEF Kept

\* A message or a callback comes in.
LEMMA ComingKeeps ==
  ASSUME KeptInv, TypeOK', NEW m \in Messages, Single(m), Receive(m) \/ Connected(m)
  PROVE  Kept' /\ \A n \in Messages : Covering(n)'
<1> TypeOK
  BY DEF KeptInv
<1>1. /\ turn[m].pc = "unsent"
      /\ turn'[m].pc = "received" \/ (turn'[m].pc = "waits" /\ turn'[m].text = "note")
  BY BeginsEffect DEF Begins
<1>2. UNCHANGED << consented, memory, transcript >>
  BY DEF Receive, Connected, database, thread
<1>3. Covering(m)'
  BY <1>1 DEF Covering, Covered
<1> QED
  BY <1>1, <1>2, <1>3, KeptStep

LEMMA ConsentKeeps ==
  ASSUME KeptInv, TypeOK', NEW m \in Messages, Single(m),
         HasConsented(m) \/ WasNoticeShown(m) \/ RecordConsent(m) \/ MarkNoticeShown(m)
  PROVE  Kept' /\ \A n \in Messages : Covering(n)'
<1> TypeOK /\ Covering(m)
  BY DEF KeptInv
<1>1. /\ turn[m].pc \in { "received", "consent", "records", "notifies" }
      /\ UNCHANGED << memory, transcript >> /\ (consented => consented')
  BY DEF HasConsented, WasNoticeShown, RecordConsent, MarkNoticeShown, At, database, thread
<1>2. CASE HasConsented(m)
  <2>1. /\ turn'[m].pc = "consent" /\ turn'[m].agreed = consented
        /\ turn'[m].text = turn[m].text /\ consented' = consented
    BY <1>2, HasConsentedKeeps DEF HasConsented, database
  <2>2. Covering(m)'
    BY <2>1 DEF Covering
  <2> QED
    BY <1>1, <2>1, <2>2, KeptStep
<1>3. CASE WasNoticeShown(m)
  <2>1. /\ DecideConsent(m) \in { "gate", "records", "notifies" }
        /\ DecideConsent(m) = "gate" => turn[m].agreed
    BY DEF DecideConsent
  <2>2. turn'[m].pc = DecideConsent(m) /\ turn'[m].text = turn[m].text
    BY <1>3, <2>1, GoingKeeps DEF WasNoticeShown, Keeps
  <2>3. turn[m].pc = "consent"
    BY <1>3 DEF WasNoticeShown, At
  <2>4. Covering(m)'
    BY <1>1, <2>1, <2>2, <2>3 DEF Covering, Covered
  <2> QED
    BY <1>1, <2>1, <2>2, <2>4, KeptStep
<1>4. CASE RecordConsent(m)
  <2>1. turn'[m].pc = "appends" /\ turn'[m].text = turn[m].text /\ consented' = TRUE
    BY <1>4, AnswerKeeps DEF RecordConsent, Keeps
  <2>2. Covering(m)'
    BY <2>1 DEF Covering
  <2> QED
    BY <1>1, <2>1, <2>2, KeptStep
<1>5. CASE MarkNoticeShown(m)
  <2>1. /\ turn'[m].pc = "appends" /\ turn'[m].text = turn[m].text
        /\ turn'[m].answer = "notice"
    BY <1>5, AnswerKeeps DEF MarkNoticeShown, Keeps
  <2>2. Covering(m)'
    BY <2>1 DEF Covering, Traced
  <2> QED
    BY <1>1, <2>1, <2>2, KeptStep
<1> QED
  BY <1>2, <1>3, <1>4, <1>5

LEMMA ConfirmationKeeps ==
  ASSUME KeptInv, TypeOK', NEW m \in Messages, Single(m),
         FindActive(m) \/ Resolve(m) \/ Execute(m)
  PROVE  Kept' /\ \A n \in Messages : Covering(n)'
<1> TypeOK /\ Covering(m)
  BY DEF KeptInv
<1>1. /\ turn[m].pc \in { "gate", "resolves", "executes" }
      /\ UNCHANGED << consented, memory, transcript >>
  BY DEF FindActive, Resolve, Execute, At, database, thread
<1>2. Covered(m)
  BY <1>1 DEF Covering
<1>3. /\ turn'[m].text = turn[m].text
      /\ turn'[m].pc \in { "waits", "resolves", "executes", "appends", "forgetsThread" }
  <2>1. CASE Goto(m, "waits") \/ Goto(m, "executes") \/ Goto(m, "forgetsThread")
    BY <2>1, GoingKeeps DEF Keeps
  <2>2. CASE Answer(m, "cancelled") \/ Answer(m, "done")
    BY <2>2, AnswerKeeps DEF Keeps
  <2>3. ASSUME NEW q \in Live,
               turn' = [turn EXCEPT ![m] = [@ EXCEPT !.pc = "resolves", !.found = q]]
        PROVE  turn'[m].pc = "resolves" /\ turn'[m].text = turn[m].text
    <3> DEFINE t == [turn[m] EXCEPT !.pc = "resolves", !.found = q]
    <3>1. turn'[m] = t /\ turn[m] \in Turn
      BY <2>3 DEF TypeOK
    <3>2. t.pc = "resolves" /\ t.text = turn[m].text
      BY <3>1 DEF Turn
    <3> QED
      BY <3>1, <3>2
  <2> QED
    BY <2>1, <2>2, <2>3 DEF FindActive, Resolve, Execute
<1>4. Covering(m)'
  BY <1>1, <1>2, <1>3 DEF Covering, Covered, Traced
<1> QED
  BY <1>1, <1>3, <1>4, KeptStep

\* The erasure takes the consent last, when nothing is left that it covers.
LEMMA ForgettingKeeps ==
  ASSUME KeptInv, TypeOK', NEW m \in Messages, Single(m),
         ForgetThread(m) \/ ForgetTranscript(m) \/ ForgetConsent(m)
  PROVE  Kept' /\ \A n \in Messages : Covering(n)'
<1> TypeOK /\ Covering(m)
  BY DEF KeptInv
<1>1. CASE ForgetThread(m)
  <2>1. /\ memory' = {} /\ UNCHANGED << consented, transcript >>
        /\ turn[m].pc = "forgetsThread"
    BY <1>1 DEF ForgetThread, At, database
  <2>2. turn'[m].pc = "forgetsTranscript" /\ turn'[m].text = turn[m].text
    BY <1>1, GoingKeeps DEF ForgetThread, Keeps
  <2>3. Covering(m)'
    BY <2>1, <2>2 DEF Covering
  <2> QED
    BY <2>1, <2>2, <2>3, KeptStep
<1>2. CASE ForgetTranscript(m)
  <2>1. /\ transcript' = {} /\ UNCHANGED << consented, memory >>
        /\ turn[m].pc = "forgetsTranscript"
    BY <1>2 DEF ForgetTranscript, At, database
  <2>2. turn'[m].pc = "forgetsConsent" /\ turn'[m].text = turn[m].text
    BY <1>2, GoingKeeps DEF ForgetTranscript, Keeps
  <2>3. Covering(m)'
    BY <2>1, <2>2 DEF Covering
  <2> QED
    BY <2>1, <2>2, <2>3, KeptStep
<1>3. CASE ForgetConsent(m)
  <2>1. UNCHANGED << memory, transcript >> /\ turn[m].pc = "forgetsConsent"
    BY <1>3 DEF ForgetConsent, At, thread
  <2>2. memory = {} /\ transcript = {}
    BY <2>1 DEF Covering
  <2>3. /\ turn'[m].pc = "appends" /\ turn'[m].text = turn[m].text
        /\ turn'[m].answer = "done"
    BY <1>3, AnswerKeeps DEF ForgetConsent, Keeps
  <2>4. Covering(m)'
    BY <2>3 DEF Covering, Traced
  <2> QED
    BY <2>1, <2>2, <2>3, <2>4, KeptStep
<1> QED
  BY <1>1, <1>2, <1>3

\* The agent remembers what is covered.
LEMMA AgentKeeps ==
  ASSUME KeptInv, TypeOK', NEW m \in Messages, Single(m), AgentStep(m)
  PROVE  Kept' /\ \A n \in Messages : Covering(n)'
<1> TypeOK /\ Covering(m) /\ Kept
  BY DEF KeptInv
<1>0. /\ turn[m].copy \subseteq Messages /\ memory \subseteq Messages
  BY DEF TypeOK, Turn
<1>1. /\ turn[m].pc \in { "waits" } \cup Agents
      /\ UNCHANGED << consented, transcript >>
  BY DEF AgentStep, TakeLock, Load, Clear, CallTools, RequestConfirmation, ConnectEmail,
         ToolsReturn, Respond, ModelFails, Unlock, At, database, thread
<1>2. Covered(m)
  BY <1>1 DEF Covering
<1>3. CASE TakeLock(m) \/ Clear(m)
  <2>1. /\ turn'[m].pc = "loads" /\ turn'[m].text = turn[m].text
        /\ memory' \subseteq memory
    BY <1>3, TakeLockEffect, ClearEffect DEF TakesLock, Clears, Moved
  <2>2. Covering(m)'
    BY <1>1, <1>2, <2>1 DEF Covering, Covered
  <2> QED
    BY <1>1, <2>1, <2>2, KeptStep
<1>4. CASE Load(m)
  <2>1. /\ turn'[m].pc \in { "thinks", "clears", "unlocks" }
        /\ turn'[m].text = turn[m].text /\ memory' = memory \cup { m }
        /\ turn'[m].pc = "thinks" => turn'[m].copy = memory'
    BY <1>4, LoadEffect DEF Loads, Moved
  <2>2. Covered(m)' /\ \A n \in memory' : turn'[n].pc # "unsent" /\ Covered(n)'
    BY <1>0, <1>1, <1>2, <2>1 DEF Covered, Kept, Single
  <2>3. Covering(m)'
    BY <1>1, <2>1, <2>2 DEF Covering
  <2> QED
    BY <1>1, <2>1, <2>2, <2>3, KeptStep
<1>5. CASE CallTools(m) \/ ToolsReturn(m) \/ Respond(m)
  <2>1. /\ turn[m].pc \in { "thinks", "tools" }
        /\ turn'[m].pc \in { "thinks", "tools", "unlocks" }
        /\ turn'[m].text = turn[m].text /\ turn'[m].copy = turn[m].copy
        /\ memory' = turn[m].copy
    BY <1>5, CheckpointEffect DEF Checkpoints, Moved
  <2>2. Covered(m)' /\ \A n \in turn[m].copy : turn'[n].pc # "unsent" /\ Covered(n)'
    BY <1>0, <1>1, <1>2, <2>1 DEF Covering, Covered, Single
  <2>3. Covering(m)'
    BY <1>1, <2>1, <2>2 DEF Covering
  <2> QED
    BY <1>1, <2>1, <2>3, KeptStep
<1>6. CASE RequestConfirmation(m) \/ ConnectEmail(m)
  <2>1. UNCHANGED << turn, consented, memory, transcript >>
    BY <1>6 DEF RequestConfirmation, ConnectEmail, thread
  <2> QED
    BY <2>1 DEF KeptInv, Kept, Covering, Covered, Traced
<1>7. CASE ModelFails(m) \/ Unlock(m)
  <2>1. /\ turn'[m].pc \in { "unlocks", "appends", "over" }
        /\ turn'[m].text = turn[m].text /\ memory' = memory
    BY <1>7, ModelFailsEffect, UnlockEffect DEF Fails, Unlocks, Moved
  <2>2. Covering(m)'
    BY <1>1, <1>2, <2>1 DEF Covering, Covered, Traced
  <2> QED
    BY <1>1, <2>1, <2>2, KeptStep
<1> QED
  BY <1>3, <1>4, <1>5, <1>6, <1>7 DEF AgentStep

LEMMA EndingKeeps ==
  ASSUME KeptInv, TypeOK', NEW m \in Messages, Single(m),
         AppendTurn(m) \/ Sends(m) \/ Die(m)
  PROVE  Kept' /\ \A n \in Messages : Covering(n)'
<1> TypeOK /\ Covering(m) /\ Kept
  BY DEF KeptInv
<1>1. CASE AppendTurn(m)
  <2>1. /\ turn[m].pc = "appends" /\ UNCHANGED << consented, memory >>
        /\ transcript' = transcript \cup { m }
    BY <1>1 DEF AppendTurn, At, database
  <2>2. /\ turn'[m].pc = "sends" /\ turn'[m].text = turn[m].text
        /\ turn'[m].answer = turn[m].answer
    BY <1>1, GoingKeeps DEF AppendTurn, Keeps
  <2>3. Covering(m)' /\ (consented' \/ Traced(m)')
    BY <2>1, <2>2 DEF Covering, Traced
  <2> QED
    BY <2>1, <2>2, <2>3, KeptStep
<1>2. CASE Sends(m)
  <2>1. turn[m].pc = "sends" /\ UNCHANGED << consented, memory, transcript >>
    BY <1>2 DEF Sends, SendMessage, SendMessageFails, At, database, thread
  <2>2. /\ turn'[m].pc = "over" /\ turn'[m].text = turn[m].text
        /\ turn'[m].answer = turn[m].answer
    BY <1>2, GoingKeeps DEF Sends, SendMessage, SendMessageFails, Keeps
  <2>3. ASSUME NEW n \in Messages
        PROVE  /\ turn[n].pc # "unsent" => turn'[n].pc # "unsent"
               /\ turn[n].pc \in { "sends", "over" } => turn'[n].pc \in { "sends", "over" }
               /\ Covered(n) => Covered(n)'
               /\ Traced(n) => Traced(n)'
    BY <2>1, <2>2 DEF Single, Covered, Traced
  <2>4. Kept'
    BY <2>1, <2>3 DEF Kept, TypeOK
  <2>5. \A n \in Messages : Covering(n)'
    BY <2>1, <2>2 DEF Single, Covering
  <2> QED
    BY <2>4, <2>5
<1>3. CASE Die(m)
  <2>1. /\ turn[m].pc \in Active \ { "sends" }
        /\ UNCHANGED << consented, memory, transcript >>
    BY <1>3 DEF Die, database
  <2>2. turn'[m].pc = "over" /\ turn'[m].text = turn[m].text
    BY <1>3, DieEffect DEF Dies, Moved
  <2>3. Covering(m)'
    BY <2>2 DEF Covering
  <2> QED
    BY <2>1, <2>2, <2>3, KeptStep
<1> QED
  BY <1>1, <1>2, <1>3

\* While turns do not overlap, nothing the user said is kept without a consent,
\* wherever an erasure is interrupted (forgetMyData in tools.ts).
THEOREM NoTrace ==
  ASSUME OneAtATime
  PROVE  Spec => []UnconsentedLeaveNoTrace
<1>1. Init => KeptInv
  <2> SUFFICES ASSUME Init PROVE KeptInv
    OBVIOUS
  <2>1. \A m \in Messages : turn[m].pc = "unsent"
    BY DEF Init, Blank
  <2>2. memory = {} /\ transcript = {}
    BY DEF Init
  <2> QED
    BY <2>1, <2>2, InitTyped DEF KeptInv, Alone, Kept, Covering
<1>2. KeptInv /\ [Next]_vars => KeptInv'
  <2> SUFFICES ASSUME KeptInv, [Next]_vars PROVE KeptInv'
    OBVIOUS
  <2>1. TypeOK /\ TypeOK' /\ Alone
    BY TypeStep DEF KeptInv
  <2>2. ASSUME NEW m \in Messages, StepOf(m) PROVE KeptInv'
    <3>1. Single(m) /\ Alone'
      BY <2>1, <2>2, StepsAlone
    <3> QED
      BY <2>1, <2>2, <3>1, ComingKeeps, ConsentKeeps, ConfirmationKeeps,
         ForgettingKeeps, AgentKeeps, EndingKeeps
      DEF StepOf, ConsentStep, ConfirmationStep, KeptInv
  <2>3. CASE (\E q \in Requests : Expire(q)) \/ UNCHANGED vars
    <3>1. UNCHANGED << turn, consented, memory, transcript >>
      BY <2>3 DEF Expire, vars, database, thread
    <3> QED
      BY <2>1, <3>1 DEF KeptInv, Alone, Kept, Covering, Covered, Traced
  <2> QED
    BY <2>2, <2>3 DEF Next, StepOf, Sends
<1>3. KeptInv => UnconsentedLeaveNoTrace
  BY DEF KeptInv, Kept, Covered, Traced, UnconsentedLeaveNoTrace
<1> QED
  BY <1>1, <1>2, <1>3, PTL DEF Spec
=============================================================================
