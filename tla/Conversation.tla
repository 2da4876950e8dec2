---------------------------- MODULE Conversation ----------------------------
(***************************************************************************)
(* The turns of one chat: handleTurn and the agent's turn under the lock   *)
(* (src/operator/session.ts), the consent gate (src/compliance/consent.ts),*)
(* the confirmation gate (pending-confirmation.repo.ts) and the two        *)
(* irreversible actions behind it (src/operator/tools.ts).                 *)
(*                                                                         *)
(* A message is one turn.  Telegram's are acknowledged at once and handled *)
(* in the background, so turns of one chat overlap: every awaited read and *)
(* write is a step of its own.  The agent's memory is the checkpointer     *)
(* thread, here the set of messages it holds, and whether it ends in tool  *)
(* calls without results.  LangGraph is external: an invocation loads the  *)
(* thread, and every checkpoint writes all the messages the invocation     *)
(* has.  The lock is the one of ThreadMutex, which ThreadLock implements.  *)
(***************************************************************************)
EXTENDS Naturals, FiniteSets

CONSTANTS
  Messages,    \* what the user will say, and the callbacks that speak for it
  NoMessage,
  Requests,    \* bounds the confirmations the agent may ask for
  NoRequest,
  Actions,     \* of "forget_my_data" and "disconnect_email"
  MaxActive,   \* bounds the turns in progress at once
  MaxDeaths    \* bounds the turns that die with their process

ASSUME NullsAssumption == NoMessage \notin Messages /\ NoRequest \notin Requests
ASSUME ActionsAssumption == Actions \subseteq { "forget_my_data", "disconnect_email" }
ASSUME LimitsAssumption == MaxActive \in Nat /\ MaxDeaths \in Nat

VARIABLES
  turn,        \* each message, where its turn is and what it has read
  consented,   \* a consent of the user is on record
  noticeShown, \* channel_identities.noticeShownAtUtc is set
  row,         \* pending_confirmations
  flow,        \* an OAuth flow of the user is open
  mailbox,     \* an email connection of the user is on record
  memory,      \* the messages in the conversation's checkpointer thread
  dangling,    \* that thread ends in a tool call without its result
  transcript,  \* the messages in conversation_messages
  lock         \* the turn that holds the thread's lock

\* What the user and the world have seen; never read by the code.
VARIABLES
  noticeSeen,  \* a notice reached the user since a consent was last erased
  noticeLost,  \* the last one marked as shown did not, or a consent was erased since
  executed,    \* how often each request was executed
  erased,      \* the messages an erasure deleted from memory
  dropped,     \* the messages a repair deleted from it
  deaths

database == << consented, noticeShown, row, flow, mailbox >>
thread   == << memory, dangling, transcript, lock >>
history  == << noticeSeen, noticeLost, executed, erased, dropped, deaths >>
vars     == << turn, database, thread, history >>

-----------------------------------------------------------------------------
\* Where a turn is.  At the gates:
Gates == { "received", "consent", "records", "notifies", "gate", "resolves",
           "executes" }
\* In forgetMyData:
Forgets == { "forgetsThread", "forgetsTranscript", "forgetsConsent" }
\* Under the lock:
Agents == { "loads", "clears", "thinks", "tools", "unlocks" }

Active == Gates \cup Forgets \cup Agents \cup { "waits", "appends", "sends" }

States == Active \cup { "unsent", "over" }

\* What the turn answers with.
Answers == { "none", "notice", "welcome", "cancelled", "done", "agent", "error" }

Turn == [ pc      : States,
          text    : { "yes", "other", "note" },
          saw     : BOOLEAN,           \* the notice, before it was sent
          open    : SUBSET Requests,   \* live when it was sent
          agreed  : BOOLEAN,           \* what hasConsented returned
          found   : Requests \cup { NoRequest },
          copy    : SUBSET Messages,   \* the messages of its invocation
          retried : BOOLEAN,
          answer  : Answers ]

Blank == [ pc |-> "unsent", text |-> "other", saw |-> FALSE, open |-> {},
           agreed |-> FALSE, found |-> NoRequest, copy |-> {},
           retried |-> FALSE, answer |-> "none" ]

\* A row is absent, live, past its expiresAtUtc, or deleted by resolve().
Rows == [ state : { "none", "live", "expired", "resolved" },
          action : { "forget_my_data", "disconnect_email" } ]

Live == { q \in Requests : row[q].state = "live" }

\* A new user, or one who has been shown the notice and agreed.
Init ==
  /\ turn = [m \in Messages |-> Blank]
  /\ consented \in BOOLEAN
  /\ noticeShown = consented
  /\ row = [q \in Requests |-> [state |-> "none", action |-> "disconnect_email"]]
  /\ flow = FALSE
  /\ mailbox \in { consented, FALSE }
  /\ memory = {} /\ dangling = FALSE /\ transcript = {}
  /\ lock = NoMessage
  /\ noticeSeen = consented /\ noticeLost = FALSE
  /\ executed = [q \in Requests |-> 0]
  /\ erased = {} /\ dropped = {}
  /\ deaths = 0

At(m, pc) == turn[m].pc = pc

Goto(m, pc) == turn' = [turn EXCEPT ![m].pc = pc]

\* The turn goes to the transcript with its answer.
Answer(m, answer) ==
  turn' = [turn EXCEPT ![m] = [@ EXCEPT !.pc = "appends", !.answer = answer]]

Free == Cardinality({ m \in Messages : turn[m].pc \in Active }) < MaxActive

-----------------------------------------------------------------------------
(***************************************************************************)
(* A message arrives, and passes the consent gate.                         *)
(***************************************************************************)
Sent(text) ==
  [Blank EXCEPT !.text = text, !.saw = noticeSeen, !.open = Live]

Receive(m) ==
  /\ At(m, "unsent")
  /\ Free
  /\ \E text \in { "yes", "other" } :
       turn' = [turn EXCEPT ![m] = [Sent(text) EXCEPT !.pc = "received"]]
  /\ UNCHANGED << database, thread, history >>

HasConsented(m) ==
  /\ At(m, "received")
  /\ turn' = [turn EXCEPT ![m] = [@ EXCEPT !.pc = "consent", !.agreed = consented]]
  /\ UNCHANGED << database, thread, history >>

\* isAffirmativeReply
Affirmative(m) == turn[m].text = "yes"

\* Mutant: whether the notice was shown is not asked.
DecideWithoutNotice(m) ==
  IF turn[m].agreed THEN "gate" ELSE IF Affirmative(m) THEN "records" ELSE "notifies"

\* decideConsent, of what hasConsented and wasNoticeShown returned.
DecideConsent(m) ==
  IF turn[m].agreed THEN "gate"
  ELSE IF noticeShown /\ Affirmative(m) THEN "records" ELSE "notifies"

WasNoticeShown(m) ==
  /\ At(m, "consent")
  /\ Goto(m, DecideConsent(m))
  /\ UNCHANGED << database, thread, history >>

RecordConsent(m) ==
  /\ At(m, "records")
  /\ consented' = TRUE
  /\ Answer(m, "welcome")
  /\ UNCHANGED << noticeShown, row, flow, mailbox, thread, history >>

MarkNoticeShown(m) ==
  /\ At(m, "notifies")
  /\ noticeShown' = TRUE
  /\ Answer(m, "notice")
  /\ UNCHANGED << consented, row, flow, mailbox, thread, history >>

-----------------------------------------------------------------------------
(***************************************************************************)
(* The confirmation gate.                                                  *)
(***************************************************************************)
\* Mutant: only a "yes" is looked up.
FindIfAffirmative(m) ==
  /\ At(m, "gate")
  /\ \/ /\ Affirmative(m)
        /\ \E q \in Live :
             turn' = [turn EXCEPT ![m] = [@ EXCEPT !.pc = "resolves", !.found = q]]
     \/ /\ ~ Affirmative(m) \/ Live = {}
        /\ Goto(m, "waits")
  /\ UNCHANGED << database, thread, history >>

\* findActiveForUser: some row that has not expired (limit 1, in no order).
FindActive(m) ==
  /\ At(m, "gate")
  /\ \/ \E q \in Live :
          turn' = [turn EXCEPT ![m] = [@ EXCEPT !.pc = "resolves", !.found = q]]
     \/ Live = {} /\ Goto(m, "waits")
  /\ UNCHANGED << database, thread, history >>

\* Mutant: the row of a confirmation that is answered stays.
ResolveNothing(m) ==
  /\ At(m, "resolves")
  /\ IF Affirmative(m) THEN Goto(m, "executes") ELSE Answer(m, "cancelled")
  /\ UNCHANGED << database, thread, history >>

\* resolve deletes the row, if it is still there, whatever the reply was.
Resolve(m) ==
  /\ At(m, "resolves")
  /\ row' = [row EXCEPT ![turn[m].found].state = "resolved"]
  /\ IF Affirmative(m) THEN Goto(m, "executes") ELSE Answer(m, "cancelled")
  /\ UNCHANGED << consented, noticeShown, flow, mailbox, thread, history >>

\* Mutant: the consent goes before what it covers.
ForgetConsentFirst(m) ==
  LET q == turn[m].found IN
  /\ At(m, "executes")
  /\ executed' = [executed EXCEPT ![q] = @ + 1]
  /\ mailbox' = FALSE
  /\ IF row[q].action = "forget_my_data"
     THEN Goto(m, "forgetsThread") /\ consented' = FALSE
     ELSE Answer(m, "done") /\ UNCHANGED consented
  /\ UNCHANGED << noticeShown, row, flow, thread, noticeSeen, noticeLost,
                  erased, dropped, deaths >>

\* executeConfirmedAction.  Both actions delete the connection; disconnectEmail
\* is over then, forgetMyData goes on.
Execute(m) ==
  LET q == turn[m].found IN
  /\ At(m, "executes")
  /\ executed' = [executed EXCEPT ![q] = @ + 1]
  /\ mailbox' = FALSE
  /\ IF row[q].action = "forget_my_data"
     THEN Goto(m, "forgetsThread") ELSE Answer(m, "done")
  /\ UNCHANGED << consented, noticeShown, row, flow, thread, noticeSeen,
                  noticeLost, erased, dropped, deaths >>

\* forgetMyData, after the claims: the agent's thread, the history, the consent.
ForgetThread(m) ==
  /\ At(m, "forgetsThread")
  /\ memory' = {} /\ dangling' = FALSE
  /\ erased' = erased \cup memory
  /\ Goto(m, "forgetsTranscript")
  /\ UNCHANGED << database, transcript, lock, noticeSeen, noticeLost, executed,
                  dropped, deaths >>

ForgetTranscript(m) ==
  /\ At(m, "forgetsTranscript")
  /\ transcript' = {}
  /\ Goto(m, "forgetsConsent")
  /\ UNCHANGED << database, memory, dangling, lock, history >>

ForgetConsent(m) ==
  /\ At(m, "forgetsConsent")
  /\ consented' = FALSE
  /\ noticeSeen' = FALSE /\ noticeLost' = TRUE
  /\ Answer(m, "done")
  /\ UNCHANGED << noticeShown, row, flow, mailbox, thread, executed,
                  erased, dropped, deaths >>

-----------------------------------------------------------------------------
(***************************************************************************)
(* The agent's turn (runAgentTurn), under withThreadLock.                  *)
(***************************************************************************)
\* An OAuth callback completes the flow and resumes the conversation, past the gates.
Connected(m) ==
  /\ At(m, "unsent")
  /\ Free
  /\ flow
  /\ flow' = FALSE /\ mailbox' = TRUE
  /\ turn' = [turn EXCEPT ![m] = [Sent("note") EXCEPT !.pc = "waits"]]
  /\ UNCHANGED << consented, noticeShown, row, thread, history >>

\* Mutant: turns do not wait for each other.
TakeNoLock(m) ==
  /\ At(m, "waits")
  /\ lock' = m
  /\ Goto(m, "loads")
  /\ UNCHANGED << database, memory, dangling, transcript, history >>

TakeLock(m) ==
  /\ At(m, "waits")
  /\ lock = NoMessage
  /\ lock' = m
  /\ Goto(m, "loads")
  /\ UNCHANGED << database, memory, dangling, transcript, history >>

\* agent.invoke: the message joins the thread.  The provider refuses a thread that
\* ends in tool calls without results; that is repaired once.
Load(m) ==
  /\ At(m, "loads")
  /\ memory' = memory \cup { m }
  /\ turn' = [turn EXCEPT ![m] =
       IF ~ dangling THEN [@ EXCEPT !.pc = "thinks", !.copy = memory \cup { m }]
       ELSE IF @.retried THEN [@ EXCEPT !.pc = "unlocks", !.answer = "error"]
       ELSE [@ EXCEPT !.pc = "clears"]]
  /\ UNCHANGED << database, dangling, transcript, lock, history >>

\* Mutant: the retry meets the thread as it is.
RetryAsIs(m) ==
  /\ At(m, "clears")
  /\ turn' = [turn EXCEPT ![m] = [@ EXCEPT !.pc = "loads", !.retried = TRUE]]
  /\ UNCHANGED << database, thread, history >>

\* isDanglingToolUseError: deleteThread, and the turn starts over.
Clear(m) ==
  /\ At(m, "clears")
  /\ memory' = {} /\ dangling' = FALSE
  /\ dropped' = dropped \cup memory
  /\ turn' = [turn EXCEPT ![m] = [@ EXCEPT !.pc = "loads", !.retried = TRUE]]
  /\ UNCHANGED << database, transcript, lock, noticeSeen, noticeLost, executed,
                  erased, deaths >>

\* The model answers with tool calls, which are checkpointed before they run.
CallTools(m) ==
  /\ At(m, "thinks")
  /\ memory' = turn[m].copy /\ dangling' = TRUE
  /\ Goto(m, "tools")
  /\ UNCHANGED << database, transcript, lock, history >>

\* disconnect_email (only for a connection on record) and forget_my_data ask.
RequestConfirmation(m) ==
  /\ At(m, "tools")
  /\ \E q \in Requests, action \in Actions :
       /\ row[q].state = "none"
       /\ action = "disconnect_email" => mailbox
       /\ row' = [row EXCEPT ![q] = [state |-> "live", action |-> action]]
  /\ UNCHANGED << turn, consented, noticeShown, flow, mailbox, thread, history >>

\* connect_email
ConnectEmail(m) ==
  /\ At(m, "tools")
  /\ flow' = TRUE
  /\ UNCHANGED << turn, consented, noticeShown, row, mailbox, thread, history >>

ToolsReturn(m) ==
  /\ At(m, "tools")
  /\ memory' = turn[m].copy /\ dangling' = FALSE
  /\ Goto(m, "thinks")
  /\ UNCHANGED << database, transcript, lock, history >>

\* The model answers the user: the last checkpoint of the invocation.
Respond(m) ==
  /\ At(m, "thinks")
  /\ memory' = turn[m].copy /\ dangling' = FALSE
  /\ turn' = [turn EXCEPT ![m] = [@ EXCEPT !.pc = "unlocks", !.answer = "agent"]]
  /\ UNCHANGED << database, transcript, lock, history >>

\* A call of the model fails, say by its rate limit.
ModelFails(m) ==
  /\ At(m, "thinks")
  /\ turn' = [turn EXCEPT ![m] = [@ EXCEPT !.pc = "unlocks", !.answer = "error"]]
  /\ UNCHANGED << database, thread, history >>

\* Mutant: an error of the agent passes the unlock by.
UnlockOnSuccess(m) ==
  /\ At(m, "unlocks")
  /\ IF turn[m].answer = "error"
     THEN Goto(m, "over") /\ UNCHANGED lock
     ELSE Goto(m, "appends") /\ lock' = NoMessage
  /\ UNCHANGED << database, memory, dangling, transcript, history >>

\* The finally of withThreadLock.  An error leaves handleTurn without a transcript;
\* the callback then says on its own that the mailbox is connected.
Unlock(m) ==
  /\ At(m, "unlocks")
  /\ lock' = NoMessage
  /\ Goto(m, IF turn[m].answer = "error" /\ turn[m].text # "note"
             THEN "over" ELSE "appends")
  /\ UNCHANGED << database, memory, dangling, transcript, history >>

-----------------------------------------------------------------------------
\* appendTurn of message and answer: handleTurn returns.
AppendTurn(m) ==
  /\ At(m, "appends")
  /\ transcript' = transcript \cup { m }
  /\ Goto(m, "sends")
  /\ UNCHANGED << database, memory, dangling, lock, history >>

IsNotice(m) == turn[m].answer = "notice"

\* The route sends the answer to the chat.
SendMessage(m) ==
  /\ At(m, "sends")
  /\ noticeSeen' = (noticeSeen \/ IsNotice(m))
  /\ noticeLost' = (noticeLost /\ ~ IsNotice(m))
  /\ Goto(m, "over")
  /\ UNCHANGED << database, thread, executed, erased, dropped, deaths >>

\* The channel refuses it, which is only logged.
SendMessageFails(m) ==
  /\ At(m, "sends")
  /\ noticeLost' = (noticeLost \/ IsNotice(m))
  /\ Goto(m, "over")
  /\ UNCHANGED << database, thread, noticeSeen, executed, erased, dropped, deaths >>

\* The process dies: Postgres takes the lock back, and there is no answer.  A death
\* while the answer is being sent is a send that fails.
Die(m) ==
  /\ turn[m].pc \in Active \ { "sends" }
  /\ deaths < MaxDeaths
  /\ deaths' = deaths + 1
  /\ lock' = IF lock = m THEN NoMessage ELSE lock
  /\ noticeLost' = (noticeLost \/ IsNotice(m))
  /\ turn' = [turn EXCEPT ![m] = [@ EXCEPT !.pc = "over", !.answer = "none"]]
  /\ UNCHANGED << database, memory, dangling, transcript, noticeSeen,
                  executed, erased, dropped >>

\* PENDING_CONFIRMATION_TTL_MINUTES pass.
Expire(q) ==
  /\ row[q].state = "live"
  /\ row' = [row EXCEPT ![q].state = "expired"]
  /\ UNCHANGED << turn, consented, noticeShown, flow, mailbox, thread, history >>

ConsentStep(m) ==
  \/ Receive(m) \/ HasConsented(m) \/ WasNoticeShown(m)
  \/ RecordConsent(m) \/ MarkNoticeShown(m)

ConfirmationStep(m) ==
  \/ FindActive(m) \/ Resolve(m) \/ Execute(m)
  \/ ForgetThread(m) \/ ForgetTranscript(m) \/ ForgetConsent(m)

AgentStep(m) ==
  \/ TakeLock(m) \/ Load(m) \/ Clear(m) \/ CallTools(m)
  \/ RequestConfirmation(m) \/ ConnectEmail(m) \/ ToolsReturn(m)
  \/ Respond(m) \/ ModelFails(m) \/ Unlock(m)

Next ==
  \/ \E m \in Messages :
       \/ ConsentStep(m) \/ ConfirmationStep(m) \/ AgentStep(m)
       \/ Connected(m) \/ AppendTurn(m) \/ SendMessage(m) \/ SendMessageFails(m) \/ Die(m)
  \/ \E q \in Requests : Expire(q)

Spec == Init /\ [][Next]_vars

-----------------------------------------------------------------------------
(***************************************************************************)
(* Properties.                                                             *)
(***************************************************************************)
\* The types of the variables; the lock is held by the turn that runs the agent.
TypeOK ==
  /\ turn \in [Messages -> Turn]
  /\ consented \in BOOLEAN /\ noticeShown \in BOOLEAN
  /\ noticeSeen \in BOOLEAN /\ noticeLost \in BOOLEAN
  /\ flow \in BOOLEAN /\ mailbox \in BOOLEAN /\ dangling \in BOOLEAN
  /\ row \in [Requests -> Rows]
  /\ memory \subseteq Messages /\ transcript \subseteq Messages
  /\ erased \subseteq Messages /\ dropped \subseteq Messages
  /\ lock \in Messages \cup { NoMessage }
  /\ \A m \in Messages : turn[m].pc \in Agents <=> lock = m
  /\ executed \in [Requests -> Nat]
  /\ deaths \in 0..MaxDeaths

\* A confirmation "can never be acted on twice" (pending-confirmation.repo.ts),
\* also when the turn that acts on it dies half-way.
ActedOnOnce == \A q \in Requests : executed[q] <= 1

\* A reply to a prompt, a yes or not, "still never reaches the LLM"
\* (pending-confirmation-gate.test.ts): the agent only gets a message if no
\* confirmation that was waiting when it was sent is still waiting.
RepliesStayOutOfTheModel ==
  \A m \in Messages :
    turn[m].pc \in Agents \cup { "waits" } /\ turn[m].text # "note"
      => turn[m].open \cap Live = {}

\* Without a consent on record nothing of what the user told the agent is kept,
\* neither in its memory nor in the transcript: forgetMyData removes the consent
\* after both, so an erasure that dies before that can be asked for again.  What an
\* OAuth callback brings in is excepted.
UnconsentedLeaveNoTrace ==
  ~ consented =>
    \A m \in memory \cup transcript :
      turn[m].text = "note" \/ turn[m].answer \in { "notice", "done" }

\* What the agent answered it remembers: no turn overwrites the memory of another,
\* which is gone only by an erasure or a repair (thread-lock.ts).
TurnsRemembered ==
  \A m \in Messages :
    turn[m].pc \in { "appends", "sends", "over" } /\ turn[m].answer = "agent"
      => m \in memory \cup erased \cup dropped

\* Clearing the thread once is enough: the retry never meets dangling tool calls,
\* so no conversation stays wedged (session.ts, "permanently wedged").
OneRetrySuffices ==
  \A m \in Messages : At(m, "loads") /\ turn[m].retried => ~ dangling

\* Only a process that died leaves dangling tool calls behind (session.ts: "most
\* plausibly a process that died mid-tool-call"); turns that race do not.
DanglingByDeathOnly == dangling /\ lock = NoMessage => deaths > 0

\* "Only a reply sent after the notice was actually shown can record consent"
\* (consent.ts), while turns do not overlap.  The mark does not see to that by itself:
\* it is set before the notice is sent, and an erasure leaves it.  So excepted is a
\* notice that was lost after its mark, as the channel refused it or the turn died, and
\* a consent erased since; the next notice that arrives ends the exception.
ConsentAfterNotice ==
  \A m \in Messages : At(m, "records") => turn[m].saw \/ noticeLost

\* Seen from those who run the agent, the lock lets one in at a time, as the lock of
\* the conversation's thread does (thread-lock.ts).
Mutex == INSTANCE ThreadMutex WITH
  Turns    <- Messages,
  ThreadOf <- [m \in Messages |-> "chat"],
  inside   <- { m \in Messages : turn[m].pc \in Agents }

ImplementsMutex == Mutex!MutexSpec
=============================================================================
