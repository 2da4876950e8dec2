# Flight refund agent: a TLA+ model

This directory specifies and verifies the program in `src/`: a LangGraph
pipeline that files EC261 claims for passengers, and the conversational operator
that drives it. Paths below are relative to the repository's own root, so
`src/agent/graph.ts` is the file PROJECT.json calls `src/src/agent/graph.ts`.

## 1. Inventory

| Component | State it keeps | Operations | Talks to |
|---|---|---|---|
| Claim status machine (`domain/claim/state-machine.ts`) | none, a table | `canTransition`, `applyTransition` | every node that changes the status |
| Claim pipeline (`agent/graph.ts`, `agent/nodes/*`, `agent/edges/routing.ts`, `agent/state.ts`) | the channels of `GraphState`, checkpointed per thread in Postgres | eleven nodes; `invoke` with the booking, `invoke` with `Command({resume})` | directory, flight and weather data, model, mail and payment providers, audit log |
| Operator tools (`operator/tools.ts`) | the `claims` table: owner and a mirror of the status | fourteen tools, of which `start_claim`, `submit_approval_decision`, `submit_airline_reply`, `submit_payment_confirmation` move a claim | the pipeline, the repositories |
| Erasure (`forgetMyData` in `operator/tools.ts`) | none of its own | list, delete thread, delete row, per claim; then the conversation, consent, profile | checkpointer, every repository |
| Confirmation gate (`operator/session.ts`, `pending-confirmation.repo.ts`) | `pending_confirmations` with an expiry | request, find, resolve, execute | erasure, disconnect |
| Consent gate (`compliance/consent.ts`, `consent.repo.ts`) | consent record, "notice shown" | `decideConsent` | the turn |
| Conversation turns and thread lock (`operator/session.ts`, `thread-lock.ts`, `db/client.ts`) | the agent's thread, the pool of database connections, Postgres advisory locks | `handleTurn`, `runAgentTurn`, `withThreadLock`, `resumeConversationAfterEmailConnected` | the agent, the tools |
| Mailbox connection (`hosted-oauth.ts`, `oauth.routes.ts`, `email-connection.repo.ts`, `oauth-pending-flow.repo.ts`) | pending flows, connections, one owner per mailbox | start, callback, disconnect, reassign | providers, the conversation |
| Passenger profile (`passenger-profile.repo.ts`) | one row per user | read, merge and save, delete | `start_claim`, `draftClaim` |
| Identities and transcript (`conversation.repo.ts`, `user.repo.ts`) | users, channel identities, messages, the mark that the notice was shown | find or create, append, list, forget | the turn |
| Airline directory and submission plan (`providers/airline-directory/*`) | a dataset, checked when the process starts | `getAirline`, `buildSubmissionPlan`, `list_supported_airlines` | `draftClaim`, `sendClaim`, the tools |
| EC261 rules (`domain/ec261/*`, `check-eligibility.node.ts`) | none | pure functions over the lookups of flights, airports and carriers | the node |
| Claim form and prefill (`field-vocabulary.ts`, `prefill.ts`, `claim-facts.ts`) | none | what a form asks for, what is known, the postal pack | `draftClaim`, the tools |
| Commission split (`domain/money/split.ts`) | none | `splitPayout` | `processPayout` |
| Inbox reading (`gmail.adapter.ts`, `outlook.adapter.ts`, `booking-parser.ts`, `lib/concurrency.ts`) | none | list by pages, fetch, filter, extract | the providers, the model |
| Telegram, API server, command line scripts | none | deliver messages and callbacks; start and resume threads | the session, the pipeline |
| Providers: mail, payments, flights, weather, model | none here | request and answer, or fail | the nodes and tools |

What is hard here, by component, and what makes it correct:

- **Pipeline.** A thread is paused for weeks, and several values could resume it;
  the graph has two cycles; nodes have effects outside the checkpoint; nothing
  locks a claim's thread, so two invocations can run from one checkpoint.
  Correct: no letter without a decision about exactly that text, at most
  `MAX_REBUTTAL_ATTEMPTS` rebuttals, one letter per round and one transfer unless
  something died in between, a status that never claims what did not happen.
- **Operator tools and erasure.** The mirror of the status is written late, the
  ownership row early, and erasure runs beside both. Correct: one filing per
  booking, no thread without an owner, sent claims kept, unsent ones gone.
- **Confirmation and consent gates.** Turns of one chat run concurrently and
  outside the lock until the agent is called. Correct: an irreversible action
  runs once, for a "yes" that answers it, before it expires.
- **Turns and locks.** A turn holds one connection for its lock while it asks the
  same pool for others. Correct: turns of one conversation are serialised, and
  every turn that is waiting for its lock gets it.
- **Mailbox connection.** A callback awaits the provider between its check and
  its mark, and a mailbox may belong to somebody else by then. Correct: a flow is
  used once, a change of owner is audited, a stored token works, an erased user
  has no mailbox, whoever is connected is told unless the chat does not take it.
- **Identities and profile.** First messages race for one identity; a save writes
  back what it has read; a claim keeps the profile it started with. Correct: what
  is stored can be reached from the chat, is what was said, and goes with an
  erasure.
- **Inbox reading.** Workers finish in any order, any request may fail, and pages
  end beside the limit. Correct: an answer is whole, or says that it is cut.
- **Pure rules.** Lookups that fail one by one, boundaries of distance, delay and
  rounding, a carrier's data going through four stages. Correct: doubt decides
  nothing, no cent is lost, nothing unconfirmed is shown, every field is asked for.

`hazards` in PROJECT.json lists where each of these bites, with the properties
that watch it, or says why none does.

## 2. Modules

| Module | What it is |
|---|---|
| `ClaimStatusMachine` | the transition table of `state-machine.ts` as a record of records |
| `ClaimGraph` | the pipeline: every node, edge, pause, resume and failure, any number of invocations of one thread at once |
| `ClaimLifecycle` | the abstract specification of a claim: status, round, rounds mailed, money moved |
| `ClaimGraphProofs` | the TLAPS proofs about `ClaimGraph`, and that it implements `ClaimLifecycle` |
| `ClaimDesk` | `ClaimGraph` with the tools around it: the ownership row, the mirror, `start_claim`, the resuming tools, the claims part of `forget_my_data` |
| `ClaimDeskProofs` | the TLAPS proofs about `ClaimDesk`, on top of those about `ClaimGraph` |
| `Conversation` | the turns of one chat: consent gate, confirmation gate, the two irreversible actions, the agent's turn with its checkpoints |
| `ConversationProofs` | the TLAPS proofs about `Conversation`, and that it implements `ThreadMutex` |
| `ThreadMutex` | the abstract specification of the lock: turns of one conversation run the agent one at a time |
| `ThreadLock` | `withThreadLock` and the pool of connections of each process, with crashes |
| `ThreadLockProofs` | the TLAPS proofs about `ThreadLock`, and that it implements `ThreadMutex` |
| `Mailbox` | flows, callbacks, connections, their removal, and the refresh of a token, for several users and mailboxes |
| `Intake` | the user of a chat, the profile, the claimant of a claim, and their erasure |
| `IntakeProofs` | the TLAPS proofs about `Intake` |
| `MailboxProofs` | the TLAPS proofs about `Mailbox` |
| `InboxScan` | listing, fetching by workers, filtering and extracting, up to the answer of a scan |
| `InboxScanProofs` | the TLAPS proofs about `InboxScan` |
| `Ec261` | what a passenger is owed, from the lookups to the node's verdict |
| `AirlineDirectory` | loading the dataset, and the submission plan |
| `ClaimForm` | the vocabulary of forms, the prefill, the postal pack |
| `PayoutSplit` | the split of a payment |
| `Rules` | the four pure modules asked one question at a time, and their properties |
| `RulesProofs` | the TLAPS proofs of these properties, and the lemmas about the pure modules they rest on |
| `MCClaimGraph`, `MCClaimDesk`, `MCConversation`, `MCThreadLock`, `MCMailbox`, `MCIntake`, `MCInboxScan`, `MCRules` | what TLC needs besides: symmetries, state constraints, instances, the questions |

`ClaimDesk` extends `ClaimGraph`, and `ClaimGraph` instantiates `ClaimLifecycle`,
`ThreadLock` and `Conversation` instantiate `ThreadMutex`.
`Conversation`, `Mailbox` and `Intake` are cut along the tables they write: a step
of the code that writes several of them is, in each, the part that concerns it.
`AirlineDirectory` uses `ClaimForm`, and `Rules` all four pure modules.

### ClaimGraph

`ckpt` is the latest checkpoint: the channels of `GraphState` that decide the
control flow or that a property looks at, and the node that is next. The others
(booking, flight data, evidence, score) are abstracted to the choices they
determine: eligible or not, strong evidence for a rebuttal or not, a claimant's
name on record or not, and which of five kinds of submission plan the directory
yields. The directory is looked up again for every draft, so the kind may differ
from round to round. A text is the round it was written for and its author; `NoText` is both the
null draft and the empty letter, which the drafting schema (`z.string()`) lets
through and `sendClaim` treats alike.

`runs[r]` is one `graph.invoke`: idle, about to execute a node (`step`), between
a node's effect and its return (`effect`), or resolved (`done`), with its own copy
of the state. The rules of LangGraph are external to `src/` and taken from how the
code relies on them: an invocation loads the latest checkpoint; a checkpoint is
written after each node; a node that interrupts or throws leaves the checkpoint
as it was with that node still next, and is executed from its beginning by the
next invocation; a resume value reaches the first node that invocation executes,
and no later one; resuming a finished thread returns its state. An overlapping
invocation overwrites the latest checkpoint with its own copy.

One action stands for one node, with its guards and its return. Four nodes are
split. `humanApproval`, `sendClaim` and `processPayout` have an effect on the
world before they return (the `human_decision` audit entry, the mail, the
transfer), so the effect and the return are two steps with whatever other
invocations do, or a failure, between them. A node that may pause or refuse has
an `Asks` and a `Refuses` action. `Abort` is any failure of a provider, the
model, the database or the process, before or after the effect; audit entries
of the other nodes only matter as one more place where a node can fail, which
`Abort` at that node covers.

`approvals`, `outbox`, `sends`, `transfers` and the two `lost` counters are
history: what the world has seen, never read by the code. `aborts` bounds the
failures.

### ClaimDesk

A tool call is an invocation with bookkeeping. `start_claim` looks for the
booking's row, creates it (the unique index turns a second one away), and then
invokes the graph; the mirror `row` is written only after an invocation
resolved, so a failed one leaves it behind, and so does a resolved one whose update
fails or whose process dies before it; the update of a deleted row does nothing. `forget_my_data` reads the rows, then deletes the thread and the row of
a claim whose mirror was in `PRE_SEND_CLAIM_STATUSES`; each is a step of its own
beside the invocations in progress. One booking of one user is modelled; other
bookings have threads and rows of their own. The scripts resume a thread without
touching the mirror; the model leaves that out here, and `ClaimGraph` has their
resume values.

### Conversation

A message is one turn, `turn[m]`: the step of `handleTurn` or `runAgentTurn` it
is at and what it has read so far. Every awaited read and write is a step of its
own, because the Telegram route acknowledges at once and handles in the
background, so turns of one chat interleave everywhere except under the thread
lock. `Receive` to `MarkNoticeShown` are the consent gate; `FindActive`,
`Resolve`, `Execute` the confirmation gate, and `ForgetThread`,
`ForgetTranscript`, `ForgetConsent` the part of `forgetMyData` that concerns the
conversation (the claims are `ClaimDesk`'s); `TakeLock` to `Unlock` the agent's
turn with its one repair; `AppendTurn` the transcript. The answer, the notice
included, is sent by the route after that: `SendMessage`, or `SendMessageFails`,
which the route only logs. `Connected` is the OAuth callback, which completes a flow and goes straight
to the agent, past both gates.

`memory` is the conversation's checkpointer thread as the set of messages it
holds, and `dangling` says that it ends in tool calls without results. The agent
of LangChain is external: an invocation loads the thread, every checkpoint writes
all the messages the invocation has (`copy`), the tool calls are checkpointed
before the tools run, and a thread that dangles is refused by the provider. A
confirmation is a row that is absent, live, expired or deleted; `findActiveForUser`
takes any live one, as its query has no order. A reply is a yes or anything else.
`Die` is a process that dies at any step (or a database error, which ends a turn
outside the lock in the same way). `noticeSeen`, `noticeLost`, `executed`, `erased`,
`dropped` and `deaths` are history; `noticeLost` says that the last notice marked as
shown did not arrive, or that a consent was erased since.

The lock appears here as one holder, taken back when it dies; any turn that waits
may be the next. That is `ThreadMutex`, which both this module and `ThreadLock`
implement, with `inside` the turns that run the agent.

### ThreadLock

A turn reads, takes a connection, waits on it for the advisory lock, works under
the lock with further queries on other connections of the same pool, unlocks,
releases, and writes the transcript; a query that fails ends the turn, under the
lock by way of the unlock. One query stands for a row of them.
`clients[p]` are the connections checked out of the pool of a process and for
what, `pending[p]` the callers waiting for one; `holder` is the advisory lock of
a thread, and `ahead` has, for each turn that waits for it, those that came
before. The pool of `pg` and the locks of Postgres are external and taken to
serve in order of arrival. `Crash` loses a process with
its turns, its connections and their locks; a lost connection is the same step,
as nothing in `src/` listens for the `error` event of a checked-out client. An
unlock that fails is only logged; it fails when the connection is broken, and then
Postgres has dropped the lock, so it is no step of its own. The
key of the lock is taken to be distinct per thread (64 bits of SHA-256).

### Mailbox

`flow`, `conn` and `audit` are tables; a job is one callback, script, confirmed
disconnection or erasure, or scan, and each awaited query or request of it is one
step. A callback checks its flow, exchanges the code, asks the provider for the
address, looks for the owner, upserts, audits, marks the flow and has the agent
say so, or the fixed text if the agent fails, and only then pushes the message to the
chat. The push may be refused, or there is no identity to push to; the code logs both
and goes on. What overlaps a callback can come between any two of these. The providers are
external: `live` is which of their grants they honour. A connection is the grant
of its refresh and of its access token, so that a mixed or a revoked pair can be
told. `moved`, `uses`, `completed`, `announced`, `refused`, `erased` and `leftover`
are history, and `overlapped` says that two jobs were in progress at once: some
promises are only kept without that, and each property says which.

The expiry of a flow, PKCE and the encryption of tokens are left out: a flow that
expired is one nobody follows, and the other two fail like a refused exchange.

### Intake

A call is one message on its way to one tool. `Receive` to `ReadUser` find or
create the user, one query at a time, so that the first two messages of a chat
can both find nobody. `SaveReads` and `SaveWrites` are the two halves of
`savePassengerProfile`, `StartLooks` to `StartInvokes` what `start_claim` awaits,
and `ForgetClaims` to `ForgetRecords` the part of `forgetMyData` that deletes
these tables, in its order. A detail is the number of the save it came from;
`said` is the profile that saves and erasures one after another would make.

The gate is where the code has it: `HasConsented` reads the consent once, before the
lock and the agent, and a call that has `passed` runs its tool however long that
takes and whatever has become of the consent. `Resume` is the agent that goes on when
a link of `connect_email` has been followed, which reads no consent at all; an
erasure leaves the link open. `outrun` are the calls that were past the gate when an
erasure took the consent, `strays` the users for whom one of these, or a resumed one,
has begun to store something without a consent; both are history. The thread lock is
not modelled here, so tools of one chat overlap more than they do in the program: the
claims are made of a larger set of behaviours. What the notice says and when it is
shown is `Conversation`'s, and an erasure is one that was confirmed.

### InboxScan

One scan of a range with a number of messages: pages that may be shorter than
asked for, up to the limit; for Google the workers of `mapWithConcurrency`, each
with a message of its own, also after another one has thrown; then the messages
in order, each skipped or extracted, with the calls the extractor's agent makes.
A message is its place in the list. A failure is a result that is not `ok`, or a
throw: the adapters return the one and nothing in `scanInbox` catches the other. A page
that has a successor is taken to hold at least one message. This is assumed of the
provider: nothing in `src/` ends a listing of empty pages, and `ScanSettles` rests on it.

### The pure modules

`Ec261`, `AirlineDirectory`, `ClaimForm` and `PayoutSplit` are operators that
follow the functions of the code. A lookup is a record with `ok`, as in
`lib/result.ts`. An address in `AirlineDirectory` is named by the channel and the
field that holds it, so that whatever is shown can be traced back to whether a
maintainer has confirmed it. Amounts are integers: the product of an amount and a
rate is exact in a double up to some nine billion euros. `Rules` makes a state
machine of them for TLC and for the proofs: a behaviour is one question and its
answer, and its properties set an answer against the question, or against the
answers to related questions (the same trip with a failed lookup known after all,
the same form with a complete profile). Forms are asked with a profile and without one,
which falls back to the name on the booking.

## 3. Runs

Every run checks deadlock except where the system may stop: `desk`, where nothing
is left to do after an erasure, `conv_serial` and `conv_overlap`, where the chat
is over when all `Messages` have been used, `mailbox`, where all flows and grants
may be used up, `inbox`, where a scan ends, and `rules`, where a question is
answered once.

| Run | Instance | Checks |
|---|---|---|
| `graph_serial` | one invocation at a time, 2 rebuttals (the real limit), all plans, all resume values, 2 failures, under `FairSpec` | `TypeOK`, `DuplicatesAccounted`, `ImplementsLifecycle`, `RunsSettle` |
| `graph_concurrent` | two invocations at once, 1 rebuttal, the carrier that can be mailed to, resumed with an edit, a reply or a payment | `ApprovedBeforeDispatch`, `StatusBackedByWorld`, `NodesFitStatus` |
| `desk` | two tool calls and an erasure, no rebuttal, one failure | `DeskTypeOK`, `KeptClaimsWereSent`, `OneFilingPerBooking`, `ThreadHasOwner` |
| `conv_serial` | four messages one after another (`MaxActive = 1`), one confirmation, both actions, one death | `ActedOnOnce`, `UnconsentedLeaveNoTrace`, `ConsentAfterNotice` |
| `conv_overlap` | three messages, two turns at once, two confirmations, of an erasure each, one death | `TypeOK`, `RepliesStayOutOfTheModel`, `TurnsRemembered`, `OneRetrySuffices`, `DanglingByDeathOnly` |
| `lock` | four turns, three of one conversation, in two processes, a pool of four, under `FairSpec` | `TypeOK`, `MutualExclusion`, `HeldByTheLiving`, `NoConnectionLeaks`, `TurnsSettle` |
| `mailbox` | a user and the command line's, two mailboxes at Google and one at Microsoft, one flow, two jobs at once, two grants, one death | `MailboxTypeOK`, `TransfersAudited`, `FlowsConnectOnce`, `StoredTokensWork`, `ErasedIsDisconnected`, `Announced` |
| `intake` | two calls at once, two users, two bookings, two saves, one death | `DataReachable`, `DetailsAsSaid`, `ErasureLeavesNothing` |
| `inbox` | up to five messages, pages of two, a limit of three, three workers, with fairness | `AnswerIsWhole`, `CutIsTold`, `ScanSettles` |
| `rules` | every combination of the values at which the code decides, their neighbours, and what is malformed | `SplitExact`, `DoubtDecidesNothing`, `PlanKeepsToDirectory`, `FormCovers` |

Bounds. Two rebuttals are `MAX_REBUTTAL_ATTEMPTS` itself. One rebuttal in
`graph_concurrent` is the least with two rounds, so that an approval or a letter
of one round can be mistaken for the other's; what more rounds, runs, carriers
and failures could do is covered by the proofs, which bound none of them. The
resume values left out there add nothing that the ones kept do not have: a reply
approves at the gate like an approval, and a payment counts as a timeout. Two
failures in `graph_serial` are the least that can lose a letter and a transfer,
or the same letter twice. The constraint `FewDuplicates` (`FewCopies` at the
desk) stops exploring once overlapping invocations have handed over a third copy
of a letter or made a second transfer: copies have no effect on the code, which
never reads them.

Four messages in `conv_serial` are a consent, a request, its confirmation and
what comes after an erasure. In `conv_overlap` the third message meets the thread
that the first two left behind, and two live confirmations are the least where
one can be mistaken for the other. A disconnection is left to `conv_serial`:
beside the mailbox, which no property of `conv_overlap` looks at, it does to a
turn what a cancelled reply does, and the theorems hold for any actions.
`MaxQueries = 1` in `lock` is one query under
each lock; a second would take the same way. The server's three turns could hold
three connections for locks and two more for the queries of the two inside, so a
pool of four runs full and is still one larger than the number of its turns.

In `mailbox` the second user is the least that a mailbox can be taken from, two
mailboxes at one provider the least where a disconnection finds one and deletes
two, the third the least where Microsoft's follow Google's, and two jobs the least
that overlap; one flow is used by as many callbacks as there is time for. Two
grants are the least where one replaces another. In `intake` two calls are the
least that race, two users what two first messages create, two saves the least
whose fields can be lost, and the second booking the one that is left when one is
erased. The two calls are also an erasure and one that has passed the gate before it,
or that resumes from a link after it. In `inbox` five messages are two pages of which the second crosses the
limit, with one left over; three workers run out of work at different times. In
the code a page has up to 500 messages at Google and 100 at Microsoft, the limit is
2000 and the workers are eight; a page may be shorter than was asked for, so there
too one can cross the limit. In `rules` the trips have up to two segments, the forms up to
three words, and the directories up to two channels or two carriers: each rule
looks at one segment, word or channel, or at one and the rest.

What the passing runs show: run one after another, invocations implement the
lifecycle, and a duplicate letter or transfer takes a failure between the effect
and its checkpoint, one each. Overlapping, they may duplicate and the
checkpoint may go back (`DuplicatesAccounted` and `ImplementsLifecycle` are not
claimed there), but the gate holds and the status stays honest. At the desk,
an early row and a late mirror are the right way round: they fail towards keeping
a thread owned and towards not calling a claim sent. In a conversation, turns
that do not overlap act on a confirmation once, and the erasure deletes in an
order that can be interrupted: consent goes after the conversation, so what is
left of that can still be erased. A consent in the records follows a notice that was
seen, but for the two ways in which the mark can be wrong: the notice was lost on its
way, or the mark is older than an erasure. Overlapping, the lock does what its comment says: no turn overwrites
another's memory, only a death leaves tool calls dangling, and one repair is
enough, because the retry still holds the lock. In the pool, nothing leaks over
any mixture of errors and crashes, and one connection more than turns is enough
for all of them to end. Around the mailboxes, one job at a time audits what it
takes and stores what works; what overlapping jobs and deaths can spoil is what
the exceptions in the properties say; that a success is announced needs none for
overlap, only for a death and for a chat that does not take the message. Intake shows
why the user of a message is read back rather than taken from the insert, that only a
save overlapping another save or an erasure loses a field, and who can store something
for a user who is erased: a tool that runs beside the erasure, a turn that had passed
the gate before it, and a link that was open. No other order of calls does. A scan never turns a failure into a shorter answer. The
rules hold at every boundary.

Fairness. `FairSpec` has weak fairness of each invocation's own steps (a node
that can proceed does, an invocation that is over returns), which is what the
event loop gives: awaited calls resolve or reject, and nothing is assumed of
the passenger, of the airline, or of failures. In `ThreadLock` it has weak
fairness of each turn's own steps and of each pool granting connections: awaited
queries settle, and neither messages nor crashes are assumed. In `InboxScan` it has weak fairness
of the scan and of each worker: requests and the model end, as they do or fail.
`Conversation` has no liveness property: the agent may call tools for as long as
its model likes. `Mailbox` and `Intake` have none because nothing in them waits.

Two further runs state what a comment or the README says of the program, and
find it violated; `findings` in PROJECT.json quotes each:

- `explicit_decision`: a reply or a payment resumed into `humanApproval` is an
  approval, and the draft goes out.
- `needs_info_wait`: after `needs_info` the thread is wedged, because
  `awaitResponse` applies `CONFIRM_DISPATCHED` from `awaiting_response`.

## 4. Proofs

`ClaimGraphProofs` proves, for every set of `Runs`, every `MaxRebuttals` and
`MaxAborts` in `Nat` and every choice of carriers and resume values (the named
assumptions of `ClaimGraph`, and nothing else):

- `TypeCorrect`: `Spec => []TypeOK`. With it the rebuttal count stays within the limit.
- `ApprovalGate`: `Spec => []ApprovedBeforeDispatch`.
- `StatusHonest`: `Spec => []StatusBackedByWorld`.
- `NodesFit`: `Spec => []NodesFitStatus`.

None of the four is inductive: that a letter was approved depends on what the
invocation that sends it carries, and that a status is honest on what an
invocation has done since its last checkpoint. `GraphInv` adds, for the
checkpoint and for every copy, which statuses fit the node that is next
(`StatusFitsNode`), that a copy about to enter `sendClaim` carries a text approved in
its round, that one waiting has its letter in the outbox, and, for an invocation
between effect and return, that the effect happened (`RunInv`). It never says
that a copy is the latest checkpoint, which is why it survives overlapping:
every state relies only on things that, once they have happened, stay so
(`StateInvGrows`, `RunInvGrows`). A step then does one of three things, each with
its lemma: it replaces a run (`RunStep`), commits a state (`CommitStep`), or has
an effect (`EffectStep`); the lemmas about the nodes show that what they commit
or did is what `GraphInv` asks for. TLC checked `GraphInv` as an invariant on the instances of
`graph_serial` and `graph_concurrent` before it was proved.

Two more theorems are about invocations that do not overlap (`OneRun`: there is
at most one run, which may fail, be resumed and be started again for ever):

- `Accounted`: `OneRun` implies `Spec => []DuplicatesAccounted`.
- `Refinement`: `OneRun` implies `Spec => ImplementsLifecycle`, that is
  `Lifecycle!LifecycleSpec` under the mapping of `ClaimGraph`.

`SerialInv` adds to `GraphInv` what only holds then. A run works on the latest
checkpoint (`Current`), so what `GraphInv` says of copies it says of the thread. And
`Counted` says of each letter and of the transfer that, as long as they are still
to come for the thread (`ToSend`, `ToPay`), they have happened only in runs that
died before their checkpoint. For the refinement each node's step is shown to be
`Legal`, a step of the lifecycle or one that it does not see; the effects are
steps of their own there as here, and a checkpoint that changes the status takes
a transition that the effect before it allows.

`ClaimDeskProofs` proves of `DeskSpec`, for any number of tool calls at once and an
erasure beside them:

- `DeskTypes`: `DeskSpec => []DeskTypeOK`.
- `KeptWereSent`: `DeskSpec => []KeptClaimsWereSent`.
- `OneFiling`: `DeskSpec => []OneFilingPerBooking`.
- `Owned`: `DeskSpec => []ThreadHasOwner`.
- `ErasureKeepsGate`: `DeskSpec => []ApprovedBeforeDispatch`.
- `ErasureKeepsStatus`: `DeskSpec => [](StatusBackedByWorld /\ NodesFitStatus)`.

It reuses `GraphInv` as it stands: an erasure puts the checkpoint where it was before
the first run, which `GraphInv` allows beside any number of runs, so the approval
gate and the honest status hold beside an erasure too. `DeskInv` adds that before an erasure is over no row
means that nothing was begun (`Unfiled`), that whoever is about to invoke the graph
is the only one (`Filing`), that an invocation resolves at the end or at a node that
asks (`Resolved`), where a status past sending has its letter, and so that no status
in the row or read from it is ahead of the outbox (`Backed`).

`ThreadLockProofs` proves, for any turns, threads, processes and pool sizes, over
any crashes:

- `Exclusion`: `Spec => []MutualExclusion`.
- `NeverAbandoned`: `Spec => []HeldByTheLiving`.
- `PoolAccounted`: `Spec => []NoConnectionLeaks`.

The first two are the two directions of one correspondence, `LockInv`: who is
inside holds the lock of its thread (`InsideHolds`), and who holds it is inside
(`HeldByTheLiving`); each step either leaves the holder and the turn's side of
the lock alone (`OutsideStep`, `InsideStep`) or changes both. The third needs that
a pool only queues turns of its own process (`PoolInv`), as a grant looks at
nothing else. `TypeOK` includes the limit of the pools, which `Bounded` makes
inductive.

- `LockImplementsMutex`: `Spec => ImplementsMutex`. A turn enters when the lock is
  free, and by `InsideHolds` nobody of its conversation is inside then; every other
  step, a crash included, only takes turns out.
- `NobodyIsStuck`: if each process has fewer turns than its pool has connections,
  `Spec => []NeverStuck`: while a turn is in progress, some turn meets the guards of
  its next step, or some pool those of a grant. This is what `TurnsSettle` needs of
  safety, for any number of turns: no circle of turns that keep a connection for the
  lock and wait for another one. `WaitInv` adds who waits: the queue of a pool holds
  exactly the turns that want a connection, each once (`QueueInv`), and those ahead
  of a turn at a lock wait for the same lock with everybody ahead of them
  (`OrderInv`), so of those who wait one has nobody ahead of it
  (`SomebodyIsFirst`). A pool that is full has more connections out than there are
  turns to keep one for a lock, so one of them is for a query, and the turn that has
  it goes on (`SomebodyQueries`). The bound is sharp: TLC finds a state where nobody
  can go on as soon as a process may have as many turns as connections, which the
  code does not rule out (section 5). That turns which can go on do, and are over
  some day, is liveness and stays with TLC.

TLC checked `WaitInv` and `NeverStuck` on the instance of `lock`, and
`ImplementsMutex` on those of `lock` and `conv_overlap`, before they were proved.

`ConversationProofs` proves, for any messages and confirmations, any overlap of
turns and any number of deaths, what `conv_overlap` checks on two confirmations:

- `TypeCorrect`: `Spec => []TypeOK`, which includes that the lock is with the turn
  that runs the agent.
- `TurnsImplementMutex`: `Spec => ImplementsMutex`.
- `AnswersAreRemembered`: `Spec => []TurnsRemembered`.
- `RepairSuffices`: `Spec => []OneRetrySuffices`.
- `RacesLeaveNothingDangling`: `Spec => []DanglingByDeathOnly`.
- `RepliesAreNotForTheModel`: `Spec => []RepliesStayOutOfTheModel`.

Each action is first reduced to its effect on the one turn that moves, on the
memory and on the lock (`Moved`, `GateEffect`, `Loads`, `Checkpoints`, ...;
`StepEffect` says that every step has one of them), so the invariants are argued
about eleven effects. `MemoryInv` strengthens the three properties of the memory:
while an invocation runs, its copy holds its message and the whole memory
(`CopyHoldsMemory`), so a checkpoint never takes away what another turn
remembered; what the agent answered is kept from the last checkpoint on
(`AnsweredKept`); and tool calls dangle only while the turn under the lock runs
them, or after a death (`DanglingExplained`). An erasure does not wait for the lock: it only
makes the memory smaller, which is why it disturbs none of them. `ReplyInv` adds to the property
that whatever was waiting when a message was sent has a row, which can waiting but is never asked for anew (`OpenWasAsked`).

Three more are about turns that do not overlap (`OneAtATime`: finitely many messages
and `MaxActive = 1`), with any deaths and erasures, and each fails without that
assumption:

- `NeverTwice`: `Spec => []ActedOnOnce`.
- `ShownThenAgreed`: `Spec => []ConsentAfterNotice`.
- `NoTrace`: `Spec => []UnconsentedLeaveNoTrace`.

`ShownThenAgreed` has the exception that the code needs (`noticeLost`): a lost notice
leaves its mark, and so does an erased consent; the next notice that arrives ends it.

`Alone` turns the bound into what the proofs need: any two turns in progress are
the same. Then what a turn has read is still so. `ConfirmInv` says it of the
confirmation that was found (`Confirming`), with a resolution before every execution
(`Executions`); `NoticeInv` of the mark of the notice, which was shown, is on its
way in the one turn that has marked it, or was lost (`NoticeKnown`, `Noticed`); `KeptInv` of the
consent: what a turn adds may be kept (`Covering`), and an erasure removes the
consent only when memory and transcript are empty.

`RulesProofs` proves the four properties of the pure modules, whatever is asked:

- `SplitsAreExact`: `Spec => []SplitExact`.
- `DoubtNeverDecides`: `Spec => []DoubtDecidesNothing`.
- `PlansKeepToDirectory`: `Spec => []PlanKeepsToDirectory`.
- `FormsCover`: `Spec => []FormCovers`.

The state machine adds little: `RulesInv` says that an answer is the one the
modules give to the question that was asked. What remains are statements about
the operators, each proved as a lemma for every value of the types that the code's
parsers let through (`TripsAssumption`, `DirectoriesAssumption`,
`FormsAssumption`, `PacksAssumption`), so for datasets and forms of any length.

`SplitIsExact`, a theorem of its own, is about every amount, rate and currency and rests on one fact
about integer division. `DoubtNeverDecides` is by what an eligible answer says about its
lookups: all segments are known and so is the disruption, both airports are
known, so what may still be unknown is a carrier or the notice of a cancellation
after the first; an unknown carrier counts as not covered, which a known one can
only improve, and the amount depends on the distance alone.
`PlansKeepToDirectory` follows an address backwards: what a message says is a
channel of the plan (`MessageHasRoutes`), a channel is a loaded one
(`ChosenIsOne`, `ShownAreVouched`), and a loaded one has an address a maintainer
confirmed (`ChannelIsLoaded`); the plan is that of the code which was asked for,
because loading refuses a dataset with a code twice (`CodesAreUnique`).
`FormsCover` counts: the fields of a form are those its words stand for, each once
(`FieldsAccounted`), and the prefill puts each of them in exactly one of three
lists (`PrefillAccounts`).

The functions that walk a sequence (`Picked`, which keeps some of its
places, and the concatenation of lists) are recursive, and the library's induction takes an
operator as its parameter. `PrefixInduction` is induction over a set of places
instead, proved from the least element of a set of numbers (`SetsHaveMin`, by
well-foundedness); `RecursionExists` builds with it the function that a recursion
over places defines, which is what `PickedIs` and `FlattenHas` say of the two.

`InboxScanProofs` proves, for any number of messages, any page size, limit and
number of workers, and any failures:

- `ScansAreWhole`: `Spec => []AnswerIsWhole`.
- `CutsAreTold`: `Spec => []CutIsTold`.
- `FetchedOnce`: `Spec => []EachFetchedOnce`, that no message is fetched by two
  workers or after its result is there.

`InboxInv` has one part per phase. `ListInv`: while pages are listed the limit is not
reached, and afterwards the mark says whether any are left. `FetchInv`: what a worker
has taken is being fetched by it alone or has its result at its own place, and
no worker is idle while something is left to take, so that when all are idle every
place is filled, in the order of the list whatever the order of the answers.
`ReadInv`: the candidates are the bookings before the message that is looked at.

`IntakeProofs` proves, for any number of calls, users, bookings, saves and deaths:

- `Reachable`: `Spec => []DataReachable`.
- `AsSaid`: `Spec => []DetailsAsSaid`.
- `Erased`: `Spec => []ErasureLeavesNothing`.

`IntakeInv` says what each call may rely on. `OwnUser` holds whatever overlaps: a
call past `readsUser` works for the identity, which never changes once it is
there; that alone makes everything stored reachable. It also says that a call which has
passed the gate and was not outrun by an erasure still has its consent, the only thing a
tool may rely on, as it does not ask again. `StillSo` is what a call has read and
would be disturbed by (a save's profile, a claimant that was said, claims that are
gone, a user who is not erased, but for `strays`), and only holds while no two calls that clash have run at once, which
`Alone` says of the program counters; so a step of one call keeps what another
relies on because that other call, if it cared, could not be there (`ToItself`).
Steps that only move a call are one lemma (`CallStep`); each step that writes a
table has its own. TLC checked `IntakeInv` on the instance of `intake` first.

`MailboxProofs` proves, for any users, mailboxes, links, grants and deaths, and for
any finite set of jobs (`JobsAssumption`, which the bound of `FlowsConnectOnce`
counts):

- `TypesKept`: `Spec => []MailboxTypeOK`.
- `Transferred`: `Spec => []TransfersAudited`.
- `ConnectedOnce`: `Spec => []FlowsConnectOnce`.
- `TokensWork`: `Spec => []StoredTokensWork`.
- `Disconnected`: `Spec => []ErasedIsDisconnected`.
- `Told`: `Spec => []Announced`: a confirmation that is missing was refused by the chat,
  or somebody died; no race of callbacks swallows it.

`MailboxInv` is in two parts. What holds whatever overlaps: the steps that a kind
of job comes to and what it carries there (`Shape`), `Announced` (until somebody dies, a
completed flow was told, was refused, or has a job that is about to tell it), and
`UsesCounted`, a count for each link: one that is still open has been used by no
more callbacks than those about to mark it (`Past`) and those that died; once it
is marked, the callbacks that still may use it (`Before`) are counted in advance, as
no new one can start. The bound follows because the two are disjoint sets of jobs.
What holds until jobs overlap (`Clean`): only one job runs, and what it has
read is still so (`Sound`): the previous owner, the refresh token, the
connections left to delete. That is what the remaining properties rest on
(`AuditKept`, `TokensKept`, `ErasedKept`). Steps that write no table are
one lemma (`JobStep`); each that writes one has its own. TLC checked `MailboxInv`
on the instance of `mailbox` first.

Only model-checked: liveness (`RunsSettle`, `TurnsSettle`, `ScanSettles`), which
TLAPS does not handle. Every invariant that a run checks, and the refinement, has a
theorem above.

## 5. Divergences

What the model made visible besides the two runs above: comments that the code
does not live up to, or that hold only without overlap. They are stated here
for the code's maintainers; no run is kept for them.

- An approval or a payment delivered to `awaitResponse` counts as a timeout and
  escalates the claim (`await-response.node.ts:31`); a send that fails leaves the
  status `sent`, which `StatusBackedByWorld` allows because the send is what the
  thread does next.
- An ambiguous reply is recorded as "Rejected with insufficient evidence"
  (`escalate.node.ts:16`).
- A declined rebuttal makes a claim whose first letter was sent count as never
  sent, so an erasure deletes it (`tools.ts:41`).
- After a failure between the ownership row and the first checkpoint, the booking
  can never be filed: every later `start_claim` returns the result of a thread
  that has none (`tools.ts:780`).
- When the model fails after its tool has asked for a confirmation, the prompt was
  never shown and the next yes executes the action (`tools.ts:570`).
- `forgetMyData` leaves `noticeShownAtUtc` and open OAuth flows: a yes after an
  erasure is a consent at once, and a callback runs the agent for a user without
  one (the exceptions of `ConsentAfterNotice` and `UnconsentedLeaveNoTrace`). It
  also takes no lock, so a turn in progress writes the erased memory back.
- The notice is marked before it is sent, so a yes already on its way counts. And if
  the send fails, which `telegram.routes.ts:48` only logs, the mark stays: the next yes
  is a consent to a notice that nobody saw, where `consent.ts:64` says "Only a reply
  sent after the notice was actually shown can record consent" (the exception
  `noticeLost` of `ConsentAfterNotice`).
- "A broken resumption never means silence" (`oauth.routes.ts:53`), but a connection that
  succeeded can still be met with silence: a push that the chat refuses is only logged,
  which its comment says, and so is a flow whose identity is not found, which it does not
  (`oauth.routes.ts:66`, `oauth.routes.ts:92`; `refused` in `Announced`).
- Consent is read once per turn (`session.ts:226`). A turn that has passed the gate
  saves a profile or files a claim (`tools.ts:476`, `tools.ts:780`) for a user whom
  another turn has erased meanwhile. So does the agent resumed from a link that was
  open during the erasure (`session.ts:341`), "only reachable after a user has already
  consented" (`session.ts:331`), which is true and not enough (`strays` in
  `ErasureLeavesNothing`).
- Two callbacks that race for one mailbox may both read that nobody owns it, and the
  one that then takes it over from the other leaves no audit entry
  (`hosted-oauth.ts:157`; `TransfersAudited` excepts overlap).
- When the update of the mirror fails, or the process dies before it (`tools.ts:842`,
  `tools.ts:876`), a claim that was sent still looks unsent, and an erasure deletes it
  (`tools.ts:650`).
- A turn whose model call fails leaves no transcript (`session.ts:310`).
- An invocation in progress recreates the thread that an erasure has deleted, and
  nothing finds it any more (`tools.ts:654`).
- Two answers handled at once both find a confirmation before either resolves it,
  and both execute it, though it "can never be acted on twice"
  (`pending-confirmation.repo.ts:59`, `session.ts:265`).
- Two confirmations asked for in one turn are two rows: the next message consumes
  one, not "the very next message" both (`schema.ts:178`), and a later yes
  executes the other.
- With as many turns as the pool has connections, all of them are kept for locks
  and the turns inside wait for one for ever (`session.ts:114`,
  `thread-lock.ts:29`; `NobodyIsStuck` is the other side of that bound); the pool of `db/client.ts:26` has the default size of ten
  and no timeout.
- A flow is not "marked consumed on every terminal outcome"
  (`hosted-oauth.ts:112`): if `fetchEmailAddress` throws or the process dies it
  stays open, and callbacks that overlap each use it once
  (the bound of `FlowsConnectOnce`).
- `connect-email.ts` takes over a mailbox without an audit entry, and
  `updateAccessToken` goes by the address, so a refresh that overlaps a
  reconnection stores the old grant's token in the new row (both outside what
  `TransfersAudited` and `StoredTokensWork` claim).
- `fetchEmailAddress` does not look at the status of the answer: a lookup that
  Microsoft refuses yields "unknown" as an address, one row for whoever it happens
  to; one that Google refuses throws.
- Messages that the last page brought beyond the limit are cut without the mark
  that `email-ingest.port.ts:38` asks for (the last conjunct of `CutIsTold`); one
  message with a malformed date fails every scan of its range.
- `MissingClaimantDetailsError` asks to collect the profile and retry, but the
  retry finds the claim, whose claimant was frozen without one
  (`draft-claim.node.ts:210`). Saves that overlap lose a field (`tools.ts:476`).
- A round trip has no distance and makes the node throw, where
  `check-eligibility.node.ts:138` says "never as a crash"; `find-real-flight.ts`,
  which "reports exactly what the live pipeline would decide", calls trips
  eligible whose airport the node cannot resolve.
- A confirmed web form with nothing but a template that has no values passes the
  validation and is loaded as unverified, its URL in neither list
  (`schema.ts:75`). `send_postal_pack` lacks the drafting node's fallback on the
  first passenger's name. The airport adapter stores an answer under the code it
  contains, not the one it was asked for; `import-airports.ts` takes a blank
  coordinate for zero. `deadlines.ts` and `hasOutstandingFields` are called by
  nothing.

## 6. Plan

What is left, in this order; each module is written without RECURSIVE operators
where a theorem is planned.

1. `Erasure`: everything `forgetMyData` deletes in one module, with a callback and
   a turn in progress. Its parts are checked one by one: claims and threads in
   `ClaimDesk`, memory and transcript in `Conversation`, mailboxes in `Mailbox`,
   profile and consent in `Intake`.

### Not modelled

- The wire formats of Telegram, Gmail, Outlook, Postmark, AeroAPI and IEM, the
  prompts and the model's answers: I/O, or nondeterministic choices here.
- Weather and disruption providers: they gather evidence for the model's score,
  which is a choice here; no decision of the code depends on what they return.
- `deadlines.ts`: called by nothing.
- Scripts that search for a demonstration flight, write sample mails, fill the
  airport table or start tunnels: tools for developers, with no state the program
  depends on but the rows of airports.
- PDF layout, logging, encryption, configuration, migrations and the directory's
  data: no property concerns them. The distance formula is an input of `Ec261`.
