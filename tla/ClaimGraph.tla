------------------------------ MODULE ClaimGraph ------------------------------
(***************************************************************************)
(* The claim pipeline of agent/graph.ts: eleven nodes over one claim's     *)
(* LangGraph thread.                                                       *)
(*                                                                         *)
(* A thread's state lives in the checkpointer (variable ckpt).  Every      *)
(* graph.invoke is a run: it loads the latest checkpoint, executes node    *)
(* after node on its own copy, and writes a checkpoint after each node.    *)
(* A node that calls interrupt() with no resume value ends the run and     *)
(* leaves the checkpoint as it was, with that node still next; a node that *)
(* throws ends it the same way.  The resume value of a run reaches only    *)
(* the first node the run executes.                                        *)
(*                                                                         *)
(* The code takes no lock on a claim thread, so several runs may be in     *)
(* progress at once (Runs).  A node with an effect outside the checkpoint  *)
(* (the audit log, the mail provider, the payment provider) takes two      *)
(* steps, the effect and the return, and the run may die between them.     *)
(***************************************************************************)
EXTENDS Naturals, ClaimStatusMachine

CONSTANTS
  Runs,           \* the graph.invoke calls that may be in progress at once
  MaxRebuttals,   \* MAX_REBUTTAL_ATTEMPTS
  CarrierPlans,   \* the submission plans the airline directory may yield
  ResumeInputs,   \* the values a thread may be resumed with
  MaxAborts       \* bound: provider failures and crashes considered

VARIABLES
  ckpt,           \* the latest checkpoint of the claim's thread
  runs,           \* runs[r]: the invocation r, or Idle
  \* What the outside world has seen.  The code never reads these.
  approvals,      \* the human_decision entries of the audit log, declines left
                  \* out, each with the text it let through
  outbox,         \* the letters handed to the mail provider
  sends,          \* sends[k]: how many times round k's letter was handed over
  lostSends,      \* sends[k] whose run died before its checkpoint was written
  transfers,      \* transfers made by the payment provider
  lostTransfers,  \* transfers whose run died before its checkpoint was written
  aborts          \* counts the failures considered, bounded by MaxAborts

world == << approvals, outbox, sends, lostSends, transfers, lostTransfers >>
vars == << ckpt, runs, world, aborts >>

-----------------------------------------------------------------------------
Nodes ==
  { "ingest", "checkEligibility", "scoreClaim", "draftClaim", "humanApproval",
    "sendClaim", "awaitResponse", "classifyResponse", "rebut", "escalate",
    "processPayout" }

(***************************************************************************)
(* What the submission plan of the carrier amounts to for the graph: no    *)
(* usable channel at all, or a usable one with or without a channel the    *)
(* system can dispatch to (auto), for which the artifact is a letter (one  *)
(* route that carries prose) or a packet (anything else).                  *)
(***************************************************************************)
AutoPlans == { "packet_auto", "letter_auto" }
LetterPlans == { "letter", "letter_auto" }
Plans == { "none_available", "packet" } \cup AutoPlans \cup LetterPlans
ASSUME CarrierPlansAssumption == CarrierPlans \subseteq Plans

ASSUME MaxRebuttalsAssumption == MaxRebuttals \in Nat
ASSUME MaxAbortsAssumption == MaxAborts \in Nat

\* A text is identified by the round it answers and by who wrote it last.
\* NoText is null, and the empty letter the drafting schema does not exclude.
Rounds == 0 .. MaxRebuttals
Text == [round : Rounds, author : { "drafter", "human", "nobody" }]
NoText == [round |-> 0, author |-> "nobody"]

Categories == { "accepted", "rejected", "needs_info", "ambiguous" }
Reasons == { "no_reply", "limit_reached", "insufficient_evidence" }

\* The channels of GraphState that the control flow or a property looks at.
State ==
  [next      : Nodes \cup { "START", "END" },
   status    : Statuses,
   named     : BOOLEAN,                      \* a claimant name is on record
   strong    : BOOLEAN,                      \* hasStrongRebuttalEvidence
   auto      : BOOLEAN,                      \* submission.autoSendChannel is set
   draft     : Text,
   approved  : Text,
   receipt   : BOOLEAN,
   reply     : BOOLEAN,
   category  : Categories \cup { "unset" },
   rebuttals : Rounds,
   reason    : Reasons \cup { "unset" }]

NoThread ==
  [next |-> "START", status |-> "draft", named |-> FALSE, strong |-> FALSE,
   auto |-> FALSE, draft |-> NoText, approved |-> NoText, receipt |-> FALSE,
   reply |-> FALSE, category |-> "unset", rebuttals |-> 0, reason |-> "unset"]

(***************************************************************************)
(* What a run can be resumed with: a decision of submit_approval_decision  *)
(* or of scripts/resume-claim.ts (which alone may pass an empty edit), an  *)
(* airline reply or a timeout of submit_airline_reply, a payment of        *)
(* submit_payment_confirmation, or one whose amount is not a count of      *)
(* cents.  The tools never look at which node is paused.                   *)
(***************************************************************************)
Inputs ==
  { "approve", "edit", "decline", "blank_edit", "reply", "timeout",
    "payment", "bad_payment" }
ASSUME ResumeInputsAssumption == ResumeInputs \subseteq Inputs

Run == [pc : { "idle", "step", "effect", "done" },
        input : Inputs \cup { "none" },
        st : State]
Idle == [pc |-> "idle", input |-> "none", st |-> NoThread]

Letter == [round : Rounds, text : Text]
Approval == [round : Rounds, text : Text, explicit : BOOLEAN]

TypeOK ==
  /\ ckpt \in State
  /\ runs \in [Runs -> Run]
  /\ approvals \subseteq Approval
  /\ outbox \subseteq Letter
  /\ sends \in [Rounds -> Nat]
  /\ lostSends \in [Rounds -> Nat]
  /\ transfers \in Nat
  /\ lostTransfers \in Nat
  /\ aborts \in 0 .. MaxAborts

Init ==
  /\ ckpt = NoThread
  /\ runs = [r \in Runs |-> Idle]
  /\ approvals = {}
  /\ outbox = {}
  /\ sends = [k \in Rounds |-> 0]
  /\ lostSends = [k \in Rounds |-> 0]
  /\ transfers = 0
  /\ lostTransfers = 0
  /\ aborts = 0

-----------------------------------------------------------------------------
(* Running the graph. *)

At(r, node) == runs[r].pc = "step" /\ runs[r].st.next = node
Returning(r, node) == runs[r].pc = "effect" /\ runs[r].st.next = node

\* Run r starts on the state s with the resume value i.
Invoke(r, s, i) ==
  runs' = [runs EXCEPT ![r] =
             [pc |-> IF s.next = "END" THEN "done" ELSE "step",
              input |-> IF s.next = "END" THEN "none" ELSE i,
              st |-> s]]

\* The node of run r returned: its checkpoint is written and the run goes on
\* with s, to the end of the graph or to the next node.
Commit(r, s) ==
  /\ ckpt' = s
  /\ Invoke(r, s, "none")
  /\ UNCHANGED aborts

\* interrupt(): the invocation resolves, the checkpoint is untouched.
Pause(r) ==
  /\ runs' = [runs EXCEPT ![r].pc = "done"]
  /\ UNCHANGED << ckpt, world, aborts >>

\* The node has had its effect on the world and has not returned yet.
Effect(r) ==
  /\ runs' = [runs EXCEPT ![r].pc = "effect"]
  /\ UNCHANGED << ckpt, aborts >>

\* The node throws: the invocation rejects, the checkpoint is untouched.
Refuse(r) ==
  /\ runs' = [runs EXCEPT ![r] = Idle]
  /\ UNCHANGED << ckpt, world, aborts >>

\* The first invocation creates the thread with the booking as its input.
Start(r) ==
  /\ runs[r] = Idle
  /\ ckpt = NoThread
  /\ \E named \in BOOLEAN :
       Commit(r, [NoThread EXCEPT !.next = "ingest", !.named = named])
  /\ UNCHANGED world

\* A tool or a script resumes the thread, whatever it is paused on.
Resume(r) ==
  /\ runs[r] = Idle
  /\ ckpt # NoThread
  /\ \E i \in ResumeInputs : Invoke(r, ckpt, i)
  /\ UNCHANGED << ckpt, world, aborts >>

\* The invocation resolves and its caller goes on.
Return(r) ==
  /\ runs[r].pc = "done"
  /\ runs' = [runs EXCEPT ![r] = Idle]
  /\ UNCHANGED << ckpt, world, aborts >>

\* A provider, the model, the database or the process fails inside a node.
Abort(r) ==
  /\ runs[r].pc \in { "step", "effect" }
  /\ aborts < MaxAborts
  /\ aborts' = aborts + 1
  /\ lostSends' =
       IF Returning(r, "sendClaim")
         THEN [lostSends EXCEPT ![runs[r].st.rebuttals] = @ + 1]
         ELSE lostSends
  /\ lostTransfers' =
       IF Returning(r, "processPayout") THEN lostTransfers + 1 ELSE lostTransfers
  /\ runs' = [runs EXCEPT ![r] = Idle]
  /\ UNCHANGED << ckpt, approvals, outbox, sends, transfers >>

-----------------------------------------------------------------------------
(* The nodes. *)

Ingest(r) ==
  /\ At(r, "ingest")
  /\ Commit(r, [runs[r].st EXCEPT !.next = "checkEligibility"])
  /\ UNCHANGED world

\* routeAfterEligibility: an ineligible flight ends here.
CheckEligibility(r) ==
  /\ At(r, "checkEligibility")
  /\ \E after \in { "scoreClaim", "END" } :
       Commit(r, [runs[r].st EXCEPT !.next = after])
  /\ UNCHANGED world

ScoreClaim(r) ==
  /\ At(r, "scoreClaim")
  /\ \E strong \in BOOLEAN :
       Commit(r, [runs[r].st EXCEPT !.next = "draftClaim", !.strong = strong])
  /\ UNCHANGED world

IsRebuttal(s) == s.category = "rejected"
NeedsLetter(s, plan) == plan \in LetterPlans \/ IsRebuttal(s)

\* What the drafter may produce for the plan: nothing without a channel, the
\* packet, or the letter of the model.
Drafts(s, plan) ==
  LET text == [round |-> s.rebuttals, author |-> "drafter"]
  IN  IF plan = "none_available" THEN { NoText }
      ELSE IF NeedsLetter(s, plan) THEN { text, NoText } ELSE { text }

DraftClaim(r) ==
  LET s == runs[r].st IN
  /\ At(r, "draftClaim")
  /\ \E plan \in CarrierPlans :
       /\ plan = "none_available" \/ ~ NeedsLetter(s, plan) \/ s.named
       /\ \E text \in Drafts(s, plan) :
            Commit(r, [s EXCEPT !.next = "humanApproval",
                                !.auto = plan \in AutoPlans, !.draft = text])
  /\ UNCHANGED world

\* MissingClaimantDetailsError.
DraftClaimRefuses(r) ==
  /\ At(r, "draftClaim")
  /\ ~ runs[r].st.named
  /\ \E plan \in CarrierPlans \ { "none_available" } : NeedsLetter(runs[r].st, plan)
  /\ Refuse(r)

HumanApprovalAsks(r) ==
  /\ At(r, "humanApproval")
  /\ runs[r].input = "none"
  /\ Pause(r)

\* The text that goes out if the input is not a decline.
DecidedText(run) ==
  IF run.input = "edit"
    THEN [round |-> run.st.rebuttals, author |-> "human"]
    ELSE run.st.draft

\* What the decision does to the status, once it was submitted for approval.
DecisionEvent(run) ==
  IF run.input = "decline" THEN "DECLINE"
  ELSE IF run.st.auto THEN "SEND" ELSE "CANNOT_AUTO_SEND"

\* The resume value is audited as the human's decision before it is looked at.
HumanApprovalAudits(r) ==
  LET run == runs[r] IN
  /\ At(r, "humanApproval")
  /\ run.input # "none"
  /\ CanTransition(run.st.status, "SUBMIT_FOR_APPROVAL")
  /\ approvals' = approvals \cup
       { [round |-> run.st.rebuttals, text |-> DecidedText(run),
          explicit |-> i \in { "approve", "edit" }]
           : i \in { run.input } \ { "decline", "blank_edit" } }
  /\ Effect(r)
  /\ UNCHANGED << outbox, sends, lostSends, transfers, lostTransfers >>

\* Mutant: the text of the first approval is kept for the rebuttals.
HumanApprovalKeepsFirstText(r) ==
  LET run    == runs[r]
      status == Apply(Apply(run.st.status, "SUBMIT_FOR_APPROVAL"), DecisionEvent(run))
  IN
  /\ Returning(r, "humanApproval")
  /\ run.input # "blank_edit"
  /\ Commit(r, [run.st EXCEPT
                  !.status   = status,
                  !.approved = IF @ = NoText /\ run.input # "decline"
                                 THEN DecidedText(run) ELSE @,
                  !.next     = IF status = "sent" THEN "sendClaim" ELSE "END"])
  /\ UNCHANGED world

\* decline ends the claim; an edit sends the human's text; every other value
\* is taken as an approval of the draft.  Only a plan with an automatic channel
\* reaches "sent" (routeAfterApproval).
HumanApprovalReturns(r) ==
  LET run    == runs[r]
      status == Apply(Apply(run.st.status, "SUBMIT_FOR_APPROVAL"), DecisionEvent(run))
  IN
  /\ Returning(r, "humanApproval")
  /\ run.input # "blank_edit"
  /\ Commit(r, [run.st EXCEPT
                  !.status   = status,
                  !.approved = IF run.input = "decline" THEN @ ELSE DecidedText(run),
                  !.next     = IF status = "sent" THEN "sendClaim" ELSE "END"])
  /\ UNCHANGED world

\* "action 'edit' requires editedText", thrown after the audit entry.
HumanApprovalRefuses(r) ==
  /\ Returning(r, "humanApproval")
  /\ runs[r].input = "blank_edit"
  /\ Refuse(r)

\* All the guards passed, the fresh directory lookup included, and the mail
\* provider accepted the letter.
SendClaimDispatches(r) ==
  LET s == runs[r].st IN
  /\ At(r, "sendClaim")
  /\ s.status = "sent"
  /\ s.approved # NoText
  /\ outbox' = outbox \cup { [round |-> s.rebuttals, text |-> s.approved] }
  /\ sends' = [sends EXCEPT ![s.rebuttals] = @ + 1]
  /\ Effect(r)
  /\ UNCHANGED << approvals, lostSends, transfers, lostTransfers >>

\* Mutant: the graph goes on before the checkpoint is written.
SendClaimReturnsUnsaved(r) ==
  /\ Returning(r, "sendClaim")
  /\ Invoke(r, [runs[r].st EXCEPT !.next = "awaitResponse", !.receipt = TRUE], "none")
  /\ UNCHANGED << ckpt, world, aborts >>

SendClaimReturns(r) ==
  /\ Returning(r, "sendClaim")
  /\ Commit(r, [runs[r].st EXCEPT !.next = "awaitResponse", !.receipt = TRUE])
  /\ UNCHANGED world

\* Mutant: a failed send is logged and the pipeline goes on.
SendClaimSwallowsError(r) ==
  /\ At(r, "sendClaim")
  /\ Commit(r, [runs[r].st EXCEPT !.next = "awaitResponse"])
  /\ UNCHANGED world

\* No text, no automatic channel any more, no sender address, or the provider
\* says no: nothing was handed over.
SendClaimRefuses(r) ==
  /\ At(r, "sendClaim")
  /\ Refuse(r)

AwaitResponseAsks(r) ==
  /\ At(r, "awaitResponse")
  /\ CanTransition(runs[r].st.status, "CONFIRM_DISPATCHED")
  /\ runs[r].input = "none"
  /\ Pause(r)

\* Any value that is not a reply is a timeout (routeAfterAwaitResponse).
AwaitResponseReturns(r) ==
  LET run     == runs[r]
      replied == run.input = "reply"
  IN
  /\ At(r, "awaitResponse")
  /\ CanTransition(run.st.status, "CONFIRM_DISPATCHED")
  /\ run.input # "none"
  /\ Commit(r, [run.st EXCEPT
                  !.status = Apply(@, "CONFIRM_DISPATCHED"),
                  !.reply  = replied,
                  !.next   = IF replied THEN "classifyResponse" ELSE "escalate"])
  /\ UNCHANGED world

\* Mutant: a claim that is waiting already goes back to the reply on record.
AwaitResponseReusesReply(r) ==
  /\ At(r, "awaitResponse")
  /\ runs[r].st.status = "awaiting_response"
  /\ runs[r].st.reply
  /\ Commit(r, [runs[r].st EXCEPT !.next = "classifyResponse"])
  /\ UNCHANGED world

\* IllegalTransitionError, thrown before interrupt().
AwaitResponseRefuses(r) ==
  /\ At(r, "awaitResponse")
  /\ ~ CanTransition(runs[r].st.status, "CONFIRM_DISPATCHED")
  /\ Refuse(r)

\* Mutants: the attempts are not counted; an unclear reply is paid out.
RouteWithoutLimit(s, category) ==
  CASE category = "accepted"   -> "processPayout"
    [] category = "needs_info" -> "awaitResponse"
    [] category = "rejected" /\ s.strong -> "rebut"
    [] OTHER                   -> "escalate"
RouteAmbiguousToPayout(s, category) ==
  CASE category \in { "accepted", "ambiguous" } -> "processPayout"
    [] category = "needs_info" -> "awaitResponse"
    [] category = "rejected" /\ s.rebuttals < MaxRebuttals /\ s.strong -> "rebut"
    [] OTHER                   -> "escalate"

\* routeAfterClassification.
RouteAfterClassification(s, category) ==
  CASE category = "accepted"   -> "processPayout"
    [] category = "needs_info" -> "awaitResponse"
    [] category = "rejected" /\ s.rebuttals < MaxRebuttals /\ s.strong -> "rebut"
    [] OTHER                   -> "escalate"

StatusAfterClassification(status, category) ==
  CASE category = "accepted" -> Apply(status, "RECEIVE_ACCEPTANCE")
    [] category = "rejected" -> Apply(status, "RECEIVE_REJECTION")
    [] OTHER                 -> status

ClassifyResponse(r) ==
  LET s == runs[r].st IN
  /\ At(r, "classifyResponse")
  /\ s.reply
  /\ \E category \in Categories :
       Commit(r, [s EXCEPT
                    !.category = category,
                    !.status   = StatusAfterClassification(@, category),
                    !.next     = RouteAfterClassification(s, category)])
  /\ UNCHANGED world

\* Mutant: a rebuttal, drafted by the system itself, skips the gate.
RebutSkipsGate(r) ==
  /\ At(r, "rebut")
  /\ CanTransition(runs[r].st.status, "REBUT")
  /\ Commit(r, [runs[r].st EXCEPT
                  !.status    = Apply(@, "REBUT"),
                  !.rebuttals = @ + 1,
                  !.next      = "sendClaim"])
  /\ UNCHANGED world

Rebut(r) ==
  /\ At(r, "rebut")
  /\ CanTransition(runs[r].st.status, "REBUT")
  /\ Commit(r, [runs[r].st EXCEPT
                  !.status    = Apply(@, "REBUT"),
                  !.rebuttals = @ + 1,
                  !.next      = "draftClaim"])
  /\ UNCHANGED world

EscalationReason(s) ==
  IF ~ s.reply THEN "no_reply"
  ELSE IF s.rebuttals > 0 THEN "limit_reached" ELSE "insufficient_evidence"

Escalate(r) ==
  LET s     == runs[r].st
      event == IF s.status = "awaiting_response" THEN "TIMEOUT" ELSE "ESCALATE"
  IN
  /\ At(r, "escalate")
  /\ CanTransition(s.status, event)
  /\ Commit(r, [s EXCEPT
                  !.status = Apply(@, event),
                  !.reason = EscalationReason(s),
                  !.next   = "END"])
  /\ UNCHANGED world

ProcessPayoutAsks(r) ==
  /\ At(r, "processPayout")
  /\ runs[r].input = "none"
  /\ Pause(r)

ProcessPayoutTransfers(r) ==
  /\ At(r, "processPayout")
  /\ runs[r].input = "payment"
  /\ transfers' = transfers + 1
  /\ Effect(r)
  /\ UNCHANGED << approvals, outbox, sends, lostSends, lostTransfers >>

ProcessPayoutReturns(r) ==
  LET s == runs[r].st IN
  /\ Returning(r, "processPayout")
  /\ CanTransition(s.status, "CONFIRM_PAYOUT")
  /\ Commit(r, [s EXCEPT !.status = Apply(@, "CONFIRM_PAYOUT"), !.next = "END"])
  /\ UNCHANGED world

\* splitPayout throws on anything but a whole, non-negative number of cents,
\* and the other resume values carry no amount at all.
ProcessPayoutRefuses(r) ==
  /\ At(r, "processPayout")
  /\ runs[r].input \notin { "none", "payment" }
  /\ Refuse(r)

-----------------------------------------------------------------------------
\* The steps of run r that the code takes on its own.
NodeStep(r) ==
  \/ Ingest(r) \/ CheckEligibility(r) \/ ScoreClaim(r)
  \/ DraftClaim(r) \/ DraftClaimRefuses(r)
  \/ HumanApprovalAsks(r) \/ HumanApprovalAudits(r)
  \/ HumanApprovalReturns(r) \/ HumanApprovalRefuses(r)
  \/ SendClaimDispatches(r) \/ SendClaimReturns(r) \/ SendClaimRefuses(r)
  \/ AwaitResponseAsks(r) \/ AwaitResponseReturns(r) \/ AwaitResponseRefuses(r)
  \/ ClassifyResponse(r) \/ Rebut(r) \/ Escalate(r)
  \/ ProcessPayoutAsks(r) \/ ProcessPayoutTransfers(r)
  \/ ProcessPayoutReturns(r) \/ ProcessPayoutRefuses(r)

Next ==
  \E r \in Runs : Start(r) \/ Resume(r) \/ NodeStep(r) \/ Return(r) \/ Abort(r)

Spec == Init /\ [][Next]_vars

\* The event loop keeps running the nodes of an invocation and settles it.
Fairness == \A r \in Runs : WF_vars(NodeStep(r) \/ Return(r))
FairSpec == Spec /\ Fairness

-----------------------------------------------------------------------------
(* Properties that hold for any number of concurrent runs. *)

(***************************************************************************)
(* Nothing is mailed that the approval gate did not let through: for every *)
(* letter handed to the provider the audit log holds a decision, of the    *)
(* same round and other than a decline, about exactly that text.  An old   *)
(* approval never covers a rebuttal, and an edit is sent as edited         *)
(* (human-approval.node.ts, send-claim.node.ts, the rebuttal loop).        *)
(***************************************************************************)
ApprovedBeforeDispatch ==
  \A letter \in outbox :
    \E approval \in approvals :
      approval.round = letter.round /\ approval.text = letter.text

\* The last round whose letter the status says was mailed; the claim is in
\* round s.rebuttals, and a rebuttal not yet approved is one ahead.
SaysMailed(s, round) ==
  \/ /\ s.status \in { "awaiting_response", "rejected", "accepted", "paid",
                        "escalated" }
     /\ round = s.rebuttals
  \/ /\ s.status = "rebutting"
     /\ round + 1 = s.rebuttals

(***************************************************************************)
(* The checkpoint never claims more than happened: a status past "sent"    *)
(* means that round's letter was handed to the provider, and "paid" means  *)
(* a transfer was made, whatever failed or ran concurrently in between     *)
(* (the order of effect and return in sendClaim and processPayout).  The   *)
(* status "sent" comes before the mail (human-approval.node.ts): if that   *)
(* letter has not gone out, sending it is what the thread does next.       *)
(***************************************************************************)
StatusBackedByWorld ==
  /\ \A round \in Rounds :
       SaysMailed(ckpt, round) => \E letter \in outbox : letter.round = round
  /\ ckpt.status = "sent" =>
       \/ ckpt.next = "sendClaim"
       \/ \E letter \in outbox : letter.round = ckpt.rebuttals
  /\ ckpt.status = "paid" => transfers > 0

-----------------------------------------------------------------------------
(* Properties of runs that do not overlap (Runs has one element). *)

(***************************************************************************)
(* Without overlapping runs, a letter is mailed twice in a round only if a *)
(* run died between the provider's acceptance and its checkpoint, and each *)
(* such death accounts for one duplicate; likewise for transfers.          *)
(***************************************************************************)
DuplicatesAccounted ==
  /\ \A k \in Rounds : sends[k] <= 1 + lostSends[k]
  /\ transfers <= 1 + lostTransfers

Lifecycle == INSTANCE ClaimLifecycle WITH
  status  <- ckpt.status,
  round   <- ckpt.rebuttals,
  mailed  <- { letter.round : letter \in outbox },
  paidOut <- transfers > 0

(***************************************************************************)
(* Without overlapping runs the pipeline implements ClaimLifecycle: read   *)
(* the checkpoint's status and round, the rounds in the outbox and whether *)
(* money moved, and every step is a legal step of the lifecycle.           *)
(***************************************************************************)
ImplementsLifecycle == Lifecycle!LifecycleSpec

(***************************************************************************)
(* Every invocation comes to an end: the graph has two cycles (the         *)
(* rebuttal loop and the wait for more information), and neither can keep  *)
(* an invocation going without a new resume value (graph.ts).              *)
(***************************************************************************)
RunsSettle == \A r \in Runs : runs[r] # Idle ~> runs[r] = Idle

-----------------------------------------------------------------------------
(* The inductive invariant behind the first three. *)

(***************************************************************************)
(* Which statuses a claim can have when a node is next, in a checkpoint or *)
(* in a run's copy: no node but awaitResponse is ever entered with a       *)
(* status from which its transition is illegal (graph.ts's edges against   *)
(* the table of state-machine.ts), and a rebuttal has an attempt left.     *)
(***************************************************************************)
StatusFitsNode(s) ==
  CASE s.next \in { "START", "ingest", "checkEligibility", "scoreClaim" } ->
         s.status = "draft"
    [] s.next \in { "draftClaim", "humanApproval" } ->
         s.status = "draft" \/ (s.status = "rebutting" /\ s.rebuttals > 0)
    [] s.next = "sendClaim" -> s.status = "sent"
    [] s.next = "awaitResponse" -> s.status \in { "sent", "awaiting_response" }
    [] s.next = "classifyResponse" -> s.status = "awaiting_response" /\ s.reply
    [] s.next = "rebut" -> s.status = "rejected" /\ s.rebuttals < MaxRebuttals
    [] s.next = "escalate" -> s.status \in { "awaiting_response", "rejected" }
    [] s.next = "processPayout" -> s.status = "accepted"
    [] s.next = "END" -> s.status \in { "draft", "declined", "escalated", "paid",
                                        "needs_manual_submission" }

NodesFitStatus ==
  StatusFitsNode(ckpt) /\ \A r \in Runs : StatusFitsNode(runs[r].st)

\* The letter of that round is in out.
MailedIn(out, round) == \E letter \in out : letter.round = round

\* The approvals app let the text through in that round.
ApprovedIn(app, round, text) ==
  \E approval \in app : approval.round = round /\ approval.text = text

\* What a checkpoint or a run's copy s may rely on, given the approvals app,
\* the outbox out and the number paid of transfers.
StateInv(s, app, out, paid) ==
  /\ StatusFitsNode(s)
  /\ s.next = "sendClaim" => ApprovedIn(app, s.rebuttals, s.approved)
  /\ s.next = "awaitResponse" => MailedIn(out, s.rebuttals)
  /\ \A round \in Rounds : SaysMailed(s, round) => MailedIn(out, round)
  /\ s.status = "paid" => paid > 0

\* The same for a run: between a node's effect and its return, the effect
\* has happened.
RunInv(run, app, out, paid) ==
  /\ StateInv(run.st, app, out, paid)
  /\ run.pc = "effect" =>
       CASE run.st.next = "humanApproval" ->
              run.input \in { "decline", "blank_edit" } \/
              ApprovedIn(app, run.st.rebuttals, DecidedText(run))
         [] run.st.next = "sendClaim" -> MailedIn(out, run.st.rebuttals)
         [] run.st.next = "processPayout" -> paid > 0
         [] OTHER -> FALSE

GraphInv ==
  /\ TypeOK
  /\ StateInv(ckpt, approvals, outbox, transfers)
  /\ \A r \in Runs : RunInv(runs[r], approvals, outbox, transfers)
  /\ ApprovedBeforeDispatch

-----------------------------------------------------------------------------
(* What docs and comments say, and the code does not do. *)

(***************************************************************************)
(* The graph does not go past humanApproval without an explicit decision:  *)
(* every letter mailed was approved or edited by the passenger.            *)
(***************************************************************************)
ExplicitDecisionBeforeDispatch ==
  \A letter \in outbox :
    \E approval \in approvals :
      approval.explicit /\ approval.round = letter.round

(***************************************************************************)
(* After a request for more information the claim keeps waiting: the node  *)
(* awaitResponse can be entered again.                                     *)
(***************************************************************************)
NeedsInfoKeepsWaiting ==
  \A r \in Runs :
    At(r, "awaitResponse") /\ runs[r].st.category = "needs_info"
      => CanTransition(runs[r].st.status, "CONFIRM_DISPATCHED")

=============================================================================
