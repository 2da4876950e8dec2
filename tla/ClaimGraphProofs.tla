--------------------------- MODULE ClaimGraphProofs ---------------------------
(***************************************************************************)
(* Proofs about ClaimGraph, for any number of concurrent runs, any bound   *)
(* on the rebuttals and on the failures, any carriers and resume values.   *)
(*                                                                         *)
(* GraphInv is inductive: GraphInvInit and GraphInvNext.  The theorems     *)
(* after them read the properties off it.                                  *)
(*                                                                         *)
(* The second half assumes that invocations do not overlap (OneRun).  Then *)
(* a run works on the latest checkpoint, and SerialInv, inductive as well, *)
(* counts what was sent and paid and refines ClaimLifecycle step by step.  *)
(***************************************************************************)
EXTENDS ClaimGraph, TLAPS

-----------------------------------------------------------------------------
(* The transition table, looked up. *)

\* What the events of the approval gate do to the statuses they meet there.
LEMMA GateTransitions ==
  /\ \A s \in { "draft", "rebutting" } :
       Apply(s, "SUBMIT_FOR_APPROVAL") = "pending_approval"
  /\ Apply("pending_approval", "DECLINE") = "declined"
  /\ Apply("pending_approval", "SEND") = "sent"
  /\ Apply("pending_approval", "CANNOT_AUTO_SEND") = "needs_manual_submission"
BY DEF Apply, Transitions

\* What the events of the wait for an answer do, and that a claim that waits
\* already cannot begin to.
LEMMA WaitTransitions ==
  /\ Apply("sent", "CONFIRM_DISPATCHED") = "awaiting_response"
  /\ ~ CanTransition("awaiting_response", "CONFIRM_DISPATCHED")
  /\ Apply("awaiting_response", "RECEIVE_ACCEPTANCE") = "accepted"
  /\ Apply("awaiting_response", "RECEIVE_REJECTION") = "rejected"
BY DEF Apply, CanTransition, Transitions

\* What the events after the answer do.
LEMMA LateTransitions ==
  /\ Apply("rejected", "REBUT") = "rebutting"
  /\ Apply("rejected", "ESCALATE") = "escalated"
  /\ Apply("awaiting_response", "TIMEOUT") = "escalated"
  /\ Apply("accepted", "CONFIRM_PAYOUT") = "paid"
BY DEF Apply, Transitions

-----------------------------------------------------------------------------
(* The world only grows, and what a state relies on survives its growth. *)

\* More approvals, letters and transfers never invalidate a state.
LEMMA StateInvGrows ==
  ASSUME NEW s, NEW app, NEW app2, NEW out, NEW out2,
         NEW paid \in Nat, NEW paid2 \in Nat,
         app \subseteq app2, out \subseteq out2, paid <= paid2,
         StateInv(s, app, out, paid)
  PROVE  StateInv(s, app2, out2, paid2)
<1>1. \A round : MailedIn(out, round) => MailedIn(out2, round)
  BY DEF MailedIn
<1>2. \A round, text : ApprovedIn(app, round, text) => ApprovedIn(app2, round, text)
  BY DEF ApprovedIn
<1>3. paid > 0 => paid2 > 0
  OBVIOUS
<1> QED
  BY <1>1, <1>2, <1>3 DEF StateInv

\* Nor do they invalidate a run.
LEMMA RunInvGrows ==
  ASSUME NEW run, NEW app, NEW app2, NEW out, NEW out2,
         NEW paid \in Nat, NEW paid2 \in Nat,
         app \subseteq app2, out \subseteq out2, paid <= paid2,
         RunInv(run, app, out, paid)
  PROVE  RunInv(run, app2, out2, paid2)
<1>1. \A round : MailedIn(out, round) => MailedIn(out2, round)
  BY DEF MailedIn
<1>2. \A round, text : ApprovedIn(app, round, text) => ApprovedIn(app2, round, text)
  BY DEF ApprovedIn
<1>3. paid > 0 => paid2 > 0
  OBVIOUS
<1>4. StateInv(run.st, app2, out2, paid2)
  BY StateInvGrows DEF RunInv
<1> QED
  BY <1>1, <1>2, <1>3, <1>4 DEF RunInv

-----------------------------------------------------------------------------
(* The three ways a step changes the state. *)

\* A step that replaces a run by one that relies on nothing new, and leaves
\* the checkpoint and the world alone.
LEMMA RunStep ==
  ASSUME GraphInv, NEW r \in Runs, NEW run \in Run,
         RunInv(run, approvals, outbox, transfers),
         runs' = [runs EXCEPT ![r] = run],
         UNCHANGED << ckpt, world, aborts >>
  PROVE  GraphInv'
<1>1. TypeOK'
  BY DEF GraphInv, TypeOK, world
<1>2. StateInv(ckpt, approvals, outbox, transfers)' /\ ApprovedBeforeDispatch'
  BY DEF GraphInv, world, ApprovedBeforeDispatch
<1>3. ASSUME NEW other \in Runs
      PROVE  RunInv(runs[other], approvals, outbox, transfers)'
  <2>1. runs'[other] = IF other = r THEN run ELSE runs[other]
    BY DEF GraphInv, TypeOK
  <2> QED
    BY <2>1 DEF GraphInv, world
<1> QED
  BY <1>1, <1>2, <1>3 DEF GraphInv

\* A node returned: the run goes on from the state s, and s is the checkpoint.
LEMMA CommitStep ==
  ASSUME GraphInv, NEW r \in Runs, NEW s \in State,
         StateInv(s, approvals, outbox, transfers),
         Commit(r, s),
         UNCHANGED world
  PROVE  GraphInv'
<1> DEFINE run == [pc    |-> IF s.next = "END" THEN "done" ELSE "step",
                   input |-> IF s.next = "END" THEN "none" ELSE "none",
                   st    |-> s]
<1>1. runs' = [runs EXCEPT ![r] = run] /\ ckpt' = s /\ aborts' = aborts
  BY DEF Commit, Invoke
<1>2. run \in Run
  BY DEF Run
<1>3. RunInv(run, approvals, outbox, transfers)
  BY DEF RunInv
<1> HIDE DEF run
<1>4. TypeOK'
  BY <1>1, <1>2 DEF GraphInv, TypeOK, world
<1>5. StateInv(ckpt, approvals, outbox, transfers)' /\ ApprovedBeforeDispatch'
  BY <1>1 DEF GraphInv, world, ApprovedBeforeDispatch
<1>6. ASSUME NEW other \in Runs
      PROVE  RunInv(runs[other], approvals, outbox, transfers)'
  <2>1. runs'[other] = IF other = r THEN run ELSE runs[other]
    BY <1>1 DEF GraphInv, TypeOK
  <2> QED
    BY <2>1, <1>3 DEF GraphInv, world
<1> QED
  BY <1>4, <1>5, <1>6 DEF GraphInv

\* The run between its node's effect and the node's return.
Affecting(run) == [pc |-> "effect", input |-> run.input, st |-> run.st]

\* A node had its effect: the world grew, and the run may rely on what it did.
LEMMA EffectStep ==
  ASSUME GraphInv, NEW r \in Runs, Effect(r),
         TypeOK', ApprovedBeforeDispatch',
         approvals \subseteq approvals', outbox \subseteq outbox',
         transfers <= transfers',
         RunInv(Affecting(runs[r]), approvals', outbox', transfers')
  PROVE  GraphInv'
<1>1. runs' = [runs EXCEPT ![r].pc = "effect"] /\ ckpt' = ckpt
  BY DEF Effect
<1>2. transfers \in Nat /\ transfers' \in Nat /\ runs \in [Runs -> Run]
  BY DEF GraphInv, TypeOK
<1>3. StateInv(ckpt, approvals, outbox, transfers)'
  BY <1>1, <1>2, StateInvGrows DEF GraphInv
<1>4. ASSUME NEW other \in Runs
      PROVE  RunInv(runs[other], approvals, outbox, transfers)'
  <2>1. CASE other = r
    <3>1. runs'[other] = Affecting(runs[r])
      BY <1>1, <1>2, <2>1 DEF Affecting, Run
    <3> QED
      BY <3>1
  <2>2. CASE other # r
    <3>1. runs'[other] = runs[other]
      BY <1>1, <1>2, <2>2
    <3>2. RunInv(runs[other], approvals', outbox', transfers')
      BY <1>2, RunInvGrows DEF GraphInv
    <3> QED
      BY <3>1, <3>2
  <2> QED
    BY <2>1, <2>2
<1> QED
  BY <1>3, <1>4 DEF GraphInv

-----------------------------------------------------------------------------
(* The steps around the nodes. *)

\* The thread that does not exist yet, and a run that is not running.
LEMMA NoThreadIdle == NoThread \in State /\ Idle \in Run
<1>1. NoThread \in State
  BY MaxRebuttalsAssumption
     DEF NoThread, State, Nodes, Statuses, Text, NoText, Rounds, Categories, Reasons
<1> QED
  BY <1>1 DEF Idle, Run

\* Before the first run there is nothing to rely on.
LEMMA GraphInvInit == Init => GraphInv
<1> SUFFICES ASSUME Init PROVE GraphInv
  OBVIOUS
<1>1. TypeOK
  BY NoThreadIdle, MaxAbortsAssumption DEF Init, TypeOK
<1>2. StateInv(NoThread, approvals, outbox, transfers)
  BY DEF StateInv, NoThread, StatusFitsNode, SaysMailed
<1>3. RunInv(Idle, approvals, outbox, transfers)
  BY <1>2 DEF RunInv, Idle
<1> QED
  BY <1>1, <1>2, <1>3 DEF Init, GraphInv, ApprovedBeforeDispatch

\* The state with which a thread begins.
LEMMA StartPreserves ==
  ASSUME GraphInv, NEW r \in Runs, Start(r)
  PROVE  GraphInv'
<1>1. PICK named \in BOOLEAN :
        Commit(r, [NoThread EXCEPT !.next = "ingest", !.named = named])
  BY DEF Start
<1> DEFINE s == [NoThread EXCEPT !.next = "ingest", !.named = named]
<1>2. s \in State
  BY NoThreadIdle DEF State, Nodes
<1>3. StateInv(s, approvals, outbox, transfers)
  BY DEF StateInv, NoThread, StatusFitsNode, SaysMailed
<1> HIDE DEF s
<1> QED
  BY <1>1, <1>2, <1>3, CommitStep DEF Start, s

\* A resumed run relies on what the checkpoint relies on.
LEMMA ResumePreserves ==
  ASSUME GraphInv, NEW r \in Runs, Resume(r)
  PROVE  GraphInv'
<1>1. PICK i \in ResumeInputs : Invoke(r, ckpt, i)
  BY DEF Resume
<1> DEFINE run == [pc    |-> IF ckpt.next = "END" THEN "done" ELSE "step",
                   input |-> IF ckpt.next = "END" THEN "none" ELSE i,
                   st    |-> ckpt]
<1>2. run \in Run
  BY ResumeInputsAssumption DEF Run, GraphInv, TypeOK
<1>3. RunInv(run, approvals, outbox, transfers)
  BY DEF RunInv, GraphInv
<1>4. runs' = [runs EXCEPT ![r] = run]
  BY <1>1 DEF Invoke
<1> HIDE DEF run
<1> QED
  BY <1>2, <1>3, <1>4, RunStep DEF Resume

\* A run that is over, refused or dead relies on nothing.
LEMMA IdleStep ==
  ASSUME GraphInv, NEW r \in Runs, runs' = [runs EXCEPT ![r] = Idle],
         UNCHANGED << ckpt, world, aborts >>
  PROVE  GraphInv'
<1>1. RunInv(Idle, approvals, outbox, transfers)
  BY DEF RunInv, Idle, StateInv, NoThread, StatusFitsNode, SaysMailed
<1> QED
  BY NoThreadIdle, <1>1, RunStep

\* A node that asks leaves its run where it was.
LEMMA PauseStep ==
  ASSUME GraphInv, NEW r \in Runs, Pause(r)
  PROVE  GraphInv'
<1> DEFINE run == [pc |-> "done", input |-> runs[r].input, st |-> runs[r].st]
<1>1. /\ runs \in [Runs -> Run]
      /\ RunInv(runs[r], approvals, outbox, transfers)
  BY DEF GraphInv, TypeOK
<1>2. run \in Run
  BY <1>1 DEF Run
<1>3. RunInv(run, approvals, outbox, transfers)
  BY <1>1 DEF RunInv
<1>4. runs' = [runs EXCEPT ![r] = run]
  <2>1. runs[r] \in Run
    BY <1>1
  <2>2. [runs[r] EXCEPT !.pc = "done"] = run
    BY <2>1 DEF Run
  <2> HIDE DEF run
  <2> QED
    BY <1>1, <2>2 DEF Pause
<1> HIDE DEF run
<1> QED
  BY <1>2, <1>3, <1>4, RunStep DEF Pause

\* A failure loses the run, and counts what its effect had done.
LEMMA AbortPreserves ==
  ASSUME GraphInv, NEW r \in Runs, Abort(r)
  PROVE  GraphInv'
<1>1. RunInv(Idle, approvals, outbox, transfers)
  BY DEF RunInv, Idle, StateInv, NoThread, StatusFitsNode, SaysMailed
<1>2. runs[r].st.rebuttals \in Rounds
  BY DEF GraphInv, TypeOK, Run, State
<1>3. lostSends' \in [Rounds -> Nat] /\ lostTransfers' \in Nat
  BY <1>2 DEF Abort, GraphInv, TypeOK
<1>4. aborts' \in 0 .. MaxAborts
  BY MaxAbortsAssumption DEF Abort, GraphInv, TypeOK
<1>5. TypeOK'
  BY NoThreadIdle, <1>3, <1>4 DEF Abort, GraphInv, TypeOK
<1>6. StateInv(ckpt, approvals, outbox, transfers)' /\ ApprovedBeforeDispatch'
  BY DEF Abort, GraphInv, ApprovedBeforeDispatch
<1>7. ASSUME NEW other \in Runs
      PROVE  RunInv(runs[other], approvals, outbox, transfers)'
  <2>1. runs'[other] = IF other = r THEN Idle ELSE runs[other]
    BY DEF Abort, GraphInv, TypeOK
  <2> QED
    BY <2>1, <1>1 DEF GraphInv, Abort
<1> QED
  BY <1>5, <1>6, <1>7 DEF GraphInv

-----------------------------------------------------------------------------
(* The nodes. *)

\* What GraphInv says of one run's copy of the state.
LEMMA CopyFacts ==
  ASSUME GraphInv, NEW r \in Runs
  PROVE  /\ runs[r] \in Run
         /\ runs[r].st \in State
         /\ RunInv(runs[r], approvals, outbox, transfers)
         /\ StateInv(runs[r].st, approvals, outbox, transfers)
BY DEF GraphInv, TypeOK, Run, RunInv

\* Up to the draft the status stays what it is.
LEMMA DraftingPreserves ==
  ASSUME GraphInv, NEW r \in Runs,
         Ingest(r) \/ CheckEligibility(r) \/ ScoreClaim(r) \/ DraftClaim(r)
  PROVE  GraphInv'
<1> DEFINE s == runs[r].st
<1>1. s \in State /\ StateInv(s, approvals, outbox, transfers)
  BY CopyFacts
<1>2. CASE Ingest(r)
  <2> DEFINE t == [s EXCEPT !.next = "checkEligibility"]
  <2>1. t \in State
    BY <1>1 DEF State, Nodes
  <2>2. StateInv(t, approvals, outbox, transfers)
    BY <1>1, <1>2 DEF Ingest, At, State, StateInv, StatusFitsNode, SaysMailed
  <2>3. Commit(r, t) /\ UNCHANGED world
    BY <1>2 DEF Ingest
  <2> HIDE DEF t
  <2> QED
    BY <2>1, <2>2, <2>3, CommitStep
<1>3. CASE CheckEligibility(r)
  <2>1. PICK after \in { "scoreClaim", "END" } : Commit(r, [s EXCEPT !.next = after])
    BY <1>3 DEF CheckEligibility
  <2> DEFINE t == [s EXCEPT !.next = after]
  <2>2. t \in State
    BY <1>1 DEF State, Nodes
  <2>3. StateInv(t, approvals, outbox, transfers)
    BY <1>1, <1>3
       DEF CheckEligibility, At, State, StateInv, StatusFitsNode, SaysMailed
  <2>4. Commit(r, t) /\ UNCHANGED world
    BY <1>3, <2>1 DEF CheckEligibility
  <2> HIDE DEF t
  <2> QED
    BY <2>2, <2>3, <2>4, CommitStep
<1>4. CASE ScoreClaim(r)
  <2>1. PICK strong \in BOOLEAN :
          Commit(r, [s EXCEPT !.next = "draftClaim", !.strong = strong])
    BY <1>4 DEF ScoreClaim
  <2> DEFINE t == [s EXCEPT !.next = "draftClaim", !.strong = strong]
  <2>2. t \in State
    BY <1>1 DEF State, Nodes
  <2>3. StateInv(t, approvals, outbox, transfers)
    BY <1>1, <1>4 DEF ScoreClaim, At, State, StateInv, StatusFitsNode, SaysMailed
  <2>4. Commit(r, t) /\ UNCHANGED world
    BY <1>4, <2>1 DEF ScoreClaim
  <2> HIDE DEF t
  <2> QED
    BY <2>2, <2>3, <2>4, CommitStep
<1>5. CASE DraftClaim(r)
  <2>1. PICK plan \in CarrierPlans :
          \E text \in Drafts(s, plan) :
            Commit(r, [s EXCEPT !.next = "humanApproval",
                                !.auto = plan \in AutoPlans, !.draft = text])
    BY <1>5 DEF DraftClaim
  <2> DEFINE auto == plan \in AutoPlans
  <2>2. auto \in BOOLEAN
    OBVIOUS
  <2>3. PICK text \in Drafts(s, plan) :
          Commit(r, [s EXCEPT !.next = "humanApproval",
                              !.auto = auto, !.draft = text])
    BY <2>1
  <2>4. text \in Text
    BY <1>1, <2>3, MaxRebuttalsAssumption DEF Drafts, Text, NoText, State, Rounds
  <2> HIDE DEF auto
  <2> DEFINE t == [s EXCEPT !.next = "humanApproval", !.auto = auto, !.draft = text]
  <2>5. t \in State
    BY <1>1, <2>2, <2>4 DEF State, Nodes
  <2>6. StateInv(t, approvals, outbox, transfers)
    BY <1>1, <1>5 DEF DraftClaim, At, State, StateInv, StatusFitsNode, SaysMailed
  <2>7. Commit(r, t) /\ UNCHANGED world
    BY <1>5, <2>3 DEF DraftClaim
  <2> HIDE DEF t
  <2> QED
    BY <2>5, <2>6, <2>7, CommitStep
<1> QED
  BY <1>2, <1>3, <1>4, <1>5

\* The gate writes the decision down before it acts on it, and what goes on to
\* sendClaim is the text decided on.
LEMMA ApprovalPreserves ==
  ASSUME GraphInv, NEW r \in Runs,
         HumanApprovalAudits(r) \/ HumanApprovalReturns(r)
  PROVE  GraphInv'
<1> DEFINE run == runs[r]
<1>1. /\ run \in Run /\ run.st \in State
      /\ RunInv(run, approvals, outbox, transfers)
      /\ StateInv(run.st, approvals, outbox, transfers)
  BY CopyFacts
<1>2. DecidedText(run) \in Text
  BY <1>1 DEF DecidedText, Text, State
<1>3. CASE HumanApprovalAudits(r)
  <2> DEFINE entry(i) == [round |-> run.st.rebuttals, text |-> DecidedText(run),
                          explicit |-> i \in { "approve", "edit" }]
  <2>1. approvals' = approvals \cup
          { entry(i) : i \in { run.input } \ { "decline", "blank_edit" } }
    BY <1>3 DEF HumanApprovalAudits
  <2>2. \A i : entry(i) \in Approval
    BY <1>1, <1>2 DEF Approval, State
  <2>3. approvals \subseteq approvals' /\ approvals' \subseteq Approval
    BY <2>1, <2>2 DEF GraphInv, TypeOK
  <2>4. Affecting(run) \in Run /\ runs' = [runs EXCEPT ![r] = Affecting(run)]
    <3>1. Affecting(run) \in Run
      BY <1>1 DEF Affecting, Run
    <3>2. [run EXCEPT !.pc = "effect"] = Affecting(run)
      BY <1>1 DEF Affecting, Run
    <3> QED
      BY <1>3, <3>1, <3>2 DEF HumanApprovalAudits, Effect
  <2>5. TypeOK'
    BY <1>3, <2>3, <2>4 DEF HumanApprovalAudits, Effect, GraphInv, TypeOK
  <2>6. ApprovedBeforeDispatch'
    BY <1>3, <2>3 DEF HumanApprovalAudits, GraphInv, ApprovedBeforeDispatch
  <2>7. transfers \in Nat
    BY DEF GraphInv, TypeOK
  <2>8. RunInv(run, approvals', outbox', transfers')
    BY <1>1, <1>3, <2>3, <2>7, RunInvGrows DEF HumanApprovalAudits
  <2>9. run.input \in { "decline", "blank_edit" } \/
        ApprovedIn(approvals', run.st.rebuttals, DecidedText(run))
    <3>1. ASSUME run.input \notin { "decline", "blank_edit" }
          PROVE  entry(run.input) \in approvals'
      BY <2>1, <3>1
    <3> QED
      BY <3>1 DEF ApprovedIn
  <2>10. DecidedText(Affecting(run)) = DecidedText(run)
    BY DEF DecidedText, Affecting
  <2>11. RunInv(Affecting(run), approvals', outbox', transfers')
    BY <1>3, <2>8, <2>9, <2>10 DEF RunInv, Affecting, HumanApprovalAudits, At
  <2> QED
    BY <1>3, <2>3, <2>5, <2>6, <2>7, <2>11, EffectStep DEF HumanApprovalAudits
<1>4. CASE HumanApprovalReturns(r)
  <2> DEFINE event  == DecisionEvent(run)
             status == Apply(Apply(run.st.status, "SUBMIT_FOR_APPROVAL"), event)
             t == [run.st EXCEPT
                     !.status   = status,
                     !.approved = IF run.input = "decline"
                                    THEN @ ELSE DecidedText(run),
                     !.next     = IF status = "sent" THEN "sendClaim" ELSE "END"]
  <2>1. Commit(r, t) /\ UNCHANGED world
    BY <1>4 DEF HumanApprovalReturns
  <2>2. run.st.status \in { "draft", "rebutting" } /\ run.st.next = "humanApproval"
    BY <1>1, <1>4
       DEF StateInv, StatusFitsNode, HumanApprovalReturns, Returning
  <2>3. status \in { "declined", "sent", "needs_manual_submission" }
    BY <2>2, GateTransitions DEF DecisionEvent
  <2>4. status = "sent" => ApprovedIn(approvals, run.st.rebuttals, DecidedText(run))
                             /\ run.input # "decline"
    <3>1. ASSUME run.input = "decline" PROVE status = "declined"
      <4>1. event = "DECLINE"
        BY <3>1 DEF DecisionEvent
      <4>2. Apply(run.st.status, "SUBMIT_FOR_APPROVAL") = "pending_approval"
        BY <2>2, GateTransitions
      <4> HIDE DEF event
      <4> QED
        BY <4>1, <4>2, GateTransitions
    <3> QED
      BY <1>1, <1>4, <2>2, <3>1 DEF RunInv, HumanApprovalReturns, Returning
  <2> HIDE DEF status
  <2>5. t \in State
    BY <1>1, <1>2, <2>3 DEF State, Nodes, Statuses
  <2>6. StateInv(t, approvals, outbox, transfers)
    BY <1>1, <2>3, <2>4 DEF State, StateInv, StatusFitsNode, SaysMailed
  <2> HIDE DEF t
  <2> QED
    BY <2>1, <2>5, <2>6, CommitStep
<1> QED
  BY <1>3, <1>4

\* A letter is in the outbox from the moment the provider took it, so the node
\* that returns from there, and the wait, may rely on it.
LEMMA SendClaimPreserves ==
  ASSUME GraphInv, NEW r \in Runs,
         SendClaimDispatches(r) \/ SendClaimReturns(r)
  PROVE  GraphInv'
<1> DEFINE run == runs[r]
<1>1. /\ run \in Run /\ run.st \in State
      /\ RunInv(run, approvals, outbox, transfers)
      /\ StateInv(run.st, approvals, outbox, transfers)
  BY CopyFacts
<1>2. CASE SendClaimDispatches(r)
  <2> DEFINE letter == [round |-> run.st.rebuttals, text |-> run.st.approved]
  <2>1. letter \in Letter
    BY <1>1 DEF Letter, State
  <2>2. outbox' = outbox \cup { letter } /\ approvals' = approvals
          /\ transfers' = transfers
    BY <1>2 DEF SendClaimDispatches
  <2>3. Affecting(run) \in Run /\ runs' = [runs EXCEPT ![r] = Affecting(run)]
    <3>1. Affecting(run) \in Run
      BY <1>1 DEF Affecting, Run
    <3>2. [run EXCEPT !.pc = "effect"] = Affecting(run)
      BY <1>1 DEF Affecting, Run
    <3> QED
      BY <1>2, <3>1, <3>2 DEF SendClaimDispatches, Effect
  <2>4. sends' \in [Rounds -> Nat]
    BY <1>1, <1>2 DEF SendClaimDispatches, State, GraphInv, TypeOK
  <2>5. TypeOK'
    BY <1>2, <2>1, <2>2, <2>3, <2>4 DEF SendClaimDispatches, Effect, GraphInv, TypeOK
  <2>6. ApprovedIn(approvals, run.st.rebuttals, run.st.approved)
    BY <1>1, <1>2 DEF SendClaimDispatches, At, StateInv
  <2>7. ApprovedBeforeDispatch'
    BY <2>2, <2>6 DEF GraphInv, ApprovedBeforeDispatch, ApprovedIn
  <2>8. transfers \in Nat
    BY DEF GraphInv, TypeOK
  <2>9. RunInv(run, approvals', outbox', transfers')
    BY <1>1, <2>2, <2>8, RunInvGrows
  <2>10. MailedIn(outbox', run.st.rebuttals)
    <3>1. letter \in outbox' /\ letter.round = run.st.rebuttals
      BY <2>2
    <3> QED
      BY <3>1 DEF MailedIn
  <2>11. RunInv(Affecting(run), approvals', outbox', transfers')
    BY <1>2, <2>9, <2>10 DEF RunInv, Affecting, SendClaimDispatches, At
  <2> QED
    BY <1>2, <2>2, <2>5, <2>7, <2>8, <2>11, EffectStep DEF SendClaimDispatches
<1>3. CASE SendClaimReturns(r)
  <2> DEFINE t == [run.st EXCEPT !.receipt = TRUE, !.next = "awaitResponse"]
  <2>1. Commit(r, t) /\ UNCHANGED world
    BY <1>3 DEF SendClaimReturns
  <2>2. t \in State
    BY <1>1 DEF State, Nodes
  <2>3. run.st.status = "sent" /\ MailedIn(outbox, run.st.rebuttals)
    BY <1>1, <1>3 DEF RunInv, StateInv, StatusFitsNode, SendClaimReturns, Returning
  <2>4. StateInv(t, approvals, outbox, transfers)
    BY <1>1, <2>3 DEF State, StateInv, StatusFitsNode, SaysMailed
  <2> HIDE DEF t
  <2> QED
    BY <2>1, <2>2, <2>4, CommitStep
<1> QED
  BY <1>2, <1>3

\* The wait, and what the answer leads to.
LEMMA AnswerPreserves ==
  ASSUME GraphInv, NEW r \in Runs,
         AwaitResponseReturns(r) \/ ClassifyResponse(r)
  PROVE  GraphInv'
<1> DEFINE s == runs[r].st
<1>1. s \in State /\ StateInv(s, approvals, outbox, transfers)
  BY CopyFacts
<1>2. CASE AwaitResponseReturns(r)
  <2> DEFINE replied == runs[r].input = "reply"
             status == Apply(s.status, "CONFIRM_DISPATCHED")
             t == [s EXCEPT !.status = status, !.reply = replied,
                            !.next = IF replied THEN "classifyResponse"
                                                ELSE "escalate"]
  <2>1. Commit(r, t) /\ UNCHANGED world
    BY <1>2 DEF AwaitResponseReturns
  <2>2. s.status = "sent" /\ MailedIn(outbox, s.rebuttals)
    BY <1>1, <1>2, WaitTransitions
       DEF StateInv, StatusFitsNode, AwaitResponseReturns, At
  <2>3. status = "awaiting_response"
    BY <2>2, WaitTransitions
  <2>4. replied \in BOOLEAN
    OBVIOUS
  <2> HIDE DEF status, replied
  <2>5. t \in State
    BY <1>1, <2>3, <2>4 DEF State, Nodes, Statuses
  <2>6. StateInv(t, approvals, outbox, transfers)
    BY <1>1, <2>2, <2>3, <2>4 DEF State, StateInv, StatusFitsNode, SaysMailed
  <2> HIDE DEF t
  <2> QED
    BY <2>1, <2>5, <2>6, CommitStep
<1>3. CASE ClassifyResponse(r)
  <2>1. PICK category \in Categories :
          Commit(r, [s EXCEPT
                       !.category = category,
                       !.status   = StatusAfterClassification(@, category),
                       !.next     = RouteAfterClassification(s, category)])
    BY <1>3 DEF ClassifyResponse
  <2> DEFINE status == StatusAfterClassification(s.status, category)
             after  == RouteAfterClassification(s, category)
             t == [s EXCEPT !.category = category, !.status = status, !.next = after]
  <2>2. Commit(r, t) /\ UNCHANGED world
    BY <1>3, <2>1 DEF ClassifyResponse
  <2>3. s.status = "awaiting_response" /\ s.reply
    BY <1>1, <1>3 DEF StateInv, StatusFitsNode, ClassifyResponse, At
  <2>4. MailedIn(outbox, s.rebuttals)
    BY <1>1, <2>3 DEF StateInv, SaysMailed, State
  <2>5. \/ status = "accepted" /\ after = "processPayout"
        \/ status = "awaiting_response" /\ after = "awaitResponse"
        \/ status = "rejected" /\ after = "rebut" /\ s.rebuttals < MaxRebuttals
        \/ status = "rejected" /\ after = "escalate"
        \/ status = "awaiting_response" /\ after = "escalate"
    BY <2>1, <2>3, WaitTransitions
       DEF StatusAfterClassification, RouteAfterClassification, Categories
  <2> HIDE DEF status, after
  <2>6. t \in State
    BY <1>1, <2>1, <2>5 DEF State, Nodes, Statuses
  <2>7. StateInv(t, approvals, outbox, transfers)
    BY <1>1, <2>4, <2>5 DEF State, StateInv, StatusFitsNode, SaysMailed
  <2> HIDE DEF t
  <2> QED
    BY <2>2, <2>6, <2>7, CommitStep
<1> QED
  BY <1>2, <1>3

\* A rebuttal opens the next round, which nothing was mailed in yet.
LEMMA RebutPreserves ==
  ASSUME GraphInv, NEW r \in Runs, Rebut(r)
  PROVE  GraphInv'
<1> DEFINE s == runs[r].st
           status == Apply(s.status, "REBUT")
           t == [s EXCEPT !.status = status, !.rebuttals = @ + 1,
                          !.next = "draftClaim"]
<1>1. s \in State /\ StateInv(s, approvals, outbox, transfers)
  BY CopyFacts
<1>2. Commit(r, t) /\ UNCHANGED world
  BY DEF Rebut
<1>3. s.status = "rejected" /\ s.rebuttals < MaxRebuttals
  BY <1>1 DEF StateInv, StatusFitsNode, Rebut, At
<1>4. status = "rebutting"
  BY <1>3, LateTransitions
<1>5. s.rebuttals \in Nat /\ s.rebuttals + 1 \in Rounds
  BY <1>1, <1>3, MaxRebuttalsAssumption DEF State, Rounds
<1>6. MailedIn(outbox, s.rebuttals)
  BY <1>1, <1>3 DEF StateInv, SaysMailed, State
<1> HIDE DEF status
<1>7. t \in State
  BY <1>1, <1>4, <1>5 DEF State, Nodes, Statuses
<1>8. StateInv(t, approvals, outbox, transfers)
  <2>1. t.status = "rebutting" /\ t.next = "draftClaim"
          /\ t.rebuttals = s.rebuttals + 1
    BY <1>1, <1>4 DEF State
  <2> HIDE DEF t
  <2>2. ASSUME NEW round \in Rounds, SaysMailed(t, round)
        PROVE  round = s.rebuttals
    BY <1>5, <2>1, <2>2, MaxRebuttalsAssumption DEF SaysMailed, Rounds
  <2> QED
    BY <1>5, <1>6, <2>1, <2>2 DEF StateInv, StatusFitsNode
<1> HIDE DEF t
<1> QED
  BY <1>2, <1>7, <1>8, CommitStep

\* Escalation ends the claim in the round it is in.
LEMMA EscalatePreserves ==
  ASSUME GraphInv, NEW r \in Runs, Escalate(r)
  PROVE  GraphInv'
<1> DEFINE s == runs[r].st
           event == IF s.status = "awaiting_response" THEN "TIMEOUT" ELSE "ESCALATE"
           status == Apply(s.status, event)
           reason == EscalationReason(s)
           t == [s EXCEPT !.status = status, !.reason = reason, !.next = "END"]
<1>1. s \in State /\ StateInv(s, approvals, outbox, transfers)
  BY CopyFacts
<1>2. Commit(r, t) /\ UNCHANGED world
  BY DEF Escalate
<1>3. s.status \in { "awaiting_response", "rejected" }
  BY <1>1 DEF StateInv, StatusFitsNode, Escalate, At
<1>4. status = "escalated"
  BY <1>3, LateTransitions
<1>5. reason \in Reasons
  BY DEF EscalationReason, Reasons
<1>6. MailedIn(outbox, s.rebuttals)
  BY <1>1, <1>3 DEF StateInv, SaysMailed, State
<1> HIDE DEF event, status, reason
<1>7. t \in State
  BY <1>1, <1>4, <1>5 DEF State, Nodes, Statuses
<1>8. StateInv(t, approvals, outbox, transfers)
  BY <1>1, <1>4, <1>6 DEF State, StateInv, StatusFitsNode, SaysMailed
<1> HIDE DEF t
<1> QED
  BY <1>2, <1>7, <1>8, CommitStep

\* Money has moved before the claim is called paid.
LEMMA PayoutPreserves ==
  ASSUME GraphInv, NEW r \in Runs,
         ProcessPayoutTransfers(r) \/ ProcessPayoutReturns(r)
  PROVE  GraphInv'
<1> DEFINE run == runs[r]
<1>1. /\ run \in Run /\ run.st \in State
      /\ RunInv(run, approvals, outbox, transfers)
      /\ StateInv(run.st, approvals, outbox, transfers)
  BY CopyFacts
<1>2. CASE ProcessPayoutTransfers(r)
  <2>1. transfers \in Nat /\ transfers' = transfers + 1
          /\ approvals' = approvals /\ outbox' = outbox
    BY <1>2 DEF ProcessPayoutTransfers, GraphInv, TypeOK
  <2>2. Affecting(run) \in Run /\ runs' = [runs EXCEPT ![r] = Affecting(run)]
    <3>1. Affecting(run) \in Run
      BY <1>1 DEF Affecting, Run
    <3>2. [run EXCEPT !.pc = "effect"] = Affecting(run)
      BY <1>1 DEF Affecting, Run
    <3> QED
      BY <1>2, <3>1, <3>2 DEF ProcessPayoutTransfers, Effect
  <2>3. TypeOK'
    BY <1>2, <2>1, <2>2 DEF ProcessPayoutTransfers, Effect, GraphInv, TypeOK
  <2>4. ApprovedBeforeDispatch'
    BY <2>1 DEF GraphInv, ApprovedBeforeDispatch
  <2>5. RunInv(run, approvals', outbox', transfers')
    BY <1>1, <2>1, RunInvGrows
  <2>6. RunInv(Affecting(run), approvals', outbox', transfers')
    BY <1>2, <2>1, <2>5 DEF RunInv, Affecting, ProcessPayoutTransfers, At
  <2> QED
    BY <1>2, <2>1, <2>3, <2>4, <2>6, EffectStep DEF ProcessPayoutTransfers
<1>3. CASE ProcessPayoutReturns(r)
  <2> DEFINE s == run.st
             status == Apply(s.status, "CONFIRM_PAYOUT")
             t == [s EXCEPT !.status = status, !.next = "END"]
  <2>1. Commit(r, t) /\ UNCHANGED world
    BY <1>3 DEF ProcessPayoutReturns
  <2>2. s.status = "accepted" /\ transfers > 0
    BY <1>1, <1>3
       DEF RunInv, StateInv, StatusFitsNode, ProcessPayoutReturns, Returning
  <2>3. status = "paid"
    BY <2>2, LateTransitions
  <2>4. MailedIn(outbox, s.rebuttals)
    BY <1>1, <2>2 DEF StateInv, SaysMailed, State
  <2> HIDE DEF status
  <2>5. t \in State
    BY <1>1, <2>3 DEF State, Nodes, Statuses
  <2>6. StateInv(t, approvals, outbox, transfers)
    BY <1>1, <2>2, <2>3, <2>4 DEF State, StateInv, StatusFitsNode, SaysMailed
  <2> HIDE DEF t
  <2> QED
    BY <2>1, <2>5, <2>6, CommitStep
<1> QED
  BY <1>2, <1>3

-----------------------------------------------------------------------------
(* The theorems. *)

\* Every step of the pipeline preserves GraphInv.
LEMMA GraphInvNext == GraphInv /\ [Next]_vars => GraphInv'
<1> SUFFICES ASSUME GraphInv, [Next]_vars PROVE GraphInv'
  OBVIOUS
<1>1. CASE UNCHANGED vars
  BY <1>1
     DEF vars, world, GraphInv, TypeOK, ApprovedBeforeDispatch
<1>2. ASSUME NEW r \in Runs,
             Start(r) \/ Resume(r) \/ NodeStep(r) \/ Return(r) \/ Abort(r)
      PROVE  GraphInv'
  <2>1. CASE Start(r)
    BY <2>1, StartPreserves
  <2>2. CASE Resume(r)
    BY <2>2, ResumePreserves
  <2>3. CASE Abort(r)
    BY <2>3, AbortPreserves
  <2>4. CASE Return(r)
    BY <2>4, IdleStep DEF Return
  <2>5. CASE \/ HumanApprovalAsks(r) \/ AwaitResponseAsks(r)
             \/ ProcessPayoutAsks(r)
    BY <2>5, PauseStep DEF HumanApprovalAsks, AwaitResponseAsks, ProcessPayoutAsks
  <2>6. CASE \/ DraftClaimRefuses(r) \/ HumanApprovalRefuses(r)
             \/ SendClaimRefuses(r) \/ AwaitResponseRefuses(r)
             \/ ProcessPayoutRefuses(r)
    <3>1. Refuse(r)
      BY <2>6 DEF DraftClaimRefuses, HumanApprovalRefuses, SendClaimRefuses,
                  AwaitResponseRefuses, ProcessPayoutRefuses
    <3> QED
      BY <3>1, IdleStep DEF Refuse
  <2>7. CASE Ingest(r) \/ CheckEligibility(r) \/ ScoreClaim(r) \/ DraftClaim(r)
    BY <2>7, DraftingPreserves
  <2>8. CASE HumanApprovalAudits(r) \/ HumanApprovalReturns(r)
    BY <2>8, ApprovalPreserves
  <2>9. CASE SendClaimDispatches(r) \/ SendClaimReturns(r)
    BY <2>9, SendClaimPreserves
  <2>10. CASE AwaitResponseReturns(r) \/ ClassifyResponse(r)
    BY <2>10, AnswerPreserves
  <2>11. CASE Rebut(r)
    BY <2>11, RebutPreserves
  <2>12. CASE Escalate(r)
    BY <2>12, EscalatePreserves
  <2>13. CASE ProcessPayoutTransfers(r) \/ ProcessPayoutReturns(r)
    BY <2>13, PayoutPreserves
  <2> QED
    BY <1>2, <2>1, <2>2, <2>3, <2>4, <2>5, <2>6, <2>7, <2>8, <2>9, <2>10,
       <2>11, <2>12, <2>13
    DEF NodeStep
<1> QED
  BY <1>1, <1>2 DEF Next

(***************************************************************************)
(* GraphInv always holds: the states, the runs and what the world has seen *)
(* fit together, however many invocations overlap and wherever they die.   *)
(***************************************************************************)
THEOREM Invariance == Spec => []GraphInv
<1>1. Init => GraphInv
  BY GraphInvInit
<1>2. GraphInv /\ [Next]_vars => GraphInv'
  BY GraphInvNext
<1> QED
  BY <1>1, <1>2, PTL DEF Spec

(***************************************************************************)
(* The checkpoint, the runs and the history keep their types; in           *)
(* particular the rebuttal count of GraphState never exceeds               *)
(* MAX_REBUTTAL_ATTEMPTS, and no status is ever left without an entry in   *)
(* the transition table.                                                   *)
(***************************************************************************)
THEOREM TypeCorrect == Spec => []TypeOK
<1>1. GraphInv => TypeOK
  BY DEF GraphInv
<1> QED
  BY <1>1, Invariance, PTL

(***************************************************************************)
(* No letter reaches the mail provider unless the audit log holds a        *)
(* decision that let exactly that text through in exactly that round.      *)
(***************************************************************************)
THEOREM ApprovalGate == Spec => []ApprovedBeforeDispatch
<1>1. GraphInv => ApprovedBeforeDispatch
  BY DEF GraphInv
<1> QED
  BY <1>1, Invariance, PTL

\* Of a state that GraphInv allows the status is honest.
LEMMA InvIsHonest == ASSUME GraphInv PROVE StatusBackedByWorld
<1>1. ckpt.status = "sent" => ckpt.next \in { "sendClaim", "awaitResponse" }
  BY DEF GraphInv, StateInv, StatusFitsNode, TypeOK, State, Nodes
<1> QED
  BY <1>1 DEF GraphInv, StateInv, StatusBackedByWorld, MailedIn

\* And whatever node is next, or is being executed, can take its transition.
LEMMA InvFitsNodes == ASSUME GraphInv PROVE NodesFitStatus
  BY DEF GraphInv, StateInv, RunInv, NodesFitStatus

(***************************************************************************)
(* The checkpointed status never claims a mailing or a payout that did not *)
(* happen.                                                                 *)
(***************************************************************************)
THEOREM StatusHonest == Spec => []StatusBackedByWorld
<1> QED
  BY InvIsHonest, Invariance, PTL

(***************************************************************************)
(* No node but awaitResponse is ever entered with a status its transition  *)
(* is illegal from, and none past the last rebuttal.                       *)
(***************************************************************************)
THEOREM NodesFit == Spec => []NodesFitStatus
<1> QED
  BY InvFitsNodes, Invariance, PTL

-----------------------------------------------------------------------------
(* Invocations that do not overlap. *)

OneRun == \A r, q \in Runs : r = q

\* A run works on the latest checkpoint.
Current == \A r \in Runs : runs[r].pc # "idle" => runs[r].st = ckpt

BeforeSending ==
  { "START", "ingest", "checkEligibility", "scoreClaim", "draftClaim", "humanApproval",
    "sendClaim" }

\* The letter of round k, and the transfer, are still to come.
ToSend(k) ==
  \/ k > ckpt.rebuttals
  \/ /\ k = ckpt.rebuttals /\ ckpt.next \in BeforeSending
     /\ ~ \E r \in Runs : Returning(r, "sendClaim")
ToPay == ckpt.status # "paid" /\ ~ \E r \in Runs : Returning(r, "processPayout")

\* What is still to come has only happened in runs that died.
Counted ==
  /\ \A k \in Rounds :
       /\ sends[k] <= 1 + lostSends[k]
       /\ ToSend(k) => sends[k] <= lostSends[k]
  /\ transfers <= 1 + lostTransfers
  /\ ToPay => transfers <= lostTransfers

SerialInv == GraphInv /\ Current /\ Counted

LEMMA SerialInvInit == Init => SerialInv
<1> SUFFICES ASSUME Init PROVE SerialInv
  OBVIOUS
<1>1. GraphInv
  BY GraphInvInit
<1>2. Current /\ Counted
  BY DEF Init, Current, Counted, Idle
<1> QED
  BY <1>1, <1>2 DEF SerialInv

\* What the lifecycle sees of a step, and the steps it allows.
Seen ==
  << ckpt.status, ckpt.rebuttals, { letter.round : letter \in outbox }, transfers > 0 >>
Legal == Lifecycle!LifecycleNext \/ UNCHANGED Seen

\* What a step of the one run may assume.
LEMMA SerialFacts ==
  ASSUME OneRun, SerialInv, NEW r \in Runs
  PROVE  /\ ckpt \in State /\ runs[r] \in Run /\ runs[r].st \in State
         /\ ckpt.rebuttals \in Nat /\ ckpt.rebuttals \in Rounds
         /\ transfers \in Nat /\ lostTransfers \in Nat
         /\ \A k \in Rounds : k \in Nat /\ sends[k] \in Nat /\ lostSends[k] \in Nat
         /\ runs[r].pc # "idle" => runs[r].st = ckpt
         /\ StateInv(ckpt, approvals, outbox, transfers)
         /\ RunInv(runs[r], approvals, outbox, transfers)
         /\ Runs = { r } /\ Counted
<1>1. /\ TypeOK /\ StateInv(ckpt, approvals, outbox, transfers)
      /\ RunInv(runs[r], approvals, outbox, transfers)
  BY DEF SerialInv, GraphInv
<1>2. /\ ckpt \in State /\ runs[r] \in Run /\ runs[r].st \in State
  BY <1>1 DEF TypeOK, Run
<1>3. /\ ckpt.rebuttals \in Rounds /\ \A k \in Rounds : k \in Nat
  BY <1>2, MaxRebuttalsAssumption DEF State, Rounds
<1>4. /\ transfers \in Nat /\ lostTransfers \in Nat
      /\ \A k \in Rounds : sends[k] \in Nat /\ lostSends[k] \in Nat
  BY <1>1 DEF TypeOK
<1>5. Runs = { r }
  BY DEF OneRun
<1> QED
  BY <1>1, <1>2, <1>3, <1>4, <1>5 DEF SerialInv, Current

-----------------------------------------------------------------------------
(* The kinds of steps. *)

\* A run moves, with no effect behind it that is not yet saved.
LEMMA MoveCounts ==
  ASSUME OneRun, SerialInv, NEW r \in Runs, NEW run,
         runs' = [runs EXCEPT ![r] = run], run.pc # "idle" => run.st = ckpt,
         UNCHANGED << ckpt, world >>,
         ~ Returning(r, "sendClaim"), ~ Returning(r, "processPayout")
  PROVE  Current' /\ Counted' /\ Legal
<1>1. /\ runs \in [Runs -> Run] /\ Runs = { r } /\ Counted
      /\ UNCHANGED << ckpt, outbox, sends, lostSends, transfers, lostTransfers >>
  BY SerialFacts DEF SerialInv, GraphInv, TypeOK, world
<1>2. runs'[r] = run
  BY <1>1
<1>3. Current'
  BY <1>1, <1>2 DEF Current
<1>4. /\ ToPay' => ToPay
      /\ \A k \in Rounds : ToSend(k)' => ToSend(k)
  BY <1>1 DEF ToPay, ToSend
<1>5. Counted'
  BY <1>1, <1>4 DEF Counted
<1>6. Legal
  BY <1>1 DEF Legal, Seen
<1> QED
  BY <1>3, <1>5, <1>6

\* A node returned, and s is saved.
LEMMA CommitCounts ==
  ASSUME OneRun, SerialInv, NEW r \in Runs, NEW s, Commit(r, s), UNCHANGED world,
         \/ s.rebuttals = ckpt.rebuttals /\ s.next \notin BeforeSending
         \/ /\ s.rebuttals = ckpt.rebuttals /\ ckpt.next \in BeforeSending
            /\ ~ Returning(r, "sendClaim")
         \/ s.rebuttals = ckpt.rebuttals + 1,
         s.status = "paid" \/ (ckpt.status # "paid" /\ ~ Returning(r, "processPayout"))
  PROVE  Current' /\ Counted'
<1>1. /\ runs \in [Runs -> Run] /\ Runs = { r } /\ Counted
      /\ UNCHANGED << outbox, sends, lostSends, transfers, lostTransfers >>
      /\ ckpt.rebuttals \in Nat /\ \A k \in Rounds : k \in Nat
      /\ transfers \in Nat /\ lostTransfers \in Nat
  BY SerialFacts DEF SerialInv, GraphInv, TypeOK, world
<1>2. /\ ckpt' = s /\ runs'[r].st = s /\ runs'[r].pc # "effect"
  BY <1>1 DEF Commit, Invoke
<1>3. Current'
  BY <1>1, <1>2 DEF Current
<1>4. ASSUME NEW k \in Rounds, ToSend(k)' PROVE ToSend(k)
  <2>1. k > s.rebuttals \/ (k = s.rebuttals /\ s.next \in BeforeSending)
    BY <1>2, <1>4 DEF ToSend
  <2>2. CASE s.rebuttals = ckpt.rebuttals + 1
    BY <1>1, <2>1, <2>2 DEF ToSend
  <2>3. CASE s.rebuttals = ckpt.rebuttals /\ s.next \notin BeforeSending
    BY <2>1, <2>3 DEF ToSend
  <2>4. CASE /\ s.rebuttals = ckpt.rebuttals /\ ckpt.next \in BeforeSending
             /\ ~ Returning(r, "sendClaim")
    BY <1>1, <2>1, <2>4 DEF ToSend
  <2> QED
    BY <2>2, <2>3, <2>4
<1>5. ToPay' => ToPay
  BY <1>1, <1>2 DEF ToPay
<1>6. Counted'
  BY <1>1, <1>4, <1>5 DEF Counted
<1> QED
  BY <1>3, <1>6

\* A node has had its effect: the run keeps its copy.
LEMMA EffectKeepsCopy ==
  ASSUME OneRun, SerialInv, NEW r \in Runs, runs[r].pc # "idle", Effect(r)
  PROVE  /\ Current' /\ ckpt' = ckpt
         /\ runs'[r].pc = "effect" /\ runs'[r].st = ckpt
<1>1. /\ runs \in [Runs -> Run] /\ Runs = { r } /\ runs[r] \in Run /\ runs[r].st = ckpt
  BY SerialFacts DEF SerialInv, GraphInv, TypeOK
<1>2. /\ runs'[r].pc = "effect" /\ runs'[r].st = ckpt /\ ckpt' = ckpt
  BY <1>1 DEF Effect, Run
<1> QED
  BY <1>1, <1>2 DEF Current

-----------------------------------------------------------------------------
(* The steps. *)

LEMMA MovesSerially ==
  ASSUME OneRun, SerialInv, NEW r \in Runs,
         \/ Resume(r) \/ Return(r) \/ HumanApprovalAsks(r) \/ AwaitResponseAsks(r)
         \/ ProcessPayoutAsks(r) \/ DraftClaimRefuses(r) \/ HumanApprovalRefuses(r)
         \/ SendClaimRefuses(r) \/ AwaitResponseRefuses(r) \/ ProcessPayoutRefuses(r)
  PROVE  Current' /\ Counted' /\ Legal
<1>1. runs[r] \in Run /\ (runs[r].pc # "idle" => runs[r].st = ckpt)
  BY SerialFacts
<1>2. CASE Resume(r)
  <2>1. PICK i \in ResumeInputs : Invoke(r, ckpt, i)
    BY <1>2 DEF Resume
  <2> DEFINE run == [pc    |-> IF ckpt.next = "END" THEN "done" ELSE "step",
                     input |-> IF ckpt.next = "END" THEN "none" ELSE i,
                     st    |-> ckpt]
  <2>2. runs' = [runs EXCEPT ![r] = run] /\ run.st = ckpt
    BY <2>1 DEF Invoke
  <2>3. /\ UNCHANGED << ckpt, world >>
        /\ ~ Returning(r, "sendClaim") /\ ~ Returning(r, "processPayout")
    BY <1>2 DEF Resume, Returning, Idle
  <2> HIDE DEF run
  <2> QED
    BY <2>2, <2>3, MoveCounts
<1>3. CASE HumanApprovalAsks(r) \/ AwaitResponseAsks(r) \/ ProcessPayoutAsks(r)
  <2>1. Pause(r) /\ runs[r].pc = "step"
    BY <1>3 DEF HumanApprovalAsks, AwaitResponseAsks, ProcessPayoutAsks, At
  <2> DEFINE run == [runs[r] EXCEPT !.pc = "done"]
  <2>2. runs' = [runs EXCEPT ![r] = run] /\ UNCHANGED << ckpt, world >>
    BY <2>1 DEF Pause
  <2>3. run.st = ckpt
    BY <1>1, <2>1 DEF Run
  <2> HIDE DEF run
  <2> QED
    BY <2>1, <2>2, <2>3, MoveCounts DEF Returning
<1>4. CASE \/ Return(r) \/ DraftClaimRefuses(r) \/ HumanApprovalRefuses(r)
           \/ SendClaimRefuses(r) \/ AwaitResponseRefuses(r) \/ ProcessPayoutRefuses(r)
  <2>1. /\ runs' = [runs EXCEPT ![r] = Idle] /\ UNCHANGED << ckpt, world >>
        /\ ~ Returning(r, "sendClaim") /\ ~ Returning(r, "processPayout")
    BY <1>4 DEF Return, DraftClaimRefuses, HumanApprovalRefuses, SendClaimRefuses,
                AwaitResponseRefuses, ProcessPayoutRefuses, Refuse, At, Returning
  <2> QED
    BY <2>1, MoveCounts DEF Idle
<1> QED
  BY <1>2, <1>3, <1>4

\* Up to the draft nothing happens that the lifecycle sees.
LEMMA DraftsSerially ==
  ASSUME OneRun, SerialInv, NEW r \in Runs,
         Start(r) \/ Ingest(r) \/ CheckEligibility(r) \/ ScoreClaim(r) \/ DraftClaim(r)
  PROVE  Current' /\ Counted' /\ Legal
<1>1. /\ runs[r] \in Run /\ ckpt \in State /\ (runs[r].pc # "idle" => runs[r].st = ckpt)
      /\ StatusFitsNode(ckpt)
  BY SerialFacts DEF StateInv
<1>2. PICK s : /\ Commit(r, s) /\ UNCHANGED world
               /\ s.status = ckpt.status /\ s.rebuttals = ckpt.rebuttals
  <2>1. CASE Start(r)
    <3>1. PICK named \in BOOLEAN :
            Commit(r, [NoThread EXCEPT !.next = "ingest", !.named = named])
      BY <2>1 DEF Start
    <3> DEFINE s == [NoThread EXCEPT !.next = "ingest", !.named = named]
    <3>2. s.status = ckpt.status /\ s.rebuttals = ckpt.rebuttals
      BY <2>1 DEF Start, NoThread
    <3>3. Commit(r, s) /\ UNCHANGED world
      BY <2>1, <3>1 DEF Start
    <3> HIDE DEF s
    <3> QED
      BY <3>2, <3>3
  <2>2. CASE Ingest(r)
    <3> DEFINE s == [ckpt EXCEPT !.next = "checkEligibility"]
    <3>1. Commit(r, s) /\ UNCHANGED world
      BY <1>1, <2>2 DEF Ingest, At
    <3>2. s.status = ckpt.status /\ s.rebuttals = ckpt.rebuttals
      BY <1>1 DEF State
    <3> HIDE DEF s
    <3> QED
      BY <3>1, <3>2
  <2>3. CASE CheckEligibility(r)
    <3>1. PICK after \in { "scoreClaim", "END" } : Commit(r, [ckpt EXCEPT !.next = after])
      BY <1>1, <2>3 DEF CheckEligibility, At
    <3> DEFINE s == [ckpt EXCEPT !.next = after]
    <3>2. s.status = ckpt.status /\ s.rebuttals = ckpt.rebuttals
      BY <1>1 DEF State
    <3>3. Commit(r, s) /\ UNCHANGED world
      BY <2>3, <3>1 DEF CheckEligibility
    <3> HIDE DEF s
    <3> QED
      BY <3>2, <3>3
  <2>4. CASE ScoreClaim(r)
    <3>1. PICK strong \in BOOLEAN :
            Commit(r, [ckpt EXCEPT !.next = "draftClaim", !.strong = strong])
      BY <1>1, <2>4 DEF ScoreClaim, At
    <3> DEFINE s == [ckpt EXCEPT !.next = "draftClaim", !.strong = strong]
    <3>2. s.status = ckpt.status /\ s.rebuttals = ckpt.rebuttals
      BY <1>1 DEF State
    <3>3. Commit(r, s) /\ UNCHANGED world
      BY <2>4, <3>1 DEF ScoreClaim
    <3> HIDE DEF s
    <3> QED
      BY <3>2, <3>3
  <2>5. CASE DraftClaim(r)
    <3>1. PICK plan \in CarrierPlans : \E text \in Drafts(ckpt, plan) :
            Commit(r, [ckpt EXCEPT !.next = "humanApproval",
                                   !.auto = plan \in AutoPlans, !.draft = text])
      BY <1>1, <2>5 DEF DraftClaim, At
    <3> DEFINE auto == plan \in AutoPlans
    <3>2. PICK text \in Drafts(ckpt, plan) :
            Commit(r, [ckpt EXCEPT !.next = "humanApproval", !.auto = auto, !.draft = text])
      BY <3>1
    <3> HIDE DEF auto
    <3> DEFINE s == [ckpt EXCEPT !.next = "humanApproval", !.auto = auto, !.draft = text]
    <3>3. s.status = ckpt.status /\ s.rebuttals = ckpt.rebuttals
      BY <1>1 DEF State
    <3>4. Commit(r, s) /\ UNCHANGED world
      BY <2>5, <3>2 DEF DraftClaim
    <3> HIDE DEF s
    <3> QED
      BY <3>3, <3>4
  <2> QED
    BY <2>1, <2>2, <2>3, <2>4, <2>5
<1>3. /\ ckpt.next \in BeforeSending /\ ckpt.status # "paid"
      /\ ~ Returning(r, "sendClaim") /\ ~ Returning(r, "processPayout")
  <2>1. CASE Start(r)
    <3>1. runs[r] = Idle /\ ckpt = NoThread
      BY <2>1 DEF Start
    <3>2. runs[r].pc = "idle" /\ ckpt.next = "START"
      BY <3>1 DEF Idle, NoThread
    <3> QED
      BY <1>1, <3>2 DEF BeforeSending, StatusFitsNode, Returning
  <2>2. ASSUME NEW node \in { "ingest", "checkEligibility", "scoreClaim", "draftClaim" },
               At(r, node)
        PROVE  /\ ckpt.next \in BeforeSending /\ ckpt.status # "paid"
               /\ ~ Returning(r, "sendClaim") /\ ~ Returning(r, "processPayout")
    BY <1>1, <2>2 DEF At, BeforeSending, StatusFitsNode, Returning
  <2> QED
    BY <2>1, <2>2 DEF Ingest, CheckEligibility, ScoreClaim, DraftClaim
<1>4. Current' /\ Counted'
  BY <1>2, <1>3, CommitCounts
<1>5. Legal
  BY <1>2 DEF Legal, Seen, Commit, world
<1> QED
  BY <1>4, <1>5

\* The decision is written down before it is acted on, and is one of the three
\* the lifecycle knows.
LEMMA ApprovesSerially ==
  ASSUME OneRun, SerialInv, NEW r \in Runs,
         HumanApprovalAudits(r) \/ HumanApprovalReturns(r)
  PROVE  Current' /\ Counted' /\ Legal
<1>1. /\ runs[r] \in Run /\ ckpt \in State /\ (runs[r].pc # "idle" => runs[r].st = ckpt)
      /\ StatusFitsNode(ckpt) /\ Runs = { r } /\ Counted
  BY SerialFacts DEF StateInv
<1>2. CASE HumanApprovalAudits(r)
  <2>1. /\ Effect(r) /\ runs[r].pc = "step" /\ runs[r].st.next = "humanApproval"
        /\ UNCHANGED << outbox, sends, lostSends, transfers, lostTransfers >>
    BY <1>2 DEF HumanApprovalAudits, At
  <2>2. /\ Current' /\ ckpt' = ckpt /\ runs'[r].pc = "effect" /\ runs'[r].st = ckpt
    BY <2>1, EffectKeepsCopy
  <2>3. /\ ~ Returning(r, "sendClaim") /\ ~ Returning(r, "processPayout")
    BY <2>1 DEF Returning
  <2>4. /\ \A k \in Rounds : ToSend(k)' => ToSend(k)
        /\ ToPay' => ToPay
    BY <1>1, <2>1, <2>2, <2>3 DEF ToSend, ToPay
  <2>5. Counted'
    BY <1>1, <2>1, <2>4 DEF Counted
  <2>6. Legal
    BY <2>1, <2>2 DEF Legal, Seen
  <2> QED
    BY <2>2, <2>5, <2>6
<1>3. CASE HumanApprovalReturns(r)
  <2>1. runs[r].pc = "effect" /\ runs[r].st = ckpt /\ ckpt.next = "humanApproval"
    BY <1>1, <1>3 DEF HumanApprovalReturns, Returning
  <2>2. ckpt.status \in { "draft", "rebutting" }
    BY <1>1, <2>1 DEF StatusFitsNode
  <2> DEFINE event == DecisionEvent(runs[r])
             status == Apply(Apply(ckpt.status, "SUBMIT_FOR_APPROVAL"), event)
             approved == IF runs[r].input = "decline" THEN ckpt.approved
                                                      ELSE DecidedText(runs[r])
             s == [ckpt EXCEPT !.status = status, !.approved = approved,
                               !.next = IF status = "sent" THEN "sendClaim" ELSE "END"]
  <2>3. Commit(r, s) /\ UNCHANGED world
    BY <1>3, <2>1 DEF HumanApprovalReturns
  <2>4. event \in { "SEND", "CANNOT_AUTO_SEND", "DECLINE" }
    BY DEF DecisionEvent
  <2>5. status = Apply(Apply(ckpt.status, "SUBMIT_FOR_APPROVAL"), event)
    OBVIOUS
  <2> HIDE DEF event, status, approved
  <2>6. s.status = status /\ s.rebuttals = ckpt.rebuttals
    BY <1>1 DEF State
  <2> HIDE DEF s
  <2>7. ckpt.next \in BeforeSending /\ ckpt.status # "paid"
        /\ ~ Returning(r, "sendClaim") /\ ~ Returning(r, "processPayout")
    BY <2>1, <2>2 DEF BeforeSending, Returning
  <2>8. Current' /\ Counted'
    BY <2>3, <2>6, <2>7, CommitCounts
  <2>9. /\ ckpt'.status = Apply(Apply(ckpt.status, "SUBMIT_FOR_APPROVAL"), event)
        /\ ckpt'.rebuttals = ckpt.rebuttals /\ UNCHANGED << outbox, transfers >>
    BY <2>3, <2>5, <2>6 DEF Commit, world
  <2>10. /\ CanTransition(ckpt.status, "SUBMIT_FOR_APPROVAL")
         /\ Apply(ckpt.status, "SUBMIT_FOR_APPROVAL") = "pending_approval"
         /\ CanTransition("pending_approval", event)
    BY <2>2, <2>4, GateTransitions DEF CanTransition, Transitions
  <2>11. Lifecycle!Decide
    BY <2>4, <2>9, <2>10
       DEF Lifecycle!Decide, Lifecycle!Moves, Lifecycle!CanTransition, Lifecycle!Apply,
           Lifecycle!Transitions, CanTransition, Apply, Transitions
  <2> QED
    BY <2>8, <2>11 DEF Legal, Lifecycle!LifecycleNext
<1> QED
  BY <1>2, <1>3

\* The letter goes out while the claim is "sent", and was still to come.
LEMMA SendsSerially ==
  ASSUME OneRun, SerialInv, NEW r \in Runs,
         SendClaimDispatches(r) \/ SendClaimReturns(r)
  PROVE  Current' /\ Counted' /\ Legal
<1>1. /\ runs[r] \in Run /\ ckpt \in State /\ (runs[r].pc # "idle" => runs[r].st = ckpt)
      /\ StatusFitsNode(ckpt) /\ Runs = { r } /\ Counted
      /\ ckpt.rebuttals \in Rounds /\ ckpt.rebuttals \in Nat
      /\ \A k \in Rounds : k \in Nat /\ sends[k] \in Nat /\ lostSends[k] \in Nat
  BY SerialFacts DEF StateInv
<1>2. CASE SendClaimDispatches(r)
  <2>1. /\ Effect(r) /\ runs[r].pc = "step" /\ runs[r].st = ckpt /\ ckpt.next = "sendClaim"
        /\ ckpt.status = "sent"
        /\ outbox' = outbox \cup { [round |-> ckpt.rebuttals, text |-> ckpt.approved] }
        /\ sends' = [sends EXCEPT ![ckpt.rebuttals] = @ + 1]
        /\ UNCHANGED << lostSends, transfers, lostTransfers >>
    BY <1>1, <1>2 DEF SendClaimDispatches, At
  <2>2. /\ Current' /\ ckpt' = ckpt /\ runs'[r].pc = "effect" /\ runs'[r].st = ckpt
    BY <2>1, EffectKeepsCopy
  <2>3. ToSend(ckpt.rebuttals) /\ ToPay
    BY <1>1, <2>1 DEF ToSend, ToPay, BeforeSending, Returning
  <2>4. Returning(r, "sendClaim")'
    BY <2>1, <2>2 DEF Returning
  <2>5. ASSUME NEW k \in Rounds
        PROVE  /\ sends'[k] <= 1 + lostSends'[k]
               /\ ToSend(k)' => sends'[k] <= lostSends'[k]
    <3>1. CASE k = ckpt.rebuttals
      <4>1. sends[k] <= lostSends[k] /\ sends'[k] = sends[k] + 1
        <5>1. sends \in [Rounds -> Nat]
          BY DEF SerialInv, GraphInv, TypeOK
        <5> QED
          BY <1>1, <2>1, <2>3, <3>1, <5>1 DEF Counted
      <4>2. ~ ToSend(k)'
        BY <1>1, <2>2, <2>4, <3>1 DEF ToSend
      <4> QED
        BY <1>1, <2>1, <4>1, <4>2
    <3>2. CASE k # ckpt.rebuttals
      <4>1. sends'[k] = sends[k]
        <5>1. sends \in [Rounds -> Nat]
          BY DEF SerialInv, GraphInv, TypeOK
        <5> QED
          BY <2>1, <3>2, <5>1
      <4>2. ToSend(k)' => ToSend(k)
        BY <2>2, <3>2 DEF ToSend
      <4> QED
        BY <1>1, <2>1, <4>1, <4>2 DEF Counted
    <3> QED
      BY <3>1, <3>2
  <2>6. Counted'
    BY <1>1, <2>1, <2>3, <2>5 DEF Counted
  <2>7. Lifecycle!Mail
    <3>1. { letter.round : letter \in outbox' }
            = { letter.round : letter \in outbox } \cup { ckpt.rebuttals }
      <4> DEFINE new == [round |-> ckpt.rebuttals, text |-> ckpt.approved]
      <4>1. outbox' = outbox \cup { new } /\ new.round = ckpt.rebuttals
        BY <2>1
      <4> HIDE DEF new
      <4> QED
        BY <4>1
    <3> QED
      BY <2>1, <2>2, <3>1 DEF Lifecycle!Mail
  <2> QED
    BY <2>2, <2>6, <2>7 DEF Legal, Lifecycle!LifecycleNext
<1>3. CASE SendClaimReturns(r)
  <2>1. runs[r].pc = "effect" /\ runs[r].st = ckpt /\ ckpt.next = "sendClaim"
    BY <1>1, <1>3 DEF SendClaimReturns, Returning
  <2> DEFINE s == [ckpt EXCEPT !.next = "awaitResponse", !.receipt = TRUE]
  <2>2. Commit(r, s) /\ UNCHANGED world
    BY <1>3, <2>1 DEF SendClaimReturns
  <2>3. /\ s.status = ckpt.status /\ s.rebuttals = ckpt.rebuttals
        /\ s.next = "awaitResponse"
    BY <1>1 DEF State
  <2> HIDE DEF s
  <2>4. /\ s.next \notin BeforeSending /\ ckpt.status # "paid"
        /\ ~ Returning(r, "processPayout")
    BY <1>1, <2>1, <2>3 DEF BeforeSending, StatusFitsNode, Returning
  <2>5. Current' /\ Counted'
    BY <2>2, <2>3, <2>4, CommitCounts
  <2>6. Legal
    BY <2>2, <2>3 DEF Legal, Seen, Commit, world
  <2> QED
    BY <2>5, <2>6
<1> QED
  BY <1>2, <1>3

\* Waiting begins once the round's letter is out, and an answer is the one the
\* claim was waiting for.
LEMMA AnswersSerially ==
  ASSUME OneRun, SerialInv, NEW r \in Runs,
         AwaitResponseReturns(r) \/ ClassifyResponse(r)
  PROVE  Current' /\ Counted' /\ Legal
<1>1. /\ runs[r] \in Run /\ ckpt \in State /\ (runs[r].pc # "idle" => runs[r].st = ckpt)
      /\ StateInv(ckpt, approvals, outbox, transfers) /\ StatusFitsNode(ckpt)
  BY SerialFacts DEF StateInv
<1>2. CASE AwaitResponseReturns(r)
  <2>1. /\ runs[r].pc = "step" /\ runs[r].st = ckpt /\ ckpt.next = "awaitResponse"
        /\ CanTransition(ckpt.status, "CONFIRM_DISPATCHED")
    BY <1>1, <1>2 DEF AwaitResponseReturns, At
  <2>2. ckpt.status = "sent" /\ MailedIn(outbox, ckpt.rebuttals)
    BY <1>1, <2>1, WaitTransitions DEF StateInv, StatusFitsNode
  <2> DEFINE replied == runs[r].input = "reply"
             status == Apply(ckpt.status, "CONFIRM_DISPATCHED")
             s == [ckpt EXCEPT !.status = status, !.reply = replied,
                               !.next = IF replied THEN "classifyResponse" ELSE "escalate"]
  <2>3. Commit(r, s) /\ UNCHANGED world
    BY <1>2, <2>1 DEF AwaitResponseReturns
  <2>4. status = Apply(ckpt.status, "CONFIRM_DISPATCHED")
    OBVIOUS
  <2> HIDE DEF status, replied
  <2>5. /\ s.status = status /\ s.rebuttals = ckpt.rebuttals
        /\ s.next \in { "classifyResponse", "escalate" }
    BY <1>1 DEF State
  <2> HIDE DEF s
  <2>6. /\ s.next \notin BeforeSending /\ ckpt.status # "paid"
        /\ ~ Returning(r, "processPayout")
    BY <2>1, <2>2, <2>5 DEF BeforeSending, Returning
  <2>7. Current' /\ Counted'
    BY <2>3, <2>5, <2>6, CommitCounts
  <2>8. /\ ckpt'.status = Apply(ckpt.status, "CONFIRM_DISPATCHED")
        /\ ckpt'.rebuttals = ckpt.rebuttals /\ UNCHANGED << outbox, transfers >>
    BY <2>3, <2>4, <2>5 DEF Commit, world
  <2>9. ckpt.rebuttals \in { letter.round : letter \in outbox }
    BY <2>2 DEF MailedIn
  <2>10. Lifecycle!Wait
    BY <2>1, <2>8, <2>9
       DEF Lifecycle!Wait, Lifecycle!Move, Lifecycle!CanTransition, Lifecycle!Apply,
           Lifecycle!Transitions, CanTransition, Apply, Transitions
  <2> QED
    BY <2>7, <2>10 DEF Legal, Lifecycle!LifecycleNext
<1>3. CASE ClassifyResponse(r)
  <2>1. /\ runs[r].pc = "step" /\ runs[r].st = ckpt /\ ckpt.next = "classifyResponse"
        /\ ckpt.status = "awaiting_response"
    BY <1>1, <1>3 DEF ClassifyResponse, At, StatusFitsNode
  <2>2. PICK category \in Categories :
          Commit(r, [ckpt EXCEPT
                       !.category = category,
                       !.status   = StatusAfterClassification(@, category),
                       !.next     = RouteAfterClassification(ckpt, category)])
    BY <1>3, <2>1 DEF ClassifyResponse
  <2> DEFINE status == StatusAfterClassification(ckpt.status, category)
             after  == RouteAfterClassification(ckpt, category)
             s == [ckpt EXCEPT !.category = category, !.status = status, !.next = after]
  <2>3. Commit(r, s) /\ UNCHANGED world
    BY <1>3, <2>2 DEF ClassifyResponse
  <2>4. /\ after \in { "processPayout", "awaitResponse", "rebut", "escalate" }
        /\ status \in { ckpt.status, "accepted", "rejected" }
    BY <2>1, WaitTransitions DEF StatusAfterClassification, RouteAfterClassification
  <2> HIDE DEF status, after
  <2>5. s.status = status /\ s.rebuttals = ckpt.rebuttals /\ s.next = after
    BY <1>1 DEF State
  <2> HIDE DEF s
  <2>6. /\ s.next \notin BeforeSending /\ ckpt.status # "paid"
        /\ ~ Returning(r, "processPayout")
    BY <2>1, <2>4, <2>5 DEF BeforeSending, Returning
  <2>7. Current' /\ Counted'
    BY <2>3, <2>5, <2>6, CommitCounts
  <2>8. /\ ckpt'.status = status /\ ckpt'.rebuttals = ckpt.rebuttals
        /\ UNCHANGED << outbox, transfers >>
    BY <2>3, <2>5 DEF Commit, world
  <2>9. ASSUME status = ckpt.status PROVE Legal
    BY <2>8, <2>9 DEF Legal, Seen
  <2>10. ASSUME status \in { "accepted", "rejected" } PROVE Legal
    <3>1. Lifecycle!Answer
      BY <2>1, <2>8, <2>10
         DEF Lifecycle!Answer, Lifecycle!Move, Lifecycle!CanTransition, Lifecycle!Apply,
             Lifecycle!Transitions
    <3> QED
      BY <3>1 DEF Legal, Lifecycle!LifecycleNext
  <2> QED
    BY <2>4, <2>7, <2>9, <2>10
<1> QED
  BY <1>2, <1>3

\* A rebuttal opens the next round, in which nothing was mailed.
LEMMA RebutsSerially ==
  ASSUME OneRun, SerialInv, NEW r \in Runs, Rebut(r)
  PROVE  Current' /\ Counted' /\ Legal
<1>1. /\ runs[r].st = ckpt /\ runs[r].pc = "step" /\ ckpt.next = "rebut"
      /\ ckpt \in State /\ StatusFitsNode(ckpt)
  BY SerialFacts DEF StateInv, Rebut, At
<1>2. /\ ckpt.status = "rejected" /\ ckpt.rebuttals < MaxRebuttals
      /\ ~ Returning(r, "processPayout")
  BY <1>1 DEF StatusFitsNode, Returning
<1> DEFINE status == Apply(ckpt.status, "REBUT")
           s == [ckpt EXCEPT !.status = status, !.rebuttals = @ + 1, !.next = "draftClaim"]
<1>3. Commit(r, s) /\ UNCHANGED world
  BY <1>1 DEF Rebut
<1>4. status = "rebutting"
  BY <1>2, LateTransitions
<1> HIDE DEF status
<1>5. s.status = status /\ s.rebuttals = ckpt.rebuttals + 1
  BY <1>1 DEF State
<1> HIDE DEF s
<1>6. Current' /\ Counted'
  BY <1>2, <1>3, <1>5, CommitCounts
<1>7. /\ ckpt'.status = "rebutting" /\ ckpt'.rebuttals = ckpt.rebuttals + 1
      /\ UNCHANGED << outbox, transfers >>
  BY <1>3, <1>4, <1>5 DEF Commit, world
<1>8. Lifecycle!Rebuttal
  BY <1>2, <1>7
     DEF Lifecycle!Rebuttal, Lifecycle!Move, Lifecycle!CanTransition, Lifecycle!Apply,
         Lifecycle!Transitions
<1> QED
  BY <1>6, <1>8 DEF Legal, Lifecycle!LifecycleNext

\* The passenger takes over a claim nobody answered or that was turned down.
LEMMA EscalatesSerially ==
  ASSUME OneRun, SerialInv, NEW r \in Runs, Escalate(r)
  PROVE  Current' /\ Counted' /\ Legal
<1>1. /\ runs[r].st = ckpt /\ runs[r].pc = "step" /\ ckpt.next = "escalate"
      /\ ckpt \in State /\ StatusFitsNode(ckpt)
  BY SerialFacts DEF StateInv, Escalate, At
<1>2. /\ ckpt.status \in { "awaiting_response", "rejected" }
      /\ ~ Returning(r, "processPayout")
  BY <1>1 DEF StatusFitsNode, Returning
<1> DEFINE event == IF ckpt.status = "awaiting_response" THEN "TIMEOUT" ELSE "ESCALATE"
           status == Apply(ckpt.status, event)
           reason == EscalationReason(ckpt)
           s == [ckpt EXCEPT !.status = status, !.reason = reason, !.next = "END"]
<1>3. Commit(r, s) /\ UNCHANGED world
  BY <1>1 DEF Escalate
<1>4. status = "escalated"
  BY <1>2, LateTransitions
<1> HIDE DEF event, status, reason
<1>5. s.status = status /\ s.rebuttals = ckpt.rebuttals /\ s.next = "END"
  BY <1>1 DEF State
<1> HIDE DEF s
<1>6. Current' /\ Counted'
  BY <1>2, <1>3, <1>5, CommitCounts DEF BeforeSending
<1>7. /\ ckpt'.status = "escalated" /\ ckpt'.rebuttals = ckpt.rebuttals
      /\ UNCHANGED << outbox, transfers >>
  BY <1>3, <1>4, <1>5 DEF Commit, world
<1>8. Lifecycle!GiveUp
  BY <1>2, <1>7
     DEF Lifecycle!GiveUp, Lifecycle!Move, Lifecycle!CanTransition, Lifecycle!Apply,
         Lifecycle!Transitions
<1> QED
  BY <1>6, <1>8 DEF Legal, Lifecycle!LifecycleNext

\* Money moves for an accepted claim that was not paid yet, and "paid" follows.
LEMMA PaysSerially ==
  ASSUME OneRun, SerialInv, NEW r \in Runs,
         ProcessPayoutTransfers(r) \/ ProcessPayoutReturns(r)
  PROVE  Current' /\ Counted' /\ Legal
<1>1. /\ runs[r] \in Run /\ ckpt \in State /\ (runs[r].pc # "idle" => runs[r].st = ckpt)
      /\ RunInv(runs[r], approvals, outbox, transfers) /\ StatusFitsNode(ckpt)
      /\ Runs = { r } /\ Counted /\ transfers \in Nat /\ lostTransfers \in Nat
  BY SerialFacts DEF StateInv
<1>2. CASE ProcessPayoutTransfers(r)
  <2>1. /\ Effect(r) /\ runs[r].pc = "step" /\ runs[r].st = ckpt
        /\ ckpt.next = "processPayout" /\ ckpt.status = "accepted"
        /\ transfers' = transfers + 1
        /\ UNCHANGED << outbox, sends, lostSends, lostTransfers >>
    BY <1>1, <1>2 DEF ProcessPayoutTransfers, At, StatusFitsNode
  <2>2. /\ Current' /\ ckpt' = ckpt /\ runs'[r].pc = "effect" /\ runs'[r].st = ckpt
    BY <2>1, EffectKeepsCopy
  <2>3. transfers <= lostTransfers
    BY <1>1, <2>1 DEF Counted, ToPay, Returning
  <2>4. ~ ToPay'
    BY <2>1, <2>2 DEF ToPay, Returning
  <2>5. \A k \in Rounds : ToSend(k)' => ToSend(k)
    BY <1>1, <2>1, <2>2 DEF ToSend, BeforeSending
  <2>6. Counted'
    BY <1>1, <2>1, <2>3, <2>4, <2>5 DEF Counted
  <2>7. Lifecycle!Transfer
    BY <1>1, <2>1, <2>2 DEF Lifecycle!Transfer
  <2> QED
    BY <2>2, <2>6, <2>7 DEF Legal, Lifecycle!LifecycleNext
<1>3. CASE ProcessPayoutReturns(r)
  <2>1. /\ runs[r].pc = "effect" /\ runs[r].st = ckpt /\ ckpt.next = "processPayout"
    BY <1>1, <1>3 DEF ProcessPayoutReturns, Returning
  <2>2. ckpt.status = "accepted" /\ transfers > 0
    BY <1>1, <2>1 DEF RunInv, StatusFitsNode
  <2> DEFINE status == Apply(ckpt.status, "CONFIRM_PAYOUT")
             s == [ckpt EXCEPT !.status = status, !.next = "END"]
  <2>3. Commit(r, s) /\ UNCHANGED world
    BY <1>3, <2>1 DEF ProcessPayoutReturns
  <2>4. status = "paid"
    BY <2>2, LateTransitions
  <2> HIDE DEF status
  <2>5. s.status = status /\ s.rebuttals = ckpt.rebuttals /\ s.next = "END"
    BY <1>1 DEF State
  <2> HIDE DEF s
  <2>6. Current' /\ Counted'
    BY <2>3, <2>4, <2>5, CommitCounts DEF BeforeSending
  <2>7. /\ ckpt'.status = "paid" /\ ckpt'.rebuttals = ckpt.rebuttals
        /\ UNCHANGED << outbox, transfers >>
    BY <2>3, <2>4, <2>5 DEF Commit, world
  <2>8. Lifecycle!Settle
    BY <2>2, <2>7
       DEF Lifecycle!Settle, Lifecycle!Move, Lifecycle!CanTransition, Lifecycle!Apply,
           Lifecycle!Transitions
  <2> QED
    BY <2>6, <2>8 DEF Legal, Lifecycle!LifecycleNext
<1> QED
  BY <1>2, <1>3

\* A run that dies between effect and return is counted as one lost.
LEMMA AbortsSerially ==
  ASSUME OneRun, SerialInv, NEW r \in Runs, Abort(r)
  PROVE  Current' /\ Counted' /\ Legal
<1>1. /\ runs \in [Runs -> Run] /\ (runs[r].pc # "idle" => runs[r].st = ckpt)
      /\ Runs = { r } /\ Counted /\ ckpt.rebuttals \in Rounds
      /\ transfers \in Nat /\ lostTransfers \in Nat /\ lostSends \in [Rounds -> Nat]
      /\ \A k \in Rounds : k \in Nat /\ sends[k] \in Nat /\ lostSends[k] \in Nat
  BY SerialFacts DEF SerialInv, GraphInv, TypeOK
<1>2. /\ runs[r].st = ckpt /\ runs' = [runs EXCEPT ![r] = Idle]
      /\ UNCHANGED << ckpt, outbox, sends, transfers >>
      /\ lostSends' = IF Returning(r, "sendClaim")
                        THEN [lostSends EXCEPT ![ckpt.rebuttals] = @ + 1] ELSE lostSends
      /\ lostTransfers' = IF Returning(r, "processPayout")
                            THEN lostTransfers + 1 ELSE lostTransfers
  BY <1>1 DEF Abort
<1>3. runs'[r].pc = "idle"
  BY <1>1, <1>2 DEF Idle
<1>4. Current'
  BY <1>1, <1>3 DEF Current
<1>5. ASSUME NEW k \in Rounds
      PROVE  /\ sends'[k] <= 1 + lostSends'[k]
             /\ ToSend(k)' => sends'[k] <= lostSends'[k]
  <2>1. CASE Returning(r, "sendClaim") /\ k = ckpt.rebuttals
    <3>1. lostSends'[k] = lostSends[k] + 1
      BY <1>1, <1>2, <2>1
    <3> QED
      BY <1>1, <1>2, <3>1 DEF Counted
  <2>2. CASE ~ (Returning(r, "sendClaim") /\ k = ckpt.rebuttals)
    <3>1. lostSends'[k] = lostSends[k]
      BY <1>1, <1>2, <2>2
    <3>2. ToSend(k)' => ToSend(k)
      BY <1>1, <1>2, <2>2 DEF ToSend
    <3> QED
      BY <1>1, <1>2, <3>1, <3>2 DEF Counted
  <2> QED
    BY <2>1, <2>2
<1>6. transfers' <= 1 + lostTransfers' /\ (ToPay' => transfers' <= lostTransfers')
  BY <1>1, <1>2 DEF Counted, ToPay
<1>7. Counted'
  BY <1>5, <1>6 DEF Counted
<1>8. Legal
  BY <1>2 DEF Legal, Seen
<1> QED
  BY <1>4, <1>7, <1>8

-----------------------------------------------------------------------------
(* The theorems about invocations that do not overlap. *)

LEMMA SerialInvNext ==
  ASSUME OneRun
  PROVE  SerialInv /\ [Next]_vars => SerialInv' /\ Legal
<1> SUFFICES ASSUME SerialInv, [Next]_vars PROVE SerialInv' /\ Legal
  OBVIOUS
<1>1. GraphInv'
  BY GraphInvNext DEF SerialInv
<1>2. CASE UNCHANGED vars
  <2>1. Current' /\ Counted'
    BY <1>2 DEF SerialInv, vars, world, Current, Counted, ToSend, ToPay, Returning
  <2>2. Legal
    BY <1>2 DEF Legal, Seen, vars, world
  <2> QED
    BY <1>1, <2>1, <2>2 DEF SerialInv
<1>3. ASSUME NEW r \in Runs,
             Start(r) \/ Resume(r) \/ NodeStep(r) \/ Return(r) \/ Abort(r)
      PROVE  Current' /\ Counted' /\ Legal
  <2>1. CASE \/ Resume(r) \/ Return(r) \/ HumanApprovalAsks(r) \/ AwaitResponseAsks(r)
             \/ ProcessPayoutAsks(r) \/ DraftClaimRefuses(r) \/ HumanApprovalRefuses(r)
             \/ SendClaimRefuses(r) \/ AwaitResponseRefuses(r) \/ ProcessPayoutRefuses(r)
    BY <2>1, MovesSerially
  <2>2. CASE Start(r) \/ Ingest(r) \/ CheckEligibility(r) \/ ScoreClaim(r) \/ DraftClaim(r)
    BY <2>2, DraftsSerially
  <2>3. CASE HumanApprovalAudits(r) \/ HumanApprovalReturns(r)
    BY <2>3, ApprovesSerially
  <2>4. CASE SendClaimDispatches(r) \/ SendClaimReturns(r)
    BY <2>4, SendsSerially
  <2>5. CASE AwaitResponseReturns(r) \/ ClassifyResponse(r)
    BY <2>5, AnswersSerially
  <2>6. CASE Rebut(r)
    BY <2>6, RebutsSerially
  <2>7. CASE Escalate(r)
    BY <2>7, EscalatesSerially
  <2>8. CASE ProcessPayoutTransfers(r) \/ ProcessPayoutReturns(r)
    BY <2>8, PaysSerially
  <2>9. CASE Abort(r)
    BY <2>9, AbortsSerially
  <2> QED
    BY <1>3, <2>1, <2>2, <2>3, <2>4, <2>5, <2>6, <2>7, <2>8, <2>9 DEF NodeStep
<1> QED
  BY <1>1, <1>2, <1>3 DEF Next, SerialInv

(***************************************************************************)
(* When invocations do not overlap, a letter goes out twice in a round, or *)
(* money moves twice, only behind as many runs that died between the       *)
(* provider's acceptance and the checkpoint.                               *)
(***************************************************************************)
THEOREM Accounted ==
  ASSUME OneRun
  PROVE  Spec => []DuplicatesAccounted
<1>1. Init => SerialInv
  BY SerialInvInit
<1>2. SerialInv /\ [Next]_vars => SerialInv'
  BY SerialInvNext
<1>3. SerialInv => DuplicatesAccounted
  BY DEF SerialInv, Counted, DuplicatesAccounted
<1> QED
  BY <1>1, <1>2, <1>3, PTL DEF Spec

(***************************************************************************)
(* When invocations do not overlap, the eleven nodes, the checkpoints and  *)
(* the failures in between come to no more than the lifecycle of           *)
(* ClaimLifecycle: the pipeline implements it.                             *)
(***************************************************************************)
THEOREM Refinement ==
  ASSUME OneRun
  PROVE  Spec => ImplementsLifecycle
<1>1. Init => SerialInv /\ Lifecycle!LifecycleInit
  BY SerialInvInit DEF Init, NoThread, Lifecycle!LifecycleInit
<1>2. SerialInv /\ [Next]_vars => SerialInv' /\ Legal
  BY SerialInvNext
<1>3. Legal => [Lifecycle!LifecycleNext]_(Lifecycle!lifecycleVars)
  BY DEF Legal, Seen, Lifecycle!lifecycleVars
<1> QED
  BY <1>1, <1>2, <1>3, PTL DEF Spec, ImplementsLifecycle, Lifecycle!LifecycleSpec
=============================================================================
