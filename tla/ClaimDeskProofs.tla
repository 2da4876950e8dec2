--------------------------- MODULE ClaimDeskProofs ---------------------------
(***************************************************************************)
(* Proofs about ClaimDesk, for any number of tool calls at once, any bound *)
(* on the rebuttals and on the failures, any carriers and resume values.   *)
(*                                                                         *)
(* Erasing a thread puts the checkpoint where it was before the first run, *)
(* so GraphInv, which holds beside any number of runs, holds beside        *)
(* forget_my_data as well.  DeskInv adds what the row, the tools and the   *)
(* erasure know of the thread.                                             *)
(***************************************************************************)
EXTENDS ClaimDesk, ClaimGraphProofs

\* An invocation resolves at the end of the graph or at a node that asks.
Asking == { "END", "humanApproval", "awaitResponse", "processPayout" }
Resolved(run) == run.pc = "done" => run.st.next \in Asking

DeskTyped ==
  /\ row \in Statuses \cup { "none" }
  /\ tool \in [Runs -> { "none", "create", "invoke" }]
  /\ forget \in [pc : ForgetPhases, status : Statuses \cup { "none" }]

\* Until an erasure is over, no row means that nothing was begun.
Unfiled == row = "none" =>
  /\ ckpt = NoThread
  /\ \A r \in Runs : runs[r] = Idle /\ tool[r] # "invoke"
  /\ forget.pc = "idle"

\* Whoever is about to invoke the graph is the only one.
Filing ==
  \A r \in Runs : tool[r] = "invoke" =>
    /\ \A other \in Runs \ { r } : tool[other] # "invoke"
    /\ forget.pc # "done" => ckpt = NoThread /\ \A q \in Runs : runs[q] = Idle

\* A status in the row, or read from it, is not ahead of the outbox.
Backed(status) == status \in PRE_SEND_CLAIM_STATUSES \cup { "none" } \/ outbox # {}

DeskInv ==
  /\ GraphInv
  /\ DeskTyped
  /\ forget.pc # "done" => Unfiled
  /\ Filing
  /\ \A r \in Runs : Resolved(runs[r])
  /\ Backed(row) /\ Backed(forget.status)
  /\ forget.pc = "listed" => forget.status # "none"
  /\ forget.pc = "done" /\ row # "none" => outbox # {}

-----------------------------------------------------------------------------
(* What the steps of a run do, as far as the desk is concerned. *)

\* Only r's run moves, and nothing that was mailed is taken back.
Running(r) ==
  /\ \A other \in Runs \ { r } : runs'[other] = runs[other]
  /\ Resolved(runs'[r])
  /\ outbox \subseteq outbox'

LEMMA CommitRuns ==
  ASSUME GraphInv, NEW r \in Runs, NEW s, Commit(r, s), UNCHANGED world
  PROVE  Running(r)
<1>1. runs \in [Runs -> Run]
  BY DEF GraphInv, TypeOK
<1>2. runs' = [runs EXCEPT ![r] = [pc    |-> IF s.next = "END" THEN "done" ELSE "step",
                                   input |-> IF s.next = "END" THEN "none" ELSE "none",
                                   st    |-> s]]
  BY DEF Commit, Invoke
<1>3. runs'[r].pc = "done" => runs'[r].st.next = "END"
  BY <1>1, <1>2
<1> QED
  BY <1>1, <1>2, <1>3 DEF Running, Resolved, Asking, world

LEMMA IdleRuns ==
  ASSUME GraphInv, NEW r \in Runs, runs' = [runs EXCEPT ![r] = Idle], UNCHANGED outbox
  PROVE  Running(r)
<1>1. runs \in [Runs -> Run]
  BY DEF GraphInv, TypeOK
<1>2. runs'[r].pc = "idle"
  BY <1>1 DEF Idle
<1> QED
  BY <1>1, <1>2 DEF Running, Resolved

LEMMA PauseRuns ==
  ASSUME GraphInv, NEW r \in Runs, Pause(r), runs[r].st.next \in Asking
  PROVE  Running(r)
<1>1. runs \in [Runs -> Run] /\ runs[r] \in Run
  BY DEF GraphInv, TypeOK
<1>2. runs'[r].st = runs[r].st
  BY <1>1 DEF Pause, Run
<1> QED
  BY <1>1, <1>2 DEF Running, Resolved, Pause, world

LEMMA EffectRuns ==
  ASSUME GraphInv, NEW r \in Runs, Effect(r), outbox \subseteq outbox'
  PROVE  Running(r)
<1>1. runs \in [Runs -> Run] /\ runs[r] \in Run
  BY DEF GraphInv, TypeOK
<1>2. runs'[r].pc = "effect"
  BY <1>1 DEF Effect, Run
<1> QED
  BY <1>1, <1>2 DEF Running, Resolved, Effect

\* A node runs in a run that is not idle.
LEMMA NodeRuns ==
  ASSUME GraphInv, NEW r \in Runs, NodeStep(r)
  PROVE  Running(r) /\ runs[r] # Idle
<1>1. runs[r].pc \in { "step", "effect" }
  BY DEF NodeStep, Ingest, CheckEligibility, ScoreClaim, DraftClaim, DraftClaimRefuses,
         HumanApprovalAsks, HumanApprovalAudits, HumanApprovalReturns,
         HumanApprovalRefuses, SendClaimDispatches, SendClaimReturns, SendClaimRefuses,
         AwaitResponseAsks, AwaitResponseReturns, AwaitResponseRefuses,
         ClassifyResponse, Rebut, Escalate, ProcessPayoutAsks, ProcessPayoutTransfers,
         ProcessPayoutReturns, ProcessPayoutRefuses, At, Returning
<1>2. runs[r] # Idle
  BY <1>1 DEF Idle
<1>3. CASE \/ Ingest(r) \/ CheckEligibility(r) \/ ScoreClaim(r) \/ DraftClaim(r)
           \/ HumanApprovalReturns(r) \/ SendClaimReturns(r) \/ AwaitResponseReturns(r)
           \/ ClassifyResponse(r) \/ Rebut(r) \/ Escalate(r) \/ ProcessPayoutReturns(r)
  <2>1. (\E s : Commit(r, s)) /\ UNCHANGED world
    BY <1>3 DEF Ingest, CheckEligibility, ScoreClaim, DraftClaim, HumanApprovalReturns,
                SendClaimReturns, AwaitResponseReturns, ClassifyResponse, Rebut, Escalate,
                ProcessPayoutReturns
  <2> QED
    BY <1>2, <2>1, CommitRuns
<1>4. CASE HumanApprovalAsks(r) \/ AwaitResponseAsks(r) \/ ProcessPayoutAsks(r)
  <2>1. Pause(r) /\ runs[r].st.next \in Asking
    BY <1>4 DEF HumanApprovalAsks, AwaitResponseAsks, ProcessPayoutAsks, At, Asking
  <2> QED
    BY <1>2, <2>1, PauseRuns
<1>5. CASE HumanApprovalAudits(r) \/ SendClaimDispatches(r) \/ ProcessPayoutTransfers(r)
  <2>1. Effect(r) /\ outbox \subseteq outbox'
    BY <1>5 DEF HumanApprovalAudits, SendClaimDispatches, ProcessPayoutTransfers
  <2> QED
    BY <1>2, <2>1, EffectRuns
<1>6. CASE \/ DraftClaimRefuses(r) \/ HumanApprovalRefuses(r) \/ SendClaimRefuses(r)
           \/ AwaitResponseRefuses(r) \/ ProcessPayoutRefuses(r)
  <2>1. runs' = [runs EXCEPT ![r] = Idle] /\ UNCHANGED outbox
    BY <1>6 DEF DraftClaimRefuses, HumanApprovalRefuses, SendClaimRefuses,
                AwaitResponseRefuses, ProcessPayoutRefuses, Refuse, world
  <2> QED
    BY <1>2, <2>1, IdleRuns
<1> QED
  BY <1>3, <1>4, <1>5, <1>6 DEF NodeStep

\* A status the graph rests at is no further than the letters.
LEMMA RestBacked ==
  ASSUME GraphInv, NEW r \in Runs, runs[r].pc = "done", Resolved(runs[r])
  PROVE  Backed(runs[r].st.status) /\ runs[r].st.status \in Statuses
<1> DEFINE s == runs[r].st
<1>1. s \in State /\ StateInv(s, approvals, outbox, transfers)
  BY CopyFacts
<1>2. s.status \in Statuses /\ s.rebuttals \in Rounds
  BY <1>1 DEF State
<1>3. StatusFitsNode(s) /\ s.next \in Asking
  BY <1>1 DEF StateInv, Resolved
<1>4. ASSUME NEW round \in Rounds, MailedIn(outbox, round)
      PROVE  outbox # {}
  BY <1>4 DEF MailedIn
<1>5. CASE s.status \in { "awaiting_response", "rejected", "accepted", "paid", "escalated" }
  <2>1. MailedIn(outbox, s.rebuttals)
    BY <1>1, <1>2, <1>5 DEF StateInv, SaysMailed
  <2> QED
    BY <1>2, <1>4, <2>1 DEF Backed
<1>6. CASE s.status = "sent"
  <2>1. s.next = "awaitResponse"
    BY <1>3, <1>6 DEF StatusFitsNode, Asking
  <2> QED
    BY <1>1, <1>2, <1>4, <2>1 DEF Backed, StateInv
<1>7. CASE s.status = "rebutting"
  <2>1. s.rebuttals > 0
    BY <1>3, <1>7 DEF StatusFitsNode, Asking
  <2>2. s.rebuttals - 1 \in Rounds /\ (s.rebuttals - 1) + 1 = s.rebuttals
    BY <1>2, <2>1, MaxRebuttalsAssumption DEF Rounds
  <2>3. MailedIn(outbox, s.rebuttals - 1)
    BY <1>1, <1>7, <2>2 DEF StateInv, SaysMailed
  <2> QED
    BY <1>2, <1>4, <2>2, <2>3 DEF Backed
<1>8. CASE s.status \in PRE_SEND_CLAIM_STATUSES
  BY <1>2, <1>8 DEF Backed
<1> QED
  BY <1>2, <1>5, <1>6, <1>7, <1>8 DEF Statuses, PRE_SEND_CLAIM_STATUSES

-----------------------------------------------------------------------------
(* GraphInv beside the desk. *)

\* A step of the desk that is a step of the graph.
LEMMA GraphStep ==
  ASSUME GraphInv, NEW r \in Runs,
         Start(r) \/ Resume(r) \/ NodeStep(r) \/ Return(r) \/ Abort(r)
  PROVE  GraphInv'
BY GraphInvNext DEF Next

\* Only the failures are counted.
LEMMA CountingPreserves ==
  ASSUME GraphInv, UNCHANGED << ckpt, runs, world >>,
         aborts < MaxAborts, aborts' = aborts + 1
  PROVE  GraphInv'
<1>1. aborts' \in 0 .. MaxAborts
  BY MaxAbortsAssumption DEF GraphInv, TypeOK
<1> QED
  BY <1>1 DEF GraphInv, TypeOK, ApprovedBeforeDispatch, world

\* Deleting the thread takes the checkpoint back to where nothing was claimed.
LEMMA ErasingPreserves ==
  ASSUME GraphInv, ckpt' = NoThread, UNCHANGED << runs, world, aborts >>
  PROVE  GraphInv'
<1>1. TypeOK'
  BY NoThreadIdle DEF GraphInv, TypeOK, world
<1>2. StateInv(NoThread, approvals, outbox, transfers)
  BY DEF StateInv, NoThread, StatusFitsNode, SaysMailed
<1> QED
  BY <1>1, <1>2 DEF GraphInv, ApprovedBeforeDispatch, world

-----------------------------------------------------------------------------
(* The steps of the desk. *)

\* What is backed stays so while the outbox grows.
LEMMA StaysBacked ==
  ASSUME DeskInv, outbox \subseteq outbox',
         row' \in { row, "none" }, forget'.status \in { forget.status, row }
  PROVE  Backed(row)' /\ Backed(forget.status)'
BY DEF DeskInv, Backed

LEMMA DeskInvInit == DeskInit => DeskInv
<1> SUFFICES ASSUME DeskInit PROVE DeskInv
  OBVIOUS
<1>1. GraphInv
  BY GraphInvInit DEF DeskInit
<1>2. DeskTyped /\ Filing /\ Unfiled /\ Backed(row) /\ Backed(forget.status)
  BY DEF DeskInit, Init, DeskTyped, Filing, Unfiled, Backed, ForgetPhases
<1>3. \A r \in Runs : Resolved(runs[r])
  BY DEF DeskInit, Init, Resolved, Idle
<1>4. forget.pc = "idle"
  BY DEF DeskInit
<1> QED
  BY <1>1, <1>2, <1>3, <1>4 DEF DeskInv

\* Only one start_claim gets to invoke the graph: the first that finds no row
\* writes it.
LEMMA FilesOnce ==
  ASSUME DeskInv, NEW r \in Runs,
         StartClaimLooks(r) \/ StartClaimCreates(r) \/ StartClaimAborts(r)
  PROVE  DeskInv'
<1>1. UNCHANGED << ckpt, runs, world, forget >>
  BY DEF StartClaimLooks, StartClaimCreates, StartClaimAborts, vars
<1>2. GraphInv'
  <2>1. CASE StartClaimAborts(r)
    BY <2>1, CountingPreserves DEF StartClaimAborts, DeskInv, world
  <2>2. CASE UNCHANGED vars
    BY <2>2, GraphInvNext DEF DeskInv
  <2> QED
    BY <2>1, <2>2 DEF StartClaimLooks, StartClaimCreates
<1>3. tool \in [Runs -> { "none", "create", "invoke" }]
  BY DEF DeskInv, DeskTyped
<1>4. CASE \/ /\ row' = row
              /\ \E t \in { "none", "create" } : tool' = [tool EXCEPT ![r] = t]
  <2>1. \A q \in Runs : tool'[q] = "invoke" => tool[q] = "invoke"
    BY <1>3, <1>4
  <2>2. DeskTyped'
    BY <1>1, <1>3, <1>4 DEF DeskInv, DeskTyped
  <2>3. Filing' /\ (Unfiled => Unfiled')
    BY <1>1, <1>4, <2>1 DEF DeskInv, Filing, Unfiled
  <2> QED
    BY <1>1, <1>2, <1>4, <2>2, <2>3 DEF DeskInv, Backed, Resolved, world
<1>5. CASE /\ row = "none" /\ row' = "draft" /\ forget.pc # "done"
           /\ tool' = [tool EXCEPT ![r] = "invoke"]
  <2>1. /\ ckpt = NoThread /\ \A q \in Runs : runs[q] = Idle /\ tool[q] # "invoke"
    BY <1>5 DEF DeskInv, Unfiled
  <2>2. DeskTyped'
    BY <1>1, <1>3, <1>5 DEF DeskInv, DeskTyped, Statuses
  <2>3. Filing' /\ Unfiled'
    BY <1>1, <1>3, <1>5, <2>1 DEF Filing, Unfiled
  <2>4. Backed(row)'
    BY <1>5 DEF Backed, PRE_SEND_CLAIM_STATUSES
  <2> QED
    BY <1>1, <1>2, <1>5, <2>2, <2>3, <2>4 DEF DeskInv, Backed, Resolved, world
<1> QED
  BY <1>4, <1>5 DEF StartClaimLooks, StartClaimCreates, StartClaimAborts

\* The thread is begun by the one that wrote the row.
LEMMA InvokesOnce ==
  ASSUME DeskInv, NEW r \in Runs, StartClaimInvokes(r)
  PROVE  DeskInv'
<1>1. /\ Start(r) /\ tool[r] = "invoke" /\ tool' = [tool EXCEPT ![r] = "none"]
      /\ UNCHANGED << row, forget >>
  BY DEF StartClaimInvokes
<1>2. GraphInv' /\ Running(r)
  <2>1. (\E s : Commit(r, s)) /\ UNCHANGED world
    BY <1>1 DEF Start
  <2> QED
    BY <1>1, <2>1, GraphStep, CommitRuns DEF DeskInv
<1>3. tool \in [Runs -> { "none", "create", "invoke" }]
  BY DEF DeskInv, DeskTyped
<1>4. \A q \in Runs : tool'[q] # "invoke"
  BY <1>1, <1>3 DEF DeskInv, Filing
<1>5. DeskTyped' /\ Filing'
  BY <1>1, <1>3, <1>4 DEF DeskInv, DeskTyped, Filing
<1>6. forget.pc # "done" => row # "none"
  BY <1>1 DEF DeskInv, Unfiled
<1>7. \A q \in Runs : Resolved(runs'[q])
  BY <1>2 DEF DeskInv, Running
<1>8. Backed(row)' /\ Backed(forget.status)'
  BY <1>1, <1>2, StaysBacked DEF Running
<1> QED
  BY <1>1, <1>2, <1>5, <1>6, <1>7, <1>8 DEF DeskInv, Unfiled, Running

\* A run of a thread that has its row.
LEMMA RunsFiled ==
  ASSUME DeskInv, NEW r \in Runs,
         DeskResume(r) \/ DeskNode(r) \/ DeskReturn(r) \/ DeskAbort(r)
  PROVE  DeskInv'
<1>1. UNCHANGED << tool, forget >>
  BY DEF DeskResume, DeskNode, DeskReturn, DeskAbort
<1>2. runs \in [Runs -> Run] /\ GraphInv
  BY DEF DeskInv, GraphInv, TypeOK
<1>3. GraphInv'
  BY <1>2, GraphStep DEF DeskResume, DeskNode, DeskReturn, DeskAbort
<1>4. Running(r)
  <2>1. CASE DeskNode(r)
    BY <1>2, <2>1, NodeRuns DEF DeskNode
  <2>2. CASE DeskReturn(r) \/ DeskAbort(r)
    <3>1. runs' = [runs EXCEPT ![r] = Idle] /\ UNCHANGED outbox
      BY <2>2 DEF DeskReturn, DeskAbort, Return, Abort, world
    <3> QED
      BY <1>2, <3>1, IdleRuns
  <2>3. CASE DeskResume(r)
    <3>1. PICK i \in ResumeInputs : Invoke(r, ckpt, i) /\ UNCHANGED world
      BY <2>3 DEF DeskResume, Resume
    <3>2. runs' = [runs EXCEPT ![r] = [pc    |-> IF ckpt.next = "END" THEN "done" ELSE "step",
                                       input |-> IF ckpt.next = "END" THEN "none" ELSE i,
                                       st    |-> ckpt]]
      BY <3>1 DEF Invoke
    <3>3. runs'[r].pc = "done" => runs'[r].st.next = "END"
      BY <1>2, <3>2
    <3> QED
      BY <1>2, <3>1, <3>2, <3>3 DEF Running, Resolved, Asking, world
  <2> QED
    BY <2>1, <2>2, <2>3
<1>5. runs[r] # Idle \/ ckpt # NoThread
  BY <1>2, NodeRuns
     DEF DeskResume, DeskNode, DeskReturn, DeskAbort, Resume, Return, Abort, Idle
<1>6. forget.pc # "done" => row # "none" /\ \A q \in Runs : tool[q] # "invoke"
  BY <1>5 DEF DeskInv, Unfiled, Filing
<1>7. DeskTyped' /\ Backed(row)' /\ (row' = "none" <=> row = "none")
  <2>1. CASE row' = row
    <3>1. forget' = forget /\ tool' = tool
      BY <1>1
    <3> QED
      BY <2>1, <3>1, <1>4, StaysBacked DEF DeskInv, DeskTyped, Running
  <2>2. CASE DeskReturn(r) /\ row # "none" /\ row' # row
    <3>1. runs[r].pc = "done" /\ row' = runs[r].st.status /\ UNCHANGED outbox
      BY <2>2 DEF DeskReturn, Return, world
    <3>2. Backed(runs[r].st.status) /\ runs[r].st.status \in Statuses
      BY <1>2, <3>1, RestBacked DEF DeskInv
    <3> QED
      BY <1>1, <2>2, <3>1, <3>2 DEF DeskInv, DeskTyped, Backed, Statuses
  <2> QED
    BY <2>1, <2>2 DEF DeskResume, DeskNode, DeskReturn, DeskAbort
<1>8. Backed(forget.status)'
  BY <1>1, <1>4 DEF DeskInv, Backed, Running
<1>9. Filing'
  BY <1>1, <1>6 DEF DeskInv, Filing
<1>10. \A q \in Runs : Resolved(runs'[q])
  BY <1>4 DEF DeskInv, Running
<1> QED
  BY <1>1, <1>3, <1>4, <1>6, <1>7, <1>8, <1>9, <1>10 DEF DeskInv, Unfiled, Running

\* The erasure keeps what was sent, and deletes the row last.
LEMMA Forgets ==
  ASSUME DeskInv,
         ForgetLists \/ ForgetDeletesThread \/ ForgetDeletesRow \/ ForgetKeeps
  PROVE  DeskInv'
<1>1. UNCHANGED << runs, world, tool >>
  BY DEF ForgetLists, ForgetDeletesThread, ForgetDeletesRow, ForgetKeeps, vars
<1>2. GraphInv'
  <2>1. CASE ForgetDeletesThread
    BY <2>1, ErasingPreserves DEF ForgetDeletesThread, DeskInv, world
  <2>2. CASE UNCHANGED vars
    BY <2>2, GraphInvNext DEF DeskInv
  <2> QED
    BY <2>1, <2>2 DEF ForgetLists, ForgetDeletesRow, ForgetKeeps
<1>3. /\ row \in Statuses \cup { "none" }
      /\ forget \in [pc : ForgetPhases, status : Statuses \cup { "none" }]
  BY DEF DeskInv, DeskTyped
<1>4. /\ row' \in { row, "none" } /\ (row' = row \/ forget'.pc = "done")
      /\ forget' \in [pc : ForgetPhases, status : Statuses \cup { "none" }]
      /\ forget'.status \in { forget.status, row } /\ forget.pc # "done"
  BY <1>3 DEF ForgetLists, ForgetDeletesThread, ForgetDeletesRow, ForgetKeeps, ForgetPhases
<1>5. row # "none" \/ forget'.pc = "done"
  BY DEF ForgetLists, ForgetDeletesThread, ForgetDeletesRow, ForgetKeeps, DeskInv, Unfiled
<1>6. ckpt' \in { ckpt, NoThread }
  BY DEF ForgetLists, ForgetDeletesThread, ForgetDeletesRow, ForgetKeeps, vars
<1>7. DeskTyped' /\ Filing'
  BY <1>1, <1>3, <1>4, <1>6 DEF DeskInv, DeskTyped, Filing
<1>8. Backed(row)' /\ Backed(forget.status)'
  BY <1>1, <1>4, StaysBacked DEF world
<1>9. forget'.pc # "done" => Unfiled'
  BY <1>4, <1>5 DEF Unfiled
<1>10. forget'.pc = "done" /\ row' # "none" => outbox' # {}
  <2>1. CASE ForgetKeeps
    <3>1. /\ Backed(forget.status)
          /\ forget.status \notin PRE_SEND_CLAIM_STATUSES \cup { "none" }
      BY <2>1 DEF ForgetKeeps, DeskInv, PRE_SEND_CLAIM_STATUSES
    <3> QED
      BY <1>1, <3>1 DEF Backed, world
  <2>2. CASE ~ ForgetKeeps
    BY <1>3, <2>2 DEF ForgetLists, ForgetDeletesThread, ForgetDeletesRow
  <2> QED
    BY <2>1, <2>2
<1>11. forget'.pc = "listed" => forget'.status # "none"
  BY <1>3, <1>4
     DEF ForgetLists, ForgetDeletesThread, ForgetDeletesRow, ForgetKeeps, DeskInv
<1> QED
  BY <1>1, <1>2, <1>7, <1>8, <1>9, <1>10, <1>11 DEF DeskInv, Resolved

-----------------------------------------------------------------------------
(* The theorems. *)

LEMMA DeskInvNext == DeskInv /\ [DeskNext]_deskVars => DeskInv'
<1> SUFFICES ASSUME DeskInv, [DeskNext]_deskVars PROVE DeskInv'
  OBVIOUS
<1>1. CASE UNCHANGED deskVars
  <2>1. UNCHANGED << vars, row, tool, forget >> /\ UNCHANGED << ckpt, runs, outbox >>
    BY <1>1 DEF deskVars, vars, world
  <2>2. GraphInv'
    BY <2>1, GraphInvNext DEF DeskInv
  <2> QED
    BY <2>1, <2>2 DEF DeskInv, DeskTyped, Unfiled, Filing, Resolved, Backed
<1>2. ASSUME NEW r \in Runs,
             \/ StartClaimLooks(r) \/ DeskResume(r) \/ ToolStep(r)
             \/ StartClaimAborts(r) \/ DeskAbort(r)
      PROVE  DeskInv'
  BY <1>2, FilesOnce, InvokesOnce, RunsFiled DEF ToolStep
<1>3. CASE ForgetLists \/ ForgetDeletesThread \/ ForgetDeletesRow \/ ForgetKeeps
  BY <1>3, Forgets
<1> QED
  BY <1>1, <1>2, <1>3 DEF DeskNext

(***************************************************************************)
(* DeskInv always holds: the row, the tools and the erasure fit the thread *)
(* and the outbox, whatever runs at once and wherever it dies.             *)
(***************************************************************************)
THEOREM DeskInvariance == DeskSpec => []DeskInv
<1> QED
  BY DeskInvInit, DeskInvNext, PTL DEF DeskSpec

(***************************************************************************)
(* The pipeline and the desk around it keep their types; in particular the *)
(* mirror in the claims table only ever holds a status.                    *)
(***************************************************************************)
THEOREM DeskTypes == DeskSpec => []DeskTypeOK
<1>1. DeskInv => DeskTypeOK
  BY DEF DeskInv, DeskTyped, GraphInv, DeskTypeOK
<1> QED
  BY <1>1, DeskInvariance, PTL

(***************************************************************************)
(* A claim that forget_my_data keeps as sent has a letter in the outbox.   *)
(***************************************************************************)
THEOREM KeptWereSent == DeskSpec => []KeptClaimsWereSent
<1>1. DeskInv => KeptClaimsWereSent
  BY DEF DeskInv, KeptClaimsWereSent
<1> QED
  BY <1>1, DeskInvariance, PTL

(***************************************************************************)
(* Of any number of start_claim calls for a booking at once, one invokes   *)
(* the graph, and it finds no thread.                                      *)
(***************************************************************************)
THEOREM OneFiling == DeskSpec => []OneFilingPerBooking
<1>1. DeskInv => OneFilingPerBooking
  BY DEF DeskInv, Filing, OneFilingPerBooking
<1> QED
  BY <1>1, DeskInvariance, PTL

(***************************************************************************)
(* Until an erasure is over, a thread that exists has its row.             *)
(***************************************************************************)
THEOREM Owned == DeskSpec => []ThreadHasOwner
<1>1. DeskInv => ThreadHasOwner
  BY DEF DeskInv, Unfiled, ThreadHasOwner
<1> QED
  BY <1>1, DeskInvariance, PTL

(***************************************************************************)
(* The approval gate holds beside the desk too: an erasure in the middle   *)
(* of a run does not let a letter out that nobody approved.                *)
(***************************************************************************)
THEOREM ErasureKeepsGate == DeskSpec => []ApprovedBeforeDispatch
<1>1. DeskInv => ApprovedBeforeDispatch
  BY DEF DeskInv, GraphInv
<1> QED
  BY <1>1, DeskInvariance, PTL

(***************************************************************************)
(* Nor does it make the status claim what did not happen, or leave a run   *)
(* in progress at a node whose transition its status does not allow: the   *)
(* thread it deletes may come back, but only as some run had it.           *)
(***************************************************************************)
THEOREM ErasureKeepsStatus == DeskSpec => [](StatusBackedByWorld /\ NodesFitStatus)
<1>1. DeskInv => StatusBackedByWorld /\ NodesFitStatus
  BY InvIsHonest, InvFitsNodes DEF DeskInv
<1> QED
  BY <1>1, DeskInvariance, PTL
=============================================================================
