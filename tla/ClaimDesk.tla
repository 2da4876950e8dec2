------------------------------ MODULE ClaimDesk ------------------------------
(***************************************************************************)
(* The operator layer over one claim (operator/tools.ts): the ownership    *)
(* row of the claims table with its mirror of the claim's status, the      *)
(* tools that start and resume the claim's thread, and forget_my_data.     *)
(*                                                                         *)
(* Every tool call is a run of ClaimGraph with some bookkeeping around it. *)
(* forget_my_data runs outside the conversation's lock, step by step       *)
(* beside whatever runs are in progress.  After an erasure that deleted    *)
(* the claim the model ends: a new claim would have a thread of its own.   *)
(***************************************************************************)
EXTENDS ClaimGraph

VARIABLES
  row,     \* status column of the claim's row, "none" without a row
  tool,    \* tool[r]: where start_claim call r is before its graph.invoke
  forget   \* where forget_my_data is, and the status it read

deskVars == << vars, row, tool, forget >>

\* The statuses whose claims forget_my_data deletes.
PRE_SEND_CLAIM_STATUSES ==
  { "draft", "pending_approval", "declined", "needs_manual_submission" }

ForgetPhases == { "idle", "listed", "thread_deleted", "done" }

DeskTypeOK ==
  /\ TypeOK
  /\ row \in Statuses \cup { "none" }
  /\ tool \in [Runs -> { "none", "create", "invoke" }]
  /\ forget \in [pc : ForgetPhases, status : Statuses \cup { "none" }]

DeskInit ==
  /\ Init
  /\ row = "none"
  /\ tool = [r \in Runs |-> "none"]
  /\ forget = [pc |-> "idle", status |-> "none"]

Free(r) == runs[r] = Idle /\ tool[r] = "none"

-----------------------------------------------------------------------------
(* start_claim *)

\* findByBookingReference finds nothing.  (If it does, start_claim returns
\* what the thread holds and changes nothing.)
StartClaimLooks(r) ==
  /\ Free(r)
  /\ row = "none"
  /\ forget.pc # "done"
  /\ tool' = [tool EXCEPT ![r] = "create"]
  /\ UNCHANGED << vars, row, forget >>

\* Mutants: no unique index on (userId, bookingReference); the row is left to
\* be written once the graph was invoked.
StartClaimCreatesTwice(r) ==
  /\ tool[r] = "create"
  /\ forget.pc # "done"
  /\ row' = "draft"
  /\ tool' = [tool EXCEPT ![r] = "invoke"]
  /\ UNCHANGED << vars, forget >>

StartClaimCreatesNoRow(r) ==
  /\ tool[r] = "create"
  /\ forget.pc # "done"
  /\ tool' = [tool EXCEPT ![r] = "invoke"]
  /\ UNCHANGED << vars, row, forget >>

\* The row is written before the graph is invoked; the unique index on
\* (userId, bookingReference) turns a second row away.
StartClaimCreates(r) ==
  /\ tool[r] = "create"
  /\ forget.pc # "done"
  /\ IF row = "none"
       THEN /\ row' = "draft"
            /\ tool' = [tool EXCEPT ![r] = "invoke"]
       ELSE /\ tool' = [tool EXCEPT ![r] = "none"]
            /\ UNCHANGED row
  /\ UNCHANGED << vars, forget >>

StartClaimInvokes(r) ==
  /\ tool[r] = "invoke"
  /\ Start(r)
  /\ tool' = [tool EXCEPT ![r] = "none"]
  /\ UNCHANGED << row, forget >>

\* The profile lookup or the process fails before the graph is invoked.
StartClaimAborts(r) ==
  /\ tool[r] # "none"
  /\ aborts < MaxAborts
  /\ aborts' = aborts + 1
  /\ tool' = [tool EXCEPT ![r] = "none"]
  /\ UNCHANGED << ckpt, runs, world, row, forget >>

-----------------------------------------------------------------------------
(* The tools that resume the thread *)

\* resolveThreadId: only with an ownership row.
DeskResume(r) ==
  /\ Free(r)
  /\ row # "none"
  /\ Resume(r)
  /\ UNCHANGED << row, tool, forget >>

DeskNode(r) ==
  /\ NodeStep(r)
  /\ UNCHANGED << row, tool, forget >>

\* Mutant: the mirror takes the wrong channel of the result.
DeskReturnMirrorsNode(r) ==
  /\ Return(r)
  /\ row' = IF row = "none" THEN row ELSE runs[r].st.next
  /\ UNCHANGED << tool, forget >>

\* updateClaimStatusMirror, reached only when graph.invoke resolved; the
\* UPDATE of a row that is gone changes nothing.  When it fails, or the process
\* dies before it, the mirror stays behind.
DeskReturn(r) ==
  /\ Return(r)
  /\ \/ row' = IF row = "none" THEN row ELSE runs[r].st.status
     \/ UNCHANGED row
  /\ UNCHANGED << tool, forget >>

\* Mutant: the mirror is written in a finally block.
DeskAbortMirrors(r) ==
  /\ Abort(r)
  /\ row' = IF row = "none" THEN row ELSE runs[r].st.status
  /\ UNCHANGED << tool, forget >>

DeskAbort(r) ==
  /\ Abort(r)
  /\ UNCHANGED << row, tool, forget >>

-----------------------------------------------------------------------------
(* forget_my_data, once confirmed *)

\* findAllForUser.
ForgetLists ==
  /\ forget.pc = "idle"
  /\ row # "none"
  /\ forget' = [pc |-> "listed", status |-> row]
  /\ UNCHANGED << vars, row, tool >>

ForgetDeletesThread ==
  /\ forget.pc = "listed"
  /\ forget.status \in PRE_SEND_CLAIM_STATUSES
  /\ ckpt' = NoThread
  /\ forget' = [forget EXCEPT !.pc = "thread_deleted"]
  /\ UNCHANGED << runs, world, aborts, row, tool >>

ForgetDeletesRow ==
  /\ forget.pc = "thread_deleted"
  /\ row' = "none"
  /\ forget' = [forget EXCEPT !.pc = "done"]
  /\ UNCHANGED << vars, tool >>

ForgetKeeps ==
  /\ forget.pc = "listed"
  /\ forget.status \notin PRE_SEND_CLAIM_STATUSES
  /\ forget' = [forget EXCEPT !.pc = "done"]
  /\ UNCHANGED << vars, row, tool >>

-----------------------------------------------------------------------------
ToolStep(r) ==
  \/ StartClaimCreates(r) \/ StartClaimInvokes(r)
  \/ DeskNode(r) \/ DeskReturn(r)

DeskNext ==
  \/ \E r \in Runs :
       \/ StartClaimLooks(r) \/ DeskResume(r) \/ ToolStep(r)
       \/ StartClaimAborts(r) \/ DeskAbort(r)
  \/ ForgetLists \/ ForgetDeletesThread \/ ForgetDeletesRow \/ ForgetKeeps

DeskSpec == DeskInit /\ [][DeskNext]_deskVars

-----------------------------------------------------------------------------
(***************************************************************************)
(* A claim that forget_my_data keeps "because it was actually sent" was    *)
(* sent: the mirror is never ahead of the outbox, whatever fails or runs   *)
(* beside it (updateClaimStatusMirror only after graph.invoke resolved).   *)
(***************************************************************************)
KeptClaimsWereSent ==
  forget.pc = "done" /\ row # "none" => outbox # {}

(***************************************************************************)
(* Two start_claim calls for one booking never both get to invoke the      *)
(* graph, and the one that does finds no thread of that booking            *)
(* (check-then-create in startClaim, the unique index behind it).          *)
(***************************************************************************)
OneFilingPerBooking ==
  \A r \in Runs :
    tool[r] = "invoke" =>
      /\ forget.pc = "done" \/ ckpt = NoThread
      /\ \A other \in Runs \ { r } : tool[other] # "invoke"

(***************************************************************************)
(* A thread has an owner as long as nothing was erased: no failure locks   *)
(* the passenger out of a claim that exists (row before graph.invoke).     *)
(***************************************************************************)
ThreadHasOwner ==
  ckpt # NoThread /\ forget.pc # "done" => row # "none"
=============================================================================
