---------------------------- MODULE ClaimLifecycle ----------------------------
(***************************************************************************)
(* What the pipeline promises about one claim, with no nodes, checkpoints  *)
(* or runs: the doc comments of domain/claim/state-machine.ts,             *)
(* nodes/human-approval.node.ts and edges/routing.ts as a specification.   *)
(*                                                                         *)
(*  - Only the approval gate leads to "sent", and a rebuttal passes through *)
(*    the same gate as the first letter.                                   *)
(*  - A round's letter reaches the carrier only while the claim is "sent", *)
(*    and the claim waits for an answer only once it has.                  *)
(*  - A rejection is rebutted at most MaxRebuttals times.                  *)
(*  - Money moves only for an accepted claim, and "paid" means it has.     *)
(*  - declined, needs_manual_submission, escalated and paid are final.     *)
(***************************************************************************)
EXTENDS Naturals, ClaimStatusMachine

CONSTANT MaxRebuttals

VARIABLES
  status,   \* the claim's status between two steps of the pipeline
  round,    \* how many rebuttals have been decided on
  mailed,   \* the rounds whose letter the carrier has been sent
  paidOut   \* the passenger's share has been transferred

lifecycleVars == << status, round, mailed, paidOut >>

LifecycleInit ==
  /\ status = "draft"
  /\ round = 0
  /\ mailed = {}
  /\ paidOut = FALSE

\* The events are legal one after the other and take the status there.
Moves(first, second) ==
  LET pending == Apply(status, first)
  IN  /\ CanTransition(status, first)
      /\ CanTransition(pending, second)
      /\ status' = Apply(pending, second)

Move(event) ==
  /\ CanTransition(status, event)
  /\ status' = Apply(status, event)

Decide ==
  /\ \E verdict \in { "SEND", "CANNOT_AUTO_SEND", "DECLINE" } :
       Moves("SUBMIT_FOR_APPROVAL", verdict)
  /\ UNCHANGED << round, mailed, paidOut >>

Mail ==
  /\ status = "sent"
  /\ mailed' = mailed \cup { round }
  /\ UNCHANGED << status, round, paidOut >>

Wait ==
  /\ round \in mailed
  /\ Move("CONFIRM_DISPATCHED")
  /\ UNCHANGED << round, mailed, paidOut >>

Answer ==
  /\ Move("RECEIVE_ACCEPTANCE") \/ Move("RECEIVE_REJECTION")
  /\ UNCHANGED << round, mailed, paidOut >>

Rebuttal ==
  /\ round < MaxRebuttals
  /\ Move("REBUT")
  /\ round' = round + 1
  /\ UNCHANGED << mailed, paidOut >>

GiveUp ==
  /\ Move("TIMEOUT") \/ Move("ESCALATE")
  /\ UNCHANGED << round, mailed, paidOut >>

Transfer ==
  /\ status = "accepted"
  /\ paidOut' = TRUE
  /\ UNCHANGED << status, round, mailed >>

Settle ==
  /\ paidOut
  /\ Move("CONFIRM_PAYOUT")
  /\ UNCHANGED << round, mailed, paidOut >>

LifecycleNext ==
  Decide \/ Mail \/ Wait \/ Answer \/ Rebuttal \/ GiveUp \/ Transfer \/ Settle

LifecycleSpec == LifecycleInit /\ [][LifecycleNext]_lifecycleVars

=============================================================================
