------------------------- MODULE ClaimStatusMachine -------------------------
(***************************************************************************)
(* The legal status transitions of a claim, as the table of                *)
(* domain/claim/state-machine.ts has them: a record of records, indexed by *)
(* the status and then by the event.  A pair that is missing from the      *)
(* table is an IllegalTransitionError in the code.                         *)
(***************************************************************************)

Statuses ==
  { "draft", "pending_approval", "declined", "needs_manual_submission",
    "sent", "awaiting_response", "rejected", "rebutting", "escalated",
    "accepted", "paid" }

Transitions ==
  [ draft                   |-> [SUBMIT_FOR_APPROVAL |-> "pending_approval"],
    pending_approval        |-> [REQUEST_EDIT     |-> "draft",
                                 DECLINE          |-> "declined",
                                 SEND             |-> "sent",
                                 CANNOT_AUTO_SEND |-> "needs_manual_submission"],
    declined                |-> << >>,
    needs_manual_submission |-> << >>,
    sent                    |-> [CONFIRM_DISPATCHED |-> "awaiting_response"],
    awaiting_response       |-> [RECEIVE_REJECTION  |-> "rejected",
                                 RECEIVE_ACCEPTANCE |-> "accepted",
                                 TIMEOUT            |-> "escalated"],
    rejected                |-> [REBUT    |-> "rebutting",
                                 ESCALATE |-> "escalated"],
    rebutting               |-> [SUBMIT_FOR_APPROVAL |-> "pending_approval",
                                 DECLINE             |-> "declined"],
    escalated               |-> << >>,
    accepted                |-> [CONFIRM_PAYOUT |-> "paid"],
    paid                    |-> << >> ]

CanTransition(status, event) == event \in DOMAIN Transitions[status]

\* Meaningful only where CanTransition holds; the code throws elsewhere.
Apply(status, event) == Transitions[status][event]

=============================================================================
