SPECIFICATION Spec
CONSTANTS
  Runs = {r1}
  MaxRebuttals = 1
  CarrierPlans = {"none_available", "packet", "packet_auto", "letter", "letter_auto"}
  ResumeInputs = {"approve", "edit", "decline", "blank_edit", "reply", "timeout", "payment", "bad_payment"}
  MaxAborts = 0
INVARIANT ExplicitDecisionBeforeDispatch
