SPECIFICATION Spec
CONSTANTS
  Runs = {r1, r2}
  MaxRebuttals = 1
  CarrierPlans = {"letter_auto"}
  ResumeInputs = {"edit", "reply", "payment"}
  MaxAborts = 0
SYMMETRY RunSymmetry
INVARIANT ApprovedBeforeDispatch
INVARIANT StatusBackedByWorld
INVARIANT NodesFitStatus
CONSTRAINT FewDuplicates
