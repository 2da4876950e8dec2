\* After an erasure nothing is left to do.
CHECK_DEADLOCK FALSE
SPECIFICATION DeskSpec
CONSTANTS
  Runs = {r1, r2}
  MaxRebuttals = 0
  CarrierPlans = {"packet", "letter_auto"}
  ResumeInputs = {"approve", "decline"}
  MaxAborts = 1
SYMMETRY DeskRunSymmetry
CONSTRAINT FewCopies
INVARIANT DeskTypeOK
INVARIANT KeptClaimsWereSent
INVARIANT OneFilingPerBooking
INVARIANT ThreadHasOwner
