SPECIFICATION FairSpec
CONSTANTS
  Runs = {r1}
  MaxRebuttals = 2
  CarrierPlans = {"none_available", "packet", "packet_auto", "letter", "letter_auto"}
  ResumeInputs = {"approve", "edit", "decline", "blank_edit", "reply", "timeout", "payment", "bad_payment"}
  MaxAborts = 2
INVARIANT TypeOK
INVARIANT DuplicatesAccounted
PROPERTY ImplementsLifecycle
PROPERTY RunsSettle
