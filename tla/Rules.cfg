\* A question is answered once.
CHECK_DEADLOCK FALSE
SPECIFICATION Spec
CONSTANTS
  NotAnInteger = NotAnInteger
  Payments <- MCPayments
  Trips <- MCTrips
  Causes <- MCCauses
  Directories <- MCDirectories
  Forms <- MCForms
  Packs <- MCPacks
INVARIANTS SplitExact DoubtDecidesNothing PlanKeepsToDirectory FormCovers
