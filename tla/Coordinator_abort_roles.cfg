\* A failed start of a role against the run deadline.
SPECIFICATION Spec
CONSTANTS
  NumRoles = 2
  MaxActiveLanes = 1
  RuntimeConditions = {"valid_review"}
  MaxFaults = 1
  ExtractionAdmitted = FALSE
INVARIANTS
  AbortedRolesAreTerminal
