\* The report accepted for one role against a peer role that stops the run.
SPECIFICATION Spec
CONSTANTS
  NumRoles = 2
  MaxActiveLanes = 2
  RuntimeConditions = {"valid_review", "artifact_failure"}
  MaxFaults = 0
  ExtractionAdmitted = TRUE
INVARIANTS
  PeerStopKeepsAcceptedReport
