\* A dependency of the coordinator fails once, anywhere; one worker for two
\* roles; every execution ends under fair scheduling.
SPECIFICATION FairSpec
CONSTANTS
  NumRoles = 2
  MaxActiveLanes = 1
  RuntimeConditions = {"valid_review", "provider_unavailable",
                       "security_violation"}
  MaxFaults = 1
  ExtractionAdmitted = TRUE
INVARIANTS
  JoinedBeforeTerminal
  AbortFinalizes
PROPERTIES
  StopNeverWeakens
  Termination
