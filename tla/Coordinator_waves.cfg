\* Every class of outcome, no failing dependency, the trailer admitted.
SPECIFICATION Spec
CONSTANTS
  NumRoles = 2
  MaxActiveLanes = 2
  RuntimeConditions = {"valid_review", "invalid_provider_output", "provider_unavailable",
                       "provider_timeout", "login_required", "configuration_violation",
                       "security_violation", "artifact_failure"}
  MaxFaults = 0
  ExtractionAdmitted = TRUE
INVARIANTS
  TypeOK
  OutcomeIsTrue
  IntegrityPrevails
  AcceptedReportLostOnlyToStop
