---------------------------- MODULE AttemptPolicy ----------------------------
(***************************************************************************)
(* The closed transition policy of a review attempt: the conditions a       *)
(* worker may report, the order in which they win over each other, and what *)
(* the coordinator does with the winner.  Pure operators, no state.         *)
(*                                                                         *)
(* Models internal/app/review/policy.go, the condition predicates of        *)
(* internal/app/review/coordinator.go and internal/app/failure_precedence.go*)
(***************************************************************************)
EXTENDS Naturals

\* No condition: the zero value of AttemptCondition, which is not Valid().
NoCondition == "none"

\* The rows of the policy table, grouped by what they share.
ValidRows         == {"valid_review"}
RepairRows        == {"invalid_provider_output", "invalid_evidence_claim"}
ClosedOutputRows  == {"unrepairable_provider_output", "unrepairable_evidence_claim",
                      "semantic_contradiction", "provider_output_missing",
                      "provider_output_decode_failed",
                      "provider_protocol_event_decode_failed"}
RetryRows         == {"provider_unavailable", "provider_turn_failed"}
TimeoutRows       == {"timeout", "provider_timeout"}
AuthRows          == {"auth", "provider_permission_denied", "login_required"}
SecurityRows      == {"security_violation", "mutation_violation"}
OtherProviderRows == {"provider_spawn_failed", "quota", "rate_limit"}
RunRows           == {"configuration_violation", "artifact_failure",
                      "cancelled", "internal_invariant"}

AttemptConditions ==
  ValidRows \cup RepairRows \cup ClosedOutputRows \cup RetryRows \cup TimeoutRows
    \cup AuthRows \cup SecurityRows \cup OtherProviderRows \cup RunRows

\* conditionPrecedence: the smaller number wins a reduction.
Precedence(c) ==
  CASE c = "internal_invariant"              -> 0
    [] c = "artifact_failure"                -> 1
    [] c \in SecurityRows                    -> 2
    [] c = "cancelled"                       -> 3
    [] c = "configuration_violation"         -> 4
    [] c = "login_required"                  -> 5
    [] c \in RepairRows \cup ClosedOutputRows -> 6
    [] c \in ValidRows                       -> 8
    [] OTHER                                 -> 7

\* terminalClass of a row; "" for the valid row.
TerminalClass(c) ==
  CASE c \in ValidRows                        -> ""
    [] c \in RepairRows \cup ClosedOutputRows -> "invalid_output"
    [] c \in RetryRows                        -> "provider_unavailable"
    [] c = "provider_spawn_failed"            -> "provider_unavailable"
    [] c \in TimeoutRows                      -> "timeout"
    [] c \in AuthRows                         -> "authentication"
    [] c \in SecurityRows                     -> "security_policy"
    [] c = "quota"                            -> "quota"
    [] c = "rate_limit"                       -> "rate_limit"
    [] c = "configuration_violation"          -> "configuration"
    [] c = "artifact_failure"                 -> "artifact"
    [] c = "cancelled"                        -> "cancelled"
    [] OTHER                                  -> "internal"

\* terminalProjection of a row when nothing more is scheduled.
RowProjection(c) ==
  CASE c \in ValidRows                          -> "succeeded"
    [] c \in SecurityRows \cup {"cancelled"}    -> "cancelled"
    [] OTHER                                    -> "failed"

\* The canonical precedence of failure classes: the larger number wins.
FailurePrecedence(class) ==
  CASE class = "internal"        -> 7
    [] class = "security_policy" -> 6
    [] class = "artifact"        -> 5
    [] class = "cancelled"       -> 4
    [] class = "configuration"   -> 3
    [] class \in {"provider_unavailable", "timeout", "authentication",
                  "quota", "rate_limit"} -> 2
    [] class = "invalid_output"  -> 1
    [] OTHER                     -> 0

\* Mutant: the later condition wins whatever its precedence.
ReduceToLatest(first, second) == second

\* ReduceAttemptConditions of two conditions: ties keep the earlier one.
Reduce(first, second) ==
  IF Precedence(second) < Precedence(first) THEN second ELSE first

\* ReduceAttemptConditions of the conditions cond[x] for x in ranks, in rank order.
ReduceOver(ranks, cond) ==
  cond[CHOOSE x \in ranks :
         \A y \in ranks : \/ Precedence(cond[x]) < Precedence(cond[y])
                          \/ /\ Precedence(cond[x]) = Precedence(cond[y])
                             /\ x <= y]

\* DecideTransition.  slotUsed stands for RepairUsed \/ RetryUsed: both rows that
\* schedule work test both flags.
DecideTransition(condition, slotUsed, cancellationObserved) ==
  LET c == IF cancellationObserved THEN Reduce(condition, "cancelled") ELSE condition
      scheduleRepair == c \in RepairRows /\ ~slotUsed
      scheduleRetry  == c \in RetryRows /\ ~slotUsed
  IN  [condition      |-> c,
       scheduleRepair |-> scheduleRepair,
       scheduleRetry  |-> scheduleRetry,
       projection     |-> IF scheduleRepair \/ scheduleRetry THEN "none"
                                                             ELSE RowProjection(c)]

\* conditionCancelsCoordinatorRun: integrity failures that cancel every role.
ConditionCancelsRun(c) == c \in SecurityRows \cup {"cancelled"}

\* conditionStopsCoordinatorRun: conditions after which nothing more starts.
ConditionStopsRun(c) ==
  c \in SecurityRows \cup {"internal_invariant", "artifact_failure", "cancelled"}

\* conditionRetainsAuthorityAfterContext.
RetainsAuthority(c, contextCondition) ==
  LET always == SecurityRows \cup {"internal_invariant", "artifact_failure", "login_required"}
  IN  \/ contextCondition = "cancelled" /\ c \in always
      \/ /\ contextCondition = "timeout"
         /\ c \in always \cup {"configuration_violation", "provider_timeout"}

\* conditionForTransition: a job's condition once the coordinator has sampled the
\* contexts; sampled is NoCondition when neither the caller nor the deadline ended.
ConditionForTransition(c, sampled) ==
  CASE sampled = "cancelled" -> Reduce(c, "cancelled")
    [] sampled = "timeout" ->
         IF c # "provider_timeout" /\ RetainsAuthority(c, "timeout") THEN c ELSE "timeout"
    [] OTHER -> c

\* Mutant: the context error is reported without invocationContextCondition().
WorkerConditionUnmapped(c, ctxErr) == IF ctxErr = "none" THEN c ELSE ctxErr

\* reduceOutcome: what a worker reports for c when its context ended with ctxErr.
WorkerCondition(c, ctxErr) ==
  CASE ctxErr = "deadline" ->
         IF c # "provider_timeout" /\ RetainsAuthority(c, "timeout") THEN c ELSE "timeout"
    [] ctxErr = "canceled" -> IF RetainsAuthority(c, "cancelled") THEN c ELSE "cancelled"
    [] OTHER -> c

\* conditionRequiresValidation: the provider delivered something to validate.
RequiresValidation(c) ==
  c \in {"valid_review", "invalid_provider_output", "invalid_evidence_claim",
         "semantic_contradiction"}

\* Mutants: the ceiling one class too low, one class too high.
BoundedFailureCeilingLow  == 1
BoundedFailureCeilingHigh == 3

\* extractionBoundedFailureCeiling.
BoundedFailureCeiling == 2

\* extractionOutcomeIsBounded: a trailer outcome the accepted report absorbs.
ExtractionIsBounded(purpose, c) ==
  purpose = "extract" /\ FailurePrecedence(TerminalClass(c)) <= BoundedFailureCeiling

=============================================================================
