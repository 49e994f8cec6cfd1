--------------------------- MODULE ProviderAdapter ---------------------------
(***************************************************************************)
(* What Registry.Observe makes of one finished provider run.  A run is a   *)
(* record of the facts the process runner and the protocol driver left:    *)
(*   family    the provider family                                         *)
(*   term      how the process ended, "absent" without a valid observation *)
(*   started   whether the child was started                               *)
(*   zero      whether it exited with code zero                            *)
(*   teardown  whether the runner's bounded teardown ended it              *)
(*   sent      whether everything intended was written to its stdin        *)
(*   session   the protocol session: "none", "completed" or "failed"       *)
(*   evidence  the assistant text: "none", "unusable" or "text"            *)
(*   staged    the staged output lease, "none" for the stdout transport    *)
(*   marks     the native markers found on its stderr                      *)
(*   fault     what the runner, the driver or the transcript reported      *)
(*   breach    a failed boundary check after it: "source", "workspace" or  *)
(*             "profile"                                                   *)
(* The result is what the invocation runtime receives: an observation that *)
(* succeeded or failed, an error with or without one, or an invariant      *)
(* error when an observation could not be built.  Pure operators.          *)
(*                                                                         *)
(* Models internal/adapters/providercli/registry.go and the observation    *)
(* rules of internal/ports/provider_execution.go.                          *)
(***************************************************************************)
EXTENDS Naturals, FiniteSets

None == "none"

NoError == [any |-> FALSE, runtime |-> None, process |-> None, cleanup |-> FALSE, drift |-> FALSE,
            deadline |-> FALSE, protocol |-> None, config |-> FALSE]

Interruptions == {"cancelled", "timed_out"}
StartFailures == {"start_failed", "start_unavailable", "start_configuration", "start_security"}

\* The causes for which the security status may override how the process ended.
BoundaryCauses ==
  {"transport_verification_failed", "prompt_file_pre_start_failed", "prompt_file_post_end_failed",
   "transport_receipt_mismatch", "lifecycle_receipt_invalid", "output_frame_mismatch",
   "signal_receipt_mismatch", "workspace_revalidation_failed", "provider_output_staging_violation"}

OutputCauses ==
  {"output_frame_missing", "output_envelope_invalid", "output_decode_failed", "protocol_event_decode_failed",
   "result_binding_failed", "output_missing", "provider_output_file_missing", "provider_output_file_invalid"}

\* Boundary checks that guard what the provider read.
SourceBreaches == {"source", "workspace"}

-----------------------------------------------------------------------------
(* The error of a run, as errors.As and errors.Is take it apart.           *)

\* The fault of the run itself: a refused or postponed spawn, a process error, a protocol
\* failure with its cause, a model the session could not select, a context error.
ConverseError(fault) ==
  CASE fault = None           -> NoError
    [] fault = "spawn"        -> [NoError EXCEPT !.any = TRUE, !.runtime = "provider_spawn_failed"]
    [] fault = "spawn_later"  -> [NoError EXCEPT !.any = TRUE, !.runtime = "provider_execution_failed"]
    [] fault = "wait"         -> [NoError EXCEPT !.any = TRUE, !.process = "provider_process_wait_failed"]
    [] fault = "cleanup"      -> [NoError EXCEPT !.any = TRUE, !.process = "observation_invalid", !.cleanup = TRUE]
    [] fault = "selection"    -> [NoError EXCEPT !.any = TRUE, !.config = TRUE]
    [] fault = "deadline"     -> [NoError EXCEPT !.any = TRUE, !.deadline = TRUE]
    [] fault = "transcript"   -> NoError
    [] OTHER                  -> [NoError EXCEPT !.any = TRUE, !.protocol = fault]

\* errors.Join with a runtime failure: errors.As keeps the first one it meets.
JoinRuntime(err, cause) ==
  [err EXCEPT !.any = TRUE, !.runtime = IF err.runtime = None THEN cause ELSE err.runtime]

\* executeProtocolProviderProcess: AGY must have exited by itself, and a transcript that
\* cannot be released is an error of its own.
ProtocolError(r) ==
  LET converse == ConverseError(r.fault)
      natural == IF r.family = "agy" /\ ~converse.any /\ ~(r.term = "exited" /\ r.zero /\ ~r.teardown)
                 THEN JoinRuntime(converse, "provider_execution_failed") ELSE converse
  IN IF r.fault = "transcript" THEN JoinRuntime(natural, "observation_invalid") ELSE natural

\* runInWorkspace: a guard that fails after the run replaces its error with the drift.
WorkspaceError == [NoError EXCEPT !.any = TRUE, !.drift = TRUE]

\* runInLiveSource and its deferred checks: the AGY profile joins the run's error, the
\* source replaces it.
RunError(r) ==
  CASE r.breach = "source"  -> JoinRuntime(NoError, "workspace_revalidation_failed")
    [] r.breach = "workspace" -> WorkspaceError
    [] r.breach = "profile" -> JoinRuntime(ProtocolError(r), "workspace_revalidation_failed")
    [] OTHER                -> ProtocolError(r)

\* The session a failed run keeps: the replaced error no longer carries it.
Session(r) == IF r.breach \in SourceBreaches THEN None ELSE r.session

-----------------------------------------------------------------------------
(* Causes and statuses.                                                    *)

\* providerRunCauses: the primary cause of a run's error.
RunCause(err) ==
  CASE err.runtime # None -> err.runtime
    [] err.process # None -> err.process
    [] err.drift          -> "workspace_revalidation_failed"
    [] err.deadline       -> "timed_out"
    [] OTHER              -> "provider_spawn_failed"

\* ... and its cleanup cause.
CleanupCause(err) == err.runtime = None /\ err.process # None /\ err.cleanup

\* providerFailureProjection.
Projection(cause) ==
  CASE cause = "timed_out"       -> "timed_out"
    [] cause \in {"login_required", "authentication_failed", "permission_denied"} -> "authentication"
    [] cause = "quota_exceeded"  -> "quota"
    [] cause = "rate_limited"    -> "rate_limit"
    [] cause \in {"provider_turn_failed", "provider_execution_failed"} -> "unavailable"
    [] cause \in BoundaryCauses  -> "security_violation"
    [] cause \in OutputCauses \cup {"provider_output_staging_cleanup_failed"} -> "artifact_failure"
    [] OTHER                     -> "internal_failure"

\* nativeProviderOutcome over the stderr of a review: [status, cause], or status "none".
NativeOutcome(family, marks) ==
  LET of(status, cause) == [status |-> status, cause |-> cause]
      turnFailed == family = "zcode" /\ "turn_failed" \in marks
  IN CASE family = "cursor"                            -> of(None, None)
       [] "login" \in marks                            -> of("authentication", "login_required")
       [] turnFailed /\ "quota" \in marks              -> of("quota", "quota_exceeded")
       [] turnFailed /\ "explicit_rate" \in marks      -> of("rate_limit", "rate_limited")
       [] turnFailed                                   -> of("unavailable", "provider_turn_failed")
       [] "timeout" \in marks                          -> of("timed_out", "timed_out")
       [] "quota" \in marks                            -> of("quota", "quota_exceeded")
       [] {"rate", "explicit_rate"} \cap marks # {}    -> of("rate_limit", "rate_limited")
       [] "overloaded" \in marks                       -> of("unavailable", "provider_execution_failed")
       [] "auth" \in marks                             -> of("authentication", "authentication_failed")
       [] OTHER                                        -> of(None, None)

\* classify and the cause classifyReviewProviderFailure pairs with it.
ClassifyTermination(term) ==
  CASE term = "exited"              -> [status |-> "unavailable", cause |-> "provider_execution_failed"]
    [] term = "timed_out"           -> [status |-> "timed_out", cause |-> "timed_out"]
    [] term = "cancelled"           -> [status |-> "cancelled", cause |-> "provider_execution_failed"]
    [] term = "stdin_incomplete"    -> [status |-> "artifact_failure", cause |-> "observation_invalid"]
    [] term = "start_unavailable"   -> [status |-> "unavailable", cause |-> "provider_spawn_failed"]
    [] term = "start_configuration" -> [status |-> "configuration_violation", cause |-> "provider_spawn_failed"]
    [] term = "start_security"      -> [status |-> "security_violation", cause |-> "provider_spawn_failed"]
    [] term = "residual"            -> [status |-> "security_violation", cause |-> "process_group_cleanup_failed"]
    [] term = "start_failed"        -> [status |-> "internal_failure", cause |-> "provider_spawn_failed"]
    [] OTHER                        -> [status |-> "internal_failure", cause |-> "provider_execution_failed"]

\* classifyReviewProviderFailure.  The cursor family has no native outcome, but classify
\* still reads the two markers every family shares.
Classify(r) ==
  LET native == NativeOutcome(r.family, r.marks)
      shared == CASE "login" \in r.marks -> [status |-> "authentication", cause |-> "provider_execution_failed"]
                  [] "native_timeout" \in r.marks -> [status |-> "timed_out", cause |-> "provider_execution_failed"]
                  [] OTHER -> ClassifyTermination("exited")
  IN CASE r.term = "exited" /\ native.status # None -> native
       [] r.term = "exited" /\ native.status = None -> shared
       [] OTHER -> ClassifyTermination(r.term)

-----------------------------------------------------------------------------
(* ProviderExecutionObservation.Validate for a failed observation.         *)

\* ProtocolConversationCompleted.
ConversationCompleted(r) ==
  /\ r.started
  /\ \/ r.term \in {"signaled", "exited"} /\ r.teardown
     \/ r.term = "exited" /\ r.zero

\* providerExecutionStatusMatchesProcessObservation.
StatusMatches(status, r) ==
  LET ran == r.term = "exited" /\ r.sent
  IN CASE status = "timed_out"               -> r.term = "timed_out" \/ ran
       [] status = "cancelled"               -> r.term = "cancelled"
       [] status = "artifact_failure"        -> r.term = "stdin_incomplete" \/ ran
       [] status = "unavailable"             -> r.term = "start_unavailable" \/ ran
       [] status = "security_violation"      -> r.term \in {"start_security", "residual"} \/ ran
       [] status = "configuration_violation" -> r.term = "start_configuration" \/ ran
       [] status \in {"authentication", "quota", "rate_limit", "mutation_violation"} -> ran
       [] status = "internal_failure"        -> r.term \in {"signaled", "start_failed"} \/ ran
       [] OTHER                              -> FALSE

\* failedProtocolConversationMatches; only a started child has a transport receipt.
SessionMatches(status, r) ==
  /\ Session(r) = "failed" /\ r.started
  /\ \/ StatusMatches(status, r)
     \/ /\ ConversationCompleted(r)
        /\ status \in {"unavailable", "authentication", "quota", "rate_limit", "timed_out",
                       "artifact_failure", "configuration_violation"}

\* validateProviderExecutionStdinReceipt: a started conversation must have written all it
\* intended; without a transport receipt only a start failure may have written nothing.
StdinReceiptMatches(r) ==
  IF r.started THEN r.sent ELSE r.term \in StartFailures

\* Validate of a failed observation, with the session retained or not.
Validates(status, cause, withSession, r) ==
  /\ r.term # "absent" =>
       /\ StdinReceiptMatches(r)
       /\ \/ StatusMatches(status, r)
          \/ withSession /\ SessionMatches(status, r)
          \/ status = "security_violation" /\ cause \in BoundaryCauses
  /\ withSession => SessionMatches(status, r)

-----------------------------------------------------------------------------
(* Registry.Observe.                                                       *)

Result(kind, status, cause, err) == [kind |-> kind, status |-> status, cause |-> cause, err |-> err]
NoErr == [kind |-> None, cause |-> None]
Other == [kind |-> "other", cause |-> None]

\* newFailedProviderExecutionObservationWithCause: the observation, or its constructor's error.
FailedObservation(status, cause, r) ==
  IF Validates(status, cause, FALSE, r) THEN Result("failed", status, cause, NoErr)
                                        ELSE Result("error", None, None, Other)

\* failedProviderObservationWithRetainedSession: with a session, an observation that cannot
\* be built is reported as an invariant.
FailedWithSession(status, cause, r) ==
  IF Session(r) = None THEN FailedObservation(status, cause, r)
  ELSE IF Validates(status, cause, TRUE, r) THEN Result("failed", status, cause, NoErr)
  ELSE Result("invariant", status, cause, NoErr)

\* A failure that describes a compromised observation outranks the interruption.
ProtectedFailure(err) ==
  Projection(RunCause(err)) = "security_violation" \/ CleanupCause(err)

\* The branch of Observe for a run that returned an error.
ObserveError(r) ==
  LET err == RunError(r)
      cause == RunCause(err)
      native == NativeOutcome(r.family, r.marks)
      wrapped == IF err.runtime # None \/ err.process = None
                 THEN [kind |-> "runtime", cause |-> cause] ELSE NoErr
  IN CASE r.term = "cancelled" /\ ~ProtectedFailure(err) ->
            FailedWithSession("cancelled", "provider_execution_failed", r)
       [] r.term = "timed_out" /\ ~ProtectedFailure(err) ->
            FailedWithSession("timed_out", "timed_out", r)
       [] err.config /\ r.term # "absent" ->
            FailedWithSession("configuration_violation", "observation_invalid", r)
       [] err.protocol # None /\ r.term # "absent" ->
            IF native.status # None THEN FailedWithSession(native.status, native.cause, r)
            ELSE FailedWithSession(Projection(err.protocol), err.protocol, r)
       [] err.process = None ->
            IF r.term = "absent" THEN Result("error", None, None, wrapped)
            ELSE IF Validates(Projection(cause), cause, FALSE, r)
                 THEN Result("error_observed", Projection(cause), cause, wrapped)
                 ELSE Result("error", None, None, Other)
       [] OTHER -> \* a process error: an observation, partial when the process has none
            FailedObservation(Projection(cause), cause, r)

\* stagedFileObservation and releaseStagedOutputLease.
ObserveStaged(r) ==
  CASE r.staged = "missing"        -> FailedObservation("artifact_failure", "provider_output_file_missing", r)
    [] r.staged = "invalid"        -> FailedObservation("artifact_failure", "provider_output_file_invalid", r)
    [] r.staged = "violation"      -> FailedObservation("security_violation", "provider_output_staging_violation", r)
    [] r.staged = "cleanup_failed" -> FailedObservation("artifact_failure", "provider_output_staging_cleanup_failed", r)
    [] OTHER                       -> Result("ok", "succeeded", None, NoErr)

\* Whether the run ended in a way that may carry a result.
Completed(r) ==
  \/ r.term = "exited" /\ r.zero
  \/ r.family # "agy" /\ ConversationCompleted(r)

\* The assistant text of a stdout transport becomes the result.
ObserveStdout(r) ==
  CASE r.evidence = None       -> FailedObservation("artifact_failure", "output_missing", r)
    [] r.evidence = "unusable" -> FailedObservation("artifact_failure", "result_binding_failed", r)
    [] OTHER                   -> Result("ok", "succeeded", None, NoErr)

\* Registry.Observe once the run has ended.
Observation(r) ==
  CASE RunError(r).any -> ObserveError(r)
    [] ~RunError(r).any /\ r.term = "absent" ->
         Result("error", None, None, [kind |-> "runtime", cause |-> "observation_invalid"])
    [] ~RunError(r).any /\ Completed(r) -> IF r.staged # None THEN ObserveStaged(r) ELSE ObserveStdout(r)
    [] OTHER -> LET c == Classify(r) IN FailedObservation(c.status, c.cause, r)

-----------------------------------------------------------------------------
(* What Observe promises about a run.                                      *)

\* The runner completed the packet's transfer, or never started the child for a reason of
\* the child's own: the only observations the receipt validation admits.
ReceiptIsComplete(r) == r.term = "absent" \/ StdinReceiptMatches(r)

\* A source that changed under the provider is what Observe reports, whatever the process
\* and the session did: never a success, never an interruption, never a retry.
SourceBreachIsReported(r) ==
  r.breach \in SourceBreaches /\ ReceiptIsComplete(r) =>
    LET o == Observation(r)
    IN IF r.term = "absent" THEN o.kind = "error" /\ o.err.cause = "workspace_revalidation_failed"
       ELSE o.kind = "error_observed" /\ o.status = "security_violation"

\* Cancelling or timing out a provider whose packet was delivered is reported as that, with
\* the session's progress, although the driver failed on the pipe closed under it.
InterruptionIsReported(r) ==
  r.term \in Interruptions /\ r.started /\ r.sent /\ r.breach = None /\ r.session # "completed" =>
    LET o == Observation(r) IN o.kind = "failed" /\ o.status = r.term

\* A result is only taken from a run that reported no error, whose process completed and
\* whose boundary held.
SuccessIsClean(r) ==
  Observation(r).kind = "ok" => ~RunError(r).any /\ r.breach = None /\ r.fault = None /\ Completed(r)

ObservationIsFaithful(r) == SourceBreachIsReported(r) /\ InterruptionIsReported(r) /\ SuccessIsClean(r)

=============================================================================
