--------------------------- MODULE ProviderRuntime ---------------------------
(***************************************************************************)
(* One review attempt as ProviderInvocationRuntime.Invoke carries it out:  *)
(* an initial provider invocation and at most one repair, retry or         *)
(* extraction after it.  The first invocation leaves in the runtime what   *)
(* the second needs (a repair plan, or the accepted report); the captured  *)
(* streams go to the artifact inventory and to the run's diagnostics,      *)
(* which may refuse a stream after it was captured; the context of the run *)
(* may end between any two steps.  What follows an invocation is the       *)
(* transition policy's decision (AttemptPolicy).                           *)
(*                                                                         *)
(* Models internal/app/review/provider_runtime.go and                      *)
(* provider_runtime_diagnostics.go.                                        *)
(***************************************************************************)
EXTENDS AttemptPolicy

CONSTANT Observations   \* what the provider may return: [kind, status, cause, err, ctx, breach]

VARIABLES
  pc,          \* where Invoke is; "scheduling" between invocations, "done" after the attempt
  purpose,     \* the purpose of the invocation under way
  ctxErr,      \* the error of the run's context
  obs,         \* what Observe returned
  deferred,    \* diagnosticObservation # nil: the status is replaced on return
  pending,     \* the retained repair input: the invocation whose report it keeps, 0 for none
  extraction,  \* the retained extraction input, likewise
  captures,    \* invocation -> what its receipt keeps of each artifact
  refused,     \* invocation -> the streams the diagnostics refused
  outcome,     \* the AttemptOutcome being built
  unplanned,   \* the initial invocation ended in a repair row without retaining a plan
  result       \* what the coordinator made of the attempt

vars == <<pc, purpose, ctxErr, obs, deferred, pending, extraction, captures, refused, outcome, unplanned, result>>

Purposes == {"initial", "repair", "retry", "extract"}
Faults   == {"artifact_failure", "security_violation"}   \* diagnosticConditionForPersistence
NoObs    == [kind |-> "none", status |-> "none", cause |-> "none", ctx |-> "none", breach |-> "none",
             err |-> [kind |-> "none", cause |-> "none"]]
Nothing  == [candidate |-> "absent", stdout |-> "absent", stderr |-> "absent"]
NoResult == [cond |-> NoCondition, report |-> 0, structured |-> FALSE]

\* invocationSequence.
Sequence == IF purpose = "initial" THEN 1 ELSE 2

-----------------------------------------------------------------------------
(* Conditions.                                                             *)

\* runtimeContextCondition.
ContextCondition(err) == IF err = "deadline" THEN "timeout" ELSE "cancelled"

\* runtimeConditionAfterContext.
ConditionAfterContext(ctx, c) ==
  IF ctx = "none" \/ RetainsAuthority(c, ContextCondition(ctx)) THEN c ELSE ContextCondition(ctx)

\* runtimeErrorCondition, for an error that is neither a deadline nor a cancellation.
ErrorCondition(ctx) == IF ctx = "none" THEN "invalid_provider_output" ELSE ContextCondition(ctx)

\* runtimePromptErrorCondition.
PromptErrorCondition(ctx) == ConditionAfterContext(ctx, "internal_invariant")

OutputMissingCauses == {"output_missing", "provider_output_file_missing"}
DecodeCauses == {"output_frame_missing", "output_envelope_invalid", "output_decode_failed",
                 "result_binding_failed", "provider_output_file_invalid"}

\* The causes both tables read the same way.
OutputCauseCondition(cause) ==
  CASE cause \in OutputMissingCauses                     -> "provider_output_missing"
    [] cause \in DecodeCauses                            -> "provider_output_decode_failed"
    [] cause = "protocol_event_decode_failed"            -> "provider_protocol_event_decode_failed"
    [] cause = "permission_denied"                       -> "provider_permission_denied"
    [] cause = "provider_output_staging_violation"       -> "security_violation"
    [] cause = "provider_output_staging_cleanup_failed"  -> "artifact_failure"
    [] OTHER                                             -> NoCondition

\* runtimeCauseCondition: the condition of a typed provider or process error.
CauseCondition(cause) ==
  CASE OutputCauseCondition(cause) # NoCondition -> OutputCauseCondition(cause)
    [] cause = "login_required"         -> "login_required"
    [] cause = "authentication_failed"  -> "auth"
    [] cause = "quota_exceeded"         -> "quota"
    [] cause = "rate_limited"           -> "rate_limit"
    [] cause = "timed_out"              -> "provider_timeout"
    [] cause \in {"workspace_revalidation_failed", "transport_verification_failed",
                  "prompt_file_pre_start_failed", "prompt_file_post_end_failed",
                  "transport_receipt_mismatch", "lifecycle_receipt_invalid", "output_frame_mismatch",
                  "signal_receipt_mismatch", "observation_mismatch"} -> "security_violation"
    [] cause \in {"candidate_validation_failed", "candidate_repair_plan_invalid"} -> "semantic_contradiction"
    [] cause = "provider_spawn_failed"  -> "provider_spawn_failed"
    [] cause \in {"provider_execution_failed", "provider_process_wait_failed",
                  "observation_invalid"} -> "provider_unavailable"
    [] cause = "provider_turn_failed"   -> "provider_turn_failed"
    [] OTHER                            -> "internal_invariant"

\* observedStatusCondition: the cause first, then the status.
ObservedStatusCondition(status, cause) ==
  IF OutputCauseCondition(cause) # NoCondition THEN OutputCauseCondition(cause)
  ELSE CASE status = "unavailable"             -> "provider_unavailable"
         [] status = "timed_out"               -> "provider_timeout"
         [] status = "authentication"          -> IF cause = "login_required" THEN "login_required" ELSE "auth"
         [] status = "quota"                   -> "quota"
         [] status = "rate_limit"              -> "rate_limit"
         [] status = "security_violation"      -> "security_violation"
         [] status = "mutation_violation"      -> "mutation_violation"
         [] status = "configuration_violation" -> "configuration_violation"
         [] status = "artifact_failure"        -> "artifact_failure"
         [] status = "cancelled"               -> "cancelled"
         [] OTHER                              -> "internal_invariant"

\* runtimeProviderErrorCondition (runtimeProviderObservedTimeout is its first case).
ProviderErrorCondition(ctx, e) ==
  ConditionAfterContext(ctx,
    CASE e.kind \in {"runtime", "process"} -> CauseCondition(e.cause)
      [] e.kind = "already_active"         -> "internal_invariant"
      [] e.kind \in {"snapshot_drift", "packet_security"} -> "security_violation"
      [] e.kind = "login_required"         -> "login_required"
      [] e.kind = "deadline"               -> "timeout"
      [] e.kind = "canceled"               -> "cancelled"
      [] OTHER                             -> "internal_invariant")

-----------------------------------------------------------------------------
(* Steps.                                                                  *)

Init ==
  /\ pc = "begin" /\ purpose = "initial" /\ ctxErr = "none"
  /\ obs = NoObs /\ deferred = FALSE
  /\ pending = 0 /\ extraction = 0
  /\ captures = [k \in {1, 2} |-> Nothing] /\ refused = [k \in {1, 2} |-> {}]
  /\ outcome = NoResult /\ unplanned = FALSE /\ result = NoResult

\* runtimeCondition: Invoke returns with c.
Fail(c) == pc' = "return" /\ outcome' = [NoResult EXCEPT !.cond = c]

\* NewAttemptOutcome of an accepted output that carries the report of an invocation.
Succeed(report, structured) ==
  pc' = "return" /\ outcome' = [cond |-> "valid_review", report |-> report, structured |-> structured]

\* The run's context ends: the caller cancels or the deadline passes.
ContextEnds ==
  /\ pc \notin {"scheduling", "done"} /\ ctxErr = "none"
  /\ ctxErr' \in {"deadline", "canceled"}
  /\ UNCHANGED <<pc, purpose, obs, deferred, pending, extraction, captures, refused, outcome, unplanned, result>>

\* Invoke up to the prompt: a repair or an extraction needs its retained input.
Begin ==
  /\ pc = "begin"
  /\ CASE ctxErr # "none" -> Fail(ContextCondition(ctxErr))
       [] \/ purpose = "repair" /\ pending = 0
          \/ purpose = "extract" /\ extraction = 0 -> Fail("internal_invariant")
       [] OTHER -> pc' = "launch" /\ UNCHANGED outcome
  /\ UNCHANGED <<purpose, ctxErr, obs, deferred, pending, extraction, captures, refused, unplanned, result>>

LaunchFaults == {"prompt", "binding", "revalidate", "packet", "packet_security"} \cup Faults

\* From the prompt to the start of the provider.  A context that ended by then leaves
\* no full provider window, which is a timeout whatever ended it.
Launch ==
  /\ pc = "launch"
  /\ \/ \E f \in LaunchFaults :
          Fail(CASE f = "prompt"          -> PromptErrorCondition(ctxErr)
                 [] f = "binding"         -> "configuration_violation"
                 [] f = "revalidate"      -> IF ctxErr = "none" THEN "security_violation"
                                                                ELSE ContextCondition(ctxErr)
                 [] f = "packet"          -> ProviderErrorCondition(ctxErr, [kind |-> "other", cause |-> "none"])
                 [] f = "packet_security" -> ProviderErrorCondition(ctxErr, [kind |-> f, cause |-> "none"])
                 [] OTHER                 -> f)
     \/ Fail("timeout")
     \/ ctxErr = "none" /\ pc' = "observe" /\ UNCHANGED outcome
  /\ UNCHANGED <<purpose, ctxErr, obs, deferred, pending, extraction, captures, refused, unplanned, result>>

\* Observe (or the legacy Invoke) returns.  The provider's context is a child of the
\* run's with its own deadline, so it may have ended although the run's has not.
Observe ==
  /\ pc = "observe"
  /\ \E ctx \in {ctxErr, "deadline"}, o \in Observations : obs' = [o EXCEPT !.ctx = ctx]
  /\ deferred' = (obs'.kind \in {"error_observed", "failed", "receipt", "ok"})
  /\ pc' = "observed"
  /\ UNCHANGED <<purpose, ctxErr, pending, extraction, captures, refused, outcome, unplanned, result>>

\* What the diagnostics make of the streams of a capture: the streams refused for their
\* content, and the error that ended persisting them (stdout is persisted first).
Persisted(reject) ==
  IF reject THEN {[drop |-> {}, err |-> "none"]}
  ELSE [drop : SUBSET {"stdout", "stderr"}, err : {"none"}] \cup [drop : SUBSET {"stdout"}, err : Faults]

\* The receipt after capture and markCapturedStreamSecurityRejected.
Receipt(candidate, reject, p) ==
  [candidate |-> IF ~candidate THEN "absent"
                 ELSE IF reject \/ "stdout" \in p.drop THEN "rejected" ELSE "kept",
   stdout    |-> IF reject \/ "stdout" \in p.drop THEN "rejected" ELSE "kept",
   stderr    |-> IF reject \/ "stderr" \in p.drop THEN "rejected" ELSE "kept"]

\* capture and persistDiagnosticRaw.
Capture(candidate, reject, p) ==
  /\ captures' = [captures EXCEPT ![Sequence] = Receipt(candidate, reject, p)]
  /\ refused' = [refused EXCEPT ![Sequence] = IF reject THEN {"stdout", "stderr"} ELSE p.drop]

\* capture, then return with c: what persisting reports wins.
CaptureAndFail(candidate, reject, c) ==
  \E p \in Persisted(reject) :
    Capture(candidate, reject, p) /\ Fail(IF p.err = "none" THEN c ELSE p.err)

\* emitInvocationDiagnostic and its kin fail: Invoke returns the persistence condition.
EmitFails == \E f \in Faults : Fail(f) /\ UNCHANGED <<pending, extraction, captures, refused>>

\* Everything Invoke does with an observation that carries no output to read.
Reject ==
  /\ pc = "observed" /\ obs.kind \notin {"ok", "legacy"}
  /\ \/ obs.kind \in {"invariant", "error_observed", "failed", "receipt"} /\ EmitFails
     \/ obs.kind = "invariant" /\ (CaptureAndFail(FALSE, FALSE, "internal_invariant")
                                   \/ \E p \in Persisted(FALSE), f \in Faults : Capture(FALSE, FALSE, p) /\ Fail(f))
     \/ /\ obs.kind = "error_observed"
        /\ CaptureAndFail(FALSE, FALSE,
             IF ObservedStatusCondition(obs.status, obs.cause) = "provider_timeout"
             THEN "provider_timeout" ELSE ProviderErrorCondition(obs.ctx, obs.err))
     \/ obs.kind = "failed" /\ CaptureAndFail(FALSE, FALSE, ObservedStatusCondition(obs.status, obs.cause))
     \/ /\ obs.kind = "error" /\ Fail(ProviderErrorCondition(obs.ctx, obs.err))
        /\ UNCHANGED <<captures, refused>>
     \/ /\ obs.kind \in {"mismatch", "receipt"} /\ Fail("security_violation")
        /\ UNCHANGED <<captures, refused>>
  /\ UNCHANGED <<purpose, ctxErr, obs, deferred, pending, extraction, unplanned, result>>

\* The observation is diagnosed and its output is ready to be classified.
Receive ==
  /\ pc = "observed" /\ obs.kind \in {"ok", "legacy"}
  /\ \/ pc' = "content" /\ UNCHANGED <<outcome, pending, extraction, captures, refused>>
     \/ obs.kind = "ok" /\ EmitFails
  /\ UNCHANGED <<purpose, ctxErr, obs, deferred, unplanned, result>>

\* acceptFreeFormReport.  Only an initial invocation leaves the second slot free for an
\* extraction, so only it retains the report.
AcceptFreeForm(report, candidate) ==
  \E p \in Persisted(FALSE) :
    /\ Capture(candidate, FALSE, p)
    /\ IF p.err # "none" THEN Fail(p.err) /\ UNCHANGED extraction
       ELSE /\ Succeed(report, FALSE)
            /\ extraction' = IF purpose = "initial" THEN report ELSE extraction

\* Invoke on the output of an initial invocation or a retry.
ContentFirst ==
  /\ pc = "content" /\ purpose \in {"initial", "retry"}
  /\ \/ \* prose, or a rejected candidate that mints no plan, accepted as a report
        \E candidate \in BOOLEAN : AcceptFreeForm(Sequence, candidate) /\ UNCHANGED pending
     \/ \* prose that is no acceptable report
        CaptureAndFail(FALSE, FALSE, "artifact_failure") /\ UNCHANGED <<pending, extraction>>
     \/ EmitFails
     \/ CaptureAndFail(TRUE, TRUE, "security_violation") /\ UNCHANGED <<pending, extraction>>
     \/ \* Validate fails and mints a plan
        \E p \in Persisted(FALSE) :
          /\ Capture(TRUE, FALSE, p)
          /\ IF p.err # "none" \/ purpose = "retry"
             THEN Fail(IF p.err # "none" THEN p.err ELSE "unrepairable_provider_output") /\ UNCHANGED pending
             ELSE Fail("invalid_provider_output") /\ pending' = Sequence
          /\ UNCHANGED extraction
     \/ \* initialValidationFailureCondition without a plan
        \E c \in {"semantic_contradiction", "unrepairable_provider_output"} :
          CaptureAndFail(TRUE, FALSE, c) /\ UNCHANGED <<pending, extraction>>
     \/ \* Validate accepts the candidate
        \E p \in Persisted(FALSE) :
          /\ Capture(TRUE, FALSE, p)
          /\ IF p.err = "none" THEN pc' = "accept" /\ UNCHANGED outcome ELSE Fail(p.err)
          /\ UNCHANGED <<pending, extraction>>
  /\ UNCHANGED <<purpose, ctxErr, obs, deferred, unplanned, result>>

\* Mutant: the repair's own text becomes the report.
AcceptRepairText ==
  AcceptFreeForm(Sequence, FALSE) /\ pending' = 0

\* A repair whose answer cannot be applied keeps the report of the initial invocation.
KeepPrimaryReport ==
  AcceptFreeForm(pending, FALSE) /\ pending' = 0

\* Invoke on the output of a repair.
ContentRepair ==
  /\ pc = "content" /\ purpose = "repair"
  /\ \/ KeepPrimaryReport
     \/ EmitFails
     \/ \* no report, a security rejection, or a candidate that cannot be applied
        \E c \in {"artifact_failure", "security_violation", "unapplied"}, p \in Persisted(FALSE) :
          /\ p \in Persisted(c = "security_violation")
          /\ Capture(FALSE, c = "security_violation", p)
          /\ Fail(IF p.err # "none" THEN p.err ELSE IF c = "unapplied" THEN ErrorCondition(ctxErr) ELSE c)
          /\ pending' = IF p.err # "none" THEN pending ELSE 0
          /\ UNCHANGED extraction
     \/ \* the repaired candidate is valid: the plan is used up, its report is published
        \E p \in Persisted(FALSE) :
          /\ Capture(TRUE, FALSE, p)
          /\ IF p.err = "none" THEN pc' = "accept" /\ UNCHANGED outcome ELSE Fail(p.err)
          /\ UNCHANGED <<pending, extraction>>
  /\ UNCHANGED <<purpose, ctxErr, obs, deferred, unplanned, result>>

\* Invoke on the output of an extraction: whatever happens, the retained input is used up.
ContentExtract ==
  /\ pc = "content" /\ purpose = "extract"
  /\ \/ CaptureAndFail(FALSE, FALSE, "invalid_provider_output") /\ extraction' = 0
     \/ \E f \in Faults : Fail(f) /\ UNCHANGED <<captures, refused>> /\ extraction' = 0
     \/ CaptureAndFail(TRUE, TRUE, "security_violation") /\ extraction' = 0
     \/ CaptureAndFail(TRUE, FALSE, ErrorCondition(ctxErr)) /\ extraction' = 0
     \/ \E p \in Persisted(FALSE) :
          /\ Capture(TRUE, FALSE, p)
          /\ IF p.err = "none" THEN pc' = "accept" /\ UNCHANGED <<outcome, extraction>>
                               ELSE Fail(p.err) /\ extraction' = 0
  /\ UNCHANGED <<purpose, ctxErr, obs, deferred, pending, unplanned, result>>

\* accept: evidence verification, the evidence policy and the output of a structured review.
Accept ==
  /\ pc = "accept" /\ purpose # "extract"
  /\ LET primary == IF purpose = "repair" THEN pending ELSE Sequence
     IN \/ Succeed(primary, TRUE) /\ pending' = (IF purpose = "repair" THEN 0 ELSE pending) /\ UNCHANGED unplanned
        \/ \* every unverified quote is an exact mismatch: repairable once
           IF purpose = "initial"
           THEN Fail("invalid_evidence_claim") /\ pending' = primary /\ UNCHANGED unplanned
           ELSE Fail("unrepairable_evidence_claim") /\ UNCHANGED unplanned
                /\ pending' = (IF purpose = "repair" THEN 0 ELSE pending)
        \/ \E c \in {ErrorCondition(ctxErr), "unrepairable_evidence_claim", "invalid_evidence_claim",
                     "internal_invariant"} :
             /\ Fail(c)
             /\ unplanned' = (purpose = "initial" /\ c \in RepairRows)
             /\ pending' = IF purpose = "repair" THEN 0 ELSE pending
  /\ UNCHANGED <<purpose, ctxErr, obs, deferred, extraction, captures, refused, result>>

\* acceptExtraction: only a transcription whose every finding the target confirms upgrades
\* the report, which stays the accepted one.
AcceptExtraction ==
  /\ pc = "accept" /\ purpose = "extract"
  /\ \/ Succeed(extraction, TRUE)
     \/ \E c \in {ErrorCondition(ctxErr), "unrepairable_evidence_claim", "invalid_evidence_claim",
                  "internal_invariant"} : Fail(c)
  /\ extraction' = 0
  /\ UNCHANGED <<purpose, ctxErr, obs, deferred, pending, captures, refused, unplanned, result>>

\* The deferred replaceInvocationDiagnosticStatus: its failure replaces the outcome.
Return ==
  /\ pc = "return" /\ pc' = "scheduling"
  /\ \/ UNCHANGED outcome
     \/ deferred /\ \E f \in Faults : outcome' = [NoResult EXCEPT !.cond = f]
  /\ deferred' = FALSE
  /\ UNCHANGED <<purpose, ctxErr, obs, pending, extraction, captures, refused, unplanned, result>>

\* The coordinator commits the outcome its worker reduced: DecideTransition and
\* scheduleExtraction grant the second invocation, unless the run is stopping.
Schedule ==
  /\ pc = "scheduling"
  /\ LET c == WorkerCondition(outcome.cond, ctxErr)
         committed == [outcome EXCEPT !.cond = c]
     IN \E stopping \in BOOLEAN :
          LET d == DecideTransition(c, purpose # "initial" \/ stopping, FALSE)
              next == CASE d.scheduleRepair -> "repair"
                        [] d.scheduleRetry  -> "retry"
                        [] d.projection = "succeeded" /\ purpose = "initial" /\ ~outcome.structured
                             /\ ~stopping -> "extract"
                        [] OTHER -> "none"
          IN IF next # "none"
             THEN /\ purpose' = next /\ pc' = "begin" /\ outcome' = NoResult
                  /\ obs' = NoObs
                  /\ result' = IF next = "extract" THEN committed ELSE result
             ELSE /\ pc' = "done"
                  /\ result' = IF ExtractionIsBounded(purpose, c) /\ c # "valid_review" THEN result ELSE committed
                  /\ UNCHANGED <<purpose, outcome, obs>>
  /\ UNCHANGED <<ctxErr, deferred, pending, extraction, captures, refused, unplanned>>

Next ==
  \/ ContextEnds \/ Begin \/ Launch \/ Observe \/ Reject \/ Receive
  \/ ContentFirst \/ ContentRepair \/ ContentExtract \/ Accept \/ AcceptExtraction
  \/ Return \/ Schedule
  \/ pc = "done" /\ UNCHANGED vars

Spec == Init /\ [][Next]_vars

-----------------------------------------------------------------------------
TypeOK ==
  /\ pc \in {"begin", "launch", "observe", "observed", "content", "accept", "return", "scheduling", "done"}
  /\ purpose \in Purposes /\ ctxErr \in {"none", "deadline", "canceled"}
  /\ deferred \in BOOLEAN /\ unplanned \in BOOLEAN
  /\ pending \in 0 .. 1 /\ extraction \in 0 .. 1
  /\ outcome.cond \in AttemptConditions \cup {NoCondition} /\ outcome.report \in 0 .. 2

\* A repair or an extraction the coordinator granted finds the input the first invocation
\* retained for it.  The one exception is a repair row accept() returns without a plan,
\* for evidence it could not read (provider_runtime.go:981) or an output it could not
\* build (1009): that repair is bound to fail.
GrantFindsInput ==
  /\ pc = "begin" /\ purpose = "repair" /\ ~unplanned => pending = 1
  /\ pc = "begin" /\ purpose = "extract" => extraction = 1

\* What a repair or an extraction publishes is the report of the first invocation, never
\* its own text (provider_runtime.go:875, 946, 1072); a retry publishes its own.
ReportIsPrimary ==
  outcome.cond = "valid_review" =>
    outcome.report = IF purpose = "retry" THEN 2 ELSE 1

\* A stream the diagnostics refused, or an output rejected for its content, leaves no bytes
\* behind: neither the stream nor the candidate cut from it stays in the receipt.
RefusedLeavesNoBytes ==
  \A k \in {1, 2} :
    /\ "stdout" \in refused[k] => captures[k].stdout # "kept" /\ captures[k].candidate # "kept"
    /\ "stderr" \in refused[k] => captures[k].stderr # "kept"

\* A source that changed under the provider decides the attempt, whatever ended the
\* context meanwhile: it fails closed, and is neither a timeout nor a cancellation nor
\* something to retry.  Only a failure to persist the diagnostics, or a receipt the
\* observation's validation refused, may stand in its place.
BreachIsReported ==
  pc = "done" /\ obs.breach \in {"source", "workspace"} =>
    result.cond \in SecurityRows \cup {"artifact_failure", "internal_invariant"}

InvocationIsSound == GrantFindsInput /\ ReportIsPrimary /\ RefusedLeavesNoBytes /\ BreachIsReported

=============================================================================
