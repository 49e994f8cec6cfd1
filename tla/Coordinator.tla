----------------------------- MODULE Coordinator -----------------------------
(***************************************************************************)
(* One execution of the review coordinator: the coordinator goroutine that  *)
(* owns every domain transition, the scheduler's worker goroutines that     *)
(* invoke providers, and the contexts (caller, run deadline, dispatch) that *)
(* both sample while they work.                                             *)
(*                                                                         *)
(* Models internal/app/review/coordinator.go (execute, abort, the waves,    *)
(* cancelAll, record, finishRun) and invocation_scheduler.go (admission,    *)
(* workers, outcome reduction, close).  A role is its rank in               *)
(* FixedRoleOrder, so "in role order" is the order of the naturals.         *)
(***************************************************************************)
EXTENDS AttemptPolicy, ReviewDomain, FiniteSets

CONSTANTS
  NumRoles,          \* how many roles the run selects
  MaxActiveLanes,    \* the worker goroutines of the scheduler
  RuntimeConditions, \* the conditions a provider invocation may report
  MaxFaults,         \* bound on failures of the diagnostics sink, the identity
                     \* issuer and PrepareInitial in one execution
  ExtractionAdmitted \* AdmitStructuredExtraction was called before the run

ASSUME ConstantsAssumption ==
  /\ NumRoles \in Nat \ {0}
  /\ MaxActiveLanes \in Nat \ {0}
  /\ RuntimeConditions \subseteq AttemptConditions
  /\ MaxFaults \in Nat
  /\ ExtractionAdmitted \in BOOLEAN

Roles == 1..NumRoles

VARIABLES
  pc,              \* where the coordinator goroutine is
  ret,             \* where cancelAll returns to
  cancelCondition, \* cancelAll's argument, then the condition its roles receive
  wave,            \* roles with a job in the wave being driven
  dispatched,      \* roles of the wave whose job was dispatched
  todo,            \* roles the loop at pc has not visited
  next,            \* roles with a follow-up job for the next wave
  runState, roleState, attempt, output,  \* the domain aggregates and role outputs
  runStarted, terminalRoles, workersCloseAuthorized, runTerminalRecorded,
                   \* what record() has accepted into the trace
  dispatchEvents, commitEvents, \* dispatch and commit events per role
  dispatchStop,    \* dispatchStopCondition, none until recorded
  stopCondition,   \* the run's stop condition, none unless stopping
  refusedRole,     \* a role transition was refused by the domain
  failed,          \* execute() is returning an error
  faults,          \* failures injected so far
  job, result,     \* per role: its job in the scheduler, and what it reported
  gateOpen,        \* the wave's start gate is closed as a channel: jobs may run
  closed,          \* scheduler.close() closed the job queue
  callerErr, workErr, schedErr \* Err() of the caller, run and dispatch contexts

control == <<pc, ret, cancelCondition, wave, dispatched, todo, next>>
domain  == <<runState, roleState, attempt, output, refusedRole>>
trace   == <<runStarted, terminalRoles, workersCloseAuthorized, runTerminalRecorded,
             dispatchEvents, commitEvents>>
stop    == <<dispatchStop, stopCondition>>
workers == <<job, result, gateOpen, closed>>
context == <<callerErr, workErr, schedErr>>
fault   == <<failed, faults>>
vars    == <<control, domain, trace, stop, workers, context, fault>>

NoResult == [condition |-> NoCondition, output |-> "none"]

Init ==
  /\ pc = "admit" /\ ret = "none" /\ cancelCondition = NoCondition
  /\ wave = {} /\ dispatched = {} /\ todo = {} /\ next = {}
  /\ runState = "pending"
  /\ roleState = [r \in Roles |-> "pending"]
  /\ attempt = [r \in Roles |-> NoAttempt]
  /\ output = [r \in Roles |-> "none"]
  /\ runStarted = FALSE /\ terminalRoles = {}
  /\ workersCloseAuthorized = FALSE /\ runTerminalRecorded = FALSE
  /\ dispatchEvents = [r \in Roles |-> 0] /\ commitEvents = [r \in Roles |-> 0]
  /\ dispatchStop = NoCondition /\ stopCondition = NoCondition
  /\ refusedRole = FALSE /\ failed = FALSE /\ faults = 0
  /\ job = [r \in Roles |-> "idle"] /\ result = [r \in Roles |-> NoResult]
  /\ gateOpen = FALSE /\ closed = FALSE
  /\ callerErr = "none" /\ workErr = "none" /\ schedErr = "none"

-----------------------------------------------------------------------------
(* Contexts.  The caller may cancel or reach its own deadline at any time,   *)
(* the run deadline may pass at any time; a parent's end reaches its child   *)
(* after the parent's Err() is already visible.                              *)

CallerEnds ==
  /\ pc \notin {"done", "rejected"} /\ callerErr = "none"
  /\ callerErr' \in {"canceled", "deadline"}
  /\ UNCHANGED <<control, domain, trace, stop, workers, workErr, schedErr, fault>>

RunDeadline ==
  /\ pc \notin {"done", "rejected"} /\ workErr = "none"
  /\ workErr' = "deadline"
  /\ UNCHANGED <<control, domain, trace, stop, workers, callerErr, schedErr, fault>>

PropagateToRun ==
  /\ callerErr # "none" /\ workErr = "none"
  /\ workErr' = callerErr
  /\ UNCHANGED <<control, domain, trace, stop, workers, callerErr, schedErr, fault>>

PropagateToDispatch ==
  /\ workErr # "none" /\ schedErr = "none"
  /\ schedErr' = workErr
  /\ UNCHANGED <<control, domain, trace, stop, workers, callerErr, workErr, fault>>

\* The scheduler context after cancelDispatch().
CancelledDispatch == IF schedErr = "none" THEN "canceled" ELSE schedErr

\* contextCondition().
ContextCondition ==
  IF callerErr # "none" THEN "cancelled"
  ELSE IF workErr = "deadline" THEN "timeout" ELSE "cancelled"

\* contextConditions() reduced, none when neither context gives a reason.
SampledContext ==
  IF callerErr # "none" THEN "cancelled"
  ELSE IF workErr = "deadline" THEN "timeout" ELSE NoCondition

-----------------------------------------------------------------------------
(* The scheduler's workers.  The queue is FIFO and a wave is queued in role   *)
(* order, so the next job is the one of the lowest queued role.               *)

Lanes == {r \in Roles : job[r] \in {"held", "invoking"}}

\* runWorker(): a free worker takes the next job and waits at its start gate.
WorkerTake(r) ==
  /\ job[r] = "queued"
  /\ \A q \in Roles : job[q] = "queued" => r <= q
  /\ Cardinality(Lanes) < MaxActiveLanes
  /\ job' = [job EXCEPT ![r] = "held"]
  /\ UNCHANGED <<control, domain, trace, stop, result, gateOpen, closed, context, fault>>

Report(r, c, out) ==
  /\ job' = [job EXCEPT ![r] = "sent"]
  /\ result' = [result EXCEPT ![r] = [condition |-> c, output |-> out]]
  /\ UNCHANGED <<control, domain, trace, stop, gateOpen, closed, context, fault>>

\* runWorker()/runJob(): the context ended before the provider could run, at the
\* gate, before or while waiting for process capacity.
WorkerSkip(r) ==
  /\ job[r] = "held" /\ schedErr # "none"
  /\ Report(r, IF schedErr = "deadline" THEN "timeout" ELSE "cancelled", "none")

\* runJob(): capacity was acquired but less than a provider window is left.
WorkerNoWindow(r) ==
  /\ job[r] = "held" /\ gateOpen /\ schedErr = "none"
  /\ Report(r, "timeout", "none")

\* runJob(): capacity was acquired and the runtime is entered.
WorkerInvoke(r) ==
  /\ job[r] = "held" /\ gateOpen /\ schedErr = "none"
  /\ job' = [job EXCEPT ![r] = "invoking"]
  /\ UNCHANGED <<control, domain, trace, stop, result, gateOpen, closed, context, fault>>

\* The outputs an accepted invocation may carry: free-form report or structured
\* findings; an accepted extraction is always structured.
Outputs(purpose, c) ==
  IF c # "valid_review" THEN {"none"}
  ELSE IF purpose = "extract" THEN {"structured"} ELSE {"report", "structured"}

\* runJob(): the runtime returned; the observation is reduced with the context.
WorkerReturn(r) ==
  /\ job[r] = "invoking"
  /\ \E c \in RuntimeConditions : \E out \in Outputs(LatestPurpose(attempt[r]), c) :
        LET reported == WorkerCondition(c, schedErr)
        IN  Report(r, reported, IF reported = c THEN out ELSE "none")

-----------------------------------------------------------------------------
(* record(): an event is refused by the trace rules, or the diagnostics sink  *)
(* fails, or it is accepted.                                                  *)

AllRolesTerminal == \A r \in Roles : TerminalRole(roleState[r])

Recordable(kind) ==
  /\ ~runTerminalRecorded
  /\ runStarted = (kind # "run_started")
  /\ workersCloseAuthorized => kind = "run_terminal"
  /\ kind = "workers_close_authorized" => AllRolesTerminal
  /\ kind = "run_terminal" => workersCloseAuthorized /\ TerminalRun(runState)

RecordableFor(r) == Recordable("role_event") /\ r \notin terminalRoles

Recorded(accepts, ok) ==
  \/ accepts /\ ok /\ faults' = faults
  \/ ~accepts /\ ~ok /\ faults' = faults
  \/ accepts /\ ~ok /\ faults < MaxFaults /\ faults' = faults + 1

\* Leave execute() with an error; the deferred abort() takes over.
Fails == pc' = "abort" /\ failed' = TRUE

Goes(to) == pc' = to /\ failed' = failed

NextRole == CHOOSE r \in todo : \A q \in todo : r <= q

\* Mutant: the stop is recorded but the dispatch context is not cancelled.
RequestDispatchStopRecordOnly(c, ok) ==
  LET reduced == IF dispatchStop = NoCondition THEN c ELSE Reduce(dispatchStop, c)
  IN  /\ UNCHANGED schedErr
      /\ IF reduced = dispatchStop
         THEN ok /\ faults' = faults /\ UNCHANGED dispatchStop
         ELSE /\ Recorded(Recordable("cancellation_requested"), ok)
              /\ dispatchStop' = IF ok THEN reduced ELSE dispatchStop

\* requestDispatchStop(c): cancel the dispatch context, record a stop that wins
\* over the one recorded before.
RequestDispatchStop(c, ok) ==
  LET reduced == IF dispatchStop = NoCondition THEN c ELSE Reduce(dispatchStop, c)
  IN  /\ schedErr' = CancelledDispatch
      /\ IF reduced = dispatchStop
         THEN ok /\ faults' = faults /\ UNCHANGED dispatchStop
         ELSE /\ Recorded(Recordable("cancellation_requested"), ok)
              /\ dispatchStop' = IF ok THEN reduced ELSE dispatchStop

\* Call cancelAll(c) and come back to the point named to.
CallCancelAll(c, to) ==
  /\ pc' = "cancelAll" /\ ret' = to /\ cancelCondition' = c
  /\ UNCHANGED <<wave, dispatched, todo, next, failed, faults>>

-----------------------------------------------------------------------------
(* execute(): admission, start of every role, and the wave loop.              *)

\* Everything before the run is started: a context that ended refuses admission.
Admit ==
  /\ pc = "admit"
  /\ IF workErr # "none"
     THEN pc' = "rejected" /\ failed' = TRUE /\ UNCHANGED runState
     ELSE Goes("recordStart") /\ runState' = "running"
  /\ UNCHANGED <<ret, cancelCondition, wave, dispatched, todo, next, roleState, attempt,
                 output, refusedRole, trace, stop, workers, context, faults>>

RecordStart ==
  /\ pc = "recordStart"
  /\ \E ok \in BOOLEAN :
       /\ Recorded(Recordable("run_started"), ok)
       /\ runStarted' = ok
       /\ IF ok THEN Goes("start") ELSE Fails
  /\ todo' = Roles
  /\ UNCHANGED <<ret, cancelCondition, wave, dispatched, next, domain, terminalRoles,
                 workersCloseAuthorized, runTerminalRecorded, dispatchEvents, commitEvents,
                 stop, workers, context>>

\* startPrimary() and startAttempt() for the next role in order.  The identity
\* issuer may fail after the role was queued, the diagnostics after it runs.
StartPrimary ==
  /\ pc = "start" /\ todo # {}
  /\ LET r == NextRole IN
       \/ /\ faults < MaxFaults /\ faults' = faults + 1 /\ Fails
          /\ roleState' = [roleState EXCEPT ![r] = "primary_queued"]
          /\ UNCHANGED <<attempt, wave, todo>>
       \/ \E ok \in BOOLEAN :
            /\ Recorded(RecordableFor(r), ok)
            /\ roleState' = [roleState EXCEPT ![r] = "primary_running"]
            /\ attempt' = [attempt EXCEPT ![r] = Transition(NewAttempt, "running")]
            /\ IF ok THEN Goes("start") /\ wave' = wave \cup {r} /\ todo' = todo \ {r}
                     ELSE Fails /\ UNCHANGED <<wave, todo>>
  /\ UNCHANGED <<ret, cancelCondition, dispatched, next, runState, output, refusedRole,
                 trace, stop, workers, context>>

\* PrepareInitial(): freezes the inputs of all roles; it may fail, or return the
\* error of the ended run context, which also stops the roles.
Prepare ==
  /\ pc = "start" /\ todo = {}
  /\ \/ Goes("loop") /\ UNCHANGED <<ret, cancelCondition, wave, dispatched, todo, next, faults>>
     \/ /\ faults < MaxFaults /\ faults' = faults + 1 /\ Fails
        /\ UNCHANGED <<ret, cancelCondition, wave, dispatched, todo, next>>
     \/ workErr # "none" /\ CallCancelAll(ContextCondition, "abort")
  /\ UNCHANGED <<domain, trace, stop, workers, context>>

\* The head of the wave loop.
Loop ==
  /\ pc = "loop"
  /\ IF wave = {}
     THEN Goes("afterLoop") /\ UNCHANGED <<ret, cancelCondition, wave, dispatched, todo, next, faults, gateOpen>>
     ELSE IF workErr # "none"
     THEN CallCancelAll(ContextCondition, "afterLoop") /\ UNCHANGED gateOpen
     ELSE /\ Goes("dispatch") /\ dispatched' = {} /\ todo' = wave /\ next' = {}
          /\ gateOpen' = FALSE
          /\ UNCHANGED <<ret, cancelCondition, wave, faults>>
  /\ UNCHANGED <<domain, trace, stop, job, result, closed, context>>

\* dispatchWave(): the next job is admitted behind the wave's gate, ...
AdmitJob ==
  /\ pc = "dispatch" /\ todo # {}
  /\ workErr = "none" /\ schedErr = "none"
  /\ job' = [job EXCEPT ![NextRole] = "queued"]
  /\ result' = [result EXCEPT ![NextRole] = NoResult]
  /\ Goes("dispatchJob")
  /\ UNCHANGED <<ret, cancelCondition, wave, dispatched, todo, next, domain, trace, stop,
                 gateOpen, closed, context, faults>>

\* ... its invocation is marked running and the dispatch is recorded.
DispatchJob ==
  /\ pc = "dispatchJob"
  /\ LET r == NextRole
         a == TransitionInvocation(attempt[r], LatestPurpose(attempt[r]), "running")
     IN  /\ attempt' = [attempt EXCEPT ![r] = a]
         /\ \E ok \in BOOLEAN :
              /\ Recorded(a.ok /\ RecordableFor(r), ok)
              /\ IF ok THEN /\ Goes("dispatch")
                            /\ dispatched' = dispatched \cup {r} /\ todo' = todo \ {r}
                            /\ dispatchEvents' = [dispatchEvents EXCEPT ![r] = @ + 1]
                       ELSE Fails /\ UNCHANGED <<dispatched, todo, dispatchEvents>>
  /\ UNCHANGED <<ret, cancelCondition, wave, next, runState, roleState, output, refusedRole,
                 runStarted, terminalRoles, workersCloseAuthorized, runTerminalRecorded,
                 commitEvents, stop, workers, context>>

\* dispatchWave(): a context ended; the gate of the jobs already admitted stays shut.
DispatchCut ==
  /\ pc = "dispatch" /\ todo # {}
  /\ workErr # "none" \/ schedErr # "none"
  /\ schedErr' = CancelledDispatch
  /\ IF dispatched = {}
     THEN CallCancelAll(ContextCondition, "afterLoop")
     ELSE Goes("collect") /\ UNCHANGED <<ret, cancelCondition, wave, dispatched, todo, next, faults>>
  /\ UNCHANGED <<domain, trace, stop, workers, callerErr, workErr>>

\* dispatchWave(): the whole wave is recorded; its jobs may enter the runtime.
OpenGate ==
  /\ pc = "dispatch" /\ todo = {}
  /\ gateOpen' = TRUE
  /\ Goes("collect")
  /\ UNCHANGED <<ret, cancelCondition, wave, dispatched, todo, next, domain, trace, stop,
                 job, result, closed, context, faults>>

\* The purpose of a role's current job, and whether its outcome is a trailer's
\* that the accepted report absorbs.
Bounded(r) == ExtractionIsBounded(LatestPurpose(attempt[r]), result[r].condition)

Collected == {r \in dispatched : job[r] = "collected"}

\* normalizedOutcome(): evidence reduction may turn a valid outcome into another.
EvidenceConditions(c) ==
  IF c = "valid_review" THEN {c, "invalid_evidence_claim", "internal_invariant"} ELSE {c}

\* collectWave(): one result is taken.  The first that stops the run is persisted
\* and cancels the dispatch of its peers.
Collect(r) ==
  /\ pc = "collect" /\ r \in dispatched /\ job[r] = "sent"
  /\ \E c \in EvidenceConditions(result[r].condition) :
       LET stops(q, d) == /\ ~ExtractionIsBounded(LatestPurpose(attempt[q]), d)
                          /\ ConditionStopsRun(d)
           first == /\ stops(r, c)
                    /\ \A q \in Collected : ~stops(q, result[q].condition)
       IN  /\ job' = [job EXCEPT ![r] = "collected"]
           /\ result' = [result EXCEPT ![r] =
                 IF c = result[r].condition THEN @ ELSE [condition |-> c, output |-> "none"]]
           /\ \E ok \in BOOLEAN :
                /\ first \/ ok
                /\ Recorded(TRUE, ok)
                /\ IF ok THEN Goes("collect") ELSE Fails
                /\ schedErr' = IF first /\ ok THEN CancelledDispatch ELSE schedErr
  /\ UNCHANGED <<ret, cancelCondition, wave, dispatched, todo, next, domain, trace, stop,
                 gateOpen, closed, callerErr, workErr>>

-----------------------------------------------------------------------------
(* commitWave(): the collected outcomes become domain transitions.            *)

\* The reduced condition of the wave; bounded trailers contribute nothing.
WaveCondition ==
  LET judged == {r \in dispatched : ~Bounded(r)}
  IN  IF judged = {} THEN "valid_review"
      ELSE ReduceOver(judged, [r \in judged |-> result[r].condition])

\* Reduce the wave and choose how it is committed.
CommitWave ==
  /\ pc = "collect" /\ Collected = dispatched
  /\ LET condition == WaveCondition IN
       \/ /\ SampledContext # NoCondition /\ ~RetainsAuthority(condition, SampledContext)
          /\ CallCancelAll(SampledContext, "afterCommit")
          /\ UNCHANGED <<dispatchStop, schedErr>>
       \/ /\ SampledContext = NoCondition \/ RetainsAuthority(condition, SampledContext)
          /\ ConditionStopsRun(condition)
          /\ \E ok \in BOOLEAN : /\ RequestDispatchStop(condition, ok)
                                 /\ IF ok THEN Goes("commitStopped") ELSE Fails
          /\ todo' = dispatched
          /\ UNCHANGED <<ret, cancelCondition, wave, dispatched, next>>
       \/ /\ SampledContext = NoCondition \/ RetainsAuthority(condition, SampledContext)
          /\ ~ConditionStopsRun(condition)
          /\ Goes("commitTrailers") /\ todo' = {r \in dispatched : Bounded(r)}
          /\ UNCHANGED <<ret, cancelCondition, wave, dispatched, next, faults, dispatchStop, schedErr>>
  /\ UNCHANGED <<domain, trace, stopCondition, workers, callerErr, workErr>>

\* prepareOutcomeCommit(): sample the contexts for the next job; a context that
\* ended stops dispatch and takes the job's follow-up away.  A trailer its report
\* absorbs is committed on its own condition, without a sample.
PrepareCommit ==
  /\ pc \in {"commitStopped", "commitRest"} /\ todo # {} /\ ~Bounded(NextRole)
  /\ cancelCondition' = SampledContext
  /\ LET to == IF pc = "commitStopped" THEN "commitStoppedJob" ELSE "commitJob" IN
       IF SampledContext = NoCondition
       THEN Goes(to) /\ UNCHANGED <<schedErr, dispatchStop, faults>>
       ELSE \E ok \in BOOLEAN :
              /\ RequestDispatchStop(
                   ConditionForTransition(result[NextRole].condition, SampledContext), ok)
              /\ IF ok THEN Goes(to) ELSE Fails
  /\ UNCHANGED <<ret, wave, dispatched, todo, next, domain, trace, stopCondition, workers,
                 callerErr, workErr>>

\* transitionFailedInvocation().
FailedInvocation(a, c) ==
  LET ends == CASE c = "timeout" -> "timed_out" [] c = "cancelled" -> "cancelled"
                [] OTHER -> "failed"
  IN  Transition(TransitionInvocation(a, LatestPurpose(a), ends), ends)

\* terminalizeAttempt().
TerminalizedAttempt(a, c) ==
  IF TerminalAttempt(a.state) THEN a
  ELSE Transition(a, CASE c = "valid_review" -> "succeeded" [] c = "timeout" -> "timed_out"
                       [] c = "cancelled" -> "cancelled" [] OTHER -> "failed")

\* What commitOutcome() decides to queue for a role: the policy's retry or repair,
\* or scheduleExtraction()'s trailer for a first invocation accepted as a report.
FollowUp(a, decision, out, suppress) ==
  IF decision.scheduleRetry THEN "retry"
  ELSE IF decision.scheduleRepair THEN "repair"
  ELSE IF /\ ExtractionAdmitted /\ ~suppress /\ stopCondition = NoCondition
          /\ decision.projection = "succeeded"
          /\ a.purpose = "none" /\ out = "report"
       THEN "extract" ELSE "none"

\* The attempt after commitOutcome() has applied condition c and the follow-up f.
CommittedAttempt(a, c, decided, f) ==
  LET p == LatestPurpose(a)
      validated == IF RequiresValidation(c)
                   THEN Transition(TransitionInvocation(a, p, "succeeded"), "validating")
                   ELSE a
      settled   == IF RequiresValidation(c) THEN validated ELSE FailedInvocation(a, c)
  IN  CASE f = "retry"   -> AppendInvocation(TransitionInvocation(validated, p, "failed"), "retry")
        [] f = "repair"  -> AppendInvocation(Transition(settled, "repairing"), "repair")
        [] f = "extract" -> AppendInvocation(settled, "extract")
        [] OTHER         -> TerminalizedAttempt(settled, decided)

\* TransitionRole(): refused unless the run is running and the table allows it.
RoleAccepts(r, to) == runState = "running" /\ RoleCanTransition(roleState[r], to)

\* The terminal transition of a role, and its role_terminal event.
EndRole(r, a, projection, out, to) ==
  IF a.ok /\ RoleAccepts(r, projection)
  THEN /\ roleState' = [roleState EXCEPT ![r] = projection]
       /\ output' = IF projection = "succeeded" THEN [output EXCEPT ![r] = out] ELSE output
       /\ UNCHANGED refusedRole
       /\ \E ok \in BOOLEAN :
            /\ Recorded(RecordableFor(r), ok)
            /\ terminalRoles' = IF ok THEN terminalRoles \cup {r} ELSE terminalRoles
            /\ IF ok THEN Goes(to) /\ todo' = todo \ {r} ELSE Fails /\ UNCHANGED todo
  ELSE /\ refusedRole' = (refusedRole \/ a.ok)
       /\ Fails
       /\ UNCHANGED <<roleState, output, terminalRoles, todo, faults>>

\* The commit event failed: nothing of the outcome is applied.
CommitUnrecorded(r) ==
  /\ Recorded(RecordableFor(r), FALSE)
  /\ Fails
  /\ UNCHANGED <<todo, next, domain, terminalRoles, commitEvents>>

\* commitOutcome() for an outcome that is not an absorbed trailer.
CommitOutcome(r, c, cancellationObserved, suppress, to) ==
  LET a        == attempt[r]
      decision == DecideTransition(c, suppress \/ a.purpose \in {"repair", "retry"},
                                   cancellationObserved)
      f        == FollowUp(a, decision, result[r].output, suppress)
      after    == CommittedAttempt(a, c, decision.condition, f)
  IN  \/ CommitUnrecorded(r)
      \/ /\ RecordableFor(r)
         /\ commitEvents' = [commitEvents EXCEPT ![r] = @ + 1]
         /\ attempt' = [attempt EXCEPT ![r] = after]
         /\ UNCHANGED runState
         /\ IF f = "none"
            THEN EndRole(r, after, decision.projection, result[r].output, to) /\ UNCHANGED next
            ELSE /\ \E ok \in BOOLEAN :
                      /\ Recorded(after.ok /\ RecordableFor(r), ok)
                      /\ IF ok THEN Goes(to) /\ todo' = todo \ {r} /\ next' = next \cup {r}
                               ELSE Fails /\ UNCHANGED <<todo, next>>
                 /\ UNCHANGED <<roleState, output, refusedRole, terminalRoles>>

\* commitExtractionOutcome(): the trailer can only upgrade the accepted report.
CommitExtraction(r, c, to) ==
  LET ends == CASE c = "valid_review" -> "succeeded" [] c \in TimeoutRows -> "timed_out"
                [] c = "cancelled" -> "cancelled" [] OTHER -> "failed"
      after == TerminalizedAttempt(TransitionInvocation(attempt[r], "extract", ends), "valid_review")
  IN  \/ CommitUnrecorded(r)
      \/ /\ RecordableFor(r)
         /\ commitEvents' = [commitEvents EXCEPT ![r] = @ + 1]
         /\ attempt' = [attempt EXCEPT ![r] = after]
         /\ UNCHANGED <<runState, next>>
         /\ EndRole(r, after, "succeeded", IF c = "valid_review" THEN "structured" ELSE "report", to)

Commit(r, c, cancellationObserved, suppress, to) ==
  IF ExtractionIsBounded(LatestPurpose(attempt[r]), c)
  THEN CommitExtraction(r, c, to)
  ELSE CommitOutcome(r, c, cancellationObserved, suppress, to)

\* One absorbed trailer: first in a wave that goes on, in role order in one that stops.
CommitTrailer ==
  /\ pc \in {"commitTrailers", "commitStopped"} /\ todo # {} /\ Bounded(NextRole)
  /\ Commit(NextRole, result[NextRole].condition, FALSE, TRUE, pc)
  /\ UNCHANGED <<ret, cancelCondition, wave, dispatched, runStarted, workersCloseAuthorized,
                 runTerminalRecorded, dispatchEvents, stop, workers, context>>

\* One prepared job of a wave that stops (no follow-up) or goes on.
CommitJob ==
  /\ pc \in {"commitStoppedJob", "commitJob"}
  /\ LET stopped == pc = "commitStoppedJob"
     IN  Commit(NextRole, ConditionForTransition(result[NextRole].condition, cancelCondition),
                cancelCondition = "cancelled", stopped \/ cancelCondition # NoCondition,
                IF stopped THEN "commitStopped" ELSE "commitRest")
  /\ cancelCondition' = NoCondition
  /\ UNCHANGED <<ret, wave, dispatched, runStarted, workersCloseAuthorized,
                 runTerminalRecorded, dispatchEvents, stop, workers, context>>

\* The loops of commitWave() end.
CommitLoopEnds ==
  /\ todo = {}
  /\ \/ /\ pc = "commitTrailers"
        /\ Goes("commitRest") /\ todo' = {r \in dispatched : ~Bounded(r)}
        /\ UNCHANGED <<ret, cancelCondition, wave, dispatched, next, faults>>
     \/ /\ pc = "commitRest"
        /\ Goes("afterCommit")
        /\ UNCHANGED <<ret, cancelCondition, wave, dispatched, todo, next, faults>>
     \/ /\ pc = "commitStopped"
        /\ CallCancelAll(WaveCondition, "afterCommit")
  /\ UNCHANGED <<domain, trace, stop, workers, context>>

\* execute(): after a wave the run context is sampled, and a stop ends the loop.
AfterCommit ==
  /\ pc = "afterCommit"
  /\ \/ workErr # "none" /\ CallCancelAll(ContextCondition, "nextWave")
     \/ workErr = "none" /\ Goes("nextWave")
        /\ UNCHANGED <<ret, cancelCondition, wave, dispatched, todo, next, faults>>
  /\ UNCHANGED <<domain, trace, stop, workers, context>>

NextWave ==
  /\ pc = "nextWave"
  /\ IF stopCondition # NoCondition
     THEN Goes("afterLoop") /\ wave' = {}
     ELSE Goes("loop") /\ wave' = next
  /\ dispatched' = {} /\ next' = {}
  /\ UNCHANGED <<ret, cancelCondition, todo, domain, trace, stop, workers,
                 context, faults>>

-----------------------------------------------------------------------------
(* cancelAll(): the run stops; every live role is cancelled or timed out.     *)

\* Where an error of cancelAll() leads: abort() itself carries on.
AfterCancelError == IF ret = "abortAuthorize" THEN ret ELSE "abort"

\* The stop condition is reduced with the one before, then dispatch is stopped.
CancelAll ==
  /\ pc = "cancelAll"
  /\ LET effective == IF stopCondition = NoCondition THEN cancelCondition
                      ELSE Reduce(stopCondition, cancelCondition)
     IN  /\ stopCondition' = effective
         /\ \E ok \in BOOLEAN :
              /\ RequestDispatchStop(effective, ok)
              /\ IF ok THEN Goes("cancelSample")
                 ELSE pc' = AfterCancelError /\ failed' = TRUE
  /\ UNCHANGED <<ret, cancelCondition, wave, dispatched, todo, next, domain, trace, workers,
                 callerErr, workErr>>

\* The condition the roles receive is the context's, sampled after the stop.
CancelSample ==
  /\ pc = "cancelSample"
  /\ cancelCondition' = ContextCondition
  /\ todo' = {r \in Roles : ~TerminalRole(roleState[r])}
  /\ Goes("cancelRoles")
  /\ UNCHANGED <<ret, wave, dispatched, next, domain, trace, stop, workers, context, faults>>

\* stopCoordinatorAttempt().
StoppedAttempt(a, c) ==
  LET latest == LatestState(a)
      ended  == CASE latest \notin {"queued", "running"} -> a
                  [] c = "timeout" /\ latest = "running" ->
                       TransitionInvocation(a, LatestPurpose(a), "timed_out")
                  [] OTHER -> TransitionInvocation(a, LatestPurpose(a), "cancelled")
  IN  IF TerminalAttempt(a.state) THEN a
      ELSE Transition(ended, IF c = "cancelled" THEN "cancelled"
                             ELSE IF a.state \in {"running", "repairing"} THEN "timed_out"
                             ELSE "failed")

\* cancelAll()'s loop: the next live role.  A role that never got an attempt has
\* none to stop.
CancelRole ==
  /\ pc = "cancelRoles" /\ todo # {}
  /\ LET r     == NextRole
         after == IF attempt[r].state = "none" THEN attempt[r]
                  ELSE StoppedAttempt(attempt[r], cancelCondition)
         to    == IF cancelCondition = "cancelled" THEN "cancelled" ELSE "failed"
     IN  /\ attempt' = [attempt EXCEPT ![r] = after]
         /\ IF after.ok /\ RoleAccepts(r, to)
            THEN /\ roleState' = [roleState EXCEPT ![r] = to]
                 /\ UNCHANGED refusedRole
                 /\ \E ok \in BOOLEAN :
                      /\ Recorded(RecordableFor(r), ok)
                      /\ terminalRoles' = IF ok THEN terminalRoles \cup {r} ELSE terminalRoles
                      /\ IF ok THEN Goes("cancelRoles") /\ todo' = todo \ {r}
                         ELSE pc' = AfterCancelError /\ failed' = TRUE /\ UNCHANGED todo
            ELSE /\ refusedRole' = (refusedRole \/ after.ok)
                 /\ pc' = AfterCancelError /\ failed' = TRUE
                 /\ UNCHANGED <<roleState, terminalRoles, todo, faults>>
  /\ UNCHANGED <<ret, cancelCondition, wave, dispatched, next, runState, output, runStarted,
                 workersCloseAuthorized, runTerminalRecorded, dispatchEvents, commitEvents,
                 stop, workers, context>>

\* cancelAll() returns; a failed PrepareInitial still returns its error.
CancelReturn ==
  /\ pc = "cancelRoles" /\ todo = {}
  /\ pc' = ret /\ failed' = (failed \/ ret = "abort")
  /\ ret' = "none" /\ cancelCondition' = NoCondition
  /\ UNCHANGED <<wave, dispatched, todo, next, domain, trace, stop, workers, context, faults>>

-----------------------------------------------------------------------------
(* execute(): the end of a run that saw no error.                             *)

EndUnchanged == UNCHANGED <<domain, trace, stop, workers, context>>

AfterLoop ==
  /\ pc = "afterLoop"
  /\ \/ workErr # "none" /\ CallCancelAll(ContextCondition, "checkRoles")
     \/ workErr = "none" /\ Goes("checkRoles")
        /\ UNCHANGED <<ret, cancelCondition, wave, dispatched, todo, next, faults>>
  /\ EndUnchanged

CheckRoles ==
  /\ pc = "checkRoles"
  /\ \/ ~AllRolesTerminal /\ CallCancelAll("internal_invariant", "linearize")
     \/ AllRolesTerminal /\ Goes("linearize")
        /\ UNCHANGED <<ret, cancelCondition, wave, dispatched, todo, next, faults>>
  /\ EndUnchanged

\* The worker-close linearization point: the last context sample of the run.
Linearize ==
  /\ pc = "linearize"
  /\ \/ workErr # "none" /\ CallCancelAll(ContextCondition, "authorize")
     \/ workErr = "none" /\ Goes("authorize")
        /\ UNCHANGED <<ret, cancelCondition, wave, dispatched, todo, next, faults>>
  /\ EndUnchanged

\* Record the authorization to close the workers; abort() does so at most once more
\* and goes on without it.
Authorize ==
  /\ pc \in {"authorize", "abortAuthorize"}
  /\ IF pc = "abortAuthorize" /\ workersCloseAuthorized
     THEN Goes("abortClose") /\ UNCHANGED <<workersCloseAuthorized, faults>>
     ELSE \E ok \in BOOLEAN :
            /\ Recorded(Recordable("workers_close_authorized"), ok)
            /\ workersCloseAuthorized' = ok
            /\ IF pc = "abortAuthorize" THEN Goes("abortClose")
               ELSE IF ok THEN Goes("close") ELSE Fails
  /\ UNCHANGED <<ret, cancelCondition, wave, dispatched, todo, next, domain, runStarted,
                 terminalRoles, runTerminalRecorded, dispatchEvents, commitEvents, stop,
                 workers, context>>

\* scheduler.close(): no job is admitted any more, ...
CloseJobs ==
  /\ pc \in {"close", "abortClose"}
  /\ closed' = TRUE
  /\ Goes(IF pc = "close" THEN "join" ELSE IF closed THEN "abortFinish" ELSE "abortJoin")
  /\ UNCHANGED <<ret, cancelCondition, wave, dispatched, todo, next, domain, trace, stop,
                 job, result, gateOpen, context, faults>>

\* Mutant: only workers inside a provider are waited for.
WorkersIdleNoProvider == \A r \in Roles : job[r] # "invoking"

\* No job waits, is held at its gate or is inside a provider.
WorkersIdle == \A r \in Roles : job[r] \notin {"queued", "held", "invoking"}

\* ... and the workers are joined before the capacity is given back.
JoinWorkers ==
  /\ pc \in {"join", "abortJoin"}
  /\ WorkersIdle
  /\ schedErr' = CancelledDispatch
  /\ Goes(IF pc = "join" THEN "finish" ELSE "abortFinish")
  /\ UNCHANGED <<ret, cancelCondition, wave, dispatched, todo, next, domain, trace, stop,
                 workers, callerErr, workErr, faults>>

\* finishRun(): the terminal state of the run.
FinalRunState ==
  IF ConditionCancelsRun(stopCondition) THEN "cancelled"
  ELSE IF stopCondition \notin {NoCondition, "valid_review"} THEN "failed"
  ELSE IF \A r \in Roles : roleState[r] = "succeeded" THEN "completed" ELSE "failed"

FinishRun ==
  /\ pc \in {"finish", "abortFinish"}
  /\ runState' = IF pc = "abortFinish" /\ TerminalRun(runState) THEN runState ELSE FinalRunState
  /\ Goes(IF pc = "finish" THEN "terminal" ELSE "abortTerminal")
  /\ UNCHANGED <<ret, cancelCondition, wave, dispatched, todo, next, roleState, attempt, output,
                 refusedRole, trace, stop, workers, context, faults>>

RecordTerminal ==
  /\ pc \in {"terminal", "abortTerminal"}
  /\ IF runTerminalRecorded
     THEN Goes("done") /\ UNCHANGED <<runTerminalRecorded, faults>>
     ELSE \E ok \in BOOLEAN :
            /\ Recorded(Recordable("run_terminal"), ok)
            /\ runTerminalRecorded' = ok
            /\ IF ok \/ pc = "abortTerminal" THEN Goes("done") ELSE Fails
  /\ UNCHANGED <<ret, cancelCondition, wave, dispatched, todo, next, domain, runStarted,
                 terminalRoles, workersCloseAuthorized, dispatchEvents, commitEvents, stop,
                 workers, context>>

-----------------------------------------------------------------------------
(* abort(): the deferred finalization of an execution that returns an error.  *)

Abort ==
  /\ pc = "abort"
  /\ Goes("abortCancel")
  /\ IF runStarted THEN UNCHANGED <<runStarted, faults>>
     ELSE \E ok \in BOOLEAN : Recorded(Recordable("run_started"), ok) /\ runStarted' = ok
  /\ UNCHANGED <<ret, cancelCondition, wave, dispatched, todo, next, domain, terminalRoles,
                 workersCloseAuthorized, runTerminalRecorded, dispatchEvents, commitEvents,
                 stop, workers, context>>

AbortCancel ==
  /\ pc = "abortCancel"
  /\ \/ ~AllRolesTerminal /\ CallCancelAll("internal_invariant", "abortAuthorize")
     \/ AllRolesTerminal /\ Goes("abortAuthorize")
        /\ UNCHANGED <<ret, cancelCondition, wave, dispatched, todo, next, faults>>
  /\ EndUnchanged

\* The execution is over; only contexts may still end.
Finished == pc \in {"done", "rejected"} /\ UNCHANGED vars

-----------------------------------------------------------------------------
CoordinatorStep ==
  \/ Admit \/ RecordStart \/ StartPrimary \/ Prepare \/ Loop
  \/ AdmitJob \/ DispatchJob \/ DispatchCut \/ OpenGate
  \/ \E r \in Roles : Collect(r)
  \/ CommitWave \/ PrepareCommit \/ CommitTrailer \/ CommitJob \/ CommitLoopEnds
  \/ AfterCommit \/ NextWave
  \/ CancelAll \/ CancelSample \/ CancelRole \/ CancelReturn
  \/ AfterLoop \/ CheckRoles \/ Linearize \/ Authorize \/ CloseJobs \/ JoinWorkers
  \/ FinishRun \/ RecordTerminal \/ Abort \/ AbortCancel

WorkerStep(r) ==
  \/ WorkerTake(r) \/ WorkerSkip(r) \/ WorkerNoWindow(r) \/ WorkerInvoke(r) \/ WorkerReturn(r)

ContextStep == CallerEnds \/ RunDeadline \/ PropagateToRun \/ PropagateToDispatch

Next == CoordinatorStep \/ (\E r \in Roles : WorkerStep(r)) \/ ContextStep \/ Finished

Spec == Init /\ [][Next]_vars

\* The goroutines are scheduled fairly and a cancelled parent reaches its child.  A
\* provider invocation returns: the runtime bounds it by the provider's own timeout
\* (and WorkerCapacity shows that a slot is granted).  Nobody need cancel the caller.
FairSpec ==
  /\ Spec
  /\ WF_vars(CoordinatorStep)
  /\ \A r \in Roles : WF_vars(WorkerStep(r))
  /\ WF_vars(PropagateToRun) /\ WF_vars(PropagateToDispatch)

-----------------------------------------------------------------------------
(* Properties.                                                               *)

Conditions == AttemptConditions \cup {NoCondition}
PCs == {"admit", "rejected", "recordStart", "start", "loop", "dispatch", "dispatchJob", "collect",
        "commitStopped", "commitStoppedJob", "commitTrailers", "commitRest", "commitJob",
        "afterCommit", "nextWave", "cancelAll", "cancelSample", "cancelRoles", "afterLoop",
        "checkRoles", "linearize", "authorize", "close", "join", "finish", "terminal",
        "abort", "abortCancel", "abortAuthorize", "abortClose", "abortJoin", "abortFinish",
        "abortTerminal", "done"}
JobStates == {"idle", "queued", "held", "invoking", "sent", "collected"}
ContextErrors == {"none", "canceled", "deadline"}
OutputKinds == {"none", "report", "structured"}

ControlType ==
  /\ pc \in PCs
  /\ ret \in {"none", "abort", "afterLoop", "afterCommit", "nextWave", "checkRoles",
              "linearize", "authorize", "abortAuthorize"}
  /\ cancelCondition \in Conditions
  /\ wave \subseteq Roles /\ dispatched \subseteq Roles /\ todo \subseteq Roles
  /\ next \subseteq Roles
DomainType ==
  /\ runState \in RunStates
  /\ roleState \in [Roles -> RoleStates]
  /\ attempt \in [Roles -> AttemptType]
  /\ output \in [Roles -> OutputKinds]
  /\ refusedRole \in BOOLEAN
TraceType ==
  /\ runStarted \in BOOLEAN /\ terminalRoles \subseteq Roles
  /\ workersCloseAuthorized \in BOOLEAN /\ runTerminalRecorded \in BOOLEAN
  /\ dispatchEvents \in [Roles -> Nat] /\ commitEvents \in [Roles -> Nat]
StopType == dispatchStop \in Conditions /\ stopCondition \in Conditions
WorkersType ==
  /\ job \in [Roles -> JobStates]
  /\ result \in [Roles -> [condition : Conditions, output : OutputKinds]]
  /\ gateOpen \in BOOLEAN /\ closed \in BOOLEAN
ContextType ==
  callerErr \in ContextErrors /\ workErr \in ContextErrors /\ schedErr \in ContextErrors
FaultType == failed \in BOOLEAN /\ faults \in 0..MaxFaults

\* Every variable keeps its type.
TypeOK ==
  /\ ControlType /\ DomainType /\ TraceType /\ StopType /\ WorkersType /\ ContextType
  /\ FaultType

\* The coordinator asks the domain for an illegal transition only after one of its
\* dependencies failed: under every interleaving of outcomes, follow-ups and context
\* ends the aggregates accept what commitOutcome and cancelAll do to them.
RefusedOnlyAfterFault ==
  faults = 0 => ~refusedRole /\ \A r \in Roles : attempt[r].ok

\* finishRun runs only after scheduler.close() joined every worker, on the error
\* paths too: a terminal run has no provider in flight and no job still queued.
JoinedBeforeTerminal ==
  TerminalRun(runState) =>
    closed /\ \A r \in Roles : job[r] \in {"idle", "sent", "collected"}

\* A completed run was never stopped and holds, for every role, an attempt that
\* succeeded and the output it delivered (finishRun against commitOutcome).
CompletedMeansDelivered ==
  runState = "completed" =>
    /\ stopCondition = NoCondition
    /\ \A r \in Roles : /\ roleState[r] = "succeeded" /\ output[r] # "none"
                        /\ attempt[r].state = "succeeded"

\* An execution that returns no error has a complete trace: it ends with run_terminal,
\* every role has its role_terminal, and what was dispatched for a role that succeeded
\* was committed, follow-up included.
CompleteTrace ==
  pc = "done" /\ ~failed =>
    /\ runTerminalRecorded /\ terminalRoles = Roles
    /\ \A r \in Roles :
         /\ commitEvents[r] <= dispatchEvents[r]
         /\ roleState[r] = "succeeded" =>
              commitEvents[r] = Invocations(attempt[r]) /\ dispatchEvents[r] = commitEvents[r]

\* Whatever else the wave and the contexts report, a collected integrity failure
\* decides the run: internal and artifact failures fail it, security and mutation
\* violations cancel it (commitWave's reduction, cancelAll, finishRun).
CollectedIntegrity(c) == \E r \in Roles : job[r] = "collected" /\ result[r].condition \in c

IntegrityDecidesRun ==
  pc = "done" /\ ~failed =>
    /\ CollectedIntegrity({"internal_invariant", "artifact_failure"}) => runState = "failed"
    /\ CollectedIntegrity({"security_violation", "mutation_violation"})
         /\ ~CollectedIntegrity({"internal_invariant", "artifact_failure"})
         => runState = "cancelled"

\* A trailer never launders a protected failure into role success
\* (extractionBoundedFailureCeiling); a trailer cancelled by a stop may keep its
\* accepted report, but then the run does not complete.
TrailerNotLaundered ==
  \A r \in Roles : roleState[r] = "succeeded" /\ attempt[r].purpose = "extract" =>
    /\ TerminalClass(result[r].condition) \notin
         {"internal", "security_policy", "artifact", "configuration"}
    /\ result[r].condition = "cancelled" => runState # "completed"

\* A role whose report was accepted loses it only when the run is stopped or the
\* trailer itself hit a protected configuration failure (commitExtractionOutcome).
AcceptedReportLostOnlyToStop ==
  \A r \in Roles :
    /\ pc = "done" /\ ~failed /\ attempt[r].purpose = "extract" /\ roleState[r] # "succeeded"
    => stopCondition # NoCondition \/ result[r].condition = "configuration_violation"

\* What an execution reports is what happened to its roles: a completed run delivered
\* every role, an execution without error has a complete trace, and the aggregates
\* refuse a transition only after a dependency failed (commitOutcome, finishRun).
OutcomeIsTrue == CompletedMeansDelivered /\ CompleteTrace /\ RefusedOnlyAfterFault

\* A collected integrity failure decides the run and no trailer launders it into the
\* success of its role (commitWave, commitExtractionOutcome).
IntegrityPrevails == IntegrityDecidesRun /\ TrailerNotLaundered

\* What the comment in commitWave says: a peer role stopping the run does not discard
\* this role's already accepted report.  The trailer's own failure is not protected and
\* neither the caller nor the run deadline ended.
PeerStopKeepsAcceptedReport ==
  \A r \in Roles :
    /\ pc = "done" /\ ~failed /\ attempt[r].purpose = "extract"
    /\ callerErr = "none" /\ workErr = "none"
    /\ TerminalClass(result[r].condition) \notin
         {"internal", "security_policy", "artifact", "configuration"}
    => roleState[r] = "succeeded"

\* abort() finalizes what an error left behind: wherever one dependency failed, the
\* snapshot it returns has only terminal roles, unless the run deadline had passed.
AbortFinalizes == pc = "done" /\ workErr # "deadline" => AllRolesTerminal

\* What TestCoordinatorPostAdmissionFailureReturnsTerminalSnapshot demands of a run
\* aborted after admission: every role of the returned snapshot is terminal.
AbortedRolesAreTerminal == pc = "done" => AllRolesTerminal

\* A stop only ever gains authority (cancelAll and requestDispatchStop reduce with what
\* they recorded before), and nothing is dispatched after a recorded stop.
StopNeverWeakens ==
  [][/\ stopCondition # NoCondition =>
          stopCondition' # NoCondition /\ Precedence(stopCondition') <= Precedence(stopCondition)
     /\ dispatchStop # NoCondition =>
          /\ dispatchStop' # NoCondition /\ Precedence(dispatchStop') <= Precedence(dispatchStop)
          /\ dispatchEvents' = dispatchEvents]_vars

\* Every execution ends, whatever fails or ends and however its workers interleave: in
\* particular jobs behind a gate that never opens do not block scheduler.close().
Termination == <>(pc \in {"done", "rejected"})
=============================================================================
