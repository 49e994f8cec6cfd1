----------------------------- MODULE ReviewDomain -----------------------------
(***************************************************************************)
(* The review aggregates: the transition tables of runs, role tasks,        *)
(* attempts and invocations, and the operations of an attempt with their    *)
(* guards.  Pure operators.                                                 *)
(*                                                                         *)
(* Models internal/domain/states.go, attempt.go and run.go.  An attempt is  *)
(* a record; an operation that the code refuses with an error leaves it as  *)
(* it is and clears ok, and nothing is applied to it after that.            *)
(***************************************************************************)
EXTENDS Naturals

RunStates     == {"pending", "running", "completed", "degraded", "failed", "cancelled"}
RoleStates    == {"pending", "primary_queued", "primary_running",
                  "succeeded", "failed", "cancelled", "blocked"}
AttemptStates == {"queued", "running", "validating", "repairing",
                  "succeeded", "failed", "timed_out", "cancelled", "blocked"}
InvocationStates == {"queued", "running", "succeeded", "failed", "timed_out",
                     "cancelled", "blocked"}
Purposes      == {"initial", "repair", "retry", "extract"}

TerminalRole(s)       == s \in {"succeeded", "failed", "cancelled", "blocked"}
TerminalRun(s)        == s \in {"completed", "degraded", "failed", "cancelled"}
TerminalAttempt(s)    == s \in {"succeeded", "failed", "timed_out", "cancelled", "blocked"}
TerminalInvocation(s) == s \in InvocationStates \ {"queued", "running"}

\* Mutant: the table has no way to cancel a role that never started.
RoleCanTransitionStarted(s, t) ==
  \/ s = "pending" /\ t = "primary_queued"
  \/ s = "primary_queued" /\ t \in {"primary_running", "blocked"}
  \/ s = "primary_running" /\ t \in {"succeeded", "failed", "cancelled"}

RoleCanTransition(s, t) ==
  \/ s = "pending" /\ t \in {"primary_queued", "cancelled", "blocked"}
  \/ s = "primary_queued" /\ t \in {"primary_running", "cancelled", "blocked"}
  \/ s = "primary_running" /\ t \in {"succeeded", "failed", "cancelled"}

AttemptCanTransition(s, t) ==
  \/ s = "queued" /\ t \in {"running", "cancelled", "blocked"}
  \/ s = "running" /\ t \in {"validating", "failed", "timed_out", "cancelled", "blocked"}
  \/ s = "validating" /\ t \in {"repairing", "succeeded", "failed", "cancelled", "blocked"}
  \/ s = "repairing" /\ t \in {"validating", "failed", "timed_out", "cancelled", "blocked"}

InvocationCanTransition(s, t) ==
  \/ s = "queued" /\ t \in {"running", "cancelled", "blocked"}
  \/ s = "running" /\ t \in InvocationStates \ {"queued", "running"}

-----------------------------------------------------------------------------
(* The attempt aggregate.  purpose is the purpose of the second invocation,  *)
(* "none" while there is only the initial one; second is its state.          *)

NoAttempt  == [state |-> "none", first |-> "none", second |-> "none",
               purpose |-> "none", ok |-> TRUE]

NewAttempt == [state |-> "queued", first |-> "queued", second |-> "none",
               purpose |-> "none", ok |-> TRUE]

AttemptType == [state   : AttemptStates \cup {"none"},
                first   : InvocationStates \cup {"none"},
                second  : InvocationStates \cup {"none"},
                purpose : (Purposes \ {"initial"}) \cup {"none"},
                ok      : BOOLEAN]

Invocations(a)    == IF a.purpose = "none" THEN 1 ELSE 2
LatestPurpose(a)  == IF a.purpose = "none" THEN "initial" ELSE a.purpose
LatestState(a)    == IF a.purpose = "none" THEN a.first ELSE a.second

\* latestReportInvocation: the extraction trailer never carries the report.
LatestReportState(a) == IF a.purpose \in {"none", "extract"} THEN a.first ELSE a.second

Refused(a) == [a EXCEPT !.ok = FALSE]

\* The aggregate guards of Attempt.Transition beyond the state table.
TransitionGuard(a, t) ==
  CASE t = "validating" /\ a.state = "running" ->
         \/ a.purpose = "none" /\ a.first = "succeeded"
         \/ a.purpose = "retry" /\ a.first = "failed" /\ a.second = "succeeded"
    [] t = "validating" /\ a.state # "running" ->
         a.purpose = "repair" /\ a.first = "succeeded" /\ a.second = "succeeded"
    [] t = "succeeded" ->
         /\ LatestReportState(a) = "succeeded"
         /\ a.purpose = "extract" => TerminalInvocation(a.second)
    [] t = "repairing" -> a.purpose = "none" /\ a.first = "succeeded"
    [] OTHER -> TRUE

Transition(a, t) ==
  IF a.ok /\ AttemptCanTransition(a.state, t) /\ TransitionGuard(a, t)
  THEN [a EXCEPT !.state = t] ELSE Refused(a)

\* Attempt.TransitionInvocation: only the current invocation of the phase moves.
CurrentInPhase(a, purpose) ==
  /\ purpose = LatestPurpose(a)
  /\ \/ a.state = "running" /\ purpose = "initial"
     \/ a.state = "running" /\ purpose = "retry" /\ a.first = "failed"
     \/ a.state = "repairing" /\ purpose = "repair" /\ a.first = "succeeded"
     \/ a.state = "validating" /\ purpose = "extract"

TransitionInvocation(a, purpose, t) ==
  IF ~a.ok \/ ~CurrentInPhase(a, purpose) \/ ~InvocationCanTransition(LatestState(a), t)
  THEN Refused(a)
  ELSE IF a.purpose = "none" THEN [a EXCEPT !.first = t]
                             ELSE [a EXCEPT !.second = t]

\* AppendRetryInvocation, AppendRepairInvocation and AppendExtractInvocation: each
\* needs the initial invocation alone, in the state its phase leaves it in.
AppendGuard(a, purpose) ==
  /\ a.purpose = "none"
  /\ \/ purpose = "retry" /\ a.state = "running" /\ a.first = "failed"
     \/ purpose = "repair" /\ a.state = "repairing" /\ a.first = "succeeded"
     \/ purpose = "extract" /\ a.state = "validating" /\ a.first = "succeeded"

AppendInvocation(a, purpose) ==
  IF a.ok /\ AppendGuard(a, purpose)
  THEN [a EXCEPT !.purpose = purpose, !.second = "queued"] ELSE Refused(a)

=============================================================================
