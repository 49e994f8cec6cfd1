-------------------------- MODULE CoordinatorProofs --------------------------
(***************************************************************************)
(* Theorems about the review coordinator, for every number of roles and     *)
(* lanes, every set of runtime conditions and every number of faults: the   *)
(* type invariant, the join of the workers before a run is terminal, and    *)
(* the authority of a recorded stop; then what an execution reports: the    *)
(* domain aggregates accept what the coordinator asks of them, a completed  *)
(* run delivered every role, the trace of an execution without error is     *)
(* complete, integrity failures decide the run, an accepted report is only  *)
(* lost to a stop, and abort() finalizes what one fault left.               *)
(***************************************************************************)
EXTENDS Coordinator, WellFoundedInduction, TLAPS

-----------------------------------------------------------------------------
(* Least elements: the loops visit roles in order, reductions keep the least. *)

\* A nonempty set of naturals has a least element.
LEMMA LeastNatural ==
  ASSUME NEW T \in SUBSET Nat, T # {}
  PROVE  \E x \in T : \A y \in T : x <= y
<1>1. IsWellFoundedOn(OpToRel(<, Nat), Nat)
  BY NatLessThanWellFounded
<1>2. PICK x \in T : \A y \in T : ~(<<y, x>> \in OpToRel(<, Nat))
  BY <1>1, WFMin, Zenon
<1>3. \A y \in T : ~(y < x)
  BY <1>2 DEF OpToRel
<1> QED
  BY <1>3

\* The role a loop of the coordinator visits next is one it has not visited.
LEMMA NextRoleInTodo ==
  ASSUME todo \subseteq Roles, todo # {}
  PROVE  NextRole \in todo /\ NextRole \in Roles
<1>1. todo \in SUBSET Nat
  BY ConstantsAssumption DEF Roles
<1>2. \E x \in todo : \A y \in todo : x <= y
  BY <1>1, LeastNatural
<1> QED
  BY <1>2 DEF NextRole

LEMMA PrecedenceType ==
  ASSUME NEW c
  PROVE  Precedence(c) \in Nat
BY DEF Precedence

\* ReduceAttemptConditions over a wave returns one of its conditions.
LEMMA ReduceOverPicks ==
  ASSUME NEW T \in SUBSET Roles, T # {}, NEW cond
  PROVE  \E x \in T : ReduceOver(T, cond) = cond[x]
<1> DEFINE P == {Precedence(cond[x]) : x \in T}
<1>1. P \in SUBSET Nat /\ P # {}
  BY PrecedenceType
<1>2. PICK p \in P : \A q \in P : p <= q
  BY <1>1, LeastNatural
<1> DEFINE W == {x \in T : Precedence(cond[x]) = p}
<1>3. W \in SUBSET Nat /\ W # {}
  BY <1>2, ConstantsAssumption DEF Roles
<1>4. PICK w \in W : \A v \in W : w <= v
  BY <1>3, LeastNatural
<1>5. \A y \in T : \/ Precedence(cond[w]) < Precedence(cond[y])
                   \/ Precedence(cond[w]) = Precedence(cond[y]) /\ w <= y
  <2> TAKE y \in T
  <2>1. p <= Precedence(cond[y]) /\ Precedence(cond[w]) = p
    BY <1>2
  <2>2. Precedence(cond[y]) \in Nat /\ p \in Nat
    BY PrecedenceType, <1>1
  <2>3. CASE Precedence(cond[y]) = p
    BY <2>3, <2>1, <1>4
  <2>4. CASE Precedence(cond[y]) # p
    BY <2>4, <2>1, <2>2
  <2> QED
    BY <2>3, <2>4
<1>6. \E x \in T : \A y \in T : \/ Precedence(cond[x]) < Precedence(cond[y])
                                \/ /\ Precedence(cond[x]) = Precedence(cond[y])
                                   /\ x <= y
  BY <1>5
<1> HIDE DEF P, W
<1> QED
  BY <1>6 DEF ReduceOver

-----------------------------------------------------------------------------
(* The operations of the domain and the policy keep their types.              *)

LEMMA TransitionType ==
  ASSUME NEW a \in AttemptType, NEW t \in AttemptStates
  PROVE  Transition(a, t) \in AttemptType
BY DEF Transition, Refused, AttemptType

LEMMA TransitionInvocationType ==
  ASSUME NEW a \in AttemptType, NEW p, NEW t \in InvocationStates
  PROVE  TransitionInvocation(a, p, t) \in AttemptType
BY DEF TransitionInvocation, Refused, AttemptType

LEMMA AppendInvocationType ==
  ASSUME NEW a \in AttemptType, NEW p \in Purposes \ {"initial"}
  PROVE  AppendInvocation(a, p) \in AttemptType
BY DEF AppendInvocation, Refused, AttemptType, InvocationStates

LEMMA NewAttemptType ==
  NoAttempt \in AttemptType /\ NewAttempt \in AttemptType
BY DEF NoAttempt, NewAttempt, AttemptType, AttemptStates, InvocationStates, Purposes

LEMMA FailedInvocationType ==
  ASSUME NEW a \in AttemptType, NEW c
  PROVE  FailedInvocation(a, c) \in AttemptType
<1> DEFINE ends == CASE c = "timeout" -> "timed_out" [] c = "cancelled" -> "cancelled"
                     [] OTHER -> "failed"
<1>1. ends \in {"timed_out", "cancelled", "failed"}
  BY Zenon
<1>2. ends \in AttemptStates /\ ends \in InvocationStates
  BY <1>1 DEF AttemptStates, InvocationStates
<1> HIDE DEF ends
<1>3. Transition(TransitionInvocation(a, LatestPurpose(a), ends), ends) \in AttemptType
  BY <1>2, TransitionType, TransitionInvocationType
<1> USE DEF ends
<1> QED
  BY <1>3 DEF FailedInvocation

LEMMA TerminalizedAttemptType ==
  ASSUME NEW a \in AttemptType, NEW c
  PROVE  TerminalizedAttempt(a, c) \in AttemptType
<1> DEFINE ends == CASE c = "valid_review" -> "succeeded" [] c = "timeout" -> "timed_out"
                     [] c = "cancelled" -> "cancelled" [] OTHER -> "failed"
<1>1. ends \in {"succeeded", "timed_out", "cancelled", "failed"}
  BY Zenon
<1>2. ends \in AttemptStates
  BY <1>1 DEF AttemptStates
<1> HIDE DEF ends
<1>3. Transition(a, ends) \in AttemptType
  BY <1>2, TransitionType
<1> USE DEF ends
<1> QED
  BY <1>3 DEF TerminalizedAttempt

LEMMA CommittedAttemptType ==
  ASSUME NEW a \in AttemptType, NEW c, NEW d, NEW f
  PROVE  CommittedAttempt(a, c, d, f) \in AttemptType
<1> DEFINE p == LatestPurpose(a)
           validated == IF RequiresValidation(c)
                        THEN Transition(TransitionInvocation(a, p, "succeeded"), "validating")
                        ELSE a
           settled == IF RequiresValidation(c) THEN validated ELSE FailedInvocation(a, c)
<1>1. {"succeeded", "failed"} \subseteq InvocationStates
      /\ {"validating", "repairing"} \subseteq AttemptStates
      /\ {"retry", "repair", "extract"} \subseteq Purposes \ {"initial"}
  BY DEF AttemptStates, InvocationStates, Purposes
<1>2. validated \in AttemptType
  BY <1>1, TransitionType, TransitionInvocationType
<1>3. settled \in AttemptType
  BY <1>2, FailedInvocationType
<1> HIDE DEF p, validated, settled
<1>4. /\ AppendInvocation(TransitionInvocation(validated, p, "failed"), "retry") \in AttemptType
      /\ AppendInvocation(Transition(settled, "repairing"), "repair") \in AttemptType
      /\ AppendInvocation(settled, "extract") \in AttemptType
      /\ TerminalizedAttempt(settled, d) \in AttemptType
  BY <1>1, <1>2, <1>3, TransitionType, TransitionInvocationType, AppendInvocationType,
     TerminalizedAttemptType
<1> USE DEF p, validated, settled
<1> QED
  BY <1>4, Zenon DEF CommittedAttempt

LEMMA StoppedAttemptType ==
  ASSUME NEW a \in AttemptType, NEW c
  PROVE  StoppedAttempt(a, c) \in AttemptType
<1> DEFINE latest == LatestState(a)
           ended  == CASE latest \notin {"queued", "running"} -> a
                       [] c = "timeout" /\ latest = "running" ->
                            TransitionInvocation(a, LatestPurpose(a), "timed_out")
                       [] OTHER -> TransitionInvocation(a, LatestPurpose(a), "cancelled")
           ends   == IF c = "cancelled" THEN "cancelled"
                     ELSE IF a.state \in {"running", "repairing"} THEN "timed_out" ELSE "failed"
<1>1. {"timed_out", "cancelled"} \subseteq InvocationStates
      /\ {"timed_out", "cancelled", "failed"} \subseteq AttemptStates
  BY DEF AttemptStates, InvocationStates
<1>2. TransitionInvocation(a, LatestPurpose(a), "timed_out") \in AttemptType
      /\ TransitionInvocation(a, LatestPurpose(a), "cancelled") \in AttemptType
  BY <1>1, TransitionInvocationType
<1>3. ended \in AttemptType
  BY <1>2, Zenon
<1>4. ends \in {"timed_out", "cancelled", "failed"}
  BY Zenon
<1> HIDE DEF latest, ended, ends
<1>5. Transition(ended, ends) \in AttemptType
  BY <1>1, <1>3, <1>4, TransitionType
<1> USE DEF latest, ended, ends
<1> QED
  BY <1>5 DEF StoppedAttempt

LEMMA ReduceType ==
  ASSUME NEW c, NEW d
  PROVE  Reduce(c, d) \in {c, d}
BY DEF Reduce

LEMMA ConditionForTransitionType ==
  ASSUME NEW c, NEW s
  PROVE  ConditionForTransition(c, s) \in {c, "cancelled", "timeout"}
BY ReduceType, Zenon DEF ConditionForTransition

LEMMA WorkerConditionType ==
  ASSUME NEW c, NEW e
  PROVE  WorkerCondition(c, e) \in {c, "cancelled", "timeout"}
BY Zenon DEF WorkerCondition

LEMMA ConditionTypes ==
  /\ {"cancelled", "timeout", "internal_invariant", "valid_review",
      "invalid_evidence_claim"} \subseteq Conditions
  /\ NoCondition \in Conditions
BY DEF Conditions, AttemptConditions, ValidRows, TimeoutRows, RunRows, RepairRows

LEMMA ContextConditionType ==
  /\ ContextCondition \in {"cancelled", "timeout"}
  /\ SampledContext \in {"cancelled", "timeout", NoCondition}
BY DEF ContextCondition, SampledContext

\* The reduced condition of a wave is one its jobs reported, or the neutral one.
LEMMA WaveConditionReported ==
  ASSUME dispatched \subseteq Roles
  PROVE  \/ WaveCondition = "valid_review"
         \/ \E r \in dispatched : WaveCondition = result[r].condition
<1> DEFINE judged == {r \in dispatched : ~Bounded(r)}
           cond   == [r \in judged |-> result[r].condition]
<1>1. CASE judged = {}
  BY <1>1 DEF WaveCondition
<1>2. CASE judged # {}
  <2>1. judged \in SUBSET Roles
    OBVIOUS
  <2> HIDE DEF cond
  <2>2. PICK x \in judged : ReduceOver(judged, cond) = cond[x]
    BY <1>2, <2>1, ReduceOverPicks
  <2> USE DEF cond
  <2>3. cond[x] = result[x].condition
    OBVIOUS
  <2>4. WaveCondition = ReduceOver(judged, cond)
    BY <1>2 DEF WaveCondition
  <2> QED
    BY <2>2, <2>3, <2>4
<1> QED
  BY <1>1, <1>2

LEMMA RecordedType ==
  ASSUME faults \in 0..MaxFaults, NEW accepts, NEW ok, Recorded(accepts, ok)
  PROVE  faults' \in 0..MaxFaults
BY ConstantsAssumption DEF Recorded

LEMMA RequestDispatchStopType ==
  ASSUME TypeOK, NEW c \in Conditions, NEW ok \in BOOLEAN, RequestDispatchStop(c, ok)
  PROVE  faults' \in 0..MaxFaults /\ dispatchStop' \in Conditions /\ schedErr' \in ContextErrors
<1> DEFINE reduced == IF dispatchStop = NoCondition THEN c ELSE Reduce(dispatchStop, c)
<1>1. reduced \in Conditions
  BY ReduceType DEF TypeOK, StopType
<1>2. schedErr' \in ContextErrors
  BY DEF RequestDispatchStop, CancelledDispatch, TypeOK, ContextType, ContextErrors
<1> HIDE DEF reduced
<1>3. CASE reduced = dispatchStop
  BY <1>2, <1>3 DEF RequestDispatchStop, TypeOK, StopType, FaultType, reduced
<1>4. CASE reduced # dispatchStop
  BY <1>1, <1>2, <1>4, RecordedType DEF RequestDispatchStop, TypeOK, StopType, FaultType, reduced
<1> QED
  BY <1>3, <1>4

-----------------------------------------------------------------------------
(* The type invariant.  It needs two more facts: a commit or a dispatch that  *)
(* is under way has a role to work on, and cancelAll() has a point to return  *)
(* to.                                                                        *)

ControlInv ==
  /\ pc \in {"dispatchJob", "commitStoppedJob", "commitJob"} => todo # {}
  /\ pc \in {"cancelAll", "cancelSample", "cancelRoles"} => ret # "none"

TypeInv == TypeOK /\ ControlInv

LEMMA TypeInit == Init => TypeInv
<1> SUFFICES ASSUME Init PROVE TypeInv
  OBVIOUS
<1>1. attempt \in [Roles -> AttemptType]
  BY NewAttemptType DEF Init
<1>2. result \in [Roles -> [condition : Conditions, output : OutputKinds]]
  BY DEF Init, NoResult, Conditions, OutputKinds
<1>3. faults \in 0..MaxFaults
  BY ConstantsAssumption DEF Init
<1>4. dispatchEvents \in [Roles -> Nat] /\ commitEvents \in [Roles -> Nat]
  BY DEF Init
<1>5. pc \in PCs /\ runState \in RunStates /\ roleState \in [Roles -> RoleStates]
      /\ output \in [Roles -> OutputKinds] /\ job \in [Roles -> JobStates]
  BY DEF Init, PCs, RunStates, RoleStates, OutputKinds, JobStates
<1> QED
  BY <1>1, <1>2, <1>3, <1>4, <1>5 DEF Init, TypeInv, ControlInv, TypeOK, ControlType, DomainType, TraceType, StopType, WorkersType, ContextType,
      FaultType, Conditions, ContextErrors

LEMMA WorkerTypes ==
  ASSUME TypeInv, NEW r \in Roles, WorkerStep(r)
  PROVE  TypeInv'
<1> USE DEF TypeInv, ControlInv, TypeOK, ControlType, DomainType, TraceType, StopType, WorkersType,
            ContextType, FaultType, control, domain, trace, stop, context, fault
<1>1. CASE WorkerTake(r)
  BY <1>1 DEF WorkerTake, JobStates
<1>2. CASE WorkerSkip(r)
  BY <1>2 DEF WorkerSkip, Report, JobStates, Conditions, OutputKinds,
              AttemptConditions, TimeoutRows, RunRows
<1>3. CASE WorkerNoWindow(r)
  BY <1>3 DEF WorkerNoWindow, Report, JobStates, Conditions, OutputKinds,
              AttemptConditions, TimeoutRows
<1>4. CASE WorkerInvoke(r)
  BY <1>4 DEF WorkerInvoke, JobStates
<1>5. CASE WorkerReturn(r)
  <2>1. PICK c \in RuntimeConditions : \E out \in Outputs(LatestPurpose(attempt[r]), c) :
          Report(r, WorkerCondition(c, schedErr), IF WorkerCondition(c, schedErr) = c THEN out ELSE "none")
    BY <1>5 DEF WorkerReturn
  <2>2. PICK out \in Outputs(LatestPurpose(attempt[r]), c) :
          Report(r, WorkerCondition(c, schedErr), IF WorkerCondition(c, schedErr) = c THEN out ELSE "none")
    BY <2>1
  <2>3. WorkerCondition(c, schedErr) \in Conditions
    BY WorkerConditionType, ConstantsAssumption
    DEF Conditions, AttemptConditions, TimeoutRows, RunRows
  <2>4. out \in OutputKinds
    BY DEF Outputs, OutputKinds
  <2> QED
    BY <2>2, <2>3, <2>4 DEF Report, JobStates, OutputKinds
<1> QED
  BY <1>1, <1>2, <1>3, <1>4, <1>5 DEF WorkerStep

LEMMA ContextTypes ==
  ASSUME TypeInv, ContextStep
  PROVE  TypeInv'
BY DEF ContextStep, CallerEnds, RunDeadline, PropagateToRun, PropagateToDispatch, TypeInv,
       ControlInv, TypeOK, ControlType, DomainType, TraceType, StopType, WorkersType, ContextType,
       FaultType, ContextErrors, control, domain, trace, stop, workers, fault

\* A group of variables that a step leaves alone keeps its type.
LEMMA Frame ==
  ASSUME TypeOK
  PROVE  /\ UNCHANGED domain => DomainType'
         /\ UNCHANGED trace => TraceType'
         /\ UNCHANGED stop => StopType'
         /\ UNCHANGED workers => WorkersType'
         /\ UNCHANGED context => ContextType'
         /\ UNCHANGED fault => FaultType'
BY DEF TypeOK, DomainType, TraceType, StopType, WorkersType, ContextType, FaultType, domain,
       trace, stop, workers, context, fault

\* The steps of execute() up to the dispatch of a wave.
LEMMA StartTypes ==
  ASSUME TypeInv,
         Admit \/ RecordStart \/ StartPrimary \/ Prepare \/ Loop
  PROVE  TypeInv'
<1> USE DEF TypeInv, TypeOK, ControlInv
<1>1. CASE Admit
  <2>1. ControlType' /\ FaultType' /\ ControlInv'
    BY <1>1 DEF Admit, Goes, ControlType, FaultType, PCs
  <2>2. DomainType'
    BY <1>1 DEF Admit, Goes, DomainType, RunStates
  <2> QED
    BY <1>1, <2>1, <2>2, Frame DEF Admit
<1>2. CASE RecordStart
  <2>1. ControlType' /\ ControlInv'
    BY <1>2 DEF RecordStart, Goes, Fails, ControlType, PCs
  <2>2. FaultType'
    BY <1>2, RecordedType DEF RecordStart, Goes, Fails, FaultType
  <2>3. TraceType'
    BY <1>2 DEF RecordStart, TraceType
  <2> QED
    BY <1>2, <2>1, <2>2, <2>3, Frame DEF RecordStart
<1>3. CASE StartPrimary
  <2>1. NextRole \in Roles
    BY <1>3, NextRoleInTodo DEF StartPrimary, ControlType
  <2>2. Transition(NewAttempt, "running") \in AttemptType
    BY NewAttemptType, TransitionType DEF AttemptStates
  <2>3. ControlType' /\ ControlInv'
    BY <1>3, <2>1 DEF StartPrimary, Goes, Fails, ControlType, PCs
  <2>4. failed' \in BOOLEAN
    BY <1>3 DEF StartPrimary, Goes, Fails, FaultType
  <2>5. faults' \in 0..MaxFaults
    BY <1>3, RecordedType, ConstantsAssumption DEF StartPrimary, FaultType
  <2>6. DomainType'
    BY <1>3, <2>1, <2>2 DEF StartPrimary, DomainType, RoleStates
  <2> QED
    BY <1>3, <2>3, <2>4, <2>5, <2>6, Frame DEF StartPrimary, FaultType
<1>4. CASE Prepare
  <2>1. ControlType' /\ ControlInv'
    BY <1>4, ConditionTypes, ContextConditionType DEF Prepare, CallCancelAll, Goes, Fails, ControlType, PCs
  <2>2. failed' \in BOOLEAN
    BY <1>4 DEF Prepare, CallCancelAll, Goes, Fails, FaultType
  <2>3. faults' \in 0..MaxFaults
    BY <1>4, ConstantsAssumption DEF Prepare, CallCancelAll, FaultType
  <2> QED
    BY <1>4, <2>1, <2>2, <2>3, Frame DEF Prepare, FaultType
<1>5. CASE Loop
  <2>1. ControlType' /\ FaultType' /\ ControlInv'
    BY <1>5, ConditionTypes, ContextConditionType DEF Loop, CallCancelAll, Goes, ControlType, FaultType, PCs
  <2>2. WorkersType'
    BY <1>5 DEF Loop, WorkersType
  <2> QED
    BY <1>5, <2>1, <2>2, Frame DEF Loop
<1> QED
  BY <1>1, <1>2, <1>3, <1>4, <1>5

\* The steps of dispatchWave() and collectWave().
LEMMA WaveTypes ==
  ASSUME TypeInv,
         \/ AdmitJob \/ DispatchJob \/ DispatchCut \/ OpenGate
         \/ \E r \in Roles : Collect(r)
  PROVE  TypeInv'
<1> USE DEF TypeInv, TypeOK, ControlInv
<1>1. CASE AdmitJob
  <2>1. NextRole \in Roles
    BY <1>1, NextRoleInTodo DEF AdmitJob, ControlType
  <2>2. NoResult \in [condition : Conditions, output : OutputKinds]
    BY ConditionTypes DEF NoResult, OutputKinds
  <2>3. ControlType' /\ FaultType' /\ ControlInv'
    BY <1>1 DEF AdmitJob, Goes, ControlType, FaultType, PCs
  <2>4. WorkersType'
    BY <1>1, <2>1, <2>2 DEF AdmitJob, WorkersType, JobStates
  <2> QED
    BY <1>1, <2>3, <2>4, Frame DEF AdmitJob
<1>2. CASE DispatchJob
  <2> DEFINE a == TransitionInvocation(attempt[NextRole], LatestPurpose(attempt[NextRole]), "running")
  <2>1. NextRole \in Roles
    BY <1>2, NextRoleInTodo DEF DispatchJob, ControlType
  <2>2. a \in AttemptType
    BY <2>1, TransitionInvocationType DEF InvocationStates, DomainType
  <2>3. attempt' = [attempt EXCEPT ![NextRole] = a]
    BY <1>2 DEF DispatchJob
  <2> HIDE DEF a
  <2>4. DomainType'
    BY <1>2, <2>2, <2>3 DEF DispatchJob, DomainType
  <2>5. ControlType' /\ ControlInv'
    BY <1>2, <2>1 DEF DispatchJob, Goes, Fails, ControlType, PCs
  <2>6. failed' \in BOOLEAN
    BY <1>2 DEF DispatchJob, Goes, Fails, FaultType
  <2>7. faults' \in 0..MaxFaults
    BY <1>2, RecordedType DEF DispatchJob, FaultType
  <2>8. TraceType'
    <3>1. dispatchEvents' = dispatchEvents \/ dispatchEvents' = [dispatchEvents EXCEPT ![NextRole] = @ + 1]
      BY <1>2 DEF DispatchJob
    <3>2. dispatchEvents' \in [Roles -> Nat]
      BY <3>1, <2>1 DEF TraceType
    <3> QED
      BY <1>2, <3>2 DEF DispatchJob, TraceType
  <2> QED
    BY <1>2, <2>4, <2>5, <2>6, <2>7, <2>8, Frame DEF DispatchJob, FaultType
<1>3. CASE DispatchCut
  <2>1. ControlType' /\ FaultType' /\ ControlInv'
    BY <1>3, ConditionTypes, ContextConditionType
    DEF DispatchCut, CallCancelAll, Goes, ControlType, FaultType, PCs
  <2>2. ContextType'
    BY <1>3 DEF DispatchCut, CancelledDispatch, ContextType, ContextErrors
  <2> QED
    BY <1>3, <2>1, <2>2, Frame DEF DispatchCut
<1>4. CASE OpenGate
  <2>1. ControlType' /\ FaultType' /\ ControlInv' /\ WorkersType'
    BY <1>4 DEF OpenGate, Goes, ControlType, FaultType, WorkersType, PCs
  <2> QED
    BY <1>4, <2>1, Frame DEF OpenGate
<1>5. CASE \E r \in Roles : Collect(r)
  <2>1. PICK r \in Roles : Collect(r)
    BY <1>5
  <2>2. PICK c \in EvidenceConditions(result[r].condition) :
          /\ job' = [job EXCEPT ![r] = "collected"]
          /\ result' = [result EXCEPT ![r] =
                IF c = result[r].condition THEN @ ELSE [condition |-> c, output |-> "none"]]
    BY <2>1 DEF Collect
  <2>3. c \in Conditions
    BY <2>1, ConditionTypes DEF EvidenceConditions, WorkersType
  <2>4. WorkersType'
    BY <2>1, <2>2, <2>3 DEF Collect, WorkersType, JobStates, OutputKinds
  <2>5. ControlType' /\ ControlInv'
    BY <2>1 DEF Collect, Goes, Fails, ControlType, PCs
  <2>6. failed' \in BOOLEAN
    BY <2>1 DEF Collect, Goes, Fails, FaultType
  <2>7. faults' \in 0..MaxFaults
    BY <2>1, RecordedType DEF Collect, FaultType
  <2>8. ContextType'
    BY <2>1 DEF Collect, CancelledDispatch, ContextType, ContextErrors
  <2> QED
    BY <2>1, <2>4, <2>5, <2>6, <2>7, <2>8, Frame DEF Collect, FaultType
<1> QED
  BY <1>1, <1>2, <1>3, <1>4, <1>5

-----------------------------------------------------------------------------
(* The steps of commitWave().                                                 *)

CommitLoops == {"commitTrailers", "commitStopped", "commitRest"}

\* What a commit of one role leaves of the variables it may change.
CommitPost ==
  /\ pc' \in CommitLoops \cup {"abort"} /\ todo' \subseteq todo /\ next' \subseteq Roles
  /\ DomainType'
  /\ terminalRoles' \subseteq Roles /\ commitEvents' \in [Roles -> Nat]
  /\ failed' \in BOOLEAN /\ faults' \in 0..MaxFaults

LEMMA EndRolePost ==
  ASSUME TypeInv, NEW r \in Roles, NEW a, NEW projection, NEW out \in OutputKinds,
         NEW to \in CommitLoops, EndRole(r, a, projection, out, to)
  PROVE  /\ pc' \in CommitLoops \cup {"abort"} /\ todo' \subseteq todo
         /\ roleState' \in [Roles -> RoleStates] /\ output' \in [Roles -> OutputKinds]
         /\ refusedRole' \in BOOLEAN /\ terminalRoles' \subseteq Roles
         /\ failed' \in BOOLEAN /\ faults' \in 0..MaxFaults
<1> USE DEF TypeInv, TypeOK
<1>1. CASE a.ok /\ RoleAccepts(r, projection)
  <2>1. projection \in RoleStates
    BY <1>1 DEF RoleAccepts, RoleCanTransition, RoleStates
  <2>2. /\ roleState' = [roleState EXCEPT ![r] = projection]
        /\ output' = IF projection = "succeeded" THEN [output EXCEPT ![r] = out] ELSE output
        /\ refusedRole' = refusedRole
    BY <1>1 DEF EndRole
  <2>3. PICK ok \in BOOLEAN :
          /\ Recorded(RecordableFor(r), ok)
          /\ terminalRoles' = IF ok THEN terminalRoles \cup {r} ELSE terminalRoles
          /\ IF ok THEN Goes(to) /\ todo' = todo \ {r} ELSE Fails /\ UNCHANGED todo
    BY <1>1 DEF EndRole
  <2>4. roleState' \in [Roles -> RoleStates] /\ output' \in [Roles -> OutputKinds]
        /\ refusedRole' \in BOOLEAN
    BY <2>1, <2>2 DEF DomainType
  <2>5. faults' \in 0..MaxFaults
    BY <2>3, RecordedType DEF FaultType
  <2>6. pc' \in CommitLoops \cup {"abort"} /\ todo' \subseteq todo /\ failed' \in BOOLEAN
        /\ terminalRoles' \subseteq Roles
    BY <2>3 DEF Goes, Fails, ControlType, FaultType, TraceType
  <2> QED
    BY <2>4, <2>5, <2>6
<1>2. CASE ~(a.ok /\ RoleAccepts(r, projection))
  <2>1. refusedRole' = (refusedRole \/ a.ok) /\ Fails
        /\ UNCHANGED <<roleState, output, terminalRoles, todo, faults>>
    BY <1>2 DEF EndRole
  <2>2. refusedRole' \in BOOLEAN
    BY <2>1, Zenon
  <2> QED
    BY <2>1, <2>2 DEF Fails, DomainType, TraceType, ControlType, FaultType
<1> QED
  BY <1>1, <1>2

LEMMA CommitUnrecordedPost ==
  ASSUME TypeInv, NEW r \in Roles, CommitUnrecorded(r)
  PROVE  CommitPost
<1> USE DEF TypeInv, TypeOK
<1>1. faults' \in 0..MaxFaults
  BY RecordedType DEF CommitUnrecorded, FaultType
<1>2. DomainType'
  BY Frame DEF CommitUnrecorded
<1> QED
  BY <1>1, <1>2 DEF CommitUnrecorded, CommitPost, Fails, ControlType, TraceType

LEMMA CommitEventType ==
  ASSUME TypeInv, NEW r \in Roles, commitEvents' = [commitEvents EXCEPT ![r] = @ + 1]
  PROVE  commitEvents' \in [Roles -> Nat]
BY DEF TypeInv, TypeOK, TraceType

LEMMA CommitExtractionPost ==
  ASSUME TypeInv, NEW r \in Roles, NEW c, NEW to \in CommitLoops, CommitExtraction(r, c, to)
  PROVE  CommitPost
<1> USE DEF TypeInv, TypeOK
<1> DEFINE ends == CASE c = "valid_review" -> "succeeded" [] c \in TimeoutRows -> "timed_out"
                     [] c = "cancelled" -> "cancelled" [] OTHER -> "failed"
           after == TerminalizedAttempt(TransitionInvocation(attempt[r], "extract", ends), "valid_review")
           out == IF c = "valid_review" THEN "structured" ELSE "report"
<1>1. ends \in {"succeeded", "timed_out", "cancelled", "failed"}
  BY Zenon
<1>2. ends \in InvocationStates
  BY <1>1 DEF InvocationStates
<1> HIDE DEF ends
<1>3. after \in AttemptType
  BY <1>2, TransitionInvocationType, TerminalizedAttemptType DEF DomainType
<1> USE DEF ends
<1>4. CASE CommitUnrecorded(r)
  BY <1>4, CommitUnrecordedPost
<1>5. CASE /\ commitEvents' = [commitEvents EXCEPT ![r] = @ + 1]
           /\ attempt' = [attempt EXCEPT ![r] = after]
           /\ UNCHANGED <<runState, next>>
           /\ EndRole(r, after, "succeeded", out, to)
  <2> HIDE DEF after
  <2>1. out \in OutputKinds
    BY DEF OutputKinds
  <2> HIDE DEF out
  <2>2. /\ pc' \in CommitLoops \cup {"abort"} /\ todo' \subseteq todo
        /\ roleState' \in [Roles -> RoleStates] /\ output' \in [Roles -> OutputKinds]
        /\ refusedRole' \in BOOLEAN /\ terminalRoles' \subseteq Roles
        /\ failed' \in BOOLEAN /\ faults' \in 0..MaxFaults
    BY <1>5, <2>1, EndRolePost
  <2>3. commitEvents' \in [Roles -> Nat]
    BY <1>5, CommitEventType
  <2>4. DomainType'
    BY <1>3, <1>5, <2>2 DEF DomainType
  <2> QED
    BY <1>5, <2>2, <2>3, <2>4 DEF CommitPost, ControlType
<1> QED
  BY <1>4, <1>5 DEF CommitExtraction

LEMMA CommitOutcomePost ==
  ASSUME TypeInv, NEW r \in Roles, NEW c, NEW observed, NEW suppress, NEW to \in CommitLoops,
         CommitOutcome(r, c, observed, suppress, to)
  PROVE  CommitPost
<1> USE DEF TypeInv, TypeOK
<1> DEFINE a == attempt[r]
           decision == DecideTransition(c, suppress \/ a.purpose \in {"repair", "retry"}, observed)
           f == FollowUp(a, decision, result[r].output, suppress)
           after == CommittedAttempt(a, c, decision.condition, f)
<1>1. after \in AttemptType
  BY CommittedAttemptType DEF DomainType
<1>2. CASE CommitUnrecorded(r)
  BY <1>2, CommitUnrecordedPost
<1>3. CASE /\ commitEvents' = [commitEvents EXCEPT ![r] = @ + 1]
           /\ attempt' = [attempt EXCEPT ![r] = after]
           /\ UNCHANGED runState
           /\ EndRole(r, after, decision.projection, result[r].output, to) /\ UNCHANGED next
  <2> HIDE DEF after, decision
  <2>1. result[r].output \in OutputKinds
    BY DEF WorkersType
  <2>2. /\ pc' \in CommitLoops \cup {"abort"} /\ todo' \subseteq todo
        /\ roleState' \in [Roles -> RoleStates] /\ output' \in [Roles -> OutputKinds]
        /\ refusedRole' \in BOOLEAN /\ terminalRoles' \subseteq Roles
        /\ failed' \in BOOLEAN /\ faults' \in 0..MaxFaults
    BY <1>3, <2>1, EndRolePost
  <2>3. commitEvents' \in [Roles -> Nat]
    BY <1>3, CommitEventType
  <2>4. DomainType'
    BY <1>1, <1>3, <2>2 DEF DomainType
  <2> QED
    BY <1>3, <2>2, <2>3, <2>4 DEF CommitPost, ControlType
<1>4. CASE /\ commitEvents' = [commitEvents EXCEPT ![r] = @ + 1]
           /\ attempt' = [attempt EXCEPT ![r] = after]
           /\ UNCHANGED runState
           /\ \E ok \in BOOLEAN :
                /\ Recorded(after.ok /\ RecordableFor(r), ok)
                /\ IF ok THEN Goes(to) /\ todo' = todo \ {r} /\ next' = next \cup {r}
                         ELSE Fails /\ UNCHANGED <<todo, next>>
           /\ UNCHANGED <<roleState, output, refusedRole, terminalRoles>>
  <2> HIDE DEF after
  <2>1. DomainType'
    BY <1>1, <1>4 DEF DomainType
  <2>2. commitEvents' \in [Roles -> Nat]
    BY <1>4, CommitEventType
  <2>3. faults' \in 0..MaxFaults
    BY <1>4, RecordedType DEF FaultType
  <2>4. pc' \in CommitLoops \cup {"abort"} /\ todo' \subseteq todo /\ next' \subseteq Roles
        /\ failed' \in BOOLEAN
    BY <1>4 DEF Goes, Fails, ControlType, FaultType
  <2> QED
    BY <1>4, <2>1, <2>2, <2>3, <2>4 DEF CommitPost, TraceType
<1> HIDE DEF a, decision, f, after
<1>5. \/ CommitUnrecorded(r)
      \/ /\ commitEvents' = [commitEvents EXCEPT ![r] = @ + 1]
         /\ attempt' = [attempt EXCEPT ![r] = after]
         /\ UNCHANGED runState
         /\ IF f = "none"
            THEN EndRole(r, after, decision.projection, result[r].output, to) /\ UNCHANGED next
            ELSE /\ \E ok \in BOOLEAN :
                      /\ Recorded(after.ok /\ RecordableFor(r), ok)
                      /\ IF ok THEN Goes(to) /\ todo' = todo \ {r} /\ next' = next \cup {r}
                               ELSE Fails /\ UNCHANGED <<todo, next>>
                 /\ UNCHANGED <<roleState, output, refusedRole, terminalRoles>>
  BY Zenon DEF CommitOutcome, a, decision, f, after
<1> QED
  BY <1>2, <1>3, <1>4, <1>5

LEMMA CommitTypes ==
  ASSUME TypeInv,
         \/ CommitWave \/ PrepareCommit \/ CommitTrailer \/ CommitJob \/ CommitLoopEnds
         \/ AfterCommit \/ NextWave
  PROVE  TypeInv'
<1> USE DEF TypeInv, TypeOK, ControlInv
<1>w. WaveCondition \in Conditions
  BY WaveConditionReported, ConditionTypes DEF ControlType, WorkersType
<1>s. SampledContext \in Conditions
  BY ContextConditionType, ConditionTypes
<1>1. CASE CommitWave
  <2>1. ControlType' /\ ControlInv'
    BY <1>1, <1>s DEF CommitWave, CallCancelAll, Goes, Fails, ControlType, PCs
  <2>2. failed' \in BOOLEAN
    BY <1>1 DEF CommitWave, CallCancelAll, Goes, Fails, FaultType
  <2>3. faults' \in 0..MaxFaults /\ StopType' /\ ContextType'
    <3>1. CASE UNCHANGED <<faults, dispatchStop, schedErr>>
      BY <1>1, <3>1 DEF CommitWave, FaultType, StopType, ContextType
    <3>2. CASE \E ok \in BOOLEAN : RequestDispatchStop(WaveCondition, ok)
      BY <1>1, <1>w, <3>2, RequestDispatchStopType DEF CommitWave, StopType, ContextType
    <3> QED
      BY <1>1, <3>1, <3>2 DEF CommitWave, CallCancelAll
  <2> QED
    BY <1>1, <2>1, <2>2, <2>3, Frame DEF CommitWave, FaultType
<1>2. CASE PrepareCommit
  <2> DEFINE d == ConditionForTransition(result[NextRole].condition, SampledContext)
  <2>1. NextRole \in Roles
    BY <1>2, NextRoleInTodo DEF PrepareCommit, ControlType
  <2>2. d \in Conditions
    BY <2>1, ConditionForTransitionType, ConditionTypes DEF WorkersType
  <2>3. ControlType' /\ ControlInv'
    BY <1>2, <1>s DEF PrepareCommit, Goes, Fails, ControlType, PCs
  <2>4. failed' \in BOOLEAN
    BY <1>2 DEF PrepareCommit, Goes, Fails, FaultType
  <2>5. faults' \in 0..MaxFaults /\ StopType' /\ ContextType'
    <3>1. CASE SampledContext = NoCondition
      BY <1>2, <3>1 DEF PrepareCommit, FaultType, StopType, ContextType
    <3>2. CASE SampledContext # NoCondition
      <4>1. PICK ok \in BOOLEAN : RequestDispatchStop(d, ok)
        BY <1>2, <3>2 DEF PrepareCommit
      <4> QED
        BY <1>2, <2>2, <4>1, RequestDispatchStopType DEF PrepareCommit, StopType, ContextType
    <3> QED
      BY <3>1, <3>2
  <2> QED
    BY <1>2, <2>3, <2>4, <2>5, Frame DEF PrepareCommit, FaultType
<1>3. CASE CommitTrailer
  <2>1. NextRole \in Roles /\ pc \in CommitLoops
    BY <1>3, NextRoleInTodo DEF CommitTrailer, ControlType, CommitLoops
  <2>2. CommitPost
    BY <1>3, <2>1, CommitExtractionPost, CommitOutcomePost, Zenon DEF CommitTrailer, Commit
  <2>3. ControlType' /\ ControlInv'
    BY <1>3, <2>2 DEF CommitTrailer, CommitPost, CommitLoops, ControlType, PCs
  <2>4. TraceType' /\ FaultType'
    BY <1>3, <2>2 DEF CommitTrailer, CommitPost, TraceType, FaultType
  <2> QED
    BY <1>3, <2>2, <2>3, <2>4, Frame DEF CommitTrailer, CommitPost
<1>4. CASE CommitJob
  <2> DEFINE to == IF pc = "commitStoppedJob" THEN "commitStopped" ELSE "commitRest"
  <2>1. NextRole \in Roles /\ to \in CommitLoops
    BY <1>4, NextRoleInTodo DEF CommitJob, ControlType, CommitLoops
  <2>2. CommitPost
    BY <1>4, <2>1, CommitExtractionPost, CommitOutcomePost, Zenon DEF CommitJob, Commit
  <2>3. ControlType' /\ ControlInv'
    BY <1>4, <2>2, ConditionTypes DEF CommitJob, CommitPost, CommitLoops, ControlType, PCs
  <2>4. TraceType' /\ FaultType'
    BY <1>4, <2>2 DEF CommitJob, CommitPost, TraceType, FaultType
  <2> QED
    BY <1>4, <2>2, <2>3, <2>4, Frame DEF CommitJob, CommitPost
<1>5. CASE CommitLoopEnds
  <2>1. ControlType' /\ ControlInv' /\ FaultType'
    BY <1>5, <1>w DEF CommitLoopEnds, CallCancelAll, Goes, ControlType, FaultType, PCs
  <2> QED
    BY <1>5, <2>1, Frame DEF CommitLoopEnds
<1>6. CASE AfterCommit
  <2>1. ControlType' /\ ControlInv' /\ FaultType'
    BY <1>6, ConditionTypes, ContextConditionType
    DEF AfterCommit, CallCancelAll, Goes, ControlType, FaultType, PCs
  <2> QED
    BY <1>6, <2>1, Frame DEF AfterCommit
<1>7. CASE NextWave
  <2>1. ControlType' /\ ControlInv' /\ FaultType'
    BY <1>7 DEF NextWave, Goes, ControlType, FaultType, PCs
  <2> QED
    BY <1>7, <2>1, Frame DEF NextWave
<1> QED
  BY <1>1, <1>2, <1>3, <1>4, <1>5, <1>6, <1>7

\* A commit of one role comes back to its loop or fails.
LEMMA CommitTarget ==
  ASSUME TypeInv, CommitTrailer \/ CommitJob
  PROVE  pc' \in CommitLoops \cup {"abort"} /\ todo' \subseteq todo
<1>1. CASE CommitTrailer
  <2>1. NextRole \in Roles /\ pc \in CommitLoops
    BY <1>1, NextRoleInTodo DEF CommitTrailer, TypeInv, TypeOK, ControlType, CommitLoops
  <2> QED
    BY <1>1, <2>1, CommitExtractionPost, CommitOutcomePost, Zenon
    DEF CommitTrailer, Commit, CommitPost
<1>2. CASE CommitJob
  <2>1. NextRole \in Roles /\ "commitStopped" \in CommitLoops /\ "commitRest" \in CommitLoops
    BY <1>2, NextRoleInTodo DEF CommitJob, TypeInv, TypeOK, ControlInv, ControlType, CommitLoops
  <2> QED
    BY <1>2, <2>1, CommitExtractionPost, CommitOutcomePost, Zenon
    DEF CommitJob, Commit, CommitPost
<1> QED
  BY <1>1, <1>2

\* The steps of cancelAll().
LEMMA CancelTypes ==
  ASSUME TypeInv, CancelAll \/ CancelSample \/ CancelRole \/ CancelReturn
  PROVE  TypeInv'
<1> USE DEF TypeInv, TypeOK, ControlInv
<1>1. CASE CancelAll
  <2> DEFINE e == IF stopCondition = NoCondition THEN cancelCondition
                  ELSE Reduce(stopCondition, cancelCondition)
  <2>1. e \in Conditions
    BY ReduceType DEF ControlType, StopType
  <2>2. PICK ok \in BOOLEAN :
          /\ RequestDispatchStop(e, ok)
          /\ IF ok THEN Goes("cancelSample") ELSE pc' = AfterCancelError /\ failed' = TRUE
    BY <1>1 DEF CancelAll
  <2>3. stopCondition' = e
    BY <1>1 DEF CancelAll
  <2> HIDE DEF e
  <2>4. faults' \in 0..MaxFaults /\ StopType' /\ ContextType'
    BY <1>1, <2>1, <2>2, <2>3, RequestDispatchStopType DEF CancelAll, StopType, ContextType
  <2>5. failed' \in BOOLEAN
    BY <2>2 DEF Goes, FaultType
  <2>6. ControlType' /\ ControlInv'
    BY <1>1, <2>2 DEF CancelAll, AfterCancelError, Goes, ControlType, PCs
  <2> QED
    BY <1>1, <2>4, <2>5, <2>6, Frame DEF CancelAll, FaultType
<1>2. CASE CancelSample
  <2>1. ControlType' /\ ControlInv' /\ FaultType'
    BY <1>2, ConditionTypes, ContextConditionType DEF CancelSample, Goes, ControlType, FaultType, PCs
  <2> QED
    BY <1>2, <2>1, Frame DEF CancelSample
<1>3. CASE CancelRole
  <2> DEFINE r == NextRole
             after == IF attempt[r].state = "none" THEN attempt[r]
                      ELSE StoppedAttempt(attempt[r], cancelCondition)
             to == IF cancelCondition = "cancelled" THEN "cancelled" ELSE "failed"
  <2>1. r \in Roles
    BY <1>3, NextRoleInTodo DEF CancelRole, ControlType
  <2>2. after \in AttemptType /\ to \in RoleStates
    BY <2>1, StoppedAttemptType DEF DomainType, RoleStates
  <2>3. attempt' = [attempt EXCEPT ![r] = after]
    BY <1>3 DEF CancelRole
  <2>4. CASE after.ok /\ RoleAccepts(r, to)
    <3>1. roleState' = [roleState EXCEPT ![r] = to] /\ UNCHANGED refusedRole
      BY <1>3, <2>4 DEF CancelRole
    <3>2. PICK ok \in BOOLEAN :
            /\ Recorded(RecordableFor(r), ok)
            /\ terminalRoles' = IF ok THEN terminalRoles \cup {r} ELSE terminalRoles
            /\ IF ok THEN Goes("cancelRoles") /\ todo' = todo \ {r}
               ELSE pc' = AfterCancelError /\ failed' = TRUE /\ UNCHANGED todo
      BY <1>3, <2>4 DEF CancelRole
    <3> HIDE DEF r, after, to
    <3>3. DomainType'
      BY <1>3, <2>1, <2>2, <2>3, <3>1 DEF CancelRole, DomainType
    <3>4. faults' \in 0..MaxFaults
      BY <3>2, RecordedType DEF FaultType
    <3>5. failed' \in BOOLEAN
      BY <3>2 DEF Goes, FaultType
    <3>6. TraceType'
      BY <1>3, <2>1, <3>2 DEF CancelRole, TraceType
    <3>7. ControlType' /\ ControlInv'
      BY <1>3, <3>2 DEF CancelRole, AfterCancelError, Goes, ControlType, PCs
    <3> QED
      BY <1>3, <3>3, <3>4, <3>5, <3>6, <3>7, Frame DEF CancelRole, FaultType
  <2>5. CASE ~(after.ok /\ RoleAccepts(r, to))
    <3>1. /\ refusedRole' = (refusedRole \/ after.ok)
          /\ pc' = AfterCancelError /\ failed' = TRUE
          /\ UNCHANGED <<roleState, terminalRoles, todo, faults>>
      BY <1>3, <2>5 DEF CancelRole
    <3>2. refusedRole' \in BOOLEAN
      BY <3>1, Zenon
    <3> HIDE DEF r, after, to
    <3>3. DomainType'
      BY <1>3, <2>2, <2>3, <3>1, <3>2 DEF CancelRole, DomainType
    <3>4. ControlType' /\ ControlInv'
      BY <1>3, <3>1 DEF CancelRole, AfterCancelError, ControlType, PCs
    <3>5. TraceType' /\ FaultType'
      BY <1>3, <3>1 DEF CancelRole, TraceType, FaultType
    <3> QED
      BY <1>3, <3>3, <3>4, <3>5, Frame DEF CancelRole
  <2> QED
    BY <2>4, <2>5
<1>4. CASE CancelReturn
  <2>1. ControlType' /\ ControlInv'
    BY <1>4, ConditionTypes DEF CancelReturn, ControlType, PCs
  <2>2. FaultType'
    BY <1>4 DEF CancelReturn, FaultType
  <2> QED
    BY <1>4, <2>1, <2>2, Frame DEF CancelReturn
<1> QED
  BY <1>1, <1>2, <1>3, <1>4

\* The end of execute() and abort().
LEMMA EndTypes ==
  ASSUME TypeInv,
         \/ AfterLoop \/ CheckRoles \/ Linearize \/ Authorize \/ CloseJobs \/ JoinWorkers
         \/ FinishRun \/ RecordTerminal \/ Abort \/ AbortCancel
  PROVE  TypeInv'
<1> USE DEF TypeInv, TypeOK, ControlInv
<1>1. CASE AfterLoop \/ CheckRoles \/ Linearize \/ AbortCancel
  <2>1. ControlType' /\ ControlInv' /\ FaultType'
    BY <1>1, ConditionTypes, ContextConditionType
    DEF AfterLoop, CheckRoles, Linearize, AbortCancel, CallCancelAll, Goes, ControlType, FaultType, PCs
  <2> QED
    BY <1>1, <2>1, Frame DEF AfterLoop, CheckRoles, Linearize, AbortCancel, EndUnchanged
<1>2. CASE Authorize
  <2>1. ControlType' /\ ControlInv'
    BY <1>2 DEF Authorize, Goes, Fails, ControlType, PCs
  <2>2. failed' \in BOOLEAN /\ TraceType'
    BY <1>2 DEF Authorize, Goes, Fails, FaultType, TraceType
  <2>3. faults' \in 0..MaxFaults
    BY <1>2, RecordedType DEF Authorize, FaultType
  <2> QED
    BY <1>2, <2>1, <2>2, <2>3, Frame DEF Authorize, FaultType
<1>3. CASE CloseJobs
  <2>1. ControlType' /\ ControlInv' /\ FaultType'
    BY <1>3 DEF CloseJobs, Goes, ControlType, FaultType, PCs
  <2>2. WorkersType'
    BY <1>3 DEF CloseJobs, WorkersType
  <2> QED
    BY <1>3, <2>1, <2>2, Frame DEF CloseJobs
<1>4. CASE JoinWorkers
  <2>1. ControlType' /\ ControlInv' /\ FaultType'
    BY <1>4 DEF JoinWorkers, Goes, ControlType, FaultType, PCs
  <2>2. ContextType'
    BY <1>4 DEF JoinWorkers, CancelledDispatch, ContextType, ContextErrors
  <2> QED
    BY <1>4, <2>1, <2>2, Frame DEF JoinWorkers
<1>5. CASE FinishRun
  <2>1. ControlType' /\ ControlInv' /\ FaultType'
    BY <1>5 DEF FinishRun, Goes, ControlType, FaultType, PCs
  <2>2. DomainType'
    BY <1>5 DEF FinishRun, FinalRunState, DomainType, RunStates
  <2> QED
    BY <1>5, <2>1, <2>2, Frame DEF FinishRun
<1>6. CASE RecordTerminal
  <2>1. ControlType' /\ ControlInv'
    BY <1>6 DEF RecordTerminal, Goes, Fails, ControlType, PCs
  <2>2. failed' \in BOOLEAN /\ TraceType'
    BY <1>6 DEF RecordTerminal, Goes, Fails, FaultType, TraceType
  <2>3. faults' \in 0..MaxFaults
    BY <1>6, RecordedType DEF RecordTerminal, FaultType
  <2> QED
    BY <1>6, <2>1, <2>2, <2>3, Frame DEF RecordTerminal, FaultType
<1>7. CASE Abort
  <2>1. ControlType' /\ ControlInv'
    BY <1>7 DEF Abort, Goes, ControlType, PCs
  <2>2. failed' \in BOOLEAN /\ TraceType'
    BY <1>7 DEF Abort, Goes, FaultType, TraceType
  <2>3. faults' \in 0..MaxFaults
    BY <1>7, RecordedType DEF Abort, FaultType
  <2> QED
    BY <1>7, <2>1, <2>2, <2>3, Frame DEF Abort, FaultType
<1> QED
  BY <1>1, <1>2, <1>3, <1>4, <1>5, <1>6, <1>7

LEMMA TypeNext == TypeInv /\ [Next]_vars => TypeInv'
<1> SUFFICES ASSUME TypeInv, [Next]_vars PROVE TypeInv'
  OBVIOUS
<1>1. CASE CoordinatorStep
  BY <1>1, StartTypes, WaveTypes, CommitTypes, CancelTypes, EndTypes DEF CoordinatorStep
<1>2. CASE \E r \in Roles : WorkerStep(r)
  BY <1>2, WorkerTypes
<1>3. CASE ContextStep
  BY <1>3, ContextTypes
<1>4. CASE Finished \/ UNCHANGED vars
  <2>1. UNCHANGED vars
    BY <1>4 DEF Finished
  <2>2. ControlType' /\ ControlInv'
    BY <2>1 DEF TypeInv, TypeOK, ControlType, ControlInv, vars, control
  <2> QED
    BY <2>1, <2>2, Frame DEF TypeInv, TypeOK, vars
<1> QED
  BY <1>1, <1>2, <1>3, <1>4 DEF Next

\* Every variable of the coordinator keeps its type in every execution; in particular
\* the domain's transition tables never yield a state outside their enumerations.
THEOREM TypeCorrect == Spec => []TypeOK
<1>1. Spec => []TypeInv
  BY TypeInit, TypeNext, PTL DEF Spec
<1>2. TypeInv => TypeOK
  BY DEF TypeInv
<1> QED
  BY <1>1, <1>2, PTL

-----------------------------------------------------------------------------
(* The workers are joined before the run is terminal.  JoinedBeforeTerminal   *)
(* is not inductive: it does not say why no job is queued again after the     *)
(* join, nor that abort() finds the queue closed when execute() closed it.    *)

Closing == {"join", "finish", "terminal", "abort", "abortCancel", "abortAuthorize", "abortClose",
            "abortJoin", "abortFinish", "abortTerminal", "done"}

Cancelling == {"cancelAll", "cancelSample", "cancelRoles"}

JoinInv ==
  /\ closed => pc \in Closing \/ (pc \in Cancelling /\ ret = "abortAuthorize")
  /\ closed /\ pc \notin {"join", "abortJoin"} => WorkersIdle
  /\ pc \in {"join", "abortJoin", "finish", "terminal", "abortFinish", "abortTerminal"} => closed
  /\ TerminalRun(runState) => closed /\ pc \notin {"join", "abortJoin"}

LEMMA JoinInit == Init => JoinInv
BY DEF Init, JoinInv, Closing, Cancelling, TerminalRun

\* While the queue is open and the run is not terminal, a step that changes neither
\* keeps the invariant, as long as it does not enter the closing part.
LEMMA JoinOpen ==
  ASSUME JoinInv, ~closed, closed' = closed, ~TerminalRun(runState)',
         pc' \notin {"join", "abortJoin", "finish", "terminal", "abortFinish", "abortTerminal"}
  PROVE  JoinInv'
BY DEF JoinInv

LEMMA JoinWorker ==
  ASSUME JoinInv, NEW r \in Roles, WorkerStep(r)
  PROVE  JoinInv'
<1>1. job[r] \in {"queued", "held", "invoking"}
  BY DEF WorkerStep, WorkerTake, WorkerSkip, WorkerNoWindow, WorkerInvoke, WorkerReturn
<1>2. UNCHANGED <<pc, ret, closed, runState>>
  BY DEF WorkerStep, WorkerTake, WorkerSkip, WorkerNoWindow, WorkerInvoke, WorkerReturn, Report,
         control, domain
<1>3. ~WorkersIdle
  BY <1>1 DEF WorkersIdle
<1> QED
  BY <1>2, <1>3 DEF JoinInv

LEMMA JoinCoordinator ==
  ASSUME TypeInv, JoinInv, CoordinatorStep
  PROVE  JoinInv'
<1> USE DEF control, domain, trace, workers, Goes, Fails, CallCancelAll
<1>1. CASE Admit \/ RecordStart \/ StartPrimary \/ Prepare \/ Loop
  <2>1. ~closed /\ ~TerminalRun(runState)
    BY <1>1 DEF Admit, RecordStart, StartPrimary, Prepare, Loop, JoinInv, Closing, Cancelling
  <2>2. closed' = closed /\ ~TerminalRun(runState)'
    BY <1>1, <2>1 DEF Admit, RecordStart, StartPrimary, Prepare, Loop, TerminalRun
  <2>3. pc' \in {"rejected", "recordStart", "abort", "start", "loop", "cancelAll", "afterLoop", "dispatch"}
    BY <1>1 DEF Admit, RecordStart, StartPrimary, Prepare, Loop
  <2> QED
    BY <2>1, <2>2, <2>3, JoinOpen
<1>2. CASE AdmitJob \/ DispatchJob \/ DispatchCut \/ OpenGate \/ \E r \in Roles : Collect(r)
  <2>1. ~closed /\ ~TerminalRun(runState)
    BY <1>2 DEF AdmitJob, DispatchJob, DispatchCut, OpenGate, Collect, JoinInv, Closing, Cancelling
  <2>2. closed' = closed /\ runState' = runState
    BY <1>2 DEF AdmitJob, DispatchJob, DispatchCut, OpenGate, Collect
  <2>3. pc' \in {"dispatchJob", "dispatch", "abort", "cancelAll", "collect"}
    BY <1>2 DEF AdmitJob, DispatchJob, DispatchCut, OpenGate, Collect
  <2> QED
    BY <2>1, <2>2, <2>3, JoinOpen DEF TerminalRun
<1>3. CASE CommitWave \/ PrepareCommit \/ CommitLoopEnds \/ AfterCommit \/ NextWave
  <2>1. ~closed /\ ~TerminalRun(runState)
    BY <1>3 DEF CommitWave, PrepareCommit, CommitLoopEnds, AfterCommit, NextWave, JoinInv, Closing,
                Cancelling
  <2>2. closed' = closed /\ runState' = runState
    BY <1>3 DEF CommitWave, PrepareCommit, CommitLoopEnds, AfterCommit, NextWave
  <2>3. pc' \in {"cancelAll", "commitStopped", "commitTrailers", "commitStoppedJob", "commitJob",
                 "commitRest", "afterCommit", "nextWave", "afterLoop", "loop", "abort"}
    BY <1>3 DEF CommitWave, PrepareCommit, CommitLoopEnds, AfterCommit, NextWave
  <2> QED
    BY <2>1, <2>2, <2>3, JoinOpen DEF TerminalRun
<1>4. CASE CommitTrailer \/ CommitJob
  <2>1. ~closed /\ ~TerminalRun(runState)
    BY <1>4 DEF CommitTrailer, CommitJob, JoinInv, Closing, Cancelling
  <2>2. closed' = closed
    BY <1>4 DEF CommitTrailer, CommitJob
  <2>3. runState' = runState
    BY <1>4 DEF CommitTrailer, CommitJob, Commit, CommitOutcome, CommitExtraction, CommitUnrecorded
  <2>4. pc' \in CommitLoops \cup {"abort"}
    BY <1>4, CommitTarget
  <2> QED
    BY <2>1, <2>2, <2>3, <2>4, JoinOpen DEF CommitLoops, TerminalRun
<1>5. CASE CancelAll \/ CancelSample \/ CancelRole \/ CancelReturn
  <2>1. UNCHANGED <<closed, runState, job>> /\ pc \in Cancelling
    BY <1>5 DEF CancelAll, CancelSample, CancelRole, CancelReturn, Cancelling
  <2>2. \/ pc' \in Cancelling /\ ret' = ret
        \/ pc' = "abort"
        \/ pc' = ret
    BY <1>5 DEF CancelAll, CancelSample, CancelRole, CancelReturn, Cancelling, AfterCancelError
  <2>3. ret \in {"abort", "afterLoop", "afterCommit", "nextWave", "checkRoles", "linearize",
                 "authorize", "abortAuthorize"}
    BY <2>1 DEF TypeInv, TypeOK, ControlType, ControlInv, Cancelling
  <2> QED
    BY <2>1, <2>2, <2>3 DEF JoinInv, WorkersIdle, Cancelling, Closing, TerminalRun
<1>6. CASE AfterLoop \/ CheckRoles \/ Linearize
  <2>1. ~closed /\ ~TerminalRun(runState)
    BY <1>6 DEF AfterLoop, CheckRoles, Linearize, JoinInv, Closing, Cancelling
  <2>2. closed' = closed /\ runState' = runState
    BY <1>6 DEF AfterLoop, CheckRoles, Linearize, EndUnchanged
  <2>3. pc' \in {"cancelAll", "checkRoles", "linearize", "authorize"}
    BY <1>6 DEF AfterLoop, CheckRoles, Linearize
  <2> QED
    BY <2>1, <2>2, <2>3, JoinOpen DEF TerminalRun
<1>7. CASE Authorize
  BY <1>7 DEF Authorize, JoinInv, Closing, Cancelling, WorkersIdle, TerminalRun
<1>8. CASE CloseJobs
  <2>1. UNCHANGED <<runState, job>> /\ closed'
    BY <1>8 DEF CloseJobs
  <2>2. CASE pc = "close"
    BY <1>8, <2>1, <2>2 DEF CloseJobs, JoinInv, Closing, Cancelling, WorkersIdle, TerminalRun
  <2>3. CASE pc = "abortClose" /\ closed
    BY <1>8, <2>1, <2>3 DEF CloseJobs, JoinInv, Closing, Cancelling, WorkersIdle, TerminalRun
  <2>4. CASE pc = "abortClose" /\ ~closed
    BY <1>8, <2>1, <2>4 DEF CloseJobs, JoinInv, Closing, Cancelling, WorkersIdle, TerminalRun
  <2> QED
    BY <1>8, <2>2, <2>3, <2>4 DEF CloseJobs
<1>9. CASE JoinWorkers
  BY <1>9 DEF JoinWorkers, JoinInv, Closing, Cancelling, WorkersIdle, TerminalRun
<1>10. CASE FinishRun \/ RecordTerminal
  <2>1. pc \in {"finish", "abortFinish", "terminal", "abortTerminal"} /\ UNCHANGED <<closed, job>>
        /\ pc' \in {"terminal", "abortTerminal", "done", "abort"}
    BY <1>10 DEF FinishRun, RecordTerminal
  <2> QED
    BY <2>1 DEF JoinInv, Closing, Cancelling, WorkersIdle
<1>11. CASE Abort \/ AbortCancel
  <2>1. pc \in {"abort", "abortCancel"} /\ UNCHANGED <<closed, job, runState>>
    BY <1>11 DEF Abort, AbortCancel, EndUnchanged
  <2>2. pc' \in {"abortCancel", "abortAuthorize"} \/ (pc' = "cancelAll" /\ ret' = "abortAuthorize")
    BY <1>11 DEF Abort, AbortCancel
  <2> QED
    BY <2>1, <2>2 DEF JoinInv, Closing, Cancelling, WorkersIdle, TerminalRun
<1> QED
  BY <1>1, <1>2, <1>3, <1>4, <1>5, <1>6, <1>7, <1>8, <1>9, <1>10, <1>11 DEF CoordinatorStep

LEMMA JoinNext == TypeInv /\ JoinInv /\ [Next]_vars => JoinInv'
<1> SUFFICES ASSUME TypeInv, JoinInv, [Next]_vars PROVE JoinInv'
  OBVIOUS
<1>1. CASE CoordinatorStep
  BY <1>1, JoinCoordinator
<1>2. CASE \E r \in Roles : WorkerStep(r)
  BY <1>2, JoinWorker
<1>3. CASE ContextStep \/ Finished \/ UNCHANGED vars
  <2>1. UNCHANGED <<pc, ret, closed, job, runState>>
    BY <1>3 DEF ContextStep, CallerEnds, RunDeadline, PropagateToRun, PropagateToDispatch, Finished,
                vars, control, domain, workers
  <2> QED
    BY <2>1 DEF JoinInv, WorkersIdle, TerminalRun
<1> QED
  BY <1>1, <1>2, <1>3 DEF Next

\* However many roles, lanes and faults: finishRun is only reached after close() joined
\* every worker, so a terminal run has no provider in flight and no job queued or held.
THEOREM WorkersJoined == Spec => []JoinedBeforeTerminal
<1>1. Spec => [](TypeInv /\ JoinInv)
  BY TypeInit, TypeNext, JoinInit, JoinNext, PTL DEF Spec
<1>2. TypeInv /\ JoinInv => JoinedBeforeTerminal
  BY DEF TypeInv, TypeOK, WorkersType, JobStates, JoinInv, JoinedBeforeTerminal, WorkersIdle
<1> QED
  BY <1>1, <1>2, PTL

-----------------------------------------------------------------------------
(* A recorded stop keeps its authority and nothing is dispatched after it.    *)

Committing == CommitLoops \cup {"commitStoppedJob", "commitJob"}

StopInv ==
  /\ dispatchStop # NoCondition => schedErr # "none" /\ pc # "dispatchJob"
  /\ pc = "cancelAll" => cancelCondition # NoCondition
  /\ \A r \in Roles : job[r] \in {"sent", "collected"} => result[r].condition # NoCondition
  /\ pc \in Committing =>
       todo \subseteq dispatched /\ \A r \in dispatched : job[r] = "collected"

\* What a step may do to the stops: the action of StopNeverWeakens.
StopStep ==
  /\ stopCondition # NoCondition =>
       stopCondition' # NoCondition /\ Precedence(stopCondition') <= Precedence(stopCondition)
  /\ dispatchStop # NoCondition =>
       /\ dispatchStop' # NoCondition /\ Precedence(dispatchStop') <= Precedence(dispatchStop)
       /\ dispatchEvents' = dispatchEvents

LEMMA StopInit == Init => StopInv
BY DEF Init, StopInv, Committing, CommitLoops

LEMMA ReducePrecedence ==
  ASSUME NEW c, NEW d
  PROVE  Precedence(Reduce(c, d)) <= Precedence(c)
<1>1. Precedence(c) \in Nat /\ Precedence(d) \in Nat
  BY PrecedenceType
<1> QED
  BY <1>1 DEF Reduce

\* The result of a reduction is a condition whenever both its arguments are.
LEMMA ReduceCondition ==
  ASSUME NEW c, NEW d, c # NoCondition, d # NoCondition
  PROVE  Reduce(c, d) # NoCondition
BY ReduceType

LEMMA RequestDispatchStopAuthority ==
  ASSUME NEW c, c # NoCondition, NEW ok \in BOOLEAN, RequestDispatchStop(c, ok)
  PROVE  /\ schedErr' # "none"
         /\ dispatchStop # NoCondition =>
              /\ dispatchStop' # NoCondition
              /\ Precedence(dispatchStop') <= Precedence(dispatchStop)
<1> DEFINE reduced == IF dispatchStop = NoCondition THEN c ELSE Reduce(dispatchStop, c)
<1>1. schedErr' # "none"
  BY DEF RequestDispatchStop, CancelledDispatch
<1>2. dispatchStop' = dispatchStop \/ dispatchStop' = reduced
  BY DEF RequestDispatchStop
<1>3. dispatchStop # NoCondition =>
        reduced # NoCondition /\ Precedence(reduced) <= Precedence(dispatchStop)
  BY ReducePrecedence, ReduceCondition
<1>4. Precedence(dispatchStop) <= Precedence(dispatchStop)
  BY PrecedenceType
<1> HIDE DEF reduced
<1> QED
  BY <1>1, <1>2, <1>3, <1>4

\* A step that leaves the stops alone keeps their authority.
LEMMA StopsKept ==
  ASSUME UNCHANGED stop, dispatchStop # NoCondition => dispatchEvents' = dispatchEvents
  PROVE  StopStep
<1>1. Precedence(stopCondition) <= Precedence(stopCondition)
      /\ Precedence(dispatchStop) <= Precedence(dispatchStop)
  BY PrecedenceType
<1> QED
  BY <1>1 DEF StopStep, stop

LEMMA StopWorker ==
  ASSUME TypeInv, StopInv, NEW r \in Roles, WorkerStep(r)
  PROVE  StopInv' /\ StopStep
<1>1. UNCHANGED <<control, trace, stop, context>>
  BY DEF WorkerStep, WorkerTake, WorkerSkip, WorkerNoWindow, WorkerInvoke, WorkerReturn, Report
<1>2. StopStep
  BY <1>1, StopsKept DEF trace
<1>3. job[r] \in {"queued", "held", "invoking"}
  BY DEF WorkerStep, WorkerTake, WorkerSkip, WorkerNoWindow, WorkerInvoke, WorkerReturn
<1>4. \/ \E s \in {"held", "invoking"} : job' = [job EXCEPT ![r] = s] /\ result' = result
      \/ \E c, out : c # NoCondition /\ Report(r, c, out)
  <2>1. CASE WorkerTake(r)
    BY <2>1 DEF WorkerTake
  <2>2. CASE WorkerInvoke(r)
    BY <2>2 DEF WorkerInvoke
  <2>3. CASE WorkerSkip(r) \/ WorkerNoWindow(r)
    <3>1. "timeout" # NoCondition /\ "cancelled" # NoCondition
      BY DEF NoCondition
    <3> QED
      BY <2>3, <3>1 DEF WorkerSkip, WorkerNoWindow
  <2>4. CASE WorkerReturn(r)
    <3>1. PICK c \in RuntimeConditions : \E out :
             Report(r, WorkerCondition(c, schedErr), out)
      BY <2>4 DEF WorkerReturn
    <3>2. c # NoCondition /\ "timeout" # NoCondition /\ "cancelled" # NoCondition
      BY ConstantsAssumption
      DEF NoCondition, AttemptConditions, ValidRows, RepairRows, ClosedOutputRows, RetryRows,
          TimeoutRows, AuthRows, SecurityRows, OtherProviderRows, RunRows
    <3>3. WorkerCondition(c, schedErr) # NoCondition
      BY <3>2, WorkerConditionType
    <3> QED
      BY <3>1, <3>3
  <2> QED
    BY <2>1, <2>2, <2>3, <2>4 DEF WorkerStep
<1>5. \A q \in Roles : job'[q] \in {"sent", "collected"} => result'[q].condition # NoCondition
  BY <1>4 DEF Report, StopInv, TypeInv, TypeOK, WorkersType
<1>6. \A q \in Roles : job[q] = "collected" => job'[q] = "collected"
  BY <1>3, <1>4 DEF Report, TypeInv, TypeOK, WorkersType
<1>7. dispatched' = dispatched /\ todo' = todo /\ pc' = pc /\ cancelCondition' = cancelCondition
      /\ schedErr' = schedErr /\ dispatchStop' = dispatchStop
  BY <1>1 DEF control, context, stop
<1>8. dispatched \subseteq Roles
  BY DEF TypeInv, TypeOK, ControlType
<1> QED
  BY <1>2, <1>5, <1>6, <1>7, <1>8 DEF StopInv

\* A coordinator step that touches neither the stops nor the jobs.
LEMMA StopQuiet ==
  ASSUME TypeInv, StopInv, UNCHANGED <<stop, job, result, dispatchEvents>>,
         schedErr # "none" => schedErr' # "none",
         pc' # "dispatchJob",
         pc' = "cancelAll" => cancelCondition' # NoCondition,
         pc' \in Committing =>
           pc \in Committing /\ dispatched' = dispatched /\ todo' \subseteq dispatched
  PROVE  StopInv' /\ StopStep
<1>1. StopStep
  BY StopsKept
<1> QED
  BY <1>1 DEF StopInv, stop

\* A step that requests a stop.
LEMMA StopRequested ==
  ASSUME TypeInv, StopInv, NEW c, c # NoCondition, NEW ok \in BOOLEAN, RequestDispatchStop(c, ok),
         UNCHANGED <<job, result, dispatchEvents, dispatched>>,
         pc' \notin {"dispatchJob", "cancelAll"},
         pc' \in Committing =>
           todo' \subseteq dispatched /\ \A r \in dispatched : job[r] = "collected",
         stopCondition # NoCondition =>
           stopCondition' # NoCondition /\ Precedence(stopCondition') <= Precedence(stopCondition)
  PROVE  StopInv' /\ StopStep
<1>1. /\ schedErr' # "none"
      /\ dispatchStop # NoCondition =>
           /\ dispatchStop' # NoCondition
           /\ Precedence(dispatchStop') <= Precedence(dispatchStop)
  BY RequestDispatchStopAuthority
<1>2. StopStep
  BY <1>1 DEF StopStep
<1>3. StopInv'
  BY <1>1 DEF StopInv
<1> QED
  BY <1>2, <1>3

LEMMA StopCoordinator ==
  ASSUME TypeInv, StopInv, CoordinatorStep
  PROVE  StopInv' /\ StopStep
<1> USE DEF control, domain, trace, workers, context, Goes, Fails, CallCancelAll
<1>n. /\ "internal_invariant" # NoCondition /\ "cancelled" # NoCondition
      /\ "timeout" # NoCondition /\ "valid_review" # NoCondition
  BY DEF NoCondition
<1>c. ContextCondition # NoCondition
  BY <1>n, ContextConditionType
<1>w. pc \in Committing \/ (\A r \in dispatched : job[r] = "collected") => WaveCondition # NoCondition
  <2>1. dispatched \subseteq Roles
    BY DEF TypeInv, TypeOK, ControlType
  <2> QED
    BY <1>n, <2>1, WaveConditionReported DEF StopInv
<1>1. CASE Admit \/ RecordStart \/ StartPrimary \/ Prepare \/ Loop
  <2>1. UNCHANGED <<stop, job, result, dispatchEvents, schedErr>>
    BY <1>1 DEF Admit, RecordStart, StartPrimary, Prepare, Loop
  <2>2. pc' \in {"rejected", "recordStart", "abort", "start", "loop", "cancelAll", "afterLoop", "dispatch"}
    BY <1>1 DEF Admit, RecordStart, StartPrimary, Prepare, Loop
  <2>3. pc' = "cancelAll" => cancelCondition' # NoCondition
    BY <1>1, <1>c DEF Admit, RecordStart, StartPrimary, Prepare, Loop
  <2>4. pc' \notin Committing /\ pc' # "dispatchJob"
    BY <2>2 DEF Committing, CommitLoops
  <2> QED
    BY <2>1, <2>3, <2>4, StopQuiet
<1>2. CASE AdmitJob
  <2>1. dispatchStop = NoCondition /\ UNCHANGED <<stop, dispatchEvents, schedErr>> /\ pc' = "dispatchJob"
    BY <1>2 DEF AdmitJob, StopInv, stop
  <2>2. StopStep
    BY <2>1, StopsKept
  <2>3. \A r \in Roles : job'[r] \in {"sent", "collected"} => job'[r] = job[r] /\ result'[r] = result[r]
    BY <1>2 DEF AdmitJob, TypeInv, TypeOK, WorkersType
  <2>4. StopInv'
    BY <2>1, <2>3 DEF StopInv, stop, Committing, CommitLoops
  <2> QED
    BY <2>2, <2>4
<1>3. CASE DispatchJob
  <2>1. dispatchStop = NoCondition /\ UNCHANGED <<stop, job, result, schedErr>>
        /\ pc' \in {"dispatch", "abort"}
    BY <1>3 DEF DispatchJob, StopInv, stop
  <2>2. StopStep
    BY <2>1, StopsKept
  <2>3. StopInv'
    BY <2>1 DEF StopInv, stop, Committing, CommitLoops
  <2> QED
    BY <2>2, <2>3
<1>4. CASE DispatchCut \/ OpenGate
  <2>1. UNCHANGED <<stop, job, result, dispatchEvents>> /\ (schedErr # "none" => schedErr' # "none")
    BY <1>4 DEF DispatchCut, OpenGate, CancelledDispatch
  <2>2. pc' \in {"cancelAll", "collect"} /\ (pc' = "cancelAll" => cancelCondition' # NoCondition)
    BY <1>4, <1>c DEF DispatchCut, OpenGate
  <2> QED
    BY <2>1, <2>2, StopQuiet DEF Committing, CommitLoops
<1>5. CASE \E r \in Roles : Collect(r)
  <2>1. PICK r \in Roles : Collect(r)
    BY <1>5
  <2>2. UNCHANGED <<stop, dispatchEvents>> /\ pc' \in {"collect", "abort"}
        /\ (schedErr # "none" => schedErr' # "none")
    BY <2>1 DEF Collect, CancelledDispatch
  <2>3. PICK c \in EvidenceConditions(result[r].condition) :
          /\ job' = [job EXCEPT ![r] = "collected"]
          /\ result' = [result EXCEPT ![r] =
                IF c = result[r].condition THEN @ ELSE [condition |-> c, output |-> "none"]]
    BY <2>1 DEF Collect
  <2>4. c # NoCondition
    BY <2>1 DEF Collect, EvidenceConditions, StopInv, NoCondition
  <2>5. \A q \in Roles : job'[q] \in {"sent", "collected"} => result'[q].condition # NoCondition
    BY <2>3, <2>4 DEF StopInv, TypeInv, TypeOK, WorkersType
  <2>6. StopInv'
    BY <2>2, <2>5 DEF StopInv, stop, Committing, CommitLoops
  <2>7. StopStep
    BY <2>2, StopsKept
  <2> QED
    BY <2>6, <2>7
<1>6. CASE CommitWave
  <2>1. \A r \in dispatched : job[r] = "collected"
    BY <1>6 DEF CommitWave, Collected
  <2>2. UNCHANGED <<job, result, dispatchEvents, dispatched, stopCondition>>
        /\ (pc' \in Committing => todo' \subseteq dispatched)
    BY <1>6 DEF CommitWave, Committing, CommitLoops
  <2>3. CASE pc' = "cancelAll" /\ cancelCondition' = SampledContext /\ SampledContext # NoCondition
             /\ UNCHANGED <<dispatchStop, schedErr>>
    BY <2>2, <2>3, StopQuiet DEF stop, Committing, CommitLoops
  <2>4. CASE pc' = "commitTrailers" /\ UNCHANGED <<dispatchStop, schedErr>>
    <3>1. StopStep
      BY <2>2, <2>4, StopsKept DEF stop
    <3> QED
      BY <2>1, <2>2, <2>4, <3>1 DEF StopInv
  <2>5. CASE \E ok \in BOOLEAN : RequestDispatchStop(WaveCondition, ok) /\ pc' \in {"commitStopped", "abort"}
    <3>1. stopCondition # NoCondition =>
            stopCondition' # NoCondition /\ Precedence(stopCondition') <= Precedence(stopCondition)
      BY <2>2, PrecedenceType
    <3> QED
      BY <1>w, <2>1, <2>2, <2>5, <3>1, StopRequested
  <2> QED
    BY <1>6, <2>3, <2>4, <2>5 DEF CommitWave
<1>7. CASE PrepareCommit
  <2> DEFINE d == ConditionForTransition(result[NextRole].condition, SampledContext)
  <2>1. UNCHANGED <<job, result, dispatchEvents, dispatched, todo, stopCondition>>
        /\ pc \in Committing /\ pc' \in {"commitStoppedJob", "commitJob", "abort"}
    BY <1>7 DEF PrepareCommit, Committing, CommitLoops
  <2>t. todo \subseteq dispatched /\ \A r \in dispatched : job[r] = "collected"
    BY <2>1 DEF StopInv
  <2>2. CASE UNCHANGED <<dispatchStop, schedErr>>
    BY <2>1, <2>t, <2>2, StopQuiet DEF stop
  <2>3. CASE \E ok \in BOOLEAN : RequestDispatchStop(d, ok)
    <3>1. NextRole \in dispatched
      BY <1>7, <2>t, NextRoleInTodo DEF PrepareCommit, TypeInv, TypeOK, ControlType
    <3>2. d # NoCondition
      BY <1>n, <2>1, <3>1, ConditionForTransitionType DEF StopInv, TypeInv, TypeOK, ControlType
    <3>3. stopCondition # NoCondition =>
            stopCondition' # NoCondition /\ Precedence(stopCondition') <= Precedence(stopCondition)
      BY <2>1, PrecedenceType
    <3> HIDE DEF d
    <3> QED
      BY <2>1, <2>t, <2>3, <3>2, <3>3, StopRequested
  <2> QED
    BY <1>7, <2>2, <2>3 DEF PrepareCommit
<1>8. CASE CommitTrailer \/ CommitJob
  <2>1. UNCHANGED <<stop, job, result, dispatchEvents, schedErr, dispatched>> /\ pc \in Committing
    BY <1>8 DEF CommitTrailer, CommitJob, Committing, CommitLoops
  <2>2. pc' \in CommitLoops \cup {"abort"} /\ todo' \subseteq dispatched
    BY <1>8, <2>1, CommitTarget DEF StopInv
  <2> QED
    BY <2>1, <2>2, StopQuiet DEF Committing, CommitLoops
<1>9. CASE CommitLoopEnds \/ AfterCommit \/ NextWave
  <2>1. UNCHANGED <<stop, job, result, dispatchEvents, schedErr>>
    BY <1>9 DEF CommitLoopEnds, AfterCommit, NextWave
  <2>2. pc' \in {"commitRest", "afterCommit", "cancelAll", "nextWave", "afterLoop", "loop"}
    BY <1>9 DEF CommitLoopEnds, AfterCommit, NextWave
  <2>3. pc' = "commitRest" =>
          pc \in Committing /\ dispatched' = dispatched /\ todo' \subseteq dispatched
    BY <1>9 DEF CommitLoopEnds, AfterCommit, NextWave, Committing, CommitLoops
  <2>4. pc' = "cancelAll" => cancelCondition' # NoCondition
    BY <1>9, <1>c, <1>w DEF CommitLoopEnds, AfterCommit, NextWave, Committing, CommitLoops
  <2> QED
    BY <2>1, <2>2, <2>3, <2>4, StopQuiet DEF Committing, CommitLoops
<1>10. CASE CancelAll
  <2> DEFINE e == IF stopCondition = NoCondition THEN cancelCondition
                  ELSE Reduce(stopCondition, cancelCondition)
  <2>1. cancelCondition # NoCondition
    BY <1>10 DEF CancelAll, StopInv
  <2>2. e # NoCondition /\ (stopCondition # NoCondition => Precedence(e) <= Precedence(stopCondition))
    BY <2>1, ReduceCondition, ReducePrecedence
  <2>3. PICK ok \in BOOLEAN : RequestDispatchStop(e, ok)
    BY <1>10 DEF CancelAll
  <2>4. stopCondition' = e /\ UNCHANGED <<job, result, dispatchEvents, dispatched>>
    BY <1>10 DEF CancelAll
  <2>5. pc' \in {"cancelSample", "abort", "abortAuthorize"}
    BY <1>10 DEF CancelAll, AfterCancelError
  <2> HIDE DEF e
  <2> QED
    BY <2>2, <2>3, <2>4, <2>5, StopRequested DEF Committing, CommitLoops
<1>11. CASE CancelSample \/ CancelRole \/ CancelReturn
  <2>1. UNCHANGED <<stop, job, result, dispatchEvents, schedErr>>
    BY <1>11 DEF CancelSample, CancelRole, CancelReturn
  <2>2. pc' \in {"cancelRoles", "abort"} \/ pc' = ret
    BY <1>11 DEF CancelSample, CancelRole, CancelReturn, AfterCancelError
  <2>3. ret \in {"none", "abort", "afterLoop", "afterCommit", "nextWave", "checkRoles",
                 "linearize", "authorize", "abortAuthorize"}
    BY DEF TypeInv, TypeOK, ControlType
  <2> QED
    BY <2>1, <2>2, <2>3, StopQuiet DEF Committing, CommitLoops
<1>12. CASE AfterLoop \/ CheckRoles \/ Linearize \/ AbortCancel
  <2>1. UNCHANGED <<stop, job, result, dispatchEvents, schedErr>>
    BY <1>12 DEF AfterLoop, CheckRoles, Linearize, AbortCancel, EndUnchanged
  <2>2. pc' \in {"cancelAll", "checkRoles", "linearize", "authorize", "abortAuthorize"}
    BY <1>12 DEF AfterLoop, CheckRoles, Linearize, AbortCancel
  <2>3. pc' = "cancelAll" => cancelCondition' # NoCondition
    BY <1>12, <1>c, <1>n DEF AfterLoop, CheckRoles, Linearize, AbortCancel
  <2> QED
    BY <2>1, <2>2, <2>3, StopQuiet DEF Committing, CommitLoops
<1>13. CASE Authorize \/ CloseJobs \/ JoinWorkers \/ FinishRun \/ RecordTerminal \/ Abort
  <2>1. UNCHANGED <<stop, job, result, dispatchEvents>> /\ (schedErr # "none" => schedErr' # "none")
    BY <1>13 DEF Authorize, CloseJobs, JoinWorkers, FinishRun, RecordTerminal, Abort, CancelledDispatch
  <2>2. pc' \in {"abortClose", "close", "abort", "join", "abortFinish", "abortJoin", "finish",
                 "terminal", "abortTerminal", "done", "abortCancel"}
    BY <1>13 DEF Authorize, CloseJobs, JoinWorkers, FinishRun, RecordTerminal, Abort
  <2> QED
    BY <2>1, <2>2, StopQuiet DEF Committing, CommitLoops
<1> QED
  BY <1>1, <1>2, <1>3, <1>4, <1>5, <1>6, <1>7, <1>8, <1>9, <1>10, <1>11, <1>12, <1>13
  DEF CoordinatorStep

LEMMA StopNext == TypeInv /\ StopInv /\ [Next]_vars => StopInv' /\ [StopStep]_vars
<1> SUFFICES ASSUME TypeInv, StopInv, [Next]_vars PROVE StopInv' /\ [StopStep]_vars
  OBVIOUS
<1>1. CASE CoordinatorStep
  BY <1>1, StopCoordinator
<1>2. CASE \E r \in Roles : WorkerStep(r)
  BY <1>2, StopWorker
<1>3. CASE ContextStep
  <2>1. UNCHANGED <<control, trace, stop, workers>> /\ (schedErr # "none" => schedErr' # "none")
    BY <1>3 DEF ContextStep, CallerEnds, RunDeadline, PropagateToRun, PropagateToDispatch
  <2>2. StopStep
    BY <2>1, StopsKept DEF trace
  <2> QED
    BY <2>1, <2>2 DEF StopInv, control, stop, workers
<1>4. CASE Finished \/ UNCHANGED vars
  <2>1. UNCHANGED vars
    BY <1>4 DEF Finished
  <2> QED
    BY <2>1 DEF StopInv, vars, control, stop, workers, context
<1> QED
  BY <1>1, <1>2, <1>3, <1>4 DEF Next

\* In every execution a recorded stop only gains authority, and once dispatch was
\* stopped no further job is dispatched, whatever context ends while it is recorded.
THEOREM StopAuthority == Spec => StopNeverWeakens
<1>1. TypeInv /\ StopInv /\ [Next]_vars => TypeInv' /\ StopInv' /\ [StopStep]_vars
  BY TypeNext, StopNext
<1>2. Init => TypeInv /\ StopInv
  BY TypeInit, StopInit
<1>3. Spec => [][StopStep]_vars
  BY <1>1, <1>2, PTL DEF Spec
<1> QED
  BY <1>3 DEF StopNeverWeakens, StopStep

-----------------------------------------------------------------------------
(* The inductive invariant.                                                   *)

AbortPCs == {"abort", "abortCancel", "abortAuthorize", "abortClose", "abortJoin", "abortFinish",
             "abortTerminal"}

\* The loop that commits the wave, from its reduction to its last job.
WavePCs == {"dispatch", "dispatchJob", "collect"} \cup Committing

\* The wave whose reduced condition stops the run.
StoppingPCs == {"commitStopped", "commitStoppedJob"}

\* Conditions that no context and no trailer outranks.
GraveConditions == SecurityRows \cup {"internal_invariant", "artifact_failure"}

Grave(r) == job[r] = "collected" /\ result[r].condition \in GraveConditions

\* A live attempt whose latest invocation is in state s: its phase and the states of
\* its invocations agree.
InPhase(a, s) ==
  /\ a.ok
  /\ \/ a.purpose = "none" /\ a.state = "running" /\ a.first = s
     \/ a.purpose = "retry" /\ a.state = "running" /\ a.first = "failed" /\ a.second = s
     \/ a.purpose = "repair" /\ a.state = "repairing" /\ a.first = "succeeded" /\ a.second = s
     \/ a.purpose = "extract" /\ a.state = "validating" /\ a.first = "succeeded" /\ a.second = s

\* A role waits for its next job to be dispatched, or has a job that is not committed.
Waits(r) == roleState[r] = "primary_running" /\ InPhase(attempt[r], "queued")
Flies(r) == roleState[r] = "primary_running" /\ InPhase(attempt[r], "running")
Ended(r) == TerminalRole(roleState[r])

\* The role task and its attempt agree.
RoleOK(r) ==
  /\ roleState[r] \in {"pending", "primary_queued"} => attempt[r] = NoAttempt
  /\ roleState[r] = "primary_running" => Waits(r) \/ Flies(r)
  /\ Ended(r) => roleState[r] # "blocked" /\ attempt[r].ok
  /\ roleState[r] = "succeeded" => attempt[r].state = "succeeded" /\ output[r] # "none"

\* The events recorded for a role count its invocations.
EventsOK(r) ==
  /\ roleState[r] = "pending" => dispatchEvents[r] = 0 /\ commitEvents[r] = 0
  /\ Waits(r) => /\ dispatchEvents[r] = commitEvents[r]
                 /\ commitEvents[r] = Invocations(attempt[r]) - 1
  /\ Flies(r) => /\ dispatchEvents[r] = commitEvents[r] + 1
                 /\ commitEvents[r] = Invocations(attempt[r]) - 1
  /\ Ended(r) => commitEvents[r] <= dispatchEvents[r]
  /\ roleState[r] = "succeeded" =>
       commitEvents[r] = Invocations(attempt[r]) /\ dispatchEvents[r] = commitEvents[r]

\* Which errors are possible where, and when the run is terminal.
FlowInv ==
  /\ pc \in AbortPCs \cup {"rejected"} => failed
  /\ pc \in Cancelling => (failed <=> ret = "abortAuthorize")
  /\ failed => pc \in AbortPCs \cup Cancelling \cup {"rejected", "done"}
  /\ faults # 0 => failed
  /\ runState = "pending" <=> pc \in {"admit", "rejected"}
  /\ TerminalRun(runState) =>
       \/ pc \in {"terminal", "done", "abortTerminal"}
       \/ /\ pc \in {"abort", "abortCancel", "abortAuthorize", "abortClose", "abortFinish"}
          /\ AllRolesTerminal
  /\ pc \in {"terminal", "done", "abortTerminal"} => TerminalRun(runState)

\* The trace is a true account of the roles.
TraceInv ==
  /\ \A r \in terminalRoles : Ended(r)
  /\ workersCloseAuthorized => AllRolesTerminal
  /\ runTerminalRecorded => workersCloseAuthorized
  /\ ~failed =>
       /\ runStarted <=> pc \notin {"admit", "recordStart"}
       /\ \A r \in Roles : Ended(r) => r \in terminalRoles
       /\ workersCloseAuthorized <=> pc \in {"close", "join", "finish", "terminal", "done"}
       /\ runTerminalRecorded <=> pc = "done"

\* The roles of a wave that is not stopped: which of them wait, fly or have ended.
Waiting ==
  IF pc = "loop" THEN wave
  ELSE IF pc = "nextWave" THEN next
  ELSE IF pc \in WavePCs \cup {"afterCommit"} THEN (wave \ dispatched) \cup next
  ELSE {}

Flying ==
  IF pc \in {"dispatch", "dispatchJob", "collect"} THEN dispatched
  ELSE IF pc = "commitTrailers" THEN todo \cup {r \in dispatched : ~Bounded(r)}
  ELSE IF pc \in Committing THEN todo
  ELSE {}

WaveInv ==
  /\ pc \in {"admit", "recordStart"} => wave = {} /\ \A r \in Roles : roleState[r] = "pending"
  /\ pc = "start" => /\ wave = Roles \ todo
                     /\ \A r \in todo : roleState[r] = "pending"
                     /\ \A r \in wave : Waits(r)
  /\ pc \notin {"admit", "recordStart", "start"} =>
       \A r \in Roles : roleState[r] \notin {"pending", "primary_queued"}
  /\ pc \in WavePCs \cup {"loop"} => stopCondition = NoCondition
  /\ pc \notin {"admit", "recordStart", "start"} \cup Cancelling /\ stopCondition = NoCondition =>
       /\ \A r \in Waiting : Waits(r)
       /\ \A r \in Flying : Flies(r)
       /\ \A r \in Roles \ (Waiting \cup Flying) : Ended(r)
  /\ stopCondition # NoCondition => AllRolesTerminal \/ pc \in {"cancelSample", "cancelRoles"}
  /\ pc \in WavePCs => dispatched \subseteq wave
  /\ pc \in {"dispatch", "dispatchJob"} => dispatched = wave \ todo /\ todo \subseteq wave
  /\ pc \in {"dispatch", "dispatchJob", "collect", "commitTrailers"} \cup StoppingPCs => next = {}
  /\ pc = "dispatchJob" /\ schedErr # "none" => workErr # "none"
  /\ pc = "dispatch" /\ dispatched # {} /\ schedErr # "none" => workErr # "none"
  /\ pc \in {"collect", "afterCommit"} \cup Committing /\ wave # dispatched /\ stopCondition = NoCondition
       => workErr # "none"
  /\ pc = "commitTrailers" => \A r \in todo : Bounded(r)
  /\ pc \in {"commitRest", "commitJob"} => \A r \in todo : ~Bounded(r)
  /\ pc = "commitStoppedJob" => ~Bounded(NextRole)

\* Why a stop was requested, and who is left to be stopped.
StoppedInv ==
  /\ pc \in {"cancelSample", "cancelRoles"} /\ ~failed => stopCondition # NoCondition
  /\ pc = "cancelAll" => cancelCondition # "valid_review"
  /\ stopCondition # "valid_review"
  /\ pc \in StoppingPCs /\ ~failed => ConditionStopsRun(WaveCondition)
  /\ pc \in Committing \ StoppingPCs /\ ~failed =>
       \A r \in dispatched : ~ConditionStopsRun(result[r].condition)
  /\ pc = "cancelRoles" => todo = {r \in Roles : ~Ended(r)}
  /\ pc = "cancelRoles" => cancelCondition \in {"cancelled", "timeout"}
  /\ pc = "cancelRoles" /\ cancelCondition = "timeout" => workErr = "deadline"

\* A valid outcome carries an output.
ResultInv ==
  \A r \in Roles : job[r] \in {"sent", "collected"} /\ result[r].condition = "valid_review"
                     => result[r].output # "none"

\* Integrity failures reach the stop condition, and nothing else does.
GraveInv ==
  /\ stopCondition = NoCondition /\ (\E r \in Roles : Grave(r)) =>
       pc \in {"collect", "cancelAll"} \cup StoppingPCs
  /\ pc \in {"collect"} \cup StoppingPCs => \A r \in Roles : Grave(r) => r \in dispatched
  /\ pc = "cancelAll" /\ stopCondition = NoCondition =>
       \A r \in Roles : Grave(r) => Precedence(cancelCondition) <= Precedence(result[r].condition)
  /\ stopCondition # NoCondition =>
       \A r \in Roles : Grave(r) => Precedence(stopCondition) <= Precedence(result[r].condition)
  /\ stopCondition \in GraveConditions =>
       \E r \in Roles : Grave(r) /\ result[r].condition = stopCondition
  /\ pc = "cancelAll" /\ cancelCondition \in GraveConditions =>
       \E r \in Roles : Grave(r) /\ result[r].condition = cancelCondition
  /\ pc \in {"terminal", "done"} => runState = FinalRunState

ProtectedClasses == {"internal", "security_policy", "artifact", "configuration"}

\* What became of the role of a trailer.
TrailerInv ==
  \A r \in Roles : attempt[r].purpose = "extract" /\ Ended(r) =>
    /\ roleState[r] = "succeeded" =>
         /\ job[r] = "collected" /\ TerminalClass(result[r].condition) \notin ProtectedClasses
         /\ ~failed /\ result[r].condition = "cancelled" =>
              stopCondition # NoCondition \/ pc \in {"cancelAll"} \cup StoppingPCs
    /\ ~failed /\ roleState[r] # "succeeded" =>
         \/ stopCondition # NoCondition \/ pc \in {"cancelAll"} \cup StoppingPCs
         \/ job[r] = "collected" /\ result[r].condition = "configuration_violation"

\* An error without a fault is the one of a run that was stopped before it began.
NoFaultInv ==
  /\ faults = 0 => ~refusedRole
  /\ faults = 0 /\ failed /\ pc # "rejected" =>
       AllRolesTerminal /\ stopCondition # NoCondition /\ pc \in AbortPCs \cup {"done"}

OutcomeInv ==
  /\ FlowInv /\ TraceInv /\ StoppedInv /\ ResultInv /\ TrailerInv /\ NoFaultInv
  /\ \A r \in Roles : RoleOK(r)
  /\ ~failed => WaveInv /\ GraveInv /\ \A r \in Roles : EventsOK(r)

\* What one fault leaves for abort() to finalize.
AbortInv ==
  failed /\ pc # "rejected" =>
    /\ faults = 1 \/ AllRolesTerminal
    /\ pc \in {"abortCancel"} \cup Cancelling => runStarted \/ AllRolesTerminal
    /\ pc \notin {"abort", "abortCancel"} \cup Cancelling => AllRolesTerminal \/ workErr = "deadline"

-----------------------------------------------------------------------------
(* What the operations of an attempt do to a live one.                        *)

LEMMA InvocationMoves ==
  ASSUME NEW a \in AttemptType, NEW s \in {"queued", "running"}, InPhase(a, s),
         NEW t \in InvocationStates, InvocationCanTransition(s, t)
  PROVE  LET b == TransitionInvocation(a, LatestPurpose(a), t)
         IN  /\ InPhase(b, t) /\ b.purpose = a.purpose /\ b.state = a.state
             /\ b.first = IF a.purpose = "none" THEN t ELSE a.first
             /\ b.second = IF a.purpose = "none" THEN a.second ELSE t
<1>1. CurrentInPhase(a, LatestPurpose(a)) /\ LatestState(a) = s
  BY DEF CurrentInPhase, LatestPurpose, LatestState, InPhase
<1>2. TransitionInvocation(a, LatestPurpose(a), t) =
        IF a.purpose = "none" THEN [a EXCEPT !.first = t] ELSE [a EXCEPT !.second = t]
  BY <1>1 DEF TransitionInvocation, InPhase
<1> QED
  BY <1>2 DEF InPhase, AttemptType

LEMMA AttemptMoves ==
  ASSUME NEW a \in AttemptType, NEW t \in AttemptStates, a.ok, AttemptCanTransition(a.state, t),
         TransitionGuard(a, t)
  PROVE  LET b == Transition(a, t)
         IN  /\ b.ok /\ b.state = t /\ b.purpose = a.purpose
             /\ b.first = a.first /\ b.second = a.second
BY DEF Transition, AttemptType

\* An attempt ends without validation from every phase that may fail so.
LEMMA FailedInvocationEnds ==
  ASSUME NEW a \in AttemptType, InPhase(a, "running"), NEW c, a.purpose = "extract" => c # "timeout"
  PROVE  LET b == FailedInvocation(a, c)
         IN  b.ok /\ TerminalAttempt(b.state) /\ b.state # "succeeded" /\ b.purpose = a.purpose
<1> DEFINE ends == CASE c = "timeout" -> "timed_out" [] c = "cancelled" -> "cancelled"
                     [] OTHER -> "failed"
<1>1. ends \in {"timed_out", "cancelled", "failed"} /\ (ends = "timed_out" => c = "timeout")
  BY Zenon
<1>2. ends \in AttemptStates /\ ends \in InvocationStates /\ InvocationCanTransition("running", ends)
  BY <1>1 DEF AttemptStates, InvocationStates, InvocationCanTransition
<1> HIDE DEF ends
<1>3. PICK b : b = TransitionInvocation(a, LatestPurpose(a), ends)
  OBVIOUS
<1>4. b \in AttemptType /\ b.ok /\ b.state = a.state /\ b.purpose = a.purpose
  BY <1>2, <1>3, InvocationMoves, TransitionInvocationType DEF InPhase
<1>5. AttemptCanTransition(b.state, ends) /\ TransitionGuard(b, ends)
  BY <1>1, <1>4 DEF InPhase, AttemptCanTransition, TransitionGuard
<1>6. PICK d : d = Transition(b, ends)
  OBVIOUS
<1>7. d.ok /\ d.state = ends /\ d.purpose = b.purpose
  BY <1>2, <1>4, <1>5, <1>6, AttemptMoves
<1> USE DEF ends
<1>8. d = FailedInvocation(a, c)
  BY <1>3, <1>6 DEF FailedInvocation
<1> HIDE DEF ends
<1> QED
  BY <1>1, <1>4, <1>7, <1>8 DEF TerminalAttempt

\* A delivered outcome brings the attempt to validation.
LEMMA DeliveredIsValidated ==
  ASSUME NEW a \in AttemptType, InPhase(a, "running"), a.purpose # "extract"
  PROVE  LET b == Transition(TransitionInvocation(a, LatestPurpose(a), "succeeded"), "validating")
         IN  /\ b \in AttemptType /\ b.ok /\ b.state = "validating" /\ b.purpose = a.purpose
             /\ LatestReportState(b) = "succeeded"
             /\ a.purpose = "none" => b.first = "succeeded"
<1>1. "succeeded" \in InvocationStates /\ InvocationCanTransition("running", "succeeded")
      /\ "validating" \in AttemptStates
  BY DEF InvocationStates, AttemptStates, InvocationCanTransition
<1>2. PICK b : b = TransitionInvocation(a, LatestPurpose(a), "succeeded")
  OBVIOUS
<1>3. /\ b \in AttemptType /\ InPhase(b, "succeeded") /\ b.state = a.state /\ b.purpose = a.purpose
      /\ b.ok
  BY <1>1, <1>2, InvocationMoves, TransitionInvocationType DEF InPhase
<1>4. AttemptCanTransition(b.state, "validating") /\ TransitionGuard(b, "validating")
  BY <1>3 DEF InPhase, AttemptCanTransition, TransitionGuard
<1>5. PICK d : d = Transition(b, "validating")
  OBVIOUS
<1>6. d \in AttemptType /\ d.ok /\ d.state = "validating" /\ d.purpose = b.purpose
      /\ d.first = b.first /\ d.second = b.second
  BY <1>1, <1>3, <1>4, <1>5, AttemptMoves, TransitionType
<1> QED
  BY <1>2, <1>3, <1>5, <1>6 DEF InPhase, LatestReportState

\* A validated attempt is terminalized as its condition says.
LEMMA ValidatedEnds ==
  ASSUME NEW a \in AttemptType, a.ok, a.state = "validating", NEW d, d # "timeout",
         d = "valid_review" =>
           LatestReportState(a) = "succeeded"
             /\ (a.purpose = "extract" => TerminalInvocation(a.second))
  PROVE  LET b == TerminalizedAttempt(a, d)
         IN  /\ b.ok /\ TerminalAttempt(b.state) /\ b.purpose = a.purpose
             /\ b.state = "succeeded" <=> d = "valid_review"
<1> DEFINE ends == CASE d = "valid_review" -> "succeeded" [] d = "timeout" -> "timed_out"
                     [] d = "cancelled" -> "cancelled" [] OTHER -> "failed"
<1>1. ends \in {"succeeded", "cancelled", "failed"} /\ (ends = "succeeded" <=> d = "valid_review")
  BY Zenon
<1>2. ends \in AttemptStates
  BY <1>1 DEF AttemptStates
<1> HIDE DEF ends
<1>3. AttemptCanTransition(a.state, ends) /\ TransitionGuard(a, ends)
  BY <1>1 DEF AttemptCanTransition, TransitionGuard
<1>4. PICK b : b = Transition(a, ends)
  OBVIOUS
<1>5. b.ok /\ b.state = ends /\ b.purpose = a.purpose
  BY <1>2, <1>3, <1>4, AttemptMoves
<1>6. ~TerminalAttempt(a.state)
  BY DEF TerminalAttempt
<1> USE DEF ends
<1>7. b = TerminalizedAttempt(a, d)
  BY <1>4, <1>6 DEF TerminalizedAttempt
<1> HIDE DEF ends
<1> QED
  BY <1>1, <1>5, <1>7 DEF TerminalAttempt

\* A trailer's outcome that is not absorbed was neither delivered nor a provider's.
LEMMA UnboundedTrailer ==
  ASSUME NEW c, ~ExtractionIsBounded("extract", c)
  PROVE  /\ ~RequiresValidation(c) /\ c # "timeout" /\ c # "valid_review"
         /\ c \notin RepairRows \cup RetryRows \cup TimeoutRows
         /\ c \notin ClosedOutputRows \cup AuthRows \cup OtherProviderRows
<1>1. FailurePrecedence(TerminalClass(c)) > 2
  BY DEF ExtractionIsBounded, BoundedFailureCeiling, FailurePrecedence
<1>2. TerminalClass(c) \in {"internal", "security_policy", "artifact", "cancelled", "configuration"}
  BY <1>1 DEF FailurePrecedence
<1>3. c \notin ValidRows \cup RepairRows \cup ClosedOutputRows \cup RetryRows \cup TimeoutRows
               \cup AuthRows \cup {"provider_spawn_failed", "quota", "rate_limit"}
  BY <1>2 DEF TerminalClass, ValidRows, RepairRows, ClosedOutputRows, RetryRows, TimeoutRows,
              AuthRows, SecurityRows
<1> QED
  BY <1>3 DEF RequiresValidation, ValidRows, RepairRows, ClosedOutputRows, RetryRows, TimeoutRows,
              OtherProviderRows

\* What DecideTransition says of a condition.
Decided(d, c) ==
  /\ d.condition \in {c, "cancelled"}
  /\ d.scheduleRetry => c \in RetryRows
  /\ d.scheduleRepair => c \in RepairRows
  /\ ~d.scheduleRetry /\ ~d.scheduleRepair =>
       /\ d.projection \in {"succeeded", "failed", "cancelled"}
       /\ d.projection = "succeeded" <=> d.condition = "valid_review"
  /\ d.projection = "succeeded" => d.condition = "valid_review"

LEMMA DecisionFacts ==
  ASSUME NEW c, NEW slot \in BOOLEAN, NEW observed \in BOOLEAN,
         NEW d, d = DecideTransition(c, slot, observed)
  PROVE  Decided(d, c) /\ (d.scheduleRetry \/ d.scheduleRepair => ~slot)
<1> DEFINE e == IF observed THEN Reduce(c, "cancelled") ELSE c
           repair == e \in RepairRows /\ ~slot
           retry == e \in RetryRows /\ ~slot
<1>1. e \in {c, "cancelled"}
  BY ReduceType
<1>2. RowProjection(e) \in {"succeeded", "failed", "cancelled"}
      /\ (RowProjection(e) = "succeeded" <=> e = "valid_review")
  BY DEF RowProjection, ValidRows, SecurityRows
<1>3. "cancelled" \notin RepairRows \cup RetryRows
  BY DEF RepairRows, RetryRows
<1> HIDE DEF e
<1>4. /\ d.condition = e /\ d.scheduleRepair = repair /\ d.scheduleRetry = retry
      /\ d.projection = IF repair \/ retry THEN "none" ELSE RowProjection(e)
  BY DEF DecideTransition, e
<1> QED
  BY <1>1, <1>2, <1>3, <1>4 DEF Decided

\* What commitOutcome decides for an outcome that no report absorbs: a follow-up only for
\* the initial invocation of a run that is not suppressed, else a terminal projection.
LEMMA FollowUpFacts ==
  ASSUME NEW a \in AttemptType, InPhase(a, "running"), NEW c, NEW suppress \in BOOLEAN,
         NEW out, ~ExtractionIsBounded(LatestPurpose(a), c),
         NEW d, Decided(d, c),
         d.scheduleRetry \/ d.scheduleRepair => ~suppress /\ a.purpose \notin {"repair", "retry"},
         NEW f, f = FollowUp(a, d, out, suppress)
  PROVE  /\ f \in {"none", "retry", "repair", "extract"}
         /\ f # "none" => a.purpose = "none" /\ ~suppress
         /\ f = "retry" => c \in RetryRows
         /\ f = "repair" => c \in RepairRows
         /\ f = "extract" => c = "valid_review"
         /\ f = "none" =>
              /\ d.projection \in {"succeeded", "failed", "cancelled"}
              /\ d.projection = "succeeded" <=> d.condition = "valid_review"
         /\ d.condition \in {c, "cancelled"}
<1>1. a.purpose \in {"none", "retry", "repair", "extract"}
      /\ (a.purpose = "extract" => c \notin RetryRows \cup RepairRows)
  BY UnboundedTrailer DEF InPhase, LatestPurpose
<1>2. \/ d.scheduleRetry /\ f = "retry"
      \/ d.scheduleRepair /\ f = "repair"
      \/ f = "extract" /\ ~suppress /\ d.projection = "succeeded" /\ a.purpose = "none"
      \/ f = "none" /\ ~d.scheduleRetry /\ ~d.scheduleRepair
  BY DEF FollowUp
<1> QED
  BY <1>1, <1>2 DEF Decided

\* An outcome that commitOutcome accepts leaves an attempt that waits for the follow-up it
\* queued, or one that ended as its projection says; the domain refuses none of it.
LEMMA OutcomeApplies ==
  ASSUME NEW a \in AttemptType, InPhase(a, "running"), NEW c, NEW suppress \in BOOLEAN,
         NEW out, ~ExtractionIsBounded(LatestPurpose(a), c),
         NEW d, Decided(d, c),
         d.scheduleRetry \/ d.scheduleRepair => ~suppress /\ a.purpose \notin {"repair", "retry"},
         NEW f, f = FollowUp(a, d, out, suppress),
         NEW after, after = CommittedAttempt(a, c, d.condition, f)
  PROVE  /\ f # "none" => /\ InPhase(after, "queued") /\ after.purpose # "none"
                          /\ a.purpose = "none" /\ ~suppress
         /\ f = "none" => /\ after.ok /\ after.purpose = a.purpose
                          /\ d.projection \in {"succeeded", "failed", "cancelled"}
                          /\ d.projection = "succeeded" =>
                               after.state = "succeeded" /\ c = "valid_review"
                                 /\ a.purpose # "extract"
<1>1. /\ f \in {"none", "retry", "repair", "extract"}
      /\ f # "none" => a.purpose = "none" /\ ~suppress
      /\ f = "retry" => c \in RetryRows
      /\ f = "repair" => c \in RepairRows
      /\ f = "extract" => c = "valid_review"
      /\ f = "none" =>
           /\ d.projection \in {"succeeded", "failed", "cancelled"}
           /\ d.projection = "succeeded" <=> d.condition = "valid_review"
      /\ d.condition \in {c, "cancelled"}
  BY FollowUpFacts
<1>2. /\ RequiresValidation(c) => a.purpose # "extract"
      /\ c = "valid_review" => RequiresValidation(c)
      /\ c \in RepairRows => RequiresValidation(c)
      /\ c \in RetryRows => ~RequiresValidation(c)
      /\ RequiresValidation(c) => c # "timeout"
      /\ a.purpose = "extract" => c # "timeout"
  BY UnboundedTrailer DEF LatestPurpose, RequiresValidation, RepairRows, RetryRows
<1>3. PICK p : p = LatestPurpose(a)
  OBVIOUS
<1>4. PICK v : v = Transition(TransitionInvocation(a, p, "succeeded"), "validating")
  OBVIOUS
<1>5. RequiresValidation(c) =>
        /\ v \in AttemptType /\ v.ok /\ v.state = "validating" /\ v.purpose = a.purpose
        /\ LatestReportState(v) = "succeeded" /\ (a.purpose = "none" => v.first = "succeeded")
  BY <1>2, <1>3, <1>4, DeliveredIsValidated
<1>6. {"retry", "repair", "extract"} \subseteq Purposes \ {"initial"}
      /\ "repairing" \in AttemptStates /\ "failed" \in InvocationStates
      /\ InvocationCanTransition("running", "failed")
  BY DEF Purposes, AttemptStates, InvocationStates, InvocationCanTransition
<1>7. CASE f = "none"
  <2>1. CASE RequiresValidation(c)
    <3>1. after = TerminalizedAttempt(v, d.condition)
      BY <1>3, <1>4, <1>7, <2>1 DEF CommittedAttempt
    <3>2. d.condition # "timeout"
      BY <1>1, <1>2, <2>1
    <3> QED
      BY <1>1, <1>2, <1>5, <1>7, <2>1, <3>1, <3>2, ValidatedEnds DEF TerminalAttempt
  <2>2. CASE ~RequiresValidation(c)
    <3>1. PICK b : b = FailedInvocation(a, c)
      OBVIOUS
    <3>2. b.ok /\ TerminalAttempt(b.state) /\ b.state # "succeeded" /\ b.purpose = a.purpose
      BY <1>2, <3>1, FailedInvocationEnds
    <3>3. after = TerminalizedAttempt(b, d.condition)
      BY <1>7, <2>2, <3>1 DEF CommittedAttempt
    <3>4. after = b
      BY <3>2, <3>3 DEF TerminalizedAttempt
    <3> QED
      BY <1>1, <1>2, <1>7, <2>2, <3>2, <3>4
  <2> QED
    BY <2>1, <2>2
<1>8. CASE f = "retry"
  <2>1. PICK b : b = TransitionInvocation(a, p, "failed")
    OBVIOUS
  <2>2. b \in AttemptType /\ InPhase(b, "failed") /\ b.purpose = "none" /\ b.state = a.state
    BY <1>1, <1>3, <1>6, <1>8, <2>1, InvocationMoves, TransitionInvocationType
  <2>3. after = AppendInvocation(b, "retry")
    BY <1>1, <1>2, <1>3, <1>8, <2>1 DEF CommittedAttempt
  <2>4. AppendGuard(b, "retry") /\ b.ok
    BY <2>2 DEF InPhase, AppendGuard
  <2>5. InPhase(after, "queued") /\ after.purpose = "retry"
    BY <2>2, <2>3, <2>4 DEF AppendInvocation, InPhase, AttemptType
  <2> QED
    BY <1>1, <1>8, <2>5
<1>9. CASE f = "repair"
  <2>1. PICK b : b = Transition(v, "repairing")
    OBVIOUS
  <2>2. AttemptCanTransition(v.state, "repairing") /\ TransitionGuard(v, "repairing") /\ RequiresValidation(c)
    BY <1>1, <1>2, <1>5, <1>9 DEF AttemptCanTransition, TransitionGuard
  <2>3. b \in AttemptType /\ b.ok /\ b.state = "repairing" /\ b.purpose = "none" /\ b.first = "succeeded"
    BY <1>1, <1>5, <1>6, <1>9, <2>1, <2>2, AttemptMoves, TransitionType
  <2>4. after = AppendInvocation(b, "repair")
    BY <1>3, <1>4, <1>9, <2>1, <2>2 DEF CommittedAttempt
  <2>5. InPhase(after, "queued") /\ after.purpose = "repair"
    BY <2>3, <2>4 DEF AppendInvocation, AppendGuard, InPhase, AttemptType
  <2> QED
    BY <1>1, <1>9, <2>5
<1>10. CASE f = "extract"
  <2>1. RequiresValidation(c) /\ v.purpose = "none" /\ v.first = "succeeded" /\ v.state = "validating"
        /\ v.ok /\ v \in AttemptType
    BY <1>1, <1>2, <1>5, <1>10
  <2>2. after = AppendInvocation(v, "extract")
    BY <1>3, <1>4, <1>10, <2>1 DEF CommittedAttempt
  <2>3. InPhase(after, "queued") /\ after.purpose = "extract"
    BY <2>1, <2>2 DEF AppendInvocation, AppendGuard, InPhase, AttemptType
  <2> QED
    BY <1>1, <1>10, <2>3
<1> QED
  BY <1>1, <1>7, <1>8, <1>9, <1>10

\* The trailer that a report absorbs ends the attempt successfully.
LEMMA TrailerEnds ==
  ASSUME NEW a \in AttemptType, InPhase(a, "running"), a.purpose = "extract",
         NEW ends \in {"succeeded", "timed_out", "cancelled", "failed"},
         NEW after, after = TerminalizedAttempt(TransitionInvocation(a, "extract", ends), "valid_review")
  PROVE  after.ok /\ after.state = "succeeded" /\ after.purpose = "extract"
<1>1. LatestPurpose(a) = "extract"
  BY DEF LatestPurpose
<1>2. ends \in InvocationStates /\ InvocationCanTransition("running", ends)
      /\ TerminalInvocation(ends)
  BY DEF InvocationStates, InvocationCanTransition, TerminalInvocation
<1>3. PICK b : b = TransitionInvocation(a, "extract", ends)
  OBVIOUS
<1>4. /\ b \in AttemptType /\ InPhase(b, ends) /\ b.purpose = "extract"
  BY <1>1, <1>2, <1>3, InvocationMoves, TransitionInvocationType
<1>5. b.ok /\ b.state = "validating" /\ LatestReportState(b) = "succeeded"
      /\ TerminalInvocation(b.second)
  BY <1>2, <1>4 DEF InPhase, LatestReportState
<1> QED
  BY <1>3, <1>4, <1>5, ValidatedEnds

\* A live attempt can be stopped in every phase.
LEMMA StoppedEnds ==
  ASSUME NEW a \in AttemptType, NEW s \in {"queued", "running"}, InPhase(a, s),
         NEW c \in {"cancelled", "timeout"}
  PROVE  LET b == StoppedAttempt(a, c) IN b.ok /\ b.purpose = a.purpose
<1>1. PICK t : t = IF c = "timeout" /\ s = "running" THEN "timed_out" ELSE "cancelled"
  OBVIOUS
<1>2. LatestState(a) = s /\ ~TerminalAttempt(a.state)
  BY DEF InPhase, LatestState, TerminalAttempt
<1>3. t \in InvocationStates /\ InvocationCanTransition(s, t)
  BY <1>1 DEF InvocationStates, InvocationCanTransition
<1>4. PICK b : b = TransitionInvocation(a, LatestPurpose(a), t)
  OBVIOUS
<1>5. b \in AttemptType /\ b.ok /\ b.purpose = a.purpose /\ b.state = a.state
  BY <1>3, <1>4, InvocationMoves, TransitionInvocationType DEF InPhase
<1>6. PICK e : e = IF c = "cancelled" THEN "cancelled"
                   ELSE IF a.state \in {"running", "repairing"} THEN "timed_out" ELSE "failed"
  OBVIOUS
<1>7. e \in AttemptStates /\ AttemptCanTransition(b.state, e) /\ TransitionGuard(b, e)
  BY <1>5, <1>6 DEF AttemptStates, AttemptCanTransition, TransitionGuard, InPhase
<1>8. b = CASE LatestState(a) \notin {"queued", "running"} -> a
            [] c = "timeout" /\ LatestState(a) = "running" ->
                 TransitionInvocation(a, LatestPurpose(a), "timed_out")
            [] OTHER -> TransitionInvocation(a, LatestPurpose(a), "cancelled")
  BY <1>1, <1>2, <1>4
<1>9. StoppedAttempt(a, c) = Transition(b, e)
  BY <1>2, <1>6, <1>8, Zenon DEF StoppedAttempt
<1> QED
  BY <1>5, <1>7, <1>9, AttemptMoves

-----------------------------------------------------------------------------
(* What the commit of one job does.                                           *)

\* The commit event, or the event of what it led to, could not be recorded.
CommitFailed ==
  /\ Fails /\ faults' = faults + 1
  /\ UNCHANGED <<todo, next, domain, terminalRoles, commitEvents>>

CommitFollowed(r, suppress, to) ==
  /\ ~suppress /\ attempt[r].purpose = "none"
  /\ \E a \in AttemptType : /\ InPhase(a, "queued") /\ a.purpose # "none"
                            /\ attempt' = [attempt EXCEPT ![r] = a]
  /\ commitEvents' = [commitEvents EXCEPT ![r] = @ + 1]
  /\ UNCHANGED <<runState, roleState, output, refusedRole, terminalRoles>>
  /\ \/ Goes(to) /\ todo' = todo \ {r} /\ next' = next \cup {r} /\ faults' = faults
     \/ Fails /\ UNCHANGED <<todo, next>> /\ faults' = faults + 1

CommitEnded(r, c, to) ==
  /\ \E a \in AttemptType, p \in {"succeeded", "failed", "cancelled"} :
       /\ a.ok /\ a.purpose = attempt[r].purpose
       /\ attempt' = [attempt EXCEPT ![r] = a]
       /\ roleState' = [roleState EXCEPT ![r] = p]
       /\ p = "succeeded" => a.state = "succeeded" /\ output'[r] # "none"
       /\ a.purpose = "extract" => (p = "succeeded" <=> ExtractionIsBounded("extract", c))
  /\ \A q \in Roles \ {r} : output'[q] = output[q]
  /\ commitEvents' = [commitEvents EXCEPT ![r] = @ + 1]
  /\ UNCHANGED <<runState, refusedRole, next>>
  /\ \/ Goes(to) /\ todo' = todo \ {r} /\ terminalRoles' = terminalRoles \cup {r} /\ faults' = faults
     \/ Fails /\ UNCHANGED <<todo, terminalRoles>> /\ faults' = faults + 1

\* A live role accepts every terminal projection of a running run.
LEMMA EndRoleEffect ==
  ASSUME TypeInv, NEW r \in Roles, NEW a, a.ok, roleState[r] = "primary_running",
         runState = "running", RecordableFor(r),
         NEW p \in {"succeeded", "failed", "cancelled"}, NEW out \in OutputKinds, NEW to,
         EndRole(r, a, p, out, to)
  PROVE  /\ roleState' = [roleState EXCEPT ![r] = p]
         /\ p = "succeeded" => output'[r] = out
         /\ \A q \in Roles \ {r} : output'[q] = output[q]
         /\ refusedRole' = refusedRole
         /\ \/ /\ Goes(to) /\ todo' = todo \ {r} /\ terminalRoles' = terminalRoles \cup {r}
               /\ faults' = faults
            \/ Fails /\ UNCHANGED <<todo, terminalRoles>> /\ faults' = faults + 1
<1>1. RoleAccepts(r, p)
  BY DEF RoleAccepts, RoleCanTransition
<1>2. /\ roleState' = [roleState EXCEPT ![r] = p]
      /\ output' = IF p = "succeeded" THEN [output EXCEPT ![r] = out] ELSE output
      /\ refusedRole' = refusedRole
  BY <1>1 DEF EndRole
<1>3. PICK ok \in BOOLEAN :
        /\ Recorded(RecordableFor(r), ok)
        /\ terminalRoles' = IF ok THEN terminalRoles \cup {r} ELSE terminalRoles
        /\ IF ok THEN Goes(to) /\ todo' = todo \ {r} ELSE Fails /\ UNCHANGED todo
  BY <1>1 DEF EndRole
<1>4. \/ /\ Goes(to) /\ todo' = todo \ {r} /\ terminalRoles' = terminalRoles \cup {r}
         /\ faults' = faults
      \/ Fails /\ UNCHANGED <<todo, terminalRoles>> /\ faults' = faults + 1
  BY <1>3 DEF Recorded
<1>5. \A q \in Roles \ {r} : output'[q] = output[q]
  BY <1>2 DEF TypeInv, TypeOK, DomainType
<1>6. p = "succeeded" => output'[r] = out
  BY <1>2 DEF TypeInv, TypeOK, DomainType
<1> QED
  BY <1>2, <1>4, <1>5, <1>6

LEMMA CommitUnrecordedEffect ==
  ASSUME NEW r, RecordableFor(r), CommitUnrecorded(r)
  PROVE  CommitFailed
BY DEF CommitUnrecorded, CommitFailed, Recorded

LEMMA CommitExtractionEffect ==
  ASSUME TypeInv, NEW r \in Roles, Flies(r), runState = "running", RecordableFor(r),
         NEW c, NEW to, attempt[r].purpose = "extract", ExtractionIsBounded("extract", c),
         CommitExtraction(r, c, to)
  PROVE  CommitFailed \/ CommitEnded(r, c, to)
<1>1. PICK ends : ends = CASE c = "valid_review" -> "succeeded" [] c \in TimeoutRows -> "timed_out"
                           [] c = "cancelled" -> "cancelled" [] OTHER -> "failed"
  OBVIOUS
<1>2. ends \in {"succeeded", "timed_out", "cancelled", "failed"}
  BY <1>1, Zenon
<1>3. PICK after : after = TerminalizedAttempt(TransitionInvocation(attempt[r], "extract", ends), "valid_review")
  OBVIOUS
<1>4. attempt[r] \in AttemptType /\ InPhase(attempt[r], "running") /\ roleState[r] = "primary_running"
  BY DEF TypeInv, TypeOK, DomainType, Flies
<1>5. after.ok /\ after.state = "succeeded" /\ after.purpose = "extract"
  BY <1>2, <1>3, <1>4, TrailerEnds
<1>6. after \in AttemptType
  <2>1. ends \in InvocationStates
    BY <1>2 DEF InvocationStates
  <2> QED
    BY <1>3, <1>4, <2>1, TransitionInvocationType, TerminalizedAttemptType
<1>7. PICK out : out = IF c = "valid_review" THEN "structured" ELSE "report"
  OBVIOUS
<1>8. \/ CommitUnrecorded(r)
      \/ /\ commitEvents' = [commitEvents EXCEPT ![r] = @ + 1]
         /\ attempt' = [attempt EXCEPT ![r] = after]
         /\ UNCHANGED <<runState, next>>
         /\ EndRole(r, after, "succeeded", out, to)
  BY <1>1, <1>3, <1>7, Zenon DEF CommitExtraction
<1>9. out \in OutputKinds /\ out # "none"
  BY <1>7 DEF OutputKinds
<1>10. CASE CommitUnrecorded(r)
  BY <1>10, CommitUnrecordedEffect
<1>11. CASE ~CommitUnrecorded(r)
  <2>1. /\ roleState' = [roleState EXCEPT ![r] = "succeeded"]
        /\ output'[r] = out
        /\ \A q \in Roles \ {r} : output'[q] = output[q]
        /\ refusedRole' = refusedRole
        /\ \/ /\ Goes(to) /\ todo' = todo \ {r} /\ terminalRoles' = terminalRoles \cup {r}
              /\ faults' = faults
           \/ Fails /\ UNCHANGED <<todo, terminalRoles>> /\ faults' = faults + 1
    BY <1>4, <1>5, <1>8, <1>9, <1>11, EndRoleEffect
  <2> QED
    BY <1>5, <1>6, <1>8, <1>9, <1>11, <2>1 DEF CommitEnded
<1> QED
  BY <1>10, <1>11

LEMMA CommitOutcomeEffect ==
  ASSUME TypeInv, ResultInv, NEW r \in Roles, Flies(r), job[r] = "collected",
         runState = "running", RecordableFor(r),
         NEW c \in {result[r].condition, "cancelled", "timeout"},
         NEW observed \in BOOLEAN, NEW suppress \in BOOLEAN, NEW to,
         ~ExtractionIsBounded(LatestPurpose(attempt[r]), c),
         CommitOutcome(r, c, observed, suppress, to)
  PROVE  CommitFailed \/ CommitFollowed(r, suppress, to) \/ CommitEnded(r, c, to)
<1>1. PICK a : a = attempt[r]
  OBVIOUS
<1> DEFINE slot == suppress \/ a.purpose \in {"repair", "retry"}
<1>s. slot \in BOOLEAN /\ (~slot => ~suppress /\ a.purpose \notin {"repair", "retry"})
  OBVIOUS
<1> HIDE DEF slot
<1>2. PICK d : d = DecideTransition(c, slot, observed)
  OBVIOUS
<1>d. Decided(d, c) /\ (d.scheduleRetry \/ d.scheduleRepair => ~slot)
  BY <1>s, <1>2, DecisionFacts
<1>3. PICK f : f = FollowUp(a, d, result[r].output, suppress)
  OBVIOUS
<1>4. PICK after : after = CommittedAttempt(a, c, d.condition, f)
  OBVIOUS
<1>5. a \in AttemptType /\ InPhase(a, "running") /\ roleState[r] = "primary_running"
  BY <1>1 DEF TypeInv, TypeOK, DomainType, Flies
<1>6. /\ f # "none" => /\ InPhase(after, "queued") /\ after.purpose # "none"
                       /\ a.purpose = "none" /\ ~suppress
      /\ f = "none" => /\ after.ok /\ after.purpose = a.purpose
                       /\ d.projection \in {"succeeded", "failed", "cancelled"}
                       /\ d.projection = "succeeded" =>
                            after.state = "succeeded" /\ c = "valid_review"
                              /\ a.purpose # "extract"
  BY <1>1, <1>s, <1>d, <1>3, <1>4, <1>5, OutcomeApplies
<1>7. after \in AttemptType
  BY <1>4, <1>5, CommittedAttemptType
<1>8. \/ CommitUnrecorded(r)
      \/ /\ commitEvents' = [commitEvents EXCEPT ![r] = @ + 1]
         /\ attempt' = [attempt EXCEPT ![r] = after]
         /\ runState' = runState
         /\ IF f = "none"
            THEN EndRole(r, after, d.projection, result[r].output, to) /\ UNCHANGED next
            ELSE /\ \E ok \in BOOLEAN :
                      /\ Recorded(after.ok /\ RecordableFor(r), ok)
                      /\ IF ok THEN Goes(to) /\ todo' = todo \ {r} /\ next' = next \cup {r}
                               ELSE Fails /\ UNCHANGED <<todo, next>>
                 /\ UNCHANGED <<roleState, output, refusedRole, terminalRoles>>
  BY <1>1, <1>2, <1>3, <1>4, Zenon DEF CommitOutcome, slot
<1>9. CASE CommitUnrecorded(r)
  BY <1>9, CommitUnrecordedEffect
<1>10. CASE ~CommitUnrecorded(r) /\ f = "none"
  <2>1. result[r].output \in OutputKinds
    BY DEF TypeInv, TypeOK, WorkersType
  <2>2. PICK p : p = d.projection
    OBVIOUS
  <2>3. /\ roleState' = [roleState EXCEPT ![r] = p]
        /\ p = "succeeded" => output'[r] = result[r].output
        /\ \A q \in Roles \ {r} : output'[q] = output[q]
        /\ refusedRole' = refusedRole
        /\ \/ /\ Goes(to) /\ todo' = todo \ {r} /\ terminalRoles' = terminalRoles \cup {r}
              /\ faults' = faults
           \/ Fails /\ UNCHANGED <<todo, terminalRoles>> /\ faults' = faults + 1
    BY <1>5, <1>6, <1>8, <1>10, <2>1, <2>2, EndRoleEffect
  <2>4. p = "succeeded" => result[r].output # "none"
    BY <1>6, <1>10, <2>2 DEF ResultInv
  <2>5. a.purpose = "extract" => p # "succeeded" /\ ~ExtractionIsBounded("extract", c)
    BY <1>1, <1>6, <1>10, <2>2 DEF LatestPurpose
  <2> QED
    BY <1>1, <1>6, <1>7, <1>8, <1>10, <2>2, <2>3, <2>4, <2>5 DEF CommitEnded
<1>11. CASE ~CommitUnrecorded(r) /\ f # "none"
  <2>1. PICK ok \in BOOLEAN :
          /\ Recorded(after.ok /\ RecordableFor(r), ok)
          /\ IF ok THEN Goes(to) /\ todo' = todo \ {r} /\ next' = next \cup {r}
                   ELSE Fails /\ UNCHANGED <<todo, next>>
    BY <1>8, <1>11
  <2>2. after.ok
    BY <1>6, <1>11 DEF InPhase
  <2>3. \/ Goes(to) /\ todo' = todo \ {r} /\ next' = next \cup {r} /\ faults' = faults
        \/ Fails /\ UNCHANGED <<todo, next>> /\ faults' = faults + 1
    BY <2>1, <2>2 DEF Recorded
  <2> QED
    BY <1>1, <1>6, <1>7, <1>8, <1>11, <2>3 DEF CommitFollowed
<1> QED
  BY <1>9, <1>10, <1>11

\* The commit of a job that flies: the aggregates refuse nothing of it.
LEMMA CommitEffect ==
  ASSUME TypeInv, ResultInv, NEW r \in Roles, Flies(r), job[r] = "collected",
         runState = "running", RecordableFor(r),
         NEW c \in {result[r].condition, "cancelled", "timeout"},
         NEW observed \in BOOLEAN, NEW suppress \in BOOLEAN, NEW to,
         Commit(r, c, observed, suppress, to)
  PROVE  CommitFailed \/ CommitFollowed(r, suppress, to) \/ CommitEnded(r, c, to)
<1>1. CASE ExtractionIsBounded(LatestPurpose(attempt[r]), c)
  <2>1. attempt[r].purpose = "extract" /\ ExtractionIsBounded("extract", c)
    BY <1>1 DEF ExtractionIsBounded, LatestPurpose
  <2> QED
    BY <1>1, <2>1, CommitExtractionEffect DEF Commit
<1>2. CASE ~ExtractionIsBounded(LatestPurpose(attempt[r]), c)
  BY <1>2, CommitOutcomeEffect DEF Commit
<1> QED
  BY <1>1, <1>2

-----------------------------------------------------------------------------
(* What the steps that touch a role do, under the invariant.                  *)

Inductive == TypeInv /\ JoinInv /\ StopInv /\ OutcomeInv

\* While roles are live the run is running.
LEMMA Running ==
  ASSUME Inductive,
         pc \in {"recordStart", "start", "loop", "afterCommit", "nextWave", "afterLoop",
                 "checkRoles", "linearize", "authorize"} \cup WavePCs \cup Cancelling
  PROVE  runState = "running"
<1>1. runState \in {"pending", "running", "completed", "degraded", "failed", "cancelled"}
  BY DEF Inductive, TypeInv, TypeOK, DomainType, RunStates
<1> QED
  BY <1>1 DEF Inductive, OutcomeInv, FlowInv, TerminalRun, WavePCs, Committing, CommitLoops, Cancelling

\* As long as nothing failed, the trace accepts a stop and the events of a live role.
LEMMA Accepts ==
  ASSUME Inductive, ~failed, pc \notin {"admit", "recordStart", "close", "join", "finish", "terminal", "done"}
  PROVE  /\ Recordable("cancellation_requested") /\ Recordable("role_event")
         /\ \A r \in Roles : ~Ended(r) => RecordableFor(r)
<1>1. runStarted /\ ~workersCloseAuthorized /\ ~runTerminalRecorded
  BY DEF Inductive, OutcomeInv, TraceInv
<1>2. \A r \in terminalRoles : Ended(r)
  BY DEF Inductive, OutcomeInv, TraceInv
<1> QED
  BY <1>1, <1>2 DEF Recordable, RecordableFor

LEMMA AcceptedIsRecorded ==
  ASSUME NEW accepts, accepts, NEW ok, Recorded(accepts, ok)
  PROVE  (ok /\ faults' = faults) \/ (~ok /\ faults' = faults + 1)
BY DEF Recorded

\* The commit of one job, as CommitTrailer and CommitJob perform it on role r.
CommitStep(r, c, suppress, to) ==
  /\ r = NextRole /\ r \in Roles /\ r \in todo /\ r \in dispatched
  /\ Flies(r) /\ job[r] = "collected" /\ ~failed
  /\ \/ pc = "commitTrailers" /\ to = "commitTrailers" /\ suppress = TRUE
        /\ Bounded(r) /\ c = result[r].condition
     \/ pc = "commitStopped" /\ to = "commitStopped" /\ suppress = TRUE
        /\ Bounded(r) /\ c = result[r].condition
     \/ pc = "commitStoppedJob" /\ to = "commitStopped" /\ suppress = TRUE
        /\ ~Bounded(r) /\ c = ConditionForTransition(result[r].condition, cancelCondition)
     \/ pc = "commitJob" /\ to = "commitRest" /\ ~Bounded(r)
        /\ c = ConditionForTransition(result[r].condition, cancelCondition)
  /\ CommitFailed \/ CommitFollowed(r, suppress, to) \/ CommitEnded(r, c, to)
  /\ UNCHANGED <<ret, wave, dispatched, runStarted, workersCloseAuthorized, runTerminalRecorded,
                 dispatchEvents, stop, workers, context>>

LEMMA CommitStepFacts ==
  ASSUME Inductive, CommitTrailer \/ CommitJob
  PROVE  \E r \in Roles, c \in Conditions, suppress \in BOOLEAN, to \in CommitLoops :
           CommitStep(r, c, suppress, to)
<1>1. PICK r : r = NextRole
  OBVIOUS
<1>2. /\ TypeInv /\ ResultInv /\ pc \in Committing /\ todo # {} /\ todo \subseteq Roles
      /\ todo \subseteq dispatched /\ \A q \in dispatched : job[q] = "collected"
  BY DEF Inductive, OutcomeInv, CommitTrailer, CommitJob, TypeInv, TypeOK, ControlType, ControlInv,
         Committing, CommitLoops, StopInv
<1>3. r \in todo /\ r \in Roles /\ r \in dispatched /\ job[r] = "collected"
  BY <1>1, <1>2, NextRoleInTodo
<1>4. ~failed
  BY <1>2 DEF Inductive, OutcomeInv, FlowInv, AbortPCs, Committing, CommitLoops, Cancelling
<1>5. stopCondition = NoCondition /\ WaveInv
  BY <1>2, <1>4 DEF Inductive, OutcomeInv, WaveInv, WavePCs
<1>6. r \in Flying
  BY <1>2, <1>3 DEF Flying, Committing, CommitLoops
<1>7. Flies(r)
  BY <1>2, <1>5, <1>6 DEF WaveInv, Committing, CommitLoops, Cancelling
<1>8. runState = "running" /\ RecordableFor(r)
  <2>1. ~Ended(r)
    BY <1>7 DEF Flies, Ended, TerminalRole
  <2> QED
    BY <1>2, <1>3, <1>4, <2>1, Running, Accepts DEF WavePCs, Committing, CommitLoops
<1>9. CASE CommitTrailer
  <2>1. Commit(r, result[r].condition, FALSE, TRUE, pc) /\ Bounded(r)
        /\ pc \in {"commitTrailers", "commitStopped"}
    BY <1>1, <1>9 DEF CommitTrailer
  <2>2. CommitFailed \/ CommitFollowed(r, TRUE, pc) \/ CommitEnded(r, result[r].condition, pc)
    BY <1>2, <1>3, <1>7, <1>8, <2>1, CommitEffect
  <2>3. UNCHANGED <<ret, wave, dispatched, runStarted, workersCloseAuthorized, runTerminalRecorded,
                    dispatchEvents, stop, workers, context>>
    BY <1>9 DEF CommitTrailer
  <2>4. CommitStep(r, result[r].condition, TRUE, pc)
    BY <1>1, <1>3, <1>4, <1>7, <2>1, <2>2, <2>3 DEF CommitStep
  <2>5. result[r].condition \in Conditions /\ pc \in CommitLoops
    BY <1>2, <1>3, <2>1 DEF TypeInv, TypeOK, WorkersType, CommitLoops
  <2> QED
    BY <1>3, <2>4, <2>5
<1>10. CASE CommitJob
  <2>1. PICK c : c = ConditionForTransition(result[r].condition, cancelCondition)
    OBVIOUS
  <2>2. PICK to : to = IF pc = "commitStoppedJob" THEN "commitStopped" ELSE "commitRest"
    OBVIOUS
  <2>3. PICK suppress \in BOOLEAN :
          suppress = (pc = "commitStoppedJob" \/ cancelCondition # NoCondition)
    OBVIOUS
  <2>4. PICK observed \in BOOLEAN : observed = (cancelCondition = "cancelled")
    OBVIOUS
  <2>5. c \in {result[r].condition, "cancelled", "timeout"}
    BY <2>1, ConditionForTransitionType
  <2>6. Commit(r, c, observed, suppress, to)
    BY <1>1, <1>10, <2>1, <2>2, <2>3, <2>4, Zenon DEF CommitJob
  <2>7. CommitFailed \/ CommitFollowed(r, suppress, to) \/ CommitEnded(r, c, to)
    BY <1>2, <1>3, <1>7, <1>8, <2>5, <2>6, CommitEffect
  <2>8. UNCHANGED <<ret, wave, dispatched, runStarted, workersCloseAuthorized, runTerminalRecorded,
                    dispatchEvents, stop, workers, context>>
    BY <1>10 DEF CommitJob
  <2>9. pc \in {"commitStoppedJob", "commitJob"} /\ ~Bounded(r)
    BY <1>1, <1>3, <1>5, <1>10 DEF CommitJob, WaveInv
  <2>10. CommitStep(r, c, suppress, to)
    BY <1>1, <1>3, <1>4, <1>7, <2>1, <2>2, <2>3, <2>7, <2>8, <2>9 DEF CommitStep
  <2>11. c \in Conditions /\ to \in CommitLoops
    BY <1>2, <1>3, <2>2, <2>5, ConditionTypes DEF TypeInv, TypeOK, WorkersType, CommitLoops
  <2> QED
    BY <1>3, <2>10, <2>11
<1> QED
  BY <1>9, <1>10

-----------------------------------------------------------------------------
(* The frames: what a step that leaves a role alone keeps.                    *)

SameRole(q) ==
  /\ roleState'[q] = roleState[q] /\ attempt'[q] = attempt[q] /\ output'[q] = output[q]
  /\ dispatchEvents'[q] = dispatchEvents[q] /\ commitEvents'[q] = commitEvents[q]

LEMMA RoleKept ==
  ASSUME NEW q \in Roles, SameRole(q)
  PROVE  /\ Waits(q)' <=> Waits(q)
         /\ Flies(q)' <=> Flies(q)
         /\ Ended(q)' <=> Ended(q)
         /\ RoleOK(q)' <=> RoleOK(q)
         /\ EventsOK(q)' <=> EventsOK(q)
<1>1. /\ Waits(q)' <=> Waits(q)
      /\ Flies(q)' <=> Flies(q)
      /\ Ended(q)' <=> Ended(q)
  BY DEF SameRole, Waits, Flies, Ended
<1>2. RoleOK(q)' <=> RoleOK(q)
  BY <1>1 DEF SameRole, RoleOK
<1>3. EventsOK(q)' <=> EventsOK(q)
  BY <1>1 DEF SameRole, EventsOK
<1> QED
  BY <1>1, <1>2, <1>3

\* A step that leaves the roles and the jobs alone.
LEMMA Quiet ==
  ASSUME Inductive, UNCHANGED <<roleState, attempt, output, dispatchEvents, commitEvents, job, result>>
  PROVE  /\ ResultInv'
         /\ AllRolesTerminal' <=> AllRolesTerminal
         /\ \A r \in Roles : /\ Waits(r)' <=> Waits(r)
                             /\ Flies(r)' <=> Flies(r)
                             /\ Ended(r)' <=> Ended(r)
                             /\ Grave(r)' <=> Grave(r)
                             /\ Bounded(r)' <=> Bounded(r)
                             /\ RoleOK(r)'
                             /\ ~failed => EventsOK(r)'
         /\ dispatched' = dispatched => WaveCondition' = WaveCondition
<1>1. \A r \in Roles : SameRole(r)
  BY DEF SameRole
<1>2. \A r \in Roles : RoleOK(r) /\ (~failed => EventsOK(r))
  BY DEF Inductive, OutcomeInv
<1>3. ResultInv'
  BY DEF Inductive, OutcomeInv, ResultInv
<1>4. AllRolesTerminal' <=> AllRolesTerminal
  BY DEF AllRolesTerminal
<1>5. \A r \in Roles : (Grave(r)' <=> Grave(r)) /\ (Bounded(r)' <=> Bounded(r))
  BY DEF Grave, Bounded
<1>6. dispatched' = dispatched => WaveCondition' = WaveCondition
  BY DEF WaveCondition, Bounded
<1> QED
  BY <1>1, <1>2, <1>3, <1>4, <1>5, <1>6, RoleKept

LEMMA WavesAreRoles ==
  ASSUME TypeInv
  PROVE  Waiting \subseteq Roles /\ Flying \subseteq Roles /\ todo \subseteq Roles
BY DEF TypeInv, TypeOK, ControlType, Waiting, Flying

\* All roles have ended, in either form.
LEMMA AllEnded == AllRolesTerminal <=> \A r \in Roles : Ended(r)
BY DEF AllRolesTerminal, Ended

\* The samples of the contexts between the loop and the authorization to close.
LEMMA OutcomeSamples ==
  ASSUME Inductive, AfterLoop \/ CheckRoles \/ Linearize
  PROVE  OutcomeInv'
<1> USE DEF Goes, CallCancelAll, EndUnchanged, domain, trace, stop, workers, context
<1>1. pc \in {"afterLoop", "checkRoles", "linearize"} /\ ~failed /\ faults = 0 /\ runState = "running"
      /\ AllRolesTerminal
  <2>1. pc \in {"afterLoop", "checkRoles", "linearize"}
    BY DEF AfterLoop, CheckRoles, Linearize
  <2>2. ~failed /\ faults = 0
    BY <2>1 DEF Inductive, OutcomeInv, FlowInv, AbortPCs, Cancelling
  <2>3. runState = "running"
    BY <2>1, Running
  <2>4. AllRolesTerminal
    BY <2>1, <2>2, AllEnded DEF Inductive, OutcomeInv, WaveInv, Waiting, Flying, WavePCs, Committing, CommitLoops, Cancelling
  <2> QED
    BY <2>1, <2>2, <2>3, <2>4
<1>2. UNCHANGED <<roleState, attempt, output, dispatchEvents, commitEvents, job, result>>
  BY DEF AfterLoop, CheckRoles, Linearize
<1>3. /\ UNCHANGED <<runState, refusedRole, terminalRoles, runStarted, workersCloseAuthorized,
                     runTerminalRecorded, stopCondition, failed, faults, wave, dispatched, todo, next,
                     workErr>>
      /\ \/ pc' \in {"checkRoles", "linearize", "authorize"}
         \/ pc' = "cancelAll" /\ ret' \in {"checkRoles", "linearize", "authorize"}
            /\ cancelCondition' \in {"cancelled", "timeout"}
  BY <1>1, ContextConditionType DEF AfterLoop, CheckRoles, Linearize
<1>4. ResultInv' /\ (AllRolesTerminal' <=> AllRolesTerminal) /\
      \A r \in Roles : /\ Waits(r)' <=> Waits(r)
                       /\ Flies(r)' <=> Flies(r)
                       /\ Ended(r)' <=> Ended(r)
                       /\ Grave(r)' <=> Grave(r)
                       /\ Bounded(r)' <=> Bounded(r)
                       /\ RoleOK(r)'
                       /\ EventsOK(r)'
  BY <1>1, <1>2, Quiet
<1>5. FlowInv'
  BY <1>1, <1>3, <1>4 DEF Inductive, OutcomeInv, FlowInv, AbortPCs, Cancelling, TerminalRun
<1>6. TraceInv'
  BY <1>1, <1>3, <1>4 DEF Inductive, OutcomeInv, TraceInv, TypeInv, TypeOK, TraceType
<1>7. StoppedInv'
  BY <1>1, <1>3, <1>4 DEF Inductive, OutcomeInv, StoppedInv, StoppingPCs, Committing, CommitLoops
<1>8. TrailerInv'
  BY <1>1, <1>2, <1>3, <1>4 DEF Inductive, OutcomeInv, TrailerInv, StoppingPCs
<1>9. NoFaultInv'
  BY <1>1, <1>3, <1>4 DEF Inductive, OutcomeInv, NoFaultInv
<1>10. WaveInv'
  BY <1>1, <1>2, <1>3, <1>4, AllEnded DEF Inductive, OutcomeInv, WaveInv, Waiting, Flying, WavePCs, StoppingPCs, Committing, CommitLoops, Cancelling
<1>11. GraveInv'
  BY <1>1, <1>2, <1>3, <1>4 DEF Inductive, OutcomeInv, GraveInv, StoppingPCs, GraveConditions, SecurityRows
<1> QED
  BY <1>4, <1>5, <1>6, <1>7, <1>8, <1>9, <1>10, <1>11 DEF OutcomeInv

\* The head of the wave loop and the steps that end a dispatch or a wave.
LEMMA OutcomeLoop ==
  ASSUME Inductive, Prepare \/ Loop \/ DispatchCut \/ OpenGate \/ AfterCommit \/ NextWave
  PROVE  OutcomeInv'
<1> USE DEF Goes, Fails, CallCancelAll, domain, trace, stop, workers, context
<1>1. pc \in {"start", "loop", "dispatch", "afterCommit", "nextWave"} /\ ~failed /\ faults = 0
      /\ runState = "running"
  <2>1. pc \in {"start", "loop", "dispatch", "afterCommit", "nextWave"}
    BY DEF Prepare, Loop, DispatchCut, OpenGate, AfterCommit, NextWave
  <2>2. ~failed /\ faults = 0
    BY <2>1 DEF Inductive, OutcomeInv, FlowInv, AbortPCs, Cancelling
  <2>3. runState = "running"
    BY <2>1, Running DEF WavePCs
  <2> QED
    BY <2>1, <2>2, <2>3
<1>2. UNCHANGED <<roleState, attempt, output, dispatchEvents, commitEvents, job, result>>
  BY DEF Prepare, Loop, DispatchCut, OpenGate, AfterCommit, NextWave
<1>3. /\ UNCHANGED <<runState, refusedRole, terminalRoles, runStarted, workersCloseAuthorized,
                     runTerminalRecorded, stopCondition, workErr>>
      /\ \/ /\ pc' \in {"loop", "afterLoop", "dispatch", "collect", "nextWave"}
            /\ failed' = failed /\ faults' = faults
         \/ /\ pc' = "cancelAll" /\ ret' \in {"abort", "afterLoop", "nextWave"}
            /\ cancelCondition' \in {"cancelled", "timeout"}
            /\ failed' = failed /\ faults' = faults
         \/ pc' = "abort" /\ failed' /\ faults' = faults + 1
  BY <1>1, ContextConditionType DEF Prepare, Loop, DispatchCut, OpenGate, AfterCommit, NextWave
<1>4. ResultInv' /\ (AllRolesTerminal' <=> AllRolesTerminal) /\
      \A r \in Roles : /\ Waits(r)' <=> Waits(r)
                       /\ Flies(r)' <=> Flies(r)
                       /\ Ended(r)' <=> Ended(r)
                       /\ Grave(r)' <=> Grave(r)
                       /\ Bounded(r)' <=> Bounded(r)
                       /\ RoleOK(r)'
                       /\ EventsOK(r)'
  BY <1>1, <1>2, Quiet
<1>5. FlowInv'
  BY <1>1, <1>3, <1>4 DEF Inductive, OutcomeInv, FlowInv, AbortPCs, Cancelling, TerminalRun
<1>6. TraceInv'
  BY <1>1, <1>3, <1>4 DEF Inductive, OutcomeInv, TraceInv, TypeInv, TypeOK, TraceType
<1>7. StoppedInv'
  BY <1>1, <1>3, <1>4 DEF Inductive, OutcomeInv, StoppedInv, StoppingPCs, Committing, CommitLoops
<1>8. TrailerInv'
  BY <1>1, <1>2, <1>3, <1>4 DEF Inductive, OutcomeInv, TrailerInv, StoppingPCs
<1>9. NoFaultInv'
  BY <1>1, <1>3, <1>4 DEF Inductive, OutcomeInv, NoFaultInv
<1>10. GraveInv'
  <2>1. stopCondition = NoCondition => \A r \in Roles : ~Grave(r)
    BY <1>1 DEF Inductive, OutcomeInv, GraveInv, StoppingPCs
  <2>2. stopCondition # NoCondition =>
          \A r \in Roles : Grave(r) => Precedence(stopCondition) <= Precedence(result[r].condition)
    BY <1>1 DEF Inductive, OutcomeInv, GraveInv
  <2>3. stopCondition \in GraveConditions =>
          \E r \in Roles : Grave(r) /\ result[r].condition = stopCondition
    BY <1>1 DEF Inductive, OutcomeInv, GraveInv
  <2>4. pc' \notin {"terminal", "done"} \cup StoppingPCs
        /\ (pc' = "cancelAll" => cancelCondition' \notin GraveConditions)
        /\ stopCondition' = stopCondition /\ result' = result
    BY <1>2, <1>3 DEF StoppingPCs, GraveConditions, SecurityRows
  <2>5. \A r \in Roles : Grave(r)' <=> Grave(r)
    BY <1>4
  <2>6. pc' = "collect" => stopCondition = NoCondition
    <3>1. pc' = "collect" => pc = "dispatch"
      BY DEF Prepare, Loop, DispatchCut, OpenGate, AfterCommit, NextWave
    <3> QED
      BY <1>1, <3>1 DEF Inductive, OutcomeInv, WaveInv, WavePCs
  <2> QED
    BY <2>1, <2>2, <2>3, <2>4, <2>5, <2>6 DEF GraveInv
<1>w. WaveInv /\ wave \subseteq Roles /\ dispatched \subseteq Roles /\ next \subseteq Roles
  BY <1>1 DEF Inductive, OutcomeInv, TypeInv, TypeOK, ControlType
<1>11. ~failed' => WaveInv'
  <2> USE DEF WavePCs, StoppingPCs, Committing, CommitLoops, Cancelling
  <2>1. CASE Prepare
    <3>1. /\ wave = Roles /\ pc = "start" /\ \A r \in Roles : Waits(r)
          /\ pc' \in {"loop", "abort", "cancelAll"} /\ wave' = wave
      BY <1>w, <2>1 DEF WaveInv, Prepare
    <3>2. \A r \in Roles : roleState[r] = "primary_running" /\ ~Ended(r)
      BY <3>1 DEF Waits, Ended, TerminalRole
    <3>3. stopCondition = NoCondition
      BY <1>w, <3>1, <3>2, AllEnded, ConstantsAssumption DEF WaveInv, Roles
    <3> QED
      BY <1>2, <1>3, <1>4, <3>1, <3>2, <3>3 DEF WaveInv, Waiting, Flying
  <2>2. CASE Loop
    BY <1>w, <1>2, <1>3, <1>4, <2>2 DEF Loop, WaveInv, Waiting, Flying
  <2>3. CASE DispatchCut
    BY <1>w, <1>2, <1>3, <1>4, <2>3 DEF DispatchCut, WaveInv, Waiting, Flying
  <2>4. CASE OpenGate
    BY <1>w, <1>2, <1>3, <1>4, <2>4 DEF OpenGate, WaveInv, Waiting, Flying
  <2>5. CASE AfterCommit
    BY <1>w, <1>2, <1>3, <1>4, <2>5 DEF AfterCommit, WaveInv, Waiting, Flying
  <2>6. CASE NextWave
    BY <1>w, <1>2, <1>3, <1>4, <2>6 DEF NextWave, WaveInv, Waiting, Flying
  <2> QED
    BY <2>1, <2>2, <2>3, <2>4, <2>5, <2>6
<1> QED
  BY <1>4, <1>5, <1>6, <1>7, <1>8, <1>9, <1>10, <1>11 DEF OutcomeInv

\* A live role keeps the run from being stopped before cancelAll().
LEMMA LiveNotStopped ==
  ASSUME Inductive, ~failed, pc \notin {"cancelSample", "cancelRoles"}, NEW r \in Roles, ~Ended(r)
  PROVE  stopCondition = NoCondition /\ ~AllRolesTerminal
BY AllEnded DEF Inductive, OutcomeInv, WaveInv

\* Admission and the start of the run.
LEMMA OutcomeStart ==
  ASSUME Inductive, Admit \/ RecordStart
  PROVE  OutcomeInv'
<1> USE DEF Goes, Fails, domain, trace, stop, workers, context
<1>1. pc \in {"admit", "recordStart"} /\ ~failed /\ faults = 0 /\ WaveInv /\ wave = {}
      /\ (\A r \in Roles : roleState[r] = "pending") /\ (\A r \in Roles : ~Ended(r))
  <2>1. pc \in {"admit", "recordStart"}
    BY DEF Admit, RecordStart
  <2>2. ~failed /\ faults = 0
    BY <2>1 DEF Inductive, OutcomeInv, FlowInv, AbortPCs, Cancelling
  <2>3. WaveInv /\ wave = {} /\ (\A r \in Roles : roleState[r] = "pending")
    BY <2>1, <2>2 DEF Inductive, OutcomeInv, WaveInv
  <2> QED
    BY <2>1, <2>2, <2>3 DEF Ended, TerminalRole
<1>2. stopCondition = NoCondition /\ ~AllRolesTerminal
  <2>1. 1 \in Roles
    BY ConstantsAssumption DEF Roles
  <2> QED
    BY <1>1, <2>1, LiveNotStopped
<1>3. ~runStarted /\ ~workersCloseAuthorized /\ ~runTerminalRecorded
  BY <1>1 DEF Inductive, OutcomeInv, TraceInv
<1>4. UNCHANGED <<roleState, attempt, output, dispatchEvents, commitEvents, job, result>>
  BY DEF Admit, RecordStart
<1>5. /\ UNCHANGED <<refusedRole, terminalRoles, workersCloseAuthorized, runTerminalRecorded,
                     stopCondition, wave, dispatched>>
      /\ \/ pc = "admit" /\ pc' = "rejected" /\ failed' /\ UNCHANGED <<runState, runStarted, faults>>
         \/ pc = "admit" /\ pc' = "recordStart" /\ runState' = "running" /\ UNCHANGED <<failed, runStarted, faults>>
         \/ /\ pc = "recordStart" /\ pc' = "start" /\ todo' = Roles /\ runStarted'
            /\ UNCHANGED <<runState, failed, faults>>
         \/ /\ pc = "recordStart" /\ pc' = "abort" /\ failed' /\ faults' = faults + 1
            /\ UNCHANGED <<runState, runStarted>>
  <2>1. CASE Admit
    BY <2>1 DEF Admit
  <2>2. CASE RecordStart
    <3>1. Recordable("run_started")
      BY <1>3 DEF Recordable, Inductive, TypeInv, TypeOK, TraceType
    <3>2. PICK ok \in BOOLEAN :
            /\ Recorded(Recordable("run_started"), ok)
            /\ runStarted' = ok
            /\ IF ok THEN Goes("start") ELSE Fails
      BY <2>2 DEF RecordStart
    <3> QED
      BY <1>3, <2>2, <3>1, <3>2 DEF RecordStart, Recorded, Inductive, TypeInv, TypeOK, TraceType
  <2> QED
    BY <2>1, <2>2
<1>6. ResultInv' /\ (AllRolesTerminal' <=> AllRolesTerminal) /\
      \A r \in Roles : /\ Waits(r)' <=> Waits(r)
                       /\ Flies(r)' <=> Flies(r)
                       /\ Ended(r)' <=> Ended(r)
                       /\ Grave(r)' <=> Grave(r)
                       /\ Bounded(r)' <=> Bounded(r)
                       /\ RoleOK(r)'
                       /\ EventsOK(r)'
  BY <1>1, <1>4, Quiet
<1>7. FlowInv'
  BY <1>1, <1>5, <1>6 DEF Inductive, OutcomeInv, FlowInv, AbortPCs, Cancelling, TerminalRun
<1>8. TraceInv'
  BY <1>1, <1>3, <1>5, <1>6 DEF Inductive, OutcomeInv, TraceInv, TypeInv, TypeOK, TraceType
<1>9. StoppedInv'
  BY <1>1, <1>2, <1>5, <1>6 DEF Inductive, OutcomeInv, StoppedInv, StoppingPCs, Committing, CommitLoops
<1>10. TrailerInv'
  BY <1>1, <1>5, <1>6 DEF TrailerInv
<1>11. NoFaultInv'
  BY <1>1, <1>5, <1>6 DEF Inductive, OutcomeInv, NoFaultInv
<1>12. GraveInv'
  <2>1. \A r \in Roles : ~Grave(r)
    BY <1>1, <1>2 DEF Inductive, OutcomeInv, GraveInv, StoppingPCs
  <2>2. NoCondition \notin GraveConditions
    BY DEF NoCondition, GraveConditions, SecurityRows
  <2> QED
    BY <1>2, <1>5, <1>6, <2>1, <2>2 DEF GraveInv, StoppingPCs
<1>13. ~failed' => WaveInv'
  BY <1>1, <1>2, <1>4, <1>5, <1>6 DEF WaveInv, Waiting, Flying, WavePCs, StoppingPCs, Committing, CommitLoops, Cancelling
<1> QED
  BY <1>6, <1>7, <1>8, <1>9, <1>10, <1>11, <1>12, <1>13 DEF OutcomeInv

\* A role starts with a fresh attempt that waits for its first job.
LEMMA OutcomeStartPrimary ==
  ASSUME Inductive, StartPrimary
  PROVE  OutcomeInv'
<1> USE DEF Goes, Fails, domain, trace, stop, workers, context
<1>1. pc = "start" /\ ~failed /\ faults = 0 /\ WaveInv /\ todo # {} /\ todo \subseteq Roles
  BY DEF Inductive, OutcomeInv, FlowInv, AbortPCs, Cancelling, StartPrimary, TypeInv, TypeOK, ControlType
<1>2. PICK r : r = NextRole
  OBVIOUS
<1>3. r \in todo /\ r \in Roles /\ roleState[r] = "pending" /\ ~Ended(r) /\ attempt[r] = NoAttempt
      /\ dispatchEvents[r] = 0 /\ commitEvents[r] = 0
  <2>1. r \in todo /\ r \in Roles
    BY <1>1, <1>2, NextRoleInTodo
  <2>2. roleState[r] = "pending"
    BY <1>1, <2>1 DEF WaveInv
  <2> QED
    BY <1>1, <2>1, <2>2 DEF Inductive, OutcomeInv, RoleOK, EventsOK, Ended, TerminalRole
<1>4. stopCondition = NoCondition /\ ~AllRolesTerminal /\ RecordableFor(r) /\ runState = "running"
  BY <1>1, <1>3, LiveNotStopped, Accepts, Running
<1>5. PICK a : a = Transition(NewAttempt, "running")
  OBVIOUS
<1>6. a \in AttemptType /\ InPhase(a, "queued") /\ a.purpose = "none"
  <2>1. a = [NewAttempt EXCEPT !.state = "running"]
    BY <1>5 DEF Transition, NewAttempt, AttemptCanTransition, TransitionGuard
  <2> QED
    BY <1>5, <2>1, NewAttemptType, TransitionType DEF NewAttempt, InPhase, AttemptStates
<1>7. \/ /\ pc' = "abort" /\ failed' /\ faults' = faults + 1 /\ UNCHANGED <<attempt, wave, todo>>
         /\ roleState' = [roleState EXCEPT ![r] = "primary_queued"]
      \/ /\ roleState' = [roleState EXCEPT ![r] = "primary_running"]
         /\ attempt' = [attempt EXCEPT ![r] = a]
         /\ \/ pc' = "start" /\ wave' = wave \cup {r} /\ todo' = todo \ {r} /\ UNCHANGED <<failed, faults>>
            \/ pc' = "abort" /\ failed' /\ faults' = faults + 1 /\ UNCHANGED <<wave, todo>>
  <2>1. CASE \E ok \in BOOLEAN :
            /\ Recorded(RecordableFor(r), ok)
            /\ roleState' = [roleState EXCEPT ![r] = "primary_running"]
            /\ attempt' = [attempt EXCEPT ![r] = a]
            /\ IF ok THEN Goes("start") /\ wave' = wave \cup {r} /\ todo' = todo \ {r}
                     ELSE Fails /\ UNCHANGED <<wave, todo>>
    BY <1>4, <2>1 DEF Recorded
  <2>2. CASE /\ faults < MaxFaults /\ faults' = faults + 1 /\ Fails
             /\ roleState' = [roleState EXCEPT ![r] = "primary_queued"]
             /\ UNCHANGED <<attempt, wave, todo>>
    BY <2>2
  <2> QED
    BY <1>2, <1>5, <2>1, <2>2 DEF StartPrimary
<1>8. UNCHANGED <<output, dispatchEvents, commitEvents, job, result, runState, refusedRole, runStarted,
                  terminalRoles, workersCloseAuthorized, runTerminalRecorded, stopCondition>>
  BY DEF StartPrimary
<1>t. roleState \in [Roles -> RoleStates] /\ attempt \in [Roles -> AttemptType]
      /\ terminalRoles \subseteq Roles
  BY DEF Inductive, TypeInv, TypeOK, DomainType, TraceType
<1>9. \A q \in Roles \ {r} : SameRole(q)
  BY <1>7, <1>8, <1>t DEF SameRole
<1>10. \A q \in Roles \ {r} : /\ Waits(q)' <=> Waits(q)
                              /\ Ended(q)' <=> Ended(q)
                              /\ RoleOK(q)' /\ EventsOK(q)'
  BY <1>1, <1>9, RoleKept DEF Inductive, OutcomeInv
<1>11. ~Ended(r)' /\ ~AllRolesTerminal'
  BY <1>3, <1>7, <1>t DEF Ended, TerminalRole, AllRolesTerminal
<1>12. (roleState'[r] = "primary_queued" /\ attempt'[r] = NoAttempt /\ failed')
       \/ (Waits(r)' /\ attempt'[r] = a /\ roleState'[r] = "primary_running")
  BY <1>3, <1>6, <1>7, <1>t DEF Waits
<1>13. RoleOK(r)'
  BY <1>11, <1>12 DEF RoleOK
<1>14. EventsOK(r)'
  <2>1. ~Flies(r)'
    BY <1>6, <1>12 DEF Flies, InPhase
  <2> QED
    BY <1>3, <1>6, <1>8, <1>11, <1>12, <2>1 DEF EventsOK, Invocations, Waits
<1>15. FlowInv'
  BY <1>1, <1>4, <1>7, <1>8 DEF Inductive, OutcomeInv, FlowInv, AbortPCs, Cancelling, TerminalRun
<1>16. TraceInv'
  <2>1. r \notin terminalRoles /\ ~workersCloseAuthorized /\ ~runTerminalRecorded /\ runStarted
        /\ (\A q \in terminalRoles : Ended(q)) /\ \A q \in Roles : Ended(q) => q \in terminalRoles
    BY <1>1, <1>3 DEF Inductive, OutcomeInv, TraceInv
  <2> QED
    BY <1>1, <1>7, <1>8, <1>10, <1>11, <1>t, <2>1 DEF TraceInv
<1>17. StoppedInv'
  BY <1>1, <1>4, <1>7, <1>8 DEF Inductive, OutcomeInv, StoppedInv, StoppingPCs, Committing, CommitLoops
<1>18. ResultInv'
  BY <1>8 DEF Inductive, OutcomeInv, ResultInv
<1>19. TrailerInv'
  <2>1. \A q \in Roles \ {r} : attempt'[q] = attempt[q] /\ roleState'[q] = roleState[q]
    BY <1>9 DEF SameRole
  <2>2. pc' \notin {"cancelAll"} \cup StoppingPCs /\ pc \notin {"cancelAll"} \cup StoppingPCs
        /\ (~failed' => ~failed)
    BY <1>1, <1>7 DEF StoppingPCs
  <2> QED
    BY <1>8, <1>10, <1>11, <2>1, <2>2 DEF Inductive, OutcomeInv, TrailerInv
<1>20. NoFaultInv'
  BY <1>1, <1>7, <1>8 DEF Inductive, OutcomeInv, NoFaultInv, TypeInv, TypeOK, FaultType
<1>21. ~failed' => WaveInv'
  BY <1>1, <1>3, <1>4, <1>7, <1>8, <1>10, <1>12, <1>t DEF WaveInv, Waiting, Flying, WavePCs, StoppingPCs, Committing, CommitLoops, Cancelling
<1>22. GraveInv'
  <2>1. \A q \in Roles : ~Grave(q)
    BY <1>1, <1>4 DEF Inductive, OutcomeInv, GraveInv, StoppingPCs
  <2>2. \A q \in Roles : ~Grave(q)'
    BY <1>8, <2>1 DEF Grave
  <2>3. NoCondition \notin GraveConditions
    BY DEF NoCondition, GraveConditions, SecurityRows
  <2> QED
    BY <1>4, <1>7, <1>8, <2>2, <2>3 DEF GraveInv
<1> QED
  BY <1>10, <1>13, <1>14, <1>15, <1>16, <1>17, <1>18, <1>19, <1>20, <1>21, <1>22 DEF OutcomeInv

\* The next job of a wave is admitted.
LEMMA OutcomeAdmitJob ==
  ASSUME Inductive, AdmitJob
  PROVE  OutcomeInv'
<1> USE DEF Goes, domain, trace, stop, context
<1>1. pc = "dispatch" /\ pc' = "dispatchJob" /\ ~failed /\ faults = 0 /\ WaveInv /\ stopCondition = NoCondition
      /\ todo # {} /\ todo \subseteq wave /\ wave \subseteq Roles /\ schedErr = "none"
  BY DEF Inductive, OutcomeInv, FlowInv, AbortPCs, Cancelling, AdmitJob, TypeInv, TypeOK, ControlType,
         WaveInv, WavePCs
<1>2. PICK r : r = NextRole
  OBVIOUS
<1>3. r \in todo /\ r \in Roles /\ Waits(r) /\ ~Ended(r)
  <2>1. r \in todo /\ r \in Roles
    BY <1>1, <1>2, NextRoleInTodo
  <2>2. Waits(r)
    BY <1>1, <2>1 DEF WaveInv, Waiting, WavePCs, Cancelling
  <2> QED
    BY <2>1, <2>2 DEF Waits, Ended, TerminalRole
<1>4. runState = "running"
  BY <1>1, Running DEF WavePCs
<1>5. job' = [job EXCEPT ![r] = "queued"] /\ result' = [result EXCEPT ![r] = NoResult]
      /\ UNCHANGED <<roleState, attempt, output, dispatchEvents, commitEvents, runState, refusedRole, runStarted,
                     terminalRoles, workersCloseAuthorized, runTerminalRecorded, stopCondition, failed, faults,
                     wave, dispatched, todo, next, schedErr, workErr>>
  BY <1>2 DEF AdmitJob
<1>t. job \in [Roles -> JobStates] /\ DOMAIN result = Roles /\ terminalRoles \subseteq Roles
  BY DEF Inductive, TypeInv, TypeOK, WorkersType, TraceType
<1>6. \A q \in Roles : /\ Waits(q)' <=> Waits(q)
                       /\ Flies(q)' <=> Flies(q)
                       /\ Ended(q)' <=> Ended(q)
                       /\ RoleOK(q)' /\ EventsOK(q)'
  <2>1. \A q \in Roles : SameRole(q)
    BY <1>5 DEF SameRole
  <2> QED
    BY <1>1, <2>1, RoleKept DEF Inductive, OutcomeInv
<1>7. AllRolesTerminal' <=> AllRolesTerminal
  BY <1>5 DEF AllRolesTerminal
<1>8. \A q \in Roles : job'[q] \in {"sent", "collected"} =>
        job'[q] = job[q] /\ result'[q] = result[q]
  BY <1>5, <1>t
<1>9. \A q \in Roles \ {r} : job'[q] = job[q] /\ result'[q] = result[q]
  BY <1>5, <1>t
<1>10. FlowInv'
  BY <1>1, <1>4, <1>5, <1>7 DEF Inductive, OutcomeInv, FlowInv, AbortPCs, Cancelling, TerminalRun
<1>11. TraceInv'
  BY <1>1, <1>5, <1>6, <1>7, <1>t DEF Inductive, OutcomeInv, TraceInv
<1>12. StoppedInv'
  BY <1>1, <1>5 DEF Inductive, OutcomeInv, StoppedInv, StoppingPCs, Committing, CommitLoops
<1>13. ResultInv'
  BY <1>5, <1>8 DEF Inductive, OutcomeInv, ResultInv
<1>14. TrailerInv'
  BY <1>1, <1>3, <1>5, <1>6, <1>9 DEF Inductive, OutcomeInv, TrailerInv, StoppingPCs
<1>15. NoFaultInv'
  BY <1>1, <1>5, <1>7 DEF Inductive, OutcomeInv, NoFaultInv
<1>16. WaveInv'
  BY <1>1, <1>5, <1>6, <1>7 DEF WaveInv, Waiting, Flying, WavePCs, StoppingPCs, Committing, CommitLoops, Cancelling
<1>17. GraveInv'
  <2>1. \A q \in Roles : ~Grave(q)
    BY <1>1 DEF Inductive, OutcomeInv, GraveInv, StoppingPCs
  <2>2. \A q \in Roles : ~Grave(q)'
    BY <1>8, <2>1 DEF Grave
  <2>3. NoCondition \notin GraveConditions
    BY DEF NoCondition, GraveConditions, SecurityRows
  <2> QED
    BY <1>1, <1>5, <2>2, <2>3 DEF GraveInv, StoppingPCs
<1> QED
  BY <1>6, <1>10, <1>11, <1>12, <1>13, <1>14, <1>15, <1>16, <1>17 DEF OutcomeInv

\* ... and dispatched: the role's next invocation runs.
LEMMA OutcomeDispatchJob ==
  ASSUME Inductive, DispatchJob
  PROVE  OutcomeInv'
<1> USE DEF Goes, Fails, domain, trace, stop, workers, context
<1>1. pc = "dispatchJob" /\ ~failed /\ faults = 0 /\ WaveInv /\ stopCondition = NoCondition
      /\ todo # {} /\ todo \subseteq wave /\ wave \subseteq Roles
  BY DEF Inductive, OutcomeInv, FlowInv, AbortPCs, Cancelling, DispatchJob, TypeInv, TypeOK, ControlType,
         ControlInv, WaveInv, WavePCs
<1>2. PICK r : r = NextRole
  OBVIOUS
<1>3. r \in todo /\ r \in Roles /\ Waits(r) /\ ~Ended(r)
  <2>1. r \in todo /\ r \in Roles
    BY <1>1, <1>2, NextRoleInTodo
  <2>2. Waits(r)
    BY <1>1, <2>1 DEF WaveInv, Waiting, WavePCs, Cancelling
  <2> QED
    BY <2>1, <2>2 DEF Waits, Ended, TerminalRole
<1>4. runState = "running" /\ ~AllRolesTerminal /\ RecordableFor(r)
  BY <1>1, <1>3, LiveNotStopped, Accepts, Running DEF WavePCs
<1>5. PICK a : a = TransitionInvocation(attempt[r], LatestPurpose(attempt[r]), "running")
  OBVIOUS
<1>6. a \in AttemptType /\ InPhase(a, "running") /\ a.ok /\ a.purpose = attempt[r].purpose
  <2>1. attempt[r] \in AttemptType /\ InPhase(attempt[r], "queued")
    BY <1>3 DEF Waits, Inductive, TypeInv, TypeOK, DomainType
  <2>2. "running" \in InvocationStates /\ InvocationCanTransition("queued", "running")
    BY DEF InvocationStates, InvocationCanTransition
  <2> QED
    BY <1>5, <2>1, <2>2, InvocationMoves, TransitionInvocationType DEF InPhase
<1>7. /\ attempt' = [attempt EXCEPT ![r] = a]
      /\ \/ /\ pc' = "dispatch" /\ dispatched' = dispatched \cup {r} /\ todo' = todo \ {r}
            /\ dispatchEvents' = [dispatchEvents EXCEPT ![r] = @ + 1] /\ UNCHANGED <<failed, faults>>
         \/ pc' = "abort" /\ failed' /\ faults' = faults + 1 /\ UNCHANGED <<dispatched, todo, dispatchEvents>>
  <2>1. PICK ok \in BOOLEAN :
          /\ Recorded(a.ok /\ RecordableFor(r), ok)
          /\ IF ok THEN /\ Goes("dispatch")
                        /\ dispatched' = dispatched \cup {r} /\ todo' = todo \ {r}
                        /\ dispatchEvents' = [dispatchEvents EXCEPT ![r] = @ + 1]
                   ELSE Fails /\ UNCHANGED <<dispatched, todo, dispatchEvents>>
    BY <1>2, <1>5 DEF DispatchJob
  <2>2. attempt' = [attempt EXCEPT ![r] = a]
    BY <1>2, <1>5 DEF DispatchJob
  <2> QED
    BY <1>4, <1>6, <2>1, <2>2 DEF Recorded
<1>8. UNCHANGED <<roleState, output, commitEvents, job, result, runState, refusedRole, runStarted,
                  terminalRoles, workersCloseAuthorized, runTerminalRecorded, stopCondition, wave, next,
                  schedErr, workErr>>
  BY DEF DispatchJob
<1>t. attempt \in [Roles -> AttemptType] /\ terminalRoles \subseteq Roles
      /\ dispatchEvents \in [Roles -> Nat] /\ commitEvents \in [Roles -> Nat]
  BY DEF Inductive, TypeInv, TypeOK, DomainType, TraceType
<1>9. \A q \in Roles \ {r} : SameRole(q)
  BY <1>7, <1>8, <1>t DEF SameRole
<1>10. \A q \in Roles \ {r} : /\ Waits(q)' <=> Waits(q)
                              /\ Flies(q)' <=> Flies(q)
                              /\ Ended(q)' <=> Ended(q)
                              /\ RoleOK(q)' /\ EventsOK(q)'
  BY <1>1, <1>9, RoleKept DEF Inductive, OutcomeInv
<1>11. ~Ended(r)' /\ ~AllRolesTerminal'
  BY <1>3, <1>4, <1>8 DEF Ended, AllRolesTerminal
<1>12. Flies(r)' /\ ~Waits(r)' /\ attempt'[r] = a
  BY <1>3, <1>6, <1>7, <1>8, <1>t DEF Waits, Flies, InPhase
<1>13. RoleOK(r)'
  BY <1>11, <1>12 DEF RoleOK, Flies
<1>14. ~failed' => EventsOK(r)'
  BY <1>1, <1>3, <1>6, <1>7, <1>8, <1>11, <1>12, <1>t DEF Inductive, OutcomeInv, EventsOK, Invocations, Ended, TerminalRole, Waits
<1>15. FlowInv'
  BY <1>1, <1>4, <1>7, <1>8 DEF Inductive, OutcomeInv, FlowInv, AbortPCs, Cancelling, TerminalRun
<1>16. TraceInv'
  <2>1. r \notin terminalRoles /\ ~workersCloseAuthorized /\ ~runTerminalRecorded /\ runStarted
        /\ (\A q \in terminalRoles : Ended(q)) /\ \A q \in Roles : Ended(q) => q \in terminalRoles
    BY <1>1, <1>3 DEF Inductive, OutcomeInv, TraceInv
  <2> QED
    BY <1>1, <1>7, <1>8, <1>10, <1>11, <1>t, <2>1 DEF TraceInv
<1>17. StoppedInv'
  BY <1>1, <1>4, <1>7, <1>8 DEF Inductive, OutcomeInv, StoppedInv, StoppingPCs, Committing, CommitLoops
<1>18. ResultInv'
  BY <1>8 DEF Inductive, OutcomeInv, ResultInv
<1>19. TrailerInv'
  <2>1. \A q \in Roles \ {r} : attempt'[q] = attempt[q] /\ roleState'[q] = roleState[q]
    BY <1>9 DEF SameRole
  <2>2. pc' \notin {"cancelAll"} \cup StoppingPCs /\ pc \notin {"cancelAll"} \cup StoppingPCs
        /\ (~failed' => ~failed)
    BY <1>1, <1>7 DEF StoppingPCs
  <2> QED
    BY <1>8, <1>10, <1>11, <2>1, <2>2 DEF Inductive, OutcomeInv, TrailerInv
<1>20. NoFaultInv'
  BY <1>1, <1>7, <1>8 DEF Inductive, OutcomeInv, NoFaultInv, TypeInv, TypeOK, FaultType
<1>21. ~failed' => WaveInv'
  BY <1>1, <1>3, <1>4, <1>7, <1>8, <1>10, <1>12, <1>t DEF WaveInv, Waiting, Flying, WavePCs, StoppingPCs, Committing, CommitLoops, Cancelling
<1>22. GraveInv'
  <2>1. \A q \in Roles : ~Grave(q)
    BY <1>1, <1>4 DEF Inductive, OutcomeInv, GraveInv, StoppingPCs
  <2>2. \A q \in Roles : ~Grave(q)'
    BY <1>8, <2>1 DEF Grave
  <2>3. NoCondition \notin GraveConditions
    BY DEF NoCondition, GraveConditions, SecurityRows
  <2> QED
    BY <1>1, <1>7, <1>8, <2>2, <2>3 DEF GraveInv
<1> QED
  BY <1>10, <1>13, <1>14, <1>15, <1>16, <1>17, <1>18, <1>19, <1>20, <1>21, <1>22 DEF OutcomeInv

\* One result of the wave is taken.
LEMMA OutcomeCollect ==
  ASSUME Inductive, NEW r \in Roles, Collect(r)
  PROVE  OutcomeInv'
<1> USE DEF Goes, Fails, domain, trace, stop, context
<1>1. pc = "collect" /\ ~failed /\ faults = 0 /\ WaveInv /\ stopCondition = NoCondition
      /\ r \in dispatched /\ job[r] = "sent"
  BY DEF Inductive, OutcomeInv, FlowInv, AbortPCs, Cancelling, Collect, WaveInv, WavePCs
<1>2. Flies(r) /\ ~Ended(r)
  <2>1. Flies(r)
    BY <1>1 DEF WaveInv, Flying, Cancelling
  <2> QED
    BY <2>1 DEF Flies, Ended, TerminalRole
<1>3. runState = "running" /\ ~AllRolesTerminal
  BY <1>1, <1>2, LiveNotStopped, Running DEF WavePCs
<1>4. /\ job' = [job EXCEPT ![r] = "collected"]
      /\ \A q \in Roles \ {r} : result'[q] = result[q]
      /\ result'[r] = result[r] \/ result'[r].condition # "valid_review"
      /\ \/ pc' = "collect" /\ UNCHANGED <<failed, faults>>
         \/ pc' = "abort" /\ failed' /\ faults' = faults + 1
  <2>1. PICK c \in EvidenceConditions(result[r].condition) :
          /\ job' = [job EXCEPT ![r] = "collected"]
          /\ result' = [result EXCEPT ![r] =
                IF c = result[r].condition THEN @ ELSE [condition |-> c, output |-> "none"]]
          /\ \E ok \in BOOLEAN : /\ Recorded(TRUE, ok)
                                 /\ IF ok THEN Goes("collect") ELSE Fails
    BY DEF Collect
  <2>2. result \in [Roles -> [condition : Conditions, output : OutputKinds]]
    BY DEF Inductive, TypeInv, TypeOK, WorkersType
  <2>3. \A q \in Roles \ {r} : result'[q] = result[q]
    BY <2>1, <2>2
  <2>4. c # result[r].condition => c # "valid_review"
    BY <2>1 DEF EvidenceConditions
  <2>5. result'[r] = result[r] \/ result'[r].condition # "valid_review"
    BY <2>1, <2>2, <2>4
  <2>6. \/ pc' = "collect" /\ UNCHANGED <<failed, faults>>
        \/ pc' = "abort" /\ failed' /\ faults' = faults + 1
    BY <2>1 DEF Recorded
  <2> QED
    BY <2>1, <2>3, <2>5, <2>6
<1>5. UNCHANGED <<roleState, attempt, output, dispatchEvents, commitEvents, runState, refusedRole, runStarted,
                  terminalRoles, workersCloseAuthorized, runTerminalRecorded, stopCondition,
                  wave, dispatched, todo, next, workErr>>
  BY DEF Collect
<1>t. job \in [Roles -> JobStates] /\ terminalRoles \subseteq Roles /\ dispatched \subseteq Roles
  BY DEF Inductive, TypeInv, TypeOK, WorkersType, TraceType, ControlType
<1>6. \A q \in Roles : /\ Waits(q)' <=> Waits(q)
                       /\ Flies(q)' <=> Flies(q)
                       /\ Ended(q)' <=> Ended(q)
                       /\ RoleOK(q)' /\ EventsOK(q)'
  <2>1. \A q \in Roles : SameRole(q)
    BY <1>5 DEF SameRole
  <2> QED
    BY <1>1, <2>1, RoleKept DEF Inductive, OutcomeInv
<1>7. AllRolesTerminal' <=> AllRolesTerminal
  BY <1>5 DEF AllRolesTerminal
<1>9. job'[r] = "collected" /\ \A q \in Roles \ {r} : job'[q] = job[q] /\ result'[q] = result[q]
  BY <1>4, <1>t
<1>10. FlowInv'
  BY <1>1, <1>3, <1>4, <1>5, <1>7 DEF Inductive, OutcomeInv, FlowInv, AbortPCs, Cancelling, TerminalRun
<1>11. TraceInv'
  BY <1>1, <1>4, <1>5, <1>6, <1>7, <1>t DEF Inductive, OutcomeInv, TraceInv
<1>12. StoppedInv'
  BY <1>1, <1>4, <1>5 DEF Inductive, OutcomeInv, StoppedInv, StoppingPCs, Committing, CommitLoops
<1>13. ResultInv'
  BY <1>1, <1>4, <1>9 DEF Inductive, OutcomeInv, ResultInv
<1>14. TrailerInv'
  BY <1>1, <1>2, <1>4, <1>5, <1>6, <1>9 DEF Inductive, OutcomeInv, TrailerInv, StoppingPCs
<1>15. NoFaultInv'
  BY <1>1, <1>4, <1>5, <1>7 DEF Inductive, OutcomeInv, NoFaultInv
<1>16. ~failed' => WaveInv'
  <2> SUFFICES ASSUME ~failed' PROVE WaveInv'
    OBVIOUS
  <2>1. Waiting' = Waiting /\ Flying' = Flying /\ pc' = "collect"
    BY <1>1, <1>4, <1>5 DEF Waiting, Flying, WavePCs, Committing, CommitLoops
  <2> QED
    BY <1>1, <1>5, <1>6, <1>7, <2>1, WavesAreRoles
    DEF WaveInv, WavePCs, StoppingPCs, Committing, CommitLoops, Cancelling, Inductive
<1>17. ~failed' => GraveInv'
  <2>1. \A q \in Roles \ {r} : Grave(q)' <=> Grave(q)
    BY <1>9 DEF Grave
  <2>2. \A q \in Roles : Grave(q) => q \in dispatched
    BY <1>1 DEF Inductive, OutcomeInv, GraveInv
  <2>3. NoCondition \notin GraveConditions
    BY DEF NoCondition, GraveConditions, SecurityRows
  <2> QED
    BY <1>1, <1>4, <1>5, <2>1, <2>2, <2>3 DEF GraveInv
<1> QED
  BY <1>6, <1>10, <1>11, <1>12, <1>13, <1>14, <1>15, <1>16, <1>17 DEF OutcomeInv

\* A worker touches only a job that is not collected.
LEMMA OutcomeWorker ==
  ASSUME Inductive, NEW r \in Roles, WorkerStep(r)
  PROVE  OutcomeInv'
<1>1. UNCHANGED <<control, domain, trace, stop, context, fault>>
  BY DEF WorkerStep, WorkerTake, WorkerSkip, WorkerNoWindow, WorkerInvoke, WorkerReturn, Report
<1>t. job \in [Roles -> JobStates] /\ result \in [Roles -> [condition : Conditions, output : OutputKinds]]
      /\ dispatched \subseteq Roles
  BY DEF Inductive, TypeInv, TypeOK, WorkersType, ControlType
<1>2. /\ \A q \in Roles \ {r} : job'[q] = job[q] /\ result'[q] = result[q]
      /\ job[r] # "collected" /\ job'[r] # "collected"
      /\ job'[r] = "sent" /\ result'[r].condition = "valid_review" => result'[r].output # "none"
  <2>1. CASE WorkerTake(r) \/ WorkerInvoke(r)
    BY <1>t, <2>1 DEF WorkerTake, WorkerInvoke
  <2>2. CASE WorkerSkip(r) \/ WorkerNoWindow(r)
    BY <1>t, <2>2 DEF WorkerSkip, WorkerNoWindow, Report
  <2>3. CASE WorkerReturn(r)
    <3>1. PICK c \in RuntimeConditions : \E out \in Outputs(LatestPurpose(attempt[r]), c) :
            Report(r, WorkerCondition(c, schedErr), IF WorkerCondition(c, schedErr) = c THEN out ELSE "none")
      BY <2>3 DEF WorkerReturn
    <3>2. PICK out \in Outputs(LatestPurpose(attempt[r]), c) :
            Report(r, WorkerCondition(c, schedErr), IF WorkerCondition(c, schedErr) = c THEN out ELSE "none")
      BY <3>1
    <3>3. PICK d : d = WorkerCondition(c, schedErr)
      OBVIOUS
    <3>4. d \in {c, "cancelled", "timeout"}
      BY <3>3, WorkerConditionType
    <3>5. c = "valid_review" => out # "none"
      BY DEF Outputs
    <3>6. job' = [job EXCEPT ![r] = "sent"] /\ job[r] = "invoking"
          /\ result' = [result EXCEPT ![r] = [condition |-> d, output |-> IF d = c THEN out ELSE "none"]]
      BY <2>3, <3>2, <3>3 DEF Report, WorkerReturn
    <3> QED
      BY <1>t, <3>4, <3>5, <3>6
  <2> QED
    BY <2>1, <2>2, <2>3 DEF WorkerStep
<1> USE DEF control, domain, trace, stop, context, fault
<1>3. \A q \in Roles : /\ Waits(q)' <=> Waits(q)
                       /\ Flies(q)' <=> Flies(q)
                       /\ Ended(q)' <=> Ended(q)
                       /\ RoleOK(q)' /\ (~failed => EventsOK(q)')
  <2>1. \A q \in Roles : SameRole(q)
    BY <1>1 DEF SameRole
  <2> QED
    BY <2>1, RoleKept DEF Inductive, OutcomeInv
<1>4. AllRolesTerminal' <=> AllRolesTerminal
  BY <1>1 DEF AllRolesTerminal
<1>5. \A q \in Roles : (Grave(q)' <=> Grave(q)) /\ (Grave(q) => result'[q] = result[q])
  BY <1>2 DEF Grave
<1>6. pc \in Committing => /\ r \notin dispatched
                           /\ \A q \in dispatched : result'[q] = result[q] /\ (Bounded(q)' <=> Bounded(q))
  <2>1. pc \in Committing => r \notin dispatched
    BY <1>2 DEF Inductive, StopInv
  <2> QED
    BY <1>1, <1>2, <1>t, <2>1 DEF Bounded
<1>7. pc \in Committing => WaveCondition' = WaveCondition
  <2> SUFFICES ASSUME pc \in Committing PROVE WaveCondition' = WaveCondition
    OBVIOUS
  <2>1. {q \in dispatched : ~Bounded(q)} = {q \in dispatched' : ~Bounded(q)'}
    BY <1>1, <1>6
  <2>2. PICK J : J = {q \in dispatched : ~Bounded(q)}
    OBVIOUS
  <2>3. [q \in J |-> result[q].condition] = [q \in J |-> result'[q].condition]
    BY <1>6, <2>2
  <2>4. WaveCondition = IF J = {} THEN "valid_review"
                        ELSE ReduceOver(J, [q \in J |-> result[q].condition])
    BY <2>2 DEF WaveCondition
  <2>5. WaveCondition' = IF J = {} THEN "valid_review"
                         ELSE ReduceOver(J, [q \in J |-> result'[q].condition])
    BY <2>1, <2>2 DEF WaveCondition
  <2> QED
    BY <2>3, <2>4, <2>5
<1>10. FlowInv'
  BY <1>1, <1>4 DEF Inductive, OutcomeInv, FlowInv
<1>11. TraceInv'
  BY <1>1, <1>3, <1>4 DEF Inductive, OutcomeInv, TraceInv, TypeInv, TypeOK, TraceType
<1>12. StoppedInv'
  BY <1>1, <1>3, <1>6, <1>7 DEF Inductive, OutcomeInv, StoppedInv, StoppingPCs, Committing, CommitLoops
<1>13. ResultInv'
  BY <1>2 DEF Inductive, OutcomeInv, ResultInv
<1>14. TrailerInv'
  BY <1>1, <1>2, <1>3 DEF Inductive, OutcomeInv, TrailerInv
<1>15. NoFaultInv'
  BY <1>1, <1>4 DEF Inductive, OutcomeInv, NoFaultInv
<1>16. ~failed' => WaveInv'
  <2>1. Waiting' = Waiting
    BY <1>1 DEF Waiting
  <2>2. Flying' = Flying
    BY <1>1, <1>6 DEF Flying, Committing, CommitLoops
  <2>3. pc \in Committing => todo \subseteq dispatched /\ (todo # {} => NextRole \in dispatched)
    BY NextRoleInTodo DEF Inductive, StopInv, TypeInv, TypeOK, ControlType
  <2>4. pc = "commitStoppedJob" => todo # {}
    BY DEF Inductive, TypeInv, ControlInv
  <2>5. NextRole' = NextRole
    BY <1>1 DEF NextRole
  <2>6. pc = "commitStoppedJob" => (Bounded(NextRole)' <=> Bounded(NextRole))
    <3>1. PICK n : n = NextRole
      OBVIOUS
    <3>2. pc = "commitStoppedJob" => n \in dispatched /\ n \in Roles
      BY <1>t, <2>3, <2>4, <3>1 DEF Committing, CommitLoops
    <3>3. pc = "commitStoppedJob" => (Bounded(n)' <=> Bounded(n))
      BY <1>6, <3>2 DEF Committing, CommitLoops
    <3>4. Bounded(NextRole)' <=> ExtractionIsBounded(LatestPurpose(attempt'[n]), result'[n].condition)
      BY <2>5, <3>1 DEF Bounded
    <3>5. Bounded(n)' <=> ExtractionIsBounded(LatestPurpose(attempt'[n]), result'[n].condition)
      BY DEF Bounded
    <3> QED
      BY <3>1, <3>3, <3>4, <3>5
  <2>7. \A q \in todo : pc \in Committing => (Bounded(q)' <=> Bounded(q))
    BY <1>6, <2>3
  <2> QED
    BY <1>1, <1>3, <1>4, <2>1, <2>2, <2>6, <2>7, WavesAreRoles
    DEF Inductive, OutcomeInv, WaveInv, Committing, CommitLoops
<1>17. ~failed' => GraveInv'
  BY <1>1, <1>5 DEF Inductive, OutcomeInv, GraveInv, FinalRunState
<1> QED
  BY <1>1, <1>3, <1>10, <1>11, <1>12, <1>13, <1>14, <1>15, <1>16, <1>17 DEF OutcomeInv

\* The end of a context is only seen by the samples.
LEMMA OutcomeContext ==
  ASSUME Inductive, ContextStep
  PROVE  OutcomeInv'
<1>1. /\ UNCHANGED <<control, domain, trace, stop, workers, fault>>
      /\ workErr # "none" => workErr' = workErr
      /\ schedErr' = schedErr \/ workErr # "none"
  BY DEF ContextStep, CallerEnds, RunDeadline, PropagateToRun, PropagateToDispatch
<1> USE DEF control, domain, trace, stop, workers, fault
<1>2. ResultInv' /\ (AllRolesTerminal' <=> AllRolesTerminal) /\ WaveCondition' = WaveCondition /\
      \A r \in Roles : /\ Waits(r)' <=> Waits(r)
                       /\ Flies(r)' <=> Flies(r)
                       /\ Ended(r)' <=> Ended(r)
                       /\ Grave(r)' <=> Grave(r)
                       /\ Bounded(r)' <=> Bounded(r)
                       /\ RoleOK(r)'
                       /\ ~failed => EventsOK(r)'
  BY <1>1, Quiet
<1>3. FlowInv' /\ TraceInv' /\ TrailerInv' /\ NoFaultInv'
  BY <1>1, <1>2 DEF Inductive, OutcomeInv, FlowInv, TraceInv, TrailerInv, NoFaultInv, TypeInv, TypeOK, TraceType
<1>4. StoppedInv'
  BY <1>1, <1>2 DEF Inductive, OutcomeInv, StoppedInv, TypeInv, TypeOK, ContextType
<1>5. ~failed' => GraveInv'
  BY <1>1, <1>2 DEF Inductive, OutcomeInv, GraveInv, FinalRunState
<1>6. ~failed' => WaveInv'
  <2>1. Waiting' = Waiting /\ Flying' = Flying /\ NextRole' = NextRole
        /\ (Bounded(NextRole)' <=> Bounded(NextRole))
    BY <1>1 DEF Waiting, Flying, NextRole, Bounded
  <2> QED
    BY <1>1, <1>2, <2>1, WavesAreRoles DEF Inductive, OutcomeInv, WaveInv
<1> QED
  BY <1>1, <1>2, <1>3, <1>4, <1>5, <1>6 DEF OutcomeInv

-----------------------------------------------------------------------------
(* Integrity failures in the reduction of a wave.                             *)

LEMMA GravePrecedence ==
  ASSUME NEW c
  PROVE  /\ Precedence(c) <= 2 <=> c \in GraveConditions
         /\ Precedence(c) <= 3 <=> ConditionStopsRun(c)
BY DEF Precedence, GraveConditions, ConditionStopsRun, SecurityRows, RepairRows, ClosedOutputRows, ValidRows

\* A reduction is no weaker than what it reduces.
LEMMA ReduceOverLeast ==
  ASSUME NEW T \in SUBSET Roles, NEW cond, NEW x \in T
  PROVE  Precedence(ReduceOver(T, cond)) <= Precedence(cond[x])
<1> DEFINE P == {Precedence(cond[y]) : y \in T}
<1>1. P \in SUBSET Nat /\ P # {}
  BY PrecedenceType
<1>2. PICK p \in P : \A q \in P : p <= q
  BY <1>1, LeastNatural
<1> DEFINE W == {y \in T : Precedence(cond[y]) = p}
<1>3. W \in SUBSET Nat /\ W # {}
  BY <1>2, ConstantsAssumption DEF Roles
<1>4. PICK w \in W : \A v \in W : w <= v
  BY <1>3, LeastNatural
<1> DEFINE Wins(y) == \A z \in T : \/ Precedence(cond[y]) < Precedence(cond[z])
                                   \/ Precedence(cond[y]) = Precedence(cond[z]) /\ y <= z
<1>5. \E y \in T : Wins(y)
  <2>1. \A z \in T : p <= Precedence(cond[z]) /\ Precedence(cond[z]) \in Nat /\ p \in Nat
    BY <1>1, <1>2, PrecedenceType
  <2>2. \A z \in T : Precedence(cond[z]) = p => w <= z
    BY <1>4
  <2>3. Wins(w)
    BY <1>4, <2>1, <2>2
  <2> QED
    BY <1>4, <2>3
<1>6. PICK y \in T : Wins(y) /\ ReduceOver(T, cond) = cond[y]
  <2>1. PICK y : y = CHOOSE z \in T : Wins(z)
    OBVIOUS
  <2>2. y \in T /\ Wins(y)
    BY <1>5, <2>1
  <2>3. ReduceOver(T, cond) = cond[y]
    BY <2>1 DEF ReduceOver
  <2> QED
    BY <2>2, <2>3
<1>7. Precedence(cond[y]) \in Nat /\ Precedence(cond[x]) \in Nat
  BY PrecedenceType
<1> QED
  BY <1>6, <1>7

LEMMA WaveConditionLeast ==
  ASSUME dispatched \subseteq Roles, NEW r \in dispatched, ~Bounded(r)
  PROVE  Precedence(WaveCondition) <= Precedence(result[r].condition)
<1>1. PICK J : J = {q \in dispatched : ~Bounded(q)}
  OBVIOUS
<1>2. PICK cond : cond = [q \in J |-> result[q].condition]
  OBVIOUS
<1>3. r \in J /\ J \in SUBSET Roles
  BY <1>1
<1>4. WaveCondition = ReduceOver(J, cond)
  BY <1>1, <1>2, <1>3 DEF WaveCondition
<1>5. cond[r] = result[r].condition
  BY <1>2, <1>3
<1> QED
  BY <1>3, <1>4, <1>5, ReduceOverLeast

\* No report absorbs what stops the run.
LEMMA StoppingNotBounded ==
  ASSUME NEW c, ConditionStopsRun(c), NEW p
  PROVE  ~ExtractionIsBounded(p, c)
<1>1. TerminalClass(c) \in {"internal", "security_policy", "artifact", "cancelled"}
  BY DEF ConditionStopsRun, TerminalClass, SecurityRows, ValidRows, RepairRows, ClosedOutputRows,
         RetryRows, TimeoutRows, AuthRows
<1>2. FailurePrecedence(TerminalClass(c)) \in {4, 5, 6, 7}
  BY <1>1 DEF FailurePrecedence
<1>3. ~(FailurePrecedence(TerminalClass(c)) <= 2)
  BY <1>2
<1> QED
  BY <1>3 DEF ExtractionIsBounded, BoundedFailureCeiling

\* What a wave collected decides its reduction.
LEMMA WaveGrave ==
  ASSUME dispatched \subseteq Roles, \A r \in dispatched : job[r] = "collected"
  PROVE  /\ \A r \in dispatched : Grave(r) =>
              Precedence(WaveCondition) <= Precedence(result[r].condition) /\ WaveCondition \in GraveConditions
         /\ WaveCondition \in GraveConditions =>
              \E r \in dispatched : Grave(r) /\ result[r].condition = WaveCondition
         /\ ~ConditionStopsRun(WaveCondition) =>
              \A r \in dispatched : ~ConditionStopsRun(result[r].condition)
<1>1. \A r \in dispatched : ConditionStopsRun(result[r].condition) => ~Bounded(r)
  BY StoppingNotBounded DEF Bounded
<1>2. \A r \in dispatched : ConditionStopsRun(result[r].condition) =>
        Precedence(WaveCondition) <= Precedence(result[r].condition)
  BY <1>1, WaveConditionLeast
<1>3. \A c : Precedence(c) \in Nat
  BY PrecedenceType
<1>4. \A r \in dispatched : ConditionStopsRun(result[r].condition) => ConditionStopsRun(WaveCondition)
  <2> TAKE r \in dispatched
  <2> HAVE ConditionStopsRun(result[r].condition)
  <2>1. PICK c, d : c = WaveCondition /\ d = result[r].condition
    OBVIOUS
  <2>2. Precedence(c) <= Precedence(d) /\ Precedence(d) <= 3 /\ Precedence(c) \in Nat /\ Precedence(d) \in Nat
    BY <1>2, <1>3, <2>1, GravePrecedence
  <2> QED
    BY <2>1, <2>2, GravePrecedence
<1>5. \A r \in dispatched : Grave(r) =>
        Precedence(WaveCondition) <= Precedence(result[r].condition) /\ WaveCondition \in GraveConditions
  <2> TAKE r \in dispatched
  <2> HAVE Grave(r)
  <2>1. PICK c, d : c = WaveCondition /\ d = result[r].condition
    OBVIOUS
  <2>2. d \in GraveConditions /\ ConditionStopsRun(d)
    BY <2>1 DEF Grave, GraveConditions, ConditionStopsRun
  <2>3. Precedence(c) <= Precedence(d) /\ Precedence(d) <= 2 /\ Precedence(c) \in Nat /\ Precedence(d) \in Nat
    BY <1>2, <1>3, <2>1, <2>2, GravePrecedence
  <2> QED
    BY <2>1, <2>3, GravePrecedence
<1>6. "valid_review" \notin GraveConditions
  BY DEF GraveConditions, SecurityRows
<1> QED
  BY <1>4, <1>5, <1>6, WaveConditionReported DEF Grave

\* A step of a running coordinator that leaves the roles, the jobs and the trace alone.
LEMMA QuietGroups ==
  ASSUME Inductive, ~failed,
         pc \notin {"admit", "recordStart", "close", "join", "finish", "terminal", "done"},
         UNCHANGED <<roleState, attempt, output, dispatchEvents, commitEvents, job, result, runState,
                     refusedRole, terminalRoles, runStarted, workersCloseAuthorized,
                     runTerminalRecorded>>,
         runState = "running",
         \/ failed' = failed /\ faults' = faults
         \/ failed' /\ faults' = faults + 1,
         failed' => pc' = "abort",
         ~failed' => /\ pc' \notin AbortPCs \cup {"admit", "rejected", "recordStart", "close", "join", "finish",
                                       "terminal", "done"}
                     /\ pc' \in Cancelling => ret' # "abortAuthorize"
  PROVE  /\ FlowInv' /\ TraceInv' /\ ResultInv' /\ NoFaultInv'
         /\ \A r \in Roles : RoleOK(r)'
         /\ \A r \in Roles : EventsOK(r)'
<1>1. faults = 0
  BY DEF Inductive, OutcomeInv, FlowInv
<1>2. ResultInv' /\ (AllRolesTerminal' <=> AllRolesTerminal) /\
      \A r \in Roles : (Ended(r)' <=> Ended(r)) /\ RoleOK(r)' /\ EventsOK(r)'
  BY Quiet
<1>3. FlowInv'
  BY <1>1, <1>2 DEF Inductive, OutcomeInv, FlowInv, AbortPCs, Cancelling, TerminalRun
<1>4. TraceInv'
  BY <1>2 DEF Inductive, OutcomeInv, TraceInv, TypeInv, TypeOK, TraceType
<1>5. NoFaultInv'
  BY <1>1 DEF Inductive, OutcomeInv, NoFaultInv
<1> QED
  BY <1>2, <1>3, <1>4, <1>5

\* The reduction of a wave, the samples for its jobs and the ends of its loops.
LEMMA OutcomeReduce ==
  ASSUME Inductive, CommitWave \/ PrepareCommit \/ CommitLoopEnds
  PROVE  OutcomeInv'
<1> USE DEF Goes, Fails, CallCancelAll, domain, trace, stop, workers, context
<1>1. pc \in {"collect"} \cup CommitLoops /\ ~failed /\ faults = 0 /\ WaveInv /\ stopCondition = NoCondition
      /\ runState = "running"
  <2>1. pc \in {"collect"} \cup CommitLoops
    BY DEF CommitWave, PrepareCommit, CommitLoopEnds, CommitLoops
  <2>2. ~failed /\ faults = 0 /\ WaveInv /\ stopCondition = NoCondition
    BY <2>1 DEF Inductive, OutcomeInv, FlowInv, AbortPCs, Cancelling, WaveInv, WavePCs, Committing, CommitLoops
  <2> QED
    BY <2>1, <2>2, Running DEF WavePCs, Committing
<1>2. /\ UNCHANGED <<roleState, attempt, output, dispatchEvents, commitEvents, job, result>>
      /\ UNCHANGED <<runState, refusedRole, terminalRoles, runStarted, workersCloseAuthorized,
                     runTerminalRecorded, stopCondition, workErr, wave, dispatched, next>>
  BY DEF CommitWave, PrepareCommit, CommitLoopEnds
<1>3. ResultInv' /\ (AllRolesTerminal' <=> AllRolesTerminal) /\ WaveCondition' = WaveCondition /\
      \A r \in Roles : /\ Waits(r)' <=> Waits(r)
                       /\ Flies(r)' <=> Flies(r)
                       /\ Ended(r)' <=> Ended(r)
                       /\ Grave(r)' <=> Grave(r)
                       /\ Bounded(r)' <=> Bounded(r)
                       /\ RoleOK(r)'
                       /\ EventsOK(r)'
  BY <1>1, <1>2, Quiet
<1>4. Recordable("cancellation_requested")
  BY <1>1, Accepts DEF CommitLoops
<1>5. \A c, ok : RequestDispatchStop(c, ok) => (ok /\ faults' = faults) \/ (~ok /\ faults' = faults + 1)
  BY <1>4, AcceptedIsRecorded DEF RequestDispatchStop
<1>6. SampledContext \in {"cancelled", "timeout", NoCondition}
  BY ContextConditionType
\* What each of them does.
<1>7. \/ /\ pc = "collect" /\ pc' = "cancelAll" /\ ret' = "afterCommit" /\ cancelCondition' \in {"cancelled", "timeout"}
         /\ ~RetainsAuthority(WaveCondition, cancelCondition') /\ (\A r \in dispatched : job[r] = "collected")
         /\ UNCHANGED <<failed, faults, todo>>
      \/ /\ pc = "collect" /\ pc' = "commitStopped" /\ ConditionStopsRun(WaveCondition) /\ todo' = dispatched
         /\ (\A r \in dispatched : job[r] = "collected")
         /\ UNCHANGED <<failed, faults>>
      \/ /\ pc = "collect" /\ pc' = "commitTrailers" /\ ~ConditionStopsRun(WaveCondition)
         /\ todo' = {r \in dispatched : Bounded(r)} /\ (\A r \in dispatched : job[r] = "collected")
         /\ UNCHANGED <<failed, faults>>
      \/ /\ pc = "commitStopped" /\ pc' = "commitStoppedJob" /\ ~Bounded(NextRole)
         /\ UNCHANGED <<failed, faults, todo>>
      \/ pc = "commitRest" /\ pc' = "commitJob" /\ UNCHANGED <<failed, faults, todo>>
      \/ /\ pc = "commitTrailers" /\ pc' = "commitRest" /\ todo = {} /\ todo' = {r \in dispatched : ~Bounded(r)}
         /\ UNCHANGED <<failed, faults>>
      \/ pc = "commitRest" /\ pc' = "afterCommit" /\ todo = {} /\ UNCHANGED <<failed, faults, todo>>
      \/ /\ pc = "commitStopped" /\ pc' = "cancelAll" /\ ret' = "afterCommit" /\ todo = {}
         /\ cancelCondition' = WaveCondition /\ UNCHANGED <<failed, faults, todo>>
      \/ pc' = "abort" /\ failed' /\ faults' = faults + 1
  <2>1. CASE CommitWave
    <3>1. pc = "collect" /\ \A r \in dispatched : job[r] = "collected"
      BY <2>1 DEF CommitWave, Collected
    <3>2. PICK condition : condition = WaveCondition
      OBVIOUS
    <3>3. \/ /\ SampledContext # NoCondition /\ ~RetainsAuthority(condition, SampledContext)
             /\ CallCancelAll(SampledContext, "afterCommit")
          \/ /\ ConditionStopsRun(condition)
             /\ \E ok \in BOOLEAN : /\ RequestDispatchStop(condition, ok)
                                    /\ IF ok THEN Goes("commitStopped") ELSE Fails
             /\ todo' = dispatched
          \/ /\ ~ConditionStopsRun(condition)
             /\ Goes("commitTrailers") /\ todo' = {r \in dispatched : Bounded(r)}
             /\ faults' = faults
      BY <2>1, <3>2 DEF CommitWave
    <3> QED
      BY <1>1, <1>5, <1>6, <3>1, <3>2, <3>3
  <2>2. CASE PrepareCommit
    <3>1. pc \in {"commitStopped", "commitRest"} /\ ~Bounded(NextRole) /\ todo' = todo
      BY <2>2 DEF PrepareCommit
    <3>2. PICK to : to = IF pc = "commitStopped" THEN "commitStoppedJob" ELSE "commitJob"
      OBVIOUS
    <3>3. PICK c : c = ConditionForTransition(result[NextRole].condition, SampledContext)
      OBVIOUS
    <3>4. \/ Goes(to) /\ faults' = faults
          \/ \E ok \in BOOLEAN : /\ RequestDispatchStop(c, ok)
                                 /\ IF ok THEN Goes(to) ELSE Fails
      BY <2>2, <3>2, <3>3 DEF PrepareCommit
    <3> QED
      BY <1>1, <1>5, <3>1, <3>2, <3>4
  <2>3. CASE CommitLoopEnds
    BY <1>1, <2>3 DEF CommitLoopEnds
  <2> QED
    BY <2>1, <2>2, <2>3
<1>8. FlowInv' /\ TraceInv' /\ NoFaultInv'
  BY <1>1, <1>2, <1>7, QuietGroups DEF CommitLoops, AbortPCs, Cancelling
<1>9. dispatched \subseteq Roles /\ (pc \in CommitLoops => \A r \in dispatched : job[r] = "collected")
  BY DEF Inductive, TypeInv, TypeOK, ControlType, StopInv, Committing
<1>10. pc' # "abort" => \A r \in dispatched : job[r] = "collected"
  BY <1>7, <1>9 DEF CommitLoops
<1>11. StoppedInv'
  <2>1. pc' = "cancelAll" => cancelCondition' # "valid_review"
    BY <1>1, <1>7 DEF Inductive, OutcomeInv, StoppedInv, StoppingPCs, ConditionStopsRun, SecurityRows
  <2>2. pc' \in StoppingPCs /\ ~failed' => ConditionStopsRun(WaveCondition)
    BY <1>1, <1>7 DEF Inductive, OutcomeInv, StoppedInv, StoppingPCs
  <2>3. pc' \in Committing \ StoppingPCs /\ ~failed' =>
          \A r \in dispatched : ~ConditionStopsRun(result[r].condition)
    BY <1>1, <1>7, <1>9, <1>10, WaveGrave
    DEF Inductive, OutcomeInv, StoppedInv, StoppingPCs, Committing, CommitLoops
  <2>4. pc' \notin {"cancelSample", "cancelRoles"}
    BY <1>7
  <2> QED
    BY <1>1, <1>2, <1>3, <2>1, <2>2, <2>3, <2>4 DEF StoppedInv, Inductive, OutcomeInv
<1>12. TrailerInv'
  BY <1>1, <1>2, <1>3, <1>7, <1>9 DEF Inductive, OutcomeInv, TrailerInv, StoppingPCs, CommitLoops
<1>13. ~failed' => WaveInv'
  <2> SUFFICES ASSUME ~failed' PROVE WaveInv'
    OBVIOUS
  <2>1. Waiting \subseteq Roles /\ Flying \subseteq Roles /\ todo \subseteq Roles
        /\ (pc \in CommitLoops => todo \subseteq dispatched)
    BY WavesAreRoles DEF Inductive, StopInv, Committing
  <2>2. pc' = "commitStoppedJob" => ~Bounded(NextRole)'
    BY <1>2, <1>7 DEF Bounded, NextRole
  <2>3. pc' # "cancelAll" => Waiting' = (wave \ dispatched) \cup next
    BY <1>2, <1>7 DEF Waiting, WavePCs, Committing, CommitLoops
  <2>4. Waiting = (wave \ dispatched) \cup next
    BY <1>1 DEF Waiting, WavePCs, Committing, CommitLoops
  <2>5. pc' # "cancelAll" => Flying' = Flying
    BY <1>2, <1>3, <1>7, <1>9 DEF Flying, Committing, CommitLoops
  <2> QED
    BY <1>1, <1>2, <1>3, <1>7, <1>9, <2>1, <2>2, <2>3, <2>4, <2>5
    DEF WaveInv, WavePCs, StoppingPCs, Committing, CommitLoops, Cancelling
<1>14. ~failed' => GraveInv'
  <2>1. \A r \in Roles : Grave(r) => r \in dispatched /\ pc \in {"collect"} \cup StoppingPCs
    BY <1>1 DEF Inductive, OutcomeInv, GraveInv, CommitLoops, StoppingPCs
  <2>2. NoCondition \notin GraveConditions /\ "cancelled" \notin GraveConditions
        /\ "timeout" \notin GraveConditions
    BY DEF NoCondition, GraveConditions, SecurityRows
  <2> SUFFICES ASSUME ~failed' PROVE GraveInv'
    OBVIOUS
  <2>3. /\ \A r \in Roles : Grave(r) =>
              Precedence(WaveCondition) <= Precedence(result[r].condition) /\ WaveCondition \in GraveConditions
        /\ WaveCondition \in GraveConditions =>
             \E r \in Roles : Grave(r) /\ result[r].condition = WaveCondition
    BY <1>7, <1>9, <1>10, <2>1, WaveGrave
  <2>4. \A d \in {"cancelled", "timeout"} : ~RetainsAuthority(WaveCondition, d) => WaveCondition \notin GraveConditions
    BY DEF RetainsAuthority, GraveConditions
  <2>5. WaveCondition \in GraveConditions => ConditionStopsRun(WaveCondition)
    BY DEF ConditionStopsRun, GraveConditions
  <2>6. (\E r \in Roles : Grave(r)) => pc' \in {"collect", "cancelAll"} \cup StoppingPCs
    BY <1>7, <2>1, <2>3, <2>5 DEF StoppingPCs
  <2>7. pc' = "cancelAll" =>
          \/ cancelCondition' = WaveCondition
          \/ cancelCondition' \notin GraveConditions /\ \A r \in Roles : ~Grave(r)
    BY <1>7, <2>2, <2>3, <2>4
  <2>8. pc' \notin {"terminal", "done"}
    BY <1>7
  <2> QED
    BY <1>1, <1>2, <1>3, <2>1, <2>2, <2>3, <2>6, <2>7, <2>8 DEF GraveInv
<1> QED
  BY <1>3, <1>8, <1>11, <1>12, <1>13, <1>14 DEF OutcomeInv

-----------------------------------------------------------------------------
(* The commit of one job.                                                     *)

\* A sampled deadline never absorbs what outranks it.
LEMMA TimedOutTransition ==
  ASSUME NEW d, NEW s, ConditionForTransition(d, s) = "timeout", d # "timeout"
  PROVE  d = "provider_timeout" \/ ~RetainsAuthority(d, "timeout")
<1>1. CASE s = "timeout"
  BY <1>1 DEF ConditionForTransition
<1>2. CASE s = "cancelled"
  <2>1. ConditionForTransition(d, s) = Reduce(d, "cancelled")
    BY <1>2 DEF ConditionForTransition
  <2> QED
    BY <2>1, ReduceType
<1>3. CASE s \notin {"cancelled", "timeout"}
  <2>1. ConditionForTransition(d, s) = d
    BY <1>3, Zenon DEF ConditionForTransition
  <2> QED
    BY <2>1
<1> QED
  BY <1>1, <1>2, <1>3

\* A trailer that is absorbed only by a sampled timeout was cancelled.
LEMMA AbsorbedByTimeout ==
  ASSUME NEW d \in AttemptConditions, ~ExtractionIsBounded("extract", d), NEW s, NEW c,
         c = ConditionForTransition(d, s), ExtractionIsBounded("extract", c)
  PROVE  d = "cancelled"
<1>1. c \in {d, "cancelled", "timeout"}
  BY ConditionForTransitionType
<1>2. c # "cancelled"
  BY StoppingNotBounded DEF ConditionStopsRun
<1>3. c = "timeout" /\ d # "timeout" /\ d # "provider_timeout"
  BY <1>1, <1>2, UnboundedTrailer DEF TimeoutRows
<1>4. ~RetainsAuthority(d, "timeout")
  BY <1>3, TimedOutTransition
<1>5. d \notin GraveConditions \cup {"configuration_violation"}
  BY <1>4 DEF RetainsAuthority, GraveConditions
<1>6. d \in RunRows \cup SecurityRows
  BY UnboundedTrailer DEF AttemptConditions, ValidRows
<1> QED
  BY <1>5, <1>6 DEF RunRows, GraveConditions

\* What is not absorbed and does not stop the run is a configuration failure.
LEMMA ProtectedNotStopping ==
  ASSUME NEW d \in AttemptConditions, ~ExtractionIsBounded("extract", d), ~ConditionStopsRun(d)
  PROVE  d = "configuration_violation"
<1>1. d \in RunRows \cup SecurityRows
  BY UnboundedTrailer DEF AttemptConditions, ValidRows
<1> QED
  BY <1>1 DEF RunRows, ConditionStopsRun

LEMMA AbsorbedClass ==
  ASSUME NEW d, ExtractionIsBounded("extract", d)
  PROVE  TerminalClass(d) \notin ProtectedClasses /\ d # "cancelled"
<1>1. FailurePrecedence(TerminalClass(d)) <= 2
  BY DEF ExtractionIsBounded, BoundedFailureCeiling
<1>2. TerminalClass(d) \notin ProtectedClasses
  BY <1>1 DEF FailurePrecedence, ProtectedClasses
<1> QED
  BY <1>2, StoppingNotBounded DEF ConditionStopsRun

\* What the end of a role's attempt makes of an accepted report, by where it is committed.
LEMMA TrailerCommitted ==
  ASSUME Inductive, NEW r \in Roles, NEW c, NEW suppress, NEW to, CommitStep(r, c, suppress, to),
         attempt[r].purpose = "extract"
  PROVE  /\ ExtractionIsBounded("extract", c) =>
              /\ TerminalClass(result[r].condition) \notin ProtectedClasses
              /\ result[r].condition = "cancelled" => to = "commitStopped"
         /\ ~ExtractionIsBounded("extract", c) =>
              to = "commitStopped" \/ result[r].condition = "configuration_violation"
<1>1. PICK d : d = result[r].condition
  OBVIOUS
<1>2. d \in AttemptConditions
  <2>1. d \in Conditions /\ d # NoCondition
    BY <1>1 DEF CommitStep, Inductive, TypeInv, TypeOK, WorkersType, StopInv
  <2> QED
    BY <2>1 DEF Conditions
<1>3. Bounded(r) <=> ExtractionIsBounded("extract", d)
  BY <1>1 DEF Bounded, LatestPurpose
<1>4. pc = "commitJob" => ~ConditionStopsRun(d)
  BY <1>1 DEF CommitStep, Inductive, OutcomeInv, StoppedInv, Committing, CommitLoops, StoppingPCs
<1>5. CASE Bounded(r)
  <2>1. c = d
    BY <1>1, <1>5 DEF CommitStep
  <2> QED
    BY <1>1, <1>3, <1>5, <2>1, AbsorbedClass
<1>6. CASE ~Bounded(r)
  <2>1. c = ConditionForTransition(d, cancelCondition)
        /\ \/ pc = "commitStoppedJob" /\ to = "commitStopped"
           \/ pc = "commitJob" /\ to = "commitRest"
    BY <1>1, <1>6 DEF CommitStep
  <2>2. ExtractionIsBounded("extract", c) => d = "cancelled"
    BY <1>2, <1>3, <1>6, <2>1, AbsorbedByTimeout
  <2>3. TerminalClass("cancelled") \notin ProtectedClasses /\ ConditionStopsRun("cancelled")
    BY DEF TerminalClass, ProtectedClasses, ConditionStopsRun, ValidRows, RepairRows, ClosedOutputRows, RetryRows,
           TimeoutRows, AuthRows, SecurityRows
  <2>4. pc = "commitJob" => d = "configuration_violation"
    BY <1>2, <1>3, <1>4, <1>6, ProtectedNotStopping
  <2> QED
    BY <1>1, <1>4, <2>1, <2>2, <2>3, <2>4
<1> QED
  BY <1>5, <1>6

\* A commit touches one role of the wave and leaves the jobs alone.
LEMMA CommitStepFrame ==
  ASSUME Inductive, NEW r \in Roles, NEW c, NEW suppress, NEW to, CommitStep(r, c, suppress, to)
  PROVE  /\ \A q \in Roles \ {r} : SameRole(q)
         /\ \A q \in Roles : Grave(q)' <=> Grave(q)
         /\ UNCHANGED <<runState, refusedRole, job, result, wave, dispatched, stopCondition, runStarted,
                        workersCloseAuthorized, runTerminalRecorded, dispatchEvents, workErr>>
         /\ \/ pc' = to /\ todo' = todo \ {r} /\ UNCHANGED <<failed, faults>>
            \/ pc' = "abort" /\ failed' /\ faults' = faults + 1
<1>t. /\ roleState \in [Roles -> RoleStates] /\ attempt \in [Roles -> AttemptType]
      /\ commitEvents \in [Roles -> Nat]
  BY DEF Inductive, TypeInv, TypeOK, DomainType, TraceType
<1>1. UNCHANGED <<job, result, wave, dispatched, stopCondition, runStarted, workersCloseAuthorized,
                  runTerminalRecorded, dispatchEvents, workErr>>
  BY DEF CommitStep, stop, workers, context
<1>2. CASE CommitFailed
  BY <1>1, <1>2 DEF CommitFailed, Fails, SameRole, Grave, domain
<1>3. CASE CommitFollowed(r, suppress, to)
  BY <1>1, <1>3, <1>t DEF CommitFollowed, Goes, Fails, SameRole, Grave
<1>4. CASE CommitEnded(r, c, to)
  <2>1. PICK a \in AttemptType, p \in {"succeeded", "failed", "cancelled"} :
          /\ attempt' = [attempt EXCEPT ![r] = a]
          /\ roleState' = [roleState EXCEPT ![r] = p]
    BY <1>4 DEF CommitEnded
  <2>2. /\ \A q \in Roles \ {r} : output'[q] = output[q]
        /\ commitEvents' = [commitEvents EXCEPT ![r] = @ + 1]
        /\ UNCHANGED <<runState, refusedRole, next>>
        /\ \/ pc' = to /\ todo' = todo \ {r} /\ UNCHANGED <<failed, faults>>
           \/ pc' = "abort" /\ failed' /\ faults' = faults + 1
    BY <1>4 DEF CommitEnded, Goes, Fails
  <2> QED
    BY <1>1, <1>t, <2>1, <2>2 DEF SameRole, Grave
<1> QED
  BY <1>2, <1>3, <1>4 DEF CommitStep

\* The role whose job is committed waits for a follow-up or has ended.
LEMMA CommitStepRole ==
  ASSUME Inductive, NEW r \in Roles, NEW c, NEW suppress, NEW to, CommitStep(r, c, suppress, to), ~failed'
  PROVE  /\ RoleOK(r)' /\ EventsOK(r)'
         /\ \/ /\ Waits(r)' /\ ~Ended(r)' /\ ~suppress /\ next' = next \cup {r} /\ terminalRoles' = terminalRoles
            \/ /\ Ended(r)' /\ next' = next /\ terminalRoles' = terminalRoles \cup {r}
               /\ LatestPurpose(attempt[r])' = LatestPurpose(attempt[r])
               /\ attempt'[r].purpose = attempt[r].purpose
               /\ attempt[r].purpose = "extract" =>
                    (roleState'[r] = "succeeded" <=> ExtractionIsBounded("extract", c))
<1>t. /\ roleState \in [Roles -> RoleStates] /\ attempt \in [Roles -> AttemptType]
      /\ commitEvents \in [Roles -> Nat] /\ dispatchEvents \in [Roles -> Nat]
  BY DEF Inductive, TypeInv, TypeOK, DomainType, TraceType
<1>1. /\ Flies(r) /\ ~failed /\ dispatchEvents' = dispatchEvents
      /\ dispatchEvents[r] = commitEvents[r] + 1 /\ commitEvents[r] = Invocations(attempt[r]) - 1
  BY DEF CommitStep, Inductive, OutcomeInv, EventsOK
<1>2. roleState[r] = "primary_running"
  BY <1>1 DEF Flies
<1>3. CASE CommitFailed
  BY <1>3 DEF CommitFailed, Fails
<1>4. CASE CommitFollowed(r, suppress, to)
  <2>1. PICK a \in AttemptType : /\ InPhase(a, "queued") /\ a.purpose # "none"
                                 /\ attempt' = [attempt EXCEPT ![r] = a]
    BY <1>4 DEF CommitFollowed
  <2>2. /\ ~suppress /\ attempt[r].purpose = "none"
        /\ commitEvents' = [commitEvents EXCEPT ![r] = @ + 1]
        /\ roleState' = roleState /\ terminalRoles' = terminalRoles /\ next' = next \cup {r}
    BY <1>4 DEF CommitFollowed, Fails
  <2>3. attempt'[r] = a /\ commitEvents'[r] = commitEvents[r] + 1 /\ roleState'[r] = "primary_running"
    BY <1>2, <1>t, <2>1, <2>2
  <2>4. Waits(r)' /\ ~Ended(r)' /\ ~Flies(r)'
    BY <2>1, <2>3 DEF Waits, Ended, TerminalRole, Flies, InPhase
  <2>5. RoleOK(r)'
    BY <2>3, <2>4 DEF RoleOK
  <2>6. EventsOK(r)'
    BY <1>1, <1>t, <2>1, <2>2, <2>3, <2>4 DEF EventsOK, Invocations
  <2> QED
    BY <2>2, <2>4, <2>5, <2>6
<1>5. CASE CommitEnded(r, c, to)
  <2>1. PICK a \in AttemptType, p \in {"succeeded", "failed", "cancelled"} :
          /\ a.ok /\ a.purpose = attempt[r].purpose
          /\ attempt' = [attempt EXCEPT ![r] = a]
          /\ roleState' = [roleState EXCEPT ![r] = p]
          /\ p = "succeeded" => a.state = "succeeded" /\ output'[r] # "none"
          /\ a.purpose = "extract" => (p = "succeeded" <=> ExtractionIsBounded("extract", c))
    BY <1>5 DEF CommitEnded
  <2>2. /\ commitEvents' = [commitEvents EXCEPT ![r] = @ + 1]
        /\ terminalRoles' = terminalRoles \cup {r} /\ next' = next
    BY <1>5 DEF CommitEnded, Fails
  <2>3. attempt'[r] = a /\ commitEvents'[r] = commitEvents[r] + 1 /\ roleState'[r] = p
    BY <1>t, <2>1, <2>2
  <2>4. Ended(r)' /\ ~Waits(r)' /\ ~Flies(r)'
    BY <2>3 DEF Ended, TerminalRole, Waits, Flies
  <2>5. RoleOK(r)'
    BY <2>1, <2>3, <2>4 DEF RoleOK
  <2>6. EventsOK(r)'
    BY <1>1, <1>t, <2>1, <2>3, <2>4 DEF EventsOK, Invocations
  <2> QED
    BY <2>1, <2>2, <2>3, <2>4, <2>5, <2>6 DEF LatestPurpose
<1> QED
  BY <1>3, <1>4, <1>5 DEF CommitStep

\* ... and if its event could not be recorded, its role is as good as before.
LEMMA CommitStepFailed ==
  ASSUME Inductive, NEW r \in Roles, NEW c, NEW suppress, NEW to, CommitStep(r, c, suppress, to), failed'
  PROVE  /\ RoleOK(r)' /\ terminalRoles' = terminalRoles
         /\ Ended(r)' => /\ attempt'[r].purpose = attempt[r].purpose
                         /\ attempt[r].purpose = "extract" =>
                              (roleState'[r] = "succeeded" <=> ExtractionIsBounded("extract", c))
<1>t. roleState \in [Roles -> RoleStates] /\ attempt \in [Roles -> AttemptType]
  BY DEF Inductive, TypeInv, TypeOK, DomainType
<1>1. Flies(r) /\ ~failed /\ RoleOK(r) /\ roleState[r] = "primary_running"
  BY DEF CommitStep, Inductive, OutcomeInv, Flies
<1>2. CASE CommitFailed
  BY <1>1, <1>2 DEF CommitFailed, RoleOK, Waits, Flies, Ended, TerminalRole, domain
<1>3. CASE CommitFollowed(r, suppress, to)
  <2>1. PICK a \in AttemptType : InPhase(a, "queued") /\ attempt' = [attempt EXCEPT ![r] = a]
    BY <1>3 DEF CommitFollowed
  <2>2. attempt'[r] = a /\ roleState'[r] = "primary_running" /\ terminalRoles' = terminalRoles
    BY <1>1, <1>3, <1>t, <2>1 DEF CommitFollowed
  <2> QED
    BY <2>1, <2>2 DEF RoleOK, Waits, Ended, TerminalRole
<1>4. CASE CommitEnded(r, c, to)
  <2>1. PICK a \in AttemptType, p \in {"succeeded", "failed", "cancelled"} :
          /\ a.ok /\ a.purpose = attempt[r].purpose
          /\ attempt' = [attempt EXCEPT ![r] = a]
          /\ roleState' = [roleState EXCEPT ![r] = p]
          /\ p = "succeeded" => a.state = "succeeded" /\ output'[r] # "none"
          /\ a.purpose = "extract" => (p = "succeeded" <=> ExtractionIsBounded("extract", c))
    BY <1>4 DEF CommitEnded
  <2>2. attempt'[r] = a /\ roleState'[r] = p
    BY <1>t, <2>1
  <2>3. terminalRoles' = terminalRoles
    BY <1>1, <1>4 DEF CommitEnded, Goes
  <2> QED
    BY <2>1, <2>2, <2>3 DEF RoleOK, Ended, TerminalRole
<1> QED
  BY <1>2, <1>3, <1>4 DEF CommitStep

LEMMA OutcomeCommit ==
  ASSUME Inductive, CommitTrailer \/ CommitJob
  PROVE  OutcomeInv'
<1>1. PICK r \in Roles, c \in Conditions, suppress \in BOOLEAN, to \in CommitLoops :
        CommitStep(r, c, suppress, to)
  BY CommitStepFacts
<1>2. /\ pc \in Committing /\ ~failed /\ r \in todo /\ r \in dispatched /\ Flies(r) /\ job[r] = "collected"
  BY <1>1 DEF CommitStep, Committing, CommitLoops
<1>3. faults = 0 /\ WaveInv /\ stopCondition = NoCondition /\ ~Ended(r) /\ runState = "running"
      /\ ~AllRolesTerminal
  <2>1. ~Ended(r)
    BY <1>2 DEF Flies, Ended, TerminalRole
  <2> QED
    BY <1>2, <2>1, LiveNotStopped, Running
    DEF Inductive, OutcomeInv, FlowInv, WaveInv, WavePCs, Committing, CommitLoops
<1>4. /\ \A q \in Roles \ {r} : SameRole(q)
      /\ \A q \in Roles : Grave(q)' <=> Grave(q)
      /\ UNCHANGED <<runState, refusedRole, job, result, wave, dispatched, stopCondition, runStarted,
                     workersCloseAuthorized, runTerminalRecorded, dispatchEvents, workErr>>
      /\ \/ pc' = to /\ todo' = todo \ {r} /\ UNCHANGED <<failed, faults>>
         \/ pc' = "abort" /\ failed' /\ faults' = faults + 1
  BY <1>1, CommitStepFrame
<1>5. \A q \in Roles \ {r} : /\ Waits(q)' <=> Waits(q)
                             /\ Flies(q)' <=> Flies(q)
                             /\ Ended(q)' <=> Ended(q)
                             /\ RoleOK(q)' /\ EventsOK(q)'
  BY <1>2, <1>4, RoleKept DEF Inductive, OutcomeInv
<1>6. RoleOK(r)' /\ (~failed' => EventsOK(r)')
  BY <1>1, CommitStepRole, CommitStepFailed
<1>t. terminalRoles \subseteq Roles /\ todo \subseteq dispatched /\ dispatched \subseteq Roles
      /\ next \subseteq Roles /\ wave \subseteq Roles
      /\ \A q \in dispatched : job[q] = "collected"
  BY <1>2 DEF Inductive, TypeInv, TypeOK, TraceType, ControlType, StopInv
<1>7. FlowInv'
  BY <1>2, <1>3, <1>4 DEF Inductive, OutcomeInv, FlowInv, AbortPCs, Cancelling, TerminalRun, Committing, CommitLoops
<1>8. TraceInv'
  <2>1. r \notin terminalRoles /\ ~workersCloseAuthorized /\ ~runTerminalRecorded /\ runStarted
        /\ (\A q \in terminalRoles : Ended(q)) /\ \A q \in Roles : Ended(q) => q \in terminalRoles
    BY <1>2, <1>3 DEF Inductive, OutcomeInv, TraceInv, Committing, CommitLoops
  <2>2. CASE failed'
    <3>1. terminalRoles' = terminalRoles
      BY <1>1, <2>2, CommitStepFailed
    <3> QED
      BY <1>4, <1>5, <1>t, <2>1, <2>2, <3>1 DEF TraceInv
  <2>3. CASE ~failed'
    <3>1. \/ ~Ended(r)' /\ terminalRoles' = terminalRoles
          \/ Ended(r)' /\ terminalRoles' = terminalRoles \cup {r}
      BY <1>1, <2>3, CommitStepRole
    <3>2. pc' \notin {"admit", "recordStart", "close", "join", "finish", "terminal", "done"}
      BY <1>4 DEF CommitLoops
    <3> QED
      BY <1>4, <1>5, <1>t, <2>1, <2>3, <3>1, <3>2 DEF TraceInv
  <2> QED
    BY <2>2, <2>3
<1>9. ResultInv'
  BY <1>4 DEF Inductive, OutcomeInv, ResultInv
<1>10. NoFaultInv'
  BY <1>2, <1>3, <1>4 DEF Inductive, OutcomeInv, NoFaultInv
\* The reduction of a wave that stops does not change while it is committed.
<1>11. ~failed' /\ suppress => WaveCondition' = WaveCondition /\ \A q \in Roles : Bounded(q)' <=> Bounded(q)
  <2> SUFFICES ASSUME ~failed', suppress PROVE WaveCondition' = WaveCondition /\ \A q \in Roles : Bounded(q)' <=> Bounded(q)
    OBVIOUS
  <2>1. LatestPurpose(attempt'[r]) = LatestPurpose(attempt[r])
    BY <1>1, CommitStepRole
  <2>2. \A q \in Roles \ {r} : attempt'[q] = attempt[q]
    BY <1>4 DEF SameRole
  <2>3. \A q \in Roles : Bounded(q)' <=> Bounded(q)
    BY <1>4, <2>1, <2>2 DEF Bounded
  <2>4. {q \in dispatched : ~Bounded(q)} = {q \in dispatched' : ~Bounded(q)'}
    BY <1>4, <1>t, <2>3
  <2>5. PICK J : J = {q \in dispatched : ~Bounded(q)}
    OBVIOUS
  <2>6. WaveCondition = IF J = {} THEN "valid_review"
                        ELSE ReduceOver(J, [q \in J |-> result[q].condition])
    BY <2>5 DEF WaveCondition
  <2>7. WaveCondition' = IF J = {} THEN "valid_review"
                         ELSE ReduceOver(J, [q \in J |-> result[q].condition])
    BY <1>4, <2>4, <2>5 DEF WaveCondition
  <2> QED
    BY <2>3, <2>6, <2>7
<1>12. /\ pc = "commitTrailers" => to = "commitTrailers" /\ suppress /\ Bounded(r)
       /\ pc \in StoppingPCs => to = "commitStopped" /\ suppress
       /\ pc = "commitJob" => to = "commitRest"
       /\ pc \in {"commitTrailers", "commitStopped", "commitStoppedJob", "commitJob"}
  BY <1>1 DEF CommitStep, StoppingPCs
<1>13. StoppedInv'
  <2>1. pc' \in StoppingPCs /\ ~failed' => ConditionStopsRun(WaveCondition)'
    <3>1. pc' \in StoppingPCs /\ ~failed' => pc \in StoppingPCs /\ WaveCondition' = WaveCondition
      BY <1>4, <1>11, <1>12 DEF StoppingPCs
    <3> QED
      BY <1>2, <3>1 DEF Inductive, OutcomeInv, StoppedInv
  <2>2. pc' \in Committing \ StoppingPCs /\ ~failed' =>
          \A q \in dispatched : ~ConditionStopsRun(result[q].condition)
    BY <1>2, <1>4, <1>12 DEF Inductive, OutcomeInv, StoppedInv, StoppingPCs, Committing, CommitLoops
  <2>3. pc' \notin Cancelling
    BY <1>4 DEF Cancelling, CommitLoops
  <2> QED
    BY <1>2, <1>3, <1>4, <2>1, <2>2, <2>3 DEF StoppedInv, Cancelling, Inductive, OutcomeInv
<1>14. TrailerInv'
  <2>1. \A q \in Roles \ {r} : attempt'[q] = attempt[q] /\ roleState'[q] = roleState[q]
    BY <1>4 DEF SameRole
  <2>2. /\ pc \in StoppingPCs /\ ~failed' => pc' \in StoppingPCs
        /\ to = "commitStopped" /\ ~failed' => pc' \in StoppingPCs
        /\ pc # "cancelAll"
    BY <1>2, <1>4, <1>12 DEF StoppingPCs, Committing, CommitLoops
  <2>3. attempt'[r].purpose = "extract" /\ Ended(r)' =>
          /\ attempt[r].purpose = "extract"
          /\ roleState'[r] = "succeeded" <=> ExtractionIsBounded("extract", c)
    BY <1>1, CommitStepRole, CommitStepFailed
  <2>4. attempt[r].purpose = "extract" =>
          /\ ExtractionIsBounded("extract", c) =>
               /\ TerminalClass(result[r].condition) \notin ProtectedClasses
               /\ result[r].condition = "cancelled" => to = "commitStopped"
          /\ ~ExtractionIsBounded("extract", c) =>
               to = "commitStopped" \/ result[r].condition = "configuration_violation"
    BY <1>1, TrailerCommitted
  <2>5. \A q \in Roles \ {r} : attempt'[q].purpose = "extract" /\ Ended(q)' =>
          /\ roleState'[q] = "succeeded" =>
               /\ job[q] = "collected" /\ TerminalClass(result[q].condition) \notin ProtectedClasses
               /\ ~failed' /\ result[q].condition = "cancelled" => pc' \in StoppingPCs
          /\ ~failed' /\ roleState'[q] # "succeeded" =>
               \/ pc' \in StoppingPCs
               \/ job[q] = "collected" /\ result[q].condition = "configuration_violation"
    BY <1>2, <1>3, <1>5, <2>1, <2>2 DEF Inductive, OutcomeInv, TrailerInv
  <2> QED
    BY <1>2, <1>4, <2>2, <2>3, <2>4, <2>5 DEF TrailerInv
<1>15. ~failed' => WaveInv'
  <2> SUFFICES ASSUME ~failed' PROVE WaveInv'
    OBVIOUS
  <2>1. pc' = to /\ todo' = todo \ {r}
    BY <1>4
  <2>2. Flying = todo \cup (IF pc = "commitTrailers" THEN {q \in dispatched : ~Bounded(q)} ELSE {})
        /\ Waiting = (wave \ dispatched) \cup next
    BY <1>2 DEF Flying, Waiting, WavePCs, Committing, CommitLoops
  <2>3. Flying' = Flying \ {r}
    <3>1. CASE pc = "commitTrailers"
      BY <1>4, <1>11, <1>12, <1>t, <2>1, <2>2, <3>1 DEF Flying
    <3>2. CASE pc # "commitTrailers"
      <4>1. pc' \in {"commitStopped", "commitRest"}
        BY <1>12, <2>1, <3>2 DEF StoppingPCs
      <4> QED
        BY <2>1, <2>2, <3>2, <4>1 DEF Flying, Committing, CommitLoops
    <3> QED
      BY <3>1, <3>2
  <2>4. Waiting' = (wave \ dispatched) \cup next'
    BY <1>4, <2>1 DEF Waiting, WavePCs, Committing, CommitLoops
  <2>5. \/ Waits(r)' /\ ~suppress /\ next' = next \cup {r}
        \/ Ended(r)' /\ next' = next
    BY <1>1, CommitStepRole
  <2>6. (\A q \in Waiting : Waits(q)) /\ (\A q \in Flying : Flies(q))
        /\ (\A q \in Roles \ (Waiting \cup Flying) : Ended(q)) /\ r \in Flying
    BY <1>2, <1>3, <2>2 DEF WaveInv, Committing, CommitLoops, Cancelling
  <2>7. r \notin Waiting
    BY <1>2, <2>6 DEF Waits, Flies, InPhase
  <2>8. /\ \A q \in Waiting' : Waits(q)'
        /\ \A q \in Flying' : Flies(q)'
        /\ \A q \in Roles \ (Waiting' \cup Flying') : Ended(q)'
    BY <1>5, <1>t, <2>2, <2>3, <2>4, <2>5, <2>6, <2>7, WavesAreRoles DEF Inductive
  <2>9. \A q \in Roles : roleState'[q] \notin {"pending", "primary_queued"}
    <3>1. \A q \in Roles : roleState[q] \notin {"pending", "primary_queued"}
      BY <1>2, <1>3 DEF WaveInv, Committing, CommitLoops
    <3>2. roleState'[r] \notin {"pending", "primary_queued"}
      BY <2>5 DEF Waits, Ended, TerminalRole
    <3> QED
      BY <1>4, <3>1, <3>2 DEF SameRole
  <2>10. pc' = "commitTrailers" => \A q \in todo' : Bounded(q)'
    <3>1. pc' = "commitTrailers" => pc = "commitTrailers"
      BY <1>12, <2>1 DEF StoppingPCs
    <3> QED
      BY <1>3, <1>11, <1>12, <1>t, <2>1, <3>1 DEF WaveInv
  <2>11. pc' = "commitRest" => \A q \in todo' : ~Bounded(q)'
    <3>1. pc' = "commitRest" => pc = "commitJob"
      BY <1>12, <2>1 DEF StoppingPCs
    <3>2. \A q \in todo' : attempt'[q] = attempt[q] /\ result'[q] = result[q]
      BY <1>4, <1>t, <2>1 DEF SameRole
    <3>3. \A q \in todo' : Bounded(q)' <=> Bounded(q)
      BY <3>2 DEF Bounded
    <3> QED
      BY <1>3, <2>1, <3>1, <3>3 DEF WaveInv
  <2>12. pc' \in {"commitTrailers", "commitStopped"} => next' = {}
    BY <1>3, <1>12, <2>1, <2>5 DEF WaveInv, StoppingPCs
  <2> QED
    BY <1>2, <1>3, <1>4, <2>1, <2>8, <2>9, <2>10, <2>11, <2>12
    DEF WaveInv, WavePCs, StoppingPCs, Committing, CommitLoops, Cancelling
<1>16. ~failed' => GraveInv'
  <2>1. pc \in StoppingPCs /\ ~failed' => pc' \in StoppingPCs
    BY <1>4, <1>12 DEF StoppingPCs
  <2>2. pc' \notin {"cancelAll", "terminal", "done", "collect"}
    BY <1>4 DEF CommitLoops
  <2>3. NoCondition \notin GraveConditions /\ pc \notin {"collect", "cancelAll"}
    BY <1>2 DEF NoCondition, GraveConditions, SecurityRows, Committing, CommitLoops
  <2> QED
    BY <1>2, <1>3, <1>4, <2>1, <2>2, <2>3 DEF Inductive, OutcomeInv, GraveInv
<1> QED
  BY <1>5, <1>6, <1>7, <1>8, <1>9, <1>10, <1>13, <1>14, <1>15, <1>16 DEF OutcomeInv

-----------------------------------------------------------------------------
(* cancelAll(): the stop is recorded and every live role ends.                *)

\* In cancelAll() an error without a fault has not happened yet.
LEMMA CancelFacts ==
  ASSUME Inductive, pc \in Cancelling
  PROVE  /\ runState = "running" /\ (failed <=> ret = "abortAuthorize") /\ (failed => faults # 0)
         /\ ~failed => faults = 0 /\ WaveInv /\ GraveInv
         /\ ret \in {"abort", "afterLoop", "afterCommit", "nextWave", "checkRoles", "linearize",
                     "authorize", "abortAuthorize"}
<1>1. pc \notin AbortPCs \cup {"rejected", "done"}
  BY DEF Cancelling, AbortPCs
<1>2. runState = "running"
  BY Running
<1>3. (failed <=> ret = "abortAuthorize") /\ (failed => faults # 0)
  BY <1>1 DEF Inductive, OutcomeInv, FlowInv, NoFaultInv
<1>4. ~failed => faults = 0 /\ WaveInv /\ GraveInv
  BY DEF Inductive, OutcomeInv, FlowInv
<1> QED
  BY <1>2, <1>3, <1>4 DEF Inductive, TypeInv, TypeOK, ControlType, ControlInv, Cancelling

LEMMA OutcomeCancelAll ==
  ASSUME Inductive, CancelAll
  PROVE  OutcomeInv'
<1> USE DEF Goes, domain, trace, workers
<1>1. pc = "cancelAll" /\ pc \in Cancelling
  BY DEF CancelAll, Cancelling
<1>2. /\ runState = "running" /\ (failed <=> ret = "abortAuthorize") /\ (failed => faults # 0)
      /\ ~failed => faults = 0 /\ WaveInv /\ GraveInv
  BY <1>1, CancelFacts
<1>3. PICK e : e = IF stopCondition = NoCondition THEN cancelCondition
                   ELSE Reduce(stopCondition, cancelCondition)
  OBVIOUS
<1>4. /\ stopCondition' = e
      /\ UNCHANGED <<roleState, attempt, output, dispatchEvents, commitEvents, job, result, runState, refusedRole,
                     terminalRoles, runStarted, workersCloseAuthorized, runTerminalRecorded, ret>>
  BY <1>3 DEF CancelAll
<1>5. PICK ok \in BOOLEAN : /\ RequestDispatchStop(e, ok)
                            /\ IF ok THEN Goes("cancelSample") ELSE pc' = AfterCancelError /\ failed' = TRUE
  BY <1>3 DEF CancelAll
<1>6. \/ pc' = "cancelSample" /\ failed' = failed /\ (~failed => faults' = faults)
      \/ failed' /\ pc' = (IF ret = "abortAuthorize" THEN "abortAuthorize" ELSE "abort")
         /\ (~failed => faults' = faults + 1)
  <2>1. ~failed => Recordable("cancellation_requested")
    BY <1>1, Accepts
  <2>2. ~failed => (ok /\ faults' = faults) \/ (~ok /\ faults' = faults + 1)
    BY <1>5, <2>1, AcceptedIsRecorded DEF RequestDispatchStop
  <2> QED
    BY <1>5, <2>2 DEF AfterCancelError
<1>7. failed => faults' # 0
  <2>1. faults' = faults \/ faults' = faults + 1
    BY <1>5 DEF RequestDispatchStop, Recorded
  <2> QED
    BY <1>2, <2>1 DEF Inductive, TypeInv, TypeOK, FaultType
<1>8. ResultInv' /\ (AllRolesTerminal' <=> AllRolesTerminal) /\
      \A r \in Roles : /\ Ended(r)' <=> Ended(r)
                       /\ Grave(r)' <=> Grave(r)
                       /\ RoleOK(r)'
                       /\ (~failed => EventsOK(r)')
  BY <1>4, Quiet
<1>9. cancelCondition # NoCondition /\ cancelCondition # "valid_review" /\ stopCondition # "valid_review"
  BY <1>1 DEF Inductive, StopInv, OutcomeInv, StoppedInv
<1>10. e # NoCondition /\ e # "valid_review"
  BY <1>3, <1>9, ReduceType
<1>11. FlowInv'
  BY <1>1, <1>2, <1>4, <1>6, <1>7, <1>8 DEF Inductive, OutcomeInv, FlowInv, AbortPCs, Cancelling, TerminalRun
<1>12. TraceInv'
  BY <1>1, <1>4, <1>6, <1>8 DEF Inductive, OutcomeInv, TraceInv, TypeInv, TypeOK, TraceType
<1>13. StoppedInv'
  BY <1>4, <1>6, <1>10 DEF StoppedInv, StoppingPCs, Committing, CommitLoops
<1>14. TrailerInv'
  BY <1>4, <1>6, <1>8, <1>10 DEF Inductive, OutcomeInv, TrailerInv
<1>15. NoFaultInv'
  BY <1>2, <1>4, <1>6, <1>7, <1>8 DEF Inductive, OutcomeInv, NoFaultInv
<1>16. ~failed' => WaveInv'
  BY <1>1, <1>2, <1>4, <1>6, <1>8 DEF WaveInv, WavePCs, StoppingPCs, Committing, CommitLoops, Cancelling
<1>17. ~failed' => GraveInv'
  <2> SUFFICES ASSUME ~failed' PROVE GraveInv'
    OBVIOUS
  <2>1. ~failed /\ pc' = "cancelSample" /\ GraveInv
    BY <1>2, <1>6
  <2>2. \A r \in Roles : Grave(r) => Precedence(e) <= Precedence(result[r].condition)
    <3>1. CASE stopCondition = NoCondition
      BY <1>1, <1>3, <2>1, <3>1 DEF GraveInv
    <3>2. CASE stopCondition # NoCondition
      <4>1. Precedence(e) <= Precedence(stopCondition)
        BY <1>3, <3>2, ReducePrecedence
      <4>2. \A r \in Roles : Grave(r) => Precedence(stopCondition) <= Precedence(result[r].condition)
        BY <2>1, <3>2 DEF GraveInv
      <4>3. \A c : Precedence(c) \in Nat
        BY PrecedenceType
      <4> QED
        BY <4>1, <4>2, <4>3
    <3> QED
      BY <3>1, <3>2
  <2>3. e \in GraveConditions => \E r \in Roles : Grave(r) /\ result[r].condition = e
    <3>1. e \in {stopCondition, cancelCondition}
      BY <1>3, ReduceType
    <3> QED
      BY <1>1, <2>1, <3>1 DEF GraveInv
  <2> QED
    BY <1>4, <1>8, <1>10, <2>1, <2>2, <2>3 DEF GraveInv, StoppingPCs
<1> QED
  BY <1>6, <1>8, <1>11, <1>12, <1>13, <1>14, <1>15, <1>16, <1>17 DEF OutcomeInv

\* The sample of the contexts and the return of cancelAll().
LEMMA OutcomeCancelEnds ==
  ASSUME Inductive, CancelSample \/ CancelReturn
  PROVE  OutcomeInv'
<1> USE DEF Goes, domain, trace, stop, workers, context
<1>1. pc \in {"cancelSample", "cancelRoles"} /\ pc \in Cancelling
  BY DEF CancelSample, CancelReturn, Cancelling
<1>2. /\ runState = "running" /\ (failed <=> ret = "abortAuthorize") /\ (failed => faults # 0)
      /\ ~failed => faults = 0 /\ WaveInv /\ GraveInv
      /\ ret \in {"abort", "afterLoop", "afterCommit", "nextWave", "checkRoles", "linearize",
                  "authorize", "abortAuthorize"}
  BY <1>1, CancelFacts
<1>3. ~failed => stopCondition # NoCondition
  BY <1>1 DEF Inductive, OutcomeInv, StoppedInv
<1>4. UNCHANGED <<roleState, attempt, output, dispatchEvents, commitEvents, job, result, runState, refusedRole,
                  terminalRoles, runStarted, workersCloseAuthorized, runTerminalRecorded, stopCondition, faults,
                  workErr, dispatched, wave>>
  BY DEF CancelSample, CancelReturn
<1>5. ResultInv' /\ (AllRolesTerminal' <=> AllRolesTerminal) /\
      \A r \in Roles : /\ Ended(r)' <=> Ended(r)
                       /\ Grave(r)' <=> Grave(r)
                       /\ RoleOK(r)'
                       /\ (~failed => EventsOK(r)')
  BY <1>4, Quiet
<1>6. \/ /\ pc = "cancelSample" /\ pc' = "cancelRoles" /\ todo' = {r \in Roles : ~Ended(r)} /\ failed' = failed
         /\ ret' = ret
         /\ cancelCondition' \in {"cancelled", "timeout"} /\ (cancelCondition' = "timeout" => workErr = "deadline")
      \/ /\ pc = "cancelRoles" /\ pc' = ret /\ (failed' <=> failed \/ ret = "abort") /\ AllRolesTerminal
  <2>1. CASE CancelSample
    BY <2>1 DEF CancelSample, Ended, ContextCondition
  <2>2. CASE CancelReturn
    <3>1. pc = "cancelRoles" /\ todo = {}
      BY <2>2 DEF CancelReturn
    <3>2. AllRolesTerminal
      BY <3>1, AllEnded DEF Inductive, OutcomeInv, StoppedInv
    <3> QED
      BY <2>2, <3>1, <3>2 DEF CancelReturn
  <2> QED
    BY <2>1, <2>2
<1>7. FlowInv'
  BY <1>1, <1>2, <1>4, <1>5, <1>6 DEF Inductive, OutcomeInv, FlowInv, AbortPCs, Cancelling, TerminalRun
<1>8. TraceInv'
  BY <1>1, <1>2, <1>4, <1>5, <1>6 DEF Inductive, OutcomeInv, TraceInv, TypeInv, TypeOK, TraceType
<1>9. StoppedInv'
  BY <1>2, <1>3, <1>4, <1>5, <1>6 DEF Inductive, OutcomeInv, StoppedInv, StoppingPCs, Committing, CommitLoops
<1>10. TrailerInv'
  BY <1>2, <1>3, <1>4, <1>5, <1>6 DEF Inductive, OutcomeInv, TrailerInv
<1>11. NoFaultInv'
  BY <1>2, <1>3, <1>4, <1>5, <1>6 DEF Inductive, OutcomeInv, NoFaultInv, AbortPCs
<1>12. ~failed' => WaveInv'
  BY <1>1, <1>2, <1>3, <1>4, <1>5, <1>6 DEF WaveInv, WavePCs, StoppingPCs, Committing, CommitLoops, Cancelling
<1>13. ~failed' => GraveInv'
  BY <1>1, <1>2, <1>3, <1>4, <1>5, <1>6 DEF GraveInv, StoppingPCs
<1> QED
  BY <1>5, <1>6, <1>7, <1>8, <1>9, <1>10, <1>11, <1>12, <1>13 DEF OutcomeInv

\* The attempt of the next live role, and what stopping it leaves.
CancelledAttempt(r) ==
  IF attempt[r].state = "none" THEN attempt[r] ELSE StoppedAttempt(attempt[r], cancelCondition)

LEMMA CancelledRole ==
  ASSUME Inductive, pc = "cancelRoles", todo # {}, NEW r, r = NextRole
  PROVE  /\ r \in todo /\ r \in Roles /\ ~Ended(r) /\ RoleOK(r)
         /\ \/ /\ failed /\ roleState[r] \in {"pending", "primary_queued"}
               /\ attempt[r] = NoAttempt /\ CancelledAttempt(r) = attempt[r]
            \/ /\ roleState[r] = "primary_running" /\ (Waits(r) \/ Flies(r))
               /\ CancelledAttempt(r).ok /\ CancelledAttempt(r).purpose = attempt[r].purpose
<1>1. /\ todo \subseteq Roles /\ roleState \in [Roles -> RoleStates] /\ attempt \in [Roles -> AttemptType]
      /\ todo = {q \in Roles : ~Ended(q)} /\ cancelCondition \in {"cancelled", "timeout"}
  BY DEF Inductive, TypeInv, TypeOK, ControlType, DomainType, OutcomeInv, StoppedInv
<1>2. r \in todo /\ r \in Roles /\ ~Ended(r) /\ RoleOK(r)
  <2>1. r \in todo /\ r \in Roles
    BY <1>1, NextRoleInTodo
  <2> QED
    BY <1>1, <2>1 DEF Inductive, OutcomeInv
<1>3. roleState[r] \in {"pending", "primary_queued", "primary_running"}
  BY <1>1, <1>2 DEF Ended, TerminalRole, RoleStates
<1>4. CASE roleState[r] = "primary_running"
  <2>1. PICK s \in {"queued", "running"} : InPhase(attempt[r], s) /\ (Waits(r) \/ Flies(r))
    BY <1>2, <1>4 DEF RoleOK, Waits, Flies
  <2>2. attempt[r].state # "none"
    BY <2>1 DEF InPhase
  <2>3. StoppedAttempt(attempt[r], cancelCondition).ok
        /\ StoppedAttempt(attempt[r], cancelCondition).purpose = attempt[r].purpose
    BY <1>1, <1>2, <2>1, StoppedEnds
  <2> QED
    BY <1>2, <1>4, <2>1, <2>2, <2>3 DEF CancelledAttempt
<1>5. CASE roleState[r] \in {"pending", "primary_queued"}
  <2>1. attempt[r] = NoAttempt /\ failed
    BY <1>2, <1>5 DEF RoleOK, WaveInv, Inductive, OutcomeInv
  <2> QED
    BY <1>2, <1>5, <2>1 DEF NoAttempt, CancelledAttempt
<1> QED
  BY <1>3, <1>4, <1>5

\* The next live role ends as the condition says.  Only a role that never got an attempt, which
\* abort() alone meets, can be refused.
LEMMA OutcomeCancelRole ==
  ASSUME Inductive, CancelRole
  PROVE  OutcomeInv'
<1> USE DEF Goes, trace, stop, workers, context
<1>1. pc = "cancelRoles" /\ pc \in Cancelling /\ todo # {} /\ todo \subseteq Roles
  BY DEF CancelRole, Cancelling, Inductive, TypeInv, TypeOK, ControlType
<1>2. /\ runState = "running" /\ (failed <=> ret = "abortAuthorize") /\ (failed => faults # 0)
      /\ ~failed => faults = 0 /\ WaveInv /\ GraveInv
  BY <1>1, CancelFacts
<1>3. /\ ~failed => stopCondition # NoCondition
      /\ cancelCondition \in {"cancelled", "timeout"} /\ (cancelCondition = "timeout" => workErr = "deadline")
      /\ todo = {q \in Roles : ~Ended(q)}
  BY <1>1 DEF Inductive, OutcomeInv, StoppedInv
<1>t. /\ roleState \in [Roles -> RoleStates] /\ attempt \in [Roles -> AttemptType]
      /\ terminalRoles \subseteq Roles /\ faults \in Nat /\ failed \in BOOLEAN
      /\ dispatchEvents \in [Roles -> Nat] /\ commitEvents \in [Roles -> Nat]
  BY ConstantsAssumption DEF Inductive, TypeInv, TypeOK, DomainType, TraceType, FaultType
<1>4. PICK r : r = NextRole
  OBVIOUS
<1>5. r \in todo /\ r \in Roles /\ ~Ended(r) /\ RoleOK(r)
  BY <1>1, <1>4, CancelledRole
<1>6. PICK to : to = IF cancelCondition = "cancelled" THEN "cancelled" ELSE "failed"
  OBVIOUS
<1>7. PICK after : after = IF attempt[r].state = "none" THEN attempt[r]
                           ELSE StoppedAttempt(attempt[r], cancelCondition)
  OBVIOUS
<1>8. \/ /\ failed /\ roleState[r] \in {"pending", "primary_queued"}
         /\ attempt[r] = NoAttempt /\ after = attempt[r]
      \/ /\ roleState[r] = "primary_running" /\ (Waits(r) \/ Flies(r))
         /\ after.ok /\ after.purpose = attempt[r].purpose
  <2>1. after = CancelledAttempt(r)
    BY <1>7 DEF CancelledAttempt
  <2> QED
    BY <1>1, <1>4, <2>1, CancelledRole
<1>9. attempt' = [attempt EXCEPT ![r] = after]
  BY <1>4, <1>7, Zenon DEF CancelRole
<1>10. IF after.ok /\ RoleAccepts(r, to)
       THEN /\ roleState' = [roleState EXCEPT ![r] = to]
            /\ UNCHANGED refusedRole
            /\ \E ok \in BOOLEAN :
                 /\ Recorded(RecordableFor(r), ok)
                 /\ terminalRoles' = IF ok THEN terminalRoles \cup {r} ELSE terminalRoles
                 /\ IF ok THEN Goes("cancelRoles") /\ todo' = todo \ {r}
                    ELSE pc' = AfterCancelError /\ failed' = TRUE /\ UNCHANGED todo
       ELSE /\ refusedRole' = (refusedRole \/ after.ok)
            /\ pc' = AfterCancelError /\ failed' = TRUE
            /\ UNCHANGED <<roleState, terminalRoles, todo, faults>>
  BY <1>4, <1>6, <1>7, Zenon DEF CancelRole
<1>11. UNCHANGED <<ret, cancelCondition, wave, dispatched, next, runState, output, runStarted,
                   workersCloseAuthorized, runTerminalRecorded, dispatchEvents, commitEvents,
                   stopCondition, job, result, workErr>>
  BY DEF CancelRole
<1>12. \/ /\ pc' = "cancelRoles" /\ failed' = failed /\ faults' = faults /\ refusedRole' = refusedRole
          /\ roleState' = [roleState EXCEPT ![r] = to] /\ todo' = todo \ {r}
          /\ terminalRoles' = terminalRoles \cup {r}
          /\ roleState[r] = "primary_running" \/ failed
          /\ after.ok
       \/ /\ pc' = AfterCancelError /\ failed' /\ refusedRole' = refusedRole /\ faults' # 0
          /\ roleState' = [roleState EXCEPT ![r] = to] /\ terminalRoles' = terminalRoles
          /\ after.ok
       \/ /\ pc' = AfterCancelError /\ failed' /\ failed /\ faults' = faults
          /\ UNCHANGED <<roleState, terminalRoles>> /\ after = attempt[r]
  <2>1. CASE after.ok /\ RoleAccepts(r, to)
    <3>1. PICK ok \in BOOLEAN :
            /\ Recorded(RecordableFor(r), ok)
            /\ terminalRoles' = IF ok THEN terminalRoles \cup {r} ELSE terminalRoles
            /\ IF ok THEN Goes("cancelRoles") /\ todo' = todo \ {r}
               ELSE pc' = AfterCancelError /\ failed' = TRUE /\ UNCHANGED todo
      BY <1>10, <2>1
    <3>2. CASE ok
      BY <1>8, <1>10, <2>1, <3>1, <3>2 DEF Recorded
    <3>3. CASE ~ok
      <4>1. ~failed => RecordableFor(r)
        BY <1>1, <1>5, Accepts
      <4>2. faults' # 0
        BY <1>2, <1>t, <3>1, <3>3, <4>1 DEF Recorded
      <4> QED
        BY <1>10, <2>1, <3>1, <3>3, <4>2
    <3> QED
      BY <3>2, <3>3
  <2>2. CASE ~(after.ok /\ RoleAccepts(r, to))
    <3>1. failed /\ after = attempt[r]
      BY <1>2, <1>6, <1>8, <2>2 DEF RoleAccepts, RoleCanTransition
    <3> QED
      BY <1>10, <2>2, <3>1
  <2> QED
    BY <2>1, <2>2
<1>13. AfterCancelError = IF failed THEN "abortAuthorize" ELSE "abort"
  BY <1>2 DEF AfterCancelError
<1>14. \A q \in Roles \ {r} : SameRole(q)
  BY <1>9, <1>11, <1>12, <1>t DEF SameRole
<1>15. \A q \in Roles \ {r} : /\ Ended(q)' <=> Ended(q)
                              /\ RoleOK(q)' /\ (~failed => EventsOK(q)')
  BY <1>14, RoleKept DEF Inductive, OutcomeInv
<1>16. /\ attempt'[r] = after /\ after.purpose = attempt[r].purpose
       /\ \/ Ended(r)' /\ roleState'[r] \in {"failed", "cancelled"} /\ after.ok
          \/ /\ failed /\ ~Ended(r)' /\ attempt'[r] = attempt[r] /\ roleState'[r] = roleState[r]
             /\ pc' # "cancelRoles"
  BY <1>5, <1>6, <1>8, <1>9, <1>12, <1>13, <1>t DEF Ended, TerminalRole
<1>17. RoleOK(r)'
  <2>1. CASE roleState'[r] \in {"failed", "cancelled"} /\ after.ok
    BY <1>16, <2>1 DEF RoleOK, Ended, TerminalRole
  <2>2. CASE attempt'[r] = attempt[r] /\ roleState'[r] = roleState[r]
    <3>1. SameRole(r)
      BY <1>11, <2>2 DEF SameRole
    <3> QED
      BY <1>5, <3>1, RoleKept
  <2> QED
    BY <1>16, <2>1, <2>2
<1>18. ~failed => EventsOK(r)'
  <2> SUFFICES ASSUME ~failed PROVE EventsOK(r)'
    OBVIOUS
  <2>1. commitEvents[r] <= dispatchEvents[r]
    BY <1>5, <1>8, <1>t DEF Inductive, OutcomeInv, EventsOK
  <2>2. Ended(r)' /\ roleState'[r] \in {"failed", "cancelled"}
    BY <1>16
  <2> QED
    BY <1>11, <2>1, <2>2 DEF EventsOK, Waits, Flies
<1>19. ~AllRolesTerminal
  BY <1>5, AllEnded
<1>20. FlowInv'
  BY <1>1, <1>2, <1>11, <1>12, <1>13 DEF Inductive, OutcomeInv, FlowInv, AbortPCs, Cancelling, TerminalRun
<1>21. TraceInv'
  <2>1. ~workersCloseAuthorized /\ ~runTerminalRecorded /\ \A q \in terminalRoles : Ended(q)
    BY <1>19 DEF Inductive, OutcomeInv, TraceInv
  <2>2. \A q \in terminalRoles' : Ended(q)'
    BY <1>5, <1>12, <1>15, <1>16, <1>t, <2>1
  <2>3. ~failed' => runStarted /\ \A q \in Roles : Ended(q)' => q \in terminalRoles'
    BY <1>1, <1>12, <1>15 DEF Inductive, OutcomeInv, TraceInv
  <2> QED
    BY <1>1, <1>11, <1>12, <2>1, <2>2, <2>3 DEF TraceInv
<1>22. StoppedInv'
  <2>1. pc' = "cancelRoles" => todo' = {q \in Roles : ~Ended(q)'}
    BY <1>3, <1>5, <1>12, <1>13, <1>15, <1>16
  <2> QED
    BY <1>3, <1>11, <1>12, <1>13, <2>1 DEF Inductive, OutcomeInv, StoppedInv, StoppingPCs, Committing, CommitLoops
<1>23. ResultInv'
  BY <1>11 DEF Inductive, OutcomeInv, ResultInv
<1>24. TrailerInv'
  <2>1. \A q \in Roles \ {r} : attempt'[q] = attempt[q] /\ roleState'[q] = roleState[q]
    BY <1>14 DEF SameRole
  <2>2. ~failed' => ~failed /\ stopCondition # NoCondition
    BY <1>3, <1>12
  <2>3. roleState'[r] # "succeeded"
    BY <1>8, <1>16
  <2> QED
    BY <1>11, <1>15, <2>1, <2>2, <2>3 DEF Inductive, OutcomeInv, TrailerInv
<1>25. NoFaultInv'
  BY <1>1, <1>2, <1>12, <1>19 DEF Inductive, OutcomeInv, NoFaultInv
<1>26. ~failed' => WaveInv'
  <2> SUFFICES ASSUME ~failed' PROVE WaveInv'
    OBVIOUS
  <2>1. ~failed /\ pc' = "cancelRoles" /\ WaveInv /\ roleState' = [roleState EXCEPT ![r] = to]
    BY <1>2, <1>12
  <2>2. \A q \in Roles : roleState'[q] \notin {"pending", "primary_queued"}
    BY <1>1, <1>6, <1>t, <2>1 DEF WaveInv
  <2> QED
    BY <1>11, <2>1, <2>2 DEF WaveInv, WavePCs, StoppingPCs, Committing, CommitLoops, Cancelling
<1>27. ~failed' => GraveInv'
  BY <1>1, <1>2, <1>3, <1>11, <1>12 DEF GraveInv, Grave, StoppingPCs
<1> QED
  BY <1>12, <1>15, <1>17, <1>18, <1>20, <1>21, <1>22, <1>23, <1>24, <1>25, <1>26, <1>27 DEF OutcomeInv

-----------------------------------------------------------------------------
(* The end of a run, and what abort() makes of a failed one.                  *)

\* Past the loop nothing is waited for: every role has ended.
LEMMA AllEndedAtTheEnd ==
  ASSUME Inductive, ~failed, pc \in {"authorize", "close", "join", "finish", "terminal", "done"}
  PROVE  AllRolesTerminal
<1>1. CASE stopCondition = NoCondition
  <2>1. Waiting = {} /\ Flying = {}
    BY DEF Waiting, Flying, WavePCs, Committing, CommitLoops
  <2> QED
    BY <1>1, <2>1, AllEnded DEF Inductive, OutcomeInv, WaveInv, Cancelling
<1>2. CASE stopCondition # NoCondition
  BY <1>2 DEF Inductive, OutcomeInv, WaveInv
<1> QED
  BY <1>1, <1>2

\* The steps of the two ends: how far they get, and what they record.
EndStep ==
  \/ /\ ~failed /\ failed' = failed /\ faults' = faults
     /\ \/ pc = "authorize" /\ pc' = "close" /\ workersCloseAuthorized' /\ UNCHANGED <<runState, runTerminalRecorded>>
        \/ /\ UNCHANGED <<runState, workersCloseAuthorized, runTerminalRecorded>>
           /\ \/ pc = "close" /\ pc' = "join"
              \/ pc = "join" /\ pc' = "finish"
        \/ /\ pc = "finish" /\ pc' = "terminal" /\ UNCHANGED <<workersCloseAuthorized, runTerminalRecorded>>
           /\ runState' = FinalRunState
        \/ pc = "terminal" /\ pc' = "done" /\ runTerminalRecorded' /\ UNCHANGED <<runState, workersCloseAuthorized>>
  \/ /\ ~failed /\ failed' /\ faults' = faults + 1 /\ pc' = "abort"
     /\ UNCHANGED <<runState, workersCloseAuthorized, runTerminalRecorded>>
     /\ pc \in {"authorize", "terminal"}
  \/ /\ failed /\ failed' /\ (faults' = faults \/ faults' = faults + 1)
     /\ \/ /\ UNCHANGED <<runState, workersCloseAuthorized, runTerminalRecorded>>
           /\ \/ pc = "abort" /\ pc' = "abortCancel"
              \/ pc = "abortCancel" /\ pc' = "abortAuthorize" /\ AllRolesTerminal
              \/ pc = "abortCancel" /\ ~AllRolesTerminal
                   /\ pc' = "cancelAll" /\ ret' = "abortAuthorize" /\ cancelCondition' = "internal_invariant"
              \/ pc = "abortClose" /\ pc' = (IF closed THEN "abortFinish" ELSE "abortJoin")
              \/ pc = "abortJoin" /\ pc' = "abortFinish"
        \/ /\ pc = "abortAuthorize" /\ pc' = "abortClose" /\ UNCHANGED <<runState, runTerminalRecorded>>
           /\ (workersCloseAuthorized => workersCloseAuthorized') /\ (workersCloseAuthorized' => AllRolesTerminal)
        \/ /\ pc = "abortFinish" /\ pc' = "abortTerminal"
           /\ UNCHANGED <<workersCloseAuthorized, runTerminalRecorded>> /\ TerminalRun(runState')
        \/ /\ pc = "abortTerminal" /\ pc' = "done" /\ UNCHANGED <<runState, workersCloseAuthorized>>
           /\ runTerminalRecorded' => workersCloseAuthorized

LEMMA FinalIsTerminal == TerminalRun(FinalRunState)
BY DEF FinalRunState, TerminalRun

LEMMA EndSteps ==
  ASSUME Inductive,
         Authorize \/ CloseJobs \/ JoinWorkers \/ FinishRun \/ RecordTerminal \/ Abort \/ AbortCancel
  PROVE  /\ EndStep
         /\ UNCHANGED <<wave, dispatched, todo, next, roleState, attempt, output, refusedRole, terminalRoles,
                        dispatchEvents, commitEvents, stopCondition, job, result, workErr>>
         /\ UNCHANGED runStarted \/ (pc = "abort" /\ runStarted' \in BOOLEAN)
<1> USE DEF Goes, Fails, CallCancelAll, EndUnchanged, domain, trace, stop, workers, context
<1>1. UNCHANGED <<wave, dispatched, todo, next, roleState, attempt, output, refusedRole, terminalRoles,
                  dispatchEvents, commitEvents, stopCondition, job, result, workErr>>
  BY DEF Authorize, CloseJobs, JoinWorkers, FinishRun, RecordTerminal, Abort, AbortCancel
<1>2. UNCHANGED runStarted \/ (pc = "abort" /\ runStarted' \in BOOLEAN)
  BY DEF Authorize, CloseJobs, JoinWorkers, FinishRun, RecordTerminal, Abort, AbortCancel
<1>3. /\ failed <=> pc \in AbortPCs \/ (pc \in {"done", "rejected"} \cup Cancelling /\ failed)
      /\ pc \in AbortPCs => failed
  BY DEF Inductive, OutcomeInv, FlowInv
<1>4. ~failed /\ pc \in {"authorize", "close", "join", "finish", "terminal"} =>
        /\ runStarted /\ ~runTerminalRecorded /\ AllRolesTerminal
        /\ pc = "authorize" => ~workersCloseAuthorized
        /\ pc # "authorize" => workersCloseAuthorized
        /\ pc = "terminal" => TerminalRun(runState)
  BY AllEndedAtTheEnd DEF Inductive, OutcomeInv, TraceInv, FlowInv
<1>5. failed \in BOOLEAN
  BY DEF Inductive, TypeInv, TypeOK, FaultType
<1> SUFFICES EndStep
  BY <1>1, <1>2
<1>6. CASE Authorize
  <2>1. CASE pc = "authorize"
    <3>1. ~failed /\ Recordable("workers_close_authorized")
      BY <1>3, <1>4, <1>5, <2>1 DEF Recordable, AbortPCs, Cancelling, Inductive, OutcomeInv, FlowInv
    <3>2. \E ok \in BOOLEAN : /\ Recorded(Recordable("workers_close_authorized"), ok)
                              /\ workersCloseAuthorized' = ok
                              /\ IF ok THEN Goes("close") ELSE Fails
      BY <1>6, <2>1 DEF Authorize
    <3>3. UNCHANGED <<runState, runTerminalRecorded>> /\ ~workersCloseAuthorized
      BY <1>4, <1>6, <2>1, <3>1 DEF Authorize
    <3>4. \/ workersCloseAuthorized' /\ pc' = "close" /\ failed' = failed /\ faults' = faults
          \/ ~workersCloseAuthorized' /\ pc' = "abort" /\ failed' /\ faults' = faults + 1
      BY <3>1, <3>2, AcceptedIsRecorded
    <3>5. UNCHANGED workersCloseAuthorized \/ workersCloseAuthorized'
      BY <3>2, <3>3 DEF Inductive, TypeInv, TypeOK, TraceType
    <3> QED
      BY <2>1, <3>1, <3>3, <3>4, <3>5 DEF EndStep
  <2>2. CASE pc = "abortAuthorize"
    <3>1. workersCloseAuthorized => AllRolesTerminal
      BY DEF Inductive, OutcomeInv, TraceInv
    <3>2. ~workersCloseAuthorized =>
            \E ok \in BOOLEAN : /\ Recorded(Recordable("workers_close_authorized"), ok)
                                /\ workersCloseAuthorized' = ok
      BY <1>6, <2>2 DEF Authorize
    <3>3. ~workersCloseAuthorized =>
            /\ faults' = faults \/ faults' = faults + 1
            /\ workersCloseAuthorized' => AllRolesTerminal
      BY <3>2 DEF Recorded, Recordable
    <3>4. /\ pc' = "abortClose" /\ failed' = failed /\ UNCHANGED <<runState, runTerminalRecorded>>
          /\ workersCloseAuthorized => UNCHANGED <<workersCloseAuthorized, faults>>
      BY <1>6, <2>2 DEF Authorize
    <3>5. failed
      BY <1>3, <2>2 DEF AbortPCs
    <3> QED
      BY <2>2, <3>1, <3>3, <3>4, <3>5 DEF EndStep
  <2> QED
    BY <1>6, <2>1, <2>2 DEF Authorize
<1>7. CASE CloseJobs \/ JoinWorkers
  BY <1>3, <1>5, <1>7 DEF CloseJobs, JoinWorkers, EndStep, AbortPCs, Cancelling
<1>8. CASE FinishRun
  BY <1>3, <1>5, <1>8, FinalIsTerminal DEF FinishRun, EndStep, AbortPCs, Cancelling
<1>9. CASE RecordTerminal
  <2>1. CASE pc = "terminal"
    <3>1. ~failed /\ Recordable("run_terminal") /\ ~runTerminalRecorded
      BY <1>3, <1>4, <1>5, <2>1 DEF Recordable, AbortPCs, Cancelling, Inductive, OutcomeInv, FlowInv
    <3>2. \E ok \in BOOLEAN : /\ Recorded(Recordable("run_terminal"), ok)
                              /\ runTerminalRecorded' = ok
                              /\ IF ok THEN Goes("done") ELSE Fails
      BY <1>9, <2>1, <3>1 DEF RecordTerminal
    <3>3. UNCHANGED <<runState, workersCloseAuthorized>>
      BY <1>9 DEF RecordTerminal
    <3>4. \/ runTerminalRecorded' /\ pc' = "done" /\ failed' = failed /\ faults' = faults
          \/ ~runTerminalRecorded' /\ pc' = "abort" /\ failed' /\ faults' = faults + 1
      BY <3>1, <3>2, AcceptedIsRecorded
    <3>5. UNCHANGED runTerminalRecorded \/ runTerminalRecorded'
      BY <3>1, <3>2 DEF Inductive, TypeInv, TypeOK, TraceType
    <3> QED
      BY <2>1, <3>1, <3>3, <3>4, <3>5 DEF EndStep
  <2>2. CASE pc = "abortTerminal"
    <3>1. runTerminalRecorded => workersCloseAuthorized
      BY DEF Inductive, OutcomeInv, TraceInv
    <3>2. ~runTerminalRecorded =>
            \E ok \in BOOLEAN : /\ Recorded(Recordable("run_terminal"), ok)
                                /\ runTerminalRecorded' = ok
      BY <1>9, <2>2 DEF RecordTerminal
    <3>3. ~runTerminalRecorded =>
            /\ faults' = faults \/ faults' = faults + 1
            /\ runTerminalRecorded' => workersCloseAuthorized
      BY <3>2 DEF Recorded, Recordable
    <3>4. /\ pc' = "done" /\ failed' = failed /\ UNCHANGED <<runState, workersCloseAuthorized>>
          /\ runTerminalRecorded => UNCHANGED <<runTerminalRecorded, faults>>
      BY <1>9, <2>2 DEF RecordTerminal
    <3>5. failed
      BY <1>3, <2>2 DEF AbortPCs
    <3> QED
      BY <2>2, <3>1, <3>3, <3>4, <3>5 DEF EndStep
  <2> QED
    BY <1>9, <2>1, <2>2 DEF RecordTerminal
<1>10. CASE Abort
  BY <1>3, <1>10 DEF Abort, Recorded, EndStep, AbortPCs
<1>11. CASE AbortCancel
  BY <1>3, <1>11 DEF AbortCancel, EndStep, AbortPCs
<1> QED
  BY <1>1, <1>2, <1>6, <1>7, <1>8, <1>9, <1>10, <1>11

LEMMA OutcomeEnd ==
  ASSUME Inductive,
         Authorize \/ CloseJobs \/ JoinWorkers \/ FinishRun \/ RecordTerminal \/ Abort \/ AbortCancel
  PROVE  OutcomeInv'
<1>1. EndStep
  BY EndSteps
<1>2. /\ UNCHANGED <<wave, dispatched, todo, next, roleState, attempt, output, refusedRole, terminalRoles,
                     dispatchEvents, commitEvents, stopCondition, job, result, workErr>>
      /\ UNCHANGED runStarted \/ (pc = "abort" /\ runStarted' \in BOOLEAN)
  BY EndSteps
<1>3. ResultInv' /\ (AllRolesTerminal' <=> AllRolesTerminal) /\
      \A r \in Roles : /\ Ended(r)' <=> Ended(r)
                       /\ Grave(r)' <=> Grave(r)
                       /\ RoleOK(r)'
                       /\ (~failed => EventsOK(r)')
  BY <1>2, Quiet
<1>4. ~failed => /\ pc \in {"authorize", "close", "join", "finish", "terminal"} => AllRolesTerminal
                 /\ WaveInv /\ GraveInv /\ faults = 0
  BY AllEndedAtTheEnd DEF Inductive, OutcomeInv, FlowInv
<1>t. failed \in BOOLEAN /\ faults \in Nat /\ runStarted \in BOOLEAN /\ workersCloseAuthorized \in BOOLEAN
      /\ runTerminalRecorded \in BOOLEAN
  BY ConstantsAssumption DEF Inductive, TypeInv, TypeOK, TraceType, FaultType
<1>5. FlowInv'
  <2>1. TerminalRun(runState) => closed
    BY DEF Inductive, JoinInv
  <2>2. ~TerminalRun("pending")
    BY DEF TerminalRun
  <2> QED
    BY <1>1, <1>3, <1>4, <1>t, <2>1, <2>2, FinalIsTerminal DEF Inductive, OutcomeInv, FlowInv, EndStep, AbortPCs, Cancelling
<1>6. TraceInv'
  <2>1. TraceInv
    BY DEF Inductive, OutcomeInv
  <2>2. /\ \A r \in terminalRoles' : Ended(r)'
        /\ workersCloseAuthorized' => AllRolesTerminal'
        /\ runTerminalRecorded' => workersCloseAuthorized'
    <3>1. \A r \in terminalRoles' : Ended(r)'
      BY <1>2, <1>3, <2>1 DEF TraceInv, Inductive, TypeInv, TypeOK, TraceType
    <3>2. workersCloseAuthorized' => AllRolesTerminal'
      BY <1>1, <1>3, <1>4, <1>t, <2>1 DEF TraceInv, EndStep
    <3>3. runTerminalRecorded' => workersCloseAuthorized'
      BY <1>1, <1>t, <2>1 DEF TraceInv, EndStep
    <3> QED
      BY <3>1, <3>2, <3>3
  <2>3. ~failed' =>
          /\ ~failed /\ pc \notin {"admit", "recordStart", "abort"} /\ pc' \notin {"admit", "recordStart"}
          /\ \A r \in Roles : Ended(r)' => r \in terminalRoles'
    BY <1>1, <1>2, <1>3, <2>1 DEF TraceInv, EndStep
  <2>4. ~failed' =>
          /\ workersCloseAuthorized' <=> pc' \in {"close", "join", "finish", "terminal", "done"}
          /\ runTerminalRecorded' <=> pc' = "done"
    BY <1>1, <1>t, <2>1, <2>3 DEF TraceInv, EndStep
  <2> QED
    BY <1>2, <2>1, <2>2, <2>3, <2>4 DEF TraceInv
<1>7. StoppedInv'
  BY <1>1, <1>2 DEF Inductive, OutcomeInv, StoppedInv, EndStep, StoppingPCs, Committing, CommitLoops
<1>8. TrailerInv'
  BY <1>1, <1>2, <1>3 DEF Inductive, OutcomeInv, TrailerInv, EndStep, StoppingPCs
<1>9. NoFaultInv'
  BY <1>1, <1>2, <1>3, <1>4, <1>t DEF Inductive, OutcomeInv, NoFaultInv, EndStep, AbortPCs
<1>10. ~failed' => WaveInv'
  BY <1>1, <1>2, <1>3, <1>4 DEF EndStep, WaveInv, WavePCs, StoppingPCs, Committing, CommitLoops, Cancelling, Waiting, Flying
<1>11. ~failed' => GraveInv'
  BY <1>1, <1>2, <1>3, <1>4 DEF EndStep, GraveInv, StoppingPCs, FinalRunState
<1> QED
  BY <1>1, <1>3, <1>5, <1>6, <1>7, <1>8, <1>9, <1>10, <1>11 DEF OutcomeInv, EndStep

-----------------------------------------------------------------------------
(* The invariant holds in every reachable state.                              *)

LEMMA OutcomeInit == Init => OutcomeInv
<1> SUFFICES ASSUME Init PROVE OutcomeInv
  OBVIOUS
<1>1. /\ pc = "admit" /\ runState = "pending" /\ wave = {} /\ terminalRoles = {}
      /\ ~runStarted /\ ~workersCloseAuthorized /\ ~runTerminalRecorded /\ ~failed /\ ~refusedRole
      /\ faults = 0 /\ stopCondition = NoCondition
  BY DEF Init
<1>2. \A r \in Roles : /\ roleState[r] = "pending" /\ attempt[r] = NoAttempt /\ job[r] = "idle"
                       /\ dispatchEvents[r] = 0 /\ commitEvents[r] = 0
                       /\ ~Ended(r) /\ ~Waits(r) /\ ~Flies(r) /\ ~Grave(r)
  BY DEF Init, Ended, TerminalRole, Waits, Flies, Grave
<1>3. FlowInv /\ TraceInv
  BY <1>1, <1>2 DEF FlowInv, TraceInv, AbortPCs, Cancelling, TerminalRun
<1>4. StoppedInv
  BY <1>1 DEF StoppedInv, StoppingPCs, Committing, CommitLoops, NoCondition
<1>5. ResultInv /\ TrailerInv /\ NoFaultInv
  BY <1>1, <1>2 DEF ResultInv, TrailerInv, NoFaultInv
<1>6. \A r \in Roles : RoleOK(r) /\ EventsOK(r)
  BY <1>2 DEF RoleOK, EventsOK
<1>7. WaveInv
  BY <1>1, <1>2 DEF WaveInv, WavePCs, StoppingPCs, Committing, CommitLoops, Cancelling
<1>8. GraveInv
  BY <1>1, <1>2 DEF GraveInv, StoppingPCs, GraveConditions, NoCondition, SecurityRows
<1> QED
  BY <1>3, <1>4, <1>5, <1>6, <1>7, <1>8 DEF OutcomeInv

LEMMA OutcomeCoordinator ==
  ASSUME Inductive, CoordinatorStep
  PROVE  OutcomeInv'
<1>1. CASE Admit \/ RecordStart
  BY <1>1, OutcomeStart
<1>2. CASE StartPrimary
  BY <1>2, OutcomeStartPrimary
<1>3. CASE Prepare \/ Loop \/ DispatchCut \/ OpenGate \/ AfterCommit \/ NextWave
  BY <1>3, OutcomeLoop
<1>4. CASE AdmitJob
  BY <1>4, OutcomeAdmitJob
<1>5. CASE DispatchJob
  BY <1>5, OutcomeDispatchJob
<1>6. CASE \E r \in Roles : Collect(r)
  BY <1>6, OutcomeCollect
<1>7. CASE CommitWave \/ PrepareCommit \/ CommitLoopEnds
  BY <1>7, OutcomeReduce
<1>8. CASE CommitTrailer \/ CommitJob
  BY <1>8, OutcomeCommit
<1>9. CASE CancelAll
  BY <1>9, OutcomeCancelAll
<1>10. CASE CancelSample \/ CancelReturn
  BY <1>10, OutcomeCancelEnds
<1>11. CASE CancelRole
  BY <1>11, OutcomeCancelRole
<1>12. CASE AfterLoop \/ CheckRoles \/ Linearize
  BY <1>12, OutcomeSamples
<1>13. CASE Authorize \/ CloseJobs \/ JoinWorkers \/ FinishRun \/ RecordTerminal \/ Abort \/ AbortCancel
  BY <1>13, OutcomeEnd
<1> QED
  BY <1>1, <1>2, <1>3, <1>4, <1>5, <1>6, <1>7, <1>8, <1>9, <1>10, <1>11, <1>12, <1>13
  DEF CoordinatorStep

LEMMA OutcomeUnchanged ==
  ASSUME OutcomeInv, UNCHANGED vars
  PROVE  OutcomeInv'
<1>1. UNCHANGED <<pc, ret, cancelCondition, wave, dispatched, todo, next, runState, roleState, attempt,
                  output, refusedRole, runStarted, terminalRoles, workersCloseAuthorized,
                  runTerminalRecorded, dispatchEvents, commitEvents, stopCondition, job, result,
                  workErr, schedErr, failed, faults>>
  BY DEF vars, control, domain, trace, stop, workers, context, fault
<1>2. \A r \in Roles : /\ Waits(r)' <=> Waits(r)
                       /\ Flies(r)' <=> Flies(r)
                       /\ Ended(r)' <=> Ended(r)
                       /\ Grave(r)' <=> Grave(r)
                       /\ Bounded(r)' <=> Bounded(r)
                       /\ RoleOK(r)' <=> RoleOK(r)
                       /\ EventsOK(r)' <=> EventsOK(r)
  BY <1>1, RoleKept DEF SameRole, Grave, Bounded
<1>3. FlowInv' /\ TraceInv' /\ ResultInv' /\ NoFaultInv' /\ TrailerInv'
  BY <1>1 DEF OutcomeInv, FlowInv, TraceInv, ResultInv, NoFaultInv, TrailerInv, Ended, AllRolesTerminal
<1>4. StoppedInv'
  BY <1>1 DEF OutcomeInv, StoppedInv, WaveCondition, Bounded, Ended
<1>5. ~failed' => WaveInv'
  BY <1>1 DEF OutcomeInv, WaveInv, Waiting, Flying, Waits, Flies, Ended, Bounded, AllRolesTerminal, NextRole
<1>6. ~failed' => GraveInv'
  BY <1>1 DEF OutcomeInv, GraveInv, Grave, FinalRunState
<1> QED
  BY <1>1, <1>2, <1>3, <1>4, <1>5, <1>6 DEF OutcomeInv

LEMMA InductiveNext == Inductive /\ [Next]_vars => Inductive'
<1> SUFFICES ASSUME Inductive, [Next]_vars PROVE Inductive'
  OBVIOUS
<1>1. TypeInv' /\ JoinInv' /\ StopInv'
  BY TypeNext, JoinNext, StopNext DEF Inductive
<1>2. OutcomeInv'
  <2>1. CASE CoordinatorStep
    BY <2>1, OutcomeCoordinator
  <2>2. CASE \E r \in Roles : WorkerStep(r)
    BY <2>2, OutcomeWorker
  <2>3. CASE ContextStep
    BY <2>3, OutcomeContext
  <2>4. CASE Finished \/ UNCHANGED vars
    BY <2>4, OutcomeUnchanged DEF Inductive, Finished
  <2> QED
    BY <2>1, <2>2, <2>3, <2>4 DEF Next
<1> QED
  BY <1>1, <1>2 DEF Inductive

LEMMA InductiveInit == Init => Inductive
BY TypeInit, JoinInit, StopInit, OutcomeInit DEF Inductive

LEMMA InductiveHolds == Spec => []Inductive
BY InductiveInit, InductiveNext, PTL DEF Spec

\* No reachable state breaks the agreement of the coordinator's control with the roles, the
\* trace, the stops and the results of its jobs.
THEOREM OutcomeInvariant == Spec => []OutcomeInv
<1>1. Inductive => OutcomeInv
  BY DEF Inductive
<1> QED
  BY <1>1, InductiveHolds, PTL

-----------------------------------------------------------------------------
(* A completed run was not stopped, and delivered every role.                 *)

CompletedInv ==
  runState = "completed" => stopCondition = NoCondition /\ \A r \in Roles : roleState[r] = "succeeded"

LEMMA CompletedInit == Init => CompletedInv
BY DEF Init, CompletedInv

\* Once the run is terminal no step of the coordinator stops it or ends a role again.
LEMMA TerminalIsKept ==
  ASSUME Inductive, TerminalRun(runState), [Next]_vars
  PROVE  UNCHANGED <<runState, stopCondition, roleState>>
<1>1. /\ pc \in {"terminal", "done", "abortTerminal", "abort", "abortCancel", "abortAuthorize",
                 "abortClose", "abortFinish"}
      /\ pc = "abortCancel" => AllRolesTerminal
  BY DEF Inductive, OutcomeInv, FlowInv
<1>2. CASE CoordinatorStep
  <2>1. RecordTerminal \/ Abort \/ AbortCancel \/ Authorize \/ CloseJobs \/ FinishRun
    BY <1>1, <1>2
    DEF CoordinatorStep, Admit, RecordStart, StartPrimary, Prepare, Loop, AdmitJob, DispatchJob, DispatchCut,
        OpenGate, Collect, CommitWave, PrepareCommit, CommitTrailer, CommitJob, CommitLoopEnds, AfterCommit,
        NextWave, CancelAll, CancelSample, CancelRole, CancelReturn, AfterLoop, CheckRoles, Linearize, JoinWorkers
  <2> QED
    BY <1>1, <2>1 DEF RecordTerminal, Abort, AbortCancel, Authorize, CloseJobs, FinishRun, CallCancelAll,
                      EndUnchanged, domain, stop
<1>3. CASE (\E r \in Roles : WorkerStep(r)) \/ ContextStep
  BY <1>3 DEF WorkerStep, WorkerTake, WorkerSkip, WorkerNoWindow, WorkerInvoke, WorkerReturn, Report,
              ContextStep, CallerEnds, RunDeadline, PropagateToRun, PropagateToDispatch, domain, stop
<1>4. CASE Finished \/ UNCHANGED vars
  BY <1>4 DEF Finished, vars, domain, stop
<1> QED
  BY <1>2, <1>3, <1>4 DEF Next

LEMMA CompletedNext == Inductive /\ CompletedInv /\ [Next]_vars => CompletedInv'
<1> SUFFICES ASSUME Inductive, CompletedInv, [Next]_vars, runState' = "completed"
             PROVE  stopCondition' = NoCondition /\ \A r \in Roles : roleState'[r] = "succeeded"
  BY DEF CompletedInv
<1>1. CASE TerminalRun(runState)
  BY <1>1, TerminalIsKept DEF CompletedInv
<1>2. CASE ~TerminalRun(runState)
  <2>1. runState # "completed"
    BY <1>2 DEF TerminalRun
  <2>2. pc \in {"finish", "abortFinish"} /\ FinishRun
    <3>1. CASE CoordinatorStep
      <4>1. pc' \in {"terminal", "done", "abortTerminal", "abort", "abortCancel", "abortAuthorize",
                     "abortClose", "abortFinish"}
        <5>1. Inductive'
          BY InductiveNext
        <5> QED
          BY <5>1 DEF Inductive, OutcomeInv, FlowInv, TerminalRun
      <4>2. CASE CommitTrailer \/ CommitJob
        <5>1. PICK r \in Roles, c \in Conditions, suppress \in BOOLEAN, to \in CommitLoops :
                CommitStep(r, c, suppress, to)
          BY <4>2, CommitStepFacts
        <5>2. CommitFailed \/ CommitFollowed(r, suppress, to) \/ CommitEnded(r, c, to)
          BY <5>1 DEF CommitStep
        <5> QED
          BY <2>1, <5>2 DEF CommitFailed, CommitFollowed, CommitEnded, domain
      <4> QED
        BY <2>1, <3>1, <4>1, <4>2
        DEF CoordinatorStep, Admit, RecordStart, StartPrimary, Prepare, Loop, AdmitJob, DispatchJob, DispatchCut,
            OpenGate, Collect, CommitWave, PrepareCommit, CommitLoopEnds, AfterCommit,
            NextWave, CancelAll, CancelSample, CancelRole, CancelReturn, AfterLoop, CheckRoles, Linearize,
            Authorize, CloseJobs, JoinWorkers, FinishRun, RecordTerminal, Abort, AbortCancel, CallCancelAll,
            EndUnchanged, Goes, domain
    <3>2. CASE (\E r \in Roles : WorkerStep(r)) \/ ContextStep
      BY <2>1, <3>2 DEF WorkerStep, WorkerTake, WorkerSkip, WorkerNoWindow, WorkerInvoke, WorkerReturn, Report,
              ContextStep, CallerEnds, RunDeadline, PropagateToRun, PropagateToDispatch, domain
    <3>3. CASE Finished \/ UNCHANGED vars
      BY <2>1, <3>3 DEF Finished, vars, domain
    <3> QED
      BY <3>1, <3>2, <3>3 DEF Next
  <2>3. UNCHANGED <<stopCondition, roleState>> /\ FinalRunState = "completed"
    BY <1>2, <2>2 DEF FinishRun, stop
  <2>4. stopCondition # "valid_review"
    BY DEF Inductive, OutcomeInv, StoppedInv
  <2> QED
    BY <2>3, <2>4 DEF FinalRunState
<1> QED
  BY <1>1, <1>2

LEMMA CompletedHolds == Spec => [](Inductive /\ CompletedInv)
BY InductiveInit, InductiveNext, CompletedInit, CompletedNext, PTL DEF Spec

LEMMA AttemptsAreAccepted ==
  ASSUME Inductive
  PROVE  \A r \in Roles : attempt[r].ok
<1> SUFFICES ASSUME NEW r \in Roles PROVE attempt[r].ok
  OBVIOUS
<1>1. RoleOK(r) /\ roleState[r] \in RoleStates
  BY DEF Inductive, OutcomeInv, TypeInv, TypeOK, DomainType
<1> QED
  BY <1>1 DEF RoleOK, RoleStates, Ended, TerminalRole, Waits, Flies, InPhase, NoAttempt

\* However many roles, waves and lanes, and whatever fails: a completed run delivered every
\* role, an execution without error recorded a complete trace, and the aggregates refuse no
\* transition before a dependency failed (commitOutcome, finishRun, record).
THEOREM OutcomesAreTrue == Spec => []OutcomeIsTrue
<1> SUFFICES ASSUME Inductive, CompletedInv PROVE OutcomeIsTrue
  <2>1. Inductive /\ CompletedInv => OutcomeIsTrue
    OBVIOUS
  <2> QED
    BY <2>1, CompletedHolds, PTL
<1>1. CompletedMeansDelivered
  BY DEF Inductive, OutcomeInv, CompletedInv, CompletedMeansDelivered, RoleOK
<1>2. CompleteTrace
  <2> SUFFICES ASSUME pc = "done", ~failed
               PROVE  /\ runTerminalRecorded /\ terminalRoles = Roles
                      /\ \A r \in Roles :
                           /\ commitEvents[r] <= dispatchEvents[r]
                           /\ roleState[r] = "succeeded" =>
                                commitEvents[r] = Invocations(attempt[r]) /\ dispatchEvents[r] = commitEvents[r]
    BY DEF CompleteTrace
  <2>1. \A r \in Roles : Ended(r) /\ EventsOK(r)
    BY AllEndedAtTheEnd, AllEnded DEF Inductive, OutcomeInv
  <2>2. runTerminalRecorded /\ terminalRoles = Roles
    BY <2>1 DEF Inductive, OutcomeInv, TraceInv, TypeInv, TypeOK, TraceType
  <2> QED
    BY <2>1, <2>2 DEF EventsOK
<1>3. RefusedOnlyAfterFault
  BY AttemptsAreAccepted DEF Inductive, OutcomeInv, NoFaultInv, RefusedOnlyAfterFault
<1> QED
  BY <1>1, <1>2, <1>3 DEF OutcomeIsTrue

-----------------------------------------------------------------------------
(* Integrity failures and accepted reports.                                   *)

LEMMA WorstPrecedence ==
  ASSUME NEW c
  PROVE  Precedence(c) <= 1 <=> c \in {"internal_invariant", "artifact_failure"}
BY DEF Precedence, SecurityRows, RepairRows, ClosedOutputRows, ValidRows

LEMMA IntegrityDecides ==
  ASSUME Inductive
  PROVE  IntegrityDecidesRun
<1> SUFFICES ASSUME pc = "done", ~failed
             PROVE  /\ CollectedIntegrity({"internal_invariant", "artifact_failure"}) => runState = "failed"
                    /\ CollectedIntegrity({"security_violation", "mutation_violation"})
                         /\ ~CollectedIntegrity({"internal_invariant", "artifact_failure"})
                         => runState = "cancelled"
  BY DEF IntegrityDecidesRun
<1>1. GraveInv
  BY DEF Inductive, OutcomeInv
<1>2. runState = FinalRunState
  BY <1>1 DEF GraveInv
<1>3. ASSUME NEW r \in Roles, Grave(r)
      PROVE  /\ stopCondition # NoCondition
             /\ Precedence(stopCondition) <= Precedence(result[r].condition)
             /\ \E q \in Roles : Grave(q) /\ result[q].condition = stopCondition
  <2>1. stopCondition # NoCondition
    BY <1>1, <1>3 DEF GraveInv, StoppingPCs
  <2>2. Precedence(stopCondition) <= Precedence(result[r].condition)
    BY <1>1, <1>3, <2>1 DEF GraveInv
  <2>3. Precedence(stopCondition) \in Nat /\ Precedence(result[r].condition) \in Nat
    BY PrecedenceType
  <2>4. Precedence(result[r].condition) <= 2
    BY <1>3, GravePrecedence DEF Grave
  <2>5. stopCondition \in GraveConditions
    BY <2>2, <2>3, <2>4, GravePrecedence
  <2> QED
    BY <1>1, <2>1, <2>2, <2>5 DEF GraveInv
<1>4. ASSUME NEW r \in Roles, job[r] = "collected",
             result[r].condition \in {"internal_invariant", "artifact_failure"}
      PROVE  runState = "failed"
  <2>1. Grave(r) /\ Precedence(result[r].condition) <= 1
    BY <1>4, WorstPrecedence DEF Grave, GraveConditions
  <2>2. Precedence(stopCondition) <= 1
    BY <1>3, <2>1, PrecedenceType
  <2>3. stopCondition \in {"internal_invariant", "artifact_failure"}
    BY <2>2, WorstPrecedence
  <2> QED
    BY <1>2, <2>3 DEF FinalRunState, ConditionCancelsRun, SecurityRows, NoCondition
<1>5. ASSUME NEW r \in Roles, job[r] = "collected",
             result[r].condition \in {"security_violation", "mutation_violation"},
             ~CollectedIntegrity({"internal_invariant", "artifact_failure"})
      PROVE  runState = "cancelled"
  <2>1. Grave(r)
    BY <1>5 DEF Grave, GraveConditions, SecurityRows
  <2>2. PICK q \in Roles : Grave(q) /\ result[q].condition = stopCondition
    BY <1>3, <2>1
  <2>3. stopCondition \in SecurityRows
    BY <1>5, <2>2 DEF CollectedIntegrity, Grave, GraveConditions
  <2> QED
    BY <1>2, <2>3 DEF FinalRunState, ConditionCancelsRun
<1> QED
  BY <1>4, <1>5 DEF CollectedIntegrity

LEMMA NotLaundered ==
  ASSUME Inductive, CompletedInv, faults = 0
  PROVE  TrailerNotLaundered
<1> SUFFICES ASSUME NEW r \in Roles, roleState[r] = "succeeded", attempt[r].purpose = "extract"
             PROVE  /\ TerminalClass(result[r].condition) \notin ProtectedClasses
                    /\ result[r].condition = "cancelled" => runState # "completed"
  BY DEF TrailerNotLaundered, ProtectedClasses
<1>1. Ended(r)
  BY DEF Ended, TerminalRole
<1>2. TerminalClass(result[r].condition) \notin ProtectedClasses
  BY <1>1 DEF Inductive, OutcomeInv, TrailerInv
<1>3. ~failed /\ result[r].condition = "cancelled" =>
        stopCondition # NoCondition \/ pc \in {"cancelAll"} \cup StoppingPCs
  BY <1>1 DEF Inductive, OutcomeInv, TrailerInv
<1>4. pc \in {"cancelAll"} \cup StoppingPCs => runState # "completed"
  BY DEF Inductive, OutcomeInv, FlowInv, TerminalRun, StoppingPCs, AbortPCs
<1>5. failed => stopCondition # NoCondition \/ runState # "completed"
  BY DEF Inductive, OutcomeInv, FlowInv, NoFaultInv
<1> QED
  BY <1>2, <1>3, <1>4, <1>5 DEF CompletedInv

\* Whatever else the waves, the contexts and the dependencies do, a collected integrity
\* failure decides a run that ends without error; and no trailer launders a protected failure
\* into the success of its role (commitWave, commitExtractionOutcome, cancelAll, finishRun).
THEOREM IntegrityDecidesEveryRun == Spec => [](IntegrityDecidesRun /\ (faults = 0 => IntegrityPrevails))
<1>1. Inductive /\ CompletedInv => IntegrityDecidesRun /\ (faults = 0 => IntegrityPrevails)
  BY IntegrityDecides, NotLaundered DEF IntegrityPrevails
<1> QED
  BY <1>1, CompletedHolds, PTL

\* However many roles wait for their trailers: a role whose report was accepted loses it only
\* when the run is stopped or the trailer hit a protected configuration failure.
THEOREM AcceptedReportKept == Spec => []AcceptedReportLostOnlyToStop
<1>1. ASSUME Inductive PROVE AcceptedReportLostOnlyToStop
  <2> SUFFICES ASSUME NEW r \in Roles, pc = "done", ~failed, attempt[r].purpose = "extract",
                      roleState[r] # "succeeded"
               PROVE  stopCondition # NoCondition \/ result[r].condition = "configuration_violation"
    BY DEF AcceptedReportLostOnlyToStop
  <2>1. Ended(r)
    BY <1>1, AllEndedAtTheEnd, AllEnded
  <2> QED
    BY <1>1, <2>1 DEF Inductive, OutcomeInv, TrailerInv, StoppingPCs
<1>2. Inductive => AcceptedReportLostOnlyToStop
  BY <1>1
<1> QED
  BY <1>2, InductiveHolds, PTL

-----------------------------------------------------------------------------
(* abort(): what one failing dependency leaves is finalized.                  *)

\* Where an execution that saw no error goes when it meets one.
LEMMA FirstError ==
  ASSUME Inductive, ~failed, [Next]_vars, failed'
  PROVE  pc' \in {"abort", "rejected"}
<1> USE DEF Goes, Fails, CallCancelAll
<1>1. CASE CoordinatorStep
  <2>1. CASE CommitTrailer \/ CommitJob
    <3>1. PICK r \in Roles, c \in Conditions, suppress \in BOOLEAN, to \in CommitLoops :
            CommitStep(r, c, suppress, to)
      BY <2>1, CommitStepFacts
    <3>2. CommitFailed \/ CommitFollowed(r, suppress, to) \/ CommitEnded(r, c, to)
      BY <3>1 DEF CommitStep
    <3> QED
      BY <3>2 DEF CommitFailed, CommitFollowed, CommitEnded
  <2>2. CASE CancelAll \/ CancelSample \/ CancelRole \/ CancelReturn
    <3>1. pc \in Cancelling
      BY <2>2 DEF CancelAll, CancelSample, CancelRole, CancelReturn, Cancelling
    <3>2. ret # "abortAuthorize"
      BY <3>1, CancelFacts
    <3>3. CASE CancelAll \/ CancelSample \/ CancelReturn
      BY <3>2, <3>3 DEF CancelAll, CancelSample, CancelReturn, AfterCancelError
    <3>4. CASE CancelRole
      <4>1. pc' = AfterCancelError \/ failed' = failed
        BY <3>4, Zenon DEF CancelRole, Goes
      <4> QED
        BY <3>2, <4>1 DEF AfterCancelError
    <3> QED
      BY <2>2, <3>3, <3>4
  <2>3. CASE Admit \/ RecordStart \/ StartPrimary \/ Prepare \/ Loop \/ AdmitJob \/ DispatchCut \/ OpenGate
    BY <2>3 DEF Admit, RecordStart, StartPrimary, Prepare, Loop, AdmitJob, DispatchCut, OpenGate
  <2>4. CASE DispatchJob
    <3>1. pc' = "abort" \/ failed' = failed
      BY <2>4, Zenon DEF DispatchJob
    <3> QED
      BY <3>1
  <2>5. CASE (\E r \in Roles : Collect(r)) \/ CommitWave \/ PrepareCommit \/ CommitLoopEnds \/ AfterCommit \/ NextWave
    BY <2>5 DEF Collect, CommitWave, PrepareCommit, CommitLoopEnds, AfterCommit, NextWave
  <2>6. CASE AfterLoop \/ CheckRoles \/ Linearize
    BY <2>6 DEF AfterLoop, CheckRoles, Linearize
  <2>7. CASE Authorize \/ CloseJobs \/ JoinWorkers \/ FinishRun \/ RecordTerminal \/ Abort \/ AbortCancel
    BY <2>7, EndSteps DEF EndStep
  <2> QED
    BY <1>1, <2>1, <2>2, <2>3, <2>4, <2>5, <2>6, <2>7 DEF CoordinatorStep
<1>2. CASE (\E r \in Roles : WorkerStep(r)) \/ ContextStep
  BY <1>2 DEF WorkerStep, WorkerTake, WorkerSkip, WorkerNoWindow, WorkerInvoke, WorkerReturn, Report,
              ContextStep, CallerEnds, RunDeadline, PropagateToRun, PropagateToDispatch, fault
<1>3. CASE Finished \/ UNCHANGED vars
  BY <1>3 DEF Finished, vars, fault
<1> QED
  BY <1>1, <1>2, <1>3 DEF Next

\* Once execute() failed only the workers, the contexts, cancelAll() and the end move.
LEMMA AfterError ==
  ASSUME Inductive, failed, [Next]_vars
  PROVE  \/ CancelAll \/ CancelSample \/ CancelRole \/ CancelReturn
         \/ Authorize \/ CloseJobs \/ JoinWorkers \/ FinishRun \/ RecordTerminal \/ Abort \/ AbortCancel
         \/ /\ UNCHANGED <<pc, roleState, runStarted, failed, faults>>
            /\ workErr = "deadline" => workErr' = "deadline"
<1>1. pc \in AbortPCs \cup Cancelling \cup {"rejected", "done"}
  BY DEF Inductive, OutcomeInv, FlowInv
<1>2. CASE CoordinatorStep
  BY <1>1, <1>2
  DEF CoordinatorStep, Admit, RecordStart, StartPrimary, Prepare, Loop, AdmitJob, DispatchJob, DispatchCut,
      OpenGate, Collect, CommitWave, PrepareCommit, CommitTrailer, CommitJob, CommitLoopEnds, AfterCommit,
      NextWave, AfterLoop, CheckRoles, Linearize, AbortPCs, Cancelling
<1>3. CASE (\E r \in Roles : WorkerStep(r)) \/ ContextStep
  BY <1>3 DEF WorkerStep, WorkerTake, WorkerSkip, WorkerNoWindow, WorkerInvoke, WorkerReturn, Report,
              ContextStep, CallerEnds, RunDeadline, PropagateToRun, PropagateToDispatch,
              control, domain, trace, context, fault
<1>4. CASE Finished \/ UNCHANGED vars
  BY <1>4 DEF Finished, vars, control, domain, trace, context, fault
<1> QED
  BY <1>2, <1>3, <1>4 DEF Next

LEMMA AbortInit == Init => AbortInv
BY DEF Init, AbortInv

\* With roles left over the trace is open: what no second fault disturbs is accepted.
LEMMA OneFault ==
  ASSUME Inductive, MaxFaults <= 1, failed, pc # "rejected", AbortInv, ~AllRolesTerminal
  PROVE  /\ faults = 1 /\ faults \in Nat /\ ~(faults < MaxFaults)
         /\ ~workersCloseAuthorized /\ ~runTerminalRecorded
         /\ runStarted => Recordable("cancellation_requested")
         /\ runStarted => \A r \in Roles : ~Ended(r) => RecordableFor(r)
         /\ ~runStarted => Recordable("run_started")
<1>1. faults = 1 /\ ~(faults < MaxFaults)
  BY ConstantsAssumption DEF AbortInv
<1>2. ~workersCloseAuthorized /\ ~runTerminalRecorded /\ \A r \in terminalRoles : Ended(r)
  BY DEF Inductive, OutcomeInv, TraceInv
<1>3. runStarted \in BOOLEAN
  BY DEF Inductive, TypeInv, TypeOK, TraceType
<1> QED
  BY <1>1, <1>2, <1>3 DEF Recordable, RecordableFor

\* cancelAll() called by abort(), one fault past: the stop and the roles are recorded, and only
\* the run deadline makes a role refuse its end.
LEMMA AbortCancels ==
  ASSUME Inductive, MaxFaults <= 1, failed, AbortInv, ~AllRolesTerminal,
         CancelAll \/ CancelSample \/ CancelRole \/ CancelReturn
  PROVE  /\ runStarted /\ UNCHANGED <<runStarted, workErr>>
         /\ pc' \in Cancelling \/ workErr = "deadline"
<1> USE DEF Goes
<1>1. pc \in Cancelling /\ pc # "rejected"
  BY DEF CancelAll, CancelSample, CancelRole, CancelReturn, Cancelling
<1>2. runStarted
  BY <1>1 DEF AbortInv
<1>3. UNCHANGED <<runStarted, workErr>>
  BY DEF CancelAll, CancelSample, CancelRole, CancelReturn, trace, context
<1>4. /\ ~(faults < MaxFaults) /\ Recordable("cancellation_requested")
      /\ \A r \in Roles : ~Ended(r) => RecordableFor(r)
  BY <1>1, <1>2, OneFault
<1>5. CASE CancelAll
  <2>1. PICK e : e = IF stopCondition = NoCondition THEN cancelCondition
                     ELSE Reduce(stopCondition, cancelCondition)
    OBVIOUS
  <2>2. PICK ok \in BOOLEAN : /\ RequestDispatchStop(e, ok)
                              /\ IF ok THEN Goes("cancelSample") ELSE pc' = AfterCancelError /\ failed' = TRUE
    BY <1>5, <2>1 DEF CancelAll
  <2>3. ok
    BY <1>4, <2>2 DEF RequestDispatchStop, Recorded
  <2> QED
    BY <1>2, <1>3, <2>2, <2>3 DEF Cancelling
<1>6. CASE CancelSample
  BY <1>2, <1>3, <1>6 DEF CancelSample, Cancelling
<1>7. CASE CancelRole
  <2>1. PICK r : r = NextRole
    OBVIOUS
  <2>2. pc = "cancelRoles" /\ todo # {} /\ runState = "running"
    BY <1>1, <1>7, CancelFacts DEF CancelRole
  <2>3. /\ r \in Roles /\ ~Ended(r) /\ CancelledAttempt(r).ok
        /\ roleState[r] \in {"pending", "primary_queued", "primary_running"}
    BY <2>1, <2>2, CancelledRole DEF NoAttempt
  <2>4. PICK to : to = IF cancelCondition = "cancelled" THEN "cancelled" ELSE "failed"
    OBVIOUS
  <2>5. PICK after : after = IF attempt[r].state = "none" THEN attempt[r]
                             ELSE StoppedAttempt(attempt[r], cancelCondition)
    OBVIOUS
  <2>6. after.ok
    BY <2>3, <2>5 DEF CancelledAttempt
  <2>7. RoleAccepts(r, to) => pc' = "cancelRoles"
    <3>1. RoleAccepts(r, to) =>
            \E ok \in BOOLEAN : /\ Recorded(RecordableFor(r), ok)
                                /\ IF ok THEN Goes("cancelRoles")
                                   ELSE pc' = AfterCancelError /\ failed' = TRUE
      BY <1>7, <2>1, <2>4, <2>5, <2>6, Zenon DEF CancelRole
    <3> QED
      BY <1>4, <2>3, <3>1 DEF Recorded
  <2>8. ~RoleAccepts(r, to) => workErr = "deadline"
    BY <2>2, <2>3, <2>4 DEF RoleAccepts, RoleCanTransition, Inductive, OutcomeInv, StoppedInv
  <2> QED
    BY <1>2, <1>3, <2>7, <2>8 DEF Cancelling
<1>8. ~CancelReturn
  BY AllEnded DEF CancelReturn, Inductive, OutcomeInv, StoppedInv
<1> QED
  BY <1>5, <1>6, <1>7, <1>8

LEMMA AbortEnds ==
  ASSUME Inductive, MaxFaults <= 1, failed, AbortInv, ~AllRolesTerminal,
         Authorize \/ CloseJobs \/ JoinWorkers \/ FinishRun \/ RecordTerminal \/ Abort \/ AbortCancel
  PROVE  /\ UNCHANGED <<roleState, workErr>>
         /\ pc' \in {"abortCancel"} \cup Cancelling => runStarted'
         /\ pc' \notin {"abort", "abortCancel"} \cup Cancelling => workErr = "deadline"
<1>1. EndStep /\ UNCHANGED <<roleState, workErr>> /\ (UNCHANGED runStarted \/ pc = "abort")
  BY EndSteps
<1>2. pc \in AbortPCs
  BY <1>1 DEF EndStep, AbortPCs
<1>3. CASE pc = "abort"
  <2>1. Abort
    BY <1>3 DEF Authorize, CloseJobs, JoinWorkers, FinishRun, RecordTerminal, Abort, AbortCancel
  <2>2. ~(faults < MaxFaults) /\ (~runStarted => Recordable("run_started"))
    BY <1>3, OneFault
  <2>3. runStarted' /\ pc' = "abortCancel"
    BY <2>1, <2>2 DEF Abort, Recorded, Goes
  <2> QED
    BY <1>1, <2>3 DEF Cancelling
<1>4. CASE pc = "abortCancel"
  <2>1. pc' = "cancelAll" /\ UNCHANGED runStarted /\ runStarted
    BY <1>1, <1>4 DEF EndStep, AbortInv
  <2> QED
    BY <1>1, <2>1 DEF Cancelling
<1>5. CASE pc \notin {"abort", "abortCancel"}
  <2>1. pc \notin Cancelling /\ pc # "rejected" /\ pc' \notin Cancelling \cup {"abort", "abortCancel"}
    BY <1>1, <1>2, <1>5 DEF EndStep, AbortPCs, Cancelling
  <2>2. workErr = "deadline"
    BY <1>5, <2>1 DEF AbortInv
  <2> QED
    BY <1>1, <2>1, <2>2
<1> QED
  BY <1>3, <1>4, <1>5

LEMMA AbortNext ==
  ASSUME MaxFaults <= 1
  PROVE  Inductive /\ AbortInv /\ [Next]_vars => AbortInv'
<1> SUFFICES ASSUME Inductive, AbortInv, [Next]_vars, failed', pc' # "rejected"
             PROVE  /\ faults' = 1 \/ AllRolesTerminal'
                    /\ pc' \in {"abortCancel"} \cup Cancelling => runStarted' \/ AllRolesTerminal'
                    /\ pc' \notin {"abort", "abortCancel"} \cup Cancelling =>
                         AllRolesTerminal' \/ workErr' = "deadline"
  BY DEF AbortInv
<1>1. faults' = 1 \/ AllRolesTerminal'
  <2>1. Inductive'
    BY InductiveNext
  <2> QED
    BY <2>1, ConstantsAssumption DEF Inductive, OutcomeInv, NoFaultInv, TypeInv, TypeOK, FaultType
<1>2. CASE ~failed
  BY <1>1, <1>2, FirstError DEF Cancelling
<1>3. CASE failed
  <2>1. pc # "rejected"
    BY <1>3, AfterError DEF CancelAll, CancelSample, CancelRole, CancelReturn, Authorize, CloseJobs, JoinWorkers,
                            FinishRun, RecordTerminal, Abort, AbortCancel
  <2>2. \/ CancelAll \/ CancelSample \/ CancelRole \/ CancelReturn
        \/ Authorize \/ CloseJobs \/ JoinWorkers \/ FinishRun \/ RecordTerminal \/ Abort \/ AbortCancel
        \/ /\ UNCHANGED <<pc, roleState, runStarted, failed, faults>>
           /\ workErr = "deadline" => workErr' = "deadline"
    BY <1>3, AfterError
  <2>3. CASE AllRolesTerminal
    <3>1. ~CancelRole
      BY <2>3, AllEnded, CancelledRole DEF CancelRole
    <3>2. UNCHANGED roleState
      BY <2>2, <3>1, EndSteps DEF CancelAll, CancelSample, CancelReturn, domain
    <3> QED
      BY <2>3, <3>2 DEF AllRolesTerminal
  <2>4. CASE ~AllRolesTerminal
    <3>1. CASE CancelAll \/ CancelSample \/ CancelRole \/ CancelReturn
      BY <1>1, <1>3, <2>4, <3>1, AbortCancels DEF Cancelling
    <3>2. CASE Authorize \/ CloseJobs \/ JoinWorkers \/ FinishRun \/ RecordTerminal \/ Abort \/ AbortCancel
      BY <1>1, <1>3, <2>4, <3>2, AbortEnds
    <3>3. CASE /\ UNCHANGED <<pc, roleState, runStarted, failed, faults>>
               /\ workErr = "deadline" => workErr' = "deadline"
      BY <1>1, <1>3, <2>1, <2>4, <3>3 DEF AbortInv
    <3> QED
      BY <2>2, <3>1, <3>2, <3>3
  <2> QED
    BY <2>3, <2>4
<1> QED
  BY <1>2, <1>3

\* Wherever one dependency of an execution fails, the snapshot abort() leaves has only terminal
\* roles, unless the run deadline had passed.  A second fault may strand a role.
THEOREM AbortFinalizesOneFault == Spec => [](MaxFaults <= 1 => AbortFinalizes)
<1>1. Inductive /\ (MaxFaults <= 1 => AbortInv) => (MaxFaults <= 1 => AbortFinalizes)
  <2> SUFFICES ASSUME Inductive, AbortInv, pc = "done", workErr # "deadline" PROVE AllRolesTerminal
    BY DEF AbortFinalizes
  <2> QED
    BY AllEndedAtTheEnd DEF AbortInv, Cancelling
<1>2. Init => (MaxFaults <= 1 => AbortInv)
  BY AbortInit
<1>3. Inductive /\ (MaxFaults <= 1 => AbortInv) /\ [Next]_vars => (MaxFaults <= 1 => AbortInv)'
  BY AbortNext
<1> QED
  BY <1>1, <1>2, <1>3, InductiveInit, InductiveNext, PTL DEF Spec
=============================================================================
