------------------------------ MODULE RunBudget ------------------------------
(***************************************************************************)
(* The budget of a run (app/review/budget.go): every selected role is        *)
(* charged two invocations of its provider and one transition, and the run   *)
(* the bound of a list schedule over the lanes it may use at once.           *)
(* Durations are seconds; an addition saturates at MaxDuration and is         *)
(* reported as an overflow.                                                  *)
(***************************************************************************)
EXTENDS Integers, FiniteSets, FiniteSetsExt, Sequences, SequencesExt, Functions

CONSTANTS MaxDuration

maxBudgetInvocationsPerRole == 2
maxBudgetInvocationsPerRun == 14
maxBudgetProviderTimeout == 3600
budgetTransitionGrace == 2
budgetRunGrace == 5

topologyDeadlineCeiling == maxBudgetProviderTimeout * maxBudgetInvocationsPerRun + budgetTransitionGrace * (maxBudgetInvocationsPerRun \div maxBudgetInvocationsPerRole)

DefaultHarnessCeilings ==
  [timeout |-> maxBudgetProviderTimeout, path |-> topologyDeadlineCeiling, run |-> topologyDeadlineCeiling + budgetRunGrace,
   perRole |-> maxBudgetInvocationsPerRole, perRun |-> maxBudgetInvocationsPerRun]

validateHarnessCeilings(c) ==
  /\ c.timeout \in 1 .. maxBudgetProviderTimeout /\ c.path \in 1 .. topologyDeadlineCeiling
  /\ c.run \in 1 .. topologyDeadlineCeiling + budgetRunGrace
  /\ c.perRole \in 1 .. maxBudgetInvocationsPerRole /\ c.perRun \in 1 .. maxBudgetInvocationsPerRun

(* accumulateRunBudget(): the path of a role, whose provider has the timeout. *)
PathDeadline(timeout) == 2 * timeout + budgetTransitionGrace
CriticalPath(budgets) == Max({PathDeadline(budgets[r]) : r \in DOMAIN budgets})
TotalWork(budgets) == MapThenSumSet(LAMBDA r : PathDeadline(budgets[r]), DOMAIN budgets)

(* W/C + (1-1/C)L, rounded upward; L alone when every path has a lane.        *)
CeilDiv(n, d) == (n + d - 1) \div d
capacityDeadline(total, critical, capacity, count) ==
  IF capacity >= count THEN critical
  ELSE Max({CeilDiv(total + critical * (capacity - 1), capacity), critical})

RunDeadline(budgets, lanes) ==
  budgetRunGrace + capacityDeadline(TotalWork(budgets), CriticalPath(budgets), lanes, Cardinality(DOMAIN budgets))

Overflows(budgets, lanes) ==
  TotalWork(budgets) + CriticalPath(budgets) * (IF lanes < Cardinality(DOMAIN budgets) THEN lanes - 1 ELSE 0) > MaxDuration

(* The limits of each role: its timeout, and its attempt with one repair.     *)
validateRouteCaps(budgets, ceilings) ==
  CASE \E r \in DOMAIN budgets : budgets[r] > ceilings.timeout -> "invocation_cap_exceeded"
    [] (\A r \in DOMAIN budgets : budgets[r] <= ceilings.timeout) /\ 2 > ceilings.perRole -> "role_invocation_limit"
    [] OTHER -> "eligible"

(* PreflightRunBudgetWithCapacity(): the reason of the receipt.  The roles    *)
(* selected are distinct and their timeouts positive.                        *)
Preflight(budgets, ceilings, lanes) ==
  CASE ~validateHarnessCeilings(ceilings) \/ lanes < 1 -> "invalid_ceilings"
    [] OTHER ->
  CASE Overflows(budgets, lanes) -> "invocation_cap_exceeded"
    [] OTHER ->
  CASE validateRouteCaps(budgets, ceilings) # "eligible" -> validateRouteCaps(budgets, ceilings)
    [] OTHER ->
  CASE 2 * Cardinality(DOMAIN budgets) > ceilings.perRun -> "run_invocation_limit"
    [] OTHER ->
  CASE CriticalPath(budgets) > ceilings.path -> "role_path_deadline_limit"
    [] CriticalPath(budgets) <= ceilings.path /\ RunDeadline(budgets, lanes) > ceilings.run -> "run_deadline_limit"
    [] OTHER -> "eligible"

-----------------------------------------------------------------------------
(* One wave: its invocations are taken in the order of the roles, each by the *)
(* worker that is free first (dispatchWave(), runWorker()).                   *)
Assign(loads, duration) ==
  LET lane == CHOOSE l \in DOMAIN loads : \A m \in DOMAIN loads : loads[l] <= loads[m]
  IN [loads EXCEPT ![lane] = @ + duration]
WaveSpan(durations, lanes) ==
  Max(Range(FoldLeft(LAMBDA loads, duration : Assign(loads, duration), [l \in 1 .. lanes |-> 0], durations)))

(* What a wave may take: an invocation is absent or over at once, or takes    *)
(* its whole timeout.                                                         *)
WaveSpans(budgets, lanes) ==
  {WaveSpan([r \in DOMAIN budgets |-> IF r \in whole THEN budgets[r] ELSE 0], lanes) : whole \in SUBSET DOMAIN budgets}

(* The run deadline covers the two waves of a run that has its lanes to        *)
(* itself, for any invocations that use their whole timeout: the second wave   *)
(* (repairs, retries, extractions) starts when every invocation of the first   *)
(* has ended and was committed (coordinator.go, the wave loop), although       *)
(* budget.go:365 justifies the bound by paths that do not wait for each other. *)
(* The commits of the wave take one transition's grace together, not one each. *)
DeadlineCoversSchedules(budgets, lanes) ==
  LET spans == WaveSpans(budgets, lanes)
  IN \A first \in spans, second \in spans :
       first + budgetTransitionGrace + second <= RunDeadline(budgets, lanes) - budgetRunGrace

(* An eligible receipt was computed without overflow, and the default          *)
(* ceilings admit every selection of at most seven roles.                     *)
EligibleIsExact(budgets, lanes) ==
  LET reason == Preflight(budgets, DefaultHarnessCeilings, lanes)
  IN /\ reason = "eligible" => ~Overflows(budgets, lanes)
     /\ (lanes >= 1 /\ \A r \in DOMAIN budgets : budgets[r] <= maxBudgetProviderTimeout) => reason = "eligible"

=============================================================================
