------------------------ MODULE WorkerCapacityProofs ------------------------
(***************************************************************************)
(* Proofs about the process-wide worker capacity authority, for any number *)
(* of runs (Runs need not be finite: a server process executes ever more   *)
(* of them), any lane limits and any number of jobs.                       *)
(*                                                                         *)
(* The inductive invariant adds to the checked properties what the two     *)
(* counters count: `active' the workers inside a slot, and each entry of   *)
(* `limits' the live runs that named this limit.                           *)
(***************************************************************************)
EXTENDS WorkerCapacity, FiniteSetTheorems, WellFoundedInduction, TLAPS

SlotCount == IsFiniteSet(Holders) /\ SlotsConserved

LimitCount == \A v \in LimitValues : IsFiniteSet(OpenWith(v)) /\ limits[v] = Cardinality(OpenWith(v))

CapacityInv == TypeOK /\ SlotCount /\ LimitCount /\ NoLostWakeup /\ GrantsBounded

-----------------------------------------------------------------------------
\* A nonempty set of naturals has a least element.
LEMMA LeastNumber ==
  ASSUME NEW T \in SUBSET Nat, T # {}
  PROVE  \E x \in T : \A y \in T : x <= y
<1>1. PICK x \in T : \A y \in T : ~(<<y, x>> \in OpToRel(<, Nat))
  BY NatLessThanWellFounded, WFMin, Zenon
<1>2. \A y \in T : ~(y < x)
  BY <1>1 DEF OpToRel
<1> QED
  BY <1>2

LEMMA LimitsAreNaturals == LimitValues \subseteq Nat \ {0}
BY CapacityAssumption DEF LimitValues

\* The bag of limits makes the effective limit the strictest live one.
LEMMA StrictestFromCount ==
  ASSUME TypeOK, LimitCount
  PROVE  StrictestLiveLimit
<1>1. \A r \in OpenRuns : Limit[r] \in Registered
  <2> TAKE r \in OpenRuns
  <2>1. r \in OpenWith(Limit[r]) /\ Limit[r] \in LimitValues
    BY DEF OpenWith, OpenRuns, LimitValues
  <2>2. Cardinality(OpenWith(Limit[r])) \in Nat /\ Cardinality(OpenWith(Limit[r])) # 0
    BY <2>1, FS_EmptySet, FS_CardinalityType DEF LimitCount
  <2>3. limits[Limit[r]] > 0
    BY <2>1, <2>2 DEF LimitCount
  <2> QED
    BY <2>1, <2>3 DEF Registered
<1>2. \A v \in Registered : \E r \in OpenRuns : Limit[r] = v
  <2> TAKE v \in Registered
  <2>1. v \in LimitValues /\ limits[v] > 0
    BY DEF Registered
  <2>2. OpenWith(v) # {}
    BY <2>1, FS_EmptySet DEF LimitCount
  <2> QED
    BY <2>2 DEF OpenWith
<1>3. CASE OpenRuns = {}
  BY <1>3 DEF StrictestLiveLimit
<1>4. CASE OpenRuns # {}
  <2>1. Registered # {} /\ Registered \in SUBSET Nat
    BY <1>1, <1>4, LimitsAreNaturals DEF Registered
  <2>2. EffectiveLimit \in Registered /\ \A u \in Registered : EffectiveLimit <= u
    BY <2>1, LeastNumber DEF EffectiveLimit
  <2> QED
    BY <1>1, <1>2, <2>2 DEF StrictestLiveLimit
<1> QED
  BY <1>3, <1>4

LEMMA EffectiveLimitType == EffectiveLimit \in Nat
<1>1. CASE Registered = {}
  BY <1>1 DEF EffectiveLimit
<1>2. CASE Registered # {}
  <2>1. Registered \in SUBSET Nat
    BY LimitsAreNaturals DEF Registered
  <2>2. EffectiveLimit \in Registered
    BY <1>2, <2>1, LeastNumber DEF EffectiveLimit
  <2> QED
    BY <2>1, <2>2
<1> QED
  BY <1>1, <1>2

\* A signal leaves nobody blocked and moves nobody into or out of a slot.
LEMMA SignalEffect ==
  ASSUME NEW f \in [Workers -> WorkerStates], worker' = Signalled(f)
  PROVE  /\ worker' \in [Workers -> WorkerStates]
         /\ Blocked' = {}
         /\ Holders' = {w \in Workers : f[w] = "holding"}
<1>1. \A w \in Workers : worker'[w] = IF f[w] = "blocked" THEN "woken" ELSE f[w]
  BY DEF Signalled
<1>2. worker' \in [Workers -> WorkerStates]
  BY <1>1 DEF Signalled, WorkerStates
<1> QED
  BY <1>1, <1>2 DEF Blocked, Holders

-----------------------------------------------------------------------------
\* Preservation of each part by one step.

LEMMA InitCapacity == Init => CapacityInv
<1> SUFFICES ASSUME Init PROVE CapacityInv
  OBVIOUS
<1>1. Holders = {} /\ Blocked = {} /\ OpenRuns = {}
  BY DEF Init, Holders, Blocked, OpenRuns
<1>2. TypeOK
  BY CapacityAssumption DEF Init, TypeOK, WorkerStates
<1>3. SlotCount
  BY <1>1, FS_EmptySet DEF Init, SlotCount, SlotsConserved
<1>4. LimitCount
  <2>1. \A v \in LimitValues : OpenWith(v) = {}
    BY <1>1 DEF OpenWith
  <2> QED
    BY <2>1, FS_EmptySet DEF Init, LimitCount
<1> QED
  BY <1>1, <1>2, <1>3, <1>4 DEF CapacityInv, NoLostWakeup, GrantsBounded

\* The slot counter follows the workers inside a slot.
LEMMA SlotCountStep ==
  ASSUME TypeOK, SlotCount, [Next]_vars
  PROVE  SlotCount' /\ active' \in Nat /\ worker' \in [Workers -> WorkerStates]
<1> DEFINE Goal == SlotCount' /\ active' \in Nat /\ worker' \in [Workers -> WorkerStates]
<1>0. /\ worker \in [Workers -> WorkerStates] /\ active \in Nat
      /\ IsFiniteSet(Holders) /\ active = Cardinality(Holders)
  BY DEF TypeOK, SlotCount, SlotsConserved
<1>a. ASSUME Holders' = Holders, active' = active PROVE SlotCount' /\ active' \in Nat
  BY <1>0, <1>a DEF SlotCount, SlotsConserved
<1>b. ASSUME UNCHANGED <<worker, active>> PROVE Goal
  <2>1. Holders' = Holders
    BY <1>b DEF Holders
  <2> QED
    BY <1>0, <1>a, <1>b, <2>1
<1>c. ASSUME worker' = Signalled(worker), UNCHANGED active PROVE Goal
  <2>1. Holders' = Holders /\ worker' \in [Workers -> WorkerStates]
    BY <1>0, <1>c, SignalEffect DEF Holders
  <2> QED
    BY <1>a, <1>c, <2>1
<1>1. ASSUME NEW r \in Runs, RunStep(r) PROVE Goal
  BY <1>1, <1>b, <1>c DEF RunStep, Register, Admit, Cancel, CloseQueue, Unregister
<1>2. ASSUME NEW w \in Workers, WorkerStep(w) PROVE Goal
  <2>1. CASE Take(w)
    <3>1. Holders' = Holders /\ worker' \in [Workers -> WorkerStates]
      BY <1>0, <2>1 DEF Take, Holders, WorkerStates
    <3> QED
      BY <1>a, <2>1, <3>1 DEF Take
  <2>2. CASE Acquire(w) /\ active < EffectiveLimit
    <3>1. /\ worker' = [worker EXCEPT ![w] = "holding"]
          /\ active' = active + 1
          /\ w \notin Holders
      BY <2>2 DEF Acquire, Holders
    <3>2. Holders' = Holders \union {w} /\ worker' \in [Workers -> WorkerStates]
      BY <1>0, <3>1 DEF Holders, WorkerStates
    <3>3. IsFiniteSet(Holders') /\ Cardinality(Holders') = Cardinality(Holders) + 1
      BY <1>0, <3>1, <3>2, FS_AddElement
    <3> QED
      BY <1>0, <3>1, <3>2, <3>3 DEF SlotCount, SlotsConserved
  <2>3. CASE Acquire(w) /\ ~(active < EffectiveLimit)
    <3>1. Holders' = Holders /\ worker' \in [Workers -> WorkerStates]
      BY <1>0, <2>3 DEF Acquire, Holders, WorkerStates
    <3> QED
      BY <1>a, <2>3, <3>1 DEF Acquire
  <2>4. CASE Abandon(w)
    <3>1. Holders' = Holders /\ worker' \in [Workers -> WorkerStates]
      BY <1>0, <2>4 DEF Abandon, Holders, WorkerStates
    <3> QED
      BY <1>a, <2>4, <3>1 DEF Abandon
  <2>5. CASE Release(w)
    <3> DEFINE f == [worker EXCEPT ![w] = "idle"]
    <3>1. f \in [Workers -> WorkerStates] /\ worker' = Signalled(f)
      BY <1>0, <2>5 DEF Release, WorkerStates
    <3>2. Holders' = {x \in Workers : f[x] = "holding"} /\ worker' \in [Workers -> WorkerStates]
      BY <3>1, SignalEffect
    <3>3. Holders' = Holders \ {w} /\ w \in Holders
      BY <1>0, <2>5, <3>2 DEF Release, Holders
    <3>4. IsFiniteSet(Holders') /\ Cardinality(Holders') = Cardinality(Holders) - 1
      BY <1>0, <3>3, FS_RemoveElement
    <3>5. Cardinality(Holders') \in Nat
      BY <3>4, FS_CardinalityType
    <3> QED
      BY <1>0, <2>5, <3>2, <3>4, <3>5 DEF Release, SlotCount, SlotsConserved
  <2> QED
    BY <1>2, <2>1, <2>2, <2>3, <2>4, <2>5 DEF WorkerStep
<1> QED
  BY <1>1, <1>2, <1>b DEF Next, Finished, vars

\* The bag of limits follows the live runs.
LEMMA LimitCountStep ==
  ASSUME TypeOK, LimitCount, [Next]_vars
  PROVE  LimitCount' /\ limits' \in [LimitValues -> Nat]
<1> DEFINE Goal == LimitCount' /\ limits' \in [LimitValues -> Nat]
<1>0. /\ run \in [Runs -> {"new", "open", "closing", "closed"}]
      /\ limits \in [LimitValues -> Nat]
  BY DEF TypeOK
<1>a. ASSUME OpenRuns' = OpenRuns, limits' = limits PROVE Goal
  <2>1. \A v \in LimitValues : OpenWith(v)' = OpenWith(v)
    BY <1>a DEF OpenWith
  <2> QED
    BY <1>0, <1>a, <2>1 DEF LimitCount
<1>1. ASSUME NEW r \in Runs, Register(r) PROVE Goal
  <2>1. r \notin OpenRuns /\ OpenRuns' = OpenRuns \union {r}
    BY <1>0, <1>1 DEF Register, OpenRuns
  <2>2. Limit[r] \in LimitValues
    BY DEF LimitValues
  <2>3. limits' = [limits EXCEPT ![Limit[r]] = @ + 1]
    BY <1>1 DEF Register
  <2>4. ASSUME NEW v \in LimitValues
        PROVE  IsFiniteSet(OpenWith(v)') /\ limits'[v] = Cardinality(OpenWith(v)')
    <3>1. CASE v = Limit[r]
      <4>1. OpenWith(v)' = OpenWith(v) \union {r} /\ r \notin OpenWith(v)
        BY <2>1, <3>1 DEF OpenWith
      <4>2. /\ IsFiniteSet(OpenWith(v) \union {r})
            /\ Cardinality(OpenWith(v) \union {r}) = Cardinality(OpenWith(v)) + 1
        BY <4>1, FS_AddElement DEF LimitCount
      <4> QED
        BY <1>0, <2>3, <3>1, <4>1, <4>2 DEF LimitCount
    <3>2. CASE v # Limit[r]
      <4>1. OpenWith(v)' = OpenWith(v)
        BY <2>1, <3>2 DEF OpenWith
      <4> QED
        BY <1>0, <2>3, <3>2, <4>1 DEF LimitCount
    <3> QED
      BY <3>1, <3>2
  <2>5. limits' \in [LimitValues -> Nat]
    BY <1>0, <2>2, <2>3
  <2> QED
    BY <2>4, <2>5 DEF LimitCount
<1>2. ASSUME NEW r \in Runs, Unregister(r) PROVE Goal
  <2>1. r \in OpenRuns /\ OpenRuns' = OpenRuns \ {r}
    BY <1>0, <1>2 DEF Unregister, OpenRuns
  <2>2. Limit[r] \in LimitValues
    BY DEF LimitValues
  <2>3. limits' = [limits EXCEPT ![Limit[r]] = @ - 1]
    BY <1>2 DEF Unregister
  <2>4. ASSUME NEW v \in LimitValues
        PROVE  /\ IsFiniteSet(OpenWith(v)') /\ limits'[v] = Cardinality(OpenWith(v)')
               /\ limits'[v] \in Nat
    <3>1. CASE v = Limit[r]
      <4>1. OpenWith(v)' = OpenWith(v) \ {r} /\ r \in OpenWith(v)
        BY <2>1, <3>1 DEF OpenWith
      <4>2. /\ IsFiniteSet(OpenWith(v) \ {r})
            /\ Cardinality(OpenWith(v) \ {r}) = Cardinality(OpenWith(v)) - 1
        BY <4>1, FS_RemoveElement DEF LimitCount
      <4>3. limits'[v] = limits[v] - 1
        BY <1>0, <2>3, <3>1
      <4>4. Cardinality(OpenWith(v) \ {r}) \in Nat
        BY <4>2, FS_CardinalityType
      <4> QED
        BY <4>1, <4>2, <4>3, <4>4 DEF LimitCount
    <3>2. CASE v # Limit[r]
      <4>1. OpenWith(v)' = OpenWith(v)
        BY <2>1, <3>2 DEF OpenWith
      <4> QED
        BY <1>0, <2>3, <3>2, <4>1 DEF LimitCount
    <3> QED
      BY <3>1, <3>2
  <2>5. limits' \in [LimitValues -> Nat]
    BY <1>0, <2>2, <2>3, <2>4
  <2> QED
    BY <2>4, <2>5 DEF LimitCount
<1>3. ASSUME NEW r \in Runs, Admit(r) \/ Cancel(r) PROVE Goal
  BY <1>3, <1>a DEF Admit, Cancel, OpenRuns
<1>4. ASSUME NEW r \in Runs, CloseQueue(r) PROVE Goal
  <2>1. OpenRuns' = OpenRuns /\ limits' = limits
    BY <1>0, <1>4 DEF CloseQueue, OpenRuns
  <2> QED
    BY <1>a, <2>1
<1>5. ASSUME NEW w \in Workers, WorkerStep(w) PROVE Goal
  BY <1>5, <1>a DEF WorkerStep, Take, Acquire, Abandon, Release, OpenRuns
<1>6. ASSUME UNCHANGED vars PROVE Goal
  BY <1>6, <1>a DEF vars, OpenRuns
<1> QED
  BY <1>1, <1>2, <1>3, <1>4, <1>5, <1>6 DEF Next, RunStep, Finished

\* The rest of the type invariant.
LEMMA CapacityTypes ==
  ASSUME TypeOK, SlotCount, LimitCount, [Next]_vars
  PROVE  TypeOK'
<1>1. /\ active' \in Nat /\ worker' \in [Workers -> WorkerStates]
      /\ limits' \in [LimitValues -> Nat]
  BY SlotCountStep, LimitCountStep
<1> DEFINE QueueTypes == /\ run' \in [Runs -> {"new", "open", "closing", "closed"}]
                         /\ admitted' \in [Runs -> 0..JobsPerRun]
                         /\ queued' \in [Runs -> Nat]
                         /\ cancelled' \subseteq Runs
<1>2. QueueTypes
  <2>1. ASSUME NEW r \in Runs, RunStep(r) PROVE QueueTypes
    BY <2>1, CapacityAssumption
       DEF TypeOK, RunStep, Register, Admit, Cancel, CloseQueue, Unregister
  <2>2. ASSUME NEW w \in Workers, WorkerStep(w) PROVE QueueTypes
    <3>1. w[1] \in Runs
      BY DEF Workers
    <3> QED
      BY <2>2, <3>1 DEF TypeOK, WorkerStep, Take, Acquire, Abandon, Release
  <2> QED
    BY <2>1, <2>2 DEF Next, Finished, vars, TypeOK
<1>3. inherited' \in [Runs -> SUBSET Workers]
  <2>1. Holders \subseteq Workers
    BY DEF Holders
  <2> QED
    BY <2>1 DEF TypeOK, Next, RunStep, WorkerStep, Register, Admit, Cancel, CloseQueue,
                Unregister, Take, Acquire, Abandon, Release, Finished, vars
<1> QED
  BY <1>1, <1>2, <1>3 DEF TypeOK

\* Only a signal can create room, and it wakes every waiter.
LEMMA WakeupStep ==
  ASSUME TypeOK, NoLostWakeup, [Next]_vars
  PROVE  NoLostWakeup'
<1>0. worker \in [Workers -> WorkerStates] /\ active \in Nat /\ EffectiveLimit \in Nat
  BY EffectiveLimitType DEF TypeOK
<1>a. ASSUME UNCHANGED <<active, limits>>, Blocked' \subseteq Blocked PROVE NoLostWakeup'
  <2>1. EffectiveLimit' = EffectiveLimit
    BY <1>a DEF EffectiveLimit, Registered
  <2> QED
    BY <1>a, <2>1 DEF NoLostWakeup
<1>b. ASSUME NEW f \in [Workers -> WorkerStates], worker' = Signalled(f) PROVE NoLostWakeup'
  BY <1>b, SignalEffect DEF NoLostWakeup
<1>1. ASSUME NEW r \in Runs, Register(r) \/ Unregister(r) PROVE NoLostWakeup'
  BY <1>0, <1>1, <1>b DEF Register, Unregister
<1>2. ASSUME NEW r \in Runs, Admit(r) \/ Cancel(r) \/ CloseQueue(r) PROVE NoLostWakeup'
  BY <1>2, <1>a DEF Admit, Cancel, CloseQueue, Blocked
<1>3. ASSUME NEW w \in Workers, Take(w) \/ Abandon(w) PROVE NoLostWakeup'
  <2>1. Blocked' \subseteq Blocked
    BY <1>0, <1>3 DEF Take, Abandon, Blocked
  <2> QED
    BY <1>3, <1>a, <2>1 DEF Take, Abandon
<1>4. ASSUME NEW w \in Workers, Acquire(w) PROVE NoLostWakeup'
  <2>1. EffectiveLimit' = EffectiveLimit
    BY <1>4 DEF Acquire, EffectiveLimit, Registered
  <2>2. CASE active < EffectiveLimit
    <3>1. Blocked' = {}
      BY <1>0, <1>4, <2>2 DEF Acquire, Blocked, NoLostWakeup
    <3> QED
      BY <3>1 DEF NoLostWakeup
  <2>3. CASE ~(active < EffectiveLimit)
    BY <1>4, <2>1, <2>3 DEF Acquire, NoLostWakeup
  <2> QED
    BY <2>2, <2>3
<1>5. ASSUME NEW w \in Workers, Release(w) PROVE NoLostWakeup'
  <2>1. [worker EXCEPT ![w] = "idle"] \in [Workers -> WorkerStates]
    BY <1>0 DEF WorkerStates
  <2> QED
    BY <1>5, <1>b, <2>1 DEF Release
<1>6. ASSUME UNCHANGED vars PROVE NoLostWakeup'
  BY <1>6, <1>a DEF vars, Blocked
<1> QED
  BY <1>1, <1>2, <1>3, <1>4, <1>5, <1>6 DEF Next, RunStep, WorkerStep, Finished

\* A grant respects every live limit, and no other step adds a holder that a
\* live run has not inherited.
LEMMA GrantsStep ==
  ASSUME TypeOK, SlotCount, LimitCount, GrantsBounded, [Next]_vars
  PROVE  GrantsBounded'
<1>0. /\ worker \in [Workers -> WorkerStates] /\ active \in Nat
      /\ run \in [Runs -> {"new", "open", "closing", "closed"}]
      /\ inherited \in [Runs -> SUBSET Workers]
      /\ IsFiniteSet(Holders) /\ active = Cardinality(Holders)
      /\ IsFiniteSet(Holders') /\ active' = Cardinality(Holders')
  BY SlotCountStep DEF TypeOK, SlotCount, SlotsConserved
<1>1. ASSUME OpenRuns' \subseteq OpenRuns, inherited' = inherited, Holders' \subseteq Holders
      PROVE  GrantsBounded'
  <2> SUFFICES ASSUME NEW q \in OpenRuns' 
               PROVE  Cardinality(Holders' \ inherited'[q]) <= Limit[q]
    BY DEF GrantsBounded
  <2>1. q \in OpenRuns /\ Cardinality(Holders \ inherited[q]) <= Limit[q] /\ Limit[q] \in Nat
    BY <1>1, CapacityAssumption DEF GrantsBounded, OpenRuns
  <2>2. IsFiniteSet(Holders \ inherited[q])
    BY <1>0, FS_Subset
  <2>3. (Holders' \ inherited'[q]) \in SUBSET (Holders \ inherited[q])
    BY <1>1
  <2>4. Cardinality(Holders' \ inherited'[q]) <= Cardinality(Holders \ inherited[q])
    BY <2>2, <2>3, FS_Subset
  <2>5. /\ Cardinality(Holders \ inherited[q]) \in Nat
        /\ Cardinality(Holders' \ inherited'[q]) \in Nat
    BY <2>2, <2>3, FS_Subset, FS_CardinalityType
  <2> QED
    BY <2>1, <2>4, <2>5
<1>2. ASSUME NEW r \in Runs, Register(r) PROVE GrantsBounded'
  <2>1. Holders' = Holders
    BY <1>0, <1>2, SignalEffect DEF Register, Holders
  <2> SUFFICES ASSUME NEW q \in OpenRuns'
               PROVE  Cardinality(Holders' \ inherited'[q]) <= Limit[q]
    BY DEF GrantsBounded
  <2>2. CASE q = r
    <3>1. Holders' \ inherited'[q] = {}
      BY <1>0, <1>2, <2>1, <2>2 DEF Register
    <3>2. Limit[q] \in Nat
      BY <2>2, CapacityAssumption
    <3> QED
      BY <3>1, <3>2, FS_EmptySet
  <2>3. CASE q # r
    <3>1. q \in OpenRuns /\ inherited'[q] = inherited[q]
      BY <1>0, <1>2, <2>3 DEF Register, OpenRuns
    <3> QED
      BY <2>1, <3>1 DEF GrantsBounded
  <2> QED
    BY <2>2, <2>3
<1>3. ASSUME NEW r \in Runs, Unregister(r) PROVE GrantsBounded'
  <2>1. Holders' = Holders
    BY <1>0, <1>3, SignalEffect DEF Unregister, Holders
  <2>2. OpenRuns' \subseteq OpenRuns /\ inherited' = inherited
    BY <1>0, <1>3 DEF Unregister, OpenRuns
  <2> QED
    BY <1>1, <2>1, <2>2
<1>4. ASSUME NEW r \in Runs, Admit(r) \/ Cancel(r) \/ CloseQueue(r) PROVE GrantsBounded'
  <2>1. OpenRuns' \subseteq OpenRuns /\ inherited' = inherited /\ Holders' = Holders
    BY <1>0, <1>4 DEF Admit, Cancel, CloseQueue, OpenRuns, Holders
  <2> QED
    BY <1>1, <2>1
<1>5. ASSUME NEW w \in Workers, Take(w) \/ Abandon(w) PROVE GrantsBounded'
  <2>1. OpenRuns' = OpenRuns /\ inherited' = inherited /\ Holders' \subseteq Holders
    BY <1>0, <1>5 DEF Take, Abandon, OpenRuns, Holders
  <2> QED
    BY <1>1, <2>1
<1>6. ASSUME NEW w \in Workers, Release(w) PROVE GrantsBounded'
  <2> DEFINE f == [worker EXCEPT ![w] = "idle"]
  <2>1. f \in [Workers -> WorkerStates] /\ worker' = Signalled(f)
    BY <1>0, <1>6 DEF Release, WorkerStates
  <2>2. Holders' = {x \in Workers : f[x] = "holding"}
    BY <2>1, SignalEffect
  <2>3. Holders' \subseteq Holders
    BY <1>0, <2>2 DEF Holders
  <2>4. OpenRuns' = OpenRuns /\ inherited' = inherited
    BY <1>6 DEF Release, OpenRuns
  <2> QED
    BY <1>1, <2>3, <2>4
<1>7. ASSUME NEW w \in Workers, Acquire(w) PROVE GrantsBounded'
  <2>1. OpenRuns' = OpenRuns /\ inherited' = inherited
    BY <1>7 DEF Acquire, OpenRuns
  <2>2. CASE ~(active < EffectiveLimit)
    <3>1. Holders' \subseteq Holders
      BY <1>0, <1>7, <2>2 DEF Acquire, Holders
    <3> QED
      BY <1>1, <2>1, <3>1
  <2>3. CASE active < EffectiveLimit
    <3> SUFFICES ASSUME NEW q \in OpenRuns
                 PROVE  Cardinality(Holders' \ inherited'[q]) <= Limit[q]
      BY <2>1 DEF GrantsBounded
    <3>1. EffectiveLimit <= Limit[q]
      BY StrictestFromCount DEF StrictestLiveLimit
    <3>2. Limit[q] \in Nat /\ EffectiveLimit \in Nat
      BY CapacityAssumption, EffectiveLimitType DEF OpenRuns
    <3>3. active' = active + 1
      BY <1>7, <2>3 DEF Acquire
    <3>4. active' <= Limit[q]
      BY <1>0, <2>3, <3>1, <3>2, <3>3
    <3>5. (Holders' \ inherited'[q]) \in SUBSET Holders'
      OBVIOUS
    <3>6. /\ Cardinality(Holders' \ inherited'[q]) <= Cardinality(Holders')
          /\ Cardinality(Holders' \ inherited'[q]) \in Nat
          /\ Cardinality(Holders') \in Nat
      BY <1>0, <3>5, FS_Subset, FS_CardinalityType
    <3> QED
      BY <1>0, <3>2, <3>4, <3>6
  <2> QED
    BY <2>2, <2>3
<1>8. ASSUME UNCHANGED vars PROVE GrantsBounded'
  <2>1. OpenRuns' = OpenRuns /\ inherited' = inherited /\ Holders' = Holders
    BY <1>8 DEF vars, OpenRuns, Holders
  <2> QED
    BY <1>1, <2>1
<1> QED
  BY <1>2, <1>3, <1>4, <1>5, <1>6, <1>7, <1>8 DEF Next, RunStep, WorkerStep, Finished

-----------------------------------------------------------------------------
\* Every reachable state of the capacity authority satisfies the inductive
\* invariant, whatever runs overlap.
THEOREM CapacityInvariant == Spec => []CapacityInv
<1>1. Init => CapacityInv
  BY InitCapacity
<1>2. CapacityInv /\ [Next]_vars => CapacityInv'
  <2> SUFFICES ASSUME CapacityInv, [Next]_vars PROVE CapacityInv'
    OBVIOUS
  <2>1. TypeOK /\ SlotCount /\ LimitCount /\ NoLostWakeup /\ GrantsBounded
    BY DEF CapacityInv
  <2> QED
    BY <2>1, SlotCountStep, LimitCountStep, CapacityTypes, WakeupStep, GrantsStep
       DEF CapacityInv
<1> QED
  BY <1>1, <1>2, PTL DEF Spec

\* acquire never sleeps through a free slot: a blocked waiter implies a full
\* process, for any number of runs and limits.
THEOREM NoWakeupLost == Spec => []NoLostWakeup
<1>1. CapacityInv => NoLostWakeup
  BY DEF CapacityInv
<1> QED
  BY <1>1, CapacityInvariant, PTL

\* A live run shares the process with at most its own limit of jobs granted
\* since it registered, whatever the other runs do.
THEOREM LiveLimitRespected == Spec => [](GrantsBounded /\ StrictestLiveLimit)
<1>1. CapacityInv => GrantsBounded /\ StrictestLiveLimit
  BY StrictestFromCount DEF CapacityInv
<1> QED
  BY <1>1, CapacityInvariant, PTL

\* No slot leaks: the counter is exactly the number of jobs inside a slot.
THEOREM NoSlotLeaks == Spec => []SlotsConserved
<1>1. CapacityInv => SlotsConserved
  BY DEF CapacityInv, SlotCount
<1> QED
  BY <1>1, CapacityInvariant, PTL
=============================================================================
