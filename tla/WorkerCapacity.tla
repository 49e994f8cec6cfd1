--------------------------- MODULE WorkerCapacity ---------------------------
(***************************************************************************)
(* The process-wide worker capacity authority of                           *)
(* internal/app/review/invocation_scheduler.go and the schedulers that     *)
(* share it.  Every review run in the process (the MCP server executes     *)
(* several at once) registers its own lane limit, starts that many worker  *)
(* goroutines and lets each of them take one process-wide slot around a    *)
(* provider invocation.  The strictest registered limit governs everyone.  *)
(*                                                                         *)
(* A waiter captures the `changed' channel under the mutex and then        *)
(* selects on it outside: signalLocked closes that channel and installs a  *)
(* fresh one, so a signal turns every blocked waiter into a woken one and  *)
(* reaches nobody who blocks later.  What a job does inside its slot, and  *)
(* the start gate before it, belong to module Coordinator.                 *)
(***************************************************************************)
EXTENDS Integers, FiniteSets

CONSTANTS
    Runs,        \* the coordinator executions of this process
    Limit,       \* Limit[r]: the maxActiveLanes run r is created with
    JobsPerRun   \* bound: jobs a run admits over its life (maxJobs)

\* config admission refuses a lane limit below one.
ASSUME CapacityAssumption ==
    /\ Limit \in [Runs -> Nat \ {0}]
    /\ JobsPerRun \in Nat

VARIABLES
    run,         \* run[r]: the scheduler of r: new, open, closing or closed
    admitted,    \* admitted[r]: jobs admitted so far
    queued,      \* queued[r]: jobs in the channel
    cancelled,   \* the runs whose scheduler context is done
    worker,      \* worker[w]: where the goroutine is
    active,      \* authority.active
    limits,      \* authority.limits: how many registrations name each limit
    inherited    \* history: the slot holders at the time r registered

vars == <<run, admitted, queued, cancelled, worker, active, limits, inherited>>

Workers == UNION {{r} \X (1..Limit[r]) : r \in Runs}

WorkersOf(r) == {w \in Workers : w[1] = r}

WorkerStates == {"idle", "ready", "blocked", "woken", "holding"}

LimitValues == {Limit[r] : r \in Runs}

Registered == {v \in LimitValues : limits[v] > 0}

\* The map iteration order does not matter: the result is the least key, or 0
\* when no registration is live.
EffectiveLimit ==
    IF Registered = {} THEN 0
    ELSE CHOOSE v \in Registered : \A u \in Registered : v <= u

\* close(changed) and a new channel: whoever selects on the old one wakes up.
Signalled(workers) ==
    [w \in Workers |-> IF workers[w] = "blocked" THEN "woken" ELSE workers[w]]

Holders == {w \in Workers : worker[w] = "holding"}

Blocked == {w \in Workers : worker[w] = "blocked"}

-----------------------------------------------------------------------------
Init ==
    /\ run = [r \in Runs |-> "new"]
    /\ admitted = [r \in Runs |-> 0]
    /\ queued = [r \in Runs |-> 0]
    /\ cancelled = {}
    /\ worker = [w \in Workers |-> "idle"]
    /\ active = 0
    /\ limits = [v \in LimitValues |-> 0]
    /\ inherited = [r \in Runs |-> {}]

\* newInvocationScheduler: register the limit, then start the lanes.
Register(r) ==
    /\ run[r] = "new"
    /\ run' = [run EXCEPT ![r] = "open"]
    /\ limits' = [limits EXCEPT ![Limit[r]] = @ + 1]
    /\ worker' = Signalled(worker)
    /\ inherited' = [inherited EXCEPT ![r] = Holders]
    /\ UNCHANGED <<admitted, queued, cancelled, active>>

\* admitWithGate: refused once the queue is closed or the context is done.
Admit(r) ==
    /\ run[r] = "open"
    /\ r \notin cancelled
    /\ admitted[r] < JobsPerRun
    /\ admitted' = [admitted EXCEPT ![r] = @ + 1]
    /\ queued' = [queued EXCEPT ![r] = @ + 1]
    /\ UNCHANGED <<run, cancelled, worker, active, limits, inherited>>

\* The parent context ends, or the coordinator calls cancelDispatch.
Cancel(r) ==
    /\ run[r] \in {"open", "closing"}
    /\ r \notin cancelled
    /\ cancelled' = cancelled \union {r}
    /\ UNCHANGED <<run, admitted, queued, worker, active, limits, inherited>>

\* runWorker receives a job and runJob samples the context before it asks for
\* a slot; a cancelled job is answered on the spot.
Take(w) ==
    /\ worker[w] = "idle"
    /\ queued[w[1]] > 0
    /\ queued' = [queued EXCEPT ![w[1]] = @ - 1]
    /\ worker' = IF w[1] \in cancelled THEN worker
                 ELSE [worker EXCEPT ![w] = "ready"]
    /\ UNCHANGED <<run, admitted, cancelled, active, limits, inherited>>

\* Mutant: a waiter that was woken does not ask again.
AcquireOnce(w) ==
    /\ worker[w] = "ready"
    /\ IF active < EffectiveLimit
       THEN /\ worker' = [worker EXCEPT ![w] = "holding"]
            /\ active' = active + 1
       ELSE /\ worker' = [worker EXCEPT ![w] = "blocked"]
            /\ UNCHANGED active
    /\ UNCHANGED <<run, admitted, queued, cancelled, limits, inherited>>

\* Mutant: the limit itself still admits one more.
AcquireOffByOne(w) ==
    /\ worker[w] \in {"ready", "woken"}
    /\ IF active <= EffectiveLimit
       THEN /\ worker' = [worker EXCEPT ![w] = "holding"]
            /\ active' = active + 1
       ELSE /\ worker' = [worker EXCEPT ![w] = "blocked"]
            /\ UNCHANGED active
    /\ UNCHANGED <<run, admitted, queued, cancelled, limits, inherited>>

\* One turn of acquire's loop under the mutex: take a slot, or capture the
\* channel and block on it.  The context is not looked at here.
Acquire(w) ==
    /\ worker[w] \in {"ready", "woken"}
    /\ IF active < EffectiveLimit
       THEN /\ worker' = [worker EXCEPT ![w] = "holding"]
            /\ active' = active + 1
       ELSE /\ worker' = [worker EXCEPT ![w] = "blocked"]
            /\ UNCHANGED active
    /\ UNCHANGED <<run, admitted, queued, cancelled, limits, inherited>>

\* Mutant: the deferred release is installed before acquire has succeeded.
AbandonReleasing(w) ==
    /\ worker[w] \in {"blocked", "woken"}
    /\ w[1] \in cancelled
    /\ active' = active - 1
    /\ worker' = Signalled([worker EXCEPT ![w] = "idle"])
    /\ UNCHANGED <<run, admitted, queued, cancelled, limits, inherited>>

\* The select takes ctx.Done, which it may also do when the channel is closed.
Abandon(w) ==
    /\ worker[w] \in {"blocked", "woken"}
    /\ w[1] \in cancelled
    /\ worker' = [worker EXCEPT ![w] = "idle"]
    /\ UNCHANGED <<run, admitted, queued, cancelled, active, limits, inherited>>

\* Mutant: the slot is returned and nobody is told.
ReleaseSilently(w) ==
    /\ worker[w] = "holding"
    /\ active' = active - 1
    /\ worker' = [worker EXCEPT ![w] = "idle"]
    /\ UNCHANGED <<run, admitted, queued, cancelled, limits, inherited>>

\* runJob returns, whatever happened inside the slot, and its deferred
\* releaseSlot runs.
Release(w) ==
    /\ worker[w] = "holding"
    /\ active' = active - 1
    /\ worker' = Signalled([worker EXCEPT ![w] = "idle"])
    /\ UNCHANGED <<run, admitted, queued, cancelled, limits, inherited>>

\* close: no further admission; the queued jobs are still drained.
CloseQueue(r) ==
    /\ run[r] = "open"
    /\ run' = [run EXCEPT ![r] = "closing"]
    /\ UNCHANGED <<admitted, queued, cancelled, worker, active, limits, inherited>>

\* close after workers.Wait: unregister the limit, then cancel the context.
Unregister(r) ==
    /\ run[r] = "closing"
    /\ queued[r] = 0
    /\ \A w \in WorkersOf(r) : worker[w] = "idle"
    /\ run' = [run EXCEPT ![r] = "closed"]
    /\ limits' = [limits EXCEPT ![Limit[r]] = @ - 1]
    /\ worker' = Signalled(worker)
    /\ cancelled' = cancelled \union {r}
    /\ UNCHANGED <<admitted, queued, active, inherited>>

\* Every run of the process has ended.
Finished ==
    /\ \A r \in Runs : run[r] = "closed"
    /\ UNCHANGED vars

RunStep(r) == Register(r) \/ Admit(r) \/ Cancel(r) \/ CloseQueue(r) \/ Unregister(r)

WorkerStep(w) == Take(w) \/ Acquire(w) \/ Abandon(w) \/ Release(w)

Next ==
    \/ \E r \in Runs : RunStep(r)
    \/ \E w \in Workers : WorkerStep(w)
    \/ Finished

Spec == Init /\ [][Next]_vars

\* A goroutine that can run does, a provider invocation ends (its process
\* timeout), and a coordinator that has started ends up closing its scheduler.
\* Nothing makes the grant itself fair between waiters, and no run has to start.
FairSpec ==
    /\ Spec
    /\ \A r \in Runs : WF_vars(CloseQueue(r)) /\ WF_vars(Unregister(r))
    /\ \A w \in Workers : WF_vars(Take(w)) /\ WF_vars(Acquire(w)) /\ WF_vars(Release(w))

-----------------------------------------------------------------------------
\* Shape of the state: invocation_scheduler.go processWorkerCapacityAuthority.
TypeOK ==
    /\ run \in [Runs -> {"new", "open", "closing", "closed"}]
    /\ admitted \in [Runs -> 0..JobsPerRun]
    /\ queued \in [Runs -> Nat]
    /\ cancelled \subseteq Runs
    /\ worker \in [Workers -> WorkerStates]
    /\ active \in Nat
    /\ limits \in [LimitValues -> Nat]
    /\ inherited \in [Runs -> SUBSET Workers]

OpenRuns == {r \in Runs : run[r] \in {"open", "closing"}}

\* No lost wake-up (acquire, releaseSlot, register, unregister): a waiter sits
\* on a channel nobody has closed only while there is really no slot for it.
\* A release or a relaxed limit between the capture of the channel and the
\* select must not be missed.
NoLostWakeup ==
    Blocked # {} => ~(active < EffectiveLimit)

\* The slot counter is the number of jobs inside a slot (acquire, releaseSlot
\* on every return path of runJob), so no slot leaks and none is returned twice.
SlotsConserved == active = Cardinality(Holders)

\* What the bag of limits stands for: one count per live run, by its limit.
OpenWith(v) == {r \in OpenRuns : Limit[r] = v}

\* The limit in force is the strictest limit of a live run (register,
\* unregister, effectiveLimitLocked): runs with equal limits share a map key,
\* and the first of them to end must not drop the limit of the others.
StrictestLiveLimit ==
    /\ \A r \in OpenRuns : EffectiveLimit <= Limit[r]
    /\ OpenRuns # {} => \E r \in OpenRuns : EffectiveLimit = Limit[r]

\* A live run never shares the process with more slot holders than its own
\* limit, apart from the ones that were already running when it registered:
\* whatever was registered, released or closed since, by any other run.
GrantsBounded ==
    \A r \in OpenRuns : Cardinality(Holders \ inherited[r]) <= Limit[r]

\* Every run that has registered ends: no job waits for ever for a slot, and
\* close's workers.Wait returns, although a grant favours no waiter.
RunsEnd == \A r \in Runs : run[r] = "open" ~> run[r] = "closed"

=============================================================================
