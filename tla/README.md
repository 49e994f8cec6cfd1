# A formal model of Mulgae

Mulgae is a local command-line program and MCP server that has several AI
providers review a change, each in one or more roles, and publishes the combined
review in the repository. This directory holds TLA+ modules that model the parts
of it where ordering, concurrency and failure decide correctness, the TLC
configurations that check them, and theorems with proofs that TLAPS checks.

`PROJECT.json` lists the components, the runs, the mutants that show each
property can fail, the source lines the definitions translate, the hazards,
the findings and the theorems. A helper without lines of its own there stands for
lines inside those of the definition that uses it. File names below are relative
to `src/`.

## 1. The system

| component | state it keeps | operations | what is hard about it |
|---|---|---|---|
| review coordinator (`internal/app/review/coordinator.go`) | run, role and attempt aggregates, role outputs, trace, stop condition | admit, start, waves (admit jobs, dispatch, open the gate, collect, commit), repair and extraction, cancelAll, finish, abort | results arrive in any order while contexts end and a peer stops the run; every dependency may fail halfway |
| attempt policy, domain machines (`policy.go`, `internal/domain`) | run, role, attempt, invocation states | reduce the observed conditions, decide the transition | a closed table in which a ceiling separates what is kept from what is lost |
| invocation scheduler (`invocation_scheduler.go`) | job queue, start gates, workers, the process-wide capacity | admit, take, acquire, invoke, report, close and join | joining against gates that never open; lost wakeups; limits that change under held slots |
| MCP invocation registry (`internal/entrypoint/mcp`) | listed invocations, done channels, closed flag | start, execute, await, cancel, evict, shutdown | eviction and identity reuse under a waiting caller; a start racing the shutdown |
| publication service and store (`internal/app/publication/service.go`, `publicationstore_darwin.go`) | candidate, staged and installed final, composite, journal, status, diagnostic | the steps of a publication, observation, classification, recovery | a kill, a failed sync or a power loss between any two steps; epoch numbers shared by all runs |
| publication documents (`internal/app/publication/model.go`) | none | build and re-read final review, manifest, lineage, epoch, journal, status | documents that bind each other and are read by two readers |
| live review run (`internal/app/reviewrun`, `composition`) | source lease, provider authority, private roots, terminal status | compose, admit, qualify, execute, drain, publish, clean up | a lease given back while providers still read; a cleanup that fails; errors that are joined |
| process runner (`internal/adapters/process`) | one process group, pipes, timers, goroutines | start, read, converse, time out, signal, verify, reap | output, exit and kill race; descendants that outlive the leader |
| provider adapters (`internal/adapters/providercli`, `provider_runtime.go`) | wire sessions, namespaces, leases, staging | one invocation with repair and extraction, five wire protocols, qualification, drain | foreign programs that answer late, twice or wrongly; credentials that must be removed |
| configuration and routing (`internal/adapters/config`, `planner.go`, `budget.go`) | none | validate, discover, route, charge | names that are prefixes of each other, sums that overflow |
| report validation, evidence (`internal/app/validation`, `app/evidence`) | none | decode, project, inspect, repair, verify quotes | repairs by position after reordering |
| live source (`internal/adapters/gittarget`) | root descriptor, binding, reader | open, list, read, revalidate | the project moves while it is read |
| query, report, export (`internal/app/query`, `export`) | cursors, chunks, export journal | paged reads, bounded chunks, two-file install | reads across commits and deletions |
| cleanup (`internal/app/clean`) | plans, tombstones | observe, plan, apply, resume | a kill inside a deletion; runs that start while it is planned |
| init (`internal/app/init`) | two files | install, refresh | racing commands without a lock |
| secure writer, diagnostics store (`internal/adapters/filesystem`) | files, log and status | write once; append, finalize, recover | descriptors and paths that part; power loss |

How they interact. The CLI or an MCP tool starts a review. In the MCP server the
registry gives it an identity and a goroutine; callers await or cancel it by
identity. A live run makes private roots, opens its source, qualifies providers
(each in a namespace of its own) and executes the coordinator, which hands jobs
to its scheduler. The schedulers of all runs of one process share one capacity
authority. A job is one attempt of the provider runtime: an adapter renders the
call, the process runner runs it under a protocol driver, the report is
validated and its quotes compared with the source. Only the coordinator
goroutine changes domain state. The accepted reports become a candidate, the
candidate documents, and the publication service writes them through the store
under a file lock; a later process finds interrupted publications on disk,
classifies them and finishes them. Queries, exports and the cleaner read the
same store at any time. Contexts (caller, run deadline, dispatch) end from
outside, by a timer, and by the coordinator itself.

What makes each part correct, in one sentence each: the coordinator ends every
run, with all workers joined, in the state its evidence demands; the capacity
authority loses neither a slot nor a wakeup and honours the limit of every live
run; the registry answers each caller for the invocation it asked about and
drains at shutdown; a publication that was reported stays published, and one
that was interrupted is finished or diagnosed; a live run publishes only what it
read from an unchanged source and answers truly; a returned process run has
earned its observation and leaves nothing behind; a namespace that is reported
drained is gone; a review names the evidence it verified; a query answers with
one committed publication; the cleaner removes only what nobody needs.

## 2. Modules

| module | models |
|---|---|
| `AttemptPolicy`, `ReviewDomain` | the transition table; the state machines |
| `Coordinator` (extends both) | one execution: coordinator, workers, contexts |
| `WorkerCapacity` | the capacity shared by overlapping runs |
| `InvocationRegistry` | the MCP registry, its awaits and its shutdown |
| `Publication` | publication, recovery, the store and its durability |
| `PublicationFiles` | one file operation of that store against others |
| `PublicationCandidate`, `PublicationDocuments`, `PublicationInputs` | results to candidates, documents and their two readers (operators), and the inputs they are checked on |
| `PublicationQuery`, `ContentChunk` | query calls over a changing store; chunks of verified content |
| `ReviewRun` | the contract of a review run (abstract) |
| `LiveRun` | composition, `LiveService.Execute`, its deferred cleanup |
| `ProcessGroup`, `ProcessRunner` | a child with descendants; `Run` in its three modes |
| `ProviderRuntime`, `ProviderAdapter` | one attempt; what one process run is reported as (operators) |
| `ProviderConversation`, `ProviderSession` | the drivers of zcode, grok, cursor, codex and agy as message handlers; a conversation with a provider that answers as it likes |
| `ProviderNamespace`, `ProviderRegistry`, `Qualification` | credentials on disk and their removal; leases and drain; probing and routing proofs |
| `RunBudget`, `ProviderRouting` | the budget receipt; configuration, discovery and routing (operators) |
| `ReportValidation`, `ReportInputs` | reports, repairs, evidence (operators) and their inputs |
| `LiveSource`, `LiveSelection` | the reader of a project that moves; which paths are selected |
| `CleanPlanner`, `Cleanup` | the retention planner; concurrent cleaners |
| `SecureWriter`, `Export`, `InitConfig`, `DiagnosticStore` | the other files on disk |
| `MCWorkerCapacity`, `MCPublication`, `MCStores` | instances for TLC (the other modules are run as they are) |
| `*Proofs` | theorems (section 5) |

Definitions whose comment starts with "Mutant" stand beside the definition they
disturb. No run uses them; they show that a property notices a plausible error.

`MCStores` puts sixteen components side by side: a behaviour picks one in its
initial state and takes only its steps, so the state spaces add up instead of
multiplying, and the components share the variables `v1` .. `v15`. Pure
algorithms are checked there on an enumerated input, chosen in one step.

### Coordinator

A role is its rank in `FixedRoleOrder`, so "for every role in order" is the
order of the naturals. `pc` is the place of the coordinator goroutine; a loop
over roles is one action per role with the remaining roles in `todo`, because
workers and contexts may change what the loop samples between two iterations.
Code that samples nothing in between is one action. `cancelAll` is called from
several places and `ret` says where it returns to.

The scheduler is `job[r]`: `queued` by `submit`, `held` by a worker at the
wave's gate, `invoking`, `sent` on the result channel, `collected`. At most
`MaxActiveLanes` jobs are held or invoking. A result is a condition and the
kind of output it carries; `RuntimeConditions` is the set of conditions a
provider may report, and the worker's own reduction (deadline against timeout,
cancellation against a late success) is `WorkerReturn`, `WorkerSkip` and
`WorkerNoWindow`. The three contexts have an `Err()` each; a parent's end
reaches its child in a step of its own, which is how a sampled child may lag.
`record()` refuses events that are out of order; its rules are `Recordable`. Its
sink may fail, and so may the identity issuer and `PrepareInitial`, each up to
`MaxFaults` times in total.

### WorkerCapacity

`limits` counts the registered runs by limit, `active` the slots in use,
`EffectiveLimit` is the minimum over the registered values. A worker that finds
no slot holds the current change channel; closing it moves every `blocked`
worker to `woken`. The check and the sleep are one step because the code reads
the channel under the lock and waits on that very channel. `Abandon` is a waiter
whose context ends. `inherited` records who held a slot when a run registered: a
new, stricter limit cannot take slots back, it bounds the grants that follow.

### InvocationRegistry

An entry is its sequence number and survives its eviction, as the Go pointer
does that an await still holds. `listed` is the map from identity to entry.
`backend` follows the goroutine of an execution, `done` the closed channels. An
await resolves its entry under the lock, then waits for the done channel or its
own context; when both are ready Go picks either. A review of `Empty` returns
neither a result nor an error, which the handler refuses as
`invocation_state_invalid`; the program's own backend always returns data
(`mcp_backend.go:152`). `AwaitReport` is the tool
handler's translation of the error, which looks at the session again.
`Shutdown` closes the registry, cancels every running entry and waits for them
until its own deadline.

### Publication and PublicationFiles

`store` is what processes see, `stable` what a power loss would leave: a write
changes `store` at once and `stable` in the entries of the directories that were
synced. Every operation has two outcomes besides an error: durable, or installed
with its last sync failed, which the service tells apart. `Fails` is an error or
a kill at any step. `Discovery`, `WithJournal`, `WithoutJournal` and `Class` are
the observation and the classifier; an observation that finds an installed but
not proven-durable publication syncs its directories again, and each of the two
places that do so may fail (`Adoptions`). `Action` and `RecoverStep` are the
recovery table. `EpochTaken` is a composite whose epoch number another run has
meanwhile committed. Both publication (inside the transaction lock, with its
embedded recovery) and the exported `Recover` are modelled. `PublicationFiles`
opens up the single steps of `Publication`: create, compare and swap, move into
place, write once, and the rollback of a rename, while others who do not take
the lock act on the same names.

### LiveRun and ReviewRun

`pc` follows the run from the composition to the answer; every dependency
appears as the outcomes its interface allows, and `errs` is the set of kinds that
`errors.Join` has collected. `Drift` (the binding changes for good) and `Cancel`
may come at any time. `ReviewRun` is what a run promises without how: a lease,
providers, a review, the roots and an answer. `ReviewOf` and `LeaseOf` are the
refinement mapping.

### ProcessRunner

`ProcessGroup` is the operating system's side: a leader, a descendant that keeps
pipes open or leaves the group, signals that are ignored, zombies, output that
comes late. `ProcessRunner` is `Run` in its modes `direct`, `bounded`
(post-output) and `converse`: the reader goroutines, the driver, the timers, the
order of the stop (SIGTERM, grace, SIGKILL, verification), and the observation
with its lifecycle receipt. A chunk is a unit of output, a frame a prefix of it.

### The provider modules

`ProviderConversation` maps a conversation and a message to the next
conversation, one section per family; `ProviderSession` lets a provider answer
in any order, repeatedly or wrongly. `ProviderAdapter` maps the facts of a
finished run to what `Registry.Observe` returns, `ProviderRuntime` follows an
attempt over its first and second invocation with the captured streams.
`ProviderNamespace` is the resumable removal of one directory with a credential
in it; a look at a name, the `rmdir` that trusts it and the look at the
descriptor are steps of their own, and others act between them; `ProviderRegistry` the leases on namespaces, staging directories and
`Close`; `Qualification` the groups, probes, fixtures and drains before a run.

### The rest

`Cleanup` is four transactions per clean against runs that start, publish and
end, over the planner `CleanPlanner`. `SecureWriter`, `Export`, `InitConfig` and
`DiagnosticStore` keep, like `Publication`, what is visible apart from what is
durable. `PublicationQuery` makes a call a program of store reads, each of which
may see another moment. In the operator modules (`PublicationDocuments`,
`ReportValidation`, `ProviderRouting`, `RunBudget`, `LiveSelection`,
`CleanPlanner`) a digest stands for the value it is the digest of and a text for
what the code tells apart in it.

## 3. What the runs check

Every run finishes within five minutes with two TLC workers.

| run | instance | checks |
|---|---|---|
| `coordinator_waves` | 2 roles, 2 lanes, one condition of every class, no faults, extraction admitted | `TypeOK`; `OutcomeIsTrue`: a completed run delivered every role, no legal outcome is refused, the trace is complete; `IntegrityPrevails`: an integrity failure decides the run and no trailer launders one; `AcceptedReportLostOnlyToStop` |
| `coordinator_faults` | 2 roles, 1 lane, 3 conditions, 1 fault, fairness | `JoinedBeforeTerminal`, `AbortFinalizes`, `StopNeverWeakens` and `Termination`: every execution ends |
| `worker_capacity` | 2 runs of limit 1, 1 run of limit 2, 1 job each, fairness | `NoLostWakeup`, `SlotsConserved`, `GrantsBounded`; `RunsEnd` |
| `invocation_registry` | 3 identities, 1 caller, limit 2, 4 starts, the first review returns nothing, fairness | `ExecutingIsListed`, `CleanShutdownDrains`, `AwaitAnswersItsEntry`, `OnlyOwnersCancel`, `SessionEndIsReported`; `WaitsEnd` |
| `publication_crash` | a live and a composite run, 1 caller at a time, 2 faults, 1 power loss, limit of 6 actions, fairness | `TypeOK`; `PublishedIsDurable`: reported publications survive and hints trail effects; `InterruptedIsPublished`: without a power loss every journaled run is recovered; `PublishedIsUnique`: epoch numbers, and no diagnosed run is reported published; `TransactionsEnd` |
| `process_runner` | 2 chunks, a frame of 1, 1 failure, all modes, fairness | `TypeOK`, `ObservationIsEarned`, `NothingLeftBehind`, `AlwaysReturns` |
| `stores` | see below | `TypeOK` and one property per theme, each a conjunction of the components' own |
| `coordinator_peer_stop`, `coordinator_abort_roles`, `cleanup_resume`, `omitted_finding`, `exact_evidence` | the same instances | violated: section 4 |

The properties of `stores`:

| property | says of |
|---|---|
| `CleanIsSafe`, `RetainedIsKept` | cleaner: a half-removed run is tombstoned, what is deleted is what the plan observed, no needed lineage and no live diagnostics go; planner: the marking of edges selects exactly what may be deleted |
| `WriteIsSecure` | secure writer, publication files, export: only whole, synced, clean files are installed; nobody else's are removed; a manifest describes a bundle that is there |
| `InitIsHonest` | init: the reported write state is what was done; racing commands do not both commit |
| `LiveRunIsHonest`, `RunImplementsContract` | live run: the four conjuncts of section 5 and the refinement of `ReviewRun`; diagnostics store: numbered, durable, closed; live source: what was read is one moment's |
| `InvocationIsSound` | runtime, adapter, sessions: a second invocation finds its input, a changed source outranks every other outcome, a completed session had its one turn |
| `NamespaceIsReclaimed` | namespaces, registry, qualification: a terminal receipt is true, a stranger's directory is removed only in the window between a look and the `rmdir`, and the cleanup says so, everything acquired is drained or owned |
| `RoutingIsConfigured` | discovery, routing, heartbeats, budget: a run is planned exactly when every role's own instance qualified and the limits cover the charge; what discovery and heartbeats admit, exactly; the deadline covers the two waves of a run (see section 4 for what is and what should be) |
| `DocumentsAgree`, `ReadsAreCommitted` | documents, query: what is prepared is built and read back; a call answers with one committed publication; chunks tile |
| `ReportsAreFaithful` | reports, evidence, selection: repairs change nothing else; what is called verified is what the source says |

Why these bounds meet the hard cases:

* Two roles are the least number with a peer; with one lane the second job waits
  in the queue or at a gate, with two they overlap. One fault reaches every abort
  path. With two faults `AbortFinalizes` fails, because a sink that also fails
  while abort writes leaves roles open; the code accepts that. Attempts are
  bounded by the policy itself.
* Two runs of one limit share a reference count, the third has another limit.
* Four starts against a limit of two and three identities: `Start` refuses a
  listed identity before it evicts, so the third start takes the third identity
  and the fourth is the first that can use an evicted one again, while the caller
  may still hold its first owner.
* Two faults interrupt a publication and then its recovery; a second run shares
  the epoch numbers. The recovery needs five actions at most; the run's limit of
  six leaves room for one that runs into it, and the code's is twelve.
* Two chunks are the least in which a frame ends inside the output; a single
  failure is met in every phase of the control loop. (The invariant behind the
  proofs was also checked with two.)
* In `stores` two cleaners, writers, exporters or initializers race; one or two
  upsets reach every error path and a second one inside its handling. Cleaners
  are symmetric, which is sound because that run has no liveness.

Bounds in guards: `MaxFaults`, `MaxLosses`, `MaxStarts`, `JobsPerRun`,
`MaxChunks`, `MaxSurprises`, `MaxUpsets`, `MaxNow`, `MaxPasses`, `MaxCloses`,
`MaxMoves`, `MaxReads`. All other constants are the code's.

Deadlock is checked wherever the finished system stutters explicitly
(`Finished`, `Exited`); `process_runner` and `stores` stop when a call has
returned, an upset bound is used up or an input was chosen, and say
`CHECK_DEADLOCK FALSE`.

### Fairness

* `Coordinator`: weak fairness of the coordinator's step, of each worker's step
  and of the propagation between contexts. Goroutines are scheduled
  preemptively, a context propagates without the program's help, and a provider
  returns because its invocation has a window that the process runner enforces.
  That contexts end is not assumed.
* `WorkerCapacity`: weak fairness of `Take`, `Acquire`, `Release`, `CloseQueue`
  and `Unregister` per worker and run. Nothing orders the waiters; `RunsEnd` holds
  because jobs are finite.
* `InvocationRegistry`: weak fairness of every execution (reviews return, which
  is `Termination`), of the steps after an await becomes ready, and of the
  shutdown's return. Whether a request ends is left to the client.
* `Publication`: weak fairness of each caller's step. The lock is polled with
  `LOCK_NB`, so a waiting caller may starve; the property is that the holder
  always releases.
* `ProcessRunner`: weak fairness of the runner's goroutines, of its timers and of
  the delivery of SIGKILL. The child's own steps are not fair: it may hang.

## 4. Findings

Each is a run that TLC finds violated (`PROJECT.json`, "findings"):

* **A peer's stop discards an accepted report** (`coordinator_peer_stop`,
  `coordinator.go:1262`). An extraction trailer in flight reports cancelled and
  its role ends without the report it had already accepted, which the comment at
  1396 rules out.
* **Abort after the deadline leaves roles open** (`coordinator_abort_roles`,
  `coordinator.go:2122`): `cancelAll` asks for a transition the domain refuses.
* **A killed clean blocks every later one** (`cleanup_resume`,
  `cleanupstore_darwin.go:856`): the tombstone of half-removed diagnostics cannot
  be resumed.
* **An omitted finding blocks the publication** (`omitted_finding`,
  `model.go:1803`): the content axis counts findings that were dropped.
* **An exact-evidence repair opens the wrong quote** (`exact_evidence`,
  `provider_runtime.go:1150`): paths are counted in severity order and applied in
  the provider's.

Disagreements met while modelling and reproduced in the models, without a run:

* Store: an observation may evaluate `*files.status` with no status read
  (`publicationstore_darwin.go:3680`, modelled as `Panics`). Two standalone
  `Recover` calls at once may stage over an installed final; no code of the
  program does that. An unjournaled prepared composite is never published
  again (3521). A publication completed while its recovery manifest exists reads
  as corrupt.
* Process runner: when a bounded run fails, its teardown gives up without a
  SIGKILL having reached every member (`runner_darwin.go`, about 932);
  `NothingLeftBehind` states that exception.
* Discovery: `TestDiscoverConfiguredProviderProfilesKeepsEligibleFamilyWhenAnotherIsUnavailable`
  (`qualification_test.go:473`) expects a family to be kept when a part of another
  is missing. When that other's version is red or garbled as well, the version is
  reported instead of the missing part (`qualification.go:303`) and the startup
  check refuses all families (`production_candidates.go:622`).
  `DiscoveredIsAdmitted` says that it refuses exactly those
  (`VersionHidesMissingPart`), which is what the code does.
* Heartbeats: `contracts.md:898` ("it also accepts the explicit
  `--credential-profile`") promises that profile, but the candidate is taken by a prefix of its name
  (`composition/review.go:703`), so profile "work" may probe "work-eu".
  `HeartbeatIsOfRequest` states the set that is probed, with the prefix.
* Limits: `yaml_test.go:583` ("under-budget config accepted") expects a limit of
  one invocation per role to be refused; validation accepts it when repair and
  extraction are off, and every plan, charged two, is refused at the end of
  planning (`LimitsBelowCharge`). `RoutedAsConfigured` says that this happens for
  that reason only, not that it should. (These three have no run of their own:
  the properties are exact about what happens.)
* Deadline: `budget.go:365` justifies the bound by role paths that do not wait for
  each other; the coordinator runs waves with a barrier. `DeadlineCoversSchedules`
  finds it large enough for two waves, for selections of all seven roles too, if
  the commits between them take one transition's grace together. If each took its
  own, or the lanes were shared with other runs, it would not be.
* Qualification groups run one per batch, while `contracts.md:1023` says probes
  run concurrently; a breach of agy joined after an operational failure is masked
  (`qualifier.go:181`); a failed release in a skipped group makes
  `DrainTerminal` fail forever.
* Registry: the failed acquisition of a single definition yields a retained
  registry that can never be closed; an observation admitted just before `Close`
  is refused at staging as a process security failure.
* Follow-ups: `still_open` with minor new findings is published with a verdict
  the query's reader does not expect (`followup.go:334`, `service.go:2439`);
  `OpenWithMinorFindings`.
* Adapter and runtime: an accepted report without a retained plan is an
  invariant error (`provider_runtime.go:981`); a cut standard input is refused at
  `provider_execution.go:1038` although `registry_test.go:976` expects a
  failure; a breach of agy reads as a failed execution (`registry.go:1174`).
* Live run: a cleanup that was retained is retried by nobody in the program; a
  diagnostic sink whose first events fail is abandoned open; a failed projection
  of a finished publication may be recorded as cancelled (the exception in
  `StatusIsTrue`).
* Reports: a fill plan that names a visual digest whose present value is a
  number can never be satisfied (`Locked`).
* Export: bundles of one stem share a manifest path.

## 5. What is proved

TLAPS checks the theorems below for every value of the constants that meets the
named assumptions, none of which is narrower than the code: at least one role
and one lane and natural bounds (`ConstantsAssumption`), positive limits, which
configuration admission ensures (`CapacityAssumption`, `RegistryAssumption`),
finitely many runs and natural bounds (`PublicationAssumption`), and for the
process runner natural bounds, frames within the output and the three modes. The
`config.yaml` a checkout brings along was written by no command
(`InitsAreApart`), and a command is named neither after Git nor after
a file that no command writes ("prior", "alien", ...) (`CleanersAssumption`).

Each proof follows one pattern: an inductive invariant as a conjunction of named
parts, a lemma per action with a step per part, `Init`, `Next` and a temporal
theorem. The invariants were checked by TLC before they were proved.

* **`CoordinatorProofs`**: `TypeCorrect`, `WorkersJoined`, `StopAuthority`. The
  invariant is `TypeInv` (types, and which control variables have which values at
  which `pc`), then `JoinInv` and `StopInv`. The control part is needed because
  `CHOOSE r \in todo` is a role only where `todo` is not empty. A terminal run
  has no queued, held or invoked job because nothing is admitted after close and
  every place from the join on has idle workers.
  The second part is about what a finished run says. `OutcomeInvariant` is its
  invariant: for every role the state of its attempt,
  its result, its output and its events in the trace agree, at each `pc`, and
  what was collected but not yet committed is still owed. From it follow
  `OutcomesAreTrue` (a completed run delivered every role, the trace is complete,
  and without a fault the domain refuses nothing), `IntegrityDecidesEveryRun`,
  and `AcceptedReportKept`. `IntegrityPrevails` is proved for histories without a
  dependency fault: after one, a trailer that reports cancelled may coexist with
  a completed run. `AbortFinalizesOneFault` is proved for at most one fault,
  since two may strand a role; its invariant follows each stage of an abort.
* **`WorkerCapacityProofs`**: `NoWakeupLost`, `NoSlotLeaks`,
  `LiveLimitRespected` from `CapacityInvariant`: types, `active` is the number of
  holders, `limits` counts the open runs by value, no lost wakeup, bounded grants.
  The count of `limits` is what makes "the first run of a shared limit ends"
  harmless.
* **`InvocationRegistryProofs`**: `NeverEvictedWhileExecuting`, `ShutdownDrains`,
  `AwaitIsExact` (a review that returned nothing included), `WaitsDoNotOwn` from `RegistryInvariant` (allocation of
  sequence numbers; phase, backend and done agree; running entries are listed;
  what a shutdown and an await hold on to), and `SessionEndReported` with
  `SessionInv`: which waits were cut by the session and which by their request.
* **`PublicationProofs`**: `PublicationTypes`, `PublishedDurable`,
  `PublishedUnique`, `InterruptedPublished` for any set of runs and callers.
  The first part of the invariant (`CoreInvariant`) says that calls are serial
  under the lock, that files are ordered (no hint without its effect, on the
  visible and on the durable disk), and what each step of a call relies on from
  the steps before it. The second (`PublicationInvariant`) adds, for histories
  without a power loss, the finite set of shapes an interrupted publication can
  leave, and for a recovery in progress how many turns its shape still needs:
  five at most, so `InterruptedPublished` assumes an action limit of at least five
  (`ActionLimit`, twelve in the code). It speaks of recoveries that meet no error
  of their own.
* **`ProcessRunnerProofs`**: `RunnerTypesHold`, `ObservationsAreEarned`,
  `NothingIsLeftBehind` from `RunnerInvariant`. While a run is under way the
  invariant says how it began (`Beginning`), that every chunk written is captured
  or waits in the channel once stdout ended well (`OutputCounted`), which loop
  leaves the lease with the output (`OutputOwned`), what only one mode uses
  (`ModeOnly`), that what the runner believes about the group is true and stays
  true: absent, or every live member has SIGKILL on its way and no new one can
  appear (`GroupKnown`), that a stop has a reason and its requests come in order
  (`StopOrder`), and that the loop is left with everything accounted for
  (`AtVerify`). Nothing moves after a return, so the two properties are shown
  where each return is made. The bounds on output and failures are arbitrary.
* **`LiveRunProofs`**: `LiveRunImplementsContract`: every step of a live run is a
  step of `ReviewRun` or a stutter, under the mapping `LeaseOf`, `ReviewOf`; and
  `LiveRunIsTrue`, the four conjuncts that `LiveRunIsHonest` checks of it
  (`DriftIsNeverPublished`, `StatusIsTrue`, `ResultIsComplete`,
  `OwnerIsRetained`). The invariant says at each `pc` who owns the roots, the
  source and the providers (an owner that is left over is in the error), and what
  the joined error says of the publication; the last is what makes the terminal
  status true: an error tree that holds a publication's failure is classified
  above a cancellation (`ArtifactDecides`).
  `QualificationsAreOwned`, of the admission that comes before: `QualificationInv`
  says that a namespace held is admitted and, until something is released or
  closed, an admitted one held (`HoldingsAreAdmitted`); that the candidates gone
  through are routed or failed and never both, group by group
  (`CandidatesAreAccounted`), from which `RunsAreAccounted` follows when a run is
  delivered; how a boundary failure that nothing masks ends the probe
  (`BreachesDecide`); and where every fixture is drained. None of the four
  conjuncts is inductive alone: that a run accounts for every candidate rests on
  each step of the admission before it.
  `DiagnosticsStaySound`, of the diagnostics of a run, for any cap and any reserve
  that is a part of it (`LogConstants`), any number of power losses, kills and
  failures: an open store has numbered every line and does the parts of a
  finalization in their order (`StoreControl`), and a terminal status is of a
  closed log and is on the disk only as the one there is (`TerminalDocuments`).
  The order is what the property leaves out and needs: a status reaches the disk
  after the lines it speaks of.
  `SourcesArePinned`, of a live source whose project others change: `SourceInv`
  says what each command of an opening has resolved so far and that it was there
  during the opening (`Opening`, as long as the project stayed at its path), what
  the two reads of a worktree file hold as long as the file is the one that was
  opened (`ReadSoFar`: a file that takes its place has a new inode, a write a new
  stamp, so two equal looks enclose a moment at which it had what was read), that
  what a read returns was there during the call (`Found`), and how far the
  artist's comparison is. It holds for any number of moves and reads.
* **`FilesProofs`** is about the six components that change files where others
  change them too, each with an inductive invariant and its conclusions.
  * `InitializationIsHonest` from `InstallInv`: what is put matches the place of
    each command, contents belong to a command or came with the checkout, what
    was synced is durable, at most one command installs, every outcome that a
    report offers is listed, and the write state is true. The directory never
    leaves the state `there` and contents are installed at most once, so what was
    synced stays durable through the steps of the others.
  * `WritesAreSecure` from `WriterInv`: from its rename on one writer owns the
    destination (`OneOwner`); a file under the name has an owner, or the error of
    the call that left it says so (`InstalledHasAnOwner`); what was copied so far
    is clean, and whole and synced before the rename (`CopiedIsClean`). The last
    is what the property needs and what it does not mention: `InstalledIsClean`
    speaks only of the installed file.
  * `ExportsArePaired` from `ExportInv`: the calls are serial under the lock, the
    holder relies on the journal, the bundle and the manifest that it has just
    synced (`InstalledSoFar`), and a half pair keeps its journal, on the disk and
    in memory, until the manifest is on the disk.
  * `FilesStaySafe` from `FileInv`: what a writer's own name holds at each point
    (`OperationAt`); a file is under one name only, and a file that was not made
    yet or was removed is under none (`FilesAreOnce`), which is what keeps a
    rollback from removing what it did not install; a conflict has undone its
    rename (`ConflictsLeaveNothing`); and as long as nobody interferes the lock
    serialises the writers (`Undisturbed`).
  * `NamespacesAreTornDown` from `NamespaceInv`: the removal of a namespace stops
    at any step and is taken up again, so a receipt can only rest on what the
    lease remembers. The invariant says that it remembers enough: a live
    credential keeps `seeds` or `term` (`SeedsAreRemembered`), a cursor child keeps
    `data` (`ChildIsRemembered`), and the stages from `detached` on mean that the
    directory is gone, emptied where the lease is the factory's or the registry's
    (`DetachedIsGone`). Who answers for the lease at each point of each of the five
    operations is `NamespaceControl`. It holds for any number of passes, renames,
    foreign directories and failures, in the windows of a removal too, and the
    theorem says what these cost: a stranger that came between a look and the
    `rmdir` is removed and the cleanup fails; a rename between the path read from a
    descriptor and the look at it lets a receipt pass over a linked directory.
  * `RegistriesAreReclaimed` from `RegistryInv`: an observation in flight has its
    instance in `active` and shares it with no other (`Observations`), a closer past
    its wait finds `active` empty for good, since nothing is admitted once it
    marked the registry closed (`ClosersWait`), and receipts are exactly the
    drained namespaces (`DrainedIsIdle`). That a success was read from the one
    report of a directory since removed needs what the observation knows at each
    point of its way (`ObservationAt`).

  The constants' assumptions (`InitsAreApart`, `WriterConstants`,
  `ExportConstants`, `FileConstants`) say that commands are named neither after
  files nor after outcomes, that bounds are naturals, and that there is a
  request.
* **`StoresProofs`**: `InitStaysHonest`, `WritesStaySecure`,
  `NamespacesStayReclaimed`, `LiveRunsStayHonest` and `LiveRunsKeepTheirContract`:
  the results above
  hold of the composed specification that the run `stores` checks (a namespace
  lives there alone, in the registry of a run or in a qualification, and
  `NamespaceIsReclaimed` speaks of all three; `LiveRunIsHonest` speaks of the live
  run, of its diagnostics and of its source), and `RunConstants` derives the
  assumptions above from `CleanersAssumption`. The prover keeps the operators of
  two instances apart, so the initial states and the steps of a component are
  first shown to be those of the proof module's instance (`Same...`); then a step
  of the composition is a step of that component or leaves its variables alone.

Only model-checked: every liveness property (`Termination`, `RunsEnd`,
`WaitsEnd`, `TransactionsEnd`, `AlwaysReturns`), because fairness and `ENABLED`
are outside the prover; four invariants of `stores`: `CleanIsSafe`,
`InvocationIsSound`, `ReadsAreCommitted` and `RoutingIsConfigured`, and that run's `TypeOK`; and what the operator modules compute, which is checked
on enumerated inputs.

Two limits of the prover shape some definitions: a `CASE` whose guards overlap is
ambiguous, so precedence is written with `IF`; and recursion is written with
recursive functions and folds, so no module declares a RECURSIVE operator.

## 6. Not modelled

* Bytes: prompts, schema keywords, Unicode tables, message syntax, rendering,
  identifiers. A digest is the value it is the digest of.
* CLI parsing, the composition root's wiring, doctor, help, schema, generated
  code, test doubles. Composite reviews and the choice of their sources.
  `FollowupValidation`, which only tests call.
* Coordinator: the per-wave budget receipts.
* Publication store: replacement of the directory tree underneath it (the single
  operations under such a swap are in `PublicationFiles`, where a check and the
  unlink after it in a rollback are one step); support artifacts. After a power
  loss a lineage edge may survive the manifest renamed before it
  (`publicationstore_darwin.go:1593`), so `InterruptedIsPublished` speaks of
  histories without one.
* Process runner: the checks of the file system around the launch
  (`live_boundary_darwin.go`, `fdexec_darwin.go`).
* Live source: a detached HEAD and unreadable refs, a rename away and back
  within one revalidation, `OpenUnboundWorkspaceRoot`, admission of Git
  configuration; time stamps are taken to distinguish writes. Git runs by path
  between two revalidations, so a swap away and back is unnoticed, in the code
  and in the model.
* Namespaces: an `Fstat` failure leaves a traversal that is taken as finished and
  fails later. Construction errors are retried only by tests. At most one stranger
  is at the name at a time and only the child `home` is substituted; a stranger is
  empty or not by free choice, and the one in the place of a child holds nothing
  of its own; `F_GETPATH` and the `Lstat` of its answer are one step, a rename in
  between is `stale` at that step.
* Query: artifact reads go in pairs, lineages have two runs, a backup is restored
  once. Excerpts are bound to their digest only. The child is not confirmed again
  after a lineage walk.
* Sessions: a provider does not answer what was never asked. Cursor's wrapping of
  acknowledgements, git permissions and repeated `session/close` are left out.
* Init: the check and the rename of a file are one step; a receipt that cannot be
  made after the rename (`config_install_darwin.go:193`, 296) and the identity of
  `config.yaml` observed for either name (163). Export: the spool is not closed.
  Diagnostics: `Finalize` is retried with its first decision only; the failure to
  close the log (`diagnosticstore_darwin.go:603`) and the check of its path after
  the sync.
* Failures of single calls without an effect to tell them by: issuer and clock
  while roles are admitted (`coordinator.go:764-790`), a revalidation of the live
  source that fails without drift (`live_service.go:314`, `live_cleanup.go:33`),
  more than 100 quote paths (`provider_runtime.go:987`, beyond the instances).
* Registry: of the two ways to run a provider only `runInWorkspace`; the boundary of
  `runInLiveSource` is in `ProviderAdapter`. Runner: a lease that the spool made
  and nobody took at the deadline (`runner_darwin.go:415-428`, 910-922) stays open;
  `LeaseSettled` speaks of the leases the runner received.

## 7. Plan

Done, in this order: policy and domain, coordinator and scheduler, shared
capacity, registry, publication, process runner, live run and its contract, the
stores, the provider modules, documents and queries, routing and reports; proofs
of the coordinator, capacity, registry, publication, process runner, live run,
its diagnostics and source, init, secure writer, export, the store's file
operations, namespaces, the providers' registry and qualification, and of the
composed run's contract. Left:

1. `Cleanup`: lineage kept by a retained run, for any set of runs; its action
   properties need that `Plan` selects distinct, inactive runs.
2. `PublicationFiles` as the implementation of the single steps of
   `Publication`: `FilesStaySafe` says what those steps may rely on, the
   refinement itself is open.
