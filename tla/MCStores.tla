------------------------------ MODULE MCStores ------------------------------
(***************************************************************************)
(* One run over the components that keep files: each behaviour picks a     *)
(* component in its initial state and then takes only that component's     *)
(* steps, so the state spaces add up and do not multiply.  The components  *)
(* share the variables v1 .. v15; a component's INSTANCE says which of its *)
(* variables each of them is, and one it does not need holds Idle.         *)
(***************************************************************************)
EXTENDS Naturals, FiniteSets, Sequences, TLC

CONSTANTS Cleaners, Closers, MaxNow, MaxFaults

(* What a file holds that no command wrote: the content that came with a    *)
(* checkout (InitConfig), no file, the document to replace, one with its    *)
(* bytes, any other, and changed bytes (PublicationFiles).                  *)
ASSUME CleanersAssumption == {"git", "none", "prior", "twin", "alien", "spoilt"} \cap Cleaners = {}

VARIABLES
  which,    \* the component of this behaviour
  input,    \* the input of a pure algorithm
  v1, v2, v3, v4, v5, v6, v7, v8, v9, v10, v11, v12, v13, v14, v15

Idle == "idle"

slots == <<v1, v2, v3, v4, v5, v6, v7, v8, v9, v10, v11, v12, v13, v14, v15>>
vars == <<which, slots, input>>

CleanRuns == {1, 2}

C == INSTANCE Cleanup WITH
       Runs <- CleanRuns, Later <- {2}, pub <- v1, diag <- v2, done <- v3, parent <- v4, now <- v5, plans <- v6, tombs <- v7,
       litter <- v8, lock <- v9, pc <- v10, mode <- v11, mine <- v12, todo <- v13, faults <- v14

P == INSTANCE CleanPlanner

Streams ==
  {[chunks |-> c, end |-> "eof", scan |-> TRUE, expected |-> TRUE] :
     c \in {<<>>, <<"plain">>, <<"plain", "secret">>, <<"plain", "plain", "plain">>}}
  \cup {[chunks |-> <<"secret">>, end |-> "eof", scan |-> FALSE, expected |-> TRUE],
        [chunks |-> <<"plain">>, end |-> "eof", scan |-> FALSE, expected |-> FALSE],
        [chunks |-> <<"plain">>, end |-> "error", scan |-> TRUE, expected |-> TRUE]}

W == INSTANCE SecureWriter WITH
       Writers <- Cleaners, Sources <- Streams, MaxChunks <- 2, MaxUpsets <- 2,
       at <- v1, src <- v2, pos <- v3, bytes <- v4, named <- v5, dest <- v6, destSynced <- v7, altered <- v8,
       moved <- v9, wanted <- v10, leaked <- v11, stopped <- v12, verdict <- v14, upsets <- v15

ExportRequests ==
  {[path |-> "zip", bundle |-> 1, id |-> 1], [path |-> "zip", bundle |-> 1, id |-> 2],
   [path |-> "tar", bundle |-> 1, id |-> 3], [path |-> "zip", bundle |-> 2, id |-> 4]}

E == INSTANCE Export WITH
       Exporters <- Cleaners, Requests <- ExportRequests, MaxStarts <- 3, MaxUpsets <- 2,
       step <- v1, req <- v2, lock <- v3, journal <- v4, bundle <- v5, manifest <- v6, starts <- v7,
       verdict <- v14, upsets <- v15

I == INSTANCE InitConfig WITH
       Inits <- Cleaners, MaxUpsets <- 2,
       step <- v1, refresh <- v2, saw <- v3, dir <- v4, made <- v5, config <- v6, local <- v7, put <- v8,
       verdict <- v14, upsets <- v15

D == INSTANCE DiagnosticStore WITH
       LogMax <- 4, TailReserve <- 2, MaxUpsets <- 2,
       state <- v1, sequence <- v2, steps <- v3, decision <- v4, log <- v5, synced <- v6, torn <- v7,
       status <- v8, dropped <- v9, acked <- v10, upsets <- v11

L == INSTANCE LiveRun WITH
       MaxUpsets <- 4,
       pc <- v1, noChange <- v2, roots <- v3, reader <- v4, drift <- v5, providers <- v6, qualified <- v7,
       drained <- v8, sourceClosed <- v9, published <- v10, sink <- v11, status <- v12, errs <- v13,
       answer <- v14, env <- v15

PA == INSTANCE ProviderAdapter

PD == INSTANCE PublicationInputs

Q == INSTANCE PublicationQuery WITH
       MaxUpsets <- 2,
       pub <- v1, support <- v2, recovery <- v3, origin <- v4, retired <- v5, call <- v6, todo <- v7, held <- v8,
       answer <- v9, cursor <- v10, pages <- v11, was <- v12, steady <- v13, upsets <- v14, last <- v15

(* Contents of at most four runes, of one to four bytes each.              *)
CH == INSTANCE ContentChunk WITH MaxChunk <- 4

Contents == {[data |-> CH!Encoded(lengths), text |-> text] : lengths \in UNION {[1 .. n -> 1 .. 4] : n \in 0 .. 4}, text \in BOOLEAN}

(* Sessions: each family with the purposes its driver tells apart, and with *)
(* nothing, a model, or model and effort configured.                        *)
SessionSettings(family, purposes, configured) ==
  {[family |-> family, purpose |-> p, account |-> q[1], model |-> q[2], effort |-> q[3]] : p \in purposes, q \in configured}

Sessions ==
  SessionSettings("zcode", {"review", "extraction", "live_review", "live_extraction"},
                  {<<FALSE, FALSE, FALSE>>, <<TRUE, TRUE, TRUE>>, <<FALSE, TRUE, FALSE>>})
  \cup SessionSettings("grok", {"review"}, {<<FALSE, TRUE, TRUE>>})
  \cup SessionSettings("grok", {"live_review"}, {<<FALSE, FALSE, FALSE>>})
  \cup SessionSettings("grok", {"extraction"}, {<<FALSE, FALSE, TRUE>>})
  \cup SessionSettings("cursor", {"live_review", "extraction"}, {<<FALSE, FALSE, FALSE>>})
  \cup SessionSettings("agy", {"live_review", "extraction"}, {<<FALSE, FALSE, FALSE>>})
  \cup SessionSettings("codex", {"review"}, {<<FALSE, FALSE, FALSE>>})

S == INSTANCE ProviderSession WITH
       Tools <- {"t1", "t2"}, Settings <- Sessions,
       session <- v1, conv <- v2, asked <- v3, prompts <- v4, granted <- v5, drift <- v6

(* Provider runs: how the process may end, and the runs whose faults, sessions and  *)
(* breaches go with that end (a refused spawn or a process error has no process     *)
(* observation; a staged result belongs to the workspace transport).                *)
ProcessEnds ==
  {[term |-> "absent", started |-> FALSE, zero |-> FALSE, teardown |-> FALSE, sent |-> FALSE]}
  \cup {[term |-> t, started |-> FALSE, zero |-> FALSE, teardown |-> FALSE, sent |-> FALSE] :
          t \in {"cancelled", "timed_out", "start_failed", "start_unavailable", "start_configuration", "start_security"}}
  \cup {[term |-> t, started |-> TRUE, zero |-> FALSE, teardown |-> teardown, sent |-> sent] :
          t \in {"cancelled", "timed_out", "signaled"}, teardown \in BOOLEAN, sent \in BOOLEAN}
  \cup {[term |-> "stdin_incomplete", started |-> TRUE, zero |-> FALSE, teardown |-> TRUE, sent |-> FALSE]}
  \cup {[term |-> "exited", started |-> TRUE, zero |-> zero, teardown |-> teardown, sent |-> TRUE] :
          zero \in BOOLEAN, teardown \in BOOLEAN}

RunFaults ==
  {"none", "spawn", "spawn_later", "wait", "cleanup", "selection", "deadline", "transcript", "output_decode_failed",
   "provider_turn_failed", "rate_limited", "result_binding_failed"}

ProviderRun(family, end, fault, session, breach, evidence, staged, marks) ==
  [family |-> family, term |-> end.term, started |-> end.started, zero |-> end.zero, teardown |-> end.teardown,
   sent |-> end.sent, fault |-> fault, session |-> session, breach |-> breach, evidence |-> evidence,
   staged |-> staged, marks |-> marks]

Consistent(r) ==
  /\ r.fault \in {"spawn", "spawn_later", "wait", "cleanup"} <=> r.term = "absent"
  /\ ~r.started => r.session = "none" /\ r.fault \in {"none", "spawn", "spawn_later", "wait", "cleanup"}
  /\ r.breach = "profile" => r.family = "agy"
  /\ r.breach = "source" => r.staged = "none"
  /\ r.fault = "selection" => r.family = "zcode"
  /\ r.session = "failed" => r.fault # "none"

AdapterRuns ==
  {r \in {ProviderRun(family, end, fault, session, breach, "text", "none", {}) :
            family \in {"agy", "codex", "zcode"}, end \in ProcessEnds, fault \in RunFaults,
            session \in {"none", "completed", "failed"}, breach \in {"none", "source", "workspace", "profile"}} : Consistent(r)}
  \cup {r \in {ProviderRun(family, end, fault, "failed", "none", "text", "none", marks) :
                 family \in {"cursor", "zcode"}, end \in ProcessEnds, fault \in {"none", "provider_turn_failed"},
                 marks \in {{"login"}, {"quota"}, {"turn_failed", "quota"}, {"turn_failed"}, {"rate"}, {"overloaded"},
                             {"auth"}, {"timeout"}, {"native_timeout"}}} : Consistent(r)}
  \cup {r \in {ProviderRun("codex", end, "none", "none", breach, evidence, staged, {}) :
                 end \in ProcessEnds, breach \in {"none", "workspace"}, evidence \in {"none", "unusable", "text"},
                 staged \in {"none", "missing", "invalid", "violation", "cleanup_failed", "kept"}} : Consistent(r)}

(* What the runtime may receive: the results of these runs, a registry that is drained  *)
(* or busy, and the results a provider outside the contract could return.               *)
Received(o, breach) ==
  [kind |-> o.kind, status |-> o.status, cause |-> o.cause, err |-> o.err, ctx |-> "none", breach |-> breach]

ProviderResults ==
  {Received(PA!Observation(r), r.breach) : r \in AdapterRuns}
  \cup {Received(PA!Result(k, "none", "none", PA!NoErr), "none") : k \in {"mismatch", "receipt", "legacy"}}
  \cup {Received(PA!Result("error", "none", "none", [kind |-> k, cause |-> "none"]), "none") :
          k \in {"already_active", "packet_security", "login_required", "canceled"}}

PR == INSTANCE ProviderRuntime WITH
        Observations <- ProviderResults,
        pc <- v1, purpose <- v2, ctxErr <- v3, obs <- v4, deferred <- v5, pending <- v6, extraction <- v7,
        captures <- v8, refused <- v9, outcome <- v10, unplanned <- v11, result <- v12

NS == INSTANCE ProviderNamespace WITH
        MaxUpsets <- 2, MaxPasses <- 3,
        family <- v1, own <- v2, call <- v3, at <- v4, disk <- v5, lease <- v6, users <- v7, receipt <- v8,
        failed <- v9, passes <- v10, upsets <- v11

PF == INSTANCE PublicationFiles WITH
        Writers <- Cleaners, None <- "none", MaxUpsets <- 2,
        op <- v1, pc <- v2, file <- v3, temp <- v4, spoilt <- v5, stable <- v6, here <- v7, lockFile <- v8,
        held <- v9, seen <- v10, syncErr <- v11, result <- v12, err <- v13, gone <- v14, upsets <- v15

RG == INSTANCE ProviderRegistry WITH
        Observers <- Cleaners, MaxUpsets <- 1, MaxCloses <- 2,
        reg <- v1, left <- v2, ns <- v3, receipts <- v4, closed <- v5, active <- v6, epoch <- v7, obs <- v8,
        stage <- v9, closer <- v10, receipt <- v11, upsets <- v12, closes <- v13

QU == INSTANCE Qualification WITH
        MaxUpsets <- 2,
        second <- v1, ctx <- v2, group <- v3, cand <- v4, pc <- v5, ns <- v6, admission <- v7, fixtures <- v8,
        probe <- v9, breached <- v10, cause <- v11, owner <- v12, drained <- v13, tries <- v14, upsets <- v15

(* Budgets of three roles with every assignment of timeouts, of seven roles *)
(* with even, uneven and full timeouts, and timeouts beyond what a duration  *)
(* holds.                                                                    *)
RB == INSTANCE RunBudget WITH MaxDuration <- 1000000

Budgets ==
  {[timeouts |-> t, lanes |-> n] : t \in [1 .. 3 -> {1, 2, 5}] \cup [1 .. 2 -> {3600, 600000}] \cup [1 .. 7 -> {3600}]
      \cup {[r \in 1 .. 7 |-> IF r \in long THEN 9 ELSE 4] : long \in {{1}, {7}, {2, 7}, {5, 6, 7}}}, n \in 1 .. 7}

(* Configurations: every assignment of three roles under ample limits, and   *)
(* one assignment under every limit.                                         *)
NameBegins(p, q) == p = "work" /\ q = "work-eu"

RT == INSTANCE ProviderRouting WITH
        Roles <- {"logic", "security", "artist"}, Families <- {"codex", "grok", "cursor", "zcode"}, Extends <- NameBegins

Observed ==
  {[family |-> f, executable |-> e, launcher |-> l, config |-> c, metadata |-> m] :
     f \in {"zcode", "direct"}, e \in RT!FileStates, l \in RT!FileStates, c \in RT!FileStates, m \in RT!MetadataStates}

RoleChoice(enabled, family, profile) == [enabled |-> enabled, family |-> family, profile |-> profile]
RoleChoices == {<<"codex", "none">>, <<"codex", "work-eu">>, <<"grok", "none">>, <<"cursor", "none">>}

Configured(roles, default, homes, repair, extraction, roleMax, runMax, lanes) ==
  [roles |-> roles, defaultProfile |-> default, homes |-> homes, providers |-> {"codex", "grok", "cursor", "zcode"},
   repair |-> repair, extraction |-> extraction, roleMax |-> roleMax, runMax |-> runMax, lanes |-> lanes, timeout |-> 60]

ThreeRoles(logic, security, artist) == [r \in {"logic", "security", "artist"} |->
  CASE r = "logic" -> logic [] r = "security" -> security [] OTHER -> artist]

Configurations ==
  {Configured(ThreeRoles(RoleChoice(TRUE, l[1], l[2]), RoleChoice(on, q[1], q[2]), t), default, homes, TRUE, TRUE, 2, 6, 2) :
     l \in RoleChoices, q \in RoleChoices, on \in BOOLEAN,
     t \in {RoleChoice(FALSE, "none", "none"), RoleChoice(TRUE, "codex", "work"), RoleChoice(TRUE, "zcode", "none"), RoleChoice(TRUE, "grok", "none")},
     default \in {"none", "work"}, homes \in {{}, {"work"}, {"work", "work-eu"}}}
  \cup {Configured(ThreeRoles(RoleChoice(TRUE, "grok", "none"), RoleChoice(TRUE, "codex", "none"), RoleChoice(FALSE, "none", "none")),
                   "none", {}, repair, extraction, roleMax, runMax, lanes) :
          repair \in BOOLEAN, extraction \in BOOLEAN, roleMax \in 1 .. 3, runMax \in 1 .. 5, lanes \in 1 .. 2}

RI == INSTANCE ReportInputs

LS == INSTANCE LiveSource WITH
        MaxMoves <- 2, MaxReads <- 1,
        fs <- v1, moves <- v2, scope <- v3, lease <- v4, reader <- v5, target <- v6, pc <- v7, cmd <- v8, call <- v9,
        held <- v10, answer <- v11, past <- v12, artist <- v13, reads <- v14

SE == INSTANCE LiveSelection

(* The contract of a live run, idle in the behaviours of the others.       *)
LR == INSTANCE ReviewRun WITH
        lease     <- IF which = "live" THEN L!LeaseOf ELSE "none",
        providers <- IF which = "live" THEN v6 ELSE "none",
        review    <- IF which = "live" THEN L!ReviewOf ELSE "none",
        roots     <- IF which = "live" THEN v3 ELSE "none",
        answer    <- IF which = "live" THEN v14 ELSE "none"

NoSlots ==
  /\ v1 = Idle /\ v2 = Idle /\ v3 = Idle /\ v4 = Idle /\ v5 = Idle /\ v6 = Idle /\ v7 = Idle
  /\ v8 = Idle /\ v9 = Idle /\ v10 = Idle /\ v11 = Idle /\ v12 = Idle /\ v13 = Idle /\ v14 = Idle
  /\ v15 = Idle

-----------------------------------------------------------------------------
(* Observations for the retention planner: three runs under every lineage  *)
(* of at most three edges (a fourth, unobserved run makes one dangle), and *)
(* three unlinked runs under every combination of sizes, ages and limits.  *)
Run(kind, time, bytes) ==
  [active |-> kind = "active", uncommitted |-> kind = "uncommitted", corrupt |-> kind = "corrupt",
   time |-> time, bytes |-> bytes]

EdgeChoices == [child : 1 .. 3, parent : 1 .. 3, valid : BOOLEAN]
               \cup {[child |-> 1, parent |-> 4, valid |-> TRUE]}
EdgePairs == {{e, f} : e \in EdgeChoices, f \in EdgeChoices}
EdgeSets == {pair \cup {e} : pair \in EdgePairs, e \in EdgeChoices}

LineageInputs ==
  {[runs |-> [r \in 1 .. 3 |-> IF r \in active THEN Run("active", 0, 1) ELSE Run("", 1, 1)],
    edges |-> edges, keep |-> keep, now |-> 5, age |-> 1, minAge |-> 0,
    target |-> 9, protectedBytes |-> 0, maxBytes |-> 9] :
      active \in {{}, {1}, {3}}, keep \in {{}, {2}}, edges \in EdgeSets}

SizeInputs ==
  {[runs |-> [r \in 1 .. 3 |-> Run(kinds[r], times[r], bytes[r])],
    edges |-> {}, keep |-> {}, now |-> 5, age |-> 3, minAge |-> 1,
    target |-> target, protectedBytes |-> 1, maxBytes |-> 6] :
      kinds \in {<<"", "", "">>, <<"", "corrupt", "">>}, times \in [1 .. 3 -> {1, 3, 5}],
      bytes \in [1 .. 3 -> {0, 1, 3}], target \in {0, 2, 6}}

(* The algorithms, and the inputs each one is checked on.                  *)
Algorithms == {"plan", "adapter", "content", "result", "empty", "followup", "mixture", "profiles", "routing", "budget", "report", "evidence", "excerpt", "selection"}

InputsOf(algorithm) ==
  CASE algorithm = "plan" -> LineageInputs \cup SizeInputs
    [] algorithm = "adapter" -> AdapterRuns
    [] algorithm = "content" -> Contents
    [] algorithm = "result" -> PD!Results
    [] algorithm = "empty" -> PD!Selections
    [] algorithm = "followup" -> PD!Followups
    [] algorithm = "mixture" -> PD!Mixtures
    [] algorithm = "profiles" -> Observed
    [] algorithm = "routing" -> Configurations
    [] algorithm = "budget" -> Budgets
    [] algorithm = "report" -> RI!Reports
    [] algorithm = "evidence" -> RI!Checks
    [] algorithm = "excerpt" -> RI!Files
    [] algorithm = "selection" -> SE!Inputs

Choose ==
  /\ input' \in InputsOf(which) /\ v1' = "chosen"
  /\ UNCHANGED <<v2, v3, v4, v5, v6, v7, v8, v9, v10, v11, v12, v13, v14, v15>>
Given(algorithm) == which = algorithm /\ v1 = "chosen"

-----------------------------------------------------------------------------
Init ==
  \/ which = "cleanup" /\ C!Init /\ input = Idle /\ v15 = Idle
  \/ which = "writer" /\ W!Init /\ input = Idle /\ v13 = Idle
  \/ /\ which = "export" /\ E!Init /\ input = Idle
     /\ v8 = Idle /\ v9 = Idle /\ v10 = Idle /\ v11 = Idle /\ v12 = Idle /\ v13 = Idle
  \/ /\ which = "init" /\ I!Init /\ input = Idle
     /\ v9 = Idle /\ v10 = Idle /\ v11 = Idle /\ v12 = Idle /\ v13 = Idle
  \/ /\ which = "diagnostics" /\ D!Init /\ input = Idle
     /\ v12 = Idle /\ v13 = Idle /\ v14 = Idle /\ v15 = Idle
  \/ which = "live" /\ L!Init /\ input = Idle
  \/ which = "provider" /\ PR!Init /\ input = Idle /\ v13 = Idle /\ v14 = Idle /\ v15 = Idle
  \/ /\ which = "session" /\ S!Init /\ input = Idle
     /\ v7 = Idle /\ v8 = Idle /\ v9 = Idle /\ v10 = Idle /\ v11 = Idle /\ v12 = Idle /\ v13 = Idle /\ v14 = Idle /\ v15 = Idle
  \/ which = "query" /\ Q!Init /\ input = Idle
  \/ which = "qualify" /\ QU!Init /\ input = Idle
  \/ which = "source" /\ LS!Init /\ input = Idle /\ v15 = Idle
  \/ /\ which = "registry" /\ RG!Init /\ input = Idle
     /\ v14 = Idle /\ v15 = Idle
  \/ which = "files" /\ PF!Init /\ input = Idle
  \/ /\ which = "namespace" /\ NS!Init /\ input = Idle
     /\ v12 = Idle /\ v13 = Idle /\ v14 = Idle /\ v15 = Idle
  \/ which \in Algorithms /\ NoSlots /\ input = Idle

Next ==
  /\ UNCHANGED which
  /\ \/ which = "cleanup" /\ C!Next /\ UNCHANGED <<input, v15>>
     \/ which = "writer" /\ W!Next /\ UNCHANGED <<input, v13>>
     \/ which = "export" /\ E!Next /\ UNCHANGED <<input, v8, v9, v10, v11, v12, v13>>
     \/ which = "init" /\ I!Next /\ UNCHANGED <<input, v9, v10, v11, v12, v13>>
     \/ which = "diagnostics" /\ D!Next /\ UNCHANGED <<input, v12, v13, v14, v15>>
     \/ which = "live" /\ L!Next /\ UNCHANGED input
     \/ which = "provider" /\ PR!Next /\ UNCHANGED <<input, v13, v14, v15>>
     \/ which = "session" /\ S!Next /\ UNCHANGED <<input, v7, v8, v9, v10, v11, v12, v13, v14, v15>>
     \/ which = "query" /\ Q!Next /\ UNCHANGED input
     \/ which = "qualify" /\ QU!Next /\ UNCHANGED input
     \/ which = "source" /\ LS!Next /\ UNCHANGED <<input, v15>>
     \/ which = "registry" /\ RG!Next /\ UNCHANGED <<input, v14, v15>>
     \/ which = "files" /\ PF!Next /\ UNCHANGED input
     \/ which = "namespace" /\ NS!Next /\ UNCHANGED <<input, v12, v13, v14, v15>>
     \/ which \in Algorithms /\ v1 = Idle /\ Choose

Spec == Init /\ [][Next]_vars

Symmetry == Permutations(Cleaners)

-----------------------------------------------------------------------------
TypeOK ==
  /\ which = "cleanup" => C!TypeOK
  /\ which = "writer" => W!TypeOK
  /\ which = "export" => E!TypeOK
  /\ which = "init" => I!TypeOK
  /\ which = "diagnostics" => D!TypeOK
  /\ which = "live" => L!TypeOK
  /\ which = "provider" => PR!TypeOK
  /\ which = "session" => S!TypeOK
  /\ which = "query" => Q!TypeOK
  /\ which = "qualify" => QU!TypeOK
  /\ which = "source" => LS!TypeOK
  /\ which = "registry" => RG!TypeOK
  /\ which = "files" => PF!TypeOK
  /\ which = "namespace" => NS!TypeOK

(* See Cleanup: a half-removed publication has a durable tombstone, what   *)
(* is deleted is what the plan observed, and without faults no deletion is *)
(* left behind.                                                            *)
CleanIsSafe ==
  which = "cleanup" => C!HalfDeletedIsTombstoned /\ C!AppliedAsPlanned /\ C!DeletionsFinish

(* See Cleanup: no publication is removed that a retained run needs, and   *)
(* diagnostics of a live run are never removed.  See CleanPlanner: the      *)
(* sorted marking of edges selects exactly the runs that may be deleted,    *)
(* size selection is oldest-first and stops in time, and every plan passes  *)
(* the receipt validation of apply and resume.                              *)
RetainedIsKept ==
  [][/\ which = "cleanup" => \A r \in CleanRuns :
          /\ v1[r] = "committed" /\ v1'[r] # "committed" => C!LineageKept(r)
          /\ v2[r] = "active" => v2'[r] \in {"active", "terminal", "linked"}
     /\ which = "plan" => /\ P!SelectsExactlyDeletable(input') /\ P!SizeSelectionIsTight(input')
                          /\ P!PlanIsAcceptedReceipt(input')]_vars

(* See Cleanup: "ResumeTombstones completes durable deletions".            *)
ResumeCompletes == which = "cleanup" => C!ResumeCompletes

(* See SecureWriter: only whole, synced, clean streams are installed, one  *)
(* receipt per destination, and a failed write leaves nothing it does not  *)
(* report.  See PublicationFiles: nobody else's file is removed, a durable  *)
(* one survives the other writers, and a conflict changes nothing.  See     *)
(* Export: a readable manifest describes a bundle that is there, half a     *)
(* pair has its intent recorded, and a reported pair stays.                 *)
WriteIsSecure ==
  /\ which = "writer" => W!InstalledIsClean /\ W!FailureLeavesNothing /\ W!ReceiptIsBacked
  /\ which = "files" => PF!FilesAreSafe
  /\ which = "export" => E!ManifestBindsBundle /\ E!HalfPairIsJournaled /\ E!ReportedPairStays

(* See InitConfig: every outcome after a mutation was validated before it, *)
(* the reported write state is what was done, a committed pair survives a  *)
(* power loss, and racing initializations do not both commit.              *)
InitIsHonest ==
  which = "init" => /\ I!EveryOutcomeListed /\ I!WriteStateIsTrue
                    /\ I!CommittedIsDurable /\ I!OneInitCommits

(* See LiveRun: no review of a changed binding is published, the terminal  *)
(* status and the answer agree with what was published, and an error that  *)
(* leaves a provider or the source behind carries their owner.  See         *)
(* DiagnosticStore: the log stays numbered, acknowledged events are         *)
(* durable, a terminal status closes a complete log, and ordinary events    *)
(* leave the tail reserve alone.  See LiveSource: the source's operands     *)
(* were true when it was admitted, a file read is the file of one moment,   *)
(* and the artist's images are the ones compared.                           *)
LiveRunIsHonest ==
  /\ which = "source" => LS!SourceIsPinned
  /\ which = "live" => /\ L!DriftIsNeverPublished /\ L!StatusIsTrue
                       /\ L!ResultIsComplete /\ L!OwnerIsRetained
  /\ which = "diagnostics" => /\ D!LogIsNumbered /\ D!AckedIsDurable
                              /\ D!TerminalStatusMatchesLog /\ D!ReserveKeptForMandatory

(* See ProviderRuntime: a granted second invocation finds its input, the   *)
(* first report is what is published, refused streams leave no bytes, and  *)
(* a changed source decides the attempt.  See ProviderAdapter: a changed    *)
(* source outranks every other outcome of a run, an interruption is         *)
(* reported as one, a success had no error.  See ProviderSession: a         *)
(* completed conversation had its one turn, after the selection was         *)
(* confirmed, with every tool finished and planned and every permission     *)
(* within its bounds.                                                       *)
InvocationIsSound ==
  /\ which = "provider" => PR!InvocationIsSound
  /\ Given("adapter") => PA!ObservationIsFaithful(input)
  /\ which = "session" => S!SessionsAreSound

(* See PublicationInputs: a review whose faults are all its providers' is  *)
(* prepared, what is prepared is built and read back, and the documents of *)
(* two publications are never read as one; the query service's own reader  *)
(* agrees with the writer's.                                               *)
DocumentsAgree ==
  [][/\ which = "result" => /\ PD!FinishedIsPublishable(input') /\ PD!PreparedIsBuilt(input')
                            /\ PD!BuiltIsReadable(PD!CandidateOf(input'))
     /\ which = "empty" => PD!EmptyIsBuilt(input') /\ PD!BuiltIsReadable(PD!NoChangeCandidate(input'))
     /\ which = "followup" => PD!FollowupIsBuilt(input') /\ PD!BuiltIsReadable(PD!FollowupCandidate(input'))
     /\ which = "mixture" => PD!MixtureIsRefused(input') /\ PD!QueryRefusesMixture(input')]_vars

(* See PublicationQuery: what a call answers was committed in one piece     *)
(* during the call, retired lineage is refused, an intact run is never       *)
(* called corrupt, the pages of one receipt tile its findings, and a         *)
(* recovery is offered only for an unpublished run.  See ContentChunk: the   *)
(* chunks of a content are the content.                                      *)
ReadsAreCommitted ==
  /\ which = "query" => Q!ReadsAreCommitted
  /\ Given("content") => CH!ChunksTile(input.data, input.text)

(* See ProviderNamespace: a terminal receipt is true, of what others put in  *)
(* a name only an empty directory caught between a look and the rmdir is     *)
(* removed, and the descriptor tells, what is left behind is owned, and the  *)
(* namespace of a process that may still run stays.  See ProviderRegistry:   *)
(* namespaces are drained only when no observation uses them, the run        *)
(* receipt stands for all of them, and a staged success left no staging      *)
(* directory.  See Qualification: every namespace a qualification acquired   *)
(* is drained or owned by what it returned, a boundary failure delivers no   *)
(* run, and every candidate is routed or reported.                           *)
NamespaceIsReclaimed ==
  /\ which = "namespace" => NS!NamespaceIsReclaimed
  /\ which = "registry" => RG!DrainIsExclusive /\ RG!ReceiptIsComplete /\ RG!StagedSuccessIsClean
  /\ which = "qualify" => QU!QualificationIsOwned

(* See ProviderRouting: every role runs on the provider and the credentials  *)
(* configured for it or the run is refused, for one of the reasons named; an *)
(* unavailable family refuses the others only when its version hides that a   *)
(* part is missing; a heartbeat finds the profile asked for and those whose   *)
(* name begins with it.  See RunBudget: the run's deadline covers its two     *)
(* waves over the lanes.                                                      *)
RoutingIsConfigured ==
  /\ Given("profiles") => RT!DiscoveredIsAdmitted(input)
  /\ Given("routing") => RT!RoutedAsConfigured(input) /\ RT!HeartbeatIsOfRequest(input)
  /\ Given("budget") => /\ RB!EligibleIsExact(input.timeouts, input.lanes)
                         /\ RB!DeadlineCoversSchedules(input.timeouts, input.lanes)

(* See ReportInputs: a validated report tells its findings apart and claims   *)
(* no trust, a planned repair can be carried out and changes nothing else,    *)
(* and what is called verified is what the source says.  See LiveSelection:   *)
(* the paths of a source are the ones that should be.                         *)
ReportsAreFaithful ==
  [][/\ which = "report" => RI!ReportIsFaithful(input')
     /\ which = "evidence" => RI!EvidenceIsChecked(input')
     /\ which = "excerpt" => RI!ExcerptIsLines(input')
     /\ which = "selection" => SE!SelectionIsExact(input')]_vars

(* See ReportInputs: the quotes an exact repair is asked for are the ones     *)
(* that did not match.                                                        *)
ExactPlanNamesMismatches ==
  [][which = "evidence" => RI!ExactPlanNamesMismatches(RI!Applied(RI!Plain, input'.changes), input'.world)]_vars

(* See PublicationInputs: "want omission".                                 *)
OmissionStillPublishes == Given("result") => PD!OmissionStillPublishes(input)

(* See ReviewRun: every step of a live run is one its contract allows -    *)
(* the source is leased for as long as a provider runs, published only     *)
(* after both ended, and a result is answered only for a published review. *)
RunImplementsContract == LR!Spec

=============================================================================
