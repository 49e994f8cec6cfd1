--------------------------- MODULE LiveRunProofs ----------------------------
(***************************************************************************)
(* A live review run implements the contract of a run (ReviewRun), step by *)
(* step, and what it answers and writes about itself is true, however its  *)
(* dependencies fail, whenever the caller cancels and whenever the source  *)
(* changes.  Nothing here depends on how many failures are explored.       *)
(* The qualification that such a run starts with (Qualification), its       *)
(* diagnostics (DiagnosticStore) and the reader of its source (LiveSource)  *)
(* are components of their own, over the variables declared here.           *)
(***************************************************************************)
EXTENDS LiveRun, Sequences, FiniteSets, FiniteSetTheorems, SequenceTheorems, TLAPS

CONSTANTS
  MaxProbeUpsets,        \* failures of the qualification
  LogMax, TailReserve,   \* lines of a log, and of its end that are for terminal events
  MaxStoreUpsets,        \* failures of the diagnostics
  MaxMoves, MaxReads     \* steps of the others in a project, and reads of the verifier

VARIABLES
  second, ctx, group, cand, phase, namespaces, admission, fixtures, probe, breached, cause, owner, reclaimed, tries,
  probeUpsets

VARIABLES
  store, sequence, steps, decision, log, synced, torn, document, dropped, acked, storeUpsets

VARIABLES
  fs, moves, scope, bound, sourceReader, target, at, cmd, call, holding, reply, past, artist, reads

Q == INSTANCE Qualification WITH
       MaxUpsets <- MaxProbeUpsets, pc <- phase, ns <- namespaces, drained <- reclaimed, upsets <- probeUpsets

D == INSTANCE DiagnosticStore WITH MaxUpsets <- MaxStoreUpsets, state <- store, status <- document, upsets <- storeUpsets

S == INSTANCE LiveSource WITH
       lease <- bound, reader <- sourceReader, pc <- at, held <- holding, answer <- reply

(* The contract as the run's state shows it.                               *)
Contract == INSTANCE ReviewRun WITH lease <- LeaseOf, review <- ReviewOf

RunImplementsContract == Contract!Spec

(* Execute up to its result, and what follows its deferred cleanup.        *)
Ahead == {"compose", "start", "admit", "diagnose", "prepare", "qualify", "probe", "plan",
          "execute", "drain", "verify", "close", "publish", "project"}
Behind == {"finalize", "roots", "answer", "done"}

(* The types that the other parts rest on.                                 *)
RunTypes ==
  /\ pc \in Ahead \cup {"cleanup", "release"} \cup Behind
  /\ roots \in {"none", "made", "removed"}
  /\ reader \in {"none", "open", "closed"} /\ drift \in {"no", "early", "late"}
  /\ providers \in {"none", "running", "stopped"}
  /\ qualified \in BOOLEAN /\ drained \in BOOLEAN /\ sourceClosed \in BOOLEAN
  /\ published \in {"no", "unconfirmed", "confirmed"}
  /\ answer \in {"none", "result", "error"}

(* The roots exist for as long as anything may have to be cleaned up in    *)
(* them, and the caller has no answer before the end.                      *)
RootsStand ==
  /\ pc = "compose" => roots = "none"
  /\ pc \notin {"compose", "answer", "done"} => roots = "made"
  /\ pc # "done" => answer = "none"

(* The source is open from its admission to its close or its release; one  *)
(* that outlives the release has its owner in the error.                   *)
SourceHeld ==
  /\ pc \in {"compose", "start"} => reader = "none"
  /\ pc \in {"admit", "diagnose", "prepare", "qualify", "probe", "plan", "execute", "drain",
             "verify", "close"} => reader = "open"
  /\ pc \in {"cleanup", "release"} => reader # "none"
  /\ pc \in {"publish", "project"} \/ published # "no" => reader = "closed" /\ sourceClosed
  /\ pc \in Behind /\ reader = "open" => "cleanup" \in errs
  /\ reader = "none" => drift = "no"
  /\ sourceClosed => reader = "closed"
  /\ pc \in Verified => drift # "early"
  /\ published # "no" => drift # "early"

(* Providers run only between the qualification and a proven drain; those  *)
(* that are not proven to have ended have their owner in the error.        *)
ProvidersOwned ==
  /\ pc \in {"compose", "start", "admit", "diagnose", "prepare", "qualify"} =>
       providers = "none" /\ ~qualified
  /\ pc \in {"compose", "start", "admit", "diagnose", "prepare", "qualify", "probe", "plan",
             "execute", "drain"} => ~drained
  /\ pc = "probe" => providers = "running" /\ ~qualified
  /\ pc \in {"plan", "execute", "drain"} => qualified
  /\ qualified /\ ~drained => providers = "running"
  /\ pc # "probe" /\ providers = "running" => qualified /\ ~drained
  /\ pc \in {"verify", "close", "publish", "project", "release"} => providers # "running"
  /\ pc \in Behind /\ providers = "running" => "cleanup" \in errs
  /\ published # "no" => providers # "running"

(* What the error of the run says of its publication.                      *)
ErrorsTrue ==
  /\ pc \in Ahead => errs = {}
  /\ published # "no" => pc \notin Ahead \/ pc = "project"
  /\ pc = "project" => published = "confirmed"
  /\ pc \in {"project", "cleanup", "release", "finalize"} =>
       /\ published = "confirmed" => errs \in {{}, {"plain", "projection"}, {"diagnostics", "manifest"}}
       /\ published = "unconfirmed" => errs \in {{"publication"}, {"publication", "cancelled"}}
  /\ pc \notin Ahead /\ errs = {} => published = "confirmed"
  /\ "manifest" \in errs => published = "confirmed"
  /\ "cleanup" \in errs => pc \in Behind /\ (pc \in {"answer", "done"} => roots = "made")

(* The sink is open from the admission on wherever a result is possible,   *)
(* and a status is written only at the end.                                *)
StatusWritten ==
  /\ pc \in Ahead \ {"compose", "start", "admit", "diagnose"} => sink = "open"
  /\ pc \in {"cleanup", "release", "finalize"} /\ errs = {} => sink = "open"
  /\ pc \notin {"roots", "answer", "done"} => status = <<>>
  /\ pc \in {"roots", "answer", "done"} /\ errs = {} => status = <<"completed", TRUE>>
  /\ pc \in {"answer", "done"} /\ errs = {} => roots = "removed"
  /\ answer = "result" => errs = {}

(* Together they are inductive.                                            *)
LiveInv ==
  /\ RunTypes /\ RootsStand /\ SourceHeld /\ ProvidersOwned /\ ErrorsTrue /\ StatusWritten
  /\ StatusIsTrue

(* What a live run answers and writes about itself is true.                *)
LiveRunAnswersTruly ==
  DriftIsNeverPublished /\ StatusIsTrue /\ ResultIsComplete /\ OwnerIsRetained

-----------------------------------------------------------------------------
(* The environment's steps.                                                *)

(* A change of the binding counts as late only after the last              *)
(* revalidation.                                                           *)
LEMMA DriftKeeps ==
  ASSUME LiveInv, Drift
  PROVE  LiveInv'
<1>1. RunTypes'
  BY DEF LiveInv, RunTypes, Drift, sourceVars, runVars, reportVars, Ahead, Behind, Verified
<1>2. RootsStand'
  BY DEF LiveInv, RunTypes, RootsStand, Drift, sourceVars, runVars, reportVars, Ahead,
     Behind, Verified
<1>3. SourceHeld'
  BY DEF LiveInv, RunTypes, SourceHeld, Drift, sourceVars, runVars, reportVars, Ahead,
     Behind, Verified
<1>4. ProvidersOwned'
  BY DEF LiveInv, RunTypes, ProvidersOwned, Drift, sourceVars, runVars, reportVars, Ahead,
     Behind, Verified
<1>5. ErrorsTrue'
  BY DEF LiveInv, RunTypes, ErrorsTrue, Drift, sourceVars, runVars, reportVars, Ahead,
     Behind, Verified
<1>6. StatusWritten'
  BY DEF LiveInv, RunTypes, StatusWritten, RootsStand, ErrorsTrue, Drift, sourceVars,
     runVars, reportVars, Ahead, Behind, Verified
<1>7. StatusIsTrue'
  BY DEF LiveInv, RunTypes, StatusWritten, StatusIsTrue, Drift, sourceVars, runVars,
     reportVars, Ahead, Behind, Verified
<1> QED BY <1>1, <1>2, <1>3, <1>4, <1>5, <1>6, <1>7 DEF LiveInv

(* The caller's cancellation changes nothing that the invariant reads.     *)
LEMMA CancelKeeps ==
  ASSUME LiveInv, Cancel
  PROVE  LiveInv'
<1>1. RunTypes'
  BY DEF LiveInv, RunTypes, Cancel, sourceVars, runVars, reportVars, Ahead, Behind, Verified
<1>2. RootsStand'
  BY DEF LiveInv, RunTypes, RootsStand, Cancel, sourceVars, runVars, reportVars, Ahead,
     Behind, Verified
<1>3. SourceHeld'
  BY DEF LiveInv, RunTypes, SourceHeld, Cancel, sourceVars, runVars, reportVars, Ahead,
     Behind, Verified
<1>4. ProvidersOwned'
  BY DEF LiveInv, RunTypes, ProvidersOwned, Cancel, sourceVars, runVars, reportVars, Ahead,
     Behind, Verified
<1>5. ErrorsTrue'
  BY DEF LiveInv, RunTypes, ErrorsTrue, Cancel, sourceVars, runVars, reportVars, Ahead,
     Behind, Verified
<1>6. StatusWritten'
  BY DEF LiveInv, RunTypes, StatusWritten, RootsStand, ErrorsTrue, Cancel, sourceVars,
     runVars, reportVars, Ahead, Behind, Verified
<1>7. StatusIsTrue'
  BY DEF LiveInv, RunTypes, StatusWritten, StatusIsTrue, Cancel, sourceVars, runVars,
     reportVars, Ahead, Behind, Verified
<1> QED BY <1>1, <1>2, <1>3, <1>4, <1>5, <1>6, <1>7 DEF LiveInv

-----------------------------------------------------------------------------
(* The composition's steps.                                                *)

(* A composition that fails holds no source and no provider.               *)
LEMMA ComposeReviewRunsKeeps ==
  ASSUME LiveInv, ComposeReviewRuns
  PROVE  LiveInv'
<1>1. RunTypes'
  BY DEF LiveInv, RunTypes, ComposeReviewRuns, sourceVars, runVars, reportVars, Ahead,
     Behind, Verified
<1>2. RootsStand'
  BY DEF LiveInv, RunTypes, RootsStand, ComposeReviewRuns, sourceVars, runVars, reportVars,
     Ahead, Behind, Verified
<1>3. SourceHeld'
  BY DEF LiveInv, RunTypes, SourceHeld, ComposeReviewRuns, sourceVars, runVars, reportVars,
     Ahead, Behind, Verified
<1>4. ProvidersOwned'
  BY DEF LiveInv, RunTypes, ProvidersOwned, ComposeReviewRuns, sourceVars, runVars,
     reportVars, Ahead, Behind, Verified
<1>5. ErrorsTrue'
  BY DEF LiveInv, RunTypes, ErrorsTrue, ComposeReviewRuns, sourceVars, runVars, reportVars,
     Ahead, Behind, Verified
<1>6. StatusWritten'
  BY DEF LiveInv, RunTypes, StatusWritten, RootsStand, ErrorsTrue, ComposeReviewRuns,
     sourceVars, runVars, reportVars, Ahead, Behind, Verified
<1>7. StatusIsTrue'
  BY DEF LiveInv, RunTypes, StatusWritten, StatusIsTrue, ComposeReviewRuns, sourceVars,
     runVars, reportVars, Ahead, Behind, Verified
<1> QED BY <1>1, <1>2, <1>3, <1>4, <1>5, <1>6, <1>7 DEF LiveInv

(* The roots go only with an error that owns nothing, and a failed removal *)
(* is joined to it, so that no result is answered with the roots left.     *)
LEMMA CleanupRootsKeeps ==
  ASSUME LiveInv, CleanupRoots
  PROVE  LiveInv'
<1>1. RunTypes'
  BY DEF LiveInv, RunTypes, CleanupRoots, RootsAfter, sourceVars, runVars, reportVars,
     Ahead, Behind, Verified
<1>2. RootsStand'
  BY DEF LiveInv, RunTypes, RootsStand, CleanupRoots, RootsAfter, sourceVars, runVars,
     reportVars, Ahead, Behind, Verified
<1>3. SourceHeld'
  BY DEF LiveInv, RunTypes, SourceHeld, CleanupRoots, RootsAfter, sourceVars, runVars,
     reportVars, Ahead, Behind, Verified
<1>4. ProvidersOwned'
  BY DEF LiveInv, RunTypes, ProvidersOwned, CleanupRoots, RootsAfter, sourceVars, runVars,
     reportVars, Ahead, Behind, Verified
<1>5. ErrorsTrue'
  BY DEF LiveInv, RunTypes, ErrorsTrue, RootsStand, CleanupRoots, RootsAfter, sourceVars,
     runVars, reportVars, Ahead, Behind, Verified
<1>6. StatusWritten'
  <2>1. CASE "cleanup" \in errs
    BY <2>1 DEF LiveInv, RunTypes, StatusWritten, CleanupRoots, reportVars, Ahead, Behind
  <2>2. CASE "cleanup" \notin errs
    <3>1. PICK r \in RootsAfter : roots' = r[1] /\ errs' = errs \cup r[2]
      BY <2>2 DEF CleanupRoots
    <3>2. CASE r = <<"removed", {}>>
      <4>1. roots' = "removed" /\ errs' = errs
        BY <3>1, <3>2
      <4> QED BY <4>1 DEF LiveInv, RunTypes, StatusWritten, CleanupRoots, reportVars, Ahead, Behind
    <3>3. CASE r = <<"made", {"artifact", "roots"}>>
      <4>1. errs' # {}
        BY <3>1, <3>3
      <4> QED BY <4>1 DEF LiveInv, RunTypes, StatusWritten, RootsStand, CleanupRoots, reportVars, Ahead, Behind
    <3> QED BY <3>1, <3>2, <3>3 DEF RootsAfter
  <2> QED BY <2>1, <2>2
<1>7. StatusIsTrue'
  BY DEF LiveInv, RunTypes, StatusWritten, StatusIsTrue, CleanupRoots, RootsAfter,
     sourceVars, runVars, reportVars, Ahead, Behind, Verified
<1> QED BY <1>1, <1>2, <1>3, <1>4, <1>5, <1>6, <1>7 DEF LiveInv

(* Only an empty error is answered with a result.                          *)
LEMMA AnswerKeeps ==
  ASSUME LiveInv, Answer
  PROVE  LiveInv'
<1>1. RunTypes'
  BY DEF LiveInv, RunTypes, Answer, sourceVars, runVars, reportVars, Ahead, Behind, Verified
<1>2. RootsStand'
  BY DEF LiveInv, RunTypes, RootsStand, Answer, sourceVars, runVars, reportVars, Ahead,
     Behind, Verified
<1>3. SourceHeld'
  BY DEF LiveInv, RunTypes, SourceHeld, Answer, sourceVars, runVars, reportVars, Ahead,
     Behind, Verified
<1>4. ProvidersOwned'
  BY DEF LiveInv, RunTypes, ProvidersOwned, Answer, sourceVars, runVars, reportVars, Ahead,
     Behind, Verified
<1>5. ErrorsTrue'
  BY DEF LiveInv, RunTypes, ErrorsTrue, Answer, sourceVars, runVars, reportVars, Ahead,
     Behind, Verified
<1>6. StatusWritten'
  BY DEF LiveInv, RunTypes, StatusWritten, RootsStand, ErrorsTrue, Answer, sourceVars,
     runVars, reportVars, Ahead, Behind, Verified
<1>7. StatusIsTrue'
  BY DEF LiveInv, RunTypes, StatusWritten, StatusIsTrue, Answer, sourceVars, runVars,
     reportVars, Ahead, Behind, Verified
<1> QED BY <1>1, <1>2, <1>3, <1>4, <1>5, <1>6, <1>7 DEF LiveInv

-----------------------------------------------------------------------------
(* The steps of Execute.                                                   *)

(* A refused source leaves nothing open.                                   *)
LEMMA OpenSourceKeeps ==
  ASSUME LiveInv, OpenSource
  PROVE  LiveInv'
<1>1. RunTypes'
  BY DEF LiveInv, RunTypes, OpenSource, Goto, sourceVars, runVars, reportVars, Ahead,
     Behind, Verified
<1>2. RootsStand'
  BY DEF LiveInv, RunTypes, RootsStand, OpenSource, Goto, sourceVars, runVars, reportVars,
     Ahead, Behind, Verified
<1>3. SourceHeld'
  BY DEF LiveInv, RunTypes, SourceHeld, OpenSource, Goto, sourceVars, runVars, reportVars,
     Ahead, Behind, Verified
<1>4. ProvidersOwned'
  BY DEF LiveInv, RunTypes, ProvidersOwned, OpenSource, Goto, sourceVars, runVars,
     reportVars, Ahead, Behind, Verified
<1>5. ErrorsTrue'
  BY DEF LiveInv, RunTypes, ErrorsTrue, OpenSource, Goto, sourceVars, runVars, reportVars,
     Ahead, Behind, Verified
<1>6. StatusWritten'
  BY DEF LiveInv, RunTypes, StatusWritten, RootsStand, ErrorsTrue, OpenSource, Goto,
     sourceVars, runVars, reportVars, Ahead, Behind, Verified
<1>7. StatusIsTrue'
  BY DEF LiveInv, RunTypes, StatusWritten, StatusIsTrue, OpenSource, Goto, sourceVars,
     runVars, reportVars, Ahead, Behind, Verified
<1> QED BY <1>1, <1>2, <1>3, <1>4, <1>5, <1>6, <1>7 DEF LiveInv

(* What an admission refuses is left to the deferred cleanup.              *)
LEMMA AdmitKeeps ==
  ASSUME LiveInv, Admit
  PROVE  LiveInv'
<1>1. RunTypes'
  BY DEF LiveInv, RunTypes, Admit, Goto, Fails, sourceVars, runVars, reportVars, Ahead,
     Behind, Verified
<1>2. RootsStand'
  BY DEF LiveInv, RunTypes, RootsStand, Admit, Goto, Fails, sourceVars, runVars, reportVars,
     Ahead, Behind, Verified
<1>3. SourceHeld'
  BY DEF LiveInv, RunTypes, SourceHeld, Admit, Goto, Fails, sourceVars, runVars, reportVars,
     Ahead, Behind, Verified
<1>4. ProvidersOwned'
  BY DEF LiveInv, RunTypes, ProvidersOwned, Admit, Goto, Fails, sourceVars, runVars,
     reportVars, Ahead, Behind, Verified
<1>5. ErrorsTrue'
  BY DEF LiveInv, RunTypes, ErrorsTrue, Admit, Goto, Fails, sourceVars, runVars, reportVars,
     Ahead, Behind, Verified
<1>6. StatusWritten'
  BY DEF LiveInv, RunTypes, StatusWritten, RootsStand, ErrorsTrue, Admit, Goto, Fails,
     sourceVars, runVars, reportVars, Ahead, Behind, Verified
<1>7. StatusIsTrue'
  BY DEF LiveInv, RunTypes, StatusWritten, StatusIsTrue, Admit, Goto, Fails, sourceVars,
     runVars, reportVars, Ahead, Behind, Verified
<1> QED BY <1>1, <1>2, <1>3, <1>4, <1>5, <1>6, <1>7 DEF LiveInv

(* Execute goes on only with an open sink; a sink that is abandoned comes  *)
(* with an error.                                                          *)
LEMMA OpenDiagnosticsKeeps ==
  ASSUME LiveInv, OpenDiagnostics
  PROVE  LiveInv'
<1>1. RunTypes'
  BY DEF LiveInv, RunTypes, OpenDiagnostics, Goto, Fails, CancelledOr, sourceVars, runVars,
     reportVars, Ahead, Behind, Verified
<1>2. RootsStand'
  BY DEF LiveInv, RunTypes, RootsStand, OpenDiagnostics, Goto, Fails, CancelledOr,
     sourceVars, runVars, reportVars, Ahead, Behind, Verified
<1>3. SourceHeld'
  BY DEF LiveInv, RunTypes, SourceHeld, OpenDiagnostics, Goto, Fails, CancelledOr,
     sourceVars, runVars, reportVars, Ahead, Behind, Verified
<1>4. ProvidersOwned'
  BY DEF LiveInv, RunTypes, ProvidersOwned, OpenDiagnostics, Goto, Fails, CancelledOr,
     sourceVars, runVars, reportVars, Ahead, Behind, Verified
<1>5. ErrorsTrue'
  BY DEF LiveInv, RunTypes, ErrorsTrue, OpenDiagnostics, Goto, Fails, CancelledOr,
     sourceVars, runVars, reportVars, Ahead, Behind, Verified
<1>6. StatusWritten'
  BY DEF LiveInv, RunTypes, StatusWritten, RootsStand, ErrorsTrue, OpenDiagnostics, Goto,
     Fails, CancelledOr, sourceVars, runVars, reportVars, Ahead, Behind, Verified
<1>7. StatusIsTrue'
  BY DEF LiveInv, RunTypes, StatusWritten, StatusIsTrue, OpenDiagnostics, Goto, Fails,
     CancelledOr, sourceVars, runVars, reportVars, Ahead, Behind, Verified
<1> QED BY <1>1, <1>2, <1>3, <1>4, <1>5, <1>6, <1>7 DEF LiveInv

(* A target without changes reaches the verification with no provider      *)
(* started.                                                                *)
LEMMA PrepareKeeps ==
  ASSUME LiveInv, Prepare
  PROVE  LiveInv'
<1>1. RunTypes'
  BY DEF LiveInv, RunTypes, Prepare, Goto, Fails, sourceVars, runVars, reportVars, Ahead,
     Behind, Verified
<1>2. RootsStand'
  BY DEF LiveInv, RunTypes, RootsStand, Prepare, Goto, Fails, sourceVars, runVars,
     reportVars, Ahead, Behind, Verified
<1>3. SourceHeld'
  BY DEF LiveInv, RunTypes, SourceHeld, Prepare, Goto, Fails, sourceVars, runVars,
     reportVars, Ahead, Behind, Verified
<1>4. ProvidersOwned'
  BY DEF LiveInv, RunTypes, ProvidersOwned, Prepare, Goto, Fails, sourceVars, runVars,
     reportVars, Ahead, Behind, Verified
<1>5. ErrorsTrue'
  BY DEF LiveInv, RunTypes, ErrorsTrue, Prepare, Goto, Fails, sourceVars, runVars,
     reportVars, Ahead, Behind, Verified
<1>6. StatusWritten'
  BY DEF LiveInv, RunTypes, StatusWritten, RootsStand, ErrorsTrue, Prepare, Goto, Fails,
     sourceVars, runVars, reportVars, Ahead, Behind, Verified
<1>7. StatusIsTrue'
  BY DEF LiveInv, RunTypes, StatusWritten, StatusIsTrue, Prepare, Goto, Fails, sourceVars,
     runVars, reportVars, Ahead, Behind, Verified
<1> QED BY <1>1, <1>2, <1>3, <1>4, <1>5, <1>6, <1>7 DEF LiveInv

(* The first provider starts before there is an authority.                 *)
LEMMA StartQualificationKeeps ==
  ASSUME LiveInv, StartQualification
  PROVE  LiveInv'
<1>1. RunTypes'
  BY DEF LiveInv, RunTypes, StartQualification, sourceVars, runVars, reportVars, Ahead,
     Behind, Verified
<1>2. RootsStand'
  BY DEF LiveInv, RunTypes, RootsStand, StartQualification, sourceVars, runVars, reportVars,
     Ahead, Behind, Verified
<1>3. SourceHeld'
  BY DEF LiveInv, RunTypes, SourceHeld, StartQualification, sourceVars, runVars, reportVars,
     Ahead, Behind, Verified
<1>4. ProvidersOwned'
  BY DEF LiveInv, RunTypes, ProvidersOwned, ErrorsTrue, StartQualification, sourceVars,
     runVars, reportVars, Ahead, Behind, Verified
<1>5. ErrorsTrue'
  BY DEF LiveInv, RunTypes, ErrorsTrue, StartQualification, sourceVars, runVars, reportVars,
     Ahead, Behind, Verified
<1>6. StatusWritten'
  BY DEF LiveInv, RunTypes, StatusWritten, RootsStand, ErrorsTrue, StartQualification,
     sourceVars, runVars, reportVars, Ahead, Behind, Verified
<1>7. StatusIsTrue'
  BY DEF LiveInv, RunTypes, StatusWritten, StatusIsTrue, StartQualification, sourceVars,
     runVars, reportVars, Ahead, Behind, Verified
<1> QED BY <1>1, <1>2, <1>3, <1>4, <1>5, <1>6, <1>7 DEF LiveInv

(* The authority exists exactly while its providers run.                   *)
LEMMA QualifyKeeps ==
  ASSUME LiveInv, Qualify
  PROVE  LiveInv'
<1>1. RunTypes'
  BY DEF LiveInv, RunTypes, RootsStand, SourceHeld, ProvidersOwned, ErrorsTrue,
     StatusWritten, Qualify, Goto, Fails, CancelledOr, sourceVars, runVars, reportVars,
     Ahead, Behind, Verified
<1>2. RootsStand'
  BY DEF LiveInv, RunTypes, RootsStand, Qualify, Goto, Fails, CancelledOr, sourceVars,
     runVars, reportVars, Ahead, Behind, Verified
<1>3. SourceHeld'
  BY DEF LiveInv, RunTypes, SourceHeld, Qualify, Goto, Fails, CancelledOr, sourceVars,
     runVars, reportVars, Ahead, Behind, Verified
<1>4. ProvidersOwned'
  BY DEF LiveInv, RunTypes, ProvidersOwned, Qualify, Goto, Fails, CancelledOr, sourceVars,
     runVars, reportVars, Ahead, Behind, Verified
<1>5. ErrorsTrue'
  BY DEF LiveInv, RunTypes, ErrorsTrue, Qualify, Goto, Fails, CancelledOr, sourceVars,
     runVars, reportVars, Ahead, Behind, Verified
<1>6. StatusWritten'
  BY DEF LiveInv, RunTypes, StatusWritten, RootsStand, ErrorsTrue, Qualify, Goto, Fails,
     CancelledOr, sourceVars, runVars, reportVars, Ahead, Behind, Verified
<1>7. StatusIsTrue'
  BY DEF LiveInv, RunTypes, StatusWritten, StatusIsTrue, Qualify, Goto, Fails, CancelledOr,
     sourceVars, runVars, reportVars, Ahead, Behind, Verified
<1> QED BY <1>1, <1>2, <1>3, <1>4, <1>5, <1>6, <1>7 DEF LiveInv

(* A failure before the execution keeps the authority for the drain.       *)
LEMMA PrepareRunKeeps ==
  ASSUME LiveInv, PrepareRun
  PROVE  LiveInv'
<1>1. RunTypes'
  BY DEF LiveInv, RunTypes, PrepareRun, Goto, Fails, sourceVars, runVars, reportVars, Ahead,
     Behind, Verified
<1>2. RootsStand'
  BY DEF LiveInv, RunTypes, RootsStand, PrepareRun, Goto, Fails, sourceVars, runVars,
     reportVars, Ahead, Behind, Verified
<1>3. SourceHeld'
  BY DEF LiveInv, RunTypes, SourceHeld, PrepareRun, Goto, Fails, sourceVars, runVars,
     reportVars, Ahead, Behind, Verified
<1>4. ProvidersOwned'
  BY DEF LiveInv, RunTypes, ProvidersOwned, PrepareRun, Goto, Fails, sourceVars, runVars,
     reportVars, Ahead, Behind, Verified
<1>5. ErrorsTrue'
  BY DEF LiveInv, RunTypes, ErrorsTrue, PrepareRun, Goto, Fails, sourceVars, runVars,
     reportVars, Ahead, Behind, Verified
<1>6. StatusWritten'
  BY DEF LiveInv, RunTypes, StatusWritten, RootsStand, ErrorsTrue, PrepareRun, Goto, Fails,
     sourceVars, runVars, reportVars, Ahead, Behind, Verified
<1>7. StatusIsTrue'
  BY DEF LiveInv, RunTypes, StatusWritten, StatusIsTrue, PrepareRun, Goto, Fails,
     sourceVars, runVars, reportVars, Ahead, Behind, Verified
<1> QED BY <1>1, <1>2, <1>3, <1>4, <1>5, <1>6, <1>7 DEF LiveInv

(* So does one of the execution.                                           *)
LEMMA ExecuteRunKeeps ==
  ASSUME LiveInv, ExecuteRun
  PROVE  LiveInv'
<1>1. RunTypes'
  BY DEF LiveInv, RunTypes, ExecuteRun, Goto, Fails, sourceVars, runVars, reportVars, Ahead,
     Behind, Verified
<1>2. RootsStand'
  BY DEF LiveInv, RunTypes, RootsStand, ExecuteRun, Goto, Fails, sourceVars, runVars,
     reportVars, Ahead, Behind, Verified
<1>3. SourceHeld'
  BY DEF LiveInv, RunTypes, SourceHeld, ExecuteRun, Goto, Fails, sourceVars, runVars,
     reportVars, Ahead, Behind, Verified
<1>4. ProvidersOwned'
  BY DEF LiveInv, RunTypes, ProvidersOwned, ExecuteRun, Goto, Fails, sourceVars, runVars,
     reportVars, Ahead, Behind, Verified
<1>5. ErrorsTrue'
  BY DEF LiveInv, RunTypes, ErrorsTrue, ExecuteRun, Goto, Fails, sourceVars, runVars,
     reportVars, Ahead, Behind, Verified
<1>6. StatusWritten'
  BY DEF LiveInv, RunTypes, StatusWritten, RootsStand, ErrorsTrue, ExecuteRun, Goto, Fails,
     sourceVars, runVars, reportVars, Ahead, Behind, Verified
<1>7. StatusIsTrue'
  BY DEF LiveInv, RunTypes, StatusWritten, StatusIsTrue, ExecuteRun, Goto, Fails,
     sourceVars, runVars, reportVars, Ahead, Behind, Verified
<1> QED BY <1>1, <1>2, <1>3, <1>4, <1>5, <1>6, <1>7 DEF LiveInv

(* Execute goes on to the verification only after a proven drain.          *)
LEMMA DrainKeeps ==
  ASSUME LiveInv, Drain
  PROVE  LiveInv'
<1>1. RunTypes'
  BY DEF LiveInv, RunTypes, ProvidersOwned, Drain, Goto, Fails, DrainTerminal, sourceVars,
     runVars, reportVars, Ahead, Behind, Verified
<1>2. RootsStand'
  BY DEF LiveInv, RunTypes, RootsStand, Drain, Goto, Fails, DrainTerminal, sourceVars,
     runVars, reportVars, Ahead, Behind, Verified
<1>3. SourceHeld'
  BY DEF LiveInv, RunTypes, SourceHeld, Drain, Goto, Fails, DrainTerminal, sourceVars,
     runVars, reportVars, Ahead, Behind, Verified
<1>4. ProvidersOwned'
  BY DEF LiveInv, RunTypes, ProvidersOwned, Drain, Goto, Fails, DrainTerminal, sourceVars,
     runVars, reportVars, Ahead, Behind, Verified
<1>5. ErrorsTrue'
  BY DEF LiveInv, RunTypes, ErrorsTrue, Drain, Goto, Fails, DrainTerminal, sourceVars,
     runVars, reportVars, Ahead, Behind, Verified
<1>6. StatusWritten'
  BY DEF LiveInv, RunTypes, StatusWritten, RootsStand, ErrorsTrue, Drain, Goto, Fails,
     DrainTerminal, sourceVars, runVars, reportVars, Ahead, Behind, Verified
<1>7. StatusIsTrue'
  BY DEF LiveInv, RunTypes, StatusWritten, StatusIsTrue, Drain, Goto, Fails, DrainTerminal,
     sourceVars, runVars, reportVars, Ahead, Behind, Verified
<1> QED BY <1>1, <1>2, <1>3, <1>4, <1>5, <1>6, <1>7 DEF LiveInv

(* The source that is still open is published only if it has not changed.  *)
LEMMA VerifyKeeps ==
  ASSUME LiveInv, Verify
  PROVE  LiveInv'
<1>1. RunTypes'
  BY DEF LiveInv, RunTypes, Verify, Revalidate, Goto, Fails, sourceVars, runVars,
     reportVars, Ahead, Behind, Verified
<1>2. RootsStand'
  BY DEF LiveInv, RunTypes, RootsStand, Verify, Revalidate, Goto, Fails, sourceVars,
     runVars, reportVars, Ahead, Behind, Verified
<1>3. SourceHeld'
  BY DEF LiveInv, RunTypes, SourceHeld, Verify, Revalidate, Goto, Fails, sourceVars,
     runVars, reportVars, Ahead, Behind, Verified
<1>4. ProvidersOwned'
  BY DEF LiveInv, RunTypes, ProvidersOwned, Verify, Revalidate, Goto, Fails, sourceVars,
     runVars, reportVars, Ahead, Behind, Verified
<1>5. ErrorsTrue'
  BY DEF LiveInv, RunTypes, ErrorsTrue, Verify, Revalidate, Goto, Fails, sourceVars,
     runVars, reportVars, Ahead, Behind, Verified
<1>6. StatusWritten'
  BY DEF LiveInv, RunTypes, StatusWritten, RootsStand, ErrorsTrue, Verify, Revalidate, Goto,
     Fails, sourceVars, runVars, reportVars, Ahead, Behind, Verified
<1>7. StatusIsTrue'
  BY DEF LiveInv, RunTypes, StatusWritten, StatusIsTrue, Verify, Revalidate, Goto, Fails,
     sourceVars, runVars, reportVars, Ahead, Behind, Verified
<1> QED BY <1>1, <1>2, <1>3, <1>4, <1>5, <1>6, <1>7 DEF LiveInv

(* The publication begins with the source closed for good.                 *)
LEMMA CloseSourceKeeps ==
  ASSUME LiveInv, CloseSource
  PROVE  LiveInv'
<1>1. RunTypes'
  BY DEF LiveInv, RunTypes, SourceHeld, CloseSource, Goto, Fails, sourceVars, runVars,
     reportVars, Ahead, Behind, Verified
<1>2. RootsStand'
  BY DEF LiveInv, RunTypes, RootsStand, CloseSource, Goto, Fails, sourceVars, runVars,
     reportVars, Ahead, Behind, Verified
<1>3. SourceHeld'
  BY DEF LiveInv, RunTypes, SourceHeld, CloseSource, Goto, Fails, sourceVars, runVars,
     reportVars, Ahead, Behind, Verified
<1>4. ProvidersOwned'
  BY DEF LiveInv, RunTypes, ProvidersOwned, CloseSource, Goto, Fails, sourceVars, runVars,
     reportVars, Ahead, Behind, Verified
<1>5. ErrorsTrue'
  BY DEF LiveInv, RunTypes, ErrorsTrue, CloseSource, Goto, Fails, sourceVars, runVars,
     reportVars, Ahead, Behind, Verified
<1>6. StatusWritten'
  BY DEF LiveInv, RunTypes, StatusWritten, RootsStand, ErrorsTrue, CloseSource, Goto, Fails,
     sourceVars, runVars, reportVars, Ahead, Behind, Verified
<1>7. StatusIsTrue'
  BY DEF LiveInv, RunTypes, StatusWritten, StatusIsTrue, CloseSource, Goto, Fails,
     sourceVars, runVars, reportVars, Ahead, Behind, Verified
<1> QED BY <1>1, <1>2, <1>3, <1>4, <1>5, <1>6, <1>7 DEF LiveInv

(* What a publication leaves in the error says whether it was installed    *)
(* and confirmed.                                                          *)
LEMMA PublishKeeps ==
  ASSUME LiveInv, Publish
  PROVE  LiveInv'
<1>1. RunTypes'
  BY DEF LiveInv, RunTypes, Publish, Goto, Fails, sourceVars, runVars, reportVars, Ahead,
     Behind, Verified
<1>2. RootsStand'
  BY DEF LiveInv, RunTypes, RootsStand, Publish, Goto, Fails, sourceVars, runVars,
     reportVars, Ahead, Behind, Verified
<1>3. SourceHeld'
  BY DEF LiveInv, RunTypes, SourceHeld, Publish, Goto, Fails, sourceVars, runVars,
     reportVars, Ahead, Behind, Verified
<1>4. ProvidersOwned'
  BY DEF LiveInv, RunTypes, ProvidersOwned, Publish, Goto, Fails, sourceVars, runVars,
     reportVars, Ahead, Behind, Verified
<1>5. ErrorsTrue'
  BY DEF LiveInv, RunTypes, ErrorsTrue, Publish, Goto, Fails, sourceVars, runVars,
     reportVars, Ahead, Behind, Verified
<1>6. StatusWritten'
  BY DEF LiveInv, RunTypes, StatusWritten, RootsStand, ErrorsTrue, Publish, Goto, Fails,
     sourceVars, runVars, reportVars, Ahead, Behind, Verified
<1>7. StatusIsTrue'
  BY DEF LiveInv, RunTypes, StatusWritten, StatusIsTrue, Publish, Goto, Fails, sourceVars,
     runVars, reportVars, Ahead, Behind, Verified
<1> QED BY <1>1, <1>2, <1>3, <1>4, <1>5, <1>6, <1>7 DEF LiveInv

(* A failed projection keeps the publication and says so in the error.     *)
LEMMA ProjectKeeps ==
  ASSUME LiveInv, Project
  PROVE  LiveInv'
<1>1. RunTypes'
  BY DEF LiveInv, RunTypes, Project, Fails, sourceVars, runVars, reportVars, Ahead, Behind,
     Verified
<1>2. RootsStand'
  BY DEF LiveInv, RunTypes, RootsStand, Project, Fails, sourceVars, runVars, reportVars,
     Ahead, Behind, Verified
<1>3. SourceHeld'
  BY DEF LiveInv, RunTypes, SourceHeld, Project, Fails, sourceVars, runVars, reportVars,
     Ahead, Behind, Verified
<1>4. ProvidersOwned'
  BY DEF LiveInv, RunTypes, ProvidersOwned, Project, Fails, sourceVars, runVars, reportVars,
     Ahead, Behind, Verified
<1>5. ErrorsTrue'
  BY DEF LiveInv, RunTypes, ErrorsTrue, Project, Fails, sourceVars, runVars, reportVars,
     Ahead, Behind, Verified
<1>6. StatusWritten'
  BY DEF LiveInv, RunTypes, StatusWritten, RootsStand, ErrorsTrue, Project, Fails,
     sourceVars, runVars, reportVars, Ahead, Behind, Verified
<1>7. StatusIsTrue'
  BY DEF LiveInv, RunTypes, StatusWritten, StatusIsTrue, Project, Fails, sourceVars,
     runVars, reportVars, Ahead, Behind, Verified
<1> QED BY <1>1, <1>2, <1>3, <1>4, <1>5, <1>6, <1>7 DEF LiveInv

-----------------------------------------------------------------------------
(* The steps of the deferred cleanup.                                      *)

(* A drain that is not proven again skips the release and joins its owner. *)
LEMMA CleanupDrainKeeps ==
  ASSUME LiveInv, CleanupDrain
  PROVE  LiveInv'
<1>1. RunTypes'
  BY ZenonT(60) DEF LiveInv, RunTypes, CleanupDrain, DrainTerminal, sourceVars, runVars, reportVars,
     Ahead, Behind, Verified
<1>2. RootsStand'
  BY DEF LiveInv, RunTypes, RootsStand, CleanupDrain, DrainTerminal, sourceVars, runVars,
     reportVars, Ahead, Behind, Verified
<1>3. SourceHeld'
  BY DEF LiveInv, RunTypes, SourceHeld, CleanupDrain, DrainTerminal, sourceVars, runVars,
     reportVars, Ahead, Behind, Verified
<1>4. ProvidersOwned'
  BY DEF LiveInv, RunTypes, ProvidersOwned, CleanupDrain, DrainTerminal, sourceVars,
     runVars, reportVars, Ahead, Behind, Verified
<1>5. ErrorsTrue'
  BY DEF LiveInv, RunTypes, ErrorsTrue, RootsStand, ProvidersOwned, CleanupDrain,
     DrainTerminal, sourceVars, runVars, reportVars, Ahead, Behind, Verified
<1>6. StatusWritten'
  BY DEF LiveInv, RunTypes, StatusWritten, RootsStand, ErrorsTrue, CleanupDrain,
     DrainTerminal, sourceVars, runVars, reportVars, Ahead, Behind, Verified
<1>7. StatusIsTrue'
  BY DEF LiveInv, RunTypes, StatusWritten, StatusIsTrue, CleanupDrain, DrainTerminal,
     sourceVars, runVars, reportVars, Ahead, Behind, Verified
<1> QED BY <1>1, <1>2, <1>3, <1>4, <1>5, <1>6, <1>7 DEF LiveInv

(* A release that fails joins its owner, and none happens twice.           *)
LEMMA ReleaseKeeps ==
  ASSUME LiveInv, Release
  PROVE  LiveInv'
<1>1. RunTypes'
  BY ZenonT(60) DEF LiveInv, RunTypes, Release, sourceVars, runVars, reportVars, Ahead, Behind,
     Verified
<1>2. RootsStand'
  BY DEF LiveInv, RunTypes, RootsStand, Release, sourceVars, runVars, reportVars, Ahead,
     Behind, Verified
<1>3. SourceHeld'
  BY DEF LiveInv, RunTypes, SourceHeld, Release, sourceVars, runVars, reportVars, Ahead,
     Behind, Verified
<1>4. ProvidersOwned'
  BY DEF LiveInv, RunTypes, ProvidersOwned, Release, sourceVars, runVars, reportVars, Ahead,
     Behind, Verified
<1>5. ErrorsTrue'
  BY DEF LiveInv, RunTypes, ErrorsTrue, RootsStand, SourceHeld, Release, sourceVars,
     runVars, reportVars, Ahead, Behind, Verified
<1>6. StatusWritten'
  BY DEF LiveInv, RunTypes, StatusWritten, RootsStand, ErrorsTrue, Release, sourceVars,
     runVars, reportVars, Ahead, Behind, Verified
<1>7. StatusIsTrue'
  BY DEF LiveInv, RunTypes, StatusWritten, StatusIsTrue, Release, sourceVars, runVars,
     reportVars, Ahead, Behind, Verified
<1> QED BY <1>1, <1>2, <1>3, <1>4, <1>5, <1>6, <1>7 DEF LiveInv


-----------------------------------------------------------------------------
(* The class of an error tree that holds an artifact failure is that of    *)
(* the artifact, when nothing else in it weighs more than a cancellation   *)
(* (runtimeDiagnosticFailureClass).                                        *)
LEMMA ArtifactDecides ==
  ASSUME NEW kinds, NEW a \in kinds, Class(a) = "artifact",
         \A k \in kinds : Class(k) \in {"artifact", "cancelled", NoClass}
  PROVE  FailureClass(kinds) = "artifact"
<1>1. /\ Policy!FailurePrecedence("artifact") = 5 /\ Policy!FailurePrecedence("cancelled") = 4
      /\ Policy!FailurePrecedence(NoClass) = 0
  BY Zenon DEF NoClass, Policy!FailurePrecedence
<1> DEFINE rank(k) == Policy!FailurePrecedence(Class(k))
<1>2. rank(a) = 5 /\ rank(a) > 0
  BY <1>1
<1>3. ASSUME NEW k \in kinds
      PROVE  rank(k) \in {0, 4, 5} /\ (rank(k) = 5 => Class(k) = "artifact")
  <2>1. CASE Class(k) = "artifact"
    BY <1>1, <2>1
  <2>2. CASE Class(k) = "cancelled"
    BY <1>1, <2>2
  <2>3. CASE Class(k) = NoClass
    BY <1>1, <2>3
  <2> QED BY <2>1, <2>2, <2>3
<1> HIDE DEF rank
<1>4. PICK c : c = CHOOSE k \in kinds : \A l \in kinds : rank(k) >= rank(l)
  OBVIOUS
<1>5. \A l \in kinds : rank(a) >= rank(l)
  BY <1>2, <1>3
<1>6. c \in kinds /\ rank(c) >= rank(a)
  BY <1>4, <1>5
<1>7. Class(c) = "artifact"
  BY <1>2, <1>3, <1>6
<1>8. \E k \in kinds : rank(k) > 0
  BY <1>2
<1> USE DEF rank
<1> QED BY <1>4, <1>7, <1>8 DEF FailureClass

(* What a failed publication can leave in the error is classified as an    *)
(* artifact failure, even when the caller's cancellation is joined to it.  *)
LEMMA PublicationErrorsAreArtifacts ==
  ASSUME NEW kinds \in {{"publication"}, {"publication", "cancelled"}, {"diagnostics", "manifest"}}
  PROVE  FailureClass(kinds) = "artifact"
<1>1. /\ Class("publication") = "artifact" /\ Class("diagnostics") = "artifact"
      /\ Class("cancelled") = "cancelled" /\ Class("manifest") = NoClass
  BY DEF Class
<1>2. CASE kinds = {"diagnostics", "manifest"}
  BY <1>1, <1>2, ArtifactDecides
<1>3. CASE kinds \in {{"publication"}, {"publication", "cancelled"}}
  BY <1>1, <1>3, ArtifactDecides
<1> QED BY <1>2, <1>3

(* The terminal status is decided from the error alone: completed without  *)
(* one, and never cancelled when a publication was installed, unless only  *)
(* its projection failed (runtimeDiagnosticTerminalDecision).              *)
LEMMA TerminalStateIsTrue ==
  ASSUME LiveInv, pc = "finalize"
  PROVE  /\ TerminalState(errs) = "completed" => errs = {}
         /\ errs = {} => TerminalState(errs) = "completed"
         /\ TerminalState(errs) = "cancelled" => published = "no" \/ "projection" \in errs
<1>1. TerminalState(errs) = "completed" <=> errs = {}
  BY DEF TerminalState
<1>2. ASSUME errs \in {{"publication"}, {"publication", "cancelled"}, {"diagnostics", "manifest"}}
      PROVE  TerminalState(errs) = "failed"
  <2>1. FailureClass(errs) = "artifact"
    BY <1>2, PublicationErrorsAreArtifacts
  <2>2. /\ errs # {} /\ "login" \notin errs /\ "qualification" \notin errs /\ "preparation" \notin errs
    BY <1>2
  <2>3. NoClass # "artifact"
    BY Zenon DEF NoClass
  <2> QED BY <2>1, <2>2, <2>3 DEF TerminalState
<1>3. published = "confirmed" =>
        errs = {} \/ "projection" \in errs \/ errs = {"diagnostics", "manifest"}
  BY DEF LiveInv, ErrorsTrue
<1>4. published = "unconfirmed" => errs \in {{"publication"}, {"publication", "cancelled"}}
  BY DEF LiveInv, ErrorsTrue
<1>5. published \in {"no", "unconfirmed", "confirmed"}
  BY DEF LiveInv, RunTypes
<1> QED BY <1>1, <1>2, <1>3, <1>4, <1>5

(* The finalization writes a status that agrees with what happened, or no  *)
(* status and an error (finalize of the run's diagnostics).                *)
LEMMA FinalizeKeeps ==
  ASSUME LiveInv, Finalize
  PROVE  LiveInv'
<1>1. /\ pc = "finalize" /\ pc' = "roots" /\ status = <<>>
      /\ UNCHANGED <<noChange, roots, sourceVars, runVars, published, answer>>
  BY DEF Finalize, LiveInv, StatusWritten
<1>2. \/ sink # "open" /\ UNCHANGED <<sink, status, errs>>
      \/ sink = "open" /\ sink' = "final" /\ UNCHANGED errs
           /\ status' = <<TerminalState(errs), P2Reference(errs)>>
      \/ sink = "open" /\ errs' = errs \cup {"diagnostics"} /\ UNCHANGED <<sink, status>>
  BY DEF Finalize
<1>3. errs' = errs \/ errs' = errs \cup {"diagnostics"}
  BY <1>2
<1>4. RunTypes'
  BY <1>1 DEF LiveInv, RunTypes, sourceVars, runVars, Ahead, Behind
<1>5. RootsStand'
  BY <1>1 DEF LiveInv, RootsStand
<1>6. SourceHeld'
  BY <1>1, <1>3 DEF LiveInv, RunTypes, SourceHeld, sourceVars, runVars, Behind, Verified
<1>7. ProvidersOwned'
  BY <1>1, <1>3 DEF LiveInv, RunTypes, ProvidersOwned, sourceVars, runVars, Behind
<1>8. ErrorsTrue'
  BY <1>1, <1>3 DEF LiveInv, RunTypes, RootsStand, ErrorsTrue, Ahead, Behind
<1>9. errs = {} => P2Reference(errs) = TRUE
  BY DEF P2Reference
<1>10. StatusWritten'
  <2>1. CASE sink # "open" /\ UNCHANGED <<sink, status, errs>>
    BY <1>1, <2>1 DEF LiveInv, RootsStand, StatusWritten, Ahead
  <2>2. CASE sink = "open" /\ sink' = "final" /\ UNCHANGED errs
               /\ status' = <<TerminalState(errs), P2Reference(errs)>>
    <3>1. errs = {} => status' = <<"completed", TRUE>>
      BY <1>1, <1>9, <2>2, TerminalStateIsTrue
    <3> QED BY <1>1, <2>2, <3>1 DEF LiveInv, RootsStand, StatusWritten, Ahead
  <2>3. CASE sink = "open" /\ errs' = errs \cup {"diagnostics"} /\ UNCHANGED <<sink, status>>
    BY <1>1, <2>3 DEF LiveInv, RootsStand, StatusWritten, Ahead
  <2> QED BY <1>2, <2>1, <2>2, <2>3
<1>11. StatusIsTrue'
  <2>1. CASE status' = status
    BY <1>1, <2>1 DEF StatusIsTrue
  <2>2. CASE status' = <<TerminalState(errs), P2Reference(errs)>> /\ errs' = errs
    <3>1. status'[1] = TerminalState(errs) /\ (status'[2] <=> P2Reference(errs))
      BY <2>2
    <3>2. P2Reference(errs) => published = "confirmed"
      BY <1>1 DEF P2Reference, LiveInv, ErrorsTrue, Ahead
    <3>3. published = "confirmed" /\ ~P2Reference(errs) => "projection" \in errs
      BY <1>1 DEF P2Reference, LiveInv, ErrorsTrue
    <3>4. TerminalState(errs) = "completed" => P2Reference(errs)
      BY <1>1, TerminalStateIsTrue DEF P2Reference
    <3> QED BY <1>1, <2>2, <3>1, <3>2, <3>3, <3>4, TerminalStateIsTrue DEF StatusIsTrue
  <2> QED BY <1>2, <2>1, <2>2
<1> QED BY <1>4, <1>5, <1>6, <1>7, <1>8, <1>10, <1>11 DEF LiveInv

-----------------------------------------------------------------------------
(* The invariant of a live run.                                            *)

(* A run that has not begun satisfies it.                                  *)
LEMMA LiveInit == Init => LiveInv
BY DEF Init, LiveInv, RunTypes, RootsStand, SourceHeld, ProvidersOwned, ErrorsTrue, StatusWritten,
   StatusIsTrue, Ahead, Behind, Verified

(* Every step of the run, of the caller and of the source keeps it.        *)
LEMMA LiveNext == LiveInv /\ [Next]_vars => LiveInv'
<1> SUFFICES ASSUME LiveInv, [Next]_vars PROVE LiveInv'
  OBVIOUS
<1>1. CASE Next
  BY <1>1, DriftKeeps, CancelKeeps, ComposeReviewRunsKeeps, CleanupRootsKeeps, AnswerKeeps,
     OpenSourceKeeps, AdmitKeeps, OpenDiagnosticsKeeps, PrepareKeeps, StartQualificationKeeps,
     QualifyKeeps, PrepareRunKeeps, ExecuteRunKeeps, DrainKeeps, VerifyKeeps, CloseSourceKeeps,
     PublishKeeps, ProjectKeeps, CleanupDrainKeeps, ReleaseKeeps, FinalizeKeeps DEF Next
<1>2. CASE UNCHANGED vars
  <2>1. RunTypes' /\ RootsStand' /\ SourceHeld' /\ ProvidersOwned'
    BY <1>2 DEF vars, LiveInv, RunTypes, RootsStand, SourceHeld, ProvidersOwned, Ahead, Behind, Verified
  <2>2. ErrorsTrue' /\ StatusWritten' /\ StatusIsTrue'
    BY <1>2 DEF vars, LiveInv, ErrorsTrue, StatusWritten, StatusIsTrue, Ahead, Behind
  <2> QED BY <2>1, <2>2 DEF LiveInv
<1> QED BY <1>1, <1>2

(* The invariant of every live run: where the source, the providers and    *)
(* the roots are owned at each point of Execute and of its deferred        *)
(* cleanup, and what the joined error says of the publication.             *)
THEOREM LiveRunInvariant == Spec => []LiveInv
<1>1. Init => LiveInv
  BY LiveInit
<1>2. LiveInv /\ [Next]_vars => LiveInv'
  BY LiveNext
<1> QED BY <1>1, <1>2, PTL DEF Spec

LEMMA LiveRunAnswersAlways == LiveInv => LiveRunAnswersTruly
<1>1. LiveInv => DriftIsNeverPublished
  BY DEF LiveInv, SourceHeld, RunTypes, DriftIsNeverPublished
<1>2. LiveInv => ResultIsComplete
  <2> SUFFICES ASSUME LiveInv, answer = "result" PROVE ResultIsComplete
    BY DEF ResultIsComplete
  <2>1. pc = "done" /\ errs = {}
    BY DEF LiveInv, RootsStand, StatusWritten
  <2>2. published = "confirmed"
    BY <2>1 DEF LiveInv, ErrorsTrue, Ahead
  <2>3. status = <<"completed", TRUE>> /\ roots = "removed"
    BY <2>1 DEF LiveInv, StatusWritten
  <2>4. providers # "running" /\ reader = "closed"
    BY <2>2 DEF LiveInv, SourceHeld, ProvidersOwned
  <2> QED BY <2>2, <2>3, <2>4 DEF ResultIsComplete
<1>3. LiveInv => OwnerIsRetained
  BY DEF LiveInv, SourceHeld, ProvidersOwned, ErrorsTrue, OwnerIsRetained, Behind
<1> QED BY <1>1, <1>2, <1>3 DEF LiveInv, LiveRunAnswersTruly

(* What a live run answers and writes is true: no review of a source that  *)
(* changed under it is published, the terminal status agrees with the      *)
(* publication, a result comes only with a published review and nothing    *)
(* left behind, and what may still run comes with its owner in the error.  *)
THEOREM LiveRunIsTrue == Spec => []LiveRunAnswersTruly
BY LiveRunInvariant, LiveRunAnswersAlways, PTL

-----------------------------------------------------------------------------
(* The contract of a run.                                                  *)

(* A step that leaves what the contract sees is a stutter of it.           *)
LEMMA Stutters ==
  ASSUME UNCHANGED <<reader, providers, published, roots, answer>>
  PROVE  UNCHANGED Contract!vars
BY DEF Contract!vars, LeaseOf, ReviewOf

(* A run begins as the contract does.                                      *)
LEMMA ContractBegins == Init => Contract!Init
BY DEF Init, Contract!Init, LeaseOf, ReviewOf

(* The composition makes the roots, or answers with an error later.        *)
LEMMA ComposesTheRoots ==
  ASSUME LiveInv, ComposeReviewRuns
  PROVE  Contract!MakeRoots \/ UNCHANGED Contract!vars
BY DEF LiveInv, RootsStand, ComposeReviewRuns, sourceVars, runVars, reportVars, Contract!MakeRoots,
   Contract!vars, LeaseOf, ReviewOf

(* The roots go only when no provider runs and no lease is held: an error  *)
(* with an owner keeps them (StartReviewRun's deferred cleanup).           *)
LEMMA RemovesTheRoots ==
  ASSUME LiveInv, CleanupRoots
  PROVE  Contract!RemoveRoots \/ UNCHANGED Contract!vars
<1>1. UNCHANGED <<reader, providers, published, answer>>
  BY DEF CleanupRoots, sourceVars, runVars, reportVars
<1>2. roots = "made" /\ ("cleanup" \notin errs => providers # "running" /\ reader # "open")
  BY DEF LiveInv, RootsStand, SourceHeld, ProvidersOwned, Behind, CleanupRoots
<1>3. CASE "cleanup" \in errs
  <2>1. UNCHANGED roots
    BY <1>3 DEF CleanupRoots
  <2> QED BY <1>1, <2>1, Stutters
<1>4. CASE "cleanup" \notin errs
  <2>1. PICK r \in RootsAfter : roots' = r[1]
    BY <1>4 DEF CleanupRoots
  <2>2. r[1] \in {"made", "removed"}
    BY DEF RootsAfter
  <2> QED BY <1>1, <1>2, <1>4, <2>1, <2>2 DEF Contract!RemoveRoots, Contract!vars, LeaseOf, ReviewOf
<1> QED BY <1>3, <1>4

(* The answer is a result only for a published review, with the lease      *)
(* given back and the roots removed.                                       *)
LEMMA AnswersTheCaller ==
  ASSUME LiveInv, Answer
  PROVE  Contract!Answer
<1>1. UNCHANGED <<reader, providers, published, roots>> /\ answer = "none" /\ pc = "answer"
  BY DEF LiveInv, RootsStand, Answer, sourceVars, runVars
<1>2. CASE errs = {}
  <2>1. published = "confirmed" /\ reader = "closed" /\ roots = "removed" /\ answer' = "result"
    BY <1>1, <1>2 DEF LiveInv, SourceHeld, ErrorsTrue, StatusWritten, Ahead, Answer
  <2> QED BY <1>1, <2>1 DEF Contract!Answer, LeaseOf, ReviewOf
<1>3. CASE errs # {}
  <2>1. answer' = "error"
    BY <1>3 DEF Answer
  <2> QED BY <1>1, <2>1 DEF Contract!Answer, LeaseOf, ReviewOf
<1> QED BY <1>2, <1>3

(* OpenLiveSource takes the lease when the roots stand.                    *)
LEMMA OpensTheSource ==
  ASSUME LiveInv, OpenSource
  PROVE  Contract!Acquire \/ UNCHANGED Contract!vars
BY DEF LiveInv, RootsStand, SourceHeld, OpenSource, Goto, sourceVars, runVars, reportVars,
   Contract!Acquire, Contract!vars, LeaseOf, ReviewOf

(* Providers start only under the lease.                                   *)
LEMMA StartsTheProviders ==
  ASSUME LiveInv, StartQualification
  PROVE  Contract!StartProviders
BY DEF LiveInv, SourceHeld, ProvidersOwned, StartQualification, sourceVars, reportVars,
   Contract!StartProviders, LeaseOf, ReviewOf

(* A qualification that is rejected stops what it started, or keeps it.    *)
LEMMA QualifiesOrStops ==
  ASSUME LiveInv, Qualify
  PROVE  Contract!StopProviders \/ UNCHANGED Contract!vars
BY DEF LiveInv, ProvidersOwned, Qualify, Goto, sourceVars, reportVars, Contract!StopProviders,
   Contract!vars, LeaseOf, ReviewOf

(* The drain of the review stops the providers, or keeps their owner.      *)
LEMMA DrainStops ==
  ASSUME LiveInv, Drain
  PROVE  Contract!StopProviders \/ UNCHANGED Contract!vars
BY DEF LiveInv, ProvidersOwned, Drain, DrainTerminal, sourceVars, reportVars,
   Contract!StopProviders, Contract!vars, LeaseOf, ReviewOf

(* So does the second one, of the deferred cleanup.                        *)
LEMMA CleanupStops ==
  ASSUME LiveInv, CleanupDrain
  PROVE  Contract!StopProviders \/ UNCHANGED Contract!vars
BY DEF LiveInv, ProvidersOwned, CleanupDrain, DrainTerminal, sourceVars, reportVars,
   Contract!StopProviders, Contract!vars, LeaseOf, ReviewOf

(* The source is closed only when no provider can read it any more.        *)
LEMMA ClosesTheSource ==
  ASSUME LiveInv, CloseSource
  PROVE  Contract!Release
BY DEF LiveInv, SourceHeld, ProvidersOwned, CloseSource, reportVars, Contract!Release, LeaseOf,
   ReviewOf

(* The deferred cleanup closes it only after a proven drain, and once.     *)
LEMMA ReleasesTheSource ==
  ASSUME LiveInv, Release
  PROVE  Contract!Release \/ UNCHANGED Contract!vars
BY DEF LiveInv, RunTypes, SourceHeld, ProvidersOwned, Release, reportVars, Contract!Release,
   Contract!vars, LeaseOf, ReviewOf

(* A review is published after the drain and the close, and once.          *)
LEMMA PublishesOnce ==
  ASSUME LiveInv, Publish
  PROVE  Contract!Publish \/ UNCHANGED Contract!vars
BY DEF LiveInv, RootsStand, SourceHeld, ProvidersOwned, ErrorsTrue, Publish, Goto, Fails, Ahead,
   sourceVars, runVars, Contract!Publish, Contract!vars, LeaseOf, ReviewOf

(* Every step of a live run is a step of the contract or a stutter of it.  *)
LEMMA ContractStep == LiveInv /\ [Next]_vars => [Contract!Next]_(Contract!vars)
<1> SUFFICES ASSUME LiveInv, [Next]_vars PROVE Contract!Next \/ UNCHANGED Contract!vars
  OBVIOUS
<1>1. CASE UNCHANGED vars
  BY <1>1, Stutters DEF vars
<1>2. CASE Drift
  BY <1>2, Stutters DEF Drift, runVars, reportVars
<1>3. CASE Cancel \/ Admit \/ Prepare \/ PrepareRun \/ ExecuteRun \/ Verify \/ Project
  BY <1>3, Stutters DEF Cancel, Admit, Prepare, PrepareRun, ExecuteRun, Verify, Project, sourceVars,
     runVars, reportVars
<1>4. CASE OpenDiagnostics \/ Finalize
  BY <1>4, Stutters DEF OpenDiagnostics, Finalize, sourceVars, runVars
<1>5. CASE ComposeReviewRuns \/ CleanupRoots
  BY <1>5, ComposesTheRoots, RemovesTheRoots DEF Contract!Next
<1>6. CASE Answer \/ OpenSource \/ StartQualification
  BY <1>6, AnswersTheCaller, OpensTheSource, StartsTheProviders DEF Contract!Next
<1>7. CASE Qualify \/ Drain \/ CleanupDrain
  BY <1>7, QualifiesOrStops, DrainStops, CleanupStops DEF Contract!Next
<1>8. CASE CloseSource \/ Release \/ Publish
  BY <1>8, ClosesTheSource, ReleasesTheSource, PublishesOnce DEF Contract!Next
<1> QED BY <1>1, <1>2, <1>3, <1>4, <1>5, <1>6, <1>7, <1>8 DEF Next

(* Execute, its deferred cleanup and the composition around them implement *)
(* the contract of a run (ReviewRun): the lease covers every provider, a   *)
(* review is published only after both were given back, the roots outlive  *)
(* them, and only a published review is answered as a result.              *)
THEOREM LiveRunImplementsContract == Spec => RunImplementsContract
<1>1. Init => Contract!Init
  BY ContractBegins
<1>2. LiveInv /\ [Next]_vars => [Contract!Next]_(Contract!vars)
  BY ContractStep
<1> QED BY <1>1, <1>2, LiveRunInvariant, PTL DEF Spec, RunImplementsContract, Contract!Spec

-----------------------------------------------------------------------------
(* The qualification of a run's providers, group by group.                 *)

Codex == {"codex-logic", "codex-security"}
FirstGroup == IF second = "agy" THEN {"agy-tests"} ELSE Codex
SecondGroup == IF second = "agy" THEN Codex ELSE {"zcode-tests"}

\* The candidates of the groups gone through, of the one at hand, and of those
\* of it already visited.
PastGroups == IF group = 1 THEN {} ELSE IF group = 2 THEN FirstGroup ELSE FirstGroup \cup SecondGroup
GroupNow == IF group = 1 THEN FirstGroup ELSE IF group = 2 THEN SecondGroup ELSE {}
Width == IF GroupNow = Codex THEN 2 ELSE 1
Visited == IF cand = 1 THEN {} ELSE IF cand > Width THEN GroupNow ELSE {"codex-logic"}

AdmissionStates ==
  [admitted : SUBSET Q!Instances, instances : SUBSET Q!Instances, closed : SUBSET Q!Instances,
   routes : SUBSET Q!Instances, failures : SUBSET Q!Instances]
ProbeStates(attempts, failure, version) ==
  [attempts : {attempts}, failure : {failure}, version : {version}, masked : BOOLEAN]

ProbingAt == {"acquire", "version", "capability", "profile", "observe", "drain", "admit"}
Admitting == {"group", "construct", "route", "assemble"} \cup ProbingAt

QualificationTypes ==
  /\ second \in {"agy", "zcode", "zcode_old"} /\ ctx \in BOOLEAN
  /\ group \in 1 .. 3 /\ cand \in 1 .. 3
  /\ namespaces \in [Q!Instances -> {"none", "held", "hollow", "drained"}]
  /\ admission \in AdmissionStates /\ fixtures \in Seq({"open", "drained", "lost"})
  /\ probe \in ProbeStates(probe.attempts, probe.failure, probe.version)
  /\ breached \subseteq Q!Instances /\ reclaimed \subseteq Q!Instances

QualificationControl ==
  /\ phase \in Admitting \cup {"release", "close", "undo", "running", "owned", "ended"}
  /\ phase \in {"construct", "route", "release"} \cup ProbingAt => group \in {1, 2}
  /\ phase \in {"construct", "route"} => cand <= Width + 1
  /\ phase \in {"assemble", "undo", "running"} => group = 3
  /\ phase = "profile" => second = "agy" /\ group = 1
  /\ phase = "undo" => cause = "planner"

\* What the caller received, by how the call ended.
OwnersAreGiven ==
  owner = IF phase = "running" THEN "run" ELSE IF phase = "owned" THEN "retained" ELSE IF phase = "ended" THEN "receipt" ELSE "none"

\* A namespace held is admitted, and until something is released or closed an
\* admitted one is held.
HoldingsAreAdmitted ==
  /\ admission.admitted \subseteq admission.instances /\ admission.instances \subseteq FirstGroup \cup SecondGroup
  /\ \A i \in Q!Instances : i \in admission.instances <=> namespaces[i] # "none"
  /\ \A i \in Q!Instances : namespaces[i] \in {"held", "hollow"} => i \in admission.admitted
  /\ phase \in Admitting => \A i \in admission.admitted : namespaces[i] = "held"
  /\ phase = "ended" => \A i \in Q!Instances : namespaces[i] \notin {"held", "hollow"}

\* The candidates gone through are routed or failed, never both, and a route is held.
CandidatesAreAccounted ==
  phase \in Admitting =>
    LET a == admission
    IN /\ a.failures \subseteq FirstGroup \cup SecondGroup /\ PastGroups \subseteq a.routes \cup a.failures
       /\ a.routes \subseteq a.admitted /\ a.routes \cap a.failures = {}
       /\ a.routes \subseteq PastGroups \cup (IF phase = "route" THEN Visited ELSE {})
       /\ group = 1 => SecondGroup \cap (a.instances \cup a.failures) = {}
       /\ phase = "group" => GroupNow \cap (a.instances \cup a.failures) = {}
       /\ phase = "construct" => /\ Visited \subseteq a.failures \cup a.admitted /\ Visited \cap a.failures \cap a.admitted = {}
                              /\ (GroupNow \ Visited) \cap (a.instances \cup a.failures) = {}
       /\ phase \in ProbingAt => GroupNow \subseteq a.failures \cup a.admitted /\ GroupNow \cap a.failures \cap a.admitted = {}
       /\ phase = "route" => /\ GroupNow \subseteq a.failures \cup a.admitted /\ Visited \subseteq a.routes \cup a.failures
                          /\ (GroupNow \ Visited) \cap a.failures \cap a.admitted = {}

RunsAreAccounted ==
  phase \in {"undo", "running"} =>
    /\ admission.routes \subseteq admission.admitted /\ admission.routes \cap admission.failures = {}
    /\ admission.routes \cup admission.failures = FirstGroup \cup SecondGroup
    /\ phase = "running" /\ cause # "planner" => \A i \in admission.routes : namespaces[i] = "held" \/ (namespaces[i] = "drained" /\ i \in reclaimed)

\* A boundary failure that no operational failure masks decides how the probe ends.
Decisive == breached \ (IF probe.masked THEN {"agy-tests"} ELSE {})
BreachesDecide ==
  Decisive # {} =>
    /\ phase \in {"observe", "drain", "admit", "close", "owned", "ended"}
    /\ phase \in {"observe", "drain", "admit"} => probe.failure \in {"security", "artifact", "internal"}
    /\ Decisive \cap admission.failures = {}

AllDrained == \A n \in 1 .. Len(fixtures) : fixtures[n] = "drained"
ProbesDrain ==
  /\ phase \in {"group", "construct", "route", "assemble", "undo", "running"} => AllDrained
  /\ phase = "admit" /\ probe.failure \notin {"internal", "login"} => AllDrained

QualificationInv ==
  /\ QualificationTypes
  /\ QualificationControl
  /\ OwnersAreGiven
  /\ HoldingsAreAdmitted
  /\ CandidatesAreAccounted
  /\ RunsAreAccounted
  /\ BreachesDecide
  /\ ProbesDrain

\* The groups and the candidate at hand, for each pair of families.
LEMMA GroupsArePairs ==
  ASSUME second \in {"agy", "zcode", "zcode_old"}
  PROVE  /\ Q!Candidates = FirstGroup \cup SecondGroup /\ FirstGroup \cap SecondGroup = {} /\ Q!Candidates \subseteq Q!Instances
         /\ Len(Q!Order) = 2 /\ Len(Q!Sorted) \in Nat
<1>1. CASE second = "agy"
  <2>1. /\ Q!Order = <<"agy", "codex">> /\ Q!Order[1] = "agy" /\ Q!Order[2] = "codex"
        /\ Q!Sorted = <<"agy-tests">> \o <<"codex-logic", "codex-security">>
    BY <1>1 DEF Q!Order, Q!Sorted, Q!Members
  <2>2. Len(Q!Order) = 2
    BY <2>1
  <2>3. Len(Q!Sorted) \in Nat
    BY <2>1
  <2>4. Q!Candidates = {"agy-tests", "codex-logic", "codex-security"}
    <3>1. Len(Q!Sorted) = 3 /\ Q!Sorted[1] = "agy-tests" /\ Q!Sorted[2] = "codex-logic" /\ Q!Sorted[3] = "codex-security"
      BY <2>1
    <3>2. \A n : n \in 1 .. 3 <=> n \in {1, 2, 3}
      OBVIOUS
    <3>3. \A i : i \in Q!Candidates <=> \E n \in {1, 2, 3} : i = Q!Sorted[n]
      BY <3>1, <3>2 DEF Q!Candidates
    <3> QED BY <3>1, <3>3
  <2> QED BY <1>1, <2>1, <2>2, <2>3, <2>4 DEF FirstGroup, SecondGroup, Codex, Q!Instances
<1>2. CASE second # "agy"
  <2>1. /\ Q!Order = <<"codex", "zcode">> /\ Q!Order[1] = "codex" /\ Q!Order[2] = "zcode"
        /\ Q!Sorted = <<"codex-logic", "codex-security">> \o <<"zcode-tests">>
    BY <1>2 DEF Q!Order, Q!Sorted, Q!Members
  <2>2. Len(Q!Order) = 2
    BY <2>1
  <2>3. Len(Q!Sorted) \in Nat
    BY <2>1
  <2>4. Q!Candidates = {"codex-logic", "codex-security", "zcode-tests"}
    <3>1. Len(Q!Sorted) = 3 /\ Q!Sorted[1] = "codex-logic" /\ Q!Sorted[2] = "codex-security" /\ Q!Sorted[3] = "zcode-tests"
      BY <2>1
    <3>2. \A n : n \in 1 .. 3 <=> n \in {1, 2, 3}
      OBVIOUS
    <3>3. \A i : i \in Q!Candidates <=> \E n \in {1, 2, 3} : i = Q!Sorted[n]
      BY <3>1, <3>2 DEF Q!Candidates
    <3> QED BY <3>1, <3>3
  <2> QED BY <1>2, <2>1, <2>2, <2>3, <2>4 DEF FirstGroup, SecondGroup, Codex, Q!Instances
<1> QED BY <1>1, <1>2

LEMMA GroupIsNow ==
  ASSUME second \in {"agy", "zcode", "zcode_old"}, group \in {1, 2}
  PROVE  /\ Q!Group = GroupNow /\ Len(Q!Members(Q!Family)) = Width /\ Width \in {1, 2}
         /\ (Q!Family = "codex" <=> Width = 2) /\ (Q!Family = "agy" <=> second = "agy" /\ group = 1)
         /\ cand \in 1 .. Width => /\ Q!Candidate \in GroupNow \ Visited /\ cand + 1 # 1
                                   /\ (IF cand + 1 > Width THEN GroupNow ELSE {"codex-logic"}) = Visited \cup {Q!Candidate}
<1>1. Q!Family = (IF GroupNow = Codex THEN "codex" ELSE IF second = "agy" THEN "agy" ELSE "zcode")
      /\ (GroupNow = Codex \/ GroupNow = (IF second = "agy" THEN {"agy-tests"} ELSE {"zcode-tests"}))
      /\ (GroupNow = Codex <=> (second = "agy" <=> group = 2))
  <2>1. CASE second = "agy" /\ group = 1
    BY <2>1 DEF Q!Family, Q!Order, GroupNow, FirstGroup, SecondGroup, Codex
  <2>2. CASE second = "agy" /\ group = 2
    BY <2>2 DEF Q!Family, Q!Order, GroupNow, FirstGroup, SecondGroup, Codex
  <2>3. CASE second # "agy" /\ group = 1
    BY <2>3 DEF Q!Family, Q!Order, GroupNow, FirstGroup, SecondGroup, Codex
  <2>4. CASE second # "agy" /\ group = 2
    BY <2>4 DEF Q!Family, Q!Order, GroupNow, FirstGroup, SecondGroup, Codex
  <2> QED BY <2>1, <2>2, <2>3, <2>4
<1>2. CASE GroupNow = Codex
  <2>1. Q!Members(Q!Family) = <<"codex-logic", "codex-security">> /\ Width = 2 /\ Q!Family = "codex"
    BY <1>1, <1>2 DEF Q!Members, Width
  <2>2. Q!Group = Codex /\ Len(Q!Members(Q!Family)) = 2
    BY <2>1 DEF Q!Group, Codex
  <2>3. cand = 1 => Q!Candidate = "codex-logic"
    BY <2>1 DEF Q!Candidate
  <2>4. cand = 2 => Q!Candidate = "codex-security"
    BY <2>1 DEF Q!Candidate
  <2> QED BY <1>1, <1>2, <2>1, <2>2, <2>3, <2>4 DEF Visited, Codex
<1>3. CASE GroupNow # Codex
  <2> DEFINE only == IF second = "agy" THEN "agy-tests" ELSE "zcode-tests"
  <2>1. Q!Members(Q!Family) = <<only>> /\ Width = 1 /\ Q!Family # "codex" /\ GroupNow = {only}
    BY <1>1, <1>3 DEF Q!Members, Width
  <2> HIDE DEF only
  <2>2. Q!Group = {only} /\ Len(Q!Members(Q!Family)) = 1
    BY <2>1 DEF Q!Group
  <2>3. cand = 1 => Q!Candidate = only
    BY <2>1 DEF Q!Candidate
  <2> QED BY <1>1, <1>3, <2>1, <2>2, <2>3 DEF Visited
<1> QED BY <1>2, <1>3

LEMMA QualificationBegins == Q!Init => QualificationInv
<1> SUFFICES ASSUME Q!Init PROVE QualificationInv
  OBVIOUS
<1>1. admission = Q!NoAdmission /\ probe = Q!NoProbe /\ fixtures = <<>> /\ phase = "group" /\ group = 1 /\ cand = 1 /\ breached = {}
  BY DEF Q!Init
<1>2. /\ admission.admitted = {} /\ admission.instances = {} /\ admission.routes = {} /\ admission.failures = {}
      /\ admission \in AdmissionStates /\ probe \in ProbeStates(probe.attempts, probe.failure, probe.version)
  BY <1>1 DEF Q!NoAdmission, Q!NoProbe, AdmissionStates, ProbeStates
<1>3. Q!Candidates \subseteq Q!Instances
  BY GroupsArePairs DEF Q!Init
<1>4. QualificationTypes
  BY <1>1, <1>2 DEF Q!Init, QualificationTypes
<1>5. AllDrained
  BY <1>1 DEF AllDrained
<1>6. CandidatesAreAccounted
  BY <1>1, <1>2 DEF CandidatesAreAccounted, PastGroups, Admitting, ProbingAt
<1>7. HoldingsAreAdmitted
  BY <1>1, <1>2, <1>3 DEF Q!Init, HoldingsAreAdmitted
<1> QED BY <1>1, <1>2, <1>4, <1>5, <1>6, <1>7 DEF Q!Init, QualificationInv, QualificationControl, OwnersAreGiven,
     RunsAreAccounted, Decisive, BreachesDecide, ProbesDrain, Admitting, ProbingAt

\* Registries that are closed leave the rest as they are; a close that is done closes all.
LEMMA CompositeCloses ==
  ASSUME second \in {"agy", "zcode", "zcode_old"}, namespaces \in [Q!Instances -> {"none", "held", "hollow", "drained"}],
         NEW instances \in SUBSET Q!Candidates, NEW alive \in BOOLEAN, NEW done \in BOOLEAN,
         Q!CompositeClose(instances, alive, done)
  PROVE  /\ namespaces' \in [Q!Instances -> {"none", "held", "hollow", "drained"}]
         /\ \A i \in Q!Instances : namespaces'[i] = namespaces[i] \/ (i \in instances /\ namespaces'[i] = "drained")
         /\ done => \A i \in instances : namespaces'[i] = "drained"
<1> DEFINE open == {i \in instances : namespaces[i] # "drained"}
           freed(stop) == {i \in open : Q!Position(i) < stop}
<1>1. PICK stop \in {Q!Position(i) : i \in open} \cup {Len(Q!Sorted) + 1} :
        /\ namespaces' = [i \in Q!Instances |-> IF i \in freed(stop) THEN "drained" ELSE namespaces[i]]
        /\ done = (stop > Len(Q!Sorted))
  BY DEF Q!CompositeClose
<1>2. Q!Candidates \subseteq Q!Instances /\ Len(Q!Sorted) \in Nat
  BY GroupsArePairs
<1>3. \A i \in instances : Q!Position(i) \in 1 .. Len(Q!Sorted)
  BY DEF Q!Position, Q!Candidates
<1>4. freed(stop) \subseteq instances
  OBVIOUS
<1>5. done => freed(stop) = open
  <2>1. SUFFICES ASSUME done PROVE \A i \in open : Q!Position(i) < stop
    OBVIOUS
  <2>2. stop > Len(Q!Sorted)
    BY <1>1, <2>1
  <2>3. stop = Len(Q!Sorted) + 1
    <3>1. CASE stop \in {Q!Position(i) : i \in open}
      <4>1. PICK i \in instances : stop = Q!Position(i)
        BY <3>1
      <4> QED BY <1>2, <1>3, <2>2, <4>1
    <3> QED BY <3>1
  <2> QED BY <1>2, <1>3, <2>3
<1>6. namespaces' = [i \in Q!Instances |-> IF i \in freed(stop) THEN "drained" ELSE namespaces[i]]
  BY <1>1
<1> HIDE DEF freed
<1>7. \A i \in Q!Instances : namespaces'[i] = IF i \in freed(stop) THEN "drained" ELSE namespaces[i]
  BY <1>6
<1>8. namespaces' \in [Q!Instances -> {"none", "held", "hollow", "drained"}]
  BY <1>6
<1>9. done => \A i \in instances : namespaces'[i] = "drained"
  BY <1>2, <1>5, <1>7
<1> QED BY <1>4, <1>7, <1>8, <1>9

\* Registries that are released: what could be closed is no longer admitted.
LEMMA GroupIsReleased ==
  ASSUME second \in {"agy", "zcode", "zcode_old"}, namespaces \in [Q!Instances -> {"none", "held", "hollow", "drained"}],
         NEW closing \in SUBSET Q!Candidates, NEW after \in AdmissionStates, Q!release(closing, after)
  PROVE  \E freed \in SUBSET closing :
           /\ namespaces' \in [Q!Instances -> {"none", "held", "hollow", "drained"}]
           /\ \A i \in Q!Instances : namespaces'[i] = IF i \in freed THEN "drained" ELSE namespaces[i]
           /\ admission' \in AdmissionStates
           /\ admission'.admitted = after.admitted \ freed /\ admission'.instances = after.instances
           /\ admission'.routes = after.routes /\ admission'.failures = after.failures
<1>1. PICK stuck \in SUBSET closing :
        /\ namespaces' = [i \in Q!Instances |-> IF i \in closing \ stuck THEN "drained" ELSE namespaces[i]]
        /\ admission' = [after EXCEPT !.admitted = @ \ (closing \ stuck), !.closed = @ \cup (closing \ stuck)]
  BY DEF Q!release
<1> DEFINE freed == closing \ stuck
<1>2. freed \in SUBSET closing /\ freed \in SUBSET Q!Candidates
  OBVIOUS
<1>3. /\ namespaces' = [i \in Q!Instances |-> IF i \in freed THEN "drained" ELSE namespaces[i]]
      /\ admission' = [after EXCEPT !.admitted = @ \ freed, !.closed = @ \cup freed]
  BY <1>1
<1> HIDE DEF freed
<1>4. namespaces' \in [Q!Instances -> {"none", "held", "hollow", "drained"}] /\ \A i \in Q!Instances : namespaces'[i] = IF i \in freed THEN "drained" ELSE namespaces[i]
  BY <1>3
<1>5. /\ admission' \in AdmissionStates
      /\ admission'.admitted = after.admitted \ freed /\ admission'.instances = after.instances
      /\ admission'.routes = after.routes /\ admission'.failures = after.failures
  <2>1. Q!Candidates \subseteq Q!Instances
    BY GroupsArePairs
  <2> QED BY <1>2, <1>3, <2>1 DEF AdmissionStates
<1> QED BY <1>2, <1>4, <1>5

\* Where the groups are after a step.
LEMMA GroupsStay ==
  ASSUME UNCHANGED second, group \in 1 .. 3
  PROVE  /\ FirstGroup' = FirstGroup /\ SecondGroup' = SecondGroup
         /\ group' = group => PastGroups' = PastGroups /\ GroupNow' = GroupNow /\ Width' = Width
         /\ group' = group /\ cand' = cand => Visited' = Visited
         /\ group' = group /\ group \in {1, 2} /\ second \in {"agy", "zcode", "zcode_old"} /\ cand \in 1 .. Width /\ cand' = cand + 1 =>
              Visited' = Visited \cup {Q!Candidate}
         /\ cand' = 1 => Visited' = {}
         /\ group \in {1, 2} /\ group' = group + 1 =>
              PastGroups' = PastGroups \cup GroupNow /\ group' \in {2, 3} /\ GroupNow' = IF group = 1 THEN SecondGroup ELSE {}
         /\ (group = 3 => PastGroups = FirstGroup \cup SecondGroup) /\ GroupNow \subseteq FirstGroup \cup SecondGroup
         /\ FirstGroup \cup SecondGroup \subseteq Q!Instances
         /\ (second \in {"agy", "zcode", "zcode_old"} => PastGroups \cap GroupNow = {})
<1>1. FirstGroup' = FirstGroup /\ SecondGroup' = SecondGroup /\ FirstGroup \cup SecondGroup \subseteq Q!Instances
  BY DEF FirstGroup, SecondGroup, Codex, Q!Instances
<1>2. group' = group => PastGroups' = PastGroups /\ GroupNow' = GroupNow /\ Width' = Width
  BY <1>1 DEF PastGroups, GroupNow, Width, Codex
<1>3. group' = group /\ cand' = cand => Visited' = Visited
  BY <1>2 DEF Visited
<1>4. ASSUME group' = group, group \in {1, 2}, second \in {"agy", "zcode", "zcode_old"}, cand \in 1 .. Width, cand' = cand + 1
      PROVE  Visited' = Visited \cup {Q!Candidate}
  <2>1. Visited' = IF cand' = 1 THEN {} ELSE IF cand' > Width' THEN GroupNow' ELSE {"codex-logic"}
    BY DEF Visited
  <2> QED BY <1>2, <1>4, <2>1, GroupIsNow
<1>5. cand' = 1 => Visited' = {}
  BY DEF Visited
<1>6. group \in {1, 2} /\ group' = group + 1 =>
        PastGroups' = PastGroups \cup GroupNow /\ group' \in {2, 3} /\ GroupNow' = IF group = 1 THEN SecondGroup ELSE {}
  BY <1>1 DEF PastGroups, GroupNow
<1>7. (group = 3 => PastGroups = FirstGroup \cup SecondGroup) /\ GroupNow \subseteq FirstGroup \cup SecondGroup
  BY DEF PastGroups, GroupNow
<1>8. second \in {"agy", "zcode", "zcode_old"} => PastGroups \cap GroupNow = {}
  BY GroupsArePairs DEF PastGroups, GroupNow
<1> QED BY <1>1, <1>2, <1>3, <1>4, <1>5, <1>6, <1>7, <1>8

\* A step of the probe: only the probe and its fixtures change.
LEMMA ProbeMoves ==
  ASSUME QualificationInv, phase \in ProbingAt, phase' \in ProbingAt,
         UNCHANGED <<second, ctx, group, cand, namespaces, admission, cause, owner, reclaimed, tries>>,
         fixtures' \in Seq({"open", "drained", "lost"}), probe' \in ProbeStates(probe'.attempts, probe'.failure, probe'.version),
         breached' \subseteq Q!Instances, phase' = "profile" => second = "agy" /\ group = 1,
         BreachesDecide', phase' = "admit" /\ probe'.failure \notin {"internal", "login"} => AllDrained'
  PROVE  QualificationInv'
<1>1. phase \in Admitting /\ phase' \in Admitting
      /\ phase \notin {"group", "construct", "route", "assemble", "undo", "running", "release", "close", "owned", "ended"}
      /\ phase' \notin {"group", "construct", "route", "assemble", "undo", "running", "release", "close", "owned", "ended"}
  BY DEF Admitting, ProbingAt
<1>2. QualificationTypes'
  BY DEF QualificationInv, QualificationTypes
<1>3. QualificationControl'
  BY <1>1 DEF QualificationInv, QualificationControl
<1>4. OwnersAreGiven' /\ RunsAreAccounted'
  BY <1>1 DEF QualificationInv, OwnersAreGiven, RunsAreAccounted
<1>5. /\ FirstGroup' = FirstGroup /\ SecondGroup' = SecondGroup /\ PastGroups' = PastGroups /\ GroupNow' = GroupNow /\ Visited' = Visited
  BY GroupsStay DEF QualificationInv, QualificationTypes
<1>6. HoldingsAreAdmitted'
  BY <1>1, <1>5 DEF QualificationInv, HoldingsAreAdmitted
<1>7. CandidatesAreAccounted'
  BY <1>1, <1>5 DEF QualificationInv, CandidatesAreAccounted
<1>8. ProbesDrain'
  BY <1>1 DEF ProbesDrain
<1> QED BY <1>2, <1>3, <1>4, <1>6, <1>7, <1>8 DEF QualificationInv

LEMMA QualificationAcquires == ASSUME QualificationInv, Q!AcquireFixture PROVE QualificationInv'
<1>1. /\ phase = "acquire" /\ UNCHANGED <<second, ctx, group, cand, namespaces, admission, breached, cause, owner, reclaimed, tries>>
      /\ phase' \in {"version", "drain"}
  BY DEF Q!AcquireFixture, Q!Delivery, Q!Ends
<1>2. /\ fixtures \in Seq({"open", "drained", "lost"}) /\ probe \in ProbeStates(probe.attempts, probe.failure, probe.version)
      /\ breached \subseteq Q!Instances
  BY DEF QualificationInv, QualificationTypes
<1>3. fixtures' \in Seq({"open", "drained", "lost"})
  <2>1. CASE fixtures' = Append(fixtures, "open")
    <3> DEFINE states == {"open", "drained", "lost"}
    <3>1. fixtures \in Seq(states) /\ "open" \in states
      BY <1>2
    <3> HIDE DEF states
    <3>2. Append(fixtures, "open") \in Seq(states)
      BY <3>1
    <3> QED BY <2>1, <3>2 DEF states
  <2>2. CASE \E got \in {<<>>, <<"open">>} : fixtures' = fixtures \o got
    <3>2. PICK got \in {<<>>, <<"open">>} : fixtures' = fixtures \o got
      BY <2>2
    <3> DEFINE states == {"open", "drained", "lost"}
    <3>3. fixtures \in Seq(states) /\ "open" \in states
      BY <1>2
    <3> HIDE DEF states
    <3>5. <<>> \in Seq(states) /\ <<"open">> \in Seq(states)
      BY <3>3
    <3>6. \A t \in Seq(states) : fixtures \o t \in Seq(states)
      BY <3>3
    <3>4. fixtures \o got \in Seq(states)
      BY <3>5, <3>6, Zenon
    <3> QED BY <3>2, <3>4 DEF states
  <2> QED BY <2>1, <2>2 DEF Q!AcquireFixture
<1>4. probe' \in ProbeStates(probe'.attempts, probe'.failure, probe'.version) /\ probe'.masked = probe.masked
  <2>1. probe' = [probe EXCEPT !.attempts = @ + 1, !.failure = "none", !.version = "none"] \/ probe' = [probe EXCEPT !.failure = "plain"]
        \/ probe' = probe
    BY DEF Q!AcquireFixture, Q!Ends
  <2> QED BY <1>2, <2>1 DEF ProbeStates
<1>5. Decisive' = {}
  BY <1>1, <1>4 DEF QualificationInv, BreachesDecide, Decisive
<1>6. BreachesDecide'
  BY <1>5 DEF BreachesDecide
<1> QED BY <1>1, <1>2, <1>3, <1>4, <1>6, ProbeMoves DEF ProbingAt

\* A launch of the probe that fails, or a boundary check that does.
LEMMA ProbeIsLaunched == ASSUME QualificationInv, Q!ProbeVersion \/ Q!ProbeCapability PROVE QualificationInv'
<1>1. /\ phase \in {"version", "capability"} /\ UNCHANGED <<second, ctx, group, cand, namespaces, admission, fixtures, cause, owner, reclaimed, tries>>
      /\ phase' \in {"capability", "observe", "profile"} /\ (phase' = "profile" => Q!Family = "agy")
  BY DEF Q!ProbeVersion, Q!ProbeCapability, Q!Delivery, Q!Ends, Q!Breach, Q!LaunchFails
<1>2. /\ fixtures \in Seq({"open", "drained", "lost"}) /\ probe \in ProbeStates(probe.attempts, probe.failure, probe.version)
      /\ breached \subseteq Q!Instances /\ second \in {"agy", "zcode", "zcode_old"} /\ group \in {1, 2}
      /\ admission \in AdmissionStates
  BY <1>1 DEF QualificationInv, QualificationTypes, QualificationControl, ProbingAt
<1>3. Q!Group = GroupNow /\ (phase' = "profile" => second = "agy" /\ group = 1)
  BY <1>1, <1>2, GroupIsNow
<1>4. Decisive = {}
  BY <1>1 DEF QualificationInv, BreachesDecide
<1>5. CASE Q!Breach("observe")
  <2>1. probe' = [probe EXCEPT !.failure = "security"] /\ phase' = "observe" /\ breached' = breached \cup Q!Kept
    BY <1>5 DEF Q!Breach, Q!Ends
  <2>2. /\ probe' \in ProbeStates(probe'.attempts, probe'.failure, probe'.version) /\ probe'.masked = probe.masked /\ probe'.failure = "security"
    BY <1>2, <2>1 DEF ProbeStates
  <2>3. Q!Kept \cap admission.failures = {} /\ Q!Kept \subseteq Q!Instances
    <3>1. Q!Kept = admission.admitted \cap GroupNow
      BY <1>3 DEF Q!Kept
    <3> QED BY <1>1, <1>2, <3>1 DEF QualificationInv, CandidatesAreAccounted, Admitting, ProbingAt, AdmissionStates
  <2>4. Decisive' \subseteq Q!Kept
    BY <1>4, <2>1, <2>2 DEF Decisive
  <2>5. BreachesDecide'
    BY <1>1, <2>1, <2>2, <2>3, <2>4 DEF BreachesDecide
  <2> QED BY <1>1, <1>2, <1>3, <2>1, <2>2, <2>3, <2>5, ProbeMoves DEF ProbingAt
<1>6. CASE UNCHANGED breached
  <2>1. /\ probe' \in ProbeStates(probe'.attempts, probe'.failure, probe'.version) /\ probe'.masked = probe.masked
    <3>1. (\E f : probe' = [probe EXCEPT !.failure = f]) \/ (\E seen \in {"green", "red"} : probe' = [probe EXCEPT !.version = seen])
      BY DEF Q!ProbeVersion, Q!ProbeCapability, Q!Ends, Q!Breach, Q!LaunchFails
    <3>2. CASE \E f : probe' = [probe EXCEPT !.failure = f]
      BY <1>2, <3>2 DEF ProbeStates
    <3>3. CASE \E seen \in {"green", "red"} : probe' = [probe EXCEPT !.version = seen]
      BY <1>2, <3>3 DEF ProbeStates
    <3> QED BY <3>1, <3>2, <3>3
  <2>2. Decisive' = {}
    BY <1>4, <1>6, <2>1 DEF Decisive
  <2>3. BreachesDecide'
    BY <2>2 DEF BreachesDecide
  <2> QED BY <1>1, <1>2, <1>3, <1>6, <2>1, <2>3, ProbeMoves DEF ProbingAt
<1> QED BY <1>5, <1>6 DEF Q!ProbeVersion, Q!ProbeCapability, Q!LaunchFails

LEMMA AgyInvocationFinishes == ASSUME QualificationInv, Q!FinishAgyInvocation PROVE QualificationInv'
<1>1. /\ phase = "profile" /\ phase' = "observe" /\ UNCHANGED <<second, ctx, group, cand, namespaces, admission, fixtures, cause, owner, reclaimed, tries>>
  BY DEF Q!FinishAgyInvocation, Q!Delivery
<1>2. /\ fixtures \in Seq({"open", "drained", "lost"}) /\ probe \in ProbeStates(probe.attempts, probe.failure, probe.version)
      /\ breached \subseteq Q!Instances /\ second = "agy" /\ group = 1 /\ admission \in AdmissionStates
  BY <1>1 DEF QualificationInv, QualificationTypes, QualificationControl
<1>3. Q!Group = GroupNow /\ GroupNow = {"agy-tests"} /\ Decisive = {}
  BY <1>1, <1>2, GroupIsNow DEF GroupNow, FirstGroup, QualificationInv, BreachesDecide
<1>4. CASE UNCHANGED <<probe, breached>>
  <2>1. Decisive' = {}
    BY <1>3, <1>4 DEF Decisive
  <2>2. BreachesDecide'
    BY <2>1 DEF BreachesDecide
  <2> QED BY <1>1, <1>2, <1>4, <2>2, ProbeMoves DEF ProbingAt
<1>5. CASE /\ breached' = breached \cup Q!Kept
           /\ probe' = [probe EXCEPT !.failure = IF @ = "cancelled" THEN "security" ELSE @, !.masked = @ \/ probe.failure # "cancelled"]
  <2>1. Q!Kept \cap admission.failures = {} /\ Q!Kept \subseteq {"agy-tests"}
    <3>1. Q!Kept = admission.admitted \cap GroupNow
      BY <1>3 DEF Q!Kept
    <3> QED BY <1>1, <1>2, <1>3, <3>1 DEF QualificationInv, CandidatesAreAccounted, Admitting, ProbingAt
  <2>2. /\ probe' \in ProbeStates(probe'.attempts, probe'.failure, probe'.version)
        /\ probe'.masked = (probe.masked \/ probe.failure # "cancelled")
        /\ probe'.failure = IF probe.failure = "cancelled" THEN "security" ELSE probe.failure
    BY <1>2, <1>5 DEF ProbeStates
  <2>3. CASE probe'.masked
    <3>1. Decisive' = {}
      BY <1>3, <1>5, <2>1, <2>3 DEF Decisive
    <3>2. BreachesDecide'
      BY <3>1 DEF BreachesDecide
    <3> QED BY <1>1, <1>2, <1>5, <2>1, <2>2, <3>2, ProbeMoves DEF ProbingAt, Q!Instances
  <2>4. CASE ~probe'.masked
    <3>1. probe'.failure = "security" /\ Decisive' \subseteq Q!Kept
      BY <1>3, <1>5, <2>2, <2>4 DEF Decisive
    <3>2. BreachesDecide'
      BY <1>1, <2>1, <3>1 DEF BreachesDecide
    <3> QED BY <1>1, <1>2, <1>5, <2>1, <2>2, <3>2, ProbeMoves DEF ProbingAt, Q!Instances
  <2> QED BY <2>3, <2>4
<1> QED BY <1>4, <1>5 DEF Q!FinishAgyInvocation

LEMMA ProbeIsObserved == ASSUME QualificationInv, Q!ObserveQualificationProbe PROVE QualificationInv'
<1>1. /\ phase = "observe" /\ UNCHANGED <<second, ctx, group, cand, namespaces, admission, fixtures, breached, cause, owner, reclaimed, tries>>
  BY DEF Q!ObserveQualificationProbe, Q!Delivery
<1>2. PICK failure \in {probe.failure, "artifact"} :
        /\ probe' = [probe EXCEPT !.failure = failure]
        /\ phase' = IF ctx /\ failure \in Q!Retryable /\ probe.attempts = 1 THEN "acquire" ELSE "drain"
  BY DEF Q!ObserveQualificationProbe, Q!Ends
<1>3. /\ fixtures \in Seq({"open", "drained", "lost"}) /\ probe \in ProbeStates(probe.attempts, probe.failure, probe.version)
      /\ breached \subseteq Q!Instances
  BY DEF QualificationInv, QualificationTypes
<1>4. probe' \in ProbeStates(probe'.attempts, probe'.failure, probe'.version) /\ probe'.masked = probe.masked /\ probe'.failure = failure
  BY <1>2, <1>3 DEF ProbeStates
<1>5. Decisive' = Decisive /\ (Decisive # {} => failure \in {"security", "artifact", "internal"} /\ Decisive \cap admission.failures = {})
  BY <1>1, <1>2, <1>4 DEF QualificationInv, BreachesDecide, Decisive
<1>6. Decisive # {} => phase' = "drain"
  BY <1>2, <1>5 DEF Q!Retryable
<1>7. BreachesDecide'
  BY <1>1, <1>4, <1>5, <1>6 DEF BreachesDecide
<1>8. phase' \in {"acquire", "drain"}
  BY <1>2
<1> QED BY <1>1, <1>3, <1>4, <1>7, <1>8, ProbeMoves DEF ProbingAt

LEMMA ProbeFixturesDrain == ASSUME QualificationInv, Q!drainProbeFixtures PROVE QualificationInv'
<1>1. /\ phase = "drain" /\ phase' = "admit" /\ UNCHANGED <<second, ctx, group, cand, namespaces, admission, breached, cause, owner, reclaimed, tries>>
  BY DEF Q!drainProbeFixtures, Q!Delivery
<1>2. PICK lost \in SUBSET {n \in 1 .. Len(fixtures) : fixtures[n] = "open"} :
        /\ fixtures' = [n \in 1 .. Len(fixtures) |-> IF n \in lost THEN "lost" ELSE "drained"]
        /\ IF lost = {} THEN UNCHANGED probe
           ELSE probe' = [probe EXCEPT !.failure = IF @ = "login" THEN @ ELSE "internal"]
  BY DEF Q!drainProbeFixtures
<1>3. /\ fixtures \in Seq({"open", "drained", "lost"}) /\ probe \in ProbeStates(probe.attempts, probe.failure, probe.version)
      /\ breached \subseteq Q!Instances /\ Len(fixtures) \in Nat
  BY DEF QualificationInv, QualificationTypes
<1>4. fixtures' \in Seq({"open", "drained", "lost"}) /\ Len(fixtures') = Len(fixtures)
  BY <1>2, <1>3
<1>5. /\ probe' \in ProbeStates(probe'.attempts, probe'.failure, probe'.version) /\ probe'.masked = probe.masked
      /\ probe'.failure \in {probe.failure, "internal"} /\ (lost # {} => probe'.failure \in {"login", "internal"})
  <2>1. CASE lost = {}
    BY <1>2, <1>3, <2>1
  <2>2. CASE lost # {}
    BY <1>2, <1>3, <2>2 DEF ProbeStates
  <2> QED BY <2>1, <2>2
<1>6. Decisive' = Decisive
  BY <1>1, <1>5 DEF Decisive
<1>7. BreachesDecide'
  BY <1>1, <1>5, <1>6 DEF QualificationInv, BreachesDecide
<1>8. lost = {} => AllDrained'
  BY <1>2, <1>4 DEF AllDrained
<1> QED BY <1>1, <1>3, <1>4, <1>5, <1>7, <1>8, ProbeMoves DEF ProbingAt

\* What holds while the groups are admitted and no boundary failure has decided.
LEMMA AdmissionIsAt ==
  ASSUME QualificationInv, phase \in {"group", "construct", "route", "assemble", "release", "undo", "running"}
  PROVE  Decisive = {} /\ owner = (IF phase = "running" THEN "run" ELSE "none")
         /\ (phase \in {"group", "construct", "route", "assemble", "undo", "running"} => AllDrained)
         /\ (phase \in {"group", "construct", "route", "assemble"} => phase \in Admitting)
BY DEF QualificationInv, BreachesDecide, OwnersAreGiven, ProbesDrain, Admitting

\* A step between two groups, or inside one, before and after its probe.
LEMMA AdmissionMoves ==
  ASSUME QualificationInv, phase \in Admitting, phase' \in Admitting, UNCHANGED <<second, ctx, breached, owner, reclaimed>>,
         group' \in 1 .. 3, cand' \in 1 .. 3, namespaces' \in [Q!Instances -> {"none", "held", "hollow", "drained"}],
         admission' \in AdmissionStates, fixtures' \in Seq({"open", "drained", "lost"}),
         probe' \in ProbeStates(probe'.attempts, probe'.failure, probe'.version), probe'.masked = probe.masked, Decisive = {},
         QualificationControl', HoldingsAreAdmitted', CandidatesAreAccounted',
         AllDrained' \/ phase' = "acquire"
  PROVE  QualificationInv'
<1>1. phase \notin {"undo", "running", "owned", "ended"} /\ phase' \notin {"undo", "running", "owned", "ended"}
  BY DEF Admitting, ProbingAt
<1>2. QualificationTypes'
  BY DEF QualificationInv, QualificationTypes
<1>3. OwnersAreGiven' /\ RunsAreAccounted'
  BY <1>1 DEF QualificationInv, OwnersAreGiven, RunsAreAccounted
<1>4. Decisive' = {}
  BY DEF Decisive
<1>5. BreachesDecide'
  BY <1>4 DEF BreachesDecide
<1>6. ProbesDrain'
  BY DEF ProbesDrain
<1> QED BY <1>2, <1>3, <1>5, <1>6 DEF QualificationInv

LEMMA GroupIsAdmitted == ASSUME QualificationInv, Q!AdmitGroup PROVE QualificationInv'
<1>1. /\ phase = "group" /\ UNCHANGED <<second, ctx, namespaces, fixtures, probe, breached, cause, owner, reclaimed, tries>>
  BY DEF Q!AdmitGroup, Q!Probing, Q!Delivery
<1>2. QualificationTypes /\ HoldingsAreAdmitted /\ CandidatesAreAccounted /\ second \in {"agy", "zcode", "zcode_old"}
      /\ group \in 1 .. 3 /\ cand \in 1 .. 3 /\ admission \in AdmissionStates
  BY DEF QualificationInv, QualificationTypes
<1>3. Decisive = {} /\ AllDrained /\ AllDrained' /\ phase \in Admitting
  BY <1>1, AdmissionIsAt DEF AllDrained
<1>7. Len(Q!Order) = 2
  BY <1>2, GroupsArePairs
<1>4. CASE group = 3
  <2>1. phase' = "assemble" /\ UNCHANGED <<group, cand, admission>>
    BY <1>4, <1>7 DEF Q!AdmitGroup
  <2>2. QualificationControl'
    BY <1>1, <1>2, <1>4, <2>1 DEF QualificationControl, ProbingAt, Admitting
  <2>3. HoldingsAreAdmitted' /\ CandidatesAreAccounted'
    <3>1. FirstGroup' = FirstGroup /\ SecondGroup' = SecondGroup /\ PastGroups' = PastGroups /\ GroupNow' = GroupNow /\ Visited' = Visited
      BY <1>1, <1>2, <2>1, GroupsStay
    <3> QED BY <1>1, <1>2, <1>3, <2>1, <3>1 DEF HoldingsAreAdmitted, CandidatesAreAccounted, Admitting, ProbingAt
  <2> QED BY <1>1, <1>2, <1>3, <2>1, <2>2, <2>3, AdmissionMoves DEF QualificationTypes, Admitting
<1>5. CASE group \in {1, 2} /\ Q!Family = "zcode" /\ second = "zcode_old"
  <2>8. Q!Group = GroupNow
    BY <1>2, <1>5, GroupIsNow
  <2>1. UNCHANGED <<phase, cand>> /\ group' = group + 1 /\ admission' = [admission EXCEPT !.failures = @ \cup GroupNow]
    <3>1. ~(group > Len(Q!Order))
      BY <1>5, <1>7
    <3> QED BY <1>5, <2>8, <3>1 DEF Q!AdmitGroup
  <2>2. group' = 3 /\ group = 2
    BY <1>5, <2>1, GroupIsNow DEF GroupNow, FirstGroup, SecondGroup, Codex, Width
  <2>3. /\ FirstGroup' = FirstGroup /\ SecondGroup' = SecondGroup /\ PastGroups' = PastGroups \cup GroupNow /\ GroupNow' = {}
        /\ PastGroups \cap GroupNow = {} /\ GroupNow \subseteq FirstGroup \cup SecondGroup /\ FirstGroup \cup SecondGroup \subseteq Q!Instances
    BY <1>1, <1>2, <2>1, <2>2, GroupsStay
  <2>4. /\ admission' \in AdmissionStates /\ admission'.admitted = admission.admitted /\ admission'.instances = admission.instances
        /\ admission'.routes = admission.routes /\ admission'.failures = admission.failures \cup GroupNow
    BY <1>2, <2>1, <2>3 DEF AdmissionStates
  <2>5. HoldingsAreAdmitted'
    BY <1>1, <1>2, <2>1, <2>3, <2>4 DEF HoldingsAreAdmitted
  <2>6. CandidatesAreAccounted'
    BY <1>1, <1>2, <1>3, <2>1, <2>2, <2>3, <2>4 DEF CandidatesAreAccounted, ProbingAt
  <2>7. QualificationControl'
    BY <1>1, <2>1 DEF QualificationControl, ProbingAt, Admitting
  <2> QED BY <1>1, <1>2, <1>3, <2>1, <2>2, <2>4, <2>5, <2>6, <2>7, AdmissionMoves DEF QualificationTypes
<1>6. CASE group \in {1, 2} /\ ~(Q!Family = "zcode" /\ second = "zcode_old")
  <2>1. phase' = "construct" /\ cand' = 1 /\ UNCHANGED <<group, admission>>
    <3>1. ~(group > Len(Q!Order))
      BY <1>6, <1>7
    <3> QED BY <1>6, <3>1 DEF Q!AdmitGroup
  <2>2. /\ FirstGroup' = FirstGroup /\ SecondGroup' = SecondGroup /\ PastGroups' = PastGroups /\ GroupNow' = GroupNow /\ Visited' = {}
        /\ Width' \in {1, 2}
    <3>1. Width' \in {1, 2}
      BY DEF Width
    <3> QED BY <1>1, <1>2, <2>1, <3>1, GroupsStay
  <2>3. HoldingsAreAdmitted'
    BY <1>1, <1>2, <1>3, <2>1, <2>2 DEF HoldingsAreAdmitted
  <2>4. CandidatesAreAccounted'
    BY <1>1, <1>2, <1>3, <2>1, <2>2 DEF CandidatesAreAccounted, ProbingAt
  <2>5. QualificationControl'
    <3>4. cand' = 1 /\ Width' \in {1, 2}
      BY <2>1 DEF Width
    <3>5. \A w \in {1, 2} : 1 <= w + 1
      OBVIOUS
    <3>1. cand' <= Width' + 1
      BY <3>4, <3>5, Zenon
    <3>2. phase' = "construct" /\ group' \in {1, 2}
      BY <1>6, <2>1
    <3>3. /\ phase' \in Admitting \cup {"release", "close", "undo", "running", "owned", "ended"}
          /\ phase' \notin {"assemble", "undo", "running", "profile"}
      BY <3>2 DEF Admitting
    <3> QED BY <3>1, <3>2, <3>3 DEF QualificationControl
  <2> QED BY <1>1, <1>2, <1>3, <2>1, <2>3, <2>4, <2>5, AdmissionMoves DEF QualificationTypes, Admitting
<1> QED BY <1>2, <1>4, <1>5, <1>6

\* An admission that failed: nothing is admitted any more, and no boundary decided it.
LEMMA AdmissionFails ==
  ASSUME QualificationInv, phase' \in {"release", "close"}, UNCHANGED <<second, ctx, breached, owner, reclaimed, group, fixtures, probe>>,
         phase' = "release" => group \in {1, 2},
         cand' \in 1 .. 3, namespaces' \in [Q!Instances -> {"none", "held", "hollow", "drained"}], admission' \in AdmissionStates,
         owner = "none", Decisive = {} \/ (phase' = "close" /\ BreachesDecide'), HoldingsAreAdmitted'
  PROVE  QualificationInv'
<1>1. phase' \notin Admitting
  BY DEF Admitting, ProbingAt
<1>2. QualificationTypes'
  BY DEF QualificationInv, QualificationTypes
<1>3. QualificationControl' /\ OwnersAreGiven' /\ RunsAreAccounted' /\ CandidatesAreAccounted'
  BY <1>1 DEF QualificationControl, OwnersAreGiven, RunsAreAccounted, CandidatesAreAccounted, ProbingAt
<1>4. BreachesDecide'
  <2>1. Decisive' = Decisive
    BY DEF Decisive
  <2> QED BY <2>1 DEF BreachesDecide
<1>5. ProbesDrain'
  BY DEF ProbesDrain
<1> QED BY <1>2, <1>3, <1>4, <1>5 DEF QualificationInv

\* The candidates of the group at hand, one by one.
LEMMA RegistryIsConstructed == ASSUME QualificationInv, Q!NewProviderQualificationRegistry PROVE QualificationInv'
<1>1. /\ phase = "construct" /\ cand <= Len(Q!Members(Q!Family))
      /\ UNCHANGED <<second, ctx, group, fixtures, probe, breached, owner, reclaimed, tries>>
  BY DEF Q!NewProviderQualificationRegistry, Q!Probing, Q!Delivery
<1>2. /\ QualificationTypes /\ HoldingsAreAdmitted /\ CandidatesAreAccounted /\ second \in {"agy", "zcode", "zcode_old"}
      /\ group \in {1, 2} /\ cand \in 1 .. 3 /\ admission \in AdmissionStates /\ namespaces \in [Q!Instances -> {"none", "held", "hollow", "drained"}]
      /\ fixtures \in Seq({"open", "drained", "lost"}) /\ probe \in ProbeStates(probe.attempts, probe.failure, probe.version)
  BY <1>1 DEF QualificationInv, QualificationTypes, QualificationControl
<1>3. Decisive = {} /\ AllDrained /\ AllDrained' /\ phase \in Admitting /\ owner = "none"
  BY <1>1, AdmissionIsAt DEF AllDrained
<1>4. /\ Width \in {1, 2} /\ cand \in 1 .. Width /\ Q!Candidate \in GroupNow \ Visited
  BY <1>1, <1>2, GroupIsNow
<1>5. /\ GroupNow \subseteq FirstGroup \cup SecondGroup /\ FirstGroup \cup SecondGroup \subseteq Q!Instances
      /\ PastGroups \cap GroupNow = {} /\ FirstGroup \cap SecondGroup = {} /\ (group = 1 => GroupNow = FirstGroup)
  BY <1>1, <1>2, GroupsStay, GroupsArePairs DEF GroupNow
<1> DEFINE one == Q!Candidate
<1>6. one \in GroupNow \ Visited /\ one \in Q!Instances /\ one \in FirstGroup \cup SecondGroup
  BY <1>4, <1>5
<1> HIDE DEF one
<1>7. \A state \in {"held", "hollow"} : Q!Constructed(one, state) =>
        /\ namespaces' \in [Q!Instances -> {"none", "held", "hollow", "drained"}]
        /\ \A i \in Q!Instances : namespaces'[i] = IF i = one THEN state ELSE namespaces[i]
        /\ admission' \in AdmissionStates /\ admission'.admitted = admission.admitted \cup {one}
        /\ admission'.instances = admission.instances \cup {one}
        /\ admission'.routes = admission.routes /\ admission'.failures = admission.failures
  <2>1. SUFFICES ASSUME NEW state \in {"held", "hollow"}, Q!Constructed(one, state)
                 PROVE  /\ namespaces' \in [Q!Instances -> {"none", "held", "hollow", "drained"}]
                        /\ \A i \in Q!Instances : namespaces'[i] = IF i = one THEN state ELSE namespaces[i]
                        /\ admission' \in AdmissionStates /\ admission'.admitted = admission.admitted \cup {one}
                        /\ admission'.instances = admission.instances \cup {one}
                        /\ admission'.routes = admission.routes /\ admission'.failures = admission.failures
    BY Zenon
  <2>2. /\ namespaces' = [namespaces EXCEPT ![one] = state]
        /\ admission' = [admission EXCEPT !.admitted = @ \cup {one}, !.instances = @ \cup {one}]
    BY <2>1 DEF Q!Constructed
  <2>3. namespaces' \in [Q!Instances -> {"none", "held", "hollow", "drained"}] /\ \A i \in Q!Instances : namespaces'[i] = IF i = one THEN state ELSE namespaces[i]
    BY <1>2, <1>6, <2>2
  <2>4. /\ admission' \in AdmissionStates /\ admission'.admitted = admission.admitted \cup {one}
        /\ admission'.instances = admission.instances \cup {one}
        /\ admission'.routes = admission.routes /\ admission'.failures = admission.failures
    BY <1>2, <1>6, <2>2 DEF AdmissionStates
  <2> QED BY <2>3, <2>4
<1>8. one \notin admission.instances \cup admission.failures /\ one \notin admission.admitted /\ admission.routes \subseteq admission.admitted
      /\ admission.routes \subseteq PastGroups /\ admission.failures \subseteq FirstGroup \cup SecondGroup
  BY <1>1, <1>2, <1>3, <1>6 DEF CandidatesAreAccounted, HoldingsAreAdmitted
<1>9. /\ FirstGroup' = FirstGroup /\ SecondGroup' = SecondGroup /\ PastGroups' = PastGroups /\ GroupNow' = GroupNow /\ Width' = Width
      /\ (cand' = cand + 1 => Visited' = Visited \cup {one})
  BY <1>1, <1>2, <1>4, GroupsStay DEF one
<1>10. CASE cand' = cand + 1 /\ UNCHANGED <<phase, cause>>
            /\ (Q!Constructed(one, "held") \/ (UNCHANGED namespaces /\ admission' = [admission EXCEPT !.failures = @ \cup {one}]))
  <2>1. QualificationControl'
    <3>1. cand' \in 1 .. Width + 1 /\ cand' \in 1 .. 3
      BY <1>4, <1>10
    <3>2. phase' = "construct" /\ phase' \notin {"assemble", "undo", "running", "profile"} /\ phase' \in Admitting /\ group' \in {1, 2}
      BY <1>1, <1>2, <1>10 DEF Admitting
    <3>3. cand' <= Width' + 1
      BY <1>9, <3>1
    <3> QED BY <3>2, <3>3 DEF QualificationControl
  <2>2. cand' \in 1 .. 3
    BY <1>4, <1>10
  <2>3. CASE Q!Constructed(one, "held")
    <3>1. /\ namespaces' \in [Q!Instances -> {"none", "held", "hollow", "drained"}]
          /\ \A i \in Q!Instances : namespaces'[i] = IF i = one THEN "held" ELSE namespaces[i]
          /\ admission' \in AdmissionStates /\ admission'.admitted = admission.admitted \cup {one}
          /\ admission'.instances = admission.instances \cup {one}
          /\ admission'.routes = admission.routes /\ admission'.failures = admission.failures
      BY <1>7, <2>3
    <3>2. HoldingsAreAdmitted'
      <4>1. phase' = "construct" /\ (\A i \in admission.admitted : namespaces[i] = "held" /\ i \in Q!Instances)
        BY <1>1, <1>2, <1>3, <1>10 DEF HoldingsAreAdmitted, AdmissionStates
      <4>2. admission'.admitted \subseteq admission'.instances /\ admission'.instances \subseteq FirstGroup' \cup SecondGroup'
        BY <1>2, <1>6, <1>9, <3>1 DEF HoldingsAreAdmitted
      <4>3. \A i \in Q!Instances : i \in admission'.instances <=> namespaces'[i] # "none"
        BY <1>2, <3>1 DEF HoldingsAreAdmitted
      <4>4. \A i \in Q!Instances : namespaces'[i] \in {"held", "hollow"} => i \in admission'.admitted
        BY <1>2, <3>1 DEF HoldingsAreAdmitted
      <4>5. \A i \in admission'.admitted : namespaces'[i] = "held"
        BY <1>6, <3>1, <4>1
      <4> QED BY <4>1, <4>2, <4>3, <4>4, <4>5 DEF HoldingsAreAdmitted
    <3>3. CandidatesAreAccounted'
      BY <1>1, <1>2, <1>3, <1>5, <1>6, <1>8, <1>9, <1>10, <3>1 DEF CandidatesAreAccounted, ProbingAt
    <3> QED BY <1>1, <1>2, <1>3, <1>10, <2>1, <2>2, <3>1, <3>2, <3>3, AdmissionMoves
  <2>4. CASE UNCHANGED namespaces /\ admission' = [admission EXCEPT !.failures = @ \cup {one}]
    <3>1. /\ admission' \in AdmissionStates /\ admission'.admitted = admission.admitted /\ admission'.instances = admission.instances
          /\ admission'.routes = admission.routes /\ admission'.failures = admission.failures \cup {one}
      BY <1>2, <1>6, <2>4 DEF AdmissionStates
    <3>2. HoldingsAreAdmitted'
      BY <1>1, <1>2, <1>3, <1>9, <1>10, <2>4, <3>1 DEF HoldingsAreAdmitted
    <3>3. CandidatesAreAccounted'
      BY <1>1, <1>2, <1>3, <1>5, <1>6, <1>8, <1>9, <1>10, <3>1 DEF CandidatesAreAccounted, ProbingAt
    <3> QED BY <1>1, <1>2, <1>3, <1>10, <2>1, <2>2, <2>4, <3>1, <3>2, <3>3, AdmissionMoves
  <2> QED BY <1>10, <2>3, <2>4
<1>11. CASE phase' = "release" /\ UNCHANGED cand /\ \E state \in {"held", "hollow"} : Q!Constructed(one, state)
  <2>1. PICK state \in {"held", "hollow"} : Q!Constructed(one, state)
    BY <1>11
  <2>2. /\ namespaces' \in [Q!Instances -> {"none", "held", "hollow", "drained"}]
        /\ \A i \in Q!Instances : namespaces'[i] = IF i = one THEN state ELSE namespaces[i]
        /\ admission' \in AdmissionStates /\ admission'.admitted = admission.admitted \cup {one}
        /\ admission'.instances = admission.instances \cup {one}
    BY <1>7, <2>1
  <2>3. phase' \notin Admitting /\ phase' # "ended"
    BY <1>11 DEF Admitting, ProbingAt
  <2>4. HoldingsAreAdmitted'
    BY <1>2, <1>6, <1>9, <2>2, <2>3 DEF HoldingsAreAdmitted
  <2> QED BY <1>1, <1>2, <1>3, <1>11, <2>2, <2>4, AdmissionFails
<1>12. CASE phase' = "release" /\ UNCHANGED <<namespaces, admission, cand>>
  <2>1. phase' \notin Admitting /\ phase' # "ended"
    BY <1>12 DEF Admitting, ProbingAt
  <2>2. HoldingsAreAdmitted'
    BY <1>2, <1>9, <1>12, <2>1 DEF HoldingsAreAdmitted
  <2> QED BY <1>1, <1>2, <1>3, <1>12, <2>2, AdmissionFails
<1> QED BY <1>10, <1>11, <1>12 DEF Q!NewProviderQualificationRegistry, one

LEMMA QualificationIsBegun == ASSUME QualificationInv, Q!BeginQualification PROVE QualificationInv'
<1>1. /\ phase = "construct" /\ ~(cand <= Len(Q!Members(Q!Family)))
      /\ UNCHANGED <<second, ctx, cand, namespaces, admission, breached, cause, owner, reclaimed, tries>>
  <2>1. phase = "construct" /\ cand > Len(Q!Members(Q!Family)) /\ UNCHANGED <<second, ctx, cand, namespaces, admission, breached, cause, owner, reclaimed, tries>>
    BY DEF Q!BeginQualification, Q!Delivery
  <2>2. group \in {1, 2} /\ second \in {"agy", "zcode", "zcode_old"} /\ cand \in 1 .. 3
    BY <2>1 DEF QualificationInv, QualificationTypes, QualificationControl
  <2>3. Len(Q!Members(Q!Family)) \in {1, 2}
    BY <2>2, GroupIsNow
  <2> QED BY <2>1, <2>2, <2>3
<1>2. /\ QualificationTypes /\ HoldingsAreAdmitted /\ CandidatesAreAccounted /\ second \in {"agy", "zcode", "zcode_old"}
      /\ group \in {1, 2} /\ cand \in 1 .. 3 /\ admission \in AdmissionStates /\ namespaces \in [Q!Instances -> {"none", "held", "hollow", "drained"}]
      /\ fixtures \in Seq({"open", "drained", "lost"}) /\ probe \in ProbeStates(probe.attempts, probe.failure, probe.version)
  BY <1>1 DEF QualificationInv, QualificationTypes, QualificationControl
<1>3. Decisive = {} /\ AllDrained /\ phase \in Admitting /\ owner = "none"
  BY <1>1, AdmissionIsAt
<1>4. Visited = GroupNow /\ Q!Group = GroupNow
  <2>1. Len(Q!Members(Q!Family)) = Width /\ Width \in {1, 2} /\ Q!Group = GroupNow
    BY <1>2, GroupIsNow
  <2>2. cand # 1 /\ cand > Width
    BY <1>1, <1>2, <2>1
  <2> QED BY <2>1, <2>2 DEF Visited
<1>5. /\ GroupNow \subseteq FirstGroup \cup SecondGroup /\ FirstGroup' = FirstGroup /\ SecondGroup' = SecondGroup
      /\ PastGroups \cap GroupNow = {}
      /\ (group' = group => PastGroups' = PastGroups /\ GroupNow' = GroupNow)
      /\ (group' = group + 1 => PastGroups' = PastGroups \cup GroupNow /\ group' \in {2, 3} /\ GroupNow' = IF group = 1 THEN SecondGroup ELSE {})
  BY <1>1, <1>2, GroupsStay
<1>6. Q!Kept = admission.admitted \cap GroupNow
  BY <1>4 DEF Q!Kept
<1>7. CASE Q!Kept = {} /\ phase' = "group" /\ group' = group + 1 /\ UNCHANGED <<fixtures, probe>>
  <2>1. HoldingsAreAdmitted'
    BY <1>1, <1>2, <1>3, <1>5, <1>7 DEF HoldingsAreAdmitted
  <2>2. CandidatesAreAccounted'
    <3>1. GroupNow \subseteq admission.failures /\ GroupNow' \cap (admission.instances \cup admission.failures) = {}
      BY <1>1, <1>2, <1>3, <1>4, <1>5, <1>6, <1>7 DEF CandidatesAreAccounted, HoldingsAreAdmitted
    <3> QED BY <1>1, <1>2, <1>3, <1>5, <1>7, <3>1 DEF CandidatesAreAccounted, ProbingAt
  <2>3. QualificationControl'
    BY <1>5, <1>7 DEF QualificationControl, ProbingAt, Admitting
  <2>4. AllDrained' /\ phase' \in Admitting /\ group' \in 1 .. 3
    BY <1>3, <1>5, <1>7 DEF AllDrained, Admitting
  <2> QED BY <1>1, <1>2, <1>3, <1>7, <2>1, <2>2, <2>3, <2>4, AdmissionMoves
<1>8. CASE phase' = "acquire" /\ fixtures' = <<>> /\ probe' = [Q!NoProbe EXCEPT !.masked = probe.masked] /\ UNCHANGED group
  <2>1. HoldingsAreAdmitted'
    BY <1>1, <1>2, <1>3, <1>5, <1>8 DEF HoldingsAreAdmitted
  <2>2. CandidatesAreAccounted'
    BY <1>1, <1>2, <1>3, <1>4, <1>5, <1>8 DEF CandidatesAreAccounted, HoldingsAreAdmitted, ProbingAt
  <2>3. QualificationControl'
    BY <1>2, <1>8 DEF QualificationControl, ProbingAt, Admitting
  <2>4. probe' \in ProbeStates(probe'.attempts, probe'.failure, probe'.version) /\ probe'.masked = probe.masked
    BY <1>2, <1>8 DEF Q!NoProbe, ProbeStates
  <2>5. fixtures' \in Seq({"open", "drained", "lost"}) /\ phase' \in Admitting /\ group' \in 1 .. 3
    BY <1>2, <1>8 DEF Admitting, ProbingAt
  <2> QED BY <1>1, <1>2, <1>3, <1>8, <2>1, <2>2, <2>3, <2>4, <2>5, AdmissionMoves
<1> QED BY <1>7, <1>8 DEF Q!BeginQualification

\* Registries released while the groups are admitted: what is no longer admitted is drained.
LEMMA ReleasesAreAdmitted ==
  ASSUME QualificationInv, NEW closing \in SUBSET admission.admitted, NEW more \in SUBSET Q!Instances,
         Q!release(closing, [admission EXCEPT !.failures = @ \cup more]), UNCHANGED second
  PROVE  \E freed \in SUBSET closing :
           /\ namespaces' \in [Q!Instances -> {"none", "held", "hollow", "drained"}]
           /\ \A i \in Q!Instances : namespaces'[i] = IF i \in freed THEN "drained" ELSE namespaces[i]
           /\ admission' \in AdmissionStates
           /\ admission'.admitted = admission.admitted \ freed /\ admission'.instances = admission.instances
           /\ admission'.routes = admission.routes /\ admission'.failures = admission.failures \cup more
           /\ phase' # "ended" /\ (phase' \in Admitting => phase \in Admitting) => HoldingsAreAdmitted'
<1>1. /\ second \in {"agy", "zcode", "zcode_old"} /\ namespaces \in [Q!Instances -> {"none", "held", "hollow", "drained"}]
      /\ admission \in AdmissionStates /\ group \in 1 .. 3 /\ HoldingsAreAdmitted
  BY DEF QualificationInv, QualificationTypes
<1>2. Q!Candidates = FirstGroup \cup SecondGroup /\ FirstGroup' = FirstGroup /\ SecondGroup' = SecondGroup
  BY <1>1, GroupsArePairs, GroupsStay DEF FirstGroup, SecondGroup, Codex
<1> DEFINE after == [admission EXCEPT !.failures = @ \cup more]
<1>3. /\ after \in AdmissionStates /\ after.admitted = admission.admitted /\ after.instances = admission.instances
      /\ after.routes = admission.routes /\ after.failures = admission.failures \cup more
  BY <1>1 DEF AdmissionStates
<1>4. Q!release(closing, after) /\ closing \in SUBSET Q!Candidates
  BY <1>1, <1>2 DEF HoldingsAreAdmitted
<1> HIDE DEF after
<1>5. PICK freed \in SUBSET closing :
           /\ namespaces' \in [Q!Instances -> {"none", "held", "hollow", "drained"}]
           /\ \A i \in Q!Instances : namespaces'[i] = IF i \in freed THEN "drained" ELSE namespaces[i]
           /\ admission' \in AdmissionStates
           /\ admission'.admitted = after.admitted \ freed /\ admission'.instances = after.instances
           /\ admission'.routes = after.routes /\ admission'.failures = after.failures
  BY <1>1, <1>3, <1>4, GroupIsReleased
<1>6. ASSUME phase' # "ended", phase' \in Admitting => phase \in Admitting PROVE HoldingsAreAdmitted'
  <2>1. admission'.admitted \subseteq admission'.instances /\ admission'.instances \subseteq FirstGroup' \cup SecondGroup'
    BY <1>1, <1>2, <1>3, <1>5 DEF HoldingsAreAdmitted
  <2>2. \A i \in Q!Instances : i \in admission'.instances <=> namespaces'[i] # "none"
    BY <1>1, <1>3, <1>5 DEF HoldingsAreAdmitted
  <2>3. \A i \in Q!Instances : namespaces'[i] \in {"held", "hollow"} => i \in admission'.admitted
    BY <1>1, <1>3, <1>5 DEF HoldingsAreAdmitted
  <2>4. phase' \in Admitting => \A i \in admission'.admitted : namespaces'[i] = "held"
    <3>1. phase' \in Admitting => \A i \in admission.admitted : namespaces[i] = "held" /\ i \in Q!Instances
      BY <1>1, <1>6 DEF HoldingsAreAdmitted, AdmissionStates
    <3> QED BY <1>3, <1>5, <3>1
  <2> QED BY <1>6, <2>1, <2>2, <2>3, <2>4 DEF HoldingsAreAdmitted
<1> QED BY <1>3, <1>5, <1>6

\* The group is admitted after its probe, skipped, or its failure ends the qualification.
LEMMA GroupIsDecided == ASSUME QualificationInv, Q!Admit PROVE QualificationInv'
<1>1. phase = "admit" /\ UNCHANGED <<second, ctx, fixtures, probe, breached, owner, reclaimed, tries>>
  BY DEF Q!Admit, Q!Probing, Q!Delivery
<1>2. /\ QualificationTypes /\ HoldingsAreAdmitted /\ CandidatesAreAccounted /\ second \in {"agy", "zcode", "zcode_old"}
      /\ group \in {1, 2} /\ cand \in 1 .. 3 /\ admission \in AdmissionStates /\ namespaces \in [Q!Instances -> {"none", "held", "hollow", "drained"}]
      /\ fixtures \in Seq({"open", "drained", "lost"}) /\ probe \in ProbeStates(probe.attempts, probe.failure, probe.version)
      /\ owner = "none" /\ phase \in Admitting
  BY <1>1 DEF QualificationInv, QualificationTypes, QualificationControl, OwnersAreGiven, ProbingAt, Admitting
<1>3. /\ Decisive # {} => probe.failure \in {"security", "artifact", "internal"} /\ Decisive \cap admission.failures = {}
      /\ probe.failure \notin {"internal", "login"} => AllDrained
  BY <1>1 DEF QualificationInv, BreachesDecide, ProbesDrain
<1>4. /\ GroupNow \subseteq FirstGroup \cup SecondGroup /\ FirstGroup' = FirstGroup /\ SecondGroup' = SecondGroup
      /\ PastGroups \cap GroupNow = {} /\ FirstGroup \cap SecondGroup = {} /\ (group = 1 => GroupNow = FirstGroup)
      /\ (group' = group => PastGroups' = PastGroups /\ GroupNow' = GroupNow)
      /\ (group' = group + 1 => PastGroups' = PastGroups \cup GroupNow /\ group' \in {2, 3} /\ GroupNow' = IF group = 1 THEN SecondGroup ELSE {})
      /\ (cand' = 1 => Visited' = {})
      /\ FirstGroup \cup SecondGroup \subseteq Q!Instances
  BY <1>1, <1>2, GroupsStay, GroupsArePairs DEF GroupNow
<1>5. Q!Kept = admission.admitted \cap GroupNow
  BY <1>2, GroupIsNow DEF Q!Kept
<1>6. /\ GroupNow \subseteq admission.failures \cup admission.admitted /\ GroupNow \cap admission.failures \cap admission.admitted = {}
      /\ admission.routes \subseteq admission.admitted /\ admission.routes \subseteq PastGroups
      /\ admission.routes \cap admission.failures = {} /\ PastGroups \subseteq admission.routes \cup admission.failures
      /\ admission.failures \subseteq FirstGroup \cup SecondGroup
      /\ (group = 1 => SecondGroup \cap (admission.instances \cup admission.failures) = {})
  BY <1>1, <1>2 DEF CandidatesAreAccounted, ProbingAt
<1>7. CASE probe.failure = "ok" /\ phase' = "route" /\ cand' = 1 /\ UNCHANGED <<namespaces, admission, cause, group>>
  <2>1. HoldingsAreAdmitted'
    BY <1>2, <1>4, <1>7 DEF HoldingsAreAdmitted
  <2>2. CandidatesAreAccounted'
    BY <1>2, <1>4, <1>6, <1>7 DEF CandidatesAreAccounted, ProbingAt
  <2>3. QualificationControl'
    <3>1. Width' \in {1, 2}
      BY DEF Width
    <3>2. \A w \in {1, 2} : 1 <= w + 1
      OBVIOUS
    <3>3. cand' <= Width' + 1
      BY <1>7, <3>1, <3>2, Zenon
    <3>4. /\ phase' = "route" /\ group' \in {1, 2} /\ phase' \notin {"assemble", "undo", "running", "profile"} /\ phase' \in Admitting
      BY <1>2, <1>7 DEF Admitting
    <3> QED BY <3>3, <3>4 DEF QualificationControl
  <2>4. Decisive = {} /\ AllDrained' /\ phase' \in Admitting
    BY <1>1, <1>3, <1>7 DEF AllDrained, Admitting
  <2> QED BY <1>1, <1>2, <1>7, <2>1, <2>2, <2>3, <2>4, AdmissionMoves
<1>8. CASE /\ probe.failure \in Q!Unavailable /\ phase' = "group" /\ group' = group + 1 /\ UNCHANGED <<cause, cand>>
           /\ Q!release(Q!Kept, [admission EXCEPT !.failures = @ \cup Q!Kept])
  <2>1. phase' \in Admitting /\ phase' # "ended" /\ Q!Kept \in SUBSET admission.admitted /\ Q!Kept \in SUBSET Q!Instances
    BY <1>4, <1>5, <1>8 DEF Admitting
  <2>2. PICK freed \in SUBSET Q!Kept :
           /\ namespaces' \in [Q!Instances -> {"none", "held", "hollow", "drained"}]
           /\ \A i \in Q!Instances : namespaces'[i] = IF i \in freed THEN "drained" ELSE namespaces[i]
           /\ admission' \in AdmissionStates
           /\ admission'.admitted = admission.admitted \ freed /\ admission'.instances = admission.instances
           /\ admission'.routes = admission.routes /\ admission'.failures = admission.failures \cup Q!Kept
           /\ phase' # "ended" /\ (phase' \in Admitting => phase \in Admitting) => HoldingsAreAdmitted'
    <3>1. Q!release(Q!Kept, [admission EXCEPT !.failures = @ \cup Q!Kept]) /\ UNCHANGED second
      BY <1>1, <1>8
    <3> QED BY <2>1, <3>1, ReleasesAreAdmitted
  <2>3. HoldingsAreAdmitted'
    BY <1>2, <2>1, <2>2
  <2>4. CandidatesAreAccounted'
    <3>1. /\ admission'.failures \subseteq FirstGroup' \cup SecondGroup' /\ PastGroups' \subseteq admission'.routes \cup admission'.failures
          /\ admission'.routes \subseteq admission'.admitted /\ admission'.routes \cap admission'.failures = {}
          /\ admission'.routes \subseteq PastGroups'
      BY <1>4, <1>5, <1>6, <1>8, <2>2
    <3>2. GroupNow' \cap (admission'.instances \cup admission'.failures) = {}
      BY <1>4, <1>5, <1>6, <1>8, <2>2
    <3> QED BY <1>2, <1>4, <1>8, <3>1, <3>2 DEF CandidatesAreAccounted, ProbingAt
  <2>5. QualificationControl'
    BY <1>8 DEF QualificationControl, ProbingAt, Admitting
  <2>6. Decisive = {} /\ AllDrained' /\ group' \in 1 .. 3
    BY <1>1, <1>3, <1>4, <1>8 DEF AllDrained, Q!Unavailable, Q!Retryable
  <2> QED BY <1>1, <1>2, <1>8, <2>1, <2>2, <2>3, <2>4, <2>5, <2>6, AdmissionMoves
<1>9. CASE phase' = "close" /\ UNCHANGED <<namespaces, admission, cand, group>>
  <2>1. phase' \notin Admitting /\ phase' # "ended"
    BY <1>9 DEF Admitting, ProbingAt
  <2>2. HoldingsAreAdmitted'
    BY <1>2, <1>4, <1>9, <2>1 DEF HoldingsAreAdmitted
  <2>3. BreachesDecide'
    BY <1>1, <1>3, <1>9 DEF BreachesDecide, Decisive
  <2> QED BY <1>1, <1>2, <1>9, <2>2, <2>3, AdmissionFails
<1> QED BY <1>7, <1>8, <1>9 DEF Q!Admit

\* One candidate's route: kept, dropped, or the end of the qualification.
LEMMA RouteIsAdmitted == ASSUME QualificationInv, Q!AdmitRoute PROVE QualificationInv'
<1>1. /\ phase = "route" /\ cand <= Len(Q!Members(Q!Family))
      /\ UNCHANGED <<second, ctx, group, fixtures, probe, breached, owner, reclaimed, tries>>
  BY DEF Q!AdmitRoute, Q!Probing, Q!Delivery
<1>2. /\ QualificationTypes /\ HoldingsAreAdmitted /\ CandidatesAreAccounted /\ second \in {"agy", "zcode", "zcode_old"}
      /\ group \in {1, 2} /\ cand \in 1 .. 3 /\ admission \in AdmissionStates /\ namespaces \in [Q!Instances -> {"none", "held", "hollow", "drained"}]
      /\ fixtures \in Seq({"open", "drained", "lost"}) /\ probe \in ProbeStates(probe.attempts, probe.failure, probe.version)
  BY <1>1 DEF QualificationInv, QualificationTypes, QualificationControl
<1>3. Decisive = {} /\ AllDrained /\ AllDrained' /\ phase \in Admitting /\ owner = "none"
  BY <1>1, AdmissionIsAt DEF AllDrained
<1> DEFINE one == Q!Candidate
<1>4. /\ Width \in {1, 2} /\ cand \in 1 .. Width /\ one \in GroupNow \ Visited
  BY <1>1, <1>2, GroupIsNow
<1>5. /\ GroupNow \subseteq FirstGroup \cup SecondGroup /\ FirstGroup \cup SecondGroup \subseteq Q!Instances
      /\ FirstGroup' = FirstGroup /\ SecondGroup' = SecondGroup /\ PastGroups' = PastGroups /\ GroupNow' = GroupNow /\ Width' = Width
      /\ PastGroups \cap GroupNow = {} /\ FirstGroup \cap SecondGroup = {} /\ (group = 1 => GroupNow = FirstGroup)
      /\ (cand' = cand + 1 => Visited' = Visited \cup {one})
  BY <1>1, <1>2, <1>4, GroupsStay, GroupsArePairs DEF GroupNow
<1>6. one \in Q!Instances
  BY <1>4, <1>5
<1> HIDE DEF one
<1>7. /\ GroupNow \subseteq admission.failures \cup admission.admitted /\ Visited \subseteq admission.routes \cup admission.failures
      /\ (GroupNow \ Visited) \cap admission.failures \cap admission.admitted = {}
      /\ admission.routes \subseteq admission.admitted /\ admission.routes \subseteq PastGroups \cup Visited
      /\ admission.routes \cap admission.failures = {} /\ PastGroups \subseteq admission.routes \cup admission.failures
      /\ admission.failures \subseteq FirstGroup \cup SecondGroup
      /\ (group = 1 => SecondGroup \cap (admission.instances \cup admission.failures) = {})
  BY <1>1, <1>2, <1>3 DEF CandidatesAreAccounted
<1>8. cand' = cand + 1 /\ UNCHANGED phase => cand' \in 1 .. 3 /\ QualificationControl' /\ phase' \in Admitting /\ phase' # "ended"
  <2>1. SUFFICES ASSUME cand' = cand + 1, UNCHANGED phase PROVE cand' \in 1 .. 3 /\ QualificationControl' /\ phase' \in Admitting /\ phase' # "ended"
    OBVIOUS
  <2>2. cand' \in 1 .. Width + 1 /\ cand' \in 1 .. 3
    BY <1>4, <2>1
  <2>3. phase' = "route" /\ group' \in {1, 2} /\ phase' \notin {"assemble", "undo", "running", "profile"} /\ phase' \in Admitting
    BY <1>1, <1>2, <2>1 DEF Admitting
  <2>4. cand' <= Width' + 1
    BY <1>5, <2>2
  <2> QED BY <2>2, <2>3, <2>4 DEF QualificationControl
<1>9. CASE one \notin admission.admitted /\ cand' = cand + 1 /\ UNCHANGED <<phase, namespaces, admission>>
  <2>1. HoldingsAreAdmitted'
    BY <1>2, <1>5, <1>9 DEF HoldingsAreAdmitted
  <2>2. CandidatesAreAccounted'
    BY <1>1, <1>4, <1>5, <1>7, <1>9 DEF CandidatesAreAccounted, ProbingAt
  <2> QED BY <1>1, <1>2, <1>3, <1>8, <1>9, <2>1, <2>2, AdmissionMoves
<1>10. CASE /\ one \in admission.admitted /\ cand' = cand + 1 /\ UNCHANGED phase
            /\ Q!release({one}, [admission EXCEPT !.failures = @ \cup {one}])
  <2>1. {one} \in SUBSET admission.admitted /\ {one} \in SUBSET Q!Instances
    BY <1>6, <1>10
  <2>2. PICK freed \in SUBSET {one} :
           /\ namespaces' \in [Q!Instances -> {"none", "held", "hollow", "drained"}]
           /\ \A i \in Q!Instances : namespaces'[i] = IF i \in freed THEN "drained" ELSE namespaces[i]
           /\ admission' \in AdmissionStates
           /\ admission'.admitted = admission.admitted \ freed /\ admission'.instances = admission.instances
           /\ admission'.routes = admission.routes /\ admission'.failures = admission.failures \cup {one}
           /\ phase' # "ended" /\ (phase' \in Admitting => phase \in Admitting) => HoldingsAreAdmitted'
    BY <1>1, <1>10, <2>1, ReleasesAreAdmitted
  <2>3. HoldingsAreAdmitted'
    BY <1>3, <1>8, <1>10, <2>2
  <2>4. one \notin admission.routes
    BY <1>4, <1>5, <1>7
  <2>5. CandidatesAreAccounted'
    <3>1. /\ admission'.failures \subseteq FirstGroup' \cup SecondGroup' /\ PastGroups' \subseteq admission'.routes \cup admission'.failures
          /\ admission'.routes \subseteq admission'.admitted /\ admission'.routes \cap admission'.failures = {}
          /\ admission'.routes \subseteq PastGroups' \cup Visited'
      BY <1>4, <1>5, <1>7, <1>10, <2>2, <2>4
    <3>2. group' = 1 => SecondGroup' \cap (admission'.instances \cup admission'.failures) = {}
      BY <1>1, <1>4, <1>5, <1>7, <2>2
    <3>3. /\ GroupNow' \subseteq admission'.failures \cup admission'.admitted /\ Visited' \subseteq admission'.routes \cup admission'.failures
          /\ (GroupNow' \ Visited') \cap admission'.failures \cap admission'.admitted = {}
      BY <1>4, <1>5, <1>7, <1>10, <2>2
    <3> QED BY <1>1, <1>10, <3>1, <3>2, <3>3 DEF CandidatesAreAccounted, ProbingAt
  <2> QED BY <1>1, <1>2, <1>3, <1>8, <1>10, <2>2, <2>3, <2>5, AdmissionMoves
<1>11. CASE /\ one \in admission.admitted /\ admission' = [admission EXCEPT !.routes = @ \cup {one}]
            /\ cand' = cand + 1 /\ UNCHANGED <<phase, namespaces>>
  <2>1. /\ admission' \in AdmissionStates /\ admission'.admitted = admission.admitted /\ admission'.instances = admission.instances
        /\ admission'.routes = admission.routes \cup {one} /\ admission'.failures = admission.failures
    BY <1>2, <1>6, <1>11 DEF AdmissionStates
  <2>2. HoldingsAreAdmitted'
    BY <1>2, <1>5, <1>11, <2>1 DEF HoldingsAreAdmitted
  <2>3. one \notin admission.failures
    BY <1>4, <1>7, <1>11
  <2>4. CandidatesAreAccounted'
    BY <1>1, <1>4, <1>5, <1>7, <1>11, <2>1, <2>3 DEF CandidatesAreAccounted, ProbingAt
  <2> QED BY <1>1, <1>2, <1>3, <1>8, <1>11, <2>1, <2>2, <2>4, AdmissionMoves
<1>12. CASE phase' = "release" /\ UNCHANGED <<namespaces, admission, cand>>
  <2>1. phase' \notin Admitting /\ phase' # "ended"
    BY <1>12 DEF Admitting, ProbingAt
  <2>2. HoldingsAreAdmitted'
    BY <1>2, <1>5, <1>12, <2>1 DEF HoldingsAreAdmitted
  <2> QED BY <1>1, <1>2, <1>3, <1>12, <2>2, AdmissionFails
<1> QED BY <1>9, <1>10, <1>11, <1>12 DEF Q!AdmitRoute, one

LEMMA GroupIsRouted == ASSUME QualificationInv, Q!NextGroup PROVE QualificationInv'
<1>1. /\ phase = "route" /\ phase' = "group" /\ group' = group + 1 /\ cand > Len(Q!Members(Q!Family))
      /\ UNCHANGED <<second, ctx, cand, namespaces, admission, fixtures, probe, breached, cause, owner, reclaimed, tries>>
  BY DEF Q!NextGroup, Q!Probing, Q!Delivery
<1>2. /\ QualificationTypes /\ HoldingsAreAdmitted /\ CandidatesAreAccounted /\ second \in {"agy", "zcode", "zcode_old"}
      /\ group \in {1, 2} /\ cand \in 1 .. 3 /\ admission \in AdmissionStates /\ namespaces \in [Q!Instances -> {"none", "held", "hollow", "drained"}]
      /\ fixtures \in Seq({"open", "drained", "lost"}) /\ probe \in ProbeStates(probe.attempts, probe.failure, probe.version)
  BY <1>1 DEF QualificationInv, QualificationTypes, QualificationControl
<1>3. Decisive = {} /\ AllDrained /\ AllDrained' /\ phase \in Admitting
  BY <1>1, AdmissionIsAt DEF AllDrained
<1>4. Visited = GroupNow
  <2>1. Len(Q!Members(Q!Family)) = Width /\ Width \in {1, 2}
    BY <1>2, GroupIsNow
  <2>2. cand # 1 /\ cand > Width
    BY <1>1, <1>2, <2>1
  <2> QED BY <2>2 DEF Visited
<1>5. /\ FirstGroup' = FirstGroup /\ SecondGroup' = SecondGroup /\ PastGroups \cap GroupNow = {} /\ FirstGroup \cap SecondGroup = {}
      /\ PastGroups' = PastGroups \cup GroupNow /\ group' \in {2, 3} /\ GroupNow' = IF group = 1 THEN SecondGroup ELSE {}
  BY <1>1, <1>2, GroupsStay, GroupsArePairs
<1>6. HoldingsAreAdmitted'
  BY <1>1, <1>2, <1>3, <1>5 DEF HoldingsAreAdmitted
<1>7. CandidatesAreAccounted'
  BY <1>1, <1>2, <1>3, <1>4, <1>5 DEF CandidatesAreAccounted, ProbingAt
<1>8. QualificationControl' /\ phase' \in Admitting /\ group' \in 1 .. 3
  BY <1>1, <1>5 DEF QualificationControl, ProbingAt, Admitting
<1> QED BY <1>1, <1>2, <1>3, <1>6, <1>7, <1>8, AdmissionMoves

LEMMA AllAreReleased == ASSUME QualificationInv, Q!ReleaseAll PROVE QualificationInv'
<1>1. /\ phase = "release" /\ phase' = "close" /\ Q!release(Q!Kept, admission)
      /\ UNCHANGED <<second, ctx, group, cand, fixtures, probe, breached, cause, owner, reclaimed, tries>>
  BY DEF Q!ReleaseAll, Q!Probing, Q!Delivery
<1>2. /\ HoldingsAreAdmitted /\ cand \in 1 .. 3 /\ admission \in AdmissionStates
  BY DEF QualificationInv, QualificationTypes
<1>3. Decisive = {} /\ owner = "none"
  BY <1>1, AdmissionIsAt
<1>4. admission = [admission EXCEPT !.failures = @ \cup {}]
  BY <1>2 DEF AdmissionStates
<1>5. Q!Kept \in SUBSET admission.admitted /\ {} \in SUBSET Q!Instances
  BY DEF Q!Kept
<1>6. Q!release(Q!Kept, [admission EXCEPT !.failures = @ \cup {}]) /\ UNCHANGED second
  BY <1>1, <1>4
<1>7. /\ namespaces' \in [Q!Instances -> {"none", "held", "hollow", "drained"}] /\ admission' \in AdmissionStates
      /\ phase' # "ended" /\ (phase' \in Admitting => phase \in Admitting) => HoldingsAreAdmitted'
  BY <1>5, <1>6, ReleasesAreAdmitted
<1>8. HoldingsAreAdmitted'
  BY <1>1, <1>7 DEF Admitting, ProbingAt
<1> QED BY <1>1, <1>2, <1>3, <1>7, <1>8, AdmissionFails

\* What the admissions leave is a run, or an error that has still to close them.
LEMMA RunIsAssembled == ASSUME QualificationInv, Q!Assemble PROVE QualificationInv'
<1>1. /\ phase = "assemble" /\ UNCHANGED <<second, ctx, group, cand, namespaces, admission, fixtures, probe, breached, reclaimed, tries>>
  BY DEF Q!Assemble, Q!Probing
<1>2. /\ QualificationTypes /\ HoldingsAreAdmitted /\ CandidatesAreAccounted /\ group = 3 /\ cand \in 1 .. 3
      /\ admission \in AdmissionStates /\ namespaces \in [Q!Instances -> {"none", "held", "hollow", "drained"}]
  BY <1>1 DEF QualificationInv, QualificationTypes, QualificationControl, ProbingAt
<1>3. Decisive = {} /\ AllDrained /\ AllDrained' /\ phase \in Admitting /\ owner = "none"
  BY <1>1, AdmissionIsAt DEF AllDrained
<1>4. PastGroups = FirstGroup \cup SecondGroup /\ FirstGroup' = FirstGroup /\ SecondGroup' = SecondGroup
  BY <1>1, <1>2, GroupsStay
<1>5. phase' \notin Admitting /\ phase' # "ended" => HoldingsAreAdmitted'
  BY <1>1, <1>2, <1>4 DEF HoldingsAreAdmitted
<1>6. CASE phase' = "close" /\ UNCHANGED owner
  <2>1. HoldingsAreAdmitted'
    BY <1>5, <1>6 DEF Admitting, ProbingAt
  <2> QED BY <1>1, <1>2, <1>3, <1>6, <2>1, AdmissionFails
<1>7. CASE (phase' = "running" /\ owner' = "run" /\ UNCHANGED cause) \/ (phase' = "undo" /\ cause' = "planner" /\ UNCHANGED owner)
  <2>1. phase' \notin Admitting /\ phase' \in {"running", "undo"} /\ phase' # "ended"
    BY <1>7 DEF Admitting, ProbingAt
  <2>2. QualificationTypes'
    BY <1>1, <1>2 DEF QualificationTypes
  <2>3. QualificationControl' /\ OwnersAreGiven'
    BY <1>1, <1>2, <1>3, <1>7 DEF QualificationControl, OwnersAreGiven, ProbingAt
  <2>4. CandidatesAreAccounted' /\ HoldingsAreAdmitted'
    BY <1>5, <2>1 DEF CandidatesAreAccounted
  <2>5. RunsAreAccounted'
    BY <1>1, <1>2, <1>3, <1>4 DEF RunsAreAccounted, CandidatesAreAccounted, HoldingsAreAdmitted
  <2>6. Decisive' = {}
    BY <1>1, <1>3 DEF Decisive
  <2>7. BreachesDecide' /\ ProbesDrain'
    BY <1>3, <2>1, <2>6 DEF BreachesDecide, ProbesDrain
  <2> QED BY <2>2, <2>3, <2>4, <2>5, <2>7 DEF QualificationInv
<1> QED BY <1>6, <1>7 DEF Q!Assemble

\* A close of what is held, by the error path or by the owner: what is closed is
\* held by nobody, and a close that is done leaves nothing held.
LEMMA ClosesAreOwned ==
  ASSUME QualificationInv, phase \in {"close", "undo", "running", "owned"},
         NEW instances \in SUBSET Q!Instances, instances = admission.admitted \/ instances = admission.instances,
         NEW alive \in BOOLEAN, NEW done \in BOOLEAN, Q!CompositeClose(instances, alive, done), UNCHANGED <<second, admission>>
  PROVE  /\ namespaces' \in [Q!Instances -> {"none", "held", "hollow", "drained"}]
         /\ \A i \in Q!Instances : namespaces'[i] = namespaces[i] \/ (i \in Q!Candidates /\ namespaces'[i] = "drained")
         /\ phase' \notin Admitting /\ (phase' = "ended" => done \/ admission.admitted = {}) => HoldingsAreAdmitted'
<1>1. /\ second \in {"agy", "zcode", "zcode_old"} /\ namespaces \in [Q!Instances -> {"none", "held", "hollow", "drained"}]
      /\ HoldingsAreAdmitted /\ admission \in AdmissionStates
  BY DEF QualificationInv, QualificationTypes
<1>2. Q!Candidates = FirstGroup \cup SecondGroup /\ FirstGroup' = FirstGroup /\ SecondGroup' = SecondGroup
  BY <1>1, GroupsArePairs DEF FirstGroup, SecondGroup, Codex
<1>3. instances \in SUBSET Q!Candidates /\ admission.admitted \subseteq instances /\ instances \subseteq admission.instances
  BY <1>1, <1>2 DEF HoldingsAreAdmitted
<1>4. /\ namespaces' \in [Q!Instances -> {"none", "held", "hollow", "drained"}]
      /\ \A i \in Q!Instances : namespaces'[i] = namespaces[i] \/ (i \in instances /\ namespaces'[i] = "drained")
      /\ done => \A i \in instances : namespaces'[i] = "drained"
  BY <1>1, <1>3, CompositeCloses
<1>5. ASSUME phase' \notin Admitting, phase' = "ended" => done \/ admission.admitted = {} PROVE HoldingsAreAdmitted'
  <2>1. \A i \in Q!Instances : i \in admission.instances <=> namespaces'[i] # "none"
    BY <1>1, <1>3, <1>4 DEF HoldingsAreAdmitted
  <2>2. \A i \in Q!Instances : namespaces'[i] \in {"held", "hollow"} => i \in admission.admitted
    BY <1>1, <1>4 DEF HoldingsAreAdmitted
  <2>3. phase' = "ended" => \A i \in Q!Instances : namespaces'[i] \notin {"held", "hollow"}
    BY <1>3, <1>4, <1>5, <2>2
  <2> QED BY <1>1, <1>2, <1>5, <2>1, <2>2, <2>3 DEF HoldingsAreAdmitted
<1> QED BY <1>3, <1>4, <1>5

\* A close or a drain: only the namespaces, the owner and the place of the call change.
LEMMA OwnershipMoves ==
  ASSUME QualificationInv, phase \in {"close", "undo", "running", "owned"}, phase' \in {"close", "undo", "running", "owned", "ended"},
         UNCHANGED <<second, ctx, group, cand, admission, fixtures, probe, breached>>,
         phase' \in {"undo", "running"} => phase \in {"undo", "running"} /\ (phase' = "running" => phase = "running" \/ cause' = "planner"),
         phase' = "undo" => cause' = "planner",
         namespaces' \in [Q!Instances -> {"none", "held", "hollow", "drained"}], reclaimed' \in SUBSET Q!Instances,
         owner' = IF phase' = "running" THEN "run" ELSE IF phase' = "owned" THEN "retained" ELSE IF phase' = "ended" THEN "receipt" ELSE "none",
         phase' = "running" /\ cause' # "planner" => \A i \in admission.routes : namespaces'[i] = "held" \/ (namespaces'[i] = "drained" /\ i \in reclaimed'),
         HoldingsAreAdmitted'
  PROVE  QualificationInv'
<1>1. QualificationTypes' /\ phase' \notin Admitting
  BY DEF QualificationInv, QualificationTypes, Admitting, ProbingAt
<1>2. FirstGroup' = FirstGroup /\ SecondGroup' = SecondGroup
  BY DEF FirstGroup, SecondGroup, Codex
<1>3. QualificationControl' /\ OwnersAreGiven' /\ CandidatesAreAccounted'
  BY <1>1 DEF QualificationInv, QualificationControl, OwnersAreGiven, CandidatesAreAccounted, ProbingAt
<1>4. RunsAreAccounted'
  BY <1>2 DEF QualificationInv, RunsAreAccounted
<1>5. BreachesDecide'
  <2>1. Decisive' = Decisive
    BY DEF Decisive
  <2>2. Decisive # {} => phase \in {"close", "owned"} /\ Decisive \cap admission.failures = {}
    BY DEF QualificationInv, BreachesDecide
  <2> QED BY <2>1, <2>2 DEF BreachesDecide
<1>6. ProbesDrain'
  <2>1. AllDrained' = AllDrained
    BY DEF AllDrained
  <2> QED BY <2>1 DEF QualificationInv, ProbesDrain
<1> QED BY <1>1, <1>3, <1>4, <1>5, <1>6 DEF QualificationInv

LEMMA AdmittedAreClosed == ASSUME QualificationInv, Q!CloseAdmitted PROVE QualificationInv'
<1>1. phase = "close" /\ UNCHANGED <<second, ctx, group, cand, admission, fixtures, probe, breached, cause, reclaimed>>
  BY DEF Q!CloseAdmitted, Q!Probing
<1>2. /\ HoldingsAreAdmitted /\ owner = "none" /\ reclaimed \subseteq Q!Instances /\ admission \in AdmissionStates
      /\ namespaces \in [Q!Instances -> {"none", "held", "hollow", "drained"}]
  BY <1>1 DEF QualificationInv, QualificationTypes, OwnersAreGiven
<1>3. CASE admission.admitted = {} /\ owner' = "receipt" /\ phase' = "ended" /\ UNCHANGED namespaces
  <2>1. FirstGroup' = FirstGroup /\ SecondGroup' = SecondGroup /\ phase' \notin Admitting
    BY <1>1, <1>3 DEF FirstGroup, SecondGroup, Codex, Admitting, ProbingAt
  <2>2. HoldingsAreAdmitted'
    BY <1>1, <1>2, <1>3, <2>1 DEF HoldingsAreAdmitted
  <2> QED BY <1>1, <1>2, <1>3, <2>2, OwnershipMoves
<1>4. ASSUME NEW done \in BOOLEAN, Q!CompositeClose(admission.instances, ctx, done),
             owner' = (IF done THEN "receipt" ELSE IF tries = 1 THEN "retained" ELSE owner),
             phase' = (IF done THEN "ended" ELSE IF tries = 1 THEN "owned" ELSE "close")
      PROVE  QualificationInv'
  <2>1. admission.instances \in SUBSET Q!Instances /\ ctx \in BOOLEAN /\ phase' \notin Admitting
    BY <1>2, <1>4 DEF AdmissionStates, QualificationInv, QualificationTypes, Admitting, ProbingAt
  <2>2. namespaces' \in [Q!Instances -> {"none", "held", "hollow", "drained"}] /\ HoldingsAreAdmitted'
    BY <1>1, <1>4, <2>1, ClosesAreOwned
  <2>3. /\ phase' \in {"close", "owned", "ended"}
        /\ owner' = IF phase' = "running" THEN "run" ELSE IF phase' = "owned" THEN "retained" ELSE IF phase' = "ended" THEN "receipt" ELSE "none"
    BY <1>2, <1>4
  <2> QED BY <1>1, <1>2, <2>2, <2>3, OwnershipMoves
<1> QED BY <1>3, <1>4 DEF Q!CloseAdmitted

LEMMA RunIsUndone == ASSUME QualificationInv, Q!UndoRun PROVE QualificationInv'
<1>1. phase = "undo" /\ UNCHANGED <<second, ctx, group, cand, admission, fixtures, probe, breached, cause, reclaimed>>
  BY DEF Q!UndoRun, Q!Probing
<1>2. /\ owner = "none" /\ cause = "planner" /\ reclaimed \subseteq Q!Instances /\ admission \in AdmissionStates /\ ctx \in BOOLEAN
  BY <1>1 DEF QualificationInv, QualificationTypes, QualificationControl, OwnersAreGiven
<1>3. PICK done \in BOOLEAN :
        /\ Q!CompositeClose(admission.admitted, ctx, done)
        /\ owner' = IF done /\ Q!Evidenced THEN "receipt" ELSE IF tries = 1 THEN "run" ELSE owner
        /\ phase' = IF done /\ Q!Evidenced THEN "ended" ELSE IF tries = 1 THEN "running" ELSE "undo"
  BY DEF Q!UndoRun
<1>4. admission.admitted \in SUBSET Q!Instances /\ phase' \notin Admitting
  BY <1>2, <1>3 DEF AdmissionStates, Admitting, ProbingAt
<1>5. namespaces' \in [Q!Instances -> {"none", "held", "hollow", "drained"}] /\ HoldingsAreAdmitted'
  <2>1. phase' = "ended" => done
    BY <1>3
  <2>2. Q!CompositeClose(admission.admitted, ctx, done) /\ UNCHANGED <<second, admission>>
    BY <1>1, <1>3
  <2> QED BY <1>1, <1>2, <1>4, <2>1, <2>2, ClosesAreOwned
<1>6. /\ phase' \in {"undo", "running", "ended"}
      /\ owner' = IF phase' = "running" THEN "run" ELSE IF phase' = "owned" THEN "retained" ELSE IF phase' = "ended" THEN "receipt" ELSE "none"
  BY <1>2, <1>3
<1> QED BY <1>1, <1>2, <1>5, <1>6, OwnershipMoves

LEMMA OwnedAreDrained == ASSUME QualificationInv, Q!DrainOwned PROVE QualificationInv'
<1>1. phase \in {"running", "owned"} /\ UNCHANGED <<second, ctx, group, cand, admission, fixtures, probe, breached, cause>>
  BY DEF Q!DrainOwned, Q!Probing
<1>2. /\ owner = (IF phase = "running" THEN "run" ELSE "retained") /\ admission \in AdmissionStates
      /\ second \in {"agy", "zcode", "zcode_old"} /\ namespaces \in [Q!Instances -> {"none", "held", "hollow", "drained"}]
  BY <1>1 DEF QualificationInv, QualificationTypes, OwnersAreGiven
<1> DEFINE closing == IF phase = "owned" THEN admission.instances ELSE admission.admitted
<1>3. PICK done \in BOOLEAN :
        /\ Q!CompositeClose(closing, TRUE, done)
        /\ reclaimed' = {i \in Q!Candidates : namespaces'[i] = "drained"}
        /\ IF done /\ (phase = "owned" \/ Q!Evidenced) THEN owner' = "receipt" /\ phase' = "ended" ELSE UNCHANGED <<owner, phase>>
  BY DEF Q!DrainOwned
<1>4. phase' \in {phase, "ended"} /\ phase' \notin Admitting /\ (phase' = "ended" => done)
      /\ owner' = IF phase' = "running" THEN "run" ELSE IF phase' = "owned" THEN "retained" ELSE IF phase' = "ended" THEN "receipt" ELSE "none"
  BY <1>1, <1>2, <1>3 DEF Admitting, ProbingAt
<1>5. closing \in SUBSET Q!Instances /\ (closing = admission.admitted \/ closing = admission.instances)
  BY <1>2 DEF AdmissionStates
<1>6. Q!CompositeClose(closing, TRUE, done) /\ reclaimed' = {i \in Q!Candidates : namespaces'[i] = "drained"}
  BY <1>3
<1> HIDE DEF closing
<1>7. /\ namespaces' \in [Q!Instances -> {"none", "held", "hollow", "drained"}] /\ HoldingsAreAdmitted'
      /\ \A i \in Q!Instances : namespaces'[i] = namespaces[i] \/ (i \in Q!Candidates /\ namespaces'[i] = "drained")
  BY <1>1, <1>4, <1>5, <1>6, ClosesAreOwned
<1>8. Q!Candidates = FirstGroup \cup SecondGroup /\ Q!Candidates \subseteq Q!Instances
  BY <1>2, GroupsArePairs
<1>9. phase' = "running" /\ cause' # "planner" => \A i \in admission.routes : namespaces'[i] = "held" \/ (namespaces'[i] = "drained" /\ i \in reclaimed')
  <2>1. SUFFICES ASSUME phase' = "running", cause' # "planner", NEW i \in admission.routes
                 PROVE  namespaces'[i] = "held" \/ (namespaces'[i] = "drained" /\ i \in reclaimed')
    OBVIOUS
  <2>2. phase = "running" /\ cause # "planner"
    BY <1>1, <1>4, <2>1
  <2>3. namespaces[i] \in {"held", "drained"} /\ i \in Q!Candidates
    BY <1>8, <2>1, <2>2 DEF QualificationInv, RunsAreAccounted
  <2> QED BY <1>6, <1>7, <1>8, <2>3
<1>10. reclaimed' \in SUBSET Q!Instances
  BY <1>6, <1>8
<1>11. /\ phase' \in {"undo", "running"} => phase \in {"undo", "running"} /\ (phase' = "running" => phase = "running" \/ cause' = "planner")
       /\ phase' # "undo" /\ phase' \in {"close", "undo", "running", "owned", "ended"} /\ phase \in {"close", "undo", "running", "owned"}
  BY <1>1, <1>4
<1> QED BY <1>1, <1>4, <1>7, <1>9, <1>10, <1>11, OwnershipMoves

\* The caller cancels, or nothing happens.
LEMMA QualificationRests ==
  ASSUME QualificationInv, ctx' \in BOOLEAN,
         UNCHANGED <<second, group, cand, phase, namespaces, admission, fixtures, probe, breached, cause, owner, reclaimed>>
  PROVE  QualificationInv'
<1>1. group \in 1 .. 3 /\ UNCHANGED second
  BY DEF QualificationInv, QualificationTypes
<1>2. /\ FirstGroup' = FirstGroup /\ SecondGroup' = SecondGroup /\ PastGroups' = PastGroups /\ GroupNow' = GroupNow /\ Width' = Width
      /\ Visited' = Visited
  BY <1>1, GroupsStay
<1>3. Decisive' = Decisive /\ AllDrained' = AllDrained
  BY DEF Decisive, AllDrained
<1>4. QualificationTypes' /\ QualificationControl' /\ OwnersAreGiven'
  BY <1>2 DEF QualificationInv, QualificationTypes, QualificationControl, OwnersAreGiven
<1>5. HoldingsAreAdmitted' /\ RunsAreAccounted'
  BY <1>2 DEF QualificationInv, HoldingsAreAdmitted, RunsAreAccounted
<1>6. CandidatesAreAccounted'
  BY <1>2 DEF QualificationInv, CandidatesAreAccounted
<1>7. BreachesDecide' /\ ProbesDrain'
  BY <1>3 DEF QualificationInv, BreachesDecide, ProbesDrain
<1> QED BY <1>4, <1>5, <1>6, <1>7 DEF QualificationInv

LEMMA QualificationSteps == QualificationInv /\ [Q!Next]_(Q!vars) => QualificationInv'
<1> SUFFICES ASSUME QualificationInv, [Q!Next]_(Q!vars) PROVE QualificationInv'
  OBVIOUS
<1>1. CASE Q!AdmitGroup \/ Q!NewProviderQualificationRegistry \/ Q!BeginQualification
  BY <1>1, GroupIsAdmitted, RegistryIsConstructed, QualificationIsBegun
<1>2. CASE Q!AcquireFixture \/ Q!ProbeVersion \/ Q!ProbeCapability \/ Q!FinishAgyInvocation
  BY <1>2, QualificationAcquires, ProbeIsLaunched, AgyInvocationFinishes
<1>3. CASE Q!ObserveQualificationProbe \/ Q!drainProbeFixtures
  BY <1>3, ProbeIsObserved, ProbeFixturesDrain
<1>4. CASE Q!Admit \/ Q!AdmitRoute \/ Q!NextGroup \/ Q!ReleaseAll
  BY <1>4, GroupIsDecided, RouteIsAdmitted, GroupIsRouted, AllAreReleased
<1>5. CASE Q!Assemble \/ Q!CloseAdmitted \/ Q!UndoRun \/ Q!DrainOwned
  BY <1>5, RunIsAssembled, AdmittedAreClosed, RunIsUndone, OwnedAreDrained
<1>6. CASE Q!Cancel
  <2>1. ctx' \in BOOLEAN /\ UNCHANGED <<second, group, cand, phase, namespaces, admission, fixtures, probe, breached, cause, owner, reclaimed>>
    BY <1>6 DEF Q!Cancel, Q!Probing, Q!Delivery
  <2> QED BY <2>1, QualificationRests
<1>7. CASE Q!Rest \/ UNCHANGED Q!vars
  <2>1. ctx' \in BOOLEAN /\ UNCHANGED <<second, group, cand, phase, namespaces, admission, fixtures, probe, breached, cause, owner, reclaimed>>
    BY <1>7 DEF Q!Rest, Q!vars, QualificationInv, QualificationTypes
  <2> QED BY <2>1, QualificationRests
<1> QED BY <1>1, <1>2, <1>3, <1>4, <1>5, <1>6, <1>7 DEF Q!Next

\* What the invariant says of who owns the namespaces, the routes and the fixtures.
LEMMA QualificationIsOwnedAlways == QualificationInv => Q!QualificationIsOwned
<1> SUFFICES ASSUME QualificationInv PROVE Q!QualificationIsOwned
  OBVIOUS
<1>1. second \in {"agy", "zcode", "zcode_old"} /\ phase \in Admitting \cup {"release", "close", "undo", "running", "owned", "ended"}
  BY DEF QualificationInv, QualificationTypes, QualificationControl
<1>2. Q!Candidates = FirstGroup \cup SecondGroup /\ Q!Candidates \subseteq Q!Instances
  BY <1>1, GroupsArePairs
<1>3. owner = IF phase = "running" THEN "run" ELSE IF phase = "owned" THEN "retained" ELSE IF phase = "ended" THEN "receipt" ELSE "none"
  BY DEF QualificationInv, OwnersAreGiven
<1>4. Q!HeldIsOwned
  BY <1>2, <1>3 DEF QualificationInv, HoldingsAreAdmitted, Q!HeldIsOwned, Q!Handed
<1>5. Q!RunAccountsForAll
  <2>1. owner = "run" => phase = "running"
    BY <1>3
  <2> QED BY <1>2, <2>1 DEF QualificationInv, RunsAreAccounted, Q!RunAccountsForAll
<1>6. Q!BreachFailsClosed
  BY <1>3 DEF QualificationInv, BreachesDecide, Decisive, Q!BreachFailsClosed
<1>7. Q!FixturesAreDrained
  BY <1>3 DEF QualificationInv, ProbesDrain, AllDrained, Q!FixturesAreDrained
<1> QED BY <1>4, <1>5, <1>6, <1>7 DEF Q!QualificationIsOwned

(* A qualification, however its providers fail and whenever the caller      *)
(* cancels: every namespace it acquired is drained or belongs to what the   *)
(* call returned, a failed boundary check delivers no run and skips no      *)
(* candidate, a delivered run accounts for every candidate, and it has no   *)
(* fixture left (qualifyCandidates(), QualifyCurrent(), closeAdmitted()).   *)
THEOREM QualificationsAreOwned == Q!Init /\ [][Q!Next]_(Q!vars) => []Q!QualificationIsOwned
<1>1. Q!Init => QualificationInv
  BY QualificationBegins
<1>2. QualificationInv /\ [Q!Next]_(Q!vars) => QualificationInv'
  BY QualificationSteps
<1>3. QualificationInv => Q!QualificationIsOwned
  BY QualificationIsOwnedAlways
<1> QED BY <1>1, <1>2, <1>3, PTL

-----------------------------------------------------------------------------
(* The diagnostics of a run.  The reserve is a part of the log's cap.      *)
LogConstants == LogMax \in Nat /\ TailReserve \in Nat /\ TailReserve <= LogMax

Documents == [state : {"running"} \cup D!Terminals, last : Nat, dropped : Nat]
Lines == [seq : 1 .. LogMax, event : D!Kinds]
Known == document.now \cup document.disk

DiagnosticTypes ==
  /\ store \in {"down", "open", "finalizing", "finalized", "poisoned"}
  /\ steps \subseteq {"terminal", "closed", "status"}
  /\ decision \in D!Terminals
  /\ log \in Seq(Lines) /\ synced \in 0 .. Len(log) /\ torn \in BOOLEAN
  /\ document \in [now : {{}} \cup {{s} : s \in Documents}, disk : {{}} \cup {{s} : s \in Documents}]
  /\ sequence \in Nat /\ dropped \in Nat /\ acked \in Nat

(* Ordinary events stop at the reserve; terminal ones are of one decision. *)
LinesAreInPlace ==
  \A k \in 1 .. Len(log) :
    /\ log[k].event = "ordinary" => k + TailReserve <= LogMax
    /\ log[k].event \in D!Terminals => log[k].event = decision

(* A beginning of the log that has a terminal event has a last one.        *)
LastIn(n, k) == k \in 1 .. n /\ log[k].event \in D!Terminals /\ \A j \in k + 1 .. n : log[j].event \notin D!Terminals
LastsExist ==
  \A n \in 0 .. Len(log) : (\E k \in 1 .. n : log[k].event \in D!Terminals) => \E k \in 1 .. n : LastIn(n, k)

HasTerminal == \E k \in 1 .. Len(log) : log[k].event \in D!Terminals
IsClosed == Len(log) > 0 /\ synced = Len(log) /\ log[Len(log)].event = "closed" /\ HasTerminal

(* An open store has numbered every line of its log, and done the parts of *)
(* a finalization in their order.                                          *)
StoreControl ==
  store \in {"open", "finalizing"} =>
    /\ sequence = Len(log)
    /\ "terminal" \in steps => HasTerminal
    /\ "closed" \in steps => store = "finalizing" /\ "terminal" \in steps /\ IsClosed
    /\ "status" \in steps => "closed" \in steps
    /\ "status" \notin steps => \A s \in Known : s.state = "running"

(* A terminal status is of a closed log, and is on the disk only as the    *)
(* one there is.                                                           *)
TerminalDocuments ==
  \A s \in Known : s.state # "running" =>
    /\ s.state = decision /\ s.last = Len(log) /\ IsClosed
    /\ s \in document.disk => document.now = document.disk

(* Without a status nothing was appended that a power loss could take.     *)
FirstDocument == document.now = {} => store \in {"down", "finalized"} /\ synced = Len(log)

DiagnosticInv ==
  /\ DiagnosticTypes /\ D!Numbered /\ D!AckedIsDurable /\ LinesAreInPlace /\ LastsExist
  /\ StoreControl /\ TerminalDocuments /\ FirstDocument

LEMMA DiagnosticsBegin == ASSUME LogConstants, D!Init PROVE DiagnosticInv
<1>1. log \in Seq(Lines) /\ Len(log) = 0
  BY DEF D!Init
<1>2. Known = {} /\ document = [now |-> {}, disk |-> {}]
  BY DEF D!Init, Known
<1>3. DiagnosticTypes
  <2>1. document \in [now : {{}} \cup {{s} : s \in Documents}, disk : {{}} \cup {{s} : s \in Documents}]
    BY <1>2
  <2>2. store = "down" /\ steps = {} /\ decision \in D!Terminals /\ torn \in BOOLEAN
    BY DEF D!Init
  <2>3. synced = 0 /\ sequence = 0 /\ dropped = 0 /\ acked = 0
    BY DEF D!Init
  <2> QED BY <1>1, <2>1, <2>2, <2>3 DEF DiagnosticTypes
<1>4. D!Numbered /\ D!AckedIsDurable /\ LinesAreInPlace /\ LastsExist
  BY <1>1, <1>2 DEF D!Init, D!Numbered, D!AckedIsDurable, LinesAreInPlace, LastsExist
<1>5. StoreControl /\ TerminalDocuments /\ FirstDocument
  BY <1>1, <1>2 DEF D!Init, StoreControl, TerminalDocuments, FirstDocument
<1> QED BY <1>3, <1>4, <1>5 DEF DiagnosticInv

(* A line appended to a log that no terminal status describes.             *)
LEMMA LineIsAppended ==
  ASSUME LogConstants, DiagnosticTypes, D!Numbered, LinesAreInPlace, LastsExist,
         NEW kind \in D!Kinds, kind \in D!Terminals => kind = decision, D!Fits(kind),
         sequence = Len(log), log' = Append(log, [seq |-> sequence + 1, event |-> kind]), UNCHANGED decision
  PROVE  /\ log' \in Seq(Lines) /\ Len(log') = Len(log) + 1 /\ log'[Len(log')].event = kind
         /\ \A k \in 1 .. Len(log) : log'[k] = log[k]
         /\ D!Numbered' /\ LinesAreInPlace' /\ LastsExist'
         /\ HasTerminal => HasTerminal'
         /\ kind \in D!Terminals => HasTerminal'
<1> DEFINE line == [seq |-> sequence + 1, event |-> kind]
<1>1. Len(log) \in Nat /\ Len(log) + 1 <= LogMax /\ (kind = "ordinary" => Len(log) + 1 + TailReserve <= LogMax)
  BY DEF LogConstants, DiagnosticTypes, D!Fits
<1>2. line \in Lines
  BY <1>1 DEF Lines, LogConstants
<1>3. log' \in Seq(Lines) /\ Len(log') = Len(log) + 1 /\ log'[Len(log) + 1] = line
      /\ \A k \in 1 .. Len(log) : log'[k] = log[k]
  BY <1>1, <1>2 DEF DiagnosticTypes
<1>4. D!Numbered'
  <2>1. DOMAIN log = 1 .. Len(log) /\ DOMAIN log' = 1 .. Len(log')
    BY <1>3 DEF DiagnosticTypes
  <2> QED BY <1>1, <1>3, <2>1 DEF D!Numbered
<1>5. LinesAreInPlace'
  BY <1>1, <1>3 DEF LinesAreInPlace
<1>6. LastsExist'
  <2> SUFFICES ASSUME NEW n \in 0 .. Len(log'), NEW t \in 1 .. n, log'[t].event \in D!Terminals
               PROVE  \E k \in 1 .. n : LastIn(n, k)'
    BY DEF LastsExist
  <2>1. CASE n = Len(log) + 1 /\ kind \in D!Terminals
    <3>1. LastIn(n, n)'
      BY <1>1, <1>3, <2>1 DEF LastIn
    <3> QED BY <3>1, <2>1, <1>1
  <2>2. CASE n = Len(log) + 1 /\ kind \notin D!Terminals
    <3>1. t \in 1 .. Len(log) /\ log[t].event \in D!Terminals
      BY <1>1, <1>3, <2>2
    <3>2. PICK k \in 1 .. Len(log) : LastIn(Len(log), k)
      BY <1>1, <3>1 DEF LastsExist
    <3>3. LastIn(n, k)'
      BY <1>1, <1>3, <2>2, <3>2 DEF LastIn
    <3> QED BY <3>2, <3>3, <2>2, <1>1
  <2>3. CASE n <= Len(log)
    <3>1. t \in 1 .. n /\ log[t].event \in D!Terminals
      BY <1>1, <1>3, <2>3
    <3>2. PICK k \in 1 .. n : LastIn(n, k)
      BY <1>1, <2>3, <3>1 DEF LastsExist
    <3>3. LastIn(n, k)'
      BY <1>1, <1>3, <2>3, <3>2 DEF LastIn
    <3> QED BY <3>2, <3>3
  <2> QED BY <1>1, <1>3, <2>1, <2>2, <2>3
<1>7. HasTerminal => HasTerminal'
  BY <1>1, <1>3 DEF HasTerminal
<1>8. kind \in D!Terminals => HasTerminal'
  BY <1>1, <1>3 DEF HasTerminal
<1> QED BY <1>1, <1>3, <1>4, <1>5, <1>6, <1>7, <1>8

LEMMA LogRests ==
  ASSUME UNCHANGED <<log, decision>>
  PROVE  /\ (D!Numbered => D!Numbered') /\ (LinesAreInPlace => LinesAreInPlace') /\ (LastsExist => LastsExist')
         /\ HasTerminal <=> HasTerminal'
BY DEF D!Numbered, LinesAreInPlace, LastsExist, LastIn, HasTerminal

LEMMA StatusesAreDocuments ==
  ASSUME NEW s \in {"running"} \cup D!Terminals, NEW last \in Nat, dropped \in Nat
  PROVE  D!Status(s, last) \in Documents
BY DEF D!Status, Documents

LEMMA DocumentIsReplaced ==
  ASSUME DiagnosticTypes, NEW s \in Documents, D!Replaced(s) \/ D!NotReplaced \/ D!Uncertain(s)
  PROVE  /\ document' \in [now : {{}} \cup {{t} : t \in Documents}, disk : {{}} \cup {{t} : t \in Documents}]
         /\ document' = document \/ (document'.now = {s} /\ document'.disk \in {document.disk, {s}})
         /\ document.now # {} => document'.now # {}
<1> DEFINE Holding == {{}} \cup {{t} : t \in Documents}
<1>1. document \in [now : Holding, disk : Holding] /\ {s} \in Holding /\ {s} # {}
  BY DEF DiagnosticTypes
<1> HIDE DEF Holding
<1>2. document' = [now |-> {s}, disk |-> {s}] \/ document' = document \/ document' = [document EXCEPT !.now = {s}]
  BY DEF D!Replaced, D!NotReplaced, D!Uncertain
<1>3. document' \in [now : Holding, disk : Holding]
  BY <1>1, <1>2
<1>4. document' = document \/ (document'.now = {s} /\ document'.disk \in {document.disk, {s}})
  BY <1>1, <1>2
<1> QED BY <1>1, <1>3, <1>4 DEF Holding

\* An event appended, rolled back or left uncertain.
LEMMA EventIsAppended ==
  ASSUME LogConstants, DiagnosticInv, store \in {"open", "finalizing"}, "closed" \notin steps,
         NEW kind \in D!Kinds, kind \in D!Terminals => kind = decision, D!Fits(kind),
         NEW after, NEW failed, D!Appends(kind, after, failed), UNCHANGED <<decision, document>>
  PROVE  /\ log' \in Seq(Lines) /\ synced' \in 0 .. Len(log') /\ torn' \in BOOLEAN /\ sequence' \in Nat /\ acked' \in Nat
         /\ D!Numbered' /\ D!AckedIsDurable' /\ LinesAreInPlace' /\ LastsExist'
         /\ TerminalDocuments' /\ document.now # {}
         /\ HasTerminal => HasTerminal'
         /\ \/ /\ store' = after /\ acked' # acked /\ sequence' = Len(log') /\ synced' = Len(log')
               /\ Len(log') > 0 /\ log'[Len(log')].event = kind /\ (kind \in D!Terminals => HasTerminal')
            \/ store' = failed /\ UNCHANGED <<log, synced, sequence, acked>>
            \/ store' = "poisoned" /\ acked' = acked
<1>1. Len(log) \in Nat /\ synced \in 0 .. Len(log) /\ sequence = Len(log) /\ acked \in Nat /\ acked <= synced
  BY DEF DiagnosticInv, DiagnosticTypes, StoreControl, D!AckedIsDurable
<1>2. (\A s \in Known : s.state = "running" /\ s.last <= synced /\ s.last \in Nat) /\ document.now # {}
  BY DEF DiagnosticInv, DiagnosticTypes, StoreControl, FirstDocument, D!AckedIsDurable, Known, Documents
<1>3. TerminalDocuments'
  BY <1>2 DEF TerminalDocuments, Known
<1>4. torn' \in BOOLEAN
  BY DEF DiagnosticInv, DiagnosticTypes, D!Appends
<1>5. CASE /\ log' = Append(log, [seq |-> sequence + 1, event |-> kind])
           /\ synced' = Len(log) + 1 /\ sequence' = sequence + 1 /\ acked' = sequence + 1 /\ store' = after
  <2>1. /\ log' \in Seq(Lines) /\ Len(log') = Len(log) + 1 /\ log'[Len(log')].event = kind
        /\ D!Numbered' /\ LinesAreInPlace' /\ LastsExist' /\ (HasTerminal => HasTerminal')
        /\ (kind \in D!Terminals => HasTerminal')
    BY <1>1, <1>5, LineIsAppended DEF DiagnosticInv
  <2>2. D!AckedIsDurable'
    BY <1>1, <1>2, <1>5 DEF D!AckedIsDurable, Known
  <2>3. synced' \in 0 .. Len(log') /\ sequence' \in Nat /\ acked' \in Nat /\ acked' # acked /\ sequence' = Len(log')
    BY <1>1, <1>5, <2>1
  <2> QED BY <1>1, <1>2, <1>3, <1>4, <1>5, <2>1, <2>2, <2>3
<1>6. CASE UNCHANGED <<log, synced, sequence, acked>> /\ store' \in {failed, "poisoned"}
  <2>0. UNCHANGED <<log, decision>>
    BY <1>6
  <2>1. D!Numbered' /\ LinesAreInPlace' /\ LastsExist' /\ (HasTerminal => HasTerminal')
    BY <2>0, LogRests DEF DiagnosticInv
  <2>2. D!AckedIsDurable'
    BY <1>6 DEF DiagnosticInv, D!AckedIsDurable
  <2> QED BY <1>2, <1>3, <1>4, <1>6, <2>1, <2>2 DEF DiagnosticInv, DiagnosticTypes
<1>7. CASE /\ log' = Append(log, [seq |-> sequence + 1, event |-> kind]) /\ UNCHANGED <<synced, sequence, acked>>
           /\ store' = "poisoned"
  <2>1. /\ log' \in Seq(Lines) /\ Len(log') = Len(log) + 1
        /\ D!Numbered' /\ LinesAreInPlace' /\ LastsExist' /\ (HasTerminal => HasTerminal')
    BY <1>1, <1>7, LineIsAppended DEF DiagnosticInv
  <2>2. D!AckedIsDurable'
    BY <1>7 DEF DiagnosticInv, D!AckedIsDurable
  <2> QED BY <1>1, <1>2, <1>3, <1>4, <1>7, <2>1, <2>2
<1> QED BY <1>5, <1>6, <1>7 DEF D!Appends

LEMMA StoreEmits ==
  ASSUME LogConstants, DiagnosticInv, NEW kind \in {"ordinary", "mandatory"}, D!Emit(kind)
  PROVE  DiagnosticInv'
<1>1. store = "open" /\ "closed" \notin steps /\ kind \in D!Kinds /\ kind \notin D!Terminals
      /\ UNCHANGED <<steps, decision, document>>
  BY DEF D!Emit, DiagnosticInv, StoreControl, D!Kinds, D!Terminals
<1>2. CASE D!Fits(kind) /\ D!Appends(kind, "open", "open") /\ UNCHANGED dropped
  <2>1. /\ log' \in Seq(Lines) /\ synced' \in 0 .. Len(log') /\ torn' \in BOOLEAN /\ sequence' \in Nat /\ acked' \in Nat
        /\ D!Numbered' /\ D!AckedIsDurable' /\ LinesAreInPlace' /\ LastsExist'
        /\ TerminalDocuments' /\ document.now # {} /\ (HasTerminal => HasTerminal')
        /\ \/ store' = "open" /\ sequence' = Len(log')
           \/ store' = "open" /\ UNCHANGED <<log, sequence>>
           \/ store' = "poisoned"
    BY <1>1, <1>2, EventIsAppended
  <2>2. StoreControl'
    BY <1>1, <2>1 DEF DiagnosticInv, StoreControl, Known
  <2>3. DiagnosticTypes'
    BY <1>1, <1>2, <2>1 DEF DiagnosticInv, DiagnosticTypes
  <2> QED BY <1>1, <2>1, <2>2, <2>3 DEF DiagnosticInv, FirstDocument
<1>3. CASE dropped' = dropped + 1 /\ UNCHANGED <<store, sequence, log, synced, torn, acked, storeUpsets>>
  <2>1. D!Numbered' /\ LinesAreInPlace' /\ LastsExist' /\ (HasTerminal <=> HasTerminal')
    BY <1>1, <1>3, LogRests DEF DiagnosticInv
  <2>2. D!AckedIsDurable' /\ FirstDocument'
    BY <1>1, <1>3 DEF DiagnosticInv, D!AckedIsDurable, FirstDocument
  <2>4. StoreControl' /\ TerminalDocuments'
    BY <1>1, <1>3, <2>1 DEF DiagnosticInv, StoreControl, Known, TerminalDocuments, IsClosed
  <2>3. DiagnosticTypes'
    BY <1>1, <1>3 DEF DiagnosticInv, DiagnosticTypes
  <2> QED BY <2>1, <2>2, <2>3, <2>4 DEF DiagnosticInv
<1> QED BY <1>2, <1>3 DEF D!Emit

LEMMA StoreReplacesStatus == ASSUME LogConstants, DiagnosticInv, D!ReplaceStatus PROVE DiagnosticInv'
<1>1. /\ store = "open" /\ "closed" \notin steps /\ acked \in Nat /\ acked <= synced /\ dropped \in Nat
      /\ store' \in {"open", "poisoned"} /\ UNCHANGED <<sequence, steps, decision, log, synced, torn, dropped, acked>>
  BY DEF D!ReplaceStatus, DiagnosticInv, DiagnosticTypes, StoreControl, D!AckedIsDurable
<1>2. PICK last \in Nat : /\ last <= synced
                          /\ \/ D!Replaced(D!Status("running", last)) \/ D!NotReplaced
                             \/ D!Uncertain(D!Status("running", last))
  BY <1>1 DEF D!ReplaceStatus, DiagnosticInv, DiagnosticTypes
<1> DEFINE s == D!Status("running", last)
<1>3. s \in Documents /\ s.state = "running" /\ s.last = last
  BY <1>1, StatusesAreDocuments DEF D!Status
<1> HIDE DEF s
<1>4. /\ document' \in [now : {{}} \cup {{t} : t \in Documents}, disk : {{}} \cup {{t} : t \in Documents}]
      /\ document' = document \/ (document'.now = {s} /\ document'.disk \in {document.disk, {s}})
      /\ document.now # {} => document'.now # {}
  BY <1>2, <1>3, DocumentIsReplaced DEF DiagnosticInv, s
<1>5. Known' \subseteq Known \cup {s}
  BY <1>4 DEF Known
<1>6. \A t \in Known' : t.state = "running" /\ t.last <= synced
  BY <1>1, <1>2, <1>3, <1>5 DEF DiagnosticInv, StoreControl, D!AckedIsDurable, Known
<1>7. D!Numbered' /\ LinesAreInPlace' /\ LastsExist' /\ (HasTerminal <=> HasTerminal')
  BY <1>1, LogRests DEF DiagnosticInv
<1>8. DiagnosticTypes'
  BY <1>1, <1>4 DEF DiagnosticInv, DiagnosticTypes
<1>9. D!AckedIsDurable' /\ TerminalDocuments' /\ StoreControl'
  BY <1>1, <1>6, <1>7 DEF D!AckedIsDurable, Known, TerminalDocuments, StoreControl, DiagnosticInv
<1>10. FirstDocument'
  BY <1>1, <1>4 DEF DiagnosticInv, FirstDocument
<1> QED BY <1>7, <1>8, <1>9, <1>10 DEF DiagnosticInv

\* The state of the store changes, and what it has recorded does not.
LEMMA RecordsRest ==
  ASSUME DiagnosticInv, UNCHANGED <<sequence, steps, decision, log, synced, torn, document, dropped, acked>>,
         \/ store = "open" /\ store' \in {"finalizing", "poisoned"}
         \/ store = "finalizing" /\ store' = "finalized"
         \/ UNCHANGED store
  PROVE  DiagnosticInv'
<1>1. D!Numbered' /\ LinesAreInPlace' /\ LastsExist' /\ (HasTerminal <=> HasTerminal')
  BY LogRests DEF DiagnosticInv
<1>2. DiagnosticTypes'
  BY DEF DiagnosticInv, DiagnosticTypes
<1>3. D!AckedIsDurable' /\ FirstDocument'
  BY DEF DiagnosticInv, D!AckedIsDurable, FirstDocument
<1>4. StoreControl' /\ TerminalDocuments'
  BY <1>1 DEF DiagnosticInv, StoreControl, Known, TerminalDocuments, IsClosed
<1> QED BY <1>1, <1>2, <1>3, <1>4 DEF DiagnosticInv

LEMMA EventIsFinal ==
  ASSUME LogConstants, DiagnosticInv, D!FinalizeTerminal \/ D!FinalizeClosed PROVE DiagnosticInv'
<1>1. PICK part \in {"terminal", "closed"}, kind \in {decision, "closed"} :
        /\ D!FinalizeEvent(kind, part) /\ (part = "terminal" <=> kind = decision)
        /\ part = "closed" => "terminal" \in steps
  BY DEF D!FinalizeTerminal, D!FinalizeClosed, DiagnosticInv, DiagnosticTypes, D!Terminals
<1>2. /\ kind \in D!Kinds /\ (kind \in D!Terminals <=> part = "terminal") /\ (kind = "closed" <=> part = "closed")
      /\ decision \in D!Terminals /\ store = "finalizing" /\ part \notin steps /\ UNCHANGED <<decision, document, dropped>>
  BY <1>1 DEF D!FinalizeEvent, D!Kinds, D!Terminals, DiagnosticInv, DiagnosticTypes
<1>3. "closed" \notin steps /\ "status" \notin steps /\ \A s \in Known : s.state = "running"
  BY <1>1, <1>2 DEF DiagnosticInv, StoreControl
<1>4. CASE /\ D!Fits(kind) /\ D!Appends(kind, "finalizing", "open")
           /\ steps' = IF acked' = acked THEN steps ELSE steps \cup {part}
  <2>1. /\ log' \in Seq(Lines) /\ synced' \in 0 .. Len(log') /\ torn' \in BOOLEAN /\ sequence' \in Nat /\ acked' \in Nat
        /\ D!Numbered' /\ D!AckedIsDurable' /\ LinesAreInPlace' /\ LastsExist'
        /\ TerminalDocuments' /\ document.now # {} /\ (HasTerminal => HasTerminal')
        /\ \/ /\ store' = "finalizing" /\ acked' # acked /\ sequence' = Len(log') /\ synced' = Len(log')
              /\ Len(log') > 0 /\ log'[Len(log')].event = kind /\ (kind \in D!Terminals => HasTerminal')
           \/ store' = "open" /\ UNCHANGED <<log, synced, sequence, acked>>
           \/ store' = "poisoned" /\ acked' = acked
    BY <1>2, <1>3, <1>4, EventIsAppended
  <2>2. DiagnosticTypes'
    BY <1>1, <1>2, <1>4, <2>1 DEF DiagnosticInv, DiagnosticTypes
  <2>3. StoreControl'
    <3>1. CASE store' = "finalizing" /\ acked' # acked
      <4>1. /\ steps' = steps \cup {part} /\ sequence' = Len(log') /\ synced' = Len(log')
            /\ Len(log') > 0 /\ log'[Len(log')].event = kind /\ (kind \in D!Terminals => HasTerminal')
        BY <1>4, <2>1, <3>1
      <4>2. HasTerminal'
        BY <1>1, <1>2, <2>1, <4>1 DEF DiagnosticInv, StoreControl
      <4>3. "closed" \in steps' => IsClosed'
        BY <1>1, <1>2, <1>3, <4>1, <4>2 DEF IsClosed
      <4>5. "closed" \in steps' => "terminal" \in steps'
        BY <1>1, <1>3, <4>1
      <4>4. "status" \notin steps' /\ \A s \in Known' : s.state = "running"
        BY <1>1, <1>2, <1>3, <4>1 DEF Known
      <4> QED BY <3>1, <4>1, <4>2, <4>3, <4>4, <4>5 DEF StoreControl
    <3>2. CASE store' = "open" /\ UNCHANGED <<log, synced, sequence, acked>>
      BY <1>2, <1>3, <1>4, <2>1, <3>2 DEF DiagnosticInv, StoreControl, Known
    <3>3. CASE store' = "poisoned"
      BY <3>3 DEF StoreControl
    <3> QED BY <2>1, <3>1, <3>2, <3>3
  <2> QED BY <1>2, <2>1, <2>2, <2>3 DEF DiagnosticInv, FirstDocument
<1>5. CASE store' = "open" /\ UNCHANGED <<steps, sequence, log, synced, torn, acked, storeUpsets>>
  <2>1. D!Numbered' /\ LinesAreInPlace' /\ LastsExist' /\ (HasTerminal <=> HasTerminal')
    BY <1>2, <1>5, LogRests DEF DiagnosticInv
  <2>2. DiagnosticTypes' /\ D!AckedIsDurable'
    BY <1>2, <1>5 DEF DiagnosticInv, DiagnosticTypes, D!AckedIsDurable
  <2>3. StoreControl' /\ TerminalDocuments' /\ FirstDocument'
    BY <1>2, <1>3, <1>5, <2>1 DEF DiagnosticInv, StoreControl, Known, TerminalDocuments, FirstDocument
  <2> QED BY <2>1, <2>2, <2>3 DEF DiagnosticInv
<1> QED BY <1>1, <1>4, <1>5 DEF D!FinalizeEvent

LEMMA StatusIsFinal == ASSUME LogConstants, DiagnosticInv, D!FinalizeStatus PROVE DiagnosticInv'
<1>1. /\ store = "finalizing" /\ "closed" \in steps /\ "status" \notin steps /\ sequence = Len(log) /\ sequence \in Nat
      /\ IsClosed /\ decision \in D!Terminals /\ dropped \in Nat /\ synced \in Nat /\ Len(log) \in Nat
      /\ store' \in {"finalizing", "poisoned"} /\ steps' \in {steps, steps \cup {"status"}}
      /\ UNCHANGED <<sequence, decision, log, synced, torn, dropped, acked>>
  BY DEF D!FinalizeStatus, DiagnosticInv, DiagnosticTypes, StoreControl
<1> DEFINE s == D!Status(decision, sequence)
<1>2. s \in Documents /\ s.state = decision /\ s.last = Len(log)
  BY <1>1, StatusesAreDocuments DEF D!Status
<1>3. D!Replaced(s) \/ D!NotReplaced \/ D!Uncertain(s)
  BY DEF D!FinalizeStatus
<1> HIDE DEF s
<1>4. /\ document' \in [now : {{}} \cup {{t} : t \in Documents}, disk : {{}} \cup {{t} : t \in Documents}]
      /\ document' = document \/ (document'.now = {s} /\ document'.disk \in {document.disk, {s}})
      /\ document.now # {} => document'.now # {}
  BY <1>2, <1>3, DocumentIsReplaced DEF DiagnosticInv
<1>5. D!Numbered' /\ LinesAreInPlace' /\ LastsExist' /\ (HasTerminal <=> HasTerminal') /\ IsClosed'
  BY <1>1, LogRests DEF DiagnosticInv, IsClosed
<1>6. Known' \subseteq Known \cup {s}
  BY <1>4 DEF Known
<1>7. \A t \in Known' : t.last <= synced /\ (t.state # "running" => t.state = decision /\ t.last = Len(log))
  BY <1>1, <1>2, <1>6 DEF DiagnosticInv, D!AckedIsDurable, TerminalDocuments, Known, IsClosed
<1>8. TerminalDocuments'
  <2>1. \A t \in Known : t.state = "running"
    BY <1>1 DEF DiagnosticInv, StoreControl
  <2>2. \A t \in document'.disk : t.state # "running" => document'.now = document'.disk
    BY <1>4, <2>1 DEF Known
  <2> QED BY <1>1, <1>5, <1>7, <2>2 DEF TerminalDocuments
<1>9. DiagnosticTypes'
  BY <1>1, <1>4 DEF DiagnosticInv, DiagnosticTypes
<1>10. D!AckedIsDurable' /\ FirstDocument'
  BY <1>1, <1>4, <1>7 DEF DiagnosticInv, D!AckedIsDurable, FirstDocument, Known
<1>11. StoreControl'
  <2>1. store' = "finalizing" /\ "status" \notin steps' => document' = document
    BY <1>1 DEF D!FinalizeStatus, D!NotReplaced
  <2> QED BY <1>1, <1>5, <2>1 DEF DiagnosticInv, StoreControl, Known
<1> QED BY <1>5, <1>8, <1>9, <1>10, <1>11 DEF DiagnosticInv

LEMMA StoreOpens == ASSUME LogConstants, DiagnosticInv, D!Open PROVE DiagnosticInv'
<1>1. /\ sequence' = Len(log) /\ Len(log) \in Nat /\ steps' = {} /\ UNCHANGED <<decision, log, acked>>
      /\ synced' \in {synced, Len(log)} /\ synced \in 0 .. Len(log)
  BY DEF D!Open, DiagnosticInv, DiagnosticTypes
<1>5. torn' \in BOOLEAN
  BY DEF D!Open
<1>2. D!Numbered' /\ LinesAreInPlace' /\ LastsExist' /\ (HasTerminal <=> HasTerminal')
  BY <1>1, LogRests DEF DiagnosticInv
<1>3. CASE /\ \E s \in document.now : s.state = "running" /\ s.last <= Len(log) /\ dropped' = s.dropped
           /\ store' = "open" /\ UNCHANGED document
  <2>1. PICK s \in Documents : document.now = {s} /\ s.state = "running" /\ dropped' = s.dropped
    BY <1>3 DEF DiagnosticInv, DiagnosticTypes
  <2>2. \A t \in Known : t.state = "running"
    BY <2>1 DEF DiagnosticInv, TerminalDocuments, Known
  <2>3. dropped' \in Nat
    BY <2>1 DEF Documents
  <2>4. DiagnosticTypes'
    BY <1>1, <1>3, <1>5, <2>3 DEF DiagnosticInv, DiagnosticTypes
  <2>5. D!AckedIsDurable'
    BY <1>1, <1>3 DEF DiagnosticInv, DiagnosticTypes, D!AckedIsDurable, Documents
  <2>6. StoreControl' /\ TerminalDocuments' /\ FirstDocument'
    BY <1>1, <1>3, <2>1, <2>2 DEF StoreControl, TerminalDocuments, FirstDocument, Known
  <2> QED BY <1>2, <2>4, <2>5, <2>6 DEF DiagnosticInv
<1>4. CASE /\ document.now = {} /\ dropped' = 0
           /\ LET s == [state |-> "running", last |-> Len(log), dropped |-> 0] IN
                \/ D!Replaced(s) /\ store' = "open"
                \/ (D!NotReplaced \/ D!Uncertain(s)) /\ store' = "down"
  <2> DEFINE s == [state |-> "running", last |-> Len(log), dropped |-> 0]
  <2>1. s \in Documents /\ s.state = "running" /\ s.last = Len(log)
    BY <1>1 DEF Documents
  <2>2. (D!Replaced(s) /\ store' = "open") \/ ((D!NotReplaced \/ D!Uncertain(s)) /\ store' = "down")
    BY <1>4
  <2> HIDE DEF s
  <2>3. /\ document' \in [now : {{}} \cup {{t} : t \in Documents}, disk : {{}} \cup {{t} : t \in Documents}]
        /\ document' = document \/ (document'.now = {s} /\ document'.disk \in {document.disk, {s}})
    BY <2>1, <2>2, DocumentIsReplaced DEF DiagnosticInv
  <2>4. synced = Len(log) /\ synced' = Len(log)
    BY <1>1, <1>4 DEF DiagnosticInv, FirstDocument
  <2>5. \A t \in Known : t.state = "running"
    BY <1>4 DEF DiagnosticInv, TerminalDocuments, Known
  <2>6. Known' \subseteq Known \cup {s}
    BY <2>3 DEF Known
  <2>7. \A t \in Known' : t.state = "running" /\ t.last <= Len(log)
    BY <1>1, <2>1, <2>4, <2>5, <2>6 DEF DiagnosticInv, D!AckedIsDurable, Known
  <2>8. store' = "open" => document'.now = {s}
    BY <2>2 DEF D!Replaced
  <2>9. DiagnosticTypes'
    BY <1>1, <1>4, <1>5, <2>2, <2>3 DEF DiagnosticInv, DiagnosticTypes
  <2>10. D!AckedIsDurable'
    BY <1>1, <2>4, <2>7 DEF DiagnosticInv, D!AckedIsDurable, Known
  <2>11. StoreControl' /\ TerminalDocuments' /\ FirstDocument'
    BY <1>1, <2>2, <2>4, <2>7, <2>8 DEF StoreControl, TerminalDocuments, FirstDocument, Known
  <2> QED BY <1>2, <2>9, <2>10, <2>11 DEF DiagnosticInv
<1> QED BY <1>3, <1>4 DEF D!Open

LEMMA StoreIsKilled == ASSUME LogConstants, DiagnosticInv, D!Kill PROVE DiagnosticInv'
<1>1. /\ store \notin {"down", "finalized"} /\ store' = "down"
      /\ UNCHANGED <<sequence, steps, decision, synced, document, dropped, acked>>
      /\ document.now # {} /\ Len(log) \in Nat /\ synced \in 0 .. Len(log)
  BY DEF D!Kill, DiagnosticInv, DiagnosticTypes, FirstDocument
<1>5. torn' \in BOOLEAN
  BY DEF D!Kill, DiagnosticInv, DiagnosticTypes
<1>2. D!AckedIsDurable' /\ StoreControl' /\ FirstDocument'
  BY <1>1 DEF DiagnosticInv, D!AckedIsDurable, StoreControl, FirstDocument
<1>3. CASE UNCHANGED log
  <2>1. D!Numbered' /\ LinesAreInPlace' /\ LastsExist' /\ (HasTerminal <=> HasTerminal')
    BY <1>1, <1>3, LogRests DEF DiagnosticInv
  <2>2. DiagnosticTypes' /\ TerminalDocuments'
    BY <1>1, <1>3, <1>5, <2>1 DEF DiagnosticInv, DiagnosticTypes, TerminalDocuments, Known, IsClosed
  <2> QED BY <1>2, <2>1, <2>2 DEF DiagnosticInv
<1>4. CASE /\ store = "open" /\ D!Fits("ordinary")
           /\ log' = Append(log, [seq |-> sequence + 1, event |-> "ordinary"])
  <2>1. "ordinary" \in D!Kinds /\ "ordinary" \notin D!Terminals
    BY DEF D!Kinds, D!Terminals
  <2>2. sequence = Len(log) /\ \A t \in Known : t.state = "running"
    BY <1>4 DEF DiagnosticInv, StoreControl
  <2>3. log' \in Seq(Lines) /\ Len(log') = Len(log) + 1 /\ D!Numbered' /\ LinesAreInPlace' /\ LastsExist'
    BY <1>1, <1>4, <2>1, <2>2, LineIsAppended DEF DiagnosticInv
  <2>4. DiagnosticTypes' /\ TerminalDocuments'
    BY <1>1, <1>5, <2>2, <2>3 DEF DiagnosticInv, DiagnosticTypes, TerminalDocuments, Known
  <2> QED BY <1>2, <2>3, <2>4 DEF DiagnosticInv
<1> QED BY <1>3, <1>4 DEF D!Kill

LEMMA PowerIsLost == ASSUME LogConstants, DiagnosticInv, D!PowerLoss PROVE DiagnosticInv'
<1>1. PICK n \in synced .. Len(log) : log' = SubSeq(log, 1, n) /\ synced' = n /\ torn' \in BOOLEAN
  BY DEF D!PowerLoss
<1>2. PICK v \in {document.now, document.disk} : document' = [now |-> v, disk |-> v]
  BY DEF D!PowerLoss
<1>3. store' \in {"down", "finalized"} /\ UNCHANGED <<sequence, steps, decision, dropped, acked>>
  BY DEF D!PowerLoss
<1>4. n \in Nat /\ n <= Len(log) /\ Len(log) \in Nat /\ synced \in Nat /\ synced <= n
  BY DEF DiagnosticInv, DiagnosticTypes
<1>5. log' \in Seq(Lines) /\ Len(log') = n /\ DOMAIN log' = 1 .. n /\ DOMAIN log = 1 .. Len(log)
      /\ \A k \in 1 .. n : log'[k] = log[k]
  BY <1>1, <1>4 DEF DiagnosticInv, DiagnosticTypes
<1>6. D!Numbered' /\ LinesAreInPlace'
  BY <1>3, <1>4, <1>5 DEF DiagnosticInv, D!Numbered, LinesAreInPlace
<1>7. LastsExist'
  <2> SUFFICES ASSUME NEW m \in 0 .. n, NEW t \in 1 .. m, log'[t].event \in D!Terminals
               PROVE  \E k \in 1 .. m : LastIn(m, k)'
    BY <1>5 DEF LastsExist
  <2>1. m \in 0 .. Len(log) /\ log[t].event \in D!Terminals
    BY <1>4, <1>5
  <2>2. PICK k \in 1 .. m : LastIn(m, k)
    BY <2>1 DEF DiagnosticInv, LastsExist
  <2>3. LastIn(m, k)'
    BY <1>4, <1>5, <2>2 DEF LastIn
  <2> QED BY <2>2, <2>3
<1>8. Known' \subseteq Known /\ document'.now = document'.disk
      /\ document' \in [now : {{}} \cup {{t} : t \in Documents}, disk : {{}} \cup {{t} : t \in Documents}]
  BY <1>2 DEF DiagnosticInv, DiagnosticTypes, Known
<1>9. DiagnosticTypes'
  BY <1>1, <1>3, <1>4, <1>5, <1>8 DEF DiagnosticInv, DiagnosticTypes
<1>10. D!AckedIsDurable'
  <2>1. \A s \in Known : s.last <= synced /\ s.last \in Nat
    BY DEF DiagnosticInv, DiagnosticTypes, D!AckedIsDurable, Known, Documents
  <2> QED BY <1>1, <1>3, <1>4, <1>8, <2>1 DEF DiagnosticInv, DiagnosticTypes, D!AckedIsDurable, Known
<1>11. StoreControl' /\ FirstDocument'
  BY <1>1, <1>3, <1>5 DEF StoreControl, FirstDocument
<1>12. TerminalDocuments'
  <2> SUFFICES ASSUME NEW s \in Known', s.state # "running"
               PROVE  s.state = decision /\ s.last = n /\ IsClosed'
    BY <1>3, <1>5, <1>8 DEF TerminalDocuments
  <2>1. s.state = decision /\ s.last = Len(log) /\ IsClosed
    BY <1>8 DEF DiagnosticInv, TerminalDocuments
  <2>2. n = Len(log)
    BY <1>4, <2>1 DEF IsClosed
  <2> QED BY <1>1, <1>4, <1>5, <2>1, <2>2 DEF IsClosed, HasTerminal
<1> QED BY <1>6, <1>7, <1>9, <1>10, <1>11, <1>12 DEF DiagnosticInv

LEMMA DiagnosticSteps == LogConstants /\ DiagnosticInv /\ [D!Next]_(D!vars) => DiagnosticInv'
<1> SUFFICES ASSUME LogConstants, DiagnosticInv, [D!Next]_(D!vars) PROVE DiagnosticInv'
  OBVIOUS
<1>1. CASE D!Emit("ordinary") \/ D!Emit("mandatory")
  BY <1>1, StoreEmits
<1>2. CASE D!ReplaceOther
  BY <1>2, RecordsRest DEF D!ReplaceOther
<1>3. CASE D!FinalizeBegins
  BY <1>3, RecordsRest DEF D!FinalizeBegins, D!Files
<1>4. CASE D!FinalizeEnds
  BY <1>4, RecordsRest DEF D!FinalizeEnds, D!Files
<1>5. CASE UNCHANGED D!vars
  BY <1>5, RecordsRest DEF D!vars
<1> QED BY <1>1, <1>2, <1>3, <1>4, <1>5, StoreReplacesStatus, EventIsFinal, StatusIsFinal, StoreOpens, StoreIsKilled,
           PowerIsLost DEF D!Next

DiagnosticsAreSound ==
  D!TypeOK /\ D!LogIsNumbered /\ D!AckedIsDurable /\ D!TerminalStatusMatchesLog /\ D!ReserveKeptForMandatory

LEMMA DiagnosticsAreSoundAlways == LogConstants /\ DiagnosticInv => DiagnosticsAreSound
<1> SUFFICES ASSUME LogConstants, DiagnosticInv PROVE DiagnosticsAreSound
  OBVIOUS
<1>1. D!TypeOK
  <2>1. \A v \in {document.now, document.disk} : v = {} \/ \E s \in Documents : v = {s}
    BY DEF DiagnosticInv, DiagnosticTypes
  <2>5. \A v \in {document.now, document.disk} : D!Cardinality(v) = Cardinality(v)
    BY DEF D!Cardinality, Cardinality
  <2>2. \A v \in {document.now, document.disk} : D!Cardinality(v) <= 1
    <3>1. Cardinality({}) = 0 /\ \A s : Cardinality({s}) = 1
      BY FS_EmptySet, FS_Singleton
    <3>2. \A v \in {document.now, document.disk} : Cardinality(v) \in {0, 1}
      BY <2>1, <3>1, Zenon
    <3>3. \A v \in {document.now, document.disk} : D!Cardinality(v) \in {0, 1}
      BY <2>5, <3>2, Zenon
    <3> QED BY <3>3
  <2>3. log \in Seq([seq : 1 .. LogMax, event : D!Kinds])
    BY DEF DiagnosticInv, DiagnosticTypes, Lines
  <2>4. /\ store \in {"down", "open", "finalizing", "finalized", "poisoned"}
        /\ steps \subseteq {"terminal", "closed", "status"} /\ synced \in 0 .. Len(log) /\ torn \in BOOLEAN
    BY DEF DiagnosticInv, DiagnosticTypes
  <2> QED BY <2>2, <2>3, <2>4, Zenon DEF D!TypeOK
<1>2. D!TerminalStatusMatchesLog
  <2> SUFFICES ASSUME NEW s \in Known, s.state \in D!Terminals
               PROVE  /\ s.last = Len(log) /\ synced = Len(log) /\ log[Len(log)].event = "closed"
                      /\ log[D!LastTerminal].event = s.state
    BY DEF D!TerminalStatusMatchesLog, Known
  <2>1. s.state = decision /\ s.last = Len(log) /\ IsClosed
    BY DEF DiagnosticInv, TerminalDocuments, D!Terminals
  <2>2. Len(log) \in Nat /\ DOMAIN log = 1 .. Len(log)
    BY DEF DiagnosticInv, DiagnosticTypes
  <2>3. \E k \in 1 .. Len(log) : LastIn(Len(log), k)
    BY <2>1, <2>2 DEF DiagnosticInv, LastsExist, IsClosed, HasTerminal
  <2>4. LastIn(Len(log), D!LastTerminal)
    BY <2>2, <2>3 DEF LastIn, D!LastTerminal
  <2> QED BY <2>1, <2>4 DEF DiagnosticInv, LinesAreInPlace, LastIn, IsClosed
<1>3. D!ReserveKeptForMandatory
  <2> SUFFICES ASSUME \A k \in DOMAIN log : log[k].event = "ordinary" PROVE Len(log) + TailReserve <= LogMax
    BY DEF D!ReserveKeptForMandatory
  <2>1. Len(log) \in Nat /\ DOMAIN log = 1 .. Len(log)
    BY DEF DiagnosticInv, DiagnosticTypes
  <2>2. CASE Len(log) = 0
    BY <2>2 DEF LogConstants
  <2>3. CASE Len(log) > 0
    BY <2>1, <2>3 DEF DiagnosticInv, LinesAreInPlace
  <2> QED BY <2>1, <2>2, <2>3
<1> QED BY <1>1, <1>2, <1>3 DEF DiagnosticsAreSound, DiagnosticInv, D!LogIsNumbered

(* The diagnostics of a run, through every failed append, kill, power loss *)
(* and reopening (diagnosticstore_darwin.go): the lines stay numbered,     *)
(* what a caller was told is recorded stays, a terminal status is of a     *)
(* closed log with this outcome, and the tail's reserve is kept free of    *)
(* ordinary events.                                                        *)
THEOREM DiagnosticsStaySound ==
  ASSUME LogConstants
  PROVE  D!Init /\ [][D!Next]_(D!vars) => []DiagnosticsAreSound
<1>1. D!Init => DiagnosticInv
  BY DiagnosticsBegin
<1>2. DiagnosticInv /\ [D!Next]_(D!vars) => DiagnosticInv'
  BY DiagnosticSteps
<1>3. DiagnosticInv => DiagnosticsAreSound
  BY DiagnosticsAreSoundAlways
<1> QED BY <1>1, <1>2, <1>3, PTL

-----------------------------------------------------------------------------
(* The reader of a live source, while others work in the same project.     *)
Files == [ino : Nat, stamp : Nat, content : [1 .. 2 -> Nat]]
Projects ==
  [root : {"own", "gone", "other"}, git : {"own", "other"}, metadata : {"plain", "alternates"},
   head : {"unborn", "dangling", "c1", "c2"}, side : {"c1", "c3"}, index : {S!Absent, S!b1, S!b2, S!Unmerged},
   dir : {"d1", "d2", "link"}, files : [{"d1", "d2"} -> Files]]

(* A file that takes the place of another has a number that was not used.  *)
Inodes(d) == IF d = "d1" THEN {2 * k + 1 : k \in Nat} ELSE {2 * k : k \in Nat}
InodesAreApart == \A d \in {"d1", "d2"} : fs.files[d].ino \in Inodes(d)

Commits == {"c1", "c2", "c3", "x"}
Object == {"check", "git", "confirm"}
Look == {"first", "second", "after", "again", "reopened"}
Reading == {"directory", "file"} \cup Look

ScopeTypes == scope \in S!Scopes /\ bound \in BOOLEAN /\ (scope # "workspace" => bound)

ProjectTypes == fs \in Projects /\ InodesAreApart

CallTypes ==
  /\ sourceReader \in {"unopened", "opening", "open", "closed", "failed"}
  /\ at \in {"free", "walk", "revalidate", "final"} \cup Object \cup Reading
  /\ call \in [op : {"none", "open", "read", "list"}, side : {"none", "worktree", "index", "before", "after"},
               by : {"none", "opener", "verifier", "artist"}]
  /\ holding = [dir |-> holding.dir, ino |-> holding.ino, stamp |-> holding.stamp, data |-> holding.data]

TargetTypes ==
  target \in [base : Commits \cup {""}, head : Commits \cup {""}, empty : BOOLEAN,
             changes : {"none", "added", "deleted", "modified"}]

ArtistTypes == artist = [phase |-> artist.phase, file |-> artist.file, prior |-> artist.prior, images |-> artist.images]

SourceTypes == ScopeTypes /\ ProjectTypes /\ CallTypes /\ TargetTypes /\ ArtistTypes

(* The calls are serial: who calls, from where, and with which commands.   *)
Commands ==
  CASE scope = "workspace" -> {"list"}
    [] scope = "head" -> {"HEAD", "after"}
    [] scope = "stage" -> {"index", "HEAD", "symbolic", "show-ref", "after", "before", "diff"}
    [] scope = "commit" -> {"revision", "parents", "after", "before", "diff"}
    [] scope = "diff" -> {"left", "right", "after", "before", "diff"}
    [] scope = "merged" -> {"left", "right", "merge-base", "after", "before", "diff"}

SourceControl ==
  /\ sourceReader = "unopened" => at = "free" /\ target = S!NoTarget /\ artist.phase = "off" /\ call.op = "none"
  /\ sourceReader = "opening" => call.op = "open" /\ at # "free"
  /\ call.op \in {"read", "list"} => sourceReader \in {"open", "closed"}
  /\ at # "free" => call.op # "none"
  /\ call.op = "open" => at \in {"free", "walk"} \cup Object /\ artist.phase = "off" /\ (at # "free" => sourceReader = "opening")
  /\ call.by = "opener" => call.op = "open"
  /\ at = "walk" => ~bound /\ (call.op = "open" => target = S!NoTarget)
  /\ call.op = "open" /\ at \in Object => cmd \in Commands
  /\ call.op = "list" => at \in {"free", "walk", "revalidate", "final"} \cup Object
  /\ call.op = "list" /\ at \in Object => cmd = "list"
  /\ call.op = "read" => at \in {"free", "revalidate", "final"} \cup (IF call.side = "worktree" THEN Reading ELSE Object)
  /\ call.op = "read" /\ at \in Object => cmd \in {"entry", "blob"}
  /\ call.op = "read" /\ call.side = "before" => ~target.empty
  /\ call.op = "read" => call.side # "none"

(* The change is the last thing an opening resolves, and a file without a  *)
(* base was not modified.                                                  *)
TargetIsKept ==
  /\ target.changes = "modified" => ~target.empty
  /\ call.op = "open" /\ (at \in {"check", "git"} \/ (at = "confirm" /\ ~(cmd = "diff" /\ reply.ok))) => target.changes = "none"
  /\ artist.phase \in {"read", "comparing", "compared", "showing base"} => target.changes = "modified"

(* What is now was witnessed.                                              *)
NowIsWitnessed ==
  /\ fs.head \in past.heads /\ fs.side \in past.sides /\ fs.index \in past.indexes
  /\ fs.root # "own" \/ fs.git # "own" => past.away
  /\ fs.dir # "link" => fs.files[fs.dir].content \in past.contents
  /\ past.away \in BOOLEAN

(* What is resolved when the command c is run, as long as the project      *)
(* stayed at its path.                                                     *)
Base == IF target.empty THEN S!Absent ELSE S!Tree[target.base]

Resolved(c) ==
  /\ scope = "workspace" => target = S!NoTarget
  /\ scope = "head" /\ c # "HEAD" => target.head \in past.heads
  /\ scope = "stage" /\ c \in {"index", "HEAD", "symbolic", "show-ref"} => target = S!NoTarget
  /\ scope = "stage" /\ c \notin {"index", "HEAD", "symbolic", "show-ref"} =>
       IF target.empty THEN "unborn" \in past.heads ELSE target.base \in past.heads
  /\ scope = "commit" /\ c # "revision" => target.head \in past.sides
  /\ scope = "commit" /\ c \notin {"revision", "parents"} => target.base = S!Parents[target.head]
  /\ scope \in {"diff", "merged"} => ~target.empty
  /\ scope \in {"diff", "merged"} /\ c \notin {"left", "right"} => target.head \in past.heads
  /\ scope = "diff" /\ c # "left" => target.base \in past.sides
  /\ scope = "merged" /\ c \in {"right", "merge-base"} => target.base \in {"c1", "c3"}
  /\ scope = "merged" /\ c = "merge-base" => target.head \in {"c1", "c2"}
  /\ scope = "merged" /\ c \notin {"left", "right", "merge-base"} => target.base = "c1"

Compared ==
  /\ scope = "stage" => \E i \in past.indexes \ {S!Unmerged} : target.changes = S!Diff(Base, i)
  /\ scope \in {"commit", "diff", "merged"} => target.changes = S!Diff(Base, S!Tree[target.head])

Opening ==
  call.op = "open" /\ ~past.away =>
    /\ at \in {"check", "git"} \/ (at = "confirm" /\ ~reply.ok) => Resolved(cmd)
    /\ at = "confirm" /\ reply.ok => Resolved(S!NextCommand(cmd, target)) /\ (cmd = "diff" => Compared)
    /\ at = "free" /\ sourceReader = "open" => Resolved("done") /\ Compared

(* What a read of the worktree holds is what the file has, as long as the  *)
(* file is the one that was opened and was not written since.              *)
IsHeld(file) == file.ino = holding.ino /\ file.stamp = holding.stamp

IsOld(d) ==
  holding.ino \in Inodes(d) =>
    holding.ino <= fs.files[d].ino /\ (holding.ino = fs.files[d].ino => holding.stamp <= fs.files[d].stamp)

ReadSoFar ==
  /\ at \in {"file", "first", "second", "reopened"} => holding.dir \in {"d1", "d2"}
  /\ at \in Look => /\ holding.ino \in Nat /\ holding.stamp \in Nat
                    /\ \A d \in {"d1", "d2"} : IsOld(d)
  /\ at \in {"first", "second"} => holding.ino \in Inodes(holding.dir)
  /\ at = "first" => holding.data = <<>>
  /\ at = "second" => \A d \in {"d1", "d2"} : IsHeld(fs.files[d]) => holding.data = Append(<<>>, fs.files[d].content[1])
  /\ at \in {"after", "again", "reopened"} => \A d \in {"d1", "d2"} : IsHeld(fs.files[d]) => holding.data = fs.files[d].content
  /\ at = "reopened" /\ IsHeld(fs.files[holding.dir]) => fs.files[holding.dir].content \in past.contents

(* What a read returns was there during the call.                          *)
OfTheCall(data) ==
  /\ call.side = "worktree" => data \in past.contents
  /\ call.side = "index" => data \in past.indexes \/ past.away
  /\ call.side = "before" => data = S!Tree[target.base]
  /\ call.side = "after" => data = S!Tree[target.head]

Found ==
  call.op = "read" =>
    /\ at = "final" \/ (at \in Object /\ cmd = "blob") => OfTheCall(holding.data)
    /\ at \in {"free", "confirm"} /\ reply.ok => OfTheCall(reply.data)

(* The images of the artist, by how far their comparison is.               *)
BaseImage == [side |-> "base", data |-> artist.prior]
CurrentImage == [side |-> "current", data |-> artist.file]

ArtistSoFar ==
  /\ artist.phase \in {"off", "listing", "listed", "reading", "read", "comparing", "compared", "showing base"} => artist.images = <<>>
  /\ artist.phase \in {"compared", "showing base"} => artist.prior # artist.file
  /\ artist.phase \in {"shown base", "showing"} =>
       artist.images = <<>> \/ (artist.images = <<BaseImage>> /\ artist.prior # artist.file)
  /\ artist.phase = "done" =>
       \/ artist.images \in {<<>>, <<CurrentImage>>}
       \/ artist.images = <<BaseImage, CurrentImage>> /\ artist.prior # artist.file

SourceInv ==
  /\ SourceTypes /\ SourceControl /\ TargetIsKept /\ NowIsWitnessed
  /\ Opening /\ ReadSoFar /\ Found /\ ArtistSoFar

LEMMA SecondIsAppended ==
  ASSUME NEW q \in Seq(Nat), NEW y \in Nat, Len(q) = 1
  PROVE Append(q, y) \in Seq(Nat) /\ Len(Append(q, y)) = 2 /\ Append(q,y)[1] = q[1] /\ Append(q,y)[2] = y
<1> DEFINE p == Append(q, y)
<1>1. p \in Seq(Nat) /\ Len(p) = Len(q) + 1 /\ p[Len(q) + 1] = y /\ \A i \in 1 .. Len(q) : p[i] = q[i]
  BY AppendProperties, ZenonT(60)
<1> HIDE DEF p
<1>2. 1 \in 1 .. Len(q) /\ Len(q) + 1 = 2
  OBVIOUS
<1>3. p \in Seq(Nat) /\ Len(p) = 2 /\ p[1] = q[1] /\ p[2] = y
  BY <1>1, <1>2
<1> QED BY <1>3 DEF p

LEMMA PairsAreRead == ASSUME NEW c \in [1 .. 2 -> Nat] PROVE Append(Append(<<>>, c[1]), c[2]) = c
<1>2. <<>> \in Seq(Nat) /\ c[1] \in Nat /\ c[2] \in Nat
  OBVIOUS
<1> DEFINE q == Append(<<>>, c[1])
<1>3. q \in Seq(Nat) /\ Len(q) = 1 /\ q[1] = c[1]
  BY <1>2
<1> HIDE DEF q
<1> DEFINE p == Append(q, c[2])
<1>4. p \in Seq(Nat) /\ Len(p) = 2 /\ p[1] = c[1] /\ p[2] = c[2]
  BY SecondIsAppended, <1>2, <1>3
<1> HIDE DEF p
<1>5. p = [i \in 1 .. 2 |-> p[i]] /\ c = [i \in 1 .. 2 |-> c[i]]
  BY <1>4
<1>6. p = c
  BY <1>4, <1>5
<1> QED BY <1>6 DEF p, q

\* A half of a file is written.
Written(file, h) == [ino |-> file.ino, stamp |-> file.stamp + 1, content |-> [file.content EXCEPT ![h] = 3]]

LEMMA FilesAreWritten ==
  ASSUME NEW file \in Files, NEW h \in {1, 2}
  PROVE  Written(file, h) \in Files /\ Written(file, h).ino = file.ino /\ Written(file, h).stamp = file.stamp + 1
<1>1. [file.content EXCEPT ![h] = 3] \in [1 .. 2 -> Nat]
  BY DEF Files
<1> QED BY <1>1 DEF Files, Written

LEMMA InodesArePaired ==
  /\ \A d \in {"d1", "d2"} : \A n \in Inodes(d) : n \in Nat /\ n + 2 \in Inodes(d)
  /\ Inodes("d1") \cap Inodes("d2") = {}
<1>1. ASSUME NEW n \in {2 * k + 1 : k \in Nat} PROVE n \in Nat /\ n + 2 \in {2 * k + 1 : k \in Nat}
  <2>1. PICK k \in Nat : n = 2 * k + 1
    OBVIOUS
  <2>2. k + 1 \in Nat /\ n + 2 = 2 * (k + 1) + 1
    BY <2>1
  <2> QED BY <2>1, <2>2
<1>2. ASSUME NEW n \in {2 * k : k \in Nat} PROVE n \in Nat /\ n + 2 \in {2 * k : k \in Nat}
  <2>1. PICK k \in Nat : n = 2 * k
    OBVIOUS
  <2>2. k + 1 \in Nat /\ n + 2 = 2 * (k + 1)
    BY <2>1
  <2> QED BY <2>1, <2>2
<1>3. \A j, k \in Nat : 2 * j + 1 # 2 * k
  OBVIOUS
<1> QED BY <1>1, <1>2, <1>3 DEF Inodes

LEMMA OthersMove ==
  ASSUME SourceTypes, NEW f \in S!Moves(fs)
  PROVE  /\ f \in Projects
         /\ \A d \in {"d1", "d2"} :
              \/ f.files[d] = fs.files[d]
              \/ f.files[d].ino = fs.files[d].ino /\ f.files[d].stamp = fs.files[d].stamp + 1
              \/ f.files[d].ino = fs.files[d].ino + 2
<1>1. fs \in Projects /\ fs.files \in [{"d1", "d2"} -> Files] /\ fs.files["d1"] \in Files /\ fs.files["d2"] \in Files
  BY DEF SourceTypes, ProjectTypes, Projects
<1> DEFINE Roots == {[fs EXCEPT !.root = r] : r \in IF fs.root = "own" THEN {"gone", "other"} ELSE {"own"}}
           Gits == {[fs EXCEPT !.git = g] : g \in IF fs.git = "own" THEN {"other"} ELSE {"own"}}
           Borrows == {[fs EXCEPT !.metadata = "alternates"]}
           Dirs == {[fs EXCEPT !.dir = d] : d \in {"d1", "d2", "link"}}
           Writes == {[fs EXCEPT !.files[d] = [ino |-> @.ino, stamp |-> @.stamp + 1, content |-> [@.content EXCEPT ![h] = 3]]]
                        : d \in {"d1", "d2"}, h \in {1, 2}}
           Replaces == {[fs EXCEPT !.files[d] = [ino |-> @.ino + 2, stamp |-> 0, content |-> S!b2]] : d \in {"d1", "d2"}}
           Heads == {[fs EXCEPT !.head = h] : h \in {"c1", "c2"}}
           Sides == {[fs EXCEPT !.side = s] : s \in {"c1", "c3"}}
           Indexes == {[fs EXCEPT !.index = i] : i \in {S!Absent, S!b1, S!b2, S!Unmerged}}
<1>2. CASE f \in Roots
  BY <1>1, <1>2 DEF Projects
<1>3. CASE f \in Gits
  BY <1>1, <1>3 DEF Projects
<1>4. CASE f \in Borrows
  BY <1>1, <1>4 DEF Projects
<1>5. CASE f \in Dirs
  BY <1>1, <1>5 DEF Projects
<1>6. CASE f \in Writes
  <2> PICK d \in {"d1", "d2"}, h \in {1, 2} : f = [fs EXCEPT !.files[d] = Written(@, h)]
    BY <1>6 DEF Written
  <2> DEFINE new == Written(fs.files[d], h)
  <2>1. f = [fs EXCEPT !.files = [fs.files EXCEPT ![d] = new]]
    BY <1>1 DEF Projects, Files
  <2>2. new \in Files /\ new.ino = fs.files[d].ino /\ new.stamp = fs.files[d].stamp + 1
    BY <1>1, FilesAreWritten
  <2> HIDE DEF new
  <2> QED BY <1>1, <2>1, <2>2 DEF Projects
<1>7. CASE f \in Replaces
  <2> PICK d \in {"d1", "d2"} : f = [fs EXCEPT !.files[d] = [ino |-> @.ino + 2, stamp |-> 0, content |-> S!b2]]
    BY <1>7
  <2> DEFINE new == [ino |-> fs.files[d].ino + 2, stamp |-> 0, content |-> S!b2]
  <2>1. f = [fs EXCEPT !.files = [fs.files EXCEPT ![d] = new]]
    BY <1>1 DEF Projects, Files
  <2>2. new \in Files
    BY <1>1 DEF Files, S!b2
  <2>3. new.ino = fs.files[d].ino + 2
    OBVIOUS
  <2> HIDE DEF new
  <2> QED BY <1>1, <2>1, <2>2, <2>3 DEF Projects
<1>8. CASE f \in Heads \/ f \in Sides
  BY <1>1, <1>8 DEF Projects
<1>9. CASE f \in Indexes
  BY <1>1, <1>9 DEF Projects
<1>10. S!Moves(fs) = Roots \cup (IF bound THEN Gits \cup Borrows ELSE {})
                      \cup (IF scope = "workspace" THEN Dirs \cup Writes \cup Replaces ELSE Heads \cup Sides)
                      \cup (IF scope = "stage" THEN Indexes ELSE {})
  BY SMTT(30) DEF S!Moves
<1> HIDE DEF Roots, Gits, Borrows, Dirs, Writes, Replaces, Heads, Sides, Indexes
<1>11. \/ f \in Roots \/ f \in Gits \/ f \in Borrows \/ f \in Dirs \/ f \in Writes
       \/ f \in Replaces \/ f \in Heads \/ f \in Sides \/ f \in Indexes
  BY <1>10
<1> QED BY <1>2, <1>3, <1>4, <1>5, <1>6, <1>7, <1>8, <1>9, <1>11

LEMMA SourceBegins == S!Init => SourceInv
<1> SUFFICES ASSUME S!Init PROVE SourceInv
  OBVIOUS
<1>1. fs \in Projects /\ InodesAreApart
  <2>1. /\ fs.root = "own" /\ fs.git = "own" /\ fs.metadata = "plain" /\ fs.head \in {"unborn", "dangling", "c2"}
        /\ fs.side \in {"c1", "c3"} /\ fs.index \in {S!b1, S!b2, S!Unmerged} /\ fs.dir = "d1"
        /\ fs.files = [d1 |-> [ino |-> 1, stamp |-> 0, content |-> S!b1], d2 |-> [ino |-> 2, stamp |-> 0, content |-> S!b2]]
        /\ fs = [root |-> fs.root, git |-> fs.git, metadata |-> fs.metadata, head |-> fs.head, side |-> fs.side,
                 index |-> fs.index, dir |-> fs.dir, files |-> fs.files]
    BY DEF S!Init
  <2>2. [ino |-> 1, stamp |-> 0, content |-> S!b1] \in Files /\ [ino |-> 2, stamp |-> 0, content |-> S!b2] \in Files
    BY DEF Files, S!b1, S!b2
  <2>3. fs.files \in [{"d1", "d2"} -> Files]
    BY <2>1, <2>2
  <2>4. fs.files["d1"].ino = 2 * 0 + 1 /\ fs.files["d2"].ino = 2 * 1
    BY <2>1
  <2> QED BY <2>1, <2>3, <2>4 DEF Projects, InodesAreApart, Inodes
<1>2. SourceTypes
  <2>1. ScopeTypes
    BY DEF S!Init, ScopeTypes
  <2>2. CallTypes
    BY DEF S!Init, CallTypes, S!Nobody, S!Nothing
  <2>3. TargetTypes
    BY DEF S!Init, TargetTypes, S!NoTarget
  <2>4. ArtistTypes
    BY DEF S!Init, ArtistTypes
  <2> QED BY <1>1, <2>1, <2>2, <2>3, <2>4 DEF SourceTypes, ProjectTypes
<1>3. SourceControl /\ TargetIsKept
  BY DEF S!Init, SourceControl, TargetIsKept, S!NoTarget, S!Nobody, Object, Reading, Look
<1>4. NowIsWitnessed
  BY DEF S!Init, NowIsWitnessed, S!Begins
<1>5. Opening /\ ReadSoFar /\ Found /\ ArtistSoFar
  BY DEF S!Init, Opening, ReadSoFar, Found, ArtistSoFar, S!Nobody, S!Nothing, Look, Object
<1> QED BY <1>2, <1>3, <1>4, <1>5 DEF SourceInv

LEMMA OthersStep == ASSUME SourceInv, S!Others PROVE SourceInv'
<1>1. PICK f \in S!Moves(fs) : fs' = f /\ past' = S!Witness(past, f)
  BY DEF S!Others
<1>2. UNCHANGED <<scope, bound, sourceReader, target, at, cmd, call, holding, reply, artist, reads>>
  BY DEF S!Others
<1>3. /\ fs' \in Projects
      /\ \A d \in {"d1", "d2"} :
           \/ fs'.files[d] = fs.files[d]
           \/ fs'.files[d].ino = fs.files[d].ino /\ fs'.files[d].stamp = fs.files[d].stamp + 1
           \/ fs'.files[d].ino = fs.files[d].ino + 2
  BY <1>1, OthersMove DEF SourceInv
<1>4. \A d \in {"d1", "d2"} : /\ fs.files[d] \in Files /\ fs.files[d].ino \in Nat /\ fs.files[d].stamp \in Nat
                              /\ fs'.files[d] \in Files /\ fs'.files[d].ino \in Nat /\ fs'.files[d].stamp \in Nat
  BY <1>3 DEF SourceInv, SourceTypes, ProjectTypes, Projects, Files
<1>5. InodesAreApart'
  <2> SUFFICES ASSUME NEW d \in {"d1", "d2"} PROVE fs'.files[d].ino \in Inodes(d)
    BY DEF InodesAreApart
  <2>1. fs.files[d].ino \in Inodes(d)
    BY DEF SourceInv, SourceTypes, ProjectTypes, InodesAreApart
  <2>2. fs.files[d].ino + 2 \in Inodes(d)
    BY <2>1, InodesArePaired
  <2> QED BY <1>3, <2>1, <2>2
<1>6. SourceTypes'
  <2>1. ScopeTypes' /\ TargetTypes'
    BY <1>2 DEF SourceInv, SourceTypes, ScopeTypes, TargetTypes
  <2>2. CallTypes' /\ ArtistTypes'
    BY <1>2 DEF SourceInv, SourceTypes, CallTypes, ArtistTypes
  <2> QED BY <1>3, <1>5, <2>1, <2>2 DEF SourceTypes, ProjectTypes
<1>13. SourceControl' /\ TargetIsKept' /\ ArtistSoFar'
  <2>1. Commands' = Commands
    BY <1>2 DEF Commands
  <2>2. SourceControl'
    BY <1>2, <2>1 DEF SourceInv, SourceControl
  <2>3. TargetIsKept' /\ ArtistSoFar'
    BY <1>2 DEF SourceInv, TargetIsKept, ArtistSoFar, BaseImage, CurrentImage
  <2> QED BY <2>2, <2>3
<1>7. /\ past.heads \subseteq past'.heads /\ past.sides \subseteq past'.sides /\ past.indexes \subseteq past'.indexes
      /\ past.contents \subseteq past'.contents /\ (past.away => past'.away)
  BY <1>1 DEF S!Witness, S!Begins
<1>8. NowIsWitnessed'
  BY <1>1 DEF NowIsWitnessed, S!Witness, S!Begins, SourceInv
<1>9. Opening'
  <2>1. \A c : ~past'.away /\ Resolved(c) => Resolved(c)'
    BY <1>2, <1>7 DEF Resolved
  <2>2. Compared => Compared'
    BY <1>2, <1>7 DEF Compared, Base
  <2>3. past.away \in BOOLEAN /\ (~past'.away => ~past.away)
    BY <1>7 DEF SourceInv, NowIsWitnessed
  <2>4. S!NextCommand(cmd, target)' = S!NextCommand(cmd, target)
    BY <1>2 DEF S!NextCommand
  <2> HIDE DEF Opening
  <2> QED BY <1>2, <2>1, <2>2, <2>3, <2>4 DEF SourceInv, Opening
<1>10. ASSUME at \in Look
       PROVE  \A d \in {"d1", "d2"} : IsOld(d)' /\ (IsHeld(fs.files[d])' => fs'.files[d] = fs.files[d])
  <2>1. holding.ino \in Nat /\ holding.stamp \in Nat /\ \A d \in {"d1", "d2"} : IsOld(d)
    BY <1>10 DEF SourceInv, ReadSoFar
  <2>2. \A d \in {"d1", "d2"} : fs'.files[d].ino \in Inodes(d)
    BY <1>5 DEF InodesAreApart
  <2>3. holding' = holding
    BY <1>2
  <2> QED BY <1>3, <1>4, <2>1, <2>2, <2>3 DEF IsOld, IsHeld
<1>11. ReadSoFar'
  <2>1. Look = {"first", "second", "after", "again", "reopened"}
    BY DEF Look
  <2>2. \A d : at \in Look /\ d \in {"d1", "d2"} /\ IsHeld(fs.files[d])' => IsHeld(fs.files[d]) /\ fs'.files[d] = fs.files[d]
    BY <1>2, <1>10 DEF IsHeld
  <2> QED BY <1>2, <1>7, <1>10, <2>1, <2>2 DEF SourceInv, ReadSoFar
<1>12. Found'
  BY <1>2, <1>7 DEF SourceInv, Found, OfTheCall
<1> QED BY <1>6, <1>8, <1>9, <1>11, <1>12, <1>13 DEF SourceInv

\* What a step that is not one of the others leaves alone.
LEMMA WorldRests ==
  ASSUME SourceInv, UNCHANGED <<fs, scope, bound>>, past' = past \/ past' = S!Begins(fs)
  PROVE  ScopeTypes' /\ ProjectTypes' /\ NowIsWitnessed' /\ Commands' = Commands
<1>5. ScopeTypes'
  BY DEF SourceInv, SourceTypes, ScopeTypes
<1>1. ScopeTypes' /\ ProjectTypes'
  BY <1>5 DEF SourceInv, SourceTypes, ProjectTypes, InodesAreApart
<1>2. Commands' = Commands
  BY DEF Commands
<1>3. CASE past' = past
  <2>1. fs' = fs /\ NowIsWitnessed
    BY DEF SourceInv
  <2>2. NowIsWitnessed'
    BY <1>3, <2>1 DEF NowIsWitnessed
  <2> QED BY <1>1, <1>2, <2>2
<1>4. CASE past' = S!Begins(fs)
  <2>1. S!Begins(fs).away = (fs.root # "own" \/ fs.git # "own") /\ S!Begins(fs).away \in BOOLEAN
    BY DEF S!Begins
  <2>2. fs.head \in S!Begins(fs).heads /\ fs.side \in S!Begins(fs).sides /\ fs.index \in S!Begins(fs).indexes
    BY DEF S!Begins
  <2>3. fs.dir # "link" => fs.files[fs.dir].content \in S!Begins(fs).contents
    BY DEF S!Begins
  <2> QED BY <1>1, <1>2, <1>4, <2>1, <2>2, <2>3 DEF NowIsWitnessed
<1> QED BY <1>1, <1>2, <1>3, <1>4

LEMMA ArtistRests == ASSUME SourceInv, UNCHANGED artist PROVE ArtistTypes' /\ ArtistSoFar'
BY DEF SourceInv, SourceTypes, ArtistTypes, ArtistSoFar, BaseImage, CurrentImage

LEMMA TargetRests == ASSUME SourceInv, UNCHANGED target PROVE TargetTypes'
BY DEF SourceInv, SourceTypes, TargetTypes

\* A call returns.
LEMMA CallEnds ==
  ASSUME SourceInv, at # "free", UNCHANGED <<target, fs, moves, scope, bound, call, past, artist, reads>>,
         NEW ok, NEW data, S!Ends(ok, data),
         call.op = "read" /\ ok => OfTheCall(data),
         call.op = "open" /\ ok /\ ~past.away => Resolved("done") /\ Compared
  PROVE  SourceInv'
<1>1. ScopeTypes' /\ ProjectTypes' /\ NowIsWitnessed' /\ Commands' = Commands /\ ArtistTypes' /\ ArtistSoFar' /\ TargetTypes'
  BY WorldRests, ArtistRests, TargetRests
<1>2. /\ at' = "free" /\ reply' = [ok |-> ok, data |-> data] /\ reply'.ok = ok /\ reply'.data = data
      /\ sourceReader' = IF call.op = "open" THEN IF ok THEN "open" ELSE "failed" ELSE sourceReader
      /\ holding' = S!Nothing
  BY DEF S!Ends
<1>3. CallTypes'
  BY <1>2 DEF SourceInv, SourceTypes, CallTypes, S!Nothing
<1>4. SourceControl'
  <2>1. call.op \in {"none", "open", "read", "list"} /\ call.op # "none" /\ (sourceReader = "opening" => call.op = "open")
        /\ (sourceReader # "unopened")
    BY DEF SourceInv, SourceTypes, CallTypes, SourceControl
  <2> QED BY <1>1, <1>2, <2>1 DEF SourceInv, SourceControl, Object
<1>5. TargetIsKept'
  BY <1>2 DEF SourceInv, TargetIsKept
<1>6. Opening'
  <2>1. call' = call /\ past' = past /\ (Resolved("done") => Resolved("done")') /\ (Compared => Compared')
    BY DEF Resolved, Compared, Base
  <2> QED BY <1>2, <2>1 DEF Opening
<1>7. ReadSoFar'
  BY <1>2 DEF ReadSoFar, Look
<1>8. Found'
  <2>1. OfTheCall(data) => OfTheCall(data)'
    BY DEF OfTheCall
  <2> QED BY <1>2, <2>1 DEF Found, Object
<1> QED BY <1>1, <1>3, <1>4, <1>5, <1>6, <1>7, <1>8 DEF SourceInv, SourceTypes

LEMMA CallFails ==
  ASSUME SourceInv, at # "free", UNCHANGED <<target, fs, moves, scope, bound, call, past, artist, reads>>, S!Fails
  PROVE  SourceInv'
<1>1. S!Ends(FALSE, S!Absent)
  BY DEF S!Fails
<1> QED BY <1>1, CallEnds

LEMMA CheckStep == ASSUME SourceInv, S!Check PROVE SourceInv'
<1>1. at = "check" /\ UNCHANGED <<target, fs, moves, scope, bound, call, past, artist, reads>>
  BY DEF S!Check, S!Steady
<1>2. CASE S!Fails
  BY <1>1, <1>2, CallFails
<1>3. CASE S!Goes("git")
  <2>1. at' = "git" /\ UNCHANGED <<cmd, holding, reply, sourceReader>>
    BY <1>3 DEF S!Goes
  <2>2. ScopeTypes' /\ ProjectTypes' /\ NowIsWitnessed' /\ Commands' = Commands /\ ArtistTypes' /\ ArtistSoFar' /\ TargetTypes'
    BY <1>1, WorldRests, ArtistRests, TargetRests
  <2>3. CallTypes'
    BY <1>1, <2>1 DEF SourceInv, SourceTypes, CallTypes, Object
  <2>4. SourceControl'
    BY <1>1, <2>1, <2>2 DEF SourceInv, SourceControl, Object, Reading, Look
  <2>5. TargetIsKept'
    BY <1>1, <2>1 DEF SourceInv, TargetIsKept
  <2>6. Opening'
    <3>1. call' = call /\ past' = past /\ cmd' = cmd /\ (Resolved(cmd) => Resolved(cmd)')
      BY <1>1, <2>1 DEF Resolved
    <3> QED BY <1>1, <2>1, <3>1 DEF SourceInv, Opening
  <2>7. ReadSoFar'
    BY <2>1 DEF ReadSoFar, Look
  <2>8. Found'
    BY <1>1, <2>1 DEF SourceInv, Found, OfTheCall, Object
  <2> QED BY <2>2, <2>3, <2>4, <2>5, <2>6, <2>7, <2>8 DEF SourceInv, SourceTypes
<1> QED BY <1>2, <1>3 DEF S!Check

\* A reading call takes a step that does not end it.
LEMMA CallGoesOn ==
  ASSUME SourceInv, call.op \in {"read", "list"},
         UNCHANGED <<target, fs, moves, scope, bound, call, past, artist, reads, sourceReader>>,
         CallTypes', at' # "free", at' = "walk" => ~bound,
         call.op = "list" => at' \in {"walk", "revalidate", "final"} \cup Object /\ (at' \in Object => cmd' = "list"),
         call.op = "read" => /\ at' \in {"revalidate", "final"} \cup (IF call.side = "worktree" THEN Reading ELSE Object)
                             /\ at' \in Object => cmd' \in {"entry", "blob"},
         ReadSoFar', Found'
  PROVE  SourceInv'
<1>1. ScopeTypes' /\ ProjectTypes' /\ NowIsWitnessed' /\ Commands' = Commands /\ ArtistTypes' /\ ArtistSoFar' /\ TargetTypes'
  BY WorldRests, ArtistRests, TargetRests
<1>2. call' = call /\ call.op # "open" /\ call.op # "none" /\ sourceReader' \in {"open", "closed"}
  BY DEF SourceInv, SourceControl
<1>3. TargetIsKept' /\ Opening'
  BY <1>2 DEF SourceInv, TargetIsKept, Opening
<1>4. SourceControl'
  <2>1. call.op = "read" => call.side # "none" /\ (call.side = "before" => ~target.empty)
    BY DEF SourceInv, SourceControl
  <2>2. (IF call.side = "worktree" THEN Reading ELSE Object)' = IF call.side = "worktree" THEN Reading ELSE Object
    BY <1>2
  <2>3. call.by # "opener"
    BY <1>2 DEF SourceInv, SourceControl
  <2> QED BY <1>2, <2>1, <2>2, <2>3 DEF SourceControl, Object, Reading, Look
<1> QED BY <1>1, <1>3, <1>4 DEF SourceInv, SourceTypes

LEMMA StartStep == ASSUME SourceInv, S!Start PROVE SourceInv'
<1>1. at = "revalidate" /\ UNCHANGED <<target, fs, moves, scope, bound, call, past, artist, reads>>
  BY DEF S!Start, S!Steady
<1>2. call.op \in {"read", "list"}
  BY <1>1 DEF SourceInv, SourceControl, SourceTypes, CallTypes, Object
<1>3. CASE S!Fails
  BY <1>1, <1>3, CallFails
<1>4. CASE call.side # "worktree" /\ S!Runs(IF call.op = "list" THEN "list" ELSE "entry") /\ holding' = S!Nothing
  <2>1. at' = "check" /\ cmd' = (IF call.op = "list" THEN "list" ELSE "entry") /\ UNCHANGED <<reply, sourceReader>>
    BY <1>4 DEF S!Runs
  <2>2. CallTypes' /\ ReadSoFar' /\ Found'
    BY <1>1, <1>4, <2>1 DEF SourceInv, SourceTypes, CallTypes, ReadSoFar, Found, S!Nothing, Object, Look
  <2> QED BY <1>1, <1>2, <1>4, <2>1, <2>2, CallGoesOn DEF Object
<1>5. CASE call.op = "list" /\ bound /\ S!Runs("list") /\ holding' = S!Nothing
  <2>1. at' = "check" /\ cmd' = "list" /\ UNCHANGED <<reply, sourceReader>>
    BY <1>5 DEF S!Runs
  <2>2. CallTypes' /\ ReadSoFar' /\ Found'
    BY <1>1, <1>5, <2>1 DEF SourceInv, SourceTypes, CallTypes, ReadSoFar, Found, S!Nothing, Object, Look
  <2> QED BY <1>1, <1>2, <1>5, <2>1, <2>2, CallGoesOn DEF Object
<1>6. CASE call.op = "list" /\ ~bound /\ S!Goes("walk")
  <2>1. at' = "walk" /\ UNCHANGED <<cmd, holding, reply, sourceReader>>
    BY <1>6 DEF S!Goes
  <2>2. CallTypes' /\ ReadSoFar' /\ Found'
    BY <1>1, <1>6, <2>1 DEF SourceInv, SourceTypes, CallTypes, ReadSoFar, Found, Look
  <2> QED BY <1>1, <1>2, <1>6, <2>1, <2>2, CallGoesOn DEF Object
<1>7. CASE call.op # "list" /\ call.side = "worktree" /\ S!Goes("directory")
  <2>1. at' = "directory" /\ UNCHANGED <<cmd, holding, reply, sourceReader>>
    BY <1>7 DEF S!Goes
  <2>2. CallTypes' /\ ReadSoFar' /\ Found'
    BY <1>1, <1>7, <2>1 DEF SourceInv, SourceTypes, CallTypes, ReadSoFar, Found, Reading, Look, Object
  <2> QED BY <1>1, <1>2, <1>7, <2>1, <2>2, CallGoesOn DEF Object, Reading
<1>8. CASE S!revalidate /\ call.side # "worktree"
  BY <1>4, <1>8 DEF S!Start
<1>9. CASE S!revalidate /\ call.side = "worktree" /\ call.op = "list"
  BY <1>5, <1>6, <1>9 DEF S!Start
<1>10. CASE S!revalidate /\ call.side = "worktree" /\ call.op # "list"
  BY <1>7, <1>10 DEF S!Start
<1>11. CASE ~S!revalidate
  BY <1>3, <1>11 DEF S!Start
<1> QED BY <1>8, <1>9, <1>10, <1>11

LEMMA FinalStep == ASSUME SourceInv, S!Final PROVE SourceInv'
<1>1. at = "final" /\ UNCHANGED <<target, fs, moves, scope, bound, call, past, artist, reads>>
      /\ S!Ends(S!revalidate, IF S!revalidate THEN holding.data ELSE S!Absent)
  BY DEF S!Final, S!Steady
<1>2. call.op # "open"
  BY <1>1 DEF SourceInv, SourceControl, Object
<1>3. call.op = "read" => OfTheCall(holding.data)
  BY <1>1 DEF SourceInv, Found
<1>4. CASE S!revalidate
  <2>1. S!Ends(TRUE, holding.data)
    BY <1>1, <1>4 DEF S!Ends
  <2> QED BY <1>1, <1>2, <1>3, <2>1, CallEnds
<1>5. CASE ~S!revalidate
  <2>1. S!revalidate = FALSE
    BY <1>5 DEF S!revalidate
  <2>2. S!Ends(FALSE, S!Absent)
    BY <1>1, <2>1
  <2> QED BY <1>1, <2>2, CallEnds
<1> QED BY <1>4, <1>5

LEMMA WalkStep == ASSUME SourceInv, S!Walk PROVE SourceInv'
<1>1. at = "walk" /\ UNCHANGED <<target, fs, moves, scope, bound, call, past, artist, reads>>
  BY DEF S!Walk, S!Steady
<1>2. scope = "workspace" /\ ~bound /\ call.op \in {"open", "list"} /\ (call.op = "open" => target = S!NoTarget)
  BY <1>1 DEF SourceInv, SourceTypes, ScopeTypes, CallTypes, SourceControl, Object, Reading, Look
<1>3. CASE S!Fails
  BY <1>1, <1>3, CallFails
<1>4. CASE call.op = "open" /\ S!Ends(TRUE, S!Absent)
  <2>1. Resolved("done") /\ Compared
    BY <1>2, <1>4 DEF Resolved, Compared
  <2> QED BY <1>1, <1>4, <2>1, CallEnds
<1>5. CASE call.op # "open" /\ S!Goes("final")
  <2>1. at' = "final" /\ UNCHANGED <<cmd, holding, reply, sourceReader>>
    BY <1>5 DEF S!Goes
  <2>2. CallTypes' /\ ReadSoFar' /\ Found'
    BY <1>1, <1>2, <1>5, <2>1 DEF SourceInv, SourceTypes, CallTypes, ReadSoFar, Found, Look
  <2> QED BY <1>1, <1>2, <1>5, <2>1, <2>2, CallGoesOn DEF Object
<1> QED BY <1>3, <1>4, <1>5 DEF S!Walk

LEMMA CloseStep == ASSUME SourceInv, S!Close PROVE SourceInv'
<1>1. /\ sourceReader = "open" /\ at = "free" /\ sourceReader' = "closed"
      /\ UNCHANGED <<fs, moves, scope, bound, target, at, cmd, call, holding, reply, past, artist, reads>>
  BY DEF S!Close
<1>2. ScopeTypes' /\ ProjectTypes' /\ NowIsWitnessed' /\ Commands' = Commands /\ ArtistTypes' /\ ArtistSoFar' /\ TargetTypes'
  BY <1>1, WorldRests, ArtistRests, TargetRests
<1>3. CallTypes'
  BY <1>1 DEF SourceInv, SourceTypes, CallTypes
<1>4. SourceControl'
  BY <1>1, <1>2 DEF SourceInv, SourceControl, Object, Reading, Look
<1>5. TargetIsKept' /\ Opening' /\ ReadSoFar' /\ Found'
  BY <1>1 DEF SourceInv, TargetIsKept, Opening, ReadSoFar, Found, OfTheCall, Look, Object
<1> QED BY <1>2, <1>3, <1>4, <1>5 DEF SourceInv, SourceTypes

\* A read of the worktree takes a step.
LEMMA ReadGoesOn ==
  ASSUME SourceInv, at \in Reading,
         UNCHANGED <<target, fs, moves, scope, bound, call, past, artist, reads, sourceReader, cmd, reply>>,
         at' \in Reading \cup {"final"},
         holding' = [dir |-> holding'.dir, ino |-> holding'.ino, stamp |-> holding'.stamp, data |-> holding'.data],
         ReadSoFar', at' = "final" => OfTheCall(holding'.data)
  PROVE  SourceInv'
<1>1. at # "free" /\ at \notin Object /\ at # "walk" /\ at # "final" /\ at # "revalidate"
  BY DEF Reading, Look, Object
<1>2. call.op \in {"none", "open", "read", "list"}
  BY DEF SourceInv, SourceTypes, CallTypes
<1>3. call.op = "read"
  BY <1>1, <1>2 DEF SourceInv, SourceControl
<1>4. call.side = "worktree"
  BY <1>1, <1>3 DEF SourceInv, SourceControl
<1>5. at' # "free" /\ at' # "walk" /\ at' \notin Object
  BY DEF Reading, Look, Object
<1>6. CallTypes'
  BY DEF SourceInv, SourceTypes, CallTypes
<1>7. Found'
  <2>1. at' = "final" => OfTheCall(holding.data)'
    BY DEF OfTheCall
  <2>2. at' # "free" /\ at' # "confirm" /\ at' \notin Object
    BY <1>5 DEF Object
  <2> QED BY <2>1, <2>2 DEF Found
<1> QED BY <1>3, <1>4, <1>5, <1>6, <1>7, CallGoesOn

\* Only one of the directories has the file that is read.
LEMMA FilesAreApart ==
  ASSUME SourceInv
  PROVE  /\ \A d \in {"d1", "d2"} : /\ fs.files[d].ino \in Nat /\ fs.files[d].stamp \in Nat
                                    /\ fs.files[d].content \in [1 .. 2 -> Nat] /\ fs.files[d].ino \in Inodes(d)
         /\ \A d, e \in {"d1", "d2"} : fs.files[d].ino \in Inodes(e) => d = e
<1>1. \A d \in {"d1", "d2"} : fs.files[d] \in Files /\ fs.files[d].ino \in Inodes(d)
  BY DEF SourceInv, SourceTypes, ProjectTypes, Projects, InodesAreApart
<1>2. \A d, e \in {"d1", "d2"} : fs.files[d].ino \in Inodes(e) => d = e
  BY <1>1, InodesArePaired
<1> QED BY <1>1, <1>2 DEF Files

LEMMA OpenStep ==
  ASSUME SourceInv, S!openPath("directory", "file") \/ S!openPath("again", "reopened")
  PROVE  SourceInv'
<1>1. at \in {"directory", "again"} /\ UNCHANGED <<target, fs, moves, scope, bound, call, past, artist, reads>>
  BY DEF S!openPath, S!Steady
<1>2. CASE S!Fails
  BY <1>1, <1>2, CallFails
<1>3. CASE fs.dir # "link" /\ at' = (IF at = "directory" THEN "file" ELSE "reopened")
           /\ holding' = [holding EXCEPT !.dir = fs.dir] /\ UNCHANGED <<cmd, reply, sourceReader>>
  <2>1. fs.dir \in {"d1", "d2"} /\ fs.files[fs.dir].content \in past.contents
    BY <1>3 DEF SourceInv, SourceTypes, ProjectTypes, Projects, NowIsWitnessed
  <2>2. /\ holding' = [dir |-> holding'.dir, ino |-> holding'.ino, stamp |-> holding'.stamp, data |-> holding'.data]
        /\ holding'.dir = fs.dir /\ holding'.ino = holding.ino /\ holding'.stamp = holding.stamp /\ holding'.data = holding.data
    BY <1>3 DEF SourceInv, SourceTypes, CallTypes
  <2>3. CASE at = "directory"
    <3>1. at' = "file"
      BY <1>3, <2>3
    <3>2. ReadSoFar'
      BY <3>1, <2>1, <2>2 DEF ReadSoFar, Look
    <3> QED BY <1>1, <1>3, <2>2, <2>3, <3>1, <3>2, ReadGoesOn DEF Reading
  <2>4. CASE at = "again"
    <3>1. at' = "reopened"
      BY <1>3, <2>4
    <3>2. \A d \in {"d1", "d2"} : IsOld(d)' /\ (IsHeld(fs.files[d])' => holding'.data = fs.files[d].content)
      BY <2>2, <1>1, <2>4 DEF SourceInv, ReadSoFar, IsOld, IsHeld, Look
    <3>3. holding'.ino \in Nat /\ holding'.stamp \in Nat
      BY <2>2, <2>4 DEF SourceInv, ReadSoFar, Look
    <3>4. ReadSoFar'
      BY <1>1, <2>1, <2>2, <3>1, <3>2, <3>3 DEF ReadSoFar, Look
    <3> QED BY <1>1, <1>3, <2>2, <2>4, <3>1, <3>4, ReadGoesOn DEF Reading, Look
  <2> QED BY <1>1, <2>3, <2>4
<1> QED BY <1>1, <1>2, <1>3 DEF S!openPath

LEMMA OpenRegularStep == ASSUME SourceInv, S!openRegular PROVE SourceInv'
<1>1. at = "file" /\ at' = "first" /\ UNCHANGED <<cmd, reply, sourceReader>>
      /\ UNCHANGED <<target, fs, moves, scope, bound, call, past, artist, reads>>
  BY DEF S!openRegular, S!Steady
<1>2. holding.dir \in {"d1", "d2"}
  BY <1>1 DEF SourceInv, ReadSoFar
<1>3. /\ holding' = [dir |-> holding'.dir, ino |-> holding'.ino, stamp |-> holding'.stamp, data |-> holding'.data]
      /\ holding'.dir = holding.dir /\ holding'.ino = fs.files[holding.dir].ino
      /\ holding'.stamp = fs.files[holding.dir].stamp /\ holding'.data = <<>>
  BY DEF S!openRegular, SourceInv, SourceTypes, CallTypes, S!Absent
<1>4. \A d \in {"d1", "d2"} : IsOld(d)'
  BY <1>1, <1>2, <1>3, FilesAreApart DEF IsOld
<1>5. holding'.ino \in Nat /\ holding'.stamp \in Nat /\ holding'.ino \in Inodes(holding.dir)
  BY <1>2, <1>3, FilesAreApart
<1>6. Inodes(holding.dir)' = Inodes(holding.dir)
  BY <1>3 DEF Inodes
<1>7. ReadSoFar'
  BY <1>1, <1>2, <1>3, <1>4, <1>5, <1>6 DEF ReadSoFar, Look
<1> QED BY <1>1, <1>3, <1>7, ReadGoesOn DEF Reading, Look

LEMMA ReadAllStep ==
  ASSUME SourceInv, S!ReadAll("first", 1, "second") \/ S!ReadAll("second", 2, "after")
  PROVE  SourceInv'
<1>1. /\ at \in {"first", "second"} /\ at' = (IF at = "first" THEN "second" ELSE "after") /\ UNCHANGED <<cmd, reply, sourceReader>>
      /\ UNCHANGED <<target, fs, moves, scope, bound, call, past, artist, reads>>
      /\ holding' = [holding EXCEPT !.data = Append(@, IF S!Same(fs.files[holding.dir])
                                                         THEN fs.files[holding.dir].content[IF at = "first" THEN 1 ELSE 2] ELSE 1)]
  BY DEF S!ReadAll, S!Steady
<1>2. /\ holding.dir \in {"d1", "d2"} /\ holding.ino \in Nat /\ holding.stamp \in Nat
      /\ holding.ino \in Inodes(holding.dir) /\ \A d \in {"d1", "d2"} : IsOld(d)
  BY <1>1 DEF SourceInv, ReadSoFar, Look
<1>3. /\ holding' = [dir |-> holding'.dir, ino |-> holding'.ino, stamp |-> holding'.stamp, data |-> holding'.data]
      /\ holding'.dir = holding.dir /\ holding'.ino = holding.ino /\ holding'.stamp = holding.stamp
  BY <1>1 DEF SourceInv, SourceTypes, CallTypes
<1>4. \A d \in {"d1", "d2"} : IsOld(d)' /\ IsHeld(fs.files[d])' = IsHeld(fs.files[d])
  BY <1>1, <1>2, <1>3 DEF IsOld, IsHeld
<1>5. \A d \in {"d1", "d2"} : IsHeld(fs.files[d]) => d = holding.dir /\ S!Same(fs.files[holding.dir])
  BY <1>2, FilesAreApart DEF IsHeld, S!Same
<1>6. Inodes(holding.dir)' = Inodes(holding.dir)
  BY <1>3 DEF Inodes
<1>7. CASE at = "first"
  <2>1. holding.data = <<>> /\ at' = "second"
    BY <1>1, <1>7 DEF SourceInv, ReadSoFar
  <2>2. S!Same(fs.files[holding.dir]) => holding'.data = Append(<<>>, fs.files[holding.dir].content[1])
    BY <1>1, <1>7, <2>1 DEF SourceInv, SourceTypes, CallTypes
  <2>3. \A d \in {"d1", "d2"} : IsHeld(fs.files[d])' => holding'.data = Append(<<>>, fs'.files[d].content[1])
    BY <1>1, <1>4, <1>5, <2>2
  <2>4. ReadSoFar'
    BY <1>1, <1>2, <1>3, <1>4, <1>6, <2>1, <2>3 DEF ReadSoFar, Look
  <2> QED BY <1>1, <1>3, <1>7, <2>1, <2>4, ReadGoesOn DEF Reading, Look
<1>8. CASE at = "second"
  <2>1. at' = "after" /\ \A d \in {"d1", "d2"} : IsHeld(fs.files[d]) => holding.data = Append(<<>>, fs.files[d].content[1])
    BY <1>1, <1>8 DEF SourceInv, ReadSoFar
  <2>2. S!Same(fs.files[holding.dir]) => holding'.data = Append(holding.data, fs.files[holding.dir].content[2])
    BY <1>1, <1>8 DEF SourceInv, SourceTypes, CallTypes
  <2>3. \A d \in {"d1", "d2"} : Append(Append(<<>>, fs.files[d].content[1]), fs.files[d].content[2]) = fs.files[d].content
    BY FilesAreApart, PairsAreRead
  <2>4. \A d \in {"d1", "d2"} : IsHeld(fs.files[d])' => holding'.data = fs'.files[d].content
    <3> SUFFICES ASSUME NEW d \in {"d1", "d2"}, IsHeld(fs.files[d])' PROVE holding'.data = fs.files[d].content
      BY <1>1
    <3>1. IsHeld(fs.files[d]) /\ d = holding.dir /\ S!Same(fs.files[holding.dir])
      BY <1>4, <1>5
    <3>2. holding'.data = Append(holding.data, fs.files[d].content[2]) /\ holding.data = Append(<<>>, fs.files[d].content[1])
      BY <2>1, <2>2, <3>1
    <3> QED BY <2>3, <3>2
  <2>5. ReadSoFar'
    BY <1>1, <1>2, <1>3, <1>4, <2>1, <2>4 DEF ReadSoFar, Look
  <2> QED BY <1>1, <1>3, <1>8, <2>1, <2>5, ReadGoesOn DEF Reading, Look
<1> QED BY <1>1, <1>7, <1>8

LEMMA LookStep ==
  ASSUME SourceInv, S!Look("after", "again") \/ S!Look("reopened", "final")
  PROVE  SourceInv'
<1>1. at \in {"after", "reopened"} /\ UNCHANGED <<target, fs, moves, scope, bound, call, past, artist, reads>>
  BY DEF S!Look, S!Steady
<1>2. CASE S!Fails
  BY <1>1, <1>2, CallFails
<1>3. CASE at = "after" /\ S!Goes("again")
  <2>1. at' = "again" /\ UNCHANGED <<cmd, holding, reply, sourceReader>>
    BY <1>3 DEF S!Goes
  <2>2. ReadSoFar'
    BY <1>1, <1>3, <2>1 DEF SourceInv, ReadSoFar, Look, IsOld, IsHeld
  <2>3. holding = [dir |-> holding.dir, ino |-> holding.ino, stamp |-> holding.stamp, data |-> holding.data]
    BY DEF SourceInv, SourceTypes, CallTypes
  <2> QED BY <1>1, <1>3, <2>1, <2>2, <2>3, ReadGoesOn DEF Reading, Look
<1>4. CASE at = "reopened" /\ S!sameStableFile(fs.files[holding.dir]) /\ S!Goes("final")
  <2>1. at' = "final" /\ UNCHANGED <<cmd, holding, reply, sourceReader>>
    BY <1>4 DEF S!Goes
  <2>2. ReadSoFar'
    BY <2>1 DEF ReadSoFar, Look
  <2>3. holding = [dir |-> holding.dir, ino |-> holding.ino, stamp |-> holding.stamp, data |-> holding.data]
    BY DEF SourceInv, SourceTypes, CallTypes
  <2>4. holding.dir \in {"d1", "d2"} /\ IsHeld(fs.files[holding.dir])
    BY <1>4 DEF SourceInv, ReadSoFar, IsHeld, S!sameStableFile, S!Same
  <2>5. holding.data \in past.contents
    BY <1>4, <2>4 DEF SourceInv, ReadSoFar
  <2>6. call.side = "worktree"
    BY <1>4 DEF SourceInv, SourceTypes, CallTypes, SourceControl, Object
  <2>7. OfTheCall(holding'.data)
    BY <2>1, <2>5, <2>6 DEF OfTheCall
  <2> QED BY <1>1, <1>4, <2>1, <2>2, <2>3, <2>7, ReadGoesOn DEF Reading, Look
<1> QED BY <1>1, <1>2, <1>3, <1>4 DEF S!Look

LEMMA OpenLiveSourceStep == ASSUME SourceInv, S!OpenLiveSource PROVE SourceInv'
<1>1. /\ sourceReader = "unopened" /\ at = "free" /\ past' = S!Begins(fs)
      /\ call' = [op |-> "open", side |-> S!AfterSide, by |-> "opener"]
      /\ UNCHANGED <<fs, moves, scope, bound, target, artist, reads>>
  BY DEF S!OpenLiveSource
<1>2. /\ ScopeTypes' /\ ProjectTypes' /\ NowIsWitnessed' /\ Commands' = Commands /\ ArtistTypes' /\ ArtistSoFar' /\ TargetTypes'
  BY <1>1, WorldRests, ArtistRests, TargetRests
<1>3. target' = S!NoTarget /\ artist'.phase = "off"
  BY <1>1 DEF SourceInv, SourceControl
<1>4. /\ call'.op = "open" /\ call'.by = "opener"
      /\ call' \in [op : {"none", "open", "read", "list"}, side : {"none", "worktree", "index", "before", "after"},
                    by : {"none", "opener", "verifier", "artist"}]
  BY <1>1 DEF S!AfterSide
<1>5. TargetIsKept'
  BY <1>3 DEF TargetIsKept, S!NoTarget
<1>6. Found'
  BY <1>4 DEF Found
<1>7. CASE /\ sourceReader' = "opening" /\ UNCHANGED reply /\ holding' = S!Nothing
           /\ IF bound THEN at' = "check" /\ cmd' = S!First ELSE at' = "walk" /\ UNCHANGED cmd
  <2>1. CallTypes'
    BY <1>4, <1>7 DEF CallTypes, S!Nothing, Object
  <2>2. scope \in S!Scopes /\ S!First \in Commands /\ (scope # "workspace" => bound)
    BY DEF SourceInv, SourceTypes, ScopeTypes, S!Scopes, S!First, Commands
  <2>3. SourceControl'
    BY <1>1, <1>2, <1>3, <1>4, <1>7, <2>2 DEF SourceControl, Object
  <2>4. Resolved(S!First)'
    <3>1. /\ scope' = "workspace" => S!First' = "list"
          /\ scope' = "stage" => S!First' = "index"
          /\ scope' = "head" => S!First' = "HEAD"
          /\ scope' = "commit" => S!First' = "revision"
          /\ scope' \in {"diff", "merged"} => S!First' = "left"
      BY <1>1 DEF S!First
    <3>2. scope' \in {"workspace", "stage", "head", "commit", "diff", "merged"}
      BY <1>1, <2>2 DEF S!Scopes
    <3>4. ~target'.empty
      BY <1>3 DEF S!NoTarget
    <3> QED BY <1>3, <3>1, <3>2, <3>4 DEF Resolved
  <2>5. Opening'
    <3>1. S!First' = S!First
      BY <1>1 DEF S!First
    <3> QED BY <1>7, <2>4, <3>1 DEF Opening
  <2>6. ReadSoFar'
    BY <1>7 DEF ReadSoFar, Look
  <2> QED BY <1>2, <1>5, <1>6, <2>1, <2>3, <2>5, <2>6 DEF SourceInv, SourceTypes
<1>8. CASE sourceReader' = "failed" /\ UNCHANGED <<at, cmd, holding>>
  <2>1. CallTypes'
    BY <1>1, <1>4, <1>8 DEF CallTypes, SourceInv, SourceTypes
  <2>2. SourceControl'
    BY <1>1, <1>3, <1>4, <1>8 DEF SourceControl, Object
  <2>3. Opening' /\ ReadSoFar'
    BY <1>1, <1>8 DEF Opening, ReadSoFar, Look
  <2> QED BY <1>2, <1>5, <1>6, <2>1, <2>2, <2>3 DEF SourceInv, SourceTypes
<1> QED BY <1>7, <1>8 DEF S!OpenLiveSource

\* Git answers for the repository at the path.
LEMMA GitAnswers ==
  ASSUME SourceInv
  PROVE  /\ ~past.away => S!At = "own" /\ S!HeadOf = fs.head /\ S!SideOf = fs.side /\ S!IndexOf = fs.index
         /\ S!IndexOf \in past.indexes \/ past.away
         /\ past.away \in BOOLEAN
<1>1. past.away \in BOOLEAN /\ (fs.root # "own" \/ fs.git # "own" => past.away) /\ fs.index \in past.indexes
  BY DEF SourceInv, NowIsWitnessed
<1>2. ~past.away => fs.root = "own" /\ fs.git = "own"
  BY <1>1
<1>3. ~past.away => S!At = "own"
  BY <1>2 DEF S!At
<1> QED BY <1>1, <1>3 DEF S!HeadOf, S!SideOf, S!IndexOf

LEMMA GitTargetIsTyped ==
  ASSUME SourceInv, S!GitSucceeds(cmd), cmd \in Commands, call.op = "open", at = "git"
  PROVE  LET t == S!GitTarget(cmd)
         IN /\ t \in [base : Commits \cup {""}, head : Commits \cup {""}, empty : BOOLEAN,
                      changes : {"none", "added", "deleted", "modified"}]
            /\ cmd # "diff" => t.changes = "none"
            /\ t.changes = "modified" => ~t.empty
<1> DEFINE t == S!GitTarget(cmd)
<1> DEFINE Targets == [base : Commits \cup {""}, head : Commits \cup {""}, empty : BOOLEAN,
                       changes : {"none", "added", "deleted", "modified"}]
<1>1. target \in Targets /\ target.changes = "none"
  BY DEF SourceInv, SourceTypes, TargetTypes, TargetIsKept
<1>2. S!Commits = Commits /\ S!Own \subseteq Commits /\ \A c \in Commits : S!Parents[c] \in Commits \cup {""}
  BY DEF S!Commits, S!Own, S!Parents, Commits
<1>3. CASE cmd \in {"HEAD", "right"}
  <2>1. S!HeadOf \in Commits
    BY <1>2, <1>3 DEF S!GitSucceeds, S!Resolves
  <2>2. t \in {[target EXCEPT !.base = S!HeadOf], [target EXCEPT !.head = S!HeadOf]}
    BY <1>3 DEF S!GitTarget
  <2>3. t \in Targets /\ t.changes = "none"
    BY <1>1, <2>1, <2>2
  <2> QED BY <2>3
<1>4. CASE cmd \in {"revision", "left"}
  <2>1. S!SideOf \in Commits
    BY <1>2, <1>4 DEF S!GitSucceeds, S!Resolves
  <2>2. t \in {[target EXCEPT !.base = S!SideOf], [target EXCEPT !.head = S!SideOf]}
    BY <1>4 DEF S!GitTarget
  <2>3. t \in Targets /\ t.changes = "none"
    BY <1>1, <2>1, <2>2
  <2> QED BY <2>3
<1>5. CASE cmd = "show-ref"
  <2>1. t = [target EXCEPT !.empty = TRUE]
    BY <1>5 DEF S!GitTarget
  <2>2. t \in Targets /\ t.changes = "none"
    BY <1>1, <2>1
  <2> QED BY <2>2
<1>6. CASE cmd = "parents"
  <2>1. S!Has(target.head)
    BY <1>6 DEF S!GitSucceeds
  <2>2. target.head \in Commits
    BY <1>2, <2>1 DEF S!Has, Commits
  <2>3. t = [target EXCEPT !.base = S!Parents[target.head], !.empty = (S!Parents[target.head] = "")]
    BY <1>6 DEF S!GitTarget
  <2>4. (S!Parents[target.head] = "") \in BOOLEAN
    OBVIOUS
  <2>5. t \in Targets /\ t.changes = "none"
    BY <1>1, <1>2, <2>2, <2>3, <2>4
  <2> QED BY <2>5
<1>7. CASE cmd = "merge-base"
  <2>1. S!Has(target.base) /\ S!Has(target.head)
    BY <1>7 DEF S!GitSucceeds
  <2>2. target.base \in Commits /\ target.head \in Commits
    BY <1>2, <2>1 DEF S!Has, Commits
  <2>3. S!MergeBase(target.base, target.head) \in Commits \cup {""}
    BY <1>2, <2>2 DEF S!MergeBase
  <2>4. t = [target EXCEPT !.base = S!MergeBase(target.base, target.head)]
    BY <1>7 DEF S!GitTarget
  <2>5. t \in Targets /\ t.changes = "none"
    BY <1>1, <2>3, <2>4
  <2> QED BY <2>5
<1>8. CASE cmd = "diff"
  <2> DEFINE d == S!Diff(S!TreeAt("before"), S!TreeAt(S!AfterSide))
  <2>1. d \in {"none", "added", "deleted", "modified"} /\ (target.empty => d # "modified")
    BY DEF S!Diff, S!TreeAt
  <2>2. t = [target EXCEPT !.changes = d]
    BY <1>8 DEF S!GitTarget
  <2> HIDE DEF d
  <2>3. t \in Targets /\ t.changes = d /\ t.empty = target.empty
    BY <1>1, <2>1, <2>2
  <2> QED BY <1>8, <2>1, <2>3
<1>9. CASE cmd \in {"index", "symbolic", "after", "before", "list"}
  <2>1. t = target
    BY <1>9 DEF S!GitTarget
  <2> QED BY <1>1, <2>1
<1>10. cmd \in {"HEAD", "right", "revision", "left", "show-ref", "parents", "merge-base", "diff", "index", "symbolic",
                "after", "before", "list"}
  BY DEF Commands, SourceInv, SourceTypes, ScopeTypes, S!Scopes
<1> QED BY <1>3, <1>4, <1>5, <1>6, <1>7, <1>8, <1>9, <1>10

\* What the commands of an opening resolve, each for the next.
LEMMA GitResolves ==
  ASSUME SourceInv, S!GitSucceeds(cmd), call.op = "open", at = "git", ~past.away,
         target' = S!GitTarget(cmd), UNCHANGED <<scope, past, cmd>>
  PROVE  Resolved(S!NextCommand(cmd, target))' /\ (cmd = "diff" => Compared')
<1>1. Resolved(cmd) /\ cmd \in Commands /\ scope \in S!Scopes
  BY DEF SourceInv, SourceTypes, ScopeTypes, Opening, SourceControl, Object
<1>2. /\ S!At = "own" /\ S!HeadOf = fs.head /\ S!SideOf = fs.side /\ S!IndexOf = fs.index
      /\ fs.head \in past.heads /\ fs.side \in past.sides /\ fs.index \in past.indexes
  BY GitAnswers DEF SourceInv, NowIsWitnessed
<1>3. /\ fs.head \in {"unborn", "dangling", "c1", "c2"} /\ fs.side \in {"c1", "c3"}
      /\ target = [base |-> target.base, head |-> target.head, empty |-> target.empty, changes |-> target.changes]
      /\ target.base \in Commits \cup {""} /\ target.head \in Commits \cup {""} /\ target.empty \in BOOLEAN
  BY DEF SourceInv, SourceTypes, ProjectTypes, Projects, TargetTypes
<1>4. ASSUME cmd \notin {"HEAD", "right", "revision", "left", "show-ref", "parents", "merge-base", "diff"}
      PROVE  target' = target
  BY <1>4 DEF S!GitTarget
<1>5. ASSUME cmd = "diff"
      PROVE  /\ target'.changes = S!Diff(S!TreeAt("before"), S!TreeAt(S!AfterSide))
             /\ target'.base = target.base /\ target'.head = target.head /\ target'.empty = target.empty
             /\ S!TreeAt("before") = Base /\ Base' = Base
  <2>1. target' = [target EXCEPT !.changes = S!Diff(S!TreeAt("before"), S!TreeAt(S!AfterSide))]
    BY <1>5 DEF S!GitTarget
  <2>2. /\ target'.changes = S!Diff(S!TreeAt("before"), S!TreeAt(S!AfterSide))
        /\ target'.base = target.base /\ target'.head = target.head /\ target'.empty = target.empty
    BY <1>3, <2>1
  <2>3. S!TreeAt("before") = Base
    BY DEF S!TreeAt, Base
  <2> QED BY <2>2, <2>3 DEF Base
<1>6. CASE scope \in {"workspace", "head"}
  <2>1. CASE cmd = "HEAD"
    <3>1. target' = [target EXCEPT !.head = fs.head] /\ S!NextCommand(cmd, target)' = "after"
      BY <1>2, <1>6, <2>1 DEF S!GitTarget, S!NextCommand
    <3>2. target'.head = fs.head
      BY <1>3, <3>1
    <3>3. scope = "head"
      BY <1>1, <1>6, <2>1 DEF Commands
    <3> QED BY <1>2, <2>1, <3>1, <3>2, <3>3 DEF Resolved
  <2>2. CASE cmd # "HEAD"
    <3>1. cmd \in {"list", "after"} /\ (scope = "workspace" => cmd = "list") /\ (scope = "head" => cmd = "after")
      BY <1>1, <1>6, <2>2 DEF Commands
    <3>2. target' = target
      BY <1>4, <3>1
    <3>3. S!NextCommand(cmd, target)' = "done"
      BY <1>6, <3>1 DEF S!NextCommand
    <3>4. scope = "workspace" => target = S!NoTarget
      BY <1>1 DEF Resolved
    <3>5. scope = "head" => target.head \in past.heads
      BY <1>1, <3>1 DEF Resolved
    <3> QED BY <1>6, <3>1, <3>2, <3>3, <3>4, <3>5 DEF Resolved
  <2> QED BY <2>1, <2>2
<1>7. CASE scope = "stage"
  <2>1. cmd \in {"index", "HEAD", "symbolic", "show-ref", "after", "before", "diff"}
    BY <1>1, <1>7 DEF Commands
  <2>2. CASE cmd \in {"index", "symbolic"}
    <3>1. target' = target /\ target = S!NoTarget
      BY <1>1, <1>4, <1>7, <2>2 DEF Resolved
    <3>2. S!NextCommand(cmd, target)' \in {"HEAD", "show-ref"}
      BY <2>2 DEF S!NextCommand
    <3> QED BY <1>7, <2>2, <3>1, <3>2 DEF Resolved
  <2>3. CASE cmd = "HEAD"
    <3>1. target' = [target EXCEPT !.base = fs.head] /\ S!NextCommand(cmd, target)' = "after" /\ target = S!NoTarget
      BY <1>1, <1>2, <1>7, <2>3 DEF S!GitTarget, S!NextCommand, Resolved
    <3>2. target'.base = fs.head /\ target'.empty = FALSE
      BY <3>1 DEF S!NoTarget
    <3> QED BY <1>2, <1>7, <2>3, <3>1, <3>2 DEF Resolved
  <2>4. CASE cmd = "show-ref"
    <3>1. target' = [target EXCEPT !.empty = TRUE] /\ S!NextCommand(cmd, target)' = "after" /\ fs.head = "unborn"
      BY <1>2, <2>4 DEF S!GitTarget, S!NextCommand, S!GitSucceeds
    <3>2. target'.empty = TRUE
      BY <1>3, <3>1
    <3> QED BY <1>2, <1>7, <2>4, <3>1, <3>2 DEF Resolved
  <2>5. CASE cmd \in {"after", "before", "diff"}
    <3>1. IF target.empty THEN "unborn" \in past.heads ELSE target.base \in past.heads
      BY <1>1, <1>7, <2>5 DEF Resolved
    <3>2. target'.base = target.base /\ target'.empty = target.empty
      BY <1>4, <1>5, <2>5
    <3>3. S!NextCommand(cmd, target)' \in {"before", "diff", "done"}
      BY <1>7, <2>5 DEF S!NextCommand
    <3>4. cmd = "diff" => Compared'
      <4>1. ASSUME cmd = "diff" PROVE fs.index # S!Unmerged /\ S!TreeAt(S!AfterSide) = fs.index
        BY <1>2, <1>7, <4>1 DEF S!GitSucceeds, S!Inventory, S!AfterSide, S!TreeAt
      <4> QED BY <1>2, <1>5, <1>7, <4>1 DEF Compared
    <3> QED BY <1>7, <3>1, <3>2, <3>3, <3>4 DEF Resolved
  <2> QED BY <2>1, <2>2, <2>3, <2>4, <2>5
<1>8. ASSUME scope \in {"commit", "diff", "merged"}, cmd = "diff" PROVE Compared'
  <2>1. S!TreeAt(S!AfterSide) = S!Tree[target.head]
    BY <1>8 DEF S!TreeAt, S!AfterSide
  <2> QED BY <1>5, <1>8, <2>1 DEF Compared
<1>9. CASE scope = "commit"
  <2>1. cmd \in {"revision", "parents", "after", "before", "diff"}
    BY <1>1, <1>9 DEF Commands
  <2>2. CASE cmd = "revision"
    <3>1. target' = [target EXCEPT !.head = fs.side] /\ S!NextCommand(cmd, target)' = "parents"
      BY <1>2, <1>9, <2>2 DEF S!GitTarget, S!NextCommand
    <3>2. target'.head = fs.side
      BY <1>3, <3>1
    <3> QED BY <1>2, <1>9, <2>2, <3>1, <3>2 DEF Resolved
  <2>3. CASE cmd = "parents"
    <3>1. /\ target' = [target EXCEPT !.base = S!Parents[target.head], !.empty = (S!Parents[target.head] = "")]
          /\ S!NextCommand(cmd, target)' = "after" /\ target.head \in past.sides
      BY <1>1, <1>9, <2>3 DEF S!GitTarget, S!NextCommand, Resolved
    <3>2. target'.head = target.head /\ target'.base = S!Parents[target.head]
      BY <1>3, <3>1
    <3> QED BY <1>9, <2>3, <3>1, <3>2 DEF Resolved
  <2>4. CASE cmd \in {"after", "before", "diff"}
    <3>1. target.head \in past.sides /\ target.base = S!Parents[target.head]
      BY <1>1, <1>9, <2>4 DEF Resolved
    <3>2. target'.head = target.head /\ target'.base = target.base
      BY <1>4, <1>5, <2>4
    <3> QED BY <1>8, <1>9, <3>1, <3>2 DEF Resolved
  <2> QED BY <2>1, <2>2, <2>3, <2>4
<1>10. CASE scope \in {"diff", "merged"}
  <2>1. cmd \in {"left", "right", "merge-base", "after", "before", "diff"} /\ (scope = "diff" => cmd # "merge-base")
    BY <1>1, <1>10 DEF Commands
  <2>2. target.empty = FALSE
    BY <1>1, <1>3, <1>10 DEF Resolved
  <2>3. CASE cmd = "left"
    <3>1. target' = [target EXCEPT !.base = fs.side] /\ S!NextCommand(cmd, target)' = "right"
      BY <1>2, <1>10, <2>3 DEF S!GitTarget, S!NextCommand
    <3>2. target'.base = fs.side /\ target'.empty = FALSE
      BY <1>3, <2>2, <3>1
    <3> QED BY <1>2, <1>3, <1>10, <2>3, <3>1, <3>2 DEF Resolved
  <2>4. CASE cmd = "right"
    <3>1. /\ target' = [target EXCEPT !.head = fs.head]
          /\ S!NextCommand(cmd, target)' = (IF scope = "merged" THEN "merge-base" ELSE "after")
      BY <1>2, <1>10, <2>4 DEF S!GitTarget, S!NextCommand
    <3>2. target'.head = fs.head /\ target'.base = target.base /\ target'.empty = FALSE
      BY <1>3, <2>2, <3>1
    <3>3. /\ scope = "diff" => target.base \in past.sides
          /\ scope = "merged" => target.base \in {"c1", "c3"}
      BY <1>1, <2>4 DEF Resolved
    <3>4. fs.head \in {"c1", "c2"}
      <4>1. fs.head \in S!Commits
        BY <1>2, <2>4 DEF S!GitSucceeds, S!Resolves
      <4> QED BY <1>3, <4>1 DEF S!Commits, S!Parents
    <3> QED BY <1>2, <1>10, <2>4, <3>1, <3>2, <3>3, <3>4 DEF Resolved
  <2>5. CASE cmd = "merge-base"
    <3>1. /\ target' = [target EXCEPT !.base = S!MergeBase(target.base, target.head)]
          /\ S!NextCommand(cmd, target)' = "after"
      BY <2>5 DEF S!GitTarget, S!NextCommand
    <3>2. scope = "merged" /\ target.base \in {"c1", "c3"} /\ target.head \in {"c1", "c2"} /\ target.head \in past.heads
      BY <1>1, <1>10, <2>1, <2>5 DEF Resolved
    <3>3. S!MergeBase(target.base, target.head) = "c1"
      <4>1. S!Parents["c1"] = "" /\ S!Parents["c2"] = "c1" /\ S!Parents["c3"] = "c1"
        BY DEF S!Parents
      <4>2. \/ target.base = "c1" /\ target.head = "c1"
            \/ target.base = "c1" /\ target.head = "c2"
            \/ target.base = "c3" /\ target.head = "c1"
            \/ target.base = "c3" /\ target.head = "c2"
        BY <3>2
      <4> QED BY <4>1, <4>2 DEF S!MergeBase
    <3>4. target'.base = "c1" /\ target'.head = target.head /\ target'.empty = FALSE
      BY <1>3, <2>2, <3>1, <3>3
    <3> QED BY <2>5, <3>1, <3>2, <3>4 DEF Resolved
  <2>6. CASE cmd \in {"after", "before", "diff"}
    <3>1. /\ target.head \in past.heads /\ (scope = "diff" => target.base \in past.sides)
          /\ scope = "merged" => target.base = "c1"
      BY <1>1, <1>10, <2>6 DEF Resolved
    <3>2. target'.head = target.head /\ target'.base = target.base /\ target'.empty = FALSE
      BY <1>4, <1>5, <2>2, <2>6
    <3>3. S!NextCommand(cmd, target)' \in {"before", "diff", "done"}
      BY <1>10, <2>6 DEF S!NextCommand
    <3> QED BY <1>8, <1>10, <3>1, <3>2, <3>3 DEF Resolved
  <2> QED BY <2>1, <2>3, <2>4, <2>5, <2>6
<1> QED BY <1>1, <1>6, <1>7, <1>9, <1>10 DEF S!Scopes

LEMMA GitStep == ASSUME SourceInv, S!Git PROVE SourceInv'
<1>1. /\ at = "git" /\ at' = "confirm" /\ UNCHANGED <<cmd, holding, sourceReader>>
      /\ UNCHANGED <<fs, moves, scope, bound, call, past, artist, reads>>
      /\ reply'.ok = S!GitSucceeds(cmd)
      /\ reply'.data = IF cmd \in {"entry", "list"} /\ S!GitSucceeds(cmd) /\ call.side # "worktree"
                       THEN S!TreeAt(call.side) ELSE holding.data
      /\ target' = IF call.op = "open" /\ S!GitSucceeds(cmd) THEN S!GitTarget(cmd) ELSE target
  BY DEF S!Git, S!Steady
<1>2. ScopeTypes' /\ ProjectTypes' /\ NowIsWitnessed' /\ Commands' = Commands /\ ArtistTypes' /\ ArtistSoFar'
  BY <1>1, WorldRests, ArtistRests
<1>3. CallTypes'
  BY <1>1 DEF SourceInv, SourceTypes, CallTypes, Object
<1>4. ReadSoFar'
  BY <1>1 DEF ReadSoFar, Look
<1>5. CASE call.op = "open"
  <2>1. cmd \in Commands /\ artist.phase = "off" /\ target.changes = "none" /\ sourceReader = "opening"
    BY <1>1, <1>5 DEF SourceInv, SourceControl, TargetIsKept, Object
  <2>2. SourceControl'
    BY <1>1, <1>2, <1>5, <2>1 DEF SourceControl, Object
  <2>3. Found'
    BY <1>1, <1>5 DEF Found
  <2>4. CASE S!GitSucceeds(cmd)
    <3>1. target' = S!GitTarget(cmd)
      BY <1>1, <1>5, <2>4
    <3>2. TargetTypes' /\ (cmd # "diff" => target'.changes = "none") /\ (target'.changes = "modified" => ~target'.empty)
      BY <1>1, <1>5, <2>1, <2>4, <3>1, GitTargetIsTyped DEF TargetTypes
    <3>3. TargetIsKept'
      BY <1>1, <1>5, <2>1, <2>4, <3>2 DEF TargetIsKept
    <3>4. ASSUME ~past.away PROVE Resolved(S!NextCommand(cmd, target))' /\ (cmd = "diff" => Compared')
      BY <1>1, <1>5, <2>4, <3>1, <3>4, GitResolves
    <3>5. Opening'
      BY <1>1, <2>4, <3>4 DEF Opening
    <3> QED BY <1>2, <1>3, <1>4, <2>2, <2>3, <3>2, <3>3, <3>5 DEF SourceInv, SourceTypes
  <2>5. CASE ~S!GitSucceeds(cmd)
    <3>1. target' = target
      BY <1>1, <2>5
    <3>2. TargetTypes' /\ TargetIsKept'
      BY <1>1, <2>1, <3>1, TargetRests DEF SourceInv, TargetIsKept
    <3>3. Resolved(cmd) => Resolved(cmd)'
      BY <1>1, <3>1 DEF Resolved
    <3>4. Opening'
      BY <1>1, <2>5, <3>3 DEF SourceInv, Opening
    <3> QED BY <1>2, <1>3, <1>4, <2>2, <2>3, <3>2, <3>4 DEF SourceInv, SourceTypes
  <2> QED BY <2>4, <2>5
<1>6. CASE call.op # "open"
  <2>1. target' = target /\ call.op \in {"read", "list"}
    BY <1>1, <1>6 DEF SourceInv, SourceTypes, CallTypes, SourceControl
  <2>2. ASSUME call.op = "read", S!GitSucceeds(cmd) PROVE OfTheCall(reply'.data)
    <3>1. cmd \in {"entry", "blob"} /\ (cmd = "blob" => OfTheCall(holding.data)) /\ call.side # "worktree"
          /\ (call.side = "before" => ~target.empty)
      BY <1>1, <2>2 DEF SourceInv, SourceControl, Found, Object, Reading, Look
    <3>2. CASE cmd = "blob"
      BY <1>1, <3>1, <3>2
    <3>3. CASE cmd = "entry"
      <4>1. reply'.data = S!TreeAt(call.side)
        BY <1>1, <2>2, <3>1, <3>3
      <4>2. call.side \in {"none", "index", "before", "after"}
        BY <3>1 DEF SourceInv, SourceTypes, CallTypes
      <4> QED BY <3>1, <4>1, <4>2, GitAnswers DEF OfTheCall, S!TreeAt
    <3> QED BY <3>1, <3>2, <3>3
  <2>3. Found'
    <3>1. ASSUME call.op = "read", cmd = "blob" PROVE OfTheCall(holding.data)
      BY <1>1, <3>1 DEF SourceInv, Found, Object
    <3> QED BY <1>1, <2>1, <2>2, <3>1 DEF Found, OfTheCall, Object
  <2>4. ASSUME call.op = "read" PROVE call.side # "worktree" /\ cmd \in {"entry", "blob"}
    BY <1>1, <2>4 DEF SourceInv, SourceControl, Object, Reading, Look
  <2>5. call.op = "list" => cmd = "list"
    BY <1>1 DEF SourceInv, SourceControl, Object
  <2> QED BY <1>1, <1>3, <1>4, <2>1, <2>3, <2>4, <2>5, CallGoesOn DEF Object
<1> QED BY <1>5, <1>6

\* An opening goes on with the next command.
LEMMA OpeningGoesOn ==
  ASSUME SourceInv, call.op = "open", at = "confirm",
         UNCHANGED <<target, fs, moves, scope, bound, past, artist, reads>>,
         NEW next \in Commands, S!Runs(next), UNCHANGED holding,
         call' = [call EXCEPT !.side = IF cmd' = "before" THEN "before" ELSE S!AfterSide],
         ~(cmd = "diff" /\ reply.ok), ~past.away => Resolved(next)
  PROVE  SourceInv'
<1>1. ScopeTypes' /\ ProjectTypes' /\ NowIsWitnessed' /\ Commands' = Commands /\ ArtistTypes' /\ ArtistSoFar' /\ TargetTypes'
  BY WorldRests, ArtistRests, TargetRests
<1>2. at' = "check" /\ cmd' = next /\ UNCHANGED <<reply, sourceReader>>
  BY DEF S!Runs
<1>3. /\ call' \in [op : {"none", "open", "read", "list"}, side : {"none", "worktree", "index", "before", "after"},
                    by : {"none", "opener", "verifier", "artist"}]
      /\ call'.op = "open"
  BY DEF SourceInv, SourceTypes, CallTypes, S!AfterSide
<1>4. CallTypes'
  BY <1>2, <1>3 DEF SourceInv, SourceTypes, CallTypes, Object
<1>5. artist.phase = "off" /\ sourceReader = "opening" /\ target.changes = "none"
  BY DEF SourceInv, SourceControl, TargetIsKept
<1>6. SourceControl'
  BY <1>1, <1>2, <1>3, <1>5 DEF SourceControl, Object
<1>7. TargetIsKept'
  BY <1>2, <1>5 DEF TargetIsKept
<1>8. Opening'
  <2>1. Resolved(next) => Resolved(next)'
    BY DEF Resolved
  <2> QED BY <1>2, <2>1 DEF Opening
<1>9. ReadSoFar' /\ Found'
  BY <1>2, <1>3 DEF ReadSoFar, Found, Look
<1> QED BY <1>1, <1>4, <1>6, <1>7, <1>8, <1>9 DEF SourceInv, SourceTypes

LEMMA CommandsFollow ==
  ASSUME SourceInv, cmd \in Commands
  PROVE  /\ S!NextCommand(cmd, target) \in Commands \cup {"done"}
         /\ S!NextCommand(cmd, target) = "done" => cmd = "diff" \/ scope \in {"workspace", "head"}
         /\ cmd = "diff" => S!NextCommand(cmd, target) = "done"
<1>1. scope \in {"workspace", "stage", "head", "commit", "diff", "merged"}
  BY DEF SourceInv, SourceTypes, ScopeTypes, S!Scopes
<1>2. CASE scope \in {"workspace", "head"}
  BY <1>2 DEF Commands, S!NextCommand
<1>3. CASE scope = "stage"
  BY <1>3 DEF Commands, S!NextCommand
<1>4. CASE scope = "commit"
  BY <1>4 DEF Commands, S!NextCommand
<1>5. CASE scope = "diff"
  BY <1>5 DEF Commands, S!NextCommand
<1>6. CASE scope = "merged"
  BY <1>6 DEF Commands, S!NextCommand
<1> QED BY <1>1, <1>2, <1>3, <1>4, <1>5, <1>6

LEMMA ConfirmStep == ASSUME SourceInv, S!Confirm PROVE SourceInv'
<1>1. /\ at = "confirm" /\ UNCHANGED <<target, fs, moves, scope, bound, past, artist, reads>>
      /\ call' = IF call.op = "open" /\ at' = "check"
                 THEN [call EXCEPT !.side = IF cmd' = "before" THEN "before" ELSE S!AfterSide] ELSE call
  BY DEF S!Confirm
<1>2. CASE S!Fails
  <2>1. at' = "free"
    BY <1>2 DEF S!Fails, S!Ends
  <2>2. UNCHANGED <<target, fs, moves, scope, bound, call, past, artist, reads>>
    BY <1>1, <2>1
  <2> QED BY <1>1, <1>2, <2>2, CallFails
<1>3. CASE call.op # "open" /\ ~S!Fails /\ S!revalidate
  <2>1. call.op \in {"read", "list"} /\ call' = call
    BY <1>1, <1>3 DEF SourceInv, SourceTypes, CallTypes, SourceControl
  <2>2. /\ reply.ok /\ holding' = [S!Nothing EXCEPT !.data = reply.data]
        /\ \/ cmd = "entry" /\ S!Runs("blob")
           \/ cmd # "entry" /\ at' = "final" /\ UNCHANGED <<cmd, reply, sourceReader>>
    <3>1. \/ ~reply.ok \/ (cmd = "entry" /\ reply.data = S!Absent)
          \/ reply.ok /\ cmd = "entry" /\ reply.data # S!Absent
          \/ reply.ok /\ cmd # "entry"
      OBVIOUS
    <3>2. CASE ~reply.ok \/ (cmd = "entry" /\ reply.data = S!Absent)
      BY <1>3, <3>2 DEF S!Confirm
    <3>3. CASE reply.ok /\ cmd = "entry" /\ reply.data # S!Absent
      BY <1>3, <3>3 DEF S!Confirm
    <3>4. CASE reply.ok /\ cmd # "entry"
      BY <1>3, <3>4 DEF S!Confirm
    <3> QED BY <3>1, <3>2, <3>3, <3>4
  <2>3. /\ holding' = [dir |-> holding'.dir, ino |-> holding'.ino, stamp |-> holding'.stamp, data |-> holding'.data]
        /\ holding'.data = reply.data
    BY <2>2 DEF S!Nothing
  <2>4. call.op = "read" => OfTheCall(reply.data)
    BY <1>1, <2>2 DEF SourceInv, Found
  <2>5. OfTheCall(reply.data) => OfTheCall(holding.data)'
    BY <1>1, <2>1, <2>3 DEF OfTheCall
  <2>6. call.op = "list" => cmd = "list"
    BY <1>1 DEF SourceInv, SourceControl, Object
  <2>7. call.op = "read" => call.side # "worktree"
    BY <1>1 DEF SourceInv, SourceControl, Reading, Look, Object
  <2>8. CASE cmd = "entry" /\ S!Runs("blob")
    <3>1. at' = "check" /\ cmd' = "blob" /\ UNCHANGED <<reply, sourceReader>> /\ call.op = "read"
      BY <2>1, <2>6, <2>8 DEF S!Runs
    <3>2. CallTypes'
      BY <2>1, <2>3, <3>1 DEF SourceInv, SourceTypes, CallTypes, Object
    <3>3. ReadSoFar' /\ Found'
      BY <2>1, <2>4, <2>5, <3>1 DEF ReadSoFar, Found, Look, Object
    <3> QED BY <1>1, <2>1, <2>7, <3>1, <3>2, <3>3, CallGoesOn DEF Object
  <2>9. CASE cmd # "entry" /\ at' = "final" /\ UNCHANGED <<cmd, reply, sourceReader>>
    <3>1. CallTypes'
      BY <2>1, <2>3, <2>9 DEF SourceInv, SourceTypes, CallTypes
    <3>2. ReadSoFar' /\ Found'
      BY <2>1, <2>4, <2>5, <2>9 DEF ReadSoFar, Found, Look, Object
    <3> QED BY <1>1, <2>1, <2>9, <3>1, <3>2, CallGoesOn DEF Object
  <2> QED BY <2>2, <2>8, <2>9
<1>4. CASE call.op = "open" /\ ~S!Fails /\ S!revalidate
  <2>1. cmd \in Commands
    BY <1>1, <1>4 DEF SourceInv, SourceControl, Object
  <2>2. CASE ~reply.ok
    <3>1. cmd = "HEAD" /\ scope = "stage" /\ S!Runs("symbolic") /\ UNCHANGED holding
      BY <1>4, <2>2 DEF S!Confirm
    <3>2. "symbolic" \in Commands
      BY <3>1 DEF Commands
    <3>3. ~past.away => Resolved("symbolic")
      BY <1>1, <1>4, <2>2, <3>1 DEF SourceInv, Opening, Resolved
    <3>4. at' = "check"
      BY <3>1 DEF S!Runs
    <3> QED BY <1>1, <1>4, <2>2, <3>1, <3>2, <3>3, <3>4, OpeningGoesOn
  <2>3. CASE reply.ok /\ S!NextCommand(cmd, target) = "done"
    <3>1. S!Ends(S!NewLiveSourceTarget(target), S!Absent)
      BY <1>4, <2>3 DEF S!Confirm
    <3>2. at' = "free"
      BY <3>1 DEF S!Ends
    <3>3. ASSUME ~past.away PROVE Resolved("done") /\ Compared
      <4>1. Resolved("done") /\ (cmd = "diff" => Compared)
        BY <1>1, <1>4, <2>3, <3>3 DEF SourceInv, Opening
      <4>2. cmd = "diff" \/ scope \in {"workspace", "head"}
        BY <2>1, <2>3, CommandsFollow
      <4>3. scope \in {"workspace", "head"} => Compared
        BY DEF Compared
      <4> QED BY <4>1, <4>2, <4>3
    <3>4. call' = call
      BY <1>1, <3>2
    <3> QED BY <1>1, <1>4, <3>1, <3>3, <3>4, CallEnds
  <2>4. CASE reply.ok /\ S!NextCommand(cmd, target) # "done"
    <3> DEFINE next == S!NextCommand(cmd, target)
    <3>1. S!Runs(next) /\ UNCHANGED holding
      BY <1>4, <2>4 DEF S!Confirm
    <3>2. next \in Commands /\ cmd # "diff"
      BY <2>1, <2>4, CommandsFollow
    <3>3. ~past.away => Resolved(next)
      BY <1>1, <1>4, <2>4 DEF SourceInv, Opening
    <3>4. at' = "check"
      BY <3>1 DEF S!Runs
    <3>5. call' = [call EXCEPT !.side = IF cmd' = "before" THEN "before" ELSE S!AfterSide]
      BY <1>1, <1>4, <3>4
    <3> HIDE DEF next
    <3> QED BY <1>1, <1>4, <3>1, <3>2, <3>3, <3>5, OpeningGoesOn
  <2> QED BY <2>2, <2>3, <2>4
<1> QED BY <1>2, <1>3, <1>4 DEF S!Confirm

\* A call is made.
LEMMA CallBegins ==
  ASSUME SourceInv, sourceReader \in {"open", "closed"},
         NEW op \in {"read", "list"}, NEW side \in {"worktree", "index", "before", "after"},
         NEW by \in {"verifier", "artist"}, S!Begin(op, side, by),
         op = "read" /\ side = "before" => ~target.empty, ArtistTypes', ArtistSoFar',
         artist'.phase \in {"read", "comparing", "compared", "showing base"} => target.changes = "modified"
  PROVE  SourceInv'
<1>1. /\ at = "free" /\ at' = "revalidate" /\ call' = [op |-> op, side |-> side, by |-> by]
      /\ past' = S!Begins(fs) /\ holding' = S!Nothing
      /\ UNCHANGED <<fs, moves, scope, bound, sourceReader, target, cmd, reply>>
  BY DEF S!Begin
<1>2. ScopeTypes' /\ ProjectTypes' /\ NowIsWitnessed' /\ Commands' = Commands /\ TargetTypes'
  BY <1>1, WorldRests, TargetRests
<1>3. /\ call'.op = op /\ call'.side = side /\ call'.by = by /\ op # "open"
      /\ call' \in [op : {"none", "open", "read", "list"}, side : {"none", "worktree", "index", "before", "after"},
                    by : {"none", "opener", "verifier", "artist"}]
  BY <1>1
<1>4. CallTypes'
  BY <1>1, <1>3 DEF SourceInv, SourceTypes, CallTypes, S!Nothing
<1>5. SourceControl'
  BY <1>1, <1>3 DEF SourceControl, Object
<1>6. TargetIsKept'
  BY <1>1, <1>3 DEF SourceInv, TargetIsKept
<1>7. Opening' /\ ReadSoFar' /\ Found'
  BY <1>1, <1>3 DEF Opening, ReadSoFar, Found, Look, Object
<1> QED BY <1>2, <1>4, <1>5, <1>6, <1>7 DEF SourceInv, SourceTypes

LEMMA ReadLiveStep == ASSUME SourceInv, NEW side \in S!Sides, S!readLive(side) PROVE SourceInv'
<1>1. /\ sourceReader \in {"open", "closed"} /\ (side = "before" => ~target.empty)
      /\ S!Begin("read", side, "verifier") /\ UNCHANGED artist
  BY DEF S!readLive
<1>2. side \in {"worktree", "index", "before", "after"}
  BY DEF S!Sides
<1>3. ArtistTypes' /\ ArtistSoFar'
  BY <1>1, ArtistRests
<1>4. artist'.phase \in {"read", "comparing", "compared", "showing base"} => target.changes = "modified"
  BY <1>1 DEF SourceInv, TargetIsKept
<1> QED BY <1>1, <1>2, <1>3, <1>4, CallBegins

LEMMA PrepareStep ==
  ASSUME SourceInv,
         \/ S!Prepare("off", "list", S!AfterSide) \/ S!Prepare("listed", "read", S!AfterSide)
         \/ S!Prepare("read", "read", "before") \/ S!Prepare("compared", "read", "before")
         \/ S!Prepare("shown base", "read", S!AfterSide)
  PROVE  SourceInv'
<1>1. PICK from \in {"off", "listed", "read", "compared", "shown base"}, op \in {"read", "list"},
           side \in {"before", S!AfterSide} :
        S!Prepare(from, op, side) /\ (side = "before" => from \in {"read", "compared"})
  BY DEF S!AfterSide
<1>2. /\ artist.phase = from /\ sourceReader \in {"open", "closed"} /\ S!Begin(op, side, "artist")
      /\ artist' = [artist EXCEPT !.phase =
           CASE from = "off" -> "listing" [] from = "listed" -> "reading" [] from = "read" -> "comparing"
             [] from = "compared" -> "showing base" [] from = "shown base" -> "showing"]
  BY <1>1 DEF S!Prepare
<1>3. artist = [phase |-> artist.phase, file |-> artist.file, prior |-> artist.prior, images |-> artist.images]
  BY DEF SourceInv, SourceTypes, ArtistTypes
<1>4. /\ ArtistTypes' /\ artist'.file = artist.file /\ artist'.prior = artist.prior /\ artist'.images = artist.images
  BY <1>2, <1>3 DEF ArtistTypes
<1>5. /\ from = "off" => artist'.phase = "listing"
      /\ from = "listed" => artist'.phase = "reading"
      /\ from = "read" => artist'.phase = "comparing"
      /\ from = "compared" => artist'.phase = "showing base"
      /\ from = "shown base" => artist'.phase = "showing"
  BY <1>2, <1>3
<1>6. ArtistSoFar'
  BY <1>1, <1>2, <1>4, <1>5 DEF SourceInv, ArtistSoFar, BaseImage, CurrentImage
<1>7. side \in {"worktree", "index", "before", "after"}
  BY DEF S!AfterSide
<1>8. from \in {"read", "compared"} => target.changes = "modified" /\ ~target.empty
  BY <1>2 DEF SourceInv, TargetIsKept
<1>9. artist'.phase \in {"read", "comparing", "compared", "showing base"} => target.changes = "modified"
  BY <1>1, <1>5, <1>8
<1> QED BY <1>1, <1>2, <1>4, <1>6, <1>7, <1>8, <1>9, CallBegins

LEMMA ImagesAreAppended ==
  ASSUME NEW x, NEW y
  PROVE  Append(<<>>, x) = <<x>> /\ Append(<<x>>, y) = <<x, y>>
<1> DEFINE X == {x, y}
<1>1. <<>> \in Seq(X) /\ <<x>> \in Seq(X) /\ <<x, y>> \in Seq(X) /\ x \in X /\ y \in X
  OBVIOUS
<1> HIDE DEF X
<1>2. Append(<<>>, x) = <<x>>
  <2> DEFINE p == Append(<<>>, x)
  <2>1. p \in Seq(X) /\ Len(p) = 1 /\ p[1] = x
    BY <1>1, AppendProperties, SMTT(30)
  <2> HIDE DEF p
  <2>2. p = <<x>>
    BY <1>1, <2>1
  <2> QED BY <2>2 DEF p
<1>3. Append(<<x>>, y) = <<x, y>>
  <2> DEFINE p == Append(<<x>>, y)
  <2>1. p \in Seq(X) /\ Len(p) = 2 /\ p[2] = y /\ p[1] = x
    BY <1>1, AppendProperties, SMTT(30)
  <2> HIDE DEF p
  <2>2. p = <<x, y>>
    BY <1>1, <2>1
  <2> QED BY <2>2 DEF p
<1> QED BY <1>2, <1>3

LEMMA LearnStep == ASSUME SourceInv, S!Learn PROVE SourceInv'
<1>1. /\ at = "free" /\ call' = S!Nobody
      /\ UNCHANGED <<fs, moves, scope, bound, sourceReader, target, at, cmd, holding, reply, past, reads>>
  BY DEF S!Learn
<1>2. artist = [phase |-> artist.phase, file |-> artist.file, prior |-> artist.prior, images |-> artist.images]
  BY DEF SourceInv, SourceTypes, ArtistTypes
<1>3. /\ artist.phase \in {"listing", "reading", "comparing", "showing base", "showing"}
      /\ ArtistTypes' /\ ArtistSoFar'
      /\ artist'.phase \in {"read", "comparing", "compared", "showing base"} => target.changes = "modified"
  <2>1. CASE artist.phase = "listing"
    <3>1. artist' = [artist EXCEPT !.phase = IF reply.ok THEN IF S!Shown THEN "listed" ELSE "done" ELSE "failed"]
      BY <2>1 DEF S!Learn
    <3>2. artist'.phase \in {"listed", "done", "failed"} /\ artist'.images = artist.images /\ ArtistTypes'
      BY <1>2, <3>1 DEF ArtistTypes
    <3> QED BY <2>1, <3>2 DEF SourceInv, ArtistSoFar
  <2>2. CASE artist.phase = "reading"
    <3>1. artist' = IF ~reply.ok THEN [artist EXCEPT !.phase = "failed"]
                    ELSE [artist EXCEPT !.file = reply.data, !.phase = IF S!Paired THEN "read" ELSE "shown base"]
      BY <2>2 DEF S!Learn
    <3>2. /\ artist'.phase \in {"failed", "read", "shown base"} /\ artist'.images = artist.images /\ ArtistTypes'
          /\ artist'.phase = "read" => S!Paired
      BY <1>2, <3>1 DEF ArtistTypes
    <3> QED BY <2>2, <3>2 DEF SourceInv, ArtistSoFar, S!Paired
  <2>3. CASE artist.phase = "comparing"
    <3>1. artist' = IF ~reply.ok THEN [artist EXCEPT !.phase = "failed"]
                    ELSE [artist EXCEPT !.prior = reply.data, !.phase = IF reply.data = artist.file THEN "done" ELSE "compared"]
      BY <2>3 DEF S!Learn
    <3>2. /\ artist'.phase \in {"failed", "done", "compared"} /\ artist'.images = artist.images /\ ArtistTypes'
          /\ artist'.phase = "compared" => artist'.prior # artist'.file
      BY <1>2, <3>1 DEF ArtistTypes
    <3>3. artist.images = <<>> /\ target.changes = "modified"
      BY <2>3 DEF SourceInv, ArtistSoFar, TargetIsKept
    <3> QED BY <2>3, <3>2, <3>3 DEF ArtistSoFar
  <2>4. CASE artist.phase = "showing base"
    <3>1. artist' = IF reply.ok /\ reply.data = artist.prior
                    THEN [artist EXCEPT !.phase = "shown base",
                                        !.images = Append(@, [side |-> "base", data |-> reply.data])]
                    ELSE [artist EXCEPT !.phase = "failed"]
      BY <2>4 DEF S!Learn, S!VerifyBinary
    <3>2. artist.images = <<>> /\ artist.prior # artist.file
      BY <2>4 DEF SourceInv, ArtistSoFar
    <3>3. CASE reply.ok /\ reply.data = artist.prior
      <4>1. /\ artist'.phase = "shown base" /\ artist'.images = Append(<<>>, BaseImage) /\ ArtistTypes'
            /\ artist'.prior = artist.prior /\ artist'.file = artist.file
        BY <1>2, <3>1, <3>2, <3>3 DEF ArtistTypes, BaseImage
      <4>2. artist'.images = <<BaseImage>>
        BY <4>1, ImagesAreAppended
      <4> QED BY <2>4, <3>2, <4>1, <4>2 DEF ArtistSoFar, BaseImage, CurrentImage
    <3>4. CASE ~(reply.ok /\ reply.data = artist.prior)
      <4>1. artist'.phase = "failed" /\ ArtistTypes'
        BY <1>2, <3>1, <3>4 DEF ArtistTypes
      <4> QED BY <2>4, <4>1 DEF ArtistSoFar
    <3> QED BY <3>3, <3>4
  <2>5. CASE artist.phase = "showing"
    <3>1. artist' = IF reply.ok /\ reply.data = artist.file
                    THEN [artist EXCEPT !.phase = "done",
                                        !.images = Append(@, [side |-> "current", data |-> reply.data])]
                    ELSE [artist EXCEPT !.phase = "failed"]
      BY <2>5 DEF S!Learn, S!VerifyBinary
    <3>2. artist.images = <<>> \/ (artist.images = <<BaseImage>> /\ artist.prior # artist.file)
      BY <2>5 DEF SourceInv, ArtistSoFar
    <3>3. CASE reply.ok /\ reply.data = artist.file
      <4>1. /\ artist'.phase = "done" /\ artist'.images = Append(artist.images, CurrentImage) /\ ArtistTypes'
            /\ artist'.prior = artist.prior /\ artist'.file = artist.file
        BY <1>2, <3>1, <3>3 DEF ArtistTypes, CurrentImage
      <4>2. artist'.images = <<CurrentImage>> \/ (artist'.images = <<BaseImage, CurrentImage>> /\ artist.prior # artist.file)
        BY <3>2, <4>1, ImagesAreAppended
      <4> QED BY <2>5, <4>1, <4>2 DEF ArtistSoFar, BaseImage, CurrentImage
    <3>4. CASE ~(reply.ok /\ reply.data = artist.file)
      <4>1. artist'.phase = "failed" /\ ArtistTypes'
        BY <1>2, <3>1, <3>4 DEF ArtistTypes
      <4> QED BY <2>5, <4>1 DEF ArtistSoFar
    <3> QED BY <3>3, <3>4
  <2>6. artist.phase \in {"listing", "reading", "comparing", "showing base", "showing"}
    BY DEF S!Learn
  <2> QED BY <2>1, <2>2, <2>3, <2>4, <2>5, <2>6
<1>4. ScopeTypes' /\ ProjectTypes' /\ NowIsWitnessed' /\ Commands' = Commands /\ TargetTypes'
  BY <1>1, WorldRests, TargetRests
<1>5. call'.op = "none" /\ call'.by = "none" /\ call'.side = "none"
  BY <1>1 DEF S!Nobody
<1>6. CallTypes'
  BY <1>1 DEF SourceInv, SourceTypes, CallTypes, S!Nobody
<1>7. SourceControl'
  <2>1. sourceReader # "unopened" /\ sourceReader # "opening"
    BY <1>1, <1>3 DEF SourceInv, SourceControl
  <2> QED BY <1>1, <1>5, <2>1 DEF SourceControl
<1>8. TargetIsKept' /\ Opening' /\ ReadSoFar' /\ Found'
  BY <1>1, <1>3, <1>5 DEF SourceInv, TargetIsKept, Opening, ReadSoFar, Found, Look
<1> QED BY <1>3, <1>4, <1>6, <1>7, <1>8 DEF SourceInv, SourceTypes

LEMMA SourceSteps == SourceInv /\ [S!Next]_(S!vars) => SourceInv'
<1> SUFFICES ASSUME SourceInv, [S!Next]_(S!vars) PROVE SourceInv'
  OBVIOUS
<1>1. CASE UNCHANGED S!vars
  <2>1. /\ UNCHANGED <<fs, scope, bound, target, artist>> /\ past' = past
        /\ UNCHANGED <<sourceReader, at, cmd, call, holding, reply>>
    BY <1>1 DEF S!vars
  <2>2. ScopeTypes' /\ ProjectTypes' /\ NowIsWitnessed' /\ Commands' = Commands /\ ArtistTypes' /\ ArtistSoFar' /\ TargetTypes'
    BY <2>1, WorldRests, ArtistRests, TargetRests
  <2>3. CallTypes'
    BY <2>1 DEF SourceInv, SourceTypes, CallTypes
  <2>4. SourceControl' /\ TargetIsKept'
    BY <2>1, <2>2, ZenonT(60) DEF SourceInv, SourceControl, TargetIsKept
  <2>5. Opening'
    <3>1. \A c : Resolved(c) => Resolved(c)'
      BY <2>1 DEF Resolved
    <3>2. Compared => Compared'
      BY <2>1 DEF Compared, Base
    <3>3. S!NextCommand(cmd, target)' = S!NextCommand(cmd, target)
      BY <2>1 DEF S!NextCommand
    <3> QED BY <2>1, <3>1, <3>2, <3>3 DEF SourceInv, Opening
  <2>6. ReadSoFar' /\ Found'
    BY <2>1 DEF SourceInv, ReadSoFar, Found, OfTheCall, IsOld, IsHeld
  <2> QED BY <2>2, <2>3, <2>4, <2>5, <2>6 DEF SourceInv, SourceTypes
<1>2. CASE S!readRegularWithLimit
  BY <1>2, OpenStep, OpenRegularStep, ReadAllStep, LookStep DEF S!readRegularWithLimit
<1>3. CASE S!prepareLiveArtistContext
  BY <1>3, PrepareStep, LearnStep DEF S!prepareLiveArtistContext
<1>4. CASE \E side \in S!Sides : S!readLive(side)
  BY <1>4, ReadLiveStep
<1> QED BY <1>1, <1>2, <1>3, <1>4, OthersStep, OpenLiveSourceStep, CheckStep, GitStep, ConfirmStep, WalkStep, StartStep,
           FinalStep, CloseStep DEF S!Next

LEMMA SourceIsPinnedNow == SourceInv => S!SourceIsPinned
<1> SUFFICES ASSUME SourceInv PROVE S!SourceIsPinned
  OBVIOUS
<1>1. S!AdmissionIsTrue
  <2> SUFFICES ASSUME sourceReader = "open", call.op = "open", ~past.away PROVE S!AdmissionIsTrue
    BY DEF S!AdmissionIsTrue
  <2>1. Resolved("done") /\ Compared
    BY DEF SourceInv, SourceControl, Opening
  <2>2. scope \in {"workspace", "stage", "head", "commit", "diff", "merged"}
    BY DEF SourceInv, SourceTypes, ScopeTypes, S!Scopes
  <2>3. CASE scope \in {"workspace", "head"}
    BY <2>1, <2>3 DEF Resolved, S!AdmissionIsTrue
  <2>4. CASE scope = "stage"
    BY <2>1, <2>4 DEF Resolved, Compared, Base, S!AdmissionIsTrue
  <2>5. CASE scope = "commit"
    BY <2>1, <2>5 DEF Resolved, Compared, Base, S!AdmissionIsTrue
  <2>6. CASE scope \in {"diff", "merged"}
    BY <2>1, <2>6 DEF Resolved, Compared, Base, S!AdmissionIsTrue
  <2> QED BY <2>2, <2>3, <2>4, <2>5, <2>6
<1>2. S!ReadIsOfOneMoment
  <2> SUFFICES ASSUME at = "free", call.op = "read", reply.ok PROVE S!ReadIsOfOneMoment
    BY DEF S!ReadIsOfOneMoment
  <2>1. call.side \in {"worktree", "index", "before", "after"}
    BY DEF SourceInv, SourceTypes, CallTypes, SourceControl
  <2>2. OfTheCall(reply.data)
    BY DEF SourceInv, Found
  <2> QED BY <2>1, <2>2 DEF OfTheCall, S!ReadIsOfOneMoment
<1>3. S!ImagesWereCompared
  <2> SUFFICES ASSUME artist.phase = "done" PROVE S!ImagesWereCompared
    BY DEF S!ImagesWereCompared
  <2>1. \/ artist.images \in {<<>>, <<CurrentImage>>}
        \/ artist.images = <<BaseImage, CurrentImage>> /\ artist.prior # artist.file
    BY DEF SourceInv, ArtistSoFar
  <2>2. CASE artist.images \in {<<>>, <<CurrentImage>>}
    BY <2>2 DEF S!ImagesWereCompared, CurrentImage
  <2>3. CASE artist.images = <<BaseImage, CurrentImage>> /\ artist.prior # artist.file
    BY <2>3 DEF S!ImagesWereCompared, BaseImage, CurrentImage
  <2> QED BY <2>1, <2>2, <2>3
<1> QED BY <1>1, <1>2, <1>3 DEF S!SourceIsPinned

(* adapters/gittarget/live_source_darwin.go: whoever works in the project     *)
(* meanwhile, an opening resolves what the names meant during it, a read       *)
(* returns what the file was at one moment of the call, and the artist is      *)
(* given the images that were compared.                                      *)
THEOREM SourcesArePinned == S!Init /\ [][S!Next]_(S!vars) => []S!SourceIsPinned
<1>1. S!Init => SourceInv
  BY SourceBegins
<1>2. SourceInv /\ [S!Next]_(S!vars) => SourceInv'
  BY SourceSteps
<1>3. SourceInv => S!SourceIsPinned
  BY SourceIsPinnedNow
<1> QED BY <1>1, <1>2, <1>3, PTL
=============================================================================
