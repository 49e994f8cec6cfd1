------------------------------ MODULE LiveRun ------------------------------
(***************************************************************************)
(* One live review run: the composition that owns the private roots        *)
(* (composition/review.go, production_graph.go), LiveService.Execute with  *)
(* its deferred cleanup (app/reviewrun/live_service.go, live_cleanup.go)   *)
(* and the lifecycle of the run's diagnostics (app/reviewrun/              *)
(* diagnostics.go).  The source reader, the qualified providers, the       *)
(* coordinator, the publication service and the diagnostic store appear as *)
(* the outcomes their interfaces allow.  Meanwhile the caller may cancel   *)
(* and the binding of the source (root, Git directories, configuration)    *)
(* may change.  An error is the set of the kinds that errors.Join has      *)
(* collected so far.                                                       *)
(***************************************************************************)
EXTENDS Naturals, FiniteSets

CONSTANTS MaxUpsets   \* failures of the run's dependencies

VARIABLES
  pc,         \* where the run is
  noChange,   \* the selected target holds no change
  roots,      \* workspace, namespace and reviewer home
  reader,     \* the source reader: "none", "open" or "closed"
  drift,      \* the binding changed: "no", "early" (before the last revalidation) or "late"
  providers,  \* the processes behind the authority
  qualified,  \* the run holds an authority it has to drain
  drained, sourceClosed,   \* the flags the deferred cleanup reads
  published,  \* "no", "unconfirmed" (installed, an error returned) or "confirmed"
  sink,       \* the diagnostic sink: "none", "open" or "final"
  status,     \* the terminal status written: <<>> or <<state, P2 reference>>
  errs,       \* the kinds in the error of the run
  answer,     \* what the caller got
  env         \* whether the caller cancelled, and the failures so far

vars == <<pc, noChange, roots, reader, drift, providers, qualified, drained, sourceClosed,
          published, sink, status, errs, answer, env>>

sourceVars == <<reader, drift>>
runVars    == <<providers, qualified, drained, sourceClosed>>
reportVars == <<published, sink, status, answer>>

Policy == INSTANCE AttemptPolicy

ErrorKinds ==
  {"plain", "cancelled", "binding", "configuration", "internal", "artifact", "diagnostics", "publication",
   "manifest", "login", "preparation", "qualification", "drain", "cleanup", "projection", "roots"}

Init ==
  /\ pc = "compose" /\ noChange \in BOOLEAN
  /\ roots = "none" /\ reader = "none" /\ drift = "no" /\ providers = "none"
  /\ qualified = FALSE /\ drained = FALSE /\ sourceClosed = FALSE
  /\ published = "no" /\ sink = "none" /\ status = <<>> /\ errs = {} /\ answer = "none"
  /\ env = [cancelled |-> FALSE, upsets |-> 0]

Upset(n) == env.upsets + n <= MaxUpsets /\ env' = [env EXCEPT !.upsets = @ + n]

-----------------------------------------------------------------------------
(* The environment.                                                        *)

Verified == {"close", "publish", "project"}

(* The root, its Git directories or their configuration change for good.   *)
Drift ==
  /\ reader = "open" /\ drift = "no"
  /\ drift' = IF pc \in Verified THEN "late" ELSE "early"
  /\ UNCHANGED <<pc, noChange, roots, reader, runVars, reportVars, errs, env>>

Cancel ==
  /\ ~env.cancelled /\ answer = "none"
  /\ env' = [env EXCEPT !.cancelled = TRUE]
  /\ UNCHANGED <<pc, noChange, roots, sourceVars, runVars, reportVars, errs>>

-----------------------------------------------------------------------------
(* Composition.                                                            *)

(* cleanupRoots: the namespace parent goes only when it is empty, and      *)
(* nothing else goes before it.  Returns what is left and the error.       *)
RootsAfter == IF providers = "running" THEN {<<"made", {"artifact", "roots"}>>}
              ELSE {<<"removed", {}>>, <<"made", {"artifact", "roots"}>>}

(* composeProductionRuntimeGraph, openLiveReview and NewLiveService: on    *)
(* every failure after the roots exist, cleanupRoots is joined.            *)
ComposeReviewRuns ==
  /\ pc = "compose"
  /\ \/ pc' = "start" /\ roots' = "made" /\ UNCHANGED <<errs, env>>
     \/ roots' = "none" /\ pc' = "answer" /\ errs' = {"plain"} /\ Upset(1)
     \/ roots' = "made" /\ pc' = "roots" /\ errs' = {"plain"} /\ Upset(1)
  /\ UNCHANGED <<noChange, sourceVars, runVars, reportVars>>

(* StartReviewRun's deferred cleanup: the roots stay when the error still  *)
(* owns a live cleanup.                                                    *)
CleanupRoots ==
  /\ pc = "roots" /\ pc' = "answer"
  /\ \/ /\ "cleanup" \in errs
        /\ UNCHANGED <<roots, errs, env>>
     \/ /\ "cleanup" \notin errs
        /\ \E r \in RootsAfter :
             /\ roots' = r[1] /\ errs' = errs \cup r[2]
             /\ IF r[2] = {} \/ providers = "running" THEN UNCHANGED env ELSE Upset(1)
  /\ UNCHANGED <<noChange, sourceVars, runVars, reportVars>>

(* What StartReviewRun returns.                                            *)
Answer ==
  /\ pc = "answer" /\ pc' = "done"
  /\ answer' = IF errs = {} THEN "result" ELSE "error"
  /\ UNCHANGED <<noChange, roots, sourceVars, runVars, published, sink, status, errs, env>>

-----------------------------------------------------------------------------
(* Execute.                                                                *)

Goto(next) == pc' = next /\ UNCHANGED errs
Fails(kinds) == errs' = kinds /\ pc' = "cleanup"

(* An error that ctx.Err() or the context of a call produced is returned   *)
(* as it is (projectAdmissionFailure, liveSourceAdmissionFailure).         *)
CancelledOr(kind) == IF env.cancelled THEN {"cancelled"} ELSE {kind}

(* Request checks, the objective's lint and OpenLiveSource, before there   *)
(* is anything to clean up.                                                *)
OpenSource ==
  /\ pc = "start"
  /\ \/ env.cancelled /\ pc' = "roots" /\ errs' = {"cancelled"} /\ UNCHANGED <<reader, env>>
     \/ /\ \E kind \in {"plain", "configuration", "binding", "artifact"} : errs' = {kind}
        /\ pc' = "roots" /\ Upset(1) /\ UNCHANGED reader
     \/ ~env.cancelled /\ reader' = "open" /\ Goto("admit") /\ UNCHANGED env
  /\ UNCHANGED <<noChange, roots, drift, runVars, reportVars>>

(* RevalidateExecution under the caller's context, the project binding,    *)
(* AdmitLive, the plan and the run's identity.                             *)
Admit ==
  /\ pc = "admit"
  /\ \/ env.cancelled /\ Fails({"cancelled"}) /\ UNCHANGED env
     \/ ~env.cancelled /\ drift = "early" /\ Fails({"binding"}) /\ UNCHANGED env
     \/ \E kind \in {"binding", "configuration", "plain"} : Fails({kind}) /\ Upset(1)
     \/ ~env.cancelled /\ drift = "no" /\ Goto("diagnose") /\ UNCHANGED env
  /\ UNCHANGED <<noChange, roots, sourceVars, runVars, reportVars>>

(* openRuntimeDiagnosticLifecycle: a sink whose first events fail stays    *)
(* open; the run keeps no lifecycle and returns the allocated identity.    *)
OpenDiagnostics ==
  /\ pc = "diagnose"
  /\ \/ Fails(CancelledOr("diagnostics")) /\ Upset(1) /\ UNCHANGED sink
     \/ sink' = "open" /\ Goto("prepare") /\ UNCHANGED env
     \/ sink' = "abandoned" /\ Fails(CancelledOr("diagnostics")) /\ Upset(1)
  /\ UNCHANGED <<noChange, roots, sourceVars, runVars, published, status, answer>>

(* The artist context and NewLiveReviewExecution read the source again.  A *)
(* target without changes has no providers.                                *)
Prepare ==
  /\ pc = "prepare"
  /\ \/ noChange /\ Goto("verify") /\ UNCHANGED env
     \/ ~noChange /\ env.cancelled /\ Fails({"cancelled"}) /\ UNCHANGED env
     \/ ~noChange /\ ~env.cancelled /\ drift = "early" /\ Fails({"binding"}) /\ UNCHANGED env
     \/ ~noChange /\ (\E kind \in {"binding", "diagnostics"} : Fails({kind})) /\ Upset(1)
     \/ ~noChange /\ ~env.cancelled /\ drift = "no" /\ Goto("qualify") /\ UNCHANGED env
  /\ UNCHANGED <<noChange, roots, sourceVars, runVars, reportVars>>

(* qualifyCandidates starts the first provider process.                    *)
StartQualification ==
  /\ pc = "qualify" /\ pc' = "probe" /\ providers' = "running"
  /\ UNCHANGED <<noChange, roots, sourceVars, qualified, drained, sourceClosed, reportVars, errs, env>>

(* NewQualifiedLiveRun.  A rejection either proved that its own processes  *)
(* ended or hands over their owner (CleanupOwnerFromError): qualification  *)
(* drains twice before it gives up.                                        *)
Qualify ==
  /\ \/ pc = "probe" /\ UNCHANGED providers /\ qualified' = TRUE /\ Goto("plan") /\ UNCHANGED env
     \/ /\ \/ pc = "qualify" /\ UNCHANGED providers
           \/ pc = "probe" /\ providers' = "stopped"
        /\ UNCHANGED qualified
        /\ \E kind \in {"qualification", "configuration", "login"} : Fails(CancelledOr(kind))
        /\ Upset(1)
     \/ /\ pc = "probe" /\ UNCHANGED providers /\ qualified' = TRUE
        /\ \E kind \in {"qualification", "internal"} : Fails({kind, "drain"})
        /\ Upset(2)
  /\ UNCHANGED <<noChange, roots, sourceVars, drained, sourceClosed, reportVars>>

(* The authority's own checks, the comparison of the plans, the prompt     *)
(* source, the provider runtime and the coordinator.                       *)
PrepareRun ==
  /\ pc = "plan"
  /\ \/ \E kind \in {"plain", "diagnostics", "preparation"} : Fails({kind}) /\ Upset(1)
     \/ Goto("execute") /\ UNCHANGED env
  /\ UNCHANGED <<noChange, roots, sourceVars, runVars, reportVars>>

(* ExecuteRun, the packet screening, CoordinatorExecutionFailure: the run  *)
(* is publishable, or the first of its errors ends it.                     *)
ExecuteRun ==
  /\ pc = "execute"
  /\ \/ Goto("drain") /\ UNCHANGED env
     \/ env.cancelled /\ Fails({"cancelled"}) /\ UNCHANGED env
     \/ /\ \E kinds \in {{"binding"}, {"login"}, {"internal"}, {"artifact"}, {"configuration"},
                         {"preparation", "plain"}} : Fails(kinds)
        /\ Upset(1)
  /\ UNCHANGED <<noChange, roots, sourceVars, runVars, reportVars>>

(* drainRunAuthorityTerminal: two attempts, each detached from the         *)
(* caller's cancellation.  Proven says whether one of them succeeded.      *)
DrainTerminal(proven) ==
  /\ IF proven THEN \E failed \in 0 .. 1 : Upset(failed) ELSE Upset(2)
  /\ providers' = IF proven THEN "stopped" ELSE providers

Drain ==
  /\ pc = "drain"
  /\ \/ DrainTerminal(TRUE) /\ drained' = TRUE /\ Goto("verify")
     \/ DrainTerminal(FALSE) /\ UNCHANGED drained /\ Fails({"drain"})
  /\ UNCHANGED <<noChange, roots, sourceVars, qualified, sourceClosed, reportVars>>

(* The revalidation that a published review rests on, after the drain and  *)
(* whatever the caller's context says.                                     *)
Revalidate == IF drift = "no" THEN Goto("close") ELSE Fails({"binding"})

Verify ==
  /\ pc = "verify" /\ Revalidate
  /\ UNCHANGED <<noChange, roots, sourceVars, runVars, reportVars, env>>

(* Close releases the descriptors once, and reports what went wrong once.  *)
CloseSource ==
  /\ pc = "close"
  /\ reader' = "closed"
  /\ \/ sourceClosed' = TRUE /\ Goto("publish") /\ UNCHANGED env
     \/ UNCHANGED sourceClosed /\ Fails({"binding"}) /\ Upset(1)
  /\ UNCHANGED <<noChange, roots, drift, providers, qualified, drained, reportVars>>

(* The candidate and PublishLiveNextObserved.  An error may come before    *)
(* the publication is installed, after it without a confirmation, or after *)
(* the confirmation from the observer, which keeps the manifest's path.    *)
Publish ==
  /\ pc = "publish"
  /\ \/ published' = "confirmed" /\ Goto("project") /\ UNCHANGED env
     \/ UNCHANGED published /\ env.cancelled /\ Fails({"cancelled"}) /\ UNCHANGED env
     \/ UNCHANGED published /\ Upset(1) /\ \E kinds \in {{"artifact"}, {"publication"}, {"publication", "diagnostics"}} : Fails(kinds)
     \/ published' = "unconfirmed" /\ Upset(1) /\ \E kinds \in {{"publication"}, {"publication", "cancelled"}} : Fails(kinds)
     \/ published' = "confirmed" /\ Upset(1) /\ Fails({"diagnostics", "manifest"})
  /\ UNCHANGED <<noChange, roots, sourceVars, runVars, sink, status, answer>>

(* The P2 authority, the report references and the result.                 *)
Project ==
  /\ pc = "project"
  /\ \/ pc' = "cleanup" /\ UNCHANGED <<errs, env>>
     \/ Fails({"plain", "projection"}) /\ Upset(1)
  /\ UNCHANGED <<noChange, roots, sourceVars, runVars, reportVars>>

-----------------------------------------------------------------------------
(* The deferred cleanup.                                                   *)

(* Mutant: the source is closed whether or not the drain was proven.       *)
CleanupDrainAnyway ==
  /\ pc = "cleanup"
  /\ pc' = "release"
  /\ \/ qualified /\ ~drained /\ DrainTerminal(TRUE) /\ drained' = TRUE /\ UNCHANGED errs
     \/ /\ qualified /\ ~drained /\ DrainTerminal(FALSE)
        /\ drained' = TRUE /\ errs' = errs \cup {"drain"}
     \/ (~qualified \/ drained) /\ UNCHANGED <<providers, drained, errs, env>>
  /\ UNCHANGED <<noChange, roots, sourceVars, qualified, sourceClosed, reportVars>>

(* A second drain where the first was not proven.                          *)
CleanupDrain ==
  /\ pc = "cleanup"
  /\ \/ /\ qualified /\ ~drained /\ DrainTerminal(TRUE) /\ drained' = TRUE
        /\ pc' = "release" /\ UNCHANGED errs
     \/ /\ qualified /\ ~drained /\ DrainTerminal(FALSE) /\ UNCHANGED drained
        /\ errs' = errs \cup {"drain", "cleanup"} /\ pc' = "finalize"
     \/ /\ ~qualified \/ drained
        /\ pc' = "release" /\ UNCHANGED <<providers, drained, errs, env>>
  /\ UNCHANGED <<noChange, roots, sourceVars, qualified, sourceClosed, reportVars>>

(* LiveRunCleanup.DrainAndClose: revalidate and close, unless Execute      *)
(* already closed.  A reader whose Close failed in Execute is closed: it   *)
(* fails the revalidation and closes without an error.                     *)
Release ==
  /\ pc = "release" /\ pc' = "finalize"
  /\ \/ sourceClosed /\ UNCHANGED <<reader, sourceClosed, errs, env>>
     \/ /\ ~sourceClosed /\ reader' = "closed" /\ sourceClosed' = TRUE
        /\ errs' = errs \cup (IF drift # "no" \/ reader = "closed" THEN {"binding"} ELSE {})
        /\ UNCHANGED env
     \/ /\ ~sourceClosed /\ reader = "open" /\ reader' = "closed" /\ UNCHANGED sourceClosed
        /\ errs' = errs \cup {"binding", "cleanup"} /\ Upset(1)
  /\ UNCHANGED <<noChange, roots, drift, providers, qualified, drained, reportVars>>

NoClass == ""  \* a failure outside the domain's classes

Class(kind) ==
  CASE kind = "binding" -> "security_policy"
    [] kind \in {"artifact", "diagnostics", "publication"} -> "artifact"
    [] kind \in {"configuration", "internal", "cancelled"} -> kind
    [] kind = "login" -> "authentication"
    [] kind = "qualification" -> "provider_unavailable"
    [] OTHER -> NoClass

(* runtimeDiagnosticFailureClass: the class of highest precedence in the   *)
(* error tree.                                                             *)
FailureClass(kinds) ==
  LET rank(k) == Policy!FailurePrecedence(Class(k))
  IN IF \E k \in kinds : rank(k) > 0
       THEN Class(CHOOSE k \in kinds : \A l \in kinds : rank(k) >= rank(l))
       ELSE NoClass

(* runtimeDiagnosticTerminalDecision: login, preparation (unless persisting*)
(* failed as well) and qualification decide before the class does.         *)
TerminalState(kinds) ==
  IF kinds = {} THEN "completed"
  ELSE IF "login" \in kinds \/ "qualification" \in kinds THEN "failed"
  ELSE IF "preparation" \in kinds /\ "diagnostics" \notin kinds THEN "failed"
  ELSE IF FailureClass(kinds) = "cancelled" THEN "cancelled"
  ELSE IF FailureClass(kinds) # NoClass \/ "publication" \in kinds THEN "failed"
  ELSE IF env.cancelled THEN "cancelled" ELSE "failed"

(* runtimeDiagnosticP2URI: from the result, or from the error that kept    *)
(* the manifest of a committed publication.                                *)
P2Reference(kinds) == kinds = {} \/ "manifest" \in kinds

(* The terminal status; a failed finalization takes the result back.       *)
Finalize ==
  /\ pc = "finalize" /\ pc' = "roots"
  /\ \/ sink # "open" /\ UNCHANGED <<sink, status, errs, env>>
     \/ /\ sink = "open" /\ sink' = "final"
        /\ status' = <<TerminalState(errs), P2Reference(errs)>>
        /\ UNCHANGED <<errs, env>>
     \/ /\ sink = "open" /\ Upset(1) /\ errs' = errs \cup {"diagnostics"}
        /\ UNCHANGED <<sink, status>>
  /\ UNCHANGED <<noChange, roots, sourceVars, runVars, published, answer>>

-----------------------------------------------------------------------------
Next ==
  \/ Drift \/ Cancel
  \/ ComposeReviewRuns \/ CleanupRoots \/ Answer
  \/ OpenSource \/ Admit \/ OpenDiagnostics \/ Prepare \/ StartQualification \/ Qualify \/ PrepareRun
  \/ ExecuteRun \/ Drain \/ Verify \/ CloseSource \/ Publish \/ Project
  \/ CleanupDrain \/ Release \/ Finalize

Spec == Init /\ [][Next]_vars

-----------------------------------------------------------------------------
TypeOK ==
  /\ pc \in {"compose", "start", "admit", "diagnose", "prepare", "qualify", "probe", "plan", "execute",
             "drain", "verify", "close", "publish", "project", "cleanup", "release", "finalize", "roots", "answer", "done"}
  /\ noChange \in BOOLEAN /\ qualified \in BOOLEAN /\ drained \in BOOLEAN /\ sourceClosed \in BOOLEAN
  /\ roots \in {"none", "made", "removed"}
  /\ reader \in {"none", "open", "closed"} /\ drift \in {"no", "early", "late"}
  /\ providers \in {"none", "running", "stopped"}
  /\ published \in {"no", "unconfirmed", "confirmed"}
  /\ sink \in {"none", "open", "abandoned", "final"}
  /\ status \in {<<>>} \cup {"completed", "failed", "cancelled"} \X BOOLEAN
  /\ errs \subseteq ErrorKinds
  /\ answer \in {"none", "result", "error"}
  /\ env \in [cancelled : BOOLEAN, upsets : 0 .. MaxUpsets]

(* "Execute retains the original-source lease until every provider has     *)
(* drained and evidence has been verified": a review of a source whose     *)
(* binding changed while it could be read is never published.              *)
DriftIsNeverPublished == drift = "early" => published = "no"

(* The terminal status agrees with what happened: completed, or a P2       *)
(* reference, only for a confirmed publication; every confirmed one is     *)
(* referenced, and a cancelled run has published nothing, unless the       *)
(* projection of a finished publication failed                             *)
(* (runtimeDiagnosticTerminalDecision, runtimeDiagnosticP2URI).            *)
StatusIsTrue ==
  status # <<>> =>
    /\ status[1] = "completed" => published = "confirmed" /\ status[2]
    /\ status[2] => published = "confirmed"
    /\ published = "confirmed" /\ ~status[2] => "projection" \in errs
    /\ status[1] = "cancelled" => published = "no" \/ "projection" \in errs

(* A caller that is told of a result has a published review, its terminal  *)
(* status and no cleanup left (the deferred function of Execute,           *)
(* StartReviewRun).                                                        *)
ResultIsComplete ==
  answer = "result" =>
    /\ published = "confirmed" /\ status # <<>> /\ status[1] = "completed"
    /\ providers # "running" /\ reader = "closed" /\ roots = "removed"

(* Nothing is lost in an error: providers whose end is unproven and a      *)
(* source that may still be open come with the owner that can retry        *)
(* (liveCleanupError), and then the roots are kept for it.                 *)
OwnerIsRetained ==
  pc = "done" /\ (providers = "running" \/ reader = "open") => "cleanup" \in errs /\ roots = "made"

(* What the contract of a run (ReviewRun) sees of this state.              *)
ReviewOf == IF published = "no" THEN "none" ELSE "published"
LeaseOf == IF reader = "open" THEN "held" ELSE IF reader = "closed" THEN "released" ELSE "none"
=============================================================================
