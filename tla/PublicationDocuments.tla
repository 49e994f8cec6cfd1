------------------------ MODULE PublicationDocuments ------------------------
(***************************************************************************)
(* The documents of a publication: the final review, manifest, lineage     *)
(* edge, epoch, journal, status and support artifacts a candidate is built *)
(* into, and the reader that recomputes and compares all of them.  A       *)
(* digest stands for the value it is the digest of, a path for the         *)
(* identities it is built from, an artifact is <<path, content>>.          *)
(***************************************************************************)
EXTENDS PublicationCandidate

publicationPaths(session, run, review, epoch) ==
  [final |-> <<"final", session, run, review>>, manifest |-> <<"manifest", session, run>>,
   staged |-> <<"staged", session, run, review>>, edge |-> <<"edge", review>>, epoch |-> <<"epoch", epoch>>,
   index |-> <<"support_index", session, run>>]

FindingID(i) == "F" \o ToString(i)
Concat(seqs) == FlattenSeq(seqs)

artifactVersion(live, lineage) == IF live THEN 3 ELSE IF lineage.recovery # None THEN 2 ELSE 1
edgeVersion(lineage) == IF lineage.recovery # None THEN 2 ELSE 1

-----------------------------------------------------------------------------
(* What a candidate is written as.                                         *)

lineageEdge(c, review) ==
  [version |-> edgeVersion(c.lineage), child |-> <<c.session, c.run, review>>, lineage |-> c.lineage,
   kind |-> sourceKind(c.lineage)]

immutableLineage(c, edge) ==
  [lineage |-> c.lineage, kind |-> sourceKind(c.lineage), edgePath |-> edge[1], edgeSHA |-> edge[2]]

finalRoleOutcomes(c) ==
  [i \in DOMAIN c.roles |->
     LET role == c.roles[i]
         attempted == role.attempts # <<>>
     IN  [role |-> role.role, required |-> role.required, outcome |-> role.outcome, findingIDs |-> role.findingIDs,
          failure |-> role.class,
          attempt |-> IF attempted THEN LastOf(role).id ELSE None,
          provider |-> IF attempted THEN LastOf(role).provider ELSE None,
          via |-> IF attempted THEN LastOf(role).kind ELSE None]]

(* A followup's evidence names the finding it follows, every other evidence *)
(* the finding it belongs to.                                               *)
finalFindings(c, review) ==
  [i \in DOMAIN c.findings |->
     [id |-> FindingID(i), role |-> c.findings[i].role, provider |-> c.findings[i].provider,
      severity |-> c.findings[i].severity,
      evidence |-> [j \in DOMAIN c.findings[i].evidence |->
         LET item == c.findings[i].evidence[j]
         IN  [source |-> IF item.source = NoSource THEN <<c.session, c.run, review, FindingID(i)>> ELSE item.source,
              sourceOf |-> c.sha, live |-> c.live, of |-> item.of, claim |-> item.claim]]]]

finalReview(c, review, at, edge) ==
  [version |-> artifactVersion(c.live, c.lineage), session |-> c.session, run |-> c.run, review |-> review,
   type |-> c.type, at |-> at, lineage |-> immutableLineage(c, edge),
   followup |-> IF c.followup = <<>> THEN None ELSE c.followup[1],
   target |-> [live |-> c.live, noChange |-> c.noChange, sha |-> c.sha],
   validation |-> IF \E i \in DOMAIN c.roles : c.roles[i].repaired THEN "repaired_valid" ELSE "valid",
   axes |-> c.axes, reasons |-> c.reasons, threshold |-> c.threshold, outcomes |-> finalRoleOutcomes(c),
   findings |-> finalFindings(c, review), limits |-> c.limits, production |-> c.production]

manifestAttempts(c) ==
  Concat([i \in DOMAIN c.roles |->
    [j \in DOMAIN c.roles[i].attempts |->
       LET a == c.roles[i].attempts[j]
           done == a.state = "succeeded"
       IN  [id |-> a.id, role |-> c.roles[i].role, provider |-> a.provider, via |-> a.kind, state |-> a.state,
            parse |-> IF done THEN a.parse ELSE "not_started",
            validation |-> IF done THEN a.validation ELSE "not_started", invocations |-> Len(a.invocations)]]])

Reported(c) == SelectSeq(c.roles, LAMBDA r : r.valid /\ r.report)
manifestRoleReports(c) ==
  LET roles == SelectSeq(Reported(c), LAMBDA r : r.attempts # <<>>)
  IN  [i \in DOMAIN roles |-> [role |-> roles[i].role, provider |-> LastOf(roles[i]).provider,
                               attempt |-> LastOf(roles[i]).id]]

runManifest(c, review, at, epoch, final, edge, index) ==
  LET paths == publicationPaths(c.session, c.run, review, epoch)
  IN  [version |-> artifactVersion(c.live, c.lineage), session |-> c.session, run |-> c.run, type |-> c.type,
       state |-> c.state, at |-> at, lineage |-> immutableLineage(c, edge),
       followup |-> IF c.followup = <<>> THEN None ELSE c.followup[1],
       target |-> c.sha, selected |-> NamesOf(c.roles),
       required |-> NamesOf(SelectSeq(c.roles, LAMBDA r : r.required)),
       attempts |-> manifestAttempts(c), axes |-> c.axes, reasons |-> c.reasons, staged |-> <<paths.staged, final[2]>>,
       final |-> final, candidate |-> c, self |-> paths.manifest, edge |-> edge, epoch |-> paths.epoch, index |-> index,
       review |-> review, reports |-> manifestRoleReports(c), failures |-> c.failures, exit |-> c.exit]

epochRecord(epoch, manifest, edge, final) ==
  [epoch |-> epoch, manifest |-> manifest, edge |-> edge, final |-> final]

restartState(c, epoch, paths, final) ==
  [session |-> c.session, run |-> c.run, staged |-> <<paths.staged, final[2]>>, final |-> final, candidate |-> c,
   epoch |-> epoch, exit |-> c.exit, manifest |-> paths.manifest, edge |-> paths.edge, epochPath |-> paths.epoch]

-----------------------------------------------------------------------------
(* Support artifacts.                                                      *)

excerpts(c, review) ==
  Concat([i \in DOMAIN c.findings |->
            [j \in DOMAIN c.findings[i].evidence |->
               <<<<"excerpt", c.session, c.run, FindingID(i), j>>, c.findings[i].evidence[j].claim>>]])
  \o [i \in DOMAIN c.findings |-> <<<<"finding", c.session, c.run, FindingID(i)>>, finalFindings(c, review)[i]>>]

(* The n-th invocation of a purpose numbers its candidate; streams are      *)
(* numbered by invocation.  A refused capture is recorded without bytes,    *)
(* and only an attempt with a capture has a status.                         *)
Ordinal(attempt, k) ==
  Cardinality({l \in 1 .. k : attempt.invocations[l].purpose = attempt.invocations[k].purpose})

captureArtifact(c, attempt, k, capture) ==
  IF capture.kind \in DOMAIN CandidateKinds
  THEN <<<<"candidate", c.session, c.run, attempt.id, capture.kind, Ordinal(attempt, k)>>, capture.kind>>
  ELSE <<<<"stream", c.session, c.run, attempt.id, capture.kind, k>>, capture.kind>>

attemptArtifacts(c) ==
  LET attempts == Concat([i \in DOMAIN c.roles |-> c.roles[i].attempts])
      kept(inv) == SelectSeq(inv.captures, LAMBDA capture : ~capture.rejected)
      captured(a) == \E k \in DOMAIN a.invocations : a.invocations[k].captures # <<>>
      of(a) == Concat([k \in DOMAIN a.invocations |->
                 [n \in DOMAIN kept(a.invocations[k]) |-> captureArtifact(c, a, k, kept(a.invocations[k])[n])]])
      status(a) == [k \in DOMAIN a.invocations |-> a.invocations[k].captures]
  IN  Concat([i \in DOMAIN attempts |->
        of(attempts[i]) \o IF captured(attempts[i])
                           THEN <<<<<<"attempt_status", c.session, c.run, attempts[i].id>>, status(attempts[i])>>>> ELSE <<>>])

(* One copy of the target, a prompt per invocation, and the target manifest *)
(* that names them and the prompts a rerun may replay.                      *)
runtimeArtifacts(c) ==
  LET attempts == Concat([i \in DOMAIN c.roles |-> c.roles[i].attempts])
      bound(a) == SelectSeq([k \in DOMAIN a.invocations |-> k], LAMBDA k : a.invocations[k].runtime)
      prompt(a, k) == <<"prompt", c.session, c.run, a.id, k>>
      stdin(a, k) == <<"stdin", c.session, c.run, a.id, k>>
      prompts == Concat([i \in DOMAIN attempts |-> [n \in DOMAIN bound(attempts[i]) |->
                   prompt(attempts[i], bound(attempts[i])[n])]])
      replay == Concat([i \in DOMAIN attempts |->
                  IF 1 \in Range(bound(attempts[i])) /\ attempts[i].invocations[1].purpose = "initial"
                  THEN <<prompt(attempts[i], 1)>> ELSE <<>>])
      each == Concat([i \in DOMAIN attempts |-> Concat([n \in DOMAIN bound(attempts[i]) |->
                LET k == bound(attempts[i])[n]
                IN  <<<<stdin(attempts[i], k), k>>, <<prompt(attempts[i], k), stdin(attempts[i], k)>>>>])])
  IN  IF prompts = <<>> THEN <<>>
      ELSE <<<<<<"target", c.session, c.run>>, c.sha>>>> \o each
           \o (IF c.archive THEN <<<<<<"captured_review", c.session, c.run>>, c.sha>>>> ELSE <<>>)
           \o <<<<<<"target_manifest", c.session, c.run>>, [prompts |-> prompts, replay |-> replay]>>>>

roleReports(c) ==
  [i \in DOMAIN Reported(c) |-> <<<<"report", c.session, c.run, Reported(c)[i].role>>, Reported(c)[i].role>>]

(* A captured target leaves its capture manifest; the archive is kept once. *)
captureSupport(c, existing) ==
  LET has == c.captured \/ (c.type # "review" /\ c.archive /\ runtimeArtifacts(c) # <<>>)
      review == <<<<"captured_review", c.session, c.run>>, c.sha>>
  IN  IF ~has THEN existing
      ELSE existing \o <<<<<<"capture_manifest", c.session, c.run>>, c.sha>>>>
           \o IF review \in Range(existing) THEN <<>> ELSE <<review>>

liveSupport(c, existing) == existing \o <<<<<<"live_source", c.session, c.run>>, c.sha>>>>

supportArtifacts(c, review) ==
  LET common == excerpts(c, review) \o attemptArtifacts(c) \o runtimeArtifacts(c) \o roleReports(c)
  IN  IF c.live THEN liveSupport(c, common) ELSE captureSupport(c, common)

KindsIn(artifacts) == {artifacts[i][1][1] : i \in DOMAIN artifacts}
DistinctPaths(artifacts) == IsInjective([i \in DOMAIN artifacts |-> artifacts[i][1]])

runSupportIndex(artifacts) ==
  [version |-> IF "live_source" \in KindsIn(artifacts) THEN 3 ELSE IF "capture_manifest" \in KindsIn(artifacts) THEN 2 ELSE 1,
   artifacts |-> artifacts]

-----------------------------------------------------------------------------
(* Build().                                                                *)

bundleOf(c, review, at, epoch) ==
  LET paths == publicationPaths(c.session, c.run, review, epoch)
      edge == <<paths.edge, lineageEdge(c, review)>>
      support == supportArtifacts(c, review)
      index == <<paths.index, runSupportIndex(support)>>
      final == <<paths.final, finalReview(c, review, at, edge)>>
      manifest == <<paths.manifest, runManifest(c, review, at, epoch, final, edge, index)>>
  IN  [final |-> final, manifest |-> manifest, edge |-> edge, staged |-> <<paths.staged, final[2]>>,
       epoch |-> <<paths.epoch, epochRecord(epoch, manifest, edge, final)>>,
       journal |-> restartState(c, epoch, paths, final), status |-> restartState(c, epoch, paths, final),
       support |-> support \o <<index>>]

-----------------------------------------------------------------------------
(* The reader.                                                             *)

(* validatePublicationLineage(): the edge is the one of this review and    *)
(* says what the final review says.                                        *)
LineageAgrees(final, edge) ==
  /\ edge[1] = <<"edge", final.review>> /\ final.lineage.edgePath = edge[1] /\ final.lineage.edgeSHA = edge[2]
  /\ edge[2].version = edgeVersion(final.lineage.lineage) /\ edge[2].child = <<final.session, final.run, final.review>>
  /\ edge[2].lineage = final.lineage.lineage /\ edge[2].kind = final.lineage.kind
  /\ final.lineage.kind = sourceKind(final.lineage.lineage)
  /\ ContextValid(final.type, final.lineage.lineage, FALSE)

TargetFormatsAgree(final, manifest) ==
  final.target.live =>
    /\ final.type = "review" /\ final.followup = None /\ manifest.followup = None /\ ~final.production
    /\ \A i \in DOMAIN final.outcomes : final.target.noChange = (final.outcomes[i].outcome = "not_applicable")
    /\ final.target.noChange =>
         final.findings = <<>> /\ manifest.attempts = <<>> /\ manifest.failures = <<>> /\ manifest.reports = <<>>

ProductionAgrees(final) == final.production => final.type = "review" /\ final.target.sha # EmptyTarget

NoAttempt(outcome) == outcome.attempt = None /\ outcome.provider = None /\ outcome.via = None

OutcomesWellFormed(final) ==
  /\ Ordered(NamesOf(final.outcomes))
  /\ \A i \in DOMAIN final.outcomes :
       LET o == final.outcomes[i]
       IN  IF o.outcome \in {"skipped", "not_applicable"}
           THEN NoAttempt(o) /\ o.findingIDs = <<>> /\ o.failure = None
           ELSE /\ o.outcome \in {"completed", "degraded", "failed"}
                /\ o.attempt # None /\ o.provider # None /\ o.via # None
                /\ o.outcome = "failed" <=> o.failure # None

(* validateFinalOutcomeSemantics(): the axes the published findings, roles *)
(* and extraction status have.                                             *)
FinalAxes(final) ==
  LET roles == [i \in DOMAIN final.outcomes |->
                  [valid |-> final.outcomes[i].outcome \notin {"failed", "skipped"},
                   degraded |-> final.outcomes[i].outcome = "degraded", reportsOnly |-> FALSE]]
      coverage == computeCoverage(roles)
      found == ContentOf(final.findings, final.threshold, final.axes.extraction \in {"reports_only", "mixed"})
      content == IF final.type = "followup" /\ final.followup = "still_open" THEN "request_changes" ELSE found
  IN  [content |-> content, coverage |-> coverage, ci |-> CIOf(content, coverage), extraction |-> final.axes.extraction]

(* validateFinalFindingBindings().                                         *)
SourceAgrees(final, finding, item) ==
  /\ item.live = final.target.live
  /\ IF final.type = "followup"
     THEN /\ final.lineage.lineage.source # None /\ final.lineage.lineage.review # None /\ final.lineage.lineage.finding # None
          /\ item.source = <<final.session, final.lineage.lineage.source, final.lineage.lineage.review,
                             final.lineage.lineage.finding>>
     ELSE /\ item.source = <<final.session, final.run, final.review, finding.id>> /\ item.sourceOf = final.target.sha

FindingsAgree(final) ==
  /\ \A i \in DOMAIN final.findings :
       LET f == final.findings[i]
       IN  /\ f.id = FindingID(i) /\ f.evidence # <<>>
           /\ \E k \in DOMAIN final.outcomes :
                /\ final.outcomes[k].role = f.role /\ final.outcomes[k].outcome \in {"completed", "degraded"}
                /\ final.outcomes[k].provider = f.provider
           /\ \A j \in DOMAIN f.evidence : SourceAgrees(final, f, f.evidence[j]) /\ f.evidence[j].of = final.target.sha
  /\ \A k \in DOMAIN final.outcomes : final.outcomes[k].findingIDs = FindingsOf(final.outcomes[k].role, final.findings)

FinalAgrees(final) ==
  /\ OutcomesWellFormed(final) /\ final.axes = FinalAxes(final)
  /\ final.reasons = ciReasonCodes(final.axes.content, final.axes.coverage)
  /\ final.limits = limitations(final.axes.coverage) /\ FindingsAgree(final)

AttemptsOf(manifest, role) == SelectSeq(manifest.attempts, LAMBDA a : a.role = role)

(* validateManifestRoleBindings(): manifests of runs from before a role    *)
(* was bound to one provider may hold a second, fallback attempt.          *)
ManifestAttemptsValid(manifest) ==
  /\ IsInjective([i \in DOMAIN manifest.attempts |-> manifest.attempts[i].id])
  /\ \A i \in DOMAIN manifest.attempts :
       LET a == manifest.attempts[i]
       IN  /\ a.invocations >= 1 /\ a.role \in Range(manifest.selected)
           /\ IF a.state = "succeeded" THEN Classified(a.parse, a.validation)
              ELSE a.parse = "not_started" /\ a.validation = "not_started"
  /\ \A i \in 1 .. Len(manifest.attempts) - 1 :
       roleOrdinal(manifest.attempts[i].role) <= roleOrdinal(manifest.attempts[i + 1].role)
  /\ \A r \in Range(manifest.selected) :
       LET tried == AttemptsOf(manifest, r)
       IN  /\ Len(tried) <= 2 /\ tried # <<>> => tried[1].via = "primary"
           /\ Len(tried) = 2 => tried[2].via = "fallback" /\ tried[1].state # "succeeded"

RoleBindingsAgree(manifest, final) ==
  /\ manifest.selected = NamesOf(final.outcomes) /\ ManifestAttemptsValid(manifest)
  /\ manifest.required = NamesOf(SelectSeq(final.outcomes, LAMBDA o : o.required))
  /\ \A i \in DOMAIN final.outcomes :
       LET o == final.outcomes[i]
           tried == AttemptsOf(manifest, o.role)
       IN  /\ o.role = "logic" => o.required
           /\ IF o.outcome = "not_applicable" THEN NoAttempt(o) /\ tried = <<>>
              ELSE /\ tried # <<>>
                   /\ Last(tried).id = o.attempt /\ Last(tried).provider = o.provider /\ Last(tried).via = o.via
                   /\ o.outcome = "failed" <=> Last(tried).state # "succeeded"

FailuresAgree(manifest) ==
  LET failed == SelectSeq(manifest.attempts, LAMBDA a : a.state # "succeeded")
  IN  /\ Len(manifest.failures) = Len(failed)
      /\ \A i \in DOMAIN failed :
           LET class == manifest.failures[i].class
           IN  /\ manifest.failures[i].id = failed[i].id /\ ValidClass(class) /\ ~forbiddenPublicationFailure(class)
               /\ failed[i].state = "timed_out" <=> class = "timeout"
               /\ manifest.state = "failed" => class \in ProviderFaults

StateAgrees(manifest, final) ==
  LET failed == \E i \in DOMAIN final.outcomes : final.outcomes[i].outcome = "failed"
  IN  CASE manifest.state = "completed" -> ~failed
        [] manifest.state = "degraded" -> failed
        [] manifest.state = "failed" -> failed /\ manifest.axes.coverage = "incomplete"
        [] OTHER -> FALSE

(* validateCommittedStructuredExtractionStatus().                          *)
ExtractionAgrees(manifest, final) ==
  LET role(o) == [valid |-> o.outcome \notin {"failed", "skipped"}, degraded |-> o.outcome = "degraded",
                  reportsOnly |-> LET tried == AttemptsOf(manifest, o.role)
                                  IN  o.outcome \in {"completed", "degraded"}
                                      /\ BareReport(Last(tried).parse, Last(tried).validation)]
  IN  /\ manifest.axes.extraction = final.axes.extraction
      /\ final.axes.extraction = ComputeStructuredExtractionStatus([i \in DOMAIN final.outcomes |-> role(final.outcomes[i])])

ReportsAgree(manifest, final) ==
  LET delivered == SelectSeq(final.outcomes, LAMBDA o : o.outcome \in {"completed", "degraded"})
  IN  manifest.reports = [i \in DOMAIN delivered |->
                            [role |-> delivered[i].role, provider |-> delivered[i].provider, attempt |-> delivered[i].attempt]]

RepairAgrees(manifest, final) ==
  final.validation = IF \E i \in DOMAIN manifest.attempts : manifest.attempts[i].validation = "repaired_valid"
                     THEN "repaired_valid" ELSE "valid"

(* validatePublicationCompositeSemantics(): a final review, manifest, edge *)
(* and epoch that were written together.                                   *)
CompositeAgrees(finalArtifact, manifestArtifact, edge, epochArtifact) ==
  LET final == finalArtifact[2]
      manifest == manifestArtifact[2]
      epoch == epochArtifact[2]
      paths == publicationPaths(final.session, final.run, final.review, epochArtifact[1][2])
  IN  /\ TargetFormatsAgree(final, manifest) /\ ProductionAgrees(final) /\ LineageAgrees(final, edge)
      /\ final.version = artifactVersion(final.target.live, final.lineage.lineage)
      /\ finalArtifact[1] = paths.final /\ FinalAgrees(final)
      /\ manifest.version = final.version /\ manifest.session = final.session /\ manifest.run = final.run
      /\ manifest.type = final.type /\ manifest.at = final.at /\ manifest.lineage = final.lineage
      /\ manifest.target = final.target.sha /\ manifest.axes = final.axes /\ manifest.reasons = final.reasons
      /\ manifest.review = final.review /\ manifest.final = finalArtifact /\ manifest.staged = <<paths.staged, final>>
      /\ manifest.self = manifestArtifact[1] /\ manifest.edge = edge /\ manifest.epoch = epochArtifact[1]
      /\ manifest.index[1] = paths.index
      /\ RoleBindingsAgree(manifest, final) /\ FailuresAgree(manifest) /\ StateAgrees(manifest, final)
      /\ ExtractionAgrees(manifest, final) /\ ReportsAgree(manifest, final) /\ RepairAgrees(manifest, final)
      /\ manifest.exit = normalExit(final.axes.coverage, final.axes.ci)
      /\ epochArtifact[1] = <<"epoch", epoch.epoch>> /\ epoch.manifest = manifestArtifact /\ epoch.edge = edge
      /\ epoch.final = finalArtifact

(* As a mutant: the journal of another candidate of the same review passes. *)
RestartOfAnyCandidate(restart, bundle) ==
  LET paths == publicationPaths(restart.session, restart.run, bundle.final[2].review, bundle.epoch[1][2])
  IN  /\ paths.final = bundle.final[1] /\ restart.final[1] = bundle.final[1]
      /\ restart.epoch = bundle.epoch[1][2] /\ restart.manifest = bundle.manifest[1] /\ restart.edge = bundle.edge[1]

(* validateRestartStateSemantics(): the journal and the status.            *)
RestartAgrees(restart, bundle) ==
  LET paths == publicationPaths(restart.session, restart.run, bundle.final[2].review, bundle.epoch[1][2])
  IN  /\ paths.final = bundle.final[1] /\ restart.staged = <<paths.staged, bundle.final[2]>> /\ restart.final = bundle.final
      /\ restart.candidate = bundle.manifest[2].candidate /\ restart.epoch = bundle.epoch[1][2]
      /\ restart.exit = normalExit(bundle.final[2].axes.coverage, bundle.final[2].axes.ci)
      /\ restart.manifest = bundle.manifest[1] /\ restart.edge = bundle.edge[1] /\ restart.epochPath = bundle.epoch[1]

SupportKinds ==
  {"excerpt", "finding", "candidate", "stream", "attempt_status", "target", "stdin", "prompt", "captured_review",
   "target_manifest", "report", "capture_manifest", "live_source", "support_index"}
OwnSupport(final, path) == path[1] \in SupportKinds /\ path[2] = final.session /\ path[3] = final.run

(* validateBundleExcerptBindings(): the excerpts come first, in the order  *)
(* of the findings, and everything after them is this run's support.       *)
ExcerptsAgree(final, support) ==
  LET quoted == Concat([i \in DOMAIN final.findings |-> [j \in DOMAIN final.findings[i].evidence |->
                  <<<<"excerpt", final.session, final.run, FindingID(i), j>>, final.findings[i].evidence[j].claim>>]])
  IN  /\ Len(support) >= Len(quoted)
      /\ \A i \in DOMAIN quoted : support[i] = quoted[i]
      /\ \A i \in Len(quoted) + 1 .. Len(support) : OwnSupport(final, support[i][1])

(* validateLiveSupport(): a live bundle names every excerpt and finding.   *)
LiveSupportAgrees(final, support) ==
  LET metadata == {<<<<"finding", final.session, final.run, FindingID(i)>>, final.findings[i]>> : i \in DOMAIN final.findings}
      listed == UNION {{<<"finding", final.session, final.run, FindingID(i)>>} \cup
                       {<<"excerpt", final.session, final.run, FindingID(i), j>> : j \in DOMAIN final.findings[i].evidence} :
                         i \in DOMAIN final.findings}
  IN  /\ <<<<"live_source", final.session, final.run>>, final.target.sha>> \in Range(support)
      /\ metadata \subseteq Range(support)
      /\ \A i \in DOMAIN support : support[i][1][1] \in {"excerpt", "finding"} => support[i][1] \in listed

SupportIndexAgrees(final, manifest, support) ==
  LET others == SelectSeq(support, LAMBDA a : a[1] # manifest.index[1])
      index == SelectSeq(support, LAMBDA a : a[1] = manifest.index[1])
  IN  /\ Len(index) = 1 /\ index[1] = manifest.index /\ DistinctPaths(others)
      /\ LET listed == index[1][2].artifacts
             version == index[1][2].version
         IN  /\ IF final.target.live THEN version = 3 ELSE version \in {1, 2}
             /\ Len(listed) = Len(others) /\ Range(listed) = Range(others)
             /\ \A i \in DOMAIN listed : OwnSupport(final, listed[i][1])
             /\ "capture_manifest" \in KindsIn(listed) => version = 2
             /\ ~final.target.live => "live_source" \notin KindsIn(listed)
             /\ version = 2 => {<<<<"capture_manifest", final.session, final.run>>, final.target.sha>>,
                                <<<<"captured_review", final.session, final.run>>, final.target.sha>>} \subseteq Range(listed)
             /\ final.target.live => LiveSupportAgrees(final, support)

validatePublicationBundle(bundle) ==
  LET final == bundle.final[2]
  IN  /\ CompositeAgrees(bundle.final, bundle.manifest, bundle.edge, bundle.epoch)
      /\ bundle.staged = <<<<"staged", final.session, final.run, final.review>>, final>>
      /\ ExcerptsAgree(final, bundle.support) /\ SupportIndexAgrees(final, bundle.manifest[2], bundle.support)
      /\ RestartAgrees(bundle.journal, bundle) /\ RestartAgrees(bundle.status, bundle)

BuildAccepts(c, review, at, epoch) ==
  /\ validateCandidate(c) /\ DistinctPaths(supportArtifacts(c, review))
  /\ validatePublicationBundle(bundleOf(c, review, at, epoch))

-----------------------------------------------------------------------------
(***************************************************************************)
(* The query service's own reader of a committed publication: it rebuilds  *)
(* the review from the final review, manifest, lineage edge and epoch, and *)
(* trusts nothing the writer's reader concluded about them.                *)
(***************************************************************************)

DeliveredOutcomes == {"completed", "degraded"}
IdleOutcomes == {"skipped", "not_applicable"}

-----------------------------------------------------------------------------
(* validateLivePublicationBinding(): a live review carries no captured     *)
(* authority, and one without changes carries no provider's work.          *)
LiveBound(final, manifest) ==
  /\ final.type = "review" /\ ~final.production /\ final.followup = None /\ manifest.followup = None
  /\ manifest.target = final.target.sha
  /\ \A i \in DOMAIN final.outcomes : final.target.noChange = (final.outcomes[i].outcome = "not_applicable")
  /\ final.target.noChange =>
       final.findings = <<>> /\ manifest.attempts = <<>> /\ manifest.failures = <<>> /\ manifest.reports = <<>>

HistoricalBound(final, manifest) ==
  /\ final.version = edgeVersion(final.lineage.lineage) /\ manifest.version = edgeVersion(manifest.lineage.lineage)
  /\ final.target.sha = manifest.target
  /\ final.production => final.type = "review" /\ final.target.sha # EmptyTarget

(* The identities of one run: paths, edge, final and composite.            *)
IdentityBound(session, run, finalArtifact, manifestArtifact, edge, epoch) ==
  LET final == finalArtifact[2]
      manifest == manifestArtifact[2]
  IN  /\ finalArtifact[1] = <<"final", session, run, final.review>> /\ manifestArtifact[1] = <<"manifest", session, run>>
      /\ final.session = session /\ final.run = run /\ manifest.session = session /\ manifest.run = run
      /\ final.type = manifest.type /\ final.validation \in {"valid", "repaired_valid"}
      /\ final.lineage.edgePath = edge[1] /\ final.lineage.edgeSHA = edge[2] /\ manifest.lineage = final.lineage
      /\ manifest.review = final.review /\ manifest.final = finalArtifact
      /\ manifest.self = manifestArtifact[1] /\ manifest.edge = edge /\ manifest.epoch = epoch[1]
      /\ manifest.axes = final.axes

queryFollowupOutcome(final, manifest) ==
  IF final.type # "followup" \/ final.axes.extraction = "reports_only"
  THEN final.followup = None /\ manifest.followup = None
  ELSE /\ final.followup # None /\ manifest.followup = final.followup /\ final.axes.extraction = "structured"
       /\ \A f \in {"source", "review", "finding"} : final.lineage.lineage[f] # None
       /\ final.followup = "still_open" /\ final.findings = <<>> =>
            final.axes.content = "request_changes" /\ final.axes.coverage = "complete" /\ final.axes.ci = "fail"

buildRolesForRun(final) ==
  /\ final.outcomes # <<>> /\ Ordered(NamesOf(final.outcomes))
  /\ \A i \in DOMAIN final.outcomes :
       LET o == final.outcomes[i]
       IN  /\ o.role = "logic" => o.required
           /\ IsInjective(o.findingIDs)
           /\ IF o.outcome \in IdleOutcomes THEN NoAttempt(o) /\ o.findingIDs = <<>>
              ELSE /\ o.outcome \in DeliveredOutcomes \cup {"failed"}
                   /\ o.attempt # None /\ o.provider # None /\ o.via \in {"primary", "fallback"}
                   /\ IF o.outcome = "failed" THEN o.failure # None /\ o.findingIDs = <<>> ELSE o.failure = None

(* A followup's evidence is bound to the finding it follows; canonical      *)
(* evidence is not empty and has no item twice.                             *)
ExpectedSource(final, finding) ==
  LET lineage == final.lineage.lineage
  IN  IF final.type = "followup" THEN <<final.session, lineage.source, lineage.review, lineage.finding>>
      ELSE <<final.session, final.run, final.review, finding.id>>

canonicalEvidenceItems(evidence) == evidence # <<>> /\ IsInjective(evidence)

buildFindingsForSource(final) ==
  /\ \A i \in DOMAIN final.findings :
       LET f == final.findings[i]
       IN  /\ f.id = FindingID(i)
           /\ \E k \in DOMAIN final.outcomes :
                /\ final.outcomes[k].role = f.role /\ final.outcomes[k].outcome \in DeliveredOutcomes
                /\ final.outcomes[k].provider = f.provider
           /\ \A j \in DOMAIN f.evidence :
                LET item == f.evidence[j]
                IN  /\ item.live = final.target.live /\ item.of = final.target.sha
                    /\ item.source = ExpectedSource(final, f)
                    /\ final.type # "followup" => item.sourceOf = final.target.sha
           /\ canonicalEvidenceItems(f.evidence)
  /\ \A k \in DOMAIN final.outcomes : final.outcomes[k].findingIDs = FindingsOf(final.outcomes[k].role, final.findings)

sameRoles(names, outcomes) == names = NamesOf(outcomes)

(* One primary attempt per role; a second one, on another provider, only   *)
(* in manifests of earlier runs and only after a failure.                  *)
validateManifestRoleAttemptBindings(manifest, final) ==
  /\ \A i \in DOMAIN manifest.attempts :
       LET a == manifest.attempts[i]
       IN  /\ a.state \in {"succeeded", "failed", "timed_out", "blocked"} /\ a.invocations >= 1
           /\ a.role \in Range(NamesOf(final.outcomes))
           /\ i > 1 => roleOrdinal(manifest.attempts[i - 1].role) <= roleOrdinal(a.role)
  /\ IsInjective([i \in DOMAIN manifest.attempts |-> manifest.attempts[i].id])
  /\ \A i \in DOMAIN final.outcomes :
       LET o == final.outcomes[i]
           tried == AttemptsOf(manifest, o.role)
       IN  /\ Len(tried) <= 2
           /\ Len(tried) >= 1 => tried[1].via = "primary"
           /\ Len(tried) = 2 => /\ tried[2].via = "fallback" /\ tried[1].state # "succeeded"
                                /\ tried[1].provider # tried[2].provider
           /\ IF o.outcome \in IdleOutcomes THEN tried = <<>>
              ELSE /\ tried # <<>>
                   /\ Last(tried).id = o.attempt /\ Last(tried).provider = o.provider /\ Last(tried).via = o.via
                   /\ IF o.outcome = "failed" THEN Last(tried).state # "succeeded"
                      ELSE Last(tried).state = "succeeded" /\ Classified(Last(tried).parse, Last(tried).validation)

validateManifestRoleReports(manifest, final) ==
  LET delivered == SelectSeq(final.outcomes, LAMBDA o : o.outcome \in DeliveredOutcomes)
      succeeded(report) == \E i \in DOMAIN manifest.attempts :
        LET a == manifest.attempts[i]
        IN  a.id = report.attempt /\ a.role = report.role /\ a.provider = report.provider /\ a.state = "succeeded"
  IN  /\ Len(manifest.reports) = Len(delivered)
      /\ \A i \in DOMAIN delivered :
           LET report == manifest.reports[i]
           IN  /\ report.role = delivered[i].role /\ report.attempt = delivered[i].attempt
               /\ report.provider = delivered[i].provider /\ succeeded(report)

(* The failed attempts in order; a failed role gives the failure's reason. *)
validateManifestFailures(manifest, final) ==
  LET failed == SelectSeq(manifest.attempts, LAMBDA a : a.state # "succeeded")
  IN  /\ Len(manifest.failures) = Len(failed)
      /\ \A i \in DOMAIN failed :
           LET failure == manifest.failures[i]
           IN  /\ failure.id = failed[i].id /\ ValidClass(failure.class) /\ ~forbiddenPublicationFailure(failure.class)
               /\ failed[i].state = "timed_out" <=> failure.class = "timeout"
               /\ \A k \in DOMAIN final.outcomes :
                    final.outcomes[k].outcome = "failed" /\ final.outcomes[k].attempt = failure.id =>
                      final.outcomes[k].failure = failure.class

consistentCommittedRunState(state, outcomes, coverage) ==
  LET failed == \E i \in DOMAIN outcomes : outcomes[i].outcome \in {"failed", "skipped"}
  IN  CASE state = "completed" -> ~failed
        [] state = "degraded" -> failed /\ coverage = "degraded"
        [] state = "failed" -> failed /\ coverage = "incomplete"
        [] OTHER -> FALSE

deriveStructuredExtractionStatus(manifest, outcomes) ==
  LET bare(o) == LET tried == AttemptsOf(manifest, o.role)
                 IN  o.outcome \in DeliveredOutcomes /\ BareReport(Last(tried).parse, Last(tried).validation)
  IN  ComputeStructuredExtractionStatus(
        [i \in DOMAIN outcomes |-> [valid |-> outcomes[i].outcome \notin {"failed", "skipped"},
                                    reportsOnly |-> bare(outcomes[i])]])

(* A followup that leaves its finding open requests changes only when it   *)
(* reports no new finding.                                                 *)
QueryContent(final, extraction) ==
  IF final.followup = "still_open" /\ final.findings = <<>> THEN "request_changes"
  ELSE ContentOf(final.findings, final.threshold, extraction \in {"reports_only", "mixed"})

QueryCoverage(outcomes) ==
  IF \E i \in DOMAIN outcomes : outcomes[i].outcome \in {"failed", "skipped"} THEN "incomplete"
  ELSE IF \E i \in DOMAIN outcomes : outcomes[i].outcome = "degraded" THEN "degraded" ELSE "complete"

validateOutcomeProjection(final, manifest) ==
  LET extraction == deriveStructuredExtractionStatus(manifest, final.outcomes)
      coverage == QueryCoverage(final.outcomes)
      content == QueryContent(final, extraction)
      ci == CIOf(content, coverage)
  IN  /\ final.axes = [content |-> content, coverage |-> coverage, ci |-> ci, extraction |-> extraction]
      /\ final.reasons = ciReasonCodes(content, coverage) /\ manifest.reasons = final.reasons
      /\ manifest.exit = normalExit(coverage, ci)

buildCommittedLineage(type, run, lineage, kind) ==
  LET has(f) == lineage[f] # None
  IN  IF type = "review" THEN lineage = RootLineage /\ kind = None
      ELSE /\ has("parent") /\ has("source") /\ (has("review") <=> ~has("recovery"))
           /\ lineage.parent # run /\ lineage.source # run
           /\ has("review") => kind = None
           /\ has("recovery") => type = "rerun" /\ kind = "failed_run_recovery" /\ has("attempt")
           /\ CASE type = "followup" -> ~has("attempt") /\ has("finding") /\ ~has("replay")
                [] type = "delta"    -> ~has("attempt") /\ ~has("finding") /\ ~has("replay")
                [] type = "rerun"    -> ~has("finding") /\ has("replay")
                [] OTHER -> FALSE

buildCommittedReview(session, run, bundle) ==
  LET final == bundle.final[2]
      manifest == bundle.manifest[2]
      live == final.version = 3
  IN  /\ IdentityBound(session, run, bundle.final, bundle.manifest, bundle.edge, bundle.epoch)
      /\ IF live THEN final.target.live /\ manifest.version = 3 /\ LiveBound(final, manifest)
         ELSE ~final.target.live /\ HistoricalBound(final, manifest)
      /\ queryFollowupOutcome(final, manifest) /\ buildRolesForRun(final) /\ buildFindingsForSource(final)
      /\ sameRoles(manifest.selected, final.outcomes)
      /\ sameRoles(manifest.required, SelectSeq(final.outcomes, LAMBDA o : o.required))
      /\ validateManifestRoleAttemptBindings(manifest, final) /\ validateManifestRoleReports(manifest, final)
      /\ validateManifestFailures(manifest, final)
      /\ consistentCommittedRunState(manifest.state, final.outcomes, final.axes.coverage)
      /\ validateOutcomeProjection(final, manifest)
      /\ buildCommittedLineage(final.type, run, final.lineage.lineage, final.lineage.kind)

-----------------------------------------------------------------------------
(* verifyLiveReadSupport(): the source, every finding and every excerpt of *)
(* a live review is kept, and no excerpt that belongs to no finding.       *)
verifyLiveReadSupport(final, artifacts) ==
  LET path(kind, i) == <<kind, final.session, final.run, FindingID(i)>>
      quoted == UNION {{<<path("excerpt", i) \o <<j>>, final.findings[i].evidence[j].claim>> : j \in DOMAIN final.findings[i].evidence} :
                         i \in DOMAIN final.findings}
      described == {<<path("finding", i), final.findings[i]>> : i \in DOMAIN final.findings}
  IN  /\ <<<<"live_source", final.session, final.run>>, final.target.sha>> \in artifacts
      /\ quoted \cup described \subseteq artifacts
      /\ \A a \in artifacts : a[1][1] \in {"excerpt", "finding"} => a[1] \in {b[1] : b \in quoted \cup described}

(* readRuntimeSupportIndex(): the index the manifest names, and for live   *)
(* and captured reviews the artifacts it lists.                            *)
readRuntimeSupportIndex(final, manifest, support) ==
  LET listed == manifest.index[2].artifacts
      version == manifest.index[2].version
      found == Range(support)
      captured == {a \in Range(listed) : a[1][1] \in {"capture_manifest", "captured_review"}}
  IN  /\ manifest.index[1] = <<"support_index", final.session, final.run>> /\ manifest.index \in found
      /\ IF final.target.live THEN version = 3 ELSE version \in {1, 2}
      /\ \A i \in DOMAIN listed : OwnSupport(final, listed[i][1])
      /\ "capture_manifest" \in KindsIn(listed) => version = 2
      /\ ~final.target.live => "live_source" \notin KindsIn(listed)
      /\ DistinctPaths(listed)
      /\ final.target.live => Range(listed) \subseteq found /\ verifyLiveReadSupport(final, Range(listed))
      /\ version = 2 => /\ captured \subseteq found
                        /\ {<<"capture_manifest", final.session, final.run>>, <<"captured_review", final.session, final.run>>}
                             = {a[1] : a \in captured}
                        /\ \A a \in captured : a[2] = final.target.sha

(* What a reader of the committed review accepts, with its support files.  *)
QueryAccepts(session, run, bundle) ==
  /\ buildCommittedReview(session, run, bundle)
  /\ readRuntimeSupportIndex(bundle.final[2], bundle.manifest[2], bundle.support)

=============================================================================
