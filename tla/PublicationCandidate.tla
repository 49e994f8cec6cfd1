------------------------ MODULE PublicationCandidate ------------------------
(***************************************************************************)
(* How a coordinator result, an empty selection or a followup becomes the  *)
(* candidate of a publication.  Texts, formats and byte limits are left    *)
(* out; an absent optional value is None, an absent optional record <<>>.  *)
(***************************************************************************)
EXTENDS Naturals, Sequences, FiniteSets, SequencesExt, FiniteSetsExt, TLC

None == "none"

FixedRoleOrder == <<"logic", "security", "maintainability", "product", "documentation", "testing", "artist">>
roleOrdinal(role) == CHOOSE i \in DOMAIN FixedRoleOrder : FixedRoleOrder[i] = role
Ordered(names) == \A i \in 1 .. Len(names) - 1 : roleOrdinal(names[i]) < roleOrdinal(names[i + 1])
NamesOf(roles) == [i \in DOMAIN roles |-> roles[i].role]

Severities == <<"info", "low", "medium", "high", "critical", "blocker">>
Rank(severity) == CHOOSE i \in DOMAIN Severities : Severities[i] = severity

ProviderFaults == {"provider_unavailable", "invalid_output", "timeout", "authentication", "quota", "rate_limit"}
forbiddenPublicationFailure(class) ==
  class \in {"security_policy", "configuration", "artifact", "internal", "cancelled"}
ValidClass(class) == class \in ProviderFaults \/ forbiddenPublicationFailure(class)

(* What a successful attempt holds: a structured document, or only a report. *)
ReportsOnlyStates == {<<"not_started", "not_started">>} \cup
                     {"valid", "invalid_json", "output_too_large"} \X {"invalid", "repair_exhausted"}
StructuredStates == {<<"valid", "valid">>, <<"valid", "repaired_valid">>}
Classified(parse, validation) == <<parse, validation>> \in ReportsOnlyStates \cup StructuredStates
BareReport(parse, validation) == <<parse, validation>> \in ReportsOnlyStates

-----------------------------------------------------------------------------
(* The outcome axes of roles [valid, degraded, reportsOnly], all selected. *)

computeCoverage(roles) ==
  IF \E i \in DOMAIN roles : ~roles[i].valid THEN "incomplete"
  ELSE IF \E i \in DOMAIN roles : roles[i].degraded THEN "degraded"
  ELSE "complete"

ComputeStructuredExtractionStatus(roles) ==
  LET delivered == {i \in DOMAIN roles : roles[i].valid}
      bare == {i \in delivered : roles[i].reportsOnly}
  IN  IF bare # {} /\ bare # delivered THEN "mixed" ELSE IF bare # {} THEN "reports_only" ELSE "structured"

ContentOf(findings, threshold, reportsOnly) ==
  IF \E i \in DOMAIN findings : Rank(findings[i].severity) >= Rank(threshold) THEN "request_changes"
  ELSE IF findings # <<>> THEN "findings_present"
  ELSE IF reportsOnly THEN "reports_only" ELSE "no_findings"

CIOf(content, coverage) == IF content = "request_changes" \/ coverage # "complete" THEN "fail" ELSE "pass"

ComputeOutcomeAxes(findings, roles, threshold) ==
  LET content == ContentOf(findings, threshold, \E i \in DOMAIN roles : roles[i].valid /\ roles[i].reportsOnly)
      coverage == computeCoverage(roles)
  IN  [content |-> content, coverage |-> coverage, ci |-> CIOf(content, coverage),
       extraction |-> ComputeStructuredExtractionStatus(roles)]

ciReasonCodes(content, coverage) ==
  LET reasons == (IF content = "request_changes" THEN <<"request_changes_threshold">> ELSE <<>>)
                 \o (CASE coverage = "incomplete" -> <<"required_role_incomplete">>
                       [] coverage = "degraded" -> <<"degraded_coverage">>
                       [] OTHER -> <<>>)
  IN  IF reasons = <<>> THEN <<"policy_evaluated">> ELSE reasons

limitations(coverage) == IF coverage = "complete" THEN None ELSE coverage
normalExit(coverage, ci) == IF coverage = "incomplete" THEN 4 ELSE IF ci = "fail" THEN 1 ELSE 0

-----------------------------------------------------------------------------
(* Lineage: which fields each type of run must and must not carry.         *)

LineageFields == {"parent", "source", "review", "recovery", "attempt", "finding", "replay"}
RootLineage == [f \in LineageFields |-> None]

ContextValid(type, lineage, production) ==
  LET has(f) == lineage[f] # None
  IN  IF type = "review" THEN lineage = RootLineage
      ELSE /\ ~production
           /\ has("parent") /\ has("source") /\ (has("review") <=> ~has("recovery"))
           /\ has("recovery") => type = "rerun"
           /\ CASE type = "followup" -> ~has("attempt") /\ has("finding") /\ ~has("replay")
                [] type = "delta"    -> ~has("attempt") /\ ~has("finding") /\ ~has("replay")
                [] type = "rerun"    -> has("attempt") /\ ~has("finding") /\ has("replay")

Recomposed(type, lineage) == type = "rerun" /\ lineage.replay = "recompose"
sourceKind(lineage) == IF lineage.recovery # None THEN "failed_run_recovery" ELSE None

-----------------------------------------------------------------------------
(* The roles and findings of a candidate.                                  *)

LastOf(role) == Last(role.attempts)
FailedAttempts(roles) ==
  SelectSeq(FlattenSeq([i \in DOMAIN roles |-> roles[i].attempts]), LAMBDA a : a.state # "succeeded")

AttemptFactsValid(attempt) ==
  /\ attempt.invocations # <<>>
  /\ IF attempt.state = "succeeded" THEN attempt.class = None
     ELSE /\ ValidClass(attempt.class) /\ ~forbiddenPublicationFailure(attempt.class)
          /\ attempt.state = "timed_out" <=> attempt.class = "timeout"

(* prepareRoles(): a summary that is not terminal, or whose facts disagree *)
(* with its last attempt, refuses the whole result.                        *)
SummaryValid(s) ==
  /\ s.state \in {"succeeded", "failed"} /\ s.attempts # <<>>
  /\ \A i \in DOMAIN s.attempts : AttemptFactsValid(s.attempts[i])
  /\ IF s.valid THEN s.state = "succeeded" /\ LastOf(s).state = "succeeded" /\ s.class = None /\ s.report
     ELSE /\ s.state = "failed" /\ LastOf(s).state # "succeeded" /\ ValidClass(s.class)
          /\ ~forbiddenPublicationFailure(s.class) /\ s.class = LastOf(s).class

SummariesValid(summaries) ==
  /\ summaries # <<>> /\ Ordered(NamesOf(summaries))
  /\ \A i \in DOMAIN summaries : SummaryValid(summaries[i])
  /\ IsInjective(FlattenSeq([i \in DOMAIN summaries |->
                    [j \in DOMAIN summaries[i].attempts |-> summaries[i].attempts[j].id]]))

FindingsOf(role, findings) == SelectSeq([i \in DOMAIN findings |-> i], LAMBDA i : findings[i].role = role)

PreparedRole(s, findings) ==
  [role |-> s.role, required |-> s.required \/ s.role = "logic", valid |-> s.valid, degraded |-> s.degraded,
   repaired |-> s.repaired, class |-> s.class, attempts |-> s.attempts, reportsOnly |-> s.reportsOnly,
   report |-> s.report, findingIDs |-> FindingsOf(s.role, findings),
   outcome |-> IF ~s.valid THEN "failed" ELSE IF s.degraded THEN "degraded" ELSE "completed"]

(* reducePublicationEvidenceForTarget(): what the receipts of one finding  *)
(* make of it.  Only a captured target that is not a commit may be         *)
(* unavailable to its own review.                                          *)
EvidenceVerdict(finding, target, sha) ==
  LET status(s) == {i \in DOMAIN finding.receipts : finding.receipts[i].status = s}
      excepted == IF finding.severity = "low" /\ target \in {"workspace", "patch", "stdin"}
                  THEN status("target_unavailable") ELSE {}
      verified == status("verified")
      rejected == DOMAIN finding.receipts \ (verified \cup excepted)
  IN  CASE finding.receipts = <<>> -> "refused"
        [] rejected # {} -> IF Rank(finding.severity) < Rank("high") THEN "dropped" ELSE "refused"
        [] verified # {} /\ excepted # {} -> "refused"
        [] verified = {} -> "dropped"
        [] \E i \in verified : finding.receipts[i].of # sha -> "refused"
        [] OTHER -> IF IsInjective(finding.receipts) THEN "kept" ELSE "refused"

BoundToRole(finding, roles) ==
  \E i \in DOMAIN roles : /\ roles[i].role = finding.role /\ roles[i].valid
                          /\ LastOf(roles[i]).provider = finding.provider

NoSource == <<>>
PreparedFindings(result) ==
  LET kept == SelectSeq(result.findings, LAMBDA f : EvidenceVerdict(f, result.target, result.sha) = "kept")
  IN  [i \in DOMAIN kept |->
         [role |-> kept[i].role, provider |-> kept[i].provider, severity |-> kept[i].severity,
          evidence |-> [j \in DOMAIN kept[i].receipts |->
                          [of |-> result.sha, claim |-> kept[i].receipts[j].claim, source |-> NoSource]]]]

FindingsAccepted(result) ==
  \A i \in DOMAIN result.findings : /\ BoundToRole(result.findings[i], result.roles)
                                    /\ EvidenceVerdict(result.findings[i], result.target, result.sha) # "refused"

(* validateOutcomeAxes(): the axes are recomputed from the findings of the *)
(* result, the dropped ones included.                                      *)
AxesOf(result, roles) == ComputeOutcomeAxes(result.findings, roles, result.threshold)
AxesMatch(result, roles) ==
  LET axes == AxesOf(result, roles)
  IN  /\ result.axes.content = axes.content
      /\ Recomposed(result.type, result.lineage) \/ (result.axes.coverage = axes.coverage /\ result.axes.ci = axes.ci)

validateTerminalRun(state, roles, coverage) ==
  LET failed == {i \in DOMAIN roles : roles[i].outcome = "failed"}
  IN  /\ state \in {"completed", "degraded", "failed"}
      /\ \A i \in failed : ~forbiddenPublicationFailure(roles[i].class)
      /\ state = "completed" <=> failed = {}
      /\ state = "failed" => coverage = "incomplete" /\ \A i \in failed : roles[i].class \in ProviderFaults

CapturesValid(invocation) ==
  \A i, j \in DOMAIN invocation.captures : invocation.captures[i].kind = invocation.captures[j].kind => i = j

validatePreparedRole(role) ==
  /\ Len(role.attempts) = 1 /\ LastOf(role).kind = "primary" /\ LastOf(role).invocations # <<>>
  /\ \A i \in DOMAIN LastOf(role).invocations : CapturesValid(LastOf(role).invocations[i])
  /\ IF LastOf(role).state = "succeeded" THEN Classified(LastOf(role).parse, LastOf(role).validation)
     ELSE LastOf(role).parse = "not_started" /\ LastOf(role).validation = "not_started"
  /\ role.role = "logic" => role.required
  /\ IF role.outcome = "failed"
     THEN ~role.valid /\ ~role.degraded /\ ~role.report /\ ~role.reportsOnly /\ LastOf(role).state # "succeeded"
     ELSE /\ role.valid /\ LastOf(role).state = "succeeded" /\ role.report
          /\ role.degraded <=> role.outcome = "degraded"
          /\ role.reportsOnly = BareReport(LastOf(role).parse, LastOf(role).validation)
          /\ role.reportsOnly => role.findingIDs = <<>>

InvocationsOf(candidate) ==
  LET attempts == FlattenSeq([i \in DOMAIN candidate.roles |-> candidate.roles[i].attempts])
  IN  Range(FlattenSeq([i \in DOMAIN attempts |-> attempts[i].invocations]))

(* The runtime inventory of an invocation may be absent only when it timed *)
(* out before its prompt was compiled; a live run carries none at all.     *)
RuntimeBound(candidate) ==
  \A inv \in InvocationsOf(candidate) :
    IF candidate.live THEN ~inv.runtime ELSE inv.runtime \/ (inv.state = "timed_out" /\ ~inv.expected)

(* bindAttemptArtifacts(): a captured candidate belongs to the invocation  *)
(* of its purpose.                                                         *)
CandidateKinds == [initial |-> "initial", retry |-> "retry", repaired |-> "repair", extracted |-> "extract"]
CapturesBound(candidate) ==
  \A inv \in InvocationsOf(candidate) : \A i \in DOMAIN inv.captures :
    inv.captures[i].kind \in DOMAIN CandidateKinds => CandidateKinds[inv.captures[i].kind] = inv.purpose

-----------------------------------------------------------------------------
(* PreparedCandidate.validate().                                           *)

EmptyTarget == "empty"
NoChangeAxes == [content |-> "no_findings", coverage |-> "complete", ci |-> "pass", extraction |-> "structured"]

validateNoChange(c) ==
  /\ ~c.live => c.sha = EmptyTarget
  /\ ~c.production /\ c.type = "review" /\ c.state = "completed" /\ c.axes = NoChangeAxes
  /\ c.findings = <<>> /\ c.failures = <<>> /\ c.reasons = <<"policy_evaluated">> /\ c.exit = 0
  /\ c.roles # <<>> /\ Ordered(NamesOf(c.roles))
  /\ \A i \in DOMAIN c.roles :
       /\ c.roles[i].required = (c.roles[i].role = "logic") /\ c.roles[i].outcome = "not_applicable"
       /\ c.roles[i].valid /\ ~c.roles[i].degraded /\ ~c.roles[i].repaired /\ c.roles[i].attempts = <<>>
       /\ ~c.roles[i].report /\ c.roles[i].findingIDs = <<>>

FollowupValid(c) ==
  IF c.type # "followup" THEN c.followup = <<>>
  ELSE IF Len(c.roles) = 1 /\ c.roles[1].reportsOnly THEN c.followup = <<>> /\ c.axes.extraction = "reports_only"
  ELSE /\ c.followup # <<>> /\ c.axes.extraction = "structured"
       /\ c.followup[2] # <<>> /\ \A i \in DOMAIN c.followup[2] : c.followup[2][i].source # NoSource

validateCandidate(c) ==
  /\ ContextValid(c.type, c.lineage, c.production)
  /\ c.live => c.type = "review" /\ ~c.production /\ ~c.captured
  /\ c.lineage.parent # c.run /\ c.lineage.source # c.run
  /\ FollowupValid(c)
  /\ c.production => c.type = "review" /\ ~c.noChange
  /\ IF c.noChange THEN validateNoChange(c)
     ELSE /\ c.roles # <<>> /\ Ordered(NamesOf(c.roles))
          /\ \A i \in DOMAIN c.roles : /\ validatePreparedRole(c.roles[i])
                                       /\ c.roles[i].findingIDs = FindingsOf(c.roles[i].role, c.findings)
          /\ \A i \in DOMAIN c.findings : BoundToRole(c.findings[i], c.roles) /\ c.findings[i].evidence # <<>>
                                         /\ \A j \in DOMAIN c.findings[i].evidence : c.findings[i].evidence[j].of = c.sha
          /\ c.failures = [i \in DOMAIN FailedAttempts(c.roles) |->
                             [id |-> FailedAttempts(c.roles)[i].id, class |-> FailedAttempts(c.roles)[i].class]]
          /\ validateTerminalRun(c.state, c.roles, c.axes.coverage)
          /\ c.axes.extraction = ComputeStructuredExtractionStatus(c.roles)

-----------------------------------------------------------------------------
(* The three ways to a candidate.  A result is of a live source, or of a   *)
(* captured target; `captured` says its archive was bound to the candidate *)
(* and `archive` that the invocations carry it.                            *)

CandidateOf(result) ==
  LET findings == PreparedFindings(result)
      roles == [i \in DOMAIN result.roles |-> PreparedRole(result.roles[i], findings)]
      axes == AxesOf(result, roles)
      failed == FailedAttempts(roles)
  IN  [session |-> result.session, run |-> result.run, type |-> result.type, lineage |-> result.lineage,
       live |-> result.target = "live", sha |-> result.sha, noChange |-> FALSE, captured |-> result.captured,
       archive |-> result.archive, state |-> result.state,
       threshold |-> result.threshold, production |-> result.production, roles |-> roles, findings |-> findings,
       followup |-> <<>>, axes |-> axes, limits |-> limitations(axes.coverage),
       failures |-> [i \in DOMAIN failed |-> [id |-> failed[i].id, class |-> failed[i].class]],
       reasons |-> ciReasonCodes(axes.content, axes.coverage), exit |-> normalExit(axes.coverage, axes.ci)]

(* prepareTerminalCandidate() with the binding of the runtime inventories. *)
PrepareAccepts(result) ==
  LET candidate == CandidateOf(result)
  IN  /\ ContextValid(result.type, result.lineage, result.production)
      /\ SummariesValid(result.roles) /\ FindingsAccepted(result)
      /\ \A i \in DOMAIN candidate.roles : validatePreparedRole(candidate.roles[i])
      /\ AxesMatch(result, candidate.roles)
      /\ validateTerminalRun(result.state, candidate.roles, candidate.axes.coverage)
      /\ validateCandidate(candidate) /\ RuntimeBound(candidate) /\ CapturesBound(candidate)

NoChangeCandidate(selection) ==
  [session |-> selection.session, run |-> selection.run, type |-> "review", lineage |-> RootLineage,
   live |-> selection.target = "live", sha |-> selection.sha, noChange |-> TRUE, captured |-> FALSE, archive |-> FALSE, state |-> "completed",
   threshold |-> selection.threshold, production |-> FALSE, findings |-> <<>>, followup |-> <<>>,
   axes |-> NoChangeAxes, limits |-> None, failures |-> <<>>, reasons |-> <<"policy_evaluated">>, exit |-> 0,
   roles |-> [i \in DOMAIN selection.roles |->
                [role |-> selection.roles[i], required |-> selection.roles[i] = "logic", valid |-> TRUE,
                 degraded |-> FALSE, repaired |-> FALSE, class |-> None, attempts |-> <<>>, reportsOnly |-> FALSE,
                 report |-> FALSE, findingIDs |-> <<>>, outcome |-> "not_applicable"]]]

(* validateFollowupRuntimeCaptures(): exactly the streams that were seen.  *)
ExpectedCaptures(f, index) ==
  LET candidate == IF index = 2 THEN IF f.reportsOnly THEN {} ELSE {"repaired"}
                   ELSE IF f.reportsOnly \/ f.repaired THEN IF f.initial THEN {"initial"} ELSE {}
                   ELSE {"initial"}
  IN  candidate \cup {"stdout"}

FollowupAxes(f) ==
  LET roles == <<[valid |-> TRUE, degraded |-> FALSE, reportsOnly |-> f.reportsOnly]>>
      axes == ComputeOutcomeAxes(IF f.reportsOnly THEN <<>> ELSE f.findings, roles, f.threshold)
      open == axes.content = "request_changes" \/ f.resolution = "still_open"
  IN  [content |-> IF open THEN "request_changes" ELSE axes.content, coverage |-> "complete",
       ci |-> IF open THEN "fail" ELSE "pass", extraction |-> axes.extraction]

FollowupAccepts(f) ==
  /\ f.repaired => f.initial
  /\ f.reportsOnly <=> f.resolution = None
  /\ f.source # None /\ f.parent # None
  /\ \A i \in DOMAIN f.captures : f.captures[i] = ExpectedCaptures(f, i)
  /\ Len(f.captures) = IF f.repaired THEN 2 ELSE 1
  /\ ~f.reportsOnly =>
       /\ \A i \in DOMAIN f.evidence : f.evidence[i].bound /\ f.evidence[i].verified
       /\ IsInjective(f.evidence)
       /\ \A i \in DOMAIN f.findings :
            /\ f.findings[i].evidence # <<>> /\ IsInjective(f.findings[i].evidence)
            /\ \A j \in DOMAIN f.findings[i].evidence :
                 f.findings[i].evidence[j].bound /\ f.findings[i].evidence[j].verified
  /\ Classified(f.parse, f.validation) /\ f.reportsOnly = BareReport(f.parse, f.validation)

FollowupCandidate(f) ==
  LET source == <<f.session, f.source, f.review, f.finding>>
      items(evidence) == [j \in DOMAIN evidence |-> [of |-> f.sha, claim |-> evidence[j].claim, source |-> source]]
      found == IF f.reportsOnly THEN <<>> ELSE f.findings
      findings == [i \in DOMAIN found |-> [role |-> "logic", provider |-> f.provider, severity |-> found[i].severity,
                                           evidence |-> items(found[i].evidence)]]
      axes == FollowupAxes(f)
      repaired == f.repaired /\ ~f.reportsOnly
      invocation(i) == [purpose |-> IF i = 1 THEN "initial" ELSE "repair", state |-> "succeeded", expected |-> TRUE,
                        runtime |-> TRUE,
                        captures |-> [k \in 1 .. Cardinality(f.captures[i]) |->
                                        [kind |-> SetToSeq(f.captures[i])[k], rejected |-> FALSE]]]
      attempt == [id |-> f.attempt, kind |-> "primary", provider |-> f.provider, state |-> "succeeded", class |-> None,
                  parse |-> f.parse, invocations |-> [i \in DOMAIN f.captures |-> invocation(i)],
                  validation |-> IF repaired /\ f.validation = "valid" THEN "repaired_valid" ELSE f.validation]
  IN  [session |-> f.session, run |-> f.run, type |-> "followup",
       lineage |-> [RootLineage EXCEPT !.parent = f.parent, !.source = f.source, !.review = f.review, !.finding = f.finding],
       live |-> FALSE, sha |-> f.sha, noChange |-> FALSE, captured |-> FALSE, archive |-> f.archive, state |-> "completed", threshold |-> f.threshold,
       production |-> FALSE, findings |-> findings, axes |-> axes, limits |-> None, failures |-> <<>>,
       followup |-> IF f.reportsOnly THEN <<>> ELSE <<f.resolution, items(f.evidence)>>,
       reasons |-> ciReasonCodes(axes.content, "complete"), exit |-> normalExit("complete", axes.ci),
       roles |-> <<[role |-> "logic", required |-> TRUE, valid |-> TRUE, degraded |-> FALSE, repaired |-> repaired,
                    class |-> None, attempts |-> <<attempt>>, reportsOnly |-> f.reportsOnly, report |-> TRUE,
                    findingIDs |-> FindingsOf("logic", findings), outcome |-> "completed"]>>]
=============================================================================
