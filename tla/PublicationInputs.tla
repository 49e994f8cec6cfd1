------------------------- MODULE PublicationInputs -------------------------
(***************************************************************************)
(* The results, selections and followups the publication documents are     *)
(* checked on, and the properties they are checked for.                    *)
(***************************************************************************)
EXTENDS PublicationDocuments

(* A role as the coordinator leaves it: a structured document, a repaired  *)
(* one, a report whose extraction failed or was never begun, degraded      *)
(* coverage, or a failure.                                                 *)
Delivered == {"structured", "repaired", "bare", "exhausted", "degraded"}
Failed == {"timeout", "quota", "internal"}
ParseOf == [structured |-> "valid", repaired |-> "valid", bare |-> "not_started", exhausted |-> "valid", degraded |-> "valid"]
ValidationOf == [structured |-> "valid", repaired |-> "repaired_valid", bare |-> "not_started",
                 exhausted |-> "repair_exhausted", degraded |-> "valid"]

Invocations(kind, live) ==
  LET inv(purpose, state, captures) ==
        [purpose |-> purpose, state |-> state, expected |-> state # "timed_out", runtime |-> ~live /\ state # "timed_out",
         captures |-> [i \in DOMAIN captures |-> [kind |-> captures[i], rejected |-> captures[i] = "stderr"]]]
  IN  CASE kind = "repaired" -> <<inv("initial", "succeeded", <<"initial", "stdout">>), inv("repair", "succeeded", <<"repaired">>)>>
        [] kind = "exhausted" -> <<inv("initial", "succeeded", <<"stdout", "stderr">>), inv("repair", "failed", <<"stdout">>)>>
        [] kind = "timeout" -> <<inv("initial", "timed_out", <<>>)>>
        [] kind \in Failed -> <<inv("initial", "failed", <<>>), inv("retry", "failed", <<"retry">>)>>
        [] OTHER -> <<inv("initial", "succeeded", <<"initial">>)>>

Summary(role, kind, live) ==
  LET ok == kind \in Delivered
      state == IF ok THEN "succeeded" ELSE IF kind = "timeout" THEN "timed_out" ELSE "failed"
  IN  [role |-> role, required |-> FALSE, state |-> IF ok THEN "succeeded" ELSE "failed", valid |-> ok,
       degraded |-> kind = "degraded", repaired |-> kind = "repaired", reportsOnly |-> kind \in {"bare", "exhausted"},
       report |-> ok, class |-> IF ok THEN None ELSE kind,
       attempts |-> <<[id |-> role, kind |-> "primary", provider |-> "p", state |-> state,
                       class |-> IF ok THEN None ELSE kind,
                       parse |-> IF ok THEN ParseOf[kind] ELSE "not_started",
                       validation |-> IF ok THEN ValidationOf[kind] ELSE "not_started",
                       invocations |-> Invocations(kind, live)]>>]

Receipts == {<<"verified">>, <<"verified", "verified">>, <<"invalid">>, <<"target_unavailable">>, <<"verified", "target_unavailable">>}
Finding(role, severity, receipts, claims) ==
  [role |-> role, provider |-> "p", severity |-> severity,
   receipts |-> [i \in DOMAIN receipts |-> [status |-> receipts[i], of |-> "t", claim |-> claims[i]]]]

FindingLists ==
  {<<>>} \cup {<<Finding(role, severity, receipts, claims)>> :
                 role \in {"logic", "security"}, severity \in {"low", "high"}, receipts \in Receipts,
                 claims \in {<<"a", "b">>, <<"a", "a">>}}
  \cup {<<Finding("logic", severity, <<"invalid">>, <<"a">>), Finding("logic", "medium", <<"verified">>, <<"b">>)>> :
          severity \in {"low", "high"}}

Lineages ==
  {<<"review", RootLineage>>,
   <<"delta", [RootLineage EXCEPT !.parent = "r0", !.source = "r0", !.review = "v0"]>>,
   <<"rerun", [RootLineage EXCEPT !.parent = "r0", !.source = "r0", !.review = "v0", !.attempt = "a0", !.replay = "exact"]>>,
   <<"rerun", [RootLineage EXCEPT !.parent = "r0", !.source = "r0", !.recovery = "m0", !.attempt = "a0", !.replay = "recompose"]>>,
   <<"rerun", [RootLineage EXCEPT !.parent = "r1", !.source = "r0", !.review = "v0", !.attempt = "a0", !.replay = "exact"]>>,
   <<"delta", [RootLineage EXCEPT !.parent = "r0", !.source = "r0", !.recovery = "m0"]>>}

(* The coordinator's own reduction of the roles and findings.              *)
Result(session, run, shape, lineage, roles, findings, threshold) ==
  [session |-> session, run |-> run, type |-> lineage[1], lineage |-> lineage[2], target |-> shape.target, sha |-> "t",
   captured |-> shape.captured, archive |-> shape.archive, production |-> shape.production,
   state |-> IF \E i \in DOMAIN roles : ~roles[i].valid THEN "failed" ELSE "completed",
   roles |-> roles, findings |-> findings, threshold |-> threshold,
   axes |-> ComputeOutcomeAxes(findings, roles, threshold)]

Live == [target |-> "live", captured |-> FALSE, archive |-> FALSE, production |-> FALSE]
Shapes == {Live, [Live EXCEPT !.target = "workspace", !.archive = TRUE],
           [Live EXCEPT !.target = "git", !.captured = TRUE, !.archive = TRUE, !.production = TRUE]}

RoleLists(live, kinds) ==
  {<<Summary("logic", k, live)>> : k \in kinds}
  \cup {<<Summary("logic", k, live), Summary("security", l, live)>> : k \in kinds, l \in {"structured", "timeout"}}

Results ==
  {Result("s", "r1", shape, <<"review", RootLineage>>, roles, findings, threshold) :
     shape \in {Live}, roles \in RoleLists(TRUE, Delivered \cup Failed), findings \in FindingLists, threshold \in {"low", "high"}}
  \cup {Result("s", "r1", shape, lineage, roles, findings, "medium") :
          shape \in Shapes \ {Live}, lineage \in Lineages, roles \in RoleLists(FALSE, {"structured", "timeout"}),
          findings \in FindingLists}
  \cup {Result("s", "r1", shape, <<"review", RootLineage>>, roles, findings, "medium") :
          shape \in Shapes \ {Live}, roles \in RoleLists(FALSE, {"exhausted", "quota"}), findings \in FindingLists}

Selections ==
  {[session |-> "s", run |-> "r1", target |-> target, sha |-> IF target = "live" THEN "t" ELSE EmptyTarget,
    threshold |-> "high", roles |-> roles] :
     target \in {"live", "git"}, roles \in {<<"logic">>, <<"security">>, <<"logic", "security">>, <<"security", "logic">>}}

FollowupEvidence == {<<>>} \cup {<<[bound |-> b, verified |-> v, claim |-> "a"]>> : b \in BOOLEAN, v \in BOOLEAN}
                    \cup {<<[bound |-> TRUE, verified |-> TRUE, claim |-> "a"], [bound |-> TRUE, verified |-> TRUE, claim |-> c]>> : c \in {"a", "b"}}

Followups ==
  {[session |-> "s", run |-> "r1", parent |-> "r0", source |-> "r0", review |-> "v0", finding |-> "F2", attempt |-> "a1",
    provider |-> "p", sha |-> "t", archive |-> initial, threshold |-> "high", initial |-> initial, repaired |-> repaired,
    captures |-> captures, resolution |-> resolution, reportsOnly |-> resolution = None,
    parse |-> "valid", validation |-> validation, evidence |-> evidence, findings |-> findings] :
     initial \in BOOLEAN, repaired \in BOOLEAN, resolution \in {None, "resolved", "still_open"},
     captures \in {<<{"initial", "stdout"}>>, <<{"stdout"}>>, <<{"initial", "stdout"}, {"repaired", "stdout"}>>,
                   <<{"initial", "stdout"}, {"stdout"}>>},
     validation \in {"valid", "invalid", "repair_exhausted"}, evidence \in FollowupEvidence,
     findings \in {<<>>, <<[severity |-> "low", evidence |-> <<[bound |-> TRUE, verified |-> TRUE, claim |-> "b"]>>]>>,
                   <<[severity |-> "high", evidence |-> <<[bound |-> TRUE, verified |-> TRUE, claim |-> "b"]>>]>>}}

-----------------------------------------------------------------------------
(* Two bundles and the parts of a mixture that come from the second one:   *)
(* what a reader finds when files of two publications are confused.        *)
Parts == {"final", "manifest", "edge", "epoch", "staged", "journal", "status", "support"}
Bundle(run, review, at, epoch, kind, live) ==
  bundleOf(CandidateOf(Result("s", run, IF live THEN Live ELSE [Live EXCEPT !.target = "workspace", !.archive = TRUE],
                              <<"review", RootLineage>>, <<Summary("logic", kind, live)>>,
                              IF kind = "structured" THEN <<Finding("logic", "low", <<"verified">>, <<"a">>)>> ELSE <<>>, "high")),
           review, at, epoch)

Mixtures ==
  {[parts |-> parts, other |-> other, live |-> live] :
     parts \in SUBSET Parts, other \in {"run", "review", "epoch", "time", "repair"}, live \in BOOLEAN}

FirstOf(mixture) == Bundle("r1", "v1", "10:00", 1, "structured", mixture.live)
SecondOf(mixture) ==
  CASE mixture.other = "run" -> Bundle("r2", "v2", "10:00", 2, "structured", mixture.live)
    [] mixture.other = "review" -> Bundle("r1", "v2", "10:00", 1, "structured", mixture.live)
    [] mixture.other = "epoch" -> Bundle("r1", "v1", "10:00", 2, "structured", mixture.live)
    [] mixture.other = "time" -> Bundle("r1", "v1", "10:01", 1, "structured", mixture.live)
    [] mixture.other = "repair" -> Bundle("r1", "v1", "10:00", 1, "repaired", mixture.live)

Mixed(mixture) == [p \in Parts |-> IF p \in mixture.parts THEN SecondOf(mixture)[p] ELSE FirstOf(mixture)[p]]

-----------------------------------------------------------------------------
Omits(result) == \E i \in DOMAIN result.findings : EvidenceVerdict(result.findings[i], result.target, result.sha) = "dropped"

(* A result whose failures are all provider faults, of a consistent        *)
(* lineage and with every finding verified, is never refused: a finished   *)
(* review would otherwise be lost.                                         *)
FinishedIsPublishable(result) ==
  /\ ContextValid(result.type, result.lineage, result.production)
  /\ result.lineage.parent # result.run
  /\ \A i \in DOMAIN result.roles : result.roles[i].valid \/ result.roles[i].class \in ProviderFaults
  /\ FindingsAccepted(result)
  /\ \A i \in DOMAIN result.roles : result.roles[i].reportsOnly => FindingsOf(result.roles[i].role, PreparedFindings(result)) = <<>>
  => PrepareAccepts(result)

(* Builder and readers derive the axes, the lists of findings, reports,    *)
(* failures and roles and the exit code independently: whatever the        *)
(* preparation accepts with all its findings they agree on, so that a      *)
(* published review can always be read back.                               *)
PreparedIsBuilt(result) == PrepareAccepts(result) /\ ~Omits(result) => BuildAccepts(CandidateOf(result), "v1", "10:00", 1)
EmptyIsBuilt(selection) ==
  Ordered(selection.roles) <=> BuildAccepts(NoChangeCandidate(selection), "v1", "10:00", 1)
FollowupIsBuilt(f) ==
  FollowupAccepts(f) /\ (f.reportsOnly \/ f.evidence # <<>>) => BuildAccepts(FollowupCandidate(f), "v1", "10:00", 1)

(* Every document names the others: no mixture of two publications is read *)
(* as one, not even of two publications of the same run.                   *)
MixtureIsRefused(mixture) ==
  validatePublicationBundle(Mixed(mixture)) => Mixed(mixture) \in {FirstOf(mixture), SecondOf(mixture)}

(* The query service decides on its own what a committed publication says: *)
(* whatever the writer builds it reads, with one known exception (a        *)
(* followup that leaves its finding open and reports only minor new ones,  *)
(* which the writer publishes as a request for changes and the query       *)
(* service takes for a wrong content axis).                                *)
OpenWithMinorFindings(final) ==
  /\ final.followup = "still_open" /\ final.findings # <<>>
  /\ \A i \in DOMAIN final.findings : Rank(final.findings[i].severity) < Rank(final.threshold)

BuiltIsReadable(candidate) ==
  LET bundle == bundleOf(candidate, "v1", "10:00", 1)
  IN  BuildAccepts(candidate, "v1", "10:00", 1) /\ ~OpenWithMinorFindings(bundle.final[2]) =>
        QueryAccepts(candidate.session, candidate.run, bundle)

(* Nor does the query service, which sees neither journal nor status, read *)
(* the final review, manifest and lineage of two publications as one.      *)
QueryRefusesMixture(mixture) ==
  LET mixed == Mixed(mixture)
      same(b) == mixed.final = b.final /\ mixed.manifest = b.manifest /\ mixed.edge = b.edge
  IN  QueryAccepts("s", "r1", mixed) => same(FirstOf(mixture)) \/ same(SecondOf(mixture))

(* "want omission": a finding below high whose evidence is not verified is *)
(* left out of the review, which is published without it.                  *)
OmissionStillPublishes(result) == PrepareAccepts(result) => BuildAccepts(CandidateOf(result), "v1", "10:00", 1)
=============================================================================
