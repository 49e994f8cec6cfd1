---------------------------- MODULE ReportInputs ----------------------------
(***************************************************************************)
(* The reviews a provider may answer with, the answers to a repair and the   *)
(* sources they are compared with, and what must hold of each.               *)
(***************************************************************************)
EXTENDS ReportValidation

(* A review of two findings, the second with two claims; the first one may     *)
(* come with a picture.                                                       *)
Findings == 1..2
Items(f) == 1..f
RootKeys == {"schema_version", "summary", "completeness", "limitations", "findings"}
ItemKeys == {"item", "current", "visual", "bbox", "verification"} \cup CurrentKeys \cup VisualKeys
Places ==
  {Root(key) : key \in RootKeys} \cup {At(0, i, "limitation") : i \in 1..2}
  \cup {At(f, 0, key) : f \in Findings, key \in FindingKeys \cup {"finding", "evidence"}}
  \cup UNION {{At(f, e, key) : e \in Items(f), key \in ItemKeys} : f \in Findings}

Text(f, first, second) == IF f = 1 THEN first ELSE second
Template == [p \in Places |->
  CASE p.key = "schema_version" -> "v1"
    [] p.key = "summary" -> "s1"
    [] p.key = "completeness" -> "complete"
    [] p.key \in {"limitations", "findings", "evidence"} -> "array"
    [] p.key = "limitation" -> IF p.e = 1 THEN "callers" ELSE "vague"
    [] p.key \in {"finding", "item", "current", "bbox"} -> "object"
    [] p.key \in {"visual", "verification"} -> "absent"
    [] p.key = "severity" -> Text(p.f, "high", "low")
    [] p.key = "confidence" -> "medium"
    [] p.key = "title" -> Text(p.f, "t1", "t2")
    [] p.key = "description" -> Text(p.f, "d1", "d2")
    [] p.key = "recommendation" -> Text(p.f, "r1", "r2")
    [] p.key \in {"path", "visual_path"} -> "a.go"
    [] p.key = "line_start" -> IF p.e = 2 THEN "two" ELSE "one"
    [] p.key = "line_end" -> IF p.f = 2 THEN "two" ELSE "one"
    [] p.key = "side" -> "head"
    [] p.key = "quote" -> IF p.f = 1 THEN "q1" ELSE IF p.e = 1 THEN "q12" ELSE "q2"
    [] p.key = "sha256" -> "digest"
    [] p.key \in {"x", "y"} -> "zero"
    [] OTHER -> "one"]
Plain == [decodes |-> "object", findings |-> 2, evidence |-> <<1, 2>>, limitations |-> 2, at |-> Template]
Picture == [Plain EXCEPT !.at[At(1, 1, "visual")] = "object"]

(* What may be wrong at a place.                                               *)
Marks(key) ==
  CASE key = "schema_version" -> NoText \cup {"other"}
    [] key = "summary" -> NoText \cup {"long", "clean"}
    [] key = "limitations" -> Missing \cup {"number", "container", "crowded"}
    [] key = "limitation" -> (NoText \ {"absent"}) \cup {"long"} \cup (LimitationTexts \ {"spare", "reserve"})
    [] key = "findings" -> Missing \cup {"number", "container", "crowded"}
    [] key \in {"finding", "item"} -> {"number", "container"}
    [] key = "evidence" -> Missing \cup {"blank", "number", "container", "crowded", "hollow"}
    [] key = "current" -> Missing \cup {"blank", "number", "container"}
    [] key = "visual" -> {"null", "number", "container", "object"}
    [] key = "bbox" -> {"absent", "number"}
    [] key = "verification" -> {"verified"}
    [] key \in DOMAIN Allowed -> NoText \cup {"outside"} \cup Allowed[key]
    [] key \in {"line_start", "line_end"} -> Missing \cup {"zero", "fraction", "text", "container", "two", "three"}
    [] key \in BoxKeys -> Missing \cup {"zero", "fraction", "text", "container"}
    [] key = "sha256" -> NoText \cup {"garbled"}
    [] key \in {"path", "visual_path"} -> NoText \cup {"long", "unsafe"}
    [] key = "title" -> NoText \cup {"long", "t1", "T1"}
    [] key = "quote" -> NoText \cup {"long"}
    [] key = "description" -> NoText \cup {"long", "d1"}
    [] OTHER -> NoText \cup {"long", "r1"}

(* A review is given by what it changes in the plain one.                       *)
Change(p, v) == [place |-> p, value |-> v]
Singles == UNION {{<<Change(p, v)>> : v \in Marks(p.key)} : p \in Places}

(* Places whose values are judged together.                                    *)
Joined == <<Root("completeness"), Root("limitations"), At(0, 1, "limitation"), At(0, 2, "limitation")>>
Paired == <<Root("summary"), At(1, 0, "severity"), At(1, 0, "evidence"), At(2, 1, "current"), At(2, 2, "line_end"), At(1, 1, "quote")>>
Doubles(places) ==
  UNION {{<<Change(places[p[1]], v), Change(places[p[2]], w)>> : v \in Marks(places[p[1]].key), w \in Marks(places[p[2]].key)} :
           p \in {x \in (DOMAIN places) \X (DOMAIN places) : x[1] < x[2]}}

(* Two findings of one content, apart from what tells them apart or does not.  *)
TwinOf == <<Change(At(2, 1, "line_end"), "one"), Change(At(2, 1, "quote"), "q1"), Change(At(2, 0, "title"), "t1"),
            Change(At(2, 0, "description"), "d1"), Change(At(2, 0, "recommendation"), "r1")>>
Difference == <<Change(At(2, 0, "severity"), "high"), Change(At(2, 0, "title"), "T1"), Change(At(2, 0, "description"), "d2"),
                Change(At(2, 1, "quote"), "q1 "), Change(At(2, 1, "side"), "base"), Change(At(2, 0, "confidence"), "high")>>
Twins == {TwinOf \o [i \in DOMAIN Difference |-> IF i \in kept THEN Difference[i] ELSE Change(Root("summary"), "s1")] : kept \in SUBSET DOMAIN Difference}

Applied(d, changes) ==
  [d EXCEPT !.at = [p \in Places |->
     LET at == {i \in DOMAIN changes : changes[i].place = p}
     IN IF at = {} THEN d.at[p] ELSE changes[CHOOSE i \in at : \A j \in at : j <= i].value]]
Document(r) == [Applied(IF r.shape = "picture" THEN Picture ELSE Plain, r.changes)
                  EXCEPT !.decodes = r.decodes, !.evidence = IF r.shape = "twin" THEN <<1, 1>> ELSE <<1, 2>>]
With(d, p, v) == [d EXCEPT !.at[p] = v]

Captured == [role |-> "security", instance |-> "given", live |-> FALSE, target |-> "digest", sourceBearing |-> FALSE, assets |-> {}]
Artist == [Captured EXCEPT !.role = "artist", !.assets = {<<"any", "a.go">>}]
LiveArtist == [Artist EXCEPT !.live = TRUE, !.target = "none", !.assets = {<<"base", "a.go">>, <<"index", "a.go">>}]
BadScopes == {[Captured EXCEPT !.role = "other"], [Captured EXCEPT !.instance = "blank"], [Captured EXCEPT !.live = TRUE],
              [Captured EXCEPT !.target = "none"], [Captured EXCEPT !.sourceBearing = TRUE]}
Report(shape, decodes, changes, scope) == [shape |-> shape, decodes |-> decodes, changes |-> changes, scope |-> scope]
Reports ==
  {Report("plain", "object", c, Captured) : c \in {<<>>} \cup Singles \cup Doubles(Joined) \cup Doubles(Paired)}
  \cup {Report("twin", "object", c, Captured) : c \in Twins}
  \cup {Report("picture", "object", c, s) : c \in Singles, s \in {Artist, LiveArtist}}
  \cup {Report("plain", how, <<>>, Captured) : how \in {"empty", "not_utf8", "surrogate", "many", "duplicate_keys", "not_an_object"}}
  \cup {Report("plain", "object", <<>>, s) : s \in BadScopes}

-----------------------------------------------------------------------------
(* Answers to a repair: the planned places with values that would do, less one, *)
(* or one more; or an answer that is no patch.                                *)
Ops(paths, completeness, severity) ==
  [p \in paths |-> IF p.key = "completeness" THEN completeness ELSE IF p.key = "severity" THEN severity
                  ELSE IF p.key = "limitation" THEN Text(p.e, "spare", "reserve") ELSE Template[p]]
Patch(ops) == [decodes |-> "object", form |-> TRUE, ops |-> ops]
Good(paths) == {Patch(Ops(paths, c, s)) : c \in {"complete", "incomplete"}, s \in {"low", "high"}}
Others == {Root("summary"), At(1, 0, "severity"), At(2, 0, "severity"), At(2, 1, "quote")}
Answers(paths) ==
  Good(paths)
  \cup {Patch(Ops(paths \ {p}, "complete", "low")) : p \in paths}
  \cup {Patch(Ops(paths \cup {p}, "complete", "low")) : p \in Others}
  \cup {[Patch(Ops(paths, "complete", "high")) EXCEPT !.decodes = "many"], [Patch(Ops(paths, "complete", "high")) EXCEPT !.form = FALSE]}

(* A planned place the patch may not set: the value there is no good, but it   *)
(* is a number or a text, and only the places meaningfulRepairTarget() names  *)
(* have a test of their own.                                                  *)
Locked(d, paths) == \E p \in paths : p.key \in {"sha256", "width", "height"} /\ d.at[p] \notin Missing \cup Blank

Review(d) == projectProviderReview(d)

(* A validated review has only fields of the provider, a claim for every       *)
(* finding, and findings that their order tells apart, so that each one gets   *)
(* its own claims back.                                                       *)
ValidatedIsSound(d, scope) ==
  validate(d, scope, TRUE).result = "valid" =>
    LET groups == Groups(Review(d))
    IN /\ \A p \in Places : p.key = "verification" => Review(d).at[p] = "absent" /\ (d.at[p] # "absent" => p \in DiscardedPaths(d))
       /\ \A f \in Objects(d) : \A e \in Claimed(d, f) : injectTrustedCurrentIdentity(Review(d)).at[At(f, e, "verification")] = "claimed"
       /\ {groups[i].finding : i \in DOMAIN groups} = 1..d.findings
       /\ \A i, j \in DOMAIN groups : i < j => /\ Before(FindingKey(groups[i]), FindingKey(groups[j]))
                                               /\ Rank(groups[i].severity) >= Rank(groups[j].severity)
       /\ \A i \in DOMAIN groups : groups[i].claims # <<>>
       /\ \A f \in Objects(d) : \A e \in Pictured(d, f) : scope.role = "artist" /\ PictureKey(d, scope, f, e) \in scope.assets

(* Every plan to fill in what is missing can be carried out: good values at     *)
(* exactly the planned places make a valid review.                            *)
PlanCanBeFilled(d, scope) ==
  LET plan == validate(d, scope, TRUE)
  IN plan.plan = "fill" /\ ~Locked(d, plan.paths) /\ validateVisualEvidence(Patched(d, Ops(plan.paths, "complete", "low"), Template), scope) =>
       \E answer \in Good(plan.paths) : ApplyRepair(d, scope, plan, answer, Template).accepted

(* A repair that is accepted leaves the rest of the review as it was: every      *)
(* value that was good, the number of findings, and no severity is lower.      *)
RepairKeepsReview(d, scope) ==
  LET plan == validate(d, scope, TRUE)
  IN plan.plan = "fill" =>
       \A answer \in Answers(plan.paths) :
         LET applied == ApplyRepair(d, scope, plan, answer, Template)
         IN applied.accepted =>
              /\ \A q \in Places : \/ applied.candidate.at[q] = d.at[q]
                                   \/ \E p \in plan.paths : (q = p /\ Verdict(p.key, d.at[p]) = "repair") \/ Below(p, q)
                                   \/ q \in plan.paths /\ q.key \in {"evidence", "current", "limitations", "limitation"} /\ d.at[q] \in NoText
              /\ validate(applied.candidate, scope, FALSE).result = "valid"
              /\ \A f \in Objects(d) : Rank(d.at[At(f, 0, "severity")]) <= Rank(applied.candidate.at[At(f, 0, "severity")])

(* A reformat is asked for only when there was nothing to read, and its answer  *)
(* is judged like a first one.                                                *)
ReformatIsJudged(d, scope) ==
  LET plan == validate(d, scope, TRUE)
  IN plan.plan = "reformat" =>
       /\ d.decodes # "object"
       /\ \A answer \in {Plain, d, With(Plain, Root("summary"), "clean")} :
            ApplyRepair(d, scope, plan, [document |-> answer], Template).accepted = (validate(answer, scope, TRUE).result = "valid")

ReportIsFaithful(r) ==
  LET d == Document(r)
  IN /\ ValidatedIsSound(d, r.scope)
     /\ PlanCanBeFilled(d, r.scope)
     /\ RepairKeepsReview(d, r.scope)
     /\ ReformatIsJudged(d, r.scope)

-----------------------------------------------------------------------------
(* Valid reviews over one file, in every order, with quotes that are and are    *)
(* not what the lines say.                                                    *)
Ranges == {"one", "two"}
Claim(f, e, line, quote) == <<Change(At(f, e, "line_start"), line), Change(At(f, e, "line_end"), line), Change(At(f, e, "quote"), quote)>>
Quoted ==
  {<<Change(At(1, 0, "severity"), s[1]), Change(At(2, 0, "severity"), s[2])>>
     \o Claim(1, 1, r[1], q[1]) \o Claim(2, 1, r[2], q[2]) \o Claim(2, 2, r[3], q[3]) :
     s \in [1..2 -> {"low", "high"}], r \in [1..3 -> Ranges], q \in {"q1", "q2", "q2 cut"} \X {"q1", "q2"} \X {"q1", "q2"}}
  \cup {<<Change(At(2, 1, "path"), "b.go")>>, <<Change(At(2, 1, "side"), "base")>>}

World == [live |-> FALSE, scope |-> "none", answer |-> "available", file |-> <<"x", "n", "y", "n">>]
Worlds ==
  {[World EXCEPT !.file = file] : file \in {<<"x", "n", "y", "n">>, <<"x", "n", "y">>, <<"x", "n">>}}
  \cup {[World EXCEPT !.answer = answer] : answer \in {"stale", "unavailable", "failed"}}
  \cup {[World EXCEPT !.live = TRUE, !.scope = scope] : scope \in {"workspace", "stage", "head", "commit"}}
Checks == {[changes |-> c, world |-> w] : c \in Quoted, w \in Worlds}

(* The bytes of the lines from the first to the last, counted by the newlines    *)
(* before each byte; there are none unless the last line has a byte.            *)
LineOf(target, i) == 1 + Cardinality({j \in 1..(i - 1) : target[j] = "n"})
LinesOf(target, first, last) ==
  LET bytes == {i \in DOMAIN target : LineOf(target, i) \in first..last}
  IN IF first <= last /\ \E i \in bytes : LineOf(target, i) = last
     THEN SubSeq(target, CHOOSE i \in bytes : \A j \in bytes : i <= j, CHOOSE i \in bytes : \A j \in bytes : j <= i)
     ELSE NoExcerpt
Files == UNION {[1..n -> {"x", "n"}] : n \in 0..4}
ExcerptIsLines(target) == \A s, e \in 1..4 : selectExcerpt(target, s, e) = LinesOf(target, s, e)

(* Whether the quote of an item is what the file says, by the definition.       *)
Exact(d, f, e, world) ==
  QuoteBytes[d.at[At(f, e, "quote")]] = LinesOf(world.file, Lines[d.at[At(f, e, "line_start")]], Lines[d.at[At(f, e, "line_end")]])
Everywhere(d) == UNION {{<<f, e>> : e \in 1..d.evidence[f]} : f \in 1..d.findings}

(* A review that is accepted: a finding is called verified only if all its       *)
(* quotes are the lines of an available source, and a grave one always is; a    *)
(* transcribed one always is.  No review is refused for the order of findings   *)
(* that the validation itself had put in order.                                *)
AcceptedIsVerified(d, world) ==
  \A purpose \in {"initial", "repair", "extraction"} :
    LET outcome == IF purpose = "extraction" THEN acceptExtraction(d, world) ELSE accept(d, world, purpose)
    IN /\ outcome.condition # "refused_output"
       /\ outcome.condition = "accepted" =>
         \A i \in DOMAIN outcome.reduced :
           LET f == outcome.reduced[i].finding
               exact == world.answer = "available" /\ \A e \in 1..d.evidence[f] : d.at[At(f, e, "path")] = "a.go" /\ Exact(d, f, e, world)
           IN /\ (outcome.reduced[i].state = "verified") = exact
              /\ purpose = "extraction" \/ Rank(d.at[At(f, 0, "severity")]) >= 4 => exact

(* "NewExactEvidenceRepairPlan binds one repair to quote fields whose immutable  *)
(* target range was selected successfully but whose provider quote did not      *)
(* match the exact target bytes": the places it names in the review as the      *)
(* provider wrote it.                                                         *)
ExactPlanNamesMismatches(d, world) ==
  LET outcome == accept(d, world, "initial")
  IN outcome.condition = "invalid_evidence_claim" =>
       outcome.paths = {At(c[1], c[2], "quote") : c \in {x \in Everywhere(d) : ~Exact(d, x[1], x[2], world)}}

InOrder(d) ==
  \A i \in DOMAIN Groups(d) : /\ Groups(d)[i].finding = i
                              /\ \A j \in DOMAIN Groups(d)[i].claims : Groups(d)[i].claims[j].item = j

(* The same of a review whose findings and claims already are in order, and     *)
(* then the exact quotes make it one that is accepted.                          *)
QuoteOf(bytes) == IF \E q \in DOMAIN QuoteBytes : QuoteBytes[q] = bytes THEN CHOOSE q \in DOMAIN QuoteBytes : QuoteBytes[q] = bytes ELSE "q1 "
ExactRepairSucceeds(d, world) ==
  LET outcome == accept(d, world, "initial")
      quote(p) == QuoteOf(LinesOf(world.file, Lines[d.at[At(p.f, p.e, "line_start")]], Lines[d.at[At(p.f, p.e, "line_end")]]))
      scope == IF world.live THEN [Captured EXCEPT !.live = TRUE, !.target = "none"] ELSE Captured
      applied == ApplyRepair(d, scope, outcome, Patch([p \in outcome.paths |-> quote(p)]), Template)
  IN InOrder(d) /\ validate(d, scope, TRUE).result = "valid" /\ outcome.condition = "invalid_evidence_claim" =>
       /\ ExactPlanNamesMismatches(d, world)
       /\ applied.accepted
       /\ accept(applied.candidate, world, "repair").condition = "accepted"

EvidenceIsChecked(c) ==
  LET d == Applied(Plain, c.changes) IN AcceptedIsVerified(d, c.world) /\ ExactRepairSucceeds(d, c.world)
=============================================================================
