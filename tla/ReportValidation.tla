-------------------------- MODULE ReportValidation --------------------------
(***************************************************************************)
(* Validation and repair of one provider review (app/validation/review.go,   *)
(* repair.go).                                                               *)
(*                                                                           *)
(* A document is a function from places to values.  A place is a finding f,  *)
(* an evidence item e of it and a key (0 where there is none); a value is    *)
(* the string found there, or one of the marks                               *)
(*    absent, null, number, container   no text there                        *)
(*    empty, blank                      nothing, or a placeholder like n/a   *)
(*    long, outside, other              too long, not in the enum, constant  *)
(*    zero, fraction, text              not a positive integer               *)
(*    object, array, crowded, hollow    a container, one over its limit, one *)
(*                                      without an item                      *)
(* d.findings, d.evidence[f] and d.limitations are the lengths of the arrays *)
(* that are there, or that a repair would put there.  The schema validator   *)
(* itself is taken to work: it accepts or refuses, and does not fail.        *)
(***************************************************************************)
EXTENDS Naturals, Sequences, FiniteSets, TLC

At(f, e, key) == [f |-> f, e |-> e, key |-> key]
Root(key) == At(0, 0, key)

(* decodeJSONObject(): one object in valid UTF-8, without unpaired surrogates,  *)
(* duplicate keys or anything after it.                                        *)
decodeJSONObject(raw) == raw.decodes = "object"

Missing == {"absent", "null"}
Blank == {"empty", "blank"}
NoText == Missing \cup Blank \cup {"number", "container"}

Severities == <<"info", "low", "medium", "high", "critical", "blocker">>
Rank(severity) == IF \E i \in DOMAIN Severities : Severities[i] = severity
                  THEN CHOOSE i \in DOMAIN Severities : Severities[i] = severity ELSE 0
Lines == [one |-> 1, two |-> 2, three |-> 3]

Allowed == [completeness |-> {"complete", "incomplete"},
            severity |-> {Severities[i] : i \in DOMAIN Severities},
            confidence |-> {"low", "medium", "high"},
            side |-> {"base", "head", "worktree", "index"}]

FindingTexts == {"title", "description", "recommendation"}
FindingKeys == FindingTexts \cup {"severity", "confidence"}
CurrentKeys == {"path", "line_start", "line_end", "side", "quote"}
BoxKeys == {"x", "y", "width", "height"}
VisualKeys == {"visual_path", "sha256"} \cup BoxKeys

-----------------------------------------------------------------------------
(* The checks of one field.  "repair" adds its place to the repairable ones,  *)
(* "fatal" refuses the review.                                               *)
requiredText(key, v) ==
  CASE v \in Missing \cup Blank \cup {"number"} -> "repair"
    [] v = "container" \/ (v = "long" /\ key # "quote") -> "fatal"
    [] OTHER -> "fine"

requiredEnum(key, v) ==
  CASE v = "container" -> "fatal"
    [] v \in Allowed[key] -> "fine"
    [] OTHER -> "repair"

requiredPositiveInteger(v) ==
  CASE v = "container" -> "fatal"
    [] v \in DOMAIN Lines -> "fine"
    [] OTHER -> "repair"

requiredNonNegativeInteger(v) ==
  CASE v \in Missing -> "repair"
    [] v \in DOMAIN Lines \cup {"zero"} -> "fine"
    [] OTHER -> "fatal"

requiredConstant(v) ==
  CASE v \in Missing \cup Blank \cup {"number"} -> "repair"
    [] v = "v1" -> "fine"
    [] OTHER -> "fatal"

Verdict(key, v) ==
  CASE key = "schema_version" -> requiredConstant(v)
    [] key \in DOMAIN Allowed -> requiredEnum(key, v)
    [] key \in {"line_start", "line_end", "width", "height"} -> requiredPositiveInteger(v)
    [] key \in {"x", "y"} -> requiredNonNegativeInteger(v)
    [] OTHER -> requiredText(key, v)

(* A container that is missing, or a scalar, can be put in by a repair.        *)
ContainerVerdict(v, whole) ==
  CASE v = whole -> "fine"
    [] v \in Missing \cup Blank \cup {"number"} -> "repair"
    [] OTHER -> "fatal"

-----------------------------------------------------------------------------
(* The places inspectReview() reaches: nothing below a container that is not   *)
(* there, and no visual of an item without a current claim.                   *)
FindingsOf(d) == IF d.at[Root("findings")] = "array" THEN 1..d.findings ELSE {}
Objects(d) == {f \in FindingsOf(d) : d.at[At(f, 0, "finding")] = "object"}
ItemsOf(d, f) == IF d.at[At(f, 0, "evidence")] = "array" THEN 1..d.evidence[f] ELSE {}
ObjectItems(d, f) == {e \in ItemsOf(d, f) : d.at[At(f, e, "item")] = "object"}
Claimed(d, f) == {e \in ObjectItems(d, f) : d.at[At(f, e, "current")] = "object"}
Visuals(d, f) == {e \in Claimed(d, f) : d.at[At(f, e, "visual")] \notin Missing}
Pictured(d, f) == {e \in Visuals(d, f) : d.at[At(f, e, "visual")] = "object"}

Fields(d) ==
  {Root(key) : key \in {"schema_version", "summary", "completeness"}}
  \cup {At(f, 0, key) : f \in Objects(d), key \in FindingKeys}
  \cup UNION {{At(f, e, key) : e \in Claimed(d, f), key \in CurrentKeys} : f \in Objects(d)}
  \cup UNION {{At(f, e, key) : e \in Pictured(d, f), key \in VisualKeys} : f \in Objects(d)}

(* The value of a field of a box that is not an object is missing.            *)
Value(d, p) == IF p.key \in BoxKeys /\ d.at[At(p.f, p.e, "bbox")] # "object" THEN "absent" ELSE d.at[p]

Containers(d) ==
  {At(f, 0, "evidence") : f \in Objects(d)}
  \cup UNION {{At(f, e, "current") : e \in ObjectItems(d, f)} : f \in Objects(d)}
Whole(key) == IF key = "current" THEN "object" ELSE "array"

(* What is in the wrong place altogether, and lines that end before they start. *)
Broken(d) ==
  \/ d.at[Root("findings")] # "array"
  \/ Objects(d) # FindingsOf(d)
  \/ \E f \in Objects(d) :
       \/ ObjectItems(d, f) # ItemsOf(d, f)
       \/ Pictured(d, f) # Visuals(d, f)
       \/ \E e \in Pictured(d, f) : d.at[At(f, e, "bbox")] # "object"
       \/ \E e \in Claimed(d, f) :
            LET value(key) == d.at[At(f, e, key)]
            IN \/ value("path") = "unsafe"
               \/ /\ {value("line_start"), value("line_end")} \subseteq DOMAIN Lines
                  /\ Lines[value("line_end")] < Lines[value("line_start")]

-----------------------------------------------------------------------------
(* materialScopeUnreadable(): a limitation is a sequence of words, of which   *)
(* only the class matters, and words are near one another within a window.    *)
relationWindow == 5
Near(words, i, class) == \E j \in DOMAIN words : words[j] = class /\ j <= i + relationWindow /\ i <= j + relationWindow
NearBefore(words, i, class) == \E j \in DOMAIN words : words[j] = class /\ j < i /\ i <= j + relationWindow
followedByScopeNoun(words, i) == i < Len(words) /\ words[i + 1] = "scope"
materialScopeUnreadable(words) ==
  \E i \in DOMAIN words :
    /\ Near(words, i, "scope")
    /\ \/ words[i] = "unreadable"
       \/ words[i] = "review" /\ ~followedByScopeNoun(words, i) /\ NearBefore(words, i, "negation")
       \/ words[i] = "access" /\ Near(words, i, "negation")

(* Limitations a provider writes: "could not read the target", "the review     *)
(* target does not include callers", "cannot tell", and a negation out of      *)
(* the window of the word it would have to go with.                            *)
Words == [unread |-> <<"other", "negation", "access", "other", "scope">>,
          callers |-> <<"other", "review", "scope", "other", "negation", "other", "other">>,
          vague |-> <<"negation", "other">>, spare |-> <<"other">>, reserve |-> <<"other", "scope">>,
          distant |-> <<"access", "scope", "other", "other", "other", "other", "negation">>]
LimitationTexts == DOMAIN Words

(* ValidateReviewCompleteness() over the strings that are there; a value that *)
(* is no string counts as an empty one.                                      *)
LimitationAt(d, i) == d.at[At(0, i, "limitation")]
LimitationItems(d) == IF d.at[Root("limitations")] = "array" THEN 1..d.limitations ELSE {}
Meaningless(d) == {i \in LimitationItems(d) : LimitationAt(d, i) \in NoText}
Accepted(d) == {LimitationAt(d, i) : i \in {j \in LimitationItems(d) : LimitationAt(d, j) \in LimitationTexts}}
LimitationsBroken(d) ==
  \/ d.at[Root("limitations")] \in {"crowded", "container"}
  \/ \E i \in LimitationItems(d) : LimitationAt(d, i) \in {"container", "long"}
  \/ \E i, j \in LimitationItems(d) : i # j /\ LimitationAt(d, i) = LimitationAt(d, j) /\ LimitationAt(d, i) \in LimitationTexts
LimitationRepairs(d) ==
  {p \in {Root("limitations")} : d.at[p] \in Missing \cup Blank \cup {"number"}}
  \cup {At(0, i, "limitation") : i \in {j \in Meaningless(d) : LimitationAt(d, j) # "container"}}
CompletenessBroken(d) ==
  \/ d.at[Root("completeness")] = "incomplete" /\ Accepted(d) = {} /\ LimitationRepairs(d) = {}
  \/ d.at[Root("completeness")] = "complete" /\ \E text \in Accepted(d) : materialScopeUnreadable(Words[text])

-----------------------------------------------------------------------------
(* Capitals and spacing do not tell two findings apart.                        *)
normalizeContent(v) == IF v = "T1" THEN "t1" ELSE IF v = "q1 " THEN "q1" ELSE v
Region(d, f) == [e \in Claimed(d, f) |-> [key \in CurrentKeys |-> normalizeContent(d.at[At(f, e, key)])]]
SameRegion(d, f, g) ==
  LET key(h) == [c \in {Region(d, h)[e] : e \in Claimed(d, h)} |-> Cardinality({e \in Claimed(d, h) : Region(d, h)[e] = c})]
  IN key(f) = key(g)
duplicateNormalizedFinding(d) ==
  \E f, g \in Objects(d) :
    /\ f # g /\ SameRegion(d, f, g)
    /\ \A key \in FindingTexts : normalizeContent(d.at[At(f, 0, key)]) = normalizeContent(d.at[At(g, 0, key)])

inspectReview(d) ==
  LET repairable == {p \in Fields(d) : Verdict(p.key, Value(d, p)) = "repair"}
                    \cup {p \in Containers(d) : ContainerVerdict(d.at[p], Whole(p.key)) = "repair"}
                    \cup LimitationRepairs(d)
      fatal == \/ Broken(d) \/ LimitationsBroken(d) \/ CompletenessBroken(d)
               \/ \E p \in Fields(d) : Verdict(p.key, Value(d, p)) = "fatal"
               \/ \E p \in Containers(d) : ContainerVerdict(d.at[p], Whole(p.key)) = "fatal"
               \/ FindingsOf(d) # {} /\ d.at[Root("summary")] = "clean"
  IN [repairable |-> repairable,
      fatal |-> fatal \/ (repairable = {} /\ duplicateNormalizedFinding(d))]

(* The provider wire schema.  It knows no placeholders, and asks of a visual    *)
(* that it is an object with a digest; the normalized one differs from it by   *)
(* the fields that are put in.                                                *)
SchemaAccepts(d) ==
  /\ \A p \in Fields(d) : \/ Verdict(p.key, Value(d, p)) = "fine"
                          \/ Value(d, p) = "blank" /\ p.key \notin DOMAIN Allowed \cup {"schema_version"}
  /\ \A p \in Containers(d) : d.at[p] = Whole(p.key)
  /\ d.at[Root("limitations")] = "array"
  /\ \A i \in LimitationItems(d) : LimitationAt(d, i) \in LimitationTexts \cup {"blank"}
  /\ \A i, j \in LimitationItems(d) : LimitationAt(d, i) = LimitationAt(d, j) => i = j
  /\ d.at[Root("findings")] = "array" /\ Objects(d) = FindingsOf(d)
  /\ \A f \in Objects(d) :
       /\ ObjectItems(d, f) = ItemsOf(d, f)
       /\ \A e \in ObjectItems(d, f) :
            /\ d.at[At(f, e, "path")] # "unsafe"
            /\ d.at[At(f, e, "visual")] \in {"absent", "object"}
            /\ d.at[At(f, e, "visual")] = "object" =>
                 d.at[At(f, e, "bbox")] = "object" /\ d.at[At(f, e, "visual_path")] # "unsafe" /\ d.at[At(f, e, "sha256")] # "garbled"

-----------------------------------------------------------------------------
(* projectProviderReview(): fields a provider does not own are left out, and   *)
(* where they were is noted.                                                  *)
Owned(p) == p.key # "verification"
projectProviderReview(d) == [d EXCEPT !.at = [p \in DOMAIN d.at |-> IF Owned(p) THEN d.at[p] ELSE "absent"]]
DiscardedPaths(d) == {p \in DOMAIN d.at : ~Owned(p) /\ d.at[p] # "absent"}

(* injectTrustedCurrentIdentity(): every claim gets the trusted identity and   *)
(* the verification "claimed".                                                *)
injectTrustedCurrentIdentity(d) ==
  [d EXCEPT !.at = [p \in DOMAIN d.at |->
     IF p.key = "verification" /\ p.e \in Claimed(d, p.f) THEN "claimed" ELSE d.at[p]]]

validateScope(scope) ==
  /\ scope.role \in {"artist", "security"} /\ scope.instance = "given"
  /\ scope.target = IF scope.live THEN "none" ELSE "digest"

(* validateVisualEvidence(): pictures are for the artist, and their digest is  *)
(* the observed one of the path, on its side when the source is live.          *)
PictureKey(d, scope, f, e) == <<IF scope.live THEN d.at[At(f, e, "side")] ELSE "any", d.at[At(f, e, "visual_path")]>>
validateVisualEvidence(d, scope) ==
  \A f \in Objects(d) : \A e \in Pictured(d, f) :
    /\ scope.role = "artist"
    /\ PictureKey(d, scope, f, e) \in scope.assets
    /\ d.at[At(f, e, "sha256")] = "digest"

maxRepairOperations == 100
Nothing == [result |-> "refused", plan |-> "none", paths |-> {}]
Plan(mode, paths) == [result |-> "refused", plan |-> mode, paths |-> paths]

(* newFillRepairPlan(): no plan over the limit of operations.                  *)
newFillRepairPlan(paths) == IF Cardinality(paths) > maxRepairOperations THEN Nothing ELSE Plan("fill", paths)

(* validate(): decode, project, schema, inject, schema, inspect, pictures.     *)
validate(raw, scope, classifyRepair) ==
  LET d == projectProviderReview(raw)
      inspection == inspectReview(d)
      repairOnly == ~inspection.fatal /\ inspection.repairable # {}
  IN CASE ~validateScope(scope) \/ scope.sourceBearing -> Nothing
       [] ~decodeJSONObject(raw) /\ validateScope(scope) -> IF classifyRepair THEN Plan("reformat", {}) ELSE Nothing
       [] OTHER ->
     CASE inspection.fatal -> Nothing
       [] repairOnly -> IF classifyRepair THEN newFillRepairPlan(inspection.repairable) ELSE Nothing
       [] OTHER ->
     CASE ~SchemaAccepts(d) \/ ~validateVisualEvidence(d, scope) -> Nothing
       [] OTHER -> [result |-> "valid", plan |-> "none", paths |-> {}]

-----------------------------------------------------------------------------
(* The repair of a classified review.  An answer is a patch, [decodes, form,   *)
(* ops]: form says that it is a patch of 1 to 100 operations on distinct       *)
(* places, and ops gives the value at each; or a whole document.               *)
Positive(v) == v \in DOMAIN Lines

meaningfulRepairTarget(d, p) ==
  LET v == d.at[p] IN
  CASE p.key \in FindingTexts \cup {"summary", "quote", "path", "visual_path", "limitation"} -> v \notin NoText
    [] p.key = "schema_version" -> v = "v1"
    [] p.key \in {"completeness", "severity", "confidence"} -> v \in Allowed[p.key]
    [] p.key = "side" -> v \in {"base", "head", "worktree"}
    [] p.key \in {"line_start", "line_end"} -> Positive(v)
    [] p.key = "limitations" -> v = "crowded" \/ (v = "array" /\ d.limitations > 0)
    [] p.key = "evidence" -> v \in {"array", "crowded"}
    [] p.key = "current" -> v = "object"
    [] OTHER -> v \notin Missing \cup Blank

(* The places a value put at p brings along, and where there is nothing to     *)
(* put a value into.                                                          *)
Below(p, q) ==
  CASE p.key = "current" -> q.f = p.f /\ q.e = p.e /\ q.key \in CurrentKeys
    [] p.key = "evidence" -> q.f = p.f /\ q.e > 0 /\ q.key # "verification"
    [] p.key = "limitations" -> q.key = "limitation"
    [] OTHER -> FALSE
Parent(p) ==
  CASE p.key \in CurrentKeys -> At(p.f, p.e, "current")
    [] p.key \in BoxKeys -> At(p.f, p.e, "bbox")
    [] p.key \in {"visual_path", "sha256"} -> At(p.f, p.e, "visual")
    [] OTHER -> p

setRepairValue(d, p, exact) ==
  /\ Parent(p) # p => d.at[Parent(p)] = "object"
  /\ meaningfulRepairTarget(d, p) => exact

Patched(d, ops, template) ==
  [d EXCEPT !.at = [q \in DOMAIN d.at |->
     CASE q \in DOMAIN ops -> ops[q]
       [] q \notin DOMAIN ops /\ \E p \in DOMAIN ops : Below(p, q) /\ ops[p] \in {"object", "array"} -> template[q]
       [] OTHER -> d.at[q]]]

rejectSeverityDowngrade(d, patched) ==
  \A f \in Objects(d) : LET before == Rank(d.at[At(f, 0, "severity")]) after == Rank(patched.at[At(f, 0, "severity")])
                        IN before > 0 /\ after > 0 => after >= before

Refused == [accepted |-> FALSE]

(* Mutant: an operation need not be one of the plan's. *)
applyPatchRepairAnywhere(d, scope, plan, answer, template) ==
  LET patched == Patched(d, answer.ops, template)
  IN IF /\ decodeJSONObject(d) /\ decodeJSONObject(answer) /\ answer.form
        /\ plan.paths \subseteq DOMAIN answer.ops
        /\ validate(patched, scope, FALSE).result = "valid"
     THEN [accepted |-> TRUE, candidate |-> patched]
     ELSE Refused

(* applyPatchRepairCandidate(): exactly the planned places, none of which is    *)
(* meaningful unless the repair is one of exact evidence.                      *)
applyPatchRepair(d, scope, plan, answer, template) ==
  LET patched == Patched(d, answer.ops, template)
      done == validate(patched, scope, FALSE)
  IN IF /\ decodeJSONObject(d) /\ d.at[Root("findings")] = "array" /\ Objects(d) = FindingsOf(d)
        /\ answer.decodes = "object" /\ answer.form
        /\ DOMAIN answer.ops = plan.paths
        /\ \A p \in plan.paths : setRepairValue(d, p, plan.plan = "exact")
        /\ rejectSeverityDowngrade(d, patched)
        /\ done.result = "valid"
     THEN [accepted |-> TRUE, candidate |-> patched]
     ELSE Refused

(* ApplyRepairCandidate(): a reformat answer is a document of its own.          *)
ApplyRepair(d, scope, plan, answer, template) ==
  CASE plan.plan = "reformat" ->
         IF validate(answer.document, scope, FALSE).result = "valid"
         THEN [accepted |-> TRUE, candidate |-> answer.document] ELSE Refused
    [] plan.plan \in {"fill", "exact"} -> applyPatchRepair(d, scope, plan, answer, template)
    [] OTHER -> Refused

-----------------------------------------------------------------------------
(***************************************************************************)
(* What becomes of a validated review: its findings and claims are put in    *)
(* order (normalizeFindings() of app/validation/review.go, domain/finding.go), *)
(* each claim is compared with the source (app/evidence), and the receipts   *)
(* decide the finding's evidence state and the acceptance of the review      *)
(* (app/review/evidence.go, accept() of provider_runtime.go).                *)
(***************************************************************************)

(* Every string of a document has a place in one alphabet; a fingerprint is a  *)
(* digest, and any fixed order of it will do.                                  *)
Alphabet == <<"a.go", "b.go", "base", "head", "high", "index", "long", "low", "medium",
              "d1", "d2", "q1", "q1 ", "q2", "q2 cut", "q12", "q12 cut", "r1", "r2", "T1", "t1", "t2", "worktree">>
Position(v) == CHOOSE i \in DOMAIN Alphabet : Alphabet[i] = v
Before(a, b) == \E i \in DOMAIN a : a[i] < b[i] /\ \A j \in 1..(i - 1) : a[j] = b[j]

-----------------------------------------------------------------------------
(* normalizeCurrentEvidenceClaims(): the claims of a finding in the order of   *)
(* CompareCurrentEvidenceClaims(); item says which of the provider's it is.    *)
ClaimOf(d, f, e) == [item |-> e, path |-> d.at[At(f, e, "path")], side |-> d.at[At(f, e, "side")], quote |-> d.at[At(f, e, "quote")],
                     start |-> Lines[d.at[At(f, e, "line_start")]], end |-> Lines[d.at[At(f, e, "line_end")]]]
ClaimKey(c) == <<Position(c.path), c.start, c.end, Position(c.side), Position(normalizeContent(c.quote)), Position(c.quote)>>
CompareCurrentEvidenceClaims(a, b) == Before(ClaimKey(a), ClaimKey(b))
normalizeCurrentEvidenceClaims(d, f) ==
  SortSeq([e \in 1..d.evidence[f] |-> ClaimOf(d, f, e)],
          LAMBDA a, b : CompareCurrentEvidenceClaims(a, b) \/ (ClaimKey(a) = ClaimKey(b) /\ a.item < b.item))

(* The findings in the order of OrderAndAssignFindings(); finding says which   *)
(* of the provider's it is.                                                   *)
NormalFinding(d, f) ==
  [finding |-> f, severity |-> d.at[At(f, 0, "severity")], title |-> d.at[At(f, 0, "title")],
   confidence |-> d.at[At(f, 0, "confidence")], description |-> d.at[At(f, 0, "description")],
   recommendation |-> d.at[At(f, 0, "recommendation")], claims |-> normalizeCurrentEvidenceClaims(d, f)]
RegionKey(c) == <<Position(c.path), c.start, c.end, Position(c.side), Position(normalizeContent(c.quote))>>
FindingKey(n) ==
  <<Len(Severities) - Rank(n.severity), Position(n.claims[1].path), n.claims[1].start, Position(n.title), Len(n.claims)>>
  \o RegionKey(n.claims[1]) \o RegionKey(n.claims[Len(n.claims)])
  \o <<Position(n.confidence), Position(n.description), Position(n.recommendation)>>
OrderAndAssignFindings(d) ==
  SortSeq([f \in 1..d.findings |-> NormalFinding(d, f)], LAMBDA a, b : Before(FindingKey(a), FindingKey(b)))

-----------------------------------------------------------------------------
(* selectExcerpt(): the bytes from the start of the first line to the end of   *)
(* the last one, its newline with it; there is no line after a last newline.   *)
IndexOfNewline(target, from) ==
  IF \E i \in from..Len(target) : target[i] = "n"
  THEN CHOOSE i \in from..Len(target) : target[i] = "n" /\ \A j \in from..(i - 1) : target[j] # "n"
  ELSE 0
StartOfLine[target \in Seq(STRING), line \in Nat] ==
  IF line = 1 THEN IF target = <<>> THEN 0 ELSE 1
  ELSE LET previous == StartOfLine[target, line - 1]
           newline == IF previous = 0 THEN 0 ELSE IndexOfNewline(target, previous)
       IN IF newline = 0 \/ newline = Len(target) THEN 0 ELSE newline + 1
NoExcerpt == <<"none">>
selectExcerpt(target, lineStart, lineEnd) ==
  IF lineEnd < lineStart \/ StartOfLine[target, lineEnd] = 0 THEN NoExcerpt
  ELSE LET newline == IndexOfNewline(target, StartOfLine[target, lineEnd])
       IN SubSeq(target, StartOfLine[target, lineStart], IF newline = 0 THEN Len(target) ELSE newline)

(* The sides a live source has.                                               *)
liveEvidenceSide(scope) ==
  CASE scope = "workspace" -> {"worktree"}
    [] scope = "stage" -> {"index", "base"}
    [] scope = "head" -> {"head"}
    [] scope \in {"commit", "diff"} -> {"base", "head"}

(* Bytes of the quotes a provider gives.                                      *)
QuoteBytes == ("q1" :> <<"x", "n">> @@ "q1 " :> <<"x", "s", "n">> @@ "q2" :> <<"y", "n">>
               @@ "q2 cut" :> <<"y">> @@ "q12" :> <<"x", "n", "y", "n">> @@ "q12 cut" :> <<"x", "n", "y">>)

(* VerifyCurrent(): world says where the source is, [live, scope, files,        *)
(* answers]; a reader that fails ends the verification of the whole review.    *)
VerifyCurrent(c, world) ==
  LET excerpt == selectExcerpt(world.file, c.start, c.end)
      unread == \/ world.answer = "failed"
                \/ world.live /\ (c.path # "a.go" \/ c.side \notin liveEvidenceSide(world.scope))
  IN CASE unread -> "error"
       [] OTHER ->
     CASE world.answer = "stale" -> "stale"
       [] world.answer = "unavailable" \/ c.path # "a.go" -> "unavailable"
       [] OTHER ->
     CASE excerpt = NoExcerpt -> "out_of_bounds"
       [] excerpt # NoExcerpt /\ QuoteBytes[c.quote] # excerpt -> "quote_mismatch"
       [] OTHER -> "verified"

(* VerifyValidatedEvidence(): a receipt for each claim of each finding, or an  *)
(* error and nothing.                                                         *)
Groups(d) == OrderAndAssignFindings(d)
Receipts(d, world) == [i \in DOMAIN Groups(d) |-> [j \in DOMAIN Groups(d)[i].claims |-> VerifyCurrent(Groups(d)[i].claims[j], world)]]
VerificationFails(receipts) == \E i \in DOMAIN receipts : \E j \in DOMAIN receipts[i] : receipts[i][j] = "error"

-----------------------------------------------------------------------------
(* reducedEvidenceState(), and the state that all the receipts share.          *)
receiptClosedEvidenceState ==
  [out_of_bounds |-> "invalid_line", quote_mismatch |-> "quote_mismatch", stale |-> "outside_scope", unavailable |-> "unverified", verified |-> "verified"]
reducedEvidenceState(receipts) ==
  LET states == {receiptClosedEvidenceState[receipts[j]] : j \in DOMAIN receipts}
  IN CASE states = {"verified"} -> "verified"
       [] states # {"verified"} /\ "verified" \in states -> "partially_verified"
       [] OTHER -> IF Cardinality(states) = 1 THEN CHOOSE s \in states : TRUE ELSE "unverified"

(* EvidencePolicy: at least high, critical and blocker findings are verified.  *)
Requires(severity) == Rank(severity) >= Rank("high")
ReduceVerifiedFindingEvidence(d, receipts) ==
  [i \in DOMAIN receipts |-> [finding |-> Groups(d)[i].finding, severity |-> Groups(d)[i].severity, state |-> reducedEvidenceState(receipts[i])]]
PolicyRejects(reduced) == \E i \in DOMAIN reduced : Requires(reduced[i].severity) /\ reduced[i].state # "verified"

(* NewEvidenceValidatedRoleOutput(): with their evidence states the findings    *)
(* still are in order and told apart; the state comes before the description. *)
States == <<"invalid_line", "outside_scope", "partially_verified", "quote_mismatch", "unverified", "verified">>
RoleOutputKey(n, state) ==
  LET key == FindingKey(n)
  IN SubSeq(key, 1, Len(key) - 2) \o <<CHOOSE i \in DOMAIN States : States[i] = state>> \o SubSeq(key, Len(key) - 1, Len(key))
NewEvidenceValidatedRoleOutput(d, reduced) ==
  \A i, j \in DOMAIN reduced : i < j => Before(RoleOutputKey(Groups(d)[i], reduced[i].state), RoleOutputKey(Groups(d)[j], reduced[j].state))

(* exactEvidenceRepairPaths(): the places of the quotes that do not match,      *)
(* when nothing else is wrong.                                                *)
exactEvidenceRepairPaths(receipts) ==
  IF \E i \in DOMAIN receipts : \E j \in DOMAIN receipts[i] : receipts[i][j] \notin {"verified", "quote_mismatch"} THEN {}
  ELSE UNION {{At(i, j, "quote") : j \in {k \in DOMAIN receipts[i] : receipts[i][k] = "quote_mismatch"}} : i \in DOMAIN receipts}

(* accept() and acceptExtraction() of the runtime.                             *)
Outcome(condition, paths, reduced) == [condition |-> condition, plan |-> "exact", paths |-> paths, reduced |-> reduced]
accept(d, world, purpose) ==
  LET receipts == Receipts(d, world)
      paths == exactEvidenceRepairPaths(receipts)
      reduced == ReduceVerifiedFindingEvidence(d, receipts)
  IN CASE VerificationFails(receipts) -> Outcome("failed", {}, <<>>)
       [] ~VerificationFails(receipts) /\ paths # {} ->
            IF purpose = "initial" /\ Cardinality(paths) <= maxRepairOperations
            THEN Outcome("invalid_evidence_claim", paths, <<>>) ELSE Outcome("unrepairable_evidence", {}, <<>>)
       [] OTHER ->
     CASE PolicyRejects(reduced) -> Outcome("unrepairable_evidence", {}, <<>>)
       [] ~PolicyRejects(reduced) /\ ~NewEvidenceValidatedRoleOutput(d, reduced) -> Outcome("refused_output", {}, <<>>)
       [] OTHER -> Outcome("accepted", {}, reduced)
acceptExtraction(d, world) ==
  LET receipts == Receipts(d, world)
      reduced == ReduceVerifiedFindingEvidence(d, receipts)
  IN CASE VerificationFails(receipts) -> Outcome("failed", {}, <<>>)
       [] ~VerificationFails(receipts) /\ \E i \in DOMAIN reduced : reduced[i].state # "verified" -> Outcome("unrepairable_evidence", {}, <<>>)
       [] OTHER -> Outcome("accepted", {}, reduced)

=============================================================================
