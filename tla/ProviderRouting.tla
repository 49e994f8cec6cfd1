--------------------------- MODULE ProviderRouting ---------------------------
(***************************************************************************)
(* From a configuration to the provider each role runs on: the validation of *)
(* the configuration (adapters/config/yaml.go), the policy and candidates    *)
(* derived from it (composition/review.go, production_candidates.go,         *)
(* authority.go), and the plan over the routes that were admitted            *)
(* (planner.go).  A provider instance is the family, the credential profile  *)
(* and the role its name is put together from.                               *)
(*                                                                         *)
(* A configuration c has the roles' [enabled, family, profile], the default  *)
(* credential profile of codex and its credential homes, the families that   *)
(* have a provider, whether repair and extraction are on, and the limits.    *)
(***************************************************************************)
EXTENDS Integers, FiniteSets

CONSTANTS
  Roles,         \* "logic" and "artist" among them
  Families,
  Extends(_, _)  \* Extends(p, q): the name q begins with the name p and a hyphen

Budget == INSTANCE RunBudget WITH MaxDuration <- 1000000

NoProfile == "none"
Instance(family, profile, role) == [family |-> family, profile |-> profile, role |-> role]

EnabledRoles(c) == {r \in Roles : c.roles[r].enabled}

(* productionRolesForFamily(): no artist for the families without images.     *)
Supports(family, role) == role = "artist" => family \notin {"grok", "cursor", "agy"}

-----------------------------------------------------------------------------
validateArtistRole(role) ==
  IF role.enabled THEN role.family \in {"zcode", "codex"} ELSE role.family = "none" /\ role.profile = NoProfile

(* The profiles some role or the default names.                               *)
Referenced(c) ==
  ({c.defaultProfile} \cup {c.roles[r].profile : r \in Roles}) \ {NoProfile}

RoleCost(c) == 1 + (IF c.repair \/ c.extraction THEN 1 ELSE 0)

(* The part of validate() that decides routes and budgets.                    *)
ConfigIsValid(c) ==
  /\ c.defaultProfile # NoProfile \/ c.homes # {} => c.defaultProfile \in c.homes
  /\ c.homes # {} => "codex" \in c.providers
  /\ validateArtistRole(c.roles["artist"])
  /\ \A r \in Roles : (r # "artist" \/ c.roles[r].enabled) =>
       /\ c.roles[r].family \in c.providers
       /\ c.roles[r].profile # NoProfile =>
            c.roles[r].family = "codex" /\ c.defaultProfile # NoProfile /\ c.roles[r].profile \in c.homes
  /\ c.defaultProfile # NoProfile => Cardinality(Referenced(c)) = Cardinality(c.homes)
  /\ c.roles["logic"].enabled
  /\ c.roleMax \in RoleCost(c) .. 2
  /\ c.runMax \in RoleCost(c) * Cardinality(EnabledRoles(c)) .. 14

(* ResolveConfiguration(): a codex role without a profile has the default.    *)
ResolvedProfile(c, r) ==
  IF c.roles[r].family = "codex" /\ c.roles[r].profile = NoProfile THEN c.defaultProfile ELSE c.roles[r].profile

(* deriveProductionRunPolicy(), NewRoleProviderAssignmentWithCredentialProfile(): *)
(* the instance a role is assigned.                                            *)
Assigned(c, r) == Instance(c.roles[r].family, ResolvedProfile(c, r), r)

-----------------------------------------------------------------------------
(* Mutant: only the profiles that roles name are carried to the candidates.   *)
configuredCodexCredentialProfilesNamed(c, r) == c.roles[r].profile

(* configuredCodexCredentialProfiles(): nothing without a default profile.    *)
configuredCodexCredentialProfiles(c, r) ==
  IF c.defaultProfile = NoProfile \/ c.roles[r].family # "codex" THEN NoProfile
  ELSE IF c.roles[r].profile = NoProfile THEN c.defaultProfile ELSE c.roles[r].profile

(* The templates: one instance for every family and every role it supports.   *)
TemplateInstance(c, family, role) ==
  Instance(family, IF family = "codex" THEN configuredCodexCredentialProfiles(c, role) ELSE NoProfile, role)

(* newQualifiedRunCandidatesForIdentity(): of the families discovered.        *)
Candidates(c, selected, found) ==
  {TemplateInstance(c, f, r) : f \in found, r \in selected} \cap {i \in [family : Families, profile : c.homes \cup {NoProfile}, role : Roles] : Supports(i.family, i.role)}

(* filterAssignedCandidates(): those whose family the role is configured for. *)
Filtered(c, selected, found) ==
  {i \in Candidates(c, selected, found) : c.roles[i.role].enabled /\ c.roles[i.role].family = i.family}

(* restrictCandidatesToSelectedAssignments(): exactly one candidate for every *)
(* selected role, and each of them assigned.                                  *)
OneCandidateEach(c, selected, candidates) ==
  /\ selected \subseteq EnabledRoles(c)
  /\ \A r \in selected : Cardinality({i \in candidates : i.family = c.roles[r].family /\ i.role = r}) = 1

(* configuredRoute(): the admitted routes of a role.                           *)
RoutesOf(c, r, routes) ==
  {i \in routes : /\ i.family = Assigned(c, r).family /\ i.role = r
                  /\ Assigned(c, r).profile # NoProfile => i = Assigned(c, r)}

(* The ceilings and lanes of the policy, and the timeouts of the routes.       *)
PlanBudget(c, selected) ==
  Budget!Preflight([r \in selected |-> c.timeout],
                   [Budget!DefaultHarnessCeilings EXCEPT !.perRole = c.roleMax, !.perRun = c.runMax], c.lanes)

(* A candidate of the cursor family needs a token.                             *)
requireAssignedCursorAuth(token, candidates) == (\E i \in candidates : i.family = "cursor") => token

(* PlanSelectedRoles() over the candidates that were admitted: how it ends.    *)
Planning(c, selected, found, token, admitted) ==
  LET candidates == Filtered(c, selected, found)
      routes == candidates \cap admitted
  IN CASE candidates = {} -> "no_assigned_candidate"
       [] candidates # {} /\ ~requireAssignedCursorAuth(token, candidates) -> "cursor_auth_token_required"
       [] OTHER ->
     CASE ~OneCandidateEach(c, selected, candidates) -> "unresolved_role"
       [] OneCandidateEach(c, selected, candidates) /\ routes = {} -> "no_qualified_routes"
       [] OTHER ->
     CASE \E r \in selected : Cardinality(RoutesOf(c, r, routes)) # 1 -> "not_qualified"
       [] (\A r \in selected : Cardinality(RoutesOf(c, r, routes)) = 1) /\ PlanBudget(c, selected) # "eligible" -> "budget"
       [] OTHER -> "planned"

-----------------------------------------------------------------------------
(* probeHeartbeat(), newHeartbeatCandidate(): the candidate a heartbeat of a   *)
(* family and a credential profile may probe.  All roles are selected; the     *)
(* first of the candidates whose name has the prefix is taken.                 *)
HeartbeatMatches(requested, i) ==
  requested # NoProfile => i.profile = requested \/ (i.profile # NoProfile /\ Extends(requested, i.profile))

HeartbeatRequestIsValid(c, family, requested) ==
  IF family = "codex" /\ c.defaultProfile # NoProfile THEN requested \in c.homes ELSE requested = NoProfile

HeartbeatCandidates(c, family, requested, found) ==
  {i \in Candidates(c, Roles, found) : i.family = family /\ (family = "codex" => HeartbeatMatches(requested, i))}

-----------------------------------------------------------------------------
(* A valid configuration whose limits are below what every plan is charged:   *)
(* validation charges one invocation to a role without repair and extraction, *)
(* the budget always two.  A test expects that limits below the budget are    *)
(* never accepted (yaml_test.go:583); see section 4 of README.md.              *)
LimitsBelowCharge(c, selected) == c.roleMax < 2 \/ c.runMax < 2 * Cardinality(selected)

(* A role is planned on the provider and the credentials its configuration     *)
(* names, and on no other: over every selection, every set of families that   *)
(* were discovered and every set of instances that qualified, the run is       *)
(* planned exactly when each selected role is enabled, its own instance        *)
(* qualified and the limits cover the charge of the plan.  A role whose        *)
(* instance did not qualify has no substitute (planner.go against              *)
(* production_candidates.go and review.go: three places put the name of an     *)
(* instance together).  Limits below the charge are refused here, after        *)
(* discovery and qualification, and only for that reason: the configuration    *)
(* that has them was accepted.  That is what the code does; the property does  *)
(* not say that it should.                                                     *)
RoutedAsConfigured(c) ==
  ConfigIsValid(c) =>
    \A selected \in SUBSET Roles \ {{}}, found \in SUBSET c.providers, token \in BOOLEAN :
      LET all == Candidates(c, selected, found)
      IN \A lost \in {{}} \cup {{i} : i \in all} :
           LET outcome == Planning(c, selected, found, token, all \ lost)
               ready == \A r \in selected :
                          /\ c.roles[r].enabled /\ c.roles[r].family \in found /\ Assigned(c, r) \notin lost
                          /\ c.roles[r].family = "cursor" => token
           IN /\ outcome = "planned" <=> ready /\ ~LimitsBelowCharge(c, selected)
              /\ outcome = "budget" <=> ready /\ LimitsBelowCharge(c, selected)

(* A heartbeat of a credential profile finds the candidates of that profile    *)
(* and no other, but for those whose name begins with its name and a hyphen:   *)
(* newHeartbeatCandidate() compares a prefix (review.go:703), and the first    *)
(* candidate is probed.  The contract (contracts.md:898) promises the profile  *)
(* that was asked for; see section 4 of README.md.  Without credential         *)
(* profiles every configured family has a candidate.                           *)
HeartbeatIsOfRequest(c) ==
  ConfigIsValid(c) =>
    \A family \in c.providers, requested \in c.homes \cup {NoProfile} :
      HeartbeatRequestIsValid(c, family, requested) =>
        LET probed == HeartbeatCandidates(c, family, requested, c.providers)
            used == {ResolvedProfile(c, r) : r \in {s \in Roles : c.roles[s].family = "codex"}}
        IN /\ \A i \in probed : i.family = family
           /\ requested = NoProfile => probed # {}
           /\ requested # NoProfile =>
                {i.profile : i \in probed} = used \cap ({requested} \cup {p \in c.homes : Extends(requested, p)})

-----------------------------------------------------------------------------
(***************************************************************************)
(* Discovery of a configured provider (app/reviewrun/qualification.go) and   *)
(* the startup check of what was discovered (production_candidates.go).      *)
(* An observation o says what was found at each path the family needs; a     *)
(* profile keeps what identifies the provider and why it is not usable.      *)
(***************************************************************************)

(* Outcomes of one observation.  "security" and "error" end the discovery;   *)
(* the others are a profile, complete or not.                                *)
FileStates == {"found", "missing", "failed", "refused", "security", "error"}
MetadataStates == {"green", "yellow", "red", "garbled", "failed", "unreadable", "malformed", "security", "error"}
Versions == {"green", "yellow", "red", "garbled"}

Parts == <<"executable", "launcher", "provider_config", "application_metadata">>

-----------------------------------------------------------------------------
(* DiscoverProviderProfileWithOverride().  The provider config is looked at   *)
(* only beside a launcher.                                                    *)
Looked(o) ==
  IF o.family = "direct" THEN <<o.executable>>
  ELSE <<o.executable, o.launcher, IF o.launcher = "found" THEN o.config ELSE "missing", o.metadata>>

(* The first observation that ends the discovery, 0 when none does.           *)
Ending(o) ==
  LET bad == {i \in DOMAIN Looked(o) : Looked(o)[i] \in {"security", "error"}}
  IN IF bad = {} THEN 0 ELSE CHOOSE i \in bad : \A j \in bad : i <= j

(* The reason a profile carries: the part that decided, and how.               *)
Why(part, how) == [part |-> part, how |-> how]
Unqualified == Why("none", "unqualified_discovery")

(* discoveredProviderProfile(): the reason the parts that are there leave.    *)
FoundReason(o) ==
  CASE o.executable # "found" -> Why("executable", "not_found")
    [] o.executable = "found" /\ o.family = "direct" -> Unqualified
    [] OTHER ->
  CASE o.launcher # "found" -> Why("launcher", "not_found")
    [] o.launcher = "found" /\ o.config # "found" -> Why("provider_config", "not_found")
    [] OTHER -> Unqualified

(* The reason of the switch at the end of the discovery: the cases are taken  *)
(* in order, and the last two say nothing about the parts that are missing.   *)
Reason(o) ==
  LET exe == o.executable = "found"
      launcher == o.launcher = "found"
      config == launcher /\ o.config = "found"
  IN CASE o.executable \in {"failed", "refused"} -> Why("executable", o.executable)
       [] o.executable \in {"found", "missing"} /\ o.family = "direct" -> FoundReason(o)
       [] OTHER ->
     CASE exe /\ o.launcher \in {"failed", "refused"} -> Why("launcher", o.launcher)
       [] exe /\ launcher /\ o.config \in {"failed", "refused"} -> Why("provider_config", o.config)
       [] exe /\ config /\ o.metadata \in {"failed", "unreadable"} -> Why("application_metadata", o.metadata)
       [] exe /\ config /\ o.metadata = "malformed" -> Why("application_version", "garbled")
       [] OTHER ->
     CASE o.metadata \in {"garbled", "red"} -> Why("application_version", o.metadata)
       [] OTHER -> FoundReason(o)

Profile(o) ==
  LET zcode == o.family = "zcode"
      exe == o.executable = "found"
      launcher == IF zcode THEN o.launcher = "found" ELSE exe
      config == zcode /\ exe /\ launcher /\ o.config = "found"
  IN [family |-> o.family, executable |-> exe, launcher |-> launcher, config |-> config,
      argv |-> (IF exe THEN 1 ELSE 0) + (IF config THEN 1 ELSE 0),
      version |-> IF zcode /\ o.metadata \in Versions THEN o.metadata ELSE "none", reason |-> Reason(o)]

(* DiscoverConfiguredProviderProfiles(): a refused observation leaves a       *)
(* profile with nothing but its reason and fails the whole discovery after    *)
(* the other families were looked at; any other error ends it there.          *)
Discover(o) ==
  LET at == Ending(o)
      part == Parts[at]
  IN CASE at = 0 -> [profile |-> {Profile(o)}, err |-> "none"]
       [] at # 0 /\ Looked(o)[at] = "error" -> [profile |-> {}, err |-> part]
       [] OTHER -> [profile |-> {[family |-> o.family, reason |-> Why(part, "security")]}, err |-> "security"]

-----------------------------------------------------------------------------
profileMissingOperationalIdentity(p) ==
  ~p.executable \/ ~p.launcher \/ (p.family = "zcode" /\ (~p.config \/ p.version = "none"))

validPartialZCodeIdentity(p) ==
  /\ p.config => p.launcher
  /\ p.version # "none" => p.version # "garbled"

Unavailable(part) == {Why(part, how) : how \in {"not_found", "refused", "failed"}}

(* validateStartupProfiles(): one refused profile refuses them all.           *)
validateStartupProfile(p) ==
  IF profileMissingOperationalIdentity(p)
  THEN /\ p.family = "zcode" => validPartialZCodeIdentity(p)
       /\ ~p.executable =>
            /\ p.reason \in Unavailable("executable") /\ p.argv = 0
            /\ p.family # "zcode" => ~p.launcher /\ ~p.config /\ p.version = "none"
       /\ p.executable /\ ~p.launcher => p.reason \in Unavailable("launcher") /\ p.argv = 1
       /\ p.executable /\ p.launcher /\ ~p.config => p.reason \in Unavailable("provider_config") /\ p.argv = 1
       /\ p.executable /\ p.launcher /\ p.config =>
            p.reason \in {Why("application_metadata", "unreadable"), Why("application_metadata", "failed"),
                          Why("application_version", "garbled")}
  ELSE /\ p.reason = Unqualified \/ (p.reason = Why("application_version", p.version) /\ p.version \in {"red", "garbled"})
       /\ p.family = "zcode" <=> p.config
       /\ p.argv = IF p.family = "zcode" THEN 2 ELSE 1

(* WithQualifiedVersion(), for the version the provider itself reported.       *)
WithQualifiedVersion(p, version) ==
  CASE ~p.executable \/ ~p.launcher \/ (p.family = "zcode" /\ ~p.config) -> "unqualified_discovery"
    [] OTHER ->
  CASE version = "garbled" -> "unparseable_version"
    [] version = "red" -> "ineligible_version"
    [] OTHER ->
  CASE p.family = "zcode" /\ p.version \in {"none", "garbled"} -> "application_version_unavailable"
    [] p.family = "zcode" /\ p.version = "red" -> "application_version_ineligible"
    [] OTHER -> "version_eligible"

-----------------------------------------------------------------------------
(* A version of the application bundle that is too old or no version at all    *)
(* is reported although a part of the provider is missing.                     *)
VersionHidesMissingPart(o, p) ==
  /\ o.family = "zcode" /\ profileMissingOperationalIdentity(p)
  /\ o.metadata = "garbled" \/ p.reason = Why("application_version", "red")

(* Of the profiles discovery delivers without an error, complete or not, the  *)
(* startup check refuses exactly those whose version hides a missing part     *)
(* (qualification.go against production_candidates.go: two hand-written lists *)
(* of reasons), and one that becomes eligible is complete and of an admitted  *)
(* version.  A refused profile costs the run the other families too, although *)
(* a test expects them to be kept when one is unavailable                     *)
(* (qualification_test.go:473); see section 4 of README.md.                    *)
DiscoveredIsAdmitted(o) ==
  LET d == Discover(o)
  IN d.err = "none" => \A p \in d.profile :
       /\ validateStartupProfile(p) <=> ~VersionHidesMissingPart(o, p)
       /\ \A v \in Versions : WithQualifiedVersion(p, v) = "version_eligible" =>
            /\ ~profileMissingOperationalIdentity(p) /\ v \in {"green", "yellow"}
            /\ p.family = "zcode" => p.version \in {"green", "yellow"}

=============================================================================
