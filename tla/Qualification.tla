---------------------------- MODULE Qualification ----------------------------
(***************************************************************************)
(* The qualification of a run's providers (app/reviewrun/qualifier.go,      *)
(* current_qualifier.go and providercli/qualifier.go): candidates that       *)
(* share a runtime profile form a group; every candidate gets a registry    *)
(* with a namespace of its own; one of them is probed, on a fixture that is *)
(* drained again, and the others derive their routes from that proof.  What  *)
(* is left is delivered as a run, or drained, or kept by the error.          *)
(*                                                                         *)
(* A provider may fail in any way at any time, the caller may cancel, and    *)
(* upsets counts both and every failure of the machine.                      *)
(***************************************************************************)
EXTENDS Naturals, Sequences, FiniteSets

CONSTANTS MaxUpsets

VARIABLES
  second,     \* the family beside codex, and whether its application is too old
  ctx,        \* the caller's context is alive
  group,      \* index of the group being admitted
  cand,       \* index of the candidate in it
  pc,
  ns,         \* per instance: none, held, drained, or hollow (a registry that kept none)
  admission,  \* familyGroupAdmission: admitted, instances, closedReceipt, routes, failures
  fixtures,   \* the fixtures of this QualifyCurrent: open, drained or lost
  probe,      \* attempts made, the failure they ended in, the version seen
  breached,   \* instances with a failed boundary check: a history
  cause,      \* what the error says, "none" while there is none
  owner,      \* what the caller received: a run, a retained owner, a receipt, nothing yet
  drained,    \* instances closed by the run or by the retained owner
  tries,      \* bounded cleanup attempts
  upsets

vars == <<second, ctx, group, cand, pc, ns, admission, fixtures, probe, breached, cause, owner, drained, tries, upsets>>

(* groupCandidatesByFamilyRuntimeProfile(): the two codex roles share one   *)
(* credential home and one group; agy and zcode instances never share.  The *)
(* groups, like the instances of a composite, are sorted by name.           *)
Order == IF second = "agy" THEN <<"agy", "codex">> ELSE <<"codex", "zcode">>
Members(f) == IF f = "codex" THEN <<"codex-logic", "codex-security">> ELSE IF f = "agy" THEN <<"agy-tests">> ELSE <<"zcode-tests">>
Sorted == Members(Order[1]) \o Members(Order[2])
Instances == {"codex-logic", "codex-security", "agy-tests", "zcode-tests"}
Candidates == {Sorted[n] : n \in 1 .. Len(Sorted)}

Position(i) == CHOOSE n \in 1 .. Len(Sorted) : Sorted[n] = i

Family == Order[group]
Group == {Members(Family)[n] : n \in 1 .. Len(Members(Family))}
Candidate == Members(Family)[cand]

NoAdmission == [admitted |-> {}, instances |-> {}, closed |-> {}, routes |-> {}, failures |-> {}]
NoProbe == [attempts |-> 0, failure |-> "none", version |-> "none", masked |-> FALSE]

Upset == upsets < MaxUpsets /\ upsets' = upsets + 1
Fine == UNCHANGED upsets
Kept == admission.admitted \cap Group
Probing == <<fixtures, probe, breached>>
Delivery == <<owner, drained, tries>>

-----------------------------------------------------------------------------
(* Closing a registry: under a dead context it is refused, a registry that  *)
(* never got its namespace cannot be closed, and any close may fail.        *)
closeQualifiedRunRegistry(closing, stuck) ==
  /\ stuck \subseteq closing /\ {i \in closing : ns[i] = "hollow"} \subseteq stuck
  /\ IF ctx THEN (stuck = {i \in closing : ns[i] = "hollow"} /\ Fine) \/ Upset
            ELSE stuck = closing /\ Fine

(* release(), releaseAll(): what cannot be closed stays admitted, and the    *)
(* failure is not reported.                                                  *)
release(closing, after) ==
  \E stuck \in SUBSET closing :
    LET gone == closing \ stuck
    IN /\ closeQualifiedRunRegistry(closing, stuck)
       /\ ns' = [i \in Instances |-> IF i \in gone THEN "drained" ELSE ns[i]]
       /\ admission' = [after EXCEPT !.admitted = @ \ gone, !.closed = @ \cup gone]

(* admitFamilyQualificationGroup(), before the probe.                        *)
AdmitGroup ==
  /\ pc = "group"
  /\ IF group > Len(Order) THEN pc' = "assemble" /\ UNCHANGED <<group, cand, admission>>
     ELSE IF Family = "zcode" /\ second = "zcode_old"  \* red or unknown application version
     THEN admission' = [admission EXCEPT !.failures = @ \cup Group] /\ group' = group + 1 /\ UNCHANGED <<pc, cand>>
     ELSE pc' = "construct" /\ cand' = 1 /\ UNCHANGED <<group, admission>>
  /\ Fine /\ UNCHANGED <<second, ctx, ns, Probing, cause, Delivery>>

Constructed(i, state) ==
  /\ ns' = [ns EXCEPT ![i] = state]
  /\ admission' = [admission EXCEPT !.admitted = @ \cup {i}, !.instances = @ \cup {i}]

(* One registry: opened; unavailable, which skips the candidate; failed with *)
(* a registry the error retained; or without the namespace it should hold.  *)
NewProviderQualificationRegistry ==
  /\ pc = "construct" /\ cand <= Len(Members(Family))
  /\ \/ ctx /\ Fine /\ Constructed(Candidate, "held") /\ cand' = cand + 1 /\ UNCHANGED <<pc, cause>>
     \/ /\ ctx /\ Upset /\ cand' = cand + 1 /\ UNCHANGED <<pc, ns, cause>>
        /\ admission' = [admission EXCEPT !.failures = @ \cup {Candidate}]
     \/ /\ ctx /\ Upset /\ pc' = "release" /\ cause' = "construction" /\ UNCHANGED cand
        /\ \E state \in {"held", "hollow"} : Constructed(Candidate, state)
     \/ ~ctx /\ Fine /\ pc' = "release" /\ cause' = "construction" /\ UNCHANGED <<ns, admission, cand>>
  /\ UNCHANGED <<second, ctx, group, Probing, Delivery>>

(* The group has its registries: one of those still admitted is probed.     *)
BeginQualification ==
  /\ pc = "construct" /\ cand > Len(Members(Family))
  /\ IF Kept = {} THEN pc' = "group" /\ group' = group + 1 /\ UNCHANGED <<fixtures, probe>>
                  ELSE pc' = "acquire" /\ fixtures' = <<>> /\ probe' = [NoProbe EXCEPT !.masked = probe.masked] /\ UNCHANGED group
  /\ Fine /\ UNCHANGED <<second, ctx, cand, ns, admission, breached, cause, Delivery>>

-----------------------------------------------------------------------------
(* QualifyCurrent()                                                          *)

(* The outcome of the attempt so far, with the failure a later one hides.    *)
Ends(failure, next) == probe' = [probe EXCEPT !.failure = failure] /\ pc' = next

(* acquire(): a fixture, or an error, or an error with a fixture that must   *)
(* be drained all the same.  A retry without one keeps the first failure.    *)
AcquireFixture ==
  /\ pc = "acquire"
  /\ \/ /\ ctx /\ Fine /\ fixtures' = Append(fixtures, "open")
        /\ probe' = [probe EXCEPT !.attempts = @ + 1, !.failure = "none", !.version = "none"] /\ pc' = "version"
     \/ /\ IF ctx THEN Upset ELSE Fine
        /\ \E got \in {<<>>, <<"open">>} : fixtures' = fixtures \o got
        /\ IF probe.attempts = 0 THEN Ends("plain", "drain") ELSE pc' = "drain" /\ UNCHANGED probe
  /\ UNCHANGED <<second, ctx, group, cand, ns, admission, breached, cause, Delivery>>

(* nativeProviderOutcome() and the typed causes of a run that failed.        *)
Causes == {"timed_out", "rate_limited", "quota_exceeded", "login_required", "authentication_failed",
           "provider_turn_failed", "process_group_cleanup_failed", "none"}
Markers == {"login", "authentication", "unavailable", "none"}

(* classifyProbeFailure(): the typed cause first, then what the provider     *)
(* wrote.  A typed login_required is an authentication failure; only the     *)
(* provider's own words ask for a login.                                     *)
classifyProbeFailure(why, marker) ==
  CASE ~ctx -> "cancelled"
    [] ctx /\ why = "timed_out" -> "timeout"
    [] ctx /\ why = "rate_limited" -> "rate_limit"
    [] ctx /\ why = "quota_exceeded" -> "quota"
    [] ctx /\ why \in {"login_required", "authentication_failed"} -> "authentication"
    [] ctx /\ why = "provider_turn_failed" -> "provider_unavailable"
    [] ctx /\ why \in {"process_group_cleanup_failed", "none"} ->
         CASE marker = "login" -> "login"
           [] marker = "authentication" -> "authentication"
           [] marker = "unavailable" -> "provider_unavailable"
           [] OTHER -> IF why = "none" THEN "invalid_output" ELSE "transient_output"

(* retryableOperationalProbeFailure(); currentQualificationUnavailable().   *)
Retryable == {"timeout", "quota", "rate_limit", "provider_unavailable", "transient_output"}
Unavailable == Retryable \cup {"authentication", "invalid_output"}

Breach(next) ==
  /\ Upset /\ Ends("security", next) /\ breached' = breached \cup Kept

(* runBound() around the launch: namespace, fixture guard, request and spawn *)
(* are checked before it, the fixture after it.                              *)
LaunchFails(next) ==
  \E why \in Causes, marker \in Markers :
    (IF ctx THEN Upset ELSE Fine) /\ Ends(classifyProbeFailure(why, marker), next) /\ UNCHANGED breached

(* The version command, and what plainSemver() makes of its output.          *)
ProbeVersion ==
  /\ pc = "version"
  /\ \/ ctx /\ Fine /\ (\E seen \in {"green", "red"} : probe' = [probe EXCEPT !.version = seen]) /\ pc' = "capability" /\ UNCHANGED breached
     \/ Breach("observe")
     \/ LaunchFails("observe")
  /\ UNCHANGED <<second, ctx, group, cand, ns, admission, fixtures, cause, Delivery>>

(* The capability conversation: its transport receipt, its evidence bound to *)
(* the fixture, and the execution proof.  A mismatch of the receipts is a     *)
(* breach, one of the evidence an invalid output.                            *)
ProbeCapability ==
  /\ pc = "capability"
  /\ \/ ctx /\ Fine /\ Ends("ok", "observe") /\ UNCHANGED breached
     \/ Breach("observe")
     \/ LaunchFails(IF Family = "agy" THEN "profile" ELSE "observe")
  /\ UNCHANGED <<second, ctx, group, cand, ns, admission, fixtures, cause, Delivery>>

(* finishAgyInvocation(): a broken profile is joined after what the run had   *)
(* already ended in, and errors.As() meets that one first.                    *)
FinishAgyInvocation ==
  /\ pc = "profile" /\ pc' = "observe"
  /\ \/ Fine /\ UNCHANGED <<probe, breached>>
     \/ /\ Upset /\ breached' = breached \cup Kept
        /\ probe' = [probe EXCEPT !.failure = IF @ = "cancelled" THEN "security" ELSE @, !.masked = @ \/ probe.failure # "cancelled"]
  /\ UNCHANGED <<second, ctx, group, cand, ns, admission, fixtures, cause, Delivery>>

(* The diagnostics of the probe are written even when the context is dead;  *)
(* a failure to write them is joined before the other, except for a login.   *)
(* Then the one retry, with a fresh fixture.                                 *)
ObserveQualificationProbe ==
  /\ pc = "observe"
  /\ \E written \in BOOLEAN :
       LET failure == IF written \/ probe.failure = "login" THEN probe.failure ELSE "artifact"
       IN /\ IF written THEN Fine ELSE Upset
          /\ Ends(failure, IF ctx /\ failure \in Retryable /\ probe.attempts = 1 THEN "acquire" ELSE "drain")
  /\ UNCHANGED <<second, ctx, group, cand, ns, admission, fixtures, breached, cause, Delivery>>

(* drainProbeFixtures(): every fixture twice, under a context of its own.   *)
(* What stays undrained is an internal failure and costs a success.           *)
drainProbeFixtures ==
  /\ pc = "drain"
  /\ \E lost \in SUBSET {n \in 1 .. Len(fixtures) : fixtures[n] = "open"} :
       /\ fixtures' = [n \in 1 .. Len(fixtures) |-> IF n \in lost THEN "lost" ELSE "drained"]
       /\ IF lost = {} THEN Fine /\ UNCHANGED probe
          ELSE Upset /\ probe' = [probe EXCEPT !.failure = IF @ = "login" THEN @ ELSE "internal"]
  /\ pc' = "admit"
  /\ UNCHANGED <<second, ctx, group, cand, ns, admission, breached, cause, Delivery>>

(* admitFamilyQualificationGroup(), after the probe: a login or a boundary    *)
(* failure leaves the namespaces to the final drain, an unavailable provider *)
(* releases its group and is skipped.                                        *)
Admit ==
  /\ pc = "admit"
  /\ \/ /\ probe.failure = "ok" /\ pc' = "route" /\ cand' = 1 /\ Fine /\ UNCHANGED <<ns, admission, cause, group>>
     \/ /\ probe.failure \in Unavailable /\ pc' = "group" /\ group' = group + 1 /\ UNCHANGED <<cause, cand>>
        /\ release(Kept, [admission EXCEPT !.failures = @ \cup Kept])
     \/ /\ probe.failure \notin Unavailable \cup {"ok"} /\ pc' = "close" /\ cause' = probe.failure
        /\ Fine /\ UNCHANGED <<ns, admission, cand, group>>
  /\ UNCHANGED <<second, ctx, Probing, Delivery>>

(* The candidate probed for its group: the one of the base role, which       *)
(* comes first, or the first that kept its registry.                         *)
selectFamilyRepresentative == CHOOSE i \in Kept : \A j \in Kept : Position(i) <= Position(j)

(* DeriveEquivalentFamilyRoute(): the proof of another namespace carries over *)
(* to an equivalent definition, or not.  ValidateQualification(),             *)
(* qualifiedSupportedRoles(), admittedEvidenceFromQualification(): receipts   *)
(* that do not fit the candidate.                                             *)
NotDerived == Candidate # selectFamilyRepresentative /\ Upset
QualificationInvalid == probe.version = "green" /\ Upset

(* One candidate: the representative's own proof, or one derived from it;    *)
(* a red version drops it, an invalid qualification ends the run.            *)
AdmitRoute ==
  /\ pc = "route" /\ cand <= Len(Members(Family))
  /\ \/ Candidate \notin admission.admitted /\ cand' = cand + 1 /\ Fine /\ UNCHANGED <<pc, ns, admission, cause>>
     \/ /\ Candidate \in admission.admitted /\ probe.version = "red" /\ cand' = cand + 1 /\ UNCHANGED <<pc, cause>>
        /\ release({Candidate}, [admission EXCEPT !.failures = @ \cup {Candidate}])
     \/ /\ Candidate \in admission.admitted /\ probe.version = "green" /\ Fine
        /\ admission' = [admission EXCEPT !.routes = @ \cup {Candidate}]
        /\ cand' = cand + 1 /\ UNCHANGED <<pc, ns, cause>>
     \/ /\ Candidate \in admission.admitted /\ (NotDerived \/ QualificationInvalid)
        /\ pc' = "release" /\ cause' = "invalid" /\ UNCHANGED <<ns, admission, cand>>
  /\ UNCHANGED <<second, ctx, group, Probing, Delivery>>

NextGroup ==
  /\ pc = "route" /\ cand > Len(Members(Family)) /\ pc' = "group" /\ group' = group + 1
  /\ Fine /\ UNCHANGED <<second, ctx, cand, ns, admission, Probing, cause, Delivery>>

(* releaseAll() before an error of the group is returned.                    *)
ReleaseAll ==
  /\ pc = "release" /\ pc' = "close" /\ release(Kept, admission)
  /\ UNCHANGED <<second, ctx, group, cand, Probing, cause, Delivery>>

-----------------------------------------------------------------------------
(* newQualifiedRunAttempt(), qualifyCandidates()                              *)

Assemble ==
  /\ pc = "assemble"
  /\ IF admission.routes = {} THEN pc' = "close" /\ cause' = "readiness" /\ Fine /\ UNCHANGED owner
     ELSE \/ pc' = "running" /\ owner' = "run" /\ Fine /\ UNCHANGED cause
          \/ pc' = "undo" /\ cause' = "planner" /\ Upset /\ UNCHANGED owner  \* newQualifiedPlanner()
  /\ UNCHANGED <<second, ctx, group, cand, ns, admission, Probing, drained, tries>>

(* qualifiedRunRegistryComposite.Close(): in order of the names, up to the   *)
(* first that fails; those closed before are not closed again.              *)
CompositeClose(instances, alive, done) ==
  LET open == {i \in instances : ns[i] # "drained"}
      closable(i) == alive /\ ns[i] = "held"
      gone(stop) == {i \in open : Position(i) < stop}
  IN \E stop \in {Position(i) : i \in open} \cup {Len(Sorted) + 1} :
       /\ \A i \in gone(stop) : closable(i)
       /\ IF stop > Len(Sorted) \/ ~closable(Sorted[stop]) THEN Fine ELSE Upset
       /\ ns' = [i \in Instances |-> IF i \in gone(stop) THEN "drained" ELSE ns[i]]
       /\ done = (stop > Len(Sorted))

(* closeAdmitted(): nothing admitted is an empty receipt; otherwise two       *)
(* attempts, and then the error keeps the composite.                         *)
CloseAdmitted ==
  /\ pc = "close"
  /\ \/ admission.admitted = {} /\ owner' = "receipt" /\ pc' = "ended" /\ Fine /\ UNCHANGED <<ns, tries>>
     \/ /\ admission.admitted # {}
        /\ \E done \in BOOLEAN :
             /\ CompositeClose(admission.instances, ctx, done)
             /\ tries' = tries + 1
             /\ owner' = IF done THEN "receipt" ELSE IF tries = 1 THEN "retained" ELSE owner
             /\ pc' = IF done THEN "ended" ELSE IF tries = 1 THEN "owned" ELSE "close"
  /\ UNCHANGED <<second, ctx, group, cand, admission, Probing, cause, drained>>

(* DrainTerminal(): the namespaces closed must be those with evidence.       *)
Evidenced == Cardinality(admission.admitted) = Cardinality(admission.routes)

(* After a planner that cannot be built: two drains, then the run is kept.   *)
UndoRun ==
  /\ pc = "undo"
  /\ \E done \in BOOLEAN :
       /\ CompositeClose(admission.admitted, ctx, done)
       /\ tries' = tries + 1
       /\ owner' = IF done /\ Evidenced THEN "receipt" ELSE IF tries = 1 THEN "run" ELSE owner
       /\ pc' = IF done /\ Evidenced THEN "ended" ELSE IF tries = 1 THEN "running" ELSE "undo"
  /\ UNCHANGED <<second, ctx, group, cand, admission, Probing, cause, drained>>

(* The service drains what it owns, under contexts of its own, until it has  *)
(* a receipt: of the run, or of the composite the error retained.            *)
DrainOwned ==
  /\ pc \in {"running", "owned"}
  /\ \E done \in BOOLEAN :
       /\ CompositeClose(IF pc = "owned" THEN admission.instances ELSE admission.admitted, TRUE, done)
       /\ drained' = {i \in Candidates : ns'[i] = "drained"}
       /\ IF done /\ (pc = "owned" \/ Evidenced) THEN owner' = "receipt" /\ pc' = "ended" ELSE UNCHANGED <<owner, pc>>
  /\ UNCHANGED <<second, ctx, group, cand, admission, Probing, cause, tries>>

(* The caller cancels.                                                       *)
Cancel ==
  /\ ctx /\ pc \notin {"ended", "running", "owned"} /\ Upset /\ ctx' = FALSE
  /\ UNCHANGED <<second, group, cand, pc, ns, admission, Probing, cause, Delivery>>

Rest == pc \in {"ended", "running", "owned"} /\ UNCHANGED vars

Init ==
  /\ second \in {"agy", "zcode", "zcode_old"}
  /\ ctx = TRUE /\ group = 1 /\ cand = 1 /\ pc = "group"
  /\ ns = [i \in Instances |-> "none"] /\ admission = NoAdmission
  /\ fixtures = <<>> /\ probe = NoProbe /\ breached = {} /\ cause = "none"
  /\ owner = "none" /\ drained = {} /\ tries = 0 /\ upsets = 0

Next ==
  \/ AdmitGroup \/ NewProviderQualificationRegistry \/ BeginQualification
  \/ AcquireFixture \/ ProbeVersion \/ ProbeCapability \/ FinishAgyInvocation
  \/ ObserveQualificationProbe \/ drainProbeFixtures
  \/ Admit \/ AdmitRoute \/ NextGroup \/ ReleaseAll
  \/ Assemble \/ CloseAdmitted \/ UndoRun \/ DrainOwned \/ Cancel \/ Rest

-----------------------------------------------------------------------------
TypeOK ==
  /\ second \in {"agy", "zcode", "zcode_old"} /\ ctx \in BOOLEAN /\ upsets \in 0 .. MaxUpsets
  /\ group \in 1 .. 3 /\ cand \in 1 .. 3 /\ tries \in 0 .. 2
  /\ pc \in {"group", "construct", "acquire", "version", "capability", "profile", "observe", "drain", "admit", "route",
             "release", "assemble", "close", "undo", "running", "owned", "ended"}
  /\ ns \in [Instances -> {"none", "held", "hollow", "drained"}]
  /\ admission.admitted \cup admission.instances \cup admission.closed \cup admission.routes \cup admission.failures \subseteq Candidates
  /\ Len(fixtures) <= 2 /\ probe.attempts \in 0 .. 2 /\ breached \subseteq Candidates /\ drained \subseteq Candidates
  /\ owner \in {"none", "run", "retained", "receipt"}

Handed == pc \in {"running", "owned", "ended"}

(* Every namespace still held when the call has returned belongs to the run   *)
(* or to the owner the error retains, and a receipt means none is held.      *)
HeldIsOwned ==
  Handed =>
    /\ \A i \in Candidates : ns[i] \in {"held", "hollow"} =>
         \/ owner = "run" /\ i \in admission.admitted
         \/ owner = "retained" /\ i \in admission.instances
    /\ owner # "none"

(* A route of a delivered run has a held namespace, or one the run has        *)
(* drained, and every candidate is either routed or reported as failed.       *)
RunAccountsForAll ==
  owner = "run" =>
    /\ \A i \in admission.routes : i \in admission.admitted /\ (ns[i] = "held" \/ i \in drained \/ pc = "undo" \/ cause = "planner")
    /\ admission.routes \cap admission.failures = {}
    /\ admission.routes \cup admission.failures = Candidates

(* A failed boundary check ends the qualification: no run is delivered, and  *)
(* no candidate is skipped as unavailable.  The exception is an AGY profile   *)
(* whose breach is joined after an operational failure.                       *)
BreachFailsClosed ==
  LET decisive == breached \ (IF probe.masked THEN {"agy-tests"} ELSE {})
  IN decisive # {} => owner # "run" /\ decisive \cap admission.failures = {}

(* A probe that succeeded has drained its fixtures, and a fixture that could  *)
(* not be drained is never part of a delivered run.                           *)
FixturesAreDrained ==
  pc \in {"route", "running"} \/ owner = "run" => \A n \in 1 .. Len(fixtures) : fixtures[n] = "drained"

QualificationIsOwned == HeldIsOwned /\ RunAccountsForAll /\ BreachFailsClosed /\ FixturesAreDrained

=============================================================================
