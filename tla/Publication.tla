---------------------------- MODULE Publication ----------------------------
(***************************************************************************)
(* How a finished review becomes a published one.  publication.Service      *)
(* (src/internal/app/publication/service.go) orders the writes, the store   *)
(* (src/internal/adapters/filesystem/publicationstore_darwin.go) performs   *)
(* them and classifies what a later process finds on disk, and Recover      *)
(* drives an interrupted publication on from there.                         *)
(*                                                                         *)
(* A run owns a validated candidate, a final review that is staged and then *)
(* renamed into place, a composite of three members (manifest, lineage      *)
(* edge, epoch) that are prepared and then renamed into place in that order, *)
(* a journal and a status document.  The four installed files are P2, the   *)
(* publication authority; the journal is only a hint.  Epoch numbers are    *)
(* shared by all runs of a store.                                           *)
(*                                                                         *)
(* `store' is what processes see, `stable' what survives a power loss: a     *)
(* write is visible at once and survives when its directory was synced.  A  *)
(* rename is one metadata transaction.  File contents are determined by the *)
(* run, except for the epoch number; support artifacts are left out, no      *)
(* classification reads them.                                               *)
(***************************************************************************)
EXTENDS Naturals, FiniteSets, FiniteSetsExt

CONSTANTS
    Runs,         \* runs that share one publication store
    Composites,   \* those whose candidate is a composite (it can be resumed)
    Callers,      \* concurrent callers of the service
    NoCaller,     \* nobody holds the store's transaction lock
    ActionLimit,  \* publicationRecoveryActionLimit
    MaxFaults,    \* bound: errors, failed syncs and killed callers
    MaxLosses     \* bound: power losses

ASSUME PublicationAssumption ==
    /\ IsFiniteSet(Runs) /\ Composites \subseteq Runs
    /\ NoCaller \notin Callers
    /\ ActionLimit \in Nat
    /\ MaxFaults \in Nat
    /\ MaxLosses \in Nat

VARIABLES
    store,     \* run -> its visible files
    stable,    \* run -> its files as a power loss would leave them
    bound,     \* run -> the epoch number its prepared composite is bound to
    holder,    \* caller inside WithNextPublicationEpoch
    call,      \* caller -> its control state
    diag,      \* runs with an immutable corruption diagnostic
    reported,  \* runs a caller was told are published (P2)
    faults, losses

vars == <<store, stable, bound, holder, call, diag, reported, faults, losses>>

----------------------------------------------------------------------------
(* Files.                                                                   *)

\* In the order CommitPreparedComposite installs them.
Order == <<"manifest", "lineage", "epoch">>

Members == {"manifest", "lineage", "epoch"}

Prefix(k) == {Order[i] : i \in 1..k}

JournalStates ==
    {"content_validated", "final_staged", "final_file_installed",
     "manifest_committed", "completed"}

RunFiles ==
    [cand : BOOLEAN, fin : {"none", "staged", "installed", "both"},
     manifest : {"none", "prepared", "installed"},
     lineage : {"none", "prepared", "installed"},
     epoch : {"none", "prepared", "installed"},
     journal : JournalStates \cup {"absent"}, status : BOOLEAN]

NoFiles ==
    [cand |-> FALSE, fin |-> "none", manifest |-> "none", lineage |-> "none",
     epoch |-> "none", journal |-> "absent", status |-> FALSE]

Fields == DOMAIN NoFiles

\* The entries a sync of a directory makes durable.
RunDir == {"fin", "manifest", "status"}
StagedDir == {"fin", "manifest", "lineage", "epoch"}
JournalDir == {"journal"}
CandidateDir == {"cand"}

Installed(s) == {m \in Members : s[m] = "installed"}

Prepared(s) == {m \in Members : s[m] = "prepared"}

\* Record d with the entries F taken from s.
Synced(d, s, F) == [f \in Fields |-> IF f \in F THEN s[f] ELSE d[f]]

\* A write of run r: s is visible, its entries F are durable.
Write(r, s, F) ==
    /\ store' = [store EXCEPT ![r] = s]
    /\ stable' = [stable EXCEPT ![r] = Synced(stable[r], s, F)]

NoWrite == UNCHANGED <<store, stable>>

----------------------------------------------------------------------------
(* What the store observes (observeLocked).                                 *)

\* Mutant: a file found at the epoch's path is taken for one's own.
EpochTakenIgnored(r) == r \notin Runs

\* Another run committed the epoch number this run's composite is bound to.
EpochTaken(r) ==
    \E q \in Runs \ {r} : store[q].epoch = "installed" /\ bound[q] = bound[r]

\* Destinations that exist on disk, the epoch of another run included.
Present(r) == Installed(store[r]) \cup (IF EpochTaken(r) THEN {"epoch"} ELSE {})

\* discoverImmutableP2 up to the durability adoption.
Discovery(r) ==
    CASE store[r].manifest # "installed" -> "absent"
      [] store[r].manifest = "installed" /\ store[r].fin # "installed" -> "unsafe"
      [] OTHER -> IF Present(r) # Members THEN "absent"
                  ELSE IF Prepared(store[r]) # {} \/ EpochTaken(r) THEN "unsafe"
                  ELSE "complete"

\* observeWithoutJournal, and the status check of readPublicationJournal.
WithoutJournal(r) ==
    IF \/ store[r].status
       \/ store[r].fin # "none"
       \/ store[r].manifest = "installed"
       \/ Prepared(store[r]) # {}
    THEN "AMBIGUOUS" ELSE "P0_NONE"

\* readPreparedComposite: every member that is not installed is still prepared.
PreparedComposite(s) == Installed(s) \cup Prepared(s) = Members

\* recoverCompositeMaterial and recoveryMaterial: the candidate and the composite.
HasMaterial(r) ==
    /\ store[r].cand
    /\ Installed(store[r]) = Present(r)
    /\ PreparedComposite(store[r])

\* PublicationObservation.validate: a class that can be recovered has the
\* material to do so.
Backed(r, class) == IF HasMaterial(r) THEN class ELSE "AMBIGUOUS"

\* Mutant: a composite that stopped after the lineage edge is refused.
PartialFirstOnly(ms) == ms = Prefix(1)

\* A commit that stopped midway: the manifest, or the manifest and the edge.
PartialComposite(ms) == ms \in {Prefix(1), Prefix(2)}

\* observeWithJournal when no member is installed: the final review decides.
ByFinal(r) ==
    CASE store[r].fin = "installed" -> Backed(r, "P1")
      [] store[r].fin = "staged" -> Backed(r, "P0_STAGED")
      [] OTHER -> IF store[r].journal \in {"content_validated", "final_staged"}
                  THEN Backed(r, "P0_NONE") ELSE "AMBIGUOUS"

\* observeWithJournal, which makes the second adoption attempt.
WithJournal(r, adoption) ==
    LET fin == store[r].fin
    IN  CASE fin = "both" -> "AMBIGUOUS"
          [] fin # "both" /\ Present(r) = Members ->
                IF fin # "installed" \/ EpochTaken(r) THEN "AMBIGUOUS"
                ELSE IF adoption = "second" THEN "P2" ELSE Backed(r, "P1")
          [] fin # "both" /\ Present(r) \notin {{}, Members} ->
                IF fin = "installed" /\ PartialComposite(Present(r))
                THEN Backed(r, "P1") ELSE "AMBIGUOUS"
          [] OTHER -> ByFinal(r)

\* The adoption attempt that succeeds, if any: P2 is reported only once every
\* member was synced again (adoptCommittedSnapshot).
Adoptions == {"first", "second", "neither"}

\* observeLocked.
Class(r, adoption) ==
    CASE Discovery(r) = "unsafe" -> "AMBIGUOUS"
      [] Discovery(r) = "complete" /\ adoption = "first" -> "P2"
      [] OTHER -> IF store[r].journal = "absent" THEN WithoutJournal(r)
                  ELSE WithJournal(r, adoption)

\* observeWithJournal dereferences files.status, which is nil when absent.
Panics(r, adoption) ==
    /\ Discovery(r) = "complete"
    /\ adoption = "second"
    /\ store[r].journal # "absent"
    /\ ~store[r].status

\* ClassifyPublication.
Action(class, journal) ==
    CASE class = "AMBIGUOUS" -> "diagnose"
      [] class = "P2" -> "reconstruct"
      [] class = "P1" -> "commit"
      [] class = "P0_STAGED" -> "install"
      [] OTHER -> IF journal = "absent" THEN "resume" ELSE "restage"

----------------------------------------------------------------------------
(* Control.                                                                 *)

\* Results of a call: what PublishNext or Recover returned.
Results == {"none", "p2", "resume", "corrupt", "failed", "limit", "panic"}

PublishSteps ==
    {"observe", "candidate", "prepare", "content_validated", "stage",
     "final_staged", "install", "final_file_installed", "commit",
     "manifest_committed", "status", "completed", "confirm"}

RecoverSteps ==
    {"r_observe", "r_stage", "r_final_staged", "r_adopt", "r_install",
     "r_commit", "r_manifest_committed", "r_status", "r_completed",
     "r_diagnose"}

Calls ==
    [pc : PublishSteps \cup RecoverSteps \cup {"idle"}, run : Runs,
     epoch : Nat, tries : 0..ActionLimit,
     journal : JournalStates \cup {"absent"}, status : BOOLEAN,
     clean : BOOLEAN, result : Results]

Idle(r, result, clean) ==
    [pc |-> "idle", run |-> r, epoch |-> 0, tries |-> 0, journal |-> "absent",
     status |-> FALSE, clean |-> clean, result |-> result]

At(c, steps) == call[c].pc \in steps /\ holder \in {NoCaller, c}

InTransaction(c) == holder = c

\* Mutant: an error leaves the transaction lock behind.
ReturnKeepingLock(c, result) ==
    /\ call' = [call EXCEPT ![c] = Idle(@.run, result, @.clean /\ faults' = faults)]
    /\ holder' = IF holder = c /\ result = "p2" THEN NoCaller ELSE holder

\* A return ends the transaction, if the call runs inside one.
Return(c, result) ==
    /\ call' = [call EXCEPT ![c] = Idle(@.run, result, @.clean /\ faults' = faults)]
    /\ holder' = IF holder = c THEN NoCaller ELSE holder

Goto(c, pc) == call' = [call EXCEPT ![c].pc = pc] /\ UNCHANGED holder

\* A fault taints every call in progress: `clean' only serves the properties.
Tainted(fn) == [c \in Callers |-> [fn[c] EXCEPT !.clean = FALSE]]

Fault == faults < MaxFaults /\ faults' = faults + 1

NoFault == UNCHANGED <<faults, losses>>

\* An effect that was installed but whose sync or lock release failed: the
\* caller observes again (publishRecovered, or the next turn of Recover).
Reobserve(c) ==
    /\ Fault /\ UNCHANGED <<holder, losses>>
    /\ call' = Tainted([call EXCEPT ![c].pc = "r_observe"])

\* Publishable as it stands: journaled, and its epoch is still free.
Recoverable(r) == store[r].journal # "absent" /\ ~EpochTaken(r)

----------------------------------------------------------------------------
(* Starting a call.                                                         *)

\* nextPublicationEpoch: one above the highest installed epoch.
NextEpoch ==
    1 + Max({0} \cup {bound[q] : q \in {q \in Runs : store[q].epoch = "installed"}})

\* No call is under way.  Publications wait for each other at the lock.  Recover
\* by itself locks store call by store call; the program recovers only inside
\* PublishNext, and a caller of its own is taken to be alone with the store.
Quiet == holder = NoCaller /\ \A c \in Callers : call[c].pc = "idle"

\* publishNextCandidate: the whole publication runs inside the lock.
StartPublish(c, r) ==
    /\ Quiet
    /\ holder' = c
    /\ call' = [call EXCEPT ![c] =
                   [Idle(r, "none", FALSE) EXCEPT !.pc = "observe", !.epoch = NextEpoch]]
    /\ NoWrite /\ NoFault /\ UNCHANGED <<bound, diag, reported>>

\* Recover called by itself: every store call takes the lock of its own.
StartRecover(c, r) ==
    /\ Quiet
    /\ call' = [call EXCEPT ![c] =
                   [Idle(r, "none", Recoverable(r)) EXCEPT !.pc = "r_observe"]]
    /\ NoWrite /\ NoFault /\ UNCHANGED <<bound, holder, diag, reported>>

----------------------------------------------------------------------------
(* Observations.  An adoption syncs what it reports as P2.                   *)

\* adoptCommittedSnapshot: sync the final and all members again.
AdoptionOf(r, adoption) ==
    IF Discovery(r) = "complete" /\ adoption # "neither"
    THEN Write(r, store[r], RunDir \cup StagedDir)
    ELSE NoWrite

\* A failed adoption is a fault, and possible only where one is attempted.
AdoptionFault(r, adoption) ==
    IF adoption = "first" THEN NoFault
    ELSE Discovery(r) = "complete" /\ Fault /\ UNCHANGED losses

Told(c, r) == Return(c, "p2") /\ reported' = reported \cup {r}

\* Mutant: an installed final review counts as a publication.
PublishedByFinal(class) == class \in {"P1", "P2"}

Published(class) == class = "P2"

\* publishCandidate before it prepares anything: an existing publication is
\* returned, an interrupted one recovered, an unjournaled composite resumed.
PublishObserve(c, adoption) ==
    LET r == call[c].run
        class == Class(r, adoption)
    IN  /\ At(c, {"observe"})
        /\ AdoptionFault(r, adoption) /\ AdoptionOf(r, adoption)
        /\ UNCHANGED <<bound, diag>>
        /\ \/ Panics(r, adoption) /\ Return(c, "panic") /\ UNCHANGED reported
           \/ /\ ~Panics(r, adoption)
              /\ \/ Published(class) /\ Told(c, r)
                 \/ /\ \/ class = "AMBIGUOUS"
                       \/ /\ Action(class, store[r].journal) = "resume"
                          /\ store[r].cand /\ r \notin Composites
                    /\ Return(c, "failed") /\ UNCHANGED reported
                 \/ /\ class \in {"P0_NONE", "P0_STAGED", "P1"}
                    /\ Action(class, store[r].journal) # "resume"
                    /\ Goto(c, "r_observe") /\ UNCHANGED reported
                 \/ /\ class = "P0_NONE"
                    /\ Action(class, store[r].journal) = "resume"
                    /\ store[r].cand => r \in Composites
                    /\ Goto(c, "candidate") /\ UNCHANGED reported

\* p2Result: a publication is reported only from a fresh P2 observation.
PublishConfirm(c, adoption) ==
    LET r == call[c].run
    IN  /\ At(c, {"confirm"})
        /\ AdoptionFault(r, adoption) /\ AdoptionOf(r, adoption)
        /\ UNCHANGED <<bound, diag>>
        /\ IF Panics(r, adoption) THEN Return(c, "panic") /\ UNCHANGED reported
           ELSE IF Published(Class(r, adoption)) THEN Told(c, r)
           ELSE Return(c, "failed") /\ UNCHANGED reported

\* The step Recover takes for the decision it just classified.
RecoverStep(r, class) ==
    CASE Action(class, store[r].journal) = "diagnose" -> "r_diagnose"
      [] Action(class, store[r].journal) = "commit" -> "r_commit"
      [] Action(class, store[r].journal) = "install" -> "r_adopt"
      [] Action(class, store[r].journal) = "restage" -> "r_stage"
      [] OTHER -> IF store[r].status THEN "r_completed" ELSE "r_status"

\* Mutant: the limit itself still admits one more turn.
MayTryOneMore(c) == call[c].tries <= ActionLimit

MayTry(c) == call[c].tries < ActionLimit

\* One turn of Recover: at most ActionLimit of them.
RecoverObserve(c, adoption) ==
    LET r == call[c].run
        class == Class(r, adoption)
        journal == store[r].journal
    IN  /\ At(c, {"r_observe"}) /\ MayTry(c)
        /\ AdoptionFault(r, adoption) /\ AdoptionOf(r, adoption)
        /\ UNCHANGED <<bound, diag>>
        /\ CASE Panics(r, adoption) -> Return(c, "panic") /\ UNCHANGED reported
             [] ~Panics(r, adoption) /\ Action(class, journal) = "resume" ->
                    /\ Return(c, IF InTransaction(c) THEN "failed" ELSE "resume")
                    /\ UNCHANGED reported
             [] ~Panics(r, adoption) /\ class = "P2"
                    /\ store[r].status /\ journal = "completed" -> Told(c, r)
             [] OTHER ->
                    /\ call' = [call EXCEPT
                          ![c].pc = RecoverStep(r, class),
                          ![c].tries = @ + 1,
                          ![c].clean = @ /\ faults' = faults,
                          ![c].journal = journal,
                          ![c].status = store[r].status]
                    /\ UNCHANGED <<holder, reported>>

RecoverLimit(c) ==
    /\ At(c, {"r_observe"}) /\ call[c].tries = ActionLimit
    /\ NoFault /\ Return(c, "limit")
    /\ NoWrite /\ UNCHANGED <<bound, diag, reported>>

----------------------------------------------------------------------------
(* Store operations.  Each ends durable, installed but undurable (the caller *)
(* observes again), or - see Fails - with an error and no effect.            *)

Bystanders == UNCHANGED <<diag, reported>>

\* Operation of caller c that leaves its run's files as s: durable in F and on
\* to pc, or undurable and observed again.
Performs(c, s, F, pc) ==
    /\ Bystanders
    /\ \/ Write(call[c].run, s, F) /\ Goto(c, pc) /\ NoFault
       \/ Write(call[c].run, s, {}) /\ Reobserve(c)

\* The store refuses and nothing changed.
Refused(c) == NoFault /\ Return(c, "failed") /\ NoWrite /\ Bystanders

\* PersistValidatedCandidate, or the adoption of a resumed composite candidate.
PersistCandidate(c) ==
    /\ At(c, {"candidate"})
    /\ Performs(c, [store[call[c].run] EXCEPT !.cand = TRUE], CandidateDir, "prepare")
    /\ UNCHANGED bound

WithPrepared(s, ms) == [f \in Fields |-> IF f \in ms THEN "prepared" ELSE s[f]]

\* PrepareComposite: three immutable members, bound to the epoch number.
PrepareComposite(c) ==
    /\ At(c, {"prepare"})
    /\ Performs(c, WithPrepared(store[call[c].run], Members), StagedDir,
                "content_validated")
    /\ bound' = [bound EXCEPT ![call[c].run] = call[c].epoch]

\* PrepareComposite fails, or the caller is killed, after some members.
PrepareInterrupted(c, k) ==
    LET r == call[c].run
    IN  /\ At(c, {"prepare"}) /\ Fault /\ UNCHANGED losses
        /\ Write(r, WithPrepared(store[r], Prefix(k)), StagedDir)
        /\ bound' = [bound EXCEPT ![r] = call[c].epoch]
        /\ Return(c, "failed") /\ Bystanders

\* replaceJournal: the observed or last written state is the CAS expectation.
ReplaceJournal(c, expected, state, pc) ==
    LET s == store[call[c].run]
    IN  /\ UNCHANGED bound
        /\ IF s.journal = expected
           THEN Performs(c, [s EXCEPT !.journal = state], JournalDir, pc)
           ELSE Goto(c, "r_observe") /\ NoWrite /\ NoFault /\ Bystanders

\* The journal hints of publishCandidate, each after its effect is durable.
PublishJournal(c) ==
    \/ /\ At(c, {"content_validated"})
       /\ ReplaceJournal(c, "absent", "content_validated", "stage")
    \/ /\ At(c, {"final_staged"})
       /\ ReplaceJournal(c, "content_validated", "final_staged", "install")
    \/ /\ At(c, {"final_file_installed"})
       /\ ReplaceJournal(c, "final_staged", "final_file_installed", "commit")
    \/ /\ At(c, {"manifest_committed"})
       /\ ReplaceJournal(c, "final_file_installed", "manifest_committed", "status")
    \/ /\ At(c, {"completed"})
       /\ ReplaceJournal(c, "manifest_committed", "completed", "confirm")

RecoverJournal(c) ==
    \/ /\ At(c, {"r_final_staged"})
       /\ ReplaceJournal(c, call[c].journal, "final_staged", "r_observe")
    \/ /\ At(c, {"r_manifest_committed"})
       /\ ReplaceJournal(c, call[c].journal, "manifest_committed", "r_observe")
    \/ /\ At(c, {"r_completed"})
       /\ IF call[c].journal = "completed"
          THEN Goto(c, "r_observe") /\ NoWrite /\ NoFault /\ Bystanders /\ UNCHANGED bound
          ELSE ReplaceJournal(c, call[c].journal, "completed", "r_observe")

\* replaceStatus, expecting the status to be absent.
ReplaceStatus(c) ==
    LET s == store[call[c].run]
    IN  /\ At(c, {"status", "r_status"})
        /\ UNCHANGED bound
        /\ IF s.status
           THEN Goto(c, "r_observe") /\ NoWrite /\ NoFault /\ Bystanders
           ELSE Performs(c, [s EXCEPT !.status = TRUE], RunDir,
                         IF call[c].pc = "status" THEN "completed" ELSE "r_completed")

\* StageFinal creates the staged file; it does not look for a final one.
StageFinal(c) ==
    LET s == store[call[c].run]
    IN  /\ At(c, {"stage", "r_stage"})
        /\ UNCHANGED bound
        /\ IF s.fin \in {"staged", "both"} THEN Refused(c)
           ELSE Performs(c, [s EXCEPT !.fin = IF s.fin = "none" THEN "staged" ELSE "both"],
                         StagedDir,
                         IF call[c].pc = "stage" THEN "final_staged"
                         ELSE IF call[c].journal = "content_validated"
                         THEN "r_final_staged" ELSE "r_observe")

\* AdoptStagedFinal: sync the staged file that was found before installing it.
AdoptStagedFinal(c) ==
    LET s == store[call[c].run]
    IN  /\ At(c, {"r_adopt"})
        /\ UNCHANGED bound
        /\ IF s.fin \in {"staged", "both"}
           THEN Performs(c, s, StagedDir, "r_install") ELSE Refused(c)

\* InstallFinal: a rename that replaces nothing.
InstallFinal(c) ==
    LET s == store[call[c].run]
    IN  /\ At(c, {"install", "r_install"})
        /\ UNCHANGED bound
        /\ IF s.fin # "staged" THEN Refused(c)
           ELSE Performs(c, [s EXCEPT !.fin = "installed"], RunDir \cup StagedDir,
                         IF call[c].pc = "install" THEN "final_file_installed"
                         ELSE "r_observe")

----------------------------------------------------------------------------
(* CommitPreparedComposite.                                                  *)

\* resumePreparedComposite: the installed members are a prefix of ours and the
\* others are still prepared.
CanCommit(r) ==
    /\ store[r].fin \in {"installed", "both"}
    /\ ~EpochTaken(r)
    /\ \E k \in 0..3 : /\ Installed(store[r]) = Prefix(k)
                       /\ Prepared(store[r]) = Members \ Prefix(k)

WithInstalled(s, ms) == [f \in Fields |-> IF f \in ms THEN "installed" ELSE s[f]]

\* Members found installed are synced before anything moves; manifest and
\* lineage are synced before the epoch moves.
SettledBefore(s, k) ==
    (IF s.manifest = "installed" \/ k = 3 THEN RunDir ELSE {})
        \cup (IF s.lineage = "installed" \/ k = 3 THEN {"lineage"} ELSE {})

CommitPreparedComposite(c) ==
    LET r == call[c].run
    IN  /\ At(c, {"commit", "r_commit"})
        /\ UNCHANGED bound
        /\ IF ~CanCommit(r) THEN Refused(c)
           ELSE /\ Write(r, WithInstalled(store[r], Members), RunDir \cup StagedDir)
                /\ Goto(c, IF call[c].pc = "commit" THEN "manifest_committed"
                           ELSE "r_manifest_committed")
                /\ NoFault /\ Bystanders

\* It stops after k members were installed: the caller observes again.
CommitInterrupted(c, k) ==
    LET r == call[c].run
        s == WithInstalled(store[r], Prefix(k))
    IN  /\ At(c, {"commit", "r_commit"}) /\ CanCommit(r)
        /\ Cardinality(Installed(store[r])) <= k
        /\ Write(r, s, SettledBefore(store[r], k))
        /\ Reobserve(c) /\ Bystanders /\ UNCHANGED bound

\* WriteCorruptionDiagnostic, after a second look under the lock.
WriteDiagnostic(c, adoption) ==
    LET r == call[c].run
    IN  /\ At(c, {"r_diagnose"})
        /\ AdoptionFault(r, adoption) /\ AdoptionOf(r, adoption)
        /\ UNCHANGED <<bound, reported>>
        /\ IF Panics(r, adoption) THEN Return(c, "panic") /\ UNCHANGED diag
           ELSE IF Class(r, adoption) = "AMBIGUOUS" /\ store[r].journal = call[c].journal
           THEN diag' = diag \cup {r} /\ Return(c, "corrupt")
           ELSE Goto(c, "r_observe") /\ UNCHANGED diag

----------------------------------------------------------------------------
(* The environment.                                                          *)

\* A step errs before it has an effect, its context ends, the lifecycle
\* observer fails, or the calling process is killed between two store calls.
Fails(c) ==
    /\ call[c].pc # "idle" /\ Fault /\ UNCHANGED losses
    /\ call' = [call EXCEPT ![c] = Idle(@.run, "failed", FALSE)]
    /\ holder' = IF holder = c THEN NoCaller ELSE holder
    /\ NoWrite /\ UNCHANGED <<bound, diag, reported>>

\* Every caller dies and any of the entries that were not synced are lost.
PowerLoss ==
    /\ losses < MaxLosses /\ losses' = losses + 1
    /\ \E lost \in SUBSET {e \in Runs \X Fields : store[e[1]][e[2]] # stable[e[1]][e[2]]} :
          store' = [r \in Runs |-> [f \in Fields |->
                       IF <<r, f>> \in lost THEN stable[r][f] ELSE store[r][f]]]
    /\ stable' = store'
    /\ call' = [c \in Callers |-> Idle(call[c].run, "failed", FALSE)]
    /\ holder' = NoCaller
    /\ UNCHANGED <<bound, diag, reported, faults>>

Init ==
    /\ store = [r \in Runs |-> NoFiles]
    /\ stable = [r \in Runs |-> NoFiles]
    /\ bound = [r \in Runs |-> 0]
    /\ holder = NoCaller
    /\ \E r \in Runs : call = [c \in Callers |-> Idle(r, "none", FALSE)]
    /\ diag = {} /\ reported = {}
    /\ faults = 0 /\ losses = 0

Start(c) == \E r \in Runs : StartPublish(c, r) \/ StartRecover(c, r)

Observe(c) ==
    \E adoption \in Adoptions :
        \/ PublishObserve(c, adoption)
        \/ PublishConfirm(c, adoption)
        \/ RecoverObserve(c, adoption)
        \/ WriteDiagnostic(c, adoption)

\* A step of a call that is under way.
Step(c) ==
    \/ Observe(c)
    \/ RecoverLimit(c)
    \/ PersistCandidate(c)
    \/ PrepareComposite(c)
    \/ PublishJournal(c)
    \/ RecoverJournal(c)
    \/ ReplaceStatus(c)
    \/ StageFinal(c)
    \/ AdoptStagedFinal(c)
    \/ InstallFinal(c)
    \/ CommitPreparedComposite(c)

Interrupted(c) ==
    \/ \E k \in 1..2 : PrepareInterrupted(c, k)
    \/ \E k \in 1..3 : CommitInterrupted(c, k)
    \/ Fails(c)

Next == PowerLoss \/ \E c \in Callers : Start(c) \/ Step(c) \/ Interrupted(c)

Spec == Init /\ [][Next]_vars

\* A caller that was started keeps running; starting calls and faults are not
\* promised.
FairSpec == Spec /\ \A c \in Callers : WF_vars(Step(c))

----------------------------------------------------------------------------
(* Properties.                                                               *)

\* Every variable keeps its type.
TypeOK ==
    /\ store \in [Runs -> RunFiles]
    /\ stable \in [Runs -> RunFiles]
    /\ bound \in [Runs -> Nat]
    /\ holder \in Callers \cup {NoCaller}
    /\ call \in [Callers -> Calls]
    /\ diag \subseteq Runs
    /\ reported \subseteq Runs
    /\ faults \in 0..MaxFaults
    /\ losses \in 0..MaxLosses

\* The four immutable files are in place, and nothing of the publication is
\* left in the staging directory.
P2Files(s) == s.fin = "installed" /\ Installed(s) = Members

\* A publication that was reported stays published: no later call, crash or
\* power loss takes it back (Recover "never downgrades P2 authority").
PublishedSurvives == \A r \in reported : P2Files(store[r]) /\ P2Files(stable[r])

\* Publish "writes all recoverable material before a journal hint", and every
\* hint on stable storage trails the durable effect that it announces.
HintsTrailEffects ==
    \A r \in Runs :
        LET s == stable[r]
        IN  /\ s.journal # "absent" =>
                  s.cand /\ Installed(s) \cup Prepared(s) = Members
            /\ s.journal = "final_file_installed" => s.fin = "installed"
            /\ s.journal \in {"manifest_committed", "completed"} => P2Files(s)
            /\ s.status => P2Files(s)

\* Wherever an error or a kill stops a publication, a run whose journal exists
\* is not classified as corrupt, unless another run has committed its epoch
\* number.  (Not after a power loss: the renames of manifest and lineage edge
\* both precede the first sync, so the second may survive the first.)
JournaledIsRecoverable ==
    losses = 0 => \A r \in Runs : Recoverable(r) => Class(r, "first") # "AMBIGUOUS"

\* Recover takes a journaled run whose epoch is free to P2 within its action
\* limit, whatever state earlier errors and kills left, when nothing fails
\* during the recovery itself.  (Not after a power loss, as above.)
RecoveryPublishes ==
    losses = 0 => \A c \in Callers : call[c].pc = "idle" /\ call[c].clean => call[c].result = "p2"

\* An epoch number identifies one publication of the store.
EpochsUnique ==
    \A q, r \in Runs :
        /\ store[q].epoch = "installed" /\ store[r].epoch = "installed"
        /\ bound[q] = bound[r]
        => q = r

\* A run with an immutable corruption diagnostic is never reported published,
\* unless a power loss took away the files that were diagnosed.
CorruptNeverPublished == losses = 0 => diag \cap reported = {}

\* What was published stays, and no durable hint claims more than the durable
\* effects behind it (Publish, Recover, the store's ordered syncs).
PublishedIsDurable == PublishedSurvives /\ HintsTrailEffects

\* An interrupted publication is recoverable, and recovering it publishes it
\* (Recover, the recovery loop of PublishNext).
InterruptedIsPublished == JournaledIsRecoverable /\ RecoveryPublishes

\* One publication per epoch number, none of them of a run diagnosed as corrupt
\* (prepareEpoch, RecordCorruption).
PublishedIsUnique == EpochsUnique /\ CorruptNeverPublished

\* PublishNext always releases the store's transaction lock, however the
\* publication or the recovery inside it goes.
TransactionsEnd == \A c \in Callers : holder = c ~> holder # c
=============================================================================
