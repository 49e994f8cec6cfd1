------------------------- MODULE PublicationProofs -------------------------
(***************************************************************************)
(* Proofs about Publication for any runs, callers, limits and bounds.       *)
(*                                                                         *)
(* Inv, the inductive invariant, says four things besides the types.  Calls *)
(* are serial: the transaction lock, and the assumption on Recover by        *)
(* itself (Quiet).  Files are ordered: what an effect needs is durable       *)
(* before the effect, and `Done' (published, visibly and durably) is stable. *)
(* Each step of a call knows the files its predecessors left (CallOK).       *)
(* Without a power loss the files have one of the few shapes an interrupted  *)
(* publication leaves (Shape), and an untroubled recovery has enough turns   *)
(* left for the shape it is in (Progress).                                   *)
(***************************************************************************)
EXTENDS Publication, FiniteSetTheorems, WellFoundedInduction, TLAPS

\* Final review and composite are in place (P2Files, field by field).
InPlace(s) ==
    /\ s.fin = "installed" /\ s.manifest = "installed"
    /\ s.lineage = "installed" /\ s.epoch = "installed"

\* A run is published as far as any process or power loss can see.
Done(r) == InPlace(store[r]) /\ InPlace(stable[r])

\* Candidate and members exist, prepared or installed.
Material(s) ==
    s.cand /\ s.manifest # "none" /\ s.lineage # "none" /\ s.epoch # "none"

Committed == {"manifest_committed", "completed"}

\* At most one call is under way, and a publication holds the lock.
Serial ==
    /\ \A c, d \in Callers : call[c].pc # "idle" /\ call[d].pc # "idle" => c = d
    /\ \A c \in Callers : call[c].pc \in PublishSteps => holder = c
    /\ \A c \in Callers : holder = c => call[c].pc # "idle"

\* What is on disk, visible and durable, of one run.
FilesOK(r) ==
    LET s == store[r]
        d == stable[r]
    IN  /\ s.fin # "both" /\ d.fin # "both"
        /\ s.journal # "absent" => Material(s) /\ Material(d)
        /\ d.journal # "absent" => s.journal # "absent"
        /\ "final_file_installed" \in {s.journal, d.journal} =>
              s.fin = "installed" /\ d.fin = "installed"
        /\ \/ s.journal \in Committed \/ d.journal \in Committed
           \/ s.status \/ d.status
           \/ r \in reported
           => Done(r)
        /\ "installed" \in {s.epoch, d.epoch} =>
              /\ Material(s) /\ Material(d) /\ s.epoch = "installed"
              /\ s.fin = "installed" /\ d.fin = "installed"
              /\ s.manifest = "installed" /\ d.manifest = "installed"
              /\ s.lineage = "installed" /\ d.lineage = "installed"

\* Steps before the journal, steps that find no final review, steps that find
\* a staged one, and steps after the commit.
Preparing == {"candidate", "prepare", "content_validated"}
Staging == {"stage", "r_stage"}
Adopting == {"r_adopt", "r_install"}
Committing == {"commit", "r_commit"}
Journaled ==
    Staging \cup Adopting \cup Committing
        \cup {"final_staged", "install", "final_file_installed", "r_final_staged",
              "r_manifest_committed"}
Finishing ==
    {"manifest_committed", "r_manifest_committed", "status", "r_status",
     "completed", "r_completed"}

\* What a step of a call may rely on.
CallOK(c) ==
    LET pc == call[c].pc
        s == store[call[c].run]
        d == stable[call[c].run]
    IN  /\ pc \in Preparing => s.journal = "absent" /\ s.fin = "none" /\ ~s.status
        /\ pc \in {"candidate", "prepare"} =>
              /\ s.manifest = "none" /\ s.lineage # "prepared" /\ s.epoch # "prepared"
        /\ pc \in {"prepare", "content_validated"} => s.cand /\ d.cand
        /\ pc = "content_validated" => Material(s) /\ Material(d)
        /\ pc \in Staging => s.fin = "none"
        /\ pc \in Adopting => s.fin = "staged"
        /\ pc = "final_file_installed" => s.fin = "installed" /\ d.fin = "installed"
        /\ pc \in Committing => s.fin = "installed"
        /\ pc \in Journaled => s.journal # "absent"
        /\ pc \in Finishing => Done(call[c].run)

\* Without a power loss: the shapes an interrupted publication leaves.
Shape(s) ==
    /\ s.journal = "absent" =>
          /\ s.fin = "none" /\ ~s.status /\ s.manifest # "installed"
          /\ s.lineage # "installed" /\ s.epoch # "installed"
    /\ s.epoch = "installed" => s.lineage = "installed"
    /\ s.lineage = "installed" => s.manifest = "installed"
    /\ s.manifest = "installed" => s.fin = "installed"

\* Without a power loss: why a run was diagnosed, and stays unpublished.
Condemned(r) ==
    \/ store[r].journal = "absent" /\ \E m \in Members : store[r][m] = "prepared"
    \/ store[r].journal # "absent" /\ EpochTaken(r) /\ store[r].epoch # "installed"

\* Turns of Recover that a run still needs before the one that reports it.
Turns(s) ==
    CASE s.fin = "none" -> 4
      [] s.fin = "staged" -> 3
      [] s.fin = "installed" /\ s.epoch # "installed" -> 2
      [] s.fin = "installed" /\ s.epoch = "installed"
            /\ ~(s.status /\ s.journal = "completed") -> 1
      [] OTHER -> 0

\* Turns needed after the step an untroubled recovery is at.
TurnsAfter(pc, s) ==
    IF pc = "r_observe" THEN Turns(s)
    ELSE IF pc \in {"r_stage", "r_final_staged"} THEN 3
    ELSE IF pc \in Adopting THEN 2
    ELSE IF pc \in {"r_commit", "r_manifest_committed"} THEN 1
    ELSE 0

\* Step pc of a recovery suits the files s and leaves it enough turns.
Advancing(pc, journal, tries, s) ==
    /\ pc \in {"r_observe", "r_stage", "r_final_staged", "r_adopt", "r_install",
              "r_commit", "r_manifest_committed", "r_status", "r_completed"}
    /\ pc # "r_observe" => journal = s.journal
    /\ pc = "r_final_staged" => s.fin = "staged"
    /\ pc = "r_completed" => s.status
    /\ pc = "r_status" => ~s.status
    /\ tries + TurnsAfter(pc, s) < ActionLimit

\* Without a power loss: an untroubled recovery gets there in time.
Progress(c) ==
    call[c].clean =>
        IF call[c].pc = "idle" THEN call[c].result = "p2"
        ELSE /\ Recoverable(call[c].run)
             /\ Advancing(call[c].pc, call[c].journal, call[c].tries, store[call[c].run])

Lossless ==
    losses = 0 =>
        /\ \A r \in Runs : Shape(store[r])
        /\ \A r \in diag : Condemned(r)
        /\ \A c \in Callers : call[c].pc = "content_validated" => call[c].run \notin diag

Timely == losses = 0 => \A c \in Callers : Progress(c)

\* Serial calls, ordered files, and what each step may rely on.
CoreInv ==
    /\ TypeOK /\ Serial
    /\ \A r \in Runs : FilesOK(r)
    /\ \A c \in Callers : CallOK(c)

Inv == CoreInv /\ EpochsUnique /\ Lossless

-----------------------------------------------------------------------------
(* Numbers and records.                                                      *)

\* A nonempty set of naturals has a least element.
LEMMA LeastNumber ==
  ASSUME NEW T \in SUBSET Nat, T # {}
  PROVE  \E x \in T : \A y \in T : x <= y
<1>1. PICK x \in T : \A y \in T : ~(<<y, x>> \in OpToRel(<, Nat))
  BY NatLessThanWellFounded, WFMin, Zenon
<1>2. \A y \in T : ~(y < x)
  BY <1>1 DEF OpToRel
<1> QED
  BY <1>2

\* A nonempty finite set of naturals has a greatest element.
LEMMA GreatestNumber ==
  ASSUME NEW S \in SUBSET Nat, IsFiniteSet(S), S # {}
  PROVE  Max(S) \in S /\ \A y \in S : Max(S) >= y
<1> DEFINE Bounded(X) == \E x \in X : \A y \in X : x >= y
           T == {n \in Nat : \E X \in SUBSET Nat : /\ IsFiniteSet(X) /\ X # {}
                                                  /\ Cardinality(X) = n /\ ~Bounded(X)}
<1>1. T = {}
  <2>1. SUFFICES ASSUME T # {} PROVE FALSE
    OBVIOUS
  <2>2. PICK n \in T : \A k \in T : n <= k
    BY <2>1, LeastNumber
  <2>3. PICK X \in SUBSET Nat : /\ IsFiniteSet(X) /\ X # {}
                                /\ Cardinality(X) = n /\ ~Bounded(X)
    BY <2>2
  <2>4. PICK x \in X : TRUE
    BY <2>3
  <2>5. IsFiniteSet(X \ {x}) /\ Cardinality(X \ {x}) = n - 1 /\ n - 1 \in Nat
    <3>1. IsFiniteSet(X \ {x}) /\ Cardinality(X \ {x}) = Cardinality(X) - 1
      BY <2>3, <2>4, FS_RemoveElement
    <3>2. Cardinality(X \ {x}) \in Nat
      BY <3>1, FS_CardinalityType
    <3> QED
      BY <2>3, <3>1, <3>2
  <2>6. X \ {x} # {}
    <3>1. CASE X \ {x} = {}
      BY <2>3, <2>4, <3>1
    <3> QED
      BY <3>1
  <2>7. Bounded(X \ {x})
    BY <2>2, <2>5, <2>6
  <2>8. PICK m \in X \ {x} : \A y \in X \ {x} : m >= y
    BY <2>7
  <2> QED
    BY <2>3, <2>4, <2>8
<1>2. Bounded(S)
  BY <1>1, FS_CardinalityType
<1> QED
  BY <1>2 DEF Max

LEMMA FieldNames ==
  Fields = {"cand", "fin", "manifest", "lineage", "epoch", "journal", "status"}
BY DEF Fields, NoFiles

\* What a sync keeps and what it takes over.
LEMMA SyncedFields ==
  ASSUME NEW d \in RunFiles, NEW s \in RunFiles, NEW F
  PROVE  /\ Synced(d, s, F) \in RunFiles
         /\ \A f \in Fields : Synced(d, s, F)[f] = IF f \in F THEN s[f] ELSE d[f]
<1>1. Synced(d, s, F) =
        [cand |-> IF "cand" \in F THEN s.cand ELSE d.cand,
         fin |-> IF "fin" \in F THEN s.fin ELSE d.fin,
         manifest |-> IF "manifest" \in F THEN s.manifest ELSE d.manifest,
         lineage |-> IF "lineage" \in F THEN s.lineage ELSE d.lineage,
         epoch |-> IF "epoch" \in F THEN s.epoch ELSE d.epoch,
         journal |-> IF "journal" \in F THEN s.journal ELSE d.journal,
         status |-> IF "status" \in F THEN s.status ELSE d.status]
  BY FieldNames DEF Synced, RunFiles
<1>2. Synced(d, s, F) \in RunFiles
  BY <1>1 DEF RunFiles
<1> QED
  BY <1>2 DEF Synced

\* Members prepared or installed in a record of files.
LEMMA MembersWritten ==
  ASSUME NEW s \in RunFiles, NEW ms \in SUBSET Members
  PROVE  /\ WithPrepared(s, ms) \in RunFiles
         /\ \A f \in Fields : WithPrepared(s, ms)[f] = IF f \in ms THEN "prepared" ELSE s[f]
         /\ WithInstalled(s, ms) \in RunFiles
         /\ \A f \in Fields : WithInstalled(s, ms)[f] = IF f \in ms THEN "installed" ELSE s[f]
<1> DEFINE At3(x) == [cand |-> s.cand, fin |-> s.fin,
              manifest |-> IF "manifest" \in ms THEN x ELSE s.manifest,
              lineage |-> IF "lineage" \in ms THEN x ELSE s.lineage,
              epoch |-> IF "epoch" \in ms THEN x ELSE s.epoch,
              journal |-> s.journal, status |-> s.status]
<1>1. WithPrepared(s, ms) = At3("prepared") /\ WithInstalled(s, ms) = At3("installed")
  BY FieldNames DEF WithPrepared, WithInstalled, RunFiles, Members
<1>2. At3("prepared") \in RunFiles /\ At3("installed") \in RunFiles
  BY DEF RunFiles
<1> QED
  BY <1>1, <1>2 DEF WithPrepared, WithInstalled

LEMMA PrefixMembers ==
  /\ Prefix(0) = {} /\ Prefix(1) = {"manifest"} /\ Prefix(2) = {"manifest", "lineage"}
  /\ Prefix(3) = Members
<1>1. 1..0 = {} /\ 1..1 = {1} /\ 1..2 = {1, 2} /\ 1..3 = {1, 2, 3}
  OBVIOUS
<1>2. Order[1] = "manifest" /\ Order[2] = "lineage" /\ Order[3] = "epoch"
  BY DEF Order
<1> QED
  BY <1>1, <1>2 DEF Prefix, Members

\* The files of run r are now s; what is durable is the old or the new.
Wrote(r, s) ==
    /\ store' \in [Runs -> RunFiles] /\ stable' \in [Runs -> RunFiles]
    /\ \A q \in Runs \ {r} : store'[q] = store[q] /\ stable'[q] = stable[q]
    /\ store'[r] = s
    /\ \A f \in Fields : stable'[r][f] \in {s[f], stable[r][f]}

\* The same, entry by entry.
LEMMA WroteEntries ==
  ASSUME TypeOK, NEW r \in Runs, NEW s \in RunFiles, Wrote(r, s)
  PROVE  /\ store'[r] = s /\ stable'[r] \in RunFiles
         /\ stable'[r].cand \in {s.cand, stable[r].cand}
         /\ stable'[r].fin \in {s.fin, stable[r].fin}
         /\ stable'[r].manifest \in {s.manifest, stable[r].manifest}
         /\ stable'[r].lineage \in {s.lineage, stable[r].lineage}
         /\ stable'[r].epoch \in {s.epoch, stable[r].epoch}
         /\ stable'[r].journal \in {s.journal, stable[r].journal}
         /\ stable'[r].status \in {s.status, stable[r].status}
BY FieldNames DEF Wrote, TypeOK

\* The entries F of run r are durable now.
Durable(r, F) == \A f \in Fields : f \in F => stable'[r][f] = store'[r][f]

LEMMA WriteFacts ==
  ASSUME TypeOK, NEW r \in Runs, NEW s \in RunFiles, NEW F, Write(r, s, F)
  PROVE  Wrote(r, s) /\ Durable(r, F)
BY SyncedFields DEF Write, TypeOK, Wrote, Durable

LEMMA NoWriteFacts ==
  ASSUME TypeOK, NEW r \in Runs, NoWrite
  PROVE  Wrote(r, store[r])
BY FieldNames DEF NoWrite, TypeOK, Wrote

LEMMA AdoptionFacts ==
  ASSUME TypeOK, NEW r \in Runs, NEW adoption \in Adoptions, AdoptionOf(r, adoption)
  PROVE  /\ Wrote(r, store[r])
         /\ Discovery(r) = "complete" /\ adoption # "neither" =>
               Durable(r, RunDir \cup StagedDir)
<1>1. CASE Discovery(r) = "complete" /\ adoption # "neither"
  <2>1. Write(r, store[r], RunDir \cup StagedDir)
    BY <1>1 DEF AdoptionOf
  <2>2. store[r] \in RunFiles
    BY DEF TypeOK
  <2> QED
    BY <2>1, <2>2, WriteFacts
<1>2. CASE ~(Discovery(r) = "complete" /\ adoption # "neither")
  BY <1>2, NoWriteFacts DEF AdoptionOf
<1> QED
  BY <1>1, <1>2

-----------------------------------------------------------------------------
(* Types and the serial order of calls.                                      *)

LEMMA EpochIsNatural ==
  ASSUME TypeOK
  PROVE  NextEpoch \in Nat
<1> DEFINE I == {q \in Runs : store[q].epoch = "installed"}
           E == {bound[q] : q \in I}
<1>1. IsFiniteSet(I)
  BY PublicationAssumption, FS_Subset
<1>2. IsFiniteSet(E)
  <2>1. [q \in I |-> bound[q]] \in Surjection(I, E)
    BY DEF Surjection
  <2> QED
    BY <1>1, <2>1, FS_Surjection
<1>3. IsFiniteSet({0} \cup E)
  BY <1>2, FS_AddElement
<1>4. {0} \cup E \in SUBSET Nat
  BY DEF TypeOK
<1>5. Max({0} \cup E) \in Nat
  BY <1>3, <1>4, GreatestNumber
<1> QED
  BY <1>5 DEF NextEpoch

SerialInv == TypeOK /\ Serial

LEMMA SerialInit == Init => SerialInv
<1> SUFFICES ASSUME Init PROVE SerialInv
  OBVIOUS
<1>1. PICK r \in Runs : call = [c \in Callers |-> Idle(r, "none", FALSE)]
  BY DEF Init
<1>2. call \in [Callers -> Calls] /\ \A c \in Callers : call[c].pc = "idle"
  BY <1>1, PublicationAssumption DEF Idle, Calls, Results
<1>3. NoFiles \in RunFiles
  BY DEF NoFiles, RunFiles
<1>4. TypeOK
  <2>1. store \in [Runs -> RunFiles] /\ stable \in [Runs -> RunFiles] /\ bound \in [Runs -> Nat]
    BY <1>3 DEF Init
  <2>2. faults \in 0..MaxFaults /\ losses \in 0..MaxLosses
    BY PublicationAssumption DEF Init
  <2> QED
    BY <1>2, <2>1, <2>2 DEF TypeOK, Init
<1>5. Serial
  BY <1>2, PublicationAssumption DEF Serial, Init, PublishSteps
<1> QED
  BY <1>4, <1>5 DEF SerialInv

Steps == PublishSteps \cup RecoverSteps

\* Caller c moved and kept its run; the others only may have been tainted.
Moved(c) ==
    /\ call' \in [Callers -> Calls]
    /\ call'[c].run = call[c].run
    /\ \A e \in Callers \ {c} :
          /\ call'[e].pc = call[e].pc /\ call'[e].run = call[e].run
          /\ call'[e].result = call[e].result
          /\ call'[e].clean => call[e].clean

\* Serial callers stay serial when one of them goes on or returns.
LEMMA SerialKept ==
  ASSUME TypeOK, Serial, NEW c \in Callers, call[c].pc # "idle", Moved(c),
         \/ /\ holder' = holder /\ call'[c].pc # "idle"
            /\ call'[c].pc \in PublishSteps => call[c].pc \in PublishSteps
         \/ /\ holder' = IF holder = c THEN NoCaller ELSE holder
            /\ call'[c].pc = "idle"
  PROVE  Serial'
<1>1. \A e \in Callers \ {c} : call[e].pc = "idle" /\ call'[e].pc = "idle" /\ holder # e
  BY DEF Serial, Moved
<1>2. "idle" \notin PublishSteps
  BY DEF PublishSteps
<1>3. \A e, f \in Callers : call'[e].pc # "idle" /\ call'[f].pc # "idle" => e = f
  BY <1>1
<1>4. \A e \in Callers : call'[e].pc \in PublishSteps => holder' = e
  BY <1>1, <1>2 DEF Serial
<1>5. \A e \in Callers : holder' = e => call'[e].pc # "idle"
  BY <1>1, PublicationAssumption
<1> QED
  BY <1>3, <1>4, <1>5 DEF Serial

LEMMA GotoFacts ==
  ASSUME TypeOK, NEW c \in Callers, NEW pc \in Steps, Goto(c, pc)
  PROVE  /\ Moved(c) /\ holder' = holder
         /\ call'[c] = [call[c] EXCEPT !.pc = pc]
BY DEF Goto, Moved, TypeOK, Calls, Steps

LEMMA ReturnFacts ==
  ASSUME TypeOK, NEW c \in Callers, NEW result \in Results, Return(c, result)
  PROVE  /\ Moved(c) /\ holder' = (IF holder = c THEN NoCaller ELSE holder)
         /\ call'[c].pc = "idle" /\ call'[c].result = result
         /\ call'[c].clean => call[c].clean /\ faults' = faults
<1> DEFINE clean == call[c].clean /\ faults' = faults
           idle == [pc |-> "idle", run |-> call[c].run, epoch |-> 0, tries |-> 0,
                    journal |-> "absent", status |-> FALSE, clean |-> clean,
                    result |-> result]
<1>1. call' = [call EXCEPT ![c] = idle]
  BY DEF Return, Idle
<1>2. clean \in BOOLEAN
  OBVIOUS
<1> HIDE DEF clean
<1>3. idle \in Calls
  BY <1>2, PublicationAssumption DEF TypeOK, Calls
<1>4. /\ call' \in [Callers -> Calls] /\ call'[c] = idle
      /\ \A e \in Callers \ {c} : call'[e] = call[e]
  BY <1>1, <1>3 DEF TypeOK
<1>5. Moved(c) /\ call'[c].pc = "idle" /\ call'[c].result = result
  BY <1>4 DEF Moved
<1>6. call'[c].clean = clean
  BY <1>4
<1>7. clean => call[c].clean /\ faults' = faults
  BY DEF clean
<1>8. call'[c].clean => call[c].clean /\ faults' = faults
  BY <1>6, <1>7, Zenon
<1> QED
  BY <1>5, <1>8 DEF Return

LEMMA ReobserveFacts ==
  ASSUME TypeOK, NEW c \in Callers, Reobserve(c)
  PROVE  /\ Moved(c) /\ holder' = holder
         /\ call'[c].pc = "r_observe" /\ ~call'[c].clean
         /\ faults' \in 0..MaxFaults /\ losses' = losses
<1>1. call' = [e \in Callers |-> [[call EXCEPT ![c].pc = "r_observe"][e] EXCEPT !.clean = FALSE]]
  BY DEF Reobserve, Tainted
<1> DEFINE gone == [call EXCEPT ![c].pc = "r_observe"]
<1>2. /\ gone \in [Callers -> Calls] /\ gone[c] = [call[c] EXCEPT !.pc = "r_observe"]
      /\ \A e \in Callers \ {c} : gone[e] = call[e]
  BY DEF TypeOK, Calls, RecoverSteps
<1>3. call' = [e \in Callers |-> [gone[e] EXCEPT !.clean = FALSE]]
  BY <1>1
<1> HIDE DEF gone
<1>4. /\ call' \in [Callers -> Calls]
      /\ call'[c] = [[call[c] EXCEPT !.pc = "r_observe"] EXCEPT !.clean = FALSE]
      /\ \A e \in Callers \ {c} : call'[e] = [call[e] EXCEPT !.clean = FALSE]
  <2>1. \A x \in Calls : [x EXCEPT !.clean = FALSE] \in Calls
    BY DEF Calls
  <2> QED
    BY <1>2, <1>3, <2>1
<1>5. Moved(c) /\ call'[c].pc = "r_observe" /\ ~call'[c].clean
  BY <1>4 DEF Moved, TypeOK, Calls
<1> QED
  BY <1>5, PublicationAssumption DEF Reobserve, Fault, TypeOK

\* A store operation of call c that leaves its run's files as s, durable in F
\* if it goes on to pc.
LEMMA PerformsFacts ==
  ASSUME TypeOK, NEW c \in Callers, NEW s \in RunFiles, NEW F, NEW pc \in Steps,
         Performs(c, s, F, pc)
  PROVE  /\ Wrote(call[c].run, s) /\ Moved(c) /\ holder' = holder
         /\ diag' = diag /\ reported' = reported /\ losses' = losses
         /\ faults' \in 0..MaxFaults
         /\ \/ /\ call'[c] = [call[c] EXCEPT !.pc = pc]
               /\ Durable(call[c].run, F)
            \/ call'[c].pc = "r_observe" /\ ~call'[c].clean
<1>1. call[c].run \in Runs
  BY DEF TypeOK, Calls
<1>2. diag' = diag /\ reported' = reported
  BY DEF Performs, Bystanders
<1>3. CASE Write(call[c].run, s, F) /\ Goto(c, pc) /\ NoFault
  BY <1>1, <1>2, <1>3, WriteFacts, GotoFacts DEF NoFault, TypeOK
<1>4. CASE Write(call[c].run, s, {}) /\ Reobserve(c)
  BY <1>1, <1>2, <1>4, WriteFacts, ReobserveFacts
<1> QED
  BY <1>3, <1>4 DEF Performs

\* A refusal ends the call and changes nothing else.
LEMMA RefusedFacts ==
  ASSUME TypeOK, NEW c \in Callers, Refused(c)
  PROVE  /\ Wrote(call[c].run, store[call[c].run]) /\ Moved(c)
         /\ holder' = (IF holder = c THEN NoCaller ELSE holder)
         /\ diag' = diag /\ reported' = reported /\ losses' = losses
         /\ faults' \in 0..MaxFaults
         /\ call'[c].pc = "idle" /\ call'[c].result = "failed"
<1>1. call[c].run \in Runs
  BY DEF TypeOK, Calls
<1>2. NoWrite /\ Return(c, "failed") /\ NoFault /\ Bystanders
  BY DEF Refused
<1>3. "failed" \in Results
  BY DEF Results
<1> QED
  BY <1>1, <1>2, <1>3, NoWriteFacts, ReturnFacts DEF NoFault, Bystanders, TypeOK

\* A step of c that finds other work to do: it observes again, and wrote nothing.
LEMMA TurnBackFacts ==
  ASSUME TypeOK, NEW c \in Callers, NEW pc \in Steps,
         Goto(c, pc), NoWrite, NoFault, Bystanders
  PROVE  /\ Wrote(call[c].run, store[call[c].run]) /\ Moved(c) /\ holder' = holder
         /\ diag' = diag /\ reported' = reported /\ losses' = losses
         /\ faults' \in 0..MaxFaults
         /\ call'[c] = [call[c] EXCEPT !.pc = pc]
<1>1. call[c].run \in Runs
  BY DEF TypeOK, Calls
<1> QED
  BY <1>1, NoWriteFacts, GotoFacts DEF NoFault, Bystanders, TypeOK

-----------------------------------------------------------------------------
(* Serial calls, ordered files, and what each step may rely on.              *)

\* Caller c went on, to a step of a publication only from one, or returned.
Went(c) ==
    \/ /\ holder' = holder /\ call'[c].pc # "idle"
       /\ call'[c].pc \in PublishSteps => call[c].pc \in PublishSteps
    \/ /\ holder' = (IF holder = c THEN NoCaller ELSE holder)
       /\ call'[c].pc = "idle"

\* Faults and losses stay within their bounds.
Bounded == faults' \in 0..MaxFaults /\ losses' \in 0..MaxLosses

\* An idle call relies on nothing.
LEMMA IdleRelies == ASSUME NEW c, call[c].pc = "idle" PROVE CallOK(c)
BY DEF CallOK, Preparing, Staging, Adopting, Committing, Journaled, Finishing

\* A step of c that keeps its own run in order keeps everything in order.
LEMMA Assemble ==
  ASSUME CoreInv, NEW c \in Callers, call[c].pc # "idle", Moved(c), Went(c), Bounded,
         NEW r \in Runs, call[c].run = r, NEW s \in RunFiles, Wrote(r, s),
         bound' \in [Runs -> Nat], diag' \in SUBSET Runs,
         reported' \in {reported, reported \cup {r}},
         FilesOK(r)', CallOK(c)'
  PROVE  CoreInv'
<1>1. TypeOK'
  <2>1. holder' \in Callers \cup {NoCaller}
    BY DEF Went, CoreInv, TypeOK
  <2> QED
    BY <2>1 DEF CoreInv, TypeOK, Moved, Wrote, Bounded
<1>2. Serial'
  BY SerialKept DEF CoreInv, Went
<1>3. \A q \in Runs : FilesOK(q)'
  <2> TAKE q \in Runs
  <2>1. CASE q # r
    <3>1. store'[q] = store[q] /\ stable'[q] = stable[q] /\ (q \in reported' <=> q \in reported)
      BY <2>1 DEF Wrote
    <3>2. FilesOK(q)
      BY DEF CoreInv
    <3> QED
      BY <3>1, <3>2 DEF FilesOK, Done
  <2> QED
    BY <2>1
<1>4. \A e \in Callers : CallOK(e)'
  <2> TAKE e \in Callers
  <2>1. CASE e # c
    <3>1. call'[e].pc = "idle"
      BY <2>1 DEF CoreInv, Serial, Moved
    <3> QED
      BY <3>1 DEF CallOK, Preparing, Staging, Adopting, Committing, Journaled, Finishing
  <2> QED
    BY <2>1
<1> QED
  BY <1>1, <1>2, <1>3, <1>4 DEF CoreInv

\* A sync disturbs nothing.
LEMMA SyncKeepsFiles ==
  ASSUME TypeOK, NEW r \in Runs, FilesOK(r), Wrote(r, store[r]),
         r \in reported' => r \in reported \/ Done(r)'
  PROVE  FilesOK(r)'
BY FieldNames DEF TypeOK, FilesOK, Wrote, Done, InPlace, Material, RunFiles

\* What is known of the run of a call.
LEMMA Here ==
  ASSUME CoreInv, NEW c \in Callers, NEW r, r = call[c].run
  PROVE  /\ TypeOK /\ r \in Runs /\ call[c] \in Calls
         /\ store[r] \in RunFiles /\ stable[r] \in RunFiles
         /\ FilesOK(r) /\ CallOK(c)
         /\ call[c].pc \in PublishSteps => holder = c
BY DEF CoreInv, TypeOK, Calls, Serial

\* A call that observes next, or returned, relies on nothing.
LEMMA FreeRelies ==
  ASSUME NEW c, call'[c].pc \in {"idle", "observe", "confirm", "r_observe", "r_diagnose"}
  PROVE  CallOK(c)'
BY DEF CallOK, Preparing, Staging, Adopting, Committing, Journaled, Finishing

\* A store operation of c, given what it makes of the files of its run.
LEMMA PerformsKeeps ==
  ASSUME CoreInv, NEW c \in Callers, call[c].pc # "idle", NEW r, r = call[c].run,
         NEW s \in RunFiles, NEW F, NEW pc \in Steps, Performs(c, s, F, pc),
         pc \in PublishSteps => call[c].pc \in PublishSteps,
         bound' \in [Runs -> Nat],
         Wrote(r, s) /\ reported' = reported => FilesOK(r)',
         Wrote(r, s) /\ Durable(r, F) /\ call'[c].pc = pc /\ call'[c].run = r => CallOK(c)'
  PROVE  CoreInv'
<1>1. TypeOK /\ r \in Runs /\ call[c] \in Calls
  BY Here
<1>2. /\ Wrote(r, s) /\ Moved(c) /\ holder' = holder
      /\ diag' = diag /\ reported' = reported /\ losses' = losses
      /\ faults' \in 0..MaxFaults
      /\ \/ /\ call'[c] = [call[c] EXCEPT !.pc = pc]
            /\ Durable(r, F)
         \/ call'[c].pc = "r_observe" /\ ~call'[c].clean
  BY <1>1, PerformsFacts
<1>3. FilesOK(r)'
  BY <1>2
<1>4. CallOK(c)'
  <2>1. CASE call'[c].pc = "r_observe"
    BY <2>1, FreeRelies
  <2>2. CASE call'[c] = [call[c] EXCEPT !.pc = pc] /\ Durable(r, F)
    <3>1. call'[c].pc = pc /\ call'[c].run = r
      BY <1>1, <2>2 DEF Calls
    <3> QED
      BY <1>2, <2>2, <3>1
  <2> QED
    BY <1>2, <2>1, <2>2
<1>5. "idle" \notin Steps /\ "r_observe" \notin PublishSteps
  BY DEF Steps, PublishSteps, RecoverSteps
<1>6. call'[c].pc \in {pc, "r_observe"}
  BY <1>1, <1>2 DEF Calls
<1>7. Went(c)
  BY <1>2, <1>5, <1>6 DEF Went
<1>8. Bounded /\ diag' \in SUBSET Runs
  BY <1>1, <1>2 DEF Bounded, TypeOK
<1> QED
  BY <1>1, <1>2, <1>3, <1>4, <1>7, <1>8, Assemble

\* A refusal keeps everything in order.
LEMMA RefusedKeeps ==
  ASSUME CoreInv, NEW c \in Callers, Refused(c), call[c].pc # "idle", bound' = bound
  PROVE  CoreInv'
<1>1. PICK r : r = call[c].run
  OBVIOUS
<1>2. TypeOK /\ r \in Runs /\ store[r] \in RunFiles /\ FilesOK(r)
  BY <1>1, Here
<1>3. /\ Wrote(r, store[r]) /\ Moved(c)
      /\ holder' = (IF holder = c THEN NoCaller ELSE holder)
      /\ diag' = diag /\ reported' = reported /\ losses' = losses
      /\ faults' \in 0..MaxFaults
      /\ call'[c].pc = "idle"
  BY <1>1, <1>2, RefusedFacts
<1>4. FilesOK(r)'
  BY <1>2, <1>3, SyncKeepsFiles
<1>5. CallOK(c)' /\ Went(c) /\ Bounded
  BY <1>2, <1>3, FreeRelies DEF Went, Bounded, TypeOK
<1>6. diag' \in SUBSET Runs /\ bound' \in [Runs -> Nat]
  BY <1>2, <1>3 DEF TypeOK
<1> QED
  BY <1>1, <1>2, <1>3, <1>4, <1>5, <1>6, Assemble

\* A step that writes nothing and goes on to pc keeps everything in order.
LEMMA TurnBackKeeps ==
  ASSUME CoreInv, NEW c \in Callers, call[c].pc # "idle", NEW r, r = call[c].run,
         NEW pc \in Steps, Goto(c, pc), NoWrite, NoFault, Bystanders, bound' = bound,
         pc \in PublishSteps => call[c].pc \in PublishSteps,
         Wrote(r, store[r]) /\ call'[c].pc = pc /\ call'[c].run = r => CallOK(c)'
  PROVE  CoreInv'
<1>1. /\ TypeOK /\ r \in Runs /\ store[r] \in RunFiles /\ FilesOK(r)
      /\ call[c] \in Calls
  BY Here
<1>2. /\ Wrote(r, store[r]) /\ Moved(c) /\ holder' = holder
      /\ diag' = diag /\ reported' = reported /\ losses' = losses
      /\ faults' \in 0..MaxFaults
      /\ call'[c] = [call[c] EXCEPT !.pc = pc]
  BY <1>1, TurnBackFacts
<1>3. FilesOK(r)'
  BY <1>1, <1>2, SyncKeepsFiles
<1>4. call'[c].pc = pc /\ call'[c].run = r
  BY <1>1, <1>2 DEF Calls
<1>5. "idle" \notin Steps
  BY DEF Steps, PublishSteps, RecoverSteps
<1>6. Went(c) /\ Bounded /\ CallOK(c)'
  BY <1>1, <1>2, <1>4, <1>5 DEF Went, Bounded, TypeOK
<1>7. diag' \in SUBSET Runs /\ bound' \in [Runs -> Nat]
  BY <1>1, <1>2 DEF TypeOK
<1> QED
  BY <1>1, <1>2, <1>3, <1>6, <1>7, Assemble

\* A journal hint keeps everything in order if what it announces is durable.
LEMMA JournalKeeps ==
  ASSUME CoreInv, NEW c \in Callers, call[c].pc # "idle", NEW r, r = call[c].run,
         NEW expected, NEW state \in JournalStates, NEW pc \in Steps,
         ReplaceJournal(c, expected, state, pc),
         pc \in PublishSteps => call[c].pc \in PublishSteps,
         Material(store[r]) /\ Material(stable[r]),
         state = "final_file_installed" =>
            store[r].fin = "installed" /\ stable[r].fin = "installed",
         state \in Committed => Done(r),
         /\ store'[r].fin = store[r].fin /\ store'[r].journal = state
         /\ Done(r) => Done(r)'
         /\ call'[c].pc = pc /\ call'[c].run = r
         => CallOK(c)'
  PROVE  CoreInv'
<1>1. /\ TypeOK /\ r \in Runs /\ store[r] \in RunFiles /\ stable[r] \in RunFiles
      /\ FilesOK(r) /\ call[c] \in Calls
  BY Here
<1>2. bound' = bound /\ bound' \in [Runs -> Nat]
  BY <1>1 DEF ReplaceJournal, TypeOK
<1>3. PICK s : s = [store[r] EXCEPT !.journal = state]
  OBVIOUS
<1>4. /\ s \in RunFiles /\ s.cand = store[r].cand /\ s.fin = store[r].fin
      /\ s.manifest = store[r].manifest /\ s.lineage = store[r].lineage
      /\ s.epoch = store[r].epoch /\ s.journal = state /\ s.status = store[r].status
  BY <1>1, <1>3 DEF RunFiles
<1>5. "absent" \notin JournalStates
  BY DEF JournalStates
<1>6. CASE store[r].journal = expected
  <2>1. Performs(c, s, JournalDir, pc)
    BY <1>3, <1>6 DEF ReplaceJournal
  <2>2. ASSUME Wrote(r, s), reported' = reported PROVE FilesOK(r)'
    <3>1. /\ store'[r] = s /\ stable'[r].cand \in {s.cand, stable[r].cand}
          /\ stable'[r].fin \in {s.fin, stable[r].fin}
          /\ stable'[r].manifest \in {s.manifest, stable[r].manifest}
          /\ stable'[r].lineage \in {s.lineage, stable[r].lineage}
          /\ stable'[r].epoch \in {s.epoch, stable[r].epoch}
          /\ stable'[r].journal \in {state, stable[r].journal}
          /\ stable'[r].status \in {s.status, stable[r].status}
      BY <1>1, <1>4, <2>2, WroteEntries
    <3>2. state # "absent"
      BY <1>5
    <3>3. Done(r) => Done(r)'
      BY <1>4, <3>1 DEF Done, InPlace
    <3>4. \/ state \in Committed \/ stable'[r].journal \in Committed
          \/ s.status \/ stable'[r].status \/ r \in reported'
          => Done(r)
      BY <1>1, <1>4, <2>2, <3>1 DEF FilesOK
    <3>5. Material(s) /\ Material(stable[r])'
      BY <1>4, <3>1 DEF Material
    <3>6. "final_file_installed" \in {state, stable'[r].journal} =>
             s.fin = "installed" /\ stable'[r].fin = "installed"
      BY <1>1, <1>4, <3>1 DEF FilesOK
    <3> QED
      BY <1>1, <1>4, <3>1, <3>2, <3>3, <3>4, <3>5, <3>6 DEF FilesOK
  <2>3. ASSUME Wrote(r, s), call'[c].pc = pc, call'[c].run = r PROVE CallOK(c)'
    <3>1. store'[r].fin = store[r].fin /\ store'[r].journal = state
      BY <1>1, <1>4, <2>3, WroteEntries
    <3>2. Done(r) => Done(r)'
      BY <1>1, <1>4, <2>3, WroteEntries DEF Done, InPlace
    <3> QED
      BY <2>3, <3>1, <3>2
  <2> QED
    BY <1>1, <1>2, <1>4, <2>1, <2>2, <2>3, PerformsKeeps
<1>7. CASE store[r].journal # expected
  <2>1. Goto(c, "r_observe") /\ NoWrite /\ NoFault /\ Bystanders
    BY <1>7 DEF ReplaceJournal
  <2>2. "r_observe" \in Steps /\ "r_observe" \notin PublishSteps
    BY DEF Steps, PublishSteps, RecoverSteps
  <2>3. call'[c].pc = "r_observe" => CallOK(c)'
    BY FreeRelies
  <2> QED
    BY <1>2, <2>1, <2>2, <2>3, TurnBackKeeps
<1> QED
  BY <1>6, <1>7

LEMMA PersistCandidateCore ==
  ASSUME CoreInv, NEW c \in Callers, PersistCandidate(c)
  PROVE  CoreInv'
<1>1. PICK r : r = call[c].run
  OBVIOUS
<1>2. /\ TypeOK /\ r \in Runs /\ store[r] \in RunFiles /\ stable[r] \in RunFiles
      /\ FilesOK(r) /\ CallOK(c) /\ call[c] \in Calls
  BY <1>1, Here
<1>3. PICK s : s = [store[r] EXCEPT !.cand = TRUE]
  OBVIOUS
<1>4. call[c].pc = "candidate" /\ Performs(c, s, CandidateDir, "prepare") /\ bound' = bound
  BY <1>1, <1>3 DEF PersistCandidate, At
<1>5. /\ s \in RunFiles /\ s.cand /\ s.fin = store[r].fin /\ s.manifest = store[r].manifest
      /\ s.lineage = store[r].lineage /\ s.epoch = store[r].epoch
      /\ s.journal = store[r].journal /\ s.status = store[r].status
  BY <1>2, <1>3 DEF RunFiles
<1>6. ASSUME Wrote(r, s), reported' = reported PROVE FilesOK(r)'
  BY <1>2, <1>5, <1>6, WroteEntries DEF FilesOK, Done, InPlace, Material, RunFiles
<1>7. ASSUME Wrote(r, s), Durable(r, CandidateDir), call'[c].pc = "prepare", call'[c].run = r
      PROVE  CallOK(c)'
  <2>1. store'[r] = s /\ stable'[r].cand
    BY <1>5, <1>7, FieldNames DEF Wrote, Durable, CandidateDir
  <2>2. /\ store[r].journal = "absent" /\ store[r].fin = "none" /\ ~store[r].status
        /\ store[r].manifest = "none" /\ store[r].lineage # "prepared"
        /\ store[r].epoch # "prepared"
    BY <1>1, <1>2, <1>4 DEF CallOK, Preparing
  <2> QED
    BY <1>5, <1>7, <2>1, <2>2
       DEF CallOK, Preparing, Staging, Adopting, Committing, Journaled, Finishing
<1>8. "prepare" \in Steps /\ {"candidate", "prepare"} \subseteq PublishSteps
  BY DEF Steps, PublishSteps
<1>9. bound' \in [Runs -> Nat]
  BY <1>2, <1>4 DEF TypeOK
<1> QED
  BY <1>1, <1>2, <1>4, <1>5, <1>6, <1>7, <1>8, <1>9, PerformsKeeps

LEMMA PrepareCompositeCore ==
  ASSUME CoreInv, NEW c \in Callers, PrepareComposite(c)
  PROVE  CoreInv'
<1>1. PICK r : r = call[c].run
  OBVIOUS
<1>2. /\ TypeOK /\ r \in Runs /\ store[r] \in RunFiles /\ stable[r] \in RunFiles
      /\ FilesOK(r) /\ CallOK(c) /\ call[c] \in Calls
  BY <1>1, Here
<1>3. PICK s : s = WithPrepared(store[r], Members)
  OBVIOUS
<1>4. call[c].pc = "prepare" /\ Performs(c, s, StagedDir, "content_validated")
  BY <1>1, <1>3 DEF PrepareComposite, At
<1>5. bound' \in [Runs -> Nat]
  BY <1>2 DEF PrepareComposite, TypeOK, Calls
<1>6. /\ s \in RunFiles /\ s.cand = store[r].cand /\ s.fin = store[r].fin
      /\ s.manifest = "prepared" /\ s.lineage = "prepared" /\ s.epoch = "prepared"
      /\ s.journal = store[r].journal /\ s.status = store[r].status
  BY <1>2, <1>3, MembersWritten, FieldNames DEF Members
<1>7. /\ store[r].journal = "absent" /\ store[r].fin = "none" /\ ~store[r].status
      /\ store[r].cand /\ stable[r].cand
  BY <1>1, <1>2, <1>4 DEF CallOK, Preparing
<1>8. ASSUME Wrote(r, s), reported' = reported PROVE FilesOK(r)'
  BY <1>2, <1>6, <1>7, <1>8, WroteEntries DEF FilesOK, Done, InPlace, Material
<1>9. ASSUME Wrote(r, s), Durable(r, StagedDir), call'[c].pc = "content_validated",
             call'[c].run = r
      PROVE  CallOK(c)'
  <2>1. /\ store'[r] = s /\ stable'[r].cand /\ stable'[r].manifest = "prepared"
        /\ stable'[r].lineage = "prepared" /\ stable'[r].epoch = "prepared"
    BY <1>2, <1>6, <1>7, <1>9, FieldNames DEF Wrote, Durable, StagedDir
  <2> QED
    BY <1>6, <1>7, <1>9, <2>1
       DEF CallOK, Material, Preparing, Staging, Adopting, Committing, Journaled, Finishing
<1>10. "content_validated" \in Steps /\ {"prepare", "content_validated"} \subseteq PublishSteps
  BY DEF Steps, PublishSteps
<1> QED
  BY <1>1, <1>2, <1>4, <1>5, <1>6, <1>8, <1>9, <1>10, PerformsKeeps

\* Steps that return or fail, whatever they wrote.
LEMMA EndKeeps ==
  ASSUME CoreInv, NEW c \in Callers, call[c].pc # "idle", NEW r, r = call[c].run,
         Moved(c), call'[c].pc = "idle",
         holder' = IF holder = c THEN NoCaller ELSE holder, Bounded,
         NEW s \in RunFiles, Wrote(r, s), FilesOK(r)',
         bound' \in [Runs -> Nat], diag' \in SUBSET Runs,
         reported' \in {reported, reported \cup {r}}
  PROVE  CoreInv'
<1>1. r \in Runs
  BY Here
<1>2. Went(c) /\ CallOK(c)'
  BY FreeRelies DEF Went
<1> QED
  BY <1>1, <1>2, Assemble

LEMMA PrepareInterruptedCore ==
  ASSUME CoreInv, NEW c \in Callers, NEW k \in 1..2, PrepareInterrupted(c, k)
  PROVE  CoreInv'
<1>1. PICK r : r = call[c].run
  OBVIOUS
<1>2. /\ TypeOK /\ r \in Runs /\ store[r] \in RunFiles /\ stable[r] \in RunFiles
      /\ FilesOK(r) /\ CallOK(c) /\ call[c] \in Calls
  BY <1>1, Here
<1>3. PICK s : s = WithPrepared(store[r], Prefix(k))
  OBVIOUS
<1>4. /\ call[c].pc = "prepare" /\ Fault /\ losses' = losses
      /\ Write(r, s, StagedDir) /\ Return(c, "failed") /\ Bystanders
  BY <1>1, <1>3 DEF PrepareInterrupted, At
<1>5. bound' \in [Runs -> Nat]
  BY <1>2 DEF PrepareInterrupted, TypeOK, Calls
<1>6. Prefix(k) \in SUBSET Members
  BY PrefixMembers DEF Members
<1>7. /\ s \in RunFiles /\ s.cand = store[r].cand /\ s.fin = store[r].fin
      /\ s.manifest \in {"prepared", store[r].manifest}
      /\ s.lineage \in {"prepared", store[r].lineage}
      /\ s.epoch \in {"prepared", store[r].epoch}
      /\ s.journal = store[r].journal /\ s.status = store[r].status
  BY <1>2, <1>3, <1>6, MembersWritten, FieldNames DEF Members
<1>8. store[r].journal = "absent" /\ store[r].fin = "none" /\ ~store[r].status
  BY <1>1, <1>2, <1>4 DEF CallOK, Preparing
<1>9. Wrote(r, s) /\ reported' = reported /\ diag' \in SUBSET Runs
  BY <1>2, <1>4, <1>7, WriteFacts DEF Bystanders, TypeOK
<1>10. FilesOK(r)'
  BY <1>2, <1>7, <1>8, <1>9, WroteEntries DEF FilesOK, Done, InPlace, Material
<1>11. Bounded
  BY <1>2, <1>4, PublicationAssumption DEF Bounded, Fault, TypeOK
<1>12. /\ Moved(c) /\ call'[c].pc = "idle"
       /\ holder' = IF holder = c THEN NoCaller ELSE holder
  BY <1>2, <1>4, ReturnFacts DEF Results
<1> QED
  BY <1>1, <1>4, <1>5, <1>7, <1>9, <1>10, <1>11, <1>12, EndKeeps

LEMMA PublishJournalCore ==
  ASSUME CoreInv, NEW c \in Callers, PublishJournal(c)
  PROVE  CoreInv'
<1>1. PICK r : r = call[c].run
  OBVIOUS
<1>2. /\ TypeOK /\ r \in Runs /\ FilesOK(r) /\ CallOK(c) /\ call[c] \in Calls
  BY <1>1, Here
<1>3. /\ {"stage", "install", "commit", "status", "confirm"} \subseteq Steps
      /\ {"content_validated", "final_staged", "final_file_installed",
          "manifest_committed", "completed"} \subseteq PublishSteps \cap JournalStates
  BY DEF Steps, PublishSteps, JournalStates
<1>4. Done(r) \/ store[r].journal # "absent" => Material(store[r]) /\ Material(stable[r])
  BY <1>2 DEF FilesOK, Done, InPlace
<1>5. CASE /\ call[c].pc = "content_validated"
           /\ ReplaceJournal(c, "absent", "content_validated", "stage")
  <2>1. /\ Material(store[r]) /\ Material(stable[r]) /\ store[r].fin = "none"
    BY <1>1, <1>2, <1>5 DEF CallOK, Preparing
  <2>2. ASSUME store'[r].fin = store[r].fin, store'[r].journal = "content_validated",
               call'[c].pc = "stage", call'[c].run = r
        PROVE  CallOK(c)'
    BY <2>1, <2>2 DEF CallOK, Preparing, Staging, Adopting, Committing, Journaled, Finishing
  <2> QED
    BY <1>1, <1>3, <1>5, <2>1, <2>2, JournalKeeps DEF Committed
<1>6. CASE /\ call[c].pc = "final_staged"
           /\ ReplaceJournal(c, "content_validated", "final_staged", "install")
  <2>1. store[r].journal # "absent"
    BY <1>1, <1>2, <1>6 DEF CallOK, Journaled
  <2>2. ASSUME store'[r].journal = "final_staged",
               call'[c].pc = "install", call'[c].run = r
        PROVE  CallOK(c)'
    BY <2>2 DEF CallOK, Preparing, Staging, Adopting, Committing, Journaled, Finishing
  <2> QED
    BY <1>1, <1>3, <1>4, <1>6, <2>1, <2>2, JournalKeeps DEF Committed
<1>7. CASE /\ call[c].pc = "final_file_installed"
           /\ ReplaceJournal(c, "final_staged", "final_file_installed", "commit")
  <2>1. store[r].journal # "absent" /\ store[r].fin = "installed" /\ stable[r].fin = "installed"
    BY <1>1, <1>2, <1>7 DEF CallOK, Journaled
  <2>2. ASSUME store'[r].fin = store[r].fin, store'[r].journal = "final_file_installed",
               call'[c].pc = "commit", call'[c].run = r
        PROVE  CallOK(c)'
    BY <2>1, <2>2 DEF CallOK, Preparing, Staging, Adopting, Committing, Journaled, Finishing
  <2> QED
    BY <1>1, <1>3, <1>4, <1>7, <2>1, <2>2, JournalKeeps DEF Committed
<1>8. CASE /\ call[c].pc = "manifest_committed"
           /\ ReplaceJournal(c, "final_file_installed", "manifest_committed", "status")
  <2>1. Done(r)
    BY <1>1, <1>2, <1>8 DEF CallOK, Finishing
  <2>2. ASSUME Done(r)', call'[c].pc = "status", call'[c].run = r
        PROVE  CallOK(c)'
    BY <2>2 DEF CallOK, Preparing, Staging, Adopting, Committing, Journaled, Finishing
  <2> QED
    BY <1>1, <1>3, <1>4, <1>8, <2>1, <2>2, JournalKeeps
<1>9. CASE /\ call[c].pc = "completed"
           /\ ReplaceJournal(c, "manifest_committed", "completed", "confirm")
  <2>1. Done(r)
    BY <1>1, <1>2, <1>9 DEF CallOK, Finishing
  <2>2. call'[c].pc = "confirm" => CallOK(c)'
    BY FreeRelies
  <2> QED
    BY <1>1, <1>3, <1>4, <1>9, <2>1, <2>2, JournalKeeps
<1> QED
  BY <1>5, <1>6, <1>7, <1>8, <1>9 DEF PublishJournal, At

LEMMA RecoverJournalCore ==
  ASSUME CoreInv, NEW c \in Callers, RecoverJournal(c)
  PROVE  CoreInv'
<1>1. PICK r : r = call[c].run
  OBVIOUS
<1>2. /\ TypeOK /\ r \in Runs /\ FilesOK(r) /\ CallOK(c) /\ call[c] \in Calls
  BY <1>1, Here
<1>3. /\ "r_observe" \in Steps /\ "r_observe" \notin PublishSteps
      /\ {"final_staged", "manifest_committed", "completed"} \subseteq JournalStates
  BY DEF Steps, PublishSteps, RecoverSteps, JournalStates
<1>4. Done(r) \/ store[r].journal # "absent" => Material(store[r]) /\ Material(stable[r])
  BY <1>2 DEF FilesOK, Done, InPlace
<1>5. call'[c].pc = "r_observe" => CallOK(c)'
  BY FreeRelies
<1>6. CASE /\ call[c].pc = "r_final_staged"
           /\ ReplaceJournal(c, call[c].journal, "final_staged", "r_observe")
  <2>1. store[r].journal # "absent"
    BY <1>1, <1>2, <1>6 DEF CallOK, Journaled
  <2> QED
    BY <1>1, <1>3, <1>4, <1>5, <1>6, <2>1, JournalKeeps DEF Committed
<1>7. CASE /\ call[c].pc = "r_manifest_committed"
           /\ ReplaceJournal(c, call[c].journal, "manifest_committed", "r_observe")
  <2>1. Done(r)
    BY <1>1, <1>2, <1>7 DEF CallOK, Finishing
  <2> QED
    BY <1>1, <1>3, <1>4, <1>5, <1>7, <2>1, JournalKeeps
<1>8. CASE /\ call[c].pc = "r_completed"
           /\ ReplaceJournal(c, call[c].journal, "completed", "r_observe")
  <2>1. Done(r)
    BY <1>1, <1>2, <1>8 DEF CallOK, Finishing
  <2> QED
    BY <1>1, <1>3, <1>4, <1>5, <1>8, <2>1, JournalKeeps
<1>9. CASE /\ call[c].pc = "r_completed"
           /\ Goto(c, "r_observe") /\ NoWrite /\ NoFault /\ Bystanders /\ UNCHANGED bound
  BY <1>1, <1>3, <1>5, <1>9, TurnBackKeeps
<1> QED
  BY <1>6, <1>7, <1>8, <1>9 DEF RecoverJournal, At

LEMMA ReplaceStatusCore ==
  ASSUME CoreInv, NEW c \in Callers, ReplaceStatus(c)
  PROVE  CoreInv'
<1>1. PICK r : r = call[c].run
  OBVIOUS
<1>2. /\ TypeOK /\ r \in Runs /\ store[r] \in RunFiles /\ stable[r] \in RunFiles
      /\ FilesOK(r) /\ CallOK(c) /\ call[c] \in Calls
  BY <1>1, Here
<1>3. PICK s : s = [store[r] EXCEPT !.status = TRUE]
  OBVIOUS
<1>4. PICK pc : pc = IF call[c].pc = "status" THEN "completed" ELSE "r_completed"
  OBVIOUS
<1>5. /\ call[c].pc \in {"status", "r_status"} /\ bound' = bound
      /\ bound' \in [Runs -> Nat]
  BY <1>2 DEF ReplaceStatus, At, TypeOK
<1>6. /\ s \in RunFiles /\ s.cand = store[r].cand /\ s.fin = store[r].fin
      /\ s.manifest = store[r].manifest /\ s.lineage = store[r].lineage
      /\ s.epoch = store[r].epoch /\ s.journal = store[r].journal
  BY <1>2, <1>3 DEF RunFiles
<1>7. Done(r)
  BY <1>1, <1>2, <1>5 DEF CallOK, Finishing
<1>8. CASE store[r].status
  <2>1. Goto(c, "r_observe") /\ NoWrite /\ NoFault /\ Bystanders
    BY <1>1, <1>8 DEF ReplaceStatus
  <2>2. "r_observe" \in Steps /\ "r_observe" \notin PublishSteps
    BY DEF Steps, PublishSteps, RecoverSteps
  <2>3. call'[c].pc = "r_observe" => CallOK(c)'
    BY FreeRelies
  <2> QED
    BY <1>1, <1>5, <2>1, <2>2, <2>3, TurnBackKeeps
<1>9. CASE ~store[r].status
  <2>1. Performs(c, s, RunDir, pc)
    BY <1>1, <1>3, <1>4, <1>9 DEF ReplaceStatus
  <2>2. /\ pc \in Steps /\ "idle" \notin {"status", "r_status"}
        /\ pc \in PublishSteps => call[c].pc \in PublishSteps
    BY <1>4, <1>5 DEF Steps, PublishSteps, RecoverSteps
  <2>3. ASSUME Wrote(r, s) PROVE Done(r)'
    BY <1>2, <1>6, <1>7, <2>3, WroteEntries DEF Done, InPlace
  <2>4. ASSUME Wrote(r, s), reported' = reported PROVE FilesOK(r)'
    <3>1. Material(s) /\ Material(stable[r])'
      BY <1>2, <1>6, <1>7, <2>4, WroteEntries DEF FilesOK, Done, InPlace, Material
    <3> QED
      BY <1>2, <1>6, <1>7, <2>3, <2>4, <3>1, WroteEntries DEF FilesOK, Done, InPlace
  <2>5. ASSUME Wrote(r, s), call'[c].pc = pc, call'[c].run = r PROVE CallOK(c)'
    BY <1>4, <2>3, <2>5
       DEF CallOK, Preparing, Staging, Adopting, Committing, Journaled, Finishing
  <2> QED
    BY <1>1, <1>2, <1>5, <1>6, <2>1, <2>2, <2>4, <2>5, PerformsKeeps
<1> QED
  BY <1>8, <1>9

LEMMA StageFinalCore ==
  ASSUME CoreInv, NEW c \in Callers, StageFinal(c)
  PROVE  CoreInv'
<1>1. PICK r : r = call[c].run
  OBVIOUS
<1>2. /\ TypeOK /\ r \in Runs /\ store[r] \in RunFiles /\ stable[r] \in RunFiles
      /\ FilesOK(r) /\ CallOK(c) /\ call[c] \in Calls
  BY <1>1, Here
<1>3. PICK s : s = [store[r] EXCEPT !.fin = "staged"]
  OBVIOUS
<1>4. PICK pc : pc = IF call[c].pc = "stage" THEN "final_staged"
                     ELSE IF call[c].journal = "content_validated"
                     THEN "r_final_staged" ELSE "r_observe"
  OBVIOUS
<1>5. /\ call[c].pc \in {"stage", "r_stage"} /\ bound' \in [Runs -> Nat]
  BY <1>2 DEF StageFinal, At, TypeOK
<1>6. /\ s \in RunFiles /\ s.cand = store[r].cand /\ s.fin = "staged"
      /\ s.manifest = store[r].manifest /\ s.lineage = store[r].lineage
      /\ s.epoch = store[r].epoch /\ s.journal = store[r].journal
      /\ s.status = store[r].status
  BY <1>2, <1>3 DEF RunFiles
<1>7. store[r].fin = "none" /\ store[r].journal # "absent"
  BY <1>1, <1>2, <1>5 DEF CallOK, Staging, Journaled
<1>8. Performs(c, s, StagedDir, pc)
  BY <1>1, <1>3, <1>4, <1>7 DEF StageFinal
<1>9. /\ pc \in Steps /\ "idle" \notin {"stage", "r_stage"}
      /\ pc \in PublishSteps => call[c].pc \in PublishSteps
  BY <1>4, <1>5 DEF Steps, PublishSteps, RecoverSteps
<1>10. ASSUME Wrote(r, s), reported' = reported PROVE FilesOK(r)'
  BY <1>2, <1>6, <1>7, <1>10, WroteEntries DEF FilesOK, Done, InPlace, Material
<1>11. ASSUME Wrote(r, s), call'[c].pc = pc, call'[c].run = r PROVE CallOK(c)'
  <2>1. store'[r].journal # "absent"
    BY <1>6, <1>7, <1>11 DEF Wrote
  <2> QED
    BY <1>4, <1>11, <2>1
       DEF CallOK, Preparing, Staging, Adopting, Committing, Journaled, Finishing
<1> QED
  BY <1>1, <1>2, <1>5, <1>6, <1>8, <1>9, <1>10, <1>11, PerformsKeeps

LEMMA AdoptStagedFinalCore ==
  ASSUME CoreInv, NEW c \in Callers, AdoptStagedFinal(c)
  PROVE  CoreInv'
<1>1. PICK r : r = call[c].run
  OBVIOUS
<1>2. /\ TypeOK /\ r \in Runs /\ store[r] \in RunFiles /\ FilesOK(r) /\ CallOK(c)
      /\ call[c] \in Calls
  BY <1>1, Here
<1>3. call[c].pc = "r_adopt" /\ bound' \in [Runs -> Nat]
  BY <1>2 DEF AdoptStagedFinal, At, TypeOK
<1>4. store[r].fin = "staged" /\ store[r].journal # "absent"
  BY <1>1, <1>2, <1>3 DEF CallOK, Adopting, Journaled
<1>5. Performs(c, store[r], StagedDir, "r_install")
  BY <1>1, <1>4 DEF AdoptStagedFinal
<1>6. ASSUME Wrote(r, store[r]), reported' = reported PROVE FilesOK(r)'
  BY <1>2, <1>6, SyncKeepsFiles
<1>7. ASSUME Wrote(r, store[r]), call'[c].pc = "r_install", call'[c].run = r
      PROVE  CallOK(c)'
  <2>1. store'[r] = store[r]
    BY <1>7 DEF Wrote
  <2> QED
    BY <1>4, <1>7, <2>1
       DEF CallOK, Preparing, Staging, Adopting, Committing, Journaled, Finishing
<1>8. "r_install" \in Steps /\ "r_install" \notin PublishSteps
  BY DEF Steps, RecoverSteps, PublishSteps
<1> QED
  BY <1>1, <1>2, <1>3, <1>5, <1>6, <1>7, <1>8, PerformsKeeps

LEMMA InstallFinalCore ==
  ASSUME CoreInv, NEW c \in Callers, InstallFinal(c)
  PROVE  CoreInv'
<1>1. PICK r : r = call[c].run
  OBVIOUS
<1>2. /\ TypeOK /\ r \in Runs /\ store[r] \in RunFiles /\ stable[r] \in RunFiles
      /\ FilesOK(r) /\ CallOK(c) /\ call[c] \in Calls
  BY <1>1, Here
<1>3. PICK s : s = [store[r] EXCEPT !.fin = "installed"]
  OBVIOUS
<1>4. PICK pc : pc = IF call[c].pc = "install" THEN "final_file_installed" ELSE "r_observe"
  OBVIOUS
<1>5. /\ call[c].pc \in {"install", "r_install"} /\ bound' = bound
      /\ bound' \in [Runs -> Nat]
  BY <1>2 DEF InstallFinal, At, TypeOK
<1>6. /\ s \in RunFiles /\ s.cand = store[r].cand /\ s.fin = "installed"
      /\ s.manifest = store[r].manifest /\ s.lineage = store[r].lineage
      /\ s.epoch = store[r].epoch /\ s.journal = store[r].journal
      /\ s.status = store[r].status
  BY <1>2, <1>3 DEF RunFiles
<1>7. store[r].journal # "absent" /\ call[c].pc # "idle"
  BY <1>1, <1>2, <1>5 DEF CallOK, Adopting, Journaled
<1>8. CASE store[r].fin # "staged"
  BY <1>1, <1>5, <1>7, <1>8, RefusedKeeps DEF InstallFinal
<1>9. CASE store[r].fin = "staged"
  <2>1. Performs(c, s, RunDir \cup StagedDir, pc)
    BY <1>1, <1>3, <1>4, <1>9 DEF InstallFinal
  <2>2. /\ pc \in Steps
        /\ pc \in PublishSteps => call[c].pc \in PublishSteps
    BY <1>4, <1>5 DEF Steps, PublishSteps, RecoverSteps
  <2>3. ASSUME Wrote(r, s), reported' = reported PROVE FilesOK(r)'
    BY <1>2, <1>6, <1>7, <1>9, <2>3, WroteEntries DEF FilesOK, Done, InPlace, Material
  <2>4. ASSUME Wrote(r, s), Durable(r, RunDir \cup StagedDir), call'[c].pc = pc,
               call'[c].run = r
        PROVE  CallOK(c)'
    <3>1. store'[r] = s /\ stable'[r].fin = "installed"
      BY <1>6, <2>4, FieldNames DEF Wrote, Durable, RunDir
    <3> QED
      BY <1>4, <1>6, <1>7, <2>4, <3>1
         DEF CallOK, Preparing, Staging, Adopting, Committing, Journaled, Finishing
  <2> QED
    BY <1>1, <1>2, <1>5, <1>6, <1>7, <2>1, <2>2, <2>3, <2>4, PerformsKeeps
<1> QED
  BY <1>8, <1>9

\* What a commit installs of run r, up to member k, is backed and final.
LEMMA CommitWrites ==
  ASSUME CoreInv, NEW c \in Callers, call[c].pc \in Committing, NEW r, r = call[c].run,
         NEW k \in 0..3
  PROVE  LET s == WithInstalled(store[r], Prefix(k))
         IN  /\ s \in RunFiles /\ s.cand = store[r].cand /\ s.fin = "installed"
             /\ s.manifest = (IF k >= 1 THEN "installed" ELSE store[r].manifest)
             /\ s.lineage = (IF k >= 2 THEN "installed" ELSE store[r].lineage)
             /\ s.epoch = (IF k = 3 THEN "installed" ELSE store[r].epoch)
             /\ s.journal = store[r].journal /\ s.status = store[r].status
             /\ store[r].fin = "installed" /\ store[r].journal # "absent"
             /\ Material(store[r]) /\ Material(stable[r]) /\ Material(s)
<1>1. /\ TypeOK /\ r \in Runs /\ store[r] \in RunFiles /\ stable[r] \in RunFiles
      /\ FilesOK(r) /\ CallOK(c)
  BY Here
<1>2. store[r].fin = "installed" /\ store[r].journal # "absent"
  BY <1>1 DEF CallOK, Committing, Journaled
<1>3. Material(store[r]) /\ Material(stable[r])
  BY <1>1, <1>2 DEF FilesOK
<1>4. PICK s : s = WithInstalled(store[r], Prefix(k))
  OBVIOUS
<1>5. k \in {0, 1, 2, 3}
  OBVIOUS
<1>6. Prefix(k) \in SUBSET Members
  BY <1>5, PrefixMembers DEF Members
<1>7. /\ "manifest" \in Prefix(k) <=> k >= 1
      /\ "lineage" \in Prefix(k) <=> k >= 2
      /\ "epoch" \in Prefix(k) <=> k = 3
      /\ Prefix(k) \cap {"cand", "fin", "journal", "status"} = {}
  BY <1>5, PrefixMembers DEF Members
<1>8. /\ s \in RunFiles /\ s.cand = store[r].cand /\ s.fin = "installed"
      /\ s.manifest = (IF k >= 1 THEN "installed" ELSE store[r].manifest)
      /\ s.lineage = (IF k >= 2 THEN "installed" ELSE store[r].lineage)
      /\ s.epoch = (IF k = 3 THEN "installed" ELSE store[r].epoch)
      /\ s.journal = store[r].journal /\ s.status = store[r].status
  BY <1>1, <1>2, <1>4, <1>6, <1>7, MembersWritten, FieldNames
<1>9. Material(s)
  BY <1>3, <1>8 DEF Material
<1> QED
  BY <1>2, <1>3, <1>4, <1>8, <1>9

LEMMA CommitPreparedCompositeCore ==
  ASSUME CoreInv, NEW c \in Callers, CommitPreparedComposite(c)
  PROVE  CoreInv'
<1>1. PICK r : r = call[c].run
  OBVIOUS
<1>2. /\ TypeOK /\ r \in Runs /\ store[r] \in RunFiles /\ stable[r] \in RunFiles
      /\ FilesOK(r) /\ CallOK(c) /\ call[c] \in Calls
  BY <1>1, Here
<1>3. /\ call[c].pc \in Committing /\ call[c].pc # "idle" /\ bound' = bound
      /\ bound' \in [Runs -> Nat]
  BY <1>2 DEF CommitPreparedComposite, At, Committing, TypeOK
<1>4. CASE ~CanCommit(r)
  BY <1>1, <1>3, <1>4, RefusedKeeps DEF CommitPreparedComposite
<1>5. CASE CanCommit(r)
  <2>1. PICK s : s = WithInstalled(store[r], Members)
    OBVIOUS
  <2>2. PICK pc : pc = IF call[c].pc = "commit" THEN "manifest_committed"
                       ELSE "r_manifest_committed"
    OBVIOUS
  <2>3. Write(r, s, RunDir \cup StagedDir) /\ Goto(c, pc) /\ NoFault /\ Bystanders
    BY <1>1, <1>5, <2>1, <2>2 DEF CommitPreparedComposite
  <2>4. /\ s \in RunFiles /\ InPlace(s) /\ s.cand = store[r].cand
        /\ s.journal = store[r].journal /\ s.status = store[r].status
        /\ store[r].journal # "absent"
        /\ Material(store[r]) /\ Material(stable[r]) /\ Material(s)
    BY <1>1, <1>3, <2>1, CommitWrites, PrefixMembers DEF InPlace
  <2>5. Wrote(r, s) /\ Durable(r, RunDir \cup StagedDir)
    BY <1>2, <2>3, <2>4, WriteFacts
  <2>6. Done(r)'
    BY <2>4, <2>5, FieldNames DEF Wrote, Durable, RunDir, StagedDir, Done, InPlace
  <2>7. Material(stable[r])' /\ store'[r] = s
    BY <1>2, <2>4, <2>5, WroteEntries DEF Material, InPlace
  <2>8. FilesOK(r)'
    BY <2>4, <2>6, <2>7 DEF FilesOK, Done, InPlace
  <2>9. pc \in Steps /\ (pc \in PublishSteps => call[c].pc \in PublishSteps)
    BY <1>3, <2>2 DEF Steps, PublishSteps, RecoverSteps, Committing
  <2>10. Moved(c) /\ holder' = holder /\ call'[c].pc = pc /\ call'[c].run = r
    BY <1>1, <1>2, <2>3, <2>9, GotoFacts DEF Calls
  <2>11. CallOK(c)'
    BY <2>2, <2>4, <2>6, <2>7, <2>10
       DEF CallOK, Preparing, Staging, Adopting, Committing, Journaled, Finishing
  <2>12. Went(c) /\ Bounded /\ diag' \in SUBSET Runs /\ reported' = reported
    BY <1>2, <2>2, <2>3, <2>9, <2>10 DEF Went, Bounded, NoFault, Bystanders, TypeOK
  <2> QED
    BY <1>1, <1>2, <1>3, <2>4, <2>5, <2>8, <2>10, <2>11, <2>12, Assemble
<1> QED
  BY <1>4, <1>5

LEMMA CommitInterruptedCore ==
  ASSUME CoreInv, NEW c \in Callers, NEW k \in 1..3, CommitInterrupted(c, k)
  PROVE  CoreInv'
<1>1. PICK r : r = call[c].run
  OBVIOUS
<1>2. /\ TypeOK /\ r \in Runs /\ store[r] \in RunFiles /\ stable[r] \in RunFiles
      /\ FilesOK(r) /\ CallOK(c) /\ call[c] \in Calls
  BY <1>1, Here
<1>3. PICK s : s = WithInstalled(store[r], Prefix(k))
  OBVIOUS
<1>4. PICK F : F = SettledBefore(store[r], k)
  OBVIOUS
<1>5. /\ call[c].pc \in Committing /\ call[c].pc # "idle"
      /\ Write(r, s, F) /\ Reobserve(c) /\ Bystanders /\ bound' = bound
  BY <1>1, <1>3, <1>4 DEF CommitInterrupted, At, Committing
<1>6. /\ s \in RunFiles /\ s.fin = "installed" /\ s.cand = store[r].cand
      /\ s.manifest = "installed"
      /\ s.lineage = (IF k >= 2 THEN "installed" ELSE store[r].lineage)
      /\ s.epoch = (IF k = 3 THEN "installed" ELSE store[r].epoch)
      /\ s.journal = store[r].journal /\ s.status = store[r].status
      /\ store[r].fin = "installed" /\ store[r].journal # "absent"
      /\ Material(store[r]) /\ Material(stable[r]) /\ Material(s)
  BY <1>1, <1>3, <1>5, CommitWrites
<1>7. Wrote(r, s) /\ Durable(r, F)
  BY <1>2, <1>5, <1>6, WriteFacts
<1>8. store'[r] = s /\ Material(stable[r])' /\ (Done(r) => Done(r)')
  BY <1>2, <1>6, <1>7, WroteEntries DEF Material, Done, InPlace
<1>9. "installed" \in {s.epoch, stable'[r].epoch} =>
         /\ s.epoch = "installed" /\ s.lineage = "installed"
         /\ stable'[r].fin = "installed" /\ stable'[r].manifest = "installed"
         /\ stable'[r].lineage = "installed"
  <2>1. CASE k = 3
    <3>1. {"fin", "manifest", "lineage"} \subseteq F
      BY <1>4, <2>1 DEF SettledBefore, RunDir
    <3> QED
      BY <1>6, <1>7, <1>8, <2>1, <3>1, FieldNames DEF Durable
  <2>2. CASE k # 3
    <3>1. s.epoch = store[r].epoch
      BY <1>6, <2>2
    <3>2. "installed" \in {s.epoch, stable'[r].epoch} =>
            "installed" \in {store[r].epoch, stable[r].epoch}
      BY <1>2, <1>6, <1>7, <3>1, WroteEntries
    <3> QED
      BY <1>2, <1>6, <1>7, <3>1, <3>2, WroteEntries DEF FilesOK
  <2> QED
    BY <2>1, <2>2
<1>10. /\ stable'[r].fin \in {"installed", stable[r].fin}
       /\ stable'[r].journal \in {s.journal, stable[r].journal}
       /\ stable'[r].status \in {s.status, stable[r].status}
  BY <1>2, <1>6, <1>7, WroteEntries
<1>11. reported' = reported
  BY <1>5 DEF Bystanders
<1>12. FilesOK(r)'
  BY <1>2, <1>6, <1>8, <1>9, <1>10, <1>11 DEF FilesOK
<1>13. /\ Moved(c) /\ holder' = holder /\ call'[c].pc = "r_observe"
       /\ faults' \in 0..MaxFaults /\ losses' = losses
  BY <1>2, <1>5, ReobserveFacts
<1>14. CallOK(c)' /\ Went(c) /\ Bounded /\ diag' \in SUBSET Runs /\ bound' \in [Runs -> Nat]
  BY <1>2, <1>5, <1>13, FreeRelies DEF Went, Bounded, TypeOK, PublishSteps, Bystanders
<1> QED
  BY <1>1, <1>2, <1>5, <1>6, <1>7, <1>11, <1>12, <1>13, <1>14, Assemble

-----------------------------------------------------------------------------
(* What an observation tells about the files.                                 *)

LEMMA InstalledMembers ==
  ASSUME NEW s \in RunFiles
  PROVE  /\ Installed(s) = Members <=> /\ s.manifest = "installed" /\ s.lineage = "installed"
                                       /\ s.epoch = "installed"
         /\ Prepared(s) = {} <=> /\ s.manifest # "prepared" /\ s.lineage # "prepared"
                                 /\ s.epoch # "prepared"
         /\ Installed(s) = {} <=> /\ s.manifest # "installed" /\ s.lineage # "installed"
                                  /\ s.epoch # "installed"
BY DEF Installed, Prepared, Members

LEMMA CompleteFacts ==
  ASSUME TypeOK, NEW r \in Runs
  PROVE  Discovery(r) = "complete" <=> InPlace(store[r]) /\ ~EpochTaken(r)
<1>1. store[r] \in RunFiles
  BY DEF TypeOK
<1>2. ~EpochTaken(r) => (Present(r) = Members <=> Installed(store[r]) = Members)
  BY DEF Present
<1>3. Installed(store[r]) = Members => Prepared(store[r]) = {}
  BY <1>1, InstalledMembers
<1> QED
  BY <1>1, <1>2, <1>3, InstalledMembers DEF Discovery, InPlace

Classes == {"AMBIGUOUS", "P2", "P1", "P0_STAGED", "P0_NONE"}

LEMMA ClassFacts ==
  ASSUME TypeOK, NEW r \in Runs, NEW adoption \in Adoptions, FilesOK(r)
  PROVE  LET class == Class(r, adoption)
             s == store[r]
         IN  /\ class \in Classes
             /\ class = "P2" =>
                   Discovery(r) = "complete" /\ adoption # "neither" /\ InPlace(s)
             /\ class = "P1" => s.journal # "absent" /\ s.fin = "installed"
             /\ class = "P0_STAGED" => s.journal # "absent" /\ s.fin = "staged"
             /\ class = "P0_NONE" => s.fin = "none"
             /\ class = "P0_NONE" /\ s.journal = "absent" =>
                   /\ ~s.status /\ s.manifest = "none"
                   /\ s.lineage # "prepared" /\ s.epoch # "prepared"
<1> DEFINE s == store[r]
<1>1. s \in RunFiles /\ s.fin # "both"
  BY DEF TypeOK, FilesOK
<1>2. CASE Discovery(r) = "unsafe"
  BY <1>2 DEF Class, Classes
<1>3. CASE Discovery(r) = "complete" /\ adoption = "first"
  BY <1>3, CompleteFacts DEF Class, Classes
<1>4. CASE /\ Discovery(r) # "unsafe" /\ ~(Discovery(r) = "complete" /\ adoption = "first")
           /\ s.journal = "absent"
  <2>1. Class(r, adoption) = WithoutJournal(r)
    BY <1>4 DEF Class
  <2> QED
    BY <1>1, <1>4, <2>1, InstalledMembers DEF WithoutJournal, Classes, RunFiles
<1>5. CASE /\ Discovery(r) # "unsafe" /\ ~(Discovery(r) = "complete" /\ adoption = "first")
           /\ s.journal # "absent"
  <2>1. Class(r, adoption) = WithJournal(r, adoption)
    BY <1>5 DEF Class
  <2>2. CASE Present(r) = Members
    <3>1. WithJournal(r, adoption) =
            IF s.fin # "installed" \/ EpochTaken(r) THEN "AMBIGUOUS"
            ELSE IF adoption = "second" THEN "P2" ELSE Backed(r, "P1")
      BY <1>1, <2>2 DEF WithJournal
    <3>2. ~EpochTaken(r) /\ s.fin = "installed" => InPlace(s)
      BY <1>1, <2>2, InstalledMembers DEF Present, InPlace
    <3> QED
      BY <1>5, <2>1, <3>1, <3>2, CompleteFacts DEF Backed, Classes
  <2>3. CASE Present(r) \notin {{}, Members}
    <3>1. WithJournal(r, adoption) =
            IF s.fin = "installed" /\ PartialComposite(Present(r))
            THEN Backed(r, "P1") ELSE "AMBIGUOUS"
      BY <1>1, <2>3 DEF WithJournal
    <3> QED
      BY <1>5, <2>1, <3>1 DEF Backed, Classes
  <2>4. CASE Present(r) = {}
    <3>1. WithJournal(r, adoption) = ByFinal(r)
      BY <1>1, <2>4 DEF WithJournal, Members
    <3>2. s.fin \in {"none", "staged", "installed"}
      BY <1>1 DEF RunFiles
    <3> QED
      BY <1>5, <2>1, <3>1, <3>2 DEF ByFinal, Backed, Classes
  <2> QED
    BY <2>2, <2>3, <2>4
<1>6. Adoptions = {"first", "second", "neither"}
  BY DEF Adoptions
<1> QED
  BY <1>2, <1>3, <1>4, <1>5

\* What an observation writes, and what it reports as published.
LEMMA ObserveFacts ==
  ASSUME CoreInv, NEW c \in Callers, NEW r, r = call[c].run, NEW adoption \in Adoptions,
         AdoptionOf(r, adoption), AdoptionFault(r, adoption),
         reported' \in {reported, reported \cup {r}},
         reported' # reported => Class(r, adoption) = "P2"
  PROVE  /\ Wrote(r, store[r]) /\ FilesOK(r)' /\ Bounded
         /\ Class(r, adoption) = "P2" => Done(r)'
<1>1. TypeOK /\ r \in Runs /\ store[r] \in RunFiles /\ FilesOK(r)
  BY Here
<1>2. /\ Wrote(r, store[r])
      /\ Discovery(r) = "complete" /\ adoption # "neither" =>
            Durable(r, RunDir \cup StagedDir)
  BY <1>1, AdoptionFacts
<1>3. Bounded
  BY <1>1, PublicationAssumption DEF AdoptionFault, NoFault, Fault, Bounded, TypeOK
<1>4. ASSUME Class(r, adoption) = "P2" PROVE Done(r)'
  <2>1. Durable(r, RunDir \cup StagedDir) /\ InPlace(store[r])
    BY <1>1, <1>2, <1>4, ClassFacts
  <2> QED
    BY <1>2, <2>1, FieldNames DEF Durable, Wrote, RunDir, StagedDir, Done, InPlace
<1>5. FilesOK(r)'
  BY <1>1, <1>2, <1>4, SyncKeepsFiles
<1> QED
  BY <1>2, <1>3, <1>4, <1>5

LEMMA PublishObserveCore ==
  ASSUME CoreInv, NEW c \in Callers, NEW adoption \in Adoptions, PublishObserve(c, adoption)
  PROVE  CoreInv'
<1>1. PICK r : r = call[c].run
  OBVIOUS
<1>2. PICK class : class = Class(r, adoption)
  OBVIOUS
<1>3. /\ TypeOK /\ r \in Runs /\ store[r] \in RunFiles /\ FilesOK(r) /\ call[c] \in Calls
  BY <1>1, Here
<1>4. /\ call[c].pc = "observe"
      /\ AdoptionFault(r, adoption) /\ AdoptionOf(r, adoption)
      /\ bound' = bound /\ diag' = diag
  BY <1>1 DEF PublishObserve, At
<1>5. /\ bound' \in [Runs -> Nat] /\ diag' \in SUBSET Runs
  BY <1>3, <1>4 DEF TypeOK
<1>6. \/ Return(c, "panic") /\ reported' = reported
      \/ class = "P2" /\ Return(c, "p2") /\ reported' = reported \cup {r}
      \/ Return(c, "failed") /\ reported' = reported
      \/ Goto(c, "r_observe") /\ reported' = reported
      \/ /\ class = "P0_NONE" /\ Action(class, store[r].journal) = "resume"
         /\ Goto(c, "candidate") /\ reported' = reported
  BY <1>1, <1>2 DEF PublishObserve, Published, Told
<1>7. Wrote(r, store[r]) /\ FilesOK(r)' /\ Bounded
  BY <1>1, <1>2, <1>4, <1>6, ObserveFacts
<1>8. ASSUME NEW result \in Results, Return(c, result) PROVE CoreInv'
  <2>1. /\ Moved(c) /\ call'[c].pc = "idle"
        /\ holder' = IF holder = c THEN NoCaller ELSE holder
    BY <1>3, <1>8, ReturnFacts
  <2> QED
    BY <1>1, <1>3, <1>4, <1>5, <1>6, <1>7, <2>1, EndKeeps
<1>9. {"panic", "p2", "failed"} \subseteq Results
  BY DEF Results
<1>10. ASSUME NEW pc \in {"r_observe", "candidate"}, Goto(c, pc), CallOK(c)' PROVE CoreInv'
  <2>1. pc \in Steps /\ pc # "idle"
    BY DEF Steps, PublishSteps, RecoverSteps
  <2>2. Moved(c) /\ holder' = holder /\ call'[c].pc = pc
    BY <1>3, <1>10, <2>1, GotoFacts DEF Calls
  <2>3. Went(c)
    BY <1>4, <2>1, <2>2 DEF Went, PublishSteps
  <2> QED
    BY <1>1, <1>3, <1>4, <1>5, <1>6, <1>7, <1>10, <2>2, <2>3, Assemble
<1>11. CASE Goto(c, "r_observe")
  <2>1. call'[c].pc = "r_observe"
    BY <1>3, <1>11 DEF Goto, TypeOK, Calls
  <2> QED
    BY <1>10, <1>11, <2>1, FreeRelies
<1>12. CASE /\ class = "P0_NONE" /\ Action(class, store[r].journal) = "resume"
            /\ Goto(c, "candidate")
  <2>1. store[r].journal = "absent"
    BY <1>12 DEF Action
  <2>2. /\ ~store[r].status /\ store[r].manifest = "none" /\ store[r].fin = "none"
        /\ store[r].lineage # "prepared" /\ store[r].epoch # "prepared"
    BY <1>2, <1>3, <1>12, <2>1, ClassFacts
  <2>3. call'[c].pc = "candidate" /\ call'[c].run = r /\ store'[r] = store[r]
    BY <1>1, <1>3, <1>7, <1>12 DEF Goto, TypeOK, Calls, Wrote
  <2>4. CallOK(c)'
    BY <2>1, <2>2, <2>3
       DEF CallOK, Preparing, Staging, Adopting, Committing, Journaled, Finishing
  <2> QED
    BY <1>10, <1>12, <2>4
<1> QED
  BY <1>6, <1>8, <1>9, <1>11, <1>12

LEMMA PublishConfirmCore ==
  ASSUME CoreInv, NEW c \in Callers, NEW adoption \in Adoptions, PublishConfirm(c, adoption)
  PROVE  CoreInv'
<1>1. PICK r : r = call[c].run
  OBVIOUS
<1>2. TypeOK /\ r \in Runs /\ store[r] \in RunFiles
  BY <1>1, Here
<1>3. /\ call[c].pc = "confirm"
      /\ AdoptionFault(r, adoption) /\ AdoptionOf(r, adoption)
      /\ bound' = bound /\ diag' = diag
  BY <1>1 DEF PublishConfirm, At
<1>4. \E result \in {"panic", "p2", "failed"} :
         /\ Return(c, result)
         /\ reported' \in {reported, reported \cup {r}}
         /\ reported' # reported => Class(r, adoption) = "P2"
  BY <1>1 DEF PublishConfirm, Published, Told
<1>5. Wrote(r, store[r]) /\ FilesOK(r)' /\ Bounded
  BY <1>1, <1>3, <1>4, ObserveFacts
<1>6. /\ Moved(c) /\ call'[c].pc = "idle"
      /\ holder' = IF holder = c THEN NoCaller ELSE holder
  BY <1>2, <1>4, ReturnFacts DEF Results
<1>7. bound' \in [Runs -> Nat] /\ diag' \in SUBSET Runs
  BY <1>2, <1>3 DEF TypeOK
<1> QED
  BY <1>1, <1>2, <1>3, <1>4, <1>5, <1>6, <1>7, EndKeeps

\* The step Recover takes for each class.
LEMMA RecoverStepFacts ==
  ASSUME TypeOK, NEW r \in Runs, NEW class \in Classes,
         Action(class, store[r].journal) # "resume"
  PROVE  LET step == RecoverStep(r, class)
         IN  \/ step = "r_diagnose" /\ class = "AMBIGUOUS"
             \/ step = "r_commit" /\ class = "P1"
             \/ step = "r_adopt" /\ class = "P0_STAGED"
             \/ step = "r_stage" /\ class = "P0_NONE" /\ store[r].journal # "absent"
             \/ step = "r_completed" /\ class = "P2" /\ store[r].status
             \/ step = "r_status" /\ class = "P2" /\ ~store[r].status
BY DEF RecoverStep, Action, Classes

\* A turn of Recover that goes on to a step, with what it observed.
Turned(c, step, journal, status) ==
    call' = [call EXCEPT ![c].pc = step, ![c].tries = @ + 1,
                         ![c].clean = @ /\ faults' = faults,
                         ![c].journal = journal, ![c].status = status]

LEMMA TurnFacts ==
  ASSUME TypeOK, NEW c \in Callers, MayTry(c), NEW step \in RecoverSteps,
         NEW journal \in JournalStates \cup {"absent"}, NEW status \in BOOLEAN,
         Turned(c, step, journal, status)
  PROVE  /\ Moved(c) /\ call'[c].pc = step /\ call'[c].tries = call[c].tries + 1
         /\ call'[c].journal = journal
         /\ call'[c].clean => call[c].clean /\ faults' = faults
<1> DEFINE clean == call[c].clean /\ faults' = faults
           next == [pc |-> step, run |-> call[c].run, epoch |-> call[c].epoch,
                    tries |-> call[c].tries + 1, journal |-> journal,
                    status |-> status, clean |-> clean, result |-> call[c].result]
<1>1. call[c] \in Calls /\ call[c].tries + 1 \in 0..ActionLimit
  BY PublicationAssumption DEF TypeOK, Calls, MayTry
<1>2. clean \in BOOLEAN
  OBVIOUS
<1>3. call' = [call EXCEPT ![c] = next]
  BY <1>1 DEF TypeOK, Calls, Turned
<1> HIDE DEF clean
<1>4. next \in Calls /\ next.pc = step /\ next.run = call[c].run
      /\ next.tries = call[c].tries + 1 /\ next.journal = journal
      /\ next.result = call[c].result
  BY <1>1, <1>2 DEF Calls
<1>8. next.clean = clean
  OBVIOUS
<1> HIDE DEF next
<1>5. /\ call' \in [Callers -> Calls] /\ call'[c] = next
      /\ \A e \in Callers \ {c} : call'[e] = call[e]
  BY <1>3, <1>4 DEF TypeOK
<1>6. call'[c].clean = clean
  BY <1>5, <1>8
<1>7. call'[c].clean => call[c].clean /\ faults' = faults
  BY <1>6, Zenon DEF clean
<1> QED
  BY <1>4, <1>5, <1>7 DEF Moved

LEMMA RecoverObserveCore ==
  ASSUME CoreInv, NEW c \in Callers, NEW adoption \in Adoptions, RecoverObserve(c, adoption)
  PROVE  CoreInv'
<1>1. PICK r : r = call[c].run
  OBVIOUS
<1>2. PICK class : class = Class(r, adoption)
  OBVIOUS
<1>3. /\ TypeOK /\ r \in Runs /\ store[r] \in RunFiles /\ FilesOK(r) /\ call[c] \in Calls
  BY <1>1, Here
<1>4. /\ call[c].pc = "r_observe" /\ MayTry(c)
      /\ AdoptionFault(r, adoption) /\ AdoptionOf(r, adoption)
      /\ bound' = bound /\ diag' = diag
  BY <1>1 DEF RecoverObserve, At
<1>5. /\ bound' \in [Runs -> Nat] /\ diag' \in SUBSET Runs
  BY <1>3, <1>4 DEF TypeOK
<1>6. \/ \E result \in {"panic", "failed", "resume"} :
            Return(c, result) /\ reported' = reported
      \/ class = "P2" /\ Return(c, "p2") /\ reported' = reported \cup {r}
      \/ /\ Action(class, store[r].journal) # "resume"
         /\ Turned(c, RecoverStep(r, class), store[r].journal, store[r].status)
         /\ holder' = holder /\ reported' = reported
  BY <1>1, <1>2, Zenon DEF RecoverObserve, Told, Turned
<1>7. Wrote(r, store[r]) /\ FilesOK(r)' /\ Bounded /\ (class = "P2" => Done(r)')
  BY <1>1, <1>2, <1>4, <1>6, ObserveFacts
<1>8. ASSUME NEW result \in Results, Return(c, result) PROVE CoreInv'
  <2>1. /\ Moved(c) /\ call'[c].pc = "idle"
        /\ holder' = IF holder = c THEN NoCaller ELSE holder
    BY <1>3, <1>8, ReturnFacts
  <2> QED
    BY <1>1, <1>3, <1>4, <1>5, <1>6, <1>7, <2>1, EndKeeps
<1>9. {"panic", "p2", "failed", "resume"} \subseteq Results
  BY DEF Results
<1>10. CASE /\ Action(class, store[r].journal) # "resume"
            /\ Turned(c, RecoverStep(r, class), store[r].journal, store[r].status)
            /\ holder' = holder /\ reported' = reported
  <2>1. PICK step : step = RecoverStep(r, class)
    OBVIOUS
  <2>2. /\ class \in Classes
        /\ class = "P1" => store[r].journal # "absent" /\ store[r].fin = "installed"
        /\ class = "P0_STAGED" => store[r].journal # "absent" /\ store[r].fin = "staged"
        /\ class = "P0_NONE" => store[r].fin = "none"
    BY <1>2, <1>3, ClassFacts
  <2>3. \/ step = "r_diagnose"
        \/ step = "r_commit" /\ store[r].journal # "absent" /\ store[r].fin = "installed"
        \/ step = "r_adopt" /\ store[r].journal # "absent" /\ store[r].fin = "staged"
        \/ step = "r_stage" /\ store[r].journal # "absent" /\ store[r].fin = "none"
        \/ step \in {"r_completed", "r_status"} /\ Done(r)'
    BY <1>3, <1>7, <1>10, <2>1, <2>2, RecoverStepFacts
  <2>4. step \in RecoverSteps /\ step # "idle" /\ step \notin PublishSteps
    BY <2>3 DEF RecoverSteps, PublishSteps
  <2>5. Moved(c) /\ call'[c].pc = step /\ call'[c].run = r
    <3>1. store[r].journal \in JournalStates \cup {"absent"} /\ store[r].status \in BOOLEAN
      BY <1>3 DEF RunFiles
    <3>2. Moved(c) /\ call'[c].pc = step
      BY <1>3, <1>4, <1>10, <2>1, <2>4, <3>1, TurnFacts
    <3> QED
      BY <1>1, <3>2 DEF Moved
  <2>6. store'[r] = store[r]
    BY <1>7 DEF Wrote
  <2>7. CallOK(c)'
    BY <2>3, <2>5, <2>6
       DEF CallOK, Preparing, Staging, Adopting, Committing, Journaled, Finishing
  <2>8. Went(c)
    BY <1>10, <2>4, <2>5 DEF Went
  <2> QED
    BY <1>1, <1>3, <1>4, <1>5, <1>7, <1>10, <2>5, <2>7, <2>8, Assemble
<1> QED
  BY <1>6, <1>8, <1>9, <1>10

LEMMA WriteDiagnosticCore ==
  ASSUME CoreInv, NEW c \in Callers, NEW adoption \in Adoptions, WriteDiagnostic(c, adoption)
  PROVE  CoreInv'
<1>1. PICK r : r = call[c].run
  OBVIOUS
<1>2. TypeOK /\ r \in Runs /\ store[r] \in RunFiles /\ call[c] \in Calls
  BY <1>1, Here
<1>3. /\ call[c].pc = "r_diagnose"
      /\ AdoptionFault(r, adoption) /\ AdoptionOf(r, adoption)
      /\ bound' = bound /\ reported' = reported
  BY <1>1 DEF WriteDiagnostic, At
<1>4. \/ Return(c, "panic") /\ diag' = diag
      \/ Return(c, "corrupt") /\ diag' = diag \cup {r}
      \/ Goto(c, "r_observe") /\ diag' = diag
  BY <1>1 DEF WriteDiagnostic
<1>5. Wrote(r, store[r]) /\ FilesOK(r)' /\ Bounded
  BY <1>1, <1>3, ObserveFacts
<1>6. bound' \in [Runs -> Nat] /\ diag' \in SUBSET Runs
  BY <1>2, <1>3, <1>4 DEF TypeOK
<1>7. ASSUME NEW result \in Results, Return(c, result) PROVE CoreInv'
  <2>1. /\ Moved(c) /\ call'[c].pc = "idle"
        /\ holder' = IF holder = c THEN NoCaller ELSE holder
    BY <1>2, <1>7, ReturnFacts
  <2> QED
    BY <1>1, <1>2, <1>3, <1>5, <1>6, <2>1, EndKeeps
<1>8. CASE Goto(c, "r_observe")
  <2>1. "r_observe" \in Steps /\ "r_observe" \notin PublishSteps
    BY DEF Steps, PublishSteps, RecoverSteps
  <2>2. Moved(c) /\ holder' = holder /\ call'[c].pc = "r_observe"
    <3>1. /\ Moved(c) /\ holder' = holder
          /\ call'[c] = [call[c] EXCEPT !.pc = "r_observe"]
      BY <1>2, <1>8, <2>1, GotoFacts
    <3> QED
      BY <1>2, <3>1 DEF Calls
  <2>3. Went(c) /\ CallOK(c)'
    BY <2>1, <2>2, FreeRelies DEF Went
  <2> QED
    BY <1>1, <1>2, <1>3, <1>5, <1>6, <2>2, <2>3, Assemble
<1> QED
  BY <1>4, <1>7, <1>8 DEF Results

LEMMA RecoverLimitCore ==
  ASSUME CoreInv, NEW c \in Callers, RecoverLimit(c)
  PROVE  CoreInv'
<1>1. PICK r : r = call[c].run
  OBVIOUS
<1>2. TypeOK /\ r \in Runs /\ store[r] \in RunFiles /\ FilesOK(r)
  BY <1>1, Here
<1>3. /\ call[c].pc = "r_observe" /\ NoFault /\ Return(c, "limit") /\ NoWrite
      /\ bound' = bound /\ diag' = diag /\ reported' = reported
  BY DEF RecoverLimit, At
<1>4. Wrote(r, store[r])
  BY <1>2, <1>3, NoWriteFacts
<1>5. FilesOK(r)'
  BY <1>2, <1>3, <1>4, SyncKeepsFiles
<1>6. Bounded /\ bound' \in [Runs -> Nat] /\ diag' \in SUBSET Runs
  BY <1>2, <1>3 DEF TypeOK, Bounded, NoFault
<1>7. /\ Moved(c) /\ call'[c].pc = "idle"
      /\ holder' = IF holder = c THEN NoCaller ELSE holder
  BY <1>2, <1>3, ReturnFacts DEF Results
<1> QED
  BY <1>1, <1>2, <1>3, <1>4, <1>5, <1>6, <1>7, EndKeeps

\* A call that ended has its type.
LEMMA IdleType ==
  ASSUME NEW r \in Runs, NEW result \in Results, NEW clean \in BOOLEAN
  PROVE  /\ Idle(r, result, clean) \in Calls /\ Idle(r, result, clean).pc = "idle"
         /\ Idle(r, result, clean).run = r /\ Idle(r, result, clean).result = result
         /\ Idle(r, result, clean).clean = clean
         /\ Idle(r, result, clean).tries = 0
BY PublicationAssumption DEF Idle, Calls

LEMMA FailsFacts ==
  ASSUME TypeOK, NEW c \in Callers, Fails(c)
  PROVE  /\ Moved(c) /\ call'[c].pc = "idle" /\ ~call'[c].clean
         /\ holder' = (IF holder = c THEN NoCaller ELSE holder)
         /\ Bounded /\ losses' = losses /\ NoWrite
         /\ bound' = bound /\ diag' = diag /\ reported' = reported
<1>1. call[c] \in Calls /\ call[c].run \in Runs
  BY DEF TypeOK, Calls
<1>0. PICK unclean \in BOOLEAN : unclean = FALSE
  OBVIOUS
<1>2. PICK idle : idle = Idle(call[c].run, "failed", unclean)
  OBVIOUS
<1>3. /\ idle \in Calls /\ idle.pc = "idle" /\ idle.run = call[c].run
      /\ idle.clean = unclean
  BY <1>1, <1>2, IdleType DEF Results
<1>4. call' = [call EXCEPT ![c] = idle]
  BY <1>0, <1>2 DEF Fails
<1>5. /\ call' \in [Callers -> Calls] /\ call'[c] = idle
      /\ \A e \in Callers \ {c} : call'[e] = call[e]
  BY <1>3, <1>4 DEF TypeOK
<1>6. Moved(c) /\ call'[c].pc = "idle" /\ ~call'[c].clean
  BY <1>0, <1>3, <1>5 DEF Moved
<1>7. Bounded
  BY PublicationAssumption DEF Fails, Fault, Bounded, TypeOK
<1> QED
  BY <1>6, <1>7 DEF Fails

LEMMA FailsCore ==
  ASSUME CoreInv, NEW c \in Callers, Fails(c)
  PROVE  CoreInv'
<1>1. PICK r : r = call[c].run
  OBVIOUS
<1>2. TypeOK /\ r \in Runs /\ store[r] \in RunFiles /\ FilesOK(r)
  BY <1>1, Here
<1>3. /\ Moved(c) /\ call'[c].pc = "idle"
      /\ holder' = (IF holder = c THEN NoCaller ELSE holder)
      /\ Bounded /\ NoWrite
      /\ bound' = bound /\ diag' = diag /\ reported' = reported
      /\ call[c].pc # "idle"
  BY <1>2, FailsFacts DEF Fails
<1>4. Wrote(r, store[r])
  BY <1>2, <1>3, NoWriteFacts
<1>5. FilesOK(r)'
  BY <1>2, <1>3, <1>4, SyncKeepsFiles
<1>6. bound' \in [Runs -> Nat] /\ diag' \in SUBSET Runs
  BY <1>2, <1>3 DEF TypeOK
<1> QED
  BY <1>1, <1>2, <1>3, <1>4, <1>5, <1>6, EndKeeps

\* What starting a call does.
LEMMA StartFacts ==
  ASSUME TypeOK, NEW c \in Callers, NEW r \in Runs, StartPublish(c, r) \/ StartRecover(c, r)
  PROVE  /\ Quiet /\ call' \in [Callers -> Calls] /\ call'[c].run = r
         /\ \A e \in Callers \ {c} : call'[e] = call[e]
         /\ \/ call'[c].pc = "observe" /\ holder' = c /\ ~call'[c].clean
            \/ /\ call'[c].pc = "r_observe" /\ holder' = holder
               /\ call'[c].tries = 0 /\ (call'[c].clean => Recoverable(r))
         /\ NoWrite /\ NoFault /\ UNCHANGED <<bound, diag, reported>>
<1>1. CASE StartPublish(c, r)
  <2>0. PICK unclean \in BOOLEAN : unclean = FALSE
    OBVIOUS
  <2>1. PICK idle : idle = Idle(r, "none", unclean)
    OBVIOUS
  <2>2. idle \in Calls /\ idle.run = r /\ idle.clean = unclean
    BY <2>1, IdleType DEF Results
  <2>3. PICK begun : begun = [idle EXCEPT !.pc = "observe", !.epoch = NextEpoch]
    OBVIOUS
  <2>4. begun \in Calls /\ begun.pc = "observe" /\ begun.run = r /\ ~begun.clean
    BY <2>0, <2>2, <2>3, EpochIsNatural DEF Calls, PublishSteps
  <2>5. call' = [call EXCEPT ![c] = begun]
    BY <1>1, <2>0, <2>1, <2>3 DEF StartPublish
  <2>6. /\ call' \in [Callers -> Calls] /\ call'[c] = begun
        /\ \A e \in Callers \ {c} : call'[e] = call[e]
    BY <2>4, <2>5 DEF TypeOK
  <2> QED
    BY <1>1, <2>4, <2>6 DEF StartPublish
<1>2. CASE StartRecover(c, r)
  <2>1. PICK clean \in BOOLEAN : clean = Recoverable(r)
    BY DEF Recoverable
  <2>2. PICK idle : idle = Idle(r, "none", clean)
    OBVIOUS
  <2>3. idle \in Calls /\ idle.run = r /\ idle.clean = clean /\ idle.tries = 0
    BY <2>2, IdleType DEF Results
  <2>4. PICK begun : begun = [idle EXCEPT !.pc = "r_observe"]
    OBVIOUS
  <2>5. /\ begun \in Calls /\ begun.pc = "r_observe" /\ begun.run = r
        /\ begun.clean = clean /\ begun.tries = 0
    BY <2>3, <2>4 DEF Calls, RecoverSteps
  <2>6. call' = [call EXCEPT ![c] = begun]
    BY <1>2, <2>1, <2>2, <2>4 DEF StartRecover
  <2>7. /\ call' \in [Callers -> Calls] /\ call'[c] = begun
        /\ \A e \in Callers \ {c} : call'[e] = call[e]
    BY <2>5, <2>6 DEF TypeOK
  <2>8. call'[c].clean = clean
    BY <2>5, <2>7
  <2>9. call'[c].clean => Recoverable(r)
    BY <2>1, <2>8, Zenon
  <2> QED
    BY <1>2, <2>5, <2>7, <2>9 DEF StartRecover
<1> QED
  BY <1>1, <1>2

LEMMA StartCore ==
  ASSUME CoreInv, NEW c \in Callers, NEW r \in Runs, StartPublish(c, r) \/ StartRecover(c, r)
  PROVE  CoreInv'
<1>1. TypeOK /\ (\A q \in Runs : FilesOK(q))
  BY DEF CoreInv
<1>2. /\ Quiet /\ call' \in [Callers -> Calls]
      /\ \A e \in Callers \ {c} : call'[e] = call[e]
      /\ \/ call'[c].pc = "observe" /\ holder' = c
         \/ call'[c].pc = "r_observe" /\ holder' = holder
      /\ NoWrite /\ NoFault /\ UNCHANGED <<bound, diag, reported>>
  BY <1>1, StartFacts
<1>3. TypeOK'
  BY <1>1, <1>2 DEF TypeOK, NoWrite, NoFault
<1>4. \A e \in Callers \ {c} : call'[e].pc = "idle"
  BY <1>2 DEF Quiet
<1>5. Serial'
  BY <1>2, <1>4, PublicationAssumption DEF Serial, Quiet, PublishSteps
<1>6. \A q \in Runs : FilesOK(q)'
  BY <1>1, <1>2 DEF FilesOK, Done, NoWrite
<1>7. \A e \in Callers : CallOK(e)'
  BY <1>2, <1>4, FreeRelies
<1> QED
  BY <1>3, <1>5, <1>6, <1>7 DEF CoreInv

\* A record of files put together from two.
LEMMA MixedFiles ==
  ASSUME NEW s \in RunFiles, NEW d \in RunFiles, NEW L,
         NEW x, x = [f \in Fields |-> IF f \in L THEN d[f] ELSE s[f]]
  PROVE  /\ x \in RunFiles
         /\ x.cand \in {s.cand, d.cand} /\ x.fin \in {s.fin, d.fin}
         /\ x.manifest \in {s.manifest, d.manifest}
         /\ x.lineage \in {s.lineage, d.lineage} /\ x.epoch \in {s.epoch, d.epoch}
         /\ x.journal \in {s.journal, d.journal} /\ x.status \in {s.status, d.status}
<1>1. x = Synced(s, d, L)
  BY DEF Synced
<1>2. x \in RunFiles /\ \A f \in Fields : x[f] = IF f \in L THEN d[f] ELSE s[f]
  BY <1>1, SyncedFields
<1> QED
  BY <1>2, FieldNames

\* A power loss leaves of each entry what was visible or what was durable.
LEMMA PowerLossFacts ==
  ASSUME TypeOK, PowerLoss
  PROVE  /\ stable' = store' /\ store' \in [Runs -> RunFiles]
         /\ \A r \in Runs :
               LET x == store'[r]
                   s == store[r]
                   d == stable[r]
               IN  /\ x.cand \in {s.cand, d.cand} /\ x.fin \in {s.fin, d.fin}
                   /\ x.manifest \in {s.manifest, d.manifest}
                   /\ x.lineage \in {s.lineage, d.lineage}
                   /\ x.epoch \in {s.epoch, d.epoch}
                   /\ x.journal \in {s.journal, d.journal}
                   /\ x.status \in {s.status, d.status}
<1>1. PICK lost : store' = [r \in Runs |-> [f \in Fields |->
                     IF <<r, f>> \in lost THEN stable[r][f] ELSE store[r][f]]]
  BY DEF PowerLoss
<1>2. ASSUME NEW r \in Runs
      PROVE  /\ store'[r] \in RunFiles
             /\ store'[r].cand \in {store[r].cand, stable[r].cand}
             /\ store'[r].fin \in {store[r].fin, stable[r].fin}
             /\ store'[r].manifest \in {store[r].manifest, stable[r].manifest}
             /\ store'[r].lineage \in {store[r].lineage, stable[r].lineage}
             /\ store'[r].epoch \in {store[r].epoch, stable[r].epoch}
             /\ store'[r].journal \in {store[r].journal, stable[r].journal}
             /\ store'[r].status \in {store[r].status, stable[r].status}
  <2>1. PICK L : L = {f \in Fields : <<r, f>> \in lost}
    OBVIOUS
  <2>2. store'[r] = [f \in Fields |-> IF f \in L THEN stable[r][f] ELSE store[r][f]]
    <3>1. \A f \in Fields : <<r, f>> \in lost <=> f \in L
      BY <2>1
    <3>2. store'[r] = [f \in Fields |-> IF <<r, f>> \in lost THEN stable[r][f] ELSE store[r][f]]
      BY <1>1
    <3> QED
      BY <3>1, <3>2
  <2>3. store[r] \in RunFiles /\ stable[r] \in RunFiles
    BY DEF TypeOK
  <2> QED
    BY <2>2, <2>3, MixedFiles
<1>3. store' \in [Runs -> RunFiles]
  BY <1>1, <1>2
<1> QED
  BY <1>2, <1>3 DEF PowerLoss

LEMMA PowerLossCore ==
  ASSUME CoreInv, PowerLoss
  PROVE  CoreInv'
<1>1. TypeOK /\ (\A q \in Runs : FilesOK(q))
  BY DEF CoreInv
<1>2. PICK unclean \in BOOLEAN : unclean = FALSE
  OBVIOUS
<1>3. call' = [c \in Callers |-> Idle(call[c].run, "failed", unclean)]
  BY <1>2 DEF PowerLoss
<1>4. \A c \in Callers : call'[c] \in Calls /\ call'[c].pc = "idle"
  <2> TAKE c \in Callers
  <2>1. call[c].run \in Runs
    BY <1>1 DEF TypeOK, Calls
  <2> QED
    BY <1>3, <2>1, IdleType DEF Results
<1>5. call' \in [Callers -> Calls]
  BY <1>3, <1>4
<1>6. stable' = store' /\ store' \in [Runs -> RunFiles]
  BY <1>1, PowerLossFacts
<1>7. TypeOK'
  <2>1. losses' \in 0..MaxLosses
    BY <1>1, PublicationAssumption DEF PowerLoss, TypeOK
  <2> QED
    BY <1>1, <1>5, <1>6, <2>1 DEF PowerLoss, TypeOK
<1>8. Serial'
  BY <1>4, PublicationAssumption DEF Serial, PowerLoss, PublishSteps
<1>9. \A r \in Runs : FilesOK(r)'
  <2> TAKE r \in Runs
  <2>1. FilesOK(r) /\ store[r] \in RunFiles /\ stable[r] \in RunFiles
    BY <1>1 DEF TypeOK
  <2>2. PICK x : x = store'[r]
    OBVIOUS
  <2>3. /\ store'[r] = x /\ stable'[r] = x /\ reported' = reported
        /\ x.cand \in {store[r].cand, stable[r].cand}
        /\ x.fin \in {store[r].fin, stable[r].fin}
        /\ x.manifest \in {store[r].manifest, stable[r].manifest}
        /\ x.lineage \in {store[r].lineage, stable[r].lineage}
        /\ x.epoch \in {store[r].epoch, stable[r].epoch}
        /\ x.journal \in {store[r].journal, stable[r].journal}
        /\ x.status \in {store[r].status, stable[r].status}
    BY <1>1, <1>6, <2>2, PowerLossFacts DEF PowerLoss
  <2>4. Material(store[r]) /\ Material(stable[r]) => Material(x)
    BY <2>3 DEF Material
  <2>5. InPlace(store[r]) /\ InPlace(stable[r]) => InPlace(x)
    BY <2>3 DEF InPlace
  <2>6. x.status => store[r].status \/ stable[r].status
    BY <2>3, Zenon
  <2> QED
    BY <2>1, <2>3, <2>4, <2>5, <2>6 DEF FilesOK, Done
<1>10. \A c \in Callers : CallOK(c)'
  BY <1>4, FreeRelies
<1> QED
  BY <1>7, <1>8, <1>9, <1>10 DEF CoreInv

-----------------------------------------------------------------------------
(* Theorems about the core.                                                   *)

LEMMA CoreInit == Init => CoreInv
<1> SUFFICES ASSUME Init PROVE CoreInv
  OBVIOUS
<1>1. TypeOK /\ Serial
  BY SerialInit DEF SerialInv
<1>2. \A r \in Runs : FilesOK(r)
  BY DEF Init, FilesOK, NoFiles, Committed
<1>3. \A c \in Callers : CallOK(c)
  <2> TAKE c \in Callers
  <2>1. call[c].pc = "idle"
    BY DEF Init, Idle
  <2> QED
    BY <2>1, IdleRelies
<1> QED
  BY <1>1, <1>2, <1>3 DEF CoreInv

LEMMA CoreNext == CoreInv /\ [Next]_vars => CoreInv'
<1> SUFFICES ASSUME CoreInv, [Next]_vars PROVE CoreInv'
  OBVIOUS
<1>1. CASE PowerLoss
  BY <1>1, PowerLossCore
<1>2. ASSUME NEW c \in Callers, Start(c) PROVE CoreInv'
  BY <1>2, StartCore DEF Start
<1>3. ASSUME NEW c \in Callers, Step(c) PROVE CoreInv'
  <2>1. CASE Observe(c)
    BY <2>1, PublishObserveCore, PublishConfirmCore, RecoverObserveCore, WriteDiagnosticCore
       DEF Observe
  <2>2. CASE ~Observe(c)
    BY <1>3, <2>2, RecoverLimitCore, PersistCandidateCore, PrepareCompositeCore,
       PublishJournalCore, RecoverJournalCore, ReplaceStatusCore, StageFinalCore,
       AdoptStagedFinalCore, InstallFinalCore, CommitPreparedCompositeCore DEF Step
  <2> QED
    BY <2>1, <2>2
<1>4. ASSUME NEW c \in Callers, Interrupted(c) PROVE CoreInv'
  BY <1>4, PrepareInterruptedCore, CommitInterruptedCore, FailsCore DEF Interrupted
<1>5. CASE UNCHANGED vars
  BY <1>5 DEF CoreInv, TypeOK, Serial, FilesOK, Done, CallOK, vars
<1> QED
  BY <1>1, <1>2, <1>3, <1>4, <1>5 DEF Next

THEOREM CoreInvariant == Spec => []CoreInv
BY CoreInit, CoreNext, PTL DEF Spec

\* Every variable keeps its type, whatever runs, callers, limits and bounds.
THEOREM PublicationTypes == Spec => []TypeOK
<1>1. CoreInv => TypeOK
  BY DEF CoreInv
<1> QED
  BY <1>1, CoreInvariant, PTL

\* What was reported as published is in place on the visible and on the durable
\* disk, and no durable hint runs ahead of its effect: neither an error, a kill
\* nor a power loss undoes a publication (PublishNext, Recover).
THEOREM PublishedDurable == Spec => []PublishedIsDurable
<1>1. CoreInv => PublishedIsDurable
  <2> SUFFICES ASSUME CoreInv PROVE PublishedIsDurable
    OBVIOUS
  <2>1. ASSUME NEW s \in RunFiles PROVE InPlace(s) <=> P2Files(s)
    BY InstalledMembers DEF InPlace, P2Files
  <2>2. ASSUME NEW s \in RunFiles, Material(s)
        PROVE  s.cand /\ Installed(s) \cup Prepared(s) = Members
    <3>1. \A m \in Members : s[m] \in {"prepared", "installed"}
      BY <2>2 DEF Material, RunFiles, Members
    <3> QED
      BY <2>2, <3>1 DEF Material, Installed, Prepared
  <2>3. PublishedSurvives
    <3>1. \A r \in reported : r \in Runs /\ store[r] \in RunFiles /\ stable[r] \in RunFiles
      BY DEF CoreInv, TypeOK
    <3>2. \A r \in reported : InPlace(store[r]) /\ InPlace(stable[r])
      BY <3>1 DEF CoreInv, FilesOK, Done
    <3> QED
      BY <2>1, <3>1, <3>2 DEF PublishedSurvives
  <2>4. ASSUME NEW r \in Runs
        PROVE  LET s == stable[r]
               IN  /\ s.journal # "absent" =>
                         s.cand /\ Installed(s) \cup Prepared(s) = Members
                   /\ s.journal = "final_file_installed" => s.fin = "installed"
                   /\ s.journal \in {"manifest_committed", "completed"} => P2Files(s)
                   /\ s.status => P2Files(s)
    <3>1. FilesOK(r) /\ stable[r] \in RunFiles
      BY DEF CoreInv, TypeOK
    <3>2. stable[r].journal # "absent" => Material(stable[r])
      BY <3>1 DEF FilesOK
    <3>3. stable[r].journal \in {"manifest_committed", "completed"} \/ stable[r].status
             => InPlace(stable[r])
      BY <3>1 DEF FilesOK, Done, Committed
    <3>4. stable[r].journal = "final_file_installed" => stable[r].fin = "installed"
      BY <3>1 DEF FilesOK
    <3> QED
      BY <2>1, <2>2, <3>1, <3>2, <3>3, <3>4
  <2> QED
    BY <2>3, <2>4 DEF PublishedIsDurable, HintsTrailEffects
<1> QED
  BY <1>1, CoreInvariant, PTL

-----------------------------------------------------------------------------
(* Epoch numbers, and what an interrupted publication leaves.                 *)

\* What the store classifies a recoverable run as, without a power loss.
LEMMA RecoverableClass ==
  ASSUME TypeOK, NEW r \in Runs, FilesOK(r), Shape(store[r]), Recoverable(r),
         NEW adoption \in Adoptions
  PROVE  LET s == store[r]
         IN  /\ s.fin \in {"none", "staged", "installed"}
             /\ s.fin = "none" => Class(r, adoption) = "P0_NONE"
             /\ s.fin = "staged" => Class(r, adoption) = "P0_STAGED"
             /\ s.fin = "installed" /\ s.epoch # "installed" => Class(r, adoption) = "P1"
             /\ s.epoch = "installed" =>
                   /\ InPlace(s)
                   /\ Class(r, adoption) = IF adoption = "neither" THEN "P1" ELSE "P2"
<1> DEFINE s == store[r]
<1>1. /\ s \in RunFiles /\ s.fin \in {"none", "staged", "installed"}
      /\ s.journal # "absent" /\ ~EpochTaken(r) /\ Material(s)
  <2>1. s \in RunFiles
    BY DEF TypeOK
  <2> QED
    BY <2>1 DEF FilesOK, Recoverable, RunFiles
<1>2. Present(r) = Installed(s)
  BY <1>1 DEF Present
<1>3. HasMaterial(r)
  <2>1. \A m \in Members : s[m] \in {"prepared", "installed"}
    BY <1>1 DEF Material, RunFiles, Members
  <2>2. Installed(s) \cup Prepared(s) = Members
    BY <2>1 DEF Installed, Prepared
  <2> QED
    BY <1>1, <1>2, <2>2 DEF HasMaterial, PreparedComposite, Material
<1>4. \A class : Backed(r, class) = class
  BY <1>3 DEF Backed
<1>5. s.epoch = "installed" => InPlace(s)
  BY DEF Shape, InPlace
<1>6. InPlace(s) <=> Present(r) = Members /\ s.fin = "installed"
  BY <1>1, <1>2, InstalledMembers DEF InPlace
<1>7. Discovery(r) = IF InPlace(s) THEN "complete" ELSE "absent"
  <2>1. CASE InPlace(s)
    BY <1>1, <2>1, CompleteFacts
  <2>2. CASE ~InPlace(s)
    BY <1>6, <2>2 DEF Discovery, Shape
  <2> QED
    BY <2>1, <2>2
<1>8. ~(Discovery(r) = "complete" /\ adoption = "first") =>
         Class(r, adoption) = WithJournal(r, adoption)
  BY <1>1, <1>7 DEF Class
<1>9. CASE s.epoch = "installed"
  <2>1. WithJournal(r, adoption) = IF adoption = "second" THEN "P2" ELSE "P1"
    BY <1>1, <1>4, <1>5, <1>6, <1>9 DEF WithJournal
  <2>2. Discovery(r) = "complete"
    BY <1>5, <1>7, <1>9
  <2>3. CASE adoption = "first"
    BY <1>1, <1>5, <1>9, <2>2, <2>3 DEF Class, InPlace
  <2>4. CASE adoption # "first"
    BY <1>1, <1>5, <1>8, <1>9, <2>1, <2>4 DEF Adoptions, InPlace
  <2> QED
    BY <2>3, <2>4
<1>10. CASE s.epoch # "installed"
  <2>1. Class(r, adoption) = WithJournal(r, adoption)
    BY <1>7, <1>8, <1>10 DEF InPlace
  <2>2. Present(r) # Members
    BY <1>1, <1>2, <1>10, InstalledMembers
  <2>3. CASE Present(r) = {}
    <3>1. Class(r, adoption) = ByFinal(r)
      BY <1>1, <2>1, <2>2, <2>3 DEF WithJournal
    <3>2. s.fin = "none" => s.journal \in {"content_validated", "final_staged"}
      BY <1>1 DEF FilesOK, Done, InPlace, Committed, RunFiles, JournalStates
    <3> QED
      BY <1>1, <1>4, <1>10, <3>1, <3>2 DEF ByFinal
  <2>4. CASE Present(r) # {}
    <3>1. s.manifest = "installed"
      BY <1>1, <1>2, <1>10, <2>4, InstalledMembers DEF Shape
    <3>2. s.fin = "installed"
      BY <3>1 DEF Shape
    <3>3. Present(r) \in {Prefix(1), Prefix(2)}
      <4>1. CASE s.lineage = "installed"
        <5>1. Installed(s) = {"manifest", "lineage"}
          BY <1>10, <3>1, <4>1 DEF Installed, Members
        <5> QED
          BY <1>2, <5>1, PrefixMembers
      <4>2. CASE s.lineage # "installed"
        <5>1. Installed(s) = {"manifest"}
          BY <1>10, <3>1, <4>2 DEF Installed, Members
        <5> QED
          BY <1>2, <5>1, PrefixMembers
      <4> QED
        BY <4>1, <4>2
    <3>4. PartialComposite(Present(r)) /\ Present(r) \notin {{}, Members}
      BY <2>2, <2>4, <3>3 DEF PartialComposite
    <3>5. WithJournal(r, adoption) = Backed(r, "P1")
      BY <1>1, <2>2, <3>2, <3>4 DEF WithJournal
    <3> QED
      BY <1>1, <1>4, <1>10, <2>1, <3>2, <3>5
  <2> QED
    BY <2>3, <2>4
<1> QED
  BY <1>1, <1>9, <1>10

\* A step of c that treats its own run well: no epoch number is committed twice,
\* the shapes stay, and what was diagnosed stays condemned.
LEMMA AssembleMore ==
  ASSUME Inv, NEW c \in Callers, call[c].pc # "idle", Moved(c), losses' = losses,
         NEW r \in Runs, r = call[c].run, NEW s \in RunFiles, Wrote(r, s),
         diag' \in {diag, diag \cup {r}},
         \A q \in Runs \ {r} : bound'[q] = bound[q],
         bound'[r] # bound[r] =>
            /\ store[r].journal = "absent" /\ store[r].epoch # "installed"
            /\ s.epoch # "installed",
         store[r].epoch = "installed" => s.epoch = "installed",
         s.epoch = "installed" => store[r].epoch = "installed" \/ ~EpochTaken(r),
         store[r].journal # "absent" => s.journal # "absent",
         losses = 0 => Shape(s),
         losses = 0 /\ diag' # diag => Condemned(r),
         losses = 0 /\ r \in diag' /\ store[r].journal = "absent" => s = store[r],
         losses = 0 /\ call'[c].pc = "content_validated" => r \notin diag',
         losses = 0 /\ Timely => Progress(c)'
  PROVE  EpochsUnique' /\ Lossless' /\ (Timely => Timely')
<1>1. /\ store'[r] = s
      /\ \A q \in Runs \ {r} : store'[q] = store[q]
  BY DEF Wrote
<1>2. \A q \in Runs \ {r} : store'[q].epoch = "installed" <=> store[q].epoch = "installed"
  BY <1>1
<1>3. s.epoch = "installed" => bound'[r] = bound[r]
  OBVIOUS
<1>4. EpochsUnique'
  <2> SUFFICES ASSUME NEW q \in Runs, NEW t \in Runs, q # t,
                      store'[q].epoch = "installed", store'[t].epoch = "installed",
                      bound'[q] = bound'[t]
               PROVE  FALSE
    BY DEF EpochsUnique
  <2>1. EpochsUnique
    BY DEF Inv
  <2>2. CASE q # r /\ t # r
    BY <1>2, <2>1, <2>2 DEF EpochsUnique
  <2>3. CASE q = r
    <3>1. s.epoch = "installed" /\ bound[r] = bound[t] /\ store[t].epoch = "installed" /\ t # r
      BY <1>1, <1>2, <1>3, <2>3
    <3>2. store[r].epoch # "installed"
      BY <2>1, <3>1 DEF EpochsUnique
    <3> QED
      BY <3>1, <3>2 DEF EpochTaken
  <2>4. CASE t = r
    <3>1. s.epoch = "installed" /\ bound[r] = bound[q] /\ store[q].epoch = "installed" /\ q # r
      BY <1>1, <1>2, <1>3, <2>4
    <3>2. store[r].epoch # "installed"
      BY <2>1, <3>1 DEF EpochsUnique
    <3> QED
      BY <3>1, <3>2 DEF EpochTaken
  <2> QED
    BY <2>2, <2>3, <2>4
<1>5. ASSUME losses = 0 PROVE \A q \in Runs : Shape(store[q])'
  <2> TAKE q \in Runs
  <2>1. Shape(store[q])
    BY <1>5 DEF Inv, Lossless
  <2>2. CASE q = r
    BY <1>1, <1>5, <2>2
  <2>3. CASE q # r
    <3>1. store'[q] = store[q]
      BY <1>1, <2>3
    <3> QED
      BY <2>1, <3>1
  <2> QED
    BY <2>2, <2>3
<1>6. ASSUME losses = 0 PROVE \A q \in diag' : Condemned(q)'
  <2> TAKE q \in diag'
  <2>1. q \in Runs
    BY DEF Inv, CoreInv, TypeOK
  <2>2. Condemned(q)
    BY <1>6 DEF Inv, Lossless
  <2>3. CASE store[q].journal = "absent"
    <3>1. store'[q] = store[q]
      BY <1>1, <1>6, <2>1, <2>3
    <3> QED
      BY <2>2, <2>3, <3>1 DEF Condemned
  <2>4. CASE store[q].journal # "absent"
    <3>1. /\ EpochTaken(q) /\ store[q].epoch # "installed"
      BY <2>2, <2>4 DEF Condemned
    <3>2. bound'[q] = bound[q]
      BY <2>1, <2>4
    <3>3. PICK t \in Runs \ {q} : store[t].epoch = "installed" /\ bound[t] = bound[q]
      BY <3>1 DEF EpochTaken
    <3>4. store'[t].epoch = "installed" /\ bound'[t] = bound[t]
      BY <1>1, <1>2, <3>3
    <3>5. EpochTaken(q)'
      BY <3>2, <3>3, <3>4 DEF EpochTaken
    <3>6. store'[q].epoch # "installed" /\ store'[q].journal # "absent"
      BY <1>1, <1>2, <2>1, <2>4, <3>1
    <3> QED
      BY <3>5, <3>6 DEF Condemned
  <2> QED
    BY <2>3, <2>4
<1>7. \A e \in Callers \ {c} : call'[e].pc = "idle" /\ call[e].pc = "idle"
  BY DEF Inv, CoreInv, Serial, Moved
<1>8. Lossless'
  <2>1. ASSUME losses = 0, NEW e \in Callers, call'[e].pc = "content_validated"
        PROVE  call'[e].run \notin diag'
    <3>1. e = c
      BY <1>7, <2>1
    <3> QED
      BY <2>1, <3>1 DEF Moved
  <2> QED
    BY <1>5, <1>6, <2>1 DEF Lossless
<1>9. ASSUME Timely, losses = 0, NEW e \in Callers PROVE Progress(e)'
  <2>1. CASE e = c
    BY <1>9, <2>1
  <2>2. CASE e # c
    <3>1. Progress(e) /\ call[e].pc = "idle" /\ call'[e].pc = "idle"
      BY <1>7, <1>9, <2>2 DEF Timely
    <3>2. call'[e].result = call[e].result /\ (call'[e].clean => call[e].clean)
      BY <2>2 DEF Moved
    <3> QED
      BY <3>1, <3>2 DEF Progress
  <2> QED
    BY <2>1, <2>2
<1>10. Timely => Timely'
  BY <1>9 DEF Timely
<1> QED
  BY <1>4, <1>8, <1>10

\* The same for a step that writes nothing.
LEMMA UnwrittenMore ==
  ASSUME Inv, NEW c \in Callers, call[c].pc # "idle", Moved(c), losses' = losses,
         NEW r, r = call[c].run, Wrote(r, store[r]),
         diag' \in {diag, diag \cup {r}}, bound' = bound,
         losses = 0 /\ diag' # diag => Condemned(r),
         call'[c].pc # "content_validated",
         losses = 0 /\ Timely => Progress(c)'
  PROVE  EpochsUnique' /\ Lossless' /\ (Timely => Timely')
<1>1. r \in Runs /\ store[r] \in RunFiles
  BY Here DEF Inv
<1>2. losses = 0 => Shape(store[r])
  BY <1>1 DEF Inv, Lossless
<1> QED
  BY <1>1, <1>2, AssembleMore

\* A run stays recoverable while its own call writes.
LEMMA RecoverableKept ==
  ASSUME NEW r \in Runs, NEW s \in RunFiles, Wrote(r, s), bound' = bound,
         Recoverable(r), s.journal # "absent"
  PROVE  Recoverable(r)'
<1>1. ~EpochTaken(r)'
  BY DEF Recoverable, EpochTaken, Wrote
<1>2. store'[r].journal # "absent"
  BY DEF Wrote
<1> QED
  BY <1>1, <1>2 DEF Recoverable

\* How far the recovery of caller c is, given what it made of its files.
LEMMA AdvancedTo ==
  ASSUME NEW c \in Callers, NEW r \in Runs, r = call[c].run, Moved(c),
         NEW s \in RunFiles, Wrote(r, s), call'[c].pc # "idle",
         call'[c].clean => /\ Recoverable(r)'
                           /\ Advancing(call'[c].pc, call'[c].journal, call'[c].tries, s)
  PROVE  Progress(c)'
<1>1. store'[call'[c].run] = s /\ call'[c].run = r
  BY DEF Wrote, Moved
<1>2. CASE call'[c].clean
  <2>1. Advancing(call'[c].pc, call'[c].journal, call'[c].tries, store'[call'[c].run])
    BY <1>1, <1>2
  <2>2. Recoverable(call[c].run)'
    BY <1>1, <1>2 DEF Recoverable, EpochTaken
  <2>3. Advancing(call[c].pc, call[c].journal, call[c].tries, store[call[c].run])'
    BY <2>1 DEF Advancing, TurnsAfter, Turns
  <2> QED
    BY <2>2, <2>3 DEF Progress
<1>3. CASE ~call'[c].clean
  BY <1>3 DEF Progress
<1> QED
  BY <1>2, <1>3

\* A store operation of c.
LEMMA PerformsMore ==
  ASSUME Inv, NEW c \in Callers, call[c].pc # "idle", NEW r, r = call[c].run,
         NEW s \in RunFiles, NEW F, NEW pc \in Steps, Performs(c, s, F, pc),
         \A q \in Runs \ {r} : bound'[q] = bound[q],
         bound'[r] # bound[r] =>
            /\ store[r].journal = "absent" /\ store[r].epoch # "installed"
            /\ s.epoch # "installed",
         store[r].epoch = "installed" <=> s.epoch = "installed",
         store[r].journal # "absent" => s.journal # "absent",
         losses = 0 => Shape(s),
         losses = 0 /\ r \in diag /\ store[r].journal = "absent" => s = store[r],
         losses = 0 /\ pc = "content_validated" => r \notin diag,
         losses = 0 /\ Timely /\ call[c].clean =>
            /\ bound' = bound /\ s.journal # "absent"
            /\ Advancing(pc, call[c].journal, call[c].tries, s)
  PROVE  EpochsUnique' /\ Lossless' /\ (Timely => Timely')
<1>1. TypeOK /\ r \in Runs /\ call[c] \in Calls
  BY Here DEF Inv
<1>2. /\ Wrote(r, s) /\ Moved(c)
      /\ diag' = diag /\ losses' = losses
      /\ \/ call'[c] = [call[c] EXCEPT !.pc = pc]
         \/ call'[c].pc = "r_observe" /\ ~call'[c].clean
  BY <1>1, PerformsFacts
<1>3. pc # "idle"
  BY DEF Steps, PublishSteps, RecoverSteps
<1>4. CASE call'[c] = [call[c] EXCEPT !.pc = pc]
  <2>1. /\ call'[c].pc = pc /\ call'[c].journal = call[c].journal
        /\ call'[c].tries = call[c].tries
    BY <1>1, <1>4 DEF Calls
  <2>2. call'[c].clean => call[c].clean
    BY <1>1, <1>4 DEF Calls
  <2>3. ASSUME losses = 0, Timely PROVE Progress(c)'
    <3>1. call[c].clean => Recoverable(r)
      BY <2>3 DEF Timely, Progress
    <3>2. call'[c].clean => Recoverable(r)'
      BY <1>1, <1>2, <2>2, <2>3, <3>1, RecoverableKept
    <3>3. call'[c].clean => Advancing(call'[c].pc, call'[c].journal, call'[c].tries, s)
      BY <2>1, <2>2, <2>3
    <3> QED
      BY <1>1, <1>2, <1>3, <2>1, <3>2, <3>3, AdvancedTo
  <2> QED
    BY <1>1, <1>2, <2>1, <2>3, AssembleMore
<1>5. CASE call'[c].pc = "r_observe" /\ ~call'[c].clean
  <2>1. Progress(c)'
    BY <1>5 DEF Progress
  <2> QED
    BY <1>1, <1>2, <1>5, <2>1, AssembleMore
<1> QED
  BY <1>2, <1>4, <1>5

\* A step of c that wrote nothing and goes on to pc.
LEMMA TurnBackMore ==
  ASSUME Inv, NEW c \in Callers, call[c].pc # "idle", NEW r, r = call[c].run,
         NEW pc \in Steps, Goto(c, pc), Wrote(r, store[r]), losses' = losses,
         diag' = diag, bound' = bound, pc # "content_validated",
         losses = 0 /\ Timely /\ call[c].clean =>
            Advancing(pc, call[c].journal, call[c].tries, store[r])
  PROVE  EpochsUnique' /\ Lossless' /\ (Timely => Timely')
<1>1. TypeOK /\ r \in Runs /\ call[c] \in Calls /\ store[r] \in RunFiles
  BY Here DEF Inv
<1>2. Moved(c) /\ call'[c] = [call[c] EXCEPT !.pc = pc]
  BY <1>1, GotoFacts
<1>3. /\ call'[c].pc = pc /\ call'[c].journal = call[c].journal
      /\ call'[c].tries = call[c].tries
  BY <1>1, <1>2 DEF Calls
<1>4. call'[c].clean => call[c].clean
  BY <1>1, <1>2 DEF Calls
<1>5. pc # "idle"
  BY DEF Steps, PublishSteps, RecoverSteps
<1>6. ASSUME losses = 0, Timely PROVE Progress(c)'
  <2>1. call[c].clean => Recoverable(r) /\ store[r].journal # "absent"
    BY <1>6 DEF Timely, Progress, Recoverable
  <2>2. call'[c].clean => Recoverable(r)'
    BY <1>1, <1>4, <2>1, RecoverableKept
  <2> QED
    BY <1>1, <1>2, <1>3, <1>4, <1>5, <1>6, <2>2, AdvancedTo
<1> QED
  BY <1>1, <1>2, <1>3, <1>6, UnwrittenMore

\* A return of c that wrote nothing.
LEMMA ReturnMore ==
  ASSUME Inv, NEW c \in Callers, call[c].pc # "idle", NEW r, r = call[c].run,
         NEW result \in Results, Return(c, result), Wrote(r, store[r]), losses' = losses,
         diag' \in {diag, diag \cup {r}}, bound' = bound,
         losses = 0 /\ diag' # diag => Condemned(r),
         losses = 0 /\ Timely /\ call[c].clean /\ faults' = faults => result = "p2"
  PROVE  EpochsUnique' /\ Lossless' /\ (Timely => Timely')
<1>1. TypeOK
  BY DEF Inv, CoreInv
<1>2. /\ Moved(c) /\ call'[c].pc = "idle" /\ call'[c].result = result
      /\ call'[c].clean => call[c].clean /\ faults' = faults
  BY <1>1, ReturnFacts
<1>3. losses = 0 /\ Timely => Progress(c)'
  BY <1>2 DEF Progress
<1> QED
  BY <1>2, <1>3, UnwrittenMore

\* A refusal of c, which no untroubled recovery meets.
LEMMA RefusedMore ==
  ASSUME Inv, NEW c \in Callers, call[c].pc # "idle", Refused(c), bound' = bound,
         losses = 0 /\ Timely => ~call[c].clean
  PROVE  EpochsUnique' /\ Lossless' /\ (Timely => Timely')
<1>1. PICK r : r = call[c].run
  OBVIOUS
<1>2. TypeOK /\ r \in Runs
  BY <1>1, Here DEF Inv
<1>3. Return(c, "failed") /\ "failed" \in Results /\ NoFault /\ diag' = diag
  BY DEF Refused, Results, Bystanders
<1>4. Wrote(r, store[r]) /\ losses' = losses
  BY <1>1, <1>2, RefusedFacts
<1> QED
  BY <1>1, <1>3, <1>4, ReturnMore

\* What is known of the run of a call, with the shapes and the turns.
LEMMA HereMore ==
  ASSUME Inv, NEW c \in Callers, call[c].pc # "idle", NEW r, r = call[c].run
  PROVE  /\ losses = 0 => Shape(store[r])
         /\ losses = 0 /\ r \in diag => Condemned(r)
         /\ losses = 0 /\ Timely /\ call[c].clean =>
               /\ Recoverable(r) /\ store[r].journal # "absent"
               /\ Advancing(call[c].pc, call[c].journal, call[c].tries, store[r])
         /\ losses = 0 /\ Timely /\ call[c].pc \in PublishSteps => ~call[c].clean
<1>1. r \in Runs
  BY Here DEF Inv
<1>2. losses = 0 => Shape(store[r]) /\ (r \in diag => Condemned(r))
  BY <1>1 DEF Inv, Lossless
<1>3. losses = 0 /\ Timely /\ call[c].clean =>
        /\ Recoverable(r) /\ Advancing(call[c].pc, call[c].journal, call[c].tries, store[r])
  BY DEF Timely, Progress
<1>4. Advancing(call[c].pc, call[c].journal, call[c].tries, store[r]) =>
         call[c].pc \notin PublishSteps
  BY DEF Advancing, PublishSteps
<1>5. Recoverable(r) => store[r].journal # "absent"
  BY DEF Recoverable
<1> QED
  BY <1>2, <1>3, <1>4, <1>5

LEMMA TurnsFacts ==
  ASSUME NEW s \in RunFiles, s.fin # "both"
  PROVE  /\ Turns(s) \in 0..4
         /\ s.fin = "none" => Turns(s) = 4
         /\ s.fin = "staged" => Turns(s) = 3
         /\ s.fin = "installed" => Turns(s) <= 2
         /\ s.fin = "installed" /\ s.epoch # "installed" => Turns(s) = 2
         /\ s.fin = "installed" /\ s.epoch = "installed" => Turns(s) <= 1
         /\ s.fin = "installed" /\ s.epoch = "installed" /\ ~(s.status /\ s.journal = "completed")
               => Turns(s) = 1
         /\ s.fin = "installed" /\ s.epoch = "installed" /\ s.status /\ s.journal = "completed"
               => Turns(s) = 0
         /\ TurnsAfter("r_observe", s) = Turns(s)
         /\ \A pc \in {"r_stage", "r_final_staged"} : TurnsAfter(pc, s) = 3
         /\ \A pc \in Adopting : TurnsAfter(pc, s) = 2
         /\ \A pc \in {"r_commit", "r_manifest_committed"} : TurnsAfter(pc, s) = 1
         /\ \A pc \in {"r_status", "r_completed"} : TurnsAfter(pc, s) = 0
<1>1. s.fin \in {"none", "staged", "installed"}
  BY DEF RunFiles
<1>2. /\ Turns(s) \in 0..4
      /\ s.fin = "none" => Turns(s) = 4
      /\ s.fin = "staged" => Turns(s) = 3
      /\ s.fin = "installed" => Turns(s) <= 2
      /\ s.fin = "installed" /\ s.epoch # "installed" => Turns(s) = 2
      /\ s.fin = "installed" /\ s.epoch = "installed" => Turns(s) <= 1
  BY <1>1 DEF Turns
<1>3. s.fin = "installed" /\ s.epoch = "installed" /\ ~(s.status /\ s.journal = "completed")
         => Turns(s) = 1
  BY DEF Turns
<1>4. s.fin = "installed" /\ s.epoch = "installed" /\ s.status /\ s.journal = "completed"
         => Turns(s) = 0
  BY DEF Turns
<1>5. TurnsAfter("r_observe", s) = Turns(s)
  BY DEF TurnsAfter
<1>6. /\ \A pc \in {"r_stage", "r_final_staged"} : TurnsAfter(pc, s) = 3
      /\ \A pc \in Adopting : TurnsAfter(pc, s) = 2
      /\ \A pc \in {"r_commit", "r_manifest_committed"} : TurnsAfter(pc, s) = 1
      /\ \A pc \in {"r_status", "r_completed"} : TurnsAfter(pc, s) = 0
  BY DEF TurnsAfter, Adopting
<1> QED
  BY <1>2, <1>3, <1>4, <1>5, <1>6

LEMMA PersistCandidateMore ==
  ASSUME Inv, NEW c \in Callers, PersistCandidate(c)
  PROVE  EpochsUnique' /\ Lossless' /\ (Timely => Timely')
<1>1. PICK r : r = call[c].run
  OBVIOUS
<1>2. TypeOK /\ r \in Runs /\ store[r] \in RunFiles /\ CallOK(c)
  BY <1>1, Here DEF Inv
<1>3. PICK s : s = [store[r] EXCEPT !.cand = TRUE]
  OBVIOUS
<1>4. /\ call[c].pc = "candidate" /\ call[c].pc \in PublishSteps
      /\ Performs(c, s, CandidateDir, "prepare") /\ bound' = bound
  BY <1>1, <1>3 DEF PersistCandidate, At, PublishSteps
<1>5. /\ s \in RunFiles /\ s.fin = store[r].fin /\ s.manifest = store[r].manifest
      /\ s.lineage = store[r].lineage /\ s.epoch = store[r].epoch
      /\ s.journal = store[r].journal /\ s.status = store[r].status
  BY <1>2, <1>3 DEF RunFiles
<1>6. losses = 0 => Shape(s) /\ r \notin diag
  <2>1. losses = 0 => Shape(store[r]) /\ (r \in diag => Condemned(r))
    BY <1>1, <1>4, HereMore
  <2>2. /\ store[r].journal = "absent" /\ store[r].manifest = "none"
        /\ store[r].lineage # "prepared" /\ store[r].epoch # "prepared"
    BY <1>1, <1>2, <1>4 DEF CallOK, Preparing
  <2>3. ~Condemned(r)
    BY <2>2 DEF Condemned, Members
  <2>4. Shape(store[r]) => Shape(s)
    BY <1>5 DEF Shape
  <2> QED
    BY <2>1, <2>3, <2>4
<1>7. losses = 0 /\ Timely => ~call[c].clean
  BY <1>1, <1>4, HereMore
<1>8. "prepare" \in Steps
  BY DEF Steps, PublishSteps
<1> QED
  BY <1>1, <1>4, <1>5, <1>6, <1>7, <1>8, PerformsMore

\* Before the journal, without a power loss, a run is neither installed in part
\* nor diagnosed.
LEMMA PrepareBefore ==
  ASSUME Inv, NEW c \in Callers, call[c].pc = "prepare", NEW r, r = call[c].run
  PROVE  /\ store[r].journal = "absent" /\ store[r].epoch # "installed"
         /\ store[r].fin = "none" /\ ~store[r].status
         /\ losses = 0 => /\ r \notin diag /\ store[r].manifest # "installed"
                          /\ store[r].lineage # "installed"
<1>1. FilesOK(r) /\ CallOK(c)
  BY Here DEF Inv
<1>2. /\ store[r].journal = "absent" /\ store[r].manifest = "none" /\ store[r].fin = "none"
      /\ store[r].lineage # "prepared" /\ store[r].epoch # "prepared" /\ ~store[r].status
  BY <1>1 DEF CallOK, Preparing
<1>3. store[r].epoch # "installed"
  BY <1>1, <1>2 DEF FilesOK
<1>4. ~Condemned(r)
  BY <1>2 DEF Condemned, Members
<1>5. losses = 0 => Shape(store[r]) /\ (r \in diag => Condemned(r))
  BY HereMore
<1> QED
  BY <1>2, <1>3, <1>4, <1>5 DEF Shape

LEMMA PrepareCompositeMore ==
  ASSUME Inv, NEW c \in Callers, PrepareComposite(c)
  PROVE  EpochsUnique' /\ Lossless' /\ (Timely => Timely')
<1>1. PICK r : r = call[c].run
  OBVIOUS
<1>2. TypeOK /\ r \in Runs /\ store[r] \in RunFiles
  BY <1>1, Here DEF Inv
<1>3. PICK s : s = WithPrepared(store[r], Members)
  OBVIOUS
<1>4. /\ call[c].pc = "prepare" /\ call[c].pc \in PublishSteps
      /\ Performs(c, s, StagedDir, "content_validated")
      /\ \A q \in Runs \ {r} : bound'[q] = bound[q]
  BY <1>1, <1>2, <1>3 DEF PrepareComposite, At, PublishSteps, TypeOK
<1>5. /\ s \in RunFiles /\ s.fin = store[r].fin
      /\ s.manifest = "prepared" /\ s.lineage = "prepared" /\ s.epoch = "prepared"
      /\ s.journal = store[r].journal /\ s.status = store[r].status
  BY <1>2, <1>3, MembersWritten, FieldNames DEF Members
<1>6. /\ store[r].journal = "absent" /\ store[r].epoch # "installed"
      /\ store[r].fin = "none" /\ ~store[r].status
      /\ losses = 0 => r \notin diag
  BY <1>1, <1>4, PrepareBefore
<1>7. Shape(s)
  BY <1>5, <1>6 DEF Shape
<1>8. losses = 0 /\ Timely => ~call[c].clean
  BY <1>1, <1>4, HereMore
<1>9. "content_validated" \in Steps
  BY DEF Steps, PublishSteps
<1> QED
  BY <1>1, <1>4, <1>5, <1>6, <1>7, <1>8, <1>9, PerformsMore

LEMMA PrepareInterruptedMore ==
  ASSUME Inv, NEW c \in Callers, NEW k \in 1..2, PrepareInterrupted(c, k)
  PROVE  EpochsUnique' /\ Lossless' /\ (Timely => Timely')
<1>1. PICK r : r = call[c].run
  OBVIOUS
<1>2. TypeOK /\ r \in Runs /\ store[r] \in RunFiles
  BY <1>1, Here DEF Inv
<1>3. PICK s : s = WithPrepared(store[r], Prefix(k))
  OBVIOUS
<1>4. /\ call[c].pc = "prepare" /\ call[c].pc \in PublishSteps
      /\ losses' = losses /\ Write(r, s, StagedDir) /\ Return(c, "failed") /\ diag' = diag
      /\ \A q \in Runs \ {r} : bound'[q] = bound[q]
  BY <1>1, <1>2, <1>3 DEF PrepareInterrupted, At, PublishSteps, TypeOK, Bystanders
<1>5. Prefix(k) \in SUBSET Members /\ "epoch" \notin Prefix(k)
  BY PrefixMembers DEF Members
<1>6. /\ s \in RunFiles /\ s.fin = store[r].fin
      /\ s.manifest \in {"prepared", store[r].manifest}
      /\ s.lineage \in {"prepared", store[r].lineage}
      /\ s.epoch = store[r].epoch
      /\ s.journal = store[r].journal /\ s.status = store[r].status
  BY <1>2, <1>3, <1>5, MembersWritten, FieldNames DEF Members
<1>7. /\ store[r].journal = "absent" /\ store[r].epoch # "installed"
      /\ store[r].fin = "none" /\ ~store[r].status
      /\ losses = 0 => /\ r \notin diag /\ store[r].manifest # "installed"
                       /\ store[r].lineage # "installed"
  BY <1>1, <1>4, PrepareBefore
<1>8. losses = 0 => Shape(s)
  BY <1>6, <1>7 DEF Shape
<1>9. losses = 0 /\ Timely => ~call[c].clean
  BY <1>1, <1>4, HereMore
<1>10. call'[c].pc = "idle" /\ (call'[c].clean => call[c].clean)
  BY <1>2, <1>4, ReturnFacts DEF Results
<1>11. losses = 0 /\ Timely => Progress(c)'
  BY <1>9, <1>10 DEF Progress
<1>12. Moved(c) /\ call'[c].pc # "content_validated" /\ Wrote(r, s)
  <2>1. Moved(c) /\ call'[c].pc = "idle"
    BY <1>2, <1>4, ReturnFacts DEF Results
  <2> QED
    BY <1>2, <1>4, <1>6, <2>1, WriteFacts
<1> QED
  BY <1>1, <1>2, <1>4, <1>6, <1>7, <1>8, <1>11, <1>12, AssembleMore

\* A journal hint of c.
LEMMA JournalMore ==
  ASSUME Inv, NEW c \in Callers, call[c].pc # "idle", NEW r, r = call[c].run,
         NEW expected, NEW state \in JournalStates, NEW pc \in Steps,
         ReplaceJournal(c, expected, state, pc), pc # "content_validated",
         losses = 0 /\ r \in diag => store[r].journal # "absent",
         losses = 0 /\ Timely /\ call[c].clean =>
            /\ store[r].journal = expected /\ pc = "r_observe"
            /\ \A s \in RunFiles :
                  /\ s.fin = store[r].fin /\ s.epoch = store[r].epoch
                  /\ s.status = store[r].status /\ s.journal = state
                  => call[c].tries + Turns(s) < ActionLimit
  PROVE  EpochsUnique' /\ Lossless' /\ (Timely => Timely')
<1>1. TypeOK /\ r \in Runs /\ store[r] \in RunFiles
  BY Here DEF Inv
<1>2. PICK s : s = [store[r] EXCEPT !.journal = state]
  OBVIOUS
<1>3. /\ s \in RunFiles /\ s.cand = store[r].cand /\ s.fin = store[r].fin
      /\ s.manifest = store[r].manifest /\ s.lineage = store[r].lineage
      /\ s.epoch = store[r].epoch /\ s.journal = state /\ s.status = store[r].status
  BY <1>1, <1>2 DEF RunFiles
<1>4. s.journal # "absent" /\ bound' = bound
  BY <1>3 DEF JournalStates, ReplaceJournal
<1>5. losses = 0 => Shape(s)
  <2>1. losses = 0 => Shape(store[r])
    BY HereMore
  <2>2. Shape(store[r]) => Shape(s)
    BY <1>3, <1>4 DEF Shape
  <2> QED
    BY <2>1, <2>2
<1>6. CASE store[r].journal = expected
  <2>1. Performs(c, s, JournalDir, pc)
    BY <1>2, <1>6 DEF ReplaceJournal
  <2>2. losses = 0 /\ Timely /\ call[c].clean =>
           Advancing(pc, call[c].journal, call[c].tries, s)
    <3>1. TurnsAfter("r_observe", s) = Turns(s)
      BY DEF TurnsAfter
    <3> QED
      BY <1>3, <3>1 DEF Advancing
  <2> QED
    BY <1>3, <1>4, <1>5, <2>1, <2>2, PerformsMore
<1>7. CASE store[r].journal # expected
  <2>1. Goto(c, "r_observe") /\ NoWrite /\ NoFault /\ Bystanders /\ "r_observe" \in Steps
    BY <1>7 DEF ReplaceJournal, Steps, RecoverSteps
  <2>2. Wrote(r, store[r]) /\ losses' = losses /\ diag' = diag
    BY <1>1, <2>1, NoWriteFacts DEF NoFault, Bystanders
  <2> QED
    BY <1>4, <1>7, <2>1, <2>2, TurnBackMore
<1> QED
  BY <1>6, <1>7

LEMMA PublishJournalMore ==
  ASSUME Inv, NEW c \in Callers, PublishJournal(c)
  PROVE  EpochsUnique' /\ Lossless' /\ (Timely => Timely')
<1>1. PICK r : r = call[c].run
  OBVIOUS
<1>2. TypeOK /\ r \in Runs /\ store[r] \in RunFiles /\ FilesOK(r) /\ CallOK(c)
  BY <1>1, Here DEF Inv
<1>3. /\ {"stage", "install", "commit", "status", "confirm"} \subseteq Steps \ {"content_validated"}
      /\ {"content_validated", "final_staged", "final_file_installed",
          "manifest_committed", "completed"} \subseteq PublishSteps \cap JournalStates
      /\ "idle" \notin PublishSteps
  BY DEF Steps, PublishSteps, JournalStates
<1>4. call[c].pc \in PublishSteps
  BY <1>3 DEF PublishJournal, At
<1>5. losses = 0 /\ Timely => ~call[c].clean
  BY <1>1, <1>3, <1>4, HereMore
<1>6. losses = 0 => Shape(store[r])
  BY <1>1, <1>3, <1>4, HereMore
<1>7. call[c].pc = "content_validated" => (losses = 0 => r \notin diag)
  BY <1>1 DEF Inv, Lossless
<1>8. call[c].pc # "content_validated" => (losses = 0 => store[r].journal # "absent")
  <2>1. CASE call[c].pc \in {"final_staged", "final_file_installed"}
    BY <1>1, <1>2, <2>1 DEF CallOK, Journaled
  <2>2. CASE call[c].pc \in {"manifest_committed", "completed"}
    BY <1>1, <1>2, <1>6, <2>2 DEF CallOK, Finishing, Done, InPlace, Shape
  <2> QED
    BY <2>1, <2>2 DEF PublishJournal, At
<1>9. \/ \E expected, state \in JournalStates, pc \in Steps \ {"content_validated"} :
            ReplaceJournal(c, expected, state, pc)
      \/ \E state \in JournalStates, pc \in Steps \ {"content_validated"} :
            ReplaceJournal(c, "absent", state, pc)
  BY <1>3 DEF PublishJournal
<1>10. losses = 0 /\ r \in diag => store[r].journal # "absent"
  BY <1>7, <1>8
<1> QED
  BY <1>1, <1>3, <1>4, <1>5, <1>9, <1>10, JournalMore

LEMMA RecoverJournalMore ==
  ASSUME Inv, NEW c \in Callers, RecoverJournal(c)
  PROVE  EpochsUnique' /\ Lossless' /\ (Timely => Timely')
<1>1. PICK r : r = call[c].run
  OBVIOUS
<1>2. /\ TypeOK /\ r \in Runs /\ store[r] \in RunFiles /\ FilesOK(r) /\ CallOK(c)
      /\ call[c] \in Calls
  BY <1>1, Here DEF Inv
<1>3. /\ "r_observe" \in Steps /\ "r_observe" # "content_validated"
      /\ {"final_staged", "manifest_committed", "completed"} \subseteq JournalStates
      /\ call[c].pc \in {"r_final_staged", "r_manifest_committed", "r_completed"}
      /\ call[c].pc # "idle" /\ call[c].tries \in Nat /\ ActionLimit \in Nat
  BY <1>2, PublicationAssumption DEF Steps, RecoverSteps, JournalStates, RecoverJournal, At, Calls
<1>4. losses = 0 => Shape(store[r])
  BY <1>1, <1>3, HereMore
<1>5. losses = 0 => store[r].journal # "absent"
  <2>1. CASE call[c].pc = "r_final_staged"
    BY <1>1, <1>2, <2>1 DEF CallOK, Journaled
  <2>2. CASE call[c].pc \in {"r_manifest_committed", "r_completed"}
    BY <1>1, <1>2, <1>4, <2>2 DEF CallOK, Finishing, Done, InPlace, Shape
  <2> QED
    BY <1>3, <2>1, <2>2
<1>6. losses = 0 /\ Timely /\ call[c].clean =>
         /\ store[r].journal = call[c].journal
         /\ call[c].pc = "r_final_staged" => store[r].fin = "staged"
         /\ call[c].pc = "r_completed" => store[r].status
         /\ call[c].tries + TurnsAfter(call[c].pc, store[r]) < ActionLimit
  <2>1. losses = 0 /\ Timely /\ call[c].clean =>
           Advancing(call[c].pc, call[c].journal, call[c].tries, store[r])
    BY <1>1, <1>3, HereMore
  <2>2. call[c].pc # "r_observe"
    BY <1>3
  <2> QED
    BY <2>1, <2>2 DEF Advancing
<1>7. CASE /\ call[c].pc = "r_final_staged"
           /\ ReplaceJournal(c, call[c].journal, "final_staged", "r_observe")
  <2>1. ASSUME losses = 0, Timely, call[c].clean, NEW s \in RunFiles, s.fin = store[r].fin
        PROVE  call[c].tries + Turns(s) < ActionLimit
    <3>1. s.fin = "staged" /\ call[c].tries + 3 < ActionLimit
      BY <1>6, <1>7, <2>1 DEF TurnsAfter
    <3> QED
      BY <3>1, TurnsFacts
  <2> QED
    BY <1>1, <1>3, <1>5, <1>6, <1>7, <2>1, JournalMore
<1>8. CASE /\ call[c].pc = "r_manifest_committed"
           /\ ReplaceJournal(c, call[c].journal, "manifest_committed", "r_observe")
  <2>1. ASSUME losses = 0, Timely, call[c].clean, NEW s \in RunFiles, s.fin = store[r].fin,
               s.epoch = store[r].epoch
        PROVE  call[c].tries + Turns(s) < ActionLimit
    <3>1. s.fin = "installed" /\ s.epoch = "installed"
      BY <1>1, <1>2, <1>8, <2>1 DEF CallOK, Finishing, Done, InPlace
    <3>2. call[c].tries + 1 < ActionLimit
      BY <1>6, <1>8, <2>1 DEF TurnsAfter, Adopting
    <3> QED
      BY <1>3, <3>1, <3>2, TurnsFacts
  <2> QED
    BY <1>1, <1>3, <1>5, <1>6, <1>8, <2>1, JournalMore
<1>9. ASSUME call[c].pc = "r_completed", losses = 0, Timely, call[c].clean,
             NEW s \in RunFiles, s.fin = store[r].fin, s.epoch = store[r].epoch,
             s.status = store[r].status, s.journal = "completed"
      PROVE  call[c].tries + Turns(s) < ActionLimit
  <2>1. s.fin = "installed" /\ s.epoch = "installed"
    BY <1>1, <1>2, <1>9 DEF CallOK, Finishing, Done, InPlace
  <2>2. call[c].tries + 0 < ActionLimit
    BY <1>6, <1>9 DEF TurnsAfter, Adopting
  <2>3. s.status
    <3>1. store[r].status
      BY <1>6, <1>9
    <3> QED
      BY <1>9, <3>1, Zenon
  <2>4. Turns(s) = 0
    BY <1>9, <2>1, <2>3 DEF Turns
  <2> QED
    BY <1>3, <2>2, <2>4
<1>10. CASE /\ call[c].pc = "r_completed"
            /\ ReplaceJournal(c, call[c].journal, "completed", "r_observe")
  BY <1>1, <1>3, <1>5, <1>6, <1>9, <1>10, JournalMore
<1>11. CASE /\ call[c].pc = "r_completed" /\ call[c].journal = "completed"
            /\ Goto(c, "r_observe") /\ NoWrite /\ NoFault /\ Bystanders /\ UNCHANGED bound
  <2>1. Wrote(r, store[r]) /\ losses' = losses /\ diag' = diag
    BY <1>2, <1>11, NoWriteFacts DEF NoFault, Bystanders
  <2>2. losses = 0 /\ Timely /\ call[c].clean =>
          Advancing("r_observe", call[c].journal, call[c].tries, store[r])
    <3>1. losses = 0 /\ Timely /\ call[c].clean => call[c].tries + Turns(store[r]) < ActionLimit
      BY <1>2, <1>6, <1>9, <1>11
    <3>2. TurnsAfter("r_observe", store[r]) = Turns(store[r])
      BY DEF TurnsAfter
    <3> QED
      BY <3>1, <3>2 DEF Advancing
  <2> QED
    BY <1>1, <1>3, <1>11, <2>1, <2>2, TurnBackMore
<1> QED
  BY <1>7, <1>8, <1>10, <1>11 DEF RecoverJournal, At

LEMMA ReplaceStatusMore ==
  ASSUME Inv, NEW c \in Callers, ReplaceStatus(c)
  PROVE  EpochsUnique' /\ Lossless' /\ (Timely => Timely')
<1>1. PICK r : r = call[c].run
  OBVIOUS
<1>2. /\ TypeOK /\ r \in Runs /\ store[r] \in RunFiles /\ CallOK(c)
      /\ call[c] \in Calls
  BY <1>1, Here DEF Inv
<1>3. PICK s : s = [store[r] EXCEPT !.status = TRUE]
  OBVIOUS
<1>4. PICK pc : pc = IF call[c].pc = "status" THEN "completed" ELSE "r_completed"
  OBVIOUS
<1>5. /\ call[c].pc \in {"status", "r_status"} /\ call[c].pc # "idle" /\ bound' = bound
      /\ pc \in Steps \ {"content_validated"} /\ "r_observe" \in Steps
  BY <1>4 DEF ReplaceStatus, At, Steps, PublishSteps, RecoverSteps
<1>6. /\ s \in RunFiles /\ s.fin = store[r].fin /\ s.manifest = store[r].manifest
      /\ s.lineage = store[r].lineage /\ s.epoch = store[r].epoch
      /\ s.journal = store[r].journal /\ s.status
  BY <1>2, <1>3 DEF RunFiles
<1>7. losses = 0 => Shape(store[r]) /\ store[r].journal # "absent" /\ Shape(s)
  <2>1. losses = 0 => Shape(store[r])
    BY <1>1, <1>5, HereMore
  <2>2. InPlace(store[r])
    BY <1>1, <1>2, <1>5 DEF CallOK, Finishing, Done
  <2>3. Shape(store[r]) => store[r].journal # "absent"
    BY <2>2 DEF Shape, InPlace
  <2>4. Shape(store[r]) /\ store[r].journal # "absent" => Shape(s)
    BY <1>6 DEF Shape
  <2> QED
    BY <2>1, <2>3, <2>4
<1>8. losses = 0 /\ Timely /\ call[c].clean =>
         /\ call[c].pc = "r_status" /\ ~store[r].status
         /\ call[c].journal = store[r].journal /\ store[r].journal # "absent"
         /\ call[c].tries + 0 < ActionLimit
  <2>1. losses = 0 /\ Timely /\ call[c].clean =>
           Advancing(call[c].pc, call[c].journal, call[c].tries, store[r])
    BY <1>1, <1>5, HereMore
  <2>2. losses = 0 /\ Timely /\ call[c].clean => call[c].pc \notin PublishSteps
    BY <1>1, <1>5, HereMore
  <2>3. "status" \in PublishSteps
    BY DEF PublishSteps
  <2> QED
    BY <1>5, <1>7, <2>1, <2>2, <2>3 DEF Advancing, TurnsAfter, Adopting
<1>9. CASE store[r].status
  <2>1. Goto(c, "r_observe") /\ NoWrite /\ NoFault /\ Bystanders
    BY <1>1, <1>9 DEF ReplaceStatus
  <2>2. Wrote(r, store[r]) /\ losses' = losses /\ diag' = diag
    BY <1>2, <2>1, NoWriteFacts DEF NoFault, Bystanders
  <2> QED
    BY <1>1, <1>5, <1>8, <1>9, <2>1, <2>2, TurnBackMore
<1>10. CASE ~store[r].status
  <2>1. Performs(c, s, RunDir, pc)
    BY <1>1, <1>3, <1>4, <1>10 DEF ReplaceStatus
  <2>2. losses = 0 /\ Timely /\ call[c].clean =>
           Advancing(pc, call[c].journal, call[c].tries, s)
    BY <1>4, <1>6, <1>8 DEF Advancing, TurnsAfter, Adopting
  <2> QED
    BY <1>1, <1>2, <1>5, <1>6, <1>7, <1>8, <2>1, <2>2, PerformsMore
<1> QED
  BY <1>9, <1>10

LEMMA StageFinalMore ==
  ASSUME Inv, NEW c \in Callers, StageFinal(c)
  PROVE  EpochsUnique' /\ Lossless' /\ (Timely => Timely')
<1>1. PICK r : r = call[c].run
  OBVIOUS
<1>2. /\ TypeOK /\ r \in Runs /\ store[r] \in RunFiles /\ CallOK(c)
      /\ call[c] \in Calls
  BY <1>1, Here DEF Inv
<1>3. PICK s : s = [store[r] EXCEPT !.fin = "staged"]
  OBVIOUS
<1>4. PICK pc : pc = IF call[c].pc = "stage" THEN "final_staged"
                     ELSE IF call[c].journal = "content_validated"
                     THEN "r_final_staged" ELSE "r_observe"
  OBVIOUS
<1>5. /\ call[c].pc \in {"stage", "r_stage"} /\ call[c].pc # "idle" /\ bound' = bound
      /\ pc \in Steps \ {"content_validated"}
  BY <1>4 DEF StageFinal, At, Steps, PublishSteps, RecoverSteps
<1>6. /\ s \in RunFiles /\ s.fin = "staged" /\ s.manifest = store[r].manifest
      /\ s.lineage = store[r].lineage /\ s.epoch = store[r].epoch
      /\ s.journal = store[r].journal /\ s.status = store[r].status
  BY <1>2, <1>3 DEF RunFiles
<1>7. store[r].fin = "none" /\ store[r].journal # "absent"
  BY <1>1, <1>2, <1>5 DEF CallOK, Staging, Journaled
<1>8. Performs(c, s, StagedDir, pc)
  BY <1>1, <1>3, <1>4, <1>7 DEF StageFinal
<1>9. losses = 0 => Shape(s)
  <2>1. losses = 0 => Shape(store[r])
    BY <1>1, <1>5, HereMore
  <2>2. Shape(store[r]) => Shape(s)
    BY <1>6, <1>7 DEF Shape
  <2> QED
    BY <2>1, <2>2
<1>10. losses = 0 /\ Timely /\ call[c].clean =>
          Advancing(pc, call[c].journal, call[c].tries, s)
  <2> SUFFICES ASSUME losses = 0, Timely, call[c].clean
               PROVE  Advancing(pc, call[c].journal, call[c].tries, s)
    OBVIOUS
  <2>1. Advancing(call[c].pc, call[c].journal, call[c].tries, store[r])
    BY <1>1, <1>5, HereMore
  <2>2. call[c].pc = "r_stage"
    BY <1>5, <2>1 DEF Advancing
  <2>3. call[c].journal = s.journal /\ call[c].tries + 3 < ActionLimit
    BY <1>6, <2>1, <2>2 DEF Advancing, TurnsAfter
  <2>4. TurnsAfter(pc, s) = 3 /\ pc \in {"r_final_staged", "r_observe"}
    BY <1>4, <1>6, <2>2, TurnsFacts DEF TurnsAfter
  <2> QED
    BY <1>6, <2>3, <2>4 DEF Advancing
<1> QED
  BY <1>1, <1>2, <1>5, <1>6, <1>7, <1>8, <1>9, <1>10, PerformsMore

LEMMA AdoptStagedFinalMore ==
  ASSUME Inv, NEW c \in Callers, AdoptStagedFinal(c)
  PROVE  EpochsUnique' /\ Lossless' /\ (Timely => Timely')
<1>1. PICK r : r = call[c].run
  OBVIOUS
<1>2. TypeOK /\ r \in Runs /\ store[r] \in RunFiles /\ CallOK(c)
  BY <1>1, Here DEF Inv
<1>3. /\ call[c].pc = "r_adopt" /\ bound' = bound
      /\ "r_install" \in Steps \ {"content_validated"}
  BY DEF AdoptStagedFinal, At, Steps, RecoverSteps
<1>4. store[r].fin = "staged" /\ store[r].journal # "absent"
  BY <1>1, <1>2, <1>3 DEF CallOK, Adopting, Journaled
<1>5. Performs(c, store[r], StagedDir, "r_install")
  BY <1>1, <1>4 DEF AdoptStagedFinal
<1>6. losses = 0 => Shape(store[r])
  BY <1>1, <1>3, HereMore
<1>7. losses = 0 /\ Timely /\ call[c].clean =>
         Advancing("r_install", call[c].journal, call[c].tries, store[r])
  <2>1. losses = 0 /\ Timely /\ call[c].clean =>
           Advancing("r_adopt", call[c].journal, call[c].tries, store[r])
    BY <1>1, <1>3, HereMore
  <2> QED
    BY <2>1 DEF Advancing, TurnsAfter, Adopting
<1> QED
  BY <1>1, <1>2, <1>3, <1>4, <1>5, <1>6, <1>7, PerformsMore

LEMMA InstallFinalMore ==
  ASSUME Inv, NEW c \in Callers, InstallFinal(c)
  PROVE  EpochsUnique' /\ Lossless' /\ (Timely => Timely')
<1>1. PICK r : r = call[c].run
  OBVIOUS
<1>2. TypeOK /\ r \in Runs /\ store[r] \in RunFiles /\ FilesOK(r) /\ CallOK(c)
  BY <1>1, Here DEF Inv
<1>3. PICK s : s = [store[r] EXCEPT !.fin = "installed"]
  OBVIOUS
<1>4. PICK pc : pc = IF call[c].pc = "install" THEN "final_file_installed" ELSE "r_observe"
  OBVIOUS
<1>5. /\ call[c].pc \in {"install", "r_install"} /\ call[c].pc # "idle" /\ bound' = bound
      /\ pc \in Steps \ {"content_validated"} /\ "install" \in PublishSteps
  BY <1>4 DEF InstallFinal, At, Steps, PublishSteps, RecoverSteps
<1>6. /\ s \in RunFiles /\ s.fin = "installed" /\ s.manifest = store[r].manifest
      /\ s.lineage = store[r].lineage /\ s.epoch = store[r].epoch
      /\ s.journal = store[r].journal /\ s.status = store[r].status
  BY <1>2, <1>3 DEF RunFiles
<1>7. store[r].journal # "absent" /\ (call[c].pc = "r_install" => store[r].fin = "staged")
  BY <1>1, <1>2, <1>5 DEF CallOK, Adopting, Journaled
<1>8. CASE store[r].fin # "staged"
  <2>1. losses = 0 /\ Timely => ~call[c].clean
    BY <1>1, <1>5, <1>7, <1>8, HereMore
  <2> QED
    BY <1>1, <1>5, <1>8, <2>1, RefusedMore DEF InstallFinal
<1>9. CASE store[r].fin = "staged"
  <2>1. Performs(c, s, RunDir \cup StagedDir, pc)
    BY <1>1, <1>3, <1>4, <1>9 DEF InstallFinal
  <2>2. losses = 0 => Shape(s)
    <3>1. losses = 0 => Shape(store[r])
      BY <1>1, <1>5, HereMore
    <3>2. Shape(store[r]) => Shape(s)
      BY <1>6, <1>7, <1>9 DEF Shape
    <3> QED
      BY <3>1, <3>2
  <2>3. losses = 0 /\ Timely /\ call[c].clean =>
           Advancing(pc, call[c].journal, call[c].tries, s)
    <3> SUFFICES ASSUME losses = 0, Timely, call[c].clean
                 PROVE  Advancing(pc, call[c].journal, call[c].tries, s)
      OBVIOUS
    <3>1. Advancing(call[c].pc, call[c].journal, call[c].tries, store[r])
      BY <1>1, <1>5, HereMore
    <3>2. call[c].pc = "r_install"
      BY <1>5, <3>1 DEF Advancing
    <3>3. call[c].tries + 2 < ActionLimit
      BY <3>1, <3>2 DEF Advancing, TurnsAfter, Adopting
    <3>4. pc = "r_observe" /\ TurnsAfter("r_observe", s) = Turns(s) /\ Turns(s) = 2
      <4>1. s.epoch # "installed"
        BY <1>2, <1>6, <1>9 DEF FilesOK
      <4> QED
        BY <1>4, <1>6, <3>2, <4>1, TurnsFacts
    <3> QED
      BY <3>3, <3>4 DEF Advancing
  <2> QED
    BY <1>1, <1>2, <1>5, <1>6, <1>7, <2>1, <2>2, <2>3, PerformsMore
<1> QED
  BY <1>8, <1>9

\* Without a power loss, an installed final review whose epoch number is free
\* can be committed.
LEMMA CommitPossible ==
  ASSUME NEW r \in Runs, store[r] \in RunFiles, Material(store[r]), Shape(store[r]),
         store[r].fin = "installed", ~EpochTaken(r)
  PROVE  CanCommit(r)
<1> DEFINE s == store[r]
<1>1. /\ s.manifest \in {"prepared", "installed"} /\ s.lineage \in {"prepared", "installed"}
      /\ s.epoch \in {"prepared", "installed"}
  BY DEF Material, RunFiles
<1>2. CASE s.epoch = "installed"
  <2>1. Installed(s) = Prefix(3) /\ Prepared(s) = Members \ Prefix(3)
    BY <1>2, PrefixMembers DEF Shape, Installed, Prepared, Members
  <2> QED
    BY <2>1 DEF CanCommit
<1>3. CASE s.epoch # "installed" /\ s.lineage = "installed"
  <2>1. Installed(s) = Prefix(2) /\ Prepared(s) = Members \ Prefix(2)
    BY <1>1, <1>3, PrefixMembers DEF Shape, Installed, Prepared, Members
  <2> QED
    BY <2>1 DEF CanCommit
<1>4. CASE s.epoch # "installed" /\ s.lineage # "installed" /\ s.manifest = "installed"
  <2>1. Installed(s) = Prefix(1) /\ Prepared(s) = Members \ Prefix(1)
    BY <1>1, <1>4, PrefixMembers DEF Installed, Prepared, Members
  <2> QED
    BY <2>1 DEF CanCommit
<1>5. CASE s.epoch # "installed" /\ s.lineage # "installed" /\ s.manifest # "installed"
  <2>1. Installed(s) = Prefix(0) /\ Prepared(s) = Members \ Prefix(0)
    BY <1>1, <1>5, PrefixMembers DEF Installed, Prepared, Members
  <2> QED
    BY <2>1 DEF CanCommit
<1> QED
  BY <1>2, <1>3, <1>4, <1>5

LEMMA CommitPreparedCompositeMore ==
  ASSUME Inv, NEW c \in Callers, CommitPreparedComposite(c)
  PROVE  EpochsUnique' /\ Lossless' /\ (Timely => Timely')
<1>1. PICK r : r = call[c].run
  OBVIOUS
<1>2. /\ TypeOK /\ r \in Runs /\ store[r] \in RunFiles /\ call[c] \in Calls /\ CoreInv
  BY <1>1, Here DEF Inv
<1>3. /\ call[c].pc \in Committing /\ call[c].pc # "idle" /\ bound' = bound
  BY DEF CommitPreparedComposite, At, Committing
<1>4. PICK s : s = WithInstalled(store[r], Members)
  OBVIOUS
<1>5. /\ s \in RunFiles /\ InPlace(s) /\ s.journal = store[r].journal
      /\ s.status = store[r].status /\ store[r].fin = "installed"
      /\ store[r].journal # "absent" /\ Material(store[r])
  BY <1>1, <1>2, <1>3, <1>4, CommitWrites, PrefixMembers DEF InPlace
<1>6. losses = 0 => Shape(store[r])
  BY <1>1, <1>3, HereMore
<1>7. CASE ~CanCommit(r)
  <2>1. losses = 0 /\ Timely => ~call[c].clean
    <3>1. losses = 0 /\ Timely /\ call[c].clean => Recoverable(r)
      BY <1>1, <1>3, HereMore
    <3> QED
      BY <1>2, <1>5, <1>6, <1>7, <3>1, CommitPossible DEF Recoverable
  <2> QED
    BY <1>1, <1>3, <1>7, <2>1, RefusedMore DEF CommitPreparedComposite
<1>8. CASE CanCommit(r)
  <2>1. PICK pc : pc = IF call[c].pc = "commit" THEN "manifest_committed"
                       ELSE "r_manifest_committed"
    OBVIOUS
  <2>2. Write(r, s, RunDir \cup StagedDir) /\ Goto(c, pc) /\ NoFault /\ diag' = diag
    BY <1>1, <1>4, <1>8, <2>1 DEF CommitPreparedComposite, Bystanders
  <2>3. Wrote(r, s) /\ losses' = losses
    BY <1>2, <1>5, <2>2, WriteFacts DEF NoFault
  <2>4. pc \in Steps /\ pc # "idle" /\ pc # "content_validated"
    BY <2>1 DEF Steps, PublishSteps, RecoverSteps
  <2>5. Moved(c) /\ call'[c] = [call[c] EXCEPT !.pc = pc]
    BY <1>2, <2>2, <2>4, GotoFacts
  <2>6. /\ call'[c].pc = pc /\ call'[c].journal = call[c].journal
        /\ call'[c].tries = call[c].tries
    BY <1>2, <2>5 DEF Calls
  <2>7. call'[c].clean => call[c].clean
    BY <1>2, <2>5 DEF Calls
  <2>8. ~EpochTaken(r)
    BY <1>8 DEF CanCommit
  <2>9. losses = 0 => Shape(s)
    BY <1>5 DEF Shape, InPlace
  <2>10. ASSUME losses = 0, Timely PROVE Progress(c)'
    <3>1. call[c].clean =>
            Recoverable(r) /\ Advancing(call[c].pc, call[c].journal, call[c].tries, store[r])
      BY <1>1, <1>3, <2>10, HereMore
    <3>2. call'[c].clean => Recoverable(r)'
      BY <1>2, <1>3, <1>5, <2>3, <2>7, <3>1, RecoverableKept
    <3>3. ASSUME call'[c].clean
          PROVE  Advancing(call'[c].pc, call'[c].journal, call'[c].tries, s)
      <4>1. Advancing(call[c].pc, call[c].journal, call[c].tries, store[r])
        BY <2>7, <3>1, <3>3
      <4>2. call[c].pc = "r_commit"
        BY <1>3, <4>1 DEF Advancing, Committing
      <4>3. call[c].journal = s.journal /\ call[c].tries + 1 < ActionLimit
        BY <1>5, <4>1, <4>2 DEF Advancing, TurnsAfter, Adopting
      <4>4. pc = "r_manifest_committed" /\ TurnsAfter(pc, s) = 1
        BY <2>1, <4>2 DEF TurnsAfter, Adopting
      <4> QED
        BY <2>6, <4>3, <4>4 DEF Advancing
    <3> QED
      BY <1>1, <1>2, <1>5, <2>3, <2>4, <2>5, <2>6, <3>2, <3>3, AdvancedTo
  <2> QED
    BY <1>1, <1>2, <1>3, <1>5, <2>2, <2>3, <2>4, <2>5, <2>6, <2>8, <2>9, <2>10, AssembleMore
       DEF InPlace
<1> QED
  BY <1>7, <1>8

LEMMA CommitInterruptedMore ==
  ASSUME Inv, NEW c \in Callers, NEW k \in 1..3, CommitInterrupted(c, k)
  PROVE  EpochsUnique' /\ Lossless' /\ (Timely => Timely')
<1>1. PICK r : r = call[c].run
  OBVIOUS
<1>2. TypeOK /\ r \in Runs /\ store[r] \in RunFiles /\ CoreInv
  BY <1>1, Here DEF Inv
<1>3. PICK s : s = WithInstalled(store[r], Prefix(k))
  OBVIOUS
<1>4. /\ call[c].pc \in Committing /\ call[c].pc # "idle" /\ bound' = bound /\ CanCommit(r)
      /\ Write(r, s, SettledBefore(store[r], k)) /\ Reobserve(c) /\ diag' = diag
  BY <1>1, <1>3 DEF CommitInterrupted, At, Committing, Bystanders
<1>5. /\ s \in RunFiles /\ s.fin = "installed" /\ s.manifest = "installed"
      /\ s.lineage = (IF k >= 2 THEN "installed" ELSE store[r].lineage)
      /\ s.epoch = (IF k = 3 THEN "installed" ELSE store[r].epoch)
      /\ s.journal = store[r].journal /\ s.status = store[r].status
      /\ store[r].journal # "absent"
  BY <1>1, <1>2, <1>3, <1>4, CommitWrites
<1>6. losses = 0 => Shape(s)
  <2>1. losses = 0 => Shape(store[r])
    BY <1>1, <1>4, HereMore
  <2>2. Shape(store[r]) => Shape(s)
    BY <1>5 DEF Shape
  <2> QED
    BY <2>1, <2>2
<1>7. Wrote(r, s)
  BY <1>2, <1>4, <1>5, WriteFacts
<1>8. Moved(c) /\ call'[c].pc = "r_observe" /\ ~call'[c].clean /\ losses' = losses
  BY <1>2, <1>4, ReobserveFacts
<1>9. ~EpochTaken(r)
  BY <1>4 DEF CanCommit
<1>10. Progress(c)'
  BY <1>8 DEF Progress
<1> QED
  BY <1>1, <1>2, <1>4, <1>5, <1>6, <1>7, <1>8, <1>9, <1>10, AssembleMore

\* Without a power loss, only a condemned run is found corrupt.
LEMMA AmbiguousCondemned ==
  ASSUME TypeOK, EpochsUnique, NEW r \in Runs, FilesOK(r), Shape(store[r]),
         NEW adoption \in Adoptions, Class(r, adoption) = "AMBIGUOUS"
  PROVE  Condemned(r)
<1>1. CASE Recoverable(r)
  BY <1>1, RecoverableClass
<1>2. CASE store[r].journal # "absent" /\ EpochTaken(r)
  <2>1. store[r].epoch # "installed"
    BY <1>2 DEF EpochTaken, EpochsUnique
  <2> QED
    BY <1>2, <2>1 DEF Condemned
<1>3. CASE store[r].journal = "absent"
  <2>1. store[r].manifest # "installed" /\ store[r].fin = "none" /\ ~store[r].status
    BY <1>3 DEF Shape
  <2>2. Discovery(r) = "absent"
    BY <2>1 DEF Discovery
  <2>3. Class(r, adoption) = WithoutJournal(r)
    BY <1>3, <2>2 DEF Class
  <2>4. Prepared(store[r]) # {}
    BY <2>1, <2>3 DEF WithoutJournal
  <2> QED
    BY <1>3, <2>4 DEF Condemned, Prepared
<1> QED
  BY <1>1, <1>2, <1>3 DEF Recoverable

\* What every observation of c leaves alone.
LEMMA ObserveKeeps ==
  ASSUME Inv, NEW c \in Callers, call[c].pc # "idle", NEW r, r = call[c].run,
         NEW adoption \in Adoptions, AdoptionOf(r, adoption), AdoptionFault(r, adoption)
  PROVE  Wrote(r, store[r]) /\ losses' = losses
<1>1. TypeOK /\ r \in Runs
  BY Here DEF Inv
<1> QED
  BY <1>1, AdoptionFacts DEF AdoptionFault, NoFault

LEMMA PublishObserveMore ==
  ASSUME Inv, NEW c \in Callers, NEW adoption \in Adoptions,
         PublishObserve(c, adoption) \/ PublishConfirm(c, adoption)
  PROVE  EpochsUnique' /\ Lossless' /\ (Timely => Timely')
<1>1. PICK r : r = call[c].run
  OBVIOUS
<1>2. /\ call[c].pc \in {"observe", "confirm"} /\ call[c].pc # "idle"
      /\ AdoptionFault(r, adoption) /\ AdoptionOf(r, adoption)
      /\ bound' = bound /\ diag' = diag
  BY <1>1 DEF PublishObserve, PublishConfirm, At
<1>3. Wrote(r, store[r]) /\ losses' = losses
  BY <1>1, <1>2, ObserveKeeps
<1>4. losses = 0 /\ Timely => ~call[c].clean
  BY <1>1, <1>2, HereMore DEF PublishSteps
<1>5. \/ \E result \in {"panic", "p2", "failed"} : Return(c, result)
      \/ \E pc \in {"r_observe", "candidate"} : Goto(c, pc)
  BY DEF PublishObserve, PublishConfirm, Told
<1>6. {"panic", "p2", "failed"} \subseteq Results
  BY DEF Results
<1>7. {"r_observe", "candidate"} \subseteq Steps \ {"content_validated"}
  BY DEF Steps, PublishSteps, RecoverSteps
<1>8. ASSUME NEW result \in Results, Return(c, result)
      PROVE  EpochsUnique' /\ Lossless' /\ (Timely => Timely')
  BY <1>1, <1>2, <1>3, <1>4, <1>8, ReturnMore
<1>9. ASSUME NEW pc \in Steps \ {"content_validated"}, Goto(c, pc)
      PROVE  EpochsUnique' /\ Lossless' /\ (Timely => Timely')
  BY <1>1, <1>2, <1>3, <1>4, <1>9, TurnBackMore
<1> QED
  BY <1>5, <1>6, <1>7, <1>8, <1>9

LEMMA WriteDiagnosticMore ==
  ASSUME Inv, NEW c \in Callers, NEW adoption \in Adoptions, WriteDiagnostic(c, adoption)
  PROVE  EpochsUnique' /\ Lossless' /\ (Timely => Timely')
<1>1. PICK r : r = call[c].run
  OBVIOUS
<1>2. /\ call[c].pc = "r_diagnose" /\ call[c].pc # "idle"
      /\ AdoptionFault(r, adoption) /\ AdoptionOf(r, adoption) /\ bound' = bound
  BY <1>1 DEF WriteDiagnostic, At
<1>3. Wrote(r, store[r]) /\ losses' = losses
  BY <1>1, <1>2, ObserveKeeps
<1>4. losses = 0 /\ Timely => ~call[c].clean
  <2>1. losses = 0 /\ Timely /\ call[c].clean =>
           Advancing("r_diagnose", call[c].journal, call[c].tries, store[r])
    BY <1>1, <1>2, HereMore
  <2> QED
    BY <2>1 DEF Advancing
<1>5. \/ Return(c, "panic") /\ diag' = diag
      \/ Return(c, "corrupt") /\ diag' = diag \cup {r} /\ Class(r, adoption) = "AMBIGUOUS"
      \/ Goto(c, "r_observe") /\ diag' = diag
  BY <1>1 DEF WriteDiagnostic
<1>6. losses = 0 /\ diag' # diag => Condemned(r)
  <2>1. TypeOK /\ EpochsUnique /\ r \in Runs /\ FilesOK(r)
    BY <1>1, Here DEF Inv
  <2>2. losses = 0 => Shape(store[r])
    BY <1>1, <1>2, HereMore
  <2> QED
    BY <1>5, <2>1, <2>2, AmbiguousCondemned
<1>7. {"panic", "corrupt"} \subseteq Results /\ "r_observe" \in Steps
  BY DEF Results, Steps, RecoverSteps
<1>8. ASSUME NEW result \in {"panic", "corrupt"}, Return(c, result)
      PROVE  EpochsUnique' /\ Lossless' /\ (Timely => Timely')
  BY <1>1, <1>2, <1>3, <1>4, <1>5, <1>6, <1>7, <1>8, ReturnMore
<1>9. ASSUME Goto(c, "r_observe"), diag' = diag
      PROVE  EpochsUnique' /\ Lossless' /\ (Timely => Timely')
  BY <1>1, <1>2, <1>3, <1>4, <1>7, <1>9, TurnBackMore
<1> QED
  BY <1>5, <1>8, <1>9

LEMMA RecoverLimitMore ==
  ASSUME Inv, NEW c \in Callers, RecoverLimit(c)
  PROVE  EpochsUnique' /\ Lossless' /\ (Timely => Timely')
<1>1. PICK r : r = call[c].run
  OBVIOUS
<1>2. TypeOK /\ r \in Runs /\ store[r] \in RunFiles /\ FilesOK(r)
  BY <1>1, Here DEF Inv
<1>3. /\ call[c].pc = "r_observe" /\ call[c].pc # "idle" /\ call[c].tries = ActionLimit
      /\ NoFault /\ Return(c, "limit") /\ NoWrite /\ bound' = bound /\ diag' = diag
      /\ "limit" \in Results
  BY DEF RecoverLimit, At, Results
<1>4. Wrote(r, store[r]) /\ losses' = losses
  BY <1>2, <1>3, NoWriteFacts DEF NoFault
<1>5. losses = 0 /\ Timely => ~call[c].clean
  <2>1. losses = 0 /\ Timely /\ call[c].clean =>
           Advancing("r_observe", call[c].journal, ActionLimit, store[r])
    BY <1>1, <1>3, HereMore
  <2>2. TurnsAfter("r_observe", store[r]) \in 0..4
    BY <1>2, TurnsFacts DEF FilesOK
  <2>3. ~(ActionLimit + TurnsAfter("r_observe", store[r]) < ActionLimit)
    BY <2>2, PublicationAssumption
  <2> QED
    BY <2>1, <2>3 DEF Advancing
<1> QED
  BY <1>1, <1>3, <1>4, <1>5, ReturnMore

LEMMA FailsMore ==
  ASSUME Inv, NEW c \in Callers, Fails(c)
  PROVE  EpochsUnique' /\ Lossless' /\ (Timely => Timely')
<1>1. PICK r : r = call[c].run
  OBVIOUS
<1>2. TypeOK /\ r \in Runs
  BY <1>1, Here DEF Inv
<1>3. /\ Moved(c) /\ call'[c].pc = "idle" /\ ~call'[c].clean
      /\ losses' = losses /\ NoWrite /\ bound' = bound /\ diag' = diag
      /\ call[c].pc # "idle"
  BY <1>2, FailsFacts DEF Fails
<1>4. Wrote(r, store[r])
  BY <1>2, <1>3, NoWriteFacts
<1>5. Progress(c)'
  BY <1>3 DEF Progress
<1> QED
  BY <1>1, <1>3, <1>4, <1>5, UnwrittenMore

LEMMA RecoverObserveMore ==
  ASSUME Inv, NEW c \in Callers, NEW adoption \in Adoptions, RecoverObserve(c, adoption)
  PROVE  EpochsUnique' /\ Lossless' /\ (Timely => Timely')
<1>1. PICK r : r = call[c].run
  OBVIOUS
<1>2. PICK class : class = Class(r, adoption)
  OBVIOUS
<1>3. /\ TypeOK /\ r \in Runs /\ store[r] \in RunFiles /\ FilesOK(r) /\ call[c] \in Calls
      /\ call[c].tries \in Nat /\ ActionLimit \in Nat
  BY <1>1, Here, PublicationAssumption DEF Inv, Calls
<1>4. /\ call[c].pc = "r_observe" /\ call[c].pc # "idle" /\ MayTry(c)
      /\ AdoptionFault(r, adoption) /\ AdoptionOf(r, adoption)
      /\ bound' = bound /\ diag' = diag
  BY <1>1 DEF RecoverObserve, At
<1>5. \/ Return(c, "panic") /\ adoption = "second"
      \/ /\ Action(class, store[r].journal) = "resume"
         /\ \E result \in {"failed", "resume"} : Return(c, result)
      \/ class = "P2" /\ Return(c, "p2")
      \/ /\ Action(class, store[r].journal) # "resume"
         /\ ~(class = "P2" /\ store[r].status /\ store[r].journal = "completed")
         /\ Turned(c, RecoverStep(r, class), store[r].journal, store[r].status)
  BY <1>1, <1>2, Zenon DEF RecoverObserve, Told, Turned, Panics
<1>6. Wrote(r, store[r]) /\ losses' = losses
  BY <1>1, <1>4, ObserveKeeps
<1>7. ASSUME losses = 0, Timely, call[c].clean, faults' = faults
      PROVE  /\ adoption = "first" /\ Recoverable(r) /\ store[r].journal # "absent"
             /\ call[c].tries + Turns(store[r]) < ActionLimit
             /\ store[r].fin = "none" => class = "P0_NONE"
             /\ store[r].fin = "staged" => class = "P0_STAGED"
             /\ store[r].fin = "installed" /\ store[r].epoch # "installed" => class = "P1"
             /\ store[r].epoch = "installed" => class = "P2" /\ store[r].fin = "installed"
             /\ store[r].fin \in {"none", "staged", "installed"}
  <2>1. adoption = "first"
    <3>1. faults \in Nat
      BY <1>3, PublicationAssumption DEF TypeOK
    <3> QED
      BY <1>4, <1>7, <3>1 DEF AdoptionFault, Fault
  <2>2. /\ Recoverable(r) /\ store[r].journal # "absent" /\ Shape(store[r])
        /\ Advancing("r_observe", call[c].journal, call[c].tries, store[r])
    BY <1>1, <1>4, <1>7, HereMore
  <2>3. call[c].tries + Turns(store[r]) < ActionLimit
    BY <2>2 DEF Advancing, TurnsAfter
  <2> QED
    BY <1>2, <1>3, <2>1, <2>2, <2>3, RecoverableClass DEF InPlace
<1>8. {"panic", "p2", "failed", "resume"} \subseteq Results
  BY DEF Results
<1>9. CASE Return(c, "panic") /\ adoption = "second"
  BY <1>1, <1>4, <1>6, <1>7, <1>8, <1>9, ReturnMore
<1>10. CASE Action(class, store[r].journal) = "resume"
            /\ \E result \in {"failed", "resume"} : Return(c, result)
  <2>1. store[r].journal = "absent"
    BY <1>10 DEF Action
  <2> QED
    BY <1>1, <1>4, <1>6, <1>7, <1>8, <1>10, <2>1, ReturnMore
<1>11. CASE class = "P2" /\ Return(c, "p2")
  BY <1>1, <1>4, <1>6, <1>8, <1>11, ReturnMore
<1>12. CASE /\ Action(class, store[r].journal) # "resume"
            /\ ~(class = "P2" /\ store[r].status /\ store[r].journal = "completed")
            /\ Turned(c, RecoverStep(r, class), store[r].journal, store[r].status)
  <2>1. PICK step : step = RecoverStep(r, class)
    OBVIOUS
  <2>2. class \in Classes
    BY <1>2, <1>3, ClassFacts
  <2>3. \/ step = "r_diagnose" /\ class = "AMBIGUOUS"
        \/ step = "r_commit" /\ class = "P1"
        \/ step = "r_adopt" /\ class = "P0_STAGED"
        \/ step = "r_stage" /\ class = "P0_NONE"
        \/ step = "r_completed" /\ class = "P2" /\ store[r].status
        \/ step = "r_status" /\ class = "P2" /\ ~store[r].status
    BY <1>3, <1>12, <2>1, <2>2, RecoverStepFacts
  <2>4. step \in RecoverSteps /\ step # "idle" /\ step # "content_validated"
    BY <2>3 DEF RecoverSteps
  <2>5. /\ Moved(c) /\ call'[c].pc = step /\ call'[c].tries = call[c].tries + 1
        /\ call'[c].journal = store[r].journal
        /\ call'[c].clean => call[c].clean /\ faults' = faults
    <3>1. store[r].journal \in JournalStates \cup {"absent"} /\ store[r].status \in BOOLEAN
      BY <1>3 DEF RunFiles
    <3> QED
      BY <1>3, <1>4, <1>12, <2>1, <2>4, <3>1, TurnFacts
  <2>6. ASSUME losses = 0, Timely, call'[c].clean
        PROVE  Advancing(step, store[r].journal, call[c].tries + 1, store[r])
    <3>1. call[c].clean /\ faults' = faults
      BY <2>5, <2>6
    <3>2. CASE store[r].fin = "none"
      <4>1. step = "r_stage"
        BY <1>7, <2>3, <2>6, <3>1, <3>2
      <4>2. call[c].tries + 4 < ActionLimit
        BY <1>3, <1>7, <2>6, <3>1, <3>2, TurnsFacts
      <4> QED
        BY <1>3, <4>1, <4>2 DEF Advancing, TurnsAfter
    <3>3. CASE store[r].fin = "staged"
      <4>1. step = "r_adopt"
        BY <1>7, <2>3, <2>6, <3>1, <3>3
      <4>2. call[c].tries + 3 < ActionLimit
        BY <1>3, <1>7, <2>6, <3>1, <3>3, TurnsFacts
      <4> QED
        BY <1>3, <4>1, <4>2 DEF Advancing, TurnsAfter, Adopting
    <3>4. CASE store[r].fin = "installed" /\ store[r].epoch # "installed"
      <4>1. step = "r_commit"
        BY <1>7, <2>3, <2>6, <3>1, <3>4
      <4>2. call[c].tries + 2 < ActionLimit
        BY <1>3, <1>7, <2>6, <3>1, <3>4, TurnsFacts
      <4> QED
        BY <1>3, <4>1, <4>2 DEF Advancing, TurnsAfter, Adopting
    <3>5. CASE store[r].epoch = "installed"
      <4>1. class = "P2" /\ store[r].fin = "installed"
        BY <1>7, <2>6, <3>1, <3>5
      <4>2. \/ step = "r_completed" /\ store[r].status
            \/ step = "r_status" /\ ~store[r].status
        BY <2>3, <4>1
      <4>3. ~(store[r].status /\ store[r].journal = "completed")
        BY <1>12, <4>1
      <4>4. call[c].tries + 1 < ActionLimit
        <5>1. Turns(store[r]) = 1
          BY <3>5, <4>1, <4>3 DEF Turns
        <5> QED
          BY <1>7, <2>6, <3>1, <5>1
      <4>5. TurnsAfter(step, store[r]) = 0
        BY <4>2 DEF TurnsAfter, Adopting
      <4>6. step \in {"r_completed", "r_status"}
        BY <4>2
      <4>7. /\ step = "r_completed" => store[r].status
            /\ step = "r_status" => ~store[r].status
        BY <4>2
      <4> QED
        BY <1>3, <4>4, <4>5, <4>6, <4>7 DEF Advancing
    <3> QED
      BY <1>7, <2>6, <3>1, <3>2, <3>3, <3>4, <3>5
  <2>7. ASSUME losses = 0, Timely PROVE Progress(c)'
    <3>1. call'[c].clean => Recoverable(r)'
      BY <1>3, <1>4, <1>6, <1>7, <2>5, <2>7, RecoverableKept
    <3> QED
      BY <1>1, <1>3, <1>6, <2>4, <2>5, <2>6, <2>7, <3>1, AdvancedTo
  <2> QED
    BY <1>1, <1>4, <1>6, <2>4, <2>5, <2>7, UnwrittenMore
<1> QED
  BY <1>5, <1>9, <1>10, <1>11, <1>12

LEMMA StartMore ==
  ASSUME Inv, NEW c \in Callers, NEW r \in Runs, StartPublish(c, r) \/ StartRecover(c, r)
  PROVE  /\ EpochsUnique' /\ Lossless'
         /\ ActionLimit >= 5 /\ Timely => Timely'
<1>1. TypeOK /\ store[r] \in RunFiles /\ FilesOK(r)
  BY DEF Inv, CoreInv, TypeOK
<1>2. /\ Quiet /\ call' \in [Callers -> Calls] /\ call'[c].run = r
      /\ \A e \in Callers \ {c} : call'[e] = call[e]
      /\ \/ call'[c].pc = "observe" /\ ~call'[c].clean
         \/ /\ call'[c].pc = "r_observe" /\ call'[c].tries = 0
            /\ call'[c].clean => Recoverable(r)
      /\ store' = store /\ losses' = losses /\ bound' = bound /\ diag' = diag
  BY <1>1, StartFacts DEF NoWrite, NoFault
<1>3. EpochsUnique'
  BY <1>2 DEF Inv, EpochsUnique
<1>4. Lossless'
  <2>1. \A e \in Callers : call'[e].pc # "content_validated"
    BY <1>2 DEF Quiet
  <2>2. ASSUME NEW q, Condemned(q) PROVE Condemned(q)'
    BY <1>2, <2>2 DEF Condemned, EpochTaken
  <2> QED
    BY <1>2, <2>1, <2>2 DEF Inv, Lossless, Shape
<1>5. ASSUME ActionLimit >= 5, Timely, losses = 0, NEW e \in Callers PROVE Progress(e)'
  <2>1. CASE e # c
    <3>1. Progress(e) /\ call'[e] = call[e] /\ call[e].pc = "idle"
      BY <1>2, <1>5, <2>1 DEF Timely, Quiet
    <3> QED
      BY <3>1 DEF Progress
  <2>2. CASE e = c /\ ~call'[c].clean
    BY <2>2 DEF Progress
  <2>3. CASE e = c /\ call'[c].clean
    <3>1. call'[c].pc = "r_observe" /\ call'[c].tries = 0 /\ Recoverable(r)
      BY <1>2, <2>3
    <3>2. Recoverable(call[c].run)'
      BY <1>2, <3>1 DEF Recoverable, EpochTaken
    <3>3. Turns(store[r]) \in 0..4 /\ TurnsAfter("r_observe", store[r]) = Turns(store[r])
      BY <1>1, TurnsFacts DEF FilesOK
    <3>4. Advancing("r_observe", call'[c].journal, 0, store[r])
      BY <1>5, <3>3, PublicationAssumption DEF Advancing
    <3>5. Advancing(call[c].pc, call[c].journal, call[c].tries, store[call[c].run])'
      BY <1>2, <3>1, <3>4 DEF Advancing, TurnsAfter, Turns
    <3>6. Progress(c)'
      BY <3>1, <3>2, <3>5 DEF Progress
    <3> QED
      BY <2>3, <3>6
  <2> QED
    BY <2>1, <2>2, <2>3
<1>6. ActionLimit >= 5 /\ Timely => Timely'
  BY <1>2, <1>5 DEF Timely
<1> QED
  BY <1>3, <1>4, <1>6

LEMMA PowerLossMore ==
  ASSUME Inv, PowerLoss
  PROVE  EpochsUnique' /\ Lossless' /\ Timely'
<1>1. TypeOK /\ bound' = bound /\ losses' = losses + 1
  BY DEF Inv, CoreInv, PowerLoss
<1>2. losses' # 0
  BY <1>1, PublicationAssumption DEF TypeOK
<1>3. \A r \in Runs : store'[r].epoch = "installed" => store[r].epoch = "installed"
  <2> TAKE r \in Runs
  <2>1. FilesOK(r) /\ store'[r].epoch \in {store[r].epoch, stable[r].epoch}
    BY <1>1, PowerLossFacts DEF Inv, CoreInv
  <2> QED
    BY <2>1 DEF FilesOK
<1>4. EpochsUnique'
  BY <1>1, <1>3 DEF Inv, EpochsUnique
<1> QED
  BY <1>2, <1>4 DEF Lossless, Timely

-----------------------------------------------------------------------------
(* Theorems about epoch numbers, diagnostics and recovery.                    *)

LEMMA InvInit == Init => Inv /\ Timely
<1> SUFFICES ASSUME Init PROVE Inv /\ Timely
  OBVIOUS
<1>1. CoreInv
  BY CoreInit
<1>2. EpochsUnique
  BY DEF Init, EpochsUnique, NoFiles
<1>3. \A c \in Callers : call[c].pc = "idle" /\ ~call[c].clean
  <2>1. PICK r \in Runs : call = [c \in Callers |-> Idle(r, "none", FALSE)]
    BY DEF Init
  <2> QED
    BY <2>1 DEF Idle
<1>4. Lossless
  BY <1>3 DEF Init, Lossless, Shape, NoFiles
<1>5. Timely
  BY <1>3 DEF Timely, Progress
<1> QED
  BY <1>1, <1>2, <1>4, <1>5 DEF Inv

LEMMA InvNext == Inv /\ [Next]_vars => Inv' /\ (ActionLimit >= 5 /\ Timely => Timely')
<1> SUFFICES ASSUME Inv, [Next]_vars
             PROVE  Inv' /\ (ActionLimit >= 5 /\ Timely => Timely')
  OBVIOUS
<1> DEFINE Kept == EpochsUnique' /\ Lossless' /\ (ActionLimit >= 5 /\ Timely => Timely')
<1>1. ASSUME PowerLoss PROVE Kept
  BY <1>1, PowerLossMore
<1>2. ASSUME NEW c \in Callers, Start(c) PROVE Kept
  BY <1>2, StartMore DEF Start
<1>3. ASSUME NEW c \in Callers, Step(c) PROVE Kept
  <2>1. CASE Observe(c)
    BY <2>1, PublishObserveMore, RecoverObserveMore, WriteDiagnosticMore DEF Observe
  <2>2. CASE ~Observe(c)
    BY <1>3, <2>2, RecoverLimitMore, PersistCandidateMore, PrepareCompositeMore,
       PublishJournalMore, RecoverJournalMore, ReplaceStatusMore, StageFinalMore,
       AdoptStagedFinalMore, InstallFinalMore, CommitPreparedCompositeMore DEF Step
  <2> QED
    BY <2>1, <2>2
<1>4. ASSUME NEW c \in Callers, Interrupted(c) PROVE Kept
  BY <1>4, PrepareInterruptedMore, CommitInterruptedMore, FailsMore DEF Interrupted
<1>5. ASSUME UNCHANGED vars PROVE Kept
  <2>1. EpochsUnique'
    BY <1>5 DEF Inv, EpochsUnique, vars
  <2>2. Lossless'
    BY <1>5 DEF Inv, Lossless, Shape, Condemned, EpochTaken, vars
  <2>3. Timely => Timely'
    BY <1>5 DEF Timely, Progress, Recoverable, EpochTaken, Advancing, TurnsAfter, Turns, vars
  <2> QED
    BY <2>1, <2>2, <2>3
<1>6. Kept
  BY <1>1, <1>2, <1>3, <1>4, <1>5 DEF Next
<1>7. CoreInv'
  BY CoreNext DEF Inv
<1> QED
  BY <1>6, <1>7 DEF Inv

THEOREM PublicationInvariant == Spec => []Inv
<1>1. Init => Inv
  BY InvInit
<1>2. Inv /\ [Next]_vars => Inv'
  BY InvNext
<1> QED
  BY <1>1, <1>2, PTL DEF Spec

\* No two publications of a store carry one epoch number, and a run with an
\* immutable corruption diagnostic is never reported published (prepareEpoch,
\* WriteCorruptionDiagnostic).
THEOREM PublishedUnique == Spec => []PublishedIsUnique
<1>1. Inv => PublishedIsUnique
  <2> SUFFICES ASSUME Inv PROVE CorruptNeverPublished
    BY DEF Inv, PublishedIsUnique
  <2> SUFFICES ASSUME losses = 0, NEW r \in diag, r \in reported PROVE FALSE
    BY DEF CorruptNeverPublished
  <2>1. r \in Runs
    BY DEF Inv, CoreInv, TypeOK
  <2>2. InPlace(store[r])
    BY <2>1 DEF Inv, CoreInv, FilesOK, Done
  <2>3. Condemned(r)
    BY DEF Inv, Lossless
  <2> QED
    BY <2>2, <2>3 DEF Condemned, InPlace, Members
<1> QED
  BY <1>1, PublicationInvariant, PTL

\* Wherever errors and kills stop a publication, its run is recoverable, and a
\* recovery that meets no error publishes it within five turns: the program's
\* limit, publicationRecoveryActionLimit, is twelve.
THEOREM InterruptedPublished ==
  ASSUME ActionLimit >= 5
  PROVE  Spec => []InterruptedIsPublished
<1>1. Inv => JournaledIsRecoverable
  <2> SUFFICES ASSUME Inv, losses = 0, NEW r \in Runs, Recoverable(r)
               PROVE  Class(r, "first") # "AMBIGUOUS"
    BY DEF JournaledIsRecoverable
  <2>1. TypeOK /\ FilesOK(r) /\ Shape(store[r]) /\ "first" \in Adoptions
    BY DEF Inv, CoreInv, Lossless, Adoptions
  <2> QED
    BY <2>1, RecoverableClass
<1>2. Timely => RecoveryPublishes
  BY DEF Timely, Progress, RecoveryPublishes
<1>3. Init => Inv /\ Timely
  BY InvInit
<1>4. (Inv /\ Timely) /\ [Next]_vars => (Inv /\ Timely)'
  BY InvNext
<1> QED
  BY <1>1, <1>2, <1>3, <1>4, PTL DEF Spec, InterruptedIsPublished
=============================================================================
