---------------------------- MODULE FilesProofs ----------------------------
(***************************************************************************)
(* Theorems about the components that change files where others change them *)
(* too, for every set of commands and any number of failures, kills and     *)
(* power losses: mulgae init (InitConfig), secure writes (SecureWriter),    *)
(* redacted export (Export) and the store's file operations                 *)
(* (PublicationFiles); and about those that keep the providers' namespaces: *)
(* one of them (ProviderNamespace) and the registry of a run                *)
(* (ProviderRegistry).  Each part has one inductive invariant.  The         *)
(* components are instances over the variables declared here; no behaviour  *)
(* takes steps of two of them, and a name they share is declared once.      *)
(***************************************************************************)
EXTENDS Naturals, Sequences, FiniteSets, TLAPS

CONSTANTS
  Inits,                        \* the commands of mulgae init
  Writers, Sources, MaxChunks,  \* the writers of files, and their streams
  Exporters, Requests, MaxStarts,
  MaxPasses,                    \* the cleanups of a namespace
  Observers, Closers, MaxCloses, MaxRegistryUpsets,
  None, MaxUpsets

VARIABLES
  step, refresh, saw, dir, made, config, local, put,             \* InitConfig
  at, src, pos, bytes, named, dest, destSynced, altered, moved,  \* SecureWriter
  wanted, leaked, stopped,
  req, lock, journal, bundle, manifest, starts,                  \* Export
  op, pc, file, temp, spoilt, stable, here, lockFile, held,      \* PublicationFiles
  seen, syncErr, result, err, gone,
  family, own, call, place, disk, lease, users, cleaned,         \* ProviderNamespace
  failed, passes, namespaceUpsets,
  reg, left, holdings, receipts, closed, active, epoch, obs,     \* ProviderRegistry
  stage, closer, runReceipt, registryUpsets, closes,
  verdict, upsets                                                \* several

I == INSTANCE InitConfig
W == INSTANCE SecureWriter
E == INSTANCE Export
F == INSTANCE PublicationFiles
N == INSTANCE ProviderNamespace WITH at <- place, receipt <- cleaned, upsets <- namespaceUpsets
G == INSTANCE ProviderRegistry WITH
       MaxUpsets <- MaxRegistryUpsets, ns <- holdings, receipt <- runReceipt, upsets <- registryUpsets

-----------------------------------------------------------------------------
(* The inductive invariant.                                                *)

Steps == {"begin", "attest", "prepare", "reopen", "project", "syncProject", "local", "replace",
          "syncLocal", "confirm", "done"}

\* A file holds nothing or one content.
Contents == {c \in SUBSET (Inits \cup {"git"}) : \A x, y \in c : x = y}

Shaped ==
  /\ step \in [Inits -> Steps] /\ refresh \in [Inits -> BOOLEAN] /\ made \in [Inits -> BOOLEAN]
  /\ saw \in [Inits -> Contents \X Contents]
  /\ dir \in {"none", "volatile", "there"}
  /\ config \in [now : Contents, disk : Contents] /\ local \in [now : Contents, disk : Contents]
  /\ put \in [Inits -> SUBSET {"config", "local"}]
  /\ verdict = [i \in Inits |-> verdict[i]]
  /\ upsets \in Nat

\* What a command has renamed into place, by where it is; a command that has not
\* returned has no verdict; only a refresh replaces; the prepared directory stays.
PutAsFarAs(i) ==
  /\ step[i] \in {"begin", "attest", "prepare", "reopen", "project", "replace"} => put[i] = {}
  /\ step[i] = "syncProject" => put[i] = {"config"}
  /\ step[i] = "local" => put[i] \subseteq {"config"}
  /\ step[i] \in {"syncLocal", "confirm"} => "local" \in put[i]
  /\ step[i] # "done" => verdict[i] = I!Running
  /\ step[i] = "replace" => refresh[i]
  /\ step[i] \in {"reopen", "project", "syncProject", "local", "replace", "syncLocal", "confirm"} => dir = "there"

\* Every content comes from the command that renamed it into place.
Wrote(name) == {j \in Inits : name \in put[j]}

ContentsAreOwned ==
  /\ config.now \cup config.disk \subseteq {"git"} \cup Wrote("config")
  /\ local.now \cup local.disk \subseteq Wrote("local")
  /\ \A i \in Inits : saw[i][1] \subseteq {"git"} \cup Wrote("config")

\* A content that is in a file is on the disk.
Durable(f, x) == x \in f.now => x \in f.disk

\* Once local.yaml is synced, what the command admitted stays durable.
Synced(i) == step[i] = "confirm" \/ verdict[i][1] = "committed"

SyncedIsDurable ==
  /\ Durable(config, "git")
  /\ \A i \in Inits : Synced(i) =>
       /\ dir = "there" /\ Durable(local, i)
       /\ \A x \in I!Admitted(i)[1] : Durable(config, x)

\* Without upsets nobody removes a local.yaml, so one initialization installs it.
OneInitInstalls ==
  upsets = 0 =>
    /\ \A i \in Inits : "local" \in put[i] => local.now # {}
    /\ \A i, j \in Inits : ~refresh[i] /\ ~refresh[j] /\ "local" \in put[i] /\ "local" \in put[j] => i = j

InstallInv ==
  /\ Shaped
  /\ \A i \in Inits : PutAsFarAs(i)
  /\ ContentsAreOwned
  /\ SyncedIsDurable
  /\ OneInitInstalls
  /\ I!EveryOutcomeListed
  /\ I!WriteStateIsTrue

\* The contents that came with a checkout are not a command's.
InitsAreApart == "git" \notin Inits

-----------------------------------------------------------------------------
(* The kinds of steps.                                                     *)

\* The write state s is what a command that put p did.
StateFits(s, p) ==
  /\ s \in {"not_attempted", "not_committed", "existing_untouched", I!Unconfirmed(TRUE), I!Unconfirmed(FALSE)} => p = {}
  /\ s = "project_committed_local_missing" => p = {"config"}
  /\ s = "installed_unconfirmed" => p # {}
  /\ s = "committed" => "local" \in p

\* What a step that touches neither file may do to the rest.
Around(i) ==
  /\ saw' = saw \/ saw' = [saw EXCEPT ![i] = I!Seen]
  /\ made' \in [Inits -> BOOLEAN]
  /\ dir' \in {"none", "volatile", "there"} /\ (dir = "there" => dir' = "there")
  /\ I!Calm \/ I!Upset
  /\ UNCHANGED <<refresh, config, local, put>>

\* The command reports a listed outcome, short of a commit, that is true.
ReportStep(i) ==
  /\ step[i] # "done"
  /\ \E s, d, c : I!Returns(i, s, d, c) /\ StateFits(s, put[i]) /\ s # "committed"
                              /\ c # "init_result_prevalidation_failed"
  /\ Around(i)

\* The command goes on before it has installed anything.
GoStep(i) ==
  /\ step[i] # "done" /\ put[i] = {}
  /\ \E s \in {"attest", "prepare", "reopen", "project", "local", "replace"} :
       /\ I!Goto(i, s)
       /\ s = "replace" => refresh[i]
       /\ s \notin {"attest", "prepare"} => dir' = "there"
  /\ Around(i)

\* A file is in place, still to be synced.
PutStep(i, name, next) ==
  /\ I!Put(i, name) /\ I!Goto(i, next)
  /\ UNCHANGED <<refresh, saw, dir, made, upsets>>

PutProject(i) ==
  /\ step[i] = "project" /\ config' = [config EXCEPT !.now = {i}] /\ UNCHANGED local
  /\ PutStep(i, "config", "syncProject")

PutLocal(i) ==
  /\ step[i] \in {"local", "replace"} /\ (step[i] = "local" => local.now = {})
  /\ local' = [local EXCEPT !.now = {i}] /\ UNCHANGED config
  /\ PutStep(i, "local", "syncLocal")

\* Both files are synced.
SyncStep(i) ==
  /\ \/ step[i] = "syncProject" /\ I!Goto(i, "local")
     \/ step[i] = "syncLocal" /\ I!Goto(i, "confirm")
  /\ config' = I!Same(config.now) /\ local' = I!Same(local.now)
  /\ UNCHANGED <<refresh, saw, dir, made, put, upsets>>

CommitStep(i) ==
  /\ step[i] = "confirm" /\ I!Returns(i, "committed", "present", I!NoCode)
  /\ UNCHANGED <<refresh, saw, dir, made, config, local, put, upsets>>

-----------------------------------------------------------------------------
(* Outcomes.                                                               *)

LEMMA NoCodeFacts == I!NoCode # "init_result_prevalidation_failed"
BY Zenon DEF I!NoCode

LEMMA UnconfirmedFacts ==
  /\ \A b \in BOOLEAN : I!Unconfirmed(b) \in {I!Unconfirmed(TRUE), I!Unconfirmed(FALSE)}
  /\ \A b \in BOOLEAN : I!UnconfirmedCode(b) # "init_result_prevalidation_failed"
BY DEF I!Unconfirmed, I!UnconfirmedCode

\* A listed outcome is reported as it is.
LEMMA ListedIsReported ==
  ASSUME NEW i, NEW s, NEW d, NEW c, I!MutationFailure(i, s, d, c), <<s, d, c>> \in I!MutationOutcomes
  PROVE  I!Returns(i, s, d, c)
BY DEF I!MutationFailure

\* The outcomes the failures of the install report are listed.
LEMMA ListedOutcomes ==
  /\ <<"existing_untouched", "present", "init_destination_exists">> \in I!MutationOutcomes
  /\ <<"project_committed_local_missing", "present", "init_local_write_failed">> \in I!MutationOutcomes
  /\ <<"not_committed", "not_observed", "init_private_dir_raced">> \in I!MutationOutcomes
BY DEF I!MutationOutcomes

LEMMA ListedUntouched ==
  ASSUME NEW c \in I!LocalityCodes
  PROVE  <<"existing_untouched", "present", c>> \in I!MutationOutcomes
BY DEF I!MutationOutcomes

LEMMA ListedNotCommitted ==
  ASSUME NEW d \in {"absent", "not_observed"}
  PROVE  <<"not_committed", d, "init_write_failed">> \in I!MutationOutcomes
BY DEF I!MutationOutcomes

LEMMA ListedUnconfirmed ==
  ASSUME NEW b \in BOOLEAN, NEW d \in I!AnyDestination, NEW c \in {I!UnconfirmedCode(b)} \cup I!LocalityCodes
  PROVE  <<I!Unconfirmed(b), d, c>> \in I!MutationOutcomes
<1>1. <<I!Unconfirmed(b), d, c>> \in {I!Unconfirmed(b)} \X I!AnyDestination \X ({I!UnconfirmedCode(b)} \cup I!LocalityCodes)
  OBVIOUS
<1>2. <<I!Unconfirmed(b), d, c>> \in
        UNION {{I!Unconfirmed(e)} \X I!AnyDestination \X ({I!UnconfirmedCode(e)} \cup I!LocalityCodes) : e \in BOOLEAN}
  BY <1>1
<1> QED
  BY <1>2 DEF I!MutationOutcomes

LEMMA ListedInstalled ==
  ASSUME NEW d \in {"present", "not_observed"}, NEW c \in {"init_commit_unconfirmed"} \cup I!LocalityCodes
  PROVE  <<"installed_unconfirmed", d, c>> \in I!MutationOutcomes
<1>1. <<"installed_unconfirmed", d, c>> \in
        {"installed_unconfirmed"} \X {"present", "not_observed"} \X ({"init_commit_unconfirmed"} \cup I!LocalityCodes)
  OBVIOUS
<1> QED
  BY <1>1 DEF I!MutationOutcomes

LEMMA LocalityFacts ==
  \A c \in I!LocalityCodes : c # "init_result_prevalidation_failed"
BY DEF I!LocalityCodes
-----------------------------------------------------------------------------
(* Every step of a command is of one of the kinds.                         *)

\* A listed outcome short of a commit that is true of what was put.
LEMMA Reports ==
  ASSUME NEW i, NEW s, NEW d, NEW c, I!MutationFailure(i, s, d, c), <<s, d, c>> \in I!MutationOutcomes,
         StateFits(s, put[i]), s # "committed", c # "init_result_prevalidation_failed",
         step[i] # "done", Around(i)
  PROVE  ReportStep(i)
BY ListedIsReported DEF ReportStep

\* Nothing was put, so every state that claims nothing was installed is true.
LEMMA NothingPutFits ==
  ASSUME NEW i \in Inits, put[i] = {}
  PROVE  /\ StateFits("not_attempted", put[i]) /\ StateFits("not_committed", put[i])
         /\ StateFits("existing_untouched", put[i])
         /\ \A b \in BOOLEAN : StateFits(I!Unconfirmed(b), put[i]) /\ I!Unconfirmed(b) # "committed"
BY DEF StateFits, I!Unconfirmed

LEMMA BeginKind ==
  ASSUME InstallInv, NEW i \in Inits, I!Begin(i)
  PROVE  ReportStep(i) \/ GoStep(i)
<1>1. put[i] = {} /\ step[i] # "done" /\ Around(i)
  BY DEF InstallInv, PutAsFarAs, I!Begin, Around, I!Calm, Shaped
<1>2. CASE I!Returns(i, "existing_untouched", "present", "init_destination_exists")
  BY <1>1, <1>2, NothingPutFits DEF ReportStep
<1>3. CASE I!Returns(i, "not_attempted", "not_observed", "init_local_missing")
  BY <1>1, <1>3, NothingPutFits DEF ReportStep
<1>4. CASE I!Goto(i, "attest")
  BY <1>1, <1>4 DEF GoStep
<1> QED BY <1>2, <1>3, <1>4 DEF I!Begin

LEMMA AttestKind ==
  ASSUME InstallInv, NEW i \in Inits, I!Attest(i)
  PROVE  ReportStep(i) \/ GoStep(i)
<1>1. put[i] = {} /\ step[i] # "done" /\ Around(i)
  BY DEF InstallInv, PutAsFarAs, I!Attest, Around, Shaped
<1>2. ASSUME NEW d, NEW c, I!Returns(i, "not_attempted", d, c), c # "init_result_prevalidation_failed"
      PROVE  ReportStep(i)
  BY <1>1, <1>2, NothingPutFits DEF ReportStep
<1>3. CASE I!Goto(i, "prepare")
  BY <1>1, <1>3 DEF GoStep
<1> QED BY <1>2, <1>3, LocalityFacts DEF I!Attest

LEMMA PrepareKind ==
  ASSUME InstallInv, NEW i \in Inits, I!Prepare(i)
  PROVE  ReportStep(i) \/ GoStep(i)
<1>1. put[i] = {} /\ step[i] # "done"
  BY DEF InstallInv, PutAsFarAs, I!Prepare
<1>2. Around(i)
  BY DEF InstallInv, I!Prepare, Around, Shaped
<1>3. ASSUME NEW s, NEW d, NEW c, I!MutationFailure(i, s, d, c), <<s, d, c>> \in I!MutationOutcomes,
             StateFits(s, put[i]), s # "committed", c # "init_result_prevalidation_failed"
      PROVE  ReportStep(i)
  BY <1>1, <1>2, <1>3, Reports
<1>4. CASE dir' = "there" /\ I!Goto(i, "reopen")
  BY <1>1, <1>2, <1>4 DEF GoStep
<1>5. CASE \E d \in {"absent", "not_observed"} : I!MutationFailure(i, "not_committed", d, "init_write_failed")
  BY <1>1, <1>3, <1>5, ListedNotCommitted, NothingPutFits
<1>6. CASE I!MutationFailure(i, "existing_untouched", "present", "init_destination_exists")
  BY <1>1, <1>3, <1>6, ListedOutcomes, NothingPutFits
<1>7. CASE I!MutationFailure(i, "not_committed", "not_observed", "init_private_dir_raced")
  BY <1>1, <1>3, <1>7, ListedOutcomes, NothingPutFits
<1>8. CASE \E b \in BOOLEAN, d \in I!AnyDestination : \E c \in {I!UnconfirmedCode(b)} \cup I!LocalityCodes :
             I!MutationFailure(i, I!Unconfirmed(b), d, c)
  <2>1. PICK b \in BOOLEAN, d \in I!AnyDestination : \E c \in {I!UnconfirmedCode(b)} \cup I!LocalityCodes :
          I!MutationFailure(i, I!Unconfirmed(b), d, c)
    BY <1>8
  <2>2. PICK c \in {I!UnconfirmedCode(b)} \cup I!LocalityCodes : I!MutationFailure(i, I!Unconfirmed(b), d, c)
    BY <2>1
  <2> QED BY <1>1, <1>3, <2>2, ListedUnconfirmed, NothingPutFits, UnconfirmedFacts, LocalityFacts
<1>9. "config_locality_drifted" \in I!LocalityCodes /\ I!Observed(config) \in I!AnyDestination
      /\ "not_observed" \in I!AnyDestination /\ (dir = "none") \in BOOLEAN
  BY DEF I!LocalityCodes, I!Observed, I!AnyDestination
<1> QED BY <1>4, <1>5, <1>6, <1>7, <1>8, <1>9 DEF I!Prepare

LEMMA ReopenKind ==
  ASSUME InstallInv, NEW i \in Inits, I!Reopen(i)
  PROVE  ReportStep(i) \/ GoStep(i)
<1>1. put[i] = {} /\ step[i] # "done" /\ dir = "there" /\ made[i] \in BOOLEAN
  BY DEF InstallInv, PutAsFarAs, I!Reopen, Shaped
<1>2. Around(i)
  BY DEF InstallInv, I!Reopen, Around, Shaped
<1>3. CASE I!MutationFailure(i, "existing_untouched", "present", "init_destination_exists")
  BY <1>1, <1>2, <1>3, ListedOutcomes, NothingPutFits, Reports
<1>4. CASE I!Goto(i, IF refresh[i] /\ I!Present(saw[i]) THEN "replace"
                   ELSE IF I!ProjectPresent(saw[i]) THEN "local" ELSE "project")
  <2>1. PICK s : s = IF refresh[i] /\ I!Present(saw[i]) THEN "replace"
                     ELSE IF I!ProjectPresent(saw[i]) THEN "local" ELSE "project"
    OBVIOUS
  <2>2. s \in {"replace", "local", "project"} /\ (s = "replace" => refresh[i])
    BY <2>1
  <2>3. I!Goto(i, s) /\ dir' = "there"
    BY <1>1, <1>4, <2>1 DEF I!Reopen
  <2> QED BY <1>1, <1>2, <2>2, <2>3 DEF GoStep
<1>5. ASSUME NEW c \in I!LocalityCodes, NEW d \in {"absent", "not_observed"},
             I!DirectoryLocalityFailure(i, made[i], d, c)
      PROVE  ReportStep(i)
  <2>1. I!MutationFailure(i, I!Unconfirmed(made[i]), d, c)
    BY <1>5 DEF I!DirectoryLocalityFailure
  <2>2. <<I!Unconfirmed(made[i]), d, c>> \in I!MutationOutcomes
    BY <1>1, ListedUnconfirmed DEF I!AnyDestination
  <2> QED BY <1>1, <1>2, <2>1, <2>2, NothingPutFits, LocalityFacts, Reports
<1> QED BY <1>3, <1>4, <1>5 DEF I!Reopen

\* What follows the directory's preparation leaves the rest alone.
LEMMA AfterPrepare ==
  ASSUME InstallInv, NEW i \in Inits, UNCHANGED <<refresh, saw, dir, made, config, local, put>>, I!Calm \/ I!Upset
  PROVE  Around(i)
BY DEF InstallInv, Around, Shaped

\* A failed install reports what it left: nothing, or config.yaml alone.
LEMMA InstallFailureReports ==
  ASSUME InstallInv, NEW i \in Inits, NEW f, NEW partial \in BOOLEAN, NEW collision \in BOOLEAN,
         I!InstallFailure(i, f, partial, collision), step[i] # "done", Around(i),
         collision \/ f.now = {}, put[i] = IF partial THEN {"config"} ELSE {}
  PROVE  ReportStep(i)
<1>1. made[i] \in BOOLEAN
  BY DEF InstallInv, Shaped
<1>2. CASE partial
  <2>1. I!MutationFailure(i, "project_committed_local_missing", "present", "init_local_write_failed")
    BY <1>2 DEF I!InstallFailure
  <2>2. StateFits("project_committed_local_missing", put[i])
    BY <1>2 DEF StateFits, I!Unconfirmed
  <2> QED BY <2>1, <2>2, ListedOutcomes, Reports
<1>3. CASE ~partial /\ collision
  <2>1. I!MutationFailure(i, "existing_untouched", "present", "init_destination_exists")
    BY <1>3 DEF I!InstallFailure
  <2> QED BY <1>3, <2>1, ListedOutcomes, NothingPutFits, Reports
<1>4. CASE ~partial /\ ~collision
  <2>1. I!Observed(f) = "absent" /\ put[i] = {}
    BY <1>4 DEF I!Observed
  <2>2. CASE \E d \in {"absent", "not_observed"} : I!MutationFailure(i, "not_committed", d, "init_write_failed")
    <3>1. PICK d \in {"absent", "not_observed"} : I!MutationFailure(i, "not_committed", d, "init_write_failed")
      BY <2>2
    <3> QED BY <2>1, <3>1, ListedNotCommitted, NothingPutFits, Reports
  <2>3. CASE I!DirectoryLocalityFailure(i, made[i], "absent", "config_locality_drifted")
    <3>1. I!MutationFailure(i, I!Unconfirmed(made[i]), "absent", "config_locality_drifted")
      BY <2>3 DEF I!DirectoryLocalityFailure
    <3>2. "config_locality_drifted" \in I!LocalityCodes /\ "absent" \in I!AnyDestination
      BY DEF I!LocalityCodes, I!AnyDestination
    <3>3. <<I!Unconfirmed(made[i]), "absent", "config_locality_drifted">> \in I!MutationOutcomes
      BY <1>1, <3>2, ListedUnconfirmed
    <3> QED BY <1>1, <2>1, <3>1, <3>3, NothingPutFits, Reports
  <2> QED BY <1>4, <2>1, <2>2, <2>3 DEF I!InstallFailure
<1> QED BY <1>2, <1>3, <1>4

LEMMA InstallProjectKind ==
  ASSUME InstallInv, NEW i \in Inits, I!InstallProject(i)
  PROVE  ReportStep(i) \/ PutProject(i)
<1>1. put[i] = {} /\ step[i] # "done"
  BY DEF InstallInv, PutAsFarAs, I!InstallProject
<1>2. CASE config' = [config EXCEPT !.now = {i}] /\ I!Put(i, "config") /\ I!Goto(i, "syncProject") /\ I!Calm
  BY <1>2 DEF I!InstallProject, PutProject, PutStep, I!Calm
<1>3. ASSUME NEW collision \in BOOLEAN, I!InstallFailure(i, config, FALSE, collision), I!Calm \/ I!Upset,
             UNCHANGED <<config, put>>, collision \/ config.now = {}
      PROVE  ReportStep(i)
  <2>1. Around(i)
    BY <1>3, AfterPrepare DEF I!InstallProject
  <2> QED BY <1>1, <1>3, <2>1, InstallFailureReports
<1> QED BY <1>2, <1>3 DEF I!InstallProject

LEMMA InstallLocalKind ==
  ASSUME InstallInv, NEW i \in Inits, I!InstallLocal(i)
  PROVE  ReportStep(i) \/ PutLocal(i)
<1>1. put[i] \subseteq {"config"} /\ step[i] # "done"
  BY DEF InstallInv, PutAsFarAs, I!InstallLocal
<1>2. CASE local.now = {} /\ local' = [local EXCEPT !.now = {i}] /\ I!Put(i, "local") /\ I!Goto(i, "syncLocal") /\ I!Calm
  BY <1>2 DEF I!InstallLocal, PutLocal, PutStep, I!Calm
<1>3. PICK partial \in BOOLEAN : partial <=> "config" \in put[i]
  OBVIOUS
<1>4. put[i] = IF partial THEN {"config"} ELSE {}
  BY <1>1, <1>3
<1>5. ASSUME NEW collision \in BOOLEAN, I!InstallFailure(i, local, "config" \in put[i], collision), I!Calm \/ I!Upset,
             UNCHANGED <<local, put>>, collision \/ local.now = {}
      PROVE  ReportStep(i)
  <2>1. Around(i)
    BY <1>5, AfterPrepare DEF I!InstallLocal
  <2>2. I!InstallFailure(i, local, partial, collision)
    BY <1>3, <1>5 DEF I!InstallFailure
  <2> QED BY <1>1, <1>4, <1>5, <2>1, <2>2, InstallFailureReports
<1> QED BY <1>2, <1>5 DEF I!InstallLocal

LEMMA ReplaceLocalKind ==
  ASSUME InstallInv, NEW i \in Inits, I!ReplaceLocal(i)
  PROVE  ReportStep(i) \/ PutLocal(i)
<1>1. put[i] = {} /\ step[i] # "done" /\ made[i] \in BOOLEAN
  BY DEF InstallInv, PutAsFarAs, I!ReplaceLocal, Shaped
<1>2. CASE local' = [local EXCEPT !.now = {i}] /\ I!Put(i, "local") /\ I!Goto(i, "syncLocal") /\ I!Calm
  BY <1>2 DEF I!ReplaceLocal, PutLocal, PutStep, I!Calm
<1>3. CASE UNCHANGED <<local, put>> /\ (I!Calm \/ I!Upset)
  <2>1. Around(i)
    BY <1>3, AfterPrepare DEF I!ReplaceLocal
  <2>2. ASSUME NEW d \in {"absent", "not_observed"}, I!MutationFailure(i, "not_committed", d, "init_write_failed")
        PROVE  ReportStep(i)
    BY <1>1, <2>1, <2>2, ListedNotCommitted, NothingPutFits, Reports
  <2>3. CASE I!MutationFailure(i, "existing_untouched", "present", "init_destination_exists")
    BY <1>1, <2>1, <2>3, ListedOutcomes, NothingPutFits, Reports
  <2>4. CASE I!DirectoryLocalityFailure(i, made[i], "not_observed", "config_locality_drifted")
    <3>1. I!MutationFailure(i, I!Unconfirmed(made[i]), "not_observed", "config_locality_drifted")
      BY <2>4 DEF I!DirectoryLocalityFailure
    <3>2. "config_locality_drifted" \in I!LocalityCodes /\ "not_observed" \in I!AnyDestination
      BY DEF I!LocalityCodes, I!AnyDestination
    <3>3. <<I!Unconfirmed(made[i]), "not_observed", "config_locality_drifted">> \in I!MutationOutcomes
      BY <1>1, <3>2, ListedUnconfirmed
    <3> QED BY <1>1, <2>1, <3>1, <3>3, NothingPutFits, Reports
  <2>5. CASE local' = [local EXCEPT !.now = {i}] /\ I!Put(i, "local") /\ I!Goto(i, "syncLocal") /\ I!Calm
    BY <2>5, <1>2
  <2> QED BY <2>2, <2>3, <2>4, <2>5 DEF I!ReplaceLocal
<1> QED BY <1>2, <1>3 DEF I!ReplaceLocal

\* After the rename every failure is reported as an unconfirmed install.
LEMMA UnconfirmedInstallReports ==
  ASSUME NEW i \in Inits, NEW d \in {"present", "not_observed"},
         NEW c \in {"init_commit_unconfirmed", "config_locality_drifted"} \cup I!LocalityCodes,
         I!MutationFailure(i, "installed_unconfirmed", d, c), put[i] # {}, step[i] # "done", Around(i)
  PROVE  ReportStep(i)
<1>1. c \in {"init_commit_unconfirmed"} \cup I!LocalityCodes /\ c # "init_result_prevalidation_failed"
  BY DEF I!LocalityCodes
<1>2. StateFits("installed_unconfirmed", put[i])
  BY DEF StateFits, I!Unconfirmed
<1> QED BY <1>1, <1>2, ListedInstalled, Reports

LEMMA SyncKind ==
  ASSUME InstallInv, NEW i \in Inits, I!SyncProject(i) \/ I!SyncLocal(i)
  PROVE  ReportStep(i) \/ SyncStep(i)
<1>1. put[i] # {} /\ step[i] # "done"
  BY DEF InstallInv, PutAsFarAs, I!SyncProject, I!SyncLocal
<1>2. PICK f, next : /\ I!Sync(i, f, next)
                        /\ \/ step[i] = "syncProject" /\ next = "local"
                           \/ step[i] = "syncLocal" /\ next = "confirm"
  BY DEF I!SyncProject, I!SyncLocal
<1>3. UNCHANGED <<refresh, saw, dir, made, put>>
  BY DEF I!SyncProject, I!SyncLocal
<1>4. CASE config' = I!Same(config.now) /\ local' = I!Same(local.now) /\ I!Goto(i, next) /\ I!Calm
  BY <1>2, <1>3, <1>4 DEF SyncStep, I!Calm
<1>5. CASE (I!Calm \/ I!Upset) /\ UNCHANGED <<config, local>>
           /\ \E d \in {"present", "not_observed"}, c \in {"init_commit_unconfirmed", "config_locality_drifted"} :
                I!MutationFailure(i, "installed_unconfirmed", d, c)
  <2>1. Around(i)
    BY <1>3, <1>5, AfterPrepare
  <2> QED BY <1>1, <1>5, <2>1, UnconfirmedInstallReports
<1> QED BY <1>2, <1>4, <1>5 DEF I!Sync

LEMMA ConfirmKind ==
  ASSUME InstallInv, NEW i \in Inits, I!Confirm(i)
  PROVE  ReportStep(i) \/ CommitStep(i)
<1>1. put[i] # {} /\ step[i] # "done" /\ Around(i)
  BY AfterPrepare DEF InstallInv, PutAsFarAs, I!Confirm
<1>2. CASE I!Calm /\ I!Returns(i, "committed", "present", I!NoCode)
  BY <1>2 DEF I!Confirm, CommitStep, I!Calm
<1>3. CASE \E d \in {"present", "not_observed"}, c \in {"config_locality_drifted"} \cup I!LocalityCodes :
             I!MutationFailure(i, "installed_unconfirmed", d, c)
  BY <1>1, <1>3, UnconfirmedInstallReports
<1> QED BY <1>2, <1>3 DEF I!Confirm

LEMMA KillKind ==
  ASSUME InstallInv, NEW i \in Inits, I!Kill(i)
  PROVE  ReportStep(i)
<1>1. step[i] # "done" /\ Around(i)
  BY AfterPrepare DEF I!Kill
<1>2. StateFits("killed", put[i])
  BY DEF StateFits, I!Unconfirmed
<1> QED BY <1>1, <1>2, NoCodeFacts DEF I!Kill, ReportStep
-----------------------------------------------------------------------------
(* The invariant holds initially, and every kind of step keeps it.         *)

LEMMA EmptyContents == {} \in Contents /\ \A x \in Inits \cup {"git"} : {x} \in Contents
BY DEF Contents

LEMMA InstallInit == I!Init => InstallInv
<1> SUFFICES ASSUME I!Init PROVE InstallInv
  OBVIOUS
<1>1. Shaped
  <2>1. config \in [now : Contents, disk : Contents] /\ local \in [now : Contents, disk : Contents]
    <3>1. {"git"} \in Contents /\ {} \in Contents
      BY EmptyContents
    <3>2. \A c \in Contents : I!Same(c) \in [now : Contents, disk : Contents]
      BY DEF I!Same
    <3>3. I!Empty = I!Same({})
      BY DEF I!Empty, I!Same
    <3> QED BY <3>1, <3>2, <3>3 DEF I!Init
  <2>2. saw \in [Inits -> Contents \X Contents]
    BY EmptyContents DEF I!Init
  <2>3. step \in [Inits -> Steps] /\ made \in [Inits -> BOOLEAN] /\ put \in [Inits -> SUBSET {"config", "local"}]
    BY DEF I!Init, Steps
  <2>4. verdict = [i \in Inits |-> verdict[i]]
    BY DEF I!Init
  <2> QED BY <2>1, <2>2, <2>3, <2>4 DEF I!Init, Shaped
<1>2. \A i \in Inits : PutAsFarAs(i)
  BY DEF I!Init, PutAsFarAs
<1>3. ContentsAreOwned
  BY DEF I!Init, ContentsAreOwned, I!Empty, I!Same
<1>4. SyncedIsDurable
  BY DEF I!Init, SyncedIsDurable, Synced, Durable, I!Empty, I!Same, I!Running
<1>5. OneInitInstalls
  BY DEF I!Init, OneInitInstalls
<1>6. I!EveryOutcomeListed
  BY NoCodeFacts DEF I!Init, I!EveryOutcomeListed, I!Running
<1>7. I!WriteStateIsTrue
  BY DEF I!Init, I!WriteStateIsTrue, I!Running, I!Unconfirmed
<1> QED BY <1>1, <1>2, <1>3, <1>4, <1>5, <1>6, <1>7 DEF InstallInv

LEMMA WriteStateFits == I!WriteStateIsTrue <=> \A i \in Inits : StateFits(verdict[i][1], put[i])
BY DEF I!WriteStateIsTrue, StateFits

\* The upsets are counted, so none after a step means none before it.
LEMMA UpsetsOnlyGrow ==
  ASSUME upsets \in Nat, I!Calm \/ I!Upset
  PROVE  upsets' \in Nat /\ (upsets' = 0 => upsets = 0)
BY DEF I!Calm, I!Upset

LEMMA SeenIsContents ==
  ASSUME Shaped
  PROVE  I!Seen \in Contents \X Contents /\ I!Seen[1] = config.now
BY EmptyContents DEF Shaped, I!Seen

\* What a step around the files keeps, whatever it does to its command.
LEMMA AroundKeeps ==
  ASSUME InstallInv, NEW i \in Inits, Around(i)
  PROVE  /\ saw' \in [Inits -> Contents \X Contents]
         /\ \A j \in Inits : j # i => saw'[j] = saw[j]
         /\ ContentsAreOwned'
         /\ OneInitInstalls'
         /\ upsets' \in Nat
<1>1. saw \in [Inits -> Contents \X Contents] /\ I!Seen \in Contents \X Contents /\ I!Seen[1] = config.now
  BY SeenIsContents DEF InstallInv, Shaped
<1>2. saw' \in [Inits -> Contents \X Contents] /\ \A j \in Inits : j # i => saw'[j] = saw[j]
  BY <1>1 DEF Around
<1>3. \A j \in Inits : saw'[j][1] = saw[j][1] \/ saw'[j][1] = config.now
  BY <1>1 DEF Around
<1>4. ContentsAreOwned'
  BY <1>3 DEF InstallInv, ContentsAreOwned, Around, Wrote
<1>5. upsets' \in Nat /\ (upsets' = 0 => upsets = 0)
  BY UpsetsOnlyGrow DEF InstallInv, Shaped, Around
<1>6. OneInitInstalls'
  BY <1>5 DEF InstallInv, OneInitInstalls, Around
<1> QED BY <1>2, <1>4, <1>5, <1>6

LEMMA ReportKeeps ==
  ASSUME InstallInv, NEW i \in Inits, ReportStep(i)
  PROVE  InstallInv'
<1>1. PICK s, d, c : /\ I!Returns(i, s, d, c) /\ StateFits(s, put[i]) /\ s # "committed"
                     /\ c # "init_result_prevalidation_failed"
  BY DEF ReportStep
<1>2. Around(i)
  BY DEF ReportStep
<1>3. step' \in [Inits -> Steps] /\ step'[i] = "done" /\ \A j \in Inits : j # i => step'[j] = step[j]
  BY <1>1 DEF InstallInv, Shaped, I!Returns, Steps
<1>4. /\ verdict' = [j \in Inits |-> verdict'[j]] /\ verdict'[i] = <<s, d, c>>
      /\ \A j \in Inits : j # i => verdict'[j] = verdict[j]
  BY <1>1 DEF InstallInv, Shaped, I!Returns
<1>5. verdict'[i][1] = s /\ verdict'[i][3] = c
  BY <1>4
<1>6. Shaped'
  BY <1>2, <1>3, <1>4, AroundKeeps DEF InstallInv, Shaped, Around
<1>7. \A j \in Inits : PutAsFarAs(j)'
  BY <1>2, <1>3, <1>4 DEF InstallInv, PutAsFarAs, Around
<1>8. SyncedIsDurable'
  <2>1. \A j \in Inits : Synced(j)' => j # i /\ Synced(j)
    BY <1>1, <1>3, <1>4, <1>5 DEF Synced
  <2>2. \A j \in Inits : j # i => I!Admitted(j)' = I!Admitted(j)
    BY <1>2, AroundKeeps DEF I!Admitted, Around
  <2> QED BY <1>2, <2>1, <2>2 DEF InstallInv, SyncedIsDurable, Durable, Around
<1>9. I!EveryOutcomeListed'
  BY <1>1, <1>4, <1>5 DEF InstallInv, I!EveryOutcomeListed
<1>10. I!WriteStateIsTrue'
  <2>1. \A j \in Inits : StateFits(verdict'[j][1], put'[j])
    BY <1>1, <1>2, <1>4, <1>5, WriteStateFits DEF InstallInv, Around
  <2> QED BY <2>1 DEF I!WriteStateIsTrue, StateFits
<1> QED BY <1>2, <1>6, <1>7, <1>8, <1>9, <1>10, AroundKeeps DEF InstallInv

LEMMA GoKeeps ==
  ASSUME InstallInv, NEW i \in Inits, GoStep(i)
  PROVE  InstallInv'
<1>1. PICK s \in {"attest", "prepare", "reopen", "project", "local", "replace"} :
        I!Goto(i, s) /\ (s = "replace" => refresh[i]) /\ (s \notin {"attest", "prepare"} => dir' = "there")
  BY DEF GoStep
<1>2. Around(i) /\ put[i] = {} /\ step[i] # "done" /\ UNCHANGED verdict
  BY <1>1 DEF GoStep, I!Goto
<1>3. step' \in [Inits -> Steps] /\ step'[i] = s /\ \A j \in Inits : j # i => step'[j] = step[j]
  BY <1>1 DEF InstallInv, Shaped, I!Goto, Steps
<1>4. Shaped'
  BY <1>2, <1>3, AroundKeeps DEF InstallInv, Shaped, Around
<1>5. \A j \in Inits : PutAsFarAs(j)'
  BY <1>1, <1>2, <1>3 DEF InstallInv, PutAsFarAs, Around
<1>6. SyncedIsDurable'
  <2>1. verdict[i] = I!Running
    BY <1>2 DEF InstallInv, PutAsFarAs
  <2>2. \A j \in Inits : Synced(j)' => j # i /\ Synced(j)
    BY <1>1, <1>2, <1>3, <2>1 DEF Synced, I!Running
  <2>3. \A j \in Inits : j # i => I!Admitted(j)' = I!Admitted(j)
    BY <1>2, AroundKeeps DEF I!Admitted, Around
  <2> QED BY <1>2, <2>2, <2>3 DEF InstallInv, SyncedIsDurable, Durable, Around
<1>7. I!EveryOutcomeListed' /\ I!WriteStateIsTrue'
  BY <1>2 DEF InstallInv, I!EveryOutcomeListed, I!WriteStateIsTrue, Around
<1> QED BY <1>2, <1>4, <1>5, <1>6, <1>7, AroundKeeps DEF InstallInv

\* The frame of a step that puts a file: who was where, and what it wrote.
LEMMA PutFrame ==
  ASSUME InstallInv, NEW i \in Inits, NEW name \in {"config", "local"}, NEW next \in Steps, PutStep(i, name, next),
         step[i] \in {"project", "local", "replace"}
  PROVE  /\ step' \in [Inits -> Steps] /\ step'[i] = next /\ \A j \in Inits : j # i => step'[j] = step[j]
         /\ put' \in [Inits -> SUBSET {"config", "local"}] /\ put'[i] = put[i] \cup {name}
         /\ \A j \in Inits : j # i => put'[j] = put[j]
         /\ UNCHANGED <<refresh, saw, dir, made, upsets, verdict>>
         /\ verdict[i] = I!Running
BY DEF InstallInv, PutAsFarAs, Shaped, PutStep, I!Put, I!Goto

LEMMA PutProjectKeeps ==
  ASSUME InstallInv, InitsAreApart, NEW i \in Inits, PutProject(i)
  PROVE  InstallInv'
<1>1. /\ step' \in [Inits -> Steps] /\ step'[i] = "syncProject" /\ \A j \in Inits : j # i => step'[j] = step[j]
      /\ put' \in [Inits -> SUBSET {"config", "local"}] /\ put'[i] = put[i] \cup {"config"}
      /\ \A j \in Inits : j # i => put'[j] = put[j]
      /\ UNCHANGED <<refresh, saw, dir, made, upsets, verdict>>
      /\ verdict[i] = I!Running
  BY PutFrame DEF PutProject, Steps
<1>2. config' \in [now : Contents, disk : Contents] /\ config'.now = {i} /\ config'.disk = config.disk /\ UNCHANGED local
  BY EmptyContents DEF PutProject, InstallInv, Shaped
<1>3. put[i] = {} /\ step[i] = "project"
  BY DEF PutProject, InstallInv, PutAsFarAs
<1>4. Shaped'
  BY <1>1, <1>2 DEF InstallInv, Shaped
<1>5. \A j \in Inits : PutAsFarAs(j)'
  BY <1>1, <1>3 DEF InstallInv, PutAsFarAs
<1>6. ContentsAreOwned'
  BY <1>1, <1>2 DEF InstallInv, ContentsAreOwned, Wrote
<1>7. SyncedIsDurable'
  <2>1. \A j \in Inits : Synced(j)' => j # i /\ Synced(j)
    BY <1>1 DEF Synced, I!Running
  <2>2. \A j \in Inits : j # i => I!Admitted(j)' = I!Admitted(j)
    BY <1>1 DEF I!Admitted
  <2>3. i \notin Wrote("config") /\ i # "git"
    BY <1>3 DEF Wrote, InitsAreApart
  <2>4. \A j \in Inits : j # i => i \notin I!Admitted(j)[1]
    BY <2>3 DEF I!Admitted, InstallInv, ContentsAreOwned
  <2> QED BY <1>1, <1>2, <2>1, <2>2, <2>3, <2>4 DEF InstallInv, SyncedIsDurable, Durable
<1>8. OneInitInstalls'
  BY <1>1, <1>2, <1>3 DEF InstallInv, OneInitInstalls
<1>9. I!EveryOutcomeListed'
  BY <1>1 DEF InstallInv, I!EveryOutcomeListed
<1>10. I!WriteStateIsTrue'
  BY <1>1 DEF InstallInv, I!WriteStateIsTrue, I!Running, I!Unconfirmed
<1> QED BY <1>4, <1>5, <1>6, <1>7, <1>8, <1>9, <1>10 DEF InstallInv

LEMMA PutLocalKeeps ==
  ASSUME InstallInv, NEW i \in Inits, PutLocal(i)
  PROVE  InstallInv'
<1>1. /\ step' \in [Inits -> Steps] /\ step'[i] = "syncLocal" /\ \A j \in Inits : j # i => step'[j] = step[j]
      /\ put' \in [Inits -> SUBSET {"config", "local"}] /\ put'[i] = put[i] \cup {"local"}
      /\ \A j \in Inits : j # i => put'[j] = put[j]
      /\ UNCHANGED <<refresh, saw, dir, made, upsets, verdict>>
      /\ verdict[i] = I!Running
  BY PutFrame DEF PutLocal, Steps
<1>2. local' \in [now : Contents, disk : Contents] /\ local'.now = {i} /\ local'.disk = local.disk /\ UNCHANGED config
  BY EmptyContents DEF PutLocal, InstallInv, Shaped
<1>3. (step[i] = "local" => local.now = {}) /\ (step[i] = "replace" => refresh[i]) /\ step[i] \in {"local", "replace"}
  BY DEF PutLocal, InstallInv, PutAsFarAs
<1>4. Shaped'
  BY <1>1, <1>2 DEF InstallInv, Shaped
<1>5. \A j \in Inits : PutAsFarAs(j)'
  BY <1>1, <1>3 DEF InstallInv, PutAsFarAs
<1>6. ContentsAreOwned'
  BY <1>1, <1>2 DEF InstallInv, ContentsAreOwned, Wrote
<1>7. SyncedIsDurable'
  <2>1. \A j \in Inits : Synced(j)' => j # i /\ Synced(j)
    BY <1>1 DEF Synced, I!Running
  <2>2. \A j \in Inits : j # i => I!Admitted(j)' = I!Admitted(j)
    BY <1>1 DEF I!Admitted
  <2> QED BY <1>1, <1>2, <2>1, <2>2 DEF InstallInv, SyncedIsDurable, Durable
<1>8. OneInitInstalls'
  <2>1. upsets = 0 /\ local.now = {} => \A j \in Inits : "local" \notin put[j]
    BY DEF InstallInv, OneInitInstalls
  <2>2. upsets = 0 /\ ~refresh[i] => \A j \in Inits : "local" \notin put[j]
    BY <1>3, <2>1
  <2> QED BY <1>1, <1>2, <2>2 DEF InstallInv, OneInitInstalls
<1>9. I!EveryOutcomeListed'
  BY <1>1 DEF InstallInv, I!EveryOutcomeListed
<1>10. I!WriteStateIsTrue'
  BY <1>1 DEF InstallInv, I!WriteStateIsTrue, I!Running, I!Unconfirmed
<1> QED BY <1>4, <1>5, <1>6, <1>7, <1>8, <1>9, <1>10 DEF InstallInv

LEMMA SyncKeeps ==
  ASSUME InstallInv, NEW i \in Inits, SyncStep(i)
  PROVE  InstallInv'
<1>1. /\ step' \in [Inits -> Steps] /\ \A j \in Inits : j # i => step'[j] = step[j]
      /\ \/ step[i] = "syncProject" /\ step'[i] = "local"
         \/ step[i] = "syncLocal" /\ step'[i] = "confirm"
  BY DEF SyncStep, I!Goto, InstallInv, Shaped, Steps
<1>2. UNCHANGED <<verdict, refresh, saw, dir, made, put, upsets>>
  BY DEF SyncStep, I!Goto
<1>3. /\ config' \in [now : Contents, disk : Contents] /\ config'.now = config.now /\ config'.disk = config.now
      /\ local' \in [now : Contents, disk : Contents] /\ local'.now = local.now /\ local'.disk = local.now
  BY DEF SyncStep, I!Same, InstallInv, Shaped
<1>4. Shaped'
  BY <1>1, <1>2, <1>3 DEF InstallInv, Shaped
<1>5. \A j \in Inits : PutAsFarAs(j)'
  BY <1>1, <1>2 DEF InstallInv, PutAsFarAs
<1>6. ContentsAreOwned'
  BY <1>2, <1>3 DEF InstallInv, ContentsAreOwned, Wrote
<1>7. SyncedIsDurable'
  <2>1. \A x : Durable(config, x)' /\ Durable(local, x)'
    BY <1>3 DEF Durable
  <2>2. \A j \in Inits : Synced(j)' => dir' = "there"
    BY <1>1, <1>2 DEF Synced, InstallInv, SyncedIsDurable, PutAsFarAs
  <2> QED BY <2>1, <2>2 DEF SyncedIsDurable, Durable
<1>8. OneInitInstalls'
  BY <1>2, <1>3 DEF InstallInv, OneInitInstalls
<1>9. I!EveryOutcomeListed' /\ I!WriteStateIsTrue'
  BY <1>2 DEF InstallInv, I!EveryOutcomeListed, I!WriteStateIsTrue
<1> QED BY <1>4, <1>5, <1>6, <1>7, <1>8, <1>9 DEF InstallInv

LEMMA CommitKeeps ==
  ASSUME InstallInv, NEW i \in Inits, CommitStep(i)
  PROVE  InstallInv'
<1>1. step' \in [Inits -> Steps] /\ step'[i] = "done" /\ step[i] = "confirm"
      /\ \A j \in Inits : j # i => step'[j] = step[j]
  BY DEF CommitStep, I!Returns, InstallInv, Shaped, Steps
<1>2. /\ verdict' = [j \in Inits |-> verdict'[j]] /\ verdict'[i] = <<"committed", "present", I!NoCode>>
      /\ \A j \in Inits : j # i => verdict'[j] = verdict[j]
  BY DEF CommitStep, I!Returns, InstallInv, Shaped
<1>3. UNCHANGED <<refresh, saw, dir, made, config, local, put, upsets>>
  BY DEF CommitStep
<1>4. Shaped'
  BY <1>1, <1>2, <1>3 DEF InstallInv, Shaped
<1>5. \A j \in Inits : PutAsFarAs(j)'
  BY <1>1, <1>2, <1>3 DEF InstallInv, PutAsFarAs
<1>6. ContentsAreOwned' /\ OneInitInstalls'
  BY <1>3 DEF InstallInv, ContentsAreOwned, OneInitInstalls, Wrote
<1>7. SyncedIsDurable'
  <2>1. \A j \in Inits : Synced(j)' => Synced(j)
    BY <1>1, <1>2 DEF Synced
  <2>2. \A j \in Inits : I!Admitted(j)' = I!Admitted(j)
    BY <1>3 DEF I!Admitted
  <2> QED BY <1>3, <2>1, <2>2 DEF InstallInv, SyncedIsDurable, Durable
<1>8. verdict'[i][1] = "committed" /\ verdict'[i][3] = I!NoCode
  BY <1>2
<1>9. I!EveryOutcomeListed'
  BY <1>2, <1>8, NoCodeFacts DEF InstallInv, I!EveryOutcomeListed
<1>10. I!WriteStateIsTrue'
  <2>1. "local" \in put[i]
    BY <1>1 DEF InstallInv, PutAsFarAs
  <2>2. \A j \in Inits : StateFits(verdict'[j][1], put'[j])
    BY <1>2, <1>3, <1>8, <2>1, WriteStateFits DEF InstallInv, StateFits, I!Unconfirmed
  <2> QED BY <2>2 DEF I!WriteStateIsTrue, StateFits
<1> QED BY <1>4, <1>5, <1>6, <1>7, <1>9, <1>10 DEF InstallInv

\* A user takes a file away: what is not there need not be durable.
LEMMA UserRemovesKeeps ==
  ASSUME InstallInv, I!UserRemoves
  PROVE  InstallInv'
<1>1. UNCHANGED <<step, refresh, saw, dir, made, put, verdict>>
  BY DEF I!UserRemoves
<1>2. upsets' \in Nat /\ upsets' # 0
  BY DEF I!UserRemoves, I!Upset, InstallInv, Shaped
<1>3. /\ config' \in [now : Contents, disk : Contents] /\ config'.disk = config.disk
      /\ local' \in [now : Contents, disk : Contents] /\ local'.disk = local.disk
      /\ config'.now \subseteq config.now /\ local'.now \subseteq local.now
  BY EmptyContents DEF I!UserRemoves, InstallInv, Shaped
<1>4. Shaped'
  BY <1>1, <1>2, <1>3 DEF InstallInv, Shaped
<1>5. \A j \in Inits : PutAsFarAs(j)'
  BY <1>1 DEF InstallInv, PutAsFarAs
<1>6. ContentsAreOwned'
  BY <1>1, <1>3 DEF InstallInv, ContentsAreOwned, Wrote
<1>7. SyncedIsDurable'
  <2>1. \A j \in Inits : (Synced(j)' <=> Synced(j)) /\ I!Admitted(j)' = I!Admitted(j)
    BY <1>1 DEF Synced, I!Admitted
  <2>2. \A x : (Durable(config, x) => Durable(config, x)') /\ (Durable(local, x) => Durable(local, x)')
    BY <1>3 DEF Durable
  <2> QED BY <1>1, <2>1, <2>2 DEF InstallInv, SyncedIsDurable
<1>8. OneInitInstalls'
  BY <1>2 DEF OneInitInstalls
<1>9. I!EveryOutcomeListed' /\ I!WriteStateIsTrue'
  BY <1>1 DEF InstallInv, I!EveryOutcomeListed, I!WriteStateIsTrue
<1> QED BY <1>4, <1>5, <1>6, <1>7, <1>8, <1>9 DEF InstallInv

\* After a power loss a file holds what it held or what was on the disk; commands end.
LEMMA PowerLossKeeps ==
  ASSUME InstallInv, I!PowerLoss
  PROVE  InstallInv'
<1>1. /\ UNCHANGED <<refresh, saw, made, put>>
      /\ step' \in [Inits -> Steps]
      /\ \A j \in Inits : step'[j] = "done" \/ (step'[j] = "begin" /\ step[j] = "begin")
  BY DEF I!PowerLoss, InstallInv, Shaped, Steps
<1>2. /\ verdict' = [j \in Inits |-> verdict'[j]]
      /\ \A j \in Inits : verdict'[j] = verdict[j]
                              \/ (step[j] # "begin" /\ verdict'[j] = <<"killed", I!NoCode, I!NoCode>>)
  BY DEF I!PowerLoss
<1>3. upsets' \in Nat /\ upsets' # 0
  BY DEF I!PowerLoss, I!Upset, InstallInv, Shaped
<1>4. dir' \in {"none", "volatile", "there"} /\ (dir = "there" => dir' = "there")
  BY DEF I!PowerLoss, InstallInv, Shaped
<1>5. /\ config' \in {I!Same({}), I!Same(config.now), I!Same(config.disk)}
      /\ local' \in {I!Same({}), I!Same(local.now), I!Same(local.disk)}
  BY DEF I!PowerLoss, I!Same, I!Empty
<1>6. /\ config' \in [now : Contents, disk : Contents] /\ config'.now = config'.disk
      /\ local' \in [now : Contents, disk : Contents] /\ local'.now = local'.disk
      /\ config'.now \subseteq config.now \cup config.disk /\ local'.now \subseteq local.now \cup local.disk
  <2>1. config.now \in Contents /\ config.disk \in Contents /\ local.now \in Contents /\ local.disk \in Contents
        /\ {} \in Contents
    BY EmptyContents DEF InstallInv, Shaped
  <2>2. \A c \in Contents : /\ I!Same(c) \in [now : Contents, disk : Contents]
                            /\ I!Same(c).now = c /\ I!Same(c).disk = c
    BY DEF I!Same
  <2> QED BY <1>5, <2>1, <2>2
<1>7. Shaped'
  BY <1>1, <1>2, <1>3, <1>4, <1>6 DEF InstallInv, Shaped
<1>8. \A j \in Inits : PutAsFarAs(j)'
  BY <1>1, <1>2 DEF InstallInv, PutAsFarAs
<1>9. ContentsAreOwned'
  BY <1>1, <1>6 DEF InstallInv, ContentsAreOwned, Wrote
<1>10. \A j \in Inits : verdict'[j] = verdict[j] \/ (verdict'[j][1] = "killed" /\ verdict'[j][3] = I!NoCode)
  BY <1>2
<1>11. SyncedIsDurable'
  <2>1. \A j \in Inits : Synced(j)' => Synced(j)
    BY <1>1, <1>10 DEF Synced
  <2>2. \A x : Durable(config, x)' /\ Durable(local, x)'
    BY <1>6 DEF Durable
  <2>3. \A j \in Inits : Synced(j)' => dir' = "there"
    BY <1>4, <2>1 DEF InstallInv, SyncedIsDurable
  <2> QED BY <2>2, <2>3 DEF SyncedIsDurable
<1>12. OneInitInstalls'
  BY <1>3 DEF OneInitInstalls
<1>13. I!EveryOutcomeListed'
  BY <1>10, NoCodeFacts DEF InstallInv, I!EveryOutcomeListed
<1>14. I!WriteStateIsTrue'
  <2>1. \A p : StateFits("killed", p)
    BY DEF StateFits, I!Unconfirmed
  <2>2. \A j \in Inits : StateFits(verdict'[j][1], put'[j])
    BY <1>1, <1>10, <2>1, WriteStateFits DEF InstallInv
  <2> QED BY <2>2 DEF I!WriteStateIsTrue, StateFits
<1> QED BY <1>7, <1>8, <1>9, <1>11, <1>12, <1>13, <1>14 DEF InstallInv

LEMMA InstallStep == InitsAreApart /\ InstallInv /\ [I!Next]_(I!vars) => InstallInv'
<1> SUFFICES ASSUME InitsAreApart, InstallInv, [I!Next]_(I!vars) PROVE InstallInv'
  OBVIOUS
<1>1. ASSUME NEW i \in Inits, I!Begin(i) \/ I!Attest(i) \/ I!Prepare(i) \/ I!Reopen(i)
      PROVE  InstallInv'
  BY <1>1, BeginKind, AttestKind, PrepareKind, ReopenKind, ReportKeeps, GoKeeps
<1>2. ASSUME NEW i \in Inits, I!InstallProject(i) \/ I!InstallLocal(i) \/ I!ReplaceLocal(i)
      PROVE  InstallInv'
  BY <1>2, InstallProjectKind, InstallLocalKind, ReplaceLocalKind, ReportKeeps, PutProjectKeeps, PutLocalKeeps
<1>3. ASSUME NEW i \in Inits, I!SyncProject(i) \/ I!SyncLocal(i) \/ I!Confirm(i) \/ I!Kill(i)
      PROVE  InstallInv'
  BY <1>3, SyncKind, ConfirmKind, KillKind, ReportKeeps, SyncKeeps, CommitKeeps
<1>4. CASE I!UserRemoves \/ I!PowerLoss
  BY <1>4, UserRemovesKeeps, PowerLossKeeps
<1>5. CASE UNCHANGED I!vars
  BY <1>5 DEF I!vars, InstallInv, Shaped, PutAsFarAs, ContentsAreOwned, Wrote, SyncedIsDurable, Durable, Synced,
     I!Admitted, OneInitInstalls, I!EveryOutcomeListed, I!WriteStateIsTrue
<1> QED BY <1>1, <1>2, <1>3, <1>4, <1>5 DEF I!Next

-----------------------------------------------------------------------------
(* What the invariant says of the commands.                                *)

LEMMA InstallIsHonest ==
  InstallInv => I!EveryOutcomeListed /\ I!WriteStateIsTrue /\ I!CommittedIsDurable /\ I!OneInitCommits
<1> SUFFICES ASSUME InstallInv
             PROVE  I!EveryOutcomeListed /\ I!WriteStateIsTrue /\ I!CommittedIsDurable /\ I!OneInitCommits
  OBVIOUS
<1>1. I!CommittedIsDurable
  BY DEF InstallInv, I!CommittedIsDurable, SyncedIsDurable, Synced, Durable
<1>2. I!OneInitCommits
  <2>1. \A i \in Inits : verdict[i][1] = "committed" => "local" \in put[i]
    BY DEF InstallInv, I!WriteStateIsTrue
  <2>2. upsets = 0 \/ upsets > 0
    BY DEF InstallInv, Shaped
  <2> QED BY <2>1, <2>2 DEF InstallInv, OneInitInstalls, I!OneInitCommits
<1> QED BY <1>1, <1>2 DEF InstallInv

(* Racing initializations of one project, killed, failing and losing power *)
(* anywhere, keep the invariant: what each has put is as far as it came,   *)
(* every content is some command's, and what was synced stays durable.     *)
THEOREM InstallInvariant ==
  ASSUME InitsAreApart
  PROVE  I!Spec => []InstallInv
<1>1. I!Init => InstallInv
  BY InstallInit
<1>2. InstallInv /\ [I!Next]_(I!vars) => InstallInv'
  BY InstallStep
<1> QED BY <1>1, <1>2, PTL DEF I!Spec

(* A command reports a listed outcome and what it really did; a committed  *)
(* pair is on the disk (config_install_darwin.go syncs before it confirms);*)
(* and no two commands both report that they initialized the project.      *)
THEOREM InitializationIsHonest ==
  ASSUME InitsAreApart
  PROVE  I!Spec => [](I!EveryOutcomeListed /\ I!WriteStateIsTrue /\ I!CommittedIsDurable /\ I!OneInitCommits)
BY InstallInvariant, InstallIsHonest, PTL

-----------------------------------------------------------------------------
(* Secure writes.  One writer owns the destination from its rename on; what *)
(* is installed was scanned, expected, whole and synced.                    *)

WriterConstants ==
  MaxUpsets \in Nat /\ MaxChunks \in Nat /\ "none" \notin Writers /\ Sources \subseteq W!SourceType

Installing == {"verify", "sync", "final"}

Owns(w) == at[w] \in Installing \/ verdict[w] \in {"ok", "undurable"}

ReturnsAtTheEnd == \A w \in Writers : verdict[w] = "running" <=> at[w] # "done"

OneOwner ==
  /\ \A v, w \in Writers : Owns(v) /\ Owns(w) => v = w
  /\ \A w \in Writers : Owns(w) /\ ~stopped => dest = w
  /\ \A w \in Writers : at[w] = "final" \/ verdict[w] = "ok" => destSynced /\ dest = w

\* A file under the destination's name has an owner, or its error says that it was left behind.
InstalledHasAnOwner ==
  \A w \in Writers : dest = w => at[w] \in Installing \cup {"done"} /\ (Owns(w) \/ leaked[w])

TemporaryIsPurged ==
  \A w \in Writers :
    /\ at[w] \in {"begin"} \cup Installing => ~named[w]
    /\ verdict[w] \in W!Failures /\ ~leaked[w] => ~named[w]

CopiedIsClean ==
  \A w \in Writers :
    /\ pos[w] <= Len(src[w].chunks)
    /\ src[w].scan => \A i \in 1 .. pos[w] : src[w].chunks[i] # "secret"
    /\ at[w] \in {"seal", "install"} \cup Installing \/ dest = w => src[w].end = "eof" /\ pos[w] = Len(src[w].chunks)
    /\ at[w] \in {"install"} \cup Installing \/ dest = w => src[w].expected /\ bytes[w] = "synced"

WriterInv ==
  W!TypeOK /\ ReturnsAtTheEnd /\ OneOwner /\ InstalledHasAnOwner /\ TemporaryIsPurged /\ CopiedIsClean

LEMMA WriterBegins == ASSUME WriterConstants, W!Init PROVE WriterInv
<1>1. \A w \in Writers : src[w].chunks \in Seq({"plain", "secret"})
  BY DEF WriterConstants, W!Init, W!SourceType
<1>2. W!TypeOK
  <2>1. verdict \in [Writers -> {"running", "ok", "undurable"} \cup W!Failures] /\ pos \in [Writers -> 0 .. MaxChunks]
    BY DEF WriterConstants, W!Init
  <2>2. /\ at \in [Writers -> {"begin", "stream", "seal", "install", "verify", "sync", "final", "done"}]
        /\ src \in [Writers -> Sources] /\ Sources \subseteq W!SourceType
        /\ bytes \in [Writers -> {"none", "part", "whole", "synced", "torn"}]
    BY DEF WriterConstants, W!Init
  <2>3. named \in [Writers -> BOOLEAN] /\ wanted \in [Writers -> BOOLEAN] /\ leaked \in [Writers -> BOOLEAN]
    BY DEF W!Init
  <2>4. dest \in Writers \cup {"none"} /\ upsets \in 0 .. MaxUpsets
    BY DEF WriterConstants, W!Init
  <2>5. destSynced \in BOOLEAN /\ altered \in BOOLEAN /\ moved \in BOOLEAN /\ stopped \in BOOLEAN
    BY DEF W!Init
  <2> QED BY <2>1, <2>2, <2>3, <2>4, <2>5 DEF W!TypeOK
<1>3. ReturnsAtTheEnd /\ OneOwner /\ InstalledHasAnOwner /\ TemporaryIsPurged
  BY DEF WriterConstants, W!Init, ReturnsAtTheEnd, OneOwner, InstalledHasAnOwner, TemporaryIsPurged,
     Owns, Installing, W!Failures
<1>4. CopiedIsClean
  BY <1>1 DEF WriterConstants, W!Init, CopiedIsClean, Installing
<1> QED BY <1>2, <1>3, <1>4 DEF WriterInv

LEMMA WriterTypes == ASSUME WriterConstants, W!TypeOK, NEW w \in Writers, W!Write(w) PROVE W!TypeOK'
<1>1. \/ \E next \in {"stream", "seal", "install", "verify", "sync", "final"} : W!Goto(w, next)
      \/ \E r \in {"ok", "undurable"} \cup W!Failures, leaks \in BOOLEAN : W!Returns(w, r, leaks)
  <2>1. CASE W!Begin(w)
    BY <2>1 DEF W!Begin, W!Failures
  <2>2. CASE W!Stream(w)
    BY <2>2 DEF W!Stream, W!CopyChunk, W!EndOfStream, W!StreamFails, W!Purges, W!Failures
  <2>3. CASE W!Seal(w)
    BY <2>3 DEF W!Seal, W!Purges, W!Failures
  <2>4. CASE W!Install(w)
    BY <2>4 DEF W!Install, W!Purges, W!Failures
  <2>5. CASE W!Verify(w)
    BY <2>5 DEF W!Verify, W!Discards, W!Failures
  <2>6. CASE W!SyncDirectory(w)
    BY <2>6 DEF W!SyncDirectory, W!Discards, W!Failures
  <2>7. CASE W!Final(w)
    BY <2>7 DEF W!Final, W!Discards, W!Failures
  <2> QED BY <2>1, <2>2, <2>3, <2>4, <2>5, <2>6, <2>7 DEF W!Write
<1>2. UNCHANGED src /\ (Sources \subseteq W!SourceType)'
  BY DEF W!TypeOK, W!SourceType, W!Write, W!Begin, W!Stream, W!Seal, W!Install, W!Verify, W!SyncDirectory, W!Final, W!Outside
<1>3. (pos \in [Writers -> 0 .. MaxChunks])'
  <2>1. W!CopyChunk(w) \/ UNCHANGED pos
    BY DEF W!Write, W!Begin, W!Stream, W!EndOfStream, W!StreamFails, W!Seal, W!Install, W!Verify, W!SyncDirectory, W!Final
  <2>2. W!CopyChunk(w) => pos' = [pos EXCEPT ![w] = pos[w] + 1] /\ pos[w] < MaxChunks
    BY DEF W!CopyChunk
  <2>3. pos \in [Writers -> 0 .. MaxChunks]
    BY DEF W!TypeOK
  <2> QED BY <2>1, <2>2, <2>3 DEF WriterConstants

<1>4. (bytes \in [Writers -> {"none", "part", "whole", "synced", "torn"}])'
  BY DEF W!TypeOK, W!Write, W!Begin, W!Stream, W!CopyChunk, W!EndOfStream, W!StreamFails, W!Seal, W!Install, W!Verify,
     W!SyncDirectory, W!Final
<1>5. (named \in [Writers -> BOOLEAN])' /\ UNCHANGED wanted
  <2>1. CASE W!Begin(w)
    BY <2>1 DEF W!TypeOK, W!Begin, W!Failures, W!Outside
  <2>2. CASE W!Stream(w)
    BY <2>2 DEF W!TypeOK, W!Stream, W!CopyChunk, W!EndOfStream, W!StreamFails, W!Purges, W!Outside
  <2>3. CASE W!Seal(w)
    BY <2>3 DEF W!TypeOK, W!Seal, W!Purges, W!Outside
  <2>4. CASE W!Install(w)
    BY <2>4 DEF W!TypeOK, W!Install, W!Purges, W!Outside
  <2>5. CASE W!Verify(w)
    BY <2>5 DEF W!TypeOK, W!Verify, W!Outside
  <2>6. CASE W!SyncDirectory(w)
    BY <2>6 DEF W!TypeOK, W!SyncDirectory, W!Outside
  <2>7. CASE W!Final(w)
    BY <2>7 DEF W!TypeOK, W!Final, W!Outside
  <2> QED BY <2>1, <2>2, <2>3, <2>4, <2>5, <2>6, <2>7 DEF W!Write
<1>6. (dest \in Writers \cup {"none"} /\ destSynced \in BOOLEAN /\ altered \in BOOLEAN /\ moved \in BOOLEAN /\ stopped \in BOOLEAN)'
  BY DEF W!TypeOK, W!Write, W!Begin, W!Stream, W!Seal, W!Install, W!Verify, W!SyncDirectory, W!Final, W!Discards, W!Outside
<1>7. (upsets \in 0 .. MaxUpsets)'
  <2>1. W!Upset \/ UNCHANGED upsets
    BY DEF W!Write, W!Begin, W!Stream, W!CopyChunk, W!EndOfStream, W!StreamFails, W!Seal, W!Install, W!Verify,
       W!SyncDirectory, W!Final, W!Discards, W!Calm
  <2> QED BY <2>1 DEF WriterConstants, W!TypeOK, W!Upset
<1>8. (at \in [Writers -> {"begin", "stream", "seal", "install", "verify", "sync", "final", "done"}])'
  BY <1>1 DEF W!TypeOK, W!Goto, W!Returns
<1>9. (verdict \in [Writers -> {"running", "ok", "undurable"} \cup W!Failures] /\ leaked \in [Writers -> BOOLEAN])'
  BY <1>1 DEF W!TypeOK, W!Goto, W!Returns
<1> QED BY <1>2, <1>3, <1>4, <1>5, <1>6, <1>7, <1>8, <1>9 DEF W!TypeOK

LEMMA WriterCopies ==
  ASSUME WriterConstants, WriterInv, NEW w \in Writers, ~stopped, W!Stream(w)
  PROVE  ReturnsAtTheEnd' /\ OneOwner' /\ InstalledHasAnOwner' /\ TemporaryIsPurged' /\ CopiedIsClean'
<1>1. /\ W!TypeOK /\ src[w].chunks \in Seq({"plain", "secret"}) /\ pos[w] \in Nat
      /\ dest # w /\ UNCHANGED <<src, dest, destSynced, stopped>>
  BY DEF WriterConstants, WriterInv, W!TypeOK, W!SourceType, InstalledHasAnOwner, Installing, W!Stream, W!Outside
<1>2. CASE W!StreamFails(w)
  <2>1. PICK r \in W!Failures : W!Returns(w, r, leaked'[w]) /\ (named'[w] => leaked'[w])
    BY <1>1, <1>2 DEF W!StreamFails, W!Purges, W!Returns, W!TypeOK, W!Failures
  <2>2. UNCHANGED <<pos, bytes>> /\ \A v \in Writers \ {w} : named'[v] = named[v]
    BY <1>1, <1>2 DEF W!StreamFails, W!Purges, W!TypeOK
  <2>3. ReturnsAtTheEnd' /\ OneOwner' /\ InstalledHasAnOwner'
    BY <1>1, <2>1 DEF WriterInv, W!TypeOK, W!Returns, ReturnsAtTheEnd, OneOwner, InstalledHasAnOwner, Owns,
       Installing, W!Failures
  <2>4. TemporaryIsPurged'
    BY <1>1, <2>1, <2>2 DEF WriterInv, W!TypeOK, W!Returns, TemporaryIsPurged, Installing, W!Failures
  <2>5. CopiedIsClean'
    BY <1>1, <2>1, <2>2 DEF WriterInv, W!TypeOK, W!Returns, CopiedIsClean, Installing
  <2> QED BY <2>3, <2>4, <2>5
<1>3. CASE W!CopyChunk(w) \/ W!EndOfStream(w)
  <2>1. PICK next \in {"stream", "seal"} : W!Goto(w, next) /\ UNCHANGED named
    BY <1>3 DEF W!CopyChunk, W!EndOfStream
  <2>2. at[w] = "stream"
    BY DEF W!Stream
  <2>3. ReturnsAtTheEnd' /\ OneOwner' /\ InstalledHasAnOwner' /\ TemporaryIsPurged'
    BY <1>1, <2>1, <2>2 DEF WriterInv, W!TypeOK, W!Goto, ReturnsAtTheEnd, OneOwner, InstalledHasAnOwner,
       TemporaryIsPurged, Owns, Installing
  <2>4. CASE W!CopyChunk(w)
    BY <1>1, <2>2, <2>3, <2>4 DEF W!CopyChunk, WriterInv, W!TypeOK, W!Goto, W!ScansChunk, CopiedIsClean, Installing
  <2>5. CASE W!EndOfStream(w)
    BY <1>1, <2>2, <2>3, <2>5 DEF W!EndOfStream, WriterInv, W!TypeOK, W!Goto, CopiedIsClean, Installing
  <2> QED BY <1>3, <2>4, <2>5
<1> QED BY <1>2, <1>3 DEF W!Stream

LEMMA WriterCreates ==
  ASSUME WriterConstants, WriterInv, NEW w \in Writers, ~stopped, W!Begin(w)
  PROVE  ReturnsAtTheEnd' /\ OneOwner' /\ InstalledHasAnOwner' /\ TemporaryIsPurged' /\ CopiedIsClean'
<1>1. ReturnsAtTheEnd'
  BY DEF WriterConstants, WriterInv, W!TypeOK, W!Begin, W!Upset, W!Calm, W!Goto, W!Returns, W!Outside, ReturnsAtTheEnd,
     W!Failures
<1>2. OneOwner'
  BY DEF WriterConstants, WriterInv, W!TypeOK, W!Begin, W!Upset, W!Calm, W!Goto, W!Returns, W!Outside, OneOwner, Owns,
     Installing, W!Failures, ReturnsAtTheEnd, InstalledHasAnOwner
<1>3. InstalledHasAnOwner'
  BY DEF WriterConstants, WriterInv, W!TypeOK, W!Begin, W!Upset, W!Calm, W!Goto, W!Returns, W!Outside, InstalledHasAnOwner,
     Owns, Installing, W!Failures, OneOwner
<1>4. TemporaryIsPurged'
  BY DEF WriterConstants, WriterInv, W!TypeOK, W!Begin, W!Upset, W!Calm, W!Goto, W!Returns, W!Outside, TemporaryIsPurged,
     W!Failures, Installing, ReturnsAtTheEnd
<1>5. CopiedIsClean'
  BY DEF WriterConstants, WriterInv, W!TypeOK, W!Begin, W!Upset, W!Calm, W!Goto, W!Returns, W!Outside, CopiedIsClean,
     Installing, InstalledHasAnOwner, OneOwner, Owns
<1> QED BY <1>1, <1>2, <1>3, <1>4, <1>5

LEMMA WriterSeals ==
  ASSUME WriterConstants, WriterInv, NEW w \in Writers, ~stopped, W!Seal(w)
  PROVE  ReturnsAtTheEnd' /\ OneOwner' /\ InstalledHasAnOwner' /\ TemporaryIsPurged' /\ CopiedIsClean'
<1>1. ReturnsAtTheEnd'
  BY DEF WriterConstants, WriterInv, W!TypeOK, W!Seal, W!Upset, W!Calm, W!Goto, W!Purges, W!Returns, W!Outside,
     ReturnsAtTheEnd, W!Failures
<1>2. OneOwner'
  BY DEF WriterConstants, WriterInv, W!TypeOK, W!Seal, W!Upset, W!Calm, W!Goto, W!Purges, W!Returns, W!Outside, OneOwner,
     Owns, Installing, W!Failures, ReturnsAtTheEnd, InstalledHasAnOwner
<1>3. InstalledHasAnOwner'
  BY DEF WriterConstants, WriterInv, W!TypeOK, W!Seal, W!Upset, W!Calm, W!Goto, W!Purges, W!Returns, W!Outside,
     InstalledHasAnOwner, Owns, Installing, W!Failures, OneOwner
<1>4. TemporaryIsPurged'
  BY DEF WriterConstants, WriterInv, W!TypeOK, W!Seal, W!Upset, W!Calm, W!Goto, W!Purges, W!Returns, W!Outside,
     TemporaryIsPurged, W!Failures, Installing, ReturnsAtTheEnd
<1>5. CopiedIsClean'
  BY DEF WriterConstants, WriterInv, W!TypeOK, W!Seal, W!Upset, W!Calm, W!Goto, W!Purges, W!Returns, W!Outside,
     CopiedIsClean, Installing, InstalledHasAnOwner, OneOwner, Owns
<1> QED BY <1>1, <1>2, <1>3, <1>4, <1>5

LEMMA WriterInstalls ==
  ASSUME WriterConstants, WriterInv, NEW w \in Writers, ~stopped, W!Install(w)
  PROVE  ReturnsAtTheEnd' /\ OneOwner' /\ InstalledHasAnOwner' /\ TemporaryIsPurged' /\ CopiedIsClean'
<1>1. ReturnsAtTheEnd'
  BY DEF WriterConstants, WriterInv, W!TypeOK, W!Install, W!Upset, W!Calm, W!Goto, W!Purges, W!Returns, W!Outside,
     ReturnsAtTheEnd, W!Failures
<1>2. OneOwner'
  BY DEF WriterConstants, WriterInv, W!TypeOK, W!Install, W!Upset, W!Calm, W!Goto, W!Purges, W!Returns, W!Outside, OneOwner,
     Owns, Installing, W!Failures, ReturnsAtTheEnd, InstalledHasAnOwner
<1>3. InstalledHasAnOwner'
  BY DEF WriterConstants, WriterInv, W!TypeOK, W!Install, W!Upset, W!Calm, W!Goto, W!Purges, W!Returns, W!Outside,
     InstalledHasAnOwner, Owns, Installing, W!Failures, OneOwner
<1>4. TemporaryIsPurged'
  BY DEF WriterConstants, WriterInv, W!TypeOK, W!Install, W!Upset, W!Calm, W!Goto, W!Purges, W!Returns, W!Outside,
     TemporaryIsPurged, W!Failures, Installing, ReturnsAtTheEnd
<1>5. CopiedIsClean'
  BY DEF WriterConstants, WriterInv, W!TypeOK, W!Install, W!Upset, W!Calm, W!Goto, W!Purges, W!Returns, W!Outside,
     CopiedIsClean, Installing, InstalledHasAnOwner, OneOwner, Owns
<1> QED BY <1>1, <1>2, <1>3, <1>4, <1>5

LEMMA WriterVerifies ==
  ASSUME WriterConstants, WriterInv, NEW w \in Writers, ~stopped, W!Verify(w)
  PROVE  ReturnsAtTheEnd' /\ OneOwner' /\ InstalledHasAnOwner' /\ TemporaryIsPurged' /\ CopiedIsClean'
<1>1. ReturnsAtTheEnd'
  BY DEF WriterConstants, WriterInv, W!TypeOK, W!Verify, W!Changed, W!Discards, W!Upset, W!Calm, W!Goto, W!Returns, W!Outside,
     ReturnsAtTheEnd, W!Failures
<1>2. OneOwner'
  BY DEF WriterConstants, WriterInv, W!TypeOK, W!Verify, W!Changed, W!Discards, W!Upset, W!Calm, W!Goto, W!Returns, W!Outside,
     OneOwner, Owns, Installing, W!Failures, ReturnsAtTheEnd, InstalledHasAnOwner
<1>3. InstalledHasAnOwner'
  BY DEF WriterConstants, WriterInv, W!TypeOK, W!Verify, W!Changed, W!Discards, W!Upset, W!Calm, W!Goto, W!Returns, W!Outside,
     InstalledHasAnOwner, Owns, Installing, W!Failures, OneOwner
<1>4. TemporaryIsPurged'
  BY DEF WriterConstants, WriterInv, W!TypeOK, W!Verify, W!Changed, W!Discards, W!Upset, W!Calm, W!Goto, W!Returns, W!Outside,
     TemporaryIsPurged, W!Failures, Installing, ReturnsAtTheEnd
<1>5. CopiedIsClean'
  BY DEF WriterConstants, WriterInv, W!TypeOK, W!Verify, W!Changed, W!Discards, W!Upset, W!Calm, W!Goto, W!Returns, W!Outside,
     CopiedIsClean, Installing, InstalledHasAnOwner, OneOwner, Owns
<1> QED BY <1>1, <1>2, <1>3, <1>4, <1>5

LEMMA WriterSyncs ==
  ASSUME WriterConstants, WriterInv, NEW w \in Writers, ~stopped, W!SyncDirectory(w)
  PROVE  ReturnsAtTheEnd' /\ OneOwner' /\ InstalledHasAnOwner' /\ TemporaryIsPurged' /\ CopiedIsClean'
<1>1. ReturnsAtTheEnd'
  BY DEF WriterConstants, WriterInv, W!TypeOK, W!SyncDirectory, W!Changed, W!Discards, W!Upset, W!Calm, W!Goto, W!Returns,
     W!Outside, ReturnsAtTheEnd, W!Failures
<1>2. OneOwner'
  <2>1. CASE W!Discards(w)
    BY <2>1 DEF WriterConstants, WriterInv, W!TypeOK, W!SyncDirectory, W!Discards, W!Returns, W!Outside, OneOwner, Owns, Installing,
       ReturnsAtTheEnd
  <2>2. CASE ~W!Discards(w)
    <3>1. at[w] = "sync" /\ dest = w /\ UNCHANGED <<dest, stopped>>
      BY <2>2 DEF WriterInv, W!SyncDirectory, W!Outside, OneOwner, Owns, Installing
    <3>2. destSynced => destSynced'
      BY <2>2, <3>1 DEF W!SyncDirectory
    <3>3. (destSynced' /\ W!Goto(w, "final")) \/ W!Returns(w, "undurable", FALSE)
      BY <2>2, <3>1 DEF W!SyncDirectory
    <3> QED BY <3>1, <3>2, <3>3 DEF WriterInv, W!TypeOK, W!Goto, W!Returns, OneOwner, Owns, Installing, ReturnsAtTheEnd
  <2> QED BY <2>1, <2>2
<1>3. InstalledHasAnOwner'
  BY DEF WriterConstants, WriterInv, W!TypeOK, W!SyncDirectory, W!Changed, W!Discards, W!Upset, W!Calm, W!Goto, W!Returns,
     W!Outside, InstalledHasAnOwner, Owns, Installing, W!Failures, OneOwner
<1>4. TemporaryIsPurged'
  BY DEF WriterConstants, WriterInv, W!TypeOK, W!SyncDirectory, W!Changed, W!Discards, W!Upset, W!Calm, W!Goto, W!Returns,
     W!Outside, TemporaryIsPurged, W!Failures, Installing, ReturnsAtTheEnd
<1>5. CopiedIsClean'
  BY DEF WriterConstants, WriterInv, W!TypeOK, W!SyncDirectory, W!Changed, W!Discards, W!Upset, W!Calm, W!Goto, W!Returns,
     W!Outside, CopiedIsClean, Installing, InstalledHasAnOwner, OneOwner, Owns
<1> QED BY <1>1, <1>2, <1>3, <1>4, <1>5

LEMMA WriterEnds ==
  ASSUME WriterConstants, WriterInv, NEW w \in Writers, ~stopped, W!Final(w)
  PROVE  ReturnsAtTheEnd' /\ OneOwner' /\ InstalledHasAnOwner' /\ TemporaryIsPurged' /\ CopiedIsClean'
<1>1. ReturnsAtTheEnd'
  BY DEF WriterConstants, WriterInv, W!TypeOK, W!Final, W!Changed, W!Discards, W!Upset, W!Calm, W!Goto, W!Returns, W!Outside,
     ReturnsAtTheEnd, W!Failures
<1>2. OneOwner'
  BY DEF WriterConstants, WriterInv, W!TypeOK, W!Final, W!Changed, W!Discards, W!Upset, W!Calm, W!Goto, W!Returns, W!Outside,
     OneOwner, Owns, Installing, W!Failures, ReturnsAtTheEnd, InstalledHasAnOwner
<1>3. InstalledHasAnOwner'
  BY DEF WriterConstants, WriterInv, W!TypeOK, W!Final, W!Changed, W!Discards, W!Upset, W!Calm, W!Goto, W!Returns, W!Outside,
     InstalledHasAnOwner, Owns, Installing, W!Failures, OneOwner
<1>4. TemporaryIsPurged'
  BY DEF WriterConstants, WriterInv, W!TypeOK, W!Final, W!Changed, W!Discards, W!Upset, W!Calm, W!Goto, W!Returns, W!Outside,
     TemporaryIsPurged, W!Failures, Installing, ReturnsAtTheEnd
<1>5. CopiedIsClean'
  BY DEF WriterConstants, WriterInv, W!TypeOK, W!Final, W!Changed, W!Discards, W!Upset, W!Calm, W!Goto, W!Returns, W!Outside,
     CopiedIsClean, Installing, InstalledHasAnOwner, OneOwner, Owns
<1> QED BY <1>1, <1>2, <1>3, <1>4, <1>5

LEMMA WriterSurroundings ==
  ASSUME WriterConstants, WriterInv, (\E w \in Writers : W!Cancel(w)) \/ W!Alter \/ W!MoveDirectory \/ W!Stop \/ UNCHANGED W!vars
  PROVE  WriterInv'
<1>1. UNCHANGED <<at, src, pos, named, verdict, leaked, destSynced>> /\ (~stopped' => UNCHANGED <<dest, stopped>>)
  BY DEF W!Cancel, W!Alter, W!MoveDirectory, W!Stop, W!vars, W!Quiet
<1>2. (Sources \subseteq W!SourceType)'
  BY DEF WriterInv, W!TypeOK, W!SourceType
<1>3. (bytes \in [Writers -> {"none", "part", "whole", "synced", "torn"}] /\ wanted \in [Writers -> BOOLEAN])'
  BY DEF WriterInv, W!TypeOK, W!Cancel, W!Alter, W!MoveDirectory, W!Stop, W!vars, W!Quiet
<1>4. (dest \in Writers \cup {"none"} /\ altered \in BOOLEAN /\ moved \in BOOLEAN /\ stopped \in BOOLEAN)'
  BY DEF WriterInv, W!TypeOK, W!Cancel, W!Alter, W!MoveDirectory, W!Stop, W!vars, W!Quiet
<1>5. (upsets \in 0 .. MaxUpsets)'
  BY DEF WriterConstants, WriterInv, W!TypeOK, W!Cancel, W!Alter, W!MoveDirectory, W!Stop, W!vars, W!Upset
<1>6. W!TypeOK'
  BY <1>1, <1>2, <1>3, <1>4, <1>5 DEF WriterInv, W!TypeOK
<1>7. dest' = dest \/ (dest' = "none" /\ ~destSynced)
  BY DEF W!Cancel, W!Alter, W!MoveDirectory, W!Stop, W!vars
<1>8. \A w \in Writers : bytes[w] = "synced" => bytes'[w] = "synced"
  BY DEF WriterInv, W!TypeOK, W!Cancel, W!Alter, W!MoveDirectory, W!Stop, W!vars, W!Quiet
<1>9. ReturnsAtTheEnd' /\ OneOwner' /\ InstalledHasAnOwner' /\ TemporaryIsPurged'
  BY <1>1, <1>7 DEF WriterConstants, WriterInv, ReturnsAtTheEnd, OneOwner, InstalledHasAnOwner, TemporaryIsPurged,
     Owns, Installing, W!Failures
<1>10. CopiedIsClean'
  BY <1>1, <1>7, <1>8 DEF WriterConstants, WriterInv, CopiedIsClean, Installing
<1> QED BY <1>6, <1>9, <1>10 DEF WriterInv

LEMMA WriterNext == ASSUME WriterConstants, WriterInv, [W!Next]_(W!vars) PROVE WriterInv'
<1>1. ASSUME NEW w \in Writers, W!Write(w) PROVE WriterInv'
  <2>1. W!TypeOK' /\ ~stopped
    BY <1>1, WriterTypes DEF WriterInv, W!Write
  <2> QED BY <1>1, <2>1, WriterCreates, WriterCopies, WriterSeals, WriterInstalls, WriterVerifies, WriterSyncs, WriterEnds
          DEF W!Write, WriterInv
<1> QED BY <1>1, WriterSurroundings DEF W!Next

LEMMA WriterIsSecure == ASSUME WriterConstants, WriterInv PROVE W!InstalledIsClean /\ W!FailureLeavesNothing /\ W!ReceiptIsBacked
<1>1. ASSUME dest \in Writers
      PROVE  src[dest].chunks \in Seq({"plain", "secret"}) /\ pos[dest] \in 0 .. MaxChunks /\ pos[dest] = Len(src[dest].chunks)
  BY <1>1 DEF WriterInv, W!TypeOK, W!SourceType, CopiedIsClean
<1>2. W!InstalledIsClean
  BY <1>1 DEF WriterConstants, WriterInv, W!InstalledIsClean, CopiedIsClean
<1>3. W!FailureLeavesNothing
  BY DEF WriterInv, W!FailureLeavesNothing, InstalledHasAnOwner, TemporaryIsPurged, ReturnsAtTheEnd, Owns,
     Installing, W!Failures
<1>4. W!ReceiptIsBacked
  BY DEF WriterInv, W!ReceiptIsBacked, OneOwner, Owns
<1> QED BY <1>2, <1>3, <1>4

(* Secure writes to one destination, any number at once: what is installed  *)
(* is the whole, clean and synced stream of one writer, a write that failed *)
(* leaves nothing it does not report, and a receipt has its file            *)
(* (SecureWriter.write in securewriter.go).                                 *)
THEOREM WritesAreSecure ==
  ASSUME WriterConstants PROVE W!Spec => [](W!InstalledIsClean /\ W!FailureLeavesNothing /\ W!ReceiptIsBacked)
<1>1. W!Init => WriterInv
  BY WriterBegins
<1>2. WriterInv /\ [W!Next]_(W!vars) => WriterInv'
  BY WriterNext
<1>3. WriterInv => W!InstalledIsClean /\ W!FailureLeavesNothing /\ W!ReceiptIsBacked
  BY WriterIsSecure
<1> QED BY <1>1, <1>2, <1>3, PTL DEF W!Spec

-----------------------------------------------------------------------------
(* Export.  A file that was synced is read, an intent is only ever its own, *)
(* and the holder of the lock relies on what it installed.                   *)

ExportConstants == E!None \notin Exporters /\ Requests # {}

ExportCalls ==
  /\ step \in [Exporters -> {"idle", "lock", "journal", "bundle", "manifest", "unjournal"}]
  /\ req \in [Exporters -> Requests]
  /\ verdict \in [Exporters -> {E!None, "running", "error", "ok"}]
  /\ \A e \in Exporters : (lock = e) <=> (step[e] \notin {"idle", "lock"})
  /\ lock \in Exporters \cup {E!None}

ExportFiles ==
  /\ manifest \in E!File(Requests) /\ manifest.disk \subseteq manifest.now
  /\ bundle \in [E!Paths -> E!File({r.bundle : r \in Requests})]
  /\ \A p \in E!Paths : bundle[p].disk \subseteq bundle[p].now
  /\ journal \in [E!Keys -> E!File(E!Keys)]
  /\ \A k \in E!Keys : E!Fits(journal[k], k) /\ journal[k].disk \subseteq {k}

InstalledSoFar ==
  \A e \in Exporters :
    /\ step[e] \in {"bundle", "manifest", "unjournal"} => journal[E!Key(req[e])] = E!Installed(E!Key(req[e]))
    /\ step[e] \in {"manifest", "unjournal"} => bundle[req[e].path] = E!Installed(req[e].bundle)
    /\ step[e] = "unjournal" => manifest = E!Installed(req[e])

\* The manifest of r, or of the same pair, is on the disk.
Paired(r) == \E v \in manifest.now \cap manifest.disk : E!Key(v) = E!Key(r)

HalfPairKeepsItsJournal ==
  \A r \in Requests : r.bundle \in bundle[r.path].now /\ ~Paired(r) => journal[E!Key(r)] = E!Installed(E!Key(r))

ExportInv ==
  /\ ExportCalls /\ ExportFiles /\ InstalledSoFar
  /\ E!ManifestBindsBundle /\ HalfPairKeepsItsJournal /\ E!ReportedPairStays

LEMMA ExportNames ==
  \A r \in Requests : r.path \in E!Paths /\ E!Key(r) \in E!Keys /\ r.bundle \in {q.bundle : q \in Requests}
BY DEF E!Paths, E!Keys

LEMMA KeysOfPairs ==
  ASSUME NEW r \in Requests, NEW q \in Requests
  PROVE  E!Key(r) = E!Key(q) <=> r.path = q.path /\ r.bundle = q.bundle
BY DEF E!Key

\* One file is written: nothing that was installed is lost, and nothing else appears.
LEMMA FileWritten ==
  ASSUME NEW V, NEW old \in E!File(V), NEW want \in V, E!Fits(old, want),
         NEW f \in {E!Installed(want)} \cup E!FailingWrites(old, want)
  PROVE  /\ f \in E!File(V) /\ f.now \subseteq old.now \cup {want} /\ f.disk \subseteq old.disk \cup {want}
         /\ \A x : old = E!Installed(x) => f = old
         /\ old.now \cap old.disk \subseteq f.now \cap f.disk
         /\ E!Fits(f, want) /\ (old.disk \subseteq old.now => f.disk \subseteq f.now)
<1>1. old.now \in {{}} \cup {{v} : v \in V} /\ old.disk \in {{}} \cup {{v} : v \in V} /\ old = [now |-> old.now, disk |-> old.disk]
  BY DEF E!File
<1>2. f = [now |-> {want}, disk |-> {want}] \/ f = old \/ f = [now |-> {want}, disk |-> old.disk]
  BY <1>1 DEF E!Installed, E!FailingWrites
<1>3. old.now = {} \/ old.now = {want}
  BY <1>1 DEF E!Fits
<1>4. f.now \in {{}} \cup {{v} : v \in V} /\ f.disk \in {{}} \cup {{v} : v \in V} /\ f = [now |-> f.now, disk |-> f.disk]
  BY <1>1, <1>2
<1>5. f \in E!File(V)
  BY <1>4 DEF E!File
<1>6. f.now \subseteq old.now \cup {want} /\ f.disk \subseteq old.disk \cup {want} /\ E!Fits(f, want) /\ (old.disk \subseteq old.now => f.disk \subseteq f.now)
  BY <1>1, <1>2, <1>3 DEF E!Fits
<1>7. \A x : old = E!Installed(x) => f = old
  BY <1>1, <1>2, <1>3 DEF E!Installed
<1>8. old.now \cap old.disk \subseteq f.now \cap f.disk
  BY <1>1, <1>2, <1>3
<1> QED BY <1>5, <1>6, <1>7, <1>8

\* The holder of the lock goes on, or returns.
LEMMA ExportCallsStep ==
  ASSUME ExportConstants, ExportCalls, NEW e \in Exporters, step[e] # "idle", UNCHANGED req,
         (\E next \in {"bundle", "manifest", "unjournal"} : step[e] # "lock" /\ E!Goes(e, next)) \/ (\E r \in {"error", "ok"} : E!Returns(e, r))
  PROVE  ExportCalls'
<1>1. CASE \E next \in {"bundle", "manifest", "unjournal"} : step[e] # "lock" /\ E!Goes(e, next)
  BY <1>1 DEF ExportCalls, E!Goes
<1>2. CASE \E r \in {"error", "ok"} : E!Returns(e, r)
  BY <1>2 DEF ExportCalls, E!Returns, ExportConstants
<1> QED BY <1>1, <1>2

\* Only the holder of the lock has installed anything.
LEMMA OthersHaveNothing ==
  ASSUME ExportCalls, NEW e \in Exporters, step[e] \notin {"idle", "lock"}, NEW d \in Exporters, d # e
  PROVE  step[d] \in {"idle", "lock"}
BY DEF ExportCalls

LEMMA ExportBegins == ASSUME ExportConstants, E!Init PROVE ExportInv
<1>1. (CHOOSE r \in Requests : TRUE) \in Requests
  BY DEF ExportConstants
<1>2. ExportCalls
  BY <1>1 DEF E!Init, ExportCalls, ExportConstants
<1>3. E!Absent.now = {} /\ E!Absent.disk = {} /\ \A V : E!Absent \in E!File(V)
  BY DEF E!Absent, E!File
<1>4. ExportFiles
  BY <1>3 DEF E!Init, ExportFiles, E!Fits
<1>5. InstalledSoFar /\ E!ReportedPairStays
  BY DEF E!Init, InstalledSoFar, E!ReportedPairStays, E!None
<1>6. E!ManifestBindsBundle /\ HalfPairKeepsItsJournal
  BY <1>3, ExportNames DEF E!Init, E!ManifestBindsBundle, HalfPairKeepsItsJournal
<1> QED BY <1>2, <1>4, <1>5, <1>6 DEF ExportInv

LEMMA ExportTurns ==
  ASSUME ExportConstants, ExportInv, NEW e \in Exporters, E!Start(e) \/ E!Acquire(e) \/ E!GiveUp(e)
  PROVE  ExportInv'
<1>1. UNCHANGED <<journal, bundle, manifest>>
  BY DEF E!Start, E!Acquire, E!GiveUp
<1>2. ExportCalls'
  BY DEF ExportInv, ExportCalls, ExportConstants, E!Start, E!Acquire, E!GiveUp, E!Returns
<1>3. ExportFiles' /\ HalfPairKeepsItsJournal' /\ E!ManifestBindsBundle'
  BY <1>1 DEF ExportInv, ExportFiles, HalfPairKeepsItsJournal, Paired, E!ManifestBindsBundle
<1>4. InstalledSoFar'
  BY <1>1 DEF ExportInv, ExportCalls, InstalledSoFar, E!Start, E!Acquire, E!GiveUp, E!Returns
<1>5. E!ReportedPairStays'
  BY <1>1 DEF ExportInv, ExportCalls, E!ReportedPairStays, E!Start, E!Acquire, E!GiveUp, E!Returns
<1> QED BY <1>2, <1>3, <1>4, <1>5 DEF ExportInv

LEMMA ExportJournals ==
  ASSUME ExportConstants, ExportInv, NEW e \in Exporters, E!InstallJournal(e) PROVE ExportInv'
<1> DEFINE k == E!Key(req[e])
<1>1. k \in E!Keys /\ req[e] \in Requests /\ step[e] = "journal" /\ UNCHANGED <<req, bundle, manifest>>
  BY ExportNames DEF ExportInv, ExportCalls, E!InstallJournal
<1>2. PICK f \in {E!Installed(k)} \cup E!FailingWrites(journal[k], k) :
        /\ journal' = [journal EXCEPT ![k] = f]
        /\ (E!Goes(e, "bundle") /\ f = E!Installed(k)) \/ E!Returns(e, "error")
  BY DEF E!InstallJournal
<1>3. journal[k] \in E!File(E!Keys) /\ E!Fits(journal[k], k) /\ journal[k].disk \subseteq {k} /\ journal \in [E!Keys -> E!File(E!Keys)]
  BY <1>1 DEF ExportInv, ExportFiles
<1>4. f \in E!File(E!Keys) /\ E!Fits(f, k) /\ f.disk \subseteq {k} /\ \A x : journal[k] = E!Installed(x) => f = journal[k]
  BY <1>1, <1>2, <1>3, FileWritten
<1>5. ExportCalls'
  BY <1>1, <1>2, ExportCallsStep DEF ExportInv
<1>6. ExportFiles'
  BY <1>1, <1>2, <1>3, <1>4 DEF ExportInv, ExportFiles
<1>7. \A j \in E!Keys : \A x : journal[j] = E!Installed(x) => journal'[j] = E!Installed(x)
  BY <1>2, <1>3, <1>4
<1>8. \A d \in Exporters \ {e} : step'[d] \in {"idle", "lock"}
  BY <1>1, <1>2, OthersHaveNothing DEF ExportInv, ExportCalls, E!Goes, E!Returns
<1>9. step'[e] = "idle" \/ (step'[e] = "bundle" /\ f = E!Installed(k))
  BY <1>1, <1>2 DEF ExportInv, ExportCalls, E!Goes, E!Returns
<1>10. InstalledSoFar'
  BY <1>1, <1>2, <1>3, <1>8, <1>9 DEF InstalledSoFar
<1>11. E!ManifestBindsBundle' /\ HalfPairKeepsItsJournal'
  BY <1>1, <1>7, ExportNames DEF ExportInv, HalfPairKeepsItsJournal, Paired, E!ManifestBindsBundle
<1>12. E!ReportedPairStays'
  BY <1>1, <1>2 DEF ExportInv, ExportCalls, E!ReportedPairStays, E!Goes, E!Returns
<1> QED BY <1>5, <1>6, <1>10, <1>11, <1>12 DEF ExportInv

LEMMA ExportBundles ==
  ASSUME ExportConstants, ExportInv, NEW e \in Exporters, E!InstallBundle(e) PROVE ExportInv'
<1> DEFINE p == req[e].path
           want == req[e].bundle
           V == {r.bundle : r \in Requests}
<1>1. p \in E!Paths /\ want \in V /\ req[e] \in Requests /\ step[e] = "bundle" /\ UNCHANGED <<req, journal, manifest>>
  BY ExportNames DEF ExportInv, ExportCalls, E!InstallBundle
<1>2. CASE UNCHANGED bundle /\ E!Returns(e, "error")
  <2>1. ExportCalls'
    BY <1>1, <1>2, ExportCallsStep DEF ExportInv
  <2>2. ExportFiles' /\ HalfPairKeepsItsJournal' /\ E!ManifestBindsBundle'
    BY <1>1, <1>2 DEF ExportInv, ExportFiles, HalfPairKeepsItsJournal, Paired, E!ManifestBindsBundle
  <2>3. InstalledSoFar' /\ E!ReportedPairStays'
    BY <1>1, <1>2 DEF ExportInv, ExportCalls, InstalledSoFar, E!ReportedPairStays, E!Returns
  <2> QED BY <2>1, <2>2, <2>3 DEF ExportInv
<1>3. CASE ~(UNCHANGED bundle /\ E!Returns(e, "error"))
  <2>1. PICK f \in {E!Installed(want)} \cup E!FailingWrites(bundle[p], want) :
          /\ E!Fits(bundle[p], want) /\ bundle' = [bundle EXCEPT ![p] = f]
          /\ (E!Goes(e, "manifest") /\ f = E!Installed(want)) \/ E!Returns(e, "error")
    BY <1>3 DEF E!InstallBundle
  <2>2. bundle[p] \in E!File(V) /\ bundle[p].disk \subseteq bundle[p].now /\ bundle \in [E!Paths -> E!File(V)]
    BY <1>1 DEF ExportInv, ExportFiles
  <2>3. /\ f \in E!File(V) /\ f.disk \subseteq f.now /\ f.now \subseteq bundle[p].now \cup {want}
        /\ \A x : bundle[p] = E!Installed(x) => f = bundle[p]
    BY <1>1, <2>1, <2>2, FileWritten
  <2>4. ExportCalls'
    BY <1>1, <2>1, ExportCallsStep DEF ExportInv
  <2>5. ExportFiles'
    BY <1>1, <2>1, <2>2, <2>3 DEF ExportInv, ExportFiles
  <2>6. \A q \in E!Paths : \A x : bundle[q] = E!Installed(x) => bundle'[q] = E!Installed(x)
    BY <2>1, <2>2, <2>3
  <2>7. \A d \in Exporters \ {e} : step'[d] \in {"idle", "lock"}
    BY <1>1, <2>1, OthersHaveNothing DEF ExportInv, ExportCalls, E!Goes, E!Returns
  <2>8. step'[e] = "idle" \/ (step'[e] = "manifest" /\ f = E!Installed(want))
    BY <1>1, <2>1 DEF ExportInv, ExportCalls, E!Goes, E!Returns
  <2>9. journal[E!Key(req[e])] = E!Installed(E!Key(req[e]))
    BY <1>1 DEF ExportInv, InstalledSoFar
  <2>10. InstalledSoFar'
    BY <1>1, <2>1, <2>2, <2>7, <2>8, <2>9 DEF InstalledSoFar
  <2>11. E!ManifestBindsBundle'
    <3>1. manifest \in E!File(Requests)
      BY DEF ExportInv, ExportFiles
    <3>2. \A r \in manifest.now \cup manifest.disk : r \in Requests
      BY <3>1 DEF E!File
    <3> QED BY <1>1, <2>6, <3>2, ExportNames DEF ExportInv, E!ManifestBindsBundle
  <2>12. HalfPairKeepsItsJournal'
    <3> SUFFICES ASSUME NEW r \in Requests, (r.bundle \in bundle[r.path].now)', ~Paired(r)'
                 PROVE  (journal[E!Key(r)] = E!Installed(E!Key(r)))'
      BY DEF HalfPairKeepsItsJournal
    <3>1. CASE r.bundle \in bundle[r.path].now
      BY <1>1, <3>1 DEF ExportInv, HalfPairKeepsItsJournal, Paired
    <3>2. CASE r.bundle \notin bundle[r.path].now
      <4>1. E!Key(r) = E!Key(req[e])
        BY <1>1, <2>1, <2>2, <2>3, <3>2, ExportNames, KeysOfPairs
      <4> QED BY <1>1, <2>9, <4>1
    <3> QED BY <3>1, <3>2
  <2>13. E!ReportedPairStays'
    BY <1>1, <2>1, <2>6, ExportNames DEF ExportInv, ExportCalls, E!ReportedPairStays, E!Goes, E!Returns
  <2> QED BY <2>4, <2>5, <2>10, <2>11, <2>12, <2>13 DEF ExportInv
<1> QED BY <1>2, <1>3

LEMMA ExportManifests ==
  ASSUME ExportConstants, ExportInv, NEW e \in Exporters, E!InstallManifest(e) PROVE ExportInv'
<1>1. req[e] \in Requests /\ step[e] = "manifest" /\ UNCHANGED <<req, journal, bundle>>
  BY DEF ExportInv, ExportCalls, E!InstallManifest
<1>2. CASE UNCHANGED manifest /\ E!Returns(e, "error")
  <2>1. ExportCalls'
    BY <1>1, <1>2, ExportCallsStep DEF ExportInv
  <2>2. ExportFiles' /\ HalfPairKeepsItsJournal' /\ E!ManifestBindsBundle'
    BY <1>1, <1>2 DEF ExportInv, ExportFiles, HalfPairKeepsItsJournal, Paired, E!ManifestBindsBundle
  <2>3. InstalledSoFar' /\ E!ReportedPairStays'
    BY <1>1, <1>2 DEF ExportInv, ExportCalls, InstalledSoFar, E!ReportedPairStays, E!Returns
  <2> QED BY <2>1, <2>2, <2>3 DEF ExportInv
<1>3. CASE ~(UNCHANGED manifest /\ E!Returns(e, "error"))
  <2>1. /\ E!Fits(manifest, req[e]) /\ manifest' \in {E!Installed(req[e])} \cup E!FailingWrites(manifest, req[e])
        /\ (E!Goes(e, "unjournal") /\ manifest' = E!Installed(req[e])) \/ E!Returns(e, "error")
    BY <1>3 DEF E!InstallManifest
  <2>2. manifest \in E!File(Requests) /\ manifest.disk \subseteq manifest.now
    BY DEF ExportInv, ExportFiles
  <2>3. /\ manifest' \in E!File(Requests) /\ manifest'.disk \subseteq manifest'.now
        /\ manifest'.now \subseteq manifest.now \cup {req[e]}
        /\ manifest.now \cap manifest.disk \subseteq manifest'.now \cap manifest'.disk
        /\ \A x : manifest = E!Installed(x) => manifest' = manifest
    BY <1>1, <2>1, <2>2, FileWritten
  <2>4. ExportCalls'
    BY <1>1, <2>1, ExportCallsStep DEF ExportInv
  <2>5. ExportFiles'
    BY <1>1, <2>3 DEF ExportInv, ExportFiles
  <2>6. \A d \in Exporters \ {e} : step'[d] \in {"idle", "lock"}
    BY <1>1, <2>1, OthersHaveNothing DEF ExportInv, ExportCalls, E!Goes, E!Returns
  <2>7. step'[e] = "idle" \/ (step'[e] = "unjournal" /\ manifest' = E!Installed(req[e]))
    BY <1>1, <2>1 DEF ExportInv, ExportCalls, E!Goes, E!Returns
  <2>8. journal[E!Key(req[e])] = E!Installed(E!Key(req[e])) /\ bundle[req[e].path] = E!Installed(req[e].bundle)
    BY <1>1 DEF ExportInv, InstalledSoFar
  <2>9. InstalledSoFar'
    BY <1>1, <2>6, <2>7, <2>8 DEF InstalledSoFar
  <2>10. E!ManifestBindsBundle'
    BY <1>1, <2>3, <2>8 DEF ExportInv, E!ManifestBindsBundle
  <2>11. HalfPairKeepsItsJournal'
    BY <1>1, <2>3 DEF ExportInv, HalfPairKeepsItsJournal, Paired
  <2>12. E!ReportedPairStays'
    BY <1>1, <2>1, <2>3 DEF ExportInv, ExportCalls, E!ReportedPairStays, E!Goes, E!Returns
  <2> QED BY <2>4, <2>5, <2>9, <2>10, <2>11, <2>12 DEF ExportInv
<1> QED BY <1>2, <1>3

LEMMA ExportEnds ==
  ASSUME ExportConstants, ExportInv, NEW e \in Exporters, E!RemoveJournal(e) PROVE ExportInv'
<1> DEFINE k == E!Key(req[e])
<1>1. k \in E!Keys /\ req[e] \in Requests /\ step[e] = "unjournal" /\ UNCHANGED <<req, bundle, manifest>>
  BY ExportNames DEF ExportInv, ExportCalls, E!RemoveJournal
<1>2. PICK ending \in {"ok", "error"} : E!Returns(e, ending)
  BY DEF E!RemoveJournal
<1>3. journal \in [E!Keys -> E!File(E!Keys)] /\ \A j \in E!Keys : E!Fits(journal[j], j) /\ journal[j].disk \subseteq {j}
  BY DEF ExportInv, ExportFiles
<1>4. PICK f \in E!File(E!Keys) : journal' = [journal EXCEPT ![k] = f] /\ E!Fits(f, k) /\ f.disk \subseteq {k}
  <2>1. E!Absent \in E!File(E!Keys) /\ E!Fits(E!Absent, k) /\ E!Absent.disk \subseteq {k}
    BY DEF E!Absent, E!File, E!Fits
  <2>2. [journal[k] EXCEPT !.now = {}] \in E!File(E!Keys) /\ E!Fits([journal[k] EXCEPT !.now = {}], k)
        /\ [journal[k] EXCEPT !.now = {}].disk \subseteq {k}
    BY <1>1, <1>3 DEF E!File, E!Fits
  <2>3. journal = [journal EXCEPT ![k] = journal[k]]
    BY <1>1, <1>3
  <2> QED BY <1>1, <1>3, <2>1, <2>2, <2>3 DEF E!RemoveJournal
<1>5. ExportCalls'
  BY <1>1, <1>2, ExportCallsStep DEF ExportInv
<1>6. ExportFiles'
  BY <1>1, <1>3, <1>4 DEF ExportInv, ExportFiles
<1>7. manifest = E!Installed(req[e]) /\ bundle[req[e].path] = E!Installed(req[e].bundle)
  BY <1>1 DEF ExportInv, InstalledSoFar
<1>8. \A d \in Exporters : step'[d] \in {"idle", "lock"}
  BY <1>1, <1>2, OthersHaveNothing DEF ExportInv, ExportCalls, E!Returns
<1>9. InstalledSoFar' /\ E!ManifestBindsBundle'
  BY <1>1, <1>8 DEF ExportInv, InstalledSoFar, E!ManifestBindsBundle
<1>10. HalfPairKeepsItsJournal'
  <2>1. req[e] \in manifest.now \cap manifest.disk
    BY <1>7 DEF E!Installed
  <2>2. \A r \in Requests : ~Paired(r) => E!Key(r) # k
    BY <2>1 DEF Paired
  <2>3. \A r \in Requests : ~Paired(r) => journal'[E!Key(r)] = journal[E!Key(r)]
    BY <1>3, <1>4, <2>2, ExportNames
  <2> QED BY <1>1, <2>3 DEF ExportInv, HalfPairKeepsItsJournal, Paired
<1>11. E!ReportedPairStays'
  BY <1>1, <1>2, <1>7 DEF ExportInv, ExportCalls, E!ReportedPairStays, E!Returns
<1> QED BY <1>5, <1>6, <1>9, <1>10, <1>11 DEF ExportInv

\* A power loss keeps what was both read and synced.
LEMMA FileSettles ==
  ASSUME NEW V, NEW old \in E!File(V), NEW f \in {E!Settled(old, TRUE), E!Settled(old, FALSE)}
  PROVE  /\ f \in E!File(V) /\ f.disk = f.now /\ (f.now = old.now \/ f.now = old.disk)
         /\ \A x : old = E!Installed(x) => f = old
         /\ old.disk \subseteq old.now => f.now \subseteq old.now /\ old.now \cap old.disk \subseteq f.now
         /\ \A x : E!Fits(old, x) /\ old.disk \subseteq {x} => E!Fits(f, x)
BY DEF E!File, E!Settled, E!Installed, E!Fits

LEMMA ExportPowerLoss == ASSUME ExportConstants, ExportInv, E!PowerLoss PROVE ExportInv'
<1>1. PICK js \in [E!Keys -> BOOLEAN], bs \in [E!Paths -> BOOLEAN], m \in BOOLEAN :
        /\ journal' = [k \in E!Keys |-> E!Settled(journal[k], js[k])]
        /\ bundle' = [p \in E!Paths |-> E!Settled(bundle[p], bs[p])]
        /\ manifest' = E!Settled(manifest, m)
  BY DEF E!PowerLoss
<1>2. step' = [e \in Exporters |-> "idle"] /\ lock' = E!None /\ UNCHANGED req
      /\ verdict' = [e \in Exporters |-> IF verdict[e] = "running" THEN "error" ELSE verdict[e]]
  BY DEF E!PowerLoss
<1>3. ExportCalls'
  BY <1>2 DEF ExportInv, ExportCalls, ExportConstants
<1>4. /\ manifest' \in E!File(Requests) /\ manifest'.disk = manifest'.now
      /\ manifest'.now \subseteq manifest.now /\ manifest.now \cap manifest.disk \subseteq manifest'.now
      /\ \A x : manifest = E!Installed(x) => manifest' = manifest
  BY <1>1, FileSettles DEF ExportInv, ExportFiles
<1>5. PICK V : V = {r.bundle : r \in Requests}
  OBVIOUS
<1>6. \A p \in E!Paths :
        /\ bundle'[p] \in E!File(V) /\ bundle'[p].disk = bundle'[p].now
        /\ bundle'[p].now \subseteq bundle[p].now
        /\ \A x : bundle[p] = E!Installed(x) => bundle'[p] = bundle[p]
  <2> TAKE p \in E!Paths
  <2>1. bundle[p] \in E!File(V) /\ bundle[p].disk \subseteq bundle[p].now
    BY <1>5 DEF ExportInv, ExportFiles
  <2>2. bundle'[p] \in {E!Settled(bundle[p], TRUE), E!Settled(bundle[p], FALSE)}
    BY <1>1
  <2> QED BY <2>1, <2>2 DEF E!File, E!Settled, E!Installed, E!Fits
<1>7. \A k \in E!Keys :
        /\ journal'[k] \in E!File(E!Keys) /\ E!Fits(journal'[k], k) /\ journal'[k].disk = journal'[k].now
        /\ \A x : journal[k] = E!Installed(x) => journal'[k] = journal[k]
  <2> TAKE k \in E!Keys
  <2>1. journal[k] \in E!File(E!Keys) /\ E!Fits(journal[k], k) /\ journal[k].disk \subseteq {k}
    BY DEF ExportInv, ExportFiles
  <2>2. journal'[k] \in {E!Settled(journal[k], TRUE), E!Settled(journal[k], FALSE)}
    BY <1>1
  <2> QED BY <2>1, <2>2 DEF E!File, E!Settled, E!Installed, E!Fits
<1>8. ExportFiles'
  BY <1>1, <1>4, <1>5, <1>6, <1>7 DEF ExportFiles, E!Fits
<1>9. InstalledSoFar'
  BY <1>2 DEF InstalledSoFar
<1>10. E!ManifestBindsBundle'
  <2>1. \A r \in manifest.now : r \in Requests
    BY DEF ExportInv, ExportFiles, E!File
  <2> QED BY <1>4, <1>6, <2>1, ExportNames DEF ExportInv, E!ManifestBindsBundle
<1>11. HalfPairKeepsItsJournal'
  BY <1>4, <1>6, <1>7, ExportNames DEF ExportInv, HalfPairKeepsItsJournal, Paired
<1>12. E!ReportedPairStays'
  BY <1>2, <1>4, <1>6, ExportNames DEF ExportInv, ExportCalls, E!ReportedPairStays
<1> QED BY <1>3, <1>8, <1>9, <1>10, <1>11, <1>12 DEF ExportInv

LEMMA ExportNext == ASSUME ExportConstants, ExportInv, [E!Next]_(E!vars) PROVE ExportInv'
<1>1. CASE UNCHANGED E!vars
  BY <1>1 DEF E!vars, ExportInv, ExportCalls, ExportFiles, InstalledSoFar, HalfPairKeepsItsJournal, Paired,
     E!ManifestBindsBundle, E!ReportedPairStays
<1> QED BY <1>1, ExportTurns, ExportJournals, ExportBundles, ExportManifests, ExportEnds, ExportPowerLoss DEF E!Next

LEMMA ExportIsPaired == ASSUME ExportInv PROVE E!ManifestBindsBundle /\ E!HalfPairIsJournaled /\ E!ReportedPairStays
<1>1. \A k : E!Installed(k).disk = {k}
  BY DEF E!Installed
<1> QED BY <1>1 DEF ExportInv, HalfPairKeepsItsJournal, Paired, E!HalfPairIsJournaled

(* Redacted export, any number of commands at once, killed at any time and  *)
(* over any number of power losses: a manifest that can be read describes a *)
(* bundle that is on the disk, half a pair has its intent on the disk, and  *)
(* a pair that was reported stays.                                          *)
THEOREM ExportsArePaired ==
  ASSUME ExportConstants PROVE E!Spec => [](E!ManifestBindsBundle /\ E!HalfPairIsJournaled /\ E!ReportedPairStays)
<1>1. E!Init => ExportInv
  BY ExportBegins
<1>2. ExportInv /\ [E!Next]_(E!vars) => ExportInv'
  BY ExportNext
<1> QED BY <1>1, <1>2, ExportIsPaired, PTL DEF E!Spec

-----------------------------------------------------------------------------
(* The publication store's single file operations.                         *)

FileConstants ==
  None \notin Writers \cup {"prior", "twin", "alien", "undurable", "durable", "failed", "conflict", "uncertain", "litter", "spoilt"}
  /\ {"prior", "twin", "alien", "spoilt"} \cap Writers = {}

Early == {"idle", "waiting", "locked"}
Late == {"release", "done", "killed"}
Undoing == {"back_check", "back_rename", "back_verify", "back_sync"}
Renamed == {"displaced", "validate", "unlink", "recheck", "resync", "sync", "confirm", "reread"}
Points == Early \cup {"observe", "check", "swap", "rename"} \cup Renamed \cup Undoing \cup Late

FileTypes ==
  /\ F!TypeOK /\ pc \in [Writers -> Points]
  /\ held \in [Writers -> [file : Nat, locked : BOOLEAN]] /\ syncErr \in [Writers -> BOOLEAN]
  /\ here \in BOOLEAN /\ lockFile \in Nat /\ upsets \in Nat

SeenTypes == seen \in [Writers -> [prior : {"prior", "twin", None}, displaced : F!Files]]

\* What a writer's own name holds where it is, and which operation that is.
OperationAt(w) ==
  /\ pc[w] \in Early => temp[w] = (IF op[w] = "install" THEN w ELSE None)
  /\ pc[w] \in {"observe", "check", "swap", "rename"} => temp[w] = w
  /\ pc[w] \in {"observe", "check", "swap", "displaced", "unlink"} => op[w] = "replace"
  /\ pc[w] = "rename" => op[w] \in {"create", "install"}
  /\ pc[w] \in {"validate"} \cup Undoing => op[w] # "write"
  /\ pc[w] = "unlink" \/ (pc[w] = "validate" /\ op[w] = "replace") => temp[w] = seen[w].prior
  /\ pc[w] = "resync" <=> op[w] = "install" /\ pc[w] \in {"recheck", "resync"}
  /\ pc[w] \in Early \cup {"observe", "check", "swap", "rename", "displaced"} => result[w] = None
  /\ op[w] = "install" => result[w] \in {None, "durable", "undurable"}

\* A file is under one name only; one that was not made or was removed is under none.
Nowhere(x) == file # x /\ \A v \in Writers : temp[v] # x

FilesAreOnce ==
  /\ \A x \in Writers : file = x => \A v \in Writers : temp[v] # x
  /\ \A x, u, v \in Writers : temp[u] = x /\ temp[v] = x => u = v
  /\ \A x \in Writers : pc[x] \in Early /\ op[x] # "install" => Nowhere(x)

RemovedIsOwn ==
  /\ F!NothingIsLost
  /\ \A w \in Writers, f \in F!Files : <<w, f>> \in gone /\ f # w => pc[w] \notin Early \cup {"observe"}

ConflictsLeaveNothing ==
  \A w \in Writers : err[w] = "conflict" =>
    /\ result[w] = None /\ pc[w] \in Undoing \cup Late
    /\ pc[w] \in Undoing => op[w] = "replace"
    /\ pc[w] \in {"back_sync", "release", "done"} => Nowhere(w) /\ temp[w] = None

\* Without upsets the lock works, and who installs its file is the one that wins.
Undisturbed ==
  upsets = 0 =>
    /\ here /\ spoilt = {} /\ lockFile = 0 /\ file \in {"prior", None} \cup Writers
    /\ \A w \in Writers :
         /\ held[w].file = 0 /\ ~syncErr[w] /\ pc[w] \notin Undoing \cup {"killed"}
         /\ held[w].locked <=> pc[w] \notin {"idle", "waiting", "done"}
         /\ pc[w] \in {"check", "swap"} => file = "prior" /\ seen[w].prior = "prior"
         /\ pc[w] = "displaced" => temp[w] = "prior" /\ seen[w].prior = "prior"
         /\ pc[w] \in Renamed => file = w
         /\ pc[w] \in {"confirm", "reread"} => stable = w
         /\ result[w] = "durable" => file = w /\ stable = w /\ pc[w] \in Late
         /\ file = w => pc[w] \in Renamed \/ result[w] = "durable"
    /\ \A v, w \in Writers : held[v].locked /\ held[w].locked => v = w

FileInv ==
  /\ FileTypes /\ SeenTypes /\ (\A w \in Writers : OperationAt(w)) /\ FilesAreOnce
  /\ RemovedIsOwn /\ ConflictsLeaveNothing /\ Undisturbed


\* Opening and locking keep the shape of a lock.
LEMMA LocksAreLocks ==
  ASSUME FileTypes, NEW w \in Writers,
         (\E f \in Nat : held' = [held EXCEPT ![w].file = f]) \/ \E b \in BOOLEAN : held' = [held EXCEPT ![w].locked = b]
  PROVE  held' \in [Writers -> [file : Nat, locked : BOOLEAN]]
<1>1. ASSUME NEW f \in Nat, held' = [held EXCEPT ![w].file = f] PROVE held' \in [Writers -> [file : Nat, locked : BOOLEAN]]
  BY <1>1 DEF FileTypes
<1>2. ASSUME NEW b \in BOOLEAN, held' = [held EXCEPT ![w].locked = b] PROVE held' \in [Writers -> [file : Nat, locked : BOOLEAN]]
  BY <1>2 DEF FileTypes
<1> QED BY <1>1, <1>2

\* A writer that moves files between the document's name and its own, or lets one go, loses sight of none.
LEMMA FilesMove ==
  ASSUME FileConstants, FileTypes, FilesAreOnce, NEW w \in Writers, UNCHANGED op, pc'[w] \notin Early,
         \A v \in Writers \ {w} : temp'[v] = temp[v] /\ pc'[v] = pc[v],
         \/ file' = file /\ temp'[w] \in {temp[w], None}
         \/ file' = file /\ temp'[w] = w /\ Nowhere(w)
         \/ file' = temp[w] /\ temp'[w] \in {file, None}
         \/ file' = None /\ temp'[w] = temp[w]
  PROVE  FilesAreOnce'
<1>1. None \notin Writers
  BY DEF FileConstants
<1>2. \A x \in Writers : file' = x => \A v \in Writers : temp'[v] # x
  BY <1>1 DEF FilesAreOnce, Nowhere
<1>3. \A x, u, v \in Writers : temp'[u] = x /\ temp'[v] = x => u = v
  BY <1>1 DEF FilesAreOnce, Nowhere
<1>4. \A x \in Writers : pc'[x] \in Early /\ op'[x] # "install" => Nowhere(x)'
  BY <1>1 DEF FilesAreOnce, Nowhere
<1> QED BY <1>2, <1>3, <1>4 DEF FilesAreOnce

\* What a change of one field leaves of what the writers have seen.
LEMMA PriorIsSeen ==
  ASSUME SeenTypes, NEW w \in Writers, NEW f \in {"prior", "twin", None}, seen' = [seen EXCEPT ![w].prior = f]
  PROVE SeenTypes' /\ seen'[w].prior = f /\ \A x \in Writers \ {w} : seen'[x] = seen[x]
BY DEF SeenTypes, F!Files

LEMMA DisplacedIsSeen ==
  ASSUME SeenTypes, NEW w \in Writers, NEW f \in F!Files, seen' = [seen EXCEPT ![w].displaced = f]
  PROVE SeenTypes' /\ \A x \in Writers : seen'[x].prior = seen[x].prior
BY DEF SeenTypes, F!Files

LEMMA FileOpenLock == ASSUME FileConstants, FileInv, NEW w \in Writers, F!OpenLock(w) PROVE FileInv'
<1>1. FileTypes'
  <2>1. op' \in [Writers -> F!Ops] /\ syncErr' \in [Writers -> BOOLEAN]
    BY DEF FileInv, FileTypes, F!TypeOK, F!Files, F!OpenLock, F!Asked, F!Disk, F!Mine, F!Goto, F!Fine, F!Because, F!Upset, F!Refuse
  <2>2. file' \in F!Files /\ temp' \in [Writers -> F!Files] /\ spoilt' \subseteq F!Files
    BY DEF FileInv, FileTypes, F!TypeOK, F!Files, F!OpenLock, F!Asked, F!Disk, F!Mine, F!Goto, F!Fine, F!Because, F!Upset, F!Refuse
  <2>3. pc' \in [Writers -> Points]
    BY SMTT(20) DEF FileInv, FileTypes, F!TypeOK, Points, Early, Late, Undoing, Renamed, F!OpenLock, F!Asked, F!Disk, F!Mine, F!Goto, F!Fine,
       F!Because, F!Upset, F!Refuse
  <2>4. result' \in [Writers -> {None, "undurable", "durable"}]
    BY DEF FileInv, FileTypes, F!TypeOK, F!OpenLock, F!Asked, F!Disk, F!Mine, F!Goto, F!Fine, F!Because, F!Upset, F!Refuse
  <2>5. err' \in [Writers -> {None, "failed", "conflict", "uncertain", "litter"}]
    BY DEF FileInv, FileTypes, F!TypeOK, F!OpenLock, F!Asked, F!Disk, F!Mine, F!Goto, F!Fine, F!Because, F!Upset, F!Refuse
  <2>6. held' \in [Writers -> [file : Nat, locked : BOOLEAN]]
    <3>1. (\E f \in Nat : held' = [held EXCEPT ![w].file = f]) \/ \E b \in BOOLEAN : held' = [held EXCEPT ![w].locked = b]
      BY DEF FileInv, FileTypes, F!OpenLock, F!Asked, F!Disk, F!Mine, F!Goto, F!Fine, F!Because, F!Upset, F!Refuse
    <3> QED BY <3>1, LocksAreLocks DEF FileInv
  <2>7. here' \in BOOLEAN /\ lockFile' \in Nat /\ upsets' \in Nat
    BY DEF FileInv, FileTypes, F!TypeOK, F!OpenLock, F!Asked, F!Disk, F!Mine, F!Goto, F!Fine, F!Because, F!Upset, F!Refuse
  <2> QED BY <2>1, <2>2, <2>3, <2>4, <2>5, <2>6, <2>7 DEF FileTypes, F!TypeOK
<1>2. (\A x \in Writers : OperationAt(x))'
  BY DEF FileConstants, FileInv, FileTypes, F!TypeOK, OperationAt, Early, Late, Undoing, Renamed, F!OpenLock, F!Asked, F!Disk, F!Mine, F!Goto, F!Fine,
     F!Because, F!Upset, F!Refuse
<1>3. FilesAreOnce'
  BY DEF FileConstants, FileInv, FileTypes, F!TypeOK, OperationAt, FilesAreOnce, Nowhere, Early, F!OpenLock, F!Asked, F!Disk, F!Mine, F!Goto, F!Fine,
     F!Because, F!Upset, F!Refuse
<1>4. RemovedIsOwn'
  BY DEF FileConstants, FileInv, FileTypes, F!TypeOK, F!Files, OperationAt, RemovedIsOwn, F!NothingIsLost, Early, F!OpenLock, F!Asked, F!Disk, F!Mine,
     F!Goto, F!Fine, F!Because, F!Upset, F!Refuse
<1>5. ConflictsLeaveNothing'
  BY SMTT(20) DEF FileConstants, FileInv, FileTypes, F!TypeOK, OperationAt, FilesAreOnce, ConflictsLeaveNothing, Nowhere, Undoing, Late, Early,
     F!OpenLock, F!Asked, F!Disk, F!Mine, F!Goto, F!Fine, F!Because, F!Upset, F!Refuse
<1>6. Undisturbed'
  <2> SUFFICES ASSUME upsets' = 0 PROVE Undisturbed'
    BY DEF Undisturbed
  <2>1. upsets = 0 /\ upsets' = upsets
    BY DEF FileInv, FileTypes, F!OpenLock, F!Asked, F!Disk, F!Mine, F!Goto, F!Fine, F!Because, F!Upset, F!Refuse
  <2>2. \A x \in Writers \ {w} : pc[w] \notin {"idle", "waiting", "done"} => pc[x] \in {"idle", "waiting", "done"}
    BY <2>1 DEF FileInv, Undisturbed
  <2>3. (here /\ spoilt = {} /\ lockFile = 0 /\ file \in {"prior", None} \cup Writers)'
    BY <2>1 DEF FileInv, FileTypes, F!TypeOK, Undisturbed, OperationAt, F!OpenLock, F!Asked, F!Disk, F!Mine, F!Goto, F!Fine, F!Because, F!Upset,
       F!Refuse
  <2>4. (\A x \in Writers : held[x].file = 0)'
    BY <2>1 DEF FileInv, FileTypes, F!TypeOK, Undisturbed, Renamed, Undoing, Late, F!OpenLock, F!Asked, F!Disk, F!Mine, F!Goto, F!Fine, F!Because,
       F!Upset, F!Refuse
  <2>5. (\A x \in Writers : ~syncErr[x] /\ pc[x] \notin Undoing \cup {"killed"})'
    BY <2>1 DEF FileInv, FileTypes, F!TypeOK, Undisturbed, OperationAt, Renamed, Undoing, Late, F!OpenLock, F!Asked, F!Disk, F!Mine, F!Goto, F!Fine,
       F!Because, F!Upset, F!Refuse
  <2>6. (\A x \in Writers : held[x].locked <=> pc[x] \notin {"idle", "waiting", "done"})'
    BY <2>1 DEF FileInv, FileTypes, F!TypeOK, Undisturbed, Renamed, Undoing, Late, F!OpenLock, F!Asked, F!Disk, F!Mine, F!Goto, F!Fine, F!Because,
       F!Upset, F!Refuse
  <2>7. (\A x \in Writers : pc[x] \in {"check", "swap"} => file = "prior" /\ seen[x].prior = "prior")'
    BY <2>1, <2>2 DEF FileInv, FileTypes, F!TypeOK, Undisturbed, OperationAt, Renamed, Undoing, Late, FileConstants, F!OpenLock, F!Asked, F!Disk,
       F!Mine, F!Goto, F!Fine, F!Because, F!Upset, F!Refuse
  <2>8. (\A x \in Writers : pc[x] = "displaced" => temp[x] = "prior" /\ seen[x].prior = "prior")'
    BY <2>1 DEF FileInv, FileTypes, F!TypeOK, Undisturbed, OperationAt, Renamed, Undoing, Late, FileConstants, F!OpenLock, F!Asked, F!Disk, F!Mine,
       F!Goto, F!Fine, F!Because, F!Upset, F!Refuse
  <2>9. (\A x \in Writers : pc[x] \in Renamed => file = x)'
    BY <2>1 DEF FileInv, FileTypes, F!TypeOK, Undisturbed, OperationAt, Renamed, Undoing, Late, FileConstants, F!OpenLock, F!Asked, F!Disk, F!Mine,
       F!Goto, F!Fine, F!Because, F!Upset, F!Refuse
  <2>10. (\A x \in Writers : pc[x] \in {"confirm", "reread"} => stable = x)'
    BY <2>1 DEF FileInv, FileTypes, F!TypeOK, Undisturbed, OperationAt, Renamed, Undoing, Late, FileConstants, F!OpenLock, F!Asked, F!Disk, F!Mine,
       F!Goto, F!Fine, F!Because, F!Upset, F!Refuse
  <2>11. (\A x \in Writers : result[x] = "durable" => file = x /\ stable = x /\ pc[x] \in Late)'
    BY <2>1 DEF FileInv, FileTypes, F!TypeOK, Undisturbed, OperationAt, Renamed, Undoing, Late, FileConstants, F!OpenLock, F!Asked, F!Disk, F!Mine,
       F!Goto, F!Fine, F!Because, F!Upset, F!Refuse
  <2>12. (\A x \in Writers : file = x => pc[x] \in Renamed \/ result[x] = "durable")'
    BY <2>1 DEF FileInv, FileTypes, F!TypeOK, Undisturbed, OperationAt, Renamed, Undoing, Late, FileConstants, F!OpenLock, F!Asked, F!Disk, F!Mine,
       F!Goto, F!Fine, F!Because, F!Upset, F!Refuse
  <2>13. (\A v, x \in Writers : held[v].locked /\ held[x].locked => v = x)'
    BY <2>1 DEF FileInv, FileTypes, F!TypeOK, Undisturbed, Renamed, Undoing, Late, F!OpenLock, F!Asked, F!Disk, F!Mine, F!Goto, F!Fine, F!Because,
       F!Upset, F!Refuse
  <2> QED BY <2>3, <2>4, <2>5, <2>6, <2>7, <2>8, <2>9, <2>10, <2>11, <2>12, <2>13 DEF Undisturbed
<1>7. SeenTypes'
  BY DEF FileInv, SeenTypes, F!Files, F!OpenLock, F!Asked, F!Disk, F!Mine, F!Goto, F!Fine, F!Because, F!Upset, F!Refuse
<1> QED BY <1>1, <1>2, <1>3, <1>4, <1>5, <1>6, <1>7 DEF FileInv

LEMMA FileFlock == ASSUME FileConstants, FileInv, NEW w \in Writers, F!Flock(w) PROVE FileInv'
<1>1. FileTypes'
  <2>1. op' \in [Writers -> F!Ops] /\ syncErr' \in [Writers -> BOOLEAN]
    BY DEF FileInv, FileTypes, F!TypeOK, F!Files, F!Flock, F!Asked, F!Disk, F!Mine, F!LockIsValid, F!Goto, F!Fine, F!Because, F!Upset, F!Refuse
  <2>2. file' \in F!Files /\ temp' \in [Writers -> F!Files] /\ spoilt' \subseteq F!Files
    BY DEF FileInv, FileTypes, F!TypeOK, F!Files, F!Flock, F!Asked, F!Disk, F!Mine, F!LockIsValid, F!Goto, F!Fine, F!Because, F!Upset, F!Refuse
  <2>3. pc' \in [Writers -> Points]
    BY SMTT(20) DEF FileInv, FileTypes, F!TypeOK, Points, Early, Late, Undoing, Renamed, F!Flock, F!Asked, F!Disk, F!Mine, F!LockIsValid, F!Goto,
       F!Fine, F!Because, F!Upset, F!Refuse
  <2>4. result' \in [Writers -> {None, "undurable", "durable"}]
    BY DEF FileInv, FileTypes, F!TypeOK, F!Flock, F!Asked, F!Disk, F!Mine, F!LockIsValid, F!Goto, F!Fine, F!Because, F!Upset, F!Refuse
  <2>5. err' \in [Writers -> {None, "failed", "conflict", "uncertain", "litter"}]
    BY DEF FileInv, FileTypes, F!TypeOK, F!Flock, F!Asked, F!Disk, F!Mine, F!LockIsValid, F!Goto, F!Fine, F!Because, F!Upset, F!Refuse
  <2>6. held' \in [Writers -> [file : Nat, locked : BOOLEAN]]
    <3>1. (\E f \in Nat : held' = [held EXCEPT ![w].file = f]) \/ \E b \in BOOLEAN : held' = [held EXCEPT ![w].locked = b]
      BY DEF FileInv, FileTypes, F!Flock, F!Asked, F!Disk, F!Mine, F!LockIsValid, F!Goto, F!Fine, F!Because, F!Upset, F!Refuse
    <3> QED BY <3>1, LocksAreLocks DEF FileInv
  <2>7. here' \in BOOLEAN /\ lockFile' \in Nat /\ upsets' \in Nat
    BY DEF FileInv, FileTypes, F!TypeOK, F!Flock, F!Asked, F!Disk, F!Mine, F!LockIsValid, F!Goto, F!Fine, F!Because, F!Upset, F!Refuse
  <2> QED BY <2>1, <2>2, <2>3, <2>4, <2>5, <2>6, <2>7 DEF FileTypes, F!TypeOK
<1>2. (\A x \in Writers : OperationAt(x))'
  BY DEF FileConstants, FileInv, FileTypes, F!TypeOK, OperationAt, Early, Late, Undoing, Renamed, F!Flock, F!Asked, F!Disk, F!Mine, F!LockIsValid,
     F!Goto, F!Fine, F!Because, F!Upset, F!Refuse
<1>3. FilesAreOnce'
  BY DEF FileConstants, FileInv, FileTypes, F!TypeOK, OperationAt, FilesAreOnce, Nowhere, Early, F!Flock, F!Asked, F!Disk, F!Mine, F!LockIsValid,
     F!Goto, F!Fine, F!Because, F!Upset, F!Refuse
<1>4. RemovedIsOwn'
  BY DEF FileConstants, FileInv, FileTypes, F!TypeOK, F!Files, OperationAt, RemovedIsOwn, F!NothingIsLost, Early, F!Flock, F!Asked, F!Disk, F!Mine,
     F!LockIsValid, F!Goto, F!Fine, F!Because, F!Upset, F!Refuse
<1>5. ConflictsLeaveNothing'
  BY DEF FileConstants, FileInv, FileTypes, F!TypeOK, OperationAt, FilesAreOnce, ConflictsLeaveNothing, Nowhere, Undoing, Late, Early, F!Flock,
     F!Asked, F!Disk, F!Mine, F!LockIsValid, F!Goto, F!Fine, F!Because, F!Upset, F!Refuse
<1>6. Undisturbed'
  <2> SUFFICES ASSUME upsets' = 0 PROVE Undisturbed'
    BY DEF Undisturbed
  <2>1. upsets = 0 /\ upsets' = upsets
    BY DEF FileInv, FileTypes, F!Flock, F!Asked, F!Disk, F!Mine, F!LockIsValid, F!Goto, F!Fine, F!Because, F!Upset, F!Refuse
  <2>2. \A x \in Writers \ {w} : pc[w] \notin {"idle", "waiting", "done"} => pc[x] \in {"idle", "waiting", "done"}
    BY <2>1 DEF FileInv, Undisturbed
  <2>3. (here /\ spoilt = {} /\ lockFile = 0 /\ file \in {"prior", None} \cup Writers)'
    BY <2>1 DEF FileInv, FileTypes, F!TypeOK, Undisturbed, OperationAt, F!Flock, F!Asked, F!Disk, F!Mine, F!LockIsValid, F!Goto, F!Fine, F!Because,
       F!Upset, F!Refuse
  <2>4. (\A x \in Writers : held[x].file = 0)'
    BY <2>1 DEF FileInv, FileTypes, F!TypeOK, Undisturbed, Renamed, Undoing, Late, F!Flock, F!Asked, F!Disk, F!Mine, F!LockIsValid, F!Goto, F!Fine,
       F!Because, F!Upset, F!Refuse
  <2>5. (\A x \in Writers : ~syncErr[x] /\ pc[x] \notin Undoing \cup {"killed"})'
    BY <2>1 DEF FileInv, FileTypes, F!TypeOK, Undisturbed, OperationAt, Renamed, Undoing, Late, F!Flock, F!Asked, F!Disk, F!Mine, F!LockIsValid,
       F!Goto, F!Fine, F!Because, F!Upset, F!Refuse
  <2>6. (\A x \in Writers : held[x].locked <=> pc[x] \notin {"idle", "waiting", "done"})'
    BY <2>1 DEF FileInv, FileTypes, F!TypeOK, Undisturbed, Renamed, Undoing, Late, F!Flock, F!Asked, F!Disk, F!Mine, F!LockIsValid, F!Goto, F!Fine,
       F!Because, F!Upset, F!Refuse
  <2>7. (\A x \in Writers : pc[x] \in {"check", "swap"} => file = "prior" /\ seen[x].prior = "prior")'
    BY <2>1, <2>2 DEF FileInv, FileTypes, F!TypeOK, Undisturbed, OperationAt, Renamed, Undoing, Late, FileConstants, F!Flock, F!Asked, F!Disk, F!Mine,
       F!LockIsValid, F!Goto, F!Fine, F!Because, F!Upset, F!Refuse
  <2>8. (\A x \in Writers : pc[x] = "displaced" => temp[x] = "prior" /\ seen[x].prior = "prior")'
    BY <2>1 DEF FileInv, FileTypes, F!TypeOK, Undisturbed, OperationAt, Renamed, Undoing, Late, FileConstants, F!Flock, F!Asked, F!Disk, F!Mine,
       F!LockIsValid, F!Goto, F!Fine, F!Because, F!Upset, F!Refuse
  <2>9. (\A x \in Writers : pc[x] \in Renamed => file = x)'
    BY <2>1 DEF FileInv, FileTypes, F!TypeOK, Undisturbed, OperationAt, Renamed, Undoing, Late, FileConstants, F!Flock, F!Asked, F!Disk, F!Mine,
       F!LockIsValid, F!Goto, F!Fine, F!Because, F!Upset, F!Refuse
  <2>10. (\A x \in Writers : pc[x] \in {"confirm", "reread"} => stable = x)'
    BY <2>1 DEF FileInv, FileTypes, F!TypeOK, Undisturbed, OperationAt, Renamed, Undoing, Late, FileConstants, F!Flock, F!Asked, F!Disk, F!Mine,
       F!LockIsValid, F!Goto, F!Fine, F!Because, F!Upset, F!Refuse
  <2>11. (\A x \in Writers : result[x] = "durable" => file = x /\ stable = x /\ pc[x] \in Late)'
    BY <2>1 DEF FileInv, FileTypes, F!TypeOK, Undisturbed, OperationAt, Renamed, Undoing, Late, FileConstants, F!Flock, F!Asked, F!Disk, F!Mine,
       F!LockIsValid, F!Goto, F!Fine, F!Because, F!Upset, F!Refuse
  <2>12. (\A x \in Writers : file = x => pc[x] \in Renamed \/ result[x] = "durable")'
    BY <2>1 DEF FileInv, FileTypes, F!TypeOK, Undisturbed, OperationAt, Renamed, Undoing, Late, FileConstants, F!Flock, F!Asked, F!Disk, F!Mine,
       F!LockIsValid, F!Goto, F!Fine, F!Because, F!Upset, F!Refuse
  <2>13. (\A v, x \in Writers : held[v].locked /\ held[x].locked => v = x)'
    BY <2>1 DEF FileInv, FileTypes, F!TypeOK, Undisturbed, Renamed, Undoing, Late, F!Flock, F!Asked, F!Disk, F!Mine, F!LockIsValid, F!Goto, F!Fine,
       F!Because, F!Upset, F!Refuse
  <2> QED BY <2>3, <2>4, <2>5, <2>6, <2>7, <2>8, <2>9, <2>10, <2>11, <2>12, <2>13 DEF Undisturbed
<1>7. SeenTypes'
  BY DEF FileInv, SeenTypes, F!Files, F!Flock, F!Asked, F!Disk, F!Mine, F!LockIsValid, F!Goto, F!Fine, F!Because, F!Upset, F!Refuse
<1> QED BY <1>1, <1>2, <1>3, <1>4, <1>5, <1>6, <1>7 DEF FileInv

LEMMA FileRelease == ASSUME FileConstants, FileInv, NEW w \in Writers, F!Release(w) PROVE FileInv'
<1>1. FileTypes'
  <2>1. op' \in [Writers -> F!Ops] /\ syncErr' \in [Writers -> BOOLEAN]
    BY DEF FileInv, FileTypes, F!TypeOK, F!Files, F!Release, F!Asked, F!Disk, F!Goto, F!LockIsValid, F!Fine, F!Because, F!Upset
  <2>2. file' \in F!Files /\ temp' \in [Writers -> F!Files] /\ spoilt' \subseteq F!Files
    BY DEF FileInv, FileTypes, F!TypeOK, F!Files, F!Release, F!Asked, F!Disk, F!Goto, F!LockIsValid, F!Fine, F!Because, F!Upset
  <2>3. pc' \in [Writers -> Points]
    BY SMTT(20) DEF FileInv, FileTypes, F!TypeOK, Points, Early, Late, Undoing, Renamed, F!Release, F!Asked, F!Disk, F!Goto, F!LockIsValid, F!Fine,
       F!Because, F!Upset
  <2>4. result' \in [Writers -> {None, "undurable", "durable"}]
    BY DEF FileInv, FileTypes, F!TypeOK, F!Release, F!Asked, F!Disk, F!Goto, F!LockIsValid, F!Fine, F!Because, F!Upset
  <2>5. err' \in [Writers -> {None, "failed", "conflict", "uncertain", "litter"}]
    BY DEF FileInv, FileTypes, F!TypeOK, F!Release, F!Asked, F!Disk, F!Goto, F!LockIsValid, F!Fine, F!Because, F!Upset
  <2>6. held' \in [Writers -> [file : Nat, locked : BOOLEAN]]
    BY LocksAreLocks DEF FileInv, FileTypes, F!Release, F!Asked, F!Disk, F!Goto, F!LockIsValid, F!Fine, F!Because, F!Upset
  <2>7. here' \in BOOLEAN /\ lockFile' \in Nat /\ upsets' \in Nat
    BY DEF FileInv, FileTypes, F!TypeOK, F!Release, F!Asked, F!Disk, F!Goto, F!LockIsValid, F!Fine, F!Because, F!Upset
  <2> QED BY <2>1, <2>2, <2>3, <2>4, <2>5, <2>6, <2>7 DEF FileTypes, F!TypeOK
<1>2. (\A x \in Writers : OperationAt(x))'
  BY DEF FileConstants, FileInv, FileTypes, F!TypeOK, OperationAt, Early, Late, Undoing, Renamed, F!Release, F!Asked, F!Disk, F!Goto, F!LockIsValid,
     F!Fine, F!Because, F!Upset
<1>3. FilesAreOnce'
  BY DEF FileConstants, FileInv, FileTypes, F!TypeOK, OperationAt, FilesAreOnce, Nowhere, Early, F!Release, F!Asked, F!Disk, F!Goto, F!LockIsValid,
     F!Fine, F!Because, F!Upset
<1>4. RemovedIsOwn'
  BY DEF FileConstants, FileInv, FileTypes, F!TypeOK, F!Files, OperationAt, RemovedIsOwn, F!NothingIsLost, Early, F!Release, F!Asked, F!Disk, F!Goto,
     F!LockIsValid, F!Fine, F!Because, F!Upset
<1>5. ConflictsLeaveNothing'
  BY DEF FileConstants, FileInv, FileTypes, F!TypeOK, OperationAt, FilesAreOnce, ConflictsLeaveNothing, Nowhere, Undoing, Late, Early, F!Release,
     F!Asked, F!Disk, F!Goto, F!LockIsValid, F!Fine, F!Because, F!Upset
<1>6. Undisturbed'
  BY DEF FileConstants, FileInv, FileTypes, F!TypeOK, OperationAt, FilesAreOnce, Undisturbed, Renamed, Undoing, Late, F!Release, F!Asked, F!Disk,
     F!Goto, F!LockIsValid, F!Fine, F!Because, F!Upset
<1>7. SeenTypes'
  BY DEF FileInv, SeenTypes, F!Files, F!Release, F!Asked, F!Disk, F!Goto, F!LockIsValid, F!Fine, F!Because, F!Upset
<1> QED BY <1>1, <1>2, <1>3, <1>4, <1>5, <1>6, <1>7 DEF FileInv

LEMMA FileKill == ASSUME FileConstants, FileInv, NEW w \in Writers, F!Kill(w) PROVE FileInv'
<1>1. FileTypes'
  <2>1. op' \in [Writers -> F!Ops] /\ syncErr' \in [Writers -> BOOLEAN]
    BY DEF FileInv, FileTypes, F!TypeOK, F!Files, F!Kill, F!Upset, F!Goto
  <2>2. file' \in F!Files /\ temp' \in [Writers -> F!Files] /\ spoilt' \subseteq F!Files
    BY DEF FileInv, FileTypes, F!TypeOK, F!Files, F!Kill, F!Upset, F!Goto
  <2>3. pc' \in [Writers -> Points]
    BY SMTT(20) DEF FileInv, FileTypes, F!TypeOK, Points, Early, Late, Undoing, Renamed, F!Kill, F!Upset, F!Goto
  <2>4. result' \in [Writers -> {None, "undurable", "durable"}]
    BY DEF FileInv, FileTypes, F!TypeOK, F!Kill, F!Upset, F!Goto
  <2>5. err' \in [Writers -> {None, "failed", "conflict", "uncertain", "litter"}]
    BY DEF FileInv, FileTypes, F!TypeOK, F!Kill, F!Upset, F!Goto
  <2>6. held' \in [Writers -> [file : Nat, locked : BOOLEAN]]
    BY DEF FileInv, FileTypes, F!TypeOK, F!Kill, F!Upset, F!Goto
  <2>7. here' \in BOOLEAN /\ lockFile' \in Nat /\ upsets' \in Nat
    BY DEF FileInv, FileTypes, F!TypeOK, F!Kill, F!Upset, F!Goto
  <2> QED BY <2>1, <2>2, <2>3, <2>4, <2>5, <2>6, <2>7 DEF FileTypes, F!TypeOK
<1>2. (\A x \in Writers : OperationAt(x))'
  BY DEF FileConstants, FileInv, FileTypes, F!TypeOK, OperationAt, Early, Late, Undoing, Renamed, F!Kill, F!Upset, F!Goto
<1>3. FilesAreOnce'
  BY DEF FileConstants, FileInv, FileTypes, F!TypeOK, OperationAt, FilesAreOnce, Nowhere, Early, F!Kill, F!Upset, F!Goto
<1>4. RemovedIsOwn'
  BY DEF FileConstants, FileInv, FileTypes, F!TypeOK, F!Files, OperationAt, RemovedIsOwn, F!NothingIsLost, Early, F!Kill, F!Upset, F!Goto
<1>5. ConflictsLeaveNothing'
  BY DEF FileConstants, FileInv, FileTypes, F!TypeOK, OperationAt, FilesAreOnce, ConflictsLeaveNothing, Nowhere, Undoing, Late, Early, F!Kill,
     F!Upset, F!Goto
<1>6. Undisturbed'
  BY DEF FileConstants, FileInv, FileTypes, F!TypeOK, OperationAt, FilesAreOnce, Undisturbed, Renamed, Undoing, Late, F!Kill, F!Upset, F!Goto
<1>7. SeenTypes'
  BY DEF FileInv, SeenTypes, F!Files, F!Kill, F!Upset, F!Goto
<1> QED BY <1>1, <1>2, <1>3, <1>4, <1>5, <1>6, <1>7 DEF FileInv

LEMMA FilePrepareReplacement == ASSUME FileConstants, FileInv, NEW w \in Writers, F!PrepareReplacement(w) PROVE FileInv'
<1>1. FileTypes'
  <2>1. op' \in [Writers -> F!Ops] /\ syncErr' \in [Writers -> BOOLEAN]
    BY DEF FileInv, FileTypes, F!TypeOK, F!Files, F!PrepareReplacement, F!Locks, F!Mine, F!Fine, F!Go, F!Goto, F!Leave, F!Because, F!Upset
  <2>2. file' \in F!Files /\ temp' \in [Writers -> F!Files] /\ spoilt' \subseteq F!Files
    BY DEF FileInv, FileTypes, F!TypeOK, F!Files, F!PrepareReplacement, F!Locks, F!Mine, F!Fine, F!Go, F!Goto, F!Leave, F!Because, F!Upset
  <2>3. pc' \in [Writers -> Points]
    BY SMTT(20) DEF FileInv, FileTypes, F!TypeOK, Points, Early, Late, Undoing, Renamed, F!PrepareReplacement, F!Locks, F!Mine, F!Fine, F!Go, F!Goto,
       F!Leave, F!Because, F!Upset
  <2>4. result' \in [Writers -> {None, "undurable", "durable"}]
    BY DEF FileInv, FileTypes, F!TypeOK, F!PrepareReplacement, F!Locks, F!Mine, F!Fine, F!Go, F!Goto, F!Leave, F!Because, F!Upset
  <2>5. err' \in [Writers -> {None, "failed", "conflict", "uncertain", "litter"}]
    BY DEF FileInv, FileTypes, F!TypeOK, F!PrepareReplacement, F!Locks, F!Mine, F!Fine, F!Go, F!Goto, F!Leave, F!Because, F!Upset
  <2>6. held' \in [Writers -> [file : Nat, locked : BOOLEAN]]
    BY DEF FileInv, FileTypes, F!TypeOK, F!PrepareReplacement, F!Locks, F!Mine, F!Fine, F!Go, F!Goto, F!Leave, F!Because, F!Upset
  <2>7. here' \in BOOLEAN /\ lockFile' \in Nat /\ upsets' \in Nat
    BY DEF FileInv, FileTypes, F!TypeOK, F!PrepareReplacement, F!Locks, F!Mine, F!Fine, F!Go, F!Goto, F!Leave, F!Because, F!Upset
  <2> QED BY <2>1, <2>2, <2>3, <2>4, <2>5, <2>6, <2>7 DEF FileTypes, F!TypeOK
<1>2. (\A x \in Writers : OperationAt(x))'
  BY DEF FileConstants, FileInv, FileTypes, F!TypeOK, OperationAt, Early, Late, Undoing, Renamed, F!PrepareReplacement, F!Locks, F!Mine, F!Fine, F!Go,
     F!Goto, F!Leave, F!Because, F!Upset
<1>3. FilesAreOnce'
  <2>1. UNCHANGED op /\ pc'[w] \notin Early /\ \A v \in Writers \ {w} : temp'[v] = temp[v] /\ pc'[v] = pc[v]
    BY DEF FileInv, FileTypes, F!TypeOK, Early, F!PrepareReplacement, F!Locks, F!Mine, F!Fine, F!Go, F!Goto, F!Leave, F!Because, F!Upset
  <2>2. \/ file' = file /\ temp'[w] \in {temp[w], None}
        \/ file' = file /\ temp'[w] = w /\ Nowhere(w)
        \/ file' = temp[w] /\ temp'[w] \in {file, None}
        \/ file' = None /\ temp'[w] = temp[w]
    BY DEF FileInv, FileTypes, F!TypeOK, FilesAreOnce, Early, F!PrepareReplacement, F!Locks, F!Mine, F!Fine, F!Go, F!Goto, F!Leave, F!Because, F!Upset
  <2> QED BY <2>1, <2>2, FilesMove DEF FileInv
<1>4. RemovedIsOwn'
  BY DEF FileConstants, FileInv, FileTypes, F!TypeOK, F!Files, OperationAt, RemovedIsOwn, F!NothingIsLost, Early, F!PrepareReplacement, F!Locks,
     F!Mine, F!Fine, F!Go, F!Goto, F!Leave, F!Because, F!Upset
<1>5. ConflictsLeaveNothing'
  BY DEF FileConstants, FileInv, FileTypes, F!TypeOK, OperationAt, FilesAreOnce, ConflictsLeaveNothing, Nowhere, Undoing, Late, Early,
     F!PrepareReplacement, F!Locks, F!Mine, F!Fine, F!Go, F!Goto, F!Leave, F!Because, F!Upset
<1>6. Undisturbed'
  BY DEF FileConstants, FileInv, FileTypes, F!TypeOK, OperationAt, FilesAreOnce, Undisturbed, Renamed, Undoing, Late, F!PrepareReplacement, F!Locks,
     F!Mine, F!Fine, F!Go, F!Goto, F!Leave, F!Because, F!Upset
<1>7. SeenTypes'
  BY DEF FileInv, SeenTypes, F!Files, F!PrepareReplacement, F!Locks, F!Mine, F!Fine, F!Go, F!Goto, F!Leave, F!Because, F!Upset
<1> QED BY <1>1, <1>2, <1>3, <1>4, <1>5, <1>6, <1>7 DEF FileInv

LEMMA FileReadStaged == ASSUME FileConstants, FileInv, NEW w \in Writers, F!ReadStaged(w) PROVE FileInv'
<1>1. FileTypes'
  <2>1. op' \in [Writers -> F!Ops] /\ syncErr' \in [Writers -> BOOLEAN]
    BY DEF FileInv, FileTypes, F!TypeOK, F!Files, F!ReadStaged, F!Locks, F!Mine, F!Disk, F!Go, F!Goto, F!Fine, F!Leave, F!Because, F!Upset
  <2>2. file' \in F!Files /\ temp' \in [Writers -> F!Files] /\ spoilt' \subseteq F!Files
    BY DEF FileInv, FileTypes, F!TypeOK, F!Files, F!ReadStaged, F!Locks, F!Mine, F!Disk, F!Go, F!Goto, F!Fine, F!Leave, F!Because, F!Upset
  <2>3. pc' \in [Writers -> Points]
    BY SMTT(20) DEF FileInv, FileTypes, F!TypeOK, Points, Early, Late, Undoing, Renamed, F!ReadStaged, F!Locks, F!Mine, F!Disk, F!Go, F!Goto, F!Fine,
       F!Leave, F!Because, F!Upset
  <2>4. result' \in [Writers -> {None, "undurable", "durable"}]
    BY DEF FileInv, FileTypes, F!TypeOK, F!ReadStaged, F!Locks, F!Mine, F!Disk, F!Go, F!Goto, F!Fine, F!Leave, F!Because, F!Upset
  <2>5. err' \in [Writers -> {None, "failed", "conflict", "uncertain", "litter"}]
    BY DEF FileInv, FileTypes, F!TypeOK, F!ReadStaged, F!Locks, F!Mine, F!Disk, F!Go, F!Goto, F!Fine, F!Leave, F!Because, F!Upset
  <2>6. held' \in [Writers -> [file : Nat, locked : BOOLEAN]]
    BY DEF FileInv, FileTypes, F!TypeOK, F!ReadStaged, F!Locks, F!Mine, F!Disk, F!Go, F!Goto, F!Fine, F!Leave, F!Because, F!Upset
  <2>7. here' \in BOOLEAN /\ lockFile' \in Nat /\ upsets' \in Nat
    BY DEF FileInv, FileTypes, F!TypeOK, F!ReadStaged, F!Locks, F!Mine, F!Disk, F!Go, F!Goto, F!Fine, F!Leave, F!Because, F!Upset
  <2> QED BY <2>1, <2>2, <2>3, <2>4, <2>5, <2>6, <2>7 DEF FileTypes, F!TypeOK
<1>2. (\A x \in Writers : OperationAt(x))'
  BY DEF FileConstants, FileInv, FileTypes, F!TypeOK, OperationAt, Early, Late, Undoing, Renamed, F!ReadStaged, F!Locks, F!Mine, F!Disk, F!Go, F!Goto,
     F!Fine, F!Leave, F!Because, F!Upset
<1>3. FilesAreOnce'
  BY DEF FileConstants, FileInv, FileTypes, F!TypeOK, OperationAt, FilesAreOnce, Nowhere, Early, F!ReadStaged, F!Locks, F!Mine, F!Disk, F!Go, F!Goto,
     F!Fine, F!Leave, F!Because, F!Upset
<1>4. RemovedIsOwn'
  BY DEF FileConstants, FileInv, FileTypes, F!TypeOK, F!Files, OperationAt, RemovedIsOwn, F!NothingIsLost, Early, F!ReadStaged, F!Locks, F!Mine,
     F!Disk, F!Go, F!Goto, F!Fine, F!Leave, F!Because, F!Upset
<1>5. ConflictsLeaveNothing'
  BY DEF FileConstants, FileInv, FileTypes, F!TypeOK, OperationAt, FilesAreOnce, ConflictsLeaveNothing, Nowhere, Undoing, Late, Early, F!ReadStaged,
     F!Locks, F!Mine, F!Disk, F!Go, F!Goto, F!Fine, F!Leave, F!Because, F!Upset
<1>6. Undisturbed'
  BY DEF FileConstants, FileInv, FileTypes, F!TypeOK, OperationAt, FilesAreOnce, Undisturbed, Renamed, Undoing, Late, F!ReadStaged, F!Locks, F!Mine,
     F!Disk, F!Go, F!Goto, F!Fine, F!Leave, F!Because, F!Upset
<1>7. SeenTypes'
  BY DEF FileInv, SeenTypes, F!Files, F!ReadStaged, F!Locks, F!Mine, F!Disk, F!Go, F!Goto, F!Fine, F!Leave, F!Because, F!Upset
<1> QED BY <1>1, <1>2, <1>3, <1>4, <1>5, <1>6, <1>7 DEF FileInv

LEMMA FileObservePrior == ASSUME FileConstants, FileInv, NEW w \in Writers, F!ObservePrior(w) PROVE FileInv'
<1>0. (UNCHANGED seen /\ pc'[w] = "release") \/ (seen' = [seen EXCEPT ![w].prior = file] /\ file \in {"prior", "twin"})
  BY DEF FileConstants, FileInv, FileTypes, F!TypeOK, F!Files, F!ObservePrior, F!Hash, F!Purge, F!Leave, F!Goto
<1>s. SeenTypes' /\ (\A x \in Writers \ {w} : seen'[x] = seen[x]) /\ (pc'[w] = "release" \/ seen'[w].prior = file)
  BY <1>0, PriorIsSeen DEF FileInv, SeenTypes, F!Files
<1>1. FileTypes'
  <2>1. op' \in [Writers -> F!Ops] /\ syncErr' \in [Writers -> BOOLEAN]
    BY DEF FileInv, FileTypes, F!TypeOK, F!Files, F!ObservePrior, F!Locks, F!Hash, F!Go, F!Goto, F!Fine, F!Purge, F!Leave, F!Upset
  <2>2. file' \in F!Files /\ temp' \in [Writers -> F!Files] /\ spoilt' \subseteq F!Files
    BY DEF FileInv, FileTypes, F!TypeOK, F!Files, F!ObservePrior, F!Locks, F!Hash, F!Go, F!Goto, F!Fine, F!Purge, F!Leave, F!Upset
  <2>3. pc' \in [Writers -> Points]
    BY SMTT(20) DEF FileInv, FileTypes, F!TypeOK, Points, Early, Late, Undoing, Renamed, F!ObservePrior, F!Locks, F!Hash, F!Go, F!Goto, F!Fine,
       F!Purge, F!Leave, F!Upset
  <2>4. result' \in [Writers -> {None, "undurable", "durable"}]
    BY DEF FileInv, FileTypes, F!TypeOK, F!ObservePrior, F!Locks, F!Hash, F!Go, F!Goto, F!Fine, F!Purge, F!Leave, F!Upset
  <2>5. err' \in [Writers -> {None, "failed", "conflict", "uncertain", "litter"}]
    BY DEF FileInv, FileTypes, F!TypeOK, F!ObservePrior, F!Locks, F!Hash, F!Go, F!Goto, F!Fine, F!Purge, F!Leave, F!Upset
  <2>6. held' \in [Writers -> [file : Nat, locked : BOOLEAN]]
    BY DEF FileInv, FileTypes, F!TypeOK, F!ObservePrior, F!Locks, F!Hash, F!Go, F!Goto, F!Fine, F!Purge, F!Leave, F!Upset
  <2>7. here' \in BOOLEAN /\ lockFile' \in Nat /\ upsets' \in Nat
    BY DEF FileInv, FileTypes, F!TypeOK, F!ObservePrior, F!Locks, F!Hash, F!Go, F!Goto, F!Fine, F!Purge, F!Leave, F!Upset
  <2> QED BY <2>1, <2>2, <2>3, <2>4, <2>5, <2>6, <2>7 DEF FileTypes, F!TypeOK
<1>2. (\A x \in Writers : OperationAt(x))'
  BY <1>s DEF FileConstants, FileInv, FileTypes, F!TypeOK, OperationAt, Early, Late, Undoing, Renamed, F!ObservePrior, F!Locks, F!Hash, F!Go, F!Goto,
     F!Fine, F!Purge, F!Leave, F!Upset
<1>3. FilesAreOnce'
  <2>1. UNCHANGED op /\ pc'[w] \notin Early /\ \A v \in Writers \ {w} : temp'[v] = temp[v] /\ pc'[v] = pc[v]
    BY DEF FileInv, FileTypes, F!TypeOK, Early, F!ObservePrior, F!Locks, F!Hash, F!Go, F!Goto, F!Fine, F!Purge, F!Leave, F!Upset
  <2>2. \/ file' = file /\ temp'[w] \in {temp[w], None}
        \/ file' = file /\ temp'[w] = w /\ Nowhere(w)
        \/ file' = temp[w] /\ temp'[w] \in {file, None}
        \/ file' = None /\ temp'[w] = temp[w]
    BY DEF FileInv, FileTypes, F!TypeOK, FilesAreOnce, Early, F!ObservePrior, F!Locks, F!Hash, F!Go, F!Goto, F!Fine, F!Purge, F!Leave, F!Upset
  <2> QED BY <2>1, <2>2, FilesMove DEF FileInv
<1>4. RemovedIsOwn'
  BY <1>s DEF FileConstants, FileInv, FileTypes, F!TypeOK, F!Files, OperationAt, RemovedIsOwn, F!NothingIsLost, Early, F!ObservePrior, F!Locks,
     F!Hash, F!Go, F!Goto, F!Fine, F!Purge, F!Leave, F!Upset
<1>5. ConflictsLeaveNothing'
  <2>1. \A x \in Writers \ {w} : pc'[x] = pc[x] /\ err'[x] = err[x] /\ temp'[x] = temp[x] /\ result'[x] = result[x]
    BY DEF FileInv, FileTypes, F!TypeOK, F!ObservePrior, F!Locks, F!Hash, F!Go, F!Goto, F!Fine, F!Purge, F!Leave, F!Upset
  <2>2. \A x \in Writers \ {w} : Nowhere(x) /\ pc[x] \in {"back_sync", "release", "done"} => Nowhere(x)'
    BY DEF FileConstants, FileInv, FileTypes, F!TypeOK, OperationAt, FilesAreOnce, Nowhere, F!ObservePrior, F!Locks, F!Hash, F!Go, F!Goto, F!Fine,
       F!Purge, F!Leave, F!Upset
  <2>3. UNCHANGED op
    BY DEF F!ObservePrior, F!Locks, F!Hash, F!Go, F!Goto, F!Fine, F!Purge, F!Leave, F!Upset
  <2>4. \A x \in Writers \ {w} : err'[x] = "conflict" =>
          /\ result'[x] = None /\ pc'[x] \in Undoing \cup Late
          /\ pc'[x] \in Undoing => op'[x] = "replace"
          /\ pc'[x] \in {"back_sync", "release", "done"} => Nowhere(x)' /\ temp'[x] = None
    BY <2>1, <2>2, <2>3 DEF FileInv, ConflictsLeaveNothing
  <2>5. err'[w] = "conflict" => result'[w] = None /\ pc'[w] \in Undoing \cup Late /\ (pc'[w] \in Undoing => op'[w] = "replace")
    BY DEF FileConstants, FileInv, FileTypes, F!TypeOK, OperationAt, ConflictsLeaveNothing, Late, Undoing, F!ObservePrior, F!Locks, F!Hash, F!Go,
       F!Goto, F!Fine, F!Purge, F!Leave, F!Upset
  <2>6. err'[w] = "conflict" /\ pc'[w] \in {"back_sync", "release", "done"} => temp'[w] = None
    BY DEF FileConstants, FileInv, FileTypes, F!TypeOK, OperationAt, ConflictsLeaveNothing, Late, Undoing, F!ObservePrior, F!Locks, F!Hash, F!Go,
       F!Goto, F!Fine, F!Purge, F!Leave, F!Upset
  <2>7. err'[w] = "conflict" /\ pc'[w] \in {"back_sync", "release", "done"} => Nowhere(w)'
    BY DEF FileConstants, FileInv, FileTypes, F!TypeOK, OperationAt, ConflictsLeaveNothing, Late, Undoing, FilesAreOnce, Nowhere, F!ObservePrior,
       F!Locks, F!Hash, F!Go, F!Goto, F!Fine, F!Purge, F!Leave, F!Upset
  <2> QED BY <2>4, <2>5, <2>6, <2>7 DEF ConflictsLeaveNothing
<1>6. Undisturbed'
  <2> SUFFICES ASSUME upsets' = 0 PROVE Undisturbed'
    BY DEF Undisturbed
  <2>1. upsets = 0 /\ upsets' = upsets
    BY DEF FileInv, FileTypes, F!ObservePrior, F!Locks, F!Hash, F!Go, F!Goto, F!Fine, F!Purge, F!Leave, F!Upset
  <2>2. \A x \in Writers \ {w} : pc[w] \notin {"idle", "waiting", "done"} => pc[x] \in {"idle", "waiting", "done"}
    BY <2>1 DEF FileInv, Undisturbed
  <2>3. (here /\ spoilt = {} /\ lockFile = 0 /\ file \in {"prior", None} \cup Writers)'
    BY <2>1 DEF FileInv, FileTypes, F!TypeOK, Undisturbed, OperationAt, F!ObservePrior, F!Locks, F!Hash, F!Go, F!Goto, F!Fine, F!Purge, F!Leave,
       F!Upset
  <2>4. (\A x \in Writers : held[x].file = 0)'
    BY <2>1 DEF FileInv, FileTypes, F!TypeOK, Undisturbed, Renamed, Undoing, Late, F!ObservePrior, F!Locks, F!Hash, F!Go, F!Goto, F!Fine, F!Purge,
       F!Leave, F!Upset
  <2>5. (\A x \in Writers : ~syncErr[x] /\ pc[x] \notin Undoing \cup {"killed"})'
    BY <2>1 DEF FileInv, FileTypes, F!TypeOK, Undisturbed, OperationAt, Renamed, Undoing, Late, F!ObservePrior, F!Locks, F!Hash, F!Go, F!Goto, F!Fine,
       F!Purge, F!Leave, F!Upset
  <2>6. (\A x \in Writers : held[x].locked <=> pc[x] \notin {"idle", "waiting", "done"})'
    BY <2>1 DEF FileInv, FileTypes, F!TypeOK, Undisturbed, Renamed, Undoing, Late, F!ObservePrior, F!Locks, F!Hash, F!Go, F!Goto, F!Fine, F!Purge,
       F!Leave, F!Upset
  <2>7. (\A x \in Writers : pc[x] \in {"check", "swap"} => file = "prior" /\ seen[x].prior = "prior")'
    BY <1>s, <2>1, <2>2 DEF FileInv, FileTypes, F!TypeOK, Undisturbed, OperationAt, Renamed, Undoing, Late, FileConstants, F!ObservePrior, F!Locks,
       F!Hash, F!Go, F!Goto, F!Fine, F!Purge, F!Leave, F!Upset
  <2>8. (\A x \in Writers : pc[x] = "displaced" => temp[x] = "prior" /\ seen[x].prior = "prior")'
    BY <1>s, <2>1 DEF FileInv, FileTypes, F!TypeOK, Undisturbed, OperationAt, Renamed, Undoing, Late, FileConstants, F!ObservePrior, F!Locks, F!Hash,
       F!Go, F!Goto, F!Fine, F!Purge, F!Leave, F!Upset
  <2>9. (\A x \in Writers : pc[x] \in Renamed => file = x)'
    BY <2>1 DEF FileInv, FileTypes, F!TypeOK, Undisturbed, OperationAt, Renamed, Undoing, Late, FileConstants, F!ObservePrior, F!Locks, F!Hash, F!Go,
       F!Goto, F!Fine, F!Purge, F!Leave, F!Upset
  <2>10. (\A x \in Writers : pc[x] \in {"confirm", "reread"} => stable = x)'
    BY <2>1 DEF FileInv, FileTypes, F!TypeOK, Undisturbed, OperationAt, Renamed, Undoing, Late, FileConstants, F!ObservePrior, F!Locks, F!Hash, F!Go,
       F!Goto, F!Fine, F!Purge, F!Leave, F!Upset
  <2>11. (\A x \in Writers : result[x] = "durable" => file = x /\ stable = x /\ pc[x] \in Late)'
    BY <2>1 DEF FileInv, FileTypes, F!TypeOK, Undisturbed, OperationAt, Renamed, Undoing, Late, FileConstants, F!ObservePrior, F!Locks, F!Hash, F!Go,
       F!Goto, F!Fine, F!Purge, F!Leave, F!Upset
  <2>12. (\A x \in Writers : file = x => pc[x] \in Renamed \/ result[x] = "durable")'
    BY <2>1 DEF FileInv, FileTypes, F!TypeOK, Undisturbed, OperationAt, Renamed, Undoing, Late, FileConstants, F!ObservePrior, F!Locks, F!Hash, F!Go,
       F!Goto, F!Fine, F!Purge, F!Leave, F!Upset
  <2>13. (\A v, x \in Writers : held[v].locked /\ held[x].locked => v = x)'
    BY <2>1 DEF FileInv, FileTypes, F!TypeOK, Undisturbed, Renamed, Undoing, Late, F!ObservePrior, F!Locks, F!Hash, F!Go, F!Goto, F!Fine, F!Purge,
       F!Leave, F!Upset
  <2> QED BY <2>3, <2>4, <2>5, <2>6, <2>7, <2>8, <2>9, <2>10, <2>11, <2>12, <2>13 DEF Undisturbed
<1>7. SeenTypes'
  BY <1>s
<1> QED BY <1>1, <1>2, <1>3, <1>4, <1>5, <1>6, <1>7 DEF FileInv

LEMMA FileCheckPrior == ASSUME FileConstants, FileInv, NEW w \in Writers, F!CheckPrior(w) PROVE FileInv'
<1>1. FileTypes'
  <2>1. op' \in [Writers -> F!Ops] /\ syncErr' \in [Writers -> BOOLEAN]
    BY DEF FileInv, FileTypes, F!TypeOK, F!Files, F!CheckPrior, F!Locks, F!Mine, F!validatePublicationFileAt, F!Go, F!Goto, F!Fine, F!Purge, F!Leave,
       F!Upset
  <2>2. file' \in F!Files /\ temp' \in [Writers -> F!Files] /\ spoilt' \subseteq F!Files
    BY DEF FileInv, FileTypes, F!TypeOK, F!Files, F!CheckPrior, F!Locks, F!Mine, F!validatePublicationFileAt, F!Go, F!Goto, F!Fine, F!Purge, F!Leave,
       F!Upset
  <2>3. pc' \in [Writers -> Points]
    BY SMTT(20) DEF FileInv, FileTypes, F!TypeOK, Points, Early, Late, Undoing, Renamed, F!CheckPrior, F!Locks, F!Mine, F!validatePublicationFileAt,
       F!Go, F!Goto, F!Fine, F!Purge, F!Leave, F!Upset
  <2>4. result' \in [Writers -> {None, "undurable", "durable"}]
    BY DEF FileInv, FileTypes, F!TypeOK, F!CheckPrior, F!Locks, F!Mine, F!validatePublicationFileAt, F!Go, F!Goto, F!Fine, F!Purge, F!Leave, F!Upset
  <2>5. err' \in [Writers -> {None, "failed", "conflict", "uncertain", "litter"}]
    BY DEF FileInv, FileTypes, F!TypeOK, F!CheckPrior, F!Locks, F!Mine, F!validatePublicationFileAt, F!Go, F!Goto, F!Fine, F!Purge, F!Leave, F!Upset
  <2>6. held' \in [Writers -> [file : Nat, locked : BOOLEAN]]
    BY DEF FileInv, FileTypes, F!TypeOK, F!CheckPrior, F!Locks, F!Mine, F!validatePublicationFileAt, F!Go, F!Goto, F!Fine, F!Purge, F!Leave, F!Upset
  <2>7. here' \in BOOLEAN /\ lockFile' \in Nat /\ upsets' \in Nat
    BY DEF FileInv, FileTypes, F!TypeOK, F!CheckPrior, F!Locks, F!Mine, F!validatePublicationFileAt, F!Go, F!Goto, F!Fine, F!Purge, F!Leave, F!Upset
  <2> QED BY <2>1, <2>2, <2>3, <2>4, <2>5, <2>6, <2>7 DEF FileTypes, F!TypeOK
<1>2. (\A x \in Writers : OperationAt(x))'
  BY DEF FileConstants, FileInv, FileTypes, F!TypeOK, OperationAt, Early, Late, Undoing, Renamed, F!CheckPrior, F!Locks, F!Mine,
     F!validatePublicationFileAt, F!Go, F!Goto, F!Fine, F!Purge, F!Leave, F!Upset
<1>3. FilesAreOnce'
  <2>1. UNCHANGED op /\ pc'[w] \notin Early /\ \A v \in Writers \ {w} : temp'[v] = temp[v] /\ pc'[v] = pc[v]
    BY DEF FileInv, FileTypes, F!TypeOK, Early, F!CheckPrior, F!Locks, F!Mine, F!validatePublicationFileAt, F!Go, F!Goto, F!Fine, F!Purge, F!Leave,
       F!Upset
  <2>2. \/ file' = file /\ temp'[w] \in {temp[w], None}
        \/ file' = file /\ temp'[w] = w /\ Nowhere(w)
        \/ file' = temp[w] /\ temp'[w] \in {file, None}
        \/ file' = None /\ temp'[w] = temp[w]
    BY DEF FileInv, FileTypes, F!TypeOK, FilesAreOnce, Early, F!CheckPrior, F!Locks, F!Mine, F!validatePublicationFileAt, F!Go, F!Goto, F!Fine,
       F!Purge, F!Leave, F!Upset
  <2> QED BY <2>1, <2>2, FilesMove DEF FileInv
<1>4. RemovedIsOwn'
  BY DEF FileConstants, FileInv, FileTypes, F!TypeOK, F!Files, OperationAt, RemovedIsOwn, F!NothingIsLost, Early, F!CheckPrior, F!Locks, F!Mine,
     F!validatePublicationFileAt, F!Go, F!Goto, F!Fine, F!Purge, F!Leave, F!Upset
<1>5. ConflictsLeaveNothing'
  BY DEF FileConstants, FileInv, FileTypes, F!TypeOK, OperationAt, FilesAreOnce, ConflictsLeaveNothing, Nowhere, Undoing, Late, Early, F!CheckPrior,
     F!Locks, F!Mine, F!validatePublicationFileAt, F!Go, F!Goto, F!Fine, F!Purge, F!Leave, F!Upset
<1>6. Undisturbed'
  <2> SUFFICES ASSUME upsets' = 0 PROVE Undisturbed'
    BY DEF Undisturbed
  <2>1. upsets = 0 /\ upsets' = upsets
    BY DEF FileInv, FileTypes, F!CheckPrior, F!Locks, F!Mine, F!validatePublicationFileAt, F!Go, F!Goto, F!Fine, F!Purge, F!Leave, F!Upset
  <2>2. \A x \in Writers \ {w} : pc[w] \notin {"idle", "waiting", "done"} => pc[x] \in {"idle", "waiting", "done"}
    BY <2>1 DEF FileInv, Undisturbed
  <2>3. (here /\ spoilt = {} /\ lockFile = 0 /\ file \in {"prior", None} \cup Writers)'
    BY <2>1 DEF FileInv, FileTypes, F!TypeOK, Undisturbed, OperationAt, F!CheckPrior, F!Locks, F!Mine, F!validatePublicationFileAt, F!Go, F!Goto,
       F!Fine, F!Purge, F!Leave, F!Upset
  <2>4. (\A x \in Writers : held[x].file = 0)'
    BY <2>1 DEF FileInv, FileTypes, F!TypeOK, Undisturbed, Renamed, Undoing, Late, F!CheckPrior, F!Locks, F!Mine, F!validatePublicationFileAt, F!Go,
       F!Goto, F!Fine, F!Purge, F!Leave, F!Upset
  <2>5. (\A x \in Writers : ~syncErr[x] /\ pc[x] \notin Undoing \cup {"killed"})'
    BY <2>1 DEF FileInv, FileTypes, F!TypeOK, Undisturbed, OperationAt, Renamed, Undoing, Late, F!CheckPrior, F!Locks, F!Mine,
       F!validatePublicationFileAt, F!Go, F!Goto, F!Fine, F!Purge, F!Leave, F!Upset
  <2>6. (\A x \in Writers : held[x].locked <=> pc[x] \notin {"idle", "waiting", "done"})'
    BY <2>1 DEF FileInv, FileTypes, F!TypeOK, Undisturbed, Renamed, Undoing, Late, F!CheckPrior, F!Locks, F!Mine, F!validatePublicationFileAt, F!Go,
       F!Goto, F!Fine, F!Purge, F!Leave, F!Upset
  <2>7. (\A x \in Writers : pc[x] \in {"check", "swap"} => file = "prior" /\ seen[x].prior = "prior")'
    BY <2>1, <2>2 DEF FileInv, FileTypes, F!TypeOK, Undisturbed, OperationAt, Renamed, Undoing, Late, FileConstants, F!CheckPrior, F!Locks, F!Mine,
       F!validatePublicationFileAt, F!Go, F!Goto, F!Fine, F!Purge, F!Leave, F!Upset
  <2>8. (\A x \in Writers : pc[x] = "displaced" => temp[x] = "prior" /\ seen[x].prior = "prior")'
    BY <2>1 DEF FileInv, FileTypes, F!TypeOK, Undisturbed, OperationAt, Renamed, Undoing, Late, FileConstants, F!CheckPrior, F!Locks, F!Mine,
       F!validatePublicationFileAt, F!Go, F!Goto, F!Fine, F!Purge, F!Leave, F!Upset
  <2>9. (\A x \in Writers : pc[x] \in Renamed => file = x)'
    BY <2>1 DEF FileInv, FileTypes, F!TypeOK, Undisturbed, OperationAt, Renamed, Undoing, Late, FileConstants, F!CheckPrior, F!Locks, F!Mine,
       F!validatePublicationFileAt, F!Go, F!Goto, F!Fine, F!Purge, F!Leave, F!Upset
  <2>10. (\A x \in Writers : pc[x] \in {"confirm", "reread"} => stable = x)'
    BY <2>1 DEF FileInv, FileTypes, F!TypeOK, Undisturbed, OperationAt, Renamed, Undoing, Late, FileConstants, F!CheckPrior, F!Locks, F!Mine,
       F!validatePublicationFileAt, F!Go, F!Goto, F!Fine, F!Purge, F!Leave, F!Upset
  <2>11. (\A x \in Writers : result[x] = "durable" => file = x /\ stable = x /\ pc[x] \in Late)'
    BY <2>1 DEF FileInv, FileTypes, F!TypeOK, Undisturbed, OperationAt, Renamed, Undoing, Late, FileConstants, F!CheckPrior, F!Locks, F!Mine,
       F!validatePublicationFileAt, F!Go, F!Goto, F!Fine, F!Purge, F!Leave, F!Upset
  <2>12. (\A x \in Writers : file = x => pc[x] \in Renamed \/ result[x] = "durable")'
    BY <2>1 DEF FileInv, FileTypes, F!TypeOK, Undisturbed, OperationAt, Renamed, Undoing, Late, FileConstants, F!CheckPrior, F!Locks, F!Mine,
       F!validatePublicationFileAt, F!Go, F!Goto, F!Fine, F!Purge, F!Leave, F!Upset
  <2>13. (\A v, x \in Writers : held[v].locked /\ held[x].locked => v = x)'
    BY <2>1 DEF FileInv, FileTypes, F!TypeOK, Undisturbed, Renamed, Undoing, Late, F!CheckPrior, F!Locks, F!Mine, F!validatePublicationFileAt, F!Go,
       F!Goto, F!Fine, F!Purge, F!Leave, F!Upset
  <2> QED BY <2>3, <2>4, <2>5, <2>6, <2>7, <2>8, <2>9, <2>10, <2>11, <2>12, <2>13 DEF Undisturbed
<1>7. SeenTypes'
  BY DEF FileInv, SeenTypes, F!Files, F!CheckPrior, F!Locks, F!Mine, F!validatePublicationFileAt, F!Go, F!Goto, F!Fine, F!Purge, F!Leave, F!Upset
<1> QED BY <1>1, <1>2, <1>3, <1>4, <1>5, <1>6, <1>7 DEF FileInv

LEMMA FileExclusiveRename == ASSUME FileConstants, FileInv, NEW w \in Writers, F!ExclusiveRename(w) PROVE FileInv'
<1>1. FileTypes'
  <2>1. op' \in [Writers -> F!Ops] /\ syncErr' \in [Writers -> BOOLEAN]
    BY DEF FileInv, FileTypes, F!TypeOK, F!Files, F!ExclusiveRename, F!Locks, F!Mine, F!Go, F!Goto, F!Fine, F!Purge, F!Leave, F!Upset
  <2>2. file' \in F!Files /\ temp' \in [Writers -> F!Files] /\ spoilt' \subseteq F!Files
    BY DEF FileInv, FileTypes, F!TypeOK, F!Files, F!ExclusiveRename, F!Locks, F!Mine, F!Go, F!Goto, F!Fine, F!Purge, F!Leave, F!Upset
  <2>3. pc' \in [Writers -> Points]
    BY SMTT(20) DEF FileInv, FileTypes, F!TypeOK, Points, Early, Late, Undoing, Renamed, F!ExclusiveRename, F!Locks, F!Mine, F!Go, F!Goto, F!Fine,
       F!Purge, F!Leave, F!Upset
  <2>4. result' \in [Writers -> {None, "undurable", "durable"}]
    BY DEF FileInv, FileTypes, F!TypeOK, F!ExclusiveRename, F!Locks, F!Mine, F!Go, F!Goto, F!Fine, F!Purge, F!Leave, F!Upset
  <2>5. err' \in [Writers -> {None, "failed", "conflict", "uncertain", "litter"}]
    BY DEF FileInv, FileTypes, F!TypeOK, F!ExclusiveRename, F!Locks, F!Mine, F!Go, F!Goto, F!Fine, F!Purge, F!Leave, F!Upset
  <2>6. held' \in [Writers -> [file : Nat, locked : BOOLEAN]]
    BY DEF FileInv, FileTypes, F!TypeOK, F!ExclusiveRename, F!Locks, F!Mine, F!Go, F!Goto, F!Fine, F!Purge, F!Leave, F!Upset
  <2>7. here' \in BOOLEAN /\ lockFile' \in Nat /\ upsets' \in Nat
    BY DEF FileInv, FileTypes, F!TypeOK, F!ExclusiveRename, F!Locks, F!Mine, F!Go, F!Goto, F!Fine, F!Purge, F!Leave, F!Upset
  <2> QED BY <2>1, <2>2, <2>3, <2>4, <2>5, <2>6, <2>7 DEF FileTypes, F!TypeOK
<1>2. (\A x \in Writers : OperationAt(x))'
  BY DEF FileConstants, FileInv, FileTypes, F!TypeOK, OperationAt, Early, Late, Undoing, Renamed, F!ExclusiveRename, F!Locks, F!Mine, F!Go, F!Goto,
     F!Fine, F!Purge, F!Leave, F!Upset
<1>3. FilesAreOnce'
  <2>1. UNCHANGED op /\ pc'[w] \notin Early /\ \A v \in Writers \ {w} : temp'[v] = temp[v] /\ pc'[v] = pc[v]
    BY DEF FileInv, FileTypes, F!TypeOK, Early, F!ExclusiveRename, F!Locks, F!Mine, F!Go, F!Goto, F!Fine, F!Purge, F!Leave, F!Upset
  <2>2. \/ file' = file /\ temp'[w] \in {temp[w], None}
        \/ file' = file /\ temp'[w] = w /\ Nowhere(w)
        \/ file' = temp[w] /\ temp'[w] \in {file, None}
        \/ file' = None /\ temp'[w] = temp[w]
    BY DEF FileInv, FileTypes, F!TypeOK, FilesAreOnce, Early, F!ExclusiveRename, F!Locks, F!Mine, F!Go, F!Goto, F!Fine, F!Purge, F!Leave, F!Upset
  <2> QED BY <2>1, <2>2, FilesMove DEF FileInv
<1>4. RemovedIsOwn'
  BY DEF FileConstants, FileInv, FileTypes, F!TypeOK, F!Files, OperationAt, RemovedIsOwn, F!NothingIsLost, Early, F!ExclusiveRename, F!Locks, F!Mine,
     F!Go, F!Goto, F!Fine, F!Purge, F!Leave, F!Upset
<1>5. ConflictsLeaveNothing'
  <2>1. \A x \in Writers \ {w} : pc'[x] = pc[x] /\ err'[x] = err[x] /\ temp'[x] = temp[x] /\ result'[x] = result[x]
    BY DEF FileInv, FileTypes, F!TypeOK, F!ExclusiveRename, F!Locks, F!Mine, F!Go, F!Goto, F!Fine, F!Purge, F!Leave, F!Upset
  <2>2. \A x \in Writers \ {w} : Nowhere(x) /\ pc[x] \in {"back_sync", "release", "done"} => Nowhere(x)'
    BY DEF FileConstants, FileInv, FileTypes, F!TypeOK, OperationAt, FilesAreOnce, Nowhere, F!ExclusiveRename, F!Locks, F!Mine, F!Go, F!Goto, F!Fine,
       F!Purge, F!Leave, F!Upset
  <2>3. UNCHANGED op
    BY DEF F!ExclusiveRename, F!Locks, F!Mine, F!Go, F!Goto, F!Fine, F!Purge, F!Leave, F!Upset
  <2>4. \A x \in Writers \ {w} : err'[x] = "conflict" =>
          /\ result'[x] = None /\ pc'[x] \in Undoing \cup Late
          /\ pc'[x] \in Undoing => op'[x] = "replace"
          /\ pc'[x] \in {"back_sync", "release", "done"} => Nowhere(x)' /\ temp'[x] = None
    BY <2>1, <2>2, <2>3 DEF FileInv, ConflictsLeaveNothing
  <2>5. err'[w] = "conflict" => result'[w] = None /\ pc'[w] \in Undoing \cup Late /\ (pc'[w] \in Undoing => op'[w] = "replace")
    BY DEF FileConstants, FileInv, FileTypes, F!TypeOK, OperationAt, ConflictsLeaveNothing, Late, Undoing, F!ExclusiveRename, F!Locks, F!Mine, F!Go,
       F!Goto, F!Fine, F!Purge, F!Leave, F!Upset
  <2>6. err'[w] = "conflict" /\ pc'[w] \in {"back_sync", "release", "done"} => temp'[w] = None
    BY DEF FileConstants, FileInv, FileTypes, F!TypeOK, OperationAt, ConflictsLeaveNothing, Late, Undoing, F!ExclusiveRename, F!Locks, F!Mine, F!Go,
       F!Goto, F!Fine, F!Purge, F!Leave, F!Upset
  <2>7. err'[w] = "conflict" /\ pc'[w] \in {"back_sync", "release", "done"} => Nowhere(w)'
    BY DEF FileConstants, FileInv, FileTypes, F!TypeOK, OperationAt, ConflictsLeaveNothing, Late, Undoing, FilesAreOnce, Nowhere, F!ExclusiveRename,
       F!Locks, F!Mine, F!Go, F!Goto, F!Fine, F!Purge, F!Leave, F!Upset
  <2> QED BY <2>4, <2>5, <2>6, <2>7 DEF ConflictsLeaveNothing
<1>6. Undisturbed'
  BY DEF FileConstants, FileInv, FileTypes, F!TypeOK, OperationAt, FilesAreOnce, Undisturbed, Renamed, Undoing, Late, F!ExclusiveRename, F!Locks,
     F!Mine, F!Go, F!Goto, F!Fine, F!Purge, F!Leave, F!Upset
<1>7. SeenTypes'
  BY DEF FileInv, SeenTypes, F!Files, F!ExclusiveRename, F!Locks, F!Mine, F!Go, F!Goto, F!Fine, F!Purge, F!Leave, F!Upset
<1> QED BY <1>1, <1>2, <1>3, <1>4, <1>5, <1>6, <1>7 DEF FileInv

LEMMA FileSwapRename == ASSUME FileConstants, FileInv, NEW w \in Writers, F!SwapRename(w) PROVE FileInv'
<1>1. FileTypes'
  <2>1. op' \in [Writers -> F!Ops] /\ syncErr' \in [Writers -> BOOLEAN]
    BY DEF FileInv, FileTypes, F!TypeOK, F!Files, F!SwapRename, F!Locks, F!Mine, F!Go, F!Goto, F!Fine, F!Purge, F!Leave, F!Upset
  <2>2. file' \in F!Files /\ temp' \in [Writers -> F!Files] /\ spoilt' \subseteq F!Files
    BY DEF FileInv, FileTypes, F!TypeOK, F!Files, F!SwapRename, F!Locks, F!Mine, F!Go, F!Goto, F!Fine, F!Purge, F!Leave, F!Upset
  <2>3. pc' \in [Writers -> Points]
    BY SMTT(20) DEF FileInv, FileTypes, F!TypeOK, Points, Early, Late, Undoing, Renamed, F!SwapRename, F!Locks, F!Mine, F!Go, F!Goto, F!Fine, F!Purge,
       F!Leave, F!Upset
  <2>4. result' \in [Writers -> {None, "undurable", "durable"}]
    BY DEF FileInv, FileTypes, F!TypeOK, F!SwapRename, F!Locks, F!Mine, F!Go, F!Goto, F!Fine, F!Purge, F!Leave, F!Upset
  <2>5. err' \in [Writers -> {None, "failed", "conflict", "uncertain", "litter"}]
    BY DEF FileInv, FileTypes, F!TypeOK, F!SwapRename, F!Locks, F!Mine, F!Go, F!Goto, F!Fine, F!Purge, F!Leave, F!Upset
  <2>6. held' \in [Writers -> [file : Nat, locked : BOOLEAN]]
    BY DEF FileInv, FileTypes, F!TypeOK, F!SwapRename, F!Locks, F!Mine, F!Go, F!Goto, F!Fine, F!Purge, F!Leave, F!Upset
  <2>7. here' \in BOOLEAN /\ lockFile' \in Nat /\ upsets' \in Nat
    BY DEF FileInv, FileTypes, F!TypeOK, F!SwapRename, F!Locks, F!Mine, F!Go, F!Goto, F!Fine, F!Purge, F!Leave, F!Upset
  <2> QED BY <2>1, <2>2, <2>3, <2>4, <2>5, <2>6, <2>7 DEF FileTypes, F!TypeOK
<1>2. (\A x \in Writers : OperationAt(x))'
  BY DEF FileConstants, FileInv, FileTypes, F!TypeOK, OperationAt, Early, Late, Undoing, Renamed, F!SwapRename, F!Locks, F!Mine, F!Go, F!Goto, F!Fine,
     F!Purge, F!Leave, F!Upset
<1>3. FilesAreOnce'
  <2>1. UNCHANGED op /\ pc'[w] \notin Early /\ \A v \in Writers \ {w} : temp'[v] = temp[v] /\ pc'[v] = pc[v]
    BY DEF FileInv, FileTypes, F!TypeOK, Early, F!SwapRename, F!Locks, F!Mine, F!Go, F!Goto, F!Fine, F!Purge, F!Leave, F!Upset
  <2>2. \/ file' = file /\ temp'[w] \in {temp[w], None}
        \/ file' = file /\ temp'[w] = w /\ Nowhere(w)
        \/ file' = temp[w] /\ temp'[w] \in {file, None}
        \/ file' = None /\ temp'[w] = temp[w]
    BY DEF FileInv, FileTypes, F!TypeOK, FilesAreOnce, Early, F!SwapRename, F!Locks, F!Mine, F!Go, F!Goto, F!Fine, F!Purge, F!Leave, F!Upset
  <2> QED BY <2>1, <2>2, FilesMove DEF FileInv
<1>4. RemovedIsOwn'
  BY DEF FileConstants, FileInv, FileTypes, F!TypeOK, F!Files, OperationAt, RemovedIsOwn, F!NothingIsLost, Early, F!SwapRename, F!Locks, F!Mine, F!Go,
     F!Goto, F!Fine, F!Purge, F!Leave, F!Upset
<1>5. ConflictsLeaveNothing'
  <2>1. \A x \in Writers \ {w} : pc'[x] = pc[x] /\ err'[x] = err[x] /\ temp'[x] = temp[x] /\ result'[x] = result[x]
    BY DEF FileInv, FileTypes, F!TypeOK, F!SwapRename, F!Locks, F!Mine, F!Go, F!Goto, F!Fine, F!Purge, F!Leave, F!Upset
  <2>2. \A x \in Writers \ {w} : Nowhere(x) /\ pc[x] \in {"back_sync", "release", "done"} => Nowhere(x)'
    BY DEF FileConstants, FileInv, FileTypes, F!TypeOK, OperationAt, FilesAreOnce, Nowhere, F!SwapRename, F!Locks, F!Mine, F!Go, F!Goto, F!Fine,
       F!Purge, F!Leave, F!Upset
  <2>3. UNCHANGED op
    BY DEF F!SwapRename, F!Locks, F!Mine, F!Go, F!Goto, F!Fine, F!Purge, F!Leave, F!Upset
  <2>4. \A x \in Writers \ {w} : err'[x] = "conflict" =>
          /\ result'[x] = None /\ pc'[x] \in Undoing \cup Late
          /\ pc'[x] \in Undoing => op'[x] = "replace"
          /\ pc'[x] \in {"back_sync", "release", "done"} => Nowhere(x)' /\ temp'[x] = None
    BY <2>1, <2>2, <2>3 DEF FileInv, ConflictsLeaveNothing
  <2>5. err'[w] = "conflict" => result'[w] = None /\ pc'[w] \in Undoing \cup Late /\ (pc'[w] \in Undoing => op'[w] = "replace")
    BY DEF FileConstants, FileInv, FileTypes, F!TypeOK, OperationAt, ConflictsLeaveNothing, Late, Undoing, F!SwapRename, F!Locks, F!Mine, F!Go,
       F!Goto, F!Fine, F!Purge, F!Leave, F!Upset
  <2>6. err'[w] = "conflict" /\ pc'[w] \in {"back_sync", "release", "done"} => temp'[w] = None
    BY DEF FileConstants, FileInv, FileTypes, F!TypeOK, OperationAt, ConflictsLeaveNothing, Late, Undoing, F!SwapRename, F!Locks, F!Mine, F!Go,
       F!Goto, F!Fine, F!Purge, F!Leave, F!Upset
  <2>7. err'[w] = "conflict" /\ pc'[w] \in {"back_sync", "release", "done"} => Nowhere(w)'
    BY DEF FileConstants, FileInv, FileTypes, F!TypeOK, OperationAt, ConflictsLeaveNothing, Late, Undoing, FilesAreOnce, Nowhere, F!SwapRename,
       F!Locks, F!Mine, F!Go, F!Goto, F!Fine, F!Purge, F!Leave, F!Upset
  <2> QED BY <2>4, <2>5, <2>6, <2>7 DEF ConflictsLeaveNothing
<1>6. Undisturbed'
  <2> SUFFICES ASSUME upsets' = 0 PROVE Undisturbed'
    BY DEF Undisturbed
  <2>1. upsets = 0 /\ upsets' = upsets
    BY DEF FileInv, FileTypes, F!SwapRename, F!Locks, F!Mine, F!Go, F!Goto, F!Fine, F!Purge, F!Leave, F!Upset
  <2>2. \A x \in Writers \ {w} : pc[w] \notin {"idle", "waiting", "done"} => pc[x] \in {"idle", "waiting", "done"}
    BY <2>1 DEF FileInv, Undisturbed
  <2>3. (here /\ spoilt = {} /\ lockFile = 0 /\ file \in {"prior", None} \cup Writers)'
    BY <2>1 DEF FileInv, FileTypes, F!TypeOK, Undisturbed, OperationAt, F!SwapRename, F!Locks, F!Mine, F!Go, F!Goto, F!Fine, F!Purge, F!Leave, F!Upset
  <2>4. (\A x \in Writers : held[x].file = 0)'
    BY <2>1 DEF FileInv, FileTypes, F!TypeOK, Undisturbed, Renamed, Undoing, Late, F!SwapRename, F!Locks, F!Mine, F!Go, F!Goto, F!Fine, F!Purge,
       F!Leave, F!Upset
  <2>5. (\A x \in Writers : ~syncErr[x] /\ pc[x] \notin Undoing \cup {"killed"})'
    BY <2>1 DEF FileInv, FileTypes, F!TypeOK, Undisturbed, OperationAt, Renamed, Undoing, Late, F!SwapRename, F!Locks, F!Mine, F!Go, F!Goto, F!Fine,
       F!Purge, F!Leave, F!Upset
  <2>6. (\A x \in Writers : held[x].locked <=> pc[x] \notin {"idle", "waiting", "done"})'
    BY <2>1 DEF FileInv, FileTypes, F!TypeOK, Undisturbed, Renamed, Undoing, Late, F!SwapRename, F!Locks, F!Mine, F!Go, F!Goto, F!Fine, F!Purge,
       F!Leave, F!Upset
  <2>7. (\A x \in Writers : pc[x] \in {"check", "swap"} => file = "prior" /\ seen[x].prior = "prior")'
    BY <2>1, <2>2 DEF FileInv, FileTypes, F!TypeOK, Undisturbed, OperationAt, Renamed, Undoing, Late, FileConstants, F!SwapRename, F!Locks, F!Mine,
       F!Go, F!Goto, F!Fine, F!Purge, F!Leave, F!Upset
  <2>8. (\A x \in Writers : pc[x] = "displaced" => temp[x] = "prior" /\ seen[x].prior = "prior")'
    BY <2>1 DEF FileInv, FileTypes, F!TypeOK, Undisturbed, OperationAt, Renamed, Undoing, Late, FileConstants, F!SwapRename, F!Locks, F!Mine, F!Go,
       F!Goto, F!Fine, F!Purge, F!Leave, F!Upset
  <2>9. (\A x \in Writers : pc[x] \in Renamed => file = x)'
    BY <2>1 DEF FileInv, FileTypes, F!TypeOK, Undisturbed, OperationAt, Renamed, Undoing, Late, FileConstants, F!SwapRename, F!Locks, F!Mine, F!Go,
       F!Goto, F!Fine, F!Purge, F!Leave, F!Upset
  <2>10. (\A x \in Writers : pc[x] \in {"confirm", "reread"} => stable = x)'
    BY <2>1 DEF FileInv, FileTypes, F!TypeOK, Undisturbed, OperationAt, Renamed, Undoing, Late, FileConstants, F!SwapRename, F!Locks, F!Mine, F!Go,
       F!Goto, F!Fine, F!Purge, F!Leave, F!Upset
  <2>11. (\A x \in Writers : result[x] = "durable" => file = x /\ stable = x /\ pc[x] \in Late)'
    BY <2>1 DEF FileInv, FileTypes, F!TypeOK, Undisturbed, OperationAt, Renamed, Undoing, Late, FileConstants, F!SwapRename, F!Locks, F!Mine, F!Go,
       F!Goto, F!Fine, F!Purge, F!Leave, F!Upset
  <2>12. (\A x \in Writers : file = x => pc[x] \in Renamed \/ result[x] = "durable")'
    BY <2>1 DEF FileInv, FileTypes, F!TypeOK, Undisturbed, OperationAt, Renamed, Undoing, Late, FileConstants, F!SwapRename, F!Locks, F!Mine, F!Go,
       F!Goto, F!Fine, F!Purge, F!Leave, F!Upset
  <2>13. (\A v, x \in Writers : held[v].locked /\ held[x].locked => v = x)'
    BY <2>1 DEF FileInv, FileTypes, F!TypeOK, Undisturbed, Renamed, Undoing, Late, F!SwapRename, F!Locks, F!Mine, F!Go, F!Goto, F!Fine, F!Purge,
       F!Leave, F!Upset
  <2> QED BY <2>3, <2>4, <2>5, <2>6, <2>7, <2>8, <2>9, <2>10, <2>11, <2>12, <2>13 DEF Undisturbed
<1>7. SeenTypes'
  BY DEF FileInv, SeenTypes, F!Files, F!SwapRename, F!Locks, F!Mine, F!Go, F!Goto, F!Fine, F!Purge, F!Leave, F!Upset
<1> QED BY <1>1, <1>2, <1>3, <1>4, <1>5, <1>6, <1>7 DEF FileInv

LEMMA FileInspectDisplaced == ASSUME FileConstants, FileInv, NEW w \in Writers, F!InspectDisplaced(w) PROVE FileInv'
<1>0. UNCHANGED seen \/ seen' = [seen EXCEPT ![w].displaced = temp[w]]
  BY DEF F!InspectDisplaced
<1>s. SeenTypes' /\ \A x \in Writers : seen'[x].prior = seen[x].prior
  BY <1>0, DisplacedIsSeen DEF FileInv, FileTypes, F!TypeOK, SeenTypes, F!Files
<1>1. FileTypes'
  <2>1. op' \in [Writers -> F!Ops] /\ syncErr' \in [Writers -> BOOLEAN]
    BY DEF FileInv, FileTypes, F!TypeOK, F!Files, F!InspectDisplaced, F!Locks, F!Disk, F!Fine, F!IsPrior, F!Hash, F!Go, F!Goto, F!Leave, F!Upset
  <2>2. file' \in F!Files /\ temp' \in [Writers -> F!Files] /\ spoilt' \subseteq F!Files
    BY DEF FileInv, FileTypes, F!TypeOK, F!Files, F!InspectDisplaced, F!Locks, F!Disk, F!Fine, F!IsPrior, F!Hash, F!Go, F!Goto, F!Leave, F!Upset
  <2>3. pc' \in [Writers -> Points]
    BY SMTT(20) DEF FileInv, FileTypes, F!TypeOK, Points, Early, Late, Undoing, Renamed, F!InspectDisplaced, F!Locks, F!Disk, F!Fine, F!IsPrior,
       F!Hash, F!Go, F!Goto, F!Leave, F!Upset
  <2>4. result' \in [Writers -> {None, "undurable", "durable"}]
    BY DEF FileInv, FileTypes, F!TypeOK, F!InspectDisplaced, F!Locks, F!Disk, F!Fine, F!IsPrior, F!Hash, F!Go, F!Goto, F!Leave, F!Upset
  <2>5. err' \in [Writers -> {None, "failed", "conflict", "uncertain", "litter"}]
    BY DEF FileInv, FileTypes, F!TypeOK, F!InspectDisplaced, F!Locks, F!Disk, F!Fine, F!IsPrior, F!Hash, F!Go, F!Goto, F!Leave, F!Upset
  <2>6. held' \in [Writers -> [file : Nat, locked : BOOLEAN]]
    BY DEF FileInv, FileTypes, F!TypeOK, F!InspectDisplaced, F!Locks, F!Disk, F!Fine, F!IsPrior, F!Hash, F!Go, F!Goto, F!Leave, F!Upset
  <2>7. here' \in BOOLEAN /\ lockFile' \in Nat /\ upsets' \in Nat
    BY DEF FileInv, FileTypes, F!TypeOK, F!InspectDisplaced, F!Locks, F!Disk, F!Fine, F!IsPrior, F!Hash, F!Go, F!Goto, F!Leave, F!Upset
  <2> QED BY <2>1, <2>2, <2>3, <2>4, <2>5, <2>6, <2>7 DEF FileTypes, F!TypeOK
<1>2. (\A x \in Writers : OperationAt(x))'
  BY <1>s DEF FileConstants, FileInv, FileTypes, F!TypeOK, OperationAt, Early, Late, Undoing, Renamed, F!InspectDisplaced, F!Locks, F!Disk, F!Fine,
     F!IsPrior, F!Hash, F!Go, F!Goto, F!Leave, F!Upset
<1>3. FilesAreOnce'
  BY DEF FileConstants, FileInv, FileTypes, F!TypeOK, OperationAt, FilesAreOnce, Nowhere, Early, F!InspectDisplaced, F!Locks, F!Disk, F!Fine,
     F!IsPrior, F!Hash, F!Go, F!Goto, F!Leave, F!Upset
<1>4. RemovedIsOwn'
  BY <1>s DEF FileConstants, FileInv, FileTypes, F!TypeOK, F!Files, OperationAt, RemovedIsOwn, F!NothingIsLost, Early, F!InspectDisplaced, F!Locks,
     F!Disk, F!Fine, F!IsPrior, F!Hash, F!Go, F!Goto, F!Leave, F!Upset
<1>5. ConflictsLeaveNothing'
  BY DEF FileConstants, FileInv, FileTypes, F!TypeOK, OperationAt, FilesAreOnce, ConflictsLeaveNothing, Nowhere, Undoing, Late, Early,
     F!InspectDisplaced, F!Locks, F!Disk, F!Fine, F!IsPrior, F!Hash, F!Go, F!Goto, F!Leave, F!Upset
<1>6. Undisturbed'
  BY <1>s DEF FileConstants, FileInv, FileTypes, F!TypeOK, OperationAt, FilesAreOnce, Undisturbed, Renamed, Undoing, Late, F!InspectDisplaced,
     F!Locks, F!Disk, F!Fine, F!IsPrior, F!Hash, F!Go, F!Goto, F!Leave, F!Upset
<1>7. SeenTypes'
  BY <1>s
<1> QED BY <1>1, <1>2, <1>3, <1>4, <1>5, <1>6, <1>7 DEF FileInv

LEMMA FileValidateInstalled == ASSUME FileConstants, FileInv, NEW w \in Writers, F!ValidateInstalled(w) PROVE FileInv'
<1>1. FileTypes'
  <2>1. op' \in [Writers -> F!Ops] /\ syncErr' \in [Writers -> BOOLEAN]
    BY DEF FileInv, FileTypes, F!TypeOK, F!Files, F!ValidateInstalled, F!Locks, F!Disk, F!publicationValidateMutableReplacement,
       F!validatePublicationFileHashAt, F!validatePublicationFileAt, F!Fine, F!Go, F!Goto, F!Because, F!Upset
  <2>2. file' \in F!Files /\ temp' \in [Writers -> F!Files] /\ spoilt' \subseteq F!Files
    BY DEF FileInv, FileTypes, F!TypeOK, F!Files, F!ValidateInstalled, F!Locks, F!Disk, F!publicationValidateMutableReplacement,
       F!validatePublicationFileHashAt, F!validatePublicationFileAt, F!Fine, F!Go, F!Goto, F!Because, F!Upset
  <2>3. pc' \in [Writers -> Points]
    BY SMTT(20) DEF FileInv, FileTypes, F!TypeOK, Points, Early, Late, Undoing, Renamed, F!ValidateInstalled, F!Locks, F!Disk,
       F!publicationValidateMutableReplacement, F!validatePublicationFileHashAt, F!validatePublicationFileAt, F!Fine, F!Go, F!Goto, F!Because, F!Upset
  <2>4. result' \in [Writers -> {None, "undurable", "durable"}]
    BY DEF FileInv, FileTypes, F!TypeOK, F!ValidateInstalled, F!Locks, F!Disk, F!publicationValidateMutableReplacement,
       F!validatePublicationFileHashAt, F!validatePublicationFileAt, F!Fine, F!Go, F!Goto, F!Because, F!Upset
  <2>5. err' \in [Writers -> {None, "failed", "conflict", "uncertain", "litter"}]
    BY DEF FileInv, FileTypes, F!TypeOK, F!ValidateInstalled, F!Locks, F!Disk, F!publicationValidateMutableReplacement,
       F!validatePublicationFileHashAt, F!validatePublicationFileAt, F!Fine, F!Go, F!Goto, F!Because, F!Upset
  <2>6. held' \in [Writers -> [file : Nat, locked : BOOLEAN]]
    BY DEF FileInv, FileTypes, F!TypeOK, F!ValidateInstalled, F!Locks, F!Disk, F!publicationValidateMutableReplacement,
       F!validatePublicationFileHashAt, F!validatePublicationFileAt, F!Fine, F!Go, F!Goto, F!Because, F!Upset
  <2>7. here' \in BOOLEAN /\ lockFile' \in Nat /\ upsets' \in Nat
    BY DEF FileInv, FileTypes, F!TypeOK, F!ValidateInstalled, F!Locks, F!Disk, F!publicationValidateMutableReplacement,
       F!validatePublicationFileHashAt, F!validatePublicationFileAt, F!Fine, F!Go, F!Goto, F!Because, F!Upset
  <2> QED BY <2>1, <2>2, <2>3, <2>4, <2>5, <2>6, <2>7 DEF FileTypes, F!TypeOK
<1>2. (\A x \in Writers : OperationAt(x))'
  <2>1. \A x \in Writers \ {w} : pc'[x] = pc[x] /\ temp'[x] = temp[x] /\ result'[x] = result[x] /\ op'[x] = op[x] /\ seen'[x] = seen[x]
    BY DEF FileInv, FileTypes, F!TypeOK, F!ValidateInstalled, F!Locks, F!Disk, F!publicationValidateMutableReplacement,
       F!validatePublicationFileHashAt, F!validatePublicationFileAt, F!Fine, F!Go, F!Goto, F!Because, F!Upset
  <2>2. \A x \in Writers \ {w} : OperationAt(x)'
    BY <2>1 DEF FileInv, OperationAt
  <2>3. pc[w] = "validate" /\ op[w] \in F!Ops /\ UNCHANGED <<op, temp, seen>>
    BY DEF FileInv, FileTypes, F!TypeOK, F!ValidateInstalled, F!Locks, F!Disk, F!publicationValidateMutableReplacement,
       F!validatePublicationFileHashAt, F!validatePublicationFileAt, F!Fine, F!Go, F!Goto, F!Because, F!Upset
  <2>4. op[w] # "write"
    BY <2>3 DEF FileInv, OperationAt
  <2>5. pc'[w] = "back_check" \/ pc'[w] = (IF op[w] = "replace" THEN "unlink" ELSE IF op[w] = "create" THEN "recheck" ELSE "resync")
    BY DEF FileInv, FileTypes, F!TypeOK, F!ValidateInstalled, F!Locks, F!Disk, F!publicationValidateMutableReplacement,
       F!validatePublicationFileHashAt, F!validatePublicationFileAt, F!Fine, F!Go, F!Goto, F!Because, F!Upset
  <2>6. op[w] = "install" => result'[w] \in {None, "durable", "undurable"}
    BY DEF FileInv, FileTypes, F!TypeOK, OperationAt, F!ValidateInstalled, F!Locks, F!Disk, F!publicationValidateMutableReplacement,
       F!validatePublicationFileHashAt, F!validatePublicationFileAt, F!Fine, F!Go, F!Goto, F!Because, F!Upset
  <2>7. op[w] = "replace" => temp[w] = seen[w].prior
    BY DEF FileInv, OperationAt, F!ValidateInstalled
  <2>8. OperationAt(w)'
    BY <2>3, <2>4, <2>5, <2>6, <2>7 DEF OperationAt, Early, Undoing, F!Ops
  <2> QED BY <2>2, <2>8
<1>3. FilesAreOnce'
  BY DEF FileConstants, FileInv, FileTypes, F!TypeOK, OperationAt, FilesAreOnce, Nowhere, Early, F!ValidateInstalled, F!Locks, F!Disk,
     F!publicationValidateMutableReplacement, F!validatePublicationFileHashAt, F!validatePublicationFileAt, F!Fine, F!Go, F!Goto, F!Because, F!Upset
<1>4. RemovedIsOwn'
  BY DEF FileConstants, FileInv, FileTypes, F!TypeOK, F!Files, OperationAt, RemovedIsOwn, F!NothingIsLost, Early, F!ValidateInstalled, F!Locks,
     F!Disk, F!publicationValidateMutableReplacement, F!validatePublicationFileHashAt, F!validatePublicationFileAt, F!Fine, F!Go, F!Goto, F!Because,
     F!Upset
<1>5. ConflictsLeaveNothing'
  BY DEF FileConstants, FileInv, FileTypes, F!TypeOK, OperationAt, FilesAreOnce, ConflictsLeaveNothing, Nowhere, Undoing, Late, Early,
     F!ValidateInstalled, F!Locks, F!Disk, F!publicationValidateMutableReplacement, F!validatePublicationFileHashAt, F!validatePublicationFileAt,
     F!Fine, F!Go, F!Goto, F!Because, F!Upset
<1>6. Undisturbed'
  BY DEF FileConstants, FileInv, FileTypes, F!TypeOK, OperationAt, FilesAreOnce, Undisturbed, Renamed, Undoing, Late, F!ValidateInstalled, F!Locks,
     F!Disk, F!publicationValidateMutableReplacement, F!validatePublicationFileHashAt, F!validatePublicationFileAt, F!Fine, F!Go, F!Goto, F!Because,
     F!Upset
<1>7. SeenTypes'
  BY DEF FileInv, SeenTypes, F!Files, F!ValidateInstalled, F!Locks, F!Disk, F!publicationValidateMutableReplacement, F!validatePublicationFileHashAt,
     F!validatePublicationFileAt, F!Fine, F!Go, F!Goto, F!Because, F!Upset
<1> QED BY <1>1, <1>2, <1>3, <1>4, <1>5, <1>6, <1>7 DEF FileInv

LEMMA FileUnlinkDisplaced == ASSUME FileConstants, FileInv, NEW w \in Writers, F!UnlinkDisplaced(w) PROVE FileInv'
<1>1. FileTypes'
  <2>1. op' \in [Writers -> F!Ops] /\ syncErr' \in [Writers -> BOOLEAN]
    BY DEF FileInv, FileTypes, F!TypeOK, F!Files, F!UnlinkDisplaced, F!Locks, F!Mine, F!Go, F!Goto, F!Fine, F!Leave, F!Upset
  <2>2. file' \in F!Files /\ temp' \in [Writers -> F!Files] /\ spoilt' \subseteq F!Files
    BY DEF FileInv, FileTypes, F!TypeOK, F!Files, F!UnlinkDisplaced, F!Locks, F!Mine, F!Go, F!Goto, F!Fine, F!Leave, F!Upset
  <2>3. pc' \in [Writers -> Points]
    BY SMTT(20) DEF FileInv, FileTypes, F!TypeOK, Points, Early, Late, Undoing, Renamed, F!UnlinkDisplaced, F!Locks, F!Mine, F!Go, F!Goto, F!Fine,
       F!Leave, F!Upset
  <2>4. result' \in [Writers -> {None, "undurable", "durable"}]
    BY DEF FileInv, FileTypes, F!TypeOK, F!UnlinkDisplaced, F!Locks, F!Mine, F!Go, F!Goto, F!Fine, F!Leave, F!Upset
  <2>5. err' \in [Writers -> {None, "failed", "conflict", "uncertain", "litter"}]
    BY DEF FileInv, FileTypes, F!TypeOK, F!UnlinkDisplaced, F!Locks, F!Mine, F!Go, F!Goto, F!Fine, F!Leave, F!Upset
  <2>6. held' \in [Writers -> [file : Nat, locked : BOOLEAN]]
    BY DEF FileInv, FileTypes, F!TypeOK, F!UnlinkDisplaced, F!Locks, F!Mine, F!Go, F!Goto, F!Fine, F!Leave, F!Upset
  <2>7. here' \in BOOLEAN /\ lockFile' \in Nat /\ upsets' \in Nat
    BY DEF FileInv, FileTypes, F!TypeOK, F!UnlinkDisplaced, F!Locks, F!Mine, F!Go, F!Goto, F!Fine, F!Leave, F!Upset
  <2> QED BY <2>1, <2>2, <2>3, <2>4, <2>5, <2>6, <2>7 DEF FileTypes, F!TypeOK
<1>2. (\A x \in Writers : OperationAt(x))'
  BY DEF FileConstants, FileInv, FileTypes, F!TypeOK, OperationAt, Early, Late, Undoing, Renamed, F!UnlinkDisplaced, F!Locks, F!Mine, F!Go, F!Goto,
     F!Fine, F!Leave, F!Upset
<1>3. FilesAreOnce'
  <2>1. UNCHANGED op /\ pc'[w] \notin Early /\ \A v \in Writers \ {w} : temp'[v] = temp[v] /\ pc'[v] = pc[v]
    BY DEF FileInv, FileTypes, F!TypeOK, Early, F!UnlinkDisplaced, F!Locks, F!Mine, F!Go, F!Goto, F!Fine, F!Leave, F!Upset
  <2>2. \/ file' = file /\ temp'[w] \in {temp[w], None}
        \/ file' = file /\ temp'[w] = w /\ Nowhere(w)
        \/ file' = temp[w] /\ temp'[w] \in {file, None}
        \/ file' = None /\ temp'[w] = temp[w]
    BY DEF FileInv, FileTypes, F!TypeOK, FilesAreOnce, Early, F!UnlinkDisplaced, F!Locks, F!Mine, F!Go, F!Goto, F!Fine, F!Leave, F!Upset
  <2> QED BY <2>1, <2>2, FilesMove DEF FileInv
<1>4. RemovedIsOwn'
  BY DEF FileConstants, FileInv, FileTypes, F!TypeOK, F!Files, OperationAt, RemovedIsOwn, F!NothingIsLost, Early, F!UnlinkDisplaced, F!Locks, F!Mine,
     F!Go, F!Goto, F!Fine, F!Leave, F!Upset
<1>5. ConflictsLeaveNothing'
  BY DEF FileConstants, FileInv, FileTypes, F!TypeOK, OperationAt, FilesAreOnce, ConflictsLeaveNothing, Nowhere, Undoing, Late, Early,
     F!UnlinkDisplaced, F!Locks, F!Mine, F!Go, F!Goto, F!Fine, F!Leave, F!Upset
<1>6. Undisturbed'
  <2> SUFFICES ASSUME upsets' = 0 PROVE Undisturbed'
    BY DEF Undisturbed
  <2>1. upsets = 0 /\ upsets' = upsets
    BY DEF FileInv, FileTypes, F!UnlinkDisplaced, F!Locks, F!Mine, F!Go, F!Goto, F!Fine, F!Leave, F!Upset
  <2>2. \A x \in Writers \ {w} : pc[w] \notin {"idle", "waiting", "done"} => pc[x] \in {"idle", "waiting", "done"}
    BY <2>1 DEF FileInv, Undisturbed
  <2>3. (here /\ spoilt = {} /\ lockFile = 0 /\ file \in {"prior", None} \cup Writers)'
    BY <2>1 DEF FileInv, FileTypes, F!TypeOK, Undisturbed, OperationAt, F!UnlinkDisplaced, F!Locks, F!Mine, F!Go, F!Goto, F!Fine, F!Leave, F!Upset
  <2>4. (\A x \in Writers : held[x].file = 0)'
    BY <2>1 DEF FileInv, FileTypes, F!TypeOK, Undisturbed, Renamed, Undoing, Late, F!UnlinkDisplaced, F!Locks, F!Mine, F!Go, F!Goto, F!Fine, F!Leave,
       F!Upset
  <2>5. (\A x \in Writers : ~syncErr[x] /\ pc[x] \notin Undoing \cup {"killed"})'
    BY <2>1 DEF FileInv, FileTypes, F!TypeOK, Undisturbed, OperationAt, Renamed, Undoing, Late, F!UnlinkDisplaced, F!Locks, F!Mine, F!Go, F!Goto,
       F!Fine, F!Leave, F!Upset
  <2>6. (\A x \in Writers : held[x].locked <=> pc[x] \notin {"idle", "waiting", "done"})'
    BY <2>1 DEF FileInv, FileTypes, F!TypeOK, Undisturbed, Renamed, Undoing, Late, F!UnlinkDisplaced, F!Locks, F!Mine, F!Go, F!Goto, F!Fine, F!Leave,
       F!Upset
  <2>7. (\A x \in Writers : pc[x] \in {"check", "swap"} => file = "prior" /\ seen[x].prior = "prior")'
    BY <2>1, <2>2 DEF FileInv, FileTypes, F!TypeOK, Undisturbed, OperationAt, Renamed, Undoing, Late, FileConstants, F!UnlinkDisplaced, F!Locks,
       F!Mine, F!Go, F!Goto, F!Fine, F!Leave, F!Upset
  <2>8. (\A x \in Writers : pc[x] = "displaced" => temp[x] = "prior" /\ seen[x].prior = "prior")'
    BY <2>1 DEF FileInv, FileTypes, F!TypeOK, Undisturbed, OperationAt, Renamed, Undoing, Late, FileConstants, F!UnlinkDisplaced, F!Locks, F!Mine,
       F!Go, F!Goto, F!Fine, F!Leave, F!Upset
  <2>9. (\A x \in Writers : pc[x] \in Renamed => file = x)'
    BY <2>1 DEF FileInv, FileTypes, F!TypeOK, Undisturbed, OperationAt, Renamed, Undoing, Late, FileConstants, F!UnlinkDisplaced, F!Locks, F!Mine,
       F!Go, F!Goto, F!Fine, F!Leave, F!Upset
  <2>10. (\A x \in Writers : pc[x] \in {"confirm", "reread"} => stable = x)'
    BY <2>1 DEF FileInv, FileTypes, F!TypeOK, Undisturbed, OperationAt, Renamed, Undoing, Late, FileConstants, F!UnlinkDisplaced, F!Locks, F!Mine,
       F!Go, F!Goto, F!Fine, F!Leave, F!Upset
  <2>11. (\A x \in Writers : result[x] = "durable" => file = x /\ stable = x /\ pc[x] \in Late)'
    BY <2>1 DEF FileInv, FileTypes, F!TypeOK, Undisturbed, OperationAt, Renamed, Undoing, Late, FileConstants, F!UnlinkDisplaced, F!Locks, F!Mine,
       F!Go, F!Goto, F!Fine, F!Leave, F!Upset
  <2>12. (\A x \in Writers : file = x => pc[x] \in Renamed \/ result[x] = "durable")'
    BY <2>1 DEF FileInv, FileTypes, F!TypeOK, Undisturbed, OperationAt, Renamed, Undoing, Late, FileConstants, F!UnlinkDisplaced, F!Locks, F!Mine,
       F!Go, F!Goto, F!Fine, F!Leave, F!Upset
  <2>13. (\A v, x \in Writers : held[v].locked /\ held[x].locked => v = x)'
    BY <2>1 DEF FileInv, FileTypes, F!TypeOK, Undisturbed, Renamed, Undoing, Late, F!UnlinkDisplaced, F!Locks, F!Mine, F!Go, F!Goto, F!Fine, F!Leave,
       F!Upset
  <2> QED BY <2>3, <2>4, <2>5, <2>6, <2>7, <2>8, <2>9, <2>10, <2>11, <2>12, <2>13 DEF Undisturbed
<1>7. SeenTypes'
  BY DEF FileInv, SeenTypes, F!Files, F!UnlinkDisplaced, F!Locks, F!Mine, F!Go, F!Goto, F!Fine, F!Leave, F!Upset
<1> QED BY <1>1, <1>2, <1>3, <1>4, <1>5, <1>6, <1>7 DEF FileInv

LEMMA FileRecheck == ASSUME FileConstants, FileInv, NEW w \in Writers, F!Recheck(w) PROVE FileInv'
<1>1. FileTypes'
  <2>1. op' \in [Writers -> F!Ops] /\ syncErr' \in [Writers -> BOOLEAN]
    BY DEF FileInv, FileTypes, F!TypeOK, F!Files, F!Recheck, F!Locks, F!Disk, F!Mine, F!publicationValidateMutableReplacement,
       F!validatePublicationFileHashAt, F!validatePublicationFileAt, F!Go, F!Goto, F!Fine, F!Leave
  <2>2. file' \in F!Files /\ temp' \in [Writers -> F!Files] /\ spoilt' \subseteq F!Files
    BY DEF FileInv, FileTypes, F!TypeOK, F!Files, F!Recheck, F!Locks, F!Disk, F!Mine, F!publicationValidateMutableReplacement,
       F!validatePublicationFileHashAt, F!validatePublicationFileAt, F!Go, F!Goto, F!Fine, F!Leave
  <2>3. pc' \in [Writers -> Points]
    BY SMTT(20) DEF FileInv, FileTypes, F!TypeOK, Points, Early, Late, Undoing, Renamed, F!Recheck, F!Locks, F!Disk, F!Mine,
       F!publicationValidateMutableReplacement, F!validatePublicationFileHashAt, F!validatePublicationFileAt, F!Go, F!Goto, F!Fine, F!Leave
  <2>4. result' \in [Writers -> {None, "undurable", "durable"}]
    BY DEF FileInv, FileTypes, F!TypeOK, F!Recheck, F!Locks, F!Disk, F!Mine, F!publicationValidateMutableReplacement, F!validatePublicationFileHashAt,
       F!validatePublicationFileAt, F!Go, F!Goto, F!Fine, F!Leave
  <2>5. err' \in [Writers -> {None, "failed", "conflict", "uncertain", "litter"}]
    BY DEF FileInv, FileTypes, F!TypeOK, F!Recheck, F!Locks, F!Disk, F!Mine, F!publicationValidateMutableReplacement, F!validatePublicationFileHashAt,
       F!validatePublicationFileAt, F!Go, F!Goto, F!Fine, F!Leave
  <2>6. held' \in [Writers -> [file : Nat, locked : BOOLEAN]]
    BY DEF FileInv, FileTypes, F!TypeOK, F!Recheck, F!Locks, F!Disk, F!Mine, F!publicationValidateMutableReplacement, F!validatePublicationFileHashAt,
       F!validatePublicationFileAt, F!Go, F!Goto, F!Fine, F!Leave
  <2>7. here' \in BOOLEAN /\ lockFile' \in Nat /\ upsets' \in Nat
    BY DEF FileInv, FileTypes, F!TypeOK, F!Recheck, F!Locks, F!Disk, F!Mine, F!publicationValidateMutableReplacement, F!validatePublicationFileHashAt,
       F!validatePublicationFileAt, F!Go, F!Goto, F!Fine, F!Leave
  <2> QED BY <2>1, <2>2, <2>3, <2>4, <2>5, <2>6, <2>7 DEF FileTypes, F!TypeOK
<1>2. (\A x \in Writers : OperationAt(x))'
  BY DEF FileConstants, FileInv, FileTypes, F!TypeOK, OperationAt, Early, Late, Undoing, Renamed, F!Recheck, F!Locks, F!Disk, F!Mine,
     F!publicationValidateMutableReplacement, F!validatePublicationFileHashAt, F!validatePublicationFileAt, F!Go, F!Goto, F!Fine, F!Leave
<1>3. FilesAreOnce'
  BY DEF FileConstants, FileInv, FileTypes, F!TypeOK, OperationAt, FilesAreOnce, Nowhere, Early, F!Recheck, F!Locks, F!Disk, F!Mine,
     F!publicationValidateMutableReplacement, F!validatePublicationFileHashAt, F!validatePublicationFileAt, F!Go, F!Goto, F!Fine, F!Leave
<1>4. RemovedIsOwn'
  BY DEF FileConstants, FileInv, FileTypes, F!TypeOK, F!Files, OperationAt, RemovedIsOwn, F!NothingIsLost, Early, F!Recheck, F!Locks, F!Disk, F!Mine,
     F!publicationValidateMutableReplacement, F!validatePublicationFileHashAt, F!validatePublicationFileAt, F!Go, F!Goto, F!Fine, F!Leave
<1>5. ConflictsLeaveNothing'
  BY DEF FileConstants, FileInv, FileTypes, F!TypeOK, OperationAt, FilesAreOnce, ConflictsLeaveNothing, Nowhere, Undoing, Late, Early, F!Recheck,
     F!Locks, F!Disk, F!Mine, F!publicationValidateMutableReplacement, F!validatePublicationFileHashAt, F!validatePublicationFileAt, F!Go, F!Goto,
     F!Fine, F!Leave
<1>6. Undisturbed'
  BY DEF FileConstants, FileInv, FileTypes, F!TypeOK, OperationAt, FilesAreOnce, Undisturbed, Renamed, Undoing, Late, F!Recheck, F!Locks, F!Disk,
     F!Mine, F!publicationValidateMutableReplacement, F!validatePublicationFileHashAt, F!validatePublicationFileAt, F!Go, F!Goto, F!Fine, F!Leave
<1>7. SeenTypes'
  BY DEF FileInv, SeenTypes, F!Files, F!Recheck, F!Locks, F!Disk, F!Mine, F!publicationValidateMutableReplacement, F!validatePublicationFileHashAt,
     F!validatePublicationFileAt, F!Go, F!Goto, F!Fine, F!Leave
<1> QED BY <1>1, <1>2, <1>3, <1>4, <1>5, <1>6, <1>7 DEF FileInv

LEMMA FileSyncDirectory == ASSUME FileConstants, FileInv, NEW w \in Writers, F!SyncDirectory(w) PROVE FileInv'
<1>1. FileTypes'
  <2>1. op' \in [Writers -> F!Ops] /\ syncErr' \in [Writers -> BOOLEAN]
    BY DEF FileInv, FileTypes, F!TypeOK, F!Files, F!SyncDirectory, F!Locks, F!Go, F!Goto, F!Fine, F!Upset
  <2>2. file' \in F!Files /\ temp' \in [Writers -> F!Files] /\ spoilt' \subseteq F!Files
    BY DEF FileInv, FileTypes, F!TypeOK, F!Files, F!SyncDirectory, F!Locks, F!Go, F!Goto, F!Fine, F!Upset
  <2>3. pc' \in [Writers -> Points]
    BY SMTT(20) DEF FileInv, FileTypes, F!TypeOK, Points, Early, Late, Undoing, Renamed, F!SyncDirectory, F!Locks, F!Go, F!Goto, F!Fine, F!Upset
  <2>4. result' \in [Writers -> {None, "undurable", "durable"}]
    BY DEF FileInv, FileTypes, F!TypeOK, F!SyncDirectory, F!Locks, F!Go, F!Goto, F!Fine, F!Upset
  <2>5. err' \in [Writers -> {None, "failed", "conflict", "uncertain", "litter"}]
    BY DEF FileInv, FileTypes, F!TypeOK, F!SyncDirectory, F!Locks, F!Go, F!Goto, F!Fine, F!Upset
  <2>6. held' \in [Writers -> [file : Nat, locked : BOOLEAN]]
    BY DEF FileInv, FileTypes, F!TypeOK, F!SyncDirectory, F!Locks, F!Go, F!Goto, F!Fine, F!Upset
  <2>7. here' \in BOOLEAN /\ lockFile' \in Nat /\ upsets' \in Nat
    BY DEF FileInv, FileTypes, F!TypeOK, F!SyncDirectory, F!Locks, F!Go, F!Goto, F!Fine, F!Upset
  <2> QED BY <2>1, <2>2, <2>3, <2>4, <2>5, <2>6, <2>7 DEF FileTypes, F!TypeOK
<1>2. (\A x \in Writers : OperationAt(x))'
  BY DEF FileConstants, FileInv, FileTypes, F!TypeOK, OperationAt, Early, Late, Undoing, Renamed, F!SyncDirectory, F!Locks, F!Go, F!Goto, F!Fine,
     F!Upset
<1>3. FilesAreOnce'
  BY DEF FileConstants, FileInv, FileTypes, F!TypeOK, OperationAt, FilesAreOnce, Nowhere, Early, F!SyncDirectory, F!Locks, F!Go, F!Goto, F!Fine,
     F!Upset
<1>4. RemovedIsOwn'
  BY DEF FileConstants, FileInv, FileTypes, F!TypeOK, F!Files, OperationAt, RemovedIsOwn, F!NothingIsLost, Early, F!SyncDirectory, F!Locks, F!Go,
     F!Goto, F!Fine, F!Upset
<1>5. ConflictsLeaveNothing'
  BY DEF FileConstants, FileInv, FileTypes, F!TypeOK, OperationAt, FilesAreOnce, ConflictsLeaveNothing, Nowhere, Undoing, Late, Early,
     F!SyncDirectory, F!Locks, F!Go, F!Goto, F!Fine, F!Upset
<1>6. Undisturbed'
  BY DEF FileConstants, FileInv, FileTypes, F!TypeOK, OperationAt, FilesAreOnce, Undisturbed, Renamed, Undoing, Late, F!SyncDirectory, F!Locks, F!Go,
     F!Goto, F!Fine, F!Upset
<1>7. SeenTypes'
  BY DEF FileInv, SeenTypes, F!Files, F!SyncDirectory, F!Locks, F!Go, F!Goto, F!Fine, F!Upset
<1> QED BY <1>1, <1>2, <1>3, <1>4, <1>5, <1>6, <1>7 DEF FileInv

LEMMA FileConfirmInstalled == ASSUME FileConstants, FileInv, NEW w \in Writers, F!ConfirmInstalled(w) PROVE FileInv'
<1>1. FileTypes'
  <2>1. op' \in [Writers -> F!Ops] /\ syncErr' \in [Writers -> BOOLEAN]
    BY DEF FileInv, FileTypes, F!TypeOK, F!Files, F!ConfirmInstalled, F!Locks, F!Disk, F!Fine, F!publicationValidateMutableReplacement,
       F!validatePublicationFileHashAt, F!validatePublicationFileAt, F!Leave, F!Goto
  <2>2. file' \in F!Files /\ temp' \in [Writers -> F!Files] /\ spoilt' \subseteq F!Files
    BY DEF FileInv, FileTypes, F!TypeOK, F!Files, F!ConfirmInstalled, F!Locks, F!Disk, F!Fine, F!publicationValidateMutableReplacement,
       F!validatePublicationFileHashAt, F!validatePublicationFileAt, F!Leave, F!Goto
  <2>3. pc' \in [Writers -> Points]
    BY SMTT(20) DEF FileInv, FileTypes, F!TypeOK, Points, Early, Late, Undoing, Renamed, F!ConfirmInstalled, F!Locks, F!Disk, F!Fine,
       F!publicationValidateMutableReplacement, F!validatePublicationFileHashAt, F!validatePublicationFileAt, F!Leave, F!Goto
  <2>4. result' \in [Writers -> {None, "undurable", "durable"}]
    BY DEF FileInv, FileTypes, F!TypeOK, F!ConfirmInstalled, F!Locks, F!Disk, F!Fine, F!publicationValidateMutableReplacement,
       F!validatePublicationFileHashAt, F!validatePublicationFileAt, F!Leave, F!Goto
  <2>5. err' \in [Writers -> {None, "failed", "conflict", "uncertain", "litter"}]
    BY DEF FileInv, FileTypes, F!TypeOK, F!ConfirmInstalled, F!Locks, F!Disk, F!Fine, F!publicationValidateMutableReplacement,
       F!validatePublicationFileHashAt, F!validatePublicationFileAt, F!Leave, F!Goto
  <2>6. held' \in [Writers -> [file : Nat, locked : BOOLEAN]]
    BY DEF FileInv, FileTypes, F!TypeOK, F!ConfirmInstalled, F!Locks, F!Disk, F!Fine, F!publicationValidateMutableReplacement,
       F!validatePublicationFileHashAt, F!validatePublicationFileAt, F!Leave, F!Goto
  <2>7. here' \in BOOLEAN /\ lockFile' \in Nat /\ upsets' \in Nat
    BY DEF FileInv, FileTypes, F!TypeOK, F!ConfirmInstalled, F!Locks, F!Disk, F!Fine, F!publicationValidateMutableReplacement,
       F!validatePublicationFileHashAt, F!validatePublicationFileAt, F!Leave, F!Goto
  <2> QED BY <2>1, <2>2, <2>3, <2>4, <2>5, <2>6, <2>7 DEF FileTypes, F!TypeOK
<1>2. (\A x \in Writers : OperationAt(x))'
  BY DEF FileConstants, FileInv, FileTypes, F!TypeOK, OperationAt, Early, Late, Undoing, Renamed, F!ConfirmInstalled, F!Locks, F!Disk, F!Fine,
     F!publicationValidateMutableReplacement, F!validatePublicationFileHashAt, F!validatePublicationFileAt, F!Leave, F!Goto
<1>3. FilesAreOnce'
  BY DEF FileConstants, FileInv, FileTypes, F!TypeOK, OperationAt, FilesAreOnce, Nowhere, Early, F!ConfirmInstalled, F!Locks, F!Disk, F!Fine,
     F!publicationValidateMutableReplacement, F!validatePublicationFileHashAt, F!validatePublicationFileAt, F!Leave, F!Goto
<1>4. RemovedIsOwn'
  BY DEF FileConstants, FileInv, FileTypes, F!TypeOK, F!Files, OperationAt, RemovedIsOwn, F!NothingIsLost, Early, F!ConfirmInstalled, F!Locks, F!Disk,
     F!Fine, F!publicationValidateMutableReplacement, F!validatePublicationFileHashAt, F!validatePublicationFileAt, F!Leave, F!Goto
<1>5. ConflictsLeaveNothing'
  BY DEF FileConstants, FileInv, FileTypes, F!TypeOK, OperationAt, FilesAreOnce, ConflictsLeaveNothing, Nowhere, Undoing, Late, Early,
     F!ConfirmInstalled, F!Locks, F!Disk, F!Fine, F!publicationValidateMutableReplacement, F!validatePublicationFileHashAt,
     F!validatePublicationFileAt, F!Leave, F!Goto
<1>6. Undisturbed'
  BY DEF FileConstants, FileInv, FileTypes, F!TypeOK, OperationAt, FilesAreOnce, Undisturbed, Renamed, Undoing, Late, F!ConfirmInstalled, F!Locks,
     F!Disk, F!Fine, F!publicationValidateMutableReplacement, F!validatePublicationFileHashAt, F!validatePublicationFileAt, F!Leave, F!Goto
<1>7. SeenTypes'
  BY DEF FileInv, SeenTypes, F!Files, F!ConfirmInstalled, F!Locks, F!Disk, F!Fine, F!publicationValidateMutableReplacement,
     F!validatePublicationFileHashAt, F!validatePublicationFileAt, F!Leave, F!Goto
<1> QED BY <1>1, <1>2, <1>3, <1>4, <1>5, <1>6, <1>7 DEF FileInv

LEMMA FileUndoCheck == ASSUME FileConstants, FileInv, NEW w \in Writers, F!UndoCheck(w) PROVE FileInv'
<1>1. FileTypes'
  <2>1. op' \in [Writers -> F!Ops] /\ syncErr' \in [Writers -> BOOLEAN]
    BY DEF FileInv, FileTypes, F!TypeOK, F!Files, F!UndoCheck, F!Locks, F!Mine, F!MayUndo, F!validatePublicationFileAt,
       F!validatePublicationFileHashAt, F!Go, F!Goto, F!Fine, F!Because, F!Upset, F!Leave
  <2>2. file' \in F!Files /\ temp' \in [Writers -> F!Files] /\ spoilt' \subseteq F!Files
    BY DEF FileInv, FileTypes, F!TypeOK, F!Files, F!UndoCheck, F!Locks, F!Mine, F!MayUndo, F!validatePublicationFileAt,
       F!validatePublicationFileHashAt, F!Go, F!Goto, F!Fine, F!Because, F!Upset, F!Leave
  <2>3. pc' \in [Writers -> Points]
    BY SMTT(20) DEF FileInv, FileTypes, F!TypeOK, Points, Early, Late, Undoing, Renamed, F!UndoCheck, F!Locks, F!Mine, F!MayUndo,
       F!validatePublicationFileAt, F!validatePublicationFileHashAt, F!Go, F!Goto, F!Fine, F!Because, F!Upset, F!Leave
  <2>4. result' \in [Writers -> {None, "undurable", "durable"}]
    BY DEF FileInv, FileTypes, F!TypeOK, F!UndoCheck, F!Locks, F!Mine, F!MayUndo, F!validatePublicationFileAt, F!validatePublicationFileHashAt, F!Go,
       F!Goto, F!Fine, F!Because, F!Upset, F!Leave
  <2>5. err' \in [Writers -> {None, "failed", "conflict", "uncertain", "litter"}]
    BY DEF FileInv, FileTypes, F!TypeOK, F!UndoCheck, F!Locks, F!Mine, F!MayUndo, F!validatePublicationFileAt, F!validatePublicationFileHashAt, F!Go,
       F!Goto, F!Fine, F!Because, F!Upset, F!Leave
  <2>6. held' \in [Writers -> [file : Nat, locked : BOOLEAN]]
    BY DEF FileInv, FileTypes, F!TypeOK, F!UndoCheck, F!Locks, F!Mine, F!MayUndo, F!validatePublicationFileAt, F!validatePublicationFileHashAt, F!Go,
       F!Goto, F!Fine, F!Because, F!Upset, F!Leave
  <2>7. here' \in BOOLEAN /\ lockFile' \in Nat /\ upsets' \in Nat
    BY DEF FileInv, FileTypes, F!TypeOK, F!UndoCheck, F!Locks, F!Mine, F!MayUndo, F!validatePublicationFileAt, F!validatePublicationFileHashAt, F!Go,
       F!Goto, F!Fine, F!Because, F!Upset, F!Leave
  <2> QED BY <2>1, <2>2, <2>3, <2>4, <2>5, <2>6, <2>7 DEF FileTypes, F!TypeOK
<1>2. (\A x \in Writers : OperationAt(x))'
  BY DEF FileConstants, FileInv, FileTypes, F!TypeOK, OperationAt, Early, Late, Undoing, Renamed, F!UndoCheck, F!Locks, F!Mine, F!MayUndo,
     F!validatePublicationFileAt, F!validatePublicationFileHashAt, F!Go, F!Goto, F!Fine, F!Because, F!Upset, F!Leave
<1>3. FilesAreOnce'
  <2>1. UNCHANGED op /\ pc'[w] \notin Early /\ \A v \in Writers \ {w} : temp'[v] = temp[v] /\ pc'[v] = pc[v]
    BY DEF FileInv, FileTypes, F!TypeOK, Early, F!UndoCheck, F!Locks, F!Mine, F!MayUndo, F!validatePublicationFileAt, F!validatePublicationFileHashAt,
       F!Go, F!Goto, F!Fine, F!Because, F!Upset, F!Leave
  <2>2. \/ file' = file /\ temp'[w] \in {temp[w], None}
        \/ file' = file /\ temp'[w] = w /\ Nowhere(w)
        \/ file' = temp[w] /\ temp'[w] \in {file, None}
        \/ file' = None /\ temp'[w] = temp[w]
    BY DEF FileInv, FileTypes, F!TypeOK, FilesAreOnce, Early, F!UndoCheck, F!Locks, F!Mine, F!MayUndo, F!validatePublicationFileAt,
       F!validatePublicationFileHashAt, F!Go, F!Goto, F!Fine, F!Because, F!Upset, F!Leave
  <2> QED BY <2>1, <2>2, FilesMove DEF FileInv
<1>4. RemovedIsOwn'
  BY DEF FileConstants, FileInv, FileTypes, F!TypeOK, F!Files, OperationAt, RemovedIsOwn, F!NothingIsLost, Early, F!UndoCheck, F!Locks, F!Mine,
     F!MayUndo, F!validatePublicationFileAt, F!validatePublicationFileHashAt, F!Go, F!Goto, F!Fine, F!Because, F!Upset, F!Leave
<1>5. ConflictsLeaveNothing'
  BY DEF FileConstants, FileInv, FileTypes, F!TypeOK, OperationAt, FilesAreOnce, ConflictsLeaveNothing, Nowhere, Undoing, Late, Early, F!UndoCheck,
     F!Locks, F!Mine, F!MayUndo, F!validatePublicationFileAt, F!validatePublicationFileHashAt, F!Go, F!Goto, F!Fine, F!Because, F!Upset, F!Leave
<1>6. Undisturbed'
  BY DEF FileConstants, FileInv, FileTypes, F!TypeOK, OperationAt, FilesAreOnce, Undisturbed, Renamed, Undoing, Late, F!UndoCheck, F!Locks, F!Mine,
     F!MayUndo, F!validatePublicationFileAt, F!validatePublicationFileHashAt, F!Go, F!Goto, F!Fine, F!Because, F!Upset, F!Leave
<1>7. SeenTypes'
  BY DEF FileInv, SeenTypes, F!Files, F!UndoCheck, F!Locks, F!Mine, F!MayUndo, F!validatePublicationFileAt, F!validatePublicationFileHashAt, F!Go,
     F!Goto, F!Fine, F!Because, F!Upset, F!Leave
<1> QED BY <1>1, <1>2, <1>3, <1>4, <1>5, <1>6, <1>7 DEF FileInv

LEMMA FileUndoRename == ASSUME FileConstants, FileInv, NEW w \in Writers, F!UndoRename(w) PROVE FileInv'
<1>1. FileTypes'
  <2>1. op' \in [Writers -> F!Ops] /\ syncErr' \in [Writers -> BOOLEAN]
    BY DEF FileInv, FileTypes, F!TypeOK, F!Files, F!UndoRename, F!Locks, F!Mine, F!Go, F!Goto, F!Fine, F!Because, F!Upset, F!Leave
  <2>2. file' \in F!Files /\ temp' \in [Writers -> F!Files] /\ spoilt' \subseteq F!Files
    BY DEF FileInv, FileTypes, F!TypeOK, F!Files, F!UndoRename, F!Locks, F!Mine, F!Go, F!Goto, F!Fine, F!Because, F!Upset, F!Leave
  <2>3. pc' \in [Writers -> Points]
    BY SMTT(20) DEF FileInv, FileTypes, F!TypeOK, Points, Early, Late, Undoing, Renamed, F!UndoRename, F!Locks, F!Mine, F!Go, F!Goto, F!Fine,
       F!Because, F!Upset, F!Leave
  <2>4. result' \in [Writers -> {None, "undurable", "durable"}]
    BY DEF FileInv, FileTypes, F!TypeOK, F!UndoRename, F!Locks, F!Mine, F!Go, F!Goto, F!Fine, F!Because, F!Upset, F!Leave
  <2>5. err' \in [Writers -> {None, "failed", "conflict", "uncertain", "litter"}]
    BY DEF FileInv, FileTypes, F!TypeOK, F!UndoRename, F!Locks, F!Mine, F!Go, F!Goto, F!Fine, F!Because, F!Upset, F!Leave
  <2>6. held' \in [Writers -> [file : Nat, locked : BOOLEAN]]
    BY DEF FileInv, FileTypes, F!TypeOK, F!UndoRename, F!Locks, F!Mine, F!Go, F!Goto, F!Fine, F!Because, F!Upset, F!Leave
  <2>7. here' \in BOOLEAN /\ lockFile' \in Nat /\ upsets' \in Nat
    BY DEF FileInv, FileTypes, F!TypeOK, F!UndoRename, F!Locks, F!Mine, F!Go, F!Goto, F!Fine, F!Because, F!Upset, F!Leave
  <2> QED BY <2>1, <2>2, <2>3, <2>4, <2>5, <2>6, <2>7 DEF FileTypes, F!TypeOK
<1>2. (\A x \in Writers : OperationAt(x))'
  BY DEF FileConstants, FileInv, FileTypes, F!TypeOK, OperationAt, Early, Late, Undoing, Renamed, F!UndoRename, F!Locks, F!Mine, F!Go, F!Goto, F!Fine,
     F!Because, F!Upset, F!Leave
<1>3. FilesAreOnce'
  <2>1. UNCHANGED op /\ pc'[w] \notin Early /\ \A v \in Writers \ {w} : temp'[v] = temp[v] /\ pc'[v] = pc[v]
    BY DEF FileInv, FileTypes, F!TypeOK, Early, F!UndoRename, F!Locks, F!Mine, F!Go, F!Goto, F!Fine, F!Because, F!Upset, F!Leave
  <2>2. \/ file' = file /\ temp'[w] \in {temp[w], None}
        \/ file' = file /\ temp'[w] = w /\ Nowhere(w)
        \/ file' = temp[w] /\ temp'[w] \in {file, None}
        \/ file' = None /\ temp'[w] = temp[w]
    BY DEF FileInv, FileTypes, F!TypeOK, FilesAreOnce, Early, F!UndoRename, F!Locks, F!Mine, F!Go, F!Goto, F!Fine, F!Because, F!Upset, F!Leave
  <2> QED BY <2>1, <2>2, FilesMove DEF FileInv
<1>4. RemovedIsOwn'
  BY DEF FileConstants, FileInv, FileTypes, F!TypeOK, F!Files, OperationAt, RemovedIsOwn, F!NothingIsLost, Early, F!UndoRename, F!Locks, F!Mine, F!Go,
     F!Goto, F!Fine, F!Because, F!Upset, F!Leave
<1>5. ConflictsLeaveNothing'
  BY DEF FileConstants, FileInv, FileTypes, F!TypeOK, OperationAt, FilesAreOnce, ConflictsLeaveNothing, Nowhere, Undoing, Late, Early, F!UndoRename,
     F!Locks, F!Mine, F!Go, F!Goto, F!Fine, F!Because, F!Upset, F!Leave
<1>6. Undisturbed'
  BY DEF FileConstants, FileInv, FileTypes, F!TypeOK, OperationAt, FilesAreOnce, Undisturbed, Renamed, Undoing, Late, F!UndoRename, F!Locks, F!Mine,
     F!Go, F!Goto, F!Fine, F!Because, F!Upset, F!Leave
<1>7. SeenTypes'
  BY DEF FileInv, SeenTypes, F!Files, F!UndoRename, F!Locks, F!Mine, F!Go, F!Goto, F!Fine, F!Because, F!Upset, F!Leave
<1> QED BY <1>1, <1>2, <1>3, <1>4, <1>5, <1>6, <1>7 DEF FileInv

LEMMA FileUndoVerify == ASSUME FileConstants, FileInv, NEW w \in Writers, F!UndoVerify(w) PROVE FileInv'
<1>1. FileTypes'
  <2>1. op' \in [Writers -> F!Ops] /\ syncErr' \in [Writers -> BOOLEAN]
    BY DEF FileInv, FileTypes, F!TypeOK, F!Files, F!UndoVerify, F!Locks, F!Mine, F!PutBack, F!validatePublicationFileAt, F!Go, F!Goto, F!Fine,
       F!Because, F!Upset, F!Leave
  <2>2. file' \in F!Files /\ temp' \in [Writers -> F!Files] /\ spoilt' \subseteq F!Files
    BY DEF FileInv, FileTypes, F!TypeOK, F!Files, F!UndoVerify, F!Locks, F!Mine, F!PutBack, F!validatePublicationFileAt, F!Go, F!Goto, F!Fine,
       F!Because, F!Upset, F!Leave
  <2>3. pc' \in [Writers -> Points]
    BY SMTT(20) DEF FileInv, FileTypes, F!TypeOK, Points, Early, Late, Undoing, Renamed, F!UndoVerify, F!Locks, F!Mine, F!PutBack,
       F!validatePublicationFileAt, F!Go, F!Goto, F!Fine, F!Because, F!Upset, F!Leave
  <2>4. result' \in [Writers -> {None, "undurable", "durable"}]
    BY DEF FileInv, FileTypes, F!TypeOK, F!UndoVerify, F!Locks, F!Mine, F!PutBack, F!validatePublicationFileAt, F!Go, F!Goto, F!Fine, F!Because,
       F!Upset, F!Leave
  <2>5. err' \in [Writers -> {None, "failed", "conflict", "uncertain", "litter"}]
    BY DEF FileInv, FileTypes, F!TypeOK, F!UndoVerify, F!Locks, F!Mine, F!PutBack, F!validatePublicationFileAt, F!Go, F!Goto, F!Fine, F!Because,
       F!Upset, F!Leave
  <2>6. held' \in [Writers -> [file : Nat, locked : BOOLEAN]]
    BY DEF FileInv, FileTypes, F!TypeOK, F!UndoVerify, F!Locks, F!Mine, F!PutBack, F!validatePublicationFileAt, F!Go, F!Goto, F!Fine, F!Because,
       F!Upset, F!Leave
  <2>7. here' \in BOOLEAN /\ lockFile' \in Nat /\ upsets' \in Nat
    BY DEF FileInv, FileTypes, F!TypeOK, F!UndoVerify, F!Locks, F!Mine, F!PutBack, F!validatePublicationFileAt, F!Go, F!Goto, F!Fine, F!Because,
       F!Upset, F!Leave
  <2> QED BY <2>1, <2>2, <2>3, <2>4, <2>5, <2>6, <2>7 DEF FileTypes, F!TypeOK
<1>2. (\A x \in Writers : OperationAt(x))'
  BY DEF FileConstants, FileInv, FileTypes, F!TypeOK, OperationAt, Early, Late, Undoing, Renamed, F!UndoVerify, F!Locks, F!Mine, F!PutBack,
     F!validatePublicationFileAt, F!Go, F!Goto, F!Fine, F!Because, F!Upset, F!Leave
<1>3. FilesAreOnce'
  <2>1. UNCHANGED op /\ pc'[w] \notin Early /\ \A v \in Writers \ {w} : temp'[v] = temp[v] /\ pc'[v] = pc[v]
    BY DEF FileInv, FileTypes, F!TypeOK, Early, F!UndoVerify, F!Locks, F!Mine, F!PutBack, F!validatePublicationFileAt, F!Go, F!Goto, F!Fine,
       F!Because, F!Upset, F!Leave
  <2>2. \/ file' = file /\ temp'[w] \in {temp[w], None}
        \/ file' = file /\ temp'[w] = w /\ Nowhere(w)
        \/ file' = temp[w] /\ temp'[w] \in {file, None}
        \/ file' = None /\ temp'[w] = temp[w]
    BY DEF FileInv, FileTypes, F!TypeOK, FilesAreOnce, Early, F!UndoVerify, F!Locks, F!Mine, F!PutBack, F!validatePublicationFileAt, F!Go, F!Goto,
       F!Fine, F!Because, F!Upset, F!Leave
  <2> QED BY <2>1, <2>2, FilesMove DEF FileInv
<1>4. RemovedIsOwn'
  BY DEF FileConstants, FileInv, FileTypes, F!TypeOK, F!Files, OperationAt, RemovedIsOwn, F!NothingIsLost, Early, F!UndoVerify, F!Locks, F!Mine,
     F!PutBack, F!validatePublicationFileAt, F!Go, F!Goto, F!Fine, F!Because, F!Upset, F!Leave
<1>5. ConflictsLeaveNothing'
  <2>1. \A x \in Writers \ {w} : pc'[x] = pc[x] /\ err'[x] = err[x] /\ temp'[x] = temp[x] /\ result'[x] = result[x]
    BY DEF FileInv, FileTypes, F!TypeOK, F!UndoVerify, F!Locks, F!Mine, F!PutBack, F!validatePublicationFileAt, F!Go, F!Goto, F!Fine, F!Because,
       F!Upset, F!Leave
  <2>2. \A x \in Writers \ {w} : Nowhere(x) /\ pc[x] \in {"back_sync", "release", "done"} => Nowhere(x)'
    BY DEF FileConstants, FileInv, FileTypes, F!TypeOK, OperationAt, FilesAreOnce, Nowhere, F!UndoVerify, F!Locks, F!Mine, F!PutBack,
       F!validatePublicationFileAt, F!Go, F!Goto, F!Fine, F!Because, F!Upset, F!Leave
  <2>3. UNCHANGED op
    BY DEF F!UndoVerify, F!Locks, F!Mine, F!PutBack, F!validatePublicationFileAt, F!Go, F!Goto, F!Fine, F!Because, F!Upset, F!Leave
  <2>4. \A x \in Writers \ {w} : err'[x] = "conflict" =>
          /\ result'[x] = None /\ pc'[x] \in Undoing \cup Late
          /\ pc'[x] \in Undoing => op'[x] = "replace"
          /\ pc'[x] \in {"back_sync", "release", "done"} => Nowhere(x)' /\ temp'[x] = None
    BY <2>1, <2>2, <2>3 DEF FileInv, ConflictsLeaveNothing
  <2>5. err'[w] = "conflict" => result'[w] = None /\ pc'[w] \in Undoing \cup Late /\ (pc'[w] \in Undoing => op'[w] = "replace")
    BY DEF FileConstants, FileInv, FileTypes, F!TypeOK, OperationAt, ConflictsLeaveNothing, Late, Undoing, F!UndoVerify, F!Locks, F!Mine, F!PutBack,
       F!validatePublicationFileAt, F!Go, F!Goto, F!Fine, F!Because, F!Upset, F!Leave
  <2>6. err'[w] = "conflict" /\ pc'[w] \in {"back_sync", "release", "done"} => temp'[w] = None
    BY DEF FileConstants, FileInv, FileTypes, F!TypeOK, OperationAt, ConflictsLeaveNothing, Late, Undoing, F!UndoVerify, F!Locks, F!Mine, F!PutBack,
       F!validatePublicationFileAt, F!Go, F!Goto, F!Fine, F!Because, F!Upset, F!Leave
  <2>7. err'[w] = "conflict" /\ pc'[w] \in {"back_sync", "release", "done"} => Nowhere(w)'
    BY DEF FileConstants, FileInv, FileTypes, F!TypeOK, OperationAt, ConflictsLeaveNothing, Late, Undoing, FilesAreOnce, Nowhere, F!UndoVerify,
       F!Locks, F!Mine, F!PutBack, F!validatePublicationFileAt, F!Go, F!Goto, F!Fine, F!Because, F!Upset, F!Leave
  <2> QED BY <2>4, <2>5, <2>6, <2>7 DEF ConflictsLeaveNothing
<1>6. Undisturbed'
  BY DEF FileConstants, FileInv, FileTypes, F!TypeOK, OperationAt, FilesAreOnce, Undisturbed, Renamed, Undoing, Late, F!UndoVerify, F!Locks, F!Mine,
     F!PutBack, F!validatePublicationFileAt, F!Go, F!Goto, F!Fine, F!Because, F!Upset, F!Leave
<1>7. SeenTypes'
  BY DEF FileInv, SeenTypes, F!Files, F!UndoVerify, F!Locks, F!Mine, F!PutBack, F!validatePublicationFileAt, F!Go, F!Goto, F!Fine, F!Because, F!Upset,
     F!Leave
<1> QED BY <1>1, <1>2, <1>3, <1>4, <1>5, <1>6, <1>7 DEF FileInv

LEMMA FileUndoSync == ASSUME FileConstants, FileInv, NEW w \in Writers, F!UndoSync(w) PROVE FileInv'
<1>1. FileTypes'
  BY DEF FileConstants, FileInv, FileTypes, F!TypeOK, F!Files, F!Ops, Points, Early, Late, Undoing, Renamed, F!UndoSync, F!Locks, F!Mine, F!Leave,
     F!Goto, F!Undone, F!validatePublicationFileAt, F!Fine, F!Upset
<1>2. (\A x \in Writers : OperationAt(x))'
  BY DEF FileConstants, FileInv, FileTypes, F!TypeOK, OperationAt, Early, Late, Undoing, Renamed, F!UndoSync, F!Locks, F!Mine, F!Leave, F!Goto,
     F!Undone, F!validatePublicationFileAt, F!Fine, F!Upset
<1>3. FilesAreOnce'
  BY DEF FileConstants, FileInv, FileTypes, F!TypeOK, OperationAt, FilesAreOnce, Nowhere, Early, F!UndoSync, F!Locks, F!Mine, F!Leave, F!Goto,
     F!Undone, F!validatePublicationFileAt, F!Fine, F!Upset
<1>4. RemovedIsOwn'
  BY DEF FileConstants, FileInv, FileTypes, F!TypeOK, F!Files, OperationAt, RemovedIsOwn, F!NothingIsLost, Early, F!UndoSync, F!Locks, F!Mine,
     F!Leave, F!Goto, F!Undone, F!validatePublicationFileAt, F!Fine, F!Upset
<1>5. ConflictsLeaveNothing'
  BY DEF FileConstants, FileInv, FileTypes, F!TypeOK, OperationAt, FilesAreOnce, ConflictsLeaveNothing, Nowhere, Undoing, Late, Early, F!UndoSync,
     F!Locks, F!Mine, F!Leave, F!Goto, F!Undone, F!validatePublicationFileAt, F!Fine, F!Upset
<1>6. Undisturbed'
  BY DEF FileConstants, FileInv, FileTypes, F!TypeOK, OperationAt, FilesAreOnce, Undisturbed, Renamed, Undoing, Late, F!UndoSync, F!Locks, F!Mine,
     F!Leave, F!Goto, F!Undone, F!validatePublicationFileAt, F!Fine, F!Upset
<1>7. SeenTypes'
  BY DEF FileInv, SeenTypes, F!Files, F!UndoSync, F!Locks, F!Mine, F!Leave, F!Goto, F!Undone, F!validatePublicationFileAt, F!Fine, F!Upset
<1> QED BY <1>1, <1>2, <1>3, <1>4, <1>5, <1>6, <1>7 DEF FileInv

LEMMA FileWriteImmutable == ASSUME FileConstants, FileInv, NEW w \in Writers, F!WriteImmutable(w) PROVE FileInv'
<1>1. FileTypes'
  <2>1. op' \in [Writers -> F!Ops] /\ syncErr' \in [Writers -> BOOLEAN]
    BY DEF FileInv, FileTypes, F!TypeOK, F!Files, F!WriteImmutable, F!Locks, F!Go, F!Goto, F!Fine, F!Leave, F!Upset, F!Because
  <2>2. file' \in F!Files /\ temp' \in [Writers -> F!Files] /\ spoilt' \subseteq F!Files
    BY DEF FileInv, FileTypes, F!TypeOK, F!Files, F!WriteImmutable, F!Locks, F!Go, F!Goto, F!Fine, F!Leave, F!Upset, F!Because
  <2>3. pc' \in [Writers -> Points]
    BY SMTT(20) DEF FileInv, FileTypes, F!TypeOK, Points, Early, Late, Undoing, Renamed, F!WriteImmutable, F!Locks, F!Go, F!Goto, F!Fine, F!Leave,
       F!Upset, F!Because
  <2>4. result' \in [Writers -> {None, "undurable", "durable"}]
    BY DEF FileInv, FileTypes, F!TypeOK, F!WriteImmutable, F!Locks, F!Go, F!Goto, F!Fine, F!Leave, F!Upset, F!Because
  <2>5. err' \in [Writers -> {None, "failed", "conflict", "uncertain", "litter"}]
    BY DEF FileInv, FileTypes, F!TypeOK, F!WriteImmutable, F!Locks, F!Go, F!Goto, F!Fine, F!Leave, F!Upset, F!Because
  <2>6. held' \in [Writers -> [file : Nat, locked : BOOLEAN]]
    BY DEF FileInv, FileTypes, F!TypeOK, F!WriteImmutable, F!Locks, F!Go, F!Goto, F!Fine, F!Leave, F!Upset, F!Because
  <2>7. here' \in BOOLEAN /\ lockFile' \in Nat /\ upsets' \in Nat
    BY DEF FileInv, FileTypes, F!TypeOK, F!WriteImmutable, F!Locks, F!Go, F!Goto, F!Fine, F!Leave, F!Upset, F!Because
  <2> QED BY <2>1, <2>2, <2>3, <2>4, <2>5, <2>6, <2>7 DEF FileTypes, F!TypeOK
<1>2. (\A x \in Writers : OperationAt(x))'
  BY DEF FileConstants, FileInv, FileTypes, F!TypeOK, OperationAt, Early, Late, Undoing, Renamed, F!WriteImmutable, F!Locks, F!Go, F!Goto, F!Fine,
     F!Leave, F!Upset, F!Because
<1>3. FilesAreOnce'
  BY DEF FileConstants, FileInv, FileTypes, F!TypeOK, OperationAt, FilesAreOnce, Nowhere, Early, F!WriteImmutable, F!Locks, F!Go, F!Goto, F!Fine,
     F!Leave, F!Upset, F!Because
<1>4. RemovedIsOwn'
  BY DEF FileConstants, FileInv, FileTypes, F!TypeOK, F!Files, OperationAt, RemovedIsOwn, F!NothingIsLost, Early, F!WriteImmutable, F!Locks, F!Go,
     F!Goto, F!Fine, F!Leave, F!Upset, F!Because
<1>5. ConflictsLeaveNothing'
  BY DEF FileConstants, FileInv, FileTypes, F!TypeOK, OperationAt, FilesAreOnce, ConflictsLeaveNothing, Nowhere, Undoing, Late, Early,
     F!WriteImmutable, F!Locks, F!Go, F!Goto, F!Fine, F!Leave, F!Upset, F!Because
<1>6. Undisturbed'
  BY DEF FileConstants, FileInv, FileTypes, F!TypeOK, OperationAt, FilesAreOnce, Undisturbed, Renamed, Undoing, Late, F!WriteImmutable, F!Locks, F!Go,
     F!Goto, F!Fine, F!Leave, F!Upset, F!Because
<1>7. SeenTypes'
  BY DEF FileInv, SeenTypes, F!Files, F!WriteImmutable, F!Locks, F!Go, F!Goto, F!Fine, F!Leave, F!Upset, F!Because
<1> QED BY <1>1, <1>2, <1>3, <1>4, <1>5, <1>6, <1>7 DEF FileInv

LEMMA FileReread == ASSUME FileConstants, FileInv, NEW w \in Writers, F!Reread(w) PROVE FileInv'
<1>1. FileTypes'
  BY DEF FileConstants, FileInv, FileTypes, F!TypeOK, F!Files, F!Ops, Points, Early, Late, Undoing, Renamed, F!Reread, F!Locks, F!Disk, F!Fine,
     F!Hash, F!Leave, F!Goto
<1>2. (\A x \in Writers : OperationAt(x))'
  BY DEF FileConstants, FileInv, FileTypes, F!TypeOK, OperationAt, Early, Late, Undoing, Renamed, F!Reread, F!Locks, F!Disk, F!Fine, F!Hash, F!Leave,
     F!Goto
<1>3. FilesAreOnce'
  BY DEF FileConstants, FileInv, FileTypes, F!TypeOK, OperationAt, FilesAreOnce, Nowhere, Early, F!Reread, F!Locks, F!Disk, F!Fine, F!Hash, F!Leave,
     F!Goto
<1>4. RemovedIsOwn'
  BY DEF FileConstants, FileInv, FileTypes, F!TypeOK, F!Files, OperationAt, RemovedIsOwn, F!NothingIsLost, Early, F!Reread, F!Locks, F!Disk, F!Fine,
     F!Hash, F!Leave, F!Goto
<1>5. ConflictsLeaveNothing'
  BY DEF FileConstants, FileInv, FileTypes, F!TypeOK, OperationAt, FilesAreOnce, ConflictsLeaveNothing, Nowhere, Undoing, Late, Early, F!Reread,
     F!Locks, F!Disk, F!Fine, F!Hash, F!Leave, F!Goto
<1>6. Undisturbed'
  BY DEF FileConstants, FileInv, FileTypes, F!TypeOK, OperationAt, FilesAreOnce, Undisturbed, Renamed, Undoing, Late, F!Reread, F!Locks, F!Disk,
     F!Fine, F!Hash, F!Leave, F!Goto
<1>7. SeenTypes'
  BY DEF FileInv, SeenTypes, F!Files, F!Reread, F!Locks, F!Disk, F!Fine, F!Hash, F!Leave, F!Goto
<1> QED BY <1>1, <1>2, <1>3, <1>4, <1>5, <1>6, <1>7 DEF FileInv

LEMMA FileMeddle == ASSUME FileConstants, FileInv, F!Meddle PROVE FileInv'
<1>1. UNCHANGED <<op, pc, temp, held, seen, syncErr, result, err, gone>> /\ upsets' = upsets + 1
  BY DEF F!Meddle, F!Upset, F!Calls, FileInv, FileTypes
<1>2. file' \in {file, "alien", "twin", None} /\ here' \in BOOLEAN /\ lockFile' \in Nat
  <2>1. file' \in {file, "alien", "twin", None}
    BY DEF F!Meddle
  <2>2. lockFile' \in Nat
    BY DEF F!Meddle, FileInv, FileTypes
  <2>3. here' = here \/ here' = ~here
    BY DEF F!Meddle
  <2>4. here' \in BOOLEAN
    BY <2>3 DEF FileInv, FileTypes
  <2> QED BY <2>1, <2>2, <2>4
<1>3. spoilt' = spoilt \/ spoilt' = spoilt \cup {file}
  BY DEF F!Meddle
<1>4. FileTypes'
  <2>1. F!TypeOK'
    BY <1>1, <1>2, <1>3 DEF FileInv, FileTypes, F!TypeOK, F!Files
  <2> QED BY <1>1, <1>2, <2>1 DEF FileInv, FileTypes
<1>5. (\A w \in Writers : OperationAt(w))'
  BY <1>1 DEF FileInv, OperationAt
<1>6. \A w \in Writers : Nowhere(w) => Nowhere(w)'
  BY <1>1, <1>2 DEF FileConstants, Nowhere
<1>7. FilesAreOnce'
  BY <1>1, <1>2, <1>6 DEF FileConstants, FileInv, FilesAreOnce
<1>8. RemovedIsOwn'
  BY <1>1 DEF FileInv, RemovedIsOwn, F!NothingIsLost
<1>9. ConflictsLeaveNothing'
  BY <1>1, <1>6 DEF FileInv, ConflictsLeaveNothing
<1>11. SeenTypes'
  BY <1>1 DEF FileInv, SeenTypes, F!Files
<1>10. upsets' # 0
  BY <1>1 DEF FileInv, FileTypes
<1> QED BY <1>4, <1>5, <1>7, <1>8, <1>9, <1>10, <1>11 DEF FileInv, Undisturbed

LEMMA FilesBegin == ASSUME FileConstants, F!Init PROVE FileInv
<1>1. op \in [Writers -> F!Ops]
  BY DEF F!Init, F!Ops
<1>2. temp \in [Writers -> F!Files] /\ \A w \in Writers : temp[w] = IF op[w] = "install" THEN w ELSE None
  BY <1>1 DEF F!Init, F!Files
<1>3. pc = [w \in Writers |-> "idle"] /\ held = [w \in Writers |-> [file |-> 0, locked |-> FALSE]] /\ seen = [w \in Writers |-> [prior |-> None, displaced |-> None]]
      /\ syncErr = [w \in Writers |-> FALSE] /\ result = [w \in Writers |-> None] /\ err = [w \in Writers |-> None]
  BY DEF F!Init
<1>4. file \in {"prior", None} /\ stable = file /\ spoilt = {} /\ here = TRUE /\ lockFile = 0 /\ gone = {} /\ upsets = 0
  BY DEF F!Init
<1>5. FileTypes
  <2>1. F!TypeOK
    BY <1>1, <1>2, <1>3, <1>4 DEF F!TypeOK, F!Files
  <2>2. pc \in [Writers -> Points] /\ syncErr \in [Writers -> BOOLEAN]
    BY <1>3 DEF Points, Early, F!Files
  <2>3. held \in [Writers -> [file : Nat, locked : BOOLEAN]]
    BY <1>3
  <2> QED BY <1>4, <2>1, <2>2, <2>3 DEF FileTypes
<1>6. \A w \in Writers : OperationAt(w)
  BY <1>2, <1>3 DEF OperationAt, Undoing
<1>7. FilesAreOnce
  BY <1>2, <1>3, <1>4 DEF FileConstants, FilesAreOnce, Nowhere
<1>8. RemovedIsOwn /\ ConflictsLeaveNothing
  BY <1>3, <1>4 DEF FileConstants, RemovedIsOwn, F!NothingIsLost, ConflictsLeaveNothing
<1>10. SeenTypes
  BY <1>3 DEF SeenTypes, F!Files
<1>9. Undisturbed
  BY <1>3, <1>4 DEF FileConstants, Undisturbed, Renamed, Undoing
<1> QED BY <1>5, <1>6, <1>7, <1>8, <1>9, <1>10 DEF FileInv

LEMMA FilesNext == ASSUME FileConstants, FileInv, [F!Next]_(F!vars) PROVE FileInv'
<1>1. CASE F!Meddle
  BY <1>1, FileMeddle
<1>2. ASSUME NEW w \in Writers, F!OpenLock(w) \/ F!Flock(w) \/ F!Release(w) \/ F!Kill(w) \/ F!ReadStaged(w) \/ F!WriteImmutable(w) \/ F!Reread(w)
      PROVE FileInv'
  BY <1>2, FileOpenLock, FileFlock, FileRelease, FileKill, FileReadStaged, FileWriteImmutable, FileReread
<1>3. ASSUME NEW w \in Writers, F!ReplaceMutable(w) PROVE FileInv'
  BY <1>3, FilePrepareReplacement, FileObservePrior, FileCheckPrior, FileExclusiveRename, FileSwapRename, FileInspectDisplaced,
     FileValidateInstalled, FileUnlinkDisplaced, FileRecheck, FileSyncDirectory, FileConfirmInstalled DEF F!ReplaceMutable
<1>4. ASSUME NEW w \in Writers, F!publicationRollback(w) PROVE FileInv'
  BY <1>4, FileUndoCheck, FileUndoRename, FileUndoVerify, FileUndoSync DEF F!publicationRollback
<1>5. CASE UNCHANGED F!vars
  BY <1>5 DEF F!vars, FileInv, FileTypes, SeenTypes, F!Files, F!TypeOK, OperationAt, FilesAreOnce, Nowhere, RemovedIsOwn, F!NothingIsLost, ConflictsLeaveNothing,
     Undisturbed
<1> QED BY <1>1, <1>2, <1>3, <1>4, <1>5 DEF F!Next

\* What the invariant gives: the four promises of the file operations.
LEMMA FilesAreKept ==
  ASSUME FileConstants, FileInv PROVE F!FilesAreSafe
<1>1. F!NothingIsLost
  BY DEF FileInv, RemovedIsOwn
<1>2. F!DurableSurvives
  <2>1. \A w \in Writers : upsets = 0 /\ result[w] = "durable" => file = w /\ stable = w
    BY DEF FileInv, Undisturbed
  <2>2. \A v, w \in Writers : v # w => <<v, w>> \notin gone
    BY DEF FileConstants, FileInv, SeenTypes, FileTypes, RemovedIsOwn, F!NothingIsLost, F!Files
  <2> QED BY <2>1, <2>2 DEF F!DurableSurvives
<1>3. F!ConflictChangesNothing
  BY DEF FileInv, ConflictsLeaveNothing, Nowhere, F!ConflictChangesNothing
<1>4. F!OneWriterWins
  <2>1. upsets = 0 /\ (\A w \in Writers : pc[w] = "done") => \A w \in Writers : result[w] = "durable" <=> file = w
    BY DEF FileInv, Undisturbed, Renamed
  <2> QED BY <2>1 DEF F!OneWriterWins
<1> QED BY <1>1, <1>2, <1>3, <1>4 DEF F!FilesAreSafe

(* What a file operation reports is what it did: it removes nothing that is *)
(* not its own, a durable result survives the other writers, a conflict     *)
(* leaves nothing behind and, undisturbed, exactly one writer wins          *)
(* (ReplaceMutable(), InstallFinal(), publicationRollbackMutableSwap()).    *)
THEOREM FilesStaySafe ==
  ASSUME FileConstants PROVE F!Init /\ [][F!Next]_(F!vars) => []F!FilesAreSafe
<1>1. F!Init => FileInv
  BY FilesBegin
<1>2. FileInv /\ [F!Next]_(F!vars) => FileInv'
  BY FilesNext
<1>3. FileInv => F!FilesAreSafe
  BY FilesAreKept
<1> QED BY <1>1, <1>2, <1>3, PTL

-----------------------------------------------------------------------------
(* One provider namespace, from its acquisition to its terminal receipt.   *)

DiskStates ==
  [root : {"absent", "named", "elsewhere", "away", "stranded"}, foreign : {"none", "named", "aside"},
   tree : SUBSET {"home", "twin", "auth", "late", "settings"}, child : BOOLEAN, original : {"none", "live", "wiped"},
   replacement : {"none", "live", "unsafe", "other", "wiped"},
   harmed : SUBSET {"adopted", "removed"}, raced : SUBSET {"made", "unlink", "path"}, stale : BOOLEAN, out : BOOLEAN]

LeaseStages == {"initial", "quarantined", "contents_deleted", "final_checked", "detached", "closed"}
LeaseStates(frames) ==
  [stage : LeaseStages, found : BOOLEAN, walk : BOOLEAN, frames : {frames}, fds : SUBSET {"root", "parent", "scan"},
   seeds : BOOLEAN, data : BOOLEAN, term : BOOLEAN, drained : BOOLEAN, unverified : BOOLEAN]

NamespaceTypes ==
  /\ disk \in DiskStates /\ lease \in LeaseStates(lease.frames)
  /\ cleaned \in BOOLEAN /\ failed \in BOOLEAN /\ passes \in Nat

\* The points of a removal: in its stages, and between a look and the call that trusts it.
Removing == {"root", "unlink", "verify", "rmdir", "confirm"}

\* Who answers for the lease while an operation is at each of its points.
NamespaceControl ==
  /\ \/ call = "none" /\ place = "none" /\ own \in {"nobody", "registry", "error", "dropped"}
     \/ call = "acquire" /\ own = "factory" /\ place \in {"inspect", "open", "dirs", "validate", "data", "project"}
     \/ call = "rollback" /\ own = "factory" /\ place \in {"child", "close"} \cup Removing
     \/ call = "discard" /\ own = "factory" /\ place \in {"gate", "seeds", "child", "close"} \cup Removing
     \/ call = "drain" /\ own = "registry" /\ place \in {"gate", "seeds", "child", "close"} \cup Removing /\ passes > 1
     \/ call = "retry" /\ own = "error" /\ place \in {"close"} \cup Removing
  /\ own # "nobody" => passes > 0
  /\ own = "dropped" => failed

\* The credentials are wiped, or the lease remembers that they are still to be
\* or that wiping them failed.
SeedsAreRemembered ==
  /\ disk.original = "live" \/ disk.replacement \in {"live", "unsafe"} => lease.seeds \/ lease.term
  /\ own = "registry" /\ passes = 1 /\ "auth" \in disk.tree => lease.seeds
  /\ call \in {"drain", "discard"} /\ place \in {"child", "close"} \cup Removing => ~lease.seeds
  /\ call \in {"acquire", "rollback"} => disk.original = "none" /\ disk.replacement = "none"
  /\ call = "acquire" => "auth" \notin disk.tree
  /\ passes = 0 => disk = N!NoDisk

\* So is the cursor child, which only a lease that was completed has.
ChildIsRemembered ==
  /\ disk.child => lease.data
  /\ place = "close" \/ (call \in {"drain", "discard"} /\ place \in Removing) => ~lease.data
  /\ (call = "acquire" /\ place # "project") \/ call = "rollback" \/ own = "error" => ~lease.data

\* The stages after the unlink of the directory.
DetachedIsGone ==
  /\ place = "close" => lease.stage \in {"detached", "closed"}
  /\ call = "acquire" => lease.stage = "initial"
  /\ lease.stage \in {"detached", "closed"} =>
       \/ "path" \in disk.raced
       \/ /\ disk.root \in {"absent", "stranded"}
          /\ own \in {"factory", "registry"} => disk.root = "absent" /\ disk.tree = {}

\* A provider runs in a directory that is there, before the first drain.
UsersAreHoused ==
  users = "running" => own = "registry" /\ call = "none" /\ passes = 1 /\ disk.root \in {"named", "elsewhere", "away"} /\ ~cleaned

ReceiptIsFinal ==
  /\ cleaned => (own = "nobody" \/ (own = "registry" /\ passes > 1)) /\ place \in {"none", "gate"} /\ passes > 0
  /\ own = "nobody" => (disk.root \in {"absent", "stranded"} \/ "path" \in disk.raced) /\ ~disk.child /\ lease.fds = {} /\ ~lease.unverified
  /\ lease.unverified => own = "registry" /\ place \in {"none", "gate"}

\* Between a look and the call that trusts it: whoever took the name there is told of.
NamespaceWindows ==
  /\ place \in {"inspect", "open", "unlink"} => disk.root \notin {"absent", "stranded"}
  /\ place \in {"inspect", "open"} /\ disk.root # "named" => "made" \in disk.raced
  /\ place = "unlink" /\ disk.root # "named" => "unlink" \in disk.raced
  /\ place \in {"unlink", "verify"} => lease.stage = "final_checked"
  /\ place = "verify" => disk.root # "stranded"
  /\ place = "verify" /\ disk.root = "absent" =>
       disk.tree = {} /\ ("removed" \in disk.harmed => failed \/ "path" \in disk.raced)
  /\ place \in {"verify", "confirm"} /\ disk.stale => "path" \in disk.raced
  /\ call = "acquire" => "removed" \notin disk.harmed /\ ~disk.out

\* The top of the walk is an emptied child that is to be removed.
ChildStands ==
  /\ lease.stage = "quarantined" /\ lease.walk /\ Len(lease.frames) > 1
  /\ ~N!Top.detached /\ ~N!Top.refresh /\ N!Top.names = {}

\* A child that was taken out of the namespace is never taken for removed.
OutIsRemembered ==
  /\ place \in {"rmdir", "confirm"} => ChildStands
  /\ disk.out => "home" \notin disk.tree /\ ("path" \in disk.raced \/ (ChildStands /\ N!Top.dir = "home"))

\* What became of strangers, and when the name they took was trusted.
Accounted ==
  /\ "adopted" \in disk.harmed => "made" \in disk.raced
  /\ "removed" \in disk.harmed => disk.raced \cap {"made", "unlink"} # {}

Untouched == UNCHANGED disk.harmed /\ UNCHANGED disk.raced /\ UNCHANGED disk.out

NamespaceInv ==
  /\ NamespaceTypes
  /\ NamespaceWindows
  /\ OutIsRemembered
  /\ NamespaceControl
  /\ SeedsAreRemembered
  /\ ChildIsRemembered
  /\ DetachedIsGone
  /\ UsersAreHoused
  /\ ReceiptIsFinal
  /\ N!ReceiptIsTrue
  /\ N!StrangersAreKept
  /\ N!UnverifiedIsKept


LEMMA NoLeaseIsALease ==
  /\ N!NoLease \in LeaseStates(N!NoLease.frames)
  /\ [N!NoLease EXCEPT !.fds = {"parent"}] \in LeaseStates([N!NoLease EXCEPT !.fds = {"parent"}].frames)
  /\ [N!NoLease EXCEPT !.fds = {"parent"}, !.stage = "detached"]
       \in LeaseStates([N!NoLease EXCEPT !.fds = {"parent"}, !.stage = "detached"].frames)
  BY DEF N!NoLease, LeaseStates, LeaseStages

LEMMA NamespaceBegins == N!Init => NamespaceInv
<1> SUFFICES ASSUME N!Init PROVE NamespaceInv
  OBVIOUS
<1>1. NamespaceTypes
  BY NoLeaseIsALease DEF N!Init, N!NoDisk, DiskStates, NamespaceTypes
<1>2. disk = N!NoDisk /\ lease = N!NoLease
  BY DEF N!Init
<1> QED
  BY <1>1, <1>2 DEF NamespaceInv, N!Init, N!NoDisk, N!NoLease, NamespaceWindows, OutIsRemembered, NamespaceControl, SeedsAreRemembered, ChildIsRemembered, DetachedIsGone,
     UsersAreHoused, ReceiptIsFinal, N!ReceiptIsTrue, N!StrangersAreKept, N!UnverifiedIsKept

\* The parent is closed, or the construction error keeps it: nothing else is left.
LEMMA ParentCloses ==
  ASSUME NamespaceInv, NEW removed \in BOOLEAN, N!CloseParent(removed), failed' = TRUE, UNCHANGED <<family, users, cleaned>>,
         passes' > 0, passes' \in Nat, users # "running", ~cleaned, disk' \in DiskStates, ~disk'.child, Accounted', ~disk'.out,
         disk'.original = "none", disk'.replacement = "none",
         disk'.root \in {"absent", "stranded"}
  PROVE  NamespaceInv'
<1>1. CASE N!Settle(IF removed THEN "nobody" ELSE "dropped") /\ lease' = N!NoLease
  <2>1. call' = "none" /\ place' = "none" /\ own' \in {"nobody", "dropped"}
    BY <1>1 DEF N!Settle
  <2>2. lease'.stage = "initial" /\ lease'.fds = {} /\ ~lease'.unverified /\ ~lease'.data
    BY <1>1 DEF N!NoLease
  <2>3. NamespaceTypes'
    BY <1>1, NoLeaseIsALease DEF NamespaceInv, NamespaceTypes
  <2> QED
    BY <2>1, <2>2, <2>3 DEF NamespaceInv, NamespaceControl, SeedsAreRemembered, ChildIsRemembered, DetachedIsGone, UsersAreHoused,
     ReceiptIsFinal, NamespaceWindows, OutIsRemembered, ChildStands, N!Top, Accounted, Untouched, Removing, N!ReceiptIsTrue, N!StrangersAreKept, N!UnverifiedIsKept
<1>2. CASE N!Settle("error") /\ lease' = [N!NoLease EXCEPT !.fds = {"parent"}, !.stage = "detached"]
  <2>1. call' = "none" /\ place' = "none" /\ own' = "error"
    BY <1>2 DEF N!Settle
  <2>2. lease'.stage = "detached" /\ ~lease'.unverified /\ ~lease'.data
    BY <1>2 DEF N!NoLease
  <2>3. NamespaceTypes'
    BY <1>2, NoLeaseIsALease DEF NamespaceInv, NamespaceTypes
  <2> QED
    BY <2>1, <2>2, <2>3 DEF NamespaceInv, NamespaceControl, SeedsAreRemembered, ChildIsRemembered, DetachedIsGone, UsersAreHoused,
     ReceiptIsFinal, NamespaceWindows, OutIsRemembered, ChildStands, N!Top, Accounted, Untouched, Removing, N!ReceiptIsTrue, N!StrangersAreKept, N!UnverifiedIsKept
<1> QED BY <1>1, <1>2 DEF N!CloseParent

LEMMA NamespaceAcquired == ASSUME NamespaceInv, N!Acquire PROVE NamespaceInv'
<1>1. /\ own = "nobody" /\ call = "none" /\ passes = 0 /\ passes' = 1 /\ UNCHANGED <<family, users, cleaned>>
      /\ disk \in DiskStates /\ disk = N!NoDisk
  BY DEF N!Acquire, NamespaceInv, NamespaceTypes, SeedsAreRemembered
<1>2. users # "running" /\ ~cleaned
  BY <1>1 DEF NamespaceInv, UsersAreHoused, ReceiptIsFinal
<1>3. CASE /\ disk' = [disk EXCEPT !.root = "named"] /\ lease' = [N!NoLease EXCEPT !.fds = {"parent"}]
           /\ call' = "acquire" /\ place' = "inspect" /\ own' = "factory" /\ UNCHANGED failed
  <2>1. /\ disk'.root = "named" /\ disk'.tree = {} /\ ~disk'.child /\ disk'.original = "none" /\ disk'.replacement = "none"
        /\ disk'.harmed = {} /\ disk'.raced = {} /\ ~disk'.out /\ disk' \in DiskStates
    BY <1>1, <1>3 DEF N!NoDisk, DiskStates
  <2>2. lease'.stage = "initial" /\ ~lease'.unverified /\ ~lease'.data
    BY <1>3 DEF N!NoLease
  <2>3. NamespaceTypes'
    BY <1>1, <1>3, <2>1, NoLeaseIsALease DEF NamespaceInv, NamespaceTypes
  <2> QED
    BY <1>1, <1>2, <1>3, <2>1, <2>2, <2>3 DEF NamespaceInv, NamespaceControl, SeedsAreRemembered, ChildIsRemembered, DetachedIsGone, UsersAreHoused,
     ReceiptIsFinal, NamespaceWindows, OutIsRemembered, ChildStands, N!Top, Accounted, Untouched, Removing, N!ReceiptIsTrue, N!StrangersAreKept, N!UnverifiedIsKept
<1>4. CASE N!CloseParent(TRUE) /\ failed' = TRUE /\ UNCHANGED disk
  <2>1. /\ disk'.root = "absent" /\ ~disk'.child /\ disk'.original = "none" /\ disk'.replacement = "none"
        /\ Accounted' /\ ~disk'.out /\ disk' \in DiskStates
    BY <1>1, <1>4 DEF N!NoDisk, Accounted
  <2>2. passes' > 0 /\ passes' \in Nat /\ TRUE \in BOOLEAN
    BY <1>1
  <2> QED BY <1>1, <1>2, <1>4, <2>1, <2>2, ParentCloses
<1> QED BY <1>3, <1>4 DEF N!Acquire

LEMMA AcquiringIsFresh ==
  ASSUME NamespaceInv, call = "acquire"
  PROVE  /\ own = "factory" /\ place \in {"inspect", "open", "dirs", "validate", "data", "project"} /\ passes > 0 /\ passes \in Nat
         /\ disk \in DiskStates /\ lease \in LeaseStates(lease.frames) /\ cleaned = FALSE /\ failed \in BOOLEAN
         /\ disk.original = "none" /\ disk.replacement = "none" /\ "auth" \notin disk.tree /\ lease.stage = "initial"
         /\ (place # "project" => ~lease.data) /\ (disk.child => lease.data) /\ ~lease.unverified
         /\ users # "running" /\ Accounted /\ "removed" \notin disk.harmed /\ ~disk.out
         /\ (place \in {"inspect", "open"} => disk.root \notin {"absent", "stranded"} /\ (disk.root # "named" => "made" \in disk.raced))
  BY DEF NamespaceInv, NamespaceTypes, NamespaceControl, SeedsAreRemembered, ChildIsRemembered, DetachedIsGone, UsersAreHoused,
     ReceiptIsFinal, NamespaceWindows, OutIsRemembered, ChildStands, N!Top, Accounted, Untouched, Removing, N!ReceiptIsTrue, N!StrangersAreKept, N!UnverifiedIsKept

\* A construction goes on, is rolled back or is discarded.
LEMMA AcquiringMoves ==
  ASSUME NamespaceInv, call = "acquire", UNCHANGED <<family, users, passes, own, cleaned>>, failed' \in {failed, TRUE},
         disk' \in DiskStates, UNCHANGED disk.original, UNCHANGED disk.replacement,
         Accounted', "removed" \notin disk'.harmed, ~disk'.out,
         place' = "open" => disk'.root \notin {"absent", "stranded"} /\ (disk'.root # "named" => "made" \in disk'.raced),
         "auth" \notin disk'.tree, lease' \in LeaseStates(lease'.frames), UNCHANGED lease.stage, UNCHANGED lease.unverified,
         disk'.child => lease'.data,
         \/ call' = "acquire" /\ place' \in {"open", "dirs", "validate", "data"} /\ ~lease'.data
         \/ call' = "acquire" /\ place' = "project"
         \/ call' = "rollback" /\ place' = "child" /\ ~lease'.data
         \/ call' = "discard" /\ place' = "gate"
  PROVE  NamespaceInv'
<1>1. NamespaceTypes'
  BY AcquiringIsFresh DEF NamespaceInv, NamespaceTypes
<1> QED BY <1>1, AcquiringIsFresh DEF NamespaceInv, NamespaceControl, SeedsAreRemembered, ChildIsRemembered, DetachedIsGone, UsersAreHoused,
     ReceiptIsFinal, NamespaceWindows, OutIsRemembered, ChildStands, N!Top, Accounted, Untouched, Removing, N!ReceiptIsTrue, N!StrangersAreKept, N!UnverifiedIsKept

LEMMA NamespaceConstructs ==
  ASSUME NamespaceInv, N!InspectRoot \/ N!OpenRoot \/ N!newNamespaceLease \/ N!ValidateAfterConstruction \/ N!createCursorDataChild
  PROVE  NamespaceInv'
<1>1. call = "acquire" /\ UNCHANGED <<family, users, passes>>
  BY DEF N!InspectRoot, N!OpenRoot, N!newNamespaceLease, N!ValidateAfterConstruction, N!createCursorDataChild, N!Same
<1>2. /\ own = "factory" /\ place \in {"inspect", "open", "dirs", "validate", "data", "project"} /\ passes > 0 /\ passes \in Nat
      /\ disk \in DiskStates /\ lease \in LeaseStates(lease.frames) /\ cleaned = FALSE /\ failed \in BOOLEAN
      /\ disk.original = "none" /\ disk.replacement = "none" /\ "auth" \notin disk.tree /\ lease.stage = "initial"
      /\ (place # "project" => ~lease.data) /\ (disk.child => lease.data) /\ ~lease.unverified
      /\ users # "running" /\ Accounted /\ "removed" \notin disk.harmed /\ ~disk.out
      /\ (place \in {"inspect", "open"} => disk.root \notin {"absent", "stranded"} /\ (disk.root # "named" => "made" \in disk.raced))
  BY <1>1, AcquiringIsFresh
<1>8. ASSUME place \in {"inspect", "open"}
      PROVE  /\ N!NameTaken \in DiskStates /\ N!NameTaken.original = disk.original /\ N!NameTaken.replacement = disk.replacement
             /\ N!NameTaken.tree = disk.tree /\ N!NameTaken.child = disk.child /\ N!NameTaken.out = disk.out
             /\ N!NameTaken.root \notin {"absent", "stranded"} /\ N!NameTaken.raced = disk.raced
             /\ (N!NameTaken.root # "named" => "made" \in disk.raced)
             /\ ("adopted" \in N!NameTaken.harmed => "made" \in disk.raced) /\ "removed" \notin N!NameTaken.harmed
  BY <1>2, <1>8 DEF DiskStates, N!NameTaken, N!Grabbed, Accounted
<1>9. ASSUME place \in {"inspect", "open"}, NEW removed \in BOOLEAN, N!CloseParent(removed), failed' = TRUE, UNCHANGED cleaned,
             \/ N!Grabbed = "ours" /\ disk' = N!NameRemoved
             \/ N!Grabbed = "stranger" /\ disk' = [N!NameRemoved EXCEPT !.root = "stranded"]
             \/ disk' = [disk EXCEPT !.root = "stranded"]
      PROVE  NamespaceInv'
  <2>1. /\ disk'.root \in {"absent", "stranded"} /\ ~disk'.child /\ disk'.original = "none" /\ disk'.replacement = "none"
        /\ ~disk'.out /\ disk' \in DiskStates /\ Accounted'
    <3>1. ~disk.child
      BY <1>2, <1>9
    <3>2. CASE N!Grabbed = "ours" /\ disk' = N!NameRemoved
      BY <1>2, <3>1, <3>2 DEF DiskStates, N!NameRemoved, Accounted
    <3>3. CASE N!Grabbed = "stranger" /\ disk' = [N!NameRemoved EXCEPT !.root = "stranded"]
      <4>1. "made" \in disk.raced
        BY <1>2, <1>9, <3>3 DEF N!Grabbed
      <4> QED BY <1>2, <3>1, <3>3, <4>1 DEF DiskStates, N!NameRemoved, Accounted
    <3>4. CASE disk' = [disk EXCEPT !.root = "stranded"]
      BY <1>2, <3>1, <3>4 DEF DiskStates, Accounted
    <3> QED BY <1>9, <3>2, <3>3, <3>4
  <2> QED BY <1>1, <1>2, <1>9, <2>1, ParentCloses
<1>3. CASE N!InspectRoot
  <2>1. CASE N!Goto("open") /\ disk' = N!NameTaken /\ UNCHANGED lease
    BY <1>1, <1>2, <1>3, <1>8, <2>1, AcquiringMoves DEF N!Goto, N!InspectRoot, Accounted
  <2> QED BY <1>3, <1>9, <2>1 DEF N!InspectRoot, N!LookFails
<1>4. CASE N!OpenRoot
  <2>1. CASE N!Goto("dirs") /\ disk' = N!NameTaken /\ lease' = [lease EXCEPT !.fds = @ \cup {"root"}]
    <3>1. lease' \in LeaseStates(lease'.frames) /\ UNCHANGED lease.stage /\ UNCHANGED lease.unverified /\ ~lease'.data
      BY <1>2, <1>4, <2>1 DEF LeaseStates, N!OpenRoot
    <3> QED BY <1>1, <1>2, <1>4, <1>8, <2>1, <3>1, AcquiringMoves DEF N!Goto, N!OpenRoot, Accounted
  <2>3. CASE N!Settle("error") /\ UNCHANGED <<disk, lease, cleaned>> /\ failed' = TRUE
    <3>1. call' = "none" /\ place' = "none" /\ own' = "error" /\ ~lease'.data
      BY <1>2, <1>4, <2>3 DEF N!Settle, N!OpenRoot
    <3>2. NamespaceTypes'
      BY <1>1, <1>2, <2>3 DEF NamespaceTypes
    <3> QED BY <1>1, <1>2, <2>3, <3>1, <3>2 DEF NamespaceInv, NamespaceControl, SeedsAreRemembered, ChildIsRemembered, DetachedIsGone, UsersAreHoused,
     ReceiptIsFinal, NamespaceWindows, OutIsRemembered, ChildStands, N!Top, Accounted, Untouched, Removing, N!ReceiptIsTrue, N!StrangersAreKept, N!UnverifiedIsKept
  <2> QED BY <1>4, <1>9, <2>1, <2>3 DEF N!OpenRoot, N!LookFails
<1>5. CASE N!newNamespaceLease
  <2>1. CASE disk' = [disk EXCEPT !.tree = {"home", "settings"}] /\ N!Goto("validate") /\ UNCHANGED lease
    <3>1. /\ disk' \in DiskStates /\ UNCHANGED disk.original /\ UNCHANGED disk.replacement /\ Untouched /\ UNCHANGED disk.child
          /\ "auth" \notin disk'.tree
      BY <1>2, <2>1 DEF DiskStates, Untouched
    <3> QED BY <1>1, <1>2, <1>5, <2>1, <3>1, AcquiringMoves DEF N!Goto, N!newNamespaceLease, Untouched, Accounted
  <2>2. ASSUME N!Rollback, NEW kept \in SUBSET {"home", "settings"}, NEW open \in SUBSET {"scan"},
               disk' = [disk EXCEPT !.tree = kept], lease' = [lease EXCEPT !.fds = @ \cup open]
        PROVE  NamespaceInv'
    <3>1. /\ disk' \in DiskStates /\ UNCHANGED disk.original /\ UNCHANGED disk.replacement /\ Untouched /\ UNCHANGED disk.child
          /\ "auth" \notin disk'.tree
      BY <1>2, <2>2 DEF DiskStates, Untouched
    <3>2. lease' \in LeaseStates(lease'.frames) /\ UNCHANGED lease.stage /\ UNCHANGED lease.unverified /\ ~lease'.data
      BY <1>2, <1>5, <2>2 DEF LeaseStates, N!newNamespaceLease
    <3> QED BY <1>1, <1>2, <1>5, <2>2, <3>1, <3>2, AcquiringMoves DEF N!Rollback, N!newNamespaceLease, Untouched, Accounted
  <2> QED BY <1>5, <2>1, <2>2 DEF N!newNamespaceLease
<1>6. CASE N!ValidateAfterConstruction
  <2>1. UNCHANGED <<disk, lease>> /\ (N!Goto("data") \/ N!Rollback) /\ place = "validate"
    BY <1>6 DEF N!ValidateAfterConstruction
  <2> QED BY <1>1, <1>2, <2>1, AcquiringMoves DEF N!Goto, N!Rollback, Accounted
<1>7. CASE N!createCursorDataChild
  <2>1. CASE (N!Goto("project") \/ N!Rollback) /\ UNCHANGED <<disk, lease>>
    BY <1>1, <1>2, <1>7, <2>1, AcquiringMoves DEF N!Goto, N!Rollback, N!createCursorDataChild, Accounted
  <2>2. CASE N!Goto("project") /\ disk' = [disk EXCEPT !.child = TRUE] /\ lease' = [lease EXCEPT !.data = TRUE]
    <3>1. /\ disk' \in DiskStates /\ UNCHANGED disk.original /\ UNCHANGED disk.replacement /\ Untouched
          /\ "auth" \notin disk'.tree
      BY <1>2, <2>2 DEF DiskStates, Untouched
    <3>2. lease' \in LeaseStates(lease'.frames) /\ UNCHANGED lease.stage /\ UNCHANGED lease.unverified /\ lease'.data
      BY <1>2, <2>2 DEF LeaseStates
    <3> QED BY <1>1, <1>2, <2>2, <3>1, <3>2, AcquiringMoves DEF N!Goto, Untouched, Accounted
  <2> QED BY <1>7, <2>1, <2>2 DEF N!createCursorDataChild
<1> QED BY <1>3, <1>4, <1>5, <1>6, <1>7

LEMMA NamespaceProjects == ASSUME NamespaceInv, N!ProjectCredential PROVE NamespaceInv'
<1>1. call = "acquire" /\ place = "project" /\ UNCHANGED <<family, users, passes>>
  BY DEF N!ProjectCredential, N!Same
<1>2. /\ own = "factory" /\ passes > 0 /\ passes \in Nat
      /\ disk \in DiskStates /\ lease \in LeaseStates(lease.frames) /\ cleaned = FALSE /\ failed \in BOOLEAN
      /\ disk.original = "none" /\ disk.replacement = "none" /\ "auth" \notin disk.tree /\ lease.stage = "initial"
      /\ (disk.child => lease.data) /\ ~lease.unverified /\ users # "running"
      /\ Accounted /\ "removed" \notin disk.harmed /\ ~disk.out
  BY <1>1, AcquiringIsFresh
<1>3. CASE /\ N!Settle("registry") /\ UNCHANGED <<cleaned, failed>>
           /\ disk' = [disk EXCEPT !.tree = @ \cup {"auth"}, !.original = "live"]
           /\ lease' = [lease EXCEPT !.seeds = TRUE]
  <2>1. /\ disk' \in DiskStates /\ UNCHANGED disk.replacement /\ Untouched /\ UNCHANGED disk.child
        /\ disk'.original = "live"
    BY <1>2, <1>3 DEF DiskStates, Untouched
  <2>2. lease' \in LeaseStates(lease'.frames) /\ UNCHANGED lease.stage /\ UNCHANGED lease.unverified /\ UNCHANGED lease.data /\ lease'.seeds
    BY <1>2, <1>3 DEF LeaseStates
  <2>3. call' = "none" /\ place' = "none" /\ own' = "registry"
    BY <1>3 DEF N!Settle
  <2>4. NamespaceTypes'
    BY <1>1, <1>2, <1>3, <2>1, <2>2 DEF NamespaceTypes
  <2> QED BY <1>1, <1>2, <1>3, <2>1, <2>2, <2>3, <2>4 DEF NamespaceInv, NamespaceControl, SeedsAreRemembered, ChildIsRemembered, DetachedIsGone, UsersAreHoused,
     ReceiptIsFinal, NamespaceWindows, OutIsRemembered, ChildStands, N!Top, Accounted, Untouched, Removing, N!ReceiptIsTrue, N!StrangersAreKept, N!UnverifiedIsKept
<1>4. CASE N!Settle("registry") /\ UNCHANGED <<cleaned, failed, disk, lease>>
  <2>1. call' = "none" /\ place' = "none" /\ own' = "registry"
    BY <1>4 DEF N!Settle
  <2>2. NamespaceTypes'
    BY <1>1, <1>2, <1>4 DEF NamespaceTypes
  <2> QED BY <1>1, <1>2, <1>4, <2>1, <2>2 DEF NamespaceInv, NamespaceControl, SeedsAreRemembered, ChildIsRemembered, DetachedIsGone, UsersAreHoused,
     ReceiptIsFinal, NamespaceWindows, OutIsRemembered, ChildStands, N!Top, Accounted, Untouched, Removing, N!ReceiptIsTrue, N!StrangersAreKept, N!UnverifiedIsKept
<1>5. CASE call' = "discard" /\ place' = "gate" /\ failed' = TRUE /\ UNCHANGED <<own, cleaned, disk, lease>>
  BY <1>1, <1>2, <1>5, AcquiringMoves DEF Accounted
<1> QED BY <1>3, <1>4, <1>5 DEF N!ProjectCredential

\* A child that was taken away stays remembered while the walk stands or no child stood.
LEMMA StillOut ==
  ASSUME NamespaceInv, UNCHANGED disk.out, disk.raced \subseteq disk'.raced, disk'.tree \subseteq disk.tree,
         ~ChildStands \/ (UNCHANGED lease.stage /\ UNCHANGED lease.walk /\ UNCHANGED lease.frames), place' \notin {"rmdir", "confirm"}
  PROVE  OutIsRemembered'
  BY DEF NamespaceInv, OutIsRemembered, ChildStands, N!Top

\* The provider and whoever else reaches the directory: a credential is replaced
\* only while the lease remembers it.
LEMMA NamespaceIsUsed ==
  ASSUME NamespaceInv, N!UseNamespace \/ N!ReplaceCredential \/ N!Scribble \/ N!Meddle \/ N!SubstituteChild PROVE NamespaceInv'
<1>1. /\ UNCHANGED <<family, own, call, place, cleaned, failed, passes>>
      /\ disk \in DiskStates /\ lease \in LeaseStates(lease.frames)
  BY DEF NamespaceInv, NamespaceTypes, N!UseNamespace, N!ReplaceCredential, N!Scribble, N!Meddle, N!SubstituteChild
<1>2. CASE N!UseNamespace
  <2>1. N!Free /\ UNCHANGED disk
    BY <1>2 DEF N!UseNamespace, N!ValidateForSpawn, N!EndProvider
  <2>2. own = "registry" /\ call = "none" /\ passes = 1 /\ place = "none" /\ ~cleaned
    BY <2>1 DEF N!Free, NamespaceInv, NamespaceControl, ReceiptIsFinal
  <2>3. CASE N!ValidateForSpawn
    <3>1. UNCHANGED lease /\ disk.root = "named"
      BY <2>3 DEF N!ValidateForSpawn, N!Spawnable
    <3>2. NamespaceTypes'
      BY <1>1, <2>1, <3>1 DEF NamespaceInv, NamespaceTypes
    <3> QED BY <1>1, <2>1, <2>2, <3>1, <3>2 DEF NamespaceInv, NamespaceControl, SeedsAreRemembered, ChildIsRemembered, DetachedIsGone, UsersAreHoused,
     ReceiptIsFinal, NamespaceWindows, OutIsRemembered, ChildStands, N!Top, Accounted, Untouched, Removing, N!ReceiptIsTrue, N!StrangersAreKept, N!UnverifiedIsKept
  <2>4. CASE N!EndProvider
    <3>1. users = "running" /\ users' # "running" /\ lease' \in {lease, [lease EXCEPT !.unverified = TRUE]}
      BY <2>4 DEF N!EndProvider
    <3>2. /\ lease' \in LeaseStates(lease'.frames) /\ UNCHANGED lease.stage /\ UNCHANGED lease.seeds /\ UNCHANGED lease.data
          /\ UNCHANGED lease.term /\ UNCHANGED lease.frames /\ UNCHANGED lease.walk
      BY <1>1, <3>1 DEF LeaseStates
    <3>3. NamespaceTypes'
      BY <1>1, <2>1, <3>2 DEF NamespaceInv, NamespaceTypes
    <3>4. OutIsRemembered'
      BY <1>1, <2>1, <2>2, <3>2, StillOut
    <3>5. disk.root # "absent"
      BY <3>1 DEF NamespaceInv, UsersAreHoused
    <3> QED BY <1>1, <2>1, <2>2, <3>1, <3>2, <3>3, <3>4, <3>5 DEF NamespaceInv, NamespaceControl, SeedsAreRemembered, ChildIsRemembered,
     DetachedIsGone, UsersAreHoused, ReceiptIsFinal, NamespaceWindows, Removing, N!ReceiptIsTrue, N!StrangersAreKept, N!UnverifiedIsKept
  <2> QED BY <1>2, <2>3, <2>4 DEF N!UseNamespace
<1>3. CASE N!ReplaceCredential
  <2>1. PICK kind \in {"live", "unsafe", "other"} : disk' = [disk EXCEPT !.replacement = kind]
    BY <1>3 DEF N!ReplaceCredential
  <2>2. UNCHANGED <<lease, users>> /\ users = "running" /\ "auth" \in disk.tree
    BY <1>3 DEF N!ReplaceCredential
  <2>3. /\ disk' \in DiskStates /\ UNCHANGED disk.root /\ UNCHANGED disk.child
        /\ UNCHANGED disk.original /\ UNCHANGED disk.tree /\ Untouched
    BY <1>1, <2>1 DEF DiskStates, Untouched
  <2>4. NamespaceTypes'
    BY <1>1, <2>2, <2>3 DEF NamespaceInv, NamespaceTypes
  <2>5. own = "registry" /\ call = "none" /\ passes = 1 /\ lease.seeds /\ ~cleaned
    BY <2>2 DEF NamespaceInv, UsersAreHoused, SeedsAreRemembered
  <2> QED BY <1>1, <2>2, <2>3, <2>4, <2>5 DEF NamespaceInv, NamespaceControl, SeedsAreRemembered, ChildIsRemembered, DetachedIsGone, UsersAreHoused,
     ReceiptIsFinal, NamespaceWindows, OutIsRemembered, ChildStands, N!Top, Accounted, Untouched, Removing, N!ReceiptIsTrue, N!StrangersAreKept, N!UnverifiedIsKept
<1>4. CASE N!Scribble
  <2>1. /\ UNCHANGED <<lease, users>> /\ disk.root # "absent" /\ "home" \in disk.tree
        /\ disk' \in {[disk EXCEPT !.tree = @ \ {"late"}], [disk EXCEPT !.tree = @ \cup {"late"}]}
    BY <1>4 DEF N!Scribble
  <2>2. /\ disk' \in DiskStates /\ UNCHANGED disk.root /\ UNCHANGED disk.child
        /\ UNCHANGED disk.original /\ UNCHANGED disk.replacement /\ ("auth" \in disk'.tree <=> "auth" \in disk.tree)
        /\ ("home" \in disk'.tree <=> "home" \in disk.tree) /\ UNCHANGED disk.stale /\ Untouched
    BY <1>1, <2>1 DEF DiskStates, Untouched
  <2>3. NamespaceTypes'
    BY <1>1, <2>1, <2>2 DEF NamespaceInv, NamespaceTypes
  <2>4. passes # 0
    BY <2>1 DEF NamespaceInv, SeedsAreRemembered, N!NoDisk
  <2> QED BY <1>1, <2>1, <2>2, <2>3, <2>4 DEF NamespaceInv, NamespaceControl, SeedsAreRemembered, ChildIsRemembered, DetachedIsGone, UsersAreHoused,
     ReceiptIsFinal, NamespaceWindows, OutIsRemembered, ChildStands, N!Top, Accounted, Untouched, Removing, N!ReceiptIsTrue, N!StrangersAreKept, N!UnverifiedIsKept
<1>5. CASE N!Meddle
  <2>1. /\ UNCHANGED <<lease, users>> /\ disk.root \in {"named", "elsewhere", "away"}
        /\ \E to \in {"elsewhere", "away"}, squat \in BOOLEAN :
             disk' = [disk EXCEPT !.root = to, !.foreign = IF squat THEN "named" ELSE @,
                                  !.raced = @ \cup N!Window, !.stale = @ \/ place = "verify"]
    BY <1>5 DEF N!Meddle
  <2>2. /\ N!Window \in SUBSET {"made", "unlink", "path"}
        /\ (call = "acquire" /\ place \in {"inspect", "open"} => "made" \in N!Window)
        /\ (place = "unlink" => call # "acquire" /\ "unlink" \in N!Window)
        /\ (place = "verify" => call # "acquire" /\ "path" \in N!Window)
    BY DEF N!Window, NamespaceInv, NamespaceControl
  <2>3. /\ disk' \in DiskStates /\ disk'.root \in {"elsewhere", "away"} /\ UNCHANGED disk.child
        /\ UNCHANGED disk.original /\ UNCHANGED disk.replacement /\ UNCHANGED disk.tree /\ UNCHANGED disk.harmed /\ UNCHANGED disk.out
        /\ disk'.raced = disk.raced \cup N!Window /\ (disk'.stale => disk.stale \/ place = "verify")
    <3>1. PICK to \in {"elsewhere", "away"}, squat \in BOOLEAN :
             disk' = [disk EXCEPT !.root = to, !.foreign = IF squat THEN "named" ELSE @,
                                  !.raced = @ \cup N!Window, !.stale = @ \/ place = "verify"]
      BY <2>1
    <3> DEFINE foreign == IF squat THEN "named" ELSE disk.foreign
               stale == disk.stale \/ place = "verify"
               raced == disk.raced \cup N!Window
    <3>2. /\ foreign \in {"none", "named", "aside"} /\ stale \in BOOLEAN /\ raced \in SUBSET {"made", "unlink", "path"}
          /\ (stale => disk.stale \/ place = "verify") /\ raced = disk.raced \cup N!Window
      BY <1>1, <2>2 DEF DiskStates
    <3>3. disk' = [disk EXCEPT !.root = to, !.foreign = foreign, !.raced = raced, !.stale = stale]
      BY <3>1
    <3> HIDE DEF foreign, stale, raced
    <3> QED BY <1>1, <3>2, <3>3 DEF DiskStates
  <2>4. NamespaceTypes'
    BY <1>1, <2>1, <2>3 DEF NamespaceInv, NamespaceTypes
  <2>5. passes # 0
    BY <2>1 DEF NamespaceInv, SeedsAreRemembered, N!NoDisk
  <2>6. place \in {"inspect", "open"} => call = "acquire"
    BY DEF NamespaceInv, NamespaceControl, Removing
  <2>7. disk.raced \subseteq disk'.raced
    BY <2>3
  <2> QED BY <1>1, <2>1, <2>2, <2>3, <2>4, <2>5, <2>6, <2>7 DEF NamespaceInv, NamespaceControl, SeedsAreRemembered, ChildIsRemembered, DetachedIsGone, UsersAreHoused,
     ReceiptIsFinal, NamespaceWindows, OutIsRemembered, ChildStands, N!Top, Accounted, Untouched, Removing, N!ReceiptIsTrue, N!StrangersAreKept, N!UnverifiedIsKept
<1>6. CASE N!SubstituteChild
  <2>1. /\ UNCHANGED <<lease, users>> /\ place \in {"rmdir", "confirm"} /\ N!Linked("home") /\ N!Top.dir = "home"
        /\ \E out \in BOOLEAN, repl \in SUBSET {"twin"} :
             disk' = [disk EXCEPT !.tree = (IF out THEN @ \ {"home", "auth", "late"} ELSE @) \cup repl,
                                  !.out = @ \/ out, !.stale = TRUE,
                                  !.raced = @ \cup (IF place = "confirm" THEN {"path"} ELSE {})]
    BY <1>6 DEF N!SubstituteChild, N!Top
  <2>2. PICK out \in BOOLEAN, repl \in SUBSET {"twin"} :
             disk' = [disk EXCEPT !.tree = (IF out THEN @ \ {"home", "auth", "late"} ELSE @) \cup repl,
                                  !.out = @ \/ out, !.stale = TRUE,
                                  !.raced = @ \cup (IF place = "confirm" THEN {"path"} ELSE {})]
    BY <2>1
  <2>3. /\ disk' \in DiskStates /\ UNCHANGED disk.root /\ UNCHANGED disk.child /\ UNCHANGED disk.harmed
        /\ UNCHANGED disk.original /\ UNCHANGED disk.replacement /\ ("auth" \in disk'.tree => "auth" \in disk.tree)
        /\ ("home" \in disk'.tree => "home" \in disk.tree /\ ~out) /\ (disk'.out => disk.out \/ out)
        /\ disk.raced \subseteq disk'.raced /\ (place = "confirm" => "path" \in disk'.raced)
    BY <1>1, <2>2 DEF DiskStates
  <2>4. NamespaceTypes'
    BY <1>1, <2>1, <2>3 DEF NamespaceInv, NamespaceTypes
  <2>5. passes # 0 /\ call \notin {"none", "acquire"} /\ ~cleaned /\ ~lease.unverified /\ lease.stage = "quarantined" /\ users # "running"
    BY <2>1 DEF NamespaceInv, NamespaceControl, ReceiptIsFinal, OutIsRemembered, ChildStands, UsersAreHoused, Removing
  <2>6. OutIsRemembered' /\ NamespaceWindows' /\ N!StrangersAreKept'
    BY <1>1, <2>1, <2>3, <2>5 DEF NamespaceInv, OutIsRemembered, ChildStands, N!Top, NamespaceWindows, N!StrangersAreKept
  <2> QED BY <1>1, <2>1, <2>3, <2>4, <2>5, <2>6 DEF NamespaceInv, NamespaceControl, SeedsAreRemembered, ChildIsRemembered, DetachedIsGone,
     UsersAreHoused, ReceiptIsFinal, Removing, N!ReceiptIsTrue, N!UnverifiedIsKept
<1> QED BY <1>2, <1>3, <1>4, <1>5, <1>6

LEMMA NamespaceDrainBegins ==
  ASSUME NamespaceInv, N!DrainTerminal \/ N!RetryConstructionCleanup PROVE NamespaceInv'
<1>1. /\ call = "none" /\ passes \in 1 .. MaxPasses /\ passes' = passes + 1 /\ lease' = [lease EXCEPT !.found = FALSE]
      /\ UNCHANGED <<family, own, disk, users, cleaned, failed>>
      /\ \/ own = "registry" /\ users # "running" /\ call' = "drain" /\ place' = "gate"
         \/ own = "error" /\ call' = "retry" /\ place' = "root"
  BY DEF N!DrainTerminal, N!RetryConstructionCleanup
<1>2. disk \in DiskStates /\ lease \in LeaseStates(lease.frames) /\ passes \in Nat
  BY DEF NamespaceInv, NamespaceTypes
<1>3. /\ lease' \in LeaseStates(lease'.frames) /\ UNCHANGED lease.stage /\ UNCHANGED lease.seeds /\ UNCHANGED lease.data
      /\ UNCHANGED lease.term /\ UNCHANGED lease.unverified /\ UNCHANGED lease.fds
      /\ UNCHANGED lease.frames /\ UNCHANGED lease.walk
  BY <1>1, <1>2 DEF LeaseStates
<1>4. NamespaceTypes' /\ passes' > 1 /\ passes' \in Nat /\ users # "running"
  <2>1. passes > 0 /\ passes' \in Nat /\ passes' > 1
    BY <1>1, <1>2
  <2>2. users # "running"
    BY <1>1 DEF NamespaceInv, UsersAreHoused
  <2> QED BY <1>1, <1>2, <1>3, <2>1, <2>2 DEF NamespaceInv, NamespaceTypes
<1> QED BY <1>1, <1>3, <1>4 DEF NamespaceInv, NamespaceControl, SeedsAreRemembered, ChildIsRemembered, DetachedIsGone, UsersAreHoused,
     ReceiptIsFinal, NamespaceWindows, OutIsRemembered, ChildStands, N!Top, Accounted, Untouched, Removing, N!ReceiptIsTrue, N!StrangersAreKept, N!UnverifiedIsKept

\* What a cleanup step starts from.
LEMMA CleaningIsUnderWay ==
  ASSUME NamespaceInv, N!Cleaning
  PROVE  /\ disk \in DiskStates /\ lease \in LeaseStates(lease.frames) /\ failed \in BOOLEAN /\ cleaned \in BOOLEAN
         /\ passes \in Nat /\ passes > 0 /\ users # "running" /\ Accounted
         /\ (call \in {"rollback", "discard"} => own = "factory") /\ (call = "drain" => own = "registry" /\ passes > 1)
         /\ (call = "retry" => own = "error") /\ place \in {"gate", "seeds", "child", "close"} \cup Removing
         /\ (place = "gate" => call \in {"drain", "discard"}) /\ (place = "seeds" => call \in {"drain", "discard"})
         /\ (place = "child" => call # "retry")
         /\ (place # "gate" => ~cleaned /\ ~lease.unverified)
         /\ (disk.child => lease.data)
  BY DEF N!Cleaning, NamespaceInv, NamespaceTypes, NamespaceControl, SeedsAreRemembered, ChildIsRemembered, DetachedIsGone, UsersAreHoused,
     ReceiptIsFinal, NamespaceWindows, OutIsRemembered, ChildStands, N!Top, Accounted, Untouched, Removing, N!ReceiptIsTrue, N!StrangersAreKept, N!UnverifiedIsKept

\* A cleanup that stops leaves its lease to its owner, or drops it with an error.
LEMMA CleaningStops ==
  ASSUME NamespaceInv, N!Cleaning, N!Stop, N!Same, ~cleaned,
         disk' \in DiskStates, UNCHANGED disk.child, UNCHANGED disk.original, UNCHANGED disk.replacement, Accounted', OutIsRemembered',
         disk.raced \subseteq disk'.raced, disk'.tree \subseteq disk.tree, lease.unverified => UNCHANGED disk,
         lease' \in LeaseStates(lease'.frames), UNCHANGED lease.seeds, UNCHANGED lease.data, UNCHANGED lease.term,
         UNCHANGED lease.unverified,
         lease'.stage \in {"detached", "closed"} =>
           \/ "path" \in disk'.raced
           \/ disk'.root \in {"absent", "stranded"} /\ (own \in {"factory", "registry"} => disk'.root = "absent" /\ disk'.tree = {})
  PROVE  NamespaceInv'
<1>1. call' = "none" /\ place' = "none" /\ failed' = TRUE /\ UNCHANGED <<family, users, passes, cleaned>>
  BY DEF N!Stop, N!Settle, N!Same
<1>2. /\ (call = "rollback" => own' = "error" /\ own = "factory") /\ (call = "retry" => own' = "error" /\ own = "error")
      /\ (call = "discard" => own' = "dropped" /\ own = "factory") /\ (call = "drain" => own' = "registry" /\ own = "registry" /\ passes > 1)
  BY CleaningIsUnderWay DEF N!Stop, N!Settle, N!Cleaning
<1>3. NamespaceTypes'
  BY <1>1, CleaningIsUnderWay DEF NamespaceInv, NamespaceTypes
<1> QED BY <1>1, <1>2, <1>3, CleaningIsUnderWay DEF NamespaceInv, N!Cleaning, NamespaceControl, SeedsAreRemembered, ChildIsRemembered, DetachedIsGone, UsersAreHoused,
     ReceiptIsFinal, NamespaceWindows, Accounted, Untouched, Removing, N!ReceiptIsTrue, N!StrangersAreKept, N!UnverifiedIsKept

LEMMA NamespaceGates == ASSUME NamespaceInv, N!DrainGate PROVE NamespaceInv'
<1>1. N!Cleaning /\ place = "gate" /\ call \in {"drain", "discard"} /\ UNCHANGED <<disk, lease, family, users, passes>> /\ N!Same
  BY DEF N!DrainGate, N!Cleaning, N!Same
<1>2. CASE ~cleaned /\ N!Stop
  <2>1. /\ disk' \in DiskStates /\ lease' \in LeaseStates(lease'.frames) /\ Accounted' /\ OutIsRemembered'
    BY <1>1, <1>2 DEF NamespaceInv, NamespaceTypes, N!StrangersAreKept, Accounted, OutIsRemembered, ChildStands, N!Top, N!Stop, N!Settle
  <2>2. lease.stage \in {"detached", "closed"} =>
           \/ "path" \in disk.raced
           \/ disk.root \in {"absent", "stranded"} /\ (own \in {"factory", "registry"} => disk.root = "absent" /\ disk.tree = {})
    BY DEF NamespaceInv, DetachedIsGone
  <2> QED BY <1>1, <1>2, <2>1, <2>2, CleaningStops
<1>3. CASE cleaned /\ N!Settle(own) /\ UNCHANGED <<cleaned, failed>>
  <2>1. call' = "none" /\ place' = "none" /\ own' = own /\ own = "registry"
    BY <1>1, <1>3, CleaningIsUnderWay DEF N!Settle, NamespaceInv, ReceiptIsFinal
  <2>2. NamespaceTypes'
    BY <1>1, <1>3 DEF NamespaceInv, NamespaceTypes
  <2> QED BY <1>1, <1>3, <2>1, <2>2 DEF NamespaceInv, NamespaceControl, SeedsAreRemembered, ChildIsRemembered, DetachedIsGone, UsersAreHoused,
     ReceiptIsFinal, NamespaceWindows, OutIsRemembered, ChildStands, N!Top, Accounted, Untouched, Removing, N!ReceiptIsTrue, N!StrangersAreKept, N!UnverifiedIsKept
<1>4. CASE ~cleaned /\ ~lease.unverified /\ N!Goto("seeds")
  <2>1. NamespaceTypes'
    BY <1>1, <1>4 DEF NamespaceInv, NamespaceTypes, N!Goto
  <2> QED BY <1>1, <1>4, <2>1 DEF NamespaceInv, N!Goto, NamespaceControl, SeedsAreRemembered, ChildIsRemembered, DetachedIsGone, UsersAreHoused,
     ReceiptIsFinal, NamespaceWindows, OutIsRemembered, ChildStands, N!Top, Accounted, Untouched, Removing, N!ReceiptIsTrue, N!StrangersAreKept, N!UnverifiedIsKept
<1> QED BY <1>2, <1>3, <1>4 DEF N!DrainGate

LEMMA NamespaceForgetsSeeds == ASSUME NamespaceInv, N!zeroAndUnlinkSeeds PROVE NamespaceInv'
<1>1. /\ N!Cleaning /\ place = "seeds" /\ call \in {"drain", "discard"} /\ UNCHANGED <<family, users, passes, call, own, cleaned, failed>>
      /\ place' = "child"
  BY DEF N!zeroAndUnlinkSeeds, N!Cleaning, N!Same, N!Goto
<1>2. /\ disk \in DiskStates /\ lease \in LeaseStates(lease.frames) /\ passes > 0 /\ users # "running" /\ ~cleaned /\ ~lease.unverified
      /\ (call = "discard" => own = "factory") /\ (call = "drain" => own = "registry" /\ passes > 1)
  BY <1>1, CleaningIsUnderWay
<1>3. CASE ~lease.seeds /\ UNCHANGED <<disk, lease>>
  <2>1. NamespaceTypes'
    BY <1>1, <1>3 DEF NamespaceInv, NamespaceTypes
  <2> QED BY <1>1, <1>2, <1>3, <2>1 DEF NamespaceInv, NamespaceControl, SeedsAreRemembered, ChildIsRemembered, DetachedIsGone, UsersAreHoused,
     ReceiptIsFinal, NamespaceWindows, OutIsRemembered, ChildStands, N!Top, Accounted, Untouched, Removing, N!ReceiptIsTrue, N!StrangersAreKept, N!UnverifiedIsKept
<1>4. ASSUME NEW o \in BOOLEAN, NEW r \in BOOLEAN, NEW u \in BOOLEAN, NEW term \in BOOLEAN, lease.seeds, disk' = N!Wiped(o, r, u),
             lease' = [lease EXCEPT !.seeds = FALSE, !.term = term],
             term \/ (o /\ r /\ disk.replacement # "unsafe")
      PROVE  NamespaceInv'
  <2>1. /\ disk' \in DiskStates /\ UNCHANGED disk.root /\ UNCHANGED disk.child
        /\ disk'.tree \subseteq disk.tree /\ Untouched
        /\ disk'.original = (IF o THEN "wiped" ELSE disk.original)
        /\ disk'.replacement = IF disk.replacement = "live" /\ r THEN "wiped" ELSE disk.replacement
    BY <1>2, <1>4 DEF DiskStates, N!Wiped, Untouched
  <2>2. /\ lease' \in LeaseStates(lease'.frames) /\ UNCHANGED lease.stage /\ ~lease'.seeds /\ UNCHANGED lease.data
        /\ lease'.term = term /\ UNCHANGED lease.unverified /\ UNCHANGED lease.walk /\ UNCHANGED lease.frames
    BY <1>2, <1>4 DEF LeaseStates
  <2>3. NamespaceTypes'
    BY <1>1, <2>1, <2>2 DEF NamespaceInv, NamespaceTypes
  <2>4. /\ disk'.original = "live" \/ disk'.replacement \in {"live", "unsafe"} => term
    BY <1>4, <2>1
  <2> QED BY <1>1, <1>2, <2>1, <2>2, <2>3, <2>4 DEF NamespaceInv, NamespaceControl, SeedsAreRemembered, ChildIsRemembered, DetachedIsGone, UsersAreHoused,
     ReceiptIsFinal, NamespaceWindows, OutIsRemembered, ChildStands, N!Top, Accounted, Untouched, Removing, N!ReceiptIsTrue, N!StrangersAreKept, N!UnverifiedIsKept
<1>5. CASE lease.seeds /\ disk' = N!Wiped(TRUE, TRUE, TRUE) /\ lease' = [lease EXCEPT !.seeds = FALSE, !.term = @ \/ disk.replacement = "unsafe"]
  <2>1. lease.term \in BOOLEAN /\ (lease.term \/ disk.replacement = "unsafe") \in BOOLEAN /\ TRUE \in BOOLEAN
    BY <1>2 DEF LeaseStates
  <2>2. lease' = [lease EXCEPT !.seeds = FALSE, !.term = (lease.term \/ disk.replacement = "unsafe")]
    BY <1>5
  <2> QED BY <1>4, <1>5, <2>1, <2>2
<1>6. CASE lease.seeds /\ lease' = [lease EXCEPT !.seeds = FALSE, !.term = TRUE] /\ \E o, r, u \in BOOLEAN : disk' = N!Wiped(o, r, u)
  BY <1>4, <1>6
<1> QED BY <1>3, <1>5, <1>6 DEF N!zeroAndUnlinkSeeds

LEMMA NamespaceRemovesChild == ASSUME NamespaceInv, N!removeCursorDataChild PROVE NamespaceInv'
<1>1. N!Cleaning /\ place = "child" /\ N!Same /\ UNCHANGED <<family, users, passes>>
  BY DEF N!removeCursorDataChild, N!Same
<1>2. /\ disk \in DiskStates /\ lease \in LeaseStates(lease.frames) /\ ~cleaned /\ ~lease.unverified /\ Accounted
      /\ call \in {"rollback", "discard", "drain"}
  BY <1>1, CleaningIsUnderWay DEF N!Cleaning
<1>3. CASE ~lease.data /\ N!Goto("root") /\ UNCHANGED <<disk, lease>>
  <2>1. NamespaceTypes'
    BY <1>1, <1>3 DEF NamespaceInv, NamespaceTypes, N!Goto
  <2> QED BY <1>1, <1>2, <1>3, <2>1 DEF NamespaceInv, N!Goto, NamespaceControl, SeedsAreRemembered, ChildIsRemembered, DetachedIsGone, UsersAreHoused,
     ReceiptIsFinal, NamespaceWindows, OutIsRemembered, ChildStands, N!Top, Accounted, Untouched, Removing, N!ReceiptIsTrue, N!StrangersAreKept, N!UnverifiedIsKept
<1>4. CASE lease.data /\ N!Goto("root") /\ disk' = [disk EXCEPT !.child = FALSE] /\ lease' = [lease EXCEPT !.data = FALSE]
  <2>1. /\ disk' \in DiskStates /\ UNCHANGED disk.root /\ Untouched /\ ~disk'.child
        /\ UNCHANGED disk.original /\ UNCHANGED disk.replacement /\ UNCHANGED disk.tree
    BY <1>2, <1>4 DEF DiskStates, Untouched
  <2>2. /\ lease' \in LeaseStates(lease'.frames) /\ UNCHANGED lease.stage /\ UNCHANGED lease.seeds /\ ~lease'.data
        /\ UNCHANGED lease.term /\ UNCHANGED lease.unverified /\ UNCHANGED lease.walk /\ UNCHANGED lease.frames
    BY <1>2, <1>4 DEF LeaseStates
  <2>3. NamespaceTypes'
    BY <1>1, <1>4, <2>1, <2>2 DEF NamespaceInv, NamespaceTypes, N!Goto
  <2> QED BY <1>1, <1>2, <1>4, <2>1, <2>2, <2>3 DEF NamespaceInv, N!Goto, NamespaceControl, SeedsAreRemembered, ChildIsRemembered, DetachedIsGone, UsersAreHoused,
     ReceiptIsFinal, NamespaceWindows, OutIsRemembered, ChildStands, N!Top, Accounted, Untouched, Removing, N!ReceiptIsTrue, N!StrangersAreKept, N!UnverifiedIsKept
<1>5. CASE N!Stop /\ UNCHANGED <<disk, lease>>
  <2>1. lease.stage \in {"detached", "closed"} =>
           \/ "path" \in disk.raced
           \/ disk.root \in {"absent", "stranded"} /\ (own \in {"factory", "registry"} => disk.root = "absent" /\ disk.tree = {})
    BY DEF NamespaceInv, DetachedIsGone
  <2>2. OutIsRemembered' /\ Accounted'
    BY <1>2, <1>5, StillOut DEF N!Stop, N!Settle, Accounted
  <2> QED BY <1>1, <1>2, <1>5, <2>1, <2>2, CleaningStops
<1> QED BY <1>3, <1>4, <1>5 DEF N!removeCursorDataChild

\* A step of the removal of the directory: it goes on, or stops at an error.
LEMMA RemovalMoves ==
  ASSUME NamespaceInv, N!Cleaning, place \in Removing, N!Same, NEW point \in Removing, N!Goto(point) \/ N!Stop,
         disk' \in DiskStates, UNCHANGED disk.child, UNCHANGED disk.original, UNCHANGED disk.replacement, UNCHANGED disk.raced,
         disk'.tree \subseteq disk.tree, Accounted', OutIsRemembered', N!Goto(point) => NamespaceWindows' /\ N!StrangersAreKept',
         lease' \in LeaseStates(lease'.frames), UNCHANGED lease.seeds, UNCHANGED lease.data, UNCHANGED lease.term,
         UNCHANGED lease.unverified,
         lease'.stage \in {"detached", "closed"} => "path" \in disk.raced \/ (disk'.root = "absent" /\ disk'.tree = {})
  PROVE  NamespaceInv'
<1>1. ~cleaned /\ ~lease.unverified /\ users # "running"
  BY CleaningIsUnderWay DEF Removing
<1>2. CASE N!Stop
  BY <1>1, <1>2, CleaningStops
<1>3. CASE N!Goto(point)
  <2>1. place' \in Removing /\ UNCHANGED <<call, own, cleaned, failed, family, users, passes>>
    BY <1>3 DEF N!Goto, N!Same
  <2>2. NamespaceTypes'
    BY <2>1 DEF NamespaceInv, NamespaceTypes
  <2> QED BY <1>1, <1>3, <2>1, <2>2 DEF NamespaceInv, N!Cleaning, NamespaceControl, SeedsAreRemembered, ChildIsRemembered, DetachedIsGone, UsersAreHoused,
     ReceiptIsFinal, Removing, N!ReceiptIsTrue, N!UnverifiedIsKept
<1> QED BY <1>2, <1>3

\* Back in its stages, a removal keeps what it knows of strangers.
LEMMA RemovalReturns ==
  ASSUME NamespaceInv, N!Cleaning, place \in Removing, N!Same, N!Goto("root") \/ N!Stop, place # "verify",
         disk' \in DiskStates, UNCHANGED disk.child, UNCHANGED disk.original, UNCHANGED disk.replacement, Untouched,
         disk'.tree \subseteq disk.tree, OutIsRemembered',
         lease' \in LeaseStates(lease'.frames), UNCHANGED lease.seeds, UNCHANGED lease.data, UNCHANGED lease.term,
         UNCHANGED lease.unverified, lease'.stage \notin {"detached", "closed"}
  PROVE  NamespaceInv'
<1>1. Accounted' /\ UNCHANGED disk.raced
  BY CleaningIsUnderWay DEF Accounted, Untouched
<1>2. N!Goto("root") => NamespaceWindows' /\ N!StrangersAreKept'
  BY DEF NamespaceInv, N!Cleaning, N!Goto, NamespaceWindows, N!StrangersAreKept, Untouched
<1>3. "root" \in Removing
  BY DEF Removing
<1> QED BY <1>1, <1>2, <1>3, RemovalMoves

\* What a removal may do to the disk before the directory is gone.
LEMMA DiskIsCleared ==
  ASSUME disk \in DiskStates, NEW names,
         disk' \in {disk, N!Found, [disk EXCEPT !.tree = @ \ names], [disk EXCEPT !.foreign = "named"], [disk EXCEPT !.foreign = "aside"]}
  PROVE  /\ disk' \in DiskStates /\ UNCHANGED disk.child /\ UNCHANGED disk.original /\ UNCHANGED disk.replacement
         /\ Untouched /\ disk'.tree \subseteq disk.tree
<1>1. CASE disk' = disk
  BY <1>1 DEF Untouched
<1>2. CASE disk' = N!Found
  <2> DEFINE foreign == IF disk.foreign = "named" /\ disk.root = "elsewhere" THEN "aside" ELSE disk.foreign
  <2>1. foreign \in {"none", "named", "aside"}
    BY DEF DiskStates
  <2>2. disk' = [disk EXCEPT !.root = "named", !.foreign = foreign]
    BY <1>2 DEF N!Found
  <2> HIDE DEF foreign
  <2> QED BY <2>1, <2>2 DEF DiskStates, Untouched
<1>3. CASE disk' = [disk EXCEPT !.tree = @ \ names]
  BY <1>3 DEF DiskStates, Untouched
<1>4. CASE disk' = [disk EXCEPT !.foreign = "named"] \/ disk' = [disk EXCEPT !.foreign = "aside"]
  BY <1>4 DEF DiskStates, Untouched
<1> QED BY <1>1, <1>2, <1>3, <1>4

\* A removal that has not unlinked the directory yet: the lease walks, the disk is cleared.
LEMMA RemovalGoesOn ==
  ASSUME NamespaceInv, N!Cleaning, place \in Removing \ {"verify"}, lease.stage \notin {"detached", "closed"}, N!Same,
         N!Goto("root") \/ N!Stop,
         NEW names,
         disk' \in {disk, N!Found, [disk EXCEPT !.tree = @ \ names], [disk EXCEPT !.foreign = "named"], [disk EXCEPT !.foreign = "aside"]},
         NEW w \in BOOLEAN, NEW fd \in SUBSET {"root", "scan"}, NEW f \in BOOLEAN,
         NEW st \in {"quarantined", "contents_deleted", "final_checked"}, NEW fr,
         lease' \in {lease, [lease EXCEPT !.found = f], [lease EXCEPT !.fds = @ \cup fd], [lease EXCEPT !.frames = fr],
                     [lease EXCEPT !.walk = w, !.frames = fr], [lease EXCEPT !.found = f, !.stage = st],
                     [lease EXCEPT !.walk = w, !.frames = fr, !.found = f, !.stage = st]},
         \/ ~ChildStands \/ (disk.out => "path" \in disk.raced)
         \/ lease' \in {lease, [lease EXCEPT !.found = f], [lease EXCEPT !.fds = @ \cup fd]}
  PROVE  NamespaceInv'
<1>1. disk \in DiskStates /\ lease \in LeaseStates(lease.frames)
  BY DEF NamespaceInv, NamespaceTypes
<1>2. /\ disk' \in DiskStates /\ UNCHANGED disk.child /\ UNCHANGED disk.original /\ UNCHANGED disk.replacement
      /\ Untouched /\ disk'.tree \subseteq disk.tree
  BY <1>1, DiskIsCleared
<1>3. st \in LeaseStages /\ fd \in SUBSET {"root", "parent", "scan"}
  BY DEF LeaseStages
<1>4. /\ lease' \in LeaseStates(lease'.frames) /\ UNCHANGED lease.seeds /\ UNCHANGED lease.data /\ UNCHANGED lease.term
      /\ UNCHANGED lease.unverified /\ lease'.stage \in {lease.stage, st}
  <2>1. CASE lease' \in {lease, [lease EXCEPT !.found = f]}
    BY <1>1, <2>1 DEF LeaseStates
  <2>2. CASE lease' = [lease EXCEPT !.fds = @ \cup fd]
    BY <1>1, <1>3, <2>2 DEF LeaseStates
  <2>3. CASE lease' \in {[lease EXCEPT !.frames = fr], [lease EXCEPT !.walk = w, !.frames = fr]}
    BY <1>1, <2>3 DEF LeaseStates
  <2>4. CASE lease' = [lease EXCEPT !.found = f, !.stage = st]
    BY <1>1, <1>3, <2>4 DEF LeaseStates
  <2>5. CASE lease' = [lease EXCEPT !.walk = w, !.frames = fr, !.found = f, !.stage = st]
    BY <1>1, <1>3, <2>5 DEF LeaseStates
  <2> QED BY <2>1, <2>2, <2>3, <2>4, <2>5
<1>5. OutIsRemembered'
  <2>1. place' \notin {"rmdir", "confirm"} /\ UNCHANGED disk.out /\ UNCHANGED disk.raced
    BY <1>2 DEF N!Goto, N!Stop, N!Settle, Untouched
  <2>2. CASE disk.out => "path" \in disk.raced
    BY <1>2, <2>1, <2>2 DEF NamespaceInv, OutIsRemembered
  <2>3. CASE ~ChildStands \/ lease' \in {lease, [lease EXCEPT !.found = f], [lease EXCEPT !.fds = @ \cup fd]}
    <3>1. ~ChildStands \/ (UNCHANGED lease.stage /\ UNCHANGED lease.walk /\ UNCHANGED lease.frames)
      BY <1>1, <2>3 DEF LeaseStates
    <3> QED BY <1>2, <2>1, <3>1, StillOut
  <2> QED BY <2>2, <2>3
<1> QED BY <1>2, <1>4, <1>5, RemovalReturns

LEMMA NamespaceLocates == ASSUME NamespaceInv, N!ReopenRoot \/ N!locateNamespaceEntry PROVE NamespaceInv'
<1>1. N!Cleaning /\ N!Same /\ place \in Removing \ {"verify"} /\ lease.stage \notin {"detached", "closed"}
  BY DEF N!ReopenRoot, N!locateNamespaceEntry, N!Here, N!InRoot, Removing
<1>2. N!Goto("root") \/ N!Stop
  BY DEF N!ReopenRoot, N!locateNamespaceEntry
<1>3. disk' \in {disk, N!Found}
  BY DEF N!ReopenRoot, N!locateNamespaceEntry
<1>4. \E fd \in SUBSET {"root", "scan"}, f \in BOOLEAN :
        lease' \in {lease, [lease EXCEPT !.found = f], [lease EXCEPT !.fds = @ \cup fd]}
  <2>1. CASE lease' = [lease EXCEPT !.fds = @ \cup {"root"}]
    BY <2>1
  <2>2. CASE \E kept \in SUBSET {"scan"} : lease' = [lease EXCEPT !.fds = @ \cup kept]
    <3>1. PICK kept \in SUBSET {"scan"} : lease' = [lease EXCEPT !.fds = @ \cup kept]
      BY <2>2
    <3>2. kept \in SUBSET {"root", "scan"}
      OBVIOUS
    <3> QED BY <3>1, <3>2
  <2>3. CASE lease' = lease \/ lease' = [lease EXCEPT !.found = TRUE]
    BY <2>3
  <2> QED BY <2>1, <2>2, <2>3 DEF N!ReopenRoot, N!locateNamespaceEntry
<1> QED BY <1>1, <1>2, <1>3, <1>4, RemovalGoesOn

LEMMA NamespaceQuarantines ==
  ASSUME NamespaceInv, N!Quarantine("initial", "quarantined") \/ N!Quarantine("contents_deleted", "final_checked")
  PROVE  NamespaceInv'
<1>1. /\ N!Cleaning /\ N!Same /\ place \in Removing \ {"verify"} /\ lease.stage \notin {"detached", "closed"}
      /\ ~ChildStands
  BY DEF N!Quarantine, N!Here, N!InRoot, Removing, ChildStands
<1>2. N!Goto("root") \/ N!Stop
  BY DEF N!Quarantine, N!RenameFails
<1>3. disk' \in {disk, [disk EXCEPT !.foreign = "named"], [disk EXCEPT !.foreign = "aside"]}
  BY DEF N!Quarantine, N!RenameFails
<1>4. \E st \in {"quarantined", "final_checked"} : lease' \in {lease, [lease EXCEPT !.found = FALSE, !.stage = st]}
  BY DEF N!Quarantine, N!RenameFails
<1> QED BY <1>1, <1>2, <1>3, <1>4, RemovalGoesOn

\* The walk goes on only where no emptied child stands.
LEMMA NamespaceWalks ==
  ASSUME NamespaceInv, N!newNamespaceTraversal \/ N!RefreshFrame \/ N!VisitEntry \/ N!PopDetached \/ N!FinishContents
  PROVE  NamespaceInv'
<1>1. N!Cleaning /\ N!Same /\ place \in Removing \ {"verify"} /\ lease.stage \notin {"detached", "closed"}
  BY DEF N!newNamespaceTraversal, N!RefreshFrame, N!VisitEntry, N!PopDetached, N!FinishContents, N!Walking, N!Here, N!InRoot, Removing
<1> DEFINE Walks == \E w, f \in BOOLEAN : \E st \in {"quarantined", "contents_deleted", "final_checked"} : \E fr :
               lease' \in {lease, [lease EXCEPT !.frames = fr], [lease EXCEPT !.walk = w, !.frames = fr],
                           [lease EXCEPT !.walk = w, !.frames = fr, !.found = f, !.stage = st]}
           Clears == \E names : disk' \in {disk, [disk EXCEPT !.tree = @ \ names]}
           Goes == N!Goto("root") \/ N!Stop
<1>2. ASSUME Goes, Walks, Clears, ~ChildStands \/ UNCHANGED lease PROVE NamespaceInv'
  <2>1. PICK w \in BOOLEAN, f \in BOOLEAN, st \in {"quarantined", "contents_deleted", "final_checked"} : \E fr :
          lease' \in {lease, [lease EXCEPT !.frames = fr], [lease EXCEPT !.walk = w, !.frames = fr],
                     [lease EXCEPT !.walk = w, !.frames = fr, !.found = f, !.stage = st]}
    BY <1>2
  <2>2. PICK fr : lease' \in {lease, [lease EXCEPT !.frames = fr], [lease EXCEPT !.walk = w, !.frames = fr],
                             [lease EXCEPT !.walk = w, !.frames = fr, !.found = f, !.stage = st]}
    BY <2>1
  <2>3. PICK names : disk' \in {disk, [disk EXCEPT !.tree = @ \ names]}
    BY <1>2
  <2>4. (N!Goto("root") \/ N!Stop) /\ (~ChildStands \/ lease' = lease)
    BY <1>2
  <2> HIDE DEF Walks, Clears, Goes
  <2>5. /\ disk \in DiskStates /\ lease \in LeaseStates(lease.frames)
        /\ disk' \in {disk, N!Found, [disk EXCEPT !.tree = @ \ names], [disk EXCEPT !.foreign = "named"], [disk EXCEPT !.foreign = "aside"]}
    BY <1>1, <2>3, CleaningIsUnderWay
  <2>6. /\ disk' \in DiskStates /\ UNCHANGED disk.child /\ UNCHANGED disk.original /\ UNCHANGED disk.replacement
        /\ Untouched /\ disk'.tree \subseteq disk.tree
    BY <2>5, DiskIsCleared
  <2>7. /\ lease' \in LeaseStates(lease'.frames) /\ UNCHANGED lease.seeds /\ UNCHANGED lease.data /\ UNCHANGED lease.term
        /\ UNCHANGED lease.unverified /\ lease'.stage \in {lease.stage, st}
    <3>1. CASE lease' \in {lease, [lease EXCEPT !.frames = fr], [lease EXCEPT !.walk = w, !.frames = fr]}
      BY <2>5, <3>1 DEF LeaseStates
    <3>2. CASE lease' = [lease EXCEPT !.walk = w, !.frames = fr, !.found = f, !.stage = st]
      BY <2>5, <3>2 DEF LeaseStates, LeaseStages
    <3> QED BY <2>2, <3>1, <3>2
  <2>8. OutIsRemembered'
    <3>1. place' \notin {"rmdir", "confirm"} /\ UNCHANGED disk.out /\ disk.raced \subseteq disk'.raced
      BY <2>4, <2>6 DEF N!Goto, N!Stop, N!Settle, Untouched
    <3>2. ~ChildStands \/ (UNCHANGED lease.stage /\ UNCHANGED lease.walk /\ UNCHANGED lease.frames)
      BY <2>4
    <3> QED BY <2>6, <3>1, <3>2, StillOut
  <2>9. place # "verify" /\ place \in Removing /\ lease'.stage \notin {"detached", "closed"}
    BY <1>1, <2>7
  <2> QED BY <1>1, <2>4, <2>6, <2>7, <2>8, <2>9, RemovalReturns
<1>3. CASE N!newNamespaceTraversal
  <2>1. ~ChildStands
    BY <1>3 DEF N!newNamespaceTraversal, ChildStands
  <2> QED BY <1>2, <1>3, <2>1 DEF N!newNamespaceTraversal
<1>4. CASE N!RefreshFrame
  <2>1. ~ChildStands
    BY <1>4 DEF N!RefreshFrame, ChildStands
  <2> QED BY <1>2, <1>4, <2>1 DEF N!RefreshFrame, N!Walk, N!Halt, N!WithTop
<1>5. CASE N!VisitEntry
  <2>1. ~ChildStands
    BY <1>5 DEF N!VisitEntry, ChildStands
  <2> QED BY <1>2, <1>5, <2>1 DEF N!VisitEntry, N!Walk, N!Halt, N!WithTop
<1>6. CASE N!PopDetached
  <2>1. ~ChildStands
    BY <1>6 DEF N!PopDetached, ChildStands
  <2> QED BY <1>2, <1>6, <2>1 DEF N!PopDetached, N!Walk, N!Pop
<1>7. CASE N!FinishContents
  <2>1. ~ChildStands
    <3>1. lease.frames = <<>> \/ Len(lease.frames) = 1
      BY <1>7 DEF N!FinishContents
    <3>2. Len(<<>>) = 0
      OBVIOUS
    <3>3. Len(lease.frames) = 0 \/ Len(lease.frames) = 1
      BY <3>1, <3>2, Zenon
    <3>4. ~(0 > 1) /\ ~(1 > 1)
      OBVIOUS
    <3> QED BY <3>3, <3>4, Zenon DEF ChildStands
  <2> QED BY <1>2, <1>7, <2>1 DEF N!FinishContents, N!Walk, N!Halt
<1> QED BY <1>3, <1>4, <1>5, <1>6, <1>7

\* An emptied child is found, its name is removed, and it is looked at again.
LEMMA NamespaceRemovesEntry ==
  ASSUME NamespaceInv, N!LocateChild \/ N!UnlinkChild \/ N!VerifyChild PROVE NamespaceInv'
<1>1. /\ N!Cleaning /\ N!Same /\ place \in Removing \ {"verify"} /\ lease.stage \notin {"detached", "closed"}
      /\ disk \in DiskStates /\ lease \in LeaseStates(lease.frames) /\ Accounted
  BY CleaningIsUnderWay DEF N!LocateChild, N!UnlinkChild, N!VerifyChild, N!ChildAt, N!Walking, N!Here, N!InRoot, Removing, NamespaceInv,
     NamespaceTypes, OutIsRemembered, ChildStands
<1>2. ASSUME NEW point \in {"rmdir", "confirm"}, N!Goto(point), ChildStands, UNCHANGED lease, disk'.stale = FALSE,
             disk' \in DiskStates, UNCHANGED disk.child, UNCHANGED disk.original, UNCHANGED disk.replacement, Untouched,
             disk'.tree \subseteq disk.tree
      PROVE  NamespaceInv'
  <2>2. Accounted' /\ UNCHANGED disk.raced /\ point \in Removing
    BY <1>1, <1>2 DEF Accounted, Untouched, Removing
  <2>3. OutIsRemembered'
    BY <1>2 DEF NamespaceInv, OutIsRemembered, ChildStands, N!Top, Untouched
  <2>4. NamespaceWindows' /\ N!StrangersAreKept'
    BY <1>1, <1>2 DEF NamespaceInv, N!Cleaning, N!Goto, NamespaceWindows, N!StrangersAreKept, Untouched
  <2>5. /\ place \in Removing /\ UNCHANGED lease.seeds /\ UNCHANGED lease.data /\ UNCHANGED lease.term
        /\ UNCHANGED lease.unverified /\ lease' \in LeaseStates(lease'.frames) /\ lease'.stage \notin {"detached", "closed"}
    BY <1>1, <1>2
  <2> QED BY <1>1, <1>2, <2>2, <2>3, <2>4, <2>5, RemovalMoves
<1>3. CASE N!LocateChild
  <2>1. CASE UNCHANGED lease /\ disk' = [disk EXCEPT !.stale = FALSE] /\ N!Goto("rmdir")
    <3>1. ChildStands
      BY <1>3 DEF N!LocateChild, N!Walking, ChildStands
    <3>2. /\ disk'.stale = FALSE /\ disk' \in DiskStates /\ UNCHANGED disk.child /\ UNCHANGED disk.original
          /\ UNCHANGED disk.replacement /\ Untouched /\ disk'.tree \subseteq disk.tree
      BY <1>1, <2>1 DEF DiskStates, Untouched
    <3> QED BY <1>2, <2>1, <3>1, <3>2
  <2>2. CASE N!Halt(lease) /\ UNCHANGED disk
    BY <1>1, <2>2, RemovalGoesOn DEF N!Halt
  <2> QED BY <1>3, <2>1, <2>2 DEF N!LocateChild
<1>4. CASE N!UnlinkChild
  <2>1. UNCHANGED lease /\ ChildStands
    BY <1>4 DEF N!UnlinkChild, N!ChildAt, NamespaceInv, OutIsRemembered
  <2>2. CASE N!Stop /\ UNCHANGED disk
    BY <1>1, <2>1, <2>2, RemovalGoesOn
  <2>3. CASE N!Goto("confirm") /\ \E name : disk' = [disk EXCEPT !.tree = @ \ {name}, !.stale = FALSE]
    <3>1. PICK name : disk' = [disk EXCEPT !.tree = @ \ {name}, !.stale = FALSE]
      BY <2>3
    <3>2. /\ disk'.stale = FALSE /\ disk' \in DiskStates /\ UNCHANGED disk.child /\ UNCHANGED disk.original
          /\ UNCHANGED disk.replacement /\ Untouched /\ disk'.tree \subseteq disk.tree
      BY <1>1, <3>1 DEF DiskStates, Untouched
    <3> QED BY <1>2, <2>1, <2>3, <3>2
  <2> QED BY <1>4, <2>2, <2>3 DEF N!UnlinkChild
<1>5. CASE N!VerifyChild
  <2>1. UNCHANGED disk /\ place = "confirm"
    BY <1>5 DEF N!VerifyChild, N!ChildAt
  <2>2. CASE N!Halt(lease)
    BY <1>1, <2>1, <2>2, RemovalGoesOn DEF N!Halt
  <2>3. CASE /\ ~N!Linked(N!Top.dir) \/ disk.stale
             /\ N!Walk(N!Pop) \/ N!Halt(N!WithTop([N!Top EXCEPT !.detached = TRUE]))
    <3>1. disk.out => "path" \in disk.raced
      BY <2>1, <2>3 DEF NamespaceInv, NamespaceWindows, OutIsRemembered, N!Linked
    <3>2. (N!Goto("root") \/ N!Stop) /\ \E fr : lease' = [lease EXCEPT !.frames = fr]
      BY <2>3 DEF N!Walk, N!Halt, N!Pop, N!WithTop
    <3>3. PICK fr : lease' = [lease EXCEPT !.frames = fr]
      BY <3>2
    <3>4. /\ lease' \in LeaseStates(lease'.frames) /\ UNCHANGED lease.seeds /\ UNCHANGED lease.data /\ UNCHANGED lease.term
          /\ UNCHANGED lease.unverified /\ lease'.stage \notin {"detached", "closed"} /\ Untouched
      BY <1>1, <2>1, <3>3 DEF LeaseStates, Untouched
    <3>5. OutIsRemembered'
      BY <2>1, <3>1, <3>2 DEF NamespaceInv, OutIsRemembered, N!Goto, N!Stop, N!Settle
    <3> QED BY <1>1, <2>1, <3>2, <3>4, <3>5, RemovalReturns
  <2> QED BY <1>5, <2>2, <2>3 DEF N!VerifyChild
<1> QED BY <1>3, <1>4, <1>5

LEMMA NamespaceEmpties == ASSUME NamespaceInv, N!removeNamespaceContents PROVE NamespaceInv'
  BY NamespaceWalks, NamespaceRemovesEntry DEF N!removeNamespaceContents

\* The directory is found, its name is removed, and its descriptor is looked at:
\* what was unlinked in its place is told of, and never taken for it.
LEMMA NamespaceUnlinks ==
  ASSUME NamespaceInv, N!Requarantine \/ N!UnlinkRoot \/ N!VerifyRoot PROVE NamespaceInv'
<1>1. /\ N!Cleaning /\ N!Same /\ place \in {"root", "unlink", "verify"} /\ lease.stage = "final_checked"
      /\ ~ChildStands /\ disk \in DiskStates /\ lease \in LeaseStates(lease.frames) /\ Accounted
  BY CleaningIsUnderWay DEF N!Requarantine, N!UnlinkRoot, N!VerifyRoot, N!Here, N!InRoot, NamespaceInv, NamespaceWindows, ChildStands
<1>2. place \in Removing /\ {"unlink", "verify", "root"} \subseteq Removing
  BY <1>1 DEF Removing
<1>3. CASE N!Requarantine
  <2>1. place = "root"
    BY <1>3 DEF N!Requarantine, N!Here, N!InRoot
  <2>2. CASE N!RenameFails
    <3>1. N!Stop /\ lease' = lease /\ disk' \in {disk, [disk EXCEPT !.foreign = "named"], [disk EXCEPT !.foreign = "aside"]}
      BY <2>2 DEF N!RenameFails
    <3> QED BY <1>1, <1>2, <2>1, <3>1, RemovalGoesOn
  <2>3. CASE N!namespaceEntryMatches(N!Grabbed) /\ N!Goto("unlink") /\ UNCHANGED <<disk, lease>>
    <3>1. disk.root = "named"
      BY <2>3 DEF N!namespaceEntryMatches, N!Grabbed
    <3>2. OutIsRemembered'
      BY <1>1, <2>3, StillOut DEF N!Goto
    <3>3. NamespaceWindows' /\ N!StrangersAreKept' /\ Accounted'
      BY <1>1, <2>1, <2>3, <3>1 DEF NamespaceInv, N!Cleaning, N!Goto, NamespaceWindows, N!StrangersAreKept, Accounted
    <3> QED BY <1>1, <1>2, <2>3, <3>2, <3>3, RemovalMoves
  <2> QED BY <1>3, <2>2, <2>3 DEF N!Requarantine
<1>4. CASE N!UnlinkRoot
  <2>1. place = "unlink" /\ UNCHANGED lease
    BY <1>4 DEF N!UnlinkRoot
  <2>2. CASE N!Stop /\ UNCHANGED disk
    BY <1>1, <1>2, <2>1, <2>2, RemovalGoesOn
  <2>3. CASE /\ (N!Grabbed = "ours" /\ disk.tree = {}) \/ N!Grabbed = "stranger"
             /\ disk' = [N!NameRemoved EXCEPT !.stale = FALSE] /\ N!Goto("verify")
    <3>1. /\ disk' \in DiskStates /\ UNCHANGED disk.child /\ UNCHANGED disk.original /\ UNCHANGED disk.replacement
          /\ UNCHANGED disk.raced /\ UNCHANGED disk.out /\ UNCHANGED disk.tree /\ disk'.stale = FALSE
          /\ \/ disk'.root = "absent" /\ disk.tree = {} /\ UNCHANGED disk.harmed
             \/ disk.root # "named" /\ UNCHANGED disk.root /\ disk'.harmed = disk.harmed \cup {"removed"}
      BY <1>1, <2>3 DEF DiskStates, N!NameRemoved, N!Grabbed
    <3>2. disk.root \notin {"absent", "stranded"} /\ (disk.root # "named" => "unlink" \in disk.raced)
      BY <2>1 DEF NamespaceInv, NamespaceWindows
    <3>3. OutIsRemembered'
      BY <1>1, <2>1, <2>3, <3>1, StillOut DEF N!Goto
    <3>4. NamespaceWindows' /\ N!StrangersAreKept' /\ Accounted'
      BY <1>1, <2>1, <2>3, <3>1, <3>2 DEF NamespaceInv, N!Cleaning, N!Goto, NamespaceWindows, N!StrangersAreKept, Accounted
    <3> QED BY <1>1, <1>2, <2>1, <2>3, <3>1, <3>3, <3>4, RemovalMoves
  <2> QED BY <1>4, <2>2, <2>3 DEF N!UnlinkRoot
<1>5. CASE N!VerifyRoot
  <2>1. place = "verify" /\ UNCHANGED disk /\ Accounted'
    BY <1>1, <1>5 DEF N!VerifyRoot, Accounted
  <2>2. CASE UNCHANGED lease /\ N!Stop
    <3>1. OutIsRemembered'
      BY <1>1, <2>1, <2>2, StillOut DEF N!Stop, N!Settle
    <3> QED BY <1>1, <1>2, <2>1, <2>2, <3>1, CleaningStops, CleaningIsUnderWay DEF Removing
  <2>3. CASE /\ disk.root = "absent" \/ disk.stale
             /\ lease' = [lease EXCEPT !.found = FALSE, !.stage = "detached"] /\ N!Goto("root")
    <3>1. /\ lease' \in LeaseStates(lease'.frames) /\ UNCHANGED lease.seeds /\ UNCHANGED lease.data /\ UNCHANGED lease.term
          /\ UNCHANGED lease.unverified
      BY <1>1, <2>3 DEF LeaseStates, LeaseStages
    <3>2. OutIsRemembered'
      BY <1>1, <2>1, <2>3, StillOut DEF N!Goto
    <3>3. /\ "path" \in disk.raced \/ (disk.root = "absent" /\ disk.tree = {})
          /\ "removed" \in disk.harmed => failed \/ "path" \in disk.raced
      BY <2>1, <2>3 DEF NamespaceInv, NamespaceWindows
    <3>4. NamespaceWindows' /\ N!StrangersAreKept'
      BY <1>1, <2>1, <2>3, <3>3 DEF NamespaceInv, N!Cleaning, N!Goto, NamespaceWindows, N!StrangersAreKept
    <3> QED BY <1>1, <1>2, <2>1, <2>3, <3>1, <3>2, <3>3, <3>4, RemovalMoves
  <2> QED BY <1>5, <2>2, <2>3 DEF N!VerifyRoot
<1> QED BY <1>3, <1>4, <1>5

LEMMA NamespaceIsDone == ASSUME NamespaceInv, N!RootIsDone PROVE NamespaceInv'
<1>1. N!Cleaning /\ place = "root" /\ N!Same /\ UNCHANGED <<disk, lease, family, users, passes>>
  BY DEF N!RootIsDone, N!InRoot, N!Same
<1>2. ~cleaned /\ ~lease.unverified
  BY <1>1, CleaningIsUnderWay
<1>3. CASE lease.stage \in {"detached", "closed"} /\ N!Goto("close")
  <2>1. NamespaceTypes'
    BY <1>1, <1>3 DEF NamespaceInv, NamespaceTypes, N!Goto
  <2> QED BY <1>1, <1>2, <1>3, <2>1 DEF NamespaceInv, N!Goto, N!Cleaning, NamespaceControl, SeedsAreRemembered, ChildIsRemembered, DetachedIsGone, UsersAreHoused,
     ReceiptIsFinal, NamespaceWindows, OutIsRemembered, ChildStands, N!Top, Accounted, Untouched, Removing, N!ReceiptIsTrue, N!StrangersAreKept, N!UnverifiedIsKept
<1>4. CASE N!Stop
  <2>1. disk' \in DiskStates /\ lease' \in LeaseStates(lease'.frames) /\ Accounted' /\ OutIsRemembered'
    BY <1>1, <1>4, StillOut DEF NamespaceInv, NamespaceTypes, N!StrangersAreKept, Accounted, N!Stop, N!Settle
  <2>2. lease.stage \in {"detached", "closed"} =>
           \/ "path" \in disk.raced
           \/ disk.root \in {"absent", "stranded"} /\ (own \in {"factory", "registry"} => disk.root = "absent" /\ disk.tree = {})
    BY DEF NamespaceInv, DetachedIsGone
  <2> QED BY <1>1, <1>2, <1>4, <2>1, <2>2, CleaningStops
<1> QED BY <1>3, <1>4 DEF N!RootIsDone, N!InRoot

\* Only a lease without a remembered error is drained: everything it held is gone.
LEMMA NamespaceCloses == ASSUME NamespaceInv, N!closeNamespaceDescriptors PROVE NamespaceInv'
<1>1. N!Cleaning /\ place = "close" /\ N!Same /\ UNCHANGED <<disk, family, users, passes>>
  BY DEF N!closeNamespaceDescriptors, N!Same
<1>2. /\ disk \in DiskStates /\ lease \in LeaseStates(lease.frames) /\ ~cleaned /\ ~lease.unverified /\ passes > 0 /\ failed \in BOOLEAN
      /\ Accounted /\ users # "running"
      /\ (call \in {"rollback", "discard"} => own = "factory") /\ (call = "drain" => own = "registry" /\ passes > 1)
      /\ (call = "retry" => own = "error")
  BY <1>1, CleaningIsUnderWay
<1>3. /\ lease.stage \in {"detached", "closed"} /\ ~disk.child /\ ~lease.data /\ ~ChildStands
      /\ \/ "path" \in disk.raced
         \/ /\ disk.root \in {"absent", "stranded"} /\ ~disk.out
            /\ (own \in {"factory", "registry"} => disk.root = "absent" /\ disk.tree = {})
      /\ (call \in {"drain", "discard"} => ~lease.seeds)
      /\ (disk.original = "live" \/ disk.replacement \in {"live", "unsafe"} => lease.seeds \/ lease.term)
  BY <1>1 DEF NamespaceInv, DetachedIsGone, ChildIsRemembered, SeedsAreRemembered, OutIsRemembered, ChildStands
<1>4. ASSUME NEW clean \in BOOLEAN, clean => call \in {"drain", "discard"} /\ ~lease.term,
             lease' = [lease EXCEPT !.fds = {}, !.stage = "closed", !.drained = clean],
             N!Settle(IF call = "drain" THEN own ELSE "nobody"),
             cleaned' = clean, failed' \in BOOLEAN, failed => failed'
      PROVE  NamespaceInv'
  <2>1. /\ lease' \in LeaseStates(lease'.frames) /\ UNCHANGED lease.seeds /\ UNCHANGED lease.data /\ UNCHANGED lease.term
        /\ UNCHANGED lease.unverified /\ lease'.stage = "closed" /\ lease'.fds = {}
    BY <1>2, <1>4 DEF LeaseStates, LeaseStages
  <2>2. /\ call' = "none" /\ place' = "none" /\ own' \in {"nobody", "registry"}
        /\ (own' = "registry" => call = "drain" /\ own = "registry" /\ passes > 1)
    BY <1>1, <1>2, <1>4 DEF N!Settle
  <2>3. NamespaceTypes'
    BY <1>1, <1>4, <2>1 DEF NamespaceInv, NamespaceTypes
  <2>4. clean => ("path" \in disk.raced \/ (disk.root = "absent" /\ disk.tree = {} /\ ~disk.out)) /\ disk.original # "live" /\ disk.replacement \notin {"live", "unsafe"}
    BY <1>2, <1>3, <1>4
  <2>5. OutIsRemembered' /\ NamespaceWindows' /\ N!StrangersAreKept'
    <3>1. OutIsRemembered'
      BY <1>1, <1>3, <2>2, StillOut
    <3>2. failed => failed'
      BY <1>4
    <3> QED BY <1>1, <2>2, <3>1, <3>2 DEF NamespaceInv, NamespaceWindows, N!StrangersAreKept
  <2> QED BY <1>1, <1>2, <1>3, <1>4, <2>1, <2>2, <2>3, <2>4, <2>5 DEF NamespaceInv, NamespaceControl, SeedsAreRemembered, ChildIsRemembered, DetachedIsGone, UsersAreHoused,
     ReceiptIsFinal, NamespaceWindows, Accounted, Untouched, Removing, N!ReceiptIsTrue, N!StrangersAreKept, N!UnverifiedIsKept
<1>5. CASE N!Stop /\ \E kept \in SUBSET lease.fds \ {{}} : lease' = [lease EXCEPT !.fds = kept]
  <2>1. PICK kept \in SUBSET lease.fds : lease' = [lease EXCEPT !.fds = kept]
    BY <1>5
  <2>2. /\ lease' \in LeaseStates(lease'.frames) /\ UNCHANGED lease.seeds /\ UNCHANGED lease.data /\ UNCHANGED lease.term
        /\ UNCHANGED lease.unverified /\ UNCHANGED lease.stage
    BY <1>2, <2>1 DEF LeaseStates
  <2>3. OutIsRemembered' /\ Accounted'
    BY <1>1, <1>2, <1>3, <1>5, StillOut DEF N!Stop, N!Settle, Accounted
  <2> QED BY <1>1, <1>2, <1>3, <1>5, <2>2, <2>3, CleaningStops
<1>6. CASE LET clean == call \in {"drain", "discard"} /\ ~lease.term
           IN /\ lease' = [lease EXCEPT !.fds = {}, !.stage = "closed", !.drained = clean]
              /\ IF call \in {"drain", "discard"}
                 THEN /\ cleaned' = clean /\ failed' = (failed \/ ~clean)
                      /\ N!Settle(IF call = "drain" THEN own ELSE "nobody")
                 ELSE N!Settle("nobody") /\ UNCHANGED <<cleaned, failed>>
  <2> DEFINE clean == call \in {"drain", "discard"} /\ ~lease.term
  <2>1. clean \in BOOLEAN /\ (clean => call \in {"drain", "discard"} /\ ~lease.term)
    OBVIOUS
  <2>2. lease' = [lease EXCEPT !.fds = {}, !.stage = "closed", !.drained = clean]
    BY <1>6
  <2>3. cleaned' = clean /\ failed' \in BOOLEAN /\ (failed => failed') /\ N!Settle(IF call = "drain" THEN own ELSE "nobody")
    <3>1. cleaned = FALSE
      BY <1>2 DEF NamespaceInv, NamespaceTypes
    <3>2. CASE call \in {"drain", "discard"}
      BY <1>6, <3>2
    <3>3. CASE call \notin {"drain", "discard"}
      <4>1. N!Settle("nobody") /\ UNCHANGED <<cleaned, failed>>
        BY <1>6, <3>3
      <4> QED BY <1>2, <3>1, <3>3, <4>1
    <3> QED BY <3>2, <3>3
  <2> HIDE DEF clean
  <2> QED BY <1>4, <2>1, <2>2, <2>3
<1> QED BY <1>5, <1>6 DEF N!closeNamespaceDescriptors

LEMMA NamespaceSteps == NamespaceInv /\ [N!Next]_(N!vars) => NamespaceInv'
<1> SUFFICES ASSUME NamespaceInv, [N!Next]_(N!vars) PROVE NamespaceInv'
  OBVIOUS
<1>1. CASE UNCHANGED N!vars
  BY <1>1 DEF N!vars, NamespaceInv, NamespaceTypes, NamespaceControl, SeedsAreRemembered, ChildIsRemembered, DetachedIsGone, UsersAreHoused,
     ReceiptIsFinal, NamespaceWindows, OutIsRemembered, ChildStands, N!Top, N!ReceiptIsTrue, N!StrangersAreKept, N!UnverifiedIsKept
<1>2. CASE N!AcquireProviderNamespace
  BY <1>2, NamespaceAcquired, NamespaceConstructs, NamespaceProjects DEF N!AcquireProviderNamespace
<1>3. CASE N!UseNamespace \/ N!ReplaceCredential \/ N!Scribble \/ N!Meddle \/ N!SubstituteChild
  BY <1>3, NamespaceIsUsed
<1>4. CASE N!DrainTerminal \/ N!RetryConstructionCleanup
  BY <1>4, NamespaceDrainBegins
<1>5. CASE N!drainTerminalEffects
  BY <1>5, NamespaceGates, NamespaceForgetsSeeds, NamespaceRemovesChild, NamespaceIsDone, NamespaceLocates, NamespaceQuarantines,
     NamespaceUnlinks, NamespaceEmpties, NamespaceCloses DEF N!drainTerminalEffects, N!removeNamespaceRoot
<1> QED BY <1>1, <1>2, <1>3, <1>4, <1>5 DEF N!Next

\* What the invariant says of receipts, strangers, leftovers and running processes.
LEMMA NamespaceIsTornDown == NamespaceInv => N!NamespaceIsReclaimed
  BY DEF NamespaceInv, N!NamespaceIsReclaimed, N!LeftoversAreOwned, ReceiptIsFinal, NamespaceControl

-----------------------------------------------------------------------------
(* The provider registry of a run: observations use their namespaces and   *)
(* staging directories while others close the registry.                    *)

ObservationStates ==
  [pc : {"idle", "admitted", "stage", "guard", "run", "validate", "cleanup", "leave", "done"},
   inst : G!Instances \cup {"none"},
   answer : {"none", "succeeded", "process", "workspace_revalidation_failed", "spawn_failed", "staging_violation",
             "file_missing", "file_invalid", "cleanup_failed"},
   proc : {"none", "running", "succeeded", "failed"},
   read : {"none", "good", "empty", "linked"}]

StageStates ==
  [dir : {"absent", "named", "moved", "removed"}, tight : BOOLEAN, entries : SUBSET {"report", "other", "subdirectory"},
   report : {"none", "good", "empty", "linked"}, granted : BOOLEAN, open : BOOLEAN]

CloserStates ==
  [pc : {"idle", "await", "mutex", "drain"}, zero : Nat, ctx : BOOLEAN, failed : SUBSET G!Instances]

RegistryTypes ==
  /\ reg \in {"building", "open", "retained", "gone"}
  /\ left \in {<<"zcode", "grok">>, <<"grok">>, <<"codex">>, <<>>}
  /\ holdings \in [G!Instances -> {"none", "held", "spoiled", "drained"}]
  /\ receipts \subseteq G!Instances /\ runReceipt \subseteq G!Instances /\ active \subseteq G!Instances
  /\ closed \in BOOLEAN /\ epoch \in Nat
  /\ obs \in [Observers -> ObservationStates] /\ stage \in [Observers -> StageStates]
  /\ closer \in [Closers -> CloserStates]

\* A construction has drained and closed nothing.
BuildingIsFresh ==
  reg = "building" => ~closed /\ receipts = {} /\ runReceipt = {} /\ \A i \in G!Instances : holdings[i] \in {"none", "held"}

\* Only an open registry observes.
OnlyOpenObserves ==
  reg # "open" => active = {} /\ \A o \in Observers : obs[o] = G!NoObs /\ stage[o] = G!NoStage

\* A closer waits for the observations that were admitted before it closed the
\* registry, and none is admitted afterwards.
ClosersWait ==
  \A c \in Closers :
    /\ closer[c].pc # "idle" => closed /\ reg \in {"open", "retained"}
    /\ closer[c].pc = "await" => closer[c].zero = epoch
    /\ closer[c].pc \in {"mutex", "drain"} => active = {}

\* The receipts are those of the namespaces drained, and nothing is drained under an observation.
DrainedIsIdle ==
  /\ \A i \in G!Instances : i \in receipts <=> holdings[i] = "drained"
  /\ receipts # {} => active = {} /\ (reg = "open" => closed)
  /\ runReceipt \subseteq receipts

\* What an observation knows at each point.
ObservationAt(b, s) ==
  /\ b.pc = "idle" => b = G!NoObs /\ s = G!NoStage
  /\ b.pc \notin {"idle", "done"} => b.inst # "none"
  /\ b.pc \in {"admitted", "stage"} => s = G!NoStage
  /\ b.pc = "stage" => G!Staged(b.inst)
  /\ b.pc \in {"guard", "run"} => (s.open <=> G!Staged(b.inst))
  /\ b.pc \in {"validate", "cleanup"} => s.open
  /\ b.pc \in {"admitted", "stage", "guard", "run", "validate"} => b.answer = "none"
  /\ b.pc = "validate" => b.proc = "succeeded"
  /\ b.answer = "succeeded" => b.proc = "succeeded"
  /\ b.pc = "cleanup" /\ b.answer = "succeeded" => b.read = "good"
  /\ b.pc = "leave" /\ b.answer = "succeeded" /\ G!Staged(b.inst) => b.read = "good" /\ s.dir = "removed"
  /\ "report" \in s.entries => s.report # "none"

Observations ==
  /\ \A o \in Observers : ObservationAt(obs[o], stage[o])
  /\ \A o \in Observers : G!InFlight(o) => obs[o].inst \in active
  /\ \A o, p \in Observers : G!InFlight(o) /\ G!InFlight(p) /\ obs[o].inst = obs[p].inst => o = p

RegistryInv ==
  /\ RegistryTypes
  /\ BuildingIsFresh
  /\ OnlyOpenObserves
  /\ ClosersWait
  /\ DrainedIsIdle
  /\ Observations
  /\ G!ReceiptIsComplete

LEMMA RegistryBegins == G!Init => RegistryInv
<1> SUFFICES ASSUME G!Init PROVE RegistryInv
  OBVIOUS
<1> USE DEF G!Init, G!NoObs, G!NoStage, G!NoCloser, G!Instances, G!Orders
<1>1. RegistryTypes
  BY DEF RegistryTypes, ObservationStates, StageStates, CloserStates
<1>2. BuildingIsFresh /\ OnlyOpenObserves /\ ClosersWait /\ DrainedIsIdle
  BY DEF BuildingIsFresh, OnlyOpenObserves, ClosersWait, DrainedIsIdle
<1>3. Observations
  BY DEF Observations, ObservationAt, G!InFlight
<1>4. G!ReceiptIsComplete
  BY DEF G!ReceiptIsComplete, G!HeldNow
<1> QED BY <1>1, <1>2, <1>3, <1>4 DEF RegistryInv

\* A construction that is given up has drained what it says, and is gone only
\* when nothing is held.
LEMMA AbandonedIsDrained ==
  ASSUME RegistryInv, reg = "building", NEW spaces \in [G!Instances -> {"none", "held", "spoiled"}],
         G!AbandonConstruction(spaces), UNCHANGED <<G!Closing, G!Observing>>
  PROVE  RegistryInv'
<1>1. PICK emptied \in SUBSET G!HeldNow(spaces) :
        /\ holdings' = [i \in G!Instances |-> IF i \in emptied THEN "drained" ELSE spaces[i]]
        /\ receipts' = emptied
        /\ reg' = IF emptied = G!HeldNow(spaces) /\ emptied # {} THEN "gone" ELSE "retained"
        /\ left' = <<>>
  BY DEF G!AbandonConstruction
<1>2. UNCHANGED <<closed, closer, runReceipt, closes, active, epoch, obs, stage>>
  BY DEF G!Closing, G!Observing
<1>3. emptied \subseteq G!Instances /\ reg' \in {"gone", "retained"}
  BY <1>1 DEF G!HeldNow
<1>4. active = {} /\ ~closed /\ runReceipt = {} /\ \A o \in Observers : obs[o] = G!NoObs /\ stage[o] = G!NoStage
  BY DEF RegistryInv, OnlyOpenObserves, BuildingIsFresh
<1>5. RegistryTypes'
  BY <1>1, <1>2, <1>3 DEF RegistryInv, RegistryTypes
<1>6. BuildingIsFresh' /\ OnlyOpenObserves'
  BY <1>2, <1>3, <1>4 DEF BuildingIsFresh, OnlyOpenObserves
<1>7. ClosersWait'
  BY <1>2, <1>4 DEF RegistryInv, ClosersWait
<1>8. DrainedIsIdle'
  BY <1>1, <1>2, <1>3, <1>4 DEF DrainedIsIdle
<1>9. Observations'
  BY <1>2 DEF RegistryInv, Observations, G!InFlight
<1>10. G!ReceiptIsComplete'
  BY <1>1, <1>2, <1>3, <1>4 DEF G!ReceiptIsComplete, G!HeldNow
<1> QED BY <1>5, <1>6, <1>7, <1>8, <1>9, <1>10 DEF RegistryInv

LEMMA RegistryConstructs == ASSUME RegistryInv, G!ConstructDefinition PROVE RegistryInv'
<1>1. reg = "building" /\ left # <<>> /\ UNCHANGED <<G!Closing, G!Observing>>
  BY DEF G!ConstructDefinition
<1>2. Head(left) \in G!Instances /\ Tail(left) \in {<<"zcode", "grok">>, <<"grok">>, <<"codex">>, <<>>}
  <2>1. left = <<"zcode", "grok">> \/ left = <<"grok">> \/ left = <<"codex">>
    BY <1>1 DEF RegistryInv, RegistryTypes
  <2>2. CASE left = <<"zcode", "grok">>
    BY <2>2 DEF G!Instances
  <2>3. CASE left = <<"grok">>
    BY <2>3 DEF G!Instances
  <2>4. CASE left = <<"codex">>
    BY <2>4 DEF G!Instances
  <2> QED BY <2>1, <2>2, <2>3, <2>4
<1>3. holdings \in [G!Instances -> {"none", "held", "spoiled", "drained"}] /\ \A i \in G!Instances : holdings[i] \in {"none", "held"}
  BY <1>1 DEF RegistryInv, RegistryTypes, BuildingIsFresh
<1>4. CASE holdings' = [holdings EXCEPT ![Head(left)] = "held"] /\ left' = Tail(left) /\ UNCHANGED <<reg, receipts>>
  <2>1. UNCHANGED <<closed, closer, runReceipt, closes, active, epoch, obs, stage, reg, receipts>>
    BY <1>1, <1>4 DEF G!Closing, G!Observing
  <2>2. RegistryTypes'
    BY <1>2, <1>3, <1>4, <2>1 DEF RegistryInv, RegistryTypes
  <2>3. BuildingIsFresh' /\ OnlyOpenObserves' /\ ClosersWait'
    BY <1>1, <1>2, <1>3, <1>4, <2>1 DEF RegistryInv, BuildingIsFresh, OnlyOpenObserves, ClosersWait
  <2>4. DrainedIsIdle'
    BY <1>1, <1>2, <1>3, <1>4, <2>1 DEF RegistryInv, BuildingIsFresh, DrainedIsIdle
  <2>5. Observations'
    BY <2>1 DEF RegistryInv, Observations, G!InFlight
  <2>6. G!ReceiptIsComplete'
    BY <1>1, <2>1 DEF RegistryInv, BuildingIsFresh, G!ReceiptIsComplete
  <2> QED BY <2>2, <2>3, <2>4, <2>5, <2>6 DEF RegistryInv
<1>5. CASE \E kind \in {"none", "spoiled"} : G!AbandonConstruction([holdings EXCEPT ![Head(left)] = kind])
  <2>1. PICK kind \in {"none", "spoiled"} : G!AbandonConstruction([holdings EXCEPT ![Head(left)] = kind])
    BY <1>5
  <2>2. [holdings EXCEPT ![Head(left)] = kind] \in [G!Instances -> {"none", "held", "spoiled"}]
    BY <1>2, <1>3
  <2> QED BY <1>1, <2>1, <2>2, AbandonedIsDrained
<1> QED BY <1>4, <1>5 DEF G!ConstructDefinition

LEMMA RegistryOpens == ASSUME RegistryInv, G!FinishConstruction PROVE RegistryInv'
<1>1. reg = "building" /\ UNCHANGED <<G!Closing, G!Observing>>
  BY DEF G!FinishConstruction
<1>2. holdings \in [G!Instances -> {"none", "held", "spoiled"}]
  BY <1>1 DEF RegistryInv, RegistryTypes, BuildingIsFresh
<1>3. CASE reg' = "open" /\ UNCHANGED <<holdings, receipts, left>>
  <2>1. UNCHANGED <<closed, closer, runReceipt, closes, active, epoch, obs, stage, holdings, receipts, left>>
    BY <1>1, <1>3 DEF G!Closing, G!Observing
  <2>2. RegistryTypes'
    BY <1>3, <2>1 DEF RegistryInv, RegistryTypes
  <2>3. BuildingIsFresh' /\ OnlyOpenObserves' /\ ClosersWait' /\ DrainedIsIdle'
    BY <1>1, <1>3, <2>1 DEF RegistryInv, BuildingIsFresh, OnlyOpenObserves, ClosersWait, DrainedIsIdle
  <2>4. Observations'
    BY <2>1 DEF RegistryInv, Observations, G!InFlight
  <2>5. G!ReceiptIsComplete'
    BY <1>3, <2>1 DEF RegistryInv, G!ReceiptIsComplete
  <2> QED BY <2>2, <2>3, <2>4, <2>5 DEF RegistryInv
<1>4. CASE G!AbandonConstruction(holdings)
  BY <1>1, <1>2, <1>4, AbandonedIsDrained
<1> QED BY <1>3, <1>4 DEF G!FinishConstruction

\* An observation in progress moves on: the registry is open, and only the
\* observation and its stage change.
LEMMA ObservationMoves ==
  ASSUME RegistryInv, NEW o \in Observers, G!InFlight(o),
         UNCHANGED <<G!Building, holdings, receipts, G!Closing, active, epoch>>,
         obs' = [obs EXCEPT ![o] = obs'[o]], stage' = [stage EXCEPT ![o] = stage'[o]],
         obs'[o] \in ObservationStates, stage'[o] \in StageStates,
         obs'[o].inst = obs[o].inst, obs'[o].pc \notin {"idle", "done"},
         ObservationAt(obs'[o], stage'[o])
  PROVE  RegistryInv'
<1>1. UNCHANGED <<reg, left, holdings, receipts, closed, closer, runReceipt, closes, active, epoch>>
  BY DEF G!Building, G!Closing
<1>2. obs \in [Observers -> ObservationStates] /\ stage \in [Observers -> StageStates]
  BY DEF RegistryInv, RegistryTypes
<1>3. reg = "open"
  BY DEF RegistryInv, OnlyOpenObserves, G!InFlight, G!NoObs
<1>4. \A p \in Observers \ {o} : obs'[p] = obs[p] /\ stage'[p] = stage[p]
  BY <1>2
<1>5. RegistryTypes'
  BY <1>1, <1>2 DEF RegistryInv, RegistryTypes
<1>6. BuildingIsFresh' /\ OnlyOpenObserves' /\ ClosersWait' /\ DrainedIsIdle'
  BY <1>1, <1>3 DEF RegistryInv, BuildingIsFresh, OnlyOpenObserves, ClosersWait, DrainedIsIdle
<1>7. Observations'
  <2>1. \A p \in Observers : ObservationAt(obs'[p], stage'[p])
    BY <1>4 DEF RegistryInv, Observations
  <2>2. \A p \in Observers : G!InFlight(p)' => G!InFlight(p) /\ obs'[p].inst = obs[p].inst
    BY <1>4 DEF G!InFlight
  <2>3. \A p \in Observers : G!InFlight(p)' => obs'[p].inst \in active'
    BY <1>1, <2>2 DEF RegistryInv, Observations
  <2>4. \A p, q \in Observers : G!InFlight(p)' /\ G!InFlight(q)' /\ obs'[p].inst = obs'[q].inst => p = q
    BY <2>2 DEF RegistryInv, Observations
  <2> QED BY <2>1, <2>3, <2>4 DEF Observations
<1>8. G!ReceiptIsComplete'
  BY <1>1 DEF RegistryInv, G!ReceiptIsComplete
<1> QED BY <1>5, <1>6, <1>7, <1>8 DEF RegistryInv

LEMMA RegistryAdmits ==
  ASSUME RegistryInv, NEW o \in Observers, NEW i \in G!Instances, G!Admit(o, i) PROVE RegistryInv'
<1>1. reg = "open" /\ obs[o].pc = "idle" /\ UNCHANGED <<reg, left, holdings, receipts, closed, closer, runReceipt, closes, stage>>
  BY DEF G!Admit, G!Building, G!Closing
<1>2. obs \in [Observers -> ObservationStates] /\ stage \in [Observers -> StageStates]
      /\ obs[o] = G!NoObs /\ stage[o] = G!NoStage
  BY <1>1 DEF RegistryInv, RegistryTypes, Observations, ObservationAt
<1>3. CASE obs' = [obs EXCEPT ![o].pc = "done"] /\ UNCHANGED <<active, epoch>>
  <2>1. \A p \in Observers \ {o} : obs'[p] = obs[p]
    BY <1>2, <1>3
  <2>2. obs'[o] = [G!NoObs EXCEPT !.pc = "done"] /\ ~G!InFlight(o)'
    BY <1>2, <1>3 DEF G!InFlight, G!NoObs
  <2>3. ObservationAt(obs'[o], stage'[o])
    BY <1>1, <1>2, <2>2 DEF ObservationAt, G!NoObs, G!NoStage
  <2>4. RegistryTypes'
    BY <1>1, <1>2, <1>3 DEF RegistryInv, RegistryTypes, ObservationStates
  <2>5. BuildingIsFresh' /\ OnlyOpenObserves' /\ ClosersWait' /\ DrainedIsIdle'
    BY <1>1, <1>3 DEF RegistryInv, BuildingIsFresh, OnlyOpenObserves, ClosersWait, DrainedIsIdle
  <2>6. Observations'
    BY <1>1, <1>3, <2>1, <2>2, <2>3 DEF RegistryInv, Observations, G!InFlight
  <2>7. G!ReceiptIsComplete'
    BY <1>1 DEF RegistryInv, G!ReceiptIsComplete
  <2> QED BY <2>4, <2>5, <2>6, <2>7 DEF RegistryInv
<1>4. CASE /\ ~closed /\ i \notin active /\ active' = active \cup {i} /\ epoch' \in {epoch, epoch + 1}
           /\ obs' = [obs EXCEPT ![o].pc = "admitted", ![o].inst = i]
  <2>1. \A p \in Observers \ {o} : obs'[p] = obs[p]
    BY <1>2, <1>4
  <2>2. obs'[o] = [G!NoObs EXCEPT !.pc = "admitted", !.inst = i]
    BY <1>2, <1>4
  <2>3. ObservationAt(obs'[o], stage'[o])
    BY <1>1, <1>2, <2>2 DEF ObservationAt, G!NoObs, G!NoStage, G!Instances
  <2>4. RegistryTypes'
    <3>1. obs'[o] \in ObservationStates /\ obs' = [obs EXCEPT ![o] = obs'[o]]
      BY <1>2, <1>4, <2>2 DEF ObservationStates, G!NoObs
    <3>2. obs' \in [Observers -> ObservationStates]
      BY <1>2, <3>1
    <3> QED BY <1>1, <1>2, <1>4, <3>2 DEF RegistryInv, RegistryTypes
  <2>5. BuildingIsFresh' /\ OnlyOpenObserves' /\ ClosersWait'
    BY <1>1, <1>4 DEF RegistryInv, BuildingIsFresh, OnlyOpenObserves, ClosersWait
  <2>6. DrainedIsIdle'
    BY <1>1, <1>4 DEF RegistryInv, DrainedIsIdle
  <2>7. Observations'
    <3>0. active' = active \cup {i} /\ i \notin active
      BY <1>4
    <3>1. \A p \in Observers : ObservationAt(obs'[p], stage'[p])
      BY <1>1, <2>1, <2>3 DEF RegistryInv, Observations
    <3>2. \A p \in Observers \ {o} : G!InFlight(p)' => G!InFlight(p) /\ obs'[p].inst \in active
      BY <2>1 DEF RegistryInv, Observations, G!InFlight
    <3>3. obs'[o].inst = i
      BY <2>2 DEF G!NoObs
    <3>4. \A p \in Observers : G!InFlight(p)' => obs'[p].inst \in active'
      BY <3>0, <3>2, <3>3
    <3>5. ASSUME NEW p \in Observers, NEW q \in Observers, G!InFlight(p)', G!InFlight(q)', obs'[p].inst = obs'[q].inst
          PROVE  p = q
      <4>1. CASE p # o /\ q # o
        BY <2>1, <3>2, <3>5, <4>1 DEF RegistryInv, Observations
      <4>2. CASE p # o /\ q = o
        BY <1>4, <2>1, <3>2, <3>3, <3>5, <4>2
      <4>3. CASE p = o /\ q # o
        BY <1>4, <2>1, <3>2, <3>3, <3>5, <4>3
      <4> QED BY <4>1, <4>2, <4>3
    <3> QED BY <3>1, <3>4, <3>5 DEF Observations
  <2>8. G!ReceiptIsComplete'
    BY <1>1 DEF RegistryInv, G!ReceiptIsComplete
  <2> QED BY <2>4, <2>5, <2>6, <2>7, <2>8 DEF RegistryInv
<1> QED BY <1>3, <1>4 DEF G!Admit

\* A namespace that fails its validation is spoiled; it was not drained.
LEMMA RegistryValidates ==
  ASSUME RegistryInv, NEW o \in Observers, G!ValidateNamespace(o) PROVE RegistryInv'
<1>1. /\ obs[o].pc = "admitted" /\ G!InFlight(o) /\ obs[o].inst \in G!Instances
      /\ obs[o] \in ObservationStates /\ stage[o] \in StageStates
      /\ UNCHANGED <<reg, left, receipts, closed, closer, runReceipt, closes, active, epoch, stage>>
  BY DEF RegistryInv, RegistryTypes, Observations, ObservationAt, ObservationStates, G!ValidateNamespace, G!InFlight,
     G!Building, G!Closing
<1>2. obs \in [Observers -> ObservationStates] /\ stage \in [Observers -> StageStates]
      /\ ObservationAt(obs[o], stage[o])
  BY DEF RegistryInv, RegistryTypes, Observations
<1>3. /\ obs' = [obs EXCEPT ![o] = obs'[o]] /\ obs'[o] \in ObservationStates /\ obs'[o].inst = obs[o].inst
      /\ obs'[o].pc \in {"stage", "guard", "leave"} /\ ObservationAt(obs'[o], stage'[o])
  <2>1. obs' = [obs EXCEPT ![o] = obs'[o]] /\ obs'[o] \in ObservationStates /\ obs'[o].inst = obs[o].inst
        /\ obs'[o].pc \in {"stage", "guard", "leave"}
    BY <1>1, <1>2 DEF G!ValidateNamespace, G!Fails, ObservationStates
  <2>2. CASE obs' = [obs EXCEPT ![o].pc = IF G!Staged(obs[o].inst) THEN "stage" ELSE "guard"]
    <3>1. obs'[o] = [obs[o] EXCEPT !.pc = IF G!Staged(obs[o].inst) THEN "stage" ELSE "guard"]
      BY <1>2, <2>2
    <3>2. stage'[o] = G!NoStage /\ ~stage'[o].open
      BY <1>1, <1>2 DEF ObservationAt, G!NoStage
    <3>3. obs'[o].pc = (IF G!Staged(obs[o].inst) THEN "stage" ELSE "guard") /\ obs'[o].answer = "none" /\ obs'[o].inst = obs[o].inst
          /\ obs'[o].inst # "none"
      BY <1>1, <1>2, <3>1 DEF ObservationAt, ObservationStates
    <3> QED BY <2>1, <3>2, <3>3 DEF ObservationAt, G!NoStage
  <2>3. CASE G!Fails(o, "workspace_revalidation_failed", "leave")
    <3>1. obs'[o] = [obs[o] EXCEPT !.answer = "workspace_revalidation_failed", !.pc = "leave"]
      BY <1>2, <2>3 DEF G!Fails
    <3>2. stage'[o] = G!NoStage
      BY <1>1, <1>2 DEF ObservationAt
    <3> QED BY <1>1, <1>2, <2>1, <3>1, <3>2 DEF ObservationAt, ObservationStates, G!NoStage
  <2> QED BY <2>1, <2>2, <2>3 DEF G!ValidateNamespace
<1>4. CASE UNCHANGED holdings
  BY <1>1, <1>2, <1>3, <1>4, ObservationMoves DEF G!Building, G!Closing
<1>5. CASE holdings' = [holdings EXCEPT ![obs[o].inst] = "spoiled"]
  <2>1. reg = "open" /\ active # {} /\ receipts = {} /\ holdings \in [G!Instances -> {"none", "held", "spoiled", "drained"}]
    BY <1>1 DEF RegistryInv, RegistryTypes, OnlyOpenObserves, Observations, DrainedIsIdle, G!NoObs
  <2>2. RegistryTypes'
    BY <1>1, <1>2, <1>3, <1>5, <2>1 DEF RegistryInv, RegistryTypes
  <2>3. BuildingIsFresh' /\ OnlyOpenObserves' /\ ClosersWait'
    BY <1>1, <2>1 DEF RegistryInv, BuildingIsFresh, OnlyOpenObserves, ClosersWait
  <2>4. DrainedIsIdle'
    BY <1>1, <1>5, <2>1 DEF RegistryInv, DrainedIsIdle
  <2>5. Observations'
    <3>1. \A p \in Observers \ {o} : obs'[p] = obs[p]
      BY <1>2, <1>3
    <3> QED BY <1>1, <1>3, <3>1 DEF RegistryInv, Observations, G!InFlight
  <2>6. G!ReceiptIsComplete'
    <3>1. runReceipt = {}
      BY <2>1 DEF RegistryInv, DrainedIsIdle
    <3> QED BY <1>1, <2>1, <3>1 DEF G!ReceiptIsComplete
  <2> QED BY <2>2, <2>3, <2>4, <2>5, <2>6 DEF RegistryInv
<1> QED BY <1>4, <1>5 DEF G!ValidateNamespace

\* The steps of an observation between its admission and its end.
LEMMA RegistryObserves ==
  ASSUME RegistryInv, NEW o \in Observers,
         \/ G!acquireStagedOutputLease(o) \/ G!RunInWorkspace(o) \/ G!AuthorizeWriteOnce(o) \/ G!WriteReport(o)
         \/ G!Trespass(o) \/ G!ProviderEnds(o) \/ G!RevalidateAfterExecution(o) \/ G!stagedFileObservation(o)
         \/ G!releaseStagedOutputLease(o)
  PROVE  RegistryInv'
<1>1. UNCHANGED <<G!Building, holdings, receipts, G!Closing, active, epoch>>
  BY DEF G!acquireStagedOutputLease, G!RunInWorkspace, G!AuthorizeWriteOnce, G!WriteReport, G!Trespass, G!ProviderEnds,
     G!RevalidateAfterExecution, G!stagedFileObservation, G!releaseStagedOutputLease
<1>2. G!InFlight(o)
  BY DEF G!acquireStagedOutputLease, G!RunInWorkspace, G!AuthorizeWriteOnce, G!WriteReport, G!Trespass, G!ProviderEnds,
     G!RevalidateAfterExecution, G!stagedFileObservation, G!releaseStagedOutputLease, G!Running, G!InFlight
<1>3. /\ obs \in [Observers -> ObservationStates] /\ stage \in [Observers -> StageStates]
      /\ obs[o] \in ObservationStates /\ stage[o] \in StageStates /\ ObservationAt(obs[o], stage[o])
  BY DEF RegistryInv, RegistryTypes, Observations
<1> DEFINE Moved == /\ obs' = [obs EXCEPT ![o] = obs'[o]] /\ stage' = [stage EXCEPT ![o] = stage'[o]]
                    /\ obs'[o] \in ObservationStates /\ stage'[o] \in StageStates
                    /\ obs'[o].inst = obs[o].inst /\ obs'[o].pc \notin {"idle", "done"}
                    /\ ObservationAt(obs'[o], stage'[o])
<1>4. Moved => RegistryInv'
  BY <1>1, <1>2, ObservationMoves DEF Moved
<1>5. SUFFICES Moved
  BY <1>4
<1> USE <1>3
<1>6. CASE G!acquireStagedOutputLease(o)
  <2>1. obs[o].pc = "stage" /\ stage[o] = G!NoStage /\ G!Staged(obs[o].inst) /\ obs[o].answer = "none"
    BY <1>6 DEF G!acquireStagedOutputLease, ObservationAt
  <2>2. CASE obs' = [obs EXCEPT ![o].answer = "staging_violation", ![o].pc = "leave"]
             /\ (UNCHANGED stage \/ \E there \in {"absent", "named"} : stage' = [stage EXCEPT ![o].dir = there])
    <3>1. obs'[o] = [obs[o] EXCEPT !.answer = "staging_violation", !.pc = "leave"] /\ obs' = [obs EXCEPT ![o] = obs'[o]]
      BY <2>2
    <3>2. /\ stage' = [stage EXCEPT ![o] = stage'[o]] /\ stage'[o] \in StageStates
          /\ stage'[o].entries = {}
      <4>1. CASE UNCHANGED stage
        BY <2>1, <4>1 DEF StageStates, G!NoStage
      <4>2. ASSUME NEW there \in {"absent", "named"}, stage' = [stage EXCEPT ![o].dir = there]
            PROVE  stage' = [stage EXCEPT ![o] = stage'[o]] /\ stage'[o] \in StageStates /\ stage'[o].entries = {}
        <5>1. stage'[o] = [stage[o] EXCEPT !.dir = there] /\ stage' = [stage EXCEPT ![o] = stage'[o]]
          BY <4>2
        <5>2. stage'[o] = [G!NoStage EXCEPT !.dir = there]
          BY <2>1, <5>1
        <5>3. stage'[o] \in StageStates /\ stage'[o].entries = {}
          BY <5>2 DEF StageStates, G!NoStage
        <5> QED BY <5>1, <5>3
      <4> QED BY <2>2, <4>1, <4>2
    <3>3. obs'[o] \in ObservationStates /\ obs'[o].inst = obs[o].inst /\ obs'[o].pc = "leave" /\ obs'[o].answer = "staging_violation"
      BY <3>1 DEF ObservationStates
    <3>4. obs'[o].inst # "none"
      BY <2>1, <3>3 DEF ObservationAt
    <3> QED BY <3>1, <3>2, <3>3, <3>4 DEF ObservationAt
  <2>3. CASE /\ stage' = [stage EXCEPT ![o] = [G!NoStage EXCEPT !.dir = "named", !.open = TRUE]]
             /\ obs' = [obs EXCEPT ![o].pc = "guard"]
    <3>1. obs'[o] = [obs[o] EXCEPT !.pc = "guard"] /\ obs' = [obs EXCEPT ![o] = obs'[o]]
      BY <2>3
    <3>2. /\ stage' = [stage EXCEPT ![o] = stage'[o]] /\ stage'[o] \in StageStates
          /\ stage'[o].entries = {} /\ stage'[o].open
      BY <2>3 DEF StageStates, G!NoStage
    <3>3. obs'[o] \in ObservationStates /\ obs'[o].inst = obs[o].inst /\ obs'[o].pc = "guard" /\ obs'[o].answer = "none"
      BY <2>1, <3>1 DEF ObservationStates
    <3> QED BY <2>1, <3>1, <3>2, <3>3 DEF ObservationAt
  <2> QED BY <1>6, <2>2, <2>3 DEF G!acquireStagedOutputLease, G!createStagedOutputDirectory, G!Fails
<1>7. CASE G!RunInWorkspace(o)
  <2>1. UNCHANGED stage /\ stage' = [stage EXCEPT ![o] = stage'[o]] /\ obs[o].pc = "guard" /\ obs[o].answer = "none"
    BY <1>7 DEF G!RunInWorkspace, ObservationAt
  <2>2. CASE obs' = [obs EXCEPT ![o].pc = "run", ![o].proc = "running"]
    <3>1. obs'[o] = [obs[o] EXCEPT !.pc = "run", !.proc = "running"] /\ obs' = [obs EXCEPT ![o] = obs'[o]]
      BY <2>2
    <3> QED BY <2>1, <3>1 DEF ObservationStates, ObservationAt
  <2>3. ASSUME NEW why \in {"workspace_revalidation_failed", "spawn_failed"}, G!Fails(o, why, G!After(o)) PROVE Moved
    <3>1. obs'[o] = [obs[o] EXCEPT !.answer = why, !.pc = G!After(o)] /\ obs' = [obs EXCEPT ![o] = obs'[o]]
      BY <2>3 DEF G!Fails
    <3> QED BY <2>1, <3>1 DEF ObservationStates, ObservationAt, G!After
  <2> QED BY <1>7, <2>2, <2>3 DEF G!RunInWorkspace
<1>8. CASE G!AuthorizeWriteOnce(o)
  <2>1. CASE stage' = [stage EXCEPT ![o].granted = TRUE] /\ UNCHANGED obs
    <3>1. stage'[o] = [stage[o] EXCEPT !.granted = TRUE] /\ stage' = [stage EXCEPT ![o] = stage'[o]]
      BY <2>1
    <3> QED BY <1>2, <1>8, <2>1, <3>1 DEF G!AuthorizeWriteOnce, G!Running, StageStates, ObservationAt
  <2>2. CASE obs' = [obs EXCEPT ![o].proc = "failed"] /\ UNCHANGED stage
    <3>1. obs'[o] = [obs[o] EXCEPT !.proc = "failed"] /\ obs' = [obs EXCEPT ![o] = obs'[o]]
      BY <2>2
    <3> QED BY <1>8, <2>2, <3>1 DEF G!AuthorizeWriteOnce, G!Running, ObservationStates, ObservationAt
  <2> QED BY <1>8, <2>1, <2>2 DEF G!AuthorizeWriteOnce
<1>9. CASE G!WriteReport(o)
  <2>1. PICK kind \in {"good", "empty", "linked"} :
          stage' = [stage EXCEPT ![o].entries = @ \cup {"report"}, ![o].report = kind]
    BY <1>9 DEF G!WriteReport
  <2>2. stage'[o] = [stage[o] EXCEPT !.entries = @ \cup {"report"}, !.report = kind] /\ stage' = [stage EXCEPT ![o] = stage'[o]]
    BY <2>1
  <2>3. UNCHANGED obs /\ obs[o].pc = "run"
    BY <1>9 DEF G!WriteReport, G!Running
  <2> QED BY <2>2, <2>3 DEF StageStates, ObservationAt
<1>10. CASE G!Trespass(o)
  <2>1. UNCHANGED obs /\ obs[o].pc = "run"
    BY <1>10 DEF G!Trespass, G!Running
  <2>2. ASSUME NEW name \in {"other", "subdirectory"}, stage' = [stage EXCEPT ![o].entries = @ \cup {name}] PROVE Moved
    <3>1. stage'[o] = [stage[o] EXCEPT !.entries = @ \cup {name}] /\ stage' = [stage EXCEPT ![o] = stage'[o]]
      BY <2>2
    <3> QED BY <2>1, <3>1 DEF StageStates, ObservationAt
  <2>3. CASE stage' = [stage EXCEPT ![o].dir = "moved"]
    <3>1. stage'[o] = [stage[o] EXCEPT !.dir = "moved"] /\ stage' = [stage EXCEPT ![o] = stage'[o]]
      BY <2>3
    <3> QED BY <2>1, <3>1 DEF StageStates, ObservationAt
  <2>4. CASE stage' = [stage EXCEPT ![o].tight = FALSE]
    <3>1. stage'[o] = [stage[o] EXCEPT !.tight = FALSE] /\ stage' = [stage EXCEPT ![o] = stage'[o]]
      BY <2>4
    <3> QED BY <2>1, <3>1 DEF StageStates, ObservationAt
  <2> QED BY <1>10, <2>2, <2>3, <2>4 DEF G!Trespass
<1>11. CASE G!ProviderEnds(o)
  <2>1. PICK end \in {"succeeded", "failed"} : obs' = [obs EXCEPT ![o].proc = end]
    BY <1>11 DEF G!ProviderEnds
  <2>2. obs'[o] = [obs[o] EXCEPT !.proc = end] /\ obs' = [obs EXCEPT ![o] = obs'[o]]
    BY <2>1
  <2> QED BY <1>11, <2>2 DEF G!ProviderEnds, G!Running, ObservationStates, ObservationAt
<1>12. CASE G!RevalidateAfterExecution(o)
  <2>1. /\ UNCHANGED stage /\ stage' = [stage EXCEPT ![o] = stage'[o]] /\ obs[o].pc = "run" /\ obs[o].answer = "none"
        /\ (stage[o].open <=> G!Staged(obs[o].inst))
    BY <1>12 DEF G!RevalidateAfterExecution, ObservationAt
  <2>2. ASSUME NEW why \in {"process", "workspace_revalidation_failed"}, G!Fails(o, why, G!After(o)) PROVE Moved
    <3>1. obs'[o] = [obs[o] EXCEPT !.answer = why, !.pc = G!After(o)] /\ obs' = [obs EXCEPT ![o] = obs'[o]]
      BY <2>2 DEF G!Fails
    <3> QED BY <2>1, <3>1 DEF ObservationStates, ObservationAt, G!After
  <2>3. CASE obs[o].proc = "succeeded" /\ stage[o].open /\ obs' = [obs EXCEPT ![o].pc = "validate"]
    <3>1. obs'[o] = [obs[o] EXCEPT !.pc = "validate"] /\ obs' = [obs EXCEPT ![o] = obs'[o]]
      BY <2>3
    <3> QED BY <2>1, <2>3, <3>1 DEF ObservationStates, ObservationAt
  <2>4. CASE obs[o].proc = "succeeded" /\ ~stage[o].open /\ obs' = [obs EXCEPT ![o].answer = "succeeded", ![o].pc = "leave"]
    <3>1. obs'[o] = [obs[o] EXCEPT !.answer = "succeeded", !.pc = "leave"] /\ obs' = [obs EXCEPT ![o] = obs'[o]]
      BY <2>4
    <3> QED BY <2>1, <2>4, <3>1 DEF ObservationStates, ObservationAt
  <2> QED BY <1>12, <2>2, <2>3, <2>4 DEF G!RevalidateAfterExecution
<1>13. CASE G!stagedFileObservation(o)
  <2>1. /\ UNCHANGED stage /\ stage' = [stage EXCEPT ![o] = stage'[o]] /\ obs[o].pc = "validate" /\ stage[o].open
        /\ obs[o].proc = "succeeded"
    BY <1>13 DEF G!stagedFileObservation, ObservationAt
  <2>2. ASSUME NEW why \in {"staging_violation", "file_missing", "file_invalid"}, G!Fails(o, why, "cleanup") PROVE Moved
    <3>1. obs'[o] = [obs[o] EXCEPT !.answer = why, !.pc = "cleanup"] /\ obs' = [obs EXCEPT ![o] = obs'[o]]
      BY <2>2 DEF G!Fails
    <3> QED BY <2>1, <3>1 DEF ObservationStates, ObservationAt
  <2>3. CASE /\ G!StagedVerdict(stage[o]) = "ok"
             /\ obs' = [obs EXCEPT ![o].answer = "succeeded", ![o].read = stage[o].report, ![o].pc = "cleanup"]
    <3>1. obs'[o] = [obs[o] EXCEPT !.answer = "succeeded", !.read = stage[o].report, !.pc = "cleanup"]
          /\ obs' = [obs EXCEPT ![o] = obs'[o]]
      BY <2>3
    <3>2. stage[o].entries = {"report"} /\ stage[o].report = "good"
      BY <2>3 DEF G!StagedVerdict, ObservationAt, StageStates
    <3> QED BY <2>1, <3>1, <3>2 DEF ObservationStates, ObservationAt
  <2>4. G!StagedVerdict(stage[o]) \in {"staging_violation", "file_missing", "file_invalid", "ok"}
    BY DEF G!StagedVerdict
  <2> QED BY <1>13, <2>2, <2>3, <2>4 DEF G!stagedFileObservation
<1>14. CASE G!releaseStagedOutputLease(o)
  <2>1. obs[o].pc = "cleanup" /\ obs[o].inst # "none"
    BY <1>14 DEF G!releaseStagedOutputLease, ObservationAt
  <2>2. CASE /\ stage' = [stage EXCEPT ![o].dir = "removed", ![o].entries = {}, ![o].open = FALSE]
             /\ obs' = [obs EXCEPT ![o].pc = "leave"]
    <3>1. obs'[o] = [obs[o] EXCEPT !.pc = "leave"] /\ obs' = [obs EXCEPT ![o] = obs'[o]]
      BY <2>2
    <3>2. stage'[o] = [stage[o] EXCEPT !.dir = "removed", !.entries = {}, !.open = FALSE] /\ stage' = [stage EXCEPT ![o] = stage'[o]]
      BY <2>2
    <3> QED BY <2>1, <3>1, <3>2 DEF ObservationStates, StageStates, ObservationAt
  <2>3. ASSUME NEW rest \in {stage[o].entries, G!CleanedEntries(stage[o])},
               stage' = [stage EXCEPT ![o].entries = rest, ![o].open = FALSE],
               IF obs[o].answer = "succeeded" THEN G!Fails(o, "cleanup_failed", "leave") ELSE obs' = [obs EXCEPT ![o].pc = "leave"]
        PROVE  Moved
    <3>1. rest \subseteq stage[o].entries
      BY DEF G!CleanedEntries
    <3>2. stage'[o] = [stage[o] EXCEPT !.entries = rest, !.open = FALSE] /\ stage' = [stage EXCEPT ![o] = stage'[o]]
      BY <2>3
    <3>3. stage'[o] \in StageStates /\ ("report" \in stage'[o].entries => stage'[o].report # "none")
      BY <3>1, <3>2 DEF StageStates, ObservationAt
    <3>4. CASE obs[o].answer = "succeeded"
      <4>1. obs'[o] = [obs[o] EXCEPT !.answer = "cleanup_failed", !.pc = "leave"] /\ obs' = [obs EXCEPT ![o] = obs'[o]]
        BY <2>3, <3>4 DEF G!Fails
      <4> QED BY <2>1, <3>2, <3>3, <4>1 DEF ObservationStates, ObservationAt
    <3>5. CASE obs[o].answer # "succeeded"
      <4>1. obs'[o] = [obs[o] EXCEPT !.pc = "leave"] /\ obs' = [obs EXCEPT ![o] = obs'[o]]
        BY <2>3, <3>5
      <4> QED BY <2>1, <3>2, <3>3, <3>5, <4>1 DEF ObservationStates, ObservationAt
    <3> QED BY <3>4, <3>5
  <2> QED BY <1>14, <2>2, <2>3 DEF G!releaseStagedOutputLease
<1> QED BY <1>6, <1>7, <1>8, <1>9, <1>10, <1>11, <1>12, <1>13, <1>14

LEMMA RegistryObserved == ASSUME RegistryInv, NEW o \in Observers, G!observeDone(o) PROVE RegistryInv'
<1>1. /\ obs[o].pc = "leave" /\ G!InFlight(o) /\ active' = active \ {obs[o].inst}
      /\ UNCHANGED <<reg, left, holdings, receipts, closed, closer, runReceipt, closes, epoch>>
  BY DEF G!observeDone, G!InFlight, G!Building, G!Closing
<1>2. obs \in [Observers -> ObservationStates] /\ stage \in [Observers -> StageStates] /\ reg = "open"
  BY <1>1 DEF RegistryInv, RegistryTypes, OnlyOpenObserves, G!NoObs
<1>3. obs[o] \in ObservationStates /\ stage[o] \in StageStates
  BY <1>2
<1>4. /\ obs'[o] = [G!NoObs EXCEPT !.pc = "done", !.inst = obs[o].inst] /\ stage'[o] = [G!NoStage EXCEPT !.dir = stage[o].dir]
      /\ obs' = [obs EXCEPT ![o] = obs'[o]] /\ stage' = [stage EXCEPT ![o] = stage'[o]]
      /\ \A p \in Observers \ {o} : obs'[p] = obs[p] /\ stage'[p] = stage[p]
  BY <1>2 DEF G!observeDone
<1>5. obs'[o] \in ObservationStates /\ stage'[o] \in StageStates /\ ObservationAt(obs'[o], stage'[o]) /\ ~G!InFlight(o)'
  BY <1>3, <1>4 DEF G!NoObs, G!NoStage, ObservationStates, StageStates, ObservationAt, G!InFlight
<1>6. RegistryTypes'
  BY <1>1, <1>2, <1>4, <1>5 DEF RegistryInv, RegistryTypes
<1>7. BuildingIsFresh' /\ OnlyOpenObserves' /\ ClosersWait'
  BY <1>1, <1>2 DEF RegistryInv, BuildingIsFresh, OnlyOpenObserves, ClosersWait
<1>8. DrainedIsIdle'
  BY <1>1 DEF RegistryInv, DrainedIsIdle
<1>9. Observations'
  <2>1. \A p \in Observers : ObservationAt(obs'[p], stage'[p])
    BY <1>4, <1>5 DEF RegistryInv, Observations
  <2>2. \A p \in Observers : G!InFlight(p)' => p # o /\ G!InFlight(p) /\ obs'[p] = obs[p]
    BY <1>4, <1>5 DEF G!InFlight
  <2>3. \A p \in Observers : G!InFlight(p)' => obs'[p].inst \in active'
    BY <1>1, <2>2 DEF RegistryInv, Observations
  <2>4. \A p, q \in Observers : G!InFlight(p)' /\ G!InFlight(q)' /\ obs'[p].inst = obs'[q].inst => p = q
    BY <2>2 DEF RegistryInv, Observations
  <2> QED BY <2>1, <2>3, <2>4 DEF Observations
<1>10. G!ReceiptIsComplete'
  BY <1>1 DEF RegistryInv, G!ReceiptIsComplete
<1> QED BY <1>6, <1>7, <1>8, <1>9, <1>10 DEF RegistryInv

\* A closer moves on: only it, the closing of the registry and the run receipt change.
LEMMA CloserMoves ==
  ASSUME RegistryInv, UNCHANGED <<G!Building, holdings, receipts, G!Observing>>, reg \in {"open", "retained"},
         closed => closed', closed' \in BOOLEAN, NEW c \in Closers, NEW now \in CloserStates,
         closer' = [closer EXCEPT ![c] = now],
         now.pc # "idle" => closed', now.pc = "await" => now.zero = epoch, now.pc \in {"mutex", "drain"} => active = {},
         runReceipt' \subseteq receipts, (runReceipt' # {} => \A i \in G!Instances : holdings[i] # "none" => i \in runReceipt')
  PROVE  RegistryInv'
<1>1. UNCHANGED <<reg, left, active, epoch, obs, stage>>
  BY DEF G!Building, G!Observing
<1>2. closer \in [Closers -> CloserStates]
  BY DEF RegistryInv, RegistryTypes
<1>3. \A d \in Closers : closer'[d] = IF d = c THEN now ELSE closer[d]
  BY <1>2
<1>4. RegistryTypes'
  BY <1>1, <1>2 DEF RegistryInv, RegistryTypes
<1>5. BuildingIsFresh' /\ OnlyOpenObserves' /\ DrainedIsIdle'
  BY <1>1 DEF RegistryInv, BuildingIsFresh, OnlyOpenObserves, DrainedIsIdle
<1>6. ClosersWait'
  BY <1>1, <1>3 DEF RegistryInv, ClosersWait
<1>7. Observations'
  BY <1>1 DEF RegistryInv, Observations, G!InFlight
<1>8. G!ReceiptIsComplete'
  BY <1>1 DEF RegistryInv, G!ReceiptIsComplete
<1> QED BY <1>4, <1>5, <1>6, <1>7, <1>8 DEF RegistryInv

LEMMA RegistryCloses ==
  ASSUME RegistryInv, NEW c \in Closers,
         G!Close(c) \/ G!CancelClose(c) \/ G!AwaitIdle(c) \/ G!AcquireCloseMu(c) \/ G!FinishDrain(c)
  PROVE  RegistryInv'
<1>1. UNCHANGED <<G!Building, holdings, receipts, G!Observing>>
  BY DEF G!Close, G!CancelClose, G!AwaitIdle, G!AcquireCloseMu, G!FinishDrain
<1>2. /\ closer \in [Closers -> CloserStates] /\ closer[c] \in CloserStates /\ epoch \in Nat /\ receipts \subseteq G!Instances
      /\ (closer[c].pc # "idle" => closed /\ reg \in {"open", "retained"})
      /\ (closer[c].pc = "await" => closer[c].zero = epoch)
      /\ (closer[c].pc \in {"mutex", "drain"} => active = {})
  BY DEF RegistryInv, RegistryTypes, ClosersWait
<1>3. runReceipt \subseteq receipts /\ (runReceipt # {} => \A i \in G!Instances : holdings[i] # "none" => i \in runReceipt)
  BY DEF RegistryInv, DrainedIsIdle, G!ReceiptIsComplete
<1>4. G!Answer(c) \in CloserStates /\ G!Answer(c).pc = "idle"
  BY <1>2 DEF G!Answer, G!NoCloser, CloserStates
<1>5. CASE G!Close(c)
  <2> DEFINE now == [G!NoCloser EXCEPT !.pc = "await", !.zero = epoch]
  <2>1. now \in CloserStates /\ now.pc = "await" /\ now.zero = epoch
    BY <1>2 DEF G!NoCloser, CloserStates
  <2>2. closed' = TRUE /\ runReceipt' = runReceipt /\ reg \in {"open", "retained"} /\ closer' = [closer EXCEPT ![c] = now]
    BY <1>5 DEF G!Close
  <2> HIDE DEF now
  <2> QED BY <1>1, <1>3, <2>1, <2>2, CloserMoves
<1>6. CASE G!CancelClose(c)
  <2> DEFINE now == [closer[c] EXCEPT !.ctx = FALSE]
  <2>1. now \in CloserStates /\ now.pc = closer[c].pc /\ now.zero = closer[c].zero
    BY <1>2 DEF CloserStates
  <2>2. UNCHANGED <<closed, runReceipt>> /\ closer[c].pc # "idle" /\ closer' = [closer EXCEPT ![c] = now]
    BY <1>6 DEF G!CancelClose
  <2> HIDE DEF now
  <2> QED BY <1>1, <1>2, <1>3, <2>1, <2>2, CloserMoves
<1>7. CASE G!AwaitIdle(c)
  <2>1. UNCHANGED <<closed, runReceipt>> /\ closer[c].pc = "await" /\ closed /\ reg \in {"open", "retained"}
    BY <1>2, <1>7 DEF G!AwaitIdle
  <2>2. CASE G!ZeroClosed(closer[c].zero) /\ G!Goto(c, "mutex")
    <3> DEFINE now == [closer[c] EXCEPT !.pc = "mutex"]
    <3>1. now \in CloserStates /\ now.pc = "mutex" /\ closer' = [closer EXCEPT ![c] = now]
      BY <1>2, <2>2 DEF CloserStates, G!Goto
    <3>2. active = {}
      BY <1>2, <2>1, <2>2 DEF G!ZeroClosed
    <3> HIDE DEF now
    <3> QED BY <1>1, <1>3, <2>1, <3>1, <3>2, CloserMoves
  <2>3. CASE closer' = [closer EXCEPT ![c] = G!Answer(c)]
    BY <1>1, <1>3, <1>4, <2>1, <2>3, CloserMoves
  <2> QED BY <1>7, <2>2, <2>3 DEF G!AwaitIdle
<1>8. CASE G!AcquireCloseMu(c)
  <2>1. UNCHANGED <<closed, runReceipt>> /\ closed /\ reg \in {"open", "retained"} /\ active = {}
    BY <1>2, <1>8 DEF G!AcquireCloseMu
  <2>2. CASE G!Goto(c, "drain")
    <3> DEFINE now == [closer[c] EXCEPT !.pc = "drain"]
    <3>1. now \in CloserStates /\ now.pc = "drain" /\ closer' = [closer EXCEPT ![c] = now]
      BY <1>2, <2>2 DEF CloserStates, G!Goto
    <3> HIDE DEF now
    <3> QED BY <1>1, <1>3, <2>1, <3>1, CloserMoves
  <2>3. CASE closer' = [closer EXCEPT ![c] = G!Answer(c)]
    BY <1>1, <1>3, <1>4, <2>1, <2>3, CloserMoves
  <2> QED BY <1>8, <2>2, <2>3 DEF G!AcquireCloseMu
<1>9. CASE G!FinishDrain(c)
  <2>1. UNCHANGED closed /\ closed /\ reg \in {"open", "retained"} /\ closer' = [closer EXCEPT ![c] = G!Answer(c)]
    BY <1>2, <1>9 DEF G!FinishDrain
  <2>2. runReceipt' \subseteq receipts /\ (runReceipt' # {} => \A i \in G!Instances : holdings[i] # "none" => i \in runReceipt')
    BY <1>3, <1>9 DEF G!FinishDrain, G!Undrained
  <2> QED BY <1>1, <1>4, <2>1, <2>2, CloserMoves
<1> QED BY <1>5, <1>6, <1>7, <1>8, <1>9

\* A drained namespace has no observation, and its staging directories go with it.
LEMMA RegistryDrains == ASSUME RegistryInv, NEW c \in Closers, G!DrainNamespace(c) PROVE RegistryInv'
<1>1. UNCHANGED <<reg, left, active, epoch, obs, closed, runReceipt, closes>> /\ closer[c].pc = "drain"
  BY DEF G!DrainNamespace, G!Building
<1>2. /\ closer \in [Closers -> CloserStates] /\ closer[c] \in CloserStates /\ closed /\ reg \in {"open", "retained"}
      /\ active = {} /\ obs \in [Observers -> ObservationStates] /\ stage \in [Observers -> StageStates]
      /\ holdings \in [G!Instances -> {"none", "held", "spoiled", "drained"}]
  BY <1>1 DEF RegistryInv, RegistryTypes, ClosersWait
<1>3. \A o \in Observers : ~G!InFlight(o)
  BY <1>2 DEF RegistryInv, Observations
<1>4. PICK i \in G!Undrained \ closer[c].failed :
        \/ /\ holdings' = [holdings EXCEPT ![i] = "drained"] /\ receipts' = receipts \cup {i}
           /\ stage' = [o \in Observers |-> IF obs[o].inst = i THEN [stage[o] EXCEPT !.dir = "removed", !.entries = {}] ELSE stage[o]]
           /\ UNCHANGED closer
        \/ closer' = [closer EXCEPT ![c].failed = @ \cup {i}] /\ UNCHANGED <<holdings, receipts, stage>>
  BY DEF G!DrainNamespace
<1>5. i \in G!Instances /\ holdings[i] # "none" /\ i \notin receipts
  BY DEF G!Undrained
<1>6. CASE /\ holdings' = [holdings EXCEPT ![i] = "drained"] /\ receipts' = receipts \cup {i}
           /\ stage' = [o \in Observers |-> IF obs[o].inst = i THEN [stage[o] EXCEPT !.dir = "removed", !.entries = {}] ELSE stage[o]]
           /\ UNCHANGED closer
  <2>1. stage' \in [Observers -> StageStates]
    <3>1. \A o \in Observers : [stage[o] EXCEPT !.dir = "removed", !.entries = {}] \in StageStates /\ stage[o] \in StageStates
      BY <1>2 DEF StageStates
    <3> QED BY <1>6, <3>1
  <2>2. RegistryTypes'
    BY <1>1, <1>2, <1>5, <1>6, <2>1 DEF RegistryInv, RegistryTypes
  <2>3. BuildingIsFresh' /\ ClosersWait'
    BY <1>1, <1>2, <1>6 DEF RegistryInv, BuildingIsFresh, ClosersWait
  <2>4. OnlyOpenObserves'
    <3>1. G!NoObs.inst # i
      BY <1>5 DEF G!NoObs, G!Instances
    <3>2. \A o \in Observers : obs[o] = G!NoObs => stage'[o] = stage[o]
      BY <1>6, <3>1
    <3> QED BY <1>1, <3>2 DEF RegistryInv, OnlyOpenObserves
  <2>5. DrainedIsIdle'
    BY <1>1, <1>2, <1>5, <1>6 DEF RegistryInv, DrainedIsIdle
  <2>6. Observations'
    <3>1. ASSUME NEW o \in Observers PROVE ObservationAt(obs'[o], stage'[o])
      <4>1. ObservationAt(obs[o], stage[o]) /\ obs[o].pc \in {"idle", "done"} /\ stage[o] \in StageStates
        BY <1>2, <1>3 DEF RegistryInv, Observations, G!InFlight
      <4>2. CASE obs[o].inst # i
        BY <1>1, <1>6, <4>1, <4>2
      <4>3. CASE obs[o].inst = i
        <5>1. stage'[o] = [stage[o] EXCEPT !.dir = "removed", !.entries = {}]
          BY <1>6, <4>3
        <5>2. obs[o].pc = "done"
          BY <1>5, <4>1, <4>3 DEF ObservationAt, G!NoObs, G!Instances
        <5> QED BY <1>1, <4>1, <5>1, <5>2 DEF ObservationAt, StageStates
      <4> QED BY <4>2, <4>3
    <3> QED BY <1>1, <1>3, <3>1 DEF Observations, G!InFlight
  <2>7. G!ReceiptIsComplete'
    <3>1. runReceipt = {}
      BY <1>5 DEF RegistryInv, DrainedIsIdle, G!ReceiptIsComplete
    <3>2. \A j \in receipts' : holdings'[j] = "drained"
      BY <1>2, <1>5, <1>6 DEF RegistryInv, RegistryTypes, G!ReceiptIsComplete
    <3> QED BY <1>1, <1>2, <3>1, <3>2 DEF G!ReceiptIsComplete
  <2> QED BY <2>2, <2>3, <2>4, <2>5, <2>6, <2>7 DEF RegistryInv
<1>7. CASE closer' = [closer EXCEPT ![c].failed = @ \cup {i}] /\ UNCHANGED <<holdings, receipts, stage>>
  <2> DEFINE now == [closer[c] EXCEPT !.failed = @ \cup {i}]
  <2>1. now \in CloserStates /\ now.pc = "drain" /\ closer' = [closer EXCEPT ![c] = now]
    BY <1>1, <1>2, <1>5, <1>7 DEF CloserStates
  <2>2. runReceipt \subseteq receipts /\ (runReceipt # {} => \A j \in G!Instances : holdings[j] # "none" => j \in runReceipt)
    BY DEF RegistryInv, DrainedIsIdle, G!ReceiptIsComplete
  <2>3. UNCHANGED <<G!Building, holdings, receipts, G!Observing>>
    BY <1>1, <1>7 DEF G!Building, G!Observing
  <2> HIDE DEF now
  <2> QED BY <1>1, <1>2, <2>1, <2>2, <2>3, CloserMoves
<1> QED BY <1>4, <1>6, <1>7

LEMMA RegistrySteps == RegistryInv /\ [G!Next]_(G!vars) => RegistryInv'
<1> SUFFICES ASSUME RegistryInv, [G!Next]_(G!vars) PROVE RegistryInv'
  OBVIOUS
<1>1. CASE UNCHANGED G!vars
  BY <1>1 DEF G!vars, RegistryInv, RegistryTypes, BuildingIsFresh, OnlyOpenObserves, ClosersWait, DrainedIsIdle, Observations,
     G!InFlight, G!ReceiptIsComplete
<1>2. CASE G!ConstructDefinition \/ G!FinishConstruction
  BY <1>2, RegistryConstructs, RegistryOpens
<1>3. ASSUME NEW o \in Observers,
             \/ \E i \in G!Instances : G!Admit(o, i)
             \/ G!ValidateNamespace(o) \/ G!acquireStagedOutputLease(o) \/ G!RunInWorkspace(o)
             \/ G!AuthorizeWriteOnce(o) \/ G!WriteReport(o) \/ G!Trespass(o) \/ G!ProviderEnds(o)
             \/ G!RevalidateAfterExecution(o) \/ G!stagedFileObservation(o)
             \/ G!releaseStagedOutputLease(o) \/ G!observeDone(o)
      PROVE  RegistryInv'
  BY <1>3, RegistryAdmits, RegistryValidates, RegistryObserves, RegistryObserved
<1>4. ASSUME NEW c \in Closers,
             G!Close(c) \/ G!CancelClose(c) \/ G!AwaitIdle(c) \/ G!AcquireCloseMu(c) \/ G!DrainNamespace(c) \/ G!FinishDrain(c)
      PROVE  RegistryInv'
  BY <1>4, RegistryCloses, RegistryDrains
<1> QED BY <1>1, <1>2, <1>3, <1>4 DEF G!Next

\* A drain waits for every observation admitted, and a run receipt is complete.
LEMMA RegistryIsReclaimed == RegistryInv => G!DrainIsExclusive /\ G!ReceiptIsComplete /\ G!StagedSuccessIsClean
<1> SUFFICES ASSUME RegistryInv PROVE G!DrainIsExclusive /\ G!ReceiptIsComplete /\ G!StagedSuccessIsClean
  OBVIOUS
<1>1. G!DrainIsExclusive
  <2>1. ASSUME NEW o \in Observers, G!InFlight(o)
        PROVE  holdings[obs[o].inst] # "drained" /\ \A c \in Closers : closer[c].pc # "drain"
    <3>1. obs[o].inst \in active /\ active \subseteq G!Instances
      BY <2>1 DEF RegistryInv, RegistryTypes, Observations
    <3> QED BY <3>1 DEF RegistryInv, DrainedIsIdle, ClosersWait
  <2> QED BY <2>1 DEF RegistryInv, Observations, G!DrainIsExclusive
<1>2. G!StagedSuccessIsClean
  BY DEF RegistryInv, Observations, ObservationAt, G!StagedSuccessIsClean
<1> QED BY <1>1, <1>2 DEF RegistryInv

(* A namespace, from its acquisition to its terminal receipt, whatever is  *)
(* moved, planted or broken meanwhile, in the middle of a removal too. A   *)
(* receipt means that its directory is gone and its credentials were wiped,*)
(* unless someone renamed between the path read from a descriptor and the  *)
(* look at that path. A stranger's directory is removed only if it took the*)
(* name between a look and the rmdir that trusted it, and then the cleanup *)
(* says that it failed; one is adopted only if it came before the root was *)
(* open. What is left between calls has an owner, a failure that says so or*)
(* such a rename behind it, and a process that may still run keeps its     *)
(* directory (acquireProviderNamespace(), drainTerminalEffects(),          *)
(* removeNamespaceRoot(), verifyDescriptorDetached()).                     *)
THEOREM NamespacesAreTornDown == N!Init /\ [][N!Next]_(N!vars) => []N!NamespaceIsReclaimed
<1>1. N!Init => NamespaceInv
  BY NamespaceBegins
<1>2. NamespaceInv /\ [N!Next]_(N!vars) => NamespaceInv'
  BY NamespaceSteps
<1>3. NamespaceInv => N!NamespaceIsReclaimed
  BY NamespaceIsTornDown
<1> QED BY <1>1, <1>2, <1>3, PTL

(* The registry of a run, with any number of observers and closers: no      *)
(* namespace is drained while an observation may use it, a run receipt      *)
(* stands for every namespace the registry acquired, and a success was read *)
(* from the one report of a staging directory that is gone (Observe(),      *)
(* Close(), newRegistry()).                                                 *)
THEOREM RegistriesAreReclaimed ==
  G!Init /\ [][G!Next]_(G!vars) => [](G!DrainIsExclusive /\ G!ReceiptIsComplete /\ G!StagedSuccessIsClean)
<1>1. G!Init => RegistryInv
  BY RegistryBegins
<1>2. RegistryInv /\ [G!Next]_(G!vars) => RegistryInv'
  BY RegistrySteps
<1>3. RegistryInv => G!DrainIsExclusive /\ G!ReceiptIsComplete /\ G!StagedSuccessIsClean
  BY RegistryIsReclaimed
<1> QED BY <1>1, <1>2, <1>3, PTL
=============================================================================
