----------------------------- MODULE InitConfig -----------------------------
(***************************************************************************)
(* mulgae init and init --refresh-local: InitializeProject                 *)
(* (internal/app/init/service.go) over the two-file install of             *)
(* config_install_darwin.go and the source of source_darwin.go.  Several   *)
(* commands may race in one project without a lock; every step can fail,   *)
(* every command can be killed, a user can remove a file and the machine   *)
(* can lose power.  A file is the set of its content (empty or one value)  *)
(* now and on the disk; a content is the command that wrote it, and "git"  *)
(* is a config.yaml that came with the checkout.                           *)
(***************************************************************************)
EXTENDS Naturals, FiniteSets

CONSTANTS
  Inits,      \* the commands
  MaxUpsets   \* failures, kills, removals and power losses

VARIABLES
  step,      \* where each command is
  refresh,   \* whether it is a refresh of local.yaml
  saw,       \* the pair its first look found
  dir,       \* .mulgae: "none", "volatile" (root not synced) or "there"
  made,      \* the command created .mulgae
  config, local,  \* the two files
  put,       \* the names each command renamed into place
  verdict,   \* its outcome: write state, destination state, code
  upsets

vars == <<step, refresh, saw, dir, made, config, local, put, verdict, upsets>>

Empty == [now |-> {}, disk |-> {}]
Same(v) == [now |-> v, disk |-> v]

(* A command that reports no destination state or no code.                 *)
NoCode == ""
Running == <<"running", NoCode, NoCode>>

Init ==
  /\ step = [i \in Inits |-> "begin"]
  /\ refresh \in [Inits -> BOOLEAN]
  /\ saw = [i \in Inits |-> <<{}, {}>>]
  /\ \/ dir = "none" /\ config = Empty
     \/ dir = "there" /\ config \in {Empty, Same({"git"})}
  /\ local = Empty
  /\ made = [i \in Inits |-> FALSE]
  /\ put = [i \in Inits |-> {}]
  /\ verdict = [i \in Inits |-> Running]
  /\ upsets = 0

Calm  == UNCHANGED upsets
Upset == upsets < MaxUpsets /\ upsets' = upsets + 1

Goto(i, next) == step' = [step EXCEPT ![i] = next] /\ UNCHANGED verdict

Returns(i, state, destination, code) ==
  /\ step' = [step EXCEPT ![i] = "done"]
  /\ verdict' = [verdict EXCEPT ![i] = <<state, destination, code>>]

(* readLocalConfig: local.yaml is looked at only beside a config.yaml.     *)
Seen == <<config.now, IF config.now = {} THEN {} ELSE local.now>>
Present(pair) == pair[2] # {}
ProjectPresent(pair) == pair[1] # {}

LocalityCodes == {"config_locality_drifted", "target_private_config_forbidden", "target_private_namespace_forbidden"}

(* OpenConfigSource and the early returns before anything was attempted.   *)
Begin(i) ==
  /\ step[i] = "begin"
  /\ saw' = [saw EXCEPT ![i] = Seen]
  /\ \/ Present(Seen) /\ ~refresh[i] /\ Returns(i, "existing_untouched", "present", "init_destination_exists")
     \/ refresh[i] /\ ~ProjectPresent(Seen) /\ Returns(i, "not_attempted", "not_observed", "init_local_missing")
     \/ /\ IF refresh[i] THEN ProjectPresent(Seen) ELSE ~Present(Seen)
        /\ Goto(i, "attest")
  /\ UNCHANGED <<refresh, dir, made, config, local, put, upsets>>

(* Attestation, discovery, encoding and prevalidation, with                *)
(* revalidateLocality before, between and after them.                      *)
Attest(i) ==
  /\ step[i] = "attest"
  /\ \/ /\ Seen # saw[i] /\ Calm
        /\ Returns(i, "not_attempted", "not_observed", "config_locality_drifted")
     \/ Seen = saw[i] /\ Goto(i, "prepare") /\ Calm
     \/ Seen = saw[i] /\ Upset /\ \E code \in LocalityCodes : Returns(i, "not_attempted", "absent", code)
  /\ UNCHANGED <<refresh, saw, dir, made, config, local, put>>

-----------------------------------------------------------------------------
(* The outcomes after the first mutation.  MutationOutcomeSpecs lists them *)
(* so that each can be validated before anything is written.               *)
Unconfirmed(created) == IF created THEN "private_dir_created_unconfirmed" ELSE "private_dir_existing_unconfirmed"
UnconfirmedCode(created) ==
  IF created THEN "init_private_dir_commit_unconfirmed" ELSE "init_existing_private_dir_commit_unconfirmed"

AnyDestination == {"absent", "present", "not_observed"}

MutationOutcomes ==
  {<<"committed", "present", NoCode>>, <<"existing_untouched", "present", "init_destination_exists">>,
   <<"project_committed_local_missing", "present", "init_local_write_failed">>,
   <<"not_committed", "not_observed", "init_private_dir_raced">>}
  \cup ({"existing_untouched"} \X {"present"} \X LocalityCodes)
  \cup ({"not_committed"} \X {"absent", "not_observed"} \X {"init_write_failed"})
  \cup (UNION {{Unconfirmed(c)} \X AnyDestination \X ({UnconfirmedCode(c)} \cup LocalityCodes) : c \in BOOLEAN})
  \cup ({"installed_unconfirmed"} \X {"present", "not_observed"} \X ({"init_commit_unconfirmed"} \cup LocalityCodes))

(* mutationFailure: an outcome that is not listed is an internal failure.  *)
MutationFailure(i, state, destination, code) ==
  IF <<state, destination, code>> \in MutationOutcomes
  THEN Returns(i, state, destination, code)
  ELSE Returns(i, state, destination, "init_result_prevalidation_failed")

DirectoryLocalityFailure(i, created, destination, code) ==
  MutationFailure(i, IF destination = "present" THEN "existing_untouched" ELSE Unconfirmed(created), destination, code)

Observed(file) == IF file.now = {} THEN "absent" ELSE "present"

(* PrepareConfigDirectory and prepareFailure.                              *)
Prepare(i) ==
  /\ step[i] = "prepare"
  /\ \/ dir' = "there" /\ made' = [made EXCEPT ![i] = dir = "none"] /\ Goto(i, "reopen") /\ Calm
     \/ /\ Upset /\ UNCHANGED <<dir, made>>            \* cancelled, or not opened
        /\ \/ MutationFailure(i, "not_committed", "not_observed", "init_write_failed")
           \/ dir # "none" /\ config.now # {} /\ MutationFailure(i, "existing_untouched", "present", "init_destination_exists")
           \/ dir # "none" /\ config.now = {} /\ MutationFailure(i, "not_committed", "absent", "init_write_failed")
     \/ /\ Upset /\ dir = "none" /\ dir' = "volatile" /\ UNCHANGED made    \* another mkdir came first
        /\ MutationFailure(i, "not_committed", "not_observed", "init_private_dir_raced")
     \/ /\ Upset /\ dir' = (IF dir = "none" THEN "volatile" ELSE dir)      \* root sync or reattestation failed
        /\ made' = [made EXCEPT ![i] = dir = "none"]
        /\ \E code \in {UnconfirmedCode(dir = "none"), "config_locality_drifted"}, d \in {Observed(config), "not_observed"} :
             MutationFailure(i, Unconfirmed(dir = "none"), d, code)
  /\ UNCHANGED <<refresh, saw, config, local, put>>

(* The second OpenConfigSource, on the prepared directory.                 *)
Reopen(i) ==
  /\ step[i] = "reopen"
  /\ \/ Present(Seen) /\ ~refresh[i] /\ Calm /\ MutationFailure(i, "existing_untouched", "present", "init_destination_exists")
     \/ (refresh[i] \/ ~Present(Seen)) /\ Calm
        /\ Goto(i, IF refresh[i] /\ Present(saw[i]) THEN "replace"
                   ELSE IF ProjectPresent(saw[i]) THEN "local" ELSE "project")
     \/ Upset /\ \E code \in LocalityCodes, d \in {"absent", "not_observed"} : DirectoryLocalityFailure(i, made[i], d, code)
  /\ UNCHANGED <<refresh, saw, dir, made, config, local, put>>

-----------------------------------------------------------------------------
(* A content: who wrote the file.  The directory sync covers both names.   *)
Put(i, name) == put' = [put EXCEPT ![i] = @ \cup {name}]

(* installNamedConfig up to the rename: a collision, a failure before it,  *)
(* or the file in place and still to be synced and verified.  `partial`    *)
(* is InstallConfigBundle's conversion of a local.yaml that was not        *)
(* installed.                                                              *)
InstallFailure(i, file, partial, collision) ==
  IF partial THEN MutationFailure(i, "project_committed_local_missing", "present", "init_local_write_failed")
  ELSE IF collision THEN MutationFailure(i, "existing_untouched", "present", "init_destination_exists")
  ELSE \/ MutationFailure(i, "not_committed", Observed(file), "init_write_failed")
       \/ MutationFailure(i, "not_committed", "not_observed", "init_write_failed")
       \/ DirectoryLocalityFailure(i, made[i], Observed(file), "config_locality_drifted")

InstallProject(i) ==
  /\ step[i] = "project"
  /\ \/ config.now # {} /\ InstallFailure(i, config, FALSE, TRUE) /\ Calm /\ UNCHANGED <<config, put>>
     \/ config.now = {} /\ InstallFailure(i, config, FALSE, FALSE) /\ Upset /\ UNCHANGED <<config, put>>
     \/ /\ config.now = {} /\ config' = [config EXCEPT !.now = {i}]
        /\ Put(i, "config") /\ Goto(i, "syncProject") /\ Calm
  /\ UNCHANGED <<refresh, saw, dir, made, local>>

InstallLocal(i) ==
  LET partial == "config" \in put[i] IN
  /\ step[i] = "local"
  /\ \/ local.now # {} /\ InstallFailure(i, local, partial, TRUE) /\ Calm /\ UNCHANGED <<local, put>>
     \/ local.now = {} /\ InstallFailure(i, local, partial, FALSE) /\ Upset /\ UNCHANGED <<local, put>>
     \/ /\ local.now = {} /\ local' = [local EXCEPT !.now = {i}]
        /\ Put(i, "local") /\ Goto(i, "syncLocal") /\ Calm
  /\ UNCHANGED <<refresh, saw, dir, made, config>>

(* replaceNamedConfig: RENAME_SWAP with the file that is there.            *)
ReplaceLocal(i) ==
  /\ step[i] = "replace"
  /\ \/ local.now = {} /\ MutationFailure(i, "not_committed", "absent", "init_write_failed") /\ Calm /\ UNCHANGED <<local, put>>
     \/ local.now # {} /\ Upset /\ UNCHANGED <<local, put>>
        /\ \/ MutationFailure(i, "existing_untouched", "present", "init_destination_exists")
           \/ MutationFailure(i, "not_committed", "not_observed", "init_write_failed")
           \/ DirectoryLocalityFailure(i, made[i], "not_observed", "config_locality_drifted")
     \/ /\ local.now # {} /\ local' = [local EXCEPT !.now = {i}]
        /\ Put(i, "local") /\ Goto(i, "syncLocal") /\ Calm
  /\ UNCHANGED <<refresh, saw, dir, made, config>>

SyncReportingAbsent(i, file, next) ==
  \/ file.now = {i} /\ config' = Same(config.now) /\ local' = Same(local.now) /\ Goto(i, next) /\ Calm
  \/ /\ file.now # {i} /\ Calm /\ UNCHANGED <<config, local>>
     /\ MutationFailure(i, "installed_unconfirmed", Observed(file), "config_locality_drifted")

(* After the rename: verify, sync the directory, verify again.  A file     *)
(* that is absent is reported as not observed.                             *)
Sync(i, file, next) ==
  \/ file.now = {i} /\ config' = Same(config.now) /\ local' = Same(local.now) /\ Goto(i, next) /\ Calm
  \/ /\ file.now = {i} /\ Upset /\ UNCHANGED <<config, local>>
     /\ \E code \in {"init_commit_unconfirmed", "config_locality_drifted"} : MutationFailure(i, "installed_unconfirmed", "present", code)
  \/ /\ file.now # {i} /\ Calm /\ UNCHANGED <<config, local>>
     /\ MutationFailure(i, "installed_unconfirmed", IF file.now = {} THEN "not_observed" ELSE "present", "config_locality_drifted")

SyncProject(i) ==
  /\ step[i] = "syncProject" /\ Sync(i, config, "local")
  /\ UNCHANGED <<refresh, saw, dir, made, put>>

SyncLocal(i) ==
  /\ step[i] = "syncLocal" /\ Sync(i, local, "confirm")
  /\ UNCHANGED <<refresh, saw, dir, made, put>>

(* The final source has to decode to what was admitted: this command's     *)
(* local.yaml beside the config.yaml it was computed from.                 *)
Admitted(i) == <<IF "config" \in put[i] THEN {i} ELSE saw[i][1], {i}>>

Confirm(i) ==
  /\ step[i] = "confirm"
  /\ \/ ProjectPresent(Seen) /\ Present(Seen) /\ Seen = Admitted(i) /\ Calm /\ Returns(i, "committed", "present", NoCode)
     \/ ProjectPresent(Seen) /\ Present(Seen) /\ Seen # Admitted(i) /\ Calm
        /\ MutationFailure(i, "installed_unconfirmed", "present", "config_locality_drifted")
     \/ ~Present(Seen) /\ Calm /\ MutationFailure(i, "installed_unconfirmed", "not_observed", "config_locality_drifted")
     \/ Upset /\ \E code \in LocalityCodes : MutationFailure(i, "installed_unconfirmed", "present", code)
  /\ UNCHANGED <<refresh, saw, dir, made, config, local, put>>

-----------------------------------------------------------------------------
Kill(i) ==
  /\ step[i] \notin {"begin", "done"} /\ Upset
  /\ Returns(i, "killed", NoCode, NoCode)
  /\ UNCHANGED <<refresh, saw, dir, made, config, local, put>>

UserRemoves ==
  /\ Upset
  /\ \/ config.now # {} /\ config' = [config EXCEPT !.now = {}] /\ UNCHANGED local
     \/ local.now # {} /\ local' = [local EXCEPT !.now = {}] /\ UNCHANGED config
  /\ UNCHANGED <<step, refresh, saw, dir, made, put, verdict>>

PowerLoss ==
  /\ Upset
  /\ \/ dir = "volatile" /\ dir' = "none" /\ config' = Empty /\ local' = Empty
     \/ /\ dir' = IF dir = "volatile" THEN "there" ELSE dir
        /\ config' \in {Same(config.now), Same(config.disk)}
        /\ local' \in {Same(local.now), Same(local.disk)}
  /\ step' = [i \in Inits |-> IF step[i] = "begin" THEN "begin" ELSE "done"]
  /\ verdict' = [i \in Inits |-> IF step[i] = "begin" \/ verdict[i] # Running THEN verdict[i] ELSE <<"killed", NoCode, NoCode>>]
  /\ UNCHANGED <<refresh, saw, made, put>>

Next ==
  \/ \E i \in Inits :
       \/ Begin(i) \/ Attest(i) \/ Prepare(i) \/ Reopen(i) \/ InstallProject(i) \/ InstallLocal(i) \/ ReplaceLocal(i)
       \/ SyncProject(i) \/ SyncLocal(i) \/ Confirm(i) \/ Kill(i)
  \/ UserRemoves \/ PowerLoss

Spec == Init /\ [][Next]_vars

-----------------------------------------------------------------------------
TypeOK ==
  /\ step \in [Inits -> {"begin", "attest", "prepare", "reopen", "project", "syncProject", "local", "replace",
                         "syncLocal", "confirm", "done"}]
  /\ dir \in {"none", "volatile", "there"}
  /\ \A f \in {config, local} : Cardinality(f.now) <= 1 /\ Cardinality(f.disk) <= 1
  /\ put \in [Inits -> SUBSET {"config", "local"}]
  /\ upsets \in 0 .. MaxUpsets

(* No path through the install produces an outcome that was not validated  *)
(* before the first mutation ("unlisted post-mutation outcome").           *)
EveryOutcomeListed == \A i \in Inits : verdict[i][3] # "init_result_prevalidation_failed"

(* The write state a command reports is what it did to the files, whatever *)
(* raced with it: nothing installed, only config.yaml, or its last file.   *)
WriteStateIsTrue ==
  \A i \in Inits :
    /\ verdict[i][1] \in {"not_attempted", "not_committed", "existing_untouched", Unconfirmed(TRUE), Unconfirmed(FALSE)}
         => put[i] = {}
    /\ verdict[i][1] = "project_committed_local_missing" => put[i] = {"config"}
    /\ verdict[i][1] = "installed_unconfirmed" => put[i] # {}
    /\ verdict[i][1] = "committed" => "local" \in put[i]

(* What a committed command wrote is on the disk together with a           *)
(* config.yaml, so a power loss cannot undo it or leave half of it.        *)
CommittedIsDurable ==
  \A i \in Inits : verdict[i][1] = "committed" /\ i \in local.now =>
    dir = "there" /\ i \in local.disk /\ (config.now \cap Admitted(i)[1]) \subseteq config.disk

(* Two commands never both report a committed initialization: the second   *)
(* one finds the first one's files.  Only a refresh may commit after it.   *)
OneInitCommits ==
  \A i, j \in Inits : verdict[i][1] = "committed" /\ verdict[j][1] = "committed" /\ i # j
                      /\ ~refresh[i] /\ ~refresh[j] => upsets > 0

=============================================================================
