------------------------------- MODULE Export -------------------------------
(***************************************************************************)
(* Redacted export: ExportRedactedRun (internal/app/export/service.go) and *)
(* the recoverable pair install of ExportInstaller                         *)
(* (internal/adapters/filesystem/exportinstaller_darwin.go).  A bundle is  *)
(* a function of the review and its path is the caller's; the manifest     *)
(* beside it carries a fresh identity and time and binds the bundle's      *)
(* digest.  Bundles of one stem with different extensions share a manifest *)
(* path.  Processes can be killed and the machine can lose power; a file   *)
(* is what a reader sees now and what the disk would keep, each the set of *)
(* its content: empty or one value.                                        *)
(***************************************************************************)
EXTENDS Naturals

CONSTANTS
  Exporters,   \* concurrent export commands
  Requests,    \* records [path, bundle, id]
  MaxStarts,   \* commands started, over all exporters
  MaxUpsets    \* failing system calls and power losses

None == "none"

VARIABLES
  step,      \* where each command is
  req,       \* what it exports
  verdict,   \* what its last call returned
  lock,      \* holder of exportInstallProcessMu and the flock
  journal,   \* the intent records, by exportInstallKey
  bundle,    \* the bundle files, by path
  manifest,  \* the one manifest file: the request it describes
  starts, upsets

vars == <<step, req, verdict, lock, journal, bundle, manifest, starts, upsets>>

Paths == {r.path : r \in Requests}
Key(r) == <<r.path, r.bundle>>
Keys == {Key(r) : r \in Requests}

Absent == [now |-> {}, disk |-> {}]

Init ==
  /\ step = [e \in Exporters |-> "idle"]
  /\ req \in [Exporters -> {CHOOSE r \in Requests : TRUE}]
  /\ verdict = [e \in Exporters |-> None]
  /\ lock = None
  /\ journal = [k \in Keys |-> Absent]
  /\ bundle = [p \in Paths |-> Absent]
  /\ manifest = Absent
  /\ starts = 0 /\ upsets = 0

Calm  == UNCHANGED upsets
Upset == upsets < MaxUpsets /\ upsets' = upsets + 1

(* ReadCommittedProjection, BuildRedactedBundle and the argument checks    *)
(* touch no file.                                                          *)
Start(e) ==
  /\ step[e] = "idle" /\ starts < MaxStarts
  /\ \E r \in Requests : req' = [req EXCEPT ![e] = r]
  /\ step' = [step EXCEPT ![e] = "lock"]
  /\ verdict' = [verdict EXCEPT ![e] = "running"]
  /\ starts' = starts + 1
  /\ UNCHANGED <<lock, journal, bundle, manifest, upsets>>

(* acquireExportLock polls the flock; the deferred release follows every   *)
(* return.                                                                 *)
Acquire(e) ==
  /\ step[e] = "lock" /\ lock = None
  /\ lock' = e
  /\ step' = [step EXCEPT ![e] = "journal"]
  /\ UNCHANGED <<req, verdict, journal, bundle, manifest, starts, upsets>>

Goes(e, next) == step' = [step EXCEPT ![e] = next] /\ UNCHANGED <<verdict, lock>>

Returns(e, result) ==
  /\ step' = [step EXCEPT ![e] = "idle"]
  /\ verdict' = [verdict EXCEPT ![e] = result]
  /\ lock' = IF lock = e THEN None ELSE lock

(* A cancelled context, an unusable manifest, or a killed process.         *)
GiveUp(e) ==
  /\ step[e] # "idle"
  /\ Returns(e, "error")
  /\ UNCHANGED <<req, journal, bundle, manifest, starts, upsets>>

(* verifyAndSyncExportFile adopts an exact match after syncing its         *)
(* directory; anything else that is there is refused.  The write itself is *)
(* SecureWriter's: installed and synced, installed but not synced (an      *)
(* error), or not installed.                                               *)
Fits(file, want)          == file.now \subseteq {want}
Installed(want)           == [now |-> {want}, disk |-> {want}]
FailingWrites(file, want) == {file, [file EXCEPT !.now = {want}]}

InstallJournal(e) ==
  LET k == Key(req[e]) IN
  /\ step[e] = "journal"
  /\ \/ /\ Fits(journal[k], k)
        /\ journal' = [journal EXCEPT ![k] = Installed(k)]
        /\ Goes(e, "bundle") /\ Calm
     \/ /\ Fits(journal[k], k)
        /\ \E f \in FailingWrites(journal[k], k) : journal' = [journal EXCEPT ![k] = f]
        /\ Returns(e, "error") /\ Upset
  /\ UNCHANGED <<req, bundle, manifest, starts>>

InstallBundle(e) ==
  LET p == req[e].path  want == req[e].bundle IN
  /\ step[e] = "bundle"
  /\ \/ /\ Fits(bundle[p], want)
        /\ bundle' = [bundle EXCEPT ![p] = Installed(want)]
        /\ Goes(e, "manifest") /\ Calm
     \/ ~Fits(bundle[p], want) /\ Returns(e, "error") /\ Calm /\ UNCHANGED bundle
     \/ /\ Fits(bundle[p], want)
        /\ \E f \in FailingWrites(bundle[p], want) : bundle' = [bundle EXCEPT ![p] = f]
        /\ Returns(e, "error") /\ Upset
  /\ UNCHANGED <<req, journal, manifest, starts>>

(* The manifest is built from the receipt of the bundle just installed.    *)
InstallManifest(e) ==
  /\ step[e] = "manifest"
  /\ \/ /\ Fits(manifest, req[e])
        /\ manifest' = Installed(req[e])
        /\ Goes(e, "unjournal") /\ Calm
     \/ ~Fits(manifest, req[e]) /\ Returns(e, "error") /\ Calm /\ UNCHANGED manifest
     \/ /\ Fits(manifest, req[e])
        /\ manifest' \in FailingWrites(manifest, req[e])
        /\ Returns(e, "error") /\ Upset
  /\ UNCHANGED <<req, journal, bundle, starts>>

(* removeExportJournal, the verification of both receipts and the return.  *)
RemoveJournal(e) ==
  LET k == Key(req[e]) IN
  /\ step[e] = "unjournal"
  /\ \/ journal' = [journal EXCEPT ![k] = Absent] /\ Returns(e, "ok") /\ Calm
     \/ /\ journal' \in {journal, [journal EXCEPT ![k].now = {}]}
        /\ Returns(e, "error") /\ Upset
  /\ UNCHANGED <<req, bundle, manifest, starts>>

(* Every process dies and each name is what it was or what was synced.     *)
Settled(file, written) == LET v == IF written THEN file.now ELSE file.disk IN [now |-> v, disk |-> v]

PowerLoss ==
  /\ Upset
  /\ step' = [e \in Exporters |-> "idle"] /\ lock' = None
  /\ verdict' = [e \in Exporters |-> IF verdict[e] = "running" THEN "error" ELSE verdict[e]]
  /\ \E js \in [Keys -> BOOLEAN], bs \in [Paths -> BOOLEAN], m \in BOOLEAN :
       /\ journal' = [k \in Keys |-> Settled(journal[k], js[k])]
       /\ bundle' = [p \in Paths |-> Settled(bundle[p], bs[p])]
       /\ manifest' = Settled(manifest, m)
  /\ UNCHANGED <<req, starts>>

Next ==
  \/ \E e \in Exporters :
       Start(e) \/ Acquire(e) \/ GiveUp(e) \/ InstallJournal(e) \/ InstallBundle(e) \/ InstallManifest(e) \/ RemoveJournal(e)
  \/ PowerLoss

Spec == Init /\ [][Next]_vars

-----------------------------------------------------------------------------
File(values) == [now : {{}} \cup {{v} : v \in values}, disk : {{}} \cup {{v} : v \in values}]

TypeOK ==
  /\ step \in [Exporters -> {"idle", "lock", "journal", "bundle", "manifest", "unjournal"}]
  /\ req \in [Exporters -> Requests]
  /\ verdict \in [Exporters -> {None, "running", "error", "ok"}]
  /\ lock \in Exporters \cup {None}
  /\ \A e \in Exporters : (lock = e) <=> (step[e] \notin {"idle", "lock"})
  /\ bundle \in [Paths -> File({r.bundle : r \in Requests})]

(* Whatever is killed and whenever power is lost, a manifest that can be   *)
(* read describes a bundle that is on the disk under the path it was       *)
(* exported to, with the digest it binds.                                  *)
ManifestBindsBundle ==
  \A r \in manifest.now \cup manifest.disk : bundle[r.path] = Installed(r.bundle)

(* A bundle that is there without its manifest has its intent recorded on  *)
(* the disk: "durably records intent before either member".                *)
HalfPairIsJournaled ==
  \A r \in Requests :
    r.bundle \in bundle[r.path].now /\ (\A v \in manifest.now \cap manifest.disk : Key(v) # Key(r))
      => journal[Key(r)].disk = {Key(r)}

(* "ExportInstallResult proves that both members of an export pair were    *)
(* durably installed": what a successful command reported is still there   *)
(* after any later command, kill or power loss.                            *)
ReportedPairStays ==
  \A e \in Exporters : verdict[e] = "ok" =>
    manifest = Installed(req[e]) /\ bundle[req[e].path] = Installed(req[e].bundle)

=============================================================================
