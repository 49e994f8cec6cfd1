------------------------- MODULE PublicationFiles -------------------------
(***************************************************************************)
(* How the publication store changes one file under its lock: it creates a *)
(* mutable document, replaces one by compare and swap, moves a staged file  *)
(* into place or writes an immutable one, and undoes a rename after which   *)
(* the directory is not what it was.  Publication takes each of these as    *)
(* one step; here others, who do not take the lock, act in between.         *)
(*                                                                         *)
(* A file is told by who wrote it: each writer writes one, the document to  *)
(* replace is "prior", "twin" has its bytes and "alien" any others.  A name *)
(* holds a file or None.  `here' says that the path still leads to the      *)
(* directory the writers hold open; renames go through the open directory.  *)
(* A check and the unlink that follows it in a rollback are one step.       *)
(***************************************************************************)
EXTENDS Naturals

CONSTANTS Writers, None, MaxUpsets

VARIABLES
  op,       \* writer -> what it was asked for
  pc,       \* writer -> where it is
  file,     \* the file under the document's name
  temp,     \* writer -> the file under its temporary or staged name
  spoilt,   \* the files whose bytes were changed in place
  stable,   \* the file that a sync of the directory made durable
  here, lockFile,
  held,     \* writer -> the lock file it opened, and whether it is locked
  seen,     \* writer -> the prior it observed and the file its exchange displaced
  syncErr,  \* writer -> its sync failed
  result, err,
  gone,     \* <<writer, file>>: the files a writer unlinked
  upsets

vars == <<op, pc, file, temp, spoilt, stable, here, lockFile, held, seen, syncErr, result, err, gone, upsets>>

Ops == {"create", "replace", "install", "write"}
Files == Writers \cup {"prior", "twin", "alien", None}

Upset == upsets < MaxUpsets /\ upsets' = upsets + 1
Fine == UNCHANGED upsets

(* A check that fails, or the call that makes it.                           *)
Because(unmet) == (unmet /\ Fine) \/ Upset

Asked == UNCHANGED <<op, here, lockFile>>

Goto(w, point) == pc' = [pc EXCEPT ![w] = point]

-----------------------------------------------------------------------------
(* The lock: a lock file, opened and then locked without blocking until it  *)
(* succeeds, with a check after each try that the file opened is still the  *)
(* one under the name.                                                      *)
LockIsValid(w) == here /\ held[w].file = lockFile

Disk == UNCHANGED <<file, temp, spoilt, stable, gone>>
Mine == UNCHANGED <<seen, syncErr, result>>

Refuse(w) == Goto(w, "done") /\ err' = [err EXCEPT ![w] = "failed"] /\ held' = [held EXCEPT ![w].locked = FALSE]

OpenLock(w) ==
  /\ pc[w] = "idle" /\ Asked /\ Disk /\ Mine
  /\ \/ /\ here /\ held' = [held EXCEPT ![w].file = lockFile] /\ Goto(w, "waiting") /\ Fine /\ UNCHANGED err
     \/ Because(~here) /\ Refuse(w)

Flock(w) ==
  /\ pc[w] = "waiting" /\ Asked /\ Disk /\ Mine
  /\ \/ /\ \A v \in Writers : held[v].locked => held[v].file # held[w].file
        /\ LockIsValid(w) /\ held' = [held EXCEPT ![w].locked = TRUE] /\ Goto(w, "locked") /\ Fine /\ UNCHANGED err
     \/ Because(~LockIsValid(w)) /\ Refuse(w)

(* validate() and Release() end every call; a namespace that changed makes  *)
(* a result that was durable undurable, and its error.                      *)
Release(w) ==
  /\ pc[w] = "release" /\ Asked /\ Disk /\ UNCHANGED <<seen, syncErr>>
  /\ Goto(w, "done") /\ held' = [held EXCEPT ![w].locked = FALSE]
  /\ \/ LockIsValid(w) /\ Fine /\ UNCHANGED <<result, err>>
     \/ /\ Because(~LockIsValid(w))
        /\ result' = [result EXCEPT ![w] = IF @ = "durable" THEN "undurable" ELSE @]
        /\ err' = [err EXCEPT ![w] = IF @ = None THEN "failed" ELSE @]

-----------------------------------------------------------------------------
(* What the checks look at.                                                 *)
validatePublicationFileAt(name, expected) == name = expected /\ expected # None
validatePublicationFileHashAt(name, expected) == validatePublicationFileAt(name, expected) /\ expected \notin spoilt
publicationValidateMutableReplacement(w) == here /\ validatePublicationFileHashAt(file, w)

Locks == UNCHANGED <<op, here, lockFile, held>>

(* The callback returns: with an error, and with the result it has.         *)
Leave(w, error) == Goto(w, "release") /\ err' = [err EXCEPT ![w] = error]
Go(w, point) == Goto(w, point) /\ UNCHANGED err

(* cleanup(): the temporary file is removed; one that cannot be is left.    *)
Purge(w, error) ==
  \/ Leave(w, error) /\ temp' = [temp EXCEPT ![w] = None] /\ gone' = gone \cup {<<w, temp[w]>>} /\ Fine
  \/ Leave(w, "litter") /\ UNCHANGED <<temp, gone>> /\ Upset

-----------------------------------------------------------------------------
(* Before the rename.                                                       *)

(* The new document is written to a private temporary file and synced; a    *)
(* staged file is read again and compared with its receipt.                 *)
PrepareReplacement(w) ==
  /\ pc[w] = "locked" /\ op[w] \in {"create", "replace"} /\ Locks /\ Mine /\ UNCHANGED <<file, spoilt, stable, gone>>
  /\ \/ /\ here /\ temp' = [temp EXCEPT ![w] = w] /\ Fine
        /\ Go(w, IF op[w] = "create" THEN "rename" ELSE "observe")
     \/ Leave(w, "failed") /\ UNCHANGED temp /\ Because(~here)

ReadStaged(w) ==
  /\ pc[w] = "locked" /\ op[w] = "install" /\ Locks /\ Mine /\ Disk
  /\ \/ here /\ w \notin spoilt /\ Go(w, "rename") /\ Fine
     \/ Leave(w, "failed") /\ Because(~(here /\ w \notin spoilt))

(* observePublicationMutableFile(), compared with the expected hash.        *)
Hash(f) == IF f \in spoilt THEN "spoilt" ELSE IF f = "twin" THEN "prior" ELSE f

ObservePrior(w) ==
  /\ pc[w] = "observe" /\ Locks /\ UNCHANGED <<file, spoilt, stable, syncErr, result>>
  /\ \/ /\ file # None /\ Hash(file) = "prior" /\ seen' = [seen EXCEPT ![w].prior = file]
        /\ Go(w, "check") /\ Fine /\ UNCHANGED <<temp, gone>>
     \/ file # None /\ Hash(file) # "prior" /\ Purge(w, "conflict") /\ UNCHANGED seen
     \/ file = None /\ Purge(w, "conflict") /\ UNCHANGED seen

CheckPrior(w) ==
  /\ pc[w] = "check" /\ Locks /\ Mine /\ UNCHANGED <<file, spoilt, stable>>
  /\ \/ here /\ validatePublicationFileAt(file, seen[w].prior) /\ Go(w, "swap") /\ Fine /\ UNCHANGED <<temp, gone>>
     \/ ~(here /\ validatePublicationFileAt(file, seen[w].prior)) /\ Purge(w, "failed")

-----------------------------------------------------------------------------
(* The renames: exclusive for a new name, an exchange for a known one.       *)
ExclusiveRename(w) ==
  /\ pc[w] = "rename" /\ Locks /\ Mine /\ UNCHANGED <<spoilt, stable>>
  /\ \/ file = None /\ file' = temp[w] /\ temp' = [temp EXCEPT ![w] = None] /\ Go(w, "validate") /\ Fine /\ UNCHANGED gone
     \/ file # None /\ op[w] = "create" /\ Purge(w, "conflict") /\ UNCHANGED file
     \/ file # None /\ op[w] = "install" /\ Leave(w, "failed") /\ Fine /\ UNCHANGED <<file, temp, gone>>

SwapRename(w) ==
  /\ pc[w] = "swap" /\ Locks /\ Mine /\ UNCHANGED <<spoilt, stable>>
  /\ \/ file # None /\ file' = temp[w] /\ temp' = [temp EXCEPT ![w] = file] /\ Go(w, "displaced") /\ Fine /\ UNCHANGED gone
     \/ file = None /\ Purge(w, "conflict") /\ UNCHANGED file

(* The exchange may have displaced a file that came after the check: then   *)
(* it is undone.  One that cannot be inspected leaves everything as it is.  *)
IsPrior(w) == temp[w] = seen[w].prior /\ Hash(temp[w]) = "prior"

InspectDisplaced(w) ==
  /\ pc[w] = "displaced" /\ Locks /\ Disk /\ UNCHANGED <<syncErr, result>>
  /\ \/ /\ seen' = [seen EXCEPT ![w].displaced = temp[w]] /\ Fine
        /\ \/ IsPrior(w) /\ Go(w, "validate")
           \/ ~IsPrior(w) /\ Goto(w, "back_check") /\ err' = [err EXCEPT ![w] = "conflict"]
     \/ Leave(w, "uncertain") /\ Upset /\ UNCHANGED seen

(* The first check after the rename decides whether it stands.              *)
ValidateInstalled(w) ==
  /\ pc[w] = "validate" /\ Locks /\ Disk /\ UNCHANGED <<seen, syncErr>>
  /\ \/ /\ publicationValidateMutableReplacement(w) /\ Fine
        /\ Go(w, IF op[w] = "replace" THEN "unlink" ELSE IF op[w] = "create" THEN "recheck" ELSE "resync")
        /\ result' = [result EXCEPT ![w] = IF op[w] = "install" THEN @ ELSE "undurable"]
     \/ /\ Because(~publicationValidateMutableReplacement(w))
        /\ Goto(w, "back_check") /\ err' = [err EXCEPT ![w] = "failed"] /\ UNCHANGED result

UnlinkDisplaced(w) ==
  /\ pc[w] = "unlink" /\ Locks /\ Mine /\ UNCHANGED <<file, spoilt, stable>>
  /\ \/ temp' = [temp EXCEPT ![w] = None] /\ gone' = gone \cup {<<w, temp[w]>>} /\ Go(w, "recheck") /\ Fine
     \/ Leave(w, "failed") /\ Upset /\ UNCHANGED <<temp, gone>>

(* Checked, synced and checked again; a moved file is put back when a check *)
(* fails, a replaced document stays as it is.                               *)
Recheck(w) ==
  /\ pc[w] \in {"recheck", "resync"} /\ Locks /\ Disk /\ Mine
  /\ \/ publicationValidateMutableReplacement(w) /\ Go(w, "sync") /\ Fine
     \/ ~publicationValidateMutableReplacement(w) /\ op[w] # "install" /\ Leave(w, "failed") /\ Fine
     \/ ~publicationValidateMutableReplacement(w) /\ op[w] = "install" /\ Goto(w, "back_check") /\ err' = [err EXCEPT ![w] = "failed"] /\ Fine

SyncDirectory(w) ==
  /\ pc[w] = "sync" /\ Locks /\ UNCHANGED <<file, temp, spoilt, gone, seen, result>> /\ Go(w, "confirm")
  /\ \/ stable' = file /\ UNCHANGED syncErr /\ Fine
     \/ syncErr' = [syncErr EXCEPT ![w] = TRUE] /\ UNCHANGED stable /\ Upset

ConfirmInstalled(w) ==
  /\ pc[w] = "confirm" /\ Locks /\ Disk /\ UNCHANGED <<seen, syncErr>> /\ Fine
  /\ \/ /\ publicationValidateMutableReplacement(w)
        /\ result' = [result EXCEPT ![w] = IF syncErr[w] THEN "undurable" ELSE "durable"]
        /\ Leave(w, IF syncErr[w] THEN "failed" ELSE None)
     \/ ~publicationValidateMutableReplacement(w) /\ op[w] # "install" /\ Leave(w, "failed") /\ UNCHANGED result
     \/ ~publicationValidateMutableReplacement(w) /\ op[w] = "install" /\ Goto(w, "back_check") /\ err' = [err EXCEPT ![w] = "failed"] /\ UNCHANGED result

-----------------------------------------------------------------------------
(* Undoing a rename.  Every step that finds something unexpected leaves the *)
(* files where they are and reports the namespace as uncertain.             *)
MayUndo(w) ==
  \/ op[w] = "replace" /\ validatePublicationFileAt(file, w) /\ validatePublicationFileAt(temp[w], seen[w].displaced)
  \/ op[w] = "create" /\ validatePublicationFileHashAt(file, w)
  \/ op[w] = "install" /\ validatePublicationFileAt(file, w) /\ temp[w] = None

UndoCheck(w) ==
  /\ pc[w] = "back_check" /\ Locks /\ Mine /\ UNCHANGED <<spoilt, stable>>
  /\ \/ MayUndo(w) /\ op[w] # "create" /\ Go(w, "back_rename") /\ Fine /\ UNCHANGED <<file, temp, gone>>
     \/ /\ MayUndo(w) /\ op[w] = "create" /\ Go(w, "back_sync") /\ Fine
        /\ file' = None /\ gone' = gone \cup {<<w, file>>} /\ UNCHANGED temp
     \/ Because(~MayUndo(w)) /\ Leave(w, "uncertain") /\ UNCHANGED <<file, temp, gone>>

UndoRename(w) ==
  /\ pc[w] = "back_rename" /\ Locks /\ Mine /\ UNCHANGED <<spoilt, stable, gone>>
  /\ \/ /\ file # None /\ Go(w, "back_verify") /\ Fine
        /\ file' = temp[w] /\ temp' = [temp EXCEPT ![w] = file]
     \/ Because(file = None) /\ Leave(w, "uncertain") /\ UNCHANGED <<file, temp>>

(* The exchange back may have taken a file that came in between; only the   *)
(* replacement itself is unlinked.                                          *)
PutBack(w) ==
  validatePublicationFileAt(temp[w], w) /\ (op[w] = "replace" => validatePublicationFileAt(file, seen[w].displaced))

UndoVerify(w) ==
  /\ pc[w] = "back_verify" /\ Locks /\ Mine /\ UNCHANGED <<file, spoilt, stable>>
  /\ \/ /\ PutBack(w) /\ op[w] = "replace" /\ Go(w, "back_sync") /\ Fine
        /\ temp' = [temp EXCEPT ![w] = None] /\ gone' = gone \cup {<<w, temp[w]>>}
     \/ PutBack(w) /\ op[w] = "install" /\ Go(w, "back_sync") /\ Fine /\ UNCHANGED <<temp, gone>>
     \/ Because(~PutBack(w)) /\ Leave(w, "uncertain") /\ UNCHANGED <<temp, gone>>

Undone(w) ==
  \/ op[w] = "replace" /\ validatePublicationFileAt(file, seen[w].displaced)
  \/ op[w] = "create" /\ file = None
  \/ op[w] = "install" /\ temp[w] = w

(* A sync that fails does not make the undone rename uncertain.             *)
UndoSync(w) ==
  /\ pc[w] = "back_sync" /\ Locks /\ Mine /\ UNCHANGED <<file, temp, spoilt, gone>>
  /\ Leave(w, IF Undone(w) THEN err[w] ELSE "uncertain")
  /\ \/ stable' = file /\ Fine
     \/ UNCHANGED stable /\ Upset

-----------------------------------------------------------------------------
(* An immutable file: written by the secure writer, which installs it under *)
(* a free name, syncs and may report it undurable, and read again.          *)
WriteImmutable(w) ==
  /\ pc[w] = "locked" /\ op[w] = "write" /\ Locks /\ UNCHANGED <<temp, spoilt, gone, seen, syncErr>>
  /\ \/ here /\ file = None /\ file' = w /\ stable' = w /\ Go(w, "reread") /\ Fine /\ UNCHANGED result
     \/ /\ here /\ file = None /\ file' = w /\ Leave(w, "failed") /\ Upset /\ UNCHANGED stable
        /\ result' = [result EXCEPT ![w] = "undurable"]
     \/ Because(~(here /\ file = None)) /\ Leave(w, "failed") /\ UNCHANGED <<file, stable, result>>

Reread(w) ==
  /\ pc[w] = "reread" /\ Locks /\ Disk /\ UNCHANGED <<seen, syncErr>> /\ Fine
  /\ IF here /\ file # None /\ Hash(file) = w
     THEN Leave(w, None) /\ result' = [result EXCEPT ![w] = "durable"]
     ELSE Leave(w, "failed") /\ result' = [result EXCEPT ![w] = "undurable"]

-----------------------------------------------------------------------------
(* Others, who do not take the lock; and a writer that is killed, whose lock *)
(* the kernel releases.                                                     *)
Calls == UNCHANGED <<op, pc, held, seen, syncErr, result, err, gone>>

Meddle ==
  /\ Upset /\ Calls
  /\ \/ \E f \in {"alien", "twin", None} : f # file /\ file' = f /\ UNCHANGED <<temp, spoilt, stable, here, lockFile>>
     \/ file # None /\ spoilt' = spoilt \cup {file} /\ UNCHANGED <<file, temp, stable, here, lockFile>>
     \/ here' = ~here /\ UNCHANGED <<file, temp, spoilt, stable, lockFile>>
     \/ lockFile' = lockFile + 1 /\ UNCHANGED <<file, temp, spoilt, stable, here>>

Kill(w) ==
  /\ pc[w] \notin {"idle", "done", "killed"} /\ Upset /\ Goto(w, "killed") /\ held' = [held EXCEPT ![w].locked = FALSE]
  /\ UNCHANGED <<op, file, temp, spoilt, stable, here, lockFile, seen, syncErr, result, err, gone>>

Init ==
  /\ op \in [Writers -> {"create", "replace"}] \cup [Writers -> {"install", "write"}] /\ pc = [w \in Writers |-> "idle"]
  /\ file \in {"prior", None} /\ stable = file /\ spoilt = {} /\ here = TRUE /\ lockFile = 0
  /\ temp = [w \in Writers |-> IF op[w] = "install" THEN w ELSE None]
  /\ held = [w \in Writers |-> [file |-> 0, locked |-> FALSE]]
  /\ seen = [w \in Writers |-> [prior |-> None, displaced |-> None]] /\ syncErr = [w \in Writers |-> FALSE]
  /\ result = [w \in Writers |-> None] /\ err = [w \in Writers |-> None] /\ gone = {} /\ upsets = 0

ReplaceMutable(w) ==
  \/ PrepareReplacement(w) \/ ObservePrior(w) \/ CheckPrior(w) \/ ExclusiveRename(w) \/ SwapRename(w) \/ InspectDisplaced(w)
  \/ ValidateInstalled(w) \/ UnlinkDisplaced(w) \/ Recheck(w) \/ SyncDirectory(w) \/ ConfirmInstalled(w)

publicationRollback(w) == UndoCheck(w) \/ UndoRename(w) \/ UndoVerify(w) \/ UndoSync(w)

Next ==
  \/ Meddle
  \/ \E w \in Writers :
       \/ OpenLock(w) \/ Flock(w) \/ Release(w) \/ Kill(w)
       \/ ReadStaged(w) \/ ReplaceMutable(w) \/ publicationRollback(w) \/ WriteImmutable(w) \/ Reread(w)

-----------------------------------------------------------------------------
TypeOK ==
  /\ op \in [Writers -> Ops] /\ file \in Files /\ temp \in [Writers -> Files] /\ spoilt \subseteq Files
  /\ result \in [Writers -> {None, "undurable", "durable"}]
  /\ err \in [Writers -> {None, "failed", "conflict", "uncertain", "litter"}]

(* A writer removes its own file and the prior it was asked to replace, and *)
(* never a file that came in between, whoever holds the lock file               *)
(* (InspectDisplaced, publicationRollbackMutableSwap()).                     *)
NothingIsLost == \A w \in Writers, f \in Files : <<w, f>> \in gone => f = w \/ (f = seen[w].prior /\ op[w] = "replace")

(* A file reported durable is under its name and synced, or someone outside *)
(* the store changed the directory or broke off a rename; another writer     *)
(* never makes it disappear for good (ReplaceMutable(), InstallFinal()).     *)
DurableSurvives ==
  \A w \in Writers : pc[w] = "done" /\ result[w] = "durable" =>
    /\ upsets = 0 => file = w /\ stable = w
    /\ \A v \in Writers \ {w} : <<v, w>> \notin gone

(* A compare and swap that reports only a conflict left nothing of its own: *)
(* neither its document under the name nor a temporary file.                *)
ConflictChangesNothing ==
  \A w \in Writers : pc[w] = "done" /\ err[w] = "conflict" => result[w] = None /\ file # w /\ temp[w] = None

(* Of writers that expect the same prior, undisturbed, exactly one wins:    *)
(* the one whose file is under the name.                                    *)
OneWriterWins ==
  upsets = 0 /\ (\A w \in Writers : pc[w] = "done") =>
    {w \in Writers : result[w] = "durable"} = {file} \cap Writers

FilesAreSafe == NothingIsLost /\ DurableSurvives /\ ConflictChangesNothing /\ OneWriterWins

=============================================================================
