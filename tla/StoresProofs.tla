---------------------------- MODULE StoresProofs ----------------------------
(***************************************************************************)
(* What the proofs about single components say of the run that composes    *)
(* them: each behaviour takes the steps of one component, so an invariant  *)
(* of the component is one of the run, under `which`.  The prover keeps    *)
(* the instances of a module apart; that the component of the run and the  *)
(* component of the proofs begin alike and take the same steps is shown    *)
(* once for each.                                                          *)
(***************************************************************************)
EXTENDS MCStores, TLAPS

FP == INSTANCE FilesProofs WITH
        Inits <- Cleaners, Exporters <- Cleaners, Writers <- Cleaners, None <- "none", MaxUpsets <- 2,
        Sources <- Streams, MaxChunks <- 2, Requests <- ExportRequests, MaxStarts <- 3,
        MaxPasses <- 3, Observers <- Cleaners, MaxCloses <- 2, MaxRegistryUpsets <- 1,
        step <- v1, refresh <- v2, saw <- v3, dir <- v4, made <- v5, config <- v6, local <- v7, put <- v8,
        at <- v1, src <- v2, pos <- v3, bytes <- v4, named <- v5, dest <- v6, destSynced <- v7, altered <- v8,
        moved <- v9, wanted <- v10, leaked <- v11, stopped <- v12,
        req <- v2, lock <- v3, journal <- v4, bundle <- v5, manifest <- v6, starts <- v7,
        op <- v1, pc <- v2, file <- v3, temp <- v4, spoilt <- v5, stable <- v6, here <- v7, lockFile <- v8,
        held <- v9, seen <- v10, syncErr <- v11, result <- v12, err <- v13, gone <- v14,
        family <- v1, own <- v2, call <- v3, place <- v4, disk <- v5, lease <- v6, users <- v7, cleaned <- v8,
        failed <- v9, passes <- v10, namespaceUpsets <- v11,
        reg <- v1, left <- v2, holdings <- v3, receipts <- v4, closed <- v5, active <- v6, epoch <- v7, obs <- v8,
        stage <- v9, closer <- v10, runReceipt <- v11, registryUpsets <- v12, closes <- v13,
        verdict <- v14, upsets <- v15

LP == INSTANCE LiveRunProofs WITH
        MaxUpsets <- 4, MaxProbeUpsets <- 2,
        pc <- v1, noChange <- v2, roots <- v3, reader <- v4, drift <- v5, providers <- v6, qualified <- v7,
        drained <- v8, sourceClosed <- v9, published <- v10, sink <- v11, status <- v12, errs <- v13,
        answer <- v14, env <- v15,
        second <- v1, ctx <- v2, group <- v3, cand <- v4, phase <- v5, namespaces <- v6, admission <- v7, fixtures <- v8,
        probe <- v9, breached <- v10, cause <- v11, owner <- v12, reclaimed <- v13, tries <- v14, probeUpsets <- v15,
        LogMax <- 4, TailReserve <- 2, MaxStoreUpsets <- 2, MaxMoves <- 2, MaxReads <- 1,
        store <- v1, sequence <- v2, steps <- v3, decision <- v4, log <- v5, synced <- v6, torn <- v7, document <- v8,
        dropped <- v9, acked <- v10, storeUpsets <- v11,
        fs <- v1, moves <- v2, scope <- v3, bound <- v4, sourceReader <- v5, target <- v6, at <- v7, cmd <- v8,
        call <- v9, holding <- v10, reply <- v11, past <- v12, artist <- v13, reads <- v14

-----------------------------------------------------------------------------
(* The components of the run are those of the proofs.                      *)

LEMMA SameInitsBegin == I!Init => FP!I!Init
BY ZenonT(60) DEF I!Init, FP!I!Init, I!Empty, FP!I!Empty, I!Same, FP!I!Same, I!Running, FP!I!Running, I!NoCode, FP!I!NoCode

LEMMA SameInitsStep == I!Next => FP!I!Next
BY ZenonT(60) DEF I!Next, FP!I!Next, I!Begin, FP!I!Begin, I!Seen, FP!I!Seen, I!Present, FP!I!Present, I!Returns, FP!I!Returns,
   I!ProjectPresent, FP!I!ProjectPresent, I!Goto, FP!I!Goto, I!Attest, FP!I!Attest, I!Calm, FP!I!Calm, I!Upset,
   FP!I!Upset, I!LocalityCodes, FP!I!LocalityCodes, I!Prepare, FP!I!Prepare, I!MutationFailure, FP!I!MutationFailure,
   I!MutationOutcomes, FP!I!MutationOutcomes, I!NoCode, FP!I!NoCode, I!Unconfirmed, FP!I!Unconfirmed,
   I!AnyDestination, FP!I!AnyDestination, I!UnconfirmedCode, FP!I!UnconfirmedCode, I!Observed, FP!I!Observed,
   I!Reopen, FP!I!Reopen, I!DirectoryLocalityFailure, FP!I!DirectoryLocalityFailure, I!InstallProject,
   FP!I!InstallProject, I!InstallFailure, FP!I!InstallFailure, I!Put, FP!I!Put, I!InstallLocal, FP!I!InstallLocal,
   I!ReplaceLocal, FP!I!ReplaceLocal, I!SyncProject, FP!I!SyncProject, I!Sync, FP!I!Sync, I!Same, FP!I!Same,
   I!SyncLocal, FP!I!SyncLocal, I!Confirm, FP!I!Confirm, I!Admitted, FP!I!Admitted, I!Kill, FP!I!Kill, I!UserRemoves,
   FP!I!UserRemoves, I!PowerLoss, FP!I!PowerLoss, I!Empty, FP!I!Empty, I!Running, FP!I!Running

LEMMA SameWritersBegin == W!Init => FP!W!Init
BY ZenonT(60) DEF W!Init, FP!W!Init

LEMMA SameWritersStep == W!Next => FP!W!Next
BY ZenonT(60) DEF W!Next, FP!W!Next, W!Write, FP!W!Write, W!Begin, FP!W!Begin, W!Calm, FP!W!Calm, W!Goto, FP!W!Goto, W!Upset,
   FP!W!Upset, W!Returns, FP!W!Returns, W!Outside, FP!W!Outside, W!Stream, FP!W!Stream, W!CopyChunk, FP!W!CopyChunk,
   W!ScansChunk, FP!W!ScansChunk, W!EndOfStream, FP!W!EndOfStream, W!StreamFails, FP!W!StreamFails, W!Purges,
   FP!W!Purges, W!Seal, FP!W!Seal, W!Install, FP!W!Install, W!Verify, FP!W!Verify, W!Changed, FP!W!Changed,
   W!Discards, FP!W!Discards, W!SyncDirectory, FP!W!SyncDirectory, W!Final, FP!W!Final, W!Cancel, FP!W!Cancel,
   W!Quiet, FP!W!Quiet, W!Alter, FP!W!Alter, W!MoveDirectory, FP!W!MoveDirectory, W!Stop, FP!W!Stop

LEMMA SameExportsBegin == E!Init => FP!E!Init
BY ZenonT(60) DEF E!Init, FP!E!Init, E!None, FP!E!None, E!Keys, FP!E!Keys, E!Key, FP!E!Key, E!Absent, FP!E!Absent, E!Paths,
   FP!E!Paths

LEMMA SameExportsStep == E!Next => FP!E!Next
BY ZenonT(60) DEF E!Next, FP!E!Next, E!Start, FP!E!Start, E!Acquire, FP!E!Acquire, E!None, FP!E!None, E!GiveUp, FP!E!GiveUp,
   E!Returns, FP!E!Returns, E!InstallJournal, FP!E!InstallJournal, E!Key, FP!E!Key, E!Fits, FP!E!Fits, E!Installed,
   FP!E!Installed, E!Goes, FP!E!Goes, E!Calm, FP!E!Calm, E!FailingWrites, FP!E!FailingWrites, E!Upset, FP!E!Upset,
   E!InstallBundle, FP!E!InstallBundle, E!InstallManifest, FP!E!InstallManifest, E!RemoveJournal, FP!E!RemoveJournal,
   E!Absent, FP!E!Absent, E!PowerLoss, FP!E!PowerLoss, E!Keys, FP!E!Keys, E!Paths, FP!E!Paths, E!Settled, FP!E!Settled

LEMMA SameFilesBegin == PF!Init => FP!F!Init
BY ZenonT(60) DEF PF!Init, FP!F!Init

LEMMA SameFilesStep == PF!Next => FP!F!Next
BY ZenonT(60) DEF PF!Next, FP!F!Next, PF!Meddle, FP!F!Meddle, PF!Upset, FP!F!Upset, PF!Calls, FP!F!Calls, PF!OpenLock,
   FP!F!OpenLock, PF!Asked, FP!F!Asked, PF!Disk, FP!F!Disk, PF!Mine, FP!F!Mine, PF!Goto, FP!F!Goto, PF!Fine,
   FP!F!Fine, PF!Because, FP!F!Because, PF!Refuse, FP!F!Refuse, PF!Flock, FP!F!Flock, PF!LockIsValid,
   FP!F!LockIsValid, PF!Release, FP!F!Release, PF!Kill, FP!F!Kill, PF!ReadStaged, FP!F!ReadStaged, PF!Locks,
   FP!F!Locks, PF!Go, FP!F!Go, PF!Leave, FP!F!Leave, PF!ReplaceMutable, FP!F!ReplaceMutable, PF!PrepareReplacement,
   FP!F!PrepareReplacement, PF!ObservePrior, FP!F!ObservePrior, PF!Hash, FP!F!Hash, PF!Purge, FP!F!Purge,
   PF!CheckPrior, FP!F!CheckPrior, PF!validatePublicationFileAt, FP!F!validatePublicationFileAt, PF!ExclusiveRename,
   FP!F!ExclusiveRename, PF!SwapRename, FP!F!SwapRename, PF!InspectDisplaced, FP!F!InspectDisplaced, PF!IsPrior,
   FP!F!IsPrior, PF!ValidateInstalled, FP!F!ValidateInstalled, PF!publicationValidateMutableReplacement,
   FP!F!publicationValidateMutableReplacement, PF!validatePublicationFileHashAt, FP!F!validatePublicationFileHashAt,
   PF!UnlinkDisplaced, FP!F!UnlinkDisplaced, PF!Recheck, FP!F!Recheck, PF!SyncDirectory, FP!F!SyncDirectory,
   PF!ConfirmInstalled, FP!F!ConfirmInstalled, PF!publicationRollback, FP!F!publicationRollback, PF!UndoCheck,
   FP!F!UndoCheck, PF!MayUndo, FP!F!MayUndo, PF!UndoRename, FP!F!UndoRename, PF!UndoVerify, FP!F!UndoVerify,
   PF!PutBack, FP!F!PutBack, PF!UndoSync, FP!F!UndoSync, PF!Undone, FP!F!Undone, PF!WriteImmutable,
   FP!F!WriteImmutable, PF!Reread, FP!F!Reread

LEMMA SameLiveRunsBegin == L!Init => LP!Init
BY ZenonT(60) DEF L!Init, LP!Init

LEMMA SameLiveRunsStep == L!Next => LP!Next
BY ZenonT(60) DEF L!Next, LP!Next, L!Drift, LP!Drift, L!Verified, LP!Verified, L!runVars, LP!runVars, L!reportVars,
   LP!reportVars, L!Cancel, LP!Cancel, L!sourceVars, LP!sourceVars, L!ComposeReviewRuns, LP!ComposeReviewRuns,
   L!Upset, LP!Upset, L!CleanupRoots, LP!CleanupRoots, L!RootsAfter, LP!RootsAfter, L!Answer, LP!Answer, L!OpenSource,
   LP!OpenSource, L!Goto, LP!Goto, L!Admit, LP!Admit, L!Fails, LP!Fails, L!OpenDiagnostics, LP!OpenDiagnostics,
   L!CancelledOr, LP!CancelledOr, L!Prepare, LP!Prepare, L!StartQualification, LP!StartQualification, L!Qualify,
   LP!Qualify, L!PrepareRun, LP!PrepareRun, L!ExecuteRun, LP!ExecuteRun, L!Drain, LP!Drain, L!DrainTerminal,
   LP!DrainTerminal, L!Verify, LP!Verify, L!Revalidate, LP!Revalidate, L!CloseSource, LP!CloseSource, L!Publish,
   LP!Publish, L!Project, LP!Project, L!CleanupDrain, LP!CleanupDrain, L!Release, LP!Release, L!Finalize, LP!Finalize,
   L!TerminalState, LP!TerminalState, L!FailureClass, LP!FailureClass, L!Class, LP!Class, L!NoClass, LP!NoClass,
   L!P2Reference, LP!P2Reference, L!Policy!FailurePrecedence, LP!Policy!FailurePrecedence

LEMMA SameNamespacesBegin == NS!Init => FP!N!Init
BY DEF NS!Init, FP!N!Init, NS!Families, FP!N!Families, NS!NoDisk, FP!N!NoDisk, NS!NoLease, FP!N!NoLease

LEMMA SameNamespacesStep == NS!Next => FP!N!Next
<1>1. NS!AcquireProviderNamespace => FP!N!AcquireProviderNamespace
  <2>1. NS!Acquire => FP!N!Acquire
    BY ZenonT(60) DEF NS!Acquire, FP!N!Acquire, NS!NoLease, FP!N!NoLease, NS!CloseParent, FP!N!CloseParent, NS!Fine, FP!N!Fine,
       NS!Upset, FP!N!Upset, NS!Settle, FP!N!Settle
  <2>2. NS!InspectRoot => FP!N!InspectRoot
    BY ZenonT(60) DEF NS!InspectRoot, FP!N!InspectRoot, NS!Grabbed, FP!N!Grabbed, NS!NameTaken, FP!N!NameTaken, NS!NameRemoved,
       FP!N!NameRemoved, NS!LookFails, FP!N!LookFails, NS!NoLease, FP!N!NoLease, NS!CloseParent, FP!N!CloseParent,
       NS!Fine, FP!N!Fine, NS!Upset, FP!N!Upset, NS!Goto, FP!N!Goto, NS!Same, FP!N!Same, NS!Settle, FP!N!Settle
  <2>3. NS!OpenRoot => FP!N!OpenRoot
    BY ZenonT(60) DEF NS!OpenRoot, FP!N!OpenRoot, NS!Grabbed, FP!N!Grabbed, NS!NameTaken, FP!N!NameTaken, NS!NameRemoved,
       FP!N!NameRemoved, NS!LookFails, FP!N!LookFails, NS!NoLease, FP!N!NoLease, NS!CloseParent, FP!N!CloseParent,
       NS!Fine, FP!N!Fine, NS!Upset, FP!N!Upset, NS!Goto, FP!N!Goto, NS!Same, FP!N!Same, NS!Settle, FP!N!Settle
  <2>4. NS!newNamespaceLease \/ NS!ValidateAfterConstruction => FP!N!newNamespaceLease \/ FP!N!ValidateAfterConstruction
    BY ZenonT(60) DEF NS!newNamespaceLease, FP!N!newNamespaceLease, NS!ValidateAfterConstruction, FP!N!ValidateAfterConstruction,
       NS!Rollback, FP!N!Rollback, NS!Spawnable, FP!N!Spawnable, NS!Fine, FP!N!Fine, NS!Upset, FP!N!Upset, NS!Goto,
       FP!N!Goto, NS!Same, FP!N!Same
  <2>5. NS!createCursorDataChild \/ NS!ProjectCredential => FP!N!createCursorDataChild \/ FP!N!ProjectCredential
    BY ZenonT(60) DEF NS!createCursorDataChild, FP!N!createCursorDataChild, NS!ProjectCredential, FP!N!ProjectCredential,
       NS!Rollback, FP!N!Rollback, NS!Fine, FP!N!Fine, NS!Upset, FP!N!Upset, NS!Goto, FP!N!Goto, NS!Same,
       FP!N!Same, NS!Settle, FP!N!Settle
  <2> QED BY <2>1, <2>2, <2>3, <2>4, <2>5 DEF NS!AcquireProviderNamespace, FP!N!AcquireProviderNamespace
<1>2. NS!UseNamespace => FP!N!UseNamespace
  BY DEF NS!UseNamespace, FP!N!UseNamespace, NS!Free, FP!N!Free, NS!ValidateForSpawn, FP!N!ValidateForSpawn,
     NS!EndProvider, FP!N!EndProvider, NS!Spawnable, FP!N!Spawnable
<1>3. NS!ReplaceCredential => FP!N!ReplaceCredential
  BY DEF NS!ReplaceCredential, FP!N!ReplaceCredential, NS!Upset, FP!N!Upset
<1>4. NS!Scribble => FP!N!Scribble
  BY DEF NS!Scribble, FP!N!Scribble, NS!Upset, FP!N!Upset
<1>5. NS!Meddle => FP!N!Meddle
  BY ZenonT(60) DEF NS!Meddle, FP!N!Meddle, NS!Upset, FP!N!Upset, NS!Window, FP!N!Window
<1>9. NS!SubstituteChild => FP!N!SubstituteChild
  BY ZenonT(60) DEF NS!SubstituteChild, FP!N!SubstituteChild, NS!Upset, FP!N!Upset, NS!Linked, FP!N!Linked
<1>6. NS!DrainTerminal => FP!N!DrainTerminal
  BY DEF NS!DrainTerminal, FP!N!DrainTerminal
<1>7. NS!RetryConstructionCleanup => FP!N!RetryConstructionCleanup
  BY DEF NS!RetryConstructionCleanup, FP!N!RetryConstructionCleanup
<1>8. NS!drainTerminalEffects => FP!N!drainTerminalEffects
  <2>1. NS!DrainGate => FP!N!DrainGate
    BY ZenonT(60) DEF NS!DrainGate, FP!N!DrainGate, NS!Same, FP!N!Same, NS!Stop, FP!N!Stop, NS!Fine, FP!N!Fine, NS!Settle,
       FP!N!Settle, NS!Goto, FP!N!Goto, NS!Upset, FP!N!Upset
  <2>2. NS!zeroAndUnlinkSeeds => FP!N!zeroAndUnlinkSeeds
    BY ZenonT(60) DEF NS!zeroAndUnlinkSeeds, FP!N!zeroAndUnlinkSeeds, NS!Same, FP!N!Same, NS!Fine, FP!N!Fine, NS!Wiped,
       FP!N!Wiped, NS!Upset, FP!N!Upset, NS!Goto, FP!N!Goto
  <2>3. NS!removeCursorDataChild => FP!N!removeCursorDataChild
    BY DEF NS!removeCursorDataChild, FP!N!removeCursorDataChild, NS!Cleaning, FP!N!Cleaning, NS!Same, FP!N!Same,
       NS!Goto, FP!N!Goto, NS!Fine, FP!N!Fine, NS!Stop, FP!N!Stop, NS!Upset, FP!N!Upset, NS!Settle, FP!N!Settle
  <2>4. NS!removeNamespaceRoot => FP!N!removeNamespaceRoot
    <3>1. NS!RootIsDone \/ NS!ReopenRoot \/ NS!locateNamespaceEntry => FP!N!RootIsDone \/ FP!N!ReopenRoot \/ FP!N!locateNamespaceEntry
      BY ZenonT(60) DEF NS!RootIsDone, FP!N!RootIsDone, NS!ReopenRoot, FP!N!ReopenRoot, NS!locateNamespaceEntry,
         FP!N!locateNamespaceEntry, NS!InRoot, FP!N!InRoot, NS!Here, FP!N!Here, NS!InParent, FP!N!InParent,
         NS!Found, FP!N!Found, NS!Cleaning, FP!N!Cleaning, NS!Stop, FP!N!Stop, NS!Fine, FP!N!Fine, NS!Upset,
         FP!N!Upset, NS!Goto, FP!N!Goto, NS!Same, FP!N!Same, NS!Settle, FP!N!Settle
    <3>2. \A from, to : NS!Quarantine(from, to) => FP!N!Quarantine(from, to)
      BY ZenonT(60) DEF NS!Quarantine, FP!N!Quarantine, NS!Here, FP!N!Here, NS!InRoot, FP!N!InRoot, NS!Cleaning, FP!N!Cleaning,
         NS!namespaceEntryMatches, FP!N!namespaceEntryMatches, NS!Grabbed, FP!N!Grabbed, NS!RenameFails,
         FP!N!RenameFails, NS!Stop, FP!N!Stop, NS!Fine, FP!N!Fine, NS!Upset, FP!N!Upset, NS!Goto, FP!N!Goto,
         NS!Same, FP!N!Same, NS!Settle, FP!N!Settle
    <3>3. NS!Requarantine => FP!N!Requarantine
      BY ZenonT(60) DEF NS!Requarantine, FP!N!Requarantine, NS!Here, FP!N!Here, NS!InRoot, FP!N!InRoot, NS!Cleaning,
         FP!N!Cleaning, NS!namespaceEntryMatches, FP!N!namespaceEntryMatches, NS!Grabbed, FP!N!Grabbed,
         NS!RenameFails, FP!N!RenameFails, NS!Stop, FP!N!Stop, NS!Fine, FP!N!Fine, NS!Upset, FP!N!Upset, NS!Goto,
         FP!N!Goto, NS!Same, FP!N!Same, NS!Settle, FP!N!Settle
    <3>4. NS!UnlinkRoot => FP!N!UnlinkRoot
      BY ZenonT(60) DEF NS!UnlinkRoot, FP!N!UnlinkRoot, NS!Cleaning, FP!N!Cleaning, NS!Grabbed, FP!N!Grabbed, NS!NameRemoved,
         FP!N!NameRemoved, NS!Stop, FP!N!Stop, NS!Fine, FP!N!Fine, NS!Upset, FP!N!Upset, NS!Goto, FP!N!Goto,
         NS!Same, FP!N!Same, NS!Settle, FP!N!Settle
    <3>5. NS!VerifyRoot => FP!N!VerifyRoot
      BY ZenonT(60) DEF NS!VerifyRoot, FP!N!VerifyRoot, NS!Cleaning, FP!N!Cleaning, NS!Stop, FP!N!Stop, NS!Fine, FP!N!Fine,
         NS!Upset, FP!N!Upset, NS!Goto, FP!N!Goto, NS!Same, FP!N!Same, NS!Settle, FP!N!Settle
    <3> QED BY <3>1, <3>2, <3>3, <3>4, <3>5 DEF NS!removeNamespaceRoot, FP!N!removeNamespaceRoot
  <2>5. NS!removeNamespaceContents => FP!N!removeNamespaceContents
    <3>1. NS!newNamespaceTraversal => FP!N!newNamespaceTraversal
      BY DEF NS!newNamespaceTraversal, FP!N!newNamespaceTraversal, NS!Here, FP!N!Here, NS!Same, FP!N!Same, NS!Frame,
         FP!N!Frame, NS!Goto, FP!N!Goto, NS!Fine, FP!N!Fine, NS!Stop, FP!N!Stop, NS!Upset, FP!N!Upset, NS!InRoot,
         FP!N!InRoot, NS!Entries, FP!N!Entries, NS!Settle, FP!N!Settle, NS!Cleaning, FP!N!Cleaning
    <3>a. NS!Top = FP!N!Top
      BY DEF NS!Top, FP!N!Top
    <3>b. \A s : NS!Front(s) = FP!N!Front(s)
      BY DEF NS!Front, FP!N!Front
    <3>c. \A f : NS!WithTop(f) = FP!N!WithTop(f)
      BY <3>b, ZenonT(60) DEF NS!WithTop, FP!N!WithTop
    <3>d. \A dir : NS!Entries(dir) = FP!N!Entries(dir)
      BY DEF NS!Entries, FP!N!Entries
    <3>e. \A dir, listed : NS!Frame(dir, listed) = FP!N!Frame(dir, listed)
      BY <3>d, ZenonT(60) DEF NS!Frame, FP!N!Frame
    <3>f. /\ NS!Walking <=> FP!N!Walking
          /\ NS!Upset <=> FP!N!Upset
          /\ NS!Fine <=> FP!N!Fine
          /\ NS!Same <=> FP!N!Same
      BY DEF NS!Walking, FP!N!Walking, NS!Here, FP!N!Here, NS!InRoot, FP!N!InRoot, NS!Cleaning, FP!N!Cleaning,
         NS!Upset, FP!N!Upset, NS!Fine, FP!N!Fine, NS!Same, FP!N!Same
    <3>g. \A l : NS!Walk(l) <=> FP!N!Walk(l)
      BY DEF NS!Walk, FP!N!Walk, NS!Goto, FP!N!Goto, NS!Fine, FP!N!Fine
    <3>h. \A l : NS!Halt(l) <=> FP!N!Halt(l)
      BY DEF NS!Halt, FP!N!Halt, NS!Stop, FP!N!Stop, NS!Settle, FP!N!Settle
    <3>2. NS!RefreshFrame => FP!N!RefreshFrame
      BY <3>a, <3>c, <3>d, <3>f, <3>g, <3>h, ZenonT(60) DEF NS!RefreshFrame, FP!N!RefreshFrame
    <3>3. NS!VisitEntry => FP!N!VisitEntry
      BY <3>a, <3>c, <3>e, <3>f, <3>g, <3>h, ZenonT(60) DEF NS!VisitEntry, FP!N!VisitEntry, NS!Directories,
         FP!N!Directories
    <3>i. NS!Pop = FP!N!Pop /\ (NS!Stop <=> FP!N!Stop) /\ (NS!Cleaning <=> FP!N!Cleaning)
      BY <3>b, ZenonT(60) DEF NS!Pop, FP!N!Pop, NS!Stop, FP!N!Stop, NS!Settle, FP!N!Settle, NS!Cleaning, FP!N!Cleaning
    <3>j. /\ \A point : NS!ChildAt(point) <=> FP!N!ChildAt(point)
          /\ \A point : NS!Goto(point) <=> FP!N!Goto(point)
          /\ \A dir : NS!Linked(dir) <=> FP!N!Linked(dir)
      BY <3>f, <3>i DEF NS!ChildAt, FP!N!ChildAt, NS!Goto, FP!N!Goto, NS!Linked, FP!N!Linked
    <3>4. NS!LocateChild => FP!N!LocateChild
      BY <3>a, <3>f, <3>h, <3>j, ZenonT(60) DEF NS!LocateChild, FP!N!LocateChild
    <3>6. NS!UnlinkChild => FP!N!UnlinkChild
      BY <3>a, <3>d, <3>f, <3>i, <3>j, ZenonT(60) DEF NS!UnlinkChild, FP!N!UnlinkChild
    <3>7. NS!VerifyChild => FP!N!VerifyChild
      BY <3>a, <3>c, <3>f, <3>g, <3>h, <3>i, <3>j, ZenonT(60) DEF NS!VerifyChild, FP!N!VerifyChild
    <3>8. NS!PopDetached => FP!N!PopDetached
      BY <3>a, <3>f, <3>g, <3>i, ZenonT(60) DEF NS!PopDetached, FP!N!PopDetached
    <3>5. NS!FinishContents => FP!N!FinishContents
      BY DEF NS!FinishContents, FP!N!FinishContents, NS!Walking, FP!N!Walking, NS!Same, FP!N!Same, NS!Top, FP!N!Top,
         NS!Walk, FP!N!Walk, NS!Halt, FP!N!Halt, NS!Upset, FP!N!Upset, NS!Here, FP!N!Here, NS!Goto, FP!N!Goto,
         NS!Fine, FP!N!Fine, NS!Stop, FP!N!Stop, NS!InRoot, FP!N!InRoot, NS!Settle, FP!N!Settle, NS!Cleaning,
         FP!N!Cleaning
    <3> QED BY <3>1, <3>2, <3>3, <3>4, <3>5, <3>6, <3>7, <3>8 DEF NS!removeNamespaceContents, FP!N!removeNamespaceContents
  <2>6. NS!closeNamespaceDescriptors => FP!N!closeNamespaceDescriptors
    BY DEF NS!closeNamespaceDescriptors, FP!N!closeNamespaceDescriptors, NS!Cleaning, FP!N!Cleaning, NS!Same,
       FP!N!Same, NS!Fine, FP!N!Fine, NS!Settle, FP!N!Settle, NS!Upset, FP!N!Upset, NS!Stop, FP!N!Stop
  <2> QED BY <2>1, <2>2, <2>3, <2>4, <2>5, <2>6 DEF NS!drainTerminalEffects, FP!N!drainTerminalEffects
<1> QED BY <1>1, <1>2, <1>3, <1>4, <1>5, <1>6, <1>7, <1>8, <1>9 DEF NS!Next, FP!N!Next

LEMMA SameRegistriesBegin == RG!Init => FP!G!Init
BY ZenonT(60) DEF RG!Init, FP!G!Init, RG!Orders, FP!G!Orders, RG!Instances, FP!G!Instances, RG!NoObs, FP!G!NoObs, RG!NoStage,
   FP!G!NoStage, RG!NoCloser, FP!G!NoCloser

LEMMA SameRegistriesStep == RG!Next => FP!G!Next
BY ZenonT(60) DEF RG!Next, FP!G!Next, RG!ConstructDefinition, FP!G!ConstructDefinition, RG!FinishConstruction,
   FP!G!FinishConstruction, RG!Instances, FP!G!Instances, RG!Admit, FP!G!Admit, RG!ValidateNamespace,
   FP!G!ValidateNamespace, RG!acquireStagedOutputLease, FP!G!acquireStagedOutputLease, RG!RunInWorkspace,
   FP!G!RunInWorkspace, RG!AuthorizeWriteOnce, FP!G!AuthorizeWriteOnce, RG!WriteReport, FP!G!WriteReport, RG!Trespass,
   FP!G!Trespass, RG!ProviderEnds, FP!G!ProviderEnds, RG!RevalidateAfterExecution, FP!G!RevalidateAfterExecution,
   RG!stagedFileObservation, FP!G!stagedFileObservation, RG!releaseStagedOutputLease, FP!G!releaseStagedOutputLease,
   RG!observeDone, FP!G!observeDone, RG!Close, FP!G!Close, RG!CancelClose, FP!G!CancelClose, RG!AwaitIdle,
   FP!G!AwaitIdle, RG!AcquireCloseMu, FP!G!AcquireCloseMu, RG!DrainNamespace, FP!G!DrainNamespace, RG!FinishDrain,
   FP!G!FinishDrain, RG!Fine, FP!G!Fine, RG!Upset, FP!G!Upset, RG!AbandonConstruction, FP!G!AbandonConstruction,
   RG!Closing, FP!G!Closing, RG!Observing, FP!G!Observing, RG!Building, FP!G!Building, RG!Staged, FP!G!Staged,
   RG!Fails, FP!G!Fails, RG!ProviderOutputStagingDestination, FP!G!ProviderOutputStagingDestination,
   RG!createStagedOutputDirectory, FP!G!createStagedOutputDirectory, RG!After, FP!G!After, RG!Running, FP!G!Running,
   RG!Grantable, FP!G!Grantable, RG!StagedVerdict, FP!G!StagedVerdict, RG!Removable, FP!G!Removable,
   RG!CleanedEntries, FP!G!CleanedEntries, RG!NoObs, FP!G!NoObs, RG!NoStage, FP!G!NoStage, RG!NoCloser, FP!G!NoCloser,
   RG!ZeroClosed, FP!G!ZeroClosed, RG!Goto, FP!G!Goto, RG!Answer, FP!G!Answer, RG!Undrained, FP!G!Undrained,
   RG!HeldNow, FP!G!HeldNow

LEMMA SameQualificationsBegin == QU!Init => LP!Q!Init
BY DEF QU!Init, LP!Q!Init, QU!Instances, LP!Q!Instances, QU!NoAdmission, LP!Q!NoAdmission, QU!NoProbe, LP!Q!NoProbe

LEMMA SameQualificationsStep == QU!Next => LP!Q!Next
<1>1. QU!AdmitGroup => LP!Q!AdmitGroup
  BY DEF QU!AdmitGroup, LP!Q!AdmitGroup, QU!Order, LP!Q!Order, QU!Family, LP!Q!Family, QU!Group, LP!Q!Group, QU!Fine,
     LP!Q!Fine, QU!Probing, LP!Q!Probing, QU!Delivery, LP!Q!Delivery, QU!Members, LP!Q!Members
<1>2. QU!NewProviderQualificationRegistry => LP!Q!NewProviderQualificationRegistry
  BY DEF QU!NewProviderQualificationRegistry, LP!Q!NewProviderQualificationRegistry, QU!Members, LP!Q!Members,
     QU!Family, LP!Q!Family, QU!Fine, LP!Q!Fine, QU!Constructed, LP!Q!Constructed, QU!Candidate, LP!Q!Candidate,
     QU!Upset, LP!Q!Upset, QU!release, LP!Q!release, QU!Probing, LP!Q!Probing, QU!Delivery, LP!Q!Delivery, QU!Order,
     LP!Q!Order, QU!closeQualifiedRunRegistry, LP!Q!closeQualifiedRunRegistry, QU!Instances, LP!Q!Instances
<1>3. QU!BeginQualification => LP!Q!BeginQualification
  BY DEF QU!BeginQualification, LP!Q!BeginQualification, QU!Members, LP!Q!Members, QU!Family, LP!Q!Family, QU!Kept,
     LP!Q!Kept, QU!NoProbe, LP!Q!NoProbe, QU!Fine, LP!Q!Fine, QU!Delivery, LP!Q!Delivery, QU!Order, LP!Q!Order,
     QU!Group, LP!Q!Group
<1>4. QU!AcquireFixture => LP!Q!AcquireFixture
  BY DEF QU!AcquireFixture, LP!Q!AcquireFixture, QU!Fine, LP!Q!Fine, QU!Upset, LP!Q!Upset, QU!Ends, LP!Q!Ends,
     QU!Delivery, LP!Q!Delivery
<1>5. QU!ProbeVersion => LP!Q!ProbeVersion
  BY ZenonT(60) DEF QU!ProbeVersion, LP!Q!ProbeVersion, QU!Fine, LP!Q!Fine, QU!Breach, LP!Q!Breach, QU!LaunchFails,
     LP!Q!LaunchFails, QU!Delivery, LP!Q!Delivery, QU!Upset, LP!Q!Upset, QU!Ends, LP!Q!Ends, QU!Kept, LP!Q!Kept,
     QU!Causes, LP!Q!Causes, QU!Markers, LP!Q!Markers, QU!classifyProbeFailure, LP!Q!classifyProbeFailure, QU!Group,
     LP!Q!Group, QU!Members, LP!Q!Members, QU!Family, LP!Q!Family, QU!Order, LP!Q!Order
<1>6. QU!ProbeCapability => LP!Q!ProbeCapability
  BY DEF QU!ProbeCapability, LP!Q!ProbeCapability, QU!Fine, LP!Q!Fine, QU!Ends, LP!Q!Ends, QU!Breach, LP!Q!Breach,
     QU!LaunchFails, LP!Q!LaunchFails, QU!Family, LP!Q!Family, QU!Delivery, LP!Q!Delivery, QU!Upset, LP!Q!Upset,
     QU!Kept, LP!Q!Kept, QU!Causes, LP!Q!Causes, QU!Markers, LP!Q!Markers, QU!classifyProbeFailure,
     LP!Q!classifyProbeFailure, QU!Order, LP!Q!Order, QU!Group, LP!Q!Group, QU!Members, LP!Q!Members
<1>7. QU!FinishAgyInvocation => LP!Q!FinishAgyInvocation
  BY DEF QU!FinishAgyInvocation, LP!Q!FinishAgyInvocation, QU!Fine, LP!Q!Fine, QU!Upset, LP!Q!Upset, QU!Kept,
     LP!Q!Kept, QU!Delivery, LP!Q!Delivery, QU!Group, LP!Q!Group, QU!Members, LP!Q!Members, QU!Family, LP!Q!Family,
     QU!Order, LP!Q!Order
<1>8. QU!ObserveQualificationProbe => LP!Q!ObserveQualificationProbe
  BY DEF QU!ObserveQualificationProbe, LP!Q!ObserveQualificationProbe, QU!Fine, LP!Q!Fine, QU!Upset, LP!Q!Upset,
     QU!Ends, LP!Q!Ends, QU!Retryable, LP!Q!Retryable, QU!Delivery, LP!Q!Delivery
<1>9. QU!drainProbeFixtures => LP!Q!drainProbeFixtures
  BY ZenonT(60) DEF QU!drainProbeFixtures, LP!Q!drainProbeFixtures, QU!Fine, LP!Q!Fine, QU!Upset, LP!Q!Upset, QU!Delivery,
     LP!Q!Delivery
<1>10. QU!Admit => LP!Q!Admit
  BY ZenonT(60) DEF QU!Admit, LP!Q!Admit, QU!Fine, LP!Q!Fine, QU!Unavailable, LP!Q!Unavailable, QU!release, LP!Q!release,
     QU!Kept, LP!Q!Kept, QU!Probing, LP!Q!Probing, QU!Delivery, LP!Q!Delivery, QU!Retryable, LP!Q!Retryable,
     QU!closeQualifiedRunRegistry, LP!Q!closeQualifiedRunRegistry, QU!Instances, LP!Q!Instances, QU!Group, LP!Q!Group,
     QU!Upset, LP!Q!Upset, QU!Members, LP!Q!Members, QU!Family, LP!Q!Family, QU!Order, LP!Q!Order
<1>11. QU!AdmitRoute => LP!Q!AdmitRoute
  BY ZenonT(60) DEF QU!AdmitRoute, LP!Q!AdmitRoute, QU!Members, LP!Q!Members, QU!Family, LP!Q!Family, QU!Candidate,
     LP!Q!Candidate, QU!Fine, LP!Q!Fine, QU!release, LP!Q!release, QU!NotDerived, LP!Q!NotDerived,
     QU!QualificationInvalid, LP!Q!QualificationInvalid, QU!Probing, LP!Q!Probing, QU!Delivery, LP!Q!Delivery,
     QU!Order, LP!Q!Order, QU!closeQualifiedRunRegistry, LP!Q!closeQualifiedRunRegistry, QU!Instances, LP!Q!Instances,
     QU!selectFamilyRepresentative, LP!Q!selectFamilyRepresentative, QU!Upset, LP!Q!Upset, QU!Kept, LP!Q!Kept,
     QU!Position, LP!Q!Position, QU!Group, LP!Q!Group, QU!Sorted, LP!Q!Sorted
<1>12. QU!NextGroup => LP!Q!NextGroup
  BY ZenonT(60) DEF QU!NextGroup, LP!Q!NextGroup, QU!Members, LP!Q!Members, QU!Family, LP!Q!Family, QU!Fine, LP!Q!Fine,
     QU!Probing, LP!Q!Probing, QU!Delivery, LP!Q!Delivery, QU!Order, LP!Q!Order
<1>13. QU!ReleaseAll => LP!Q!ReleaseAll
  BY ZenonT(60) DEF QU!ReleaseAll, LP!Q!ReleaseAll, QU!release, LP!Q!release, QU!Kept, LP!Q!Kept, QU!Probing, LP!Q!Probing,
     QU!Delivery, LP!Q!Delivery, QU!closeQualifiedRunRegistry, LP!Q!closeQualifiedRunRegistry, QU!Instances,
     LP!Q!Instances, QU!Group, LP!Q!Group, QU!Fine, LP!Q!Fine, QU!Upset, LP!Q!Upset, QU!Members, LP!Q!Members,
     QU!Family, LP!Q!Family, QU!Order, LP!Q!Order
<1>14. QU!Assemble => LP!Q!Assemble
  BY ZenonT(60) DEF QU!Assemble, LP!Q!Assemble, QU!Fine, LP!Q!Fine, QU!Upset, LP!Q!Upset, QU!Probing, LP!Q!Probing
<1>15. QU!CloseAdmitted => LP!Q!CloseAdmitted
  BY ZenonT(60) DEF QU!CloseAdmitted, LP!Q!CloseAdmitted, QU!Fine, LP!Q!Fine, QU!CompositeClose, LP!Q!CompositeClose, QU!Probing,
     LP!Q!Probing, QU!Position, LP!Q!Position, QU!Sorted, LP!Q!Sorted, QU!Upset, LP!Q!Upset, QU!Instances,
     LP!Q!Instances, QU!Members, LP!Q!Members, QU!Order, LP!Q!Order
<1>19. QU!Sorted = LP!Q!Sorted
  BY DEF QU!Sorted, LP!Q!Sorted, QU!Members, LP!Q!Members, QU!Order, LP!Q!Order
<1>20. (QU!Evidenced <=> LP!Q!Evidenced) /\ QU!Candidates = LP!Q!Candidates
  <2>0. \A s : QU!Cardinality(s) = LP!Q!Cardinality(s)
    BY DEF QU!Cardinality, LP!Q!Cardinality
  <2>1. QU!Evidenced <=> LP!Q!Evidenced
    BY <2>0, ZenonT(60) DEF QU!Evidenced, LP!Q!Evidenced
  <2>2. QU!Candidates = LP!Q!Candidates
    BY <1>19, ZenonT(60) DEF QU!Candidates, LP!Q!Candidates
  <2> QED BY <2>1, <2>2
<1>21. \A instances, alive, done : QU!CompositeClose(instances, alive, done) <=> LP!Q!CompositeClose(instances, alive, done)
  BY DEF QU!CompositeClose, LP!Q!CompositeClose, QU!Position, LP!Q!Position, QU!Sorted, LP!Q!Sorted, QU!Fine,
     LP!Q!Fine, QU!Upset, LP!Q!Upset, QU!Instances, LP!Q!Instances, QU!Members, LP!Q!Members, QU!Order, LP!Q!Order
<1>16. QU!UndoRun => LP!Q!UndoRun
  BY <1>20, <1>21, ZenonT(60) DEF QU!UndoRun, LP!Q!UndoRun, QU!Probing, LP!Q!Probing
<1>17. QU!DrainOwned => LP!Q!DrainOwned
  BY <1>20, <1>21, ZenonT(60) DEF QU!DrainOwned, LP!Q!DrainOwned, QU!Probing, LP!Q!Probing
<1>18. QU!Cancel => LP!Q!Cancel
  BY DEF QU!Cancel, LP!Q!Cancel, QU!Upset, LP!Q!Upset, QU!Probing, LP!Q!Probing, QU!Delivery, LP!Q!Delivery
<1>22. QU!Rest => LP!Q!Rest
  BY DEF QU!Rest, LP!Q!Rest, QU!vars, LP!Q!vars
<1> QED BY <1>1, <1>2, <1>3, <1>4, <1>5, <1>6, <1>7, <1>8, <1>9, <1>10, <1>11, <1>12, <1>13, <1>14, <1>15, <1>16,
     <1>17, <1>18, <1>22 DEF QU!Next, LP!Q!Next

LEMMA SameDiagnosticsBegin == D!Init => LP!D!Init
BY DEF D!Init, LP!D!Init, D!Terminals, LP!D!Terminals

LEMMA SameDiagnosticsStep == D!Next => LP!D!Next
<1>1. D!Open => LP!D!Open
  BY DEF D!Open, LP!D!Open, D!Numbered, LP!D!Numbered, D!Calm, LP!D!Calm, D!Replaced, LP!D!Replaced, D!NotReplaced,
     LP!D!NotReplaced, D!Upset, LP!D!Upset, D!Uncertain, LP!D!Uncertain
<1>2. D!Emit("ordinary") => LP!D!Emit("ordinary")
  BY DEF D!Emit, LP!D!Emit, D!Fits, LP!D!Fits, D!Appends, LP!D!Appends, D!Calm, LP!D!Calm, D!Upset, LP!D!Upset
<1>3. D!Emit("mandatory") => LP!D!Emit("mandatory")
  BY DEF D!Emit, LP!D!Emit, D!Fits, LP!D!Fits, D!Appends, LP!D!Appends, D!Calm, LP!D!Calm, D!Upset, LP!D!Upset
<1>4. D!ReplaceStatus => LP!D!ReplaceStatus
  BY DEF D!ReplaceStatus, LP!D!ReplaceStatus, D!Replaced, LP!D!Replaced, D!Calm, LP!D!Calm, D!Status, LP!D!Status,
     D!NotReplaced, LP!D!NotReplaced, D!Upset, LP!D!Upset, D!Uncertain, LP!D!Uncertain
<1>5. D!ReplaceOther => LP!D!ReplaceOther
  BY DEF D!ReplaceOther, LP!D!ReplaceOther, D!Upset, LP!D!Upset
<1>6. D!FinalizeBegins => LP!D!FinalizeBegins
  BY DEF D!FinalizeBegins, LP!D!FinalizeBegins, D!Files, LP!D!Files
<1>7. D!FinalizeTerminal => LP!D!FinalizeTerminal
  BY DEF D!FinalizeTerminal, LP!D!FinalizeTerminal, D!FinalizeEvent, LP!D!FinalizeEvent, D!Fits, LP!D!Fits, D!Appends,
     LP!D!Appends, D!Calm, LP!D!Calm, D!Upset, LP!D!Upset
<1>8. D!FinalizeClosed => LP!D!FinalizeClosed
  BY DEF D!FinalizeClosed, LP!D!FinalizeClosed, D!FinalizeEvent, LP!D!FinalizeEvent, D!Fits, LP!D!Fits, D!Appends,
     LP!D!Appends, D!Calm, LP!D!Calm, D!Upset, LP!D!Upset
<1>9. D!FinalizeStatus => LP!D!FinalizeStatus
  BY DEF D!FinalizeStatus, LP!D!FinalizeStatus, D!Replaced, LP!D!Replaced, D!Calm, LP!D!Calm, D!Status, LP!D!Status,
     D!NotReplaced, LP!D!NotReplaced, D!Upset, LP!D!Upset, D!Uncertain, LP!D!Uncertain
<1>10. D!FinalizeEnds => LP!D!FinalizeEnds
  BY DEF D!FinalizeEnds, LP!D!FinalizeEnds, D!Files, LP!D!Files
<1>11. D!Kill => LP!D!Kill
  BY DEF D!Kill, LP!D!Kill, D!Upset, LP!D!Upset, D!Fits, LP!D!Fits
<1>12. D!PowerLoss => LP!D!PowerLoss
  BY ZenonT(60) DEF D!PowerLoss, LP!D!PowerLoss, D!Upset, LP!D!Upset
<1> QED BY <1>1, <1>2, <1>3, <1>4, <1>5, <1>6, <1>7, <1>8, <1>9, <1>10, <1>11, <1>12 DEF D!Next, LP!D!Next

LEMMA SameSourcesBegin == LS!Init => LP!S!Init
BY ZenonT(60) DEF LS!Init, LP!S!Init, LS!Scopes, LP!S!Scopes, LS!b1, LP!S!b1, LS!b2, LP!S!b2, LS!Unmerged, LP!S!Unmerged,
   LS!NoTarget, LP!S!NoTarget, LS!Nobody, LP!S!Nobody, LS!Nothing, LP!S!Nothing, LS!Absent, LP!S!Absent, LS!NoAnswer,
   LP!S!NoAnswer, LS!Begins, LP!S!Begins

LEMMA SameSourcesStep == LS!Next => LP!S!Next
<1>1. LS!Others => LP!S!Others
  <2>1. LS!Moves(v1) = LP!S!Moves(v1)
    BY DEF LS!Moves, LP!S!Moves, LS!b2, LP!S!b2, LS!Absent, LP!S!Absent, LS!b1, LP!S!b1, LS!Unmerged,
       LP!S!Unmerged
  <2>2. \A f : LS!Witness(v12, f) = LP!S!Witness(v12, f)
    BY DEF LS!Witness, LP!S!Witness, LS!Begins, LP!S!Begins
  <2> QED BY <2>1, <2>2, ZenonT(60) DEF LS!Others, LP!S!Others
<1>2. LS!OpenLiveSource => LP!S!OpenLiveSource
  BY DEF LS!OpenLiveSource, LP!S!OpenLiveSource, LS!AfterSide, LP!S!AfterSide, LS!Begins, LP!S!Begins, LS!revalidate,
     LP!S!revalidate, LS!bindingDescriptorRoot, LP!S!bindingDescriptorRoot, LS!LeaseRevalidate, LP!S!LeaseRevalidate,
     LS!observeBindingDirectories, LP!S!observeBindingDirectories, LS!checkGitMetadata, LP!S!checkGitMetadata,
     LS!Nothing, LP!S!Nothing, LS!Absent, LP!S!Absent, LS!First, LP!S!First, LS!NoAnswer, LP!S!NoAnswer
<1>3. LS!Check => LP!S!Check
  BY ZenonT(60) DEF LS!Check, LP!S!Check, LS!revalidate, LP!S!revalidate, LS!bindingDescriptorRoot, LP!S!bindingDescriptorRoot,
     LS!LeaseRevalidate, LP!S!LeaseRevalidate, LS!observeBindingDirectories, LP!S!observeBindingDirectories,
     LS!checkGitMetadata, LP!S!checkGitMetadata, LS!Goes, LP!S!Goes, LS!Fails, LP!S!Fails, LS!Ends, LP!S!Ends,
     LS!Nothing, LP!S!Nothing, LS!Absent, LP!S!Absent, LS!Steady, LP!S!Steady
<1>4. LS!Git => LP!S!Git
  BY ZenonT(60) DEF LS!Git, LP!S!Git, LS!GitSucceeds, LP!S!GitSucceeds, LS!Inventory, LP!S!Inventory, LS!At, LP!S!At, LS!IndexOf,
     LP!S!IndexOf, LS!b3, LP!S!b3, LS!Unmerged, LP!S!Unmerged, LS!Has, LP!S!Has, LS!Own, LP!S!Own, LS!Resolves,
     LP!S!Resolves, LS!Commits, LP!S!Commits, LS!Parents, LP!S!Parents, LS!HeadOf, LP!S!HeadOf, LS!SideOf,
     LP!S!SideOf, LS!MergeBase, LP!S!MergeBase, LS!AfterSide, LP!S!AfterSide, LS!Blobs, LP!S!Blobs, LS!b1, LP!S!b1,
     LS!b2, LP!S!b2, LS!GitTarget, LP!S!GitTarget, LS!Diff, LP!S!Diff, LS!Absent, LP!S!Absent, LS!TreeAt, LP!S!TreeAt,
     LS!Tree, LP!S!Tree, LS!Steady, LP!S!Steady
<1>5. LS!Confirm => LP!S!Confirm
  BY ZenonT(60) DEF LS!Confirm, LP!S!Confirm, LS!revalidate, LP!S!revalidate, LS!bindingDescriptorRoot,
     LP!S!bindingDescriptorRoot, LS!LeaseRevalidate, LP!S!LeaseRevalidate, LS!observeBindingDirectories,
     LP!S!observeBindingDirectories, LS!Fails, LP!S!Fails, LS!Ends, LP!S!Ends, LS!Nothing, LP!S!Nothing, LS!Absent,
     LP!S!Absent, LS!Runs, LP!S!Runs, LS!NextCommand, LP!S!NextCommand, LS!NewLiveSourceTarget,
     LP!S!NewLiveSourceTarget, LS!AfterSide, LP!S!AfterSide
<1>6. LS!Walk => LP!S!Walk
  BY DEF LS!Walk, LP!S!Walk, LS!Fails, LP!S!Fails, LS!Ends, LP!S!Ends, LS!Nothing, LP!S!Nothing, LS!Absent,
     LP!S!Absent, LS!Goes, LP!S!Goes, LS!Steady, LP!S!Steady
<1>7. LS!Start => LP!S!Start
  BY DEF LS!Start, LP!S!Start, LS!revalidate, LP!S!revalidate, LS!bindingDescriptorRoot, LP!S!bindingDescriptorRoot,
     LS!LeaseRevalidate, LP!S!LeaseRevalidate, LS!observeBindingDirectories, LP!S!observeBindingDirectories, LS!Fails,
     LP!S!Fails, LS!Ends, LP!S!Ends, LS!Nothing, LP!S!Nothing, LS!Absent, LP!S!Absent, LS!Runs, LP!S!Runs, LS!Goes,
     LP!S!Goes, LS!Steady, LP!S!Steady
<1>8. LS!readRegularWithLimit => LP!S!readRegularWithLimit
  BY DEF LS!readRegularWithLimit, LP!S!readRegularWithLimit, LS!openPath, LP!S!openPath, LS!Fails, LP!S!Fails,
     LS!Ends, LP!S!Ends, LS!Nothing, LP!S!Nothing, LS!Absent, LP!S!Absent, LS!Steady, LP!S!Steady, LS!openRegular,
     LP!S!openRegular, LS!ReadAll, LP!S!ReadAll, LS!Same, LP!S!Same, LS!Look, LP!S!Look, LS!sameStableFile,
     LP!S!sameStableFile, LS!Goes, LP!S!Goes
<1>9. LS!Final => LP!S!Final
  BY DEF LS!Final, LP!S!Final, LS!Ends, LP!S!Ends, LS!Nothing, LP!S!Nothing, LS!Absent, LP!S!Absent, LS!revalidate,
     LP!S!revalidate, LS!bindingDescriptorRoot, LP!S!bindingDescriptorRoot, LS!LeaseRevalidate, LP!S!LeaseRevalidate,
     LS!observeBindingDirectories, LP!S!observeBindingDirectories, LS!Steady, LP!S!Steady
<1>10. LS!Close => LP!S!Close
  BY DEF LS!Close, LP!S!Close
<1>11. (\E side \in LS!Sides : LS!readLive(side)) => (\E side \in LP!S!Sides : LP!S!readLive(side))
  BY ZenonT(60) DEF LS!Sides, LP!S!Sides, LS!readLive, LP!S!readLive, LS!Begin, LP!S!Begin, LS!Begins, LP!S!Begins, LS!Nothing,
     LP!S!Nothing, LS!Absent, LP!S!Absent
<1>12. LS!prepareLiveArtistContext => LP!S!prepareLiveArtistContext
  BY ZenonT(60) DEF LS!prepareLiveArtistContext, LP!S!prepareLiveArtistContext, LS!Prepare, LP!S!Prepare, LS!Begin, LP!S!Begin,
     LS!Begins, LP!S!Begins, LS!Nothing, LP!S!Nothing, LS!Absent, LP!S!Absent, LS!AfterSide, LP!S!AfterSide, LS!Learn,
     LP!S!Learn, LS!Shown, LP!S!Shown, LS!Paired, LP!S!Paired, LS!VerifyBinary, LP!S!VerifyBinary, LS!Nobody,
     LP!S!Nobody
<1> QED BY <1>1, <1>2, <1>3, <1>4, <1>5, <1>6, <1>7, <1>8, <1>9, <1>10, <1>11, <1>12 DEF LS!Next, LP!S!Next

-----------------------------------------------------------------------------
(* What the proofs ask of the constants holds of the run's.                *)

LEMMA StreamsAreStreams == Streams \subseteq FP!W!SourceType
<1> DEFINE Chunks == Seq({"plain", "secret"})
<1>1. {<<>>, <<"plain">>, <<"secret">>, <<"plain", "secret">>, <<"plain", "plain", "plain">>} \subseteq Chunks
  OBVIOUS
<1>2. ASSUME NEW c \in Chunks, NEW e \in {"eof", "error"}, NEW s \in BOOLEAN, NEW x \in BOOLEAN
      PROVE  [chunks |-> c, end |-> e, scan |-> s, expected |-> x] \in FP!W!SourceType
  BY <1>2 DEF FP!W!SourceType
<1> HIDE DEF Chunks
<1>3. \A c \in {<<>>, <<"plain">>, <<"plain", "secret">>, <<"plain", "plain", "plain">>} :
        [chunks |-> c, end |-> "eof", scan |-> TRUE, expected |-> TRUE] \in FP!W!SourceType
  BY <1>1, <1>2, ZenonT(60)
<1>4. {[chunks |-> <<"secret">>, end |-> "eof", scan |-> FALSE, expected |-> TRUE],
       [chunks |-> <<"plain">>, end |-> "eof", scan |-> FALSE, expected |-> FALSE],
       [chunks |-> <<"plain">>, end |-> "error", scan |-> TRUE, expected |-> TRUE]} \subseteq FP!W!SourceType
  BY <1>1, <1>2, ZenonT(60)
<1> QED BY <1>3, <1>4, ZenonT(60) DEF Streams

LEMMA RunConstants ==
  FP!InitsAreApart /\ FP!WriterConstants /\ FP!ExportConstants /\ FP!FileConstants /\ LP!LogConstants
<1>1. FP!InitsAreApart
  BY CleanersAssumption DEF FP!InitsAreApart
<1>2. Streams \subseteq FP!W!SourceType
  BY StreamsAreStreams
<1>3. FP!WriterConstants
  BY <1>2, CleanersAssumption DEF FP!WriterConstants
<1>4. FP!ExportConstants
  BY CleanersAssumption DEF FP!ExportConstants, FP!E!None, ExportRequests
<1>5. FP!FileConstants
  BY CleanersAssumption DEF FP!FileConstants
<1>6. LP!LogConstants
  BY DEF LP!LogConstants
<1> QED BY <1>1, <1>3, <1>4, <1>5, <1>6

-----------------------------------------------------------------------------
(* The invariants of the run.                                              *)

InitsInv == which = "init" => FP!InstallInv
WritersInv == which = "writer" => FP!WriterInv
ExportsInv == which = "export" => FP!ExportInv
FilesInv == which = "files" => FP!FileInv
LiveRunInv == which = "live" => LP!LiveInv
NamespacesInv == which = "namespace" => FP!NamespaceInv
RegistriesInv == which = "registry" => FP!RegistryInv
QualificationsInv == which = "qualify" => LP!QualificationInv
DiagnosticsInv == which = "diagnostics" => LP!DiagnosticInv
SourcesInv == which = "source" => LP!SourceInv

StoresInv ==
  /\ InitsInv /\ WritersInv /\ ExportsInv /\ FilesInv /\ LiveRunInv
  /\ NamespacesInv /\ RegistriesInv /\ QualificationsInv /\ DiagnosticsInv /\ SourcesInv

LEMMA StoresInit == Init => StoresInv
<1> SUFFICES ASSUME Init PROVE StoresInv
  OBVIOUS
<1>1. /\ which = "init" => I!Init
      /\ which = "writer" => W!Init
      /\ which = "export" => E!Init
      /\ which = "files" => PF!Init
      /\ which = "live" => L!Init
      /\ which = "namespace" => NS!Init
      /\ which = "registry" => RG!Init
      /\ which = "qualify" => QU!Init
      /\ which = "diagnostics" => D!Init
      /\ which = "source" => LS!Init
  BY DEF Init, Algorithms
<1>2. InitsInv
  BY <1>1, SameInitsBegin, FP!InstallInit DEF InitsInv
<1>3. WritersInv
  BY <1>1, SameWritersBegin, RunConstants, FP!WriterBegins DEF WritersInv
<1>4. ExportsInv
  BY <1>1, SameExportsBegin, RunConstants, FP!ExportBegins DEF ExportsInv
<1>5. FilesInv
  BY <1>1, SameFilesBegin, RunConstants, FP!FilesBegin DEF FilesInv
<1>6. LiveRunInv
  BY <1>1, SameLiveRunsBegin, LP!LiveInit DEF LiveRunInv
<1>7. NamespacesInv
  BY <1>1, SameNamespacesBegin, FP!NamespaceBegins DEF NamespacesInv
<1>8. RegistriesInv
  BY <1>1, SameRegistriesBegin, FP!RegistryBegins DEF RegistriesInv
<1>9. QualificationsInv
  BY <1>1, SameQualificationsBegin, LP!QualificationBegins DEF QualificationsInv
<1>10. DiagnosticsInv
  BY <1>1, SameDiagnosticsBegin, RunConstants, LP!DiagnosticsBegin DEF DiagnosticsInv
<1>11. SourcesInv
  BY <1>1, SameSourcesBegin, LP!SourceBegins DEF SourcesInv
<1> QED BY <1>2, <1>3, <1>4, <1>5, <1>6, <1>7, <1>8, <1>9, <1>10, <1>11 DEF StoresInv

\* A step of the run is one of its component.
LEMMA StoresStep ==
  ASSUME [Next]_vars
  PROVE  /\ which' = which
         /\ which = "init" => I!Next \/ UNCHANGED FP!I!vars
         /\ which = "writer" => W!Next \/ UNCHANGED FP!W!vars
         /\ which = "export" => E!Next \/ UNCHANGED FP!E!vars
         /\ which = "files" => PF!Next \/ UNCHANGED FP!F!vars
         /\ which = "live" => L!Next \/ UNCHANGED LP!vars
         /\ which = "namespace" => NS!Next \/ UNCHANGED FP!N!vars
         /\ which = "registry" => RG!Next \/ UNCHANGED FP!G!vars
         /\ which = "qualify" => QU!Next \/ UNCHANGED LP!Q!vars
         /\ which = "diagnostics" => D!Next \/ UNCHANGED LP!D!vars
         /\ which = "source" => LS!Next \/ UNCHANGED LP!S!vars
<1>1. CASE Next
  BY <1>1 DEF Next, Algorithms
<1>2. CASE UNCHANGED vars
  BY <1>2 DEF vars, slots, FP!I!vars, FP!W!vars, FP!E!vars, FP!F!vars, LP!vars, FP!N!vars, FP!G!vars, LP!Q!vars,
     LP!D!vars, LP!S!vars
<1> QED BY <1>1, <1>2

LEMMA StoresNext == StoresInv /\ [Next]_vars => StoresInv'
<1> SUFFICES ASSUME StoresInv, [Next]_vars PROVE StoresInv'
  OBVIOUS
<1>1. InitsInv'
  <2> SUFFICES ASSUME which' = "init" PROVE FP!InstallInv'
    BY DEF InitsInv
  <2>1. which = "init" /\ [FP!I!Next]_(FP!I!vars)
    BY StoresStep, SameInitsStep
  <2> QED BY RunConstants, <2>1, FP!InstallStep DEF StoresInv, InitsInv
<1>2. WritersInv'
  <2> SUFFICES ASSUME which' = "writer" PROVE FP!WriterInv'
    BY DEF WritersInv
  <2>1. which = "writer" /\ [FP!W!Next]_(FP!W!vars)
    BY StoresStep, SameWritersStep
  <2> QED BY RunConstants, <2>1, FP!WriterNext DEF StoresInv, WritersInv
<1>3. ExportsInv'
  <2> SUFFICES ASSUME which' = "export" PROVE FP!ExportInv'
    BY DEF ExportsInv
  <2>1. which = "export" /\ [FP!E!Next]_(FP!E!vars)
    BY StoresStep, SameExportsStep
  <2> QED BY RunConstants, <2>1, FP!ExportNext DEF StoresInv, ExportsInv
<1>4. FilesInv'
  <2> SUFFICES ASSUME which' = "files" PROVE FP!FileInv'
    BY DEF FilesInv
  <2>1. which = "files" /\ [FP!F!Next]_(FP!F!vars)
    BY StoresStep, SameFilesStep
  <2> QED BY RunConstants, <2>1, FP!FilesNext DEF StoresInv, FilesInv
<1>5. LiveRunInv'
  <2> SUFFICES ASSUME which' = "live" PROVE LP!LiveInv'
    BY DEF LiveRunInv
  <2>1. which = "live" /\ [LP!Next]_(LP!vars)
    BY StoresStep, SameLiveRunsStep
  <2> QED BY <2>1, LP!LiveNext DEF StoresInv, LiveRunInv
<1>6. NamespacesInv'
  <2> SUFFICES ASSUME which' = "namespace" PROVE FP!NamespaceInv'
    BY DEF NamespacesInv
  <2>1. which = "namespace" /\ [FP!N!Next]_(FP!N!vars)
    BY StoresStep, SameNamespacesStep
  <2> QED BY <2>1, FP!NamespaceSteps DEF StoresInv, NamespacesInv
<1>7. RegistriesInv'
  <2> SUFFICES ASSUME which' = "registry" PROVE FP!RegistryInv'
    BY DEF RegistriesInv
  <2>1. which = "registry" /\ [FP!G!Next]_(FP!G!vars)
    BY StoresStep, SameRegistriesStep
  <2> QED BY <2>1, FP!RegistrySteps DEF StoresInv, RegistriesInv
<1>8. QualificationsInv'
  <2> SUFFICES ASSUME which' = "qualify" PROVE LP!QualificationInv'
    BY DEF QualificationsInv
  <2>1. which = "qualify" /\ [LP!Q!Next]_(LP!Q!vars)
    BY StoresStep, SameQualificationsStep
  <2> QED BY <2>1, LP!QualificationSteps DEF StoresInv, QualificationsInv
<1>9. DiagnosticsInv'
  <2> SUFFICES ASSUME which' = "diagnostics" PROVE LP!DiagnosticInv'
    BY DEF DiagnosticsInv
  <2>1. which = "diagnostics" /\ [LP!D!Next]_(LP!D!vars)
    BY StoresStep, SameDiagnosticsStep
  <2> QED BY RunConstants, <2>1, LP!DiagnosticSteps DEF StoresInv, DiagnosticsInv
<1>10. SourcesInv'
  <2> SUFFICES ASSUME which' = "source" PROVE LP!SourceInv'
    BY DEF SourcesInv
  <2>1. which = "source" /\ [LP!S!Next]_(LP!S!vars)
    BY StoresStep, SameSourcesStep
  <2> QED BY <2>1, LP!SourceSteps DEF StoresInv, SourcesInv
<1> QED BY <1>1, <1>2, <1>3, <1>4, <1>5, <1>6, <1>7, <1>8, <1>9, <1>10 DEF StoresInv

(* Every behaviour of the run keeps the invariant of its component, for any *)
(* number of commands at once (MCStores).                                   *)
THEOREM StoresInvariant == Spec => []StoresInv
<1>1. Init => StoresInv
  BY StoresInit
<1>2. StoresInv /\ [Next]_vars => StoresInv'
  BY StoresNext
<1> QED BY <1>1, <1>2, PTL DEF Spec

(* mulgae init, any number of commands at once: the outcome of each was    *)
(* validated before the first mutation, its write state is what it did, a  *)
(* committed pair is on the disk, and two never both initialize.           *)
THEOREM InitStaysHonest == Spec => []InitIsHonest
<1>1. FP!InstallInv => I!EveryOutcomeListed /\ I!WriteStateIsTrue /\ I!CommittedIsDurable /\ I!OneInitCommits
  <2>1. FP!I!EveryOutcomeListed /\ FP!I!WriteStateIsTrue => I!EveryOutcomeListed /\ I!WriteStateIsTrue
    BY DEF I!EveryOutcomeListed, FP!I!EveryOutcomeListed, I!WriteStateIsTrue, FP!I!WriteStateIsTrue, I!Unconfirmed,
       FP!I!Unconfirmed
  <2>2. FP!I!CommittedIsDurable /\ FP!I!OneInitCommits => I!CommittedIsDurable /\ I!OneInitCommits
    BY DEF I!CommittedIsDurable, FP!I!CommittedIsDurable, I!Admitted, FP!I!Admitted, I!OneInitCommits,
       FP!I!OneInitCommits
  <2> QED BY <2>1, <2>2, FP!InstallIsHonest
<1>2. StoresInv => InitIsHonest
  BY <1>1 DEF StoresInv, InitsInv, InitIsHonest
<1> QED BY <1>2, StoresInvariant, PTL

(* Secure writes, exports and the store's file operations, any number of    *)
(* them at once, keep what the writers' callers rely on: only whole, clean, *)
(* synced streams are installed and a failed write leaves nothing behind;   *)
(* half an exported pair has its intent on the disk and a reported pair     *)
(* stays; no operation removes another's file or undoes what it reported.   *)
THEOREM WritesStaySecure == Spec => []WriteIsSecure
<1>1. FP!WriterInv => W!InstalledIsClean /\ W!FailureLeavesNothing /\ W!ReceiptIsBacked
  <2>1. FP!W!InstalledIsClean /\ FP!W!FailureLeavesNothing /\ FP!W!ReceiptIsBacked
        => W!InstalledIsClean /\ W!FailureLeavesNothing /\ W!ReceiptIsBacked
    BY DEF W!InstalledIsClean, FP!W!InstalledIsClean, W!FailureLeavesNothing, FP!W!FailureLeavesNothing, W!Failures,
       FP!W!Failures, W!ReceiptIsBacked, FP!W!ReceiptIsBacked
  <2> QED BY <2>1, RunConstants, FP!WriterIsSecure
<1>2. FP!ExportInv => E!ManifestBindsBundle /\ E!HalfPairIsJournaled /\ E!ReportedPairStays
  <2>1. FP!E!ManifestBindsBundle /\ FP!E!HalfPairIsJournaled /\ FP!E!ReportedPairStays
        => E!ManifestBindsBundle /\ E!HalfPairIsJournaled /\ E!ReportedPairStays
    BY DEF E!ManifestBindsBundle, FP!E!ManifestBindsBundle, E!Installed, FP!E!Installed, E!HalfPairIsJournaled,
       FP!E!HalfPairIsJournaled, E!Key, FP!E!Key, E!ReportedPairStays, FP!E!ReportedPairStays
  <2> QED BY <2>1, FP!ExportIsPaired
<1>3. FP!FileInv => PF!FilesAreSafe
  <2>1. FP!F!FilesAreSafe => PF!FilesAreSafe
    BY DEF PF!FilesAreSafe, FP!F!FilesAreSafe, PF!NothingIsLost, FP!F!NothingIsLost, PF!Files, FP!F!Files,
       PF!DurableSurvives, FP!F!DurableSurvives, PF!ConflictChangesNothing, FP!F!ConflictChangesNothing,
       PF!OneWriterWins, FP!F!OneWriterWins
  <2> QED BY <2>1, RunConstants, FP!FilesAreKept
<1>4. StoresInv => WriteIsSecure
  BY <1>1, <1>2, <1>3 DEF StoresInv, WritersInv, ExportsInv, FilesInv, WriteIsSecure
<1> QED BY <1>4, StoresInvariant, PTL

(* The providers' namespaces, in whichever of their three lives: a receipt *)
(* of one means that its directory is gone and its credentials were wiped, *)
(* its removal takes a stranger's directory for its own only in the window *)
(* between a look at the name and the call that trusts it, which it then   *)
(* reports, a registry drains none that an observation may use, and a      *)
(* qualification drains those it acquired or hands them to an owner        *)
(* (drainTerminalEffects(), verifyDescriptorDetached(), Close(),           *)
(* qualifyCandidates()).                                                   *)
THEOREM NamespacesStayReclaimed == Spec => []NamespaceIsReclaimed
<1>1. FP!NamespaceInv => NS!NamespaceIsReclaimed
  <2>1. FP!N!NamespaceIsReclaimed => NS!NamespaceIsReclaimed
    BY DEF NS!NamespaceIsReclaimed, FP!N!NamespaceIsReclaimed, NS!ReceiptIsTrue, FP!N!ReceiptIsTrue,
       NS!StrangersAreKept, FP!N!StrangersAreKept, NS!LeftoversAreOwned, FP!N!LeftoversAreOwned, NS!UnverifiedIsKept,
       FP!N!UnverifiedIsKept
  <2> QED BY <2>1, FP!NamespaceIsTornDown
<1>2. FP!RegistryInv => RG!DrainIsExclusive /\ RG!ReceiptIsComplete /\ RG!StagedSuccessIsClean
  <2>1. FP!G!DrainIsExclusive /\ FP!G!ReceiptIsComplete /\ FP!G!StagedSuccessIsClean
        => RG!DrainIsExclusive /\ RG!ReceiptIsComplete /\ RG!StagedSuccessIsClean
    BY DEF RG!DrainIsExclusive, FP!G!DrainIsExclusive, RG!ReceiptIsComplete, FP!G!ReceiptIsComplete,
       RG!StagedSuccessIsClean, FP!G!StagedSuccessIsClean, RG!InFlight, FP!G!InFlight, RG!Instances, FP!G!Instances,
       RG!HeldNow, FP!G!HeldNow, RG!Staged, FP!G!Staged
  <2> QED BY <2>1, FP!RegistryIsReclaimed
<1>3. LP!QualificationInv => QU!QualificationIsOwned
  <2>1. LP!Q!QualificationIsOwned => QU!QualificationIsOwned
    BY DEF QU!QualificationIsOwned, LP!Q!QualificationIsOwned, QU!HeldIsOwned, LP!Q!HeldIsOwned, QU!RunAccountsForAll,
       LP!Q!RunAccountsForAll, QU!BreachFailsClosed, LP!Q!BreachFailsClosed, QU!FixturesAreDrained,
       LP!Q!FixturesAreDrained, QU!Handed, LP!Q!Handed, QU!Candidates, LP!Q!Candidates, QU!Sorted, LP!Q!Sorted,
       QU!Members, LP!Q!Members, QU!Order, LP!Q!Order
  <2> QED BY <2>1, LP!QualificationIsOwnedAlways
<1>4. StoresInv => NamespaceIsReclaimed
  BY <1>1, <1>2, <1>3 DEF StoresInv, NamespacesInv, RegistriesInv, QualificationsInv, NamespaceIsReclaimed
<1> QED BY <1>4, StoresInvariant, PTL

(* A live run, its diagnostics and the reader of its source, each whenever  *)
(* it fails or is disturbed: what the run answers and writes agrees with    *)
(* what it published, the log keeps what it acknowledged and is summarized  *)
(* truly, and what is read of the source is what the source was at one      *)
(* moment of the reading (Execute(), Finalize(), admit(), Read()).          *)
THEOREM LiveRunsStayHonest == Spec => []LiveRunIsHonest
<1>1. LP!LiveInv => L!DriftIsNeverPublished /\ L!StatusIsTrue /\ L!ResultIsComplete /\ L!OwnerIsRetained
  BY LP!LiveRunAnswersAlways DEF LP!LiveRunAnswersTruly, LP!DriftIsNeverPublished, L!DriftIsNeverPublished,
     LP!StatusIsTrue, L!StatusIsTrue, LP!ResultIsComplete, L!ResultIsComplete, LP!OwnerIsRetained, L!OwnerIsRetained
<1>2. LP!DiagnosticInv => /\ D!LogIsNumbered /\ D!AckedIsDurable
                          /\ D!TerminalStatusMatchesLog /\ D!ReserveKeptForMandatory
  <2>1. /\ LP!D!LogIsNumbered => D!LogIsNumbered
        /\ LP!D!AckedIsDurable => D!AckedIsDurable
        /\ LP!D!ReserveKeptForMandatory => D!ReserveKeptForMandatory
    BY DEF LP!D!LogIsNumbered, D!LogIsNumbered, LP!D!Numbered, D!Numbered, LP!D!AckedIsDurable, D!AckedIsDurable,
       LP!D!ReserveKeptForMandatory, D!ReserveKeptForMandatory
  <2>2. LP!D!TerminalStatusMatchesLog => D!TerminalStatusMatchesLog
    BY DEF LP!D!TerminalStatusMatchesLog, D!TerminalStatusMatchesLog, LP!D!LastTerminal, D!LastTerminal,
       LP!D!Terminals, D!Terminals
  <2> QED BY <2>1, <2>2, RunConstants, LP!DiagnosticsAreSoundAlways DEF LP!DiagnosticsAreSound
<1>3. LP!SourceInv => LS!SourceIsPinned
  <2>1. LP!S!AdmissionIsTrue => LS!AdmissionIsTrue
    BY DEF LP!S!AdmissionIsTrue, LS!AdmissionIsTrue, LP!S!NoTarget, LS!NoTarget, LP!S!Unmerged, LS!Unmerged,
       LP!S!Absent, LS!Absent, LP!S!Diff, LS!Diff, LP!S!Tree, LS!Tree, LP!S!Parents, LS!Parents, LP!S!b1, LS!b1,
       LP!S!b2, LS!b2, LP!S!b3, LS!b3
  <2>2. LP!S!ReadIsOfOneMoment /\ LP!S!ImagesWereCompared => LS!ReadIsOfOneMoment /\ LS!ImagesWereCompared
    BY DEF LP!S!ReadIsOfOneMoment, LS!ReadIsOfOneMoment, LP!S!ImagesWereCompared, LS!ImagesWereCompared, LP!S!Tree,
       LS!Tree, LP!S!Absent, LS!Absent, LP!S!b1, LS!b1, LP!S!b2, LS!b2, LP!S!b3, LS!b3
  <2> QED BY <2>1, <2>2, LP!SourceIsPinnedNow DEF LP!S!SourceIsPinned, LS!SourceIsPinned
<1>4. StoresInv => LiveRunIsHonest
  BY <1>1, <1>2, <1>3 DEF StoresInv, LiveRunInv, DiagnosticsInv, SourcesInv, LiveRunIsHonest
<1> QED BY <1>4, StoresInvariant, PTL

-----------------------------------------------------------------------------
(* The contract of a live run, which sees nothing of the other components. *)

LEMMA ContractBegins == Init => LR!Init
<1> SUFFICES ASSUME Init PROVE LR!Init
  OBVIOUS
<1>1. CASE which = "live"
  <2>1. L!Init
    BY <1>1 DEF Init, Algorithms
  <2> QED BY <1>1, <2>1 DEF L!Init, LR!Init, L!LeaseOf, L!ReviewOf
<1>2. CASE which # "live"
  BY <1>2 DEF LR!Init
<1> QED BY <1>1, <1>2

\* A step that the contract of the proofs allows is one that this contract allows.
LEMMA SameContract ==
  ASSUME which = "live", which' = "live", [LP!Contract!Next]_(LP!Contract!vars)
  PROVE  [LR!Next]_(LR!vars)
<1>1. CASE UNCHANGED LP!Contract!vars
  BY <1>1 DEF LP!Contract!vars, LR!vars, LP!LeaseOf, L!LeaseOf, LP!ReviewOf, L!ReviewOf
<1>2. CASE LP!Contract!MakeRoots \/ LP!Contract!Acquire
  BY <1>2 DEF LP!Contract!MakeRoots, LR!MakeRoots, LP!Contract!Acquire, LR!Acquire, LR!Next,
     LP!LeaseOf, L!LeaseOf, LP!ReviewOf, L!ReviewOf
<1>3. CASE LP!Contract!StartProviders \/ LP!Contract!StopProviders
  BY <1>3 DEF LP!Contract!StartProviders, LR!StartProviders, LP!Contract!StopProviders, LR!StopProviders, LR!Next,
     LP!LeaseOf, L!LeaseOf, LP!ReviewOf, L!ReviewOf
<1>4. CASE LP!Contract!Release \/ LP!Contract!Publish
  BY <1>4 DEF LP!Contract!Release, LR!Release, LP!Contract!Publish, LR!Publish, LR!Next,
     LP!LeaseOf, L!LeaseOf, LP!ReviewOf, L!ReviewOf
<1>5. CASE LP!Contract!RemoveRoots \/ LP!Contract!Answer
  BY <1>5 DEF LP!Contract!RemoveRoots, LR!RemoveRoots, LP!Contract!Answer, LR!Answer, LR!Next,
     LP!LeaseOf, L!LeaseOf, LP!ReviewOf, L!ReviewOf
<1> QED BY <1>1, <1>2, <1>3, <1>4, <1>5 DEF LP!Contract!Next

LEMMA ContractKept == StoresInv /\ [Next]_vars => [LR!Next]_(LR!vars)
<1> SUFFICES ASSUME StoresInv, [Next]_vars PROVE LR!Next \/ UNCHANGED LR!vars
  OBVIOUS
<1>1. CASE which = "live"
  <2>1. which' = "live" /\ [LP!Next]_(LP!vars)
    BY <1>1, StoresStep, SameLiveRunsStep
  <2>2. [LP!Contract!Next]_(LP!Contract!vars)
    BY <1>1, <2>1, LP!ContractStep DEF StoresInv, LiveRunInv
  <2> QED BY <1>1, <2>1, <2>2, SameContract
<1>2. CASE which # "live"
  BY <1>2, StoresStep DEF LR!vars
<1> QED BY <1>1, <1>2

(* Every step of a live run is one that its contract allows (ReviewRun):   *)
(* the lease covers the providers, nothing is published before both were   *)
(* given back, and only a published review is answered as a result.        *)
THEOREM LiveRunsKeepTheirContract == Spec => RunImplementsContract
<1>1. Init => LR!Init
  BY ContractBegins
<1>2. StoresInv /\ [Next]_vars => [LR!Next]_(LR!vars)
  BY ContractKept
<1> QED BY <1>1, <1>2, StoresInvariant, PTL DEF Spec, RunImplementsContract, LR!Spec
=============================================================================
