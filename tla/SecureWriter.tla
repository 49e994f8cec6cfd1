---------------------------- MODULE SecureWriter ----------------------------
(***************************************************************************)
(* SecureWriter.write (internal/adapters/filesystem/securewriter.go): a    *)
(* bounded stream is scanned into a private temporary file, synced, and    *)
(* renamed without replacement to its destination, with the directory and  *)
(* the installed bytes verified again after every step that could have     *)
(* raced.  Several writers may aim at one destination; the directory can   *)
(* be swapped, the installed file altered, a system call can fail, a       *)
(* caller can cancel, and the machine can stop.                            *)
(***************************************************************************)
EXTENDS Naturals, Sequences

CONSTANTS
  Writers,      \* concurrent calls, all for one destination
  Sources,      \* the streams they are given
  MaxChunks,    \* request.MaxBytes, in chunks
  MaxUpsets     \* failing system calls and outside interference

(* A source is a stream of chunks ("plain" or "secret") with its end: EOF  *)
(* or an error; `scan` distinguishes Write from the two unscanned entry    *)
(* points, and `expected` says whether a declared content identity, if     *)
(* there is one, matches the bytes.                                        *)
SourceType == [chunks : Seq({"plain", "secret"}), end : {"eof", "error"}, scan : BOOLEAN, expected : BOOLEAN]

VARIABLES
  at,         \* the step each call is at
  src,        \* its source
  pos,        \* chunks copied so far
  bytes,      \* what its file holds: "none", "part", "whole", "synced", "torn"
  named,      \* whether its temporary name exists
  dest,       \* whose file the destination name is, or "none"
  destSynced, \* the directory was synced since the rename
  altered,    \* somebody changed the installed file
  moved,      \* the directory was replaced below its path
  wanted,     \* the context of each call is not cancelled
  verdict,    \* what each call returned
  leaked,     \* a cleanup failed, and the returned error says so
  stopped,    \* the machine stopped
  upsets      \* interference so far

vars == <<at, src, pos, bytes, named, dest, destSynced, altered, moved, wanted, verdict, leaked, stopped, upsets>>

Failures == {"rejected", "cancelled", "error", "discarded"}

Init ==
  /\ at = [w \in Writers |-> "begin"]
  /\ src \in [Writers -> Sources]
  /\ pos = [w \in Writers |-> 0]
  /\ bytes = [w \in Writers |-> "none"]
  /\ named = [w \in Writers |-> FALSE]
  /\ dest = "none" /\ destSynced = FALSE /\ altered = FALSE /\ moved = FALSE
  /\ wanted = [w \in Writers |-> TRUE]
  /\ verdict = [w \in Writers |-> "running"]
  /\ leaked = [w \in Writers |-> FALSE]
  /\ stopped = FALSE /\ upsets = 0

Upset == upsets < MaxUpsets /\ upsets' = upsets + 1
Calm  == UNCHANGED upsets

Goto(w, step) == at' = [at EXCEPT ![w] = step] /\ UNCHANGED <<verdict, leaked>>

Returns(w, result, leaks) ==
  /\ at' = [at EXCEPT ![w] = "done"]
  /\ verdict' = [verdict EXCEPT ![w] = result]
  /\ leaked' = [leaked EXCEPT ![w] = leaks]

(* purgeTemporaryFile: unlink, close and sync the directory.  When one of  *)
(* them fails the returned error is a TemporaryCleanupError as well.       *)
Purges(w, result) ==
  \/ /\ Returns(w, result, FALSE)
     /\ named' = [named EXCEPT ![w] = FALSE]
  \/ /\ upsets < MaxUpsets
     /\ Returns(w, result, TRUE)
     /\ named' \in {named, [named EXCEPT ![w] = FALSE]}

(* What others do to a file is gone with the file.                         *)
Outside == UNCHANGED <<src, moved, wanted, stopped>> /\ altered' = (altered /\ dest' = dest)

Begin(w) ==
  /\ at[w] = "begin"
  /\ \/ /\ Calm /\ Goto(w, "stream")
        /\ named' = [named EXCEPT ![w] = TRUE]
        /\ bytes' = [bytes EXCEPT ![w] = "part"]
     \/ /\ Upset /\ Returns(w, "error", FALSE) /\ UNCHANGED <<named, bytes>>
  /\ UNCHANGED <<pos, dest, destSynced>> /\ Outside

ScansChunk(w) == src[w].scan /\ src[w].chunks[pos[w] + 1] = "secret"

(* One turn of the copying loop: a chunk is copied, the stream is at its    *)
(* end, or the call fails.                                                  *)
CopyChunk(w) ==
  /\ wanted[w] /\ pos[w] < Len(src[w].chunks) /\ pos[w] < MaxChunks /\ ~ScansChunk(w)
  /\ pos' = [pos EXCEPT ![w] = @ + 1]
  /\ Goto(w, "stream") /\ Calm /\ UNCHANGED <<named, bytes>>

EndOfStream(w) ==
  /\ wanted[w] /\ pos[w] = Len(src[w].chunks) /\ src[w].end = "eof"
  /\ bytes' = [bytes EXCEPT ![w] = "whole"]
  /\ Goto(w, "seal") /\ Calm /\ UNCHANGED <<named, pos>>

StreamFails(w) ==
  /\ \/ ~wanted[w] /\ Purges(w, "cancelled") /\ Calm
     \/ /\ wanted[w] /\ pos[w] < Len(src[w].chunks)
        /\ (pos[w] >= MaxChunks \/ ScansChunk(w))
        /\ Purges(w, "rejected") /\ Calm
     \/ /\ wanted[w] /\ pos[w] < Len(src[w].chunks) /\ pos[w] < MaxChunks /\ ~ScansChunk(w)
        /\ Purges(w, "error") /\ Upset
     \/ wanted[w] /\ pos[w] = Len(src[w].chunks) /\ src[w].end = "error" /\ Purges(w, "rejected") /\ Calm
  /\ UNCHANGED <<pos, bytes>>

Stream(w) ==
  /\ at[w] = "stream"
  /\ CopyChunk(w) \/ EndOfStream(w) \/ StreamFails(w)
  /\ UNCHANGED <<dest, destSynced>> /\ Outside

SealUnsynced(w) ==
  /\ at[w] = "seal" /\ wanted[w] /\ src[w].expected
  /\ Goto(w, "install") /\ Calm /\ UNCHANGED <<named, bytes, pos, dest, destSynced>> /\ Outside

(* After EOF: the declared identity, the receipt and the sync of the data. *)
Seal(w) ==
  /\ at[w] = "seal"
  /\ \/ ~wanted[w] /\ Purges(w, "cancelled") /\ Calm /\ UNCHANGED bytes
     \/ wanted[w] /\ ~src[w].expected /\ Purges(w, "rejected") /\ Calm /\ UNCHANGED bytes
     \/ wanted[w] /\ src[w].expected /\ Purges(w, "error") /\ Upset /\ UNCHANGED bytes
     \/ /\ wanted[w] /\ src[w].expected
        /\ bytes' = [bytes EXCEPT ![w] = "synced"]
        /\ Goto(w, "install") /\ Calm /\ UNCHANGED named
  /\ UNCHANGED <<pos, dest, destSynced>> /\ Outside

(* revalidatePrivateDirectory, the last look at the context, and the       *)
(* rename that never replaces.                                             *)
Install(w) ==
  /\ at[w] = "install"
  /\ \/ moved /\ Purges(w, "error") /\ Calm /\ UNCHANGED <<dest, destSynced>>
     \/ ~moved /\ ~wanted[w] /\ Purges(w, "cancelled") /\ Calm /\ UNCHANGED <<dest, destSynced>>
     \/ /\ ~moved /\ wanted[w]
        /\ \/ dest # "none" /\ Purges(w, "error") /\ Calm /\ UNCHANGED <<dest, destSynced>>
           \/ dest = "none" /\ Purges(w, "error") /\ Upset /\ UNCHANGED <<dest, destSynced>>
           \/ /\ dest = "none" /\ dest' = w /\ destSynced' = FALSE
              /\ named' = [named EXCEPT ![w] = FALSE]
              /\ Goto(w, "verify") /\ Calm
  /\ UNCHANGED <<pos, bytes>> /\ Outside

(* discardInstalled: the destination is removed only while it is provably  *)
(* this call's file.                                                       *)
Discards(w) ==
  \/ /\ dest = w /\ dest' = "none"
     /\ Returns(w, "discarded", FALSE) /\ Calm
  \/ /\ Returns(w, "discarded", TRUE) /\ UNCHANGED dest
     /\ IF altered \/ dest # w THEN Calm ELSE Upset

(* The checks around the installed file: its identity and bytes, and the   *)
(* directory that holds it.                                                *)
Changed(w) == dest # w \/ altered \/ moved

Verify(w) ==
  /\ at[w] = "verify"
  /\ \/ Changed(w) /\ Discards(w)
     \/ ~Changed(w) /\ upsets < MaxUpsets /\ Discards(w)
     \/ ~Changed(w) /\ Goto(w, "sync") /\ UNCHANGED <<dest, upsets>>
  /\ UNCHANGED <<pos, bytes, named, destSynced>> /\ Outside

(* The directory sync.  When it fails but the file is still in place, the  *)
(* caller gets its receipt together with an InstalledButUndurableError.    *)
SyncDirectory(w) ==
  /\ at[w] = "sync"
  /\ \/ /\ destSynced' = (destSynced \/ dest = w)
        /\ Goto(w, "final") /\ UNCHANGED <<dest, upsets>>
     \/ /\ UNCHANGED destSynced
        /\ \/ Changed(w) /\ Discards(w)
           \/ ~Changed(w) /\ Upset /\ Returns(w, "undurable", FALSE) /\ UNCHANGED dest
  /\ UNCHANGED <<pos, bytes, named>> /\ Outside

Final(w) ==
  /\ at[w] = "final"
  /\ \/ Changed(w) /\ Discards(w)
     \/ ~Changed(w) /\ Returns(w, "ok", FALSE) /\ UNCHANGED <<dest, upsets>>
  /\ UNCHANGED <<pos, bytes, named, destSynced>> /\ Outside

Write(w) == ~stopped /\ (Begin(w) \/ Stream(w) \/ Seal(w) \/ Install(w) \/ Verify(w) \/ SyncDirectory(w) \/ Final(w))

-----------------------------------------------------------------------------
(* The surroundings.                                                       *)
Quiet == UNCHANGED <<at, src, pos, named, verdict, leaked>>

Cancel(w) ==
  /\ ~stopped /\ wanted[w] /\ at[w] # "done" /\ Upset
  /\ wanted' = [wanted EXCEPT ![w] = FALSE]
  /\ Quiet /\ UNCHANGED <<bytes, dest, destSynced, altered, moved, stopped>>

Alter ==
  /\ ~stopped /\ dest # "none" /\ ~altered /\ Upset
  /\ altered' = TRUE
  /\ Quiet /\ UNCHANGED <<bytes, dest, destSynced, moved, wanted, stopped>>

MoveDirectory ==
  /\ ~stopped /\ ~moved /\ Upset
  /\ moved' = TRUE
  /\ Quiet /\ UNCHANGED <<bytes, dest, destSynced, altered, wanted, stopped>>

(* The machine stops: data that was not synced may be torn, and a rename   *)
(* whose directory was not synced may be undone.                           *)
Stop ==
  /\ ~stopped /\ Upset /\ stopped' = TRUE
  /\ bytes' \in {bytes, [w \in Writers |-> IF bytes[w] = "whole" THEN "torn" ELSE bytes[w]]}
  /\ dest' \in {dest} \cup (IF destSynced THEN {} ELSE {"none"})
  /\ Quiet /\ UNCHANGED <<destSynced, altered, moved, wanted>>

Next == (\E w \in Writers : Write(w) \/ Cancel(w)) \/ Alter \/ MoveDirectory \/ Stop

Spec == Init /\ [][Next]_vars

-----------------------------------------------------------------------------
TypeOK ==
  /\ at \in [Writers -> {"begin", "stream", "seal", "install", "verify", "sync", "final", "done"}]
  /\ src \in [Writers -> Sources] /\ Sources \subseteq SourceType
  /\ pos \in [Writers -> 0 .. MaxChunks]
  /\ bytes \in [Writers -> {"none", "part", "whole", "synced", "torn"}]
  /\ named \in [Writers -> BOOLEAN] /\ wanted \in [Writers -> BOOLEAN] /\ leaked \in [Writers -> BOOLEAN]
  /\ dest \in Writers \cup {"none"} /\ destSynced \in BOOLEAN /\ altered \in BOOLEAN
  /\ moved \in BOOLEAN /\ stopped \in BOOLEAN /\ upsets \in 0 .. MaxUpsets
  /\ verdict \in [Writers -> {"running", "ok", "undurable"} \cup Failures]

(* Nothing is installed before it is whole, synced, within its bound, free *)
(* of what the scanner knows and equal to its declared identity, whatever  *)
(* fails, races or stops: "installs only clean bounded streams".           *)
InstalledIsClean ==
  dest \in Writers =>
    /\ bytes[dest] = "synced"
    /\ src[dest].end = "eof" /\ src[dest].expected
    /\ Len(src[dest].chunks) <= MaxChunks
    /\ src[dest].scan => \A i \in DOMAIN src[dest].chunks : src[dest].chunks[i] # "secret"

(* A call that returned a failure left neither its temporary file nor its  *)
(* installed file behind, unless the error it returned says that a cleanup *)
(* failed.                                                                 *)
FailureLeavesNothing ==
  \A w \in Writers : verdict[w] \in Failures /\ ~leaked[w] => ~named[w] /\ dest # w

(* Of the calls for one destination at most one returns a receipt, and a   *)
(* receipt without a durability warning survives a stop.                   *)
ReceiptIsBacked ==
  /\ \A v, w \in Writers : verdict[v] \in {"ok", "undurable"} /\ verdict[w] \in {"ok", "undurable"} => v = w
  /\ \A w \in Writers : verdict[w] = "ok" => dest = w /\ destSynced

=============================================================================
