----------------------------- MODULE LiveSource -----------------------------
(***************************************************************************)
(* The reader of a live source (adapters/gittarget/live_source_darwin.go,    *)
(* project_binding.go) and the callers that read one file through it:        *)
(* evidence verification (app/evidence/live_source.go) and the artist's      *)
(* input (app/reviewrun/live_artist.go), while somebody else works in the    *)
(* same project.                                                             *)
(*                                                                           *)
(* The root descriptor is opened once; Git is run by path, so what it reads   *)
(* is whatever repository is at the path at that moment, between two          *)
(* revalidations of the binding.  The project has one path of interest, d/a; *)
(* content is a pair of halves, for a read is not one step.  An object id is  *)
(* the content itself: a repository either has the object or does not.       *)
(***************************************************************************)
EXTENDS Naturals, Sequences

CONSTANTS
  MaxMoves,   \* steps of the environment
  MaxReads    \* reads of the evidence verifier

VARIABLES
  fs,       \* the project as it is
  moves,    \* steps the environment has taken
  scope,    \* selector of the source
  lease,    \* the root has a Git binding
  reader,   \* unopened, opening, open, closed, failed
  target,   \* operands and changes resolved by admit()
  pc, cmd,  \* step of the running call, and the Git command it runs
  call,     \* the running call, [op, side, by]
  held,     \* what the running call has read
  answer,   \* the last call's answer, [ok, data]
  past,     \* what the project has been since the running call began
  artist,   \* the artist's preparation, [phase, file, prior, images]
  reads     \* reads of the evidence verifier

vars == <<fs, moves, scope, lease, reader, target, pc, cmd, call, held, answer, past, artist, reads>>

Scopes == {"workspace", "stage", "head", "commit", "diff", "merged"}   \* diff: a..b, merged: a...b
Absent == <<>>
Unmerged == <<0>>
b1 == <<1, 1>>
b2 == <<2, 2>>
b3 == <<3, 3>>

(* Commits of the project, their parents and what they have at d/a; x is the   *)
(* commit of another repository.                                             *)
Parents == [c1 |-> "", c2 |-> "c1", c3 |-> "c1", x |-> ""]
Tree == [c1 |-> b1, c2 |-> b2, c3 |-> Absent, x |-> b3]
Own == {"c1", "c2", "c3"}
Commits == DOMAIN Parents

Nobody == [op |-> "none", side |-> "none", by |-> "none"]
NoTarget == [base |-> "", head |-> "", empty |-> FALSE, changes |-> "none"]
Nothing == [dir |-> "none", ino |-> 0, stamp |-> 0, data |-> Absent]
NoAnswer == [ok |-> FALSE, data |-> Absent]

-----------------------------------------------------------------------------
(* bindingDescriptorRoot(), observeBindingDirectories(): the descriptors still *)
(* have the names they were opened by, and the directories at these names are *)
(* still the ones that were opened.                                          *)
bindingDescriptorRoot == fs.root = "own"
observeBindingDirectories == fs.git = "own"
LeaseRevalidate == bindingDescriptorRoot /\ observeBindingDirectories

revalidate == reader # "closed" /\ bindingDescriptorRoot /\ (lease => LeaseRevalidate)

(* checkGitMetadata(): no alternate object databases, only plain config files. *)
checkGitMetadata == fs.metadata = "plain"

-----------------------------------------------------------------------------
(* Git as a program: it answers for the repository at the path.               *)
At == IF fs.root = "own" /\ fs.git = "own" THEN "own" ELSE IF "gone" \in {fs.root, fs.git} THEN "none" ELSE "other"
Has(commit) == (At = "own" /\ commit \in Own) \/ (At = "other" /\ commit = "x")
HeadOf == IF At = "own" THEN fs.head ELSE "x"
SideOf == IF At = "own" THEN fs.side ELSE "x"
IndexOf == IF At = "own" THEN fs.index ELSE b3
Blobs == IF At = "own" THEN {b1, b2} ELSE IF At = "other" THEN {b3} ELSE {}
Resolves(c) == At # "none" /\ c \in Commits
MergeBase(a, b) == IF a = b \/ Parents[b] = a THEN a ELSE IF Parents[a] = b THEN b
                   ELSE IF Parents[a] = Parents[b] THEN Parents[a] ELSE ""
Diff(a, b) == IF a = b THEN "none" ELSE IF a = Absent THEN "added" ELSE IF b = Absent THEN "deleted" ELSE "modified"

TreeAt(side) ==
  CASE side = "index" -> IndexOf
    [] side = "before" -> IF target.empty THEN Absent ELSE Tree[target.base]
    [] OTHER -> Tree[target.head]
AfterSide == IF scope = "workspace" THEN "worktree" ELSE IF scope = "stage" THEN "index" ELSE "after"
Inventory(side) ==      \* liveObjectEntries() refuses an index with unmerged entries
  IF side = "index" THEN At # "none" /\ IndexOf # Unmerged
  ELSE Has(IF side = "before" THEN target.base ELSE target.head)

(* One Git command: whether it succeeds, and the target with its result.       *)
GitSucceeds(c) ==
  CASE c = "index" -> Inventory("index")
    [] c \in {"HEAD", "right"} -> Resolves(HeadOf)
    [] c \in {"revision", "left"} -> Resolves(SideOf)
    [] c = "symbolic" -> At # "none"                             \* HEAD names a branch
    [] c = "show-ref" -> At # "none" /\ HeadOf = "unborn"        \* exit code 1
    [] c = "parents" -> Has(target.head)
    [] c = "merge-base" -> Has(target.base) /\ Has(target.head) /\ MergeBase(target.base, target.head) # ""
    [] c \in {"after", "before", "list", "entry"} ->
         IF call.side = "worktree" THEN At # "none" ELSE Inventory(call.side)
    [] c = "diff" -> Inventory(AfterSide) /\ (target.empty \/ Has(target.base))
    [] c = "blob" -> held.data \in Blobs
GitTarget(c) ==
  CASE c \in {"HEAD", "right", "revision", "left"} ->
         LET id == IF c \in {"HEAD", "right"} THEN HeadOf ELSE SideOf
         IN IF c = "left" \/ scope = "stage" THEN [target EXCEPT !.base = id] ELSE [target EXCEPT !.head = id]
    [] c = "show-ref" -> [target EXCEPT !.empty = TRUE]
    [] c = "parents" -> [target EXCEPT !.base = Parents[target.head], !.empty = (Parents[target.head] = "")]
    [] c = "merge-base" -> [target EXCEPT !.base = MergeBase(target.base, target.head)]
    [] c = "diff" -> [target EXCEPT !.changes = Diff(TreeAt("before"), TreeAt(AfterSide))]
    [] OTHER -> target

-----------------------------------------------------------------------------
Begins(f) == [heads |-> {f.head}, sides |-> {f.side}, indexes |-> {f.index}, away |-> f.root # "own" \/ f.git # "own",
              contents |-> IF f.dir = "link" THEN {} ELSE {f.files[f.dir].content}]
Witness(p, f) == LET now == Begins(f)
                 IN [heads |-> p.heads \cup now.heads, sides |-> p.sides \cup now.sides, away |-> p.away \/ now.away,
                     indexes |-> p.indexes \cup now.indexes, contents |-> p.contents \cup now.contents]

Init ==
  /\ scope \in Scopes
  /\ lease \in BOOLEAN /\ (scope # "workspace" => lease)
  /\ fs \in [root : {"own"}, git : {"own"}, metadata : {"plain"},
             head : IF scope = "workspace" THEN {"c2"} ELSE {"unborn", "dangling", "c2"},
             side : IF scope \in {"commit", "diff", "merged"} THEN {"c1", "c3"} ELSE {"c1"},
             index : IF scope = "stage" THEN {b1, b2, Unmerged} ELSE {b2},
             dir : {"d1"},
             files : {[d1 |-> [ino |-> 1, stamp |-> 0, content |-> b1], d2 |-> [ino |-> 2, stamp |-> 0, content |-> b2]]}]
  /\ moves = 0 /\ reader = "unopened" /\ target = NoTarget /\ pc = "free" /\ cmd = "none" /\ call = Nobody
  /\ held = Nothing /\ answer = NoAnswer /\ past = Begins(fs)
  /\ artist = [phase |-> "off", file |-> Absent, prior |-> Absent, images |-> <<>>] /\ reads = 0

(* Others rename or replace the root or the Git directory and put them back,   *)
(* commit, stage, write a half of the file, put another file in its place, or  *)
(* a link or another directory in the place of d.                             *)
Moves(f) ==
  {[f EXCEPT !.root = r] : r \in IF f.root = "own" THEN {"gone", "other"} ELSE {"own"}}
  \cup (IF lease THEN {[f EXCEPT !.git = g] : g \in IF f.git = "own" THEN {"other"} ELSE {"own"}}
                      \cup {[f EXCEPT !.metadata = "alternates"]} ELSE {})
  \cup (IF scope = "workspace"
        THEN {[f EXCEPT !.dir = d] : d \in {"d1", "d2", "link"}}
             \cup {[f EXCEPT !.files[d] = [ino |-> @.ino, stamp |-> @.stamp + 1, content |-> [@.content EXCEPT ![h] = 3]]] : d \in {"d1", "d2"}, h \in {1, 2}}
             \cup {[f EXCEPT !.files[d] = [ino |-> @.ino + 2, stamp |-> 0, content |-> b2]] : d \in {"d1", "d2"}}
        ELSE {[f EXCEPT !.head = h] : h \in {"c1", "c2"}} \cup {[f EXCEPT !.side = s] : s \in {"c1", "c3"}})
  \cup (IF scope = "stage" THEN {[f EXCEPT !.index = i] : i \in {Absent, b1, b2, Unmerged}} ELSE {})
Others ==
  /\ moves < MaxMoves
  /\ \E f \in Moves(fs) \ {fs} : fs' = f /\ past' = Witness(past, f)
  /\ moves' = moves + 1
  /\ UNCHANGED <<scope, lease, reader, target, pc, cmd, call, held, answer, artist, reads>>

-----------------------------------------------------------------------------
(* A call ends with an answer; an opening that fails closes the reader.        *)
Ends(ok, data) ==
  /\ pc' = "free" /\ cmd' = "none"
  /\ answer' = [ok |-> ok, data |-> data]
  /\ reader' = IF call.op = "open" THEN IF ok THEN "open" ELSE "failed" ELSE reader
  /\ held' = Nothing
Fails == Ends(FALSE, Absent)
Goes(step) == pc' = step /\ UNCHANGED <<cmd, held, answer, reader>>
Runs(command) == pc' = "check" /\ cmd' = command /\ UNCHANGED <<answer, reader>>

Steady == UNCHANGED <<fs, moves, scope, lease, call, past, artist, reads>>

(* NewLiveSourceTarget(): a scope has its operands and no others.               *)
NewLiveSourceTarget(t) ==
  CASE scope = "workspace" -> t.base = "" /\ t.head = "" /\ ~t.empty
    [] scope = "head" -> t.head # "" /\ t.base = "" /\ ~t.empty
    [] scope = "stage" -> t.head = "" /\ (t.base = "") = t.empty
    [] OTHER -> t.head # "" /\ (t.base = "") = t.empty /\ (scope # "commit" => ~t.empty)

(* admit(): the commands of a scope, in order; the next one, or done.          *)
First == CASE scope = "workspace" -> "list" [] scope = "stage" -> "index" [] scope = "head" -> "HEAD"
           [] scope = "commit" -> "revision" [] OTHER -> "left"
NextCommand(c, t) ==
  CASE c = "index" -> "HEAD"
    [] c = "left" -> "right"
    [] c = "symbolic" -> "show-ref"
    [] c = "revision" -> "parents"
    [] c = "right" -> IF scope = "merged" THEN "merge-base" ELSE "after"
    [] c \in {"HEAD", "show-ref", "parents", "merge-base"} -> "after"
    [] c = "after" -> IF scope = "head" THEN "done" ELSE IF t.empty THEN "diff" ELSE "before"
    [] c = "before" -> "diff"
    [] c \in {"diff", "list"} -> "done"

(* OpenLiveSource(): the root is opened, its binding observed, revalidated.     *)
OpenLiveSource ==
  /\ reader = "unopened" /\ pc = "free"
  /\ call' = [op |-> "open", side |-> AfterSide, by |-> "opener"]
  /\ past' = Begins(fs)
  /\ IF revalidate /\ (lease => checkGitMetadata)
     THEN /\ reader' = "opening" /\ UNCHANGED answer /\ held' = Nothing
          /\ IF lease THEN pc' = "check" /\ cmd' = First ELSE pc' = "walk" /\ UNCHANGED cmd
     ELSE reader' = "failed" /\ answer' = NoAnswer /\ UNCHANGED <<pc, cmd, held>>
  /\ UNCHANGED <<fs, moves, scope, lease, target, artist, reads>>

(* run(): revalidate and check the metadata, run Git, revalidate.              *)
Check ==
  /\ pc = "check"
  /\ IF revalidate /\ checkGitMetadata THEN Goes("git") ELSE Fails
  /\ UNCHANGED target /\ Steady

Git ==
  /\ pc = "git"
  /\ target' = IF call.op = "open" /\ GitSucceeds(cmd) THEN GitTarget(cmd) ELSE target
  /\ answer' = [ok |-> GitSucceeds(cmd), data |-> IF cmd \in {"entry", "list"} /\ GitSucceeds(cmd) /\ call.side # "worktree" THEN TreeAt(call.side) ELSE held.data]
  /\ pc' = "confirm"
  /\ UNCHANGED <<cmd, held, reader>> /\ Steady

(* A failed resolution of HEAD for a stage is followed up: only a branch that  *)
(* is not there makes an empty base.                                         *)
Confirm ==
  /\ pc = "confirm"
  /\ IF ~revalidate THEN Fails
     ELSE IF call.op # "open"
     THEN CASE ~answer.ok \/ (cmd = "entry" /\ answer.data = Absent) -> Fails
            [] answer.ok /\ cmd = "entry" /\ answer.data # Absent -> Runs("blob") /\ held' = [Nothing EXCEPT !.data = answer.data]
            [] answer.ok /\ cmd # "entry" -> pc' = "final" /\ held' = [Nothing EXCEPT !.data = answer.data] /\ UNCHANGED <<cmd, answer, reader>>
     ELSE CASE ~answer.ok -> IF cmd = "HEAD" /\ scope = "stage" THEN Runs("symbolic") /\ UNCHANGED held ELSE Fails
            [] answer.ok -> IF NextCommand(cmd, target) = "done" THEN Ends(NewLiveSourceTarget(target), Absent)
                            ELSE Runs(NextCommand(cmd, target)) /\ UNCHANGED held
  /\ call' = IF call.op = "open" /\ pc' = "check" THEN [call EXCEPT !.side = IF cmd' = "before" THEN "before" ELSE AfterSide] ELSE call
  /\ UNCHANGED <<target, fs, moves, scope, lease, past, artist, reads>>

(* workspacePaths() of a root without Git: a selected link is refused.         *)
Walk ==
  /\ pc = "walk"
  /\ IF fs.dir = "link" THEN Fails ELSE IF call.op = "open" THEN Ends(TRUE, Absent) ELSE Goes("final")
  /\ UNCHANGED target /\ Steady

-----------------------------------------------------------------------------
(* Read() of a worktree file: d is opened from the root's descriptor, a from   *)
(* d's, neither through a link; the file is read between two looks at it       *)
(* (sameStableFile()), and the name is then opened once more.                  *)
Start ==
  /\ pc = "revalidate"
  /\ IF ~revalidate THEN Fails
     ELSE CASE call.side # "worktree" -> Runs(IF call.op = "list" THEN "list" ELSE "entry") /\ held' = Nothing
            [] call.side = "worktree" /\ call.op = "list" -> IF lease THEN Runs("list") /\ held' = Nothing ELSE Goes("walk")
            [] OTHER -> Goes("directory")
  /\ UNCHANGED target /\ Steady

openPath(step, next) ==
  /\ pc = step
  /\ IF fs.dir = "link" THEN Fails ELSE pc' = next /\ held' = [held EXCEPT !.dir = fs.dir] /\ UNCHANGED <<cmd, answer, reader>>
  /\ UNCHANGED target /\ Steady

openRegular ==
  /\ pc = "file"
  /\ pc' = "first" /\ held' = [held EXCEPT !.ino = fs.files[held.dir].ino, !.stamp = fs.files[held.dir].stamp, !.data = Absent]
  /\ UNCHANGED <<cmd, answer, reader>>
  /\ UNCHANGED target /\ Steady

(* A file that lost its name has another change time, whatever is read of it.  *)
Same(file) == file.ino = held.ino
ReadAll(step, half, next) ==
  /\ pc = step
  /\ pc' = next
  /\ held' = [held EXCEPT !.data = Append(@, IF Same(fs.files[held.dir]) THEN fs.files[held.dir].content[half] ELSE 1)]
  /\ UNCHANGED <<cmd, answer, reader>>
  /\ UNCHANGED target /\ Steady

sameStableFile(file) == Same(file) /\ file.stamp = held.stamp
Look(step, next) ==
  /\ pc = step
  /\ IF sameStableFile(fs.files[held.dir]) THEN Goes(next) ELSE Fails
  /\ UNCHANGED target /\ Steady

readRegularWithLimit ==
  \/ openPath("directory", "file") \/ openRegular
  \/ ReadAll("first", 1, "second") \/ ReadAll("second", 2, "after")
  \/ Look("after", "again") \/ openPath("again", "reopened") \/ Look("reopened", "final")

Final ==
  /\ pc = "final"
  /\ Ends(revalidate, IF revalidate THEN held.data ELSE Absent)
  /\ UNCHANGED target /\ Steady

Close ==
  /\ reader = "open" /\ pc = "free"
  /\ reader' = "closed"
  /\ UNCHANGED <<fs, moves, scope, lease, target, pc, cmd, call, held, answer, past, artist, reads>>

-----------------------------------------------------------------------------
(* The calls.  Each holds the reader's mutex to its end, so they do not mix.   *)
Begin(op, side, by) ==
  /\ pc = "free"
  /\ pc' = "revalidate" /\ call' = [op |-> op, side |-> side, by |-> by]
  /\ past' = Begins(fs) /\ held' = Nothing
  /\ UNCHANGED <<fs, moves, scope, lease, reader, target, cmd, answer>>

(* readLive(): one file, on a side the scope has.                              *)
Sides == CASE scope = "workspace" -> {"worktree"} [] scope = "head" -> {"after"} [] scope = "stage" -> {"index", "before"}
           [] OTHER -> {"before", "after"}
readLive(side) ==
  /\ reader \in {"open", "closed"} /\ reads < MaxReads /\ artist.phase = "off"
  /\ (side = "before" => ~target.empty)
  /\ Begin("read", side, "verifier")
  /\ reads' = reads + 1 /\ UNCHANGED artist

(* prepareLiveArtistContext() with an image at d/a: it is listed, read, its     *)
(* base version listed and read, and VerifyBinary() reads each again for its    *)
(* receipt, expecting the bytes seen before.                                  *)
Shown == scope \in {"workspace", "head"} \/ target.changes \in {"added", "modified"}
Paired == scope \notin {"workspace", "head"} /\ target.changes = "modified"
Prepare(phase, op, side) ==
  /\ artist.phase = phase /\ reader \in {"open", "closed"} /\ Begin(op, side, "artist")
  /\ artist' = [artist EXCEPT !.phase = CASE phase = "off" -> "listing" [] phase = "listed" -> "reading" [] phase = "read" -> "comparing"
                                          [] phase = "compared" -> "showing base" [] phase = "shown base" -> "showing"]
  /\ UNCHANGED reads

VerifyBinary(side, bytes) ==
  artist' = IF answer.ok /\ answer.data = bytes
            THEN [artist EXCEPT !.phase = IF side = "base" THEN "shown base" ELSE "done",
                                !.images = Append(@, [side |-> side, data |-> answer.data])]
            ELSE [artist EXCEPT !.phase = "failed"]

Learn ==
  /\ pc = "free" /\ call.by = "artist"
  /\ CASE artist.phase = "listing" ->
            artist' = [artist EXCEPT !.phase = IF answer.ok THEN IF Shown THEN "listed" ELSE "done" ELSE "failed"]
       [] artist.phase = "reading" ->
            artist' = IF ~answer.ok THEN [artist EXCEPT !.phase = "failed"]
                      ELSE [artist EXCEPT !.file = answer.data, !.phase = IF Paired THEN "read" ELSE "shown base"]
       [] artist.phase = "comparing" ->
            artist' = IF ~answer.ok THEN [artist EXCEPT !.phase = "failed"]
                      ELSE [artist EXCEPT !.prior = answer.data, !.phase = IF answer.data = artist.file THEN "done" ELSE "compared"]
       [] artist.phase = "showing base" -> VerifyBinary("base", artist.prior)
       [] artist.phase = "showing" -> VerifyBinary("current", artist.file)
       [] OTHER -> FALSE
  /\ call' = Nobody
  /\ UNCHANGED <<fs, moves, scope, lease, reader, target, pc, cmd, held, answer, past, reads>>

prepareLiveArtistContext ==
  \/ reads = 0 /\ call.by = "opener" /\ Prepare("off", "list", AfterSide)
  \/ Prepare("listed", "read", AfterSide)
  \/ Prepare("read", "read", "before")
  \/ Prepare("compared", "read", "before")
  \/ Prepare("shown base", "read", AfterSide)
  \/ Learn

Next ==
  \/ Others \/ OpenLiveSource \/ Check \/ Git \/ Confirm \/ Walk
  \/ Start \/ readRegularWithLimit \/ Final \/ Close
  \/ \E side \in Sides : readLive(side)
  \/ prepareLiveArtistContext

-----------------------------------------------------------------------------
TypeOK ==
  /\ reader \in {"unopened", "opening", "open", "closed", "failed"}
  /\ pc \in {"free", "check", "git", "confirm", "walk", "revalidate", "directory", "file", "first", "second", "after", "again", "reopened", "final"}
  /\ target \in [base : Commits \cup {""}, head : Commits \cup {""}, empty : BOOLEAN, changes : {"none", "added", "deleted", "modified"}]
  /\ moves \in 0..MaxMoves /\ reads \in 0..MaxReads

(* The operands of an admitted source are what the names meant at some moment  *)
(* of the opening, and a base is empty only for a branch or a commit that has   *)
(* none; the listed change is one between the base and what the index was.     *)
AdmissionIsTrue ==
  reader = "open" /\ call.op = "open" /\ ~past.away =>
    CASE scope = "workspace" -> target = NoTarget
      [] scope = "head" -> target.head \in past.heads
      [] scope = "stage" -> /\ IF target.empty THEN "unborn" \in past.heads ELSE target.base \in past.heads
                            /\ \E i \in past.indexes \ {Unmerged} : target.changes = Diff(IF target.empty THEN Absent ELSE Tree[target.base], i)
      [] OTHER -> /\ target.head \in IF scope = "commit" THEN past.sides ELSE past.heads
                  /\ target.changes = Diff(IF target.empty THEN Absent ELSE Tree[target.base], Tree[target.head])
                  /\ scope = "commit" => target.base = Parents[target.head]
                  /\ scope = "diff" => target.base \in past.sides
                  /\ scope = "merged" => target.base = "c1"

(* A read that succeeds returns what the file was at one moment of the call:   *)
(* the worktree's under the opened root whatever was renamed meanwhile, a      *)
(* commit's for the commit that was admitted, whatever branches moved, and the *)
(* index's unless another repository took its place during the call.           *)
ReadIsOfOneMoment ==
  pc = "free" /\ call.op = "read" /\ answer.ok =>
    CASE call.side = "worktree" -> answer.data \in past.contents
      [] call.side = "index" -> answer.data \in past.indexes \/ past.away
      [] call.side = "before" -> answer.data = Tree[target.base]
      [] call.side = "after" -> answer.data = Tree[target.head]

(* The images given to the artist are the ones that were compared: the base    *)
(* version is there only beside a current one that differs from it.            *)
ImagesWereCompared ==
  artist.phase = "done" =>
    /\ \A i \in DOMAIN artist.images : artist.images[i].data = IF artist.images[i].side = "base" THEN artist.prior ELSE artist.file
    /\ (\E i \in DOMAIN artist.images : artist.images[i].side = "base") =>
         \E j \in DOMAIN artist.images : artist.images[j].side = "current" /\ artist.images[j].data # artist.prior

SourceIsPinned == AdmissionIsTrue /\ ReadIsOfOneMoment /\ ImagesWereCompared
=============================================================================
