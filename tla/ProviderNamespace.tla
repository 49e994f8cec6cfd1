-------------------------- MODULE ProviderNamespace --------------------------
(***************************************************************************)
(* One private provider namespace: how it is made, seeded with a           *)
(* credential, used, and removed again.  Removal is resumable: it renames  *)
(* the directory out of the way, empties it through retained descriptors   *)
(* and unlinks it, and any of these steps may fail and be taken up by the   *)
(* next pass, while others rename the directory, put another in its place  *)
(* or write into it.                                                       *)
(*                                                                         *)
(* The content is a small tree: the directory home with the credential     *)
(* file auth, and the plain file settings.  Places are told relative to the *)
(* name the lease knows: the directory is under it, elsewhere in the parent *)
(* or away, and a foreign directory may have taken the name; twin is one     *)
(* that took the place of home.  Others act at any time, also between a look *)
(* at a name and the call that trusts it: `raced' tells in which of these    *)
(* windows they did, `harmed' what became of strangers, `stale' that they    *)
(* acted since the last look.  A close that failed keeps its descriptor.     *)
(***************************************************************************)
EXTENDS Naturals, FiniteSets, Sequences, SequencesExt, TLC

CONSTANTS
  MaxUpsets,    \* bound on failures and on what others do
  MaxPasses     \* bound on the cleanup passes

VARIABLES
  family,     \* the provider family
  own,        \* who answers for the lease
  call,       \* the operation in progress
  at,         \* where in it
  disk,       \* the directory, its tree, what squats on its name, the cursor child, the credentials
  lease,      \* what namespaceLease remembers
  users,      \* the provider process using the namespace
  receipt,    \* a terminal receipt was issued
  failed,     \* some cleanup step failed
  passes,
  upsets

vars == <<family, own, call, at, disk, lease, users, receipt, failed, passes, upsets>>

Families == {"cursor", "agy", "grok"}
Stages == <<"initial", "quarantined", "contents_deleted", "final_checked", "detached", "closed">>

NoLease == [stage |-> "initial", found |-> FALSE, walk |-> FALSE, frames |-> <<>>, fds |-> {}, seeds |-> FALSE,
            data |-> FALSE, term |-> FALSE, drained |-> FALSE, unverified |-> FALSE]
NoDisk == [root |-> "absent", foreign |-> "none", tree |-> {}, child |-> FALSE, original |-> "none", replacement |-> "none",
           harmed |-> {}, raced |-> {}, stale |-> FALSE, out |-> FALSE]

Directories == {"home", "twin"}
Entries(dir) ==
  disk.tree \cap (CASE dir = "home" -> {"auth", "late"} [] dir = "twin" -> {} [] OTHER -> {"home", "twin", "settings"})
Linked(dir) == dir \in disk.tree \/ (dir = "home" /\ disk.out)
Frame(dir, listed) == [dir |-> dir, names |-> IF listed THEN Entries(dir) ELSE {}, refresh |-> ~listed, detached |-> FALSE]

Upset == upsets < MaxUpsets /\ upsets' = upsets + 1
Fine == UNCHANGED upsets
Same == UNCHANGED <<family, users, passes>>

-----------------------------------------------------------------------------
(* How a call ends.                                                        *)

Settle(owner) == call' = "none" /\ at' = "none" /\ own' = owner

(* The cleanup stopped at an error: a rollback hands its lease to the      *)
(* construction error, the projecting factory drops it, a drain leaves it   *)
(* with the registry for another pass.                                      *)
Stop ==
  /\ Settle(CASE call \in {"rollback", "retry"} -> "error" [] call = "discard" -> "dropped" [] OTHER -> "registry")
  /\ failed' = TRUE /\ UNCHANGED receipt

Goto(point) == at' = point /\ UNCHANGED <<call, own, receipt, failed>>

(* What the name stands for, and what a rmdir of it removes.                *)
Grabbed == IF disk.root = "named" THEN "ours" ELSE IF disk.foreign = "named" THEN "stranger" ELSE "nothing"

NameRemoved ==
  IF Grabbed = "ours" THEN [disk EXCEPT !.root = "absent"]
  ELSE [disk EXCEPT !.foreign = "none", !.harmed = @ \cup {"removed"}]

-----------------------------------------------------------------------------
(* acquireProviderNamespace                                                *)

(* namespaceConstructionDescriptorError(): nothing but the parent is left  *)
(* to close.  A directory whose removal failed here has no owner.          *)
CloseParent(removed) ==
  \/ Settle(IF removed THEN "nobody" ELSE "dropped") /\ lease' = NoLease
  \/ Settle("error") /\ lease' = [NoLease EXCEPT !.fds = {"parent"}, !.stage = "detached"]

Acquire ==
  /\ own = "nobody" /\ call = "none" /\ passes = 0 /\ passes' = 1
  /\ \/ /\ disk' = [disk EXCEPT !.root = "named"] /\ lease' = [NoLease EXCEPT !.fds = {"parent"}]
        /\ call' = "acquire" /\ at' = "inspect" /\ own' = "factory" /\ Fine /\ UNCHANGED failed
     \/ Upset /\ CloseParent(TRUE) /\ failed' = TRUE /\ UNCHANGED disk
  /\ UNCHANGED <<family, users, receipt>>

(* Until the root is open its name is trusted: whatever has it is inspected, *)
(* opened and taken for the namespace.                                       *)
NameTaken ==
  IF Grabbed = "stranger" THEN [disk EXCEPT !.root = "named", !.foreign = "none", !.harmed = @ \cup {"adopted"}] ELSE disk

LookFails == failed' = TRUE /\ UNCHANGED receipt /\ (Upset \/ (Grabbed = "nothing" /\ Fine))

(* The entry is inspected; when that fails the name is removed as it stands, *)
(* and one that cannot be removed is only reported: it is stranded.          *)
InspectRoot ==
  /\ call = "acquire" /\ at = "inspect"
  /\ \/ Grabbed # "nothing" /\ Goto("open") /\ Fine /\ disk' = NameTaken /\ UNCHANGED lease
     \/ LookFails /\ disk' = NameRemoved /\ Grabbed = "ours" /\ CloseParent(TRUE)
     \/ LookFails /\ disk' = [NameRemoved EXCEPT !.root = "stranded"] /\ Grabbed = "stranger" /\ CloseParent(FALSE)
     \/ LookFails /\ disk' = [disk EXCEPT !.root = "stranded"] /\ CloseParent(FALSE)
  /\ Same

(* A root that cannot be opened is removed by name, or else the error keeps *)
(* an owner that knows the directory by its identity.                       *)
OpenRoot ==
  /\ call = "acquire" /\ at = "open"
  /\ \/ /\ Grabbed # "nothing" /\ Goto("dirs") /\ Fine
        /\ lease' = [lease EXCEPT !.fds = @ \cup {"root"}] /\ disk' = NameTaken
     \/ LookFails /\ disk' = NameRemoved /\ Grabbed = "ours" /\ CloseParent(TRUE)
     \/ LookFails /\ disk' = [NameRemoved EXCEPT !.root = "stranded"] /\ Grabbed = "stranger" /\ CloseParent(FALSE)
     \/ LookFails /\ Settle("error") /\ UNCHANGED <<disk, lease>>
  /\ Same

Rollback == call' = "rollback" /\ at' = "child" /\ failed' = TRUE /\ UNCHANGED <<own, receipt>>

(* newNamespaceLease(): directories with their construction descriptors,    *)
(* which are closed again, and the terminal binding.                        *)
newNamespaceLease ==
  /\ call = "acquire" /\ at = "dirs"
  /\ \/ /\ disk' = [disk EXCEPT !.tree = {"home", "settings"}] /\ Goto("validate") /\ Fine /\ UNCHANGED lease
     \/ /\ Upset /\ Rollback
        /\ \E made \in SUBSET {"home", "settings"}, open \in SUBSET {"scan"} :
             /\ disk' = [disk EXCEPT !.tree = made]
             /\ lease' = [lease EXCEPT !.fds = @ \cup open]
  /\ Same

(* The factory's root is still the pinned one and the lease may be spawned  *)
(* in: nobody moved its root.                                               *)
Spawnable == ~lease.drained /\ ~lease.unverified /\ disk.root = "named" /\ {"home"} \subseteq disk.tree

ValidateAfterConstruction ==
  /\ call = "acquire" /\ at = "validate" /\ Same /\ UNCHANGED <<disk, lease>>
  /\ \/ Spawnable /\ Goto("data") /\ Fine
     \/ ~Spawnable /\ Rollback /\ Fine
     \/ Upset /\ Rollback

(* createCursorDataChild(): a failure removes the child it made, silently.  *)
createCursorDataChild ==
  /\ call = "acquire" /\ at = "data" /\ Same
  /\ \/ family # "cursor" /\ Goto("project") /\ Fine /\ UNCHANGED <<disk, lease>>
     \/ /\ family = "cursor" /\ Goto("project") /\ Fine
        /\ disk' = [disk EXCEPT !.child = TRUE] /\ lease' = [lease EXCEPT !.data = TRUE]
     \/ family = "cursor" /\ Upset /\ Rollback /\ UNCHANGED <<disk, lease>>

(* The projecting factory installs the policy and copies the credential, if *)
(* there is one; it drains a lease it cannot finish and drops it with       *)
(* whatever that drain says.                                                *)
ProjectCredential ==
  /\ call = "acquire" /\ at = "project" /\ Same
  /\ \/ /\ family # "cursor" /\ disk.root # "away" /\ Fine /\ Settle("registry") /\ UNCHANGED <<receipt, failed>>
        /\ disk' = [disk EXCEPT !.tree = @ \cup {"auth"}, !.original = "live"]
        /\ lease' = [lease EXCEPT !.seeds = TRUE]
     \/ /\ family # "agy" /\ Fine /\ Settle("registry") /\ UNCHANGED <<receipt, failed, disk, lease>>
     \/ /\ Upset /\ call' = "discard" /\ at' = "gate" /\ failed' = TRUE /\ UNCHANGED <<own, receipt, disk, lease>>

-----------------------------------------------------------------------------
(* Use.  The registry closes before it drains, so no process starts after   *)
(* the first drain.                                                         *)
Free == own = "registry" /\ call = "none" /\ passes = 1

ValidateForSpawn == Free /\ users = "none" /\ Spawnable /\ users' = "running" /\ UNCHANGED <<disk, lease>>

(* finishAgyInvocation(): the group is proven absent, or the AGY namespace   *)
(* is kept for good.                                                        *)
EndProvider ==
  /\ users = "running"
  /\ \/ users' = "none" /\ UNCHANGED lease
     \/ /\ users' \in {"none", "survivor"} /\ family = "agy" /\ lease' = [lease EXCEPT !.unverified = TRUE]
     \/ /\ users' = "survivor" /\ family # "agy" /\ UNCHANGED lease
  /\ UNCHANGED disk

UseNamespace ==
  /\ Free /\ (ValidateForSpawn \/ EndProvider)
  /\ UNCHANGED <<family, own, call, at, receipt, failed, passes, upsets>>

(* A provider refreshes its credential: it replaces the file.  A linked or   *)
(* foreign file is unsafe to wipe; one that is no regular file, or too large *)
(* to be a credential, is left to the removal of the tree.                   *)
ReplaceCredential ==
  /\ users = "running" /\ "auth" \in disk.tree /\ disk.replacement = "none" /\ Upset
  /\ \E kind \in {"live", "unsafe", "other"} : disk' = [disk EXCEPT !.replacement = kind]
  /\ UNCHANGED <<family, own, call, at, lease, users, receipt, failed, passes>>

(* A process writes or removes a file, while the namespace is torn down too. *)
Scribble ==
  /\ users # "none" /\ disk.root # "absent" /\ "home" \in disk.tree /\ Upset
  /\ disk' = [disk EXCEPT !.tree = IF "late" \in @ THEN @ \ {"late"} ELSE @ \cup {"late"}]
  /\ UNCHANGED <<family, own, call, at, lease, users, receipt, failed, passes>>

(* The window between a look at the root's name, or at the path of its       *)
(* descriptor, and the call that relies on it.                               *)
Window ==
  CASE call = "acquire" /\ at \in {"inspect", "open"} -> {"made"}
    [] at = "unlink" -> {"unlink"} [] at = "verify" -> {"path"} [] OTHER -> {}

(* Someone renames the directory, inside its parent or away, and may put     *)
(* another in its place.                                                     *)
Meddle ==
  /\ disk.root \in {"named", "elsewhere", "away"} /\ Upset
  /\ \E to \in {"elsewhere", "away"}, squat \in BOOLEAN :
       /\ squat => disk.foreign # "named"
       /\ disk' = [disk EXCEPT !.root = to, !.foreign = IF squat THEN "named" ELSE @,
                              !.raced = @ \cup Window, !.stale = @ \/ at = "verify"]
  /\ UNCHANGED <<family, own, call, at, lease, users, receipt, failed, passes>>

(* Someone renames the child that is being removed, inside the namespace or  *)
(* out of it, and may put a directory in its place.                          *)
SubstituteChild ==
  /\ at \in {"rmdir", "confirm"} /\ Linked("home") /\ lease.frames[Len(lease.frames)].dir = "home" /\ Upset
  /\ \E out \in BOOLEAN, put \in SUBSET {"twin"} :
       disk' = [disk EXCEPT !.tree = (IF out THEN @ \ {"home", "auth", "late"} ELSE @) \cup put,
                            !.out = @ \/ out, !.stale = TRUE,
                            !.raced = @ \cup (IF at = "confirm" THEN {"path"} ELSE {})]
  /\ UNCHANGED <<family, own, call, at, lease, users, receipt, failed, passes>>

-----------------------------------------------------------------------------
(* Draining.  DrainTerminal() is the registry's, the factory's for a lease  *)
(* it discards.                                                              *)
DrainTerminal ==
  /\ own = "registry" /\ call = "none" /\ users # "running" /\ passes \in 1 .. MaxPasses
  /\ passes' = passes + 1 /\ call' = "drain" /\ at' = "gate" /\ lease' = [lease EXCEPT !.found = FALSE]
  /\ UNCHANGED <<family, own, disk, users, receipt, failed, upsets>>

RetryConstructionCleanup ==
  /\ own = "error" /\ call = "none" /\ passes \in 1 .. MaxPasses
  /\ passes' = passes + 1 /\ call' = "retry" /\ at' = "root" /\ lease' = [lease EXCEPT !.found = FALSE]
  /\ UNCHANGED <<family, own, disk, users, receipt, failed, upsets>>

Cleaning == call \in {"rollback", "discard", "drain", "retry"}

(* The tests drainTerminalEffects() starts with; the binding has answered a   *)
(* drained lease before them.                                                *)
DrainGate ==
  /\ call \in {"drain", "discard"} /\ at = "gate" /\ Same /\ UNCHANGED <<disk, lease>>
  /\ \/ /\ ~receipt /\ (lease.unverified \/ (lease.stage = "closed" /\ lease.term)) /\ Stop /\ Fine
     \/ receipt /\ Settle(own) /\ UNCHANGED <<receipt, failed>> /\ Fine
     \/ /\ ~receipt /\ ~lease.unverified /\ ~(lease.stage = "closed" /\ lease.term)
        /\ ((Goto("seeds") /\ Fine) \/ (call = "drain" /\ Stop /\ Upset))

(* zeroAndUnlinkSeeds(): the original is wiped through its descriptor, a     *)
(* replacement through its name, and the name is unlinked whatever the       *)
(* wipes did; the seed is forgotten, so an error must be remembered.         *)
Wiped(original, replacement, unlinked) ==
  [disk EXCEPT !.original = IF original THEN "wiped" ELSE @,
               !.replacement = IF @ = "live" /\ replacement THEN "wiped" ELSE @,
               !.tree = IF unlinked /\ disk.replacement # "other" THEN @ \ {"auth"} ELSE @]

(* Mutant: only the last pass's error counts.                               *)
zeroAndForget ==
  /\ call \in {"drain", "discard"} /\ at = "seeds" /\ Same
  /\ \/ ~lease.seeds /\ lease' = [lease EXCEPT !.term = FALSE] /\ Fine /\ UNCHANGED disk
     \/ /\ lease.seeds /\ Fine /\ disk' = Wiped(TRUE, TRUE, TRUE)
        /\ lease' = [lease EXCEPT !.seeds = FALSE, !.term = disk.replacement = "unsafe"]
     \/ /\ lease.seeds /\ Upset /\ lease' = [lease EXCEPT !.seeds = FALSE, !.term = TRUE]
        /\ \E o, r, u \in BOOLEAN : disk' = Wiped(o, r, u)
  /\ Goto("child")

zeroAndUnlinkSeeds ==
  /\ call \in {"drain", "discard"} /\ at = "seeds" /\ Same
  /\ \/ ~lease.seeds /\ Fine /\ UNCHANGED <<disk, lease>>
     \/ /\ lease.seeds /\ Fine /\ disk' = Wiped(TRUE, TRUE, TRUE)
        /\ lease' = [lease EXCEPT !.seeds = FALSE, !.term = @ \/ disk.replacement = "unsafe"]
     \/ /\ lease.seeds /\ Upset /\ lease' = [lease EXCEPT !.seeds = FALSE, !.term = TRUE]
        /\ \E o, r, u \in BOOLEAN : disk' = Wiped(o, r, u)
  /\ Goto("child")

removeCursorDataChild ==
  /\ Cleaning /\ at = "child" /\ Same
  /\ \/ ~lease.data /\ Goto("root") /\ Fine /\ UNCHANGED <<disk, lease>>
     \/ /\ lease.data /\ Goto("root") /\ Fine
        /\ disk' = [disk EXCEPT !.child = FALSE] /\ lease' = [lease EXCEPT !.data = FALSE]
     \/ lease.data /\ Stop /\ Upset /\ UNCHANGED <<disk, lease>>

-----------------------------------------------------------------------------
(* removeNamespaceRoot                                                      *)
InRoot(stages) == Cleaning /\ at = "root" /\ lease.stage \in stages

(* A directory removed, or without a parent descriptor, in an earlier pass.  *)
RootIsDone ==
  /\ Same /\ Fine /\ UNCHANGED <<disk, lease>>
  /\ \/ InRoot({"detached", "closed"}) /\ Goto("close")
     \/ InRoot({"initial", "quarantined", "contents_deleted", "final_checked"}) /\ "parent" \notin lease.fds /\ Stop

Here == InRoot({"initial", "quarantined", "contents_deleted", "final_checked"}) /\ "parent" \in lease.fds
InParent == disk.root \in {"named", "elsewhere"}

(* Found under any name of the parent, which is the name from now on.        *)
Found == [disk EXCEPT !.root = "named", !.foreign = IF @ = "named" /\ disk.root = "elsewhere" THEN "aside" ELSE @]

(* The root of a construction that could not open it, found by identity.    *)
ReopenRoot ==
  /\ Here /\ "root" \notin lease.fds /\ Same
  /\ \/ InParent /\ disk' = Found /\ lease' = [lease EXCEPT !.fds = @ \cup {"root"}] /\ Goto("root") /\ Fine
     \/ ~InParent /\ Stop /\ Fine /\ UNCHANGED <<disk, lease>>
     \/ /\ InParent /\ Stop /\ Upset /\ UNCHANGED disk
        /\ \E kept \in SUBSET {"scan"} : lease' = [lease EXCEPT !.fds = @ \cup kept]

(* locateNamespaceEntry(): every stage of every pass looks the root up again. *)
locateNamespaceEntry ==
  /\ Here /\ "root" \in lease.fds /\ ~lease.found /\ Same
  /\ \/ InParent /\ disk' = Found /\ lease' = [lease EXCEPT !.found = TRUE] /\ Goto("root") /\ Fine
     \/ ~InParent /\ Stop /\ Fine /\ UNCHANGED <<disk, lease>>
     \/ /\ Stop /\ Upset /\ UNCHANGED disk
        /\ \E kept \in SUBSET {"scan"} : lease' = [lease EXCEPT !.fds = @ \cup kept]

(* A rename takes what the name stands for, and is checked afterwards.       *)
namespaceEntryMatches(entry) == entry = "ours"

(* restoreUnexpectedQuarantine(): a stranger goes back to its name, or stays *)
(* in its tomb when the name is taken again.                                 *)
RenameFails ==
  /\ Stop /\ UNCHANGED lease
  /\ \/ Upset /\ UNCHANGED disk
     \/ Grabbed = "nothing" /\ Fine /\ UNCHANGED disk
     \/ /\ Grabbed = "stranger" /\ ~namespaceEntryMatches(Grabbed) /\ Fine
        /\ \E to \in {"named", "aside"} : disk' = [disk EXCEPT !.foreign = to]

(* The entry found is renamed to a fresh tomb and looked at again.           *)
Quarantine(from, to) ==
  /\ Here /\ lease.stage = from /\ lease.found /\ Same
  /\ \/ /\ namespaceEntryMatches(Grabbed) /\ Goto("root") /\ Fine /\ UNCHANGED disk
        /\ lease' = [lease EXCEPT !.found = FALSE, !.stage = to]
     \/ RenameFails

(* removeNamespaceContents(): the walk starts with a listing of the root; a  *)
(* listing that failed is read again, one that could not start is not.       *)
newNamespaceTraversal ==
  /\ Here /\ lease.stage = "quarantined" /\ lease.found /\ ~lease.walk /\ Same /\ UNCHANGED disk
  /\ \/ lease' = [lease EXCEPT !.walk = TRUE, !.frames = <<Frame("root", TRUE)>>] /\ Goto("root") /\ Fine
     \/ /\ Stop /\ Upset
        /\ \E started \in {<<Frame("root", FALSE)>>, <<>>} :
             lease' = [lease EXCEPT !.walk = TRUE, !.frames = started]
     \/ Stop /\ Upset /\ UNCHANGED lease

Walking == Here /\ lease.stage = "quarantined" /\ lease.found /\ lease.walk
Top == lease.frames[Len(lease.frames)]
WithTop(f) == [lease EXCEPT !.frames = Front(@) \o <<f>>]
Walk(l) == lease' = l /\ Goto("root") /\ Fine
Halt(l) == lease' = l /\ Stop

RefreshFrame ==
  /\ Walking /\ lease.frames # <<>> /\ Top.refresh /\ Same /\ UNCHANGED disk
  /\ \/ Walk(WithTop([Top EXCEPT !.names = Entries(Top.dir), !.refresh = FALSE]))
     \/ Halt(lease) /\ Upset

(* One entry of the frame: a file is unlinked, a directory is entered.  An    *)
(* entry that vanished ends the pass.                                        *)
VisitEntry ==
  /\ Walking /\ lease.frames # <<>> /\ ~Top.refresh /\ Top.names # {} /\ Same
  /\ \E name \in Top.names :
       \/ name \notin disk.tree /\ Halt(lease) /\ Fine /\ UNCHANGED disk
       \/ name \in disk.tree /\ Halt(lease) /\ Upset /\ UNCHANGED disk
       \/ /\ name \in disk.tree \ Directories /\ disk' = [disk EXCEPT !.tree = @ \ {name}]
          /\ Walk(WithTop([Top EXCEPT !.names = @ \ {name}]))
       \/ /\ name \in disk.tree \cap Directories /\ UNCHANGED disk
          /\ \E listed \in BOOLEAN :
               LET entered == [lease EXCEPT !.frames = @ \o <<Frame(name, listed)>>]
               IN IF listed THEN Walk(entered) ELSE Halt(entered) /\ Upset

(* An emptied child is found by its identity, removed by its name, and only   *)
(* then verified to be gone: what took its name in between is removed, if it  *)
(* is empty, and the child stays on the stack, to be found again.             *)
LocateChild ==
  /\ Walking /\ Len(lease.frames) > 1 /\ ~Top.refresh /\ Top.names = {} /\ ~Top.detached /\ Same
  /\ \/ Top.dir \in disk.tree /\ disk' = [disk EXCEPT !.stale = FALSE] /\ UNCHANGED lease /\ Goto("rmdir") /\ Fine
     \/ Top.dir \notin disk.tree /\ Halt(lease) /\ Fine /\ UNCHANGED disk
     \/ Halt(lease) /\ Upset /\ UNCHANGED disk

ChildAt(point) == Cleaning /\ at = point /\ Same

UnlinkChild ==
  /\ ChildAt("rmdir") /\ UNCHANGED lease
  /\ LET name == IF disk.stale THEN "twin" ELSE Top.dir
     IN \/ /\ name \in disk.tree /\ Entries(name) = {} /\ Goto("confirm") /\ Fine
           /\ disk' = [disk EXCEPT !.tree = @ \ {name}, !.stale = FALSE]
        \/ Stop /\ (IF disk.stale \/ Entries(name) # {} THEN Fine ELSE Upset) /\ UNCHANGED disk

Pop ==
  LET left == Front(lease.frames)
  IN [lease EXCEPT !.frames = Front(left) \o <<[left[Len(left)] EXCEPT !.refresh = TRUE]>>]

(* The child is linked while it is in the tree, or was taken out of it.      *)
VerifyChild ==
  /\ ChildAt("confirm") /\ UNCHANGED disk
  /\ \/ /\ ~Linked(Top.dir) \/ disk.stale
        /\ Walk(Pop) \/ (Halt(WithTop([Top EXCEPT !.detached = TRUE])) /\ Upset) \/ (Halt(lease) /\ Upset)
     \/ Linked(Top.dir) /\ ~disk.stale /\ Halt(lease) /\ Fine

PopDetached == Walking /\ lease.frames # <<>> /\ Top.detached /\ Same /\ Walk(Pop) /\ UNCHANGED disk

FinishContents ==
  /\ Walking /\ Same /\ UNCHANGED disk
  /\ lease.frames = <<>> \/ (Len(lease.frames) = 1 /\ ~Top.refresh /\ Top.names = {})
  /\ \/ Walk([lease EXCEPT !.walk = FALSE, !.frames = <<>>, !.found = FALSE, !.stage = "contents_deleted"])
     \/ lease.frames # <<>> /\ Halt(lease) /\ Upset

(* The last rename and its check, the rmdir of the name, and the look at the *)
(* descriptor: three calls others may act between.  A directory that is still *)
(* linked somewhere keeps the stage.                                          *)
Requarantine ==
  /\ Here /\ lease.stage = "final_checked" /\ lease.found /\ Same
  /\ \/ namespaceEntryMatches(Grabbed) /\ Goto("unlink") /\ Fine /\ UNCHANGED <<disk, lease>>
     \/ RenameFails

UnlinkRoot ==
  /\ Cleaning /\ at = "unlink" /\ Same /\ UNCHANGED lease
  /\ LET empty == Grabbed = "ours" /\ disk.tree = {}
     IN \/ (empty \/ Grabbed = "stranger") /\ disk' = [NameRemoved EXCEPT !.stale = FALSE] /\ Goto("verify") /\ Fine
        \/ Stop /\ (IF empty THEN Upset ELSE Fine) /\ UNCHANGED disk

VerifyRoot ==
  /\ Cleaning /\ at = "verify" /\ Same /\ UNCHANGED disk
  /\ LET detached == disk.root = "absent" \/ disk.stale
     IN \/ detached /\ lease' = [lease EXCEPT !.found = FALSE, !.stage = "detached"] /\ Goto("root") /\ Fine
        \/ UNCHANGED lease /\ Stop /\ (IF detached THEN Upset ELSE Fine)

removeNamespaceRoot ==
  \/ RootIsDone \/ ReopenRoot \/ locateNamespaceEntry
  \/ Quarantine("initial", "quarantined") \/ Quarantine("contents_deleted", "final_checked")
  \/ Requarantine \/ UnlinkRoot \/ VerifyRoot

removeNamespaceContents ==
  \/ newNamespaceTraversal \/ RefreshFrame \/ VisitEntry
  \/ LocateChild \/ UnlinkChild \/ VerifyChild \/ PopDetached \/ FinishContents

-----------------------------------------------------------------------------
(* closeNamespaceDescriptors(): each that closes is forgotten.  Then the     *)
(* stage is final, and only a lease without an error is drained.             *)
closeNamespaceDescriptors ==
  /\ Cleaning /\ at = "close" /\ Same /\ UNCHANGED disk
  /\ \/ /\ Fine
        /\ LET clean == call \in {"drain", "discard"} /\ ~lease.term
           IN /\ lease' = [lease EXCEPT !.fds = {}, !.stage = "closed", !.drained = clean]
              /\ IF call \in {"drain", "discard"}
                 THEN /\ receipt' = clean /\ failed' = (failed \/ ~clean)
                      /\ Settle(IF call = "drain" THEN own ELSE "nobody")
                 ELSE Settle("nobody") /\ UNCHANGED <<receipt, failed>>
     \/ /\ Upset /\ Stop
        /\ \E kept \in SUBSET lease.fds \ {{}} : lease' = [lease EXCEPT !.fds = kept]

-----------------------------------------------------------------------------
Init ==
  /\ family \in Families /\ own = "nobody" /\ call = "none" /\ at = "none" /\ disk = NoDisk /\ lease = NoLease
  /\ users = "none" /\ receipt = FALSE /\ failed = FALSE /\ passes = 0 /\ upsets = 0

AcquireProviderNamespace ==
  \/ Acquire \/ InspectRoot \/ OpenRoot \/ newNamespaceLease \/ ValidateAfterConstruction
  \/ createCursorDataChild \/ ProjectCredential

drainTerminalEffects ==
  \/ DrainGate \/ zeroAndUnlinkSeeds \/ removeCursorDataChild \/ removeNamespaceRoot \/ removeNamespaceContents
  \/ closeNamespaceDescriptors

Next ==
  \/ AcquireProviderNamespace \/ UseNamespace \/ ReplaceCredential \/ Scribble \/ Meddle \/ SubstituteChild
  \/ DrainTerminal \/ RetryConstructionCleanup \/ drainTerminalEffects

-----------------------------------------------------------------------------
TypeOK ==
  /\ own \in {"nobody", "factory", "registry", "error", "dropped"}
  /\ call \in {"none", "acquire", "rollback", "discard", "drain", "retry"}
  /\ lease.stage \in ToSet(Stages) /\ lease.fds \subseteq {"root", "parent", "scan"}
  /\ Len(lease.frames) <= 2 /\ disk.tree \subseteq {"home", "twin", "auth", "late", "settings"}
  /\ users \in {"none", "running", "survivor"}

(* A terminal receipt says drained, zeroed, unlinked and torn down: nothing  *)
(* of the namespace is on disk, both the projected credential and the file a *)
(* provider put in its place were wiped, and no descriptor is open - whatever *)
(* failed in earlier passes, and even if a stranger was unlinked in the       *)
(* place of the directory or of its child.  Only a rename between the path    *)
(* that is read from a descriptor and the look at that path deceives it      *)
(* (ProviderNamespaceTerminalReceipt, verifyDescriptorDetached()).           *)
ReceiptIsTrue ==
  receipt => /\ "path" \in disk.raced \/ (disk.root = "absent" /\ disk.tree = {} /\ ~disk.out)
             /\ ~disk.child /\ lease.fds = {}
             /\ disk.original # "live" /\ disk.replacement \notin {"live", "unsafe"}

(* Of the directories others put under the name, cleanup removes none but an  *)
(* empty one that came between a look and the rmdir that trusted it, and says *)
(* that it failed; none is taken for the namespace but one that came before   *)
(* the root was open (locateNamespaceEntry(), restoreUnexpectedQuarantine(),  *)
(* verifyDescriptorDetached()).                                              *)
StrangersAreKept ==
  /\ "adopted" \in disk.harmed => "made" \in disk.raced
  /\ "removed" \in disk.harmed =>
       /\ disk.raced \cap {"made", "unlink"} # {}
       /\ failed \/ at = "verify" \/ "path" \in disk.raced

(* Between calls, a directory, a child or a descriptor that is left has an   *)
(* owner; one that has none was dropped after a cleanup that failed, is       *)
(* the empty directory whose inspection and removal failed, or was renamed    *)
(* in one of the windows.                                                    *)
LeftoversAreOwned ==
  call = "none" =>
    /\ own = "nobody" => /\ disk.root \in {"absent", "stranded"} \/ "path" \in disk.raced
                         /\ ~disk.child /\ lease.fds = {}
    /\ own = "dropped" => failed

(* The namespace of an AGY process that may still run is not removed.        *)
UnverifiedIsKept == lease.unverified => disk.root # "absent" /\ ~receipt

NamespaceIsReclaimed == ReceiptIsTrue /\ StrangersAreKept /\ LeftoversAreOwned /\ UnverifiedIsKept

=============================================================================
