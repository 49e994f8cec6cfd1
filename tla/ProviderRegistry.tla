--------------------------- MODULE ProviderRegistry ---------------------------
(***************************************************************************)
(* The provider registry of one run: its construction, which acquires one   *)
(* namespace per provider; the observations it admits, each with a private  *)
(* staging directory for the report a provider writes; and its Close, which *)
(* waits for them and drains every namespace, or fails and is tried again.   *)
(*                                                                         *)
(* Instance "zcode" writes its report file freely, "grok" asks the driver   *)
(* first, "codex" answers on stdout and is never staged.  What others do to  *)
(* the staging directory and what fails is counted by upsets.               *)
(***************************************************************************)
EXTENDS Naturals, FiniteSets, Sequences

CONSTANTS
  Observers,     \* goroutines that observe a provider
  Closers,       \* goroutines that close the registry
  MaxUpsets,
  MaxCloses      \* bound on the calls of Close

VARIABLES
  reg,        \* building, open, retained in the construction error, or gone
  left,       \* the definitions still to be constructed
  ns,         \* per instance: none, held, spoiled or drained
  receipts,   \* namespaceReceipts
  closed,
  active,     \* activeInstances
  epoch,      \* how often activeZero was made anew
  obs,        \* per observer: where it is and what it will answer
  stage,      \* per observer: its staging directory and lease
  closer,     \* per closer: where it is, the activeZero it waits for, its context
  receipt,    \* the cached run receipt covers these instances
  upsets,
  closes

vars == <<reg, left, ns, receipts, closed, active, epoch, obs, stage, closer, receipt, upsets, closes>>

Orders == {<<"zcode", "grok">>, <<"codex">>}
Instances == {"zcode", "grok", "codex"}

(* familyReviewOutputTransport()                                           *)
Staged(i) == i \in {"zcode", "grok"}

NoStage == [dir |-> "absent", tight |-> TRUE, entries |-> {}, report |-> "none", granted |-> FALSE, open |-> FALSE]
NoObs == [pc |-> "idle", inst |-> "none", answer |-> "none", proc |-> "none", read |-> "none"]
NoCloser == [pc |-> "idle", zero |-> 0, ctx |-> TRUE, failed |-> {}]

Upset == upsets < MaxUpsets /\ upsets' = upsets + 1
Fine == UNCHANGED upsets
Building == <<reg, left>>
Closing == <<closed, closer, receipt, closes>>
Observing == <<active, epoch, obs, stage>>

-----------------------------------------------------------------------------
(* newRegistryWithNamespaces(), NewProductionRegistryWithContext()         *)

HeldNow(spaces) == {i \in Instances : spaces[i] \in {"held", "spoiled"}}

(* drainNamespacesError() of a construction that failed.  The registry is   *)
(* kept in the error only when the drain failed, and a drain of no          *)
(* namespace at all fails, for a run receipt needs one.                     *)
AbandonConstruction(spaces) ==
  \E drained \in SUBSET HeldNow(spaces) :
    /\ ns' = [i \in Instances |-> IF i \in drained THEN "drained" ELSE spaces[i]]
    /\ receipts' = drained
    /\ reg' = IF drained = HeldNow(spaces) /\ drained # {} THEN "gone" ELSE "retained"
    /\ left' = <<>>

(* One definition: its namespace is acquired, or the acquisition fails,     *)
(* with or without a lease that still has to be drained.                    *)
ConstructDefinition ==
  /\ reg = "building" /\ left # <<>>
  /\ \/ /\ ns' = [ns EXCEPT ![Head(left)] = "held"] /\ left' = Tail(left) /\ Fine
        /\ UNCHANGED <<reg, receipts>>
     \/ /\ Upset
        /\ \E lease \in {"none", "spoiled"} : AbandonConstruction([ns EXCEPT ![Head(left)] = lease])
  /\ UNCHANGED <<Closing, Observing>>

(* The namespaces carry the safety policy of their profiles, or not.        *)
FinishConstruction ==
  /\ reg = "building" /\ left = <<>>
  /\ \/ reg' = "open" /\ Fine /\ UNCHANGED <<ns, receipts, left>>
     \/ Upset /\ AbandonConstruction(ns)
  /\ UNCHANGED <<Closing, Observing>>

-----------------------------------------------------------------------------
(* Observe()                                                               *)

Fails(o, answer, next) == obs' = [obs EXCEPT ![o].answer = answer, ![o].pc = next]

Admit(o, i) ==
  /\ reg = "open" /\ obs[o].pc = "idle" /\ ns[i] # "none"
  /\ IF closed  \* terminally drained
     THEN obs' = [obs EXCEPT ![o].pc = "done"] /\ UNCHANGED <<active, epoch>>
     ELSE IF i \in active  \* ErrProviderInstanceAlreadyActive
     THEN obs' = [obs EXCEPT ![o].pc = "done"] /\ UNCHANGED <<active, epoch>>
     ELSE /\ active' = active \cup {i} /\ epoch' = IF active = {} THEN epoch + 1 ELSE epoch
          /\ obs' = [obs EXCEPT ![o].pc = "admitted", ![o].inst = i]
  /\ Fine /\ UNCHANGED <<Building, ns, receipts, Closing, stage>>

ValidateNamespace(o) ==
  /\ obs[o].pc = "admitted"
  /\ \/ ns[obs[o].inst] = "held" /\ Fine /\ UNCHANGED ns
        /\ obs' = [obs EXCEPT ![o].pc = IF Staged(obs[o].inst) THEN "stage" ELSE "guard"]
     \/ Upset /\ ns' = [ns EXCEPT ![obs[o].inst] = "spoiled"] /\ Fails(o, "workspace_revalidation_failed", "leave")
     \/ /\ ns[obs[o].inst] # "held" /\ Fine /\ UNCHANGED ns
        /\ Fails(o, "workspace_revalidation_failed", "leave")
  /\ UNCHANGED <<Building, receipts, Closing, active, epoch, stage>>

(* acquireStagedOutputLease(): the destination is computed anew, which a     *)
(* registry closed since the admission refuses, and reported as a breach.   *)
(* createStagedOutputDirectory() may fail before the directory, with it      *)
(* removed again, or with it left behind.                                   *)
ProviderOutputStagingDestination(i) == ~closed /\ ns[i] # "none" /\ Staged(i)
createStagedOutputDirectory(o) ==
  \/ stage' = [stage EXCEPT ![o] = [NoStage EXCEPT !.dir = "named", !.open = TRUE]] /\ Fine
     /\ obs' = [obs EXCEPT ![o].pc = "guard"]
  \/ /\ Upset /\ Fails(o, "staging_violation", "leave")
     /\ \E made \in {"absent", "named"} : stage' = [stage EXCEPT ![o].dir = made]
acquireStagedOutputLease(o) ==
  /\ obs[o].pc = "stage"
  /\ \/ ~ProviderOutputStagingDestination(obs[o].inst) /\ Fails(o, "staging_violation", "leave") /\ Fine /\ UNCHANGED stage
     \/ ProviderOutputStagingDestination(obs[o].inst) /\ createStagedOutputDirectory(o)
  /\ UNCHANGED <<Building, ns, receipts, Closing, active, epoch>>

After(o) == IF stage[o].open THEN "cleanup" ELSE "leave"

(* runInWorkspace() up to the spawn: guard, launch directory, spawn check.  *)
RunInWorkspace(o) ==
  /\ obs[o].pc = "guard"
  /\ \/ obs' = [obs EXCEPT ![o].pc = "run", ![o].proc = "running"] /\ Fine
     \/ Upset /\ \E why \in {"workspace_revalidation_failed", "spawn_failed"} : Fails(o, why, After(o))
  /\ UNCHANGED <<Building, ns, receipts, Closing, active, epoch, stage>>

Running(o) == obs[o].pc = "run" /\ obs[o].proc = "running"

(* AuthorizeWriteOnce(): the one grant, while the path still leads to the   *)
(* empty directory of the lease.                                            *)
Grantable(s) == s.open /\ ~s.granted /\ s.tight /\ s.dir = "named" /\ s.entries = {}
AuthorizeWriteOnce(o) ==
  /\ Running(o) /\ obs[o].inst = "grok"
  /\ IF Grantable(stage[o])
     THEN stage' = [stage EXCEPT ![o].granted = TRUE] /\ UNCHANGED obs
     ELSE obs' = [obs EXCEPT ![o].proc = "failed"] /\ UNCHANGED stage
  /\ Fine /\ UNCHANGED <<Building, ns, receipts, Closing, active, epoch>>

(* The provider writes its report: complete, unusable, or not a file of its *)
(* own (a link or a special file).                                          *)
WriteReport(o) ==
  /\ Running(o) /\ stage[o].open /\ stage[o].report = "none" /\ (obs[o].inst = "grok" => stage[o].granted)
  /\ \E kind \in {"good", "empty", "linked"} :
       /\ IF kind = "linked" THEN Upset ELSE Fine
       /\ stage' = [stage EXCEPT ![o].entries = @ \cup {"report"}, ![o].report = kind]
  /\ UNCHANGED <<Building, ns, receipts, Closing, active, epoch, obs>>

(* Something else happens to the directory while the provider runs.         *)
Trespass(o) ==
  /\ Running(o) /\ stage[o].open /\ Upset
  /\ \/ \E name \in {"other", "subdirectory"} : stage' = [stage EXCEPT ![o].entries = @ \cup {name}]
     \/ stage[o].dir = "named" /\ stage' = [stage EXCEPT ![o].dir = "moved"]
     \/ stage[o].tight /\ stage' = [stage EXCEPT ![o].tight = FALSE]
  /\ UNCHANGED <<Building, ns, receipts, Closing, active, epoch, obs>>

ProviderEnds(o) ==
  /\ Running(o)
  /\ \E end \in {"succeeded", "failed"} : obs' = [obs EXCEPT ![o].proc = end]
  /\ Fine /\ UNCHANGED <<Building, ns, receipts, Closing, active, epoch, stage>>

(* The workspace is revalidated and the guard closed; either failing is the *)
(* answer whatever the process did.                                         *)
RevalidateAfterExecution(o) ==
  /\ obs[o].pc = "run" /\ obs[o].proc \in {"succeeded", "failed"}
  /\ \/ /\ Fine
        /\ \/ obs[o].proc = "failed" /\ Fails(o, "process", After(o))
           \/ obs[o].proc = "succeeded" /\ stage[o].open /\ obs' = [obs EXCEPT ![o].pc = "validate"]
           \/ /\ obs[o].proc = "succeeded" /\ ~stage[o].open
              /\ obs' = [obs EXCEPT ![o].answer = "succeeded", ![o].pc = "leave"]
     \/ Upset /\ Fails(o, "workspace_revalidation_failed", After(o))
  /\ UNCHANGED <<Building, ns, receipts, Closing, active, epoch, stage>>

(* Validate(), stagedFileObservation(): identity and mode of the directory, *)
(* exactly the one entry, then the file itself.                             *)
StagedVerdict(s) ==
  IF ~s.tight THEN "staging_violation"
  ELSE IF s.entries = {} THEN "file_missing"
  ELSE IF s.entries # {"report"} THEN "staging_violation"
  ELSE CASE s.report = "linked" -> "staging_violation" [] s.report = "empty" -> "file_invalid" [] OTHER -> "ok"
stagedFileObservation(o) ==
  /\ obs[o].pc = "validate"
  /\ \/ /\ Fine
        /\ LET verdict == StagedVerdict(stage[o])
           IN  IF verdict # "ok" THEN Fails(o, verdict, "cleanup")
               ELSE obs' = [obs EXCEPT ![o].answer = "succeeded", ![o].read = stage[o].report, ![o].pc = "cleanup"]
     \/ Upset /\ Fails(o, "staging_violation", "cleanup")
  /\ UNCHANGED <<Building, ns, receipts, Closing, active, epoch, stage>>

(* Cleanup(), releaseStagedOutputLease(): plain entries are unlinked until  *)
(* one cannot be, the directory is removed only under its own name.  A       *)
(* failure replaces a success and no other answer; the lease is dropped.     *)
CleanedEntries(s) == IF s.tight THEN s.entries \cap {"subdirectory"} ELSE s.entries
Removable(s) == s.tight /\ s.dir = "named" /\ CleanedEntries(s) = {}
releaseStagedOutputLease(o) ==
  /\ obs[o].pc = "cleanup"
  /\ \/ /\ Removable(stage[o]) /\ Fine
        /\ stage' = [stage EXCEPT ![o].dir = "removed", ![o].entries = {}, ![o].open = FALSE]
        /\ obs' = [obs EXCEPT ![o].pc = "leave"]
     \/ /\ (~Removable(stage[o]) /\ Fine) \/ Upset
        /\ \E rest \in {stage[o].entries, CleanedEntries(stage[o])} :
             stage' = [stage EXCEPT ![o].entries = rest, ![o].open = FALSE]
        /\ IF obs[o].answer = "succeeded" THEN Fails(o, "cleanup_failed", "leave") ELSE obs' = [obs EXCEPT ![o].pc = "leave"]
  /\ UNCHANGED <<Building, ns, receipts, Closing, active, epoch>>

observeDone(o) ==
  /\ obs[o].pc = "leave"
  /\ active' = active \ {obs[o].inst}
  /\ obs' = [obs EXCEPT ![o] = [NoObs EXCEPT !.pc = "done", !.inst = obs[o].inst]]
  /\ stage' = [stage EXCEPT ![o] = [NoStage EXCEPT !.dir = stage[o].dir]]
  /\ Fine /\ UNCHANGED <<Building, ns, receipts, Closing, epoch>>

-----------------------------------------------------------------------------
(* Close()                                                                 *)

Answer(c) == [NoCloser EXCEPT !.ctx = closer[c].ctx]
Goto(c, point) == closer' = [closer EXCEPT ![c].pc = point]

(* The registry is closed to observations before anything is awaited.       *)
Close(c) ==
  /\ reg \in {"open", "retained"} /\ closer[c].pc = "idle" /\ closes < MaxCloses /\ closes' = closes + 1
  /\ closed' = TRUE
  /\ closer' = [closer EXCEPT ![c] = [NoCloser EXCEPT !.pc = "await", !.zero = epoch]]
  /\ Fine /\ UNCHANGED <<Building, ns, receipts, Observing, receipt>>

CancelClose(c) ==
  /\ closer[c].pc \in {"await", "mutex", "drain"} /\ closer[c].ctx
  /\ closer' = [closer EXCEPT ![c].ctx = FALSE]
  /\ Fine /\ UNCHANGED <<Building, ns, receipts, Observing, closed, receipt, closes>>

(* The channel of epoch z is closed once that round of observations ended.  *)
ZeroClosed(z) == z < epoch \/ active = {}
AwaitIdle(c) ==
  /\ closer[c].pc = "await"
  /\ \/ ZeroClosed(closer[c].zero) /\ closer[c].ctx /\ Goto(c, "mutex")
     \/ ~closer[c].ctx /\ closer' = [closer EXCEPT ![c] = Answer(c)]
  /\ Fine /\ UNCHANGED <<Building, ns, receipts, Observing, closed, receipt, closes>>

(* closeMu admits one; a receipt issued before is returned again.           *)
AcquireCloseMu(c) ==
  /\ closer[c].pc = "mutex"
  /\ \/ /\ \A d \in Closers : closer[d].pc # "drain"
        /\ IF receipt # {} THEN closer' = [closer EXCEPT ![c] = Answer(c)] ELSE Goto(c, "drain")
     \/ ~closer[c].ctx /\ closer' = [closer EXCEPT ![c] = Answer(c)]
  /\ Fine /\ UNCHANGED <<Building, ns, receipts, Observing, closed, receipt, closes>>

(* drainNamespacesWithContext(): each namespace without a receipt is        *)
(* drained, in any order; a drain that fails, and any under a cancelled     *)
(* context, is joined to the error and the next one is tried.               *)
Undrained == {i \in Instances : ns[i] # "none"} \ receipts
DrainNamespace(c) ==
  /\ closer[c].pc = "drain"
  /\ \E i \in Undrained \ closer[c].failed :
       \/ /\ closer[c].ctx /\ Fine /\ ns' = [ns EXCEPT ![i] = "drained"] /\ receipts' = receipts \cup {i}
          /\ stage' = [o \in Observers |-> IF obs[o].inst = i THEN [stage[o] EXCEPT !.dir = "removed", !.entries = {}] ELSE stage[o]]
          /\ UNCHANGED closer
       \/ /\ (closer[c].ctx /\ Upset) \/ (~closer[c].ctx /\ Fine)
          /\ closer' = [closer EXCEPT ![c].failed = @ \cup {i}] /\ UNCHANGED <<ns, receipts, stage>>
  /\ UNCHANGED <<Building, active, epoch, obs, closed, receipt, closes>>

(* NewProviderRunTerminalReceipt() takes the receipts of all, at least one. *)
FinishDrain(c) ==
  /\ closer[c].pc = "drain" /\ Undrained \subseteq closer[c].failed
  /\ closer' = [closer EXCEPT ![c] = Answer(c)]
  /\ receipt' = IF closer[c].failed # {} THEN receipt ELSE receipts
  /\ Fine /\ UNCHANGED <<Building, ns, receipts, Observing, closed, closes>>

-----------------------------------------------------------------------------
Init ==
  /\ reg = "building" /\ left \in Orders /\ ns = [i \in Instances |-> "none"] /\ receipts = {}
  /\ closed = FALSE /\ active = {} /\ epoch = 0
  /\ obs = [o \in Observers |-> NoObs] /\ stage = [o \in Observers |-> NoStage]
  /\ closer = [c \in Closers |-> NoCloser] /\ receipt = {} /\ upsets = 0 /\ closes = 0

Next ==
  \/ ConstructDefinition \/ FinishConstruction
  \/ \E o \in Observers :
       \/ \E i \in Instances : Admit(o, i)
       \/ ValidateNamespace(o) \/ acquireStagedOutputLease(o) \/ RunInWorkspace(o)
       \/ AuthorizeWriteOnce(o) \/ WriteReport(o) \/ Trespass(o) \/ ProviderEnds(o)
       \/ RevalidateAfterExecution(o) \/ stagedFileObservation(o)
       \/ releaseStagedOutputLease(o) \/ observeDone(o)
  \/ \E c \in Closers :
       Close(c) \/ CancelClose(c) \/ AwaitIdle(c) \/ AcquireCloseMu(c) \/ DrainNamespace(c) \/ FinishDrain(c)

-----------------------------------------------------------------------------
TypeOK ==
  /\ reg \in {"building", "open", "retained", "gone"} /\ ns \in [Instances -> {"none", "held", "spoiled", "drained"}]
  /\ receipts \subseteq Instances /\ receipt \subseteq Instances /\ active \subseteq Instances
  /\ closed \in BOOLEAN /\ epoch \in 0..Cardinality(Observers) /\ upsets \in 0..MaxUpsets /\ closes \in 0..MaxCloses
  /\ DOMAIN obs = Observers /\ DOMAIN stage = Observers /\ DOMAIN closer = Closers

InFlight(o) == obs[o].pc \notin {"idle", "done"}

(* No namespace is drained under a provider that may still use it: a drain  *)
(* waits for every admitted observation, and none is admitted meanwhile; an *)
(* instance serves one observation at a time.                               *)
DrainIsExclusive ==
  /\ \A o \in Observers : InFlight(o) => ns[obs[o].inst] # "drained" /\ \A c \in Closers : closer[c].pc # "drain"
  /\ \A o, p \in Observers : InFlight(o) /\ InFlight(p) /\ obs[o].inst = obs[p].inst => o = p

(* A run receipt stands for every namespace the registry acquired, and a    *)
(* registry whose construction failed is given up only when nothing is held. *)
ReceiptIsComplete ==
  /\ (receipt # {} => \A i \in Instances : ns[i] # "none" => i \in receipt)
  /\ \A i \in receipts : ns[i] = "drained"
  /\ reg = "gone" => HeldNow(ns) = {}

(* A success was read from the one complete report file, after the provider *)
(* ended, and leaves no staging directory behind.                           *)
StagedSuccessIsClean ==
  \A o \in Observers : obs[o].pc = "leave" /\ obs[o].answer = "succeeded" =>
    /\ obs[o].proc = "succeeded"
    /\ Staged(obs[o].inst) => obs[o].read = "good" /\ stage[o].dir = "removed"
=============================================================================
