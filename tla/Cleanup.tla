------------------------------- MODULE Cleanup -------------------------------
(***************************************************************************)
(* Concurrent `mulgae clean` processes over one artifact root, while runs  *)
(* start, publish and end (internal/app/clean/service.go,                  *)
(* internal/adapters/filesystem/cleanupstore_darwin.go).                   *)
(*                                                                         *)
(* One clean is four transactions under the publication lock: resume the   *)
(* tombstones of an interrupted clean; observe, plan and persist the plan; *)
(* apply the plan if the store is still at its epoch; clear the plans.     *)
(* A cleaner can be killed or cancelled at any step: the lock is released  *)
(* with the process, what it wrote stays.                                  *)
(***************************************************************************)
EXTENDS CleanPlanner

CONSTANTS Runs,       \* run IDs, natural numbers
          Later,      \* the runs that may start while a clean is under way
          Cleaners,   \* concurrent clean processes
          MaxNow,     \* ticks of the clock (a bound)
          MaxFaults   \* kills and cancellations (a bound)

VARIABLES
  pub,      \* run -> publication tree: "none", "open" (crashed publisher),
            \*   "recovery" (P0 with retention metadata), "committed", "partial"
  diag,     \* run -> diagnostic tree: "none", "active", "terminal" (no P2 link),
            \*   "linked" (terminal, names the P2), "bad" (no readable status)
  done,     \* run -> completion time, 0 when it has none
  parent,   \* run -> lineage parent recorded in its publication, 0 for none
  now,
  plans,    \* persisted dry-run receipts
  tombs,    \* persisted tombstones [run, plan]
  litter,   \* directories that hold an abandoned temporary file
  lock,     \* holder of the publication lock, NoHolder when there is none
  pc,       \* cleaner -> program counter
  mode,     \* cleaner -> whether it deletes to "apply" a plan or to "resume" one
  mine,     \* cleaner -> the plan it carries out
  todo,     \* cleaner -> runs left to delete
  faults

vars == <<pub, diag, done, parent, now, plans, tombs, litter, lock, pc, mode, mine, todo, faults>>
treeVars == <<pub, diag, done, parent>>
journalVars == <<plans, tombs, litter>>
workVars == <<mode, mine, todo>>

NoHolder == "free"
NoPlan == [epoch |-> <<>>, now |-> 0, actions |-> <<>>]

-----------------------------------------------------------------------------
(* observeLocked and observeDiagnosticRuns: a run with a publication tree  *)
(* is one publication observation, whatever its diagnostics; a run that    *)
(* has only diagnostics is a diagnostic-only observation.                  *)
Observed(r) == pub[r] # "none" \/ diag[r] # "none"

RunObservation(r) ==
  IF pub[r] # "none"
  THEN [active      |-> pub[r] \in {"open", "partial"},
        uncommitted |-> pub[r] # "committed",
        corrupt     |-> pub[r] \in {"open", "partial"},
        time        |-> IF pub[r] = "committed" THEN done[r] ELSE 0,
        bytes       |-> 1]
  ELSE [active      |-> diag[r] = "active",
        uncommitted |-> diag[r] = "linked",
        corrupt     |-> diag[r] = "bad",
        time        |-> IF diag[r] \in {"terminal", "linked"} THEN done[r] ELSE 0,
        bytes       |-> 1]

Edges == {[child |-> r, parent |-> parent[r], valid |-> TRUE] :
            r \in {x \in Runs : parent[x] # 0 /\ pub[x] \in {"committed", "recovery"}}}

(* requestPolicy: --all is age 0, --older-than-days a positive age; size   *)
(* never selects, because the target is the largest int64.                 *)
Observation(age) ==
  [runs |-> [r \in {x \in Runs : Observed(x)} |-> RunObservation(r)],
   edges |-> Edges, keep |-> {}, now |-> now, age |-> age, minAge |-> 0,
   target |-> 100, protectedBytes |-> 0, maxBytes |-> 100]

(* The store epoch is a digest of what was observed, not of the journals.  *)
Epoch == <<pub, diag, done>>

-----------------------------------------------------------------------------
(* The initial store: what earlier publications and runs can have left.    *)
StoreInit ==
  /\ \E shape \in [Runs -> {<<"none", "none">>, <<"none", "active">>, <<"none", "terminal">>,
                            <<"committed", "linked">>, <<"committed", "terminal">>,
                            <<"recovery", "terminal">>}] :
       /\ \A r \in Later : shape[r] \in {<<"none", "none">>, <<"committed", "linked">>, <<"recovery", "terminal">>}
       /\ pub = [r \in Runs |-> shape[r][1]]
       /\ diag = [r \in Runs |-> shape[r][2]]
       /\ done = [r \in Runs |-> IF shape[r][2] \in {"terminal", "linked"} THEN 1 ELSE 0]
  /\ \E p \in [Runs -> Runs \cup {0}] :
       /\ \A r \in Runs : p[r] < r /\ (pub[r] \notin {"committed", "recovery"} => p[r] = 0)
       /\ \A r \in Runs : p[r] # 0 => pub[p[r]] = "committed"
       /\ parent = p

Init ==
  /\ StoreInit
  /\ now = 2
  /\ plans = {} /\ tombs = {} /\ litter = {}
  /\ lock = NoHolder
  /\ pc = [c \in Cleaners |-> "idle"]
  /\ mode = [c \in Cleaners |-> "apply"]
  /\ mine = [c \in Cleaners |-> NoPlan]
  /\ todo = [c \in Cleaners |-> <<>>]
  /\ faults = 0

-----------------------------------------------------------------------------
(* The rest of the program, as cleanup meets it.                           *)

Tick == /\ now < MaxNow /\ now' = now + 1
        /\ UNCHANGED <<treeVars, journalVars, lock, pc, workVars, faults>>

(* A run creates its diagnostic tree without the publication lock.         *)
RunStarts(r) ==
  /\ r \in Later /\ ~Observed(r) /\ done[r] = 0
  /\ diag' = [diag EXCEPT ![r] = "active"]
  /\ UNCHANGED <<pub, done, parent, now, journalVars, lock, pc, workVars, faults>>

(* A live run publishes under the lock; a publisher that dies leaves an    *)
(* uncommitted tree.                                                       *)
RunPublishes(r, shape) ==
  /\ lock = NoHolder /\ diag[r] = "active" /\ pub[r] = "none"
  /\ IF shape = "committed" THEN UNCHANGED faults
     ELSE faults < MaxFaults /\ faults' = faults + 1
  /\ pub' = [pub EXCEPT ![r] = shape]
  /\ done' = [done EXCEPT ![r] = now]
  /\ UNCHANGED <<diag, parent, now, journalVars, lock, pc, workVars>>

(* The terminal status is written without the lock: it names the P2 when   *)
(* the run knows it was published.                                         *)
RunEnds(r, shape) ==
  /\ diag[r] = "active"
  /\ shape = "linked" => done[r] # 0 /\ pub[r] \notin {"open", "recovery"}
  /\ diag' = [diag EXCEPT ![r] = shape]
  /\ done' = [done EXCEPT ![r] = IF @ = 0 THEN now ELSE @]
  /\ UNCHANGED <<pub, parent, now, journalVars, lock, pc, workVars, faults>>

-----------------------------------------------------------------------------
(* Transactions of a cleaner.                                              *)

Acquire(c, from, to) ==
  pc[c] = from /\ lock = NoHolder /\ lock' = c /\ pc' = [pc EXCEPT ![c] = to]

Release(c, to) == lock' = NoHolder /\ pc' = [pc EXCEPT ![c] = to]

EndsKeepingLock(c) ==
  /\ pc' = [pc EXCEPT ![c] = "idle"]
  /\ mode' = [mode EXCEPT ![c] = "apply"]
  /\ mine' = [mine EXCEPT ![c] = NoPlan]
  /\ todo' = [todo EXCEPT ![c] = <<>>]
  /\ UNCHANGED lock

(* The command returns, with or without an error.                          *)
Ends(c) ==
  /\ pc' = [pc EXCEPT ![c] = "idle"]
  /\ lock' = IF lock = c THEN NoHolder ELSE lock
  /\ mode' = [mode EXCEPT ![c] = "apply"]
  /\ mine' = [mine EXCEPT ![c] = NoPlan]
  /\ todo' = [todo EXCEPT ![c] = <<>>]

(* ResumeTombstones: an abandoned temporary file makes Tombstones fail.    *)
Resume(c) ==
  /\ Acquire(c, "idle", IF "tombs" \in litter THEN "resumeFails" ELSE "resuming")
  /\ UNCHANGED <<treeVars, now, journalVars, workVars, faults>>

(* The next tombstone: within a plan in run order; its receipt must be     *)
(* there, valid, and select the run.                                       *)
ResumeNext(c) ==
  /\ pc[c] = "resuming"
  /\ \E t \in tombs :
       /\ \A u \in tombs : u.plan = t.plan => t.run <= u.run
       /\ IF t.plan \in plans /\ SelectsRun(t.plan, t.run)
          THEN /\ todo' = [todo EXCEPT ![c] = <<t.run>>]
               /\ mine' = [mine EXCEPT ![c] = t.plan]
               /\ mode' = [mode EXCEPT ![c] = "resume"]
               /\ pc' = [pc EXCEPT ![c] = "delete"]
          ELSE /\ pc' = [pc EXCEPT ![c] = "resumeFails"]
               /\ UNCHANGED workVars
  /\ UNCHANGED <<treeVars, now, journalVars, lock, faults>>

(* clearDryRunPlans: unlinks every receipt; a foreign name stops it after  *)
(* any number of them.                                                     *)
ClearedTo(left) == left \in IF "plans" \in litter THEN SUBSET plans ELSE {{}}

ResumeDone(c) ==
  /\ pc[c] = "resuming" /\ tombs = {}
  /\ ClearedTo(plans')
  /\ IF "plans" \in litter THEN UNCHANGED lock /\ pc' = [pc EXCEPT ![c] = "resumeFails"]
                          ELSE Release(c, "resumed")
  /\ UNCHANGED <<treeVars, now, tombs, litter, workVars, faults>>

(* plan with persist: observe, plan, and write the receipt when there is   *)
(* something to delete.                                                    *)
MakePlan(c, age) ==
  LET p == Plan(Observation(age))
      receipt == [epoch |-> Epoch, now |-> now, actions |-> p.actions]
  IN  /\ pc[c] = "resumed" /\ lock = NoHolder
      /\ ~PlanFails(Observation(age))
      /\ IF p.actions = <<>>
         THEN Ends(c) /\ UNCHANGED plans
         ELSE /\ pc' = [pc EXCEPT ![c] = "planned"]
              /\ plans' = plans \cup {receipt}
              /\ mine' = [mine EXCEPT ![c] = receipt]
              /\ UNCHANGED <<lock, mode, todo>>
      /\ UNCHANGED <<treeVars, now, tombs, litter, faults>>

StillValidReceiptOnly(c) == mine[c] \in plans

(* ExecuteApply: the receipt is still stored and the store is still at the *)
(* plan's epoch, or the plan is stale.                                     *)
StillValid(c) == mine[c] \in plans /\ mine[c].epoch = Epoch

Apply(c) ==
  /\ Acquire(c, "planned", IF StillValid(c) THEN "applying" ELSE "stale")
  /\ mode' = [mode EXCEPT ![c] = "apply"]
  /\ todo' = [todo EXCEPT ![c] = [i \in 1 .. Len(mine[c].actions) \div 2 |-> mine[c].actions[2 * i].run]]
  /\ UNCHANGED <<treeVars, now, journalVars, mine, faults>>

Stale(c) ==
  /\ pc[c] = "stale" /\ Ends(c)
  /\ UNCHANGED <<treeVars, now, journalVars, faults>>

(* The tombstone action of the next pair (writeImmutable).                 *)
TombstoneRun(c) ==
  /\ pc[c] = "applying" /\ todo[c] # <<>>
  /\ tombs' = tombs \cup {[run |-> Head(todo[c]), plan |-> mine[c]]}
  /\ pc' = [pc EXCEPT ![c] = "delete"]
  /\ UNCHANGED <<treeVars, now, plans, litter, lock, workVars, faults>>

ApplyDone(c) ==
  /\ pc[c] = "applying" /\ todo[c] = <<>>
  /\ Release(c, "applied")
  /\ UNCHANGED <<treeVars, now, journalVars, workVars, faults>>

(* The last transaction of Run; a failure here is reported too.            *)
Clear(c) ==
  /\ pc[c] = "applied" /\ lock = NoHolder
  /\ ClearedTo(plans')
  /\ Ends(c)
  /\ UNCHANGED <<treeVars, now, tombs, litter, faults>>

-----------------------------------------------------------------------------
(* DeleteTombstoned, shared by apply and resume: diagnostics first, then   *)
(* the publication tree, then the tombstone.                               *)

Target(c) == Head(todo[c])

DiagnosticChoiceWithAny(r) == IF diag[r] = "none" THEN "keep" ELSE "delete"

(* deletableDiagnosticSession: with a publication only linked diagnostics  *)
(* go with it; without one the diagnostics must be terminal and unlinked.  *)
DiagnosticChoice(r) ==
  CASE diag[r] = "none"                           -> "keep"
    [] pub[r] # "none" /\ diag[r] = "linked"      -> "delete"
    [] pub[r] # "none"                            -> "keep"
    [] diag[r] = "terminal"                       -> "delete"
    [] OTHER                                      -> "error"

(* deleteRun, first half: the status file disappears with the tree; the    *)
(* tree is gone when the removal ends (DiagnosticGone).                    *)
DeleteDiagnostic(c) ==
  /\ pc[c] = "delete"
  /\ LET r == Target(c)
         choice == DiagnosticChoice(r)
     IN  /\ diag' = IF choice = "delete" THEN [diag EXCEPT ![r] = "bad"] ELSE diag
         /\ pc' = [pc EXCEPT ![c] = CASE choice = "delete"    -> "diagnostic"
                                      [] choice = "keep"      -> "publication"
                                      [] mode[c] = "resume"   -> "resumeFails"
                                      [] OTHER                -> "stale"]
  /\ UNCHANGED <<pub, done, parent, now, journalVars, lock, workVars, faults>>

DiagnosticGone(c) ==
  /\ pc[c] = "diagnostic"
  /\ diag' = [diag EXCEPT ![Target(c)] = "none"]
  /\ pc' = [pc EXCEPT ![c] = "publication"]
  /\ UNCHANGED <<pub, done, parent, now, journalVars, lock, workVars, faults>>

(* deleteRun, second half.  Whether there was a publication was read before *)
(* the diagnostics were removed; nobody creates one under the lock.        *)
DeletePublication(c) ==
  /\ pc[c] = "publication"
  /\ LET r == Target(c)
     IN  IF pub[r] \in {"none", "partial"}
         THEN pub' = [pub EXCEPT ![r] = "none"] /\ pc' = [pc EXCEPT ![c] = "unlink"]
         ELSE pub' = [pub EXCEPT ![r] = "partial"] /\ UNCHANGED pc
  /\ UNCHANGED <<diag, done, parent, now, journalVars, lock, workVars, faults>>

UnlinkTombstone(c) ==
  /\ pc[c] = "unlink"
  /\ tombs' = tombs \ {[run |-> Target(c), plan |-> mine[c]]}
  /\ todo' = [todo EXCEPT ![c] = Tail(@)]
  /\ pc' = [pc EXCEPT ![c] = IF mode[c] = "apply" THEN "applying" ELSE "resuming"]
  /\ UNCHANGED <<treeVars, now, plans, litter, lock, mode, mine, faults>>

-----------------------------------------------------------------------------
(* Faults.                                                                 *)

(* The process is killed, its context is cancelled or a system call fails. *)
Interrupt(c) ==
  /\ pc[c] \notin {"idle", "resumeFails", "stale"}
  /\ faults < MaxFaults /\ faults' = faults + 1
  /\ Ends(c)
  /\ UNCHANGED <<treeVars, now, journalVars>>

(* writeImmutable is killed between creating its temporary file and the    *)
(* rename.                                                                 *)
KilledInWrite(c) ==
  /\ faults < MaxFaults /\ faults' = faults + 1
  /\ \/ pc[c] = "applying" /\ todo[c] # <<>> /\ litter' = litter \cup {"tombs"}
     \/ pc[c] = "resumed" /\ lock = NoHolder /\ litter' = litter \cup {"plans"}
  /\ Ends(c)
  /\ UNCHANGED <<treeVars, now, plans, tombs>>

(* A failed resume is reported and the command ends.                       *)
ResumeFails(c) ==
  /\ pc[c] = "resumeFails" /\ Ends(c)
  /\ UNCHANGED <<treeVars, now, journalVars, faults>>

CleanerStep(c) ==
  \/ Resume(c) \/ ResumeNext(c) \/ ResumeDone(c)
  \/ \E age \in {0, 1} : MakePlan(c, age)
  \/ Apply(c) \/ Stale(c) \/ TombstoneRun(c) \/ ApplyDone(c) \/ Clear(c)
  \/ DeleteDiagnostic(c) \/ DiagnosticGone(c) \/ DeletePublication(c) \/ UnlinkTombstone(c)
  \/ ResumeFails(c)

Next ==
  \/ Tick
  \/ \E r \in Runs : \/ RunStarts(r)
                     \/ \E shape \in {"open", "recovery", "committed"} : RunPublishes(r, shape)
                     \/ \E shape \in {"terminal", "linked"} : RunEnds(r, shape)
  \/ \E c \in Cleaners : CleanerStep(c) \/ Interrupt(c) \/ KilledInWrite(c)

Spec == Init /\ [][Next]_vars

-----------------------------------------------------------------------------
(* Properties.                                                             *)

TypeOK ==
  /\ pub \in [Runs -> {"none", "open", "recovery", "committed", "partial"}]
  /\ diag \in [Runs -> {"none", "active", "terminal", "linked", "bad"}]
  /\ done \in [Runs -> 0 .. MaxNow]
  /\ now \in 0 .. MaxNow /\ faults \in 0 .. MaxFaults
  /\ \A t \in tombs : t.run \in Runs
  /\ litter \subseteq {"tombs", "plans"}
  /\ \A c \in Cleaners : lock = c <=> pc[c] \notin {"idle", "resumed", "planned", "applied"}

(* A publication that is half removed has a durable tombstone, so a later  *)
(* clean knows that it was being deleted (DeleteTombstoned unlinks the tombstone *)
(* last, ExecuteApply writes it first).                                    *)
HalfDeletedIsTombstoned ==
  \A r \in Runs : pub[r] = "partial" => \E t \in tombs : t.run = r

(* x was composed from r, directly or through other runs.                  *)
DescendsFrom(x, r) ==
  \A S \in SUBSET Runs :
    (x \in S /\ \A y \in S : parent[y] \in Runs => parent[y] \in S) => r \in S

(* No cleaner, applying or resuming, starts to remove a publication that   *)
(* an unpublished or recovered run still descends from: planning, the      *)
(* epoch check and the lock together keep required ancestors (planner.go   *)
(* 181-208, service.go 245).                                               *)
LineageKept(r) == ~ \E x \in Runs : pub[x] \in {"recovery", "open"} /\ DescendsFrom(x, r)

(* What a cleaner still has to delete is what its plan saw: no other       *)
(* cleaner, publisher or resumed deletion has touched those publications   *)
(* since (the epoch check of ExecuteApply under the lock).                 *)
AppliedAsPlanned ==
  \A c \in Cleaners :
    pc[c] \in {"applying", "delete"} /\ mode[c] = "apply" =>
      \A i \in DOMAIN todo[c] : pub[todo[c][i]] = mine[c].epoch[1][todo[c][i]]

(* Without kills or failed calls every tombstone is gone once all cleaners *)
(* are back: interleaved cleans and ending runs never leave a deletion     *)
(* behind.                                                                 *)
DeletionsFinish ==
  faults = 0 /\ (\A c \in Cleaners : pc[c] = "idle") => tombs = {}

(* "ResumeTombstones completes durable deletions after an interrupted      *)
(* apply" (service.go:279): a resume does not fail while tombstones are    *)
(* left to finish.                                                         *)
ResumeCompletes == \A c \in Cleaners : pc[c] = "resumeFails" => tombs = {}

=============================================================================
