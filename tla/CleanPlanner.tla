---------------------------- MODULE CleanPlanner ----------------------------
(***************************************************************************)
(* The pure retention planner of `mulgae clean` (internal/app/clean): from *)
(* one observation of the store it computes which runs are protected and   *)
(* which are selected, and the receipt that the apply phase re-validates.  *)
(*                                                                         *)
(* A run is a natural number, so that the order of run IDs is the order of *)
(* numbers.  An observation is a record                                    *)
(*   runs      a function from the observed runs to records                *)
(*               [active, uncommitted, corrupt : BOOLEAN,                  *)
(*                time : Nat (0 = no completion time), bytes : Nat]        *)
(*   edges     a set of lineage edges [child, parent, valid]               *)
(*   keep      explicitly kept runs                                        *)
(*   now, age, minAge, target, protectedBytes, maxBytes                    *)
(* maxBytes stands for math.MaxInt64.                                      *)
(***************************************************************************)
EXTENDS Naturals, FiniteSets, Sequences, SequencesExt

(* validateSnapshotIdentity and the checks at the head of Plan: byte       *)
(* counts and policies are natural numbers here, so the keep list is what  *)
(* remains.                                                                *)
ValidSnapshot(obs) == obs.keep \subseteq DOMAIN obs.runs

-----------------------------------------------------------------------------
(* Lineage validity: edges are visited in (child, parent) order, carrying  *)
(* the parents accepted so far and the edges found invalid.                *)

EdgeBefore(e, f) == \/ e.child < f.child
                    \/ e.child = f.child /\ e.parent < f.parent
                    \/ e.child = f.child /\ e.parent = f.parent /\ e.valid /\ ~f.valid

SortedEdges(edges) == SetToSortSeq(edges, EdgeBefore)

(* The chain of accepted parents above a run, the run included.            *)
Chain(run, accepted) ==
  LET above[r \in {run} \cup {a.parent : a \in accepted}] ==
        {r} \cup UNION {above[a.parent] : a \in {b \in accepted : b.child = r}}
  IN  above[run]

MarkEdge(marks, e, edges) ==
  LET conflict == \E a \in marks.accepted : a.child = e.child /\ a.parent # e.parent
      cycle    == e.child \in Chain(e.parent, marks.accepted)
  IN  CASE ~e.valid \/ e \in marks.invalid -> [marks EXCEPT !.invalid = @ \cup {e}]
        [] e.parent = e.child              -> [marks EXCEPT !.invalid = @ \cup {e}]
        [] conflict -> [marks EXCEPT !.invalid = @ \cup {f \in edges : f.child = e.child}]
        [] cycle    -> [marks EXCEPT !.invalid = @ \cup {e}]
        [] OTHER    -> [marks EXCEPT !.accepted = @ \cup {[child |-> e.child, parent |-> e.parent]}]

InvalidEdges(edges) ==
  FoldLeft(LAMBDA marks, e : MarkEdge(marks, e, edges),
           [accepted |-> {}, invalid |-> {}], SortedEdges(edges)).invalid

Dangling(obs) ==
  {e \in obs.edges : e.parent \notin DOMAIN obs.runs \/ e.child \notin DOMAIN obs.runs}

(* component: breadth-first search over edges of either direction.         *)
Component(run, edges) ==
  LET linked[found \in SUBSET ({run} \cup UNION {{e.parent, e.child} : e \in edges})] ==
        LET more == found \cup UNION {{e.parent, e.child} :
                       e \in {f \in edges : f.parent \in found \/ f.child \in found}}
        IN  IF more = found THEN found ELSE linked[more]
  IN  linked[{run}]

(* A dangling edge makes the whole store an anomaly; otherwise the weakly  *)
(* connected component of every invalid edge is one.                       *)
AnomalousRuns(obs) ==
  IF Dangling(obs) # {} THEN DOMAIN obs.runs
  ELSE UNION {Component(e.parent, obs.edges) : e \in InvalidEdges(obs.edges)}

Seeds(obs) ==
  obs.keep \cup AnomalousRuns(obs)
  \cup {r \in DOMAIN obs.runs :
          obs.runs[r].active \/ obs.runs[r].uncommitted \/ obs.runs[r].corrupt}

(* The transitive ancestors of the seeds, over the valid edges of runs     *)
(* that are all observed.                                                  *)
WithAncestors(seeds, edges) ==
  LET kept[found \in SUBSET (seeds \cup {e.parent : e \in edges})] ==
        LET more == found \cup {e.parent : e \in {f \in edges : f.child \in found}}
        IN  IF more = found THEN found ELSE kept[more]
  IN  kept[seeds]

ValidEdges(obs) == (obs.edges \ InvalidEdges(obs.edges)) \ Dangling(obs)

Protected(obs) ==
  WithAncestors(Seeds(obs), ValidEdges(obs))
  \cup {r \in DOMAIN obs.runs : obs.runs[r].time = 0}

-----------------------------------------------------------------------------
(* Selection: by age, then by size, oldest first.                          *)

Since(now, age) == IF age > now THEN 0 ELSE now - age

SortRuns(obs, S) ==
  SetToSortSeq(S, LAMBDA a, b :
    \/ obs.runs[a].time < obs.runs[b].time
    \/ obs.runs[a].time = obs.runs[b].time /\ a < b)

AgeCandidates(obs) ==
  {r \in DOMAIN obs.runs \ Protected(obs) : obs.runs[r].time < Since(obs.now, obs.age)}

Young(obs) ==
  {r \in DOMAIN obs.runs \ (Protected(obs) \cup AgeCandidates(obs)) :
     obs.runs[r].time > Since(obs.now, obs.minAge)}

SizeCandidates(obs) ==
  DOMAIN obs.runs \ (Protected(obs) \cup AgeCandidates(obs) \cup Young(obs))

Bytes(obs, S) == FoldSet(LAMBDA r, n : n + obs.runs[r].bytes, 0, S)

(* Oldest size candidates until the projected total is within the target.  *)
SelectSize(obs, projected) ==
  FoldLeft(LAMBDA acc, r : IF acc.left <= obs.target THEN acc
                           ELSE [order |-> Append(acc.order, r),
                                 left |-> acc.left - obs.runs[r].bytes],
           [order |-> <<>>, left |-> projected], SortRuns(obs, SizeCandidates(obs)))

(* actionsFor: a tombstone and a deletion per selected run, in order.      *)
ActionsFor(order) ==
  [i \in 1 .. 2 * Len(order) |->
     [run |-> order[(i + 1) \div 2], action |-> IF i % 2 = 1 THEN "tombstone" ELSE "delete"]]

Decision(obs, age, size, r) ==
  CASE r \in age             -> "selected_age"
    [] r \in size            -> "selected_size"
    [] r \in Protected(obs) \cup Young(obs) -> "protected"
    [] OTHER                 -> "eligible_size"

(* Plan fails when the total of bytes overflows or the policy keeps an     *)
(* unknown run.                                                            *)
InitialBytes(obs) == obs.protectedBytes + Bytes(obs, DOMAIN obs.runs)

PlanFails(obs) == ~ValidSnapshot(obs) \/ InitialBytes(obs) > obs.maxBytes

Plan(obs) ==
  LET initial == InitialBytes(obs)
      age     == AgeCandidates(obs)
      size    == SelectSize(obs, initial - Bytes(obs, age))
      sizeSet == ToSet(size.order)
      order   == SortRuns(obs, age) \o size.order
  IN  [actions   |-> ActionsFor(order),
       age       |-> age,
       size      |-> sizeSet,
       decisions |-> [r \in DOMAIN obs.runs |-> Decision(obs, age, sizeSet, r)],
       initial   |-> initial,
       deleted   |-> [age |-> Bytes(obs, age), size |-> Bytes(obs, sizeSet)],
       projected |-> size.left,
       reached   |-> size.left <= obs.target,
       target    |-> obs.target,
       bytes     |-> [r \in age \cup sizeSet |-> obs.runs[r].bytes]]

-----------------------------------------------------------------------------
(* validateDryRunReceipt: what the apply and resume phases demand of a     *)
(* stored plan before they act on it.                                      *)
ValidReceipt(p) ==
  LET planned == p.deleted.age + p.deleted.size
      total(S) == FoldSet(LAMBDA r, n : n + p.bytes[r], 0, S)
  IN  /\ planned <= p.initial
      /\ p.projected = p.initial - planned
      /\ p.reached = (p.projected <= p.target)
      /\ p.age \cap p.size = {}
      /\ total(p.age) = p.deleted.age /\ total(p.size) = p.deleted.size
      /\ Len(p.actions) = 2 * Cardinality(p.age \cup p.size)
      /\ \A i \in 1 .. Len(p.actions) \div 2 :
           LET t == p.actions[2 * i - 1]
               d == p.actions[2 * i]
           IN  /\ t.action = "tombstone" /\ d.action = "delete" /\ t.run = d.run
               /\ t.run \in p.age \cup p.size
               /\ p.decisions[t.run] = IF t.run \in p.size THEN "selected_size" ELSE "selected_age"
      /\ \A r \in DOMAIN p.decisions :
           p.decisions[r] \in {"selected_age", "selected_size"} <=>
             \E i \in DOMAIN p.actions : p.actions[i].run = r

(* tombstoneSelectsRun: the receipt lists the run's tombstone and delete.  *)
SelectsRun(p, r) ==
  \E i \in 1 .. Len(p.actions) \div 2 :
     /\ p.actions[2 * i - 1] = [run |-> r, action |-> "tombstone"]
     /\ p.actions[2 * i] = [run |-> r, action |-> "delete"]

-----------------------------------------------------------------------------
(* Reference definitions, stated without the algorithm's order or marks.   *)

(* The runs linked to r by edges of either direction: the least set that   *)
(* contains r and is closed.                                               *)
Linked(obs, r) ==
  {x \in DOMAIN obs.runs :
     \A S \in SUBSET DOMAIN obs.runs :
        (r \in S /\ \A e \in obs.edges : e.parent \in S <=> e.child \in S) => x \in S}

(* The lineage around r is a forest of intact edges: every edge is valid,  *)
(* no run has two parents and no set of runs descends from itself.         *)
CleanLineage(obs, r) ==
  LET near == {e \in obs.edges : e.parent \in Linked(obs, r)}
  IN  /\ \A e \in near : e.valid
      /\ \A e, f \in near : e.child = f.child => e.parent = f.parent
      /\ ~ \E S \in SUBSET Linked(obs, r) \ {{}} :
             \A x \in S : \E e \in near : e.child = x /\ e.parent \in S

(* r has a descendant (itself included) that must be retained: it is in    *)
(* every parent-closed set that contains such runs.                        *)
NeededBy(obs, r) ==
  \E s \in DOMAIN obs.runs :
    /\ s \in obs.keep \/ obs.runs[s].active \/ obs.runs[s].uncommitted \/ obs.runs[s].corrupt
    /\ \A S \in SUBSET DOMAIN obs.runs :
         (s \in S /\ \A e \in obs.edges : e.child \in S => e.parent \in S) => r \in S

(* The runs that may be deleted by age or size: in an intact forest, not   *)
(* needed by a retained run, and completed.                                *)
Deletable(obs, r) ==
  /\ obs.runs[r].time > 0
  /\ \A e \in obs.edges : e.parent \in DOMAIN obs.runs /\ e.child \in DOMAIN obs.runs
  /\ CleanLineage(obs, r) /\ ~NeededBy(obs, r)

(* The planner selects exactly the deletable runs older than the retention *)
(* age, and by size only deletable ones: the marking of edges in sorted    *)
(* order agrees with the order-free definition of an intact lineage        *)
(* (planner.go Plan).                                                      *)
SelectsExactlyDeletable(obs) ==
  LET p == Plan(obs)
  IN  ~PlanFails(obs) =>
        /\ p.age = {r \in DOMAIN obs.runs : Deletable(obs, r) /\ obs.runs[r].time < Since(obs.now, obs.age)}
        /\ \A r \in p.size : Deletable(obs, r) /\ obs.runs[r].time <= Since(obs.now, obs.minAge)

(* Size selection is oldest-first and stops as soon as the target is met:  *)
(* without its youngest member the set would not reach the target, and no  *)
(* older candidate is left out (planner.go 261-281).                       *)
SizeSelectionIsTight(obs) ==
  LET p == Plan(obs)
  IN  ~PlanFails(obs) =>
        /\ \A r \in p.size :
             (\A s \in p.size : obs.runs[s].time <= obs.runs[r].time)
               /\ (\A s \in p.size : obs.runs[s].time = obs.runs[r].time => s <= r)
             => p.projected + obs.runs[r].bytes > obs.target
        /\ \A r \in p.size, s \in SizeCandidates(obs) \ p.size : obs.runs[r].time <= obs.runs[s].time
        /\ p.projected > obs.target => p.size = SizeCandidates(obs)

(* Whatever the planner returns, the receipt it persists passes the        *)
(* validation that apply and resume run on it (service.go                  *)
(* validateDryRunReceipt) and selects the runs it lists.                   *)
PlanIsAcceptedReceipt(obs) ==
  LET p == Plan(obs)
  IN  ~PlanFails(obs) => /\ ValidReceipt(p)
                     /\ \A r \in p.age \cup p.size : SelectsRun(p, r)

=============================================================================
