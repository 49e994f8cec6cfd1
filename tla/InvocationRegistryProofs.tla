---------------------- MODULE InvocationRegistryProofs ----------------------
(***************************************************************************)
(* Proofs about the MCP invocation registry, for any set of identities and *)
(* callers, any limit and any number of starts.                            *)
(*                                                                         *)
(* The inductive invariant ties the three views of an entry together: its  *)
(* phase, its execution goroutine and its done channel; it says that the   *)
(* map points back (id[listed[i]] = i) and holds every running entry, and  *)
(* that a closed registry is draining everything that still runs.          *)
(***************************************************************************)
EXTENDS InvocationRegistry, FiniteSetTheorems, WellFoundedInduction, TLAPS

\* Unallocated entries are untouched; allocated ones have an identity.
Allocation ==
    \A e \in Entries :
        IF e <= nextSequence THEN phase[e] # "unused" /\ id[e] \in Ids
        ELSE phase[e] = "unused" /\ backend[e] = "none"

\* Phase, goroutine and channel of an entry agree.
Agreement ==
    \A e \in Entries :
        /\ phase[e] = "running" <=> Executing(e)
        /\ phase[e] = "terminal" <=> e \in done

\* The map points to allocated entries that carry the identity.
PointsBack ==
    \A i \in Ids : listed[i] # NoEntry => listed[i] <= nextSequence /\ id[listed[i]] = i

RunningInMap == \A e \in Entries : phase[e] = "running" => listed[id[e]] = e

Draining ==
    /\ shutdown # "serving" => closed
    /\ closed => \A e \in Entries : phase[e] = "running" => e \in draining
    /\ shutdown = "clean" => draining \subseteq done

Waiting == \A c \in Callers : caller[c] # "idle" => pointer[c] \in Entries

EntryInv == TypeOK /\ Allocation /\ Agreement /\ PointsBack /\ RunningInMap

RegistryInv == EntryInv /\ Draining /\ Waiting /\ AwaitAnswersItsEntry /\ OnlyOwnersCancel

-----------------------------------------------------------------------------
LEMMA LeastSequence ==
  ASSUME NEW T \in SUBSET Nat, T # {}
  PROVE  \E x \in T : \A y \in T : x <= y
<1>1. PICK x \in T : \A y \in T : ~(<<y, x>> \in OpToRel(<, Nat))
  BY NatLessThanWellFounded, WFMin, Zenon
<1>2. \A y \in T : ~(y < x)
  BY <1>1 DEF OpToRel
<1> QED
  BY <1>2

\* The victim of an eviction is a listed terminal entry.
LEMMA VictimIsTerminal ==
  ASSUME TypeOK, Terminal # {}
  PROVE  OldestTerminal \in Terminal
<1> DEFINE S == {listed[i] : i \in Terminal}
<1>1. S \in SUBSET Nat /\ S # {}
  BY RegistryAssumption DEF TypeOK, Terminal, Listed, Entries, NoEntry
<1>2. PICK x \in S : \A y \in S : x <= y
  BY <1>1, LeastSequence
<1>3. \E i \in Terminal : \A j \in Terminal : listed[i] <= listed[j]
  BY <1>2
<1> QED
  BY <1>3 DEF OldestTerminal

\* What eviction leaves in the map: the running entries, and nothing new.
LEMMA EvictionKeepsRunning ==
  ASSUME TypeOK
  PROVE  /\ AfterEviction \in [Ids -> Entries \cup {NoEntry}]
         /\ \A i \in Ids : AfterEviction[i] # NoEntry => AfterEviction[i] = listed[i]
         /\ \A i \in Ids : listed[i] # NoEntry /\ phase[listed[i]] # "terminal"
                             => AfterEviction[i] = listed[i]
<1>1. CASE Cardinality(Listed) >= Limit /\ Terminal # {}
  <2>1. OldestTerminal \in Ids /\ phase[listed[OldestTerminal]] = "terminal"
    BY <1>1, VictimIsTerminal DEF Terminal, Listed
  <2>2. AfterEviction = [listed EXCEPT ![OldestTerminal] = NoEntry]
    BY <1>1 DEF AfterEviction
  <2> QED
    BY <2>1, <2>2 DEF TypeOK
<1>2. CASE ~(Cardinality(Listed) >= Limit /\ Terminal # {})
  <2>1. AfterEviction = listed
    BY <1>2 DEF AfterEviction
  <2> QED
    BY <2>1 DEF TypeOK
<1> QED
  BY <1>1, <1>2

-----------------------------------------------------------------------------
\* The entries

LEMMA RegistryInit == Init => RegistryInv
<1> SUFFICES ASSUME Init PROVE RegistryInv
  OBVIOUS
<1>1. TypeOK
  <2>1. nextSequence \in 0..MaxStarts
    BY RegistryAssumption DEF Init
  <2>2. closed \in BOOLEAN /\ serveDone \in BOOLEAN
    BY DEF Init
  <2>3. /\ listed \in [Ids -> Entries \cup {NoEntry}]
        /\ id \in [Entries -> Ids \cup {NoId}]
        /\ phase \in [Entries -> Phases]
        /\ backend \in [Entries -> BackendStates]
    BY DEF Init, Phases, BackendStates
  <2>4. /\ caller \in [Callers -> {"idle", "waiting", "cut"}]
        /\ pointer \in [Callers -> Entries \cup {NoEntry}]
        /\ answer \in [Callers -> Answers]
        /\ answered \in [Callers -> Entries \cup {NoEntry}]
    BY DEF Init, Answers
  <2>5. /\ requested = {} /\ ended = {} /\ done = {} /\ draining = {} /\ requestDone = {}
        /\ shutdown = "serving"
    BY DEF Init
  <2> QED
    BY <2>1, <2>2, <2>3, <2>4, <2>5 DEF TypeOK
<1>2. Allocation /\ Agreement /\ PointsBack /\ RunningInMap
  BY RegistryAssumption
     DEF Init, Allocation, Agreement, PointsBack, RunningInMap, Executing, Entries
<1>3. Draining /\ Waiting /\ AwaitAnswersItsEntry /\ OnlyOwnersCancel
  BY DEF Init, Draining, Waiting, AwaitAnswersItsEntry, OnlyOwnersCancel
<1> QED
  BY <1>1, <1>2, <1>3 DEF RegistryInv, EntryInv

LEMMA StartStep ==
  ASSUME EntryInv, NEW i \in Ids, AddEntry(i)
  PROVE  EntryInv'
<1> DEFINE n == nextSequence + 1
<1>1. /\ n \in Entries /\ nextSequence \in Nat /\ nextSequence' = n
      /\ id' = [id EXCEPT ![n] = i]
      /\ listed' = [AfterEviction EXCEPT ![i] = n]
      /\ phase' = [phase EXCEPT ![n] = "running"]
      /\ backend' = [backend EXCEPT ![n] = "reviewing"]
      /\ done' = done
  BY RegistryAssumption DEF AddEntry, EntryInv, TypeOK, Entries
<1>2. /\ phase[n] = "unused" /\ backend[n] = "none" /\ n \notin done
  BY <1>1 DEF EntryInv, Allocation, Agreement
<1>3. listed[i] = NoEntry
  BY DEF AddEntry
<1>t. TypeOK
  BY DEF EntryInv
<1>u. AfterEviction \in [Ids -> Entries \cup {NoEntry}]
  BY <1>t, EvictionKeepsRunning
<1> HIDE DEF n
<1>4. TypeOK'
  <2>1. /\ nextSequence' \in 0..MaxStarts
        /\ listed' \in [Ids -> Entries \cup {NoEntry}]
        /\ id' \in [Entries -> Ids \cup {NoId}]
        /\ phase' \in [Entries -> Phases]
        /\ backend' \in [Entries -> BackendStates]
    BY <1>1, <1>t, <1>u, RegistryAssumption DEF TypeOK, Phases, BackendStates, Entries
  <2>2. ended' \subseteq Entries
    BY <1>1, <1>t DEF AddEntry, TypeOK
  <2>3. UNCHANGED <<requested, done, sessionVars, callerVars>>
    BY DEF AddEntry
  <2> QED
    BY <1>t, <2>1, <2>2, <2>3 DEF TypeOK, sessionVars, callerVars
<1>5. Allocation'
  <2> SUFFICES ASSUME NEW e \in Entries
               PROVE IF e <= n THEN phase'[e] # "unused" /\ id'[e] \in Ids
                     ELSE phase'[e] = "unused" /\ backend'[e] = "none"
    BY <1>1 DEF Allocation
  <2>1. CASE e = n
    BY <1>1, <1>t, <2>1 DEF TypeOK, Entries
  <2>2. CASE e # n
    <3>1. e <= n <=> e <= nextSequence
      BY <1>1, <2>2, RegistryAssumption DEF Entries, n
    <3>2. phase'[e] = phase[e] /\ id'[e] = id[e] /\ backend'[e] = backend[e]
      BY <1>1, <1>t, <2>2 DEF TypeOK
    <3> QED
      BY <3>1, <3>2 DEF EntryInv, Allocation
  <2> QED
    BY <2>1, <2>2
<1>6. Agreement'
  <2> SUFFICES ASSUME NEW e \in Entries
               PROVE /\ phase'[e] = "running" <=> Executing(e)'
                     /\ phase'[e] = "terminal" <=> e \in done'
    BY DEF Agreement
  <2>1. CASE e = n
    BY <1>1, <1>2, <1>t, <2>1 DEF TypeOK, Executing
  <2>2. CASE e # n
    BY <1>1, <1>t, <2>2 DEF TypeOK, EntryInv, Agreement, Executing
  <2> QED
    BY <2>1, <2>2
<1>7. PointsBack'
  <2> SUFFICES ASSUME NEW j \in Ids, listed'[j] # NoEntry
               PROVE listed'[j] <= n /\ id'[listed'[j]] = j
    BY <1>1 DEF PointsBack
  <2>1. CASE j = i
    BY <1>1, <1>t, <1>u, <2>1 DEF TypeOK, Entries
  <2>2. CASE j # i
    <3>1. listed'[j] = listed[j] /\ listed[j] # NoEntry
      BY <1>1, <1>t, <1>u, <2>2, EvictionKeepsRunning
    <3>2. listed[j] <= nextSequence /\ id[listed[j]] = j /\ listed[j] \in Entries
      BY <1>t, <3>1 DEF EntryInv, PointsBack, TypeOK
    <3>3. listed[j] # n /\ listed[j] <= n
      BY <1>1, <3>2 DEF Entries, n
    <3> QED
      BY <1>1, <1>t, <3>1, <3>2, <3>3 DEF TypeOK
  <2> QED
    BY <2>1, <2>2
<1>8. RunningInMap'
  <2> SUFFICES ASSUME NEW e \in Entries, phase'[e] = "running"
               PROVE listed'[id'[e]] = e
    BY DEF RunningInMap
  <2>1. CASE e = n
    BY <1>1, <1>t, <1>u, <2>1 DEF TypeOK
  <2>2. CASE e # n
    <3>1. phase[e] = "running" /\ id'[e] = id[e]
      BY <1>1, <1>t, <2>2 DEF TypeOK
    <3>2. listed[id[e]] = e /\ id[e] \in Ids
      BY <3>1 DEF EntryInv, RunningInMap, Allocation
    <3>3. e # NoEntry
      BY DEF Entries, NoEntry
    <3>4. AfterEviction[id[e]] = e /\ id[e] # i
      BY <1>3, <1>t, <3>1, <3>2, <3>3, EvictionKeepsRunning
    <3> QED
      BY <1>1, <1>u, <3>1, <3>2, <3>4
  <2> QED
    BY <2>1, <2>2
<1> QED
  BY <1>4, <1>5, <1>6, <1>7, <1>8 DEF EntryInv

LEMMA ExecutionStep ==
  ASSUME EntryInv, NEW e \in Entries, Execution(e)
  PROVE  EntryInv'
<1>t. TypeOK
  BY DEF EntryInv
<1>1. UNCHANGED <<nextSequence, listed, id, requested, sessionVars, callerVars>>
  BY DEF Execution, Return, Finish
<1>2. /\ phase[e] = "running" /\ e <= nextSequence
      /\ \A d \in Entries : d # e => /\ phase'[d] = phase[d] /\ backend'[d] = backend[d]
                                     /\ d \in done' <=> d \in done
      /\ \/ phase'[e] = "running" /\ e \notin done' /\ backend'[e] \in {"reviewing", "returned"}
         \/ phase'[e] = "terminal" /\ e \in done' /\ backend'[e] = "finished"
      /\ phase' \in [Entries -> Phases] /\ backend' \in [Entries -> BackendStates]
      /\ done' \subseteq Entries /\ ended' \subseteq Entries
  <2>1. phase[e] = "running"
    BY DEF EntryInv, Agreement, Executing, Execution, Return, Finish
  <2>2. e \notin done /\ e <= nextSequence
    BY <2>1 DEF EntryInv, Agreement, Allocation
  <2>4. CASE Return(e)
    BY <1>t, <2>1, <2>2, <2>4 DEF TypeOK, Return, BackendStates
  <2>5. CASE Finish(e)
    BY <1>t, <2>1, <2>2, <2>5 DEF TypeOK, Finish, BackendStates, Phases
  <2> QED
    BY <2>4, <2>5 DEF Execution
<1>3. TypeOK'
  BY <1>t, <1>1, <1>2 DEF TypeOK, sessionVars, callerVars
<1>4. Allocation'
  BY <1>1, <1>2 DEF EntryInv, Allocation
<1>5. Agreement'
  BY <1>2 DEF EntryInv, Agreement, Executing
<1>6. PointsBack'
  BY <1>1 DEF EntryInv, PointsBack
<1>7. RunningInMap'
  BY <1>1, <1>2 DEF EntryInv, RunningInMap
<1> QED
  BY <1>3, <1>4, <1>5, <1>6, <1>7 DEF EntryInv

\* The steps that leave the entries alone, apart from their contexts.
LEMMA OtherStep ==
  ASSUME EntryInv, UNCHANGED <<nextSequence, listed, id, phase, backend, done>>, TypeOK'
  PROVE  EntryInv'
BY DEF EntryInv, Allocation, Agreement, PointsBack, RunningInMap, Executing

LEMMA OtherTypes ==
  ASSUME TypeOK,
         \/ \E i \in Ids : Cancel(i)
         \/ \E i \in Ids, c \in Callers : Await(c, i)
         \/ \E c \in Callers : Waiter(c)
         \/ ServeContextEnds \/ Shutdown \/ ShutdownReturns \/ ShutdownExpires
         \/ UNCHANGED vars
  PROVE  TypeOK' /\ UNCHANGED <<nextSequence, listed, id, phase, backend, done>>
<1> DEFINE Goal == TypeOK' /\ UNCHANGED <<nextSequence, listed, id, phase, backend, done>>
<1>1. ASSUME NEW i \in Ids, Cancel(i) PROVE Goal
  BY <1>1 DEF TypeOK, Cancel, sessionVars, callerVars
<1>2. ASSUME NEW i \in Ids, NEW c \in Callers, Await(c, i) PROVE Goal
  <2>1. UNCHANGED <<nextSequence, listed, id, phase, requested, ended, backend, done,
                    closed, serveDone, shutdown, draining>>
    BY <1>2 DEF Await, entryVars, sessionVars
  <2>2. /\ requestDone' \subseteq Callers /\ pointer' \in [Callers -> Entries \cup {NoEntry}]
        /\ caller' \in [Callers -> {"idle", "waiting", "cut"}]
        /\ answer' \in [Callers -> Answers]
        /\ answered' \in [Callers -> Entries \cup {NoEntry}]
    BY <1>2 DEF TypeOK, Await, AnswerFrom, Answers
  <2> QED
    BY <2>1, <2>2 DEF TypeOK
<1>3. ASSUME NEW c \in Callers, Waiter(c) PROVE Goal
  <2>1. UNCHANGED <<nextSequence, listed, id, phase, requested, ended, backend, done,
                    closed, serveDone, shutdown, draining>>
    BY <1>3 DEF Waiter, AwaitDone, RequestEnds, AwaitCut, AwaitReport, entryVars, sessionVars
  <2>2. /\ requestDone' \subseteq Callers /\ pointer' \in [Callers -> Entries \cup {NoEntry}]
        /\ caller' \in [Callers -> {"idle", "waiting", "cut"}]
        /\ answer' \in [Callers -> Answers]
        /\ answered' \in [Callers -> Entries \cup {NoEntry}]
    BY <1>3 DEF TypeOK, Waiter, AwaitDone, RequestEnds, AwaitCut, AwaitReport, AnswerFrom, Answers
  <2> QED
    BY <2>1, <2>2 DEF TypeOK
<1>4. ASSUME ServeContextEnds PROVE Goal
  <2>1. 1..nextSequence \subseteq Entries
    BY RegistryAssumption DEF TypeOK, Entries
  <2> QED
    BY <1>4, <2>1 DEF TypeOK, ServeContextEnds, callerVars
<1>5. ASSUME Shutdown PROVE Goal
  <2>1. RunningListed \subseteq Entries
    BY DEF TypeOK, RunningListed, Listed
  <2> QED
    BY <1>5, <2>1 DEF TypeOK, Shutdown, callerVars
<1>6. ASSUME ShutdownReturns \/ ShutdownExpires PROVE Goal
  BY <1>6 DEF TypeOK, ShutdownReturns, ShutdownExpires, entryVars, callerVars
<1>7. ASSUME UNCHANGED vars PROVE Goal
  BY <1>7 DEF TypeOK, vars, entryVars, sessionVars, callerVars
<1> QED
  BY <1>1, <1>2, <1>3, <1>4, <1>5, <1>6, <1>7

LEMMA EntryNext ==
  ASSUME EntryInv, [Next]_vars
  PROVE  EntryInv'
<1>1. ASSUME NEW i \in Ids, Start(i) PROVE EntryInv'
  BY <1>1, StartStep DEF Start
<1>2. ASSUME NEW e \in Entries, Execution(e) PROVE EntryInv'
  BY <1>2, ExecutionStep
<1> DEFINE Other == \/ \E i \in Ids : Cancel(i)
                    \/ \E i \in Ids, c \in Callers : Await(c, i)
                    \/ \E c \in Callers : Waiter(c)
                    \/ ServeContextEnds \/ Shutdown \/ ShutdownReturns \/ ShutdownExpires
                    \/ UNCHANGED vars
<1>3. ASSUME Other PROVE EntryInv'
  <2>1. TypeOK
    BY DEF EntryInv
  <2> QED
    BY <1>3, <2>1, OtherTypes, OtherStep
<1> QED
  BY <1>1, <1>2, <1>3 DEF Next, Client, Exited

-----------------------------------------------------------------------------
\* Shutdown

\* In an entry invariant state, Shutdown collects every running entry.
LEMMA ShutdownCollectsAll ==
  ASSUME EntryInv, NEW e \in Entries, phase[e] = "running"
  PROVE  e \in RunningListed
<1>1. listed[id[e]] = e /\ id[e] \in Ids /\ e # NoEntry
  BY DEF EntryInv, RunningInMap, Allocation, Entries, NoEntry
<1> QED
  BY <1>1 DEF RunningListed, Listed

LEMMA DrainingNext ==
  ASSUME EntryInv, Draining, [Next]_vars
  PROVE  Draining'
<1>1. ASSUME NEW i \in Ids, Start(i) PROVE Draining'
  BY <1>1 DEF Start, AddEntry, Draining, sessionVars
<1>2. ASSUME NEW e \in Entries, Execution(e) PROVE Draining'
  <2>1. UNCHANGED <<closed, shutdown, draining>> /\ done \subseteq done'
    BY <1>2 DEF Execution, Return, Finish, sessionVars
  <2>2. \A d \in Entries : phase'[d] = "running" => phase[d] = "running"
    BY <1>2 DEF Execution, Return, Finish, EntryInv, TypeOK
  <2> QED
    BY <2>1, <2>2 DEF Draining
<1>3. ASSUME UNCHANGED <<phase, done, closed, shutdown, draining>> PROVE Draining'
  BY <1>3 DEF Draining
<1>4. ASSUME NEW i \in Ids, Cancel(i) \/ \E c \in Callers : Await(c, i) PROVE Draining'
  BY <1>3, <1>4 DEF Cancel, Await, entryVars, sessionVars
<1>5. ASSUME NEW c \in Callers, Waiter(c) PROVE Draining'
  BY <1>3, <1>5 DEF Waiter, AwaitDone, RequestEnds, AwaitCut, AwaitReport, entryVars, sessionVars
<1>6. CASE ServeContextEnds
  BY <1>3, <1>6 DEF ServeContextEnds
<1>7. CASE Shutdown
  BY <1>7, ShutdownCollectsAll DEF Shutdown, Draining
<1>8. CASE ShutdownReturns
  BY <1>8 DEF ShutdownReturns, Drained, Draining, entryVars
<1>9. CASE ShutdownExpires
  BY <1>9 DEF ShutdownExpires, Draining, entryVars
<1>10. CASE UNCHANGED vars
  BY <1>3, <1>10 DEF vars, entryVars, sessionVars
<1> QED
  BY <1>1, <1>2, <1>4, <1>5, <1>6, <1>7, <1>8, <1>9, <1>10 DEF Next, Client, Exited

-----------------------------------------------------------------------------
\* Callers

LEMMA CallersNext ==
  ASSUME EntryInv, Waiting, AwaitAnswersItsEntry, [Next]_vars
  PROVE  Waiting' /\ AwaitAnswersItsEntry'
<1> DEFINE Goal == Waiting' /\ AwaitAnswersItsEntry'
<1>t. /\ caller \in [Callers -> {"idle", "waiting", "cut"}]
      /\ pointer \in [Callers -> Entries \cup {NoEntry}]
      /\ answer \in [Callers -> Answers]
      /\ answered \in [Callers -> Entries \cup {NoEntry}]
      /\ listed \in [Ids -> Entries \cup {NoEntry}]
  BY DEF EntryInv, TypeOK
<1>0. NoEntry \notin Entries
  BY DEF Entries, NoEntry
<1>1. ASSUME UNCHANGED <<caller, pointer, answer, answered>> PROVE Goal
  BY <1>1 DEF Waiting, AwaitAnswersItsEntry
<1>2. ASSUME NEW i \in Ids, NEW c \in Callers, Await(c, i) PROVE Goal
  <2>1. CASE listed[i] = NoEntry
    BY <1>t, <1>2, <2>1 DEF Await, Waiting, AwaitAnswersItsEntry
  <2>2. CASE listed[i] # NoEntry /\ phase[listed[i]] = "terminal"
    BY <1>t, <1>2, <2>2 DEF Await, AnswerFrom, Waiting, AwaitAnswersItsEntry
  <2>3. CASE listed[i] # NoEntry /\ phase[listed[i]] # "terminal"
    BY <1>t, <1>2, <2>3 DEF Await, Waiting, AwaitAnswersItsEntry
  <2> QED
    BY <2>1, <2>2, <2>3
<1>3. ASSUME NEW c \in Callers, AwaitDone(c) PROVE Goal
  <2>1. phase[pointer[c]] = "terminal"
    BY <1>3 DEF AwaitDone, EntryInv, Agreement, TypeOK
  <2> QED
    BY <1>t, <1>3, <2>1 DEF AwaitDone, AnswerFrom, Waiting, AwaitAnswersItsEntry
<1>4. ASSUME NEW c \in Callers, RequestEnds(c) PROVE Goal
  BY <1>1, <1>4 DEF RequestEnds
<1>5. ASSUME NEW c \in Callers, AwaitCut(c) PROVE Goal
  BY <1>t, <1>5 DEF AwaitCut, Waiting, AwaitAnswersItsEntry
<1>6. ASSUME NEW c \in Callers, AwaitReport(c) PROVE Goal
  BY <1>t, <1>6 DEF AwaitReport, Waiting, AwaitAnswersItsEntry
<1>7. ASSUME NEW i \in Ids, Start(i) \/ Cancel(i) PROVE Goal
  BY <1>1, <1>7 DEF Start, AddEntry, Cancel, callerVars
<1>8. ASSUME NEW e \in Entries, Execution(e) PROVE Goal
  BY <1>1, <1>8 DEF Execution, Return, Finish, callerVars
<1>9. ASSUME ServeContextEnds \/ Shutdown \/ ShutdownReturns \/ ShutdownExpires PROVE Goal
  BY <1>1, <1>9 DEF ServeContextEnds, Shutdown, ShutdownReturns, ShutdownExpires, callerVars
<1>10. ASSUME UNCHANGED vars PROVE Goal
  BY <1>1, <1>10 DEF vars, callerVars
<1> QED
  BY <1>2, <1>3, <1>4, <1>5, <1>6, <1>7, <1>8, <1>9, <1>10 DEF Next, Client, Waiter, Exited

LEMMA OwnersNext ==
  ASSUME EntryInv, OnlyOwnersCancel, [Next]_vars
  PROVE  OnlyOwnersCancel'
<1>1. ASSUME UNCHANGED <<ended, requested, serveDone, closed, phase>> PROVE OnlyOwnersCancel'
  BY <1>1 DEF OnlyOwnersCancel
<1>2. ASSUME NEW i \in Ids, Start(i) PROVE OnlyOwnersCancel'
  <2>1. \A e \in ended : phase[e] = "terminal" => phase'[e] = "terminal"
    <3>1. nextSequence + 1 \in Entries /\ phase[nextSequence + 1] = "unused"
      BY <1>2, RegistryAssumption DEF Start, AddEntry, EntryInv, TypeOK, Allocation, Entries
    <3> QED
      BY <1>2, <3>1 DEF Start, AddEntry, EntryInv, TypeOK
  <2> QED
    BY <1>2, <2>1 DEF Start, AddEntry, OnlyOwnersCancel, sessionVars
<1>3. ASSUME NEW e \in Entries, Execution(e) PROVE OnlyOwnersCancel'
  BY <1>3 DEF Execution, Return, Finish, OnlyOwnersCancel, EntryInv, TypeOK, sessionVars
<1>4. ASSUME NEW i \in Ids, Cancel(i) PROVE OnlyOwnersCancel'
  BY <1>4 DEF Cancel, OnlyOwnersCancel, sessionVars
<1>5. ASSUME NEW i \in Ids, NEW c \in Callers, Await(c, i) PROVE OnlyOwnersCancel'
  BY <1>1, <1>5 DEF Await, entryVars, sessionVars
<1>6. ASSUME NEW c \in Callers, Waiter(c) PROVE OnlyOwnersCancel'
  BY <1>1, <1>6 DEF Waiter, AwaitDone, RequestEnds, AwaitCut, AwaitReport, entryVars, sessionVars
<1>7. CASE ServeContextEnds \/ Shutdown
  BY <1>7 DEF ServeContextEnds, Shutdown, OnlyOwnersCancel
<1>8. CASE ShutdownReturns \/ ShutdownExpires \/ UNCHANGED vars
  BY <1>1, <1>8 DEF ShutdownReturns, ShutdownExpires, vars, entryVars, sessionVars
<1> QED
  BY <1>2, <1>3, <1>4, <1>5, <1>6, <1>7, <1>8 DEF Next, Client, Exited

-----------------------------------------------------------------------------
\* Every reachable state of the registry satisfies the inductive invariant.
THEOREM RegistryInvariant == Spec => []RegistryInv
<1>1. Init => RegistryInv
  BY RegistryInit
<1>2. RegistryInv /\ [Next]_vars => RegistryInv'
  BY EntryNext, DrainingNext, CallersNext, OwnersNext DEF RegistryInv
<1> QED
  BY <1>1, <1>2, PTL DEF Spec

\* A review that executes can always be awaited and cancelled by its identity:
\* eviction and later starts never take it out of the map.
THEOREM NeverEvictedWhileExecuting == Spec => []ExecutingIsListed
<1>1. RegistryInv => ExecutingIsListed
  BY DEF RegistryInv, EntryInv, Agreement, RunningInMap, ExecutingIsListed
<1> QED
  BY <1>1, RegistryInvariant, PTL

\* A Shutdown that returned nil left no review of the session executing,
\* however starts and completions raced with it.
THEOREM ShutdownDrains == Spec => []CleanShutdownDrains
<1>1. RegistryInv => CleanShutdownDrains
  <2> SUFFICES ASSUME RegistryInv, shutdown = "clean", NEW e \in Entries, Executing(e)
               PROVE FALSE
    BY DEF CleanShutdownDrains
  <2>1. phase[e] = "running"
    BY DEF RegistryInv, EntryInv, Agreement
  <2>2. e \in done
    BY <2>1 DEF RegistryInv, Draining
  <2> QED
    BY <2>1, <2>2 DEF RegistryInv, EntryInv, Agreement
<1> QED
  BY <1>1, RegistryInvariant, PTL

\* An await answers from the entry it was admitted for, across eviction and reuse
\* of its identity: with its terminal result, or with invocation_state_invalid if
\* that review returned nothing.
THEOREM AwaitIsExact == Spec => []AwaitAnswersItsEntry
<1>1. RegistryInv => AwaitAnswersItsEntry
  BY DEF RegistryInv
<1> QED
  BY <1>1, RegistryInvariant, PTL

\* No await ever cancels the review it observes.
THEOREM WaitsDoNotOwn == Spec => []OnlyOwnersCancel
<1>1. RegistryInv => OnlyOwnersCancel
  BY DEF RegistryInv
<1> QED
  BY <1>1, RegistryInvariant, PTL

-----------------------------------------------------------------------------
\* The end of the session

\* A wait is only cut by the caller's own request or by the end of the server's context.
CutWithReason == \A c \in Callers : caller[c] = "cut" => c \in requestDone \/ serveDone

SessionInv == CutWithReason /\ SessionEndIsReported

LEMMA SessionInit == Init => SessionInv
BY DEF Init, SessionInv, CutWithReason, SessionEndIsReported

LEMMA SessionNext ==
  ASSUME EntryInv, SessionInv, [Next]_vars
  PROVE  SessionInv'
<1>t. /\ caller \in [Callers -> {"idle", "waiting", "cut"}] /\ answer \in [Callers -> Answers]
      /\ requestDone \subseteq Callers
  BY DEF EntryInv, TypeOK
<1>1. ASSUME UNCHANGED <<caller, requestDone, answer>>, serveDone => serveDone' PROVE SessionInv'
  BY <1>1 DEF SessionInv, CutWithReason, SessionEndIsReported
<1>2. ASSUME NEW i \in Ids, NEW c \in Callers, Await(c, i) PROVE SessionInv'
  <2>1. /\ UNCHANGED serveDone /\ requestDone' = requestDone \ {c}
        /\ \A d \in Callers : d # c => answer'[d] = answer[d] /\ caller'[d] = caller[d]
        /\ answer'[c] # "await_cancelled" /\ caller'[c] # "cut"
    BY <1>t, <1>2 DEF Await, AnswerFrom, sessionVars
  <2> QED
    BY <2>1 DEF SessionInv, CutWithReason, SessionEndIsReported
<1>3. ASSUME NEW c \in Callers, Waiter(c) PROVE SessionInv'
  <2>1. UNCHANGED <<serveDone, closed>> /\ requestDone \subseteq requestDone'
    BY <1>3 DEF Waiter, AwaitDone, RequestEnds, AwaitCut, AwaitReport, sessionVars
  <2>2. \A d \in Callers : d # c => answer'[d] = answer[d] /\ caller'[d] = caller[d]
    BY <1>t, <1>3 DEF Waiter, AwaitDone, RequestEnds, AwaitCut, AwaitReport, AnswerFrom
  <2>3. \/ answer'[c] = answer[c]
        \/ answer'[c] # "await_cancelled"
        \/ caller[c] = "cut" /\ ~serveDone /\ answer'[c] = "await_cancelled"
    BY <1>t, <1>3 DEF Waiter, AwaitDone, RequestEnds, AwaitCut, AwaitReport, AnswerFrom, SessionEnded
  <2>4. caller'[c] = "cut" => c \in requestDone \/ serveDone
    BY <1>t, <1>3 DEF Waiter, AwaitDone, RequestEnds, AwaitCut, AwaitReport
  <2> QED
    BY <2>1, <2>2, <2>3, <2>4 DEF SessionInv, CutWithReason, SessionEndIsReported
<1>4. ASSUME \/ \E i \in Ids : Start(i) \/ Cancel(i)
             \/ \E e \in Entries : Execution(e)
             \/ ServeContextEnds \/ Shutdown \/ ShutdownReturns \/ ShutdownExpires
             \/ UNCHANGED vars
      PROVE SessionInv'
  <2>1. UNCHANGED <<caller, requestDone, answer>> /\ (serveDone => serveDone')
    BY <1>4 DEF Start, AddEntry, Cancel, Execution, Return, Finish, ServeContextEnds, Shutdown,
                ShutdownReturns, ShutdownExpires, vars, sessionVars, callerVars
  <2> QED
    BY <1>1, <2>1
<1> QED
  BY <1>2, <1>3, <1>4 DEF Next, Client, Exited

\* However requests and the session end together: a caller cut by the end of the session is
\* told so, and only one whose own request ended is answered the retryable await_cancelled.
THEOREM SessionEndReported == Spec => []SessionEndIsReported
<1>1. RegistryInv => EntryInv
  BY DEF RegistryInv
<1>2. Spec => [](RegistryInv /\ SessionInv)
  <2>1. RegistryInv /\ SessionInv /\ [Next]_vars => RegistryInv' /\ SessionInv'
    BY <1>1, EntryNext, DrainingNext, CallersNext, OwnersNext, SessionNext DEF RegistryInv
  <2> QED
    BY <2>1, RegistryInit, SessionInit, PTL DEF Spec
<1>3. SessionInv => SessionEndIsReported
  BY DEF SessionInv
<1> QED
  BY <1>2, <1>3, PTL
=============================================================================
