------------------------- MODULE InvocationRegistry -------------------------
(***************************************************************************)
(* The session-local invocation registry of the MCP server:                *)
(* internal/entrypoint/mcp/invocations.go, the start, await and cancel     *)
(* tools of tools.go and the shutdown at the end of Serve in server.go.    *)
(*                                                                         *)
(* An invocationEntry is identified by its sequence number; the map from   *)
(* identities to entries is `listed'.  Handlers and the execution          *)
(* goroutine keep a pointer to an entry after it has left the map.  An     *)
(* identity is chosen by the request identity generator: nothing here      *)
(* assumes that it never repeats one.                                      *)
(***************************************************************************)
EXTENDS Naturals, FiniteSets

CONSTANTS
    Ids,         \* request identities
    Callers,     \* concurrent await_review requests
    Limit,       \* maxSessionInvocations
    MaxStarts,   \* bound: starts over the life of the session (nextSequence)
    Empty        \* the starts whose review returns neither an error nor data

ASSUME RegistryAssumption ==
    /\ Limit \in Nat \ {0}
    /\ MaxStarts \in Nat

Entries == 1..MaxStarts

NoEntry == 0

\* The identity of an entry that has not been allocated.
NoId == "unassigned"

Phases == {"unused", "running", "terminal"}

\* Where the execution goroutine of an entry is: not created, started or inside
\* backend.RunReview, returned from it, or finished.
BackendStates == {"none", "reviewing", "returned", "finished"}

\* What await_review answers: nothing yet, the terminal result, await_cancelled,
\* invocation_registry_closed, invocation_not_found or invocation_state_invalid.
Answers == {"none", "terminal", "await_cancelled", "registry_closed",
            "not_found", "state_invalid"}

VARIABLES
    nextSequence,   \* registry.nextSequence
    listed,         \* registry.entries: [Ids -> Entries \cup {NoEntry}]
    id,             \* entry.id
    phase,          \* entry.phase
    requested,      \* the entries with cancellationRequested
    ended,          \* the entries whose execution context is cancelled
    backend,        \* the execution goroutine of each entry
    done,           \* the entries whose done channel is closed
    closed,         \* registry.closed
    serveDone,      \* registry.ctx is done
    shutdown,       \* Serve: serving, draining, clean or expired
    draining,       \* the entries whose channels Shutdown collected
    caller,         \* await_review: idle, waiting or cut
    pointer,        \* the entry an await_review holds
    requestDone,    \* the callers whose own request context is done
    answer,         \* what the last await_review of a caller answered
    answered        \* history: the entry that answer was read from

entryVars == <<nextSequence, listed, id, phase, requested, ended, backend, done>>

sessionVars == <<closed, serveDone, shutdown, draining>>

callerVars == <<caller, pointer, requestDone, answer, answered>>

vars == <<entryVars, sessionVars, callerVars>>

Listed == {i \in Ids : listed[i] # NoEntry}

Init ==
    /\ nextSequence = 0
    /\ listed = [i \in Ids |-> NoEntry]
    /\ id = [e \in Entries |-> NoId]
    /\ phase = [e \in Entries |-> "unused"]
    /\ requested = {}
    /\ ended = {}
    /\ backend = [e \in Entries |-> "none"]
    /\ done = {}
    /\ closed = FALSE
    /\ serveDone = FALSE
    /\ shutdown = "serving"
    /\ draining = {}
    /\ caller = [c \in Callers |-> "idle"]
    /\ pointer = [c \in Callers |-> NoEntry]
    /\ requestDone = {}
    /\ answer = [c \in Callers |-> "none"]
    /\ answered = [c \in Callers |-> NoEntry]

-----------------------------------------------------------------------------
\* start_review

Terminal == {i \in Listed : phase[listed[i]] = "terminal"}

\* Mutant: the oldest entry goes, running or not.
OldestTerminalAnyPhase ==
    CHOOSE i \in Listed : \A j \in Listed : listed[i] <= listed[j]

\* evictOldestTerminalLocked: the terminal entry with the least sequence.
OldestTerminal ==
    CHOOSE i \in Terminal : \A j \in Terminal : listed[i] <= listed[j]

\* A start is admitted when there is room or something to evict.
RoomForStart == Cardinality(Listed) < Limit \/ Terminal # {}

\* The map the new entry is added to.
AfterEviction ==
    IF Cardinality(Listed) >= Limit /\ Terminal # {}
    THEN [listed EXCEPT ![OldestTerminal] = NoEntry]
    ELSE listed

\* Start up to the creation of the execution goroutine; the identity i is the
\* one the request identity generator returned.
AddEntry(i) ==
    /\ listed[i] = NoEntry
    /\ RoomForStart
    /\ nextSequence < MaxStarts
    /\ nextSequence' = nextSequence + 1
    /\ id' = [id EXCEPT ![nextSequence'] = i]
    /\ listed' = [AfterEviction EXCEPT ![i] = nextSequence']
    /\ phase' = [phase EXCEPT ![nextSequence'] = "running"]
    /\ ended' = IF serveDone THEN ended \cup {nextSequence'} ELSE ended
    /\ backend' = [backend EXCEPT ![nextSequence'] = "reviewing"]
    /\ UNCHANGED <<requested, done, sessionVars, callerVars>>

\* Mutant: Start does not look at the closed flag.
StartAfterClose(i) == AddEntry(i)

\* registry.Start.  A refused start (closed, already exists, limit reached)
\* returns its error and changes nothing.
Start(i) == ~closed /\ AddEntry(i)

-----------------------------------------------------------------------------
\* The execution goroutine

\* backend.RunReview returns, with a result or an error, cancelled or not.
Return(e) ==
    /\ backend[e] = "reviewing"
    /\ backend' = [backend EXCEPT ![e] = "returned"]
    /\ UNCHANGED <<nextSequence, listed, id, phase, requested, ended, done,
                   sessionVars, callerVars>>

\* Mutant: the result is stored and nobody is told.
FinishSilently(e) ==
    /\ backend[e] = "returned"
    /\ backend' = [backend EXCEPT ![e] = "finished"]
    /\ phase' = [phase EXCEPT ![e] = "terminal"]
    /\ ended' = ended \cup {e}
    /\ UNCHANGED <<nextSequence, listed, id, requested, done, sessionVars, callerVars>>

\* execute stores the result, cancels the context and closes done, under the
\* mutex.
Finish(e) ==
    /\ backend[e] = "returned"
    /\ backend' = [backend EXCEPT ![e] = "finished"]
    /\ phase' = [phase EXCEPT ![e] = "terminal"]
    /\ ended' = ended \cup {e}
    /\ done' = done \cup {e}
    /\ UNCHANGED <<nextSequence, listed, id, requested, sessionVars, callerVars>>

-----------------------------------------------------------------------------
\* await_review

\* The handler answers; a terminal snapshot with an error or with data is the
\* only one it accepts.
AnswerFrom(c, e) ==
    /\ answer' = [answer EXCEPT ![c] =
                    IF phase[e] = "terminal" /\ e \notin Empty THEN "terminal"
                    ELSE "state_invalid"]
    /\ answered' = [answered EXCEPT ![c] = e]

\* Await looks the identity up, and answers at once if it is unknown or
\* terminal; otherwise it keeps the entry and blocks on its channel.
Await(c, i) ==
    /\ caller[c] = "idle"
    /\ requestDone' = requestDone \ {c}
    /\ pointer' = [pointer EXCEPT ![c] = listed[i]]
    /\ IF listed[i] = NoEntry
       THEN /\ answer' = [answer EXCEPT ![c] = "not_found"]
            /\ answered' = [answered EXCEPT ![c] = NoEntry]
            /\ UNCHANGED caller
       ELSE IF phase[listed[i]] = "terminal"
       THEN AnswerFrom(c, listed[i]) /\ UNCHANGED caller
       ELSE /\ caller' = [caller EXCEPT ![c] = "waiting"]
            /\ answer' = [answer EXCEPT ![c] = "none"]
            /\ answered' = [answered EXCEPT ![c] = NoEntry]
    /\ UNCHANGED <<entryVars, sessionVars>>

\* Mutant: the woken waiter looks its identity up again.
AwaitDoneByIdentity(c) ==
    /\ caller[c] = "waiting"
    /\ pointer[c] \in done
    /\ caller' = [caller EXCEPT ![c] = "idle"]
    /\ IF listed[id[pointer[c]]] = NoEntry
       THEN /\ answer' = [answer EXCEPT ![c] = "not_found"]
            /\ answered' = [answered EXCEPT ![c] = NoEntry]
       ELSE AnswerFrom(c, listed[id[pointer[c]]])
    /\ UNCHANGED <<pointer, requestDone, entryVars, sessionVars>>

\* The select takes the done channel; the snapshot is read from the entry.
AwaitDone(c) ==
    /\ caller[c] = "waiting"
    /\ pointer[c] \in done
    /\ caller' = [caller EXCEPT ![c] = "idle"]
    /\ AnswerFrom(c, pointer[c])
    /\ UNCHANGED <<pointer, requestDone, entryVars, sessionVars>>

\* The client cancels its request, or the request times out.
RequestEnds(c) ==
    /\ caller[c] = "waiting"
    /\ c \notin requestDone
    /\ requestDone' = requestDone \cup {c}
    /\ UNCHANGED <<caller, pointer, answer, answered, entryVars, sessionVars>>

\* Mutant: the wait owns the execution it waits for.
AwaitCutOwning(c) ==
    /\ caller[c] = "waiting"
    /\ c \in requestDone \/ serveDone
    /\ caller' = [caller EXCEPT ![c] = "cut"]
    /\ ended' = ended \cup {pointer[c]}
    /\ UNCHANGED <<pointer, requestDone, answer, answered, sessionVars>>
    /\ UNCHANGED <<nextSequence, listed, id, phase, requested, backend, done>>

\* The select takes ctx.Done: the request's own context, which
\* bindServeContext also ends when the server's does.
AwaitCut(c) ==
    /\ caller[c] = "waiting"
    /\ c \in requestDone \/ serveDone
    /\ caller' = [caller EXCEPT ![c] = "cut"]
    /\ UNCHANGED <<pointer, requestDone, answer, answered, entryVars, sessionVars>>

\* Mutant: only the closed flag counts.
SessionEndedFlag == closed

SessionEnded == serveDone \/ closed

\* The handler samples SessionEnded after the wait was cut.
AwaitReport(c) ==
    /\ caller[c] = "cut"
    /\ caller' = [caller EXCEPT ![c] = "idle"]
    /\ answer' = [answer EXCEPT ![c] = IF SessionEnded THEN "registry_closed"
                                       ELSE "await_cancelled"]
    /\ UNCHANGED <<pointer, requestDone, answered, entryVars, sessionVars>>

-----------------------------------------------------------------------------
\* cancel_review

\* Cancel is accepted for a running entry nobody has cancelled yet; every other
\* call only returns a snapshot.
Cancel(i) ==
    /\ listed[i] # NoEntry
    /\ phase[listed[i]] = "running"
    /\ listed[i] \notin requested
    /\ requested' = requested \cup {listed[i]}
    /\ ended' = ended \cup {listed[i]}
    /\ UNCHANGED <<nextSequence, listed, id, phase, backend, done, sessionVars, callerVars>>

-----------------------------------------------------------------------------
\* Serve

\* The server context is cancelled, and with it every execution context.
ServeContextEnds ==
    /\ ~serveDone
    /\ serveDone' = TRUE
    /\ ended' = ended \cup 1..nextSequence
    /\ UNCHANGED <<nextSequence, listed, id, phase, requested, backend, done,
                   closed, shutdown, draining, callerVars>>

RunningListed ==
    {e \in {listed[i] : i \in Listed} : phase[e] = "running"}

\* server.Run has returned and Serve calls Shutdown, which closes the registry,
\* cancels the running entries of the map and collects their channels.
Shutdown ==
    /\ shutdown = "serving"
    /\ shutdown' = "draining"
    /\ closed' = TRUE
    /\ draining' = RunningListed
    /\ ended' = ended \cup RunningListed
    /\ UNCHANGED <<nextSequence, listed, id, phase, requested, backend, done,
                   serveDone, callerVars>>

Drained == draining \subseteq done

\* Every collected channel is closed.
ShutdownReturns ==
    /\ shutdown = "draining"
    /\ Drained
    /\ shutdown' = "clean"
    /\ UNCHANGED <<closed, serveDone, draining, entryVars, callerVars>>

\* The one-minute context ends while a channel is being waited for; the select
\* may take it although that channel has just been closed.
ShutdownExpires ==
    /\ shutdown = "draining"
    /\ draining # {}
    /\ shutdown' = "expired"
    /\ UNCHANGED <<closed, serveDone, draining, entryVars, callerVars>>

\* Serve has returned and the process ends.
Exited ==
    /\ shutdown \in {"clean", "expired"}
    /\ UNCHANGED vars

Execution(e) == Return(e) \/ Finish(e)

Waiter(c) == AwaitDone(c) \/ RequestEnds(c) \/ AwaitCut(c) \/ AwaitReport(c)

Client ==
    \/ \E i \in Ids : Start(i) \/ Cancel(i)
    \/ \E i \in Ids, c \in Callers : Await(c, i)

Next ==
    \/ Client
    \/ \E e \in Entries : Execution(e)
    \/ \E c \in Callers : Waiter(c)
    \/ ServeContextEnds \/ Shutdown \/ ShutdownReturns \/ ShutdownExpires
    \/ Exited

Spec == Init /\ [][Next]_vars

\* A goroutine that can run does, and a review ends: every provider process has
\* a timeout and the run a deadline.  No client has to do anything, the session
\* does not have to end, and the shutdown timer may or may not beat the drain.
FairSpec ==
    /\ Spec
    /\ \A e \in Entries : WF_vars(Execution(e))
    /\ \A c \in Callers : WF_vars(AwaitDone(c) \/ AwaitCut(c) \/ AwaitReport(c))
    /\ WF_vars(ShutdownReturns)

-----------------------------------------------------------------------------
\* Shape of the state: invocations.go invocationRegistry and invocationEntry.
TypeOK ==
    /\ nextSequence \in 0..MaxStarts
    /\ listed \in [Ids -> Entries \cup {NoEntry}]
    /\ id \in [Entries -> Ids \cup {NoId}]
    /\ phase \in [Entries -> Phases]
    /\ requested \subseteq Entries
    /\ ended \subseteq Entries
    /\ backend \in [Entries -> BackendStates]
    /\ done \subseteq Entries
    /\ closed \in BOOLEAN
    /\ serveDone \in BOOLEAN
    /\ shutdown \in {"serving", "draining", "clean", "expired"}
    /\ draining \subseteq Entries
    /\ caller \in [Callers -> {"idle", "waiting", "cut"}]
    /\ pointer \in [Callers -> Entries \cup {NoEntry}]
    /\ requestDone \subseteq Callers
    /\ answer \in [Callers -> Answers]
    /\ answered \in [Callers -> Entries \cup {NoEntry}]

\* Executing(e): a goroutine of this session still owes the entry its result.
Executing(e) == backend[e] \in {"reviewing", "returned"}

\* A review that is still executing can be found by its identity (Start,
\* evictOldestTerminalLocked): it is neither evicted nor replaced by a later
\* start, so a client can always await or cancel it and Shutdown finds it.
ExecutingIsListed ==
    \A e \in Entries : Executing(e) => listed[id[e]] = e

\* When Shutdown returns nil, no review of this session executes any more and
\* none can start, although starts race with it (Start, Shutdown): nothing is
\* left running behind a Serve that reported a clean end.
CleanShutdownDrains ==
    shutdown = "clean" => \A e \in Entries : ~Executing(e)

\* An await that was admitted for an entry answers from that very entry, even if
\* it was evicted and its identity reused while the caller slept: with its
\* terminal result, or with invocation_state_invalid if and only if the review
\* of that entry returned nothing at all (Await, execute, await_review).
AwaitAnswersItsEntry ==
    \A c \in Callers :
        caller[c] = "idle" /\ pointer[c] # NoEntry /\ answer[c] \notin {"await_cancelled", "registry_closed"} =>
            /\ answered[c] = pointer[c]
            /\ answer[c] = IF pointer[c] \in Empty THEN "state_invalid" ELSE "terminal"

\* The context of a review ends only with an accepted cancel_review, the end of
\* the session or the review itself, never with the await of some caller
\* (Await's select; architecture: cancel_review is the only client tool that
\* cancels a registry-owned execution).
OnlyOwnersCancel ==
    \A e \in ended : e \in requested \/ serveDone \/ closed \/ phase[e] = "terminal"

\* The retryable await_cancelled is answered only to a caller whose own request
\* ended: one cut by the end of the session is told invocation_registry_closed
\* (SessionEnded, bindServeContext).
SessionEndIsReported ==
    \A c \in Callers : answer[c] = "await_cancelled" => c \in requestDone

\* Nothing waits for ever: a result, once terminal, is never lost to its
\* waiters, so every await returns; and Serve comes to an end once Shutdown has
\* begun, by its drain or by its timer.
WaitsEnd ==
    /\ \A c \in Callers : caller[c] = "waiting" ~> caller[c] = "idle"
    /\ shutdown = "draining" ~> shutdown \in {"clean", "expired"}
=============================================================================
