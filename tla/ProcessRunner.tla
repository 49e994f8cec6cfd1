--------------------------- MODULE ProcessRunner ----------------------------
(***************************************************************************)
(* The Darwin process runner: one request executed in one of its three     *)
(* modes.                                                                  *)
(*   direct    Run: readers drain both pipes, Wait is deferred until the   *)
(*             group is dispositioned, any terminal fact kills the group;  *)
(*   bounded   runBoundedPostOutput: Wait runs from the start, a stable    *)
(*             output frame draws SIGTERM, then SIGKILL, within one        *)
(*             terminal budget;                                            *)
(*   converse  Converse: a session driver exchanges lines with the child,  *)
(*             teardown is natural-exit grace, SIGTERM, SIGKILL.           *)
(* Each loop iteration is its code before the select (Top) followed by one *)
(* arm of the select; the kernel and the goroutines move in between.       *)
(***************************************************************************)
EXTENDS ProcessGroup

CONSTANTS Modes,         \* the execution modes explored
          FrameLengths,  \* stdout lengths that parse as one complete frame
          LineBuffer     \* lines the conversation buffers for its driver (64 in the code)

ASSUME ModesAssumption == Modes \subseteq {"direct", "bounded", "converse"}
ASSUME FrameLengthsAssumption == FrameLengths \subseteq 1..MaxChunks
ASSUME LineBufferAssumption == LineBuffer \in Nat

VARIABLES
  mode, pc,
  sig,        \* terminationSignals recorded so far
  rd,         \* per stream: "reading"; "ended", "failed" or "cut" (result available);
              \* "taken", or "joined" for a cut producer (no end of stream seen)
  captured,   \* stdout chunks in the runner's capture
  lease,      \* spooled stdout: "none", "made", "held", "closed", "bound"
  tearing,    \* teardown (direct, converse) or terminal handling (bounded) has begun
  budget,     \* its one-second budget: "off", "armed", "fired", "taken"
  disposed,   \* direct: groupDispositioned; bounded, converse: groupAbsent
  quiet,      \* bounded: stability grace; converse: natural-exit grace
  grace,      \* bounded: termination grace; converse: escalation grace
  requests,   \* accepted process-group signal requests, by reason
  killedOnce, \* bounded, converse: escalated
  frame,      \* bounded: length of the stable frame, 0 when there is none
  cancelled,  \* bounded: producers cancelled; converse: exchange closed
  driver,     \* converse: "driving", "sending", "ok", "error", then "tookOk"/"tookError"
  queued,     \* bounded: stdout chunks in the channel; converse: lines in the buffer
  partial,    \* converse: a send was cut short (exchange.incomplete)
  result      \* what the call returned

sessionVars == <<quiet, grace, requests, killedOnce, frame, cancelled, driver, partial>>
loopVars == <<mode, sig, tearing, budget, disposed>>
runVars == <<loopVars, sessionVars, pc, rd, captured, queued, lease, result>>
vars == <<groupVars, ioVars, runVars>>

Timers == {"off", "armed", "fired", "taken"}
NoResult == [kind |-> "none", term |-> "none", code |-> "none", succeeded |-> FALSE]

TypeOK ==
  /\ GroupTypeOK
  /\ mode \in Modes
  /\ pc \in {"start", "cleanup", "top", "select", "verify", "done"}
  /\ sig \subseteq SignalFacts
  /\ rd \in [Streams -> {"reading", "ended", "failed", "cut", "taken", "joined"}]
  /\ captured \in 0..MaxChunks
  /\ lease \in {"none", "made", "held", "closed", "bound"}
  /\ tearing \in BOOLEAN /\ disposed \in BOOLEAN /\ killedOnce \in BOOLEAN
  /\ budget \in Timers /\ quiet \in Timers /\ grace \in Timers
  /\ \A i \in DOMAIN requests :
       requests[i] \in {"postOutput", "postOutputEscalation", "internalTeardown",
                        "teardown", "teardownEscalation"}
  /\ frame \in {0} \cup FrameLengths
  /\ cancelled \in BOOLEAN /\ partial \in BOOLEAN
  /\ driver \in {"driving", "sending", "ok", "error", "tookOk", "tookError"}
  /\ queued \in 0..MaxChunks
  /\ result.kind \in {"none", "observation", "failure"}

Init ==
  /\ GroupInit
  /\ mode \in Modes
  /\ stdin = IF mode = "converse" THEN "taken" ELSE "writing"
  /\ pc = "start" /\ sig = {}
  /\ rd = [s \in Streams |-> "reading"]
  /\ captured = 0 /\ lease = "none"
  /\ tearing = FALSE /\ budget = "off" /\ disposed = FALSE
  /\ quiet = "off" /\ grace = "off" /\ requests = <<>> /\ killedOnce = FALSE
  /\ frame = 0 /\ cancelled = FALSE
  /\ driver = "driving" /\ queued = 0 /\ partial = FALSE
  /\ result = NoResult

-----------------------------------------------------------------------------
(* Returning.  Every path either hands the spooled lease to the caller or  *)
(* closes the one it holds.                                                *)

CloseLeaseForgotten(l) == l

CloseLease(l) == IF l = "held" THEN "closed" ELSE l

Return(kind, term, code, succeeded, l) ==
  /\ result' = [kind |-> kind, term |-> term, code |-> code, succeeded |-> succeeded]
  /\ lease' = l
  /\ pc' = "done"

Fail(term) == Return("failure", term, "none", FALSE, CloseLease(lease))

SucceededOnAnyOutput(term, code, lifecycle, complete) ==
  complete /\ (code = "zero" \/ (lifecycle /\ requests # <<>> /\ requests[1] = "postOutput"))

(* Succeeded(): a normal zero exit, or an intentional bounded post-output  *)
(* termination after an exact stable frame that is all of stdout.          *)
Succeeded(term, code, lifecycle, complete) ==
  /\ complete
  /\ IF ~lifecycle
       THEN term = "exited" /\ code = "zero"
       ELSE /\ frame # 0 => captured = frame
            /\ \/ /\ term = "exited"
                  /\ \A i \in DOMAIN requests : requests[i] # "postOutputEscalation"
                  /\ \/ code = "zero"
                     \/ code = "nonzero" /\ frame # 0 /\ requests = <<"postOutput">>
               \/ /\ term = "signaled" /\ frame # 0
                  /\ \A i \in DOMAIN requests :
                       requests[i] \in {"postOutput", "postOutputEscalation"}
                  /\ \/ code = "SIGTERM" /\ requests # <<>>
                     \/ code = "SIGKILL" /\ Len(requests) = 2

(* NewProcessLifecycleReceipt: post-output requests need the frame, and    *)
(* the first of them is the SIGTERM.                                       *)
LifecycleValid ==
  LET post == SelectSeq(requests,
                LAMBDA r : r \in {"postOutput", "postOutputEscalation"})
  IN /\ post # <<>> => frame # 0 /\ post[1] = "postOutput"
     /\ Len(post) <= 2

ExitTermination == IF status \in {"SIGTERM", "SIGKILL"} THEN "signaled" ELSE "exited"

-----------------------------------------------------------------------------
(* Before and around child.Start.                                          *)

(* classifyStartFailure.                                                   *)
StartFailures == {"startFailed", "startUnavailable", "startConfiguration", "startSecurity"}

(* An ended context or a failed Start returns an observation of a child    *)
(* that never existed.                                                     *)
NotStarted ==
  /\ pc = "start"
  /\ \/ /\ TerminalFacts # {}
        /\ Return("observation", Termination(TerminalFacts), "none", FALSE, lease)
     \/ \E why \in StartFailures : Return("observation", why, "none", FALSE, lease)
  /\ UNCHANGED <<groupVars, ioVars, loopVars, sessionVars, rd, captured, queued>>

Start ==
  /\ pc = "start" /\ ctx = "live"
  /\ leader' = "live"
  /\ pc' = "top"
  /\ wait' = IF mode = "bounded" THEN "running" ELSE "no"
  /\ UNCHANGED <<status, helper, holds, pending, written, surprises, stdin, inClosed, ctx, timer,
                 loopVars, sessionVars, rd, captured, queued, lease, result>>

StartedFaultUnwaited ==
  /\ pc = "start" /\ ctx = "live"
  /\ leader' = "live" /\ pending' = {"SIGKILL"} /\ inClosed' = TRUE
  /\ pc' = "cleanup"
  /\ UNCHANGED <<status, helper, holds, written, surprises, stdin, wait, ctx, timer,
                 loopVars, sessionVars, rd, captured, queued, lease, result>>

(* cleanupStartedChild: a fault right after Start (the launch directory,   *)
(* the group identity, the parent's pipe ends) kills the group and waits.  *)
StartedFault ==
  /\ pc = "start" /\ ctx = "live"
  /\ leader' = "live" /\ pending' = {"SIGKILL"}
  /\ wait' = "running" /\ inClosed' = TRUE
  /\ pc' = "cleanup"
  /\ UNCHANGED <<status, helper, holds, written, surprises, stdin, ctx, timer,
                 loopVars, sessionVars, rd, captured, queued, lease, result>>

CleanupStartedChild ==
  /\ pc = "cleanup" /\ wait = "ready"
  /\ Fail("observationInvalid")
  /\ UNCHANGED <<groupVars, ioVars, loopVars, sessionVars, rd, captured, queued>>

-----------------------------------------------------------------------------
(* Reader goroutines.  copyStream and copySpooledStream end when no writer *)
(* holds the pipe; the spooled one leaves a lease.  A capture or spool     *)
(* error, or the read deadline of a conversation's teardown, fails them.   *)

(* The environment moves while the loop waits in its select: the code      *)
(* between two selects reads only what has already arrived.                *)
Started == pc \in {"select", "verify"}

(* The conversation feed waits for room in the line buffer, or for the     *)
(* exchange to close.                                                      *)
FeedBlocked == mode = "converse" /\ queued > LineBuffer /\ ~cancelled

(* Both pipes lose their last writer together; the order in which their    *)
(* readers notice makes no difference, so stderr goes first.               *)
ErrFirst(s) == s = "out" => rd["err"] # "reading"

StreamEnds(s) ==
  /\ Started /\ mode # "bounded"
  /\ rd[s] = "reading" /\ ~PipeOpen(s) /\ ErrFirst(s)
  /\ s = "out" => captured = written /\ ~FeedBlocked
  /\ rd' = [rd EXCEPT ![s] = "ended"]
  /\ lease' = IF s = "out" THEN "made" ELSE lease
  /\ UNCHANGED <<groupVars, ioVars, loopVars, sessionVars, pc, captured, queued, result>>

StreamFails(s) ==
  /\ Started /\ rd[s] = "reading"
  /\ mode = "bounded" => ~cancelled
  /\ s = "out" => ~FeedBlocked
  /\ rd' = [rd EXCEPT ![s] = "failed"]
  /\ lease' = IF s = "out" /\ mode = "converse" THEN "made" ELSE lease
  /\ UNCHANGED <<leader, status, helper, holds, pending, written, ioVars, loopVars, sessionVars, pc, captured, queued, result>>

(* Direct copies every chunk; the conversation feed also hands it to the   *)
(* driver's line buffer unless the exchange is closed; the bounded         *)
(* producer sends it to the loop unless cancelled.                         *)
ReadChunk ==
  /\ Started /\ rd["out"] = "reading"
  /\ IF mode = "bounded"
       THEN /\ ~cancelled /\ captured + queued < written
            /\ queued' = queued + 1 /\ UNCHANGED captured
       ELSE /\ captured < written
            /\ ~FeedBlocked
            /\ captured' = captured + 1
            /\ queued' = IF mode = "converse" /\ ~cancelled THEN queued + 1 ELSE queued
  /\ UNCHANGED <<groupVars, ioVars, loopVars, sessionVars, pc, rd, lease, result>>

-----------------------------------------------------------------------------
(* Direct mode.                                                            *)

Taken(s) == rd[s] = "taken"
Drain == [s \in Streams |-> IF rd[s] = "reading" THEN "reading" ELSE "taken"]
StreamFacts == IF \E s \in Streams : rd[s] = "failed" THEN {"internal"} ELSE {}
HoldLease(l) == IF l = "made" THEN "held" ELSE l
TakeStdin == IF stdin \in StdinReady THEN "taken" ELSE stdin
TakeWait == IF wait = "ready" THEN "taken" ELSE wait

(* The part of the loop before the select: consumeRunnerCompletion until   *)
(* nothing is ready, the terminal facts, the group probe once all I/O is   *)
(* complete, the teardown, and the deferred Wait.                          *)
DirectTop ==
  LET all == \A s \in Streams : Drain[s] = "taken"
      facts == sig \cup StreamFacts \cup StdinFacts(stdin) \cup TerminalFacts
      probes == /\ ~tearing /\ ~disposed /\ facts = {} /\ all /\ TakeStdin = "taken"
      found == IF ~probes THEN facts
               ELSE IF LeaderExitedWithLiveDescendants THEN {"residual"}
               ELSE IF leader \notin {"live", "zombie"} THEN {"internal"} ELSE facts
      tears == ~tearing /\ found # {}
      settled == disposed \/ tears \/ (probes /\ LeaderExitedWithNoLiveMembers)
      finished == TakeWait = "taken" /\ all /\ TakeStdin = "taken"
  IN /\ mode = "direct" /\ pc = "top"
     /\ rd' = Drain /\ lease' = HoldLease(lease)
     /\ stdin' = TakeStdin
     /\ sig' = found
     /\ tearing' = (tearing \/ tears)
     /\ budget' = IF budget = "off" /\ (tears \/ finished) THEN "armed" ELSE budget
     /\ pending' = IF tears THEN Signalled("SIGKILL") ELSE pending
     /\ inClosed' = (inClosed \/ tears)
     /\ disposed' = settled
     /\ wait' = IF settled /\ wait = "no" THEN "running" ELSE TakeWait
     /\ pc' = IF finished THEN "verify" ELSE "select"
     /\ UNCHANGED <<leader, status, helper, holds, written, surprises, ctx, timer, mode, sessionVars,
                    captured, queued, result>>

(* The select wakes for a result, a terminal fact or the probe ticker (a   *)
(* tick that would find nothing new is a stutter); an expired teardown     *)
(* budget closes everything and reports the failure.                       *)
DirectSelect ==
  /\ mode = "direct" /\ pc = "select"
  /\ \/ /\ \/ \E s \in Streams : rd[s] \in {"ended", "failed"}
           \/ stdin \in StdinReady \/ wait = "ready"
           \/ ~tearing /\ TerminalFacts # {}
           \/ /\ ~tearing /\ ~disposed /\ leader = "zombie"
              /\ stdin = "taken" /\ \A s \in Streams : Taken(s)
        /\ pc' = "top"
        /\ UNCHANGED <<lease, result, inClosed>>
     \/ /\ tearing /\ budget = "fired"
        /\ Fail("teardownTimeout")
        /\ inClosed' = TRUE
  /\ UNCHANGED <<groupVars, stdin, wait, ctx, timer, loopVars, sessionVars, rd, captured, queued>>

(* After the loop: group absence is verified up to the deadline, then the  *)
(* outcome is chosen; only a zero exit keeps the spooled stdout.           *)
DirectVerify ==
  LET facts == sig \cup TerminalFacts
      term == IF Termination(facts) # "none" THEN Termination(facts) ELSE ExitTermination
      ok(code) == Succeeded(term, code, FALSE, "stdinIncomplete" \notin facts)
  IN /\ mode = "direct" /\ pc = "verify"
     /\ sig' = facts
     /\ \/ /\ ~Absent /\ budget = "fired"
           /\ Fail("groupRemains")
        \/ /\ Absent
           /\ IF "internal" \in facts THEN Fail("internal")
              ELSE \E code \in ExitCodes(status) :
                     Return("observation", term, code, ok(code),
                            IF ok(code) THEN "bound" ELSE CloseLease(lease))
     /\ UNCHANGED <<groupVars, ioVars, mode, tearing, budget, disposed, sessionVars, rd,
                    captured, queued>>

-----------------------------------------------------------------------------
(* Bounded mode.                                                           *)

(* readOutputChunks ends with an end-of-stream chunk, or silently once the *)
(* loop has cancelled it; the spool goroutine ends after its writer.       *)
ProducerEnds(s) ==
  /\ Started /\ mode = "bounded" /\ rd[s] = "reading" /\ ErrFirst(s)
  /\ \/ cancelled /\ rd' = [rd EXCEPT ![s] = "cut"]
     \/ /\ ~cancelled /\ ~PipeOpen(s) /\ (s = "out" => captured + queued = written)
        /\ rd' = [rd EXCEPT ![s] = "ended"]
  /\ UNCHANGED <<groupVars, ioVars, loopVars, sessionVars, pc, captured, queued, lease, result>>

SpoolEnds ==
  /\ Started /\ mode = "bounded" /\ lease = "none"
  /\ cancelled \/ Taken("out")
  /\ lease' = "made"
  /\ UNCHANGED <<groupVars, ioVars, loopVars, sessionVars, pc, rd, captured, queued, result>>

(* The send closure: an absent group is remembered, any other error is an  *)
(* internal failure, an accepted signal leaves a request receipt.          *)
Send(signal, reason, facts) ==
  IF disposed
    THEN sig' = facts /\ UNCHANGED <<pending, requests, disposed>>
    ELSE /\ pending' = Signalled(signal)
         /\ requests' = IF KillOutcome = "ok" THEN Append(requests, reason) ELSE requests
         /\ disposed' = (KillOutcome = "ESRCH")
         /\ sig' = facts \cup (IF KillOutcome = "EPERM" THEN {"internal"} ELSE {})

SendFailed == ~disposed /\ KillOutcome = "EPERM"

(* Both streams done and joined; after the terminal deadline a joined      *)
(* producer is enough.                                                     *)
BoundedDone ==
  /\ \A s \in Streams : Taken(s) \/ (rd[s] = "joined" /\ budget = "taken")
  /\ stdin = "taken" /\ wait = "taken" /\ lease = "held"

(* The loop condition, then the terminal facts; the first of them kills    *)
(* the group and closes the runner's ends.                                 *)
BoundedTop ==
  LET facts == sig \cup TerminalFacts
  IN /\ mode = "bounded" /\ pc = "top"
     /\ \/ /\ BoundedDone
           /\ pc' = "verify"
           /\ budget' = IF budget = "off" THEN "armed" ELSE budget
           /\ UNCHANGED <<sig, tearing, pending, requests, disposed, killedOnce,
                          cancelled, inClosed>>
        \/ /\ ~BoundedDone /\ (facts = {} \/ tearing)
           /\ sig' = facts
           /\ pc' = "select"
           /\ UNCHANGED <<tearing, budget, pending, requests, disposed, killedOnce,
                          cancelled, inClosed>>
        \/ /\ ~BoundedDone /\ facts # {} /\ ~tearing
           /\ tearing' = TRUE /\ budget' = "armed"
           /\ Send("SIGKILL", "internalTeardown", facts)
           /\ killedOnce' = ~SendFailed
           /\ cancelled' = TRUE /\ inClosed' = TRUE
           /\ pc' = "select"
     /\ UNCHANGED <<leader, status, helper, holds, written, surprises, stdin, wait, ctx, timer, mode, quiet, grace,
                    frame, driver, partial, rd, captured, queued, lease, result>>

(* The goroutines' results that are ready (their arms commute), or one     *)
(* stdout chunk: it restarts the stability grace as long as no signal was  *)
(* sent, and is refused once the spool is closed.                          *)
BoundedResults ==
  LET ready == {s \in Streams : \/ rd[s] = "cut"
                                \/ /\ rd[s] \in {"ended", "failed"}
                                   /\ s = "out" => queued = 0}
      failed == \E s \in ready : rd[s] = "failed"
  IN /\ mode = "bounded" /\ pc = "select" /\ pc' = "top"
     /\ \/ ready # {} \/ stdin \in StdinReady \/ wait = "ready" \/ lease = "made"
        \/ TerminalFacts \ sig # {}
     /\ rd' = [s \in Streams |-> IF s \notin ready THEN rd[s]
                                ELSE IF rd[s] = "ended" THEN "taken" ELSE "joined"]
     /\ stdin' = TakeStdin /\ wait' = TakeWait /\ lease' = HoldLease(lease)
     /\ sig' = sig \cup StdinFacts(stdin) \cup (IF failed THEN {"internal"} ELSE {})
     /\ UNCHANGED <<groupVars, inClosed, ctx, timer, mode, tearing, budget, disposed, quiet,
                    grace, requests, killedOnce, frame, cancelled, driver, partial, captured,
                    queued, result>>

BoundedChunkUnguarded ==
  /\ mode = "bounded" /\ pc = "select" /\ pc' = "top"
  /\ queued' = queued - 1 /\ captured' = captured + 1
  /\ UNCHANGED <<groupVars, ioVars, loopVars, sessionVars, rd, lease, result>>

BoundedChunk ==
  /\ mode = "bounded" /\ pc = "select" /\ pc' = "top"
  /\ queued > 0 /\ queued' = queued - 1
  /\ IF cancelled
       THEN sig' = sig \cup {"internal"} /\ UNCHANGED <<captured, frame, quiet>>
       ELSE /\ captured' = captured + 1
            /\ LET framed == captured' \in FrameLengths
               IN IF tearing THEN UNCHANGED <<frame, quiet>>
                  ELSE /\ frame' = IF framed THEN captured' ELSE 0
                       /\ quiet' = IF framed THEN "armed" ELSE "off"
            /\ UNCHANGED sig
  /\ UNCHANGED <<groupVars, ioVars, mode, tearing, budget, disposed, grace, requests, killedOnce,
                 cancelled, driver, partial, rd, lease, result>>

(* stableC: the frame stood for the stability grace, SIGTERM the group.    *)
BoundedStable ==
  /\ mode = "bounded" /\ pc = "select" /\ quiet = "fired"
  /\ quiet' = "off" /\ pc' = "top"
  /\ IF frame # 0 /\ Termination(sig) = "none" /\ ~tearing
       THEN /\ tearing' = TRUE /\ budget' = "armed" /\ inClosed' = TRUE
            /\ Send("SIGTERM", "postOutput", sig)
            /\ grace' = IF requests' # requests THEN "armed" ELSE grace
       ELSE UNCHANGED <<sig, pending, requests, disposed, tearing, budget, inClosed, grace>>
  /\ UNCHANGED <<leader, status, helper, holds, written, surprises, stdin, wait, ctx, timer, mode,
                 killedOnce, frame, cancelled, driver, partial, rd, captured, queued, lease,
                 result>>

(* terminationC: the group outlived the termination grace.                 *)
BoundedEscalate ==
  /\ mode = "bounded" /\ pc = "select" /\ grace = "fired"
  /\ grace' = "off" /\ pc' = "top"
  /\ IF Absent
       THEN disposed' = TRUE /\ UNCHANGED <<sig, pending, requests, killedOnce>>
       ELSE /\ Send("SIGKILL", "postOutputEscalation", sig)
            /\ killedOnce' = (killedOnce \/ ~SendFailed)
  /\ cancelled' = TRUE /\ inClosed' = TRUE
  /\ UNCHANGED <<leader, status, helper, holds, written, surprises, stdin, wait, ctx, timer, mode, tearing,
                 budget, quiet, frame, driver, partial, rd, captured, queued, lease, result>>

(* terminalC: the terminal budget is spent; the last kill, and failure     *)
(* unless Wait, the producers and stdin are all in.                        *)
BoundedTerminal ==
  LET kills == ~killedOnce /\ ~disposed
      in == /\ wait = "taken" /\ TakeStdin = "taken"
            /\ \A s \in Streams : rd[s] \in {"taken", "joined"}
  IN /\ mode = "bounded" /\ pc = "select" /\ budget = "fired"
     /\ budget' = "taken"
     /\ IF kills THEN Send("SIGKILL", "postOutputEscalation", sig \cup StdinFacts(stdin))
                 ELSE /\ sig' = sig \cup StdinFacts(stdin)
                      /\ UNCHANGED <<pending, requests, disposed>>
     /\ killedOnce' = (killedOnce \/ (kills /\ ~SendFailed))
     /\ cancelled' = TRUE /\ inClosed' = TRUE
     /\ stdin' = TakeStdin
     /\ IF in THEN pc' = "top" /\ UNCHANGED <<lease, result>>
              ELSE Fail("terminalDeadline")
     /\ UNCHANGED <<leader, status, helper, holds, written, surprises, wait, ctx, timer, mode, tearing,
                    quiet, grace, frame, driver, partial, rd, captured, queued>>

(* After the loop: absence, then the classified observation with its       *)
(* lifecycle receipt.                                                      *)
BoundedVerify ==
  LET term == IF Termination(sig) # "none" THEN Termination(sig)
              ELSE IF killedOnce THEN "signaled" ELSE ExitTermination
      ok(code) == Succeeded(term, code, TRUE, "stdinIncomplete" \notin sig)
      proven == disposed \/ Absent
  IN /\ mode = "bounded" /\ pc = "verify"
     /\ \/ /\ ~proven /\ budget \in {"fired", "taken"}
           /\ Fail("groupRemains")
        \/ /\ proven
           /\ IF "internal" \in sig THEN Fail("internal")
              ELSE IF ~LifecycleValid THEN Fail("observationInvalid")
              ELSE \E code \in ExitCodes(status) :
                     Return("observation", term, code, ok(code),
                            IF ok(code) THEN "bound" ELSE CloseLease(lease))
     /\ UNCHANGED <<groupVars, ioVars, loopVars, sessionVars, rd, captured, queued>>

-----------------------------------------------------------------------------
(* Conversation mode.                                                      *)

Conversing == mode = "converse" /\ Started

(* The session driver: it receives lines, sends frames, may half-close the *)
(* input and returns at any time; a frame is cut short when teardown or    *)
(* the child's end closes the pipe under it (SendLine, CloseInput).        *)
DriverStep ==
  /\ Conversing
  /\ \/ /\ driver = "driving" /\ ~cancelled /\ queued > 0
        /\ queued' = queued - 1 /\ UNCHANGED <<driver, inClosed, partial>>
     \/ /\ driver = "driving" /\ ~cancelled /\ ~inClosed /\ ~partial
        /\ driver' = "sending" /\ UNCHANGED <<queued, inClosed, partial>>
     \/ /\ driver = "sending" /\ ~inClosed /\ leader = "live"
        /\ driver' = "driving" /\ UNCHANGED <<queued, inClosed, partial>>
     \/ /\ driver = "driving" /\ ctx = "live" /\ ~inClosed
        /\ inClosed' = TRUE /\ UNCHANGED <<driver, queued, partial>>
  /\ UNCHANGED <<groupVars, stdin, wait, ctx, timer, loopVars, quiet, grace, requests,
                 killedOnce, frame, cancelled, pc, rd, captured, lease, result>>

SendCut ==
  /\ Conversing /\ driver = "sending"
  /\ inClosed \/ leader # "live"
  /\ driver' = "error" /\ partial' = TRUE
  /\ UNCHANGED <<groupVars, ioVars, loopVars, quiet, grace, requests, killedOnce, frame,
                 cancelled, pc, rd, captured, queued, lease, result>>

DriverReturns(outcome) ==
  /\ Conversing /\ driver = "driving"
  /\ driver' = outcome
  /\ UNCHANGED <<groupVars, ioVars, loopVars, quiet, grace, requests, killedOnce, frame,
                 cancelled, partial, pc, rd, captured, queued, lease, result>>

(* The teardown deadline is also the read deadline of both pipes.          *)
ReadDeadline(s) ==
  mode = "converse" /\ budget = "fired" /\ StreamFails(s) /\ UNCHANGED surprises

CaptureFault(s) == StreamFails(s) /\ Surprise

DriverOver == driver \in {"tookOk", "tookError"}

(* beginTeardown: close the exchange and the input, start Wait, give the   *)
(* child the natural-exit grace.                                           *)
BeginTeardown ==
  /\ tearing' = TRUE /\ cancelled' = TRUE /\ inClosed' = TRUE
  /\ budget' = "armed" /\ quiet' = "armed"
  /\ wait' = "running"

ConverseTop ==
  LET facts == sig \cup TerminalFacts
      ended == /\ \A s \in Streams : Taken(s)
               /\ lease = "held" /\ wait = "taken" /\ DriverOver
  IN /\ mode = "converse" /\ pc = "top"
     /\ \/ /\ ~tearing
           /\ sig' = facts
           /\ IF facts # {} THEN BeginTeardown
              ELSE UNCHANGED <<tearing, cancelled, inClosed, budget, quiet, wait>>
           /\ pc' = "select" /\ UNCHANGED disposed
        \/ /\ tearing
           /\ disposed' = (disposed \/ (ended /\ ~killedOnce /\ Absent))
           /\ pc' = IF ended /\ (disposed' \/ killedOnce) THEN "verify" ELSE "select"
           /\ UNCHANGED <<sig, tearing, cancelled, inClosed, budget, quiet, wait>>
     /\ UNCHANGED <<groupVars, stdin, ctx, timer, mode, grace, requests, killedOnce, frame, driver,
                    partial, rd, captured, queued, lease, result>>

(* The goroutines' results that are ready; the driver's return begins the  *)
(* teardown.                                                               *)
ConverseResults ==
  /\ mode = "converse" /\ pc = "select" /\ pc' = "top"
  /\ \/ \E s \in Streams : rd[s] \in {"ended", "failed"}
     \/ lease = "made" \/ wait = "ready" \/ driver \in {"ok", "error"}
     \/ TerminalFacts \ sig # {}
  /\ rd' = Drain /\ lease' = HoldLease(lease)
  /\ sig' = sig \cup StreamFacts \cup (IF tearing THEN TerminalFacts ELSE {})
  /\ driver' = IF driver = "ok" THEN "tookOk"
               ELSE IF driver = "error" THEN "tookError" ELSE driver
  /\ IF driver \in {"ok", "error"} /\ ~tearing
       THEN BeginTeardown
       ELSE wait' = TakeWait /\ UNCHANGED <<tearing, cancelled, inClosed, budget, quiet>>
  /\ UNCHANGED <<groupVars, stdin, ctx, timer, mode, disposed, grace, requests, killedOnce, frame,
                 partial, captured, queued, result>>

(* appendConversationSignalReceipt: ESRCH is absence, EPERM is neither     *)
(* absence nor a receipt.                                                  *)
ConverseSignal(signal, reason) ==
  /\ pending' = Signalled(signal)
  /\ requests' = IF KillOutcome = "ok" THEN Append(requests, reason) ELSE requests
  /\ disposed' = (KillOutcome = "ESRCH")

ConverseTimers ==
  /\ mode = "converse" /\ pc = "select" /\ pc' = "top"
  /\ \/ /\ quiet = "fired" /\ quiet' = "off"
        /\ IF disposed THEN UNCHANGED <<pending, requests, disposed, grace>>
           ELSE ConverseSignal("SIGTERM", "teardown") /\ grace' = "armed"
        /\ UNCHANGED killedOnce
     \/ /\ grace = "fired" /\ grace' = "off"
        /\ IF disposed \/ killedOnce
             THEN UNCHANGED <<pending, requests, disposed, killedOnce>>
             ELSE ConverseSignal("SIGKILL", "teardownEscalation") /\ killedOnce' = TRUE
        /\ UNCHANGED quiet
  /\ UNCHANGED <<leader, status, helper, holds, written, surprises, ioVars, mode, sig, tearing, budget,
                 frame, cancelled, driver, partial, rd, captured, queued, lease, result>>

ConverseVerify ==
  LET facts == sig \cup (IF partial THEN {"stdinIncomplete"} ELSE {})
      term == IF Termination(facts) # "none" THEN Termination(facts) ELSE ExitTermination
      proven == disposed \/ Absent
  IN /\ mode = "converse" /\ pc = "verify"
     /\ sig' = facts
     /\ \/ ~proven /\ budget = "fired" /\ Fail("groupRemains")
        \/ /\ proven
           /\ IF "internal" \in facts THEN Fail("internal")
              ELSE IF ~LifecycleValid THEN Fail("observationInvalid")
              ELSE \E code \in ExitCodes(status) :
                     Return("observation", term, code,
                            driver = "tookOk" /\ Succeeded(term, code, TRUE, ~partial),
                            "bound")
     /\ UNCHANGED <<groupVars, ioVars, mode, tearing, budget, disposed, sessionVars, rd,
                    captured, queued>>

-----------------------------------------------------------------------------
(* The graces and the teardown budget run out.  The natural-exit grace and *)
(* the termination grace start with the budget and are shorter.            *)
BudgetExpires ==
  /\ Started /\ budget = "armed" /\ budget' = "fired"
  /\ (mode = "converse" /\ tearing) => quiet # "armed"
  /\ mode = "bounded" => grace # "armed"
  /\ UNCHANGED <<groupVars, ioVars, mode, sig, tearing, disposed, sessionVars, pc, rd, captured,
                 queued, lease, result>>

GraceExpires ==
  /\ Started
  /\ \/ quiet = "armed" /\ quiet' = "fired" /\ UNCHANGED grace
     \/ grace = "armed" /\ grace' = "fired" /\ UNCHANGED quiet
  /\ UNCHANGED <<groupVars, ioVars, loopVars, requests, killedOnce, frame, cancelled, driver,
                 partial, pc, rd, captured, queued, lease, result>>

Runner == \/ NotStarted \/ Start \/ CleanupStartedChild
          \/ DirectTop \/ DirectSelect \/ DirectVerify
          \/ BoundedTop \/ BoundedResults \/ BoundedChunk \/ BoundedStable \/ BoundedEscalate
          \/ BoundedTerminal \/ BoundedVerify
          \/ ConverseTop \/ ConverseResults \/ ConverseTimers \/ ConverseVerify

Kernel == pc \notin {"top", "done"} /\ UNCHANGED runVars

Next ==
  \/ Runner \/ StartedFault
  \/ Kernel /\ (GroupStep \/ StdinWritten \/ CopyStdinEnds \/ Wait \/ ContextEnds
                \/ RequestTimeout)
  \/ ReadChunk \/ SpoolEnds
  \/ \E s \in Streams :
       StreamEnds(s) \/ CaptureFault(s) \/ ReadDeadline(s) \/ ProducerEnds(s)
  \/ DriverStep \/ SendCut \/ \E o \in {"ok", "error"} : DriverReturns(o)
  \/ BudgetExpires \/ GraceExpires

Spec == Init /\ [][Next]_vars

(* What must happen once it can: goroutines run, timers fire, SIGKILL ends *)
(* a group member, Wait returns once the child has exited, and a driver    *)
(* whose exchange is closed returns.  Nothing is assumed of the child.     *)
Progress ==
  \/ Runner
  \/ Kernel /\ (Wait \/ CopyStdinEnds \/ RequestTimeout \/ KillLeader \/ KillHelper)
  \/ ReadChunk \/ SpoolEnds
  \/ \E s \in Streams : StreamEnds(s) \/ ProducerEnds(s) \/ ReadDeadline(s)
  \/ SendCut \/ (cancelled /\ DriverReturns("error"))
  \/ BudgetExpires \/ GraceExpires

FairSpec == Spec /\ WF_vars(Progress)

-----------------------------------------------------------------------------
(* Properties.                                                             *)

Returned == result.kind # "none"

(* An observation is evidence about a finished execution: the direct child *)
(* is reaped, no member of its group is left, Wait, both readers and the   *)
(* stdin writer (or the session driver) have ended.  No late byte, signal  *)
(* or exit can contradict what was reported.                               *)
ObservationIsFinal ==
  result.kind = "observation" /\ leader # "none" =>
    /\ Absent /\ wait = "taken" /\ stdin = "taken"
    /\ \A s \in Streams : rd[s] \in {"taken", "joined"}
    /\ mode = "converse" => DriverOver

(* Success needs a delivered packet and a stdout that is complete up to    *)
(* the end of the child, or exactly the stable frame for which the runner  *)
(* itself asked the group to stop; and never a cancelled or late request   *)
(* whose fact the loop had recorded.                                       *)
SuccessIsEarned ==
  result.succeeded =>
    /\ sig \cap SignalFacts = {} /\ ~partial
    /\ \/ result.code = "zero" /\ (captured = written \/ (frame # 0 /\ captured = frame))
       \/ /\ mode = "bounded" /\ frame # 0 /\ captured = frame
          /\ requests # <<>> /\ requests[1] = "postOutput"

(* However a direct or conversation run ends, and whenever a bounded run   *)
(* ends in an observation, no group member survives unsignalled: it is     *)
(* gone or SIGKILL is already on its way.                                  *)
NoUnsignalledSurvivor ==
  Returned /\ ~(mode = "bounded" /\ result.kind = "failure") =>
    LiveMembers = 0 \/ "SIGKILL" \in pending

(* The spooled stdout is owned by exactly one side: a lease the runner has *)
(* received is closed on every failure and bound to the observation only   *)
(* when the caller is told to keep it.                                     *)
LeaseSettled ==
  Returned => /\ lease # "held"
              /\ lease = "bound" => result.kind = "observation"
              /\ result.succeeded => lease = "bound"
              /\ result.kind = "observation" /\ leader # "none" => lease \in {"closed", "bound"}

(* What Run reports is evidence: about an execution that is over, and a    *)
(* success only where it was earned.                                       *)
ObservationIsEarned == ObservationIsFinal /\ SuccessIsEarned

(* Nothing of an execution is left without an owner, neither a process nor *)
(* the spooled output.                                                     *)
NothingLeftBehind == NoUnsignalledSurvivor /\ LeaseSettled

(* Every execution returns: a child that never reads, never exits, ignores *)
(* SIGTERM or leaves its pipes to a descendant cannot hold the caller.     *)
AlwaysReturns == <>Returned

=============================================================================
