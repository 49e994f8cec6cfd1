------------------------ MODULE ProcessRunnerProofs -------------------------
(***************************************************************************)
(* The process runner in its three modes: what every execution owes its    *)
(* caller, for any number of output chunks, frame lengths, line buffer and *)
(* surprises.                                                              *)
(*                                                                         *)
(* A call that has returned changes nothing any more, so the inductive     *)
(* invariant speaks of the loop only, and each return is shown to honour   *)
(* the contract from what the invariant knows where the loop ends.         *)
(***************************************************************************)
EXTENDS ProcessRunner, TLAPS, SequenceTheorems

Reasons == {"postOutput", "postOutputEscalation", "internalTeardown",
            "teardown", "teardownEscalation"}

(* Every live member of the group has SIGKILL on its way, and no new one   *)
(* can appear.                                                             *)
Doomed == leader # "none" /\ (LiveMembers = 0 \/ "SIGKILL" \in pending)

RunnerTypes ==
  /\ TypeOK
  /\ requests \in Seq(Reasons)
  /\ result.succeeded \in BOOLEAN

(* Before child.Start there is no child and nothing to give back; no loop  *)
(* returns twice.                                                          *)
Beginning ==
  /\ pc = "start" => /\ leader = "none" /\ helper = "none" /\ lease = "none"
                     /\ wait = "no" /\ ~tearing /\ ~disposed /\ rd["out"] = "reading"
  /\ pc \in {"cleanup", "top", "select", "verify"} => leader # "none"
  /\ result = NoResult /\ lease # "bound"
  /\ pc = "cleanup" => Doomed /\ lease = "none"

(* A stdout that ended without a recorded fault ended after the child, and *)
(* every chunk of it is captured or waits in the channel.                  *)
OutputCounted ==
  /\ mode = "bounded" => captured + queued <= written
  /\ mode # "bounded" => captured <= written /\ queued <= captured
  /\ rd["out"] \in {"ended", "taken"} /\ "internal" \notin sig =>
       /\ leader # "live"
       /\ IF mode = "bounded" THEN captured + queued = written ELSE captured = written
  /\ mode = "bounded" /\ rd["out"] = "taken" /\ "internal" \notin sig => queued = 0
  /\ mode # "bounded" => rd["out"] \notin {"cut", "joined"}

(* In direct mode a stdout that ended well has left its lease.             *)
OutputOwned ==
  mode = "direct" =>
    /\ rd["out"] = "ended" => lease = "made"
    /\ rd["out"] = "taken" /\ "internal" \notin sig => lease = "held"

(* What only one of the modes uses.                                        *)
ModeOnly ==
  /\ mode # "bounded" => frame = 0
  /\ mode # "converse" => ~partial
  /\ mode = "converse" => stdin = "taken"

(* What the runner believes about the group is true of it, and stays true. *)
GroupKnown ==
  /\ mode # "direct" /\ disposed => Absent
  /\ mode = "direct" /\ (tearing \/ disposed) => Doomed
  /\ mode = "direct" /\ wait # "no" /\ pc # "cleanup" => disposed
  /\ mode = "converse" /\ killedOnce => Doomed

(* Bounded: producers are cancelled only in a teardown, a teardown without *)
(* a recorded fact comes from a stable frame, and its first request is the *)
(* SIGTERM for that frame.                                                 *)
StopOrder ==
  mode = "bounded" =>
    /\ ~tearing => requests = <<>> /\ grace = "off" /\ ~cancelled
    /\ budget # "off" => tearing \/ pc = "verify"
    /\ tearing /\ sig = {} => frame # 0
    /\ tearing /\ sig = {} =>
         \/ requests # <<>> /\ requests[1] = "postOutput"
         \/ requests = <<>> /\ disposed
    /\ grace # "off" => requests # <<>>
    /\ rd["out"] \in {"cut", "joined"} /\ sig = {} => cancelled

(* A loop is left only with everything it started accounted for.           *)
AtVerify ==
  pc = "verify" =>
    /\ wait = "taken" /\ stdin = "taken"
    /\ \A s \in Streams : rd[s] \in {"taken", "joined"}
    /\ mode = "converse" => DriverOver /\ (disposed \/ killedOnce)
    /\ mode # "direct" => lease = "held"

Running ==
  /\ Beginning /\ OutputCounted /\ OutputOwned /\ ModeOnly
  /\ GroupKnown /\ StopOrder /\ AtVerify

Settled == ObservationIsEarned /\ NothingLeftBehind

RunnerInv ==
  /\ RunnerTypes
  /\ pc # "done" => Running
  /\ pc = "done" => Settled

USE DEF groupVars, ioVars, loopVars, sessionVars, runVars, vars

-----------------------------------------------------------------------------
(* The operators the steps are built from.                                 *)

(* kill(2) answers what the group is: success while a member lives, ESRCH  *)
(* once it is absent, EPERM for zombies.                                   *)
LEMMA KillFacts ==
  ASSUME GroupTypeOK
  PROVE  /\ KillOutcome \in {"ok", "EPERM", "ESRCH"}
         /\ KillOutcome = "ok" <=> LiveMembers > 0
         /\ KillOutcome = "ESRCH" => Absent
         /\ LiveMembers \in 0..2
<1>1. LiveMembers \in 0..2
  BY DEF LiveMembers
<1>2. ~(LiveMembers > 0) /\ ~LeaderExitedWithNoLiveMembers => Absent
  BY <1>1 DEF LeaderExitedWithNoLiveMembers, LiveMembers, HelperIn, Absent, GroupTypeOK
<1> QED BY <1>1, <1>2 DEF KillOutcome

(* A termination of the recorded facts names one of them, so a run without *)
(* a termination and without an internal fault has recorded nothing.       *)
LEMMA TerminationFacts ==
  ASSUME NEW f, f \subseteq SignalFacts
  PROVE  /\ Termination(f) \in {"cancelled", "timedOut", "stdinIncomplete", "residual", "none"}
         /\ Termination(f) = "none" /\ "internal" \notin f => f = {}
  BY DEF SignalFacts, Termination
-----------------------------------------------------------------------------
(* Types.                                                                  *)

(* What a return leaves is a result of a known kind.                       *)
LEMMA ReturnTypes ==
  ASSUME NEW kind, NEW term, NEW code, NEW succeeded, NEW l,
         kind \in {"observation", "failure"}, succeeded \in BOOLEAN,
         l \in {"none", "made", "held", "closed", "bound"},
         Return(kind, term, code, succeeded, l)
  PROVE  /\ pc' = "done" /\ lease' = l
         /\ result'.kind = kind /\ result'.succeeded = succeeded /\ result'.code = code
         /\ result'.kind \in {"none", "observation", "failure"}
         /\ result'.succeeded \in BOOLEAN
  BY DEF Return

LEMMA FailTypes ==
  ASSUME RunnerTypes, NEW term, Fail(term)
  PROVE  /\ pc' = "done" /\ result'.kind = "failure"
         /\ ~result'.succeeded /\ result'.succeeded \in BOOLEAN
         /\ lease' = IF lease = "held" THEN "closed" ELSE lease
  BY DEF Fail, Return, CloseLease

(* The kernel, the goroutines, the driver and the timers keep the types.   *)
LEMMA GroupTypesKept ==
  ASSUME RunnerTypes, Kernel,
         GroupStep \/ StdinWritten \/ CopyStdinEnds \/ Wait \/ ContextEnds \/ RequestTimeout
  PROVE  RunnerTypes'
<1> USE MaxChunksAssumption, MaxSurprisesAssumption
<1>1. CASE ChildWrites /\ UNCHANGED ioVars
  BY <1>1 DEF ChildWrites, Surprise, Kernel, RunnerTypes, TypeOK, GroupTypeOK
<1>2. ASSUME NEW kept \in {{}, Streams}, NEW where \in {"live", "escaped"},
             ChildForks(kept, where), UNCHANGED ioVars
      PROVE  RunnerTypes'
  BY <1>2 DEF ChildForks, Surprise, Kernel, RunnerTypes, TypeOK, GroupTypeOK
<1>3. ASSUME NEW code \in Statuses, ChildEnds(code), UNCHANGED ioVars
      PROVE  RunnerTypes'
  BY <1>3 DEF ChildEnds, Kernel, RunnerTypes, TypeOK, GroupTypeOK
<1>4. CASE HelperEnds /\ UNCHANGED ioVars
  BY <1>4 DEF HelperEnds, Kernel, RunnerTypes, TypeOK, GroupTypeOK
<1>5. CASE StdinWritten
  BY <1>5 DEF StdinWritten, Kernel, RunnerTypes, TypeOK, GroupTypeOK, StdinStates, StdinReady
<1>6. CASE CopyStdinEnds
  BY <1>6 DEF CopyStdinEnds, Kernel, RunnerTypes, TypeOK, GroupTypeOK, StdinStates, StdinReady
<1>7. CASE Wait
  BY <1>7 DEF Wait, Kernel, RunnerTypes, TypeOK, GroupTypeOK
<1>8. CASE ContextEnds
  BY <1>8 DEF ContextEnds, Surprise, Kernel, RunnerTypes, TypeOK, GroupTypeOK
<1>9. CASE RequestTimeout
  BY <1>9 DEF RequestTimeout, Kernel, RunnerTypes, TypeOK, GroupTypeOK
<1> QED BY <1>1, <1>2, <1>3, <1>4, <1>5, <1>6, <1>7, <1>8, <1>9 DEF GroupStep

LEMMA ReaderTypesKept ==
  ASSUME RunnerTypes, mode # "bounded" => queued <= captured,
         \/ ReadChunk \/ SpoolEnds
         \/ \E s \in Streams :
              StreamEnds(s) \/ CaptureFault(s) \/ ReadDeadline(s) \/ ProducerEnds(s)
  PROVE  RunnerTypes'
<1> USE MaxChunksAssumption, MaxSurprisesAssumption
<1>1. CASE ReadChunk
  BY <1>1 DEF ReadChunk, Started, RunnerTypes, TypeOK, GroupTypeOK
<1>2. CASE SpoolEnds
  BY <1>2 DEF SpoolEnds, Started, RunnerTypes, TypeOK, GroupTypeOK
<1>3. ASSUME NEW s \in Streams, StreamEnds(s)
      PROVE  RunnerTypes'
  BY <1>3 DEF StreamEnds, RunnerTypes, TypeOK, GroupTypeOK
<1>4. ASSUME NEW s \in Streams, CaptureFault(s)
      PROVE  RunnerTypes'
  BY <1>4 DEF CaptureFault, StreamFails, Surprise, RunnerTypes, TypeOK, GroupTypeOK
<1>5. ASSUME NEW s \in Streams, ReadDeadline(s)
      PROVE  RunnerTypes'
  BY <1>5 DEF ReadDeadline, StreamFails, RunnerTypes, TypeOK, GroupTypeOK
<1>6. ASSUME NEW s \in Streams, ProducerEnds(s)
      PROVE  RunnerTypes'
  BY <1>6 DEF ProducerEnds, RunnerTypes, TypeOK, GroupTypeOK
<1> QED BY <1>1, <1>2, <1>3, <1>4, <1>5, <1>6

LEMMA DriverTypesKept ==
  ASSUME RunnerTypes,
         \/ DriverStep \/ SendCut \/ \E o \in {"ok", "error"} : DriverReturns(o)
         \/ BudgetExpires \/ GraceExpires
  PROVE  RunnerTypes'
<1> USE MaxChunksAssumption, MaxSurprisesAssumption
<1>1. ASSUME DriverStep
      PROVE  RunnerTypes'
  <2>1. CASE driver = "driving" /\ queued > 0 /\ queued' = queued - 1
                               /\ UNCHANGED <<driver, inClosed, partial>>
    BY <1>1, <2>1 DEF DriverStep, RunnerTypes, TypeOK, GroupTypeOK
  <2>2. CASE driver' \in {"sending", "driving"} /\ UNCHANGED <<queued, inClosed, partial>>
    BY <1>1, <2>2 DEF DriverStep, RunnerTypes, TypeOK, GroupTypeOK
  <2>3. CASE inClosed' = TRUE /\ UNCHANGED <<driver, queued, partial>>
    BY <1>1, <2>3 DEF DriverStep, RunnerTypes, TypeOK, GroupTypeOK
  <2> QED BY <1>1, <2>1, <2>2, <2>3 DEF DriverStep
<1>2. CASE SendCut
  BY <1>2 DEF SendCut, RunnerTypes, TypeOK, GroupTypeOK
<1>3. ASSUME NEW o \in {"ok", "error"}, DriverReturns(o)
      PROVE  RunnerTypes'
  BY <1>3 DEF DriverReturns, RunnerTypes, TypeOK, GroupTypeOK
<1>4. CASE BudgetExpires
  BY <1>4 DEF BudgetExpires, RunnerTypes, TypeOK, GroupTypeOK, Timers
<1>5. CASE GraceExpires
  BY <1>5 DEF GraceExpires, RunnerTypes, TypeOK, GroupTypeOK, Timers
<1> QED BY <1>1, <1>2, <1>3, <1>4, <1>5
(* The three loops keep the types.                                         *)
LEMMA StartTypesKept ==
  ASSUME RunnerTypes, Beginning,
         NotStarted \/ Start \/ StartedFault \/ CleanupStartedChild
  PROVE  RunnerTypes'
<1>1. CASE NotStarted
  <2>1. PICK why : Return("observation", why, "none", FALSE, lease)
    BY <1>1 DEF NotStarted
  <2>2. lease \in {"none", "made", "held", "closed", "bound"}
    BY DEF RunnerTypes, TypeOK
  <2>3. /\ pc' = "done" /\ lease' = lease
        /\ result'.kind \in {"none", "observation", "failure"} /\ result'.succeeded \in BOOLEAN
    BY <2>1, <2>2 DEF Return
  <2> QED BY <1>1, <2>3 DEF NotStarted, RunnerTypes, TypeOK, GroupTypeOK
<1>2. CASE Start
  BY <1>2 DEF Start, RunnerTypes, TypeOK, GroupTypeOK
<1>3. CASE StartedFault
  BY <1>3 DEF StartedFault, RunnerTypes, TypeOK, GroupTypeOK
<1>4. CASE CleanupStartedChild
  <2>1. /\ pc' = "done" /\ result'.kind = "failure" /\ result'.succeeded \in BOOLEAN
        /\ lease' = IF lease = "held" THEN "closed" ELSE lease
    BY <1>4, FailTypes DEF CleanupStartedChild
  <2>2. UNCHANGED <<groupVars, ioVars, loopVars, sessionVars, rd, captured, queued>>
    BY <1>4 DEF CleanupStartedChild
  <2> QED BY <2>1, <2>2 DEF RunnerTypes, TypeOK, GroupTypeOK
<1> QED BY <1>1, <1>2, <1>3, <1>4

(* What one pass over the ready results yields.                            *)
LEMMA DrainTypes ==
  ASSUME RunnerTypes
  PROVE  /\ Drain \in [Streams -> {"reading", "taken"}]
         /\ StreamFacts \subseteq SignalFacts /\ TerminalFacts \subseteq SignalFacts
         /\ StdinFacts(stdin) \subseteq SignalFacts
         /\ HoldLease(lease) \in {"none", "held", "closed", "bound"}
         /\ TakeStdin \in {"writing", "wrote", "taken"}
         /\ TakeWait \in {"no", "running", "taken"}
<1>1. Drain \in [Streams -> {"reading", "taken"}]
  BY DEF Drain
<1>2. /\ StreamFacts \subseteq SignalFacts /\ TerminalFacts \subseteq SignalFacts
      /\ StdinFacts(stdin) \subseteq SignalFacts
  BY DEF StreamFacts, TerminalFacts, StdinFacts, SignalFacts
<1>3. /\ HoldLease(lease) \in {"none", "held", "closed", "bound"}
      /\ TakeStdin \in {"writing", "wrote", "taken"}
      /\ TakeWait \in {"no", "running", "taken"}
  BY DEF HoldLease, TakeStdin, TakeWait, StdinReady, RunnerTypes, TypeOK, GroupTypeOK, StdinStates
<1> QED BY <1>1, <1>2, <1>3

(* The send closure and the conversation's signal keep the types of what   *)
(* they touch.                                                             *)
LEMMA SendTypes ==
  ASSUME RunnerTypes, NEW signal \in {"SIGTERM", "SIGKILL"}, NEW reason \in Reasons,
         NEW facts, facts \subseteq SignalFacts, Send(signal, reason, facts)
  PROVE  /\ sig' \subseteq SignalFacts /\ pending' \subseteq {"SIGTERM", "SIGKILL"}
         /\ requests' \in Seq(Reasons) /\ disposed' \in BOOLEAN
         /\ facts \subseteq sig'
<1>1. CASE disposed
  BY <1>1 DEF Send, RunnerTypes, TypeOK, GroupTypeOK
<1>2. CASE ~disposed
  <2>1. /\ pending' = Signalled(signal)
        /\ requests' = IF KillOutcome = "ok" THEN Append(requests, reason) ELSE requests
        /\ disposed' = (KillOutcome = "ESRCH")
        /\ sig' = facts \cup (IF KillOutcome = "EPERM" THEN {"internal"} ELSE {})
    BY <1>2 DEF Send
  <2>2. sig' \subseteq SignalFacts /\ facts \subseteq sig'
    BY <2>1 DEF SignalFacts
  <2>3. requests' \in Seq(Reasons)
    BY <2>1 DEF RunnerTypes
  <2>4. pending' \subseteq {"SIGTERM", "SIGKILL"} /\ disposed' \in BOOLEAN
    BY <2>1 DEF Signalled, RunnerTypes, TypeOK, GroupTypeOK
  <2> QED BY <2>2, <2>3, <2>4
<1> QED BY <1>1, <1>2

LEMMA ConverseSignalTypes ==
  ASSUME RunnerTypes, NEW signal \in {"SIGTERM", "SIGKILL"}, NEW reason \in Reasons,
         ConverseSignal(signal, reason)
  PROVE  /\ pending' \subseteq {"SIGTERM", "SIGKILL"}
         /\ requests' \in Seq(Reasons) /\ disposed' \in BOOLEAN
  BY DEF ConverseSignal, Signalled, RunnerTypes, TypeOK, GroupTypeOK

LEMMA RequestTypes ==
  ASSUME RunnerTypes, requests' \in Seq(Reasons)
  PROVE  \A i \in DOMAIN requests' :
           requests'[i] \in {"postOutput", "postOutputEscalation", "internalTeardown",
                             "teardown", "teardownEscalation"}
  BY DEF Reasons

(* How a verification reports: a failure, or the observation of a group    *)
(* that is gone; a success only of what nothing was recorded against.      *)
Reported(code, succeeded, l) ==
  \E term : Return("observation", term, code, succeeded, l)

LEMMA ReportedTypes ==
  ASSUME NEW code, NEW succeeded \in BOOLEAN, NEW l, Reported(code, succeeded, l)
  PROVE  /\ pc' = "done" /\ lease' = l
         /\ result'.kind = "observation" /\ result'.code = code
         /\ result'.succeeded = succeeded /\ result'.succeeded \in BOOLEAN
  BY DEF Reported, Return

LEMMA DirectReports ==
  ASSUME DirectVerify
  PROVE  \/ ~Absent /\ budget = "fired" /\ Fail("groupRemains")
         \/ Absent /\ "internal" \in sig' /\ Fail("internal")
         \/ /\ Absent /\ "internal" \notin sig'
            /\ \E code \in ExitCodes(status), succeeded \in BOOLEAN :
                 /\ Reported(code, succeeded, IF succeeded THEN "bound" ELSE CloseLease(lease))
                 /\ succeeded => code = "zero" /\ Termination(sig') \in {"none", "exited"}
<1>1. CASE ~Absent \/ "internal" \in sig'
  BY <1>1 DEF DirectVerify
<1>2. CASE Absent /\ "internal" \notin sig'
  <2>1. PICK term : term = IF Termination(sig') # "none" THEN Termination(sig')
                           ELSE ExitTermination
    OBVIOUS
  <2>2. PICK code \in ExitCodes(status), succeeded \in BOOLEAN :
          /\ Return("observation", term, code, succeeded,
                    IF succeeded THEN "bound" ELSE CloseLease(lease))
          /\ succeeded => term = "exited" /\ code = "zero"
    BY <1>2, <2>1 DEF DirectVerify, Succeeded
  <2> QED BY <1>2, <2>1, <2>2 DEF Reported
<1> QED BY <1>1, <1>2

LEMMA DirectTypesKept ==
  ASSUME RunnerTypes, DirectTop \/ DirectSelect \/ DirectVerify
  PROVE  RunnerTypes'
<1>1. CASE DirectTop
  <2>1. /\ pc' \in {"verify", "select"} /\ sig' \subseteq SignalFacts
        /\ tearing' \in BOOLEAN /\ disposed' \in BOOLEAN /\ inClosed' \in BOOLEAN
        /\ budget' \in Timers /\ pending' \subseteq {"SIGTERM", "SIGKILL"}
        /\ wait' \in {"no", "running", "ready", "taken"}
    BY <1>1, DrainTypes DEF DirectTop, Signalled, Timers, SignalFacts, RunnerTypes, TypeOK,
       GroupTypeOK
  <2>2. /\ rd' \in [Streams -> {"reading", "ended", "failed", "cut", "taken", "joined"}]
        /\ lease' \in {"none", "made", "held", "closed", "bound"}
        /\ stdin' \in StdinStates
    BY <1>1, DrainTypes DEF DirectTop, StdinStates
  <2>3. UNCHANGED <<leader, status, helper, holds, written, surprises, ctx, timer, mode,
                    sessionVars, captured, queued, result>>
    BY <1>1 DEF DirectTop
  <2> QED BY <2>1, <2>2, <2>3 DEF RunnerTypes, TypeOK, GroupTypeOK
<1>2. CASE DirectSelect
  <2>1. /\ pc' \in {"top", "done"} /\ inClosed' \in BOOLEAN
        /\ result'.kind \in {"none", "observation", "failure"} /\ result'.succeeded \in BOOLEAN
        /\ lease' \in {"none", "made", "held", "closed", "bound"}
    BY <1>2, FailTypes DEF DirectSelect, RunnerTypes, TypeOK, GroupTypeOK
  <2>2. UNCHANGED <<groupVars, stdin, wait, ctx, timer, loopVars, sessionVars, rd, captured,
                    queued>>
    BY <1>2 DEF DirectSelect
  <2> QED BY <2>1, <2>2 DEF RunnerTypes, TypeOK, GroupTypeOK
<1>3. CASE DirectVerify
  <2>1. /\ pc' = "done"
        /\ result'.kind \in {"none", "observation", "failure"} /\ result'.succeeded \in BOOLEAN
        /\ lease' \in {"none", "made", "held", "closed", "bound"}
    BY <1>3, DirectReports, ReportedTypes, FailTypes DEF CloseLease, RunnerTypes, TypeOK
  <2>2. sig' \subseteq SignalFacts
    BY <1>3, DrainTypes DEF DirectVerify, RunnerTypes, TypeOK
  <2>3. UNCHANGED <<groupVars, ioVars, mode, tearing, budget, disposed, sessionVars, rd,
                    captured, queued>>
    BY <1>3 DEF DirectVerify
  <2> QED BY <2>1, <2>2, <2>3 DEF RunnerTypes, TypeOK, GroupTypeOK
<1> QED BY <1>1, <1>2, <1>3
LEMMA BoundedReports ==
  ASSUME BoundedVerify
  PROVE  \/ \E why : Fail(why)
         \/ /\ disposed \/ Absent
            /\ "internal" \notin sig
            /\ \E code \in ExitCodes(status), succeeded \in BOOLEAN :
                 /\ Reported(code, succeeded, IF succeeded THEN "bound" ELSE CloseLease(lease))
                 /\ succeeded =>
                      /\ Termination(sig) \in {"none", "exited", "signaled"}
                      /\ frame # 0 => captured = frame
                      /\ code = "zero" \/ (frame # 0 /\ requests # <<>>)
<1>1. CASE \E why : Fail(why)
  BY <1>1
<1>2. CASE ~\E why : Fail(why)
  <2>1. PICK term : term = IF Termination(sig) # "none" THEN Termination(sig)
                           ELSE IF killedOnce THEN "signaled" ELSE ExitTermination
    OBVIOUS
  <2>2. disposed \/ Absent
    BY <1>2 DEF BoundedVerify
  <2>3. "internal" \notin sig /\ LifecycleValid
    BY <1>2, <2>2 DEF BoundedVerify
  <2>4. PICK code \in ExitCodes(status), succeeded \in BOOLEAN :
          /\ Return("observation", term, code, succeeded,
                    IF succeeded THEN "bound" ELSE CloseLease(lease))
          /\ succeeded =>
               /\ term \in {"exited", "signaled"}
               /\ frame # 0 => captured = frame
               /\ \/ code = "zero"
                  \/ frame # 0 /\ (requests = <<"postOutput">> \/ requests # <<>>
                                                              \/ Len(requests) = 2)
    BY <1>2, <2>1, <2>2, <2>3 DEF BoundedVerify, Succeeded
  <2>5. requests = <<"postOutput">> \/ requests # <<>> \/ Len(requests) = 2 => requests # <<>>
    OBVIOUS
  <2> QED BY <2>1, <2>2, <2>3, <2>4, <2>5 DEF Reported
<1> QED BY <1>1, <1>2

LEMMA ConverseReports ==
  ASSUME ConverseVerify
  PROVE  \/ \E why : Fail(why)
         \/ /\ disposed \/ Absent
            /\ "internal" \notin sig'
            /\ \E code \in ExitCodes(status), succeeded \in BOOLEAN :
                 /\ Reported(code, succeeded, "bound")
                 /\ succeeded =>
                      /\ Termination(sig') \in {"none", "exited", "signaled"}
                      /\ ~partial
                      /\ code = "zero" \/ frame # 0
<1>1. CASE \E why : Fail(why)
  BY <1>1
<1>2. CASE ~\E why : Fail(why)
  <2>1. PICK term : term = IF Termination(sig') # "none" THEN Termination(sig')
                           ELSE ExitTermination
    OBVIOUS
  <2>2. disposed \/ Absent
    BY <1>2 DEF ConverseVerify
  <2>3. "internal" \notin sig' /\ LifecycleValid
    BY <1>2, <2>2 DEF ConverseVerify
  <2>4. PICK code \in ExitCodes(status), succeeded \in BOOLEAN :
          /\ Return("observation", term, code, succeeded, "bound")
          /\ succeeded => /\ term \in {"exited", "signaled"} /\ ~partial
                          /\ code = "zero" \/ frame # 0
    BY <1>2, <2>1, <2>2, <2>3 DEF ConverseVerify, Succeeded
  <2> QED BY <2>1, <2>2, <2>3, <2>4 DEF Reported
<1> QED BY <1>1, <1>2

LEMMA BoundedTypesKept ==
  ASSUME RunnerTypes, mode = "bounded" => captured + queued <= written,
         \/ BoundedTop \/ BoundedResults \/ BoundedChunk \/ BoundedStable
         \/ BoundedEscalate \/ BoundedTerminal \/ BoundedVerify
  PROVE  RunnerTypes'
<1> USE MaxChunksAssumption, FrameLengthsAssumption
<1>1. CASE BoundedTop
  <2>1. /\ sig' \subseteq SignalFacts /\ pending' \subseteq {"SIGTERM", "SIGKILL"}
        /\ requests' \in Seq(Reasons) /\ disposed' \in BOOLEAN
    <3>1. sig \cup TerminalFacts \subseteq SignalFacts
      BY DrainTypes DEF RunnerTypes, TypeOK
    <3>2. CASE Send("SIGKILL", "internalTeardown", sig \cup TerminalFacts)
      BY <3>1, <3>2, SendTypes DEF Reasons
    <3>3. CASE UNCHANGED <<pending, requests, disposed>> /\ sig' \in {sig, sig \cup TerminalFacts}
      BY <3>1, <3>3 DEF RunnerTypes, TypeOK, GroupTypeOK
    <3> QED BY <1>1, <3>2, <3>3 DEF BoundedTop
  <2>2. /\ pc' \in {"verify", "select"} /\ tearing' \in BOOLEAN /\ killedOnce' \in BOOLEAN
        /\ cancelled' \in BOOLEAN /\ inClosed' \in BOOLEAN /\ budget' \in Timers
    BY <1>1 DEF BoundedTop, Timers, RunnerTypes, TypeOK, GroupTypeOK
  <2>3. UNCHANGED <<leader, status, helper, holds, written, surprises, stdin, wait, ctx, timer,
                    mode, quiet, grace, frame, driver, partial, rd, captured, queued, lease,
                    result>>
    BY <1>1 DEF BoundedTop
  <2> QED BY <2>1, <2>2, <2>3, RequestTypes DEF RunnerTypes, TypeOK, GroupTypeOK
<1>2. CASE BoundedResults
  <2>1. /\ rd' \in [Streams -> {"reading", "ended", "failed", "cut", "taken", "joined"}]
        /\ pc' = "top"
    BY <1>2 DEF BoundedResults, RunnerTypes, TypeOK
  <2>2. /\ stdin' \in StdinStates /\ wait' \in {"no", "running", "ready", "taken"}
        /\ lease' \in {"none", "made", "held", "closed", "bound"}
        /\ sig' \subseteq SignalFacts
    BY <1>2, DrainTypes DEF BoundedResults, StdinStates, SignalFacts, RunnerTypes, TypeOK
  <2>3. UNCHANGED <<groupVars, inClosed, ctx, timer, mode, tearing, budget, disposed, quiet,
                    grace, requests, killedOnce, frame, cancelled, driver, partial, captured,
                    queued, result>>
    BY <1>2 DEF BoundedResults
  <2> QED BY <2>1, <2>2, <2>3 DEF RunnerTypes, TypeOK, GroupTypeOK
<1>3. CASE BoundedChunk
  <2>1. /\ pc' = "top" /\ captured' \in 0..MaxChunks /\ queued' \in 0..MaxChunks
        /\ frame' \in {0} \cup FrameLengths /\ quiet' \in Timers /\ sig' \subseteq SignalFacts
    <3>1. /\ mode = "bounded" /\ queued > 0 /\ queued' = queued - 1 /\ pc' = "top"
          /\ captured' \in {captured, captured + 1}
          /\ frame' \in {frame, 0} \/ (frame' = captured' /\ captured' \in FrameLengths)
          /\ quiet' \in {quiet, "armed", "off"}
      BY <1>3 DEF BoundedChunk
    <3>2. sig' \subseteq SignalFacts
      BY <1>3 DEF BoundedChunk, SignalFacts, RunnerTypes, TypeOK
    <3>3. captured' \in 0..MaxChunks /\ queued' \in 0..MaxChunks
      BY <3>1 DEF RunnerTypes, TypeOK, GroupTypeOK
    <3> QED BY <3>1, <3>2, <3>3 DEF Timers, RunnerTypes, TypeOK
  <2>2. UNCHANGED <<groupVars, ioVars, mode, tearing, budget, disposed, grace, requests,
                    killedOnce, cancelled, driver, partial, rd, lease, result>>
    BY <1>3 DEF BoundedChunk
  <2> QED BY <2>1, <2>2 DEF RunnerTypes, TypeOK, GroupTypeOK
<1>4. CASE BoundedStable
  <2>1. /\ sig' \subseteq SignalFacts /\ pending' \subseteq {"SIGTERM", "SIGKILL"}
        /\ requests' \in Seq(Reasons) /\ disposed' \in BOOLEAN
    <3>1. CASE Send("SIGTERM", "postOutput", sig)
      BY <3>1, SendTypes DEF Reasons, RunnerTypes, TypeOK
    <3>2. CASE UNCHANGED <<sig, pending, requests, disposed>>
      BY <3>2 DEF RunnerTypes, TypeOK, GroupTypeOK
    <3> QED BY <1>4, <3>1, <3>2 DEF BoundedStable
  <2>2. /\ pc' = "top" /\ quiet' = "off" /\ tearing' \in BOOLEAN /\ inClosed' \in BOOLEAN
        /\ budget' \in Timers /\ grace' \in Timers
    BY <1>4 DEF BoundedStable, Timers, RunnerTypes, TypeOK, GroupTypeOK
  <2>3. UNCHANGED <<leader, status, helper, holds, written, surprises, stdin, wait, ctx, timer,
                    mode, killedOnce, frame, cancelled, driver, partial, rd, captured, queued,
                    lease, result>>
    BY <1>4 DEF BoundedStable
  <2> QED BY <2>1, <2>2, <2>3, RequestTypes DEF Timers, RunnerTypes, TypeOK, GroupTypeOK
<1>5. CASE BoundedEscalate
  <2>1. /\ sig' \subseteq SignalFacts /\ pending' \subseteq {"SIGTERM", "SIGKILL"}
        /\ requests' \in Seq(Reasons) /\ disposed' \in BOOLEAN
    <3>1. CASE Send("SIGKILL", "postOutputEscalation", sig)
      BY <3>1, SendTypes DEF Reasons, RunnerTypes, TypeOK
    <3>2. CASE disposed' = TRUE /\ UNCHANGED <<sig, pending, requests>>
      BY <3>2 DEF RunnerTypes, TypeOK, GroupTypeOK
    <3> QED BY <1>5, <3>1, <3>2 DEF BoundedEscalate
  <2>2. /\ pc' = "top" /\ grace' = "off" /\ killedOnce' \in BOOLEAN
        /\ cancelled' = TRUE /\ inClosed' = TRUE
    BY <1>5 DEF BoundedEscalate, RunnerTypes, TypeOK
  <2>3. UNCHANGED <<leader, status, helper, holds, written, surprises, stdin, wait, ctx, timer,
                    mode, tearing, budget, quiet, frame, driver, partial, rd, captured, queued,
                    lease, result>>
    BY <1>5 DEF BoundedEscalate
  <2> QED BY <2>1, <2>2, <2>3, RequestTypes DEF Timers, RunnerTypes, TypeOK, GroupTypeOK
<1>6. CASE BoundedTerminal
  <2>0. sig \cup StdinFacts(stdin) \subseteq SignalFacts
    BY DrainTypes DEF RunnerTypes, TypeOK
  <2>1. /\ sig' \subseteq SignalFacts /\ pending' \subseteq {"SIGTERM", "SIGKILL"}
        /\ requests' \in Seq(Reasons) /\ disposed' \in BOOLEAN
    <3>1. CASE Send("SIGKILL", "postOutputEscalation", sig \cup StdinFacts(stdin))
      BY <2>0, <3>1, SendTypes DEF Reasons
    <3>2. CASE sig' = sig \cup StdinFacts(stdin) /\ UNCHANGED <<pending, requests, disposed>>
      BY <2>0, <3>2 DEF RunnerTypes, TypeOK, GroupTypeOK
    <3> QED BY <1>6, <3>1, <3>2 DEF BoundedTerminal
  <2>2. /\ killedOnce' \in BOOLEAN /\ cancelled' = TRUE /\ inClosed' = TRUE
        /\ budget' = "taken" /\ stdin' \in StdinStates
    BY <1>6, DrainTypes DEF BoundedTerminal, StdinStates, RunnerTypes, TypeOK
  <2>3. /\ pc' \in {"top", "done"} /\ lease' \in {"none", "made", "held", "closed", "bound"}
        /\ result'.kind \in {"none", "observation", "failure"} /\ result'.succeeded \in BOOLEAN
    <3>1. CASE Fail("terminalDeadline")
      BY <3>1, FailTypes DEF RunnerTypes, TypeOK
    <3>2. CASE pc' = "top" /\ UNCHANGED <<lease, result>>
      BY <3>2 DEF RunnerTypes, TypeOK
    <3> QED BY <1>6, <3>1, <3>2 DEF BoundedTerminal
  <2>4. UNCHANGED <<leader, status, helper, holds, written, surprises, wait, ctx, timer, mode,
                    tearing, quiet, grace, frame, driver, partial, rd, captured, queued>>
    BY <1>6 DEF BoundedTerminal
  <2> QED BY <2>1, <2>2, <2>3, <2>4, RequestTypes DEF Timers, RunnerTypes, TypeOK, GroupTypeOK
<1>7. CASE BoundedVerify
  <2>1. /\ pc' = "done"
        /\ result'.kind \in {"none", "observation", "failure"} /\ result'.succeeded \in BOOLEAN
        /\ lease' \in {"none", "made", "held", "closed", "bound"}
    BY <1>7, BoundedReports, ReportedTypes, FailTypes DEF CloseLease, RunnerTypes, TypeOK
  <2>2. UNCHANGED <<groupVars, ioVars, loopVars, sessionVars, rd, captured, queued>>
    BY <1>7 DEF BoundedVerify
  <2> QED BY <2>1, <2>2 DEF RunnerTypes, TypeOK, GroupTypeOK
<1> QED BY <1>1, <1>2, <1>3, <1>4, <1>5, <1>6, <1>7
LEMMA ConverseTypesKept ==
  ASSUME RunnerTypes,
         ConverseTop \/ ConverseResults \/ ConverseTimers \/ ConverseVerify
  PROVE  RunnerTypes'
<1>1. CASE ConverseTop
  <2>1. /\ pc' \in {"verify", "select"} /\ sig' \subseteq SignalFacts
        /\ tearing' \in BOOLEAN /\ disposed' \in BOOLEAN /\ cancelled' \in BOOLEAN
        /\ inClosed' \in BOOLEAN /\ budget' \in Timers /\ quiet' \in Timers
        /\ wait' \in {"no", "running", "ready", "taken"}
    BY <1>1, DrainTypes DEF ConverseTop, BeginTeardown, Timers, RunnerTypes, TypeOK, GroupTypeOK
  <2>2. UNCHANGED <<groupVars, stdin, ctx, timer, mode, grace, requests, killedOnce, frame,
                    driver, partial, rd, captured, queued, lease, result>>
    BY <1>1 DEF ConverseTop
  <2> QED BY <2>1, <2>2 DEF RunnerTypes, TypeOK, GroupTypeOK
<1>2. CASE ConverseResults
  <2>1. /\ tearing' \in BOOLEAN /\ cancelled' \in BOOLEAN /\ inClosed' \in BOOLEAN
        /\ budget' \in Timers /\ quiet' \in Timers
        /\ wait' \in {"no", "running", "ready", "taken"}
    <3>1. CASE BeginTeardown
      BY <3>1 DEF BeginTeardown, Timers
    <3>2. CASE wait' = TakeWait /\ UNCHANGED <<tearing, cancelled, inClosed, budget, quiet>>
      BY <3>2, DrainTypes DEF RunnerTypes, TypeOK, GroupTypeOK
    <3> QED BY <1>2, <3>1, <3>2 DEF ConverseResults
  <2>4. pc' = "top" /\ sig' \subseteq SignalFacts
    BY <1>2, DrainTypes DEF ConverseResults, RunnerTypes, TypeOK
  <2>5. driver' \in {"driving", "sending", "ok", "error", "tookOk", "tookError"}
    BY <1>2 DEF ConverseResults, RunnerTypes, TypeOK
  <2>2. /\ rd' \in [Streams -> {"reading", "ended", "failed", "cut", "taken", "joined"}]
        /\ lease' \in {"none", "made", "held", "closed", "bound"}
    BY <1>2, DrainTypes DEF ConverseResults
  <2>3. UNCHANGED <<groupVars, stdin, ctx, timer, mode, disposed, grace, requests, killedOnce,
                    frame, partial, captured, queued, result>>
    BY <1>2 DEF ConverseResults
  <2> QED BY <2>1, <2>2, <2>3, <2>4, <2>5 DEF RunnerTypes, TypeOK, GroupTypeOK
<1>3. CASE ConverseTimers
  <2>1. /\ pending' \subseteq {"SIGTERM", "SIGKILL"}
        /\ requests' \in Seq(Reasons) /\ disposed' \in BOOLEAN
    <3>1. CASE ConverseSignal("SIGTERM", "teardown")
      BY <3>1, ConverseSignalTypes DEF Reasons
    <3>2. CASE ConverseSignal("SIGKILL", "teardownEscalation")
      BY <3>2, ConverseSignalTypes DEF Reasons
    <3>3. CASE UNCHANGED <<pending, requests, disposed>>
      BY <3>3 DEF RunnerTypes, TypeOK, GroupTypeOK
    <3> QED BY <1>3, <3>1, <3>2, <3>3 DEF ConverseTimers
  <2>2. /\ pc' = "top" /\ quiet' \in Timers /\ grace' \in Timers /\ killedOnce' \in BOOLEAN
    BY <1>3 DEF ConverseTimers, Timers, RunnerTypes, TypeOK
  <2>3. UNCHANGED <<leader, status, helper, holds, written, surprises, ioVars, mode, sig, tearing,
                    budget, frame, cancelled, driver, partial, rd, captured, queued, lease,
                    result>>
    BY <1>3 DEF ConverseTimers
  <2> QED BY <2>1, <2>2, <2>3, RequestTypes DEF RunnerTypes, TypeOK, GroupTypeOK
<1>4. CASE ConverseVerify
  <2>1. /\ pc' = "done"
        /\ result'.kind \in {"none", "observation", "failure"} /\ result'.succeeded \in BOOLEAN
        /\ lease' \in {"none", "made", "held", "closed", "bound"}
    BY <1>4, ConverseReports, ReportedTypes, FailTypes DEF RunnerTypes, TypeOK
  <2>2. sig' \subseteq SignalFacts
    BY <1>4 DEF ConverseVerify, SignalFacts, RunnerTypes, TypeOK
  <2>3. UNCHANGED <<groupVars, ioVars, mode, tearing, budget, disposed, sessionVars, rd,
                    captured, queued>>
    BY <1>4 DEF ConverseVerify
  <2> QED BY <2>1, <2>2, <2>3 DEF RunnerTypes, TypeOK, GroupTypeOK
<1> QED BY <1>1, <1>2, <1>3, <1>4

-----------------------------------------------------------------------------
(* What the environment may do to a running loop: it never undoes what the *)
(* runner knows of the group.                                              *)

(* The group only shrinks once it is doomed, and absence is for good.      *)
LEMMA GroupShrinks ==
  ASSUME RunnerTypes, Kernel,
         GroupStep \/ StdinWritten \/ CopyStdinEnds \/ Wait \/ ContextEnds \/ RequestTimeout
  PROVE  /\ Doomed => Doomed'
         /\ Absent /\ leader # "none" => Absent' /\ leader' # "none"
         /\ leader # "none" => leader' # "none"
         /\ leader # "live" => leader' # "live" /\ written' = written
         /\ leader = "none" /\ helper = "none" => leader' = "none" /\ helper' = "none"
         /\ written <= written'
<1> USE DEF Doomed, Absent, LiveMembers, HelperIn
<1>0. written \in Nat
  BY DEF RunnerTypes, TypeOK, GroupTypeOK
<1>1. CASE ChildWrites /\ UNCHANGED ioVars
  <2>1. leader = "live" /\ written' = written + 1 /\ UNCHANGED <<leader, helper, pending>>
    BY <1>1 DEF ChildWrites
  <2> QED BY <1>0, <2>1
<1>2. ASSUME NEW kept \in {{}, Streams}, NEW where \in {"live", "escaped"},
             ChildForks(kept, where), UNCHANGED ioVars
      PROVE  /\ Doomed => Doomed'
             /\ leader = "live" /\ leader' = "live" /\ written' = written
  BY <1>2 DEF ChildForks, RunnerTypes, TypeOK, GroupTypeOK
<1>3. ASSUME NEW code \in Statuses, ChildEnds(code), UNCHANGED ioVars
      PROVE  /\ Doomed => Doomed'
             /\ leader = "live" /\ leader' = "zombie" /\ written' = written
  BY <1>3 DEF ChildEnds, RunnerTypes, TypeOK, GroupTypeOK
<1>4. CASE HelperEnds /\ UNCHANGED ioVars
  BY <1>4 DEF HelperEnds, RunnerTypes, TypeOK, GroupTypeOK
<1>5. CASE UNCHANGED <<leader, helper, pending, written>>
  BY <1>0, <1>5
<1>6. StdinWritten \/ CopyStdinEnds \/ ContextEnds \/ RequestTimeout =>
        UNCHANGED <<leader, helper, pending, written>>
  BY DEF StdinWritten, CopyStdinEnds, ContextEnds, RequestTimeout
<1>7. CASE Wait
  <2>1. leader = "zombie" /\ leader' = "reaped" /\ UNCHANGED <<helper, pending, written>>
    BY <1>7 DEF Wait
  <2> QED BY <1>0, <2>1
<1>8. CASE \E kept \in {{}, Streams}, where \in {"live", "escaped"} :
              ChildForks(kept, where) /\ UNCHANGED ioVars
  BY <1>0, <1>2, <1>8
<1>9. CASE \E code \in Statuses : ChildEnds(code) /\ UNCHANGED ioVars
  BY <1>0, <1>3, <1>9
<1> QED BY <1>1, <1>4, <1>5, <1>6, <1>7, <1>8, <1>9 DEF GroupStep
(* Goroutine results only become ready; nothing of the loop moves.         *)
LEMMA KernelFrame ==
  ASSUME Kernel,
         GroupStep \/ StdinWritten \/ CopyStdinEnds \/ Wait \/ ContextEnds \/ RequestTimeout
  PROVE  /\ UNCHANGED runVars /\ pc \notin {"top", "done"}
         /\ wait' = wait \/ (wait = "running" /\ wait' = "ready")
         /\ stdin = "taken" => stdin' = "taken"
<1>1. UNCHANGED runVars /\ pc \notin {"top", "done"}
  BY DEF Kernel
<1>2. /\ wait' = wait \/ (wait = "running" /\ wait' = "ready")
      /\ stdin = "taken" => stdin' = "taken"
  BY DEF GroupStep, StdinWritten, CopyStdinEnds, Wait, ContextEnds, RequestTimeout
<1> QED BY <1>1, <1>2

LEMMA KernelKeeps ==
  ASSUME RunnerTypes, Running, Kernel,
         GroupStep \/ StdinWritten \/ CopyStdinEnds \/ Wait \/ ContextEnds \/ RequestTimeout
  PROVE  Running'
<1>1. /\ UNCHANGED runVars /\ pc \notin {"top", "done"}
      /\ wait' = wait \/ (wait = "running" /\ wait' = "ready")
      /\ stdin = "taken" => stdin' = "taken"
  BY KernelFrame
<1>2. /\ Doomed => Doomed'
      /\ Absent /\ leader # "none" => Absent' /\ leader' # "none"
      /\ leader # "none" => leader' # "none"
      /\ leader # "live" => leader' # "live" /\ written' = written
      /\ leader = "none" /\ helper = "none" => leader' = "none" /\ helper' = "none"
      /\ written <= written'
  BY GroupShrinks
<1>3. Beginning'
  BY <1>1, <1>2 DEF Running, Beginning
<1>4. OutputCounted'
  <2>1. written \in Nat /\ written' \in Nat /\ captured \in Nat /\ queued \in Nat
    BY GroupTypesKept DEF RunnerTypes, TypeOK, GroupTypeOK
  <2> QED BY <1>1, <1>2, <2>1 DEF Running, OutputCounted
<1>5. OutputOwned' /\ ModeOnly'
  BY <1>1 DEF Running, OutputOwned, ModeOnly
<1>6. GroupKnown'
  <2>1. disposed => leader # "none"
    BY <1>1 DEF Running, Beginning, RunnerTypes, TypeOK
  <2> QED BY <1>1, <1>2, <2>1 DEF Running, GroupKnown
<1>7. StopOrder'
  BY <1>1 DEF Running, StopOrder
<1>8. AtVerify'
  BY <1>1 DEF Running, AtVerify, DriverOver
<1> QED BY <1>3, <1>4, <1>5, <1>6, <1>7, <1>8 DEF Running
(* What every step of a reader, a producer or the spool leaves alone, and  *)
(* that it happens while the loop waits.                                   *)
ReaderFrame ==
  /\ UNCHANGED <<leader, helper, pending, written, ioVars, loopVars, sessionVars, pc, result>>
  /\ pc \in {"select", "verify"} /\ lease' \in {lease, "made"}

LEMMA ReadersFrame ==
  ASSUME \/ ReadChunk \/ SpoolEnds
         \/ \E s \in Streams :
              StreamEnds(s) \/ CaptureFault(s) \/ ReadDeadline(s) \/ ProducerEnds(s)
  PROVE  ReaderFrame
<1>1. CASE ReadChunk
  BY <1>1 DEF ReadChunk, Started, ReaderFrame
<1>2. CASE SpoolEnds
  BY <1>2 DEF SpoolEnds, Started, ReaderFrame
<1>3. ASSUME NEW s \in Streams, StreamEnds(s)
      PROVE  ReaderFrame
  BY <1>3 DEF StreamEnds, Started, ReaderFrame
<1>4. ASSUME NEW s \in Streams, StreamFails(s)
      PROVE  ReaderFrame
  BY <1>4 DEF StreamFails, Started, ReaderFrame
<1>5. ASSUME NEW s \in Streams, ProducerEnds(s)
      PROVE  ReaderFrame
  BY <1>5 DEF ProducerEnds, Started, ReaderFrame
<1> QED BY <1>1, <1>2, <1>3, <1>4, <1>5 DEF CaptureFault, ReadDeadline

(* How stdout may move under them.                                         *)
OutputStep ==
  \/ /\ rd' = rd /\ lease' = lease /\ rd["out"] = "reading"
     /\ mode = "bounded" /\ captured + queued < written
     /\ queued' = queued + 1 /\ captured' = captured
  \/ /\ rd' = rd /\ lease' = lease /\ rd["out"] = "reading"
     /\ mode # "bounded" /\ captured < written
     /\ captured' = captured + 1 /\ queued' \in {queued, queued + 1}
  \/ mode = "bounded" /\ lease = "none" /\ rd' = rd /\ UNCHANGED <<captured, queued>>
  \/ /\ rd["out"] = "reading" /\ UNCHANGED <<captured, queued>>
     /\ rd' = [rd EXCEPT !["out"] = "ended"] /\ leader # "live"
     /\ IF mode = "bounded" THEN captured + queued = written
                            ELSE captured = written /\ lease' = "made"
  \/ /\ rd["out"] = "reading" /\ UNCHANGED <<captured, queued>>
     /\ rd' = [rd EXCEPT !["out"] = "failed"]
  \/ /\ rd["out"] = "reading" /\ UNCHANGED <<captured, queued>>
     /\ mode = "bounded" /\ cancelled
     /\ rd' = [rd EXCEPT !["out"] = "cut"]
  \/ \E r : /\ rd["err"] = "reading" /\ UNCHANGED <<captured, queued, lease>>
            /\ rd' = [rd EXCEPT !["err"] = r]

LEMMA OutputSteps ==
  ASSUME \/ ReadChunk \/ SpoolEnds
         \/ \E s \in Streams :
              StreamEnds(s) \/ CaptureFault(s) \/ ReadDeadline(s) \/ ProducerEnds(s)
  PROVE  OutputStep
<1>1. CASE ReadChunk
  BY <1>1 DEF ReadChunk, OutputStep
<1>2. CASE SpoolEnds
  BY <1>2 DEF SpoolEnds, OutputStep
<1>3. ASSUME NEW s \in Streams, StreamEnds(s)
      PROVE  OutputStep
  BY <1>3 DEF StreamEnds, PipeOpen, Streams, OutputStep
<1>4. ASSUME NEW s \in Streams, StreamFails(s)
      PROVE  OutputStep
  BY <1>4 DEF StreamFails, Streams, OutputStep
<1>5. ASSUME NEW s \in Streams, ProducerEnds(s)
      PROVE  OutputStep
  BY <1>5 DEF ProducerEnds, PipeOpen, Streams, OutputStep
<1> QED BY <1>1, <1>2, <1>3, <1>4, <1>5 DEF CaptureFault, ReadDeadline

LEMMA ReadersKeep ==
  ASSUME RunnerTypes, Running, RunnerTypes', ReaderFrame, OutputStep
  PROVE  Running'
<1>1. /\ written \in Nat /\ captured \in Nat /\ queued \in Nat
      /\ rd \in [Streams -> {"reading", "ended", "failed", "cut", "taken", "joined"}]
  BY DEF RunnerTypes, TypeOK, GroupTypeOK
<1>2. pc = "select"
  BY DEF Running, AtVerify, ReaderFrame, OutputStep, Streams
<1>3. Beginning'
  BY <1>2 DEF Running, Beginning, ReaderFrame
<1>4. OutputCounted'
  BY <1>1 DEF Running, OutputCounted, ReaderFrame, OutputStep, Streams
<1>5. OutputOwned'
  BY <1>1 DEF Running, OutputOwned, ReaderFrame, OutputStep, Streams
<1>6. ModeOnly'
  BY DEF Running, ModeOnly, ReaderFrame
<1>7. GroupKnown'
  BY DEF Running, GroupKnown, ReaderFrame, Doomed, Absent, LiveMembers, HelperIn
<1>8. StopOrder'
  BY <1>1 DEF Running, StopOrder, ReaderFrame, OutputStep, Streams
<1>9. AtVerify'
  BY <1>2 DEF AtVerify, ReaderFrame
<1> QED BY <1>3, <1>4, <1>5, <1>6, <1>7, <1>8, <1>9 DEF Running

(* What the driver and the timers leave alone.                             *)
DriverFrame ==
  /\ UNCHANGED <<leader, helper, pending, written, stdin, wait, mode, sig, tearing, disposed,
                 requests, killedOnce, frame, cancelled, pc, rd, captured, lease, result>>
  /\ pc \in {"select", "verify"}
  /\ \/ queued' = queued
     \/ mode = "converse" /\ queued > 0 /\ queued' = queued - 1
  /\ partial' # partial => mode = "converse"
  /\ driver \in {"tookOk", "tookError"} => driver' = driver
  /\ budget' # budget => budget = "armed"
  /\ grace' # grace => grace = "armed"

LEMMA DriversFrame ==
  ASSUME \/ DriverStep \/ SendCut \/ \E o \in {"ok", "error"} : DriverReturns(o)
         \/ BudgetExpires \/ GraceExpires
  PROVE  DriverFrame
<1>1. CASE DriverStep
  BY <1>1 DEF DriverStep, Conversing, Started, DriverFrame
<1>2. CASE SendCut
  BY <1>2 DEF SendCut, Conversing, Started, DriverFrame
<1>3. ASSUME NEW o, DriverReturns(o)
      PROVE  DriverFrame
  BY <1>3 DEF DriverReturns, Conversing, Started, DriverFrame
<1>4. CASE BudgetExpires
  BY <1>4 DEF BudgetExpires, Started, DriverFrame
<1>5. CASE GraceExpires
  BY <1>5 DEF GraceExpires, Started, DriverFrame
<1> QED BY <1>1, <1>2, <1>3, <1>4, <1>5

LEMMA DriverKeeps ==
  ASSUME RunnerTypes, Running, DriverFrame
  PROVE  Running'
<1>1. Beginning'
  BY DEF Running, Beginning, DriverFrame
<1>2. OutputCounted'
  <2>1. written \in Nat /\ captured \in Nat /\ queued \in Nat
    BY DEF RunnerTypes, TypeOK, GroupTypeOK
  <2>2. CASE queued' = queued
    BY <2>2 DEF Running, OutputCounted, DriverFrame
  <2>3. CASE mode = "converse" /\ queued > 0 /\ queued' = queued - 1
    BY <2>1, <2>3 DEF Running, OutputCounted, DriverFrame
  <2> QED BY <2>2, <2>3 DEF DriverFrame
<1>3. OutputOwned' /\ ModeOnly'
  BY DEF Running, OutputOwned, ModeOnly, DriverFrame
<1>4. GroupKnown'
  BY DEF Running, GroupKnown, Doomed, Absent, LiveMembers, HelperIn, DriverFrame
<1>5. StopOrder'
  BY DEF Running, StopOrder, DriverFrame
<1>6. AtVerify'
  BY DEF Running, AtVerify, DriverOver, DriverFrame
<1> QED BY <1>1, <1>2, <1>3, <1>4, <1>5, <1>6 DEF Running
-----------------------------------------------------------------------------
(* What a return owes its caller.                                          *)

(* A failure settles everything when no member of the group is left        *)
(* unsignalled: it reports nothing and closes the lease the runner holds.  *)
LEMMA FailureSettles ==
  ASSUME Running, NEW why, Fail(why), UNCHANGED <<leader, helper, mode>>,
         mode = "bounded" \/ LiveMembers = 0 \/ "SIGKILL" \in pending',
         RunnerTypes
  PROVE  Settled'
<1>1. /\ result'.kind = "failure" /\ ~result'.succeeded
      /\ lease' = IF lease = "held" THEN "closed" ELSE lease
  BY FailTypes
<1>2. lease' \notin {"held", "bound"}
  BY <1>1 DEF Running, Beginning
<1>3. LiveMembers' = LiveMembers
  BY DEF LiveMembers, HelperIn
<1>4. ObservationIsEarned'
  BY <1>1 DEF ObservationIsEarned, ObservationIsFinal, SuccessIsEarned
<1>5. NothingLeftBehind'
  BY <1>1, <1>2, <1>3 DEF NothingLeftBehind, NoUnsignalledSurvivor, LeaseSettled, Returned
<1> QED BY <1>4, <1>5 DEF Settled

(* An observation settles everything when the execution is over, the lease *)
(* is decided and a success is a success of all of the output.             *)
LEMMA ObservationSettles ==
  ASSUME NEW code, NEW succeeded \in BOOLEAN, NEW l, Reported(code, succeeded, l),
         UNCHANGED <<leader, helper, wait, stdin, rd, mode, driver, pending, frame, captured,
                     written, partial, requests>>,
         Absent, wait = "taken", stdin = "taken",
         \A s \in Streams : rd[s] \in {"taken", "joined"},
         mode = "converse" => DriverOver,
         succeeded => l = "bound", l \in {"closed", "bound"},
         succeeded =>
           /\ sig' = {} /\ ~partial
           /\ \/ code = "zero" /\ (captured = written \/ (frame # 0 /\ captured = frame))
              \/ /\ mode = "bounded" /\ frame # 0 /\ captured = frame
                 /\ requests # <<>> /\ requests[1] = "postOutput"
  PROVE  Settled'
<1>1. /\ lease' = l /\ result'.kind = "observation" /\ result'.code = code
      /\ result'.succeeded = succeeded
  BY ReportedTypes
<1>2. Absent' /\ LiveMembers' = 0
  BY DEF Absent, LiveMembers, HelperIn
<1>3. ObservationIsFinal'
  BY <1>2 DEF ObservationIsFinal, DriverOver
<1>4. SuccessIsEarned'
  BY <1>1 DEF SuccessIsEarned
<1>5. NoUnsignalledSurvivor' /\ LeaseSettled'
  BY <1>1, <1>2 DEF NoUnsignalledSurvivor, LeaseSettled
<1> QED BY <1>3, <1>4, <1>5 DEF Settled, ObservationIsEarned, NothingLeftBehind

-----------------------------------------------------------------------------
(* Before and around child.Start.                                          *)

LEMMA StartKeeps ==
  ASSUME RunnerTypes, Running, Start \/ StartedFault
  PROVE  Running' /\ pc' # "done"
<1>1. /\ leader' = "live" /\ pc' \in {"top", "cleanup"} /\ pc = "start"
      /\ pc' = "cleanup" => pending' = {"SIGKILL"}
      /\ pc' # "cleanup" => wait' = "no" \/ mode = "bounded"
      /\ UNCHANGED <<helper, written, stdin, loopVars, sessionVars, rd, captured, queued, lease,
                     result>>
  BY DEF Start, StartedFault, Running, Beginning
<1>2. Beginning'
  BY <1>1 DEF Running, Beginning, Doomed
<1>3. OutputCounted'
  BY <1>1 DEF Running, OutputCounted, Beginning
<1>4. OutputOwned' /\ ModeOnly'
  BY <1>1 DEF Running, OutputOwned, ModeOnly
<1>5. GroupKnown'
  BY <1>1 DEF Running, Beginning, GroupKnown, Doomed
<1>6. StopOrder'
  BY <1>1 DEF Running, StopOrder
<1>7. AtVerify'
  BY <1>1 DEF AtVerify
<1> QED BY <1>1, <1>2, <1>3, <1>4, <1>5, <1>6, <1>7 DEF Running

LEMMA StartReturns ==
  ASSUME RunnerTypes, Running, NotStarted \/ CleanupStartedChild
  PROVE  Settled' /\ pc' = "done"
<1>1. CASE NotStarted
  <2>1. PICK why : Return("observation", why, "none", FALSE, lease)
    BY <1>1 DEF NotStarted
  <2>2. UNCHANGED <<leader, helper>> /\ leader = "none" /\ helper = "none" /\ lease = "none"
    BY <1>1 DEF NotStarted, Running, Beginning
  <2>3. /\ result'.kind = "observation" /\ ~result'.succeeded /\ lease' = "none" /\ pc' = "done"
    BY <2>1, <2>2 DEF Return
  <2>4. ObservationIsEarned'
    BY <2>2, <2>3 DEF ObservationIsEarned, ObservationIsFinal, SuccessIsEarned
  <2>5. NothingLeftBehind'
    BY <2>2, <2>3 DEF NothingLeftBehind, NoUnsignalledSurvivor, LeaseSettled, LiveMembers,
       HelperIn
  <2> QED BY <2>3, <2>4, <2>5 DEF Settled
<1>2. CASE CleanupStartedChild
  <2>1. /\ Fail("observationInvalid") /\ UNCHANGED <<leader, helper, mode, pending>>
        /\ pc = "cleanup"
    BY <1>2 DEF CleanupStartedChild
  <2>2. LiveMembers = 0 \/ "SIGKILL" \in pending'
    BY <2>1 DEF Running, Beginning, Doomed
  <2> QED BY <2>1, <2>2, FailureSettles, FailTypes
<1> QED BY <1>1, <1>2
-----------------------------------------------------------------------------
(* Direct mode.                                                            *)

(* Running depends on the group and the child's channels through Doomed    *)
(* and Absent; what the code before a select does to them:                 *)
LEMMA DirectTopFacts ==
  ASSUME RunnerTypes, Running, DirectTop
  PROVE  /\ mode = "direct" /\ pc = "top" /\ pc' \in {"select", "verify"}
         /\ UNCHANGED <<leader, helper, written, mode, frame, partial, cancelled, captured,
                        queued, result>>
         /\ sig \cup StreamFacts \subseteq sig'
         /\ rd' = Drain /\ lease' = HoldLease(lease)
         /\ stdin = "taken" => stdin' = "taken"
         /\ tearing' \/ disposed' => Doomed'
         /\ wait' # "no" => disposed'
         /\ pc' = "verify" => /\ wait' = "taken" /\ stdin' = "taken"
                              /\ \A s \in Streams : rd'[s] = "taken"
<1>1. /\ mode = "direct" /\ pc = "top" /\ pc' \in {"select", "verify"}
      /\ UNCHANGED <<leader, helper, written, mode, frame, partial, cancelled, captured,
                     queued, result>>
      /\ rd' = Drain /\ lease' = HoldLease(lease) /\ stdin' = TakeStdin
  BY DEF DirectTop
<1>2. sig \cup StreamFacts \subseteq sig'
  BY DEF DirectTop
<1>3. pending \subseteq pending' /\ pending' \in {pending, Signalled("SIGKILL")}
  BY DEF DirectTop, Signalled
<1>4. \/ tearing' = tearing /\ (disposed' => disposed \/ LeaderExitedWithNoLiveMembers)
      \/ pending' = Signalled("SIGKILL")
  <2>1. CASE pending' = pending
    BY <2>1 DEF DirectTop, RunnerTypes, TypeOK
  <2>2. CASE pending' # pending
    BY <2>2 DEF DirectTop
  <2> QED BY <2>1, <2>2
<1>5. tearing' \/ disposed' => Doomed'
  <2>1. leader # "none"
    BY <1>1 DEF Running, Beginning
  <2>2. LiveMembers' = LiveMembers /\ LiveMembers \in 0..2
    BY <1>1, KillFacts DEF LiveMembers, HelperIn, RunnerTypes, TypeOK
  <2>3. Doomed => Doomed'
    BY <1>1, <1>3, <2>2 DEF Doomed
  <2>4. CASE pending' = Signalled("SIGKILL")
    BY <1>1, <2>1, <2>2, <2>4 DEF Doomed, Signalled
  <2>5. CASE tearing' = tearing /\ (disposed' => disposed \/ LeaderExitedWithNoLiveMembers)
    BY <1>1, <2>1, <2>2, <2>3, <2>5 DEF Running, GroupKnown, LeaderExitedWithNoLiveMembers, Doomed
  <2> QED BY <1>4, <2>4, <2>5
<1>6. wait' # "no" => disposed'
  <2>1. wait # "no" => disposed
    BY <1>1 DEF Running, GroupKnown
  <2>2. disposed => disposed'
    BY DEF DirectTop
  <2>3. wait = "no" /\ ~disposed' => wait' = "no"
    BY DEF DirectTop, TakeWait
  <2> QED BY <2>1, <2>2, <2>3 DEF RunnerTypes, TypeOK
<1>7. pc' = "verify" => /\ TakeWait = "taken" /\ TakeStdin = "taken"
                        /\ \A s \in Streams : Drain[s] = "taken"
  BY DEF DirectTop
<1>8. TakeWait = "taken" /\ pc' = "verify" => wait' = "taken"
  BY DEF DirectTop, TakeWait
<1>9. stdin = "taken" => TakeStdin = "taken"
  BY DEF TakeStdin
<1> QED BY <1>1, <1>2, <1>5, <1>6, <1>7, <1>8, <1>9

(* Draining takes a stdout that ended and records a stdout that failed.    *)
LEMMA DrainedOutput ==
  ASSUME RunnerTypes
  PROVE  /\ Drain["out"] \in {"reading", "taken"}
         /\ Drain["out"] = "taken" => rd["out"] # "reading"
         /\ rd["out"] = "failed" => "internal" \in StreamFacts
         /\ \A s \in Streams : rd[s] = "taken" => Drain[s] = "taken"
  BY DEF Drain, StreamFacts, Streams

LEMMA DirectTopKeeps ==
  ASSUME RunnerTypes, Running, DirectTop
  PROVE  Running' /\ pc' # "done"
<1> USE DirectTopFacts
<1>1. Beginning'
  BY DEF Running, Beginning, HoldLease
<1>2. OutputCounted'
  BY DrainedOutput DEF Running, OutputCounted, RunnerTypes, TypeOK, Streams
<1>3. OutputOwned'
  BY DrainedOutput DEF Running, OutputOwned, OutputCounted, HoldLease, RunnerTypes, TypeOK, Streams
<1>4. ModeOnly'
  BY DEF Running, ModeOnly
<1>5. GroupKnown'
  BY DEF GroupKnown
<1>6. StopOrder'
  BY DEF StopOrder
<1>7. AtVerify'
  BY DEF AtVerify
<1> QED BY <1>1, <1>2, <1>3, <1>4, <1>5, <1>6, <1>7 DEF Running

(* The select either goes round again or reports that the teardown budget  *)
(* is spent; a teardown has signalled whatever lives.                      *)
LEMMA DirectSelectKeeps ==
  ASSUME RunnerTypes, Running, DirectSelect
  PROVE  \/ Running' /\ pc' # "done"
         \/ Settled' /\ pc' = "done"
<1>1. /\ UNCHANGED <<groupVars, stdin, wait, loopVars, sessionVars, rd, captured, queued>>
      /\ mode = "direct" /\ pc = "select"
  BY DEF DirectSelect
<1>2. CASE pc' = "top" /\ UNCHANGED <<lease, result>>
  <2>1. Beginning' /\ OutputCounted' /\ OutputOwned' /\ ModeOnly'
    BY <1>1, <1>2 DEF Running, Beginning, OutputCounted, OutputOwned, ModeOnly
  <2>2. GroupKnown' /\ StopOrder' /\ AtVerify'
    BY <1>1, <1>2 DEF Running, GroupKnown, StopOrder, AtVerify, Doomed, Absent, LiveMembers,
       HelperIn
  <2> QED BY <1>2, <2>1, <2>2 DEF Running
<1>3. CASE tearing /\ Fail("teardownTimeout")
  <2>1. Doomed
    BY <1>1, <1>3 DEF Running, GroupKnown
  <2> QED BY <1>1, <1>3, <2>1, FailureSettles, FailTypes DEF Doomed
<1> QED BY <1>2, <1>3 DEF DirectSelect

(* After the loop everything has been taken, so an observation made of an  *)
(* absent group is final; its stdout is complete unless a fault of the     *)
(* readers was recorded, and then nothing is observed.                     *)
LEMMA DirectVerifyKeeps ==
  ASSUME RunnerTypes, Running, DirectVerify
  PROVE  Settled' /\ pc' = "done"
<1>1. /\ UNCHANGED <<groupVars, ioVars, mode, sessionVars, rd, captured, queued>>
      /\ mode = "direct" /\ pc = "verify" /\ sig \subseteq sig' /\ sig' \subseteq SignalFacts
  BY DrainTypes DEF DirectVerify, RunnerTypes, TypeOK
<1>2. Doomed /\ wait = "taken" /\ stdin = "taken"
  BY <1>1 DEF Running, GroupKnown, AtVerify
<1>3. CASE \E why : Fail(why)
  BY <1>1, <1>2, <1>3, FailureSettles, FailTypes DEF Doomed
<1>4. CASE /\ Absent /\ "internal" \notin sig'
           /\ \E code \in ExitCodes(status), succeeded \in BOOLEAN :
                /\ Reported(code, succeeded, IF succeeded THEN "bound" ELSE CloseLease(lease))
                /\ succeeded => code = "zero" /\ Termination(sig') \in {"none", "exited"}
  <2>1. PICK code \in ExitCodes(status), succeeded \in BOOLEAN :
          /\ Reported(code, succeeded, IF succeeded THEN "bound" ELSE CloseLease(lease))
          /\ succeeded => code = "zero" /\ Termination(sig') \in {"none", "exited"}
    BY <1>4
  <2>2. rd["out"] = "taken" /\ \A s \in Streams : rd[s] \in {"taken", "joined"}
    BY <1>1 DEF Running, AtVerify, OutputCounted, Streams
  <2>3. captured = written /\ lease = "held"
    BY <1>1, <1>4, <2>2 DEF Running, OutputCounted, OutputOwned
  <2>4. CloseLease(lease) = "closed"
    BY <2>3 DEF CloseLease
  <2>5. succeeded => sig' = {}
    BY <1>1, <1>4, <2>1, TerminationFacts
  <2>6. ~partial
    BY <1>1 DEF Running, ModeOnly
  <2>7. PICK l : l = IF succeeded THEN "bound" ELSE CloseLease(lease)
    OBVIOUS
  <2>8. Reported(code, succeeded, l) /\ (succeeded => l = "bound") /\ l \in {"closed", "bound"}
    BY <2>1, <2>4, <2>7
  <2> QED BY <1>1, <1>2, <1>4, <2>1, <2>2, <2>3, <2>5, <2>6, <2>8, ObservationSettles,
             ReportedTypes
<1> QED BY <1>3, <1>4, DirectReports
-----------------------------------------------------------------------------
(* Bounded mode.                                                           *)

(* What the send closure does with a signal: nothing once the group is     *)
(* known to be gone; otherwise an accepted signal is one more request, and *)
(* one that is not accepted leaves the group known absent or a fault.      *)
LEMMA SendFacts ==
  ASSUME RunnerTypes, NEW signal, NEW reason, NEW facts, Send(signal, reason, facts)
  PROVE  /\ facts \subseteq sig'
         /\ disposed' => disposed \/ Absent
         /\ \/ requests' = requests /\ (disposed' \/ "internal" \in sig')
            \/ requests' = Append(requests, reason) /\ ~disposed
<1>1. CASE disposed
  BY <1>1 DEF Send
<1>2. CASE ~disposed
  <2>1. /\ requests' = IF KillOutcome = "ok" THEN Append(requests, reason) ELSE requests
        /\ disposed' = (KillOutcome = "ESRCH")
        /\ sig' = facts \cup (IF KillOutcome = "EPERM" THEN {"internal"} ELSE {})
    BY <1>2 DEF Send
  <2>2. KillOutcome \in {"ok", "EPERM", "ESRCH"} /\ (KillOutcome = "ESRCH" => Absent)
    BY KillFacts DEF RunnerTypes, TypeOK
  <2> QED BY <1>2, <2>1, <2>2
<1> QED BY <1>1, <1>2

(* The first request stays the first.                                      *)
LEMMA FirstRequest ==
  ASSUME RunnerTypes, NEW reason \in Reasons, requests' = Append(requests, reason)
  PROVE  /\ requests' # requests /\ requests' # <<>>
         /\ requests = <<>> => requests'[1] = reason
         /\ requests # <<>> => requests'[1] = requests[1]
<1>1. requests \in Seq(Reasons) /\ Len(requests) \in Nat
  BY DEF RunnerTypes
<1>2. Len(requests') = Len(requests) + 1
  BY <1>1
<1>3. requests' # requests /\ requests' # <<>>
  BY <1>1, <1>2
<1>4. requests = <<>> => requests'[1] = reason
  BY <1>1
<1>5. requests # <<>> => requests'[1] = requests[1]
  BY <1>1
<1> QED BY <1>3, <1>4, <1>5

(* What the bounded loop's own steps leave alone.                          *)
BoundedFrame ==
  /\ UNCHANGED <<leader, helper, written, mode, partial>>
  /\ mode = "bounded" /\ pc \in {"top", "select"} /\ pc' \in {"top", "select", "verify"}

(* A step that leaves the output alone and respects the order of the stop. *)
LEMMA BoundedStops ==
  ASSUME RunnerTypes, Running, BoundedFrame,
         UNCHANGED <<rd, captured, queued, frame, lease, result>>,
         sig \subseteq sig', disposed' => disposed \/ Absent, StopOrder', AtVerify'
  PROVE  Running'
<1> USE DEF BoundedFrame
<1>1. Beginning'
  BY DEF Running, Beginning
<1>2. OutputCounted' /\ OutputOwned' /\ ModeOnly'
  BY DEF Running, OutputCounted, OutputOwned, ModeOnly
<1>3. GroupKnown'
  BY DEF Running, GroupKnown, Absent, HelperIn
<1> QED BY <1>1, <1>2, <1>3 DEF Running

LEMMA BoundedTopKeeps ==
  ASSUME RunnerTypes, Running, BoundedTop
  PROVE  Running' /\ pc' # "done"
<1>1. /\ BoundedFrame /\ sig \subseteq sig' /\ pc = "top"
      /\ UNCHANGED <<rd, captured, queued, frame, lease, result, grace, stdin, wait>>
  <2>1. CASE UNCHANGED sig
    BY <2>1 DEF BoundedTop, BoundedFrame
  <2>2. CASE sig' = sig \cup TerminalFacts
    BY <2>2 DEF BoundedTop, BoundedFrame
  <2>3. CASE Send("SIGKILL", "internalTeardown", sig \cup TerminalFacts)
    BY <2>3, SendFacts DEF BoundedTop, BoundedFrame
  <2> QED BY <2>1, <2>2, <2>3 DEF BoundedTop
<1>2. CASE BoundedDone /\ pc' = "verify"
           /\ UNCHANGED <<sig, tearing, requests, disposed, cancelled>>
  <2>1. StopOrder' /\ AtVerify'
    BY <1>1, <1>2 DEF Running, StopOrder, AtVerify, BoundedDone, Taken, BoundedFrame
  <2> QED BY <1>1, <1>2, <2>1, BoundedStops
<1>3. CASE pc' = "select" /\ UNCHANGED <<tearing, budget, requests, disposed, cancelled>>
  <2>1. StopOrder' /\ AtVerify'
    BY <1>1, <1>3 DEF Running, StopOrder, AtVerify, BoundedFrame
  <2> QED BY <1>1, <1>3, <2>1, BoundedStops
<1>4. CASE /\ sig \cup TerminalFacts # {} /\ ~tearing /\ pc' = "select"
           /\ tearing' = TRUE /\ cancelled' = TRUE
           /\ Send("SIGKILL", "internalTeardown", sig \cup TerminalFacts)
  <2>1. sig' # {} /\ (disposed' => disposed \/ Absent)
    BY <1>4, SendFacts
  <2>2. StopOrder' /\ AtVerify'
    BY <1>1, <1>4, <2>1 DEF Running, StopOrder, AtVerify, BoundedFrame
  <2> QED BY <1>1, <1>4, <2>1, <2>2, BoundedStops
<1> QED BY <1>2, <1>3, <1>4 DEF BoundedTop

(* The goroutines' results: a producer that was cut was cancelled, one     *)
(* that failed leaves a fact, and stdout is taken only when no chunk waits.*)
LEMMA BoundedResultsKeeps ==
  ASSUME RunnerTypes, Running, BoundedResults
  PROVE  Running' /\ pc' # "done"
<1>1. /\ mode = "bounded" /\ pc = "select" /\ pc' = "top" /\ sig \subseteq sig'
      /\ UNCHANGED <<leader, helper, written, mode, partial, captured, queued, frame, result,
                     tearing, requests, disposed, cancelled, grace, budget>>
      /\ lease' = HoldLease(lease)
  BY DEF BoundedResults
<1>2. /\ rd'["out"] = "taken" => \/ rd["out"] = "taken"
                                 \/ rd["out"] = "ended" /\ queued = 0
      /\ rd'["out"] = "ended" => rd["out"] = "ended"
      /\ rd'["out"] \in {"cut", "joined"} =>
           rd["out"] \in {"cut", "joined"} \/ "internal" \in sig'
  <2>1. rd["out"] \in {"reading", "ended", "failed", "cut", "taken", "joined"}
    BY DEF RunnerTypes, TypeOK, Streams
  <2> QED BY <2>1 DEF BoundedResults, Streams
<1>3. Beginning'
  BY <1>1 DEF Running, Beginning, HoldLease
<1>4. OutputCounted'
  BY <1>1, <1>2 DEF Running, OutputCounted
<1>5. OutputOwned' /\ ModeOnly'
  BY <1>1 DEF Running, OutputOwned, ModeOnly
<1>6. GroupKnown'
  BY <1>1 DEF Running, GroupKnown, Absent, HelperIn
<1>7. StopOrder'
  BY <1>1, <1>2 DEF Running, StopOrder
<1>8. AtVerify'
  BY <1>1 DEF AtVerify
<1> QED BY <1>1, <1>3, <1>4, <1>5, <1>6, <1>7, <1>8 DEF Running

(* A chunk is captured, or refused with a fault once the spool is closed.  *)
LEMMA BoundedChunkKeeps ==
  ASSUME RunnerTypes, Running, BoundedChunk
  PROVE  Running' /\ pc' # "done"
<1>1. /\ mode = "bounded" /\ pc = "select" /\ pc' = "top"
      /\ queued > 0 /\ queued' = queued - 1
      /\ UNCHANGED <<leader, helper, written, mode, partial, result, tearing, requests, disposed,
                     cancelled, grace, budget, rd, lease>>
      /\ \/ "internal" \in sig' /\ captured' = captured /\ sig' = sig \cup {"internal"}
         \/ sig' = sig /\ captured' = captured + 1
      /\ tearing => frame' = frame
  BY DEF BoundedChunk
<1>2. written \in Nat /\ captured \in Nat /\ queued \in Nat
  BY DEF RunnerTypes, TypeOK, GroupTypeOK
<1>3. Beginning'
  BY <1>1 DEF Running, Beginning
<1>4. OutputCounted'
  BY <1>1, <1>2 DEF Running, OutputCounted
<1>5. OutputOwned' /\ ModeOnly'
  BY <1>1 DEF Running, OutputOwned, ModeOnly
<1>6. GroupKnown'
  BY <1>1 DEF Running, GroupKnown, Absent, HelperIn
<1>7. StopOrder'
  BY <1>1 DEF Running, StopOrder
<1>8. AtVerify'
  BY <1>1 DEF AtVerify
<1> QED BY <1>1, <1>3, <1>4, <1>5, <1>6, <1>7, <1>8 DEF Running
(* A stable frame stops the group: SIGTERM is the first request, unless    *)
(* the group is already gone or will not be signalled.                     *)
LEMMA BoundedStableKeeps ==
  ASSUME RunnerTypes, Running, BoundedStable
  PROVE  Running' /\ pc' # "done"
<1>1. /\ BoundedFrame /\ pc = "select" /\ pc' = "top"
      /\ UNCHANGED <<rd, captured, queued, frame, lease, result, cancelled>>
  BY DEF BoundedStable, BoundedFrame
<1>2. AtVerify'
  BY <1>1 DEF AtVerify
<1>3. CASE UNCHANGED <<sig, requests, disposed, tearing, budget, grace>>
  <2>1. StopOrder'
    BY <1>1, <1>3 DEF Running, StopOrder, BoundedFrame
  <2> QED BY <1>1, <1>2, <1>3, <2>1, BoundedStops
<1>4. CASE /\ frame # 0 /\ ~tearing /\ tearing' = TRUE
           /\ Send("SIGTERM", "postOutput", sig)
           /\ grace' = IF requests' # requests THEN "armed" ELSE grace
  <2>1. /\ sig \subseteq sig' /\ (disposed' => disposed \/ Absent)
        /\ \/ requests' = requests /\ (disposed' \/ "internal" \in sig')
           \/ requests' = Append(requests, "postOutput") /\ ~disposed
    BY <1>4, SendFacts
  <2>2. requests = <<>> /\ grace = "off" /\ ~cancelled
    BY <1>1, <1>4 DEF Running, StopOrder, BoundedFrame
  <2>3. requests' = Append(requests, "postOutput") =>
          requests' # requests /\ requests' # <<>> /\ requests'[1] = "postOutput"
    BY <2>2, FirstRequest DEF Reasons
  <2>4. StopOrder'
    BY <1>1, <1>4, <2>1, <2>2, <2>3 DEF Running, StopOrder, BoundedFrame
  <2> QED BY <1>1, <1>2, <2>1, <2>4, BoundedStops
<1> QED BY <1>1, <1>3, <1>4 DEF BoundedStable

(* SIGKILL follows only a SIGTERM that was accepted.                       *)
LEMMA BoundedEscalateKeeps ==
  ASSUME RunnerTypes, Running, BoundedEscalate
  PROVE  Running' /\ pc' # "done"
<1>1. /\ BoundedFrame /\ pc = "select" /\ pc' = "top" /\ grace = "fired" /\ grace' = "off"
      /\ UNCHANGED <<rd, captured, queued, frame, lease, result, tearing, budget>>
      /\ cancelled' = TRUE
  BY DEF BoundedEscalate, BoundedFrame
<1>2. AtVerify'
  BY <1>1 DEF AtVerify
<1>3. tearing /\ requests # <<>>
  BY <1>1 DEF Running, StopOrder, BoundedFrame
<1>4. /\ sig \subseteq sig' /\ (disposed' => disposed \/ Absent)
      /\ \/ requests' = requests
         \/ requests' = Append(requests, "postOutputEscalation")
  <2>1. CASE Absent
    BY <2>1 DEF BoundedEscalate
  <2>2. CASE Send("SIGKILL", "postOutputEscalation", sig)
    BY <2>2, SendFacts
  <2> QED BY <2>1, <2>2 DEF BoundedEscalate
<1>5. requests' # <<>> /\ requests'[1] = requests[1]
  BY <1>3, <1>4, FirstRequest DEF Reasons
<1>6. StopOrder'
  BY <1>1, <1>3, <1>4, <1>5 DEF Running, StopOrder, BoundedFrame
<1> QED BY <1>1, <1>2, <1>4, <1>6, BoundedStops

(* The terminal budget: one more kill, then the loop goes round without    *)
(* what it waited for, or the call fails.                                  *)
LEMMA BoundedTerminalKeeps ==
  ASSUME RunnerTypes, Running, BoundedTerminal
  PROVE  \/ Running' /\ pc' # "done"
         \/ Settled' /\ pc' = "done"
<1>1. /\ mode = "bounded" /\ pc = "select" /\ budget = "fired" /\ cancelled' = TRUE
      /\ UNCHANGED <<leader, helper, written, mode, partial, rd, captured, queued, frame, tearing,
                     grace>>
  BY DEF BoundedTerminal
<1>2. CASE Fail("terminalDeadline")
  BY <1>1, <1>2, FailureSettles, FailTypes
<1>3. CASE pc' = "top" /\ UNCHANGED <<lease, result>>
  <2>1. BoundedFrame /\ AtVerify'
    BY <1>1, <1>3 DEF BoundedFrame, AtVerify
  <2>2. tearing
    BY <1>1 DEF Running, StopOrder
  <2>3. /\ sig \subseteq sig' /\ (disposed' => disposed \/ Absent)
        /\ \/ requests' = requests /\ (requests = <<>> /\ disposed => disposed')
           \/ requests' = Append(requests, "postOutputEscalation") /\ ~disposed
    <3>1. CASE /\ ~disposed
               /\ Send("SIGKILL", "postOutputEscalation", sig \cup StdinFacts(stdin))
      BY <3>1, SendFacts
    <3>2. CASE sig' = sig \cup StdinFacts(stdin) /\ UNCHANGED <<requests, disposed>>
      BY <3>2
    <3> QED BY <3>1, <3>2 DEF BoundedTerminal
  <2>4. requests' # requests /\ requests # <<>> => requests' # <<>> /\ requests'[1] = requests[1]
    BY <2>3, FirstRequest DEF Reasons
  <2>5. StopOrder'
    BY <1>1, <2>1, <2>2, <2>3, <2>4 DEF Running, StopOrder, BoundedFrame
  <2> QED BY <1>1, <1>3, <2>1, <2>3, <2>5, BoundedStops
<1> QED BY <1>2, <1>3 DEF BoundedTerminal

(* An observation of a bounded run: nothing recorded means that stdout was *)
(* read to its end, or that it stands at the frame the runner stopped for. *)
LEMMA BoundedVerifyKeeps ==
  ASSUME RunnerTypes, Running, BoundedVerify
  PROVE  Settled' /\ pc' = "done"
<1>1. /\ UNCHANGED <<groupVars, ioVars, loopVars, sessionVars, rd, captured, queued>>
      /\ mode = "bounded" /\ pc = "verify"
  BY DEF BoundedVerify
<1>2. /\ wait = "taken" /\ stdin = "taken" /\ lease = "held"
      /\ \A s \in Streams : rd[s] \in {"taken", "joined"}
  BY <1>1 DEF Running, AtVerify
<1>3. CASE \E why : Fail(why)
  BY <1>1, <1>3, FailureSettles, FailTypes
<1>4. CASE /\ disposed \/ Absent
           /\ "internal" \notin sig
           /\ \E code \in ExitCodes(status), succeeded \in BOOLEAN :
                /\ Reported(code, succeeded, IF succeeded THEN "bound" ELSE CloseLease(lease))
                /\ succeeded =>
                     /\ Termination(sig) \in {"none", "exited", "signaled"}
                     /\ frame # 0 => captured = frame
                     /\ code = "zero" \/ (frame # 0 /\ requests # <<>>)
  <2>1. PICK code \in ExitCodes(status), succeeded \in BOOLEAN :
          /\ Reported(code, succeeded, IF succeeded THEN "bound" ELSE CloseLease(lease))
          /\ succeeded =>
               /\ Termination(sig) \in {"none", "exited", "signaled"}
               /\ frame # 0 => captured = frame
               /\ code = "zero" \/ (frame # 0 /\ requests # <<>>)
    BY <1>4
  <2>2. Absent
    BY <1>1, <1>4 DEF Running, GroupKnown
  <2>3. CloseLease(lease) = "closed"
    BY <1>2 DEF CloseLease
  <2>4. PICK l : l = IF succeeded THEN "bound" ELSE CloseLease(lease)
    OBVIOUS
  <2>5. Reported(code, succeeded, l) /\ (succeeded => l = "bound") /\ l \in {"closed", "bound"}
    BY <2>1, <2>3, <2>4
  <2>6. sig' = sig /\ ~partial /\ mode # "converse"
    BY <1>1 DEF Running, ModeOnly
  <2>7. ASSUME succeeded
        PROVE  sig = {}
    BY <1>4, <2>1, <2>7, TerminationFacts DEF RunnerTypes, TypeOK
  <2>8. ASSUME succeeded, frame = 0
        PROVE  code = "zero" /\ captured = written
    <3>1. ~tearing /\ ~cancelled
      BY <1>1, <2>7, <2>8 DEF Running, StopOrder
    <3>2. rd["out"] = "taken"
      BY <1>1, <1>2, <2>7, <2>8, <3>1 DEF Running, StopOrder, Streams
    <3>3. queued = 0 /\ captured + queued = written
      BY <1>1, <1>4, <3>2 DEF Running, OutputCounted
    <3> QED BY <2>1, <2>8, <3>3 DEF RunnerTypes, TypeOK, GroupTypeOK
  <2>9. ASSUME succeeded, frame # 0, requests # <<>>
        PROVE  requests[1] = "postOutput"
    BY <1>1, <2>7, <2>9 DEF Running, StopOrder
  <2>10. succeeded =>
           /\ sig' = {} /\ ~partial
           /\ \/ code = "zero" /\ (captured = written \/ (frame # 0 /\ captured = frame))
              \/ /\ mode = "bounded" /\ frame # 0 /\ captured = frame
                 /\ requests # <<>> /\ requests[1] = "postOutput"
    BY <1>1, <2>1, <2>6, <2>7, <2>8, <2>9
  <2> QED BY <1>1, <1>2, <2>2, <2>5, <2>6, <2>10, ObservationSettles, ReportedTypes
<1> QED BY <1>3, <1>4, BoundedReports
-----------------------------------------------------------------------------
(* Conversation mode.                                                      *)

LEMMA ConverseTopKeeps ==
  ASSUME RunnerTypes, Running, ConverseTop
  PROVE  Running' /\ pc' # "done"
<1>1. /\ mode = "converse" /\ pc = "top" /\ pc' \in {"select", "verify"} /\ sig \subseteq sig'
      /\ UNCHANGED <<groupVars, stdin, mode, requests, killedOnce, frame, driver, partial, rd,
                     captured, queued, lease, result>>
      /\ disposed' => disposed \/ Absent
      /\ pc' = "verify" => /\ \A s \in Streams : Taken(s)
                           /\ lease = "held" /\ wait' = "taken" /\ DriverOver
                           /\ disposed' \/ killedOnce
  BY DEF ConverseTop, RunnerTypes, TypeOK
<1>2. Beginning'
  BY <1>1 DEF Running, Beginning
<1>3. OutputCounted' /\ OutputOwned' /\ ModeOnly'
  BY <1>1 DEF Running, OutputCounted, OutputOwned, ModeOnly
<1>4. GroupKnown'
  BY <1>1 DEF Running, GroupKnown, Doomed, Absent, LiveMembers, HelperIn
<1>5. StopOrder'
  BY <1>1 DEF StopOrder
<1>6. AtVerify'
  BY <1>1 DEF Running, ModeOnly, AtVerify, DriverOver, Taken
<1> QED BY <1>1, <1>2, <1>3, <1>4, <1>5, <1>6 DEF Running

LEMMA ConverseResultsKeeps ==
  ASSUME RunnerTypes, Running, ConverseResults
  PROVE  Running' /\ pc' # "done"
<1>1. /\ mode = "converse" /\ pc = "select" /\ pc' = "top"
      /\ sig \cup StreamFacts \subseteq sig'
      /\ UNCHANGED <<groupVars, stdin, mode, disposed, requests, killedOnce, frame, partial,
                     captured, queued, result>>
      /\ rd' = Drain /\ lease' = HoldLease(lease)
  BY DEF ConverseResults
<1>2. Beginning'
  BY <1>1 DEF Running, Beginning, HoldLease
<1>3. OutputCounted'
  BY <1>1, DrainedOutput DEF Running, OutputCounted, RunnerTypes, TypeOK, Streams
<1>4. OutputOwned' /\ ModeOnly'
  BY <1>1 DEF Running, OutputOwned, ModeOnly
<1>5. GroupKnown'
  BY <1>1 DEF Running, GroupKnown, Doomed, Absent, LiveMembers, HelperIn
<1>6. StopOrder' /\ AtVerify'
  BY <1>1 DEF StopOrder, AtVerify
<1> QED BY <1>1, <1>2, <1>3, <1>4, <1>5, <1>6 DEF Running

(* A signal of the teardown believes the group gone only when it is, and   *)
(* the escalation reaches every member that lives.                         *)
LEMMA ConverseTimersKeeps ==
  ASSUME RunnerTypes, Running, ConverseTimers
  PROVE  Running' /\ pc' # "done"
<1>1. /\ mode = "converse" /\ pc = "select" /\ pc' = "top"
      /\ UNCHANGED <<leader, helper, written, ioVars, mode, sig, frame, driver, partial, rd,
                     captured, queued, lease, result>>
  BY DEF ConverseTimers
<1>2. leader # "none" /\ LiveMembers \in 0..2 /\ LiveMembers' = LiveMembers
  BY <1>1, KillFacts DEF Running, Beginning, LiveMembers, HelperIn, RunnerTypes, TypeOK
<1>3. ASSUME NEW signal, NEW reason, ConverseSignal(signal, reason)
      PROVE  /\ disposed' => Absent
             /\ pending \subseteq pending'
             /\ LiveMembers > 0 => signal \in pending'
  BY <1>3, KillFacts DEF ConverseSignal, Signalled, RunnerTypes, TypeOK
<1>4. /\ disposed' => disposed \/ Absent
      /\ pending \subseteq pending'
      /\ killedOnce' => killedOnce \/ LiveMembers = 0 \/ "SIGKILL" \in pending'
  <2>1. CASE UNCHANGED <<pending, disposed, killedOnce>>
    BY <2>1
  <2>2. CASE ConverseSignal("SIGTERM", "teardown") /\ UNCHANGED killedOnce
    BY <1>3, <2>2
  <2>3. CASE ConverseSignal("SIGKILL", "teardownEscalation")
    BY <1>2, <1>3, <2>3
  <2> QED BY <2>1, <2>2, <2>3 DEF ConverseTimers
<1>5. Beginning'
  BY <1>1 DEF Running, Beginning
<1>6. OutputCounted' /\ OutputOwned' /\ ModeOnly'
  BY <1>1 DEF Running, OutputCounted, OutputOwned, ModeOnly
<1>7. GroupKnown'
  BY <1>1, <1>2, <1>4 DEF Running, GroupKnown, Doomed, Absent, HelperIn
<1>8. StopOrder' /\ AtVerify'
  BY <1>1 DEF StopOrder, AtVerify
<1> QED BY <1>1, <1>5, <1>6, <1>7, <1>8 DEF Running

LEMMA ConverseVerifyKeeps ==
  ASSUME RunnerTypes, Running, ConverseVerify
  PROVE  Settled' /\ pc' = "done"
<1>1. /\ UNCHANGED <<groupVars, ioVars, mode, disposed, sessionVars, rd, captured, queued>>
      /\ mode = "converse" /\ pc = "verify" /\ sig \subseteq sig' /\ sig' \subseteq SignalFacts
  BY DEF ConverseVerify, SignalFacts, RunnerTypes, TypeOK
<1>2. /\ wait = "taken" /\ stdin = "taken" /\ DriverOver
      /\ \A s \in Streams : rd[s] \in {"taken", "joined"}
      /\ rd["out"] = "taken" /\ frame = 0
      /\ disposed => Absent
      /\ LiveMembers = 0 \/ "SIGKILL" \in pending
  <2>1. /\ wait = "taken" /\ stdin = "taken" /\ DriverOver
        /\ \A s \in Streams : rd[s] \in {"taken", "joined"}
        /\ disposed \/ killedOnce
    BY <1>1 DEF Running, AtVerify
  <2>2. rd["out"] = "taken" /\ frame = 0
    BY <1>1, <2>1 DEF Running, OutputCounted, ModeOnly, Streams
  <2>3. /\ disposed => Absent
        /\ LiveMembers = 0 \/ "SIGKILL" \in pending
    BY <1>1, <2>1 DEF Running, GroupKnown, Doomed, Absent, LiveMembers, HelperIn
  <2> QED BY <2>1, <2>2, <2>3
<1>3. CASE \E why : Fail(why)
  BY <1>1, <1>2, <1>3, FailureSettles, FailTypes
<1>4. CASE /\ disposed \/ Absent
           /\ "internal" \notin sig'
           /\ \E code \in ExitCodes(status), succeeded \in BOOLEAN :
                /\ Reported(code, succeeded, "bound")
                /\ succeeded =>
                     /\ Termination(sig') \in {"none", "exited", "signaled"}
                     /\ ~partial
                     /\ code = "zero" \/ frame # 0
  <2>1. PICK code \in ExitCodes(status), succeeded \in BOOLEAN :
          /\ Reported(code, succeeded, "bound")
          /\ succeeded =>
               /\ Termination(sig') \in {"none", "exited", "signaled"}
               /\ ~partial
               /\ code = "zero" \/ frame # 0
    BY <1>4
  <2>2. Absent
    BY <1>2, <1>4
  <2>3. succeeded => sig' = {} /\ ~partial /\ code = "zero" /\ captured = written
    BY <1>1, <1>2, <1>4, <2>1, TerminationFacts DEF Running, OutputCounted
  <2> QED BY <1>1, <1>2, <2>1, <2>2, <2>3, ObservationSettles, ReportedTypes
<1> QED BY <1>3, <1>4, ConverseReports

-----------------------------------------------------------------------------
(* The invariant and the theorems.                                         *)

(* A call that has returned changes nothing any more.                      *)
LEMMA ReturnedIsOver ==
  ASSUME RunnerTypes, pc = "done", Next
  PROVE  FALSE
<1>1. ~Runner
  BY DEF Runner, NotStarted, Start, CleanupStartedChild, DirectTop, DirectSelect, DirectVerify,
     BoundedTop, BoundedResults, BoundedChunk, BoundedStable, BoundedEscalate, BoundedTerminal,
     BoundedVerify, ConverseTop, ConverseResults, ConverseTimers, ConverseVerify
<1>2. ~StartedFault /\ ~Kernel
  BY DEF StartedFault, Kernel
<1>3. ~(ReadChunk \/ SpoolEnds \/ DriverStep \/ SendCut \/ BudgetExpires \/ GraceExpires)
  BY DEF ReadChunk, SpoolEnds, DriverStep, SendCut, BudgetExpires, GraceExpires, Conversing,
     Started
<1>4. ~\E s \in Streams : StreamEnds(s) \/ CaptureFault(s) \/ ReadDeadline(s) \/ ProducerEnds(s)
  BY DEF StreamEnds, CaptureFault, ReadDeadline, StreamFails, ProducerEnds, Started
<1>5. ~\E o \in {"ok", "error"} : DriverReturns(o)
  BY DEF DriverReturns, Conversing, Started
<1> QED BY <1>1, <1>2, <1>3, <1>4, <1>5 DEF Next

LEMMA RunnerInit ==
  ASSUME Init
  PROVE  RunnerInv
<1> USE MaxChunksAssumption, MaxSurprisesAssumption
<1>1. RunnerTypes
  <2>1. requests = <<>> /\ result = NoResult
    BY DEF Init
  <2>2. requests \in Seq(Reasons) /\ DOMAIN requests = {}
    BY <2>1
  <2>3. result.kind = "none" /\ result.succeeded \in BOOLEAN
    BY <2>1 DEF NoResult
  <2>4. /\ written = 0 /\ surprises = 0 /\ captured = 0 /\ queued = 0
        /\ stdin \in {"taken", "writing"}
    BY DEF Init, GroupInit
  <2>5. GroupTypeOK
    <3>1. written \in 0..MaxChunks /\ surprises \in 0..MaxSurprises
      BY <2>4
    <3>2. inClosed \in BOOLEAN
      BY DEF Init, GroupInit
    <3> QED BY <2>4, <3>1, <3>2 DEF Init, GroupInit, GroupTypeOK, StdinStates
  <2>6. /\ tearing \in BOOLEAN /\ disposed \in BOOLEAN /\ killedOnce \in BOOLEAN
        /\ cancelled \in BOOLEAN /\ partial \in BOOLEAN
    BY DEF Init
  <2>7. TypeOK
    BY <2>2, <2>3, <2>4, <2>5, <2>6 DEF Init, TypeOK, Timers
  <2> QED BY <2>2, <2>3, <2>7 DEF RunnerTypes
<1>2. pc = "start" /\ mode \in Modes
  BY DEF Init
<1>3. Beginning /\ AtVerify
  BY DEF Init, GroupInit, Beginning, AtVerify, Streams, NoResult
<1>4. OutputCounted /\ OutputOwned /\ ModeOnly
  BY DEF Init, GroupInit, OutputCounted, OutputOwned, ModeOnly, Streams
<1>5. GroupKnown /\ StopOrder
  BY DEF Init, GroupInit, GroupKnown, StopOrder, Streams
<1> QED BY <1>1, <1>2, <1>3, <1>4, <1>5 DEF RunnerInv, Running

LEMMA RunnerNext ==
  ASSUME RunnerInv, [Next]_vars
  PROVE  RunnerInv'
<1>1. CASE UNCHANGED vars
  <2>1. RunnerTypes'
    BY <1>1 DEF RunnerInv, RunnerTypes, TypeOK, GroupTypeOK
  <2>2. Running => Running'
    BY <1>1 DEF Running, Beginning, OutputCounted, OutputOwned, ModeOnly, GroupKnown, StopOrder,
       AtVerify, Doomed, Absent, LiveMembers, HelperIn, DriverOver
  <2>3. Settled => Settled'
    BY <1>1 DEF Settled, ObservationIsEarned, ObservationIsFinal, SuccessIsEarned,
       NothingLeftBehind, NoUnsignalledSurvivor, LeaseSettled, Returned, Absent, LiveMembers,
       HelperIn, DriverOver
  <2> QED BY <1>1, <2>1, <2>2, <2>3 DEF RunnerInv
<1>2. CASE Next
  <2>1. RunnerTypes /\ Running
    BY <1>2, ReturnedIsOver DEF RunnerInv
  <2>2. CASE Kernel /\ (GroupStep \/ StdinWritten \/ CopyStdinEnds \/ Wait \/ ContextEnds
                        \/ RequestTimeout)
    BY <2>1, <2>2, GroupTypesKept, KernelKeeps, KernelFrame DEF RunnerInv
  <2>3. CASE \/ ReadChunk \/ SpoolEnds
             \/ \E s \in Streams :
                  StreamEnds(s) \/ CaptureFault(s) \/ ReadDeadline(s) \/ ProducerEnds(s)
    <3>1. RunnerTypes'
      BY <2>1, <2>3, ReaderTypesKept DEF Running, OutputCounted
    <3>2. ReaderFrame /\ OutputStep
      BY <2>3, ReadersFrame, OutputSteps
    <3> QED BY <2>1, <3>1, <3>2, ReadersKeep DEF RunnerInv, ReaderFrame
  <2>4. CASE \/ DriverStep \/ SendCut \/ \E o \in {"ok", "error"} : DriverReturns(o)
             \/ BudgetExpires \/ GraceExpires
    <3>1. RunnerTypes' /\ DriverFrame
      BY <2>1, <2>4, DriverTypesKept, DriversFrame
    <3> QED BY <2>1, <3>1, DriverKeeps DEF RunnerInv, DriverFrame
  <2>5. CASE NotStarted \/ Start \/ StartedFault \/ CleanupStartedChild
    <3>1. RunnerTypes'
      BY <2>1, <2>5, StartTypesKept DEF Running
    <3> QED BY <2>1, <2>5, <3>1, StartKeeps, StartReturns DEF RunnerInv
  <2>6. CASE DirectTop \/ DirectSelect \/ DirectVerify
    BY <2>1, <2>6, DirectTypesKept, DirectTopKeeps, DirectSelectKeeps, DirectVerifyKeeps
       DEF RunnerInv
  <2>7. CASE \/ BoundedTop \/ BoundedResults \/ BoundedChunk \/ BoundedStable
             \/ BoundedEscalate \/ BoundedTerminal \/ BoundedVerify
    <3>1. RunnerTypes'
      BY <2>1, <2>7, BoundedTypesKept DEF Running, OutputCounted
    <3> QED BY <2>1, <2>7, <3>1, BoundedTopKeeps, BoundedResultsKeeps, BoundedChunkKeeps,
               BoundedStableKeeps, BoundedEscalateKeeps, BoundedTerminalKeeps,
               BoundedVerifyKeeps DEF RunnerInv
  <2>8. CASE ConverseTop \/ ConverseResults \/ ConverseTimers \/ ConverseVerify
    <3>1. RunnerTypes'
      BY <2>1, <2>8, ConverseTypesKept
    <3> QED BY <2>1, <2>8, <3>1, ConverseTopKeeps, ConverseResultsKeeps, ConverseTimersKeeps,
               ConverseVerifyKeeps DEF RunnerInv
  <2> QED BY <1>2, <2>2, <2>3, <2>4, <2>5, <2>6, <2>7, <2>8 DEF Next, Runner
<1> QED BY <1>1, <1>2

(* The inductive invariant holds of every execution.                       *)
THEOREM RunnerInvariant == Spec => []RunnerInv
  BY RunnerInit, RunnerNext, PTL DEF Spec

(* Every variable of an execution keeps its type.                          *)
THEOREM RunnerTypesHold == Spec => []TypeOK
<1>1. RunnerInv => TypeOK
  BY DEF RunnerInv, RunnerTypes
<1> QED BY RunnerInvariant, <1>1, PTL

(* While the loop runs no result exists, so both properties are about what *)
(* has been returned.                                                      *)
LEMMA NothingOwedYet ==
  ASSUME RunnerInv
  PROVE  ObservationIsEarned /\ NothingLeftBehind
<1>1. CASE pc = "done"
  BY <1>1 DEF RunnerInv, Settled
<1>2. CASE pc # "done"
  <2>1. result.kind = "none" /\ ~result.succeeded
    BY <1>2 DEF RunnerInv, Running, Beginning, NoResult
  <2> QED BY <2>1 DEF ObservationIsEarned, ObservationIsFinal, SuccessIsEarned,
                      NothingLeftBehind, NoUnsignalledSurvivor, LeaseSettled, Returned
<1> QED BY <1>1, <1>2

(* What Run, runBoundedPostOutput and Converse report is evidence: the     *)
(* child is reaped, its group is gone and every goroutine has ended before *)
(* anything is observed, and success is claimed only of complete output    *)
(* against which no terminal fact was recorded.                            *)
THEOREM ObservationsAreEarned == Spec => []ObservationIsEarned
<1>1. RunnerInv => ObservationIsEarned
  BY NothingOwedYet
<1> QED BY RunnerInvariant, <1>1, PTL

(* No return leaves a live member of the group without SIGKILL on its way  *)
(* (a failed bounded run excepted), nor a spooled output without an owner. *)
THEOREM NothingIsLeftBehind == Spec => []NothingLeftBehind
<1>1. RunnerInv => NothingLeftBehind
  BY NothingOwedYet
<1> QED BY RunnerInvariant, <1>1, PTL
=============================================================================
