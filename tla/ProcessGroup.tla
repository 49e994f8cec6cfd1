---------------------------- MODULE ProcessGroup ----------------------------
(***************************************************************************)
(* One provider child in its own process group, the pipes between it and   *)
(* the runner, and the goroutines every execution mode of the Darwin       *)
(* process runner starts: the stdin writer and the Wait goroutine.         *)
(*                                                                         *)
(* The kernel and the child are external: the child may write, fork one    *)
(* descendant that inherits the output pipes or closes them, exit with any  *)
(* status, die of a signal or ignore SIGTERM.  What the runner learns about*)
(* them it learns through kill(-pgid), the kern.proc.pgrp probe, end of    *)
(* file and Wait.                                                          *)
(***************************************************************************)
EXTENDS Naturals, FiniteSets, Sequences

CONSTANTS MaxChunks,     \* output chunks the child may write (a bound)
          MaxSurprises   \* forks, late output, cancellations, capture faults (a bound)

ASSUME MaxChunksAssumption == MaxChunks \in Nat
ASSUME MaxSurprisesAssumption == MaxSurprises \in Nat

Streams == {"out", "err"}

(* How the child ended: it exited, or a signal killed it.  Which code it   *)
(* exited with is not observed before Wait's result is classified.         *)
Statuses == {"exited", "SIGTERM", "SIGKILL"}
ExitCodes(st) == IF st = "exited" THEN {"zero", "nonzero"} ELSE {st}

VARIABLES
  leader,     \* the direct child: "none" before Start, "live", "zombie", "reaped"
  status,     \* its exit status, "none" while it lives
  helper,     \* a descendant: "none", "live" (in the group), "escaped", "gone"
  holds,      \* the output pipes the descendant keeps open
  pending,    \* signals delivered to the group and not yet acted on
  written,    \* number of stdout chunks the group has written
  surprises,  \* how much of MaxSurprises is spent
  stdin,      \* the copyStdin goroutine (see StdinStates)
  inClosed,   \* the runner's end of the stdin pipe has been closed
  wait,       \* child.Wait: "no", "running", "ready", "taken"
  ctx,        \* the caller's context: "live" or "cancelled"
  timer       \* the request timer or the context's deadline: "armed", "fired"

groupVars == <<leader, status, helper, holds, pending, written, surprises>>
ioVars == <<stdin, inClosed, wait, ctx, timer>>

(* copyStdin: still writing; all bytes written and about to close; result  *)
(* available (complete, complete with a failed close, short); consumed.    *)
StdinReady == {"complete", "closeError", "short"}
StdinStates == {"writing", "wrote", "taken"} \cup StdinReady

GroupTypeOK ==
  /\ leader \in {"none", "live", "zombie", "reaped"}
  /\ status \in Statuses \cup {"none"}
  /\ helper \in {"none", "live", "escaped", "gone"}
  /\ holds \subseteq Streams
  /\ pending \subseteq {"SIGTERM", "SIGKILL"}
  /\ written \in 0..MaxChunks
  /\ surprises \in 0..MaxSurprises
  /\ stdin \in StdinStates
  /\ inClosed \in BOOLEAN
  /\ wait \in {"no", "running", "ready", "taken"}
  /\ ctx \in {"live", "cancelled"}
  /\ timer \in {"armed", "fired"}

(* Nothing is started yet.                                                 *)
GroupInit ==
  /\ leader = "none" /\ status = "none"
  /\ helper = "none" /\ holds = {}
  /\ pending = {} /\ written = 0 /\ surprises = 0
  /\ inClosed = FALSE
  /\ wait = "no" /\ ctx = "live" /\ timer = "armed"

-----------------------------------------------------------------------------
(* What the runner can observe of the group.                               *)

HelperIn == helper = "live"

LiveMembers == (IF leader = "live" THEN 1 ELSE 0) + (IF HelperIn THEN 1 ELSE 0)

Absent == leader \in {"none", "reaped"} /\ ~HelperIn

LeaderExitedWithLiveDescendants == leader = "zombie" /\ LiveMembers > 0

LeaderExitedWithNoLiveMembers == leader = "zombie" /\ LiveMembers = 0

(* kill(-pgid, sig): success reaches the live members; Darwin answers      *)
(* EPERM for a group of zombies and ESRCH for an absent one.               *)
KillOutcome == IF LiveMembers > 0 THEN "ok"
               ELSE IF LeaderExitedWithNoLiveMembers THEN "EPERM" ELSE "ESRCH"

Signalled(sig) == IF LiveMembers > 0 THEN pending \cup {sig} ELSE pending

PipeOpen(s) == leader = "live" \/ s \in holds

(* Surprises come before the request's own timeout.                        *)
Surprise ==
  surprises < MaxSurprises /\ timer = "armed" /\ surprises' = surprises + 1

-----------------------------------------------------------------------------
(* The child and its descendant.                                           *)

ChildWrites ==
  /\ leader = "live" /\ "SIGKILL" \notin pending
  /\ written < MaxChunks
  /\ written' = written + 1
  /\ IF written = 0 THEN UNCHANGED surprises ELSE Surprise
  /\ UNCHANGED <<leader, status, helper, holds, pending>>

(* A descendant that inherits the output pipes or has closed them, and     *)
(* stays in the group or has left it (setsid); one that left it with its   *)
(* pipes closed is invisible to the runner.                                *)
ChildForks(kept, where) ==
  /\ leader = "live" /\ helper = "none" /\ "SIGKILL" \notin pending
  /\ where = "escaped" => kept = Streams
  /\ helper' = where /\ holds' = kept /\ Surprise
  /\ UNCHANGED <<leader, status, pending, written>>

(* The direct child ends: by itself, or because of a delivered signal; a   *)
(* handler may turn SIGTERM into an ordinary exit, or ignore it.           *)
ChildEnds(code) ==
  /\ leader = "live"
  /\ code \in {"SIGTERM", "SIGKILL"} => code \in pending
  /\ leader' = "zombie" /\ status' = code
  /\ pending' = IF HelperIn THEN pending ELSE {}
  /\ UNCHANGED <<helper, holds, written, surprises>>

HelperEnds ==
  /\ helper \in {"live", "escaped"}
  /\ helper' = "gone" /\ holds' = {}
  /\ pending' = IF leader = "live" THEN pending ELSE {}
  /\ UNCHANGED <<leader, status, written, surprises>>

GroupStep ==
  /\ \/ ChildWrites
     \/ \E kept \in {{}, Streams}, where \in {"live", "escaped"} : ChildForks(kept, where)
     \/ \E code \in Statuses : ChildEnds(code)
     \/ HelperEnds
  /\ UNCHANGED ioVars

(* SIGKILL cannot be ignored by a member of the group.                     *)
KillLeader == "SIGKILL" \in pending /\ ChildEnds("SIGKILL") /\ UNCHANGED ioVars
KillHelper == "SIGKILL" \in pending /\ HelperIn /\ HelperEnds /\ UNCHANGED ioVars

-----------------------------------------------------------------------------
(* Goroutines and timers shared by the modes.                              *)

(* copyStdin writes the packet; a closed pipe or a dead reader cuts it     *)
(* short, otherwise its own Close fails only if the pipe was closed first. *)
StdinWritten ==
  /\ stdin = "writing" /\ ~inClosed /\ leader = "live"
  /\ stdin' = "wrote"
  /\ UNCHANGED <<groupVars, inClosed, wait, ctx, timer>>

CopyStdinEnds ==
  /\ \/ /\ stdin = "writing" /\ (inClosed \/ leader \in {"zombie", "reaped"})
        /\ stdin' = "short"
     \/ /\ stdin = "wrote"
        /\ stdin' = IF inClosed THEN "closeError" ELSE "complete"
  /\ inClosed' = TRUE
  /\ UNCHANGED <<groupVars, wait, ctx, timer>>

(* exec.Cmd.Wait reaps the child as soon as it has exited and closes the   *)
(* parent's end of the stdin pipe.                                         *)
Wait ==
  /\ wait = "running" /\ leader = "zombie"
  /\ leader' = "reaped" /\ wait' = "ready" /\ inClosed' = TRUE
  /\ UNCHANGED <<status, helper, holds, pending, written, surprises, stdin, ctx, timer>>

ContextEnds ==
  /\ ctx = "live" /\ Surprise
  /\ ctx' = "cancelled"
  /\ UNCHANGED <<leader, status, helper, holds, pending, written, stdin, inClosed, wait, timer>>

RequestTimeout ==
  /\ timer = "armed" /\ timer' = "fired"
  /\ UNCHANGED <<groupVars, stdin, inClosed, wait, ctx>>

-----------------------------------------------------------------------------
(* terminationSignals: the terminal facts a mode has recorded.             *)
SignalFacts == {"cancelled", "timedOut", "stdinIncomplete", "residual", "internal"}

(* recordContext together with the request timer (snapshotTerminalFacts).  *)
TerminalFacts == (IF ctx = "cancelled" THEN {"cancelled"} ELSE {})
            \cup (IF timer = "fired" THEN {"timedOut"} ELSE {})

(* recordStdin, and the receipt test every loop repeats.                   *)
StdinFacts(result) == IF result = "short" THEN {"stdinIncomplete"}
                      ELSE IF result = "closeError" THEN {"internal"} ELSE {}

(* termination(): explicit precedence of the recorded facts.               *)
Termination(sig) == IF "cancelled" \in sig THEN "cancelled"
                    ELSE IF "timedOut" \in sig THEN "timedOut"
                    ELSE IF "stdinIncomplete" \in sig THEN "stdinIncomplete"
                    ELSE IF "residual" \in sig THEN "residual" ELSE "none"

=============================================================================
