-------------------------- MODULE DiagnosticStore ---------------------------
(***************************************************************************)
(* The runtime diagnostic store of one run                                 *)
(* (internal/adapters/filesystem/diagnosticstore_darwin.go): an append-only *)
(* log with a byte cap and a reserve for its tail, a status document that  *)
(* is replaced atomically, and the finalization that writes the terminal   *)
(* event, the closing event and the terminal status in this order.  Every  *)
(* operation runs under store.mu; a process can be killed inside one, the  *)
(* machine can lose power, and Open recovers what is left.  Events have    *)
(* one size; a content is the set of at most one value.                    *)
(***************************************************************************)
EXTENDS Naturals, Sequences, FiniteSets

CONSTANTS
  LogMax,        \* RuntimeDiagnosticLogMaxBytes, in events
  TailReserve,   \* RuntimeDiagnosticTailReserveBytes, in events
  MaxUpsets      \* failing calls, kills and power losses

VARIABLES
  state,     \* of the store: "down", "open", "finalizing", "finalized", "poisoned"
  sequence,  \* store.sequence
  steps,     \* the parts of Finalize done: terminalEvent, closedEvent, terminalStatus
  decision,  \* the terminal state the run will finalize with
  log,       \* complete lines: sequence number and event
  synced,    \* how many of them a power loss keeps
  torn,      \* a partial line follows
  status,    \* status.json, now and on the disk
  dropped,   \* store.droppedEvents
  acked,     \* the largest sequence number a caller was given
  upsets

vars == <<state, sequence, steps, decision, log, synced, torn, status, dropped, acked, upsets>>

Terminals == {"completed", "failed"}
Kinds == {"ordinary", "mandatory", "closed"} \cup Terminals

Init ==
  /\ state = "down" /\ sequence = 0 /\ steps = {}
  /\ decision \in Terminals
  /\ log = <<>> /\ synced = 0 /\ torn = FALSE
  /\ status = [now |-> {}, disk |-> {}]
  /\ dropped = 0 /\ acked = 0 /\ upsets = 0

Upset == upsets < MaxUpsets /\ upsets' = upsets + 1
Calm  == UNCHANGED upsets

Files == <<log, synced, torn, status>>

Status(s, last) == [state |-> s, last |-> last, dropped |-> dropped]

(* atomicReplace: replaced and synced; not replaced; or replaced with its  *)
(* durability unknown, which poisons the store.                            *)
Replaced(s)    == status' = [now |-> {s}, disk |-> {s}] /\ Calm
NotReplaced    == UNCHANGED status /\ Upset
Uncertain(s)   == status' \in {[status EXCEPT !.now = {s}], [now |-> {s}, disk |-> {s}]} /\ Upset

(* Open: recoverLog cuts a partial line and checks the numbering; an       *)
(* existing status must be a running one that the log covers; otherwise    *)
(* the initial one is written.                                             *)
Numbered == \A k \in DOMAIN log : log[k].seq = k

Open ==
  /\ state = "down" /\ Numbered
  /\ torn' = FALSE /\ synced' = (IF torn THEN Len(log) ELSE synced)
  /\ sequence' = Len(log) /\ steps' = {} /\ UNCHANGED <<decision, log, acked>>
  /\ \/ /\ \E s \in status.now : s.state = "running" /\ s.last <= Len(log) /\ dropped' = s.dropped
        /\ state' = "open" /\ Calm /\ UNCHANGED status
     \/ /\ status.now = {} /\ dropped' = 0
        /\ LET s == [state |-> "running", last |-> Len(log), dropped |-> 0] IN
             \/ Replaced(s) /\ state' = "open"
             \/ (NotReplaced \/ Uncertain(s)) /\ state' = "down"

-----------------------------------------------------------------------------
Fits(kind) == Len(log) + 1 <= (IF kind = "ordinary" THEN LogMax - TailReserve ELSE LogMax)

AppendsKeepingState(kind, after, failed) ==
  \/ /\ log' = Append(log, [seq |-> sequence + 1, event |-> kind])
     /\ synced' = Len(log) + 1 /\ sequence' = sequence + 1 /\ acked' = sequence + 1
     /\ state' = after /\ Calm /\ UNCHANGED torn
  \/ /\ UNCHANGED <<sequence, acked>> /\ Upset
     /\ log' = Append(log, [seq |-> sequence + 1, event |-> kind])
     /\ UNCHANGED <<synced, torn>> /\ state' = failed

(* appendEventLocked: the line is written and synced, or rolled back; when *)
(* neither is certain the store is poisoned, and the line may be there     *)
(* whole, in part or not at all.  `failed` is the state a failed append    *)
(* leaves.                                                                 *)
Appends(kind, after, failed) ==
  \/ /\ log' = Append(log, [seq |-> sequence + 1, event |-> kind])
     /\ synced' = Len(log) + 1 /\ sequence' = sequence + 1 /\ acked' = sequence + 1
     /\ state' = after /\ Calm /\ UNCHANGED torn
  \/ /\ UNCHANGED <<sequence, acked>> /\ Upset
     /\ \/ UNCHANGED <<log, synced, torn>> /\ state' = failed
        \/ /\ state' = "poisoned"
           /\ \/ UNCHANGED <<log, synced, torn>>
              \/ torn' = TRUE /\ UNCHANGED <<log, synced>>
              \/ log' = Append(log, [seq |-> sequence + 1, event |-> kind]) /\ UNCHANGED <<synced, torn>>

Emit(kind) ==
  /\ state = "open"
  /\ \/ Fits(kind) /\ Appends(kind, "open", "open") /\ UNCHANGED dropped
     \/ /\ kind = "ordinary" /\ ~Fits(kind) /\ dropped < LogMax
        /\ dropped' = dropped + 1 /\ UNCHANGED <<state, sequence, log, synced, torn, acked, upsets>>
  /\ UNCHANGED <<steps, decision, status>>

ReplaceStatus ==
  /\ state = "open"
  /\ \E last \in {acked, IF acked = 0 THEN 0 ELSE acked - 1} : last <= sequence /\
       \/ Replaced(Status("running", last)) /\ UNCHANGED state
       \/ NotReplaced /\ UNCHANGED state
       \/ Uncertain(Status("running", last)) /\ state' = "poisoned"
  /\ UNCHANGED <<sequence, steps, decision, log, synced, torn, dropped, acked>>

ReplaceOther ==
  /\ state = "open" /\ Upset /\ state' = "poisoned"
  /\ UNCHANGED <<sequence, steps, decision, log, synced, torn, status, dropped, acked>>

(* Finalize, part by part; a retry goes on with the parts that are left.   *)
FinalizeBegins ==
  /\ state = "open" /\ state' = "finalizing"
  /\ UNCHANGED <<sequence, steps, decision, dropped, acked, upsets>> /\ UNCHANGED Files

FinalizeEvent(kind, part) ==
  /\ state = "finalizing" /\ part \notin steps
  /\ \/ /\ Fits(kind) /\ Appends(kind, "finalizing", "open")
        /\ steps' = IF acked' = acked THEN steps ELSE steps \cup {part}
     \/ /\ ~Fits(kind) /\ state' = "open"
        /\ UNCHANGED <<steps, sequence, log, synced, torn, acked, upsets>>
  /\ UNCHANGED <<decision, status, dropped>>

FinalizeTerminal == FinalizeEvent(decision, "terminal")
FinalizeClosed   == "terminal" \in steps /\ FinalizeEvent("closed", "closed")

FinalizeStatus ==
  /\ state = "finalizing" /\ {"terminal", "closed"} \subseteq steps /\ "status" \notin steps
  /\ \/ Replaced(Status(decision, sequence)) /\ steps' = steps \cup {"status"} /\ UNCHANGED state
     \/ NotReplaced /\ UNCHANGED <<steps, state>>
     \/ Uncertain(Status(decision, sequence)) /\ state' = "poisoned" /\ UNCHANGED steps
  /\ UNCHANGED <<sequence, decision, log, synced, torn, dropped, acked>>

FinalizeEnds ==
  /\ state = "finalizing" /\ "status" \in steps
  /\ state' = "finalized"
  /\ UNCHANGED <<sequence, steps, decision, dropped, acked, upsets>> /\ UNCHANGED Files

-----------------------------------------------------------------------------
(* A kill can leave the line being written, whole or in part.              *)
Kill ==
  /\ state \notin {"down", "finalized"} /\ Upset /\ state' = "down"
  /\ \/ UNCHANGED <<log, torn>>
     \/ state \in {"open", "finalizing"} /\ torn' = TRUE /\ UNCHANGED log
     \/ /\ state = "open" /\ Fits("ordinary") /\ ~torn /\ UNCHANGED torn
        /\ log' = Append(log, [seq |-> sequence + 1, event |-> "ordinary"])
  /\ UNCHANGED <<sequence, steps, decision, synced, status, dropped, acked>>

PowerLoss ==
  /\ Upset /\ state' = IF state = "finalized" THEN "finalized" ELSE "down"
  /\ \E n \in synced .. Len(log) :
       log' = SubSeq(log, 1, n) /\ synced' = n /\ torn' \in {FALSE, n < Len(log) \/ torn}
  /\ \E v \in {status.now, status.disk} : status' = [now |-> v, disk |-> v]
  /\ UNCHANGED <<sequence, steps, decision, dropped, acked>>

Next ==
  \/ Open \/ Emit("ordinary") \/ Emit("mandatory") \/ ReplaceStatus \/ ReplaceOther
  \/ FinalizeBegins \/ FinalizeTerminal \/ FinalizeClosed \/ FinalizeStatus \/ FinalizeEnds
  \/ Kill \/ PowerLoss

Spec == Init /\ [][Next]_vars

-----------------------------------------------------------------------------
TypeOK ==
  /\ state \in {"down", "open", "finalizing", "finalized", "poisoned"}
  /\ steps \subseteq {"terminal", "closed", "status"}
  /\ log \in Seq([seq : 1 .. LogMax, event : Kinds]) /\ synced \in 0 .. Len(log) /\ torn \in BOOLEAN
  /\ \A v \in {status.now, status.disk} : Cardinality(v) <= 1

(* The lines of the log are numbered 1, 2, 3 ... through every failed      *)
(* append, kill, power loss and reopening, so recoverLog never refuses a   *)
(* log this store wrote.                                                   *)
LogIsNumbered == Numbered

(* What a caller was told is recorded stays recorded, and no status the    *)
(* disk can hold names an event that the log could still lose.             *)
AckedIsDurable ==
  /\ acked <= synced
  /\ \A s \in status.now \cup status.disk : s.last <= synced

(* A terminal status is written last: the log it summarizes ends with the  *)
(* closing event, is complete up to the number it names, and its last      *)
(* terminal event is of the same outcome.                                  *)
LastTerminal == CHOOSE k \in DOMAIN log : log[k].event \in Terminals /\ \A j \in k + 1 .. Len(log) : log[j].event \notin Terminals

TerminalStatusMatchesLog ==
  \A s \in status.now \cup status.disk : s.state \in Terminals =>
    /\ s.last = Len(log) /\ synced = Len(log) /\ log[Len(log)].event = "closed"
    /\ log[LastTerminal].event = s.state

(* The tail reserve: however many ordinary events a run emits, its         *)
(* mandatory ones still find room, so a log of ordinary events alone never *)
(* keeps a run from being finalized.                                       *)
ReserveKeptForMandatory ==
  state = "open" /\ (\A k \in DOMAIN log : log[k].event = "ordinary") => Len(log) + TailReserve <= LogMax

=============================================================================
