-------------------------- MODULE PublicationQuery --------------------------
(***************************************************************************)
(* The query service reading a store that others change: publications     *)
(* commit, retention deletes them piece by piece, a backup may be restored *)
(* with other content.  A call is a program of store reads; each read may  *)
(* see the store of another moment, and what the call answers must have    *)
(* been true of one publication.  What a snapshot says is the business of  *)
(* PublicationDocuments; here a publication is a version number.                 *)
(***************************************************************************)
EXTENDS Integers, Sequences, SequencesExt, TLC

CONSTANTS
  MaxUpsets     \* bound on the steps of others

VARIABLES
  pub,        \* per run: what ObserveRun finds, with the version it finds
  support,    \* per run: the version whose support artifacts are readable, or 0
  recovery,   \* per run: the failed-run recovery manifest
  origin,     \* how run 2 names run 1 as its source
  retired,    \* <<run, version>> of publications (0: recoveries) by a retired provider
  call,       \* the request in progress
  todo,       \* the store reads it still has to do
  held,       \* the observations it holds, by slot
  last,       \* what was published for the run at the last of these reads
  answer,     \* what the last call answered
  cursor,     \* the cursor the last page carried
  pages,      \* the findings collected along the cursors
  was,        \* per run: the versions committed since the call began
  steady,     \* the runs nobody touched since the call began
  upsets

vars == <<pub, support, recovery, origin, retired, call, todo, held, last, answer, cursor, pages, was, steady, upsets>>
store == <<pub, support, recovery, origin, retired, was, steady, upsets>>

Runs == {1, 2}     \* 2 has 1 as its source
Slots == {1, 2, 3} \* the caller's review, a review it reads again, a review of its lineage
Absent == [state |-> "not_published", ver |-> 0]
NoAnswer == [is |-> "none", run |-> 1, ver |-> 0, again |-> 0, last |-> Absent, status |-> "", minimum |-> 0]
NoCursor == [run |-> 0, ver |-> 0, kind |-> "inspect", minimum |-> 0, limit |-> 1, offset |-> 0]
Idle == [op |-> "idle", run |-> 1, kind |-> "inspect", minimum |-> 0, limit |-> 1, from |-> NoCursor, expected |-> 0]

(* The findings of a version, by severity rank.                            *)
FindingsOf(ver) == IF ver = 1 THEN <<1, 2, 2>> ELSE <<2, 2>>
Filtered(ver, minimum) ==
  SelectSeq([i \in DOMAIN FindingsOf(ver) |-> <<i, FindingsOf(ver)[i]>>], LAMBDA f : f[2] >= minimum)

-----------------------------------------------------------------------------
(* Everybody else, during a call: the service keeps nothing between calls,  *)
(* so what happened before one is its initial state.                        *)
Touch(r, p) ==
  /\ pub' = [pub EXCEPT ![r] = p]
  /\ was' = [was EXCEPT ![r] = @ \cup (IF p.state = "committed" THEN {p.ver} ELSE {})]
  /\ todo # <<>> /\ steady' = steady \ {r} /\ upsets < MaxUpsets /\ upsets' = upsets + 1

Untouched == UNCHANGED <<recovery, origin, retired, call, todo, held, last, answer, cursor, pages>>

Stage(r) ==
  pub[r].state = "not_published" /\ Touch(r, [state |-> "staged", ver |-> 0]) /\ UNCHANGED support /\ Untouched

Commit(r) ==
  /\ pub[r].state = "staged" /\ Touch(r, [state |-> "committed", ver |-> 1])
  /\ support' = [support EXCEPT ![r] = 1] /\ Untouched

(* A backup with another publication of this run is put in place.          *)
Restore(r) ==
  /\ pub[r] = [state |-> "committed", ver |-> 1] /\ Touch(r, [state |-> "committed", ver |-> 2])
  /\ support' = [support EXCEPT ![r] = 2] /\ Untouched

(* A deletion takes the support artifacts, then the publication's files.   *)
DeleteSupport(r) ==
  /\ pub[r].state = "committed" /\ support[r] # 0 /\ Touch(r, pub[r])
  /\ support' = [support EXCEPT ![r] = 0] /\ Untouched

DeletePublication(r) ==
  /\ pub[r].state = "committed" /\ support[r] = 0
  /\ Touch(r, [state |-> "corrupt", ver |-> 0]) /\ UNCHANGED support /\ Untouched

DeleteRest(r) ==
  pub[r].state = "corrupt" /\ Touch(r, Absent) /\ UNCHANGED support /\ Untouched

-----------------------------------------------------------------------------
(* Programs: a read is <<what, run, slot>>.                                *)

(* readBoundRuntimeArtifactWithMaximum(): the artifact, then the observation again. *)
Bound(r, s) == <<<<"artifact", r, s>>, <<"confirm", r, s>>>>

(* readCommittedSnapshot() with its support index.                         *)
Snapshot(r, s) == <<<<"snapshot", r, s>>>> \o Bound(r, s) \o <<<<"confirm", r, s>>>>

readCommittedUnfiltered(r, s) == <<<<"observe", r, s>>>> \o Snapshot(r, s)

ReadCommitted(r, s) == readCommittedUnfiltered(r, s) \o <<<<"lineage", r, s>>>>

(* Where the code reads several artifacts in a row, each with its own       *)
(* confirmation, one stands for all: the store may change before, between   *)
(* and after its two reads.                                                 *)

(* projectStatusRoleReportURIs(): index, reports, and the observation again. *)
Reports(r, s) == Bound(r, s) \o <<<<"confirm", r, s>>>>

(* The index, the target manifest and the target named by it.              *)
ReadRuntimeTarget(r, s) == ReadCommitted(r, s) \o Bound(r, s)

(* The index, the target, then the target manifest, prompt and stdin of the first review. *)
ReadCommittedAttempt(r, s, again) ==
  ReadCommitted(r, s) \o Bound(r, s) \o ReadRuntimeTarget(r, again) \o Bound(r, s)

ReadFailedRunRecovery(r) ==
  <<<<"recovery", r, 1>>, <<"unpublished", r, 1>>, <<"recovery_lineage", r, 1>>, <<"replay", r, 1>>>>

inspectCommitted(r) == Snapshot(r, 1) \o <<<<"lineage", r, 1>>>> \o Reports(r, 1) \o Bound(r, 1)

ReadCommittedRoleReport(r) == ReadCommitted(r, 1) \o Bound(r, 1)

(* An excerpt is bound by its own digest and not confirmed.                *)
RenderExcerptAt(r) == ReadCommitted(r, 1) \o <<<<"artifact", r, 1>>>>

ReadCommittedForComposition(r) ==
  ReadCommitted(r, 1) \o ReadRuntimeTarget(r, 2)
  \o <<<<"observe", r, 2>>>> \o Snapshot(r, 2) \o Reports(r, 2)
  \o ReadCommitted(r, 2) \o <<<<"same", r, 2>>>>

(* A report, an excerpt, an image or a finding, in chunks.                 *)
readContent(r) == <<<<"observe", r, 1>>>> \o inspectCommitted(r) \o Bound(r, 1) \o <<<<"confirm", r, 1>>>>

Program(c) ==
  CASE c.op = "read" -> ReadCommitted(c.run, 1)
    [] c.op = "report" -> ReadCommittedRoleReport(c.run)
    [] c.op = "excerpt" -> RenderExcerptAt(c.run)
    [] c.op = "attempt" -> ReadCommittedAttempt(c.run, 1, 2)
    [] c.op = "composition" -> ReadCommittedForComposition(c.run)
    [] c.op = "recovery" -> ReadFailedRunRecovery(c.run)
    [] c.op = "status" -> <<<<"status", c.run, 1>>>>
    [] c.op = "inspect" -> <<<<"inspect", c.run, 1>>>>
    [] c.op = "content" -> readContent(c.run)

-----------------------------------------------------------------------------
Requests ==
  {[Idle EXCEPT !.op = op] : op \in {"report", "excerpt", "attempt", "composition", "content"}}
  \cup {[Idle EXCEPT !.op = op, !.run = r] : op \in {"read", "recovery", "status"}, r \in Runs}
  \cup {[Idle EXCEPT !.op = "inspect", !.run = r, !.kind = q[1], !.minimum = q[2], !.limit = q[3], !.expected = q[4]] :
          r \in Runs, q \in {<<"inspect", 2, 1, 0>>, <<"findings", 2, 1, 1>>, <<"inspect", 0, 2, 0>>}}

(* The source of run 2 is looked at by the reads all others are made of.    *)
(* One call, or a chain of pages in which each follows the last one's       *)
(* cursor, with its own query or another; a source makes no difference to   *)
(* pages, so chains are read in a store without run 2.                      *)
Begin ==
  \E c \in Requests :
    /\ call.op = "idle"
    /\ IF c.op = "inspect" /\ answer.is = "page" THEN cursor.run = 1 /\ pub[2] = Absent ELSE answer.is = "none"
    /\ call' = [c EXCEPT !.from = cursor]
    /\ todo' = Program(c)
    /\ answer' = NoAnswer
    /\ held' = [s \in Slots |-> Absent] /\ last' = Absent
    /\ was' = [r \in Runs |-> IF pub[r].state = "committed" THEN {pub[r].ver} ELSE {}]
    /\ steady' = Runs
    /\ UNCHANGED <<pub, support, recovery, origin, retired, cursor, pages, upsets>>

(* The call ends: failedReadStatus() makes an artifact failure of a status *)
(* read a corrupt status, and any other failure no status at all.          *)
End(a) ==
  answer' = a /\ call' = Idle /\ todo' = <<>> /\ held' = [s \in Slots |-> Absent] /\ last' = Absent /\ UNCHANGED store

failedReadStatus(class) == IF call.op = "status" /\ class = "artifact" THEN "corrupt" ELSE ""

Fail(class) ==
  /\ End([NoAnswer EXCEPT !.is = "failure", !.run = call.run, !.status = failedReadStatus(class)])
  /\ UNCHANGED <<cursor, pages>>

Go(steps) ==
  /\ todo' = steps \o Tail(todo)
  /\ last' = IF todo' = <<>> THEN pub[call.run] ELSE Absent
  /\ UNCHANGED <<call, answer, cursor, pages, store>>

Proceed == Go(<<>>) /\ UNCHANGED held
Require(condition) == IF condition THEN Proceed ELSE Fail("artifact")

(* A status without a committed review; an inspection accepts one only    *)
(* when it asked for nothing a publication would have to supply.           *)
AnswerStatus(status) ==
  IF call.op = "inspect" /\ (call.kind # "inspect" \/ call.from # NoCursor \/ call.expected # 0) THEN Fail("artifact")
  ELSE End([NoAnswer EXCEPT !.is = "status", !.run = call.run, !.status = status]) /\ UNCHANGED <<cursor, pages>>

(* The caller's context ends between two reads.                            *)
Cancel == todo # <<>> /\ Fail("cancelled")

observe(r, s) ==
  IF pub[r].state = "committed" THEN Go(<<>>) /\ held' = [held EXCEPT ![s] = pub[r]] ELSE Fail("artifact")

(* The snapshot is the observed one, and its own providers are not retired. *)
readCommittedSnapshot(r, s) == Require(pub[r] = held[s] /\ <<r, held[s].ver>> \notin retired)

confirmStableP2Observation(r, s) == Require(pub[r] = held[s])
readAuxiliaryArtifact(r, s) == Require(support[r] = held[s].ver)

(* sourceArtifactRetired(): only a source that resolves is looked at.      *)
Resolves(r) == pub[r].state \in {"committed", "corrupt"} \/ recovery[r] = "valid"

sourceArtifactRetired ==
  IF ~Resolves(1) THEN Proceed
  ELSE IF origin.kind = "failed_run_recovery" THEN Go(<<<<"recovery", 1, 3>>, <<"recovery_lineage", 1, 3>>>>) /\ UNCHANGED held
  ELSE Go(ReadCommitted(1, 3)) /\ UNCHANGED held

committedArtifactRetired(r, s) ==
  IF <<r, held[s].ver>> \in retired THEN Fail("artifact")
  ELSE IF r = 2 THEN sourceArtifactRetired ELSE Proceed

recoveryArtifactRetired(r) ==
  IF <<r, 0>> \in retired THEN Fail("artifact")
  ELSE IF r = 2 THEN sourceArtifactRetired ELSE Proceed

(* recovery.Read().  An absent manifest ends the status of an unpublished   *)
(* run - its own manifest, or one its lineage walk meets - and is an error  *)
(* of every other read.                                                     *)
readRecovery(r) ==
  IF recovery[r] = "valid" THEN Proceed
  ELSE IF recovery[r] = "absent" /\ call.op \in {"status", "inspect"} /\ held[1] = Absent THEN AnswerStatus("not_published")
  ELSE Fail("artifact")

(* verifyRecoveryReplay(): an exact retry's source is read in full, and a   *)
(* failed source has to be still unpublished.                              *)
verifyRecoveryReplay(r) ==
  IF r = 1 \/ ~origin.exact THEN Proceed
  ELSE IF origin.kind = "failed_run_recovery"
  THEN /\ IF recovery[1] = "valid" THEN Go(<<<<"unpublished", 1, 3>>>>) /\ UNCHANGED held ELSE Fail("artifact")
  ELSE Go(ReadCommittedAttempt(1, 3, 2)) /\ UNCHANGED held

readStatus(r) ==
  CASE pub[r].state = "not_published" -> Go(ReadFailedRunRecovery(r)) /\ UNCHANGED held
    [] pub[r].state = "staged" -> AnswerStatus("staged")
    [] pub[r].state = "corrupt" -> Fail("artifact")
    [] pub[r].state = "committed" ->
         IF call.op = "status"
         THEN Go(Snapshot(r, 1) \o Reports(r, 1)) /\ held' = [held EXCEPT ![1] = pub[r]]
         ELSE Fail("artifact") \* "publication changed during inspection", whatever the read would find

(* Inspect(): without P2 the status, for a plain inspection only.          *)
inspect(r) ==
  IF pub[r].state = "committed"
  THEN Go(inspectCommitted(r) \o <<<<"page", r, 1>>>> \o Bound(r, 1) \o <<<<"confirm", r, 1>>>>) /\ held' = [held EXCEPT ![1] = pub[r]]
  ELSE Go(<<<<"status", r, 1>>>>) /\ UNCHANGED held

(* FindingPageScope: everything a cursor is bound to.                      *)
Scope(r, ver) == [run |-> r, ver |-> ver, kind |-> call.kind, minimum |-> call.minimum, limit |-> call.limit]
ScopeOf(c) == [run |-> c.run, ver |-> c.ver, kind |-> c.kind, minimum |-> c.minimum, limit |-> c.limit]

(* Mutant: a cursor is not bound to the query it was issued for.           *)
DecodeUnboundCursor(c, expected) == c.offset % c.limit = 0

DecodeFindingCursor(c, expected) == c.offset % c.limit = 0 /\ ScopeOf(c) = expected

(* The receipt asked for and the cursor's scope are those of the review held. *)
checkPage(r) ==
  LET ver == held[1].ver
  IN  Require(/\ call.expected \in {0, ver}
              /\ call.from # NoCursor =>
                   DecodeFindingCursor(call.from, Scope(r, ver)) /\ call.from.offset < Len(Filtered(ver, call.minimum)))

Page ==
  LET found == Filtered(held[1].ver, call.minimum)
      to == IF call.from.offset + call.limit < Len(found) THEN call.from.offset + call.limit ELSE Len(found)
  IN  [findings |-> SubSeq(found, call.from.offset + 1, to),
       next |-> IF to < Len(found) THEN Scope(call.run, held[1].ver) @@ [offset |-> to] ELSE NoCursor]

Step ==
  /\ todo # <<>>
  /\ LET what == Head(todo)[1]
         r == Head(todo)[2]
         s == Head(todo)[3]
     IN  \/ what = "observe" /\ observe(r, s)
         \/ what = "snapshot" /\ readCommittedSnapshot(r, s)
         \/ what = "artifact" /\ readAuxiliaryArtifact(r, s)
         \/ what = "confirm" /\ confirmStableP2Observation(r, s)
         \/ what = "lineage" /\ committedArtifactRetired(r, s)
         \/ what = "recovery" /\ readRecovery(r)
         \/ what = "unpublished" /\ Require(pub[r].state = "not_published")
         \/ what = "recovery_lineage" /\ recoveryArtifactRetired(r)
         \/ what = "replay" /\ verifyRecoveryReplay(r)
         \/ what = "same" /\ Require(held[1] = held[2])
         \/ what = "status" /\ readStatus(r)
         \/ what = "inspect" /\ inspect(r)
         \/ what = "page" /\ checkPage(r)

(* Every read succeeded.                                                   *)
Answered(is) ==
  [NoAnswer EXCEPT !.is = is, !.run = call.run, !.ver = held[1].ver, !.again = held[2].ver, !.last = last, !.minimum = call.minimum]

Finish ==
  /\ call.op # "idle" /\ todo = <<>>
  /\ \/ /\ call.op \in {"read", "excerpt", "composition"}
        /\ End(Answered("review")) /\ UNCHANGED <<cursor, pages>>
     \/ /\ call.op \in {"report", "attempt", "content"}
        /\ End(Answered("content")) /\ UNCHANGED <<cursor, pages>>
     \/ call.op = "recovery" /\ End(Answered("recovery")) /\ UNCHANGED <<cursor, pages>>
     \/ /\ call.op = "status" /\ held[1] # Absent
        /\ End([Answered("status") EXCEPT !.status = "committed"]) /\ UNCHANGED <<cursor, pages>>
     \/ call.op \in {"status", "inspect"} /\ held[1] = Absent /\ AnswerStatus("not_published")
     \/ /\ call.op = "inspect" /\ held[1] # Absent
        /\ End(Answered("page")) /\ cursor' = Page.next /\ pages' = pages \o Page.findings

Init ==
  /\ pub \in {[r \in Runs |-> Absent], [r \in Runs |-> IF r = 1 THEN [state |-> "committed", ver |-> 1] ELSE Absent],
              [r \in Runs |-> [state |-> "committed", ver |-> 1]],
              [r \in Runs |-> IF r = 1 THEN [state |-> "corrupt", ver |-> 0] ELSE [state |-> "committed", ver |-> 1]]}
  /\ support = [r \in Runs |-> pub[r].ver]
  /\ recovery \in [Runs -> {"absent", "valid", "invalid"}] /\ \A r \in Runs : pub[r].state # "not_published" => recovery[r] = "absent" \/ (r = 1 /\ pub[2] = Absent /\ recovery[r] = "valid")
  /\ origin \in [kind : {"published_review", "failed_run_recovery"}, exact : BOOLEAN]
  /\ retired \in {{}, {<<1, 1>>}, {<<1, 0>>}, {<<2, 1>>}}
  /\ \A q \in retired : IF q[2] = 0 THEN recovery[q[1]] = "valid" ELSE pub[q[1]].state = "committed"
  /\ origin.exact => recovery[2] = "valid"
  /\ call = Idle /\ todo = <<>> /\ held = [s \in Slots |-> Absent] /\ last = Absent /\ answer = NoAnswer
  /\ cursor = NoCursor /\ pages = <<>> /\ was = [r \in Runs |-> {}] /\ steady = Runs /\ upsets = 0

Next ==
  \/ \E r \in Runs : Stage(r) \/ Commit(r) \/ Restore(r) \/ DeleteSupport(r) \/ DeletePublication(r) \/ DeleteRest(r)
  \/ Begin \/ Step \/ Finish \/ Cancel

-----------------------------------------------------------------------------
TypeOK ==
  /\ pub \in [Runs -> [state : {"not_published", "staged", "committed", "corrupt"}, ver : 0 .. 2]]
  /\ support \in [Runs -> 0 .. 2] /\ upsets \in 0 .. MaxUpsets
  /\ held \in [Slots -> [state : {"not_published", "committed"}, ver : 0 .. 2]]
  /\ answer.is \in {"none", "failure", "status", "review", "content", "recovery", "page"}
  /\ was \in [Runs -> SUBSET {1, 2}] /\ steady \subseteq Runs

(* Whatever is answered about a publication was committed during the call,  *)
(* every part of the answer is of that one publication, and a status, a     *)
(* page or content was still published when its last part had been read.    *)
AnswerWasCommitted ==
  /\ answer.is \in {"review", "page", "content"} \/ answer.status = "committed" =>
       answer.ver \in was[answer.run] /\ answer.again \in {0, answer.ver}
  /\ answer.is \in {"page", "content"} \/ answer.status = "committed" =>
       answer.last = [state |-> "committed", ver |-> answer.ver]

(* No review is handed out whose own providers, or whose source's, are      *)
(* retired - unless the source was changed under the call or cannot be      *)
(* resolved.                                                                *)
RetiredIsRefused ==
  /\ answer.is \in {"review", "page", "content"} => <<answer.run, answer.ver>> \notin retired
  /\ answer.is \in {"review", "page", "content", "recovery"} /\ answer.run = 2 /\ 1 \in steady =>
       /\ origin.kind = "published_review" /\ pub[1].state = "committed" => <<1, pub[1].ver>> \notin retired
       /\ origin.kind = "failed_run_recovery" /\ recovery[1] = "valid" => <<1, 0>> \notin retired

(* A cancelled or an undisturbed read never calls an intact run corrupt.    *)
Intact(r) ==
  \/ pub[r].state = "staged"
  \/ pub[r].state = "committed" /\ support[r] = pub[r].ver /\ <<r, pub[r].ver>> \notin retired
  \/ pub[r].state = "not_published" /\ recovery[r] = "absent"
  \/ pub[r].state = "not_published" /\ recovery[r] = "valid" /\ r = 1 /\ <<r, 0>> \notin retired

CorruptIsReal == answer.status = "corrupt" /\ steady = Runs => ~Intact(answer.run)

(* The pages read along one chain of cursors are the findings at or above   *)
(* the severity, in order, none twice and none left out.                    *)
PagesTile ==
  answer.is = "page" =>
    LET all == Filtered(answer.ver, answer.minimum)
    IN  /\ pages = SubSeq(all, 1, Len(pages))
        /\ IF cursor = NoCursor THEN pages = all ELSE cursor.offset = Len(pages)

(* A recovery is offered only while the run is unpublished, and an exact    *)
(* retry's only with a failed ancestor that was never published.            *)
RecoveryIsUnpublished ==
  answer.is = "recovery" /\ answer.run \in steady =>
    /\ pub[answer.run].state = "not_published" /\ recovery[answer.run] = "valid"
    /\ (answer.run = 2 /\ origin.exact /\ 1 \in steady) =>
         IF origin.kind = "failed_run_recovery" THEN pub[1].state = "not_published" /\ recovery[1] = "valid"
         ELSE pub[1].state = "committed"

ReadsAreCommitted ==
  AnswerWasCommitted /\ RetiredIsRefused /\ CorruptIsReal /\ PagesTile /\ RecoveryIsUnpublished

=============================================================================
