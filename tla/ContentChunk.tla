---------------------------- MODULE ContentChunk ----------------------------
(***************************************************************************)
(* Bounded chunks of verified content: a text is cut at a rune boundary,   *)
(* and a continuation is accepted only at an offset that was issued, for   *)
(* the publication and the content it was issued for.                      *)
(***************************************************************************)
EXTENDS Integers, Sequences, SequencesExt, FiniteSetsExt

CONSTANTS
  MaxChunk   \* MaxVerifiedContentChunkBytes: at least 4, the longest rune

(* Content: its bytes, each the start of a rune or the continuation of one. *)
Start == "start"

(* The bytes of runes of the given lengths.                                *)
Encoded(lengths) ==
  FoldLeft(LAMBDA data, n : data \o [i \in 1 .. n |-> IF i = 1 THEN Start ELSE "cont"], <<>>, lengths)

Lesser(a, b) == IF a < b THEN a ELSE b

contentChunkEnd(data, text, start) ==
  LET end == Lesser(start + MaxChunk, Len(data))
  IN  IF text /\ end < Len(data)
      THEN Max({start} \cup {e \in start + 1 .. end : data[e + 1] = Start})
      ELSE end

(* ContentContinuation: an offset, and what it was issued for (if given).  *)
Check(continuation, receipt, digest) ==
  /\ continuation.offset > 0 => continuation.receipt # {} /\ continuation.digest # {}
  /\ continuation.receipt \subseteq {receipt} /\ continuation.digest \subseteq {digest}

(* The offsets at which chunks start.                                      *)
Issued(data, text) ==
  LET from[start \in 0 .. Len(data)] ==
        LET end == contentChunkEnd(data, text, start)
        IN  {start} \cup (IF end \in {start, Len(data)} THEN {} ELSE from[end])
  IN  from[0]

NewContentChunk(data, text, receipt, continuation) ==
  LET start == continuation.offset
      end == contentChunkEnd(data, text, start)
  IN  IF /\ Check(continuation, receipt, data)
         /\ start < Len(data) \/ start = 0
         /\ start \in Issued(data, text)
      THEN [ok |-> TRUE, start |-> start, end |-> end, next |-> [offset |-> end, receipt |-> {receipt}, digest |-> {data}]]
      ELSE [ok |-> FALSE]

(* Reading to the end from each continuation issued so far: the chunks read. *)
ReadAll(data, text) ==
  LET read[c \in [offset : 0 .. Len(data), receipt : SUBSET {"receipt"}, digest : SUBSET {data}]] ==
        LET chunk == NewContentChunk(data, text, "receipt", c)
        IN  IF ~chunk.ok \/ chunk.end \in {chunk.start, Len(data)} THEN <<chunk>>
            ELSE <<chunk>> \o read[chunk.next]
  IN  read[[offset |-> 0, receipt |-> {}, digest |-> {}]]

(* Whoever follows the continuations gets the whole content, in order, in  *)
(* chunks within the bound, and of a text never half a rune.               *)
ChunksTile(data, text) ==
  LET chunks == ReadAll(data, text)
  IN  /\ \A i \in DOMAIN chunks : chunks[i].ok
      /\ chunks[1].start = 0 /\ chunks[Len(chunks)].end = Len(data)
      /\ \A i \in 1 .. Len(chunks) - 1 : chunks[i].end = chunks[i + 1].start
      /\ \A i \in DOMAIN chunks : chunks[i].end - chunks[i].start <= MaxChunk
      /\ text => \A i \in DOMAIN chunks : chunks[i].start > 0 => data[chunks[i].start + 1] = Start
=============================================================================
