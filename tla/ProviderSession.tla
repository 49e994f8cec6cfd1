-------------------------- MODULE ProviderSession ---------------------------
(***************************************************************************)
(* One conversation of a protocol driver with a provider: the driver of a  *)
(* family, its settings, and a provider that answers what it was asked -   *)
(* in any order, more than once, rightly or not - and sends events and     *)
(* requests of its own at any time.  The stream may end, a line may not be *)
(* a message, a line may not be accepted, the invocation may be cancelled, *)
(* and the reviewed source may change under a live review.                 *)
(*                                                                         *)
(* Assumption on the provider: it does not answer a request that was not   *)
(* sent (ZCode's acceptSend does not check that it sent session/send).     *)
(***************************************************************************)
EXTENDS ProviderConversation

CONSTANT Settings   \* the sessions to open: family, purpose and what is configured

VARIABLES
  session,  \* the settings of this session, with its family and purpose
  conv,     \* the driver's conversation
  asked,    \* the lines the provider received
  prompts,  \* how many of them were the prompt
  granted,  \* whether its permissions were within their bounds
  drift     \* the live source no longer validates

vars == <<session, conv, asked, prompts, granted, drift>>

Start(s) ==
  CASE s.family = "zcode" -> ZcodeStart(s)
    [] s.family = "grok" -> GrokStart
    [] s.family = "cursor" -> CursorStart
    [] s.family = "codex" -> CodexStart
    [] OTHER -> AgyStart

Handle(s, c, m, d) ==
  CASE s.family = "zcode" -> ZcodeHandle(s, c, m)
    [] s.family = "grok" -> GrokHandle(s, c, m, d)
    [] s.family = "cursor" -> CursorHandle(s, c, m, d)
    [] s.family = "codex" -> CodexHandle(c, m)
    [] OTHER -> AgyHandle(s, c, m, d)

StreamEnd(s, c) ==
  CASE s.family = "zcode" -> ZcodeStreamEnd(s, c)
    [] s.family = "codex" -> CodexStreamEnd(c)
    [] s.family = "agy" -> AgyStreamEnd(c)
    [] OTHER -> Fail(c, "provider_turn_failed")

ReceiptsOf(s, c) ==
  CASE s.family = "zcode" -> ZcodeReceipts(c)
    [] s.family = "grok" -> GrokReceipts(c)
    [] s.family = "cursor" -> CursorReceipts(c)
    [] s.family = "codex" -> CodexReceipts(c)
    [] OTHER -> AgyReceipts(c)

MessagesOf(s, lines) ==
  CASE s.family = "zcode" -> ZcodeMessagesOf(lines)
    [] s.family = "grok" -> GrokMessagesOf(s, lines)
    [] s.family = "cursor" -> CursorMessagesOf(s, lines)
    [] s.family = "codex" -> CodexMessagesOf(lines)
    [] OTHER -> AgyMessages

(* The deferred end of Drive: receipts that do not follow each other turn    *)
(* the outcome into observation_invalid.                                    *)
Concluded(s, c) ==
  IF c.end # "open" /\ ~ConsistentReceipts(ReceiptsOf(s, c)) THEN [c EXCEPT !.end = "observation_invalid"] ELSE c

Settled(s, c) == [Concluded(s, c) EXCEPT !.send = "none", !.after = {}]

(* What became of a line a handler wanted sent: accepted, or refused, which  *)
(* ends the conversation.                                                   *)
Taken(s, c) == Settled(s, Did(c, c.after))
Refused(s, c) == Settled(s, Fail(c, "provider_execution_failed"))

Init ==
  /\ session \in Settings
  /\ conv = Start(session)
  /\ asked = {} /\ prompts = 0 /\ granted = {} /\ drift = FALSE

(* What a permission is bound to: a captured review writes to its staged     *)
(* destination, once; a live review reads what is planned - Grok's from an   *)
(* unchanged source, Cursor's after the prompt.                              *)
WithinBounds(m) ==
  CASE session.purpose = "review" -> session.family = "grok" /\ m.operand = "staged" /\ granted = {}
    [] session.purpose = "live_review" ->
         /\ session.family = "grok" => m.operand = "planned" /\ ~drift
         /\ session.family = "cursor" =>
              /\ Has(conv, "promptSent") /\ m.from = "own"
              /\ "planned" \in {m.operand, conv.tools[m.tool].operand} /\ m.operand # "unplanned"
    [] OTHER -> FALSE

Open == conv.end = "open" /\ conv.send = "none"

(* The line the start of a conversation sends.                              *)
Begin ==
  /\ conv.send # "none"
  /\ \/ conv' = Taken(session, conv) /\ asked' = asked \cup {conv.send}
     \/ conv' = Refused(session, conv) /\ UNCHANGED asked
  /\ UNCHANGED <<session, prompts, granted, drift>>

Receive ==
  /\ Open
  /\ \E m \in MessagesOf(session, asked) :
       LET next == Handle(session, conv, m, drift)
       IN \/ /\ next.send = "none"
             /\ conv' = Settled(session, next) /\ UNCHANGED <<asked, prompts, granted>>
          \/ /\ next.send # "none"
             /\ conv' = Taken(session, next)
             /\ asked' = asked \cup {next.send}
             /\ prompts' = prompts + (IF next.send = "prompt" THEN 1 ELSE 0)
             /\ granted' = granted \cup (IF next.send = "grant" THEN {WithinBounds(m)} ELSE {})
          \/ /\ next.send # "none"
             /\ conv' = Refused(session, next) /\ UNCHANGED <<asked, prompts, granted>>
  /\ UNCHANGED <<session, drift>>

EndOfStream ==
  /\ Open
  /\ conv' = Settled(session, StreamEnd(session, conv))
  /\ UNCHANGED <<session, asked, prompts, granted, drift>>

Garbage ==
  /\ Open
  /\ conv' = Settled(session, Fail(conv, IF session.family = "agy" /\ Has(conv, "resultAccepted")
                                           THEN "output_envelope_invalid" ELSE "output_decode_failed"))
  /\ UNCHANGED <<session, asked, prompts, granted, drift>>

(* A cancelled receive is returned as it is; Cursor wraps it as a turn that  *)
(* did not complete.                                                        *)
Cancel ==
  /\ Open
  /\ conv' = Settled(session, Fail(conv, IF session.family = "cursor" THEN "provider_turn_failed" ELSE "cancelled"))
  /\ UNCHANGED <<session, asked, prompts, granted, drift>>

SourceDrifts ==
  /\ session.purpose = "live_review" /\ Open /\ ~drift
  /\ drift' = TRUE
  /\ UNCHANGED <<session, conv, asked, prompts, granted>>

Next == Begin \/ Receive \/ EndOfStream \/ Garbage \/ Cancel \/ SourceDrifts

Spec == Init /\ [][Next]_vars

-----------------------------------------------------------------------------
TypeOK ==
  /\ session \in Settings
  /\ conv.end \in STRING /\ conv.send \in STRING /\ DOMAIN conv.tools = Tools
  /\ prompts \in Nat /\ drift \in BOOLEAN

Completed == conv.end = "completed"

(* A completed conversation sent its prompt once and observed its end, and   *)
(* has the evidence that its purpose is read from: of a captured ZCode       *)
(* review and of a staged Grok review there is none in the conversation, a   *)
(* ZCode message list may hold no text.                                      *)
CompletedHadItsTurn ==
  Completed =>
    /\ prompts = 1 /\ ReceiptsOf(session, conv).send
    /\ CASE session.family = "zcode" -> /\ Has(conv, "turnCompleted")
                                        /\ ZcodeLive(session) => Has(conv, "messagesReceived")
         [] session.family = "grok" -> /\ {"promptCompleted", "closeAccepted"} \subseteq conv.did
                                       /\ session.purpose # "review" => Has(conv, "evidence")
         [] OTHER -> Has(conv, "evidence") /\ ReceiptsOf(session, conv).turn

(* No prompt leaves before the provider confirmed what was selected, and no  *)
(* conversation sends a second one.                                          *)
PromptFollowsSelection ==
  /\ prompts <= 1
  /\ prompts = 1 =>
       CASE session.family = "zcode" -> /\ session.model => Has(conv, "modelAccepted")
                                        /\ session.effort => Has(conv, "thoughtAccepted")
         [] session.family = "grok" -> /\ GrokConfigured(session) => {"setModelAccepted", "modelConfirmed"} \subseteq conv.did
                                       /\ session.effort => Has(conv, "effortConfirmed")
         [] session.family = "cursor" -> Has(conv, "askAcknowledged")
         [] OTHER -> TRUE

(* A completed conversation leaves no tool operation unfinished and none     *)
(* outside the plan, whatever order its updates came in; a purpose without   *)
(* a plan completes without any.                                             *)
ToolsAdmitted ==
  Completed /\ session.family \in {"cursor", "agy"} =>
    \A t \in Tools : LET tool == conv.tools[t] IN
      tool.kind[1] \notin {"", "progress"} =>
        session.purpose = "live_review" /\ tool.state \in {"completed", "done"} /\ tool.operand = "planned"

LiveToolsAdmitted ==
  Completed /\ session.family = "grok" /\ session.purpose = "live_review" =>
    \A t \in Tools : conv.tools[t].state \in {"none", "terminal"}
                     /\ (conv.tools[t].state = "terminal" => conv.tools[t].operand = "planned" /\ ~drift)

(* No permission is granted beyond its bounds.                               *)
GrantsAreBound == granted \subseteq {TRUE}

SessionsAreSound ==
  CompletedHadItsTurn /\ PromptFollowsSelection /\ ToolsAdmitted /\ LiveToolsAdmitted /\ GrantsAreBound
=============================================================================
