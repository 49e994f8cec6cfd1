------------------------ MODULE ProviderConversation ------------------------
(***************************************************************************)
(* The protocol drivers of the provider families, one section each, and    *)
(* what they share: the state of one conversation with a provider's native *)
(* CLI, and the receipts that the session observation keeps of it.  A      *)
(* driver reads one line, handles it and possibly sends one line; a        *)
(* handler therefore maps a conversation and a message to the next         *)
(* conversation, with the line it wants sent.                              *)
(***************************************************************************)
EXTENDS Naturals, FiniteSets

CONSTANT Tools   \* identities of the native tool operations a provider may report

(* kind: the kind of a tool and the name of its variant, as last reported.  *)
NoTool == [kind |-> <<"", "">>, operand |-> "", state |-> "none"]

(* did: the facts the driver has recorded; end: "open" until Drive returns, *)
(* then "completed" or the cause of its error; send: the line the handler   *)
(* wants sent; after: the facts it records only once that line is accepted. *)
Opening == [did |-> {}, outstanding |-> "", tools |-> [t \in Tools |-> NoTool],
            end |-> "open", send |-> "none", after |-> {}]

Did(c, facts) == [c EXCEPT !.did = @ \cup facts]
Undo(c, facts) == [c EXCEPT !.did = @ \ facts]
Fail(c, cause) == [c EXCEPT !.end = cause]
Done(c) == [c EXCEPT !.end = "completed"]
Send(c, line) == [c EXCEPT !.send = line]
SendThen(c, line, facts) == [c EXCEPT !.send = line, !.after = facts]

Has(c, fact) == fact \in c.did

Message(kind, id, body) == [kind |-> kind, id |-> id, body |-> body]

(* A tool the live read plan admits, and a source that still validates.     *)
LiveAllow(operand, drift) == ~drift /\ operand = "planned"

(* NewProviderSessionObservation: the receipts of a session follow each     *)
(* other; a driver whose facts do not is reported as observation_invalid.   *)
Receipts(create, sendAccepted, turn, messages, closeSent, closeAccepted) ==
  [create |-> create, send |-> sendAccepted, turn |-> turn, messages |-> messages,
   closeSent |-> closeSent, closeAccepted |-> closeAccepted]

ConsistentReceipts(r) ==
  /\ r.send => r.create
  /\ r.turn => r.send
  /\ r.messages => r.turn
  /\ r.closeAccepted => r.closeSent

-----------------------------------------------------------------------------
(***************************************************************************)
(* The ZCode driver: an optional account configuration, session/create,    *)
(* optional model and thought-level selection, one session/send, the       *)
(* terminal event of the turn, an optional read of the messages and        *)
(* session/close.  A settings record says for what purpose the session is  *)
(* and what the configuration asks for.                                     *)
(***************************************************************************)

ZcodeCaptures(s) == s.purpose # "review"
ZcodeLive(s) == s.purpose \in {"live_review", "live_extraction"}
ZcodeExtraction(s) == s.purpose \in {"extraction", "live_extraction"}

ZcodeSendCreate(c) == Send(c, "create")
ZcodeSendModel(c) == SendThen(c, "model", {"modelPending"})
ZcodeSendThought(c) == SendThen(c, "thought", {"thoughtPending"})
ZcodeSendPrompt(c) == Send(c, "prompt")
ZcodeSendClose(c) == Send(Did(c, {"closeSent"}), "close")

ZcodeStart(s) ==
  IF s.account THEN Send(Did(Opening, {"accountPending"}), "account") ELSE ZcodeSendCreate(Opening)

ZcodeAfterModel(s, c) == IF s.effort THEN ZcodeSendThought(c) ELSE ZcodeSendPrompt(c)

ZcodeAccount(c, body) ==
  CASE body = "error" -> Fail(Undo(c, {"accountPending"}), "provider_execution_failed")
    [] body = "ok" -> ZcodeSendCreate(Undo(c, {"accountPending"}))
    [] OTHER -> Fail(Undo(c, {"accountPending"}), "output_envelope_invalid")

(* acceptCreate: a second answer is refused; the selected model must be     *)
(* listed once, with a default reasoning level.                             *)
ZcodeCreate(s, c, body) ==
  CASE Has(c, "createAccepted") \/ body = "invalid" -> Fail(c, "output_envelope_invalid")
    [] s.model /\ body = "unlisted" -> Fail(Did(c, {"createAccepted"}), "selection")
    [] OTHER -> IF s.model THEN ZcodeSendModel(Did(c, {"createAccepted"}))
                ELSE ZcodeAfterModel(s, Did(c, {"createAccepted"}))

(* The error of a refused selection: a missing model is a configuration    *)
(* failure, what may pass is reported as what it is.                       *)
ZcodeModelCauses ==
  [unavailable |-> "selection", auth |-> "authentication_failed", rate |-> "rate_limited",
   timeout |-> "timed_out", error |-> "provider_execution_failed"]

ZcodeModel(s, c, body) ==
  LET answered == Undo(c, {"modelPending"})
  IN CASE body = "ok" -> ZcodeAfterModel(s, Did(answered, {"modelAccepted"}))
       [] body \in DOMAIN ZcodeModelCauses -> Fail(answered, ZcodeModelCauses[body])
       [] OTHER -> Fail(answered, "output_envelope_invalid")

ZcodeThought(c, body) ==
  LET answered == Undo(c, {"thoughtPending"})
  IN CASE body = "ok" -> ZcodeSendPrompt(Did(answered, {"thoughtAccepted"}))
       [] body = "error" -> Fail(answered, "selection")
       [] OTHER -> Fail(answered, "output_envelope_invalid")

ZcodeSend(c, body) ==
  IF Has(c, "sendAccepted") \/ ~Has(c, "createAccepted") \/ body # "ok"
    THEN Fail(c, "output_envelope_invalid")
    ELSE Did(c, {"sendAccepted"})

(* acceptMessages: the extraction trailer drops the narration that comes    *)
(* with tool calls, the other purposes keep every assistant text.           *)
ZcodeMessages(s, c, body) ==
  IF ~Has(c, "messagesRequested") \/ Has(c, "messagesReceived") \/ body = "invalid"
    THEN Fail(c, "output_envelope_invalid")
    ELSE ZcodeSendClose(Did(c, {"messagesReceived"} \cup
           IF body = "text" \/ (body = "narration" /\ ~ZcodeExtraction(s)) THEN {"evidence"} ELSE {}))

ZcodeResponse(s, c, m) ==
  CASE Has(c, "closeSent") ->
         CASE m.id # "close" -> c
           [] m.body = "error" -> Fail(c, "provider_execution_failed")
           [] OTHER -> Done(Did(c, {"closeAccepted"}))
    [] Has(c, "accountPending") /\ m.id = "account" -> ZcodeAccount(c, m.body)
    [] s.model /\ Has(c, "modelPending") /\ ~Has(c, "modelAccepted") /\ m.id = "model" -> ZcodeModel(s, c, m.body)
    [] Has(c, "thoughtPending") /\ m.id = "thought" -> ZcodeThought(c, m.body)
    [] m.body = "error" ->
         IF m.id \in {"create", "prompt", "messages", "close"} THEN Fail(c, "provider_execution_failed") ELSE c
    [] m.id = "create" -> ZcodeCreate(s, c, m.body)
    [] m.id = "prompt" -> ZcodeSend(c, m.body)
    [] m.id = "messages" -> ZcodeMessages(s, c, m.body)
    [] OTHER -> c

ZcodeTurnEvent(s, c, m) ==
  CASE ~({"createAccepted", "sendAccepted"} \subseteq c.did) -> Fail(c, "output_envelope_invalid")
    [] m.body = "other" -> IF ZcodeLive(s) THEN c ELSE Fail(c, "output_envelope_invalid")
    [] m.id = "turn_failed" -> Fail(Did(c, {"turnObserved"}), "provider_turn_failed")
    [] ZcodeLive(s) /\ m.body = "anonymous" -> Fail(c, "output_envelope_invalid")
    [] OTHER ->
         LET turned == Did(c, {"turnObserved", "turnCompleted"})
         IN IF ZcodeCaptures(s) /\ ~Has(c, "messagesReceived")
              THEN Send(Did(turned, {"messagesRequested"}), "messages")
              ELSE ZcodeSendClose(turned)

ZcodeNotification(s, c, m) ==
  CASE m.id = "unreadable" -> Fail(c, "protocol_event_decode_failed")
    [] m.id \in {"turn_completed", "turn_failed"} -> ZcodeTurnEvent(s, c, m)
    [] OTHER -> c

(* Only two requests of the server are answered, one of them with the       *)
(* account's credential or a refusal; every other is left to time out.      *)
ZcodeServerRequest(c, m) == IF m.id \in {"preferences", "headers"} THEN Send(c, "answer") ELSE c

ZcodeHandle(s, c, m) ==
  CASE m.kind = "event" -> ZcodeNotification(s, c, m)
    [] m.kind = "request" -> ZcodeServerRequest(c, m)
    [] OTHER -> ZcodeResponse(s, c, m)

(* The stream ended: a completed turn keeps its evidence, a live turn only  *)
(* once its messages were read.                                             *)
ZcodeStreamEnd(s, c) ==
  IF Has(c, "turnCompleted") /\ (~ZcodeLive(s) \/ Has(c, "messagesReceived")) THEN Done(c) ELSE Fail(c, "provider_turn_failed")

ZcodeReceipts(c) ==
  Receipts(Has(c, "createAccepted"), Has(c, "sendAccepted"), Has(c, "turnObserved"),
           Has(c, "messagesReceived"), Has(c, "closeSent"), Has(c, "closeAccepted"))

(* What the server may say: answers to requests it was asked, with every    *)
(* body the driver tells apart, and events and requests at any time.        *)
ZcodeMessagesOf(asked) ==
  {Message("response", id, body) : id \in asked \cap {"account", "model", "thought", "prompt", "close", "create", "messages"},
                                   body \in {"ok", "invalid", "error"}}
  \cup {Message("response", "create", "unlisted") : id \in asked \cap {"create"}}
  \cup {Message("response", "model", body) : id \in asked \cap {"model"}, body \in {"unavailable", "auth", "rate", "timeout"}}
  \cup {Message("response", "messages", body) : id \in asked \cap {"messages"}, body \in {"text", "narration"}}
  \cup {Message("event", id, body) : id \in {"turn_completed", "turn_failed"}, body \in {"own", "other", "anonymous"}}
  \cup {Message("event", "unreadable", ""), Message("event", "progress", "own")}
  \cup {Message("request", id, "") : id \in {"preferences", "headers", "mcp_auth"}}

-----------------------------------------------------------------------------
(***************************************************************************)
(* The Grok driver (Agent Client Protocol): initialize, authenticate,      *)
(* session/new, session/set_model when model or effort are configured,     *)
(* session/prompt once the selection is confirmed, session/close.  A       *)
(* captured review writes its report through one permission bound to the   *)
(* staged destination; a live review may only read what the plan names.    *)
(***************************************************************************)

GrokStart == Send(Opening, "initialize")

GrokConfigured(s) == s.model \/ s.effort

GrokStartPrompt(c) ==
  IF ~Has(c, "sessionCreated") \/ Has(c, "promptSent")
    THEN Fail(c, "output_envelope_invalid")
    ELSE SendThen(c, "prompt", {"promptSent"})

GrokMaybeStartPrompt(s, c) ==
  IF /\ ~Has(c, "promptSent")
     /\ {"setModelAccepted", "modelConfirmed"} \subseteq c.did
     /\ s.effort => Has(c, "effortConfirmed")
    THEN GrokStartPrompt(c)
    ELSE c

GrokInitialize(c, body) ==
  IF Has(c, "initialized") \/ body # "ok"
    THEN Fail(c, "output_envelope_invalid")
    ELSE Send(Did(c, {"initialized"}), "authenticate")

GrokAuthenticate(c) ==
  IF ~Has(c, "initialized") \/ Has(c, "authenticated")
    THEN Fail(c, "output_envelope_invalid")
    ELSE Send(Did(c, {"authenticated"}), "new")

(* A session that names no current model cannot have only its effort set.   *)
GrokSessionNew(s, c, body) ==
  CASE ~Has(c, "authenticated") \/ Has(c, "sessionCreated") \/ body = "invalid" -> Fail(c, "output_envelope_invalid")
    [] ~GrokConfigured(s) -> GrokStartPrompt(Did(c, {"sessionCreated"}))
    [] ~s.model /\ body = "no_model" -> Fail(Did(c, {"sessionCreated"}), "output_envelope_invalid")
    [] OTHER -> Send(Did(c, {"sessionCreated", "setModelSent"}), "set_model")

GrokSetModel(s, c, body) ==
  IF ~({"sessionCreated", "setModelSent"} \subseteq c.did) \/ Has(c, "setModelAccepted") \/ body # "ok"
    THEN Fail(c, "output_envelope_invalid")
    ELSE GrokMaybeStartPrompt(s, Did(c, {"setModelAccepted"}))

(* allow: an exact plan command, or a path the source reader serves, of a    *)
(* source that still validates.                                             *)
GrokAllow(kind, variant, operand, drift) ==
  <<kind, variant>> \in {<<"execute", "Bash">>, <<"read", "ReadFile">>} /\ LiveAllow(operand, drift)

GrokFinishLiveTools(s, c, drift) ==
  s.purpose = "live_review" =>
    \A t \in Tools : c.tools[t].state # "none" =>
      c.tools[t].state = "terminal" /\ GrokAllow(c.tools[t].kind[1], c.tools[t].kind[2], c.tools[t].operand, drift)

GrokPrompt(s, c, body, drift) ==
  CASE ~({"sessionCreated", "promptSent"} \subseteq c.did) \/ Has(c, "promptCompleted") \/ body # "ok" ->
         Fail(c, "provider_turn_failed")
    [] ~GrokFinishLiveTools(s, c, drift) -> Fail(c, "permission_denied")
    [] s.purpose # "review" /\ ~Has(c, "evidence") -> Fail(Did(c, {"promptCompleted"}), "output_missing")
    [] OTHER -> Send(Did(c, {"promptCompleted", "closeSent"}), "close")

GrokClose(s, c, drift) ==
  CASE ~({"closeSent", "promptCompleted"} \subseteq c.did) -> Fail(c, "output_envelope_invalid")
    [] ~GrokFinishLiveTools(s, c, drift) -> Fail(c, "permission_denied")
    [] OTHER -> Done(Did(c, {"closeAccepted"}))

GrokRequests == {"initialize", "authenticate", "new", "set_model", "prompt", "close"}

GrokResponse(s, c, m, drift) ==
  CASE m.id \notin GrokRequests -> c
    [] m.body = "error" -> Fail(c, "provider_execution_failed")
    [] m.id = "initialize" -> GrokInitialize(c, m.body)
    [] m.id = "authenticate" -> GrokAuthenticate(c)
    [] m.id = "new" -> GrokSessionNew(s, c, m.body)
    [] m.id = "set_model" -> GrokSetModel(s, c, m.body)
    [] m.id = "prompt" -> GrokPrompt(s, c, m.body, drift)
    [] OTHER -> GrokClose(s, c, drift)

(* config_option_update: an option with another value than the one asked    *)
(* for ends the conversation, and once set_model is sent a confirmation     *)
(* names every option asked for.                                            *)
GrokConfigUpdate(s, c, m) ==
  LET confirmed == Did(c, (IF m.model = "want" THEN {"modelConfirmed"} ELSE {})
                          \cup (IF s.effort /\ m.effort = "want" THEN {"effortConfirmed"} ELSE {}))
  IN IF \/ m.model = "other" \/ (s.effort /\ m.effort = "other")
        \/ Has(c, "setModelSent") /\ (m.model = "absent" \/ (s.effort /\ m.effort = "absent"))
       THEN Fail(c, "output_envelope_invalid")
       ELSE GrokMaybeStartPrompt(s, confirmed)

GrokChunk(s, c, body) == IF s.purpose # "review" /\ body = "text" THEN Did(c, {"evidence"}) ELSE c

(* observeLiveTool merges the updates of one operation; whatever makes it    *)
(* terminal, and every update after that, is checked against the plan.      *)
GrokObserveLiveTool(c, m, drift) ==
  LET old == c.tools[m.tool]
      kind == IF m.kind # "" THEN m.kind ELSE old.kind[1]
      variant == IF m.variant # "" THEN m.variant ELSE old.kind[2]
      operand == IF m.operand # "" THEN m.operand ELSE old.operand
      terminal == old.state = "terminal" \/ m.status \in {"completed", "failed"}
  IN IF \/ old.state = "terminal" /\ m.status = "pending"
        \/ m.variant # "" /\ old.kind[2] \notin {"", m.variant}
        \/ terminal /\ ~GrokAllow(kind, variant, operand, drift)
       THEN Fail(c, "permission_denied")
       ELSE [c EXCEPT !.tools[m.tool] = [kind |-> <<kind, variant>>, operand |-> operand,
                                         state |-> IF terminal THEN "terminal" ELSE "open"]]

(* Of a captured review only where a tool works is kept, to bind the write   *)
(* permission to it.                                                        *)
GrokObserveTool(c, m) ==
  IF m.operand = "" THEN c
  ELSE [c EXCEPT !.tools[m.tool] = [kind |-> <<"", "">>, operand |-> m.operand, state |-> "open"]]

GrokTool(s, c, m, drift) ==
  LET live == s.purpose = "live_review"
      seen == IF live THEN GrokObserveLiveTool(c, m, drift) ELSE GrokObserveTool(c, m)
  IN CASE live /\ m.variant \notin {"", "ReadFile", "Bash"} -> Fail(c, "permission_denied")
       [] ~live /\ m.variant \notin {"", "ReadFile", "Grep", "ListDir", "Write"} -> Fail(c, "permission_denied")
       [] seen.end # "open" \/ m.kind \in {"", "read", "search", "other"} \/ (live /\ m.kind = "execute") -> seen
       [] live \/ m.kind # "edit" \/ m.operand = "" -> Fail(seen, "permission_denied")
       [] OTHER -> seen

GrokNotification(s, c, m, drift) ==
  CASE m.id = "mcp" -> IF m.body = "active" THEN Fail(c, "permission_denied") ELSE c
    [] m.id = "unknown" -> c
    [] m.id = "unreadable" -> Fail(c, "output_decode_failed")
    [] ~Has(c, "sessionCreated") \/ m.from # "own" -> Fail(c, "output_envelope_invalid")
    [] m.id = "config" -> GrokConfigUpdate(s, c, m)
    [] m.id = "chunk" -> GrokChunk(s, c, m.body)
    [] OTHER -> GrokTool(s, c, m, drift)

(* A captured review's permission: once, for its own session, for the write  *)
(* to the staged destination where the tool was seen to work.               *)
GrokWritePermission(s, c, m) ==
  IF /\ s.purpose = "review" /\ ~Has(c, "permissionGranted") /\ m.id = "permission" /\ m.from = "own"
     /\ m.kind = "edit" /\ m.variant = "Write" /\ m.operand = "staged"
     /\ c.tools[m.tool].operand = "staged" /\ m.once
    THEN SendThen(c, "grant", {"permissionGranted"})
    ELSE Fail(c, "permission_denied")

GrokLiveReadPermission(c, m, drift) ==
  CASE m.id # "permission" -> Fail(c, "permission_denied")
    [] m.from # "own" -> Fail(c, "output_envelope_invalid")
    [] ~GrokAllow(m.kind, m.variant, m.operand, drift) \/ ~m.once -> Fail(c, "permission_denied")
    [] OTHER -> Send(c, "grant")

GrokHandle(s, c, m, drift) ==
  CASE m.kindOf = "response" -> GrokResponse(s, c, m, drift)
    [] m.kindOf = "event" -> GrokNotification(s, c, m, drift)
    [] s.purpose = "live_review" -> GrokLiveReadPermission(c, m, drift)
    [] OTHER -> GrokWritePermission(s, c, m)

GrokReceipts(c) ==
  Receipts(Has(c, "sessionCreated"), Has(c, "promptSent"), Has(c, "promptCompleted"),
           {"promptCompleted", "evidence"} \subseteq c.did, Has(c, "closeSent"), Has(c, "closeAccepted"))

GrokMessage(kindOf, id, from, body) ==
  [kindOf |-> kindOf, id |-> id, from |-> from, body |-> body, model |-> "absent", effort |-> "absent",
   tool |-> "", kind |-> "", variant |-> "", operand |-> "", status |-> "", once |-> TRUE]

(* The tool updates a provider may send, and the operands of its purpose.   *)
GrokToolUpdates(s) ==
  LET Update(kind, variant, operand, status, once) ==
        {[GrokMessage("event", "tool", "own", "") EXCEPT !.tool = t, !.kind = kind, !.variant = variant,
             !.operand = operand, !.status = status, !.once = once] : t \in Tools}
  IN IF s.purpose = "live_review"
       THEN UNION {Update(p[1], p[2], operand, status, TRUE) :
                     p \in {<<"read", "ReadFile">>, <<"execute", "Bash">>}, operand \in {"planned", "unplanned"},
                     status \in {"pending", "completed"}}
            \cup Update("", "ReadFile", "", "pending", TRUE) \cup Update("", "", "", "failed", TRUE)
            \cup Update("", "", "planned", "completed", TRUE) \cup Update("edit", "Write", "planned", "pending", TRUE)
       ELSE Update("edit", "Write", "staged", "pending", TRUE) \cup Update("edit", "Write", "", "pending", TRUE)
            \cup Update("", "", "elsewhere", "", TRUE) \cup Update("execute", "Bash", "", "pending", TRUE)
            \cup Update("delete", "", "staged", "", TRUE) \cup Update("read", "ReadFile", "", "completed", TRUE)

GrokPermissions(s) ==
  {[GrokMessage("request", id, from, "") EXCEPT !.tool = t, !.kind = p[1], !.variant = p[2], !.operand = p[3], !.once = once] :
     id \in {"permission", "terminal"}, from \in {"own", "other"}, t \in Tools, once \in BOOLEAN,
     p \in IF s.purpose = "live_review"
             THEN {<<"read", "ReadFile", "planned">>, <<"execute", "Bash", "unplanned">>}
             ELSE {<<"edit", "Write", "staged">>, <<"edit", "Write", "elsewhere">>}}

GrokMessagesOf(s, asked) ==
  {GrokMessage("response", id, "own", body) : id \in asked \cap GrokRequests, body \in {"ok", "invalid", "error"}}
  \cup {GrokMessage("response", id, "own", "no_model") : id \in asked \cap {"new"}}
  \cup {[GrokMessage("event", "config", from, "") EXCEPT !.model = model, !.effort = effort] :
          from \in {"own", "other"}, model \in {"absent", "want", "other"}, effort \in {"absent", "want", "other"}}
  \cup {GrokMessage("event", "chunk", "own", body) : body \in {"text", "image"}}
  \cup {GrokMessage("event", "mcp", "own", body) : body \in {"active", "empty"}}
  \cup {GrokMessage("event", id, "own", "") : id \in {"unknown", "unreadable"}}
  \cup GrokToolUpdates(s) \cup GrokPermissions(s)

-----------------------------------------------------------------------------
(***************************************************************************)
(* The Cursor driver (Agent Client Protocol): initialize, session/new,     *)
(* session/set_mode ask, and session/prompt as soon as the ask mode is     *)
(* acknowledged - by the answer to set_mode or by an update that may       *)
(* overtake it.  Only one request is outstanding at a time.                *)
(***************************************************************************)

Outstanding(c, id) == [c EXCEPT !.outstanding = id]

CursorStart == Outstanding(Send(Opening, "initialize"), "initialize")

CursorMaybePrompt(c) ==
  IF Has(c, "promptSent") \/ ~Has(c, "askAcknowledged") THEN c
  ELSE Send(Outstanding(Did(c, {"promptSent"}), IF c.outstanding = "" THEN "prompt" ELSE c.outstanding), "prompt")

CursorInitialize(c, body) ==
  IF c.outstanding # "initialize" \/ body # "ok" THEN Fail(c, "output_envelope_invalid")
  ELSE Send(Outstanding(c, "new"), "new")

CursorNew(c, body) ==
  IF c.outstanding # "new" \/ body # "ok" THEN Fail(c, "output_envelope_invalid")
  ELSE Send(Outstanding(Did(c, {"sessionCreated"}), "mode"), "mode")

CursorMode(c, body) ==
  IF c.outstanding # "mode" THEN Fail(c, "output_envelope_invalid")
  ELSE LET asked == CursorMaybePrompt(Outstanding(IF body = "ok" THEN Did(c, {"askAcknowledged"}) ELSE c, ""))
       IN IF Has(asked, "promptSent") THEN Outstanding(asked, "prompt") ELSE asked

(* A plan command is compared with the plan only; a path is also read from   *)
(* a source that must still validate.                                       *)
CursorAllow(tool, drift) ==
  \/ tool.kind[1] = "execute" /\ tool.operand = "planned"
  \/ tool.kind[1] = "read" /\ LiveAllow(tool.operand, drift)

CursorFinishTools(s, c, drift) ==
  \A t \in Tools : c.tools[t].state # "none" =>
    s.purpose = "live_review" /\ c.tools[t].state = "completed" /\ CursorAllow(c.tools[t], drift)

CursorPrompt(s, c, body, drift) ==
  CASE c.outstanding # "prompt" -> Fail(c, "output_envelope_invalid")
    [] body # "ok" -> Fail(c, "provider_turn_failed")
    [] ~CursorFinishTools(s, c, drift) -> Fail(c, "permission_denied")
    [] ~Has(c, "evidence") -> Fail(c, "output_missing")
    [] OTHER -> Done(Outstanding(Did(c, {"promptCompleted"}), ""))

CursorResponse(s, c, m, drift) ==
  CASE m.body = "error" -> Fail(c, "provider_execution_failed")
    [] m.id = "initialize" -> CursorInitialize(c, m.body)
    [] m.id = "new" -> CursorNew(c, m.body)
    [] m.id = "mode" -> CursorMode(c, m.body)
    [] m.id = "prompt" -> CursorPrompt(s, c, m.body, drift)
    [] OTHER -> Fail(c, "output_envelope_invalid")

(* observeTool: a finished operation stays finished, and what identifies it  *)
(* is never replaced by something else.                                     *)
Drifts(old, new) == old # "" /\ new # "" /\ old # new
Merged(old, new) == IF new = "" THEN old ELSE new

CursorClosedPurpose(s) == s.purpose \in {"qualification", "extraction", "live_extraction"}

CursorObserveTool(s, c, m, drift) ==
  LET old == c.tools[m.tool]
      tool == [kind |-> <<Merged(old.kind[1], m.kind), "">>, operand |-> Merged(old.operand, m.operand),
               state |-> IF m.status \in {"completed", "failed"} THEN m.status ELSE "open"]
      kept == [c EXCEPT !.tools[m.tool] = tool]
  IN CASE CursorClosedPurpose(s) \/ m.variant = "task" \/ m.kind \in {"edit", "delete"}
            \/ old.state \in {"completed", "failed"} -> Fail(c, "permission_denied")
       [] Drifts(old.kind[1], m.kind) \/ Drifts(old.operand, m.operand) -> Fail(c, "output_envelope_invalid")
       [] tool.kind[1] \notin {"", "read", "execute"} -> Fail(kept, "permission_denied")
       [] m.status = "failed" -> Fail(kept, "provider_turn_failed")
       [] m.status = "completed" /\ ~(s.purpose = "live_review" /\ CursorAllow(tool, drift)) ->
            Fail(kept, "permission_denied")
       [] OTHER -> kept

CursorUpdate(s, c, m, drift) ==
  CASE ~Has(c, "sessionCreated") \/ m.from # "own" -> Fail(c, "output_envelope_invalid")
    [] m.id = "mode" -> IF m.body = "ask" THEN CursorMaybePrompt(Did(c, {"askAcknowledged"})) ELSE c
    [] m.id = "chunk" -> IF ~Has(c, "promptSent") THEN Fail(c, "output_envelope_invalid")
                         ELSE IF m.body = "text" THEN Did(c, {"evidence"}) ELSE c
    [] m.id = "tool" -> CursorObserveTool(s, c, m, drift)
    [] OTHER -> c

(* A permission request is compared with what the operation reported before; *)
(* a planned command of this session is granted once the prompt is out, a    *)
(* planned read is refused without ending the conversation.                  *)
CursorPermission(s, c, m, drift) ==
  LET reported == c.tools[m.tool].operand
      operand == Merged(m.operand, reported)
      planned == ~Drifts(reported, m.operand) /\ CursorAllow([NoTool EXCEPT !.kind = <<m.kind, "">>, !.operand = operand], drift)
      denied == Send(Fail(c, "permission_denied"), "reject")
      observed == CursorObserveTool(s, c, [m EXCEPT !.operand = operand, !.status = ""], drift)
  IN CASE CursorClosedPurpose(s) \/ m.variant = "task" \/ m.kind \in {"other", "edit", "delete"} -> denied
       [] s.purpose # "live_review" \/ m.kind \notin {"execute", "read"} -> denied
       [] ~planned -> denied
       [] m.kind = "execute" /\ Has(c, "promptSent") /\ m.from = "own" /\ m.once ->
            IF observed.end # "open" THEN observed ELSE Send(observed, "grant")
       [] OTHER -> Send(c, "reject")

CursorServerRequest(s, c, m, drift) ==
  CASE m.id = "question" -> Send(c, "answer")
    [] m.id = "permission" -> CursorPermission(s, c, m, drift)
    [] OTHER -> Fail(c, "permission_denied")

CursorHandle(s, c, m, drift) ==
  CASE m.kindOf = "request" -> CursorServerRequest(s, c, m, drift)
    [] m.kindOf = "event" -> IF m.id = "notification" THEN Fail(c, "permission_denied") ELSE CursorUpdate(s, c, m, drift)
    [] OTHER -> CursorResponse(s, c, m, drift)

(* A failed conversation with a session is cancelled, which counts as its    *)
(* close request whether or not the line could be sent.                     *)
CursorReceipts(c) ==
  Receipts(Has(c, "sessionCreated"), Has(c, "promptSent"), Has(c, "promptCompleted"),
           {"promptCompleted", "evidence"} \subseteq c.did,
           c.end \notin {"open", "completed"} /\ Has(c, "sessionCreated"), FALSE)

CursorMessage(kindOf, id, from, body) ==
  [kindOf |-> kindOf, id |-> id, from |-> from, body |-> body,
   tool |-> "", kind |-> "", variant |-> "", operand |-> "", status |-> "", once |-> TRUE]

CursorMessagesOf(s, asked) ==
  LET Tool(kindOf, id, from, kind, variant, operand, status, once) ==
        {[CursorMessage(kindOf, id, from, "") EXCEPT !.tool = t, !.kind = kind, !.variant = variant,
             !.operand = operand, !.status = status, !.once = once] : t \in Tools}
  IN {CursorMessage("response", id, "own", body) :
        id \in (asked \cap {"initialize", "new", "mode", "prompt"}) \cup {"unknown"}, body \in {"ok", "invalid", "error"}}
     \cup {CursorMessage("event", "mode", from, body) : from \in {"own", "other"}, body \in {"ask", "agent"}}
     \cup {CursorMessage("event", "chunk", "own", body) : body \in {"text", "blank"}}
     \cup {CursorMessage("event", id, "own", "") : id \in {"plan", "notification"}}
     \cup {CursorMessage("request", id, "own", "") : id \in {"question", "terminal"}}
     \cup UNION {Tool("event", "tool", "own", kind, "", operand, status, TRUE) :
                   kind \in {"", "execute"}, operand \in {"", "planned", "unplanned"}, status \in {"", "completed"}}
     \cup UNION {Tool("event", "tool", "own", "read", "", "planned", status, TRUE) : status \in {"", "completed", "failed"}}
     \cup Tool("event", "tool", "own", "edit", "", "", "", TRUE) \cup Tool("event", "tool", "own", "search", "", "", "", TRUE)
     \cup Tool("event", "tool", "own", "other", "task", "", "", TRUE)
     \cup UNION {Tool("request", "permission", from, "execute", "", operand, "", TRUE) :
                   from \in {"own", "other"}, operand \in {"", "planned", "unplanned"}}
     \cup Tool("request", "permission", "own", "execute", "", "planned", "", FALSE)
     \cup UNION {Tool("request", "permission", "own", kind, "", "planned", "", TRUE) : kind \in {"read", "edit"}}

-----------------------------------------------------------------------------
(***************************************************************************)
(* The Codex driver: initialize, one ephemeral thread, one turn, and the   *)
(* notifications of that turn until it completes.                          *)
(***************************************************************************)

CodexStart == Send(Opening, "initialize")

CodexResponse(c, m) ==
  CASE m.id \notin {"initialize", "thread", "prompt"} -> Fail(c, "output_envelope_invalid")
    [] m.body = "error" -> Fail(c, "provider_execution_failed")
    [] m.body = "invalid" -> Fail(c, "output_envelope_invalid")
    [] m.id = "initialize" /\ ~Has(c, "initialized") -> Send(Did(c, {"initialized"}), "thread")
    [] m.id = "thread" /\ Has(c, "initialized") /\ ~Has(c, "threadStarted") -> Send(Did(c, {"threadStarted"}), "prompt")
    [] m.id = "prompt" /\ Has(c, "threadStarted") /\ ~Has(c, "turnStarted") -> Did(c, {"turnStarted"})
    [] OTHER -> Fail(c, "output_envelope_invalid")

(* A message without a phase counts only until a final answer was seen.     *)
CodexItem(c, m) ==
  IF m.from # "own" \/ ~Has(c, "turnStarted") THEN Fail(c, "output_envelope_invalid")
  ELSE IF m.body = "other" \/ (m.phase = "unphased" /\ Has(c, "finalPhaseSeen")) THEN c
  ELSE Did(Undo(c, {"finalPhaseSeen", "evidence"}),
           {"messageReceived"} \cup (IF m.phase = "final" THEN {"finalPhaseSeen"} ELSE {})
                               \cup (IF m.body = "text" THEN {"evidence"} ELSE {}))

CodexTurnCompleted(c, m) ==
  CASE m.from # "own" \/ ~Has(c, "turnStarted") \/ Has(c, "turnCompleted") -> Fail(c, "output_envelope_invalid")
    [] m.body # "completed" -> Fail(c, "provider_turn_failed")
    [] ~Has(c, "messageReceived") \/ ~Has(c, "evidence") -> Fail(Did(c, {"turnCompleted"}), "output_missing")
    [] OTHER -> Done(Did(c, {"turnCompleted"}))

CodexNotification(c, m) ==
  CASE m.body = "unreadable" -> Fail(c, "output_decode_failed")
    [] m.id = "item" -> CodexItem(c, m)
    [] m.id = "turn" -> CodexTurnCompleted(c, m)
    [] OTHER -> c

CodexHandle(c, m) ==
  CASE m.kind = "request" -> Fail(c, "provider_execution_failed")
    [] m.kind = "response" -> CodexResponse(c, m)
    [] OTHER -> CodexNotification(c, m)

CodexStreamEnd(c) ==
  Fail(c, IF Has(c, "turnStarted") THEN "provider_turn_failed" ELSE "provider_execution_failed")

CodexReceipts(c) ==
  Receipts(Has(c, "threadStarted"), Has(c, "turnStarted"), Has(c, "turnCompleted"),
           {"turnCompleted", "messageReceived"} \subseteq c.did, FALSE, FALSE)

CodexEvent(id, from, phase, body) == [kind |-> "event", id |-> id, from |-> from, phase |-> phase, body |-> body]

CodexMessagesOf(asked) ==
  {Message("response", id, body) : id \in (asked \cap {"initialize", "thread", "prompt"}) \cup {"unknown"},
                                   body \in {"ok", "invalid", "error"}}
  \cup {CodexEvent("item", from, phase, body) :
          from \in {"own", "other"}, phase \in {"final", "unphased"}, body \in {"text", "blank", "other", "unreadable"}}
  \cup {CodexEvent("turn", from, "", body) : from \in {"own", "other"}, body \in {"completed", "interrupted", "unreadable"}}
  \cup {CodexEvent("delta", "own", "", "text"), Message("request", "approval", "")}

-----------------------------------------------------------------------------
(***************************************************************************)
(* The AGY driver (stream-json): the init acknowledgement of the           *)
(* controlled agent, one user frame, step updates, one result, the half    *)
(* close of the input and the drain of the output.                         *)
(***************************************************************************)

AgyStart == Opening   \* the child speaks first

AgyInit(c, m) ==
  CASE Has(c, "initAccepted") \/ m.body = "invalid" -> Fail(c, "output_envelope_invalid")
    [] m.body = "unreadable" -> Fail(c, "output_decode_failed")
    [] m.body = "mismatch" -> Fail(c, "permission_denied")
    [] OTHER -> SendThen(Did(c, {"initAccepted"}), "prompt", {"userSent"})

(* A tool operation is admitted when it becomes active and authorised when   *)
(* it is done; neither its name nor its operand may change in between.      *)
AgyToolStep(s, c, m, drift) ==
  LET old == c.tools[m.tool]
      Put(state) == [c EXCEPT !.tools[m.tool] = [kind |-> <<"tool", m.variant>>, operand |-> m.operand, state |-> state]]
      same == old.kind[2] = m.variant /\ old.operand = m.operand
  IN CASE m.variant \notin {"view_file", "run_command"} -> Fail(c, "permission_denied")
       [] m.body = "renamed" -> Fail(c, "output_envelope_invalid")
       [] m.body = "error" -> Fail(c, "permission_denied")
       [] m.status = "ACTIVE" ->
            CASE old.state = "done" -> Fail(c, "permission_denied")
              [] old.state = "active" -> IF same THEN c ELSE Fail(c, "permission_denied")
              [] OTHER -> IF m.operand = "" THEN Fail(c, "output_envelope_invalid") ELSE Put("active")
       [] m.status = "DONE" ->
            CASE old.state \notin {"active", "done"} -> Fail(c, "permission_denied")
              [] old.state = "done" -> Fail(c, "output_envelope_invalid")
              [] ~same -> Fail(c, "permission_denied")
              [] m.body = "no_output" -> Fail(c, "output_envelope_invalid")
              [] ~(s.purpose = "live_review" /\ LiveAllow(m.operand, drift)) -> Fail(c, "permission_denied")
              [] OTHER -> Put("done")
       [] OTHER -> Fail(c, "output_envelope_invalid")

(* A step keeps its type; progress steps carry no tool metadata.            *)
AgyStepUpdate(s, c, m, drift) ==
  LET old == c.tools[m.tool]
      typed == Did(IF old.state = "none"
                     THEN [c EXCEPT !.tools[m.tool] = [NoTool EXCEPT !.kind = <<m.kind, "">>, !.state = "typed"]] ELSE c,
                   {"observedStep"})
  IN CASE ~Has(c, "initAccepted") \/ m.from # "own" -> Fail(c, "output_envelope_invalid")
       [] old.state # "none" /\ old.kind[1] # m.kind -> Fail(c, "output_envelope_invalid")
       [] m.kind = "progress" -> IF m.variant # "" THEN Fail(typed, "output_envelope_invalid") ELSE typed
       [] m.kind = "tool" -> AgyToolStep(s, typed, m, drift)
       [] OTHER -> Fail(typed, "output_envelope_invalid")

(* The result counts when it is this conversation's, succeeded, denied        *)
(* nothing, left no tool open and says something; then the input is closed.  *)
AgyResult(c, m) ==
  CASE ~({"initAccepted", "userSent"} \subseteq c.did) \/ m.from # "own" -> Fail(c, "output_envelope_invalid")
    [] m.body = "unreadable" -> Fail(c, "output_decode_failed")
    [] m.body = "failed" -> Fail(c, "provider_turn_failed")
    [] m.body = "denied_actions" -> Fail(c, "permission_denied")
    [] \E t \in Tools : c.tools[t].state = "active" -> Fail(c, "provider_turn_failed")
    [] m.body = "blank" -> Fail(c, "output_missing")
    [] OTHER -> SendThen(Did(c, {"resultAccepted", "evidence"}), "close", {"closeSent"})

AgyHandle(s, c, m, drift) ==
  CASE Has(c, "resultAccepted") -> Fail(c, "output_envelope_invalid")
    [] m.id = "init" -> AgyInit(c, m)
    [] m.id = "step" -> AgyStepUpdate(s, c, m, drift)
    [] m.id = "result" -> AgyResult(c, m)
    [] OTHER -> Fail(c, "output_envelope_invalid")

AgyStreamEnd(c) == IF Has(c, "resultAccepted") THEN Done(Did(c, {"drained"})) ELSE Fail(c, "provider_turn_failed")

AgyReceipts(c) ==
  Receipts(Has(c, "initAccepted"), Has(c, "userSent"), Has(c, "observedStep"),
           Has(c, "resultAccepted"), Has(c, "closeSent"), Has(c, "drained"))

AgyFrame(id, from, body) ==
  [id |-> id, from |-> from, body |-> body, tool |-> "", kind |-> "", variant |-> "", operand |-> "", status |-> ""]

AgyMessages ==
  LET Step(kind, variant, operand, status, body) ==
        {[AgyFrame("step", "own", body) EXCEPT !.tool = t, !.kind = kind, !.variant = variant,
             !.operand = operand, !.status = status] : t \in Tools}
  IN {AgyFrame("init", "own", body) : body \in {"ok", "invalid", "unreadable", "mismatch"}}
     \cup {AgyFrame("result", from, body) : from \in {"own", "other"},
             body \in {"ok", "unreadable", "failed", "denied_actions", "blank"}}
     \cup {AgyFrame("unknown", "own", "")} \cup {[f EXCEPT !.from = "other"] : f \in Step("progress", "", "", "", "")}
     \cup Step("progress", "", "", "", "") \cup Step("progress", "view_file", "", "", "") \cup Step("unknown", "", "", "", "")
     \cup UNION {Step("tool", variant, operand, status, "") :
                   variant \in {"view_file", "run_command"}, operand \in {"planned", "unplanned"}, status \in {"ACTIVE", "DONE"}}
     \cup Step("tool", "view_file", "", "ACTIVE", "") \cup Step("tool", "view_file", "planned", "PAUSED", "")
     \cup Step("tool", "write_file", "planned", "ACTIVE", "") \cup UNION {Step("tool", "view_file", "planned", "DONE", b) :
             b \in {"no_output", "error", "renamed"}}

=============================================================================
