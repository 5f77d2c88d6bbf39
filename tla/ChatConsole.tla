----------------------------- MODULE ChatConsole ----------------------------
(***************************************************************************)
(* The debug console (web/app.js, web/workflow.js) and the server it talks *)
(* to over WebSockets (api/websocket.py): sending, stopping, reconnecting  *)
(* and "New session" in the browser; receiving, generating and answering   *)
(* in the connection's handler.                                            *)
(*                                                                         *)
(* A turn is what the client sees of ConversationSession: its events, and  *)
(* the moment after the terminal one in which the session is still busy.   *)
(* The response to message m is called m too.  Text and deltas, which      *)
(* decide nothing, are left out; a turn runs at most one node.             *)
(***************************************************************************)
EXTENDS Naturals, Sequences, SequencesExt

CONSTANTS
  MaxMessages,  \* bound: messages the user sends
  MaxSockets,   \* bound: WebSockets the console opens
  MaxReconnectAttempts,
  None

Messages == 1..MaxMessages
Sockets == 1..MaxSockets

NodeStates == {None, "running", "completed", "failed", "cancelled", "interrupted"}
Turns == [id : Messages, stage : {"begun", "streaming", "ended"}, node : {None, "running", "over"}]

ASSUME BoundsAssumption ==
  /\ MaxMessages \in Nat \ {0} /\ MaxSockets \in Nat \ {0} /\ MaxReconnectAttempts \in Nat
  /\ None \notin Nat \union {"running", "over", "completed", "failed", "cancelled", "interrupted"}
  /\ None \notin Turns

VARIABLES
  link,   \* of each socket: the state of its connection
  up,     \* ... the events under way to the server
  down,   \* ... the events under way to the console
  turn,   \* ... session._active of its handler; None if it is free
  served, \* sockets with a handler
  socket, opened, connection, reconnectAttempts, timer, intentionalClose,
  phase, pendingMessageId, activeResponseId, messageSequence,
  workflow, \* the workflow view: the response it shows, its node, its terminal state
  odd,      \* messages the server cannot read, though the console let them pass
  outcome   \* for the properties: how the server ended the response to each message

wires == <<link, up, down>>
handlers == <<turn, served>>
connecting == <<socket, opened, connection, reconnectAttempts, timer, intentionalClose>>
request == <<phase, pendingMessageId, activeResponseId>>
past == <<messageSequence, odd, outcome>>
vars == <<wires, handlers, connecting, request, workflow, past>>

NoWorkflow == [response |-> None, node |-> None, terminal |-> None]

\* Events of the client and of the server; message and response are the ids they carry.
ClientEvent(type, m) == [type |-> type, id |-> m]
ServerEvent(type, m, r) == [type |-> type, message |-> m, response |-> r]

-----------------------------------------------------------------------------
(* The console                                                             *)

Init ==
  /\ link = [s \in Sockets |-> IF s = 1 THEN "connecting" ELSE "unused"]
  /\ up = [s \in Sockets |-> <<>>] /\ down = [s \in Sockets |-> <<>>]
  /\ turn = [s \in Sockets |-> None] /\ served = {}
  /\ socket = 1 /\ opened = 1 /\ connection = "connecting"
  /\ reconnectAttempts = 0 /\ timer = FALSE /\ intentionalClose = FALSE
  /\ phase = "idle" /\ pendingMessageId = None /\ activeResponseId = None
  /\ messageSequence = 0 /\ workflow = NoWorkflow
  /\ odd = {} /\ outcome = [m \in Messages |-> None]

\* Mutant: the response that was streamed stays the active one.
ForgetPendingOnly ==
  /\ phase' = "idle" /\ pendingMessageId' = None /\ UNCHANGED activeResponseId

\* resetRequestState, by which finishGeneration ends too.
ResetRequestState ==
  /\ phase' = "idle" /\ pendingMessageId' = None /\ activeResponseId' = None

\* workflow.finish: a node that still runs takes the response's terminal state.
Finished(r, terminal) ==
  IF workflow.response # r THEN workflow
  ELSE [workflow EXCEPT !.terminal = terminal,
                        !.node = IF @ = "running" THEN terminal ELSE @]

\* Mutant: connect() does not withdraw the intention to close.
ConnectIntentionally(links, attempts) ==
  /\ opened < MaxSockets
  /\ opened' = opened + 1 /\ socket' = opened' /\ connection' = "connecting"
  /\ link' = [links EXCEPT ![opened'] = "connecting"]
  /\ timer' = FALSE /\ reconnectAttempts' = attempts /\ intentionalClose' = (socket # None)

\* connect(), with what its caller did to the links and to the attempts.
Connect(links, attempts) ==
  /\ opened < MaxSockets
  /\ opened' = opened + 1 /\ socket' = opened' /\ connection' = "connecting"
  /\ link' = [links EXCEPT ![opened'] = "connecting"]
  /\ timer' = FALSE /\ reconnectAttempts' = attempts /\ intentionalClose' = FALSE

\* sendEvent: whether the socket is open, as far as the browser knows.
CanSend == socket # None /\ link[socket] \in {"open", "broken"}

Transmit(e) == up' = IF link[socket] = "open" THEN [up EXCEPT ![socket] = Append(@, e)] ELSE up

\* submitMessage of an idle console.
SubmitMessage(readable) ==
  /\ phase = "idle" /\ connection = "ready" /\ CanSend
  /\ messageSequence < MaxMessages
  /\ messageSequence' = messageSequence + 1
  /\ odd' = IF readable THEN odd ELSE odd \union {messageSequence'}
  /\ Transmit(ClientEvent("message.create", messageSequence'))
  /\ pendingMessageId' = messageSequence' /\ phase' = "pending"
  /\ UNCHANGED <<link, down, handlers, connecting, activeResponseId, workflow, outcome>>

\* submitMessage while a response is streamed: the button says Stop.
SubmitStop ==
  /\ phase = "streaming" /\ CanSend
  /\ Transmit(ClientEvent("response.cancel", activeResponseId))
  /\ phase' = "cancelling"
  /\ UNCHANGED <<link, down, handlers, connecting, pendingMessageId, activeResponseId, workflow, past>>

\* A browser's socket that is closing dispatches no more messages, and what is under
\* way to the server still arrives.
NewSession ==
  /\ Connect(IF socket = None THEN link
             ELSE [link EXCEPT ![socket] = IF @ = "open" THEN "closing" ELSE "broken"], 0)
  /\ down' = IF socket = None THEN down ELSE [down EXCEPT ![socket] = <<>>]
  /\ ResetRequestState /\ workflow' = NoWorkflow
  /\ UNCHANGED <<up, handlers, past>>

ClearDisplay ==
  /\ phase = "idle" /\ workflow # NoWorkflow
  /\ workflow' = NoWorkflow
  /\ UNCHANGED <<wires, handlers, connecting, request, past>>

ReconnectTimerFires ==
  /\ timer /\ Connect(link, reconnectAttempts)
  /\ UNCHANGED <<up, down, handlers, request, workflow, past>>

\* What the close listener does.
HandleClose(s) ==
  IF socket # s THEN UNCHANGED <<connecting, request, workflow>>
  ELSE
    /\ socket' = None
    /\ workflow' = IF activeResponseId = None THEN workflow ELSE Finished(activeResponseId, "interrupted")
    /\ ResetRequestState
    /\ \/ /\ intentionalClose
          /\ UNCHANGED <<connection, reconnectAttempts, timer>>
       \/ /\ ~ intentionalClose /\ reconnectAttempts >= MaxReconnectAttempts
          /\ connection' = "offline"
          /\ UNCHANGED <<reconnectAttempts, timer>>
       \/ /\ ~ intentionalClose /\ reconnectAttempts < MaxReconnectAttempts
          /\ reconnectAttempts' = reconnectAttempts + 1
          /\ connection' = "connecting" /\ timer' = TRUE
    /\ UNCHANGED <<opened, intentionalClose>>

\* The browser reports that a connection was lost, or that a handshake is over.
SocketCloses(s) ==
  /\ link[s] = "broken" \/ (link[s] = "closing" /\ s \notin served)
  /\ link' = [link EXCEPT ![s] = "closed"]
  /\ HandleClose(s)
  /\ UNCHANGED <<up, down, handlers, past>>

-----------------------------------------------------------------------------
(* handleEvent, of the current socket's events                             *)

HandleReady(e) ==
  /\ e.type = "conversation.ready"
  /\ reconnectAttempts' = 0 /\ connection' = "ready"
  /\ UNCHANGED <<socket, opened, timer, intentionalClose, request, workflow>>

HandleStarted(e) ==
  /\ e.type = "response.started"
  /\ IF phase = "pending" /\ e.message = pendingMessageId
     THEN /\ phase' = "streaming" /\ pendingMessageId' = None /\ activeResponseId' = e.response
          /\ workflow' = [NoWorkflow EXCEPT !.response = e.response]
     ELSE UNCHANGED <<request, workflow>>
  /\ UNCHANGED connecting

\* workflow.handle, of a node that starts, completes or fails.
HandleNode(e) ==
  /\ e.type \in {"running", "completed", "failed"}
  /\ workflow' = IF e.response = activeResponseId THEN [workflow EXCEPT !.node = e.type] ELSE workflow
  /\ UNCHANGED <<connecting, request>>

HandleTerminal(e) ==
  /\ e.type \in {"response.completed", "response.cancelled"}
  /\ IF e.response = activeResponseId
     THEN /\ workflow' = Finished(e.response, IF e.type = "response.completed" THEN "completed" ELSE "cancelled")
          /\ ResetRequestState
     ELSE UNCHANGED <<request, workflow>>
  /\ UNCHANGED connecting

\* Mutant: the view of any response is marked as failed.
HandleErrorOfAnyResponse(e) ==
  /\ e.type = "error"
  /\ workflow' = IF e.response = None THEN workflow ELSE Finished(e.response, "failed")
  /\ IF \/ phase = "pending" /\ e.message = pendingMessageId
        \/ e.response # None /\ e.response = activeResponseId
     THEN ResetRequestState ELSE UNCHANGED request
  /\ UNCHANGED connecting

\* Mutant: an error ends whatever the console waits for.
HandleErrorAsItsOwn(e) ==
  /\ e.type = "error"
  /\ workflow' = IF activeResponseId # None THEN Finished(activeResponseId, "failed") ELSE workflow
  /\ ResetRequestState
  /\ UNCHANGED connecting

HandleError(e) ==
  LET matchesPending == phase = "pending" /\ e.message = pendingMessageId
      matchesActive == e.response # None /\ e.response = activeResponseId
  IN
  /\ e.type = "error"
  /\ workflow' = IF matchesActive THEN Finished(e.response, "failed") ELSE workflow
  /\ IF matchesPending \/ matchesActive THEN ResetRequestState ELSE UNCHANGED request
  /\ UNCHANGED connecting

HandleEvent(e) == HandleReady(e) \/ HandleStarted(e) \/ HandleNode(e) \/ HandleTerminal(e) \/ HandleError(e)

\* Events arrive in order; those of a socket that was replaced are ignored.
MessageArrives(s) ==
  /\ link[s] = "open" /\ down[s] # <<>>
  /\ down' = [down EXCEPT ![s] = Tail(@)]
  /\ IF socket = s THEN HandleEvent(Head(down[s])) ELSE UNCHANGED <<connecting, request, workflow>>
  /\ UNCHANGED <<link, up, handlers, past>>

-----------------------------------------------------------------------------
(* The connection's handler                                                *)

\* What is sent on a connection that is lost or closing reaches nobody.
Send(s, e) == down' = IF link[s] = "open" THEN [down EXCEPT ![s] = Append(@, e)] ELSE down

AcceptSocket(s) ==
  /\ link[s] = "connecting"
  /\ link' = [link EXCEPT ![s] = "open"] /\ served' = served \union {s}
  /\ down' = [down EXCEPT ![s] = <<ServerEvent("conversation.ready", None, None)>>]
  /\ UNCHANGED <<up, turn, connecting, request, workflow, past>>

\* The server is not reached, or closes at once: not ready, shutting down.
RefuseSocket(s) ==
  /\ link[s] = "connecting"
  /\ link' = [link EXCEPT ![s] = "broken"]
  /\ UNCHANGED <<up, down, handlers, connecting, request, workflow, past>>

Received(s, type) == s \in served /\ up[s] # <<>> /\ Head(up[s]).type = type

Answered(s) ==
  /\ up' = [up EXCEPT ![s] = Tail(@)]
  /\ UNCHANGED <<link, served, connecting, request, workflow, messageSequence, odd>>

\* parse_client_event refuses a text: strip() leaves nothing of it though trim() did,
\* or it holds a lone surrogate.  The error names no message.
RejectUnreadable(s) ==
  /\ Received(s, "message.create") /\ Head(up[s]).id \in odd
  /\ Send(s, ServerEvent("error", None, None))
  /\ Answered(s) /\ UNCHANGED <<turn, outcome>>

Readable(s) == Received(s, "message.create") /\ Head(up[s]).id \notin odd

\* Mutant: the refusal of a message does not name it.
RejectBusyNameless(s) ==
  /\ Readable(s) /\ turn[s] # None
  /\ Send(s, ServerEvent("error", None, None))
  /\ Answered(s) /\ UNCHANGED <<turn, outcome>>

\* GENERATION_IN_PROGRESS.
RejectBusy(s) ==
  /\ Readable(s) /\ turn[s] # None
  /\ Send(s, ServerEvent("error", Head(up[s]).id, None))
  /\ Answered(s) /\ UNCHANGED <<turn, outcome>>

StartTurn(s) ==
  /\ Readable(s) /\ turn[s] = None
  /\ turn' = [turn EXCEPT ![s] = [id |-> Head(up[s]).id, stage |-> "begun", node |-> None]]
  /\ UNCHANGED <<down, outcome>>
  /\ Answered(s)

\* How a turn ends; its session is free later (FreeSession), or at once.
EndTurn(s, result) ==
  /\ turn' = [turn EXCEPT ![s] = [@ EXCEPT !.stage = "ended", !.node = None]]
  /\ outcome' = [outcome EXCEPT ![turn[s].id] = result]

Generates(s, m) == turn[s] # None /\ turn[s].id = m

\* cancel() of the response that is generated.
CancelTurn(s) ==
  /\ Received(s, "response.cancel")
  /\ Generates(s, Head(up[s]).id) /\ turn[s].stage # "ended"
  /\ Send(s, ServerEvent("response.cancelled", None, turn[s].id))
  /\ turn' = [turn EXCEPT ![s] = None] /\ outcome' = [outcome EXCEPT ![turn[s].id] = "cancelled"]
  /\ Answered(s)

\* CANCEL_NOT_FOUND; cancel() waits first for a pump whose terminal event is out.
CancelNotFound(s) ==
  /\ Received(s, "response.cancel") /\ ~ Generates(s, Head(up[s]).id)
  /\ Send(s, ServerEvent("error", None, Head(up[s]).id))
  /\ Answered(s) /\ UNCHANGED <<turn, outcome>>

\* WebSocketDisconnect: session.close() ends the turn.
HandlerEnds(s) ==
  /\ s \in served
  /\ link[s] \in {"broken", "closed"} \/ (link[s] = "closing" /\ up[s] = <<>>)
  /\ served' = served \ {s} /\ turn' = [turn EXCEPT ![s] = None]
  /\ UNCHANGED <<wires, connecting, request, workflow, past>>

\* The network fails, or the server stops: what is under way both ways is lost.
LinkBreaks(s) ==
  /\ link[s] \in {"open", "closing"}
  /\ link' = [link EXCEPT ![s] = "broken"]
  /\ up' = [up EXCEPT ![s] = <<>>] /\ down' = [down EXCEPT ![s] = <<>>]
  /\ UNCHANGED <<handlers, connecting, request, workflow, past>>

-----------------------------------------------------------------------------
(* The turn                                                                *)

At(s, stage) == turn[s] # None /\ turn[s].stage = stage
ServerOnly == UNCHANGED <<link, up, served, connecting, request, workflow, messageSequence, odd>>

ResponseStarts(s) ==
  /\ At(s, "begun")
  /\ turn' = [turn EXCEPT ![s].stage = "streaming"]
  /\ Send(s, ServerEvent("response.started", turn[s].id, turn[s].id))
  /\ ServerOnly /\ UNCHANGED outcome

\* WorkflowEventTranslator.translate: a model or a tool starts, and ends.
NodeStarts(s) ==
  /\ At(s, "streaming") /\ turn[s].node = None
  /\ turn' = [turn EXCEPT ![s].node = "running"]
  /\ Send(s, ServerEvent("running", None, turn[s].id))
  /\ ServerOnly /\ UNCHANGED outcome

\* Mutant: the errors of nodes are not translated.
NodeEndsIfCompleted(s, result) ==
  /\ At(s, "streaming") /\ turn[s].node = "running"
  /\ turn' = [turn EXCEPT ![s].node = "over"]
  /\ IF result = "completed" THEN Send(s, ServerEvent(result, None, turn[s].id)) ELSE UNCHANGED down
  /\ ServerOnly /\ UNCHANGED outcome

NodeEnds(s, result) ==
  /\ At(s, "streaming") /\ turn[s].node = "running"
  /\ turn' = [turn EXCEPT ![s].node = "over"]
  /\ Send(s, ServerEvent(result, None, turn[s].id))
  /\ ServerOnly /\ UNCHANGED outcome

ResponseCompletes(s) ==
  /\ At(s, "streaming") /\ turn[s].node # "running"
  /\ EndTurn(s, "completed")
  /\ Send(s, ServerEvent("response.completed", None, turn[s].id))
  /\ ServerOnly

\* Provider, tool or graph fails: _send_error.
ResponseFails(s) ==
  /\ At(s, "streaming")
  /\ EndTurn(s, "failed")
  /\ Send(s, ServerEvent("error", turn[s].id, turn[s].id))
  /\ ServerOnly

\* The pump's finally block, after the send of the terminal event has returned.
FreeSession(s) ==
  /\ At(s, "ended")
  /\ turn' = [turn EXCEPT ![s] = None]
  /\ UNCHANGED <<down, outcome>> /\ ServerOnly

-----------------------------------------------------------------------------
Receive(s) ==
  RejectUnreadable(s) \/ RejectBusy(s) \/ StartTurn(s) \/ CancelTurn(s) \/ CancelNotFound(s) \/ HandlerEnds(s)

TurnStep(s) ==
  \/ ResponseStarts(s) \/ NodeStarts(s) \/ \E result \in {"completed", "failed"} : NodeEnds(s, result)
  \/ ResponseCompletes(s) \/ ResponseFails(s) \/ FreeSession(s)

\* The user has nothing left to do, or no socket to do it with.
Quiet == messageSequence = MaxMessages \/ opened = MaxSockets
Rests == Quiet /\ UNCHANGED vars

Next ==
  \/ \E readable \in BOOLEAN : SubmitMessage(readable)
  \/ SubmitStop \/ NewSession \/ ClearDisplay \/ ReconnectTimerFires \/ Rests
  \/ \E s \in Sockets :
       \/ MessageArrives(s) \/ SocketCloses(s)
       \/ AcceptSocket(s) \/ RefuseSocket(s) \/ LinkBreaks(s)
       \/ Receive(s) \/ TurnStep(s)

Spec == Init /\ [][Next]_vars

\* The network delivers, or the browser notices that it does not; handlers receive,
\* and streams end, by the timeouts of the providers' clients.  The user need do nothing.
Fairness ==
  \A s \in Sockets :
    /\ WF_vars(MessageArrives(s)) /\ WF_vars(SocketCloses(s))
    /\ WF_vars(Receive(s)) /\ WF_vars(TurnStep(s))
FairSpec == Spec /\ Fairness

-----------------------------------------------------------------------------
(* Properties                                                              *)

ClientEvents == {ClientEvent(t, m) : t \in {"message.create", "response.cancel"}, m \in Messages}

TypeOK ==
  /\ link \in [Sockets -> {"unused", "connecting", "open", "closing", "broken", "closed"}]
  /\ \A s \in Sockets : Range(up[s]) \subseteq ClientEvents /\ turn[s] \in Turns \union {None}
  /\ served \subseteq Sockets
  /\ opened \in Sockets /\ socket \in {opened, None}
  /\ connection \in {"connecting", "ready", "offline"}
  /\ reconnectAttempts \in 0..MaxReconnectAttempts
  /\ pendingMessageId # None <=> phase = "pending"
  /\ activeResponseId # None <=> phase \in {"streaming", "cancelling"}
  /\ workflow.node \in NodeStates /\ workflow.terminal \in NodeStates \ {"running"}

\* Messages whose answer is under way: not yet received, generated, or answered by an
\* event that is still to arrive.
Awaited(s) ==
  {m \in Messages :
     \/ ClientEvent("message.create", m) \in Range(up[s])
     \/ Generates(s, m) /\ turn[s].stage # "ended"
     \/ \E e \in Range(down[s]) :
          \/ e.type = "error" /\ e.message = m
          \/ e.type \in {"response.completed", "response.cancelled"} /\ e.response = m}

\* The console waits for exactly the message whose answer is under way: it never sends
\* the next one before the last one's terminal event arrived, whatever answers race a
\* Stop or a New session, and never waits for an answer that nobody will send - but for
\* a message whose rejection names no message.
AwaitsWhatIsUnderWay ==
  socket # None /\ link[socket] = "open" /\ pendingMessageId \notin odd =>
    Awaited(socket) = {m \in Messages : m = pendingMessageId \/ m = activeResponseId}

\* The workflow view is live while its response is, then it says how the server ended
\* it, or that the connection was lost, and shows no node as running.
WorkflowIsTrue ==
  workflow.response # None =>
    /\ workflow.terminal = None <=> workflow.response = activeResponseId
    /\ workflow.terminal # None => workflow.node # "running"
    /\ workflow.terminal \in {None, "interrupted", outcome[workflow.response]}

\* A lost connection is tried again until MaxReconnectAttempts failed in a row.
LostSocketIsRetried ==
  socket = None =>
    IF connection = "offline" THEN reconnectAttempts = MaxReconnectAttempts ELSE timer

\* A node of a response that completes was ended by an event of its own, failed tools
\* included: finish("completed") hides no node that the server left running.
NodesEndBeforeCompletion ==
  [][workflow'.terminal = "completed" /\ workflow.terminal # "completed" => workflow.node # "running"]_vars

\* A console that waits becomes idle again, unless the server cannot say which message
\* it rejected.
WaitsEnd == phase # "idle" /\ pendingMessageId \notin odd ~> phase = "idle"
=============================================================================
