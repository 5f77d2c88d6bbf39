------------------------- MODULE ConversationSession -------------------------
(***************************************************************************)
(* ConversationSession of application/conversation.py: the object that     *)
(* owns at most one generation of one WebSocket connection.                *)
(*                                                                         *)
(* Everything between two awaits is atomic (asyncio runs one task at a     *)
(* time), so every action below is the code one task runs from one await   *)
(* to the next.  The tasks are                                             *)
(*   - one pump task per generation (_pump), named by its response_id;     *)
(*   - the caller tasks, each of which runs one cancel() or one close().   *)
(* start() has no await and needs no task of its own.                      *)
(*                                                                         *)
(* asyncio's Task.cancel() only asks: it increments cancelling() and the   *)
(* CancelledError is thrown at the await the task is suspended in, the     *)
(* next time the task is run.  A task has "a signal" between the two.      *)
(***************************************************************************)
EXTENDS Naturals, Sequences

CONSTANTS
  Responses,       \* response ids, one per generation
  Callers,         \* tasks that call cancel() or close(), once each
  MayBeCancelled,  \* the callers whose task somebody else may cancel
  MaxDeltas,       \* bound: events between started and completed
  None             \* Python's None

\* The events of a response, as far as the session tells them apart.
Terminals == {"completed", "cancelled", "error"}
Kinds == {"started", "delta"} \union Terminals

ASSUME ConstantsAssumption ==
  /\ None \notin Responses \union Callers \union Kinds
  /\ MayBeCancelled \subseteq Callers
  /\ MaxDeltas \in Nat

VARIABLES
  closed,       \* self._closed
  active,       \* self._active, by response id
  owner,        \* generation.cancellation_owner
  claimed,      \* generation.terminal_claimed
  pump,         \* where each generation's pump task is suspended
  holding,      \* the event the pump is sending
  yielded,      \* events the runtime has yielded between started and completed
  unwinding,    \* a CancelledError was thrown into the runtime's stream
  cancelling,   \* generation.task.cancelling()
  signal,       \* the pump's signal
  call,         \* where each caller task is suspended
  target,       \* the generation a caller works on
  awaited,      \* the cancellation owner a close() waits for
  callSignal,   \* the caller's signal
  callCancelled,\* caller.cancelling() > 0
  result,       \* how the caller's call ended
  sent,         \* the events each response has put on the connection
  broken        \* the responses with a send that failed (for the properties)

generationVars == <<owner, claimed, pump, holding, yielded, unwinding, cancelling, signal>>
callVars == <<call, target, awaited, callSignal, callCancelled, result>>
vars == <<closed, active, generationVars, callVars, sent, broken>>

\* The awaits of _pump.  "closing" is inside aclose() of the runtime's stream.
Sending == {"sending", "delivered"}
SendingError == {"sendingError", "errorDelivered"}
PumpStates == {"absent", "created", "streaming", "closing", "done"} \union Sending \union SendingError
Live(r) == pump[r] \notin {"absent", "done"}

\* The awaits of cancel() and close().
CancelledSend == {"sendCancelled", "cancelledDelivered"}
OwnerStates == {"waitPump"} \union CancelledSend
Waiting == {"waitTerminal", "closeWaitOwner", "closeWaitPump"} \union OwnerStates
CallStates == {"ready", "done"} \union Waiting
Results == {"none", "cancelOk", "cancelNotFound", "closeOk", "taskCancelled"}

Init ==
  /\ closed = FALSE
  /\ active = None
  /\ owner = [r \in Responses |-> None]
  /\ claimed = [r \in Responses |-> FALSE]
  /\ pump = [r \in Responses |-> "absent"]
  /\ holding = [r \in Responses |-> None]
  /\ yielded = [r \in Responses |-> 0]
  /\ unwinding = [r \in Responses |-> FALSE]
  /\ cancelling = [r \in Responses |-> 0]
  /\ signal = [r \in Responses |-> FALSE]
  /\ call = [c \in Callers |-> "ready"]
  /\ target = [c \in Callers |-> None]
  /\ awaited = [c \in Callers |-> None]
  /\ callSignal = [c \in Callers |-> FALSE]
  /\ callCancelled = [c \in Callers |-> FALSE]
  /\ result = [c \in Callers |-> "none"]
  /\ sent = [r \in Responses |-> <<>>]
  /\ broken = {}

-----------------------------------------------------------------------------
(* start()                                                                 *)

\* Mutant: the session does not look whether it is busy.
StartWhenBusy(r) ==
  /\ ~closed
  /\ pump[r] = "absent"
  /\ active' = r
  /\ pump' = [pump EXCEPT ![r] = "created"]
  /\ UNCHANGED <<closed, owner, claimed, holding, yielded, unwinding, cancelling, signal, callVars, sent, broken>>

\* A closed session answers GENERATION_FAILED and a busy one
\* GENERATION_IN_PROGRESS; neither changes anything.
Start(r) ==
  /\ ~closed
  /\ active = None
  /\ pump[r] = "absent"
  /\ active' = r
  /\ pump' = [pump EXCEPT ![r] = "created"]
  /\ UNCHANGED <<closed, owner, claimed, holding, yielded, unwinding, cancelling, signal, callVars, sent, broken>>

-----------------------------------------------------------------------------
(* _pump()                                                                 *)

\* Mutants: the pump ends without the test for an owner, without resetting
\* _active, and only after the cancel() that owns it.
EndsUnderOwner(r) ==
  /\ pump' = [pump EXCEPT ![r] = "done"]
  /\ active' = IF active = r THEN None ELSE active
EndsActive(r) ==
  /\ pump' = [pump EXCEPT ![r] = "done"]
  /\ UNCHANGED active
EndsAfterOwner(r) ==
  /\ owner[r] = None
  /\ pump' = [pump EXCEPT ![r] = "done"]
  /\ active' = IF active = r THEN None ELSE active

\* The finally block, and the task is done.
PumpEnds(r) ==
  /\ pump' = [pump EXCEPT ![r] = "done"]
  /\ active' = IF active = r /\ owner[r] = None THEN None ELSE active

\* Mutants: the event is not kept, the terminal event is not claimed, and
\* _closed is not looked at.
ReceivesNothing(r, k) ==
  /\ pump' = [pump EXCEPT ![r] = IF closed THEN "closing" ELSE "sending"]
  /\ claimed' = [claimed EXCEPT ![r] = IF ~closed /\ k \in Terminals THEN TRUE ELSE @]
  /\ UNCHANGED holding
ReceivesUnclaimed(r, k) ==
  /\ pump' = [pump EXCEPT ![r] = IF closed THEN "closing" ELSE "sending"]
  /\ holding' = [holding EXCEPT ![r] = IF closed THEN @ ELSE k]
  /\ UNCHANGED claimed
ReceivesWhenClosed(r, k) ==
  /\ pump' = [pump EXCEPT ![r] = "sending"]
  /\ holding' = [holding EXCEPT ![r] = k]
  /\ claimed' = [claimed EXCEPT ![r] = IF k \in Terminals THEN TRUE ELSE @]

\* The stream yields an event of kind k: a closed session stops reading (and
\* closes the stream), a terminal event is claimed before it is sent.
PumpReceives(r, k) ==
  /\ pump' = [pump EXCEPT ![r] = IF closed THEN "closing" ELSE "sending"]
  /\ holding' = [holding EXCEPT ![r] = IF closed THEN @ ELSE k]
  /\ claimed' = [claimed EXCEPT ![r] = IF ~closed /\ k \in Terminals THEN TRUE ELSE @]

\* The runtime yields response.started before its first await.
PumpBegins(r) ==
  /\ pump[r] = "created"
  /\ ~signal[r]
  /\ PumpReceives(r, "started")
  /\ UNCHANGED <<closed, active, owner, yielded, unwinding, cancelling, signal, callVars, sent, broken>>

\* A task cancelled before its first step never runs its body: no finally block.
PumpNeverBegins(r) ==
  /\ pump[r] = "created"
  /\ signal[r]
  /\ pump' = [pump EXCEPT ![r] = "done"]
  /\ signal' = [signal EXCEPT ![r] = FALSE]
  /\ UNCHANGED <<closed, active, owner, claimed, holding, yielded, unwinding, cancelling, callVars, sent, broken>>

\* response.delta, workflow.node.* and action.request, which the session does
\* not tell apart.
StreamYields(r) ==
  /\ pump[r] = "streaming"
  /\ ~signal[r]
  /\ yielded[r] < MaxDeltas
  /\ yielded' = [yielded EXCEPT ![r] = @ + 1]
  /\ PumpReceives(r, "delta")
  /\ UNCHANGED <<closed, active, owner, unwinding, cancelling, signal, callVars, sent, broken>>

StreamCompletes(r) ==
  /\ pump[r] = "streaming"
  /\ ~signal[r]
  /\ PumpReceives(r, "completed")
  /\ UNCHANGED <<closed, active, owner, yielded, unwinding, cancelling, signal, callVars, sent, broken>>

\* Mutant: a failure of the stream is not reported.
FailsUnreported(r) ==
  /\ pump[r] = "streaming"
  /\ ~signal[r]
  /\ PumpEnds(r)
  /\ UNCHANGED <<closed, owner, claimed, holding, yielded, unwinding, cancelling, signal, callVars, sent, broken>>

\* The stream raises: _send_error claims the terminal event and sends it,
\* unless the session is closed or the terminal event is claimed already.
StreamFails(r) ==
  /\ pump[r] = "streaming"
  /\ ~signal[r]
  /\ ~closed
  /\ ~claimed[r]
  /\ claimed' = [claimed EXCEPT ![r] = TRUE]
  /\ holding' = [holding EXCEPT ![r] = "error"]
  /\ pump' = [pump EXCEPT ![r] = "sendingError"]
  /\ UNCHANGED <<closed, active, owner, yielded, unwinding, cancelling, signal, callVars, sent, broken>>

StreamFailsInSilence(r) ==
  /\ pump[r] = "streaming"
  /\ ~signal[r]
  /\ closed \/ claimed[r]
  /\ PumpEnds(r)
  /\ UNCHANGED <<closed, owner, claimed, holding, yielded, unwinding, cancelling, signal, callVars, sent, broken>>

\* The CancelledError is thrown into the stream, which unwinds.  What the
\* stream makes of it is its own affair: it re-raises it (below), turns it into
\* a failure (StreamFails) or swallows it and goes on.
StreamIsCancelled(r) ==
  /\ pump[r] = "streaming"
  /\ signal[r]
  /\ signal' = [signal EXCEPT ![r] = FALSE]
  /\ unwinding' = [unwinding EXCEPT ![r] = TRUE]
  /\ UNCHANGED <<closed, active, owner, claimed, pump, holding, yielded, cancelling, callVars, sent, broken>>

StreamRaisesCancelled(r) ==
  /\ pump[r] = "streaming"
  /\ ~signal[r]
  /\ unwinding[r]
  /\ PumpEnds(r)
  /\ UNCHANGED <<closed, owner, claimed, holding, yielded, unwinding, cancelling, signal, callVars, sent, broken>>

\* The transport takes the event: from here on the client may see it.
SendDelivers(r) ==
  /\ pump[r] \in {"sending", "sendingError"}
  /\ ~signal[r]
  /\ pump' = [pump EXCEPT ![r] = IF @ = "sending" THEN "delivered" ELSE "errorDelivered"]
  /\ sent' = [sent EXCEPT ![r] = Append(@, holding[r])]
  /\ UNCHANGED <<closed, active, owner, claimed, holding, yielded, unwinding, cancelling, signal, callVars, broken>>

SendReturns(r) ==
  /\ pump[r] = "delivered"
  /\ ~signal[r]
  /\ holding[r] # "completed"
  /\ pump' = [pump EXCEPT ![r] = "streaming"]
  /\ UNCHANGED <<closed, active, owner, claimed, holding, yielded, unwinding, cancelling, signal, callVars, sent, broken>>

\* After completed the stream is exhausted, without another await.
PumpCompletes(r) ==
  /\ pump[r] = "delivered"
  /\ ~signal[r]
  /\ holding[r] = "completed"
  /\ PumpEnds(r)
  /\ UNCHANGED <<closed, owner, claimed, holding, yielded, unwinding, cancelling, signal, callVars, sent, broken>>

\* The send raises, because it fails (_SendFailed) or because the task is
\* cancelled: either way the stream is closed before the pump ends.
SendRaises(r) ==
  /\ pump[r] \in Sending
  /\ pump' = [pump EXCEPT ![r] = "closing"]
  /\ signal' = [signal EXCEPT ![r] = FALSE]
  /\ broken' = IF signal[r] THEN broken ELSE broken \union {r}
  /\ UNCHANGED <<closed, active, owner, claimed, holding, yielded, unwinding, cancelling, callVars, sent>>

\* _send_error swallows a failure of its send; a CancelledError passes through.
SendErrorEnds(r) ==
  /\ pump[r] \in SendingError
  /\ PumpEnds(r)
  /\ signal' = [signal EXCEPT ![r] = FALSE]
  /\ broken' = IF signal[r] \/ pump[r] = "errorDelivered" THEN broken ELSE broken \union {r}
  /\ UNCHANGED <<closed, owner, claimed, holding, yielded, unwinding, cancelling, callVars, sent>>

\* aclose() returns, or raises what _managed_stream drops in favour of the
\* error that made it close the stream.
StreamIsClosed(r) ==
  /\ pump[r] = "closing"
  /\ PumpEnds(r)
  /\ signal' = [signal EXCEPT ![r] = FALSE]
  /\ UNCHANGED <<closed, owner, claimed, holding, yielded, unwinding, cancelling, callVars, sent, broken>>

-----------------------------------------------------------------------------
(* cancel()                                                                *)

\* generation.task.cancel(): asks a task that is not done to stop.
CancelPump(r) ==
  /\ cancelling' = [cancelling EXCEPT ![r] = @ + 1]
  /\ signal' = [signal EXCEPT ![r] = TRUE]

\* Mutant: a pump that was asked to stop may be asked again.
CancellableAgain(r) ==
  /\ active = r
  /\ owner[r] = None
  /\ ~closed

Cancellable(r) ==
  /\ active = r
  /\ owner[r] = None
  /\ ~closed
  /\ cancelling[r] = 0

CallReturns(c, how) ==
  /\ call' = [call EXCEPT ![c] = "done"]
  /\ result' = [result EXCEPT ![c] = how]

\* Mutant: the finally block forgets the active generation.
ReleasesOwnerOnly(c) ==
  /\ owner' = [owner EXCEPT ![target[c]] = IF @ = c THEN None ELSE @]
  /\ UNCHANGED active

\* The finally block of cancel().
ReleaseOwnership(c) ==
  LET r == target[c] IN
  /\ owner' = [owner EXCEPT ![r] = IF @ = c THEN None ELSE @]
  /\ active' = IF active = r /\ pump[r] = "done" THEN None ELSE active

CancelNotFound(c, r) ==
  /\ call[c] = "ready"
  /\ ~Cancellable(r)
  /\ CallReturns(c, "cancelNotFound")
  /\ UNCHANGED <<closed, active, generationVars, target, awaited, callSignal, callCancelled, sent, broken>>

\* The terminal event is on its way: let it finish, then CANCEL_NOT_FOUND.
CancelComesTooLate(c, r) ==
  /\ call[c] = "ready"
  /\ Cancellable(r)
  /\ claimed[r]
  /\ call' = [call EXCEPT ![c] = "waitTerminal"]
  /\ target' = [target EXCEPT ![c] = r]
  /\ UNCHANGED <<closed, active, generationVars, awaited, callSignal, callCancelled, result, sent, broken>>

TerminalIsOver(c) ==
  /\ call[c] = "waitTerminal"
  /\ ~callSignal[c]
  /\ pump[target[c]] = "done"
  /\ CallReturns(c, "cancelNotFound")
  /\ UNCHANGED <<closed, active, generationVars, target, awaited, callSignal, callCancelled, sent, broken>>

\* task.cancel() returns True here, as the task is not done (LiveWhenCancellable).
CancelOwns(c, r) ==
  /\ call[c] = "ready"
  /\ Cancellable(r)
  /\ ~claimed[r]
  /\ owner' = [owner EXCEPT ![r] = c]
  /\ CancelPump(r)
  /\ call' = [call EXCEPT ![c] = "waitPump"]
  /\ target' = [target EXCEPT ![c] = r]
  /\ UNCHANGED <<closed, active, claimed, pump, holding, yielded, unwinding,
                 awaited, callSignal, callCancelled, result, sent, broken>>

\* The pump is over, and it claimed the terminal event: the cancellation lost
\* the race.  (A close() in between would have stopped this task instead.)
CancelLoses(c) ==
  LET r == target[c] IN
  /\ call[c] = "waitPump"
  /\ ~callSignal[c]
  /\ pump[r] = "done"
  /\ claimed[r] \/ closed
  /\ CallReturns(c, IF claimed[r] THEN "cancelNotFound" ELSE "cancelOk")
  /\ ReleaseOwnership(c)
  /\ UNCHANGED <<closed, claimed, pump, holding, yielded, unwinding, cancelling, signal,
                 target, awaited, callSignal, callCancelled, sent, broken>>

\* Mutant: cancel() does not look again at terminal_claimed after its wait.
WinsRegardless(c) ==
  /\ call[c] = "waitPump"
  /\ ~callSignal[c]
  /\ pump[target[c]] = "done"
  /\ ~closed
  /\ claimed' = [claimed EXCEPT ![target[c]] = TRUE]
  /\ call' = [call EXCEPT ![c] = "sendCancelled"]
  /\ UNCHANGED <<closed, active, owner, pump, holding, yielded, unwinding, cancelling, signal,
                 target, awaited, callSignal, callCancelled, result, sent, broken>>

\* Else cancel() claims the terminal event and sends response.cancelled.
CancelWins(c) ==
  LET r == target[c] IN
  /\ call[c] = "waitPump"
  /\ ~callSignal[c]
  /\ pump[r] = "done"
  /\ ~claimed[r]
  /\ ~closed
  /\ claimed' = [claimed EXCEPT ![r] = TRUE]
  /\ call' = [call EXCEPT ![c] = "sendCancelled"]
  /\ UNCHANGED <<closed, active, owner, pump, holding, yielded, unwinding, cancelling, signal,
                 target, awaited, callSignal, callCancelled, result, sent, broken>>

CancelledIsDelivered(c) ==
  /\ call[c] = "sendCancelled"
  /\ ~callSignal[c]
  /\ sent' = [sent EXCEPT ![target[c]] = Append(@, "cancelled")]
  /\ call' = [call EXCEPT ![c] = "cancelledDelivered"]
  /\ UNCHANGED <<closed, active, generationVars, target, awaited, callSignal, callCancelled, result, broken>>

\* The send of response.cancelled returns, or fails and cancel() swallows it.
CancelledSendEnds(c) ==
  /\ call[c] \in CancelledSend
  /\ ~callSignal[c]
  /\ CallReturns(c, "cancelOk")
  /\ ReleaseOwnership(c)
  /\ broken' = IF call[c] = "cancelledDelivered" THEN broken ELSE broken \union {target[c]}
  /\ UNCHANGED <<closed, claimed, pump, holding, yielded, unwinding, cancelling, signal,
                 target, awaited, callSignal, callCancelled, sent>>

-----------------------------------------------------------------------------
(* close()                                                                 *)

CloseFindsNothing(c) ==
  /\ call[c] = "ready"
  /\ active = None
  /\ closed' = TRUE
  /\ CallReturns(c, "closeOk")
  /\ UNCHANGED <<active, generationVars, target, awaited, callSignal, callCancelled, sent, broken>>

\* A cancel() owns the generation: stop that task first, if nobody did yet.
CloseStopsOwner(c, r) ==
  LET o == owner[r] IN
  /\ call[c] = "ready"
  /\ active = r
  /\ o # None
  /\ closed' = TRUE
  /\ callSignal' = [callSignal EXCEPT ![o] = @ \/ ~callCancelled[o]]
  /\ callCancelled' = [callCancelled EXCEPT ![o] = TRUE]
  /\ call' = [call EXCEPT ![c] = "closeWaitOwner"]
  /\ target' = [target EXCEPT ![c] = r]
  /\ awaited' = [awaited EXCEPT ![c] = o]
  /\ UNCHANGED <<active, generationVars, result, sent, broken>>

CloseStopsPump(c, r) ==
  /\ call[c] = "ready"
  /\ active = r
  /\ owner[r] = None
  /\ pump[r] # "done"
  /\ cancelling[r] = 0
  /\ closed' = TRUE
  /\ CancelPump(r)
  /\ call' = [call EXCEPT ![c] = "closeWaitPump"]
  /\ target' = [target EXCEPT ![c] = r]
  /\ UNCHANGED <<active, owner, claimed, pump, holding, yielded, unwinding,
                 awaited, callSignal, callCancelled, result, sent, broken>>

\* The pump is done or was asked to stop before: only wait for it.
CloseJoinsPump(c, r) ==
  /\ call[c] = "ready"
  /\ active = r
  /\ owner[r] = None
  /\ pump[r] = "done" \/ cancelling[r] > 0
  /\ closed' = TRUE
  /\ call' = [call EXCEPT ![c] = "closeWaitPump"]
  /\ target' = [target EXCEPT ![c] = r]
  /\ UNCHANGED <<active, generationVars, awaited, callSignal, callCancelled, result, sent, broken>>

\* Mutant: close() does not wait for the pump once the owner is over.
OwnerEndsClose(c) ==
  /\ call[c] = "closeWaitOwner"
  /\ ~callSignal[c]
  /\ call[awaited[c]] = "done"
  /\ CallReturns(c, "closeOk")
  /\ UNCHANGED <<closed, active, generationVars, target, awaited, callSignal, callCancelled, sent, broken>>

OwnerIsOver(c) ==
  /\ call[c] = "closeWaitOwner"
  /\ ~callSignal[c]
  /\ call[awaited[c]] = "done"
  /\ call' = [call EXCEPT ![c] = "closeWaitPump"]
  /\ UNCHANGED <<closed, active, generationVars, target, awaited, callSignal, callCancelled, result, sent, broken>>

CloseEnds(c) ==
  /\ call[c] = "closeWaitPump"
  /\ ~callSignal[c]
  /\ pump[target[c]] = "done"
  /\ active' = IF active = target[c] THEN None ELSE active
  /\ CallReturns(c, "closeOk")
  /\ UNCHANGED <<closed, generationVars, target, awaited, callSignal, callCancelled, sent, broken>>

-----------------------------------------------------------------------------
(* The caller tasks are cancelled too: by close() above, or from outside.  *)

CallerIsCancelled(c) ==
  /\ c \in MayBeCancelled
  /\ call[c] \in Waiting
  /\ ~callCancelled[c]
  /\ callCancelled' = [callCancelled EXCEPT ![c] = TRUE]
  /\ callSignal' = [callSignal EXCEPT ![c] = TRUE]
  /\ UNCHANGED <<closed, active, generationVars, call, target, awaited, result, sent, broken>>

\* The CancelledError leaves the call; only cancel(), once it owns the
\* generation, has a finally block.
CallerUnwinds(c) ==
  /\ callSignal[c]
  /\ CallReturns(c, "taskCancelled")
  /\ callSignal' = [callSignal EXCEPT ![c] = FALSE]
  /\ IF call[c] \in OwnerStates
     THEN ReleaseOwnership(c)
     ELSE UNCHANGED <<owner, active>>
  /\ UNCHANGED <<closed, claimed, pump, holding, yielded, unwinding, cancelling, signal,
                 target, awaited, callCancelled, sent, broken>>

-----------------------------------------------------------------------------
PumpStep(r) ==
  \/ PumpBegins(r) \/ PumpNeverBegins(r)
  \/ StreamYields(r) \/ StreamCompletes(r) \/ StreamFails(r) \/ StreamFailsInSilence(r)
  \/ StreamIsCancelled(r) \/ StreamRaisesCancelled(r)
  \/ SendDelivers(r) \/ SendReturns(r) \/ PumpCompletes(r) \/ SendRaises(r)
  \/ SendErrorEnds(r) \/ StreamIsClosed(r)

CallStep(c) ==
  \/ TerminalIsOver(c) \/ CancelLoses(c) \/ CancelWins(c)
  \/ CancelledIsDelivered(c) \/ CancelledSendEnds(c)
  \/ OwnerIsOver(c) \/ CloseEnds(c) \/ CallerUnwinds(c)

CallBegins(c) ==
  \/ CloseFindsNothing(c)
  \/ \E r \in Responses :
       \/ CancelNotFound(c, r) \/ CancelComesTooLate(c, r) \/ CancelOwns(c, r)
       \/ CloseStopsOwner(c, r) \/ CloseStopsPump(c, r) \/ CloseJoinsPump(c, r)

\* Nothing is running and every caller has made its call: the model is at its
\* bound, and any other state without a successor is a deadlock.
AllCallsMade ==
  /\ \A c \in Callers : call[c] = "done"
  /\ \A r \in Responses : ~Live(r)
  /\ UNCHANGED vars

Next ==
  \/ \E r \in Responses : Start(r) \/ PumpStep(r)
  \/ \E c \in Callers : CallBegins(c) \/ CallStep(c) \/ CallerIsCancelled(c)
  \/ AllCallsMade

(***************************************************************************)
(* Every task that can run is run by the event loop, a send ends (uvicorn's *)
(* keepalive closes a connection that does not drain) and so does a stream  *)
(* (the provider's client has a timeout).  Nobody is obliged to call.       *)
(***************************************************************************)
Fairness ==
  /\ \A r \in Responses : WF_vars(PumpStep(r))
  /\ \A c \in Callers : WF_vars(CallStep(c))

Spec == Init /\ [][Next]_vars

FairSpec == Spec /\ Fairness

-----------------------------------------------------------------------------
(* Properties                                                              *)

TypeOK ==
  /\ closed \in BOOLEAN
  /\ active \in Responses \union {None}
  /\ owner \in [Responses -> Callers \union {None}]
  /\ claimed \in [Responses -> BOOLEAN]
  /\ pump \in [Responses -> PumpStates]
  /\ holding \in [Responses -> Kinds \union {None}]
  /\ yielded \in [Responses -> 0 .. MaxDeltas]
  /\ unwinding \in [Responses -> BOOLEAN]
  /\ cancelling \in [Responses -> Nat]
  /\ signal \in [Responses -> BOOLEAN]
  /\ call \in [Callers -> CallStates]
  /\ target \in [Callers -> Responses \union {None}]
  /\ awaited \in [Callers -> Callers \union {None}]
  /\ callSignal \in [Callers -> BOOLEAN]
  /\ callCancelled \in [Callers -> BOOLEAN]
  /\ result \in [Callers -> Results]
  /\ sent \in [Responses -> Seq(Kinds)]
  /\ broken \subseteq Responses

\* A response's terminal event is its last event, so there is at most one:
\* whatever completes, fails or is cancelled first, nothing follows it.
NothingAfterTerminal ==
  \A r \in Responses : \A i \in 1 .. Len(sent[r]) :
    sent[r][i] \in Terminals => i = Len(sent[r])

\* An idle session has no pump left and no response.cancelled under way: the
\* next turn never overlaps what the last one leaves behind.
IdleMeansQuiet ==
  /\ \A r \in Responses : Live(r) => active = r
  /\ \A c \in Callers : call[c] \in OwnerStates => active = target[c]

\* The pump is asked to stop at most once: nobody interrupts the cleanup the
\* first cancellation started.
PumpCancelledOnce ==
  \A r \in Responses : cancelling[r] <= 1

\* cancel() never finds the task done when it decides to cancel it, so its
\* `if not cancellation_requested` is never taken.
LiveWhenCancellable ==
  \A r \in Responses : Cancellable(r) => Live(r)

\* After close() has returned nothing of the session runs or sends any more.
CloseIsFinal ==
  (\E c \in Callers : result[c] = "closeOk") =>
    /\ \A r \in Responses : ~Live(r)
    /\ \A c \in Callers : call[c] \notin OwnerStates

\* A cancel() that reports success was not overtaken: its response did not
\* complete and did not fail.
CancelSucceedsOnlyIfCancelled ==
  \A c \in Callers : result[c] = "cancelOk" =>
    \A i \in 1 .. Len(sent[target[c]]) : sent[target[c]][i] \notin {"completed", "error"}

\* No turn ends in silence: a generation that is over has sent its terminal
\* event, unless the session was closed, a send of that response failed, or
\* the task that was cancelling it was itself cancelled.
EveryTurnIsAnswered ==
  \A r \in Responses : pump[r] = "done" /\ active # r /\ ~closed =>
    \/ \E i \in 1 .. Len(sent[r]) : sent[r][i] \in Terminals
    \/ r \in broken
    \/ \E c \in Callers : target[c] = r /\ result[c] = "taskCancelled"

\* No send begins once the session is closed, whatever the stream still yields.
BeginsSend ==
  \/ \E r \in Responses : pump[r] \notin Sending \union SendingError
                          /\ pump'[r] \in Sending \union SendingError
  \/ \E c \in Callers : call[c] # "sendCancelled" /\ call'[c] = "sendCancelled"
NoSendBegunOnceClosed == [][closed => ~BeginsSend]_vars

\* The session keeps the promise of ResponseProtocol.
Offered ==
  IF \E r \in Responses : pump[r] \in {"sending", "sendingError"}
  THEN holding[CHOOSE r \in Responses : pump[r] \in {"sending", "sendingError"}]
  ELSE IF \E c \in Callers : call[c] = "sendCancelled" THEN "cancelled" ELSE None

Protocol == INSTANCE ResponseProtocol WITH
  turn <- active,
  past <- {r \in Responses : pump[r] # "absent"},
  hungUp <- closed,
  offer <- Offered,
  said <- sent

ImplementsProtocol == Protocol!Spec

\* cancel() and close() return: no caller, pump and owner wait on each other.
CallsReturn ==
  \A c \in Callers : call[c] # "ready" ~> call[c] = "done"

\* A generation is over some time and the session can start the next one,
\* unless the task that was cancelling it was itself cancelled.  (Then a pump
\* that had not begun leaves the session busy until somebody closes it.)
BusyEnds ==
  \A r \in Responses :
    active = r ~> active # r \/ \E c \in Callers : target[c] = r /\ result[c] = "taskCancelled"
=============================================================================
