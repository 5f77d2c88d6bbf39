---------------------- MODULE ConversationSessionProofs ----------------------
(***************************************************************************)
(* Proofs about ConversationSession, for any number of generations and of  *)
(* callers.                                                                *)
(***************************************************************************)
EXTENDS ConversationSession, TLAPS

USE DEF Terminals, Kinds, Sending, SendingError, PumpStates, CancelledSend, OwnerStates,
        Waiting, CallStates, Results

-----------------------------------------------------------------------------
(* Typing: the type invariant, and where target and holding are defined.   *)

Targets == \A c \in Callers : call[c] \in Waiting => target[c] \in Responses
Held == \A r \in Responses : pump[r] \in Sending \union SendingError => holding[r] \in Kinds

Typing == TypeOK /\ Targets /\ Held

\* A new session has no generation and no caller.
LEMMA TypingInit == Init => Typing
<1> SUFFICES ASSUME Init PROVE Typing
  OBVIOUS
<1> USE ConstantsAssumption DEF Init
<1>1. sent \in [Responses -> Seq(Kinds)]
  OBVIOUS
<1>2. yielded \in [Responses -> 0 .. MaxDeltas]
  OBVIOUS
<1>3. /\ pump \in [Responses -> PumpStates]
      /\ holding \in [Responses -> Kinds \union {None}]
  OBVIOUS
<1>4. /\ call \in [Callers -> CallStates]
      /\ result \in [Callers -> Results]
  OBVIOUS
<1>5. TypeOK BY <1>1, <1>2, <1>3, <1>4 DEF TypeOK
<1>6. Targets BY DEF Targets
<1>7. Held BY DEF Held
<1> QED BY <1>5, <1>6, <1>7 DEF Typing

\* start() and the pump's steps keep the types, and who waits for whom.
LEMMA PumpKeepsTyping ==
  ASSUME Typing, NEW r \in Responses, Start(r) \/ PumpStep(r)
  PROVE  Typing'
<1> USE ConstantsAssumption DEF Typing, TypeOK, Targets, Held, callVars
<1>1. CASE Start(r) BY <1>1 DEF Start
<1>2. CASE PumpBegins(r) BY <1>2 DEF PumpBegins, PumpReceives
<1>3. CASE PumpNeverBegins(r) BY <1>3 DEF PumpNeverBegins
<1>4. CASE StreamYields(r) BY <1>4 DEF StreamYields, PumpReceives
<1>5. CASE StreamCompletes(r) BY <1>5 DEF StreamCompletes, PumpReceives
<1>6. CASE StreamFails(r) BY <1>6 DEF StreamFails
<1>7. CASE StreamFailsInSilence(r) BY <1>7 DEF StreamFailsInSilence, PumpEnds
<1>8. CASE StreamIsCancelled(r) BY <1>8 DEF StreamIsCancelled
<1>9. CASE StreamRaisesCancelled(r) BY <1>9 DEF StreamRaisesCancelled, PumpEnds
<1>10. CASE SendDelivers(r) BY <1>10 DEF SendDelivers
<1>11. CASE SendReturns(r) BY <1>11 DEF SendReturns
<1>12. CASE PumpCompletes(r) BY <1>12 DEF PumpCompletes, PumpEnds
<1>13. CASE SendRaises(r) BY <1>13 DEF SendRaises
<1>14. CASE SendErrorEnds(r) BY <1>14 DEF SendErrorEnds, PumpEnds
<1>15. CASE StreamIsClosed(r) BY <1>15 DEF StreamIsClosed, PumpEnds
<1> QED BY <1>1, <1>2, <1>3, <1>4, <1>5, <1>6, <1>7, <1>8, <1>9, <1>10, <1>11, <1>12,
           <1>13, <1>14, <1>15 DEF PumpStep

\* So do the steps of cancel() and close().
LEMMA CallKeepsTyping ==
  ASSUME Typing, NEW c \in Callers, CallBegins(c) \/ CallStep(c) \/ CallerIsCancelled(c)
  PROVE  Typing'
<1> USE ConstantsAssumption DEF Typing, TypeOK, Targets, Held, generationVars, CallReturns
<1>1. CASE CloseFindsNothing(c) BY <1>1 DEF CloseFindsNothing
<1>2. ASSUME NEW r \in Responses, CancelNotFound(c, r) PROVE Typing'
  BY <1>2 DEF CancelNotFound
<1>3. ASSUME NEW r \in Responses, CancelComesTooLate(c, r) PROVE Typing'
  BY <1>3 DEF CancelComesTooLate
<1>4. ASSUME NEW r \in Responses, CancelOwns(c, r) PROVE Typing'
  BY <1>4 DEF CancelOwns, CancelPump
<1>5. ASSUME NEW r \in Responses, CloseStopsOwner(c, r) PROVE Typing'
  BY <1>5 DEF CloseStopsOwner
<1>6. ASSUME NEW r \in Responses, CloseStopsPump(c, r) PROVE Typing'
  BY <1>6 DEF CloseStopsPump, CancelPump
<1>7. ASSUME NEW r \in Responses, CloseJoinsPump(c, r) PROVE Typing'
  BY <1>7 DEF CloseJoinsPump
<1>8. CASE TerminalIsOver(c) BY <1>8 DEF TerminalIsOver
<1>9. CASE CancelLoses(c) BY <1>9 DEF CancelLoses, ReleaseOwnership
<1>10. CASE CancelWins(c) BY <1>10 DEF CancelWins
<1>11. CASE CancelledIsDelivered(c) BY <1>11 DEF CancelledIsDelivered
<1>12. CASE CancelledSendEnds(c) BY <1>12 DEF CancelledSendEnds, ReleaseOwnership
<1>13. CASE OwnerIsOver(c) BY <1>13 DEF OwnerIsOver
<1>14. CASE CloseEnds(c) BY <1>14 DEF CloseEnds
<1>15. CASE CallerUnwinds(c) BY <1>15 DEF CallerUnwinds, ReleaseOwnership
<1>16. CASE CallerIsCancelled(c) BY <1>16 DEF CallerIsCancelled
<1> QED BY <1>1, <1>2, <1>3, <1>4, <1>5, <1>6, <1>7, <1>8, <1>9, <1>10, <1>11, <1>12,
           <1>13, <1>14, <1>15, <1>16 DEF CallBegins, CallStep

\* Typing is inductive.
LEMMA TypingStep == Typing /\ [Next]_vars => Typing'
<1> SUFFICES ASSUME Typing, [Next]_vars PROVE Typing'
  OBVIOUS
<1>1. CASE UNCHANGED vars
  BY <1>1 DEF vars, generationVars, callVars, Typing, TypeOK, Targets, Held
<1>2. CASE AllCallsMade
  BY <1>1, <1>2 DEF AllCallsMade
<1> QED BY <1>1, <1>2, PumpKeepsTyping, CallKeepsTyping DEF Next

\* Every variable keeps its type, for any number of generations and callers.
THEOREM TypeCorrect == Spec => []TypeOK
<1>1. Typing => TypeOK
  BY DEF Typing
<1> QED BY <1>1, TypingInit, TypingStep, PTL DEF Spec

-----------------------------------------------------------------------------
(* Ownership: a live pump is the active generation's, and a caller beyond  *)
(* the point where cancel() took ownership still has it.                   *)

LiveIsActive == \A r \in Responses : Live(r) => active = r
OwnersOwn == \A c \in Callers : call[c] \in OwnerStates =>
  owner[target[c]] = c /\ active = target[c]
OwnedByOwners == \A r \in Responses : owner[r] # None =>
  call[owner[r]] \in OwnerStates /\ target[owner[r]] = r
CancelledSendsAfterPump == \A c \in Callers : call[c] \in CancelledSend =>
  pump[target[c]] = "done" /\ claimed[target[c]]

(* Closing: while a close() waits nobody starts or takes ownership, so the *)
(* generation it waits for stays the last one.                             *)

ClosersClose == \A c \in Callers : call[c] \in {"closeWaitOwner", "closeWaitPump"} =>
  closed /\ active \in {target[c], None}
ClosersWaitForOwner == \A c \in Callers : call[c] = "closeWaitOwner" =>
  awaited[c] \in Callers /\ owner[target[c]] \in {awaited[c], None}
ClosersOutliveOwner == \A c \in Callers : call[c] = "closeWaitPump" => owner[target[c]] = None
ClosedIsIdle == (\E c \in Callers : result[c] = "closeOk") => closed /\ active = None

Ownership ==
  /\ LiveIsActive /\ OwnersOwn /\ OwnedByOwners /\ CancelledSendsAfterPump
  /\ ClosersClose /\ ClosersWaitForOwner /\ ClosersOutliveOwner /\ ClosedIsIdle

\* A live pump's generation stays the active one.
LEMMA PumpKeepsOwnership ==
  ASSUME Typing, Ownership, Typing', NEW r \in Responses, Start(r) \/ PumpStep(r)
  PROVE  Ownership'
<1> USE ConstantsAssumption DEF Typing, TypeOK, Targets, Ownership, LiveIsActive, OwnersOwn,
       OwnedByOwners,
       CancelledSendsAfterPump, ClosersClose, ClosersWaitForOwner, ClosersOutliveOwner,
       ClosedIsIdle, Live, callVars
<1>1. CASE Start(r) BY <1>1 DEF Start
<1>2. CASE PumpBegins(r) BY <1>2 DEF PumpBegins, PumpReceives
<1>3. CASE PumpNeverBegins(r) BY <1>3 DEF PumpNeverBegins
<1>4. CASE StreamYields(r) BY <1>4 DEF StreamYields, PumpReceives
<1>5. CASE StreamCompletes(r) BY <1>5 DEF StreamCompletes, PumpReceives
<1>6. CASE StreamFails(r) BY <1>6 DEF StreamFails
<1>7. CASE StreamFailsInSilence(r) BY <1>7 DEF StreamFailsInSilence, PumpEnds
<1>8. CASE StreamIsCancelled(r) BY <1>8 DEF StreamIsCancelled
<1>9. CASE StreamRaisesCancelled(r) BY <1>9 DEF StreamRaisesCancelled, PumpEnds
<1>10. CASE SendDelivers(r) BY <1>10 DEF SendDelivers
<1>11. CASE SendReturns(r) BY <1>11 DEF SendReturns
<1>12. CASE PumpCompletes(r) BY <1>12 DEF PumpCompletes, PumpEnds
<1>13. CASE SendRaises(r) BY <1>13 DEF SendRaises
<1>14. CASE SendErrorEnds(r) BY <1>14 DEF SendErrorEnds, PumpEnds
<1>15. CASE StreamIsClosed(r) BY <1>15 DEF StreamIsClosed, PumpEnds
<1> QED BY <1>1, <1>2, <1>3, <1>4, <1>5, <1>6, <1>7, <1>8, <1>9, <1>10, <1>11, <1>12,
           <1>13, <1>14, <1>15 DEF PumpStep

\* cancel() and close() become, and cease to be, owners only as the code lets them.
LEMMA CallKeepsOwnership ==
  ASSUME Typing, Ownership, Typing', NEW c \in Callers,
         CallBegins(c) \/ CallStep(c) \/ CallerIsCancelled(c)
  PROVE  Ownership'
<1> USE ConstantsAssumption DEF Typing, TypeOK, Targets, Ownership, LiveIsActive, OwnersOwn,
       OwnedByOwners,
       CancelledSendsAfterPump, ClosersClose, ClosersWaitForOwner, ClosersOutliveOwner,
       ClosedIsIdle, Live, Cancellable, generationVars, CallReturns
<1>1. CASE CloseFindsNothing(c) BY <1>1 DEF CloseFindsNothing
<1>2. ASSUME NEW r \in Responses, CancelNotFound(c, r) PROVE Ownership'
  BY <1>2 DEF CancelNotFound
<1>3. ASSUME NEW r \in Responses, CancelComesTooLate(c, r) PROVE Ownership'
  BY <1>3 DEF CancelComesTooLate
<1>4. ASSUME NEW r \in Responses, CancelOwns(c, r) PROVE Ownership'
  BY <1>4 DEF CancelOwns, CancelPump
<1>5. ASSUME NEW r \in Responses, CloseStopsOwner(c, r) PROVE Ownership'
  BY <1>5 DEF CloseStopsOwner
<1>6. ASSUME NEW r \in Responses, CloseStopsPump(c, r) PROVE Ownership'
  BY <1>6 DEF CloseStopsPump, CancelPump
<1>7. ASSUME NEW r \in Responses, CloseJoinsPump(c, r) PROVE Ownership'
  BY <1>7 DEF CloseJoinsPump
<1>8. CASE TerminalIsOver(c) BY <1>8 DEF TerminalIsOver
<1>9. CASE CancelLoses(c) BY <1>9 DEF CancelLoses, ReleaseOwnership
<1>10. CASE CancelWins(c) BY <1>10 DEF CancelWins
<1>11. CASE CancelledIsDelivered(c) BY <1>11 DEF CancelledIsDelivered
<1>12. CASE CancelledSendEnds(c) BY <1>12 DEF CancelledSendEnds, ReleaseOwnership
<1>13. CASE OwnerIsOver(c) BY <1>13 DEF OwnerIsOver
<1>14. CASE CloseEnds(c) BY <1>14 DEF CloseEnds
<1>15. CASE CallerUnwinds(c)
  <2>1. CASE call[c] \in OwnerStates
    <3>1. ReleaseOwnership(c) BY <1>15, <2>1 DEF CallerUnwinds
    <3>2. LiveIsActive' BY <1>15, <2>1, <3>1 DEF CallerUnwinds, ReleaseOwnership
    <3>3. OwnersOwn' BY <1>15, <2>1, <3>1 DEF CallerUnwinds, ReleaseOwnership
    <3>4. OwnedByOwners' BY <1>15, <2>1, <3>1 DEF CallerUnwinds, ReleaseOwnership
    <3>5. CancelledSendsAfterPump' BY <1>15, <2>1, <3>1 DEF CallerUnwinds, ReleaseOwnership
    <3>6. (ClosersClose /\ ClosersWaitForOwner /\ ClosersOutliveOwner)'
      BY <1>15, <2>1, <3>1 DEF CallerUnwinds, ReleaseOwnership
    <3>7. ClosedIsIdle' BY <1>15, <2>1, <3>1 DEF CallerUnwinds, ReleaseOwnership
    <3> QED BY <3>2, <3>3, <3>4, <3>5, <3>6, <3>7
  <2>2. CASE call[c] \notin OwnerStates
    <3>1. UNCHANGED <<owner, active>> BY <1>15, <2>2 DEF CallerUnwinds
    <3> QED BY <1>15, <2>2, <3>1 DEF CallerUnwinds
  <2> QED BY <2>1, <2>2
<1>16. CASE CallerIsCancelled(c) BY <1>16 DEF CallerIsCancelled
<1> QED BY <1>1, <1>2, <1>3, <1>4, <1>5, <1>6, <1>7, <1>8, <1>9, <1>10, <1>11, <1>12,
           <1>13, <1>14, <1>15, <1>16 DEF CallBegins, CallStep

-----------------------------------------------------------------------------
(* Cancellations: a pump is asked to stop at most once, and the active     *)
(* generation has a live pump, an owner, or a pump that was asked to stop. *)

SignalsAreCounted == \A r \in Responses :
  signal[r] \/ owner[r] # None => cancelling[r] = 1
ActiveHasTask == \A r \in Responses : active = r => Live(r) \/ cancelling[r] = 1
Cancellations == PumpCancelledOnce /\ SignalsAreCounted /\ ActiveHasTask

\* A pump does not ask itself to stop.
LEMMA PumpKeepsCancellations ==
  ASSUME Typing, Ownership, Cancellations, Typing', NEW r \in Responses, Start(r) \/ PumpStep(r)
  PROVE  Cancellations'
<1> USE ConstantsAssumption DEF Typing, TypeOK, Targets, Ownership, LiveIsActive, OwnersOwn,
       OwnedByOwners,
       Cancellations, PumpCancelledOnce, SignalsAreCounted, ActiveHasTask, Live, callVars
<1>1. CASE Start(r) BY <1>1 DEF Start
<1>2. CASE PumpBegins(r) BY <1>2 DEF PumpBegins, PumpReceives
<1>3. CASE PumpNeverBegins(r) BY <1>3 DEF PumpNeverBegins
<1>4. CASE StreamYields(r) BY <1>4 DEF StreamYields, PumpReceives
<1>5. CASE StreamCompletes(r) BY <1>5 DEF StreamCompletes, PumpReceives
<1>6. CASE StreamFails(r) BY <1>6 DEF StreamFails
<1>7. CASE StreamFailsInSilence(r) BY <1>7 DEF StreamFailsInSilence, PumpEnds
<1>8. CASE StreamIsCancelled(r) BY <1>8 DEF StreamIsCancelled
<1>9. CASE StreamRaisesCancelled(r) BY <1>9 DEF StreamRaisesCancelled, PumpEnds
<1>10. CASE SendDelivers(r) BY <1>10 DEF SendDelivers
<1>11. CASE SendReturns(r) BY <1>11 DEF SendReturns
<1>12. CASE PumpCompletes(r) BY <1>12 DEF PumpCompletes, PumpEnds
<1>13. CASE SendRaises(r) BY <1>13 DEF SendRaises
<1>14. CASE SendErrorEnds(r) BY <1>14 DEF SendErrorEnds, PumpEnds
<1>15. CASE StreamIsClosed(r) BY <1>15 DEF StreamIsClosed, PumpEnds
<1> QED BY <1>1, <1>2, <1>3, <1>4, <1>5, <1>6, <1>7, <1>8, <1>9, <1>10, <1>11, <1>12,
           <1>13, <1>14, <1>15 DEF PumpStep

\* A caller asks a pump to stop only if nobody has.
LEMMA CallKeepsCancellations ==
  ASSUME Typing, Ownership, Cancellations, Typing', NEW c \in Callers,
         CallBegins(c) \/ CallStep(c) \/ CallerIsCancelled(c)
  PROVE  Cancellations'
<1> USE ConstantsAssumption DEF Typing, TypeOK, Targets, Ownership, LiveIsActive, OwnersOwn,
       OwnedByOwners,
       Cancellations, PumpCancelledOnce, SignalsAreCounted, ActiveHasTask, Live, Cancellable,
       generationVars, CallReturns
<1>1. CASE CloseFindsNothing(c) BY <1>1 DEF CloseFindsNothing
<1>2. ASSUME NEW r \in Responses, CancelNotFound(c, r) PROVE Cancellations'
  BY <1>2 DEF CancelNotFound
<1>3. ASSUME NEW r \in Responses, CancelComesTooLate(c, r) PROVE Cancellations'
  BY <1>3 DEF CancelComesTooLate
<1>4. ASSUME NEW r \in Responses, CancelOwns(c, r) PROVE Cancellations'
  BY <1>4 DEF CancelOwns, CancelPump
<1>5. ASSUME NEW r \in Responses, CloseStopsOwner(c, r) PROVE Cancellations'
  BY <1>5 DEF CloseStopsOwner
<1>6. ASSUME NEW r \in Responses, CloseStopsPump(c, r) PROVE Cancellations'
  BY <1>6 DEF CloseStopsPump, CancelPump
<1>7. ASSUME NEW r \in Responses, CloseJoinsPump(c, r) PROVE Cancellations'
  BY <1>7 DEF CloseJoinsPump
<1>8. CASE TerminalIsOver(c) BY <1>8 DEF TerminalIsOver
<1>9. CASE CancelLoses(c) BY <1>9 DEF CancelLoses, ReleaseOwnership
<1>10. CASE CancelWins(c) BY <1>10 DEF CancelWins
<1>11. CASE CancelledIsDelivered(c) BY <1>11 DEF CancelledIsDelivered
<1>12. CASE CancelledSendEnds(c) BY <1>12 DEF CancelledSendEnds, ReleaseOwnership
<1>13. CASE OwnerIsOver(c) BY <1>13 DEF OwnerIsOver
<1>14. CASE CloseEnds(c) BY <1>14 DEF CloseEnds
<1>15. CASE CallerUnwinds(c) BY <1>15 DEF CallerUnwinds, ReleaseOwnership
<1>16. CASE CallerIsCancelled(c) BY <1>16 DEF CallerIsCancelled
<1> QED BY <1>1, <1>2, <1>3, <1>4, <1>5, <1>6, <1>7, <1>8, <1>9, <1>10, <1>11, <1>12,
           <1>13, <1>14, <1>15, <1>16 DEF CallBegins, CallStep

-----------------------------------------------------------------------------
(* Claims: who may still put a terminal event on the connection.           *)

TerminalFree(s) == \A i \in 1 .. Len(s) : s[i] \notin Terminals
OutcomeFree(s) == \A i \in 1 .. Len(s) : s[i] \notin {"completed", "error"}
TerminalIsLast(s) == \A i \in 1 .. Len(s) : s[i] \in Terminals => i = Len(s)

UnclaimedUntilTerminal == \A r \in Responses :
  pump[r] \in {"absent", "created", "streaming"} => ~claimed[r]
ClaimsWhatItSends == \A r \in Responses :
  /\ pump[r] \in Sending => holding[r] \in {"started", "delta", "completed"}
                              /\ (claimed[r] <=> holding[r] = "completed")
  /\ pump[r] \in SendingError => holding[r] = "error" /\ claimed[r]

\* The terminal event is still to be delivered, if there is to be one.
TerminalToCome(r) ==
  \/ ~claimed[r]
  \/ pump[r] \in {"sending", "sendingError"}
  \/ \E c \in Callers : call[c] = "sendCancelled" /\ target[c] = r
NoTerminalYet == \A r \in Responses : TerminalToCome(r) => TerminalFree(sent[r])

CancelledIsClean == \A c \in Callers :
  call[c] \in CancelledSend \/ result[c] = "cancelOk" =>
    /\ target[c] \in Responses
    /\ pump[target[c]] = "done"
    /\ OutcomeFree(sent[target[c]])

ResultsAreLast == \A c \in Callers : result[c] # "none" => call[c] = "done"

Claims ==
  /\ ResultsAreLast
  /\ UnclaimedUntilTerminal /\ ClaimsWhatItSends /\ NoTerminalYet
  /\ CancelledIsClean /\ \A r \in Responses : TerminalIsLast(sent[r])

\* Appending an event to a sequence without terminal events.
LEMMA AppendToFree ==
  ASSUME NEW s \in Seq(Kinds), NEW k \in Kinds, TerminalFree(s)
  PROVE  /\ TerminalIsLast(Append(s, k))
         /\ k \notin Terminals => TerminalFree(Append(s, k))
         /\ k = "cancelled" => OutcomeFree(Append(s, k))
  BY DEF TerminalFree, OutcomeFree, TerminalIsLast

\* Without a terminal event there is no completion or failure.
LEMMA FreeOfFewer ==
  ASSUME NEW s, TerminalFree(s)
  PROVE  OutcomeFree(s)
  BY DEF TerminalFree, OutcomeFree

\* A pump sends a terminal event only after it claimed it.
LEMMA PumpKeepsClaims ==
  ASSUME Typing, Ownership, Claims, Typing', NEW r \in Responses, Start(r) \/ PumpStep(r)
  PROVE  Claims'
<1> USE ConstantsAssumption DEF Typing, TypeOK, Targets, Ownership, LiveIsActive, OwnersOwn,
       OwnedByOwners,
       CancelledSendsAfterPump, Claims, ResultsAreLast, UnclaimedUntilTerminal,
       ClaimsWhatItSends, NoTerminalYet,
       TerminalToCome, CancelledIsClean, Live, callVars
<1>1. CASE Start(r) BY <1>1 DEF Start
<1>2. CASE PumpBegins(r) BY <1>2 DEF PumpBegins, PumpReceives
<1>3. CASE PumpNeverBegins(r) BY <1>3 DEF PumpNeverBegins
<1>4. CASE StreamYields(r) BY <1>4 DEF StreamYields, PumpReceives
<1>5. CASE StreamCompletes(r) BY <1>5 DEF StreamCompletes, PumpReceives
<1>6. CASE StreamFails(r) BY <1>6 DEF StreamFails
<1>7. CASE StreamFailsInSilence(r) BY <1>7 DEF StreamFailsInSilence, PumpEnds
<1>8. CASE StreamIsCancelled(r) BY <1>8 DEF StreamIsCancelled
<1>9. CASE StreamRaisesCancelled(r) BY <1>9 DEF StreamRaisesCancelled, PumpEnds
<1>10. CASE SendDelivers(r) BY <1>10, AppendToFree DEF SendDelivers
<1>11. CASE SendReturns(r) BY <1>11 DEF SendReturns
<1>12. CASE PumpCompletes(r) BY <1>12 DEF PumpCompletes, PumpEnds
<1>13. CASE SendRaises(r) BY <1>13 DEF SendRaises
<1>14. CASE SendErrorEnds(r) BY <1>14 DEF SendErrorEnds, PumpEnds
<1>15. CASE StreamIsClosed(r) BY <1>15 DEF StreamIsClosed, PumpEnds
<1> QED BY <1>1, <1>2, <1>3, <1>4, <1>5, <1>6, <1>7, <1>8, <1>9, <1>10, <1>11, <1>12,
           <1>13, <1>14, <1>15 DEF PumpStep

\* response.cancelled is sent by an owner whose generation nobody claimed.
LEMMA CallKeepsClaims ==
  ASSUME Typing, Ownership, Claims, Typing', NEW c \in Callers,
         CallBegins(c) \/ CallStep(c) \/ CallerIsCancelled(c)
  PROVE  Claims'
<1> USE ConstantsAssumption DEF Typing, TypeOK, Targets, Ownership, LiveIsActive, OwnersOwn,
       OwnedByOwners,
       CancelledSendsAfterPump, Claims, ResultsAreLast, UnclaimedUntilTerminal,
       ClaimsWhatItSends, NoTerminalYet,
       TerminalToCome, CancelledIsClean, Live, Cancellable, generationVars, CallReturns
<1>1. CASE CloseFindsNothing(c) BY <1>1 DEF CloseFindsNothing
<1>2. ASSUME NEW r \in Responses, CancelNotFound(c, r) PROVE Claims'
  BY <1>2 DEF CancelNotFound
<1>3. ASSUME NEW r \in Responses, CancelComesTooLate(c, r) PROVE Claims'
  <2>1. (ResultsAreLast /\ UnclaimedUntilTerminal /\ ClaimsWhatItSends /\ NoTerminalYet)'
    BY <1>3 DEF CancelComesTooLate
  <2>2. \A q \in Responses : TerminalIsLast(sent'[q]) BY <1>3 DEF CancelComesTooLate
  <2>3. \A q \in Callers : q # c => call'[q] = call[q] /\ result'[q] = result[q] /\ target'[q] = target[q]
    BY <1>3 DEF CancelComesTooLate
  <2>4. call'[c] \notin CancelledSend /\ result'[c] = "none"
    BY <1>3 DEF CancelComesTooLate
  <2>5. CancelledIsClean' BY <1>3, <2>3, <2>4 DEF CancelComesTooLate
  <2> QED BY <2>1, <2>2, <2>5
<1>4. ASSUME NEW r \in Responses, CancelOwns(c, r) PROVE Claims'
  <2>1. (ResultsAreLast /\ UnclaimedUntilTerminal /\ ClaimsWhatItSends /\ NoTerminalYet)'
    BY <1>4 DEF CancelOwns, CancelPump
  <2>2. \A q \in Responses : TerminalIsLast(sent'[q]) BY <1>4 DEF CancelOwns, CancelPump
  <2>3. \A q \in Callers : q # c => call'[q] = call[q] /\ result'[q] = result[q] /\ target'[q] = target[q]
    BY <1>4 DEF CancelOwns, CancelPump
  <2>4. call'[c] \notin CancelledSend /\ result'[c] = "none"
    BY <1>4 DEF CancelOwns, CancelPump
  <2>5. CancelledIsClean' BY <1>4, <2>3, <2>4 DEF CancelOwns, CancelPump
  <2> QED BY <2>1, <2>2, <2>5
<1>5. ASSUME NEW r \in Responses, CloseStopsOwner(c, r) PROVE Claims'
  <2>1. (ResultsAreLast /\ UnclaimedUntilTerminal /\ ClaimsWhatItSends /\ NoTerminalYet)'
    BY <1>5 DEF CloseStopsOwner
  <2>2. \A q \in Responses : TerminalIsLast(sent'[q]) BY <1>5 DEF CloseStopsOwner
  <2>3. \A q \in Callers : q # c => call'[q] = call[q] /\ result'[q] = result[q] /\ target'[q] = target[q]
    BY <1>5 DEF CloseStopsOwner
  <2>4. call'[c] \notin CancelledSend /\ result'[c] = "none"
    BY <1>5 DEF CloseStopsOwner
  <2>5. CancelledIsClean' BY <1>5, <2>3, <2>4 DEF CloseStopsOwner
  <2> QED BY <2>1, <2>2, <2>5
<1>6. ASSUME NEW r \in Responses, CloseStopsPump(c, r) PROVE Claims'
  <2>1. (ResultsAreLast /\ UnclaimedUntilTerminal /\ ClaimsWhatItSends /\ NoTerminalYet)'
    BY <1>6 DEF CloseStopsPump, CancelPump
  <2>2. \A q \in Responses : TerminalIsLast(sent'[q]) BY <1>6 DEF CloseStopsPump, CancelPump
  <2>3. \A q \in Callers : q # c => call'[q] = call[q] /\ result'[q] = result[q] /\ target'[q] = target[q]
    BY <1>6 DEF CloseStopsPump, CancelPump
  <2>4. call'[c] \notin CancelledSend /\ result'[c] = "none"
    BY <1>6 DEF CloseStopsPump, CancelPump
  <2>5. CancelledIsClean' BY <1>6, <2>3, <2>4 DEF CloseStopsPump, CancelPump
  <2> QED BY <2>1, <2>2, <2>5
<1>7. ASSUME NEW r \in Responses, CloseJoinsPump(c, r) PROVE Claims'
  <2>1. (ResultsAreLast /\ UnclaimedUntilTerminal /\ ClaimsWhatItSends /\ NoTerminalYet)'
    BY <1>7 DEF CloseJoinsPump
  <2>2. \A q \in Responses : TerminalIsLast(sent'[q]) BY <1>7 DEF CloseJoinsPump
  <2>3. \A q \in Callers : q # c => call'[q] = call[q] /\ result'[q] = result[q] /\ target'[q] = target[q]
    BY <1>7 DEF CloseJoinsPump
  <2>4. call'[c] \notin CancelledSend /\ result'[c] = "none"
    BY <1>7 DEF CloseJoinsPump
  <2>5. CancelledIsClean' BY <1>7, <2>3, <2>4 DEF CloseJoinsPump
  <2> QED BY <2>1, <2>2, <2>5
<1>8. CASE TerminalIsOver(c) BY <1>8 DEF TerminalIsOver
<1>9. CASE CancelLoses(c) BY <1>9, FreeOfFewer DEF CancelLoses, ReleaseOwnership
<1>10. CASE CancelWins(c) BY <1>10, FreeOfFewer DEF CancelWins
<1>11. CASE CancelledIsDelivered(c) BY <1>11, AppendToFree DEF CancelledIsDelivered
<1>12. CASE CancelledSendEnds(c) BY <1>12 DEF CancelledSendEnds, ReleaseOwnership
<1>13. CASE OwnerIsOver(c) BY <1>13 DEF OwnerIsOver
<1>14. CASE CloseEnds(c) BY <1>14 DEF CloseEnds
<1>15. CASE CallerUnwinds(c) BY <1>15 DEF CallerUnwinds, ReleaseOwnership
<1>16. CASE CallerIsCancelled(c) BY <1>16 DEF CallerIsCancelled
<1> QED BY <1>1, <1>2, <1>3, <1>4, <1>5, <1>6, <1>7, <1>8, <1>9, <1>10, <1>11, <1>12,
           <1>13, <1>14, <1>15, <1>16 DEF CallBegins, CallStep

-----------------------------------------------------------------------------
(* The inductive invariant, and the theorems it gives.                     *)

Inv == Typing /\ Ownership /\ Cancellations /\ Claims

\* Nothing was sent yet.
LEMMA InvInit == Init => Inv
<1> SUFFICES ASSUME Init PROVE Inv
  OBVIOUS
<1> USE ConstantsAssumption DEF Init
<1>1. Typing BY TypingInit
<1>2. Ownership
  BY DEF Ownership, LiveIsActive, OwnersOwn, OwnedByOwners, CancelledSendsAfterPump, ClosersClose,
         ClosersWaitForOwner, ClosersOutliveOwner, ClosedIsIdle, Live
<1>3. Cancellations
  BY DEF Cancellations, PumpCancelledOnce, SignalsAreCounted, ActiveHasTask
<1>4. \A r \in Responses : TerminalFree(sent[r]) /\ TerminalIsLast(sent[r])
  <2>1. \A r \in Responses : Len(sent[r]) = 0
    OBVIOUS
  <2>2. \A i \in 1 .. 0 : FALSE
    OBVIOUS
  <2> QED BY <2>1, <2>2 DEF TerminalFree, TerminalIsLast
<1>5. Claims
  BY <1>4 DEF Claims, ResultsAreLast, UnclaimedUntilTerminal, ClaimsWhatItSends, NoTerminalYet,
              CancelledIsClean
<1> QED BY <1>1, <1>2, <1>3, <1>5 DEF Inv

\* The invariant is inductive.
LEMMA InvStep == Inv /\ [Next]_vars => Inv'
<1> SUFFICES ASSUME Inv, [Next]_vars PROVE Inv'
  OBVIOUS
<1>1. Typing' BY TypingStep DEF Inv
<1>2. ASSUME NEW r \in Responses, Start(r) \/ PumpStep(r) PROVE Inv'
  BY <1>1, <1>2, PumpKeepsOwnership, PumpKeepsCancellations, PumpKeepsClaims DEF Inv
<1>3. ASSUME NEW c \in Callers, CallBegins(c) \/ CallStep(c) \/ CallerIsCancelled(c) PROVE Inv'
  BY <1>1, <1>3, CallKeepsOwnership, CallKeepsCancellations, CallKeepsClaims DEF Inv
<1>4. CASE UNCHANGED vars
  <2> USE <1>4 DEF vars, generationVars, callVars, Inv
  <2>1. Ownership'
    BY DEF Ownership, LiveIsActive, OwnersOwn, OwnedByOwners, CancelledSendsAfterPump, ClosersClose,
           ClosersWaitForOwner, ClosersOutliveOwner, ClosedIsIdle, Live
  <2>2. Cancellations'
    BY DEF Cancellations, PumpCancelledOnce, SignalsAreCounted, ActiveHasTask, Live
  <2>3. Claims'
    BY DEF Claims, ResultsAreLast, UnclaimedUntilTerminal, ClaimsWhatItSends, NoTerminalYet,
           TerminalToCome, CancelledIsClean
  <2> QED BY <1>1, <2>1, <2>2, <2>3
<1>5. CASE AllCallsMade
  BY <1>4, <1>5 DEF AllCallsMade
<1> QED BY <1>2, <1>3, <1>4, <1>5 DEF Next

\* Types, ownership, claims, cancellations and the order of the events sent hold together.
THEOREM InductiveInvariant == Spec => []Inv
  BY InvInit, InvStep, PTL DEF Spec

\* At most one terminal event per response, and nothing after it: whichever of
\* _pump, _send_error and cancel() gets there first (terminal_claimed).
THEOREM TerminalEventIsLast == Spec => []NothingAfterTerminal
<1>1. Inv => NothingAfterTerminal
  BY DEF Inv, Claims, NothingAfterTerminal, TerminalIsLast
<1> QED BY <1>1, InductiveInvariant, PTL

\* A session is idle (_active is None) only when no pump runs and no cancel()
\* is still sending response.cancelled.
THEOREM IdleIsQuiet == Spec => []IdleMeansQuiet
<1>1. Inv => IdleMeansQuiet
  BY DEF Inv, Ownership, IdleMeansQuiet, LiveIsActive, OwnersOwn
<1> QED BY <1>1, InductiveInvariant, PTL

\* However many cancel() and close() calls meet, a pump is cancelled once.
THEOREM OneCancellation == Spec => []PumpCancelledOnce
<1>1. Inv => PumpCancelledOnce
  BY DEF Inv, Cancellations
<1> QED BY <1>1, InductiveInvariant, PTL

\* cancel() always finds a task it can cancel: `if not cancellation_requested`
\* is dead code.
THEOREM CancelRequestIsAccepted == Spec => []LiveWhenCancellable
<1>1. Inv => LiveWhenCancellable
  BY DEF Inv, Typing, TypeOK, Cancellations, ActiveHasTask, LiveWhenCancellable, Cancellable
<1> QED BY <1>1, InductiveInvariant, PTL

\* Once a close() has returned, no pump runs and no cancel() sends.
THEOREM ClosedForGood == Spec => []CloseIsFinal
<1>1. Inv => CloseIsFinal
  BY ConstantsAssumption DEF Inv, Typing, Targets, Ownership, CloseIsFinal, ClosedIsIdle,
       LiveIsActive, OwnersOwn
<1> QED BY <1>1, InductiveInvariant, PTL

\* A cancel() that returns without an error was not overtaken by completed or error.
THEOREM CancelIsTrue == Spec => []CancelSucceedsOnlyIfCancelled
<1>1. Inv => CancelSucceedsOnlyIfCancelled
  BY DEF Inv, Claims, CancelledIsClean, OutcomeFree, CancelSucceedsOnlyIfCancelled
<1> QED BY <1>1, InductiveInvariant, PTL

\* No send begins on a closed session: PumpReceives, StreamFails and CancelWins
\* look at _closed after their last await.
LEMMA PumpBeginsNoSend ==
  ASSUME Typing, closed, NEW r \in Responses, Start(r) \/ PumpStep(r)
  PROVE  ~BeginsSend
<1> USE DEF Typing, TypeOK, Targets, BeginsSend, callVars, PumpEnds, PumpReceives
<1>1. CASE Start(r) BY <1>1 DEF Start
<1>2. CASE PumpBegins(r) BY <1>2 DEF PumpBegins
<1>3. CASE PumpNeverBegins(r) BY <1>3 DEF PumpNeverBegins
<1>4. CASE StreamYields(r) BY <1>4 DEF StreamYields
<1>5. CASE StreamCompletes(r) BY <1>5 DEF StreamCompletes
<1>6. CASE StreamFails(r) BY <1>6 DEF StreamFails
<1>7. CASE StreamFailsInSilence(r) BY <1>7 DEF StreamFailsInSilence
<1>8. CASE StreamIsCancelled(r) BY <1>8 DEF StreamIsCancelled
<1>9. CASE StreamRaisesCancelled(r) BY <1>9 DEF StreamRaisesCancelled
<1>10. CASE SendDelivers(r) BY <1>10 DEF SendDelivers
<1>11. CASE SendReturns(r) BY <1>11 DEF SendReturns
<1>12. CASE PumpCompletes(r) BY <1>12 DEF PumpCompletes
<1>13. CASE SendRaises(r) BY <1>13 DEF SendRaises
<1>14. CASE SendErrorEnds(r) BY <1>14 DEF SendErrorEnds
<1>15. CASE StreamIsClosed(r) BY <1>15 DEF StreamIsClosed
<1> QED BY <1>1, <1>2, <1>3, <1>4, <1>5, <1>6, <1>7, <1>8, <1>9, <1>10, <1>11, <1>12,
           <1>13, <1>14, <1>15 DEF PumpStep

\* Of a closed session no cancel() or close() begins a send.
LEMMA CallBeginsNoSend ==
  ASSUME Typing, closed, NEW c \in Callers, CallBegins(c) \/ CallStep(c) \/ CallerIsCancelled(c)
  PROVE  ~BeginsSend
<1>1. UNCHANGED pump
  BY DEF CallBegins, CallStep, CallerIsCancelled, generationVars, CloseFindsNothing, CancelNotFound,
         CancelComesTooLate, CancelOwns, CloseStopsOwner, CloseStopsPump, CloseJoinsPump,
       TerminalIsOver,
         CancelLoses, CancelWins, CancelledIsDelivered, CancelledSendEnds, OwnerIsOver, CloseEnds,
         CallerUnwinds
<1>2. ~CancelWins(c)
  BY DEF CancelWins
<1>3. \A q \in Callers : call'[q] \in {call[q], "waitTerminal", "waitPump", "closeWaitOwner",
                                     "closeWaitPump", "cancelledDelivered", "done"}
  BY <1>2 DEF Typing, TypeOK, CallBegins, CallStep, CallerIsCancelled, CallReturns, CloseFindsNothing,
         CancelNotFound, CancelComesTooLate, CancelOwns, CloseStopsOwner, CloseStopsPump,
       CloseJoinsPump,
         TerminalIsOver, CancelLoses, CancelledIsDelivered, CancelledSendEnds, OwnerIsOver, CloseEnds,
         CallerUnwinds
<1> QED BY <1>1, <1>3 DEF BeginsSend

\* Once close() has been called no step begins a send: not the pump between two events,
\* not _send_error, not cancel().
THEOREM NoSendOnceClosed == Spec => NoSendBegunOnceClosed
<1>1. Inv /\ [Next]_vars => [closed => ~BeginsSend]_vars
  <2> SUFFICES ASSUME Inv, Next, closed PROVE ~BeginsSend \/ UNCHANGED vars
    OBVIOUS
  <2>1. ASSUME NEW r \in Responses, Start(r) \/ PumpStep(r) PROVE ~BeginsSend
    BY <2>1, PumpBeginsNoSend DEF Inv
  <2>2. ASSUME NEW c \in Callers, CallBegins(c) \/ CallStep(c) \/ CallerIsCancelled(c)
        PROVE  ~BeginsSend
    BY <2>2, CallBeginsNoSend DEF Inv
  <2>3. CASE AllCallsMade
    BY <2>3 DEF AllCallsMade
  <2> QED BY <2>1, <2>2, <2>3 DEF Next
<1> QED BY <1>1, InductiveInvariant, PTL DEF Spec, NoSendBegunOnceClosed
=============================================================================
