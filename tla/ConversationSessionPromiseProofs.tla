------------------- MODULE ConversationSessionPromiseProofs -----------------
(***************************************************************************)
(* What the client may rely on, for any number of generations and callers: *)
(* every turn of a ConversationSession is answered, and the session        *)
(* implements ResponseProtocol: a task's step begins or ends a turn,       *)
(* offers or withdraws an event, hands it to the connection, hangs up, or  *)
(* is of no concern to the client.                                         *)
(***************************************************************************)
EXTENDS ConversationSessionProofs

USE DEF Terminals, Kinds, Sending, SendingError, PumpStates, CancelledSend, OwnerStates,
        Waiting, CallStates, Results

-----------------------------------------------------------------------------
(* Why a pump ends is traced back to who asked it to, and what a claim of  *)
(* the terminal event leads to.                                            *)

\* The events s of a response include its terminal one.
HasTerminal(s) == \E i \in 1..Len(s) : s[i] \in Terminals

\* Response r was answered, or there is a reason why it never will be.  Once true,
\* it stays true.
Settled(r) ==
  \/ closed \/ HasTerminal(sent[r]) \/ r \in broken
  \/ \E c \in Callers : target[c] = r /\ result[c] = "taskCancelled"

\* Why a pump ends: somebody asked it to, or the response is settled; and who asked
\* still owns the generation, or the response is settled.
UnwindsIfAsked == \A r \in Responses : unwinding[r] => cancelling[r] # 0
AskerIsThere == \A r \in Responses : cancelling[r] # 0 => Settled(r) \/ owner[r] # None
EndsIfAsked ==
  \A r \in Responses : pump[r] \in {"closing", "done"} => Settled(r) \/ cancelling[r] # 0

\* A claimed terminal event is delivered, unless its send fails; only close() stops it.
ClaimedIsNotStopped == \A r \in Responses :
  /\ claimed[r] /\ signal[r] => closed
  /\ pump[r] \in {"absent", "done"} => ~signal[r]
ClaimIsKept == \A r \in Responses :
  claimed[r] /\ pump[r] \in {"closing", "done"} =>
    Settled(r) \/ (owner[r] # None /\ call[owner[r]] = "sendCancelled")
Delivered(r) ==
  \/ pump[r] = "delivered" /\ holding[r] = "completed"
  \/ pump[r] = "errorDelivered"
  \/ owner[r] # None /\ call[owner[r]] = "cancelledDelivered"
DeliveredIsSent == \A r \in Responses : Delivered(r) => HasTerminal(sent[r])

AnswerInv ==
  /\ UnwindsIfAsked /\ AskerIsThere /\ EndsIfAsked
  /\ ClaimedIsNotStopped /\ ClaimIsKept /\ DeliveredIsSent

-----------------------------------------------------------------------------
\* An event more.
LEMMA AppendTerminal ==
  ASSUME NEW s \in Seq(Kinds), NEW k \in Kinds
  PROVE  /\ HasTerminal(s) => HasTerminal(Append(s, k))
         /\ k \in Terminals => HasTerminal(Append(s, k))
  <1>1. /\ Len(Append(s, k)) = Len(s) + 1 /\ Append(s, k)[Len(s) + 1] = k
        /\ \A i \in 1..Len(s) : Append(s, k)[i] = s[i]
        /\ Len(s) \in Nat
    OBVIOUS
  <1> QED BY <1>1 DEF HasTerminal

\* Nothing was started, asked for or sent yet.
LEMMA InitAnswerInv == Init => AnswerInv
  BY ConstantsAssumption DEF Init, AnswerInv, UnwindsIfAsked, AskerIsThere, EndsIfAsked,
     ClaimedIsNotStopped, ClaimIsKept, DeliveredIsSent, Delivered

\* start() and the pump's steps keep the invariant.
LEMMA PumpKeepsAnswerInv ==
  ASSUME Inv, AnswerInv, NEW r \in Responses, Start(r) \/ PumpStep(r)
  PROVE  AnswerInv'
<1> USE ConstantsAssumption DEF Inv, Typing, TypeOK, Targets, Held, Ownership, OwnersOwn, OwnedByOwners,
       Cancellations, SignalsAreCounted, Claims, ResultsAreLast, UnclaimedUntilTerminal, ClaimsWhatItSends,
       AnswerInv, UnwindsIfAsked, AskerIsThere, EndsIfAsked, ClaimedIsNotStopped, ClaimIsKept,
       DeliveredIsSent, Delivered, Settled, callVars
<1>1. CASE Start(r) BY <1>1 DEF Start
<1>2. CASE PumpBegins(r) BY <1>2 DEF PumpBegins, PumpReceives
<1>3. CASE PumpNeverBegins(r) BY <1>3 DEF PumpNeverBegins
<1>4. CASE StreamYields(r) BY <1>4 DEF StreamYields, PumpReceives
<1>5. CASE StreamCompletes(r) BY <1>5 DEF StreamCompletes, PumpReceives
<1>6. CASE StreamFails(r) BY <1>6 DEF StreamFails
<1>7. CASE StreamFailsInSilence(r) BY <1>7 DEF StreamFailsInSilence, PumpEnds
<1>8. CASE StreamIsCancelled(r) BY <1>8 DEF StreamIsCancelled
<1>9. CASE StreamRaisesCancelled(r) BY <1>9 DEF StreamRaisesCancelled, PumpEnds
<1>10. CASE SendDelivers(r)
  <2>1. /\ HasTerminal(sent[r]) => HasTerminal(Append(sent[r], holding[r]))
        /\ holding[r] \in Terminals => HasTerminal(Append(sent[r], holding[r]))
    BY <1>10, AppendTerminal DEF SendDelivers
  <2> QED BY <1>10, <2>1 DEF SendDelivers
<1>11. CASE SendReturns(r) BY <1>11 DEF SendReturns
<1>12. CASE PumpCompletes(r) BY <1>12 DEF PumpCompletes, PumpEnds
<1>13. CASE SendRaises(r) BY <1>13 DEF SendRaises
<1>14. CASE SendErrorEnds(r) BY <1>14 DEF SendErrorEnds, PumpEnds
<1>15. CASE StreamIsClosed(r) BY <1>15 DEF StreamIsClosed, PumpEnds
<1> QED BY <1>1, <1>2, <1>3, <1>4, <1>5, <1>6, <1>7, <1>8, <1>9, <1>10, <1>11, <1>12,
           <1>13, <1>14, <1>15 DEF PumpStep

\* A response that cancel() and close() find settled stays so.
LEMMA CallKeepsSettled ==
  ASSUME Inv, NEW c \in Callers, CallBegins(c) \/ CallStep(c) \/ CallerIsCancelled(c),
         NEW s \in Responses, Settled(s)
  PROVE  Settled(s)'
<1> USE DEF Inv, Typing, TypeOK, Targets, Claims, ResultsAreLast, Settled, generationVars, CallReturns
<1>1. CASE CloseFindsNothing(c) BY <1>1 DEF CloseFindsNothing
<1>2. ASSUME NEW r \in Responses, CancelNotFound(c, r) PROVE Settled(s)'
  BY <1>2 DEF CancelNotFound
<1>3. ASSUME NEW r \in Responses, CancelComesTooLate(c, r) PROVE Settled(s)'
  BY <1>3 DEF CancelComesTooLate
<1>4. ASSUME NEW r \in Responses, CancelOwns(c, r) PROVE Settled(s)'
  BY <1>4 DEF CancelOwns, CancelPump
<1>5. ASSUME NEW r \in Responses, CloseStopsOwner(c, r) PROVE Settled(s)'
  BY <1>5 DEF CloseStopsOwner
<1>6. ASSUME NEW r \in Responses, CloseStopsPump(c, r) PROVE Settled(s)'
  BY <1>6 DEF CloseStopsPump, CancelPump
<1>7. ASSUME NEW r \in Responses, CloseJoinsPump(c, r) PROVE Settled(s)'
  BY <1>7 DEF CloseJoinsPump
<1>8. CASE TerminalIsOver(c) BY <1>8 DEF TerminalIsOver
<1>9. CASE CancelLoses(c)
  BY <1>9 DEF CancelLoses
<1>10. CASE CancelWins(c) BY <1>10 DEF CancelWins
<1>11. CASE CancelledIsDelivered(c)
  <2>1. HasTerminal(sent[target[c]]) => HasTerminal(Append(sent[target[c]], "cancelled"))
    BY <1>11, AppendTerminal DEF CancelledIsDelivered
  <2> QED BY <1>11, <2>1 DEF CancelledIsDelivered
<1>12. CASE CancelledSendEnds(c)
  BY <1>12 DEF CancelledSendEnds
<1>13. CASE OwnerIsOver(c) BY <1>13 DEF OwnerIsOver
<1>14. CASE CloseEnds(c) BY <1>14 DEF CloseEnds
<1>15. CASE CallerUnwinds(c)
  BY <1>15 DEF CallerUnwinds
<1>16. CASE CallerIsCancelled(c) BY <1>16 DEF CallerIsCancelled
<1> QED BY <1>1, <1>2, <1>3, <1>4, <1>5, <1>6, <1>7, <1>8, <1>9, <1>10, <1>11, <1>12,
           <1>13, <1>14, <1>15, <1>16 DEF CallBegins, CallStep

\* A cancel() that gives up its ownership leaves the response settled.
LEMMA ReleasedIsSettled ==
  ASSUME Inv, AnswerInv, NEW c \in Callers, call[c] \in OwnerStates,
         CancelLoses(c) \/ CancelledSendEnds(c) \/ CallerUnwinds(c)
  PROVE  Settled(target[c])'
<1>1. target[c] \in Responses /\ owner[target[c]] = c /\ c # None
  BY ConstantsAssumption DEF Inv, Typing, TypeOK, Targets, Ownership, OwnersOwn
<1>2. CASE CancelLoses(c)
  <2>1. Settled(target[c]) BY <1>1, <1>2 DEF CancelLoses, AnswerInv, ClaimIsKept, Settled
  <2>2. CallStep(c) BY <1>2 DEF CallStep
  <2>3. \A s \in Responses : Settled(s) => Settled(s)' BY <2>2, CallKeepsSettled
  <2>4. target' = target BY <1>2 DEF CancelLoses
  <2> QED BY <1>1, <2>1, <2>3, <2>4
<1>3. CASE CancelledSendEnds(c)
  <2>1. call[c] = "cancelledDelivered" => HasTerminal(sent[target[c]])
    BY <1>1 DEF AnswerInv, DeliveredIsSent, Delivered
  <2> QED BY <1>1, <1>3, <2>1 DEF CancelledSendEnds, Settled
<1>4. CASE CallerUnwinds(c)
  BY <1>1, <1>4 DEF CallerUnwinds, Settled, CallReturns, Inv, Typing, TypeOK
<1> QED BY <1>2, <1>3, <1>4

\* The steps of cancel() and close() keep the invariant.
LEMMA CallKeepsAnswerInv ==
  ASSUME Inv, AnswerInv, NEW c \in Callers, CallBegins(c) \/ CallStep(c) \/ CallerIsCancelled(c)
  PROVE  AnswerInv'
<1>s. \A s \in Responses : Settled(s) => Settled(s)'
  BY CallKeepsSettled
<1> USE ConstantsAssumption DEF Inv, Typing, TypeOK, Targets, Ownership, OwnersOwn, OwnedByOwners,
       LiveIsActive, CancelledSendsAfterPump, Live, Cancellations, SignalsAreCounted, ActiveHasTask,
       AnswerInv, UnwindsIfAsked, AskerIsThere, EndsIfAsked, ClaimedIsNotStopped, ClaimIsKept,
       DeliveredIsSent, Delivered, Cancellable, generationVars, CallReturns
<1>1. CASE CloseFindsNothing(c) BY <1>s, <1>1 DEF CloseFindsNothing
<1>2. ASSUME NEW r \in Responses, CancelNotFound(c, r) PROVE AnswerInv'
  <2>1. UnwindsIfAsked' BY <1>s, <1>2 DEF CancelNotFound
  <2>2. AskerIsThere' BY <1>s, <1>2 DEF CancelNotFound
  <2>3. EndsIfAsked' BY <1>s, <1>2 DEF CancelNotFound
  <2>4. ClaimedIsNotStopped' BY <1>s, <1>2 DEF CancelNotFound
  <2>5. ClaimIsKept' BY <1>s, <1>2 DEF CancelNotFound
  <2>6. DeliveredIsSent' BY <1>s, <1>2 DEF CancelNotFound
  <2> QED BY <2>1, <2>2, <2>3, <2>4, <2>5, <2>6
<1>3. ASSUME NEW r \in Responses, CancelComesTooLate(c, r) PROVE AnswerInv'
  <2>1. UnwindsIfAsked' BY <1>s, <1>3 DEF CancelComesTooLate
  <2>2. AskerIsThere' BY <1>s, <1>3 DEF CancelComesTooLate
  <2>3. EndsIfAsked' BY <1>s, <1>3 DEF CancelComesTooLate
  <2>4. ClaimedIsNotStopped' BY <1>s, <1>3 DEF CancelComesTooLate
  <2>5. ClaimIsKept' BY <1>s, <1>3 DEF CancelComesTooLate
  <2>6. DeliveredIsSent' BY <1>s, <1>3 DEF CancelComesTooLate
  <2> QED BY <2>1, <2>2, <2>3, <2>4, <2>5, <2>6
<1>4. ASSUME NEW r \in Responses, CancelOwns(c, r) PROVE AnswerInv'
  <2>1. UnwindsIfAsked' BY <1>s, <1>4 DEF CancelOwns, CancelPump
  <2>2. AskerIsThere' BY <1>s, <1>4 DEF CancelOwns, CancelPump
  <2>3. EndsIfAsked' BY <1>s, <1>4 DEF CancelOwns, CancelPump
  <2>4. ClaimedIsNotStopped' BY <1>s, <1>4 DEF CancelOwns, CancelPump
  <2>5. ClaimIsKept' BY <1>s, <1>4 DEF CancelOwns, CancelPump
  <2>6. DeliveredIsSent' BY <1>s, <1>4 DEF CancelOwns, CancelPump
  <2> QED BY <2>1, <2>2, <2>3, <2>4, <2>5, <2>6
<1>5. ASSUME NEW r \in Responses, CloseStopsOwner(c, r) PROVE AnswerInv'
  BY <1>s, <1>5 DEF CloseStopsOwner
<1>6. ASSUME NEW r \in Responses, CloseStopsPump(c, r) PROVE AnswerInv'
  <2>1. \A s \in Responses : Settled(s)' BY <1>6 DEF CloseStopsPump, Settled
  <2>2. UnwindsIfAsked' BY <2>1, <1>6 DEF CloseStopsPump, CancelPump
  <2>3. AskerIsThere' BY <2>1, <1>6 DEF CloseStopsPump, CancelPump
  <2>4. EndsIfAsked' BY <2>1, <1>6 DEF CloseStopsPump, CancelPump
  <2>5. ClaimedIsNotStopped' BY <2>1, <1>6 DEF CloseStopsPump, CancelPump
  <2>6. ClaimIsKept' BY <2>1, <1>6 DEF CloseStopsPump, CancelPump
  <2>7. DeliveredIsSent' BY <2>1, <1>6 DEF CloseStopsPump, CancelPump
  <2> QED BY <2>2, <2>3, <2>4, <2>5, <2>6, <2>7
<1>7. ASSUME NEW r \in Responses, CloseJoinsPump(c, r) PROVE AnswerInv'
  BY <1>s, <1>7 DEF CloseJoinsPump
<1>8. CASE TerminalIsOver(c)
  <2>1. UnwindsIfAsked' BY <1>s, <1>8 DEF TerminalIsOver
  <2>2. AskerIsThere' BY <1>s, <1>8 DEF TerminalIsOver
  <2>3. EndsIfAsked' BY <1>s, <1>8 DEF TerminalIsOver
  <2>4. ClaimedIsNotStopped' BY <1>s, <1>8 DEF TerminalIsOver
  <2>5. ClaimIsKept' BY <1>s, <1>8 DEF TerminalIsOver
  <2>6. DeliveredIsSent' BY <1>s, <1>8 DEF TerminalIsOver
  <2> QED BY <2>1, <2>2, <2>3, <2>4, <2>5, <2>6
<1>9. CASE CancelLoses(c)
  <2>1. Settled(target[c])' /\ call[c] \in OwnerStates BY <1>9, ReleasedIsSettled DEF CancelLoses
  <2>2. UnwindsIfAsked' BY <1>s, <1>9, <2>1 DEF CancelLoses, ReleaseOwnership
  <2>3. AskerIsThere' BY <1>s, <1>9, <2>1 DEF CancelLoses, ReleaseOwnership
  <2>4. EndsIfAsked' BY <1>s, <1>9, <2>1 DEF CancelLoses, ReleaseOwnership
  <2>5. ClaimedIsNotStopped' BY <1>s, <1>9, <2>1 DEF CancelLoses, ReleaseOwnership
  <2>6. ClaimIsKept' BY <1>s, <1>9, <2>1 DEF CancelLoses, ReleaseOwnership
  <2>7. DeliveredIsSent' BY <1>s, <1>9, <2>1 DEF CancelLoses, ReleaseOwnership
  <2> QED BY <2>2, <2>3, <2>4, <2>5, <2>6, <2>7
<1>10. CASE CancelWins(c)
  <2>1. UnwindsIfAsked' BY <1>s, <1>10 DEF CancelWins
  <2>2. AskerIsThere' BY <1>s, <1>10 DEF CancelWins
  <2>3. EndsIfAsked' BY <1>s, <1>10 DEF CancelWins
  <2>4. ClaimedIsNotStopped' BY <1>s, <1>10 DEF CancelWins
  <2>5. ClaimIsKept' BY <1>s, <1>10 DEF CancelWins
  <2>6. DeliveredIsSent' BY <1>s, <1>10 DEF CancelWins
  <2> QED BY <2>1, <2>2, <2>3, <2>4, <2>5, <2>6
<1>11. CASE CancelledIsDelivered(c)
  <2>1. /\ HasTerminal(sent[target[c]]) => HasTerminal(Append(sent[target[c]], "cancelled"))
        /\ HasTerminal(Append(sent[target[c]], "cancelled"))
    BY <1>11, AppendTerminal DEF CancelledIsDelivered
  <2>2. Settled(target[c])' BY <1>11, <2>1 DEF CancelledIsDelivered, Settled
  <2>3. UnwindsIfAsked' BY <1>s, <1>11, <2>1 DEF CancelledIsDelivered
  <2>4. AskerIsThere' BY <1>s, <1>11, <2>1 DEF CancelledIsDelivered
  <2>5. EndsIfAsked' BY <1>s, <1>11, <2>1 DEF CancelledIsDelivered
  <2>6. ClaimedIsNotStopped' BY <1>s, <1>11, <2>1 DEF CancelledIsDelivered
  <2>7. ClaimIsKept' BY <1>s, <1>11, <2>2 DEF CancelledIsDelivered
  <2>8. DeliveredIsSent' BY <1>s, <1>11, <2>1 DEF CancelledIsDelivered
  <2> QED BY <2>3, <2>4, <2>5, <2>6, <2>7, <2>8
<1>12. CASE CancelledSendEnds(c)
  <2>1. Settled(target[c])' /\ call[c] \in OwnerStates BY <1>12, ReleasedIsSettled DEF CancelledSendEnds
  <2>2. UnwindsIfAsked' BY <1>s, <1>12, <2>1 DEF CancelledSendEnds, ReleaseOwnership
  <2>3. AskerIsThere' BY <1>s, <1>12, <2>1 DEF CancelledSendEnds, ReleaseOwnership
  <2>4. EndsIfAsked' BY <1>s, <1>12, <2>1 DEF CancelledSendEnds, ReleaseOwnership
  <2>5. ClaimedIsNotStopped' BY <1>s, <1>12, <2>1 DEF CancelledSendEnds, ReleaseOwnership
  <2>6. ClaimIsKept' BY <1>s, <1>12, <2>1 DEF CancelledSendEnds, ReleaseOwnership
  <2>7. DeliveredIsSent' BY <1>s, <1>12, <2>1 DEF CancelledSendEnds, ReleaseOwnership
  <2> QED BY <2>2, <2>3, <2>4, <2>5, <2>6, <2>7
<1>13. CASE OwnerIsOver(c) BY <1>s, <1>13 DEF OwnerIsOver
<1>14. CASE CloseEnds(c)
  <2>1. UnwindsIfAsked' BY <1>s, <1>14 DEF CloseEnds
  <2>2. AskerIsThere' BY <1>s, <1>14 DEF CloseEnds
  <2>3. EndsIfAsked' BY <1>s, <1>14 DEF CloseEnds
  <2>4. ClaimedIsNotStopped' BY <1>s, <1>14 DEF CloseEnds
  <2>5. ClaimIsKept' BY <1>s, <1>14 DEF CloseEnds
  <2>6. DeliveredIsSent' BY <1>s, <1>14 DEF CloseEnds
  <2> QED BY <2>1, <2>2, <2>3, <2>4, <2>5, <2>6
<1>15. CASE CallerUnwinds(c)
  <2>1. CASE call[c] \in OwnerStates
    <3>1. Settled(target[c])' BY <1>15, <2>1, ReleasedIsSettled
    <3>2. UnwindsIfAsked' BY <1>s, <1>15, <2>1, <3>1 DEF CallerUnwinds, ReleaseOwnership
    <3>3. AskerIsThere' BY <1>s, <1>15, <2>1, <3>1 DEF CallerUnwinds, ReleaseOwnership
    <3>4. EndsIfAsked' BY <1>s, <1>15, <2>1, <3>1 DEF CallerUnwinds, ReleaseOwnership
    <3>5. ClaimedIsNotStopped' BY <1>s, <1>15, <2>1, <3>1 DEF CallerUnwinds, ReleaseOwnership
    <3>6. ClaimIsKept' BY <1>s, <1>15, <2>1, <3>1 DEF CallerUnwinds, ReleaseOwnership
    <3>7. ASSUME NEW s \in Responses, Delivered(s)' PROVE Delivered(s)
      <4>1. owner'[s] = owner[s] \/ owner'[s] = None BY <1>15, <2>1 DEF CallerUnwinds, ReleaseOwnership
      <4>2. \A d \in Callers : call'[d] = call[d] \/ call'[d] = "done" BY <1>15 DEF CallerUnwinds
      <4>3. UNCHANGED <<pump, holding>> BY <1>15 DEF CallerUnwinds
      <4> QED BY <3>7, <4>1, <4>2, <4>3
    <3>8. DeliveredIsSent' BY <1>15, <3>7 DEF CallerUnwinds
    <3> QED BY <3>2, <3>3, <3>4, <3>5, <3>6, <3>8
  <2>2. CASE call[c] \notin OwnerStates
    <3>1. UNCHANGED <<owner, active>> BY <1>15, <2>2 DEF CallerUnwinds
    <3> QED BY <1>s, <1>15, <2>2, <3>1 DEF CallerUnwinds
  <2> QED BY <2>1, <2>2
<1>16. CASE CallerIsCancelled(c) BY <1>s, <1>16 DEF CallerIsCancelled
<1> QED BY <1>1, <1>2, <1>3, <1>4, <1>5, <1>6, <1>7, <1>8, <1>9, <1>10, <1>11, <1>12,
           <1>13, <1>14, <1>15, <1>16 DEF CallBegins, CallStep

\* Every step keeps the invariant.
LEMMA StepAnswerInv == Inv /\ AnswerInv /\ [Next]_vars => AnswerInv'
<1> SUFFICES ASSUME Inv, AnswerInv, [Next]_vars PROVE AnswerInv'
  OBVIOUS
<1>1. CASE UNCHANGED vars
  BY <1>1 DEF vars, generationVars, callVars, AnswerInv, UnwindsIfAsked, AskerIsThere, EndsIfAsked,
     ClaimedIsNotStopped, ClaimIsKept, DeliveredIsSent, Delivered, Settled
<1>2. CASE AllCallsMade BY <1>1, <1>2 DEF AllCallsMade
<1> QED BY <1>1, <1>2, PumpKeepsAnswerInv, CallKeepsAnswerInv DEF Next

\* No turn ends in silence: whatever stream, sends and callers do, a generation that is
\* over has sent its terminal event, unless the session was closed, a send of that
\* response failed, or the task that was cancelling it was itself cancelled.
THEOREM TurnsAreAnswered == Spec => []EveryTurnIsAnswered
<1>1. Inv /\ AnswerInv => EveryTurnIsAnswered
  <2> SUFFICES ASSUME Inv, AnswerInv, NEW r \in Responses, pump[r] = "done", active # r, ~closed
               PROVE  \/ \E i \in 1..Len(sent[r]) : sent[r][i] \in Terminals
                      \/ r \in broken
                      \/ \E c \in Callers : target[c] = r /\ result[c] = "taskCancelled"
    BY DEF EveryTurnIsAnswered
  <2>1. owner[r] = None
    BY ConstantsAssumption DEF Inv, Typing, TypeOK, Ownership, OwnersOwn, OwnedByOwners
  <2>2. Settled(r)
    BY <2>1 DEF AnswerInv, AskerIsThere, EndsIfAsked
  <2> QED BY <2>2 DEF Settled, HasTerminal
<1> QED BY <1>1, InitAnswerInv, StepAnswerInv, InductiveInvariant, PTL DEF Spec

-----------------------------------------------------------------------------
(* The event on offer is that of the active generation: its pump's, or the *)
(* one of the cancel() that owns it.                                       *)

PumpOffers == active # None /\ pump[active] \in {"sending", "sendingError"}
OwnerOffers == \E c \in Callers : call[c] = "sendCancelled"
Offers == IF PumpOffers THEN holding[active] ELSE IF OwnerOffers THEN "cancelled" ELSE None

\* Offered, without its choice of a pump.
LEMMA OfferedIsOffers == Inv => Offered = Offers
<1> SUFFICES ASSUME Inv PROVE Offered = Offers
  OBVIOUS
<1>1. \A r \in Responses : pump[r] \in {"sending", "sendingError"} => active = r
  BY DEF Inv, Ownership, LiveIsActive, Live
<1>2. PumpOffers <=> \E r \in Responses : pump[r] \in {"sending", "sendingError"}
  BY <1>1, ConstantsAssumption DEF PumpOffers, Inv, Typing, TypeOK
<1>3. CASE PumpOffers
  <2> DEFINE s == CHOOSE r \in Responses : pump[r] \in {"sending", "sendingError"}
  <2>1. s \in Responses /\ pump[s] \in {"sending", "sendingError"} BY <1>2, <1>3
  <2>2. s = active BY <2>1, <1>1
  <2> HIDE DEF s
  <2>3. Offered = holding[s] BY <1>2, <1>3 DEF Offered, s
  <2> QED BY <1>3, <2>2, <2>3 DEF Offers
<1>4. CASE ~PumpOffers
  BY <1>2, <1>4 DEF Offered, Offers, OwnerOffers
<1> QED BY <1>3, <1>4

\* The same, after a step.
LEMMA OfferedIsOffersNext == Inv' => Offered' = Offers'
<1>1. (Inv => Offered = Offers)'
  BY OfferedIsOffers, PTL
<1> QED BY <1>1

-----------------------------------------------------------------------------
(* What a response has put on the connection fits where its pump is.       *)

Unheard(r) ==
  \/ pump[r] \in {"absent", "created"}
  \/ pump[r] = "sending" /\ holding[r] = "started"
Heard(r) ==
  \/ pump[r] \in {"streaming", "delivered"} \union SendingError
  \/ pump[r] = "sending" /\ holding[r] # "started"
Story == \A r \in Responses :
  /\ Unheard(r) => sent[r] = <<>>
  /\ Heard(r) => sent[r] # <<>>

\* No pump has begun.
LEMMA InitStory == Init => Story
  BY DEF Init, Story, Unheard, Heard

\* A pump sends started before anything else.
LEMMA PumpKeepsStory ==
  ASSUME Inv, Story, NEW r \in Responses, Start(r) \/ PumpStep(r)
  PROVE  Story'
<1> USE DEF Inv, Typing, TypeOK, Held, Story, Unheard, Heard, callVars
<1>1. CASE Start(r) BY <1>1 DEF Start
<1>2. CASE PumpBegins(r)
  <2>1. CASE closed BY <1>2, <2>1 DEF PumpBegins, PumpReceives
  <2>2. CASE ~closed
    <3>1. /\ pump' = [pump EXCEPT ![r] = "sending"]
          /\ holding' = [holding EXCEPT ![r] = "started"]
          /\ UNCHANGED sent
          /\ pump[r] = "created"
      BY <1>2, <2>2 DEF PumpBegins, PumpReceives
    <3>2. sent[r] = <<>> /\ pump'[r] = "sending" /\ holding'[r] = "started" BY <3>1
    <3>3. \A q \in Responses \ {r} : pump'[q] = pump[q] /\ holding'[q] = holding[q] BY <3>1
    <3> QED BY <3>1, <3>2, <3>3
  <2> QED BY <2>1, <2>2 DEF Inv
<1>3. CASE PumpNeverBegins(r) BY <1>3 DEF PumpNeverBegins
<1>4. CASE StreamYields(r) BY <1>4 DEF StreamYields, PumpReceives
<1>5. CASE StreamCompletes(r) BY <1>5 DEF StreamCompletes, PumpReceives
<1>6. CASE StreamFails(r) BY <1>6 DEF StreamFails
<1>7. CASE StreamFailsInSilence(r) BY <1>7 DEF StreamFailsInSilence, PumpEnds
<1>8. CASE StreamIsCancelled(r) BY <1>8 DEF StreamIsCancelled
<1>9. CASE StreamRaisesCancelled(r) BY <1>9 DEF StreamRaisesCancelled, PumpEnds
<1>10. CASE SendDelivers(r)
  <2>1. Append(sent[r], holding[r]) # <<>> BY <1>10 DEF SendDelivers
  <2> QED BY <1>10, <2>1 DEF SendDelivers
<1>11. CASE SendReturns(r) BY <1>11 DEF SendReturns
<1>12. CASE PumpCompletes(r) BY <1>12 DEF PumpCompletes, PumpEnds
<1>13. CASE SendRaises(r) BY <1>13 DEF SendRaises
<1>14. CASE SendErrorEnds(r) BY <1>14 DEF SendErrorEnds, PumpEnds
<1>15. CASE StreamIsClosed(r) BY <1>15 DEF StreamIsClosed, PumpEnds
<1> QED BY <1>1, <1>2, <1>3, <1>4, <1>5, <1>6, <1>7, <1>8, <1>9, <1>10, <1>11, <1>12,
           <1>13, <1>14, <1>15 DEF PumpStep

\* cancel() and close() add at most response.cancelled, when the pump is done.
LEMMA CallKeepsStory ==
  ASSUME Inv, Story, NEW c \in Callers, CallBegins(c) \/ CallStep(c) \/ CallerIsCancelled(c)
  PROVE  Story'
<1>1. UNCHANGED <<pump, holding>>
  BY DEF CallBegins, CallStep, CallerIsCancelled, generationVars, CloseFindsNothing, CancelNotFound,
         CancelComesTooLate, CancelOwns, CloseStopsOwner, CloseStopsPump, CloseJoinsPump,
         TerminalIsOver, CancelLoses, CancelWins, CancelledIsDelivered, CancelledSendEnds,
         OwnerIsOver, CloseEnds, CallerUnwinds
<1>2. CASE CancelledIsDelivered(c)
  <2>1. pump[target[c]] = "done"
    BY <1>2 DEF CancelledIsDelivered, Inv, Ownership, CancelledSendsAfterPump
  <2>2. \A r \in Responses : sent'[r] = sent[r] \/ pump[r] = "done"
    BY <1>2, <2>1 DEF CancelledIsDelivered, Inv, Typing, TypeOK
  <2> QED BY <1>1, <2>2 DEF Story, Unheard, Heard
<1>3. CASE ~CancelledIsDelivered(c)
  <2>1. UNCHANGED sent
    BY <1>3 DEF CallBegins, CallStep, CallerIsCancelled, CloseFindsNothing, CancelNotFound,
         CancelComesTooLate, CancelOwns, CloseStopsOwner, CloseStopsPump, CloseJoinsPump,
         TerminalIsOver, CancelLoses, CancelWins, CancelledSendEnds,
         OwnerIsOver, CloseEnds, CallerUnwinds
  <2> QED BY <1>1, <2>1 DEF Story, Unheard, Heard
<1> QED BY <1>2, <1>3

\* Every step keeps it.
LEMMA StepStory == Inv /\ Story /\ [Next]_vars => Story'
<1> SUFFICES ASSUME Inv, Story, [Next]_vars PROVE Story'
  OBVIOUS
<1>1. CASE UNCHANGED vars
  BY <1>1 DEF vars, generationVars, Story, Unheard, Heard
<1>2. CASE AllCallsMade BY <1>1, <1>2 DEF AllCallsMade
<1> QED BY <1>1, <1>2, PumpKeepsStory, CallKeepsStory DEF Next

-----------------------------------------------------------------------------
(* The steps of the tasks are steps of the protocol.                       *)

Implements == Protocol!Next \/ UNCHANGED Protocol!protocolVars

\* A story without a terminal event goes on.
LEMMA FreeIsNotEnded ==
  ASSUME NEW s \in Seq(Kinds), TerminalFree(s)
  PROVE  ~Protocol!Ended(s)
<1>1. s # <<>> => Len(s) \in 1 .. Len(s)
  OBVIOUS
<1> QED BY <1>1 DEF TerminalFree, Protocol!Ended, Protocol!Final

\* What an active generation's live pump implies for the abstract turn.
LEMMA LivePump ==
  ASSUME Inv, Story, Offered = Offers, NEW r \in Responses, Live(r)
  PROVE  /\ active = r /\ active # None
         /\ Offered = IF pump[r] \in {"sending", "sendingError"} THEN holding[r] ELSE None
         /\ ~claimed[r] => ~Protocol!Ended(sent[r])
<1>1. active = r /\ active # None
  BY ConstantsAssumption DEF Inv, Ownership, LiveIsActive
<1>2. ~OwnerOffers
  BY <1>1 DEF OwnerOffers, Inv, Typing, TypeOK, Targets, Ownership, OwnersOwn, CancelledSendsAfterPump, Live
<1>3. ~claimed[r] => ~Protocol!Ended(sent[r])
  BY FreeIsNotEnded DEF Inv, Typing, TypeOK, Claims, NoTerminalYet, TerminalToCome
<1> QED BY <1>1, <1>2, <1>3 DEF Offers, PumpOffers

\* A pump that ends its generation finishes the turn, or leaves it to the owner.
LEMMA EndImplements ==
  ASSUME Inv, Story, Offered = Offers, Offered' = Offers', NEW r \in Responses, Live(r), PumpEnds(r),
         UNCHANGED <<closed, owner, call, holding, sent>>
  PROVE  Implements
<1>1. active = r /\ r # None
  BY LivePump, ConstantsAssumption
<1>2. {s \in Responses : pump'[s] # "absent"} = {s \in Responses : pump[s] # "absent"}
  BY DEF PumpEnds, Live, Inv, Typing, TypeOK
<1>3. ~OwnerOffers'
  BY <1>1 DEF OwnerOffers, Inv, Typing, TypeOK, Targets, Ownership, OwnersOwn, CancelledSendsAfterPump, Live
<1>4. pump'[r] = "done" /\ active' \in {r, None}
  BY <1>1 DEF PumpEnds, Inv, Typing, TypeOK
<1>5. Offered' = None
  BY <1>3, <1>4 DEF Offers, PumpOffers
<1>6. CASE active' = None
  BY <1>1, <1>2, <1>5, <1>6 DEF Implements, Protocol!Next, Protocol!Finish
<1>7. CASE active' = r
  <2>1. CASE Offered = None
    BY <1>1, <1>2, <1>5, <1>7, <2>1 DEF Implements, Protocol!protocolVars
  <2>2. CASE Offered # None
    BY <1>1, <1>2, <1>5, <1>7, <2>2 DEF Implements, Protocol!Next, Protocol!Withdraw
  <2> QED BY <2>1, <2>2
<1> QED BY <1>4, <1>6, <1>7

\* An event the stream yields is offered, unless the session is closed.
LEMMA ReceiveImplements ==
  ASSUME Inv, Story, Offered = Offers, Offered' = Offers', NEW r \in Responses, NEW k \in Kinds \ {"cancelled"},
         pump[r] \in {"created", "streaming"}, PumpReceives(r, k),
         pump[r] = "created" <=> k = "started",
         UNCHANGED <<closed, active, owner, call, sent>>
  PROVE  Implements
<1>1. active = r /\ r # None /\ Offered = None /\ ~Protocol!Ended(sent[r])
  BY LivePump DEF Live, Inv, Claims, UnclaimedUntilTerminal
<1>2. {s \in Responses : pump'[s] # "absent"} = {s \in Responses : pump[s] # "absent"}
  BY DEF PumpReceives, Inv, Typing, TypeOK
<1>3. ~OwnerOffers'
  BY <1>1 DEF OwnerOffers, Inv, Typing, TypeOK, Targets, Ownership, OwnersOwn, CancelledSendsAfterPump
<1>4. CASE closed
  <2>1. pump'[r] = "closing" BY <1>4 DEF PumpReceives, Inv, Typing, TypeOK
  <2>2. Offered' = None BY <1>1, <1>3, <2>1 DEF Offers, PumpOffers
  <2> QED BY <1>1, <1>2, <2>2 DEF Implements, Protocol!protocolVars
<1>5. CASE ~closed
  <2>1. pump'[r] = "sending" /\ holding'[r] = k BY <1>5 DEF PumpReceives, Inv, Typing, TypeOK
  <2>2. Offered' = k BY <1>1, <2>1 DEF Offers, PumpOffers
  <2>3. /\ k = "started" => sent[r] = <<>>
        /\ k # "started" => sent[r] # <<>>
    BY DEF Story, Unheard, Heard
  <2>4. Protocol!MayFollow(sent[r], k) BY <1>1, <2>3 DEF Protocol!MayFollow
  <2>5. Protocol!Offer(k) BY <1>1, <1>2, <1>5, <2>2, <2>4 DEF Protocol!Offer
  <2>6. k \in {"started", "delta"} \union Protocol!Final BY DEF Protocol!Final
  <2> QED BY <2>5, <2>6 DEF Implements, Protocol!Next
<1> QED BY <1>4, <1>5

\* start() begins a turn; the pump offers events, hands them over and ends the turn.
LEMMA PumpImplements ==
  ASSUME Inv, Story, Offered = Offers, Offered' = Offers', NEW r \in Responses, Start(r) \/ PumpStep(r)
  PROVE  Implements
<1> DEFINE Past == {s \in Responses : pump[s] # "absent"}
<1>1. CASE Start(r)
  <2>1. Past' = Past \union {r} BY <1>1 DEF Start, Inv, Typing, TypeOK
  <2>2. r \notin Past BY <1>1 DEF Start
  <2>3. active = None /\ active' = r /\ ~closed /\ UNCHANGED <<closed, sent>> BY <1>1 DEF Start
  <2>4. ~OwnerOffers /\ ~OwnerOffers'
    BY <1>1, <2>3, ConstantsAssumption
       DEF OwnerOffers, Inv, Typing, TypeOK, Targets, Ownership, OwnersOwn, Start, callVars
  <2>5. Offered = None BY <2>3, <2>4 DEF Offers, PumpOffers
  <2>6. pump'[r] = "created" BY <1>1 DEF Start, Inv, Typing, TypeOK
  <2>7. Offered' = None BY <2>3, <2>4, <2>6 DEF Offers, PumpOffers
  <2>8. Protocol!Begin(r) BY <2>1, <2>2, <2>3, <2>5, <2>7 DEF Protocol!Begin
  <2> QED BY <2>8 DEF Implements, Protocol!Next
<1>2. CASE PumpBegins(r)
  BY <1>2, ReceiveImplements DEF PumpBegins, callVars
<1>3. CASE StreamYields(r)
  BY <1>3, ReceiveImplements DEF StreamYields, callVars
<1>4. CASE StreamCompletes(r)
  BY <1>4, ReceiveImplements DEF StreamCompletes, callVars
<1>5. CASE StreamFailsInSilence(r) \/ StreamRaisesCancelled(r) \/ PumpCompletes(r)
           \/ SendErrorEnds(r) \/ StreamIsClosed(r)
  BY <1>5, EndImplements
     DEF StreamFailsInSilence, StreamRaisesCancelled, PumpCompletes, SendErrorEnds, StreamIsClosed, Live, callVars
<1>6. CASE PumpNeverBegins(r) \/ StreamIsCancelled(r) \/ SendReturns(r) \/ SendRaises(r)
           \/ SendDelivers(r) \/ StreamFails(r)
  <2>1. Live(r) /\ pump' \in [Responses -> PumpStates] /\ pump'[r] # "absent"
        /\ \A s \in Responses \ {r} : pump'[s] = pump[s]
    BY <1>6 DEF PumpNeverBegins, StreamIsCancelled, SendReturns, SendRaises, SendDelivers, StreamFails,
                Live, Inv, Typing, TypeOK
  <2>2. UNCHANGED <<active, owner, call, closed>>
    BY <1>6 DEF PumpNeverBegins, StreamIsCancelled, SendReturns, SendRaises, SendDelivers, StreamFails, callVars
  <2>3. Past' = Past BY <2>1 DEF Live
  <2>4. active = r /\ r # None /\ Offered = IF pump[r] \in {"sending", "sendingError"} THEN holding[r] ELSE None
    BY <2>1, LivePump
  <2>5. ~OwnerOffers'
    BY <2>1, <2>2, <2>4
       DEF OwnerOffers, Inv, Typing, TypeOK, Targets, Ownership, OwnersOwn, CancelledSendsAfterPump, Live
  <2>6. Offered' = IF pump'[r] \in {"sending", "sendingError"} THEN holding'[r] ELSE None
    BY <2>2, <2>4, <2>5 DEF Offers, PumpOffers
  <2>7. CASE PumpNeverBegins(r) \/ StreamIsCancelled(r) \/ SendReturns(r)
    <3>1. Offered' = Offered /\ UNCHANGED sent
      BY <2>4, <2>6, <2>7 DEF PumpNeverBegins, StreamIsCancelled, SendReturns, Inv, Typing, TypeOK
    <3> QED BY <2>2, <2>3, <3>1 DEF Implements, Protocol!protocolVars
  <2>8. CASE SendRaises(r)
    <3>1. Offered' = None /\ UNCHANGED sent BY <2>6, <2>8 DEF SendRaises, Inv, Typing, TypeOK
    <3>2. CASE Offered = None BY <2>2, <2>3, <3>1, <3>2 DEF Implements, Protocol!protocolVars
    <3>3. CASE Offered # None BY <2>2, <2>3, <3>1, <3>3 DEF Implements, Protocol!Next, Protocol!Withdraw
    <3> QED BY <3>2, <3>3
  <2>9. CASE SendDelivers(r)
    <3>1. Offered' = None /\ Offered = holding[r] /\ holding[r] # None
      BY <2>4, <2>6, <2>9, ConstantsAssumption
         DEF SendDelivers, Inv, Typing, TypeOK, Claims, ClaimsWhatItSends
    <3>2. sent' = [sent EXCEPT ![active] = Append(@, Offered)] BY <2>4, <2>9, <3>1 DEF SendDelivers
    <3> QED BY <2>2, <2>3, <3>1, <3>2 DEF Implements, Protocol!Next, Protocol!Take
  <2>10. CASE StreamFails(r)
    <3>1. Offered = None /\ Offered' = "error" /\ ~closed /\ UNCHANGED sent
      BY <2>4, <2>6, <2>10 DEF StreamFails, Inv, Typing, TypeOK
    <3>2. sent[r] # <<>> /\ ~Protocol!Ended(sent[r])
      BY <2>1, <2>10, LivePump DEF StreamFails, Story, Heard
    <3>3. Protocol!Offer("error")
      BY <2>2, <2>3, <2>4, <3>1, <3>2 DEF Protocol!Offer, Protocol!MayFollow
    <3> QED BY <3>3 DEF Implements, Protocol!Next, Protocol!Final
  <2> QED BY <1>6, <2>7, <2>8, <2>9, <2>10
<1> QED BY <1>1, <1>2, <1>3, <1>4, <1>5, <1>6 DEF PumpStep

\* A step of cancel() or close() that changes no story and ends no turn.
LEMMA CallBystands ==
  ASSUME Inv, Offered = Offers, Offered' = Offers',
         UNCHANGED <<active, pump, holding, sent>>, OwnerOffers' <=> OwnerOffers,
         closed' \in {closed, TRUE}
  PROVE  Implements
<1>1. Offered' = Offered BY DEF Offers, PumpOffers
<1>2. {s \in Responses : pump'[s] # "absent"} = {s \in Responses : pump[s] # "absent"}
  OBVIOUS
<1>3. CASE closed' = closed
  BY <1>1, <1>2, <1>3 DEF Implements, Protocol!protocolVars
<1>4. CASE closed' = TRUE
  BY <1>1, <1>2, <1>4 DEF Implements, Protocol!Next, Protocol!HangUp
<1> QED BY <1>3, <1>4

\* A step of cancel() or close() that ends the turn.
LEMMA CallFinishes ==
  ASSUME Inv, Offered' = Offers', active # None, active' = None,
         UNCHANGED <<closed, pump, sent>>, ~OwnerOffers'
  PROVE  Implements
<1>1. Offered' = None BY DEF Offers, PumpOffers
<1>2. {s \in Responses : pump'[s] # "absent"} = {s \in Responses : pump[s] # "absent"}
  OBVIOUS
<1> QED BY <1>1, <1>2 DEF Implements, Protocol!Next, Protocol!Finish

\* The active generation has one owner at most.
LEMMA OneOwner ==
  ASSUME Inv, NEW c \in Callers, call[c] \in OwnerStates
  PROVE  /\ active = target[c] /\ active # None /\ active \in Responses /\ owner[active] = c
         /\ \A d \in Callers : call[d] \in OwnerStates => d = c
         /\ call[c] \in CancelledSend => pump[active] = "done"
  BY ConstantsAssumption DEF Inv, Typing, TypeOK, Targets, Ownership, OwnersOwn, CancelledSendsAfterPump

\* cancel() offers and hands over response.cancelled, cancel() and close() end turns, and
\* close() hangs up.
LEMMA CallImplements ==
  ASSUME Inv, Offered = Offers, Offered' = Offers', NEW c \in Callers,
         CallBegins(c) \/ CallStep(c) \/ CallerIsCancelled(c)
  PROVE  Implements
<1> USE DEF generationVars, CallReturns
<1>1. CASE CallBegins(c) \/ TerminalIsOver(c) \/ OwnerIsOver(c) \/ CallerIsCancelled(c)
  <2>1. UNCHANGED <<active, pump, holding, sent>> /\ closed' \in {closed, TRUE}
    BY <1>1 DEF CallBegins, CloseFindsNothing, CancelNotFound, CancelComesTooLate, CancelOwns, CloseStopsOwner,
                CloseStopsPump, CloseJoinsPump, TerminalIsOver, OwnerIsOver, CallerIsCancelled
  <2>2. CASE call' = call
    BY <2>1, <2>2, CallBystands DEF OwnerOffers
  <2>3. CASE call' # call
    <3>1. /\ \A d \in Callers \ {c} : call'[d] = call[d]
          /\ call[c] # "sendCancelled" /\ call'[c] # "sendCancelled"
      BY <1>1, <2>3
         DEF CallBegins, CloseFindsNothing, CancelNotFound, CancelComesTooLate, CancelOwns, CloseStopsOwner,
             CloseStopsPump, CloseJoinsPump, TerminalIsOver, OwnerIsOver, CallerIsCancelled, Inv, Typing, TypeOK
    <3>2. OwnerOffers' <=> OwnerOffers BY <3>1 DEF OwnerOffers
    <3> QED BY <2>1, <3>2, CallBystands
  <2> QED BY <2>2, <2>3
<1>2. CASE CancelLoses(c) \/ CancelledSendEnds(c)
  <2>1. call[c] \in OwnerStates /\ pump[target[c]] = "done" /\ active = target[c] /\ active # None
    BY <1>2, OneOwner DEF CancelLoses, CancelledSendEnds
  <2>2. call'[c] = "done" /\ \A d \in Callers \ {c} : call'[d] = call[d]
    BY <1>2 DEF CancelLoses, CancelledSendEnds, Inv, Typing, TypeOK
  <2>3. ~OwnerOffers' BY <2>1, <2>2, OneOwner DEF OwnerOffers
  <2>4. active' = None /\ UNCHANGED <<closed, pump, sent>>
    BY <1>2, <2>1 DEF CancelLoses, CancelledSendEnds, ReleaseOwnership
  <2> QED BY <2>1, <2>3, <2>4, CallFinishes
<1>3. CASE CancelWins(c)
  <2>1. /\ active = target[c] /\ active # None /\ active \in Responses /\ pump[active] = "done" /\ ~claimed[active]
        /\ ~OwnerOffers
    BY <1>3, OneOwner DEF CancelWins, OwnerOffers
  <2>2. UNCHANGED <<active, pump, sent, closed>> /\ ~closed /\ call'[c] = "sendCancelled"
    BY <1>3 DEF CancelWins, Inv, Typing, TypeOK
  <2>3. Offered = None BY <2>1 DEF Offers, PumpOffers
  <2>4. Offered' = "cancelled" BY <2>1, <2>2 DEF Offers, PumpOffers, OwnerOffers
  <2>5. ~Protocol!Ended(sent[active])
    BY <2>1, FreeIsNotEnded DEF Inv, Typing, TypeOK, Claims, NoTerminalYet, TerminalToCome
  <2>6. Protocol!Offer("cancelled")
    BY <2>1, <2>2, <2>3, <2>4, <2>5 DEF Protocol!Offer, Protocol!MayFollow
  <2> QED BY <2>6 DEF Implements, Protocol!Next, Protocol!Final
<1>4. CASE CancelledIsDelivered(c)
  <2>1. active = target[c] /\ active # None /\ active \in Responses /\ pump[active] = "done" /\ OwnerOffers
    BY <1>4, OneOwner DEF CancelledIsDelivered, OwnerOffers
  <2>2. /\ UNCHANGED <<active, pump, closed>>
        /\ call'[c] = "cancelledDelivered" /\ \A d \in Callers \ {c} : call'[d] = call[d]
    BY <1>4 DEF CancelledIsDelivered, Inv, Typing, TypeOK
  <2>3. ~OwnerOffers' BY <1>4, <2>2, OneOwner DEF OwnerOffers, CancelledIsDelivered
  <2>4. Offered = "cancelled" /\ Offered' = None BY <2>1, <2>2, <2>3 DEF Offers, PumpOffers
  <2>5. sent' = [sent EXCEPT ![active] = Append(@, Offered)] BY <1>4, <2>1, <2>4 DEF CancelledIsDelivered
  <2> QED BY <2>2, <2>4, <2>5, ConstantsAssumption DEF Implements, Protocol!Next, Protocol!Take
<1>5. CASE CloseEnds(c)
  <2>1. target[c] \in Responses /\ owner[target[c]] = None /\ active \in {target[c], None}
    BY <1>5 DEF CloseEnds, Inv, Typing, Targets, Ownership, ClosersClose, ClosersOutliveOwner
  <2>2. ~OwnerOffers BY <2>1, OneOwner, ConstantsAssumption DEF OwnerOffers
  <2>3. call'[c] = "done" /\ \A d \in Callers \ {c} : call'[d] = call[d]
    BY <1>5 DEF CloseEnds, Inv, Typing, TypeOK
  <2>4. ~OwnerOffers' BY <2>2, <2>3 DEF OwnerOffers
  <2>5. active' = None /\ UNCHANGED <<closed, pump, holding, sent>> BY <1>5, <2>1 DEF CloseEnds
  <2>6. CASE active = None BY <2>2, <2>4, <2>5, <2>6, CallBystands
  <2>7. CASE active # None BY <2>4, <2>5, <2>7, CallFinishes
  <2> QED BY <2>6, <2>7
<1>6. CASE CallerUnwinds(c)
  <2>1. call'[c] = "done" /\ \A d \in Callers \ {c} : call'[d] = call[d]
    BY <1>6 DEF CallerUnwinds, Inv, Typing, TypeOK
  <2>2. UNCHANGED <<closed, pump, holding, sent>> BY <1>6 DEF CallerUnwinds
  <2>3. CASE call[c] \in OwnerStates /\ pump[target[c]] = "done"
    <3>1. active # None /\ active' = None
      BY <1>6, <2>3, OneOwner DEF CallerUnwinds, ReleaseOwnership
    <3>2. ~OwnerOffers' BY <2>1, <2>3, OneOwner DEF OwnerOffers
    <3> QED BY <2>2, <3>1, <3>2, CallFinishes
  <2>4. CASE call[c] \notin OwnerStates \/ pump[target[c]] # "done"
    <3>1. UNCHANGED active BY <1>6, <2>4 DEF CallerUnwinds, ReleaseOwnership
    <3>2. call[c] # "sendCancelled" BY <2>4, OneOwner
    <3>3. OwnerOffers' <=> OwnerOffers BY <2>1, <3>2 DEF OwnerOffers
    <3> QED BY <2>2, <3>1, <3>3, CallBystands
  <2> QED BY <2>3, <2>4
<1> QED BY <1>1, <1>2, <1>3, <1>4, <1>5, <1>6 DEF CallStep

-----------------------------------------------------------------------------
\* A session begins idle, with nothing said.
LEMMA InitImplements == Init => Protocol!Init
<1> SUFFICES ASSUME Init PROVE Protocol!Init
  OBVIOUS
<1>1. Offered = None BY DEF Init, Offered
<1>2. {r \in Responses : pump[r] # "absent"} = {} BY DEF Init
<1> QED BY <1>1, <1>2 DEF Init, Protocol!Init

\* Every step of the session is a step of the protocol, or none.
LEMMA StepImplements == Inv /\ Inv' /\ Story /\ [Next]_vars => [Protocol!Next]_(Protocol!protocolVars)
<1> SUFFICES ASSUME Inv, Inv', Story, [Next]_vars PROVE Implements
  BY DEF Implements
<1>1. Offered = Offers /\ Offered' = Offers'
  BY OfferedIsOffers, OfferedIsOffersNext
<1>2. ASSUME UNCHANGED vars PROVE Implements
  <2>1. Offered' = Offered
    BY <1>1, <1>2 DEF Offers, PumpOffers, OwnerOffers, vars, generationVars, callVars
  <2>2. {s \in Responses : pump'[s] # "absent"} = {s \in Responses : pump[s] # "absent"}
    BY <1>2 DEF vars, generationVars
  <2> QED BY <1>2, <2>1, <2>2 DEF Implements, vars, Protocol!protocolVars
<1>3. CASE AllCallsMade BY <1>2, <1>3 DEF AllCallsMade
<1>4. ASSUME NEW r \in Responses, Start(r) \/ PumpStep(r) PROVE Implements
  BY <1>1, <1>4, PumpImplements
<1>5. ASSUME NEW c \in Callers, CallBegins(c) \/ CallStep(c) \/ CallerIsCancelled(c) PROVE Implements
  BY <1>1, <1>5, CallImplements
<1> QED BY <1>2, <1>3, <1>4, <1>5 DEF Next

\* Types, ownership, claims, cancellations and the order of the events sent hold together
\* with where each pump stands in its response.
THEOREM StoryInvariant == Spec => [](Inv /\ Story)
  BY InvInit, InvStep, InitStory, StepStory, PTL DEF Spec

\* Whatever the tasks of one connection do to each other, its client sees the protocol: one
\* turn at a time, started first, one terminal event last, and nothing offered after close().
THEOREM SessionImplementsProtocol == Spec => ImplementsProtocol
  BY InitImplements, StepImplements, StoryInvariant, PTL DEF Spec, ImplementsProtocol, Protocol!Spec
=============================================================================
