------------------------ MODULE ClientPresenceProofs ------------------------
(***************************************************************************)
(* ClientPresence for any clients and connections: proofs of its safety    *)
(* properties, from an invariant that also covers a connection whose       *)
(* handler has not begun to serve.                                         *)
(***************************************************************************)
EXTENDS ClientPresence, TLAPS

\* The strengthening of OneActiveConnection: the claim already holds of a
\* newcomer that still closes its predecessor.
Accounted ==
  \A k \in Connections : handler[k] \in {"serving", "closingPrevious"} /\ socket[k] = "open" =>
    \/ registry[ClientOf[k]] = k
    \/ \E n \in Connections : handler[n] = "closingPrevious" /\ previous[n] = k

\* The strengthening of GoneIsUnregistered: nor has a handler an entry before
\* it registers.
UnregisteredOutside ==
  \A k \in Connections :
    handler[k] \in {"absent", "admitted", "gone"} => registry[ClientOf[k]] # k

\* A handler that is closing a predecessor has one.
HasPredecessor == \A k \in Connections : handler[k] = "closingPrevious" => previous[k] # None

IInv == TypeOK /\ HasPredecessor /\ Accounted /\ UnregisteredOutside

-----------------------------------------------------------------------------
\* The states the program starts in satisfy the invariant.
LEMMA InitIInv == Init => IInv
  BY ConstantsAssumption DEF Init, IInv, TypeOK, HasPredecessor, Accounted, UnregisteredOutside,
     HandlerStates, SocketStates

\* Each step of a handler or of a client keeps the invariant.
LEMMA StepIInv == IInv /\ [Next]_vars => IInv'
  <1> SUFFICES ASSUME IInv, [Next]_vars PROVE IInv'
      OBVIOUS
  <1> USE ConstantsAssumption DEF IInv
  <1>1. ASSUME NEW k \in Connections, Admit(k) PROVE IInv'
    BY <1>1 DEF Admit, TypeOK, HasPredecessor, Accounted, UnregisteredOutside, HandlerStates, SocketStates
  <1>2. ASSUME NEW k \in Connections, TurnAway(k) PROVE IInv'
    BY <1>2 DEF TurnAway, TypeOK, HasPredecessor, Accounted, UnregisteredOutside, HandlerStates, SocketStates
  <1>3. ASSUME NEW k \in Connections, ClientCloses(k) PROVE IInv'
    BY <1>3 DEF ClientCloses, TypeOK, HasPredecessor, Accounted, UnregisteredOutside, HandlerStates, SocketStates
  <1>4. ASSUME NEW k \in Connections, Replace(k) PROVE IInv'
    <2>1. ClientOf[k] \in Clients /\ registry[ClientOf[k]] # k /\ k # None
      BY <1>4 DEF Replace, UnregisteredOutside
    <2>2. TypeOK'
      BY <1>4, <2>1 DEF Replace, TypeOK, HandlerStates, SocketStates
    <2>3. HasPredecessor'
      BY <1>4, <2>1 DEF Replace, TypeOK, HasPredecessor
    <2>4. Accounted'
      BY <1>4, <2>1 DEF Replace, TypeOK, Accounted
    <2>5. UnregisteredOutside'
      BY <1>4, <2>1 DEF Replace, TypeOK, UnregisteredOutside
    <2> QED BY <2>2, <2>3, <2>4, <2>5
  <1>5. ASSUME NEW k \in Connections, ClosePrevious(k) PROVE IInv'
    <2>1. previous[k] \in Connections /\ previous[k] # k
      BY <1>5 DEF ClosePrevious, TypeOK, HasPredecessor
    <2> QED BY <1>5, <2>1 DEF ClosePrevious, TypeOK, HasPredecessor, Accounted, UnregisteredOutside,
              HandlerStates, SocketStates
  <1>6. ASSUME NEW k \in Connections, ClosePreviousRaises(k) PROVE IInv'
    BY <1>6 DEF ClosePreviousRaises, TypeOK, HasPredecessor, Accounted, UnregisteredOutside,
       HandlerStates, SocketStates
  <1>7. ASSUME NEW k \in Connections, Leave(k) PROVE IInv'
    BY <1>7 DEF Leave, TypeOK, HasPredecessor, Accounted, UnregisteredOutside, HandlerStates, SocketStates
  <1>8. ASSUME NEW k \in Connections, Disconnect(k) PROVE IInv'
    BY <1>8 DEF Disconnect, TypeOK, HasPredecessor, Accounted, UnregisteredOutside, HandlerStates, SocketStates
  <1>9. CASE UNCHANGED vars
    BY <1>9 DEF vars, TypeOK, HasPredecessor, Accounted, UnregisteredOutside
  <1> QED
    BY <1>1, <1>2, <1>3, <1>4, <1>5, <1>6, <1>7, <1>8, <1>9
    DEF Next, HandlerStep, AllConnectionsUsed

\* Every reachable state satisfies the invariant.
THEOREM InductiveInvariant == Spec => []IInv
  <1> QED BY InitIInv, StepIInv, PTL DEF Spec

-----------------------------------------------------------------------------
\* The registry, the handlers and the sockets keep their types, and a client's
\* entry and a handler's predecessor are connections of that same client.
THEOREM TypeCorrect == Spec => []TypeOK
  <1>1. IInv => TypeOK
    BY DEF IInv
  <1> QED BY <1>1, InductiveInvariant, PTL

\* Of the connections of a client at most the registered one is served and open,
\* but for those a newer handler is about to close, whatever the interleaving.
THEOREM OneConnectionPerClient == Spec => []OneActiveConnection
  <1>1. IInv => OneActiveConnection
    BY DEF IInv, Accounted, OneActiveConnection
  <1> QED BY <1>1, InductiveInvariant, PTL

\* A handler that ran to its end leaves no entry behind.
THEOREM NoEntryLeftBehind == Spec => []GoneIsUnregistered
  <1>1. IInv => GoneIsUnregistered
    BY DEF IInv, UnregisteredOutside, GoneIsUnregistered
  <1> QED BY <1>1, InductiveInvariant, PTL

\* Only the handler an entry belongs to removes it.
THEOREM OnlyOwnerRemoves == Spec => RemovedByItsOwner
  <1> DEFINE Removal == \A c \in Clients : registry[c] # None /\ registry'[c] = None =>
                          handler[registry[c]] = "leaving" /\ handler'[registry[c]] = "gone"
  <1>1. ASSUME IInv, [Next]_vars PROVE [Removal]_vars
    <2> USE ConstantsAssumption DEF IInv
    <2>1. ASSUME NEW k \in Connections, Replace(k) PROVE Removal
      BY <1>1, <2>1 DEF Replace, TypeOK
    <2>2. ASSUME NEW k \in Connections, Disconnect(k) PROVE Removal
      BY <1>1, <2>2 DEF Disconnect, TypeOK
    <2>3. ASSUME registry' = registry PROVE Removal
      BY <2>3
    <2> QED
      BY <1>1, <2>1, <2>2, <2>3
      DEF Next, HandlerStep, AllConnectionsUsed, vars, Admit, TurnAway, ClientCloses,
          ClosePrevious, ClosePreviousRaises, Leave
  <1> QED BY <1>1, InductiveInvariant, PTL DEF Spec, RemovedByItsOwner
=============================================================================
