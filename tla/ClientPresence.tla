--------------------------- MODULE ClientPresence ---------------------------
(***************************************************************************)
(* The registry of connected robots (admin/presence.py) and the part of    *)
(* the WebSocket handler (api/websocket.py) that keeps it: each handler    *)
(* registers its connection, closes the connection it replaces, serves,    *)
(* and unregisters in its finally block.                                   *)
(*                                                                         *)
(* The registry's lock is held over no await, so replace() and             *)
(* disconnect() are atomic; the handlers interleave between them.  The     *)
(* server below the handlers (uvicorn) is external: it closes sockets,     *)
(* reports a closed one to the handler that reads from it, and may refuse  *)
(* to close one whose handler has been told already or is over.            *)
(***************************************************************************)
EXTENDS Naturals

CONSTANTS
  Clients,      \* enabled robots with a valid key
  Connections,  \* WebSocket connections, each used once
  ClientOf,     \* the client each connection authenticates as
  None          \* Python's None

ASSUME ConstantsAssumption ==
  /\ None \notin Connections
  /\ ClientOf \in [Connections -> Clients]

VARIABLES
  registry,  \* self._connections of the ClientPresenceRegistry
  handler,   \* where each connection's handler is
  previous,  \* previous_connection of each handler
  socket     \* the connection as the server sees it

vars == <<registry, handler, previous, socket>>

HandlerStates == {"absent", "admitted", "closingPrevious", "serving", "leaving", "gone", "crashed"}
SocketStates == {"none", "open", "clientClosed", "serverClosed"}

Init ==
  /\ registry = [c \in Clients |-> None]
  /\ handler = [k \in Connections |-> "absent"]
  /\ previous = [k \in Connections |-> None]
  /\ socket = [k \in Connections |-> "none"]

-----------------------------------------------------------------------------
(* The connection is accepted, and turned away or let in as its client.    *)

Admit(k) ==
  /\ handler[k] = "absent"
  /\ handler' = [handler EXCEPT ![k] = "admitted"]
  /\ socket' = [socket EXCEPT ![k] = "open"]
  /\ UNCHANGED <<registry, previous>>

TurnAway(k) ==
  /\ handler[k] = "absent"
  /\ handler' = [handler EXCEPT ![k] = "gone"]
  /\ socket' = [socket EXCEPT ![k] = "serverClosed"]
  /\ UNCHANGED <<registry, previous>>

\* Mutant: replace() reads the entry after it has written it.
ReplaceReadsItself(k) ==
  /\ handler[k] = "admitted"
  /\ registry' = [registry EXCEPT ![ClientOf[k]] = k]
  /\ previous' = [previous EXCEPT ![k] = k]
  /\ handler' = [handler EXCEPT ![k] = "closingPrevious"]
  /\ UNCHANGED socket

\* presence.replace(): the newest connection takes the client's entry.
Replace(k) ==
  LET c == ClientOf[k] IN
  /\ handler[k] = "admitted"
  /\ registry' = [registry EXCEPT ![c] = k]
  /\ previous' = [previous EXCEPT ![k] = registry[c]]
  /\ handler' = [handler EXCEPT ![k] = IF registry[c] = None THEN "serving" ELSE "closingPrevious"]
  /\ UNCHANGED socket

\* Mutant: the new handler serves without closing the connection it replaced.
ServesBesidePrevious(k) ==
  /\ handler[k] = "closingPrevious"
  /\ handler' = [handler EXCEPT ![k] = "serving"]
  /\ UNCHANGED <<registry, previous, socket>>

\* previous_connection.close() returns.
ClosePrevious(k) ==
  /\ handler[k] = "closingPrevious"
  /\ socket' = [socket EXCEPT ![previous[k]] = IF @ = "open" THEN "serverClosed" ELSE @]
  /\ handler' = [handler EXCEPT ![k] = "serving"]
  /\ UNCHANGED <<registry, previous>>

\* previous_connection.close() raises: the call is not in the try block, so the
\* handler ends without its finally block, and the server drops the connection.
ClosePreviousRaises(k) ==
  /\ handler[k] = "closingPrevious"
  /\ handler[previous[k]] \in {"leaving", "gone", "crashed"}
  /\ handler' = [handler EXCEPT ![k] = "crashed"]
  /\ socket' = [socket EXCEPT ![k] = IF @ = "open" THEN "serverClosed" ELSE @]
  /\ UNCHANGED <<registry, previous>>

ClientCloses(k) ==
  /\ socket[k] = "open"
  /\ socket' = [socket EXCEPT ![k] = "clientClosed"]
  /\ UNCHANGED <<registry, handler, previous>>

\* The handler reads the disconnect, or a send raises: session.close() begins.
Leave(k) ==
  /\ handler[k] = "serving"
  /\ socket[k] # "open"
  /\ handler' = [handler EXCEPT ![k] = "leaving"]
  /\ UNCHANGED <<registry, previous, socket>>

\* Mutants: disconnect() removes whatever connection the client has, or none.
DisconnectAny(k) ==
  /\ handler[k] = "leaving"
  /\ registry' = [registry EXCEPT ![ClientOf[k]] = None]
  /\ handler' = [handler EXCEPT ![k] = "gone"]
  /\ UNCHANGED <<previous, socket>>
DisconnectNone(k) ==
  /\ handler[k] = "leaving"
  /\ handler' = [handler EXCEPT ![k] = "gone"]
  /\ UNCHANGED <<registry, previous, socket>>

\* presence.disconnect(), after session.close(): only the handler's own entry.
Disconnect(k) ==
  /\ handler[k] = "leaving"
  /\ registry' = [registry EXCEPT ![ClientOf[k]] = IF @ = k THEN None ELSE @]
  /\ handler' = [handler EXCEPT ![k] = "gone"]
  /\ UNCHANGED <<previous, socket>>

-----------------------------------------------------------------------------
HandlerStep(k) ==
  \/ Replace(k) \/ ClosePrevious(k) \/ ClosePreviousRaises(k)
  \/ Leave(k) \/ Disconnect(k)

Over == {"gone", "crashed"}

\* Every connection has been used: the model is at its bound.
AllConnectionsUsed ==
  /\ \A k \in Connections : handler[k] \in Over
  /\ UNCHANGED vars

Next ==
  \/ \E k \in Connections : Admit(k) \/ TurnAway(k) \/ ClientCloses(k) \/ HandlerStep(k)
  \/ AllConnectionsUsed

\* The event loop runs every handler that can run, and closing a socket or a
\* session ends (both are bounded by timeouts of the server and of the pump).
Fairness == \A k \in Connections : WF_vars(HandlerStep(k))

Spec == Init /\ [][Next]_vars /\ Fairness

-----------------------------------------------------------------------------
(* Properties                                                              *)

\* The types, and that a handler replaces another connection of its own client.
TypeOK ==
  /\ registry \in [Clients -> Connections \union {None}]
  /\ handler \in [Connections -> HandlerStates]
  /\ previous \in [Connections -> Connections \union {None}]
  /\ socket \in [Connections -> SocketStates]
  /\ \A c \in Clients : registry[c] # None => ClientOf[registry[c]] = c
  /\ \A k \in Connections : previous[k] # None => previous[k] # k /\ ClientOf[previous[k]] = ClientOf[k]

\* One connection per client: a connection that is served and open is the
\* registered one, or a handler is about to close it.
OneActiveConnection ==
  \A k \in Connections : handler[k] = "serving" /\ socket[k] = "open" =>
    \/ registry[ClientOf[k]] = k
    \/ \E n \in Connections : handler[n] = "closingPrevious" /\ previous[n] = k

\* A handler that ran to its end has no entry left: its client is offline or
\* has a newer connection.
GoneIsUnregistered ==
  \A k \in Connections : handler[k] = "gone" => registry[ClientOf[k]] # k

\* A client's entry is removed by the handler it belongs to and by no other:
\* the cleanup of a replaced connection leaves the newer one alone.
RemovedByItsOwner ==
  [][\A c \in Clients : registry[c] # None /\ registry'[c] = None =>
       handler[registry[c]] = "leaving" /\ handler'[registry[c]] = "gone"]_vars

\* A replaced connection does not linger: its handler ends.
ReplacedConnectionEnds ==
  \A k \in Connections :
    handler[k] = "serving" /\ registry[ClientOf[k]] # k ~> handler[k] = "gone"

\* presence.py:1 and :16, "currently connected robot clients", "the one active
\* WebSocket connection": a registered connection has a handler.
RegisteredIsConnected ==
  \A c \in Clients : registry[c] # None => handler[registry[c]] \notin Over
=============================================================================
