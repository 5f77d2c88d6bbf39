# SOMAI chat: a TLA+ model and its proofs

This directory holds TLA+ modules that model the parts of SOMAI chat where tasks, connections, saves and restarts
interleave, the TLC configurations that check them on small instances, and theorems, checked by TLAPS, that hold for
every size. `PROJECT.json` maps each definition to the lines it stands for and lists the runs, mutants, hazards,
findings and theorems.

Run a check with `tlc -workers 2 -config MCClientPresence.cfg MCClientPresence.tla`, a proof with
`tlapm ClientPresenceProofs.tla`.

## 1. The system

SOMAI chat is one asyncio process (FastAPI on uvicorn). Robots and a debug console in the browser talk to it over
WebSockets; administrators manage clients and capabilities over HTTP. Everything between two awaits is atomic; what can
go wrong happens at the awaits.

```
 robot / web console --WebSocket--> websocket handler --start/cancel/close--> ConversationSession
                                      |   ^ registry                              | pump task
                                      v   | (ClientPresence)                      v
                                  ClientRepository                        ConversationRuntime.stream
                                   (MySQL)                                  | tool snapshot  | vision
                                                                            v                v
 administrator --HTTP--> admin API --> CapabilityService --publishes--> ConversationGraph (thread lock,
                                          | MySQL                        LangGraph + checkpointer, model, tools)
```

| Component (source) | State | Operations | What makes it correct |
|---|---|---|---|
| Conversation session (`application/conversation.py`) | `_active`, `_closed`, per generation its task, cancellation owner and terminal claim | `start`, `cancel`, `close`, the pump task | one turn at a time; one terminal event per response and nothing after it; `close()` is final; cancel and completion never both win; nobody waits for good |
| Conversation runtime (`application/conversation.py`) | locals of one turn: tool snapshot, camera action, content | `stream` | one snapshot per turn; one camera request; failures mapped to one error |
| Conversation graph (`agent/graph.py`) | thread locks, checkpointed history | model step, tools step, routing | one graph runs in a thread at a time; no message of a history is lost; completed turns are whole |
| Presence (`admin/presence.py`) | client -> connection | `replace`, `disconnect` | one connection per client; only the owner's cleanup removes an entry |
| WebSocket handler (`api/websocket.py`) | one session, a send lock, its registration | admission, receive loop, cleanup | every accepted request is answered; cleanup always happens |
| Capability service (`capabilities/service.py`, `admin/capability_repository.py`) | cards in MySQL, decoded states and tools in memory, update lock | `initialize`, `update`, `snapshot`, reads | what is served is what is committed; keys are kept; seeding overwrites nothing |
| Client repository (`admin/repository.py`, `admin/credentials.py`) | clients and access keys in MySQL | create, authenticate, rotate, enable, reveal | a revoked, expired or disabled key admits nobody; one valid key per client |
| Admin API and login (`api/admin.py`, `admin/auth.py`) | session cookie, CSRF token | login, logout, client management | nothing without a session and token |
| Workflow translator (`application/workflow.py`) | active runs by run id | `translate` | each node starts once and ends at most once |
| Image upload (`api/images.py`) | files under the media root | upload, download | an uploaded image can be fetched by its id |
| Vision, weather, search, time, camera tools | none, or an HTTP client | one call each | returns or raises in bounded time |
| Lifespan (`main.py`) | owned resources, `ready` | start, stop | all resources are closed; not ready without dependencies |
| Debug console (`web/app.js`, `view.js`, `workflow.js`) | socket, phase, pending message, active response, reconnect count | send, stop, new session, event handler | phase follows the server's events; stale sockets and responses are ignored |
| Administrator console (`frontend/admin/src`) | lists, dialogs, revealed keys | requests and their answers | late answers do not overwrite newer state |
| Configuration, logging, errors, database engine, providers, prompts, health | read-only or output | - | - |

Hard behaviours: cancellation racing completion, failure and close; cancellation before a task's first step; a send
that fails in mid-stream; several handlers of one client replacing each other; a save whose commit is applied and whose
reply is lost; a restart with another encryption secret; several connections sharing one conversation; turns cancelled
between a tool call and its result; graphs left running by a turn that is gone; transactions that lock the same rows in
opposite orders; a browser whose events, sockets and timers race what the user does. `PROJECT.json` lists 40 hazards,
each at its line, 37 of them with the properties that would notice one going wrong.

## 2. Modules

| Module | What it models | State and actions |
|---|---|---|
| `ResponseProtocol` | what a session promises the client: one turn at a time, `started delta* (completed, error or cancelled)`, nothing after hanging up | `turn, past, hungUp, offer, said`; `Begin, Offer, Take, Withdraw, Finish, HangUp` |
| `ConversationSession` | the session, its pump tasks and the tasks that call `cancel()` or `close()` | one variable per field of `_Generation` and `ConversationSession`; `pump[r]` and `call[c]` say at which await a task is suspended |
| `ClientPresence` | the registry and the part of the WebSocket handler that registers, replaces and unregisters | `registry, handler, previous, socket` |
| `CapabilityService` | cards, states, tools, the update lock, process starts and stops | `Start, SeedMissing, LoadStates, StartFails, Stop`; a save is `Send`, then `Refuse`, or `Prepare` and `Commit`, `CommitFails` or `CommitReplyIsLost`, and `Publish` |
| `ConversationGraph` | turns of a thread: snapshot, vision, thread lock, model and tools steps, history, failure, cancellation | `turn[t]` is the await a turn is at, `graph[t]` the step its graph is in; `memory[t]` the messages a graph works on, `history[x]` the checkpointed ones of a thread |
| `ClientRepository` | robot clients, access keys, and the transactions of `authenticate`, `create`, `set_enabled` and `rotate` with their row locks | `clients, keys` are the tables, `clientLock, keyLock` the rows' locks, `at[r]` the statement a request is about to execute; an action is a statement: `LockKey, ReadClient, LockClient, ReadKeys, LockKeys, Commit`, or a failure: `Fail, CommitReplyIsLost, BreakCircle` |
| `ChatConsole` | the debug console and the server's handlers, joined by one pair of queues per WebSocket | the console's `state` (`phase, pendingMessageId, activeResponseId, reconnectAttempts, intentionalClose, ...`) and workflow view; `link, up, down` of each socket; `turn[s]`, what the client sees of the session |
| `*Proofs` | the theorems of each | |
| `MC*` | the instances TLC checks | |

**How tasks are modelled.** An action is the code one task runs from one await to the next. In `ConversationSession` a
task is cancelled the way asyncio does it: `Task.cancel()` increments `cancelling()` and sets a signal, and the
CancelledError is thrown at the await of the task when it runs next. A task cancelled before its first step never runs
its body, so its `finally` does not either. What the runtime's stream makes of a CancelledError is left open: it may
re-raise it, fail, or swallow it. A lifecycle call from inside a send callback is rejected with a RuntimeError, which
leaves the callback as a failed send (`SendRaises`). Each send has two steps, so that the client may have an event
before the sending task goes on.

In the server both `cancel()` and `close()` are called by one task, the connection's handler; the repository's tests
call them from several, and the class is modelled for any number of callers.

**A turn and its graph** are two tasks: LangChain runs the graph in one of its own, and the turn reads its events.
Cancelled while it waits for an event, the turn unwinds through LangChain's generator, which stops the graph before the
thread's lock is left (`CancelledInGraph`, `StreamIsClosed`). Cancelled, or stopped by a failed send, while it is
suspended at a `yield`, it is closed from outside, leaves the lock, and the graph is stopped some time later
(`ClosedAtYield`, `GraphIsStopped`). The variable `overlapped` records, for the properties, the threads in which a
graph began beside such an abandoned one.

**Transactions.** A request of `ClientRepository` is one `sessions.begin()` block, an action one statement. The locking
statement and the test that follows it are one action, since nothing else can change a locked row; the plain SELECT of
the client in `authenticate()` (`repository.py:69`) is a step of its own, because it locks nothing. What is written
becomes visible when the transaction commits. `create()` inserts rows; its wait for a row of the same name is the unique
index of `clients.name`.

**The console and the server** meet in `ChatConsole`. On the server's side it has the receive loop
(`websocket.py:206-267`), the refusals of `parse_client_event`, and of a turn the events a client can see, among them
those of one workflow node. Between the terminal event and `_pump`'s `finally` block the session is still busy
(`FreeSession`), for as long as it likes: longer than the code needs, so a message that arrives then may always be
refused. On the browser's side it has the click and submit handlers, the socket's listeners, the reconnection timer and
`handleEvent`. A broken link loses what is under way; the browser notices later (`SocketCloses`).

**How the modules fit.** `ConversationSession` treats the stream as anything that yields events, fails or is cancelled;
`ConversationGraph` is that stream, without the delivery of its events. `CapabilityService` publishes the tools;
`ConversationGraph!Publish` is that publication as a turn sees it. `ClientPresence` begins where
`ClientRepository` admits a robot and ends around the session: its `Leave` is the beginning of `session.close()`, which
`ConversationSession` shows to return. `ChatConsole` composes handler, session, wire and browser; its turns send what
`ResponseProtocol` allows, which `ConversationSession` is shown to implement.

**External parts** (modelled from how `src/` uses them): asyncio (tasks, `Lock`, `shield`); uvicorn, which reports a
closed socket to its reader and may raise when a socket is closed whose handler is already leaving; MySQL, whose
transactions apply or do not, also when the reply is lost, and InnoDB under REPEATABLE READ, its default: `SELECT ... FOR
UPDATE`, `UPDATE` and `INSERT` hold rows until the transaction ends, a plain `SELECT` reads what is committed and waits
for nobody, and of two transactions that wait for each other one is rolled back; the browser's WebSocket, which keeps
the order of events, dispatches none once `close()` was called, and reports a lost connection late; LangGraph, which saves the input and then each step's
messages when the step ends, and keeps nothing of a step that is cancelled
(`tests/unit/test_conversation_lifecycle.py:314-336` is the repository's own evidence of it); a run appends to the
state it loaded, and the next run loads what was saved last. LangChain's `astream_events` cancels its graph's task when
it is closed, and asyncio closes an abandoned generator in a task of its own.

## 3. Runs

Every property of a passing run has a mutant: a definition of the model changed the way a plausible bug would, under
which TLC finds that property violated.

| Run | Instance | Shows |
|---|---|---|
| `session` | 2 generations, 3 callers that may each be cancelled from outside, 1 event between started and terminal, symmetry | order and finality of events (`NothingAfterTerminal`, `NoSendBegunOnceClosed`, `CloseIsFinal`), ownership (`IdleMeansQuiet`, `PumpCancelledOnce`, `LiveWhenCancellable`), truth of a successful cancel (`CancelSucceedsOnlyIfCancelled`), no silent end (`EveryTurnIsAnswered`), and that the session implements `ResponseProtocol` |
| `session_live` | 2 generations, 2 callers, one of which may be cancelled from outside | `CallsReturn`, `BusyEnds` under fairness |
| `presence` | a robot with three connections, another robot with one | one connection per client, cleanup by the owner, replaced connections end |
| `presence_leak` | the same | finding 1 |
| `capability` | one keyed and one keyless capability, 2 configurations, 2 keys, 2 secrets, 2 overlapping saves with any of the 30 bodies, 2 starts | served = committed, keys kept, seeding harmless, saves answered |
| `capability_keys` | the same | finding 2 |
| `graph` | 2 turns of one thread, 2 snapshots, batches with the camera first and last, at most 2 tool rounds | no lost message, one snapshot, whole turns, one camera request, and `TurnsEnd` under fairness |
| `graph_lock`, `graph_calls` | as `graph`, with batches of the camera alone and without it too | findings 3 and 4 |
| `clients` | a client that exists, a free name, 3 keys, 3 requests of any kind | one key per client (`OneKeyPerClient`), admission by the key that is current at the commit (`AdmittedKeyIsCurrent`), disabled clients stay out (`DisabledStaysOut`), and every request ends although the lock orders differ (`RequestsEnd`) |
| `clients_dates` | the same | finding 5 |
| `console` | 3 messages, 2 sockets, 1 reconnection attempt | the console waits for exactly what is under way (`AwaitsWhatIsUnderWay`) and not for ever (`WaitsEnd`), its workflow view says how the server ended a response (`WorkflowIsTrue`, `NodesEndBeforeCompletion`), a lost socket is tried again (`LostSocketIsRetried`) |

**Bounds and why they suffice.** Two generations are needed for a stale `cancel()` that meets the next turn; three
callers for a `cancel()`, a `close()` that stops it and a second `close()`; one middle event (`MaxDeltas`) because the
session does not tell them apart. Three connections of one robot let a newcomer replace a connection that is itself
still closing another; the fourth shows that clients do not disturb each other. Two saves overlap in every way the
lock allows; the second of two starts (`MaxStarts`) is the one that finds cards and perhaps another secret. Two turns
of one thread meet at its lock; two tool rounds (`MaxRounds`) put a camera result before and after another batch, and
the two batches are those that end the graph at a camera and go on after one. Three requests let a rotation, a disabling
and an authentication of one client overlap in every way, with or without a new client, and two rotations before an
authentication; a fourth would only add the same waits. Three messages (`MaxMessages`) let the
late answer to a Stop meet the next turn and the message after it; two sockets (`MaxSockets`) and one attempt
(`MaxReconnectAttempts`, 5 in the code) are a New session or a reconnection at any moment, and the last attempt that
fails. A message that the server cannot read but the console let pass (`odd`) may be any of them.
The theorems of section 4 hold without these bounds.

**Fairness.** Weak fairness of each task's own steps only: the event loop resumes what is ready, sends end (uvicorn
closes a connection that does not drain), streams end (provider clients have timeouts), database calls return or raise,
`asyncio.Lock` is first come, first served; MySQL executes the statements it is sent and looks for circles of waits; the
browser delivers events and notices, by the timeouts of TCP, that a connection is gone. Nobody is obliged to send,
cancel, stop, close, connect, save, start or press anything, and no failure is certain.
`WaitsEnd` excepts a message the server cannot read: the refusal (`protocol.py:146-168`) names no message, so the console
waits until its connection closes or the user presses New session. `BusyEnds` excepts a generation whose canceller was itself cancelled: if the pump had not begun, the session stays busy
until its connection's handler, the task that was cancelled, closes it.

**Deadlock** is checked in every run; the stuttering actions `AllCallsMade`, `AllConnectionsUsed`, `StoppedForGood`,
`AllTurnsRun`, `AllRequestsMade` and `Rests` are enabled only where an instance has used up its bound and nothing is left running.

**Findings.** Five runs expect a violation of what the repository says of itself:

1. `RegisteredIsConnected`: the close of a replaced connection (`websocket.py:190`) is outside the `try` block; when it
   raises, the new handler's registry entry stays although nobody is connected.
2. `SavedKeyIsKept`: after a start with another encryption secret, saving a card without touching its key erases the
   stored key, against the capability specification.
3. `AccessIsSerialized`: `astream_events` (`graph.py:85`) does not close LangChain's generator; a turn that is cancelled
   while an event is being sent releases its thread's lock while its graph still runs, and the next graph begins beside
   it. `HistoryIsKept` holds in every thread in which this did not happen.
4. `ModelSeesNoCutCalls`: a turn cancelled while its tools run leaves tool calls without results, which the next turn
   sends to the model.
5. `DatedKeyIsDecided`: a key with a date of expiry is neither admitted nor refused. `expires_at` comes from a DATETIME
   column without a time zone, and comparing it with an aware `now` (`repository.py:67`) raises TypeError. No test of the
   repository authenticates with such a key.

Three things the runs show that no document contradicts. A client that is disabled while `authenticate()` runs may still
be admitted, since `enabled` is read without a lock; and a connection that is admitted outlives its key. The graph goes
on after a camera call that is not the last of its batch (`route_after_tools` sees only the last result), which the one
test of it (`tests/unit/test_graph.py:311`) does not try; the camera is requested once all the same
(`CameraIsRequestedOnce`).

## 4. Proofs

The constants' assumptions (`ConstantsAssumption` in each module, `BoundsAssumption` in `ChatConsole`) say only what the
types of the code say: `None` is no task, no number and no event, a connection has one client, a batch of calls is not
empty. The sets and bounds may be of any size. TLC evaluates the assumptions in each run.

Each proof module follows one argument: an inductive invariant as a conjunction of named parts, `Init` implies it, each
action preserves it (one step per action), it implies the property; an action property follows from the invariant and
the action.

- `ConversationSessionProofs`. The properties are not inductive by themselves. What makes them so: a live pump's
  generation is active; an owner is a caller that waits for the pump or sends `response.cancelled`; a terminal event is sent only by
  who claimed it, and `claimed` is set before it is sent and never reset; a pump asked to stop has an owner or a closed
  session, so nobody asks again; a `close()` that returned has seen the pump end and the owner leave.
- `ConversationSessionPromiseProofs`, for `EveryTurnIsAnswered` and `ImplementsProtocol`. A response is settled once
  it has a terminal event, a failed send, a closed session or a `cancel()` whose task was cancelled; it stays settled.
  A pump ends because it is settled or was asked to stop; who asked owns the generation until it is settled; a claimed
  terminal event is delivered, unless its send fails. For the refinement: the event on offer is the active pump's, or
  `cancelled` while the owner sends it, never both (`OfferedIsOffers`); a response is empty until its pump has sent
  `started` and not afterwards (`Story`). With these every action is one step of `ResponseProtocol` or none: `Start`
  begins, what the stream yields is offered, a send takes or withdraws, the end of pump, `cancel()` or `close()`
  finishes, `close()` hangs up.
- `ClientPresenceProofs`. A served open connection that is not registered is the `previous` of a handler that is about
  to close it: the one that replaced it. Each handler that is gone has had its entry replaced or removed.
- `CapabilityServiceProofs`. While a save holds the lock its prepared states differ from the published ones at its
  capability only, and memory agrees with the database everywhere else, so publishing restores agreement.
- `ConversationGraphProofs`. A running graph is read by the holder of its thread's lock or was abandoned by a cancelled
  turn; so, where no graph began beside an abandoned one, one graph runs at a time, the messages it works on are the
  thread's history, and what it saves extends it. `used` holds at most the turn's snapshot.
- `ConversationGraphTurnProofs`, for `CompletedTurnIsWhole` and `CameraIsRequestedOnce`. A turn and its graph are in
  phases that fit (`Phases`); a turn whose graph has not begun has no message in its thread; the messages of one that
  runs are its own from its question on, unfinished, and the last one is what the graph's next step continues; the turn
  is to capture if and only if its messages hold a camera's result, and it requests as many pictures as its phase says.
- `ClientRepositoryProofs`. What a request has read under a lock stays true while it holds the lock: the key it locked is
  not revoked (`KeyInv`), the client it locked exists or does not (`ClientInv`), and the keys `rotate()` found are the
  client's current ones (`FoundInv`), because whoever changes a key of a client holds that client's row or the key's.
  `OthersKeep` states this for the requests that do not move, `OneMoves` puts it together with the one that does. Keys
  generated by overlapping requests differ (`NewKeysDiffer`), so a commit adds the one key it takes away.
- `ChatConsoleProofs`. None of the console's properties is inductive, since each depends on what is under way. The
  invariant says, of the socket the console uses, that the events under way to it are, in their order, about the message
  it waits for: a start first and an end last, or a refusal alone, before the start (`TellsBefore`); no second start and
  at most one end after it (`TellsAfter`). A `message.create` under way, or a turn of the handler, is the current
  message's, and then no end is (`CreationIsCurrent`, `TurnIsCurrent`); when neither is there, an end is
  (`CurrentIsUnderWay`). This holds across sockets because a message is with one handler at a time, has no outcome until
  that handler ends it (`Open`), and a new number is new everywhere (`NumbersAreUsed`): what an abandoned socket's handler
  still does concerns no message of the current one. A Stop that comes too late is answered after the end of its response
  (`LateIsLate`), so the console, which ignores what is not about its active response, never takes it for a newer one's.
  Ends under way agree with `outcome` (`EndsAreTrue`), which makes the workflow view true; a running node that is shown,
  or is still to be, ends in what is under way before the completion does (`NodesAreShown`).

Only model-checked: the liveness properties `CallsReturn`, `BusyEnds`, `ReplacedConnectionEnds`, `SavesAreAnswered`,
`TurnsEnd`, `RequestsEnd` and `WaitsEnd`, which are out of TLAPS's reach. Every other property of a passing run is stated
by a theorem.

## 5. Not modelled

Text (normalisation, prompts, Markdown), workflow payload redaction and truncation, token usage, validation of single
frames and settings, HTTP headers, logging, layout: data that no property tells apart. Provider calls are steps that
return or fail. Growth of `_thread_locks` and of the in-memory history is unbounded in the code, and a bounded model
has nothing to say about it.

- Image upload: one request writes one file under a random name, another reads it; nothing is shared or ordered. In the
  console, Enter sends while an upload runs (only the button is disabled, `app.js:421`), and the image goes with the
  next message.
- The reply to a failed camera capture and `ping`: the robot's program, which would have to cope with the interleaving
  of that reply with a generation, is not in the repository.
- Opening and closing of resources (`main.py`): one task before the first and after the last request. The shutdown loop
  (`main.py:219`) leaves the rest open when one `aclose()` raises, as its text plainly says.
- Login, session cookie and CSRF token: comparisons of one request with signed values.
- The administrator's page: it shows the last answer of each request, also when answers overtake each other
  (`App.vue:129`); the requests' effects are in `ClientRepository` and `CapabilityService`.
- The translator's matching of run ids and the view's list of nodes: dictionaries of one task. `ChatConsole` has their
  effect for one node per response.

## 6. Plan

Done, each with its proofs: session, presence, capabilities, graph, client repository, console.

What would come next: the robot's side of the connection once its program is available.
