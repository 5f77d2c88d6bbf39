-------------------------- MODULE ConversationGraph -------------------------
(***************************************************************************)
(* The turns of the conversations: ConversationRuntime.stream (application *)
(* /conversation.py) around the LangGraph conversation graph (agent/       *)
(* graph.py).  A turn takes one snapshot of the tools, analyses its images,*)
(* waits for the lock of its thread, and runs the graph: the model node    *)
(* and the tools node in turn until the model answers or the camera is     *)
(* asked for.                                                              *)
(*                                                                         *)
(* A turn and its graph are two tasks: LangChain runs the graph in a task  *)
(* of its own, and the turn reads the events it produces.  The graph loads *)
(* the thread's history when it begins and works on its own copy; the      *)
(* checkpointer keeps what the last step of any graph of the thread saved. *)
(*                                                                         *)
(* The turn may fail or be cancelled at each await.  Which of its events   *)
(* reach the client is ConversationSession's part.                         *)
(***************************************************************************)
EXTENDS Naturals, Sequences, FiniteSets

CONSTANTS
  Threads,    \* conversation ids
  Turns,      \* turns, each run once
  ThreadOf,   \* the thread of each turn
  Snapshots,  \* tool snapshots the capability service may publish
  Camera,     \* the camera_capture tool
  Batches,    \* the lists of tools a model message may call
  None,
  MaxRounds   \* bound: model messages with tool calls per turn (LangGraph's is 25 steps)

ASSUME ConstantsAssumption ==
  /\ ThreadOf \in [Turns -> Threads]
  /\ \A b \in Batches : Len(b) > 0
  /\ None \notin Turns /\ None \notin Snapshots
  /\ MaxRounds \in Nat

VARIABLES
  catalogue,  \* what the capability service publishes now
  turn,       \* where each turn is
  graph,      \* the step each turn's graph is in
  snapshot,   \* runtime_tools in the turn's configuration
  used,       \* the snapshots its model and tools steps have used
  rounds,     \* model messages with tool calls so far
  capture,    \* camera_action: a camera result was seen
  requests,   \* action.request events yielded
  lock,       \* holder of each thread's lock
  memory,     \* the messages each graph works on
  history,    \* the messages of each thread in the checkpointer
  overlapped  \* threads in which a graph began beside an abandoned one (for the properties)

settings == <<catalogue, snapshot>>
progress == <<used, rounds, capture>>
messages == <<memory, history>>
vars == <<settings, turn, graph, progress, requests, lock, messages, overlapped>>

Steps == {"model", "tools"}
Locked == {"reading", "unwinding"}
Pending == {"analyzing", "waiting", "finishing", "requesting"} \union Locked
Over == {"completed", "failed", "cancelled"}

\* The results of one tools step are one entry: they are saved together.
Human(t) == [turn |-> t, kind |-> "human", batch |-> <<>>]
Answer(t) == [turn |-> t, kind |-> "answer", batch |-> <<>>]
Calls(t, b) == [turn |-> t, kind |-> "calls", batch |-> b]
Results(t, b) == [turn |-> t, kind |-> "results", batch |-> b]

LastOf(s) == s[Len(s)]

\* Mutant: only the last tool of a batch is looked at.
SeesLastOnly(b) == LastOf(b) = Camera

\* The turn sees a camera result among those of a batch.
SeesCamera(b) == \E i \in 1..Len(b) : b[i] = Camera

Init ==
  /\ catalogue \in Snapshots
  /\ turn = [t \in Turns |-> "unsent"]
  /\ graph = [t \in Turns |-> "none"]
  /\ snapshot = [t \in Turns |-> None]
  /\ used = [t \in Turns |-> {}]
  /\ rounds = [t \in Turns |-> 0]
  /\ capture = [t \in Turns |-> FALSE]
  /\ requests = [t \in Turns |-> 0]
  /\ lock = [x \in Threads |-> None]
  /\ memory = [t \in Turns |-> <<>>]
  /\ history = [x \in Threads |-> <<>>]
  /\ overlapped = {}

\* The capability service publishes; running turns keep what they have.
Publish ==
  /\ \E s \in Snapshots \ {catalogue} : catalogue' = s
  /\ UNCHANGED <<snapshot, turn, graph, progress, requests, lock, messages, overlapped>>

-----------------------------------------------------------------------------
(* The turn                                                                *)

\* stream() up to its first await: with images it goes to the vision model.
Begin(t) ==
  /\ turn[t] = "unsent"
  /\ snapshot' = [snapshot EXCEPT ![t] = catalogue]
  /\ \E next \in {"analyzing", "waiting"} : turn' = [turn EXCEPT ![t] = next]
  /\ UNCHANGED <<catalogue, graph, progress, requests, lock, messages, overlapped>>

ImagesAnalyzed(t) ==
  /\ turn[t] = "analyzing"
  /\ turn' = [turn EXCEPT ![t] = "waiting"]
  /\ UNCHANGED <<settings, graph, progress, requests, lock, messages, overlapped>>

\* No analyser is configured, or the download or the vision model fails.
VisionFails(t) ==
  /\ turn[t] = "analyzing"
  /\ turn' = [turn EXCEPT ![t] = "failed"]
  /\ UNCHANGED <<settings, graph, progress, requests, lock, messages, overlapped>>

\* The graph of t saves message m with all it has.
Saves(t, m) ==
  /\ memory' = [memory EXCEPT ![t] = Append(@, m)]
  /\ history' = [history EXCEPT ![ThreadOf[t]] = Append(memory[t], m)]

\* The graph of t loads the thread's history, and saves its input.
Loads(t) ==
  /\ memory' = [memory EXCEPT ![t] = Append(history[ThreadOf[t]], Human(t))]
  /\ history' = [history EXCEPT ![ThreadOf[t]] = Append(@, Human(t))]

Abandoned(x) ==
  \E t \in Turns : ThreadOf[t] = x /\ turn[t] = "cancelled" /\ graph[t] \in Steps

\* The turn takes the lock, and its graph begins with the model.
GraphBegins(t) ==
  /\ lock' = [lock EXCEPT ![ThreadOf[t]] = t]
  /\ turn' = [turn EXCEPT ![t] = "reading"]
  /\ graph' = [graph EXCEPT ![t] = "model"]
  /\ used' = [used EXCEPT ![t] = @ \union {snapshot[t]}]
  /\ Loads(t)
  /\ overlapped' = IF Abandoned(ThreadOf[t]) THEN overlapped \union {ThreadOf[t]} ELSE overlapped
  /\ UNCHANGED <<settings, rounds, capture, requests>>

\* Mutant: the turn does not wait for the lock of its thread.
EntersAtOnce(t) ==
  /\ turn[t] = "waiting"
  /\ GraphBegins(t)

\* async with self._thread_locks.lock_for(thread_id)
EnterGraph(t) ==
  /\ turn[t] = "waiting" /\ lock[ThreadOf[t]] = None
  /\ GraphBegins(t)

\* The turn is out of the graph and leaves its lock.
Leaves(t, next) ==
  /\ turn' = [turn EXCEPT ![t] = next]
  /\ lock' = [lock EXCEPT ![ThreadOf[t]] = None]

\* The turn has read all events of a graph that ended.
StreamEnds(t) ==
  /\ turn[t] = "reading" /\ graph[t] = "ended"
  /\ Leaves(t, "finishing")
  /\ UNCHANGED <<settings, graph, progress, requests, messages, overlapped>>

\* Mutant: a turn that fails does not release its thread's lock.
RaisesHoldingLock(t) ==
  /\ turn[t] = "reading" /\ graph[t] = "failed"
  /\ turn' = [turn EXCEPT ![t] = "failed"]
  /\ UNCHANGED <<settings, graph, progress, requests, lock, messages, overlapped>>

\* It has read the events of a graph that failed, and its exception.
StreamRaises(t) ==
  /\ turn[t] = "reading" /\ graph[t] = "failed"
  /\ Leaves(t, "failed")
  /\ UNCHANGED <<settings, graph, progress, requests, messages, overlapped>>

\* action.request, if a camera result was seen.
RequestsCamera(t) ==
  /\ turn[t] = "finishing" /\ capture[t]
  /\ requests' = [requests EXCEPT ![t] = @ + 1]
  /\ turn' = [turn EXCEPT ![t] = "requesting"]
  /\ UNCHANGED <<settings, graph, progress, lock, messages, overlapped>>

\* response.completed
Completes(t) ==
  /\ turn[t] = "requesting" \/ (turn[t] = "finishing" /\ ~ capture[t])
  /\ turn' = [turn EXCEPT ![t] = "completed"]
  /\ UNCHANGED <<settings, graph, progress, requests, lock, messages, overlapped>>

-----------------------------------------------------------------------------
(* The graph                                                               *)

ModelAnswers(t) ==
  /\ graph[t] = "model"
  /\ Saves(t, Answer(t))
  /\ graph' = [graph EXCEPT ![t] = "ended"]
  /\ UNCHANGED <<settings, turn, progress, requests, lock, overlapped>>

ModelCalls(t) ==
  /\ graph[t] = "model" /\ rounds[t] < MaxRounds
  /\ \E b \in Batches : Saves(t, Calls(t, b))
  /\ rounds' = [rounds EXCEPT ![t] = @ + 1]
  /\ graph' = [graph EXCEPT ![t] = "tools"]
  /\ UNCHANGED <<settings, turn, used, capture, requests, lock, overlapped>>

\* The calls of the model message the tools step was entered with.
Batch(t) == LastOf(memory[t]).batch

\* Mutants of ToolsReturn: the tools are taken from the catalogue of the moment;
\* the model is called again after a camera result.
ToolsOfTheMoment(t) ==
  /\ graph[t] = "tools"
  /\ Saves(t, Results(t, Batch(t)))
  /\ used' = [used EXCEPT ![t] = @ \union {catalogue}]
  /\ capture' = [capture EXCEPT ![t] = IF SeesCamera(Batch(t)) THEN TRUE ELSE @]
  /\ graph' = [graph EXCEPT ![t] = IF LastOf(Batch(t)) = Camera THEN "ended" ELSE "model"]
  /\ UNCHANGED <<settings, turn, rounds, requests, lock, overlapped>>
ToolsAlwaysContinue(t) ==
  /\ graph[t] = "tools"
  /\ Saves(t, Results(t, Batch(t)))
  /\ used' = [used EXCEPT ![t] = @ \union {snapshot[t]}]
  /\ capture' = [capture EXCEPT ![t] = IF SeesCamera(Batch(t)) THEN TRUE ELSE @]
  /\ graph' = [graph EXCEPT ![t] = "model"]
  /\ UNCHANGED <<settings, turn, rounds, requests, lock, overlapped>>

\* The results of a batch are saved together; route_after_tools looks at the
\* last of them only.
ToolsReturn(t) ==
  /\ graph[t] = "tools"
  /\ Saves(t, Results(t, Batch(t)))
  /\ used' = [used EXCEPT ![t] = @ \union {snapshot[t]}]
  /\ capture' = [capture EXCEPT ![t] = IF SeesCamera(Batch(t)) THEN TRUE ELSE @]
  /\ graph' = [graph EXCEPT ![t] = IF LastOf(Batch(t)) = Camera THEN "ended" ELSE "model"]
  /\ UNCHANGED <<settings, turn, rounds, requests, lock, overlapped>>

\* The model or a tool raises, or LangGraph's limit of steps is reached.
GraphFails(t) ==
  /\ graph[t] \in Steps
  /\ graph' = [graph EXCEPT ![t] = "failed"]
  /\ UNCHANGED <<settings, turn, progress, requests, lock, messages, overlapped>>

-----------------------------------------------------------------------------
(* Cancellation                                                            *)

\* Outside the graph the turn ends at once.
CancelledOutside(t) ==
  /\ turn[t] \in {"analyzing", "waiting", "finishing", "requesting"}
  /\ turn' = [turn EXCEPT ![t] = "cancelled"]
  /\ UNCHANGED <<settings, graph, progress, requests, lock, messages, overlapped>>

\* While the turn waits for an event of the graph, the CancelledError goes
\* through LangChain's generator, which stops the graph and waits for its end
\* before the lock is left.
CancelledInGraph(t) ==
  /\ turn[t] = "reading"
  /\ turn' = [turn EXCEPT ![t] = "unwinding"]
  /\ UNCHANGED <<settings, graph, progress, requests, lock, messages, overlapped>>

Stopped(t) == [graph EXCEPT ![t] = IF @ \in Steps THEN "stopped" ELSE @]

StreamIsClosed(t) ==
  /\ turn[t] = "unwinding"
  /\ Leaves(t, "cancelled")
  /\ graph' = Stopped(t)
  /\ UNCHANGED <<settings, progress, requests, messages, overlapped>>

\* While an event of the turn is being sent, the turn is suspended at a yield:
\* a cancellation, or a send that fails, closes the generators from outside.
\* astream_events leaves its lock without closing LangChain's generator, which
\* is only finalised by the event loop, later (GraphIsStopped).
ClosedAtYield(t) ==
  /\ turn[t] = "reading"
  /\ Leaves(t, "cancelled")
  /\ UNCHANGED <<settings, graph, progress, requests, messages, overlapped>>

GraphIsStopped(t) ==
  /\ turn[t] = "cancelled" /\ graph[t] \in Steps
  /\ graph' = Stopped(t)
  /\ UNCHANGED <<settings, turn, progress, requests, lock, messages, overlapped>>

-----------------------------------------------------------------------------
Cancel(t) == CancelledOutside(t) \/ CancelledInGraph(t) \/ ClosedAtYield(t)

TurnStep(t) ==
  \/ ImagesAnalyzed(t) \/ VisionFails(t) \/ EnterGraph(t) \/ StreamEnds(t)
  \/ StreamRaises(t) \/ RequestsCamera(t) \/ Completes(t) \/ StreamIsClosed(t)

GraphStep(t) ==
  \/ ModelAnswers(t) \/ ModelCalls(t) \/ ToolsReturn(t) \/ GraphFails(t) \/ GraphIsStopped(t)

\* Every turn was run: the model is at its bound.
AllTurnsRun ==
  /\ \A t \in Turns : turn[t] \in Over /\ graph[t] \notin Steps
  /\ UNCHANGED vars

Next ==
  \/ Publish
  \/ \E t \in Turns : Begin(t) \/ TurnStep(t) \/ GraphStep(t) \/ Cancel(t)
  \/ AllTurnsRun

\* Providers answer, raise or time out; the event loop resumes what can go on.
Fairness == \A t \in Turns : WF_vars(TurnStep(t)) /\ WF_vars(GraphStep(t))

Spec == Init /\ [][Next]_vars /\ Fairness

-----------------------------------------------------------------------------
(* Properties                                                              *)

Messages == [turn : Turns, kind : {"human", "answer"}, batch : {<<>>}]
              \union [turn : Turns, kind : {"calls", "results"}, batch : Batches]

TypeOK ==
  /\ catalogue \in Snapshots
  /\ turn \in [Turns -> {"unsent"} \union Pending \union Over]
  /\ graph \in [Turns -> {"none", "ended", "failed", "stopped"} \union Steps]
  /\ snapshot \in [Turns -> Snapshots \union {None}]
  /\ used \in [Turns -> SUBSET Snapshots]
  /\ rounds \in [Turns -> 0..MaxRounds]
  /\ capture \in [Turns -> BOOLEAN]
  /\ requests \in [Turns -> Nat]
  /\ lock \in [Threads -> Turns \union {None}]
  /\ memory \in [Turns -> Seq(Messages)]
  /\ history \in [Threads -> Seq(Messages)]
  /\ overlapped \subseteq Threads
  \* A turn holds the lock of its thread exactly while it reads its graph.
  /\ \A t \in Turns : turn[t] \in Locked <=> lock[ThreadOf[t]] = t

\* No message of a thread is ever lost, whichever of its turns, of several
\* connections, save steps, fail or are cancelled - as long as no graph began
\* beside one that a cancelled turn of the thread had abandoned.
HistoryIsKept ==
  [][\A x \in Threads \ overlapped' :
       \/ history'[x] = history[x]
       \/ \E m \in Messages : history'[x] = Append(history[x], m)]_vars

\* A turn binds, and executes, the tools of one snapshot only, although
\* administrators save capabilities while it runs.
OneSnapshotPerTurn == \A t \in Turns : Cardinality(used[t]) <= 1

\* The messages of turn t in h are those from its input, the n-th, on.
OwnFrom(h, t, n) ==
  /\ n \in 1..Len(h) /\ h[n] = Human(t)
  /\ \A i \in 1..Len(h) : h[i].turn = t <=> i >= n

AnsweredAt(h, i) == i < Len(h) /\ h[i + 1] = Results(h[i].turn, h[i].batch)
EndsTurn(m) == m.kind = "answer" \/ (m.kind = "results" /\ LastOf(m.batch) = Camera)

\* The messages of a completed turn are whole: every call has its results, and
\* they end in an answer, or in the first results whose last one is the camera's.
CompletedTurnIsWhole ==
  \A t \in Turns : turn[t] = "completed" =>
    \E n \in 1..Len(memory[t]) :
      /\ OwnFrom(memory[t], t, n)
      /\ \A i \in n..Len(memory[t]) :
           /\ memory[t][i].kind = "calls" => AnsweredAt(memory[t], i)
           /\ i = Len(memory[t]) <=> EndsTurn(memory[t][i])

\* Message m of turn t has a camera's result among its results.
HasPicture(m, t) ==
  m.turn = t /\ m.kind = "results" /\ \E j \in 1..Len(m.batch) : m.batch[j] = Camera
CameraCalled(h, t) == \E i \in 1..Len(h) : HasPicture(h[i], t)

\* The device is asked for a picture by no turn that did not call the camera, by
\* none twice, and by every completed turn that called it, in whichever round,
\* and whatever it called besides.
CameraIsRequestedOnce ==
  \A t \in Turns :
    /\ requests[t] <= IF CameraCalled(memory[t], t) THEN 1 ELSE 0
    /\ turn[t] = "completed" /\ CameraCalled(memory[t], t) => requests[t] = 1

\* A turn that was begun ends, whatever became of the turns before it.
TurnsEnd == \A t \in Turns : turn[t] \in Pending ~> turn[t] \in Over

\* agent/graph.py:28, "serialize access to a compiled in-memory conversation
\* graph": one graph runs in a thread at a time.
AccessIsSerialized ==
  \A t, u \in Turns : ThreadOf[t] = ThreadOf[u] /\ graph[t] \in Steps /\ graph[u] \in Steps => t = u

\* The specification of 2026-07-16 (:154-155): after a cancellation the next turn
\* does not contain an incomplete reply.  So the calls of a cancelled turn have
\* their results in whatever a model of a later turn is given.
ModelSeesNoCutCalls ==
  \A t \in Turns : graph[t] = "model" =>
    \A i \in 1..Len(memory[t]) :
      memory[t][i].kind = "calls" /\ turn[memory[t][i].turn] = "cancelled" => AnsweredAt(memory[t], i)
=============================================================================
