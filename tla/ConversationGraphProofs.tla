----------------------- MODULE ConversationGraphProofs ----------------------
(***************************************************************************)
(* ConversationGraph for any threads, turns, snapshots and rounds: a turn  *)
(* holds its thread's lock while it reads its graph, no message of a       *)
(* history is lost unless a graph began beside an abandoned one, and a     *)
(* turn uses the tools of one snapshot.                                    *)
(***************************************************************************)
EXTENDS ConversationGraph, FiniteSetTheorems, TLAPS

\* s ends in a message with tool calls.
CallsLast(s) == Len(s) > 0 /\ LastOf(s).kind = "calls"

\* A graph that is running is read by its turn, or was abandoned by it.
InGraph == \A t \in Turns : graph[t] \in Steps => turn[t] \in Locked \union {"cancelled"}

\* Unless a graph began beside an abandoned one, a thread's graphs run one at a
\* time, and the one that runs has the whole history.
OneAtATime ==
  \A t, u \in Turns :
    ThreadOf[t] = ThreadOf[u] /\ ThreadOf[t] \notin overlapped /\ graph[t] \in Steps /\ graph[u] \in Steps
      => t = u
WholeHistory ==
  \A t \in Turns : graph[t] \in Steps /\ ThreadOf[t] \notin overlapped => memory[t] = history[ThreadOf[t]]

\* The tools step is entered with a message of calls.
ToolsHaveCalls == \A t \in Turns : graph[t] = "tools" => CallsLast(memory[t])

OwnSnapshot ==
  \A t \in Turns :
    /\ used[t] \subseteq {snapshot[t]}
    /\ turn[t] = "unsent" => used[t] = {}
    /\ turn[t] # "unsent" => snapshot[t] \in Snapshots

GraphInv == InGraph /\ OneAtATime /\ WholeHistory /\ ToolsHaveCalls
IInv == TypeOK /\ GraphInv /\ OwnSnapshot

\* What HistoryIsKept says of a step.
Kept ==
  \A x \in Threads \ overlapped' :
    \/ history'[x] = history[x]
    \/ \E m \in Messages : history'[x] = Append(history[x], m)

-----------------------------------------------------------------------------
\* A save leaves the memories and histories of other turns and threads alone.
LEMMA SavesOne ==
  ASSUME TypeOK, NEW t \in Turns, NEW m \in Messages, Saves(t, m)
  PROVE  /\ memory' \in [Turns -> Seq(Messages)] /\ history' \in [Threads -> Seq(Messages)]
         /\ memory'[t] = Append(memory[t], m) /\ history'[ThreadOf[t]] = Append(memory[t], m)
         /\ \A u \in Turns \ {t} : memory'[u] = memory[u]
         /\ \A x \in Threads \ {ThreadOf[t]} : history'[x] = history[x]
         /\ LastOf(memory'[t]) = m /\ Len(memory'[t]) > 0
  <1>1. memory[t] \in Seq(Messages) /\ ThreadOf[t] \in Threads
    BY ConstantsAssumption DEF TypeOK
  <1>2. Append(memory[t], m) \in Seq(Messages)
    BY <1>1
  <1>3. /\ memory' \in [Turns -> Seq(Messages)] /\ history' \in [Threads -> Seq(Messages)]
        /\ memory'[t] = Append(memory[t], m) /\ history'[ThreadOf[t]] = Append(memory[t], m)
        /\ \A u \in Turns \ {t} : memory'[u] = memory[u]
        /\ \A x \in Threads \ {ThreadOf[t]} : history'[x] = history[x]
    BY <1>1, <1>2 DEF TypeOK, Saves
  <1>4. LastOf(Append(memory[t], m)) = m /\ Len(Append(memory[t], m)) > 0
    BY <1>1 DEF LastOf
  <1> QED BY <1>3, <1>4

\* The same of a load.
LEMMA LoadsOne ==
  ASSUME TypeOK, NEW t \in Turns, Loads(t)
  PROVE  /\ memory' \in [Turns -> Seq(Messages)] /\ history' \in [Threads -> Seq(Messages)]
         /\ history'[ThreadOf[t]] = Append(history[ThreadOf[t]], Human(t))
         /\ memory'[t] = history'[ThreadOf[t]]
         /\ \A u \in Turns \ {t} : memory'[u] = memory[u]
         /\ \A x \in Threads \ {ThreadOf[t]} : history'[x] = history[x]
         /\ Human(t) \in Messages
  <1>1. history[ThreadOf[t]] \in Seq(Messages) /\ ThreadOf[t] \in Threads
    BY ConstantsAssumption DEF TypeOK
  <1>2. Human(t) \in Messages
    BY DEF Human, Messages
  <1>3. Append(history[ThreadOf[t]], Human(t)) \in Seq(Messages)
    BY <1>1, <1>2
  <1> QED BY <1>1, <1>2, <1>3 DEF TypeOK, Loads

\* A step of a running graph: it saves one message.
LEMMA SaveStep ==
  ASSUME IInv, NEW t \in Turns, graph[t] \in Steps, NEW m \in Messages, Saves(t, m),
         NEW g, graph' = [graph EXCEPT ![t] = g], g = "tools" => m.kind = "calls",
         turn' = turn, overlapped' = overlapped
  PROVE  GraphInv' /\ Kept
  <1> DEFINE x == ThreadOf[t]
  <1>1. x \in Threads /\ graph \in [Turns -> {"none", "ended", "failed", "stopped"} \union Steps]
    BY ConstantsAssumption DEF IInv, TypeOK
  <1>2. /\ memory'[t] = Append(memory[t], m) /\ history'[x] = Append(memory[t], m)
        /\ \A u \in Turns \ {t} : memory'[u] = memory[u]
        /\ \A y \in Threads \ {x} : history'[y] = history[y]
        /\ LastOf(memory'[t]) = m /\ Len(memory'[t]) > 0
    BY SavesOne DEF IInv
  <1>3. graph'[t] = g /\ \A u \in Turns \ {t} : graph'[u] = graph[u]
    BY <1>1
  <1>4. InGraph'
    BY <1>3 DEF IInv, GraphInv, InGraph
  <1>5. OneAtATime'
    BY <1>3 DEF IInv, GraphInv, OneAtATime
  <1>6. WholeHistory'
    <2> SUFFICES ASSUME NEW u \in Turns, graph'[u] \in Steps, ThreadOf[u] \notin overlapped
                 PROVE  memory'[u] = history'[ThreadOf[u]]
      BY DEF WholeHistory
    <2>1. CASE u = t
      BY <1>2, <2>1
    <2>2. CASE u # t
      <3>1. graph[u] \in Steps /\ ThreadOf[u] # x
        BY <1>3, <2>2 DEF IInv, GraphInv, OneAtATime
      <3>2. ThreadOf[u] \in Threads
        BY ConstantsAssumption
      <3> QED BY <1>2, <2>2, <3>1, <3>2 DEF IInv, GraphInv, WholeHistory
    <2> QED BY <2>1, <2>2
  <1>7. ToolsHaveCalls'
    <2> SUFFICES ASSUME NEW u \in Turns, graph'[u] = "tools"
                 PROVE  CallsLast(memory'[u])
      BY DEF ToolsHaveCalls
    <2>1. CASE u = t
      BY <1>2, <1>3, <2>1 DEF CallsLast
    <2>2. CASE u # t
      BY <1>2, <1>3, <2>2 DEF IInv, GraphInv, ToolsHaveCalls
    <2> QED BY <2>1, <2>2
  <1>8. x \notin overlapped => memory[t] = history[x]
    BY DEF IInv, GraphInv, WholeHistory
  <1>9. Kept
    BY <1>2, <1>8 DEF Kept
  <1> QED BY <1>4, <1>5, <1>6, <1>7, <1>9 DEF GraphInv

\* A step that saves nothing, and starts no step of a graph.
LEMMA QuietStep ==
  ASSUME IInv, UNCHANGED <<messages, overlapped>>,
         \A t \in Turns : graph'[t] \in Steps =>
           graph'[t] = graph[t] /\ turn'[t] \in Locked \union {"cancelled"}
  PROVE  GraphInv' /\ Kept
  <1> USE DEF IInv, GraphInv, messages
  <1>1. InGraph'
    BY DEF InGraph
  <1>2. OneAtATime'
    BY DEF OneAtATime
  <1>3. WholeHistory'
    BY DEF WholeHistory
  <1>4. ToolsHaveCalls'
    BY DEF ToolsHaveCalls, Steps
  <1> QED BY <1>1, <1>2, <1>3, <1>4 DEF Kept

-----------------------------------------------------------------------------
\* The program starts in a state of the invariant.
LEMMA InitIInv == Init => IInv
  <1> SUFFICES ASSUME Init PROVE IInv
    OBVIOUS
  <1> USE ConstantsAssumption DEF Init
  <1>1. TypeOK
    BY DEF TypeOK, Pending, Steps, Locked, Over
  <1>2. GraphInv
    BY DEF GraphInv, InGraph, OneAtATime, WholeHistory, ToolsHaveCalls, Steps
  <1>3. OwnSnapshot
    BY DEF OwnSnapshot
  <1> QED BY <1>1, <1>2, <1>3 DEF IInv

\* The steps of a turn that touch neither the lock nor the graph.
LEMMA OutsideKeepsIInv ==
  ASSUME IInv, NEW t \in Turns,
         \/ Begin(t) \/ ImagesAnalyzed(t) \/ VisionFails(t) \/ RequestsCamera(t) \/ Completes(t)
         \/ CancelledOutside(t)
  PROVE  IInv' /\ Kept
  <1> USE ConstantsAssumption DEF settings, progress
  <1>1. CASE Begin(t)
    <2>1. TypeOK'
      BY <1>1 DEF Begin, messages, IInv, TypeOK, Pending, Locked, Over
    <2>2. GraphInv' /\ Kept
      BY <1>1, QuietStep DEF Begin, IInv, TypeOK, GraphInv, InGraph, Locked
    <2>3. OwnSnapshot'
      BY <1>1 DEF Begin, IInv, TypeOK, OwnSnapshot
    <2> QED BY <2>1, <2>2, <2>3 DEF IInv
  <1>2. CASE ImagesAnalyzed(t)
    <2>1. TypeOK'
      BY <1>2 DEF ImagesAnalyzed, messages, IInv, TypeOK, Pending, Locked, Over
    <2>2. GraphInv' /\ Kept
      BY <1>2, QuietStep DEF ImagesAnalyzed, IInv, TypeOK, GraphInv, InGraph, Locked
    <2>3. OwnSnapshot'
      BY <1>2 DEF ImagesAnalyzed, IInv, TypeOK, OwnSnapshot
    <2> QED BY <2>1, <2>2, <2>3 DEF IInv
  <1>3. CASE VisionFails(t)
    <2>1. TypeOK'
      BY <1>3 DEF VisionFails, messages, IInv, TypeOK, Pending, Locked, Over
    <2>2. GraphInv' /\ Kept
      BY <1>3, QuietStep DEF VisionFails, IInv, TypeOK, GraphInv, InGraph, Locked
    <2>3. OwnSnapshot'
      BY <1>3 DEF VisionFails, IInv, TypeOK, OwnSnapshot
    <2> QED BY <2>1, <2>2, <2>3 DEF IInv
  <1>4. CASE Completes(t)
    <2>1. TypeOK'
      BY <1>4 DEF Completes, messages, IInv, TypeOK, Pending, Locked, Over
    <2>2. GraphInv' /\ Kept
      BY <1>4, QuietStep DEF Completes, IInv, TypeOK, GraphInv, InGraph, Locked
    <2>3. OwnSnapshot'
      BY <1>4 DEF Completes, IInv, TypeOK, OwnSnapshot
    <2> QED BY <2>1, <2>2, <2>3 DEF IInv
  <1>5. CASE CancelledOutside(t)
    <2>1. TypeOK'
      BY <1>5 DEF CancelledOutside, messages, IInv, TypeOK, Pending, Locked, Over
    <2>2. GraphInv' /\ Kept
      BY <1>5, QuietStep DEF CancelledOutside, IInv, TypeOK, GraphInv, InGraph, Locked
    <2>3. OwnSnapshot'
      BY <1>5 DEF CancelledOutside, IInv, TypeOK, OwnSnapshot
    <2> QED BY <2>1, <2>2, <2>3 DEF IInv
  <1>6. CASE RequestsCamera(t)
    <2>1. TypeOK'
      BY <1>6 DEF RequestsCamera, messages, IInv, TypeOK, Pending, Locked, Over
    <2>2. GraphInv' /\ Kept
      BY <1>6, QuietStep DEF RequestsCamera, IInv, TypeOK, GraphInv, InGraph, Locked
    <2>3. OwnSnapshot'
      BY <1>6 DEF RequestsCamera, IInv, TypeOK, OwnSnapshot
    <2> QED BY <2>1, <2>2, <2>3 DEF IInv
  <1> QED BY <1>1, <1>2, <1>3, <1>4, <1>5, <1>6

\* The steps in which a turn leaves its graph, or a graph ends without a message.
LEMMA LeavingKeepsIInv ==
  ASSUME IInv, NEW t \in Turns,
         \/ StreamEnds(t) \/ StreamRaises(t) \/ CancelledInGraph(t) \/ StreamIsClosed(t)
         \/ ClosedAtYield(t) \/ GraphIsStopped(t) \/ GraphFails(t)
  PROVE  IInv' /\ Kept
  <1> USE ConstantsAssumption DEF settings, progress, Leaves, Stopped
  <1>1. CASE StreamEnds(t)
    <2>1. TypeOK'
      BY <1>1 DEF StreamEnds, messages, IInv, TypeOK, Pending, Locked, Over
    <2>2. GraphInv' /\ Kept
      BY <1>1, QuietStep DEF StreamEnds, IInv, TypeOK, GraphInv, InGraph, Steps
    <2>3. OwnSnapshot'
      BY <1>1 DEF StreamEnds, IInv, TypeOK, OwnSnapshot
    <2> QED BY <2>1, <2>2, <2>3 DEF IInv
  <1>2. CASE StreamRaises(t)
    <2>1. TypeOK'
      BY <1>2 DEF StreamRaises, messages, IInv, TypeOK, Pending, Locked, Over
    <2>2. GraphInv' /\ Kept
      BY <1>2, QuietStep DEF StreamRaises, IInv, TypeOK, GraphInv, InGraph, Steps
    <2>3. OwnSnapshot'
      BY <1>2 DEF StreamRaises, IInv, TypeOK, OwnSnapshot
    <2> QED BY <2>1, <2>2, <2>3 DEF IInv
  <1>3. CASE CancelledInGraph(t)
    <2>1. TypeOK'
      BY <1>3 DEF CancelledInGraph, messages, IInv, TypeOK, Pending, Locked, Over
    <2>2. GraphInv' /\ Kept
      BY <1>3, QuietStep DEF CancelledInGraph, IInv, TypeOK, GraphInv, InGraph, Locked
    <2>3. OwnSnapshot'
      BY <1>3 DEF CancelledInGraph, IInv, TypeOK, OwnSnapshot
    <2> QED BY <2>1, <2>2, <2>3 DEF IInv
  <1>4. CASE StreamIsClosed(t)
    <2>1. TypeOK'
      BY <1>4 DEF StreamIsClosed, messages, IInv, TypeOK, Pending, Locked, Over
    <2>2. GraphInv' /\ Kept
      BY <1>4, QuietStep DEF StreamIsClosed, IInv, TypeOK, GraphInv, InGraph, Steps
    <2>3. OwnSnapshot'
      BY <1>4 DEF StreamIsClosed, IInv, TypeOK, OwnSnapshot
    <2> QED BY <2>1, <2>2, <2>3 DEF IInv
  <1>5. CASE ClosedAtYield(t)
    <2>1. TypeOK'
      BY <1>5 DEF ClosedAtYield, messages, IInv, TypeOK, Pending, Locked, Over
    <2>2. GraphInv' /\ Kept
      BY <1>5, QuietStep DEF ClosedAtYield, IInv, TypeOK, GraphInv, InGraph
    <2>3. OwnSnapshot'
      BY <1>5 DEF ClosedAtYield, IInv, TypeOK, OwnSnapshot
    <2> QED BY <2>1, <2>2, <2>3 DEF IInv
  <1>6. CASE GraphIsStopped(t)
    <2>1. TypeOK'
      BY <1>6 DEF GraphIsStopped, messages, IInv, TypeOK, Steps
    <2>2. GraphInv' /\ Kept
      BY <1>6, QuietStep DEF GraphIsStopped, IInv, TypeOK, GraphInv, InGraph, Steps
    <2>3. OwnSnapshot'
      BY <1>6 DEF GraphIsStopped, IInv, TypeOK, OwnSnapshot
    <2> QED BY <2>1, <2>2, <2>3 DEF IInv
  <1>7. CASE GraphFails(t)
    <2>1. TypeOK'
      BY <1>7 DEF GraphFails, messages, IInv, TypeOK, Steps
    <2>2. GraphInv' /\ Kept
      BY <1>7, QuietStep DEF GraphFails, IInv, TypeOK, GraphInv, InGraph, Steps
    <2>3. OwnSnapshot'
      BY <1>7 DEF GraphFails, IInv, TypeOK, OwnSnapshot
    <2> QED BY <2>1, <2>2, <2>3 DEF IInv
  <1> QED BY <1>1, <1>2, <1>3, <1>4, <1>5, <1>6, <1>7

-----------------------------------------------------------------------------
\* A turn takes its thread's lock: its graph is the only one of the thread, or
\* the others were abandoned and the thread counts as overlapped.
LEMMA EnterKeepsIInv ==
  ASSUME IInv, NEW t \in Turns, EnterGraph(t)
  PROVE  IInv' /\ Kept
  <1> USE ConstantsAssumption DEF settings
  <1> DEFINE x == ThreadOf[t]
  <1>1. /\ x \in Threads /\ turn[t] = "waiting" /\ lock[x] = None
        /\ lock' = [lock EXCEPT ![x] = t] /\ turn' = [turn EXCEPT ![t] = "reading"]
        /\ graph' = [graph EXCEPT ![t] = "model"]
        /\ used' = [used EXCEPT ![t] = @ \union {snapshot[t]}]
        /\ overlapped \subseteq overlapped' /\ overlapped' \subseteq Threads
        /\ x \notin overlapped' => ~ Abandoned(x)
        /\ UNCHANGED <<catalogue, snapshot, rounds, capture, requests>>
    <2>1. x \in Threads /\ overlapped \subseteq Threads
      BY DEF IInv, TypeOK
    <2>2. overlapped' = IF Abandoned(x) THEN overlapped \union {x} ELSE overlapped
      BY DEF EnterGraph, GraphBegins
    <2>3. /\ overlapped \subseteq overlapped' /\ overlapped' \subseteq Threads
          /\ x \notin overlapped' => ~ Abandoned(x)
      BY <2>1, <2>2
    <2> QED BY <2>1, <2>3 DEF EnterGraph, GraphBegins
  <1>2. /\ memory' \in [Turns -> Seq(Messages)] /\ history' \in [Threads -> Seq(Messages)]
        /\ history'[x] = Append(history[x], Human(t)) /\ memory'[t] = history'[x]
        /\ \A u \in Turns \ {t} : memory'[u] = memory[u]
        /\ \A y \in Threads \ {x} : history'[y] = history[y]
        /\ Human(t) \in Messages
    BY LoadsOne DEF EnterGraph, GraphBegins, IInv
  <1>3. /\ graph'[t] = "model" /\ turn'[t] = "reading"
        /\ \A u \in Turns \ {t} : graph'[u] = graph[u] /\ turn'[u] = turn[u]
    BY <1>1 DEF IInv, TypeOK
  <1>4. TypeOK'
    <2>1. snapshot[t] \in Snapshots
      BY <1>1 DEF IInv, OwnSnapshot
    <2>2. used' \in [Turns -> SUBSET Snapshots]
      BY <1>1, <2>1 DEF IInv, TypeOK
    <2>3. \A u \in Turns : turn'[u] \in Locked <=> lock'[ThreadOf[u]] = u
      BY <1>1 DEF IInv, TypeOK, Locked
    <2> QED BY <1>1, <1>2, <2>2, <2>3 DEF IInv, TypeOK, Pending, Locked, Steps
  <1>5. InGraph'
    BY <1>3 DEF IInv, GraphInv, InGraph, Locked
  <1>6. ASSUME NEW u \in Turns \ {t}, ThreadOf[u] = x, graph[u] \in Steps PROVE x \in overlapped'
    <2>1. turn[u] \notin Locked
      BY <1>1, <1>6 DEF IInv, TypeOK
    <2>2. turn[u] = "cancelled"
      BY <1>6, <2>1 DEF IInv, GraphInv, InGraph
    <2> QED BY <1>1, <1>6, <2>2 DEF Abandoned
  <1>7. OneAtATime'
    <2> SUFFICES ASSUME NEW u \in Turns, NEW w \in Turns, ThreadOf[u] = ThreadOf[w],
                        ThreadOf[u] \notin overlapped', graph'[u] \in Steps, graph'[w] \in Steps
                 PROVE  u = w
      BY DEF OneAtATime
    <2>1. CASE u = t
      BY <1>3, <1>6, <2>1
    <2>2. CASE w = t
      BY <1>3, <1>6, <2>2
    <2>3. CASE u # t /\ w # t
      BY <1>1, <1>3, <2>3 DEF IInv, GraphInv, OneAtATime
    <2> QED BY <2>1, <2>2, <2>3
  <1>8. WholeHistory'
    <2> SUFFICES ASSUME NEW u \in Turns, graph'[u] \in Steps, ThreadOf[u] \notin overlapped'
                 PROVE  memory'[u] = history'[ThreadOf[u]]
      BY DEF WholeHistory
    <2>1. CASE u = t
      BY <1>2, <2>1
    <2>2. CASE u # t
      <3>1. graph[u] \in Steps /\ ThreadOf[u] # x /\ ThreadOf[u] \in Threads
        BY <1>3, <1>6, <2>2
      <3> QED BY <1>1, <1>2, <2>2, <3>1 DEF IInv, GraphInv, WholeHistory
    <2> QED BY <2>1, <2>2
  <1>9. ToolsHaveCalls'
    BY <1>2, <1>3 DEF IInv, GraphInv, ToolsHaveCalls
  <1>10. OwnSnapshot'
    BY <1>1 DEF IInv, TypeOK, OwnSnapshot
  <1>11. Kept
    BY <1>2 DEF Kept
  <1> QED BY <1>4, <1>5, <1>7, <1>8, <1>9, <1>10, <1>11 DEF IInv, GraphInv

\* The steps of a graph that save a message.
LEMMA SavingKeepsIInv ==
  ASSUME IInv, NEW t \in Turns, ModelAnswers(t) \/ ModelCalls(t) \/ ToolsReturn(t)
  PROVE  IInv' /\ Kept
  <1> USE ConstantsAssumption DEF settings, progress
  <1>1. CASE ModelAnswers(t)
    <2>1. Answer(t) \in Messages
      BY DEF Answer, Messages
    <2>2. memory' \in [Turns -> Seq(Messages)] /\ history' \in [Threads -> Seq(Messages)]
      BY <1>1, <2>1, SavesOne DEF ModelAnswers, IInv
    <2>3. TypeOK'
      BY <1>1, <2>2 DEF ModelAnswers, IInv, TypeOK, Steps
    <2>4. GraphInv' /\ Kept
      BY <1>1, <2>1, SaveStep DEF ModelAnswers, Steps
    <2>5. OwnSnapshot'
      BY <1>1 DEF ModelAnswers, IInv, OwnSnapshot
    <2> QED BY <2>3, <2>4, <2>5 DEF IInv
  <1>2. CASE ModelCalls(t)
    <2>1. PICK b \in Batches : Saves(t, Calls(t, b))
      BY <1>2 DEF ModelCalls
    <2>2. Calls(t, b) \in Messages /\ Calls(t, b).kind = "calls"
      BY DEF Calls, Messages
    <2>3. memory' \in [Turns -> Seq(Messages)] /\ history' \in [Threads -> Seq(Messages)]
      BY <2>1, <2>2, SavesOne DEF IInv
    <2>4. rounds' \in [Turns -> 0..MaxRounds]
      BY <1>2 DEF ModelCalls, IInv, TypeOK
    <2>5. TypeOK'
      BY <1>2, <2>3, <2>4 DEF ModelCalls, IInv, TypeOK, Steps
    <2>6. GraphInv' /\ Kept
      BY <1>2, <2>1, <2>2, SaveStep DEF ModelCalls, Steps
    <2>7. OwnSnapshot'
      BY <1>2 DEF ModelCalls, IInv, OwnSnapshot
    <2> QED BY <2>5, <2>6, <2>7 DEF IInv
  <1>3. CASE ToolsReturn(t)
    <2>1. Batch(t) \in Batches
      <3>1. CallsLast(memory[t]) /\ memory[t] \in Seq(Messages)
        BY <1>3 DEF ToolsReturn, IInv, TypeOK, GraphInv, ToolsHaveCalls
      <3>2. LastOf(memory[t]) \in Messages /\ LastOf(memory[t]).kind = "calls"
        BY <3>1 DEF CallsLast, LastOf
      <3> QED BY <3>2 DEF Batch, Messages
    <2>2. Results(t, Batch(t)) \in Messages
      BY <2>1 DEF Results, Messages
    <2>3. memory' \in [Turns -> Seq(Messages)] /\ history' \in [Threads -> Seq(Messages)]
      BY <1>3, <2>2, SavesOne DEF ToolsReturn, IInv
    <2>4. snapshot[t] \in Snapshots /\ turn[t] # "unsent"
      BY <1>3 DEF ToolsReturn, IInv, GraphInv, InGraph, OwnSnapshot, Locked, Steps
    <2>5. used' \in [Turns -> SUBSET Snapshots] /\ capture' \in [Turns -> BOOLEAN]
      BY <1>3, <2>4 DEF ToolsReturn, IInv, TypeOK
    <2> DEFINE last == LastOf(Batch(t)) = Camera
               next == IF last THEN "ended" ELSE "model"
    <2>6. graph' = [graph EXCEPT ![t] = next] /\ next \in {"ended", "model"}
      BY <1>3 DEF ToolsReturn
    <2> HIDE DEF next
    <2>7. TypeOK'
      BY <1>3, <2>3, <2>5, <2>6 DEF ToolsReturn, IInv, TypeOK, Steps
    <2>8. GraphInv' /\ Kept
      BY <1>3, <2>2, <2>6, SaveStep DEF ToolsReturn, Steps
    <2>9. OwnSnapshot'
      BY <1>3, <2>4 DEF ToolsReturn, IInv, TypeOK, OwnSnapshot
    <2> QED BY <2>7, <2>8, <2>9 DEF IInv
  <1> QED BY <1>1, <1>2, <1>3

\* Every step keeps the invariant, and the histories.
LEMMA StepIInv == IInv /\ [Next]_vars => IInv' /\ Kept
  <1> SUFFICES ASSUME IInv, [Next]_vars PROVE IInv' /\ Kept
    OBVIOUS
  <1>1. CASE Publish
    <2>1. TypeOK' /\ OwnSnapshot'
      BY <1>1 DEF Publish, progress, messages, IInv, TypeOK, OwnSnapshot
    <2>2. GraphInv' /\ Kept
      BY <1>1, QuietStep DEF Publish, IInv, GraphInv, InGraph
    <2> QED BY <2>1, <2>2 DEF IInv
  <1>2. CASE UNCHANGED vars
    <2>1. TypeOK' /\ OwnSnapshot'
      BY <1>2 DEF vars, settings, progress, messages, IInv, TypeOK, OwnSnapshot
    <2>2. GraphInv' /\ Kept
      BY <1>2, QuietStep DEF vars, IInv, GraphInv, InGraph
    <2> QED BY <2>1, <2>2 DEF IInv
  <1>3. ASSUME NEW t \in Turns, Begin(t) \/ TurnStep(t) \/ GraphStep(t) \/ Cancel(t)
        PROVE  IInv' /\ Kept
    BY <1>3, OutsideKeepsIInv, LeavingKeepsIInv, EnterKeepsIInv, SavingKeepsIInv
       DEF TurnStep, GraphStep, Cancel
  <1> QED BY <1>1, <1>2, <1>3 DEF Next, AllTurnsRun

\* Every reachable state satisfies the invariant.
THEOREM InductiveInvariant == Spec => []IInv
  <1> QED BY InitIInv, StepIInv, PTL DEF Spec

-----------------------------------------------------------------------------
\* The state keeps its types, and a turn holds its thread's lock exactly while it
\* reads its graph: no two turns of a conversation do so at once.
THEOREM TypeCorrect == Spec => []TypeOK
  <1>1. IInv => TypeOK
    BY DEF IInv
  <1> QED BY <1>1, InductiveInvariant, PTL

\* However many connections share a conversation, and however their turns end,
\* its history only grows, by one message at a time - unless a graph began beside
\* one that a turn cancelled at a yield had abandoned.
THEOREM HistoryKept == Spec => HistoryIsKept
  <1>1. IInv /\ [Next]_vars => [Kept]_vars
    BY StepIInv
  <1> QED BY <1>1, InductiveInvariant, PTL DEF Spec, HistoryIsKept, Kept

\* A turn uses the tools of one snapshot, whatever is published meanwhile.
THEOREM OneSnapshot == Spec => []OneSnapshotPerTurn
  <1>1. ASSUME IInv, NEW t \in Turns PROVE Cardinality(used[t]) <= 1
    <2>1. used[t] \subseteq {snapshot[t]}
      BY <1>1 DEF IInv, OwnSnapshot
    <2>2. IsFiniteSet({snapshot[t]}) /\ Cardinality({snapshot[t]}) = 1
      BY FS_Singleton
    <2> QED BY <2>1, <2>2, FS_Subset
  <1>2. IInv => OneSnapshotPerTurn
    BY <1>1 DEF OneSnapshotPerTurn
  <1> QED BY <1>2, InductiveInvariant, PTL
=============================================================================
