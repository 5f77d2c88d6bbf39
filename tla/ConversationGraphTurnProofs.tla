--------------------- MODULE ConversationGraphTurnProofs --------------------
(***************************************************************************)
(* ConversationGraph for any threads, turns, batches and rounds: the       *)
(* messages of a completed turn are whole, and the camera is requested     *)
(* once by a completed turn that called it.                                *)
(***************************************************************************)
EXTENDS ConversationGraphProofs

Begun(t) == graph[t] # "none"

\* With graphs g, every message of h is of a turn whose graph has begun.
BegunOnly(h, g) == \A i \in 1..Len(h) : g[h[i].turn] # "none"

\* Where a turn is and where its graph is.
Phases ==
  \A t \in Turns :
    /\ turn[t] \in {"unsent", "analyzing", "waiting"} => ~ Begun(t)
    /\ turn[t] \in {"finishing", "requesting", "completed"} => graph[t] = "ended"
    /\ turn[t] \in Locked => Begun(t)

\* A turn whose graph has not begun has no message in any history.
Stories ==
  /\ \A t \in Turns : BegunOnly(memory[t], graph)
  /\ \A x \in Threads : BegunOnly(history[x], graph)

\* Before its last message a turn has neither ended nor left calls unanswered,
\* and the last message is what the step of its graph is about.
Unfinished(h, n) ==
  \A i \in n..Len(h) - 1 : ~ EndsTurn(h[i]) /\ (h[i].kind = "calls" => AnsweredAt(h, i))
LastFits(m, step) ==
  /\ step = "model" => ~ EndsTurn(m) /\ m.kind # "calls"
  /\ step = "tools" => m.kind = "calls"
  /\ step = "ended" => EndsTurn(m)
Story(h, t, step) ==
  \E n \in 1..Len(h) : OwnFrom(h, t, n) /\ Unfinished(h, n) /\ LastFits(LastOf(h), step)
Whole == \A t \in Turns : Begun(t) => Story(memory[t], t, graph[t])

CaptureIsTrue == \A t \in Turns : capture[t] <=> CameraCalled(memory[t], t)

RequestsFit ==
  \A t \in Turns :
    /\ requests[t] \in {0, 1}
    /\ requests[t] = 1 => capture[t] /\ graph[t] = "ended"
    /\ requests[t] = 1 => turn[t] \in {"requesting", "completed", "cancelled"}
    /\ turn[t] = "requesting" => requests[t] = 1
    /\ turn[t] = "completed" /\ capture[t] => requests[t] = 1

Fits == Phases /\ RequestsFit
TurnInv == Fits /\ Stories /\ Whole /\ CaptureIsTrue

-----------------------------------------------------------------------------
\* A message of the turn that may follow the last one continues its story.
LEMMA StoryGoesOn ==
  ASSUME NEW t \in Turns, NEW h \in Seq(Messages), NEW m \in Messages, m.turn = t,
         NEW n \in 1..Len(h), OwnFrom(h, t, n), Unfinished(h, n), ~ EndsTurn(LastOf(h)),
         LastOf(h).kind = "calls" => m = Results(t, LastOf(h).batch),
         NEW step, LastFits(m, step)
  PROVE  Story(Append(h, m), t, step)
  <1> DEFINE k == Append(h, m)
  <1>1. /\ k \in Seq(Messages) /\ Len(k) = Len(h) + 1 /\ k[Len(h) + 1] = m
        /\ \A i \in 1..Len(h) : k[i] = h[i]
    OBVIOUS
  <1>2. Len(h) \in Nat /\ n \in 1..Len(k) /\ n <= Len(h) /\ n \in Nat
    BY <1>1
  <1> HIDE DEF k
  <1>3. OwnFrom(k, t, n)
    BY <1>1, <1>2 DEF OwnFrom
  <1>4. Unfinished(k, n)
    <2> SUFFICES ASSUME NEW i \in n..Len(k) - 1
                 PROVE  ~ EndsTurn(k[i]) /\ (k[i].kind = "calls" => AnsweredAt(k, i))
      BY DEF Unfinished
    <2>1. i \in 1..Len(h) /\ k[i] = h[i] /\ i < Len(k)
      BY <1>1, <1>2
    <2>2. CASE i = Len(h)
      <3>1. k[i] = LastOf(h) /\ k[i + 1] = m
        BY <1>1, <2>1, <2>2 DEF LastOf
      <3>2. k[i].turn = t
        BY <1>2, <2>1, <2>2 DEF OwnFrom
      <3> QED BY <2>1, <3>1, <3>2 DEF AnsweredAt
    <2>3. CASE i # Len(h)
      <3>1. i \in n..Len(h) - 1 /\ i + 1 \in 1..Len(h)
        BY <1>2, <2>1, <2>3
      <3>2. ~ EndsTurn(h[i]) /\ (h[i].kind = "calls" => AnsweredAt(h, i))
        BY <3>1 DEF Unfinished
      <3>3. k[i + 1] = h[i + 1]
        BY <1>1, <3>1
      <3> QED BY <2>1, <3>2, <3>3 DEF AnsweredAt
    <2> QED BY <2>2, <2>3
  <1>5. LastOf(k) = m
    BY <1>1 DEF LastOf
  <1>6. Story(k, t, step)
    BY <1>2, <1>3, <1>4, <1>5 DEF Story
  <1> QED BY <1>6 DEF k

\* A turn's input begins its story.
LEMMA StoryBegins ==
  ASSUME NEW t \in Turns, NEW h \in Seq(Messages), Human(t) \in Messages,
         \A i \in 1..Len(h) : h[i].turn # t
  PROVE  Story(Append(h, Human(t)), t, "model")
  <1> DEFINE k == Append(h, Human(t))
             n == Len(h) + 1
  <1>1. /\ k \in Seq(Messages) /\ Len(k) = Len(h) + 1 /\ k[n] = Human(t)
        /\ \A i \in 1..Len(h) : k[i] = h[i]
    OBVIOUS
  <1>2. Len(h) \in Nat
    OBVIOUS
  <1> HIDE DEF k
  <1>3. OwnFrom(k, t, n)
    <2>1. Human(t).turn = t
      BY DEF Human
    <2> QED BY <1>1, <1>2, <2>1 DEF OwnFrom
  <1>4. Unfinished(k, n)
    BY <1>1, <1>2 DEF Unfinished
  <1>5. LastFits(LastOf(k), "model")
    BY <1>1, <1>2 DEF LastFits, LastOf, Human, EndsTurn
  <1>6. Story(k, t, "model")
    BY <1>1, <1>2, <1>3, <1>4, <1>5 DEF Story
  <1> QED BY <1>6 DEF k

\* Whether the camera was called, after one more message.
LEMMA PictureAppended ==
  ASSUME NEW t, NEW h \in Seq(Messages), NEW m \in Messages
  PROVE  CameraCalled(Append(h, m), t) <=> CameraCalled(h, t) \/ HasPicture(m, t)
  <1> DEFINE k == Append(h, m)
  <1>1. /\ Len(k) = Len(h) + 1 /\ k[Len(h) + 1] = m
        /\ \A i \in 1..Len(h) : k[i] = h[i]
    OBVIOUS
  <1>2. Len(h) \in Nat
    OBVIOUS
  <1> HIDE DEF k
  <1>3. CameraCalled(k, t) <=> CameraCalled(h, t) \/ HasPicture(m, t)
    BY <1>1, <1>2 DEF CameraCalled
  <1> QED BY <1>3 DEF k

-----------------------------------------------------------------------------
\* The program starts in a state of the invariant.
LEMMA InitTurnInv == Init => TurnInv
  <1> SUFFICES ASSUME Init PROVE TurnInv
    OBVIOUS
  <1>1. Fits
    BY DEF Init, Fits, Phases, RequestsFit, Begun, Locked
  <1>2. Stories /\ Whole /\ CaptureIsTrue
    BY DEF Init, Stories, BegunOnly, Whole, Begun, CaptureIsTrue, CameraCalled
  <1> QED BY <1>1, <1>2 DEF TurnInv

\* No graph goes back to where it had not begun, so a message of a turn that has
\* begun stays one.
LEMMA BegunStays ==
  ASSUME NEW g, NEW f, \A t \in Turns : g[t] # "none" => f[t] # "none",
         NEW h \in Seq(Messages), BegunOnly(h, g)
  PROVE  BegunOnly(h, f)
  <1>1. \A i \in 1..Len(h) : h[i].turn \in Turns
    BY DEF Messages
  <1> QED BY <1>1 DEF BegunOnly

\* One more message of a turn that has begun.
LEMMA BegunAppended ==
  ASSUME NEW f, NEW h \in Seq(Messages), BegunOnly(h, f), NEW m \in Messages, f[m.turn] # "none"
  PROVE  BegunOnly(Append(h, m), f)
  <1>1. /\ Len(Append(h, m)) = Len(h) + 1 /\ Append(h, m)[Len(h) + 1] = m
        /\ \A i \in 1..Len(h) : Append(h, m)[i] = h[i]
        /\ Len(h) \in Nat
    OBVIOUS
  <1> QED BY <1>1 DEF BegunOnly

\* A step that saves nothing and begins no step of a graph.
LEMMA QuietTurnStep ==
  ASSUME TypeOK, TurnInv, UNCHANGED messages, UNCHANGED capture,
         \A t \in Turns : graph'[t] = graph[t] \/ (Begun(t) /\ graph'[t] \in {"failed", "stopped"}),
         Fits'
  PROVE  TurnInv'
  <1>1. \A t \in Turns : graph[t] # "none" => graph'[t] # "none"
    BY DEF Begun
  <1>2. Stories'
    <2>1. ASSUME NEW t \in Turns PROVE BegunOnly(memory[t], graph')
      BY <1>1, BegunStays DEF TypeOK, TurnInv, Stories
    <2>2. ASSUME NEW x \in Threads PROVE BegunOnly(history[x], graph')
      BY <1>1, BegunStays DEF TypeOK, TurnInv, Stories
    <2> QED BY <2>1, <2>2 DEF Stories, messages
  <1>3. Whole'
    <2> SUFFICES ASSUME NEW t \in Turns, graph'[t] # "none" PROVE Story(memory[t], t, graph'[t])
      BY DEF Whole, Begun, messages
    <2>1. Begun(t)
      BY DEF Begun
    <2>2. Story(memory[t], t, graph[t])
      BY <2>1 DEF TurnInv, Whole
    <2> QED BY <2>2 DEF Story, LastFits
  <1>4. CaptureIsTrue'
    BY DEF TurnInv, CaptureIsTrue, messages
  <1> QED BY <1>2, <1>3, <1>4 DEF TurnInv

\* A step of a running graph that saves message m.
LEMMA SavingTurnStep ==
  ASSUME TypeOK, TurnInv, NEW t \in Turns, graph[t] \in Steps,
         NEW m \in Messages, m.turn = t, Saves(t, m),
         graph[t] = "tools" => m = Results(t, LastOf(memory[t]).batch),
         NEW g, graph' = [graph EXCEPT ![t] = g], g # "none", LastFits(m, g),
         \A u \in Turns \ {t} : capture'[u] = capture[u],
         capture'[t] <=> capture[t] \/ HasPicture(m, t),
         UNCHANGED <<turn, requests>>
  PROVE  TurnInv'
  <1> DEFINE x == ThreadOf[t]
  <1>1. /\ memory'[t] = Append(memory[t], m) /\ history'[x] = Append(memory[t], m)
        /\ \A u \in Turns \ {t} : memory'[u] = memory[u]
        /\ \A y \in Threads \ {x} : history'[y] = history[y]
    BY SavesOne
  <1>2. /\ memory \in [Turns -> Seq(Messages)] /\ history \in [Threads -> Seq(Messages)]
        /\ x \in Threads
    BY ConstantsAssumption DEF TypeOK
  <1>3. graph'[t] = g /\ \A u \in Turns \ {t} : graph'[u] = graph[u]
    BY DEF TypeOK
  <1>4. graph[t] # "none" /\ \A u \in Turns : graph[u] # "none" => graph'[u] # "none"
    BY <1>3 DEF Steps
  <1>5. Fits'
    <2>1. turn[t] \notin {"unsent", "analyzing", "waiting", "finishing", "requesting", "completed"}
      BY <1>4 DEF TurnInv, Fits, Phases, Begun, Steps
    <2>2. requests[t] # 1
      BY DEF TurnInv, Fits, RequestsFit, Steps
    <2>3. Phases'
      BY <1>3, <2>1 DEF TurnInv, Fits, Phases, Begun
    <2>4. RequestsFit'
      BY <1>3, <2>1, <2>2 DEF TurnInv, Fits, RequestsFit
    <2> QED BY <2>3, <2>4 DEF Fits
  <1>6. BegunOnly(Append(memory[t], m), graph')
    <2>1. BegunOnly(memory[t], graph')
      BY <1>2, <1>4, BegunStays DEF TurnInv, Stories
    <2>2. memory[t] \in Seq(Messages) /\ graph'[m.turn] # "none"
      BY <1>2, <1>3
    <2> QED BY <2>1, <2>2, BegunAppended
  <1>7. Stories'
    <2>1. ASSUME NEW u \in Turns PROVE BegunOnly(memory'[u], graph')
      <3>1. BegunOnly(memory[u], graph')
        BY <1>2, <1>4, BegunStays DEF TurnInv, Stories
      <3> QED BY <1>1, <1>6, <3>1
    <2>2. ASSUME NEW y \in Threads PROVE BegunOnly(history'[y], graph')
      <3>1. BegunOnly(history[y], graph')
        BY <1>2, <1>4, BegunStays DEF TurnInv, Stories
      <3> QED BY <1>1, <1>6, <3>1
    <2> QED BY <2>1, <2>2 DEF Stories
  <1>8. Story(memory'[t], t, g)
    <2>1. Story(memory[t], t, graph[t])
      BY <1>4 DEF TurnInv, Whole, Begun
    <2>2. PICK n \in 1..Len(memory[t]) :
            OwnFrom(memory[t], t, n) /\ Unfinished(memory[t], n) /\ LastFits(LastOf(memory[t]), graph[t])
      BY <2>1 DEF Story
    <2>3. ~ EndsTurn(LastOf(memory[t]))
      BY <2>2 DEF LastFits, EndsTurn, Steps
    <2>4. LastOf(memory[t]).kind = "calls" => m = Results(t, LastOf(memory[t]).batch)
      BY <2>2 DEF LastFits, Steps
    <2> QED BY <1>1, <1>2, <2>2, <2>3, <2>4, StoryGoesOn
  <1>9. Whole'
    <2> SUFFICES ASSUME NEW u \in Turns, graph'[u] # "none" PROVE Story(memory'[u], u, graph'[u])
      BY DEF Whole, Begun
    <2>1. CASE u = t
      BY <1>3, <1>8, <2>1
    <2>2. CASE u # t
      BY <1>1, <1>3, <2>2 DEF TurnInv, Whole, Begun
    <2> QED BY <2>1, <2>2
  <1>10. CaptureIsTrue'
    <2>1. CameraCalled(memory'[t], t) <=> CameraCalled(memory[t], t) \/ HasPicture(m, t)
      BY <1>1, <1>2, PictureAppended
    <2> QED BY <1>1, <2>1 DEF TurnInv, CaptureIsTrue
  <1> QED BY <1>5, <1>7, <1>9, <1>10 DEF TurnInv

\* A turn's graph begins, with its input as the turn's first message.
LEMMA EnterTurnStep ==
  ASSUME TypeOK, TurnInv, NEW t \in Turns, EnterGraph(t)
  PROVE  TurnInv'
  <1> DEFINE x == ThreadOf[t]
  <1>1. /\ memory'[t] = history'[x] /\ history'[x] = Append(history[x], Human(t))
        /\ \A u \in Turns \ {t} : memory'[u] = memory[u]
        /\ \A y \in Threads \ {x} : history'[y] = history[y]
        /\ Human(t) \in Messages
    BY LoadsOne DEF EnterGraph, GraphBegins
  <1>2. /\ memory \in [Turns -> Seq(Messages)] /\ history \in [Threads -> Seq(Messages)]
        /\ x \in Threads
    BY ConstantsAssumption DEF TypeOK
  <1>3. /\ turn[t] = "waiting" /\ UNCHANGED <<capture, requests>>
        /\ turn' = [turn EXCEPT ![t] = "reading"] /\ graph' = [graph EXCEPT ![t] = "model"]
    BY DEF EnterGraph, GraphBegins
  <1>4. /\ graph[t] = "none" /\ graph'[t] = "model" /\ turn'[t] = "reading"
        /\ \A u \in Turns \ {t} : graph'[u] = graph[u] /\ turn'[u] = turn[u]
        /\ \A u \in Turns : graph[u] # "none" => graph'[u] # "none"
    BY <1>3 DEF TypeOK, TurnInv, Fits, Phases, Begun
  <1>5. Fits'
    <2>1. requests[t] # 1
      BY <1>4 DEF TurnInv, Fits, RequestsFit
    <2>2. Phases'
      BY <1>4 DEF TurnInv, Fits, Phases, Begun
    <2>3. RequestsFit'
      BY <1>3, <1>4, <2>1 DEF TurnInv, Fits, RequestsFit
    <2> QED BY <2>2, <2>3 DEF Fits
  <1>6. BegunOnly(Append(history[x], Human(t)), graph')
    <2>1. BegunOnly(history[x], graph')
      BY <1>2, <1>4, BegunStays DEF TurnInv, Stories
    <2>2. Human(t).turn = t
      BY DEF Human
    <2> QED BY <1>1, <1>2, <1>4, <2>1, <2>2, BegunAppended
  <1>7. Stories'
    <2>1. ASSUME NEW u \in Turns PROVE BegunOnly(memory'[u], graph')
      <3>1. BegunOnly(memory[u], graph')
        BY <1>2, <1>4, BegunStays DEF TurnInv, Stories
      <3> QED BY <1>1, <1>6, <3>1
    <2>2. ASSUME NEW y \in Threads PROVE BegunOnly(history'[y], graph')
      <3>1. BegunOnly(history[y], graph')
        BY <1>2, <1>4, BegunStays DEF TurnInv, Stories
      <3> QED BY <1>1, <1>6, <3>1
    <2> QED BY <2>1, <2>2 DEF Stories
  <1>8. Story(memory'[t], t, "model")
    <2>1. \A i \in 1..Len(history[x]) : history[x][i].turn # t
      BY <1>2, <1>4 DEF TurnInv, Stories, BegunOnly
    <2>2. history[x] \in Seq(Messages) /\ Human(t) \in Messages
      BY <1>1, <1>2
    <2>3. Story(Append(history[x], Human(t)), t, "model")
      BY <2>1, <2>2, StoryBegins
    <2> QED BY <1>1, <2>3
  <1>9. Whole'
    <2> SUFFICES ASSUME NEW u \in Turns, graph'[u] # "none" PROVE Story(memory'[u], u, graph'[u])
      BY DEF Whole, Begun
    <2>1. CASE u = t
      BY <1>4, <1>8, <2>1
    <2>2. CASE u # t
      BY <1>1, <1>4, <2>2 DEF TurnInv, Whole, Begun
    <2> QED BY <2>1, <2>2
  <1>10. CaptureIsTrue'
    <2>1. ~ CameraCalled(memory[t], t) /\ ~ CameraCalled(history[x], t)
      BY <1>2, <1>4 DEF TurnInv, Stories, BegunOnly, CameraCalled, HasPicture
    <2>2. ~ HasPicture(Human(t), t)
      BY DEF HasPicture, Human
    <2>3. ~ CameraCalled(memory'[t], t)
      BY <1>1, <1>2, <2>1, <2>2, PictureAppended
    <2> QED BY <1>1, <1>3, <2>1, <2>3 DEF TurnInv, CaptureIsTrue
  <1> QED BY <1>5, <1>7, <1>9, <1>10 DEF TurnInv

\* The steps that save nothing.
LEMMA OtherTurnSteps ==
  ASSUME TypeOK, TurnInv, NEW t \in Turns,
         \/ Begin(t) \/ ImagesAnalyzed(t) \/ VisionFails(t) \/ RequestsCamera(t) \/ Completes(t)
         \/ StreamEnds(t) \/ StreamRaises(t) \/ StreamIsClosed(t) \/ GraphIsStopped(t) \/ GraphFails(t)
         \/ Cancel(t)
  PROVE  TurnInv'
  <1> USE DEF TypeOK, TurnInv, Fits, Phases, RequestsFit, Begun, Locked, Steps, progress, settings, Leaves, Stopped
  <1>1. UNCHANGED messages /\ UNCHANGED capture
    BY DEF Begin, ImagesAnalyzed, VisionFails, RequestsCamera, Completes, StreamEnds, StreamRaises,
           StreamIsClosed, GraphIsStopped, GraphFails, Cancel, CancelledOutside, CancelledInGraph, ClosedAtYield
  <1>2. \A u \in Turns : graph'[u] = graph[u] \/ (Begun(u) /\ graph'[u] \in {"failed", "stopped"})
    BY DEF Begin, ImagesAnalyzed, VisionFails, RequestsCamera, Completes, StreamEnds, StreamRaises,
           StreamIsClosed, GraphIsStopped, GraphFails, Cancel, CancelledOutside, CancelledInGraph, ClosedAtYield
  <1>3. Fits'
    <2>1. CASE Begin(t) BY <2>1 DEF Begin
    <2>2. CASE ImagesAnalyzed(t) BY <2>2 DEF ImagesAnalyzed
    <2>3. CASE VisionFails(t) BY <2>3 DEF VisionFails
    <2>4. CASE RequestsCamera(t) BY <2>4 DEF RequestsCamera
    <2>5. CASE Completes(t) BY <2>5 DEF Completes
    <2>6. CASE StreamEnds(t) BY <2>6 DEF StreamEnds
    <2>7. CASE StreamRaises(t) BY <2>7 DEF StreamRaises
    <2>8. CASE StreamIsClosed(t) BY <2>8 DEF StreamIsClosed
    <2>9. CASE GraphIsStopped(t) BY <2>9 DEF GraphIsStopped
    <2>10. CASE GraphFails(t) BY <2>10 DEF GraphFails
    <2>11. CASE CancelledOutside(t) BY <2>11 DEF CancelledOutside
    <2>12. CASE CancelledInGraph(t) BY <2>12 DEF CancelledInGraph
    <2>13. CASE ClosedAtYield(t) BY <2>13 DEF ClosedAtYield
    <2> QED BY <2>1, <2>2, <2>3, <2>4, <2>5, <2>6, <2>7, <2>8, <2>9, <2>10, <2>11, <2>12, <2>13 DEF Cancel
  <1> HIDE DEF TypeOK, TurnInv, Fits
  <1> QED BY <1>1, <1>2, <1>3, QuietTurnStep

\* The steps of a graph that save a message.
LEMMA SavingTurnSteps ==
  ASSUME IInv, TurnInv, NEW t \in Turns, ModelAnswers(t) \/ ModelCalls(t) \/ ToolsReturn(t)
  PROVE  TurnInv'
  <1> USE DEF progress
  <1>1. TypeOK
    BY DEF IInv
  <1>2. CASE ModelAnswers(t)
    <2>1. Answer(t) \in Messages /\ Answer(t).turn = t /\ LastFits(Answer(t), "ended")
          /\ ~ HasPicture(Answer(t), t)
      BY DEF Answer, Messages, LastFits, EndsTurn, HasPicture
    <2> QED BY <1>1, <1>2, <2>1, SavingTurnStep DEF ModelAnswers, Steps
  <1>3. CASE ModelCalls(t)
    <2>1. PICK b \in Batches : Saves(t, Calls(t, b))
      BY <1>3 DEF ModelCalls
    <2>2. Calls(t, b) \in Messages /\ Calls(t, b).turn = t /\ LastFits(Calls(t, b), "tools")
          /\ ~ HasPicture(Calls(t, b), t)
      BY DEF Calls, Messages, LastFits, EndsTurn, HasPicture
    <2> QED BY <1>1, <1>3, <2>1, <2>2, SavingTurnStep DEF ModelCalls, Steps
  <1>4. CASE ToolsReturn(t)
    <2> DEFINE b == Batch(t)
               m == Results(t, b)
               next == IF LastOf(b) = Camera THEN "ended" ELSE "model"
    <2>1. b \in Batches
      <3>1. CallsLast(memory[t]) /\ memory[t] \in Seq(Messages)
        BY <1>4 DEF ToolsReturn, IInv, TypeOK, GraphInv, ToolsHaveCalls
      <3>2. LastOf(memory[t]) \in Messages /\ LastOf(memory[t]).kind = "calls"
        BY <3>1 DEF CallsLast, LastOf
      <3> QED BY <3>2 DEF Batch, Messages
    <2>2. m \in Messages /\ m.turn = t /\ m.kind = "results" /\ m.batch = b
      BY <2>1 DEF Results, Messages
    <2>3. HasPicture(m, t) <=> SeesCamera(b)
      BY <2>2 DEF HasPicture, SeesCamera
    <2>4. next # "none" /\ LastFits(m, next)
      BY <2>2 DEF LastFits, EndsTurn
    <2>5. /\ graph[t] = "tools" /\ Saves(t, m) /\ graph' = [graph EXCEPT ![t] = next]
          /\ capture' = [capture EXCEPT ![t] = IF SeesCamera(b) THEN TRUE ELSE @]
          /\ UNCHANGED <<turn, requests>>
      BY <1>4 DEF ToolsReturn
    <2>6. m = Results(t, LastOf(memory[t]).batch)
      BY DEF Batch
    <2>7. /\ \A u \in Turns \ {t} : capture'[u] = capture[u]
          /\ capture'[t] <=> capture[t] \/ HasPicture(m, t)
      BY <1>1, <2>3, <2>5 DEF TypeOK
    <2> HIDE DEF m, next
    <2> QED BY <1>1, <2>2, <2>4, <2>5, <2>6, <2>7, SavingTurnStep DEF Steps
  <1> QED BY <1>2, <1>3, <1>4

\* Every step keeps the invariant.
LEMMA StepTurnInv == IInv /\ TurnInv /\ [Next]_vars => TurnInv'
  <1> SUFFICES ASSUME IInv, TurnInv, [Next]_vars PROVE TurnInv'
    OBVIOUS
  <1>1. TypeOK
    BY DEF IInv
  <1>2. ASSUME UNCHANGED <<turn, graph, capture, requests, messages>> PROVE TurnInv'
    BY <1>2 DEF messages, TurnInv, Fits, Phases, RequestsFit, Begun, Stories, Whole, CaptureIsTrue
  <1>3. CASE Publish
    BY <1>2, <1>3 DEF Publish, progress
  <1>4. CASE UNCHANGED vars
    BY <1>2, <1>4 DEF vars, progress
  <1>5. ASSUME NEW t \in Turns, Begin(t) \/ TurnStep(t) \/ GraphStep(t) \/ Cancel(t) PROVE TurnInv'
    BY <1>1, <1>5, EnterTurnStep, OtherTurnSteps, SavingTurnSteps DEF TurnStep, GraphStep
  <1> QED BY <1>3, <1>4, <1>5 DEF Next, AllTurnsRun

\* Where each turn and its graph are, what the histories hold of it and what was
\* requested of its device fit together in every reachable state.
THEOREM TurnInvariant == Spec => []TurnInv
  <1> QED BY InitTurnInv, StepTurnInv, InductiveInvariant, PTL DEF Spec

-----------------------------------------------------------------------------
\* However a conversation's turns fail, are cancelled or share their thread, what a
\* completed turn leaves in the history is whole: no call without its results, and
\* an answer or a camera's result at its end, nowhere before.
THEOREM CompletedTurnsAreWhole == Spec => []CompletedTurnIsWhole
  <1>1. ASSUME TypeOK, TurnInv, NEW t \in Turns, turn[t] = "completed"
        PROVE  \E n \in 1..Len(memory[t]) :
                 /\ OwnFrom(memory[t], t, n)
                 /\ \A i \in n..Len(memory[t]) :
                      /\ memory[t][i].kind = "calls" => AnsweredAt(memory[t], i)
                      /\ i = Len(memory[t]) <=> EndsTurn(memory[t][i])
    <2> DEFINE h == memory[t]
    <2>1. h \in Seq(Messages) /\ graph[t] = "ended"
      BY <1>1 DEF TypeOK, TurnInv, Fits, Phases
    <2>2. PICK n \in 1..Len(h) : OwnFrom(h, t, n) /\ Unfinished(h, n) /\ EndsTurn(LastOf(h))
      BY <1>1, <2>1 DEF TurnInv, Whole, Begun, Story, LastFits
    <2>3. ASSUME NEW i \in n..Len(h)
          PROVE  /\ h[i].kind = "calls" => AnsweredAt(h, i)
                 /\ i = Len(h) <=> EndsTurn(h[i])
      <3>1. Len(h) \in Nat /\ n \in Nat
        BY <2>1
      <3>2. CASE i = Len(h)
        BY <2>2, <3>2 DEF LastOf, EndsTurn
      <3>3. CASE i # Len(h)
        <4>1. i \in n..Len(h) - 1
          BY <3>1, <3>3
        <4> QED BY <2>2, <3>3, <4>1 DEF Unfinished
      <3> QED BY <3>2, <3>3
    <2> QED BY <2>2, <2>3
  <1>2. IInv /\ TurnInv => CompletedTurnIsWhole
    BY <1>1 DEF IInv, CompletedTurnIsWhole
  <1> QED BY <1>2, InductiveInvariant, TurnInvariant, PTL

\* The camera is requested by no turn that did not call it, by none twice, and by
\* every completed turn that did, whatever it called besides.
THEOREM CameraRequestedOnce == Spec => []CameraIsRequestedOnce
  <1>1. TurnInv => CameraIsRequestedOnce
    <2> SUFFICES ASSUME TurnInv, NEW t \in Turns
                 PROVE  /\ requests[t] <= IF CameraCalled(memory[t], t) THEN 1 ELSE 0
                        /\ turn[t] = "completed" /\ CameraCalled(memory[t], t) => requests[t] = 1
      BY DEF CameraIsRequestedOnce
    <2>1. capture[t] <=> CameraCalled(memory[t], t)
      BY DEF TurnInv, CaptureIsTrue
    <2> QED BY <2>1 DEF TurnInv, Fits, RequestsFit
  <1> QED BY <1>1, TurnInvariant, PTL
=============================================================================
